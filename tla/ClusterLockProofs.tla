-------------------------- MODULE ClusterLockProofs --------------------------
(***************************************************************************)
(* Proofs about ClusterLock, for every set of processes, tasks and         *)
(* instances, every clock skew and every bound.                            *)
(*                                                                         *)
(* LocalInv is about one process: which request has a caller, and what the *)
(* caller is waiting for.  LeaseInv is about the protocol between          *)
(* processes: what the Lease and the requests under way say about each     *)
(* other.  LeaseInv needs the Lease never to be deleted.                   *)
(***************************************************************************)
EXTENDS ClusterLock, TLAPS

\* A request with a live caller has exactly the caller that sent it.
CallersWait ==
    /\ \A r \in wire : r.op = "acquire" => phase[r.inst] = "put"
    /\ \A r \in wire : r.op = "clear" => phase[r.inst] = "clearput"
    /\ \A r, s \in wire :
          r.op = s.op /\ r.inst = s.inst /\ r.op # "orphan" => r = s

\* Tasks only touch the instances of their own process.
SameProcess ==
    /\ \A i \in Insts : owner[i] # NoOne => TaskProc[owner[i]] = InstProc[i]
    /\ \A t \in Tasks : call[t] # NoOne => TaskProc[t] = InstProc[call[t]]

LocalInv == TypeOK /\ NoAbsentOwner /\ NoRenewLeak /\ CallersWait /\ SameProcess

\* s is a request of W, perhaps without its caller.
Carried(s, W) ==
    \E q \in W : /\ s.inst = q.inst /\ s.rv = q.rv /\ s.holder = q.holder
                 /\ s.renew = q.renew /\ s.dur = q.dur
                 /\ s = q \/ s.op = "orphan"

-----------------------------------------------------------------------------

\* Orphaning a request changes nothing but its caller (Kube.run keeps the
\* worker thread going).
LEMMA OrphanFields ==
    ASSUME NEW r \in Requests
    PROVE  /\ Orphan(r) \in Requests
           /\ Orphan(r).op = "orphan"
           /\ Orphan(r).inst = r.inst /\ Orphan(r).rv = r.rv
           /\ Orphan(r).holder = r.holder /\ Orphan(r).renew = r.renew
           /\ Orphan(r).dur = r.dur
BY DEF Orphan, Requests, Ops

\* A request whose caller stops waiting is gone or an orphan; the others stay.
LEMMA AbandonWire ==
    ASSUME wire \subseteq Requests, NEW r \in wire, Abandon(r)
    PROVE  /\ wire' \subseteq Requests
           /\ \A s \in wire' : Carried(s, wire)
           /\ \A s \in wire' : s.op # "orphan" => s \in wire /\ s # r
<1>1. PICK kept \in {{}, {Orphan(r)}} : wire' = (wire \ {r}) \cup kept
  BY DEF Abandon
<1>2. \A s \in wire' : (s \in wire /\ s # r) \/ s = Orphan(r)
  BY <1>1
<1>3. r \in Requests
  OBVIOUS
<1>. QED
  BY <1>2, <1>3, OrphanFields DEF Carried

\* The same for all requests of a crashed process or a cancelled renew loop.
LEMMA AbandonAllWire ==
    ASSUME wire \subseteq Requests, NEW I, NEW ops, AbandonAll(I, ops)
    PROVE  /\ wire' \subseteq Requests
           /\ \A s \in wire' : Carried(s, wire)
           /\ \A s \in wire' : s.op # "orphan" =>
                 s \in wire /\ ~(s.inst \in I /\ s.op \in ops)
<1>. DEFINE left == {r \in wire : r.inst \in I /\ r.op \in ops}
<1>1. wire' = (wire \ left) \cup {Orphan(r) : r \in left}
  BY DEF AbandonAll
<1>2. \A s \in wire' : \/ s \in wire /\ s \notin left
                       \/ \E r \in wire : s = Orphan(r)
  BY <1>1
<1>. QED
  BY <1>2, OrphanFields DEF Carried

\* What an instance writes is a well-formed request.
LEMMA RequestType ==
    ASSUME TypeOK, NEW i \in Insts, NEW op \in Ops,
           NEW h \in Insts \cup {NoOne}
    PROVE  Request(i, op, h) \in Requests
<1>1. Skew[InstProc[i]] \in 0..MaxSkew
  BY ProcAssumption, TimeAssumption
<1>2. Clock(i) \in Nat
  BY <1>1, TimeAssumption DEF Clock, TypeOK
<1>. QED
  BY <1>2, TimeAssumption DEF Request, Requests, TypeOK, Leases

-----------------------------------------------------------------------------
(* LocalInv is inductive.  One lemma per group of actions.                 *)

LEMMA LocalInit == Init => LocalInv
<1>1. NoLease \in Leases
  BY DEF NoLease, Leases
<1>2. ASSUME Init PROVE TypeOK
  <2>1. deleted \in BOOLEAN
    BY <1>2, Zenon DEF Init
  <2>. QED
    BY <1>1, <1>2, <2>1, BoundAssumption DEF Init, TypeOK, Phases
<1>3. ASSUME Init PROVE NoAbsentOwner /\ NoRenewLeak
  BY <1>3 DEF Init, NoAbsentOwner, NoRenewLeak
<1>4. ASSUME Init PROVE CallersWait
  BY <1>4 DEF Init, CallersWait
<1>5. ASSUME Init PROVE SameProcess
  BY <1>5 DEF Init, SameProcess
<1>. QED
  BY <1>2, <1>3, <1>4, <1>5 DEF LocalInv

\* The task-level lock does not touch the wire or the renew loop.
LEMMA LocalTaskSteps ==
    ASSUME LocalInv, NEW t \in Tasks,
           Lock(t) \/ Claim(t) \/ StopWaiting(t)
    PROVE  LocalInv'
<1>. USE NoOneAssumption, ProcAssumption
<1>. USE DEF LocalInv, TypeOK, serverVars, renewVars, Phases
<1>1. CASE Lock(t)
  <2>1. PICK i \in Insts :
           /\ Constructed(TaskProc[t], i)
           /\ registry' = [registry EXCEPT ![TaskProc[t]] = i]
           /\ made' = made \cup {i}
           /\ \/ owner[i] = NoOne /\ TakeOwnership(t, i)
              \/ /\ owner[i] = t
                 /\ depth[i] < MaxDepth
                 /\ depth' = [depth EXCEPT ![i] = @ + 1]
                 /\ UNCHANGED <<owner, phase, call>>
              \/ /\ owner[i] \notin {t, NoOne}
                 /\ call' = [call EXCEPT ![t] = i]
                 /\ UNCHANGED <<owner, depth, phase>>
    BY <1>1 DEF Lock
  <2>2. call[t] = NoOne /\ InstProc[i] = TaskProc[t]
    BY <1>1, <2>1 DEF Lock, Constructed
  <2>3. UNCHANGED <<now, version, lease, deleted, wire, gone, renew, renewErr, granted>>
        /\ outcome' = "none"
    BY <1>1 DEF Lock
  <2>4. TypeOK'
    BY <2>1, <2>3 DEF TakeOwnership
  <2>5. NoAbsentOwner'
    BY <2>1, <2>2, <2>3 DEF NoAbsentOwner, TakeOwnership
  <2>6. NoRenewLeak' /\ CallersWait'
    BY <2>1, <2>3 DEF NoRenewLeak, CallersWait, NoAbsentOwner, TakeOwnership, Requests
  <2>7. SameProcess'
    BY <2>1, <2>2 DEF SameProcess, TakeOwnership
  <2>. QED
    BY <2>4, <2>5, <2>6, <2>7
<1>2. CASE Claim(t)
  <2>1. PICK i \in Insts : i = call[t] /\ owner[i] = NoOne /\ TakeOwnership(t, i)
    BY <1>2 DEF Claim
  <2>2. UNCHANGED <<now, version, lease, deleted, wire, registry, made, gone, renew, renewErr, granted>>
        /\ outcome' = "none"
    BY <1>2 DEF Claim
  <2>3. TypeOK'
    BY <2>1, <2>2 DEF TakeOwnership
  <2>4. NoAbsentOwner'
    BY <2>1, <2>2 DEF NoAbsentOwner, TakeOwnership
  <2>5. NoRenewLeak' /\ CallersWait'
    BY <2>1, <2>2 DEF NoRenewLeak, CallersWait, NoAbsentOwner, TakeOwnership, Requests
  <2>6. SameProcess'
    BY <2>1 DEF SameProcess, TakeOwnership
  <2>. QED
    BY <2>3, <2>4, <2>5, <2>6
<1>3. CASE StopWaiting(t)
  <2>1. TypeOK'
    BY <1>3 DEF StopWaiting
  <2>2. NoAbsentOwner'
    BY <1>3 DEF StopWaiting, NoAbsentOwner
  <2>3. NoRenewLeak' /\ CallersWait' /\ SameProcess'
    BY <1>3 DEF StopWaiting, NoRenewLeak, CallersWait, SameProcess
  <2>. QED
    BY <2>1, <2>2, <2>3
<1>. QED
  BY <1>1, <1>2, <1>3

\* A call that returns or raises leaves no owner, no request of its own with a
\* caller and no renew loop (_clear_owner).
LEMMA LocalClearOwner ==
    ASSUME LocalInv, NEW i \in Insts, ClearOwner(i),
           phase[i] \notin {"held", "leaked"}, owner[i] # NoOne, renew' = renew,
           wire' \subseteq Requests, gone \subseteq gone',
           \A s \in wire' : s.op # "orphan" =>
              s \in wire /\ ~(s.inst = i /\ s.op \in {"acquire", "clear"})
    PROVE  /\ owner' \in [Insts -> Tasks \cup {NoOne}]
           /\ depth' \in [Insts -> Nat]
           /\ phase' \in [Insts -> Phases]
           /\ granted' \in [Insts -> Nat]
           /\ call' \in [Tasks -> Insts \cup {NoOne}]
           /\ NoAbsentOwner' /\ NoRenewLeak' /\ CallersWait' /\ SameProcess'
<1>. USE NoOneAssumption DEF LocalInv, TypeOK, ClearOwner
<1>1. /\ owner' \in [Insts -> Tasks \cup {NoOne}]
      /\ depth' \in [Insts -> Nat]
      /\ phase' \in [Insts -> Phases]
      /\ granted' \in [Insts -> Nat]
      /\ call' \in [Tasks -> Insts \cup {NoOne}]
  BY DEF Phases
<1>2. NoAbsentOwner'
  BY DEF NoAbsentOwner
<1>3. NoRenewLeak'
  <2>1. \A j \in Insts : renew[j] # "none" => phase'[j] = "held"
    BY DEF NoRenewLeak
  <2>2. \A r \in wire' : r.op = "renew" => r \in wire
    OBVIOUS
  <2>. QED
    BY <2>1, <2>2 DEF NoRenewLeak
<1>4. CallersWait'
  <2>1. \A r \in wire' : r.op = "acquire" => phase'[r.inst] = "put"
    BY DEF CallersWait, Requests
  <2>2. \A r \in wire' : r.op = "clear" => phase'[r.inst] = "clearput"
    BY DEF CallersWait, Requests
  <2>3. \A r, s \in wire' :
          r.op = s.op /\ r.inst = s.inst /\ r.op # "orphan" => r = s
    BY DEF CallersWait
  <2>. QED
    BY <2>1, <2>2, <2>3 DEF CallersWait
<1>5. SameProcess'
  BY DEF SameProcess
<1>. QED
  BY <1>1, <1>2, <1>3, <1>4, <1>5

\* unlock() up to its first request.
LEMMA LocalUnlock ==
    ASSUME LocalInv, NEW t \in Tasks, Unlock(t)
    PROVE  LocalInv'
<1>. USE NoOneAssumption, ProcAssumption
<1>. USE DEF LocalInv, TypeOK, serverVars
<1>1. PICK i \in Insts :
        /\ owner[i] = t
        /\ phase[i] = "held"
        /\ depth' = [depth EXCEPT ![i] = @ - 1]
        /\ IF depth[i] > 1
             THEN UNCHANGED <<phase, renew, call, wire>>
             ELSE /\ phase' = [phase EXCEPT ![i] = "clear"]
                  /\ renew' = [renew EXCEPT ![i] = "none"]
                  /\ call' = [call EXCEPT ![t] = i]
                  /\ AbandonAll({i}, {"renew"})
  BY DEF Unlock
<1>2. /\ call[t] = NoOne /\ outcome' = "none"
      /\ UNCHANGED <<now, version, lease, deleted, registry, made, owner, gone, renewErr, granted>>
  BY DEF Unlock
<1>3. depth[i] > 0
  BY <1>1 DEF NoAbsentOwner
<1>4. CASE depth[i] > 1
  <2>1. TypeOK'
    BY <1>1, <1>2, <1>3, <1>4
  <2>2. NoAbsentOwner'
    BY <1>1, <1>2, <1>3, <1>4 DEF NoAbsentOwner
  <2>3. NoRenewLeak' /\ CallersWait' /\ SameProcess'
    BY <1>1, <1>2, <1>4 DEF NoRenewLeak, CallersWait, SameProcess
  <2>. QED
    BY <2>1, <2>2, <2>3
<1>5. CASE ~(depth[i] > 1)
  <2>1. /\ wire' \subseteq Requests
        /\ \A s \in wire' : s.op # "orphan" =>
              s \in wire /\ ~(s.inst = i /\ s.op = "renew")
    BY <1>1, <1>5, AbandonAllWire
  <2>2. TypeOK'
    <3>1. depth' \in [Insts -> Nat]
      BY <1>1, <1>3
    <3>2. /\ phase' \in [Insts -> Phases]
          /\ renew' \in [Insts -> {"none", "sleep", "put", "dead"}]
          /\ call' \in [Tasks -> Insts \cup {NoOne}]
      BY <1>1, <1>5 DEF Phases
    <3>. QED
      BY <1>2, <2>1, <3>1, <3>2
  <2>3. NoAbsentOwner'
    BY <1>1, <1>2, <1>3, <1>5 DEF NoAbsentOwner
  <2>4. NoRenewLeak'
    <3>1. \A j \in Insts : renew'[j] # "none" => phase'[j] = "held"
      BY <1>1, <1>5 DEF NoRenewLeak
    <3>2. \A r \in wire' : r.op = "renew" => renew'[r.inst] = "put"
      BY <1>1, <1>5, <2>1 DEF NoRenewLeak, Requests
    <3>. QED
      BY <3>1, <3>2 DEF NoRenewLeak
  <2>5. CallersWait'
    BY <1>1, <1>5, <2>1 DEF CallersWait, Requests
  <2>6. SameProcess'
    BY <1>1, <1>2, <1>5 DEF SameProcess
  <2>. QED
    BY <2>2, <2>3, <2>4, <2>5, <2>6
<1>. QED
  BY <1>4, <1>5

\* An instance about to write sends its one request (_try_acquire_lease,
\* _renew_loop, _clear_lease).
LEMMA LocalReadSteps ==
    ASSUME LocalInv, NEW i \in Insts,
           TryAcquire(i) \/ RenewRead(i) \/ ClearRead(i) \/ GiveUp(i)
    PROVE  LocalInv'
<1>. USE NoOneAssumption
<1>. USE DEF LocalInv, TypeOK, serverVars, localVars, renewVars
<1>1. CASE TryAcquire(i)
  <2>1. PICK r \in Requests : r.op = "acquire" /\ r.inst = i /\ wire' = wire \cup {r}
    BY <1>1, RequestType DEF TryAcquire, Send, Request, Ops
  <2>2. /\ phase[i] = "poll" /\ phase' = [phase EXCEPT ![i] = "put"] /\ outcome' = "none"
        /\ UNCHANGED <<now, version, lease, deleted, registry, made, owner, depth, call, gone,
                       renew, renewErr, granted>>
    BY <1>1 DEF TryAcquire
  <2>3. TypeOK'
    BY <2>1, <2>2 DEF Phases
  <2>4. NoAbsentOwner'
    BY <2>2 DEF NoAbsentOwner
  <2>5. NoRenewLeak' /\ SameProcess'
    BY <2>1, <2>2 DEF NoRenewLeak, SameProcess
  <2>6. CallersWait'
    BY <2>1, <2>2 DEF CallersWait, Requests
  <2>. QED
    BY <2>3, <2>4, <2>5, <2>6
<1>2. CASE GiveUp(i)
  <2>1. /\ phase[i] = "poll" /\ ClearOwner(i) /\ outcome' = "none"
        /\ UNCHANGED <<now, version, lease, deleted, wire, registry, made, gone, renew, renewErr>>
    BY <1>2 DEF GiveUp, RaiseFromLock
  <2>2. \A s \in wire : ~(s.inst = i /\ s.op \in {"acquire", "clear"})
    BY <2>1 DEF CallersWait
  <2>3. owner[i] # NoOne
    BY <2>1 DEF NoAbsentOwner
  <2>. QED
    BY <2>1, <2>2, <2>3, LocalClearOwner
<1>3. CASE RenewRead(i)
  <2>0. /\ renew[i] = "sleep" /\ outcome' = "none"
        /\ UNCHANGED <<now, version, lease, deleted, registry, made, owner, depth, call, gone,
                       phase, granted>>
    BY <1>3 DEF RenewRead
  <2>1. CASE /\ Send(Request(i, "renew", i))
             /\ renew' = [renew EXCEPT ![i] = "put"]
             /\ UNCHANGED renewErr
    <3>1. PICK r \in Requests : r.op = "renew" /\ r.inst = i /\ wire' = wire \cup {r}
      BY <2>1, RequestType DEF Send, Request, Ops
    <3>2. TypeOK'
      BY <2>0, <2>1, <3>1
    <3>3. NoRenewLeak'
      BY <2>0, <2>1, <3>1 DEF NoRenewLeak, Requests
    <3>4. NoAbsentOwner' /\ SameProcess'
      BY <2>0 DEF NoAbsentOwner, SameProcess
    <3>5. CallersWait'
      BY <2>0, <3>1 DEF CallersWait, NoRenewLeak, Requests
    <3>. QED
      BY <3>2, <3>3, <3>4, <3>5
  <2>2. CASE /\ renew' = [renew EXCEPT ![i] = "dead"]
             /\ renewErr' = [renewErr EXCEPT ![i] = TRUE]
             /\ UNCHANGED wire
    <3>1. TypeOK'
      BY <2>0, <2>2
    <3>2. NoRenewLeak'
      BY <2>0, <2>2 DEF NoRenewLeak, Requests
    <3>3. NoAbsentOwner' /\ SameProcess' /\ CallersWait'
      BY <2>0, <2>2 DEF NoAbsentOwner, SameProcess, CallersWait
    <3>. QED
      BY <3>1, <3>2, <3>3
  <2>. QED
    BY <1>3, <2>1, <2>2 DEF RenewRead
<1>4. CASE ClearRead(i)
  <2>0. phase[i] = "clear" /\ UNCHANGED <<now, version, lease, deleted, renew>>
    BY <1>4 DEF ClearRead
  <2>1. CASE /\ Send(Request(i, "clear", NoOne))
             /\ phase' = [phase EXCEPT ![i] = "clearput"]
             /\ outcome' = "none"
             /\ UNCHANGED <<localVars, renewErr, granted>>
    <3>1. PICK r \in Requests : r.op = "clear" /\ r.inst = i /\ wire' = wire \cup {r}
      BY <2>1, RequestType DEF Send, Request, Ops
    <3>2. TypeOK'
      BY <2>0, <2>1, <3>1 DEF Phases
    <3>3. NoAbsentOwner'
      BY <2>0, <2>1 DEF NoAbsentOwner
    <3>4. NoRenewLeak' /\ SameProcess'
      BY <2>0, <2>1, <3>1 DEF NoRenewLeak, SameProcess
    <3>5. CallersWait'
      BY <2>0, <2>1, <3>1 DEF CallersWait, Requests
    <3>. QED
      BY <3>2, <3>3, <3>4, <3>5
  <2>2. CASE (\E failed \in BOOLEAN : ReturnFromUnlock(i, failed)) /\ UNCHANGED wire
    <3>1. ClearOwner(i) /\ registry' \in [Procs -> Insts \cup {NoOne}]
          /\ UNCHANGED <<made, gone>>
      BY <2>2, ProcAssumption DEF ReturnFromUnlock
    <3>2. renewErr' \in [Insts -> BOOLEAN] /\ outcome' \in {"none", "ok", "raised"}
      BY <2>2 DEF ReturnFromUnlock
    <3>3. \A s \in wire : ~(s.inst = i /\ s.op \in {"acquire", "clear"})
      BY <2>0 DEF CallersWait
    <3>4. owner[i] # NoOne
      BY <2>0 DEF NoAbsentOwner
    <3>. QED
      BY <2>0, <2>2, <3>1, <3>2, <3>3, <3>4, LocalClearOwner
  <2>. QED
    BY <1>4, <2>1, <2>2 DEF ClearRead
<1>. QED
  BY <1>1, <1>2, <1>3, <1>4

\* The environment: time, a deleted Lease, and a crash that takes a whole
\* process with it.
LEMMA LocalEnvironment ==
    ASSUME LocalInv, Tick \/ DeleteLease \/ \E p \in Procs : Crash(p)
    PROVE  LocalInv'
<1>. USE NoOneAssumption, ProcAssumption, BoundAssumption
<1>. USE DEF LocalInv, TypeOK, localVars, renewVars, serverVars
<1>1. CASE Tick
  BY <1>1 DEF Tick, NoAbsentOwner, NoRenewLeak, CallersWait, SameProcess
<1>2. CASE DeleteLease
  <2>1. NoLease \in Leases
    BY DEF NoLease, Leases
  <2>. QED
    BY <1>2, <2>1 DEF DeleteLease, NoAbsentOwner, NoRenewLeak, CallersWait, SameProcess
<1>3. CASE \E p \in Procs : Crash(p)
  <2>. PICK p \in Procs : Crash(p)
    BY <1>3
  <2>. DEFINE dead == {i \in Insts : InstProc[i] = p}
  <2>1. /\ wire' \subseteq Requests
        /\ \A s \in wire' : s.op # "orphan" => s \in wire /\ s.inst \notin dead
    <3>1. AbandonAll(dead, Ops)
      BY DEF Crash
    <3>2. \A s \in wire : s.op \in Ops
      BY DEF Requests
    <3>. QED
      BY <3>1, <3>2, AbandonAllWire
  <2>2. TypeOK'
    BY <2>1 DEF Crash, Phases
  <2>3. NoAbsentOwner'
    BY DEF Crash, NoAbsentOwner, SameProcess
  <2>4. NoRenewLeak'
    BY <2>1 DEF Crash, NoRenewLeak, Requests
  <2>5. CallersWait'
    BY <2>1 DEF Crash, CallersWait, Requests
  <2>6. SameProcess'
    BY DEF Crash, SameProcess
  <2>. QED
    BY <2>2, <2>3, <2>4, <2>5, <2>6
<1>. QED
  BY <1>1, <1>2, <1>3

\* The server's answer, or its absence, is handled by the caller that waits
\* for it and by no one else.
LEMMA LocalRequestSteps ==
    ASSUME LocalInv, NEW r \in wire, Serve(r) \/ RequestFails(r)
    PROVE  LocalInv'
<1>. USE NoOneAssumption, ProcAssumption
<1>. USE DEF LocalInv, TypeOK, localVars, renewVars, serverVars
<1>1. /\ r \in Requests /\ r.inst \in Insts /\ r.renew \in Nat
      /\ r.op \in {"acquire", "renew", "clear", "orphan"}
  BY DEF Requests, Ops
<1>2. now' = now /\ version' \in Nat /\ lease' \in Leases /\ deleted' = deleted
  <2>1. CASE Serve(r) /\ VersionMatches(r)
    <3>1. now' = now /\ deleted' = deleted /\ version' = version + 1
          /\ lease' = [rv |-> version + 1, holder |-> r.holder,
                       renew |-> r.renew, dur |-> r.dur]
      BY <2>1 DEF Serve
    <3>. QED
      BY <1>1, <3>1 DEF Leases, Requests
  <2>2. CASE Serve(r) /\ ~VersionMatches(r)
    BY <2>2 DEF Serve
  <2>3. CASE RequestFails(r)
    BY <2>3 DEF RequestFails
  <2>. QED
    BY <2>1, <2>2, <2>3
<1>3. /\ wire' \subseteq Requests
      /\ \A s \in wire' : s.op # "orphan" => s \in wire /\ s # r
  <2>1. CASE Serve(r)
    BY <2>1 DEF Serve
  <2>2. CASE RequestFails(r)
    BY <2>2, AbandonWire DEF RequestFails
  <2>. QED
    BY <2>1, <2>2
<1>4. \A s \in wire' : s.op # "orphan" => ~(s.op = r.op /\ s.inst = r.inst)
  BY <1>3 DEF CallersWait
<1>5. CASE r.op = "acquire"
  <2>1. phase[r.inst] = "put" /\ owner[r.inst] # NoOne /\ renew[r.inst] = "none"
    BY <1>1, <1>5 DEF CallersWait, NoAbsentOwner, NoRenewLeak
  <2>2. CASE Answered(r, TRUE)
    <3>0. /\ phase' = [phase EXCEPT ![r.inst] = "held"]
          /\ renew' = [renew EXCEPT ![r.inst] = "sleep"]
          /\ renewErr' = [renewErr EXCEPT ![r.inst] = FALSE]
          /\ granted' = [granted EXCEPT ![r.inst] = r.renew]
          /\ call' = [call EXCEPT ![owner[r.inst]] = NoOne]
          /\ outcome' = "none"
          /\ UNCHANGED <<registry, made, owner, depth, gone>>
      BY <1>5, <2>2 DEF Answered
    <3>1. TypeOK'
      BY <1>1, <1>2, <1>3, <3>0 DEF Phases
    <3>2. NoAbsentOwner'
      BY <1>1, <2>1, <3>0 DEF NoAbsentOwner
    <3>3. NoRenewLeak'
      BY <1>1, <1>3, <2>1, <3>0 DEF NoRenewLeak, Requests
    <3>4. CallersWait'
      BY <1>1, <1>3, <1>4, <1>5, <2>1, <3>0 DEF CallersWait, Requests
    <3>5. SameProcess'
      BY <3>0 DEF SameProcess
    <3>. QED
      BY <3>1, <3>2, <3>3, <3>4, <3>5
  <2>3. CASE Answered(r, FALSE)
    <3>0. /\ phase' = [phase EXCEPT ![r.inst] = "poll"]
          /\ outcome' = "none"
          /\ UNCHANGED <<registry, made, owner, depth, call, gone, renew, renewErr, granted>>
      BY <1>5, <2>3 DEF Answered
    <3>1. TypeOK'
      BY <1>1, <1>2, <1>3, <3>0 DEF Phases
    <3>2. NoAbsentOwner'
      BY <1>1, <2>1, <3>0 DEF NoAbsentOwner
    <3>3. NoRenewLeak' /\ SameProcess'
      BY <1>1, <1>3, <2>1, <3>0 DEF NoRenewLeak, SameProcess
    <3>4. CallersWait'
      BY <1>1, <1>3, <1>4, <1>5, <2>1, <3>0 DEF CallersWait, Requests
    <3>. QED
      BY <3>1, <3>2, <3>3, <3>4
  <2>4. CASE RequestFails(r)
    <3>1. /\ ClearOwner(r.inst) /\ outcome' = "none"
          /\ UNCHANGED <<registry, made, gone, renew, renewErr>>
      BY <1>5, <2>4 DEF RequestFails, RaiseFromLock
    <3>2. \A s \in wire' : s.op # "orphan" =>
             s \in wire /\ ~(s.inst = r.inst /\ s.op \in {"acquire", "clear"})
      BY <1>3, <1>4, <1>5, <2>1 DEF CallersWait
    <3>. QED
      BY <1>1, <1>2, <1>3, <2>1, <3>1, <3>2, LocalClearOwner
  <2>. QED
    BY <2>2, <2>3, <2>4 DEF Serve
<1>6. CASE r.op = "renew"
  <2>1. renew[r.inst] = "put" /\ phase[r.inst] = "held"
    BY <1>1, <1>6 DEF NoRenewLeak
  <2>2. PICK n \in {"sleep", "dead"} :
          /\ renew' = [renew EXCEPT ![r.inst] = n]
          /\ renewErr' \in [Insts -> BOOLEAN] /\ granted' \in [Insts -> Nat]
          /\ outcome' = "none"
          /\ UNCHANGED <<registry, made, owner, depth, call, gone, phase>>
    <3>1. CASE Answered(r, TRUE)
      BY <1>1, <1>6, <3>1 DEF Answered
    <3>2. CASE Answered(r, FALSE)
      BY <1>1, <1>6, <3>2 DEF Answered
    <3>3. CASE RequestFails(r)
      BY <1>1, <1>6, <3>3 DEF RequestFails
    <3>. QED
      BY <3>1, <3>2, <3>3 DEF Serve
  <2>3. TypeOK'
    BY <1>1, <1>2, <1>3, <2>2
  <2>4. NoRenewLeak'
    BY <1>1, <1>3, <1>4, <1>6, <2>1, <2>2 DEF NoRenewLeak, Requests
  <2>5. NoAbsentOwner' /\ SameProcess'
    BY <2>2 DEF NoAbsentOwner, SameProcess
  <2>6. CallersWait'
    BY <1>3, <2>2 DEF CallersWait
  <2>. QED
    BY <2>3, <2>4, <2>5, <2>6
<1>7. CASE r.op = "clear"
  <2>1. phase[r.inst] = "clearput" /\ owner[r.inst] # NoOne
    BY <1>1, <1>7 DEF CallersWait, NoAbsentOwner
  <2>2. (\E failed \in BOOLEAN : ReturnFromUnlock(r.inst, failed)) /\ renew' = renew
    BY <1>7 DEF Serve, Answered, RequestFails
  <2>3. /\ ClearOwner(r.inst) /\ registry' \in [Procs -> Insts \cup {NoOne}]
        /\ UNCHANGED <<made, gone>>
    BY <1>1, <2>2 DEF ReturnFromUnlock
  <2>4. renewErr' \in [Insts -> BOOLEAN] /\ outcome' \in {"none", "ok", "raised"}
    BY <1>1, <2>2 DEF ReturnFromUnlock
  <2>5. \A s \in wire' : s.op # "orphan" =>
           s \in wire /\ ~(s.inst = r.inst /\ s.op \in {"acquire", "clear"})
    BY <1>3, <1>4, <1>7, <2>1 DEF CallersWait
  <2>. QED
    BY <1>1, <1>2, <1>3, <2>1, <2>2, <2>3, <2>4, <2>5, LocalClearOwner
<1>8. CASE r.op = "orphan"
  <2>1. /\ outcome' = "none"
        /\ UNCHANGED <<registry, made, owner, depth, call, gone, phase, renew, renewErr, granted>>
    BY <1>8 DEF Serve, Answered, RequestFails
  <2>. QED
    BY <1>2, <1>3, <2>1 DEF NoAbsentOwner, NoRenewLeak, CallersWait, SameProcess
<1>. QED
  BY <1>1, <1>5, <1>6, <1>7, <1>8

\* A cancelled lock() leaves its owner and an orphaned request behind; a
\* cancelled unlock() leaves no owner.
LEMMA LocalCancel ==
    ASSUME LocalInv, NEW t \in Tasks, NEW i \in Insts, Cancel(t, i)
    PROVE  LocalInv'
<1>. USE NoOneAssumption, ProcAssumption
<1>. USE DEF LocalInv, TypeOK, renewVars, serverVars
<1>1. /\ call[t] = i /\ gone' = gone \cup {t} /\ outcome' = "none"
      /\ call' = [call EXCEPT ![t] = NoOne]
      /\ UNCHANGED <<now, version, lease, deleted, made, renew, renewErr>>
  BY DEF Cancel
<1>2. CASE /\ owner[i] # t
           /\ UNCHANGED <<wire, registry, owner, depth, phase, granted>>
  <2>1. TypeOK'
    BY <1>1, <1>2
  <2>2. NoAbsentOwner'
    BY <1>1, <1>2 DEF NoAbsentOwner
  <2>3. NoRenewLeak' /\ CallersWait' /\ SameProcess'
    BY <1>1, <1>2 DEF NoRenewLeak, CallersWait, SameProcess
  <2>. QED
    BY <2>1, <2>2, <2>3
<1>3. CASE /\ owner[i] = t /\ phase[i] \in {"poll", "put"}
           /\ phase' = [phase EXCEPT ![i] = "leaked"]
           /\ AbandonAll({i}, {"acquire"})
           /\ UNCHANGED <<registry, owner, depth, granted>>
  <2>1. /\ wire' \subseteq Requests
        /\ \A s \in wire' : s.op # "orphan" =>
              s \in wire /\ ~(s.inst = i /\ s.op = "acquire")
    BY <1>3, AbandonAllWire
  <2>2. TypeOK'
    BY <1>1, <1>3, <2>1 DEF Phases
  <2>3. NoAbsentOwner'
    BY <1>1, <1>3 DEF NoAbsentOwner
  <2>4. NoRenewLeak' /\ SameProcess'
    BY <1>1, <1>3, <2>1 DEF NoRenewLeak, SameProcess
  <2>5. CallersWait'
    BY <1>3, <2>1 DEF CallersWait, Requests
  <2>. QED
    BY <2>2, <2>3, <2>4, <2>5
<1>4. CASE /\ owner[i] = t /\ phase[i] \in {"clear", "clearput"}
           /\ ClearOwner(i)
           /\ registry' = [registry EXCEPT ![InstProc[i]] = NoOne]
           /\ AbandonAll({i}, {"clear"})
  <2>1. /\ wire' \subseteq Requests
        /\ \A s \in wire' : s.op # "orphan" =>
              s \in wire /\ ~(s.inst = i /\ s.op \in {"acquire", "clear"})
    BY <1>4, AbandonAllWire DEF CallersWait
  <2>2. phase[i] \notin {"held", "leaked"} /\ owner[i] # NoOne /\ gone \subseteq gone'
    BY <1>1, <1>4
  <2>. QED
    BY <1>1, <1>4, <2>1, <2>2, LocalClearOwner
<1>. QED
  BY <1>2, <1>3, <1>4 DEF Cancel

LEMMA LocalStep == LocalInv /\ [Next]_vars => LocalInv'
<1>1. ASSUME LocalInv, UNCHANGED vars PROVE LocalInv'
  BY <1>1 DEF vars, LocalInv, TypeOK, NoAbsentOwner, NoRenewLeak, CallersWait,
              SameProcess
<1>2. ASSUME LocalInv, Next PROVE LocalInv'
  BY <1>2, LocalTaskSteps, LocalUnlock, LocalReadSteps, LocalRequestSteps,
     LocalCancel, LocalEnvironment DEF Next
<1>. QED
  BY <1>1, <1>2

\* Type correctness of the lock's state.
THEOREM TypeCorrect == Spec => []TypeOK
<1>1. LocalInv => TypeOK
  BY DEF LocalInv
<1>. QED
  BY <1>1, LocalInit, LocalStep, PTL DEF Spec

\* No renew loop and no renewal under way outlives its hold, whatever fails
\* (_begin_renew_loop, _stop_renew_loop).
THEOREM RenewLoopsEnd == Spec => []NoRenewLeak
<1>1. LocalInv => NoRenewLeak
  BY DEF LocalInv
<1>. QED
  BY <1>1, LocalInit, LocalStep, PTL DEF Spec

\* Every owner an instance names is inside a call on it or holds it, on every
\* error path of lock(), try_lock() and unlock().
THEOREM OwnersPresent == Spec => []NoAbsentOwner
<1>1. LocalInv => NoAbsentOwner
  BY DEF LocalInv
<1>. QED
  BY <1>1, LocalInit, LocalStep, PTL DEF Spec

-----------------------------------------------------------------------------
(* The Lease between processes.                                            *)

\* Without deletions the Lease carries the last version handed out; its renew
\* time is not ahead of its holder's clock.
LeaseShape ==
    /\ lease.rv = version
    /\ lease.rv = 0 => lease.holder = NoOne
    /\ \A i \in Insts : lease.holder = i =>
          lease.renew <= Clock(i) /\ lease.dur = Duration[i]

\* A request was made from a version that existed, at a time that has passed,
\* and writes the instance that sent it, or no one.
WireShape ==
    \A r \in wire :
        /\ r.rv <= lease.rv
        /\ r.renew <= Clock(r.inst)
        /\ r.dur = Duration[r.inst]
        /\ r.holder \in {r.inst, NoOne}
        /\ r.op \in {"acquire", "renew"} => r.holder = r.inst

\* An instance inside its term is the recorded holder, with a renewal no older
\* than the one it knows of.
TermHeld ==
    \A i \in Insts : InTerm(i) => lease.holder = i /\ lease.renew >= granted[i]

LeaseInv == LeaseShape /\ WireShape /\ RequestsGuarded /\ TermHeld

\* Clocks only move forward, and are never further apart than the skew.
LEMMA ClockFacts ==
    ASSUME TypeOK, NEW i \in Insts
    PROVE  Clock(i) \in Nat /\ now <= Clock(i) /\ Clock(i) <= now + MaxSkew
BY ProcAssumption, TimeAssumption DEF Clock, TypeOK

LEMMA LeaseInit == Init => LeaseInv
BY NoOneAssumption
   DEF Init, NoLease, LeaseInv, LeaseShape, WireShape, RequestsGuarded,
       TermHeld, InTerm

\* A step that leaves the Lease and the clock alone keeps LeaseInv if it sends
\* nothing new and grants nothing.
LEMMA LeaseQuiet ==
    ASSUME LocalInv, LeaseInv, UNCHANGED <<now, version, lease, deleted>>,
           \A s \in wire' : Carried(s, wire),
           \A i \in Insts : phase'[i] = "held" =>
              phase[i] = "held" /\ granted'[i] = granted[i]
    PROVE  LeaseInv'
<1>. USE DEF LocalInv, TypeOK
<1>1. LeaseShape'
  BY DEF LeaseInv, LeaseShape, Clock
<1>2. WireShape'
  BY DEF LeaseInv, WireShape, Carried, Clock
<1>3. RequestsGuarded'
  BY DEF LeaseInv, RequestsGuarded, Carried, LeaseExpired, Requests
<1>4. TermHeld'
  BY DEF LeaseInv, TermHeld, InTerm
<1>. QED
  BY <1>1, <1>2, <1>3, <1>4 DEF LeaseInv

\* A request is sent only after a read that justifies it.
LEMMA LeaseSend ==
    ASSUME LocalInv, LeaseInv, UNCHANGED <<now, version, lease, deleted, granted>>,
           NEW i \in Insts, NEW op \in Ops, NEW h \in {i, NoOne},
           wire' = wire \cup {Request(i, op, h)},
           op \in {"acquire", "renew"} => h = i,
           h = NoOne => lease.holder = i /\ phase'[i] # "held",
           h = i => \/ lease.rv = 0 \/ lease.holder = i
                    \/ LeaseExpired(lease, Clock(i)),
           \A j \in Insts : phase'[j] = "held" => phase[j] = "held"
    PROVE  LeaseInv'
<1>. USE DEF LocalInv, TypeOK
<1>. DEFINE q == Request(i, op, h)
<1>1. /\ q.inst = i /\ q.op = op /\ q.rv = lease.rv /\ q.holder = h
      /\ q.renew = Clock(i) /\ q.dur = Duration[i]
  BY DEF Request
<1>2. Clock(i) \in Nat /\ lease.rv \in Nat /\ lease.renew \in Nat
  BY ClockFacts DEF Leases
<1>. HIDE DEF q
<1>3. LeaseShape'
  BY DEF LeaseInv, LeaseShape, Clock
<1>4. WireShape'
  <2>1. \A r \in wire' : r \in wire \/ r = q
    BY DEF q
  <2>. QED
    BY <1>1, <1>2, <2>1 DEF LeaseInv, WireShape, Clock
<1>5. RequestsGuarded'
  <2>1. \A r \in wire' : r \in wire \/ r = q
    BY DEF q
  <2>2. h = i /\ lease.holder = i => Clock(i) >= lease.renew
    BY <1>2 DEF LeaseInv, LeaseShape
  <2>3. i # NoOne
    BY NoOneAssumption
  <2>4. \A r \in wire : r.inst \in Insts
    BY DEF Requests
  <2>. QED
    BY <1>1, <2>1, <2>2, <2>3, <2>4 DEF LeaseInv, RequestsGuarded, LeaseExpired
<1>6. TermHeld'
  BY DEF LeaseInv, TermHeld, InTerm
<1>. QED
  BY <1>3, <1>4, <1>5, <1>6 DEF LeaseInv

\* Time only takes instances out of their terms.
LEMMA LeaseTick ==
    ASSUME LocalInv, LeaseInv, Tick
    PROVE  LeaseInv'
<1>. USE TimeAssumption, ProcAssumption
<1>. USE DEF LocalInv, TypeOK, Tick, localVars, renewVars
<1>1. \A i \in Insts : Clock(i)' = Clock(i) + 1 /\ Clock(i) \in Nat
  BY ClockFacts DEF Clock
<1>2. lease.renew \in Nat /\ \A r \in wire : r.inst \in Insts /\ r.renew \in Nat
  BY DEF Leases, Requests
<1>3. LeaseShape'
  BY <1>1, <1>2 DEF LeaseInv, LeaseShape
<1>4. WireShape'
  BY <1>1, <1>2 DEF LeaseInv, WireShape
<1>5. RequestsGuarded'
  BY DEF LeaseInv, RequestsGuarded, LeaseExpired
<1>6. TermHeld'
  BY <1>2 DEF LeaseInv, TermHeld, InTerm
<1>. QED
  BY <1>3, <1>4, <1>5, <1>6 DEF LeaseInv

\* An applied write leaves every other request under way stale, and its
\* decision was right for the Lease it replaces.
LEMMA LeaseApplied ==
    ASSUME LocalInv, LeaseInv, NEW r \in wire, Serve(r), VersionMatches(r)
    PROVE  LeaseInv'
<1>. USE NoOneAssumption, TimeAssumption, ProcAssumption
<1>. USE DEF LocalInv, TypeOK
<1>1. /\ r.inst \in Insts /\ r.renew \in Nat /\ r.rv = lease.rv
      /\ r.dur = Duration[r.inst] /\ r.renew <= Clock(r.inst)
      /\ r.holder \in {r.inst, NoOne}
      /\ r.op \in {"acquire", "renew"} => r.holder = r.inst
  BY DEF LeaseInv, WireShape, Requests, VersionMatches
<1>2. /\ wire' = wire \ {r} /\ now' = now /\ version' = version + 1
      /\ lease' = [rv |-> version + 1, holder |-> r.holder,
                   renew |-> r.renew, dur |-> r.dur]
      /\ Answered(r, TRUE)
  BY DEF Serve
<1>3. /\ lease'.rv = version + 1 /\ lease'.holder = r.holder
      /\ lease'.renew = r.renew /\ lease'.dur = r.dur
  BY <1>2
<1>4. lease.rv \in Nat /\ lease.renew \in Nat /\ lease.rv = version
  BY DEF Leases, LeaseInv, LeaseShape
<1>5. \A i \in Insts : Clock(i)' = Clock(i)
  BY <1>2 DEF Clock
<1>6. LeaseShape'
  BY <1>1, <1>2, <1>3, <1>4, <1>5 DEF LeaseShape
<1>7. WireShape'
  <2>1. \A s \in wire : s.rv \in Nat /\ s.inst \in Insts
    BY DEF Requests
  <2>. QED
    BY <1>2, <1>3, <1>4, <1>5, <2>1 DEF LeaseInv, WireShape
<1>8. RequestsGuarded'
  <2>1. \A s \in wire' : s.rv \in Nat /\ s.rv <= lease.rv
    BY <1>2 DEF Requests, LeaseInv, WireShape
  <2>2. \A s \in wire' : s.rv # lease'.rv
    BY <1>3, <1>4, <2>1
  <2>. QED
    BY <2>2 DEF RequestsGuarded
<1>9. TermHeld'
  <2>. SUFFICES ASSUME NEW i \in Insts, InTerm(i)'
                PROVE  lease'.holder = i /\ lease'.renew >= granted'[i]
    BY DEF TermHeld
  <2>1. CASE r.op \in {"acquire", "renew"} /\ r.inst = i
    <3>1. granted'[i] = r.renew
      BY <1>1, <1>2, <2>1 DEF Answered
    <3>. QED
      BY <1>1, <1>3, <2>1, <3>1
  <2>2. CASE ~(r.op \in {"acquire", "renew"} /\ r.inst = i)
    <3>0. r.op \in {"acquire", "renew", "clear", "orphan"}
      BY DEF Requests, Ops
    <3>1. phase'[i] = "held" /\ now + MaxSkew - granted'[i] <= Duration[i]
      BY <1>2 DEF InTerm
    <3>2. phase[i] = "held" /\ granted'[i] = granted[i]
      <4>1. CASE r.op = "acquire"
        BY <1>1, <1>2, <2>2, <3>1, <4>1 DEF Answered
      <4>2. CASE r.op = "renew"
        BY <1>1, <1>2, <2>2, <3>1, <4>2 DEF Answered, localVars
      <4>3. CASE r.op = "clear"
        BY <1>1, <1>2, <2>2, <3>1, <4>3
           DEF Answered, ReturnFromUnlock, ClearOwner
      <4>4. CASE r.op = "orphan"
        BY <1>1, <1>2, <2>2, <3>1, <4>4 DEF Answered
      <4>. QED
        BY <3>0, <4>1, <4>2, <4>3, <4>4
    <3>3. lease.holder = i /\ lease.renew >= granted[i] /\ lease.dur = Duration[i]
          /\ lease.rv # 0
      <4>1. InTerm(i)
        BY <3>1, <3>2 DEF InTerm
      <4>. QED
        BY <4>1 DEF LeaseInv, TermHeld, LeaseShape
    <3>4. IF r.holder = NoOne
            THEN lease.holder = r.inst /\ phase[r.inst] # "held"
            ELSE \/ lease.rv = 0
                 \/ lease.holder = r.inst /\ r.renew >= lease.renew
                 \/ LeaseExpired(lease, r.renew)
      BY <1>1 DEF LeaseInv, RequestsGuarded
    <3>5. r.holder # NoOne /\ r.holder = r.inst
      BY <1>1, <3>2, <3>3, <3>4
    <3>6. ~LeaseExpired(lease, r.renew)
      <4>1. r.renew <= now + MaxSkew
        BY <1>1, ClockFacts
      <4>2. granted[i] \in Nat /\ Duration[i] \in Nat
        OBVIOUS
      <4>. QED
        BY <1>1, <1>4, <3>1, <3>2, <3>3, <4>1, <4>2 DEF LeaseExpired
    <3>7. lease.holder = r.inst /\ r.renew >= lease.renew
      BY <3>3, <3>4, <3>5, <3>6
    <3>8. granted[i] \in Nat
      OBVIOUS
    <3>. QED
      BY <1>1, <1>3, <1>4, <3>2, <3>3, <3>5, <3>7, <3>8
  <2>. QED
    BY <2>1, <2>2
<1>. QED
  BY <1>6, <1>7, <1>8, <1>9 DEF LeaseInv

\* Every other step of a process leaves the Lease and the clock alone.
LEMMA LeaseStep ==
    ASSUME ~deleted', LocalInv, LeaseInv, [Next]_vars
    PROVE  LeaseInv'
<1>. USE NoOneAssumption
<1>. USE DEF serverVars, localVars, renewVars
<1>0. \A s \in wire : Carried(s, wire)
  BY DEF Carried
<1>w. wire \subseteq Requests
  BY DEF LocalInv, TypeOK
<1>p. phase \in [Insts -> Phases] /\ granted \in [Insts -> Nat]
  BY DEF LocalInv, TypeOK
<1>1. ASSUME NEW t \in Tasks, Lock(t) \/ Claim(t) \/ StopWaiting(t) PROVE LeaseInv'
  <2>1. /\ UNCHANGED <<now, version, lease, deleted, wire, granted>>
        /\ \A i \in Insts : phase'[i] = "held" => phase[i] = "held"
    BY <1>1, <1>p DEF Lock, Claim, StopWaiting, TakeOwnership
  <2>. QED
    BY <1>0, <2>1, LeaseQuiet
<1>2. ASSUME NEW t \in Tasks, Unlock(t) PROVE LeaseInv'
  <2>1. /\ UNCHANGED <<now, version, lease, deleted, granted>>
        /\ \A i \in Insts : phase'[i] = "held" => phase[i] = "held"
    BY <1>2, <1>p DEF Unlock
  <2>2. UNCHANGED wire \/ \E i \in Insts : AbandonAll({i}, {"renew"})
    BY <1>2 DEF Unlock
  <2>3. \A s \in wire' : Carried(s, wire)
    BY <1>0, <1>w, <2>2, AbandonAllWire
  <2>. QED
    BY <2>1, <2>3, LeaseQuiet
<1>3. ASSUME NEW i \in Insts, TryAcquire(i) PROVE LeaseInv'
  <2>1. /\ UNCHANGED <<now, version, lease, deleted, granted>>
        /\ wire' = wire \cup {Request(i, "acquire", i)}
        /\ lease.rv = 0 \/ lease.holder = i \/ LeaseExpired(lease, Clock(i))
        /\ \A j \in Insts : phase'[j] = "held" => phase[j] = "held"
    BY <1>3, <1>p DEF TryAcquire, Send
  <2>2. "acquire" \in Ops /\ i # NoOne
    BY DEF Ops
  <2>. QED
    BY <2>1, <2>2, LeaseSend
<1>4. ASSUME NEW i \in Insts, GiveUp(i) PROVE LeaseInv'
  <2>1. /\ UNCHANGED <<now, version, lease, deleted, wire>>
        /\ \A j \in Insts : phase'[j] = "held" =>
              phase[j] = "held" /\ granted'[j] = granted[j]
    BY <1>4, <1>p DEF GiveUp, RaiseFromLock, ClearOwner
  <2>. QED
    BY <1>0, <2>1, LeaseQuiet
<1>5. ASSUME NEW i \in Insts, RenewRead(i) PROVE LeaseInv'
  <2>1. UNCHANGED <<now, version, lease, deleted, granted, phase>>
    BY <1>5 DEF RenewRead
  <2>2. CASE wire' = wire
    BY <1>0, <2>1, <2>2, LeaseQuiet
  <2>3. CASE lease.holder = i /\ wire' = wire \cup {Request(i, "renew", i)}
    <3>1. "renew" \in Ops /\ i # NoOne
      BY DEF Ops
    <3>. QED
      BY <2>1, <2>3, <3>1, LeaseSend
  <2>. QED
    BY <1>5, <2>2, <2>3 DEF RenewRead, Send
<1>6. ASSUME NEW i \in Insts, ClearRead(i) PROVE LeaseInv'
  <2>1. UNCHANGED <<now, version, lease, deleted>> /\ phase[i] = "clear"
    BY <1>6 DEF ClearRead
  <2>2. CASE /\ lease.holder = i
             /\ wire' = wire \cup {Request(i, "clear", NoOne)}
             /\ phase' = [phase EXCEPT ![i] = "clearput"]
             /\ UNCHANGED granted
    <3>1. "clear" \in Ops /\ i # NoOne
      BY DEF Ops
    <3>2. phase'[i] # "held" /\ \A j \in Insts : phase'[j] = "held" => phase[j] = "held"
      BY <1>p, <2>2
    <3>. QED
      BY <2>1, <2>2, <3>1, <3>2, LeaseSend
  <2>3. CASE ClearOwner(i) /\ UNCHANGED wire
    <3>1. \A j \in Insts : phase'[j] = "held" =>
             phase[j] = "held" /\ granted'[j] = granted[j]
      BY <1>p, <2>3 DEF ClearOwner
    <3>. QED
      BY <1>0, <2>1, <2>3, <3>1, LeaseQuiet
  <2>. QED
    BY <1>6, <2>2, <2>3 DEF ClearRead, Send, ReturnFromUnlock
<1>7. ASSUME NEW r \in wire, Serve(r) PROVE LeaseInv'
  <2>0. r.inst \in Insts /\ r.op \in Ops
    BY <1>w DEF Requests
  <2>1. CASE VersionMatches(r)
    BY <1>7, <2>1, LeaseApplied
  <2>2. CASE ~VersionMatches(r)
    <3>1. UNCHANGED <<now, version, lease, deleted>> /\ wire' = wire \ {r} /\ Answered(r, FALSE)
      BY <1>7, <2>2 DEF Serve
    <3>2. \A j \in Insts : phase'[j] = "held" =>
             phase[j] = "held" /\ granted'[j] = granted[j]
      BY <1>p, <2>0, <3>1 DEF Answered, ReturnFromUnlock, ClearOwner, Ops
    <3>. QED
      BY <1>0, <3>1, <3>2, LeaseQuiet
  <2>. QED
    BY <2>1, <2>2
<1>8. ASSUME NEW r \in wire, RequestFails(r) PROVE LeaseInv'
  <2>0. r.inst \in Insts
    BY <1>w DEF Requests
  <2>1. UNCHANGED <<now, version, lease, deleted>> /\ Abandon(r)
    BY <1>8 DEF RequestFails
  <2>2. \A j \in Insts : phase'[j] = "held" =>
           phase[j] = "held" /\ granted'[j] = granted[j]
    BY <1>8, <1>p, <2>0 DEF RequestFails, RaiseFromLock, ReturnFromUnlock, ClearOwner
  <2>. QED
    BY <1>w, <2>1, <2>2, AbandonWire, LeaseQuiet
<1>9. ASSUME NEW p \in Procs, Crash(p) PROVE LeaseInv'
  <2>1. /\ UNCHANGED <<now, version, lease, deleted>>
        /\ \A j \in Insts : phase'[j] = "held" =>
              phase[j] = "held" /\ granted'[j] = granted[j]
    BY <1>9, <1>p DEF Crash
  <2>2. \A s \in wire' : Carried(s, wire)
    BY <1>9, <1>w, AbandonAllWire DEF Crash
  <2>. QED
    BY <2>1, <2>2, LeaseQuiet
<1>c. ASSUME NEW t \in Tasks, NEW i \in Insts, Cancel(t, i) PROVE LeaseInv'
  <2>1. /\ UNCHANGED <<now, version, lease, deleted>>
        /\ \A j \in Insts : phase'[j] = "held" =>
              phase[j] = "held" /\ granted'[j] = granted[j]
    BY <1>c, <1>p DEF Cancel, ClearOwner
  <2>2. \/ UNCHANGED wire
        \/ AbandonAll({i}, {"acquire"}) \/ AbandonAll({i}, {"clear"})
    BY <1>c DEF Cancel
  <2>3. \A s \in wire' : Carried(s, wire)
    BY <1>0, <1>w, <2>2, AbandonAllWire
  <2>. QED
    BY <2>1, <2>3, LeaseQuiet
<1>10. ASSUME UNCHANGED vars PROVE LeaseInv'
  BY <1>0, <1>10, LeaseQuiet DEF vars
<1>. QED
  BY <1>1, <1>2, <1>3, <1>4, <1>5, <1>6, <1>7, <1>8, <1>9, <1>c, <1>10,
     LeaseTick
     DEF Next, DeleteLease

\* A deletion is never forgotten.
LEMMA DeletedStays == ASSUME [Next]_vars, deleted PROVE deleted'
<1>1. CASE DeleteLease
  BY <1>1, Zenon DEF DeleteLease
<1>2. CASE UNCHANGED deleted
  BY <1>2, Zenon
<1>3. DeleteLease \/ UNCHANGED deleted
  BY DEF Next, Lock, Claim, StopWaiting, Unlock, TryAcquire, GiveUp, RenewRead,
         ClearRead, Serve, RequestFails, Cancel, Crash, Tick, serverVars, vars
<1>. QED
  BY <1>1, <1>2, <1>3, Zenon

\* Both invariants; the one of the Lease until something deletes it.
LEMMA BothInv == Spec => [](LocalInv /\ (deleted \/ LeaseInv))
<1>1. LocalInv /\ (deleted \/ LeaseInv) /\ [Next]_vars
        => (LocalInv /\ (deleted \/ LeaseInv))'
  BY LocalStep, LeaseStep, DeletedStays, Zenon
<1>. QED
  BY <1>1, LocalInit, LeaseInit, PTL DEF Spec

\* Both invariants, for every behaviour without deletions of the Lease.
LEMMA BothInvUndeleted == ASSUME ~MayDelete PROVE Spec => [](LocalInv /\ LeaseInv)
<1>1. Init => ~deleted
  BY Zenon DEF Init
<1>2. ~deleted /\ [Next]_vars => ~deleted'
  <2>1. ASSUME [Next]_vars PROVE UNCHANGED deleted
    BY <2>1 DEF Next, Lock, Claim, StopWaiting, Unlock, TryAcquire, GiveUp,
           RenewRead, ClearRead, Serve, RequestFails, Cancel, Crash, Tick,
           DeleteLease, serverVars, vars
  <2>. QED
    BY <2>1, Zenon
<1>. QED
  BY <1>1, <1>2, BothInv, PTL DEF Spec

\* Mutual exclusion: until something deletes the Lease, two instances are never
\* both inside their lease terms, whatever requests are late, lost, retried or
\* orphaned by a timeout, a cancelled loop or a crash.
THEOREM MutualExclusion == Spec => []ExclusiveWithinTerm
<1>1. deleted \/ LeaseInv => ExclusiveWithinTerm
  BY DEF LeaseInv, TermHeld, ExclusiveWithinTerm
<1>. QED
  BY <1>1, BothInv, PTL

\* A request the server would still apply carries a decision that is still
\* right for the Lease it would replace.
THEOREM LateRequestsAreSafe == ASSUME ~MayDelete PROVE Spec => []RequestsGuarded
<1>1. LeaseInv => RequestsGuarded
  BY DEF LeaseInv
<1>. QED
  BY <1>1, BothInvUndeleted, PTL

\* The Lease only changes when the server applies a request.
LEMMA LeaseChange ==
    ASSUME ~MayDelete, Next, lease' # lease
    PROVE  \E r \in wire : /\ VersionMatches(r)
                           /\ lease' = [rv |-> version + 1, holder |-> r.holder,
                                        renew |-> r.renew, dur |-> r.dur]
BY DEF Next, Lock, Claim, StopWaiting, Unlock, TryAcquire, GiveUp, RenewRead,
       ClearRead, Serve, RequestFails, Cancel, Crash, Tick, DeleteLease,
       serverVars

\* The Lease moves from one instance to another only after it has expired,
\* even when the rival read it long before it wrote.
THEOREM StealAfterExpiry == ASSUME ~MayDelete PROVE Spec => StealOnlyExpired
<1>1. ASSUME LocalInv, LeaseInv, [Next]_vars, lease' # lease,
             NEW i \in Insts, NEW j \in Insts,
             lease.holder = i, lease'.holder = j, i # j
      PROVE  now + MaxSkew - lease.renew > lease.dur
  <2>1. PICK r \in wire : /\ VersionMatches(r)
                          /\ lease' = [rv |-> version + 1, holder |-> r.holder,
                                       renew |-> r.renew, dur |-> r.dur]
    BY <1>1, LeaseChange DEF vars
  <2>2. r.inst \in Insts /\ r.renew \in Nat /\ lease.renew \in Nat /\ now \in Nat
        /\ lease.dur \in Nat
    BY <1>1 DEF LocalInv, TypeOK, Requests, Leases
  <2>3. r.holder = j /\ r.inst = j /\ r.renew <= Clock(j)
    BY <1>1, <2>1, NoOneAssumption DEF LeaseInv, WireShape
  <2>4. LeaseExpired(lease, r.renew)
    BY <1>1, <2>1, <2>3, NoOneAssumption
       DEF LeaseInv, RequestsGuarded, LeaseShape, VersionMatches
  <2>5. Clock(j) \in Nat /\ Clock(j) <= now + MaxSkew
    BY <1>1, ClockFacts DEF LocalInv
  <2>. QED
    BY <1>1, <2>2, <2>3, <2>4, <2>5, NoOneAssumption, TimeAssumption
       DEF LeaseExpired
<1>2. LocalInv /\ LeaseInv /\ [Next]_vars =>
        [\A i, j \in Insts :
          lease.holder = i /\ lease'.holder = j /\ i # j
            => now + MaxSkew - lease.renew > lease.dur]_lease
  BY <1>1
<1>. QED
  BY <1>2, BothInvUndeleted, PTL DEF Spec, StealOnlyExpired

\* A held Lease is cleared only by a release that belongs to the hold it
\* records, however late the release reaches the server.
THEOREM ReleaseOfOwnHold == ASSUME ~MayDelete PROVE Spec => ReleaseOnlyOwn
<1>1. LocalInv /\ LeaseInv /\ [Next]_vars =>
        [lease.holder # NoOne /\ lease'.holder = NoOne /\ lease'.rv # 0
          => /\ phase[lease.holder] # "held"
             /\ \E r \in wire : r.inst = lease.holder /\ r.holder = NoOne]_lease
  <2>. SUFFICES ASSUME LocalInv, LeaseInv, Next, lease' # lease,
                       lease.holder # NoOne, lease'.holder = NoOne
                PROVE  /\ phase[lease.holder] # "held"
                       /\ \E r \in wire : r.inst = lease.holder /\ r.holder = NoOne
    BY DEF vars
  <2>1. PICK r \in wire : /\ VersionMatches(r)
                          /\ lease' = [rv |-> version + 1, holder |-> r.holder,
                                       renew |-> r.renew, dur |-> r.dur]
    BY LeaseChange
  <2>2. r.rv = lease.rv /\ r.holder = NoOne
    BY <2>1 DEF VersionMatches
  <2>. QED
    BY <2>2 DEF LeaseInv, RequestsGuarded
<1>. QED
  BY <1>1, BothInvUndeleted, PTL DEF Spec, ReleaseOnlyOwn
=============================================================================
