----------------------------- MODULE ClusterLock -----------------------------
(***************************************************************************)
(* The Lease-backed, re-entrant cluster lock of                            *)
(* bertrand/env/kube/lock/cluster.py, for one lock key.                    *)
(*                                                                         *)
(* Every process keeps a registry that maps the key to a ClusterLock       *)
(* instance; an instance is identified by its holder identity, which is    *)
(* never reused.  The asyncio tasks of a process share the registered      *)
(* instance: the instance's `_owner` and `_depth` exclude tasks from each  *)
(* other, and one Kubernetes Lease excludes instances from each other.     *)
(*                                                                         *)
(* A request to the API server is a record in `wire`.  The server answers  *)
(* a request in any order.  A caller that stops waiting (a timeout, a      *)
(* cancelled renew loop, a crash) does not take its request back: Kube.run *)
(* runs it in a worker thread, so it stays on the wire as an orphan and    *)
(* may still be applied.                                                   *)
(***************************************************************************)
EXTENDS Integers, FiniteSets

CONSTANTS
    Procs,       \* operating system processes
    Tasks,       \* asyncio tasks
    Insts,       \* ClusterLock instances (holder identities) that can be made
    TaskProc,    \* the process of each task
    InstProc,    \* the process that can make each instance
    NoOne,       \* None
    Duration,    \* lease_duration of each instance, in clock ticks
    Skew,        \* offset of each process's clock from real time
    MaxSkew,     \* bound on Skew
    MayDelete,   \* whether something outside the lock may delete the Lease
    MaxClock,    \* bound on real time
    MaxVersion,  \* bound on resource versions handed out
    MaxDepth,    \* bound on re-entrant nesting
    MaxWire      \* bound on requests on the wire

ASSUME NoOneAssumption == NoOne \notin Tasks \cup Insts
ASSUME ProcAssumption ==
    /\ TaskProc \in [Tasks -> Procs]
    /\ InstProc \in [Insts -> Procs]
ASSUME TimeAssumption ==
    /\ Duration \in [Insts -> Nat \ {0}]
    /\ MaxSkew \in Nat
    /\ Skew \in [Procs -> 0..MaxSkew]
ASSUME BoundAssumption ==
    /\ MayDelete \in BOOLEAN
    /\ MaxClock \in Nat
    /\ MaxVersion \in Nat
    /\ MaxDepth \in Nat \ {0}
    /\ MaxWire \in Nat

VARIABLES
    now,       \* real time
    version,   \* last resource version the API server handed out
    lease,     \* the Lease object; rv 0 when it does not exist
    wire,      \* requests sent and not yet processed by the server
    registry,  \* CLUSTER_LOCKS, per process
    made,      \* instances constructed so far
    owner,     \* _owner of each instance
    depth,     \* _depth of each instance
    phase,     \* where the owner's backend call on the instance stands
    renew,     \* the instance's renew loop
    renewErr,  \* _renew_error is set
    call,      \* instance whose lock() or unlock() a task is executing
    gone,      \* cancelled tasks
    granted,   \* history: renew time of the last write a holder saw succeed
    deleted,   \* history: something outside the lock deleted the Lease
    outcome    \* history: how an unlock() that returned in this step ended

vars == <<now, version, lease, wire, registry, made, owner, depth, phase,
          renew, renewErr, call, gone, granted, deleted, outcome>>

serverVars == <<now, version, lease, deleted>>
localVars  == <<registry, made, owner, depth, call, gone>>
renewVars  == <<renew, renewErr>>

Phases   == {"free", "poll", "put", "held", "clear", "clearput", "leaked"}
Ops      == {"acquire", "renew", "clear", "orphan"}
Requests == [inst : Insts, op : Ops, rv : Nat, holder : Insts \cup {NoOne},
             renew : Nat, dur : Nat \ {0}]
Leases   == [rv : Nat, holder : Insts \cup {NoOne}, renew : Nat,
             dur : Nat \ {0}]

NoLease == [rv |-> 0, holder |-> NoOne, renew |-> 0, dur |-> 1]

\* datetime.now(UTC) as the process of instance i reads it.
Clock(i) == now + Skew[InstProc[i]]

\* Mutant: the last tick of the term already counts as expired.
ExpiredOneTickEarly(l, clock) == l.holder = NoOne \/ clock - l.renew >= l.dur

LeaseExpired(l, clock) == l.holder = NoOne \/ clock - l.renew > l.dur

\* Mutant: the written duration is one tick short.
RequestShort(i, op, holder) ==
    [inst |-> i, op |-> op, rv |-> lease.rv, holder |-> holder,
     renew |-> Clock(i), dur |-> Duration[i] - 1]

\* The body of a create (no version to match) or of a version-guarded replace.
Request(i, op, holder) ==
    [inst |-> i, op |-> op, rv |-> lease.rv, holder |-> holder,
     renew |-> Clock(i), dur |-> Duration[i]]

Send(r) == Cardinality(wire) < MaxWire /\ wire' = wire \cup {r}

Orphan(r) == [r EXCEPT !.op = "orphan"]

\* The caller of r stops waiting: the server may have refused r, or r is
\* still under way in its worker thread.
Abandon(r) == \E kept \in {{}, {Orphan(r)}} : wire' = (wire \ {r}) \cup kept

\* Every live request of the instances in I loses its caller.
AbandonAll(I, ops) ==
    LET left == {r \in wire : r.inst \in I /\ r.op \in ops}
    IN  wire' = (wire \ left) \cup {Orphan(r) : r \in left}

Init ==
    /\ now = 0 /\ version = 0 /\ lease = NoLease /\ wire = {}
    /\ registry = [p \in Procs |-> NoOne] /\ made = {}
    /\ owner = [i \in Insts |-> NoOne]
    /\ depth = [i \in Insts |-> 0]
    /\ phase = [i \in Insts |-> "free"]
    /\ renew = [i \in Insts |-> "none"]
    /\ renewErr = [i \in Insts |-> FALSE]
    /\ granted = [i \in Insts |-> 0]
    /\ call = [t \in Tasks |-> NoOne] /\ gone = {}
    /\ deleted = FALSE /\ outcome = "none"

-----------------------------------------------------------------------------
(* The task-level lock: registry, owner and depth.                         *)

\* ClusterLock(kube, key): the registered instance, or a new one.
Constructed(p, i) ==
    /\ InstProc[i] = p
    /\ IF registry[p] # NoOne THEN i = registry[p] ELSE i \notin made

TakeOwnership(t, i) ==
    /\ owner' = [owner EXCEPT ![i] = t]
    /\ depth' = [depth EXCEPT ![i] = 1]
    /\ phase' = [phase EXCEPT ![i] = "poll"]
    /\ call' = [call EXCEPT ![t] = i]

\* A task constructs the lock and calls lock() or try_lock() on it.
Lock(t) ==
    /\ call[t] = NoOne /\ t \notin gone
    /\ \E i \in Insts :
        /\ Constructed(TaskProc[t], i)
        /\ registry' = [registry EXCEPT ![TaskProc[t]] = i]
        /\ made' = made \cup {i}
        /\ \/ owner[i] = NoOne /\ TakeOwnership(t, i)
           \/ /\ owner[i] = t
              /\ depth[i] < MaxDepth
              /\ depth' = [depth EXCEPT ![i] = @ + 1]
              /\ UNCHANGED <<owner, phase, call>>
           \/ /\ owner[i] \notin {t, NoOne}
              /\ call' = [call EXCEPT ![t] = i]
              /\ UNCHANGED <<owner, depth, phase>>
    /\ outcome' = "none"
    /\ UNCHANGED <<serverVars, wire, gone, renewVars, granted>>

\* A task waiting in lock() finds the instance unowned on a later poll.
Claim(t) ==
    /\ call[t] # NoOne
    /\ owner[call[t]] = NoOne
    /\ TakeOwnership(t, call[t])
    /\ outcome' = "none"
    /\ UNCHANGED <<serverVars, wire, registry, made, gone, renewVars, granted>>

\* A task waiting for another owner reaches its deadline, or its try_lock()
\* reports contention.
StopWaiting(t) ==
    /\ call[t] # NoOne
    /\ owner[call[t]] \notin {t, NoOne}
    /\ call' = [call EXCEPT ![t] = NoOne]
    /\ outcome' = "none"
    /\ UNCHANGED <<serverVars, wire, registry, made, owner, depth, phase, gone,
                   renewVars, granted>>

\* _clear_owner(): the owner's call on i returns or raises.
ClearOwner(i) ==
    /\ owner' = [owner EXCEPT ![i] = NoOne]
    /\ depth' = [depth EXCEPT ![i] = 0]
    /\ phase' = [phase EXCEPT ![i] = "free"]
    /\ call' = [call EXCEPT ![owner[i]] = NoOne]
    /\ granted' = [granted EXCEPT ![i] = 0]

\* Mutant: the error path of lock() forgets _clear_owner().
RaiseKeepingOwner(i) ==
    /\ phase' = [phase EXCEPT ![i] = "free"]
    /\ call' = [call EXCEPT ![owner[i]] = NoOne]
    /\ outcome' = "none"
    /\ UNCHANGED <<registry, made, owner, depth, gone, granted>>

\* The error path of lock() and try_lock(): the instance stays registered.
RaiseFromLock(i) ==
    ClearOwner(i) /\ outcome' = "none" /\ UNCHANGED <<registry, made, gone>>

\* The end of unlock(): whatever instance is registered for the key goes.
ReturnFromUnlock(i, failed) ==
    /\ ClearOwner(i)
    /\ registry' = [registry EXCEPT ![InstProc[i]] = NoOne]
    /\ UNCHANGED <<made, gone>>
    /\ \/ \* ignore_errors = False
          /\ renewErr' = [renewErr EXCEPT ![i] = failed /\ @]
          /\ outcome' = IF failed \/ renewErr[i] THEN "raised" ELSE "ok"
       \/ \* ignore_errors = True
          /\ outcome' = "none"
          /\ UNCHANGED renewErr

\* Mutant: unlock() forgets _stop_renew_loop().
UnlockKeepingLoop(t) ==
    /\ call[t] = NoOne
    /\ \E i \in Insts :
        /\ owner[i] = t
        /\ phase[i] = "held"
        /\ depth' = [depth EXCEPT ![i] = @ - 1]
        /\ IF depth[i] > 1
             THEN UNCHANGED <<phase, call>>
             ELSE /\ phase' = [phase EXCEPT ![i] = "clear"]
                  /\ call' = [call EXCEPT ![t] = i]
    /\ outcome' = "none"
    /\ UNCHANGED <<serverVars, registry, made, owner, gone, wire, renewVars, granted>>

\* The owner releases one level; the last level cancels the renew loop.
Unlock(t) ==
    /\ call[t] = NoOne
    /\ \E i \in Insts :
        /\ owner[i] = t
        /\ phase[i] = "held"
        /\ depth' = [depth EXCEPT ![i] = @ - 1]
        /\ IF depth[i] > 1
             THEN UNCHANGED <<phase, renew, call, wire>>
             ELSE /\ phase' = [phase EXCEPT ![i] = "clear"]
                  /\ renew' = [renew EXCEPT ![i] = "none"]
                  /\ call' = [call EXCEPT ![t] = i]
                  /\ AbandonAll({i}, {"renew"})
    /\ outcome' = "none"
    /\ UNCHANGED <<serverVars, registry, made, owner, gone, renewErr, granted>>

-----------------------------------------------------------------------------
(* The Lease protocol of one instance.                                     *)

\* Mutant: a Lease is claimed without asking whether it expired.
TryAcquireUnexpired(i) ==
    /\ phase[i] = "poll"
    /\ Send(Request(i, "acquire", i))
    /\ phase' = [phase EXCEPT ![i] = "put"]
    /\ outcome' = "none"
    /\ UNCHANGED <<serverVars, localVars, renewVars, granted>>

\* _try_acquire_lease() up to its write: the Lease is absent, already ours,
\* or expired by our clock.
TryAcquire(i) ==
    /\ phase[i] = "poll"
    /\ lease.rv = 0 \/ lease.holder = i \/ LeaseExpired(lease, Clock(i))
    /\ Send(Request(i, "acquire", i))
    /\ phase' = [phase EXCEPT ![i] = "put"]
    /\ outcome' = "none"
    /\ UNCHANGED <<serverVars, localVars, renewVars, granted>>

\* The deadline elapses between polls, the read fails, or try_lock() finds
\* the Lease held.
GiveUp(i) ==
    /\ phase[i] = "poll"
    /\ RaiseFromLock(i)
    /\ UNCHANGED <<serverVars, wire, renewVars>>

\* One round of _renew_loop() up to its write.
RenewRead(i) ==
    /\ renew[i] = "sleep"
    /\ \/ /\ lease.rv # 0 /\ lease.holder = i
          /\ Send(Request(i, "renew", i))
          /\ renew' = [renew EXCEPT ![i] = "put"]
          /\ UNCHANGED renewErr
       \/ \* the Lease disappeared, was lost, or could not be read
          /\ renew' = [renew EXCEPT ![i] = "dead"]
          /\ renewErr' = [renewErr EXCEPT ![i] = TRUE]
          /\ UNCHANGED wire
    /\ outcome' = "none"
    /\ UNCHANGED <<serverVars, localVars, phase, granted>>

\* Mutant: _clear_lease() does not compare the holder.
ClearReadBlind(i) ==
    /\ phase[i] = "clear"
    /\ lease.rv # 0
    /\ Send(Request(i, "clear", NoOne))
    /\ phase' = [phase EXCEPT ![i] = "clearput"]
    /\ outcome' = "none"
    /\ UNCHANGED <<serverVars, localVars, renewVars, granted>>

\* _clear_lease() up to its write; it returns early when the Lease is not ours.
ClearRead(i) ==
    /\ phase[i] = "clear"
    /\ \/ /\ lease.rv # 0 /\ lease.holder = i
          /\ Send(Request(i, "clear", NoOne))
          /\ phase' = [phase EXCEPT ![i] = "clearput"]
          /\ outcome' = "none"
          /\ UNCHANGED <<localVars, renewErr, granted>>
       \/ /\ lease.rv = 0 \/ lease.holder # i
          /\ ReturnFromUnlock(i, FALSE)
          /\ UNCHANGED wire
       \/ \* the read fails
          /\ ReturnFromUnlock(i, TRUE)
          /\ UNCHANGED wire
    /\ UNCHANGED <<serverVars, renew>>

\* What the caller of r does with the server's answer.
Answered(r, applied) ==
    CASE r.op = "acquire" /\ applied ->
            /\ phase' = [phase EXCEPT ![r.inst] = "held"]
            /\ renew' = [renew EXCEPT ![r.inst] = "sleep"]
            /\ renewErr' = [renewErr EXCEPT ![r.inst] = FALSE]
            /\ granted' = [granted EXCEPT ![r.inst] = r.renew]
            /\ call' = [call EXCEPT ![owner[r.inst]] = NoOne]
            /\ outcome' = "none"
            /\ UNCHANGED <<registry, made, owner, depth, gone>>
      [] r.op = "acquire" /\ ~applied ->
            /\ phase' = [phase EXCEPT ![r.inst] = "poll"]
            /\ outcome' = "none"
            /\ UNCHANGED <<localVars, renewVars, granted>>
      [] r.op = "renew" /\ applied ->
            /\ renew' = [renew EXCEPT ![r.inst] = "sleep"]
            /\ granted' = [granted EXCEPT ![r.inst] = r.renew]
            /\ outcome' = "none"
            /\ UNCHANGED <<localVars, phase, renewErr>>
      [] r.op = "renew" /\ ~applied ->
            /\ renew' = [renew EXCEPT ![r.inst] = "dead"]
            /\ renewErr' = [renewErr EXCEPT ![r.inst] = TRUE]
            /\ outcome' = "none"
            /\ UNCHANGED <<localVars, phase, granted>>
      [] r.op = "clear" ->  \* a conflict is not an error here
            /\ ReturnFromUnlock(r.inst, FALSE)
            /\ UNCHANGED renew
      [] r.op = "orphan" ->
            /\ outcome' = "none"
            /\ UNCHANGED <<localVars, phase, renewVars, granted>>

\* The API server's optimistic-concurrency check: a create needs the object
\* absent, a replace needs the version it was read at.
VersionMatches(r) == r.rv = lease.rv

\* The API server processes one request.
Serve(r) ==
    /\ r \in wire
    /\ wire' = wire \ {r}
    /\ \/ /\ VersionMatches(r)
          /\ version < MaxVersion
          /\ version' = version + 1
          /\ lease' = [rv |-> version + 1, holder |-> r.holder,
                       renew |-> r.renew, dur |-> r.dur]
          /\ Answered(r, TRUE)
       \/ /\ ~VersionMatches(r)
          /\ UNCHANGED <<version, lease>>
          /\ Answered(r, FALSE)
    /\ UNCHANGED <<now, deleted>>

\* The caller of r times out or gets an API error other than a conflict.
RequestFails(r) ==
    /\ r \in wire
    /\ Abandon(r)
    /\ \/ /\ r.op = "acquire"
          /\ RaiseFromLock(r.inst)
          /\ UNCHANGED renewVars
       \/ /\ r.op = "renew"
          /\ renew' = [renew EXCEPT ![r.inst] = "dead"]
          /\ renewErr' = [renewErr EXCEPT ![r.inst] = TRUE]
          /\ outcome' = "none"
          /\ UNCHANGED <<localVars, phase, granted>>
       \/ /\ r.op = "clear"
          /\ ReturnFromUnlock(r.inst, TRUE)
          /\ UNCHANGED renew
    /\ UNCHANGED serverVars

\* A task is cancelled inside a call on i.  lock() and try_lock() only catch
\* OSError, so CancelledError leaves their owner behind; unlock() clears it in
\* its finally clause.  A request under way stays on the wire.
Cancel(t, i) ==
    /\ call[t] = i
    /\ gone' = gone \cup {t}
    /\ outcome' = "none"
    /\ call' = [call EXCEPT ![t] = NoOne]
    /\ \/ /\ owner[i] # t
          /\ UNCHANGED <<wire, registry, owner, depth, phase, granted>>
       \/ /\ owner[i] = t /\ phase[i] \in {"poll", "put"}
          /\ phase' = [phase EXCEPT ![i] = "leaked"]
          /\ AbandonAll({i}, {"acquire"})
          /\ UNCHANGED <<registry, owner, depth, granted>>
       \/ /\ owner[i] = t /\ phase[i] \in {"clear", "clearput"}
          /\ ClearOwner(i)
          /\ registry' = [registry EXCEPT ![InstProc[i]] = NoOne]
          /\ AbandonAll({i}, {"clear"})
    /\ UNCHANGED <<serverVars, made, renewVars>>

-----------------------------------------------------------------------------
(* The environment.                                                        *)

Tick ==
    /\ now < MaxClock
    /\ now' = now + 1
    /\ outcome' = "none"
    /\ UNCHANGED <<version, lease, deleted, wire, localVars, phase, renewVars, granted>>

\* A process dies with every task and lock instance in it.
Crash(p) ==
    LET dead == {i \in Insts : InstProc[i] = p} IN
    /\ made \cap dead # {}
    /\ registry' = [registry EXCEPT ![p] = NoOne]
    /\ owner' = [i \in Insts |-> IF i \in dead THEN NoOne ELSE owner[i]]
    /\ depth' = [i \in Insts |-> IF i \in dead THEN 0 ELSE depth[i]]
    /\ phase' = [i \in Insts |-> IF i \in dead THEN "free" ELSE phase[i]]
    /\ renew' = [i \in Insts |-> IF i \in dead THEN "none" ELSE renew[i]]
    /\ renewErr' = [i \in Insts |-> IF i \in dead THEN FALSE ELSE renewErr[i]]
    /\ call' = [t \in Tasks |-> IF TaskProc[t] = p THEN NoOne ELSE call[t]]
    /\ AbandonAll(dead, Ops)
    /\ granted' = [i \in Insts |-> IF i \in dead THEN 0 ELSE granted[i]]
    /\ outcome' = "none"
    /\ UNCHANGED <<serverVars, made, gone>>

\* The Lease is deleted behind the lock's back (a namespace clean-up).
DeleteLease ==
    /\ MayDelete
    /\ lease.rv # 0
    /\ lease' = NoLease
    /\ deleted' = TRUE
    /\ outcome' = "none"
    /\ UNCHANGED <<now, version, wire, localVars, phase, renewVars, granted>>

Next ==
    \/ \E t \in Tasks : Lock(t) \/ Claim(t) \/ StopWaiting(t) \/ Unlock(t)
    \/ \E t \in Tasks, i \in Insts : Cancel(t, i)
    \/ \E i \in Insts : \/ TryAcquire(i) \/ GiveUp(i)
                        \/ RenewRead(i) \/ ClearRead(i)
    \/ \E r \in wire : Serve(r) \/ RequestFails(r)
    \/ \E p \in Procs : Crash(p)
    \/ Tick
    \/ DeleteLease

Spec == Init /\ [][Next]_vars

-----------------------------------------------------------------------------
(* Properties.                                                             *)

\* The types of the variables.
TypeOK ==
    /\ now \in 0..MaxClock
    /\ version \in Nat
    /\ lease \in Leases
    /\ wire \subseteq Requests
    /\ registry \in [Procs -> Insts \cup {NoOne}]
    /\ made \subseteq Insts
    /\ owner \in [Insts -> Tasks \cup {NoOne}]
    /\ depth \in [Insts -> Nat]
    /\ phase \in [Insts -> Phases]
    /\ renew \in [Insts -> {"none", "sleep", "put", "dead"}]
    /\ renewErr \in [Insts -> BOOLEAN]
    /\ granted \in [Insts -> Nat]
    /\ call \in [Tasks -> Insts \cup {NoOne}]
    /\ gone \subseteq Tasks
    /\ deleted \in BOOLEAN
    /\ outcome \in {"none", "ok", "raised"}

\* Instance i holds the lock and, whatever the clock skew between processes,
\* no other process can yet see its last known renewal as expired.
InTerm(i) == phase[i] = "held" /\ now + MaxSkew - granted[i] <= Duration[i]

\* Mutual exclusion (lock, _try_acquire_lease, _replace_lease): an instance
\* inside its lease term is the Lease's recorded holder, so two instances are
\* never both inside theirs, whatever requests are late, lost or orphaned,
\* until something deletes the Lease itself.
ExclusiveWithinTerm == ~deleted =>
    /\ \A i \in Insts : InTerm(i) => lease.holder = i
    /\ \A i, j \in Insts : InTerm(i) /\ InTerm(j) => i = j

\* A renew loop, or a renewal the server has not answered, never outlives the
\* hold it was started for (_begin_renew_loop, _stop_renew_loop): a leaked
\* loop would keep the Lease from every other process for ever.
NoRenewLeak ==
    /\ \A i \in Insts : renew[i] # "none" => phase[i] = "held"
    /\ \A r \in wire : r.op = "renew" => renew[r.inst] = "put"

\* The task an instance names as its owner is inside a call on that instance
\* or holds it (lock, try_lock, unlock and their error paths): no failure
\* leaves behind an owner that will never release the tasks waiting for it,
\* except the cancellation of a task inside lock() or try_lock().
NoAbsentOwner ==
    \A i \in Insts :
        IF owner[i] = NoOne
          THEN depth[i] = 0 /\ phase[i] = "free"
          ELSE /\ phase[i] # "free"
               /\ phase[i] \in {"held", "leaked"} <=> call[owner[i]] # i
               /\ depth[i] > 0 <=> phase[i] \notin {"clear", "clearput"}
               /\ phase[i] = "leaked" => owner[i] \in gone

\* What the version guard protects (_try_acquire_lease, _clear_lease,
\* _replace_lease): a request the server would still apply, however late,
\* carries a decision that is still right.  A release is of the hold the Lease
\* records, and that hold is over; a claim is of a Lease that does not exist,
\* that the claimant already has, or that had expired by the claimant's clock.
RequestsGuarded ==
    \A r \in wire : r.rv = lease.rv =>
        IF r.holder = NoOne
          THEN lease.holder = r.inst /\ phase[r.inst] # "held"
          ELSE \/ lease.rv = 0
               \/ lease.holder = r.inst /\ r.renew >= lease.renew
               \/ LeaseExpired(lease, r.renew)

\* The Lease passes from one instance to another only once the first one's
\* renewal had expired (_lease_expired, then the version-guarded replace): a
\* renewal between a rival's read and its write defeats the rival's write.
StealOnlyExpired ==
    [][ \A i, j \in Insts :
          lease.holder = i /\ lease'.holder = j /\ i # j
            => now + MaxSkew - lease.renew > lease.dur ]_lease

\* A held Lease is cleared only by a release its current holder asked for in
\* its current hold (_clear_lease): a late release of an earlier hold, or of
\* another instance, has no effect.
ReleaseOnlyOwn ==
    [][ lease.holder # NoOne /\ lease'.holder = NoOne /\ lease'.rv # 0
          => /\ phase[lease.holder] # "held"
             /\ \E r \in wire : r.inst = lease.holder /\ r.holder = NoOne
      ]_lease

\* unlock() documents an error "If the Lease cannot be released": when it
\* returns without one, the Lease no longer names this instance.
ReleaseEffective ==
    [][ \A i \in Insts :
          phase[i] \in {"clear", "clearput"} /\ phase'[i] = "free"
                /\ outcome' = "ok"
            => lease'.holder # i ]_vars

\* The lock is documented as re-entrant: a task that holds it never waits for
\* it in a nested lock() call.
Reentrant ==
    \A t \in Tasks, i \in Insts :
        owner[i] = t /\ phase[i] = "held" => call[t] = NoOne
=============================================================================
