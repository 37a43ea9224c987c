--------------------------- MODULE HostLockProofs ---------------------------
(***************************************************************************)
(* Proofs about HostLock, for every set of processes, tasks and instances  *)
(* and every number of files.                                              *)
(*                                                                         *)
(* FlockMatchesHold is made inductive by CallInv, which is about one       *)
(* process: what an instance must have in each phase of a call on it, and  *)
(* that the owner of a held instance has no call on it under way.          *)
(***************************************************************************)
EXTENDS HostLock, TLAPS

Entered == {"start", "opened", "wait", "held"}

CallInv ==
    /\ \A i \in Insts : phase[i] \in {"opened", "wait"} => fd[i] # 0
    /\ \A i \in Insts : phase[i] \in Entered => owner[i] # NoOne /\ depth[i] > 0
    /\ \A i \in Insts, t \in Tasks :
          phase[i] = "held" /\ owner[i] = t => call[t] # i

IInv == TypeOK /\ CallInv /\ FlockMatchesHold

LEMMA InitIInv == Init => IInv
BY HostBoundAssumption, HostNoOneAssumption
   DEF Init, IInv, TypeOK, CallInv, FlockMatchesHold, Files, Phases, Entered

\* The kernel's flock names an instance exactly when that instance is held.
LEMMA FlockHolder ==
    ASSUME IInv, NEW n \in Files, NEW i \in Insts
    PROVE  flock[n] = i <=> phase[i] = "held" /\ fd[i] = n
BY HostNoOneAssumption DEF IInv, TypeOK, FlockMatchesHold, Files

-----------------------------------------------------------------------------
(* One lemma per group of actions.                                         *)

\* A task takes an instance that nobody owns.
LEMMA TakeOwnershipStep ==
    ASSUME IInv, NEW t \in Tasks, NEW i \in Insts, NEW try \in BOOLEAN,
           owner[i] = NoOne, TakeOwnership(t, i, try),
           UNCHANGED <<fileVars, fd, gone>>,
           registry' \in [Procs -> Insts \cup {NoOne}], made' \subseteq Insts
    PROVE  IInv'
<1>. USE HostNoOneAssumption DEF IInv, TakeOwnership, fileVars
<1>1. phase[i] # "held"
  BY DEF CallInv, Entered
<1>2. TypeOK'
  BY DEF TypeOK, Phases
<1>3. CallInv'
  BY <1>1 DEF TypeOK, CallInv, Entered
<1>4. FlockMatchesHold'
  BY <1>1 DEF TypeOK, FlockMatchesHold, Files
<1>. QED
  BY <1>2, <1>3, <1>4

LEMMA TaskSteps ==
    ASSUME IInv, NEW t \in Tasks,
           \/ \E try \in BOOLEAN : Lock(t, try)
           \/ Claim(t) \/ StopWaiting(t) \/ Cancel(t)
    PROVE  IInv'
<1>. USE HostNoOneAssumption, HostProcAssumption
<1>1. ASSUME NEW try \in BOOLEAN, Lock(t, try) PROVE IInv'
  <2>1. PICK i \in Insts :
          /\ registry' = [registry EXCEPT ![TaskProc[t]] = i]
          /\ made' = made \cup {i}
          /\ \/ owner[i] = NoOne /\ TakeOwnership(t, i, try)
             \/ /\ owner[i] = t
                /\ depth' = [depth EXCEPT ![i] = @ + 1]
                /\ UNCHANGED <<owner, phase, nowait, call>>
             \/ /\ owner[i] \notin {t, NoOne}
                /\ call' = [call EXCEPT ![t] = IF try THEN NoOne ELSE i]
                /\ UNCHANGED <<owner, depth, phase, nowait>>
    BY <1>1 DEF Lock
  <2>2. UNCHANGED <<fileVars, fd, gone>> /\ call[t] = NoOne
    BY <1>1 DEF Lock
  <2>3. registry' \in [Procs -> Insts \cup {NoOne}] /\ made' \subseteq Insts
    BY <2>1 DEF IInv, TypeOK
  <2>4. CASE owner[i] = NoOne /\ TakeOwnership(t, i, try)
    BY <2>2, <2>3, <2>4, TakeOwnershipStep
  <2>5. CASE /\ owner[i] = t
             /\ depth' = [depth EXCEPT ![i] = @ + 1]
             /\ UNCHANGED <<owner, phase, nowait, call>>
    BY <2>2, <2>3, <2>5
       DEF IInv, TypeOK, CallInv, FlockMatchesHold, Entered, fileVars
  <2>6. CASE /\ owner[i] \notin {t, NoOne}
             /\ call' = [call EXCEPT ![t] = IF try THEN NoOne ELSE i]
             /\ UNCHANGED <<owner, depth, phase, nowait>>
    BY <2>2, <2>3, <2>6
       DEF IInv, TypeOK, CallInv, FlockMatchesHold, Entered, fileVars
  <2>. QED
    BY <2>1, <2>4, <2>5, <2>6
<1>2. CASE Claim(t)
  BY <1>2, TakeOwnershipStep DEF Claim, IInv, TypeOK
<1>3. CASE StopWaiting(t)
  BY <1>3 DEF StopWaiting, IInv, TypeOK, CallInv, FlockMatchesHold, Entered, fileVars
<1>4. CASE Cancel(t)
  <2>1. /\ call[t] \in Insts
        /\ call' = [call EXCEPT ![t] = NoOne]
        /\ \/ phase' = [phase EXCEPT ![call[t]] = "leaked"] /\ phase[call[t]] # "held"
           \/ UNCHANGED phase
        /\ gone' = gone \cup {t}
        /\ UNCHANGED <<fileVars, fd, registry, made, owner, depth, nowait>>
    BY <1>4 DEF Cancel, IInv, TypeOK, CallInv
  <2>2. TypeOK'
    BY <2>1 DEF IInv, TypeOK, Phases, fileVars
  <2>3. CallInv'
    BY <2>1 DEF IInv, TypeOK, CallInv, Entered, fileVars
  <2>4. FlockMatchesHold'
    <3>1. UNCHANGED <<flock, fd, owner>>
      BY <2>1 DEF fileVars
    <3>2. \A i \in Insts : phase[i] = "held" <=> phase'[i] = "held"
      BY <2>1 DEF IInv, TypeOK
    <3>. QED
      BY <3>1, <3>2 DEF IInv, TypeOK, FlockMatchesHold
  <2>. QED
    BY <2>2, <2>3, <2>4 DEF IInv
<1>. QED
  BY <1>1, <1>2, <1>3, <1>4

\* unlock() up to the unlink.
LEMMA UnlockStep ==
    ASSUME IInv, NEW t \in Tasks, Unlock(t)
    PROVE  IInv'
<1>. USE HostNoOneAssumption DEF IInv
<1>1. PICK i \in Insts :
        /\ owner[i] = t /\ phase[i] = "held"
        /\ depth' = [depth EXCEPT ![i] = @ - 1]
        /\ IF depth[i] > 1
             THEN UNCHANGED <<phase, fd, flock, call>>
             ELSE /\ phase' = [phase EXCEPT ![i] = "drop"]
                  /\ flock' = [flock EXCEPT ![fd[i]] = NoOne]
                  /\ fd' = [fd EXCEPT ![i] = 0]
                  /\ call' = [call EXCEPT ![t] = i]
  BY DEF Unlock
<1>2. UNCHANGED <<path, inodes, registry, made, owner, nowait, gone>>
  BY DEF Unlock
<1>3. depth[i] > 0 /\ fd[i] \in Files /\ flock[fd[i]] = i
  BY <1>1 DEF TypeOK, CallInv, FlockMatchesHold, Entered, Files
<1>4. CASE depth[i] > 1
  BY <1>1, <1>2, <1>4 DEF TypeOK, CallInv, FlockMatchesHold, Entered
<1>5. CASE ~(depth[i] > 1)
  <2>1. TypeOK'
    BY <1>1, <1>2, <1>3, <1>5, HostBoundAssumption DEF TypeOK, Phases
  <2>2. CallInv'
    BY <1>1, <1>2, <1>5 DEF TypeOK, CallInv, Entered
  <2>3. FlockMatchesHold'
    <3>1. \A j \in Insts : phase'[j] = "held" <=> phase[j] = "held" /\ j # i
      BY <1>1, <1>5 DEF TypeOK
    <3>2. \A j \in Insts \ {i} : fd'[j] = fd[j] /\ owner'[j] = owner[j]
      BY <1>1, <1>2, <1>5 DEF TypeOK
    <3>3. \A n \in Files : flock'[n] = IF n = fd[i] THEN NoOne ELSE flock[n]
      BY <1>1, <1>3, <1>5 DEF TypeOK
    <3>4. \A n \in Files : n # fd[i] => flock[n] # i
      BY <1>1, FlockHolder
    <3>5. \A j \in Insts \ {i} : phase[j] = "held" => fd[j] \in Files /\ fd[j] # fd[i]
      BY <1>3 DEF TypeOK, FlockMatchesHold, Files
    <3>. QED
      BY <3>1, <3>2, <3>3, <3>4, <3>5 DEF TypeOK, FlockMatchesHold
  <2>. QED
    BY <2>1, <2>2, <2>3
<1>. QED
  BY <1>4, <1>5

\* _clear_owner() of an instance that is not held.
LEMMA ClearOwnerStep ==
    ASSUME IInv, NEW i \in Insts, ClearOwner(i), phase[i] # "held",
           path' \in 0..MaxInode, inodes' \in 0..MaxInode, UNCHANGED <<flock, fd>>,
           registry' \in [Procs -> Insts \cup {NoOne}]
    PROVE  IInv'
<1>. USE HostNoOneAssumption DEF IInv, ClearOwner
<1>1. TypeOK'
  BY DEF TypeOK, Phases
<1>2. CallInv'
  BY DEF TypeOK, CallInv, Entered
<1>3. FlockMatchesHold'
  BY DEF TypeOK, FlockMatchesHold, Files
<1>. QED
  BY <1>1, <1>2, <1>3

\* Opening the path gives a file, as long as MaxInode allows.
LEMMA OpenedFile ==
    ASSUME TypeOK, OpenPath
    PROVE  path' \in 1..MaxInode /\ inodes' \in 0..MaxInode
BY HostBoundAssumption DEF TypeOK, OpenPath

\* The system calls.
LEMMA FileSteps ==
    ASSUME IInv, NEW i \in Insts,
           \/ CreateLockFile(i) \/ CreateFails(i) \/ FlockSucceeds(i)
           \/ FlockContended(i) \/ FlockFails(i) \/ Unlink(i)
    PROVE  IInv'
<1>. USE HostNoOneAssumption
<1>1. CASE CreateLockFile(i)
  <2>1. path' \in 1..MaxInode /\ inodes' \in 0..MaxInode
    BY <1>1, OpenedFile DEF CreateLockFile, IInv
  <2>2. TypeOK'
    BY <1>1, <2>1, HostBoundAssumption DEF CreateLockFile, IInv, TypeOK, Phases
  <2>3. CallInv'
    BY <1>1, <2>1 DEF CreateLockFile, IInv, TypeOK, CallInv, Entered
  <2>4. FlockMatchesHold'
    BY <1>1 DEF CreateLockFile, IInv, TypeOK, FlockMatchesHold, Files
  <2>. QED
    BY <2>2, <2>3, <2>4 DEF IInv
<1>2. CASE CreateFails(i)
  <2>1. path' \in 0..MaxInode /\ inodes' \in 0..MaxInode
    BY <1>2, OpenedFile DEF CreateFails, IInv, TypeOK
  <2>. QED
    BY <1>2, <2>1, ClearOwnerStep DEF CreateFails, IInv, TypeOK
<1>3. CASE FlockSucceeds(i)
  <2>1. /\ phase[i] \in {"start", "opened", "wait"} /\ fd[i] # 0
        /\ flock[fd[i]] = NoOne
        /\ flock' = [flock EXCEPT ![fd[i]] = i]
        /\ phase' = [phase EXCEPT ![i] = "held"]
        /\ call' = [call EXCEPT ![owner[i]] = NoOne]
        /\ UNCHANGED <<path, inodes, fd, registry, made, owner, depth, nowait, gone>>
    BY <1>3 DEF FlockSucceeds, Attempting, IInv, CallInv
  <2>2. fd[i] \in Files /\ owner[i] \in Tasks
    BY <2>1, HostBoundAssumption DEF IInv, TypeOK, CallInv, Entered, Files
  <2>3. TypeOK'
    BY <2>1, <2>2 DEF IInv, TypeOK, Phases
  <2>4. CallInv'
    BY <2>1, <2>2 DEF IInv, TypeOK, CallInv, Entered
  <2>5. FlockMatchesHold'
    BY <2>1, <2>2 DEF IInv, TypeOK, FlockMatchesHold, Files
  <2>. QED
    BY <2>3, <2>4, <2>5 DEF IInv
<1>4. CASE FlockContended(i)
  <2>1. phase[i] \in {"start", "opened", "wait"} /\ fd[i] # 0
    BY <1>4 DEF FlockContended, Attempting, IInv, CallInv
  <2>2. CASE ClearOwner(i)
    BY <1>4, <2>1, <2>2, ClearOwnerStep DEF FlockContended, fileVars, IInv, TypeOK
  <2>3. CASE /\ phase' = [phase EXCEPT ![i] = "wait"]
             /\ UNCHANGED <<made, owner, depth, nowait, call, gone>>
    <3>1. UNCHANGED <<path, inodes, flock, fd, registry>>
      BY <1>4 DEF FlockContended, fileVars
    <3>2. TypeOK'
      BY <2>3, <3>1 DEF IInv, TypeOK, Phases
    <3>3. CallInv'
      BY <2>1, <2>3, <3>1 DEF IInv, TypeOK, CallInv, Entered
    <3>4. FlockMatchesHold'
      BY <2>1, <2>3, <3>1 DEF IInv, TypeOK, FlockMatchesHold, Files
    <3>. QED
      BY <3>2, <3>3, <3>4 DEF IInv
  <2>. QED
    BY <1>4, <2>2, <2>3 DEF FlockContended
<1>5. CASE FlockFails(i)
  <2>1. phase[i] # "held"
    BY <1>5 DEF FlockFails, Attempting
  <2>2. TypeOK'
    BY <1>5, HostBoundAssumption DEF FlockFails, fileVars, IInv, TypeOK, Phases
  <2>3. CallInv'
    BY <1>5, <2>1 DEF FlockFails, fileVars, IInv, TypeOK, CallInv, Entered
  <2>4. FlockMatchesHold'
    BY <1>5, <2>1 DEF FlockFails, fileVars, IInv, TypeOK, FlockMatchesHold, Files
  <2>. QED
    BY <2>2, <2>3, <2>4 DEF IInv
<1>6. CASE Unlink(i)
  <2>1. path' \in 0..MaxInode /\ registry' \in [Procs -> Insts \cup {NoOne}]
    BY <1>6, HostBoundAssumption, HostProcAssumption DEF Unlink, IInv, TypeOK
  <2>. QED
    BY <1>6, <2>1, ClearOwnerStep DEF Unlink, IInv, TypeOK
<1>. QED
  BY <1>1, <1>2, <1>3, <1>4, <1>5, <1>6

\* The kernel releases what a dead process held, and nothing else.
LEMMA CrashStep ==
    ASSUME IInv, NEW p \in Procs, Crash(p)
    PROVE  IInv'
<1>. USE HostNoOneAssumption, HostBoundAssumption DEF Crash, IInv
<1>1. TypeOK'
  BY DEF TypeOK, Phases
<1>2. CallInv'
  BY DEF TypeOK, CallInv, Entered
<1>3. FlockMatchesHold'
  BY DEF TypeOK, FlockMatchesHold, Files
<1>. QED
  BY <1>1, <1>2, <1>3

-----------------------------------------------------------------------------
(* The theorems.                                                           *)

LEMMA IInvNext == IInv /\ [Next]_vars => IInv'
<1>1. ASSUME IInv, Next PROVE IInv'
  BY <1>1, TaskSteps, UnlockStep, FileSteps, CrashStep DEF Next
<1>2. ASSUME IInv, UNCHANGED vars PROVE IInv'
  BY <1>2 DEF vars, IInv, TypeOK, CallInv, FlockMatchesHold
<1>. QED
  BY <1>1, <1>2

\* The variables have their types in every reachable state: in particular the
\* depth that unlock() counts down never falls below zero.
THEOREM TypeCorrect == Spec => []TypeOK
<1>1. Init => IInv
  BY InitIInv
<1>2. IInv => TypeOK
  BY DEF IInv
<1>. QED
  BY <1>1, <1>2, IInvNext, PTL DEF Spec

\* The flock and the instance agree in every reachable state, whatever times
\* out, fails, is cancelled or crashes between two system calls
\* (_try_acquire_file, _release_file).
THEOREM FlockAgrees == Spec => []FlockMatchesHold
<1>1. Init => IInv
  BY InitIInv
<1>2. IInv => FlockMatchesHold
  BY DEF IInv
<1>. QED
  BY <1>1, <1>2, IInvNext, PTL DEF Spec
=============================================================================
