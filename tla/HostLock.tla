------------------------------ MODULE HostLock ------------------------------
(***************************************************************************)
(* The file lock of bertrand/env/git/bertrand_git.py, for one lock path.   *)
(*                                                                         *)
(* A process keeps one registered HostLock instance per path; its `_owner` *)
(* and `_depth` exclude the asyncio tasks of the process from each other,  *)
(* and flock() on the instance's descriptor excludes processes.  Releasing *)
(* unlocks and closes the descriptor and then unlinks the path, whatever   *)
(* file the path names by then.                                            *)
(*                                                                         *)
(* Each system call is a step of its own, because other processes run      *)
(* between two of them.  The tasks of one process do not: no method awaits *)
(* between its system calls, so a process in the middle of such a section  *)
(* (Quiet is false) takes no other step.                                   *)
(***************************************************************************)
EXTENDS Integers

CONSTANTS
    Procs, Tasks, Insts,
    TaskProc,   \* the process of each task
    InstProc,   \* the process that can make each instance
    NoOne,      \* None
    MaxInode,   \* bound on the lock files created at the path
    MaxDepth,   \* bound on re-entrant nesting
    MayCancel   \* whether a waiting task may be cancelled

ASSUME HostNoOneAssumption == NoOne \notin Tasks \cup Insts
ASSUME HostProcAssumption ==
    /\ TaskProc \in [Tasks -> Procs]
    /\ InstProc \in [Insts -> Procs]
ASSUME HostBoundAssumption ==
    MaxInode \in Nat /\ MaxDepth \in Nat /\ MayCancel \in BOOLEAN

VARIABLES
    path,      \* file the path names, 0 for none
    inodes,    \* lock files created so far
    flock,     \* instance whose descriptor has the flock of each file
    fd,        \* _fd: file of the instance's descriptor, 0 for None
    registry,  \* HOST_LOCKS, per process
    made,      \* instances constructed so far
    owner,     \* _owner
    depth,     \* _depth
    phase,     \* where the owner's call on the instance stands
    nowait,    \* the owner's call is try_lock()
    call,      \* instance whose lock() a task is executing
    gone       \* cancelled tasks

vars == <<path, inodes, flock, fd, registry, made, owner, depth, phase,
          nowait, call, gone>>

fileVars == <<path, inodes, flock>>
Files    == 1..MaxInode
Phases   == {"free", "start", "opened", "wait", "held", "fail", "drop", "leaked"}

Init ==
    /\ path = 0 /\ inodes = 0 /\ flock = [n \in Files |-> NoOne]
    /\ fd = [i \in Insts |-> 0]
    /\ registry = [p \in Procs |-> NoOne] /\ made = {}
    /\ owner = [i \in Insts |-> NoOne]
    /\ depth = [i \in Insts |-> 0]
    /\ phase = [i \in Insts |-> "free"]
    /\ nowait = [i \in Insts |-> FALSE]
    /\ call = [t \in Tasks |-> NoOne]
    /\ gone = {}

\* No instance of process p is between two system calls of one section.
Quiet(p) ==
    \A i \in Insts : InstProc[i] = p =>
        phase[i] \notin {"start", "opened", "fail", "drop"}

-----------------------------------------------------------------------------
(* lock(), try_lock() and unlock() on the instance.                        *)

\* HostLock(path): the registered instance, or a new one.
Constructed(p, i) ==
    /\ InstProc[i] = p
    /\ IF registry[p] # NoOne THEN i = registry[p] ELSE i \notin made

TakeOwnership(t, i, try) ==
    /\ owner' = [owner EXCEPT ![i] = t]
    /\ depth' = [depth EXCEPT ![i] = 1]
    /\ phase' = [phase EXCEPT ![i] = "start"]
    /\ nowait' = [nowait EXCEPT ![i] = try]
    /\ call' = [call EXCEPT ![t] = i]

\* A task constructs the lock and calls lock() or, if try, try_lock().
Lock(t, try) ==
    /\ call[t] = NoOne /\ t \notin gone /\ Quiet(TaskProc[t])
    /\ \E i \in Insts :
        /\ Constructed(TaskProc[t], i)
        /\ registry' = [registry EXCEPT ![TaskProc[t]] = i]
        /\ made' = made \cup {i}
        /\ \/ owner[i] = NoOne /\ TakeOwnership(t, i, try)
           \/ /\ owner[i] = t
              /\ depth[i] < MaxDepth
              /\ depth' = [depth EXCEPT ![i] = @ + 1]
              /\ UNCHANGED <<owner, phase, nowait, call>>
           \/ /\ owner[i] \notin {t, NoOne}
              /\ call' = [call EXCEPT ![t] = IF try THEN NoOne ELSE i]
              /\ UNCHANGED <<owner, depth, phase, nowait>>
    /\ UNCHANGED <<fileVars, fd, gone>>

\* A task waiting in lock() finds the instance unowned on a later poll.
Claim(t) ==
    /\ call[t] # NoOne /\ Quiet(TaskProc[t])
    /\ owner[call[t]] = NoOne
    /\ TakeOwnership(t, call[t], FALSE)
    /\ UNCHANGED <<fileVars, fd, registry, made, gone>>

\* A task waiting for another owner reaches its deadline.
StopWaiting(t) ==
    /\ call[t] # NoOne /\ Quiet(TaskProc[t])
    /\ owner[call[t]] \notin {t, NoOne}
    /\ call' = [call EXCEPT ![t] = NoOne]
    /\ UNCHANGED <<fileVars, fd, registry, made, owner, depth, phase, nowait, gone>>

\* _clear_owner()
ClearOwner(i) ==
    /\ owner' = [owner EXCEPT ![i] = NoOne]
    /\ depth' = [depth EXCEPT ![i] = 0]
    /\ phase' = [phase EXCEPT ![i] = "free"]
    /\ call' = [call EXCEPT ![owner[i]] = NoOne]
    /\ UNCHANGED <<nowait, made, gone>>

\* A waiting task is cancelled: CancelledError passes the `except OSError`
\* of lock(), so the instance keeps its owner and its descriptor.
Cancel(t) ==
    /\ MayCancel
    /\ call[t] # NoOne /\ Quiet(TaskProc[t])
    /\ gone' = gone \cup {t}
    /\ call' = [call EXCEPT ![t] = NoOne]
    /\ \/ /\ owner[call[t]] = t
          /\ phase' = [phase EXCEPT ![call[t]] = "leaked"]
       \/ /\ owner[call[t]] # t
          /\ UNCHANGED phase
    /\ UNCHANGED <<fileVars, fd, registry, made, owner, depth, nowait>>

\* Mutant: unlock() does not ask who holds the lock.
UnlockUnowned(t) ==
    /\ call[t] = NoOne /\ Quiet(TaskProc[t])
    /\ \E i \in made :
        /\ depth' = [depth EXCEPT ![i] = @ - 1]
        /\ UNCHANGED <<phase, fd, flock, call>>
    /\ UNCHANGED <<path, inodes, registry, made, owner, nowait, gone>>


\* unlock(): the last level unlocks and closes the descriptor; the unlink is
\* the next system call.
Unlock(t) ==
    /\ call[t] = NoOne /\ Quiet(TaskProc[t])
    /\ \E i \in Insts :
        /\ owner[i] = t /\ phase[i] = "held"
        /\ depth' = [depth EXCEPT ![i] = @ - 1]
        /\ IF depth[i] > 1
             THEN UNCHANGED <<phase, fd, flock, call>>
             ELSE /\ phase' = [phase EXCEPT ![i] = "drop"]
                  /\ flock' = [flock EXCEPT ![fd[i]] = NoOne]
                  /\ fd' = [fd EXCEPT ![i] = 0]
                  /\ call' = [call EXCEPT ![t] = i]
    /\ UNCHANGED <<path, inodes, registry, made, owner, nowait, gone>>

-----------------------------------------------------------------------------
(* The system calls of _try_acquire_file() and _release_file().            *)

\* os.open(path, O_RDWR | O_CREAT), from the view of the file system.
OpenPath ==
    IF path # 0
      THEN UNCHANGED <<path, inodes>>
      ELSE inodes < MaxInode /\ inodes' = inodes + 1 /\ path' = inodes + 1

\* _create_lock_file()
CreateLockFile(i) ==
    /\ phase[i] = "start" /\ fd[i] = 0
    /\ OpenPath
    /\ fd' = [fd EXCEPT ![i] = path']
    /\ phase' = [phase EXCEPT ![i] = "opened"]
    /\ UNCHANGED <<flock, registry, made, owner, depth, nowait, call, gone>>

\* Opening or securing the lock file fails; the file may stay behind.
CreateFails(i) ==
    /\ phase[i] = "start" /\ fd[i] = 0
    /\ OpenPath \/ UNCHANGED <<path, inodes>>
    /\ ClearOwner(i)
    /\ UNCHANGED <<flock, fd, registry>>

\* Instance i is about to call flock(): in its first attempt, or on a poll.
Attempting(i) ==
    \/ phase[i] = "opened"
    \/ phase[i] = "start" /\ fd[i] # 0
    \/ phase[i] = "wait" /\ Quiet(InstProc[i])

FlockSucceeds(i) ==
    /\ Attempting(i)
    /\ flock[fd[i]] = NoOne
    /\ flock' = [flock EXCEPT ![fd[i]] = i]
    /\ phase' = [phase EXCEPT ![i] = "held"]
    /\ call' = [call EXCEPT ![owner[i]] = NoOne]
    /\ UNCHANGED <<path, inodes, fd, registry, made, owner, depth, nowait, gone>>

\* The file is locked: try_lock() reports contention and keeps the
\* descriptor, lock() sleeps until its next poll.
FlockContended(i) ==
    /\ Attempting(i)
    /\ flock[fd[i]] # NoOne
    /\ \/ nowait[i] /\ ClearOwner(i)
       \/ /\ ~nowait[i]
          /\ phase[i] # "wait"
          /\ phase' = [phase EXCEPT ![i] = "wait"]
          /\ UNCHANGED <<made, owner, depth, nowait, call, gone>>
    /\ UNCHANGED <<fileVars, fd, registry>>

\* Mutant: a lock() that runs out of time returns as if it had the file.
TimeoutAcquires(i) ==
    /\ Attempting(i)
    /\ phase' = [phase EXCEPT ![i] = "held"]
    /\ call' = [call EXCEPT ![owner[i]] = NoOne]
    /\ UNCHANGED <<fileVars, fd, registry, made, owner, depth, nowait, gone>>

\* The deadline of lock() has passed, or flock() fails: _release_file()
\* closes the descriptor before it unlinks the path.
FlockFails(i) ==
    /\ Attempting(i)
    /\ phase' = [phase EXCEPT ![i] = "fail"]
    /\ fd' = [fd EXCEPT ![i] = 0]
    /\ UNCHANGED <<fileVars, registry, made, owner, depth, nowait, call, gone>>

\* path.unlink(), then _clear_owner(); unlock() also unregisters the path.
Unlink(i) ==
    /\ phase[i] \in {"fail", "drop"}
    /\ path' = 0
    /\ registry' = IF phase[i] = "drop"
                     THEN [registry EXCEPT ![InstProc[i]] = NoOne]
                     ELSE registry
    /\ ClearOwner(i)
    /\ UNCHANGED <<inodes, flock, fd>>

\* A process dies; the kernel closes its descriptors and the file stays.
Crash(p) ==
    LET dead == {i \in Insts : InstProc[i] = p} IN
    /\ made \cap dead # {}
    /\ flock' = [n \in Files |-> IF flock[n] \in dead THEN NoOne ELSE flock[n]]
    /\ fd' = [i \in Insts |-> IF i \in dead THEN 0 ELSE fd[i]]
    /\ registry' = [registry EXCEPT ![p] = NoOne]
    /\ owner' = [i \in Insts |-> IF i \in dead THEN NoOne ELSE owner[i]]
    /\ depth' = [i \in Insts |-> IF i \in dead THEN 0 ELSE depth[i]]
    /\ phase' = [i \in Insts |-> IF i \in dead THEN "free" ELSE phase[i]]
    /\ call' = [t \in Tasks |-> IF TaskProc[t] = p THEN NoOne ELSE call[t]]
    /\ UNCHANGED <<path, inodes, made, nowait, gone>>

Next ==
    \/ \E t \in Tasks : \/ \E try \in BOOLEAN : Lock(t, try)
                        \/ Claim(t) \/ StopWaiting(t) \/ Cancel(t) \/ Unlock(t)
    \/ \E i \in Insts : \/ CreateLockFile(i) \/ CreateFails(i)
                        \/ FlockSucceeds(i) \/ FlockContended(i) \/ FlockFails(i)
                        \/ Unlink(i)
    \/ \E p \in Procs : Crash(p)

Spec == Init /\ [][Next]_vars

\* A step of a section that the event loop cannot interrupt.
SectionStep(i) ==
    /\ phase[i] # "wait"
    /\ \/ CreateLockFile(i) \/ CreateFails(i)
       \/ FlockSucceeds(i) \/ FlockContended(i) \/ FlockFails(i)
       \/ Unlink(i)

\* A section runs to its end.  A polling lock() calls flock() again and again,
\* between the sections of the other tasks of its process, and the callers
\* release what they hold instead of re-entering it for ever.
Fairness ==
    /\ \A i \in Insts : WF_vars(SectionStep(i)) /\ SF_vars(FlockSucceeds(i))
    /\ \A t \in Tasks : /\ WF_vars(Unlock(t))
                        /\ SF_vars(Unlock(t) /\ phase' # phase)

FairSpec == Spec /\ Fairness

-----------------------------------------------------------------------------
(* Properties.                                                             *)

\* The types of the variables.
TypeOK ==
    /\ path \in 0..MaxInode /\ inodes \in 0..MaxInode
    /\ flock \in [Files -> Insts \cup {NoOne}]
    /\ fd \in [Insts -> 0..MaxInode]
    /\ registry \in [Procs -> Insts \cup {NoOne}]
    /\ made \subseteq Insts
    /\ owner \in [Insts -> Tasks \cup {NoOne}]
    /\ depth \in [Insts -> Nat]
    /\ phase \in [Insts -> Phases]
    /\ nowait \in [Insts -> BOOLEAN]
    /\ call \in [Tasks -> Insts \cup {NoOne}]
    /\ gone \subseteq Tasks

\* The operating system's lock and the instance agree (_try_acquire_file,
\* _release_file): a task whose lock() returned has the flock of its
\* descriptor's file, and no timeout, error, cancellation or crash leaves a
\* flock taken with no owner to release it.
FlockMatchesHold ==
    /\ \A i \in Insts : phase[i] = "held" => fd[i] # 0 /\ flock[fd[i]] = i
    /\ \A n \in Files : flock[n] # NoOne =>
          /\ fd[flock[n]] = n /\ phase[flock[n]] = "held"
          /\ owner[flock[n]] # NoOne


\* try_lock() documents `False` "if the lock is currently held by another
\* task or process": two instances never hold the lock of one path together.
MutualExclusion ==
    \A i, j \in Insts : phase[i] = "held" /\ phase[j] = "held" => i = j
=============================================================================
