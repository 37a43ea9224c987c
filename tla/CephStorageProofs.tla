-------------------------- MODULE CephStorageProofs --------------------------
(***************************************************************************)
(* Proofs about CephStorage, for every set of reservations, OSDs and       *)
(* hosts, every size and every bound.                                      *)
(*                                                                         *)
(* TypeOK is inductive.  RecordsSurvive needs nothing but TypeOK: one      *)
(* action writes records.  NoReplay is made inductive by ClaimInv: a patch *)
(* of an action under way never makes it pending, and the agent that is    *)
(* about to begin has its claim under way or applied.                      *)
(***************************************************************************)
EXTENDS CephStorage, SequenceTheorems, TLAPS

Statuses == [by : Actors \cup {NoOne}, res : [Res -> ResPhases], osd : [OSDs -> OSDPhases]]

Patches == [by : Actors \cup {NoOne}, act : Nat, phase : ActionPhases]

Agents == [pc : AgentSteps, todo : SUBSET Nat, act : Nat, had : BOOLEAN]

\* The agent of host h is bound to an action.
InAction(h) == agent[h].pc \in {"begin", "failing"} \/ Working(h)

\* Its action is no longer pending, or the claim is still under way.
Claimed(h) == \/ Current(h).phase # "Pending"
              \/ \E q \in awire : q.by = h /\ q.act = agent[h].act

ClaimInv ==
    /\ \A q \in awire : q.phase # "Pending"
    /\ \A h \in Hosts :
        /\ agent[h].todo \subseteq DOMAIN acts
        /\ InAction(h) => agent[h].act \in DOMAIN acts
        /\ agent[h].pc = "begin" => Claimed(h)

-----------------------------------------------------------------------------
(* Requests are well formed.                                               *)

\* A sender puts a copy of the status on the wire (patch_status).
LEMMA SendStatusType ==
    ASSUME TypeOK, NEW a \in Actors, NEW newRes \in [Res -> ResPhases],
           NEW newOSD \in [OSDs -> OSDPhases], SendStatus(a, newRes, newOSD)
    PROVE  wire' \subseteq Statuses
BY DEF SendStatus, TypeOK, Statuses

LEMMA SendReservationType ==
    ASSUME TypeOK, NEW a \in Actors, NEW r \in Res, NEW phase \in ResPhases,
           SendReservation(a, r, phase)
    PROVE  wire' \subseteq Statuses
<1>1. osd \in [OSDs -> OSDPhases] /\ [res EXCEPT ![r] = phase] \in [Res -> ResPhases]
  BY DEF TypeOK
<1>. QED
  BY <1>1, SendStatusType DEF SendReservation

LEMMA SendOSDType ==
    ASSUME TypeOK, NEW a \in Actors, NEW o \in OSDs, NEW phase \in OSDPhases,
           SendOSD(a, o, phase)
    PROVE  wire' \subseteq Statuses
<1>1. res \in [Res -> ResPhases] /\ [osd EXCEPT ![o] = phase] \in [OSDs -> OSDPhases]
  BY DEF TypeOK
<1>. QED
  BY <1>1, SendStatusType DEF SendOSD

LEMMA SendActionType ==
    ASSUME TypeOK, NEW a \in Actors, NEW n \in Nat, NEW phase \in ActionPhases,
           SendAction(a, n, phase)
    PROVE  awire' \subseteq Patches
BY DEF SendAction, TypeOK, Patches

\* A request without its caller is the same request of no one; a refused one
\* is gone.  The other actors keep theirs.
LEMMA LostRequests ==
    ASSUME TypeOK, NEW a \in Actors, Refuse(a) \/ Orphan(a)
    PROVE  /\ wire' \subseteq Statuses /\ awire' \subseteq Patches
           /\ \A q \in awire' : \E p \in awire : q.act = p.act /\ q.phase = p.phase
           /\ \A q \in awire : q.by # a => q \in awire'
<1>1. CASE Refuse(a)
  BY <1>1 DEF Refuse, TypeOK, Statuses, Patches
<1>2. CASE Orphan(a)
  <2>1. \A q \in wire : q \in Statuses /\ [q EXCEPT !.by = NoOne] \in Statuses
    BY DEF TypeOK, Statuses
  <2>2. \A q \in awire : /\ q \in Patches
                         /\ [q EXCEPT !.by = NoOne] \in Patches
                         /\ [q EXCEPT !.by = NoOne].act = q.act
                         /\ [q EXCEPT !.by = NoOne].phase = q.phase
    BY DEF TypeOK, Patches
  <2>3. \A q \in wire' : \E p \in wire : q = p \/ q = [p EXCEPT !.by = NoOne]
    BY <1>2 DEF Orphan
  <2>4. \A q \in awire' : \E p \in awire : q = p \/ q = [p EXCEPT !.by = NoOne]
    BY <1>2 DEF Orphan
  <2>5. \A q \in awire : q.by # a => q \in awire'
    BY <1>2 DEF Orphan
  <2>6. wire' \subseteq Statuses
    BY <2>1, <2>3
  <2>7. awire' \subseteq Patches
    BY <2>2, <2>4
  <2>. QED
    BY <2>2, <2>4, <2>5, <2>6, <2>7
<1>. QED
  BY <1>1, <1>2

\* A new phase for one action of a list (_patch_storage_action_status).
LEMMA SetPhaseType ==
    ASSUME NEW s \in Seq(Actions), NEW n \in Nat, NEW phase \in ActionPhases
    PROVE  LET t == [s EXCEPT ![n].phase = phase]
           IN  /\ t \in Seq(Actions) /\ DOMAIN t = DOMAIN s
               /\ \A m \in DOMAIN s : t[m].phase = IF m = n THEN phase ELSE s[m].phase
<1>. DEFINE t == [s EXCEPT ![n].phase = phase]
<1>1. DOMAIN t = DOMAIN s /\ DOMAIN s = 1..Len(s) /\ Len(s) \in Nat
  OBVIOUS
<1>2. \A m \in DOMAIN s : s[m] \in Actions
  OBVIOUS
<1>3. \A m \in DOMAIN s : t[m] = IF m = n THEN [s[m] EXCEPT !.phase = phase] ELSE s[m]
  OBVIOUS
<1>4. \A m \in DOMAIN s : /\ [s[m] EXCEPT !.phase = phase] \in Actions
                          /\ [s[m] EXCEPT !.phase = phase].phase = phase
  BY <1>2 DEF Actions
<1>5. t \in [1..Len(s) -> Actions]
  BY <1>1, <1>2, <1>3, <1>4, Zenon
<1>6. t \in Seq(Actions)
  BY <1>1, <1>5, SeqDef
<1>. QED
  BY <1>1, <1>3, <1>4, <1>6

\* Every action that a pass plans is a pending action of a known OSD.
LEMMA PlansType ==
    ASSUME TypeOK, NEW reserved
    PROVE  /\ GrowthPlans(reserved) \subseteq SUBSET Actions
           /\ CoveragePlans \subseteq SUBSET Actions
           /\ ShrinkPlans(reserved) \subseteq SUBSET Actions
<1>1. ASSUME NEW S \in SUBSET OSDs, NEW op \in Operations, NEW count
      PROVE  Jobs(S, op, count) \subseteq SUBSET Actions
  <2>1. \A o \in OSDs : Job(o, op) \in Actions
    BY DEF Job, Actions, ActionPhases
  <2>. QED
    BY <2>1 DEF Jobs
<1>2. {"expand", "shrink", "retire"} \subseteq Operations
  BY DEF Operations
<1>3. /\ OSDs \in SUBSET OSDs
      /\ {o \in OSDs \ Loops : ctl.osd[o] \in {"Absent", "Failed", "Retired"}} \in SUBSET OSDs
      /\ OSDs \ Loops \in SUBSET OSDs
  OBVIOUS
<1>4. GrowthPlans(reserved) \subseteq SUBSET Actions
  BY <1>1, <1>2, <1>3 DEF GrowthPlans
<1>5. CoveragePlans \subseteq SUBSET Actions
  BY <1>1, <1>2, <1>3 DEF CoveragePlans
<1>6. ShrinkPlans(reserved) \subseteq SUBSET Actions
  <2>. DEFINE ready == {o \in live : ctl.osd[o] = "Ready"}
              loops == ready \cap Loops
  <2>1. /\ {o \in loops : RetireFits(o)} \in SUBSET OSDs
        /\ ready \ Loops \in SUBSET OSDs
    BY DEF TypeOK
  <2>2. /\ Jobs({o \in loops : RetireFits(o)}, "retire", 1) \subseteq SUBSET Actions
        /\ Jobs(OSDs \ Loops, "expand", MaxActions) \subseteq SUBSET Actions
        /\ Jobs(ready \ Loops, "shrink", 1) \subseteq SUBSET Actions
    BY <1>1, <1>2, <1>3, <2>1
  <2>. QED
    BY <2>2 DEF ShrinkPlans
<1>. QED
  BY <1>4, <1>5, <1>6

-----------------------------------------------------------------------------
(* TypeOK is inductive.  One lemma per actor.                              *)

\* The controller between two passes.
LEMMA NoPassType == NoPass \in Passes
<1>1. /\ [r \in Res |-> "Absent"] \in [Res -> ResPhases]
      /\ [o \in OSDs |-> "Absent"] \in [OSDs -> OSDPhases]
  BY DEF ResPhases, OSDPhases
<1>2. <<>> \in Seq(Actions) /\ "idle" \in CtlSteps
  BY DEF CtlSteps
<1>. QED
  BY <1>1, <1>2 DEF NoPass, Passes

LEMMA TypeInit == Init => TypeOK
<1>1. NoPass \in Passes
  BY NoPassType
<1>2. NewAgent \in Agents
  BY DEF NewAgent, Agents, AgentSteps
<1>3. ASSUME Init PROVE TypeOK
  <2>1. live \subseteq OSDs
    BY <1>3, StorageActorAssumption DEF Init
  <2>2. res \in [Res -> ResPhases] /\ osd \in [OSDs -> OSDPhases]
    BY <1>3 DEF Init, ResPhases, OSDPhases
  <2>3. acts \in Seq(Actions)
    BY <1>3 DEF Init
  <2>4. faults \in 0..MaxFaults
    BY <1>3, StorageSizeAssumption DEF Init
  <2>5. agent \in [Hosts -> Agents]
    BY <1>2, <1>3 DEF Init
  <2>. QED
    BY <1>1, <1>3, <2>1, <2>2, <2>3, <2>4, <2>5 DEF Init, TypeOK, Agents
<1>. QED
  BY <1>3

\* The fault budget is not exceeded.
LEMMA FaultType == TypeOK /\ Fault => faults' \in 0..MaxFaults
BY StorageSizeAssumption DEF TypeOK, Fault

\* Clients (reserve_ceph_storage).
LEMMA TypeClientSteps ==
    ASSUME TypeOK, NEW r \in Res,
           Upsert(r) \/ Poll(r) \/ Leave(r) \/ Release(r) \/ Quit(r) \/ Expire(r)
    PROVE  TypeOK'
<1>. USE DEF hostVars
<1>1. r \in Actors /\ {"Pending", "Released"} \subseteq ResPhases
  BY DEF Actors, ResPhases
<1>2. CASE Upsert(r)
  <2>1. wire' \subseteq Statuses
    BY <1>1, <1>2, SendReservationType DEF Upsert
  <2>. QED
    BY <1>2, <2>1 DEF Upsert, TypeOK, Statuses
<1>3. CASE Poll(r) \/ Leave(r) \/ Expire(r)
  BY <1>3 DEF Poll, Leave, Expire, TypeOK
<1>4. CASE Release(r)
  <2>1. wire' \subseteq Statuses
    BY <1>1, <1>4, SendReservationType DEF Release
  <2>. QED
    BY <1>4, <2>1 DEF Release, TypeOK, Statuses
<1>5. CASE Quit(r)
  <2>1. wire' \subseteq Statuses /\ awire' \subseteq Patches
    BY <1>1, <1>5, LostRequests DEF Quit
  <2>. QED
    BY <1>5, <2>1 DEF Quit, TypeOK, Statuses, Patches
<1>. QED
  BY <1>2, <1>3, <1>4, <1>5

\* The server and Ceph.
LEMMA TypeServerSteps ==
    ASSUME TypeOK,
           \/ \E q \in wire : ApplyStatus(q)
           \/ \E q \in awire : ApplyAction(q)
           \/ \E o \in OSDs : OSDUp(o) \/ OSDDown(o)
    PROVE  TypeOK'
<1>. USE DEF hostVars
<1>1. ASSUME NEW q \in wire, ApplyStatus(q) PROVE TypeOK'
  <2>1. q.res \in [Res -> ResPhases] /\ q.osd \in [OSDs -> OSDPhases]
    BY DEF TypeOK
  <2>2. res' \in [Res -> ResPhases] /\ osd' \in [OSDs -> OSDPhases]
    BY <1>1, <2>1 DEF ApplyStatus, Merge, TypeOK
  <2>. QED
    BY <1>1, <2>2 DEF ApplyStatus, TypeOK
<1>2. ASSUME NEW q \in awire, ApplyAction(q) PROVE TypeOK'
  <2>1. q.act \in Nat /\ q.phase \in ActionPhases
    BY DEF TypeOK
  <2>2. acts' \in Seq(Actions)
    BY <1>2, <2>1, SetPhaseType DEF ApplyAction, TypeOK
  <2>. QED
    BY <1>2, <2>2 DEF ApplyAction, TypeOK
<1>3. ASSUME NEW o \in OSDs, OSDUp(o) PROVE TypeOK'
  BY <1>3 DEF OSDUp, TypeOK
<1>4. ASSUME NEW o \in OSDs, OSDDown(o) PROVE TypeOK'
  <2>1. faults' \in 0..MaxFaults
    BY <1>4, FaultType DEF OSDDown
  <2>. QED
    BY <1>4, <2>1 DEF OSDDown, TypeOK
<1>. QED
  BY <1>1, <1>2, <1>3, <1>4

\* The controller's reads and what it makes of them.
LEMMA TypeCtlReads ==
    ASSUME TypeOK, CtlRead \/ CtlList \/ CtlCapacity \/ CtlGrowth
    PROVE  TypeOK'
<1>. USE DEF hostVars
<1>1. ctl \in Passes /\ NoPass \in Passes
  BY NoPassType DEF TypeOK
<1>2. CASE CtlRead
  <2>1. ctl' \in Passes
    BY <1>1, <1>2 DEF CtlRead, Passes, CtlSteps, TypeOK
  <2>. QED
    BY <1>2, <2>1 DEF CtlRead, TypeOK
<1>3. CASE CtlList
  <2>1. ctl' \in Passes
    BY <1>1, <1>3 DEF CtlList, Passes, CtlSteps, TypeOK
  <2>. QED
    BY <1>3, <2>1 DEF CtlList, TypeOK
<1>4. CASE CtlCapacity
  <2>1. PICK total \in {0, Total(live)} :
          /\ ctl' = [ctl EXCEPT !.pc = "refresh", !.total = total,
                                !.acts = Reread("acts", @, acts),
                                !.osd = Reread("osd", @, osd),
                                !.again = {}]
          /\ IF total = Total(live) THEN UNCHANGED faults ELSE Fault
    BY <1>4 DEF CtlCapacity
  <2>2. total \in {0} \cup {Total(S) : S \in SUBSET OSDs}
    BY DEF TypeOK
  <2>3. /\ Reread("acts", ctl.acts, acts) \in Seq(Actions)
        /\ Reread("osd", ctl.osd, osd) \in [OSDs -> OSDPhases]
    BY <1>1 DEF Reread, TypeOK, Passes
  <2>4. ctl' \in Passes
    BY <1>1, <2>1, <2>2, <2>3 DEF Passes, CtlSteps
  <2>5. faults' \in 0..MaxFaults
    BY <2>1, FaultType DEF TypeOK
  <2>. QED
    BY <1>4, <2>4, <2>5 DEF CtlCapacity, TypeOK
<1>5. CASE CtlGrowth
  <2>. DEFINE osdNow == Reread("osd", ctl.osd, osd)
              open   == {r \in Res : ctl.res[r] \in {"Pending", "Ready"}}
              promise(healthy) == /\ healthy
                                  /\ ~AdmissionInFlight(osdNow)
                                  /\ Free(ctl.total) >= Headroom + Reserved(ctl.res)
              todo   == {r \in open : r \in late \/ ctl.res[r] = "Pending"}
  <2>1. PICK healthy \in BOOLEAN :
          /\ IF healthy THEN UNCHANGED faults ELSE Fault
          /\ ctl' = [ctl EXCEPT !.pc = "reserve", !.osd = osdNow, !.again = {},
                                !.ready = promise(healthy),
                                !.due = open \cap late,
                                !.todo = todo]
    BY <1>5 DEF CtlGrowth
  <2>2. osdNow \in [OSDs -> OSDPhases]
    BY <1>1 DEF Reread, TypeOK, Passes
  <2>3. promise(healthy) \in BOOLEAN
    OBVIOUS
  <2>4. open \cap late \subseteq Res /\ todo \subseteq Res
    OBVIOUS
  <2>5. ctl' \in Passes
    <3>. HIDE DEF osdNow, open, promise, todo
    <3>. QED
      BY <1>1, <2>1, <2>2, <2>3, <2>4 DEF Passes, CtlSteps
  <2>6. faults' \in 0..MaxFaults
    BY <2>1, FaultType DEF TypeOK
  <2>. QED
    BY <1>5, <2>5, <2>6 DEF CtlGrowth, TypeOK
<1>. QED
  BY <1>2, <1>3, <1>4, <1>5

\* The controller's patches of the status and of the actions.
LEMMA TypeCtlPatches ==
    ASSUME TypeOK,
           \/ \E r \in Res : CtlReserve(r)
           \/ \E n \in 1..MaxCreated : CtlStaleAction(n)
           \/ \E o \in OSDs : CtlStaleOSD(o) \/ CtlRefresh(o)
           \/ CtlPolicy \/ CtlError
    PROVE  TypeOK'
<1>. USE DEF hostVars
<1>1. ctl \in Passes /\ NoPass \in Passes /\ Controller \in Actors
  BY NoPassType DEF TypeOK, Actors
<1>2. ASSUME NEW r \in Res, CtlReserve(r) PROVE TypeOK'
  <2>1. (IF r \in ctl.due THEN "Expired" ELSE IF ctl.ready THEN "Ready" ELSE "Pending")
            \in ResPhases
    BY DEF ResPhases
  <2>2. wire' \subseteq Statuses
    BY <1>1, <1>2, <2>1, SendReservationType DEF CtlReserve
  <2>3. ctl' \in Passes
    BY <1>1, <1>2 DEF CtlReserve, Passes
  <2>. QED
    BY <1>2, <2>2, <2>3 DEF CtlReserve, TypeOK, Statuses
<1>3. ASSUME NEW n \in 1..MaxCreated, CtlStaleAction(n) PROVE TypeOK'
  <2>1. n \in Nat /\ "Failed" \in ActionPhases
    BY StorageSizeAssumption DEF ActionPhases
  <2>2. awire' \subseteq Patches
    BY <1>1, <1>3, <2>1, SendActionType DEF CtlStaleAction
  <2>3. [ctl.acts EXCEPT ![n].phase = "Failed"] \in Seq(Actions)
    BY <1>1, <2>1, SetPhaseType DEF Passes
  <2>4. ctl' = [ctl EXCEPT !.acts = [ctl.acts EXCEPT ![n].phase = "Failed"],
                           !.again = @ \cup {"acts"}]
    BY <1>1, <1>3 DEF CtlStaleAction, Passes
  <2>5. ctl' \in Passes
    BY <1>1, <2>3, <2>4 DEF Passes
  <2>. QED
    BY <1>3, <2>2, <2>5 DEF CtlStaleAction, TypeOK, Patches
<1>4. ASSUME NEW o \in OSDs, CtlStaleOSD(o) PROVE TypeOK'
  <2>1. "Failed" \in OSDPhases
    BY DEF OSDPhases
  <2>2. wire' \subseteq Statuses
    BY <1>1, <1>4, <2>1, SendOSDType DEF CtlStaleOSD
  <2>3. ctl' \in Passes
    BY <1>1, <1>4, <2>1 DEF CtlStaleOSD, Passes
  <2>. QED
    BY <1>4, <2>2, <2>3 DEF CtlStaleOSD, TypeOK, Statuses
<1>5. ASSUME NEW o \in OSDs, CtlRefresh(o) PROVE TypeOK'
  <2>1. PICK phase \in {"Ready", "Binding"} :
          /\ SendOSD(Controller, o, phase)
          /\ ctl' = [ctl EXCEPT !.osd[o] = phase, !.again = {"osd"}]
    BY <1>5 DEF CtlRefresh
  <2>2. phase \in OSDPhases
    BY DEF OSDPhases
  <2>3. wire' \subseteq Statuses
    BY <1>1, <2>1, <2>2, SendOSDType
  <2>4. ctl' \in Passes
    BY <1>1, <2>1, <2>2 DEF Passes
  <2>. QED
    BY <1>5, <2>3, <2>4 DEF CtlRefresh, TypeOK, Statuses
<1>6. CASE CtlPolicy \/ CtlError
  <2>1. wire' \subseteq Statuses
    BY <1>1, <1>6, SendStatusType DEF CtlPolicy, CtlError, TypeOK
  <2>2. ctl' \in Passes
    BY <1>1, <1>6 DEF CtlPolicy, CtlError, Passes, CtlSteps
  <2>3. UNCHANGED <<res, osd, acts, awire, late, client, agent, hostVars>>
    BY <1>6 DEF CtlPolicy, CtlError
  <2>. QED
    BY <2>1, <2>2, <2>3 DEF TypeOK, Statuses
<1>. QED
  BY <1>2, <1>3, <1>4, <1>5, <1>6

\* Planning, creating and failing.
LEMMA TypeCtlActions ==
    ASSUME TypeOK,
           CtlPlan \/ (\E job \in ctl.plan : CtlCreate(job)) \/ CtlFail \/ CtlCrash
    PROVE  TypeOK'
<1>. USE DEF hostVars
<1>1. ctl \in Passes /\ NoPass \in Passes /\ Controller \in Actors
  BY NoPassType DEF TypeOK, Actors
<1>2. CASE CtlPlan
  <2>. DEFINE reserved == Reserved(Reread("res", ctl.res, res))
  <2>1. PICK plan \in {{}} \cup GrowthPlans(reserved) \cup CoveragePlans
                           \cup ShrinkPlans(reserved) :
          ctl' = [NoPass EXCEPT !.pc = "create", !.plan = plan]
    BY <1>2 DEF CtlPlan
  <2>2. plan \subseteq Actions
    <3>. HIDE DEF reserved
    <3>. QED
      BY PlansType
  <2>3. ctl' \in Passes
    BY <1>1, <2>1, <2>2 DEF Passes, CtlSteps
  <2>. QED
    BY <1>2, <2>3 DEF CtlPlan, TypeOK
<1>3. ASSUME NEW job \in ctl.plan, CtlCreate(job) PROVE TypeOK'
  <2>1. job \in Actions
    BY <1>1 DEF Passes
  <2>2. acts' \in Seq(Actions)
    BY <1>3, <2>1 DEF CtlCreate, TypeOK
  <2>3. ctl' \in Passes
    BY <1>1, <1>3 DEF CtlCreate, Passes
  <2>. QED
    BY <1>3, <2>2, <2>3 DEF CtlCreate, TypeOK
<1>4. CASE CtlFail \/ CtlCrash
  <2>1. wire' \subseteq Statuses /\ awire' \subseteq Patches
    BY <1>1, <1>4, LostRequests DEF CtlFail, CtlCrash
  <2>2. faults' \in 0..MaxFaults
    BY <1>4, FaultType DEF CtlFail, CtlCrash
  <2>3. ctl' \in Passes
    BY <1>1, <1>4 DEF CtlFail, CtlCrash, Passes, CtlSteps
  <2>. QED
    BY <1>4, <2>1, <2>2, <2>3 DEF CtlFail, CtlCrash, TypeOK, Statuses, Patches
<1>. QED
  BY <1>2, <1>3, <1>4

\* The agent's steps that leave the actions alone.
LEMMA TypeAgentSync ==
    ASSUME TypeOK, NEW h \in Hosts,
           \/ AgentRecover(h) \/ AgentLoops(h) \/ AgentReport(h) \/ AgentList(h)
    PROVE  TypeOK'
<1>. USE DEF hostVars, Go
<1>1. h \in Actors /\ {"HostPrepared", "Failed"} \subseteq OSDPhases
  BY DEF Actors, OSDPhases
<1>2. agent \in [Hosts -> Agents]
  BY DEF TypeOK, Agents
<1>3. \A pc \in AgentSteps : [agent EXCEPT ![h].pc = pc] \in [Hosts -> Agents]
  BY <1>2 DEF Agents
<1>4. {"loops", "report", "list", "next"} \subseteq AgentSteps
  BY DEF AgentSteps
<1>5. CASE AgentRecover(h)
  <2>1. wire' \subseteq Statuses
    <3>1. CASE \E o \in OSDs : SendOSD(h, o, "HostPrepared")
      BY <1>1, <3>1, SendOSDType
    <3>2. CASE UNCHANGED wire
      BY <3>2 DEF TypeOK, Statuses
    <3>. QED
      BY <1>5, <3>1, <3>2 DEF AgentRecover, TypeOK
  <2>2. agent' \in [Hosts -> Agents]
    BY <1>2, <1>3, <1>4, <1>5 DEF AgentRecover
  <2>. QED
    BY <1>5, <2>1, <2>2 DEF AgentRecover, TypeOK, Statuses, Agents
<1>6. CASE AgentLoops(h)
  <2>1. wire' \subseteq Statuses /\ disk' \subseteq OSDs /\ faults' \in 0..MaxFaults
    <3>1. CASE UNCHANGED wire
      BY <1>6, <3>1, FaultType, StorageActorAssumption DEF AgentLoops, TypeOK, Statuses
    <3>2. CASE /\ UNCHANGED disk /\ Fault
               /\ \E o \in Loops : SendOSD(h, o, "Failed")
      BY <1>1, <3>2, FaultType, SendOSDType, StorageActorAssumption DEF TypeOK
    <3>3. \/ UNCHANGED wire
          \/ /\ UNCHANGED disk /\ Fault
             /\ \E o \in Loops : SendOSD(h, o, "Failed")
      BY <1>6 DEF AgentLoops
    <3>4. faults' \in 0..MaxFaults
      BY <1>6, FaultType DEF AgentLoops, TypeOK
    <3>. QED
      BY <3>1, <3>2, <3>3, <3>4
  <2>2. agent' \in [Hosts -> Agents]
    BY <1>2, <1>3, <1>4, <1>6 DEF AgentLoops
  <2>. QED
    BY <1>6, <2>1, <2>2 DEF AgentLoops, TypeOK, Statuses, Agents
<1>7. CASE AgentReport(h)
  <2>1. wire' \subseteq Statuses
    BY <1>1, <1>7, SendStatusType DEF AgentReport, TypeOK
  <2>2. agent' \in [Hosts -> Agents]
    BY <1>3, <1>4, <1>7 DEF AgentReport
  <2>. QED
    BY <1>7, <2>1, <2>2 DEF AgentReport, TypeOK, Statuses, Agents
<1>8. CASE AgentList(h)
  <2>1. {n \in DOMAIN acts : acts[n].phase = "Pending" /\ HostOf[acts[n].osd] = h}
            \in SUBSET Nat
    BY DEF TypeOK
  <2>2. agent' \in [Hosts -> Agents]
    BY <1>2, <1>4, <1>8, <2>1 DEF AgentList, Agents
  <2>3. UNCHANGED <<res, osd, acts, wire, awire, late, client, ctl, hostVars>>
    BY <1>8 DEF AgentList
  <2>. QED
    BY <2>2, <2>3 DEF TypeOK, Agents
<1>. QED
  BY <1>5, <1>6, <1>7, <1>8

\* Claiming and ending an action, and every failure of an agent.
LEMMA TypeAgentClaims ==
    ASSUME TypeOK, NEW h \in Hosts,
           AgentClaim(h) \/ AgentFinish(h) \/ AgentFail(h) \/ AgentCrash(h)
    PROVE  TypeOK'
<1>. USE DEF hostVars, Go
<1>1. h \in Actors /\ {"Running", "Succeeded", "Failed"} \subseteq ActionPhases
  BY DEF Actors, ActionPhases
<1>2. agent \in [Hosts -> Agents] /\ NewAgent \in Agents
  BY DEF TypeOK, Agents, NewAgent, AgentSteps
<1>3. \A pc \in AgentSteps : [agent EXCEPT ![h].pc = pc] \in [Hosts -> Agents]
  BY <1>2 DEF Agents
<1>4. {"begin", "failing", "next"} \subseteq AgentSteps
  BY DEF AgentSteps
<1>5. CASE AgentClaim(h)
  <2>1. CASE agent' = [agent EXCEPT ![h] = NewAgent] /\ UNCHANGED awire
    BY <1>2, <1>5, <2>1 DEF AgentClaim, TypeOK, Agents
  <2>2. ASSUME NEW n \in agent[h].todo, SendAction(h, n, "Running"),
               agent' = [agent EXCEPT ![h].pc = "begin", ![h].act = n, ![h].todo = @ \ {n}]
        PROVE  TypeOK'
    <3>1. n \in Nat
      BY <1>2 DEF Agents
    <3>2. awire' \subseteq Patches
      BY <1>1, <2>2, <3>1, SendActionType
    <3>3. agent' \in [Hosts -> Agents]
      BY <1>2, <1>4, <2>2, <3>1 DEF Agents
    <3>. QED
      BY <1>5, <3>2, <3>3 DEF AgentClaim, TypeOK, Patches, Agents
  <2>. QED
    BY <1>5, <2>1, <2>2 DEF AgentClaim
<1>6. CASE AgentFinish(h)
  <2>1. agent[h].act \in Nat
    BY <1>2 DEF Agents
  <2>2. awire' \subseteq Patches
    BY <1>1, <1>6, <2>1, SendActionType DEF AgentFinish
  <2>3. agent' \in [Hosts -> Agents]
    BY <1>3, <1>4, <1>6 DEF AgentFinish
  <2>. QED
    BY <1>6, <2>2, <2>3 DEF AgentFinish, TypeOK, Patches, Agents
<1>7. CASE AgentFail(h) \/ AgentCrash(h)
  <2>1. wire' \subseteq Statuses /\ awire' \subseteq Patches
    BY <1>1, <1>7, LostRequests DEF AgentFail, AgentCrash
  <2>2. faults' \in 0..MaxFaults
    BY <1>7, FaultType DEF AgentFail, AgentCrash
  <2>3. agent' \in [Hosts -> Agents]
    BY <1>2, <1>3, <1>4, <1>7 DEF AgentFail, AgentCrash
  <2>. QED
    BY <1>7, <2>1, <2>2, <2>3 DEF AgentFail, AgentCrash, TypeOK, Statuses, Patches, Agents
<1>. QED
  BY <1>5, <1>6, <1>7

\* The steps of an action.
LEMMA TypeAgentWork ==
    ASSUME TypeOK, ClaimInv, NEW h \in Hosts,
           \/ AgentBegin(h) \/ AgentDrain(h) \/ AgentPurge(h)
           \/ AgentRecord(h) \/ AgentMarkFailed(h)
    PROVE  TypeOK'
<1>. USE DEF hostVars, Go
<1>1. /\ h \in Actors
      /\ {"Retiring", "Shrinking", "Expanding", "HostPrepared", "Ready",
          "Binding", "Retired", "Failed"} \subseteq OSDPhases
  BY DEF Actors, OSDPhases
<1>2. agent \in [Hosts -> Agents]
  BY DEF TypeOK, Agents
<1>3. \A pc \in AgentSteps : [agent EXCEPT ![h].pc = pc] \in [Hosts -> Agents]
  BY <1>2 DEF Agents
<1>4. \A had \in BOOLEAN :
        [agent EXCEPT ![h].pc = "admit", ![h].had = had] \in [Hosts -> Agents]
  <2>1. agent[h] \in Agents /\ "admit" \in AgentSteps
    BY <1>2 DEF AgentSteps
  <2>2. \A had \in BOOLEAN :
          [agent[h] EXCEPT !.pc = "admit", !.had = had] \in Agents
    BY <2>1 DEF Agents
  <2>. QED
    BY <1>2, <2>2
<1>5. {"drain", "purge", "retired", "rebuild", "observe", "succeed", "fail"} \subseteq AgentSteps
  BY DEF AgentSteps
<1>6. Target(h) \in OSDs
  <2>1. agent[h].act \in DOMAIN acts
    BY DEF ClaimInv, InAction, Working, AgentBegin, AgentDrain, AgentPurge,
           AgentRecord, AgentMarkFailed, AgentAt
  <2>2. acts[agent[h].act] \in Actions
    BY <2>1 DEF TypeOK
  <2>. QED
    BY <2>2 DEF Target, Current, Actions
<1>7. CASE AgentBegin(h)
  <2>1. wire' \subseteq Statuses
    <3>1. CASE UNCHANGED wire
      BY <3>1 DEF TypeOK, Statuses
    <3>2. CASE SendOSD(h, Target(h), IF Current(h).op = "retire" THEN "Retiring" ELSE "Shrinking")
      BY <1>1, <1>6, <3>2, SendOSDType
    <3>. QED
      BY <1>7, <3>1, <3>2 DEF AgentBegin
  <2>2. agent' \in [Hosts -> Agents]
    BY <1>3, <1>4, <1>5, <1>7 DEF AgentBegin
  <2>3. disk' \subseteq OSDs
    BY <1>6, <1>7 DEF AgentBegin, TypeOK
  <2>. QED
    BY <1>7, <2>1, <2>2, <2>3 DEF AgentBegin, TypeOK, Statuses, Agents
<1>8. CASE AgentDrain(h)
  <2>1. agent' \in [Hosts -> Agents]
    BY <1>3, <1>5, <1>8 DEF AgentDrain
  <2>. QED
    BY <1>8, <2>1 DEF AgentDrain, TypeOK, Agents
<1>9. CASE AgentPurge(h)
  <2>1. agent' \in [Hosts -> Agents]
    BY <1>3, <1>4, <1>5, <1>9 DEF AgentPurge
  <2>2. live' \subseteq OSDs /\ disk' \subseteq OSDs
    BY <1>6, <1>9 DEF AgentPurge, TypeOK
  <2>. QED
    BY <1>9, <2>1, <2>2 DEF AgentPurge, TypeOK, Agents
<1>10. CASE AgentRecord(h)
  <2>1. agent' \in [Hosts -> Agents]
    BY <1>3, <1>5, <1>10 DEF AgentRecord
  <2>2. \E phase \in OSDPhases : SendOSD(h, Target(h), phase)
    BY <1>1, <1>10 DEF AgentRecord
  <2>3. wire' \subseteq Statuses
    BY <1>1, <1>6, <2>2, SendOSDType
  <2>. QED
    BY <1>10, <2>1, <2>3 DEF AgentRecord, TypeOK, Statuses, Agents
<1>11. CASE AgentMarkFailed(h)
  <2>1. agent' \in [Hosts -> Agents]
    BY <1>3, <1>5, <1>11 DEF AgentMarkFailed
  <2>2. wire' \subseteq Statuses
    <3>1. CASE SendOSD(h, Target(h), "Failed")
      BY <1>1, <1>6, <3>1, SendOSDType
    <3>2. CASE UNCHANGED wire
      BY <3>2 DEF TypeOK, Statuses
    <3>. QED
      BY <1>11, <3>1, <3>2 DEF AgentMarkFailed
  <2>. QED
    BY <1>11, <2>1, <2>2 DEF AgentMarkFailed, TypeOK, Statuses, Agents
<1>. QED
  BY <1>7, <1>8, <1>9, <1>10, <1>11

LEMMA TypeNext == TypeOK /\ ClaimInv /\ [Next]_vars => TypeOK'
<1>1. ASSUME TypeOK, ClaimInv, Next PROVE TypeOK'
  BY <1>1, TypeClientSteps, TypeServerSteps, TypeCtlReads, TypeCtlPatches,
     TypeCtlActions, TypeAgentSync, TypeAgentClaims, TypeAgentWork
     DEF Next
<1>2. ASSUME TypeOK, UNCHANGED vars PROVE TypeOK'
  BY <1>2 DEF TypeOK, vars
<1>. QED
  BY <1>1, <1>2

-----------------------------------------------------------------------------
(* Claims: who keeps them, and who may begin.                              *)

\* A step that touches no agent, forgets no claim and makes no action pending.
LEMMA ClaimsKept ==
    ASSUME ClaimInv, NoReplay, UNCHANGED agent,
           DOMAIN acts \subseteq DOMAIN acts',
           \A n \in DOMAIN acts : acts'[n].phase = "Pending" => acts[n].phase = "Pending",
           \A q \in awire' : q.phase # "Pending",
           \A h \in Hosts : \A q \in awire :
              q.by = h /\ q.act \in DOMAIN acts =>
                 q \in awire' \/ acts'[q.act].phase # "Pending"
    PROVE  ClaimInv' /\ NoReplay'
<1>1. ASSUME NEW h \in Hosts, InAction(h)
      PROVE  /\ agent[h].act \in DOMAIN acts
             /\ Current(h).phase # "Pending" => Current(h)'.phase # "Pending"
  BY <1>1 DEF ClaimInv, Current
<1>2. NoReplay'
  BY <1>1 DEF NoReplay, Working, InAction
<1>3. ASSUME NEW h \in Hosts, agent[h].pc = "begin" PROVE Claimed(h)'
  <2>1. CASE Current(h).phase # "Pending"
    BY <1>1, <1>3, <2>1 DEF InAction, Claimed
  <2>2. ASSUME NEW q \in awire, q.by = h, q.act = agent[h].act PROVE Claimed(h)'
    BY <1>1, <1>3, <2>2 DEF InAction, Claimed, Current
  <2>. QED
    BY <1>3, <2>1, <2>2 DEF ClaimInv, Claimed
<1>. QED
  BY <1>2, <1>3 DEF ClaimInv, InAction, Working

\* A step of one agent: the claims of the others are kept.
LEMMA OneAgentMoves ==
    ASSUME ClaimInv, NoReplay, agent \in [Hosts -> Agents],
           NEW h \in Hosts, NEW a, agent' = [agent EXCEPT ![h] = a],
           UNCHANGED acts,
           \A q \in awire' : q.phase # "Pending",
           \A q \in awire : q.by # h => q \in awire',
           a.todo \subseteq DOMAIN acts,
           InAction(h)' => a.act \in DOMAIN acts,
           a.pc = "begin" => Claimed(h)',
           Working(h)' => acts[a.act].phase # "Pending"
    PROVE  ClaimInv' /\ NoReplay'
<1>1. agent'[h] = a /\ \A k \in Hosts \ {h} : agent'[k] = agent[k]
  OBVIOUS
<1>2. NoReplay'
  BY <1>1 DEF NoReplay, Working, Current
<1>3. ASSUME NEW k \in Hosts \ {h}, agent[k].pc = "begin" PROVE Claimed(k)'
  BY <1>1, <1>3 DEF ClaimInv, Claimed, Current
<1>. QED
  BY <1>1, <1>2, <1>3 DEF ClaimInv, InAction, Working

IInv == TypeOK /\ ClaimInv /\ NoReplay

LEMMA ClaimInit == Init => IInv
<1>1. ASSUME Init PROVE ClaimInv /\ NoReplay
  BY <1>1 DEF Init, ClaimInv, NoReplay, InAction, Working, NewAgent
<1>. QED
  BY <1>1, TypeInit DEF IInv

\* Clients, the server and Ceph: only the server changes an action.
LEMMA ClaimOthers ==
    ASSUME IInv,
           \/ \E r \in Res : \/ Upsert(r) \/ Poll(r) \/ Leave(r)
                             \/ Release(r) \/ Quit(r) \/ Expire(r)
           \/ \E q \in wire : ApplyStatus(q)
           \/ \E q \in awire : ApplyAction(q)
           \/ \E o \in OSDs : OSDUp(o) \/ OSDDown(o)
    PROVE  ClaimInv' /\ NoReplay'
<1>. USE DEF IInv
<1>1. CASE UNCHANGED <<acts, awire, agent>>
  BY <1>1, ClaimsKept DEF ClaimInv
<1>2. ASSUME NEW r \in Res, Quit(r) PROVE ClaimInv' /\ NoReplay'
  <2>1. r \in Actors /\ r \notin Hosts
    BY StorageActorAssumption DEF Actors
  <2>2. /\ \A q \in awire' : \E p \in awire : q.phase = p.phase
        /\ \A q \in awire : q.by # r => q \in awire'
    BY <1>2, <2>1, LostRequests DEF Quit
  <2>3. UNCHANGED <<acts, agent>>
    BY <1>2 DEF Quit
  <2>4. \A q \in awire' : q.phase # "Pending"
    BY <2>2 DEF ClaimInv
  <2>. QED
    BY <2>1, <2>2, <2>3, <2>4, ClaimsKept
<1>3. ASSUME NEW q \in awire, ApplyAction(q) PROVE ClaimInv' /\ NoReplay'
  <2>1. /\ acts \in Seq(Actions) /\ q.act \in Nat
        /\ q.phase \in ActionPhases /\ q.phase # "Pending"
    BY DEF TypeOK, ClaimInv
  <2>2. acts' = [acts EXCEPT ![q.act].phase = q.phase]
    BY <1>3 DEF ApplyAction
  <2>3. /\ DOMAIN acts' = DOMAIN acts
        /\ \A n \in DOMAIN acts :
             acts'[n].phase = IF n = q.act THEN q.phase ELSE acts[n].phase
    BY <2>1, <2>2, SetPhaseType
  <2>4. awire' = awire \ {q} /\ UNCHANGED agent
    BY <1>3 DEF ApplyAction
  <2>5. \A p \in awire' : p.phase # "Pending"
    BY <2>4 DEF ClaimInv
  <2>. QED
    BY <2>1, <2>3, <2>4, <2>5, ClaimsKept
<1>. QED
  BY <1>1, <1>2, <1>3
     DEF Upsert, Poll, Leave, Release, Expire, ApplyStatus, OSDUp, OSDDown

\* The controller marks running actions failed, and creates new ones.
LEMMA ClaimController ==
    ASSUME IInv,
           \/ CtlRead \/ CtlList \/ CtlCapacity \/ CtlGrowth \/ CtlPlan \/ CtlPolicy
           \/ CtlFail \/ CtlError \/ CtlCrash
           \/ \E r \in Res : CtlReserve(r)
           \/ \E n \in 1..MaxCreated : CtlStaleAction(n)
           \/ \E o \in OSDs : CtlStaleOSD(o) \/ CtlRefresh(o)
           \/ \E job \in ctl.plan : CtlCreate(job)
    PROVE  ClaimInv' /\ NoReplay'
<1>. USE DEF IInv
<1>1. Controller \in Actors /\ Controller \notin Hosts
  BY StorageActorAssumption DEF Actors
<1>2. CASE UNCHANGED <<acts, awire, agent>>
  BY <1>2, ClaimsKept DEF ClaimInv
<1>3. CASE CtlFail \/ CtlCrash
  <2>1. /\ \A q \in awire' : \E p \in awire : q.phase = p.phase
        /\ \A q \in awire : q.by # Controller => q \in awire'
    BY <1>1, <1>3, LostRequests DEF CtlFail, CtlCrash
  <2>2. UNCHANGED <<acts, agent>>
    BY <1>3 DEF CtlFail, CtlCrash
  <2>3. \A q \in awire' : q.phase # "Pending"
    BY <2>1 DEF ClaimInv
  <2>. QED
    BY <1>1, <2>1, <2>2, <2>3, ClaimsKept
<1>4. ASSUME NEW n \in 1..MaxCreated, CtlStaleAction(n) PROVE ClaimInv' /\ NoReplay'
  <2>1. /\ awire' = awire \cup {[by |-> Controller, act |-> n, phase |-> "Failed"]}
        /\ UNCHANGED <<acts, agent>>
    BY <1>4 DEF CtlStaleAction, SendAction
  <2>2. \A q \in awire' : q.phase # "Pending"
    BY <2>1 DEF ClaimInv
  <2>. QED
    BY <2>1, <2>2, ClaimsKept
<1>5. ASSUME NEW job \in ctl.plan, CtlCreate(job) PROVE ClaimInv' /\ NoReplay'
  <2>1. acts \in Seq(Actions) /\ acts' = Append(acts, job)
    BY <1>5 DEF CtlCreate, TypeOK
  <2>2. DOMAIN acts \subseteq DOMAIN acts' /\ \A n \in DOMAIN acts : acts'[n] = acts[n]
    BY <2>1
  <2>3. UNCHANGED <<awire, agent>>
    BY <1>5 DEF CtlCreate
  <2>. QED
    BY <2>2, <2>3, ClaimsKept DEF ClaimInv
<1>. QED
  BY <1>2, <1>3, <1>4, <1>5
     DEF CtlRead, CtlList, CtlCapacity, CtlGrowth, CtlPlan, CtlPolicy, CtlError,
         CtlReserve, CtlStaleOSD, CtlRefresh

\* An agent's request for an action waits for the answer (AgentAt): when it
\* begins, its claim has been applied.
LEMMA ClaimAgents ==
    ASSUME IInv, NEW h \in Hosts,
           \/ AgentRecover(h) \/ AgentLoops(h) \/ AgentReport(h) \/ AgentList(h)
           \/ AgentClaim(h) \/ AgentBegin(h) \/ AgentDrain(h) \/ AgentPurge(h)
           \/ AgentRecord(h) \/ AgentFinish(h) \/ AgentMarkFailed(h)
           \/ AgentFail(h) \/ AgentCrash(h)
    PROVE  ClaimInv' /\ NoReplay'
<1>. USE DEF IInv, Go
<1>1. /\ h \in Actors /\ agent \in [Hosts -> Agents]
      /\ agent[h].todo \subseteq DOMAIN acts
      /\ InAction(h) => agent[h].act \in DOMAIN acts
      /\ Working(h) => Current(h).phase # "Pending"
      /\ agent[h].pc = "begin" => Claimed(h)
  BY DEF Actors, TypeOK, Agents, ClaimInv, NoReplay
<1>2. \A pc : /\ [agent[h] EXCEPT !.pc = pc].pc = pc
              /\ [agent[h] EXCEPT !.pc = pc].act = agent[h].act
              /\ [agent[h] EXCEPT !.pc = pc].todo = agent[h].todo
  BY <1>1 DEF Agents
<1>3. NewAgent.pc = "recover" /\ NewAgent.todo = {}
  BY DEF NewAgent
<1>4. ASSUME UNCHANGED <<acts, awire>>, NEW pc,
             agent' = [agent EXCEPT ![h].pc = pc], pc # "begin",
             pc \in {"loops", "report", "list", "next", "fail"}
      PROVE  ClaimInv' /\ NoReplay'
  <2>. DEFINE a == [agent[h] EXCEPT !.pc = pc]
  <2>1. /\ agent' = [agent EXCEPT ![h] = a] /\ agent'[h].pc = pc
        /\ a.pc # "begin" /\ a.todo \subseteq DOMAIN acts
    BY <1>1, <1>4 DEF Agents
  <2>2. ~InAction(h)' /\ ~Working(h)'
    BY <1>4, <2>1 DEF InAction, Working
  <2>. HIDE DEF a
  <2>. QED
    BY <1>1, <1>4, <2>1, <2>2, OneAgentMoves DEF ClaimInv
<1>5. CASE AgentRecover(h) \/ AgentLoops(h) \/ AgentReport(h) \/ AgentMarkFailed(h)
  <2>1. UNCHANGED <<acts, awire>>
    BY <1>5 DEF AgentRecover, AgentLoops, AgentReport, AgentMarkFailed
  <2>2. CASE UNCHANGED agent
    BY <2>1, <2>2, ClaimsKept DEF ClaimInv
  <2>3. CASE \E pc \in {"loops", "report", "list", "fail"} :
               agent' = [agent EXCEPT ![h].pc = pc]
    BY <1>4, <2>1, <2>3
  <2>. QED
    BY <1>5, <2>2, <2>3 DEF AgentRecover, AgentLoops, AgentReport, AgentMarkFailed
<1>6. CASE AgentList(h)
  <2>. DEFINE todo == {n \in DOMAIN acts : acts[n].phase = "Pending" /\ HostOf[acts[n].osd] = h}
              a == [agent[h] EXCEPT !.pc = "next", !.todo = todo]
  <2>1. /\ agent' = [agent EXCEPT ![h] = a] /\ a.pc = "next" /\ a.todo = todo
        /\ UNCHANGED <<acts, awire>>
    BY <1>1, <1>6 DEF AgentList, Agents
  <2>2. ~InAction(h)' /\ ~Working(h)'
    BY <1>1, <2>1 DEF InAction, Working
  <2>. QED
    BY <1>1, <2>1, <2>2, OneAgentMoves DEF ClaimInv
<1>7. CASE AgentClaim(h)
  <2>1. CASE agent' = [agent EXCEPT ![h] = NewAgent] /\ UNCHANGED awire
    <3>1. ~InAction(h)' /\ ~Working(h)'
      BY <1>1, <1>3, <2>1 DEF InAction, Working
    <3>2. UNCHANGED acts
      BY <1>7 DEF AgentClaim
    <3>. QED
      BY <1>1, <1>3, <2>1, <3>1, <3>2, OneAgentMoves DEF ClaimInv
  <2>2. ASSUME NEW n \in agent[h].todo, SendAction(h, n, "Running"),
               agent' = [agent EXCEPT ![h].pc = "begin", ![h].act = n, ![h].todo = @ \ {n}]
        PROVE  ClaimInv' /\ NoReplay'
    <3>. DEFINE a == [agent[h] EXCEPT !.pc = "begin", !.act = n, !.todo = @ \ {n}]
                claim == [by |-> h, act |-> n, phase |-> "Running"]
    <3>1. /\ agent' = [agent EXCEPT ![h] = a]
          /\ a.pc = "begin" /\ a.act = n /\ a.todo \subseteq DOMAIN acts
      BY <1>1, <2>2 DEF Agents
    <3>2. awire' = awire \cup {claim} /\ UNCHANGED acts
      BY <1>7, <2>2 DEF AgentClaim, SendAction
    <3>3. agent'[h].act = n /\ ~Working(h)' /\ n \in DOMAIN acts
      BY <1>1, <3>1 DEF Working
    <3>4. Claimed(h)'
      <4>1. claim \in awire' /\ claim.by = h /\ claim.act = n
        BY <3>2
      <4>. HIDE DEF claim
      <4>. QED
        BY <3>3, <4>1 DEF Claimed
    <3>5. \A q \in awire' : q.phase # "Pending"
      BY <3>2 DEF ClaimInv
    <3>. QED
      BY <1>1, <3>1, <3>2, <3>3, <3>4, <3>5, OneAgentMoves
  <2>. QED
    BY <1>7, <2>1, <2>2 DEF AgentClaim
<1>8. CASE AgentBegin(h) \/ AgentDrain(h) \/ AgentPurge(h) \/ AgentRecord(h)
  <2>1. UNCHANGED <<acts, awire>>
    BY <1>8 DEF AgentBegin, AgentDrain, AgentPurge, AgentRecord
  <2>2. agent[h].act \in DOMAIN acts /\ acts[agent[h].act].phase # "Pending"
    <3>1. CASE agent[h].pc = "begin" /\ ~Busy(h)
      BY <1>1, <3>1 DEF InAction, Claimed, Busy, Current
    <3>2. CASE Working(h)
      BY <1>1, <3>2 DEF InAction, Current
    <3>. QED
      BY <1>8, <3>1, <3>2
         DEF AgentBegin, AgentDrain, AgentPurge, AgentRecord, AgentAt, Working
  <2>3. \E pc \in {"drain", "purge", "rebuild", "admit", "observe", "retired", "succeed"} :
          \/ agent' = [agent EXCEPT ![h].pc = pc]
          \/ \E had \in BOOLEAN : agent' = [agent EXCEPT ![h].pc = pc, ![h].had = had]
    <3>1. CASE AgentBegin(h)
      <4>. DEFINE known == osd[Target(h)] # "Absent"
      <4>1. known \in BOOLEAN
        OBVIOUS
      <4>2. \/ agent' = [agent EXCEPT ![h].pc = "admit", ![h].had = known]
            \/ agent' = [agent EXCEPT ![h].pc = "drain"]
        BY <3>1 DEF AgentBegin
      <4>. HIDE DEF known
      <4>. QED
        BY <4>1, <4>2
    <3>2. CASE AgentDrain(h) \/ AgentRecord(h)
      BY <3>2 DEF AgentDrain, AgentRecord
    <3>3. CASE AgentPurge(h)
      <4>1. \/ agent' = [agent EXCEPT ![h].pc = "retired"]
            \/ agent' = [agent EXCEPT ![h].pc = "rebuild"]
            \/ agent' = [agent EXCEPT ![h].pc = "admit", ![h].had = FALSE]
        BY <3>3 DEF AgentPurge
      <4>. QED
        BY <4>1
    <3>. QED
      BY <1>8, <3>1, <3>2, <3>3
  <2>. DEFINE a == agent'[h]
  <2>4. /\ agent' = [agent EXCEPT ![h] = a]
        /\ a.pc # "begin" /\ a.act = agent[h].act /\ a.todo = agent[h].todo
    <3>1. ASSUME NEW pc \in AgentSteps, agent' = [agent EXCEPT ![h].pc = pc], pc # "begin"
          PROVE  /\ agent' = [agent EXCEPT ![h] = a]
                 /\ a.pc # "begin" /\ a.act = agent[h].act /\ a.todo = agent[h].todo
      BY <1>1, <3>1 DEF Agents
    <3>2. ASSUME NEW pc \in AgentSteps, pc # "begin", NEW had \in BOOLEAN,
                 agent' = [agent EXCEPT ![h].pc = pc, ![h].had = had]
          PROVE  /\ agent' = [agent EXCEPT ![h] = a]
                 /\ a.pc # "begin" /\ a.act = agent[h].act /\ a.todo = agent[h].todo
      BY <1>1, <3>2 DEF Agents
    <3>3. \A pc \in {"drain", "purge", "rebuild", "admit", "observe", "retired", "succeed"} :
            pc \in AgentSteps /\ pc # "begin"
      BY DEF AgentSteps
    <3>. HIDE DEF a
    <3>. QED
      BY <2>3, <3>1, <3>2, <3>3, Zenon
  <2>. HIDE DEF a
  <2>. QED
    BY <1>1, <2>1, <2>2, <2>4, OneAgentMoves DEF ClaimInv
<1>9. CASE AgentFinish(h)
  <2>. DEFINE a == [agent[h] EXCEPT !.pc = "next"]
  <2>1. agent' = [agent EXCEPT ![h] = a] /\ a.pc = "next" /\ a.todo \subseteq DOMAIN acts
    BY <1>1, <1>2, <1>9 DEF AgentFinish
  <2>2. PICK phase \in {"Succeeded", "Failed"} :
          awire' = awire \cup {[by |-> h, act |-> agent[h].act, phase |-> phase]}
    BY <1>9 DEF AgentFinish, SendAction
  <2>3. \A q \in awire' : q.phase # "Pending"
    BY <2>2 DEF ClaimInv
  <2>4. UNCHANGED acts /\ ~InAction(h)' /\ ~Working(h)'
    BY <1>1, <1>9, <2>1 DEF AgentFinish, InAction, Working
  <2>. QED
    BY <1>1, <2>1, <2>2, <2>3, <2>4, OneAgentMoves
<1>10. CASE AgentFail(h) \/ AgentCrash(h)
  <2>1. /\ \A q \in awire' : \E p \in awire : q.phase = p.phase
        /\ \A q \in awire : q.by # h => q \in awire'
        /\ UNCHANGED acts
    BY <1>1, <1>10, LostRequests DEF AgentFail, AgentCrash
  <2>2. \A q \in awire' : q.phase # "Pending"
    BY <2>1 DEF ClaimInv
  <2>3. PICK a : /\ agent' = [agent EXCEPT ![h] = a]
                 /\ \/ a = NewAgent
                    \/ a = agent[h] /\ agent[h].pc = "fail"
                    \/ a = [agent[h] EXCEPT !.pc = "failing"] /\ InAction(h)
    <3>1. CASE agent' = [agent EXCEPT ![h] = NewAgent]
      BY <3>1
    <3>2. CASE agent[h].pc = "fail" /\ UNCHANGED agent
      <4>1. agent' = [agent EXCEPT ![h] = agent[h]]
        BY <1>1, <3>2
      <4>. QED
        BY <3>2, <4>1
    <3>3. CASE InAction(h) /\ agent' = [agent EXCEPT ![h].pc = "failing"]
      <4>1. agent' = [agent EXCEPT ![h] = [agent[h] EXCEPT !.pc = "failing"]]
        BY <3>3
      <4>. QED
        BY <3>3, <4>1
    <3>. QED
      BY <1>10, <3>1, <3>2, <3>3 DEF AgentFail, AgentCrash, InAction, Working
  <2>4. /\ a.todo \subseteq DOMAIN acts /\ a.pc # "begin"
        /\ a.pc \in {"recover", "fail", "failing"}
        /\ a.pc = "failing" => a.act \in DOMAIN acts
    <3>1. CASE a = NewAgent
      BY <1>3, <3>1
    <3>2. CASE a = agent[h] /\ agent[h].pc = "fail"
      BY <1>1, <3>2
    <3>3. CASE a = [agent[h] EXCEPT !.pc = "failing"] /\ InAction(h)
      BY <1>1, <3>3 DEF Agents
    <3>. QED
      BY <2>3, <3>1, <3>2, <3>3
  <2>5. agent'[h] = a
    BY <1>1, <2>3
  <2>6. ~Working(h)' /\ (InAction(h)' => a.act \in DOMAIN acts)
    BY <2>4, <2>5 DEF InAction, Working
  <2>. QED
    BY <1>1, <2>1, <2>2, <2>3, <2>4, <2>6, OneAgentMoves
<1>. QED
  BY <1>5, <1>6, <1>7, <1>8, <1>9, <1>10

-----------------------------------------------------------------------------
(* The theorems.                                                           *)

LEMMA IInvNext == IInv /\ [Next]_vars => IInv'
<1>1. ASSUME IInv, Next PROVE ClaimInv' /\ NoReplay'
  BY <1>1, ClaimOthers, ClaimController, ClaimAgents DEF Next
<1>2. ASSUME IInv, UNCHANGED vars PROVE ClaimInv' /\ NoReplay'
  BY <1>2, ClaimsKept DEF vars, IInv, ClaimInv
<1>. QED
  BY <1>1, <1>2, TypeNext DEF IInv

\* The variables have their types in every reachable state: in particular an
\* agent only makes substrates of known OSDs, because the action it works on
\* exists (_run_storage_action).
THEOREM TypeCorrect == Spec => []TypeOK
<1>1. Init => IInv
  BY ClaimInit
<1>2. IInv /\ [Next]_vars => IInv'
  BY IInvNext
<1>3. IInv => TypeOK
  BY DEF IInv
<1>. QED
  BY <1>1, <1>2, <1>3, PTL DEF Spec

\* No agent works twice on one action (_claim_action): once its operation has
\* begun, the action is never pending again, for any number of hosts, OSDs,
\* actions, failures and crashes.
THEOREM ActionsNotReplayed == Spec => []NoReplay
<1>1. Init => IInv
  BY ClaimInit
<1>2. IInv /\ [Next]_vars => IInv'
  BY IInvNext
<1>3. IInv => NoReplay
  BY DEF IInv
<1>. QED
  BY <1>1, <1>2, <1>3, PTL DEF Spec

\* A record of a reservation or an OSD, once written, is never lost, however
\* stale the copies of the status are that the writers send (patch_status).
THEOREM RecordsAreKept == Spec => RecordsSurvive
<1>. DEFINE Kept == /\ \A r \in Res : res[r] # "Absent" => res'[r] # "Absent"
                    /\ \A o \in OSDs : osd[o] # "Absent" => osd'[o] # "Absent"
<1>1. ASSUME TypeOK, Next PROVE Kept \/ UNCHANGED <<res, osd>>
  <2>1. ASSUME NEW q \in wire, ApplyStatus(q) PROVE Kept
    BY <1>1, <2>1 DEF ApplyStatus, Merge, TypeOK
  <2>2. CASE \A q \in wire : ~ApplyStatus(q)
    BY <1>1, <2>2
       DEF Next, Upsert, Poll, Leave, Release, Quit, Expire, CtlReserve, CtlRead,
           CtlList, CtlCapacity, CtlGrowth, CtlPlan, CtlPolicy, CtlFail, CtlError,
           CtlCrash, CtlStaleAction, CtlStaleOSD, CtlRefresh, OSDUp, OSDDown,
           CtlCreate, AgentRecover, AgentLoops, AgentReport, AgentList, AgentClaim,
           AgentBegin, AgentDrain, AgentPurge, AgentRecord, AgentFinish,
           AgentMarkFailed, AgentFail, AgentCrash, ApplyAction
  <2>. QED
    BY <2>1, <2>2
<1>2. TypeOK /\ [Next]_vars => [Kept]_<<res, osd>>
  BY <1>1 DEF vars
<1>. QED
  BY <1>2, TypeCorrect, PTL DEF Spec, RecordsSurvive

=============================================================================
