----------------------------- MODULE CephStorage -----------------------------
(***************************************************************************)
(* Bertrand's Ceph storage control loop (bertrand/env/kube/ceph): the      *)
(* clients that reserve storage (capacity.py), the storage controller      *)
(* (storage.py) and the storage agent of every host (agent.py).            *)
(*                                                                         *)
(* They meet in one object, the CephStorageState singleton, whose status   *)
(* holds a record per reservation and per OSD.  Every writer reads the     *)
(* whole status, changes one record and sends the whole status back as a   *)
(* merge patch with no resource version: a patch on the wire is a full     *)
(* copy of the status its writer read.  Storage actions are objects of     *)
(* their own, patched one by one.  A writer whose request fails or that    *)
(* dies leaves the request on the wire as an orphan.                       *)
(*                                                                         *)
(* Bytes are small numbers; an OSD is up and in Ceph with its whole size   *)
(* or not at all.  Ages (1800 s) and the retry cooldown are left open: a   *)
(* record may be found stale in any pass.                                  *)
(***************************************************************************)
EXTENDS Integers, Sequences, FiniteSets, FiniteSetsExt

CONSTANTS
    Res,            \* reservations, each requested by one client
    OSDs,           \* OSD inventory names
    Loops,          \* the loop-fallback OSDs; the others are LVM-backed
    Hosts,          \* hosts, each with a storage agent
    HostOf,         \* the host of each OSD
    Controller,     \* the storage controller, as the sender of a request
    NoOne,          \* the sender of an orphaned request
    Need,           \* requested_bytes of each reservation
    Size,           \* capacity of each OSD
    Used,           \* bytes in use
    Headroom,       \* headroom_target_bytes
    Watermark,      \* shrink_target_watermark, in percent
    ReadySets,      \* the sets of OSDs that may be admitted at the start
    ShrinkEnabled,  \* shrink_enabled of the policy
    MaxActions,     \* max_actions_per_reconcile
    MaxCreated,     \* bound on the storage actions created
    MaxWire,        \* bound on the requests on the wire
    MaxFaults,      \* bound on failed requests and commands, and on crashes
    MayFlap         \* whether an OSD may go down by itself

ASSUME StorageActorAssumption ==
    /\ Loops \subseteq OSDs /\ ReadySets \subseteq SUBSET OSDs
    /\ HostOf \in [OSDs -> Hosts]
    /\ Controller \notin Res \cup Hosts
    /\ NoOne \notin Res \cup Hosts \cup {Controller}
    /\ Res \cap Hosts = {}
ASSUME StorageSizeAssumption ==
    /\ Need \in [Res -> Nat \ {0}] /\ Size \in [OSDs -> Nat \ {0}]
    /\ Used \in Nat /\ Headroom \in Nat /\ Watermark \in Nat
    /\ MaxActions \in Nat \ {0} /\ MaxCreated \in Nat /\ MaxWire \in Nat
    /\ MaxFaults \in Nat /\ {ShrinkEnabled, MayFlap} \subseteq BOOLEAN

VARIABLES
    res,     \* status.reservations: the phase of each, or "Absent"
    osd,     \* status.osds: the phase of each, or "Absent"
    acts,    \* the CephStorageAction objects, in order of creation
    wire,    \* merge patches of the status not yet applied
    awire,   \* merge patches of actions not yet applied
    late,    \* reservations whose expires_at has passed
    client,  \* where each client is in reserve_ceph_storage()
    ctl,     \* the controller: its step and what it has read in this pass
    agent,   \* each agent: its step, its pending actions, its current action
    live,    \* OSDs that Ceph reports up and in
    disk,    \* OSDs whose LV or loop file exists on their host
    faults   \* failures so far

vars == <<res, osd, acts, wire, awire, late, client, ctl, agent, live, disk, faults>>

hostVars == <<live, disk, faults>>

ResPhases == {"Absent", "Pending", "Ready", "Released", "Expired"}
OSDPhases == {"Absent", "HostPrepared", "Binding", "Ready", "Expanding",
              "Shrinking", "Failed", "Retiring", "Retired"}
ActionPhases == {"Pending", "Running", "Succeeded", "Failed"}
Operations == {"expand", "shrink", "retire"}
Actions == [osd : OSDs, op : Operations, phase : ActionPhases]
Actors == Res \cup Hosts \cup {Controller}

\* STORAGE_OSD_IN_FLIGHT_PHASES, of the phases that some code writes.
InFlightPhases == {"HostPrepared", "Binding", "Expanding", "Shrinking", "Retiring"}

Total(S) == MapThenSumSet(LAMBDA o : Size[o], S)

Free(total) == IF total > Used THEN total - Used ELSE 0

CtlSteps == {"idle", "list", "stale", "refresh", "reserve", "create", "error", "closing"}
AgentSteps == {"recover", "loops", "report", "list", "next", "begin", "drain", "purge",
               "rebuild", "admit", "observe", "retired", "succeed", "failing", "fail"}

\* What a pass of the controller has read: of the status, of the actions and
\* of Ceph (total); its promise (ready), the reservations to patch (todo, due),
\* the records to read again, and the actions to create.
Passes == [pc : CtlSteps, res : [Res -> ResPhases], osd : [OSDs -> OSDPhases],
           acts : Seq(Actions), total : {0} \cup {Total(S) : S \in SUBSET OSDs},
           ready : BOOLEAN, todo : SUBSET Res, due : SUBSET Res,
           again : SUBSET {"acts", "osd", "res"}, plan : SUBSET Actions]

\* The controller between two passes, and an agent that has just started.
NoPass == [pc |-> "idle", res |-> [r \in Res |-> "Absent"],
           osd |-> [o \in OSDs |-> "Absent"], acts |-> <<>>, total |-> 0,
           ready |-> FALSE, todo |-> {}, due |-> {}, again |-> {}, plan |-> {}]

NewAgent == [pc |-> "recover", todo |-> {}, act |-> 0, had |-> FALSE]

Init ==
    /\ res = [r \in Res |-> "Absent"]
    /\ live \in ReadySets /\ disk = live /\ faults = 0
    /\ osd = [o \in OSDs |-> IF o \in live THEN "Ready" ELSE "Absent"]
    /\ acts = <<>> /\ wire = {} /\ awire = {} /\ late = {}
    /\ client = [r \in Res |-> "idle"]
    /\ ctl = NoPass
    /\ agent = [h \in Hosts |-> NewAgent]

-----------------------------------------------------------------------------
(* Reading, patching and losing requests.                                  *)

Fault == faults < MaxFaults /\ faults' = faults + 1

Busy(a) == (\E q \in wire : q.by = a) \/ (\E q \in awire : q.by = a)

\* Send the status as it is now, with one reservation or one OSD replaced.
SendStatus(a, newRes, newOSD) ==
    /\ Cardinality(wire) < MaxWire
    /\ wire' = wire \cup {[by |-> a, res |-> newRes, osd |-> newOSD]}

SendReservation(a, r, phase) == SendStatus(a, [res EXCEPT ![r] = phase], osd)

SendOSD(a, o, phase) == SendStatus(a, res, [osd EXCEPT ![o] = phase])

SendAction(a, n, phase) == awire' = awire \cup {[by |-> a, act |-> n, phase |-> phase]}

\* Mutant: the patch replaces the maps instead of merging into them.
MergeReplaces(old, new) == new

\* Mutant: the patch replaces the maps, and a key that it lacks is gone.
MergeDrops(old, new) == [k \in {j \in DOMAIN old : new[j] # "Absent"} |-> new[k]]

\* A JSON merge patch: a key that the patch lacks keeps its record.
Merge(old, new) == [k \in DOMAIN old |-> IF new[k] = "Absent" THEN old[k] ELSE new[k]]

ApplyStatus(q) ==
    /\ q \in wire
    /\ wire' = wire \ {q}
    /\ res' = Merge(res, q.res)
    /\ osd' = Merge(osd, q.osd)
    /\ UNCHANGED <<acts, awire, late, client, ctl, agent, hostVars>>

ApplyAction(q) ==
    /\ q \in awire
    /\ awire' = awire \ {q}
    /\ acts' = [acts EXCEPT ![q.act].phase = q.phase]
    /\ UNCHANGED <<res, osd, wire, late, client, ctl, agent, hostVars>>

\* Every request of actor a loses its caller.
Orphan(a) ==
    /\ wire' = {IF q.by = a THEN [q EXCEPT !.by = NoOne] ELSE q : q \in wire}
    /\ awire' = {IF q.by = a THEN [q EXCEPT !.by = NoOne] ELSE q : q \in awire}

\* The server refuses every request of actor a.
Refuse(a) ==
    /\ wire' = {q \in wire : q.by # a}
    /\ awire' = {q \in awire : q.by # a}

-----------------------------------------------------------------------------
(* reserve_ceph_storage()                                                  *)

Upsert(r) ==
    /\ client[r] = "idle"
    /\ SendReservation(r, r, "Pending")
    /\ client' = [client EXCEPT ![r] = "wait"]
    /\ UNCHANGED <<res, osd, acts, awire, late, ctl, agent, hostVars>>

\* One poll of wait_storage_reservation_ready() that ends the wait.
Poll(r) ==
    /\ client[r] = "wait" /\ ~Busy(r) /\ res[r] # "Pending"
    /\ client' = [client EXCEPT ![r] = IF res[r] = "Ready" THEN "hold" ELSE "leave"]
    /\ UNCHANGED <<res, osd, acts, wire, awire, late, ctl, agent, hostVars>>

\* The body of the context manager ends, normally or by an error.
Leave(r) ==
    /\ client[r] = "hold"
    /\ client' = [client EXCEPT ![r] = "leave"]
    /\ UNCHANGED <<res, osd, acts, wire, awire, late, ctl, agent, hostVars>>

\* The finally clause, with time left.
Release(r) ==
    /\ client[r] = "leave"
    /\ SendReservation(r, r, "Released")
    /\ client' = [client EXCEPT ![r] = "done"]
    /\ UNCHANGED <<res, osd, acts, awire, late, ctl, agent, hostVars>>

\* The client's deadline passes, or the client dies: nothing is released.
Quit(r) ==
    /\ client[r] \in {"wait", "hold", "leave"}
    /\ client' = [client EXCEPT ![r] = "done"]
    /\ Orphan(r)
    /\ UNCHANGED <<res, osd, acts, late, ctl, agent, hostVars>>

\* The reservation's expires_at, which is not before the client's deadline.
Expire(r) ==
    /\ client[r] = "done" /\ r \notin late
    /\ late' = late \cup {r}
    /\ UNCHANGED <<res, osd, acts, wire, awire, client, ctl, agent, hostVars>>

-----------------------------------------------------------------------------
(* One pass of _reconcile_storage_controller()                             *)

At(pc) == ctl.pc = pc /\ ~Busy(Controller)

CtlRead ==
    /\ At("idle") \/ At("closing")
    /\ ctl' = [NoPass EXCEPT !.pc = "list", !.res = res, !.osd = osd]
    /\ UNCHANGED <<res, osd, acts, wire, awire, late, client, agent, hostVars>>

CtlList ==
    /\ At("list")
    /\ ctl' = [ctl EXCEPT !.pc = "stale", !.acts = acts]
    /\ UNCHANGED <<res, osd, acts, wire, awire, late, client, agent, hostVars>>

\* Mutant: the action that nobody has claimed is taken for the stale one.
CtlStaleActionPending(n) ==
    /\ At("stale")
    /\ n \in DOMAIN ctl.acts /\ ctl.acts[n].phase = "Pending"
    /\ SendAction(Controller, n, "Failed")
    /\ ctl' = [ctl EXCEPT !.acts[n].phase = "Failed", !.again = @ \cup {"acts"}]
    /\ UNCHANGED <<res, osd, acts, wire, late, client, agent, hostVars>>

\* _mark_stale_actions_failed(), for one action.
CtlStaleAction(n) ==
    /\ At("stale")
    /\ n \in DOMAIN ctl.acts /\ ctl.acts[n].phase = "Running"
    /\ SendAction(Controller, n, "Failed")
    /\ ctl' = [ctl EXCEPT !.acts[n].phase = "Failed", !.again = @ \cup {"acts"}]
    /\ UNCHANGED <<res, osd, acts, wire, late, client, agent, hostVars>>

\* _mark_stale_osds_failed(), for one record.
CtlStaleOSD(o) ==
    /\ At("stale")
    /\ ctl.osd[o] \in {"HostPrepared", "Binding", "Expanding", "Shrinking"}
    /\ SendOSD(Controller, o, "Failed")
    /\ ctl' = [ctl EXCEPT !.osd[o] = "Failed", !.again = @ \cup {"osd"}]
    /\ UNCHANGED <<res, osd, acts, awire, late, client, agent, hostVars>>

\* The records that a patch of this pass changed are read again.
Reread(kind, old, new) == IF kind \in ctl.again THEN new ELSE old

\* _read_ceph_capacity(); an error reads as no capacity.
CtlCapacity ==
    /\ At("stale")
    /\ \E total \in {0, Total(live)} :
        /\ ctl' = [ctl EXCEPT !.pc = "refresh", !.total = total,
                              !.acts = Reread("acts", @, acts),
                              !.osd = Reread("osd", @, osd),
                              !.again = {}]
        /\ IF total = Total(live) THEN UNCHANGED faults ELSE Fault
    /\ UNCHANGED <<res, osd, acts, wire, awire, late, client, agent, live, disk>>

\* _refresh_osd_readiness(), for one record.
CtlRefresh(o) ==
    /\ At("refresh")
    /\ \E phase \in {"Ready", "Binding"} :
        /\ \/ phase = "Ready" /\ o \in live /\ ctl.osd[o] \in {"Binding", "Expanding"}
           \/ phase = "Binding" /\ o \notin live /\ ctl.osd[o] = "Ready"
        /\ SendOSD(Controller, o, phase)
        /\ ctl' = [ctl EXCEPT !.osd[o] = phase, !.again = {"osd"}]
    /\ UNCHANGED <<res, osd, acts, awire, late, client, agent, hostVars>>

\* Mutant: only reservations that are already ready count.
ActiveIfReady(R) == {r \in Res : R[r] = "Ready" /\ r \notin late}

\* is_active(): the reservations that contribute to demand.
Active(R) == {r \in Res : R[r] \in {"Pending", "Ready"} /\ r \notin late}

Reserved(R) == MapThenSumSet(LAMBDA r : Need[r], Active(R))

AdmissionInFlight(O) == \E o \in OSDs : O[o] \in InFlightPhases

\* _storage_growth_status() and the head of _reconcile_reservations(): what
\* this pass may promise, and the reservations that it will patch.
CtlGrowth ==
    /\ At("refresh")
    /\ LET osdNow == Reread("osd", ctl.osd, osd)
           open   == {r \in Res : ctl.res[r] \in {"Pending", "Ready"}}
       IN  \E healthy \in BOOLEAN :
             /\ IF healthy THEN UNCHANGED faults ELSE Fault
             /\ ctl' = [ctl EXCEPT
                       !.pc = "reserve", !.osd = osdNow, !.again = {},
                       !.ready = /\ healthy
                                 /\ ~AdmissionInFlight(osdNow)
                                 /\ Free(ctl.total) >= Headroom + Reserved(ctl.res),
                       !.due = open \cap late,
                       !.todo = {r \in open : r \in late \/ ctl.res[r] = "Pending"}]
    /\ UNCHANGED <<res, osd, acts, wire, awire, late, client, agent, live, disk>>

\* Mutant: a reservation that is overdue is not expired.
CtlReserveOverdue(r) ==
    /\ At("reserve") /\ r \in ctl.todo
    /\ SendReservation(Controller, r, IF ctl.ready THEN "Ready" ELSE "Pending")
    /\ ctl' = [ctl EXCEPT !.todo = @ \ {r}, !.again = {"res"}]
    /\ UNCHANGED <<res, osd, acts, awire, late, client, agent, hostVars>>

\* _reconcile_reservations(), for one reservation of the pass's snapshot.
CtlReserve(r) ==
    /\ At("reserve") /\ r \in ctl.todo
    /\ SendReservation(Controller, r,
         IF r \in ctl.due THEN "Expired" ELSE IF ctl.ready THEN "Ready" ELSE "Pending")
    /\ ctl' = [ctl EXCEPT !.todo = @ \ {r}, !.again = {"res"}]
    /\ UNCHANGED <<res, osd, acts, awire, late, client, agent, hostVars>>

InFlight(A) == Cardinality({n \in DOMAIN A : A[n].phase \in {"Pending", "Running"}})

Job(o, op) == [osd |-> o, op |-> op, phase |-> "Pending"]

Jobs(S, op, count) == {{Job(o, op) : o \in T} : T \in {U \in SUBSET S : Cardinality(U) \in 1..count}}

\* _plan_growth_actions(): any OSD may be a target (_discover_storage_targets).
GrowthPlans(reserved) ==
    LET budget == MaxActions - InFlight(ctl.acts) IN
    IF AdmissionInFlight(ctl.osd) THEN {}
    ELSE IF ctl.total = 0 THEN Jobs(OSDs, "expand", IF budget > 0 THEN 1 ELSE 0)
    ELSE IF Free(ctl.total) < Headroom + reserved THEN Jobs(OSDs, "expand", budget)
    ELSE {}

\* _plan_lvm_coverage_actions()
CoveragePlans ==
    IF ctl.total = 0 \/ InFlight(ctl.acts) # 0 \/ AdmissionInFlight(ctl.osd) THEN {}
    ELSE Jobs({o \in OSDs \ Loops : ctl.osd[o] \in {"Absent", "Failed", "Retired"}},
              "expand", MaxActions)

\* The usage after loop OSD o is gone stays under shrink_target_watermark.
RetireFits(o) ==
    LET projected == ctl.total - Size[o]
    IN  projected > 0 /\ Used * 100 <= Watermark * projected

\* _plan_shrink_actions(): retire a loop OSD, or make room for that on LVM,
\* or, with no loop OSD left and nothing reserved, shrink an LVM OSD.
ShrinkPlans(reserved) ==
    LET ready == {o \in live : ctl.osd[o] = "Ready"}
        loops == ready \cap Loops
    IN  IF ~ShrinkEnabled \/ InFlight(ctl.acts) # 0 \/ ctl.total = 0 THEN {}
        ELSE Jobs({o \in loops : RetireFits(o)}, "retire", 1)
             \cup (IF \E o \in loops : ~RetireFits(o)
                     THEN Jobs(OSDs \ Loops, "expand", MaxActions) ELSE {})
             \cup (IF /\ loops = {} /\ reserved = 0 /\ ~AdmissionInFlight(ctl.osd)
                      /\ Free(ctl.total) >= Headroom
                     THEN Jobs(ready \ Loops, "shrink", 1) ELSE {})

\* _plan_storage_actions().  Targets may be ineligible (a node not ready, a
\* recent failure, no space), so any alternative may come out empty.
CtlPlan ==
    /\ At("reserve") /\ ctl.todo = {}
    /\ LET reserved == Reserved(Reread("res", ctl.res, res)) IN
       \E plan \in {{}} \cup GrowthPlans(reserved) \cup CoveragePlans
                        \cup ShrinkPlans(reserved) :
         /\ Len(acts) + Cardinality(plan) <= MaxCreated
         /\ ctl' = [NoPass EXCEPT !.pc = "create", !.plan = plan]
    /\ UNCHANGED <<res, osd, acts, wire, awire, late, client, agent, hostVars>>

\* create_storage_actions(), for one action.
CtlCreate(job) ==
    /\ At("create") /\ job \in ctl.plan
    /\ acts' = Append(acts, job)
    /\ ctl' = [ctl EXCEPT !.plan = @ \ {job}]
    /\ UNCHANGED <<res, osd, wire, awire, late, client, agent, hostVars>>

\* The patch of the policy status that ends a pass.
CtlPolicy ==
    /\ At("create") /\ ctl.plan = {}
    /\ SendStatus(Controller, res, osd)
    /\ ctl' = NoPass
    /\ UNCHANGED <<res, osd, acts, awire, late, client, agent, hostVars>>

\* A request of the pass fails, or the pass raises an error at its end.
CtlFail ==
    /\ Fault
    /\ Refuse(Controller) \/ Orphan(Controller)
    /\ ctl' = [NoPass EXCEPT !.pc = IF ctl.pc = "closing" THEN "idle" ELSE "error"]
    /\ UNCHANGED <<res, osd, acts, late, client, agent, live, disk>>

\* _patch_storage_controller_error(); its own errors are suppressed.
CtlError ==
    /\ At("error")
    /\ SendStatus(Controller, res, osd)
    /\ ctl' = [NoPass EXCEPT !.pc = "closing"]
    /\ UNCHANGED <<res, osd, acts, awire, late, client, agent, hostVars>>

CtlCrash ==
    /\ Fault
    /\ Orphan(Controller)
    /\ ctl' = NoPass
    /\ UNCHANGED <<res, osd, acts, late, client, agent, live, disk>>

-----------------------------------------------------------------------------
(* One synchronization pass of a host's agent                              *)

\* Mutant: the agent goes on without the answer to its last request.
AgentAtUnawaited(h, pc) == agent[h].pc = pc

AgentAt(h, pc) == agent[h].pc = pc /\ ~Busy(h)

Go(h, pc) == agent' = [agent EXCEPT ![h].pc = pc]

\* The action the agent of host h is executing, and its OSD.
Current(h) == acts[agent[h].act]
Target(h) == Current(h).osd

\* _recover_missing_osd_records(): a substrate without a record.
AgentRecover(h) ==
    /\ AgentAt(h, "recover")
    /\ \/ \E o \in disk :
            /\ HostOf[o] = h /\ osd[o] = "Absent"
            /\ SendOSD(h, o, "HostPrepared")
            /\ UNCHANGED agent
       \/ Go(h, "loops") /\ UNCHANGED wire
    /\ UNCHANGED <<res, osd, acts, awire, late, client, ctl, hostVars>>

\* _recover_loop_devices()
AgentLoops(h) ==
    /\ AgentAt(h, "loops")
    /\ \/ \E o \in Loops :
            /\ HostOf[o] = h /\ osd[o] \in {"HostPrepared", "Binding", "Ready", "Expanding"}
            /\ \/ o \notin disk /\ disk' = disk \cup {o} /\ UNCHANGED <<wire, faults>>
               \/ Fault /\ SendOSD(h, o, "Failed") /\ UNCHANGED disk
            /\ UNCHANGED agent
       \/ Go(h, "report") /\ UNCHANGED <<wire, disk, faults>>
    /\ UNCHANGED <<res, osd, acts, awire, late, client, ctl, live>>

\* _upsert_node_report(): another copy of the whole status.
AgentReport(h) ==
    /\ AgentAt(h, "report")
    /\ SendStatus(h, res, osd)
    /\ Go(h, "list")
    /\ UNCHANGED <<res, osd, acts, awire, late, client, ctl, hostVars>>

AgentList(h) ==
    /\ AgentAt(h, "list")
    /\ agent' = [agent EXCEPT ![h].pc = "next",
          ![h].todo = {n \in DOMAIN acts : acts[n].phase = "Pending" /\ HostOf[acts[n].osd] = h}]
    /\ UNCHANGED <<res, osd, acts, wire, awire, late, client, ctl, hostVars>>

\* _claim_action() of the next pending action, or the end of the pass.
AgentClaim(h) ==
    /\ AgentAt(h, "next")
    /\ \/ /\ agent[h].todo = {}
          /\ agent' = [agent EXCEPT ![h] = NewAgent]
          /\ UNCHANGED awire
       \/ \E n \in agent[h].todo :
            /\ SendAction(h, n, "Running")
            /\ agent' = [agent EXCEPT ![h].pc = "begin", ![h].act = n, ![h].todo = @ \ {n}]
    /\ UNCHANGED <<res, osd, acts, wire, late, client, ctl, hostVars>>

\* The first step of the action: the host substrate of an expansion, or the
\* phase that announces a retirement or a shrink.
AgentBegin(h) ==
    /\ AgentAt(h, "begin")
    /\ \/ /\ Current(h).op = "expand"
          /\ disk' = disk \cup {Target(h)}
          /\ agent' = [agent EXCEPT ![h].pc = "admit", ![h].had = osd[Target(h)] # "Absent"]
          /\ UNCHANGED wire
       \/ /\ Current(h).op # "expand" /\ osd[Target(h)] # "Absent"
          /\ SendOSD(h, Target(h), IF Current(h).op = "retire" THEN "Retiring" ELSE "Shrinking")
          /\ Go(h, "drain")
          /\ UNCHANGED disk
    /\ UNCHANGED <<res, osd, acts, awire, late, client, ctl, live, faults>>

\* drain_ceph_osd() and the wait for its workloads.
AgentDrain(h) ==
    /\ AgentAt(h, "drain")
    /\ live' = live \ {Target(h)}
    /\ Go(h, "purge")
    /\ UNCHANGED <<res, osd, acts, wire, awire, late, client, ctl, disk, faults>>

\* purge_ceph_osd(), the claims and the substrate; a shrink then prepares a
\* smaller substrate.
AgentPurge(h) ==
    /\ \/ /\ AgentAt(h, "purge")
          /\ live' = live \ {Target(h)} /\ disk' = disk \ {Target(h)}
          /\ Go(h, IF Current(h).op = "retire" THEN "retired" ELSE "rebuild")
       \/ /\ AgentAt(h, "rebuild")
          /\ disk' = disk \cup {Target(h)}
          /\ agent' = [agent EXCEPT ![h].pc = "admit", ![h].had = FALSE]
          /\ UNCHANGED live
    /\ UNCHANGED <<res, osd, acts, wire, awire, late, client, ctl, faults>>

\* _admit_prepared_osd() up to the record, and the last record of a retirement.
AgentRecord(h) ==
    /\ \/ /\ AgentAt(h, "admit")
          /\ SendOSD(h, Target(h), IF agent[h].had THEN "Expanding" ELSE "HostPrepared")
          /\ Go(h, "observe")
       \/ /\ AgentAt(h, "observe")
          /\ SendOSD(h, Target(h), IF Target(h) \in live THEN "Ready" ELSE "Binding")
          /\ Go(h, "succeed")
       \/ /\ AgentAt(h, "retired")
          /\ SendOSD(h, Target(h), "Retired")
          /\ Go(h, "succeed")
    /\ UNCHANGED <<res, osd, acts, awire, late, client, ctl, hostVars>>

\* _succeed_action() or _fail_action()
AgentFinish(h) ==
    /\ \E phase \in {"Succeeded", "Failed"} :
        /\ AgentAt(h, IF phase = "Succeeded" THEN "succeed" ELSE "fail")
        /\ SendAction(h, agent[h].act, phase)
    /\ Go(h, "next")
    /\ UNCHANGED <<res, osd, acts, wire, late, client, ctl, hostVars>>

\* _mark_target_osd_failed(), which passes over retirements.
AgentMarkFailed(h) ==
    /\ AgentAt(h, "failing")
    /\ IF Current(h).op \in {"expand", "shrink"} /\ osd[Target(h)] # "Absent"
         THEN SendOSD(h, Target(h), "Failed")
         ELSE UNCHANGED wire
    /\ Go(h, "fail")
    /\ UNCHANGED <<res, osd, acts, awire, late, client, ctl, hostVars>>

\* A request or a host command fails.  An error outside the actions, or in
\* _fail_action(), ends the process; the DaemonSet starts it again.
AgentFail(h) ==
    /\ Fault
    /\ Refuse(h) \/ Orphan(h)
    /\ \/ /\ agent[h].pc \in {"begin", "drain", "purge", "rebuild", "admit", "observe", "retired", "succeed"}
          /\ Go(h, "failing")
       \/ /\ agent[h].pc = "fail" /\ Busy(h)
          /\ UNCHANGED agent
       \/ /\ agent[h].pc \in {"recover", "loops", "report", "list", "next"}
          /\ agent' = [agent EXCEPT ![h] = NewAgent]
    /\ UNCHANGED <<res, osd, acts, late, client, ctl, live, disk>>

AgentCrash(h) ==
    /\ Fault
    /\ Orphan(h)
    /\ agent' = [agent EXCEPT ![h] = NewAgent]
    /\ UNCHANGED <<res, osd, acts, late, client, ctl, live, disk>>

-----------------------------------------------------------------------------
(* Ceph and Rook                                                           *)

\* Rook brings up the OSD of a device set whose substrate exists.
OSDUp(o) ==
    /\ o \in disk \ live
    /\ osd[o] \in {"HostPrepared", "Binding", "Expanding"}
    /\ live' = live \cup {o}
    /\ UNCHANGED <<res, osd, acts, wire, awire, late, client, ctl, agent, disk, faults>>

OSDDown(o) ==
    /\ MayFlap /\ Fault /\ o \in live
    /\ live' = live \ {o}
    /\ UNCHANGED <<res, osd, acts, wire, awire, late, client, ctl, agent, disk>>

Next ==
    \/ \E r \in Res : \/ Upsert(r) \/ Poll(r) \/ Leave(r) \/ Release(r)
                      \/ Quit(r) \/ Expire(r) \/ CtlReserve(r)
    \/ CtlRead \/ CtlList \/ CtlCapacity \/ CtlGrowth \/ CtlPlan \/ CtlPolicy
    \/ CtlFail \/ CtlError \/ CtlCrash
    \/ \E n \in 1..MaxCreated : CtlStaleAction(n)
    \/ \E o \in OSDs : CtlStaleOSD(o) \/ CtlRefresh(o) \/ OSDUp(o) \/ OSDDown(o)
    \/ \E job \in ctl.plan : CtlCreate(job)
    \/ \E h \in Hosts : \/ AgentRecover(h) \/ AgentLoops(h) \/ AgentReport(h)
                        \/ AgentList(h) \/ AgentClaim(h) \/ AgentBegin(h)
                        \/ AgentDrain(h) \/ AgentPurge(h) \/ AgentRecord(h)
                        \/ AgentFinish(h) \/ AgentMarkFailed(h)
                        \/ AgentFail(h) \/ AgentCrash(h)
    \/ \E q \in wire : ApplyStatus(q)
    \/ \E q \in awire : ApplyAction(q)

Spec == Init /\ [][Next]_vars

CtlStep ==
    \/ CtlRead \/ CtlList \/ CtlCapacity \/ CtlGrowth \/ CtlPlan \/ CtlPolicy \/ CtlError
    \/ \E r \in Res : CtlReserve(r)
    \/ \E job \in ctl.plan : CtlCreate(job)

AgentStep(h) ==
    \/ AgentRecover(h) \/ AgentLoops(h) \/ AgentReport(h) \/ AgentList(h)
    \/ AgentClaim(h) \/ AgentBegin(h) \/ AgentDrain(h) \/ AgentPurge(h)
    \/ AgentRecord(h) \/ AgentFinish(h) \/ AgentMarkFailed(h)

\* The processes keep running, the server answers, time passes, and a record
\* that stays stale over many passes is old enough in one of them.
Fairness ==
    /\ WF_vars(CtlStep)
    /\ \A h \in Hosts : WF_vars(AgentStep(h))
    /\ \A a \in Actors \cup {NoOne} :
        /\ WF_vars(\E q \in wire : q.by = a /\ ApplyStatus(q))
        /\ WF_vars(\E q \in awire : q.by = a /\ ApplyAction(q))
    /\ \A r \in Res : WF_vars(Quit(r)) /\ WF_vars(Expire(r))
    /\ \A n \in 1..MaxCreated : SF_vars(CtlStaleAction(n))
    /\ \A o \in OSDs : SF_vars(CtlStaleOSD(o))

FairSpec == Spec /\ Fairness

-----------------------------------------------------------------------------
(* Properties.                                                             *)

\* The agent of host h has begun, and not yet ended, its current action.
Working(h) ==
    agent[h].pc \in {"drain", "purge", "rebuild", "admit", "observe", "retired", "succeed"}

\* The types of the variables.
TypeOK ==
    /\ res \in [Res -> ResPhases] /\ osd \in [OSDs -> OSDPhases]
    /\ acts \in Seq(Actions)
    /\ wire \subseteq [by : Actors \cup {NoOne}, res : [Res -> ResPhases],
                       osd : [OSDs -> OSDPhases]]
    /\ awire \subseteq [by : Actors \cup {NoOne}, act : Nat, phase : ActionPhases]
    /\ late \subseteq Res /\ live \subseteq OSDs /\ disk \subseteq OSDs
    /\ faults \in 0..MaxFaults
    /\ client \in [Res -> {"idle", "wait", "hold", "leave", "done"}]
    /\ ctl \in Passes
    /\ agent \in [Hosts -> [pc : AgentSteps, todo : SUBSET Nat, act : Nat, had : BOOLEAN]]

\* A record, once written, is never lost, whatever stale copies other writers
\* send (patch_status): the "disappeared" error of the wait is unreachable.
RecordsSurvive ==
    [][ /\ \A r \in Res : res[r] # "Absent" => res'[r] # "Absent"
        /\ \A o \in OSDs : osd[o] # "Absent" => osd'[o] # "Absent" ]_<<res, osd>>

\* An action is never pending again once an agent has begun to work on it
\* (_claim_action, then the operation): whatever crashes or late requests do,
\* no agent drains, purges or rebuilds an OSD twice for one action.
NoReplay ==
    \A h \in Hosts : Working(h) => Current(h).phase # "Pending"

\* "Hold a hard storage reservation for one Bertrand-owned write.": what the
\* clients inside reserve_ceph_storage() were promised fits, together and
\* with the headroom, into the free capacity (_reconcile_reservations).
HardReservation ==
    LET held == {r \in Res : client[r] = "hold"}
    IN  held # {} => Used + Headroom + MapThenSumSet(LAMBDA r : Need[r], held) <= Total(live)

\* Every reservation ends, released or expired, even when its client dies or
\* a stale copy brings it back (_reconcile_reservations): it stops counting
\* against the capacity.
ReservationsEnd ==
    \A r \in Res : res[r] \in {"Pending", "Ready"} ~> res[r] \in {"Released", "Expired"}

\* Every storage action ends, even when its agent dies in the middle of it
\* (_mark_stale_actions_failed): an action in flight blocks the planning of
\* coverage and shrink actions.
ActionsEnd ==
    \A n \in 1..MaxCreated :
        n \in DOMAIN acts ~> n \in DOMAIN acts /\ acts[n].phase \in {"Succeeded", "Failed"}

\* A reservation is told to wait because "OSD admission or retirement is
\* still in flight": a record that says so stops saying it.
RetirementEnds ==
    \A o \in OSDs : osd[o] = "Retiring" ~> osd[o] # "Retiring"
=============================================================================
