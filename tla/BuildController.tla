-------------------------- MODULE BuildController --------------------------
(***************************************************************************)
(* The image builds of bertrand/env/kube/build: the controller's loop      *)
(* (controller.py), the records of the builds and the retirement and       *)
(* collection of their images (request.py), the collection of the          *)
(* registry's storage (repository.py), and those who work beside it: users *)
(* who submit builds and start workloads, the command that removes a       *)
(* worktree's workload, the registry and its collection jobs.              *)
(*                                                                         *)
(* The controller is one process; each of its calls to Kubernetes or the   *)
(* registry is a step, which may fail before or after it took effect, and  *)
(* the process may die between two of them.  An image is the sequence of   *)
(* its digest refs, the index first and then its platforms, and a ref also *)
(* stands for the blobs under it.                                          *)
(***************************************************************************)
EXTENDS Integers, SequencesExt

CONSTANTS
    Builds,     \* requests that may be submitted
    Rank,       \* their places in the order of their names
    Trees,      \* worktrees
    TreeOf,     \* the worktree of each build
    Images,     \* what a build may publish
    Jobs,       \* registry collection jobs that may exist at once
    Nil,        \* None
    MaxFaults   \* bound on what disturbs: failed calls, expired passes, crashes
                \* and commands that remove a workload or converge the registry

ASSUME ImageAssumption ==
    /\ TreeOf \in [Builds -> Trees]
    /\ Rank \in [Builds -> Nat] /\ IsInjective(Rank)
    /\ Nil \notin Builds \cup Jobs \cup UNION {ToSet(i) : i \in Images}
    /\ \A i \in Images : i # <<>> /\ i \in Seq(ToSet(i))
    /\ MaxFaults \in Nat

VARIABLES
    rec,        \* the build records: status and image-phase label
    aged,       \* builds whose retired_at is more than the grace ago
    manifests, blobs,   \* what the registry holds
    dropped,    \* refs whose manifest was deleted and whose blobs still stand
    desired,    \* the registry's Deployment is set read-only
    serving,    \* the registry that runs is read-only
    dirty,      \* the maintenance ConfigMap has dirty_count > 0
    jobs, keep, \* collection jobs, and the blobs each has marked
    pc,         \* where the controller stands
    patch,      \* the label patch that follows a status patch
    todo, build, image, left,       \* locals: requests, request, its refs
    snap, wasClean, collected,      \* locals: records read, marker_was_clean
    ran, job,   \* locals: storage collection ran, its job
    imageDue, storageDue,           \* the maintenance clocks
    pod,        \* image of the pod that was last started, per worktree
    cli,        \* the command that removes a workload
    faults,
    finished,   \* history: builds reconciled to the end
    overlapped  \* history: something was pushed while a collection ran

recordVars   == <<rec, aged>>
registryVars == <<manifests, blobs, dropped, overlapped>>
modeVars     == <<desired, serving, dirty>>
jobVars      == <<jobs, keep>>
buildLocals  == <<todo, build, image>>
passLocals   == <<wasClean, collected, ran, job>>
clocks       == <<imageDue, storageDue>>
ctlVars      == <<pc, patch, buildLocals, left, snap, passLocals, clocks>>
userVars     == <<pod, cli>>
buildVars    == <<recordVars, registryVars, modeVars, jobVars, ctlVars, userVars,
                  faults, finished>>

Refs        == UNION {ToSet(i) : i \in Images}
ImagePhases == {"Pending", "Active", "Retired", "Collected"}
BuildPhases == {"absent", "Pending", "Running", "Succeeded", "Failed"}
JobStates   == {"none", "created", "marked", "done"}
Records     == [phase : BuildPhases, image : ImagePhases, refs : Images \cup {<<>>},
                label : ImagePhases]     \* a label "Pending" is no label
NoRecord    == [phase |-> "absent", image |-> "Pending", refs |-> <<>>,
                label |-> "Pending"]
IsActive(b) == rec[b].phase \in {"Pending", "Running"}
ActiveRefs  == UNION {ToSet(rec[b].refs) : b \in {c \in Builds : rec[c].image = "Active"}}
LabelledActive(t) ==
    {b \in Builds : TreeOf[b] = t /\ rec[b].label = "Active" /\ rec[b].image = "Active"}

\* A snapshot of some of the records, and one without record b.
Snapshot(some) == [b \in some |-> rec[b]]
Without(records, b) == [c \in DOMAIN records \ {b} |-> records[c]]

Reconciling == {"run", "start", "upload", "put", "succeed", "retire", "retiring"}
Collecting  == {"mark", "inventory", "collect", "counted", "delete", "giveback",
                "settle"}
Sweeping    == {"idle", "ready", "preflight", "disable", "disabled", "create", "wait"}
Restoring   == {"restore", "restored", "clear", "undirty"}
Steps == {"list", "next", "failing", "label", "look", "check"}
             \cup Reconciling \cup Collecting \cup Sweeping \cup Restoring

NoPatch == [on |-> Nil, want |-> "Pending", next |-> "list", error |-> "list"]
NoCli   == [snap |-> <<>>, on |-> Nil]

BuildInit ==
    /\ rec = [b \in Builds |-> NoRecord] /\ aged = {} /\ finished = {}
    /\ manifests = {} /\ blobs = {} /\ dropped = {} /\ overlapped = FALSE
    /\ desired = FALSE /\ serving = FALSE /\ dirty = FALSE
    /\ jobs = [j \in Jobs |-> "none"] /\ keep = [j \in Jobs |-> {}]
    /\ pc = "restore" /\ patch = NoPatch
    /\ todo = {} /\ build = Nil /\ image = <<>> /\ left = <<>> /\ snap = <<>>
    /\ wasClean = FALSE /\ collected = FALSE /\ ran = FALSE /\ job = Nil
    /\ imageDue = TRUE /\ storageDue = TRUE
    /\ pod = [t \in Trees |-> Nil] /\ cli = NoCli /\ faults = 0

-----------------------------------------------------------------------------
(* How a call of the controller ends.                                      *)

\* Where the exception of the call at pc is caught.
Handler ==
    CASE pc = "label"                              -> patch.error
      [] pc \in Reconciling                        -> "failing"
      [] pc \in {"list", "failing"}                -> "look"
      [] pc = "delete"                             -> "giveback"
      [] pc \in (Collecting \ {"delete"}) \cup {"look"} -> "check"
      [] pc = "preflight"                          -> "clear"
      [] pc \in {"disable", "disabled", "create", "wait"} -> "restore"
      [] OTHER                                     -> "list"

Fault == faults < MaxFaults /\ faults' = faults + 1

\* The call has taken effect; its answer arrives, or is lost.
Reply(next) ==
    \/ pc' = next /\ UNCHANGED faults
    \/ Fault /\ pc' = Handler

\* A call fails without effect.  Job.run() then has ten seconds, counted from
\* its start, to delete the job it could not wait for.
CallFails ==
    /\ Fault
    /\ pc \notin {"next", "collect", "counted"} /\ (pc = "retiring" => snap # <<>>)
    /\ pc' = Handler
    /\ patch' = NoPatch
    /\ \/ UNCHANGED jobVars
       \/ /\ pc = "wait" /\ jobs' = [jobs EXCEPT ![job] = "none"]
          /\ keep' = [keep EXCEPT ![job] = {}]
    /\ UNCHANGED <<recordVars, registryVars, modeVars, buildLocals, left, snap,
                   passLocals, clocks, userVars, finished>>

\* The budget of a maintenance pass is used up: what its handlers would still
\* ask of Kubernetes, the restoration included, is not even tried.
PassExpires ==
    /\ Fault
    /\ \/ pc \in Collecting /\ pc' = "check"
       \/ pc \in Sweeping /\ pc' = "list"
    /\ UNCHANGED <<recordVars, registryVars, modeVars, jobVars, patch, buildLocals,
                   left, snap, passLocals, clocks, userVars, finished>>

\* The controller dies and its Deployment starts another, whose first call
\* makes the registry writable.
ControllerDies ==
    /\ Fault
    /\ pc' = "restore" /\ patch' = NoPatch
    /\ todo' = {} /\ build' = Nil /\ image' = <<>> /\ left' = <<>> /\ snap' = <<>>
    /\ wasClean' = FALSE /\ collected' = FALSE /\ ran' = FALSE /\ job' = Nil
    /\ imageDue' = TRUE /\ storageDue' = TRUE
    /\ UNCHANGED <<recordVars, registryVars, modeVars, jobVars, userVars, finished>>

-----------------------------------------------------------------------------
(* patch_buildkit_build_status(): the status, and then the label if the    *)
(* record that comes back has another one.                                 *)

\* Mutant: the label is not patched after the status.
PatchStatusOnly(b, phase, phaseOfImage, refs, next, error) ==
    /\ rec' = [rec EXCEPT ![b].phase = phase, ![b].image = phaseOfImage,
                          ![b].refs = refs]
    /\ aged' = IF phaseOfImage \in {"Retired", "Collected"} THEN aged ELSE aged \ {b}
    /\ pc' = next
    /\ UNCHANGED <<registryVars, modeVars, jobVars, patch, buildLocals, clocks, userVars,
                   faults, finished>>

PatchStatus(b, phase, phaseOfImage, refs, next, error) ==
    /\ rec' = [rec EXCEPT ![b].phase = phase, ![b].image = phaseOfImage,
                          ![b].refs = refs]
    /\ aged' = IF phaseOfImage \in {"Retired", "Collected"} THEN aged ELSE aged \ {b}
    /\ \/ /\ rec[b].label = phaseOfImage
          /\ pc' = next /\ UNCHANGED <<patch, faults>>
       \/ /\ rec[b].label # phaseOfImage
          /\ pc' = "label"
          /\ patch' = [on |-> b, want |-> phaseOfImage, next |-> next, error |-> error]
          /\ UNCHANGED faults
       \/ Fault /\ pc' = error /\ UNCHANGED patch
    /\ UNCHANGED <<registryVars, modeVars, jobVars, buildLocals, clocks, userVars,
                   finished>>

PatchLabel ==
    /\ pc = "label"
    /\ rec' = [rec EXCEPT ![patch.on].label = patch.want]
    /\ patch' = NoPatch
    /\ Reply(patch.next)
    /\ UNCHANGED <<aged, registryVars, modeVars, jobVars, buildLocals, left, snap,
                   passLocals, clocks, userVars, finished>>

-----------------------------------------------------------------------------
(* The pass over the build requests.                                       *)


\* Every request that is not terminal.
ListBuilds ==
    /\ pc = "list" /\ pc' = "next"
    /\ todo' = {b \in Builds : IsActive(b)}
    /\ ran' = FALSE /\ job' = Nil
    /\ UNCHANGED <<recordVars, registryVars, modeVars, jobVars, patch, build, image,
                   left, snap, wasClean, collected, clocks, userVars, faults, finished>>

\* They are run in the order of their names.
NextBuild ==
    /\ pc = "next"
    /\ \/ \E b \in todo :
            /\ \A c \in todo : Rank[b] <= Rank[c]
            /\ build' = b /\ todo' = todo \ {b} /\ pc' = "run"
       \/ todo = {} /\ pc' = "look" /\ build' = Nil /\ UNCHANGED todo
    /\ image' = <<>> /\ left' = <<>> /\ snap' = <<>>
    /\ UNCHANGED <<recordVars, registryVars, modeVars, jobVars, patch, passLocals,
                   clocks, userVars, faults, finished>>

RunBuild ==
    /\ pc = "run"
    /\ PatchStatus(build, "Running", "Pending", <<>>, "start", "failing")
    /\ UNCHANGED <<left, snap, passLocals>>

\* The storage is reserved, the source prepared and the platforms chosen.
StartJobs ==
    /\ pc = "start" /\ pc' = "upload"
    /\ image' \in Images /\ left' = Reverse(image')
    /\ UNCHANGED <<recordVars, registryVars, modeVars, jobVars, patch, todo, build,
                   snap, passLocals, clocks, userVars, faults, finished>>

Collects == \E j \in Jobs : jobs[j] \in {"created", "marked"}

Pushing == UNCHANGED <<recordVars, modeVars, jobVars, patch, buildLocals, snap, passLocals,
                       clocks, userVars, finished>>

\* A platform's job, or in the end the one that assembles the index, pushes
\* blobs; a read-only registry refuses them.
UploadBlobs ==
    /\ pc = "upload"
    /\ \/ serving /\ pc' = "failing" /\ UNCHANGED <<blobs, overlapped, faults>>
       \/ /\ ~serving /\ blobs' = blobs \cup {Head(left)}
          /\ overlapped' = (overlapped \/ Collects)
          /\ Reply("put")
    /\ UNCHANGED <<manifests, dropped, left>> /\ Pushing

\* The manifest over them, which the registry takes if it has the blobs.
PutManifest ==
    /\ pc = "put"
    /\ \/ /\ serving \/ Head(left) \notin blobs
          /\ pc' = "failing" /\ UNCHANGED <<manifests, dropped, overlapped, left, faults>>
       \/ /\ ~serving /\ Head(left) \in blobs
          /\ overlapped' = (overlapped \/ Collects)
          /\ manifests' = manifests \cup {Head(left)}
          /\ dropped' = dropped \ {Head(left)}
          /\ left' = Tail(left)
          /\ Reply(IF Len(left) = 1 THEN "succeed" ELSE "upload")
    /\ UNCHANGED blobs /\ Pushing

MarkSucceeded ==
    /\ pc = "succeed"
    /\ PatchStatus(build, "Succeeded", "Active", image, "retire", "failing")
    /\ UNCHANGED <<left, snap, passLocals>>

ListRetirements ==
    /\ pc = "retire" /\ pc' = "retiring"
    /\ snap' = Snapshot(LabelledActive(TreeOf[build]) \ {build})
    /\ UNCHANGED <<recordVars, registryVars, modeVars, jobVars, patch, buildLocals,
                   left, passLocals, clocks, userVars, faults, finished>>

RetireImage ==
    /\ pc = "retiring"
    /\ \E b \in DOMAIN snap :
        /\ PatchStatus(b, snap[b].phase, "Retired", snap[b].refs, "retiring", "failing")
        /\ snap' = Without(snap, b)
    /\ UNCHANGED <<left, passLocals>>

\* The collection of images is then scheduled for a day later, also one that
\* is overdue.
FinishBuild ==
    /\ pc = "retiring" /\ snap = <<>> /\ pc' = "next"
    /\ imageDue' = FALSE /\ finished' = finished \cup {build}
    /\ UNCHANGED <<recordVars, registryVars, modeVars, jobVars, patch, buildLocals,
                   left, snap, passLocals, storageDue, userVars, faults>>

\* Whatever failed, the publication or the retirement after it.
MarkFailed ==
    /\ pc = "failing"
    /\ PatchStatus(build, "Failed", "Pending", <<>>, "next", "look")
    /\ UNCHANGED <<left, snap, passLocals>>

BuildStep ==
    \/ ListBuilds \/ NextBuild \/ RunBuild \/ StartJobs \/ UploadBlobs \/ PutManifest
    \/ MarkSucceeded \/ ListRetirements \/ RetireImage \/ FinishBuild \/ MarkFailed

-----------------------------------------------------------------------------
(* The collection of retired images.                                       *)

\* The clock, and the earliest time at which a retired image may go.
Look ==
    /\ pc = "look"
    /\ pc' = IF imageDue /\ \E b \in aged : rec[b].label = "Retired"
                                            /\ rec[b].image = "Retired"
             THEN "mark" ELSE "check"
    /\ imageDue' = FALSE
    /\ todo' = {} /\ build' = Nil /\ image' = <<>> /\ left' = <<>> /\ snap' = <<>>
    /\ UNCHANGED <<recordVars, registryVars, modeVars, jobVars, patch, passLocals,
                   storageDue, userVars, faults, finished>>

\* Mutant: the storage is marked dirty only when something was collected.
MarkLater ==
    /\ pc = "mark" /\ wasClean' = ~dirty
    /\ Reply("inventory")
    /\ UNCHANGED <<recordVars, registryVars, modeVars, jobVars, patch, buildLocals, left,
                   snap, collected, ran, job, clocks, userVars, finished>>

\* The storage is marked dirty before anything of it is deleted.
MarkDirty ==
    /\ pc = "mark"
    /\ wasClean' = ~dirty /\ dirty' = TRUE
    /\ Reply("inventory")
    /\ UNCHANGED <<recordVars, registryVars, desired, serving, jobVars, patch,
                   buildLocals, left, snap, collected, ran, job, clocks, userVars,
                   finished>>

\* Mutant: a retired image goes although an active one shares a part of it.
CollectableShared(b) ==
    /\ rec[b].image = "Retired" /\ b \in aged
    /\ \A t \in Trees : pod[t] \notin ToSet(rec[b].refs)

\* Mutant: a retired image goes although a pod was started from it.
CollectableRunning(b) ==
    /\ rec[b].image = "Retired" /\ b \in aged
    /\ ToSet(rec[b].refs) \cap ActiveRefs = {}

\* The records and the pods are listed side by side, here at one time.
Collectable(b) ==
    /\ rec[b].image = "Retired" /\ b \in aged
    /\ ToSet(rec[b].refs) \cap ActiveRefs = {}
    /\ \A t \in Trees : pod[t] \notin ToSet(rec[b].refs)

Inventory ==
    /\ pc = "inventory" /\ pc' = "collect"
    /\ snap' = Snapshot({b \in Builds : Collectable(b)})
    /\ UNCHANGED <<recordVars, registryVars, modeVars, jobVars, patch, buildLocals,
                   left, passLocals, clocks, userVars, faults, finished>>

\* The next image, oldest first; when one was marked, it counts as collected.
Collect ==
    /\ pc \in {"collect", "counted"}
    /\ collected' = (collected \/ pc = "counted")
    /\ LET rest == IF pc = "counted" THEN Without(snap, build) ELSE snap
       IN  /\ snap' = rest
           /\ \/ \E b \in DOMAIN rest :
                   build' = b /\ left' = rest[b].refs /\ pc' = "delete"
              \/ /\ rest = <<>>
                 /\ build' = Nil /\ left' = <<>> /\ pc' = "settle"
    /\ UNCHANGED <<recordVars, registryVars, modeVars, jobVars, patch, todo, image,
                   wasClean, ran, job, clocks, userVars, faults, finished>>

\* A manifest that is gone already is deleted with success.
DeleteManifest ==
    /\ pc = "delete" /\ left # <<>>
    /\ \/ serving /\ pc' = "giveback" /\ UNCHANGED <<manifests, dropped, left, faults>>
       \/ /\ ~serving
          /\ manifests' = manifests \ {Head(left)}
          /\ dropped' = dropped \cup ({Head(left)} \cap manifests \cap blobs)
          /\ left' = Tail(left)
          /\ Reply("delete")
    /\ UNCHANGED <<recordVars, blobs, overlapped, modeVars, jobVars, patch, buildLocals,
                   snap, passLocals, clocks, userVars, finished>>

MarkCollected ==
    /\ pc = "delete" /\ left = <<>>
    /\ PatchStatus(build, snap[build].phase, "Collected", snap[build].refs, "counted",
                   "giveback")
    /\ UNCHANGED <<left, snap, passLocals>>

\* An image that could not be deleted is retired again, with the error.
GiveBack ==
    /\ pc = "giveback"
    /\ PatchStatus(build, snap[build].phase, "Retired", snap[build].refs, "collect",
                   "check")
    /\ snap' = Without(snap, build)
    /\ UNCHANGED <<left, passLocals>>

\* Mutant: the mark is taken back although an earlier pass has set it.
SettleUnmarked ==
    /\ pc = "settle"
    /\ dirty' = collected
    /\ storageDue' \in (IF collected THEN BOOLEAN ELSE {storageDue})
    /\ Reply("check")
    /\ UNCHANGED <<recordVars, registryVars, desired, serving, jobVars, patch,
                   buildLocals, left, snap, passLocals, imageDue, userVars, finished>>

\* The storage's collection is scheduled for now or for its idle grace; the
\* mark is taken back if nothing was collected.
Settle ==
    /\ pc = "settle"
    /\ IF collected THEN dirty' = TRUE /\ storageDue' \in BOOLEAN
                    ELSE dirty' = (dirty /\ ~wasClean) /\ UNCHANGED storageDue
    /\ Reply("check")
    /\ UNCHANGED <<recordVars, registryVars, desired, serving, jobVars, patch,
                   buildLocals, left, snap, passLocals, imageDue, userVars, finished>>

CollectStep ==
    \/ Look \/ MarkDirty \/ Inventory \/ Collect \/ DeleteManifest \/ MarkCollected
    \/ GiveBack \/ Settle

-----------------------------------------------------------------------------
(* The collection of the registry's storage.                               *)

\* The rest of a step that moves the controller and changes nothing else.
OnlyMoves ==
    UNCHANGED <<recordVars, registryVars, modeVars, jobVars, patch, buildLocals, left,
                snap, passLocals, clocks, userVars, finished>>

\* The clock and the marker.  That the marker is recent or the last collection
\* was only moves the clock.
Check ==
    /\ pc = "check"
    /\ pc' = IF storageDue /\ dirty THEN "idle" ELSE "list"
    /\ storageDue' = FALSE
    /\ build' = Nil /\ left' = <<>> /\ snap' = <<>>
    /\ wasClean' = FALSE /\ collected' = FALSE /\ ran' = FALSE /\ job' = Nil
    /\ UNCHANGED <<recordVars, registryVars, modeVars, jobVars, patch, todo, image,
                   imageDue, userVars, faults, finished>>

AllEnded == \A b \in Builds : ~IsActive(b)

\* buildkit_idle(), before the maintenance is announced and after.
Idle      == pc = "idle" /\ pc' = (IF AllEnded THEN "ready" ELSE "list")
Preflight == pc = "preflight" /\ pc' = (IF AllEnded THEN "disable" ELSE "clear")

\* The Deployment has rolled out what it is set to: before the collection
\* starts, and in _rollout_registry_config().
RolledOut ==
    /\ serving = desired
    /\ \/ pc = "ready" /\ pc' = "preflight"
       \/ pc = "disabled" /\ pc' = "create"
       \/ pc = "restored" /\ pc' = "clear"

SetMode(readOnly, next) ==
    /\ desired' = readOnly /\ Reply(next)
    /\ UNCHANGED <<recordVars, registryVars, serving, dirty, jobVars, patch,
                   buildLocals, left, snap, passLocals, clocks, userVars, finished>>

Disable == pc = "disable" /\ SetMode(TRUE, "disabled")
Restore == pc = "restore" /\ SetMode(FALSE, "restored")

CreateJob ==
    /\ pc = "create"
    /\ \E j \in Jobs : /\ jobs[j] = "none"
                       /\ jobs' = [jobs EXCEPT ![j] = "created"]
                       /\ job' = j
    /\ Reply("wait")
    /\ UNCHANGED <<recordVars, registryVars, modeVars, keep, patch, buildLocals, left,
                   snap, wasClean, collected, ran, clocks, userVars, finished>>

\* Mutant: only a collection that failed is followed by the restoration.
WaitJobOnly ==
    /\ pc = "wait" /\ jobs[job] = "done" /\ pc' = "clear"
    /\ ran' = TRUE
    /\ UNCHANGED <<recordVars, registryVars, modeVars, jobVars, patch, buildLocals,
                   left, snap, wasClean, collected, job, clocks, userVars, faults,
                   finished>>

WaitJob ==
    /\ pc = "wait" /\ jobs[job] = "done" /\ pc' = "restore"
    /\ ran' = TRUE
    /\ UNCHANGED <<recordVars, registryVars, modeVars, jobVars, patch, buildLocals,
                   left, snap, wasClean, collected, job, clocks, userVars, faults,
                   finished>>

\* The maintenance is no longer announced.
ClearNotice == pc = "clear" /\ pc' = (IF ran THEN "undirty" ELSE "list")

Undirty ==
    /\ pc = "undirty" /\ dirty' = FALSE /\ Reply("list")
    /\ UNCHANGED <<recordVars, registryVars, desired, serving, jobVars, patch,
                   buildLocals, left, snap, passLocals, clocks, userVars, finished>>

SweepStep ==
    \/ Check \/ Disable \/ Restore \/ CreateJob \/ WaitJob \/ Undirty
    \/ (Idle \/ Preflight \/ RolledOut \/ ClearNotice) /\ OnlyMoves /\ UNCHANGED faults

ControllerStep == BuildStep \/ PatchLabel \/ CollectStep \/ SweepStep

-----------------------------------------------------------------------------
(* The registry and its collection jobs: mark what the manifests refer to, *)
(* delete the rest; a job that is done is deleted after its time to live.  *)

Roll ==
    /\ serving # desired /\ serving' = desired
    /\ UNCHANGED <<recordVars, registryVars, desired, dirty, jobVars, ctlVars, userVars,
                   faults, finished>>

JobMark(j) ==
    /\ jobs[j] = "created" /\ jobs' = [jobs EXCEPT ![j] = "marked"]
    /\ keep' = [keep EXCEPT ![j] = manifests]
    /\ UNCHANGED <<recordVars, registryVars, modeVars, ctlVars, userVars, faults,
                   finished>>

JobSweep(j) ==
    /\ jobs[j] = "marked" /\ jobs' = [jobs EXCEPT ![j] = "done"]
    /\ blobs' = blobs \cap keep[j] /\ dropped' = dropped \cap keep[j]
    /\ keep' = [keep EXCEPT ![j] = {}]
    /\ UNCHANGED <<recordVars, manifests, overlapped, modeVars, ctlVars, userVars,
                   faults, finished>>

JobGone(j) ==
    /\ jobs[j] = "done" /\ (pc = "wait" => job # j)
    /\ jobs' = [jobs EXCEPT ![j] = "none"]
    /\ UNCHANGED <<recordVars, registryVars, modeVars, keep, ctlVars, userVars, faults,
                   finished>>

JobStep(j) == JobMark(j) \/ JobSweep(j) \/ JobGone(j)

-----------------------------------------------------------------------------
(* Time, users and their commands.                                         *)

\* A clock comes due, or an image of age, at any time; the controller sees it
\* where it looks, and so it happens there.
TimeFrame == UNCHANGED <<rec, registryVars, modeVars, jobVars, pc, patch, buildLocals,
                         left, snap, passLocals, userVars, faults, finished>>

ImagesDue ==
    /\ pc = "look" /\ ~imageDue /\ imageDue' = TRUE
    /\ UNCHANGED <<aged, storageDue>> /\ TimeFrame

StorageDue ==
    /\ pc = "check" /\ ~storageDue /\ storageDue' = TRUE
    /\ UNCHANGED <<aged, imageDue>> /\ TimeFrame

\* The grace, a day, is longer than a command that has read the record.
Age(b) ==
    /\ pc = "look" /\ rec[b].image = "Retired" /\ b \notin aged \cup DOMAIN cli.snap
    /\ aged' = aged \cup {b} /\ UNCHANGED clocks /\ TimeFrame

UserFrame == UNCHANGED <<aged, registryVars, jobVars, serving, dirty, ctlVars, finished>>

\* As with the clocks: a request is submitted, and a pod stops, at any time, and
\* is seen by the next list.
Submit(b) ==
    /\ rec[b].phase = "absent" /\ pc \in {"list", "idle", "preflight"}
    /\ rec' = [rec EXCEPT ![b].phase = "Pending"]
    /\ UNCHANGED <<desired, pod, cli, faults>> /\ UserFrame

\* A workload is materialised from the worktree's active image, or from that of
\* a build that was waited for, which may be unlabelled yet; that it is retired
\* before the pod starts is left out, and so is a pod that Kubernetes starts from
\* an older template.
Materialise(t) ==
    /\ \E b \in Builds :
        /\ TreeOf[b] = t /\ rec[b].phase = "Succeeded" /\ rec[b].image = "Active"
        /\ pod' = [pod EXCEPT ![t] = Head(rec[b].refs)]
    /\ UNCHANGED <<rec, desired, cli, faults>> /\ UserFrame

StopPod(t) ==
    /\ pc = "inventory" /\ pod[t] # Nil /\ pod' = [pod EXCEPT ![t] = Nil]
    /\ UNCHANGED <<rec, desired, cli, faults>> /\ UserFrame

\* `bertrand init` converges the registry, which makes it writable.
Converge ==
    /\ desired /\ Fault /\ desired' = FALSE
    /\ UNCHANGED <<rec, pod, cli>> /\ UserFrame

\* remove_project_workload(): the workload goes, then its images are retired
\* from what the list has returned, each as the controller does it.
Cli(records, b) == IF records = <<>> /\ b = Nil THEN NoCli
                   ELSE [snap |-> records, on |-> b]

RemoveWorkload(t) ==
    /\ cli = NoCli /\ LabelledActive(t) # {} /\ Fault
    /\ pod' = [pod EXCEPT ![t] = Nil]
    /\ cli' = Cli(Snapshot(LabelledActive(t)), Nil)
    /\ UNCHANGED <<rec, desired>> /\ UserFrame

CliRetire ==
    /\ cli.on = Nil
    /\ \E b \in DOMAIN cli.snap :
        /\ rec' = [rec EXCEPT ![b].phase = cli.snap[b].phase, ![b].image = "Retired",
                              ![b].refs = cli.snap[b].refs]
        /\ cli' = Cli(Without(cli.snap, b), IF rec[b].label = "Retired" THEN Nil ELSE b)
    /\ UNCHANGED <<desired, pod, faults>> /\ UserFrame

CliLabel ==
    /\ cli.on # Nil
    /\ rec' = [rec EXCEPT ![cli.on].label = "Retired"]
    /\ cli' = Cli(cli.snap, Nil)
    /\ UNCHANGED <<desired, pod, faults>> /\ UserFrame

\* The command fails or is stopped.
CliEnds ==
    /\ cli # NoCli /\ cli' = NoCli
    /\ UNCHANGED <<rec, desired, pod, faults>> /\ UserFrame

UserStep ==
    \/ \E b \in Builds : Submit(b) \/ Age(b)
    \/ \E t \in Trees : Materialise(t) \/ StopPod(t) \/ RemoveWorkload(t)
    \/ Converge \/ CliRetire \/ CliLabel \/ CliEnds

BuildNext ==
    \/ ControllerStep \/ CallFails \/ PassExpires \/ ControllerDies
    \/ Roll \/ (\E j \in Jobs : JobStep(j)) \/ ImagesDue \/ StorageDue \/ UserStep

\* The event loop runs, Kubernetes rolls out and runs its jobs, and time passes.
BuildFairness ==
    /\ WF_buildVars(ControllerStep) /\ WF_buildVars(Roll)
    /\ SF_buildVars(StorageDue) /\ \A j \in Jobs : WF_buildVars(JobStep(j))

BuildSpec == BuildInit /\ [][BuildNext]_buildVars
-----------------------------------------------------------------------------
(* Properties.                                                             *)

\* The records and the history of them.
RecordTypes ==
    /\ rec \in [Builds -> Records] /\ aged \subseteq Builds /\ finished \subseteq Builds

\* The registry, its mode and its collection jobs.
RegistryTypes ==
    /\ manifests \subseteq Refs /\ blobs \subseteq Refs /\ dropped \subseteq Refs
    /\ overlapped \in BOOLEAN
    /\ desired \in BOOLEAN /\ serving \in BOOLEAN /\ dirty \in BOOLEAN
    /\ jobs \in [Jobs -> JobStates] /\ keep \in [Jobs -> SUBSET Refs]

\* Where the controller stands, and its locals.
ControlTypes ==
    /\ pc \in Steps
    /\ patch = NoPatch \/ (pc = "label" /\ patch.on \in Builds
                           /\ {patch.next, patch.error} \subseteq Steps)
LocalTypes ==
    /\ todo \subseteq Builds /\ image \in Images \cup {<<>>} /\ left \in Seq(Refs)
    /\ snap \in [DOMAIN snap -> Records] /\ DOMAIN snap \subseteq Builds
    /\ build \in Builds \cup {Nil} /\ job \in Jobs \cup {Nil}
    /\ wasClean \in BOOLEAN /\ collected \in BOOLEAN /\ ran \in BOOLEAN
    /\ imageDue \in BOOLEAN /\ storageDue \in BOOLEAN

\* The pods and the command that removes a workload.
UserTypes ==
    /\ pod \in [Trees -> Refs \cup {Nil}] /\ faults \in 0..MaxFaults
    /\ cli.snap \in [DOMAIN cli.snap -> Records] /\ DOMAIN cli.snap \subseteq Builds
    /\ cli.on \in Builds \cup {Nil}

BuildTypeOK ==
    RecordTypes /\ RegistryTypes /\ ControlTypes /\ LocalTypes /\ UserTypes

\* The variables keep their types, and what an Active record refers to is in
\* the registry, whatever part of an older image it shares, and however often
\* retirements and collections fail.
ActivePublished == BuildTypeOK /\ ActiveRefs \subseteq manifests

\* The blobs under an Active image survive every collection of the storage,
\* unless something was pushed while a collection job was running, which the
\* read-only registry is to prevent.
ActiveIntact == overlapped \/ ActiveRefs \subseteq blobs

\* The image a running pod was started from is not deleted under it, although
\* its record may be retired and old.
PodsKeepImages == \A t \in Trees : pod[t] # Nil => pod[t] \in manifests

\* A registry that is set read-only is marked dirty, the one condition under
\* which a later pass comes to restore it: a pass that expires half way leaves
\* it read-only.
ReadOnlyIsMarked == desired => dirty

\* What was deleted from the registry and still takes up storage is marked, or
\* an image that is still retired, and will be collected again, refers to it.
GarbageIsMarked ==
    dropped # {} /\ ~dirty =>
        \A ref \in dropped : \E b \in Builds :
            rec[b].image = "Retired" /\ ref \in ToSet(rec[b].refs)

\* Of the builds of a worktree that were reconciled to the end, at most one is
\* Active, although crashes and removals leave any mix of records behind.
OneFinishedActive ==
    \A b, c \in finished :
        TreeOf[b] = TreeOf[c] /\ rec[b].image = "Active" /\ rec[c].image = "Active"
            => b = c


\* A registry that is read-only becomes writable again.
WritableAgain == []<>~serving
=============================================================================
