----------------------- MODULE BuildControllerProofs -----------------------
(***************************************************************************)
(* Proofs about BuildController, for every set of builds, worktrees,       *)
(* images and collection jobs and every number of faults.                  *)
(*                                                                         *)
(* MarkedInv follows the mark of the registry through the control flow:    *)
(* between the check for the mark and the restoration it stays, and it is  *)
(* taken back only where the registry has been made writable, or where the *)
(* pass that takes it back has set it.                                     *)
(*                                                                         *)
(* ImageInv says that the registry holds the refs in use, those of the     *)
(* Active records and of the pods.  It is kept because a record becomes    *)
(* Active only at the end of pushes that have left every ref of the image  *)
(* in the registry, and because what a collection deletes stays out of use *)
(* from its inventory on, whatever users do beside it.  Between the pushes *)
(* and the record, and between the inventory and the deletion, the         *)
(* controller holds what it knows in its locals; Fit says what it knows at *)
(* each of its steps.                                                      *)
(***************************************************************************)
EXTENDS BuildController, TLAPS

\* The controller is between the check for the mark and the restoration.
SweepsMarked == pc \in Sweeping => dirty /\ ~ran /\ ~wasClean

\* Where the restoration has been asked for, and where the mark is taken back.
RestoresWritable ==
    /\ pc \in {"restored", "undirty"} => ~desired
    /\ pc = "clear" /\ ran => ~desired

\* A pass that has found the storage clean has found the registry writable.
CleanIsWritable == wasClean => ~desired

\* No status patch is followed by a step of the storage's collection.
PatchesElsewhere ==
    /\ patch.next \notin Sweeping \cup Restoring
    /\ patch.error \notin Sweeping \cup Restoring

MarkedInv ==
    ReadOnlyIsMarked /\ SweepsMarked /\ RestoresWritable /\ CleanIsWritable
        /\ PatchesElsewhere

-----------------------------------------------------------------------------
(* Steps by what they do to the variables of the invariant.                *)

LEMMA MarkedStays ==
  ASSUME MarkedInv, UNCHANGED <<pc, desired, dirty, wasClean, ran, patch>>
  PROVE  MarkedInv'
  BY DEF MarkedInv, ReadOnlyIsMarked, SweepsMarked, RestoresWritable, CleanIsWritable,
         PatchesElsewhere

\* A step that does not enter the storage's collection.
LEMMA MarkedMoves ==
  ASSUME MarkedInv, UNCHANGED <<desired, dirty, wasClean, ran, patch>>,
         pc' \notin Sweeping, pc' \notin {"restored", "clear", "undirty"}
  PROVE  MarkedInv'
  BY DEF MarkedInv, ReadOnlyIsMarked, SweepsMarked, RestoresWritable, CleanIsWritable,
         PatchesElsewhere

\* An exception that is caught does not enter it either, and leads to the end
\* of the maintenance only from its beginning.
LEMMA HandlerLeaves ==
  ASSUME PatchesElsewhere
  PROVE  /\ Handler \notin Sweeping /\ Handler \notin {"restored", "undirty"}
         /\ Handler = "clear" => pc = "preflight"
  BY DEF Handler, PatchesElsewhere, Sweeping, Restoring, Reconciling, Collecting

LEMMA NoPatchElsewhere ==
  /\ NoPatch.next \notin Sweeping \cup Restoring
  /\ NoPatch.error \notin Sweeping \cup Restoring
  BY DEF NoPatch, Sweeping, Restoring

\* The call's answer arrives or is lost.
LEMMA MarkedReplies ==
  ASSUME MarkedInv, NEW next, Reply(next), pc # "preflight",
         next \notin Sweeping, next \notin {"restored", "clear", "undirty"},
         UNCHANGED <<desired, dirty, wasClean, ran, patch>>
  PROVE  MarkedInv'
  <1>1. pc' = next \/ pc' = Handler
    BY DEF Reply
  <1>2. PatchesElsewhere
    BY DEF MarkedInv
  <1> QED
    BY <1>1, <1>2, HandlerLeaves, MarkedMoves

\* The patch of a status.
LEMMA MarkedPatches ==
  ASSUME MarkedInv, NEW b, NEW phase, NEW phaseOfImage, NEW refs, NEW next, NEW error,
         PatchStatus(b, phase, phaseOfImage, refs, next, error),
         next \notin Sweeping \cup Restoring, error \notin Sweeping \cup Restoring,
         UNCHANGED <<wasClean, ran>>
  PROVE  MarkedInv'
  <1>1. UNCHANGED <<desired, dirty>>
    BY DEF PatchStatus, modeVars
  <1>2. CASE UNCHANGED patch /\ pc' \in {next, error}
    <2>1. pc' \notin Sweeping /\ pc' \notin {"restored", "clear", "undirty"}
      BY <1>2 DEF Restoring
    <2> QED
      BY <1>1, <1>2, <2>1, MarkedMoves
  <1>3. CASE /\ pc' = "label"
             /\ patch' = [on |-> b, want |-> phaseOfImage, next |-> next,
                          error |-> error]
    <2>1. patch'.next = next /\ patch'.error = error
      BY <1>3
    <2>2. PatchesElsewhere'
      BY <2>1 DEF PatchesElsewhere, Sweeping, Restoring
    <2>3. pc' \notin Sweeping /\ pc' \notin {"restored", "clear", "undirty"}
      BY <1>3 DEF Sweeping
    <2> QED
      BY <1>1, <2>2, <2>3 DEF MarkedInv, ReadOnlyIsMarked, SweepsMarked,
         RestoresWritable, CleanIsWritable
  <1> QED
    BY <1>2, <1>3 DEF PatchStatus

-----------------------------------------------------------------------------
(* The steps of the controller, one by one.                                *)

LEMMA MarkedBuildStep ==
  ASSUME MarkedInv, BuildStep
  PROVE  MarkedInv'
  <1> USE DEF modeVars, passLocals, buildLocals, Sweeping, Restoring
  <1>1. CASE ListBuilds
    BY <1>1 DEF ListBuilds, MarkedInv, ReadOnlyIsMarked, SweepsMarked, RestoresWritable,
       CleanIsWritable, PatchesElsewhere
  <1>2. CASE NextBuild
    BY <1>2, MarkedMoves DEF NextBuild
  <1>3. CASE RunBuild
    BY <1>3, MarkedPatches DEF RunBuild
  <1>4. CASE StartJobs
    BY <1>4, MarkedMoves DEF StartJobs
  <1>5. CASE UploadBlobs
    <2>1. UNCHANGED <<desired, dirty, wasClean, ran, patch>>
      BY <1>5 DEF UploadBlobs, Pushing
    <2>2. CASE pc' = "failing"
      BY <2>1, <2>2, MarkedMoves
    <2>3. CASE pc = "upload" /\ Reply("put")
      BY <2>1, <2>3, MarkedReplies
    <2> QED
      BY <1>5, <2>2, <2>3 DEF UploadBlobs
  <1>6. CASE PutManifest
    <2>1. UNCHANGED <<desired, dirty, wasClean, ran, patch>>
      BY <1>6 DEF PutManifest, Pushing
    <2>2. CASE pc' = "failing"
      BY <2>1, <2>2, MarkedMoves
    <2>3. CASE pc = "put" /\ Reply(IF Len(left) = 1 THEN "succeed" ELSE "upload")
      <3> DEFINE next == IF Len(left) = 1 THEN "succeed" ELSE "upload"
      <3>1. next \in {"succeed", "upload"}
        OBVIOUS
      <3> HIDE DEF next
      <3> QED
        BY <2>1, <2>3, <3>1, MarkedReplies DEF next
    <2> QED
      BY <1>6, <2>2, <2>3 DEF PutManifest
  <1>7. CASE MarkSucceeded
    BY <1>7, MarkedPatches DEF MarkSucceeded
  <1>8. CASE ListRetirements
    BY <1>8, MarkedMoves DEF ListRetirements
  <1>9. CASE RetireImage
    <2>1. PICK b \in DOMAIN snap :
            PatchStatus(b, snap[b].phase, "Retired", snap[b].refs, "retiring", "failing")
      BY <1>9 DEF RetireImage
    <2> QED
      BY <1>9, <2>1, MarkedPatches DEF RetireImage
  <1>10. CASE FinishBuild
    BY <1>10, MarkedMoves DEF FinishBuild
  <1>11. CASE MarkFailed
    BY <1>11, MarkedPatches DEF MarkFailed
  <1> QED
    BY <1>1, <1>2, <1>3, <1>4, <1>5, <1>6, <1>7, <1>8, <1>9, <1>10, <1>11 DEF BuildStep

LEMMA MarkedLabel ==
  ASSUME MarkedInv, PatchLabel
  PROVE  MarkedInv'
  <1>1. UNCHANGED <<desired, dirty, wasClean, ran>>
    BY DEF PatchLabel, modeVars, passLocals
  <1>2. pc' \in {patch.next, Handler} /\ patch' = NoPatch /\ pc = "label"
    BY DEF PatchLabel, Reply
  <1>3. pc' \notin Sweeping /\ pc' \notin {"restored", "clear", "undirty"}
    BY <1>2, HandlerLeaves DEF MarkedInv, PatchesElsewhere, Restoring
  <1>4. PatchesElsewhere'
    BY <1>2, NoPatchElsewhere DEF PatchesElsewhere, Sweeping, Restoring
  <1> QED
    BY <1>1, <1>3, <1>4 DEF MarkedInv, ReadOnlyIsMarked, SweepsMarked, RestoresWritable,
       CleanIsWritable

LEMMA MarkedCollectStep ==
  ASSUME MarkedInv, CollectStep
  PROVE  MarkedInv'
  <1> USE DEF modeVars, passLocals, buildLocals, Sweeping, Restoring
  <1>1. CASE Look
    BY <1>1, MarkedMoves DEF Look
  <1>2. CASE MarkDirty
    <2>1. /\ UNCHANGED <<desired, ran, patch>> /\ wasClean' = ~dirty /\ dirty' = TRUE
          /\ pc = "mark" /\ pc' \in {"inventory", Handler}
      BY <1>2 DEF MarkDirty, Reply
    <2>2. pc' \notin Sweeping /\ pc' \notin {"restored", "clear", "undirty"}
      BY <2>1, HandlerLeaves DEF MarkedInv
    <2> QED
      BY <2>1, <2>2 DEF MarkedInv, ReadOnlyIsMarked, SweepsMarked, RestoresWritable,
         CleanIsWritable, PatchesElsewhere
  <1>3. CASE Inventory
    BY <1>3, MarkedMoves DEF Inventory
  <1>4. CASE Collect
    <2>1. UNCHANGED <<desired, dirty, wasClean, ran, patch>>
      BY <1>4 DEF Collect
    <2>2. pc' \in {"delete", "settle"}
      BY <1>4 DEF Collect
    <2> QED
      BY <2>1, <2>2, MarkedMoves
  <1>5. CASE DeleteManifest
    <2>1. UNCHANGED <<desired, dirty, wasClean, ran, patch>>
      BY <1>5 DEF DeleteManifest
    <2>2. CASE pc' = "giveback"
      BY <2>1, <2>2, MarkedMoves
    <2>3. CASE pc = "delete" /\ Reply("delete")
      BY <2>1, <2>3, MarkedReplies
    <2> QED
      BY <1>5, <2>2, <2>3 DEF DeleteManifest
  <1>6. CASE MarkCollected
    BY <1>6, MarkedPatches DEF MarkCollected
  <1>7. CASE GiveBack
    BY <1>7, MarkedPatches DEF GiveBack
  <1>8. CASE Settle
    <2>1. /\ UNCHANGED <<desired, wasClean, ran, patch>>
          /\ dirty' = TRUE \/ dirty' = (dirty /\ ~wasClean)
          /\ pc = "settle" /\ pc' \in {"check", Handler}
      BY <1>8 DEF Settle, Reply
    <2>2. pc' \notin Sweeping /\ pc' \notin {"restored", "clear", "undirty"}
      BY <2>1, HandlerLeaves DEF MarkedInv
    <2> QED
      BY <2>1, <2>2 DEF MarkedInv, ReadOnlyIsMarked, SweepsMarked, RestoresWritable,
         CleanIsWritable, PatchesElsewhere
  <1> QED
    BY <1>1, <1>2, <1>3, <1>4, <1>5, <1>6, <1>7, <1>8 DEF CollectStep

\* Where the mark is read, kept, needed and taken back.
LEMMA MarkedSweepStep ==
  ASSUME MarkedInv, SweepStep
  PROVE  MarkedInv'
  <1> USE DEF modeVars, passLocals, buildLocals, Sweeping, Restoring
  <1>1. CASE Check
    BY <1>1 DEF Check, MarkedInv, ReadOnlyIsMarked, SweepsMarked, RestoresWritable,
       CleanIsWritable, PatchesElsewhere
  <1>2. CASE Disable
    <2>1. /\ UNCHANGED <<dirty, wasClean, ran, patch>> /\ desired' = TRUE
          /\ pc = "disable" /\ pc' \in {"disabled", Handler}
      BY <1>2 DEF Disable, SetMode, Reply
    <2>2. dirty /\ ~ran /\ ~wasClean
      BY <2>1 DEF MarkedInv, SweepsMarked
    <2>3. pc' \notin {"restored", "clear", "undirty"}
      BY <2>1, HandlerLeaves DEF MarkedInv
    <2> QED
      BY <2>1, <2>2, <2>3 DEF MarkedInv, ReadOnlyIsMarked, SweepsMarked,
         RestoresWritable, CleanIsWritable, PatchesElsewhere
  <1>3. CASE Restore
    <2>1. /\ UNCHANGED <<dirty, wasClean, ran, patch>> /\ desired' = FALSE
          /\ pc = "restore" /\ pc' \in {"restored", Handler}
      BY <1>3 DEF Restore, SetMode, Reply
    <2>2. pc' \notin Sweeping
      BY <2>1, HandlerLeaves DEF MarkedInv
    <2> QED
      BY <2>1, <2>2 DEF MarkedInv, ReadOnlyIsMarked, SweepsMarked,
         RestoresWritable, CleanIsWritable, PatchesElsewhere
  <1>4. CASE CreateJob
    <2>1. /\ UNCHANGED <<desired, dirty, wasClean, ran, patch>>
          /\ pc = "create" /\ pc' \in {"wait", Handler}
      BY <1>4 DEF CreateJob, Reply
    <2>2. pc' \notin {"restored", "clear", "undirty"}
      BY <2>1, HandlerLeaves DEF MarkedInv
    <2> QED
      BY <2>1, <2>2 DEF MarkedInv, ReadOnlyIsMarked, SweepsMarked,
         RestoresWritable, CleanIsWritable, PatchesElsewhere
  <1>5. CASE WaitJob
    BY <1>5 DEF WaitJob, MarkedInv, ReadOnlyIsMarked, SweepsMarked,
         RestoresWritable, CleanIsWritable, PatchesElsewhere
  <1>6. CASE Undirty
    <2>1. /\ UNCHANGED <<desired, wasClean, ran, patch>> /\ dirty' = FALSE
          /\ pc = "undirty" /\ pc' \in {"list", Handler}
      BY <1>6 DEF Undirty, Reply
    <2>2. ~desired
      BY <2>1 DEF MarkedInv, RestoresWritable
    <2>3. pc' \notin Sweeping /\ pc' \notin {"restored", "undirty", "clear"}
      BY <2>1, HandlerLeaves DEF MarkedInv
    <2> QED
      BY <2>1, <2>2, <2>3 DEF MarkedInv, ReadOnlyIsMarked, SweepsMarked,
         RestoresWritable, CleanIsWritable, PatchesElsewhere
  <1>7. CASE (Idle \/ Preflight \/ RolledOut \/ ClearNotice) /\ OnlyMoves
    <2>1. UNCHANGED <<desired, dirty, wasClean, ran, patch>>
      BY <1>7 DEF OnlyMoves
    <2>2. \/ pc \in Sweeping /\ pc' \in Sweeping \cup {"list", "clear"}
          \/ pc = "restored" /\ pc' = "clear"
          \/ pc = "clear" /\ pc' = (IF ran THEN "undirty" ELSE "list")
      BY <1>7 DEF Idle, Preflight, RolledOut, ClearNotice
    <2>3. CASE pc \in Sweeping /\ pc' \in Sweeping \cup {"list", "clear"}
      BY <2>1, <2>3 DEF MarkedInv, ReadOnlyIsMarked, SweepsMarked,
         RestoresWritable, CleanIsWritable, PatchesElsewhere
    <2>4. CASE pc = "restored" /\ pc' = "clear"
      BY <2>1, <2>4 DEF MarkedInv, ReadOnlyIsMarked, SweepsMarked,
         RestoresWritable, CleanIsWritable, PatchesElsewhere
    <2>5. CASE pc = "clear" /\ pc' = (IF ran THEN "undirty" ELSE "list")
      BY <2>1, <2>5 DEF MarkedInv, ReadOnlyIsMarked, SweepsMarked,
         RestoresWritable, CleanIsWritable, PatchesElsewhere
    <2> QED
      BY <2>2, <2>3, <2>4, <2>5
  <1> QED
    BY <1>1, <1>2, <1>3, <1>4, <1>5, <1>6, <1>7 DEF SweepStep

-----------------------------------------------------------------------------
(* What disturbs the controller, and the steps of the others.              *)

LEMMA MarkedFaults ==
  ASSUME MarkedInv, CallFails \/ PassExpires \/ ControllerDies
  PROVE  MarkedInv'
  <1> USE DEF modeVars, passLocals, buildLocals
  <1>1. CASE CallFails
    <2>1. UNCHANGED <<desired, dirty, wasClean, ran>> /\ pc' = Handler /\ patch' = NoPatch
      BY <1>1 DEF CallFails
    <2>2. /\ pc' \notin Sweeping /\ pc' \notin {"restored", "undirty"}
          /\ pc' = "clear" => pc \in Sweeping
      BY <2>1, HandlerLeaves DEF MarkedInv, Sweeping
    <2>3. PatchesElsewhere'
      BY <2>1, NoPatchElsewhere DEF PatchesElsewhere, Sweeping, Restoring
    <2> QED
      BY <2>1, <2>2, <2>3 DEF MarkedInv, ReadOnlyIsMarked, SweepsMarked,
         RestoresWritable, CleanIsWritable
  <1>2. CASE PassExpires
    <2>1. UNCHANGED <<desired, dirty, wasClean, ran, patch>> /\ pc' \in {"check", "list"}
      BY <1>2 DEF PassExpires
    <2> QED
      BY <2>1, MarkedMoves DEF Sweeping
  <1>3. CASE ControllerDies
    <2>1. /\ UNCHANGED <<desired, dirty>> /\ wasClean' = FALSE /\ ran' = FALSE
          /\ pc' = "restore" /\ patch' = NoPatch
      BY <1>3 DEF ControllerDies
    <2>2. PatchesElsewhere'
      BY <2>1, NoPatchElsewhere DEF PatchesElsewhere, Sweeping, Restoring
    <2> QED
      BY <2>1, <2>2 DEF MarkedInv, ReadOnlyIsMarked, SweepsMarked, RestoresWritable,
         CleanIsWritable, Sweeping
  <1> QED
    BY <1>1, <1>2, <1>3

\* The others may make the registry writable, and leave the rest alone.
LEMMA MarkedOthers ==
  ASSUME MarkedInv,
         Roll \/ (\E j \in Jobs : JobStep(j)) \/ ImagesDue \/ StorageDue \/ UserStep
  PROVE  MarkedInv'
  <1> USE DEF ctlVars, modeVars, passLocals, buildLocals
  <1>1. UNCHANGED <<pc, dirty, wasClean, ran, patch>>
    <2>1. CASE Roll \/ \E j \in Jobs : JobStep(j)
      BY <2>1 DEF Roll, JobStep, JobMark, JobSweep, JobGone
    <2>2. CASE ImagesDue \/ StorageDue \/ \E b \in Builds : Age(b)
      BY <2>2 DEF ImagesDue, StorageDue, Age, TimeFrame
    <2>3. CASE (\E b \in Builds : Submit(b)) \/ Converge \/ CliRetire \/ CliLabel
               \/ CliEnds
      BY <2>3 DEF Submit, Converge, CliRetire, CliLabel, CliEnds, UserFrame
    <2>4. CASE \E t \in Trees : Materialise(t) \/ StopPod(t) \/ RemoveWorkload(t)
      BY <2>4 DEF Materialise, StopPod, RemoveWorkload, UserFrame
    <2> QED
      BY <2>1, <2>2, <2>3, <2>4 DEF UserStep
  <1>2. desired' = desired \/ desired' = FALSE
    <2>1. CASE Roll \/ \E j \in Jobs : JobStep(j)
      BY <2>1 DEF Roll, JobStep, JobMark, JobSweep, JobGone
    <2>2. CASE ImagesDue \/ StorageDue \/ \E b \in Builds : Age(b)
      BY <2>2 DEF ImagesDue, StorageDue, Age, TimeFrame
    <2>3. CASE (\E b \in Builds : Submit(b)) \/ Converge \/ CliRetire \/ CliLabel
               \/ CliEnds
      BY <2>3 DEF Submit, Converge, CliRetire, CliLabel, CliEnds
    <2>4. CASE \E t \in Trees : Materialise(t) \/ StopPod(t) \/ RemoveWorkload(t)
      BY <2>4 DEF Materialise, StopPod, RemoveWorkload
    <2> QED
      BY <2>1, <2>2, <2>3, <2>4 DEF UserStep
  <1> QED
    BY <1>1, <1>2 DEF MarkedInv, ReadOnlyIsMarked, SweepsMarked, RestoresWritable,
       CleanIsWritable, PatchesElsewhere

-----------------------------------------------------------------------------
LEMMA MarkedInit == BuildInit => MarkedInv
  BY NoPatchElsewhere DEF BuildInit, MarkedInv, ReadOnlyIsMarked, SweepsMarked,
     RestoresWritable, CleanIsWritable, PatchesElsewhere, Sweeping

LEMMA MarkedNext == MarkedInv /\ [BuildNext]_buildVars => MarkedInv'
  <1> SUFFICES ASSUME MarkedInv, [BuildNext]_buildVars
               PROVE  MarkedInv'
    OBVIOUS
  <1>1. CASE ControllerStep
    BY <1>1, MarkedBuildStep, MarkedLabel, MarkedCollectStep, MarkedSweepStep
       DEF ControllerStep
  <1>2. CASE CallFails \/ PassExpires \/ ControllerDies
    BY <1>2, MarkedFaults
  <1>3. CASE Roll \/ (\E j \in Jobs : JobStep(j)) \/ ImagesDue \/ StorageDue \/ UserStep
    BY <1>3, MarkedOthers
  <1>4. CASE UNCHANGED buildVars
    <2>1. UNCHANGED <<pc, desired, dirty, wasClean, ran, patch>>
      BY <1>4 DEF buildVars, ctlVars, modeVars, passLocals
    <2> QED
      BY <2>1, MarkedStays
  <1> QED
    BY <1>1, <1>2, <1>3, <1>4 DEF BuildNext

\* A registry that is set read-only, by a collection of its storage, is marked
\* dirty until it has been made writable again (controller.py:341-442): so a
\* pass that was cut short, at whatever call, is taken up by a later one.
THEOREM ReadOnlyStaysMarked == BuildSpec => []ReadOnlyIsMarked
  <1>1. MarkedInv => ReadOnlyIsMarked
    BY DEF MarkedInv
  <1> QED
    BY <1>1, MarkedInit, MarkedNext, PTL DEF BuildSpec

-----------------------------------------------------------------------------
(* The images: the refs in use are in the registry.                        *)

\* What the Active records refer to, and what pods were started from.
UsedRefs == ActiveRefs \cup ({pod[t] : t \in Trees} \ {Nil})

Unused(refs) == ToSet(refs) \cap UsedRefs = {}

\* Nothing of the images that were read for deletion is in use.
SnapUnused == \A b \in DOMAIN snap : Unused(snap[b].refs)

Deleting == {"collect", "counted", "delete", "giveback"}

\* The steps the controller can take with the locals it has.
Fit ==
    {s \in Steps \ {"label"} :
        /\ s \in Reconciling \cup {"failing"} => build \in Builds
        /\ s \in {"upload", "put"} =>
              left # <<>> /\ image \in Images
                  /\ ToSet(image) \subseteq manifests \cup ToSet(left)
        /\ s = "succeed" => image \in Images /\ ToSet(image) \subseteq manifests
        /\ s \in Deleting => SnapUnused
        /\ s \in Deleting \ {"collect"} => build \in DOMAIN snap
        /\ s = "delete" => Unused(left)}

\* The steps that need nothing of the locals.
Free == Steps \ (Reconciling \cup Deleting \cup {"failing", "label"})

\* The next step is one the controller can take, and so are the two that may
\* follow the patch of a label.
Control ==
    \/ pc \in Fit /\ patch = NoPatch
    \/ pc = "label" /\ patch \in [on : Builds, want : ImagePhases, next : Fit, error : Fit]

\* No Active record is without an image.
ActiveImages == \A b \in Builds : rec[b].image = "Active" => rec[b].refs \in Images

ImageInv == BuildTypeOK /\ Control /\ ActiveImages /\ UsedRefs \subseteq manifests
-----------------------------------------------------------------------------
(* Sequences of refs.                                                      *)

LEMMA ImageFacts ==
  ASSUME NEW i \in Images
  PROVE  i # <<>> /\ i \in Seq(Refs) /\ ToSet(i) \subseteq Refs
  <1>1. ToSet(i) \subseteq Refs
    BY DEF Refs
  <1>2. i # <<>> /\ i \in Seq(ToSet(i))
    BY ImageAssumption
  <1> QED
    BY <1>1, <1>2

LEMMA RefsFacts == \A refs \in Images \cup {<<>>} : refs \in Seq(Refs)
  <1>1. <<>> \in Seq(Refs)
    OBVIOUS
  <1> QED
    BY <1>1, ImageFacts

LEMMA NoSnapshot ==
  <<>> \in Seq(Refs) /\ <<>> \in [DOMAIN <<>> -> Records] /\ DOMAIN <<>> \subseteq Builds
  OBVIOUS

LEMMA HeadAndTail ==
  ASSUME NEW S, NEW s \in Seq(S), s # <<>>
  PROVE  /\ Tail(s) \in Seq(S) /\ Head(s) \in ToSet(s) /\ Head(s) \in S
         /\ ToSet(s) = ToSet(Tail(s)) \cup {Head(s)}
         /\ Len(s) = 1 => Tail(s) = <<>>
         /\ Len(s) # 1 => Tail(s) # <<>>
  <1>1. /\ Len(s) \in Nat \ {0} /\ DOMAIN s = 1..Len(s) /\ Head(s) = s[1]
        /\ Len(Tail(s)) = Len(s) - 1 /\ Tail(s) \in Seq(S)
        /\ DOMAIN Tail(s) = 1..(Len(s) - 1)
        /\ \A k \in 1..(Len(s) - 1) : Tail(s)[k] = s[k + 1]
    OBVIOUS
  <1>2. ToSet(s) \subseteq ToSet(Tail(s)) \cup {Head(s)}
    <2> SUFFICES ASSUME NEW k \in 1..Len(s)
                 PROVE  s[k] \in ToSet(Tail(s)) \cup {Head(s)}
      BY <1>1 DEF ToSet
    <2>1. CASE k = 1
      BY <2>1, <1>1
    <2>2. CASE k # 1
      <3>1. k - 1 \in 1..(Len(s) - 1) /\ Tail(s)[k - 1] = s[k]
        BY <1>1, <2>2
      <3> QED
        BY <3>1, <1>1 DEF ToSet
    <2> QED
      BY <2>1, <2>2
  <1>3. ToSet(Tail(s)) \cup {Head(s)} \subseteq ToSet(s)
    BY <1>1 DEF ToSet
  <1>4. Len(s) = 1 <=> Tail(s) = <<>>
    <2> DEFINE r == Tail(s)
    <2>1. r \in Seq(S) /\ Len(r) = Len(s) - 1 /\ Len(s) \in Nat
      BY <1>1
    <2> HIDE DEF r
    <2>2. Len(r) = 0 => r = <<>>
      BY <2>1
    <2>3. Len(<<>>) = 0
      OBVIOUS
    <2>4. r = <<>> => Len(r) = 0
      BY <2>3, Zenon
    <2>5. Len(s) = 1 <=> Len(r) = 0
      BY <2>1
    <2>6. Len(s) = 1 <=> r = <<>>
      BY <2>2, <2>4, <2>5, Zenon
    <2> QED
      BY <2>6 DEF r
  <1>5. Head(s) \in ToSet(s) /\ Head(s) \in S
    BY <1>1 DEF ToSet
  <1> QED
    BY <1>1, <1>2, <1>3, <1>4, <1>5

LEMMA ReverseFacts ==
  ASSUME NEW S, NEW s \in Seq(S)
  PROVE  /\ Reverse(s) \in Seq(S) /\ ToSet(Reverse(s)) = ToSet(s)
         /\ s # <<>> => Reverse(s) # <<>>
  <1> DEFINE n == Len(s)
  <1>1. n \in Nat /\ DOMAIN s = 1..n /\ \A k \in 1..n : (n - k) + 1 \in 1..n
    OBVIOUS
  <1>2. /\ Reverse(s) \in Seq(S) /\ DOMAIN Reverse(s) = 1..n /\ Len(Reverse(s)) = n
        /\ \A k \in 1..n : Reverse(s)[k] = s[(n - k) + 1]
    BY <1>1 DEF Reverse
  <1>3. \A k \in 1..n : (n - ((n - k) + 1)) + 1 = k
    BY <1>1
  <1>4. \A k \in 1..n : s[k] = Reverse(s)[(n - k) + 1]
    BY <1>1, <1>2, <1>3
  <1>5. ToSet(Reverse(s)) = ToSet(s)
    BY <1>1, <1>2, <1>4 DEF ToSet
  <1>6. s # <<>> => Reverse(s) # <<>>
    BY <1>2
  <1> QED
    BY <1>2, <1>5, <1>6

-----------------------------------------------------------------------------
(* The refs in use.                                                        *)

LEMMA UsedStays ==
  ASSUME UNCHANGED <<rec, pod>>
  PROVE  UsedRefs' = UsedRefs
  BY DEF UsedRefs, ActiveRefs

\* The records after the status of b was patched.
Written(b, phase, i, refs) ==
    [rec EXCEPT ![b].phase = phase, ![b].image = i, ![b].refs = refs]

LEMMA WrittenIs ==
  ASSUME rec \in [Builds -> Records], NEW b \in Builds, NEW phase \in BuildPhases,
         NEW i \in ImagePhases, NEW refs \in Images \cup {<<>>}
  PROVE  /\ Written(b, phase, i, refs) \in [Builds -> Records]
         /\ \A c \in Builds \ {b} : Written(b, phase, i, refs)[c] = rec[c]
         /\ Written(b, phase, i, refs)[b].phase = phase
         /\ Written(b, phase, i, refs)[b].image = i
         /\ Written(b, phase, i, refs)[b].refs = refs
         /\ Written(b, phase, i, refs)[b].label = rec[b].label
  <1>1. rec[b] \in Records
    OBVIOUS
  <1> DEFINE new == [rec[b] EXCEPT !.phase = phase, !.image = i, !.refs = refs]
  <1>2. /\ new \in Records /\ new.label = rec[b].label
        /\ new.phase = phase /\ new.image = i /\ new.refs = refs
    BY <1>1 DEF Records
  <1>3. Written(b, phase, i, refs) = [rec EXCEPT ![b] = new]
    BY <1>1 DEF Written
  <1> HIDE DEF new
  <1> QED
    BY <1>2, <1>3

\* The status of a record that does not become Active.
LEMMA UsedAfterStatus ==
  ASSUME rec \in [Builds -> Records], NEW b \in Builds, NEW phase \in BuildPhases,
         NEW i \in ImagePhases, NEW refs \in Images \cup {<<>>},
         rec' = Written(b, phase, i, refs), i # "Active", UNCHANGED pod
  PROVE  UsedRefs' \subseteq UsedRefs
  <1>1. \A c \in Builds : rec'[c].image = "Active" => rec[c].image = "Active"
                                                      /\ rec'[c].refs = rec[c].refs
    BY WrittenIs
  <1>2. ActiveRefs' \subseteq ActiveRefs
    BY <1>1 DEF ActiveRefs
  <1> QED
    BY <1>2 DEF UsedRefs

\* Only the label or the phase of a record changes.
LEMMA UsedAfterLabel ==
  ASSUME \A c \in Builds : rec'[c].image = rec[c].image /\ rec'[c].refs = rec[c].refs,
         UNCHANGED pod
  PROVE  UsedRefs' = UsedRefs
  BY DEF UsedRefs, ActiveRefs

-----------------------------------------------------------------------------
(* What the controller may do next.                                        *)

LEMMA FreeFits == Free \subseteq Fit
  BY DEF Free, Fit, Deleting, Reconciling

LEMMA FitStays ==
  ASSUME UNCHANGED <<build, image, left, snap>>,
         manifests \subseteq manifests', UsedRefs' \subseteq UsedRefs
  PROVE  Fit \subseteq Fit'
  <1>1. (SnapUnused => SnapUnused') /\ (Unused(left) => Unused(left)')
    BY DEF Unused, SnapUnused
  <1> QED
    BY <1>1 DEF Fit

\* Where an exception is caught, the locals still serve.
LEMMA HandlerFits ==
  ASSUME Control
  PROVE  Handler \in Fit
  <1>1. CASE pc = "label" /\ patch.error \in Fit
    BY <1>1 DEF Handler, Reconciling, Collecting
  <1>2. CASE pc \in Fit
    <2>1. CASE pc \in Reconciling
      BY <1>2, <2>1 DEF Handler, Fit, Reconciling, Deleting, Steps
    <2>2. CASE pc = "delete"
      BY <1>2, <2>2 DEF Handler, Fit, Reconciling, Deleting, Steps, Collecting
    <2>3. CASE pc \notin Reconciling \cup {"delete"}
      <3>1. Handler \in {"look", "check", "clear", "restore", "list"}
        BY <1>2, <2>3 DEF Handler, Fit
      <3> QED
        BY <3>1, FreeFits DEF Free, Steps, Collecting, Sweeping, Restoring, Reconciling,
           Deleting
    <2> QED
      BY <2>1, <2>2, <2>3
  <1> QED
    BY <1>1, <1>2 DEF Control

\* A step which takes nothing from the controller that it needs.
LEMMA ControlStays ==
  ASSUME Control, UNCHANGED <<pc, patch>>, Fit \subseteq Fit'
  PROVE  Control'
  BY DEF Control

LEMMA ControlMoves ==
  ASSUME UNCHANGED patch, patch = NoPatch, pc' \in Fit'
  PROVE  Control'
  BY DEF Control

LEMMA PatchIdle ==
  ASSUME Control, pc # "label"
  PROVE  pc \in Fit /\ patch = NoPatch
  BY DEF Control

\* The call's answer arrives or is lost.
LEMMA ControlReplies ==
  ASSUME Control, pc # "label", UNCHANGED patch, NEW next \in Fit', Reply(next),
         Fit \subseteq Fit'
  PROVE  Control'
  <1>1. Handler \in Fit'
    BY HandlerFits
  <1>2. pc' \in Fit'
    BY <1>1 DEF Reply
  <1> QED
    BY <1>2, PatchIdle, ControlMoves

\* The types of where the controller stands follow.
LEMMA ControlTyped == ImageAssumption /\ Control => ControlTypes
  BY DEF Control, ControlTypes, Fit, Steps

LEMMA FaultTyped ==
  ASSUME faults \in 0..MaxFaults, Fault \/ UNCHANGED faults
  PROVE  faults' \in 0..MaxFaults
  BY ImageAssumption DEF Fault, ImageAssumption

LEMMA ReplyTyped ==
  ASSUME faults \in 0..MaxFaults, NEW next, Reply(next)
  PROVE  faults' \in 0..MaxFaults
  BY FaultTyped DEF Reply

\* What there is to show of a step that publishes, and of one that does not
\* touch the records and the pods.
LEMMA ImageStep ==
  ASSUME ImageInv, RecordTypes', RegistryTypes', LocalTypes', UserTypes', Control',
         ActiveImages', UsedRefs' \subseteq manifests'
  PROVE  ImageInv'
  <1>1. ControlTypes'
    BY ImageAssumption DEF Control, ControlTypes, Fit, Steps
  <1> QED
    BY <1>1 DEF ImageInv, BuildTypeOK

LEMMA ImageQuiet ==
  ASSUME ImageInv, UNCHANGED <<rec, pod>>, manifests \subseteq manifests',
         RecordTypes', RegistryTypes', LocalTypes', UserTypes', Control'
  PROVE  ImageInv'
  <1>1. ActiveImages' /\ UsedRefs' \subseteq manifests'
    BY UsedStays DEF ImageInv, ActiveImages
  <1> QED
    BY <1>1, ImageStep

-----------------------------------------------------------------------------
(* The patch of a status, by which no record becomes Active.               *)

LEMMA StatusKeeps ==
  ASSUME ImageInv, pc # "label",
         NEW b \in Builds, NEW phase \in BuildPhases, NEW i \in ImagePhases, i # "Active",
         NEW refs \in Images \cup {<<>>}, NEW next, NEW error,
         PatchStatus(b, phase, i, refs, next, error),
         {next, error} \subseteq Fit',
         UNCHANGED <<left, passLocals>>,
         snap' \in [DOMAIN snap' -> Records], DOMAIN snap' \subseteq Builds
  PROVE  ImageInv'
  <1>1. /\ rec' = Written(b, phase, i, refs)
        /\ aged' = aged \/ aged' = aged \ {b}
        /\ UNCHANGED <<registryVars, modeVars, jobVars, buildLocals, clocks, userVars,
                       finished>>
    BY DEF PatchStatus, Written
  <1>2. Control'
    <2>1. patch = NoPatch
      BY PatchIdle DEF ImageInv
    <2>2. CASE pc' \in {next, error} /\ UNCHANGED patch
      BY <2>1, <2>2, ControlMoves
    <2>3. CASE /\ pc' = "label"
               /\ patch' = [on |-> b, want |-> i, next |-> next, error |-> error]
      BY <2>3 DEF Control
    <2> QED
      BY <2>2, <2>3 DEF PatchStatus
  <1>a. rec \in [Builds -> Records] /\ ActiveImages
    BY DEF ImageInv, BuildTypeOK, RecordTypes
  <1>3. /\ rec' \in [Builds -> Records]
        /\ \A c \in Builds \ {b} : rec'[c] = rec[c]
        /\ rec'[b].image = i
    BY <1>1, <1>a, WrittenIs
  <1>4. ActiveImages'
    BY <1>3, <1>a DEF ActiveImages
  <1>5. UsedRefs' \subseteq UsedRefs
    BY <1>1, UsedAfterStatus DEF ImageInv, BuildTypeOK, RecordTypes, userVars
  <1>6. UsedRefs' \subseteq manifests'
    BY <1>1, <1>5 DEF ImageInv, registryVars
  <1>7. RecordTypes'
    BY <1>1, <1>3 DEF ImageInv, BuildTypeOK, RecordTypes
  <1>8. RegistryTypes'
    BY <1>1 DEF ImageInv, BuildTypeOK, RegistryTypes, registryVars, modeVars, jobVars
  <1>9. LocalTypes'
    BY <1>1 DEF ImageInv, BuildTypeOK, LocalTypes, buildLocals, passLocals, clocks
  <1>10. UserTypes'
    <2>1. Fault \/ UNCHANGED faults
      BY DEF PatchStatus
    <2> QED
      BY <1>1, <2>1, FaultTyped DEF ImageInv, BuildTypeOK, UserTypes, userVars
  <1> QED
    BY <1>2, <1>4, <1>6, <1>7, <1>8, <1>9, <1>10, ImageStep

\* The end of the pushes: every ref of the image has been published.
LEMMA PublicationKeeps ==
  ASSUME ImageInv, MarkSucceeded
  PROVE  ImageInv'
  <1>1. /\ rec' = Written(build, "Succeeded", "Active", image)
        /\ aged' = aged \/ aged' = aged \ {build}
        /\ UNCHANGED <<registryVars, modeVars, jobVars, buildLocals, left, snap,
                       passLocals, clocks, userVars, finished>>
        /\ pc = "succeed" /\ (Fault \/ UNCHANGED faults)
    BY DEF MarkSucceeded, PatchStatus, Written
  <1>2. /\ build \in Builds /\ image \in Images /\ ToSet(image) \subseteq manifests
        /\ patch = NoPatch
    BY <1>1, PatchIdle DEF ImageInv, Fit, Reconciling
  <1>3. rec \in [Builds -> Records]
    BY DEF ImageInv, BuildTypeOK, RecordTypes
  <1>4. /\ rec' \in [Builds -> Records]
        /\ \A c \in Builds \ {build} : rec'[c] = rec[c]
        /\ rec'[build].refs = image
    <2>1. "Succeeded" \in BuildPhases /\ "Active" \in ImagePhases
      BY DEF BuildPhases, ImagePhases
    <2> QED
      BY <1>1, <1>2, <1>3, <2>1, WrittenIs
  <1>5. ActiveImages'
    BY <1>2, <1>4 DEF ImageInv, ActiveImages
  <1>6. UsedRefs' \subseteq UsedRefs \cup ToSet(image)
    <2>1. ActiveRefs' \subseteq ActiveRefs \cup ToSet(image)
      BY <1>4 DEF ActiveRefs
    <2> QED
      BY <1>1, <2>1 DEF UsedRefs, userVars
  <1>7. UsedRefs' \subseteq manifests'
    BY <1>1, <1>2, <1>6 DEF ImageInv, registryVars
  <1>8. Control'
    <2>1. {"retire", "failing"} \subseteq Fit'
      BY <1>1, <1>2 DEF Fit, buildLocals, Steps, Reconciling, Deleting
    <2>2. CASE pc' \in {"retire", "failing"} /\ UNCHANGED patch
      BY <1>2, <2>1, <2>2, ControlMoves
    <2>3. CASE /\ pc' = "label"
               /\ patch' = [on |-> build, want |-> "Active", next |-> "retire",
                            error |-> "failing"]
      BY <1>2, <2>1, <2>3 DEF Control, ImagePhases
    <2> QED
      BY <2>2, <2>3 DEF MarkSucceeded, PatchStatus
  <1>9. RecordTypes'
    BY <1>1, <1>4 DEF ImageInv, BuildTypeOK, RecordTypes
  <1>10. RegistryTypes'
    BY <1>1 DEF ImageInv, BuildTypeOK, RegistryTypes, registryVars, modeVars, jobVars
  <1>11. LocalTypes'
    BY <1>1 DEF ImageInv, BuildTypeOK, LocalTypes, buildLocals, passLocals, clocks
  <1>12. UserTypes'
    BY <1>1, FaultTyped DEF ImageInv, BuildTypeOK, UserTypes, userVars
  <1> QED
    BY <1>5, <1>7, <1>8, <1>9, <1>10, <1>11, <1>12, ImageStep

-----------------------------------------------------------------------------
(* The pass over the build requests.                                       *)

LEMMA WithoutTyped ==
  ASSUME NEW s, s \in [DOMAIN s -> Records], DOMAIN s \subseteq Builds, NEW b
  PROVE  /\ Without(s, b) \in [DOMAIN Without(s, b) -> Records]
         /\ DOMAIN Without(s, b) \subseteq Builds
         /\ \A c \in DOMAIN Without(s, b) : c \in DOMAIN s \ {b} /\ Without(s, b)[c] = s[c]
  BY DEF Without

LEMMA SnapshotTyped ==
  ASSUME rec \in [Builds -> Records], NEW some \in SUBSET Builds
  PROVE  /\ Snapshot(some) \in [DOMAIN Snapshot(some) -> Records]
         /\ DOMAIN Snapshot(some) = some
         /\ \A c \in some : Snapshot(some)[c] = rec[c]
  BY DEF Snapshot

LEMMA BuildFits ==
  ASSUME build' \in Builds
  PROVE  {"run", "start", "retire", "retiring", "failing"} \subseteq Fit'
  BY DEF Fit, Steps, Reconciling, Deleting

\* A step that leaves the records, the registry and the users alone.
LEMMA LocalsMove ==
  ASSUME ImageInv, pc # "label", LocalTypes',
         UNCHANGED <<recordVars, registryVars, modeVars, jobVars, patch, userVars, faults,
                     finished>>,
         pc' \in Fit'
  PROVE  ImageInv'
  <1>1. Control'
    BY PatchIdle, ControlMoves DEF ImageInv
  <1>2. RecordTypes' /\ UNCHANGED <<rec, pod, manifests>>
    BY DEF ImageInv, BuildTypeOK, RecordTypes, recordVars, registryVars, userVars
  <1>3. RegistryTypes'
    BY DEF ImageInv, BuildTypeOK, RegistryTypes, registryVars, modeVars, jobVars
  <1>4. UserTypes'
    BY DEF ImageInv, BuildTypeOK, UserTypes, userVars
  <1> QED
    BY <1>1, <1>2, <1>3, <1>4, ImageQuiet

LEMMA FreeFitsNow == Free \subseteq Fit'
  BY DEF Free, Fit, Deleting, Reconciling

\* The status of a record that was read before, as far as it is not "Active".
LEMMA RetirementKeeps ==
  ASSUME ImageInv, pc # "label", NEW b \in Builds, NEW i \in ImagePhases, i # "Active",
         snap[b].phase \in BuildPhases, snap[b].refs \in Images \cup {<<>>},
         NEW next, NEW error,
         PatchStatus(b, snap[b].phase, i, snap[b].refs, next, error),
         next \in Fit', error \in Fit', UNCHANGED <<left, passLocals>>,
         snap' \in [DOMAIN snap' -> Records], DOMAIN snap' \subseteq Builds
  PROVE  ImageInv'
  <1>1. PICK phase \in BuildPhases : phase = snap[b].phase
    OBVIOUS
  <1>2. PICK refs \in Images \cup {<<>>} : refs = snap[b].refs
    OBVIOUS
  <1>3. PatchStatus(b, phase, i, refs, next, error)
    BY <1>1, <1>2
  <1>4. {next, error} \subseteq Fit'
    OBVIOUS
  <1> QED
    BY <1>3, <1>4, StatusKeeps

LEMMA ImagesBuildStep ==
  ASSUME ImageInv, BuildStep
  PROVE  ImageInv'
  <1> USE DEF buildLocals, passLocals, clocks
  <1>a. {"next", "look"} \subseteq Free
    BY DEF Free, Steps, Reconciling, Deleting
  <1>b. BuildTypeOK /\ LocalTypes /\ RecordTypes
    BY DEF ImageInv, BuildTypeOK
  <1>c. pc \in Reconciling \cup {"failing"} => build \in Builds
    BY PatchIdle DEF ImageInv, Reconciling, Fit
  <1>1. CASE ListBuilds
    <2>1. LocalTypes'
      BY <1>1, <1>b DEF ListBuilds, LocalTypes
    <2> QED
      BY <1>1, <1>a, <2>1, FreeFitsNow, LocalsMove DEF ListBuilds
  <1>2. CASE NextBuild
    <2>1. LocalTypes'
      BY <1>2, <1>b, NoSnapshot DEF NextBuild, LocalTypes
    <2>2. pc' \in Fit'
      BY <1>2, <1>a, <1>b, BuildFits, FreeFitsNow DEF NextBuild, LocalTypes
    <2> QED
      BY <1>2, <2>1, <2>2, LocalsMove DEF NextBuild
  <1>3. CASE RunBuild
    <2>1. /\ pc = "run" /\ UNCHANGED <<left, snap, passLocals, build>>
          /\ PatchStatus(build, "Running", "Pending", <<>>, "start", "failing")
      BY <1>3 DEF RunBuild, PatchStatus
    <2>2. build \in Builds /\ "Running" \in BuildPhases /\ "Pending" \in ImagePhases
      BY <2>1, <1>c DEF Reconciling, BuildPhases, ImagePhases
    <2>3. {"start", "failing"} \subseteq Fit'
      BY <2>1, <2>2, BuildFits
    <2>4. snap' \in [DOMAIN snap' -> Records] /\ DOMAIN snap' \subseteq Builds
      BY <2>1, <1>b DEF LocalTypes
    <2>5. pc # "label" /\ "Pending" # "Active" /\ <<>> \in Images \cup {<<>>}
      BY <2>1
    <2> QED
      BY <2>1, <2>2, <2>3, <2>4, <2>5, StatusKeeps
  <1>4. CASE StartJobs
    <2>1. image' \in Images /\ left' = Reverse(image') /\ UNCHANGED build
      BY <1>4 DEF StartJobs
    <2>2. /\ left' \in Seq(Refs) /\ left' # <<>> /\ ToSet(left') = ToSet(image')
      <3>1. PICK i \in Images : image' = i
        BY <2>1
      <3> QED
        BY <2>1, <3>1, ImageFacts, ReverseFacts
    <2>3. LocalTypes'
      BY <1>4, <1>b, <2>1, <2>2 DEF StartJobs, LocalTypes
    <2>4. build \in Builds
      BY <1>4, <1>c DEF StartJobs, Reconciling
    <2>5. pc' \in Fit'
      BY <1>4, <2>1, <2>2, <2>4 DEF StartJobs, Fit, Steps, Reconciling, Deleting
    <2> QED
      BY <1>4, <2>3, <2>5, LocalsMove DEF StartJobs
  <1>5. CASE UploadBlobs
    <2>1. /\ pc = "upload" /\ (Reply("put") \/ (pc' = "failing" /\ UNCHANGED faults))
          /\ UNCHANGED <<recordVars, manifests, dropped, modeVars, jobVars, patch,
                         buildLocals, left, snap, passLocals, clocks, userVars, finished>>
          /\ blobs' = blobs \/ blobs' = blobs \cup {Head(left)}
      BY <1>5 DEF UploadBlobs, Pushing
    <2>2. /\ build \in Builds /\ left # <<>> /\ image \in Images
          /\ ToSet(image) \subseteq manifests \cup ToSet(left)
      BY <2>1, PatchIdle DEF ImageInv, Fit, Reconciling
    <2>3. Head(left) \in Refs
      BY <1>b, <2>2, HeadAndTail DEF LocalTypes
    <2>4. RegistryTypes'
      <3>1. overlapped' \in BOOLEAN
        BY <1>5 DEF UploadBlobs, ImageInv, BuildTypeOK, RegistryTypes
      <3> QED
        BY <2>1, <2>3, <3>1, <1>b DEF BuildTypeOK, RegistryTypes, modeVars, jobVars
    <2>5. RecordTypes' /\ LocalTypes' /\ UNCHANGED <<rec, pod>>
      BY <2>1, <1>b DEF RecordTypes, LocalTypes, recordVars, userVars
    <2>6. UserTypes'
      BY <2>1, <1>b, ReplyTyped DEF BuildTypeOK, UserTypes, userVars
    <2>7. Fit \subseteq Fit'
      BY <2>1, <2>5, UsedStays, FitStays
    <2>8. Control'
      <3>1. {"put", "failing"} \subseteq Fit'
        BY <2>1, <2>2 DEF Fit, Steps, Reconciling, Deleting
      <3>2. CASE Reply("put")
        BY <2>1, <2>7, <3>1, <3>2, ControlReplies DEF ImageInv
      <3>3. CASE pc' = "failing"
        BY <2>1, <3>1, <3>3, PatchIdle, ControlMoves DEF ImageInv
      <3> QED
        BY <2>1, <3>2, <3>3
    <2> QED
      BY <2>1, <2>4, <2>5, <2>6, <2>8, ImageQuiet
  <1>6. CASE PutManifest
    <2>1. /\ pc = "put"
          /\ UNCHANGED <<recordVars, blobs, modeVars, jobVars, patch, buildLocals, snap,
                         passLocals, clocks, userVars, finished>>
          /\ \/ /\ pc' = "failing" /\ UNCHANGED <<manifests, dropped, left, faults>>
             \/ /\ manifests' = manifests \cup {Head(left)}
                /\ dropped' = dropped \ {Head(left)}
                /\ left' = Tail(left)
                /\ Reply(IF Len(left) = 1 THEN "succeed" ELSE "upload")
      BY <1>6 DEF PutManifest, Pushing
    <2>2. /\ build \in Builds /\ left # <<>> /\ image \in Images
          /\ ToSet(image) \subseteq manifests \cup ToSet(left) /\ patch = NoPatch
      BY <2>1, PatchIdle DEF ImageInv, Fit, Reconciling
    <2>3. /\ Head(left) \in Refs /\ Tail(left) \in Seq(Refs)
          /\ ToSet(left) = ToSet(Tail(left)) \cup {Head(left)}
          /\ Len(left) = 1 <=> Tail(left) = <<>>
      BY <1>b, <2>2, HeadAndTail DEF LocalTypes
    <2>4. RegistryTypes'
      <3>1. overlapped' \in BOOLEAN
        BY <1>6 DEF PutManifest, ImageInv, BuildTypeOK, RegistryTypes
      <3> QED
        BY <2>1, <2>3, <3>1, <1>b DEF BuildTypeOK, RegistryTypes, modeVars, jobVars
    <2>5. RecordTypes' /\ LocalTypes' /\ UNCHANGED <<rec, pod>>
      BY <2>1, <2>3, <1>b DEF RecordTypes, LocalTypes, recordVars, userVars
    <2>6. UserTypes'
      <3>1. faults' \in 0..MaxFaults
        <4>1. faults \in 0..MaxFaults
          BY <1>b DEF BuildTypeOK, UserTypes
        <4>2. UNCHANGED faults \/ Fault
          BY <2>1 DEF Reply
        <4> QED
          BY <4>1, <4>2, FaultTyped
      <3> QED
        BY <2>1, <3>1, <1>b DEF BuildTypeOK, UserTypes, userVars
    <2>7. Control'
      <3>1. "failing" \in Fit'
        BY <2>1, <2>2, BuildFits
      <3>2. CASE pc' = "failing"
        BY <2>1, <2>2, <3>1, <3>2, ControlMoves
      <3>3. CASE /\ manifests' = manifests \cup {Head(left)} /\ left' = Tail(left)
                 /\ pc' = IF Len(left) = 1 THEN "succeed" ELSE "upload"
        <4>1. CASE Tail(left) = <<>>
          <5>1. ToSet(Tail(left)) = {}
            BY <4>1 DEF ToSet
          <5>2. pc' = "succeed" /\ ToSet(image) \subseteq manifests'
            BY <2>2, <2>3, <3>3, <4>1, <5>1
          <5>3. pc' \in Fit'
            BY <2>1, <2>2, <5>2 DEF Fit, Steps, Reconciling, Deleting
          <5> QED
            BY <2>1, <2>2, <5>3, ControlMoves
        <4>2. CASE Tail(left) # <<>>
          <5>1. /\ pc' = "upload" /\ left' # <<>>
                /\ ToSet(image) \subseteq manifests' \cup ToSet(left')
            BY <2>2, <2>3, <3>3, <4>2
          <5>2. pc' \in Fit'
            BY <2>1, <2>2, <5>1 DEF Fit, Steps, Reconciling, Deleting
          <5> QED
            BY <2>1, <2>2, <5>2, ControlMoves
        <4> QED
          BY <4>1, <4>2
      <3>4. Handler = "failing"
        BY <2>1 DEF Handler, Reconciling, Collecting
      <3> QED
        BY <2>1, <3>2, <3>3, <3>4 DEF Reply
    <2> QED
      BY <2>1, <2>4, <2>5, <2>6, <2>7, ImageQuiet
  <1>7. CASE MarkSucceeded
    BY <1>7, PublicationKeeps
  <1>8. CASE ListRetirements
    <2>1. LabelledActive(TreeOf[build]) \ {build} \in SUBSET Builds
      BY DEF LabelledActive
    <2>2. LocalTypes'
      BY <1>8, <1>b, <2>1, SnapshotTyped DEF ListRetirements, LocalTypes, RecordTypes
    <2>3. pc' \in Fit'
      BY <1>8, <1>c, BuildFits DEF ListRetirements, Reconciling
    <2> QED
      BY <1>8, <2>2, <2>3, LocalsMove DEF ListRetirements
  <1>9. CASE RetireImage
    <2>1. PICK b \in DOMAIN snap :
            /\ PatchStatus(b, snap[b].phase, "Retired", snap[b].refs, "retiring",
                           "failing")
            /\ snap' = Without(snap, b)
      BY <1>9 DEF RetireImage
    <2>2. /\ pc = "retiring" /\ UNCHANGED <<left, passLocals, build>>
      BY <1>9, <2>1 DEF RetireImage, PatchStatus
    <2>3. /\ b \in Builds /\ snap[b].phase \in BuildPhases
          /\ snap[b].refs \in Images \cup {<<>>} /\ "Retired" \in ImagePhases
      BY <1>b DEF LocalTypes, Records, ImagePhases
    <2>4. {"retiring", "failing"} \subseteq Fit'
      BY <2>2, <1>c, BuildFits DEF Reconciling
    <2>5. snap' \in [DOMAIN snap' -> Records] /\ DOMAIN snap' \subseteq Builds
      BY <2>1, <1>b, WithoutTyped DEF LocalTypes
    <2>6. pc # "label" /\ "Retired" # "Active"
      BY <2>2
    <2> QED
      BY <2>1, <2>2, <2>3, <2>4, <2>5, <2>6, RetirementKeeps
  <1>10. CASE FinishBuild
    <2>1. build \in Builds /\ patch = NoPatch
      BY <1>10, <1>c, PatchIdle DEF FinishBuild, Reconciling, ImageInv
    <2>2. RecordTypes' /\ UNCHANGED <<rec, pod, manifests>>
      BY <1>10, <2>1, <1>b DEF FinishBuild, RecordTypes, recordVars, registryVars, userVars
    <2>3. RegistryTypes'
      BY <1>10, <1>b DEF FinishBuild, BuildTypeOK, RegistryTypes, registryVars, modeVars,
         jobVars
    <2>4. LocalTypes'
      BY <1>10, <1>b DEF FinishBuild, LocalTypes
    <2>5. UserTypes'
      BY <1>10, <1>b DEF FinishBuild, BuildTypeOK, UserTypes, userVars
    <2>6. Control'
      BY <1>10, <1>a, <2>1, FreeFitsNow, ControlMoves DEF FinishBuild
    <2> QED
      BY <2>2, <2>3, <2>4, <2>5, <2>6, ImageQuiet
  <1>11. CASE MarkFailed
    <2>1. /\ pc = "failing" /\ UNCHANGED <<left, snap, passLocals, build>>
          /\ PatchStatus(build, "Failed", "Pending", <<>>, "next", "look")
      BY <1>11 DEF MarkFailed, PatchStatus
    <2>2. build \in Builds /\ "Failed" \in BuildPhases /\ "Pending" \in ImagePhases
      BY <2>1, <1>c DEF Reconciling, BuildPhases, ImagePhases
    <2>3. {"next", "look"} \subseteq Fit'
      BY <1>a, FreeFitsNow
    <2>4. snap' \in [DOMAIN snap' -> Records] /\ DOMAIN snap' \subseteq Builds
      BY <2>1, <1>b DEF LocalTypes
    <2>5. pc # "label" /\ "Pending" # "Active" /\ <<>> \in Images \cup {<<>>}
      BY <2>1
    <2> QED
      BY <2>1, <2>2, <2>3, <2>4, <2>5, StatusKeeps
  <1> QED
    BY <1>1, <1>2, <1>3, <1>4, <1>5, <1>6, <1>7, <1>8, <1>9, <1>10, <1>11 DEF BuildStep

LEMMA ImagesLabel ==
  ASSUME ImageInv, PatchLabel
  PROVE  ImageInv'
  <1>1. /\ rec' = [rec EXCEPT ![patch.on].label = patch.want] /\ patch' = NoPatch
        /\ pc = "label" /\ Reply(patch.next)
        /\ UNCHANGED <<aged, registryVars, modeVars, jobVars, buildLocals, left, snap,
                       passLocals, clocks, userVars, finished>>
    BY DEF PatchLabel
  <1>2. patch \in [on : Builds, want : ImagePhases, next : Fit, error : Fit]
    BY <1>1 DEF ImageInv, Control, Fit
  <1>3. /\ rec' \in [Builds -> Records]
        /\ \A c \in Builds : rec'[c].image = rec[c].image /\ rec'[c].refs = rec[c].refs
    BY <1>1, <1>2 DEF ImageInv, BuildTypeOK, RecordTypes, Records
  <1>4. UsedRefs' = UsedRefs
    BY <1>1, <1>3, UsedAfterLabel DEF userVars
  <1>5. Fit \subseteq Fit'
    BY <1>1, <1>4, FitStays DEF buildLocals, registryVars
  <1>6. Control'
    <2>1. Handler \in Fit
      BY HandlerFits DEF ImageInv
    <2>2. pc' \in Fit'
      BY <1>1, <1>2, <1>5, <2>1 DEF Reply
    <2> QED
      BY <1>1, <2>2 DEF Control
  <1>7. ActiveImages'
    BY <1>3 DEF ImageInv, ActiveImages
  <1>8. RecordTypes'
    BY <1>1, <1>3 DEF ImageInv, BuildTypeOK, RecordTypes
  <1>9. RegistryTypes'
    BY <1>1 DEF ImageInv, BuildTypeOK, RegistryTypes, registryVars, modeVars, jobVars
  <1>10. LocalTypes'
    BY <1>1 DEF ImageInv, BuildTypeOK, LocalTypes, buildLocals, passLocals, clocks
  <1>11. UserTypes'
    BY <1>1, ReplyTyped DEF ImageInv, BuildTypeOK, UserTypes, userVars
  <1>12. UsedRefs' \subseteq manifests'
    BY <1>1, <1>4 DEF ImageInv, registryVars
  <1> QED
    BY <1>6, <1>7, <1>8, <1>9, <1>10, <1>11, <1>12, ImageStep

-----------------------------------------------------------------------------
(* The collection of retired images.                                       *)

LEMMA UsedAfterPatch ==
  ASSUME ImageInv, NEW b \in Builds, NEW phase \in BuildPhases, NEW i \in ImagePhases,
         i # "Active", NEW refs \in Images \cup {<<>>}, NEW next, NEW error,
         PatchStatus(b, phase, i, refs, next, error)
  PROVE  UsedRefs' \subseteq UsedRefs
  <1>1. rec' = Written(b, phase, i, refs) /\ UNCHANGED pod
    BY DEF PatchStatus, Written, userVars
  <1> QED
    BY <1>1, UsedAfterStatus DEF ImageInv, BuildTypeOK, RecordTypes

\* What the inventory leaves to be deleted is not in use.
LEMMA CollectableUnused ==
  ASSUME NEW b \in Builds, Collectable(b)
  PROVE  Unused(rec[b].refs)
  BY DEF Collectable, Unused, UsedRefs

LEMMA ImagesCollectStep ==
  ASSUME ImageInv, CollectStep
  PROVE  ImageInv'
  <1> USE DEF buildLocals, passLocals, clocks
  <1>a. {"mark", "inventory", "settle", "check"} \subseteq Free
    BY DEF Free, Steps, Reconciling, Deleting, Collecting
  <1>b. BuildTypeOK /\ LocalTypes /\ RecordTypes /\ RegistryTypes /\ UserTypes
    BY DEF ImageInv, BuildTypeOK
  <1>c. /\ pc \in Deleting => SnapUnused
        /\ pc \in Deleting \ {"collect"} => build \in DOMAIN snap
        /\ pc = "delete" => Unused(left)
        /\ pc # "label" => patch = NoPatch
    BY PatchIdle DEF ImageInv, Fit, Deleting
  <1>1. CASE Look
    <2>1. LocalTypes'
      BY <1>1, <1>b, NoSnapshot DEF Look, LocalTypes
    <2> QED
      BY <1>1, <1>a, <2>1, FreeFitsNow, LocalsMove DEF Look
  <1>2. CASE MarkDirty
    <2>1. /\ pc = "mark" /\ Reply("inventory")
          /\ UNCHANGED <<recordVars, registryVars, desired, serving, jobVars, patch,
                         buildLocals, left, snap, userVars, finished>>
      BY <1>2 DEF MarkDirty
    <2>2. RecordTypes' /\ UNCHANGED <<rec, pod, manifests>>
      BY <2>1, <1>b DEF RecordTypes, recordVars, registryVars, userVars
    <2>3. RegistryTypes'
      BY <1>2, <1>b DEF MarkDirty, RegistryTypes, registryVars, jobVars
    <2>4. LocalTypes'
      BY <1>2, <1>b DEF MarkDirty, LocalTypes
    <2>5. UserTypes'
      BY <2>1, <1>b, ReplyTyped DEF UserTypes, userVars
    <2>6. Control'
      <3>1. Fit \subseteq Fit'
        BY <2>1, <2>2, UsedStays, FitStays
      <3> QED
        BY <2>1, <3>1, <1>a, FreeFitsNow, ControlReplies DEF ImageInv
    <2> QED
      BY <2>2, <2>3, <2>4, <2>5, <2>6, ImageQuiet
  <1>3. CASE Inventory
    <2> DEFINE some == {b \in Builds : Collectable(b)}
    <2>1. /\ DOMAIN snap' = some /\ snap' \in [DOMAIN snap' -> Records]
          /\ \A b \in some : snap'[b] = rec[b]
      BY <1>3, <1>b, SnapshotTyped DEF Inventory, RecordTypes
    <2>2. UsedRefs' = UsedRefs
      BY <1>3, UsedStays DEF Inventory, recordVars, userVars
    <2>3. SnapUnused'
      BY <2>1, <2>2, CollectableUnused DEF Unused, SnapUnused
    <2>4. pc' \in Fit'
      BY <1>3, <2>3 DEF Inventory, Fit, Steps, Collecting, Reconciling, Deleting
    <2>5. LocalTypes'
      BY <1>3, <2>1, <1>b DEF Inventory, LocalTypes
    <2> QED
      BY <1>3, <2>4, <2>5, LocalsMove DEF Inventory
  <1>4. CASE Collect
    <2>1. PICK rest : /\ rest = IF pc = "counted" THEN Without(snap, build) ELSE snap
                      /\ snap' = rest
                      /\ \/ \E b \in DOMAIN rest :
                              build' = b /\ left' = rest[b].refs /\ pc' = "delete"
                         \/ /\ rest = <<>>
                            /\ build' = Nil /\ left' = <<>> /\ pc' = "settle"
      BY <1>4 DEF Collect
    <2>2. /\ pc \in Deleting /\ UsedRefs' = UsedRefs
          /\ UNCHANGED <<todo, image, wasClean, ran, job, clocks>>
          /\ collected' = (collected \/ pc = "counted")
      BY <1>4, UsedStays DEF Collect, Deleting, recordVars, userVars
    <2>3. /\ rest \in [DOMAIN rest -> Records] /\ DOMAIN rest \subseteq Builds
          /\ \A b \in DOMAIN rest : Unused(rest[b].refs)
      BY <2>1, <2>2, <1>b, <1>c, WithoutTyped DEF LocalTypes, SnapUnused
    <2>4. \A b \in DOMAIN rest : rest[b].refs \in Seq(Refs)
      BY <2>3, RefsFacts DEF Records
    <2>5. LocalTypes'
      BY <2>1, <2>2, <2>3, <2>4, <1>b DEF LocalTypes
    <2>6. CASE pc' = "settle"
      BY <1>4, <2>5, <2>6, <1>a, FreeFitsNow, LocalsMove DEF Collect
    <2>7. CASE \E b \in DOMAIN rest :
                   build' = b /\ left' = rest[b].refs /\ pc' = "delete"
      <3>1. SnapUnused'
        BY <2>1, <2>2, <2>3 DEF Unused, SnapUnused
      <3>2. build' \in DOMAIN snap' /\ Unused(left)'
        BY <2>1, <2>2, <2>3, <2>7 DEF Unused
      <3>3. pc' \in Fit'
        BY <2>7, <3>1, <3>2 DEF Fit, Steps, Collecting, Reconciling, Deleting
      <3> QED
        BY <1>4, <2>5, <3>3, LocalsMove DEF Collect
    <2> QED
      BY <2>1, <2>6, <2>7
  <1>5. CASE DeleteManifest
    <2>1. /\ pc = "delete" /\ left # <<>>
          /\ UNCHANGED <<recordVars, blobs, overlapped, modeVars, jobVars, patch,
                         buildLocals, snap, passLocals, clocks, userVars, finished>>
          /\ \/ pc' = "giveback" /\ UNCHANGED <<manifests, dropped, left, faults>>
             \/ /\ manifests' = manifests \ {Head(left)}
                /\ dropped' = dropped \cup ({Head(left)} \cap manifests \cap blobs)
                /\ left' = Tail(left)
                /\ Reply("delete")
      BY <1>5 DEF DeleteManifest
    <2>2. /\ Head(left) \in ToSet(left) /\ Tail(left) \in Seq(Refs)
          /\ ToSet(Tail(left)) \subseteq ToSet(left)
      BY <1>b, <2>1, HeadAndTail DEF LocalTypes
    <2>3. UNCHANGED <<rec, pod>> /\ UsedRefs' = UsedRefs
      BY <2>1, UsedStays DEF recordVars, userVars
    <2>4. UsedRefs' \subseteq manifests' /\ ActiveImages'
      BY <1>c, <2>1, <2>2, <2>3 DEF ImageInv, Unused, ActiveImages
    <2>5. RegistryTypes'
      BY <2>1, <1>b DEF RegistryTypes, modeVars, jobVars
    <2>6. RecordTypes' /\ LocalTypes'
      BY <2>1, <2>2, <1>b DEF RecordTypes, LocalTypes, recordVars
    <2>7. UserTypes'
      <3>1. Fault \/ UNCHANGED faults
        BY <2>1 DEF Reply
      <3> QED
        BY <2>1, <3>1, <1>b, FaultTyped DEF UserTypes, userVars
    <2>8. Control'
      <3>1. Handler = "giveback"
        BY <2>1 DEF Handler, Reconciling, Collecting
      <3>2. SnapUnused'
        BY <2>1, <2>3, <1>c DEF Unused, SnapUnused, Deleting
      <3>3. build' \in DOMAIN snap'
        BY <2>1, <1>c DEF Deleting
      <3>4. "giveback" \in Fit'
        BY <3>2, <3>3 DEF Fit, Steps, Collecting, Reconciling, Deleting
      <3>5. left' = Tail(left) => "delete" \in Fit'
        <4>1. left' = Tail(left) => Unused(left)'
          BY <2>1, <2>2, <2>3, <1>c DEF Unused
        <4> QED
          BY <3>2, <3>3, <4>1 DEF Fit, Steps, Collecting, Reconciling, Deleting
      <3>6. pc' \in Fit'
        BY <2>1, <3>1, <3>4, <3>5 DEF Reply
      <3> QED
        BY <2>1, <3>6, <1>c, ControlMoves
    <2> QED
      BY <2>4, <2>5, <2>6, <2>7, <2>8, ImageStep
  <1>6. CASE MarkCollected
    <2>1. /\ pc = "delete" /\ UNCHANGED <<left, snap, passLocals, build>>
          /\ PatchStatus(build, snap[build].phase, "Collected", snap[build].refs, "counted",
                         "giveback")
      BY <1>6 DEF MarkCollected, PatchStatus
    <2>2. /\ build \in DOMAIN snap /\ build \in Builds /\ snap[build] \in Records
          /\ SnapUnused
      BY <2>1, <1>b, <1>c DEF LocalTypes, Deleting
    <2>3. UsedRefs' \subseteq UsedRefs
      <3>1. /\ snap[build].phase \in BuildPhases /\ snap[build].refs \in Images \cup {<<>>}
            /\ "Collected" \in ImagePhases
        BY <2>2 DEF Records, ImagePhases
      <3> QED
        BY <2>1, <2>2, <3>1, UsedAfterPatch
    <2>4. SnapUnused'
      BY <2>1, <2>2, <2>3 DEF Unused, SnapUnused
    <2>5. "counted" \in Fit' /\ "giveback" \in Fit'
      BY <2>1, <2>2, <2>4 DEF Fit, Steps, Collecting, Reconciling, Deleting
    <2>6. /\ snap[build].phase \in BuildPhases /\ snap[build].refs \in Images \cup {<<>>}
          /\ "Collected" \in ImagePhases
      BY <2>2 DEF Records, ImagePhases
    <2>7. snap' \in [DOMAIN snap' -> Records] /\ DOMAIN snap' \subseteq Builds
      BY <2>1, <1>b DEF LocalTypes
    <2> QED
      BY <2>1, <2>2, <2>5, <2>6, <2>7, RetirementKeeps
  <1>7. CASE GiveBack
    <2>1. /\ pc = "giveback" /\ UNCHANGED <<left, passLocals, build>>
          /\ PatchStatus(build, snap[build].phase, "Retired", snap[build].refs, "collect",
                         "check")
          /\ snap' = Without(snap, build)
      BY <1>7 DEF GiveBack, PatchStatus
    <2>2. /\ build \in DOMAIN snap /\ build \in Builds /\ snap[build] \in Records
          /\ SnapUnused
      BY <2>1, <1>b, <1>c DEF LocalTypes, Deleting
    <2>3. UsedRefs' \subseteq UsedRefs
      <3>1. /\ snap[build].phase \in BuildPhases /\ snap[build].refs \in Images \cup {<<>>}
            /\ "Retired" \in ImagePhases
        BY <2>2 DEF Records, ImagePhases
      <3> QED
        BY <2>1, <2>2, <3>1, UsedAfterPatch
    <2>4. /\ snap' \in [DOMAIN snap' -> Records] /\ DOMAIN snap' \subseteq Builds
          /\ \A b \in DOMAIN snap' : b \in DOMAIN snap /\ snap'[b] = snap[b]
      BY <2>1, <1>b, WithoutTyped DEF LocalTypes
    <2>5. SnapUnused'
      BY <2>2, <2>3, <2>4 DEF Unused, SnapUnused
    <2>6. "collect" \in Fit' /\ "check" \in Fit'
      BY <2>5, <1>a, FreeFitsNow DEF Fit, Steps, Collecting, Reconciling, Deleting
    <2>7. /\ snap[build].phase \in BuildPhases /\ snap[build].refs \in Images \cup {<<>>}
          /\ "Retired" \in ImagePhases
      BY <2>2 DEF Records, ImagePhases
    <2> QED
      BY <2>1, <2>2, <2>4, <2>6, <2>7, RetirementKeeps
  <1>8. CASE Settle
    <2>1. /\ pc = "settle" /\ Reply("check")
          /\ UNCHANGED <<recordVars, registryVars, desired, serving, jobVars, patch,
                         buildLocals, left, snap, passLocals, imageDue, userVars, finished>>
      BY <1>8 DEF Settle
    <2>2. RecordTypes' /\ UNCHANGED <<rec, pod, manifests>>
      BY <2>1, <1>b DEF RecordTypes, recordVars, registryVars, userVars
    <2>3. RegistryTypes'
      <3>1. dirty' \in BOOLEAN
        BY <1>8, <1>b DEF Settle, RegistryTypes, LocalTypes
      <3> QED
        BY <2>1, <3>1, <1>b DEF RegistryTypes, registryVars, jobVars
    <2>4. LocalTypes'
      <3>1. storageDue' \in BOOLEAN
        BY <1>8, <1>b DEF Settle, LocalTypes
      <3> QED
        BY <2>1, <3>1, <1>b DEF LocalTypes
    <2>5. UserTypes'
      BY <2>1, <1>b, ReplyTyped DEF UserTypes, userVars
    <2>6. Control'
      <3>1. Fit \subseteq Fit'
        BY <2>1, <2>2, UsedStays, FitStays
      <3> QED
        BY <2>1, <3>1, <1>a, FreeFitsNow, ControlReplies DEF ImageInv
    <2> QED
      BY <2>2, <2>3, <2>4, <2>5, <2>6, ImageQuiet
  <1> QED
    BY <1>1, <1>2, <1>3, <1>4, <1>5, <1>6, <1>7, <1>8 DEF CollectStep

-----------------------------------------------------------------------------
(* The collection of the storage, and what disturbs the controller.        *)

\* A step that leaves the records, the manifests, the users and what the
\* controller knows alone.
LEMMA RegistryMoves ==
  ASSUME ImageInv, pc # "label",
         UNCHANGED <<recordVars, finished, manifests, patch, build, image, left, snap,
                     userVars>>,
         RegistryTypes', LocalTypes', faults' \in 0..MaxFaults,
         NEW next \in Free, Reply(next) \/ pc' = next
  PROVE  ImageInv'
  <1>1. UNCHANGED <<rec, aged, pod, cli>>
    BY DEF recordVars, userVars
  <1>2. RecordTypes' /\ UserTypes'
    BY <1>1 DEF ImageInv, BuildTypeOK, RecordTypes, UserTypes
  <1>3. Fit \subseteq Fit'
    BY <1>1, UsedStays, FitStays
  <1>4. Control'
    <2>1. CASE Reply(next)
      BY <1>3, <2>1, FreeFitsNow, ControlReplies DEF ImageInv
    <2>2. CASE pc' = next
      BY <2>2, FreeFitsNow, PatchIdle, ControlMoves DEF ImageInv
    <2> QED
      BY <2>1, <2>2
  <1> QED
    BY <1>1, <1>2, <1>4, ImageQuiet

LEMMA ImagesSweepStep ==
  ASSUME ImageInv, SweepStep
  PROVE  ImageInv'
  <1> USE DEF buildLocals, passLocals, clocks
  <1>a. Sweeping \cup Restoring \cup {"list"} \subseteq Free
    BY DEF Free, Steps, Reconciling, Deleting, Sweeping, Restoring
  <1>b. LocalTypes /\ RegistryTypes /\ UserTypes
    BY DEF ImageInv, BuildTypeOK
  <1>1. CASE Check
    <2>1. LocalTypes'
      BY <1>1, <1>b, NoSnapshot DEF Check, LocalTypes
    <2>2. pc' \in Free
      BY <1>1, <1>a DEF Check, Sweeping
    <2> QED
      BY <1>1, <2>1, <2>2, FreeFitsNow, LocalsMove DEF Check
  <1>2. CASE Disable \/ Restore
    <2>1. PICK next \in {"disabled", "restored"} : Reply(next)
      BY <1>2 DEF Disable, Restore, SetMode
    <2>2. /\ pc # "label" /\ desired' \in BOOLEAN
          /\ UNCHANGED <<recordVars, registryVars, serving, dirty, jobVars, patch,
                         buildLocals, left, snap, passLocals, clocks, userVars, finished>>
      BY <1>2 DEF Disable, Restore, SetMode
    <2>3. RegistryTypes'
      BY <2>2, <1>b DEF RegistryTypes, registryVars, jobVars
    <2>4. LocalTypes'
      BY <2>2, <1>b DEF LocalTypes
    <2>5. faults' \in 0..MaxFaults /\ next \in Free
      BY <2>1, <1>a, <1>b, ReplyTyped DEF UserTypes, Sweeping, Restoring
    <2> QED
      BY <2>1, <2>2, <2>3, <2>4, <2>5, RegistryMoves DEF registryVars
  <1>3. CASE CreateJob
    <2>1. /\ pc # "label" /\ Reply("wait")
          /\ UNCHANGED <<recordVars, registryVars, modeVars, keep, patch, buildLocals, left,
                         snap, wasClean, collected, ran, clocks, userVars, finished>>
      BY <1>3 DEF CreateJob
    <2>2. RegistryTypes' /\ LocalTypes'
      <3>1. PICK j \in Jobs : jobs' = [jobs EXCEPT ![j] = "created"] /\ job' = j
        BY <1>3 DEF CreateJob
      <3>2. jobs' \in [Jobs -> JobStates]
        BY <3>1, <1>b DEF RegistryTypes, JobStates
      <3> QED
        BY <2>1, <3>1, <3>2, <1>b DEF RegistryTypes, LocalTypes, registryVars, modeVars
    <2>3. faults' \in 0..MaxFaults /\ "wait" \in Free
      BY <2>1, <1>a, <1>b, ReplyTyped DEF UserTypes, Sweeping
    <2> QED
      BY <2>1, <2>2, <2>3, RegistryMoves DEF registryVars
  <1>4. CASE WaitJob
    <2>1. LocalTypes'
      BY <1>4, <1>b DEF WaitJob, LocalTypes
    <2>2. pc' \in Free
      BY <1>4, <1>a DEF WaitJob, Restoring
    <2> QED
      BY <1>4, <2>1, <2>2, FreeFitsNow, LocalsMove DEF WaitJob
  <1>5. CASE Undirty
    <2>1. /\ pc # "label" /\ Reply("list") /\ dirty' = FALSE
          /\ UNCHANGED <<recordVars, registryVars, desired, serving, jobVars, patch,
                         buildLocals, left, snap, passLocals, clocks, userVars, finished>>
      BY <1>5 DEF Undirty
    <2>2. RegistryTypes'
      BY <2>1, <1>b DEF RegistryTypes, registryVars, jobVars
    <2>3. LocalTypes'
      BY <2>1, <1>b DEF LocalTypes
    <2>4. faults' \in 0..MaxFaults /\ "list" \in Free
      BY <2>1, <1>a, <1>b, ReplyTyped DEF UserTypes
    <2> QED
      BY <2>1, <2>2, <2>3, <2>4, RegistryMoves DEF registryVars
  <1>6. CASE (Idle \/ Preflight \/ RolledOut \/ ClearNotice) /\ OnlyMoves
             /\ UNCHANGED faults
    <2>1. LocalTypes'
      BY <1>6, <1>b DEF OnlyMoves, LocalTypes
    <2>2. pc # "label" /\ pc' \in Free
      BY <1>6, <1>a DEF Idle, Preflight, RolledOut, ClearNotice, Sweeping, Restoring
    <2> QED
      BY <1>6, <2>1, <2>2, FreeFitsNow, LocalsMove DEF OnlyMoves
  <1> QED
    BY <1>1, <1>2, <1>3, <1>4, <1>5, <1>6 DEF SweepStep

\* A call without effect, a pass that is cut short, and the controller's death
\* take no ref from the registry, and the handlers find what they need.
LEMMA ImagesFaults ==
  ASSUME ImageInv, CallFails \/ PassExpires \/ ControllerDies
  PROVE  ImageInv'
  <1> USE DEF buildLocals, passLocals, clocks
  <1>1. /\ UNCHANGED <<recordVars, registryVars, modeVars, userVars, finished>>
        /\ Fault
        /\ UNCHANGED jobVars \/ (/\ jobs' = [jobs EXCEPT ![job] = "none"]
                                 /\ keep' = [keep EXCEPT ![job] = {}])
    BY DEF CallFails, PassExpires, ControllerDies
  <1>2. UNCHANGED <<rec, aged, pod, cli, manifests>> /\ RecordTypes'
    BY <1>1 DEF ImageInv, BuildTypeOK, RecordTypes, recordVars, registryVars, userVars
  <1>3. RegistryTypes'
    BY <1>1 DEF ImageInv, BuildTypeOK, RegistryTypes, registryVars, modeVars, jobVars,
       JobStates
  <1>4. UserTypes'
    BY <1>1, <1>2, FaultTyped DEF ImageInv, BuildTypeOK, UserTypes
  <1>5. LocalTypes' /\ Control'
    <2>1. CASE CallFails
      <3>1. /\ UNCHANGED <<buildLocals, left, snap, passLocals, clocks>>
            /\ pc' = Handler /\ patch' = NoPatch
        BY <2>1 DEF CallFails
      <3>2. Fit \subseteq Fit'
        BY <1>2, <3>1, UsedStays, FitStays
      <3>3. Handler \in Fit
        BY HandlerFits DEF ImageInv
      <3>4. Control'
        BY <3>1, <3>2, <3>3 DEF Control
      <3> QED
        BY <3>1, <3>4 DEF ImageInv, BuildTypeOK, LocalTypes
    <2>2. CASE PassExpires
      <3>1. /\ UNCHANGED <<patch, buildLocals, left, snap, passLocals, clocks>>
            /\ pc # "label" /\ pc' \in {"check", "list"}
        BY <2>2 DEF PassExpires, Collecting, Sweeping
      <3>2. {"check", "list"} \subseteq Free
        BY DEF Free, Steps, Reconciling, Deleting
      <3>3. Control'
        BY <3>1, <3>2, FreeFitsNow, PatchIdle, ControlMoves DEF ImageInv
      <3> QED
        BY <3>1, <3>3 DEF ImageInv, BuildTypeOK, LocalTypes
    <2>3. CASE ControllerDies
      <3>1. "restore" \in Free
        BY DEF Free, Steps, Reconciling, Deleting, Restoring
      <3>2. Control'
        BY <2>3, <3>1, FreeFitsNow DEF ControllerDies, Control
      <3>3. LocalTypes'
        BY <2>3, NoSnapshot DEF ControllerDies, LocalTypes
      <3> QED
        BY <3>2, <3>3
    <2> QED
      BY <2>1, <2>2, <2>3
  <1> QED
    BY <1>2, <1>3, <1>4, <1>5, ImageQuiet

-----------------------------------------------------------------------------
(* The registry and the users.                                             *)

\* Those who leave the controller and the manifests alone, and put nothing into
\* use that was not.
LEMMA OthersKeep ==
  ASSUME ImageInv, UNCHANGED <<pc, patch, build, image, left, snap, manifests>>,
         UsedRefs' \subseteq UsedRefs, ActiveImages',
         RecordTypes', RegistryTypes', LocalTypes', UserTypes'
  PROVE  ImageInv'
  <1>1. Control'
    BY FitStays, ControlStays DEF ImageInv
  <1> QED
    BY <1>1, ImageStep DEF ImageInv

LEMMA ImagesRegistry ==
  ASSUME ImageInv,
         Roll \/ (\E j \in Jobs : JobStep(j)) \/ ImagesDue \/ StorageDue
              \/ \E b \in Builds : Age(b)
  PROVE  ImageInv'
  <1> USE DEF buildLocals, passLocals, clocks, ctlVars
  <1>b. BuildTypeOK /\ RecordTypes /\ RegistryTypes /\ LocalTypes /\ UserTypes
    BY DEF ImageInv, BuildTypeOK
  <1>1. UNCHANGED <<rec, pod, cli, faults, finished, pc, patch, build, image, left, snap,
                    manifests>>
    BY DEF Roll, JobStep, JobMark, JobSweep, JobGone, ImagesDue, StorageDue, Age, TimeFrame,
       recordVars, registryVars, userVars
  <1>2. RecordTypes'
    <2>1. aged' \subseteq Builds
      BY <1>b DEF Roll, JobStep, JobMark, JobSweep, JobGone, ImagesDue, StorageDue, Age,
         recordVars, RecordTypes
    <2> QED
      BY <1>1, <1>b, <2>1 DEF RecordTypes
  <1>3. RegistryTypes'
    <2>1. CASE Roll
      BY <2>1, <1>b DEF Roll, registryVars, jobVars, RegistryTypes
    <2>2. CASE \E j \in Jobs : JobMark(j)
      BY <2>2, <1>b DEF JobMark, registryVars, modeVars, RegistryTypes, JobStates
    <2>3. CASE \E j \in Jobs : JobSweep(j)
      <3>1. PICK j \in Jobs : JobSweep(j)
        BY <2>3
      <3> QED
        BY <3>1, <1>b DEF JobSweep, modeVars, RegistryTypes, JobStates
    <2>4. CASE \E j \in Jobs : JobGone(j)
      BY <2>4, <1>b DEF JobGone, registryVars, modeVars, RegistryTypes, JobStates
    <2>5. CASE ImagesDue \/ StorageDue \/ \E b \in Builds : Age(b)
      <3>1. UNCHANGED <<registryVars, modeVars, jobVars>>
        BY <2>5 DEF ImagesDue, StorageDue, Age, TimeFrame
      <3> QED
        BY <3>1, <1>b DEF registryVars, modeVars, jobVars, RegistryTypes
    <2> QED
      BY <2>1, <2>2, <2>3, <2>4, <2>5 DEF JobStep
  <1>4. LocalTypes'
    <2>1. /\ UNCHANGED <<todo, job, wasClean, collected, ran>>
          /\ imageDue' \in BOOLEAN /\ storageDue' \in BOOLEAN
      BY <1>b DEF Roll, JobStep, JobMark, JobSweep, JobGone, ImagesDue, StorageDue, Age,
         TimeFrame, LocalTypes
    <2> QED
      BY <1>1, <1>b, <2>1 DEF LocalTypes
  <1>5. ActiveImages' /\ UsedRefs' \subseteq UsedRefs /\ UserTypes'
    BY <1>1, <1>b, UsedStays DEF ImageInv, ActiveImages, UserTypes
  <1> QED
    BY <1>1, <1>2, <1>3, <1>4, <1>5, OthersKeep

\* A user's step leaves the controller, the registry's contents and the history
\* alone.
LEMMA UserKeeps ==
  ASSUME ImageInv, UserFrame, desired' = desired \/ desired' = FALSE,
         rec' \in [Builds -> Records], ActiveImages', UsedRefs' \subseteq UsedRefs, UserTypes'
  PROVE  ImageInv'
  <1>1. /\ UNCHANGED <<pc, patch, build, image, left, snap, manifests>>
        /\ UNCHANGED <<aged, finished, blobs, dropped, overlapped, serving, dirty, jobs, keep>>
        /\ UNCHANGED <<todo, job, wasClean, collected, ran, imageDue, storageDue>>
    BY DEF UserFrame, registryVars, jobVars, ctlVars, buildLocals, passLocals, clocks
  <1>2. RecordTypes' /\ RegistryTypes'
    BY <1>1 DEF ImageInv, BuildTypeOK, RecordTypes, RegistryTypes
  <1>3. LocalTypes'
    BY <1>1 DEF ImageInv, BuildTypeOK, LocalTypes
  <1> QED
    BY <1>1, <1>2, <1>3, OthersKeep

LEMMA CliTyped ==
  ASSUME NEW records, records \in [DOMAIN records -> Records], DOMAIN records \subseteq Builds,
         NEW b \in Builds \cup {Nil}
  PROVE  /\ Cli(records, b).snap \in [DOMAIN Cli(records, b).snap -> Records]
         /\ DOMAIN Cli(records, b).snap \subseteq Builds
         /\ Cli(records, b).on \in Builds \cup {Nil}
  BY NoSnapshot DEF Cli, NoCli

LEMMA ImagesUserStep ==
  ASSUME ImageInv,
         \/ \E b \in Builds : Submit(b)
         \/ \E t \in Trees : Materialise(t) \/ StopPod(t) \/ RemoveWorkload(t)
         \/ Converge \/ CliRetire \/ CliLabel \/ CliEnds
  PROVE  ImageInv'
  <1>b. RecordTypes /\ UserTypes /\ ActiveImages
    BY DEF ImageInv, BuildTypeOK
  <1>1. ASSUME NEW b \in Builds, Submit(b)
        PROVE  ImageInv'
    <2>1. /\ rec' = [rec EXCEPT ![b].phase = "Pending"] /\ UserFrame
          /\ UNCHANGED <<desired, pod, cli, faults>>
      BY <1>1 DEF Submit
    <2>2. "Pending" \in BuildPhases
      BY DEF BuildPhases
    <2>3. /\ rec' \in [Builds -> Records]
          /\ \A c \in Builds : rec'[c].image = rec[c].image /\ rec'[c].refs = rec[c].refs
      BY <2>1, <2>2, <1>b DEF RecordTypes, Records
    <2>4. ActiveImages' /\ UsedRefs' = UsedRefs /\ UserTypes'
      BY <2>1, <2>3, <1>b, UsedAfterLabel DEF ActiveImages, UserTypes
    <2> QED
      BY <2>1, <2>3, <2>4, UserKeeps
  <1>2. ASSUME NEW t \in Trees, Materialise(t)
        PROVE  ImageInv'
    <2>1. PICK b \in Builds : /\ rec[b].image = "Active"
                              /\ pod' = [pod EXCEPT ![t] = Head(rec[b].refs)]
      BY <1>2 DEF Materialise
    <2>2. UNCHANGED <<rec, desired, cli, faults>> /\ UserFrame
      BY <1>2 DEF Materialise
    <2>3. rec[b].refs \in Images
      BY <2>1, <1>b DEF ActiveImages
    <2>4. Head(rec[b].refs) \in ToSet(rec[b].refs) /\ Head(rec[b].refs) \in Refs
      BY <2>3, ImageFacts, HeadAndTail
    <2>5. Head(rec[b].refs) \in ActiveRefs
      BY <2>1, <2>4 DEF ActiveRefs
    <2>6. UsedRefs' \subseteq UsedRefs
      <3>1. \A u \in Trees : pod'[u] = pod[u] \/ pod'[u] = Head(rec[b].refs)
        BY <2>1, <1>b DEF UserTypes
      <3>2. ActiveRefs' = ActiveRefs
        BY <2>2 DEF ActiveRefs
      <3> QED
        BY <2>5, <3>1, <3>2 DEF UsedRefs
    <2>7. UserTypes'
      BY <2>1, <2>2, <2>4, <1>b DEF UserTypes
    <2>8. rec' \in [Builds -> Records] /\ ActiveImages'
      BY <2>2, <1>b DEF RecordTypes, ActiveImages
    <2> QED
      BY <2>2, <2>6, <2>7, <2>8, UserKeeps
  <1>3. ASSUME NEW t \in Trees, StopPod(t) \/ RemoveWorkload(t)
        PROVE  ImageInv'
    <2>1. /\ pod' = [pod EXCEPT ![t] = Nil] /\ UNCHANGED <<rec, desired>> /\ UserFrame
          /\ Fault \/ UNCHANGED faults
      BY <1>3 DEF StopPod, RemoveWorkload
    <2>2. UsedRefs' \subseteq UsedRefs
      <3>1. \A u \in Trees : pod'[u] = pod[u] \/ pod'[u] = Nil
        BY <2>1, <1>b DEF UserTypes
      <3>2. ActiveRefs' = ActiveRefs
        BY <2>1 DEF ActiveRefs
      <3> QED
        BY <3>1, <3>2 DEF UsedRefs
    <2>3. UserTypes'
      <3>1. CASE UNCHANGED cli
        BY <2>1, <3>1, <1>b, FaultTyped DEF UserTypes
      <3>2. CASE cli' = Cli(Snapshot(LabelledActive(t)), Nil)
        <4>1. LabelledActive(t) \in SUBSET Builds
          BY DEF LabelledActive
        <4>2. /\ cli'.snap \in [DOMAIN cli'.snap -> Records]
              /\ DOMAIN cli'.snap \subseteq Builds /\ cli'.on \in Builds \cup {Nil}
          BY <3>2, <4>1, <1>b, SnapshotTyped, CliTyped DEF RecordTypes
        <4>3. pod' \in [Trees -> Refs \cup {Nil}] /\ faults' \in 0..MaxFaults
          BY <2>1, <1>b, FaultTyped DEF UserTypes
        <4> QED
          BY <4>2, <4>3 DEF UserTypes
      <3> QED
        BY <1>3, <3>1, <3>2 DEF StopPod, RemoveWorkload
    <2>4. rec' \in [Builds -> Records] /\ ActiveImages'
      BY <2>1, <1>b DEF RecordTypes, ActiveImages
    <2> QED
      BY <2>1, <2>2, <2>3, <2>4, UserKeeps
  <1>4. CASE Converge \/ CliEnds
    <2>1. /\ UNCHANGED <<rec, pod>> /\ UserFrame /\ (cli' = cli \/ cli' = NoCli)
          /\ (Fault \/ UNCHANGED faults) /\ (desired' = desired \/ desired' = FALSE)
      BY <1>4 DEF Converge, CliEnds
    <2>2. UserTypes'
      <3>1. /\ NoCli.snap \in [DOMAIN NoCli.snap -> Records]
            /\ DOMAIN NoCli.snap \subseteq Builds /\ NoCli.on \in Builds \cup {Nil}
        BY NoSnapshot DEF NoCli
      <3>2. pod' \in [Trees -> Refs \cup {Nil}] /\ faults' \in 0..MaxFaults
        BY <2>1, <1>b, FaultTyped DEF UserTypes
      <3>3. CASE cli' = cli
        BY <3>2, <3>3, <1>b DEF UserTypes
      <3>4. CASE cli' = NoCli
        BY <3>1, <3>2, <3>4 DEF UserTypes
      <3> QED
        BY <2>1, <3>3, <3>4
    <2>3. rec' \in [Builds -> Records] /\ ActiveImages' /\ UsedRefs' = UsedRefs
      BY <2>1, <1>b, UsedStays DEF RecordTypes, ActiveImages
    <2> QED
      BY <2>1, <2>2, <2>3, UserKeeps
  <1>5. CASE CliRetire
    <2>1. PICK b \in DOMAIN cli.snap :
            /\ rec' = Written(b, cli.snap[b].phase, "Retired", cli.snap[b].refs)
            /\ cli' = Cli(Without(cli.snap, b), IF rec[b].label = "Retired" THEN Nil ELSE b)
      BY <1>5 DEF CliRetire, Written
    <2>2. UNCHANGED <<desired, pod, faults>> /\ UserFrame
      BY <1>5 DEF CliRetire
    <2>3. /\ b \in Builds /\ cli.snap[b].phase \in BuildPhases
          /\ cli.snap[b].refs \in Images \cup {<<>>} /\ "Retired" \in ImagePhases
      BY <1>b DEF UserTypes, Records, ImagePhases
    <2>4. /\ rec' \in [Builds -> Records]
          /\ \A c \in Builds \ {b} : rec'[c] = rec[c]
          /\ rec'[b].image = "Retired"
      BY <2>1, <2>3, <1>b, WrittenIs DEF RecordTypes
    <2>6. ActiveImages' /\ UsedRefs' \subseteq UsedRefs
      <3>1. ActiveImages'
        BY <2>4, <1>b DEF ActiveImages
      <3>2. ActiveRefs' \subseteq ActiveRefs
        BY <2>4 DEF ActiveRefs
      <3> QED
        BY <2>2, <3>1, <3>2 DEF UsedRefs
    <2>7. UserTypes'
      <3>1. /\ cli'.snap \in [DOMAIN cli'.snap -> Records]
            /\ DOMAIN cli'.snap \subseteq Builds /\ cli'.on \in Builds \cup {Nil}
        <4> DEFINE records == Without(cli.snap, b)
                   on == IF rec[b].label = "Retired" THEN Nil ELSE b
        <4>1. records \in [DOMAIN records -> Records] /\ DOMAIN records \subseteq Builds
          BY <1>b, WithoutTyped DEF UserTypes
        <4>2. on \in Builds \cup {Nil} /\ cli' = Cli(records, on)
          BY <2>1, <2>3
        <4> HIDE DEF records, on
        <4> QED
          BY <4>1, <4>2, CliTyped
      <3> QED
        BY <2>2, <3>1, <1>b DEF UserTypes
    <2> QED
      BY <2>2, <2>4, <2>6, <2>7, UserKeeps
  <1>6. CASE CliLabel
    <2>1. /\ rec' = [rec EXCEPT ![cli.on].label = "Retired"] /\ cli.on # Nil
          /\ cli' = Cli(cli.snap, Nil) /\ UNCHANGED <<desired, pod, faults>> /\ UserFrame
      BY <1>6 DEF CliLabel
    <2>2. "Retired" \in ImagePhases /\ cli.on \in Builds
      BY <2>1, <1>b DEF ImagePhases, UserTypes
    <2>3. /\ rec' \in [Builds -> Records]
          /\ \A c \in Builds : rec'[c].image = rec[c].image /\ rec'[c].refs = rec[c].refs
      BY <2>1, <2>2, <1>b DEF RecordTypes, Records
    <2>4. ActiveImages' /\ UsedRefs' = UsedRefs
      BY <2>1, <2>3, <1>b, UsedAfterLabel DEF ActiveImages
    <2>5. UserTypes'
      BY <2>1, <1>b, CliTyped DEF UserTypes
    <2> QED
      BY <2>1, <2>3, <2>4, <2>5, UserKeeps
  <1> QED
    BY <1>1, <1>2, <1>3, <1>4, <1>5, <1>6

-----------------------------------------------------------------------------
LEMMA ImagesInit == BuildInit => ImageInv
  <1> SUFFICES ASSUME BuildInit
               PROVE  ImageInv
    OBVIOUS
  <1>1. NoRecord \in Records
    BY DEF NoRecord, Records, BuildPhases, ImagePhases
  <1>2. RecordTypes /\ UserTypes
    BY <1>1, NoSnapshot, ImageAssumption DEF BuildInit, RecordTypes, UserTypes, NoCli,
       ImageAssumption
  <1>3. RegistryTypes /\ LocalTypes
    BY NoSnapshot DEF BuildInit, RegistryTypes, LocalTypes, JobStates
  <1>4. \A b \in Builds : rec[b].image # "Active"
    BY DEF BuildInit, NoRecord
  <1>5. ActiveImages /\ UsedRefs \subseteq manifests
    BY <1>4 DEF BuildInit, ActiveImages, UsedRefs, ActiveRefs
  <1>6. Control
    <2>1. "restore" \in Free
      BY DEF Free, Steps, Reconciling, Deleting, Restoring
    <2> QED
      BY <2>1, FreeFits DEF BuildInit, Control
  <1> QED
    BY <1>2, <1>3, <1>5, <1>6, ControlTyped, ImageAssumption DEF ImageInv, BuildTypeOK

LEMMA ImagesNext == ImageInv /\ [BuildNext]_buildVars => ImageInv'
  <1> SUFFICES ASSUME ImageInv, [BuildNext]_buildVars
               PROVE  ImageInv'
    OBVIOUS
  <1>1. CASE ControllerStep
    BY <1>1, ImagesBuildStep, ImagesLabel, ImagesCollectStep, ImagesSweepStep
       DEF ControllerStep
  <1>2. CASE CallFails \/ PassExpires \/ ControllerDies
    BY <1>2, ImagesFaults
  <1>3. CASE Roll \/ (\E j \in Jobs : JobStep(j)) \/ ImagesDue \/ StorageDue \/ UserStep
    BY <1>3, ImagesRegistry, ImagesUserStep DEF UserStep
  <1>4. CASE UNCHANGED buildVars
    <2>1. UNCHANGED <<recordVars, registryVars, modeVars, jobVars, ctlVars, userVars, faults,
                      finished>>
      BY <1>4 DEF buildVars
    <2>2. UNCHANGED <<pc, patch, build, image, left, snap, manifests, rec, pod>>
      BY <2>1 DEF recordVars, registryVars, ctlVars, buildLocals, userVars
    <2>3. RecordTypes'
      BY <2>1 DEF recordVars, ImageInv, BuildTypeOK, RecordTypes
    <2>4. RegistryTypes'
      BY <2>1 DEF registryVars, modeVars, jobVars, ImageInv, BuildTypeOK, RegistryTypes
    <2>5. LocalTypes'
      BY <2>1 DEF ctlVars, buildLocals, passLocals, clocks, ImageInv, BuildTypeOK, LocalTypes
    <2>6. UserTypes'
      BY <2>1 DEF userVars, ImageInv, BuildTypeOK, UserTypes
    <2>7. ActiveImages' /\ UsedRefs' = UsedRefs
      BY <2>2, UsedStays DEF ImageInv, ActiveImages
    <2> QED
      BY <2>2, <2>3, <2>4, <2>5, <2>6, <2>7, OthersKeep
  <1> QED
    BY <1>1, <1>2, <1>3, <1>4 DEF BuildNext

LEMMA ImagesAlways == BuildSpec => []ImageInv
  BY ImagesInit, ImagesNext, PTL DEF BuildSpec

\* For any builds and images, which may share platforms: the registry holds
\* every ref of every Active record (request.py:1008-1098), although records
\* are written from copies, calls fail after they took effect, passes expire
\* and the controller dies at any step of a build, a retirement or a collection.
THEOREM ActiveIsPublished == BuildSpec => []ActivePublished
  <1>1. ImageInv => ActivePublished
    BY DEF ImageInv, ActivePublished, UsedRefs
  <1> QED
    BY <1>1, ImagesAlways, PTL

\* For any worktrees: the image of a running pod is in the registry, its record
\* may be retired and old and the collector may be half way through its
\* inventory when the pod starts (request.py:1045).
THEOREM RunningImagesStay == BuildSpec => []PodsKeepImages
  <1>1. ImageInv => PodsKeepImages
    BY DEF ImageInv, PodsKeepImages, UsedRefs
  <1> QED
    BY <1>1, ImagesAlways, PTL

-----------------------------------------------------------------------------
(* The blobs under the images.                                             *)

\* As long as nothing was pushed beside a collection job, the manifests stand
\* on blobs, and a job that has marked keeps the blobs of them all.
BlobsKept ==
    ~overlapped =>
        /\ manifests \subseteq blobs
        /\ \A j \in Jobs : jobs[j] = "marked" => manifests \subseteq keep[j]

LEMMA BlobsStay ==
  ASSUME BlobsKept, UNCHANGED <<registryVars, jobVars>>
  PROVE  BlobsKept'
  BY DEF BlobsKept, registryVars, jobVars

LEMMA BlobsStatus ==
  ASSUME BlobsKept, NEW b, NEW phase, NEW i, NEW refs, NEW next, NEW error,
         PatchStatus(b, phase, i, refs, next, error)
  PROVE  BlobsKept'
  BY BlobsStay DEF PatchStatus

LEMMA BlobsController ==
  ASSUME BlobsKept, ImageInv, ControllerStep
  PROVE  BlobsKept'
  <1>1. CASE UploadBlobs
    BY <1>1 DEF UploadBlobs, Pushing, BlobsKept, jobVars
  <1>2. CASE PutManifest
    <2>1. /\ UNCHANGED <<blobs, jobs, keep>>
          /\ \/ UNCHANGED <<manifests, overlapped>>
             \/ /\ overlapped' = (overlapped \/ Collects)
                /\ manifests' \subseteq manifests \cup ({Head(left)} \cap blobs)
      BY <1>2 DEF PutManifest, Pushing, jobVars
    <2> QED
      BY <2>1 DEF BlobsKept, Collects
  <1>3. CASE DeleteManifest
    BY <1>3 DEF DeleteManifest, BlobsKept, jobVars
  <1>4. CASE CreateJob
    <2>1. PICK j \in Jobs : jobs' = [jobs EXCEPT ![j] = "created"]
      BY <1>4 DEF CreateJob
    <2>2. UNCHANGED <<manifests, blobs, overlapped, keep>>
      BY <1>4 DEF CreateJob, registryVars
    <2>3. \A k \in Jobs : jobs'[k] = "marked" => jobs[k] = "marked"
      BY <2>1 DEF ImageInv, BuildTypeOK, RegistryTypes
    <2> QED
      BY <2>2, <2>3 DEF BlobsKept
  <1>5. CASE ListBuilds \/ NextBuild \/ StartJobs \/ ListRetirements \/ FinishBuild \/ PatchLabel
             \/ Look \/ MarkDirty \/ Inventory \/ Collect \/ Settle
    BY <1>5, BlobsStay DEF ListBuilds, NextBuild, StartJobs, ListRetirements, FinishBuild,
       PatchLabel, Look, MarkDirty, Inventory, Collect, Settle
  <1>6. CASE Check \/ Disable \/ Restore \/ WaitJob \/ Undirty \/ OnlyMoves
    BY <1>6, BlobsStay DEF Check, Disable, Restore, SetMode, WaitJob, Undirty, OnlyMoves
  <1>7. CASE RunBuild \/ MarkSucceeded \/ MarkFailed \/ MarkCollected \/ GiveBack
    BY <1>7, BlobsStatus DEF RunBuild, MarkSucceeded, MarkFailed, MarkCollected, GiveBack
  <1>8. CASE RetireImage
    BY <1>8, BlobsStatus DEF RetireImage
  <1> QED
    BY <1>1, <1>2, <1>3, <1>4, <1>5, <1>6, <1>7, <1>8
       DEF ControllerStep, BuildStep, CollectStep, SweepStep

LEMMA BlobsJob ==
  ASSUME BlobsKept, ImageInv, NEW j \in Jobs, JobStep(j)
  PROVE  BlobsKept'
  <1>t. jobs \in [Jobs -> JobStates] /\ keep \in [Jobs -> SUBSET Refs]
    BY DEF ImageInv, BuildTypeOK, RegistryTypes
  <1>1. CASE JobMark(j)
    <2>1. /\ UNCHANGED <<manifests, blobs, overlapped>>
          /\ keep' = [keep EXCEPT ![j] = manifests] /\ jobs' = [jobs EXCEPT ![j] = "marked"]
      BY <1>1 DEF JobMark, registryVars
    <2> QED
      BY <2>1, <1>t DEF BlobsKept
  <1>2. CASE JobSweep(j)
    <2>1. /\ UNCHANGED <<manifests, overlapped>> /\ blobs' = blobs \cap keep[j]
          /\ jobs[j] = "marked" /\ jobs' = [jobs EXCEPT ![j] = "done"]
          /\ keep' = [keep EXCEPT ![j] = {}]
      BY <1>2 DEF JobSweep
    <2>2. \A k \in Jobs : jobs'[k] = "marked" => jobs[k] = "marked" /\ keep'[k] = keep[k]
      BY <2>1, <1>t
    <2> QED
      BY <2>1, <2>2 DEF BlobsKept
  <1>3. CASE JobGone(j)
    <2>1. /\ UNCHANGED <<manifests, blobs, overlapped, keep>>
          /\ jobs' = [jobs EXCEPT ![j] = "none"]
      BY <1>3 DEF JobGone, registryVars
    <2>2. \A k \in Jobs : jobs'[k] = "marked" => jobs[k] = "marked"
      BY <2>1, <1>t
    <2> QED
      BY <2>1, <2>2 DEF BlobsKept
  <1> QED
    BY <1>1, <1>2, <1>3 DEF JobStep

LEMMA BlobsFaults ==
  ASSUME BlobsKept, ImageInv, CallFails \/ PassExpires \/ ControllerDies
  PROVE  BlobsKept'
  <1>t. jobs \in [Jobs -> JobStates] /\ keep \in [Jobs -> SUBSET Refs]
    BY DEF ImageInv, BuildTypeOK, RegistryTypes
  <1>1. UNCHANGED registryVars
    BY DEF CallFails, PassExpires, ControllerDies
  <1>2. CASE UNCHANGED jobVars
    BY <1>1, <1>2, BlobsStay
  <1>3. CASE /\ jobs' = [jobs EXCEPT ![job] = "none"]
             /\ keep' = [keep EXCEPT ![job] = {}]
    <2>1. \A k \in Jobs : jobs'[k] = "marked" => jobs[k] = "marked" /\ keep'[k] = keep[k]
      BY <1>3, <1>t
    <2> QED
      BY <1>1, <2>1 DEF BlobsKept, registryVars
  <1> QED
    BY <1>2, <1>3 DEF CallFails, PassExpires, ControllerDies

LEMMA BlobsNext == BlobsKept /\ ImageInv /\ [BuildNext]_buildVars => BlobsKept'
  <1> SUFFICES ASSUME BlobsKept, ImageInv, [BuildNext]_buildVars
               PROVE  BlobsKept'
    OBVIOUS
  <1>1. CASE Roll \/ ImagesDue \/ StorageDue \/ \E b \in Builds : Age(b)
    BY <1>1, BlobsStay DEF Roll, ImagesDue, StorageDue, Age, TimeFrame
  <1>2. CASE UserFrame
    BY <1>2, BlobsStay DEF UserFrame
  <1>3. CASE UserStep
    <2>1. UserFrame \/ \E b \in Builds : Age(b)
      BY <1>3 DEF UserStep, Submit, Materialise, StopPod, RemoveWorkload, Converge, CliRetire,
         CliLabel, CliEnds
    <2> QED
      BY <2>1, <1>1, <1>2
  <1>4. CASE UNCHANGED buildVars
    BY <1>4, BlobsStay DEF buildVars
  <1> QED
    BY <1>1, <1>3, <1>4, BlobsController, BlobsJob, BlobsFaults DEF BuildNext

\* For any number of collection jobs, also ones that a dead controller has left
\* behind: the blobs under every Active image outlive every collection of the
\* storage (repository.py:1256-1366), unless something was pushed while a job
\* was running.
THEOREM ActiveBlobsStay == BuildSpec => []ActiveIntact
  <1>1. BuildInit => BlobsKept
    BY DEF BuildInit, BlobsKept
  <1>2. BuildSpec => []BlobsKept
    BY <1>1, BlobsNext, ImagesAlways, PTL DEF BuildSpec
  <1>3. BlobsKept /\ ImageInv => ActiveIntact
    BY DEF BlobsKept, ImageInv, UsedRefs, ActiveIntact
  <1> QED
    BY <1>2, <1>3, ImagesAlways, PTL
=============================================================================
