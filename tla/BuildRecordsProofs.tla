------------------------- MODULE BuildRecordsProofs -------------------------
(***************************************************************************)
(* Proofs about the records of BuildController, for every set of builds,   *)
(* worktrees, images and collection jobs and every number of faults.       *)
(*                                                                         *)
(* Two records of a worktree are not left Active by builds that were       *)
(* reconciled to their ends, and what a collection has deleted is marked.  *)
(* Both depend on copies: the controller and the command that removes a    *)
(* workload write records back as they have read them, so the invariants   *)
(* say what still agrees with a copy when it is written.                   *)
(***************************************************************************)
EXTENDS BuildControllerProofs

EndedPhases == {"Succeeded", "Failed"}
Ended(b) == rec[b].phase \in EndedPhases

\* The controller is at one of the steps, or at the patch of a label before it.
Toward(steps) == pc \in steps \/ (pc = "label" /\ patch.next \in steps)

Publishing == {"run", "start", "upload", "put", "succeed"}
Retiring   == {"retire", "retiring"}
Building   == Reconciling \cup {"failing"}
-----------------------------------------------------------------------------
(* The lives of the records.                                               *)

\* An image comes with the end of the build, and a record that has none names
\* no refs.
ImageAfterEnd ==
    \A b \in Builds : /\ ~Ended(b) => rec[b].image = "Pending"
                      /\ rec[b].image = "Pending" => rec[b].refs = <<>>

\* What the controller is about to publish has not ended, what it retires for has.
BuildAtHand ==
    /\ Toward(Building) => build \notin todo
    /\ \A b \in todo : ~Ended(b)
    /\ Toward(Publishing) => ~Ended(build)
    /\ Toward(Retiring) => Ended(build)

\* A copy is of a build that has ended, and names the refs the record names,
\* unless the build was marked failed meanwhile.
CopyOf(records) ==
    \A b \in DOMAIN records :
        /\ Ended(b) /\ records[b].phase \in EndedPhases
        /\ rec[b].image = "Pending" \/ rec[b].refs = records[b].refs

CopiesAgree ==
    /\ CopyOf(snap) /\ CopyOf(cli.snap)
    /\ \A b \in DOMAIN snap \cap DOMAIN cli.snap : snap[b].refs = cli.snap[b].refs
    /\ cli.on # Nil => Ended(cli.on) /\ rec[cli.on].image # "Active"

\* A label that is patched late does not hide an Active record.
LateLabel == pc = "label" /\ rec[patch.on].image = "Active" => patch.want = "Active"

\* The record at hand is labelled before the older ones are looked for.
LabelledFirst ==
    /\ pc \in Retiring => (rec[build].image = "Active" => rec[build].label = "Active")
    /\ pc = "label" /\ patch.next = "retire" => patch.on = build /\ patch.want = "Active"
    /\ pc = "label" /\ patch.next = "retiring" =>
           (rec[build].image = "Active" => rec[build].label = "Active")

\* Every older Active record of the worktree is on the list.
RetiresAll ==
    Toward({"retiring"}) =>
        \A c \in finished \ {build} :
            TreeOf[c] = TreeOf[build] /\ rec[c].image = "Active" => c \in DOMAIN snap

FinishedLabelled ==
    \A b \in finished : Ended(b) /\ (rec[b].image = "Active" => rec[b].label = "Active")

\* A failed patch of a label leads on to the failure of the build it belongs to.
LabelFailsOut ==
    /\ patch.error \notin Publishing \cup Retiring
    /\ pc = "label" /\ patch.error \in Building => patch.next \in Building

\* What the records agree on, and what the controller knows of them at its steps.
RecordsAgree == ImageAfterEnd /\ CopiesAgree /\ FinishedLabelled /\ OneFinishedActive
StepsAgree == BuildAtHand /\ LateLabel /\ LabelledFirst /\ RetiresAll /\ LabelFailsOut

RecordsInv == RecordsAgree /\ StepsAgree
-----------------------------------------------------------------------------
(* Steps by what they do to the records.                                   *)

\* Every record that a step writes is settled, except the one it publishes: no
\* other record ends or becomes Active, and refs come from a copy.
Settles ==
    \A b \in Builds :
        /\ Ended(b) => Ended(b)'
        /\ Ended(b)' => Ended(b) \/ b = build
        /\ ~Ended(b)' => rec'[b].image = "Pending"
        /\ rec'[b].image = "Pending" => rec'[b].refs = <<>>
        /\ rec'[b].image = "Active" => rec[b].image = "Active"
        /\ rec'[b].image = "Active" /\ rec[b].label = "Active" => rec'[b].label = "Active"
        /\ \/ rec'[b].image = "Pending"
           \/ rec[b].image # "Pending" /\ rec'[b].refs = rec[b].refs
           \/ b \in DOMAIN snap /\ rec'[b].refs = snap[b].refs
           \/ b \in DOMAIN cli.snap /\ rec'[b].refs = cli.snap[b].refs

\* Some of the records that were read.
Part(some, records) ==
    DOMAIN some \subseteq DOMAIN records /\ \A b \in DOMAIN some : some[b] = records[b]

LEMMA PartOfAll == \A records : Part(records, records) /\ Part(<<>>, records)
  BY DEF Part

LEMMA WithoutIsPart == \A records, b : Part(Without(records, b), records)
  BY DEF Part, Without

LEMMA SettledRecords ==
  ASSUME ImageInv, RecordsAgree, Settles, UNCHANGED finished,
         Part(snap', snap), Part(cli.snap', cli.snap),
         (cli.on # Nil => Ended(cli.on) /\ rec[cli.on].image # "Active")'
  PROVE  RecordsAgree'
  <1>1. DOMAIN snap \subseteq Builds /\ DOMAIN cli.snap \subseteq Builds /\ finished \subseteq Builds
    BY DEF ImageInv, BuildTypeOK, LocalTypes, UserTypes, RecordTypes
  <1>2. ImageAfterEnd'
    BY DEF Settles, ImageAfterEnd
  <1>3. ASSUME NEW records, records = snap \/ records = cli.snap, NEW b \in DOMAIN records
        PROVE  /\ Ended(b)' /\ records[b].phase \in EndedPhases
               /\ rec'[b].image = "Pending" \/ rec'[b].refs = records[b].refs
    <2>1. b \in Builds
      BY <1>1, <1>3
    <2>2. CopyOf(records)
      BY <1>3 DEF RecordsAgree, CopiesAgree
    <2>3. b \in DOMAIN snap \cap DOMAIN cli.snap => snap[b].refs = cli.snap[b].refs
      BY DEF RecordsAgree, CopiesAgree
    <2> QED
      BY <1>3, <2>1, <2>2, <2>3 DEF Settles, CopyOf
  <1>4. CopyOf(snap)'
    BY <1>3 DEF CopyOf, Part
  <1>5. CopyOf(cli.snap)'
    BY <1>3 DEF CopyOf, Part
  <1>6. CopiesAgree'
    <2>1. \A b \in DOMAIN snap' \cap DOMAIN cli'.snap : snap'[b].refs = cli'.snap[b].refs
      BY DEF CopiesAgree, RecordsAgree, Part
    <2> QED
      BY <1>4, <1>5, <2>1 DEF CopiesAgree
  <1>7. FinishedLabelled'
    BY <1>1 DEF FinishedLabelled, RecordsAgree, Settles
  <1>8. OneFinishedActive'
    BY <1>1 DEF OneFinishedActive, RecordsAgree, Settles
  <1> QED
    BY <1>2, <1>6, <1>7, <1>8 DEF RecordsAgree

\* Nobody writes a record.
LEMMA UnwrittenSettles ==
  ASSUME RecordsAgree, UNCHANGED rec
  PROVE  Settles /\ \A b \in Builds : Ended(b)' <=> Ended(b)
  BY DEF Settles, Ended, RecordsAgree, ImageAfterEnd

\* A label is patched which the record's image should have.
LEMMA LabelSettles ==
  ASSUME ImageInv, RecordsAgree, NEW c \in Builds, NEW l,
         rec' = [rec EXCEPT ![c].label = l], rec[c].image = "Active" => l = "Active"
  PROVE  /\ Settles /\ \A b \in Builds : (Ended(b)' <=> Ended(b)) /\ rec'[b].image = rec[b].image
         /\ rec'[c].label = l
  <1>1. rec \in [Builds -> Records] /\ rec[c] \in Records
    BY DEF ImageInv, BuildTypeOK, RecordTypes
  <1>2. /\ rec'[c].phase = rec[c].phase /\ rec'[c].image = rec[c].image
        /\ rec'[c].refs = rec[c].refs /\ rec'[c].label = l
        /\ \A b \in Builds \ {c} : rec'[b] = rec[b]
    BY <1>1 DEF Records
  <1>3. \A b \in Builds : Ended(b)' <=> Ended(b)
    BY <1>2 DEF Ended
  <1> QED
    BY <1>2, <1>3 DEF Settles, RecordsAgree, ImageAfterEnd

\* A record is written back from a copy, retired or collected.
LEMMA CopySettles ==
  ASSUME ImageInv, RecordsAgree, NEW records, records = snap \/ records = cli.snap,
         NEW c \in DOMAIN records, NEW i \in {"Retired", "Collected"},
         rec' = Written(c, records[c].phase, i, records[c].refs)
  PROVE  /\ Settles /\ \A b \in Builds : Ended(b)' <=> Ended(b)
         /\ c \in Builds /\ rec'[c].image = i /\ rec'[c].refs = records[c].refs
         /\ rec'[c].label = rec[c].label
         /\ \A b \in Builds \ {c} : rec'[b] = rec[b]
  <1>1. /\ rec \in [Builds -> Records] /\ c \in Builds /\ records[c] \in Records
        /\ Ended(c) /\ records[c].phase \in EndedPhases
    BY DEF ImageInv, BuildTypeOK, RecordTypes, LocalTypes, UserTypes, RecordsAgree, CopiesAgree,
       CopyOf
  <1>2. /\ records[c].phase \in BuildPhases /\ records[c].refs \in Images \cup {<<>>}
        /\ i \in ImagePhases /\ i \notin {"Pending", "Active"}
    BY <1>1 DEF Records, ImagePhases
  <1>3. /\ \A b \in Builds \ {c} : rec'[b] = rec[b]
        /\ rec'[c].phase = records[c].phase /\ rec'[c].image = i
        /\ rec'[c].refs = records[c].refs /\ rec'[c].label = rec[c].label
    BY <1>1, <1>2, WrittenIs
  <1>4. \A b \in Builds : Ended(b)' <=> Ended(b)
    BY <1>1, <1>3 DEF Ended
  <1>5. Settles
    BY <1>1, <1>2, <1>3, <1>4 DEF Settles, RecordsAgree, ImageAfterEnd
  <1> QED
    BY <1>1, <1>3, <1>4, <1>5

\* A build starts or has failed: its record has no image.
LEMMA NoImageSettles ==
  ASSUME ImageInv, RecordsAgree, build \in Builds, NEW phase \in BuildPhases,
         phase \in EndedPhases \/ ~Ended(build),
         rec' = Written(build, phase, "Pending", <<>>), UNCHANGED build
  PROVE  /\ Settles /\ (Ended(build)' <=> phase \in EndedPhases)
         /\ rec'[build].image = "Pending" /\ rec'[build].refs = <<>>
         /\ rec'[build].label = rec[build].label
         /\ \A b \in Builds \ {build} : rec'[b] = rec[b] /\ (Ended(b)' <=> Ended(b))
  <1>1. rec \in [Builds -> Records] /\ "Pending" \in ImagePhases
    BY DEF ImageInv, BuildTypeOK, RecordTypes, ImagePhases
  <1>2. /\ \A b \in Builds \ {build} : rec'[b] = rec[b]
        /\ rec'[build].phase = phase /\ rec'[build].image = "Pending"
        /\ rec'[build].refs = <<>> /\ rec'[build].label = rec[build].label
    BY <1>1, WrittenIs
  <1>3. /\ Ended(build)' <=> phase \in EndedPhases
        /\ \A b \in Builds \ {build} : Ended(b)' <=> Ended(b)
    BY <1>2 DEF Ended
  <1>4. Settles
    BY <1>2, <1>3 DEF Settles, RecordsAgree, ImageAfterEnd
  <1> QED
    BY <1>2, <1>3, <1>4

-----------------------------------------------------------------------------
(* Steps by where they lead the controller.                                *)

LEMMA BuildKnown ==
  ASSUME ImageInv, Toward(Building)
  PROVE  build \in Builds
  <1>1. \A s \in Fit : s \in Building => build \in Builds
    BY DEF Fit, Building
  <1>2. pc = "label" => patch.next \in Fit
    BY DEF ImageInv, Control, Fit
  <1>3. pc # "label" => pc \in Fit
    BY DEF ImageInv, Control
  <1>4. "label" \notin Building
    BY DEF Reconciling, Building
  <1> QED
    BY <1>1, <1>2, <1>3, <1>4 DEF Toward

LEMMA LabelKnown ==
  ASSUME ImageInv, pc = "label"
  PROVE  /\ patch.on \in Builds /\ patch.next \in Fit /\ patch.error \in Fit
  BY DEF ImageInv, Control, Fit

\* A step of somebody else.
LEMMA StepsStay ==
  ASSUME ImageInv, StepsAgree, Settles, \A b \in Builds : Ended(b)' <=> Ended(b),
         UNCHANGED <<pc, patch, todo, build, snap, finished>>
  PROVE  StepsAgree'
  <1>1. /\ todo \subseteq Builds /\ finished \subseteq Builds
        /\ pc = "label" => patch.on \in Builds
        /\ Toward(Publishing \cup Retiring) => build \in Builds
    BY LabelKnown, BuildKnown DEF ImageInv, BuildTypeOK, LocalTypes, RecordTypes, Toward,
       Publishing, Retiring, Reconciling, Building
  <1>2. BuildAtHand'
    BY <1>1 DEF StepsAgree, BuildAtHand, Toward
  <1>3. LateLabel' /\ LabelFailsOut'
    BY <1>1 DEF StepsAgree, LateLabel, LabelFailsOut, Settles
  <1>4. LabelledFirst'
    BY <1>1 DEF StepsAgree, LabelledFirst, Settles, Toward, Retiring
  <1>5. RetiresAll'
    BY <1>1 DEF StepsAgree, RetiresAll, Settles, Toward
  <1> QED
    BY <1>2, <1>3, <1>4, <1>5 DEF StepsAgree

\* The controller goes on, and not into the retirement of older images.
LEMMA StepsGoOn ==
  ASSUME StepsAgree, UNCHANGED rec, patch' \in {patch, NoPatch},
         pc' # "label", pc' \notin Retiring, pc' \in Publishing => ~Ended(build'),
         pc' \in Building => build' \notin todo', \A b \in todo' : ~Ended(b)
  PROVE  StepsAgree'
  <1>1. BuildAtHand'
    BY DEF StepsAgree, BuildAtHand, Toward, Ended, Building
  <1> QED
    BY <1>1 DEF StepsAgree, LateLabel, LabelledFirst, RetiresAll, LabelFailsOut, Toward,
       Publishing, Retiring, NoPatch

\* The same with what it has at hand.
LEMMA StepsMove ==
  ASSUME StepsAgree, UNCHANGED <<rec, patch, todo, build>>, pc' # "label",
         pc' \notin Retiring, pc' \in Publishing => pc \in Publishing,
         pc' \in Building => pc \in Building
  PROVE  StepsAgree'
  BY StepsGoOn DEF StepsAgree, BuildAtHand, Toward

\* The patch of a status.
LEMMA StepsPatch ==
  ASSUME StepsAgree, NEW b, NEW phase, NEW i, NEW refs, NEW next, NEW error,
         PatchStatus(b, phase, i, refs, next, error),
         rec'[b].image = i, rec'[b].label = rec[b].label,
         build \notin todo \/ {next, error} \cap Building = {},
         error \in Building => next \in Building,
         next # "label", error # "label", error \notin Publishing \cup Retiring,
         next \in Publishing => ~Ended(build)',
         next \in Retiring => Ended(build)',
         \A c \in todo : ~Ended(c)',
         next = "retire" => b = build /\ i = "Active",
         next = "retiring" => /\ rec'[build].image = "Active" => rec'[build].label = "Active"
                              /\ \A c \in finished \ {build} :
                                     TreeOf[c] = TreeOf[build] /\ rec'[c].image = "Active"
                                         => c \in DOMAIN snap'
  PROVE  StepsAgree'
  <1>1. UNCHANGED <<todo, build, finished>>
    BY DEF PatchStatus, buildLocals
  <1>2. \/ UNCHANGED patch /\ (pc' = error \/ (pc' = next /\ rec[b].label = i))
        \/ pc' = "label" /\ patch' = [on |-> b, want |-> i, next |-> next, error |-> error]
    BY DEF PatchStatus
  <1>a. "label" \notin Publishing \cup Retiring \cup Building
    BY DEF Publishing, Retiring, Building, Reconciling
  <1>b. patch'.next = next \/ pc' # "label"
    BY <1>2
  <1>3. BuildAtHand'
    <2>1. \A S : Toward(S)' => pc' \in S \/ (pc' = "label" /\ next \in S)
      BY <1>b DEF Toward
    <2>2. (Toward(Building) => build \notin todo)'
      BY <1>1, <1>2, <1>a, <2>1
    <2>3. (Toward(Publishing) => ~Ended(build))'
      BY <1>1, <1>2, <1>a, <2>1
    <2>4. (Toward(Retiring) => Ended(build))'
      BY <1>1, <1>2, <1>a, <2>1
    <2>5. (\A c \in todo : ~Ended(c))'
      BY <1>1
    <2> QED
      BY <2>2, <2>3, <2>4, <2>5 DEF BuildAtHand
  <1>4. LateLabel' /\ LabelFailsOut'
    BY <1>2 DEF StepsAgree, LateLabel, LabelFailsOut
  <1>5. LabelledFirst'
    BY <1>1, <1>2 DEF LabelledFirst, Retiring
  <1>6. RetiresAll'
    BY <1>1, <1>2 DEF RetiresAll, Toward, Retiring
  <1> QED
    BY <1>3, <1>4, <1>5, <1>6 DEF StepsAgree

\* Where an exception is caught.
LEMMA HandlerOut ==
  ASSUME ImageInv, StepsAgree
  PROVE  /\ Handler # "label" /\ Handler \notin Publishing \cup Retiring
         /\ Handler \in Building => Toward(Building)
  <1>1. CASE pc = "label"
    <2>1. Handler = patch.error /\ patch.error \in Fit
      BY <1>1, LabelKnown DEF Handler, Reconciling, Collecting
    <2> QED
      BY <1>1, <2>1 DEF StepsAgree, LabelFailsOut, Toward, Fit
  <1>2. CASE pc # "label"
    <2>1. Handler \in {"failing", "look", "giveback", "check", "clear", "restore", "list"}
      BY <1>2 DEF Handler
    <2>2. Handler = "failing" => pc \in Reconciling
      BY <1>2 DEF Handler
    <2>3. {"failing", "look", "giveback", "check", "clear", "restore", "list"}
              \cap (Publishing \cup Retiring \cup {"label"}) = {}
      BY DEF Publishing, Retiring
    <2>4. Handler \in Building => Handler = "failing"
      BY <2>1 DEF Building, Reconciling
    <2> QED
      BY <2>1, <2>2, <2>3, <2>4 DEF Toward, Building
  <1> QED
    BY <1>1, <1>2

-----------------------------------------------------------------------------
(* Steps that write no record.                                             *)

LEMMA RecordsMove ==
  ASSUME ImageInv, RecordsInv, UNCHANGED <<rec, finished, cli>>, Part(snap', snap),
         patch' \in {patch, NoPatch},
         pc' # "label", pc' \notin Retiring, pc' \in Publishing => ~Ended(build'),
         pc' \in Building => build' \notin todo', \A b \in todo' : ~Ended(b)
  PROVE  RecordsInv'
  <1>1. RecordsAgree /\ StepsAgree
    BY DEF RecordsInv
  <1>2. Settles /\ Part(cli.snap', cli.snap)
    BY <1>1, UnwrittenSettles, PartOfAll
  <1>3. (cli.on # Nil => Ended(cli.on) /\ rec[cli.on].image # "Active")'
    BY <1>1 DEF RecordsAgree, CopiesAgree, Ended
  <1>4. RecordsAgree'
    BY <1>1, <1>2, <1>3, SettledRecords
  <1>5. StepsAgree'
    BY <1>1, StepsGoOn
  <1> QED
    BY <1>4, <1>5 DEF RecordsInv

\* The controller moves and keeps its locals, perhaps to where an exception of
\* the call is caught.
LEMMA RecordsGo ==
  ASSUME ImageInv, RecordsInv, UNCHANGED <<rec, patch, finished, cli, todo, build>>,
         Part(snap', snap), pc # "label",
         pc' = Handler \/ (/\ pc' # "label" /\ pc' \notin Retiring
                           /\ pc' \in Publishing => pc \in Publishing
                           /\ pc' \in Building => pc \in Building)
  PROVE  RecordsInv'
  <1>1. StepsAgree
    BY DEF RecordsInv
  <1>2. Handler \in Building => pc \in Building
    BY <1>1, HandlerOut DEF Toward
  <1>3. /\ pc \in Building => build \notin todo
        /\ pc \in Publishing => ~Ended(build)
        /\ \A b \in todo : ~Ended(b)
    BY <1>1 DEF StepsAgree, BuildAtHand, Toward
  <1>4. /\ pc' # "label" /\ pc' \notin Retiring
        /\ pc' \in Publishing => pc \in Publishing
        /\ pc' \in Building => pc \in Building
    BY <1>1, <1>2, HandlerOut
  <1> QED
    BY <1>3, <1>4, RecordsMove

\* A label is patched, and the controller goes on to the step after it.
LEMMA RecordsLabel ==
  ASSUME ImageInv, RecordsInv, PatchLabel
  PROVE  RecordsInv'
  <1>1. /\ pc = "label" /\ patch' = NoPatch
        /\ rec' = [rec EXCEPT ![patch.on].label = patch.want]
        /\ pc' \in {patch.next, Handler}
        /\ UNCHANGED <<todo, build, snap, cli, finished>>
    BY DEF PatchLabel, Reply, buildLocals, userVars
  <1>2. RecordsAgree /\ StepsAgree
    BY DEF RecordsInv
  <1>3. /\ patch.on \in Builds /\ patch.next \in Fit
        /\ rec[patch.on].image = "Active" => patch.want = "Active"
    BY <1>1, <1>2, LabelKnown DEF StepsAgree, LateLabel
  <1>4. /\ Settles /\ rec'[patch.on].label = patch.want
        /\ \A b \in Builds : (Ended(b)' <=> Ended(b)) /\ rec'[b].image = rec[b].image
    BY <1>1, <1>2, <1>3, LabelSettles
  <1>5. (cli.on # Nil => Ended(cli.on) /\ rec[cli.on].image # "Active")'
    BY <1>1, <1>2, <1>4 DEF RecordsAgree, CopiesAgree, ImageInv, BuildTypeOK, UserTypes
  <1>6. RecordsAgree'
    BY <1>1, <1>2, <1>4, <1>5, PartOfAll, SettledRecords
  <1>7. pc' # "label" /\ (Handler \notin Publishing \cup Retiring)
        /\ (pc' \in Building => Toward(Building))
    BY <1>1, <1>2, <1>3, HandlerOut DEF Fit, Toward
  <1>8. Toward(Building) => build \in Builds
    BY BuildKnown
  <1>9. Publishing \cup Retiring \subseteq Building
    BY DEF Publishing, Retiring, Building, Reconciling
  <1>10. BuildAtHand'
    <2>1. todo \subseteq Builds
      BY DEF ImageInv, BuildTypeOK, LocalTypes
    <2>2. (\A b \in todo : ~Ended(b))'
      BY <1>1, <1>2, <1>4, <2>1 DEF StepsAgree, BuildAtHand
    <2>3. (Toward(Building) => build \notin todo)'
      BY <1>1, <1>2, <1>7 DEF StepsAgree, BuildAtHand, Toward
    <2>4. (Toward(Publishing) => ~Ended(build))'
      BY <1>1, <1>2, <1>4, <1>7, <1>8, <1>9 DEF StepsAgree, BuildAtHand, Toward
    <2>5. (Toward(Retiring) => Ended(build))'
      BY <1>1, <1>2, <1>4, <1>7, <1>8, <1>9 DEF StepsAgree, BuildAtHand, Toward
    <2> QED
      BY <2>2, <2>3, <2>4, <2>5 DEF BuildAtHand
  <1>11. LateLabel' /\ LabelFailsOut'
    BY <1>1, <1>7 DEF LateLabel, LabelFailsOut, NoPatch, Publishing, Retiring
  <1>12. LabelledFirst'
    <2>1. pc' = "retire" => rec'[build].label = "Active"
      BY <1>1, <1>2, <1>4, <1>7 DEF StepsAgree, LabelledFirst, Retiring
    <2>2. pc' = "retiring" => (rec'[build].image = "Active" => rec'[build].label = "Active")
      <3>1. CASE pc' = "retiring"
        <4>1. /\ patch.next = "retiring" /\ build \in Builds
              /\ rec[build].image = "Active" => rec[build].label = "Active"
          BY <1>1, <1>2, <1>7, <1>8, <3>1 DEF StepsAgree, LabelledFirst, Retiring, Building,
             Reconciling
        <4> QED
          BY <1>4, <4>1 DEF Settles
      <3> QED
        BY <3>1
    <2> QED
      BY <1>1, <1>7, <2>1, <2>2 DEF LabelledFirst, Retiring
  <1>13. RetiresAll'
    <2>1. finished \subseteq Builds
      BY DEF ImageInv, BuildTypeOK, RecordTypes
    <2>2. Toward({"retiring"})' => Toward({"retiring"})
      BY <1>1, <1>7 DEF Toward, Retiring
    <2> QED
      BY <1>1, <1>2, <1>4, <2>1, <2>2 DEF StepsAgree, RetiresAll
  <1> QED
    BY <1>6, <1>10, <1>11, <1>12, <1>13 DEF RecordsInv, StepsAgree

\* A patch that settles the records.
LEMMA RecordsSettle ==
  ASSUME ImageInv, RecordsInv, Settles, UNCHANGED <<cli, finished>>, Part(snap', snap)
  PROVE  RecordsAgree'
  <1>1. RecordsAgree
    BY DEF RecordsInv
  <1>2. cli.on \in Builds \cup {Nil}
    BY DEF ImageInv, BuildTypeOK, UserTypes
  <1>3. (cli.on # Nil => Ended(cli.on) /\ rec[cli.on].image # "Active")'
    BY <1>1, <1>2 DEF RecordsAgree, CopiesAgree, Settles
  <1> QED
    BY <1>1, <1>3, PartOfAll, SettledRecords

-----------------------------------------------------------------------------
(* The steps of the pass over the build requests.                          *)

\* What the controller knows of the build at hand.
LEMMA AtHand ==
  ASSUME ImageInv, RecordsInv, pc \in Building
  PROVE  /\ build \in Builds /\ build \notin todo
         /\ pc \in Publishing => ~Ended(build)
         /\ pc \in Retiring => Ended(build)
         /\ todo \subseteq Builds /\ \A b \in todo : ~Ended(b)
  BY BuildKnown DEF RecordsInv, StepsAgree, BuildAtHand, Toward, ImageInv, BuildTypeOK,
     LocalTypes

LEMMA RecordsNextBuild ==
  ASSUME ImageInv, RecordsInv, NextBuild
  PROVE  RecordsInv'
  <1>1. /\ pc = "next" /\ snap' = <<>>
        /\ UNCHANGED <<rec, patch, finished, cli>>
        /\ \/ /\ pc' = "run" /\ build' \in todo /\ todo' = todo \ {build'}
           \/ pc' = "look" /\ UNCHANGED todo
    BY DEF NextBuild, recordVars, userVars
  <1>2. \A b \in todo : ~Ended(b)
    BY DEF RecordsInv, StepsAgree, BuildAtHand
  <1>3. pc' # "label" /\ pc' \notin Retiring /\ "look" \notin Publishing \cup Building
    BY <1>1 DEF Retiring, Publishing, Building, Reconciling
  <1>4. /\ pc' \in Publishing => ~Ended(build')
        /\ pc' \in Building => build' \notin todo'
        /\ \A b \in todo' : ~Ended(b)
    BY <1>1, <1>2, <1>3
  <1>5. Part(snap', snap)
    BY <1>1, PartOfAll
  <1> QED
    BY <1>1, <1>3, <1>4, <1>5, RecordsMove

LEMMA RecordsRun ==
  ASSUME ImageInv, RecordsInv, RunBuild
  PROVE  RecordsInv'
  <1>1. /\ pc = "run" /\ PatchStatus(build, "Running", "Pending", <<>>, "start", "failing")
        /\ UNCHANGED <<todo, build, snap, cli, finished>>
        /\ rec' = Written(build, "Running", "Pending", <<>>)
    BY DEF RunBuild, PatchStatus, Written, buildLocals, userVars
  <1>2. RecordsAgree /\ StepsAgree
    BY DEF RecordsInv
  <1>3. /\ build \in Builds /\ build \notin todo /\ ~Ended(build)
        /\ todo \subseteq Builds /\ \A b \in todo : ~Ended(b)
    BY <1>1, AtHand DEF Publishing, Building, Reconciling
  <1>4. "Running" \in BuildPhases /\ "Running" \notin EndedPhases
    BY DEF BuildPhases, EndedPhases
  <1>5. /\ Settles /\ ~Ended(build)' /\ rec'[build].image = "Pending"
        /\ rec'[build].label = rec[build].label
        /\ \A b \in Builds \ {build} : Ended(b)' <=> Ended(b)
    BY <1>1, <1>2, <1>3, <1>4, NoImageSettles
  <1>6. RecordsAgree'
    BY <1>1, <1>5, PartOfAll, RecordsSettle
  <1>7. /\ "start" \in Building /\ "start" \notin Retiring
        /\ "failing" \notin Publishing \cup Retiring
    BY DEF Publishing, Retiring, Building, Reconciling
  <1>8. StepsAgree'
    BY <1>1, <1>2, <1>3, <1>5, <1>7, StepsPatch
  <1> QED
    BY <1>6, <1>8 DEF RecordsInv

LEMMA RecordsSucceed ==
  ASSUME ImageInv, RecordsInv, MarkSucceeded
  PROVE  RecordsInv'
  <1>1. /\ pc = "succeed"
        /\ PatchStatus(build, "Succeeded", "Active", image, "retire", "failing")
        /\ UNCHANGED <<todo, build, snap, cli, finished>>
        /\ rec' = Written(build, "Succeeded", "Active", image)
    BY DEF MarkSucceeded, PatchStatus, Written, buildLocals, userVars
  <1>2. RecordsAgree /\ StepsAgree
    BY DEF RecordsInv
  <1>3. /\ build \in Builds /\ build \notin todo /\ ~Ended(build)
        /\ todo \subseteq Builds /\ \A b \in todo : ~Ended(b)
    BY <1>1, AtHand DEF Publishing, Building, Reconciling
  <1>4. image \in Images
    BY <1>1 DEF ImageInv, Control, Fit
  <1>5. /\ rec \in [Builds -> Records] /\ "Succeeded" \in BuildPhases
        /\ "Active" \in ImagePhases /\ "Succeeded" \in EndedPhases
    BY DEF ImageInv, BuildTypeOK, RecordTypes, BuildPhases, ImagePhases, EndedPhases
  <1>6. /\ \A b \in Builds \ {build} : rec'[b] = rec[b]
        /\ rec'[build].phase = "Succeeded" /\ rec'[build].image = "Active"
        /\ rec'[build].label = rec[build].label
    BY <1>1, <1>3, <1>4, <1>5, WrittenIs
  <1>7. Ended(build)' /\ \A b \in Builds \ {build} : Ended(b)' <=> Ended(b)
    BY <1>1, <1>3, <1>5, <1>6 DEF Ended
  <1>8. RecordsAgree'
    <2>1. /\ DOMAIN snap \subseteq Builds \ {build} /\ DOMAIN cli.snap \subseteq Builds \ {build}
          /\ finished \subseteq Builds \ {build}
          /\ cli.on \in (Builds \ {build}) \cup {Nil}
      BY <1>2, <1>3 DEF ImageInv, BuildTypeOK, LocalTypes, UserTypes, RecordTypes,
         RecordsAgree, CopiesAgree, CopyOf, FinishedLabelled
    <2>2. ImageAfterEnd'
      BY <1>1, <1>2, <1>6, <1>7 DEF RecordsAgree, ImageAfterEnd
    <2>3. CopyOf(snap)' /\ CopyOf(cli.snap)'
      BY <1>1, <1>2, <1>6, <1>7, <2>1 DEF RecordsAgree, CopiesAgree, CopyOf
    <2>4. CopiesAgree'
      BY <1>1, <1>2, <1>6, <1>7, <2>1, <2>3 DEF RecordsAgree, CopiesAgree
    <2>5. FinishedLabelled' /\ OneFinishedActive'
      BY <1>1, <1>2, <1>6, <1>7, <2>1 DEF RecordsAgree, FinishedLabelled, OneFinishedActive
    <2> QED
      BY <2>2, <2>4, <2>5 DEF RecordsAgree
  <1>9. /\ "retire" \in Building /\ "retire" \notin Publishing
        /\ "failing" \notin Publishing \cup Retiring
    BY DEF Publishing, Retiring, Building, Reconciling
  <1>10. StepsAgree'
    BY <1>1, <1>2, <1>3, <1>6, <1>7, <1>9, StepsPatch
  <1> QED
    BY <1>8, <1>10 DEF RecordsInv

LEMMA RecordsListRetirements ==
  ASSUME ImageInv, RecordsInv, ListRetirements
  PROVE  RecordsInv'
  <1>1. /\ pc = "retire" /\ pc' = "retiring"
        /\ snap' = Snapshot(LabelledActive(TreeOf[build]) \ {build})
        /\ UNCHANGED <<rec, patch, todo, build, cli, finished>>
    BY DEF ListRetirements, recordVars, buildLocals, userVars
  <1>2. RecordsAgree /\ StepsAgree
    BY DEF RecordsInv
  <1>3. /\ build \in Builds /\ build \notin todo /\ Ended(build)
        /\ todo \subseteq Builds /\ \A b \in todo : ~Ended(b)
    BY <1>1, AtHand DEF Retiring, Building, Reconciling
  <1>4. /\ DOMAIN snap' = LabelledActive(TreeOf[build]) \ {build}
        /\ \A b \in DOMAIN snap' : /\ snap'[b] = rec[b] /\ b \in Builds
                                   /\ rec[b].image = "Active"
    BY <1>1 DEF Snapshot, LabelledActive
  <1>5. RecordsAgree'
    <2>1. \A b \in DOMAIN snap' : rec[b].phase \in EndedPhases
      BY <1>2, <1>4 DEF RecordsAgree, ImageAfterEnd, Ended
    <2>2. CopyOf(snap)' /\ CopyOf(cli.snap)'
      BY <1>1, <1>2, <1>4, <2>1 DEF RecordsAgree, CopiesAgree, CopyOf, Ended
    <2>3. \A b \in DOMAIN snap' \cap DOMAIN cli'.snap : snap'[b].refs = cli'.snap[b].refs
      BY <1>1, <1>2, <1>4 DEF RecordsAgree, CopiesAgree, CopyOf
    <2>4. CopiesAgree'
      BY <1>1, <1>2, <2>2, <2>3 DEF RecordsAgree, CopiesAgree, Ended
    <2>5. ImageAfterEnd' /\ FinishedLabelled' /\ OneFinishedActive'
      BY <1>1, <1>2 DEF RecordsAgree, ImageAfterEnd, FinishedLabelled, OneFinishedActive, Ended
    <2> QED
      BY <2>4, <2>5 DEF RecordsAgree
  <1>6. BuildAtHand'
    BY <1>1, <1>3 DEF BuildAtHand, Toward, Publishing, Ended
  <1>7. LateLabel' /\ LabelFailsOut'
    BY <1>1, <1>2 DEF StepsAgree, LateLabel, LabelFailsOut
  <1>8. LabelledFirst'
    BY <1>1, <1>2 DEF StepsAgree, LabelledFirst, Retiring
  <1>9. RetiresAll'
    <2>1. \A c \in finished : c \in Builds /\ (rec[c].image = "Active" => rec[c].label = "Active")
      BY <1>2 DEF RecordsAgree, FinishedLabelled, ImageInv, BuildTypeOK, RecordTypes
    <2> QED
      BY <1>1, <1>4, <2>1 DEF RetiresAll, LabelledActive
  <1> QED
    BY <1>5, <1>6, <1>7, <1>8, <1>9 DEF RecordsInv, StepsAgree

LEMMA RecordsRetire ==
  ASSUME ImageInv, RecordsInv, RetireImage
  PROVE  RecordsInv'
  <1>1. PICK b \in DOMAIN snap :
            /\ PatchStatus(b, snap[b].phase, "Retired", snap[b].refs, "retiring", "failing")
            /\ snap' = Without(snap, b)
    BY DEF RetireImage
  <1>2. /\ pc = "retiring" /\ UNCHANGED <<todo, build, cli, finished>>
        /\ rec' = Written(b, snap[b].phase, "Retired", snap[b].refs)
    BY <1>1 DEF RetireImage, PatchStatus, Written, buildLocals, userVars
  <1>3. RecordsAgree /\ StepsAgree
    BY DEF RecordsInv
  <1>4. /\ build \in Builds /\ build \notin todo /\ Ended(build)
        /\ todo \subseteq Builds /\ \A c \in todo : ~Ended(c)
    BY <1>2, AtHand DEF Retiring, Building, Reconciling
  <1>5. /\ Settles /\ \A c \in Builds : Ended(c)' <=> Ended(c)
        /\ b \in Builds /\ rec'[b].image = "Retired" /\ rec'[b].label = rec[b].label
        /\ \A c \in Builds \ {b} : rec'[c] = rec[c]
    BY <1>2, <1>3, CopySettles
  <1>6. RecordsAgree'
    BY <1>1, <1>2, <1>5, WithoutIsPart, RecordsSettle
  <1>7. rec'[build].image = "Active" => rec'[build].label = "Active"
    BY <1>2, <1>3, <1>4, <1>5 DEF StepsAgree, LabelledFirst, Retiring
  <1>8. \A c \in finished \ {build} :
            TreeOf[c] = TreeOf[build] /\ rec'[c].image = "Active" => c \in DOMAIN snap'
    <2>1. /\ finished \subseteq Builds
          /\ \A c \in finished \ {build} :
                 TreeOf[c] = TreeOf[build] /\ rec[c].image = "Active" => c \in DOMAIN snap
      BY <1>2, <1>3 DEF StepsAgree, RetiresAll, Toward, ImageInv, BuildTypeOK, RecordTypes
    <2> QED
      BY <1>1, <1>5, <2>1 DEF Without
  <1>9. /\ "retiring" \in Building /\ "retiring" \notin Publishing
        /\ "failing" \notin Publishing \cup Retiring
    BY DEF Publishing, Retiring, Building, Reconciling
  <1>10. Ended(build)' /\ \A c \in todo : ~Ended(c)'
    BY <1>2, <1>4, <1>5
  <1>11. ASSUME NEW phase, NEW refs,
                PatchStatus(b, phase, "Retired", refs, "retiring", "failing")
         PROVE  StepsAgree'
    BY <1>3, <1>4, <1>5, <1>7, <1>8, <1>9, <1>10, <1>11, StepsPatch
  <1> QED
    BY <1>1, <1>6, <1>11 DEF RecordsInv

LEMMA RecordsFinish ==
  ASSUME ImageInv, RecordsInv, FinishBuild
  PROVE  RecordsInv'
  <1>1. /\ pc = "retiring" /\ snap = <<>> /\ pc' = "next" /\ finished' = finished \cup {build}
        /\ UNCHANGED <<rec, patch, todo, build, snap, cli>>
    BY DEF FinishBuild, recordVars, buildLocals, userVars
  <1>2. RecordsAgree /\ StepsAgree
    BY DEF RecordsInv
  <1>3. Ended(build) /\ \A b \in todo : ~Ended(b)
    BY <1>1, AtHand DEF Retiring, Building, Reconciling
  <1>4. rec[build].image = "Active" => rec[build].label = "Active"
    BY <1>1, <1>2 DEF StepsAgree, LabelledFirst, Retiring
  <1>5. \A c \in finished \ {build} : ~(TreeOf[c] = TreeOf[build] /\ rec[c].image = "Active")
    BY <1>1, <1>2 DEF StepsAgree, RetiresAll, Toward
  <1>6. FinishedLabelled' /\ OneFinishedActive'
    BY <1>1, <1>2, <1>3, <1>4, <1>5 DEF RecordsAgree, FinishedLabelled, OneFinishedActive, Ended
  <1>7. ImageAfterEnd' /\ CopiesAgree'
    BY <1>1, <1>2 DEF RecordsAgree, ImageAfterEnd, CopiesAgree, CopyOf, Ended
  <1>8. StepsAgree'
    BY <1>1, <1>2, <1>3, StepsGoOn DEF Retiring, Publishing, Building, Reconciling
  <1> QED
    BY <1>6, <1>7, <1>8 DEF RecordsInv, RecordsAgree

LEMMA RecordsFail ==
  ASSUME ImageInv, RecordsInv, MarkFailed
  PROVE  RecordsInv'
  <1>1. /\ pc = "failing" /\ PatchStatus(build, "Failed", "Pending", <<>>, "next", "look")
        /\ UNCHANGED <<todo, build, snap, cli, finished>>
        /\ rec' = Written(build, "Failed", "Pending", <<>>)
    BY DEF MarkFailed, PatchStatus, Written, buildLocals, userVars
  <1>2. RecordsAgree /\ StepsAgree
    BY DEF RecordsInv
  <1>3. /\ build \in Builds /\ build \notin todo
        /\ todo \subseteq Builds /\ \A b \in todo : ~Ended(b)
    BY <1>1, AtHand DEF Building
  <1>4. "Failed" \in BuildPhases /\ "Failed" \in EndedPhases
    BY DEF BuildPhases, EndedPhases
  <1>5. /\ Settles /\ rec'[build].image = "Pending" /\ rec'[build].label = rec[build].label
        /\ \A b \in Builds \ {build} : Ended(b)' <=> Ended(b)
    BY <1>1, <1>2, <1>3, <1>4, NoImageSettles
  <1>6. RecordsAgree'
    BY <1>1, <1>5, PartOfAll, RecordsSettle
  <1>7. {"next", "look"} \cap (Publishing \cup Retiring \cup Building) = {}
    BY DEF Publishing, Retiring, Building, Reconciling
  <1>8. StepsAgree'
    BY <1>1, <1>2, <1>3, <1>5, <1>7, StepsPatch
  <1> QED
    BY <1>6, <1>8 DEF RecordsInv

LEMMA RecordsBuildStep ==
  ASSUME ImageInv, RecordsInv, BuildStep
  PROVE  RecordsInv'
  <1>1. CASE ListBuilds
    <2>1. /\ pc' = "next" /\ todo' = {b \in Builds : IsActive(b)}
          /\ UNCHANGED <<rec, patch, finished, cli, snap>>
      BY <1>1 DEF ListBuilds, recordVars, userVars
    <2>2. \A b \in todo' : ~Ended(b)
      BY <2>1 DEF IsActive, Ended, EndedPhases
    <2>3. "next" \notin Publishing \cup Retiring \cup Building
      BY DEF Publishing, Retiring, Building, Reconciling
    <2> QED
      BY <2>1, <2>2, <2>3, PartOfAll, RecordsMove
  <1>2. CASE StartJobs
    <2>1. /\ pc = "start" /\ pc' = "upload"
          /\ UNCHANGED <<rec, patch, finished, cli, todo, build, snap>>
      BY <1>2 DEF StartJobs, recordVars, userVars
    <2>2. /\ {"start", "upload"} \subseteq Publishing \cap Building
          /\ "upload" \notin Retiring
      BY DEF Publishing, Retiring, Building, Reconciling
    <2> QED
      BY <2>1, <2>2, PartOfAll, RecordsGo
  <1>3. CASE UploadBlobs \/ PutManifest
    <2>1. /\ pc \in {"upload", "put"}
          /\ pc' \in {"failing", "upload", "put", "succeed", Handler}
          /\ UNCHANGED <<rec, patch, finished, cli, todo, build, snap>>
      BY <1>3 DEF UploadBlobs, PutManifest, Pushing, Reply, recordVars, userVars, buildLocals
    <2>2. /\ {"upload", "put"} \subseteq Publishing \cap Building
          /\ {"upload", "put", "succeed", "failing"} \cap Retiring = {}
          /\ "failing" \notin Publishing
      BY DEF Publishing, Retiring, Building, Reconciling
    <2> QED
      BY <2>1, <2>2, PartOfAll, RecordsGo
  <1> QED
    BY <1>1, <1>2, <1>3, RecordsNextBuild, RecordsRun, RecordsSucceed, RecordsListRetirements,
       RecordsRetire, RecordsFinish, RecordsFail DEF BuildStep

-----------------------------------------------------------------------------
(* The steps of the collections.                                           *)

LEMMA TodoKnown ==
  ASSUME RecordsInv
  PROVE  \A b \in todo : ~Ended(b)
  BY DEF RecordsInv, StepsAgree, BuildAtHand

\* What a record is written from that was read for its deletion.
LEMMA RecordsMark ==
  ASSUME ImageInv, RecordsInv, pc \in {"delete", "giveback"},
         NEW i \in {"Retired", "Collected"}, NEW next, NEW error,
         PatchStatus(build, snap[build].phase, i, snap[build].refs, next, error),
         {next, error} \cap (Publishing \cup Retiring \cup Building \cup {"label"}) = {},
         Part(snap', snap)
  PROVE  RecordsInv'
  <1>1. /\ UNCHANGED <<todo, build, cli, finished>>
        /\ rec' = Written(build, snap[build].phase, i, snap[build].refs)
    BY DEF PatchStatus, Written, buildLocals, userVars
  <1>2. RecordsAgree /\ StepsAgree
    BY DEF RecordsInv
  <1>3. build \in DOMAIN snap /\ todo \subseteq Builds
    BY DEF ImageInv, Control, Fit, Deleting, BuildTypeOK, LocalTypes
  <1>4. /\ Settles /\ \A c \in Builds : Ended(c)' <=> Ended(c)
        /\ rec'[build].image = i /\ rec'[build].label = rec[build].label
    BY <1>1, <1>2, <1>3, CopySettles
  <1>5. RecordsAgree'
    BY <1>1, <1>4, RecordsSettle
  <1>6. \A c \in todo : ~Ended(c)'
    BY <1>3, <1>4, TodoKnown
  <1>7. /\ next # "label" /\ error # "label" /\ next \notin Publishing /\ next \notin Retiring
        /\ error \notin Publishing \cup Retiring /\ error \notin Building
        /\ {next, error} \cap Building = {} /\ next # "retire" /\ next # "retiring"
    BY DEF Retiring
  <1>8. ASSUME NEW phase, NEW refs, PatchStatus(build, phase, i, refs, next, error)
        PROVE  StepsAgree'
    BY <1>2, <1>4, <1>6, <1>7, <1>8, StepsPatch
  <1> QED
    BY <1>5, <1>8 DEF RecordsInv

LEMMA RecordsInventory ==
  ASSUME ImageInv, RecordsInv, Inventory
  PROVE  RecordsInv'
  <1>1. /\ pc = "inventory" /\ pc' = "collect"
        /\ snap' = Snapshot({b \in Builds : Collectable(b)})
        /\ UNCHANGED <<rec, patch, todo, build, cli, finished>>
    BY DEF Inventory, recordVars, buildLocals, userVars
  <1>2. RecordsAgree /\ StepsAgree
    BY DEF RecordsInv
  <1>3. \A b \in DOMAIN snap' : /\ snap'[b] = rec[b] /\ b \in Builds
                                /\ rec[b].image = "Retired"
    BY <1>1 DEF Snapshot, Collectable
  <1>4. RecordsAgree'
    <2>1. \A b \in DOMAIN snap' : rec[b].phase \in EndedPhases
      BY <1>2, <1>3 DEF RecordsAgree, ImageAfterEnd, Ended
    <2>2. CopyOf(snap)' /\ CopyOf(cli.snap)'
      BY <1>1, <1>2, <1>3, <2>1 DEF RecordsAgree, CopiesAgree, CopyOf, Ended
    <2>3. \A b \in DOMAIN snap' \cap DOMAIN cli'.snap : snap'[b].refs = cli'.snap[b].refs
      BY <1>1, <1>2, <1>3 DEF RecordsAgree, CopiesAgree, CopyOf
    <2>4. CopiesAgree'
      BY <1>1, <1>2, <2>2, <2>3 DEF RecordsAgree, CopiesAgree, Ended
    <2>5. ImageAfterEnd' /\ FinishedLabelled' /\ OneFinishedActive'
      BY <1>1, <1>2 DEF RecordsAgree, ImageAfterEnd, FinishedLabelled, OneFinishedActive, Ended
    <2> QED
      BY <2>4, <2>5 DEF RecordsAgree
  <1>5. "collect" \notin Publishing \cup Retiring \cup Building
    BY DEF Publishing, Retiring, Building, Reconciling
  <1>6. StepsAgree'
    BY <1>1, <1>2, <1>5, TodoKnown, StepsGoOn
  <1> QED
    BY <1>4, <1>6 DEF RecordsInv

LEMMA RecordsCollectStep ==
  ASSUME ImageInv, RecordsInv, CollectStep
  PROVE  RecordsInv'
  <1>0. ({"mark", "check", "inventory", "delete", "giveback", "settle", "collect", "counted"}
            \cap (Publishing \cup Retiring \cup Building \cup {"label"})) = {}
    BY DEF Publishing, Retiring, Building, Reconciling
  <1>1. CASE Look
    <2>1. /\ pc' \in {"mark", "check"} /\ todo' = {} /\ snap' = <<>>
          /\ UNCHANGED <<rec, patch, finished, cli>>
      BY <1>1 DEF Look, recordVars, userVars
    <2> QED
      BY <1>0, <2>1, PartOfAll, RecordsMove
  <1>2. CASE MarkDirty \/ Settle
    <2>1. /\ pc \in {"mark", "settle"} /\ pc' \in {"inventory", "check", Handler}
          /\ UNCHANGED <<rec, patch, finished, cli, todo, build, snap>>
      BY <1>2 DEF MarkDirty, Settle, Reply, recordVars, userVars, buildLocals
    <2> QED
      BY <1>0, <2>1, PartOfAll, RecordsGo
  <1>3. CASE Collect
    <2>1. /\ pc' \in {"delete", "settle"} /\ snap' \in {snap, Without(snap, build)}
          /\ UNCHANGED <<rec, patch, finished, cli, todo>>
      BY <1>3 DEF Collect, recordVars, userVars
    <2>2. Part(snap', snap)
      BY <2>1, PartOfAll, WithoutIsPart
    <2> QED
      BY <1>0, <2>1, <2>2, TodoKnown, RecordsMove
  <1>4. CASE DeleteManifest
    <2>1. /\ pc = "delete" /\ pc' \in {"giveback", "delete", Handler}
          /\ UNCHANGED <<rec, patch, finished, cli, todo, build, snap>>
      BY <1>4 DEF DeleteManifest, Reply, recordVars, userVars, buildLocals
    <2> QED
      BY <1>0, <2>1, PartOfAll, RecordsGo
  <1>5. CASE MarkCollected
    <2>1. /\ pc = "delete" /\ snap' = snap
          /\ PatchStatus(build, snap[build].phase, "Collected", snap[build].refs, "counted",
                         "giveback")
      BY <1>5 DEF MarkCollected
    <2> QED
      BY <1>0, <2>1, PartOfAll, RecordsMark
  <1>6. CASE GiveBack
    <2>1. /\ pc = "giveback" /\ snap' = Without(snap, build)
          /\ PatchStatus(build, snap[build].phase, "Retired", snap[build].refs, "collect",
                         "check")
      BY <1>6 DEF GiveBack
    <2> QED
      BY <1>0, <2>1, WithoutIsPart, RecordsMark
  <1> QED
    BY <1>1, <1>2, <1>3, <1>4, <1>5, <1>6, RecordsInventory DEF CollectStep

LEMMA RecordsSweepStep ==
  ASSUME ImageInv, RecordsInv, SweepStep
  PROVE  RecordsInv'
  <1>0. (Sweeping \cup Restoring \cup {"list"})
            \cap (Publishing \cup Retiring \cup Building \cup {"label"}) = {}
    BY DEF Publishing, Retiring, Building, Reconciling, Sweeping, Restoring
  <1>1. CASE Check
    <2>1. /\ pc' \in Sweeping \cup {"list"} /\ snap' = <<>>
          /\ UNCHANGED <<rec, patch, finished, cli, todo>>
      BY <1>1 DEF Check, recordVars, userVars, Sweeping
    <2> QED
      BY <1>0, <2>1, PartOfAll, TodoKnown, RecordsMove
  <1>2. CASE ~Check
    <2>1. /\ pc # "label" /\ pc' \in Sweeping \cup Restoring \cup {"list", Handler}
          /\ UNCHANGED <<rec, patch, finished, cli, todo, build, snap>>
      BY <1>2 DEF SweepStep, Disable, Restore, SetMode, CreateJob, WaitJob, Undirty, Idle,
         Preflight, RolledOut, ClearNotice, OnlyMoves, Reply, recordVars, userVars,
         buildLocals, Sweeping, Restoring
    <2> QED
      BY <1>0, <2>1, PartOfAll, RecordsGo
  <1> QED
    BY <1>1, <1>2

LEMMA RecordsFaults ==
  ASSUME ImageInv, RecordsInv, CallFails \/ PassExpires \/ ControllerDies
  PROVE  RecordsInv'
  <1>0. {"list", "check", "restore"}
            \cap (Publishing \cup Retiring \cup Building \cup {"label"}) = {}
    BY DEF Publishing, Retiring, Building, Reconciling
  <1>1. CASE CallFails
    <2>1. /\ pc' = Handler /\ patch' = NoPatch
          /\ UNCHANGED <<rec, finished, cli, todo, build, snap>>
      BY <1>1 DEF CallFails, recordVars, userVars, buildLocals
    <2>2. StepsAgree /\ (Toward(Building) => build \notin todo)
      BY DEF RecordsInv, StepsAgree, BuildAtHand
    <2> QED
      BY <2>1, <2>2, HandlerOut, PartOfAll, TodoKnown, RecordsMove
  <1>2. CASE PassExpires
    <2>1. /\ pc' \in {"check", "list"}
          /\ UNCHANGED <<rec, finished, cli, todo, build, snap, patch>>
      BY <1>2 DEF PassExpires, recordVars, userVars, buildLocals
    <2> QED
      BY <1>0, <2>1, PartOfAll, TodoKnown, RecordsMove
  <1>3. CASE ControllerDies
    <2>1. /\ pc' = "restore" /\ snap' = <<>> /\ todo' = {} /\ patch' = NoPatch
          /\ UNCHANGED <<rec, finished, cli>>
      BY <1>3 DEF ControllerDies, recordVars, userVars
    <2> QED
      BY <1>0, <2>1, PartOfAll, RecordsMove
  <1> QED
    BY <1>1, <1>2, <1>3

-----------------------------------------------------------------------------
(* The steps of the others.                                                *)

LEMMA CliIs == \A records, b : Cli(records, b).snap = records /\ Cli(records, b).on = b
  BY DEF Cli, NoCli

LEMMA RecordsStay ==
  ASSUME ImageInv, RecordsInv, Settles, \A b \in Builds : Ended(b)' <=> Ended(b),
         UNCHANGED <<pc, patch, todo, build, snap, finished>>, Part(cli.snap', cli.snap),
         (cli.on # Nil => Ended(cli.on) /\ rec[cli.on].image # "Active")'
  PROVE  RecordsInv'
  BY PartOfAll, SettledRecords, StepsStay DEF RecordsInv

\* Neither the records nor the copies change.
LEMMA RecordsUnread ==
  ASSUME ImageInv, RecordsInv, UNCHANGED <<rec, cli>>,
         UNCHANGED <<pc, patch, todo, build, snap, finished>>
  PROVE  RecordsInv'
  <1>1. RecordsAgree
    BY DEF RecordsInv
  <1>2. (cli.on # Nil => Ended(cli.on) /\ rec[cli.on].image # "Active")'
    BY <1>1 DEF RecordsAgree, CopiesAgree, Ended
  <1>3. Part(cli.snap', cli.snap)
    BY PartOfAll
  <1>4. Settles /\ \A b \in Builds : Ended(b)' <=> Ended(b)
    BY <1>1, UnwrittenSettles
  <1> QED
    BY <1>2, <1>3, <1>4, RecordsStay

\* A request is submitted.
LEMMA RecordsSubmit ==
  ASSUME ImageInv, RecordsInv, NEW c \in Builds, Submit(c)
  PROVE  RecordsInv'
  <1>1. /\ rec[c].phase = "absent" /\ rec' = [rec EXCEPT ![c].phase = "Pending"]
        /\ UNCHANGED <<cli, pc, patch, todo, build, snap, finished>>
    BY DEF Submit, UserFrame, ctlVars, buildLocals
  <1>2. RecordsAgree /\ rec \in [Builds -> Records] /\ rec[c] \in Records
    BY DEF RecordsInv, ImageInv, BuildTypeOK, RecordTypes
  <1>3. /\ \A b \in Builds \ {c} : rec'[b] = rec[b]
        /\ rec'[c].phase = "Pending" /\ rec'[c].image = rec[c].image
        /\ rec'[c].refs = rec[c].refs /\ rec'[c].label = rec[c].label
    BY <1>1, <1>2 DEF Records
  <1>4. \A b \in Builds : Ended(b)' <=> Ended(b)
    BY <1>1, <1>3 DEF Ended, EndedPhases
  <1>5. Settles
    BY <1>2, <1>3, <1>4 DEF Settles, RecordsAgree, ImageAfterEnd
  <1>6. (cli.on # Nil => Ended(cli.on) /\ rec[cli.on].image # "Active")'
    BY <1>1, <1>2, <1>3, <1>4 DEF RecordsAgree, CopiesAgree, ImageInv, BuildTypeOK, UserTypes
  <1>7. Part(cli.snap', cli.snap)
    BY <1>1, PartOfAll
  <1> QED
    BY <1>1, <1>4, <1>5, <1>6, <1>7, RecordsStay

\* The command that removes a workload lists the Active records.
LEMMA RecordsRemove ==
  ASSUME ImageInv, RecordsInv, NEW t \in Trees, RemoveWorkload(t)
  PROVE  RecordsInv'
  <1>1. /\ cli'.snap = Snapshot(LabelledActive(t)) /\ cli'.on = Nil
        /\ UNCHANGED <<rec, pc, patch, todo, build, snap, finished>>
    BY CliIs DEF RemoveWorkload, UserFrame, ctlVars, buildLocals
  <1>2. RecordsAgree /\ StepsAgree
    BY DEF RecordsInv
  <1>3. \A b \in DOMAIN cli'.snap : /\ cli'.snap[b] = rec[b] /\ b \in Builds
                                    /\ rec[b].image = "Active"
    BY <1>1 DEF Snapshot, LabelledActive
  <1>4. RecordsAgree'
    <2>1. \A b \in DOMAIN cli'.snap : rec[b].phase \in EndedPhases
      BY <1>2, <1>3 DEF RecordsAgree, ImageAfterEnd, Ended
    <2>2. CopyOf(snap)' /\ CopyOf(cli.snap)'
      BY <1>1, <1>2, <1>3, <2>1 DEF RecordsAgree, CopiesAgree, CopyOf, Ended
    <2>3. \A b \in DOMAIN snap' \cap DOMAIN cli'.snap : snap'[b].refs = cli'.snap[b].refs
      BY <1>1, <1>2, <1>3 DEF RecordsAgree, CopiesAgree, CopyOf
    <2>4. CopiesAgree'
      BY <1>1, <2>2, <2>3 DEF CopiesAgree
    <2>5. ImageAfterEnd' /\ FinishedLabelled' /\ OneFinishedActive'
      BY <1>1, <1>2 DEF RecordsAgree, ImageAfterEnd, FinishedLabelled, OneFinishedActive, Ended
    <2> QED
      BY <2>4, <2>5 DEF RecordsAgree
  <1>5. StepsAgree'
    BY <1>1, <1>2, UnwrittenSettles, StepsStay
  <1> QED
    BY <1>4, <1>5 DEF RecordsInv

\* It retires them, and writes its copies back.
LEMMA RecordsCli ==
  ASSUME ImageInv, RecordsInv, CliRetire \/ CliLabel \/ CliEnds
  PROVE  RecordsInv'
  <1>0. RecordsAgree
    BY DEF RecordsInv
  <1>1. CASE CliRetire
    <2>1. PICK b \in DOMAIN cli.snap :
            /\ rec' = Written(b, cli.snap[b].phase, "Retired", cli.snap[b].refs)
            /\ cli' = Cli(Without(cli.snap, b), IF rec[b].label = "Retired" THEN Nil ELSE b)
      BY <1>1 DEF CliRetire, Written
    <2>2. UNCHANGED <<pc, patch, todo, build, snap, finished>>
      BY <1>1 DEF CliRetire, UserFrame, ctlVars, buildLocals
    <2>3. cli'.snap = Without(cli.snap, b) /\ cli'.on \in {Nil, b}
      BY <2>1, CliIs
    <2>4. /\ Settles /\ \A c \in Builds : Ended(c)' <=> Ended(c)
          /\ b \in Builds /\ rec'[b].image = "Retired"
      BY <1>0, <2>1, CopySettles
    <2>5. Ended(b)
      BY <1>0 DEF RecordsAgree, CopiesAgree, CopyOf
    <2>6. (cli.on # Nil => Ended(cli.on) /\ rec[cli.on].image # "Active")'
      BY <2>3, <2>4, <2>5
    <2>7. Part(cli.snap', cli.snap)
      BY <2>3, WithoutIsPart
    <2> QED
      BY <2>2, <2>4, <2>6, <2>7, RecordsStay
  <1>2. CASE CliLabel
    <2>1. /\ cli.on # Nil /\ rec' = [rec EXCEPT ![cli.on].label = "Retired"]
          /\ cli'.snap = cli.snap /\ cli'.on = Nil
          /\ UNCHANGED <<pc, patch, todo, build, snap, finished>>
      BY <1>2, CliIs DEF CliLabel, UserFrame, ctlVars, buildLocals
    <2>2. cli.on \in Builds /\ rec[cli.on].image # "Active"
      BY <1>0, <2>1 DEF RecordsAgree, CopiesAgree, ImageInv, BuildTypeOK, UserTypes
    <2>3. Settles /\ \A c \in Builds : Ended(c)' <=> Ended(c)
      BY <1>0, <2>1, <2>2, LabelSettles
    <2>4. Part(cli.snap', cli.snap)
      BY <2>1, PartOfAll
    <2> QED
      BY <2>1, <2>3, <2>4, RecordsStay
  <1>3. CASE CliEnds
    <2>1. /\ cli'.snap = <<>> /\ cli'.on = Nil
          /\ UNCHANGED <<rec, pc, patch, todo, build, snap, finished>>
      BY <1>3 DEF CliEnds, NoCli, UserFrame, ctlVars, buildLocals
    <2>2. Settles /\ \A c \in Builds : Ended(c)' <=> Ended(c)
      BY <1>0, <2>1, UnwrittenSettles
    <2>3. Part(cli.snap', cli.snap)
      BY <2>1, PartOfAll
    <2> QED
      BY <2>1, <2>2, <2>3, RecordsStay
  <1> QED
    BY <1>1, <1>2, <1>3

LEMMA RecordsOthers ==
  ASSUME ImageInv, RecordsInv,
         Roll \/ (\E j \in Jobs : JobStep(j)) \/ ImagesDue \/ StorageDue \/ UserStep
  PROVE  RecordsInv'
  <1>1. CASE Roll \/ (\E j \in Jobs : JobStep(j))
    <2>1. UNCHANGED <<recordVars, ctlVars, userVars, finished>>
      BY <1>1 DEF Roll, JobStep, JobMark, JobSweep, JobGone
    <2> QED
      BY <2>1, RecordsUnread DEF recordVars, ctlVars, buildLocals, userVars
  <1>2. CASE ImagesDue \/ StorageDue \/ \E b \in Builds : Age(b)
    <2>1. TimeFrame
      BY <1>2 DEF ImagesDue, StorageDue, Age
    <2> QED
      BY <2>1, RecordsUnread DEF TimeFrame, buildLocals, userVars
  <1>3. CASE Converge \/ \E t \in Trees : Materialise(t) \/ StopPod(t)
    <2>1. UNCHANGED <<rec, cli>> /\ UserFrame
      BY <1>3 DEF Converge, Materialise, StopPod
    <2> QED
      BY <2>1, RecordsUnread DEF UserFrame, ctlVars, buildLocals
  <1> QED
    BY <1>1, <1>2, <1>3, RecordsSubmit, RecordsRemove, RecordsCli DEF UserStep

-----------------------------------------------------------------------------
LEMMA RecordsInit == BuildInit => RecordsInv
  <1> SUFFICES ASSUME BuildInit
               PROVE  RecordsInv
    OBVIOUS
  <1>1. /\ pc = "restore" /\ patch = NoPatch /\ todo = {} /\ snap = <<>> /\ finished = {}
        /\ cli.snap = <<>> /\ cli.on = Nil
        /\ \A b \in Builds : rec[b] = NoRecord
    BY DEF BuildInit, NoCli
  <1>2. RecordsAgree
    BY <1>1 DEF RecordsAgree, ImageAfterEnd, CopiesAgree, CopyOf, FinishedLabelled,
       OneFinishedActive, NoRecord, Ended
  <1>3. StepsAgree
    BY <1>1 DEF StepsAgree, BuildAtHand, LateLabel, LabelledFirst, RetiresAll, LabelFailsOut,
       Toward, NoPatch, Publishing, Retiring, Building, Reconciling
  <1> QED
    BY <1>2, <1>3 DEF RecordsInv

LEMMA RecordsNext ==
  ImageInv /\ RecordsInv /\ [BuildNext]_buildVars => RecordsInv'
  <1> SUFFICES ASSUME ImageInv, RecordsInv, [BuildNext]_buildVars
               PROVE  RecordsInv'
    OBVIOUS
  <1>1. CASE ControllerStep
    BY <1>1, RecordsBuildStep, RecordsLabel, RecordsCollectStep, RecordsSweepStep
       DEF ControllerStep
  <1>2. CASE CallFails \/ PassExpires \/ ControllerDies
    BY <1>2, RecordsFaults
  <1>3. CASE Roll \/ (\E j \in Jobs : JobStep(j)) \/ ImagesDue \/ StorageDue \/ UserStep
    BY <1>3, RecordsOthers
  <1>4. CASE UNCHANGED buildVars
    BY <1>4, RecordsUnread DEF buildVars, recordVars, ctlVars, buildLocals, userVars
  <1> QED
    BY <1>1, <1>2, <1>3, <1>4 DEF BuildNext

LEMMA RecordsAlways == BuildSpec => []RecordsInv
  BY ImagesAlways, RecordsInit, RecordsNext, PTL DEF BuildSpec

\* Of the builds of a worktree that the controller has reconciled to their ends,
\* at most one is Active (controller.py:341-442, request.py:953-1005), although
\* labels are patched after the phases they stand for, retirements fail half way
\* and are never tried again, the controller dies between any two calls, and the
\* command that removes a workload retires records from a list of its own.
THEOREM OneActiveImage == BuildSpec => []OneFinishedActive
  <1>1. RecordsInv => OneFinishedActive
    BY DEF RecordsInv, RecordsAgree
  <1> QED
    BY <1>1, RecordsAlways, PTL

-----------------------------------------------------------------------------
(* What was deleted from the registry.                                     *)

Pass == {"inventory", "collect", "counted", "delete", "giveback", "settle"}

\* The image at hand has been deleted, and its record is being marked.
Marking == Toward({"counted"}) \/ pc = "giveback"

Covered(ref) == \E b \in Builds : rec[b].image = "Retired" /\ ref \in ToSet(rec[b].refs)

DroppedIsGone == dropped \cap manifests = {}

\* Nothing that the build at hand refers to has been deleted.
BuildIsFresh ==
    Toward(Building) =>
        /\ ToSet(rec[build].refs) \cap dropped = {}
        /\ ~Ended(build) \/ rec[build].image # "Pending"

\* An image of age is not Active, and no command is about to retire it.
AgedRetired ==
    \A b \in aged : rec[b].image \in {"Retired", "Collected"} /\ b \notin DOMAIN cli.snap

\* What a pass is to collect is of age, and retired until it is marked.
PassKnows ==
    Toward(Pass) =>
        /\ dirty
        /\ ~Toward({"inventory"}) =>
               \A b \in DOMAIN snap :
                   b \in aged /\ (rec[b].image = "Retired" \/ (Marking /\ b = build))
        /\ pc = "delete" => ToSet(left) \subseteq ToSet(snap[build].refs)

\* A pass patches labels after a deletion only, and a failure gives the image back.
PassLabels ==
    pc = "label" =>
        /\ patch.next \notin {"delete", "giveback"}
        /\ patch.error \in Pass => patch.error = "giveback" /\ patch.next = "counted"

\* A pass that found the storage clean and has marked no image so far: what was
\* deleted belongs to a retired image, or to the one that is being marked.
PassCovers ==
    Toward(Pass) /\ wasClean /\ ~collected =>
        \A ref \in dropped :
            Covered(ref) \/ (Marking /\ ref \in ToSet(snap[build].refs))

\* The job of a pass leaves nothing behind that was deleted before it.
SweepClears ==
    /\ pc = "wait" => /\ job \in Jobs
                      /\ jobs[job] = "marked" => keep[job] \cap dropped = {}
                      /\ jobs[job] = "done" => dropped = {}
    /\ pc \in Restoring /\ ran => dropped = {}
    /\ pc = "undirty" => ran

GarbageInv ==
    /\ DroppedIsGone /\ BuildIsFresh /\ AgedRetired
    /\ PassKnows /\ PassLabels /\ PassCovers
    /\ SweepClears /\ GarbageIsMarked

-----------------------------------------------------------------------------
(* Steps by what they do to the images that cover what was deleted.        *)

\* A retired image that covers something stays retired, with its refs.
Keeps ==
    \A b \in Builds :
        rec[b].image = "Retired" /\ ToSet(rec[b].refs) \cap dropped # {} =>
            rec'[b].image = "Retired" /\ rec'[b].refs = rec[b].refs

LEMMA CoveredStays ==
  ASSUME Keeps, NEW ref \in dropped, Covered(ref)
  PROVE  Covered(ref)'
  BY DEF Keeps, Covered

LEMMA UnwrittenKeeps ==
  ASSUME \A b \in Builds : rec'[b].image = rec[b].image /\ rec'[b].refs = rec[b].refs
  PROVE  Keeps
  BY DEF Keeps

LEMMA MarkStays ==
  ASSUME GarbageIsMarked, Keeps, dropped' \subseteq dropped, dirty => dirty'
  PROVE  GarbageIsMarked'
  <1>1. ASSUME ~dirty', NEW ref \in dropped'
        PROVE  Covered(ref)'
    BY <1>1, CoveredStays DEF GarbageIsMarked, Covered
  <1> QED
    BY <1>1 DEF GarbageIsMarked, Covered

LEMMA AgedStays ==
  ASSUME AgedRetired, aged' \subseteq aged, DOMAIN cli.snap' \subseteq DOMAIN cli.snap,
         \A b \in aged' : rec'[b].image = rec[b].image
                          \/ rec'[b].image \in {"Retired", "Collected"}
  PROVE  AgedRetired'
  BY DEF AgedRetired

LEMMA AgedPatch ==
  ASSUME ImageInv, AgedRetired, NEW b, NEW phase, NEW i, NEW refs, NEW next, NEW error,
         PatchStatus(b, phase, i, refs, next, error),
         rec'[b].image = i, \A c \in Builds \ {b} : rec'[c] = rec[c]
  PROVE  AgedRetired'
  <1>1. /\ aged \subseteq Builds /\ cli' = cli
        /\ aged' = IF i \in {"Retired", "Collected"} THEN aged ELSE aged \ {b}
    BY DEF PatchStatus, userVars, ImageInv, BuildTypeOK, RecordTypes
  <1> QED
    BY <1>1, AgedStays

\* The build at hand stays at hand, with the refs it has.
LEMMA FreshStays ==
  ASSUME BuildIsFresh, Toward(Building)' => Toward(Building) /\ UNCHANGED build,
         Toward(Building) => /\ rec'[build].image = rec[build].image
                             /\ rec'[build].refs = rec[build].refs
                             /\ Ended(build)' => Ended(build) \/ rec'[build].image # "Pending",
         dropped' \subseteq dropped
  PROVE  BuildIsFresh'
  BY DEF BuildIsFresh

\* The controller is at no step of a collection, nor led there by a label.
LEMMA GarbageElsewhere ==
  ASSUME GarbageInv, ~Toward(Pass)', pc' \notin Restoring \cup {"wait"},
         pc' = "label" => patch'.next \notin Pass /\ patch'.error \notin Pass,
         UNCHANGED dirty, dropped' \subseteq dropped, Keeps,
         DroppedIsGone', BuildIsFresh', AgedRetired'
  PROVE  GarbageInv'
  <1>1. PassKnows' /\ PassCovers'
    BY DEF PassKnows, PassCovers
  <1>2. PassLabels'
    BY DEF PassLabels, Pass
  <1>3. SweepClears'
    BY DEF SweepClears, Restoring
  <1>4. GarbageIsMarked'
    BY MarkStays DEF GarbageInv
  <1> QED
    BY <1>1, <1>2, <1>3, <1>4 DEF GarbageInv

\* The patch of a status outside the collections.
LEMMA GarbagePatch ==
  ASSUME ImageInv, GarbageInv,
         NEW b \in Builds, NEW phase, NEW i, NEW refs, NEW next, NEW error,
         PatchStatus(b, phase, i, refs, next, error),
         {next, error} \cap (Pass \cup Restoring \cup {"wait", "label"}) = {},
         rec'[b].image = i, \A c \in Builds \ {b} : rec'[c] = rec[c],
         Keeps, BuildIsFresh'
  PROVE  GarbageInv'
  <1>1. AgedRetired'
    BY AgedPatch DEF GarbageInv
  <1>2. UNCHANGED <<manifests, dropped, dirty>>
    BY DEF PatchStatus, registryVars, modeVars
  <1>3. DroppedIsGone'
    BY <1>2 DEF GarbageInv, DroppedIsGone
  <1>4. \/ pc' \in {next, error}
        \/ pc' = "label" /\ patch' = [on |-> b, want |-> i, next |-> next, error |-> error]
    BY DEF PatchStatus
  <1>a. /\ next \notin Pass /\ error \notin Pass /\ {next, error} \cap (Pass \cup Restoring \cup {"wait"}) = {}
        /\ "label" \notin Pass \cup Restoring \cup {"wait"}
    BY DEF Pass, Restoring
  <1>b. pc' = "label" => patch'.next = next
    BY <1>4
  <1>5. ~Toward(Pass)' /\ pc' \notin Restoring \cup {"wait"}
    BY <1>4, <1>a, <1>b DEF Toward
  <1>6. pc' = "label" => patch'.next \notin Pass /\ patch'.error \notin Pass
    BY <1>4, <1>a
  <1> QED
    BY <1>1, <1>2, <1>3, <1>5, <1>6, GarbageElsewhere

\* A step outside the collections that writes no record and deletes nothing.
LEMMA GarbageOutside ==
  ASSUME GarbageInv, UNCHANGED <<rec, aged, cli, dirty>>,
         pc' \notin Pass \cup Restoring \cup {"wait", "label"},
         dropped' \subseteq dropped, DroppedIsGone', BuildIsFresh'
  PROVE  GarbageInv'
  <1>1. Keeps /\ AgedRetired'
    BY UnwrittenKeeps DEF GarbageInv, AgedRetired
  <1>2. ~Toward(Pass)'
    BY DEF Toward
  <1> QED
    BY <1>1, <1>2, GarbageElsewhere

-----------------------------------------------------------------------------
(* The pass over the build requests.                                       *)

LEMMA GarbageRunOrFail ==
  ASSUME ImageInv, RecordsInv, GarbageInv, RunBuild \/ MarkFailed
  PROVE  GarbageInv'
  <1>1. RecordsAgree
    BY DEF RecordsInv
  <1>2. build \in Builds /\ rec \in [Builds -> Records] /\ "Pending" \in ImagePhases
    BY AtHand DEF RunBuild, MarkFailed, Building, Reconciling, ImageInv, BuildTypeOK,
       RecordTypes, ImagePhases
  <1>3. ASSUME NEW phase \in BuildPhases, NEW next, NEW error,
               PatchStatus(build, phase, "Pending", <<>>, next, error),
               {next, error} \cap (Pass \cup Restoring \cup {"wait", "label"}) = {},
               ToSet(rec[build].refs) \cap dropped = {},
               phase \notin EndedPhases \/ {next, error} \cap Building = {}
        PROVE  GarbageInv'
    <2>1. /\ rec' = Written(build, phase, "Pending", <<>>) /\ UNCHANGED <<build, dropped>>
      BY <1>3 DEF PatchStatus, Written, buildLocals, registryVars
    <2>2. /\ \A c \in Builds \ {build} : rec'[c] = rec[c]
          /\ rec'[build].image = "Pending" /\ rec'[build].phase = phase
          /\ rec'[build].refs = <<>>
      BY <1>2, <2>1, WrittenIs
    <2>3. Keeps
      BY <1>3, <2>2 DEF Keeps
    <2>4. \/ pc' \in {next, error}
          \/ pc' = "label" /\ patch'.next = next
      BY <1>3 DEF PatchStatus
    <2>5. BuildIsFresh'
      <3>1. ToSet(<<>>) = {}
        BY DEF ToSet
      <3>2. Toward(Building)' => phase \notin EndedPhases
        BY <1>3, <2>4 DEF Toward, Building, Reconciling
      <3> QED
        BY <2>1, <2>2, <3>1, <3>2 DEF BuildIsFresh, Ended
    <2> QED
      BY <1>2, <1>3, <2>2, <2>3, <2>5, GarbagePatch
  <1>4. ToSet(rec[build].refs) \cap dropped = {}
    BY DEF RunBuild, MarkFailed, GarbageInv, BuildIsFresh, Toward, Building, Reconciling
  <1>5. CASE RunBuild
    <2>1. /\ "Running" \in BuildPhases /\ "Running" \notin EndedPhases
          /\ {"start", "failing"} \cap (Pass \cup Restoring \cup {"wait", "label"}) = {}
      BY DEF BuildPhases, EndedPhases, Pass, Restoring
    <2> QED
      BY <1>3, <1>4, <1>5, <2>1 DEF RunBuild
  <1>6. CASE MarkFailed
    <2>1. /\ "Failed" \in BuildPhases
          /\ {"next", "look"} \cap (Pass \cup Restoring \cup {"wait", "label"}) = {}
          /\ {"next", "look"} \cap Building = {}
      BY DEF BuildPhases, Pass, Restoring, Building, Reconciling
    <2> QED
      BY <1>3, <1>4, <1>6, <2>1 DEF MarkFailed
  <1> QED
    BY <1>5, <1>6

LEMMA GarbageSucceed ==
  ASSUME ImageInv, RecordsInv, GarbageInv, MarkSucceeded
  PROVE  GarbageInv'
  <1>1. /\ pc = "succeed"
        /\ PatchStatus(build, "Succeeded", "Active", image, "retire", "failing")
        /\ UNCHANGED <<build, dropped>>
        /\ rec' = Written(build, "Succeeded", "Active", image)
    BY DEF MarkSucceeded, PatchStatus, Written, buildLocals, registryVars
  <1>2. build \in Builds /\ ~Ended(build)
    BY <1>1, AtHand DEF Publishing, Building, Reconciling
  <1>3. /\ image \in Images /\ ToSet(image) \subseteq manifests
    BY <1>1 DEF ImageInv, Control, Fit
  <1>4. /\ rec \in [Builds -> Records] /\ "Succeeded" \in BuildPhases
        /\ "Active" \in ImagePhases
    BY DEF ImageInv, BuildTypeOK, RecordTypes, BuildPhases, ImagePhases
  <1>5. /\ \A c \in Builds \ {build} : rec'[c] = rec[c]
        /\ rec'[build].image = "Active" /\ rec'[build].refs = image
    BY <1>1, <1>2, <1>3, <1>4, WrittenIs
  <1>6. rec[build].image = "Pending"
    BY <1>2 DEF RecordsInv, RecordsAgree, ImageAfterEnd
  <1>7. Keeps
    BY <1>5, <1>6 DEF Keeps
  <1>8. BuildIsFresh'
    BY <1>1, <1>3, <1>5 DEF BuildIsFresh, GarbageInv, DroppedIsGone
  <1>9. {"retire", "failing"} \cap (Pass \cup Restoring \cup {"wait", "label"}) = {}
    BY DEF Pass, Restoring
  <1> QED
    BY <1>1, <1>2, <1>5, <1>7, <1>8, <1>9, GarbagePatch

\* A record is written back from a copy: its refs are those it has.
LEMMA CopyRefs ==
  ASSUME ImageInv, RecordsInv, NEW records, records = snap \/ records = cli.snap,
         NEW c \in DOMAIN records, NEW i \in {"Retired", "Collected"},
         rec' = Written(c, records[c].phase, i, records[c].refs)
  PROVE  /\ c \in Builds /\ rec'[c].image = i /\ rec'[c].refs = records[c].refs
         /\ rec[c].image # "Pending" => rec'[c].refs = rec[c].refs
         /\ Ended(c) /\ \A b \in Builds : Ended(b)' <=> Ended(b)
         /\ \A b \in Builds \ {c} : rec'[b] = rec[b]
  <1>1. RecordsAgree
    BY DEF RecordsInv
  <1>2. /\ c \in Builds /\ rec'[c].image = i /\ rec'[c].refs = records[c].refs
        /\ \A b \in Builds : Ended(b)' <=> Ended(b)
        /\ \A b \in Builds \ {c} : rec'[b] = rec[b]
    BY <1>1, CopySettles
  <1>3. Ended(c) /\ (rec[c].image # "Pending" => rec[c].refs = records[c].refs)
    BY <1>1 DEF RecordsAgree, CopiesAgree, CopyOf
  <1> QED
    BY <1>2, <1>3

LEMMA CopyKeeps ==
  ASSUME ImageInv, RecordsInv, GarbageInv, NEW records, records = snap \/ records = cli.snap,
         NEW c \in DOMAIN records,
         rec' = Written(c, records[c].phase, "Retired", records[c].refs),
         UNCHANGED <<build, dropped>>, Toward(Building)' => Toward(Building)
  PROVE  Keeps /\ BuildIsFresh'
  <1>1. /\ c \in Builds /\ rec'[c].image = "Retired"
        /\ rec[c].image # "Pending" => rec'[c].refs = rec[c].refs
        /\ Ended(c) /\ \A b \in Builds : Ended(b)' <=> Ended(b)
        /\ \A b \in Builds \ {c} : rec'[b] = rec[b]
    BY CopyRefs
  <1>2. Keeps
    BY <1>1 DEF Keeps
  <1>3. BuildIsFresh'
    <2>1. Toward(Building) => /\ build \in Builds /\ ToSet(rec[build].refs) \cap dropped = {}
                              /\ ~Ended(build) \/ rec[build].image # "Pending"
      BY BuildKnown DEF GarbageInv, BuildIsFresh
    <2> QED
      BY <1>1, <2>1 DEF BuildIsFresh
  <1> QED
    BY <1>2, <1>3

LEMMA GarbageRetire ==
  ASSUME ImageInv, RecordsInv, GarbageInv, RetireImage
  PROVE  GarbageInv'
  <1>1. PICK b \in DOMAIN snap :
            PatchStatus(b, snap[b].phase, "Retired", snap[b].refs, "retiring", "failing")
    BY DEF RetireImage
  <1>2. /\ pc = "retiring" /\ UNCHANGED <<build, dropped>>
        /\ rec' = Written(b, snap[b].phase, "Retired", snap[b].refs)
    BY <1>1 DEF RetireImage, PatchStatus, Written, buildLocals, registryVars
  <1>3. Toward(Building)
    BY <1>2 DEF Toward, Building, Reconciling
  <1>4. /\ b \in Builds /\ rec'[b].image = "Retired"
        /\ \A c \in Builds \ {b} : rec'[c] = rec[c]
    BY <1>2, CopyRefs
  <1>5. Keeps /\ BuildIsFresh'
    BY <1>2, <1>3, CopyKeeps
  <1>6. {"retiring", "failing"} \cap (Pass \cup Restoring \cup {"wait", "label"}) = {}
    BY DEF Pass, Restoring
  <1>7. ASSUME NEW phase, NEW refs,
               PatchStatus(b, phase, "Retired", refs, "retiring", "failing")
        PROVE  GarbageInv'
    BY <1>4, <1>5, <1>6, <1>7, GarbagePatch
  <1> QED
    BY <1>1, <1>7

LEMMA GarbageBuildStep ==
  ASSUME ImageInv, RecordsInv, RecordsInv', GarbageInv, BuildStep
  PROVE  GarbageInv'
  <1>0. ({"next", "run", "look", "upload", "put", "succeed", "failing", "retiring"}
            \cap (Pass \cup Restoring \cup {"wait", "label"})) = {}
    BY DEF Pass, Restoring
  <1>1. CASE ListBuilds \/ FinishBuild
    <2>1. /\ pc' = "next" /\ UNCHANGED <<rec, aged, cli, dirty, dropped, manifests>>
      BY <1>1 DEF ListBuilds, FinishBuild, recordVars, userVars, modeVars, registryVars
    <2>2. DroppedIsGone' /\ BuildIsFresh'
      BY <2>1 DEF GarbageInv, DroppedIsGone, BuildIsFresh, Toward, Building, Reconciling
    <2> QED
      BY <1>0, <2>1, <2>2, GarbageOutside
  <1>2. CASE NextBuild
    <2>1. /\ pc' = "look" \/ (pc' = "run" /\ build' \in todo)
          /\ UNCHANGED <<rec, aged, cli, dirty, dropped, manifests>>
      BY <1>2 DEF NextBuild, recordVars, userVars, modeVars, registryVars
    <2>2. BuildIsFresh'
      <3>1. CASE pc' = "look"
        BY <3>1 DEF BuildIsFresh, Toward, Building, Reconciling
      <3>2. CASE build' \in todo
        <4>1. /\ build' \in Builds /\ ~Ended(build') /\ rec[build'].refs = <<>>
          BY <3>2, TodoKnown DEF ImageInv, BuildTypeOK, LocalTypes, RecordsInv, RecordsAgree,
             ImageAfterEnd
        <4>2. ToSet(<<>>) = {}
          BY DEF ToSet
        <4> QED
          BY <2>1, <4>1, <4>2 DEF BuildIsFresh, Ended
      <3> QED
        BY <2>1, <3>1, <3>2
    <2>3. DroppedIsGone'
      BY <2>1 DEF GarbageInv, DroppedIsGone
    <2> QED
      BY <1>0, <2>1, <2>2, <2>3, GarbageOutside
  <1>3. CASE StartJobs \/ UploadBlobs \/ PutManifest \/ ListRetirements
    <2>1. /\ pc \in {"start", "upload", "put", "retire"}
          /\ pc' \in {"upload", "put", "succeed", "failing", "retiring"}
          /\ UNCHANGED <<rec, aged, cli, dirty, build>>
      <3>1. CASE StartJobs \/ ListRetirements
        BY <3>1 DEF StartJobs, ListRetirements, recordVars, userVars, modeVars, buildLocals
      <3>2. CASE UploadBlobs \/ PutManifest
        <4>0. pc \in {"upload", "put"} /\ Pushing
          BY <3>2 DEF UploadBlobs, PutManifest
        <4>1. pc \in {"upload", "put"} /\ UNCHANGED <<rec, aged, cli, dirty, build>>
          BY <4>0 DEF Pushing, recordVars, userVars, modeVars, buildLocals
        <4>2. Handler = "failing"
          BY <4>1 DEF Handler, Reconciling, Collecting
        <4> QED
          BY <3>2, <4>1, <4>2 DEF UploadBlobs, PutManifest, Reply
      <3> QED
        BY <1>3, <3>1, <3>2
    <2>2. /\ dropped' \subseteq dropped /\ DroppedIsGone'
      BY <1>3 DEF StartJobs, UploadBlobs, PutManifest, ListRetirements, registryVars,
         GarbageInv, DroppedIsGone
    <2>3. Toward(Building)
      BY <2>1 DEF Toward, Building, Reconciling
    <2>4. BuildIsFresh'
      BY <2>1, <2>2, <2>3 DEF GarbageInv, BuildIsFresh, Ended
    <2> QED
      BY <1>0, <2>1, <2>2, <2>4, GarbageOutside
  <1> QED
    BY <1>1, <1>2, <1>3, GarbageRunOrFail, GarbageSucceed, GarbageRetire DEF BuildStep

-----------------------------------------------------------------------------
(* A label, and the calls that fail.                                       *)

\* A label is patched or the patch fails: no image of a record changes.
LEMMA GarbageAfterLabel ==
  ASSUME ImageInv, RecordsInv, MarkedInv, GarbageInv, pc = "label", patch' = NoPatch,
         pc' \in {patch.next, patch.error},
         \A b \in Builds : /\ rec'[b].image = rec[b].image /\ rec'[b].refs = rec[b].refs
                           /\ Ended(b)' <=> Ended(b),
         UNCHANGED <<aged, manifests, dropped, dirty, build, left, snap, wasClean, collected,
                     cli>>
  PROVE  GarbageInv'
  <1>1. /\ pc' # "label" /\ (pc' \in Building => Toward(Building))
        /\ aged \subseteq Builds
    <2>1. patch.next \in Fit /\ patch.error \in Fit
      BY LabelKnown
    <2>2. patch.error \in Building => patch.next \in Building
      BY DEF RecordsInv, StepsAgree, LabelFailsOut
    <2> QED
      BY <2>1, <2>2 DEF Fit, Toward, ImageInv, BuildTypeOK, RecordTypes
  <1>2. pc' \notin Restoring \cup {"wait"}
    BY DEF MarkedInv, PatchesElsewhere, Sweeping
  <1>3. Toward(Building) => build \in Builds
    BY BuildKnown
  <1>4. Keeps
    BY UnwrittenKeeps
  <1>5. DroppedIsGone' /\ AgedRetired' /\ GarbageIsMarked'
    BY <1>1, <1>4, AgedStays, MarkStays DEF GarbageInv, DroppedIsGone
  <1>6. BuildIsFresh'
    BY <1>1, <1>3, FreshStays DEF GarbageInv, Toward
  <1>7. PassLabels' /\ SweepClears'
    BY <1>1, <1>2 DEF PassLabels, SweepClears, Restoring
  <1>8. pc' \in Pass => /\ Toward(Pass) /\ pc' # "delete"
                        /\ pc' = "inventory" <=> Toward({"inventory"})
                        /\ Marking <=> Marking'
    <2>1. /\ patch.next \notin {"delete", "giveback"}
          /\ patch.error \in Pass => patch.error = "giveback" /\ patch.next = "counted"
      BY DEF GarbageInv, PassLabels
    <2>2. Marking <=> patch.next = "counted"
      BY DEF Marking, Toward
    <2>3. Marking' <=> pc' = "counted" \/ pc' = "giveback"
      BY <1>1 DEF Marking, Toward
    <2> QED
      BY <1>1, <2>1, <2>2, <2>3 DEF Toward, Pass
  <1>9. PassKnows' /\ PassCovers'
    <2>1. Toward(Pass)' <=> pc' \in Pass
      BY <1>1 DEF Toward
    <2>2. Toward({"inventory"})' <=> pc' = "inventory"
      BY <1>1 DEF Toward
    <2>3. DOMAIN snap \subseteq Builds
      BY DEF ImageInv, BuildTypeOK, LocalTypes
    <2>4. PassKnows'
      BY <1>8, <2>1, <2>2, <2>3 DEF GarbageInv, PassKnows
    <2>5. PassCovers'
      BY <1>4, <1>8, <2>1, CoveredStays DEF GarbageInv, PassCovers
    <2> QED
      BY <2>4, <2>5
  <1> QED
    BY <1>5, <1>6, <1>7, <1>9 DEF GarbageInv

-----------------------------------------------------------------------------
(* The collection of retired images.                                       *)

\* A step of a pass that writes no record: what it has to show.
LEMMA GarbagePass ==
  ASSUME GarbageInv, UNCHANGED <<rec, aged, cli>>, pc' \in Pass \cup {"check"},
         DroppedIsGone', PassKnows', PassCovers', GarbageIsMarked'
  PROVE  GarbageInv'
  <1>1. /\ pc' # "label" /\ ~Toward(Building)' /\ pc' \notin Restoring \cup {"wait"}
    BY DEF Pass, Toward, Building, Reconciling, Restoring
  <1>2. BuildIsFresh' /\ PassLabels' /\ SweepClears' /\ AgedRetired'
    BY <1>1 DEF BuildIsFresh, PassLabels, SweepClears, GarbageInv, AgedRetired, Restoring
  <1> QED
    BY <1>2 DEF GarbageInv

\* A pass knows what it knows at the step after, and marks nothing there.
LEMMA PassGoesOn ==
  ASSUME GarbageInv, UNCHANGED <<rec, aged>>, dirty', ~Marking', pc' # "delete",
         \A b \in DOMAIN snap' : b \in aged /\ rec[b].image = "Retired"
  PROVE  PassKnows'
  BY DEF PassKnows

LEMMA PassCoversOn ==
  ASSUME UNCHANGED <<rec, dropped>>,
         wasClean' /\ ~collected' => \A ref \in dropped : Covered(ref)
  PROVE  PassCovers'
  BY DEF PassCovers, Covered

\* What holds at a step of a pass where nothing is being marked.
LEMMA PassAt ==
  ASSUME GarbageInv, pc \in Pass \ {"counted", "giveback"}
  PROVE  /\ dirty /\ ~Marking
         /\ pc # "inventory" => \A b \in DOMAIN snap : b \in aged /\ rec[b].image = "Retired"
         /\ wasClean /\ ~collected => \A ref \in dropped : Covered(ref)
         /\ pc = "delete" => ToSet(left) \subseteq ToSet(snap[build].refs)
  <1>1. /\ Toward(Pass) /\ ~Marking /\ (Toward({"inventory"}) => pc = "inventory")
    BY DEF Toward, Marking, Pass
  <1> QED
    BY <1>1 DEF GarbageInv, PassKnows, PassCovers

LEMMA GarbageMarkDirty ==
  ASSUME GarbageInv, MarkDirty
  PROVE  GarbageInv'
  <1>1. /\ pc = "mark" /\ wasClean' = ~dirty /\ dirty' = TRUE
        /\ UNCHANGED <<rec, aged, cli, manifests, dropped>>
        /\ pc' \in {"inventory", Handler}
    BY DEF MarkDirty, Reply, recordVars, registryVars, userVars
  <1>2. pc' \in {"inventory", "check"}
    BY <1>1 DEF Handler, Reconciling, Collecting
  <1>3. DroppedIsGone' /\ GarbageIsMarked'
    BY <1>1 DEF GarbageInv, DroppedIsGone, GarbageIsMarked
  <1>4. PassKnows'
    BY <1>1, <1>2 DEF PassKnows, Toward, Pass
  <1>5. ~dirty => \A ref \in dropped : Covered(ref)
    BY DEF GarbageInv, GarbageIsMarked, Covered
  <1>6. PassCovers'
    BY <1>1, <1>5, PassCoversOn
  <1> QED
    BY <1>1, <1>2, <1>3, <1>4, <1>6, GarbagePass DEF Pass

LEMMA GarbageInventory ==
  ASSUME GarbageInv, Inventory
  PROVE  GarbageInv'
  <1>1. /\ pc = "inventory" /\ pc' = "collect"
        /\ snap' = Snapshot({b \in Builds : Collectable(b)})
        /\ UNCHANGED <<rec, aged, cli, manifests, dropped, dirty, wasClean, collected>>
    BY DEF Inventory, recordVars, registryVars, userVars, modeVars, passLocals
  <1>2. DroppedIsGone' /\ GarbageIsMarked'
    BY <1>1 DEF GarbageInv, DroppedIsGone, GarbageIsMarked
  <1>3. \A b \in DOMAIN snap' : b \in aged /\ rec[b].image = "Retired"
    BY <1>1 DEF Snapshot, Collectable
  <1>4. ~Marking'
    BY <1>1 DEF Marking, Toward
  <1>5. dirty /\ (wasClean /\ ~collected => \A ref \in dropped : Covered(ref))
    BY <1>1, PassAt DEF Pass
  <1>6. PassKnows' /\ PassCovers'
    BY <1>1, <1>3, <1>4, <1>5, PassGoesOn, PassCoversOn
  <1> QED
    BY <1>1, <1>2, <1>6, GarbagePass DEF Pass

LEMMA GarbageCollect ==
  ASSUME GarbageInv, Collect
  PROVE  GarbageInv'
  <1>1. /\ pc \in {"collect", "counted"} /\ pc' \in {"delete", "settle"}
        /\ collected' = (collected \/ pc = "counted")
        /\ snap' = (IF pc = "counted" THEN Without(snap, build) ELSE snap)
        /\ pc' = "delete" => build' \in DOMAIN snap' /\ left' = snap'[build'].refs
        /\ UNCHANGED <<rec, aged, cli, manifests, dropped, dirty, wasClean>>
    BY DEF Collect, recordVars, registryVars, userVars, modeVars
  <1>2. DroppedIsGone' /\ GarbageIsMarked'
    BY <1>1 DEF GarbageInv, DroppedIsGone, GarbageIsMarked
  <1>3. dirty /\ \A b \in DOMAIN snap' : b \in aged /\ rec[b].image = "Retired"
    <2>1. CASE pc = "collect"
      BY <1>1, <2>1, PassAt DEF Pass
    <2>2. CASE pc = "counted"
      <3>1. /\ Toward(Pass) /\ ~Toward({"inventory"})
        BY <2>2 DEF Toward, Pass
      <3>2. dirty /\ \A b \in DOMAIN snap : b \in aged /\ (rec[b].image = "Retired" \/ b = build)
        BY <3>1 DEF GarbageInv, PassKnows
      <3> QED
        BY <1>1, <2>2, <3>2 DEF Without
    <2> QED
      BY <1>1, <2>1, <2>2
  <1>4. PassKnows'
    BY <1>1, <1>3 DEF PassKnows
  <1>5. PassCovers'
    <2>1. wasClean' /\ ~collected' => \A ref \in dropped : Covered(ref)
      BY <1>1, PassAt DEF Pass
    <2> QED
      BY <1>1, <2>1, PassCoversOn
  <1> QED
    BY <1>1, <1>2, <1>4, <1>5, GarbagePass DEF Pass

\* A manifest goes whose image is retired.
LEMMA GarbageDelete ==
  ASSUME ImageInv, RecordsInv, GarbageInv, DeleteManifest
  PROVE  GarbageInv'
  <1>1. /\ pc = "delete" /\ left # <<>> /\ pc' \in {"delete", "giveback"}
        /\ UNCHANGED <<rec, aged, cli, dirty, build, snap, wasClean, collected>>
    <2>1. pc = "delete" => Handler = "giveback"
      BY DEF Handler, Reconciling
    <2> QED
      BY <2>1 DEF DeleteManifest, Reply, recordVars, userVars, modeVars, buildLocals, passLocals
  <1>2. /\ ToSet(left') \subseteq ToSet(left)
        /\ dropped' \subseteq dropped \cup ToSet(left)
        /\ DroppedIsGone'
    <2>1. left \in Seq(Refs)
      BY DEF ImageInv, BuildTypeOK, LocalTypes
    <2>2. Head(left) \in ToSet(left) /\ ToSet(Tail(left)) \subseteq ToSet(left)
      BY <1>1, <2>1, HeadAndTail
    <2> QED
      BY <2>2 DEF DeleteManifest, GarbageInv, DroppedIsGone
  <1>3. /\ dirty /\ \A b \in DOMAIN snap : b \in aged /\ rec[b].image = "Retired"
        /\ wasClean /\ ~collected => \A ref \in dropped : Covered(ref)
        /\ ToSet(left) \subseteq ToSet(snap[build].refs)
    BY <1>1, PassAt DEF Pass
  <1>4. build \in DOMAIN snap /\ build \in Builds
    BY <1>1 DEF ImageInv, Control, Fit, Deleting, BuildTypeOK, LocalTypes
  <1>5. rec[build].image = "Retired" /\ rec[build].refs = snap[build].refs
    BY <1>3, <1>4 DEF RecordsInv, RecordsAgree, CopiesAgree, CopyOf
  <1>6. PassKnows'
    BY <1>1, <1>2, <1>3 DEF PassKnows
  <1>7. PassCovers'
    <2>1. \A ref \in ToSet(left) : Covered(ref)
      BY <1>3, <1>4, <1>5 DEF Covered
    <2>2. wasClean' /\ ~collected' => \A ref \in dropped' : Covered(ref)
      BY <1>1, <1>2, <1>3, <2>1
    <2> QED
      BY <1>1, <2>2 DEF PassCovers, Covered
  <1>8. GarbageIsMarked'
    BY <1>1, <1>3 DEF GarbageIsMarked
  <1> QED
    BY <1>1, <1>2, <1>6, <1>7, <1>8, GarbagePass DEF Pass

LEMMA GarbageSettle ==
  ASSUME GarbageInv, Settle
  PROVE  GarbageInv'
  <1>1. /\ pc = "settle" /\ (~dirty' => ~collected /\ (~dirty \/ wasClean))
        /\ UNCHANGED <<rec, aged, cli, manifests, dropped>>
        /\ pc' \in {"check", Handler}
    BY DEF Settle, Reply, recordVars, registryVars, userVars
  <1>2. pc' = "check"
    BY <1>1 DEF Handler, Reconciling, Collecting
  <1>3. PassKnows' /\ PassCovers'
    BY <1>2 DEF PassKnows, PassCovers, Toward, Pass
  <1>4. dirty /\ (wasClean /\ ~collected => \A ref \in dropped : Covered(ref))
    BY <1>1, PassAt DEF Pass
  <1>5. GarbageIsMarked' /\ DroppedIsGone'
    BY <1>1, <1>4 DEF GarbageInv, GarbageIsMarked, DroppedIsGone, Covered
  <1> QED
    BY <1>1, <1>2, <1>3, <1>5, GarbagePass

\* The record of the image that has been deleted, or could not be, is patched.
Patched(i) ==
    /\ build \in DOMAIN snap \cap Builds /\ dirty /\ UNCHANGED <<aged, dirty, build, dropped>>
    /\ build \in aged' /\ rec'[build].image = i /\ rec'[build].refs = snap[build].refs
    /\ \A b \in DOMAIN snap \ {build} : b \in aged' /\ rec'[b].image = "Retired"
    /\ \A ref \in dropped :
           Covered(ref) => Covered(ref)' \/ ref \in ToSet(snap[build].refs)
    /\ DroppedIsGone' /\ BuildIsFresh' /\ AgedRetired' /\ PassLabels' /\ SweepClears'
    /\ GarbageIsMarked'

LEMMA GarbageMark ==
  ASSUME ImageInv, RecordsInv, GarbageInv, pc \in {"delete", "giveback"},
         NEW i \in {"Retired", "Collected"}, NEW next, NEW error,
         PatchStatus(build, snap[build].phase, i, snap[build].refs, next, error),
         next \in {"collect", "counted"},
         error = "check" \/ (error = "giveback" /\ next = "counted")
  PROVE  /\ Patched(i) /\ Toward({next, error})' /\ pc' # "delete"
         /\ pc' = "label" => patch'.next = next
  <1>1. /\ rec' = Written(build, snap[build].phase, i, snap[build].refs)
        /\ UNCHANGED <<aged, build, manifests, dropped, dirty>>
    BY DEF PatchStatus, Written, buildLocals, registryVars, modeVars
  <1>2. build \in DOMAIN snap /\ DOMAIN snap \subseteq Builds
    BY DEF ImageInv, Control, Fit, Deleting, BuildTypeOK, LocalTypes
  <1>3. /\ build \in Builds /\ rec'[build].image = i /\ rec'[build].refs = snap[build].refs
        /\ rec[build].image # "Pending" => rec'[build].refs = rec[build].refs
        /\ \A b \in Builds \ {build} : rec'[b] = rec[b]
    BY <1>1, <1>2, CopyRefs
  <1>4. /\ dirty
        /\ \A b \in DOMAIN snap : b \in aged /\ (rec[b].image = "Retired" \/ b = build)
    <2>1. Toward(Pass) /\ ~Toward({"inventory"})
      BY DEF Toward, Pass
    <2> QED
      BY <2>1 DEF GarbageInv, PassKnows
  <1>5. \A ref \in dropped : Covered(ref) => Covered(ref)' \/ ref \in ToSet(snap[build].refs)
    BY <1>3 DEF Covered
  <1>6. \/ pc' \in {next, error}
        \/ pc' = "label" /\ patch'.next = next /\ patch'.error = error
    BY DEF PatchStatus
  <1>7. Toward({next, error})' /\ pc' # "delete" /\ (pc' = "label" => patch'.next = next)
    BY <1>6 DEF Toward
  <1>8. BuildIsFresh' /\ SweepClears'
    <2>1. {"collect", "counted", "giveback", "check"}
              \cap (Building \cup Restoring \cup {"wait", "label"}) = {}
      BY DEF Building, Reconciling, Restoring
    <2>2. ~Toward(Building)'
      BY <1>6, <2>1 DEF Toward, Building, Reconciling
    <2>3. pc' \notin Restoring \cup {"wait", "undirty"}
      BY <1>6, <2>1 DEF Restoring
    <2> QED
      BY <2>2, <2>3 DEF BuildIsFresh, SweepClears
  <1>9. AgedRetired'
    <2>1. ASSUME NEW phase, NEW refs, PatchStatus(build, phase, i, refs, next, error)
          PROVE  AgedRetired'
      BY <1>3, <2>1, AgedPatch DEF GarbageInv
    <2> QED
      BY <2>1
  <1>10. PassLabels'
    BY <1>6 DEF PassLabels, Pass
  <1>11. DroppedIsGone' /\ GarbageIsMarked'
    BY <1>1, <1>4 DEF GarbageInv, DroppedIsGone, GarbageIsMarked
  <1> QED
    BY <1>1, <1>2, <1>3, <1>4, <1>5, <1>7, <1>8, <1>9, <1>10, <1>11 DEF Patched

LEMMA GarbageMarkCollected ==
  ASSUME ImageInv, RecordsInv, GarbageInv, MarkCollected
  PROVE  GarbageInv'
  <1>1. /\ pc = "delete" /\ UNCHANGED <<snap, wasClean, collected>>
        /\ PatchStatus(build, snap[build].phase, "Collected", snap[build].refs, "counted",
                       "giveback")
    BY DEF MarkCollected, passLocals
  <1>3. /\ Patched("Collected") /\ Toward({"counted", "giveback"})' /\ pc' # "delete"
        /\ pc' = "label" => patch'.next = "counted"
    BY <1>1, GarbageMark
  <1>4. Marking'
    BY <1>3 DEF Marking, Toward
  <1>5. PassKnows'
    BY <1>1, <1>3, <1>4 DEF PassKnows, Patched
  <1>6. PassCovers'
    BY <1>1, <1>3, <1>4, PassAt DEF PassCovers, Pass, Patched
  <1> QED
    BY <1>3, <1>5, <1>6 DEF GarbageInv, Patched

LEMMA GarbageGiveBack ==
  ASSUME ImageInv, RecordsInv, GarbageInv, GiveBack
  PROVE  GarbageInv'
  <1>1. /\ pc = "giveback" /\ UNCHANGED <<wasClean, collected>> /\ snap' = Without(snap, build)
        /\ PatchStatus(build, snap[build].phase, "Retired", snap[build].refs, "collect",
                       "check")
    BY DEF GiveBack, passLocals
  <1>3. Patched("Retired") /\ pc' # "delete"
    BY <1>1, GarbageMark
  <1>4. PassKnows'
    BY <1>1, <1>3 DEF PassKnows, Without, Patched
  <1>5. wasClean /\ ~collected =>
            \A ref \in dropped : Covered(ref) \/ ref \in ToSet(snap[build].refs)
    <2>1. Toward(Pass)
      BY <1>1 DEF Toward, Pass
    <2> QED
      BY <2>1 DEF GarbageInv, PassCovers
  <1>6. \A ref \in ToSet(snap[build].refs) : Covered(ref)'
    BY <1>3 DEF Covered, Patched
  <1>7. PassCovers'
    BY <1>1, <1>3, <1>5, <1>6 DEF PassCovers, Patched
  <1> QED
    BY <1>3, <1>4, <1>7 DEF GarbageInv, Patched

LEMMA GarbageCollectStep ==
  ASSUME ImageInv, RecordsInv, GarbageInv, CollectStep
  PROVE  GarbageInv'
  <1>1. CASE Look
    <2>1. /\ pc' \in {"mark", "check"}
          /\ UNCHANGED <<rec, aged, cli, dirty, dropped, manifests>>
      BY <1>1 DEF Look, recordVars, userVars, modeVars, registryVars
    <2>2. /\ pc' \notin Pass \cup Restoring \cup {"wait", "label"} /\ ~Toward(Building)'
      BY <2>1 DEF Pass, Restoring, Toward, Building, Reconciling
    <2>3. DroppedIsGone' /\ BuildIsFresh'
      BY <2>1, <2>2 DEF GarbageInv, DroppedIsGone, BuildIsFresh
    <2> QED
      BY <2>1, <2>2, <2>3, GarbageOutside
  <1> QED
    BY <1>1, GarbageMarkDirty, GarbageInventory, GarbageCollect, GarbageDelete,
       GarbageMarkCollected, GarbageGiveBack, GarbageSettle DEF CollectStep

-----------------------------------------------------------------------------
(* The collection of the storage, and what disturbs.                       *)

\* A step to where nothing is built or collected.
LEMMA GarbageSweeps ==
  ASSUME GarbageInv, UNCHANGED <<rec, aged, cli, manifests, dropped>>,
         pc' \notin Pass \cup Building \cup {"label"}, SweepClears', GarbageIsMarked'
  PROVE  GarbageInv'
  <1>1. ~Toward(Pass)' /\ ~Toward(Building)'
    BY DEF Toward
  <1>2. DroppedIsGone' /\ AgedRetired'
    BY DEF GarbageInv, DroppedIsGone, AgedRetired
  <1> QED
    BY <1>1, <1>2 DEF GarbageInv, BuildIsFresh, PassKnows, PassCovers, PassLabels

\* Where an exception is caught that was raised outside the steps of a pass.
LEMMA HandlerSweeps ==
  ASSUME MarkedInv, pc # "label", pc # "delete", pc \notin Reconciling
  PROVE  /\ Handler \in {"look", "check", "clear", "restore", "list"}
         /\ Handler \in {"clear", "restore"} => ~ran
         /\ pc \in Restoring => Handler = "list"
  <1>1. /\ Handler \in {"look", "check", "clear", "restore", "list"}
        /\ Handler \in {"clear", "restore"} => pc \in Sweeping
    BY DEF Handler, Sweeping
  <1>2. pc \in Restoring => Handler = "list"
    BY DEF Handler, Restoring, Reconciling, Collecting
  <1> QED
    BY <1>1, <1>2 DEF MarkedInv, SweepsMarked

LEMMA SweepLeaves ==
  ASSUME pc' \in Sweeping \cup Restoring \cup {"list", "look", "check"}
  PROVE  pc' \notin Pass \cup Building \cup {"label"}
  BY DEF Sweeping, Restoring, Pass, Building, Reconciling

LEMMA GarbageSweepStep ==
  ASSUME ImageInv, MarkedInv, GarbageInv, SweepStep
  PROVE  GarbageInv'
  <1>0. /\ GarbageIsMarked /\ SweepClears /\ jobs \in [Jobs -> JobStates]
        /\ pc \in Sweeping => ~ran
    BY DEF GarbageInv, ImageInv, BuildTypeOK, RegistryTypes, MarkedInv, SweepsMarked
  <1>1. UNCHANGED <<rec, aged, cli, manifests, dropped>> /\ (dirty' = dirty \/ Undirty)
    BY DEF SweepStep, Check, Disable, Restore, SetMode, CreateJob, WaitJob, Undirty, OnlyMoves,
       recordVars, registryVars, userVars, modeVars
  <1>2. CASE Check
    <2>1. pc' \in {"idle", "list"} /\ dirty' = dirty
      BY <1>2 DEF Check, modeVars
    <2>2. SweepClears' /\ GarbageIsMarked'
      BY <1>0, <1>1, <2>1 DEF SweepClears, Restoring, GarbageIsMarked
    <2> QED
      BY <1>1, <2>1, <2>2, SweepLeaves, GarbageSweeps DEF Sweeping
  <1>3. CASE Disable \/ Restore
    <2>1. /\ UNCHANGED <<ran, dirty>>
          /\ \/ pc = "disable" /\ pc' \in {"disabled", Handler}
             \/ pc = "restore" /\ pc' \in {"restored", Handler}
      BY <1>3 DEF Disable, Restore, SetMode, Reply, passLocals
    <2>2. \/ pc \in Sweeping /\ pc' \in {"disabled", "look", "check", "clear", "restore", "list"}
          \/ pc = "restore" /\ pc' \in {"restored", "list"}
      BY <2>1, HandlerSweeps DEF Sweeping, Restoring, Reconciling
    <2>3. SweepClears' /\ GarbageIsMarked'
      BY <1>0, <1>1, <2>1, <2>2 DEF SweepClears, Restoring, GarbageIsMarked
    <2> QED
      BY <1>1, <2>2, <2>3, SweepLeaves, GarbageSweeps DEF Sweeping, Restoring
  <1>4. CASE CreateJob
    <2>1. /\ pc = "create" /\ UNCHANGED <<ran, dirty, keep>> /\ pc' \in {"wait", Handler}
          /\ job' \in Jobs /\ jobs' = [jobs EXCEPT ![job'] = "created"]
      BY <1>4 DEF CreateJob, Reply, modeVars
    <2>2. pc \in Sweeping /\ pc' \in {"wait", "look", "check", "clear", "restore", "list"}
      BY <2>1, HandlerSweeps DEF Sweeping, Reconciling
    <2>3. SweepClears' /\ GarbageIsMarked'
      BY <1>0, <1>1, <2>1, <2>2 DEF SweepClears, Restoring, GarbageIsMarked
    <2> QED
      BY <1>1, <2>2, <2>3, SweepLeaves, GarbageSweeps DEF Sweeping, Restoring
  <1>5. CASE WaitJob
    <2>1. /\ pc = "wait" /\ jobs[job] = "done" /\ pc' = "restore" /\ UNCHANGED dirty
      BY <1>5 DEF WaitJob, modeVars
    <2>2. SweepClears' /\ GarbageIsMarked'
      BY <1>0, <1>1, <2>1 DEF SweepClears, GarbageIsMarked
    <2> QED
      BY <1>1, <2>1, <2>2, SweepLeaves, GarbageSweeps DEF Restoring
  <1>6. CASE Undirty
    <2>1. /\ pc = "undirty" /\ pc' \in {"list", Handler}
      BY <1>6 DEF Undirty, Reply
    <2>2. pc' = "list"
      BY <2>1, HandlerSweeps DEF Restoring, Reconciling
    <2>3. dropped = {}
      BY <1>0, <2>1 DEF SweepClears, Restoring
    <2>4. SweepClears' /\ GarbageIsMarked'
      BY <1>1, <2>2, <2>3 DEF SweepClears, Restoring, GarbageIsMarked
    <2> QED
      BY <1>1, <2>2, <2>4, SweepLeaves, GarbageSweeps
  <1>7. CASE (Idle \/ Preflight \/ RolledOut \/ ClearNotice) /\ OnlyMoves
    <2>1. UNCHANGED <<ran, dirty>>
      BY <1>7 DEF OnlyMoves, passLocals, modeVars
    <2>2. \/ pc \in Sweeping /\ pc' \in {"ready", "list", "disable", "clear", "preflight", "create"}
          \/ pc = "restored" /\ pc' = "clear"
          \/ pc = "clear" /\ pc' = IF ran THEN "undirty" ELSE "list"
      BY <1>7 DEF Idle, Preflight, RolledOut, ClearNotice, Sweeping
    <2>3. SweepClears' /\ GarbageIsMarked'
      BY <1>0, <1>1, <2>1, <2>2 DEF SweepClears, Restoring, GarbageIsMarked
    <2> QED
      BY <1>1, <2>2, <2>3, SweepLeaves, GarbageSweeps DEF Sweeping, Restoring
  <1> QED
    BY <1>2, <1>3, <1>4, <1>5, <1>6, <1>7 DEF SweepStep

LEMMA GarbageFaults ==
  ASSUME ImageInv, RecordsInv, MarkedInv, GarbageInv, CallFails \/ PassExpires \/ ControllerDies
  PROVE  GarbageInv'
  <1>0. /\ UNCHANGED <<rec, aged, cli, manifests, dropped, dirty>>
        /\ DroppedIsGone' /\ GarbageIsMarked'
    BY DEF CallFails, PassExpires, ControllerDies, recordVars, registryVars, userVars, modeVars,
       GarbageInv, DroppedIsGone, GarbageIsMarked
  <1>1. CASE CallFails
    <2>1. /\ pc' = Handler /\ patch' = NoPatch
          /\ UNCHANGED <<build, left, snap, wasClean, collected, ran>>
      BY <1>1 DEF CallFails, buildLocals, passLocals
    <2>2. CASE pc = "label"
      <3>1. Handler = patch.error
        BY <2>2 DEF Handler, Reconciling, Collecting
      <3>2. \A b \in Builds : Ended(b)' <=> Ended(b)
        BY <1>0 DEF Ended
      <3> QED
        BY <1>0, <2>1, <2>2, <3>1, <3>2, GarbageAfterLabel
    <2>3. CASE pc = "delete"
      <3>1. pc' = "giveback"
        BY <2>1, <2>3 DEF Handler, Reconciling
      <3>2. /\ dirty /\ \A b \in DOMAIN snap : b \in aged /\ rec[b].image = "Retired"
            /\ wasClean /\ ~collected => \A ref \in dropped : Covered(ref)
        BY <2>3, PassAt DEF Pass
      <3>3. PassKnows'
        BY <1>0, <2>1, <3>1, <3>2 DEF PassKnows
      <3>4. PassCovers'
        BY <1>0, <2>1, <3>2, PassCoversOn
      <3> QED
        BY <1>0, <3>1, <3>3, <3>4, GarbagePass DEF Pass
    <2>4. CASE pc \in Reconciling
      <3>1. pc' = "failing"
        BY <2>1, <2>4 DEF Handler, Reconciling, Collecting
      <3>2. BuildIsFresh'
        BY <1>0, <2>1, <2>4 DEF GarbageInv, BuildIsFresh, Toward, Building, Ended
      <3>3. "failing" \notin Pass \cup Restoring \cup {"wait", "label"}
        BY DEF Pass, Restoring
      <3> QED
        BY <1>0, <3>1, <3>2, <3>3, GarbageOutside
    <2>5. CASE pc \notin Reconciling \cup {"label", "delete"}
      <3>1. /\ pc' \in {"look", "check", "clear", "restore", "list"}
            /\ pc' \in {"clear", "restore"} => ~ran'
        BY <2>1, <2>5, HandlerSweeps
      <3>2. SweepClears'
        BY <3>1 DEF SweepClears, Restoring
      <3> QED
        BY <1>0, <3>1, <3>2, SweepLeaves, GarbageSweeps DEF Restoring
    <2> QED
      BY <2>2, <2>3, <2>4, <2>5
  <1>2. CASE PassExpires
    <2>1. pc' \in {"check", "list"}
      BY <1>2 DEF PassExpires
    <2>2. SweepClears'
      BY <2>1 DEF SweepClears, Restoring
    <2> QED
      BY <1>0, <2>1, <2>2, SweepLeaves, GarbageSweeps
  <1>3. CASE ControllerDies
    <2>1. pc' = "restore" /\ ran' = FALSE
      BY <1>3 DEF ControllerDies
    <2>2. SweepClears'
      BY <2>1 DEF SweepClears
    <2> QED
      BY <1>0, <2>1, <2>2, SweepLeaves, GarbageSweeps DEF Restoring
  <1> QED
    BY <1>1, <1>2, <1>3

-----------------------------------------------------------------------------
(* The registry, its jobs, time and the users.                             *)

\* The controller stays where it is.
LEMMA GarbageStays ==
  ASSUME GarbageInv, dropped' \subseteq dropped, Keeps,
         UNCHANGED <<pc, patch, build, left, snap, manifests, dirty, wasClean, collected>>,
         aged \subseteq aged', \A b \in aged : rec'[b].image = rec[b].image,
         BuildIsFresh', AgedRetired', SweepClears'
  PROVE  GarbageInv'
  <1>1. DroppedIsGone' /\ GarbageIsMarked' /\ PassLabels'
    BY MarkStays DEF GarbageInv, DroppedIsGone, PassLabels
  <1>2. /\ Toward(Pass)' <=> Toward(Pass)
        /\ Toward({"inventory"})' <=> Toward({"inventory"})
        /\ Marking' <=> Marking
    BY DEF Toward, Marking
  <1>3. PassKnows'
    BY <1>2 DEF GarbageInv, PassKnows
  <1>4. PassCovers'
    BY <1>2, CoveredStays DEF GarbageInv, PassCovers
  <1> QED
    BY <1>1, <1>3, <1>4 DEF GarbageInv

\* A user's step: nothing of the registry or the controller changes.
LEMMA GarbageUser ==
  ASSUME GarbageInv, UserFrame, Keeps, \A b \in aged : rec'[b].image = rec[b].image,
         BuildIsFresh', AgedRetired'
  PROVE  GarbageInv'
  <1>1. /\ UNCHANGED <<pc, patch, build, left, snap, manifests, dirty, wasClean, collected>>
        /\ UNCHANGED <<dropped, jobs, keep, job, ran, aged>>
    BY DEF UserFrame, registryVars, jobVars, ctlVars, buildLocals, passLocals
  <1>2. SweepClears'
    BY <1>1 DEF GarbageInv, SweepClears
  <1> QED
    BY <1>1, <1>2, GarbageStays

LEMMA GarbageJobs ==
  ASSUME ImageInv, GarbageInv, NEW j \in Jobs, JobStep(j)
  PROVE  GarbageInv'
  <1>1. /\ UNCHANGED <<rec, aged, manifests, dirty, pc, patch, build, left, snap, wasClean,
                       collected, job, ran, cli>>
    BY DEF JobStep, JobMark, JobSweep, JobGone, recordVars, registryVars, modeVars, ctlVars,
       buildLocals, passLocals, userVars
  <1>2. /\ jobs \in [Jobs -> JobStates] /\ keep \in [Jobs -> SUBSET Refs]
        /\ DroppedIsGone /\ SweepClears
    BY DEF ImageInv, BuildTypeOK, RegistryTypes, GarbageInv
  <1>3. dropped' \subseteq dropped /\ SweepClears'
    <2>1. CASE JobMark(j)
      <3>1. /\ jobs' = [jobs EXCEPT ![j] = "marked"] /\ keep' = [keep EXCEPT ![j] = manifests]
            /\ UNCHANGED dropped
        BY <2>1 DEF JobMark, registryVars
      <3> QED
        BY <1>1, <1>2, <3>1 DEF SweepClears, DroppedIsGone
    <2>2. CASE JobSweep(j)
      <3>1. /\ jobs[j] = "marked" /\ jobs' = [jobs EXCEPT ![j] = "done"]
            /\ keep' = [keep EXCEPT ![j] = {}] /\ dropped' = dropped \cap keep[j]
        BY <2>2 DEF JobSweep
      <3> QED
        BY <1>1, <1>2, <3>1 DEF SweepClears
    <2>3. CASE JobGone(j)
      <3>1. /\ jobs' = [jobs EXCEPT ![j] = "none"] /\ UNCHANGED <<keep, dropped>>
        BY <2>3 DEF JobGone, registryVars
      <3> QED
        BY <1>1, <1>2, <3>1 DEF SweepClears
    <2> QED
      BY <2>1, <2>2, <2>3 DEF JobStep
  <1>4. Keeps /\ BuildIsFresh' /\ AgedRetired'
    BY <1>1, <1>3, UnwrittenKeeps DEF GarbageInv, BuildIsFresh, AgedRetired, Toward, Ended
  <1> QED
    BY <1>1, <1>3, <1>4, GarbageStays

LEMMA GarbageTime ==
  ASSUME GarbageInv, Roll \/ ImagesDue \/ StorageDue \/ \E b \in Builds : Age(b)
  PROVE  GarbageInv'
  <1>1. /\ UNCHANGED <<rec, manifests, dropped, dirty, jobs, keep, cli>>
        /\ UNCHANGED <<pc, patch, build, left, snap, wasClean, collected, job, ran>>
    BY DEF Roll, ImagesDue, StorageDue, Age, TimeFrame, recordVars, registryVars, modeVars,
       jobVars, ctlVars, buildLocals, passLocals, userVars
  <1>2. aged \subseteq aged' /\ AgedRetired'
    BY <1>1 DEF Roll, ImagesDue, StorageDue, Age, recordVars, GarbageInv, AgedRetired
  <1>3. Keeps /\ BuildIsFresh' /\ SweepClears'
    BY <1>1, UnwrittenKeeps DEF GarbageInv, BuildIsFresh, SweepClears, Toward, Ended
  <1> QED
    BY <1>1, <1>2, <1>3, GarbageStays

LEMMA GarbageCli ==
  ASSUME ImageInv, RecordsInv, GarbageInv, CliRetire
  PROVE  GarbageInv'
  <1>1. PICK c \in DOMAIN cli.snap :
          /\ rec' = Written(c, cli.snap[c].phase, "Retired", cli.snap[c].refs)
          /\ cli' = Cli(Without(cli.snap, c), IF rec[c].label = "Retired" THEN Nil ELSE c)
    BY DEF CliRetire, Written
  <1>2. UserFrame /\ UNCHANGED <<pc, patch, build, dropped, aged>>
    BY DEF CliRetire, UserFrame, ctlVars, buildLocals, registryVars
  <1>3. cli'.snap = Without(cli.snap, c)
    BY <1>1, CliIs
  <1>4. /\ c \in Builds /\ rec'[c].image = "Retired" /\ \A b \in Builds \ {c} : rec'[b] = rec[b]
    BY <1>1, CopyRefs
  <1>5. Keeps /\ BuildIsFresh'
    BY <1>1, <1>2, CopyKeeps DEF Toward
  <1>6. c \notin aged /\ aged \subseteq Builds
    BY DEF GarbageInv, AgedRetired, ImageInv, BuildTypeOK, RecordTypes
  <1>7. \A b \in aged : rec'[b].image = rec[b].image
    BY <1>4, <1>6
  <1>8. AgedRetired'
    BY <1>2, <1>3, <1>7, AgedStays DEF GarbageInv, Without
  <1> QED
    BY <1>2, <1>5, <1>7, <1>8, GarbageUser

LEMMA GarbageUserStep ==
  ASSUME ImageInv, RecordsInv, GarbageInv, UserStep
  PROVE  GarbageInv'
  <1>0. /\ rec \in [Builds -> Records] /\ aged \subseteq Builds /\ AgedRetired
        /\ BuildIsFresh /\ (Toward(Building) => build \in Builds)
    BY BuildKnown DEF ImageInv, BuildTypeOK, RecordTypes, GarbageInv
  <1>1. ASSUME UserFrame, DOMAIN cli.snap' \subseteq DOMAIN cli.snap,
               \A b \in Builds : /\ rec'[b].image = rec[b].image /\ rec'[b].refs = rec[b].refs
                                 /\ Ended(b)' <=> Ended(b)
        PROVE  GarbageInv'
    <2>1. UNCHANGED <<pc, patch, build, dropped, aged>>
      BY <1>1 DEF UserFrame, ctlVars, buildLocals, registryVars
    <2>2. Keeps /\ \A b \in aged : rec'[b].image = rec[b].image
      BY <1>0, <1>1, UnwrittenKeeps
    <2>3. AgedRetired'
      BY <1>0, <1>1, <2>1, <2>2, AgedStays
    <2>4. BuildIsFresh'
      BY <1>0, <1>1, <2>1, FreshStays DEF Toward
    <2> QED
      BY <1>1, <2>2, <2>3, <2>4, GarbageUser
  <1>2. ASSUME NEW b \in Builds, Submit(b)
        PROVE  GarbageInv'
    <2>1. /\ rec[b].phase = "absent" /\ rec' = [rec EXCEPT ![b].phase = "Pending"]
          /\ UNCHANGED cli /\ UserFrame
      BY <1>2 DEF Submit
    <2>2. /\ \A c \in Builds : rec'[c].image = rec[c].image /\ rec'[c].refs = rec[c].refs
          /\ rec'[b].phase = "Pending" /\ \A c \in Builds \ {b} : rec'[c] = rec[c]
      BY <1>0, <2>1 DEF Records
    <2>3. \A c \in Builds : Ended(c)' <=> Ended(c)
      BY <2>1, <2>2 DEF Ended, EndedPhases
    <2> QED
      BY <1>1, <2>1, <2>2, <2>3
  <1>3. CASE Converge \/ CliEnds \/ \E t \in Trees : Materialise(t) \/ StopPod(t)
    <2>1. UNCHANGED rec /\ UserFrame /\ (cli' = cli \/ cli' = NoCli)
      BY <1>3 DEF Converge, Materialise, StopPod, CliEnds
    <2>2. DOMAIN cli.snap' \subseteq DOMAIN cli.snap
      BY <2>1 DEF NoCli
    <2>3. \A b \in Builds : Ended(b)' <=> Ended(b)
      BY <2>1 DEF Ended
    <2> QED
      BY <1>1, <2>1, <2>2, <2>3
  <1>4. ASSUME NEW t \in Trees, RemoveWorkload(t)
        PROVE  GarbageInv'
    <2>1. /\ UNCHANGED rec /\ UserFrame /\ cli'.snap = Snapshot(LabelledActive(t))
      BY <1>4, CliIs DEF RemoveWorkload
    <2>2. UNCHANGED <<pc, patch, build, dropped, aged>>
      BY <2>1 DEF UserFrame, ctlVars, buildLocals, registryVars
    <2>3. Keeps /\ BuildIsFresh'
      BY <1>0, <2>1, <2>2, UnwrittenKeeps DEF BuildIsFresh, Toward, Ended
    <2>4. AgedRetired'
      BY <1>0, <2>1, <2>2 DEF AgedRetired, Snapshot, LabelledActive
    <2> QED
      BY <2>1, <2>3, <2>4, GarbageUser
  <1>5. CASE CliLabel
    <2>1. /\ cli.on # Nil /\ rec' = [rec EXCEPT ![cli.on].label = "Retired"]
          /\ cli'.snap = cli.snap /\ UserFrame
      BY <1>5, CliIs DEF CliLabel
    <2>2. cli.on \in Builds
      BY <2>1 DEF ImageInv, BuildTypeOK, UserTypes
    <2>3. \A c \in Builds : /\ rec'[c].image = rec[c].image /\ rec'[c].refs = rec[c].refs
                            /\ rec'[c].phase = rec[c].phase
      BY <1>0, <2>1, <2>2 DEF Records
    <2>4. \A c \in Builds : Ended(c)' <=> Ended(c)
      BY <2>3 DEF Ended
    <2> QED
      BY <1>1, <2>1, <2>3, <2>4
  <1>6. ASSUME NEW b \in Builds, Age(b)
        PROVE  GarbageInv'
    BY <1>6, GarbageTime
  <1> QED
    BY <1>2, <1>3, <1>4, <1>5, <1>6, GarbageCli DEF UserStep

-----------------------------------------------------------------------------
LEMMA GarbageInit == BuildInit => GarbageInv
  <1> SUFFICES ASSUME BuildInit
               PROVE  GarbageInv
    OBVIOUS
  <1>1. /\ pc = "restore" /\ dropped = {} /\ manifests = {} /\ aged = {} /\ ran = FALSE
    BY DEF BuildInit
  <1> QED
    BY <1>1 DEF GarbageInv, DroppedIsGone, BuildIsFresh, AgedRetired, PassKnows, PassLabels,
       PassCovers, SweepClears, GarbageIsMarked, Toward, Building, Reconciling, Pass

LEMMA GarbageAfterPatch ==
  ASSUME ImageInv, RecordsInv, MarkedInv, GarbageInv, PatchLabel
  PROVE  GarbageInv'
  <1>1. /\ pc = "label" /\ patch' = NoPatch
        /\ rec' = [rec EXCEPT ![patch.on].label = patch.want]
        /\ pc' \in {patch.next, Handler}
        /\ UNCHANGED <<aged, manifests, dropped, dirty, build, left, snap, wasClean, collected,
                       cli>>
    BY DEF PatchLabel, Reply, registryVars, modeVars, buildLocals, passLocals, userVars
  <1>2. Handler = patch.error
    BY <1>1 DEF Handler, Reconciling, Collecting
  <1>3. patch.on \in Builds /\ rec \in [Builds -> Records]
    BY <1>1, LabelKnown DEF ImageInv, BuildTypeOK, RecordTypes
  <1>4. \A b \in Builds : /\ rec'[b].image = rec[b].image /\ rec'[b].refs = rec[b].refs
                          /\ rec'[b].phase = rec[b].phase
    BY <1>1, <1>3 DEF Records
  <1>5. \A b \in Builds : Ended(b)' <=> Ended(b)
    BY <1>4 DEF Ended
  <1> QED
    BY <1>1, <1>2, <1>4, <1>5, GarbageAfterLabel

LEMMA GarbageNext ==
  ImageInv /\ MarkedInv /\ RecordsInv /\ RecordsInv' /\ GarbageInv /\ [BuildNext]_buildVars
      => GarbageInv'
  <1> SUFFICES ASSUME ImageInv, MarkedInv, RecordsInv, RecordsInv', GarbageInv,
                      [BuildNext]_buildVars
               PROVE  GarbageInv'
    OBVIOUS
  <1>1. CASE ControllerStep
    BY <1>1, GarbageBuildStep, GarbageAfterPatch, GarbageCollectStep, GarbageSweepStep
       DEF ControllerStep
  <1>2. CASE CallFails \/ PassExpires \/ ControllerDies
    BY <1>2, GarbageFaults
  <1>3. CASE Roll \/ (\E j \in Jobs : JobStep(j)) \/ ImagesDue \/ StorageDue \/ UserStep
    BY <1>3, GarbageTime, GarbageJobs, GarbageUserStep
  <1>4. CASE UNCHANGED buildVars
    <2>1. /\ UNCHANGED <<rec, aged, manifests, dropped, dirty, jobs, keep, cli>>
          /\ UNCHANGED <<pc, patch, build, left, snap, wasClean, collected, job, ran>>
      BY <1>4 DEF buildVars, recordVars, registryVars, modeVars, jobVars, ctlVars, buildLocals,
         passLocals, userVars
    <2>2. Keeps /\ BuildIsFresh' /\ AgedRetired' /\ SweepClears'
      BY <2>1, UnwrittenKeeps DEF GarbageInv, BuildIsFresh, AgedRetired, SweepClears, Toward,
         Ended
    <2> QED
      BY <2>1, <2>2, GarbageStays
  <1> QED
    BY <1>1, <1>2, <1>3, <1>4 DEF BuildNext

LEMMA GarbageAlways == BuildSpec => []GarbageInv
  <1>1. BuildSpec => []MarkedInv
    BY MarkedInit, MarkedNext, PTL DEF BuildSpec
  <1> QED
    BY <1>1, ImagesAlways, RecordsAlways, GarbageInit, GarbageNext, PTL DEF BuildSpec

\* What was deleted from the registry and still takes up storage is never
\* forgotten (request.py:1008-1098, controller.py:341-442): either the storage
\* is marked dirty, or an image that is still retired refers to it, and its next
\* collection marks the storage again.  That holds although a pass takes the mark
\* back when it has collected nothing, deletions fail half way and give their
\* image back, and passes expire and the controller dies between any two calls.
THEOREM GarbageStaysMarked == BuildSpec => []GarbageIsMarked
  <1>1. GarbageInv => GarbageIsMarked
    BY DEF GarbageInv
  <1> QED
    BY <1>1, GarbageAlways, PTL
=============================================================================
