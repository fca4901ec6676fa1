------------------------ MODULE LeaderOverlapProofs ------------------------
(***************************************************************************)
(* What still holds while a deposed leader goes on with its Reconcile next *)
(* to the new one.                                                         *)
(*                                                                         *)
(* Every step of LeaderOverlap is a step of RealmSync for one of the two   *)
(* Reconciles, and the step lemmas about RealmSync hold for both: as they  *)
(* are for the leader, through the instance D for the deposed leader.  To  *)
(* the Reconcile that does not take the step the step leaves what the      *)
(* lemmas say it leaves (Onward, SecretStays, ImportStays, PurgeStays).    *)
(* A change of the lease moves what is known of one Reconcile to the other.*)
(***************************************************************************)
EXTENDS LeaderOverlap, RealmStatusProofs

D == INSTANCE RealmStatusProofs WITH ctl <- deposed

(***************************************************************************)
(* The two instances say the same                                          *)
(***************************************************************************)
\* Of the constants: what the lemmas of D assume.
LEMMA SameAssumptions ==
  /\ Confidential \subseteq Child /\ NoJob \notin Job /\ Lagging \subseteq D!Kinds
  /\ ListOrder # {}
  /\ BackoffLimit \in Nat /\ MaxGen \in Nat \ {0}
  /\ MaxDrifts \in Nat /\ MaxCrashes \in Nat /\ MaxFailures \in Nat
BY ConfidentialAssumption, JobAssumption, LaggingAssumption, ListOrderAssumption,
   BoundsAssumption DEF D!Kinds, Kinds

\* Of what a deposed leader does.
LEMMA SameController == D!RealmController <=> Deposed!RealmController
<1> USE DEF
     D!NewRealm, Deposed!NewRealm, D!ReadRealm, Deposed!ReadRealm, D!Writable,
     Deposed!Writable, D!Present, Deposed!Present, D!cache, Deposed!cache,
     D!outside, Deposed!outside, D!SnapshotOf, Deposed!SnapshotOf, D!objects,
     Deposed!objects, D!Goto, Deposed!Goto, D!GivenOrder, Deposed!GivenOrder,
     D!NoPayload, Deposed!NoPayload, D!Idle, Deposed!Idle
<1>1. D!ReleaseRealm <=> Deposed!ReleaseRealm
  BY DEF D!ReleaseRealm, Deposed!ReleaseRealm
<1>2. D!AdoptRealm <=> Deposed!AdoptRealm
  BY DEF D!AdoptRealm, Deposed!AdoptRealm
<1>3. D!BeginSync <=> Deposed!BeginSync
  BY DEF D!BeginSync, Deposed!BeginSync
<1>4. D!BuildRealmExport <=> Deposed!BuildRealmExport
  BY DEF D!BuildRealmExport, Deposed!BuildRealmExport, D!Exported, Deposed!Exported,
     D!ReadPhase, Deposed!ReadPhase, D!Phases, Deposed!Phases, D!ListedOrders,
     Deposed!ListedOrders
<1>5. D!SkipSync <=> Deposed!SkipSync
  BY DEF D!SkipSync, Deposed!SkipSync, D!GotoDone, Deposed!GotoDone, D!UpToDate,
     Deposed!UpToDate, D!ReadSecret, Deposed!ReadSecret
<1>6. D!DetectDrift <=> Deposed!DetectDrift
  BY DEF D!DetectDrift, Deposed!DetectDrift, D!UpToDate, Deposed!UpToDate,
     D!ReadSecret, Deposed!ReadSecret
<1>7. D!StampSecret <=> Deposed!StampSecret
  BY DEF D!StampSecret, Deposed!StampSecret, D!GotoDone, Deposed!GotoDone,
     D!ReadSecret, Deposed!ReadSecret
<1>8. D!SpawnJob <=> Deposed!SpawnJob
  BY DEF D!SpawnJob, Deposed!SpawnJob, D!FreshName, Deposed!FreshName, D!NoPod,
     Deposed!NoPod
<1>9. D!SpawnFails <=> Deposed!SpawnFails
  BY DEF D!SpawnFails, Deposed!SpawnFails, D!Failure, Deposed!Failure, D!FreshName,
     Deposed!FreshName
<1>10. D!RecordJob <=> Deposed!RecordJob
  BY DEF D!RecordJob, Deposed!RecordJob, D!WithStatus, Deposed!WithStatus
<1>11. D!CleanupTerminalJobs <=> Deposed!CleanupTerminalJobs
  BY DEF D!CleanupTerminalJobs, Deposed!CleanupTerminalJobs, D!Cleanup,
     Deposed!Cleanup, D!NoPod, Deposed!NoPod, D!CleanupCandidates,
     Deposed!CleanupCandidates, D!ReadJobs, Deposed!ReadJobs, D!Terminal,
     Deposed!Terminal, D!Tracked, Deposed!Tracked
<1>12. D!RemoveTrigger <=> Deposed!RemoveTrigger
  BY DEF D!RemoveTrigger, Deposed!RemoveTrigger
<1>13. D!ObserveJob <=> Deposed!ObserveJob
  BY DEF D!ObserveJob, Deposed!ObserveJob, D!Outcome, Deposed!Outcome, D!ReadJobs,
     Deposed!ReadJobs, D!Tracked, Deposed!Tracked
<1>14. D!ReportOutcome <=> Deposed!ReportOutcome
  BY DEF D!ReportOutcome, Deposed!ReportOutcome, D!ReportedActive,
     Deposed!ReportedActive, D!Tracked, Deposed!Tracked, D!WithStatus,
     Deposed!WithStatus
<1>15. D!ReportFailure <=> Deposed!ReportFailure
  BY DEF D!ReportFailure, Deposed!ReportFailure, D!WithStatus, Deposed!WithStatus
<1> QED
  BY <1>1, <1>2, <1>3, <1>4, <1>5, <1>6, <1>7, <1>8, <1>9, <1>10, <1>11, <1>12,
     <1>13, <1>14, <1>15
     DEF D!RealmController, Deposed!RealmController

\* Of the objects, which both replicas share, before and after a step.
LEMMA SameTypes ==
  /\ D!Idle = Idle /\ D!Control = Control
  /\ TypeOK /\ deposed \in Control => D!TypeOK
  /\ TypeOK' /\ deposed' \in Control => D!TypeOK'
  /\ D!TypeOK => deposed \in Control
  /\ D!TypeOK' => deposed' \in Control
  /\ D!TypeOK' /\ ctl' \in Control => TypeOK'
BY DEF D!TypeOK, TypeOK, D!ChildCR, ChildCR, D!Phase, Phase, D!ConfigSecret,
  ConfigSecret, D!Payload, Payload, D!Content, Content, D!Control, Control,
  D!Snapshot, Snapshot, D!Steps, Steps, D!Verdict, Verdict, D!JobStatus, JobStatus,
  D!Terminal, Terminal, D!PodState, PodState, D!RealmCR, RealmCR, D!Idle, Idle,
  D!NewRealm, NewRealm, D!NoPayload, NoPayload, D!GivenOrder, GivenOrder,
  D!SnapshotOf, SnapshotOf

LEMMA SameInvariants ==
  /\ JobInv <=> D!JobInv
  /\ JobInv' <=> D!JobInv'
  /\ UnbornHasNoGen <=> D!UnbornHasNoGen
  /\ ImportInv <=> D!ImportInv
  /\ ImportInv' <=> D!ImportInv'
  /\ PodsFindSecret <=> D!PodsFindSecret
  /\ PodsFindSecret' <=> D!PodsFindSecret'
  /\ SyncedIsAged <=> D!SyncedIsAged
  /\ SyncedIsAged' <=> D!SyncedIsAged'
<1>1. JobInv <=> D!JobInv
  BY DEF D!JobInv, JobInv, D!PodsOfActiveJobs, PodsOfActiveJobs,
    D!SeenTerminalIsFinal, SeenTerminalIsFinal, D!Terminal, Terminal
<1>2. JobInv' <=> D!JobInv'
  BY DEF D!JobInv, JobInv, D!PodsOfActiveJobs, PodsOfActiveJobs,
    D!SeenTerminalIsFinal, SeenTerminalIsFinal, D!Terminal, Terminal
<1>3. UnbornHasNoGen <=> D!UnbornHasNoGen
  BY DEF D!UnbornHasNoGen, UnbornHasNoGen
<1>4. ImportInv <=> D!ImportInv
  BY DEF D!ImportInv, ImportInv, D!HoldsAuthentic, HoldsAuthentic, D!SeenComplete,
    SeenComplete, D!MountsAuthentic, MountsAuthentic, D!Authentic, Authentic,
    D!SeenWasThere, SeenWasThere, D!Present, Present, D!UnbornHasNoGen,
    UnbornHasNoGen
<1>5. ImportInv' <=> D!ImportInv'
  BY DEF D!ImportInv, ImportInv, D!HoldsAuthentic, HoldsAuthentic, D!SeenComplete,
    SeenComplete, D!MountsAuthentic, MountsAuthentic, D!Authentic, Authentic,
    D!SeenWasThere, SeenWasThere, D!Present, Present, D!UnbornHasNoGen,
    UnbornHasNoGen
<1>6. PodsFindSecret <=> D!PodsFindSecret
  BY DEF D!PodsFindSecret, PodsFindSecret
<1>7. PodsFindSecret' <=> D!PodsFindSecret'
  BY DEF D!PodsFindSecret, PodsFindSecret
<1>8. SyncedIsAged <=> D!SyncedIsAged
  BY DEF D!SyncedIsAged, SyncedIsAged
<1>9. SyncedIsAged' <=> D!SyncedIsAged'
  BY DEF D!SyncedIsAged, SyncedIsAged
<1> QED
  BY <1>1, <1>2, <1>3, <1>4, <1>5, <1>6, <1>7, <1>8, <1>9

\* Of what a step leaves.
LEMMA SameStays ==
  /\ Onward <=> D!Onward
  /\ SecretStays <=> D!SecretStays
  /\ ImportStays <=> D!ImportStays
BY DEF D!Onward, Onward, D!SecretStays, SecretStays, D!ImportStays, ImportStays

\* Of one child.
LEMMA SamePurging ==
  ASSUME NEW c \in Child
  PROVE  /\ Promised(c) <=> D!Promised(c)
         /\ Promised(c)' <=> D!Promised(c)'
         /\ Purging(c) <=> D!Purging(c)
         /\ Purging(c)' <=> D!Purging(c)'
         /\ PurgeStays(c) <=> D!PurgeStays(c)
<1>1. Promised(c) <=> D!Promised(c)
  BY DEF D!Promised, Promised
<1>2. Promised(c)' <=> D!Promised(c)'
  BY DEF D!Promised, Promised
<1>3. Purging(c) <=> D!Purging(c)
  BY DEF D!Purging, Purging, D!CompletionPurges, CompletionPurges, D!SeenComplete,
    SeenComplete, D!NothingBringsBack, NothingBringsBack, D!ReadyMeansPurged,
    ReadyMeansPurged, D!ReleasedIsPurged, ReleasedIsPurged
<1>4. Purging(c)' <=> D!Purging(c)'
  BY DEF D!Purging, Purging, D!CompletionPurges, CompletionPurges, D!SeenComplete,
    SeenComplete, D!NothingBringsBack, NothingBringsBack, D!ReadyMeansPurged,
    ReadyMeansPurged, D!ReleasedIsPurged, ReleasedIsPurged
<1>5. PurgeStays(c) <=> D!PurgeStays(c)
  BY DEF D!PurgeStays, PurgeStays, D!SeenComplete, SeenComplete
<1> QED
  BY <1>1, <1>2, <1>3, <1>4, <1>5

(***************************************************************************)
(* The steps                                                               *)
(***************************************************************************)
\* A step is one of RealmSync, for the leader or for the deposed leader, or a
\* change of the lease.
LEMMA OverlapSteps ==
  ASSUME [NextOverlap]_overlapVars
  PROVE  \/ [Next]_vars /\ UNCHANGED deposed
         \/ deposed # Idle /\ [D!Next]_(D!vars) /\ UNCHANGED ctl
         \/ TakeOver
         \/ LeaderElectionLost
<1>1. DeposedStep => deposed # Idle /\ D!Next /\ UNCHANGED ctl
  BY SameController DEF DeposedStep, D!Next
<1> QED
  BY <1>1 DEF NextOverlap, overlapVars

\* A change of the lease leaves the objects and what they remember of drifts.
LEMMA LeaseMoves ==
  ASSUME TypeOK, deposed \in Control, TakeOver \/ LeaderElectionLost
  PROVE  /\ UNCHANGED <<realm, child, secret, jobs, pods, keycloak, seenRealm,
                        seenSecret, seenJobs, seenPhase, budget.drifts>>
         /\ TypeOK' /\ deposed' \in Control
         /\ \/ deposed' = ctl /\ ctl' = Idle
            \/ deposed' = Idle /\ UNCHANGED ctl
<1>1. /\ UNCHANGED <<realm, child, secret, jobs, pods, keycloak, owed, seenRealm,
                     seenSecret, seenJobs, seenPhase>>
      /\ \/ deposed' = ctl /\ ctl' = Idle
         \/ deposed' = Idle /\ UNCHANGED ctl
  BY DEF TakeOver, LeaderElectionLost, vars, objects, outside, cache
<1>2. /\ UNCHANGED budget.drifts
      /\ budget' \in [drifts : 0..MaxDrifts, crashes : 0..MaxCrashes,
                      failures : 0..MaxFailures]
  BY BoundsAssumption DEF TakeOver, LeaderElectionLost, vars, outside, TypeOK
<1>3. ctl' \in Control /\ deposed' \in Control
  BY <1>1, ConstantsTyped DEF TypeOK
<1> QED
  BY <1>1, <1>2, <1>3 DEF TypeOK

(***************************************************************************)
(* The invariant                                                           *)
(***************************************************************************)
OverlapInv ==
  /\ TypeOK /\ deposed \in Control
  /\ JobInv /\ ImportInv /\ PodsFindSecret
  /\ OwnImport /\ D!OwnImport
  /\ StampedFirst /\ D!StampedFirst
  /\ SyncedIsAged /\ IdleIsBlank

LEMMA OverlapInvInit == InitOverlap => OverlapInv
<1> SUFFICES ASSUME InitOverlap PROVE OverlapInv
  OBVIOUS
<1>1. TypeOK /\ deposed \in Control
  BY InitTyped, ConstantsTyped DEF InitOverlap
<1>2. JobInv /\ SyncedIsAged /\ IdleIsBlank
  BY DEF InitOverlap, Init, JobInv, PodsOfActiveJobs, SeenTerminalIsFinal, NoPod,
         Terminal, SyncedIsAged, IdleIsBlank, NewRealm, NewChild
<1>3. ImportInv /\ PodsFindSecret
  BY DEF InitOverlap, Init, ImportInv, UnbornHasNoGen, SeenWasThere,
     MountsAuthentic, HoldsAuthentic, SeenComplete, PodsFindSecret, Present,
     NewRealm, NewChild, NoSecret, NoPod, ContentOf, NoPayload
<1>4. ctl.pc = "idle" /\ deposed.pc = "idle"
  BY DEF InitOverlap, Init, Idle
<1>5. OwnImport /\ D!OwnImport /\ StampedFirst /\ D!StampedFirst
  BY <1>4 DEF OwnImport, D!OwnImport, StampedFirst, D!StampedFirst
<1> QED
  BY <1>1, <1>2, <1>3, <1>5 DEF OverlapInv

\* The leader takes a step: the deposed leader's Reconcile is left what it needs.
LEMMA LeaderStepKeeps ==
  ASSUME OverlapInv, [Next]_vars, UNCHANGED deposed
  PROVE  OverlapInv'
<1> USE DEF OverlapInv
<1>1. TypeOK' /\ deposed' \in Control /\ D!TypeOK /\ D!TypeOK'
  BY StepTyped, SameTypes
<1>2. Onward /\ SecretStays /\ ImportStays
  BY OnwardStep, SecretStaysStep, ImportStaysStep DEF ImportInv
<1>3. JobInv' /\ SyncedIsAged' /\ IdleIsBlank'
  BY JobInvStep, SyncedIsAgedStep, IdleIsBlankStep
<1>4. ImportInv' /\ OwnImport'
  BY <1>1, OnwardStep, SeenWasThereStep, MountsAuthenticStep, HoldsAuthenticStep,
     OwnImportStep DEF ImportInv
<1>5. StampedFirst' /\ PodsFindSecret'
  BY StampedFirstStep, PodsFindSecretStep DEF ImportInv
<1>6. D!OwnImport' /\ D!StampedFirst'
  BY <1>1, <1>2, SameAssumptions, SameStays, D!OwnImportKept, D!StampedFirstKept
<1> QED
  BY <1>1, <1>3, <1>4, <1>5, <1>6

\* The deposed leader takes a step: so is the leader's.
LEMMA DeposedStepKeeps ==
  ASSUME OverlapInv, [D!Next]_(D!vars), UNCHANGED ctl
  PROVE  OverlapInv'
<1> USE SameAssumptions DEF OverlapInv
<1>1. D!TypeOK /\ D!TypeOK'
  BY SameTypes, D!StepTyped
<1>2. TypeOK' /\ deposed' \in Control
  BY <1>1, SameTypes DEF TypeOK
<1>3. D!ImportInv /\ D!UnbornHasNoGen /\ D!JobInv /\ D!PodsFindSecret
      /\ D!SyncedIsAged
  BY SameInvariants DEF ImportInv
<1>4. D!Onward /\ D!SecretStays /\ D!ImportStays
  BY <1>1, <1>3, D!OnwardStep, D!SecretStaysStep, D!ImportStaysStep
<1>5. D!JobInv' /\ D!SyncedIsAged'
  BY <1>1, <1>3, D!JobInvStep, D!SyncedIsAgedStep
<1>6. D!ImportInv' /\ D!OwnImport'
  BY <1>1, <1>3, D!OnwardStep, D!SeenWasThereStep, D!MountsAuthenticStep,
     D!HoldsAuthenticStep, D!OwnImportStep DEF D!ImportInv
<1>7. D!StampedFirst' /\ D!PodsFindSecret'
  BY <1>1, <1>3, D!StampedFirstStep, D!PodsFindSecretStep
<1>8. OwnImport' /\ StampedFirst'
  BY <1>2, <1>4, SameStays, OwnImportKept, StampedFirstKept
<1>9. IdleIsBlank'
  BY DEF IdleIsBlank, Idle
<1> QED
  BY <1>2, <1>5, <1>6, <1>7, <1>8, <1>9, SameInvariants

\* A Reconcile changes hands or ends.
LEMMA LeaseKeeps ==
  ASSUME OverlapInv, TakeOver \/ LeaderElectionLost
  PROVE  OverlapInv'
<1>1. /\ UNCHANGED <<realm, child, secret, jobs, pods, keycloak, seenRealm,
                     seenSecret, seenJobs, seenPhase, budget.drifts>>
      /\ TypeOK' /\ deposed' \in Control
      /\ \/ deposed' = ctl /\ ctl' = Idle
         \/ deposed' = Idle /\ UNCHANGED ctl
  BY LeaseMoves DEF OverlapInv
<1>2. JobInv' /\ SyncedIsAged' /\ PodsFindSecret'
  BY <1>1 DEF OverlapInv, JobInv, PodsOfActiveJobs, SeenTerminalIsFinal, SyncedIsAged,
              PodsFindSecret
<1>3. ImportInv'
  BY <1>1 DEF OverlapInv, ImportInv, UnbornHasNoGen, SeenWasThere, MountsAuthentic,
              HoldsAuthentic, SeenComplete, Authentic
<1>4. Idle.pc = "idle"
  BY DEF Idle
<1>5. OwnImport' /\ StampedFirst' /\ IdleIsBlank'
  <2>1. CASE UNCHANGED ctl
    BY <1>1, <2>1 DEF OverlapInv, OwnImport, StampedFirst, IdleIsBlank, Authentic, Idle
  <2>2. CASE ctl' = Idle
    BY <1>4, <2>2 DEF OwnImport, StampedFirst, IdleIsBlank, Idle
  <2> QED
    BY <1>1, <2>1, <2>2
<1>6. D!OwnImport' /\ D!StampedFirst'
  <2>1. CASE deposed' = ctl
    BY <1>1, <2>1 DEF OverlapInv, OwnImport, StampedFirst, Authentic, D!OwnImport,
                      D!StampedFirst, D!Authentic
  <2>2. CASE deposed' = Idle
    BY <1>4, <2>2 DEF D!OwnImport, D!StampedFirst
  <2> QED
    BY <1>1, <2>1, <2>2
<1> QED
  BY <1>1, <1>2, <1>3, <1>5, <1>6 DEF OverlapInv

LEMMA OverlapInvHolds == OverlapSpec => []OverlapInv
<1>1. OverlapInv /\ [NextOverlap]_overlapVars => OverlapInv'
  BY OverlapSteps, LeaderStepKeeps, DeposedStepKeeps, LeaseKeeps
<1> QED
  BY <1>1, OverlapInvInit, PTL DEF OverlapSpec

(***************************************************************************)
(* Deletions                                                               *)
(***************************************************************************)
\* What RealmStatusProofs says of a calm deletion, for both Reconciles.
PurgeOverlap ==
  \A c \in Child \ hurried : Promised(c) => Purging(c) /\ OwnPurge(c) /\ D!OwnPurge(c)

\* The children that are hurried stay so.
LEMMA HurriedGrows ==
  ASSUME [NextOverlap]_overlapVars, NEW c \in Child \ hurried'
  PROVE  c \in Child \ hurried /\ (deposed # Idle => ~DeletionStarts(c))
BY DEF NextOverlap, overlapVars, vars, objects, DeletionStarts

\* The leader takes a step.
LEMMA LeaderPurges ==
  ASSUME "realm" \notin Lagging, OverlapInv, PurgeOverlap,
         [Next]_vars, UNCHANGED deposed,
         NEW c \in Child \ hurried, deposed # Idle => ~DeletionStarts(c), Promised(c)'
  PROVE  Purging(c)' /\ OwnPurge(c)' /\ D!OwnPurge(c)'
<1> USE SameAssumptions DEF OverlapInv
<1>1. budget'.drifts = 0 /\ budget.drifts = 0
  BY OnwardStep DEF Promised, Onward, ImportInv
<1>2. CASE Promised(c)
  <2>1. Purging(c) /\ OwnPurge(c) /\ D!OwnPurge(c)
    BY <1>2 DEF PurgeOverlap
  <2>2. PurgeStays(c)
    BY <1>1, <2>1, PurgeStaysStep DEF Purging
  <2>3. Purging(c)' /\ OwnPurge(c)'
    BY <1>2, <2>1, <2>2, PurgingStep, OwnPurgeStep
  <2>4. D!OwnPurge(c)'
    BY <2>1, <2>2, SamePurging, D!OwnPurgeKept
  <2> QED
    BY <2>3, <2>4
<1>3. CASE ~Promised(c)
  <2>1. /\ DeleteChild(c) /\ child[c].phase = "live" /\ AtRest
        /\ child'[c].phase = "deleting"
    BY <1>1, <1>3, ChildMoves DEF Promised
  <2>2. ctl' = Idle /\ deposed' = Idle
    BY <2>1 DEF DeleteChild, AtRest, IdleIsBlank, DeletionStarts
  <2>3. Purging(c)' /\ OwnPurge(c)'
    BY <2>1, <2>2, PurgingFromRest, BlankPurge
  <2>4. D!OwnPurge(c)'
    BY <2>2, SameTypes, D!BlankPurge
  <2> QED
    BY <2>3, <2>4
<1> QED
  BY <1>2, <1>3

\* The deposed leader takes a step.
LEMMA DeposedPurges ==
  ASSUME "realm" \notin Lagging, OverlapInv, PurgeOverlap,
         [D!Next]_(D!vars), UNCHANGED ctl,
         NEW c \in Child \ hurried, ~DeletionStarts(c), Promised(c)'
  PROVE  Purging(c)' /\ OwnPurge(c)' /\ D!OwnPurge(c)'
<1> USE SameAssumptions DEF OverlapInv
<1>1. D!TypeOK /\ D!JobInv /\ D!SyncedIsAged /\ D!UnbornHasNoGen
  BY SameTypes, SameInvariants DEF ImportInv
<1>2. budget'.drifts = 0 /\ budget.drifts = 0
  BY <1>1, D!OnwardStep DEF Promised, D!Onward
<1>3. Promised(c)
  BY <1>1, <1>2, D!ChildMoves DEF Promised, DeletionStarts
<1>4. /\ D!Promised(c) /\ D!Promised(c)'
      /\ D!Purging(c) /\ OwnPurge(c) /\ D!OwnPurge(c)
  BY <1>3, SamePurging DEF PurgeOverlap
<1>5. D!PurgeStays(c)
  BY <1>1, <1>2, <1>4, D!PurgeStaysStep DEF D!Purging
<1>6. D!Purging(c)' /\ D!OwnPurge(c)'
  BY <1>1, <1>4, <1>5, D!PurgingStep, D!OwnPurgeStep
<1>7. OwnPurge(c)'
  BY <1>4, <1>5, SamePurging, OwnPurgeKept
<1> QED
  BY <1>6, <1>7, SamePurging

\* A Reconcile changes hands or ends.
LEMMA LeasePurges ==
  ASSUME OverlapInv, PurgeOverlap, TakeOver \/ LeaderElectionLost,
         NEW c \in Child \ hurried, Promised(c)'
  PROVE  Purging(c)' /\ OwnPurge(c)' /\ D!OwnPurge(c)'
<1>1. /\ UNCHANGED <<realm, child, secret, jobs, pods, keycloak, seenRealm,
                     seenSecret, seenJobs, seenPhase, budget.drifts>>
      /\ \/ deposed' = ctl /\ ctl' = Idle
         \/ deposed' = Idle /\ UNCHANGED ctl
  BY LeaseMoves DEF OverlapInv
<1>2. Promised(c)
  BY <1>1 DEF Promised
<1>3. Purging(c) /\ OwnPurge(c) /\ D!OwnPurge(c)
  BY <1>2 DEF PurgeOverlap
<1>4. Purging(c)' /\ PurgeStays(c)
  BY <1>1, <1>3 DEF Purging, NothingBringsBack, CompletionPurges, ReadyMeansPurged,
                    ReleasedIsPurged, SeenComplete, PurgeStays
<1>5. CASE deposed' = ctl /\ ctl' = Idle
  <2>1. D!OwnPurge(c)'
    BY <1>1, <1>3, <1>5 DEF OwnPurge, D!OwnPurge, SeenComplete, D!SeenComplete
  <2> QED
    BY <1>4, <1>5, <2>1, BlankPurge
<1>6. CASE deposed' = Idle /\ UNCHANGED ctl
  BY <1>3, <1>4, <1>6, OwnPurgeKept, SameAssumptions, SameTypes, D!BlankPurge
<1> QED
  BY <1>1, <1>5, <1>6

LEMMA PurgeOverlapStep ==
  ASSUME "realm" \notin Lagging, OverlapInv, PurgeOverlap, [NextOverlap]_overlapVars
  PROVE  PurgeOverlap'
<1> SUFFICES ASSUME NEW c \in Child \ hurried', Promised(c)'
             PROVE  Purging(c)' /\ OwnPurge(c)' /\ D!OwnPurge(c)'
  BY DEF PurgeOverlap
<1>1. c \in Child \ hurried /\ (deposed # Idle => ~DeletionStarts(c))
  BY HurriedGrows
<1> QED
  BY <1>1, OverlapSteps, LeaderPurges, DeposedPurges, LeasePurges

(***************************************************************************)
(* The theorems                                                            *)
(***************************************************************************)
\* Both Reconciles stay well typed.
THEOREM OverlapTypeCorrect == OverlapSpec => [](TypeOK /\ deposed \in Control)
<1>1. OverlapInv => TypeOK /\ deposed \in Control
  BY DEF OverlapInv
<1> QED
  BY <1>1, OverlapInvHolds, PTL

\* Whichever leader creates the Job, its pod finds the Secret.
THEOREM OverlapPodsFindSecret == OverlapSpec => []PodsFindSecret
<1>1. OverlapInv => PodsFindSecret
  BY DEF OverlapInv
<1> QED
  BY <1>1, OverlapInvHolds, PTL

\* Neither leader reports Ready without an import, although either may clean up
\* the Job the other has seen complete.
THEOREM OverlapReadyIsImported == OverlapSpec => []ReadyMeansImported
<1>1. OverlapInv => ReadyMeansImported
  BY DEF OverlapInv, ImportInv, HoldsAuthentic, ReadyMeansImported, TypeOK, RealmCR,
         Content
<1> QED
  BY <1>1, OverlapInvHolds, PTL

\* Nor does either clean up a Job that runs for the other.
THEOREM OverlapSparesRunningJobs == OverlapSpec => RunningJobSpared
<1>1. OverlapInv /\ [NextOverlap]_overlapVars
        => [\A j \in Job : jobs[j] = "active" /\ jobs'[j] = "none"
              => realm.phase = "gone"]_vars
  <2> SUFFICES ASSUME OverlapInv, [NextOverlap]_overlapVars, NEW j \in Job,
                      jobs[j] = "active", jobs'[j] = "none"
               PROVE  realm.phase = "gone"
    OBVIOUS
  <2>1. CASE [Next]_vars
    BY <2>1, RunningJobStep DEF OverlapInv
  <2>2. CASE [D!Next]_(D!vars)
    BY <2>2, SameAssumptions, SameTypes, SameInvariants, D!RunningJobStep DEF OverlapInv
  <2>3. CASE TakeOver \/ LeaderElectionLost
    BY <2>3, LeaseMoves DEF OverlapInv
  <2> QED
    BY <2>1, <2>2, <2>3, OverlapSteps
<1> QED
  BY <1>1, OverlapInvHolds, PTL DEF OverlapSpec, RunningJobSpared

\* And neither releases a child that the other's Job could still bring back.
THEOREM UnhurriedDeletionsPurge ==
  ASSUME "realm" \notin Lagging
  PROVE  OverlapSpec => UnhurriedDeletionPurges
<1>1. InitOverlap => PurgeOverlap
  BY DEF InitOverlap, Init, PurgeOverlap, Promised, NewChild
<1>2. OverlapInv /\ PurgeOverlap /\ [NextOverlap]_overlapVars => PurgeOverlap'
  BY PurgeOverlapStep
<1>3. OverlapInv /\ PurgeOverlap /\ [NextOverlap]_overlapVars
        => [\A c \in Child \ hurried :
              (/\ child[c].phase = "deleting" /\ child[c].calm
               /\ child'[c].phase = "gone"
               /\ Present(realm) /\ budget.drifts = 0)
              => c \notin keycloak.kids]_overlapVars
  <2> SUFFICES ASSUME OverlapInv, PurgeOverlap, [NextOverlap]_overlapVars,
                      NEW c \in Child \ hurried,
                      child[c].phase = "deleting", child[c].calm,
                      child'[c].phase = "gone",
                      Present(realm), budget.drifts = 0
               PROVE  c \notin keycloak.kids
    OBVIOUS
  <2>1. Purging(c) /\ D!Purging(c)
    BY SamePurging DEF PurgeOverlap, Promised
  <2>2. CASE [Next]_vars
    BY <2>1, <2>2, CalmRelease DEF OverlapInv, Purging
  <2>3. CASE [D!Next]_(D!vars)
    <3>1. D!TypeOK /\ D!ReadyMeansPurged(c) /\ D!Present(realm)
      BY <2>1, SameTypes DEF OverlapInv, D!Purging, D!Present, Present
    <3> QED
      BY <2>3, <3>1, SameAssumptions, D!CalmRelease
  <2>4. CASE TakeOver \/ LeaderElectionLost
    BY <2>4, LeaseMoves DEF OverlapInv
  <2> QED
    BY <2>2, <2>3, <2>4, OverlapSteps
<1> QED
  BY <1>1, <1>2, <1>3, OverlapInvHolds, PTL DEF OverlapSpec, UnhurriedDeletionPurges
=============================================================================
