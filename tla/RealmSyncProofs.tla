-------------------------- MODULE RealmSyncProofs --------------------------
(***************************************************************************)
(* Theorems about RealmSync, for any number of children and Jobs and any   *)
(* value of the bounds.                                                    *)
(***************************************************************************)
EXTENDS RealmSync, TLAPS

(***************************************************************************)
(* Types                                                                   *)
(***************************************************************************)
\* The values that stand for an object that is new or not there are well typed.
LEMMA ConstantsTyped ==
  /\ NoPayload \in Payload
  /\ NewRealm \in RealmCR
  /\ NewChild \in ChildCR /\ GoneChild \in ChildCR
  /\ NoSecret \in ConfigSecret
  /\ NoPod \in PodState
  /\ Idle \in Control
  /\ 1 \in 0..MaxGen
<1>1. 0 \in 0..MaxGen /\ 1 \in 0..MaxGen /\ 0 \in 0..BackoffLimit
  BY BoundsAssumption
<1>2. NoPayload \in Payload
  BY <1>1, ListOrderAssumption DEF NoPayload, Payload, GivenOrder
<1>3. NewRealm \in RealmCR
  BY <1>1 DEF NewRealm, RealmCR, Phase
<1>4. NewChild \in ChildCR /\ GoneChild \in ChildCR
  BY DEF NewChild, GoneChild, ChildCR, Phase
<1>5. NoSecret \in ConfigSecret /\ NoPod \in PodState
  BY <1>1, <1>2 DEF NoSecret, ConfigSecret, NoPod, PodState
<1>6. SnapshotOf(NewRealm) \in Snapshot
  BY <1>3 DEF SnapshotOf, Snapshot, RealmCR
<1>7. Idle \in Control
  BY <1>2, <1>6 DEF Idle, Control, Steps, Verdict
<1> QED
  BY <1>1, <1>2, <1>3, <1>4, <1>5, <1>7

\* A payload leaves a content, and a list comes in one of the orders.
LEMMA ContentTyped ==
  /\ \A p \in Payload : ContentOf(p) \in Content
  /\ \A order \in ListedOrders : order \in ListOrder
BY ListOrderAssumption
   DEF Payload, ContentOf, Content, ListedOrders, GivenOrder

\* The initial state is well typed.
LEMMA InitTyped == Init => TypeOK
<1> SUFFICES ASSUME Init PROVE TypeOK
  OBVIOUS
<1>1. budget \in [drifts : 0..MaxDrifts, crashes : 0..MaxCrashes,
                  failures : 0..MaxFailures]
  BY BoundsAssumption DEF Init
<1> QED
  BY <1>1, ConstantsTyped, ContentTyped DEF Init, TypeOK, JobStatus, Phase

\* The cache holds values of the types of the objects it copies, and so does
\* what is read through it.
LEMMA ReadsTyped ==
  ASSUME TypeOK
  PROVE  /\ ReadRealm \in RealmCR
         /\ ReadSecret \in ConfigSecret
         /\ ReadJobs \in [Job -> JobStatus]
         /\ ReadPhase \in [Child -> Phase]
         /\ Phases \in [Child -> Phase]
BY DEF TypeOK, ReadRealm, ReadSecret, ReadJobs, ReadPhase, Phases, ChildCR

\* A status write leaves a Realm CR.
LEMMA WithStatusTyped ==
  ASSUME TypeOK, NEW ready \in BOOLEAN, NEW active \in Job \cup {NoJob}
  PROVE  WithStatus(ready, active) \in RealmCR
BY DEF TypeOK, WithStatus, RealmCR

LEMMA TriggerTyped ==
  ASSUME TypeOK, TriggerRealmSync
  PROVE  realm' \in RealmCR
BY DEF TypeOK, TriggerRealmSync, RealmCR

\* The steps of Reconcile leave a well-typed control state.
LEMMA GotoTyped ==
  ASSUME TypeOK, NEW step \in Steps
  PROVE  /\ [ctl EXCEPT !.pc = step] \in Control
         /\ [ctl EXCEPT !.pc = step, !.export = NoPayload] \in Control
         /\ \A o \in Snapshot : [ctl EXCEPT !.pc = step, !.obj = o] \in Control
         /\ \A e \in Payload : [ctl EXCEPT !.pc = step, !.export = e] \in Control
         /\ \A j \in Job : [ctl EXCEPT !.pc = step, !.job = j] \in Control
         /\ \A v \in Verdict : [ctl EXCEPT !.pc = step, !.verdict = v] \in Control
BY ConstantsTyped DEF TypeOK, Control

\* The Job that a Reconcile follows is a Job or none.
LEMMA TrackedTyped ==
  ASSUME TypeOK
  PROVE  Tracked \in Job \cup {NoJob}
BY DEF TypeOK, Tracked, Control, Snapshot

\* Writes to the budget respect the bounds.
LEMMA FailureTyped ==
  ASSUME TypeOK, Failure
  PROVE  budget' \in [drifts : 0..MaxDrifts, crashes : 0..MaxCrashes,
                      failures : 0..MaxFailures]
BY BoundsAssumption DEF TypeOK, Failure

\* No action of the Realm controller leaves the types.
LEMMA RealmControllerTyped == TypeOK /\ RealmController => TypeOK'
<1> SUFFICES ASSUME TypeOK, RealmController PROVE TypeOK'
  OBVIOUS
<1>a. /\ "build" \in Steps /\ "sync" \in Steps /\ "stamp" \in Steps
      /\ "spawn" \in Steps
      /\ "record" \in Steps /\ "clean" \in Steps /\ "unmark" \in Steps
      /\ "observe" \in Steps /\ "report" \in Steps /\ "fail" \in Steps
  BY DEF Steps
<1>b. \A step \in Steps : Goto(step) \/ GotoDone(step) => ctl' \in Control
  BY GotoTyped DEF Goto, GotoDone
<1>c. Idle \in Control
  BY ConstantsTyped
<1>1. CASE ReleaseRealm
  <2>1. realm' \in RealmCR
    BY <1>1, ConstantsTyped DEF TypeOK, ReleaseRealm, RealmCR, Phase
  <2> QED
    BY <1>1, <2>1 DEF TypeOK, ReleaseRealm, outside, cache
<1>2. CASE AdoptRealm
  <2>1. realm' \in RealmCR
    BY <1>2 DEF TypeOK, AdoptRealm, RealmCR
  <2> QED
    BY <1>2, <2>1 DEF TypeOK, AdoptRealm, outside, cache
<1>3. CASE BeginSync
  <2>1. SnapshotOf(ReadRealm) \in Snapshot
    BY ReadsTyped DEF SnapshotOf, Snapshot, RealmCR
  <2>2. ctl' \in Control
    BY <1>3, <1>a, <2>1, GotoTyped DEF BeginSync
  <2> QED
    BY <1>3, <2>2 DEF TypeOK, BeginSync, objects, outside, cache
<1>4. CASE BuildRealmExport
  <2> DEFINE e(order) == [gen |-> ctl.obj.gen, kids |-> Exported, order |-> order]
  <2>1. ASSUME NEW order \in ListedOrders PROVE e(order) \in Payload
    BY <2>1, ContentTyped DEF TypeOK, Control, Snapshot, Payload, Exported
  <2>2. ASSUME NEW order \in ListedOrders
        PROVE  [ctl EXCEPT !.pc = "sync", !.export = e(order)] \in Control
    BY <1>a, <2>1, <2>2, GotoTyped
  <2>3. ctl' \in Control
    BY <1>4, <1>a, <1>b, <2>2 DEF BuildRealmExport
  <2>4. child' \in [Child -> ChildCR]
    <3> DEFINE kept(c) == [child[c] EXCEPT !.calm = @ /\ ReadPhase[c] # "live"]
    <3>1. \A c \in Child : kept(c) \in ChildCR
      <4> SUFFICES ASSUME NEW c \in Child PROVE kept(c) \in ChildCR
        OBVIOUS
      <4>1. (child[c].calm /\ ReadPhase[c] # "live") \in BOOLEAN
        OBVIOUS
      <4> QED
        BY <4>1 DEF TypeOK, ChildCR
    <3>2. child' = child \/ child' = [c \in Child |-> kept(c)]
      BY <1>4 DEF BuildRealmExport
    <3> HIDE DEF kept
    <3> QED
      BY <3>1, <3>2 DEF TypeOK
  <2> QED
    BY <1>4, <2>3, <2>4 DEF TypeOK, BuildRealmExport, outside, cache
<1>5. CASE SkipSync \/ DetectDrift
  BY <1>5, <1>a, <1>b DEF TypeOK, SkipSync, DetectDrift, objects, outside, cache
<1>6. CASE StampSecret
  <2>1. [exists |-> TRUE, payload |-> ctl.export, fresh |-> TRUE] \in ConfigSecret
    BY DEF TypeOK, Control, ConfigSecret
  <2>2. ctl' \in Control
    BY <1>6, <1>a, <1>b DEF StampSecret
  <2> QED
    BY <1>6, <2>1, <2>2 DEF TypeOK, StampSecret, outside, cache
<1>7. CASE SpawnJob
  <2>1. PICK j \in Job :
          /\ jobs' = [jobs EXCEPT ![j] = "active"]
          /\ pods' = [pods EXCEPT ![j] = [NoPod EXCEPT !.phase = "waiting"]]
          /\ seenJobs' = [seenJobs EXCEPT ![j] = "none"]
          /\ ctl' = [ctl EXCEPT !.pc = "record", !.job = j]
    BY <1>7 DEF SpawnJob
  <2>2. [NoPod EXCEPT !.phase = "waiting"] \in PodState
    BY ConstantsTyped DEF PodState
  <2>3. ctl' \in Control
    BY <1>a, <2>1, GotoTyped
  <2> QED
    BY <1>7, <2>1, <2>2, <2>3 DEF TypeOK, SpawnJob, JobStatus, outside
<1>8. CASE SpawnFails
  <2>1. ctl' \in Control
    BY <1>8, <1>a, <1>b DEF SpawnFails
  <2> QED
    BY <1>8, <2>1, FailureTyped DEF TypeOK, SpawnFails, objects, cache
<1>9. CASE RecordJob
  <2>1. ctl.job \in Job \cup {NoJob}
    BY DEF TypeOK, Control
  <2>2. WithStatus(FALSE, ctl.job) \in RealmCR
    BY <2>1, WithStatusTyped
  <2>3. ctl' \in Control
    BY <1>9, <1>a, <1>b DEF RecordJob
  <2> QED
    BY <1>9, <2>2, <2>3 DEF TypeOK, RecordJob, outside, cache
<1>10. CASE CleanupTerminalJobs
  <2>1. PICK doomed \in SUBSET CleanupCandidates : Cleanup(doomed)
    BY <1>10 DEF CleanupTerminalJobs
  <2>2. ctl' \in Control
    BY <2>1, <1>a, <1>b DEF Cleanup
  <2>3. jobs' \in [Job -> JobStatus] /\ pods' \in [Job -> PodState]
    BY <2>1, ConstantsTyped DEF TypeOK, Cleanup, JobStatus
  <2> QED
    BY <2>1, <2>2, <2>3 DEF TypeOK, Cleanup, outside, cache
<1>11. CASE RemoveTrigger
  <2>1. [realm EXCEPT !.trig = FALSE] \in RealmCR
    BY DEF TypeOK, RealmCR
  <2>2. ctl' \in Control
    BY <1>11, <1>a, <1>b, <1>c DEF RemoveTrigger
  <2> QED
    BY <1>11, <2>1, <2>2 DEF TypeOK, RemoveTrigger, outside, cache
<1>12. CASE ObserveJob
  <2>1. Outcome \in Verdict
    BY DEF Outcome, Verdict
  <2>2. [ctl EXCEPT !.pc = "report", !.verdict = Outcome] \in Control
    BY <1>a, <2>1, GotoTyped
  <2>3. ctl' \in Control
    BY <1>12, <1>c, <2>2 DEF ObserveJob
  <2> QED
    BY <1>12, <2>3 DEF TypeOK, ObserveJob, objects, outside, cache
<1>13. CASE ReportOutcome
  <2>1. ReportedActive \in Job \cup {NoJob}
    BY TrackedTyped DEF TypeOK, ReportedActive, RealmCR
  <2>2. WithStatus(ctl.verdict = "ready", ReportedActive) \in RealmCR
    BY <2>1, WithStatusTyped
  <2>3. ctl' \in Control
    BY <1>13, <1>a, <1>b, <1>c DEF ReportOutcome
  <2> QED
    BY <1>13, <2>2, <2>3 DEF TypeOK, ReportOutcome, outside, cache
<1>14. CASE ReportFailure
  <2>1. realm.active \in Job \cup {NoJob}
    BY DEF TypeOK, RealmCR
  <2>2. WithStatus(FALSE, realm.active) \in RealmCR
    BY <2>1, WithStatusTyped
  <2> QED
    BY <1>14, <1>c, <2>2 DEF TypeOK, ReportFailure, outside, cache
<1> QED
  BY <1>1, <1>2, <1>3, <1>4, <1>5, <1>6, <1>7, <1>8, <1>9, <1>10, <1>11, <1>12,
     <1>13, <1>14 DEF RealmController

\* No other action does.
LEMMA StepTyped == TypeOK /\ [Next]_vars => TypeOK'
<1> SUFFICES ASSUME TypeOK, [Next]_vars PROVE TypeOK'
  OBVIOUS
<1> USE ReadsTyped, ConstantsTyped
<1>1. CASE RealmController
  BY <1>1, RealmControllerTyped
<1>2. ASSUME NEW c \in Child, AdoptChild(c) PROVE TypeOK'
  BY <1>2 DEF TypeOK, AdoptChild, ChildCR, outside, cache
<1>3. ASSUME NEW c \in Child, SyncChild(c) PROVE TypeOK'
  BY <1>3, TriggerTyped DEF TypeOK, SyncChild, ChildCR, outside, cache
<1>4. ASSUME NEW c \in Child, ReleaseChild(c) PROVE TypeOK'
  <2>1. [GoneChild EXCEPT !.calm = child[c].calm /\ Present(realm)] \in ChildCR
    BY DEF TypeOK, ChildCR, Present
  <2> QED
    BY <1>4, <2>1 DEF TypeOK, ReleaseChild, outside, cache
<1>5. ASSUME NEW c \in Child, AwaitPurge(c) PROVE TypeOK'
  BY <1>5, TriggerTyped DEF TypeOK, AwaitPurge, outside, cache
<1>6. CASE Crash
  <2>1. budget' \in [drifts : 0..MaxDrifts, crashes : 0..MaxCrashes,
                     failures : 0..MaxFailures]
    BY <1>6, BoundsAssumption DEF TypeOK, Crash
  <2> QED
    BY <1>6, <2>1 DEF TypeOK, Crash, objects, cache
<1>7. CASE SyncCache
  BY <1>7 DEF TypeOK, SyncCache, CatchUp, objects, outside
<1>8. ASSUME NEW j \in Job, StartPod(j) PROVE TypeOK'
  BY <1>8 DEF TypeOK, StartPod, PodState, ConfigSecret, objects, outside, cache
<1>9. ASSUME NEW j \in Job, CompleteJob(j) PROVE TypeOK'
  <2>1. keycloak' \in Content
    BY <1>9, ContentTyped DEF TypeOK, CompleteJob, PodState
  <2> QED
    BY <1>9, <2>1 DEF TypeOK, CompleteJob, PodState, JobStatus, Terminal, cache
<1>10. ASSUME NEW j \in Job, FailPod(j) PROVE TypeOK'
  <2>1. RetriesLeft(j) => [NoPod EXCEPT !.phase = "waiting",
                             !.tries = pods[j].tries + 1] \in PodState
    <3>1. pods[j].tries \in 0..BackoffLimit
      BY DEF TypeOK, PodState
    <3>2. RetriesLeft(j) => pods[j].tries + 1 \in 0..BackoffLimit
      BY <3>1, BoundsAssumption DEF RetriesLeft
    <3> QED
      BY <3>2 DEF PodState
  <2>2. pods' \in [Job -> PodState]
    BY <1>10, <2>1 DEF TypeOK, FailPod
  <2>3. keycloak' \in Content
    BY <1>10, ContentTyped DEF TypeOK, FailPod, PodState
  <2>4. jobs' \in [Job -> JobStatus]
    BY <1>10 DEF TypeOK, FailPod, JobStatus, Terminal
  <2>5. budget' \in [drifts : 0..MaxDrifts, crashes : 0..MaxCrashes,
                     failures : 0..MaxFailures]
    BY <1>10, FailureTyped DEF FailPod
  <2> QED
    BY <1>10, <2>2, <2>3, <2>4, <2>5 DEF TypeOK, FailPod, cache
<1>11. CASE CollectSecret
  BY <1>11 DEF TypeOK, CollectSecret, outside, cache
<1>12. ASSUME NEW j \in Job, CollectJob(j) PROVE TypeOK'
  BY <1>12 DEF TypeOK, CollectJob, JobStatus, outside, cache
<1>13. CASE CreateRealm
  <2>1. realm' \in RealmCR
    BY <1>13 DEF TypeOK, CreateRealm, RealmCR, Phase
  <2> QED
    BY <1>13, <2>1 DEF TypeOK, CreateRealm, outside, cache
<1>14. CASE EditRealm
  <2>1. realm.gen + 1 \in 0..MaxGen
    BY <1>14, BoundsAssumption DEF TypeOK, EditRealm, RealmCR
  <2>2. realm' \in RealmCR
    BY <1>14, <2>1 DEF TypeOK, EditRealm, RealmCR
  <2> QED
    BY <1>14, <2>2 DEF TypeOK, EditRealm, outside, cache
<1>15. CASE DeleteRealm
  <2>1. realm' \in RealmCR
    BY <1>15 DEF TypeOK, DeleteRealm, RealmCR, Phase
  <2> QED
    BY <1>15, <2>1 DEF TypeOK, DeleteRealm, outside, cache
<1>16. CASE Drift
  <2>1. keycloak' \in Content
    BY <1>16, BoundsAssumption DEF Drift, Content
  <2>2. budget' \in [drifts : 0..MaxDrifts, crashes : 0..MaxCrashes,
                     failures : 0..MaxFailures]
    BY <1>16, BoundsAssumption DEF TypeOK, Drift
  <2> QED
    BY <1>16, <2>1, <2>2 DEF TypeOK, Drift, objects, cache
<1>17. ASSUME NEW c \in Child, CreateChild(c) PROVE TypeOK'
  BY <1>17 DEF TypeOK, CreateChild, ChildCR, Phase, outside, cache
<1>18. ASSUME NEW c \in Child, DeleteChild(c) PROVE TypeOK'
  <2>1. AtRest \in BOOLEAN
    BY DEF AtRest
  <2>2. [child[c] EXCEPT !.phase = "deleting", !.calm = AtRest] \in ChildCR
    BY <2>1 DEF TypeOK, ChildCR, Phase
  <2> QED
    BY <1>18, <2>2 DEF TypeOK, DeleteChild, outside, cache
<1>19. CASE ExpireSecret
  BY <1>19 DEF TypeOK, ExpireSecret, ConfigSecret, outside
<1>20. ASSUME NEW c \in Child, AgeDeletion(c) PROVE TypeOK'
  BY <1>20 DEF TypeOK, AgeDeletion, ChildCR, outside, cache
<1>21. CASE UNCHANGED vars
  BY <1>21 DEF TypeOK, vars, objects, outside, cache
<1> QED
  BY <1>1, <1>2, <1>3, <1>4, <1>5, <1>6, <1>7, <1>8, <1>9, <1>10, <1>11, <1>12,
     <1>13, <1>14, <1>15, <1>16, <1>17, <1>18, <1>19, <1>20, <1>21
     DEF Next, ChildController, ConfigCLI, Collector, User, Clock

\* Every reachable state is well typed.
THEOREM TypeCorrect == Spec => []TypeOK
BY InitTyped, StepTyped, PTL DEF Spec

(***************************************************************************)
(* Jobs                                                                    *)
(***************************************************************************)
\* Only a Job without a terminal condition has a pod.
PodsOfActiveJobs == \A j \in Job : pods[j].phase # "none" => jobs[j] = "active"

\* A condition the cache shows as terminal is still there, or the Job is not.
SeenTerminalIsFinal ==
  \A j \in Job : seenJobs[j] \in Terminal => jobs[j] \in {seenJobs[j], "none"}

JobInv == PodsOfActiveJobs /\ SeenTerminalIsFinal

LEMMA JobInvStep == TypeOK /\ JobInv /\ [Next]_vars => JobInv'
<1> SUFFICES ASSUME TypeOK, JobInv, [Next]_vars PROVE JobInv'
  OBVIOUS
<1> USE DEF JobInv, PodsOfActiveJobs, SeenTerminalIsFinal, Terminal
<1>1. CASE SpawnJob
  BY <1>1 DEF TypeOK, SpawnJob
<1>2. CASE CleanupTerminalJobs
  <2>1. PICK doomed \in SUBSET CleanupCandidates : Cleanup(doomed)
    BY <1>2 DEF CleanupTerminalJobs
  <2> QED
    BY <2>1 DEF TypeOK, Cleanup, NoPod, cache
<1>3. CASE SyncCache
  BY <1>3 DEF SyncCache, CatchUp, objects
<1>4. ASSUME NEW j \in Job, StartPod(j) PROVE JobInv'
  BY <1>4 DEF TypeOK, StartPod, objects, cache
<1>5. ASSUME NEW j \in Job, CompleteJob(j) PROVE JobInv'
  BY <1>5 DEF TypeOK, CompleteJob, NoPod, cache
<1>6. ASSUME NEW j \in Job, FailPod(j) PROVE JobInv'
  BY <1>6 DEF TypeOK, FailPod, NoPod, cache
<1>7. ASSUME NEW j \in Job, CollectJob(j) PROVE JobInv'
  BY <1>7 DEF TypeOK, CollectJob, NoPod, cache
<1>8. CASE UNCHANGED <<jobs, pods, seenJobs>>
  BY <1>8
<1> QED
  BY <1>1, <1>2, <1>3, <1>4, <1>5, <1>6, <1>7, <1>8
     DEF Next, RealmController, ReleaseRealm, AdoptRealm, BeginSync,
       BuildRealmExport, SkipSync, DetectDrift, StampSecret, SpawnFails, RecordJob,
       RemoveTrigger, ObserveJob, ReportOutcome, ReportFailure, ChildController,
       AdoptChild, SyncChild, ReleaseChild, AwaitPurge, ConfigCLI, Crash,
       Collector, CollectSecret, User, CreateRealm, EditRealm, DeleteRealm, Drift,
       CreateChild, DeleteChild, Clock, ExpireSecret, AgeDeletion,
       objects, cache, vars

LEMMA JobInvHolds == Spec => []JobInv
<1>1. Init => JobInv
  BY DEF Init, JobInv, PodsOfActiveJobs, SeenTerminalIsFinal, NoPod, Terminal
<1> QED
  BY <1>1, JobInvStep, TypeCorrect, PTL DEF Spec

\* Only the collection of a deleted Realm removes a Job that runs: a Job that is
\* cleaned up was seen as terminal, and is if it is there at all.
LEMMA RunningJobStep ==
  ASSUME TypeOK, JobInv, [Next]_vars, NEW j \in Job,
         jobs[j] = "active", jobs'[j] = "none"
  PROVE  realm.phase = "gone"
<1>1. CASE SpawnJob
  BY <1>1 DEF TypeOK, SpawnJob
<1>2. CASE CleanupTerminalJobs
  <2>1. PICK doomed \in SUBSET CleanupCandidates : Cleanup(doomed)
    BY <1>2 DEF CleanupTerminalJobs
  <2>2. j \in doomed
    BY <2>1 DEF Cleanup
  <2>3. ReadJobs[j] \in Terminal
    BY <2>2 DEF CleanupCandidates
  <2> QED
    BY <2>3 DEF ReadJobs, JobInv, SeenTerminalIsFinal, Terminal
<1>3. ASSUME NEW k \in Job, CompleteJob(k) \/ FailPod(k) PROVE FALSE
  BY <1>3 DEF TypeOK, CompleteJob, FailPod
<1>4. CASE \E k \in Job : CollectJob(k)
  BY <1>4 DEF CollectJob
<1>5. CASE UNCHANGED jobs
  BY <1>5
<1> QED
  BY <1>1, <1>2, <1>3, <1>4, <1>5
     DEF Next, RealmController, ReleaseRealm, AdoptRealm, BeginSync,
     BuildRealmExport, SkipSync, DetectDrift, StampSecret, SpawnFails, RecordJob,
     RemoveTrigger, ObserveJob, ReportOutcome, ReportFailure, ChildController,
     AdoptChild, SyncChild, ReleaseChild, AwaitPurge, ConfigCLI, StartPod, Crash,
     SyncCache, Collector, CollectSecret, User, CreateRealm, EditRealm,
     DeleteRealm, Drift, CreateChild, DeleteChild, Clock, ExpireSecret,
     AgeDeletion, objects, vars

\* Whatever the cleanup reads late, no name of a Job that runs again is on its list.
THEOREM RunningJobsAreSpared == Spec => RunningJobSpared
<1>1. TypeOK /\ JobInv /\ [Next]_vars
        => [\A j \in Job : jobs[j] = "active" /\ jobs'[j] = "none"
              => realm.phase = "gone"]_vars
  BY RunningJobStep
<1> QED
  BY <1>1, TypeCorrect, JobInvHolds, PTL DEF Spec, RunningJobSpared
=============================================================================
