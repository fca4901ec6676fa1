------------------------- MODULE RealmImportProofs -------------------------
(***************************************************************************)
(* Theorems about what is stamped, mounted and imported.  They hold for    *)
(* any set of lagging kinds: whatever the operator reads late, it was once *)
(* there.                                                                  *)
(*                                                                         *)
(* Each inductive invariant has a part about the objects, which all        *)
(* replicas share, and a part about the Reconcile in ctl.  A step lemma    *)
(* also says what the step leaves to a Reconcile that is not its own.      *)
(***************************************************************************)
EXTENDS RealmSyncProofs

(***************************************************************************)
(* What every step leaves                                                  *)
(***************************************************************************)
\* A Realm never comes back, its generations grow, a child is created once, and
\* edits made in Keycloak are never forgotten.
Onward ==
  /\ realm.gen <= realm'.gen
  /\ realm.phase = "gone" => realm'.phase = "gone"
  /\ \A c \in Child : child[c].phase # "new" => child'[c].phase # "new"
  /\ budget'.drifts = 0 => budget.drifts = 0

LEMMA StatusWriteMoves ==
  ASSUME TypeOK, NEW ready \in BOOLEAN, NEW active
  PROVE  /\ WithStatus(ready, active).phase = realm.phase
         /\ WithStatus(ready, active).gen = realm.gen
         /\ WithStatus(ready, active).ready = ready
BY DEF TypeOK, RealmCR, WithStatus

\* A Realm that has not been created has no generation.
UnbornHasNoGen == realm.phase = "new" => realm.gen = 0

\* What a step does to the phase, the generation and the readiness of the Realm.
LEMMA RealmMoves ==
  ASSUME TypeOK, UnbornHasNoGen, [Next]_vars
  PROVE  /\ \/ UNCHANGED realm.phase
            \/ realm.phase = "new" /\ realm'.phase = "live"
            \/ realm.phase \in {"live", "deleting"}
                 /\ realm'.phase \in {"deleting", "gone"}
         /\ \/ UNCHANGED realm.gen
            \/ realm'.phase = "live" /\ realm'.gen \in 1..MaxGen
                 /\ realm.gen <= realm'.gen
         /\ realm.phase = "new" /\ realm'.phase = "live" => realm'.gen = 1
         /\ realm'.ready => \/ realm.ready
                            \/ ctl.pc = "report" /\ ctl.verdict = "ready"
<1> USE DEF TypeOK
<1>1. CASE RecordJob \/ ReportOutcome \/ ReportFailure
  <2>1. \A active : /\ WithStatus(FALSE, active).phase = realm.phase
                    /\ WithStatus(FALSE, active).gen = realm.gen
                    /\ WithStatus(FALSE, active).ready = FALSE
    BY StatusWriteMoves
  <2>2. /\ WithStatus(ctl.verdict = "ready", ReportedActive).phase = realm.phase
        /\ WithStatus(ctl.verdict = "ready", ReportedActive).gen = realm.gen
        /\ WithStatus(ctl.verdict = "ready", ReportedActive).ready
             = (ctl.verdict = "ready")
    BY StatusWriteMoves
  <2> QED
    BY <1>1, <2>1, <2>2 DEF RecordJob, ReportOutcome, ReportFailure
<1>2. CASE ReleaseRealm \/ DeleteRealm
  <2>1. realm' = [realm EXCEPT !.phase = "deleting"]
        \/ realm' = [NewRealm EXCEPT !.phase = "gone", !.gen = realm.gen]
    BY <1>2 DEF ReleaseRealm, DeleteRealm
  <2>2. Present(realm)
    BY <1>2 DEF ReleaseRealm, DeleteRealm, Writable, Present
  <2> QED
    BY <2>1, <2>2 DEF RealmCR, NewRealm, Present
<1>3. CASE AdoptRealm \/ RemoveTrigger \/ TriggerRealmSync
  BY <1>3 DEF AdoptRealm, RemoveTrigger, TriggerRealmSync, RealmCR
<1>4. CASE CreateRealm
  <2>1. realm'.phase = "live" /\ realm'.gen = 1 /\ UNCHANGED realm.ready
    BY <1>4 DEF CreateRealm, RealmCR
  <2>2. realm.gen = 0 /\ 1 \in 1..MaxGen
    BY <1>4, BoundsAssumption DEF CreateRealm, UnbornHasNoGen
  <2> QED
    BY <1>4, <2>1, <2>2 DEF CreateRealm
<1>5. CASE EditRealm
  <2>1. realm'.gen = realm.gen + 1 /\ UNCHANGED <<realm.phase, realm.ready>>
    BY <1>5 DEF EditRealm, RealmCR
  <2> QED
    BY <1>5, <2>1, BoundsAssumption DEF EditRealm, RealmCR
<1>6. CASE UNCHANGED realm
  BY <1>6
<1> QED
  BY <1>1, <1>2, <1>3, <1>4, <1>5, <1>6
     DEF Next, RealmController, BeginSync, BuildRealmExport, SkipSync, DetectDrift,
     StampSecret, SpawnJob, SpawnFails, CleanupTerminalJobs, Cleanup, ObserveJob,
     ChildController, AdoptChild, SyncChild, ReleaseChild, AwaitPurge, ConfigCLI,
     StartPod, CompleteJob, FailPod, Crash, SyncCache, Collector, CollectSecret,
     CollectJob, User, Drift, CreateChild, DeleteChild, Clock, ExpireSecret,
     AgeDeletion, objects, vars

LEMMA OnwardStep ==
  ASSUME TypeOK, UnbornHasNoGen, [Next]_vars
  PROVE  Onward /\ UnbornHasNoGen'
<1>1. /\ realm.gen <= realm'.gen
      /\ realm.phase = "gone" => realm'.phase = "gone"
      /\ UnbornHasNoGen'
  BY RealmMoves, BoundsAssumption DEF TypeOK, RealmCR, UnbornHasNoGen
<1>2. ASSUME NEW c \in Child, child[c].phase # "new"
      PROVE  child'[c].phase # "new"
  <2> USE DEF TypeOK, ChildCR
  <2>1. ASSUME NEW d \in Child, \/ AdoptChild(d) \/ SyncChild(d) \/ CreateChild(d)
                                \/ AgeDeletion(d)
        PROVE  child'[c].phase # "new"
    BY <1>2, <2>1 DEF AdoptChild, SyncChild, CreateChild, AgeDeletion
  <2>2. ASSUME NEW d \in Child, ReleaseChild(d) \/ DeleteChild(d)
        PROVE  child'[c].phase # "new"
    BY <1>2, <2>2 DEF ReleaseChild, DeleteChild, GoneChild, NewChild
  <2>3. CASE BuildRealmExport
    <3>1. \/ child' = child
          \/ child' = [d \in Child |->
                         [child[d] EXCEPT !.calm = @ /\ ReadPhase[d] # "live"]]
      BY <2>3 DEF BuildRealmExport
    <3> QED
      BY <1>2, <3>1
  <2>4. CASE UNCHANGED child
    BY <1>2, <2>4
  <2> QED
    BY <2>1, <2>2, <2>3, <2>4
       DEF Next, RealmController, ReleaseRealm, AdoptRealm, BeginSync, SkipSync,
       DetectDrift, StampSecret, SpawnJob, SpawnFails, RecordJob, CleanupTerminalJobs,
       Cleanup, RemoveTrigger, ObserveJob, ReportOutcome, ReportFailure,
       ChildController, AwaitPurge, ConfigCLI, StartPod, CompleteJob, FailPod, Crash,
       SyncCache, Collector, CollectSecret, CollectJob, User, CreateRealm, EditRealm,
       DeleteRealm, Drift, Clock, ExpireSecret, objects, vars
<1>3. budget'.drifts = 0 => budget.drifts = 0
  <2> USE DEF TypeOK
  <2>1. CASE Drift \/ Failure \/ Crash
    BY <2>1 DEF Drift, Failure, Crash
  <2>2. CASE UNCHANGED budget
    BY <2>2
  <2> QED
    BY <2>1, <2>2
       DEF Next, RealmController, ReleaseRealm, AdoptRealm, BeginSync,
       BuildRealmExport, SkipSync, DetectDrift, StampSecret, SpawnJob, SpawnFails,
       RecordJob, CleanupTerminalJobs, Cleanup, RemoveTrigger, ObserveJob,
       ReportOutcome, ReportFailure, ChildController, AdoptChild, SyncChild,
       ReleaseChild, AwaitPurge, ConfigCLI, StartPod, CompleteJob, FailPod, SyncCache,
       Collector, CollectSecret, CollectJob, User, CreateRealm, EditRealm,
       DeleteRealm, CreateChild, DeleteChild, Clock, ExpireSecret, AgeDeletion,
       objects, outside, vars
<1> QED
  BY <1>1, <1>2, <1>3 DEF Onward

(***************************************************************************)
(* Pods find their Secret                                                  *)
(***************************************************************************)
\* A Reconcile that is about to create a Job has stamped the Secret.
StampedFirst == ctl.pc = "spawn" /\ realm.phase # "gone" => secret.exists

\* While the Realm is there its Secret stays.
SecretStays == realm'.phase # "gone" /\ secret.exists => secret'.exists

LEMMA SecretStaysStep ==
  ASSUME TypeOK, UnbornHasNoGen, [Next]_vars
  PROVE  SecretStays
<1> USE DEF SecretStays
<1>1. CASE StampSecret
  BY <1>1 DEF StampSecret
<1>2. CASE CollectSecret
  BY <1>2 DEF CollectSecret
<1>3. CASE ExpireSecret
  BY <1>3 DEF ExpireSecret, TypeOK, ConfigSecret
<1>4. CASE UNCHANGED secret
  BY <1>4
<1> QED
  BY <1>1, <1>2, <1>3, <1>4
     DEF Next, RealmController, ReleaseRealm, AdoptRealm, BeginSync,
     BuildRealmExport, SkipSync, DetectDrift, SpawnJob, SpawnFails, RecordJob,
     CleanupTerminalJobs, Cleanup, RemoveTrigger, ObserveJob, ReportOutcome,
     ReportFailure, ChildController, AdoptChild, SyncChild, ReleaseChild, AwaitPurge,
     ConfigCLI, StartPod, CompleteJob, FailPod, Crash, SyncCache, Collector,
     CollectJob, User, CreateRealm, EditRealm, DeleteRealm, Drift, CreateChild,
     DeleteChild, Clock, AgeDeletion, objects, vars

\* The Reconcile in ctl is not the one that takes the step.
LEMMA StampedFirstKept ==
  ASSUME StampedFirst, UNCHANGED ctl, SecretStays, Onward
  PROVE  StampedFirst'
BY DEF StampedFirst, SecretStays, Onward

LEMMA StampedFirstStep ==
  ASSUME TypeOK, UnbornHasNoGen, StampedFirst, [Next]_vars
  PROVE  StampedFirst'
<1>1. CASE UNCHANGED ctl
  BY <1>1, StampedFirstKept, SecretStaysStep, OnwardStep
<1>4. \A step : Goto(step) \/ GotoDone(step) => ctl'.pc = step
  BY DEF TypeOK, Control, Goto, GotoDone
<1>2. CASE StampSecret
  <2>1. CASE GotoDone("fail")
    BY <2>1, <1>4 DEF StampedFirst
  <2>2. CASE secret' = [exists |-> TRUE, payload |-> ctl.export, fresh |-> TRUE]
    BY <2>2 DEF StampedFirst
  <2> QED
    BY <1>2, <2>1, <2>2 DEF StampSecret
<1>3. CASE ctl'.pc # "spawn"
  BY <1>3 DEF StampedFirst
<1>5. BuildRealmExport => ctl'.pc # "spawn"
  BY DEF BuildRealmExport, Goto, TypeOK, Control
<1>6. ctl' = Idle => ctl'.pc # "spawn"
  BY DEF Idle
<1>8. ObserveJob => ctl'.pc # "spawn"
  BY <1>6 DEF ObserveJob, TypeOK, Control
<1>9. BeginSync => ctl'.pc # "spawn"
  <2> SUFFICES ASSUME BeginSync PROVE ctl'.pc = "build"
    OBVIOUS
  <2>1. ctl' = [ctl EXCEPT !.pc = "build", !.obj = SnapshotOf(ReadRealm)]
    BY DEF BeginSync
  <2> QED
    BY <2>1 DEF TypeOK, Control
<1>7. SpawnJob => ctl'.pc # "spawn"
  BY DEF SpawnJob, TypeOK, Control
<1> QED
  BY <1>1, <1>2, <1>3, <1>4, <1>5, <1>6, <1>7, <1>8, <1>9
     DEF Next, RealmController, ReleaseRealm, AdoptRealm, SkipSync, DetectDrift,
     SpawnFails, RecordJob, CleanupTerminalJobs, Cleanup, RemoveTrigger,
     ReportOutcome, ReportFailure, ChildController, AdoptChild, SyncChild,
     ReleaseChild, AwaitPurge, ConfigCLI, StartPod, CompleteJob, FailPod, Crash,
     SyncCache, Collector, CollectSecret, CollectJob, User, CreateRealm, EditRealm,
     DeleteRealm, Drift, CreateChild, DeleteChild, Clock, ExpireSecret, AgeDeletion,
     vars

LEMMA PodsFindSecretStep ==
  ASSUME TypeOK, UnbornHasNoGen, JobInv, StampedFirst, PodsFindSecret, [Next]_vars
  PROVE  PodsFindSecret'
<1> SUFFICES ASSUME NEW k \in Job, jobs'[k] = "active", realm'.phase # "gone"
             PROVE  pods'[k].phase # "none" /\ secret'.exists
  BY DEF PodsFindSecret
<1>a. /\ realm.phase # "gone"
      /\ secret.exists => secret'.exists
  BY OnwardStep, SecretStaysStep DEF Onward, SecretStays
<1> USE DEF TypeOK
<1>1. CASE SpawnJob
  <2>1. PICK j \in Job :
          /\ jobs' = [jobs EXCEPT ![j] = "active"]
          /\ pods' = [pods EXCEPT ![j] = [NoPod EXCEPT !.phase = "waiting"]]
    BY <1>1 DEF SpawnJob
  <2>2. secret'.exists
    BY <1>1, <1>a DEF SpawnJob, StampedFirst
  <2>3. k = j => pods'[k].phase = "waiting"
    BY <2>1 DEF NoPod
  <2>4. k # j => jobs'[k] = jobs[k] /\ pods'[k] = pods[k]
    BY <2>1
  <2> QED
    BY <1>a, <2>2, <2>3, <2>4 DEF PodsFindSecret
<1>2. CASE CleanupTerminalJobs
  <2>1. PICK doomed \in SUBSET CleanupCandidates : Cleanup(doomed)
    BY <1>2 DEF CleanupTerminalJobs
  <2>2. jobs[k] = "active" /\ pods'[k] = pods[k]
    BY <2>1 DEF Cleanup
  <2> QED
    BY <1>a, <2>2 DEF PodsFindSecret
<1>3. ASSUME NEW j \in Job, StartPod(j)
      PROVE  (pods'[k].phase = "running" \/ pods'[k] = pods[k]) /\ UNCHANGED jobs
  BY <1>3 DEF StartPod, objects, PodState
<1>4. ASSUME NEW j \in Job, CompleteJob(j) \/ FailPod(j)
      PROVE  jobs[k] = "active" /\ (pods'[k] = pods[k] \/ pods'[k].phase = "waiting")
  <2>1. jobs[j] = "active"
    BY <1>4 DEF CompleteJob, FailPod, JobInv, PodsOfActiveJobs
  <2>2. CASE CompleteJob(j)
    BY <2>2 DEF CompleteJob
  <2>3. CASE FailPod(j) /\ ~RetriesLeft(j)
    BY <2>3 DEF FailPod
  <2>4. CASE FailPod(j) /\ RetriesLeft(j)
    <3> DEFINE retry == [NoPod EXCEPT !.phase = "waiting",
                                      !.tries = pods[j].tries + 1]
    <3>1. retry.phase = "waiting"
      BY DEF NoPod
    <3>2. pods' = [pods EXCEPT ![j] = retry] /\ UNCHANGED jobs
      BY <2>4 DEF FailPod
    <3> HIDE DEF retry
    <3> QED
      BY <2>1, <3>1, <3>2
  <2> QED
    BY <1>4, <2>2, <2>3, <2>4
<1>5. ASSUME NEW j \in Job, CollectJob(j) PROVE FALSE
  BY <1>5, <1>a DEF CollectJob
<1>6. CASE UNCHANGED <<jobs, pods>>
  BY <1>6, <1>a DEF PodsFindSecret
<1> QED
  BY <1>1, <1>2, <1>3, <1>4, <1>5, <1>6, <1>a
     DEF PodsFindSecret, Next, RealmController, ReleaseRealm, AdoptRealm, BeginSync,
     BuildRealmExport, SkipSync, DetectDrift, StampSecret, SpawnFails, RecordJob,
     RemoveTrigger, ObserveJob, ReportOutcome, ReportFailure, ChildController,
     AdoptChild, SyncChild, ReleaseChild, AwaitPurge, ConfigCLI, Crash, SyncCache,
     Collector, CollectSecret, User, CreateRealm, EditRealm, DeleteRealm, Drift,
     CreateChild, DeleteChild, Clock, ExpireSecret, AgeDeletion, objects, vars

(***************************************************************************)
(* Ready means imported                                                    *)
(***************************************************************************)
\* The settings and children of p are, or once were, those of the CRs.
Authentic(p) == /\ p.gen \in 1..realm.gen
                /\ \A c \in p.kids : child[c].phase # "new"

\* The same p after the step.
StillAuthentic(p) == /\ p.gen \in 1..realm'.gen
                     /\ \A c \in p.kids : child'[c].phase # "new"

\* What a cache shows was there.
SeenWasThere ==
  /\ \A r \in {realm, seenRealm} :
       r.gen <= realm.gen /\ (Present(r) => r.gen # 0)
  /\ \A c \in Child : seenPhase[c] # "new" => child[c].phase # "new"

\* A Job completed, or is shown as completed.
SeenComplete(j) == "complete" \in {jobs[j], seenJobs[j]}

\* Whatever a pod mounts is authentic ...
MountsAuthentic ==
  /\ secret.exists => Authentic(secret.payload)
  /\ \A j \in Job : pods[j].phase = "running" => Authentic(pods[j].payload)

\* ... and so is what Keycloak holds, after the first import.
HoldsAuthentic ==
  budget.drifts = 0
    => /\ keycloak.gen \in 0..realm.gen
       /\ \A c \in keycloak.kids : child[c].phase # "new"
       /\ realm.ready \/ (\E j \in Job : SeenComplete(j)) => keycloak.gen # 0

ImportInv == UnbornHasNoGen /\ SeenWasThere /\ MountsAuthentic /\ HoldsAuthentic

\* The part about a Reconcile: it works on a generation there was, exports what
\* there was, and reports a success only after an import.
OwnImport ==
  /\ ctl.pc = "build" => ctl.obj.gen \in 1..realm.gen
  /\ ctl.pc \in {"sync", "stamp"} => Authentic(ctl.export)
  /\ ctl.pc = "report" /\ ctl.verdict = "ready" /\ budget.drifts = 0
       => keycloak.gen # 0

\* An import is overwritten by imports alone, unless Keycloak is edited.
ImportStays == budget'.drifts = 0 /\ keycloak.gen # 0 => keycloak'.gen # 0

LEMMA AuthenticStays ==
  ASSUME TypeOK, TypeOK', Onward, NEW p, p.gen \in Int, p.kids \subseteq Child,
         Authentic(p)
  PROVE  StillAuthentic(p)
BY DEF Authentic, StillAuthentic, Onward, TypeOK, RealmCR

LEMMA OwnImportKept ==
  ASSUME TypeOK, TypeOK', OwnImport, UNCHANGED ctl, Onward, ImportStays
  PROVE  OwnImport'
<1>1. ctl.pc \in {"sync", "stamp"} => StillAuthentic(ctl.export)
  BY AuthenticStays DEF OwnImport, TypeOK, Control, Payload
<1>2. ctl.pc = "build" => ctl.obj.gen \in 1..realm'.gen
  BY DEF OwnImport, Onward, TypeOK, RealmCR, Control, Snapshot
<1> QED
  BY <1>1, <1>2 DEF OwnImport, Onward, ImportStays, Authentic, StillAuthentic

\* An import puts an authentic payload into Keycloak, or nothing changes there
\* but by hand.
LEMMA KeycloakMoves ==
  ASSUME TypeOK, MountsAuthentic, [Next]_vars, budget'.drifts = 0
  PROVE  \/ UNCHANGED keycloak
         \/ \E p \in Payload : Authentic(p) /\ keycloak' = ContentOf(p)
<1>1. ASSUME NEW j \in Job, CompleteJob(j) \/ FailPod(j)
      PROVE  \/ UNCHANGED keycloak
             \/ \E p \in Payload : Authentic(p) /\ keycloak' = ContentOf(p)
  <2>1. pods[j].payload \in Payload /\ Authentic(pods[j].payload)
    BY <1>1 DEF CompleteJob, FailPod, MountsAuthentic, TypeOK, PodState
  <2> QED
    BY <1>1, <2>1 DEF CompleteJob, FailPod
<1>2. CASE Drift
  BY <1>2 DEF Drift, TypeOK
<1>3. CASE UNCHANGED keycloak
  BY <1>3
<1> QED
  BY <1>1, <1>2, <1>3
     DEF Next, RealmController, ReleaseRealm, AdoptRealm, BeginSync, BuildRealmExport,
     SkipSync, DetectDrift, StampSecret, SpawnJob, SpawnFails, RecordJob,
     CleanupTerminalJobs, Cleanup, RemoveTrigger, ObserveJob, ReportOutcome,
     ReportFailure, ChildController, AdoptChild, SyncChild, ReleaseChild, AwaitPurge,
     ConfigCLI, StartPod, Crash, SyncCache, Collector, CollectSecret, CollectJob,
     User, CreateRealm, EditRealm, DeleteRealm, CreateChild, DeleteChild, Clock,
     ExpireSecret, AgeDeletion, objects, outside, vars

LEMMA ImportStaysStep ==
  ASSUME TypeOK, ImportInv, [Next]_vars
  PROVE  ImportStays
<1> SUFFICES ASSUME budget'.drifts = 0, keycloak.gen # 0 PROVE keycloak'.gen # 0
  BY DEF ImportStays
<1>1. ASSUME NEW p \in Payload, Authentic(p), keycloak' = ContentOf(p)
      PROVE  keycloak'.gen # 0
  <2>1. p.gen # 0
    BY <1>1 DEF Authentic, TypeOK, RealmCR
  <2> QED
    BY <1>1, <2>1 DEF ContentOf
<1> QED
  BY <1>1, KeycloakMoves DEF ImportInv

LEMMA SeenWasThereStep ==
  ASSUME TypeOK, TypeOK', UnbornHasNoGen, SeenWasThere, [Next]_vars
  PROVE  SeenWasThere'
<1>1. \/ UNCHANGED seenRealm
      \/ seenRealm' = realm /\ UNCHANGED realm
  BY DEF Next, RealmController, ReleaseRealm, AdoptRealm, BeginSync, BuildRealmExport,
     SkipSync, DetectDrift, StampSecret, SpawnJob, SpawnFails, RecordJob,
     CleanupTerminalJobs, Cleanup, RemoveTrigger, ObserveJob, ReportOutcome,
     ReportFailure, ChildController, AdoptChild, SyncChild, ReleaseChild, AwaitPurge,
     ConfigCLI, StartPod, CompleteJob, FailPod, Crash, SyncCache, CatchUp, Collector,
     CollectSecret, CollectJob, User, CreateRealm, EditRealm, DeleteRealm, Drift,
     CreateChild, DeleteChild, Clock, ExpireSecret, AgeDeletion, objects, cache, vars
<1>2. \/ UNCHANGED seenPhase
      \/ seenPhase' = Phases /\ UNCHANGED child
  BY DEF Next, RealmController, ReleaseRealm, AdoptRealm, BeginSync, BuildRealmExport,
     SkipSync, DetectDrift, StampSecret, SpawnJob, SpawnFails, RecordJob,
     CleanupTerminalJobs, Cleanup, RemoveTrigger, ObserveJob, ReportOutcome,
     ReportFailure, ChildController, AdoptChild, SyncChild, ReleaseChild, AwaitPurge,
     ConfigCLI, StartPod, CompleteJob, FailPod, Crash, SyncCache, CatchUp, Collector,
     CollectSecret, CollectJob, User, CreateRealm, EditRealm, DeleteRealm, Drift,
     CreateChild, DeleteChild, Clock, ExpireSecret, AgeDeletion, objects, cache, vars
<1>3. realm.gen <= realm'.gen /\ (Present(realm)' => realm'.gen # 0)
  <2>1. Present(realm) => realm.gen # 0
    BY DEF SeenWasThere
  <2> QED
    BY <2>1, RealmMoves, OnwardStep DEF Onward, Present, TypeOK, RealmCR
<1>4. /\ seenRealm'.gen <= realm'.gen
      /\ Present(seenRealm)' => seenRealm'.gen # 0
  BY <1>1, <1>3 DEF SeenWasThere, Present, TypeOK, RealmCR
<1>5. ASSUME NEW c \in Child, seenPhase'[c] # "new" PROVE child'[c].phase # "new"
  BY <1>2, <1>5, OnwardStep DEF SeenWasThere, Onward, Phases
<1> QED
  BY <1>3, <1>4, <1>5 DEF SeenWasThere, Present, TypeOK, RealmCR

\* What an export is built from was there.
LEMMA ReadsWereThere ==
  ASSUME TypeOK, SeenWasThere
  PROVE  /\ ReadRealm.phase = "live" => ReadRealm.gen \in 1..realm.gen
         /\ \A c \in Exported : child[c].phase # "new"
<1>1. ReadRealm \in {realm, seenRealm}
  BY DEF ReadRealm
<1>2. ReadRealm.phase = "live" => ReadRealm.gen \in 1..realm.gen
  BY <1>1, ReadsTyped DEF SeenWasThere, Present, TypeOK, RealmCR
<1>3. \A c \in Exported : child[c].phase # "new"
  BY DEF Exported, ReadPhase, Phases, SeenWasThere
<1> QED
  BY <1>2, <1>3

LEMMA OwnImportStep ==
  ASSUME TypeOK, TypeOK', ImportInv, OwnImport, [Next]_vars
  PROVE  OwnImport'
<1>a. \A step : Goto(step) \/ GotoDone(step) => ctl'.pc = step
  BY DEF TypeOK, Control, Goto, GotoDone
<1>b. ctl' = Idle => ctl'.pc = "idle"
  BY DEF Idle
<1>1. CASE UNCHANGED ctl
  BY <1>1, OwnImportKept, OnwardStep, ImportStaysStep DEF ImportInv
<1>2. CASE ctl'.pc \notin {"build", "sync", "stamp", "report"}
  BY <1>2 DEF OwnImport
<1>3. CASE BeginSync
  <2>1. ctl' = [ctl EXCEPT !.pc = "build", !.obj = SnapshotOf(ReadRealm)]
    BY <1>3 DEF BeginSync
  <2>2. ctl'.pc = "build" /\ ctl'.obj = SnapshotOf(ReadRealm)
    BY <2>1 DEF TypeOK, Control
  <2>3. ctl'.obj.gen = ReadRealm.gen
    BY <2>2 DEF SnapshotOf
  <2>4. ctl'.obj.gen \in 1..realm'.gen
    BY <1>3, <2>3, ReadsWereThere DEF BeginSync, objects, ImportInv
  <2> QED
    BY <2>2, <2>4 DEF OwnImport
<1>4. CASE BuildRealmExport
  <2>1. CASE Goto("fail")
    BY <1>2, <1>a, <2>1
  <2>2. ASSUME NEW order,
               ctl' = [ctl EXCEPT !.pc = "sync",
                 !.export = [gen |-> ctl.obj.gen, kids |-> Exported, order |-> order]]
        PROVE  OwnImport'
    <3>1. /\ ctl'.pc = "sync" /\ ctl'.export.gen = ctl.obj.gen
          /\ ctl'.export.kids = Exported
      BY <2>2 DEF TypeOK, Control
    <3>2. ctl.obj.gen \in 1..realm'.gen
      BY <1>4 DEF OwnImport, BuildRealmExport
    <3>3. \A c \in Exported : child'[c].phase # "new"
      BY ReadsWereThere, OnwardStep DEF ImportInv, Onward, Exported
    <3> QED
      BY <3>1, <3>2, <3>3 DEF OwnImport, Authentic
  <2> QED
    BY <1>4, <2>1, <2>2 DEF BuildRealmExport
<1>5. CASE DetectDrift
  <2>1. ctl.pc = "sync" /\ ctl'.pc = "stamp" /\ ctl'.export = ctl.export
    BY <1>5 DEF DetectDrift, Goto, TypeOK, Control
  <2>2. UNCHANGED <<realm, child>>
    BY <1>5 DEF DetectDrift, objects
  <2> QED
    BY <2>1, <2>2 DEF OwnImport, Authentic
<1>6. CASE ObserveJob
  <2>1. CASE ctl' = Idle
    BY <1>2, <1>b, <2>1
  <2>2. CASE ctl' = [ctl EXCEPT !.pc = "report", !.verdict = Outcome]
    <3>1. ctl'.pc = "report" /\ ctl'.verdict = Outcome
      BY <2>2 DEF TypeOK, Control
    <3>2. Outcome = "ready" => Tracked # NoJob /\ ReadJobs[Tracked] = "complete"
      BY DEF Outcome
    <3>3. Outcome = "ready" => \E j \in Job : SeenComplete(j)
      BY <3>2, TrackedTyped DEF ReadJobs, SeenComplete
    <3>4. UNCHANGED <<keycloak, budget>>
      BY <1>6 DEF ObserveJob, outside
    <3> QED
      BY <3>1, <3>3, <3>4 DEF OwnImport, ImportInv, HoldsAuthentic
  <2> QED
    BY <1>6, <2>1, <2>2 DEF ObserveJob
<1>7. SpawnJob => ctl'.pc = "record"
  BY DEF SpawnJob, TypeOK, Control
<1> QED
  BY <1>1, <1>2, <1>3, <1>4, <1>5, <1>6, <1>7, <1>a, <1>b
     DEF Next, RealmController, ReleaseRealm, AdoptRealm, SkipSync, StampSecret,
     SpawnFails, RecordJob, CleanupTerminalJobs, Cleanup, RemoveTrigger,
     ReportOutcome, ReportFailure, ChildController, AdoptChild, SyncChild,
     ReleaseChild, AwaitPurge, ConfigCLI, StartPod, CompleteJob, FailPod, Crash,
     SyncCache, Collector, CollectSecret, CollectJob, User, CreateRealm, EditRealm,
     DeleteRealm, Drift, CreateChild, DeleteChild, Clock, ExpireSecret, AgeDeletion,
     vars

\* A pod runs with the payload it ran with, or starts with the one in the Secret.
LEMMA RunningPodMoves ==
  ASSUME TypeOK, NEW k \in Job, pods'[k].phase = "running", [Next]_vars
  PROVE  \/ pods'[k] = pods[k]
         \/ StartPod(k) /\ pods'[k].payload = secret.payload
<1> USE DEF TypeOK
<1>1. ASSUME NEW j \in Job, StartPod(j)
      PROVE  \/ pods'[k] = pods[k]
             \/ StartPod(k) /\ pods'[k].payload = secret.payload
  BY <1>1 DEF StartPod, PodState
<1>2. ASSUME NEW new, new.phase # "running", NEW j \in Job,
             pods' = [pods EXCEPT ![j] = new]
      PROVE  pods'[k] = pods[k]
  BY <1>2
<1>3. NoPod.phase # "running"
      /\ [NoPod EXCEPT !.phase = "waiting"].phase # "running"
  BY DEF NoPod
<1>4. \A n : [NoPod EXCEPT !.phase = "waiting", !.tries = n].phase # "running"
  BY DEF NoPod
<1>5. ASSUME NEW j \in Job, FailPod(j) PROVE pods'[k] = pods[k]
  BY <1>2, <1>3, <1>4, <1>5 DEF FailPod
<1>6. CASE SpawnJob
  BY <1>2, <1>3, <1>6 DEF SpawnJob
<1>7. ASSUME NEW j \in Job, CompleteJob(j) \/ CollectJob(j)
      PROVE  pods'[k] = pods[k]
  BY <1>2, <1>3, <1>7 DEF CompleteJob, CollectJob
<1>8. CASE CleanupTerminalJobs
  BY <1>3, <1>8 DEF CleanupTerminalJobs, Cleanup
<1>9. CASE UNCHANGED pods
  BY <1>9
<1> QED
  BY <1>1, <1>5, <1>6, <1>7, <1>8, <1>9
     DEF Next, RealmController, ReleaseRealm, AdoptRealm, BeginSync,
     BuildRealmExport, SkipSync, DetectDrift, StampSecret, SpawnFails, RecordJob,
     RemoveTrigger, ObserveJob, ReportOutcome, ReportFailure, ChildController,
     AdoptChild, SyncChild, ReleaseChild, AwaitPurge, ConfigCLI, Crash, SyncCache,
     Collector, CollectSecret, User, CreateRealm, EditRealm, DeleteRealm, Drift,
     CreateChild, DeleteChild, Clock, ExpireSecret, AgeDeletion, vars

LEMMA MountsAuthenticStep ==
  ASSUME TypeOK, TypeOK', ImportInv, OwnImport, [Next]_vars
  PROVE  MountsAuthentic'
<1>a. \A p \in Payload : Authentic(p) => StillAuthentic(p)
  BY AuthenticStays, OnwardStep DEF ImportInv, Payload
<1>1. secret'.exists => StillAuthentic(secret'.payload)
  <2>1. CASE StampSecret /\ secret' # secret
    <3>1. secret'.payload = ctl.export /\ Authentic(ctl.export)
      BY <2>1 DEF StampSecret, OwnImport
    <3> QED
      BY <1>a, <3>1 DEF TypeOK, Control
  <2>2. \/ ~secret'.exists
        \/ secret.exists /\ secret'.payload = secret.payload
        \/ StampSecret /\ secret' # secret
    <3>1. ExpireSecret => UNCHANGED <<secret.exists, secret.payload>>
      BY DEF ExpireSecret, TypeOK, ConfigSecret
    <3>2. CollectSecret => ~secret'.exists
      BY DEF CollectSecret, NoSecret
    <3>3. CASE UNCHANGED secret
      BY <3>3
    <3> QED
      BY <3>1, <3>2, <3>3
         DEF Next, RealmController, ReleaseRealm, AdoptRealm, BeginSync,
         BuildRealmExport, SkipSync, DetectDrift, SpawnJob, SpawnFails,
         RecordJob, CleanupTerminalJobs, Cleanup, RemoveTrigger, ObserveJob,
         ReportOutcome, ReportFailure, ChildController, AdoptChild, SyncChild,
         ReleaseChild, AwaitPurge, ConfigCLI, StartPod, CompleteJob, FailPod, Crash,
         SyncCache, Collector, CollectJob, User, CreateRealm, EditRealm, DeleteRealm,
         Drift, CreateChild, DeleteChild, Clock, AgeDeletion, objects, vars
  <2>3. secret.exists => StillAuthentic(secret.payload)
    BY <1>a DEF ImportInv, MountsAuthentic, TypeOK, ConfigSecret
  <2> QED
    BY <2>1, <2>2, <2>3
<1>2. ASSUME NEW k \in Job, pods'[k].phase = "running"
      PROVE  StillAuthentic(pods'[k].payload)
  <2> USE DEF TypeOK
  <2>1. \/ pods'[k] = pods[k]
        \/ pods'[k].payload = secret.payload /\ secret.exists
    BY <1>2, RunningPodMoves DEF StartPod
  <2>2. /\ pods[k].payload \in Payload /\ secret.payload \in Payload
        /\ pods[k].phase = "running" => Authentic(pods[k].payload)
        /\ secret.exists => Authentic(secret.payload)
    BY DEF ImportInv, MountsAuthentic, PodState, ConfigSecret
  <2> QED
    BY <1>2, <1>a, <2>1, <2>2
<1> QED
  BY <1>1, <1>2 DEF MountsAuthentic, Authentic, StillAuthentic

\* A Job shows as completed if it did, or if it completes now.
LEMMA SeenCompleteMoves ==
  ASSUME TypeOK, NEW j \in Job, SeenComplete(j)', [Next]_vars
  PROVE  SeenComplete(j) \/ CompleteJob(j)
<1> USE DEF TypeOK, SeenComplete
<1>1. CASE SpawnJob
  BY <1>1 DEF SpawnJob
<1>2. CASE CleanupTerminalJobs
  BY <1>2 DEF CleanupTerminalJobs, Cleanup, cache
<1>3. CASE SyncCache
  BY <1>3 DEF SyncCache, CatchUp, objects
<1>4. ASSUME NEW k \in Job, CompleteJob(k) \/ FailPod(k) \/ CollectJob(k)
      PROVE  SeenComplete(j) \/ CompleteJob(j)
  BY <1>4 DEF CompleteJob, FailPod, CollectJob, cache
<1>5. CASE UNCHANGED <<jobs, seenJobs>>
  BY <1>5
<1> QED
  BY <1>1, <1>2, <1>3, <1>4, <1>5
     DEF Next, RealmController, ReleaseRealm, AdoptRealm, BeginSync, BuildRealmExport,
     SkipSync, DetectDrift, StampSecret, SpawnFails, RecordJob, RemoveTrigger,
     ObserveJob, ReportOutcome, ReportFailure, ChildController, AdoptChild, SyncChild,
     ReleaseChild, AwaitPurge, ConfigCLI, StartPod, Crash, Collector, CollectSecret,
     User, CreateRealm, EditRealm, DeleteRealm, Drift, CreateChild, DeleteChild,
     Clock, ExpireSecret, AgeDeletion, objects, cache, vars

LEMMA HoldsAuthenticStep ==
  ASSUME TypeOK, TypeOK', ImportInv, OwnImport, [Next]_vars
  PROVE  HoldsAuthentic'
<1> SUFFICES ASSUME budget'.drifts = 0
             PROVE  /\ keycloak'.gen \in 0..realm'.gen
                    /\ \A c \in keycloak'.kids : child'[c].phase # "new"
                    /\ realm'.ready \/ (\E j \in Job : SeenComplete(j)')
                         => keycloak'.gen # 0
  BY DEF HoldsAuthentic
<1>a. /\ Onward /\ budget.drifts = 0
      /\ MountsAuthentic /\ HoldsAuthentic
      /\ keycloak.gen # 0 => keycloak'.gen # 0
  BY OnwardStep, ImportStaysStep DEF ImportInv, Onward, ImportStays
<1>1. ASSUME NEW p \in Payload, Authentic(p), keycloak' = ContentOf(p)
      PROVE  /\ keycloak'.gen \in 1..realm'.gen
             /\ \A c \in keycloak'.kids : child'[c].phase # "new"
  <2>1. StillAuthentic(p)
    BY <1>1, <1>a, AuthenticStays DEF Payload
  <2> QED
    BY <1>1, <2>1 DEF StillAuthentic, ContentOf
<1>2. ASSUME UNCHANGED keycloak
      PROVE  /\ keycloak'.gen \in 0..realm'.gen
             /\ \A c \in keycloak'.kids : child'[c].phase # "new"
  <2>1. /\ keycloak.gen \in 0..realm.gen
        /\ \A c \in keycloak.kids : child[c].phase # "new"
    BY <1>a DEF HoldsAuthentic
  <2>2. keycloak'.gen \in 0..realm'.gen
    BY <1>2, <1>a, <2>1 DEF Onward, TypeOK, RealmCR
  <2>3. \A c \in keycloak'.kids : child'[c].phase # "new"
    BY <1>2, <1>a, <2>1 DEF Onward, TypeOK, Content
  <2> QED
    BY <2>2, <2>3
<1>3. /\ keycloak'.gen \in 0..realm'.gen
      /\ \A c \in keycloak'.kids : child'[c].phase # "new"
  BY <1>1, <1>2, <1>a, KeycloakMoves DEF TypeOK, RealmCR
<1>4. realm'.ready => keycloak'.gen # 0
  BY <1>a, RealmMoves DEF ImportInv, HoldsAuthentic, OwnImport
<1>5. ASSUME NEW j \in Job, SeenComplete(j)' PROVE keycloak'.gen # 0
  <2>1. CASE SeenComplete(j)
    BY <1>a, <2>1 DEF HoldsAuthentic
  <2>2. CASE CompleteJob(j)
    <3>1. /\ pods[j].payload \in Payload /\ Authentic(pods[j].payload)
          /\ keycloak' = ContentOf(pods[j].payload)
      BY <1>a, <2>2 DEF CompleteJob, MountsAuthentic, TypeOK, PodState
    <3> QED
      BY <1>1, <3>1 DEF TypeOK, RealmCR
  <2> QED
    BY <1>5, <2>1, <2>2, SeenCompleteMoves
<1> QED
  BY <1>3, <1>4, <1>5

(***************************************************************************)
(* The theorems                                                            *)
(***************************************************************************)
LEMMA ImportInvHolds ==
  Spec => [](ImportInv /\ OwnImport /\ StampedFirst /\ PodsFindSecret)
<1> DEFINE Inv == ImportInv /\ OwnImport /\ StampedFirst /\ PodsFindSecret
<1>1. Init => Inv
  BY DEF Init, ImportInv, UnbornHasNoGen, SeenWasThere, MountsAuthentic,
     HoldsAuthentic, SeenComplete, OwnImport, StampedFirst, PodsFindSecret, Present,
     NewRealm, NewChild, NoSecret, NoPod, Idle, ContentOf, NoPayload
<1>2. TypeOK /\ TypeOK' /\ JobInv /\ Inv /\ [Next]_vars => Inv'
  BY OnwardStep, SeenWasThereStep, MountsAuthenticStep, HoldsAuthenticStep,
     OwnImportStep, StampedFirstStep, PodsFindSecretStep DEF ImportInv
<1> QED
  BY <1>1, <1>2, TypeCorrect, JobInvHolds, PTL DEF Spec

\* No pod waits for a Secret that is not there, whatever is read late, fails or
\* crashes: SyncRealm stamps before it creates, and the Secret stays.
THEOREM PodsFindTheirSecret == Spec => []PodsFindSecret
BY ImportInvHolds, PTL

\* Ready is never written without an import behind it, whatever is read late: not
\* on behalf of a Job that is shown as completed but gone, nor of one whose name
\* is in use again.
THEOREM ReadyIsImported == Spec => []ReadyMeansImported
<1>1. TypeOK /\ ImportInv => ReadyMeansImported
  BY DEF ImportInv, HoldsAuthentic, ReadyMeansImported, TypeOK, RealmCR, Content
<1> QED
  BY <1>1, TypeCorrect, ImportInvHolds, PTL
=============================================================================
