------------------------- MODULE RealmStatusProofs -------------------------
(***************************************************************************)
(* Theorems about the status of the Realm and the finalizers of its        *)
(* children.  They assume what the code needs for them: that the operator  *)
(* reads the Realm as it is in the API server.  Its children, the config   *)
(* Secret and the Jobs may be read late.                                   *)
(***************************************************************************)
EXTENDS RealmImportProofs

(***************************************************************************)
(* The status: the inductive invariant                                     *)
(***************************************************************************)
\* Before the Realm exists nothing works on it.
UntouchedWhenNew ==
  realm.phase = "new" => realm.active = NoJob /\ ctl.pc = "idle"

\* A Reconcile knows of no Job of its own before it spawns one ...
NoOwnJobYet == ctl.pc \in {"idle", "build", "sync", "stamp", "spawn"} => ctl.job = NoJob

\* ... and until its first status write the status names the Job it read there.
NamedAsRead ==
  Present(realm) /\ ctl.pc \in {"build", "sync", "stamp", "spawn", "record"}
    => realm.active = ctl.obj.active

\* The Job it spawned is there, though no status names it yet.
SpawnedJobExists ==
  Present(realm) /\ ctl.pc = "record"
    => ctl.job \in Job /\ jobs[ctl.job] # "none"

\* From the cleanup on, the status names the Job this Reconcile follows.
NamedAsTracked ==
  Present(realm) /\ ctl.pc \in {"clean", "unmark", "observe", "report"}
    => realm.active = Tracked

\* A verdict of success stays true until it is reported.
ReadyVerdictHolds ==
  Present(realm) /\ ctl.pc = "report" /\ ctl.verdict = "ready"
    => realm.active \in Job /\ jobs[realm.active] = "complete"

StatusInv ==
  /\ UntouchedWhenNew
  /\ NoOwnJobYet
  /\ NamedAsRead
  /\ SpawnedJobExists
  /\ NamedAsTracked
  /\ ReadyVerdictHolds
  /\ TrackedJobExists

(***************************************************************************)
(* The status names a Job that exists                                      *)
(***************************************************************************)
\* A write of the Realm through an up-to-date cache finds it present.
LEMMA WithStatusFields ==
  ASSUME TypeOK, NEW ready \in BOOLEAN, NEW active
  PROVE  /\ WithStatus(ready, active).phase = realm.phase
         /\ WithStatus(ready, active).ready = ready
         /\ WithStatus(ready, active).active = active
         /\ WithStatus(ready, active).synced = {c \in Child : child[c].aged}
BY DEF TypeOK, RealmCR, WithStatus

\* The annotation of a child leaves what StatusInv speaks of.
LEMMA TriggerKeepsStatus ==
  ASSUME TypeOK, TriggerRealmSync
  PROVE  UNCHANGED <<realm.phase, realm.active, realm.ready, realm.synced>>
BY DEF TypeOK, RealmCR, TriggerRealmSync

LEMMA StatusInvStep ==
  ASSUME "realm" \notin Lagging, TypeOK, JobInv, StatusInv, [Next]_vars
  PROVE  StatusInv'
<1> USE DEF StatusInv, UntouchedWhenNew, NoOwnJobYet, NamedAsRead, SpawnedJobExists,
            NamedAsTracked, ReadyVerdictHolds, TrackedJobExists, Present, Tracked
<1>a. ReadRealm = realm
  BY DEF ReadRealm
<1>b. \A step : Goto(step) \/ GotoDone(step) =>
        ctl'.pc = step /\ UNCHANGED <<ctl.obj, ctl.job, ctl.verdict>>
  BY DEF TypeOK, Control, Goto, GotoDone
<1>c. Idle.pc = "idle" /\ Idle.job = NoJob
  BY DEF Idle
<1>d. realm.active \in Job \cup {NoJob} /\ Tracked \in Job \cup {NoJob}
  BY TrackedTyped DEF TypeOK, RealmCR
\* The Realm goes: nothing is said of a Realm that is gone.
<1>1. ASSUME realm' = [NewRealm EXCEPT !.phase = "gone", !.gen = realm.gen],
             UNCHANGED <<ctl, jobs>>
      PROVE  StatusInv'
  <2>1. realm'.phase = "gone"
    BY <1>1 DEF NewRealm
  <2> QED
    BY <1>1, <2>1
\* What the Realm's controllers do not track changes.
<1>2. ASSUME UNCHANGED <<realm.phase, realm.active, ctl, jobs>> PROVE StatusInv'
  BY <1>2
<1>3. CASE ReleaseRealm
  BY <1>1, <1>3 DEF ReleaseRealm
<1>4. CASE AdoptRealm
  BY <1>2, <1>4 DEF AdoptRealm, TypeOK, RealmCR
<1>5. CASE BeginSync
  BY <1>5, <1>a DEF BeginSync, objects, TypeOK, Control, SnapshotOf
<1>6. CASE BuildRealmExport
  <2>1. /\ ctl'.pc \in {"sync", "fail"}
        /\ UNCHANGED <<ctl.obj, ctl.job>>
    BY <1>6, <1>b DEF BuildRealmExport, TypeOK, Control
  <2> QED
    BY <1>6, <2>1 DEF BuildRealmExport, objects
<1>7. CASE SkipSync \/ DetectDrift
  BY <1>7, <1>b DEF SkipSync, DetectDrift, objects
<1>8. CASE StampSecret
  BY <1>8, <1>b DEF StampSecret
<1>9. CASE SpawnJob
  <2>1. PICK j \in Job :
          /\ FreshName(j)
          /\ jobs' = [jobs EXCEPT ![j] = "active"]
          /\ ctl' = [ctl EXCEPT !.pc = "record", !.job = j]
    BY <1>9 DEF SpawnJob
  <2>2. ctl'.pc = "record" /\ ctl'.job = j /\ UNCHANGED ctl.obj
    BY <2>1 DEF TypeOK, Control
  <2>3. jobs'[j] = "active" /\ \A k \in Job : jobs[k] # "none" => jobs'[k] # "none"
    BY <2>1 DEF TypeOK
  <2> QED
    BY <1>9, <1>d, <2>1, <2>2, <2>3, JobAssumption DEF SpawnJob
<1>10. CASE SpawnFails
  BY <1>10, <1>b DEF SpawnFails, objects
<1>11. CASE RecordJob
  <2>1. CASE Writable
    <3>1. realm' = WithStatus(FALSE, ctl.job) /\ Goto("clean")
      BY <1>11, <2>1 DEF RecordJob
    <3>2. realm'.phase = realm.phase /\ realm'.active = ctl.job
      BY <3>1, WithStatusFields
    <3>3. ctl'.pc = "clean" /\ ctl'.job = ctl.job
      BY <3>1, <1>b
    <3> QED
      BY <1>11, <2>1, <3>2, <3>3, JobAssumption DEF RecordJob, Writable
  <2>2. CASE ~Writable
    BY <1>11, <1>b, <2>2 DEF RecordJob
  <2> QED
    BY <2>1, <2>2
<1>12. CASE CleanupTerminalJobs
  <2>1. PICK doomed \in SUBSET CleanupCandidates : Cleanup(doomed)
    BY <1>12 DEF CleanupTerminalJobs
  <2>2. Tracked \in Job => jobs'[Tracked] = jobs[Tracked]
    BY <2>1 DEF Cleanup, CleanupCandidates
  <2>3. /\ ctl'.pc = "unmark"
        /\ UNCHANGED <<realm, ctl.obj, ctl.job>>
    BY <2>1, <1>b DEF Cleanup
  <2> QED
    BY <1>d, <2>1, <2>2, <2>3 DEF Cleanup
<1>13. CASE RemoveTrigger
  <2>1. UNCHANGED <<realm.phase, realm.active, jobs>>
    BY <1>13 DEF RemoveTrigger, TypeOK, RealmCR
  <2> QED
    BY <1>13, <1>b, <1>c, <2>1 DEF RemoveTrigger
<1>14. CASE ObserveJob
  <2>1. CASE ctl' = Idle
    BY <1>14, <1>c, <2>1 DEF ObserveJob, objects
  <2>2. CASE ctl' = [ctl EXCEPT !.pc = "report", !.verdict = Outcome]
    <3>1. /\ ctl'.pc = "report" /\ ctl'.verdict = Outcome
          /\ UNCHANGED <<ctl.obj, ctl.job>>
      BY <2>2 DEF TypeOK, Control
    <3>2. Outcome = "ready" => Tracked # NoJob /\ ReadJobs[Tracked] = "complete"
      BY DEF Outcome
    <3>3. Outcome = "ready" /\ Present(realm)
            => realm.active \in Job /\ jobs[realm.active] = "complete"
      BY <1>14, <1>d, <3>2
         DEF ObserveJob, ReadJobs, JobInv, SeenTerminalIsFinal, Terminal
    <3> QED
      BY <1>14, <3>1, <3>3 DEF ObserveJob, objects
  <2> QED
    BY <1>14, <2>1, <2>2 DEF ObserveJob
<1>15. CASE ReportOutcome
  <2>1. CASE Writable
    <3>1. realm' = WithStatus(ctl.verdict = "ready", ReportedActive) /\ ctl' = Idle
      BY <1>15, <2>1 DEF ReportOutcome
    <3>2. realm'.phase = realm.phase /\ realm'.active = ReportedActive
      BY <3>1, WithStatusFields
    <3>3. ReportedActive \in {NoJob, Tracked, realm.active}
      BY DEF ReportedActive
    <3> QED
      BY <1>15, <1>c, <2>1, <3>1, <3>2, <3>3 DEF ReportOutcome, Writable
  <2>2. CASE ~Writable
    BY <1>15, <1>b, <2>2 DEF ReportOutcome
  <2> QED
    BY <2>1, <2>2
<1>16. CASE ReportFailure
  <2>1. realm'.phase = realm.phase /\ realm'.active = realm.active
    <3>1. /\ WithStatus(FALSE, realm.active).phase = realm.phase
          /\ WithStatus(FALSE, realm.active).active = realm.active
      BY WithStatusFields
    <3> QED
      BY <1>16, <3>1 DEF ReportFailure
  <2> QED
    BY <1>16, <1>c, <2>1 DEF ReportFailure
<1>17. ASSUME NEW c \in Child, SyncChild(c) \/ AwaitPurge(c) PROVE StatusInv'
  BY <1>2, <1>17, TriggerKeepsStatus DEF SyncChild, AwaitPurge
<1>18. CASE Crash
  BY <1>18, <1>c DEF Crash, objects
<1>19. ASSUME NEW j \in Job, CompleteJob(j) \/ FailPod(j) PROVE StatusInv'
  <2>1. /\ \A k \in Job : jobs[k] # "none" => jobs'[k] # "none"
        /\ \A k \in Job : jobs[k] = "complete" => jobs'[k] = "complete"
    BY <1>19 DEF CompleteJob, FailPod, TypeOK, JobInv, PodsOfActiveJobs
  <2> QED
    BY <1>19, <1>d, <2>1 DEF CompleteJob, FailPod
<1>20. ASSUME NEW j \in Job, CollectJob(j) PROVE StatusInv'
  BY <1>20 DEF CollectJob
<1>21. CASE CreateRealm
  <2>1. realm'.phase = "live" /\ realm'.active = realm.active
    BY <1>21 DEF CreateRealm, TypeOK, RealmCR
  <2> QED
    BY <1>21, <2>1 DEF CreateRealm
<1>22. CASE EditRealm
  BY <1>2, <1>22 DEF EditRealm, TypeOK, RealmCR
<1>23. CASE DeleteRealm
  <2>1. CASE realm.fin
    <3>1. realm'.phase = "deleting" /\ realm'.active = realm.active
      BY <1>23, <2>1 DEF DeleteRealm, TypeOK, RealmCR
    <3> QED
      BY <1>23, <3>1 DEF DeleteRealm
  <2> QED
    BY <1>1, <1>23, <2>1 DEF DeleteRealm
<1>24. CASE UNCHANGED <<realm, ctl, jobs>>
  BY <1>2, <1>24
<1> QED
  BY <1>3, <1>4, <1>5, <1>6, <1>7, <1>8, <1>9, <1>10, <1>11, <1>12, <1>13, <1>14,
     <1>15, <1>16, <1>17, <1>18, <1>19, <1>20, <1>21, <1>22, <1>23, <1>24
     DEF Next, RealmController, ChildController, AdoptChild, ReleaseChild, ConfigCLI,
     StartPod, SyncCache, Collector, CollectSecret, User, Drift, CreateChild,
     DeleteChild, Clock, ExpireSecret, AgeDeletion, objects, vars

LEMMA StatusInvHolds ==
  ASSUME "realm" \notin Lagging
  PROVE  Spec => []StatusInv
<1>1. Init => StatusInv
  BY DEF Init, StatusInv, UntouchedWhenNew, NoOwnJobYet, NamedAsRead, SpawnedJobExists,
     NamedAsTracked, ReadyVerdictHolds, TrackedJobExists, Present, Idle, NewRealm
<1>2. TypeOK /\ JobInv /\ StatusInv /\ [Next]_vars => StatusInv'
  BY StatusInvStep
<1> QED
  BY <1>1, <1>2, TypeCorrect, JobInvHolds, PTL DEF Spec

\* A Reconcile that reads the Realm as it is never leaves the status with the
\* name of a Job that is not there.
THEOREM TrackedJobsExist ==
  ASSUME "realm" \notin Lagging
  PROVE  Spec => []TrackedJobExists
<1>1. StatusInv => TrackedJobExists
  BY DEF StatusInv
<1> QED
  BY <1>1, StatusInvHolds, PTL

\* Ready is written only on behalf of a Job that the status names and that has
\* completed, and both still hold at the write.
THEOREM ReadyIsBacked ==
  ASSUME "realm" \notin Lagging
  PROVE  Spec => ReadyBackedByTrackedJob
<1>1. TypeOK /\ StatusInv /\ [Next]_vars
        => [~realm.ready /\ realm'.ready
              => realm.active # NoJob /\ jobs[realm.active] = "complete"]_vars
  <2> SUFFICES ASSUME TypeOK, StatusInv, [Next]_vars, ~realm.ready, realm'.ready
               PROVE  realm.active # NoJob /\ jobs[realm.active] = "complete"
    OBVIOUS
  <2>1. CASE ReportOutcome
    <3>1. Writable
      BY <2>1 DEF ReportOutcome
    <3>2. WithStatus(ctl.verdict = "ready", ReportedActive).ready
            = (ctl.verdict = "ready")
      BY WithStatusFields
    <3>3. ctl.verdict = "ready"
      BY <2>1, <3>1, <3>2 DEF ReportOutcome
    <3> QED
      BY <2>1, <3>1, <3>3, JobAssumption
         DEF ReportOutcome, Writable, StatusInv, ReadyVerdictHolds
  <2>2. WithStatus(FALSE, ctl.job).ready = FALSE
        /\ WithStatus(FALSE, realm.active).ready = FALSE
    BY WithStatusFields
  <2>3. CASE RecordJob \/ ReportFailure
    BY <2>2, <2>3 DEF RecordJob, ReportFailure
  <2>4. CASE ReleaseRealm \/ AdoptRealm \/ RemoveTrigger \/ CreateRealm
             \/ EditRealm \/ DeleteRealm
    BY <2>4 DEF ReleaseRealm, AdoptRealm, RemoveTrigger, CreateRealm, EditRealm,
                DeleteRealm, TypeOK, RealmCR, NewRealm
  <2>5. CASE TriggerRealmSync
    BY <2>5, TriggerKeepsStatus
  <2>6. CASE UNCHANGED realm
    BY <2>6
  <2> QED
    BY <2>1, <2>3, <2>4, <2>5, <2>6
       DEF Next, RealmController, BeginSync, BuildRealmExport, SkipSync, DetectDrift, StampSecret,
       SpawnJob, SpawnFails, CleanupTerminalJobs, Cleanup, ObserveJob,
       ChildController, AdoptChild, SyncChild, ReleaseChild, AwaitPurge, ConfigCLI,
       StartPod, CompleteJob, FailPod, Crash, SyncCache, Collector, CollectSecret,
       CollectJob, User, Drift, CreateChild, DeleteChild, Clock, ExpireSecret,
       AgeDeletion, objects, vars
<1> QED
  BY <1>1, TypeCorrect, StatusInvHolds, PTL DEF Spec, ReadyBackedByTrackedJob

(***************************************************************************)
(* A calm deletion purges: the inductive invariant                         *)
(***************************************************************************)
\* A deletion of c was requested at rest, with the Realm there until it was
\* released, no export since included c, and nobody has edited Keycloak.
Promised(c) ==
  child[c].phase \in {"deleting", "gone"} /\ child[c].calm /\ budget.drifts = 0

\* Whatever still may be imported is without c.
NothingBringsBack(c) ==
  \A j \in Job :
    /\ jobs[j] = "active" => c \notin secret.payload.kids
    /\ pods[j].phase = "running" => c \notin pods[j].payload.kids

\* The Job that the status names completes only by purging c.
CompletionPurges(c) ==
  realm.active \in Job /\ SeenComplete(realm.active) => c \notin keycloak.kids

\* A Ready status later than the deletion of c is backed by such a Job.
ReadyMeansPurged(c) ==
  realm.ready /\ c \in realm.synced => c \notin keycloak.kids

\* Once c is released it is not in Keycloak.
ReleasedIsPurged(c) == child[c].phase = "gone" => c \notin keycloak.kids

Purging(c) ==
  /\ NothingBringsBack(c) /\ CompletionPurges(c) /\ ReadyMeansPurged(c)
  /\ ReleasedIsPurged(c)

\* The part about a Reconcile: what it is about to stamp, or has stamped for a Job
\* to come, is without c, and the Jobs it knows complete only by purging c.
OwnPurge(c) ==
  /\ ctl.pc \in {"sync", "stamp"} => c \notin ctl.export.kids
  /\ ctl.pc = "spawn" => c \notin secret.payload.kids
  /\ \A j \in {ctl.job, ctl.obj.active} :
       j \in Job /\ SeenComplete(j) => c \notin keycloak.kids
  /\ ctl.pc = "report" /\ ctl.verdict = "ready" => c \notin keycloak.kids

\* Between two Reconciles nothing is remembered.
IdleIsBlank == ctl.pc = "idle" => ctl = Idle

\* LastSyncTime is later than a deletion only if the deletion is aged.
SyncedIsAged ==
  \A c \in Child : /\ child[c].aged => child[c].phase = "deleting"
                   /\ c \in realm.synced => child[c].aged \/ child[c].phase = "gone"

PurgeInv ==
  /\ SyncedIsAged /\ IdleIsBlank
  /\ \A c \in Child : Promised(c) => Purging(c) /\ OwnPurge(c)

(***************************************************************************)
(* A calm deletion purges: what a step can do                              *)
(***************************************************************************)
\* LastSyncTime moves past deletions that are aged, or back to none.
LEMMA SyncedGrows ==
  ASSUME TypeOK, [Next]_vars
  PROVE  realm'.synced \subseteq realm.synced \cup {c \in Child : child[c].aged}
<1>1. CASE RecordJob \/ ReportOutcome \/ ReportFailure
  <2>1. /\ WithStatus(FALSE, ctl.job).synced = {c \in Child : child[c].aged}
        /\ WithStatus(FALSE, realm.active).synced = {c \in Child : child[c].aged}
        /\ WithStatus(ctl.verdict = "ready", ReportedActive).synced
             = {c \in Child : child[c].aged}
    BY WithStatusFields
  <2> QED
    BY <1>1, <2>1 DEF RecordJob, ReportOutcome, ReportFailure
<1>2. CASE ReleaseRealm \/ AdoptRealm \/ RemoveTrigger \/ CreateRealm
           \/ EditRealm \/ DeleteRealm
  BY <1>2 DEF ReleaseRealm, AdoptRealm, RemoveTrigger, CreateRealm, EditRealm,
              DeleteRealm, TypeOK, RealmCR, NewRealm
<1>3. CASE TriggerRealmSync
  BY <1>3, TriggerKeepsStatus
<1>4. CASE UNCHANGED realm
  BY <1>4
<1> QED
  BY <1>1, <1>2, <1>3, <1>4
     DEF Next, RealmController, BeginSync, BuildRealmExport, SkipSync, DetectDrift, StampSecret,
     SpawnJob, SpawnFails, CleanupTerminalJobs, Cleanup, ObserveJob,
     ChildController, AdoptChild, SyncChild, ReleaseChild, AwaitPurge, ConfigCLI,
     StartPod, CompleteJob, FailPod, Crash, SyncCache, Collector, CollectSecret,
     CollectJob, User, Drift, CreateChild, DeleteChild, Clock, ExpireSecret,
     AgeDeletion, objects, vars

\* An export touches nothing of the children but calm, and leaves a deletion calm
\* only if it is without the child.
LEMMA ExportCalms ==
  ASSUME TypeOK, BuildRealmExport, NEW c \in Child
  PROVE  /\ UNCHANGED <<child[c].phase, child[c].aged>>
         /\ child'[c].calm => child[c].calm
         /\ ctl'.pc = "sync" /\ child'[c].calm => c \notin ctl'.export.kids
<1>1. CASE Goto("fail") /\ UNCHANGED child
  <2>1. ctl'.pc = "fail"
    BY <1>1 DEF Goto, TypeOK, Control
  <2> QED
    BY <1>1, <2>1
<1>2. ASSUME NEW order,
             ctl' = [ctl EXCEPT !.pc = "sync",
               !.export = [gen |-> ctl.obj.gen, kids |-> Exported, order |-> order]],
             child' = [d \in Child |->
                        [child[d] EXCEPT !.calm = @ /\ ReadPhase[d] # "live"]]
      PROVE  /\ UNCHANGED <<child[c].phase, child[c].aged>>
             /\ child'[c].calm => child[c].calm
             /\ child'[c].calm => c \notin ctl'.export.kids
  <2>1. child'[c].calm = (child[c].calm /\ ReadPhase[c] # "live")
    BY <1>2 DEF TypeOK, ChildCR
  <2>2. ctl'.export.kids = Exported
    BY <1>2 DEF TypeOK, Control
  <2>3. ReadPhase[c] # "live" => c \notin Exported
    BY DEF Exported
  <2>4. UNCHANGED <<child[c].phase, child[c].aged>>
    BY <1>2 DEF TypeOK, ChildCR
  <2> QED
    BY <2>1, <2>2, <2>3, <2>4 DEF TypeOK, ChildCR
<1> QED
  BY <1>1, <1>2 DEF BuildRealmExport

\* What a step can do to a child: nothing, age its deletion, release it, or
\* something that leaves it in the phases in which it is not aged; and only its
\* deletion, at rest, makes it calm, and it stays calm when it is released while
\* the Realm is there; an export may end the calm, and nothing else of a child.
LEMMA ChildMoves ==
  ASSUME TypeOK, SyncedIsAged, [Next]_vars, NEW c \in Child
  PROVE  /\ child'[c].aged => child'[c].phase = "deleting"
         /\ child[c].aged => child'[c].aged \/ child'[c].phase = "gone"
         /\ child[c].phase = "gone" => child'[c].phase = "gone"
         /\ child'[c].phase \in {"deleting", "gone"} /\ child'[c].calm
              => \/ child[c].calm /\ child'[c].phase = child[c].phase
                 \/ /\ ReleaseChild(c) /\ Present(realm)
                    /\ child[c].calm /\ child[c].phase = "deleting"
                 \/ /\ DeleteChild(c)
                    /\ child[c].phase = "live" /\ child'[c].phase = "deleting"
                    /\ AtRest
<1> USE DEF TypeOK, ChildCR, SyncedIsAged
<1>1. ASSUME NEW d \in Child, AdoptChild(d) \/ SyncChild(d) \/ CreateChild(d)
                              \/ AgeDeletion(d)
      PROVE  /\ UNCHANGED <<child[c].calm>>
             /\ child'[c].aged => child'[c].phase = "deleting"
             /\ child[c].aged => child'[c].aged
             /\ child[c].phase = "gone" => child'[c].phase = "gone"
             /\ child'[c].phase \in {"deleting", "gone"}
                  => child'[c].phase = child[c].phase
  BY <1>1 DEF AdoptChild, SyncChild, CreateChild, AgeDeletion
<1>2. ASSUME NEW d \in Child, ReleaseChild(d)
      PROVE  \/ UNCHANGED child[c]
             \/ /\ d = c /\ child[c].phase = "deleting"
                /\ child'[c].phase = "gone" /\ ~child'[c].aged
                /\ child'[c].calm = (child[c].calm /\ Present(realm))
  BY <1>2 DEF ReleaseChild, GoneChild, NewChild
<1>3. GoneChild.phase = "gone" /\ ~GoneChild.aged /\ ~GoneChild.calm
  BY DEF GoneChild, NewChild
<1>4. ASSUME NEW d \in Child, DeleteChild(d)
      PROVE  \/ UNCHANGED child[c]
             \/ child'[c] = GoneChild /\ child[c].phase = "live"
             \/ /\ d = c /\ child[c].phase = "live"
                /\ child'[c].phase = "deleting"
                /\ child'[c].calm = AtRest /\ UNCHANGED <<child[c].aged>>
  BY <1>4 DEF DeleteChild
<1>5. CASE UNCHANGED child
  BY <1>5
<1>6. CASE BuildRealmExport
  BY <1>6, ExportCalms
<1> QED
  BY <1>1, <1>2, <1>3, <1>4, <1>5, <1>6
     DEF Next, RealmController, ReleaseRealm, AdoptRealm, BeginSync,
     SkipSync, DetectDrift, StampSecret, SpawnJob, SpawnFails, RecordJob, CleanupTerminalJobs,
     Cleanup, RemoveTrigger, ObserveJob, ReportOutcome, ReportFailure,
     ChildController, AwaitPurge, ConfigCLI, StartPod, CompleteJob, FailPod, Crash,
     SyncCache, Collector, CollectSecret, CollectJob, User, CreateRealm, EditRealm,
     DeleteRealm, Drift, Clock, ExpireSecret, objects, vars

\* What a step can do to the Job, the readiness and the date in the status.
LEMMA StatusMoves ==
  ASSUME TypeOK, [Next]_vars
  PROVE  \/ UNCHANGED <<realm.active, realm.ready, realm.synced>>
         \/ /\ ~realm'.ready
            /\ realm'.active \in {NoJob, realm.active, ctl.job}
         \/ /\ ctl.pc = "report" /\ ctl.verdict = "ready"
            /\ realm'.active = NoJob
         \/ /\ ctl.pc = "report" /\ ~realm'.ready
            /\ realm'.active \in {Tracked, realm.active}
<1>1. CASE ReportOutcome
  <2>1. /\ WithStatus(ctl.verdict = "ready", ReportedActive).active = ReportedActive
        /\ WithStatus(ctl.verdict = "ready", ReportedActive).ready
             = (ctl.verdict = "ready")
    BY WithStatusFields
  <2>2. ReportedActive = NoJob \/ ReportedActive \in {Tracked, realm.active}
    BY DEF ReportedActive
  <2>3. ctl.verdict = "ready" => ReportedActive = NoJob
    BY DEF ReportedActive
  <2> QED
    BY <1>1, <2>1, <2>2, <2>3 DEF ReportOutcome
<1>2. CASE RecordJob \/ ReportFailure
  <2>1. \A active : /\ WithStatus(FALSE, active).active = active
                    /\ WithStatus(FALSE, active).ready = FALSE
    BY WithStatusFields
  <2> QED
    BY <1>2, <2>1 DEF RecordJob, ReportFailure
<1>3. CASE ReleaseRealm \/ AdoptRealm \/ RemoveTrigger \/ CreateRealm
           \/ EditRealm \/ DeleteRealm
  BY <1>3 DEF ReleaseRealm, AdoptRealm, RemoveTrigger, CreateRealm, EditRealm,
              DeleteRealm, TypeOK, RealmCR, NewRealm
<1>4. CASE TriggerRealmSync
  BY <1>4, TriggerKeepsStatus
<1>5. CASE UNCHANGED realm
  BY <1>5
<1> QED
  BY <1>1, <1>2, <1>3, <1>4, <1>5
     DEF Next, RealmController, BeginSync, BuildRealmExport, SkipSync, DetectDrift,
     StampSecret, SpawnJob, SpawnFails, CleanupTerminalJobs, Cleanup, ObserveJob,
     ChildController, AdoptChild, SyncChild, ReleaseChild, AwaitPurge, ConfigCLI,
     StartPod, CompleteJob, FailPod, Crash, SyncCache, Collector, CollectSecret,
     CollectJob, User, Drift, CreateChild, DeleteChild, Clock, ExpireSecret,
     AgeDeletion, objects, vars

\* A Job that runs ran before, or was created by a Reconcile about to do so.
LEMMA ActiveJobMoves ==
  ASSUME TypeOK, JobInv, NEW k \in Job, jobs'[k] = "active", [Next]_vars
  PROVE  jobs[k] = "active" \/ ctl.pc = "spawn"
<1> USE DEF TypeOK
<1>1. ASSUME NEW j \in Job, CompleteJob(j) \/ FailPod(j) \/ CollectJob(j)
      PROVE  jobs[k] = "active"
  BY <1>1 DEF CompleteJob, FailPod, CollectJob
<1>2. CASE CleanupTerminalJobs
  BY <1>2 DEF CleanupTerminalJobs, Cleanup
<1>3. CASE SpawnJob
  BY <1>3 DEF SpawnJob
<1>4. CASE UNCHANGED jobs
  BY <1>4
<1> QED
  BY <1>1, <1>2, <1>3, <1>4
     DEF Next, RealmController, ReleaseRealm, AdoptRealm, BeginSync, BuildRealmExport,
     SkipSync, DetectDrift, StampSecret, SpawnFails, RecordJob, RemoveTrigger,
     ObserveJob, ReportOutcome, ReportFailure, ChildController, AdoptChild, SyncChild,
     ReleaseChild, AwaitPurge, ConfigCLI, StartPod, Crash, SyncCache, Collector,
     CollectSecret, User, CreateRealm, EditRealm, DeleteRealm, Drift, CreateChild,
     DeleteChild, Clock, ExpireSecret, AgeDeletion, objects, vars

\* What still may run brings no such child into Keycloak.
LEMMA NoneReturns ==
  ASSUME TypeOK, [Next]_vars, NEW c \in Child, NothingBringsBack(c),
         budget'.drifts = 0, c \in keycloak'.kids
  PROVE  c \in keycloak.kids
<1>1. ASSUME NEW j \in Job, CompleteJob(j) \/ FailPod(j) PROVE c \in keycloak.kids
  <2>1. c \notin pods[j].payload.kids
    BY <1>1 DEF CompleteJob, FailPod, NothingBringsBack
  <2> QED
    BY <1>1, <2>1 DEF CompleteJob, FailPod, ContentOf
<1>2. CASE Drift
  BY <1>2 DEF Drift, TypeOK
<1>3. CASE UNCHANGED keycloak
  BY <1>3
<1> QED
  BY <1>1, <1>2, <1>3
     DEF Next, RealmController, ReleaseRealm, AdoptRealm, BeginSync, BuildRealmExport,
     SkipSync, DetectDrift, StampSecret, SpawnJob, SpawnFails, RecordJob, CleanupTerminalJobs,
     Cleanup, RemoveTrigger, ObserveJob, ReportOutcome, ReportFailure,
     ChildController, AdoptChild, SyncChild, ReleaseChild, AwaitPurge, ConfigCLI,
     StartPod, Crash, SyncCache, Collector, CollectSecret, CollectJob, User,
     CreateRealm, EditRealm, DeleteRealm, CreateChild, DeleteChild, Clock,
     ExpireSecret, AgeDeletion, objects, outside, vars

\* What every step leaves: a Secret without c stays without c, Keycloak too, and
\* no Job completes but by purging c.
PurgeStays(c) ==
  /\ c \notin secret.payload.kids => c \notin secret'.payload.kids
  /\ c \notin keycloak.kids => c \notin keycloak'.kids
  /\ \A j \in Job : SeenComplete(j)' => SeenComplete(j) \/ c \notin keycloak'.kids

LEMMA PurgeStaysStep ==
  ASSUME TypeOK, [Next]_vars, NEW c \in Child,
         NothingBringsBack(c), OwnPurge(c), budget'.drifts = 0
  PROVE  PurgeStays(c)
<1>1. c \notin secret.payload.kids => c \notin secret'.payload.kids
  <2>1. CASE StampSecret
    BY <2>1 DEF StampSecret, OwnPurge
  <2>2. CASE CollectSecret
    BY <2>2 DEF CollectSecret, NoSecret, NoPayload
  <2>3. CASE ExpireSecret
    BY <2>3 DEF ExpireSecret, TypeOK, ConfigSecret
  <2>4. CASE UNCHANGED secret
    BY <2>4
  <2> QED
    BY <2>1, <2>2, <2>3, <2>4
       DEF Next, RealmController, ReleaseRealm, AdoptRealm, BeginSync,
       BuildRealmExport, SkipSync, DetectDrift, SpawnJob, SpawnFails, RecordJob,
       CleanupTerminalJobs, Cleanup, RemoveTrigger, ObserveJob, ReportOutcome,
       ReportFailure, ChildController, AdoptChild, SyncChild, ReleaseChild,
       AwaitPurge, ConfigCLI, StartPod, CompleteJob, FailPod, Crash, SyncCache,
       Collector, CollectJob, User, CreateRealm, EditRealm, DeleteRealm, Drift,
       CreateChild, DeleteChild, Clock, AgeDeletion, objects, vars
<1>2. c \notin keycloak.kids => c \notin keycloak'.kids
  BY NoneReturns
<1>3. ASSUME NEW j \in Job, SeenComplete(j)', ~SeenComplete(j)
      PROVE  c \notin keycloak'.kids
  <2>1. CompleteJob(j)
    BY <1>3, SeenCompleteMoves
  <2> QED
    BY <2>1 DEF CompleteJob, NothingBringsBack, ContentOf
<1> QED
  BY <1>1, <1>2, <1>3 DEF PurgeStays

(***************************************************************************)
(* A calm deletion purges: the invariant is kept                           *)
(***************************************************************************)
\* The Reconcile in ctl is not the one that takes the step.
LEMMA OwnPurgeKept ==
  ASSUME NEW c \in Child, OwnPurge(c), UNCHANGED ctl, PurgeStays(c)
  PROVE  OwnPurge(c)'
BY DEF OwnPurge, PurgeStays

LEMMA OwnPurgeStep ==
  ASSUME "realm" \notin Lagging, TypeOK, [Next]_vars, NEW c \in Child,
         Promised(c)', Purging(c), OwnPurge(c), PurgeStays(c)
  PROVE  OwnPurge(c)'
<1>a. \A step : Goto(step) \/ GotoDone(step) =>
        ctl'.pc = step /\ UNCHANGED <<ctl.job, ctl.obj, ctl.verdict>>
  BY DEF TypeOK, Control, Goto, GotoDone
\* The next steps in which nothing of its own is stamped or reported.
<1>1. ASSUME UNCHANGED <<ctl.job, ctl.obj>>,
             ctl'.pc \notin {"sync", "stamp", "spawn", "report"}
      PROVE  OwnPurge(c)'
  BY <1>1 DEF OwnPurge, PurgeStays
<1>2. CASE UNCHANGED ctl
  BY <1>2, OwnPurgeKept
<1>3. CASE ctl' = Idle
  <2>1. ctl'.pc = "idle" /\ ctl'.job = NoJob /\ ctl'.obj.active = NoJob
    BY <1>3 DEF Idle, SnapshotOf, NewRealm
  <2> QED
    BY <2>1, JobAssumption DEF OwnPurge
<1>4. CASE BeginSync
  <2>1. ctl' = [ctl EXCEPT !.pc = "build", !.obj = SnapshotOf(realm)]
    BY <1>4 DEF BeginSync, ReadRealm
  <2>2. ctl'.pc = "build" /\ ctl'.obj = SnapshotOf(realm) /\ ctl'.job = ctl.job
    BY <2>1 DEF TypeOK, Control
  <2>3. ctl'.obj.active = realm.active
    BY <2>2 DEF SnapshotOf
  <2> QED
    BY <2>2, <2>3 DEF OwnPurge, PurgeStays, Purging, CompletionPurges
<1>5. CASE BuildRealmExport
  <2>1. /\ ctl'.pc \in {"sync", "fail"} /\ UNCHANGED <<ctl.job, ctl.obj>>
        /\ ctl'.pc = "sync" => c \notin ctl'.export.kids
    BY <1>5, <1>a, ExportCalms DEF BuildRealmExport, Promised, TypeOK, Control
  <2> QED
    BY <2>1 DEF OwnPurge, PurgeStays
<1>6. CASE DetectDrift
  <2>1. ctl.pc = "sync" /\ ctl' = [ctl EXCEPT !.pc = "stamp"]
    BY <1>6 DEF DetectDrift, Goto
  <2>2. /\ ctl'.pc = "stamp" /\ UNCHANGED <<ctl.export, ctl.job, ctl.obj>>
    BY <2>1 DEF TypeOK, Control
  <2> QED
    BY <2>1, <2>2 DEF OwnPurge, PurgeStays
<1>7. CASE StampSecret
  <2>1. CASE GotoDone("fail")
    BY <1>1, <1>a, <2>1
  <2>2. CASE /\ secret' = [exists |-> TRUE, payload |-> ctl.export, fresh |-> TRUE]
             /\ GotoDone("spawn")
    BY <1>7, <1>a, <2>2 DEF StampSecret, OwnPurge, PurgeStays
  <2> QED
    BY <1>7, <2>1, <2>2 DEF StampSecret
<1>8. CASE SpawnJob
  <2>1. PICK j \in Job :
          /\ jobs' = [jobs EXCEPT ![j] = "active"]
          /\ seenJobs' = [seenJobs EXCEPT ![j] = "none"]
          /\ ctl' = [ctl EXCEPT !.pc = "record", !.job = j]
    BY <1>8 DEF SpawnJob
  <2>2. ctl'.pc = "record" /\ ctl'.job = j /\ UNCHANGED ctl.obj
    BY <2>1 DEF TypeOK, Control
  <2>3. ~SeenComplete(j)'
    BY <2>1 DEF SeenComplete, TypeOK
  <2> QED
    BY <2>2, <2>3 DEF OwnPurge, PurgeStays
<1>9. CASE ObserveJob
  <2>1. CASE ctl' = [ctl EXCEPT !.pc = "report", !.verdict = Outcome]
    <3>1. /\ ctl'.pc = "report" /\ ctl'.verdict = Outcome
          /\ UNCHANGED <<ctl.job, ctl.obj>>
      BY <2>1 DEF TypeOK, Control
    <3>2. Outcome = "ready" => Tracked # NoJob /\ ReadJobs[Tracked] = "complete"
      BY DEF Outcome
    <3>3. Outcome = "ready" => Tracked \in Job /\ SeenComplete(Tracked)
      BY <3>2, TrackedTyped DEF ReadJobs, SeenComplete
    <3>4. Outcome = "ready" => c \notin keycloak.kids
      BY <3>3 DEF OwnPurge, Tracked
    <3> QED
      BY <3>1, <3>4 DEF OwnPurge, PurgeStays
  <2> QED
    BY <1>3, <1>9, <2>1 DEF ObserveJob
<1>10. ASSUME NEW step \in {"fail", "clean", "unmark", "observe"},
              Goto(step) \/ GotoDone(step)
       PROVE  OwnPurge(c)'
  BY <1>1, <1>10, <1>a
<1> QED
  BY <1>2, <1>3, <1>4, <1>5, <1>6, <1>7, <1>8, <1>9, <1>10
     DEF Next, RealmController, ReleaseRealm, AdoptRealm, SkipSync, SpawnFails,
     RecordJob, CleanupTerminalJobs, Cleanup, RemoveTrigger, ReportOutcome,
     ReportFailure, ChildController, AdoptChild, SyncChild, ReleaseChild, AwaitPurge,
     ConfigCLI, StartPod, CompleteJob, FailPod, Crash, SyncCache, Collector,
     CollectSecret, CollectJob, User, CreateRealm, EditRealm, DeleteRealm, Drift,
     CreateChild, DeleteChild, Clock, ExpireSecret, AgeDeletion, vars

LEMMA PurgingStep ==
  ASSUME "realm" \notin Lagging, TypeOK, JobInv, SyncedIsAged, [Next]_vars,
         NEW c \in Child,
         Promised(c), Promised(c)', Purging(c), OwnPurge(c), PurgeStays(c)
  PROVE  Purging(c)'
<1>1. NothingBringsBack(c)'
  <2>1. ASSUME NEW k \in Job, jobs'[k] = "active"
        PROVE  c \notin secret'.payload.kids
    BY <2>1, ActiveJobMoves DEF Purging, NothingBringsBack, OwnPurge, PurgeStays
  <2>2. ASSUME NEW k \in Job, pods'[k].phase = "running"
        PROVE  c \notin pods'[k].payload.kids
    <3>1. CASE pods'[k] = pods[k]
      BY <2>2, <3>1 DEF Purging, NothingBringsBack
    <3>2. CASE StartPod(k) /\ pods'[k].payload = secret.payload
      <4>1. jobs[k] = "active"
        BY <3>2 DEF StartPod, JobInv, PodsOfActiveJobs
      <4> QED
        BY <3>2, <4>1 DEF Purging, NothingBringsBack
    <3> QED
      BY <2>2, <3>1, <3>2, RunningPodMoves
  <2> QED
    BY <2>1, <2>2 DEF NothingBringsBack
<1>2. CompletionPurges(c)'
  <2> SUFFICES ASSUME NEW j \in Job, realm'.active = j, SeenComplete(j)'
               PROVE  c \notin keycloak'.kids
    BY DEF CompletionPurges, SeenComplete
  <2>1. j \in {realm.active, ctl.job, Tracked}
    BY StatusMoves, JobAssumption
  <2>2. Tracked \in {ctl.job, ctl.obj.active}
    BY DEF Tracked
  <2>3. SeenComplete(j) => c \notin keycloak.kids
    BY <2>1, <2>2 DEF Purging, CompletionPurges, OwnPurge
  <2> QED
    BY <2>3 DEF PurgeStays
<1>3. ReadyMeansPurged(c)'
  BY StatusMoves DEF Purging, ReadyMeansPurged, OwnPurge, PurgeStays
<1>4. ReleasedIsPurged(c)'
  <2>1. CASE ReleaseChild(c) /\ Present(realm)
    <3>1. realm.ready /\ c \in realm.synced
      BY <2>1 DEF ReleaseChild, IsSafelyDeleted, ReadRealm
    <3> QED
      BY <3>1 DEF Purging, ReadyMeansPurged, ReleasedIsPurged, PurgeStays
  <2>2. CASE child'[c].phase = child[c].phase
    BY <2>2 DEF Purging, ReleasedIsPurged, PurgeStays
  <2>3. CASE child'[c].phase = "deleting"
    BY <2>3 DEF ReleasedIsPurged
  <2> QED
    BY <2>1, <2>2, <2>3, ChildMoves DEF Promised
<1> QED
  BY <1>1, <1>2, <1>3, <1>4 DEF Purging

\* At rest there is no Job left over from before the deletion, and no status is
\* later than it.
LEMMA PurgingFromRest ==
  ASSUME TypeOK, JobInv, SyncedIsAged, NEW c \in Child, DeleteChild(c),
         child[c].phase = "live", child'[c].phase = "deleting", AtRest
  PROVE  Purging(c)'
<1>1. c \notin realm.synced
  BY DEF SyncedIsAged
<1>2. UNCHANGED <<realm, secret, jobs, pods, keycloak, seenJobs>>
  BY DEF DeleteChild, outside, cache
<1>3. \A j \in Job : jobs[j] # "active" /\ pods[j].phase # "running"
  BY DEF AtRest, JobInv, PodsOfActiveJobs
<1>4. realm.active \notin Job
  BY JobAssumption DEF AtRest
<1> QED
  BY <1>1, <1>2, <1>3, <1>4
     DEF Purging, NothingBringsBack, CompletionPurges, ReadyMeansPurged,
         ReleasedIsPurged

\* A blank Reconcile promises nothing it cannot keep.
LEMMA BlankPurge ==
  ASSUME ctl' = Idle, NEW c \in Child
  PROVE  OwnPurge(c)'
<1>1. ctl'.pc = "idle" /\ ctl'.job = NoJob /\ ctl'.obj.active = NoJob
  BY DEF Idle, SnapshotOf, NewRealm
<1> QED
  BY <1>1, JobAssumption DEF OwnPurge

LEMMA IdleIsBlankStep ==
  ASSUME TypeOK, IdleIsBlank, [Next]_vars
  PROVE  IdleIsBlank'
<1>a. \A step : Goto(step) \/ GotoDone(step) => ctl'.pc = step
  BY DEF TypeOK, Control, Goto, GotoDone
<1>1. CASE UNCHANGED ctl
  BY <1>1 DEF IdleIsBlank, Idle
<1>2. CASE ctl' = Idle
  BY <1>2 DEF IdleIsBlank, Idle
<1>3. CASE ctl'.pc # "idle"
  BY <1>3 DEF IdleIsBlank
<1>4. BeginSync => ctl'.pc = "build"
  <2> SUFFICES ASSUME BeginSync PROVE ctl'.pc = "build"
    OBVIOUS
  <2>1. ctl' = [ctl EXCEPT !.pc = "build", !.obj = SnapshotOf(ReadRealm)]
    BY DEF BeginSync
  <2> QED
    BY <2>1 DEF TypeOK, Control
<1>5. BuildRealmExport => ctl'.pc # "idle"
  BY DEF BuildRealmExport, Goto, TypeOK, Control
<1>6. SpawnJob => ctl'.pc # "idle"
  BY DEF SpawnJob, TypeOK, Control
<1>7. ObserveJob => ctl' = Idle \/ ctl'.pc # "idle"
  BY DEF ObserveJob, TypeOK, Control
<1> QED
  BY <1>1, <1>2, <1>3, <1>4, <1>5, <1>6, <1>7, <1>a
     DEF Next, RealmController, ReleaseRealm, AdoptRealm, SkipSync, DetectDrift,
     StampSecret, SpawnFails, RecordJob, CleanupTerminalJobs, Cleanup, RemoveTrigger,
     ReportOutcome, ReportFailure, ChildController, AdoptChild, SyncChild,
     ReleaseChild, AwaitPurge, ConfigCLI, StartPod, CompleteJob, FailPod, Crash,
     SyncCache, Collector, CollectSecret, CollectJob, User, CreateRealm, EditRealm,
     DeleteRealm, Drift, CreateChild, DeleteChild, Clock, ExpireSecret, AgeDeletion,
     vars

LEMMA SyncedIsAgedStep ==
  ASSUME TypeOK, SyncedIsAged, [Next]_vars
  PROVE  SyncedIsAged'
<1> SUFFICES ASSUME NEW c \in Child
             PROVE  /\ child'[c].aged => child'[c].phase = "deleting"
                    /\ c \in realm'.synced
                         => child'[c].aged \/ child'[c].phase = "gone"
  BY DEF SyncedIsAged
<1>1. c \in realm'.synced => child[c].aged \/ child[c].phase = "gone"
  BY SyncedGrows DEF SyncedIsAged
<1> QED
  BY <1>1, ChildMoves

LEMMA PurgeInvStep ==
  ASSUME "realm" \notin Lagging, TypeOK, UnbornHasNoGen, JobInv, PurgeInv, [Next]_vars
  PROVE  PurgeInv'
<1>1. SyncedIsAged' /\ IdleIsBlank'
  BY SyncedIsAgedStep, IdleIsBlankStep DEF PurgeInv
<1>2. ASSUME NEW c \in Child, Promised(c)'
      PROVE  Purging(c)' /\ OwnPurge(c)'
  <2>1. budget'.drifts = 0 /\ budget.drifts = 0
    BY <1>2, OnwardStep DEF Promised, Onward
  <2>2. CASE Promised(c)
    <3>1. Purging(c) /\ OwnPurge(c) /\ SyncedIsAged
      BY <2>2 DEF PurgeInv
    <3>2. PurgeStays(c)
      BY <2>1, <3>1, PurgeStaysStep DEF Purging
    <3> QED
      BY <1>2, <2>2, <3>1, <3>2, PurgingStep, OwnPurgeStep
  <2>3. CASE ~Promised(c)
    <3>1. /\ DeleteChild(c) /\ child[c].phase = "live" /\ AtRest
          /\ child'[c].phase = "deleting"
      BY <1>2, <2>1, <2>3, ChildMoves DEF Promised, PurgeInv
    <3>2. ctl' = Idle
      BY <3>1 DEF DeleteChild, AtRest, PurgeInv, IdleIsBlank
    <3> QED
      BY <3>1, <3>2, PurgingFromRest, BlankPurge DEF PurgeInv
  <2> QED
    BY <2>2, <2>3
<1> QED
  BY <1>1, <1>2 DEF PurgeInv

LEMMA PurgeInvHolds ==
  ASSUME "realm" \notin Lagging
  PROVE  Spec => []PurgeInv
<1>1. Init => PurgeInv
  BY DEF Init, PurgeInv, SyncedIsAged, IdleIsBlank, Promised, NewRealm, NewChild
<1>2. TypeOK /\ ImportInv /\ JobInv /\ PurgeInv /\ [Next]_vars => PurgeInv'
  BY PurgeInvStep DEF ImportInv
<1> QED
  BY <1>1, <1>2, TypeCorrect, ImportInvHolds, JobInvHolds, PTL DEF Spec

\* Only a status that is Ready and later than its deletion releases a child.
LEMMA CalmRelease ==
  ASSUME "realm" \notin Lagging, TypeOK, [Next]_vars, NEW c \in Child,
         child[c].phase = "deleting", child'[c].phase = "gone", Present(realm),
         ReadyMeansPurged(c)
  PROVE  c \notin keycloak.kids
<1>1. CASE ReleaseChild(c)
  <2>1. realm.ready /\ c \in realm.synced
    BY <1>1 DEF ReleaseChild, IsSafelyDeleted, ReadRealm
  <2> QED
    BY <2>1 DEF ReadyMeansPurged
<1>2. ASSUME NEW d \in Child, \/ AdoptChild(d) \/ SyncChild(d) \/ CreateChild(d)
                              \/ AgeDeletion(d) \/ DeleteChild(d)
      PROVE  FALSE
  BY <1>2 DEF AdoptChild, SyncChild, CreateChild, AgeDeletion, DeleteChild,
              TypeOK, ChildCR
<1>3. ASSUME NEW d \in Child \ {c}, ReleaseChild(d) PROVE FALSE
  BY <1>3 DEF ReleaseChild, TypeOK
<1>4. CASE UNCHANGED child
  BY <1>4
<1>5. CASE BuildRealmExport
  BY <1>5, ExportCalms
<1> QED
  BY <1>1, <1>2, <1>3, <1>4, <1>5
     DEF Next, RealmController, ReleaseRealm, AdoptRealm, BeginSync,
     SkipSync, DetectDrift, StampSecret, SpawnJob, SpawnFails, RecordJob,
     CleanupTerminalJobs, Cleanup, RemoveTrigger, ObserveJob, ReportOutcome,
     ReportFailure, ChildController, AwaitPurge, ConfigCLI, StartPod, CompleteJob,
     FailPod, Crash, SyncCache, Collector, CollectSecret, CollectJob, User,
     CreateRealm, EditRealm, DeleteRealm, Drift, Clock, ExpireSecret, objects, vars

\* Whoever crashes, fails or interleaves: a child whose deletion was requested
\* while no sync was under way keeps its finalizer until Keycloak is without it,
\* if nobody edits Keycloak by hand and no export is built from a list that still
\* shows it.
THEOREM CalmDeletionsPurge ==
  ASSUME "realm" \notin Lagging
  PROVE  Spec => CalmDeletionPurges
<1>1. TypeOK /\ PurgeInv /\ [Next]_vars
        => [\A c \in Child :
              (/\ child[c].phase = "deleting" /\ child[c].calm
               /\ child'[c].phase = "gone"
               /\ Present(realm) /\ budget.drifts = 0)
              => c \notin keycloak.kids]_vars
  BY CalmRelease DEF PurgeInv, Promised, Purging
<1> QED
  BY <1>1, TypeCorrect, PurgeInvHolds, PTL DEF Spec, CalmDeletionPurges
=============================================================================
