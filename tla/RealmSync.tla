----------------------------- MODULE RealmSync -----------------------------
(***************************************************************************)
(* How one Realm CR and its child CRs (Clients, Users, Groups, ...) reach  *)
(* Keycloak.                                                               *)
(*                                                                         *)
(* The Realm controller runs one Reconcile at a time for the Realm.  It    *)
(* builds an export of the Realm and of the children that are not being    *)
(* deleted, stamps it on the config Secret kc-config-<realm>, spawns a     *)
(* keycloak-config-cli Job that mounts that Secret, and later reports the  *)
(* outcome of the Job in the Realm's status.  A child controller keeps the *)
(* finalizer of a child that is being deleted until the Realm's status     *)
(* shows a successful sync later than the deletion.                        *)
(*                                                                         *)
(* Every read of the operator goes through the informer cache of the       *)
(* controller-runtime client.  The kinds in Lagging have caches that may   *)
(* be behind the API server; the others are read as they are.  A write     *)
(* carries the resourceVersion of the cached object, so it succeeds only   *)
(* when the cache has caught up.                                           *)
(*                                                                         *)
(* Time is abstracted to the comparisons the code makes: a Secret is fresh *)
(* while its last-sync annotation is less than five minutes old, and a     *)
(* deletion is aged once the clock, read in whole seconds, shows more than *)
(* its deletionTimestamp.  Whether a finished Job is ten minutes old when  *)
(* the cleanup meets it is left open.                                      *)
(***************************************************************************)
EXTENDS Integers

CONSTANTS
  Child,         \* child CRs whose realmRef names the Realm
  Confidential,  \* the Clients among them that need a generated Secret
  Job,           \* names for config-cli Jobs; a name is free again once unused
  NoJob,         \* the empty ActiveJobName
  Lagging,       \* kinds whose informer cache may be behind the API server
  ListOrder,     \* orders in which the cache may list the same children
  BackoffLimit,  \* backoffLimit of a Job: pods retried before it fails
  MaxGen,        \* bound: generations of the Realm's spec
  MaxDrifts,     \* bound: edits made in Keycloak behind the operator's back
  MaxCrashes,    \* bound: crashes of the leading operator replica
  MaxFailures    \* bound: failures of config-cli pods and of Job creations

Kinds == {"realm", "secret", "jobs", "children"}

ASSUME ConfidentialAssumption == Confidential \subseteq Child
ASSUME JobAssumption == NoJob \notin Job
ASSUME LaggingAssumption == Lagging \subseteq Kinds
ASSUME ListOrderAssumption == ListOrder # {}
ASSUME BoundsAssumption ==
         /\ BackoffLimit \in Nat
         /\ MaxGen \in Nat \ {0}
         /\ MaxDrifts \in Nat
         /\ MaxCrashes \in Nat
         /\ MaxFailures \in Nat

VARIABLES
  realm,       \* the Realm CR in the API server
  child,       \* the child CRs
  secret,      \* the config Secret
  jobs,        \* Job objects: their condition in the API server
  pods,        \* the pod of each Job: phase, payload it mounted, pods retried
  keycloak,    \* what Keycloak holds
  owed,        \* auxiliary: the Secret was stamped and no Job created since
  ctl,         \* the Realm controller: step and local variables of Reconcile
  seenRealm,   \* informer cache: the Realm
  seenSecret,  \* informer cache: the config Secret
  seenJobs,    \* informer cache: the Jobs
  seenPhase,   \* informer cache: the phase of every child
  budget       \* drifts, crashes and failures so far

objects == <<realm, child, secret, jobs>>
cache == <<seenRealm, seenSecret, seenJobs, seenPhase>>
outside == <<keycloak, budget>>
vars == <<objects, pods, outside, owed, ctl, cache>>

(***************************************************************************)
(* Types                                                                   *)
(***************************************************************************)
Phase == {"new", "live", "deleting", "gone"}

\* What an import of a payload leaves in Keycloak.
Content == [gen : 0..MaxGen, kids : SUBSET Child]
ContentOf(p) == [gen |-> p.gen, kids |-> p.kids]

\* The serialized export: the children are in the order in which the builder
\* was given them.
Payload == [gen : 0..MaxGen, kids : SUBSET Child, order : ListOrder]
GivenOrder == CHOOSE order \in ListOrder : TRUE
NoPayload == [gen |-> 0, kids |-> {}, order |-> GivenOrder]

\* synced: the children whose deletion is earlier than status.lastSyncTime
RealmCR == [phase : Phase, fin : BOOLEAN, trig : BOOLEAN, gen : 0..MaxGen,
            ready : BOOLEAN, active : Job \cup {NoJob}, obsGen : 0..MaxGen,
            synced : SUBSET Child]
NewRealm == [phase |-> "new", fin |-> FALSE, trig |-> FALSE, gen |-> 0,
             ready |-> FALSE, active |-> NoJob, obsGen |-> 0, synced |-> {}]

\* cred: the Secret of a confidential Client exists.  calm is auxiliary: the
\* deletion was requested while no sync was under way, it is not given up, and no
\* export since was built from a list that did not show it yet.
ChildCR == [phase : Phase, fin : BOOLEAN, aged : BOOLEAN, cred : BOOLEAN,
            calm : BOOLEAN]
NewChild == [phase |-> "new", fin |-> FALSE, aged |-> FALSE, cred |-> FALSE,
             calm |-> FALSE]
GoneChild == [NewChild EXCEPT !.phase = "gone"]

ConfigSecret == [exists : BOOLEAN, payload : Payload, fresh : BOOLEAN]
NoSecret == [exists |-> FALSE, payload |-> NoPayload, fresh |-> FALSE]

Terminal == {"complete", "failed"}
JobStatus == {"none", "active"} \cup Terminal

PodState == [phase : {"none", "waiting", "running"},
             payload : Payload, tries : 0..BackoffLimit]
NoPod == [phase |-> "none", payload |-> NoPayload, tries |-> 0]

Verdict == {"none", "ready", "failed", "running", "untracked", "vanished"}
Steps == {"idle", "build", "sync", "stamp", "spawn", "record", "clean",
          "unmark", "observe", "report", "fail"}

\* obj: what Reconcile still uses of the Realm it read at its start
Snapshot == [gen : 0..MaxGen, trig : BOOLEAN, ready : BOOLEAN,
             active : Job \cup {NoJob}]
SnapshotOf(r) == [gen |-> r.gen, trig |-> r.trig, ready |-> r.ready,
                  active |-> r.active]

Control == [pc : Steps, obj : Snapshot, export : Payload,
            job : Job \cup {NoJob}, verdict : Verdict]
Idle == [pc |-> "idle", obj |-> SnapshotOf(NewRealm), export |-> NoPayload,
         job |-> NoJob, verdict |-> "none"]

TypeOK ==
  /\ realm \in RealmCR
  /\ child \in [Child -> ChildCR]
  /\ secret \in ConfigSecret
  /\ jobs \in [Job -> JobStatus]
  /\ pods \in [Job -> PodState]
  /\ keycloak \in Content
  /\ owed \in BOOLEAN
  /\ ctl \in Control
  /\ seenRealm \in RealmCR
  /\ seenSecret \in ConfigSecret
  /\ seenJobs \in [Job -> JobStatus]
  /\ seenPhase \in [Child -> Phase]
  /\ budget \in [drifts : 0..MaxDrifts, crashes : 0..MaxCrashes,
                 failures : 0..MaxFailures]

(***************************************************************************)
(* What the operator reads: the cache of a lagging kind, else the object   *)
(***************************************************************************)
Phases == [c \in Child |-> child[c].phase]

Present(r) == r.phase \in {"live", "deleting"}

ReadRealm == IF "realm" \in Lagging THEN seenRealm ELSE realm
ReadSecret == IF "secret" \in Lagging THEN seenSecret ELSE secret
ReadJobs == IF "jobs" \in Lagging THEN seenJobs ELSE jobs
ReadPhase == IF "children" \in Lagging THEN seenPhase ELSE Phases

\* An Update (or Status().Update) of the Realm read from the cache goes
\* through: the Realm is there and the cached resourceVersion is the latest.
Writable == Present(realm) /\ ReadRealm = realm

Init ==
  /\ realm = NewRealm
  /\ child = [c \in Child |-> NewChild]
  /\ secret = NoSecret
  /\ jobs = [j \in Job |-> "none"]
  /\ pods = [j \in Job |-> NoPod]
  /\ keycloak = ContentOf(NoPayload)
  /\ owed = FALSE
  /\ ctl = Idle
  /\ seenRealm = NewRealm
  /\ seenSecret = NoSecret
  /\ seenJobs = [j \in Job |-> "none"]
  /\ seenPhase = [c \in Child |-> "new"]
  /\ budget = [drifts |-> 0, crashes |-> 0, failures |-> 0]

(***************************************************************************)
(* The Realm controller: Reconcile, one step per read or write of an       *)
(* object others also write                                                *)
(***************************************************************************)
Goto(step) == ctl' = [ctl EXCEPT !.pc = step]

\* As Goto; the export is not used after the Secret has been dealt with.
GotoDone(step) == ctl' = [ctl EXCEPT !.pc = step, !.export = NoPayload]

\* The deletion branch: the finalizer goes, and with it the object; the realm
\* stays in Keycloak.
ReleaseRealm ==
  /\ ctl.pc = "idle"
  /\ ReadRealm.phase = "deleting" /\ ReadRealm.fin
  /\ Writable
  /\ realm' = [NewRealm EXCEPT !.phase = "gone", !.gen = realm.gen]
  /\ UNCHANGED <<child, secret, jobs, pods, outside, owed, ctl, cache>>

AdoptRealm ==
  /\ ctl.pc = "idle"
  /\ ReadRealm.phase = "live" /\ ~ReadRealm.fin
  /\ Writable
  /\ realm' = [realm EXCEPT !.fin = TRUE]
  /\ UNCHANGED <<child, secret, jobs, pods, outside, owed, ctl, cache>>

\* obj is the copy every later step of this Reconcile works on.
BeginSync ==
  /\ ctl.pc = "idle"
  /\ ReadRealm.phase = "live" /\ ReadRealm.fin
  /\ ctl' = [ctl EXCEPT !.pc = "build", !.obj = SnapshotOf(ReadRealm)]
  /\ UNCHANGED <<objects, pods, outside, owed, cache>>

\* Mutant: a child that is being deleted is exported.
ExportedWithDeleted == {c \in Child : ReadPhase[c] \in {"live", "deleting"}}

\* A child that is being deleted is left out.
Exported == {c \in Child : ReadPhase[c] = "live"}

\* The informer's index is a Go map: a List that is repeated may return the same
\* children in another order, and the builder keeps the order it is given.
ListedOrders == IF \A c, d \in Exported : c = d THEN {GivenOrder} ELSE ListOrder

\* A confidential Client whose Secret does not exist fails the whole export.
BuildRealmExport ==
  /\ ctl.pc = "build"
  /\ IF \E c \in Exported \cap Confidential : ~child[c].cred
       THEN Goto("fail") /\ UNCHANGED child
       ELSE /\ \E order \in ListedOrders :
                 ctl' = [ctl EXCEPT !.pc = "sync",
                   !.export = [gen |-> ctl.obj.gen, kids |-> Exported, order |-> order]]
            /\ child' = [c \in Child |->
                           [child[c] EXCEPT !.calm = @ /\ ReadPhase[c] # "live"]]
  /\ UNCHANGED <<realm, secret, jobs, pods, outside, owed, cache>>

\* Mutant: an unchanged payload is never synced again.
UpToDateForEver == ReadSecret.exists /\ ReadSecret.payload = ctl.export

\* The payload is the one of the last stamp, less than five minutes ago.
UpToDate ==
  /\ ReadSecret.exists
  /\ ReadSecret.payload = ctl.export
  /\ ReadSecret.fresh

SkipSync ==
  /\ ctl.pc = "sync"
  /\ UpToDate
  /\ GotoDone("clean")
  /\ UNCHANGED <<objects, pods, outside, owed, cache>>

\* Mutant: the Job is created and the stamp forgotten.
DetectDriftUnstamped ==
  /\ ctl.pc = "sync"
  /\ ~UpToDate
  /\ GotoDone("spawn")
  /\ UNCHANGED <<objects, pods, outside, owed, cache>>

DetectDrift ==
  /\ ctl.pc = "sync"
  /\ ~UpToDate
  /\ Goto("stamp")
  /\ UNCHANGED <<objects, pods, outside, owed, cache>>

\* CreateOrUpdate reads the Secret again and stamps it, whatever it now holds; with
\* a stale copy it fails with a conflict (or AlreadyExists), and with it the sync.
StampSecret ==
  /\ ctl.pc = "stamp"
  /\ IF ReadSecret = secret
       THEN /\ secret' = [exists |-> TRUE, payload |-> ctl.export, fresh |-> TRUE]
            /\ owed' = TRUE
            /\ GotoDone("spawn")
       ELSE /\ UNCHANGED <<secret, owed>>
            /\ GotoDone("fail")
  /\ UNCHANGED <<realm, child, jobs, pods, outside, cache>>

\* GenerateName: a name that is in use nowhere.  To keep Job finite, a finished
\* Job that no status names may be forgotten to make room for a new one.
FreshName(j) ==
  /\ jobs[j] # "active"
  /\ j \notin {realm.active, ReadRealm.active}

SpawnJob ==
  /\ ctl.pc = "spawn"
  /\ \E j \in Job :
       /\ FreshName(j)
       /\ jobs' = [jobs EXCEPT ![j] = "active"]
       /\ pods' = [pods EXCEPT ![j] = [NoPod EXCEPT !.phase = "waiting"]]
       /\ seenJobs' = [seenJobs EXCEPT ![j] = "none"]
       /\ ctl' = [ctl EXCEPT !.pc = "record", !.job = j]
  /\ owed' = FALSE
  /\ UNCHANGED <<realm, child, secret, outside, seenRealm, seenSecret, seenPhase>>

Failure == /\ budget.failures < MaxFailures
           /\ budget' = [budget EXCEPT !.failures = @ + 1]

\* No image is configured, or the Create is refused (API error, quota).
SpawnFails ==
  /\ ctl.pc = "spawn"
  /\ \/ Failure
     \/ UNCHANGED budget /\ \A j \in Job : ~FreshName(j)
  /\ Goto("fail")
  /\ UNCHANGED <<objects, pods, keycloak, owed, cache>>

\* Mutant: LastSyncTime is not set again.
WithStatusUndated(ready, active) ==
  [realm EXCEPT !.ready = ready, !.active = active, !.obsGen = realm.gen]

\* Every status write sets ObservedGeneration from the latest object and
\* LastSyncTime to now.
WithStatus(ready, active) ==
  [realm EXCEPT !.ready = ready, !.active = active, !.obsGen = realm.gen,
                !.synced = {c \in Child : child[c].aged}]

\* Mutant: ActiveJobName is not recorded.
RecordJobUnnamed ==
  /\ ctl.pc = "record"
  /\ IF Writable
       THEN realm' = WithStatus(FALSE, realm.active) /\ Goto("clean")
       ELSE UNCHANGED realm /\ Goto("fail")
  /\ UNCHANGED <<child, secret, jobs, pods, outside, owed, cache>>

RecordJob ==
  /\ ctl.pc = "record"
  /\ IF Writable
       THEN realm' = WithStatus(FALSE, ctl.job) /\ Goto("clean")
       ELSE UNCHANGED realm /\ Goto("fail")
  /\ UNCHANGED <<child, secret, jobs, pods, outside, owed, cache>>

\* The Job this Reconcile follows: the one it spawned, else the one the status
\* named when the Realm was read.
Tracked == IF ctl.job # NoJob THEN ctl.job ELSE ctl.obj.active

\* Mutants: the tracked Job, or a running one, is cleaned up as well.
CleanupWithTracked == {j \in Job : ReadJobs[j] \in Terminal}
CleanupWithRunning == {j \in Job \ {Tracked} : ReadJobs[j] # "none"}

CleanupCandidates ==
  {j \in Job \ {Tracked} : ReadJobs[j] \in Terminal}

\* doomed: those of them that are ten minutes old; a failing List or Delete
\* ends the loop early and is only logged.
Cleanup(doomed) ==
  /\ ctl.pc = "clean"
  /\ jobs' = [j \in Job |-> IF j \in doomed THEN "none" ELSE jobs[j]]
  /\ pods' = [j \in Job |-> IF j \in doomed THEN NoPod ELSE pods[j]]
  /\ Goto("unmark")
  /\ UNCHANGED <<realm, child, secret, outside, owed, cache>>

CleanupTerminalJobs == \E doomed \in SUBSET CleanupCandidates : Cleanup(doomed)

\* With the annotation present this Reconcile ends before it looks at the Job.
RemoveTrigger ==
  /\ ctl.pc = "unmark"
  /\ \/ /\ ~ctl.obj.trig
        /\ Goto("observe")
        /\ UNCHANGED realm
     \/ /\ ctl.obj.trig /\ Writable
        /\ realm' = [realm EXCEPT !.trig = FALSE]
        /\ ctl' = Idle
     \/ /\ ctl.obj.trig /\ ~Writable
        /\ Goto("fail")
        /\ UNCHANGED realm
  /\ UNCHANGED <<child, secret, jobs, pods, outside, owed, cache>>

\* Mutant: a Job that runs counts as one that has completed.
OutcomeUnlessFailed ==
  CASE Tracked = NoJob -> "untracked"
    [] Tracked # NoJob /\ ReadJobs[Tracked] = "none" -> "vanished"
    [] Tracked # NoJob /\ ReadJobs[Tracked] = "failed" -> "failed"
    [] OTHER -> "ready"

\* Reads the Job and decides what to report; a missing Job, or no Job at all,
\* is not reported when the Realm was Ready.
Outcome ==
  CASE Tracked = NoJob -> "untracked"
    [] Tracked # NoJob /\ ReadJobs[Tracked] = "none" -> "vanished"
    [] Tracked # NoJob /\ ReadJobs[Tracked] = "complete" -> "ready"
    [] Tracked # NoJob /\ ReadJobs[Tracked] = "failed" -> "failed"
    [] OTHER -> "running"

ObserveJob ==
  /\ ctl.pc = "observe"
  /\ IF Outcome \in {"untracked", "vanished"} /\ ctl.obj.ready
       THEN ctl' = Idle
       ELSE ctl' = [ctl EXCEPT !.pc = "report", !.verdict = Outcome]
  /\ UNCHANGED <<objects, pods, outside, owed, cache>>

ReportedActive ==
  CASE ctl.verdict = "ready" -> NoJob
    [] ctl.verdict = "failed" -> Tracked
    [] OTHER -> realm.active

ReportOutcome ==
  /\ ctl.pc = "report"
  /\ IF Writable
       THEN realm' = WithStatus(ctl.verdict = "ready", ReportedActive) /\ ctl' = Idle
       ELSE UNCHANGED realm /\ Goto("fail")
  /\ UNCHANGED <<child, secret, jobs, pods, outside, owed, cache>>

\* Reconcile's error branch; a status write that fails is only logged.
ReportFailure ==
  /\ ctl.pc = "fail"
  /\ realm' = IF Writable THEN WithStatus(FALSE, realm.active) ELSE realm
  /\ ctl' = Idle
  /\ UNCHANGED <<child, secret, jobs, pods, outside, owed, cache>>

(***************************************************************************)
(* The child controllers                                                   *)
(***************************************************************************)
AdoptChild(c) ==
  /\ child[c].phase = "live" /\ ~child[c].fin
  /\ child' = [child EXCEPT ![c].fin = TRUE]
  /\ UNCHANGED <<realm, secret, jobs, pods, outside, owed, ctl, cache>>

\* TriggerRealmSync: on a missing Realm or a stale cache it returns an error.
TriggerRealmSync ==
  realm' = IF Writable THEN [realm EXCEPT !.trig = TRUE] ELSE realm

\* The Secret of a confidential Client is created if there is none.  The status
\* of the child, which no other handler reads, is left out.
SyncChild(c) ==
  /\ child[c].phase = "live" /\ child[c].fin
  /\ child' = [child EXCEPT ![c].cred = @ \/ c \in Confidential]
  /\ TriggerRealmSync
  /\ UNCHANGED <<secret, jobs, pods, outside, owed, ctl, cache>>

\* Mutant: a status that is later than the deletion suffices.
IsDeletedByDate(c) == ~Present(ReadRealm) \/ c \in ReadRealm.synced

IsSafelyDeleted(c) ==
  \/ ~Present(ReadRealm)
  \/ ReadRealm.ready /\ c \in ReadRealm.synced

\* The finalizer goes, and with it the child and the Secret it owns.
ReleaseChild(c) ==
  /\ child[c].phase = "deleting"
  /\ IsSafelyDeleted(c)
  /\ child' = [child EXCEPT ![c] =
                 [GoneChild EXCEPT !.calm = child[c].calm /\ Present(realm)]]
  /\ UNCHANGED <<realm, secret, jobs, pods, outside, owed, ctl, cache>>

AwaitPurge(c) ==
  /\ child[c].phase = "deleting"
  /\ ~IsSafelyDeleted(c)
  /\ TriggerRealmSync
  /\ UNCHANGED <<child, secret, jobs, pods, outside, owed, ctl, cache>>

(***************************************************************************)
(* Leader election and the informers                                       *)
(***************************************************************************)
\* The leading replica dies or loses its lease; the next one starts over.
Crash ==
  /\ ctl.pc # "idle" /\ budget.crashes < MaxCrashes
  /\ budget' = [budget EXCEPT !.crashes = @ + 1]
  /\ ctl' = Idle
  /\ UNCHANGED <<objects, pods, keycloak, owed, cache>>

CatchUp ==
  \/ /\ "realm" \in Lagging /\ seenRealm' = realm
     /\ UNCHANGED <<seenSecret, seenJobs, seenPhase>>
  \/ /\ "secret" \in Lagging /\ seenSecret' = secret
     /\ UNCHANGED <<seenRealm, seenJobs, seenPhase>>
  \/ /\ "jobs" \in Lagging /\ seenJobs' = jobs
     /\ UNCHANGED <<seenRealm, seenSecret, seenPhase>>
  \/ /\ "children" \in Lagging /\ seenPhase' = Phases
     /\ UNCHANGED <<seenRealm, seenSecret, seenJobs>>

SyncCache == CatchUp /\ UNCHANGED <<objects, pods, outside, owed, ctl>>

(***************************************************************************)
(* Outside the operator: config-cli pods, Job controller, garbage          *)
(* collector, users, clock                                                 *)
(***************************************************************************)
StartPod(j) ==
  /\ pods[j].phase = "waiting" /\ secret.exists
  /\ pods' = [pods EXCEPT ![j].phase = "running", ![j].payload = secret.payload]
  /\ UNCHANGED <<objects, outside, owed, ctl, cache>>

\* config-cli imports what it read at its start; its exit code makes the Job
\* controller set the Complete condition.
CompleteJob(j) ==
  /\ pods[j].phase = "running"
  /\ keycloak' = ContentOf(pods[j].payload)
  /\ jobs' = [jobs EXCEPT ![j] = "complete"]
  /\ pods' = [pods EXCEPT ![j] = NoPod]
  /\ UNCHANGED <<realm, child, secret, budget, owed, ctl, cache>>

\* Mutant: one pod too many.
RetriesLeftPlusOne(j) == pods[j].tries <= BackoffLimit

RetriesLeft(j) == pods[j].tries < BackoffLimit

\* Before or after the import; the Job fails once its pods are used up.
FailPod(j) ==
  /\ pods[j].phase = "running"
  /\ Failure
  /\ keycloak' \in {keycloak, ContentOf(pods[j].payload)}
  /\ IF RetriesLeft(j)
       THEN /\ pods' = [pods EXCEPT ![j] = [NoPod EXCEPT !.phase = "waiting",
                                              !.tries = pods[j].tries + 1]]
            /\ UNCHANGED jobs
       ELSE /\ pods' = [pods EXCEPT ![j] = NoPod]
            /\ jobs' = [jobs EXCEPT ![j] = "failed"]
  /\ UNCHANGED <<realm, child, secret, owed, ctl, cache>>

\* Once the Realm is gone, so are the objects it owns.
CollectSecret ==
  /\ realm.phase = "gone" /\ secret.exists
  /\ secret' = NoSecret
  /\ UNCHANGED <<realm, child, jobs, pods, outside, owed, ctl, cache>>

CollectJob(j) ==
  /\ realm.phase = "gone" /\ jobs[j] # "none"
  /\ jobs' = [jobs EXCEPT ![j] = "none"]
  /\ pods' = [pods EXCEPT ![j] = NoPod]
  /\ UNCHANGED <<realm, child, secret, outside, owed, ctl, cache>>

CreateRealm ==
  /\ realm.phase = "new"
  /\ realm' = [realm EXCEPT !.phase = "live", !.gen = 1]
  /\ UNCHANGED <<child, secret, jobs, pods, outside, owed, ctl, cache>>

EditRealm ==
  /\ realm.phase = "live" /\ realm.gen < MaxGen
  /\ realm' = [realm EXCEPT !.gen = @ + 1]
  /\ UNCHANGED <<child, secret, jobs, pods, outside, owed, ctl, cache>>

DeleteRealm ==
  /\ realm.phase = "live"
  /\ realm' = IF realm.fin THEN [realm EXCEPT !.phase = "deleting"]
              ELSE [NewRealm EXCEPT !.phase = "gone", !.gen = realm.gen]
  /\ UNCHANGED <<child, secret, jobs, pods, outside, owed, ctl, cache>>

CreateChild(c) ==
  /\ child[c].phase = "new"
  /\ child' = [child EXCEPT ![c].phase = "live"]
  /\ UNCHANGED <<realm, secret, jobs, pods, outside, owed, ctl, cache>>

\* No sync is under way: no Reconcile, no Job running, none left to report.
AtRest ==
  /\ ctl.pc = "idle"
  /\ realm.active = NoJob
  /\ \A j \in Job : jobs[j] # "active"

DeleteChild(c) ==
  /\ child[c].phase = "live"
  /\ child' = [child EXCEPT ![c] =
                 IF child[c].fin
                   THEN [child[c] EXCEPT !.phase = "deleting", !.calm = AtRest]
                   ELSE GoneChild]
  /\ UNCHANGED <<realm, secret, jobs, pods, outside, owed, ctl, cache>>

\* Someone edits the realm in the admin console, to settings (0) that no
\* generation of the Realm asked for and to any set of children.
Drift ==
  /\ budget.drifts < MaxDrifts
  /\ keycloak' \in [gen : {0}, kids : SUBSET Child]
  /\ budget' = [budget EXCEPT !.drifts = @ + 1]
  /\ UNCHANGED <<objects, pods, owed, ctl, cache>>

\* A clock second passes since the deletion of c.
AgeDeletion(c) ==
  /\ child[c].phase = "deleting" /\ ~child[c].aged
  /\ child' = [child EXCEPT ![c].aged = TRUE]
  /\ UNCHANGED <<realm, secret, jobs, pods, outside, owed, ctl, cache>>

\* Five minutes pass since last-sync; a cached older version expires no later.
ExpireSecret ==
  /\ secret.fresh \/ seenSecret.fresh
  /\ seenSecret' = [seenSecret EXCEPT !.fresh = FALSE]
  /\ \/ secret' = [secret EXCEPT !.fresh = FALSE]
     \/ UNCHANGED secret /\ seenSecret.fresh /\ seenSecret # secret
  /\ UNCHANGED <<realm, child, jobs, pods, outside, owed, ctl,
                 seenRealm, seenJobs, seenPhase>>

(***************************************************************************)
(* Specification                                                           *)
(***************************************************************************)
RealmController ==
  \/ ReleaseRealm \/ AdoptRealm \/ BeginSync \/ BuildRealmExport
  \/ SkipSync \/ DetectDrift \/ StampSecret \/ SpawnJob \/ SpawnFails
  \/ RecordJob \/ CleanupTerminalJobs \/ RemoveTrigger \/ ObserveJob \/ ReportOutcome
  \/ ReportFailure

ChildController(c) ==
  AdoptChild(c) \/ SyncChild(c) \/ ReleaseChild(c) \/ AwaitPurge(c)

ConfigCLI(j) == StartPod(j) \/ CompleteJob(j) \/ FailPod(j)

User ==
  \/ CreateRealm \/ EditRealm \/ DeleteRealm \/ Drift
  \/ \E c \in Child : CreateChild(c) \/ DeleteChild(c)

Clock ==
  \/ ExpireSecret
  \/ \E c \in Child : AgeDeletion(c)

Collector == CollectSecret \/ \E j \in Job : CollectJob(j)

Next ==
  \/ RealmController
  \/ \E c \in Child : ChildController(c)
  \/ \E j \in Job : ConfigCLI(j)
  \/ Crash \/ SyncCache \/ Collector \/ User \/ Clock

Spec == Init /\ [][Next]_vars

\* Delays the code relies on: five minutes outlast a Job and the report of its
\* success.  A Job that runs longer is overtaken by a drift-healing Job and its
\* outcome is never looked at.
Settled == realm.active = NoJob \/ jobs[realm.active] \in {"none", "failed"}

Timely == secret.fresh /\ ~secret'.fresh => Settled

\* Every reconcile ends in a requeue (CheckInterval, requeueDelay or the
\* observe interval) and a new leader lists every object, so each controller
\* keeps being run; Kubernetes keeps running pods; time passes.  Strong fairness
\* compares delays: a child annotates the Realm every few seconds at most and a
\* Reconcile takes far less, so that some Reconcile starts with no annotation
\* present; and a child is polled every five seconds, so that one of the polls
\* meets a status that stays for five minutes.  Caches catch up.
Fairness ==
  /\ WF_vars(RealmController)
  /\ SF_vars(BeginSync /\ ~realm.trig)
  /\ \A c \in Child :
       /\ WF_vars(AdoptChild(c))
       /\ WF_vars(SyncChild(c))
       /\ SF_vars(ReleaseChild(c))
       /\ WF_vars(AwaitPurge(c))
       /\ WF_vars(AgeDeletion(c))
  /\ \A j \in Job : WF_vars(ConfigCLI(j))
  /\ WF_vars(ExpireSecret /\ Settled)
  /\ WF_vars(SyncCache)

FairSpec == Init /\ [][Next /\ Timely]_vars /\ Fairness

(***************************************************************************)
(* Safety                                                                  *)
(***************************************************************************)
\* The Job named in the status of a Realm exists: neither the cleanup of old
\* Jobs, which works on the status read when the Reconcile began, nor a crash
\* between the Create of a Job and the status write loses the Job that the
\* next Reconcile will look up (cleanupTerminalJobs, observeJob).
TrackedJobExists ==
  Present(realm) /\ realm.active # NoJob => jobs[realm.active] # "none"

\* The pod of a Job finds the Secret it mounts: whatever fails between the two, a
\* Job is created only after the first stamp, and while the Realm is there the
\* Secret stays (SyncRealm).
PodsFindSecret ==
  \A j \in Job : jobs[j] = "active" /\ realm.phase # "gone"
    => pods[j].phase # "none" /\ secret.exists

\* A Realm is Ready only if Keycloak holds an import: settings of a generation
\* that the Realm has had, and children that were created, although the Job that
\* completed may be forgotten, overtaken or read late.  Which generation it is,
\* Ready does not say (Reconcile, UpdateStatusWithRetry).
ReadyMeansImported ==
  realm.ready /\ budget.drifts = 0
    => /\ keycloak.gen \in 1..realm.gen
       /\ \A c \in keycloak.kids : child[c].phase # "new"

\* A Realm turns Ready only while the Job its status tracks at that very moment
\* has completed, although the Job was looked up some steps earlier and other
\* Jobs may have come and gone meanwhile (observeJob).
ReadyBackedByTrackedJob ==
  [][~realm.ready /\ realm'.ready
       => realm.active # NoJob /\ jobs[realm.active] = "complete"]_vars

\* A config-cli Job that is still running is deleted only with its Realm: a
\* Job the cache shows as terminal is never one whose name now runs again
\* (cleanupTerminalJobs).
RunningJobSpared ==
  [][\A j \in Job : jobs[j] = "active" /\ jobs'[j] = "none"
       => realm.phase = "gone"]_vars

\* A child whose deletion was requested while no sync was under way is purged
\* from Keycloak before its finalizer goes, unless Keycloak is edited by hand or
\* the lists of an export are so stale that they still show it: every Job that
\* can then turn the Realm Ready imports an export without it, even after failed
\* Creates, failed pods, crashes and other edits (IsSafelyDeletedFromRealm,
\* BuildRealmExport, SyncRealm, observeJob).
CalmDeletionPurges ==
  [][\A c \in Child :
       (/\ child[c].phase = "deleting" /\ child[c].calm
        /\ child'[c].phase = "gone"
        /\ Present(realm) /\ budget.drifts = 0)
       => c \notin keycloak.kids]_vars

(***************************************************************************)
(* Liveness                                                                *)
(***************************************************************************)
\* Once users stop editing, Keycloak comes to hold exactly what the Realm and
\* its live children say, and keeps holding it: a Job with an older payload
\* that finishes late, a lost Job and an edit in the admin console are all
\* healed (USAGE.md, drift healing; SyncRealm's five-minute window).
KeycloakConverges ==
  <>[](realm.phase = "live" =>
         keycloak = [gen |-> realm.gen,
                     kids |-> {c \in Child : child[c].phase = "live"}])

\* A child that is being deleted is eventually released, however its polling
\* interleaves with the syncs it triggers and with skipped, failed or lost Jobs.
DeletionCompletes ==
  \A c \in Child : child[c].phase = "deleting" ~> child[c].phase = "gone"

\* After a failure a Realm becomes Ready again without anyone touching it
\* (REQUIREMENTS.md: the condition transitions back to Ready=True).
ReadyAgain == realm.phase = "live" ~> realm.ready \/ realm.phase # "live"

\* A Secret stamped by a sync whose Job was then not created is stamped again
\* and gets its Job, although until then every sync skips.
OwedJobIsSpawned == owed ~> ~owed \/ realm.phase # "live"

(***************************************************************************)
(* What documents, comments and messages of the repository say             *)
(***************************************************************************)
\* A finalizer is removed only once the Job has purged the child from Keycloak
\* (docs/ARCHITECTURE.md, Strict Finalizers).
ReleasedChildIsPurged ==
  [][\A c \in Child :
       child[c].phase = "deleting" /\ child'[c].phase = "gone" /\ Present(realm)
         => c \notin keycloak.kids]_vars

\* If the Realm is gone, its children are deleted from Keycloak by cascade
\* (comment in IsSafelyDeletedFromRealm).
RealmGoneCascades ==
  [][\A c \in Child :
       child[c].phase = "deleting" /\ child'[c].phase = "gone" /\ ~Present(realm)
         => c \notin keycloak.kids]_vars

\* A Job is spawned only if the configuration has changed or five minutes have
\* passed (comment of SyncRealm): the order of a list is not configuration.
OnlyChangesAreSynced ==
  [][ctl.pc = "stamp" /\ ctl'.pc = "spawn"
       => ~(/\ secret.exists /\ secret.fresh
            /\ ContentOf(secret.payload) = ContentOf(ctl.export))]_vars

=============================================================================
