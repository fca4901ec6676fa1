------------------------ MODULE RealmDeletesProofs ------------------------
(***************************************************************************)
(* RealmSync implements DeletionProtocol: initial states map to initial    *)
(* states, and every step maps to a step of the protocol or to a stutter.  *)
(* The Realm must be read as it is, as for CalmDeletionsPurge, and so must  *)
(* its children: an export from a stale list ends a promise, which the     *)
(* protocol does not allow.                                                *)
(***************************************************************************)
EXTENDS RealmDeletes, RealmStatusProofs

\* What the protocol sees of a state.
StageMap == [c \in Child |-> StageOf(c)]
AbstractState == <<StageMap, keycloak.kids, Present(realm), budget.drifts = 0>>

LEMMA InitSimulation == Init => Protocol!Init
BY DEF Init, Protocol!Init, StageOf, Present, NewRealm, NewChild, ContentOf, NoPayload

\* A step that changes one child from one phase to another is a move.
LEMMA ChildMove ==
  ASSUME NEW c \in Child,
         \A d \in Child \ {c} : UNCHANGED child[d],
         UNCHANGED <<keycloak, Present(realm), budget>>,
         NEW from, NEW to, StageOf(c) = from, StageOf(c)' = to
  PROVE  Protocol!Move(c, from, to)
<1>1. \A d \in Child \ {c} : StageOf(d)' = StageOf(d)
  BY DEF StageOf
<1>2. StageMap' = [StageMap EXCEPT ![c] = to]
  BY <1>1 DEF StageMap
<1> QED
  BY <1>2 DEF Protocol!Move, StageMap

\* A step that keeps phases and promises of the children keeps their stages.
LEMMA StageKept ==
  ASSUME \A c \in Child : UNCHANGED <<child[c].phase, child[c].calm>>
  PROVE  UNCHANGED StageMap
BY DEF StageMap, StageOf

LEMMA StepSimulation ==
  ASSUME "realm" \notin Lagging, "children" \notin Lagging,
         TypeOK, PurgeInv, [Next]_vars
  PROVE  [Protocol!Next]_(Protocol!vars)
<1> USE DEF TypeOK
<1>a. AbstractState' = AbstractState => UNCHANGED Protocol!vars
  BY DEF AbstractState, StageMap, Protocol!vars
\* Steps of the operator that touch neither children nor Keycloak.
<1>1. ASSUME UNCHANGED <<child, keycloak, budget>>, UNCHANGED Present(realm)
      PROVE  UNCHANGED Protocol!vars
  BY <1>a, <1>1, StageKept DEF AbstractState
<1>2. CASE ReleaseRealm \/ CreateRealm \/ DeleteRealm
  <2>1. UNCHANGED <<child, keycloak, budget>>
    BY <1>2 DEF ReleaseRealm, CreateRealm, DeleteRealm, outside
  <2>2. CASE UNCHANGED Present(realm)
    BY <1>1, <2>1, <2>2
  <2>3. CASE ~UNCHANGED Present(realm)
    <3>1. Present(realm)' = ~Present(realm)
      BY <2>3 DEF Present
    <3>2. UNCHANGED StageMap
      BY <2>1, StageKept
    <3> QED
      BY <2>1, <3>1, <3>2 DEF Protocol!Next, Protocol!ComeOrGo, StageMap
  <2> QED
    BY <2>2, <2>3
<1>3. CASE AdoptRealm \/ EditRealm
  BY <1>1, <1>3 DEF AdoptRealm, EditRealm, outside, Present, RealmCR
<1>4. CASE RecordJob \/ ReportOutcome \/ ReportFailure
  <2>1. UNCHANGED Present(realm)
    BY <1>4, WithStatusFields DEF RecordJob, ReportOutcome, ReportFailure, Present
  <2> QED
    BY <1>1, <1>4, <2>1 DEF RecordJob, ReportOutcome, ReportFailure, outside
<1>5. CASE RemoveTrigger
  BY <1>1, <1>5 DEF RemoveTrigger, outside, Present, RealmCR
<1>6. ASSUME NEW c \in Child, SyncChild(c) \/ AwaitPurge(c)
      PROVE  UNCHANGED Protocol!vars
  <2>1. UNCHANGED <<keycloak, budget>> /\ UNCHANGED Present(realm)
    BY <1>6, TriggerKeepsStatus DEF SyncChild, AwaitPurge, outside, Present
  <2>2. \A d \in Child : UNCHANGED <<child[d].phase, child[d].calm>>
    BY <1>6 DEF SyncChild, AwaitPurge, ChildCR
  <2> QED
    BY <1>a, <2>1, <2>2, StageKept DEF AbstractState
<1>7. ASSUME NEW c \in Child, AdoptChild(c) \/ AgeDeletion(c)
      PROVE  UNCHANGED Protocol!vars
  <2>1. UNCHANGED <<keycloak, budget, realm>>
    BY <1>7 DEF AdoptChild, AgeDeletion, outside
  <2>2. \A d \in Child : UNCHANGED <<child[d].phase, child[d].calm>>
    BY <1>7 DEF AdoptChild, AgeDeletion, ChildCR
  <2> QED
    BY <1>a, <2>1, <2>2, StageKept DEF AbstractState, Present
<1>8. ASSUME NEW c \in Child, CreateChild(c) PROVE Protocol!Next
  <2>1. /\ \A d \in Child \ {c} : UNCHANGED child[d]
        /\ UNCHANGED <<keycloak, Present(realm), budget>>
    BY <1>8 DEF CreateChild, outside, Present
  <2>2. StageOf(c) = "new" /\ StageOf(c)' = "live"
    BY <1>8 DEF CreateChild, StageOf, ChildCR
  <2>3. Protocol!Move(c, "new", "live")
    BY <2>1, <2>2, ChildMove
  <2> QED
    BY <2>3 DEF Protocol!Next, Protocol!Create
<1>9. ASSUME NEW c \in Child, DeleteChild(c) PROVE Protocol!Next
  <2>1. /\ \A d \in Child \ {c} : UNCHANGED child[d]
        /\ UNCHANGED <<keycloak, Present(realm), budget>>
    BY <1>9 DEF DeleteChild, outside, Present
  <2>2. /\ StageOf(c) = "live"
        /\ StageOf(c)' \in {"promised", "tolerated", "gone"}
    BY <1>9 DEF DeleteChild, StageOf, ChildCR, GoneChild, NewChild
  <2>3. \/ Protocol!Move(c, "live", "promised")
        \/ Protocol!Move(c, "live", "tolerated")
        \/ Protocol!Move(c, "live", "gone")
    BY <2>1, <2>2, ChildMove
  <2> QED
    BY <2>3 DEF Protocol!Next, Protocol!Request
<1>10. ASSUME NEW c \in Child, ReleaseChild(c) PROVE Protocol!Next
  <2>1. /\ \A d \in Child \ {c} : UNCHANGED child[d]
        /\ UNCHANGED <<keycloak, Present(realm), budget>>
    BY <1>10 DEF ReleaseChild, outside, Present
  <2>2. /\ child[c].phase = "deleting" /\ child'[c].phase = "gone"
        /\ child'[c].calm = (child[c].calm /\ Present(realm))
    BY <1>10 DEF ReleaseChild, ChildCR, GoneChild, NewChild
  <2>3. CASE ~child[c].calm
    <3>1. Protocol!Move(c, "tolerated", "gone")
      BY <2>1, <2>2, <2>3, ChildMove DEF StageOf
    <3> QED
      BY <3>1 DEF Protocol!Next, Protocol!GiveUp
  <2>4. CASE child[c].calm /\ ~Present(realm)
    <3>1. Protocol!Move(c, "promised", "gone")
      BY <2>1, <2>2, <2>4, ChildMove DEF StageOf
    <3> QED
      BY <2>4, <3>1 DEF Protocol!Next, Protocol!GiveUp
  <2>5. CASE child[c].calm /\ Present(realm)
    <3>1. Protocol!Move(c, "promised", "purged")
      BY <2>1, <2>2, <2>5, ChildMove DEF StageOf
    <3>2. budget.drifts = 0 => c \notin keycloak.kids
      BY <1>10, <2>2, <2>5
         DEF ReleaseChild, IsSafelyDeleted, ReadRealm, PurgeInv, Promised,
             Purging, ReadyMeansPurged
    <3> QED
      BY <2>5, <3>1, <3>2 DEF Protocol!Next, Protocol!Release
  <2> QED
    BY <2>3, <2>4, <2>5 DEF ChildCR
<1>11. ASSUME NEW j \in Job, CompleteJob(j) \/ FailPod(j)
       PROVE  Protocol!Next
  <2>1. UNCHANGED <<child, realm, budget.drifts>>
    BY <1>11 DEF CompleteJob, FailPod, Failure
  <2>2. keycloak'.kids \subseteq Child
    BY <1>11 DEF CompleteJob, FailPod, ContentOf, PodState, Payload, Content
  <2>3. ASSUME NEW c \in Child, StageOf(c) \in {"promised", "purged"},
               budget.drifts = 0, c \in keycloak'.kids
        PROVE  c \in keycloak.kids
    <3>1. Promised(c)
      BY <2>3 DEF StageOf, Promised, ChildCR, Phase
    <3> QED
      BY <2>1, <2>3, <3>1, NoneReturns DEF PurgeInv, Purging
  <2>4. UNCHANGED StageMap
    BY <2>1, StageKept
  <2> QED
    BY <2>1, <2>2, <2>3, <2>4
       DEF Protocol!Next, Protocol!Import, Protocol!Banned, StageMap, Present
<1>12. CASE Drift
  <2>1. UNCHANGED <<child, realm>> /\ keycloak'.kids \subseteq Child
    BY <1>12 DEF Drift, objects
  <2>2. budget'.drifts # 0
    BY <1>12 DEF Drift
  <2>3. UNCHANGED StageMap
    BY <2>1, StageKept
  <2> QED
    BY <2>1, <2>2, <2>3 DEF Protocol!Next, Protocol!Tamper, StageMap, Present
<1>13. CASE Crash \/ SpawnFails
  <2>1. UNCHANGED <<child, realm, keycloak, budget.drifts>>
    BY <1>13 DEF Crash, SpawnFails, Failure, objects
  <2> QED
    BY <1>a, <2>1, StageKept DEF AbstractState, Present
<1>14. CASE BuildRealmExport
  <2>1. UNCHANGED <<keycloak, budget, realm>>
    BY <1>14 DEF BuildRealmExport, outside
  <2>2. ASSUME NEW c \in Child PROVE UNCHANGED StageOf(c)
    <3>1. UNCHANGED child[c].phase
      BY <1>14, ExportCalms
    <3>2. child[c].phase \in {"deleting", "gone"} => UNCHANGED child[c].calm
      <4>1. child[c].phase \in {"deleting", "gone"} => ReadPhase[c] # "live"
        BY DEF ReadPhase, Phases
      <4>2. ReadPhase[c] # "live" => UNCHANGED child[c].calm
        <5>1. \/ child' = child
              \/ child' = [d \in Child |->
                         [child[d] EXCEPT !.calm = @ /\ ReadPhase[d] # "live"]]
          BY <1>14 DEF BuildRealmExport
        <5>2. \/ child' = child
              \/ child'[c].calm = (child[c].calm /\ ReadPhase[c] # "live")
          BY <5>1 DEF ChildCR
        <5>3. child[c].calm \in BOOLEAN
          BY DEF ChildCR
        <5> QED
          BY <5>2, <5>3
      <4> QED
        BY <4>1, <4>2
    <3> QED
      BY <3>1, <3>2 DEF StageOf
  <2>3. UNCHANGED StageMap
    BY <2>2 DEF StageMap
  <2> QED
    BY <1>a, <2>1, <2>3 DEF AbstractState, Present
<1>15. CASE UNCHANGED <<child, keycloak, budget, realm>>
  BY <1>1, <1>15 DEF Present
<1> QED
  BY <1>2, <1>3, <1>4, <1>5, <1>6, <1>7, <1>8, <1>9, <1>10, <1>11, <1>12, <1>13, <1>14,
     <1>15
     DEF Next, RealmController, BeginSync, SkipSync, DetectDrift, StampSecret,
     SpawnJob, CleanupTerminalJobs, Cleanup, ObserveJob, ChildController, ConfigCLI,
     StartPod, SyncCache, Collector, CollectSecret, CollectJob, User, Clock,
     ExpireSecret, objects, outside, vars

\* The controllers delete children as DeletionProtocol says, for any children,
\* Jobs, crashes, failures, edits and drifts.
THEOREM RealmKeepsProtocol ==
  ASSUME "realm" \notin Lagging, "children" \notin Lagging
  PROVE  Spec => KeepsDeletionProtocol
<1>1. Init => Protocol!Init
  BY InitSimulation
<1>2. TypeOK /\ PurgeInv /\ [Next]_vars
        => [Protocol!Next]_(Protocol!vars)
  BY StepSimulation
<1> QED
  BY <1>1, <1>2, TypeCorrect, PurgeInvHolds, PTL
     DEF Spec, KeepsDeletionProtocol, Protocol!Spec
=============================================================================
