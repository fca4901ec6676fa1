--------------------------- MODULE LeaderOverlap ---------------------------
(***************************************************************************)
(* Two operator replicas at work on the same Realm.                        *)
(*                                                                         *)
(* The manager is started with leader election, so only the replica that   *)
(* holds the lease runs the controllers.  A lease is no lock: a leader     *)
(* that was suspended or cut off until its lease ran out goes on with the  *)
(* Reconcile it was in, step by step, until it notices and exits.          *)
(* Meanwhile the next leader reconciles as well.  Both are RealmSync, over *)
(* the same objects, each with a Reconcile of its own.                     *)
(***************************************************************************)
EXTENDS RealmSync

VARIABLES
  deposed,  \* the Reconcile a deposed leader is still in, or Idle
  hurried   \* auxiliary: children deleted while a deposed leader was at work

Deposed == INSTANCE RealmSync WITH ctl <- deposed

overlapVars == <<vars, deposed, hurried>>

\* The lease runs out in the middle of a Reconcile, which is not told.
TakeOver ==
  /\ ctl.pc # "idle" /\ deposed = Idle /\ budget.crashes < MaxCrashes
  /\ budget' = [budget EXCEPT !.crashes = @ + 1]
  /\ deposed' = ctl /\ ctl' = Idle
  /\ UNCHANGED <<objects, pods, keycloak, owed, cache>>

\* The child controllers keep nothing between two steps: what those of the
\* deposed leader do is among the steps of RealmSync.
DeposedStep ==
  /\ deposed # Idle
  /\ Deposed!RealmController
  /\ UNCHANGED ctl

\* "leader election lost": the manager returns and the process exits.
LeaderElectionLost ==
  /\ deposed # Idle
  /\ deposed' = Idle
  /\ UNCHANGED vars

DeletionStarts(c) == child[c].phase = "live" /\ child'[c].phase = "deleting"

InitOverlap == Init /\ deposed = Idle /\ hurried = {}

NextOverlap ==
  /\ \/ Next /\ UNCHANGED deposed
     \/ TakeOver
     \/ DeposedStep
     \/ LeaderElectionLost
  /\ hurried' = hurried \cup {c \in Child : deposed # Idle /\ DeletionStarts(c)}

OverlapSpec == InitOverlap /\ [][NextOverlap]_overlapVars

\* Users never delete the Realm.
FairOverlapSpec ==
  /\ InitOverlap
  /\ [][NextOverlap /\ Timely /\ realm'.phase \in {"new", "live"}]_overlapVars
  /\ Fairness
  /\ WF_deposed(LeaderElectionLost)

(***************************************************************************)
(* Safety                                                                  *)
(***************************************************************************)
\* As CalmDeletionPurges: also while two replicas stamp, spawn, clean up and
\* report at once, a child is purged from Keycloak before its finalizer goes, if
\* its deletion was requested while no sync of either was under way and neither
\* builds an export that still shows it (IsSafelyDeletedFromRealm, SyncRealm,
\* observeJob).
UnhurriedDeletionPurges ==
  [][\A c \in Child \ hurried :
       (/\ child[c].phase = "deleting" /\ child[c].calm
        /\ child'[c].phase = "gone"
        /\ Present(realm) /\ budget.drifts = 0)
       => c \notin keycloak.kids]_overlapVars
=============================================================================
