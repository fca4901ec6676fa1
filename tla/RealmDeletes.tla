---------------------------- MODULE RealmDeletes ----------------------------
(***************************************************************************)
(* RealmSync as an implementation of DeletionProtocol: the refinement      *)
(* mapping from the phases of the child CRs, the content of Keycloak and   *)
(* the Realm CR.                                                           *)
(***************************************************************************)
EXTENDS RealmSync

StageOf(c) ==
  CASE child[c].phase = "deleting" -> IF child[c].calm THEN "promised" ELSE "tolerated"
    [] child[c].phase = "gone" -> IF child[c].calm THEN "purged" ELSE "gone"
    [] OTHER -> child[c].phase

Protocol == INSTANCE DeletionProtocol
              WITH stage <- [c \in Child |-> StageOf(c)],
                   held <- keycloak.kids,
                   kept <- Present(realm),
                   trusted <- budget.drifts = 0

\* However the controllers, the Jobs, crashes and failures interleave, children
\* are deleted as the protocol says: no Job that is still to run brings a child
\* back whose deletion was requested at rest, and its finalizer goes only once
\* it is purged (IsSafelyDeletedFromRealm, BuildRealmExport, SyncRealm,
\* observeJob).
KeepsDeletionProtocol == Protocol!Spec
=============================================================================
