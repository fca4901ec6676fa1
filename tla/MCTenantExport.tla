-------------------------- MODULE MCTenantExport --------------------------
(***************************************************************************)
(* Two tenants with CRs of all six kinds.                                  *)
(***************************************************************************)
EXTENDS TenantExport

CONSTANTS r1, r2, client, scope, group, user, flow, idp, s1, s2, s3

\* The AuthFlow is a leftover with an empty realmRef.
MCRealmRef == [c \in {client, scope, group, user, flow, idp} |->
                 CASE c \in {client, group, idp} -> r1
                   [] c \in {scope, user} -> r2
                   [] c = flow -> Nothing]

MCSecretRefs == [c \in {client, scope, group, user, flow, idp} |->
                   CASE c = client -> {s1}
                     [] c = user -> {s2}
                     [] c = idp -> {s3}
                     [] OTHER -> {}]
=============================================================================
