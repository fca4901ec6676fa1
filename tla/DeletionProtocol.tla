-------------------------- MODULE DeletionProtocol --------------------------
(***************************************************************************)
(* What the finalizer of a child CR promises to whoever deletes the child, *)
(* whatever the operator does to keep it.                                  *)
(*                                                                         *)
(* A deletion that is requested at a quiet moment is a promise: Keycloak   *)
(* will not receive the child again, the CR stays until Keycloak is        *)
(* without the child, and Keycloak stays without it afterwards.  A         *)
(* deletion requested at another moment is only tolerated: the CR goes at  *)
(* some time.  The promise is given up when the Realm CR goes, and it says *)
(* nothing once somebody has edited Keycloak by hand.                      *)
(***************************************************************************)
CONSTANT Child

VARIABLES
  stage,    \* how far each child is
  held,     \* the children Keycloak holds
  kept,     \* the Realm CR is there
  trusted   \* nobody has edited Keycloak by hand

vars == <<stage, held, kept, trusted>>

Stage == {"new", "live", "promised", "tolerated", "purged", "gone"}

TypeOK ==
  /\ stage \in [Child -> Stage]
  /\ held \subseteq Child
  /\ kept \in BOOLEAN
  /\ trusted \in BOOLEAN

Init ==
  /\ stage = [c \in Child |-> "new"]
  /\ held = {}
  /\ kept = FALSE
  /\ trusted = TRUE

\* The children that must not enter Keycloak again.
Banned == {c \in Child : stage[c] \in {"promised", "purged"}}

Move(c, from, to) ==
  /\ stage[c] = from
  /\ stage' = [stage EXCEPT ![c] = to]
  /\ UNCHANGED <<held, kept, trusted>>

Create(c) == Move(c, "new", "live")

Request(c) ==
  Move(c, "live", "promised") \/ Move(c, "live", "tolerated") \/ Move(c, "live", "gone")

\* The finalizer of a promised deletion goes with the Realm there.
Release(c) ==
  /\ kept
  /\ trusted => c \notin held
  /\ Move(c, "promised", "purged")

\* Nobody is there any more to keep the promise, or none was made.
GiveUp(c) ==
  (~kept /\ Move(c, "promised", "gone")) \/ Move(c, "tolerated", "gone")

\* An import takes children in and out, but no banned one in.
Import ==
  /\ held' \subseteq Child
  /\ trusted => held' \cap Banned \subseteq held
  /\ UNCHANGED <<stage, kept, trusted>>

\* Somebody edits Keycloak by hand.
Tamper ==
  /\ held' \subseteq Child
  /\ trusted' = FALSE
  /\ UNCHANGED <<stage, kept>>

ComeOrGo == kept' = ~kept /\ UNCHANGED <<stage, held, trusted>>

Next ==
  \/ \E c \in Child : Create(c) \/ Request(c) \/ Release(c) \/ GiveUp(c)
  \/ Import \/ Tamper \/ ComeOrGo

Spec == Init /\ [][Next]_vars

(***************************************************************************)
(* What the promise amounts to                                             *)
(***************************************************************************)
\* A child whose promised deletion is over is not in Keycloak, and never comes
\* back (finalizers of the child controllers).
PurgedStaysAway ==
  \A c \in Child : stage[c] = "purged" /\ trusted => c \notin held
=============================================================================
