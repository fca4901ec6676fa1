----------------------- MODULE DeletionProtocolProofs -----------------------
(* What DeletionProtocol promises follows from its steps. *)
EXTENDS DeletionProtocol, TLAPS

\* A move of one child leaves the stages of the others.
LEMMA MoveStages ==
  ASSUME stage \in [Child -> Stage], NEW c \in Child, NEW from, NEW to \in Stage,
         Move(c, from, to)
  PROVE  /\ stage' \in [Child -> Stage]
         /\ stage[c] = from /\ stage'[c] = to
         /\ \A d \in Child \ {c} : stage'[d] = stage[d]
BY DEF Move

\* The promise is typed and, once redeemed, never broken: Keycloak stays without
\* a child whose finalizer went as promised (what RealmSync inherits).
THEOREM PromisesAreKept == Spec => [](TypeOK /\ PurgedStaysAway)
<1> DEFINE Inv == TypeOK /\ PurgedStaysAway
<1>1. Init => Inv
  BY DEF Init, TypeOK, Stage, PurgedStaysAway
<1>2. Inv /\ [Next]_vars => Inv'
  <2> SUFFICES ASSUME TypeOK, PurgedStaysAway, [Next]_vars PROVE Inv'
    OBVIOUS
  <2> USE DEF TypeOK
  \* A move into another stage than purged, or into it without being held.
  <2>1. ASSUME NEW c \in Child, NEW from, NEW to \in Stage, Move(c, from, to),
               to = "purged" /\ trusted => c \notin held
        PROVE  Inv'
    BY <2>1, MoveStages DEF PurgedStaysAway, Move
  <2>2. ASSUME NEW c \in Child, Create(c) \/ Request(c) \/ GiveUp(c) PROVE Inv'
    BY <2>1, <2>2 DEF Create, Request, GiveUp, Stage
  <2>3. ASSUME NEW c \in Child, Release(c) PROVE Inv'
    BY <2>1, <2>3 DEF Release, Stage
  <2>4. CASE Import
    BY <2>4 DEF Import, PurgedStaysAway, Banned
  <2>5. CASE Tamper
    BY <2>5 DEF Tamper, PurgedStaysAway
  <2>6. CASE ComeOrGo \/ UNCHANGED vars
    <3>1. UNCHANGED <<stage, held, trusted>>
      BY <2>6 DEF ComeOrGo, vars
    <3>2. kept' \in BOOLEAN
      BY <2>6 DEF ComeOrGo, vars
    <3> QED
      BY <3>1, <3>2 DEF PurgedStaysAway
  <2> QED
    BY <2>2, <2>3, <2>4, <2>5, <2>6 DEF Next
<1> QED
  BY <1>1, <1>2, PTL DEF Spec
=============================================================================
