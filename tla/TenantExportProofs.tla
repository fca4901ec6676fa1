------------------------- MODULE TenantExportProofs -------------------------
(***************************************************************************)
(* Theorems about TenantExport, for any CRs, tenants, Secrets and bounds.  *)
(***************************************************************************)
EXTENDS TenantExport, TLAPS

LEMMA SixKinds == Len(Kinds) = 6 /\ \A k \in 1..6 : Kinds[k] \subseteq CR
BY DEF Kinds, CR

\* A step is one of the Realm controller's worker, of a child controller, a user or
\* a crash; the six child controllers do alike.
LEMMA StepCases ==
  ASSUME [Next]_vars
  PROVE  \/ \E r \in Realm : BeginSync(r)
         \/ ListKind \/ ExportItem \/ FinishSync
         \/ \E c \in CR : ReconcileChild(c)
         \/ \E c \in Client : GenerateSecret(c)
         \/ \E c \in CR : Create(c) \/ Edit(c) \/ Delete(c)
         \/ \E s \in Secret : ChangeSecret(s)
         \/ Crash
         \/ UNCHANGED vars
<1>1. /\ Client \subseteq CR /\ ClientScope \subseteq CR /\ Group \subseteq CR
      /\ User \subseteq CR /\ AuthFlow \subseteq CR /\ IdentityProvider \subseteq CR
  BY SixKinds DEF Kinds
<1> QED
  BY <1>1 DEF Next, RealmController, ContinueSync, Users, ClientController,
              ClientScopeController, GroupController, UserController,
              AuthFlowController, IdentityProviderController

(***************************************************************************)
(* Types                                                                   *)
(***************************************************************************)
LEMMA StatusTyped == ASSUME NEW b \in BOOLEAN PROVE Dated(b) \in RealmStatus
BY DEF Dated, RealmStatus

LEMMA ItemsTyped == ASSUME TypeOK, NEW c \in CR PROVE ItemOf(c) \in Item
BY DEF TypeOK, Object, ItemOf, Item

LEMMA IdleTyped == NoBuild \in Build
BY SixKinds DEF NoBuild, Build

\* A change of one CR, noted for the build under way.
LEMMA ChangeTyped ==
  ASSUME TypeOK, NEW objects \in [CR -> Object], Watch(objects)
  PROVE  build' \in Build
<1>1. CASE build.realm = Nothing
  BY <1>1 DEF Watch, TypeOK
<1>2. CASE build.realm # Nothing
  <2> DEFINE live == {c \in CR : objects[c].phase = "live"}
             new == {[cr |-> c, gen |-> objects[c].gen] : c \in live}
  <2>1. new \subseteq Item
    BY DEF Object, Item
  <2>2. build' = [build EXCEPT !.met = @ \cup new, !.kept = @ \cap live]
    BY <1>2 DEF Watch
  <2>3. build.met \cup new \in SUBSET Item /\ build.kept \cap live \in SUBSET CR
    BY <2>1 DEF TypeOK, Build
  <2> QED
    BY <2>2, <2>3 DEF TypeOK, Build
<1> QED
  BY <1>1, <1>2

\* Every reachable state is well typed.
THEOREM TypeCorrect == Spec => []TypeOK
<1>1. Init => TypeOK
  BY TenantAssumption, IdleTyped DEF Init, TypeOK, Object, NewObject, SecretState, RealmStatus
<1>2. TypeOK /\ [Next]_vars => TypeOK'
  <2> SUFFICES ASSUME TypeOK, [Next]_vars PROVE TypeOK'
    OBVIOUS
  <2>1. ASSUME NEW r \in Realm, BeginSync(r) PROVE TypeOK'
    <3>1. {ItemOf(c) : c \in Live(CR)} \subseteq Item /\ Live(CR) \subseteq CR
      BY ItemsTyped DEF Live
    <3>2. build' \in Build
      BY <2>1, <3>1, IdleTyped DEF BeginSync, Build
    <3> QED
      BY <2>1, <3>2 DEF BeginSync, TypeOK
  <2>2. ASSUME NEW b \in BOOLEAN, status' = [status EXCEPT ![build.realm] = Dated(b)]
        PROVE  status' \in [Realm -> RealmStatus]
    BY <2>2, StatusTyped DEF TypeOK
  <2>3. ASSUME Fail
        PROVE  build' \in Build /\ status' \in [Realm -> RealmStatus]
    BY <2>2, <2>3, IdleTyped DEF Fail
  <2>4. CASE ListKind
    <3> DEFINE cs == Kinds[build.kind + 1]
    <3>1. build.kind + 1 \in 0..Len(Kinds) /\ cs \subseteq CR
      BY <2>4, SixKinds DEF ListKind, TypeOK, Build
    <3>2. OfRealm(cs) \subseteq Item
      BY <3>1, ItemsTyped DEF OfRealm, Live
    <3>3. CASE \E c \in Live(cs) : RealmRef[c] = Nothing
      BY <2>4, <3>3, <2>3 DEF ListKind, TypeOK
    <3>4. CASE ~ \E c \in Live(cs) : RealmRef[c] = Nothing
      <4>1. build' = [build EXCEPT !.kind = @ + 1, !.listed = OfRealm(cs)]
        BY <2>4, <3>4 DEF ListKind
      <4>2. build' \in Build
        <5> HIDE DEF cs
        <5> QED
          BY <4>1, <3>1, <3>2 DEF TypeOK, Build
      <4> QED
        BY <2>4, <3>4, <4>2 DEF ListKind, TypeOK
    <3> QED
      BY <3>3, <3>4
  <2>5. CASE ExportItem
    <3>1. PICK i \in build.listed :
            IF Resolved(i.cr)
              THEN /\ build' = [build EXCEPT !.listed = @ \ {i},
                                             !.entries = @ \cup {EntryOf(i)}]
                   /\ UNCHANGED status
              ELSE Fail
      BY <2>5 DEF ExportItem
    <3>2. EntryOf(i) \in Entry
      BY TenantAssumption DEF EntryOf, Entry, TypeOK, Build, Item
    <3>3. build' \in Build /\ status' \in [Realm -> RealmStatus]
      <4>1. CASE Resolved(i.cr)
        <5>1. /\ build.listed \ {i} \in SUBSET Item
              /\ build.entries \cup {EntryOf(i)} \in SUBSET Entry
          BY <3>2 DEF TypeOK, Build
        <5>2. build' = [build EXCEPT !.listed = @ \ {i}, !.entries = @ \cup {EntryOf(i)}]
          BY <3>1, <4>1
        <5>3. build' \in Build
          BY <5>1, <5>2 DEF TypeOK, Build
        <5> QED
          BY <5>3, <3>1, <4>1 DEF TypeOK
      <4> QED
        BY <3>1, <4>1, <2>3
    <3> QED
      BY <2>5, <3>3 DEF ExportItem, TypeOK
  <2>6. CASE FinishSync
    <3>1. build' = NoBuild /\ UNCHANGED <<cr, secrets, events>>
      BY <2>6 DEF FinishSync, StampExport, SkipSync, ReportReady
    <3>2. config' \in [Realm -> SUBSET Entry]
      BY <2>6 DEF FinishSync, StampExport, SkipSync, ReportReady, TypeOK, Build
    <3>3. status' \in [Realm -> RealmStatus]
      BY <2>6, <2>2 DEF FinishSync, StampExport, SkipSync, ReportReady, TypeOK
    <3> QED
      BY <3>1, <3>2, <3>3, IdleTyped DEF TypeOK
  <2>7. ASSUME NEW c \in CR, ReconcileChild(c) PROVE TypeOK'
    <3>1. PICK o \in Object : cr' = [cr EXCEPT ![c] = o]
      <4>1. CASE AdoptChild(c)
        <5>1. cr' = [cr EXCEPT ![c] = [cr[c] EXCEPT !.fin = TRUE]]
          BY <4>1 DEF AdoptChild
        <5> QED
          BY <5>1 DEF TypeOK, Object
      <4>2. CASE ReleaseChild(c)
        <5>1. cr' = [cr EXCEPT ![c] = [cr[c] EXCEPT !.phase = "gone", !.fin = FALSE]]
          BY <4>2 DEF ReleaseChild
        <5> QED
          BY <5>1 DEF TypeOK, Object
      <4> QED
        BY <2>7, <4>1, <4>2 DEF ReconcileChild
    <3> QED
      BY <2>7, <3>1 DEF ReconcileChild, AdoptChild, ReleaseChild, TypeOK
  <2>8. ASSUME NEW c \in Client, GenerateSecret(c) PROVE TypeOK'
    BY <2>8 DEF GenerateSecret, TypeOK, SecretState
  <2>9. ASSUME NEW c \in CR, Create(c) \/ Edit(c) \/ Delete(c) PROVE TypeOK'
    <3>1. cr' \in [CR -> Object]
      BY <2>9, TenantAssumption DEF Create, Edit, Delete, TypeOK, Object
    <3>2. build' \in Build
      BY <2>9, <3>1, ChangeTyped DEF Create, Edit, Delete
    <3>3. events' \in 0..MaxEvents /\ UNCHANGED <<secrets, config, status>>
      BY <2>9, TenantAssumption DEF Create, Edit, Delete, Event, TypeOK
    <3> QED
      BY <3>1, <3>2, <3>3 DEF TypeOK
  <2>10. ASSUME NEW s \in Secret, ChangeSecret(s) PROVE TypeOK'
    BY <2>10, TenantAssumption DEF ChangeSecret, Event, TypeOK
  <2>11. CASE Crash
    BY <2>11, IdleTyped, TenantAssumption DEF Crash, Event, TypeOK
  <2>12. CASE UNCHANGED vars
    BY <2>12 DEF vars, TypeOK
  <2> QED
    BY <2>1, <2>4, <2>5, <2>6, <2>7, <2>8, <2>9, <2>10, <2>11, <2>12, StepCases
<1> QED
  BY <1>1, <1>2, PTL DEF Spec

(***************************************************************************)
(* The export under construction                                           *)
(***************************************************************************)
\* What is listed or exported is of the Realm and was live during the sync.
OwnAndMet ==
  /\ \A i \in build.listed : RealmRef[i.cr] = build.realm /\ i \in build.met
  /\ \A e \in build.entries : RealmRef[e.item.cr] = build.realm /\ e.item \in build.met

\* What is live now was met; what was live all along is live now.
Observed ==
  build.realm # Nothing =>
    /\ \A c \in Live(CR) : ItemOf(c) \in build.met
    /\ build.kept \subseteq Live(CR)

Taken(c) == \/ \E i \in build.listed : i.cr = c
            \/ \E e \in build.entries : e.item.cr = c

\* No CR of the Realm that was live all along is lost between the lists.
NoneLost ==
  \A k \in 1..build.kind :
    \A c \in Kinds[k] \cap build.kept : RealmRef[c] = build.realm => Taken(c)

BuildInv == TypeOK /\ OwnAndMet /\ Observed /\ NoneLost

LEMMA IdleBuild == build = NoBuild => OwnAndMet /\ Observed /\ NoneLost
BY DEF NoBuild, OwnAndMet, Observed, NoneLost

LEMMA NextIdleBuild == build' = NoBuild => (OwnAndMet /\ Observed /\ NoneLost)'
BY DEF NoBuild, OwnAndMet, Observed, NoneLost

\* A list adds the Realm's live CRs of its kind.
LEMMA ListKeeps == BuildInv /\ ListKind => (OwnAndMet /\ Observed /\ NoneLost)'
<1> SUFFICES ASSUME BuildInv, ListKind PROVE (OwnAndMet /\ Observed /\ NoneLost)'
  OBVIOUS
<1> DEFINE cs == Kinds[build.kind + 1]
<1>1. CASE \E c \in Live(cs) : RealmRef[c] = Nothing
  BY <1>1, NextIdleBuild DEF ListKind, Fail
<1>2. CASE ~ \E c \in Live(cs) : RealmRef[c] = Nothing
  <2>1. /\ build.realm # Nothing /\ build.listed = {} /\ build.kind \in 0..5
        /\ build' = [build EXCEPT !.kind = @ + 1, !.listed = OfRealm(cs)]
        /\ cr' = cr
    BY <1>2, SixKinds DEF ListKind, BuildInv, TypeOK, Build
  <2>2. /\ build'.realm = build.realm /\ build'.kind = build.kind + 1
        /\ build'.listed = OfRealm(cs) /\ build'.entries = build.entries
        /\ build'.met = build.met /\ build'.kept = build.kept
    BY <2>1 DEF BuildInv, TypeOK, Build
  <2>3. cs \subseteq CR
    BY <2>1, SixKinds
  <2>4. \A i \in OfRealm(cs) : RealmRef[i.cr] = build.realm /\ i \in build.met
    BY <2>1, <2>3 DEF OfRealm, Live, ItemOf, BuildInv, Observed
  <2>5. OwnAndMet'
    BY <2>2, <2>4 DEF BuildInv, OwnAndMet
  <2>6. Observed'
    BY <2>1, <2>2 DEF BuildInv, Observed, Live, ItemOf
  <2>7. NoneLost'
    <3> SUFFICES ASSUME NEW k \in 1..(build.kind + 1), NEW c \in Kinds[k] \cap build.kept,
                        RealmRef[c] = build.realm
                 PROVE  Taken(c)'
      BY <2>2 DEF NoneLost
    <3>1. CASE k \in 1..build.kind
      <4>1. Taken(c)
        BY <3>1 DEF BuildInv, NoneLost
      <4> QED
        BY <4>1, <2>1, <2>2 DEF Taken
    <3>2. CASE k = build.kind + 1
      <4>1. c \in Live(cs)
        BY <3>2, <2>1, <2>3 DEF BuildInv, Observed, Live
      <4>2. ItemOf(c) \in OfRealm(cs) /\ ItemOf(c).cr = c
        BY <4>1 DEF OfRealm, ItemOf
      <4> QED
        BY <4>2, <2>2 DEF Taken
    <3> QED
      BY <3>1, <3>2, <2>1
  <2> QED
    BY <2>5, <2>6, <2>7
<1> QED
  BY <1>1, <1>2

\* An item moves from the list to the export.
LEMMA ExportKeeps == BuildInv /\ ExportItem => (OwnAndMet /\ Observed /\ NoneLost)'
<1> SUFFICES ASSUME BuildInv, ExportItem PROVE (OwnAndMet /\ Observed /\ NoneLost)'
  OBVIOUS
<1>1. PICK i \in build.listed :
        \/ build' = [build EXCEPT !.listed = @ \ {i}, !.entries = @ \cup {EntryOf(i)}]
        \/ Fail
  BY DEF ExportItem
<1>2. CASE Fail
  BY <1>2, NextIdleBuild DEF Fail
<1>3. CASE build' = [build EXCEPT !.listed = @ \ {i}, !.entries = @ \cup {EntryOf(i)}]
  <2>1. /\ build'.realm = build.realm /\ build'.kind = build.kind
        /\ build'.listed = build.listed \ {i}
        /\ build'.entries = build.entries \cup {EntryOf(i)}
        /\ build'.met = build.met /\ build'.kept = build.kept
    BY <1>3 DEF BuildInv, TypeOK, Build
  <2>2. cr' = cr
    BY DEF ExportItem
  <2>3. EntryOf(i).item = i
    BY DEF EntryOf
  <2>4. OwnAndMet'
    BY <2>1, <2>3 DEF BuildInv, OwnAndMet
  <2>5. Observed'
    BY <2>1, <2>2 DEF BuildInv, Observed, Live, ItemOf
  <2>6. \A c : Taken(c) => Taken(c)'
    BY <2>1, <2>3 DEF Taken
  <2>7. NoneLost'
    BY <2>1, <2>6 DEF BuildInv, NoneLost
  <2> QED
    BY <2>4, <2>5, <2>7
<1> QED
  BY <1>1, <1>2, <1>3

\* A user's change to a CR is noted.
LEMMA ChangeKeeps ==
  ASSUME BuildInv, Watch(cr')
  PROVE  (OwnAndMet /\ Observed /\ NoneLost)'
<1>1. CASE build.realm = Nothing
  <2>1. build' = build
    BY <1>1 DEF Watch
  <2> QED
    BY <1>1, <2>1 DEF BuildInv, OwnAndMet, Observed, NoneLost, Taken
<1>2. CASE build.realm # Nothing
  <2> DEFINE live == {c \in CR : cr'[c].phase = "live"}
             new == {[cr |-> c, gen |-> cr'[c].gen] : c \in live}
  <2>1. build' = [build EXCEPT !.met = @ \cup new, !.kept = @ \cap live]
    BY <1>2 DEF Watch
  <2>2. /\ build'.realm = build.realm /\ build'.kind = build.kind
        /\ build'.listed = build.listed /\ build'.entries = build.entries
        /\ build'.met = build.met \cup new /\ build'.kept = build.kept \cap live
    <3> HIDE DEF new, live
    <3> QED
      BY <2>1 DEF BuildInv, TypeOK, Build
  <2>3. OwnAndMet'
    <3> HIDE DEF new
    <3> QED
      BY <2>2 DEF BuildInv, OwnAndMet
  <2>4. Observed'
    BY <2>2 DEF Observed, Live, ItemOf
  <2>5. NoneLost'
    BY <2>2 DEF BuildInv, NoneLost, Taken
  <2> QED
    BY <2>3, <2>4, <2>5
<1> QED
  BY <1>1, <1>2

LEMMA BuildStep == BuildInv /\ [Next]_vars => (OwnAndMet /\ Observed /\ NoneLost)'
<1> SUFFICES ASSUME BuildInv, [Next]_vars PROVE (OwnAndMet /\ Observed /\ NoneLost)'
  OBVIOUS
<1>1. ASSUME NEW r \in Realm, BeginSync(r) PROVE (OwnAndMet /\ Observed /\ NoneLost)'
  <2>1. /\ build'.listed = {} /\ build'.entries = {} /\ build'.kind = 0
        /\ build'.met = {ItemOf(c) : c \in Live(CR)} /\ build'.kept = Live(CR)
        /\ cr' = cr
    BY <1>1 DEF BeginSync, NoBuild
  <2> QED
    BY <2>1 DEF OwnAndMet, Observed, NoneLost, Live, ItemOf
<1>2. CASE FinishSync \/ Crash
  BY <1>2, NextIdleBuild DEF FinishSync, StampExport, SkipSync, ReportReady, Crash
\* A finalizer comes or goes: what is live stays live, with its spec.
<1>3. ASSUME NEW c \in CR, ReconcileChild(c) PROVE (OwnAndMet /\ Observed /\ NoneLost)'
  <2>1. /\ build' = build
        /\ \A d \in CR : cr'[d].gen = cr[d].gen
                       /\ (cr'[d].phase = "live" <=> cr[d].phase = "live")
    BY <1>3 DEF ReconcileChild, AdoptChild, ReleaseChild, BuildInv, TypeOK, Object
  <2> QED
    BY <2>1 DEF BuildInv, OwnAndMet, Observed, NoneLost, Taken, Live, ItemOf
<1>4. ASSUME NEW c \in CR, Create(c) \/ Edit(c) \/ Delete(c)
      PROVE  (OwnAndMet /\ Observed /\ NoneLost)'
  BY <1>4, ChangeKeeps DEF Create, Edit, Delete
<1>5. CASE UNCHANGED <<cr, build>>
  BY <1>5 DEF BuildInv, OwnAndMet, Observed, NoneLost, Taken, Live, ItemOf
<1>6. ASSUME NEW c \in Client, GenerateSecret(c) PROVE UNCHANGED <<cr, build>>
  BY <1>6 DEF GenerateSecret
<1>7. ASSUME NEW s \in Secret, ChangeSecret(s) PROVE UNCHANGED <<cr, build>>
  BY <1>7 DEF ChangeSecret
<1>8. CASE UNCHANGED vars
  BY <1>5, <1>8 DEF vars
<1> QED
  BY StepCases, ListKeeps, ExportKeeps, <1>1, <1>2, <1>3, <1>4, <1>5, <1>6, <1>7, <1>8

\* For any CRs, tenants and Secrets, and any edits meanwhile, a complete export holds
\* only its Realm's CRs, as they were at some moment of the sync, and all those that
\* were live throughout (BuildRealmExport).
THEOREM ExportsAreRegular == Spec => []RegularExport
<1>1. Init => OwnAndMet /\ Observed /\ NoneLost
  BY IdleBuild DEF Init
<1>2. TypeOK /\ OwnAndMet /\ Observed /\ NoneLost => RegularExport
  <2> SUFFICES ASSUME TypeOK, OwnAndMet, NoneLost, Built,
                      NEW c \in build.kept, RealmRef[c] = build.realm
               PROVE  \E e \in build.entries : e.item.cr = c
    BY DEF RegularExport, OwnAndMet
  <2>1. build.kind = 6 /\ build.listed = {} /\ c \in CR
    BY SixKinds DEF Built, TypeOK, Build
  <2>2. PICK k \in 1..6 : c \in Kinds[k]
    BY <2>1, SixKinds DEF CR
  <2> QED
    BY <2>1, <2>2 DEF NoneLost, Taken
<1> QED
  BY TypeCorrect, <1>1, <1>2, BuildStep, PTL DEF Spec, BuildInv
=============================================================================
