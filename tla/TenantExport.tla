---------------------------- MODULE TenantExport ----------------------------
(***************************************************************************)
(* The exports of several Realms, the tenants, from the CRs of one         *)
(* namespace.                                                              *)
(*                                                                         *)
(* The Realm controller has one worker for all Realms.  To sync one it     *)
(* lists the CRs of the namespace kind by kind, takes the live ones of the *)
(* Realm and resolves the Secrets they refer to, one CR after another; the *)
(* export is stamped once it is complete.  Users, the six child            *)
(* controllers and the owners of the Secrets go on meanwhile, so that an   *)
(* export mixes lists and Secrets of different moments.  A Secret that is  *)
(* missing, and a live CR of any tenant with an empty realmRef, left over  *)
(* from before admission refused it, make the sync fail.                   *)
(*                                                                         *)
(* What becomes of a stamped export is in RealmSync: here a later sync of  *)
(* the same export may report it as imported.  The Realm CRs exist, their  *)
(* metadata.name is their spec.realmName (see ClientCredentials), and the  *)
(* annotation that hastens a sync is left out: a Realm may be synced at    *)
(* any time.                                                               *)
(***************************************************************************)
EXTENDS Naturals, Sequences

CONSTANTS
  Client, ClientScope, Group, User, AuthFlow, IdentityProvider, \* CRs by kind
  Realm,      \* the Realm CRs
  Secret,     \* the Secrets the CRs refer to
  Nothing,    \* the empty realmRef; no Realm
  RealmRef,   \* spec.realmRef of each CR
  SecretRefs, \* the Secrets each CR refers to
  Existing,   \* CRs that are there, with their finalizer, from the start
  MaxGen,     \* bound: generations of a CR's spec
  MaxEvents   \* bound: edits by users and losses of the operator

\* The kinds in the order in which the builder lists them.
Kinds == <<Client, ClientScope, Group, User, AuthFlow, IdentityProvider>>
CR == UNION {Kinds[k] : k \in 1..Len(Kinds)}

ASSUME TenantAssumption ==
         /\ Nothing \notin Realm
         /\ RealmRef \in [CR -> Realm \cup {Nothing}]
         /\ SecretRefs \in [CR -> SUBSET Secret]
         /\ Existing \subseteq CR
         /\ MaxGen \in Nat \ {0}
         /\ MaxEvents \in Nat

VARIABLES
  cr,       \* the CRs
  secrets,  \* the Secrets: missing, there without the key, or usable
  build,    \* the sync under way: its Realm and the export so far
  config,   \* the export stamped for each Realm
  status,   \* the status of each Realm
  events    \* edits and losses so far

vars == <<cr, secrets, build, config, status, events>>

(***************************************************************************)
(* Types                                                                   *)
(***************************************************************************)
Object == [phase : {"new", "live", "deleting", "gone"}, fin : BOOLEAN, gen : 1..MaxGen]
NewObject == [phase |-> "new", fin |-> FALSE, gen |-> 1]

SecretState == {"missing", "keyless", "usable"}

\* A CR as listed, and as exported with the keys found.
Item == [cr : CR, gen : 1..MaxGen]
Entry == [item : Item, keys : SUBSET Secret]

\* kind: the lists read so far; listed: CRs of the last one still to be exported.
\* Auxiliary: met, the items that were live at some moment since the sync began, and
\* kept, the CRs that were live all along.
Build == [realm : Realm \cup {Nothing}, kind : 0..Len(Kinds),
          listed : SUBSET Item, entries : SUBSET Entry,
          met : SUBSET Item, kept : SUBSET CR]
NoBuild == [realm |-> Nothing, kind |-> 0, listed |-> {}, entries |-> {},
            met |-> {}, kept |-> {}]

\* synced: the CRs whose deletion is earlier than status.lastSyncTime
RealmStatus == [ready : BOOLEAN, synced : SUBSET CR]

TypeOK ==
  /\ cr \in [CR -> Object]
  /\ secrets \in [Secret -> SecretState]
  /\ build \in Build
  /\ config \in [Realm -> SUBSET Entry]
  /\ status \in [Realm -> RealmStatus]
  /\ events \in 0..MaxEvents

Init ==
  /\ cr = [c \in CR |-> IF c \in Existing THEN [phase |-> "live", fin |-> TRUE, gen |-> 1]
                                          ELSE NewObject]
  /\ secrets \in [Secret -> {"missing", "usable"}]
  /\ build = NoBuild
  /\ config = [r \in Realm |-> {}]
  /\ status = [r \in Realm |-> [ready |-> FALSE, synced |-> {}]]
  /\ events = 0

(***************************************************************************)
(* BuildRealmExport                                                        *)
(***************************************************************************)
Live(cs) == {c \in cs : cr[c].phase = "live"}

ItemOf(c) == [cr |-> c, gen |-> cr[c].gen]

\* Mutants: the CRs of every tenant; those that are being deleted as well.
OfAnyRealm(cs) == {ItemOf(c) : c \in Live(cs)}
OfRealmWithDeleted(cs) ==
  {ItemOf(c) : c \in {d \in cs : cr[d].phase \in {"live", "deleting"}
                                  /\ RealmRef[d] = build.realm}}

OfRealm(cs) == {ItemOf(c) : c \in {d \in Live(cs) : RealmRef[d] = build.realm}}

BeginSync(r) ==
  /\ build.realm = Nothing
  /\ build' = [NoBuild EXCEPT !.realm = r, !.met = {ItemOf(c) : c \in Live(CR)},
                               !.kept = Live(CR)]
  /\ UNCHANGED <<cr, secrets, config, status, events>>

\* Mutant: LastSyncTime is not set.
Undated(ready) == [ready |-> ready, synced |-> {}]

\* Every status write sets LastSyncTime.
Dated(ready) == [ready |-> ready, synced |-> {c \in CR : cr[c].phase = "deleting"}]

\* Mutant: the worker is not given back.
FailAndHang == /\ status' = [status EXCEPT ![build.realm] = Dated(FALSE)]
               /\ UNCHANGED build

Fail == /\ status' = [status EXCEPT ![build.realm] = Dated(FALSE)]
        /\ build' = NoBuild

\* requireRealmRef is asked of every live CR, before its realmRef is compared.
ListKind ==
  /\ build.realm # Nothing
  /\ build.listed = {} /\ build.kind < Len(Kinds)
  /\ LET cs == Kinds[build.kind + 1]
     IN  IF \E c \in Live(cs) : RealmRef[c] = Nothing
           THEN Fail
           ELSE /\ build' = [build EXCEPT !.kind = @ + 1, !.listed = OfRealm(cs)]
                /\ UNCHANGED status
  /\ UNCHANGED <<cr, secrets, config, events>>

\* A Secret must exist; its key may be lacking, except for a User's password.
Resolved(c) ==
  \A s \in SecretRefs[c] :
    secrets[s] = "usable" \/ (secrets[s] = "keyless" /\ c \notin User)

\* Mutant: the entry lacks the spec.
EntryOfName(i) ==
  [item |-> i.cr, keys |-> {s \in SecretRefs[i.cr] : secrets[s] = "usable"}]

EntryOf(i) ==
  [item |-> i, keys |-> {s \in SecretRefs[i.cr] : secrets[s] = "usable"}]

ExportItem ==
  /\ \E i \in build.listed :
       IF Resolved(i.cr)
         THEN /\ build' = [build EXCEPT !.listed = @ \ {i}, !.entries = @ \cup {EntryOf(i)}]
              /\ UNCHANGED status
         ELSE Fail
  /\ UNCHANGED <<cr, secrets, config, events>>

(***************************************************************************)
(* What the Realm controller does with a complete export                   *)
(***************************************************************************)
Built == build.kind = Len(Kinds) /\ build.listed = {}

Restamped == config[build.realm] # build.entries

\* New, or five minutes after the last stamp; a Job that fails ends likewise.
StampExport ==
  /\ Built
  /\ config' = [config EXCEPT ![build.realm] = build.entries]
  /\ status' = [status EXCEPT ![build.realm] = Dated(FALSE)]
  /\ build' = NoBuild
  /\ UNCHANGED <<cr, secrets, events>>

\* The export is the stamped one, and its Job is still running or was reported.
SkipSync ==
  /\ Built /\ ~Restamped
  /\ build' = NoBuild
  /\ UNCHANGED <<cr, secrets, config, status, events>>

\* The export is the stamped one, and its Job has completed.
ReportReady ==
  /\ Built /\ ~Restamped
  /\ status' = [status EXCEPT ![build.realm] = Dated(TRUE)]
  /\ build' = NoBuild
  /\ UNCHANGED <<cr, secrets, config, events>>

(***************************************************************************)
(* The child controllers                                                   *)
(***************************************************************************)
AdoptChild(c) ==
  /\ cr[c].phase = "live" /\ ~cr[c].fin
  /\ cr' = [cr EXCEPT ![c].fin = TRUE]
  /\ UNCHANGED <<secrets, build, config, status, events>>

\* With an empty realmRef this is an error, and the CR stays.
IsSafelyDeleted(c) ==
  /\ RealmRef[c] # Nothing
  /\ status[RealmRef[c]].ready /\ c \in status[RealmRef[c]].synced

ReleaseChild(c) ==
  /\ cr[c].phase = "deleting"
  /\ IsSafelyDeleted(c)
  /\ cr' = [cr EXCEPT ![c].phase = "gone", ![c].fin = FALSE]
  /\ UNCHANGED <<secrets, build, config, status, events>>

ReconcileChild(c) == AdoptChild(c) \/ ReleaseChild(c)

\* The sync of a Client generates its Secret if there is none; that of the other
\* kinds only annotates the Realm, as a deletion that has to wait does.  The status
\* that a sync writes last is read by no handler and left out.
GenerateSecret(c) ==
  /\ cr[c].phase = "live" /\ cr[c].fin /\ RealmRef[c] # Nothing
  /\ \E s \in SecretRefs[c] :
       /\ secrets[s] = "missing"
       /\ secrets' = [secrets EXCEPT ![s] = "usable"]
  /\ UNCHANGED <<cr, build, config, status, events>>

(***************************************************************************)
(* Users and the loss of the operator                                      *)
(***************************************************************************)
Event == events < MaxEvents /\ events' = events + 1

\* Every change of what is live is noted for the build under way.
Watch(objects) ==
  LET live == {c \in CR : objects[c].phase = "live"}
  IN  build' = IF build.realm = Nothing THEN build
               ELSE [build EXCEPT
                       !.met = @ \cup {[cr |-> c, gen |-> objects[c].gen] : c \in live},
                       !.kept = @ \cap live]

\* Admission refuses an empty realmRef.
Create(c) ==
  /\ cr[c].phase = "new" /\ RealmRef[c] # Nothing
  /\ Event
  /\ cr' = [cr EXCEPT ![c].phase = "live"]
  /\ Watch(cr')
  /\ UNCHANGED <<secrets, config, status>>

Edit(c) ==
  /\ cr[c].phase = "live" /\ RealmRef[c] # Nothing /\ cr[c].gen < MaxGen
  /\ Event
  /\ cr' = [cr EXCEPT ![c].gen = @ + 1]
  /\ Watch(cr')
  /\ UNCHANGED <<secrets, config, status>>

Delete(c) ==
  /\ cr[c].phase = "live"
  /\ Event
  /\ cr' = [cr EXCEPT ![c].phase = IF cr[c].fin THEN "deleting" ELSE "gone"]
  /\ Watch(cr')
  /\ UNCHANGED <<secrets, config, status>>

ChangeSecret(s) ==
  /\ Event
  /\ \E state \in SecretState \ {secrets[s]} : secrets' = [secrets EXCEPT ![s] = state]
  /\ UNCHANGED <<cr, build, config, status>>

Crash ==
  /\ build.realm # Nothing
  /\ Event
  /\ build' = NoBuild
  /\ UNCHANGED <<cr, secrets, config, status>>

(***************************************************************************)
(* Specification                                                           *)
(***************************************************************************)
FinishSync == StampExport \/ SkipSync \/ ReportReady

ContinueSync == ListKind \/ ExportItem \/ FinishSync

RealmController == ContinueSync \/ \E r \in Realm : BeginSync(r)

ClientController == \E c \in Client : ReconcileChild(c) \/ GenerateSecret(c)
ClientScopeController == \E c \in ClientScope : ReconcileChild(c)
GroupController == \E c \in Group : ReconcileChild(c)
UserController == \E c \in User : ReconcileChild(c)
AuthFlowController == \E c \in AuthFlow : ReconcileChild(c)
IdentityProviderController == \E c \in IdentityProvider : ReconcileChild(c)

Users ==
  \/ \E c \in CR : Create(c) \/ Edit(c) \/ Delete(c)
  \/ \E s \in Secret : ChangeSecret(s)

Next ==
  \/ RealmController
  \/ ClientController \/ ClientScopeController \/ GroupController
  \/ UserController \/ AuthFlowController \/ IdentityProviderController
  \/ Users \/ Crash

Spec == Init /\ [][Next]_vars

\* The worker goes on; the work queue hands it every Realm again and again, and a
\* Job that has completed is met by some sync (RealmSync).  The child controllers
\* keep polling: a CR that can be released is not passed over for ever.
Fairness ==
  /\ WF_vars(ContinueSync)
  /\ \A r \in Realm : SF_vars(BeginSync(r)) /\ SF_vars(ReportReady /\ build.realm = r)
  /\ SF_vars(\E c \in CR : ReleaseChild(c))
  /\ WF_vars(\E c \in Client : GenerateSecret(c))

FairSpec == Spec /\ Fairness

(***************************************************************************)
(* Properties                                                              *)
(***************************************************************************)
\* Although its six lists are read at different moments, with edits, deletions and
\* other tenants' CRs in between, a complete export holds only specs of its own
\* Realm that were live while it was built, and every CR of the Realm that was live
\* all that time (BuildRealmExport).
RegularExport ==
  Built =>
    /\ \A e \in build.entries : RealmRef[e.item.cr] = build.realm /\ e.item \in build.met
    /\ \A c \in build.kept :
         RealmRef[c] = build.realm => \E e \in build.entries : e.item.cr = c

Desired(r) == {EntryOf(ItemOf(c)) : c \in {d \in CR : cr[d].phase = "live" /\ RealmRef[d] = r}}

\* What the operator cannot mend itself: the passwords of the Realm's own Users, the
\* Secrets of its identity providers, and CRs with an empty realmRef, of anyone.
Sound(r) ==
  /\ \A c \in CR : RealmRef[c] = Nothing => cr[c].phase # "live"
  /\ \A c \in User \cup IdentityProvider :
       cr[c].phase = "live" /\ RealmRef[c] = r => Resolved(c)

\* A tenant whose own CRs are sound ends up with an export of exactly its live CRs,
\* their latest specs and the keys of their Secrets, whatever is wrong with the CRs
\* and Secrets of the others, who share its worker (BuildRealmExport).
TenantConverges ==
  \A r \in Realm : <>[]Sound(r) => <>[](config[r] = Desired(r))

\* Likewise its deletions complete: no other tenant's failing sync keeps a CR of a
\* sound tenant in deletion (IsSafelyDeletedFromRealm).
TenantDeletes ==
  \A r \in Realm :
    <>[]Sound(r) => <>[](\A c \in CR : RealmRef[c] = r => cr[c].phase # "deleting")
=============================================================================
