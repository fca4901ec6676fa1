------------------------- MODULE ClientCredentials -------------------------
(***************************************************************************)
(* Clients of several Realms in one namespace, and their credentials.      *)
(*                                                                         *)
(* The Client controller, one worker for all Clients, generates the Secret *)
(* <clientId>-secret of a confidential Client if there is none by that     *)
(* name, asks for a sync of the Realm CR that realmRef names, and writes   *)
(* the status of the Client with the copy it read at its start.  The       *)
(* export of a Realm CR holds the Clients whose realmRef equals its        *)
(* spec.realmName, each with the value of its Secret, and goes to the      *)
(* Keycloak realm of that name.  The garbage collector removes a Secret    *)
(* once the Client that owns it, told by its UID, is gone.                 *)
(*                                                                         *)
(* RealmSync has the steps between a sync and its import; here a sync      *)
(* stamps a payload, and one later step imports what is stamped and        *)
(* reports it.  Realm CRs are kept and objects are read as they are.       *)
(***************************************************************************)
EXTENDS Integers, FiniteSets

CONSTANTS
  Client,     \* names of Client CRs
  Realm,      \* names of Realm CRs, of Keycloak realms, and values of realmRef
  ClientId,   \* values of spec.clientId
  Public,     \* stands for the credential of a public Client
  Nothing,    \* stands for a Secret or a payload that is not there
  MaxLives,   \* bound: times a Client CR of a given name is created
  MaxGen,     \* bound: generations of a Client's spec
  MaxValue,   \* bound: credentials generated
  MaxCrashes  \* bound: losses of the operator

ASSUME CredentialAssumption ==
         /\ Client # {} /\ Realm # {} /\ ClientId # {}
         /\ Public \notin Nat
         /\ MaxLives \in Nat \ {0} /\ MaxGen \in Nat \ {0} /\ MaxValue \in Nat \ {0}
         /\ MaxCrashes \in Nat

VARIABLES
  realm,     \* the Realm CRs: existence, spec.realmName, status
  client,    \* the Client CRs
  secret,    \* the Secret <clientId>-secret of each clientId
  generated, \* number of credentials generated so far; each is new
  ctl,       \* the Client controller: step and local variables of Reconcile
  config,    \* payload stamped for each Realm CR
  keycloak,  \* the clients in each realm of Keycloak
  crashes    \* losses of the operator so far

vars == <<realm, client, secret, generated, ctl, config, keycloak, crashes>>

Phase == {"new", "live", "deleting", "gone"}
ClientSpec == [ref : Realm, id : ClientId, public : BOOLEAN]
Uid == Client \X (1..MaxLives)
Credential == (1..MaxValue) \cup {Public}

\* ref: the realmRef of the Client the entry was made from (not part of the export)
Entry == [ref : Realm, id : ClientId, cred : Credential]

\* synced: the Clients, by UID, whose deletion is earlier than status.lastSyncTime
RealmCR == [live : BOOLEAN, name : Realm, ready : BOOLEAN, synced : SUBSET Uid]

ClientCR == [phase : Phase, life : 0..MaxLives, spec : ClientSpec, gen : 0..MaxGen,
             fin : BOOLEAN, obsGen : 0..MaxGen,
             status : {"none", "pending", "failed"}]
Secret == [value : 1..MaxValue, owner : Uid]
Payload == [name : Realm, clients : SUBSET Entry]

\* obj: the Client read at the start of Reconcile
Control == [pc : {"idle", "secret", "trigger", "status", "fail"},
            c : Client, obj : ClientCR]

TypeOK ==
  /\ realm \in [Realm -> RealmCR]
  /\ client \in [Client -> ClientCR]
  /\ secret \in [ClientId -> Secret \cup {Nothing}]
  /\ generated \in 0..MaxValue
  /\ ctl \in Control
  /\ config \in [Realm -> Payload \cup {Nothing}]
  /\ keycloak \in [Realm -> SUBSET Entry]
  /\ crashes \in 0..MaxCrashes

NewClient == [phase |-> "new", life |-> 0,
              spec |-> CHOOSE s \in ClientSpec : TRUE, gen |-> 0,
              fin |-> FALSE, obsGen |-> 0, status |-> "none"]

Idle == [pc |-> "idle", c |-> CHOOSE c \in Client : TRUE, obj |-> NewClient]

Init ==
  /\ realm = [r \in Realm |-> [live |-> FALSE, name |-> r, ready |-> FALSE,
                               synced |-> {}]]
  /\ client = [c \in Client |-> NewClient]
  /\ secret = [i \in ClientId |-> Nothing]
  /\ generated = 0
  /\ ctl = Idle
  /\ config = [r \in Realm |-> Nothing]
  /\ keycloak = [r \in Realm |-> {}]
  /\ crashes = 0

UidOf(c) == <<c, client[c].life>>

(***************************************************************************)
(* The Client controller                                                   *)
(***************************************************************************)
AdoptClient(c) ==
  /\ ctl.pc = "idle"
  /\ client[c].phase = "live" /\ ~client[c].fin
  /\ client' = [client EXCEPT ![c].fin = TRUE]
  /\ UNCHANGED <<realm, secret, generated, ctl, config, keycloak, crashes>>

\* Mutant: a Client whose generation has been observed is not synced again.
BeginSyncUnlessObserved(c) ==
  /\ ctl.pc = "idle"
  /\ client[c].phase = "live" /\ client[c].fin /\ client[c].obsGen # client[c].gen
  /\ ctl' = [pc |-> "secret", c |-> c, obj |-> client[c]]
  /\ UNCHANGED <<realm, client, secret, generated, config, keycloak, crashes>>

BeginSync(c) ==
  /\ ctl.pc = "idle"
  /\ client[c].phase = "live" /\ client[c].fin
  /\ ctl' = [pc |-> "secret", c |-> c, obj |-> client[c]]
  /\ UNCHANGED <<realm, client, secret, generated, config, keycloak, crashes>>

Goto(step) == ctl' = [ctl EXCEPT !.pc = step]

\* Mutant: the owner reference lacks the UID.
GeneratedWithoutUid(c) == [value |-> generated + 1, owner |-> c]

GeneratedFor(c) == [value |-> generated + 1, owner |-> <<c, ctl.obj.life>>]

\* Mutant: the Secret is generated at every sync.
AlwaysMissing == ~ctl.obj.spec.public
\* Mutant: a Secret is generated only once.
MissingUnlessObserved ==
  ~ctl.obj.spec.public /\ secret[ctl.obj.spec.id] = Nothing /\ ctl.obj.obsGen = 0

MissingSecret == ~ctl.obj.spec.public /\ secret[ctl.obj.spec.id] = Nothing

\* A Secret by that name that is there already is taken as it is, whoever owns it.
EnsureSecret ==
  /\ ctl.pc = "secret"
  /\ IF MissingSecret
       THEN /\ generated < MaxValue
            /\ secret' = [secret EXCEPT ![ctl.obj.spec.id] = GeneratedFor(ctl.c)]
            /\ generated' = generated + 1
       ELSE UNCHANGED <<secret, generated>>
  /\ Goto("trigger")
  /\ UNCHANGED <<realm, client, config, keycloak, crashes>>

\* The annotation itself is left out: a Realm may be synced at any time.
TriggerRealmSync ==
  /\ ctl.pc = "trigger"
  /\ Goto(IF realm[ctl.obj.spec.ref].live THEN "status" ELSE "fail")
  /\ UNCHANGED <<realm, client, secret, generated, config, keycloak, crashes>>

\* Status().Update with the copy read at the start: a conflict if the Client was
\* edited or deleted since.
Unchanged == client[ctl.c].phase = "live" /\ client[ctl.c].gen = ctl.obj.gen

WriteStatus ==
  /\ ctl.pc = "status"
  /\ IF Unchanged
       THEN /\ client' = [client EXCEPT ![ctl.c].status = "pending",
                                        ![ctl.c].obsGen = ctl.obj.gen]
            /\ ctl' = Idle
       ELSE /\ UNCHANGED client
            /\ Goto("fail")
  /\ UNCHANGED <<realm, secret, generated, config, keycloak, crashes>>

\* UpdateStatusWithRetry: the failure is written to the latest object, with its
\* generation.
WriteFailure ==
  /\ ctl.pc = "fail"
  /\ client' = [client EXCEPT ![ctl.c].status = "failed",
                              ![ctl.c].obsGen = client[ctl.c].gen]
  /\ ctl' = Idle
  /\ UNCHANGED <<realm, secret, generated, config, keycloak, crashes>>

IsSafelyDeleted(c) ==
  LET r == realm[client[c].spec.ref]
  IN  r.live => r.ready /\ UidOf(c) \in r.synced

ReleaseClient(c) ==
  /\ ctl.pc = "idle"
  /\ client[c].phase = "deleting"
  /\ IsSafelyDeleted(c)
  /\ client' = [client EXCEPT ![c] = [NewClient EXCEPT !.phase = "gone",
                                                       !.life = client[c].life]]
  /\ UNCHANGED <<realm, secret, generated, ctl, config, keycloak, crashes>>

\* The operator is lost in the middle of a Reconcile; the next one starts anew.
Crash ==
  /\ ctl.pc # "idle" /\ crashes < MaxCrashes
  /\ ctl' = Idle
  /\ crashes' = crashes + 1
  /\ UNCHANGED <<realm, client, secret, generated, config, keycloak>>

(***************************************************************************)
(* The Realm controller, as far as Clients are concerned                   *)
(***************************************************************************)
\* Mutant: the Clients that name the Realm CR.
MembersByName(r) == {c \in Client : client[c].phase = "live" /\ client[c].spec.ref = r}

Members(r) ==
  {c \in Client : client[c].phase = "live" /\ client[c].spec.ref = realm[r].name}

CanExport(r) ==
  \A c \in Members(r) : client[c].spec.public \/ secret[client[c].spec.id] # Nothing

EntryOf(c) ==
  [ref |-> client[c].spec.ref, id |-> client[c].spec.id,
   cred |-> IF client[c].spec.public THEN Public ELSE secret[client[c].spec.id].value]

BuildRealmExport(r) == [name |-> realm[r].name, clients |-> {EntryOf(c) : c \in Members(r)}]

\* A payload that is not stamped yet makes the Realm pending.
SyncRealm(r) ==
  /\ realm[r].live
  /\ IF CanExport(r)
       THEN /\ config' = [config EXCEPT ![r] = BuildRealmExport(r)]
            /\ realm' = [realm EXCEPT ![r].ready = @ /\ config'[r] = config[r]]
       ELSE /\ realm' = [realm EXCEPT ![r].ready = FALSE]
            /\ UNCHANGED config
  /\ UNCHANGED <<client, secret, generated, ctl, keycloak, crashes>>

\* A Job imports what is stamped, into the realm named in it, and its success is
\* reported: Ready, with a LastSyncTime later than the deletions so far.
Import(r) ==
  /\ realm[r].live /\ config[r] # Nothing
  /\ keycloak' = [keycloak EXCEPT ![config[r].name] = config[r].clients]
  /\ realm' = [realm EXCEPT ![r].ready = TRUE,
                 ![r].synced = {UidOf(c) : c \in {d \in Client : client[d].phase = "deleting"}}]
  /\ UNCHANGED <<client, secret, generated, ctl, config, crashes>>

(***************************************************************************)
(* Garbage collector and users                                             *)
(***************************************************************************)
Gone(uid) == client[uid[1]].phase = "gone" \/ client[uid[1]].life # uid[2]

CollectSecret(i) ==
  /\ secret[i] # Nothing /\ Gone(secret[i].owner)
  /\ secret' = [secret EXCEPT ![i] = Nothing]
  /\ UNCHANGED <<realm, client, generated, ctl, config, keycloak, crashes>>

CreateRealm(r) ==
  /\ ~realm[r].live
  /\ \E name \in Realm : realm' = [realm EXCEPT ![r].live = TRUE, ![r].name = name]
  /\ UNCHANGED <<client, secret, generated, ctl, config, keycloak, crashes>>

CreateClient(c) ==
  /\ client[c].phase \in {"new", "gone"} /\ client[c].life < MaxLives
  /\ \E spec \in ClientSpec :
       client' = [client EXCEPT ![c] = [NewClient EXCEPT !.phase = "live",
                    !.life = client[c].life + 1, !.spec = spec, !.gen = 1]]
  /\ UNCHANGED <<realm, secret, generated, ctl, config, keycloak, crashes>>

\* publicClient and clientId may be edited; realmRef is kept, as docs/UPGRADE.md asks.
EditClient(c) ==
  /\ client[c].phase = "live" /\ client[c].gen < MaxGen
  /\ \E spec \in [ref : {client[c].spec.ref}, id : ClientId, public : BOOLEAN] :
       client' = [client EXCEPT ![c].spec = spec, ![c].gen = @ + 1]
  /\ UNCHANGED <<realm, secret, generated, ctl, config, keycloak, crashes>>

DeleteClient(c) ==
  /\ client[c].phase = "live"
  /\ client' = [client EXCEPT ![c] =
                  IF client[c].fin
                    THEN [client[c] EXCEPT !.phase = "deleting"]
                    ELSE [NewClient EXCEPT !.phase = "gone", !.life = client[c].life]]
  /\ UNCHANGED <<realm, secret, generated, ctl, config, keycloak, crashes>>

(***************************************************************************)
(* Specification                                                           *)
(***************************************************************************)
Reconcile(c) == AdoptClient(c) \/ BeginSync(c) \/ ReleaseClient(c)

ContinueSync == EnsureSecret \/ TriggerRealmSync \/ WriteStatus \/ WriteFailure

Next ==
  \/ \E c \in Client : Reconcile(c)
  \/ ContinueSync \/ Crash
  \/ \E r \in Realm : SyncRealm(r) \/ Import(r) \/ CreateRealm(r)
  \/ \E i \in ClientId : CollectSecret(i)
  \/ \E c \in Client : CreateClient(c) \/ EditClient(c) \/ DeleteClient(c)

Spec == Init /\ [][Next]_vars

\* The work queue serves every Client again and again, whatever the worker does in
\* between (CheckInterval, requeueDelay), every Realm is reconciled every five
\* minutes, a stamped payload is imported, and the garbage collector runs.
Fairness ==
  /\ \A c \in Client : SF_vars(Reconcile(c))
  /\ WF_vars(ContinueSync)
  /\ \A r \in Realm : WF_vars(SyncRealm(r)) /\ WF_vars(Import(r))
  /\ \A i \in ClientId : WF_vars(CollectSecret(i))

FairSpec == Spec /\ Fairness

(***************************************************************************)
(* Properties                                                              *)
(***************************************************************************)
\* A realm of Keycloak holds only Clients whose realmRef is that realm, whatever
\* the names of the Realm CRs and whichever Clients share a clientId
\* (BuildRealmExport filters by spec.realmName).
TenantIsolation == \A k \in Realm : \A e \in keycloak[k] : e.ref = k

\* A credential is changed or removed only once the Client CR it was generated for
\* is gone: neither later syncs nor edits nor other Clients of the same clientId
\* touch it (sync generates only what is missing, SetOwnerReference).
OwnedSecretKept ==
  [][\A i \in ClientId :
       secret[i] # Nothing /\ secret'[i] # secret[i] => Gone(secret[i].owner)]_vars

Confidential(c) == client[c].phase = "live" /\ ~client[c].spec.public

\* In the end Keycloak holds, for every confidential Client whose realmRef is the
\* spec.realmName of a Realm CR, the credential that applications read from the
\* Secret, even if the Secret was another Client's and went with it.
CredentialsConverge ==
  <>[](\A c \in Client : \A r \in Realm :
         Confidential(c) /\ realm[r].live /\ realm[r].name = client[c].spec.ref
           => /\ secret[client[c].spec.id] # Nothing
              /\ EntryOf(c) \in keycloak[client[c].spec.ref])

\* A Client whose realmRef names a Realm CR does not stay failed: conflicts and
\* errors of a sync give way to "pending" for the current generation.
StatusSettles ==
  <>[](\A c \in Client :
         client[c].phase = "live" /\ realm[client[c].spec.ref].live
           => client[c].status = "pending" /\ client[c].obsGen = client[c].gen)

\* What api/v1alpha1/client_types.go:11 says of realmRef, "the name of the target
\* Realm CR": a confidential Client ends up in the realm of the Realm CR it names.
\* The export compares realmRef with spec.realmName instead.
RefNamesRealmCR ==
  <>[](\A c \in Client :
         LET r == client[c].spec.ref
         IN  Confidential(c) /\ realm[r].live
               => \E e \in keycloak[realm[r].name] : e.id = client[c].spec.id)
=============================================================================
