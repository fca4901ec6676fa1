---------------------- MODULE ClientCredentialsProofs ----------------------
(***************************************************************************)
(* Theorems about ClientCredentials, for any Clients, Realms and bounds.   *)
(***************************************************************************)
EXTENDS ClientCredentials, TLAPS

Step == [Next]_vars

(***************************************************************************)
(* Types                                                                   *)
(***************************************************************************)
\* A Client that exists, or that a Reconcile works on, has been created: its UID
\* is one that a Secret may be owned by.
HasUid ==
  /\ \A c \in Client : client[c].phase \in {"live", "deleting"} => client[c].life # 0
  /\ ctl.pc # "idle" => ctl.obj.life # 0

TypeInv == TypeOK /\ HasUid

LEMMA NewClientType == NewClient \in ClientCR /\ NewClient.phase = "new"
<1>1. \E s \in ClientSpec : TRUE
  <2>1. PICK r \in Realm, i \in ClientId : TRUE
    BY CredentialAssumption
  <2>2. [ref |-> r, id |-> i, public |-> TRUE] \in ClientSpec
    BY <2>1 DEF ClientSpec
  <2> QED
    BY <2>2
<1> QED
  BY <1>1, CredentialAssumption DEF NewClient, ClientCR, Phase

LEMMA IdleType == Idle \in Control /\ Idle.pc = "idle"
<1>1. \E c \in Client : TRUE
  BY CredentialAssumption
<1> QED
  BY <1>1, NewClientType DEF Idle, Control

LEMMA InitTypes == Init => TypeInv
<1> SUFFICES ASSUME Init PROVE TypeInv
  OBVIOUS
<1>1. TypeOK
  BY NewClientType, IdleType, CredentialAssumption
     DEF Init, TypeOK, RealmCR
<1>2. HasUid
  BY NewClientType, IdleType DEF Init, HasUid
<1> QED
  BY <1>1, <1>2 DEF TypeInv

\* A Client that changes is again one, and has a UID if it exists.
LEMMA ClientStep ==
  ASSUME TypeInv, NEW c \in Client, NEW cr \in ClientCR,
         cr.phase \in {"live", "deleting"} => cr.life # 0,
         client' = [client EXCEPT ![c] = cr],
         ctl' = ctl \/ ctl' = Idle,
         UNCHANGED <<realm, secret, generated, config, keycloak, crashes>>
  PROVE  TypeInv'
<1>1. TypeOK'
  BY IdleType DEF TypeInv, TypeOK
<1>2. HasUid'
  BY IdleType DEF TypeInv, TypeOK, HasUid
<1> QED
  BY <1>1, <1>2 DEF TypeInv

LEMMA RealmFields ==
  ASSUME NEW rr \in RealmCR, NEW live \in BOOLEAN, NEW name \in Realm,
         NEW ready \in BOOLEAN, NEW synced \in SUBSET Uid
  PROVE  /\ [rr EXCEPT !.live = live, !.name = name] \in RealmCR
         /\ [rr EXCEPT !.ready = ready, !.synced = synced] \in RealmCR
<1>1. [rr EXCEPT !.live = live] \in RealmCR
  BY DEF RealmCR
<1>2. \A q \in RealmCR : [q EXCEPT !.name = name] \in RealmCR
  BY DEF RealmCR
<1>3. [rr EXCEPT !.ready = ready] \in RealmCR
  BY DEF RealmCR
<1>4. \A q \in RealmCR : [q EXCEPT !.synced = synced] \in RealmCR
  BY DEF RealmCR
<1>5. [rr EXCEPT !.live = live, !.name = name] \in RealmCR
  BY <1>1, <1>2
<1>6. [rr EXCEPT !.ready = ready, !.synced = synced] \in RealmCR
  BY <1>3, <1>4
<1> QED
  BY <1>5, <1>6

\* The worker goes on to another step.
LEMMA WorkerStep ==
  ASSUME TypeInv, ctl.pc # "idle" \/ ctl'.pc = "idle",
         NEW pc \in {"trigger", "status", "fail"},
         ctl' = [ctl EXCEPT !.pc = pc],
         UNCHANGED <<realm, client, config, keycloak, crashes>>,
         secret' \in [ClientId -> Secret \cup {Nothing}], generated' \in 0..MaxValue
  PROVE  TypeInv'
<1>1. ctl' \in Control /\ ctl'.obj = ctl.obj /\ ctl'.pc = pc
  BY DEF TypeInv, TypeOK, Control
<1>2. TypeOK'
  BY <1>1 DEF TypeInv, TypeOK
<1>3. HasUid'
  BY <1>1 DEF TypeInv, HasUid
<1> QED
  BY <1>2, <1>3 DEF TypeInv

LEMMA StepTypes == TypeInv /\ Step => TypeInv'
<1> SUFFICES ASSUME TypeInv, Step
             PROVE  TypeInv'
  OBVIOUS
<1> USE CredentialAssumption
<1>a. \A c \in Client : client[c] \in ClientCR
  BY DEF TypeInv, TypeOK
<1>b. ctl.c \in Client /\ ctl.obj \in ClientCR
  BY DEF TypeInv, TypeOK, Control
<1>c. \A r \in Realm : realm[r] \in RealmCR
  BY DEF TypeInv, TypeOK
<1>1. ASSUME NEW c \in Client, AdoptClient(c) PROVE TypeInv'
  <2> DEFINE cr == [client[c] EXCEPT !.fin = TRUE]
  <2>1. cr \in ClientCR /\ cr.phase = client[c].phase /\ cr.life = client[c].life
    BY <1>a DEF ClientCR
  <2>2. client' = [client EXCEPT ![c] = cr]
    BY <1>1 DEF AdoptClient
  <2> HIDE DEF cr
  <2> QED
    BY <1>1, <2>1, <2>2, ClientStep DEF AdoptClient, TypeInv, HasUid
<1>2. ASSUME NEW c \in Client, BeginSync(c) PROVE TypeInv'
  <2>1. ctl' \in Control /\ ctl'.obj.life # 0
    BY <1>2, <1>a DEF BeginSync, Control, TypeInv, HasUid
  <2> QED
    BY <1>2, <2>1 DEF BeginSync, TypeInv, TypeOK, HasUid
<1>3. CASE EnsureSecret
  <2>1. CASE MissingSecret
    <3>1. GeneratedFor(ctl.c) \in Secret
      BY <1>3, <1>b, <2>1
         DEF EnsureSecret, GeneratedFor, Secret, Uid, TypeInv, TypeOK, HasUid, ClientCR
    <3> QED
      BY <1>3, <2>1, <3>1, WorkerStep DEF EnsureSecret, Goto, TypeInv, TypeOK
  <2>2. CASE ~MissingSecret
    BY <1>3, <2>2, WorkerStep DEF EnsureSecret, Goto, TypeInv, TypeOK
  <2> QED
    BY <2>1, <2>2
<1>4. CASE TriggerRealmSync
  BY <1>4, WorkerStep DEF TriggerRealmSync, Goto, TypeInv, TypeOK
<1>5. CASE WriteStatus
  <2>1. CASE Unchanged
    <3> DEFINE cr == [client[ctl.c] EXCEPT !.status = "pending", !.obsGen = ctl.obj.gen]
    <3>1. cr \in ClientCR /\ cr.phase = client[ctl.c].phase /\ cr.life = client[ctl.c].life
      BY <1>a, <1>b DEF ClientCR
    <3>2. client' = [client EXCEPT ![ctl.c] = cr]
      BY <1>5, <1>b, <2>1 DEF WriteStatus, TypeInv, TypeOK
    <3> HIDE DEF cr
    <3> QED
      BY <1>5, <1>b, <2>1, <3>1, <3>2, ClientStep DEF WriteStatus, TypeInv, HasUid
  <2>2. CASE ~Unchanged
    BY <1>5, <2>2, WorkerStep DEF WriteStatus, Goto, TypeInv, TypeOK
  <2> QED
    BY <2>1, <2>2
<1>6. CASE WriteFailure
  <2> DEFINE cr == [client[ctl.c] EXCEPT !.status = "failed", !.obsGen = client[ctl.c].gen]
  <2>1. cr \in ClientCR /\ cr.phase = client[ctl.c].phase /\ cr.life = client[ctl.c].life
    BY <1>a, <1>b DEF ClientCR
  <2>2. client' = [client EXCEPT ![ctl.c] = cr]
    BY <1>6, <1>b DEF WriteFailure, TypeInv, TypeOK
  <2> HIDE DEF cr
  <2> QED
    BY <1>6, <1>b, <2>1, <2>2, ClientStep DEF WriteFailure, TypeInv, HasUid
<1>7. CASE Crash
  BY <1>7, IdleType DEF Crash, TypeInv, TypeOK, HasUid
<1>8. ASSUME NEW c \in Client, ReleaseClient(c) \/ DeleteClient(c) PROVE TypeInv'
  <2> DEFINE gone == [NewClient EXCEPT !.phase = "gone", !.life = client[c].life]
             deleting == [client[c] EXCEPT !.phase = "deleting"]
  <2>1. gone \in ClientCR /\ gone.phase = "gone"
    BY <1>a, NewClientType DEF ClientCR, Phase
  <2>2. /\ deleting \in ClientCR
        /\ DeleteClient(c) => deleting.life # 0
    BY <1>a DEF ClientCR, Phase, DeleteClient, TypeInv, HasUid
  <2>3. \/ client' = [client EXCEPT ![c] = gone]
        \/ DeleteClient(c) /\ client' = [client EXCEPT ![c] = deleting]
    <3>1. CASE ReleaseClient(c)
      BY <3>1 DEF ReleaseClient
    <3>2. CASE DeleteClient(c) /\ client[c].fin
      BY <3>2 DEF DeleteClient
    <3>3. CASE DeleteClient(c) /\ ~client[c].fin
      BY <3>3 DEF DeleteClient
    <3> QED
      BY <1>8, <3>1, <3>2, <3>3
  <2> HIDE DEF gone, deleting
  <2> QED
    BY <1>8, <2>1, <2>2, <2>3, ClientStep DEF ReleaseClient, DeleteClient
<1>9. ASSUME NEW r \in Realm, SyncRealm(r) PROVE TypeInv'
  <2>1. realm' \in [Realm -> RealmCR]
    <3>1. \A b \in BOOLEAN : [realm[r] EXCEPT !.ready = b] \in RealmCR
      BY DEF TypeInv, TypeOK, RealmCR
    <3>2. \E b \in BOOLEAN : realm' = [realm EXCEPT ![r] = [realm[r] EXCEPT !.ready = b]]
      <4>1. CASE CanExport(r)
        <5> DEFINE b == realm[r].ready /\ config'[r] = config[r]
        <5>1. realm' = [realm EXCEPT ![r].ready = b]
          BY <1>9, <4>1 DEF SyncRealm
        <5> HIDE DEF b
        <5>2. realm' = [realm EXCEPT ![r] = [realm[r] EXCEPT !.ready = b]]
          BY <5>1
        <5>3. b \in BOOLEAN
          BY DEF b
        <5> QED
          BY <5>2, <5>3
      <4>2. CASE ~CanExport(r)
        BY <1>9, <4>2 DEF SyncRealm
      <4> QED
        BY <4>1, <4>2
    <3> QED
      BY <3>1, <3>2 DEF TypeInv, TypeOK
  <2>2. config' \in [Realm -> Payload \cup {Nothing}]
    <3>1. CASE CanExport(r)
      <4>1. \A c \in Members(r) : EntryOf(c) \in Entry
        BY <1>a, <3>1 DEF CanExport, Members, EntryOf, Entry, Credential, ClientCR,
                          ClientSpec, Secret, TypeInv, TypeOK
      <4>2. BuildRealmExport(r) \in Payload
        BY <4>1 DEF BuildRealmExport, Payload, TypeInv, TypeOK, RealmCR
      <4> QED
        BY <1>9, <3>1, <4>2 DEF SyncRealm, TypeInv, TypeOK
    <3>2. CASE ~CanExport(r)
      BY <1>9, <3>2 DEF SyncRealm, TypeInv, TypeOK
    <3> QED
      BY <3>1, <3>2
  <2> QED
    BY <1>9, <2>1, <2>2 DEF SyncRealm, TypeInv, TypeOK, HasUid
<1>10. ASSUME NEW r \in Realm, Import(r) PROVE TypeInv'
  <2>1. \A c \in Client : client[c].phase = "deleting" => UidOf(c) \in Uid
    BY <1>a DEF UidOf, Uid, ClientCR, TypeInv, HasUid
  <2>2. realm' \in [Realm -> RealmCR]
    <3> DEFINE synced == {UidOf(c) : c \in {d \in Client : client[d].phase = "deleting"}}
               rr == [realm[r] EXCEPT !.ready = TRUE, !.synced = synced]
    <3>1. synced \subseteq Uid
      BY <2>1
    <3> HIDE DEF synced
    <3>2. rr \in RealmCR
      BY <1>c, <3>1, RealmFields
    <3>3. realm' = [realm EXCEPT ![r] = rr]
      BY <1>10 DEF Import, synced, TypeInv, TypeOK
    <3> HIDE DEF rr
    <3> QED
      BY <3>2, <3>3 DEF TypeInv, TypeOK
  <2>3. keycloak' \in [Realm -> SUBSET Entry]
    BY <1>10 DEF Import, TypeInv, TypeOK, Payload
  <2> QED
    BY <1>10, <2>2, <2>3 DEF Import, TypeInv, TypeOK, HasUid
<1>11. ASSUME NEW r \in Realm, CreateRealm(r) PROVE TypeInv'
  <2>1. realm' \in [Realm -> RealmCR]
    <3>1. PICK name \in Realm :
            realm' = [realm EXCEPT ![r].live = TRUE, ![r].name = name]
      BY <1>11 DEF CreateRealm
    <3> DEFINE rr == [realm[r] EXCEPT !.live = TRUE, !.name = name]
    <3>2. rr \in RealmCR
      BY <1>c, RealmFields
    <3>3. realm' = [realm EXCEPT ![r] = rr]
      BY <3>1 DEF TypeInv, TypeOK
    <3> HIDE DEF rr
    <3> QED
      BY <3>2, <3>3 DEF TypeInv, TypeOK
  <2> QED
    BY <1>11, <2>1 DEF CreateRealm, TypeInv, TypeOK, HasUid
<1>12. ASSUME NEW i \in ClientId, CollectSecret(i) PROVE TypeInv'
  BY <1>12 DEF CollectSecret, TypeInv, TypeOK, HasUid
<1>13. ASSUME NEW c \in Client, CreateClient(c) PROVE TypeInv'
  <2>1. PICK spec \in ClientSpec :
          client' = [client EXCEPT ![c] = [NewClient EXCEPT !.phase = "live",
                       !.life = client[c].life + 1, !.spec = spec, !.gen = 1]]
    BY <1>13 DEF CreateClient
  <2> DEFINE cr == [NewClient EXCEPT !.phase = "live", !.life = client[c].life + 1,
                                     !.spec = spec, !.gen = 1]
  <2>2. cr \in ClientCR /\ cr.life # 0
    <3>1. client[c].life + 1 \in 0..MaxLives /\ client[c].life + 1 # 0
      BY <1>13, <1>a DEF CreateClient, ClientCR
    <3>2. 1 \in 0..MaxGen /\ "live" \in Phase
      BY DEF Phase
    <3>3. [NewClient EXCEPT !.phase = "live", !.life = client[c].life + 1,
                            !.spec = spec, !.gen = 1] \in ClientCR
      BY <3>1, <3>2, NewClientType DEF ClientCR
    <3>4. cr.life = client[c].life + 1
      BY NewClientType DEF ClientCR
    <3> QED
      BY <3>1, <3>3, <3>4
  <2>3. client' = [client EXCEPT ![c] = cr]
    BY <2>1
  <2> HIDE DEF cr
  <2> QED
    BY <1>13, <2>2, <2>3, ClientStep DEF CreateClient
<1>14. ASSUME NEW c \in Client, EditClient(c) PROVE TypeInv'
  <2>1. PICK spec \in [ref : {client[c].spec.ref}, id : ClientId, public : BOOLEAN] :
          client' = [client EXCEPT ![c].spec = spec, ![c].gen = @ + 1]
    BY <1>14 DEF EditClient
  <2> DEFINE cr == [client[c] EXCEPT !.spec = spec, !.gen = client[c].gen + 1]
  <2>2. spec \in ClientSpec
    BY <1>a DEF ClientSpec, ClientCR
  <2>3. cr \in ClientCR /\ cr.phase = client[c].phase /\ cr.life = client[c].life
    <3>1. client[c].gen + 1 \in 0..MaxGen
      BY <1>14, <1>a DEF EditClient, ClientCR
    <3> QED
      BY <1>a, <2>2, <3>1 DEF ClientCR
  <2>4. client' = [client EXCEPT ![c] = cr]
    BY <2>1 DEF TypeInv, TypeOK
  <2> HIDE DEF cr
  <2> QED
    BY <1>14, <2>3, <2>4, ClientStep DEF EditClient, TypeInv, HasUid
<1>15. CASE UNCHANGED vars
  BY <1>15 DEF vars, TypeInv, TypeOK, HasUid
<1> QED
  BY <1>1, <1>2, <1>3, <1>4, <1>5, <1>6, <1>7, <1>8, <1>9, <1>10, <1>11, <1>12,
     <1>13, <1>14, <1>15 DEF Step, Next, Reconcile, ContinueSync

\* Every reachable state is well typed, for any Clients, Realm CRs and bounds: the
\* owner of every generated Secret is the UID of a Client that was created.
THEOREM TypeCorrect == Spec => []TypeOK
<1>1. TypeInv => TypeOK
  BY DEF TypeInv
<1> QED
  BY InitTypes, StepTypes, <1>1, PTL DEF Spec, Step

(***************************************************************************)
(* Exports                                                                 *)
(***************************************************************************)
\* What is stamped for a Realm CR goes to one realm of Keycloak and holds only
\* Clients of that realm; the functions keep their domains.
TargetInv ==
  /\ DOMAIN config = Realm /\ DOMAIN keycloak = Realm
  /\ \A r \in Realm :
       config[r] # Nothing => \A e \in config[r].clients : e.ref = config[r].name
  /\ TenantIsolation

LEMMA InitTargets == Init => TargetInv
BY DEF Init, TargetInv, TenantIsolation

\* The members of an export refer to the realm it is for.
LEMMA ExportsOwnMembers ==
  ASSUME NEW r \in Realm
  PROVE  \A e \in BuildRealmExport(r).clients : e.ref = BuildRealmExport(r).name
BY DEF BuildRealmExport, EntryOf, Members

LEMMA StepTargets == TargetInv /\ Step => TargetInv'
<1> SUFFICES ASSUME TargetInv, Step
             PROVE  TargetInv'
  OBVIOUS
<1>1. CASE UNCHANGED <<config, keycloak>>
  BY <1>1 DEF TargetInv, TenantIsolation
<1>2. ASSUME NEW r \in Realm, SyncRealm(r)
      PROVE  TargetInv'
  <2>1. CASE CanExport(r)
    <3>1. /\ config' = [config EXCEPT ![r] = BuildRealmExport(r)]
          /\ keycloak' = keycloak
      BY <1>2, <2>1 DEF SyncRealm
    <3> QED
      BY <3>1, ExportsOwnMembers DEF TargetInv, TenantIsolation
  <2>2. CASE ~CanExport(r)
    BY <1>2, <2>2, <1>1 DEF SyncRealm
  <2> QED
    BY <2>1, <2>2
<1>3. ASSUME NEW r \in Realm, Import(r)
      PROVE  TargetInv'
  <2>1. /\ config' = config
        /\ config[r] # Nothing
        /\ keycloak' = [keycloak EXCEPT ![config[r].name] = config[r].clients]
    BY <1>3 DEF Import
  <2> QED
    BY <2>1 DEF TargetInv, TenantIsolation
<1>4. CASE ContinueSync \/ Crash
  BY <1>1, <1>4 DEF ContinueSync, Crash, EnsureSecret, TriggerRealmSync, WriteStatus, WriteFailure
<1>5. ASSUME NEW c \in Client, Reconcile(c)
      PROVE  TargetInv'
  BY <1>1, <1>5 DEF Reconcile, AdoptClient, BeginSync, ReleaseClient
<1>6. ASSUME NEW i \in ClientId, CollectSecret(i)
      PROVE  TargetInv'
  BY <1>1, <1>6 DEF CollectSecret
<1>7. ASSUME NEW c \in Client, CreateClient(c) \/ EditClient(c) \/ DeleteClient(c)
      PROVE  TargetInv'
  BY <1>1, <1>7 DEF CreateClient, EditClient, DeleteClient
<1>8. ASSUME NEW r \in Realm, CreateRealm(r)
      PROVE  TargetInv'
  BY <1>1, <1>8 DEF CreateRealm
<1>9. CASE UNCHANGED vars
  BY <1>1, <1>9 DEF vars
<1> QED
  BY <1>2, <1>3, <1>4, <1>5, <1>6, <1>7, <1>8, <1>9 DEF Step, Next

\* Each realm of Keycloak holds Clients of that realm only, for any number of Realm
\* CRs of any names and any Clients (BuildRealmExport filters by spec.realmName).
THEOREM TenantsStayApart == Spec => []TenantIsolation
<1>1. TargetInv => TenantIsolation
  BY DEF TargetInv
<1> QED
  BY InitTargets, StepTargets, <1>1, PTL DEF Spec, Step

(***************************************************************************)
(* Credentials                                                             *)
(***************************************************************************)
SecretInv == DOMAIN secret = ClientId

SecretKept ==
  \A i \in ClientId :
    secret[i] # Nothing /\ secret'[i] # secret[i] => Gone(secret[i].owner)

LEMMA StepKeepsSecrets == SecretInv /\ Step => SecretInv' /\ SecretKept
<1> SUFFICES ASSUME SecretInv, Step
             PROVE  SecretInv' /\ SecretKept
  OBVIOUS
<1>1. CASE UNCHANGED secret
  BY <1>1 DEF SecretInv, SecretKept
<1>2. CASE EnsureSecret
  <2>1. CASE MissingSecret
    <3>1. /\ secret' = [secret EXCEPT ![ctl.obj.spec.id] = GeneratedFor(ctl.c)]
          /\ secret[ctl.obj.spec.id] = Nothing
      BY <1>2, <2>1 DEF EnsureSecret, MissingSecret
    <3> QED
      BY <3>1 DEF SecretInv, SecretKept
  <2>2. CASE ~MissingSecret
    BY <1>1, <1>2, <2>2 DEF EnsureSecret
  <2> QED
    BY <2>1, <2>2
<1>3. ASSUME NEW i \in ClientId, CollectSecret(i)
      PROVE  SecretInv' /\ SecretKept
  BY <1>3 DEF CollectSecret, SecretInv, SecretKept
<1>4. CASE TriggerRealmSync \/ WriteStatus \/ WriteFailure \/ Crash
  BY <1>1, <1>4 DEF TriggerRealmSync, WriteStatus, WriteFailure, Crash
<1>5. ASSUME NEW c \in Client, Reconcile(c)
      PROVE  SecretInv' /\ SecretKept
  BY <1>1, <1>5 DEF Reconcile, AdoptClient, BeginSync, ReleaseClient
<1>6. ASSUME NEW r \in Realm, SyncRealm(r) \/ Import(r) \/ CreateRealm(r)
      PROVE  SecretInv' /\ SecretKept
  BY <1>1, <1>6 DEF SyncRealm, Import, CreateRealm
<1>7. ASSUME NEW c \in Client, CreateClient(c) \/ EditClient(c) \/ DeleteClient(c)
      PROVE  SecretInv' /\ SecretKept
  BY <1>1, <1>7 DEF CreateClient, EditClient, DeleteClient
<1>8. CASE UNCHANGED vars
  BY <1>1, <1>8 DEF vars
<1> QED
  BY <1>2, <1>3, <1>4, <1>5, <1>6, <1>7, <1>8 DEF Step, Next, ContinueSync

\* A credential outlives every sync, edit and deletion but that of its owner (the
\* Client controller generates only what is missing; the owner reference has a UID).
THEOREM SecretsAreKept == Spec => OwnedSecretKept
<1>1. Init => SecretInv
  BY DEF Init, SecretInv
<1>2. SecretInv /\ Step => [SecretKept]_vars
  BY StepKeepsSecrets
<1> QED
  BY <1>1, <1>2, StepKeepsSecrets, PTL DEF Spec, Step, OwnedSecretKept, SecretKept
=============================================================================
