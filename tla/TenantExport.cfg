CONSTANTS
  r1 = r1
  r2 = r2
  client = client
  scope = scope
  group = group
  user = user
  flow = flow
  idp = idp
  s1 = s1
  s2 = s2
  s3 = s3
  Client = {client}
  ClientScope = {scope}
  Group = {group}
  User = {user}
  AuthFlow = {flow}
  IdentityProvider = {idp}
  Realm = {r1, r2}
  Secret = {s1, s2, s3}
  Nothing = Nothing
  RealmRef <- MCRealmRef
  SecretRefs <- MCSecretRefs
  Existing = {client, scope, user, flow, idp}
  MaxGen = 2
  MaxEvents = 2
SPECIFICATION FairSpec
INVARIANTS
  TypeOK
  RegularExport
PROPERTIES
  TenantConverges
  TenantDeletes
