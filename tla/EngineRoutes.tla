---------------------------- MODULE EngineRoutes ----------------------------
(***************************************************************************)
(* The requests of the secret engines (src/engines), one definition per    *)
(* class: what each operation asks for when it is called on the instance   *)
(* n.  KeyValue has a module of its own.                                   *)
(***************************************************************************)
EXTENDS Requests

AWSSecrets(n) == Class(Under("aws"),
  {post("configure", "Root", On("config/root")),
   get("read", "Root", On("config/root")),
   post("rotate", "Root", On("config/rotate-root")),
   post("configure", "Lease", On("config/lease")),
   get("read", "Lease", On("config/lease")),
   post("create", "Role", At("roles", n)),
   post("update", "Role", At("roles", n)),
   get("read", "Role", At("roles", n)),
   list("list", "Role", On("roles")),
   del("delete", "Role", At("roles", n)),
   get("generate", "Credentials", At("creds", n)),
   get("generate", "StsCredentials", At("sts", n))})

ActiveDirectory(n) == Class(Under("ad"),
  {post("create", "Config", On("config")),
   get("read", "Config", On("config")),
   del("delete", "Config", On("config")),
   list("list", "Role", On("roles")),
   get("read", "Role", At("roles", n)),
   post("create", "Role", At("roles", n)),
   del("delete", "Role", At("roles", n)),
   get("read", "Credentials", At("creds", n)),
   list("list", "ServiceAccount", On("library")),
   get("read", "ServiceAccount", At("library", n)),
   post("create", "ServiceAccount", At("library", n)),
   del("delete", "ServiceAccount", At("library", n)),
   post("checkout", "-", Below("library", n, "check-out")),
   post("checkin", "-", Below("library", n, "check-in")),
   post("manage", "Checkin", Below("library/manage", n, "check-in")),
   get("status", "-", Below("library", n, "status")),
   get("rotate", "RootCredentials", On("rotate-root"))})

\* The base of getUrl ends without a slash.
AliCloudSecrets(n) == Class(Bare("alicloud"),
  {get("read", "Config", On("config")),
   post("create", "Config", On("config")),
   list("list", "Role", On("roles")),
   get("read", "Role", At("role", n)),
   post("create", "Role", At("role", n)),
   del("delete", "Role", At("role", n)),
   get("generate", "Credentials", At("creds", n))})

AzureSecrets(n) == Class(Under("azure"),
  {post("configure", "Config", On("config")),
   get("read", "Config", On("config")),
   del("delete", "Config", On("config")),
   post("create", "Role", At("roles", n)),
   post("update", "Role", At("roles", n)),
   list("list", "Role", On("roles")),
   get("generate", "Credentials", At("creds", n))})

Consul(n) == Class(Under("consul"),
  {post("configure", "Access", On("config/access")),
   post("create", "Role", At("roles", n)),
   post("update", "Role", At("roles", n)),
   get("read", "Role", At("roles", n)),
   list("list", "Role", On("roles")),
   del("delete", "Role", At("roles", n)),
   get("generate", "Credential", At("creds", n))})

Cubbyhole(n) == Class(Under("cubbyhole"),
  {post("create", "Secret", On(n)),
   get("read", "Secret", On(n)),
   list("list", "Secret", Itself),
   del("del", "Secret", On(n))})

\* A slip: deleteStaticRole deletes the role of that name.
Database_OneDelete(n) == Class(Under("database"),
  {post("create", "Role", At("roles", n)),
   post("create", "StaticRole", At("static-roles", n)),
   del("delete", "StaticRole", At("roles", n))})

Database(n) == Class(Under("database"),
  {post("configure", "Connection", At("config", n)),
   get("read", "Connection", At("config", n)),
   list("list", "Connection", On("config")),
   del("delete", "Connection", At("config", n)),
   post("reset", "Connection", At("reset", n)),
   post("rotate", "RootCredentials", At("rotate-root", n)),
   post("create", "Role", At("roles", n)),
   get("read", "Role", At("roles", n)),
   list("list", "Role", On("roles")),
   del("delete", "Role", At("roles", n)),
   get("generate", "Credentials", At("creds", n)),
   post("create", "StaticRole", At("static-roles", n)),
   get("read", "StaticRole", At("static-roles", n)),
   list("list", "StaticRole", On("static-roles")),
   del("delete", "StaticRole", At("static-roles", n)),
   get("get", "StaticCredentials", At("static-creds", n)),
   post("rotate", "StaticCredentials", At("rotate-role", n))})

GoogleCloudSecrets(n) == Class(Under("gcp"),
  {post("configure", "Config", On("config")),
   post("rotate", "Root", On("config/rotate-root")),
   get("read", "Config", On("config")),
   post("create", "Roleset", At("roleset", n)),
   post("update", "Roleset", At("roleset", n)),
   post("rotate", "RolesetAccount", Below("roleset", n, "rotate")),
   post("rotate", "RolesetAccountKey", Below("roleset", n, "rotate-key")),
   get("read", "Roleset", At("roleset", n)),
   list("list", "Roleset", On("rolesets")),
   del("delete", "Roleset", At("roleset", n)),
   get("generate", "SecretToken", At("token", n)),
   get("generate", "SecretKey", At("key", n))})

GoogleCloudKms(n) == Class(Under("gcpkms"),
  {post("configure", "Config", On("config")),
   get("read", "Config", On("config")),
   del("delete", "Config", On("config"))} \cup
  {post(word, "-", At(word, n)) :
     word \in {"decrypt", "encrypt", "reencrypt", "sign", "verify"}} \cup
  {list("list", "Key", On("keys")),
   post("create", "Key", At("keys", n)),
   post("update", "Key", At("keys", n)),
   del("delete", "Key", At("keys", n)),
   get("read", "Key", At("keys", n)),
   get("read", "KeyConfig", At("keys/config", n)),
   post("update", "KeyConfig", At("keys/config", n)),
   post("deregister", "Key", At("keys/deregister", n)),
   post("register", "RegisteredKey", At("keys/register", n)),
   post("rotate", "Key", At("keys/rotate", n)),
   post("trim", "KeyVersions", At("keys/trim", n))})

\* Roles, and what belongs to one, are called on the role n of one scope.
\* signCsr and revokeCredential forget the slash behind the role.
Kmip(n) == Class(Under("kmip"),
  LET role == Sub(Below("scope", "sc", "role"), n) IN
  {post("configure", "Config", On("config")),
   get("read", "Config", On("config")),
   get("read", "Ca", On("ca")),
   post("write", "Scope", At("scope", n)),
   list("list", "Scope", On("scope")),
   del("delete", "Scope", At("scope", n)),
   post("write", "Role", role),
   get("read", "Role", role),
   list("list", "Role", Below("scope", "sc", "role")),
   del("delete", "Role", role),
   post("generate", "Credential", Sub(role, "credential/generate")),
   post("sign", "Csr", Glued(role, "credential/sign")),
   get("lookup", "Credential", Sub(role, "credential/lookup")),
   list("list", "CredentialSerialNumber", Sub(role, "credential")),
   post("revoke", "Credential", Glued(role, "credential/revoke"))})

MongoDBAtlas(n) == Class(Under("mongodbatlas"),
  {post("configure", "Config", On("config")),
   post("create", "Role", At("roles", n)),
   post("update", "Role", At("roles", n)),
   get("read", "Role", At("roles", n)),
   list("list", "Role", On("roles")),
   del("delete", "Role", At("roles", n)),
   get("read", "Credential", At("creds", n))})

\* configureLease writes to "config/least", the others go to "config/lease".
Nomad(n) == Class(Under("nomad"),
  {post("configure", "Access", On("config/access")),
   get("read", "Access", On("config/access")),
   post("configure", "Lease", On("config/least")),
   get("read", "Lease", On("config/lease")),
   del("delete", "Lease", On("config/lease")),
   post("create", "Role", At("role", n)),
   post("update", "Role", At("role", n)),
   get("read", "Role", At("role", n)),
   list("list", "Role", On("role")),
   del("delete", "Role", At("role", n)),
   get("generate", "Credential", At("creds", n))})

\* listStaticRoles is a GET, and deleteStaticRole forgets the slash.
OpenLDAP(n) == Class(Under("openldap"),
  {post("configure", "Config", On("config")),
   get("read", "Config", On("config")),
   del("delete", "Config", On("config")),
   get("list", "StaticRole", On("static-role")),
   get("read", "StaticRole", At("static-role", n)),
   post("create", "StaticRole", At("static-role", n)),
   del("delete", "StaticRole", Glued(On("static-role"), n)),
   get("get", "StaticRolePassword", At("static-cred", n)),
   post("rotate", "StaticRolePassword", At("rotate-role", n)),
   post("rotate", "RootPassword", On("rotate-root"))})

\* issue and generateCertificate are two names of one request.
Pki(n) == Class(Under("pki"),
  {get("read", "CACertificate", On("ca/pem")),
   get("read", "CACertificateChain", On("ca_chain")),
   post("generate", "Root", At("root/generate", n)),
   del("delete", "Root", On("root")),
   post("set", "Urls", On("config/urls")),
   post("create", "Role", At("roles", n)),
   post("update", "Role", At("roles", n)),
   get("read", "Role", At("roles", n)),
   list("list", "Role", On("roles")),
   del("delete", "Role", At("roles", n)),
   post("generate", "Certificate", At("issue", n)),
   get("read", "Certificate", At("cert", n)),
   list("list", "Certificate", On("certs")),
   post("configure", "CA", On("config/ca")),
   get("read", "CrlConfig", On("config/crl")),
   post("set", "CrlConfig", On("config/crl")),
   get("read", "Urls", On("config/urls")),
   get("read", "CRL", On("crl/pem")),
   post("generate", "Intermediate", At("intermediate/generate", n)),
   post("sign", "Intermediate", On("root/sign-intermediate")),
   post("set", "SignedIntermediate", On("intermediate/set-signed")),
   post("sign", "SelfIssued", On("root/sign-self-issued")),
   post("sign", "-", At("sign", n)),
   post("sign", "Verbatim", At("sign-verbatim", n)),
   get("rotate", "Crl", On("crl/rotate")),
   post("tidy", "-", On("tidy")),
   post("revoke", "Certificate", On("revoke")),
   list("list", "Revoked", On("certs/revoked"))})

RabbitMq(n) == Class(Under("rabbitmq"),
  {post("configure", "Connection", On("config/connection")),
   post("configure", "Lease", On("config/lease")),
   post("create", "Role", At("roles", n)),
   get("read", "Role", At("roles", n)),
   del("delete", "Role", At("roles", n)),
   get("generate", "Credentials", At("creds", n))})

\* The base of getUrl ends without a slash.  listZeroAddressRoles reads one value.
SSH(n) == Class(Bare("ssh"),
  {post("create", "Key", At("keys", n)),
   post("update", "Key", At("keys", n)),
   del("delete", "Key", At("keys", n)),
   post("create", "Role", At("roles", n)),
   get("read", "Role", At("roles", n)),
   list("list", "Role", On("roles")),
   del("delete", "Role", At("roles", n)),
   get("read", "ZeroAddressRoles", On("config/zeroaddress")),
   post("configure", "ZeroAddressRoles", On("config/zeroaddress")),
   del("delete", "ZeroAddressRoles", On("config/zeroaddress")),
   post("generate", "Credentials", At("creds", n)),
   post("list", "RolesByIp", On("lookup")),
   post("verify", "Otp", On("verify")),
   post("configure", "CA", On("config/ca")),
   del("delete", "CA", On("config/ca")),
   get("read", "PublicKey", On("public_key")),
   post("sign", "Key", At("sign", n))})

\* A slip: list calls HttpConsumer::get.
Totp_ListByGet(n) == Class(Under("totp"),
  {post("create", "Key", At("keys", n)),
   get("list", "Key", On("keys"))})

Totp(n) == Class(Under("totp"),
  {post("create", "Key", At("keys", n)),
   list("list", "Key", On("keys")),
   get("read", "Key", At("keys", n)),
   get("generate", "-", At("code", n)),
   post("validate", "-", At("code", n)),
   del("del", "Key", At("keys", n))})

\* The three kinds of transformation are written below "transformation" and
\* read and deleted there by name alone.
\* What can be made is one of these, ...
Made(noun, path, n) ==
  {post("create", noun, At(path, n)), post("update", noun, At(path, n))}

\* ... and most of it can be looked at and deleted.
Kept(noun, path, n) ==
  Made(noun, path, n) \cup
  {get("read", noun, At(path, n)),
   list("list", noun, On(path)),
   del("delete", noun, At(path, n))}

Transform(n) == Class(Under("transform"),
  Kept("Role", "role", n) \cup Kept("Template", "template", n) \cup
  Kept("Transformation", "transformation", n) \cup
  Kept("Alphabet", "alphabet", n) \cup Kept("Store", "store", n) \cup
  Made("FPETransformation", "transformation/fpe", n) \cup
  Made("MaskingTransformation", "transformation/masking", n) \cup
  Made("TokenizationTransformation", "transformation/tokenization", n) \cup
  {post("create", "StoreSchema", Below("store", n, "schema")),
   post("update", "StoreSchema", Below("store", n, "schema")),
   post("encode", "-", At("encode", n)),
   post("decode", "-", At("decode", n)),
   post("validate", "Token", At("validate", n)),
   post("check", "Tokenization", At("tokenized", n)),
   post("retrieve", "TokenMetadata", At("metadata", n))})

Transit(n) == Class(Under("transit"),
  {post("create", "Key", At("keys", n)),
   get("read", "Key", At("keys", n)),
   del("delete", "Key", At("keys", n)),
   list("list", "Key", On("keys")),
   post("update", "KeyConfig", Below("keys", n, "config")),
   post("rotate", "Key", Below("keys", n, "rotate")),
   get("export", "Key", Sub(At("export/type", n), "version")),
   post("generate", "DataKey", At("datakey/plaintext", n)),
   post("generate", "WrappedDataKey", At("datakey/wrapped", n)),
   post("generate", "RandomBytes", At("random", "count")),
   post("hash", "-", At("hash", "algorithm")),
   get("backup", "-", At("backup", n)),
   post("trim", "-", Below("keys", n, "trim")),
   post("configure", "Cache", On("cache-config")),
   get("read", "Cache", On("cache-config"))} \cup
  {post(word, "-", At(word, n)) :
     word \in {"encrypt", "decrypt", "rewrap", "restore"}} \cup
  {post(word, "-", Below(word, n, "algorithm")) :
     word \in {"hmac", "sign", "verify"}})

-----------------------------------------------------------------------------
(* The identity engine.  create leaves the name to the server.             *)

Entity(n) == Class(Under("identity/entity"),
  {post("create", "New", Itself),
   get("read", "ById", At("id", n)),
   post("update", "ById", At("id", n)),
   del("delete", "ById", At("id", n)),
   post("batchDelete", "ById", On("batch-delete")),
   list("list", "ById", On("id")),
   post("create", "ByName", At("name", n)),
   post("update", "ByName", At("name", n)),
   get("read", "ByName", At("name", n)),
   del("delete", "ByName", At("name", n)),
   list("list", "ByName", On("name")),
   post("merge", "-", On("merge"))})

\* A slip: getUrl keeps the base of the class it was copied from.
EntityAlias_EntityBase(n) == Class(Under("identity/entity"),
  {post("create", "New", Itself),
   get("read", "ById", At("id", n)),
   post("update", "ById", At("id", n)),
   del("delete", "ById", At("id", n)),
   list("list", "ById", On("id"))})

EntityAlias(n) == Class(Under("identity/entity-alias"),
  {post("create", "New", Itself),
   get("read", "ById", At("id", n)),
   post("update", "ById", At("id", n)),
   del("delete", "ById", At("id", n)),
   list("list", "ById", On("id"))})

Group(n) == Class(Under("identity/group"),
  {post("create", "New", Itself),
   get("read", "ById", At("id", n)),
   post("update", "ById", At("id", n)),
   del("delete", "ById", At("id", n)),
   list("list", "ById", On("id")),
   post("create", "ByName", At("name", n)),
   post("update", "ByName", At("name", n)),
   get("read", "ByName", At("name", n)),
   del("delete", "ByName", At("name", n)),
   list("list", "ByName", On("name"))})

GroupAlias(n) == Class(Under("identity/group-alias"),
  {post("create", "New", Itself),
   get("read", "ById", At("id", n)),
   post("update", "ById", At("id", n)),
   del("delete", "ById", At("id", n)),
   list("list", "ById", On("id"))})

\* listNamedKeys is a DELETE.
IdentityTokens(n) == Class(Under("identity/oidc"),
  {post("configure", "Config", On("config")),
   get("read", "Config", On("config")),
   post("create", "NamedKey", At("key", n)),
   get("read", "NamedKey", At("key", n)),
   del("delete", "NamedKey", At("key", n)),
   del("list", "NamedKey", On("key")),
   post("rotate", "NamedKey", Below("key", n, "rotate")),
   post("create", "Role", At("role", n)),
   post("update", "Role", At("role", n)),
   get("read", "Role", At("role", n)),
   del("delete", "Role", At("role", n)),
   list("list", "Role", On("role")),
   get("generate", "SignedIdToken", At("token", n)),
   post("introspect", "SignedIdToken", On("introspect")),
   get("read", "WellKnownConfig", On(".well-known/openid-configuration")),
   get("read", "ActivePublicKeys", On(".well-known/keys"))})

Lookup(n) == Class(Under("identity/lookup"),
  {post("lookup", "Entity", On("entity")),
   post("lookup", "Group", On("group"))})

\* Every engine class by its name.
Engines(n) ==
  [AWSSecrets |-> AWSSecrets(n), ActiveDirectory |-> ActiveDirectory(n),
   AliCloudSecrets |-> AliCloudSecrets(n), AzureSecrets |-> AzureSecrets(n),
   Consul |-> Consul(n), Cubbyhole |-> Cubbyhole(n),
   Database |-> Database(n), GoogleCloudSecrets |-> GoogleCloudSecrets(n),
   GoogleCloudKms |-> GoogleCloudKms(n), Kmip |-> Kmip(n),
   MongoDBAtlas |-> MongoDBAtlas(n), Nomad |-> Nomad(n),
   OpenLDAP |-> OpenLDAP(n), Pki |-> Pki(n),
   RabbitMq |-> RabbitMq(n), SSH |-> SSH(n),
   Totp |-> Totp(n), Transform |-> Transform(n),
   Transit |-> Transit(n), Entity |-> Entity(n),
   EntityAlias |-> EntityAlias(n), Group |-> Group(n),
   GroupAlias |-> GroupAlias(n), IdentityTokens |-> IdentityTokens(n),
   Lookup |-> Lookup(n)]
=============================================================================
