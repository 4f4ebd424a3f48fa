----------------------------- MODULE AuthRoutes -----------------------------
(***************************************************************************)
(* The requests of the auth method classes (src/auth), one definition per  *)
(* class.  Their login operations are plain authenticated requests: the    *)
(* strategies, which log a client in, do not use them (Authentication).    *)
(***************************************************************************)
EXTENDS Requests

\* One of the configurations of AWS::Auth.
AWSConfig(noun, path) ==
  {post("configure", noun, On(path)), get("read", noun, On(path))}

AWSAuth(n) == Class(Under("auth/aws"),
  AWSConfig("Config", "config/client") \cup
  AWSConfig("Identity", "config/identity") \cup
  AWSConfig("IdentityWhitelistTidy", "config/tidy/identity-whitelist") \cup
  AWSConfig("RoleTagBlacklistTidy", "config/tidy/roletag-blacklist") \cup
  {del("delete", "Config", On("config/client")),
   del("delete", "IdentityWhitelistTidy", On("config/tidy/identity-whitelist")),
   del("delete", "RoleTagBlacklistTidy", On("config/tidy/roletag-blacklist")),
   post("rotate", "Root", On("config/rotate-root")),
   post("create", "Certificate", At("config/certificate", n)),
   get("read", "Certificate", At("config/certificate", n)),
   del("delete", "Certificate", At("config/certificate", n)),
   list("list", "Certificate", On("config/certificates")),
   post("create", "STSRole", At("config/sts", n)),
   get("read", "STSRole", At("config/sts", n)),
   list("list", "STSRole", On("config/sts")),
   del("delete", "STSRole", At("config/sts", n)),
   post("create", "Role", At("role", n)),
   get("read", "Role", At("role", n)),
   list("list", "Role", On("roles")),
   del("delete", "Role", At("role", n)),
   post("create", "RoleTags", Below("role", n, "tag")),
   post("login", "-", On("login")),
   post("blacklist", "RoleTag", At("roletag-blacklist", n)),
   get("read", "RoleTag", At("roletag-blacklist", n)),
   list("list", "RoleTag", On("roletag-blacklist")),
   del("delete", "RoleTag", At("roletag-blacklist", n)),
   post("tidy", "BlacklistTags", On("tidy/roletag-blacklist")),
   get("read", "IdentityWhitelist", At("identity-whitelist", n)),
   list("list", "IdentityWhitelist", On("identity-whitelist")),
   del("delete", "IdentityWhitelist", At("identity-whitelist", n)),
   post("tidy", "IdentityWhitelist", On("tidy/identity-whitelist"))})

AliCloudAuth(n) == Class(Under("auth/alicloud"),
  {list("list", "Role", On("roles")),
   get("read", "Role", At("role", n)),
   post("create", "Role", At("role", n)),
   del("delete", "Role", At("role", n)),
   post("login", "-", On("login"))})

\* The URL of a property is the role's with the caller's text appended; callers
\* have to spell the slash themselves.  tidy posts to where generateSecretId does.
AppRole(n) == Class(Under("auth/approle/role"),
  LET secretId == At(n, "secret-id") IN
  {list("list", "Role", Itself),
   post("create", "Role", On(n)),
   post("update", "Role", On(n)),
   get("read", "Role", On(n)),
   del("del", "Role", On(n)),
   get("get", "RoleId", At(n, "role-id")),
   post("update", "RoleId", At(n, "role-id")),
   get("get", "RoleProperty", At(n, "policies")),
   post("update", "RoleProperty", At(n, "policies")),
   del("delete", "RoleProperty", At(n, "policies")),
   post("generate", "SecretId", secretId),
   list("list", "SecretAccessor", secretId),
   post("read", "SecretId", Sub(secretId, "lookup")),
   post("destroy", "SecretId", Sub(secretId, "destroy")),
   post("read", "SecretIdAccessor", Below(n, "secret-id-accessor", "lookup")),
   post("destroy", "SecretIdAccessor", Below(n, "secret-id-accessor", "destroy")),
   post("custom", "SecretId", At(n, "custom-secret-id")),
   post("tidy", "-", secretId)})

AzureAuth(n) == Class(Under("auth/azure"),
  {post("configure", "Config", On("config")),
   get("read", "Config", On("config")),
   del("delete", "Config", On("config")),
   post("create", "Role", At("role", n)),
   get("read", "Role", At("role", n)),
   list("list", "Role", On("role")),
   del("delete", "Role", At("role", n)),
   post("login", "-", On("login"))})

CloudFoundry(n) == Class(Under("auth/cf"),
  {post("configure", "Config", On("config")),
   get("read", "Config", On("config")),
   del("delete", "Config", On("config")),
   post("create", "Role", At("roles", n)),
   get("read", "Role", At("roles", n)),
   del("delete", "Role", At("roles", n)),
   list("list", "Role", On("roles")),
   post("login", "-", On("login"))})

GitHub(n) == Class(Under("auth/github"),
  {post("configure", "Config", On("config")),
   get("read", "Config", On("config")),
   post("map", "Team", At("map/teams", n)),
   get("read", "Team", At("map/teams", n)),
   post("map", "User", At("map/users", n)),
   get("read", "User", At("map/users", n)),
   post("login", "-", On("login"))})

GoogleCloudAuth(n) == Class(Under("auth/gcp"),
  {post("configure", "Config", On("config")),
   get("read", "Config", On("config")),
   post("create", "Role", At("role", n)),
   post("edit", "IAMServiceAccount", Below("role", n, "service-accounts")),
   post("edit", "GCERolesLabel", Below("role", n, "labels")),
   get("read", "Role", At("role", n)),
   list("list", "Role", On("roles")),
   del("delete", "Role", At("role", n)),
   post("login", "-", On("login"))})

JwtOidc(n) == Class(Under("auth/jwt"),
  {post("configure", "Config", On("config")),
   get("read", "Config", On("config")),
   post("create", "Role", At("role", n)),
   get("read", "Role", At("role", n)),
   list("list", "Role", On("role")),
   del("delete", "Role", At("role", n)),
   post("oidc", "AuthorizationUrlRequest", On("oidc/auth_url")),
   get("oidc", "Callback", On("oidc/callback")),
   post("login", "-", On("login"))})

Kerberos(n) == Class(Under("auth/kerberos"),
  {post("configure", "Config", On("config")),
   get("read", "Config", On("config")),
   post("configure", "Ldap", On("config/ldap")),
   get("read", "Ldap", On("config/ldap")),
   list("list", "Group", On("groups")),
   get("read", "Group", At("groups", n)),
   post("create", "Group", At("groups", n)),
   post("update", "Group", At("groups", n)),
   del("delete", "Group", At("groups", n)),
   post("login", "-", On("login"))})

Kubernetes(n) == Class(Under("auth/kubernetes"),
  {post("configure", "Config", On("config")),
   get("read", "Config", On("config")),
   post("create", "Role", At("role", n)),
   get("read", "Role", At("role", n)),
   list("list", "Role", On("role")),
   del("delete", "Role", At("role", n)),
   post("login", "-", On("login"))})

\* Groups and users have the same operations.
LdapMapping(noun, path, n) ==
  {list("list", noun, On(path)),
   get("read", noun, At(path, n)),
   post("create", noun, At(path, n)),
   post("update", noun, At(path, n)),
   del("delete", noun, At(path, n))}

Ldap(n) == Class(Under("auth/ldap"),
  LdapMapping("Group", "groups", n) \cup LdapMapping("User", "users", n) \cup
  {post("configure", "Config", On("config")),
   get("read", "Config", On("config")),
   post("login", "-", At("login", n))})

OCI(n) == Class(Under("auth/oci"),
  {post("configure", "Config", On("config")),
   get("read", "Config", On("config")),
   post("create", "Role", At("role", n)),
   get("read", "Role", At("role", n)),
   list("list", "Role", On("role")),
   del("delete", "Role", At("role", n)),
   post("login", "-", At("login", n))})

\* login forgets the slash before the user.
OktaMapping(noun, path, n) ==
  {list("list", noun, On(path)),
   post("register", noun, At(path, n)),
   get("read", noun, At(path, n)),
   del("delete", noun, At(path, n))}

Okta(n) == Class(Under("auth/okta"),
  OktaMapping("Group", "groups", n) \cup OktaMapping("User", "users", n) \cup
  {post("configure", "Config", On("config")),
   get("read", "Config", On("config")),
   post("login", "-", Glued(On("login"), n))})

Radius(n) == Class(Under("auth/radius"),
  {post("configure", "Config", On("config")),
   post("register", "User", At("users", n)),
   get("read", "User", At("users", n)),
   del("delete", "User", At("users", n)),
   list("list", "User", On("users")),
   post("login", "-", On("login"))})

Tls(n) == Class(Under("auth/cert"),
  {post("create", "Role", At("certs", n)),
   get("read", "Role", At("certs", n)),
   list("list", "Role", On("certs")),
   del("delete", "Role", At("certs", n)),
   post("create", "Crl", At("crls", n)),
   get("read", "Crl", At("crls", n)),
   del("delete", "Crl", At("crls", n)),
   post("configure", "Config", On("config")),
   post("login", "-", On("login"))})

\* Slips: children outlive a revocation; what is made an orphan is none.
Tokens_RevokesOne(n) == Class(Under("auth/token"),
  {post("create", "Token", On("create")),
   post("lookup", "Token", On("lookup")),
   post("revoke", "Token", On("revoke-orphan"))})

Tokens_NoOrphans(n) == Class(Under("auth/token"),
  {post("create", "TokenOrphan", On("create")),
   post("revoke", "Token", On("revoke"))})

\* createWrappedToken is createToken with the header that asks for a wrapping.
Tokens(n) == Class(Under("auth/token"),
  {post("create", "Token", On("create")),
   post("create", "TokenOrphan", On("create-orphan")),
   post("create", "TokenWithRole", At("create", n)),
   get("lookup", "TokenSelf", On("lookup-self")),
   list("list", "Accessor", On("accessors")),
   post("revoke", "TokenSelf", On("revoke-self")),
   post("renew", "TokenSelf", On("renew-self")),
   post("tidy", "Tokens", On("tidy")),
   get("read", "TokenRole", At("roles", n)),
   list("list", "TokenRole", On("roles")),
   post("create", "TokenRole", At("roles", n)),
   del("delete", "TokenRole", At("roles", n)),
   post("lookup", "Token", On("lookup")),
   post("renew", "Token", On("renew")),
   post("revoke", "Token", On("revoke")),
   post("lookup", "TokenAccessor", On("lookup-accessor")),
   post("renew", "TokenAccessor", On("renew-accessor")),
   post("revoke", "TokenAccessor", On("revoke-accessor")),
   post("revoke", "TokenAndOrphanChildren", On("revoke-orphan"))})

UserPass(n) == Class(Under("auth/userpass"),
  {post("create", "User", At("users", n)),
   post("update", "User", At("users", n)),
   get("read", "User", At("users", n)),
   del("delete", "User", At("users", n)),
   post("update", "Password", Below("users", n, "password")),
   post("update", "Policy", Below("users", n, "policies")),
   list("list", "User", On("users")),
   post("login", "-", At("login", n))})

\* Every auth method class by its name.
AuthMethods(n) ==
  [AWSAuth |-> AWSAuth(n), AliCloudAuth |-> AliCloudAuth(n),
   AppRole |-> AppRole(n), AzureAuth |-> AzureAuth(n),
   CloudFoundry |-> CloudFoundry(n), GitHub |-> GitHub(n),
   GoogleCloudAuth |-> GoogleCloudAuth(n), JwtOidc |-> JwtOidc(n),
   Kerberos |-> Kerberos(n), Kubernetes |-> Kubernetes(n),
   Ldap |-> Ldap(n), OCI |-> OCI(n), Okta |-> Okta(n), Radius |-> Radius(n),
   Tls |-> Tls(n), Tokens |-> Tokens(n), UserPass |-> UserPass(n)]
=============================================================================
