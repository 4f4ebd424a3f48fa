---------------------------- MODULE SystemRoutes ----------------------------
(***************************************************************************)
(* The requests of the system backend (src/system), one definition per     *)
(* class.                                                                  *)
(***************************************************************************)
EXTENDS Requests

\* A slip: seal goes the way of unseal.
Sys_OpenSeal(n) == Class(Under("sys"),
  {unauthenticated_post("seal", "-", On("seal")),
   unauthenticated_post("unseal", "-", On("unseal"))})

\* unwrap sends the wrapping token in place of the client's.
Sys(n) == Class(Under("sys"),
  {get("read", "Health", On("health")),
   get("read", "Leader", On("leader")),
   post("wrap", "-", On("wrapping/wrap")),
   post_with_token("unwrap", "-", On("wrapping/unwrap")),
   post("lookup", "-", At("wrapping", "lookup")),
   post("rewrap", "-", On("wrapping/rewrap")),
   post("auditHash", "-", At("audit-hash", n)),
   post("capabilities", "-", On("capabilities")),
   post("capabilities", "Accessor", On("capabilities-accessor")),
   post("capabilities", "Self", On("capabilities-self")),
   get("read", "State", On("config/state/sanitized")),
   get("read", "HostInfo", On("host-info")),
   get("read", "KeyStatus", On("key-status")),
   get("read", "Metrics", On("metrics")),
   put("reload", "Plugin", On("plugins/reload/backend")),
   post("remount", "-", On("remount")),
   put("rotate", "-", On("rotate")),
   put("seal", "-", On("seal")),
   unauthenticated_get("read", "SealStatus", On("seal-status")),
   put("step", "Down", On("step-down")),
   unauthenticated_post("unseal", "-", On("unseal")),
   get("read", "OpenApi", On("internal/specs/openapi"))})

\* read is the list of the devices.
Audit(n) == Class(Bare("sys/audit"),
  {get("list", "Device", Itself),
   put("enable", "Device", Sub(Itself, n)),
   del("disable", "Device", Sub(Itself, n))})

\* The base of getUrl ends without a slash.
Auditing(n) == Class(Bare("sys/config/auditing"),
  {get("list", "Header", On("request-headers")),
   get("read", "Header", At("request-headers", n)),
   put("create", "Header", At("request-headers", n)),
   put("update", "Header", At("request-headers", n)),
   del("del", "Header", At("request-headers", n))})

Auth(n) == Class(Bare("sys/auth"),
  {get("list", "Method", Itself),
   post("enable", "Method", Sub(Itself, n)),
   del("disable", "Method", Sub(Itself, n)),
   get("read", "Tuning", Sub(Sub(Itself, n), "tune")),
   post("tune", "Tuning", Sub(Sub(Itself, n), "tune"))})

ControlGroup(n) == Class(Under("sys"),
  {get("read", "ControlGroup", On("config/control-group")),
   put("configure", "ControlGroup", On("config/control-group")),
   del("del", "ControlGroup", On("config/control-group")),
   post("authorize", "-", On("control-group/authorize")),
   post("request", "-", On("control-group/request"))})

\* The path the operations take is not used.
Cors(n) == Class(Bare("sys/config/cors"),
  {get("read", "Cors", Itself),
   put("configure", "Cors", Itself),
   del("del", "Cors", Itself)})

UI(n) == Class(Under("sys/config/ui/headers"),
  {list("list", "UI", Itself),
   get("read", "UI", On(n)),
   put("configure", "UI", On(n)),
   del("del", "UI", On(n))})

Counters(n) == Class(Under("sys/internal/counters"),
  {get("read", counter, On(counter)) :
     counter \in {"entities", "requests", "tokens"}})

\* A slip: cancel asks for the attempt in place of deleting it.
GenerateRoot_CancelReads(n) == Class(Under("sys/generate-root"),
  {get("read", "Attempt", On("attempt")),
   put("start", "Attempt", On("attempt")),
   put("update", "Progress", On("update")),
   get("cancel", "Attempt", On("attempt"))})

GenerateRoot(n) == Class(Under("sys/generate-root"),
  {get("read", "Attempt", On("attempt")),
   put("start", "Attempt", On("attempt")),
   put("update", "Progress", On("update")),
   del("cancel", "Attempt", On("attempt"))})

\* A slip: start reads whether the server is initialised.
Init_StartReads(n) == Class(Bare("sys/init"),
  {unauthenticated_get("read", "Init", Itself),
   get("start", "Init", Itself)})

Init(n) == Class(Bare("sys/init"),
  {unauthenticated_get("read", "Init", Itself),
   put("start", "Init", Itself)})

\* read asks with a PUT, to name the lease in the body.
Leases(n) == Class(Under("sys/leases"),
  {put("read", "Lease", On("lookup")),
   list("list", "Lease", At("lookup", n)),
   put("renew", "Lease", On("renew")),
   put("revoke", "Lease", On("revoke")),
   put("revoke", "Force", At("revoke-force", n)),
   put("revoke", "Prefix", At("revoke-prefix", n)),
   post("tidy", "-", On("tidy"))})

License(n) == Class(Bare("sys/license"),
  {get("read", "License", Itself),
   put("install", "License", Itself)})

\* Mfa::configure, Mfa::read and Mfa::del, on the URL of one method.
Mfa(url) ==
  {post("configure", "Method", url),
   get("read", "Method", url),
   del("del", "Method", url)}

MfaDuo(n) == Class(Under("sys/mfa/method/duo"), Mfa(On(n)))

MfaOkta(n) == Class(Under("sys/mfa/method/okta"), Mfa(On(n)))

MfaPingId(n) == Class(Under("sys/mfa/method/pingid"), Mfa(On(n)))

MfaTotp(n) == Class(Under("sys/mfa/method/totp"),
  Mfa(On(n)) \cup
  {get("generate", "-", At(n, "generate")),
   post("generate", "Admin", At(n, "admin-generate")),
   post("destroy", "Admin", At(n, "admin-destroy"))})

\* list and read make the same request.
Mounts(n) == Class(Under("sys"),
  {get("list", "Mount", On("mounts")),
   get("read", "Ui", On("internal/ui/mounts")),
   post("enable", "Mount", At("mounts", n)),
   del("disable", "Mount", At("mounts", n)),
   get("read", "Tuning", Below("mounts", n, "tune")),
   post("tune", "Tuning", Below("mounts", n, "tune"))})

Namespaces(n) == Class(Under("sys/namespaces"),
  {list("list", "Namespace", Itself),
   get("read", "Namespace", On(n)),
   post("create", "Namespace", On(n)),
   del("del", "Namespace", On(n))})

Plugins(n) == Class(Under("sys/plugins/catalog"),
  {get("list", "Type", Itself),
   get("list", "Plugin", On("type")),
   put("reg", "Plugin", At("type", n)),
   get("read", "Plugin", At("type", n)),
   del("del", "Plugin", At("type", n))})

\* Policies::list, read, create, update and del, below the URL of one kind.
Policies(n) ==
  {list("list", "Policy", Itself),
   get("read", "Policy", On(n)),
   put("create", "Policy", On(n)),
   put("update", "Policy", On(n)),
   del("del", "Policy", On(n))}

ACL(n) == Class(Under("sys/policies/acl"), Policies(n))

EGP(n) == Class(Under("sys/policies/egp"), Policies(n))

RGP(n) == Class(Under("sys/policies/rgp"), Policies(n))

Policy(n) == Class(Under("sys/policy"),
  {get("list", "Policy", Itself),
   get("read", "Policy", On(n)),
   put("create", "Policy", On(n)),
   put("update", "Policy", On(n)),
   del("del", "Policy", On(n))})

Pprof(n) == Class(Under("sys/pprof"),
  {get("read", "Index", Itself)} \cup
  {get("read", profile, On(profile)) :
     profile \in {"cmdline", "goroutine", "heap", "profile", "symbol", "trace"}})

\* list takes the directory it lists, here the topmost one.
Raw(n) == Class(Under("sys/raw"),
  {list("list", "Raw", Itself),
   get("read", "Raw", On(n)),
   put("create", "Raw", On(n)),
   put("update", "Raw", On(n)),
   del("del", "Raw", On(n))})

Sealwrap(n) == Class(Bare("sys/sealwrap/rewrap"),
  {get("read", "Rewrap", Itself),
   post("start", "Rewrap", Itself)})

Tools(n) == Class(Under("sys/tools"),
  {post("random", "-", At("random", n)),
   post("hash", "-", At("hash", "algorithm"))})

\* Every class of the system backend by its name.
Systems(n) ==
  [Sys |-> Sys(n), Audit |-> Audit(n), Auditing |-> Auditing(n),
   Auth |-> Auth(n), ControlGroup |-> ControlGroup(n), Cors |-> Cors(n),
   UI |-> UI(n), Counters |-> Counters(n), GenerateRoot |-> GenerateRoot(n),
   Init |-> Init(n), Leases |-> Leases(n), License |-> License(n),
   MfaDuo |-> MfaDuo(n), MfaOkta |-> MfaOkta(n), MfaPingId |-> MfaPingId(n),
   MfaTotp |-> MfaTotp(n), Mounts |-> Mounts(n), Namespaces |-> Namespaces(n),
   Plugins |-> Plugins(n), ACL |-> ACL(n), EGP |-> EGP(n), RGP |-> RGP(n),
   Policy |-> Policy(n), Pprof |-> Pprof(n), Raw |-> Raw(n),
   Sealwrap |-> Sealwrap(n), Tools |-> Tools(n)]
=============================================================================
