# A TLA+ model of libvault

libvault is a C++ client library for HashiCorp Vault. This directory holds a
model of it: what a call promises to its caller, how a client comes by its
token, what the key/value engine does to a secret, which request each of the
library's operations makes, what base64 and bodies do to the data, which objects
have to outlive which, and what many calls do to a tree of tokens and to a
server that is initialised, sealed and unsealed. The modules are checked with
TLC on small instances, and every safety property that holds there is proved with
TLAPS for every instance.

File names below are relative to the repository's root.

## 1. Inventory

| Component | Files | State it keeps | Operations | Modelled in |
|---|---|---|---|---|
| Request pipeline | `src/support/HttpConsumer.cpp`, `src/support/HttpClient.cpp`, `CurlWrapper` in `include/VaultClient.h` | a `CurlWrapper` per call; the two callbacks of the client | `get`, `list`, `post`, `put`, `del`, their unauthenticated forms, `authenticate` | `HttpConsumer`, promise in `AtMostOnce` |
| Client and strategies | `src/domain/VaultClient.cpp`, `src/auth/strategies/*` | `token_`, constant once constructed | the three constructors, six strategies, `Sys::unwrap` | `Authentication` |
| Key/value engine | `src/engines/KeyValue.cpp` | `version_`, `mount_`; the secret is in the server | 15 operations | `KeyValue` |
| Secret engines, identity | `src/engines/**` | none; the server's | create, read, list, delete, ... by URL | `EngineRoutes`, `Routes` |
| Auth methods | `src/auth/*.cpp` | none; the server's | the same | `AuthRoutes`, `Routes`; tokens in `TokenTree` |
| System backend | `src/system/**` | none; the server's | the same, and seal, unseal, init, generate-root, wrapping, leases | `SystemRoutes`, `Routes`, `Bootstrap`, `TokenTree` |
| Config, ConfigBuilder | `include/VaultClient.h`, `src/domain/ConfigBuilder.cpp` | the configuration | setters, `build`, conversions, copies | `Lifetimes`; the timeouts are constants of `HttpConsumer` |
| Base64 | `src/support/Base64.cpp` | none | `encode`, `decode` | `Base64` |
| JSON bodies | `src/support/CreateJson.h`, `HttpConsumer::post`, `Transit.cpp` | none | `create_json`, the bodies of `post`, `KeyValue` and `Transit` | `Payloads` |
| Tiny types | `include/VaultClient.h` | none | concatenation | in the URLs only |
| Tests and examples | `test`, `example` | locals | make clients, call operations | the login helpers in `Lifetimes`, the postgres example in `Payloads` |
| Vendored code | `lib`, `example/authentication/jwt` | | | no |

How they interact. An operation of an engine, an auth method or the system
backend builds a URL with `Client::getUrl` and calls one function of
`HttpConsumer`. That function looks at `Client::is_authenticated`, calls one
function of `HttpClient`, which makes one `CurlWrapper` and blocks in
`curl_easy_perform`. When libcurl fails, `CurlWrapper::execute` runs the client's
`HttpErrorCallback`; when the server answers with another status than 2xx,
`HttpConsumer` runs its `ResponseErrorCallback`. The caller sees a body,
`nullopt` or an exception: of a callback, or of json when a parameter that is not
UTF-8 cannot be written (`dump`) or a body cannot be read. The constructor of `Client` passes itself, still without a token, to
`AuthenticationStrategy::authenticate`, which uses the same pipeline.

The library starts no threads. The hard behaviour comes from applications that
share a client between threads, from several operators of one server, and from
the network:

* `nullopt` means refused, never sent, or in doubt; only the callbacks tell.
* Parameters that json cannot write throw after the guard and before the request.
* A call that timed out may be carried out later, after calls made since.
* A construction makes up to two requests and spends single-use credentials.
* A constructor that fails leaves a client behind, and its calls say nothing.
* Tokens are revoked while clients hold them.
* Limits set through `setOption` may be ignored by libcurl.
* Several hundred URLs are put together by hand.
* Seal, unseal, cancel and revoke name no attempt: a late one meets another
  state than the one it was meant for.
* Keys, root tokens and wrapped tokens are told in one answer, which may be lost.
* Lengths of texts are narrowed to `int` and `unsigned int` on their way.
* Clients, strategies, tokens and engines hold references to one another, and
  helpers return clients whose strategy dies with them.

What makes each component correct:

* pipeline: one attempt per call; every verdict a caller can draw is true, at
  that moment and later; one callback for each failure of a request; every call
  returns;
* authentication: a client has a token of its own, one client for a wrapping
  token, nothing lost without a trace; construction ends;
* key/value: acknowledged writes are stored once and in order, reads see them,
  and every operation reaches the engine's mount;
* routes: operations on one thing agree on its URL, operations on different
  things do not share one, lists are complete, and only what is meant to works
  without a token;
* tokens: what is known to be revoked stays out, with its family, the rest stays
  in, and no token is made without somebody knowing where it went;
* bootstrap: an acknowledged seal or cancel is final for what went before, and who
  knows a server to be initialised holds its key, and alone;
* base64 and bodies: what comes back is what went in, or the loss can be seen;
* configuration: no reference that is read dangles, and a client goes by what its
  builder was told before it was made.

`PROJECT.json` lists every hazard at its line, with the properties that cover it
or the reason why none does.

## 2. Modules and how they correspond to the code

### AtMostOnce, the promise

Per call, `verdict` is what the caller knows and `effects` how often the server
has carried the call out. A call settled as *done* has happened, one settled as
*refused* has not and never will, and only an *unknown* one may still take
effect. `KeyValue`, `TokenTree` and `Bootstrap` are built on this module, and
`HttpConsumer` implements it.

### HttpConsumer, the pipeline

| Model | Code |
|---|---|
| `Enter`, `ShortCircuit`, `Send` | the guard in each `HttpConsumer` function, `HttpClient::executeRequest` |
| `DumpThrows` | `json.dump()` throws for a parameter that is not UTF-8: a call that is not `writable` |
| `TokenHeader` | the header is left out for an empty token |
| `Receive`, `ConnectionFails`, `RequestTimesOut`, `TransferTooSlow` | the outcome of `curl_easy_perform` in `CurlWrapper::execute` |
| `Succeed`, `HandleResponseError` | `HttpClient::is_success` and the rest of the function |
| `CallbackReturns`, `CallbackThrows` | an application's callback comes back, or throws through the library |
| `Process`, `Lose`, `Revoke` | external: the server and the network |

But for `authenticate`, the functions of `HttpConsumer` differ in the verb only, so
a call has a kind only: guarded, or unauthenticated (which passes `Token{}`), and is
`writable` if it has no body or a body that json can write.
`Sys::unwrap`, which passes the wrapping token, is in `Authentication`. A status
is a member of `StatusCodes`, 2xx to 5xx: libcurl does not hand 1xx on. The
server carries out what it answers with 2xx, may have carried out what it
answers with 5xx, and refuses what it answers with 3xx or 4xx.

### Authentication, constructors and strategies

A client's `strategy` says which constructor runs: *token* (`TokenStrategy`),
*login* (AppRole, JWT, LDAP, TLS: one request through
`HttpConsumer::authenticate`), *wrapped* (`WrappedSecretAppRoleStrategy`: an
unwrap, then a login), *derived* (`Client(const Client &, Token)`). The answer
to a login is a token, an empty `client_token`, a body json cannot make sense of,
which throws, or a refusal. A role id or a secret id that is not UTF-8 throws before
the login is sent (`LoginThrows`, `LoginWithSecretThrows`). `secret` is the local
`secretId` of the wrapped strategy: it is gone when the constructor is over, however
it ends (`Leave`). The server's wrapping tokens and uses of secret ids are external;
`unwrappedBy` tells whose request spent each token, and `deferred` are the clients
whose login wants a second factor.

### KeyValue, one secret of one mount

The operations are records (name, verb, URL, version), `Offered` is the early
return on `version_`, and `Call`, `Serve` and `Return` are the steps of
`AtMostOnce` with their request. The server's versions, deletion, undeletion and
destruction are external. A call names one version of a secret where the code
takes a vector; a vector is several such steps at once. An engine object is used
on a mount of its own version. `mount_` is written with or without a leading
slash, as the README does (`/test`) and the default does (`secret`). With
`MergesSlashes` a server takes `/v1//test/` for `/v1/test/`, which that example
needs; for a server that redirects instead, fewer operations are served and
everything checked here holds a fortiori but `ReachesMount`, which then no
spelling of the mount satisfies.

### Requests, EngineRoutes, AuthRoutes, SystemRoutes and Routes

One definition per class lists the request of each method: the `HttpConsumer`
function, the name and the pieces of the URL, with every slash between two
pieces spelled out as `S`. Names are split into a word and a noun (`readRole` is
`read`, `Role`); where the code leaves the noun out or spells it in two ways, one
spelling is used. Where a method takes several paths and only one names the
thing, the others are fixed. Health, leader and the like appear as reads. What a
method appends to the URL of its class is put together with `Itself`, `On`, `At`,
`Sub` and `Below`, or `Glued` where a slash is missing; the class's own part ends
with its slash (`Under`) or lacks it (`Bare`).

`Routes` runs any sequence of those calls against a server that stores what is
posted or put at a URL and forgets it at a `DELETE` (`Effect`), and next to it
keeps `held`, what the names of the operations promise (`Promise`, to a `Thing`).
`Astray` names the operations
whose request misses its mark, and `Lost` the classes of which every one does; the
runs and theorems that leave them out say so. `Plural` and `GetCollections` are what
the code in `src` takes for granted about Vault's collections, and `Queries` are
the endpoints that only answer a `POST` or `PUT`. These are external.

### TokenTree, tokens and wrapping

The operations of `Tokens` and the wrapping ones of `Sys`, on top of
`AtMostOnce`, with their requests taken from `AuthRoutes` and `SystemRoutes`.
`Effect` goes by the URL, `Promise` by the name of the operation, and the
properties compare the two. A program makes a client for each token it was told,
with `Client(const Client &, Token)`, and calls with any of them. `family` is the
tree of tokens there should be, `doomed` what each revocation was to end; `reply`
and `holds` are where a token is that nobody was told yet. The tree of tokens and
the store of wrapped ones are the server's, external. Time is left out: tokens
do not expire here, so `renew` only looks at the token.

### Bootstrap, a server's life

`Init`, `seal` and `unseal` of `Sys`, and `GenerateRoot`, on top of
`AtMostOnce`, called by clients with or without a token. `IsSent` is the guard of
`HttpConsumer`. The server counts the shares it was given, forgets them when it
restarts, and is external. `known` are the calls that programs know to be done, by
what they were to do, and `ended` the unseals and attempts that were known when a
seal or a cancel was called; `keys` and `roots` are the calls that the server has
answered with the shares of the key and with a root token. `sealStatus` and
`Init::read` change nothing and are in the routes only.

`StaysSealed` rests on an assumption about the server that nothing in `src`
supports: one that is sealed already refuses `seal` (`Seal`). Were it to answer 2xx
without starting over, shares handed in after an earlier seal would count on, and
the property would fail.

### Lifetimes, who refers to whom

Objects are locals of functions that call one another, up to `MaxDepth` deep.
`refs` are the references the classes keep: a client its strategy, an engine its
client, a `WrappedSecretAppRoleStrategy` its token. `Reads` is which of them an
operation follows; a client does not follow its own. `own` is the copy of the
configuration in the client, `config` the one in its `HttpClient`, `meant` what
the application had asked for. `MoveConfig` is the conversion of a builder to
`Config &&`, which leaves a builder whose strings may be gone. `ReturnObject` is a
function that returns a local, as the login helpers of the tests and examples do.
An engine is not returned without its client, nor a strategy without its token:
that is for the application to see to. That a client may be returned without its
strategy is what the run shows.

### Base64 and Payloads, what is carried

`encode` and `decode` are written place by place, in place of the loops that
append: `Quad` and `Triple` are the shifts, `find` has the truncated `npos` of
`base64_chars.find`, `Read` is where the loop of `decode` stops, `Decoded` how
many bytes come of it. `Letters` is what `isalnum` accepts in the locale of the
process. `IntMax` is the build's `INT_MAX`. The length of a text is an `unsigned
int` in `encode`, so of a longer one whole spans are left out; it is an `int` in
`decode` (`in_len`), which counts down from it. From below zero it never arrives,
and reads to the end of the text or the first foreign character (`Seen`), or
overflows on the way (`Overflows`): what the build makes of that is the constant
`Overflown`, of which nothing is assumed. The reference, `Encoding` and `Decoding`, regroups bits and shares
nothing with them but the alphabet. `Payloads` adds `create_json`, the members
`options` and `config` of `post`, the `plaintext` that callers of `Transit::encrypt`
prepare, the body of `KeyValue::create` and `update`, and
what `Transit::decrypt` and the postgres example read of an answer. A json value
is its type and its content; its text is nlohmann's and left out.

## 3. Runs

| Run | Instance | What it shows |
|---|---|---|
| `http` | 2 threads, 2 clients, 1 token, 2 calls, statuses 200, 300, 403, 503, the default limits | the safety properties of the pipeline, that it implements `AtMostOnce`, and that every call returns |
| `auth` | 2 clients, 2 secret ids with 0 to 2 logins left each, 3 wrapping tokens, 2 tokens | the safety properties of construction, and that it ends |
| `kv` | 3 calls, versions 1 and 2, both engine versions, both spellings of the mount | writes are accounted for and in order, reads are fresh |
| `kv_mount` | the same | **violated**: on a bare mount the operations on versions miss it |
| `routes_each` | each class alone, 2 instances, 3 calls, less the operations of `Astray` | operations act on their own thing, lists are complete |
| `routes_together` | all classes at once, 2 instances, 2 calls, less `Astray` | names and URLs correspond, so no class touches what another keeps; what works without a token |
| `routes_astray` | the classes of `Astray` and `Lost`, each alone | **violated**: a misspelt URL |
| `routes_named_keys` | `IdentityTokens` alone | **violated**: a listing sent as `DELETE` |
| `tokens` | a root token and a child of it, 3 calls of 12 operations | revocations are final and no wider than they say, tokens are accounted for |
| `bootstrap` | 4 calls, 2 shares which are both needed, 1 restart | seal and cancel are final, one caller holds the key |
| `lifetimes` | 5 objects, functions 2 deep | nothing dangles, clients keep their configuration |
| `payloads` | texts of up to 5 of 7 bytes, and runs of up to 32 of one of them, in a Latin-1 locale, with ints of 5 bits (`IntMax` 15); up to 3 parameters | base64 is RFC 4648's, bodies tell all, secrets are read back |

Why these bounds are enough. Calls of the pipeline share nothing but the
client's token, the set of valid tokens and the wire, so two calls on two threads
show every pair of steps; two clients, one with a token and one without or both
with one, show whose token goes where. The four statuses are one of each class,
with the first one beyond 2xx. In `auth` two clients race for one wrapping token,
or with two of one secret id, or with one that holds something else; what earlier
clients would have used up is in the initial states, where secret ids have any
number of logins left. With three key/value calls one can be in doubt, one
acknowledged and one read or delete. In `Routes` an operation and the one it is
confused with are two calls, and a third one can delete or overwrite between
them; two instances tell "this one" from "all". `routes_together` compares the
requests of all classes two by two, for which two instances are enough: a request
is about one at most. Three calls on tokens are one
that makes a child, one that revokes, and one that uses either, in a family of up
to three generations. Four calls on a server are two shares, a seal or cancel and
one that is late. Five objects are a builder, a strategy, a client, the same
client in the caller, and its engine. Texts of five bytes end in every way a
group can end, after a whole group; of the seven bytes one is the padding, two
are characters that do and do not end canonical texts, and 233 is a letter of
Latin-1. The runs of one byte (`Hold`) end before, at and after the lengths where an
encoding no longer fits an `int` (9 bytes), a text no longer fits one (15) or no
longer fits an `unsigned int` (31), so the narrowing happens in the run.

The runs say `CHECK_DEADLOCK FALSE`: applications are free to stop making calls,
and the finite sets of calls, clients and objects get used up.

### Properties

* `OneAttempt`, `AcknowledgedIsDone`, `RefusedIsFinal`, `LateRequestsAreReported`:
  what a caller may conclude from a body, from no callback or the response
  callback, and from the error callback. `KeepsPromise` says it all at once, as a
  refinement of `AtMostOnce`.
* `FailureReportedOnce`: one callback for each failure, and none for the two that
  make no request: `nullopt` for the guarded call without a token, an exception for
  parameters that json cannot write.
* `TokenOnTheWire`: every request carries its own client's token, or none.
* `EveryCallReturns`, `ConstructionEnds`: under fairness, below.
* `OwnToken`, `OneClientPerWrap`: no token reaches two clients by logging in.
* `LostTokenReported`, `LostSecretReported`, `SilentFailure`: a token the server gave
  away is held, or there was a callback or an exception; the client whose request
  spent a wrapping token goes on with the secret id, or ends with a token, or by a
  callback or an exception; the empty `client_token` is the one failure that is
  silent, and the secret id is gone then.
* `WritesAccounted`, `WritesInOrder`, `ReadsAreFresh`: writes in doubt are stored
  at most once, never before what was acknowledged when they were made, and only
  they can hide an acknowledged one.
* `ActsOnItsThing`, `ListsAreComplete`: whatever was called before, a read finds
  what was created and not deleted since, and a list names it. `NamesMatchUrls` is
  what that needs of the requests: one URL for one thing. `NothingWithoutToken`:
  only `unseal` and `unwrap` change anything without a token.
* `EndsAsMeant`, `RevokedStaysOut`: a token ends by a revocation that names it or
  an ancestor, and by nothing else; what is known to be revoked does no more.
* `NoneLeaks`: every live token is known, wrapped, under way or in doubt.
* `StaysSealed`, `CancelIsFinal`: after an acknowledged seal or cancel, what was
  known before it counts no more, whatever is still on its way.
* `KeysToOne`: a program that knows `Init::start` to be done was answered with the
  shares of the key, and no other call was or will be.
* `UsesAreLive`, `ActsAsConfigured`: see `Lifetimes`.
* `EncodesBits`, `DecodesPrefix`: against the reference. `RoundTrip`: there and
  back, through Transit too. `LossIsVisible`: encoding again shows whether
  `decode` dropped something. Each for the lengths that an `int` counts (`EncodesBits`:
  an `unsigned int`), the encoding included for `RoundTrip`; of longer texts nothing
  is promised, as the code does not keep it.
* `BodiesTellAll`, `ReadsBackItsSecret`: different parameters make different
  bodies, and a secret of strings is read back as it was written.

An operator named `X_Something` is the operator `X` with a slip in it, one for
each property: with the slip in place of `X`, the property fails.

### Fairness

`FairSpec` of `HttpConsumer` has weak fairness on each call's own steps: a thread
inside the library keeps running and libcurl's timers expire. It assumes nothing
of the server, the network or connection errors. A timer is there only if its
limit is positive (`Armed`), the defaults of `Config` being 10 seconds, 10 seconds
and 60 bytes a second; with none of them armed (`Armed_Never`) a call may hang.
`FairSpec` of `Authentication` has weak fairness on what a constructor does after
its first request, the expiry of the default timeouts included. Both assume that
callbacks come back; one that never does blocks its thread, and no code of the
library prevents that.

## 4. Proofs

`HttpConsumer_proofs` proves, for every set of threads, clients, tokens and
calls, every set of status codes from 200 to 599 with 403 in it, and every
timeout (the assumptions named in `HttpConsumer`), that `Spec` satisfies all the
safety properties of `http` and implements `AtMostOnce`.

None of those properties is inductive. That a body means a carried-out call, for
one, needs to know that the 2xx answer on the wire was sent for a call carried
out, and that no request of an answered call is left to be carried out again. The
inductive invariant `IInv` is therefore the conjunction of

* `TypeOK`;
* `Stage`: for each stage of a call, what it implies about its counters, its
  status code and its result;
* `Message`: for each request on the wire, that its call was sent, has not been
  carried out and carries the right token; for each response, that its call still
  waits and no request of it is left, and that the status tells whether the call
  was carried out.

`Invariance` is `Spec => []IInv`, action by action; the properties follow from
`IInv` in a state. `PromiseKept` maps each step to one of `AtMostOnce`, most of
them to a stutter: `Enter` is `Invoke`, a `Process` that does the work is
`TakeEffect`, and the step after which the caller can tell is `Settle`.

`Authentication_proofs` does the same for the construction of clients: any
clients, wrapping tokens, secret ids and tokens, `NoToken` being no client. The
properties need to know what is still under way. `IInv` says of each client what
its progress implies (`Stage`) and where its secret id came from (`Unwrapped`);
of each message, that a request on the wire has not been answered and that an
answer tells what the server has done (`Messages`), of which a client has one at
a time (`OneMessage`); and that the client that has spent a wrapping token is a
wrapped one that was given it (`Spender`).

`KeyValue_proofs` proves the four invariants of `kv` for any calls and versions,
for both kinds of server. Here `IInv` ties the calls to what is stored: the writes
stored are the calls that took effect, each once (`WritesStored`); what was done
when a call was made stays done (`BeforeIsDone`), so no call that can still take
effect is among it; the newest version, if there is one, is by the last write
(`NewestIsLast`); and a reply was the last write at some moment after the call was
made (`RepliesAreFresh`). That `create` and `update` post or put to an endpoint
that stores is `Operated`.

`Payloads_proofs` is first about `Base64`, for ints of any size. Group by group
`decode` undoes `encode`, in every locale: three bytes go through four sextets unchanged
(`WholeGroup`), every sextet has a character `decode` reads and finds again
(`Characters`), and it stops at the padding (`ReadToPadding`). Against the
reference, each byte and each sextet is spelled out in bits (`BitsOfByte`), of
which `Encoding` and `Decoding` cut words of another width (`BytesAreTriples`).
What `decode` makes of a text is bytes, whose encoding is canonical
(`EncodedIsCanonical`), so only a canonical text can come back, and it does
(`CanonicalComesBack`). Where the reading stops is defined by `CHOOSE`; that
there is exactly one such place is `FirstOutside`, from the least element of a set
of numbers. All of that holds of the groups of a text of whatever length. That the
text is all read is a matter of lengths: `encode` takes what an `unsigned int`
counts (`EncodesAll`), `decode` what an `int` does (`DecodesAll`), and a text is no
longer than its encoding (`Grows`). So `RoundTripForAll` is for every text whose
encoding has at most `IntMax` characters, and the others for texts of such lengths.

It then states those of the text of `Payloads`, carries the first through
Transit's envelope, and proves the rest for any names and values.
Parameters are filled in one by one (`FilledOneByOne`), each kind of value becomes
a json value that tells it (`ToldApart`), and a body has no other members
(`Created`, `Body`). What the engine answers holds what was written, for either
version (`ComesBack`).

`Bootstrap_proofs` proves the properties of `bootstrap` for any calls and clients,
shares and thresholds, and any number of restarts. `StaysSealed` and
`CancelIsFinal` are about what a step may not do, so their proof is that `IInv`
forbids it: what a served call was to undo has no part in what is under way
(`Undone`). That survives a late `unseal` or `start` because a call not yet served
is among nothing that programs know (`HaveHappened`), and because what a `seal`
ends is not what a `cancel` ends (`Apart`). `KeysToOne` holds because the shares went
to one call at most, and a call of `Init::start` that was carried out is that one
(`OneKeeper`), which hangs on its verb and its URL. `BootKeepsPromise` is that the calls
implement `AtMostOnce`.

`TokenTree_proofs` proves the properties of `tokens` for trees of any size. That
the tree the server keeps is the one the names promise, `family = line`, is part
of `IInv`, and holds because of where the requests go: `TokenEndpoints` reads that
off the URLs of `AuthRoutes` and `SystemRoutes`. The rest of `IInv` says that a
call which was not served has left no trace (`NotYet`), that what a revocation was
to end is dead (`DoomedAreDead`), and of a call that can still be served which
tokens it can be about (`InFlight`).

`Lifetimes_proofs` proves both properties of `Lifetimes` for programs of any size.
The inductive invariant says that an object, other than a client, refers to live
objects of its own function or of functions that return later (`Nested`), that
ids not given out are of no object (`FreshIds`), and that settings agree for the
dead as for the living (`AllAsMeant`).

`Routes_proofs` goes through the requests of every class: those that are sent
without a token and change something are `unseal` and `unwrap`
(`EnginesCautious`, `AuthMethodsCautious`, `SystemsCautious`), which gives
`NothingWithoutToken` for any names and any number of calls.

`RequestsCorrespond` is `NamesMatchUrls`: among all requests of all classes, the
same thing has the same URL, different things have different ones, and a list asks
where its elements are. Its hypotheses are

* `Names \cap Words = {}`: no role, key or mount is called like a piece of a URL.
  `Thing` tells what a request is about by the names among its pieces, so with a
  role called `config` it would take that word of another URL for the role. A name
  is one piece of a URL: it has no slash of its own.
* `(UNION Groups) \cap Lost = {}` and `Astray \subseteq Avoided`: the classes and
  operations of section 5 are left out, as in `routes_each` and `routes_together`,
  which satisfy all three.

Several hundred requests, two by two, are too many to compare. So the proof tells
two paths apart by their ends: whether they are empty, one piece or more (`Kind`),
by their last piece (`Last`), then by the paths above (`Parent`). URLs of one class
differ when their paths do (`Cancelled`).
Class by class it then shows that each request goes where its class's requests go
and does what its word says (`EnginesExact`, `AuthMethodsExact`, `SystemsExact`, of
`OnItsOwn`), and that on any two instances the URL is the same if and only if the
thing is (`EnginesPaired`, `AuthMethodsPaired`, `SystemsPaired`, of `InStep`).
Classes do not meet because their URLs begin with different words (`StemsDiffer`),
but for `Sys`, `ControlGroup` and `Mounts`, which share one and are compared
(`Commons`). `AllCorrespond` puts these together.

`ActsWhereItShould` and `ListsNameAll` carry this to sequences of calls of any
length, under the same hypotheses, while the run of each class stops at three. They
rest on `ActsWhereNamesMatch` and `ListsWhereNamesMatch`, which hold for any table
in which names and URLs correspond. `ActsOnItsThing` is inductive there; for lists,
the invariant is that elements are in place below their collection
(`ElementsInPlace`), and nothing of the list is kept anywhere else.

The assumptions are those named in the modules, and TLC evaluates each on a run:
the three that the proofs added say that `NoCall` is no call (`NoCallAssumption`),
that the names `TokenTree` uses are names of operations (`UsedAssumption`), and that
the groups of `Routes` are groups of its classes (`GroupsAssumption`).

Only model-checked: the two liveness properties, `EveryCallReturns` and
`ConstructionEnds`, since fairness and `ENABLED` are out of the prover's reach.
`ReachesMount` does not hold, nor do `ActsOnItsThing` and `ListsAreComplete` of what
`Astray` and `Lost` name.

## 5. What the runs found

* `KeyValue::del(path, versions)`, `destroy` and `undelete` put `/v1` and the mount
  together without a slash. On the default mount `secret` they reach nothing.
* `AliCloud`, `SSH` and `Sys::Auditing` do the same to their base, in every
  operation. `OpenLDAP::deleteStaticRole`, `Okta::login`, `Kmip::signCsr` and
  `Kmip::revokeCredential` miss one slash; `Nomad::configureLease` writes
  `config/least`.
* `AppRole::tidy` makes the request of `generateSecretId`.
* `IdentityTokens::listNamedKeys` sends a `DELETE`.

## 6. Not modelled, and why

* Vendored code: nlohmann's json, Catch2, jwt-cpp and picojson are about four
  fifths of the lines in the repository and none of the library's own logic. The
  modules describe the rest, and of nlohmann's json only what throws and when.
* The texts of certificates, namespaces and headers other than the token: no
  property tells two of them apart.
* Texts that json cannot write are in `HttpConsumer` and `Authentication`; in the
  modules on `AtMostOnce` such a call is one that was refused, as it has no effect.
* libcurl's global initialisation and running out of memory: below the level of
  the library.
* A strategy that an application uses on a client already constructed, or writes
  itself.
* The getters, comparisons and conversions of `Tiny`, and the tests and examples
  that call one operation after the other: they have no state.
* The server beyond what the properties need: leases, policies, expiry of tokens,
  key versions of Transit.

## 7. Plan

Done, in this order: `AtMostOnce`, `HttpConsumer` and its proofs,
`Authentication`, `KeyValue`, the routes, `Base64`, `Payloads`, `Lifetimes`,
`TokenTree`, `Bootstrap`, and the proofs of all of them, the last one that names
and URLs correspond for any names.

Next, in order of worth:

* `Leases`, on `TokenTree`: renewal and revocation by lease and by prefix;
* `TransitKeys`, on `AtMostOnce`: rotation, minimum versions, rewrap and decrypt in
  any order.
