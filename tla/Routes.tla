------------------------------- MODULE Routes -------------------------------
(***************************************************************************)
(* What the requests of the engine, auth method and system classes do to a *)
(* Vault server when they are called one after the other: does every       *)
(* operation act on the thing its name names, and on nothing else?         *)
(*                                                                         *)
(* The server (external to the repository) is a store of values by URL.    *)
(* Beside it, held follows what the names of the operations promise: an    *)
(* operation that creates a role leaves a role, one that deletes it leaves *)
(* none, one that reads leaves everything.                                 *)
(***************************************************************************)
EXTENDS EngineRoutes, AuthRoutes, SystemRoutes

CONSTANTS
  Names,      \* names of roles, keys, mounts, users ...
  Groups,     \* the sets of classes an application uses together
  Avoided,    \* operations, as <<class, word, noun>>, it does not call
  MaxCalls    \* bound: how many calls it makes

Classes == DOMAIN Engines("n") \cup DOMAIN AuthMethods("n") \cup DOMAIN Systems("n")

\* The operations whose request misses its mark, ...
Astray ==
  {<<"OpenLDAP", "list", "StaticRole">>, <<"OpenLDAP", "delete", "StaticRole">>,
   <<"Okta", "login", "-">>,
   <<"Kmip", "sign", "Csr">>, <<"Kmip", "revoke", "Credential">>,
   <<"Nomad", "configure", "Lease">>,
   <<"IdentityTokens", "list", "NamedKey">>,
   <<"AppRole", "tidy", "-">>}

\* ... and the classes every one of whose requests does.
Lost == {"AliCloudSecrets", "SSH", "Auditing"}

ASSUME NamesAssumption == IsFiniteSet(Names) /\ Names # {}
ASSUME GroupsAssumption == UNION Groups \subseteq Classes
ASSUME MaxCallsAssumption == MaxCalls \in Nat

VARIABLES
  classes,        \* the classes this application uses
  authenticated,  \* whether its client has a token
  calls,          \* how many calls it has made
  held,           \* the things there should be, with the call that wrote each
  server          \* what the server stores, with the call that wrote each

vars == <<classes, authenticated, calls, held, server>>

-----------------------------------------------------------------------------
(* What the name of an operation promises.                                 *)

Writers == {"create", "update", "configure", "set", "write", "enable", "tune",
            "map", "register", "reg", "blacklist", "start", "install"}

Deleters == {"delete", "del", "disable", "cancel"}

Readers == {"read", "list"}

\* What an operation on these instances with this noun is about.
Element(class, noun, instances) ==
  [class |-> class, word |-> "-", noun |-> noun, of |-> instances]

\* One thing for each noun and instance; the other words have a thing of their own.
Thing(class, o) ==
  [Element(class, o.noun, Range(o.url) \cap Names) EXCEPT
     !.word = IF o.word \in Writers \cup Deleters \cup Readers THEN @ ELSE o.word]

\* A word that promises neither is taken to change what a POST or PUT names.
Promise(o) ==
  IF o.word \in Writers THEN "write"
  ELSE IF o.word \in Deleters THEN "delete"
  ELSE IF (o.word \in Readers \cup {"lookup"}) \/ (o.verb \notin {"POST", "PUT"}) THEN "nothing"
  ELSE "write"

\* The operations of a class on one instance.
Operations(class, n) ==
  IF class \in DOMAIN Engines(n) THEN Engines(n)[class]
  ELSE IF class \in DOMAIN AuthMethods(n) THEN AuthMethods(n)[class]
  ELSE Systems(n)[class]

\* The calls of each class, with what they promise to what.
Calls ==
  [class \in UNION Groups |->
     {[thing |-> Thing(class, o), promise |-> Promise(o), verb |-> o.verb,
       word |-> o.word, noun |-> o.noun, url |-> o.url, open |-> o.open] :
        o \in {p \in UNION {Operations(class, n) : n \in Names} :
                <<class, p.word, p.noun>> \notin Avoided}}]

-----------------------------------------------------------------------------
(* The server, external to the repository.                                 *)

\* Names and slashes alternate; any other URL is no route.
Routed(url) == \A i \in 1..(Len(url) - 1) : url[i] = S <=> url[i + 1] # S

\* Questions asked with a POST or PUT.
Queries == {"lookup", "lookup-accessor", "identity/lookup"}

Stores(o) ==
  o.verb \in {"POST", "PUT"} /\ Routed(o.url) /\ Range(o.url) \cap Queries = {}

\* What a request does to what is stored at its URL.
Effect(o) ==
  IF Stores(o) THEN "write" ELSE IF o.verb = "DELETE" THEN "delete" ELSE "nothing"

\* Some collections are listed under another name than their elements have.
Plural ==
  [collection \in {"roles", "rolesets", "config/certificates"} |->
     CASE collection = "roles" -> "role"
       [] collection = "rolesets" -> "roleset"
       [] OTHER -> "config/certificate"]

\* Collections that answer a GET as well.
GetCollections == {"sys/audit", "sys/auth", "mounts", "request-headers",
                   "sys/policy", "sys/plugins/catalog"}

Lists(o) ==
  /\ Routed(o.url)
  /\ \/ o.verb = "LIST"
     \/ o.verb = "GET" /\ Range(o.url) \cap GetCollections # {}

\* The URLs below which the elements of a collection are.
Directories(o) ==
  LET directory == IF Last(o.url) = S THEN Front(o.url) ELSE o.url
  IN  {directory} \cup
      IF Last(directory) \in DOMAIN Plural
      THEN {Append(Front(directory), Plural[Last(directory)])} ELSE {}

Listed(o) ==
  {n \in Names :
     Lists(o) /\ \E d \in Directories(o) : d \o <<S, n>> \in DOMAIN server}

-----------------------------------------------------------------------------
TypeOK ==
  /\ classes \in Groups
  /\ authenticated \in BOOLEAN
  /\ calls \in 0..MaxCalls
  /\ \A thing \in DOMAIN held : held[thing] \in 1..calls
  /\ \A url \in DOMAIN server : server[url] \in 1..calls

EmptyStore == [x \in {} |-> 0]

\* (Init is a class of the system backend.)
Start ==
  /\ classes \in Groups
  /\ authenticated \in BOOLEAN
  /\ calls = 0
  /\ held = EmptyStore
  /\ server = EmptyStore

\* A store after this effect of a call on x.
After(store, effect, x, call) ==
  CASE effect = "write" ->
         [y \in DOMAIN store \cup {x} |-> IF y = x THEN call ELSE store[y]]
    [] effect = "delete" -> [y \in DOMAIN store \ {x} |-> store[y]]
    [] OTHER -> store

\* A slip: the call is made again and not counted.
Perform_Uncounted(class, o) ==
  /\ calls < MaxCalls
  /\ o.open \/ authenticated
  /\ calls' \in {calls, calls + 1}
  /\ held' = held
  /\ server' = After(server, Effect(o), o.url, calls + 1)
  /\ UNCHANGED <<classes, authenticated>>

\* One call, answered: without a token it returns before any request.
Perform(class, o) ==
  /\ calls < MaxCalls
  /\ o.open \/ authenticated
  /\ calls' = calls + 1
  /\ held' = After(held, o.promise, o.thing, calls')
  /\ server' = After(server, Effect(o), o.url, calls')
  /\ UNCHANGED <<classes, authenticated>>

Next == \E class \in classes : \E o \in Calls[class] : Perform(class, o)

Spec == Start /\ [][Next]_vars

-----------------------------------------------------------------------------
(* Correctness.                                                            *)

\* The operations that show what has become of their thing, or decide it.
Observed(o) == o.promise # "nothing" \/ o.word = "read"

\* A call does at a URL what its name promises to do to a thing.
Alike(o, url, thing) ==
  \A effect \in {"write", "delete"} :
    Effect(o) = effect /\ o.url = url <=> o.promise = effect /\ o.thing = thing

\* Of any two operations the one touches what the other one looks at exactly when
\* its name says so, ...
UrlsAreNames(used) ==
  \A class, other \in used : \A p \in Calls[class], o \in Calls[other] :
    Observed(p) => Alike(o, p.url, p.thing)

\* ... and an element of what p lists is below this one of its directories.
IsKeptIn(directory, n, class, p, used) ==
  \A other \in used : \A o \in Calls[other] :
    /\ Alike(o, directory \o <<S, n>>, Element(class, p.noun, {n}))
    /\ Effect(o) = "write" =>
         \A d \in Directories(p) :
           o.url = d \o <<S, n>> => d = directory /\ Lists(p)

ListsAreNames(used) ==
  \A class \in used : \A p \in Calls[class] : \A n \in Names :
    p.word = "list" => \E d \in Directories(p) : IsKeptIn(d, n, class, p, used)

\* Whatever was called before, every operation acts where the last operation on
\* the same thing left it: a read finds what was created and not what was deleted,
\* and no operation on another thing has touched it.
ActsOnItsThing ==
  \A class \in classes : \A o \in Calls[class] :
    Observed(o) =>
      /\ o.url \in DOMAIN server <=> o.thing \in DOMAIN held
      /\ o.thing \in DOMAIN held => server[o.url] = held[o.thing]

\* A list names the elements that were created and not deleted since.
ListsAreComplete ==
  \A class \in classes : \A o \in Calls[class] :
    o.word = "list" =>
      Listed(o) = {n \in Names : Element(class, o.noun, {n}) \in DOMAIN held}

\* Without a token nothing changes on the server but what unseal and unwrap do.
NothingWithoutToken ==
  ~authenticated =>
    \A url \in DOMAIN server : Last(url) \in {"unseal", "wrapping/unwrap"}

\* Names and URLs correspond in all the classes an application uses: operations
\* on one thing have one URL, those on different things never share one, and lists
\* look where the elements are.  It is a matter of the requests alone, so it is
\* looked at before any call is made.
NamesMatchUrls ==
  calls = 0 => UrlsAreNames(classes) /\ ListsAreNames(classes)
=============================================================================
