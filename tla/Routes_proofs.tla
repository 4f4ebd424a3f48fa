----------------------------- MODULE Routes_proofs -----------------------------
(***************************************************************************)
(* Proofs about Routes, for any names, any classes used together and any   *)
(* number of calls: what works without a token; that the requests of all   *)
(* classes build one URL for one thing, but for the classes and operations *)
(* Routes names; and that then no sequence of calls leads to an operation  *)
(* that misses its thing or a list that misses an element.                 *)
(***************************************************************************)
EXTENDS Routes, SequenceTheorems, TLAPS

-----------------------------------------------------------------------------
(* What works without a token.                                             *)

\* The endpoints that change something without a client token.
Cautiously == {"unseal", "wrapping/unwrap"}

\* Operations that all want a token.
Closed(operations) == \A o \in operations : o.open = FALSE

\* Operations that without one only ask, or go to those endpoints.
Cautious(operations) ==
  \A o \in operations : o.open => o.verb = "GET" \/ Last(o.url) \in Cautiously

\* No operation of an engine is sent without a token.
LEMMA EnginesCautious ==
  ASSUME NEW n, NEW class \in DOMAIN Engines(n)
  PROVE  Cautious(Engines(n)[class])
<1>1. /\ Closed(AWSSecrets(n)) /\ Closed(ActiveDirectory(n)) /\ Closed(AliCloudSecrets(n))
      /\ Closed(AzureSecrets(n)) /\ Closed(Consul(n)) /\ Closed(Cubbyhole(n))
  BY DEF Closed, AWSSecrets, ActiveDirectory, AliCloudSecrets, AzureSecrets, Consul,
         Cubbyhole, Class, Operation, get, list, post, put, del
<1>2. /\ Closed(Database(n)) /\ Closed(GoogleCloudSecrets(n)) /\ Closed(GoogleCloudKms(n))
  BY DEF Closed, Database, GoogleCloudSecrets, GoogleCloudKms, Class, Operation,
         get, list, post, put, del
<1>3. /\ Closed(Kmip(n)) /\ Closed(MongoDBAtlas(n)) /\ Closed(Nomad(n))
  BY DEF Closed, Kmip, MongoDBAtlas, Nomad, Class, Operation, get, list, post, put,
         del
<1>4. /\ Closed(OpenLDAP(n)) /\ Closed(Pki(n))
  BY DEF Closed, OpenLDAP, Pki, Class, Operation, get, list, post, put, del
<1>5. /\ Closed(RabbitMq(n)) /\ Closed(SSH(n)) /\ Closed(Totp(n))
  BY DEF Closed, RabbitMq, SSH, Totp, Class, Operation, get, list, post, put, del
<1>6. Closed(Transform(n))
  BY DEF Closed, Transform, Made, Kept, Class, Operation, get, list, post, put, del
<1>7. /\ Closed(Transit(n)) /\ Closed(Entity(n)) /\ Closed(EntityAlias(n))
  BY DEF Closed, Transit, Entity, EntityAlias, Class, Operation, get, list, post,
         put, del
<1>8. /\ Closed(Group(n)) /\ Closed(GroupAlias(n)) /\ Closed(IdentityTokens(n))
      /\ Closed(Lookup(n))
  BY DEF Closed, Group, GroupAlias, IdentityTokens, Lookup, Class, Operation, get,
         list, post, put, del
<1> QED BY <1>1, <1>2, <1>3, <1>4, <1>5, <1>6, <1>7, <1>8 DEF Engines, Closed, Cautious

\* No operation of an auth method is sent without a token.
LEMMA AuthMethodsCautious ==
  ASSUME NEW n, NEW class \in DOMAIN AuthMethods(n)
  PROVE  Cautious(AuthMethods(n)[class])
<1>1. /\ Closed(AWSAuth(n)) /\ Closed(AliCloudAuth(n))
  BY DEF Closed, AWSAuth, AliCloudAuth, AWSConfig, Class, Operation, get, list,
         post, put, del
<1>2. /\ Closed(AppRole(n)) /\ Closed(AzureAuth(n))
  BY DEF Closed, AppRole, AzureAuth, Class, Operation, get, list, post, put, del
<1>3. /\ Closed(CloudFoundry(n)) /\ Closed(GitHub(n)) /\ Closed(GoogleCloudAuth(n))
  BY DEF Closed, CloudFoundry, GitHub, GoogleCloudAuth, Class, Operation, get, list,
         post, put, del
<1>4. /\ Closed(JwtOidc(n)) /\ Closed(Kerberos(n)) /\ Closed(Kubernetes(n))
  BY DEF Closed, JwtOidc, Kerberos, Kubernetes, Class, Operation, get, list, post,
         put, del
<1>5. /\ Closed(Ldap(n)) /\ Closed(OCI(n)) /\ Closed(Okta(n))
  BY DEF Closed, Ldap, OCI, Okta, LdapMapping, OktaMapping, Class, Operation, get,
         list, post, put, del
<1>6. /\ Closed(Radius(n)) /\ Closed(Tls(n))
  BY DEF Closed, Radius, Tls, Class, Operation, get, list, post, put, del
<1>7. /\ Closed(Tokens(n)) /\ Closed(UserPass(n))
  BY DEF Closed, Tokens, UserPass, Class, Operation, get, list, post, put, del
<1> QED BY <1>1, <1>2, <1>3, <1>4, <1>5, <1>6, <1>7 DEF AuthMethods, Closed, Cautious

\* Of the system backend it is Sys and Init alone: they ask, unseal and unwrap.
LEMMA SystemsCautious ==
  ASSUME NEW n, NEW class \in DOMAIN Systems(n)
  PROVE  Cautious(Systems(n)[class])
<1>1. /\ Closed(Audit(n)) /\ Closed(Auditing(n)) /\ Closed(Auth(n))
      /\ Closed(ControlGroup(n)) /\ Closed(Cors(n)) /\ Closed(UI(n))
  BY DEF Closed, Audit, Auditing, Auth, ControlGroup, Cors, UI, Class, Operation, get,
         list, post, put, del
<1>2. /\ Closed(Counters(n)) /\ Closed(GenerateRoot(n)) /\ Closed(Leases(n))
      /\ Closed(License(n)) /\ Closed(MfaDuo(n)) /\ Closed(MfaOkta(n))
  BY DEF Closed, Counters, GenerateRoot, Leases, License, MfaDuo, Mfa, MfaOkta, Class,
         Operation, get, list, post, put, del
<1>3. /\ Closed(MfaPingId(n)) /\ Closed(MfaTotp(n)) /\ Closed(Mounts(n))
      /\ Closed(Namespaces(n)) /\ Closed(Plugins(n)) /\ Closed(ACL(n))
  BY DEF Closed, MfaPingId, Mfa, MfaTotp, Mounts, Namespaces, Plugins, ACL, Policies,
         Class, Operation, get, list, post, put, del
<1>4. /\ Closed(EGP(n)) /\ Closed(RGP(n)) /\ Closed(Policy(n))
      /\ Closed(Pprof(n)) /\ Closed(Raw(n)) /\ Closed(Sealwrap(n))
  BY DEF Closed, EGP, Policies, RGP, Policy, Pprof, Raw, Sealwrap, Class, Operation,
         get, list, post, put, del
<1>5. /\ Closed(Tools(n))
  BY DEF Closed, Tools, Class, Operation, get, list, post, put, del
<1>6. Cautious(Init(n))
  BY DEF Cautious, Init, Class, Operation, unauthenticated_get, put
<1>7. Cautious(Sys(n))
  <2> SUFFICES ASSUME NEW o \in Sys(n), o.open, o.verb # "GET"
               PROVE  Last(o.url) \in Cautiously
    BY DEF Cautious
  <2>1. \E word \in Cautiously : o.url = getUrl(Under("sys"), On(word))
    BY DEF Sys, Class, Operation, unauthenticated_get, unauthenticated_post, get, post,
           put, post_with_token, Cautiously
  <2> QED BY <2>1 DEF getUrl, Under, On, Last, Cautiously
<1> QED BY <1>1, <1>2, <1>3, <1>4, <1>5, <1>6, <1>7 DEF Systems, Closed, Cautious

\* The classes of the three tables are those of Classes, on whatever instance.
LEMMA OperationsCautious ==
  ASSUME NEW n, NEW class \in Classes
  PROVE  Cautious(Operations(class, n))
<1>1. /\ DOMAIN Engines(n) = DOMAIN Engines("n")
      /\ DOMAIN AuthMethods(n) = DOMAIN AuthMethods("n")
      /\ DOMAIN Systems(n) = DOMAIN Systems("n")
  BY DEF Engines, AuthMethods, Systems
<1>2. CASE class \in DOMAIN Engines(n)
  BY <1>2, EnginesCautious DEF Operations
<1>3. CASE class \notin DOMAIN Engines(n) /\ class \in DOMAIN AuthMethods(n)
  BY <1>3, AuthMethodsCautious DEF Operations
<1>4. CASE class \notin DOMAIN Engines(n) /\ class \notin DOMAIN AuthMethods(n)
  <2>1. class \in DOMAIN Systems(n)
    BY <1>1, <1>4 DEF Classes
  <2> QED BY <1>4, <2>1, SystemsCautious DEF Operations
<1> QED BY <1>2, <1>3, <1>4

\* What is in the table of the calls.
LEMMA CallsAre ==
  ASSUME NEW class \in UNION Groups, NEW o \in Calls[class]
  PROVE  /\ o.promise \in {"write", "delete", "nothing"}
         /\ \E n \in Names : \E p \in Operations(class, n) :
              o.verb = p.verb /\ o.url = p.url /\ o.open = p.open
<1>1. PICK n \in Names :
        \E p \in Operations(class, n) :
          /\ o.verb = p.verb /\ o.url = p.url /\ o.open = p.open
          /\ o.promise = Promise(p)
  <2> DEFINE All == {p \in UNION {Operations(class, n) : n \in Names} :
                       <<class, p.word, p.noun>> \notin Avoided}
  <2>1. PICK p \in All :
          o = [thing |-> Thing(class, p), promise |-> Promise(p), verb |-> p.verb,
               word |-> p.word, noun |-> p.noun, url |-> p.url, open |-> p.open]
    BY DEF Calls
  <2> QED BY <2>1
<1> QED BY <1>1 DEF Promise

\* A call that is sent without a token and stores something goes to unseal or unwrap.
LEMMA OpenCalls ==
  ASSUME NEW class \in UNION Groups, NEW o \in Calls[class], o.open, Stores(o)
  PROVE  Last(o.url) \in Cautiously
<1>1. PICK n \in Names :
        \E p \in Operations(class, n) :
          o.verb = p.verb /\ o.url = p.url /\ o.open = p.open
  BY CallsAre
<1>2. Cautious(Operations(class, n))
  BY OperationsCautious, GroupsAssumption
<1>3. o.verb # "GET"
  BY DEF Stores
<1> QED BY <1>1, <1>2, <1>3 DEF Cautious

-----------------------------------------------------------------------------
(* The stores.                                                             *)

LEMMA Effects == \A o : Effect(o) \in {"write", "delete", "nothing"}
BY DEF Effect

\* What a call leaves in a store.
LEMMA AfterIs ==
  ASSUME NEW store, NEW effect \in {"write", "delete", "nothing"}, NEW x, NEW call
  PROVE  /\ \A y : y \in DOMAIN After(store, effect, x, call) <=>
              \/ effect = "write" /\ x = y
              \/ y \in DOMAIN store /\ ~(effect = "delete" /\ x = y)
         /\ \A y \in DOMAIN After(store, effect, x, call) :
              After(store, effect, x, call)[y] =
                IF effect = "write" /\ x = y THEN call ELSE store[y]
<1>1. CASE effect = "write"
  BY <1>1 DEF After
<1>2. CASE effect = "delete"
  BY <1>2 DEF After
<1>3. CASE effect = "nothing"
  BY <1>3 DEF After
<1> QED BY <1>1, <1>2, <1>3

\* What is on the server was there or is what the call has written.
LEMMA OnServer ==
  ASSUME NEW class, NEW o, Perform(class, o), NEW url \in DOMAIN server'
  PROVE  url \in DOMAIN server \/ (Effect(o) = "write" /\ o.url = url)
<1>1. server' = After(server, Effect(o), o.url, calls')
  BY DEF Perform
<1> QED BY <1>1, AfterIs, Effects

\* The variables keep their types: what is stored was stored by a call that was made.
THEOREM RoutesTypeCorrect == Spec => []TypeOK
<1>1. Start => TypeOK
  BY MaxCallsAssumption DEF Start, TypeOK, EmptyStore
<1>2. TypeOK /\ [Next]_vars => TypeOK'
  <2> SUFFICES ASSUME TypeOK, [Next]_vars PROVE TypeOK'
    OBVIOUS
  <2>1. ASSUME NEW class \in classes, NEW o \in Calls[class], Perform(class, o)
        PROVE  TypeOK'
    <3>1. class \in UNION Groups
      BY DEF TypeOK
    <3>2. o.promise \in {"write", "delete", "nothing"}
      BY <3>1, CallsAre
    <3>3. calls \in 0..MaxCalls /\ calls' = calls + 1 /\ calls' \in 1..MaxCalls
      BY <2>1, MaxCallsAssumption DEF Perform, TypeOK
    <3>4. \A thing \in DOMAIN held' : held'[thing] \in 1..calls'
      <4>1. held' = After(held, o.promise, o.thing, calls')
        BY <2>1 DEF Perform
      <4>2. \A thing \in DOMAIN held : held[thing] \in 1..calls'
        BY <3>3 DEF TypeOK
      <4> HIDE DEF TypeOK
      <4> QED BY <3>2, <3>3, <4>1, <4>2, AfterIs
    <3>5. \A url \in DOMAIN server' : server'[url] \in 1..calls'
      <4>1. server' = After(server, Effect(o), o.url, calls')
        BY <2>1 DEF Perform
      <4>2. \A url \in DOMAIN server : server[url] \in 1..calls'
        BY <3>3 DEF TypeOK
      <4> QED BY <3>3, <4>1, <4>2, AfterIs, Effects
    <3> QED BY <2>1, <3>3, <3>4, <3>5 DEF Perform, TypeOK
  <2>2. CASE UNCHANGED vars
    BY <2>2 DEF vars, TypeOK
  <2> QED BY <2>1, <2>2 DEF Next
<1> QED BY <1>1, <1>2, PTL DEF Spec

\* Whatever is called without a token, it changes nothing on the server but by
\* Sys::unseal and Sys::unwrap (HttpConsumer sends no other request that does).
THEOREM NothingChangesUnasked == Spec => []NothingWithoutToken
<1>1. Start => NothingWithoutToken
  BY DEF Start, NothingWithoutToken, EmptyStore
<1>2. TypeOK /\ NothingWithoutToken /\ [Next]_vars => NothingWithoutToken'
  <2> SUFFICES ASSUME TypeOK, NothingWithoutToken, [Next]_vars
               PROVE  NothingWithoutToken'
    OBVIOUS
  <2>1. ASSUME NEW class \in classes, NEW o \in Calls[class], Perform(class, o)
        PROVE  NothingWithoutToken'
    <3> SUFFICES ASSUME ~authenticated, NEW url \in DOMAIN server'
                 PROVE  Last(url) \in Cautiously
      BY <2>1 DEF Perform, NothingWithoutToken, Cautiously
    <3>1. class \in UNION Groups /\ o.open
      BY <2>1 DEF TypeOK, Perform
    <3>2. url \in DOMAIN server \/ (Effect(o) = "write" /\ o.url = url)
      BY <2>1, OnServer
    <3>3. CASE url \in DOMAIN server
      BY <3>3 DEF NothingWithoutToken, Cautiously
    <3>4. CASE Effect(o) = "write" /\ o.url = url
      BY <3>1, <3>4, OpenCalls DEF Effect
    <3> QED BY <3>2, <3>3, <3>4
  <2>2. CASE UNCHANGED vars
    BY <2>2 DEF vars, NothingWithoutToken
  <2> QED BY <2>1, <2>2 DEF Next
<1> QED BY <1>1, <1>2, RoutesTypeCorrect, PTL DEF Spec

-----------------------------------------------------------------------------
(* Paths and URLs as sequences: the facts the tables are worked out with.   *)

\* A path or URL: a sequence of pieces, of whatever kind.
IsPath(path) == \E T : path \in Seq(T)

\* The pieces of a path are numbered from one.
LEMMA Indices ==
  ASSUME NEW p, IsPath(p)
  PROVE  Len(p) \in Nat /\ DOMAIN p = 1..Len(p)
BY LenProperties DEF IsPath

\* What two paths joined are.
LEMMA Joined ==
  ASSUME NEW p, NEW q, IsPath(p), IsPath(q)
  PROVE  /\ IsPath(p \o q)
         /\ Len(p \o q) = Len(p) + Len(q)
         /\ \A i \in 1..Len(p) : (p \o q)[i] = p[i]
         /\ \A i \in 1..Len(q) : (p \o q)[Len(p) + i] = q[i]
<1>1. PICK T, U : p \in Seq(T) /\ q \in Seq(U)
  BY DEF IsPath
<1>2. p \in Seq(T \cup U) /\ q \in Seq(T \cup U)
  BY <1>1
<1>3. Len(p) \in Nat /\ Len(q) \in Nat
  BY <1>2, LenProperties
<1>4. /\ p \o q \in Seq(T \cup U)
      /\ Len(p \o q) = Len(p) + Len(q)
      /\ \A i \in 1 .. Len(p) + Len(q) : (p \o q)[i] =
           IF i <= Len(p) THEN p[i] ELSE q[i - Len(p)]
  BY <1>2, ConcatProperties
<1>5. ASSUME NEW i \in 1..Len(p) PROVE (p \o q)[i] = p[i]
  <2>1. i \in 1..Len(p) + Len(q) /\ i <= Len(p)
    BY <1>3
  <2> QED BY <1>4, <2>1
<1>6. ASSUME NEW i \in 1..Len(q) PROVE (p \o q)[Len(p) + i] = q[i]
  <2>1. Len(p) + i \in 1..Len(p) + Len(q) /\ ~(Len(p) + i <= Len(p)) /\ (Len(p) + i) - Len(p) = i
    BY <1>3
  <2> QED BY <1>4, <2>1
<1> QED BY <1>4, <1>5, <1>6 DEF IsPath

\* Paths with the same pieces are the same.
LEMMA Equal ==
  ASSUME NEW p, NEW q, IsPath(p), IsPath(q), Len(p) = Len(q),
         \A i \in 1..Len(p) : p[i] = q[i]
  PROVE  p = q
<1>1. PICK T, U : p \in Seq(T) /\ q \in Seq(U)
  BY DEF IsPath
<1>2. p \in Seq(T \cup U) /\ q \in Seq(T \cup U)
  BY <1>1
<1> QED BY <1>2, SeqEqual

\* The tuples the operations write are paths.
LEMMA Short ==
  /\ IsPath(<<>>) /\ Len(<<>>) = 0
  /\ \A a : IsPath(<<a>>) /\ Len(<<a>>) = 1 /\ <<a>>[1] = a
  /\ \A a, b : IsPath(<<a, b>>) /\ Len(<<a, b>>) = 2 /\ <<a, b>>[1] = a /\ <<a, b>>[2] = b
<1>1. <<>> \in Seq({})
  OBVIOUS
<1>2. \A a : <<a>> \in Seq({a})
  OBVIOUS
<1>3. \A a, b : <<a, b>> \in Seq({a, b})
  OBVIOUS
<1> QED BY <1>1, <1>2, <1>3 DEF IsPath

\* What is below a path.
LEMMA Subs ==
  ASSUME NEW p, NEW x, IsPath(p)
  PROVE  /\ IsPath(Sub(p, x))
         /\ Len(p) \in Nat /\ Len(Sub(p, x)) = Len(p) + 2
         /\ \A i \in 1..Len(p) : Sub(p, x)[i] = p[i]
         /\ Sub(p, x)[Len(p) + 1] = S
         /\ Sub(p, x)[Len(p) + 2] = x
<1>1. IsPath(<<S, x>>) /\ Len(<<S, x>>) = 2 /\ <<S, x>>[1] = S /\ <<S, x>>[2] = x
  BY Short
<1> QED BY <1>1, Joined, Indices DEF Sub

\* The constructors of Requests make paths, ...
LEMMA Paths ==
  /\ IsPath(Itself)
  /\ \A a : IsPath(On(a))
  /\ \A p, x : IsPath(p) => IsPath(Sub(p, x))
BY Short, Subs DEF Itself, On

\* Nothing, one piece, or something below a path: what a path is told apart by.
Kind(path) == IF Len(path) < 2 THEN Len(path) ELSE 2

Parent(path) == SubSeq(path, 1, Len(path) - 2)

\* ... by which they are told apart, ...
LEMMA Kinds ==
  /\ Kind(Itself) = 0
  /\ \A a : Kind(On(a)) = 1 /\ Last(On(a)) = a
  /\ \A p, x : IsPath(p) =>
       Kind(Sub(p, x)) = 2 /\ Last(Sub(p, x)) = x /\ Parent(Sub(p, x)) = p
<1>1. Kind(Itself) = 0
  BY Short DEF Kind, Itself
<1>2. \A a : Kind(On(a)) = 1 /\ Last(On(a)) = a
  BY Short DEF Kind, On, Last
<1>3. ASSUME NEW p, NEW x, IsPath(p)
      PROVE  Kind(Sub(p, x)) = 2 /\ Last(Sub(p, x)) = x /\ Parent(Sub(p, x)) = p
  <2>1. /\ IsPath(Sub(p, x)) /\ Len(p) \in Nat /\ Len(Sub(p, x)) = Len(p) + 2
        /\ \A i \in 1..Len(p) : Sub(p, x)[i] = p[i]
        /\ Sub(p, x)[Len(p) + 2] = x
    BY <1>3, Subs
  <2>2. Kind(Sub(p, x)) = 2 /\ Last(Sub(p, x)) = x
    BY <2>1 DEF Kind, Last
  <2>3. Parent(Sub(p, x)) = p
    <3>1. PICK T : Sub(p, x) \in Seq(T)
      BY <2>1 DEF IsPath
    <3>2. Len(Sub(p, x)) - 2 = Len(p)
      BY <2>1
    <3>3. /\ SubSeq(Sub(p, x), 1, Len(p)) \in Seq(T)
          /\ Len(SubSeq(Sub(p, x), 1, Len(p))) = Len(p)
          /\ \A i \in 1..Len(p) : SubSeq(Sub(p, x), 1, Len(p))[i] = Sub(p, x)[i]
      BY <2>1, <3>1
    <3>4. IsPath(Parent(Sub(p, x))) /\ Len(Parent(Sub(p, x))) = Len(p)
          /\ \A i \in 1..Len(p) : Parent(Sub(p, x))[i] = p[i]
      BY <2>1, <3>2, <3>3 DEF Parent, IsPath
    <3> QED BY <1>3, <3>4, Equal
  <2> QED BY <2>2, <2>3
<1> QED BY <1>1, <1>2, <1>3

First(path) == path[1]

\* A path that is not empty has a piece.
LEMMA NotItself == \A p : IsPath(p) /\ p # Itself => Len(p) \in Nat \ {0}
<1> SUFFICES ASSUME NEW p, IsPath(p), Len(p) \notin Nat \ {0} PROVE p = Itself
  OBVIOUS
<1>1. Len(p) = 0
  BY Indices
<1> QED BY <1>1, Equal, Short DEF Itself

\* ... and what they begin with.
LEMMA Firsts ==
  /\ \A a : First(On(a)) = a
  /\ \A x : First(Sub(Itself, x)) = S
  /\ \A p, x : IsPath(p) /\ p # Itself => First(Sub(p, x)) = First(p)
<1>1. \A a : First(On(a)) = a
  BY Short DEF First, On
<1>2. \A x : First(Sub(Itself, x)) = S
  BY Subs, Short, Paths DEF First, Itself
<1>3. ASSUME NEW p, NEW x, IsPath(p), p # Itself PROVE First(Sub(p, x)) = First(p)
  <2>1. 1 \in 1..Len(p)
    BY <1>3, NotItself
  <2> QED BY <1>3, <2>1, Subs DEF First
<1> QED BY <1>1, <1>2, <1>3

\* Names and slashes go on alternating where two such paths meet.
LEMMA RoutedJoined ==
  ASSUME NEW p, NEW q, IsPath(p), IsPath(q), p # Itself, q # Itself, Routed(p),
         Routed(q), Last(p) = S <=> First(q) # S
  PROVE  Routed(p \o q)
<1>1. /\ Len(p) \in Nat \ {0} /\ Len(q) \in Nat \ {0}
      /\ Len(p \o q) = Len(p) + Len(q)
      /\ \A i \in 1..Len(p) : (p \o q)[i] = p[i]
      /\ \A i \in 1..Len(q) : (p \o q)[Len(p) + i] = q[i]
  BY NotItself, Joined
<1> SUFFICES ASSUME NEW i \in 1..(Len(p) + Len(q)) - 1
             PROVE  (p \o q)[i] = S <=> (p \o q)[i + 1] # S
  BY <1>1 DEF Routed
<1>2. CASE i \in 1..Len(p) - 1
  <2>1. i \in 1..Len(p) /\ i + 1 \in 1..Len(p)
    BY <1>1, <1>2
  <2> QED BY <1>1, <1>2, <2>1 DEF Routed
<1>3. CASE i = Len(p)
  <2>1. (p \o q)[i] = Last(p) /\ (p \o q)[i + 1] = First(q)
    BY <1>1, <1>3 DEF Last, First
  <2> QED BY <2>1
<1>4. CASE i > Len(p)
  <2>1. PICK j \in 1..Len(q) - 1 : i = Len(p) + j
    <3>1. i - Len(p) \in 1..Len(q) - 1 /\ i = Len(p) + (i - Len(p))
      BY <1>1, <1>4
    <3> QED BY <3>1
  <2>2. /\ j \in 1..Len(q) /\ j + 1 \in 1..Len(q)
        /\ i = Len(p) + j /\ i + 1 = Len(p) + (j + 1)
    BY <1>1, <2>1
  <2>3. q[j] = S <=> q[j + 1] # S
    BY <2>1 DEF Routed
  <2>4. (p \o q)[i] = q[j] /\ (p \o q)[i + 1] = q[j + 1]
    BY <1>1, <2>2
  <2> QED BY <2>3, <2>4
<1> QED BY <1>1, <1>2, <1>3, <1>4

\* Which of the constructors keep names and slashes alternating.
LEMMA Routeds ==
  /\ Routed(Itself)
  /\ \A a : Routed(On(a))
  /\ \A a, b : (a = S <=> b # S) => Routed(<<a, b>>)
  /\ \A p, x : IsPath(p) /\ Routed(p) /\ x # S /\ (p # Itself => Last(p) # S) =>
       Routed(Sub(p, x))
<1>1. Routed(Itself)
  BY Short DEF Routed, Itself
<1>2. \A a : Routed(On(a))
  BY Short DEF Routed, On
<1>3. ASSUME NEW a, NEW b, a = S <=> b # S PROVE Routed(<<a, b>>)
  <2>1. Len(<<a, b>>) = 2 /\ <<a, b>>[1] = a /\ <<a, b>>[2] = b
    BY Short
  <2> QED BY <1>3, <2>1 DEF Routed
<1>4. ASSUME NEW p, NEW x, IsPath(p), Routed(p), x # S, p # Itself => Last(p) # S
      PROVE  Routed(Sub(p, x))
  <2>1. /\ IsPath(<<S, x>>) /\ Routed(<<S, x>>)
        /\ <<S, x>> # Itself /\ First(<<S, x>>) = S
    BY <1>3, <1>4, Short DEF First, Itself
  <2>2. CASE p = Itself
    <3>1. Sub(p, x) = <<S, x>>
      BY <2>2 DEF Sub, Itself
    <3> QED BY <2>1, <3>1
  <2>3. CASE p # Itself
    BY <1>4, <2>1, <2>3, RoutedJoined DEF Sub
  <2> QED BY <2>2, <2>3
<1> QED BY <1>1, <1>2, <1>3, <1>4

\* The pieces of two paths joined.
LEMMA RangeJoined ==
  ASSUME NEW p, NEW q, IsPath(p), IsPath(q)
  PROVE  Range(p \o q) = Range(p) \cup Range(q)
<1>1. /\ Len(p) \in Nat /\ Len(q) \in Nat
      /\ \A i \in 1..Len(p) : (p \o q)[i] = p[i]
      /\ \A i \in 1..Len(q) : (p \o q)[Len(p) + i] = q[i]
  BY Indices, Joined
<1>2. \A y : y \in Range(p) <=> \E i \in 1..Len(p) : p[i] = y
  BY Indices DEF Range
<1>3. \A y : y \in Range(q) <=> \E i \in 1..Len(q) : q[i] = y
  BY Indices DEF Range
<1>4. \A y : y \in Range(p \o q) <=> \E i \in 1..Len(p) + Len(q) : (p \o q)[i] = y
  BY Indices, Joined DEF Range
<1>5. ASSUME NEW y \in Range(p \o q) PROVE y \in Range(p) \cup Range(q)
  <2>1. PICK i \in 1..Len(p) + Len(q) : (p \o q)[i] = y
    BY <1>4
  <2>2. CASE i \in 1..Len(p)
    BY <1>1, <1>2, <2>1, <2>2
  <2>3. CASE i \notin 1..Len(p)
    <3>1. PICK j \in 1..Len(q) : i = Len(p) + j
      <4>1. i - Len(p) \in 1..Len(q) /\ i = Len(p) + (i - Len(p))
        BY <1>1, <2>3
      <4> QED BY <4>1
    <3> QED BY <1>1, <1>3, <2>1, <3>1
  <2> QED BY <2>2, <2>3
<1>6. ASSUME NEW y \in Range(p) PROVE y \in Range(p \o q)
  <2>1. PICK i \in 1..Len(p) : p[i] = y
    BY <1>2, <1>6
  <2>2. i \in 1..Len(p) + Len(q) /\ (p \o q)[i] = y
    BY <1>1, <2>1
  <2> QED BY <1>4, <2>2
<1>7. ASSUME NEW y \in Range(q) PROVE y \in Range(p \o q)
  <2>1. PICK i \in 1..Len(q) : q[i] = y
    BY <1>3, <1>7
  <2>2. Len(p) + i \in 1..Len(p) + Len(q) /\ (p \o q)[Len(p) + i] = y
    BY <1>1, <2>1
  <2> QED BY <1>4, <2>2
<1> QED BY <1>5, <1>6, <1>7

\* The pieces of a pair.
LEMMA PairRange == \A a, b : Range(<<a, b>>) = {a, b}
BY DEF Range

\* The pieces of what the constructors make.
LEMMA Ranges ==
  /\ Range(Itself) = {}
  /\ \A a : Range(On(a)) = {a}
  /\ \A p, x : IsPath(p) => Range(Sub(p, x)) = Range(p) \cup {S, x}
<1>1. Range(Itself) = {}
  BY DEF Itself, Range
<1>2. \A a : Range(On(a)) = {a}
  BY DEF On, Range
<1>3. ASSUME NEW p, NEW x, IsPath(p) PROVE Range(Sub(p, x)) = Range(p) \cup {S, x}
  BY <1>3, PairRange, RangeJoined, Short DEF Sub
<1> QED BY <1>1, <1>2, <1>3

\* The names in a path, as sets with nothing to see inside.
Shown(path) == Range(path) \cap Names

None == {}

Only(n) == {n}

\* The names in what the constructors make.
LEMMA Showns ==
  ASSUME S \notin Names
  PROVE  /\ Shown(Itself) = None
         /\ \A a : a \notin Names => Shown(On(a)) = None
         /\ \A a : a \in Names => Shown(On(a)) = Only(a)
         /\ \A p, x : IsPath(p) /\ x \notin Names => Shown(Sub(p, x)) = Shown(p)
         /\ \A p, x : IsPath(p) /\ x \in Names /\ Shown(p) = None =>
              Shown(Sub(p, x)) = Only(x)
         /\ \A k : Only(k) # None
         /\ \A k, l : Only(k) = Only(l) => k = l
BY Ranges DEF Shown, None, Only

Inquires(path) == Range(path) \cap Queries # {}

\* Whether what they make asks a question ...
LEMMA Inquire ==
  /\ ~Inquires(Itself)
  /\ \A a : Inquires(On(a)) <=> a \in Queries
  /\ \A p, x : IsPath(p) => (Inquires(Sub(p, x)) <=> Inquires(p) \/ x \in Queries)
BY Ranges DEF Inquires, Queries, S

Collective(path) == Range(path) \cap GetCollections # {}

\* ... or lists a collection that answers a GET.
LEMMA Collect ==
  /\ ~Collective(Itself)
  /\ \A a : Collective(On(a)) <=> a \in GetCollections
  /\ \A p, x : IsPath(p) =>
       (Collective(Sub(p, x)) <=> Collective(p) \/ x \in GetCollections)
BY Ranges DEF Collective, GetCollections, S

-----------------------------------------------------------------------------
(* The URLs of a class.                                                    *)

BaseName(base) == base[1]

IsBare(base) == Len(base) = 1

\* (The names under which elements are listed are no bases.)
IsBase(base) ==
  /\ base = Under(BaseName(base)) \/ base = Bare(BaseName(base))
  /\ BaseName(base) \notin DOMAIN Plural \cup {S}

\* The bases of the classes are bases.
LEMMA Bases ==
  \A b : /\ BaseName(Under(b)) = b /\ BaseName(Bare(b)) = b
         /\ ~IsBare(Under(b)) /\ IsBare(Bare(b))
         /\ b \notin {"/", "roles", "rolesets", "config/certificates"} =>
              IsBase(Under(b)) /\ IsBase(Bare(b))
<1>1. \A b : BaseName(Under(b)) = b /\ BaseName(Bare(b)) = b
  BY Short DEF BaseName, Under, Bare
<1>2. \A b : ~IsBare(Under(b)) /\ IsBare(Bare(b))
  BY Short DEF IsBare, Under, Bare
<1>3. DOMAIN Plural = {"roles", "rolesets", "config/certificates"}
  BY DEF Plural
<1> QED BY <1>1, <1>2, <1>3 DEF IsBase, S

\* Two paths of two pieces.
LEMMA Twos ==
  ASSUME NEW p, NEW q, IsPath(p), IsPath(q)
  PROVE  Len(p) = 2 /\ Len(q) = 2 =>
           /\ IsPath(p \o q) /\ Len(p \o q) = 4
           /\ (p \o q)[1] = p[1] /\ (p \o q)[2] = p[2]
           /\ (p \o q)[3] = q[1] /\ (p \o q)[4] = q[2]
<1> DEFINE joined == p \o q
<1>1. /\ IsPath(joined) /\ Len(joined) = Len(p) + Len(q)
      /\ \A i \in 1..Len(p) : joined[i] = p[i]
      /\ \A i \in 1..Len(q) : joined[Len(p) + i] = q[i]
  BY Joined
<1> HIDE DEF joined
<1>2. ASSUME Len(p) = 2, Len(q) = 2
      PROVE  /\ IsPath(joined) /\ Len(joined) = 4
             /\ joined[1] = p[1] /\ joined[2] = p[2]
             /\ joined[3] = q[1] /\ joined[4] = q[2]
  <2>1. \A i \in {1, 2} : i \in 1..Len(p) /\ i \in 1..Len(q)
    BY <1>2
  <2> QED BY <1>1, <1>2, <2>1
<1> QED BY <1>2 DEF joined

\* What every URL of a class begins with.
Root(base) == <<"v1", S>> \o base

\* What every URL of a class has in it.
LEMMA Roots ==
  ASSUME NEW base, IsBase(base)
  PROVE  /\ IsPath(Root(base)) /\ Root(base) # Itself
         /\ Len(Root(base)) = IF IsBare(base) THEN 3 ELSE 4
         /\ Root(base)[1] = "v1" /\ Root(base)[2] = S /\ Root(base)[3] = BaseName(base)
         /\ ~IsBare(base) => Root(base)[4] = S
         /\ Last(Root(base)) = S <=> ~IsBare(base)
         /\ Range(Root(base)) = {"v1", S, BaseName(base)}
         /\ Routed(Root(base))
<1> DEFINE b == BaseName(base)
<1>1. b # S /\ (base = Under(b) \/ base = Bare(b))
  BY DEF IsBase
<1>2. CASE base = Under(b)
  <2>1. /\ IsPath(base) /\ Len(base) = 2 /\ base[1] = b /\ base[2] = S
        /\ ~IsBare(base)
    BY <1>2, Short DEF Under, IsBare
  <2>2. /\ IsPath(<<"v1", S>>) /\ Len(<<"v1", S>>) = 2
        /\ <<"v1", S>>[1] = "v1" /\ <<"v1", S>>[2] = S
    BY Short
  <2>3. /\ IsPath(Root(base)) /\ Len(Root(base)) = 4
        /\ Root(base)[1] = "v1" /\ Root(base)[2] = S
        /\ Root(base)[3] = b /\ Root(base)[4] = S
    BY <2>1, <2>2, Twos DEF Root
  <2>5. Range(Root(base)) = {"v1", S, b}
    <3>1. Range(base) = {b, S} /\ Range(<<"v1", S>>) = {"v1", S}
      BY <1>2, PairRange DEF Under
    <3> QED BY <2>1, <2>2, <3>1, RangeJoined DEF Root
  <2>6. Routed(Root(base))
    <3>1. Routed(<<"v1", S>>) /\ Routed(base)
      BY <1>1, <1>2, Routeds DEF Under, S
    <3>2. /\ <<"v1", S>> # Itself /\ base # Itself
          /\ Last(<<"v1", S>>) = S /\ First(base) # S
      BY <1>1, <2>1, <2>2, Short DEF Itself, Last, First
    <3> QED BY <2>1, <2>2, <3>1, <3>2, RoutedJoined DEF Root
  <2> QED BY <2>1, <2>3, <2>5, <2>6, Short DEF Itself, Last
<1>3. CASE base = Bare(b)
  <2>1. IsPath(base) /\ Len(base) = 1 /\ base[1] = b /\ IsBare(base)
    BY <1>3, Short DEF Bare, IsBare
  <2>2. /\ IsPath(<<"v1", S>>) /\ Len(<<"v1", S>>) = 2
        /\ <<"v1", S>>[1] = "v1" /\ <<"v1", S>>[2] = S
    BY Short
  <2>3. /\ IsPath(Root(base)) /\ Len(Root(base)) = 3
        /\ \A i \in 1..2 : Root(base)[i] = <<"v1", S>>[i]
        /\ \A i \in 1..1 : Root(base)[2 + i] = base[i]
    <3> DEFINE root == <<"v1", S>>
    <3>1. Root(base) = root \o base
      BY DEF Root
    <3>2. IsPath(root) /\ Len(root) = 2
      BY <2>2
    <3> HIDE DEF root
    <3>3. /\ IsPath(root \o base) /\ Len(root \o base) = Len(root) + Len(base)
          /\ \A i \in 1..Len(root) : (root \o base)[i] = root[i]
          /\ \A i \in 1..Len(base) : (root \o base)[Len(root) + i] = base[i]
      <4>1. IsPath(root) /\ IsPath(base)
        BY <2>1, <3>2
      <4> QED BY <4>1, Joined
    <3>4. /\ IsPath(Root(base)) /\ Len(Root(base)) = 3
          /\ \A i \in 1..2 : Root(base)[i] = root[i]
          /\ \A i \in 1..1 : Root(base)[2 + i] = base[i]
      <4> DEFINE joined == root \o base
      <4> HIDE DEF joined
      <4>1. /\ IsPath(joined) /\ Len(joined) = 2 + 1
            /\ \A i \in 1..2 : joined[i] = root[i]
            /\ \A i \in 1..1 : joined[2 + i] = base[i]
        BY <2>1, <3>2, <3>3 DEF joined
      <4> QED BY <3>1, <4>1 DEF joined
    <3> QED BY <3>4 DEF root
  <2>4. Root(base)[1] = "v1" /\ Root(base)[2] = S /\ Root(base)[3] = b
    <3>1. 1 \in 1..2 /\ 2 \in 1..2 /\ 1 \in 1..1 /\ 2 + 1 = 3
      OBVIOUS
    <3> QED BY <2>1, <2>2, <2>3, <3>1
  <2>5. Range(Root(base)) = {"v1", S, b}
    <3>1. Range(base) = {b} /\ Range(<<"v1", S>>) = {"v1", S}
      BY <1>3, PairRange, Ranges DEF Bare, On
    <3> QED BY <2>1, <2>2, <3>1, RangeJoined DEF Root
  <2>6. Routed(Root(base))
    <3>1. Routed(<<"v1", S>>) /\ Routed(base)
      BY <1>3, Routeds DEF Bare, On, S
    <3>2. /\ <<"v1", S>> # Itself /\ base # Itself
          /\ Last(<<"v1", S>>) = S /\ First(base) # S
      BY <1>1, <2>1, <2>2, Short DEF Itself, Last, First
    <3> QED BY <2>1, <2>2, <3>1, <3>2, RoutedJoined DEF Root
  <2> QED BY <1>1, <2>1, <2>3, <2>4, <2>5, <2>6, Short DEF Itself, Last
<1> QED BY <1>1, <1>2, <1>3

\* A base without a slash ends with its name.
LEMMA RootLast ==
  ASSUME NEW base, IsBase(base), IsBare(base)
  PROVE  Last(Root(base)) = BaseName(base)
BY Roots DEF Last

\* What the URL of a path has in it.
LEMMA Urls ==
  ASSUME NEW base, IsBase(base), NEW p, IsPath(p)
  PROVE  /\ IsPath(getUrl(base, p)) /\ getUrl(base, p) # Itself
         /\ Len(getUrl(base, p)) = Len(Root(base)) + Len(p)
         /\ \A i \in 1..Len(Root(base)) : getUrl(base, p)[i] = Root(base)[i]
         /\ \A i \in 1..Len(p) : getUrl(base, p)[Len(Root(base)) + i] = p[i]
         /\ getUrl(base, p)[3] = BaseName(base)
         /\ Range(getUrl(base, p)) = {"v1", S, BaseName(base)} \cup Range(p)
         /\ p # Itself => Last(getUrl(base, p)) = Last(p)
<1>1. getUrl(base, p) = Root(base) \o p
  BY DEF getUrl, Root
<1>2. /\ IsPath(getUrl(base, p))
      /\ Len(getUrl(base, p)) = Len(Root(base)) + Len(p)
      /\ \A i \in 1..Len(Root(base)) : getUrl(base, p)[i] = Root(base)[i]
      /\ \A i \in 1..Len(p) : getUrl(base, p)[Len(Root(base)) + i] = p[i]
  BY <1>1, Roots, Joined
<1>3. 3 \in 1..Len(Root(base)) /\ Len(Root(base)) \in Nat \ {0} /\ Len(p) \in Nat
  BY Roots, Indices
<1>4. getUrl(base, p)[3] = BaseName(base)
  BY <1>2, <1>3, Roots
<1>5. getUrl(base, p) # Itself
  BY <1>2, <1>3, Short DEF Itself
<1>6. Range(getUrl(base, p)) = {"v1", S, BaseName(base)} \cup Range(p)
  BY <1>1, Roots, RangeJoined
<1>7. ASSUME p # Itself PROVE Last(getUrl(base, p)) = Last(p)
  <2>1. Len(p) \in 1..Len(p)
    BY <1>7, NotItself
  <2> QED BY <1>2, <2>1 DEF Last
<1> QED BY <1>2, <1>4, <1>5, <1>6, <1>7

\* Different paths of a class are different URLs.
LEMMA Cancelled ==
  ASSUME NEW base, IsBase(base), NEW p, IsPath(p), NEW q, IsPath(q),
         getUrl(base, p) = getUrl(base, q)
  PROVE  p = q
<1>1. Len(Root(base)) \in Nat /\ Len(p) \in Nat /\ Len(q) \in Nat
  BY Roots, Indices
<1>2. Len(p) = Len(q)
  BY <1>1, Urls
<1>3. ASSUME NEW i \in 1..Len(p) PROVE p[i] = q[i]
  <2>1. getUrl(base, p)[Len(Root(base)) + i] = p[i]
    BY Urls
  <2>2. getUrl(base, q)[Len(Root(base)) + i] = q[i]
    BY <1>2, Urls
  <2> QED BY <2>1, <2>2
<1> QED BY <1>2, <1>3, Equal

\* The operations of the class itself are at its root.
LEMMA RootItself ==
  ASSUME NEW base, IsBase(base)
  PROVE  getUrl(base, Itself) = Root(base)
<1>1. /\ IsPath(getUrl(base, Itself)) /\ IsPath(Root(base)) /\ Len(Itself) = 0
      /\ Len(Root(base)) \in Nat
      /\ Len(getUrl(base, Itself)) = Len(Root(base)) + Len(Itself)
      /\ \A i \in 1..Len(Root(base)) : getUrl(base, Itself)[i] = Root(base)[i]
  BY Urls, Roots, Paths, Short, Indices DEF Itself
<1> QED BY <1>1, Equal

\* The URL of a path is as well-formed as the path is after its base.
LEMMA RoutedUrls ==
  ASSUME NEW base, IsBase(base), NEW p, IsPath(p), Routed(p),
         p # Itself => (First(p) = S <=> IsBare(base))
  PROVE  Routed(getUrl(base, p))
<1>1. CASE p = Itself
  <2>1. getUrl(base, p) = Root(base)
    BY <1>1, RootItself
  <2> QED BY <2>1, Roots
<1>2. CASE p # Itself
  <2>1. getUrl(base, p) = Root(base) \o p
    BY DEF getUrl, Root
  <2> QED BY <1>2, <2>1, Roots, RoutedJoined
<1> QED BY <1>1, <1>2

-----------------------------------------------------------------------------
(* What a name may not be, and what the URLs of each class begin with.     *)

\* The words of the URLs.
Words ==
  {".well-known/keys", ".well-known/openid-configuration", "/", "accessors", "ad",
   "admin-destroy", "admin-generate", "algorithm", "alicloud", "alphabet",
   "attempt", "audit-hash", "auth/alicloud", "auth/approle/role", "auth/aws",
   "auth/azure", "auth/cert", "auth/cf", "auth/gcp", "auth/github", "auth/jwt",
   "auth/kerberos", "auth/kubernetes", "auth/ldap", "auth/oci", "auth/okta",
   "auth/radius", "auth/token", "auth/userpass", "aws", "azure", "backup",
   "batch-delete", "ca", "ca/pem", "ca_chain", "cache-config", "capabilities",
   "capabilities-accessor", "capabilities-self", "cert", "certs", "certs/revoked",
   "check-in", "check-out", "cmdline", "code", "config", "config/access",
   "config/ca", "config/certificate", "config/certificates", "config/client",
   "config/connection", "config/control-group", "config/crl", "config/identity",
   "config/ldap", "config/lease", "config/least", "config/root",
   "config/rotate-root", "config/state/sanitized", "config/sts",
   "config/tidy/identity-whitelist", "config/tidy/roletag-blacklist", "config/urls",
   "config/zeroaddress", "consul", "control-group/authorize",
   "control-group/request", "count", "create", "create-orphan", "credential",
   "credential/generate", "credential/lookup", "credential/revoke",
   "credential/sign", "creds", "crl/pem", "crl/rotate", "crls", "cubbyhole",
   "custom-secret-id", "database", "datakey/plaintext", "datakey/wrapped", "decode",
   "decrypt", "destroy", "encode", "encrypt", "entities", "entity", "export/type",
   "gcp", "gcpkms", "generate", "goroutine", "group", "groups", "hash", "health",
   "heap", "hmac", "host-info", "id", "identity-whitelist", "identity/entity",
   "identity/entity-alias", "identity/group", "identity/group-alias",
   "identity/lookup", "identity/oidc", "intermediate/generate",
   "intermediate/set-signed", "internal/specs/openapi", "internal/ui/mounts",
   "introspect", "issue", "key", "key-status", "keys", "keys/config",
   "keys/deregister", "keys/register", "keys/rotate", "keys/trim", "kmip", "labels",
   "leader", "library", "library/manage", "login", "lookup", "lookup-accessor",
   "lookup-self", "map/teams", "map/users", "merge", "metadata", "metrics",
   "mongodbatlas", "mounts", "name", "nomad", "oidc/auth_url", "oidc/callback",
   "openldap", "password", "pki", "plugins/reload/backend", "policies", "profile",
   "public_key", "rabbitmq", "random", "reencrypt", "remount", "renew",
   "renew-accessor", "renew-self", "request-headers", "requests", "reset",
   "restore", "revoke", "revoke-accessor", "revoke-force", "revoke-orphan",
   "revoke-prefix", "revoke-self", "rewrap", "role", "role-id", "roles", "roleset",
   "rolesets", "roletag-blacklist", "root", "root/generate",
   "root/sign-intermediate", "root/sign-self-issued", "rotate", "rotate-key",
   "rotate-role", "rotate-root", "sc", "schema", "scope", "seal", "seal-status",
   "secret-id", "secret-id-accessor", "service-accounts", "sign", "sign-verbatim",
   "ssh", "static-cred", "static-creds", "static-role", "static-roles", "status",
   "step-down", "store", "sts", "symbol", "sys", "sys/audit", "sys/auth",
   "sys/config/auditing", "sys/config/cors", "sys/config/ui/headers",
   "sys/generate-root", "sys/init", "sys/internal/counters", "sys/leases",
   "sys/license", "sys/mfa/method/duo", "sys/mfa/method/okta",
   "sys/mfa/method/pingid", "sys/mfa/method/totp", "sys/namespaces",
   "sys/plugins/catalog", "sys/policies/acl", "sys/policies/egp",
   "sys/policies/rgp", "sys/policy", "sys/pprof", "sys/raw", "sys/sealwrap/rewrap",
   "sys/tools", "tag", "template", "tidy", "tidy/identity-whitelist",
   "tidy/roletag-blacklist", "token", "tokenized", "tokens", "totp", "trace",
   "transform", "transformation", "transformation/fpe", "transformation/masking",
   "transformation/tokenization", "transit", "trim", "tune", "type", "unseal",
   "update", "users", "v1", "validate", "verify", "version", "wrapping",
   "wrapping/rewrap", "wrapping/unwrap", "wrapping/wrap"}

\* The base names of the classes.
Stems ==
  [AWSSecrets |-> "aws", ActiveDirectory |-> "ad", AzureSecrets |-> "azure",
   Consul |-> "consul", Cubbyhole |-> "cubbyhole", Database |-> "database",
   GoogleCloudSecrets |-> "gcp", GoogleCloudKms |-> "gcpkms", Kmip |-> "kmip",
   MongoDBAtlas |-> "mongodbatlas", Nomad |-> "nomad", OpenLDAP |-> "openldap",
   Pki |-> "pki", RabbitMq |-> "rabbitmq", Totp |-> "totp",
   Transform |-> "transform", Transit |-> "transit", Entity |-> "identity/entity",
   EntityAlias |-> "identity/entity-alias", Group |-> "identity/group",
   GroupAlias |-> "identity/group-alias", IdentityTokens |-> "identity/oidc",
   Lookup |-> "identity/lookup", AWSAuth |-> "auth/aws",
   AliCloudAuth |-> "auth/alicloud", AppRole |-> "auth/approle/role",
   AzureAuth |-> "auth/azure", CloudFoundry |-> "auth/cf",
   GitHub |-> "auth/github", GoogleCloudAuth |-> "auth/gcp",
   JwtOidc |-> "auth/jwt", Kerberos |-> "auth/kerberos",
   Kubernetes |-> "auth/kubernetes", Ldap |-> "auth/ldap", OCI |-> "auth/oci",
   Okta |-> "auth/okta", Radius |-> "auth/radius", Tls |-> "auth/cert",
   Tokens |-> "auth/token", UserPass |-> "auth/userpass", Sys |-> "sys",
   Audit |-> "sys/audit", Auth |-> "sys/auth", ControlGroup |-> "sys",
   Cors |-> "sys/config/cors", UI |-> "sys/config/ui/headers",
   Counters |-> "sys/internal/counters", GenerateRoot |-> "sys/generate-root",
   Init |-> "sys/init", Leases |-> "sys/leases", License |-> "sys/license",
   MfaDuo |-> "sys/mfa/method/duo", MfaOkta |-> "sys/mfa/method/okta",
   MfaPingId |-> "sys/mfa/method/pingid", MfaTotp |-> "sys/mfa/method/totp",
   Mounts |-> "sys", Namespaces |-> "sys/namespaces",
   Plugins |-> "sys/plugins/catalog", ACL |-> "sys/policies/acl",
   EGP |-> "sys/policies/egp", RGP |-> "sys/policies/rgp", Policy |-> "sys/policy",
   Pprof |-> "sys/pprof", Raw |-> "sys/raw", Sealwrap |-> "sys/sealwrap/rewrap",
   Tools |-> "sys/tools"]

\* The names in a URL are those in its path.
LEMMA ShownUrls ==
  ASSUME Names \cap Words = {}, NEW base, IsBase(base), BaseName(base) \notin Names,
         NEW p, IsPath(p)
  PROVE  Shown(getUrl(base, p)) = Shown(p)
<1>1. "v1" \notin Names /\ S \notin Names
  BY DEF Words, S
<1>2. Range(getUrl(base, p)) = {"v1", S, BaseName(base)} \cup Range(p)
  BY Urls
<1> QED BY <1>1, <1>2 DEF Shown

-----------------------------------------------------------------------------
(* Lists.                                                                  *)

\* The classes whose lists are in the plural and their elements in the singular.
Singular == {"AliCloudAuth", "AWSAuth", "GoogleCloudAuth", "GoogleCloudSecrets"}

\* The path of the singular, ...
Singly(path) ==
  IF path # Itself /\ Last(path) \in DOMAIN Plural
  THEN Append(Front(path), Plural[Last(path)]) ELSE path

\* ... the path below which the elements are, and those below which the server looks.
Home(class, path) == IF class \in Singular THEN Singly(path) ELSE path

Dirs(path) == {path, Singly(path)}

\* The path of an element.
In(base, path, k) == IF path = Itself /\ ~IsBare(base) THEN On(k) ELSE Sub(path, k)

\* A path without its last piece.
LEMMA Fronts ==
  ASSUME NEW p, IsPath(p), p # Itself
  PROVE  /\ IsPath(Front(p)) /\ Len(Front(p)) = Len(p) - 1
         /\ \A i \in 1..Len(p) - 1 : Front(p)[i] = p[i]
<1>1. PICK T : p \in Seq(T)
  BY DEF IsPath
<1>2. Len(p) \in Nat \ {0}
  BY NotItself
<1>3. PICK m \in Nat : m = Len(p) - 1 /\ m <= Len(p)
  <2> DEFINE k == Len(p)
  <2>1. k \in Nat \ {0}
    BY <1>2
  <2> HIDE DEF k
  <2>2. k - 1 \in Nat /\ k - 1 <= k
    BY <2>1
  <2> QED BY <2>2 DEF k
<1>4. /\ SubSeq(p, 1, m) \in Seq(T)
      /\ Len(SubSeq(p, 1, m)) = m
      /\ \A i \in 1..m : SubSeq(p, 1, m)[i] = p[i]
  BY <1>1, <1>3
<1>5. Front(p) = SubSeq(p, 1, m)
  BY <1>3 DEF Front
<1> QED BY <1>3, <1>4, <1>5 DEF IsPath

\* A path with one more piece.
LEMMA Appended ==
  ASSUME NEW p, NEW x, IsPath(p)
  PROVE  /\ IsPath(Append(p, x)) /\ Len(Append(p, x)) = Len(p) + 1
         /\ \A i \in 1..Len(p) : Append(p, x)[i] = p[i]
         /\ Append(p, x)[Len(p) + 1] = x
<1>1. PICK T : p \in Seq(T)
  BY DEF IsPath
<1>2. p \in Seq(T \cup {x})
  BY <1>1
<1> QED BY <1>2, AppendProperties DEF IsPath

Behind(h, p) == h \o p

Exchange(p, x) == Append(Front(p), x)

\* The last piece of a URL with a path is exchanged in the path.
LEMMA Exchanged ==
  ASSUME NEW h, NEW p, NEW x, IsPath(h), IsPath(p), p # Itself
  PROVE  Exchange(Behind(h, p), x) = Behind(h, Exchange(p, x))
<1> DEFINE url == h \o p
           path == Append(Front(p), x)
           joined == h \o path
           changed == Append(Front(url), x)
<1>1. Len(h) \in Nat /\ Len(p) \in Nat \ {0}
  BY Indices, NotItself
<1>2. /\ IsPath(url) /\ Len(url) = Len(h) + Len(p)
      /\ \A i \in 1..Len(h) : url[i] = h[i]
      /\ \A i \in 1..Len(p) : url[Len(h) + i] = p[i]
  BY Joined
<1>3. /\ IsPath(path) /\ Len(path) = Len(p)
      /\ \A i \in 1..Len(p) - 1 : path[i] = p[i]
      /\ path[Len(p)] = x
  <2>1. /\ IsPath(Front(p)) /\ Len(Front(p)) = Len(p) - 1
        /\ \A i \in 1..Len(p) - 1 : Front(p)[i] = p[i]
    BY Fronts
  <2>2. /\ IsPath(path) /\ Len(path) = Len(Front(p)) + 1
        /\ \A i \in 1..Len(Front(p)) : path[i] = Front(p)[i]
        /\ path[Len(Front(p)) + 1] = x
    BY <2>1, Appended
  <2> HIDE DEF path
  <2>3. Len(Front(p)) + 1 = Len(p)
    BY <1>1, <2>1
  <2> QED BY <2>1, <2>2, <2>3
<1> HIDE DEF url, path
<1>4. /\ IsPath(joined) /\ Len(joined) = Len(h) + Len(p)
      /\ \A i \in 1..Len(h) : joined[i] = h[i]
      /\ \A i \in 1..Len(p) : joined[Len(h) + i] = path[i]
  <2>1. /\ IsPath(joined) /\ Len(joined) = Len(h) + Len(path)
        /\ \A i \in 1..Len(h) : joined[i] = h[i]
        /\ \A i \in 1..Len(path) : joined[Len(h) + i] = path[i]
    <3>1. IsPath(path)
      BY <1>3
    <3> QED BY <3>1, Joined
  <2> HIDE DEF joined
  <2> QED BY <1>3, <2>1
<1> HIDE DEF joined
<1>5. url # Itself
  BY <1>1, <1>2, Short DEF Itself
<1>6. /\ IsPath(changed) /\ Len(changed) = Len(h) + Len(p)
      /\ \A i \in 1..(Len(h) + Len(p)) - 1 : changed[i] = url[i]
      /\ changed[Len(h) + Len(p)] = x
  <2>1. /\ IsPath(Front(url)) /\ Len(Front(url)) = (Len(h) + Len(p)) - 1
        /\ \A i \in 1..(Len(h) + Len(p)) - 1 : Front(url)[i] = url[i]
    BY <1>2, <1>5, Fronts
  <2>2. /\ IsPath(changed) /\ Len(changed) = Len(Front(url)) + 1
        /\ \A i \in 1..Len(Front(url)) : changed[i] = Front(url)[i]
        /\ changed[Len(Front(url)) + 1] = x
    BY <2>1, Appended
  <2> HIDE DEF changed
  <2>3. Len(Front(url)) + 1 = Len(h) + Len(p)
    BY <1>1, <2>1
  <2> QED BY <2>1, <2>2, <2>3
<1> HIDE DEF changed
<1>7. ASSUME NEW i \in 1..Len(h) + Len(p) PROVE changed[i] = joined[i]
  <2>1. CASE i \in 1..Len(h)
    <3>1. i \in 1..(Len(h) + Len(p)) - 1
      BY <1>1, <2>1
    <3> QED BY <1>2, <1>4, <1>6, <2>1, <3>1
  <2>2. CASE i = Len(h) + Len(p)
    <3>1. Len(p) \in 1..Len(p)
      BY <1>1
    <3>2. joined[i] = path[Len(p)]
      BY <1>4, <2>2, <3>1
    <3> QED BY <1>3, <1>6, <2>2, <3>2
  <2>3. CASE i \notin 1..Len(h) /\ i # Len(h) + Len(p)
    <3> DEFINE j == i - Len(h)
    <3>1. /\ j \in 1..Len(p) - 1 /\ j \in 1..Len(p) /\ i = Len(h) + j
          /\ i \in 1..(Len(h) + Len(p)) - 1
      BY <1>1, <2>3
    <3> HIDE DEF j
    <3>2. changed[i] = p[j]
      BY <1>2, <1>6, <3>1
    <3>3. joined[i] = p[j]
      BY <1>3, <1>4, <3>1
    <3> QED BY <3>2, <3>3
  <2> QED BY <2>1, <2>2, <2>3
<1>8. changed = joined
  BY <1>4, <1>6, <1>7, Equal
<1> QED BY <1>8 DEF changed, joined, url, path, Behind, Exchange

-----------------------------------------------------------------------------
(* Operations, by their parts.                                             *)

VerbOf(o) == o.verb

WordOf(o) == o.word

NounOf(o) == o.noun

UrlOf(o) == o.url

\* What a path below the URL's is below.
LEMMA Deeper ==
  ASSUME NEW h, NEW p, NEW k, IsPath(h), IsPath(p)
  PROVE  Sub(Behind(h, p), k) = Behind(h, Sub(p, k))
<1>1. PICK T, U : h \in Seq(T) /\ p \in Seq(U)
  BY DEF IsPath
<1>2. <<S, k>> \in Seq({S, k})
  OBVIOUS
<1>3. /\ h \in Seq(T \cup U \cup {S, k}) /\ p \in Seq(T \cup U \cup {S, k})
      /\ <<S, k>> \in Seq(T \cup U \cup {S, k})
  BY <1>1, <1>2
<1> DEFINE tail == <<S, k>>
<1>4. \A A : \A s1, s2, s3 \in Seq(A) : (s1 \o s2) \o s3 = s1 \o (s2 \o s3)
  BY ConcatAssociative
<1>5. tail \in Seq(T \cup U \cup {S, k}) /\ Sub(p, k) = p \o tail
  BY <1>3 DEF Sub
<1> HIDE DEF tail
<1>6. (h \o p) \o tail = h \o (p \o tail)
  BY <1>3, <1>4, <1>5
<1> QED BY <1>5, <1>6 DEF tail, Sub, Behind

\* Where the elements of a list are at the URLs of its class.
Directory(o) == IF Last(o.url) = S THEN Front(o.url) ELSE o.url

Place(class, o) ==
  IF class \in Singular /\ Last(Directory(o)) \in DOMAIN Plural
  THEN Append(Front(Directory(o)), Plural[Last(Directory(o))]) ELSE Directory(o)

\* The URL of a path taken as a directory.
Above(base, path) ==
  IF path = Itself /\ ~IsBare(base) THEN Root(Bare(BaseName(base))) ELSE getUrl(base, path)

\* Of a base with its slash the directory is the one without.
LEMMA Slashes ==
  ASSUME NEW base, IsBase(base), ~IsBare(base)
  PROVE  /\ IsBase(Bare(BaseName(base)))
         /\ Front(Root(base)) = Root(Bare(BaseName(base)))
         /\ \A k : Root(Bare(BaseName(base))) \o <<S, k>> = getUrl(base, On(k))
<1> DEFINE short == Root(Bare(BaseName(base)))
<1>1. BaseName(base) \notin DOMAIN Plural \cup {S}
  BY DEF IsBase
<1>2. IsBase(Bare(BaseName(base)))
  BY <1>1, Bases DEF Plural, S
<1>3. /\ IsPath(short) /\ Len(short) = 3
      /\ short[1] = "v1" /\ short[2] = S /\ short[3] = BaseName(base)
  BY <1>2, Bases, Roots
<1>4. /\ IsPath(Root(base)) /\ Root(base) # Itself /\ Len(Root(base)) = 4
      /\ Root(base)[1] = "v1" /\ Root(base)[2] = S
      /\ Root(base)[3] = BaseName(base) /\ Root(base)[4] = S
  BY Roots
<1> HIDE DEF short
<1>5. Front(Root(base)) = short
  <2> DEFINE root == Root(base)
  <2>0. /\ IsPath(Front(root)) /\ Len(Front(root)) = Len(root) - 1
        /\ \A i \in 1..Len(root) - 1 : Front(root)[i] = root[i]
    <3>1. IsPath(root) /\ root # Itself
      BY Roots
    <3> HIDE DEF root
    <3> QED BY <3>1, Fronts
  <2>1. /\ IsPath(Front(Root(base))) /\ Len(Front(Root(base))) = 3
        /\ \A i \in 1..3 : Front(Root(base))[i] = Root(base)[i]
    <3>1. Len(root) - 1 = 3
      BY <1>4
    <3> QED BY <2>0, <3>1
  <2>2. ASSUME NEW i \in 1..3 PROVE Front(Root(base))[i] = short[i]
    <3>1. i = 1 \/ i = 2 \/ i = 3
      OBVIOUS
    <3> QED BY <1>3, <1>4, <2>1, <3>1
  <2> QED BY <1>3, <2>1, <2>2, Equal
<1>6. ASSUME NEW k PROVE short \o <<S, k>> = getUrl(base, On(k))
  <2> DEFINE below == Sub(short, k)
  <2>1. /\ IsPath(below) /\ Len(below) = 5
        /\ \A i \in 1..3 : below[i] = short[i]
        /\ below[4] = S /\ below[5] = k
    <3>1. /\ IsPath(below) /\ Len(below) = Len(short) + 2
          /\ \A i \in 1..Len(short) : below[i] = short[i]
          /\ below[Len(short) + 1] = S /\ below[Len(short) + 2] = k
      <4>1. IsPath(short)
        BY <1>3
      <4> QED BY <4>1, Subs
    <3> HIDE DEF below
    <3> QED BY <1>3, <3>1
  <2> DEFINE url == getUrl(base, On(k))
  <2>2. /\ IsPath(url) /\ Len(url) = 5
        /\ \A i \in 1..4 : url[i] = Root(base)[i]
        /\ url[5] = k
    <3>1. IsPath(On(k)) /\ Len(On(k)) = 1 /\ On(k)[1] = k
      BY Short DEF On
    <3>2. /\ IsPath(url) /\ Len(url) = Len(Root(base)) + Len(On(k))
          /\ \A i \in 1..Len(Root(base)) : url[i] = Root(base)[i]
          /\ \A i \in 1..Len(On(k)) : url[Len(Root(base)) + i] = On(k)[i]
      <4> DEFINE path == On(k)
      <4>1. IsPath(path)
        BY <3>1
      <4> HIDE DEF path
      <4>2. /\ IsPath(getUrl(base, path)) /\ Len(getUrl(base, path)) = Len(Root(base)) + Len(path)
            /\ \A i \in 1..Len(Root(base)) : getUrl(base, path)[i] = Root(base)[i]
            /\ \A i \in 1..Len(path) : getUrl(base, path)[Len(Root(base)) + i] = path[i]
        BY <4>1, Urls
      <4> QED BY <4>2 DEF path
    <3> HIDE DEF url
    <3> QED BY <1>4, <3>1, <3>2
  <2>3. short \o <<S, k>> = below
    BY DEF Sub
  <2> HIDE DEF below, url
  <2>4. ASSUME NEW i \in 1..5 PROVE below[i] = url[i]
    <3>1. i = 1 \/ i = 2 \/ i = 3 \/ i = 4 \/ i = 5
      OBVIOUS
    <3>2. 1 \in 1..3 /\ 2 \in 1..3 /\ 3 \in 1..3
      OBVIOUS
    <3>3. 1 \in 1..4 /\ 2 \in 1..4 /\ 3 \in 1..4 /\ 4 \in 1..4
      OBVIOUS
    <3> QED BY <1>3, <1>4, <2>1, <2>2, <3>1, <3>2, <3>3
  <2>5. below = url
    BY <2>1, <2>2, <2>4, Equal
  <2> QED BY <2>3, <2>5 DEF url
<1> QED BY <1>2, <1>5, <1>6 DEF short

\* What is below a directory is at the URLs of the elements.
LEMMA Elements ==
  ASSUME NEW base, IsBase(base), NEW p, IsPath(p), NEW k
  PROVE  /\ Above(base, p) \o <<S, k>> = getUrl(base, In(base, p, k))
         /\ IsPath(In(base, p, k))
<1>1. CASE p = Itself /\ ~IsBare(base)
  BY <1>1, Slashes, Paths DEF Above, In
<1>2. CASE ~(p = Itself /\ ~IsBare(base))
  <2> DEFINE root == Root(base)
  <2>1. IsPath(root)
    BY Roots
  <2>2. \A q : getUrl(base, q) = Behind(root, q)
    BY DEF getUrl, Root, Behind
  <2> HIDE DEF root
  <2>3. Sub(Behind(root, p), k) = Behind(root, Sub(p, k))
    BY <2>1, Deeper
  <2>4. getUrl(base, p) \o <<S, k>> = getUrl(base, Sub(p, k))
    BY <2>2, <2>3 DEF Sub
  <2> QED BY <1>2, <2>4, Paths DEF Above, In
<1> QED BY <1>1, <1>2

\* The directories of a list are those of its path.
LEMMA Places ==
  ASSUME NEW class, NEW base, IsBase(base), NEW p, IsPath(p), p # Itself => Last(p) # S,
         NEW o, UrlOf(o) = getUrl(base, p)
  PROVE  /\ IsPath(Singly(p))
         /\ Directories(o) = {Above(base, d) : d \in Dirs(p)}
         /\ Place(class, o) = Above(base, Home(class, p))
<1> DEFINE directory == Directory(o)
<1>1. CASE p = Itself
  <2>1. getUrl(base, p) = Root(base)
    BY <1>1, RootItself
  <2>2. directory = Above(base, p) /\ Last(directory) = BaseName(base)
    <3>1. CASE IsBare(base)
      BY <1>1, <2>1, <3>1, Roots, RootLast DEF Directory, UrlOf, Above
    <3>2. CASE ~IsBare(base)
      BY <1>1, <2>1, <3>2, Roots, Slashes, RootLast, Bases DEF Directory, UrlOf, Above
    <3> QED BY <3>1, <3>2
  <2>3. Last(directory) \notin DOMAIN Plural
    BY <2>2 DEF IsBase
  <2>4. Singly(p) = p
    BY <1>1 DEF Singly
  <2> QED BY <2>2, <2>3, <2>4 DEF Directories, Directory, Place, Home, Dirs
<1>2. CASE p # Itself
  <2>1. directory = getUrl(base, p) /\ Last(directory) = Last(p)
    BY <1>2, Urls DEF Directory, UrlOf
  <2>2. Above(base, p) = directory
    BY <1>2, <2>1 DEF Above
  <2>3. CASE Last(p) \in DOMAIN Plural
    <3> DEFINE x == Plural[Last(p)]
    <3>1. Singly(p) = Append(Front(p), x) /\ IsPath(Singly(p)) /\ Singly(p) # Itself
      <4>1. IsPath(Front(p))
        BY <1>2, Fronts
      <4>2. /\ IsPath(Append(Front(p), x))
            /\ Len(Append(Front(p), x)) = Len(Front(p)) + 1
            /\ Len(Front(p)) \in Nat
        BY <4>1, Appended, Indices
      <4>3. Append(Front(p), x) # Itself
        BY <4>2, Short DEF Itself
      <4> QED BY <1>2, <2>3, <4>2, <4>3 DEF Singly
    <3>2. Append(Front(directory), x) = Above(base, Singly(p))
      <4> DEFINE root == Root(base)
      <4>1. IsPath(root)
        BY Roots
      <4>2. \A q : getUrl(base, q) = Behind(root, q)
        BY DEF getUrl, Root, Behind
      <4> HIDE DEF root, x
      <4>3. Exchange(Behind(root, p), x) = Behind(root, Exchange(p, x))
        BY <1>2, <4>1, Exchanged
      <4> QED BY <2>1, <3>1, <4>2, <4>3 DEF Above, Exchange
    <3> QED BY <2>1, <2>2, <2>3, <3>1, <3>2 DEF Directories, Directory, Place, Home, Dirs
  <2>4. CASE Last(p) \notin DOMAIN Plural
    <3>1. Singly(p) = p
      BY <2>4 DEF Singly
    <3> QED BY <2>1, <2>2, <2>4, <3>1 DEF Directories, Directory, Place, Home, Dirs
  <2> QED BY <2>3, <2>4
<1> QED BY <1>1, <1>2

\* One piece exchanged for another.
LEMMA Exchanges ==
  /\ \A a, x : Exchange(On(a), x) = On(x)
  /\ \A a : Last(On(a)) = a /\ On(a) # Itself
<1>1. \A a, x : Exchange(On(a), x) = On(x)
  <2>1. SUFFICES ASSUME NEW a, NEW x PROVE Exchange(On(a), x) = On(x)
    OBVIOUS
  <2>2. IsPath(On(a)) /\ On(a) # Itself /\ Len(On(a)) = 1
    BY Short DEF On, Itself
  <2>3. IsPath(Front(On(a))) /\ Len(Front(On(a))) = 0
    <3> DEFINE path == On(a)
    <3> HIDE DEF path
    <3>1. IsPath(Front(path)) /\ Len(Front(path)) = Len(path) - 1
      BY <2>2, Fronts DEF path
    <3> QED BY <2>2, <3>1 DEF path
  <2> DEFINE front == Front(On(a))
  <2>4. IsPath(Append(front, x)) /\ Len(Append(front, x)) = 1 /\ Append(front, x)[1] = x
    <3>1. /\ IsPath(Append(front, x)) /\ Len(Append(front, x)) = Len(front) + 1
          /\ Append(front, x)[Len(front) + 1] = x
      <4>1. IsPath(front)
        BY <2>3
      <4> HIDE DEF front
      <4> QED BY <4>1, Appended
    <3> DEFINE appended == Append(front, x)
    <3> HIDE DEF appended
    <3> QED BY <2>3, <3>1 DEF appended
  <2> DEFINE exchanged == Exchange(On(a), x)
  <2>5. IsPath(exchanged) /\ Len(exchanged) = 1 /\ exchanged[1] = x
    BY <2>4 DEF Exchange
  <2> HIDE DEF exchanged
  <2>6. IsPath(On(x)) /\ Len(On(x)) = 1 /\ On(x)[1] = x
    BY Short DEF On
  <2> QED BY <2>5, <2>6, Equal DEF exchanged
<1>2. \A a : Last(On(a)) = a /\ On(a) # Itself
  BY Short DEF Last, On, Itself
<1> QED BY <1>1, <1>2

\* Where elements are, for the paths the operations list, ...
LEMMA Homes ==
  LET plurals == {"roles", "rolesets", "config/certificates"}
  IN  /\ \A class : Home(class, Itself) = Itself /\ Dirs(Itself) = {Itself}
      /\ \A class, c : c \notin plurals => Home(class, On(c)) = On(c) /\ Dirs(On(c)) = {On(c)}
      /\ \A class, p, c : IsPath(p) /\ c \notin plurals =>
           Home(class, Sub(p, c)) = Sub(p, c) /\ Dirs(Sub(p, c)) = {Sub(p, c)}
      /\ \A class : Home(class, On("roles")) =
           IF class \in Singular THEN On("role") ELSE On("roles")
      /\ \A class : Home(class, On("rolesets")) =
           IF class \in Singular THEN On("roleset") ELSE On("rolesets")
      /\ \A class : Home(class, On("config/certificates")) =
           IF class \in Singular THEN On("config/certificate") ELSE On("config/certificates")
      /\ Dirs(On("roles")) = {On("roles"), On("role")}
      /\ Dirs(On("rolesets")) = {On("rolesets"), On("roleset")}
      /\ Dirs(On("config/certificates")) = {On("config/certificates"), On("config/certificate")}
<1> DEFINE plurals == {"roles", "rolesets", "config/certificates"}
<1>1. /\ DOMAIN Plural = plurals
      /\ Plural["roles"] = "role" /\ Plural["rolesets"] = "roleset"
      /\ Plural["config/certificates"] = "config/certificate"
  BY DEF Plural
<1>2. Singly(Itself) = Itself
  BY DEF Singly
<1>3. ASSUME NEW c, c \notin plurals PROVE Singly(On(c)) = On(c)
  BY <1>1, <1>3, Exchanges DEF Singly
<1>4. ASSUME NEW p, NEW c, IsPath(p), c \notin plurals PROVE Singly(Sub(p, c)) = Sub(p, c)
  BY <1>1, <1>4, Kinds DEF Singly
<1>5. ASSUME NEW c \in plurals PROVE Singly(On(c)) = On(Plural[c])
  <2>1. On(c) # Itself /\ Last(On(c)) = c
    BY Exchanges
  <2>2. Singly(On(c)) = Exchange(On(c), Plural[c])
    BY <1>1, <2>1 DEF Singly, Exchange
  <2> QED BY <2>2, Exchanges
<1> QED BY <1>1, <1>2, <1>3, <1>4, <1>5 DEF Home, Dirs

\* ... and at which path each is.
LEMMA Ins ==
  /\ \A b, k : In(Under(b), Itself, k) = On(k)
  /\ \A b, k : In(Bare(b), Itself, k) = Sub(Itself, k)
  /\ \A base, c, k : In(base, On(c), k) = Sub(On(c), k)
  /\ \A base, p, c, k : IsPath(p) => In(base, Sub(p, c), k) = Sub(Sub(p, c), k)
BY Bases, Exchanges, Kinds DEF In

\* The parts of what the functions of Requests write.
LEMMA Parts ==
  \A w, x, u :
    /\ VerbOf(get(w, x, u)) = "GET" /\ WordOf(get(w, x, u)) = w
    /\ NounOf(get(w, x, u)) = x /\ UrlOf(get(w, x, u)) = u
    /\ VerbOf(list(w, x, u)) = "LIST" /\ WordOf(list(w, x, u)) = w
    /\ NounOf(list(w, x, u)) = x /\ UrlOf(list(w, x, u)) = u
    /\ VerbOf(post(w, x, u)) = "POST" /\ WordOf(post(w, x, u)) = w
    /\ NounOf(post(w, x, u)) = x /\ UrlOf(post(w, x, u)) = u
    /\ VerbOf(put(w, x, u)) = "PUT" /\ WordOf(put(w, x, u)) = w
    /\ NounOf(put(w, x, u)) = x /\ UrlOf(put(w, x, u)) = u
    /\ VerbOf(del(w, x, u)) = "DELETE" /\ WordOf(del(w, x, u)) = w
    /\ NounOf(del(w, x, u)) = x /\ UrlOf(del(w, x, u)) = u
    /\ VerbOf(unauthenticated_get(w, x, u)) = "GET"
    /\ WordOf(unauthenticated_get(w, x, u)) = w
    /\ NounOf(unauthenticated_get(w, x, u)) = x /\ UrlOf(unauthenticated_get(w, x, u)) = u
    /\ VerbOf(unauthenticated_post(w, x, u)) = "POST"
    /\ WordOf(unauthenticated_post(w, x, u)) = w
    /\ NounOf(unauthenticated_post(w, x, u)) = x
    /\ UrlOf(unauthenticated_post(w, x, u)) = u
    /\ VerbOf(post_with_token(w, x, u)) = "POST" /\ WordOf(post_with_token(w, x, u)) = w
    /\ NounOf(post_with_token(w, x, u)) = x /\ UrlOf(post_with_token(w, x, u)) = u
BY DEF VerbOf, WordOf, NounOf, UrlOf, get, list, post, put, del, unauthenticated_get,
       unauthenticated_post, post_with_token, Operation

\* The operations that meet their marks.
Usable(class, o) == <<class, WordOf(o), NounOf(o)>> \notin Astray

\* What the usable operations are not.
LEMMA Strays ==
  \A class, o : Usable(class, o) =>
    /\ ~(class = "OpenLDAP" /\ WordOf(o) = "list" /\ NounOf(o) = "StaticRole")
    /\ ~(class = "OpenLDAP" /\ WordOf(o) = "delete" /\ NounOf(o) = "StaticRole")
    /\ ~(class = "Okta" /\ WordOf(o) = "login" /\ NounOf(o) = "-")
    /\ ~(class = "Kmip" /\ WordOf(o) = "sign" /\ NounOf(o) = "Csr")
    /\ ~(class = "Kmip" /\ WordOf(o) = "revoke" /\ NounOf(o) = "Credential")
    /\ ~(class = "Nomad" /\ WordOf(o) = "configure" /\ NounOf(o) = "Lease")
    /\ ~(class = "IdentityTokens" /\ WordOf(o) = "list" /\ NounOf(o) = "NamedKey")
    /\ ~(class = "AppRole" /\ WordOf(o) = "tidy" /\ NounOf(o) = "-")
BY DEF Usable, Astray

\* What a word says is done: it is the thing's own but for the words that make,
\* remove and show one.
Deed(word) == IF word \in Writers \cup Deleters \cup Readers THEN "-" ELSE word

\* What the word and the verb promise.
LEMMA Promises ==
  \A o : Promise(o) =
    IF WordOf(o) \in Writers THEN "write"
    ELSE IF WordOf(o) \in Deleters THEN "delete"
    ELSE IF WordOf(o) \in Readers \cup {"lookup"} \/ VerbOf(o) \notin {"POST", "PUT"}
    THEN "nothing" ELSE "write"
BY DEF Promise, WordOf, VerbOf

Changes(o) == VerbOf(o) \in {"POST", "PUT", "DELETE"}

Regards(o) == Changes(o) \/ WordOf(o) = "read"

\* The operations of a class are those it is written with, at its URLs.
LEMMA ClassIs ==
  ASSUME NEW base, NEW P, NEW o \in Class(base, P)
  PROVE  \E p \in P :
           /\ VerbOf(o) = VerbOf(p) /\ WordOf(o) = WordOf(p) /\ NounOf(o) = NounOf(p)
           /\ UrlOf(o) = getUrl(base, UrlOf(p))
<1>1. PICK p \in P : o = Operation(p.verb, p.word, p.noun, getUrl(base, p.url), p.open)
  BY DEF Class
<1> QED BY <1>1 DEF Operation, VerbOf, WordOf, NounOf, UrlOf

-----------------------------------------------------------------------------
(* What is true of the operations of a class, as they are written and at   *)
(* the URLs of the class.                                                  *)

\* A path that fits its base, ...
Spelled(base, path) ==
  /\ IsPath(path) /\ Routed(path)
  /\ path # Itself => (First(path) = S <=> IsBare(base)) /\ Last(path) # S

\* ... and a word that says what the verb does there.
Honest(base, o) ==
  Promise(o) =
    IF VerbOf(o) \in {"POST", "PUT"}
    THEN IF BaseName(base) \notin Queries /\ ~Inquires(UrlOf(o)) THEN "write" ELSE "nothing"
    ELSE IF VerbOf(o) = "DELETE" THEN "delete" ELSE "nothing"

Plain(class, base, P) ==
  /\ IsBase(base) /\ BaseName(base) = Stems[class]
  /\ \A p \in P : Usable(class, p) => Spelled(base, UrlOf(p)) /\ Honest(base, p)

\* A request does what its word promises, at a URL of its class.
Exact(class, C) ==
  \A o \in C : Usable(class, o) => Effect(o) = Promise(o) /\ UrlOf(o)[3] = Stems[class]

\* What holds of the paths of a class holds of its URLs: what each request does, ...
LEMMA OfPlain ==
  ASSUME NEW class, NEW base, NEW P, Plain(class, base, P)
  PROVE  Exact(class, Class(base, P))
<1> SUFFICES ASSUME NEW o \in Class(base, P), Usable(class, o)
             PROVE  Effect(o) = Promise(o) /\ UrlOf(o)[3] = Stems[class]
  BY DEF Exact
<1>1. PICK p \in P :
        /\ VerbOf(o) = VerbOf(p) /\ WordOf(o) = WordOf(p) /\ NounOf(o) = NounOf(p)
        /\ UrlOf(o) = getUrl(base, UrlOf(p))
  BY ClassIs
<1>2. Usable(class, p)
  BY <1>1 DEF Usable
<1>3. IsBase(base) /\ BaseName(base) = Stems[class] /\ Spelled(base, UrlOf(p)) /\ Honest(base, p)
  BY <1>2 DEF Plain
<1>4. /\ UrlOf(o)[3] = Stems[class] /\ Routed(UrlOf(o))
      /\ Range(UrlOf(o)) = {"v1", S, BaseName(base)} \cup Range(UrlOf(p))
  BY <1>1, <1>3, Urls, RoutedUrls DEF Spelled
<1>5. Range(UrlOf(o)) \cap Queries = {} <=> BaseName(base) \notin Queries /\ ~Inquires(UrlOf(p))
  BY <1>4 DEF Queries, Inquires, S
<1>6. Stores(o) <=> VerbOf(o) \in {"POST", "PUT"} /\ Range(UrlOf(o)) \cap Queries = {}
  BY <1>4 DEF Stores, VerbOf, UrlOf
<1>7. Effect(o) = IF VerbOf(o) \in {"POST", "PUT"}
                  THEN IF Range(UrlOf(o)) \cap Queries = {} THEN "write" ELSE "nothing"
                  ELSE IF VerbOf(o) = "DELETE" THEN "delete" ELSE "nothing"
  BY <1>6 DEF Effect, VerbOf
<1>8. Promise(o) = Promise(p)
  BY <1>1, Promises
<1> QED BY <1>1, <1>3, <1>4, <1>5, <1>7, <1>8 DEF Honest

\* What an operation is about.
About(o, deed, noun, shown) ==
  Deed(WordOf(o)) = deed /\ NounOf(o) = noun /\ Shown(UrlOf(o)) = shown

\* What changes something is at the URL of what regards it exactly when they are
\* about the same.
OneToOne(p, o) ==
  Regards(p) /\ Changes(o) =>
    (UrlOf(p) = UrlOf(o) <=> About(o, Deed(WordOf(p)), NounOf(p), Shown(UrlOf(p))))

\* (Only the paths have to be compared, not the URLs.)
ArePaths(class, P) == \A p \in P : Usable(class, p) => IsPath(UrlOf(p))

Matched(class, P, Q) ==
  \A p \in P, o \in Q : Usable(class, p) /\ Usable(class, o) => OneToOne(p, o)

Paired(class, C, D) == Matched(class, C, D)

\* ... what is at the same URL, ...
LEMMA OfMatched ==
  ASSUME Names \cap Words = {}, NEW class, NEW base, NEW P, NEW Q, IsBase(base),
         BaseName(base) \notin Names, ArePaths(class, P), ArePaths(class, Q),
         Matched(class, P, Q)
  PROVE  Paired(class, Class(base, P), Class(base, Q))
<1> SUFFICES ASSUME NEW c \in Class(base, P), NEW d \in Class(base, Q),
                    Usable(class, c), Usable(class, d), Regards(c), Changes(d)
             PROVE  UrlOf(c) = UrlOf(d) <=>
                      About(d, Deed(WordOf(c)), NounOf(c), Shown(UrlOf(c)))
  BY DEF Paired, Matched, OneToOne
<1>1. PICK p \in P :
        /\ VerbOf(c) = VerbOf(p) /\ WordOf(c) = WordOf(p) /\ NounOf(c) = NounOf(p)
        /\ UrlOf(c) = getUrl(base, UrlOf(p))
  BY ClassIs
<1>2. PICK o \in Q :
        /\ VerbOf(d) = VerbOf(o) /\ WordOf(d) = WordOf(o) /\ NounOf(d) = NounOf(o)
        /\ UrlOf(d) = getUrl(base, UrlOf(o))
  BY ClassIs
<1>3. Usable(class, p) /\ Usable(class, o) /\ Regards(p) /\ Changes(o)
  BY <1>1, <1>2 DEF Usable, Regards, Changes
<1>4. IsPath(UrlOf(p)) /\ IsPath(UrlOf(o)) /\ OneToOne(p, o)
  BY <1>3 DEF ArePaths, Matched
<1>5. Shown(UrlOf(c)) = Shown(UrlOf(p)) /\ Shown(UrlOf(d)) = Shown(UrlOf(o))
  BY <1>1, <1>2, <1>4, ShownUrls
<1>6. UrlOf(c) = UrlOf(d) <=> UrlOf(p) = UrlOf(o)
  BY <1>1, <1>2, <1>4, Cancelled
<1> QED BY <1>1, <1>2, <1>3, <1>4, <1>5, <1>6 DEF OneToOne, About

-----------------------------------------------------------------------------
(* What a class lists.                                                     *)

Cleanly(class, P) ==
  \A p \in P : Usable(class, p) /\ WordOf(p) = "list" =>
    IsPath(UrlOf(p)) /\ (UrlOf(p) # Itself => Last(UrlOf(p)) # S)

\* The elements of a list are the things of its noun: at the paths below one
\* of its directories ...
Finds(class, base, P, Q) ==
  \A p \in P, o \in Q, k \in Names :
    Usable(class, p) /\ Usable(class, o) /\ WordOf(p) = "list" /\ Changes(o) =>
      (UrlOf(o) = In(base, Home(class, UrlOf(p)), k) <=> About(o, "-", NounOf(p), Only(k)))

\* ... and at the URLs.
Found(class, C, D) ==
  \A p \in C, o \in D, k \in Names :
    Usable(class, p) /\ Usable(class, o) /\ WordOf(p) = "list" /\ Changes(o) =>
      (UrlOf(o) = Place(class, p) \o <<S, k>> <=> About(o, "-", NounOf(p), Only(k)))

\* ... what is an element of a list, ...
LEMMA OfFinds ==
  ASSUME Names \cap Words = {}, NEW class, NEW base, NEW P, NEW Q, IsBase(base),
         BaseName(base) \notin Names, Cleanly(class, P), ArePaths(class, Q),
         Finds(class, base, P, Q)
  PROVE  Found(class, Class(base, P), Class(base, Q))
<1> SUFFICES ASSUME NEW c \in Class(base, P), NEW d \in Class(base, Q), NEW k \in Names,
                    Usable(class, c), Usable(class, d), WordOf(c) = "list", Changes(d)
             PROVE  UrlOf(d) = Place(class, c) \o <<S, k>> <=>
                      About(d, "-", NounOf(c), Only(k))
  BY DEF Found
<1>1. PICK p \in P :
        /\ VerbOf(c) = VerbOf(p) /\ WordOf(c) = WordOf(p) /\ NounOf(c) = NounOf(p)
        /\ UrlOf(c) = getUrl(base, UrlOf(p))
  BY ClassIs
<1>2. PICK o \in Q :
        /\ VerbOf(d) = VerbOf(o) /\ WordOf(d) = WordOf(o) /\ NounOf(d) = NounOf(o)
        /\ UrlOf(d) = getUrl(base, UrlOf(o))
  BY ClassIs
<1>3. Usable(class, p) /\ Usable(class, o) /\ WordOf(p) = "list" /\ Changes(o)
  BY <1>1, <1>2 DEF Usable, Changes
<1>4. /\ IsPath(UrlOf(p)) /\ (UrlOf(p) # Itself => Last(UrlOf(p)) # S)
      /\ IsPath(UrlOf(o))
  BY <1>3 DEF Cleanly, ArePaths
<1>5. UrlOf(o) = In(base, Home(class, UrlOf(p)), k) <=> About(o, "-", NounOf(p), Only(k))
  BY <1>3 DEF Finds
<1>6. Place(class, c) = Above(base, Home(class, UrlOf(p))) /\ IsPath(Home(class, UrlOf(p)))
  BY <1>1, <1>4, Places DEF Home
<1> DEFINE path == In(base, Home(class, UrlOf(p)), k)
<1>7. Place(class, c) \o <<S, k>> = getUrl(base, path) /\ IsPath(path)
  BY <1>6, Elements
<1> HIDE DEF path
<1>8. UrlOf(d) = getUrl(base, path) <=> UrlOf(o) = path
  BY <1>2, <1>4, <1>7, Cancelled
<1>9. Shown(UrlOf(d)) = Shown(UrlOf(o))
  BY <1>2, <1>4, ShownUrls
<1> QED BY <1>1, <1>2, <1>5, <1>7, <1>8, <1>9 DEF About, path

\* What is written below another of its directories is no element: nothing is.
Singled(class, base, P, Q) ==
  \A p \in P, o \in Q, k \in Names :
    Usable(class, p) /\ Usable(class, o) /\ WordOf(p) = "list" /\ Promise(o) = "write" =>
      \A d \in Dirs(UrlOf(p)) : UrlOf(o) = In(base, d, k) => d = Home(class, UrlOf(p))

Alone(class, C, D) ==
  \A p \in C, o \in D, k \in Names :
    Usable(class, p) /\ Usable(class, o) /\ WordOf(p) = "list" /\ Promise(o) = "write" =>
      \A d \in Directories(p) : UrlOf(o) = d \o <<S, k>> => d = Place(class, p)

\* ... what is written in its directories, ...
LEMMA OfSingled ==
  ASSUME NEW class, NEW base, NEW P, NEW Q, IsBase(base),
         Cleanly(class, P), ArePaths(class, Q), Singled(class, base, P, Q)
  PROVE  Alone(class, Class(base, P), Class(base, Q))
<1> SUFFICES ASSUME NEW c \in Class(base, P), NEW d \in Class(base, Q), NEW k \in Names,
                    Usable(class, c), Usable(class, d), WordOf(c) = "list",
                    Promise(d) = "write",
                    NEW h \in Directories(c), UrlOf(d) = h \o <<S, k>>
             PROVE  h = Place(class, c)
  BY DEF Alone
<1>1. PICK p \in P :
        /\ VerbOf(c) = VerbOf(p) /\ WordOf(c) = WordOf(p) /\ NounOf(c) = NounOf(p)
        /\ UrlOf(c) = getUrl(base, UrlOf(p))
  BY ClassIs
<1>2. PICK o \in Q :
        /\ VerbOf(d) = VerbOf(o) /\ WordOf(d) = WordOf(o) /\ NounOf(d) = NounOf(o)
        /\ UrlOf(d) = getUrl(base, UrlOf(o))
  BY ClassIs
<1>3. /\ Usable(class, p) /\ Usable(class, o) /\ WordOf(p) = "list"
      /\ Promise(o) = "write"
  BY <1>1, <1>2, Promises DEF Usable
<1>4. /\ IsPath(UrlOf(p)) /\ (UrlOf(p) # Itself => Last(UrlOf(p)) # S)
      /\ IsPath(UrlOf(o))
  BY <1>3 DEF Cleanly, ArePaths
<1>6. /\ Place(class, c) = Above(base, Home(class, UrlOf(p)))
      /\ Directories(c) = {Above(base, e) : e \in Dirs(UrlOf(p))}
      /\ \A e \in Dirs(UrlOf(p)) : IsPath(e)
  <2> DEFINE path == UrlOf(p)
  <2>1. UrlOf(c) = getUrl(base, path) /\ IsPath(path) /\ (path # Itself => Last(path) # S)
    BY <1>1, <1>4
  <2> HIDE DEF path
  <2>2. /\ Place(class, c) = Above(base, Home(class, path))
        /\ Directories(c) = {Above(base, e) : e \in Dirs(path)}
        /\ IsPath(Singly(path))
    BY <2>1, Places
  <2>3. \A e \in Dirs(path) : IsPath(e)
    BY <2>1, <2>2 DEF Dirs
  <2> QED BY <2>2, <2>3 DEF path
<1>7. PICK e \in Dirs(UrlOf(p)) : h = Above(base, e)
  BY <1>6
<1> DEFINE path == In(base, e, k)
<1>8. h \o <<S, k>> = getUrl(base, path) /\ IsPath(path)
  BY <1>6, <1>7, Elements
<1> HIDE DEF path
<1>9. UrlOf(o) = path
  BY <1>2, <1>4, <1>8, Cancelled
<1> QED BY <1>3, <1>6, <1>7, <1>9 DEF Singled, path

\* Every list asks for one.
Asks(class, base, P) ==
  /\ IsBase(base) /\ BaseName(base) = Stems[class]
  /\ \A p \in P : Usable(class, p) /\ WordOf(p) = "list" =>
       /\ Spelled(base, UrlOf(p))
       /\ \/ VerbOf(p) = "LIST"
          \/ VerbOf(p) = "GET" /\ (BaseName(base) \in GetCollections \/ Collective(UrlOf(p)))

Listing(class, C) ==
  \A p \in C : Usable(class, p) /\ WordOf(p) = "list" =>
    /\ Lists(p)
    /\ Place(class, p) \in Directories(p)
    /\ \A d \in Directories(p), k \in Names : (d \o <<S, k>>)[3] = Stems[class]

\* ... and that the list asks for one.
LEMMA OfAsks ==
  ASSUME NEW class, NEW base, NEW P, Asks(class, base, P)
  PROVE  Listing(class, Class(base, P))
<1> SUFFICES ASSUME NEW c \in Class(base, P), Usable(class, c), WordOf(c) = "list"
             PROVE  /\ Lists(c)
                    /\ Place(class, c) \in Directories(c)
                    /\ \A d \in Directories(c), k \in Names : (d \o <<S, k>>)[3] = Stems[class]
  BY DEF Listing
<1>1. PICK p \in P :
        /\ VerbOf(c) = VerbOf(p) /\ WordOf(c) = WordOf(p) /\ NounOf(c) = NounOf(p)
        /\ UrlOf(c) = getUrl(base, UrlOf(p))
  BY ClassIs
<1>2. Usable(class, p) /\ WordOf(p) = "list"
  BY <1>1 DEF Usable
<1>3. IsBase(base) /\ BaseName(base) = Stems[class] /\ Spelled(base, UrlOf(p))
  BY <1>2 DEF Asks
<1>4. IsPath(UrlOf(p)) /\ (UrlOf(p) # Itself => Last(UrlOf(p)) # S)
  BY <1>3 DEF Spelled
<1>5. Routed(UrlOf(c)) /\ Range(UrlOf(c)) = {"v1", S, BaseName(base)} \cup Range(UrlOf(p))
  BY <1>1, <1>3, Urls, RoutedUrls DEF Spelled
<1>6. Lists(c)
  <2>1. CASE VerbOf(p) = "LIST"
    BY <1>1, <1>5, <2>1 DEF Lists, VerbOf, UrlOf
  <2>2. CASE VerbOf(p) = "GET" /\ (BaseName(base) \in GetCollections \/ Collective(UrlOf(p)))
    <3>1. Range(UrlOf(c)) \cap GetCollections # {}
      BY <1>5, <2>2 DEF Collective
    <3> QED BY <1>1, <1>5, <2>2, <3>1 DEF Lists, VerbOf, UrlOf
  <2> QED BY <1>2, <2>1, <2>2 DEF Asks
<1>7. /\ Place(class, c) = Above(base, Home(class, UrlOf(p)))
      /\ Directories(c) = {Above(base, e) : e \in Dirs(UrlOf(p))}
      /\ \A e \in Dirs(UrlOf(p)) : IsPath(e)
  <2> DEFINE path == UrlOf(p)
  <2>1. UrlOf(c) = getUrl(base, path) /\ IsPath(path) /\ (path # Itself => Last(path) # S)
    BY <1>1, <1>4
  <2> HIDE DEF path
  <2>2. /\ Place(class, c) = Above(base, Home(class, path))
        /\ Directories(c) = {Above(base, e) : e \in Dirs(path)}
        /\ IsPath(Singly(path))
    BY <1>3, <2>1, Places
  <2>3. \A e \in Dirs(path) : IsPath(e)
    BY <2>1, <2>2 DEF Dirs
  <2> QED BY <2>2, <2>3 DEF path
<1>8. Home(class, UrlOf(p)) \in Dirs(UrlOf(p))
  BY DEF Home, Dirs
<1>9. ASSUME NEW d \in Directories(c), NEW k \in Names
      PROVE  (d \o <<S, k>>)[3] = Stems[class]
  <2>1. PICK e \in Dirs(UrlOf(p)) : d = Above(base, e)
    BY <1>7
  <2>2. d \o <<S, k>> = getUrl(base, In(base, e, k)) /\ IsPath(In(base, e, k))
    BY <1>3, <1>7, <2>1, Elements
  <2> DEFINE path == In(base, e, k)
  <2> HIDE DEF path
  <2>3. getUrl(base, path)[3] = BaseName(base)
    BY <1>3, <2>2, Urls DEF path
  <2> QED BY <1>3, <2>2, <2>3 DEF path
<1> QED BY <1>6, <1>7, <1>8, <1>9

\* What is known of the requests of a class on one instance ...
OnItsOwn(class, C) == Exact(class, C) /\ Listing(class, C)

\* ... and on two.
InStep(class, C, D) == Paired(class, C, D) /\ Found(class, C, D) /\ Alone(class, C, D)

-----------------------------------------------------------------------------
(* The classes, one by one.                                                *)

\* Every request of the engines goes where its class is and does what its word says.
LEMMA EnginesExact ==
  ASSUME Names \cap Words = {}, NEW n \in Names, NEW class \in DOMAIN Engines(n) \ Lost
  PROVE  OnItsOwn(class, Engines(n)[class])
<1> USE OfPlain, OfAsks, Bases, Parts, Paths, Kinds, Routeds, Firsts, Inquire, Collect,
        Promises
    DEF OnItsOwn, At, Below, S, Queries, Plain, Spelled, Honest, Asks, Stems,
        GetCollections, Words, Writers, Deleters, Readers
<1>1. OnItsOwn("AWSSecrets", AWSSecrets(n))
  BY DEF AWSSecrets
<1>2. OnItsOwn("ActiveDirectory", ActiveDirectory(n))
  BY DEF ActiveDirectory
<1>3. OnItsOwn("AzureSecrets", AzureSecrets(n))
  BY DEF AzureSecrets
<1>4. OnItsOwn("Consul", Consul(n))
  BY DEF Consul
<1>5. OnItsOwn("Cubbyhole", Cubbyhole(n))
  BY DEF Cubbyhole
<1>6. OnItsOwn("Database", Database(n))
  BY DEF Database
<1>7. OnItsOwn("GoogleCloudSecrets", GoogleCloudSecrets(n))
  BY DEF GoogleCloudSecrets
<1>8. OnItsOwn("GoogleCloudKms", GoogleCloudKms(n))
  BY DEF GoogleCloudKms
<1>9. OnItsOwn("Kmip", Kmip(n))
  BY Strays DEF Kmip
<1>10. OnItsOwn("MongoDBAtlas", MongoDBAtlas(n))
  BY DEF MongoDBAtlas
<1>11. OnItsOwn("Nomad", Nomad(n))
  BY Strays DEF Nomad
<1>12. OnItsOwn("OpenLDAP", OpenLDAP(n))
  BY Strays DEF OpenLDAP
<1>13. OnItsOwn("Pki", Pki(n))
  BY DEF Pki
<1>14. OnItsOwn("RabbitMq", RabbitMq(n))
  BY DEF RabbitMq
<1>15. OnItsOwn("Totp", Totp(n))
  BY DEF Totp
<1>16. OnItsOwn("Transform", Transform(n))
  BY DEF Transform, Made, Kept
<1>17. OnItsOwn("Transit", Transit(n))
  BY DEF Transit
<1>18. OnItsOwn("Entity", Entity(n))
  BY DEF Entity
<1>19. OnItsOwn("EntityAlias", EntityAlias(n))
  BY DEF EntityAlias
<1>20. OnItsOwn("Group", Group(n))
  BY DEF Group
<1>21. OnItsOwn("GroupAlias", GroupAlias(n))
  BY DEF GroupAlias
<1>22. OnItsOwn("IdentityTokens", IdentityTokens(n))
  BY Strays DEF IdentityTokens
<1>23. OnItsOwn("Lookup", Lookup(n))
  BY DEF Lookup
<1> HIDE OfPlain, OfAsks, Bases, Parts, Paths, Kinds, Routeds, Firsts, Inquire, Collect,
         Promises
    DEF OnItsOwn, Stems, Words
<1> QED BY <1>1, <1>2, <1>3, <1>4, <1>5, <1>6, <1>7, <1>8, <1>9, <1>10, <1>11, <1>12,
      <1>13, <1>14, <1>15, <1>16, <1>17, <1>18, <1>19, <1>20, <1>21, <1>22, <1>23 DEF
      Engines, Lost

\* On any two instances, things and URLs of the engines correspond.
LEMMA EnginesPaired ==
  ASSUME Names \cap Words = {}, NEW n \in Names, NEW m \in Names,
         NEW class \in DOMAIN Engines(n) \ Lost
  PROVE  InStep(class, Engines(n)[class], Engines(m)[class])
<1> USE SMTT(60), OfMatched, OfFinds, OfSingled, Bases, Parts, Paths, Kinds, Showns,
        Promises, Homes, Ins
    DEF InStep, At, Below, S, ArePaths, Matched, OneToOne, Regards, Changes, About,
        Words, Deed, Writers, Deleters, Readers, Singular, Cleanly, Finds, Singled
<1>1. InStep("AWSSecrets", AWSSecrets(n), AWSSecrets(m))
  BY DEF AWSSecrets
<1>2. InStep("ActiveDirectory", ActiveDirectory(n), ActiveDirectory(m))
  BY DEF ActiveDirectory
<1>3. InStep("AzureSecrets", AzureSecrets(n), AzureSecrets(m))
  BY DEF AzureSecrets
<1>4. InStep("Consul", Consul(n), Consul(m))
  BY DEF Consul
<1>5. InStep("Cubbyhole", Cubbyhole(n), Cubbyhole(m))
  BY DEF Cubbyhole
<1>6. InStep("Database", Database(n), Database(m))
  BY DEF Database
<1>7. InStep("GoogleCloudSecrets", GoogleCloudSecrets(n), GoogleCloudSecrets(m))
  BY DEF GoogleCloudSecrets
<1>8. InStep("GoogleCloudKms", GoogleCloudKms(n), GoogleCloudKms(m))
  <2> USE DEF GoogleCloudKms
  <2>1. Paired("GoogleCloudKms", GoogleCloudKms(n), GoogleCloudKms(m))
    <3> HIDE OfFinds, OfSingled, Homes, Ins DEF Cleanly, Finds, Singled
    <3> QED OBVIOUS
  <2>2. Found("GoogleCloudKms", GoogleCloudKms(n), GoogleCloudKms(m))
    <3> HIDE OfMatched, OfSingled DEF Matched, OneToOne, Singled
    <3> QED OBVIOUS
  <2>3. Alone("GoogleCloudKms", GoogleCloudKms(n), GoogleCloudKms(m))
    <3> HIDE OfMatched, OfFinds DEF Matched, OneToOne, Finds
    <3> QED OBVIOUS
  <2> HIDE DEF GoogleCloudKms
  <2> QED BY <2>1, <2>2, <2>3
<1>9. InStep("Kmip", Kmip(n), Kmip(m))
  BY Strays DEF Kmip
<1>10. InStep("MongoDBAtlas", MongoDBAtlas(n), MongoDBAtlas(m))
  BY DEF MongoDBAtlas
<1>11. InStep("Nomad", Nomad(n), Nomad(m))
  BY Strays DEF Nomad
<1>12. InStep("OpenLDAP", OpenLDAP(n), OpenLDAP(m))
  <2> USE Strays DEF OpenLDAP
  <2>1. Paired("OpenLDAP", OpenLDAP(n), OpenLDAP(m))
    <3> HIDE OfFinds, OfSingled, Homes, Ins DEF Cleanly, Finds, Singled
    <3> QED OBVIOUS
  <2>2. Found("OpenLDAP", OpenLDAP(n), OpenLDAP(m))
    <3> HIDE OfMatched, OfSingled DEF Matched, OneToOne, Singled
    <3> QED OBVIOUS
  <2>3. Alone("OpenLDAP", OpenLDAP(n), OpenLDAP(m))
    <3> HIDE OfMatched, OfFinds DEF Matched, OneToOne, Finds
    <3> QED OBVIOUS
  <2> HIDE DEF OpenLDAP
  <2> QED BY <2>1, <2>2, <2>3
<1>13. InStep("Pki", Pki(n), Pki(m))
  BY DEF Pki
<1>14. InStep("RabbitMq", RabbitMq(n), RabbitMq(m))
  BY DEF RabbitMq
<1>15. InStep("Totp", Totp(n), Totp(m))
  BY DEF Totp
<1>16. InStep("Transform", Transform(n), Transform(m))
  <2> USE DEF Transform, Made, Kept
  <2>1. Paired("Transform", Transform(n), Transform(m))
    <3> HIDE OfFinds, OfSingled, Homes, Ins DEF Cleanly, Finds, Singled
    <3> QED OBVIOUS
  <2>2. Found("Transform", Transform(n), Transform(m))
    <3> HIDE OfMatched, OfSingled DEF Matched, OneToOne, Singled
    <3> QED OBVIOUS
  <2>3. Alone("Transform", Transform(n), Transform(m))
    <3> HIDE OfMatched, OfFinds DEF Matched, OneToOne, Finds
    <3> QED OBVIOUS
  <2> HIDE DEF Transform
  <2> QED BY <2>1, <2>2, <2>3
<1>17. InStep("Transit", Transit(n), Transit(m))
  BY DEF Transit
<1>18. InStep("Entity", Entity(n), Entity(m))
  BY DEF Entity
<1>19. InStep("EntityAlias", EntityAlias(n), EntityAlias(m))
  BY DEF EntityAlias
<1>20. InStep("Group", Group(n), Group(m))
  BY DEF Group
<1>21. InStep("GroupAlias", GroupAlias(n), GroupAlias(m))
  BY DEF GroupAlias
<1>22. InStep("IdentityTokens", IdentityTokens(n), IdentityTokens(m))
  BY Strays DEF IdentityTokens
<1>23. InStep("Lookup", Lookup(n), Lookup(m))
  BY DEF Lookup
<1> HIDE OfMatched, OfFinds, OfSingled, Bases, Parts, Paths, Kinds, Showns, Promises,
         Homes, Ins
    DEF InStep, Words
<1> QED BY <1>1, <1>2, <1>3, <1>4, <1>5, <1>6, <1>7, <1>8, <1>9, <1>10, <1>11, <1>12,
      <1>13, <1>14, <1>15, <1>16, <1>17, <1>18, <1>19, <1>20, <1>21, <1>22, <1>23 DEF
      Engines, Lost

\* Every request of the auth methods goes where its class is and does what its word says.
LEMMA AuthMethodsExact ==
  ASSUME Names \cap Words = {}, NEW n \in Names, NEW class \in DOMAIN AuthMethods(n) \ Lost
  PROVE  OnItsOwn(class, AuthMethods(n)[class])
<1> USE OfPlain, OfAsks, Bases, Parts, Paths, Kinds, Routeds, Firsts, Inquire, Collect,
        Promises
    DEF OnItsOwn, At, Below, S, Queries, Plain, Spelled, Honest, Asks, Stems,
        GetCollections, Words, Writers, Deleters, Readers
<1>1. OnItsOwn("AWSAuth", AWSAuth(n))
  BY DEF AWSAuth, AWSConfig
<1>2. OnItsOwn("AliCloudAuth", AliCloudAuth(n))
  BY DEF AliCloudAuth
<1>3. OnItsOwn("AppRole", AppRole(n))
  BY Strays DEF AppRole
<1>4. OnItsOwn("AzureAuth", AzureAuth(n))
  BY DEF AzureAuth
<1>5. OnItsOwn("CloudFoundry", CloudFoundry(n))
  BY DEF CloudFoundry
<1>6. OnItsOwn("GitHub", GitHub(n))
  BY DEF GitHub
<1>7. OnItsOwn("GoogleCloudAuth", GoogleCloudAuth(n))
  BY DEF GoogleCloudAuth
<1>8. OnItsOwn("JwtOidc", JwtOidc(n))
  BY DEF JwtOidc
<1>9. OnItsOwn("Kerberos", Kerberos(n))
  BY DEF Kerberos
<1>10. OnItsOwn("Kubernetes", Kubernetes(n))
  BY DEF Kubernetes
<1>11. OnItsOwn("Ldap", Ldap(n))
  BY DEF Ldap, LdapMapping
<1>12. OnItsOwn("OCI", OCI(n))
  BY DEF OCI
<1>13. OnItsOwn("Okta", Okta(n))
  BY Strays DEF Okta, OktaMapping
<1>14. OnItsOwn("Radius", Radius(n))
  BY DEF Radius
<1>15. OnItsOwn("Tls", Tls(n))
  BY DEF Tls
<1>16. OnItsOwn("Tokens", Tokens(n))
  BY DEF Tokens
<1>17. OnItsOwn("UserPass", UserPass(n))
  BY DEF UserPass
<1> HIDE OfPlain, OfAsks, Bases, Parts, Paths, Kinds, Routeds, Firsts, Inquire, Collect,
         Promises
    DEF OnItsOwn, Stems, Words
<1> QED BY <1>1, <1>2, <1>3, <1>4, <1>5, <1>6, <1>7, <1>8, <1>9, <1>10, <1>11, <1>12,
      <1>13, <1>14, <1>15, <1>16, <1>17 DEF AuthMethods, Lost

\* On any two instances, things and URLs of the auth methods correspond.
LEMMA AuthMethodsPaired ==
  ASSUME Names \cap Words = {}, NEW n \in Names, NEW m \in Names,
         NEW class \in DOMAIN AuthMethods(n) \ Lost
  PROVE  InStep(class, AuthMethods(n)[class], AuthMethods(m)[class])
<1> USE SMTT(60), OfMatched, OfFinds, OfSingled, Bases, Parts, Paths, Kinds, Showns,
        Promises, Homes, Ins
    DEF InStep, At, Below, S, ArePaths, Matched, OneToOne, Regards, Changes, About,
        Words, Deed, Writers, Deleters, Readers, Singular, Cleanly, Finds, Singled
<1>1. InStep("AWSAuth", AWSAuth(n), AWSAuth(m))
  <2> USE DEF AWSAuth, AWSConfig
  <2>1. Paired("AWSAuth", AWSAuth(n), AWSAuth(m))
    <3> HIDE OfFinds, OfSingled, Homes, Ins DEF Cleanly, Finds, Singled
    <3> QED OBVIOUS
  <2>2. Found("AWSAuth", AWSAuth(n), AWSAuth(m))
    <3> HIDE OfMatched, OfSingled DEF Matched, OneToOne, Singled
    <3> QED OBVIOUS
  <2>3. Alone("AWSAuth", AWSAuth(n), AWSAuth(m))
    <3> HIDE OfMatched, OfFinds DEF Matched, OneToOne, Finds
    <3> QED OBVIOUS
  <2> HIDE DEF AWSAuth
  <2> QED BY <2>1, <2>2, <2>3
<1>2. InStep("AliCloudAuth", AliCloudAuth(n), AliCloudAuth(m))
  BY DEF AliCloudAuth
<1>3. InStep("AppRole", AppRole(n), AppRole(m))
  BY Strays DEF AppRole
<1>4. InStep("AzureAuth", AzureAuth(n), AzureAuth(m))
  BY DEF AzureAuth
<1>5. InStep("CloudFoundry", CloudFoundry(n), CloudFoundry(m))
  BY DEF CloudFoundry
<1>6. InStep("GitHub", GitHub(n), GitHub(m))
  BY DEF GitHub
<1>7. InStep("GoogleCloudAuth", GoogleCloudAuth(n), GoogleCloudAuth(m))
  BY DEF GoogleCloudAuth
<1>8. InStep("JwtOidc", JwtOidc(n), JwtOidc(m))
  BY DEF JwtOidc
<1>9. InStep("Kerberos", Kerberos(n), Kerberos(m))
  BY DEF Kerberos
<1>10. InStep("Kubernetes", Kubernetes(n), Kubernetes(m))
  BY DEF Kubernetes
<1>11. InStep("Ldap", Ldap(n), Ldap(m))
  BY DEF Ldap, LdapMapping
<1>12. InStep("OCI", OCI(n), OCI(m))
  BY DEF OCI
<1>13. InStep("Okta", Okta(n), Okta(m))
  BY Strays DEF Okta, OktaMapping
<1>14. InStep("Radius", Radius(n), Radius(m))
  BY DEF Radius
<1>15. InStep("Tls", Tls(n), Tls(m))
  BY DEF Tls
<1>16. InStep("Tokens", Tokens(n), Tokens(m))
  BY DEF Tokens
<1>17. InStep("UserPass", UserPass(n), UserPass(m))
  BY DEF UserPass
<1> HIDE OfMatched, OfFinds, OfSingled, Bases, Parts, Paths, Kinds, Showns, Promises,
         Homes, Ins
    DEF InStep, Words
<1> QED BY <1>1, <1>2, <1>3, <1>4, <1>5, <1>6, <1>7, <1>8, <1>9, <1>10, <1>11, <1>12,
      <1>13, <1>14, <1>15, <1>16, <1>17 DEF AuthMethods, Lost

\* Every request of the system backend goes where its class is and does what its word says.
LEMMA SystemsExact ==
  ASSUME Names \cap Words = {}, NEW n \in Names, NEW class \in DOMAIN Systems(n) \ Lost
  PROVE  OnItsOwn(class, Systems(n)[class])
<1> USE OfPlain, OfAsks, Bases, Parts, Paths, Kinds, Routeds, Firsts, Inquire, Collect,
        Promises
    DEF OnItsOwn, At, Below, S, Queries, Plain, Spelled, Honest, Asks, Stems,
        GetCollections, Words, Writers, Deleters, Readers
<1>1. OnItsOwn("Sys", Sys(n))
  BY DEF Sys
<1>2. OnItsOwn("Audit", Audit(n))
  BY DEF Audit
<1>3. OnItsOwn("Auth", Auth(n))
  BY DEF Auth
<1>4. OnItsOwn("ControlGroup", ControlGroup(n))
  BY DEF ControlGroup
<1>5. OnItsOwn("Cors", Cors(n))
  BY DEF Cors
<1>6. OnItsOwn("UI", UI(n))
  BY DEF UI
<1>7. OnItsOwn("Counters", Counters(n))
  BY DEF Counters
<1>8. OnItsOwn("GenerateRoot", GenerateRoot(n))
  BY DEF GenerateRoot
<1>9. OnItsOwn("Init", Init(n))
  BY DEF Init
<1>10. OnItsOwn("Leases", Leases(n))
  BY DEF Leases
<1>11. OnItsOwn("License", License(n))
  BY DEF License
<1>12. OnItsOwn("MfaDuo", MfaDuo(n))
  BY DEF MfaDuo, Mfa
<1>13. OnItsOwn("MfaOkta", MfaOkta(n))
  BY DEF MfaOkta, Mfa
<1>14. OnItsOwn("MfaPingId", MfaPingId(n))
  BY DEF MfaPingId, Mfa
<1>15. OnItsOwn("MfaTotp", MfaTotp(n))
  BY DEF MfaTotp, Mfa
<1>16. OnItsOwn("Mounts", Mounts(n))
  BY DEF Mounts
<1>17. OnItsOwn("Namespaces", Namespaces(n))
  BY DEF Namespaces
<1>18. OnItsOwn("Plugins", Plugins(n))
  BY DEF Plugins
<1>19. OnItsOwn("ACL", ACL(n))
  BY DEF ACL, Policies
<1>20. OnItsOwn("EGP", EGP(n))
  BY DEF EGP, Policies
<1>21. OnItsOwn("RGP", RGP(n))
  BY DEF RGP, Policies
<1>22. OnItsOwn("Policy", Policy(n))
  BY DEF Policy
<1>23. OnItsOwn("Pprof", Pprof(n))
  BY DEF Pprof
<1>24. OnItsOwn("Raw", Raw(n))
  BY DEF Raw
<1>25. OnItsOwn("Sealwrap", Sealwrap(n))
  BY DEF Sealwrap
<1>26. OnItsOwn("Tools", Tools(n))
  BY DEF Tools
<1> HIDE OfPlain, OfAsks, Bases, Parts, Paths, Kinds, Routeds, Firsts, Inquire, Collect,
         Promises
    DEF OnItsOwn, Stems, Words
<1> QED BY <1>1, <1>2, <1>3, <1>4, <1>5, <1>6, <1>7, <1>8, <1>9, <1>10, <1>11, <1>12,
      <1>13, <1>14, <1>15, <1>16, <1>17, <1>18, <1>19, <1>20, <1>21, <1>22, <1>23,
      <1>24, <1>25, <1>26 DEF Systems, Lost

\* On any two instances, things and URLs of the system backend correspond.
LEMMA SystemsPaired ==
  ASSUME Names \cap Words = {}, NEW n \in Names, NEW m \in Names,
         NEW class \in DOMAIN Systems(n) \ Lost
  PROVE  InStep(class, Systems(n)[class], Systems(m)[class])
<1> USE SMTT(60), OfMatched, OfFinds, OfSingled, Bases, Parts, Paths, Kinds, Showns,
        Promises, Homes, Ins
    DEF InStep, At, Below, S, ArePaths, Matched, OneToOne, Regards, Changes, About,
        Words, Deed, Writers, Deleters, Readers, Singular, Cleanly, Finds, Singled
<1>1. InStep("Sys", Sys(n), Sys(m))
  BY DEF Sys
<1>2. InStep("Audit", Audit(n), Audit(m))
  BY DEF Audit
<1>3. InStep("Auth", Auth(n), Auth(m))
  BY DEF Auth
<1>4. InStep("ControlGroup", ControlGroup(n), ControlGroup(m))
  BY DEF ControlGroup
<1>5. InStep("Cors", Cors(n), Cors(m))
  BY DEF Cors
<1>6. InStep("UI", UI(n), UI(m))
  BY DEF UI
<1>7. InStep("Counters", Counters(n), Counters(m))
  BY DEF Counters
<1>8. InStep("GenerateRoot", GenerateRoot(n), GenerateRoot(m))
  BY DEF GenerateRoot
<1>9. InStep("Init", Init(n), Init(m))
  BY DEF Init
<1>10. InStep("Leases", Leases(n), Leases(m))
  BY DEF Leases
<1>11. InStep("License", License(n), License(m))
  BY DEF License
<1>12. InStep("MfaDuo", MfaDuo(n), MfaDuo(m))
  BY DEF MfaDuo, Mfa
<1>13. InStep("MfaOkta", MfaOkta(n), MfaOkta(m))
  BY DEF MfaOkta, Mfa
<1>14. InStep("MfaPingId", MfaPingId(n), MfaPingId(m))
  BY DEF MfaPingId, Mfa
<1>15. InStep("MfaTotp", MfaTotp(n), MfaTotp(m))
  BY DEF MfaTotp, Mfa
<1>16. InStep("Mounts", Mounts(n), Mounts(m))
  BY DEF Mounts
<1>17. InStep("Namespaces", Namespaces(n), Namespaces(m))
  BY DEF Namespaces
<1>18. InStep("Plugins", Plugins(n), Plugins(m))
  BY DEF Plugins
<1>19. InStep("ACL", ACL(n), ACL(m))
  BY DEF ACL, Policies
<1>20. InStep("EGP", EGP(n), EGP(m))
  BY DEF EGP, Policies
<1>21. InStep("RGP", RGP(n), RGP(m))
  BY DEF RGP, Policies
<1>22. InStep("Policy", Policy(n), Policy(m))
  BY DEF Policy
<1>23. InStep("Pprof", Pprof(n), Pprof(m))
  BY DEF Pprof
<1>24. InStep("Raw", Raw(n), Raw(m))
  BY DEF Raw
<1>25. InStep("Sealwrap", Sealwrap(n), Sealwrap(m))
  BY DEF Sealwrap
<1>26. InStep("Tools", Tools(n), Tools(m))
  BY DEF Tools
<1> HIDE OfMatched, OfFinds, OfSingled, Bases, Parts, Paths, Kinds, Showns, Promises,
         Homes, Ins
    DEF InStep, Words
<1> QED BY <1>1, <1>2, <1>3, <1>4, <1>5, <1>6, <1>7, <1>8, <1>9, <1>10, <1>11, <1>12,
      <1>13, <1>14, <1>15, <1>16, <1>17, <1>18, <1>19, <1>20, <1>21, <1>22, <1>23,
      <1>24, <1>25, <1>26 DEF Systems, Lost

-----------------------------------------------------------------------------
(* Classes apart.                                                          *)

\* No request of the one class is at a URL of the other, nor at one below its lists.
Apart(class, other, C, D) ==
  \A p \in C, o \in D :
    Usable(class, p) /\ Usable(other, o) =>
      /\ UrlOf(p) # UrlOf(o)
      /\ WordOf(p) = "list" =>
           \A d \in Directories(p), k \in Names : UrlOf(o) # d \o <<S, k>>

\* The three classes that have their base in common ...
Common == {"Sys", "ControlGroup", "Mounts"}

\* ... are the only ones that share it.
LEMMA StemsDiffer ==
  \A class, other \in DOMAIN Stems :
    Stems[class] = Stems[other] => class = other \/ {class, other} \subseteq Common
BY DEF Stems, Common

\* What sets them apart: their paths.
Aside(base, P, Q) ==
  \A p \in P, o \in Q :
    /\ IsPath(UrlOf(p)) /\ IsPath(UrlOf(o)) /\ UrlOf(p) # UrlOf(o)
    /\ WordOf(p) = "list" =>
         /\ UrlOf(p) # Itself => Last(UrlOf(p)) # S
         /\ \A d \in Dirs(UrlOf(p)), k \in Names : UrlOf(o) # In(base, d, k)

\* Paths apart are URLs apart.
LEMMA OfAside ==
  ASSUME NEW class, NEW other, NEW base, NEW P, NEW Q, IsBase(base), Aside(base, P, Q)
  PROVE  Apart(class, other, Class(base, P), Class(base, Q))
<1> SUFFICES ASSUME NEW c \in Class(base, P), NEW d \in Class(base, Q)
             PROVE  /\ UrlOf(c) # UrlOf(d)
                    /\ WordOf(c) = "list" =>
                         \A h \in Directories(c), k \in Names : UrlOf(d) # h \o <<S, k>>
  BY DEF Apart
<1>1. PICK p \in P : WordOf(c) = WordOf(p) /\ UrlOf(c) = getUrl(base, UrlOf(p))
  BY ClassIs
<1>2. PICK o \in Q : UrlOf(d) = getUrl(base, UrlOf(o))
  BY ClassIs
<1>3. IsPath(UrlOf(p)) /\ IsPath(UrlOf(o)) /\ UrlOf(p) # UrlOf(o)
  BY DEF Aside
<1>4. UrlOf(c) # UrlOf(d)
  BY <1>1, <1>2, <1>3, Cancelled
<1>5. ASSUME WordOf(c) = "list", NEW h \in Directories(c), NEW k \in Names,
             UrlOf(d) = h \o <<S, k>>
      PROVE  FALSE
  <2>1. UrlOf(p) # Itself => Last(UrlOf(p)) # S
    BY <1>1, <1>5 DEF Aside
  <2>2. /\ Directories(c) = {Above(base, e) : e \in Dirs(UrlOf(p))}
        /\ \A e \in Dirs(UrlOf(p)) : IsPath(e)
    BY <1>1, <1>3, <2>1, Places DEF Dirs
  <2>3. PICK e \in Dirs(UrlOf(p)) : h = Above(base, e)
    BY <1>5, <2>2
  <2> DEFINE path == In(base, e, k)
  <2>4. h \o <<S, k>> = getUrl(base, path) /\ IsPath(path)
    BY <2>2, <2>3, Elements
  <2> HIDE DEF path
  <2>5. UrlOf(o) = path
    BY <1>2, <1>3, <1>5, <2>4, Cancelled
  <2> QED BY <1>1, <1>5, <2>5 DEF Aside, path
<1> QED BY <1>4, <1>5

\* The classes of that base are apart.
LEMMA Commons ==
  ASSUME Names \cap Words = {}, NEW n \in Names, NEW m \in Names
  PROVE  /\ Apart("Sys", "ControlGroup", Sys(n), ControlGroup(m))
         /\ Apart("Sys", "Mounts", Sys(n), Mounts(m))
         /\ Apart("ControlGroup", "Sys", ControlGroup(n), Sys(m))
         /\ Apart("ControlGroup", "Mounts", ControlGroup(n), Mounts(m))
         /\ Apart("Mounts", "Sys", Mounts(n), Sys(m))
         /\ Apart("Mounts", "ControlGroup", Mounts(n), ControlGroup(m))
<1> USE OfAside, Bases, Parts, Paths, Kinds, Homes, Ins
    DEF Aside, At, Below, S, Sys, ControlGroup, Mounts, Words
<1>1. Apart("Sys", "ControlGroup", Sys(n), ControlGroup(m))
  OBVIOUS
<1>2. Apart("Sys", "Mounts", Sys(n), Mounts(m))
  OBVIOUS
<1>3. Apart("ControlGroup", "Sys", ControlGroup(n), Sys(m))
  OBVIOUS
<1>4. Apart("ControlGroup", "Mounts", ControlGroup(n), Mounts(m))
  OBVIOUS
<1>5. Apart("Mounts", "Sys", Mounts(n), Sys(m))
  <2> HIDE DEF Words
  <2> QED OBVIOUS
<1>6. Apart("Mounts", "ControlGroup", Mounts(n), ControlGroup(m))
  <2> HIDE DEF Words
  <2> QED OBVIOUS
<1> HIDE DEF Aside, Sys, ControlGroup, Mounts
<1> QED BY <1>1, <1>2, <1>3, <1>4, <1>5, <1>6

-----------------------------------------------------------------------------
(* The requests of all the classes.                                        *)

\* What is known of the requests of a class on two instances.
Fits(class, C, D) == OnItsOwn(class, C) /\ OnItsOwn(class, D) /\ InStep(class, C, D)

\* Classes with different bases have no URL in common.
LEMMA OfStems ==
  ASSUME NEW class, NEW other, NEW C, NEW D, Exact(class, C), Exact(other, D),
         Listing(class, C), Stems[class] # Stems[other]
  PROVE  Apart(class, other, C, D)
<1> SUFFICES ASSUME NEW p \in C, NEW o \in D, Usable(class, p), Usable(other, o)
             PROVE  /\ UrlOf(p) # UrlOf(o)
                    /\ WordOf(p) = "list" =>
                         \A d \in Directories(p), k \in Names : UrlOf(o) # d \o <<S, k>>
  BY DEF Apart
<1>1. UrlOf(p)[3] = Stems[class] /\ UrlOf(o)[3] = Stems[other]
  BY DEF Exact
<1>2. ASSUME WordOf(p) = "list", NEW d \in Directories(p), NEW k \in Names
      PROVE  UrlOf(o) # d \o <<S, k>>
  <2> DEFINE url == d \o <<S, k>>
  <2>1. url[3] = Stems[class]
    BY <1>2 DEF Listing
  <2> HIDE DEF url
  <2>2. UrlOf(o) # url
    BY <1>1, <2>1
  <2> QED BY <2>2 DEF url
<1> QED BY <1>1, <1>2

\* Same things, same words.
LEMMA Things ==
  /\ \A class, other, o, p :
       Thing(other, o) = Thing(class, p) <=>
         other = class /\ About(o, Deed(WordOf(p)), NounOf(p), Shown(UrlOf(p)))
  /\ \A class, other, o, noun, k :
       Thing(other, o) = Element(class, noun, Only(k)) <=>
         other = class /\ About(o, "-", noun, Only(k))
<1>1. \A c, q : Thing(c, q) = [class |-> c, word |-> Deed(WordOf(q)), noun |-> NounOf(q),
                               of |-> Shown(UrlOf(q))]
  <2> SUFFICES ASSUME NEW c, NEW q
               PROVE  Thing(c, q) = [class |-> c, word |-> Deed(WordOf(q)),
                                     noun |-> NounOf(q), of |-> Shown(UrlOf(q))]
    OBVIOUS
  <2>1. Element(c, q.noun, Range(q.url) \cap Names) =
          [class |-> c, word |-> "-", noun |-> NounOf(q), of |-> Shown(UrlOf(q))]
    BY DEF Element, NounOf, UrlOf, Shown
  <2> DEFINE deed == Deed(WordOf(q))
  <2>2. Thing(c, q) = [Element(c, q.noun, Range(q.url) \cap Names) EXCEPT !.word = deed]
    <3>1. CASE q.word \in Writers \cup Deleters \cup Readers
      BY <2>1, <3>1 DEF Thing, Deed, WordOf
    <3>2. CASE q.word \notin Writers \cup Deleters \cup Readers
      BY <3>2 DEF Thing, Deed, WordOf
    <3> QED BY <3>1, <3>2
  <2> HIDE DEF deed
  <2> QED BY <2>1, <2>2 DEF deed
<1>2. \A class, noun, k : Element(class, noun, Only(k)) =
        [class |-> class, word |-> "-", noun |-> noun, of |-> Only(k)]
  BY DEF Element
<1> QED BY <1>1, <1>2 DEF About

\* A request that does something is none that only asks.
LEMMA Changing ==
  \A o : /\ Effect(o) \in {"write", "delete"} => Changes(o)
         /\ Effect(o) \in {"write", "delete", "nothing"}
BY DEF Effect, Stores, Changes, VerbOf

\* The operation a call makes.
IsCallOf(c, class, o) ==
  /\ Usable(class, o)
  /\ c.thing = Thing(class, o) /\ c.promise = Promise(o)
  /\ c.verb = VerbOf(o) /\ c.word = WordOf(o) /\ c.noun = NounOf(o) /\ c.url = UrlOf(o)

\* Every call is one of a usable operation.
LEMMA CallsMake ==
  ASSUME Astray \subseteq Avoided, NEW class \in UNION Groups, NEW c \in Calls[class]
  PROVE  \E n \in Names : \E o \in Operations(class, n) : IsCallOf(c, class, o)
<1>1. PICK o \in UNION {Operations(class, n) : n \in Names} :
        /\ <<class, o.word, o.noun>> \notin Avoided
        /\ c = [thing |-> Thing(class, o), promise |-> Promise(o), verb |-> o.verb,
                word |-> o.word, noun |-> o.noun, url |-> o.url, open |-> o.open]
  BY DEF Calls
<1>2. IsCallOf(c, class, o)
  BY <1>1 DEF IsCallOf, Usable, VerbOf, WordOf, NounOf, UrlOf
<1> QED BY <1>1, <1>2

\* A call does what its operation does.
LEMMA MadeDo ==
  ASSUME NEW c, NEW class, NEW o, IsCallOf(c, class, o)
  PROVE  /\ Effect(c) = Effect(o)
         /\ Lists(c) <=> Lists(o)
         /\ Directories(c) = Directories(o)
BY DEF IsCallOf, Effect, Stores, Lists, Directories, VerbOf, UrlOf

\* Within a class things and URLs correspond, ...
LEMMA AlikeWithin ==
  ASSUME NEW class, NEW C, NEW D, Fits(class, C, D), NEW p \in C, NEW o \in D,
         NEW c, NEW d, IsCallOf(c, class, p), IsCallOf(d, class, o)
  PROVE  /\ Observed(c) => Alike(d, c.url, c.thing)
         /\ \A k \in Names : c.word = "list" =>
              /\ Alike(d, Place(class, p) \o <<S, k>>, Element(class, c.noun, Only(k)))
              /\ Effect(d) = "write" =>
                   \A h \in Directories(c) :
                     d.url = h \o <<S, k>> => h = Place(class, p) /\ Lists(c)
<1>1. /\ Usable(class, p) /\ Usable(class, o)
      /\ c.promise = Promise(p) /\ c.word = WordOf(p) /\ c.noun = NounOf(p)
      /\ c.url = UrlOf(p) /\ c.thing = Thing(class, p)
      /\ d.promise = Promise(o) /\ d.url = UrlOf(o) /\ d.thing = Thing(class, o)
  BY DEF IsCallOf
<1>2. /\ Effect(p) = Promise(p) /\ Effect(o) = Promise(o)
      /\ Effect(d) = Effect(o)
      /\ Directories(c) = Directories(p) /\ (Lists(c) <=> Lists(p))
  BY <1>1, MadeDo DEF Fits, OnItsOwn, Exact
<1>3. ASSUME Observed(c) PROVE Alike(d, c.url, c.thing)
  <2>1. Regards(p)
    BY <1>1, <1>2, <1>3, Changing DEF Observed, Regards
  <2>2. Changes(o) => (UrlOf(o) = UrlOf(p) <=> Thing(class, o) = Thing(class, p))
    BY <1>1, <2>1, Things DEF Fits, InStep, Paired, Matched, OneToOne
  <2> QED BY <1>1, <1>2, <2>2, Changing DEF Alike
<1>4. ASSUME NEW k \in Names, c.word = "list"
      PROVE  Alike(d, Place(class, p) \o <<S, k>>, Element(class, c.noun, Only(k)))
  <2> DEFINE url == Place(class, p) \o <<S, k>>
  <2>0. Changes(o) => (UrlOf(o) = url <=> About(o, "-", NounOf(p), Only(k)))
    BY <1>1, <1>4 DEF Fits, InStep, Found
  <2> HIDE DEF url
  <2>1. Changes(o) => (UrlOf(o) = url <=> Thing(class, o) = Element(class, NounOf(p), Only(k)))
    BY <2>0, Things
  <2>2. Alike(d, url, Element(class, c.noun, Only(k)))
    BY <1>1, <1>2, <2>1, Changing DEF Alike
  <2> QED BY <2>2 DEF url
<1>5. ASSUME NEW k \in Names, c.word = "list", Effect(d) = "write",
             NEW h \in Directories(c), d.url = h \o <<S, k>>
      PROVE  h = Place(class, p) /\ Lists(c)
  BY <1>1, <1>2, <1>5 DEF Fits, OnItsOwn, InStep, Alone, Listing
<1> QED BY <1>3, <1>4, <1>5

\* ... and different classes have neither things nor URLs in common.
LEMMA AlikeAcross ==
  ASSUME NEW class, NEW other, class # other, NEW C, NEW D, Apart(class, other, C, D),
         Exact(other, D), Listing(class, C), NEW p \in C, NEW o \in D, NEW c, NEW d,
         IsCallOf(c, class, p), IsCallOf(d, other, o)
  PROVE  /\ Alike(d, c.url, c.thing)
         /\ \A k \in Names : c.word = "list" =>
              /\ Alike(d, Place(class, p) \o <<S, k>>, Element(class, c.noun, Only(k)))
              /\ \A h \in Directories(c) : d.url # h \o <<S, k>>
<1>1. /\ Usable(class, p) /\ Usable(other, o)
      /\ c.word = WordOf(p) /\ c.noun = NounOf(p)
      /\ c.url = UrlOf(p) /\ c.thing = Thing(class, p)
      /\ d.promise = Promise(o) /\ d.url = UrlOf(o) /\ d.thing = Thing(other, o)
  BY DEF IsCallOf
<1>2. Directories(c) = Directories(p)
  BY MadeDo
<1>3. /\ UrlOf(p) # UrlOf(o)
      /\ WordOf(p) = "list" =>
           /\ Place(class, p) \in Directories(p)
           /\ \A h \in Directories(p), k \in Names : UrlOf(o) # h \o <<S, k>>
  BY <1>1 DEF Apart, Listing
<1>4. Thing(other, o) # Thing(class, p) /\ \A k : Thing(other, o) # Element(class, NounOf(p), Only(k))
  BY Things
<1>5. Alike(d, c.url, c.thing)
  BY <1>1, <1>3, <1>4 DEF Alike
<1>6. ASSUME NEW k \in Names, c.word = "list"
      PROVE  /\ Alike(d, Place(class, p) \o <<S, k>>, Element(class, c.noun, Only(k)))
             /\ \A h \in Directories(c) : d.url # h \o <<S, k>>
  <2>1. \A h \in Directories(p) : UrlOf(o) # h \o <<S, k>>
    BY <1>1, <1>3, <1>6
  <2> DEFINE url == Place(class, p) \o <<S, k>>
  <2>2. UrlOf(o) # url
    BY <1>1, <1>3, <1>6, <2>1
  <2> HIDE DEF url
  <2>3. Alike(d, url, Element(class, c.noun, Only(k)))
    BY <1>1, <1>4, <2>2 DEF Alike
  <2> QED BY <1>1, <1>2, <2>1, <2>3 DEF url
<1> QED BY <1>5, <1>6

-----------------------------------------------------------------------------
(* All of them together.                                                   *)

\* The classes of the three tables are the same on whatever instance.
LEMMA Domains ==
  \A n : /\ DOMAIN Engines(n) = DOMAIN Engines("n")
         /\ DOMAIN AuthMethods(n) = DOMAIN AuthMethods("n")
         /\ DOMAIN Systems(n) = DOMAIN Systems("n")
BY DEF Engines, AuthMethods, Systems

\* On any two instances a class that is not lost has its requests in order.
LEMMA OperationsFit ==
  ASSUME Names \cap Words = {}, NEW class \in Classes \ Lost, NEW n \in Names, NEW m \in Names
  PROVE  Fits(class, Operations(class, n), Operations(class, m))
<1>1. CASE class \in DOMAIN Engines("n")
  BY <1>1, Domains, EnginesExact, EnginesPaired DEF Operations, Fits
<1>2. CASE class \notin DOMAIN Engines("n") /\ class \in DOMAIN AuthMethods("n")
  BY <1>2, Domains, AuthMethodsExact, AuthMethodsPaired DEF Operations, Fits
<1>3. CASE class \notin DOMAIN Engines("n") /\ class \notin DOMAIN AuthMethods("n")
  <2>1. class \in DOMAIN Systems("n")
    BY <1>3 DEF Classes
  <2> QED BY <1>3, <2>1, Domains, SystemsExact, SystemsPaired DEF Operations, Fits
<1> QED BY <1>1, <1>2, <1>3

\* The operations of the three classes with a common base.
LEMMA CommonOperations ==
  \A n : /\ Operations("Sys", n) = Sys(n) /\ Operations("Mounts", n) = Mounts(n)
         /\ Operations("ControlGroup", n) = ControlGroup(n)
<1>1. \A n : {"Sys", "ControlGroup", "Mounts"} \cap (DOMAIN Engines(n) \cup DOMAIN AuthMethods(n)) = {}
  BY DEF Engines, AuthMethods
<1>2. \A n : /\ Systems(n)["Sys"] = Sys(n) /\ Systems(n)["Mounts"] = Mounts(n)
             /\ Systems(n)["ControlGroup"] = ControlGroup(n)
  BY DEF Systems
<1> QED BY <1>1, <1>2 DEF Operations

\* Every class that is not lost has a base.
LEMMA HaveStems == Classes \ Lost \subseteq DOMAIN Stems
<1>1. /\ DOMAIN Engines("n") \ Lost \subseteq DOMAIN Stems
      /\ DOMAIN AuthMethods("n") \subseteq DOMAIN Stems
      /\ DOMAIN Systems("n") \ Lost \subseteq DOMAIN Stems
  BY DEF Engines, AuthMethods, Systems, Lost, Stems
<1> QED BY <1>1 DEF Classes

\* No two of these classes meet.
LEMMA OperationsApart ==
  ASSUME Names \cap Words = {}, NEW class \in Classes \ Lost, NEW other \in Classes \ Lost,
         class # other, NEW n \in Names, NEW m \in Names
  PROVE  Apart(class, other, Operations(class, n), Operations(other, m))
<1>1. CASE Stems[class] # Stems[other]
  <2>1. OnItsOwn(class, Operations(class, n)) /\ OnItsOwn(other, Operations(other, m))
    BY OperationsFit DEF Fits
  <2> QED BY <1>1, <2>1, OfStems DEF OnItsOwn
<1>2. CASE Stems[class] = Stems[other]
  <2>1. {class, other} \subseteq Common
    BY <1>2, HaveStems, StemsDiffer
  <2>2. \/ class = "Sys" /\ other \in {"ControlGroup", "Mounts"}
        \/ class = "ControlGroup" /\ other \in {"Sys", "Mounts"}
        \/ class = "Mounts" /\ other \in {"Sys", "ControlGroup"}
    BY <2>1 DEF Common
  <2> QED BY <2>2, Commons, CommonOperations
<1> QED BY <1>1, <1>2

\* In all of these classes names and URLs correspond.
LEMMA AllCorrespond ==
  ASSUME Names \cap Words = {}, Astray \subseteq Avoided,
         NEW used \in Groups, (UNION Groups) \cap Lost = {}
  PROVE  UrlsAreNames(used) /\ ListsAreNames(used)
<1>1. ASSUME NEW class \in used PROVE class \in UNION Groups /\ class \in Classes \ Lost
  <2>1. class \in UNION Groups
    BY <1>1
  <2>2. class \in Classes
    BY <2>1, GroupsAssumption
  <2>3. class \notin Lost
    BY <2>1
  <2> QED BY <2>1, <2>2, <2>3
<1>2. ASSUME NEW class \in used, NEW other \in used,
             NEW c \in Calls[class], NEW n \in Names, NEW p \in Operations(class, n),
             IsCallOf(c, class, p), NEW d \in Calls[other]
      PROVE  /\ Observed(c) => Alike(d, c.url, c.thing)
             /\ \A k \in Names : c.word = "list" =>
                  /\ Alike(d, Place(class, p) \o <<S, k>>, Element(class, c.noun, Only(k)))
                  /\ Effect(d) = "write" =>
                       \A h \in Directories(c) :
                         d.url = h \o <<S, k>> => h = Place(class, p) /\ Lists(c)
  <2>1. PICK m \in Names : \E o \in Operations(other, m) : IsCallOf(d, other, o)
    BY <1>1, <1>2, CallsMake
  <2>4. PICK o \in Operations(other, m) : IsCallOf(d, other, o)
    BY <2>1
  <2>2. CASE class = other
    <3>1. Fits(class, Operations(class, n), Operations(class, m))
      BY <1>1, <1>2, OperationsFit
    <3>2. o \in Operations(class, m) /\ IsCallOf(d, class, o)
      BY <2>2, <2>4
    <3> DEFINE C == Operations(class, n)
               D == Operations(class, m)
    <3>3. Fits(class, C, D) /\ p \in C /\ o \in D
      BY <1>2, <3>1, <3>2
    <3> HIDE DEF C, D
    <3> QED BY <1>2, <3>2, <3>3, AlikeWithin
  <2>3. CASE class # other
    <3>1. Apart(class, other, Operations(class, n), Operations(other, m))
      BY <1>1, <1>2, <2>3, OperationsApart
    <3>2. OnItsOwn(class, Operations(class, n)) /\ OnItsOwn(other, Operations(other, m))
      BY <1>1, <1>2, OperationsFit DEF Fits
    <3> DEFINE C == Operations(class, n)
               D == Operations(other, m)
    <3>3. /\ Apart(class, other, C, D) /\ Exact(other, D) /\ Listing(class, C)
          /\ p \in C /\ o \in D
      BY <1>2, <2>4, <3>1, <3>2 DEF OnItsOwn
    <3> HIDE DEF C, D
    <3>4. /\ Alike(d, c.url, c.thing)
          /\ \A k \in Names : c.word = "list" =>
               /\ Alike(d, Place(class, p) \o <<S, k>>, Element(class, c.noun, Only(k)))
               /\ \A h \in Directories(c) : d.url # h \o <<S, k>>
      BY <1>2, <2>4, <2>3, <3>3, AlikeAcross
    <3> QED BY <3>4
  <2> QED BY <2>2, <2>3
<1>3. UrlsAreNames(used)
  <2> SUFFICES ASSUME NEW class \in used, NEW other \in used, NEW p \in Calls[class],
                      NEW o \in Calls[other], Observed(p)
               PROVE  Alike(o, p.url, p.thing)
    BY DEF UrlsAreNames
  <2> QED BY <1>1, <1>2, CallsMake
<1>4. ListsAreNames(used)
  <2> SUFFICES ASSUME NEW class \in used, NEW c \in Calls[class], NEW k \in Names,
                      c.word = "list"
               PROVE  \E h \in Directories(c) : IsKeptIn(h, k, class, c, used)
    BY DEF ListsAreNames
  <2>1. PICK n \in Names : \E p \in Operations(class, n) : IsCallOf(c, class, p)
    BY <1>1, CallsMake
  <2>4. PICK p \in Operations(class, n) : IsCallOf(c, class, p)
    BY <2>1
  <2>2. Place(class, p) \in Directories(c)
    <3>1. OnItsOwn(class, Operations(class, n))
      BY <1>1, OperationsFit DEF Fits
    <3> QED BY <2>4, <3>1, MadeDo DEF OnItsOwn, Listing, IsCallOf
  <2>3. IsKeptIn(Place(class, p), k, class, c, used)
    BY <1>2, <2>4 DEF IsKeptIn, Only
  <2> QED BY <2>2, <2>3
<1> QED BY <1>3, <1>4

\* Whatever the names of the roles, keys or mounts are, but for the words of the
\* URLs, and whichever classes an application uses together, but for the lost ones:
\* when it avoids the operations that go astray, all operations on one thing build
\* one URL, those on different things never the same, and lists ask where the
\* elements are (the getUrl of the classes and the paths their methods append).
THEOREM RequestsCorrespond ==
  ASSUME Names \cap Words = {}, (UNION Groups) \cap Lost = {}, Astray \subseteq Avoided
  PROVE  Spec => []NamesMatchUrls
<1>1. Start => classes \in Groups
  BY DEF Start
<1>2. classes \in Groups /\ [Next]_vars => (classes \in Groups)'
  BY DEF Next, Perform, vars
<1>3. classes \in Groups => NamesMatchUrls
  BY AllCorrespond DEF NamesMatchUrls
<1> QED BY <1>1, <1>2, <1>3, PTL DEF Spec

-----------------------------------------------------------------------------
(* Names and URLs.                                                         *)

\* Names and URLs correspond in what an application uses.
Correspond == UrlsAreNames(classes) /\ ListsAreNames(classes)

\* The classes an application uses are the same throughout: a table that is sound
\* when it starts is sound whenever a call is made.
LEMMA TheyCorrespond == Spec /\ []NamesMatchUrls => []Correspond
<1>1. Start /\ NamesMatchUrls => Correspond
  BY DEF Start, NamesMatchUrls, Correspond
<1>2. Correspond /\ [Next]_vars => Correspond'
  <2> SUFFICES ASSUME Correspond, [Next]_vars PROVE Correspond'
    OBVIOUS
  <2>1. classes' = classes
    BY DEF Next, Perform, vars
  <2> QED BY <2>1 DEF Correspond
<1> QED BY <1>1, <1>2, PTL DEF Spec

\* A call leaves a URL and a thing alike if it does to the one what it promises to
\* do to the other.
LEMMA StayAlike ==
  ASSUME NEW class \in UNION Groups, NEW o \in Calls[class], Perform(class, o),
         NEW url, NEW thing, Alike(o, url, thing),
         url \in DOMAIN server <=> thing \in DOMAIN held
  PROVE  /\ url \in DOMAIN server' <=> thing \in DOMAIN held'
         /\ (thing \in DOMAIN held => server[url] = held[thing]) =>
              (thing \in DOMAIN held' => server'[url] = held'[thing])
<1>1. /\ o.promise \in {"write", "delete", "nothing"}
      /\ Effect(o) \in {"write", "delete", "nothing"}
  BY CallsAre, Effects
<1>2. /\ url \in DOMAIN server' <=>
           \/ Effect(o) = "write" /\ o.url = url
           \/ url \in DOMAIN server /\ ~(Effect(o) = "delete" /\ o.url = url)
      /\ url \in DOMAIN server' =>
           server'[url] = IF Effect(o) = "write" /\ o.url = url
                          THEN calls' ELSE server[url]
  BY <1>1, AfterIs DEF Perform
<1>3. /\ thing \in DOMAIN held' <=>
           \/ o.promise = "write" /\ o.thing = thing
           \/ thing \in DOMAIN held /\ ~(o.promise = "delete" /\ o.thing = thing)
      /\ thing \in DOMAIN held' =>
           held'[thing] = IF o.promise = "write" /\ o.thing = thing
                          THEN calls' ELSE held[thing]
  BY <1>1, AfterIs DEF Perform
<1>4. /\ Effect(o) = "write" /\ o.url = url <=> o.promise = "write" /\ o.thing = thing
      /\ Effect(o) = "delete" /\ o.url = url <=> o.promise = "delete" /\ o.thing = thing
  BY DEF Alike
<1> QED BY <1>2, <1>3, <1>4

\* Where names and URLs correspond, every operation finds what the names of the
\* operations before it promised, however many there were.
THEOREM ActsWhereNamesMatch == Spec /\ []NamesMatchUrls => []ActsOnItsThing
<1>1. Start => ActsOnItsThing
  BY DEF Start, ActsOnItsThing, EmptyStore
<1>2. TypeOK /\ Correspond /\ ActsOnItsThing /\ [Next]_vars => ActsOnItsThing'
  <2> SUFFICES ASSUME TypeOK, Correspond, ActsOnItsThing, [Next]_vars
               PROVE  ActsOnItsThing'
    OBVIOUS
  <2>1. ASSUME NEW other \in classes, NEW o \in Calls[other], Perform(other, o)
        PROVE  ActsOnItsThing'
    <3>1. classes' = classes /\ other \in UNION Groups
      BY <2>1 DEF Perform, TypeOK
    <3>2. ASSUME NEW class \in classes, NEW p \in Calls[class], Observed(p)
          PROVE  /\ p.url \in DOMAIN server' <=> p.thing \in DOMAIN held'
                 /\ p.thing \in DOMAIN held' => server'[p.url] = held'[p.thing]
      <4>1. Alike(o, p.url, p.thing)
        BY <3>2 DEF Correspond, UrlsAreNames
      <4>2. /\ p.url \in DOMAIN server <=> p.thing \in DOMAIN held
            /\ p.thing \in DOMAIN held => server[p.url] = held[p.thing]
        BY <3>2 DEF ActsOnItsThing
      <4> QED BY <2>1, <3>1, <4>1, <4>2, StayAlike
    <3> QED BY <3>1, <3>2 DEF ActsOnItsThing
  <2>2. CASE UNCHANGED vars
    BY <2>2 DEF vars, ActsOnItsThing
  <2> QED BY <2>1, <2>2 DEF Next
<1> QED BY <1>1, <1>2, RoutesTypeCorrect, TheyCorrespond, PTL DEF Spec

\* Every operation of the classes that are not lost, but for the ones that go astray,
\* acts where the operations before it on the same thing left it, and on nothing
\* else: a read finds what was created and not deleted, in any sequence of calls.
THEOREM ActsWhereItShould ==
  ASSUME Names \cap Words = {}, (UNION Groups) \cap Lost = {}, Astray \subseteq Avoided
  PROVE  Spec => []ActsOnItsThing
BY RequestsCorrespond, ActsWhereNamesMatch, PTL

\* The inductive invariant of the lists: what an element is kept in has it exactly
\* when it should be there, and no other directory of the list has anything.
ElementsInPlace ==
  \A class \in classes : \A p \in Calls[class] : \A n \in Names :
    \A d \in Directories(p) : IsKeptIn(d, n, class, p, classes) =>
      /\ d \o <<S, n>> \in DOMAIN server <=> Element(class, p.noun, {n}) \in DOMAIN held
      /\ \A e \in Directories(p) : e \o <<S, n>> \in DOMAIN server => e = d /\ Lists(p)

LEMMA ElementsStayInPlace ==
  TypeOK /\ ElementsInPlace /\ [Next]_vars => ElementsInPlace'
<1> SUFFICES ASSUME TypeOK, ElementsInPlace, [Next]_vars
             PROVE  ElementsInPlace'
  OBVIOUS
<1>1. ASSUME NEW other \in classes, NEW o \in Calls[other], Perform(other, o)
      PROVE  ElementsInPlace'
  <2>1. classes' = classes /\ other \in UNION Groups
    BY <1>1 DEF Perform, TypeOK
  <2>2. ASSUME NEW class \in classes, NEW p \in Calls[class], NEW n \in Names,
               NEW d \in Directories(p), IsKeptIn(d, n, class, p, classes)
        PROVE  /\ d \o <<S, n>> \in DOMAIN server'
                    <=> Element(class, p.noun, {n}) \in DOMAIN held'
               /\ \A e \in Directories(p) :
                    e \o <<S, n>> \in DOMAIN server' => e = d /\ Lists(p)
    <3>1. /\ d \o <<S, n>> \in DOMAIN server
                <=> Element(class, p.noun, {n}) \in DOMAIN held
          /\ \A e \in Directories(p) :
               e \o <<S, n>> \in DOMAIN server => e = d /\ Lists(p)
      BY <2>2 DEF ElementsInPlace
    <3>2. /\ Alike(o, d \o <<S, n>>, Element(class, p.noun, {n}))
          /\ Effect(o) = "write" =>
               \A e \in Directories(p) : o.url = e \o <<S, n>> => e = d /\ Lists(p)
      BY <2>2 DEF IsKeptIn
    <3>3. d \o <<S, n>> \in DOMAIN server'
            <=> Element(class, p.noun, {n}) \in DOMAIN held'
      BY <1>1, <2>1, <3>1, <3>2, StayAlike
    <3>4. ASSUME NEW e \in Directories(p), e \o <<S, n>> \in DOMAIN server'
          PROVE  e = d /\ Lists(p)
      <4>1. \/ e \o <<S, n>> \in DOMAIN server
            \/ Effect(o) = "write" /\ o.url = e \o <<S, n>>
        BY <1>1, <3>4, OnServer
      <4> QED BY <3>1, <3>2, <4>1
    <3> QED BY <3>3, <3>4
  <2> QED BY <2>1, <2>2 DEF ElementsInPlace
<1>2. CASE UNCHANGED vars
  BY <1>2 DEF vars, ElementsInPlace
<1> QED BY <1>1, <1>2 DEF Next

\* Where names and URLs correspond, a list names every element that was created and
\* not deleted since, and no other, however many calls there were.
THEOREM ListsWhereNamesMatch == Spec /\ []NamesMatchUrls => []ListsAreComplete
<1>1. Start => ElementsInPlace
  BY DEF Start, ElementsInPlace, EmptyStore
<1>2. Correspond /\ ElementsInPlace => ListsAreComplete
  <2> SUFFICES ASSUME Correspond, ElementsInPlace,
                      NEW class \in classes, NEW p \in Calls[class], p.word = "list",
                      NEW n \in Names
               PROVE  (Lists(p) /\ \E e \in Directories(p) :
                                     e \o <<S, n>> \in DOMAIN server)
                        <=> Element(class, p.noun, {n}) \in DOMAIN held
    BY DEF ListsAreComplete, Listed
  <2>1. PICK d \in Directories(p) : IsKeptIn(d, n, class, p, classes)
    BY DEF Correspond, ListsAreNames
  <2> QED BY <2>1 DEF ElementsInPlace
<1> QED BY <1>1, <1>2, ElementsStayInPlace, TheyCorrespond, RoutesTypeCorrect, PTL DEF Spec

\* The lists of the same operations name every element that was created and not
\* deleted since, and no other.
THEOREM ListsNameAll ==
  ASSUME Names \cap Words = {}, (UNION Groups) \cap Lost = {}, Astray \subseteq Avoided
  PROVE  Spec => []ListsAreComplete
BY RequestsCorrespond, ListsWhereNamesMatch, PTL
=============================================================================
