-------------------------- MODULE TokenTree_proofs --------------------------
(***************************************************************************)
(* Proofs about TokenTree, for any tokens to begin with, any calls of the  *)
(* token operations and any losses on the way: what a revocation ends      *)
(* stays ended, nothing else ends, and no token is lost track of.          *)
(***************************************************************************)
EXTENDS TokenTree, TLAPS

\* A call that a server may still get, or that has not returned.
Asked(id) ==
  verdict[id] = "pending" \/ (verdict[id] = "unknown" /\ effects[id] = 0)

Requests ==
  [operation : Operations, by : AllTokens, target : AllTokens \cup {NoToken},
   outlawed : SUBSET AllTokens]

\* The types that TreeTypeOK leaves out.
Typed ==
  /\ TreeTypeOK
  /\ effects \in [CallIds -> {0, 1}]
  /\ request \in [CallIds -> Requests \cup {NoRequest}]
  /\ doomed \in [CallIds -> SUBSET AllTokens]

\* What a verdict says of the server, for every call.
Consistent ==
  \A id \in CallIds :
    /\ verdict[id] \in {"none", "refused"} => effects[id] = 0
    /\ verdict[id] = "done" => effects[id] = 1

\* A call is about tokens that were told, and its caller knows what it will get.
IsMeant(id, r) ==
  /\ r \in Requests
  /\ r.by \in told
  /\ NamesToken(r.operation) => r.target \in told
  /\ NamesWrapping(r.operation) => r.target \in wrapped
  /\ \A t \in r.outlawed : \E c \in CallIds : t \in doomed[c]
  /\ verdict[id] = "pending" /\ holds[id] # NoToken => MakesWrapping(r.operation)

InFlight == \A id \in CallIds : Asked(id) => IsMeant(id, request[id])

\* A call that was not served has left no trace.
NotYet ==
  \A id \in CallIds : effects[id] = 0 =>
    /\ line[id] = {} /\ doomed[id] = {} /\ holds[id] = NoToken /\ reply[id] = NoToken
    /\ id \notin live /\ id \notin told
    /\ \A c \in CallIds : holds[c] # id /\ reply[c] # id /\ id \notin doomed[c]

WrappedAreDone == \A w \in wrapped : verdict[w] = "done"

\* What a revocation was to end has ended.
DoomedAreDead == \A c \in CallIds : doomed[c] \cap live = {}

\* The inductive invariant.  The tree is the one the names of the operations promise.
IInv ==
  /\ Typed
  /\ Consistent
  /\ InFlight
  /\ NotYet
  /\ WrappedAreDone
  /\ DoomedAreDead
  /\ family = line
  /\ EndsAsMeant
  /\ NoneLeaks

-----------------------------------------------------------------------------
(* Where the requests go.                                                  *)

\* The operations of a class of the auth methods, and of one of the system backend.
LEMMA OfAuthClass ==
  ASSUME NEW base, NEW operations, NEW o \in Auth!Class(base, operations)
  PROVE  \E p \in operations :
           /\ o.word = p.word /\ o.noun = p.noun
           /\ o.url = Auth!getUrl(base, p.url)
BY DEF Auth!Class, Auth!Operation

LEMMA OfSystemClass ==
  ASSUME NEW base, NEW operations, NEW o \in System!Class(base, operations)
  PROVE  \E p \in operations :
           /\ o.word = p.word /\ o.noun = p.noun
           /\ o.url = System!getUrl(base, p.url)
BY DEF System!Class, System!Operation

\* The endpoints that the names of Tokens stand for.
TokenEndpoint(word, noun, endpoint) ==
  \/ word = "create" /\ noun \in {"Token", "TokenWithRole"} /\ endpoint = "create"
  \/ word = "create" /\ noun = "TokenOrphan" /\ endpoint = "create-orphan"
  \/ word = "lookup" /\ noun = "TokenSelf" /\ endpoint = "lookup-self"
  \/ word = "lookup" /\ noun = "Token" /\ endpoint = "lookup"
  \/ word = "lookup" /\ noun = "TokenAccessor" /\ endpoint = "lookup-accessor"
  \/ word = "renew" /\ noun = "TokenSelf" /\ endpoint = "renew-self"
  \/ word = "renew" /\ noun = "Token" /\ endpoint = "renew"
  \/ word = "renew" /\ noun = "TokenAccessor" /\ endpoint = "renew-accessor"
  \/ word = "revoke" /\ noun = "TokenSelf" /\ endpoint = "revoke-self"
  \/ word = "revoke" /\ noun = "Token" /\ endpoint = "revoke"
  \/ word = "revoke" /\ noun = "TokenAccessor" /\ endpoint = "revoke-accessor"
  \/ word = "revoke" /\ noun = "TokenAndOrphanChildren" /\ endpoint = "revoke-orphan"

LEMMA TokenEndpoints ==
  ASSUME NEW o \in Auth!Tokens("role"), <<o.word, o.noun>> \in TokenOperations
  PROVE  TokenEndpoint(o.word, o.noun, Endpoint(o))
<1>0. /\ \A x : Auth!On(x)[1] = x
      /\ \A x, y : Auth!At(x, y)[1] = x
  BY DEF Auth!On, Auth!At, Auth!Sub
<1>1. PICK operations :
        /\ Auth!Tokens("role") = Auth!Class(Auth!Under("auth/token"), operations)
        /\ \A p \in operations :
             \/ TokenEndpoint(p.word, p.noun, p.url[1])
             \/ p.word \notin {"create", "lookup", "renew", "revoke", "unwrap", "rewrap"}
             \/ p.noun = "TokenRole"
        /\ \A p \in operations :
             (\E x : p.url = Auth!On(x)) \/ (\E x, y : p.url = Auth!At(x, y))
  BY <1>0 DEF Auth!Tokens, Auth!get, Auth!post, Auth!list, Auth!del, Auth!Operation,
         TokenEndpoint
<1>2. PICK p \in operations :
        /\ o.word = p.word /\ o.noun = p.noun
        /\ o.url = Auth!getUrl(Auth!Under("auth/token"), p.url)
  <2>1. o \in Auth!Class(Auth!Under("auth/token"), operations)
    BY <1>1
  <2> QED BY <2>1, OfAuthClass
<1>3. o.url[5] = p.url[1]
  <2>1. CASE \E x : p.url = Auth!On(x)
    BY <1>2, <2>1 DEF Auth!getUrl, Auth!Under, Auth!On
  <2>2. CASE \E x, y : p.url = Auth!At(x, y)
    BY <1>2, <2>2 DEF Auth!getUrl, Auth!Under, Auth!At, Auth!Sub, Auth!On
  <2> QED BY <1>1, <2>1, <2>2
<1>4. o.word \in {"create", "lookup", "renew", "revoke", "unwrap", "rewrap"}
      /\ o.noun # "TokenRole"
  BY DEF TokenOperations
<1> QED BY <1>1, <1>2, <1>3, <1>4 DEF Endpoint

LEMMA WrappingEndpoints ==
  ASSUME NEW o \in System!Sys("path"), <<o.word, o.noun>> \in TokenOperations
  PROVE  \/ Name(o) = <<"unwrap", "-">> /\ Endpoint(o) = "wrapping/unwrap"
         \/ Name(o) = <<"rewrap", "-">> /\ Endpoint(o) = "wrapping/rewrap"
         \/ Name(o) = <<"lookup", "-">> /\ Endpoint(o) = "wrapping"
<1>1. PICK operations :
        /\ System!Sys("path") = System!Class(System!Under("sys"), operations)
        /\ \A p \in operations :
             \/ p.word = "unwrap" /\ p.noun = "-" /\ p.url = System!On("wrapping/unwrap")
             \/ p.word = "rewrap" /\ p.noun = "-" /\ p.url = System!On("wrapping/rewrap")
             \/ /\ p.word = "lookup" /\ p.noun = "-"
                /\ p.url = System!At("wrapping", "lookup")
             \/ p.word \notin {"create", "lookup", "renew", "revoke", "unwrap", "rewrap"}
  BY DEF System!Sys, System!get, System!post, System!put, System!unauthenticated_get,
         System!unauthenticated_post, System!post_with_token, System!Operation
<1>2. PICK p \in operations :
        /\ o.word = p.word /\ o.noun = p.noun
        /\ o.url = System!getUrl(System!Under("sys"), p.url)
  <2>1. o \in System!Class(System!Under("sys"), operations)
    BY <1>1
  <2> QED BY <2>1, OfSystemClass
<1>3. o.word \in {"create", "lookup", "renew", "revoke", "unwrap", "rewrap"}
  BY DEF TokenOperations
<1>4. \/ o.word = "unwrap" /\ o.noun = "-" /\ p.url = System!On("wrapping/unwrap")
      \/ o.word = "rewrap" /\ o.noun = "-" /\ p.url = System!On("wrapping/rewrap")
      \/ /\ o.word = "lookup" /\ o.noun = "-"
         /\ p.url = System!At("wrapping", "lookup")
  BY <1>1, <1>2, <1>3
<1>5. ASSUME NEW x, p.url = System!On(x) PROVE o.url[5] = x
  BY <1>2, <1>5 DEF System!getUrl, System!Under, System!On
<1>6. ASSUME NEW x, NEW y, p.url = System!At(x, y) PROVE o.url[5] = x
  BY <1>2, <1>6 DEF System!getUrl, System!Under, System!At, System!Sub, System!On
<1> QED BY <1>4, <1>5, <1>6 DEF Name, Endpoint

LEMMA Endpoints ==
  ASSUME NEW o \in Operations
  PROVE  \/ TokenEndpoint(o.word, o.noun, Endpoint(o))
         \/ Name(o) = <<"create", "WrappedToken">> /\ Endpoint(o) = "create"
         \/ Name(o) = <<"unwrap", "-">> /\ Endpoint(o) = "wrapping/unwrap"
         \/ Name(o) = <<"rewrap", "-">> /\ Endpoint(o) = "wrapping/rewrap"
         \/ Name(o) = <<"lookup", "-">> /\ Endpoint(o) = "wrapping"
<1>1. <<o.word, o.noun>> \in TokenOperations
  BY UsedAssumption DEF Operations
<1>2. CASE o \in Auth!Tokens("role")
  BY <1>1, <1>2, TokenEndpoints
<1>3. CASE o \in createWrappedToken(Auth!Tokens("role"))
  <2>1. PICK p \in Auth!Tokens("role") :
          /\ p.word = "create" /\ p.noun = "Token"
          /\ o.word = p.word /\ o.noun = "WrappedToken" /\ o.url = p.url
    BY <1>3 DEF createWrappedToken, Auth!Operation
  <2>2. <<p.word, p.noun>> \in TokenOperations
    BY <2>1 DEF TokenOperations
  <2>3. Endpoint(p) = "create"
    BY <2>1, <2>2, TokenEndpoints DEF TokenEndpoint
  <2> QED BY <2>1, <2>3 DEF Name, Endpoint
<1>4. CASE o \in System!Sys("path")
  BY <1>1, <1>4, WrappingEndpoints
<1> QED BY <1>2, <1>3, <1>4 DEF Operations

-----------------------------------------------------------------------------
(* What the server may do.                                                 *)

Dooms(id, ts) == doomed' = [doomed EXCEPT ![id] = ts]

Issued(id, o) ==
  \E ancestors \in SUBSET AllTokens : Issue(id, o, ancestors) /\ Dooms(id, {})

\* The call ends the tokens ts, perhaps none.
Ended(id, ts) ==
  /\ live' = live \ ts
  /\ Dooms(id, ts)
  /\ \A t \in ts : t \in told \/ line[t] # {}
  /\ line' \in [AllTokens -> SUBSET AllTokens]
  /\ \A u \in AllTokens : line'[u] \subseteq line[u]
  /\ UNCHANGED <<holds, reply>>

\* What an operation does to the tree of the server is what its name promises.
LEMMA ServerStep ==
  ASSUME IInv, NEW id \in CallIds, NEW o \in Operations, NEW by \in told,
         NEW target \in AllTokens \cup {NoToken},
         NamesToken(o) => target \in told,
         NamesWrapping(o) => target \in wrapped,
         Effect(id, o, by, target), Promise(id, o, by, target)
  PROVE  /\ \/ Issued(id, o)
            \/ \E ts \in SUBSET AllTokens : Ended(id, ts)
            \/ Unwrap(id, target) /\ target \in wrapped /\ Dooms(id, {})
            \/ /\ Rewrap(id, target) /\ target \in wrapped /\ Dooms(id, {})
               /\ MakesWrapping(o)
         /\ family' = line'
         /\ NamesToken(o) /\ o.word # "revoke" => target \in live
<1>1. /\ by \in AllTokens /\ id \in AllTokens /\ family = line
      /\ line \in [AllTokens -> SUBSET AllTokens]
  BY DEF IInv, Typed, TreeTypeOK, AllTokens
<1>2. ASSUME o.noun # "TokenAndOrphanChildren"
      PROVE  /\ family' = [u \in AllTokens |->
                  IF u = id /\ o.word = "create"
                  THEN (IF o.noun = "TokenOrphan" THEN {id} ELSE line[by] \cup {id})
                  ELSE line[u]]
             /\ o.word # "revoke" => Dooms(id, {})
             /\ o.word = "revoke" =>
                  Dooms(id, IF o.noun = "TokenSelf" THEN Under(by) ELSE Under(target))
  BY <1>1, <1>2 DEF Promise, Dooms, Under
<1>3. \A t : /\ Under(t) \in SUBSET AllTokens
             /\ \A u \in Under(t) : line[u] # {}
  BY DEF Under
<1>4. CASE o.word = "create" /\ o.noun # "TokenAndOrphanChildren"
           /\ o.noun # "TokenOrphan" /\ Endpoint(o) = "create"
  <2>1. Issue(id, o, line[by])
    BY <1>4 DEF Effect
  <2>2. line' = [line EXCEPT ![id] = line[by] \cup {id}]
    BY <2>1 DEF Issue
  <2>3. family' = line'
    BY <1>1, <1>2, <1>4, <2>2
  <2>4. Issued(id, o)
    BY <1>1, <1>2, <1>4, <2>1 DEF Issued
  <2> QED BY <1>4, <2>3, <2>4 DEF NamesToken
<1>5. CASE o.word = "create" /\ o.noun = "TokenOrphan" /\ Endpoint(o) = "create-orphan"
  <2>1. Issue(id, o, {})
    BY <1>5 DEF Effect
  <2>2. line' = [line EXCEPT ![id] = {id}]
    BY <2>1 DEF Issue
  <2>3. family' = line'
    BY <1>1, <1>2, <1>5, <2>2
  <2>4. Issued(id, o)
    BY <1>2, <1>5, <2>1 DEF Issued
  <2> QED BY <1>5, <2>3, <2>4 DEF NamesToken
<1>6. ASSUME UNCHANGED <<live, line, holds, reply>>,
             o.word \in {"lookup", "renew"}, o.noun # "TokenAndOrphanChildren"
      PROVE  Ended(id, {}) /\ family' = line'
  <2>1. Dooms(id, {}) /\ family' = line'
    BY <1>1, <1>2, <1>6
  <2> QED BY <1>1, <1>6, <2>1 DEF Ended
<1>7. CASE o.word \in {"lookup", "renew"} /\ o.noun = "TokenSelf"
           /\ Endpoint(o) \in {"lookup-self", "renew-self"}
  <2>1. Look(by)
    BY <1>7 DEF Effect
  <2> QED BY <1>6, <1>7, <2>1 DEF Look, NamesToken
<1>8. CASE o.word \in {"lookup", "renew"} /\ o.noun \in {"Token", "TokenAccessor"}
           /\ Endpoint(o) \in {"lookup", "lookup-accessor", "renew", "renew-accessor"}
  <2>1. Look(target)
    BY <1>8 DEF Effect
  <2> QED BY <1>6, <1>8, <2>1 DEF Look
<1>9. ASSUME NEW t, Revoke(Under(t)), o.word = "revoke", Dooms(id, Under(t)),
             o.noun # "TokenAndOrphanChildren"
      PROVE  (\E ts \in SUBSET AllTokens : Ended(id, ts)) /\ family' = line'
  <2>1. family' = line'
    BY <1>1, <1>2, <1>9 DEF Revoke
  <2>2. Ended(id, Under(t))
    BY <1>1, <1>3, <1>9 DEF Revoke, Ended
  <2> QED BY <1>3, <2>1, <2>2
<1>10. CASE o.word = "revoke" /\ o.noun = "TokenSelf" /\ Endpoint(o) = "revoke-self"
  <2>1. Revoke(Under(by))
    BY <1>10 DEF Effect
  <2> QED BY <1>2, <1>9, <1>10, <2>1
<1>11. CASE o.word = "revoke" /\ o.noun \in {"Token", "TokenAccessor"}
            /\ Endpoint(o) \in {"revoke", "revoke-accessor"}
  <2>1. Revoke(Under(target))
    BY <1>11 DEF Effect
  <2> QED BY <1>2, <1>9, <1>11, <2>1
<1>12. CASE o.word = "revoke" /\ o.noun = "TokenAndOrphanChildren"
            /\ Endpoint(o) = "revoke-orphan"
  <2>1. RevokeOrphan(target)
    BY <1>12 DEF Effect
  <2>2. target \in told
    BY <1>12 DEF NamesToken
  <2>3. /\ Dooms(id, {target})
        /\ family' = [u \in AllTokens |-> IF u \in Under(target) \ {target}
                                          THEN line[u] \ line[target] ELSE line[u]]
    BY <1>1, <1>12 DEF Promise, Dooms, Under
  <2>4. family' = line'
    BY <2>1, <2>3 DEF RevokeOrphan
  <2>5. Ended(id, {target})
    BY <1>1, <2>1, <2>2, <2>3 DEF RevokeOrphan, Ended
  <2>6. target \in AllTokens
    BY <2>2 DEF IInv, Typed, TreeTypeOK
  <2> QED BY <1>12, <2>4, <2>5, <2>6
<1>13. CASE Name(o) = <<"unwrap", "-">> /\ Endpoint(o) = "wrapping/unwrap"
  <2>1. Unwrap(id, target)
    BY <1>13 DEF Effect
  <2>2. o.word = "unwrap" /\ o.noun = "-" /\ target \in wrapped
    BY <1>13 DEF Name, NamesWrapping, IsUnwrap
  <2>3. Dooms(id, {}) /\ family' = line'
    BY <1>1, <1>2, <2>1, <2>2 DEF Unwrap
  <2> QED BY <2>1, <2>2, <2>3 DEF NamesToken
<1>14. CASE Name(o) = <<"rewrap", "-">> /\ Endpoint(o) = "wrapping/rewrap"
  <2>1. Rewrap(id, target)
    BY <1>14 DEF Effect
  <2>2. o.word = "rewrap" /\ o.noun = "-" /\ target \in wrapped
    BY <1>14 DEF Name, NamesWrapping
  <2>3. Dooms(id, {}) /\ family' = line'
    BY <1>1, <1>2, <2>1, <2>2 DEF Rewrap
  <2> QED BY <2>1, <2>2, <2>3 DEF NamesToken, MakesWrapping
<1>15. CASE Name(o) = <<"lookup", "-">> /\ Endpoint(o) = "wrapping"
  <2>1. LookWrapping(target)
    BY <1>15 DEF Effect
  <2>2. o.word = "lookup" /\ o.noun = "-"
    BY <1>15 DEF Name
  <2> QED BY <1>6, <2>1, <2>2 DEF LookWrapping, NamesToken
<1>16. CASE TokenEndpoint(o.word, o.noun, Endpoint(o))
  BY <1>4, <1>5, <1>7, <1>8, <1>10, <1>11, <1>12, <1>16 DEF TokenEndpoint
<1>17. CASE Name(o) = <<"create", "WrappedToken">> /\ Endpoint(o) = "create"
  BY <1>4, <1>17 DEF Name
<1> QED BY <1>13, <1>14, <1>15, <1>16, <1>17, Endpoints

\* What IInv says of the tree.
TreeHolds ==
  /\ live \in SUBSET AllTokens
  /\ line \in [AllTokens -> SUBSET AllTokens]
  /\ holds \in [CallIds -> AllTokens \cup {NoToken}]
  /\ reply \in [CallIds -> AllTokens \cup {NoToken}]
  /\ doomed \in [CallIds -> SUBSET AllTokens]
  /\ NotYet
  /\ DoomedAreDead
  /\ EndsAsMeant
  /\ NoneLeaks

\* A call that had no effect has it now.
Serving(id) ==
  /\ verdict[id] \in {"pending", "unknown"} /\ effects[id] = 0
  /\ effects' = [effects EXCEPT ![id] = 1]
  /\ UNCHANGED <<verdict, told, wrapped>>

\* The step that serves a call keeps it, and touches nothing of the other calls
\* but to take a token out of its wrapping.
TreeKept(id) ==
  /\ TreeHolds'
  /\ holds'[id] # NoToken => MakesWrapping(request[id].operation)
  /\ \A c \in CallIds \ {id} : holds'[c] \in {holds[c], NoToken}
  /\ \A c \in CallIds : doomed[c] \subseteq doomed'[c]

\* A token that is new is in the hands of the call that makes it.
LEMMA IssuedKeeps ==
  ASSUME IInv, NEW id \in CallIds, Serving(id),
         Issued(id, request[id].operation)
  PROVE  TreeKept(id)
<1> USE DEF Serving
<1>1. PICK ancestors \in SUBSET AllTokens :
        Issue(id, request[id].operation, ancestors) /\ Dooms(id, {})
  BY DEF Issued
<1>2. /\ line[id] = {} /\ doomed[id] = {} /\ holds[id] = NoToken /\ reply[id] = NoToken
      /\ \A c \in CallIds : id \notin doomed[c]
      /\ id \in AllTokens /\ id # NoToken
  BY DistinctAssumption DEF IInv, NotYet, AllTokens
<1>3. /\ live' = live \cup {id}
      /\ line' = [line EXCEPT ![id] = ancestors \cup {id}]
      /\ doomed' = doomed
      /\ holds' \in [CallIds -> AllTokens \cup {NoToken}]
      /\ reply' \in [CallIds -> AllTokens \cup {NoToken}]
      /\ holds'[id] = id \/ reply'[id] = id
      /\ holds'[id] \in {id, NoToken} /\ reply'[id] \in {id, NoToken}
      /\ \A c \in CallIds \ {id} : holds'[c] = holds[c] /\ reply'[c] = reply[c]
      /\ holds'[id] # NoToken => MakesWrapping(request[id].operation)
  BY <1>1, <1>2 DEF Issue, Dooms, IInv, Typed, TreeTypeOK, MakesWrapping
<1>4. /\ live' \in SUBSET AllTokens
      /\ line' \in [AllTokens -> SUBSET AllTokens]
      /\ doomed' \in [CallIds -> SUBSET AllTokens]
  BY <1>2, <1>3 DEF IInv, Typed, TreeTypeOK
<1>5. \A t \in AllTokens \ {id} : line'[t] = line[t]
  BY <1>3 DEF IInv, Typed, TreeTypeOK
<1>6. NotYet'
  <2> SUFFICES ASSUME NEW c \in CallIds, (effects[c] = 0)'
               PROVE  /\ line'[c] = {} /\ doomed'[c] = {}
                      /\ holds'[c] = NoToken /\ reply'[c] = NoToken
                      /\ c \notin live' /\ c \notin told'
                      /\ \A d \in CallIds :
                           holds'[d] # c /\ reply'[d] # c /\ c \notin doomed'[d]
    BY DEF NotYet
  <2>1. c # id /\ effects[c] = 0 /\ c \in AllTokens /\ c # NoToken
    BY DistinctAssumption DEF IInv, Typed, AllTokens
  <2> QED BY <1>3, <1>5, <2>1 DEF IInv, NotYet
<1>7. DoomedAreDead'
  BY <1>2, <1>3 DEF IInv, DoomedAreDead
<1>8. EndsAsMeant'
  BY <1>3, <1>5 DEF IInv, EndsAsMeant
<1>9. NoneLeaks'
  <2> SUFFICES ASSUME NEW t \in live' \ Given
               PROVE  \/ t \in told
                      \/ \E w \in wrapped : holds'[w] = t
                      \/ \E c \in CallIds : /\ verdict[c] \in {"pending", "unknown"}
                                            /\ reply'[c] = t \/ holds'[c] = t
    BY DEF NoneLeaks
  <2>1. CASE t = id
    BY <1>3, <2>1
  <2>2. CASE t # id
    <3>1. t \in live \ Given /\ t # NoToken
      BY <1>3, <2>2, DistinctAssumption DEF IInv, Typed, TreeTypeOK
    <3>2. CASE \E w \in wrapped : holds[w] = t
      <4>1. PICK w \in wrapped : holds[w] = t
        BY <3>2
      <4>2. w \in CallIds \ {id}
        BY <1>2, <3>1, <4>1 DEF IInv, Typed, TreeTypeOK
      <4> QED BY <1>3, <4>1, <4>2
    <3>3. CASE \E c \in CallIds : /\ verdict[c] \in {"pending", "unknown"}
                                  /\ reply[c] = t \/ holds[c] = t
      <4>1. PICK c \in CallIds : /\ verdict[c] \in {"pending", "unknown"}
                                 /\ reply[c] = t \/ holds[c] = t
        BY <3>3
      <4>2. c # id
        BY <1>2, <3>1, <4>1
      <4>3. reply'[c] = t \/ holds'[c] = t
        BY <1>3, <4>1, <4>2
      <4> QED BY <4>1, <4>3
    <3>4. \/ t \in told
          \/ \E w \in wrapped : holds[w] = t
          \/ \E c \in CallIds : /\ verdict[c] \in {"pending", "unknown"}
                                /\ reply[c] = t \/ holds[c] = t
      BY <3>1 DEF IInv, NoneLeaks
    <3> QED BY <3>2, <3>3, <3>4
  <2> QED BY <2>1, <2>2
<1> QED BY <1>3, <1>4, <1>6, <1>7, <1>8, <1>9 DEF TreeHolds, TreeKept

\* What a call ends it was to end, and the other tokens stay where they are.
LEMMA EndedKeeps ==
  ASSUME IInv, NEW id \in CallIds, Serving(id),
         NEW ts \in SUBSET AllTokens, Ended(id, ts)
  PROVE  TreeKept(id)
<1> USE DEF Serving
<1>1. /\ doomed[id] = {} /\ holds[id] = NoToken
      /\ live' = live \ ts
      /\ doomed' = [doomed EXCEPT ![id] = ts]
      /\ \A t \in ts : t \in told \/ line[t] # {}
      /\ line' \in [AllTokens -> SUBSET AllTokens]
      /\ \A u \in AllTokens : line'[u] \subseteq line[u]
      /\ UNCHANGED <<holds, reply>>
  BY DEF Ended, Dooms, IInv, NotYet
<1>2. doomed'[id] = ts /\ \A c \in CallIds \ {id} : doomed'[c] = doomed[c]
  BY <1>1 DEF IInv, Typed
<1>3. /\ live' \in SUBSET AllTokens
      /\ holds' \in [CallIds -> AllTokens \cup {NoToken}]
      /\ reply' \in [CallIds -> AllTokens \cup {NoToken}]
      /\ doomed' \in [CallIds -> SUBSET AllTokens]
  BY <1>1 DEF IInv, Typed, TreeTypeOK
<1>4. NotYet'
  <2> SUFFICES ASSUME NEW c \in CallIds, (effects[c] = 0)'
               PROVE  /\ line'[c] = {} /\ doomed'[c] = {}
                      /\ holds'[c] = NoToken /\ reply'[c] = NoToken
                      /\ c \notin live' /\ c \notin told'
                      /\ \A d \in CallIds :
                           holds'[d] # c /\ reply'[d] # c /\ c \notin doomed'[d]
    BY DEF NotYet
  <2>1. c # id /\ effects[c] = 0 /\ c \in AllTokens
    BY DEF IInv, Typed, AllTokens
  <2>2. /\ line[c] = {} /\ doomed[c] = {} /\ holds[c] = NoToken /\ reply[c] = NoToken
        /\ c \notin live /\ c \notin told
        /\ \A d \in CallIds : holds[d] # c /\ reply[d] # c /\ c \notin doomed[d]
    BY <2>1 DEF IInv, NotYet
  <2>3. c \notin ts
    BY <1>1, <2>2
  <2>4. line'[c] = {}
    BY <1>1, <2>1, <2>2
  <2> QED BY <1>1, <1>2, <2>1, <2>2, <2>3, <2>4
<1>5. DoomedAreDead'
  BY <1>1, <1>2 DEF IInv, DoomedAreDead
<1>6. EndsAsMeant'
  <2> SUFFICES ASSUME NEW t \in AllTokens, line'[t] # {}, t \notin live'
               PROVE  \E c \in CallIds : t \in doomed'[c]
    BY DEF EndsAsMeant
  <2>1. CASE t \in ts
    BY <1>2, <2>1
  <2>2. CASE t \notin ts
    <3>1. PICK c \in CallIds : t \in doomed[c]
      BY <1>1, <2>2 DEF IInv, EndsAsMeant
    <3> QED BY <1>1, <1>2, <3>1
  <2> QED BY <2>1, <2>2
<1>7. NoneLeaks'
  BY <1>1 DEF IInv, NoneLeaks
<1> QED BY <1>1, <1>3, <1>4, <1>5, <1>6, <1>7 DEF TreeHolds, TreeKept

\* What was in a wrapping token is in the hands of the call that takes it out, as
\* a reply or within another one.
LEMMA UnwrappedKeeps ==
  ASSUME IInv, NEW id \in CallIds, Serving(id),
         NEW w \in wrapped, Dooms(id, {}),
         Unwrap(id, w) \/ (Rewrap(id, w) /\ MakesWrapping(request[id].operation))
  PROVE  TreeKept(id)
<1> USE DEF Serving
<1>1. /\ doomed[id] = {} /\ holds[id] = NoToken /\ reply[id] = NoToken
      /\ w \in CallIds /\ w # id /\ verdict[w] = "done"
  BY DEF IInv, Typed, TreeTypeOK, NotYet, WrappedAreDone
<1>2. /\ UNCHANGED <<live, line>>
      /\ doomed' = doomed
  BY <1>1 DEF Unwrap, Rewrap, Dooms, IInv, Typed
<1>3. /\ holds' \in [CallIds -> AllTokens \cup {NoToken}]
      /\ reply' \in [CallIds -> AllTokens \cup {NoToken}]
      /\ holds'[w] = NoToken
      /\ \A c \in CallIds \ {id, w} : holds'[c] = holds[c]
      /\ \A c \in CallIds \ {id} : reply'[c] = reply[c]
      /\ holds'[id] = holds[w] \/ reply'[id] = holds[w]
      /\ holds'[id] \in {holds[w], NoToken} /\ reply'[id] \in {holds[w], NoToken}
      /\ holds'[id] # NoToken => MakesWrapping(request[id].operation)
  <2>1. CASE Unwrap(id, w)
    BY <1>1, <2>1 DEF Unwrap, IInv, Typed, TreeTypeOK
  <2>2. CASE Rewrap(id, w) /\ MakesWrapping(request[id].operation)
    <3>1. /\ holds' = [holds EXCEPT ![id] = holds[w], ![w] = NoToken]
          /\ reply' = reply
      BY <2>2 DEF Rewrap
    <3> QED BY <1>1, <2>2, <3>1 DEF IInv, Typed, TreeTypeOK
  <2> QED BY <2>1, <2>2
<1>4. NotYet'
  <2> SUFFICES ASSUME NEW c \in CallIds, (effects[c] = 0)'
               PROVE  /\ line'[c] = {} /\ doomed'[c] = {}
                      /\ holds'[c] = NoToken /\ reply'[c] = NoToken
                      /\ c \notin live' /\ c \notin told'
                      /\ \A d \in CallIds :
                           holds'[d] # c /\ reply'[d] # c /\ c \notin doomed'[d]
    BY DEF NotYet
  <2>1. c # id /\ effects[c] = 0 /\ c # NoToken
    BY DistinctAssumption DEF IInv, Typed, AllTokens
  <2>2. /\ line[c] = {} /\ doomed[c] = {} /\ holds[c] = NoToken /\ reply[c] = NoToken
        /\ c \notin live /\ c \notin told
        /\ \A d \in CallIds : holds[d] # c /\ reply[d] # c /\ c \notin doomed[d]
    BY <2>1 DEF IInv, NotYet
  <2>3. holds'[c] = NoToken /\ reply'[c] = NoToken
    BY <1>3, <2>1, <2>2
  <2>4. ASSUME NEW d \in CallIds PROVE holds'[d] # c /\ reply'[d] # c
    BY <1>1, <1>3, <2>1, <2>2
  <2> QED BY <1>2, <2>2, <2>3, <2>4
<1>5. DoomedAreDead' /\ EndsAsMeant'
  BY <1>2 DEF IInv, DoomedAreDead, EndsAsMeant
<1>6. NoneLeaks'
  <2> SUFFICES ASSUME NEW t \in live \ Given
               PROVE  \/ t \in told
                      \/ \E v \in wrapped : holds'[v] = t
                      \/ \E c \in CallIds : /\ verdict[c] \in {"pending", "unknown"}
                                            /\ reply'[c] = t \/ holds'[c] = t
    BY <1>2 DEF NoneLeaks
  <2>1. t # NoToken /\ wrapped \subseteq CallIds
    BY DistinctAssumption DEF IInv, Typed, TreeTypeOK
  <2>2. CASE holds[w] = t
    BY <1>3, <2>2
  <2>3. CASE \E v \in wrapped : holds[v] = t /\ v # w
    <3>1. PICK v \in wrapped : holds[v] = t /\ v # w
      BY <2>3
    <3>2. v \in CallIds \ {id, w}
      BY <1>1, <2>1, <3>1
    <3> QED BY <1>3, <3>1, <3>2
  <2>4. CASE \E c \in CallIds : /\ verdict[c] \in {"pending", "unknown"}
                                /\ reply[c] = t \/ holds[c] = t
    <3>1. PICK c \in CallIds : /\ verdict[c] \in {"pending", "unknown"}
                               /\ reply[c] = t \/ holds[c] = t
      BY <2>4
    <3>2. c # id
      BY <1>1, <2>1, <3>1
    <3>3. c # w
      BY <1>1, <3>1
    <3>4. reply'[c] = t \/ holds'[c] = t
      BY <1>3, <3>1, <3>2, <3>3
    <3> QED BY <3>1, <3>4
  <2>5. \/ t \in told
        \/ \E v \in wrapped : holds[v] = t
        \/ \E c \in CallIds : /\ verdict[c] \in {"pending", "unknown"}
                              /\ reply[c] = t \/ holds[c] = t
    BY DEF IInv, NoneLeaks
  <2> QED BY <2>2, <2>3, <2>4, <2>5
<1> QED
  <2>1. /\ live' \in SUBSET AllTokens
        /\ line' \in [AllTokens -> SUBSET AllTokens]
        /\ doomed' \in [CallIds -> SUBSET AllTokens]
    BY <1>2 DEF IInv, Typed, TreeTypeOK
  <2>2. \A c \in CallIds \ {id} : holds'[c] \in {holds[c], NoToken}
    BY <1>3
  <2>3. TreeHolds'
    BY <1>3, <1>4, <1>5, <1>6, <2>1 DEF TreeHolds
  <2> QED BY <1>2, <1>3, <2>2, <2>3 DEF TreeKept

-----------------------------------------------------------------------------
(* IInv is an invariant.                                                   *)

\* The tokens there are from the start.
LEMMA Initially == TreeInit => IInv
<1> SUFFICES ASSUME TreeInit PROVE IInv
  OBVIOUS
<1> USE DEF TreeInit, Init
<1>1. Given \subseteq AllTokens /\ \A id \in CallIds : id \in AllTokens \ Given
  BY DistinctAssumption DEF AllTokens
<1>2. Typed
  <2>1. line \in [AllTokens -> SUBSET AllTokens]
    BY <1>1, ParentsAssumption
  <2> QED BY <1>1, <2>1 DEF Typed, TreeTypeOK, TypeOK, Verdicts
<1>3. Consistent /\ InFlight /\ WrappedAreDone /\ DoomedAreDead /\ family = line
  BY DEF Consistent, InFlight, Asked, WrappedAreDone, DoomedAreDead
<1>4. NotYet
  BY <1>1, DistinctAssumption DEF NotYet
<1>5. EndsAsMeant /\ NoneLeaks
  BY DEF EndsAsMeant, NoneLeaks
<1> QED BY <1>2, <1>3, <1>4, <1>5 DEF IInv

\* Invoking a call, about tokens the program was told.
LEMMA CallStep ==
  ASSUME IInv, NEW id \in CallIds, NEW o \in Operations, NEW by \in told,
         NEW target \in Targets(o), Call(id, o, by, target)
  PROVE  IInv'
<1> DEFINE r == [operation |-> o, by |-> by, target |-> target, outlawed |-> Outlawed]
<1>1. /\ verdict[id] = "none" /\ verdict' = [verdict EXCEPT ![id] = "pending"]
      /\ request' = [request EXCEPT ![id] = r]
      /\ UNCHANGED <<effects, live, line, holds, reply, told, wrapped, family, doomed>>
  BY DEF Call, Invoke
<1>2. /\ holds[id] = NoToken /\ effects[id] = 0
  BY <1>1 DEF IInv, Consistent, NotYet
<1>3. /\ Outlawed \subseteq AllTokens
      /\ \A t \in Outlawed : \E c \in CallIds : t \in doomed[c]
  BY DEF Outlawed, IInv, Typed
<1>4. /\ target \in AllTokens \cup {NoToken} /\ by \in AllTokens
      /\ NamesToken(o) => target \in told
      /\ NamesWrapping(o) => target \in wrapped
  <2>1. wrapped \subseteq AllTokens /\ told \subseteq AllTokens
    BY DEF IInv, Typed, TreeTypeOK, AllTokens
  <2>2. NamesWrapping(o) => ~NamesToken(o)
    BY DEF NamesWrapping, IsUnwrap, Name, NamesToken
  <2> QED BY <2>1, <2>2 DEF Targets
<1>5. r \in Requests
  BY <1>3, <1>4 DEF Requests
<1>6. /\ r.operation = o /\ r.by = by /\ r.target = target /\ r.outlawed = Outlawed
  OBVIOUS
<1> HIDE DEF r
<1>7. /\ verdict'[id] = "pending" /\ request'[id] = r
      /\ \A c \in CallIds \ {id} : verdict'[c] = verdict[c] /\ request'[c] = request[c]
  BY <1>1 DEF IInv, Typed, TreeTypeOK, TypeOK
<1>8. Typed'
  BY <1>1, <1>5 DEF IInv, Typed, TreeTypeOK, TypeOK, Verdicts
<1>9. Consistent'
  BY <1>1, <1>2, <1>7 DEF IInv, Consistent
<1>10. InFlight'
  <2> SUFFICES ASSUME NEW c \in CallIds, Asked(c)' PROVE IsMeant(c, request[c])'
    BY DEF InFlight
  <2>1. CASE c = id
    BY <1>1, <1>2, <1>3, <1>4, <1>5, <1>6, <1>7, <2>1 DEF IsMeant
  <2>2. CASE c # id
    <3>1. Asked(c)
      BY <1>1, <1>7, <2>2 DEF Asked
    <3> QED BY <1>1, <1>7, <2>2, <3>1 DEF IInv, InFlight, IsMeant
  <2> QED BY <2>1, <2>2
<1>11. NotYet' /\ DoomedAreDead' /\ family' = line' /\ EndsAsMeant'
  BY <1>1 DEF IInv, NotYet, DoomedAreDead, EndsAsMeant
<1>12. WrappedAreDone'
  BY <1>1, <1>7 DEF IInv, Typed, TreeTypeOK, WrappedAreDone
<1>13. NoneLeaks'
  BY <1>1, <1>7 DEF IInv, NoneLeaks
<1> QED BY <1>8, <1>9, <1>10, <1>11, <1>12, <1>13 DEF IInv

\* The end of a call, which tells the program a token or leaves it in doubt.
LEMMA ReturnStep ==
  ASSUME IInv, NEW id \in CallIds, NEW v \in {"done", "refused", "unknown"},
         Return(id, v)
  PROVE  IInv'
<1> DEFINE r == request[id]
<1>1. /\ verdict[id] = "pending" /\ verdict' = [verdict EXCEPT ![id] = v]
      /\ v = "done" => effects[id] = 1
      /\ v = "refused" => effects[id] = 0
      /\ v = "done" => /\ told' = told \cup ({reply[id]} \ {NoToken})
                       /\ wrapped' = wrapped \cup
                            (IF MakesWrapping(r.operation) THEN {id} ELSE {})
                       /\ reply' = [reply EXCEPT ![id] = NoToken]
      /\ v # "done" => UNCHANGED <<told, wrapped, reply>>
      /\ request' = IF v = "unknown" /\ effects[id] = 0 THEN request
                    ELSE [request EXCEPT ![id] = NoRequest]
      /\ UNCHANGED <<effects, live, line, holds, family, doomed>>
  BY DEF Return, Settle
<1>2. /\ verdict'[id] = v
      /\ \A c \in CallIds \ {id} : /\ verdict'[c] = verdict[c]
                                   /\ request'[c] = request[c]
                                   /\ reply'[c] = reply[c]
      /\ reply'[id] \in {reply[id], NoToken}
  BY <1>1 DEF IInv, Typed, TreeTypeOK, TypeOK
<1>3. /\ told \subseteq told' /\ told' \subseteq told \cup ({reply[id]} \ {NoToken})
      /\ wrapped \subseteq wrapped' /\ wrapped' \subseteq wrapped \cup {id}
      /\ id \in wrapped' => v = "done" \/ id \in wrapped
  BY <1>1
<1>4. holds[id] # NoToken => MakesWrapping(r.operation)
  BY <1>1 DEF IInv, InFlight, Asked, IsMeant
<1> HIDE DEF r
<1>5. Typed'
  <2>1. /\ told' \in SUBSET AllTokens /\ wrapped' \in SUBSET CallIds
        /\ reply' \in [CallIds -> AllTokens \cup {NoToken}]
    BY <1>1, <1>3 DEF IInv, Typed, TreeTypeOK
  <2>2. request' \in [CallIds -> Requests \cup {NoRequest}]
    BY <1>1 DEF IInv, Typed
  <2> QED BY <1>1, <2>1, <2>2 DEF IInv, Typed, TreeTypeOK, TypeOK, Verdicts
<1>6. Consistent'
  BY <1>1, <1>2 DEF IInv, Consistent
<1>7. InFlight'
  <2> SUFFICES ASSUME NEW c \in CallIds, Asked(c)' PROVE IsMeant(c, request[c])'
    BY DEF InFlight
  <2>1. Asked(c) /\ request'[c] = request[c]
    <3>1. CASE c = id
      BY <1>1, <1>2, <3>1 DEF Asked
    <3>2. CASE c # id
      BY <1>1, <1>2, <3>2 DEF Asked
    <3> QED BY <3>1, <3>2
  <2>2. verdict'[c] = "pending" => c # id /\ verdict[c] = "pending"
    BY <1>1, <1>2
  <2>3. IsMeant(c, request[c])
    BY <2>1 DEF IInv, InFlight
  <2> QED BY <1>1, <1>3, <2>1, <2>2, <2>3 DEF IsMeant
<1>8. NotYet'
  <2> SUFFICES ASSUME NEW c \in CallIds, effects[c] = 0
               PROVE  /\ line[c] = {} /\ doomed[c] = {}
                      /\ holds[c] = NoToken /\ reply'[c] = NoToken
                      /\ c \notin live /\ c \notin told'
                      /\ \A d \in CallIds :
                           holds[d] # c /\ reply'[d] # c /\ c \notin doomed[d]
    BY <1>1 DEF NotYet
  <2>1. c # NoToken
    BY DistinctAssumption DEF AllTokens
  <2>2. /\ line[c] = {} /\ doomed[c] = {} /\ holds[c] = NoToken /\ reply[c] = NoToken
        /\ c \notin live /\ c \notin told
        /\ \A d \in CallIds : holds[d] # c /\ reply[d] # c /\ c \notin doomed[d]
    BY DEF IInv, NotYet
  <2> QED BY <1>2, <1>3, <2>1, <2>2
<1>9. WrappedAreDone'
  BY <1>1, <1>2, <1>3 DEF IInv, Typed, TreeTypeOK, WrappedAreDone
<1>10. DoomedAreDead' /\ family' = line' /\ EndsAsMeant'
  BY <1>1 DEF IInv, DoomedAreDead, EndsAsMeant
<1>11. NoneLeaks'
  <2> SUFFICES ASSUME NEW t \in live \ Given
               PROVE  \/ t \in told'
                      \/ \E w \in wrapped' : holds[w] = t
                      \/ \E c \in CallIds : /\ verdict'[c] \in {"pending", "unknown"}
                                            /\ reply'[c] = t \/ holds[c] = t
    BY <1>1 DEF NoneLeaks
  <2>1. t # NoToken
    BY DistinctAssumption DEF IInv, Typed, TreeTypeOK
  <2>2. CASE t \in told \/ \E w \in wrapped : holds[w] = t
    BY <1>3, <2>2
  <2>3. CASE \E c \in CallIds \ {id} : /\ verdict[c] \in {"pending", "unknown"}
                                       /\ reply[c] = t \/ holds[c] = t
    BY <1>2, <2>3
  <2>4. CASE reply[id] = t \/ holds[id] = t
    <3>1. CASE v = "done"
      BY <1>1, <1>4, <2>1, <2>4, <3>1
    <3>2. CASE v = "refused"
      BY <1>1, <2>1, <2>4, <3>2 DEF IInv, NotYet
    <3>3. CASE v = "unknown"
      BY <1>1, <1>2, <2>4, <3>3
    <3> QED BY <3>1, <3>2, <3>3
  <2>5. \/ t \in told
        \/ \E w \in wrapped : holds[w] = t
        \/ \E c \in CallIds : /\ verdict[c] \in {"pending", "unknown"}
                              /\ reply[c] = t \/ holds[c] = t
    BY DEF IInv, NoneLeaks
  <2> QED BY <2>2, <2>3, <2>4, <2>5
<1> QED BY <1>5, <1>6, <1>7, <1>8, <1>9, <1>10, <1>11 DEF IInv

\* What the server is asked to do when it serves a call.
LEMMA Served ==
  ASSUME IInv, NEW id \in CallIds, Serve(id)
  PROVE  LET r == request[id]
         IN  /\ verdict[id] \in {"pending", "unknown"} /\ effects[id] = 0
             /\ effects' = [effects EXCEPT ![id] = 1]
             /\ UNCHANGED <<verdict, told, wrapped>>
             /\ request' = IF verdict[id] = "pending" THEN request
                           ELSE [request EXCEPT ![id] = NoRequest]
             /\ IsMeant(id, r)
             /\ TreeKept(id)
             /\ family' = line'
             /\ IsUnwrap(r.operation) \/ r.by \in live
             /\ NamesToken(r.operation) /\ r.operation.word # "revoke"
                  => r.target \in live
<1> DEFINE r == request[id]
<1>1. /\ verdict[id] \in {"pending", "unknown"} /\ effects[id] = 0
      /\ effects' = [effects EXCEPT ![id] = 1]
      /\ UNCHANGED <<verdict, told, wrapped>>
      /\ request' = IF verdict[id] = "pending" THEN request
                    ELSE [request EXCEPT ![id] = NoRequest]
      /\ IsUnwrap(r.operation) \/ r.by \in live
      /\ Effect(id, r.operation, r.by, r.target)
      /\ Promise(id, r.operation, r.by, r.target)
  BY DEF Serve, TakeEffect
<1>2. IsMeant(id, r)
  BY <1>1 DEF IInv, InFlight, Asked
<1>3. /\ r.operation \in Operations /\ r.by \in told
      /\ r.target \in AllTokens \cup {NoToken}
      /\ NamesToken(r.operation) => r.target \in told
      /\ NamesWrapping(r.operation) => r.target \in wrapped
  BY <1>2 DEF IsMeant, Requests
<1> HIDE DEF r
<1>4. /\ \/ Issued(id, r.operation)
         \/ \E ts \in SUBSET AllTokens : Ended(id, ts)
         \/ Unwrap(id, r.target) /\ r.target \in wrapped /\ Dooms(id, {})
         \/ /\ Rewrap(id, r.target) /\ r.target \in wrapped /\ Dooms(id, {})
            /\ MakesWrapping(r.operation)
      /\ family' = line'
      /\ NamesToken(r.operation) /\ r.operation.word # "revoke" => r.target \in live
  BY <1>1, <1>3, ServerStep
<1>5. TreeKept(id)
  <2>0. Serving(id)
    BY <1>1 DEF Serving
  <2>1. CASE Issued(id, r.operation)
    BY <2>0, <2>1, IssuedKeeps DEF r
  <2>2. CASE \E ts \in SUBSET AllTokens : Ended(id, ts)
    BY <2>0, <2>2, EndedKeeps
  <2>3. CASE Unwrap(id, r.target) /\ r.target \in wrapped /\ Dooms(id, {})
    BY <2>0, <2>3, UnwrappedKeeps
  <2>4. CASE /\ Rewrap(id, r.target) /\ r.target \in wrapped /\ Dooms(id, {})
             /\ MakesWrapping(r.operation)
    BY <2>0, <2>4, UnwrappedKeeps DEF r
  <2> QED BY <1>4, <2>1, <2>2, <2>3, <2>4
<1> QED BY <1>1, <1>2, <1>4, <1>5 DEF r

\* The server carries out a request, and the tree stays the one that was promised.
LEMMA ServeStep ==
  ASSUME IInv, NEW id \in CallIds, Serve(id)
  PROVE  IInv'
<1> DEFINE r == request[id]
<1>1. /\ verdict[id] \in {"pending", "unknown"} /\ effects[id] = 0
      /\ effects' = [effects EXCEPT ![id] = 1]
      /\ UNCHANGED <<verdict, told, wrapped>>
      /\ request' = IF verdict[id] = "pending" THEN request
                    ELSE [request EXCEPT ![id] = NoRequest]
      /\ IsMeant(id, r)
      /\ TreeKept(id)
      /\ family' = line'
  BY Served
<1> HIDE DEF r
<1>2. /\ effects'[id] = 1
      /\ \A c \in CallIds \ {id} : effects'[c] = effects[c] /\ request'[c] = request[c]
  BY <1>1 DEF IInv, Typed
<1>3. \A c \in CallIds \ {id} : holds'[c] \in {holds[c], NoToken}
  BY <1>1 DEF TreeKept
<1>4. \A c \in CallIds : doomed[c] \subseteq doomed'[c]
  BY <1>1 DEF TreeKept
<1>5. Typed'
  <2>1. request' \in [CallIds -> Requests \cup {NoRequest}]
    BY <1>1 DEF IInv, Typed
  <2>2. effects' \in [CallIds -> {0, 1}] /\ effects' \in [CallIds -> Nat]
    BY <1>1 DEF IInv, Typed
  <2> QED BY <1>1, <2>1, <2>2 DEF IInv, Typed, TreeTypeOK, TypeOK, TreeHolds, TreeKept
<1>6. Consistent'
  BY <1>1, <1>2 DEF IInv, Consistent
<1>7. InFlight'
  <2> SUFFICES ASSUME NEW c \in CallIds, Asked(c)' PROVE IsMeant(c, request[c])'
    BY DEF InFlight
  <2>1. IsMeant(c, request[c]) /\ request'[c] = request[c]
    <3>1. CASE c = id
      BY <1>1, <1>2, <3>1 DEF Asked, r
    <3>2. CASE c # id
      BY <1>1, <1>2, <3>2 DEF Asked, IInv, InFlight
    <3> QED BY <3>1, <3>2
  <2>2. \A t \in request[c].outlawed : \E d \in CallIds : t \in doomed'[d]
    BY <1>4, <2>1 DEF IsMeant
  <2>3. verdict[c] = "pending" /\ holds'[c] # NoToken
          => MakesWrapping(request[c].operation)
    <3>1. CASE c = id
      BY <1>1, <3>1 DEF TreeKept, r
    <3>2. CASE c # id
      <4>1. holds'[c] # NoToken => holds[c] # NoToken
        BY <1>3, <3>2
      <4>2. verdict[c] = "pending" /\ holds[c] # NoToken
              => MakesWrapping(request[c].operation)
        BY <2>1 DEF IsMeant
      <4> QED BY <4>1, <4>2
    <3> QED BY <3>1, <3>2
  <2> QED BY <1>1, <2>1, <2>2, <2>3 DEF IsMeant
<1>8. WrappedAreDone'
  BY <1>1 DEF IInv, WrappedAreDone
<1> QED BY <1>1, <1>5, <1>6, <1>7, <1>8 DEF IInv, TreeHolds, TreeKept

LEMMA Steps == IInv /\ [TreeNext]_treeVars => IInv'
<1> SUFFICES ASSUME IInv, [TreeNext]_treeVars PROVE IInv'
  OBVIOUS
<1>1. ASSUME NEW id \in CallIds, NEW o \in Operations, NEW by \in told,
             NEW target \in Targets(o), Call(id, o, by, target)
      PROVE  IInv'
  BY <1>1, CallStep
<1>2. ASSUME NEW id \in CallIds, Serve(id) PROVE IInv'
  BY <1>2, ServeStep
<1>3. ASSUME NEW id \in CallIds, NEW v \in {"done", "refused", "unknown"}, Return(id, v)
      PROVE  IInv'
  BY <1>3, ReturnStep
<1>4. CASE UNCHANGED treeVars
  <2>1. Typed' /\ Consistent' /\ NotYet' /\ WrappedAreDone' /\ DoomedAreDead'
    BY <1>4 DEF treeVars, IInv, Typed, TreeTypeOK, TypeOK, Consistent, NotYet,
                WrappedAreDone, DoomedAreDead
  <2>2. InFlight'
    <3> SUFFICES ASSUME NEW c \in CallIds, Asked(c)' PROVE IsMeant(c, request[c])'
      BY DEF InFlight
    <3>1. Asked(c)
      BY <1>4 DEF treeVars, Asked
    <3> QED BY <1>4, <3>1 DEF treeVars, IInv, InFlight, IsMeant
  <2>3. family' = line' /\ EndsAsMeant' /\ NoneLeaks'
    BY <1>4 DEF treeVars, IInv, EndsAsMeant, NoneLeaks
  <2> QED BY <2>1, <2>2, <2>3 DEF IInv
<1> QED BY <1>1, <1>2, <1>3, <1>4 DEF TreeNext

\* The inductive invariant holds in every reachable state.
THEOREM TreeInvariance == TreeSpec => []IInv
BY Initially, Steps, PTL DEF TreeSpec

-----------------------------------------------------------------------------
(* What it is good for.                                                    *)

\* The variables keep their types: what the server knows, wraps and answers are
\* tokens of the program or made by its calls.
THEOREM TreeTypeCorrect == TreeSpec => []TreeTypeOK
<1>1. IInv => TreeTypeOK
  BY DEF IInv, Typed
<1> QED BY <1>1, TreeInvariance, PTL

\* The endpoints that Tokens and the wrapping operations of Sys use build the
\* tree that the names of the operations promise.
THEOREM TreeIsAsNamed == TreeSpec => [](family = line)
<1>1. IInv => family = line
  BY DEF IInv
<1> QED BY <1>1, TreeInvariance, PTL

\* A token ends only by a revocation that names it or one of its ancestors: those
\* of createTokenOrphan, and the children of revokeTokenAndOrphanChildren, do not.
THEOREM TokensEndAsMeant == TreeSpec => []EndsAsMeant
<1>1. IInv => EndsAsMeant
  BY DEF IInv
<1> QED BY <1>1, TreeInvariance, PTL

\* Every token made is in the hands of the program, of a wrapping token it knows,
\* or of a call that is under way or in doubt, with HttpErrorCallback run for it, or
\* ResponseErrorCallback for a 5xx.
THEOREM TokensAreAccounted == TreeSpec => []NoneLeaks
<1>1. IInv => NoneLeaks
  BY DEF IInv
<1> QED BY <1>1, TreeInvariance, PTL

\* No call that was made when a revocation was known to be done is carried out
\* with a token that was to end, or about one.
THEOREM RevokedForGood == TreeSpec => RevokedStaysOut
<1>1. IInv /\ [TreeNext]_treeVars =>
        [\A id \in CallIds :
           effects'[id] # effects[id] =>
             LET r == request[id]
             IN  /\ IsUnwrap(r.operation) \/ r.by \notin r.outlawed
                 /\ NamesToken(r.operation) /\ r.operation.word # "revoke"
                      => r.target \notin r.outlawed]_treeVars
  <2> SUFFICES ASSUME IInv, [TreeNext]_treeVars, NEW id \in CallIds,
                      effects'[id] # effects[id]
               PROVE  /\ \/ IsUnwrap(request[id].operation)
                         \/ request[id].by \notin request[id].outlawed
                      /\ /\ NamesToken(request[id].operation)
                         /\ request[id].operation.word # "revoke"
                         => request[id].target \notin request[id].outlawed
    OBVIOUS
  <2>1. Serve(id)
    <3>1. ASSUME NEW c \in CallIds, NEW o \in Operations, NEW by \in told,
                 NEW target \in Targets(o), Call(c, o, by, target)
          PROVE  FALSE
      BY <3>1 DEF Call, Invoke
    <3>2. ASSUME NEW c \in CallIds, Serve(c), c # id PROVE FALSE
      BY <3>2 DEF Serve, TakeEffect, IInv, Typed
    <3>3. ASSUME NEW c \in CallIds, NEW v \in {"done", "refused", "unknown"},
                 Return(c, v)
          PROVE  FALSE
      BY <3>3 DEF Return, Settle
    <3>4. CASE UNCHANGED treeVars
      BY <3>4 DEF treeVars
    <3> QED BY <3>1, <3>2, <3>3, <3>4 DEF TreeNext
  <2>2. /\ IsMeant(id, request[id])
        /\ IsUnwrap(request[id].operation) \/ request[id].by \in live
        /\ /\ NamesToken(request[id].operation)
           /\ request[id].operation.word # "revoke"
           => request[id].target \in live
    BY <2>1, Served
  <2>3. \A t \in request[id].outlawed : t \notin live
    BY <2>2 DEF IsMeant, IInv, DoomedAreDead
  <2> QED BY <2>2, <2>3
<1> QED BY <1>1, TreeInvariance, PTL DEF TreeSpec, RevokedStaysOut

\* The calls keep the promise of AtMostOnce, whatever the server is made to do.
THEOREM TreeKeepsPromise == TreeSpec => Spec
<1>1. TreeInit => Init
  BY DEF TreeInit
<1>2. [TreeNext]_treeVars => [Next]_vars
  <2> SUFFICES ASSUME [TreeNext]_treeVars PROVE [Next]_vars
    OBVIOUS
  <2>1. ASSUME NEW id \in CallIds, NEW o \in Operations, NEW by \in told,
               NEW target \in Targets(o), Call(id, o, by, target)
        PROVE  Next
    BY <2>1 DEF Call, Next
  <2>2. ASSUME NEW id \in CallIds, Serve(id) PROVE Next
    BY <2>2 DEF Serve, Next
  <2>3. ASSUME NEW id \in CallIds, NEW v \in {"done", "refused", "unknown"},
               Return(id, v)
        PROVE  Next
    BY <2>3 DEF Return, Next
  <2>4. CASE UNCHANGED treeVars
    BY <2>4 DEF treeVars, vars
  <2> QED BY <2>1, <2>2, <2>3, <2>4 DEF TreeNext
<1> QED BY <1>1, <1>2, PTL DEF TreeSpec, Spec
============================================================================
