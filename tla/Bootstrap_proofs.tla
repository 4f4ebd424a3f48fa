------------------------- MODULE Bootstrap_proofs -------------------------
(***************************************************************************)
(* Proofs about Bootstrap, for any calls, shares, threshold and number of  *)
(* restarts: what seal, cancel and the answers with keys in them are good  *)
(* for when calls are lost, late or in doubt.                              *)
(***************************************************************************)
EXTENDS Bootstrap, TLAPS

\* A call that a server may still get, or that has not returned.
Asked(id) ==
  verdict[id] = "pending" \/ (verdict[id] = "unknown" /\ effects[id] = 0)

Requests ==
  {r \in [operation : Operations, authenticated : BOOLEAN,
          share : Shares \cup {NoShare}, for : CallIds \cup {NoCall}] :
     TakesShare(r.operation) => r.share \in Shares}

\* The types of the variables.
BootTypeOK ==
  /\ verdict \in [CallIds -> Verdicts]
  /\ effects \in [CallIds -> {0, 1}]
  /\ request \in [CallIds -> Requests \cup {NoRequest}]
  /\ known \in [{"init", "unseal", "attempt"} -> SUBSET CallIds]
  /\ ended \in [CallIds -> SUBSET CallIds]
  /\ initialised \in BOOLEAN /\ sealed \in BOOLEAN
  /\ progress \subseteq [call : CallIds, share : Shares]
  /\ attempt \in begun \cup {NoCall}
  /\ begun \subseteq CallIds /\ submitted \subseteq Shares
  /\ keys \subseteq CallIds /\ roots \subseteq CallIds
  /\ restarts \in 0..MaxRestarts

\* What a verdict says of the server, for every call.
Consistent ==
  \A id \in CallIds :
    /\ verdict[id] \in {"none", "refused"} => effects[id] = 0
    /\ verdict[id] = "done" => effects[id] = 1

\* What a call was made for: seal to undo calls of unseal, cancel to undo
\* attempts, and nothing else to undo anything.
InFlight ==
  \A id \in CallIds : Asked(id) =>
    /\ request[id] \in Requests
    /\ CASE request[id].operation.word = "seal" -> ended[id] \subseteq known["unseal"]
         [] request[id].operation.word = "cancel" -> ended[id] \subseteq known["attempt"]
         [] OTHER -> ended[id] = {}

\* What the server and the programs remember of calls is of calls that were served.
HaveHappened ==
  \A id \in CallIds : effects[id] = 0 =>
    /\ id \notin begun /\ id \notin known["unseal"]
    /\ \A p \in progress : p.call # id
    /\ \A s \in CallIds : id \notin ended[s]

\* No call is both of unseal and the start of an attempt.
Apart ==
  /\ known["attempt"] \subseteq begun
  /\ known["unseal"] \cap begun = {}
  /\ \A p \in progress : p.call \notin begun
  /\ \A id \in begun : verdict[id] = "pending" => request[id].operation.word # "unseal"

\* What a call that was served was to undo has no part in what is under way.
Undone ==
  \A x \in CallIds : effects[x] = 1 =>
    /\ attempt \notin ended[x]
    /\ \A p \in progress : p.call \notin ended[x]

\* The shares of the key went to one call, if to any, and whoever knows the server
\* to be initialised has made it.
OneKeeper ==
  /\ known["init"] \subseteq keys
  /\ \A a, b \in keys : a = b
  /\ ~initialised => keys = {}
  /\ \A id \in CallIds :
       verdict[id] = "pending" /\ effects[id] = 1 /\ StartsInit(request[id].operation)
         => id \in keys

\* The inductive invariant.
IInv ==
  /\ BootTypeOK
  /\ Consistent
  /\ InFlight
  /\ HaveHappened
  /\ Apart
  /\ Undone
  /\ OneKeeper
  /\ ~sealed => progress = {}

-----------------------------------------------------------------------------
(* Where the requests go.                                                  *)

\* The operations of a class.
LEMMA OfClass ==
  ASSUME NEW base, NEW operations, NEW o \in System!Class(base, operations)
  PROVE  \E p \in operations :
           /\ o.verb = p.verb /\ o.word = p.word /\ o.noun = p.noun
           /\ o.url = System!getUrl(base, p.url)
BY DEF System!Class, System!Operation

LEMMA Endpoints ==
  ASSUME NEW o \in Operations
  PROVE  \/ o.word = "seal" /\ Endpoint(o) = <<"PUT", "seal">>
         \/ o.word = "unseal" /\ Endpoint(o) = <<"POST", "unseal">>
         \/ StartsInit(o) /\ Endpoint(o) = <<"PUT", "sys/init">>
         \/ /\ o.word = "start" /\ ~StartsInit(o)
            /\ Endpoint(o) = <<"PUT", "attempt">>
         \/ o.word = "read" /\ Endpoint(o) = <<"GET", "attempt">>
         \/ o.word = "update" /\ Endpoint(o) = <<"PUT", "update">>
         \/ o.word = "cancel" /\ Endpoint(o) = <<"DELETE", "attempt">>
<1> DEFINE Used == {<<"seal", "-">>, <<"unseal", "-">>, <<"start", "Init">>,
                    <<"read", "Attempt">>, <<"start", "Attempt">>,
                    <<"update", "Progress">>, <<"cancel", "Attempt">>}
<1>1. <<o.word, o.noun>> \in Used
  BY DEF Operations
<1>2. CASE o \in System!Sys("path")
  <2>1. PICK operations :
          /\ System!Sys("path") = System!Class(System!Under("sys"), operations)
          /\ \A p \in operations :
               \/ p.word = "seal" /\ p.verb = "PUT" /\ p.url = System!On("seal")
               \/ p.word = "unseal" /\ p.verb = "POST" /\ p.url = System!On("unseal")
               \/ /\ p.word \notin {"seal", "unseal", "start", "update", "cancel"}
                  /\ p.word = "read" => p.noun # "Attempt"
    BY DEF System!Sys, System!get, System!post, System!put,
           System!unauthenticated_get, System!unauthenticated_post, System!post_with_token,
           System!Operation
  <2>2. PICK p \in operations :
          /\ o.verb = p.verb /\ o.word = p.word /\ o.noun = p.noun
          /\ o.url = System!getUrl(System!Under("sys"), p.url)
    <3>1. o \in System!Class(System!Under("sys"), operations)
      BY <1>2, <2>1
    <3> QED BY <3>1, OfClass
  <2>3. \/ o.word = "seal" /\ o.verb = "PUT" /\ p.url = System!On("seal")
        \/ o.word = "unseal" /\ o.verb = "POST" /\ p.url = System!On("unseal")
    BY <1>1, <2>1, <2>2
  <2>4. ASSUME NEW x, p.url = System!On(x) PROVE o.url[Len(o.url)] = x
    BY <2>2, <2>4 DEF System!getUrl, System!Under, System!Bare, System!On, System!Itself
  <2> QED BY <2>3, <2>4 DEF Endpoint
<1>3. CASE o \in System!Init("path")
  <2>1. PICK operations :
          /\ System!Init("path") = System!Class(System!Bare("sys/init"), operations)
          /\ \A p \in operations :
               \/ /\ p.word = "start" /\ p.noun = "Init"
                  /\ p.verb = "PUT" /\ p.url = System!Itself
               \/ p.word = "read" /\ p.noun = "Init"
    BY DEF System!Init, System!put, System!unauthenticated_get, System!Operation
  <2>2. PICK p \in operations :
          /\ o.verb = p.verb /\ o.word = p.word /\ o.noun = p.noun
          /\ o.url = System!getUrl(System!Bare("sys/init"), p.url)
    <3>1. o \in System!Class(System!Bare("sys/init"), operations)
      BY <1>3, <2>1
    <3> QED BY <3>1, OfClass
  <2>3. StartsInit(o) /\ o.verb = "PUT" /\ p.url = System!Itself
    BY <1>1, <2>1, <2>2 DEF StartsInit
  <2>4. o.url[Len(o.url)] = "sys/init"
    BY <2>2, <2>3 DEF System!getUrl, System!Under, System!Bare, System!On, System!Itself
  <2> QED BY <2>3, <2>4 DEF Endpoint
<1>4. CASE o \in System!GenerateRoot("path")
  <2>1. PICK operations :
          /\ System!GenerateRoot("path")
               = System!Class(System!Under("sys/generate-root"), operations)
          /\ \A p \in operations :
               \/ p.word = "read" /\ p.verb = "GET" /\ p.url = System!On("attempt")
               \/ /\ p.word = "start" /\ p.noun = "Attempt"
                  /\ p.verb = "PUT" /\ p.url = System!On("attempt")
               \/ p.word = "update" /\ p.verb = "PUT" /\ p.url = System!On("update")
               \/ p.word = "cancel" /\ p.verb = "DELETE" /\ p.url = System!On("attempt")
    BY DEF System!GenerateRoot, System!get, System!put, System!del, System!Operation
  <2>2. PICK p \in operations :
          /\ o.verb = p.verb /\ o.word = p.word /\ o.noun = p.noun
          /\ o.url = System!getUrl(System!Under("sys/generate-root"), p.url)
    <3>1. o \in System!Class(System!Under("sys/generate-root"), operations)
      BY <1>4, <2>1
    <3> QED BY <3>1, OfClass
  <2>4. ASSUME NEW x, p.url = System!On(x) PROVE o.url[Len(o.url)] = x
    BY <2>2, <2>4 DEF System!getUrl, System!Under, System!Bare, System!On, System!Itself
  <2>5. \/ o.word = "read" /\ o.verb = "GET" /\ p.url = System!On("attempt")
        \/ /\ o.word = "start" /\ ~StartsInit(o)
           /\ o.verb = "PUT" /\ p.url = System!On("attempt")
        \/ o.word = "update" /\ o.verb = "PUT" /\ p.url = System!On("update")
        \/ o.word = "cancel" /\ o.verb = "DELETE" /\ p.url = System!On("attempt")
    BY <2>1, <2>2 DEF StartsInit
  <2> QED BY <2>4, <2>5 DEF Endpoint
<1> QED BY <1>2, <1>3, <1>4 DEF Operations
-----------------------------------------------------------------------------
(* IInv is an invariant.                                                   *)

\* A server before its first call.
LEMMA Initially == BootInit => IInv
<1> SUFFICES ASSUME BootInit PROVE IInv
  OBVIOUS
<1> USE DEF BootInit, Init
<1>1. BootTypeOK
  BY RestartsAssumption DEF BootTypeOK, Verdicts
<1>2. Consistent /\ InFlight
  BY DEF Consistent, InFlight, Asked
<1>3. HaveHappened /\ Apart /\ Undone /\ OneKeeper
  BY DEF HaveHappened, Apart, Undone, OneKeeper
<1> QED BY <1>1, <1>2, <1>3 DEF IInv

\* Invoking a call, which asks for what its operation undoes.
LEMMA CallStep ==
  ASSUME IInv, NEW id \in CallIds, NEW o \in Operations, NEW authenticated \in BOOLEAN,
         NEW share \in (IF TakesShare(o) THEN Shares ELSE {NoShare}),
         NEW for \in (IF TakesAttempt(o) THEN begun ELSE {NoCall}),
         Call(id, o, authenticated, share, for)
  PROVE  IInv'
<1> DEFINE r == [operation |-> o, authenticated |-> authenticated, share |-> share,
                 for |-> for]
           undo == IF o.word = "seal" THEN known["unseal"]
                   ELSE IF o.word = "cancel" THEN known["attempt"] ELSE {}
<1>1. /\ verdict[id] = "none" /\ verdict' = [verdict EXCEPT ![id] = "pending"]
      /\ request' = [request EXCEPT ![id] = r]
      /\ ended' = [ended EXCEPT ![id] = undo]
      /\ UNCHANGED <<effects, known, initialised, sealed, progress, attempt, begun,
                     submitted, keys, roots, restarts>>
  BY DEF Call, Invoke
<1>2. r \in Requests
  <2>1. /\ share \in Shares \cup {NoShare}
        /\ TakesShare(o) => share \in Shares
        /\ for \in CallIds \cup {NoCall}
    BY DEF IInv, BootTypeOK
  <2> QED BY <2>1 DEF Requests
<1>3. undo \subseteq CallIds /\ \A b \in undo : effects[b] = 1
  BY DEF IInv, BootTypeOK, HaveHappened, Apart
<1> HIDE DEF r, undo
<1>4. BootTypeOK'
  BY <1>1, <1>2, <1>3 DEF IInv, BootTypeOK, Verdicts
<1>5. Consistent'
  BY <1>1 DEF IInv, BootTypeOK, Consistent
<1>6. InFlight'
  <2> SUFFICES ASSUME NEW c \in CallIds, Asked(c)'
               PROVE  /\ (request[c] \in Requests)'
                      /\ CASE (request[c].operation.word = "seal")' ->
                                (ended[c] \subseteq known["unseal"])'
                           [] (request[c].operation.word = "cancel")' ->
                                (ended[c] \subseteq known["attempt"])'
                           [] OTHER -> (ended[c] = {})'
    BY DEF InFlight
  <2>1. CASE c = id
    BY <1>1, <1>2, <2>1 DEF IInv, BootTypeOK, r, undo
  <2>2. CASE c # id
    <3>1. Asked(c)
      BY <1>1, <2>2 DEF IInv, BootTypeOK, Asked
    <3> QED BY <1>1, <2>2, <3>1 DEF IInv, BootTypeOK, InFlight
  <2> QED BY <2>1, <2>2
<1>7. HaveHappened'
  BY <1>1, <1>3 DEF IInv, BootTypeOK, HaveHappened
<1>8. Apart'
  BY <1>1 DEF IInv, BootTypeOK, Consistent, HaveHappened, Apart
<1>9. Undone'
  BY <1>1 DEF IInv, BootTypeOK, Consistent, Undone
<1>10. OneKeeper'
  <2>1. effects[id] = 0
    BY <1>1 DEF IInv, Consistent
  <2> QED BY <1>1, <2>1 DEF IInv, BootTypeOK, OneKeeper
<1> QED BY <1>1, <1>4, <1>5, <1>6, <1>7, <1>8, <1>9, <1>10 DEF IInv

\* The end of a call, which makes it known to be done or leaves it in doubt.
LEMMA ReturnStep ==
  ASSUME IInv, NEW id \in CallIds, NEW v \in {"done", "refused", "unknown"},
         Return(id, v)
  PROVE  IInv'
<1>1. /\ verdict[id] = "pending" /\ verdict' = [verdict EXCEPT ![id] = v]
      /\ v = "done" => effects[id] = 1
      /\ v = "refused" => effects[id] = 0
      /\ request' = IF v = "unknown" /\ effects[id] = 0 THEN request
                    ELSE [request EXCEPT ![id] = NoRequest]
      /\ UNCHANGED <<effects, ended, initialised, sealed, progress, attempt, begun,
                     submitted, keys, roots, restarts>>
  BY DEF Return, Settle
<1>2. /\ known' \in [{"init", "unseal", "attempt"} -> SUBSET CallIds]
      /\ \A c \in known'["init"] : c \in known["init"] \/
           (c = id /\ v = "done" /\ StartsInit(request[id].operation))
      /\ known["unseal"] \subseteq known'["unseal"]
      /\ known["attempt"] \subseteq known'["attempt"]
      /\ known'["attempt"] \subseteq known["attempt"] \cup begun
      /\ \A c \in known'["unseal"] : c \in known["unseal"] \/
           (c = id /\ v = "done" /\ request[id].operation.word = "unseal")
  BY DEF IInv, BootTypeOK, Return
<1>3. \A c \in CallIds \ {id} : verdict'[c] = verdict[c] /\ request'[c] = request[c]
  BY <1>1 DEF IInv, BootTypeOK
<1>4. verdict'[id] = v
  BY <1>1 DEF IInv, BootTypeOK
<1>5. BootTypeOK'
  BY <1>1, <1>2 DEF IInv, BootTypeOK, Verdicts
<1>6. Consistent'
  BY <1>1 DEF IInv, BootTypeOK, Consistent
<1>7. InFlight'
  <2> SUFFICES ASSUME NEW c \in CallIds, Asked(c)'
               PROVE  /\ (request[c] \in Requests)'
                      /\ CASE (request[c].operation.word = "seal")' ->
                                (ended[c] \subseteq known["unseal"])'
                           [] (request[c].operation.word = "cancel")' ->
                                (ended[c] \subseteq known["attempt"])'
                           [] OTHER -> (ended[c] = {})'
    BY DEF InFlight
  <2>1. Asked(c) /\ request'[c] = request[c]
    <3>1. CASE c = id
      BY <1>1, <1>4, <3>1 DEF Asked
    <3>2. CASE c # id
      BY <1>1, <1>3, <3>2 DEF Asked
    <3> QED BY <3>1, <3>2
  <2> QED BY <1>1, <1>2, <2>1 DEF IInv, InFlight
<1>8. HaveHappened'
  BY <1>1, <1>2 DEF IInv, BootTypeOK, HaveHappened
<1>9. Apart'
  <2>1. id \in begun => request[id].operation.word # "unseal"
    BY <1>1 DEF IInv, Apart
  <2>2. \A c \in begun : (verdict[c] = "pending")' => c # id
    BY <1>1 DEF IInv, BootTypeOK
  <2>3. \A c \in begun : (verdict[c] = "pending")' =>
          (request[c].operation.word # "unseal")'
    <3> SUFFICES ASSUME NEW c \in begun, (verdict[c] = "pending")'
                 PROVE  (request[c].operation.word # "unseal")'
      OBVIOUS
    <3>1. c \in CallIds \ {id}
      BY <2>2 DEF IInv, BootTypeOK
    <3>2. verdict'[c] = verdict[c] /\ request'[c] = request[c]
      BY <1>3, <3>1
    <3> QED BY <3>2 DEF IInv, Apart
  <2> QED BY <1>1, <1>2, <2>1, <2>3 DEF IInv, Apart
<1>10. Undone'
  BY <1>1 DEF IInv, Undone
<1>11. OneKeeper'
  <2>1. known'["init"] \subseteq keys
    BY <1>1, <1>2 DEF IInv, OneKeeper
  <2>2. ASSUME NEW c \in CallIds, (verdict[c] = "pending")', effects[c] = 1,
               StartsInit(request[c].operation)'
        PROVE  c \in keys
    <3>1. c # id
      BY <1>4, <2>2
    <3>2. verdict[c] = "pending" /\ request'[c] = request[c]
      BY <1>3, <2>2, <3>1
    <3> QED BY <2>2, <3>2 DEF IInv, OneKeeper, StartsInit
  <2> QED BY <1>1, <2>1, <2>2 DEF IInv, OneKeeper
<1> QED BY <1>1, <1>5, <1>6, <1>7, <1>8, <1>9, <1>10, <1>11 DEF IInv

\* A restart, after which nothing is under way.
LEMMA RestartStep ==
  ASSUME IInv, Restart
  PROVE  IInv'
<1> USE DEF Restart, IInv
<1>1. BootTypeOK'
  BY RestartsAssumption DEF BootTypeOK
<1>2. Consistent' /\ InFlight'
  BY DEF Consistent, InFlight, Asked
<1>3. HaveHappened' /\ Apart'
  BY DEF HaveHappened, Apart
<1>4. Undone'
  BY NoCallAssumption DEF Undone, BootTypeOK
<1>5. OneKeeper'
  BY DEF OneKeeper
<1> QED BY <1>1, <1>2, <1>3, <1>4, <1>5
\* What carrying out a request may do to the server.
LEMMA ServerStep ==
  ASSUME IInv, NEW id \in CallIds, NEW r \in Requests, Effect(id, r)
  PROVE  /\ initialised' \in BOOLEAN /\ sealed' \in BOOLEAN
         /\ ~sealed' => progress' = {}
         /\ \A p \in progress' : p \in progress \/
              /\ p \in [call : CallIds, share : Shares]
              /\ p.call = id /\ r.operation.word = "unseal"
         /\ attempt' \in {attempt, NoCall, id}
         /\ attempt' = id /\ attempt # id => r.operation.word = "start" /\ id \in begun'
         /\ begun \subseteq begun' /\ begun' \subseteq begun \cup {id}
         /\ id \in begun' => id \in begun \/ r.operation.word = "start"
         /\ submitted' \subseteq Shares
         /\ roots' \subseteq roots \cup {id}
         /\ keys \subseteq keys' /\ keys' \subseteq keys \cup {id}
         /\ StartsInit(r.operation) => id \in keys'
         /\ keys' # keys => ~initialised
         /\ initialised => initialised'
         /\ ~initialised' => keys' = keys
         /\ r.operation.word = "seal" => progress' = {}
         /\ r.operation.word = "cancel" => attempt' = NoCall
<1> DEFINE o == r.operation
<1>1. o \in Operations /\ (TakesShare(o) => r.share \in Shares)
  BY DEF Requests
<1>2. /\ initialised \in BOOLEAN /\ sealed \in BOOLEAN
      /\ ~sealed => progress = {}
      /\ submitted \subseteq Shares
  BY DEF IInv, BootTypeOK
<1>3. CASE o.word = "seal" /\ Endpoint(o) = <<"PUT", "seal">>
  <2>1. Seal
    BY <1>3 DEF Effect
  <2> QED BY <1>2, <1>3, <2>1 DEF Seal, StartsInit
<1>4. CASE o.word = "unseal" /\ Endpoint(o) = <<"POST", "unseal">>
  <2>1. Unseal(id, r)
    BY <1>4 DEF Effect
  <2>2. r.share \in Shares
    BY <1>1, <1>4 DEF TakesShare
  <2>3. [call |-> id, share |-> r.share] \in [call : CallIds, share : Shares]
    BY <2>2
  <2>4. /\ sealed' \in BOOLEAN
        /\ ~sealed' => progress' = {}
        /\ \A p \in progress' : p \in progress \/ p = [call |-> id, share |-> r.share]
        /\ UNCHANGED <<initialised, attempt, begun, submitted, keys, roots>>
    BY <1>2, <2>1 DEF Unseal
  <2> QED BY <1>2, <1>4, <2>3, <2>4 DEF StartsInit
<1>5. CASE StartsInit(o) /\ Endpoint(o) = <<"PUT", "sys/init">>
  <2>1. Initialise(id)
    BY <1>5 DEF Effect
  <2>2. /\ ~initialised /\ initialised' = TRUE /\ keys' = keys \cup {id}
        /\ UNCHANGED <<sealed, progress, attempt, begun, submitted, roots>>
    BY <2>1 DEF Initialise
  <2> QED BY <1>2, <1>5, <2>2 DEF StartsInit
<1>6. CASE /\ o.word = "start" /\ ~StartsInit(o)
           /\ Endpoint(o) = <<"PUT", "attempt">>
  <2>1. StartAttempt(id)
    BY <1>6 DEF Effect
  <2>2. /\ attempt' = id /\ begun' = begun \cup {id} /\ submitted' = {}
        /\ UNCHANGED <<initialised, sealed, progress, keys, roots>>
    BY <2>1 DEF StartAttempt
  <2> QED BY <1>2, <1>6, <2>2
<1>7. CASE o.word = "read" /\ Endpoint(o) = <<"GET", "attempt">>
  <2>1. UNCHANGED <<initialised, sealed, progress, attempt, begun, submitted, keys,
                  roots>>
    BY <1>7 DEF Effect
  <2> QED BY <1>2, <1>7, <2>1 DEF StartsInit
<1>8. CASE o.word = "update" /\ Endpoint(o) = <<"PUT", "update">>
  <2>1. Submit(id, r)
    BY <1>8 DEF Effect
  <2>2. r.share \in Shares
    BY <1>1, <1>8 DEF TakesShare
  <2>3. /\ attempt' \in {attempt, NoCall} /\ roots' \subseteq roots \cup {id}
        /\ submitted' \subseteq Shares
        /\ UNCHANGED <<initialised, sealed, progress, begun, keys>>
    BY <1>2, <2>1, <2>2 DEF Submit
  <2> QED BY <1>2, <1>8, <2>3, NoCallAssumption DEF StartsInit
<1>9. CASE o.word = "cancel" /\ Endpoint(o) = <<"DELETE", "attempt">>
  <2>1. CancelAttempt
    BY <1>9 DEF Effect
  <2>2. /\ attempt' = NoCall /\ submitted' = {}
        /\ UNCHANGED <<initialised, sealed, progress, begun, keys, roots>>
    BY <2>1 DEF CancelAttempt
  <2> QED BY <1>2, <1>9, <2>2, NoCallAssumption DEF StartsInit
<1> QED BY <1>1, <1>3, <1>4, <1>5, <1>6, <1>7, <1>8, <1>9, Endpoints

\* The server carries out a request: what the call is to undo is undone with it.
LEMMA ServeStep ==
  ASSUME IInv, NEW id \in CallIds, Serve(id)
  PROVE  IInv'
<1> DEFINE r == request[id]
           word == r.operation.word
<1>1. /\ verdict[id] \in {"pending", "unknown"} /\ effects[id] = 0
      /\ effects' = [effects EXCEPT ![id] = 1]
      /\ Effect(id, r)
      /\ request' = IF verdict[id] = "pending" THEN request
                    ELSE [request EXCEPT ![id] = NoRequest]
      /\ UNCHANGED <<verdict, known, ended, restarts>>
  BY DEF Serve, TakeEffect
<1>2. /\ r \in Requests
      /\ word = "seal" => ended[id] \subseteq known["unseal"]
      /\ word = "cancel" => ended[id] \subseteq known["attempt"]
      /\ word \notin {"seal", "cancel"} => ended[id] = {}
  BY <1>1 DEF IInv, InFlight, Asked
<1>3. /\ id \notin begun /\ id \notin known["unseal"]
      /\ \A p \in progress : p.call # id
      /\ \A s \in CallIds : id \notin ended[s]
  BY <1>1 DEF IInv, HaveHappened
<1>4. /\ initialised' \in BOOLEAN /\ sealed' \in BOOLEAN
      /\ ~sealed' => progress' = {}
      /\ \A p \in progress' : p \in progress \/
           /\ p \in [call : CallIds, share : Shares]
           /\ p.call = id /\ word = "unseal"
      /\ attempt' \in {attempt, NoCall, id}
      /\ attempt' = id /\ attempt # id => word = "start" /\ id \in begun'
      /\ begun \subseteq begun' /\ begun' \subseteq begun \cup {id}
      /\ id \in begun' => id \in begun \/ word = "start"
      /\ submitted' \subseteq Shares
      /\ roots' \subseteq roots \cup {id}
      /\ keys \subseteq keys' /\ keys' \subseteq keys \cup {id}
      /\ StartsInit(r.operation) => id \in keys'
      /\ keys' # keys => ~initialised
      /\ initialised => initialised'
      /\ ~initialised' => keys' = keys
      /\ word = "seal" => progress' = {}
      /\ word = "cancel" => attempt' = NoCall
  BY <1>1, <1>2, ServerStep
<1>5. /\ \A c \in CallIds \ {id} : effects'[c] = effects[c] /\ request'[c] = request[c]
      /\ effects'[id] = 1
      /\ verdict[id] = "pending" => request'[id] = r
  BY <1>1 DEF IInv, BootTypeOK
<1> HIDE DEF r, word
<1>6. BootTypeOK'
  <2>1. request' \in [CallIds -> Requests \cup {NoRequest}]
    BY <1>1 DEF IInv, BootTypeOK
  <2>2. progress' \subseteq [call : CallIds, share : Shares]
    BY <1>4 DEF IInv, BootTypeOK
  <2>3. attempt' \in begun' \cup {NoCall} /\ begun' \subseteq CallIds
    BY <1>3, <1>4 DEF IInv, BootTypeOK
  <2>4. effects' \in [CallIds -> {0, 1}]
    BY <1>1 DEF IInv, BootTypeOK
  <2> QED BY <1>1, <1>4, <2>1, <2>2, <2>3, <2>4 DEF IInv, BootTypeOK
<1>7. Consistent'
  BY <1>1, <1>5 DEF IInv, Consistent
<1>8. InFlight'
  <2> SUFFICES ASSUME NEW c \in CallIds, Asked(c)'
               PROVE  /\ (request[c] \in Requests)'
                      /\ CASE (request[c].operation.word = "seal")' ->
                                (ended[c] \subseteq known["unseal"])'
                           [] (request[c].operation.word = "cancel")' ->
                                (ended[c] \subseteq known["attempt"])'
                           [] OTHER -> (ended[c] = {})'
    BY DEF InFlight
  <2>1. Asked(c) /\ request'[c] = request[c]
    <3>1. CASE c = id
      BY <1>1, <1>5, <3>1 DEF Asked, r
    <3>2. CASE c # id
      BY <1>1, <1>5, <3>2 DEF Asked
    <3> QED BY <3>1, <3>2
  <2> QED BY <1>1, <2>1 DEF IInv, InFlight
<1>9. HaveHappened'
  <2> SUFFICES ASSUME NEW c \in CallIds, (effects[c] = 0)'
               PROVE  /\ c \notin begun' /\ c \notin known'["unseal"]
                      /\ \A p \in progress' : p.call # c
                      /\ \A s \in CallIds : c \notin ended'[s]
    BY DEF HaveHappened
  <2>1. c # id /\ effects[c] = 0
    BY <1>5
  <2> QED BY <1>1, <1>4, <2>1 DEF IInv, HaveHappened
<1>10. Apart'
  <2>1. \A p \in progress' : p.call \notin begun'
    BY <1>3, <1>4 DEF IInv, Apart
  <2>2. \A c \in begun' : (verdict[c] = "pending")' =>
          (request[c].operation.word # "unseal")'
    <3> SUFFICES ASSUME NEW c \in begun', (verdict[c] = "pending")'
                 PROVE  (request[c].operation.word # "unseal")'
      OBVIOUS
    <3>1. CASE c = id
      BY <1>1, <1>3, <1>4, <1>5, <3>1 DEF word
    <3>2. CASE c # id
      <4>1. c \in begun /\ c \in CallIds
        BY <1>4, <3>2 DEF IInv, BootTypeOK
      <4> QED BY <1>1, <1>5, <3>2, <4>1 DEF IInv, Apart
    <3> QED BY <3>1, <3>2
  <2>3. known["attempt"] \subseteq begun' /\ known["unseal"] \cap begun' = {}
    BY <1>3, <1>4 DEF IInv, Apart
  <2> QED BY <1>1, <2>1, <2>2, <2>3 DEF Apart
<1>11. Undone'
  <2> SUFFICES ASSUME NEW x \in CallIds, (effects[x] = 1)'
               PROVE  /\ attempt' \notin ended[x]
                      /\ \A p \in progress' : p.call \notin ended[x]
    BY <1>1 DEF Undone
  <2>1. NoCall \notin ended[x] /\ id \notin ended[x]
    BY <1>3, NoCallAssumption DEF IInv, BootTypeOK
  <2>2. CASE x # id
    BY <1>4, <1>5, <2>1, <2>2 DEF IInv, Undone
  <2>3. CASE x = id /\ word = "seal"
    <3>1. attempt \notin ended[x]
      BY <1>2, <2>1, <2>3 DEF IInv, BootTypeOK, Apart
    <3> QED BY <1>4, <2>1, <2>3, <3>1
  <2>4. CASE x = id /\ word = "cancel"
    <3>1. \A p \in progress : p.call \notin ended[x]
      BY <1>2, <2>4 DEF IInv, Apart
    <3> QED BY <1>4, <2>1, <2>4, <3>1
  <2>5. CASE x = id /\ word \notin {"seal", "cancel"}
    BY <1>2, <2>5
  <2> QED BY <2>2, <2>3, <2>4, <2>5
<1>12. OneKeeper'
  <2>1. known["init"] \subseteq keys'
    BY <1>4 DEF IInv, OneKeeper
  <2>2. \A a, b \in keys' : a = b
    BY <1>4 DEF IInv, OneKeeper
  <2>3. ~initialised' => keys' = {}
    BY <1>4 DEF IInv, OneKeeper
  <2>4. ASSUME NEW c \in CallIds, verdict[c] = "pending", (effects[c] = 1)',
               StartsInit(request[c].operation)'
        PROVE  c \in keys'
    <3>1. CASE c = id
      BY <1>4, <1>5, <2>4, <3>1 DEF r, StartsInit
    <3>2. CASE c # id
      <4>1. effects[c] = 1 /\ StartsInit(request[c].operation)
        BY <1>5, <2>4, <3>2 DEF StartsInit
      <4> QED BY <1>4, <2>4, <4>1 DEF IInv, OneKeeper
    <3> QED BY <3>1, <3>2
  <2> QED BY <1>1, <2>1, <2>2, <2>3, <2>4 DEF OneKeeper
<1> QED BY <1>4, <1>6, <1>7, <1>8, <1>9, <1>10, <1>11, <1>12 DEF IInv

\* Every step keeps IInv.
LEMMA Steps == IInv /\ [BootNext]_bootVars => IInv'
<1> SUFFICES ASSUME IInv, [BootNext]_bootVars PROVE IInv'
  OBVIOUS
<1>1. ASSUME NEW id \in CallIds, NEW o \in Operations, NEW authenticated \in BOOLEAN,
             NEW share \in (IF TakesShare(o) THEN Shares ELSE {NoShare}),
             NEW for \in (IF TakesAttempt(o) THEN begun ELSE {NoCall}),
             Call(id, o, authenticated, share, for)
      PROVE  IInv'
  BY <1>1, CallStep
<1>2. ASSUME NEW id \in CallIds, Serve(id) PROVE IInv'
  BY <1>2, ServeStep
<1>3. ASSUME NEW id \in CallIds, NEW v \in {"done", "refused", "unknown"}, Return(id, v)
      PROVE  IInv'
  BY <1>3, ReturnStep
<1>4. CASE Restart
  BY <1>4, RestartStep
<1>5. CASE UNCHANGED bootVars
  BY <1>5 DEF bootVars, IInv, BootTypeOK, Consistent, InFlight, Asked, HaveHappened,
              Apart, Undone, OneKeeper
<1> QED BY <1>1, <1>2, <1>3, <1>4, <1>5 DEF BootNext

\* The inductive invariant holds in every reachable state.
THEOREM BootInvariance == BootSpec => []IInv
BY Initially, Steps, PTL DEF BootSpec

-----------------------------------------------------------------------------
(* What it is good for.                                                    *)

\* The variables keep their types: what a call asks for is an operation of Sys,
\* Init or GenerateRoot, and an attempt under way is one that was begun.
THEOREM BootTypeCorrect == BootSpec => []BootTypeOK
<1>1. IInv => BootTypeOK
  BY DEF IInv
<1> QED BY <1>1, BootInvariance, PTL

\* Whoever knows Init::start to be done holds the shares of the key, and nobody
\* else was or will be answered with any.
THEOREM OneHolderOfTheKey == BootSpec => []KeysToOne
<1>1. IInv => KeysToOne
  BY DEF IInv, OneKeeper, KeysToOne
<1> QED BY <1>1, BootInvariance, PTL

\* The calls of unseal that were known to be done when a seal was called that is
\* now known to be done have no part in unsealing the server again.
THEOREM SealedForGood == BootSpec => StaysSealed
<1>1. IInv /\ [BootNext]_bootVars =>
        [Unsealed => \A s \in CallIds : verdict[s] = "done" =>
           \A p \in progress : p.call \notin ended[s]]_bootVars
  BY DEF IInv, Consistent, Undone
<1> QED BY <1>1, BootInvariance, PTL DEF BootSpec, StaysSealed

\* No attempt that was known when a cancel was called that is now known to be
\* done makes a root token.
THEOREM CancelledForGood == BootSpec => CancelIsFinal
<1>1. IInv /\ [BootNext]_bootVars =>
        [roots' # roots => \A x \in CallIds : verdict[x] = "done" =>
           attempt \notin ended[x]]_bootVars
  BY DEF IInv, Consistent, Undone
<1> QED BY <1>1, BootInvariance, PTL DEF BootSpec, CancelIsFinal

\* The calls keep the promise of AtMostOnce, whatever the server is made to do.
THEOREM BootKeepsPromise == BootSpec => Spec
<1>1. BootInit => Init
  BY DEF BootInit
<1>2. [BootNext]_bootVars => [Next]_vars
  <2> SUFFICES ASSUME [BootNext]_bootVars PROVE [Next]_vars
    OBVIOUS
  <2>1. ASSUME NEW id \in CallIds, NEW o \in Operations, NEW authenticated \in BOOLEAN,
               NEW share \in (IF TakesShare(o) THEN Shares ELSE {NoShare}),
               NEW for \in (IF TakesAttempt(o) THEN begun ELSE {NoCall}),
               Call(id, o, authenticated, share, for)
        PROVE  Next
    BY <2>1 DEF Call, Next
  <2>2. ASSUME NEW id \in CallIds, Serve(id) PROVE Next
    BY <2>2 DEF Serve, Next
  <2>3. ASSUME NEW id \in CallIds, NEW v \in {"done", "refused", "unknown"},
               Return(id, v)
        PROVE  Next
    BY <2>3 DEF Return, Next
  <2>4. CASE Restart
    BY <2>4 DEF Restart, vars
  <2>5. CASE UNCHANGED bootVars
    BY <2>5 DEF bootVars, vars
  <2> QED BY <2>1, <2>2, <2>3, <2>4, <2>5 DEF BootNext
<1> QED BY <1>1, <1>2, PTL DEF BootSpec, Spec
============================================================================
