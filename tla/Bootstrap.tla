----------------------------- MODULE Bootstrap -----------------------------
(***************************************************************************)
(* The life of a Vault server in the hands of several operators: Init,     *)
(* seal and unseal of Sys, and GenerateRoot, called by clients with some   *)
(* token, which may be made up, or with none, over the promise of          *)
(* AtMostOnce.  The requests are those of SystemRoutes; the server that    *)
(* answers them is external to the repository, and may restart.            *)
(*                                                                         *)
(* An attempt to generate a root token has the name of the call that has   *)
(* started it.                                                             *)
(***************************************************************************)
EXTENDS AtMostOnce, FiniteSets, Sequences

CONSTANTS
  Shares,       \* of the key that unseals, in the operators' hands
  Threshold,    \* how many of them it takes
  MaxRestarts,  \* of the server
  NoShare, NoCall, NoRequest

ASSUME ThresholdAssumption == Threshold \in 1..Cardinality(Shares)
ASSUME RestartsAssumption == MaxRestarts \in Nat
ASSUME NoCallAssumption == NoCall \notin CallIds

VARIABLES
  request,      \* what each call that is under way or in doubt asks for
  known,        \* the calls each program knows to be done, by their words
  ended,        \* the ones of them that each call was to undo
  initialised,
  sealed,
  progress,     \* the shares of the unsealing so far, with the calls they came by
  attempt,      \* to generate a root token, or NoCall
  begun,        \* all there have been
  submitted,    \* the shares for it so far
  keys,         \* the calls that were answered with the shares of the key
  roots,        \* the calls that were answered with a root token
  restarts

bootVars == <<verdict, effects, request, known, ended, initialised, sealed,
              progress, attempt, begun, submitted, keys, roots, restarts>>

-----------------------------------------------------------------------------
(* The operations.                                                         *)

System == INSTANCE SystemRoutes

\* All but sealStatus and Init::read, which tell what they find.
Operations ==
  {o \in System!Sys("path") \cup System!Init("path") \cup System!GenerateRoot("path") :
     <<o.word, o.noun>> \in {<<"seal", "-">>, <<"unseal", "-">>, <<"start", "Init">>,
       <<"read", "Attempt">>, <<"start", "Attempt">>, <<"update", "Progress">>,
       <<"cancel", "Attempt">>}}

\* Init::start, whose answer has the shares of the key.
StartsInit(o) == o.word = "start" /\ o.noun = "Init"

TakesShare(o) == o.word \in {"unseal", "update"}

\* update names an attempt, which start and read tell the caller.
TakesAttempt(o) == o.word = "update"

Endpoint(o) == <<o.verb, o.url[Len(o.url)]>>

BootInit ==
  /\ Init
  /\ request = [id \in CallIds |-> NoRequest]
  /\ known = [word \in {"init", "unseal", "attempt"} |-> {}]
  /\ ended = [id \in CallIds |-> {}]
  /\ initialised \in BOOLEAN
  /\ sealed \in {b \in BOOLEAN : b \/ initialised}
  /\ progress = {}
  /\ attempt = NoCall
  /\ begun = {}
  /\ submitted = {}
  /\ keys = {}
  /\ roots = {}
  /\ restarts = 0

\* An operation of Sys, Init or GenerateRoot.
Call(id, o, authenticated, share, for) ==
  /\ Invoke(id)
  /\ request' = [request EXCEPT ![id] =
       [operation |-> o, authenticated |-> authenticated, share |-> share,
        for |-> for]]
  /\ ended' = [ended EXCEPT ![id] =
       IF o.word = "seal" THEN known["unseal"]
       ELSE IF o.word = "cancel" THEN known["attempt"] ELSE {}]
  /\ UNCHANGED <<known, initialised, sealed, progress, attempt, begun, submitted,
                 keys, roots, restarts>>

\* The guard of HttpConsumer::put and the like, which runs no callback.
IsSent(r) == r.operation.open \/ r.authenticated

Return(id, v) ==
  LET o == request[id].operation
  IN  /\ Settle(id, v)
      /\ ~IsSent(request[id]) => v = "refused"
      /\ known' = IF v # "done" THEN known
                  ELSE [known EXCEPT
                    !["init"] = @ \cup (IF StartsInit(o) THEN {id} ELSE {}),
                    !["unseal"] = @ \cup (IF o.word = "unseal" THEN {id} ELSE {}),
                    !["attempt"] = @ \cup ({id} \cap begun)]
      /\ request' = IF v = "unknown" /\ effects[id] = 0 THEN request
                    ELSE [request EXCEPT ![id] = NoRequest]
      /\ UNCHANGED <<ended, initialised, sealed, progress, attempt, begun, submitted,
                     keys, roots, restarts>>

-----------------------------------------------------------------------------
(* The Vault server, external to the repository.  Only seal needs a token  *)
(* that is good; a call that a server refuses is never served.             *)
(*                                                                         *)
(* That a server which is sealed already refuses seal, instead of sealing  *)
(* once more, is assumed of it: nothing in the repository says so.         *)

Initialise(id) ==
  /\ ~initialised
  /\ initialised' = TRUE
  /\ keys' = keys \cup {id}
  /\ UNCHANGED <<sealed, progress, attempt, begun, submitted, roots>>

Seal ==
  /\ ~sealed
  /\ sealed' = TRUE
  /\ UNCHANGED <<initialised, progress, attempt, begun, submitted, keys, roots>>

\* A share that is there already, or for a server that is not sealed, is
\* accepted and has no effect.
Unseal(id, r) ==
  LET fresh == sealed /\ \A p \in progress : p.share # r.share
      all == IF fresh THEN progress \cup {[call |-> id, share |-> r.share]}
             ELSE progress
      enough == Cardinality(all) = Threshold
  IN  /\ initialised
      /\ sealed' = (sealed /\ ~enough)
      /\ progress' = IF enough THEN {} ELSE all
      /\ UNCHANGED <<initialised, attempt, begun, submitted, keys, roots>>

StartAttempt(id) ==
  /\ ~sealed /\ attempt = NoCall
  /\ attempt' = id
  /\ begun' = begun \cup {id}
  /\ submitted' = {}
  /\ UNCHANGED <<initialised, sealed, progress, keys, roots>>

Submit(id, r) ==
  LET all == submitted \cup {r.share}
      enough == Cardinality(all) = Threshold
  IN  /\ ~sealed /\ attempt # NoCall /\ r.for = attempt
      /\ submitted' = IF enough THEN {} ELSE all
      /\ attempt' = IF enough THEN NoCall ELSE attempt
      /\ roots' = IF enough THEN roots \cup {id} ELSE roots
      /\ UNCHANGED <<initialised, sealed, progress, begun, keys>>

\* It is accepted when there is none, too.
CancelAttempt ==
  /\ ~sealed
  /\ attempt' = NoCall
  /\ submitted' = {}
  /\ UNCHANGED <<initialised, sealed, progress, begun, keys, roots>>

Effect(id, r) ==
  LET endpoint == Endpoint(r.operation)
  IN  CASE endpoint = <<"PUT", "sys/init">> -> Initialise(id)
        [] endpoint = <<"PUT", "seal">> -> Seal
        [] endpoint = <<"POST", "unseal">> -> Unseal(id, r)
        [] endpoint = <<"PUT", "attempt">> -> StartAttempt(id)
        [] endpoint = <<"PUT", "update">> -> Submit(id, r)
        [] endpoint = <<"DELETE", "attempt">> -> CancelAttempt
        [] endpoint \in {<<"GET", "attempt">>, <<"GET", "sys/init">>} ->
             UNCHANGED <<initialised, sealed, progress, attempt, begun, submitted,
                         keys, roots>>

Serve(id) ==
  /\ TakeEffect(id)
  /\ IsSent(request[id])
  /\ Effect(id, request[id])
  /\ request' = IF verdict[id] = "pending" THEN request
                ELSE [request EXCEPT ![id] = NoRequest]
  /\ UNCHANGED <<known, ended, restarts>>

\* A server forgets the shares it was given; one that comes up is sealed.
Restart ==
  /\ restarts < MaxRestarts
  /\ restarts' = restarts + 1
  /\ sealed' = TRUE
  /\ progress' = {} /\ attempt' = NoCall /\ submitted' = {}
  /\ UNCHANGED <<verdict, effects, request, known, ended, initialised, begun, keys,
                 roots>>

BootNext ==
  \/ \E id \in CallIds :
       \/ \E o \in Operations, authenticated \in BOOLEAN :
          \E share \in (IF TakesShare(o) THEN Shares ELSE {NoShare}),
             for \in (IF TakesAttempt(o) THEN begun ELSE {NoCall}) :
               Call(id, o, authenticated, share, for)
       \/ Serve(id)
       \/ \E v \in {"done", "refused", "unknown"} : Return(id, v)
  \/ Restart

BootSpec == BootInit /\ [][BootNext]_bootVars

-----------------------------------------------------------------------------
(* Correctness.                                                            *)

Unsealed == sealed /\ ~sealed'

\* The shares of a server that somebody knows to have sealed are of no use any
\* more: the calls of unseal that were known to be done when seal was called have
\* no part in unsealing it again, for all that was lost or late on the way.
\* It rests on the assumption made about Seal above.
StaysSealed ==
  [][Unsealed =>
       \A s \in CallIds : verdict[s] = "done" =>
         \A p \in progress : p.call \notin ended[s]]_bootVars

\* Once somebody knows that cancel is done, no attempt that was known when it was
\* called makes a root token, whatever shares for it are still on their way.
CancelIsFinal ==
  [][roots' # roots =>
       \A x \in CallIds : verdict[x] = "done" => attempt \notin ended[x]]_bootVars

\* A program that knows Init::start to be done holds the shares of the key, and
\* holds them alone: no other caller was answered with shares before, or will be,
\* be it refused or in doubt.
KeysToOne == \A id \in known["init"] : keys = {id}
=============================================================================
