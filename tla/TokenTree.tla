----------------------------- MODULE TokenTree -----------------------------
(***************************************************************************)
(* Tokens that make and revoke tokens: the operations of Tokens and the    *)
(* wrapping ones of Sys, called by clients derived from one another as     *)
(* each token is received, over the promise of AtMostOnce.  Which request  *)
(* an operation makes is taken from the route modules; the server that     *)
(* answers it, a tree of tokens and a store of wrapped ones, is external   *)
(* to the repository.                                                      *)
(*                                                                         *)
(* The token or wrapping token a call makes has the name of the call.      *)
(***************************************************************************)
EXTENDS AtMostOnce, FiniteSets

CONSTANTS
  Given,    \* tokens there are from the start, and which the program knows
  Parents,  \* the ancestors of each, itself included
  Used,     \* the operations the program calls, as <<word, noun>>
  NoToken, NoRequest

AllTokens == Given \cup CallIds

ASSUME ParentsAssumption ==
  /\ Parents \in [Given -> SUBSET Given]
  /\ \A t \in Given : t \in Parents[t]
ASSUME DistinctAssumption ==
  Given \cap CallIds = {} /\ NoToken \notin AllTokens

\* The operations that make, wrap, use or end one token.
TokenOperations ==
  ({"create"} \X {"Token", "TokenOrphan", "TokenWithRole", "WrappedToken"})
    \cup ({"lookup", "renew", "revoke"} \X {"Token", "TokenSelf", "TokenAccessor"})
    \cup {<<"revoke", "TokenAndOrphanChildren">>}
    \cup ({"unwrap", "rewrap", "lookup"} \X {"-"})

ASSUME UsedAssumption == Used \subseteq TokenOperations

VARIABLES
  request,  \* what each call that is under way or in doubt asks for
  live,     \* the tokens the server knows
  line,     \* the ancestors of each, itself included
  holds,    \* the token inside the wrapping token each call has made
  reply,    \* the token each call that is not settled as done would be told
  told,     \* the tokens that calls have been told
  wrapped,  \* the wrapping tokens that calls have been told
  family,   \* the ancestors there should be by the names of the operations
  doomed    \* the tokens the revocation of each call was to end, by its name

treeVars == <<verdict, effects, request, live, line, holds, reply, told, wrapped,
              family, doomed>>

-----------------------------------------------------------------------------
(* The operations.                                                         *)

Auth == INSTANCE AuthRoutes

System == INSTANCE SystemRoutes

\* The request of createToken with one more header.
createWrappedToken(operations) ==
  {Auth!Operation(o.verb, o.word, "WrappedToken", o.url, o.open) :
     o \in {p \in operations : p.word = "create" /\ p.noun = "Token"}}

Operations ==
  LET tokens == Auth!Tokens("role")
  IN  {o \in tokens \cup createWrappedToken(tokens) \cup System!Sys("path") :
         <<o.word, o.noun>> \in Used}

Name(o) == <<o.word, o.noun>>

IsUnwrap(o) == Name(o) = <<"unwrap", "-">>

\* What an operation names beside the token of its client: another token, by
\* itself or by its accessor, or a wrapping token.
NamesToken(o) ==
  /\ o.word \in {"lookup", "renew", "revoke"}
  /\ o.noun \in {"Token", "TokenAccessor", "TokenAndOrphanChildren"}

NamesWrapping(o) == IsUnwrap(o) \/ Name(o) \in {<<"lookup", "-">>, <<"rewrap", "-">>}

Targets(o) ==
  IF NamesToken(o) THEN told ELSE IF NamesWrapping(o) THEN wrapped ELSE {NoToken}

\* The piece of the URL after the base; only the name of a role may follow it.
Endpoint(o) == o.url[5]

TreeTypeOK ==
  /\ TypeOK
  /\ live \in SUBSET AllTokens /\ told \in SUBSET AllTokens
  /\ wrapped \in SUBSET CallIds
  /\ line \in [AllTokens -> SUBSET AllTokens]
  /\ holds \in [CallIds -> AllTokens \cup {NoToken}]
  /\ reply \in [CallIds -> AllTokens \cup {NoToken}]

TreeInit ==
  /\ Init
  /\ request = [id \in CallIds |-> NoRequest]
  /\ live = Given
  /\ line = [t \in AllTokens |-> IF t \in Given THEN Parents[t] ELSE {}]
  /\ holds = [id \in CallIds |-> NoToken]
  /\ reply = [id \in CallIds |-> NoToken]
  /\ told = Given
  /\ wrapped = {}
  /\ family = line
  /\ doomed = [id \in CallIds |-> {}]

\* The tokens that revocations the program knows to be done were to end.
Outlawed == UNION {doomed[c] : c \in {d \in CallIds : verdict[d] = "done"}}

\* An operation of a Tokens or Sys whose client has the token by: one the program
\* was told, with which it has made a client or derived one from another.
Call(id, o, by, target) ==
  /\ Invoke(id)
  /\ request' = [request EXCEPT ![id] =
       [operation |-> o, by |-> by, target |-> target, outlawed |-> Outlawed]]
  /\ UNCHANGED <<live, line, holds, reply, told, wrapped, family, doomed>>

MakesWrapping(o) == o.noun = "WrappedToken" \/ o.word = "rewrap"

\* A slip: an answer without a token is taken for one with an empty token.
Return_Unread(id, v) ==
  /\ Settle(id, v)
  /\ told' = told \cup {reply[id]}
  /\ UNCHANGED <<request, live, line, holds, reply, wrapped, family, doomed>>

\* The program parses what it was told for a token or a wrapping token.
Return(id, v) ==
  /\ Settle(id, v)
  /\ IF v = "done"
     THEN /\ told' = told \cup ({reply[id]} \ {NoToken})
          /\ wrapped' = wrapped \cup
               (IF MakesWrapping(request[id].operation) THEN {id} ELSE {})
          /\ reply' = [reply EXCEPT ![id] = NoToken]
     ELSE UNCHANGED <<told, wrapped, reply>>
  /\ request' = IF v = "unknown" /\ effects[id] = 0 THEN request
                ELSE [request EXCEPT ![id] = NoRequest]
  /\ UNCHANGED <<live, line, holds, family, doomed>>

-----------------------------------------------------------------------------
(* The Vault server, external to the repository.                           *)

\* A new token, told to the caller or put into a wrapping token.
Issue(id, o, ancestors) ==
  /\ live' = live \cup {id}
  /\ line' = [line EXCEPT ![id] = ancestors \cup {id}]
  /\ IF o.noun = "WrappedToken"
     THEN holds' = [holds EXCEPT ![id] = id] /\ UNCHANGED reply
     ELSE reply' = [reply EXCEPT ![id] = id] /\ UNCHANGED holds

\* A token and its descendants.
Under(t) == {u \in AllTokens : t \in line[u]}

Revoke(ts) ==
  /\ live' = live \ ts
  /\ UNCHANGED <<line, holds, reply>>

RevokeOrphan(t) ==
  /\ t \in live
  /\ live' = live \ {t}
  /\ line' = [u \in AllTokens |-> IF u \in Under(t) \ {t} THEN line[u] \ line[t]
                                  ELSE line[u]]
  /\ UNCHANGED <<holds, reply>>

Look(t) == t \in live /\ UNCHANGED <<live, line, holds, reply>>

Unwrap(id, w) ==
  /\ holds[w] # NoToken
  /\ reply' = [reply EXCEPT ![id] = holds[w]]
  /\ holds' = [holds EXCEPT ![w] = NoToken]
  /\ UNCHANGED <<live, line>>

Rewrap(id, w) ==
  /\ holds[w] # NoToken
  /\ holds' = [holds EXCEPT ![id] = holds[w], ![w] = NoToken]
  /\ UNCHANGED <<live, line, reply>>

LookWrapping(w) ==
  /\ holds[w] # NoToken
  /\ UNCHANGED <<live, line, holds, reply>>

Effect(id, o, by, target) ==
  CASE Endpoint(o) = "create" -> Issue(id, o, line[by])
    [] Endpoint(o) = "create-orphan" -> Issue(id, o, {})
    [] Endpoint(o) \in {"lookup-self", "renew-self"} -> Look(by)
    [] Endpoint(o) \in {"lookup", "lookup-accessor", "renew", "renew-accessor"} ->
         Look(target)
    [] Endpoint(o) = "revoke-self" -> Revoke(Under(by))
    [] Endpoint(o) = "revoke" -> Revoke(Under(target))
    [] Endpoint(o) = "revoke-accessor" -> target \in live /\ Revoke(Under(target))
    [] Endpoint(o) = "revoke-orphan" -> RevokeOrphan(target)
    [] Endpoint(o) = "wrapping/unwrap" -> Unwrap(id, target)
    [] Endpoint(o) = "wrapping/rewrap" -> Rewrap(id, target)
    [] Endpoint(o) = "wrapping" -> LookWrapping(target)

\* What the name of an operation promises about the tree.
Promise(id, o, by, target) ==
  LET under(t) == {u \in AllTokens : t \in family[u]}
      orphaned == IF o.noun = "TokenAndOrphanChildren" THEN under(target) \ {target}
                  ELSE {}
  IN  /\ family' = [u \in AllTokens |->
            IF u = id /\ o.word = "create"
            THEN (IF o.noun = "TokenOrphan" THEN {id} ELSE family[by] \cup {id})
            ELSE IF u \in orphaned THEN family[u] \ family[target] ELSE family[u]]
      /\ doomed' = [doomed EXCEPT ![id] =
            IF o.word # "revoke" THEN {}
            ELSE IF o.noun = "TokenSelf" THEN under(by)
            ELSE IF o.noun = "TokenAndOrphanChildren" THEN {target}
            ELSE under(target)]

\* unwrap sends the wrapping token in place of the client's.
Serve(id) ==
  LET r == request[id]
  IN  /\ TakeEffect(id)
      /\ IsUnwrap(r.operation) \/ r.by \in live
      /\ Effect(id, r.operation, r.by, r.target)
      /\ Promise(id, r.operation, r.by, r.target)
      /\ request' = IF verdict[id] = "pending" THEN request
                    ELSE [request EXCEPT ![id] = NoRequest]
      /\ UNCHANGED <<told, wrapped>>

TreeNext ==
  \E id \in CallIds :
    \/ \E o \in Operations : \E by \in told, target \in Targets(o) :
         Call(id, o, by, target)
    \/ Serve(id)
    \/ \E v \in {"done", "refused", "unknown"} : Return(id, v)

TreeSpec == TreeInit /\ [][TreeNext]_treeVars

-----------------------------------------------------------------------------
(* Correctness.                                                            *)

\* Once the program knows that a revocation is done, no call it makes with one of
\* the tokens that were to end, or about one, succeeds: not even with a child of
\* it that was made meanwhile, or by a call in doubt.
RevokedStaysOut ==
  [][\A id \in CallIds :
       effects'[id] # effects[id] =>
         LET r == request[id]
         IN  /\ IsUnwrap(r.operation) \/ r.by \notin r.outlawed
             /\ NamesToken(r.operation) /\ r.operation.word # "revoke"
                  => r.target \notin r.outlawed]_treeVars

\* A token ends only by a revocation that says so: orphans outlive who made them,
\* and the children of a token revoked alone outlive it.
EndsAsMeant ==
  \A t \in AllTokens :
    line[t] # {} /\ t \notin live => \E c \in CallIds : t \in doomed[c]

\* Every token made is known to the program, or within a wrapping token it knows,
\* or its call is under way, or the call that last had it in hand is in doubt: its
\* HttpErrorCallback ran, or its ResponseErrorCallback with a 5xx.
NoneLeaks ==
  \A t \in live \ Given :
    \/ t \in told
    \/ \E w \in wrapped : holds[w] = t
    \/ \E c \in CallIds : /\ verdict[c] \in {"pending", "unknown"}
                          /\ reply[c] = t \/ holds[c] = t
=============================================================================
