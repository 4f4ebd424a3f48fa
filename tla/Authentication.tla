--------------------------- MODULE Authentication ---------------------------
(***************************************************************************)
(* How a Vault::Client comes by its token.  The constructor of Client runs *)
(* AuthenticationStrategy::authenticate once; the token it returns, if     *)
(* any, is the client's for life.  TokenStrategy and the copying           *)
(* constructor take a token on trust, AppRole, JWT, LDAP and TLS make one  *)
(* login request, and WrappedSecretAppRoleStrategy first unwraps a         *)
(* single-use wrapping token and then logs in with the secret id it held.  *)
(*                                                                         *)
(* Several clients are constructed at the same time, from the same secret  *)
(* id or the same wrapping token; requests and answers are delayed or lost *)
(* and a request may be carried out after its constructor has given up.    *)
(***************************************************************************)
EXTENDS Naturals, FiniteSets

CONSTANTS
  Clients,      \* clients that get constructed
  WrapTokens,   \* response-wrapping tokens, single use
  SecretIds,    \* secret ids, and the credentials of the other login methods
  Tokens,       \* tokens the server can issue
  GivenToken,   \* a token the application was handed by other means
  NoToken,      \* the empty Vault::Token
  NoSecret,     \* absence of a secret id
  Wrapped,      \* what each wrapping token holds: a secret id, or NoSecret
  SecretUses    \* how many logins a secret id is good for

ASSUME WrappedAssumption == Wrapped \in [WrapTokens -> SecretIds \cup {NoSecret}]
ASSUME UsesAssumption == SecretUses \in Nat
ASSUME DistinctAssumption ==
  /\ NoSecret \notin SecretIds
  /\ NoToken \notin Tokens /\ GivenToken \notin Tokens /\ GivenToken # NoToken
  /\ NoToken \notin Clients

VARIABLES
  strategy,    \* the strategy of each client
  pc,          \* how far its constructor is
  secret,      \* secretId of a wrapped strategy that is under way
  token,       \* Client::token_
  reports,     \* callbacks the construction has run
  wire,        \* requests and answers in flight
  unwrappedBy, \* the client whose request spent each wrapping token
  uses,        \* logins each secret id is still good for
  issuedTo,    \* the client whose login each token answered
  deferred     \* the clients whose login was accepted without a token

vars == <<strategy, pc, secret, token, reports, wire, unwrappedBy, uses,
          issuedTo, deferred>>

Strategies ==
  [kind : {"token"}, cred : {GivenToken, NoToken}] \cup
  [kind : {"login"}, cred : SecretIds] \cup
  [kind : {"wrapped"}, cred : WrapTokens] \cup
  [kind : {"derived"}, cred : {NoToken}]

Requests ==
  [type : {"unwrap"}, client : Clients, cred : WrapTokens] \cup
  [type : {"login"}, client : Clients, cred : SecretIds]

\* The answers a constructor tells apart: not 2xx; 2xx with what it looks for;
\* 2xx with an empty client_token; 2xx with a body it cannot make sense of.
Answers ==
  [type : {"answer"}, client : Clients, body : {"refused", "empty", "odd"}] \cup
  [type : {"answer"}, client : Clients, body : {"secret"}, secret : SecretIds] \cup
  [type : {"answer"}, client : Clients, body : {"token"}, token : Tokens]

InProgress == {"unwrapping", "unwrapped", "loggingIn", "reporting"}

Unissued == NoToken

Unspent == NoToken

TypeOK ==
  /\ strategy \in [Clients -> Strategies]
  /\ pc \in [Clients -> InProgress \cup {"unbuilt", "built", "threw"}]
  /\ secret \in [Clients -> SecretIds \cup {NoSecret}]
  /\ token \in [Clients -> Tokens \cup {GivenToken, NoToken}]
  /\ reports \in [Clients -> Nat]
  /\ wire \in SUBSET (Requests \cup Answers)
  /\ unwrappedBy \in [WrapTokens -> Clients \cup {Unspent}]
  /\ uses \in [SecretIds -> 0..SecretUses]
  /\ issuedTo \in [Tokens -> Clients \cup {Unissued}]
  /\ deferred \in SUBSET Clients

Init ==
  /\ strategy \in [Clients -> Strategies]
  /\ pc = [c \in Clients |-> "unbuilt"]
  /\ secret = [c \in Clients |-> NoSecret]
  /\ token = [c \in Clients |-> NoToken]
  /\ reports = [c \in Clients |-> 0]
  /\ wire = {}
  /\ unwrappedBy = [w \in WrapTokens |-> Unspent]
  /\ uses \in [SecretIds -> 0..SecretUses]
  /\ issuedTo = [k \in Tokens |-> Unissued]
  /\ deferred = {}

is_authenticated(c) == pc[c] = "built" /\ token[c] # NoToken

server == <<unwrappedBy, uses, issuedTo, deferred>>

-----------------------------------------------------------------------------
(* Constructors.  As in HttpConsumer, a name ending in _Something is the   *)
(* operator of that name with a slip in it.                                *)

\* TokenStrategy never asks the server.
BuildFromToken(c) ==
  /\ pc[c] = "unbuilt" /\ strategy[c].kind = "token"
  /\ token' = [token EXCEPT ![c] = strategy[c].cred]
  /\ pc' = [pc EXCEPT ![c] = "built"]
  /\ UNCHANGED <<strategy, secret, reports, wire, server>>

\* Client(const Client &other, Token token): the application passes a token it
\* has seen, its own or the one of another client, or an empty one.
Derive(c, other, k) ==
  /\ pc[c] = "unbuilt" /\ strategy[c].kind = "derived"
  /\ pc[other] = "built"
  /\ k \in {GivenToken, NoToken, token[other]}
  /\ token' = [token EXCEPT ![c] = k]
  /\ pc' = [pc EXCEPT ![c] = "built"]
  /\ UNCHANGED <<strategy, secret, reports, wire, server>>

SendUnwrap(c) ==
  /\ pc[c] = "unbuilt" /\ strategy[c].kind = "wrapped"
  /\ wire' = wire \cup {[type |-> "unwrap", client |-> c,
                         cred |-> strategy[c].cred]}
  /\ pc' = [pc EXCEPT ![c] = "unwrapping"]
  /\ UNCHANGED <<strategy, secret, token, reports, server>>

Login(c, s) ==
  /\ wire' = wire \cup {[type |-> "login", client |-> c, cred |-> s]}
  /\ pc' = [pc EXCEPT ![c] = "loggingIn"]
  /\ UNCHANGED <<strategy, secret, token, reports, server>>

SendLogin(c) ==
  /\ pc[c] = "unbuilt" /\ strategy[c].kind = "login"
  /\ Login(c, strategy[c].cred)

\* The constructor is over: the strategy has returned, or an exception has left
\* it, and the secret id it had unwrapped is gone with its frame.
Leave(c, end) ==
  /\ pc' = [pc EXCEPT ![c] = end]
  /\ secret' = [secret EXCEPT ![c] = NoSecret]

\* The producer of the login's body, which all methods but TLS have: dump throws
\* on a credential, or a role that goes with it, that is not UTF-8.
BodyThrows(c) ==
  /\ Leave(c, "threw")
  /\ UNCHANGED <<strategy, token, reports, wire, server>>

LoginThrows(c) ==
  /\ pc[c] = "unbuilt" /\ strategy[c].kind = "login"
  /\ BodyThrows(c)

SendLoginWithSecret_Cached(c) ==
  /\ strategy[c].kind = "wrapped" /\ pc[c] \in {"unbuilt", "unwrapped"}
  /\ \E d \in Clients : /\ strategy[d] = strategy[c] /\ secret[d] # NoSecret
                        /\ Login(c, secret[d])

SendLoginWithSecret(c) ==
  /\ pc[c] = "unwrapped"
  /\ Login(c, secret[c])

LoginWithSecretThrows(c) ==
  /\ pc[c] = "unwrapped"
  /\ BodyThrows(c)

AnswerTo_SharedHandle(c, m) == m \in wire /\ m.type = "answer"

\* The answer the client's own CurlWrapper has read.
AnswerTo(c, m) == m \in wire /\ m.type = "answer" /\ m.client = c

Take(c, m) == AnswerTo(c, m) /\ wire' = wire \ {m}

ReceiveSecret(c, m) ==
  /\ pc[c] = "unwrapping" /\ Take(c, m) /\ m.body = "secret"
  /\ secret' = [secret EXCEPT ![c] = m.secret]
  /\ pc' = [pc EXCEPT ![c] = "unwrapped"]
  /\ UNCHANGED <<strategy, token, reports, server>>

ReceiveToken_Missing(c, m) ==
  /\ pc[c] = "loggingIn" /\ Take(c, m) /\ m.body \in {"token", "empty"}
  /\ token' = [token EXCEPT ![c] = IF m.body = "token" THEN m.token ELSE NoSecret]
  /\ Leave(c, "built")
  /\ UNCHANGED <<strategy, reports, server>>

ReceiveToken(c, m) ==
  /\ pc[c] = "loggingIn" /\ Take(c, m) /\ m.body \in {"token", "empty"}
  /\ token' = [token EXCEPT ![c] = IF m.body = "token" THEN m.token ELSE NoToken]
  /\ Leave(c, "built")
  /\ UNCHANGED <<strategy, reports, server>>

\* json::parse, or the conversion of what it found to a string, throws; the
\* exception leaves the constructor and there is no client.
ReceiveOdd(c, m) ==
  /\ pc[c] \in {"unwrapping", "loggingIn"} /\ Take(c, m) /\ m.body = "odd"
  /\ Leave(c, "threw")
  /\ UNCHANGED <<strategy, token, reports, server>>

Report(c) ==
  /\ reports' = [reports EXCEPT ![c] = @ + 1]
  /\ pc' = [pc EXCEPT ![c] = "reporting"]
  /\ UNCHANGED <<strategy, secret, token, server>>

ReceiveRefusal_Unreported(c, m) ==
  /\ pc[c] \in {"unwrapping", "loggingIn"} /\ Take(c, m) /\ m.body = "refused"
  /\ Leave(c, "built")
  /\ UNCHANGED <<strategy, token, reports, server>>

ReceiveRefusal(c, m) ==
  /\ pc[c] \in {"unwrapping", "loggingIn"} /\ Take(c, m) /\ m.body = "refused"
  /\ Report(c)

GiveUp_Unreported(c) ==
  /\ pc[c] \in {"unwrapping", "loggingIn"}
  /\ wire' = {m \in wire : ~(m.type = "answer" /\ m.client = c)}
  /\ Leave(c, "built")
  /\ UNCHANGED <<strategy, token, reports, server>>

GiveUp_Forever(c) == FALSE /\ UNCHANGED vars

\* The request times out or the connection fails; the answer, if it comes, is
\* not read.
GiveUp(c) ==
  /\ pc[c] \in {"unwrapping", "loggingIn"}
  /\ wire' = {m \in wire : ~(m.type = "answer" /\ m.client = c)}
  /\ Report(c)

\* A callback comes back, and the constructor finishes without a token; or it
\* throws through the constructor.
EndReport(c, end) ==
  /\ pc[c] = "reporting" /\ end \in {"built", "threw"}
  /\ Leave(c, end)
  /\ UNCHANGED <<strategy, token, reports, wire, server>>

-----------------------------------------------------------------------------
(* The Vault server and the network, external to the repository.           *)

\* The constructor that sent m still waits for the answer: its connection is
\* open, and a second request is sent only after the first was answered.
Reply(m, a) ==
  LET open == pc[m.client] =
                (IF m.type = "unwrap" THEN "unwrapping" ELSE "loggingIn")
  IN  wire' = (wire \ {m}) \cup (IF open THEN {a} ELSE {})

Answer(m, body) == [type |-> "answer", client |-> m.client, body |-> body]

Unwrap(m) ==
  /\ m \in wire /\ m.type = "unwrap" /\ unwrappedBy[m.cred] = Unspent
  /\ unwrappedBy' = [unwrappedBy EXCEPT ![m.cred] = m.client]
  /\ Reply(m, IF Wrapped[m.cred] = NoSecret THEN Answer(m, "odd")
              ELSE [type |-> "answer", client |-> m.client, body |-> "secret",
                    secret |-> Wrapped[m.cred]])
  /\ UNCHANGED <<strategy, pc, secret, token, reports, uses, issuedTo, deferred>>

\* A login that is accepted uses the credential up once and issues a token.  The
\* answer may be one the strategy cannot read: a wrapped response, for one.
Issue(m, k, readable) ==
  /\ m \in wire /\ m.type = "login" /\ uses[m.cred] > 0
  /\ issuedTo[k] = Unissued
  /\ uses' = [uses EXCEPT ![m.cred] = @ - 1]
  /\ issuedTo' = [issuedTo EXCEPT ![k] = m.client]
  /\ Reply(m, IF readable THEN [type |-> "answer", client |-> m.client,
                               body |-> "token", token |-> k]
              ELSE Answer(m, "odd"))
  /\ UNCHANGED <<strategy, pc, secret, token, reports, unwrappedBy, deferred>>

\* A login the server accepts without issuing a token: it wants a second factor,
\* and its client_token is empty.
Defer(m) ==
  /\ m \in wire /\ m.type = "login" /\ uses[m.cred] > 0
  /\ uses' = [uses EXCEPT ![m.cred] = @ - 1]
  /\ deferred' = deferred \cup {m.client}
  /\ Reply(m, Answer(m, "empty"))
  /\ UNCHANGED <<strategy, pc, secret, token, reports, unwrappedBy, issuedTo>>

\* The server may refuse anything: a spent credential, a sealed vault, overload.
Refuse(m) ==
  /\ m \in wire /\ m.type \in {"unwrap", "login"}
  /\ Reply(m, Answer(m, "refused"))
  /\ UNCHANGED <<strategy, pc, secret, token, reports, server>>

Lose(m) ==
  /\ m \in wire /\ wire' = wire \ {m}
  /\ UNCHANGED <<strategy, pc, secret, token, reports, server>>

-----------------------------------------------------------------------------
Construct(c) ==
  \/ BuildFromToken(c)
  \/ \E other \in Clients, k \in Tokens \cup {GivenToken, NoToken} :
       Derive(c, other, k)
  \/ SendUnwrap(c)
  \/ SendLogin(c)
  \/ LoginThrows(c)

\* What a constructor does once it has a request out.
Continue(c) ==
  \/ SendLoginWithSecret(c)
  \/ LoginWithSecretThrows(c)
  \/ \E m \in wire : \/ ReceiveSecret(c, m) \/ ReceiveToken(c, m)
                     \/ ReceiveOdd(c, m) \/ ReceiveRefusal(c, m)
  \/ GiveUp(c)
  \/ \E end \in {"built", "threw"} : EndReport(c, end)

Server ==
  \E m \in wire :
    \/ Unwrap(m)
    \/ \E k \in Tokens, readable \in BOOLEAN : Issue(m, k, readable)
    \/ Defer(m)
    \/ Refuse(m)
    \/ Lose(m)

Next ==
  \/ \E c \in Clients : Construct(c) \/ Continue(c)
  \/ Server

Spec == Init /\ [][Next]_vars

\* The constructing threads run, and libcurl's default timeouts are armed.
FairSpec == Spec /\ \A c \in Clients : WF_vars(Continue(c))

-----------------------------------------------------------------------------
(* Correctness.                                                            *)

\* A client that logged in holds a token the server issued to its own login,
\* so no two of them hold the same one, however their logins interleave.
OwnToken ==
  \A c \in Clients :
    is_authenticated(c) /\ strategy[c].kind \in {"login", "wrapped"}
      => issuedTo[token[c]] = c

\* A wrapping token makes at most one client: a second constructor, or a second
\* process, given the same token ends up without one.
OneClientPerWrap ==
  \A c, d \in Clients :
    /\ is_authenticated(c) /\ strategy[c].kind = "wrapped"
    /\ is_authenticated(d) /\ strategy[d].kind = "wrapped"
    /\ strategy[c].cred = strategy[d].cred
    => c = d

\* A token the server has issued is held by the client it was issued to, or is on
\* its way, or the constructor has run a callback or thrown: none is lost in
\* silence.
LostTokenReported ==
  \A k \in Tokens :
    issuedTo[k] # Unissued =>
      LET c == issuedTo[k]
      IN  token[c] = k \/ pc[c] \in {"loggingIn", "threw"} \/ reports[c] = 1

\* The constructor whose request spent a wrapping token has what the token held
\* while it goes on, and ends authenticated, or by an exception, or having run a
\* callback.  The one other end is the login that was accepted without a token:
\* the secret id is gone then, and nobody was told.
LostSecretReported ==
  \A w \in WrapTokens :
    unwrappedBy[w] # Unspent =>
      LET c == unwrappedBy[w]
      IN  \/ pc[c] = "unwrapping"
          \/ pc[c] \in {"unwrapped", "loggingIn"} /\ secret[c] = Wrapped[w]
          \/ is_authenticated(c)
          \/ pc[c] = "threw"
          \/ reports[c] = 1
          \/ c \in deferred

\* A constructor that logged in, left no token and ran no callback was answered
\* with an empty client_token; and one that was answered so has no token.
SilentFailure ==
  \A c \in Clients :
    /\ pc[c] = "built" /\ strategy[c].kind \in {"login", "wrapped"}
    /\ reports[c] = 0
    => (token[c] = NoToken <=> c \in deferred)

\* Every constructor that has sent something finishes or throws.
ConstructionEnds ==
  \A c \in Clients : pc[c] \in InProgress ~> pc[c] \in {"built", "threw"}
=============================================================================
