----------------------- MODULE Authentication_proofs -----------------------
(***************************************************************************)
(* Proofs about Authentication, for any clients, wrapping tokens, secret   *)
(* ids and tokens: who holds a token or a secret id, and what is known of  *)
(* one that got lost, follow from what each message on the wire implies.   *)
(***************************************************************************)
EXTENDS Authentication, TLAPS

\* The strategy of a client, and its credential.
Kind(c) == strategy[c].kind

Cred(c) == strategy[c].cred

\* The server has issued a token to the client.
Issued(c) == \E k \in Tokens : issuedTo[k] = c

\* What the progress of a constructor implies about its client.
Stage(c) ==
  /\ pc[c] \in {"unbuilt", "unwrapping", "unwrapped", "loggingIn"}
       => reports[c] = 0 /\ token[c] = NoToken
  /\ pc[c] = "reporting" => reports[c] = 1 /\ token[c] = NoToken
  /\ pc[c] \in {"unwrapping", "unwrapped"} => Kind(c) = "wrapped"
  /\ pc[c] \in {"loggingIn", "reporting"} => Kind(c) \in {"login", "wrapped"}
  /\ pc[c] \notin {"unwrapped", "loggingIn", "reporting"} => secret[c] = NoSecret
  /\ pc[c] = "unwrapped" => secret[c] # NoSecret
  /\ pc[c] \in {"unbuilt", "unwrapping", "unwrapped"}
       => c \notin deferred /\ ~Issued(c)

\* A secret id comes from the wrapping token that the client's own request has
\* spent, and a client of that strategy does not log in without one.
Unwrapped(c) ==
  /\ secret[c] # NoSecret =>
       /\ Kind(c) = "wrapped" /\ secret[c] = Wrapped[Cred(c)]
       /\ unwrappedBy[Cred(c)] = c
  /\ Kind(c) = "wrapped" /\ pc[c] = "loggingIn" => secret[c] # NoSecret
  /\ Kind(c) = "wrapped" /\ token[c] # NoToken => unwrappedBy[Cred(c)] = c

\* A wrapping token is spent by a client that was given it.
Spender ==
  \A w \in WrapTokens :
    unwrappedBy[w] # Unspent =>
      Kind(unwrappedBy[w]) = "wrapped" /\ Cred(unwrappedBy[w]) = w

\* A request on the wire was not answered: its constructor waits, or has given up
\* and reported it.
UnwrapRequest(m) ==
  m.type = "unwrap" =>
    /\ pc[m.client] \in {"unwrapping", "reporting", "built", "threw"}
    /\ pc[m.client] = "built" => reports[m.client] = 1
    /\ Kind(m.client) = "wrapped" /\ m.cred = Cred(m.client)

LoginRequest(m) ==
  m.type = "login" =>
    /\ pc[m.client] \in {"loggingIn", "reporting", "built", "threw"}
    /\ pc[m.client] = "built" => reports[m.client] = 1
    /\ m.client \notin deferred /\ ~Issued(m.client)

\* An answer on the wire belongs to the request its constructor waits with, and
\* tells what the server has done.
AnswerOnWire(m) ==
  m.type = "answer" =>
    /\ pc[m.client] \in {"unwrapping", "loggingIn"}
    /\ m.body = "secret" =>
         /\ pc[m.client] = "unwrapping"
         /\ m.secret = Wrapped[Cred(m.client)] /\ m.secret # NoSecret
         /\ unwrappedBy[Cred(m.client)] = m.client
    /\ m.body = "token" =>
         /\ pc[m.client] = "loggingIn"
         /\ issuedTo[m.token] = m.client /\ m.client \notin deferred
         /\ \A k \in Tokens : issuedTo[k] = m.client => k = m.token
    /\ m.body = "empty" =>
         pc[m.client] = "loggingIn" /\ m.client \in deferred /\ ~Issued(m.client)

\* What every message implies.
Messages ==
  \A m \in wire : UnwrapRequest(m) /\ LoginRequest(m) /\ AnswerOnWire(m)

\* A client waits for one answer at a time.
OneMessage == \A m, n \in wire : m.client = n.client => m = n

\* The inductive invariant.
IInv ==
  /\ TypeOK
  /\ \A c \in Clients : Stage(c) /\ Unwrapped(c)
  /\ Messages
  /\ OneMessage
  /\ Spender
  /\ OwnToken
  /\ LostTokenReported
  /\ LostSecretReported
  /\ SilentFailure

\* The types of what messages carry.
LEMMA MessageTypes ==
  ASSUME TypeOK, NEW m \in wire
  PROVE  /\ m.client \in Clients
         /\ m \in Requests \cup Answers
         /\ m.type = "unwrap" => m.cred \in WrapTokens
         /\ m.type = "login" => m.cred \in SecretIds
         /\ m.type = "answer" /\ m.body = "secret" => m.secret \in SecretIds
         /\ m.type = "answer" /\ m.body = "token" => m.token \in Tokens
BY DEF TypeOK, Requests, Answers

\* The types of credentials.
LEMMA StrategyTypes ==
  ASSUME TypeOK, NEW c \in Clients
  PROVE  /\ Kind(c) = "wrapped" => Cred(c) \in WrapTokens
         /\ Kind(c) = "login" => Cred(c) \in SecretIds
         /\ Kind(c) = "token" => Cred(c) \in {GivenToken, NoToken}
BY DEF TypeOK, Strategies, Kind, Cred

\* Every step keeps the types.
LEMMA TypeStep ==
  ASSUME TypeOK, \A c \in Clients : Stage(c), [Next]_vars
  PROVE  TypeOK'
<1> USE DEF TypeOK, InProgress, server
<1>1. ASSUME NEW c \in Clients, BuildFromToken(c) PROVE TypeOK'
  BY <1>1 DEF BuildFromToken, Strategies
<1>2. ASSUME NEW c \in Clients, NEW other \in Clients,
             NEW k \in Tokens \cup {GivenToken, NoToken}, Derive(c, other, k)
      PROVE  TypeOK'
  BY <1>2 DEF Derive
<1>3. ASSUME NEW c \in Clients, SendUnwrap(c) PROVE TypeOK'
  <2>1. [type |-> "unwrap", client |-> c, cred |-> strategy[c].cred] \in Requests
    BY <1>3, StrategyTypes DEF SendUnwrap, Requests, Kind, Cred
  <2> QED BY <1>3, <2>1 DEF SendUnwrap
<1>4. ASSUME NEW c \in Clients, SendLogin(c) PROVE TypeOK'
  <2>1. [type |-> "login", client |-> c, cred |-> strategy[c].cred] \in Requests
    BY <1>4, StrategyTypes DEF SendLogin, Requests, Kind, Cred
  <2> QED BY <1>4, <2>1 DEF SendLogin, Login
<1>13. ASSUME NEW c \in Clients, LoginThrows(c) \/ LoginWithSecretThrows(c)
       PROVE  TypeOK'
  BY <1>13 DEF LoginThrows, LoginWithSecretThrows, BodyThrows, Leave
<1>5. ASSUME NEW c \in Clients, Continue(c) PROVE TypeOK'
  <2>1. CASE SendLoginWithSecret(c)
    <3>1. [type |-> "login", client |-> c, cred |-> secret[c]] \in Requests
      BY <2>1 DEF SendLoginWithSecret, Requests, Stage
    <3> QED BY <2>1, <3>1 DEF SendLoginWithSecret, Login
  <2>2. ASSUME NEW m \in wire, ReceiveSecret(c, m) PROVE TypeOK'
    <3>1. m.secret \in SecretIds
      BY <2>2, MessageTypes DEF ReceiveSecret, Take, AnswerTo
    <3> QED BY <2>2, <3>1 DEF ReceiveSecret, Take
  <2>3. ASSUME NEW m \in wire, ReceiveToken(c, m) PROVE TypeOK'
    <3>1. m.body = "token" => m.token \in Tokens
      BY <2>3, MessageTypes DEF ReceiveToken, Leave, Take, AnswerTo
    <3> QED BY <2>3, <3>1 DEF ReceiveToken, Leave, Take
  <2>4. ASSUME NEW m \in wire, ReceiveOdd(c, m) PROVE TypeOK'
    BY <2>4 DEF ReceiveOdd, Leave, Take
  <2>5. ASSUME NEW m \in wire, ReceiveRefusal(c, m) PROVE TypeOK'
    BY <2>5 DEF ReceiveRefusal, Take, Report
  <2>6. CASE GiveUp(c)
    BY <2>6 DEF GiveUp, Report
  <2>7. ASSUME NEW end \in {"built", "threw"}, EndReport(c, end) PROVE TypeOK'
    BY <2>7 DEF EndReport, Leave
  <2> QED
    BY <1>5, <1>13, <2>1, <2>2, <2>3, <2>4, <2>5, <2>6, <2>7 DEF Continue
<1>6. ASSUME NEW m \in wire, NEW a \in Answers, Reply(m, a)
      PROVE  wire' \in SUBSET (Requests \cup Answers)
  BY <1>6 DEF Reply
<1>7. ASSUME NEW m \in wire, Unwrap(m) PROVE TypeOK'
  <2> DEFINE a == IF Wrapped[m.cred] = NoSecret THEN Answer(m, "odd")
                  ELSE [type |-> "answer", client |-> m.client, body |-> "secret",
                        secret |-> Wrapped[m.cred]]
  <2>1. m.client \in Clients /\ m.cred \in WrapTokens
    BY <1>7, MessageTypes DEF Unwrap
  <2>2. a \in Answers
    BY <2>1, WrappedAssumption DEF Answers, Answer
  <2>3. Reply(m, a)
    BY <1>7 DEF Unwrap
  <2>4. wire' \in SUBSET (Requests \cup Answers)
    BY <1>6, <2>2, <2>3
  <2>5. unwrappedBy' \in [WrapTokens -> Clients \cup {Unspent}]
    BY <1>7, <2>1 DEF Unwrap
  <2> QED BY <1>7, <2>4, <2>5 DEF Unwrap
<1>8. ASSUME NEW m \in wire, NEW k \in Tokens, NEW readable \in BOOLEAN,
             Issue(m, k, readable)
      PROVE  TypeOK'
  <2> DEFINE a == IF readable THEN [type |-> "answer", client |-> m.client,
                                    body |-> "token", token |-> k]
                  ELSE Answer(m, "odd")
  <2>1. m.client \in Clients /\ m.cred \in SecretIds
    BY <1>8, MessageTypes DEF Issue
  <2>2. a \in Answers
    BY <2>1 DEF Answers, Answer
  <2>3. Reply(m, a)
    BY <1>8 DEF Issue
  <2>4. wire' \in SUBSET (Requests \cup Answers)
    BY <1>6, <2>2, <2>3
  <2>5. uses' \in [SecretIds -> 0..SecretUses]
    BY <1>8, <2>1, UsesAssumption DEF Issue
  <2> QED BY <1>8, <2>1, <2>4, <2>5 DEF Issue
<1>9. ASSUME NEW m \in wire, Defer(m) PROVE TypeOK'
  <2>1. m.client \in Clients /\ m.cred \in SecretIds
    BY <1>9, MessageTypes DEF Defer
  <2>2. Answer(m, "empty") \in Answers
    BY <2>1 DEF Answers, Answer
  <2>3. wire' \in SUBSET (Requests \cup Answers)
    BY <1>9, <1>6, <2>2 DEF Defer
  <2>4. uses' \in [SecretIds -> 0..SecretUses]
    BY <1>9, <2>1, UsesAssumption DEF Defer
  <2> QED BY <1>9, <2>1, <2>3, <2>4 DEF Defer
<1>10. ASSUME NEW m \in wire, Refuse(m) PROVE TypeOK'
  <2>1. Answer(m, "refused") \in Answers
    BY MessageTypes DEF Answers, Answer
  <2>2. wire' \in SUBSET (Requests \cup Answers)
    BY <1>10, <1>6, <2>1 DEF Refuse
  <2> QED BY <1>10, <2>2 DEF Refuse
<1>11. ASSUME NEW m \in wire, Lose(m) PROVE TypeOK'
  BY <1>11 DEF Lose
<1>12. CASE UNCHANGED vars
  BY <1>12 DEF vars
<1> QED
  BY <1>1, <1>2, <1>3, <1>4, <1>5, <1>7, <1>8, <1>9, <1>10, <1>11, <1>12, <1>13
  DEF Next, Construct, Server

\* The types the steps need, of messages and of variables.
WireTypes ==
  \A m \in wire :
    /\ m.client \in Clients
    /\ m.type \in {"unwrap", "login", "answer"}
    /\ m.type = "unwrap" => m.cred \in WrapTokens
    /\ m.type = "login" => m.cred \in SecretIds
    /\ m.type = "answer" => m.body \in {"refused", "empty", "odd", "secret", "token"}
    /\ m.type = "answer" /\ m.body = "secret" => m.secret \in SecretIds
    /\ m.type = "answer" /\ m.body = "token" => m.token \in Tokens

VarTypes ==
  /\ pc \in [Clients -> InProgress \cup {"unbuilt", "built", "threw"}]
  /\ secret \in [Clients -> SecretIds \cup {NoSecret}]
  /\ token \in [Clients -> Tokens \cup {GivenToken, NoToken}]
  /\ reports \in [Clients -> Nat]
  /\ issuedTo \in [Tokens -> Clients \cup {NoToken}]
  /\ unwrappedBy \in [WrapTokens -> Clients \cup {NoToken}]
  /\ \A c \in Clients : Kind(c) \in {"token", "login", "wrapped", "derived"}
  /\ \A c \in Clients : Kind(c) = "wrapped" => Cred(c) \in WrapTokens

\* They follow from TypeOK.
LEMMA TypeFacts == TypeOK => WireTypes /\ VarTypes
<1> SUFFICES ASSUME TypeOK PROVE WireTypes /\ VarTypes
  OBVIOUS
<1>1. WireTypes
  BY DEF TypeOK, WireTypes, Requests, Answers
<1>2. VarTypes
  BY DEF TypeOK, VarTypes, Strategies, Kind, Cred, Unissued, Unspent
<1> QED BY <1>1, <1>2

\* A client of TokenStrategy makes no request.
LEMMA BuildFromTokenStep ==
  ASSUME IInv, TypeOK', NEW c \in Clients, BuildFromToken(c)
  PROVE  IInv'
<1>1. WireTypes /\ VarTypes
  BY TypeFacts DEF IInv
<1>2. \A d \in Clients : Stage(d)' /\ Unwrapped(d)'
  BY <1>1
  DEF BuildFromToken, server, IInv, Stage, Unwrapped, Issued, Kind, Cred,
      VarTypes
<1>3. Messages'
  BY DEF BuildFromToken, server, IInv, Issued, Kind, Cred, Messages,
         UnwrapRequest, LoginRequest, AnswerOnWire
<1>4. OneMessage'
  BY DEF BuildFromToken, IInv, OneMessage
<1>5. Spender'
  BY DEF BuildFromToken, server, IInv, Spender, Kind, Cred
<1>6. OwnToken'
  BY DEF BuildFromToken, server, IInv, OwnToken, is_authenticated
<1>7. LostTokenReported'
  BY DistinctAssumption
  DEF BuildFromToken, server, IInv, LostTokenReported, Stage
<1>8. LostSecretReported'
  BY DEF BuildFromToken, server, IInv, LostSecretReported, is_authenticated
<1>9. SilentFailure'
  BY DEF BuildFromToken, server, IInv, SilentFailure
<1> QED BY <1>2, <1>3, <1>4, <1>5, <1>6, <1>7, <1>8, <1>9 DEF IInv

\* A derived client takes the token it is given.
LEMMA DeriveStep ==
  ASSUME IInv, TypeOK', NEW c \in Clients, NEW other \in Clients,
         NEW k \in Tokens \cup {GivenToken, NoToken},
         Derive(c, other, k)
  PROVE  IInv'
<1>1. WireTypes /\ VarTypes
  BY TypeFacts DEF IInv
<1>2. \A d \in Clients : Stage(d)' /\ Unwrapped(d)'
  BY <1>1
  DEF Derive, server, IInv, Stage, Unwrapped, Issued, Kind, Cred, VarTypes
<1>3. Messages'
  BY DEF Derive, server, IInv, Issued, Kind, Cred, Messages, UnwrapRequest,
         LoginRequest, AnswerOnWire
<1>4. OneMessage'
  BY DEF Derive, IInv, OneMessage
<1>5. Spender'
  BY DEF Derive, server, IInv, Spender, Kind, Cred
<1>6. OwnToken'
  BY DEF Derive, server, IInv, OwnToken, is_authenticated
<1>7. LostTokenReported'
  BY DistinctAssumption DEF Derive, server, IInv, LostTokenReported, Stage
<1>8. LostSecretReported'
  BY DEF Derive, server, IInv, LostSecretReported, is_authenticated
<1>9. SilentFailure'
  BY DEF Derive, server, IInv, SilentFailure
<1> QED BY <1>2, <1>3, <1>4, <1>5, <1>6, <1>7, <1>8, <1>9 DEF IInv

\* The first request of a wrapped secret: its client has no other on the wire.
LEMMA SendUnwrapStep ==
  ASSUME IInv, TypeOK', NEW c \in Clients, SendUnwrap(c)
  PROVE  IInv'
<1>1. WireTypes /\ VarTypes
  BY TypeFacts DEF IInv
<1>2. \A d \in Clients : Stage(d)' /\ Unwrapped(d)'
  BY DEF SendUnwrap, server, IInv, Stage, Unwrapped, Issued, Kind, Cred
<1>3. Messages'
  BY <1>1
  DEF SendUnwrap, server, IInv, Stage, Issued, Kind, Cred, Messages,
      UnwrapRequest, LoginRequest, AnswerOnWire, VarTypes
<1>4. OneMessage'
  BY <1>1
  DEF SendUnwrap, IInv, OneMessage, Messages, UnwrapRequest, LoginRequest,
      AnswerOnWire, WireTypes
<1>5. Spender'
  BY DEF SendUnwrap, server, IInv, Spender, Kind, Cred
<1>6. OwnToken'
  BY DEF SendUnwrap, server, IInv, OwnToken, is_authenticated
<1>7. LostTokenReported'
  BY DEF SendUnwrap, server, IInv, LostTokenReported
<1>8. LostSecretReported'
  BY DEF SendUnwrap, server, IInv, LostSecretReported, is_authenticated
<1>9. SilentFailure'
  BY DEF SendUnwrap, server, IInv, SilentFailure
<1> QED BY <1>2, <1>3, <1>4, <1>5, <1>6, <1>7, <1>8, <1>9 DEF IInv

\* The request of the strategies that log in at once.
LEMMA SendLoginStep ==
  ASSUME IInv, TypeOK', NEW c \in Clients, SendLogin(c)
  PROVE  IInv'
<1>1. WireTypes /\ VarTypes
  BY TypeFacts DEF IInv
<1>2. \A d \in Clients : Stage(d)' /\ Unwrapped(d)'
  BY DEF SendLogin, server, Login, IInv, Stage, Unwrapped, Issued, Kind, Cred
<1>3. Messages'
  BY <1>1
  DEF SendLogin, server, Login, IInv, Stage, Issued, Kind, Cred, Messages,
      UnwrapRequest, LoginRequest, AnswerOnWire, VarTypes
<1>4. OneMessage'
  BY <1>1
  DEF SendLogin, Login, IInv, OneMessage, Messages, UnwrapRequest, LoginRequest,
      AnswerOnWire, WireTypes
<1>5. Spender'
  BY DEF SendLogin, Login, server, IInv, Spender, Kind, Cred
<1>6. OwnToken'
  BY DEF SendLogin, server, Login, IInv, OwnToken, is_authenticated
<1>7. LostTokenReported'
  BY DEF SendLogin, server, Login, IInv, LostTokenReported
<1>8. LostSecretReported'
  BY DEF SendLogin, server, Login, IInv, LostSecretReported, is_authenticated
<1>9. SilentFailure'
  BY DEF SendLogin, server, Login, IInv, SilentFailure
<1> QED BY <1>2, <1>3, <1>4, <1>5, <1>6, <1>7, <1>8, <1>9 DEF IInv

\* The login's body cannot be written: the constructor throws.
LEMMA LoginThrowsStep ==
  ASSUME IInv, TypeOK', NEW c \in Clients,
         LoginThrows(c) \/ LoginWithSecretThrows(c)
  PROVE  IInv'
<1>1. WireTypes /\ VarTypes
  BY TypeFacts DEF IInv
<1>2. /\ pc[c] \in {"unbuilt", "unwrapped"}
      /\ pc' = [pc EXCEPT ![c] = "threw"]
      /\ secret' = [secret EXCEPT ![c] = NoSecret]
      /\ UNCHANGED <<strategy, token, reports, wire, unwrappedBy, uses, issuedTo,
                     deferred>>
  BY DEF LoginThrows, LoginWithSecretThrows, BodyThrows, Leave, server
<1>3. \A d \in Clients : Stage(d)' /\ Unwrapped(d)'
  BY <1>1, <1>2 DEF IInv, Stage, Unwrapped, Issued, Kind, Cred, VarTypes
<1>4. Messages'
  BY <1>1, <1>2
  DEF IInv, Issued, Kind, Cred, Messages, UnwrapRequest, LoginRequest,
      AnswerOnWire, WireTypes, VarTypes
<1>5. OneMessage'
  BY <1>2 DEF IInv, OneMessage
<1>6. Spender'
  BY <1>2 DEF IInv, Spender, Kind, Cred
<1>7. OwnToken'
  BY <1>1, <1>2 DEF IInv, OwnToken, is_authenticated, VarTypes
<1>8. LostTokenReported'
  BY <1>1, <1>2 DEF IInv, LostTokenReported, VarTypes
<1>9. LostSecretReported'
  BY <1>1, <1>2 DEF IInv, LostSecretReported, is_authenticated, VarTypes
<1>10. SilentFailure'
  BY <1>1, <1>2 DEF IInv, SilentFailure, VarTypes
<1> QED BY <1>3, <1>4, <1>5, <1>6, <1>7, <1>8, <1>9, <1>10 DEF IInv

\* The second request of a wrapped secret.
LEMMA SendLoginWithSecretStep ==
  ASSUME IInv, TypeOK', NEW c \in Clients, SendLoginWithSecret(c)
  PROVE  IInv'
<1>1. WireTypes /\ VarTypes
  BY TypeFacts DEF IInv
<1>2. \A d \in Clients : Stage(d)' /\ Unwrapped(d)'
  BY DEF SendLoginWithSecret, server, Login, IInv, Stage, Unwrapped, Issued,
         Kind, Cred
<1>3. Messages'
  BY <1>1
  DEF SendLoginWithSecret, server, Login, IInv, Stage, Issued, Kind, Cred,
      Messages, UnwrapRequest, LoginRequest, AnswerOnWire, VarTypes
<1>4. OneMessage'
  BY <1>1
  DEF SendLoginWithSecret, Login, IInv, OneMessage, Messages, UnwrapRequest,
      LoginRequest, AnswerOnWire, WireTypes
<1>5. Spender'
  BY DEF SendLoginWithSecret, Login, server, IInv, Spender, Kind, Cred
<1>6. OwnToken'
  BY DEF SendLoginWithSecret, server, Login, IInv, OwnToken, is_authenticated
<1>7. LostTokenReported'
  BY DEF SendLoginWithSecret, server, Login, IInv, LostTokenReported
<1>8. LostSecretReported'
  BY DEF SendLoginWithSecret, server, Login, IInv, LostSecretReported, is_authenticated
<1>9. SilentFailure'
  BY DEF SendLoginWithSecret, server, Login, IInv, SilentFailure
<1> QED BY <1>2, <1>3, <1>4, <1>5, <1>6, <1>7, <1>8, <1>9 DEF IInv

\* An unwrap answered: the secret moves from the wire to the client.
LEMMA ReceiveSecretStep ==
  ASSUME IInv, TypeOK', NEW c \in Clients, NEW m \in wire, ReceiveSecret(c, m)
  PROVE  IInv'
<1>1. WireTypes /\ VarTypes
  BY TypeFacts DEF IInv
<1>2. \A d \in Clients : Stage(d)' /\ Unwrapped(d)'
  BY <1>1, DistinctAssumption
  DEF ReceiveSecret, server, Take, AnswerTo, IInv, Stage, Unwrapped, Issued,
      Kind, Cred, Messages, AnswerOnWire, WireTypes, VarTypes
<1>3. Messages'
  BY DEF ReceiveSecret, server, Take, AnswerTo, IInv, Issued, Kind, Cred,
         Messages, OneMessage, UnwrapRequest, LoginRequest, AnswerOnWire
<1>4. OneMessage'
  BY DEF ReceiveSecret, Take, IInv, OneMessage
<1>5. Spender'
  BY DEF ReceiveSecret, server, IInv, Spender, Kind, Cred
<1>6. OwnToken'
  BY DEF ReceiveSecret, server, IInv, OwnToken, is_authenticated
<1>7. LostTokenReported'
  BY DEF ReceiveSecret, server, IInv, LostTokenReported
<1>8. LostSecretReported'
  BY <1>1, DistinctAssumption
  DEF ReceiveSecret, server, Take, AnswerTo, IInv, LostSecretReported,
      is_authenticated, Messages, AnswerOnWire, Spender, Stage, Unspent, Cred,
      WireTypes, VarTypes
<1>9. SilentFailure'
  BY DEF ReceiveSecret, server, IInv, SilentFailure
<1> QED BY <1>2, <1>3, <1>4, <1>5, <1>6, <1>7, <1>8, <1>9 DEF IInv

\* A login answered: the client has the token, or an empty one.
LEMMA ReceiveTokenStep ==
  ASSUME IInv, TypeOK', NEW c \in Clients, NEW m \in wire, ReceiveToken(c, m)
  PROVE  IInv'
<1>1. WireTypes /\ VarTypes
  BY TypeFacts DEF IInv
<1>2. \A d \in Clients : Stage(d)' /\ Unwrapped(d)'
  BY <1>1
  DEF ReceiveToken, Leave, server, IInv, Stage, Unwrapped, Issued, Kind, Cred,
      VarTypes
<1>3. Messages'
  BY DEF ReceiveToken, Leave, server, Take, AnswerTo, IInv, Issued, Kind, Cred,
         Messages, OneMessage, UnwrapRequest, LoginRequest, AnswerOnWire
<1>4. OneMessage'
  BY DEF ReceiveToken, Leave, Take, IInv, OneMessage
<1>5. Spender'
  BY DEF ReceiveToken, Leave, server, IInv, Spender, Kind, Cred
<1>6. OwnToken'
  BY <1>1
  DEF ReceiveToken, Leave, server, Take, AnswerTo, IInv, OwnToken,
      is_authenticated, Messages, AnswerOnWire, VarTypes
<1>7. LostTokenReported'
  BY <1>1
  DEF ReceiveToken, Leave, server, Take, AnswerTo, IInv, LostTokenReported,
      Messages, AnswerOnWire, Issued, VarTypes
<1>8. LostSecretReported'
  BY <1>1, DistinctAssumption
  DEF ReceiveToken, Leave, server, Take, AnswerTo, IInv, LostSecretReported,
      is_authenticated, Messages, AnswerOnWire, Unspent, WireTypes, VarTypes
<1>9. SilentFailure'
  BY <1>1, DistinctAssumption
  DEF ReceiveToken, Leave, server, Take, AnswerTo, IInv, SilentFailure, Messages,
      AnswerOnWire, WireTypes, VarTypes
<1> QED BY <1>2, <1>3, <1>4, <1>5, <1>6, <1>7, <1>8, <1>9 DEF IInv

\* An answer json cannot make sense of: the constructor throws.
LEMMA ReceiveOddStep ==
  ASSUME IInv, TypeOK', NEW c \in Clients, NEW m \in wire, ReceiveOdd(c, m)
  PROVE  IInv'
<1>0. WireTypes /\ VarTypes
  BY TypeFacts DEF IInv
<1>1. \A d \in Clients : Stage(d)' /\ Unwrapped(d)'
  BY <1>0
  DEF ReceiveOdd, Leave, server, IInv, Stage, Unwrapped, Issued, Kind, Cred,
      VarTypes
<1>2. Messages'
  BY DEF ReceiveOdd, Leave, server, Take, AnswerTo, IInv, Issued, Kind, Cred,
         Messages, OneMessage, UnwrapRequest, LoginRequest, AnswerOnWire
<1>3. OneMessage'
  BY DEF ReceiveOdd, Leave, Take, IInv, OneMessage
<1>4. Spender'
  BY DEF ReceiveOdd, Leave, server, IInv, Spender, Kind, Cred
<1>5. OwnToken'
  BY DEF ReceiveOdd, Leave, server, IInv, OwnToken, is_authenticated
<1>6. LostTokenReported'
  BY DEF ReceiveOdd, Leave, server, IInv, LostTokenReported
<1>7. LostSecretReported'
  BY <1>0
  DEF ReceiveOdd, Leave, server, IInv, LostSecretReported, is_authenticated,
      VarTypes
<1>8. SilentFailure'
  BY DEF ReceiveOdd, Leave, server, IInv, SilentFailure
<1> QED BY <1>1, <1>2, <1>3, <1>4, <1>5, <1>6, <1>7, <1>8 DEF IInv

\* A refusal: the constructor runs a callback.
LEMMA ReceiveRefusalStep ==
  ASSUME IInv, TypeOK', NEW c \in Clients, NEW m \in wire, ReceiveRefusal(c, m)
  PROVE  IInv'
<1>1. WireTypes /\ VarTypes
  BY TypeFacts DEF IInv
<1>2. \A d \in Clients : Stage(d)' /\ Unwrapped(d)'
  BY <1>1
  DEF ReceiveRefusal, server, Report, IInv, Stage, Unwrapped, Issued, Kind,
      Cred, VarTypes
<1>3. Messages'
  BY DEF ReceiveRefusal, server, Take, AnswerTo, Report, IInv, Issued, Kind,
         Cred, Messages, OneMessage, UnwrapRequest, LoginRequest, AnswerOnWire
<1>4. OneMessage'
  BY DEF ReceiveRefusal, Take, IInv, OneMessage
<1>5. Spender'
  BY DEF ReceiveRefusal, Report, server, IInv, Spender, Kind, Cred
<1>6. OwnToken'
  BY DEF ReceiveRefusal, server, Report, IInv, OwnToken, is_authenticated
<1>7. LostTokenReported'
  BY <1>1
  DEF ReceiveRefusal, server, Report, IInv, LostTokenReported, Stage, VarTypes
<1>8. LostSecretReported'
  BY <1>1, DistinctAssumption
  DEF ReceiveRefusal, server, Report, IInv, LostSecretReported, Stage,
      is_authenticated, Unspent, VarTypes
<1>9. SilentFailure'
  BY DEF ReceiveRefusal, server, Report, IInv, SilentFailure
<1> QED BY <1>2, <1>3, <1>4, <1>5, <1>6, <1>7, <1>8, <1>9 DEF IInv

\* A timeout: the constructor runs a callback; the request may still arrive.
LEMMA GiveUpStep ==
  ASSUME IInv, TypeOK', NEW c \in Clients, GiveUp(c)
  PROVE  IInv'
<1>1. WireTypes /\ VarTypes
  BY TypeFacts DEF IInv
<1>2. \A d \in Clients : Stage(d)' /\ Unwrapped(d)'
  BY <1>1
  DEF GiveUp, server, Report, IInv, Stage, Unwrapped, Issued, Kind, Cred,
      VarTypes
<1>3. Messages'
  BY DEF GiveUp, server, Report, IInv, Issued, Kind, Cred, Messages,
         UnwrapRequest, LoginRequest, AnswerOnWire
<1>4. OneMessage'
  BY DEF GiveUp, IInv, OneMessage
<1>5. Spender'
  BY DEF GiveUp, Report, server, IInv, Spender, Kind, Cred
<1>6. OwnToken'
  BY DEF GiveUp, server, Report, IInv, OwnToken, is_authenticated
<1>7. LostTokenReported'
  BY <1>1 DEF GiveUp, server, Report, IInv, LostTokenReported, Stage, VarTypes
<1>8. LostSecretReported'
  BY <1>1, DistinctAssumption
  DEF GiveUp, server, Report, IInv, LostSecretReported, Stage, is_authenticated,
      Unspent, VarTypes
<1>9. SilentFailure'
  BY DEF GiveUp, server, Report, IInv, SilentFailure
<1> QED BY <1>2, <1>3, <1>4, <1>5, <1>6, <1>7, <1>8, <1>9 DEF IInv

\* The callback comes back or throws.
LEMMA EndReportStep ==
  ASSUME IInv, TypeOK', NEW c \in Clients, NEW end \in {"built", "threw"},
         EndReport(c, end)
  PROVE  IInv'
<1>0. VarTypes
  BY TypeFacts DEF IInv
<1>1. \A d \in Clients : Stage(d)' /\ Unwrapped(d)'
  BY <1>0
  DEF EndReport, Leave, server, IInv, Stage, Unwrapped, Issued, Kind, Cred,
      VarTypes
<1>2. Messages'
  BY DEF EndReport, Leave, server, IInv, Stage, Issued, Kind, Cred, Messages,
         UnwrapRequest, LoginRequest, AnswerOnWire
<1>3. OneMessage'
  BY DEF EndReport, Leave, IInv, OneMessage
<1>4. Spender'
  BY DEF EndReport, Leave, server, IInv, Spender, Kind, Cred
<1>5. OwnToken'
  BY DEF EndReport, Leave, server, IInv, OwnToken, is_authenticated, Stage
<1>6. LostTokenReported'
  BY DEF EndReport, Leave, server, IInv, LostTokenReported
<1>7. LostSecretReported'
  BY <1>0, DistinctAssumption
  DEF EndReport, Leave, server, IInv, LostSecretReported, is_authenticated,
      Stage, Unspent, VarTypes
<1>8. SilentFailure'
  BY DEF EndReport, Leave, server, IInv, SilentFailure, Stage
<1> QED BY <1>1, <1>2, <1>3, <1>4, <1>5, <1>6, <1>7, <1>8 DEF IInv

\* The server spends a wrapping token, which nobody has spent before.
LEMMA UnwrapStep ==
  ASSUME IInv, TypeOK', NEW m \in wire, Unwrap(m)
  PROVE  IInv'
<1>1. WireTypes /\ VarTypes
  BY TypeFacts DEF IInv
<1>2. \A d \in Clients : Stage(d)' /\ Unwrapped(d)'
  BY <1>1, DistinctAssumption
  DEF Unwrap, IInv, Stage, Unwrapped, Issued, Kind, Cred, Unspent, WireTypes,
      VarTypes
<1>3. Messages'
  <2>1. unwrappedBy'[m.cred] = m.client /\ m.cred = Cred(m.client)
    BY <1>1
    DEF Unwrap, IInv, Messages, UnwrapRequest, WireTypes, VarTypes
  <2>2. \A n \in wire : n.type = "answer" /\ n.body = "secret" =>
          unwrappedBy'[Cred(n.client)] = n.client
    BY <1>1, DistinctAssumption
    DEF Unwrap, IInv, Messages, AnswerOnWire, Unspent, WireTypes, VarTypes
  <2> QED
    BY <2>1, <2>2
    DEF Unwrap, Reply, Answer, IInv, Issued, Kind, Cred, Messages,
        UnwrapRequest, LoginRequest, AnswerOnWire
<1>4. OneMessage'
  BY DEF Unwrap, Reply, Answer, IInv, OneMessage
<1>5. Spender'
  BY <1>1
  DEF Unwrap, IInv, Spender, Messages, UnwrapRequest, Kind, Cred, WireTypes,
      VarTypes
<1>6. OwnToken'
  BY DEF Unwrap, IInv, OwnToken, is_authenticated
<1>7. LostTokenReported'
  BY DEF Unwrap, IInv, LostTokenReported
<1>8. LostSecretReported'
  BY <1>1
  DEF Unwrap, IInv, LostSecretReported, is_authenticated, Messages,
      UnwrapRequest, Stage, WireTypes, VarTypes
<1>9. SilentFailure'
  BY DEF Unwrap, IInv, SilentFailure
<1> QED BY <1>2, <1>3, <1>4, <1>5, <1>6, <1>7, <1>8, <1>9 DEF IInv

\* The server issues a token that it had not issued, to a client that has none.
LEMMA IssueStep ==
  ASSUME IInv, TypeOK', NEW m \in wire, NEW k \in Tokens,
         NEW readable \in BOOLEAN, Issue(m, k, readable)
  PROVE  IInv'
<1>1. WireTypes /\ VarTypes
  BY TypeFacts DEF IInv
<1>2. \A d \in Clients : Stage(d)' /\ Unwrapped(d)'
  BY DEF Issue, IInv, Stage, Unwrapped, Issued, Kind, Cred, Messages,
         LoginRequest
<1>3. Messages'
  BY <1>1, DistinctAssumption
  DEF Issue, Reply, Answer, IInv, Issued, Unissued, Kind, Cred, Messages,
      OneMessage, UnwrapRequest, LoginRequest, AnswerOnWire, WireTypes, VarTypes
<1>4. OneMessage'
  BY DEF Issue, Reply, Answer, IInv, OneMessage
<1>5. Spender'
  BY DEF Issue, server, IInv, Spender, Kind, Cred
<1>6. OwnToken'
  BY DistinctAssumption DEF Issue, IInv, OwnToken, is_authenticated, Unissued
<1>7. LostTokenReported'
  BY <1>1
  DEF Issue, IInv, LostTokenReported, Messages, LoginRequest, Stage, WireTypes
<1>8. LostSecretReported'
  BY DEF Issue, IInv, LostSecretReported, is_authenticated
<1>9. SilentFailure'
  BY DEF Issue, IInv, SilentFailure
<1> QED BY <1>2, <1>3, <1>4, <1>5, <1>6, <1>7, <1>8, <1>9 DEF IInv

\* The server wants a second factor.
LEMMA DeferStep ==
  ASSUME IInv, TypeOK', NEW m \in wire, Defer(m)
  PROVE  IInv'
<1>1. \A d \in Clients : Stage(d)' /\ Unwrapped(d)'
  BY DEF Defer, IInv, Stage, Unwrapped, Issued, Kind, Cred, Messages,
         LoginRequest
<1>2. Messages'
  BY DEF Defer, Reply, Answer, IInv, Issued, Kind, Cred, Messages, OneMessage,
         UnwrapRequest, LoginRequest, AnswerOnWire
<1>3. OneMessage'
  BY DEF Defer, Reply, Answer, IInv, OneMessage
<1>4. Spender'
  BY DEF Defer, server, IInv, Spender, Kind, Cred
<1>5. OwnToken'
  BY DEF Defer, IInv, OwnToken, is_authenticated
<1>6. LostTokenReported'
  BY DEF Defer, IInv, LostTokenReported
<1>7. LostSecretReported'
  BY DEF Defer, IInv, LostSecretReported, is_authenticated
<1>8. SilentFailure'
  BY DEF Defer, IInv, SilentFailure, Messages, LoginRequest
<1> QED BY <1>1, <1>2, <1>3, <1>4, <1>5, <1>6, <1>7, <1>8 DEF IInv

\* The server refuses.
LEMMA RefuseStep ==
  ASSUME IInv, TypeOK', NEW m \in wire, Refuse(m)
  PROVE  IInv'
<1>1. \A d \in Clients : Stage(d)' /\ Unwrapped(d)'
  BY DEF Refuse, server, IInv, Stage, Unwrapped, Issued, Kind, Cred
<1>2. Messages'
  BY DEF Refuse, Reply, Answer, server, IInv, Issued, Kind, Cred, Messages,
         UnwrapRequest, LoginRequest, AnswerOnWire
<1>3. OneMessage'
  BY DEF Refuse, Reply, Answer, IInv, OneMessage
<1>4. Spender'
  BY DEF Refuse, server, IInv, Spender, Kind, Cred
<1>5. OwnToken'
  BY DEF Refuse, server, IInv, OwnToken, is_authenticated
<1>6. LostTokenReported'
  BY DEF Refuse, server, IInv, LostTokenReported
<1>7. LostSecretReported'
  BY DEF Refuse, server, IInv, LostSecretReported, is_authenticated
<1>8. SilentFailure'
  BY DEF Refuse, server, IInv, SilentFailure
<1> QED BY <1>1, <1>2, <1>3, <1>4, <1>5, <1>6, <1>7, <1>8 DEF IInv

\* The network loses a message.
LEMMA LoseStep ==
  ASSUME IInv, TypeOK', NEW m \in wire, Lose(m)
  PROVE  IInv'
<1>1. \A d \in Clients : Stage(d)' /\ Unwrapped(d)'
  BY DEF Lose, server, IInv, Stage, Unwrapped, Issued, Kind, Cred
<1>2. Messages'
  BY DEF Lose, server, IInv, Issued, Kind, Cred, Messages, UnwrapRequest,
         LoginRequest, AnswerOnWire
<1>3. OneMessage'
  BY DEF Lose, IInv, OneMessage
<1>4. Spender'
  BY DEF Lose, server, IInv, Spender, Kind, Cred
<1>5. OwnToken'
  BY DEF Lose, server, IInv, OwnToken, is_authenticated
<1>6. LostTokenReported'
  BY DEF Lose, server, IInv, LostTokenReported
<1>7. LostSecretReported'
  BY DEF Lose, server, IInv, LostSecretReported, is_authenticated
<1>8. SilentFailure'
  BY DEF Lose, server, IInv, SilentFailure
<1> QED BY <1>1, <1>2, <1>3, <1>4, <1>5, <1>6, <1>7, <1>8 DEF IInv

\* A step that changes nothing.
LEMMA UnchangedStep ==
  ASSUME IInv, UNCHANGED vars
  PROVE  IInv'
BY DEF IInv, vars, TypeOK, Stage, Unwrapped, Issued, Kind, Cred, Messages,
       UnwrapRequest, LoginRequest, AnswerOnWire, OneMessage, Spender,
       OwnToken, is_authenticated, LostTokenReported,
       LostSecretReported, SilentFailure

\* The inductive invariant holds in every state, so types do, and no token goes
\* to two clients or is lost in silence, for any clients and credentials.
THEOREM AuthInvariance == Spec => []IInv
<1>1. Init => IInv
  <2> SUFFICES ASSUME Init PROVE IInv
    OBVIOUS
  <2>1. TypeOK
    BY UsesAssumption DEF Init, TypeOK, InProgress, Unissued
  <2>2. \A c \in Clients : Stage(c) /\ Unwrapped(c)
    BY DistinctAssumption DEF Init, Stage, Unwrapped, Issued, Unissued
  <2>3. Messages /\ OneMessage /\ Spender
    BY DEF Init, Messages, OneMessage, Spender
  <2>4. OwnToken /\ LostTokenReported /\ LostSecretReported /\ SilentFailure
    BY DEF Init, OwnToken, is_authenticated, LostTokenReported,
           LostSecretReported, SilentFailure
  <2> QED BY <2>1, <2>2, <2>3, <2>4 DEF IInv
<1>2. IInv /\ [Next]_vars => IInv'
  <2> SUFFICES ASSUME IInv, [Next]_vars PROVE IInv'
    OBVIOUS
  <2>1. TypeOK'
    BY TypeStep DEF IInv
  <2>2. ASSUME NEW c \in Clients, Construct(c) PROVE IInv'
    BY <2>1, <2>2, BuildFromTokenStep, DeriveStep, SendUnwrapStep, SendLoginStep,
       LoginThrowsStep
    DEF Construct
  <2>3. ASSUME NEW c \in Clients, Continue(c) PROVE IInv'
    BY <2>1, <2>3, SendLoginWithSecretStep, LoginThrowsStep, ReceiveSecretStep, ReceiveTokenStep,
       ReceiveOddStep, ReceiveRefusalStep, GiveUpStep, EndReportStep DEF Continue
  <2>4. CASE Server
    BY <2>1, <2>4, UnwrapStep, IssueStep, DeferStep, RefuseStep, LoseStep
    DEF Server
  <2>5. CASE UNCHANGED vars
    BY <2>5, UnchangedStep
  <2> QED BY <2>2, <2>3, <2>4, <2>5 DEF Next
<1> QED BY <1>1, <1>2, PTL DEF Spec

\* Every variable keeps its type.
THEOREM AuthTypeCorrect == Spec => []TypeOK
<1>1. IInv => TypeOK
  BY DEF IInv
<1> QED BY <1>1, AuthInvariance, PTL

\* However logins interleave, a client that logged in has a token of its own.
THEOREM NoSharedToken == Spec => []OwnToken
<1>1. IInv => OwnToken
  BY DEF IInv
<1> QED BY <1>1, AuthInvariance, PTL

\* Two constructors with one wrapping token do not both get a client: the token is
\* spent by the request of one of them.
THEOREM WrapMakesOne == Spec => []OneClientPerWrap
<1>1. ASSUME IInv PROVE OneClientPerWrap
  <2> SUFFICES ASSUME NEW c \in Clients, NEW d \in Clients,
                      is_authenticated(c), Kind(c) = "wrapped",
                      is_authenticated(d), Kind(d) = "wrapped",
                      Cred(c) = Cred(d)
               PROVE  c = d
    BY DEF OneClientPerWrap, Kind, Cred
  <2>1. unwrappedBy[Cred(c)] = c /\ unwrappedBy[Cred(d)] = d
    BY <1>1 DEF IInv, Unwrapped, is_authenticated
  <2> QED BY <2>1
<1>2. IInv => OneClientPerWrap
  BY <1>1
<1> QED BY <1>2, AuthInvariance, PTL

\* A token the server has issued is held, on its way, or reported lost.
THEOREM TokensAccounted == Spec => []LostTokenReported
<1>1. IInv => LostTokenReported
  BY DEF IInv
<1> QED BY <1>1, AuthInvariance, PTL

\* The client whose request spent a wrapping token goes on with what it held, ends
\* authenticated, or ends with an exception or a callback; the login accepted
\* without a token is the one exception.
THEOREM SecretsAccounted == Spec => []LostSecretReported
<1>1. IInv => LostSecretReported
  BY DEF IInv
<1> QED BY <1>1, AuthInvariance, PTL

\* The only failure without a callback is the login that wants a second factor.
THEOREM OneSilentFailure == Spec => []SilentFailure
<1>1. IInv => SilentFailure
  BY DEF IInv
<1> QED BY <1>1, AuthInvariance, PTL
=============================================================================
