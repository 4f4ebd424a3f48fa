---------------------------- MODULE HttpConsumer ----------------------------
(***************************************************************************)
(* One libvault call from the moment an application thread enters          *)
(* HttpConsumer (src/support/HttpConsumer.cpp) until it has its            *)
(* std::optional<std::string> back: the authentication guard, the request  *)
(* HttpClient::executeRequest puts on the wire, curl_easy_perform, and the *)
(* two error callbacks.                                                    *)
(*                                                                         *)
(* Threads share Clients, and every request owns its own CurlWrapper, so   *)
(* nothing but the immutable token of the client is shared between calls.  *)
(* The Vault server and the network are external: a request or a response  *)
(* may be delayed or lost, a token may be revoked at any time, the server  *)
(* answers with any status in StatusCodes.                                 *)
(***************************************************************************)
EXTENDS Integers, FiniteSets

CONSTANTS
  Threads,          \* application threads
  CallIds,          \* identities of calls; finitely many bound a TLC run
  Clients,          \* Vault::Client objects, constructed before they are used
  Tokens,           \* Vault tokens
  NoToken,          \* the empty Vault::Token
  Idle,             \* a thread that is in no call
  StatusCodes,      \* final status codes the server may answer with; libcurl
                    \* keeps the interim 1xx ones to itself
  RequestTimeout,   \* Config::requestTimeout_, seconds, passed to libcurl
  LowSpeedTimeout,  \* Config::lowSpeedTimeout_
  LowSpeedLimit     \* Config::lowSpeedLimit_

ASSUME TokensAssumption == NoToken \notin Tokens
ASSUME IdleAssumption == Idle \notin CallIds
ASSUME StatusAssumption == StatusCodes \subseteq 200..599 /\ 403 \in StatusCodes
ASSUME TimeoutAssumption ==
  RequestTimeout \in Int /\ LowSpeedTimeout \in Int /\ LowSpeedLimit \in Int

VARIABLES
  token,      \* Client::token_ of each client
  valid,      \* tokens the server accepts
  current,    \* the call each thread is in
  args,       \* thread, client and kind of each call, and whether its body can
              \* be written
  pc,         \* how far each call is
  code,       \* status code of the response, 0 before there is one
  errors,     \* how often HttpErrorCallback ran for the call
  rejections, \* how often ResponseErrorCallback ran for the call
  result,     \* what the call gave its caller
  wire,       \* requests and responses in flight
  performed   \* how often the server carried the call out

vars == <<token, valid, current, args, pc, code, errors, rejections, result,
          wire, performed>>

Kinds == {"guarded", "unauthenticated"}

Active == {"entered", "performing", "answered", "httpError", "responseError"}

Args == [thread : Threads, client : Clients, kind : Kinds, writable : BOOLEAN]

NoArgs == [thread |-> Idle, client |-> Idle, kind |-> "none", writable |-> FALSE]

Requests ==
  [type : {"request"}, id : CallIds, token : Tokens \cup {NoToken}, kind : Kinds]

Responses == [type : {"response"}, id : CallIds, code : StatusCodes]

TypeOK ==
  /\ token \in [Clients -> Tokens \cup {NoToken}]
  /\ valid \in SUBSET Tokens
  /\ current \in [Threads -> CallIds \cup {Idle}]
  /\ args \in [CallIds -> Args \cup {NoArgs}]
  /\ pc \in [CallIds -> Active \cup {"none", "returned"}]
  /\ code \in [CallIds -> StatusCodes \cup {0}]
  /\ errors \in [CallIds -> Nat]
  /\ rejections \in [CallIds -> Nat]
  /\ result \in [CallIds -> {"none", "value", "nullopt", "threw"}]
  /\ wire \in SUBSET (Requests \cup Responses)
  /\ performed \in [CallIds -> Nat]

\* The clients exist and hold whatever their strategy left in token_; no call
\* has been made.
Init ==
  /\ token \in [Clients -> Tokens \cup {NoToken}]
  /\ valid = Tokens
  /\ current = [t \in Threads |-> Idle]
  /\ args = [id \in CallIds |-> NoArgs]
  /\ pc = [id \in CallIds |-> "none"]
  /\ code = [id \in CallIds |-> 0]
  /\ errors = [id \in CallIds |-> 0]
  /\ rejections = [id \in CallIds |-> 0]
  /\ result = [id \in CallIds |-> "none"]
  /\ wire = {}
  /\ performed = [id \in CallIds |-> 0]

-----------------------------------------------------------------------------
(* The library.  An operator whose name ends in _Something is the operator *)
(* of that name with a slip in it; the properties are tried against them,  *)
(* and no action uses them.                                                *)

is_authenticated(c) == token[c] # NoToken

is_success_LooseBound(status) == status >= 200 /\ status <= 300

is_success(status) == status >= 200 /\ status < 300

\* libcurl ignores a limit that is zero and refuses a negative one; the
\* refusal goes unseen because setOption drops the result of curl_easy_setopt.
Armed_Never(limit) == limit < 0

Armed(limit) == limit > 0

\* A call without a body, or whose parameters are all UTF-8, is writable.
Enter(t, id, c, k, writable) ==
  /\ current[t] = Idle
  /\ pc[id] = "none"
  /\ current' = [current EXCEPT ![t] = id]
  /\ args' = [args EXCEPT ![id] = [thread |-> t, client |-> c, kind |-> k,
                                  writable |-> writable]]
  /\ pc' = [pc EXCEPT ![id] = "entered"]
  /\ UNCHANGED <<token, valid, code, errors, rejections, result, wire,
                 performed>>

\* The call is over: its thread goes on with r.
Return(id, r) ==
  /\ result' = [result EXCEPT ![id] = r]
  /\ pc' = [pc EXCEPT ![id] = "returned"]
  /\ current' = [current EXCEPT ![args[id].thread] = Idle]

PassesGuard(id) ==
  args[id].kind = "guarded" => is_authenticated(args[id].client)

ShortCircuit(id) ==
  /\ pc[id] = "entered"
  /\ ~PassesGuard(id)
  /\ Return(id, "nullopt")
  /\ UNCHANGED <<token, valid, args, code, errors, rejections, wire, performed>>

\* json.dump(), called for the body after the guard and before the request, throws
\* type_error.316 on a string that is not UTF-8; so do the producers of engines.
DumpThrows_Caught(id) ==
  /\ pc[id] = "entered" /\ PassesGuard(id) /\ ~args[id].writable
  /\ Return(id, "nullopt")
  /\ UNCHANGED <<token, valid, args, code, errors, rejections, wire, performed>>

DumpThrows(id) ==
  /\ pc[id] = "entered" /\ PassesGuard(id) /\ ~args[id].writable
  /\ Return(id, "threw")
  /\ UNCHANGED <<token, valid, args, code, errors, rejections, wire, performed>>

\* Unauthenticated calls pass Token{}, and executeRequest leaves the token
\* header out when the token is empty.
TokenHeader_Always(id) == token[args[id].client]

TokenHeader(id) ==
  IF args[id].kind = "guarded" THEN token[args[id].client] ELSE NoToken

Send(id) ==
  /\ pc[id] = "entered"
  /\ PassesGuard(id) /\ args[id].writable
  /\ wire' = wire \cup {[type |-> "request", id |-> id,
                         token |-> TokenHeader(id), kind |-> args[id].kind]}
  /\ pc' = [pc EXCEPT ![id] = "performing"]
  /\ UNCHANGED <<token, valid, current, args, code, errors, rejections, result,
                 performed>>

Receive_CurlCode(id) ==
  /\ pc[id] = "performing"
  /\ \E m \in wire : m.type = "response" /\ m.id = id /\ wire' = wire \ {m}
  /\ code' = [code EXCEPT ![id] = 28]
  /\ pc' = [pc EXCEPT ![id] = "answered"]
  /\ UNCHANGED <<token, valid, current, args, errors, rejections, result,
                 performed>>

Receive(id) ==
  /\ pc[id] = "performing"
  /\ \E m \in wire :
       /\ m.type = "response" /\ m.id = id
       /\ code' = [code EXCEPT ![id] = m.code]
       /\ wire' = wire \ {m}
  /\ pc' = [pc EXCEPT ![id] = "answered"]
  /\ UNCHANGED <<token, valid, current, args, errors, rejections, result,
                 performed>>

TransportError_Retry(id) ==
  /\ pc[id] = "performing"
  /\ pc' = [pc EXCEPT ![id] = "entered"]
  /\ UNCHANGED <<token, valid, current, args, code, errors, rejections, result,
                 wire, performed>>

TransportError_Silent(id) ==
  /\ pc[id] = "performing"
  /\ pc' = [pc EXCEPT ![id] = "httpError"]
  /\ UNCHANGED <<token, valid, current, args, code, errors, rejections, result,
                 wire, performed>>

TransportError_AsResponse(id) ==
  /\ pc[id] = "performing"
  /\ rejections' = [rejections EXCEPT ![id] = @ + 1]
  /\ pc' = [pc EXCEPT ![id] = "responseError"]
  /\ UNCHANGED <<token, valid, current, args, code, errors, result, wire,
                 performed>>

\* curl_easy_perform gives up: the connection is closed, so what the server
\* may still answer is dropped, and errorCallback_ is entered.
TransportError(id) ==
  /\ pc[id] = "performing"
  /\ wire' = {m \in wire : ~(m.type = "response" /\ m.id = id)}
  /\ errors' = [errors EXCEPT ![id] = @ + 1]
  /\ pc' = [pc EXCEPT ![id] = "httpError"]
  /\ UNCHANGED <<token, valid, current, args, code, rejections, result,
                 performed>>

ConnectionFails(id) == TransportError(id)

RequestTimesOut(id) == Armed(RequestTimeout) /\ TransportError(id)

TransferTooSlow(id) ==
  Armed(LowSpeedTimeout) /\ Armed(LowSpeedLimit) /\ TransportError(id)

Succeed(id) ==
  /\ pc[id] = "answered"
  /\ is_success(code[id])
  /\ Return(id, "value")
  /\ UNCHANGED <<token, valid, args, code, errors, rejections, wire, performed>>

\* handleResponseError: every other status goes to ResponseErrorCallback.
HandleResponseError(id) ==
  /\ pc[id] = "answered"
  /\ ~is_success(code[id])
  /\ rejections' = [rejections EXCEPT ![id] = @ + 1]
  /\ pc' = [pc EXCEPT ![id] = "responseError"]
  /\ UNCHANGED <<token, valid, current, args, code, errors, result, wire,
                 performed>>

InCallback(id) == pc[id] \in {"httpError", "responseError"}

CallbackReturns(id) ==
  /\ InCallback(id)
  /\ Return(id, "nullopt")
  /\ UNCHANGED <<token, valid, args, code, errors, rejections, wire, performed>>

\* Nothing in the library catches what an application's callback throws.
CallbackThrows(id) ==
  /\ InCallback(id)
  /\ Return(id, "threw")
  /\ UNCHANGED <<token, valid, args, code, errors, rejections, wire, performed>>

-----------------------------------------------------------------------------
(* The server and the network, external to the repository.                 *)

Authorised(m) == m.kind = "unauthenticated" \/ m.token \in valid

\* A request is carried out when it is answered with 2xx, may have been
\* carried out when the server fails (5xx), and is not otherwise.  Nobody
\* hears the answer once the caller has given up.
Process(m, status, done) ==
  /\ m \in wire /\ m.type = "request"
  /\ ~Authorised(m) => status = 403
  /\ status \in 200..299 => done
  /\ status \in 300..499 => ~done
  /\ performed' = [performed EXCEPT ![m.id] = IF done THEN @ + 1 ELSE @]
  /\ wire' = (wire \ {m}) \cup
             (IF pc[m.id] = "performing"
              THEN {[type |-> "response", id |-> m.id, code |-> status]}
              ELSE {})
  /\ UNCHANGED <<token, valid, current, args, pc, code, errors, rejections,
                 result>>

Lose(m) ==
  /\ m \in wire
  /\ wire' = wire \ {m}
  /\ UNCHANGED <<token, valid, current, args, pc, code, errors, rejections,
                 result, performed>>

Revoke(k) ==
  /\ k \in valid
  /\ valid' = valid \ {k}
  /\ UNCHANGED <<token, current, args, pc, code, errors, rejections, result,
                 wire, performed>>

-----------------------------------------------------------------------------
CallStep(id) ==
  \/ ShortCircuit(id)
  \/ DumpThrows(id)
  \/ Send(id)
  \/ Receive(id)
  \/ ConnectionFails(id)
  \/ RequestTimesOut(id)
  \/ TransferTooSlow(id)
  \/ Succeed(id)
  \/ HandleResponseError(id)
  \/ CallbackReturns(id)
  \/ CallbackThrows(id)

ServerStep ==
  \/ \E m \in wire, status \in StatusCodes, done \in BOOLEAN :
       Process(m, status, done)
  \/ \E m \in wire : Lose(m)
  \/ \E k \in valid : Revoke(k)

Next ==
  \/ \E t \in Threads, id \in CallIds, c \in Clients, k \in Kinds,
        writable \in BOOLEAN : Enter(t, id, c, k, writable)
  \/ \E id \in CallIds : CallStep(id)
  \/ ServerStep

Spec == Init /\ [][Next]_vars

\* A thread keeps running inside the library, and libcurl's timers expire.
\* Nothing is assumed of the server, of the network or of the application
\* starting calls; callbacks are assumed to come back.
Progress(id) ==
  \/ ShortCircuit(id)
  \/ DumpThrows(id)
  \/ Send(id)
  \/ Receive(id)
  \/ RequestTimesOut(id)
  \/ TransferTooSlow(id)
  \/ Succeed(id)
  \/ HandleResponseError(id)
  \/ CallbackReturns(id)
  \/ CallbackThrows(id)

FairSpec == Spec /\ \A id \in CallIds : WF_vars(Progress(id))

-----------------------------------------------------------------------------
(* Correctness.                                                            *)

RequestsOf(id) == {m \in wire : m.type = "request" /\ m.id = id}

\* A call puts its request on the wire at most once and the server carries it
\* out at most once: the library never repeats a call on its own.
OneAttempt ==
  \A id \in CallIds :
    /\ performed[id] \in {0, 1}
    /\ performed[id] = 1 \/ pc[id] \in {"none", "entered"} => RequestsOf(id) = {}

\* A body comes back only for a call the server has carried out.
AcknowledgedIsDone ==
  \A id \in CallIds : result[id] = "value" => performed[id] = 1

\* A call that gives no body has run exactly one callback exactly once, except
\* the two that make no request, which run none and can be told apart: the guard
\* of a client without a token returns nullopt, and parameters that cannot be
\* written as json throw.
FailureReportedOnce ==
  \A id \in CallIds :
    LET reports == errors[id] + rejections[id]
    IN  pc[id] = "returned" =>
          CASE result[id] = "value" -> reports = 0
            [] result[id] = "nullopt" -> reports = IF PassesGuard(id) THEN 1 ELSE 0
            [] result[id] = "threw" -> reports = IF args[id].writable THEN 1 ELSE 0

\* When a call failed and HttpErrorCallback did not run, then unless the server
\* itself failed (5xx) the call has had no effect and never will.
RefusedIsFinal ==
  \A id \in CallIds :
    /\ result[id] \in {"nullopt", "threw"}
    /\ errors[id] = 0
    /\ code[id] < 500
    => performed[id] = 0 /\ RequestsOf(id) = {}

\* A request still on its way after its caller has gone on belongs to a call
\* whose HttpErrorCallback has run: only such a call takes effect late, after
\* later calls of the same thread perhaps.
LateRequestsAreReported ==
  \A m \in wire :
    m.type = "request" /\ pc[m.id] # "performing" => errors[m.id] = 1

\* Guarded requests carry the token of the client they were made on, and the
\* unauthenticated ones no token even on an authenticated client.
TokenOnTheWire ==
  \A m \in wire :
    m.type = "request" =>
      IF m.kind = "guarded"
      THEN m.token = token[args[m.id].client] /\ m.token \in Tokens
      ELSE m.token = NoToken

\* What the caller knows, from the result and the callbacks it saw.
Verdict(id) ==
  IF pc[id] = "none" THEN "none"
  ELSE IF result[id] = "value" THEN "done"
  ELSE IF errors[id] > 0 THEN "unknown"
  ELSE IF rejections[id] > 0
       THEN IF code[id] < 500 THEN "refused" ELSE "unknown"
  ELSE IF pc[id] = "returned" THEN "refused"
  ELSE "pending"

AMO == INSTANCE AtMostOnce WITH
         verdict <- [id \in CallIds |-> Verdict(id)],
         effects <- performed

\* The pipeline keeps the promise of AtMostOnce.
KeepsPromise == AMO!Spec

\* Every call returns although the server and the network may stay silent for
\* ever, because libcurl's timers are armed.
EveryCallReturns ==
  \A id \in CallIds : pc[id] = "entered" ~> pc[id] = "returned"
=============================================================================
