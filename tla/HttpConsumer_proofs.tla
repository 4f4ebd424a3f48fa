------------------------ MODULE HttpConsumer_proofs ------------------------
(***************************************************************************)
(* The safety of HttpConsumer for any number of threads, calls, clients    *)
(* and tokens.  The inductive invariant says, for each stage of a call,    *)
(* what has been reported and what the server can still do about it, and   *)
(* for each message in flight what it proves about its call.               *)
(***************************************************************************)
EXTENDS HttpConsumer, TLAPS

Fresh(id) ==
  code[id] = 0 /\ errors[id] = 0 /\ rejections[id] = 0 /\ result[id] = "none"

Sendable(id) == PassesGuard(id) /\ args[id].writable

\* A status other than 5xx tells whether the call was carried out.
Tells(status, id) ==
  /\ status \in 200..299 => performed[id] = 1
  /\ status \in 300..499 => performed[id] = 0

NoRequest(id) == \A m \in wire : m.type = "request" => m.id # id

NoMessage(id) == \A m \in wire : m.id # id

Settled(id) == code[id] \in StatusCodes /\ Tells(code[id], id) /\ NoRequest(id)

Outcome(id) ==
  \/ /\ result[id] = "value" /\ errors[id] = 0 /\ rejections[id] = 0
     /\ is_success(code[id]) /\ Settled(id) /\ Sendable(id)
  \/ /\ result[id] = "nullopt" /\ errors[id] = 0 /\ rejections[id] = 0
     /\ code[id] = 0 /\ performed[id] = 0 /\ NoRequest(id) /\ ~PassesGuard(id)
  \/ /\ result[id] = "threw" /\ errors[id] = 0 /\ rejections[id] = 0
     /\ code[id] = 0 /\ performed[id] = 0 /\ NoRequest(id) /\ ~args[id].writable
  \/ /\ result[id] \in {"nullopt", "threw"} /\ errors[id] = 1
     /\ rejections[id] = 0 /\ code[id] = 0 /\ Sendable(id)
  \/ /\ result[id] \in {"nullopt", "threw"} /\ errors[id] = 0
     /\ rejections[id] = 1 /\ ~is_success(code[id]) /\ Settled(id)
     /\ Sendable(id)

Stage(id) ==
  /\ pc[id] # "none" => args[id] \in Args
  /\ pc[id] \in {"none", "entered"} =>
       Fresh(id) /\ performed[id] = 0 /\ NoMessage(id)
  /\ pc[id] = "performing" => Fresh(id) /\ Sendable(id)
  /\ pc[id] = "answered" =>
       /\ errors[id] = 0 /\ rejections[id] = 0 /\ result[id] = "none"
       /\ Settled(id) /\ Sendable(id)
  /\ pc[id] = "responseError" =>
       /\ errors[id] = 0 /\ rejections[id] = 1 /\ result[id] = "none"
       /\ ~is_success(code[id]) /\ Settled(id) /\ Sendable(id)
  /\ pc[id] = "httpError" =>
       /\ errors[id] = 1 /\ rejections[id] = 0 /\ result[id] = "none"
       /\ code[id] = 0 /\ Sendable(id)
  /\ pc[id] = "returned" => Outcome(id)

Message(m) ==
  /\ m.type = "request" =>
       /\ performed[m.id] = 0
       /\ pc[m.id] \notin {"none", "entered"}
       /\ m.kind = args[m.id].kind
       /\ m.token = TokenHeader(m.id)
       /\ Sendable(m.id)
  /\ m.type = "response" =>
       /\ pc[m.id] = "performing"
       /\ Tells(m.code, m.id)
  /\ \A n \in wire : n.id = m.id => n = m

IInv ==
  /\ TypeOK
  /\ \A id \in CallIds : Stage(id) /\ performed[id] \in {0, 1}
  /\ \A m \in wire : Message(m)

-----------------------------------------------------------------------------
(* The vocabulary is expanded everywhere below.                            *)

USE DEF Args, NoArgs, Kinds, Active, Requests, Responses, is_authenticated,
        is_success, TokenHeader, Fresh, PassesGuard, Sendable, Tells, NoRequest, NoMessage,
        Settled, Outcome

\* What the two tests the code makes of a status say of its range.
LEMMA SuccessRange ==
  ASSUME NEW s \in StatusCodes, is_success(s)
  PROVE  s \in 200..299
  BY StatusAssumption

\* The statuses between, which report that nothing was done.
LEMMA RefusalRange ==
  ASSUME NEW s \in StatusCodes, ~is_success(s), s < 500
  PROVE  s \in 300..499
  BY StatusAssumption

\* Nothing has happened yet.
LEMMA InitHolds == Init => IInv
  BY DEF Init, IInv, TypeOK, Stage

\* Entering a call touches only a call nobody has made yet.
LEMMA EnterStep ==
  ASSUME IInv, NEW t \in Threads, NEW id \in CallIds, NEW c \in Clients,
         NEW k \in Kinds, NEW writable \in BOOLEAN,
         Enter(t, id, c, k, writable)
  PROVE  IInv'
  <1>1. TypeOK'
    BY StatusAssumption DEF IInv, TypeOK, Enter, Stage
  <1>2. ASSUME NEW i \in CallIds PROVE Stage(i)' /\ performed'[i] \in {0, 1}
    BY StatusAssumption DEF IInv, TypeOK, Enter, Stage, Message
  <1>3. ASSUME NEW m \in wire' PROVE Message(m)'
    BY StatusAssumption DEF IInv, TypeOK, Enter, Stage, Message
  <1> QED BY <1>1, <1>2, <1>3 DEF IInv

\* The guard returns before anything is on the wire.
LEMMA ShortCircuitStep ==
  ASSUME IInv, NEW id \in CallIds, ShortCircuit(id)
  PROVE  IInv'
  <1>1. TypeOK'
    BY StatusAssumption DEF IInv, TypeOK, ShortCircuit, Return, Stage
  <1>2. ASSUME NEW i \in CallIds PROVE Stage(i)' /\ performed'[i] \in {0, 1}
    BY StatusAssumption DEF IInv, TypeOK, ShortCircuit, Return, Stage, Message
  <1>3. ASSUME NEW m \in wire' PROVE Message(m)'
    BY StatusAssumption DEF IInv, TypeOK, ShortCircuit, Return, Stage, Message
  <1> QED BY <1>1, <1>2, <1>3 DEF IInv

\* The body is written before anything is on the wire.
LEMMA DumpThrowsStep ==
  ASSUME IInv, NEW id \in CallIds, DumpThrows(id)
  PROVE  IInv'
  <1>1. TypeOK'
    BY StatusAssumption DEF IInv, TypeOK, DumpThrows, Return, Stage
  <1>2. ASSUME NEW i \in CallIds PROVE Stage(i)' /\ performed'[i] \in {0, 1}
    BY StatusAssumption DEF IInv, TypeOK, DumpThrows, Return, Stage, Message
  <1>3. ASSUME NEW m \in wire' PROVE Message(m)'
    BY StatusAssumption DEF IInv, TypeOK, DumpThrows, Return, Stage, Message
  <1> QED BY <1>1, <1>2, <1>3 DEF IInv

\* Sending puts the first and only message of the call on the wire.
LEMMA SendStep ==
  ASSUME IInv, NEW id \in CallIds, Send(id)
  PROVE  IInv'
  <1>1. TypeOK'
    BY StatusAssumption DEF IInv, TypeOK, Send, Stage
  <1>2. ASSUME NEW i \in CallIds PROVE Stage(i)' /\ performed'[i] \in {0, 1}
    BY StatusAssumption DEF IInv, TypeOK, Send, Stage, Message
  <1>3. ASSUME NEW m \in wire' PROVE Message(m)'
    BY StatusAssumption DEF IInv, TypeOK, Send, Stage, Message
  <1> QED BY <1>1, <1>2, <1>3 DEF IInv

\* Receiving takes the only message of the call off the wire.
LEMMA ReceiveStep ==
  ASSUME IInv, NEW id \in CallIds, Receive(id)
  PROVE  IInv'
  <1>1. TypeOK'
    BY StatusAssumption DEF IInv, TypeOK, Receive, Stage
  <1>2. ASSUME NEW i \in CallIds PROVE Stage(i)' /\ performed'[i] \in {0, 1}
    BY StatusAssumption DEF IInv, TypeOK, Receive, Stage, Message
  <1>3. ASSUME NEW m \in wire' PROVE Message(m)'
    BY StatusAssumption DEF IInv, TypeOK, Receive, Stage, Message
  <1> QED BY <1>1, <1>2, <1>3 DEF IInv

\* All three causes of a transport error; a request may stay behind.
LEMMA TransportErrorStep ==
  ASSUME IInv, NEW id \in CallIds, TransportError(id)
  PROVE  IInv'
  <1>1. TypeOK'
    BY StatusAssumption DEF IInv, TypeOK, TransportError, Stage
  <1>2. ASSUME NEW i \in CallIds PROVE Stage(i)' /\ performed'[i] \in {0, 1}
    BY StatusAssumption DEF IInv, TypeOK, TransportError, Stage, Message
  <1>3. ASSUME NEW m \in wire' PROVE Message(m)'
    BY StatusAssumption DEF IInv, TypeOK, TransportError, Stage, Message
  <1> QED BY <1>1, <1>2, <1>3 DEF IInv

\* A 2xx status is returned as a value.
LEMMA SucceedStep ==
  ASSUME IInv, NEW id \in CallIds, Succeed(id)
  PROVE  IInv'
  <1>1. TypeOK'
    BY StatusAssumption DEF IInv, TypeOK, Succeed, Return, Stage
  <1>2. ASSUME NEW i \in CallIds PROVE Stage(i)' /\ performed'[i] \in {0, 1}
    BY StatusAssumption DEF IInv, TypeOK, Succeed, Return, Stage, Message
  <1>3. ASSUME NEW m \in wire' PROVE Message(m)'
    BY StatusAssumption DEF IInv, TypeOK, Succeed, Return, Stage, Message
  <1> QED BY <1>1, <1>2, <1>3 DEF IInv

\* Any other status is reported once.
LEMMA HandleResponseErrorStep ==
  ASSUME IInv, NEW id \in CallIds, HandleResponseError(id)
  PROVE  IInv'
  <1>1. TypeOK'
    BY StatusAssumption DEF IInv, TypeOK, HandleResponseError, Stage
  <1>2. ASSUME NEW i \in CallIds PROVE Stage(i)' /\ performed'[i] \in {0, 1}
    BY StatusAssumption DEF IInv, TypeOK, HandleResponseError, Stage, Message
  <1>3. ASSUME NEW m \in wire' PROVE Message(m)'
    BY StatusAssumption DEF IInv, TypeOK, HandleResponseError, Stage, Message
  <1> QED BY <1>1, <1>2, <1>3 DEF IInv

\* The caller's callback comes back.
LEMMA CallbackReturnsStep ==
  ASSUME IInv, NEW id \in CallIds, CallbackReturns(id)
  PROVE  IInv'
  <1>1. TypeOK'
    BY StatusAssumption DEF IInv, TypeOK, CallbackReturns, Return, InCallback, Stage
  <1>2. ASSUME NEW i \in CallIds PROVE Stage(i)' /\ performed'[i] \in {0, 1}
    BY StatusAssumption DEF IInv, TypeOK, CallbackReturns, Return, InCallback, Stage, Message
  <1>3. ASSUME NEW m \in wire' PROVE Message(m)'
    BY StatusAssumption DEF IInv, TypeOK, CallbackReturns, Return, InCallback, Stage, Message
  <1> QED BY <1>1, <1>2, <1>3 DEF IInv

\* The caller's callback throws.
LEMMA CallbackThrowsStep ==
  ASSUME IInv, NEW id \in CallIds, CallbackThrows(id)
  PROVE  IInv'
  <1>1. TypeOK'
    BY StatusAssumption DEF IInv, TypeOK, CallbackThrows, Return, InCallback, Stage
  <1>2. ASSUME NEW i \in CallIds PROVE Stage(i)' /\ performed'[i] \in {0, 1}
    BY StatusAssumption DEF IInv, TypeOK, CallbackThrows, Return, InCallback, Stage, Message
  <1>3. ASSUME NEW m \in wire' PROVE Message(m)'
    BY StatusAssumption DEF IInv, TypeOK, CallbackThrows, Return, InCallback, Stage, Message
  <1> QED BY <1>1, <1>2, <1>3 DEF IInv

\* The server consumes the only request of a call.
LEMMA ProcessStep ==
  ASSUME IInv, NEW m \in wire, NEW status \in StatusCodes,
         NEW done \in BOOLEAN, Process(m, status, done)
  PROVE  IInv'
  <1>1. TypeOK'
    BY StatusAssumption DEF IInv, TypeOK, Process, Stage
  <1>2. ASSUME NEW i \in CallIds PROVE Stage(i)' /\ performed'[i] \in {0, 1}
    BY StatusAssumption DEF IInv, TypeOK, Process, Stage, Message
  <1>3. ASSUME NEW n \in wire' PROVE Message(n)'
    BY StatusAssumption DEF IInv, TypeOK, Process, Stage, Message
  <1> QED BY <1>1, <1>2, <1>3 DEF IInv

\* Losing a message leaves fewer promises to keep.
LEMMA LoseStep ==
  ASSUME IInv, NEW m \in wire, Lose(m)
  PROVE  IInv'
  <1>1. TypeOK'
    BY StatusAssumption DEF IInv, TypeOK, Lose, Stage
  <1>2. ASSUME NEW i \in CallIds PROVE Stage(i)' /\ performed'[i] \in {0, 1}
    BY StatusAssumption DEF IInv, TypeOK, Lose, Stage, Message
  <1>3. ASSUME NEW n \in wire' PROVE Message(n)'
    BY StatusAssumption DEF IInv, TypeOK, Lose, Stage, Message
  <1> QED BY <1>1, <1>2, <1>3 DEF IInv

\* Revoking a token changes nothing the invariant mentions.
LEMMA RevokeStep ==
  ASSUME IInv, NEW k \in valid, Revoke(k)
  PROVE  IInv'
  <1>1. TypeOK'
    BY StatusAssumption DEF IInv, TypeOK, Revoke, Stage
  <1>2. ASSUME NEW i \in CallIds PROVE Stage(i)' /\ performed'[i] \in {0, 1}
    BY StatusAssumption DEF IInv, TypeOK, Revoke, Stage, Message
  <1>3. ASSUME NEW m \in wire' PROVE Message(m)'
    BY StatusAssumption DEF IInv, TypeOK, Revoke, Stage, Message
  <1> QED BY <1>1, <1>2, <1>3 DEF IInv

\* The invariant is inductive.
LEMMA StepHolds == IInv /\ [Next]_vars => IInv'
  <1> SUFFICES ASSUME IInv, [Next]_vars PROVE IInv'
    OBVIOUS
  <1>1. ASSUME NEW t \in Threads, NEW id \in CallIds, NEW c \in Clients,
               NEW k \in Kinds, NEW writable \in BOOLEAN,
               Enter(t, id, c, k, writable)
        PROVE  IInv'
    BY <1>1, EnterStep
  <1>2. ASSUME NEW id \in CallIds, CallStep(id) PROVE IInv'
    <2>1. CASE TransportError(id)
      BY <2>1, TransportErrorStep
    <2> QED
      BY <1>2, <2>1, ShortCircuitStep, DumpThrowsStep, SendStep, ReceiveStep,
         SucceedStep, HandleResponseErrorStep, CallbackReturnsStep, CallbackThrowsStep
      DEF CallStep, ConnectionFails, RequestTimesOut, TransferTooSlow
  <1>3. ASSUME ServerStep PROVE IInv'
    BY <1>3, ProcessStep, LoseStep, RevokeStep DEF ServerStep
  <1>4. CASE UNCHANGED vars
    BY <1>4 DEF vars, IInv, TypeOK, Stage, Message
  <1> QED
    BY <1>1, <1>2, <1>3, <1>4 DEF Next

\* Whatever the number of threads, clients and calls, the invariant holds.
THEOREM Invariance == Spec => []IInv
  BY InitHolds, StepHolds, PTL DEF Spec

\* Type correctness of the call pipeline.
THEOREM TypeCorrect == Spec => []TypeOK
  <1>1. IInv => TypeOK
    BY DEF IInv
  <1> QED BY <1>1, Invariance, PTL

\* No call is sent or carried out twice.
THEOREM AttemptedOnce == Spec => []OneAttempt
  <1>1. IInv => OneAttempt
    BY DEF IInv, TypeOK, Stage, Message, OneAttempt, RequestsOf
  <1> QED BY <1>1, Invariance, PTL

\* A body is returned only for a call that was carried out.
THEOREM Acknowledged == Spec => []AcknowledgedIsDone
  <1>1. ASSUME IInv, NEW id \in CallIds, result[id] = "value"
        PROVE  performed[id] = 1
    <2>1. pc[id] = "returned"
      BY <1>1 DEF IInv, TypeOK, Stage
    <2>2. is_success(code[id]) /\ Settled(id)
      BY <1>1, <2>1 DEF IInv, Stage
    <2>3. code[id] \in 200..299
      BY <2>2, SuccessRange
    <2> QED
      BY <2>2, <2>3
  <1>2. IInv => AcknowledgedIsDone
    BY <1>1 DEF AcknowledgedIsDone
  <1> QED BY <1>2, Invariance, PTL

\* Every failure of a request reaches exactly one callback, once; a call that
\* makes none runs none, and says by nullopt or an exception why it made none.
THEOREM ReportedOnce == Spec => []FailureReportedOnce
  <1>1. ASSUME IInv, NEW id \in CallIds, pc[id] = "returned"
        PROVE  LET reports == errors[id] + rejections[id]
               IN  CASE result[id] = "value" -> reports = 0
                     [] result[id] = "nullopt" ->
                          reports = IF PassesGuard(id) THEN 1 ELSE 0
                     [] result[id] = "threw" ->
                          reports = IF args[id].writable THEN 1 ELSE 0
    <2>1. Outcome(id)
      BY <1>1 DEF IInv, Stage
    <2>2. CASE result[id] = "value"
      BY <2>1, <2>2
    <2>3. CASE result[id] = "nullopt"
      BY <2>1, <2>3
    <2>4. CASE result[id] = "threw"
      BY <2>1, <2>4
    <2> QED BY <2>1, <2>2, <2>3, <2>4
  <1>2. IInv => FailureReportedOnce
    BY <1>1 DEF FailureReportedOnce
  <1> QED BY <1>2, Invariance, PTL

\* A refused call never takes effect, not even later.
THEOREM Refused == Spec => []RefusedIsFinal
  <1>1. ASSUME IInv, NEW id \in CallIds, result[id] \in {"nullopt", "threw"},
               errors[id] = 0, code[id] < 500
        PROVE  performed[id] = 0 /\ NoRequest(id)
    <2>1. pc[id] = "returned"
      BY <1>1 DEF IInv, TypeOK, Stage
    <2>2. CASE rejections[id] = 0
      BY <1>1, <2>1, <2>2 DEF IInv, Stage
    <2>3. CASE rejections[id] = 1
      <3>1. ~is_success(code[id]) /\ Settled(id)
        BY <1>1, <2>1, <2>3 DEF IInv, Stage
      <3>2. code[id] \in 300..499
        BY <1>1, <3>1, RefusalRange
      <3> QED
        BY <3>1, <3>2
    <2> QED
      BY <1>1, <2>1, <2>2, <2>3 DEF IInv, Stage
  <1>2. IInv => RefusedIsFinal
    BY <1>1 DEF RefusedIsFinal, RequestsOf
  <1> QED BY <1>2, Invariance, PTL

\* Only a call whose transport error was reported can still take effect.
THEOREM LateReported == Spec => []LateRequestsAreReported
  <1>1. IInv => LateRequestsAreReported
    BY DEF IInv, TypeOK, Stage, Message, LateRequestsAreReported
  <1> QED BY <1>1, Invariance, PTL

\* Requests carry the token of their own client, or none.
THEOREM TokenSent == Spec => []TokenOnTheWire
  <1>1. IInv => TokenOnTheWire
    BY DEF IInv, TypeOK, Stage, Message, TokenOnTheWire
  <1> QED BY <1>1, Invariance, PTL

-----------------------------------------------------------------------------
(* Every step of the pipeline is a step of AtMostOnce or changes nothing   *)
(* there.                                                                  *)

\* Entering HttpConsumer is invoking the call.
LEMMA EnterRefines ==
  ASSUME IInv, NEW t \in Threads, NEW id \in CallIds, NEW c \in Clients,
         NEW k \in Kinds, NEW writable \in BOOLEAN,
         Enter(t, id, c, k, writable)
  PROVE  AMO!Invoke(id)
  <1>1. \A i \in CallIds : i # id => Verdict(i)' = Verdict(i)
    BY DEF IInv, TypeOK, Enter, Verdict
  <1>2. Verdict(id) = "none" /\ Verdict(id)' = "pending"
    BY DEF IInv, TypeOK, Stage, Enter, Verdict
  <1> QED
    BY <1>1, <1>2 DEF Enter, AMO!Invoke

\* The guard settles the call: it was never sent.
LEMMA ShortCircuitRefines ==
  ASSUME IInv, NEW id \in CallIds, ShortCircuit(id)
  PROVE  AMO!Settle(id, "refused")
  <1>1. \A i \in CallIds : i # id => Verdict(i)' = Verdict(i)
    BY DEF IInv, TypeOK, ShortCircuit, Return, Verdict
  <1>2. Verdict(id) = "pending" /\ Verdict(id)' = "refused"
    BY DEF IInv, TypeOK, Stage, ShortCircuit, Return, Verdict
  <1>3. performed[id] = 0
    BY DEF IInv, Stage, ShortCircuit
  <1> QED
    BY <1>1, <1>2, <1>3 DEF ShortCircuit, AMO!Settle

\* An exception instead of a body settles the call too: it was never sent.
LEMMA DumpThrowsRefines ==
  ASSUME IInv, NEW id \in CallIds, DumpThrows(id)
  PROVE  AMO!Settle(id, "refused")
  <1>1. \A i \in CallIds : i # id => Verdict(i)' = Verdict(i)
    BY DEF IInv, TypeOK, DumpThrows, Return, Verdict
  <1>2. Verdict(id) = "pending" /\ Verdict(id)' = "refused"
    BY DEF IInv, TypeOK, Stage, DumpThrows, Return, Verdict
  <1>3. performed[id] = 0
    BY DEF IInv, Stage, DumpThrows
  <1> QED
    BY <1>1, <1>2, <1>3 DEF DumpThrows, AMO!Settle

\* A transport error settles the call without telling what became of it.
LEMMA TransportErrorRefines ==
  ASSUME IInv, NEW id \in CallIds, TransportError(id)
  PROVE  AMO!Settle(id, "unknown")
  <1>1. \A i \in CallIds : i # id => Verdict(i)' = Verdict(i)
    BY DEF IInv, TypeOK, TransportError, Verdict
  <1>2. Verdict(id) = "pending" /\ Verdict(id)' = "unknown"
    BY DEF IInv, TypeOK, Stage, TransportError, Verdict
  <1> QED
    BY <1>1, <1>2 DEF TransportError, AMO!Settle

\* A 2xx status settles the call as carried out.
LEMMA SucceedRefines ==
  ASSUME IInv, NEW id \in CallIds, Succeed(id)
  PROVE  AMO!Settle(id, "done")
  <1>1. \A i \in CallIds : i # id => Verdict(i)' = Verdict(i)
    BY DEF IInv, TypeOK, Succeed, Return, Verdict
  <1>2. Verdict(id) = "pending" /\ Verdict(id)' = "done"
    BY DEF IInv, TypeOK, Stage, Succeed, Return, Verdict
  <1>3. performed[id] = 1
    <2>1. is_success(code[id]) /\ Settled(id)
      BY DEF IInv, Stage, Succeed
    <2>2. code[id] \in 200..299
      BY <2>1, SuccessRange
    <2> QED
      BY <2>1, <2>2
  <1> QED
    BY <1>1, <1>2, <1>3 DEF Succeed, AMO!Settle

\* Any other status settles the call; only a 5xx leaves it in doubt.
LEMMA HandleResponseErrorRefines ==
  ASSUME IInv, NEW id \in CallIds, HandleResponseError(id)
  PROVE  AMO!Settle(id, "refused") \/ AMO!Settle(id, "unknown")
  <1>1. \A i \in CallIds : i # id => Verdict(i)' = Verdict(i)
    BY DEF IInv, TypeOK, HandleResponseError, Verdict
  <1>2. Verdict(id) = "pending"
    BY DEF IInv, TypeOK, Stage, HandleResponseError, Verdict
  <1>3. ~is_success(code[id]) /\ Settled(id)
    BY DEF IInv, Stage, HandleResponseError
  <1>4. CASE code[id] < 500
    <2>1. Verdict(id)' = "refused"
      BY <1>4 DEF IInv, TypeOK, Stage, HandleResponseError, Verdict
    <2>2. code[id] \in 300..499
      BY <1>3, <1>4, RefusalRange
    <2>3. performed[id] = 0
      BY <1>3, <2>2
    <2> QED
      BY <1>1, <1>2, <2>1, <2>3 DEF HandleResponseError, AMO!Settle
  <1>5. CASE ~(code[id] < 500)
    <2>1. Verdict(id)' = "unknown"
      BY <1>5 DEF IInv, TypeOK, Stage, HandleResponseError, Verdict
    <2> QED
      BY <1>1, <1>2, <2>1 DEF HandleResponseError, AMO!Settle
  <1> QED BY <1>4, <1>5

\* The server carries out a request at most once, before the call is settled or
\* after its transport error.
LEMMA ProcessRefines ==
  ASSUME IInv, NEW m \in wire, NEW status \in StatusCodes, NEW done \in BOOLEAN,
         Process(m, status, done)
  PROVE  AMO!TakeEffect(m.id) \/ UNCHANGED AMO!vars
  <1>1. \A i \in CallIds : Verdict(i)' = Verdict(i)
    BY DEF Process, Verdict
  <1>2. m.id \in CallIds /\ performed[m.id] = 0
    BY DEF IInv, TypeOK, Message, Process
  <1>3. CASE done
    <2>1. Verdict(m.id) \in {"pending", "unknown"}
      <3>1. pc[m.id] \in {"performing", "httpError"} \/
            (pc[m.id] = "returned" /\ errors[m.id] = 1 /\ result[m.id] # "value")
        BY <1>2 DEF IInv, TypeOK, Stage, Message, Process
      <3> QED
        BY <1>2, <3>1 DEF IInv, TypeOK, Stage, Verdict
    <2>2. performed' = [performed EXCEPT ![m.id] = 1]
      BY <1>2, <1>3 DEF Process, IInv, TypeOK
    <2> QED
      BY <1>1, <1>2, <2>1, <2>2 DEF AMO!TakeEffect
  <1>4. CASE ~done
    BY <1>1, <1>4 DEF Process, AMO!vars, IInv, TypeOK
  <1> QED BY <1>3, <1>4

\* Everything else happens out of sight of the caller.
LEMMA SilentStep ==
  ASSUME IInv, NEW id \in CallIds,
         Send(id) \/ Receive(id) \/ CallbackReturns(id) \/ CallbackThrows(id)
  PROVE  UNCHANGED AMO!vars
  <1>1. \A i \in CallIds : i # id => Verdict(i)' = Verdict(i)
    BY DEF IInv, TypeOK, Send, Receive, CallbackReturns, CallbackThrows, Return,
           Verdict
  <1>2. CASE Send(id)
    BY <1>1, <1>2 DEF IInv, TypeOK, Stage, Send, Verdict, AMO!vars
  <1>3. CASE Receive(id)
    BY <1>1, <1>3 DEF IInv, TypeOK, Stage, Receive, Verdict, AMO!vars
  <1>4. CASE CallbackReturns(id)
    BY <1>1, <1>4
    DEF IInv, TypeOK, Stage, CallbackReturns, InCallback, Return, Verdict,
        AMO!vars
  <1>5. CASE CallbackThrows(id)
    BY <1>1, <1>5
    DEF IInv, TypeOK, Stage, CallbackThrows, InCallback, Return, Verdict,
        AMO!vars
  <1> QED BY <1>2, <1>3, <1>4, <1>5

\* Each step of the pipeline is a step of the promise or a stutter.
LEMMA StepRefines == IInv /\ [Next]_vars => [AMO!Next]_AMO!vars
  <1> SUFFICES ASSUME IInv, [Next]_vars PROVE [AMO!Next]_AMO!vars
    OBVIOUS
  <1>1. ASSUME NEW t \in Threads, NEW id \in CallIds, NEW c \in Clients,
               NEW k \in Kinds, NEW writable \in BOOLEAN,
               Enter(t, id, c, k, writable)
        PROVE  AMO!Next
    BY <1>1, EnterRefines DEF AMO!Next
  <1>2. ASSUME NEW id \in CallIds, CallStep(id)
        PROVE  [AMO!Next]_AMO!vars
    <2>1. CASE ShortCircuit(id)
      BY <2>1, ShortCircuitRefines DEF AMO!Next
    <2>2. CASE DumpThrows(id)
      BY <2>2, DumpThrowsRefines DEF AMO!Next
    <2>3. CASE TransportError(id)
      BY <2>3, TransportErrorRefines DEF AMO!Next
    <2>4. CASE Succeed(id)
      BY <2>4, SucceedRefines DEF AMO!Next
    <2>5. CASE HandleResponseError(id)
      BY <2>5, HandleResponseErrorRefines DEF AMO!Next
    <2>6. CASE Send(id) \/ Receive(id) \/ CallbackReturns(id) \/ CallbackThrows(id)
      BY <2>6, SilentStep
    <2> QED
      BY <1>2, <2>1, <2>2, <2>3, <2>4, <2>5, <2>6
      DEF CallStep, ConnectionFails, RequestTimesOut, TransferTooSlow
  <1>3. ASSUME NEW m \in wire, NEW status \in StatusCodes,
               NEW done \in BOOLEAN, Process(m, status, done)
        PROVE  [AMO!Next]_AMO!vars
    <2>1. m.id \in CallIds
      BY DEF IInv, TypeOK
    <2> QED
      BY <1>3, <2>1, ProcessRefines DEF AMO!Next
  <1>4. CASE (\E m \in wire : Lose(m)) \/ (\E k \in valid : Revoke(k))
    BY <1>4 DEF Lose, Revoke, AMO!vars, Verdict
  <1>5. CASE UNCHANGED vars
    BY <1>5 DEF vars, AMO!vars, Verdict
  <1> QED
    BY <1>1, <1>2, <1>3, <1>4, <1>5 DEF Next, ServerStep

\* A libvault call keeps the promise of AtMostOnce: the result and the callbacks
\* tell the caller whether the effect happened, never will, or is in doubt.
THEOREM PromiseKept == Spec => KeepsPromise
  <1>1. Init => AMO!Init
    BY DEF Init, AMO!Init, Verdict
  <1>2. IInv /\ [Next]_vars => [AMO!Next]_AMO!vars
    BY StepRefines
  <1> QED
    BY <1>1, <1>2, Invariance, PTL DEF Spec, KeepsPromise, AMO!Spec
=============================================================================
