-------------------------- MODULE KeyValue_proofs --------------------------
(***************************************************************************)
(* Proofs about KeyValue, for any set of calls, any version numbers and    *)
(* either way a server treats repeated slashes: the writes that took       *)
(* effect are the ones stored, in an order the callers can rely on.        *)
(***************************************************************************)
EXTENDS KeyValue, SequenceTheorems, TLAPS

\* What a verdict says of the server, for every call.
Consistent ==
  \A id \in CallIds :
    /\ effects[id] \in {0, 1}
    /\ verdict[id] \in {"none", "refused"} => effects[id] = 0
    /\ verdict[id] = "done" => effects[id] = 1
    /\ effects[id] = 0 => reply[id] = NoReply

\* The writes stored are the calls that took effect, each in its place.
WritesStored ==
  /\ \A i \in 1..Len(writes) : effects[writes[i]] = 1
  /\ \A i, j \in 1..Len(writes) : writes[i] = writes[j] => i = j
  /\ \A id \in CallIds :
       IsWrite(id) /\ effects[id] = 1 => \E i \in 1..Len(writes) : writes[i] = id

\* What was known to be done when a call was made still is.
BeforeIsDone == \A id \in CallIds : \A b \in before[id] : verdict[b] = "done"

\* The newest version, if there is one, is by the last write.
NewestIsLast ==
  Len(versions) > 0 =>
    Len(writes) > 0 /\ versions[Len(versions)].by = writes[Len(writes)]

\* A reply was the last write at some time after the call was made.
RepliesAreFresh ==
  \A r \in CallIds :
    request[r] = read /\ reply[r] # NoReply =>
      \E n \in 1..Len(writes) :
        /\ writes[n] = reply[r]
        /\ \A w \in before[r] :
             IsWrite(w) => \E i \in 1..n : writes[i] = w

\* The inductive invariant.
IInv ==
  /\ KVTypeOK
  /\ Consistent
  /\ WritesStored
  /\ BeforeIsDone
  /\ WritesInOrder
  /\ NewestIsLast
  /\ RepliesAreFresh

\* A version of the secret.
Version == [by : CallIds, state : {"live", "deleted", "destroyed"}]

\* All the proofs need to know of an operation: create and update post or put to
\* an endpoint that stores.
IsOperation(o) ==
  /\ o.name \in {"create", "update"}
       => o.verb \in {"POST", "PUT"} /\ o.url.endpoint \in {"", "data"}
  /\ o.version \in Nat

\* The operations of KeyValue.cpp are such requests.
LEMMA Operated ==
  ASSUME NEW o \in Operations
  PROVE  IsOperation(o)
<1> USE DEF RequestOn, Request, Url, getUrl, getMetadataUrl, versionsUrl,
            IsOperation
<1>1. CASE o = list
  BY <1>1 DEF list
<1>2. CASE o = read
  BY <1>2 DEF read
<1>3. CASE o = create
  BY <1>3 DEF create
<1>4. CASE o = update
  BY <1>4 DEF update
<1>5. CASE o = del
  BY <1>5 DEF del
<1>6. CASE o = readConfig
  BY <1>6 DEF readConfig
<1>7. CASE o = readMetadata
  BY <1>7 DEF readMetadata
<1>8. CASE o = updateMetadata
  BY <1>8 DEF updateMetadata
<1>9. CASE o = deleteMetadata
  BY <1>9 DEF deleteMetadata
<1>10. CASE o = updateConfig
  BY <1>10 DEF updateConfig
<1>11. ASSUME NEW n \in VersionNumbers,
              o \in {readVersion(n), delVersions(n), destroy(n), undelete(n)}
       PROVE  IsOperation(o)
  <2>1. n \in Nat
    BY NumbersAssumption
  <2>2. CASE o = readVersion(n)
    BY <2>1, <2>2 DEF readVersion
  <2>3. CASE o = delVersions(n)
    BY <2>1, <2>3 DEF delVersions
  <2>4. CASE o = destroy(n)
    BY <2>1, <2>4 DEF destroy
  <2>5. CASE o = undelete(n)
    BY <2>1, <2>5 DEF undelete
  <2> QED BY <1>11, <2>2, <2>3, <2>4, <2>5
<1> QED
  BY <1>1, <1>2, <1>3, <1>4, <1>5, <1>6, <1>7, <1>8, <1>9, <1>10, <1>11
  DEF Operations

\* The operations depend on the engine's version alone.
LEMMA SameOperations ==
  ASSUME version_' = version_
  PROVE  Operations' = Operations /\ read' = read
<1> USE DEF RequestOn, Request, Url, getUrl, getMetadataUrl, versionsUrl
<1>1. /\ list' = list
      /\ read' = read
      /\ create' = create
      /\ update' = update
      /\ del' = del
  BY DEF list, read, create, update, del
<1>2. /\ readConfig' = readConfig
      /\ updateConfig' = updateConfig
      /\ readMetadata' = readMetadata
      /\ updateMetadata' = updateMetadata
      /\ deleteMetadata' = deleteMetadata
  BY DEF readConfig, updateConfig, readMetadata, updateMetadata, deleteMetadata
<1>3. \A n \in VersionNumbers :
        /\ readVersion(n)' = readVersion(n)
        /\ delVersions(n)' = delVersions(n)
        /\ destroy(n)' = destroy(n)
        /\ undelete(n)' = undelete(n)
  BY DEF readVersion, delVersions, destroy, undelete
<1> QED BY <1>1, <1>2, <1>3, Zenon DEF Operations

\* An engine nobody has called yet satisfies IInv.
LEMMA Initially == KVInit => IInv
<1> SUFFICES ASSUME KVInit PROVE IInv
  OBVIOUS
<1> USE DEF KVInit, Init
<1>1. KVTypeOK
  BY DEF KVTypeOK, TypeOK, Verdicts, Operations
<1>2. Consistent /\ BeforeIsDone
  BY DEF Consistent, BeforeIsDone
<1>3. WritesStored /\ WritesInOrder /\ NewestIsLast
  BY DEF WritesStored, WritesInOrder, NewestIsLast
<1>4. RepliesAreFresh
  BY DEF RepliesAreFresh
<1> QED BY <1>1, <1>2, <1>3, <1>4 DEF IInv

\* Making a call: nothing on the server changes, and the call is new.
LEMMA CallStep ==
  ASSUME IInv, NEW id \in CallIds, NEW o \in Operations, Call(id, o)
  PROVE  IInv'
<1> USE DEF IInv, Call, Invoke, engine
<1>1. effects[id] = 0 /\ reply[id] = NoReply
  BY DEF Consistent, KVTypeOK, TypeOK
<1>2. KVTypeOK'
  <2>1. Operations' = Operations
    BY SameOperations
  <2> QED BY <2>1 DEF KVTypeOK, TypeOK, Verdicts
<1>3. Consistent'
  BY DEF Consistent, KVTypeOK, TypeOK
<1>4. WritesStored'
  BY <1>1 DEF WritesStored, KVTypeOK, TypeOK, IsWrite
<1>5. BeforeIsDone'
  BY DEF BeforeIsDone, KVTypeOK, TypeOK
<1>6. WritesInOrder'
  BY <1>1, ElementOfSeq DEF WritesInOrder, WritesStored, KVTypeOK, TypeOK
<1>7. NewestIsLast'
  BY DEF NewestIsLast
<1>8. RepliesAreFresh'
  <2>1. read' = read
    BY SameOperations
  <2>2. ASSUME NEW r \in CallIds, (request[r] = read /\ reply[r] # NoReply)'
        PROVE  \E n \in 1..Len(writes) :
                 /\ writes[n] = reply[r]
                 /\ \A w \in before'[r] :
                      IsWrite(w)' => \E i \in 1..n : writes[i] = w
    <3>1. r # id
      BY <1>1, <2>2
    <3>2. request[r] = read /\ before'[r] = before[r]
      BY <2>1, <2>2, <3>1 DEF KVTypeOK
    <3>3. \A w \in before[r] : w # id /\ (IsWrite(w)' = IsWrite(w))
      BY DEF BeforeIsDone, KVTypeOK, IsWrite
    <3> QED BY <2>2, <3>2, <3>3 DEF RepliesAreFresh
  <2> QED BY <2>2 DEF RepliesAreFresh
<1> QED BY <1>2, <1>3, <1>4, <1>5, <1>6, <1>7, <1>8

\* Coming back from a call: only its verdict changes.
LEMMA ReturnStep ==
  ASSUME IInv, NEW id \in CallIds, NEW v \in {"done", "refused", "unknown"},
         Return(id, v)
  PROVE  IInv'
<1> USE DEF IInv, Return, Settle, engine
<1>1. KVTypeOK'
  <2>1. Operations' = Operations
    BY SameOperations
  <2> QED BY <2>1 DEF KVTypeOK, TypeOK, Verdicts
<1>2. Consistent'
  BY DEF Consistent, KVTypeOK, TypeOK
<1>3. WritesStored' /\ WritesInOrder' /\ NewestIsLast'
  BY DEF WritesStored, WritesInOrder, NewestIsLast, IsWrite
<1>4. BeforeIsDone'
  BY DEF BeforeIsDone, KVTypeOK, TypeOK
<1>5. RepliesAreFresh'
  <2>1. read' = read
    BY SameOperations
  <2> QED BY <2>1 DEF RepliesAreFresh, IsWrite
<1> QED BY <1>1, <1>2, <1>3, <1>4, <1>5

\* What every request the server carries out has in common.
LEMMA ServeFacts ==
  ASSUME IInv, NEW id \in CallIds, Serve(id)
  PROVE  /\ effects[id] = 0 /\ reply[id] = NoReply
         /\ effects' = [effects EXCEPT ![id] = 1]
         /\ UNCHANGED <<verdict, version_, mount_, request, before>>
         /\ \A r \in CallIds : before[r] \subseteq CallIds /\ id \notin before[r]
         /\ \A i \in 1..Len(writes) : writes[i] \in CallIds /\ writes[i] # id
         /\ IsOperation(request[id])
         /\ read' = read
<1> USE DEF IInv, Serve, TakeEffect, engine
<1>1. effects[id] = 0 /\ effects' = [effects EXCEPT ![id] = 1]
  OBVIOUS
<1>2. reply[id] = NoReply
  BY DEF Consistent
<1>3. \A r \in CallIds : before[r] \subseteq CallIds /\ id \notin before[r]
  BY DEF BeforeIsDone, KVTypeOK
<1>4. \A i \in 1..Len(writes) : writes[i] \in CallIds /\ writes[i] # id
  BY ElementOfSeq DEF WritesStored, KVTypeOK
<1>5. IsOperation(request[id])
  BY Operated DEF KVTypeOK
<1>6. read' = read
  BY SameOperations
<1> QED BY <1>1, <1>2, <1>3, <1>4, <1>5, <1>6

\* The parts of IInv that do not depend on which request it is.
LEMMA ServeConsistent ==
  ASSUME IInv, NEW id \in CallIds, Serve(id),
         reply' = reply \/ \E c \in CallIds : reply' = [reply EXCEPT ![id] = c],
         versions' \in Seq(Version), writes' \in Seq(CallIds)
  PROVE  KVTypeOK' /\ Consistent' /\ BeforeIsDone'
<1> USE DEF IInv, Serve, TakeEffect, engine
<1>1. KVTypeOK'
  BY SameOperations DEF KVTypeOK, TypeOK, Version
<1>2. Consistent'
  BY DEF Consistent, KVTypeOK, TypeOK
<1>3. BeforeIsDone'
  BY DEF BeforeIsDone
<1> QED BY <1>1, <1>2, <1>3

\* A write is a call that was not stored before, and goes to the end.
LEMMA ServeWriteStep ==
  ASSUME IInv, NEW id \in CallIds, Serve(id), ServeWrite(id, request[id])
  PROVE  IInv'
<1> DEFINE kept == IF version_ = "v1" THEN <<>> ELSE versions
           new  == [by |-> id, state |-> "live"]
<1>1. /\ versions' = kept \o <<new>>
      /\ writes' = Append(writes, id)
      /\ reply' = reply
  BY DEF ServeWrite
<1>2. kept \in Seq(Version) /\ writes \in Seq(CallIds) /\ new \in Version
  BY EmptySeq DEF IInv, KVTypeOK, Version
<1> HIDE DEF kept, new
<1>3. /\ versions' \in Seq(Version)
      /\ Len(versions') > 0
      /\ versions'[Len(versions')] = new
  <2>1. kept \o <<new>> = Append(kept, new)
    BY <1>2, AppendIsConcat
  <2> QED BY <1>1, <1>2, <2>1, AppendProperties, LenProperties
<1>4. /\ writes' \in Seq(CallIds)
      /\ Len(writes) \in Nat /\ Len(writes') = Len(writes) + 1
      /\ \A i \in 1..Len(writes) : writes'[i] = writes[i]
      /\ writes'[Len(writes')] = id
  BY <1>1, <1>2, AppendProperties, LenProperties
<1>5. KVTypeOK' /\ Consistent' /\ BeforeIsDone'
  BY <1>1, <1>3, <1>4, ServeConsistent
<1>6. WritesStored'
  <2>1. \A i \in 1..Len(writes') : effects'[writes'[i]] = 1
    <3>1. effects \in [CallIds -> Nat]
      BY DEF IInv, KVTypeOK, TypeOK
    <3>2. effects'[id] = 1
      BY <3>1, ServeFacts
    <3>3. \A i \in 1..Len(writes) : effects'[writes[i]] = 1
      BY <3>1, ServeFacts DEF IInv, WritesStored
    <3>4. ASSUME NEW i \in 1..Len(writes')
          PROVE  i \in 1..Len(writes) \/ i = Len(writes')
      BY <1>4
    <3> QED BY <1>4, <3>2, <3>3, <3>4
  <2>2. \A i, j \in 1..Len(writes') : writes'[i] = writes'[j] => i = j
    BY <1>4, ServeFacts DEF IInv, WritesStored
  <2>3. ASSUME NEW c \in CallIds, IsWrite(c)', effects'[c] = 1
        PROVE  \E i \in 1..Len(writes') : writes'[i] = c
    <3>1. CASE c = id
      BY <1>4, <3>1
    <3>2. CASE c # id
      <4>1. IsWrite(c) /\ effects[c] = 1
        BY <2>3, <3>2, ServeFacts DEF IsWrite, IInv, KVTypeOK, TypeOK
      <4> QED BY <1>4, <4>1 DEF IInv, WritesStored
    <3> QED BY <3>1, <3>2
  <2> QED BY <2>1, <2>2, <2>3 DEF WritesStored
<1>7. WritesInOrder'
  BY <1>4, ServeFacts DEF IInv, WritesInOrder
<1>8. NewestIsLast'
  BY <1>3, <1>4 DEF NewestIsLast, new
<1>9. RepliesAreFresh'
  <2>1. ASSUME NEW r \in CallIds, request'[r] = read', reply'[r] # NoReply
        PROVE  \E n \in 1..Len(writes') :
                 /\ writes'[n] = reply'[r]
                 /\ \A w \in before'[r] :
                      IsWrite(w)' => \E i \in 1..n : writes'[i] = w
    <3>1. request[r] = read /\ reply[r] # NoReply
      BY <1>1, <2>1, ServeFacts
    <3>2. PICK n \in 1..Len(writes) :
                 /\ writes[n] = reply[r]
                 /\ \A w \in before[r] :
                      IsWrite(w) => \E i \in 1..n : writes[i] = w
      BY <3>1 DEF IInv, RepliesAreFresh
    <3>3. n \in 1..Len(writes') /\ \A i \in 1..n : writes'[i] = writes[i]
      BY <1>4, <3>2
    <3>4. before' = before /\ request' = request
      BY ServeFacts
    <3> QED BY <1>1, <3>2, <3>3, <3>4 DEF IsWrite
  <2> QED BY <2>1 DEF RepliesAreFresh
<1> QED BY <1>5, <1>6, <1>7, <1>8, <1>9 DEF IInv

\* A request that is no write stores nothing, so only the reply and the newest
\* version are left to look at.
LEMMA ServeOtherwise ==
  ASSUME IInv, NEW id \in CallIds, Serve(id), writes' = writes,
         ~IsWrite(id),
         versions' \in Seq(Version),
         reply' = reply \/ \E c \in CallIds : reply' = [reply EXCEPT ![id] = c]
  PROVE  KVTypeOK' /\ Consistent' /\ BeforeIsDone' /\ WritesStored'
         /\ WritesInOrder'
<1>1. KVTypeOK' /\ Consistent' /\ BeforeIsDone'
  BY ServeConsistent DEF IInv, KVTypeOK
<1>2. WritesStored'
  BY ServeFacts DEF IInv, WritesStored, KVTypeOK, TypeOK, IsWrite
<1>3. WritesInOrder'
  BY ServeFacts DEF IInv, WritesInOrder
<1> QED BY <1>1, <1>2, <1>3

\* A read of no given version returns the newest one, which is by the last write.
LEMMA ServeReadStep ==
  ASSUME IInv, NEW id \in CallIds, Serve(id), ServeRead(id, request[id])
  PROVE  IInv'
<1> DEFINE o == request[id]
           n == IF o.version = 0 \/ version_ = "v1" THEN Len(versions) ELSE o.version
<1>1. /\ n \in 1..Len(versions)
      /\ reply' = [reply EXCEPT ![id] = versions[n].by]
      /\ versions' = versions /\ writes' = writes
      /\ o.verb = "GET"
  BY DEF ServeRead, Endpoint
<1>2. ~IsWrite(id)
  BY <1>1, ServeFacts DEF IsWrite, IsOperation
<1>3. versions \in Seq(Version) /\ Len(versions) \in Nat
  BY LenProperties DEF IInv, KVTypeOK, Version
<1>4. versions[n].by \in CallIds
  <2> HIDE DEF n
  <2>1. versions[n] \in Version
    BY <1>1, <1>3, ElementOfSeq
  <2> QED BY <2>1 DEF Version
<1>5. KVTypeOK' /\ Consistent' /\ BeforeIsDone' /\ WritesStored' /\ WritesInOrder'
  BY <1>1, <1>2, <1>3, <1>4, ServeOtherwise
<1>6. NewestIsLast'
  BY <1>1 DEF IInv, NewestIsLast
<1>7. RepliesAreFresh'
  <2>1. ASSUME NEW r \in CallIds, request'[r] = read', reply'[r] # NoReply
        PROVE  \E k \in 1..Len(writes') :
                 /\ writes'[k] = reply'[r]
                 /\ \A w \in before'[r] :
                      IsWrite(w)' => \E i \in 1..k : writes'[i] = w
    <3>1. CASE r # id
      <4>1. reply'[r] = reply[r]
        BY <1>1, <3>1 DEF IInv, KVTypeOK
      <4> QED BY <1>1, <2>1, <4>1, ServeFacts DEF IInv, RepliesAreFresh, IsWrite
    <3>2. CASE r = id
      <4>1. o = read
        BY <2>1, <3>2, ServeFacts
      <4>2. n = Len(versions)
        BY <4>1 DEF read, Request, RequestOn
      <4>3. Len(writes) \in Nat \ {0} /\ writes[Len(writes)] = versions[n].by
        BY <1>1, <1>3, <4>2, LenProperties DEF IInv, NewestIsLast, KVTypeOK
      <4>4. reply'[r] = writes'[Len(writes')]
        BY <1>1, <3>2, <4>3 DEF IInv, KVTypeOK
      <4>5. \A w \in before'[r] :
              IsWrite(w)' => \E i \in 1..Len(writes') : writes'[i] = w
        <5>1. \A w \in before[r] : w \in CallIds /\ effects[w] = 1
          BY ServeFacts DEF IInv, BeforeIsDone, Consistent
        <5> QED BY <1>1, <5>1, ServeFacts DEF IInv, WritesStored, IsWrite
      <4> QED BY <1>1, <4>3, <4>4, <4>5
    <3> QED BY <3>1, <3>2
  <2> QED BY <2>1 DEF RepliesAreFresh
<1> QED BY <1>5, <1>6, <1>7 DEF IInv

\* Deleting keeps no newest version, or the one there was.
LEMMA ServeQuietStep ==
  ASSUME IInv, NEW id \in CallIds, Serve(id),
         ServeDelete(request[id]) \/ ServeOther(request[id])
  PROVE  IInv'
<1>1. writes' = writes /\ reply' = reply
  BY DEF ServeDelete, ServeOther
<1>2. ~IsWrite(id)
  <2>1. ~(/\ request[id].verb \in {"POST", "PUT"}
          /\ request[id].url.endpoint \in {"", "data"})
    BY DEF ServeDelete, ServeOther, Endpoint
  <2> QED BY <2>1, ServeFacts DEF IsWrite, IsOperation
<1>3. versions \in Seq(Version) /\ Len(versions) \in Nat
  BY LenProperties DEF IInv, KVTypeOK, Version
<1>4. ASSUME NEW n, NEW from, NEW to \in {"live", "deleted", "destroyed"},
             versions' = SetState(n, from, to)
      PROVE  /\ versions' \in Seq(Version)
             /\ Len(versions') = Len(versions)
             /\ \A i \in 1..Len(versions) : versions'[i].by = versions[i].by
  <2>1. CASE versions' = versions
    BY <1>3, <2>1
  <2>2. CASE n \in 1..Len(versions)
             /\ versions' = [versions EXCEPT
                               ![n] = [by |-> versions[n].by, state |-> to]]
    <3>1. [by |-> versions[n].by, state |-> to] \in Version
      BY <1>3, <2>2, ElementOfSeq DEF Version
    <3> QED BY <1>3, <2>2, <3>1, ExceptSeq
  <2> QED BY <1>4, <2>1, <2>2 DEF SetState
<1>5. /\ versions' \in Seq(Version)
      /\ \/ Len(versions') = 0
         \/ /\ Len(versions') = Len(versions)
            /\ \A i \in 1..Len(versions) : versions'[i].by = versions[i].by
  <2>1. CASE versions' = <<>> \/ versions' = versions
    BY <1>3, <2>1, EmptySeq
  <2>2. CASE \E n, from : \E to \in {"live", "deleted", "destroyed"} :
               versions' = SetState(n, from, to)
    BY <1>4, <2>2
  <2> QED BY <2>1, <2>2 DEF ServeDelete, ServeOther
<1>6. KVTypeOK' /\ Consistent' /\ BeforeIsDone' /\ WritesStored' /\ WritesInOrder'
  BY <1>1, <1>2, <1>5, ServeOtherwise
<1>7. NewestIsLast'
  BY <1>1, <1>3, <1>5 DEF IInv, NewestIsLast
<1>8. RepliesAreFresh'
  BY <1>1, ServeFacts DEF IInv, RepliesAreFresh, IsWrite
<1> QED BY <1>6, <1>7, <1>8 DEF IInv

\* Every step keeps IInv, so it holds throughout.
THEOREM Invariance == KVSpec => []IInv
<1>1. ASSUME IInv, [KVNext]_kvVars
      PROVE  IInv'
  <2>1. CASE UNCHANGED kvVars
    <3>1. Operations' = Operations /\ read' = read
      BY <2>1, SameOperations DEF kvVars, engine
    <3> QED BY <1>1, <2>1, <3>1
            DEF kvVars, engine, IInv, KVTypeOK, TypeOK, Consistent, WritesStored,
                BeforeIsDone, WritesInOrder, NewestIsLast, RepliesAreFresh, IsWrite
  <2>2. ASSUME NEW id \in CallIds, NEW o \in Operations, Call(id, o)
        PROVE  IInv'
    BY <1>1, <2>2, CallStep
  <2>3. ASSUME NEW id \in CallIds, Serve(id)
        PROVE  IInv'
    BY <1>1, <2>3, ServeWriteStep, ServeReadStep, ServeQuietStep DEF Serve
  <2>4. ASSUME NEW id \in CallIds, NEW v \in {"done", "refused", "unknown"},
               Return(id, v)
        PROVE  IInv'
    BY <1>1, <2>4, ReturnStep
  <2> QED BY <1>1, <2>1, <2>2, <2>3, <2>4 DEF KVNext
<1> QED BY Initially, <1>1, PTL DEF KVSpec

\* Calls, versions and writes stay what they are meant to be.
THEOREM KVTypeCorrect == KVSpec => []KVTypeOK
<1>1. IInv => KVTypeOK
  BY DEF IInv
<1> QED BY <1>1, Invariance, PTL

\* Every write that returned a body is stored once (KeyValue::create, update),
\* and none that was refused.
THEOREM EveryWriteAccounted == KVSpec => []WritesAccounted
<1>1. IInv => WritesAccounted
  <2> SUFFICES ASSUME IInv PROVE WritesAccounted
    OBVIOUS
  <2>1. IsInjective(writes)
    BY LenProperties DEF IInv, WritesStored, KVTypeOK, IsInjective
  <2>2. ASSUME NEW id \in CallIds, IsWrite(id), verdict[id] = "done"
        PROVE  Contains(writes, id)
    BY <2>2 DEF IInv, Consistent, WritesStored, Contains
  <2>3. ASSUME NEW id \in CallIds, verdict[id] = "refused"
        PROVE  ~Contains(writes, id)
    BY <2>3 DEF IInv, Consistent, WritesStored, Contains
  <2> QED BY <2>1, <2>2, <2>3 DEF WritesAccounted
<1> QED BY <1>1, Invariance, PTL

\* A write made after another one had returned is stored after it.
THEOREM EveryWriteInOrder == KVSpec => []WritesInOrder
<1>1. IInv => WritesInOrder
  BY DEF IInv
<1> QED BY <1>1, Invariance, PTL

\* An answered read (KeyValue::read) returns nothing older than a write that had
\* returned when the read was made.
THEOREM EveryReadFresh == KVSpec => []ReadsAreFresh
<1>1. IInv => ReadsAreFresh
  <2> SUFFICES ASSUME IInv, NEW r \in CallIds, request[r] = read,
                      reply[r] # NoReply, NEW w \in before[r], IsWrite(w)
               PROVE  Position(w) <= Position(reply[r])
    BY DEF ReadsAreFresh
  <2>1. PICK n \in 1..Len(writes) :
               writes[n] = reply[r] /\ \E i \in 1..n : writes[i] = w
    BY DEF IInv, RepliesAreFresh
  <2>2. PICK i \in 1..n : writes[i] = w
    BY <2>1
  <2>3. Len(writes) \in Nat
    BY LenProperties DEF IInv, KVTypeOK
  <2>4. Position(w) = i /\ Position(reply[r]) = n
    BY <2>1, <2>2, <2>3 DEF IInv, WritesStored, Position
  <2> QED BY <2>1, <2>2, <2>3, <2>4
<1> QED BY <1>1, Invariance, PTL
=============================================================================
