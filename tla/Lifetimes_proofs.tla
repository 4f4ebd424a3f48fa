-------------------------- MODULE Lifetimes_proofs --------------------------
(* For any number of objects and functions, proofs of what Lifetimes claims. *)
EXTENDS Lifetimes, TLAPS

\* A function that is running refers to itself and its callers only: what an
\* object still has to read lives in a function that returns no sooner.
Nested ==
  \A i \in Ids :
    Live(i) =>
      /\ objects[i].frame <= depth
      /\ objects[i].kind # "client" =>
           \A r \in objects[i].refs :
             Live(r) /\ objects[r].frame <= objects[i].frame

\* The ids that are still free are of objects that are not there.
FreshIds == \A i \in Ids : i > born => ~Live(i)

\* Every object that holds settings, dead or alive, holds those that were meant.
AsMeant(o) ==
  /\ o.config = o.own
  /\ o.own.verify = o.meant.verify
  /\ o.own.host \in {o.meant.host, Lost}

AllAsMeant == \A i \in Ids : AsMeant(objects[i])

IInv == TypeOK /\ Nested /\ FreshIds /\ AllAsMeant

\* Every step keeps what is alive in the functions that go on as it is, and makes
\* at most objects of the function that runs next, which read what goes on.
Survives(i) ==
  Live(i) /\ objects[i].frame <= depth'
    => /\ objects'[i].frame = objects[i].frame
       /\ objects'[i].kind = objects[i].kind
       /\ objects'[i].refs = objects[i].refs

Made(i) ==
  /\ objects'[i].frame = depth' /\ i <= born'
  /\ objects'[i].kind # "client" =>
       \A r \in objects'[i].refs : Live(r) /\ objects[r].frame <= depth'

Kept(i) == Live(i) /\ objects[i].frame <= depth'

LEMMA StepShape ==
  ASSUME IInv, TypeOK', AllAsMeant', born <= born', depth' >= 1,
         \A i \in Ids : Survives(i),
         \A i \in Ids : Live(i)' => Kept(i) \/ Made(i)
  PROVE  IInv'
<1>1. /\ depth \in Nat /\ depth' \in Nat /\ born \in Nat /\ born' \in Nat
      /\ objects \in [Ids -> Objects] /\ objects' \in [Ids -> Objects]
  BY BoundsAssumption DEF IInv, TypeOK
<1>2. \A i \in Ids : objects[i].frame \in Nat /\ objects'[i].frame \in Nat
  BY <1>1, BoundsAssumption DEF Objects
<1>3. \A i \in Ids : /\ objects[i].refs \subseteq Ids
                     /\ objects'[i].refs \subseteq Ids
  BY <1>1 DEF Objects
<1>4. \A i \in Ids : Kept(i) => Live(i)' /\ objects'[i].frame = objects[i].frame
  BY DEF Survives, Live, Kept
<1>5. Nested'
  <2> SUFFICES ASSUME NEW i \in Ids, Live(i)'
               PROVE  /\ objects'[i].frame <= depth'
                      /\ objects'[i].kind # "client" =>
                           \A r \in objects'[i].refs :
                             Live(r)' /\ objects'[r].frame <= objects'[i].frame
    BY DEF Nested
  <2>1. CASE Kept(i)
    <3>1. /\ objects'[i].frame = objects[i].frame
          /\ objects'[i].kind = objects[i].kind
          /\ objects'[i].refs = objects[i].refs
          /\ Live(i) /\ objects[i].frame <= depth'
      BY <2>1 DEF Survives, Kept
    <3>2. ASSUME NEW r \in objects'[i].refs, objects'[i].kind # "client"
          PROVE  Live(r)' /\ objects'[r].frame <= objects'[i].frame
      <4>1. r \in Ids /\ Live(r) /\ objects[r].frame <= objects[i].frame
        BY <3>1, <3>2, <1>3 DEF IInv, Nested
      <4>2. Kept(r)
        BY <4>1, <3>1, <1>1, <1>2 DEF Kept
      <4> QED BY <4>1, <4>2, <3>1, <1>4
    <3> QED BY <3>1, <3>2
  <2>2. CASE Made(i)
    <3>1. ASSUME NEW r \in objects'[i].refs, objects'[i].kind # "client"
          PROVE  Live(r)' /\ objects'[r].frame <= objects'[i].frame
      <4>1. r \in Ids /\ Kept(r)
        BY <2>2, <3>1, <1>3 DEF Made, Kept
      <4> QED BY <4>1, <2>2, <1>4 DEF Made, Kept
    <3> QED BY <3>1, <2>2, <1>1 DEF Made
  <2> QED BY <2>1, <2>2
<1>6. FreshIds'
  <2> SUFFICES ASSUME NEW i \in Ids, i > born', Live(i)' PROVE FALSE
    BY DEF FreshIds
  <2>1. i > born
    BY <1>1 DEF Ids
  <2> QED BY <2>1, <1>1 DEF IInv, FreshIds, Kept, Made, Ids
<1> QED BY <1>5, <1>6 DEF IInv

\* A new object that reads only what is there.
LEMMA MakeKeeps ==
  ASSUME IInv, NEW o \in Objects, Make(o), o.frame = depth, AsMeant(o),
         o.kind # "client" => \A r \in o.refs : Live(r)
  PROVE  IInv'
<1>1. /\ depth \in 1..MaxDepth /\ born \in 0..MaxObjects /\ born < MaxObjects
      /\ born' = born + 1 /\ depth' = depth
      /\ objects' = [objects EXCEPT ![born + 1] = o]
      /\ objects \in [Ids -> Objects]
      /\ MaxObjects \in Nat /\ MaxDepth \in Nat
  BY BoundsAssumption DEF IInv, TypeOK, Make
<1>2. born + 1 \in Ids /\ ~Live(born + 1)
  BY <1>1 DEF IInv, FreshIds, Ids
<1>3. /\ objects'[born + 1] = o
      /\ \A i \in Ids : i # born + 1 => objects'[i] = objects[i]
      /\ objects' \in [Ids -> Objects]
  BY <1>1, <1>2
<1>4. TypeOK'
  BY <1>1, <1>3 DEF TypeOK
<1>5. AllAsMeant'
  BY <1>2, <1>3 DEF AllAsMeant, AsMeant, IInv
<1>6. \A i \in Ids : Survives(i)
  BY <1>2, <1>3 DEF Survives, Live
<1>7. \A i \in Ids : Live(i) => objects[i].frame <= depth'
  BY <1>1 DEF IInv, Nested
<1>8. \A i \in Ids : i # born + 1 /\ Live(i)' => Kept(i)
  BY <1>3, <1>7 DEF Live, Kept
<1>9. Made(born + 1)
  <2>1. \A r \in o.refs : r \in Ids
    BY DEF Objects
  <2> QED BY <2>1, <1>1, <1>3, <1>7 DEF Made
<1> QED BY <1>1, <1>4, <1>5, <1>6, <1>8, <1>9, StepShape

\* Setting a builder changes nothing that anything else goes by.
LEMMA SetKeeps ==
  ASSUME IInv, NEW b \in Ids, NEW o \in Objects, AsMeant(o),
         o.frame = objects[b].frame, o.refs = objects[b].refs,
         o.kind = objects[b].kind,
         objects' = [objects EXCEPT ![b] = o], UNCHANGED <<depth, born>>
  PROVE  IInv'
<1>1. objects \in [Ids -> Objects] /\ objects' \in [Ids -> Objects] /\ born <= born'
      /\ depth' >= 1
  BY BoundsAssumption DEF IInv, TypeOK
<1>2. /\ objects'[b] = o
      /\ \A i \in Ids : i # b => objects'[i] = objects[i]
  BY <1>1
<1>3. TypeOK' /\ AllAsMeant'
  BY <1>1, <1>2 DEF IInv, TypeOK, AllAsMeant, AsMeant
<1>4. \A i \in Ids : Survives(i) /\ (Live(i)' => Kept(i))
  BY <1>2 DEF Survives, Kept, Live, IInv, Nested
<1> QED BY <1>1, <1>3, <1>4, StepShape

\* The locals of a function die without being missed.
LEMMA SurvivorsKeep ==
  ASSUME IInv, depth > 1, depth' = depth - 1
  PROVE  /\ Survivors(depth) \in [Ids -> Objects]
         /\ \A i \in Ids :
              LET o == Survivors(depth)[i]
              IN  /\ AsMeant(o)
                  /\ Kept(i) => /\ o.frame = objects[i].frame
                                /\ o.kind = objects[i].kind
                                /\ o.refs = objects[i].refs
                  /\ o.frame # 0 => Kept(i)
         /\ depth' \in 1..MaxDepth
<1>1. /\ objects \in [Ids -> Objects] /\ depth \in 1 .. MaxDepth + 1
      /\ MaxDepth \in Nat /\ \A i \in Ids : objects[i].frame \in 0..MaxDepth
  BY BoundsAssumption DEF IInv, TypeOK, Objects
<1>2. \A i \in Ids : Survivors(depth)[i] = IF objects[i].frame = depth
                                            THEN [objects[i] EXCEPT !.frame = 0]
                                            ELSE objects[i]
  BY DEF Survivors
<1>3. ASSUME NEW i \in Ids
      PROVE  LET o == Survivors(depth)[i]
             IN  /\ o \in Objects
                 /\ AsMeant(o)
                 /\ Kept(i) => /\ o.frame = objects[i].frame
                               /\ o.kind = objects[i].kind
                               /\ o.refs = objects[i].refs
                 /\ o.frame # 0 => Kept(i)
  <2>1. objects[i] \in Objects /\ AsMeant(objects[i]) /\ 0 \in 0..MaxDepth
    BY <1>1 DEF IInv, AllAsMeant
  <2>2. /\ [objects[i] EXCEPT !.frame = 0] \in Objects
        /\ AsMeant([objects[i] EXCEPT !.frame = 0])
        /\ [objects[i] EXCEPT !.frame = 0].frame = 0
    BY <2>1 DEF Objects, AsMeant
  <2>3. CASE objects[i].frame = depth
    <3>1. Survivors(depth)[i] = [objects[i] EXCEPT !.frame = 0] /\ ~Kept(i)
      BY <2>3, <1>1, <1>2 DEF Kept
    <3> QED BY <3>1, <2>2
  <2>4. CASE objects[i].frame # depth
    <3>1. Survivors(depth)[i] = objects[i]
      BY <2>4, <1>2
    <3>2. objects[i].frame # 0 => Kept(i)
      BY <2>4, <1>1 DEF IInv, Nested, Live, Kept
    <3> QED BY <3>1, <3>2, <2>1
  <2> QED BY <2>3, <2>4
<1>4. Survivors(depth) \in [Ids -> Objects]
  BY <1>3 DEF Survivors
<1>5. depth' \in 1..MaxDepth
  BY <1>1
<1> QED BY <1>3, <1>4, <1>5

LEMMA ObjectIsOne ==
  ASSUME NEW like \in Objects, AsMeant(like), NEW kind \in Kinds,
         NEW frame \in 0..MaxDepth, NEW refs \in SUBSET Ids, NEW origin \in SUBSET Ids
  PROVE  LET o == Object(kind, frame, refs, origin, like)
         IN  /\ o \in Objects /\ AsMeant(o)
             /\ o.kind = kind /\ o.frame = frame /\ o.refs = refs
  BY DEF Object, Objects, AsMeant

LEMMA NoObjectIsOne == NoObject \in Objects /\ AsMeant(NoObject)
<1>1. DefaultSettings \in Settings
  BY DEF DefaultSettings, Settings
<1> QED
  BY <1>1, BoundsAssumption
  DEF NoObject, Objects, Kinds, AsMeant, DefaultSettings

LEMMA InitKeeps == Init => IInv
<1> SUFFICES ASSUME Init PROVE IInv
  OBVIOUS
<1>1. \A i \in Ids : objects[i] = NoObject /\ ~Live(i)
  BY DEF Init, Live, NoObject
<1>2. TypeOK
  BY <1>1, NoObjectIsOne, BoundsAssumption DEF Init, TypeOK
<1> QED
  BY <1>1, <1>2, NoObjectIsOne DEF IInv, Nested, FreshIds, AllAsMeant

LEMMA MakeObjectKeeps ==
  ASSUME IInv, NEW like \in Objects, AsMeant(like), NEW kind \in Kinds,
         NEW refs \in SUBSET Ids, NEW origin \in SUBSET Ids,
         Make(Object(kind, depth, refs, origin, like)),
         kind # "client" => \A r \in refs : Live(r)
  PROVE  IInv'
<1>1. depth \in 0..MaxDepth
  BY BoundsAssumption DEF Make
<1> QED BY <1>1, ObjectIsOne, MakeKeeps

LEMMA ReturnKeeps == IInv /\ Return => IInv'
<1> SUFFICES ASSUME IInv, Return PROVE IInv'
  OBVIOUS
<1>1. depth > 1 /\ depth' = depth - 1 /\ born' = born /\ objects' = Survivors(depth)
  BY DEF Return
<1>2. /\ objects' \in [Ids -> Objects]
      /\ \A i \in Ids :
           /\ AsMeant(objects'[i])
           /\ Kept(i) => /\ objects'[i].frame = objects[i].frame
                         /\ objects'[i].kind = objects[i].kind
                         /\ objects'[i].refs = objects[i].refs
           /\ objects'[i].frame # 0 => Kept(i)
      /\ depth' \in 1..MaxDepth
  BY <1>1, SurvivorsKeep
<1>3. TypeOK' /\ AllAsMeant' /\ born <= born' /\ depth' >= 1
  BY <1>1, <1>2, BoundsAssumption DEF IInv, TypeOK, AllAsMeant, AsMeant
<1>4. \A i \in Ids : Survives(i) /\ (Live(i)' => Kept(i))
  BY <1>2 DEF Survives, Kept, Live
<1> QED BY <1>3, <1>4, StepShape

LEMMA ReturnObjectKeeps ==
  ASSUME IInv, NEW j \in Ids, ReturnObject(j)
  PROVE  IInv'
<1> DEFINE o == Object(objects[j].kind, depth - 1, objects[j].refs,
                       objects[j].origin, objects[j])
<1>1. /\ depth > 1 /\ depth' = depth - 1 /\ born' = born + 1 /\ born < MaxObjects
      /\ objects' = [Survivors(depth) EXCEPT ![born + 1] = o]
      /\ Live(j) /\ Escapes(j)
  BY DEF ReturnObject
<1>2. /\ Survivors(depth) \in [Ids -> Objects]
      /\ \A i \in Ids :
           /\ AsMeant(Survivors(depth)[i])
           /\ Kept(i) => /\ Survivors(depth)[i].frame = objects[i].frame
                         /\ Survivors(depth)[i].kind = objects[i].kind
                         /\ Survivors(depth)[i].refs = objects[i].refs
           /\ Survivors(depth)[i].frame # 0 => Kept(i)
      /\ depth' \in 1..MaxDepth
  BY <1>1, SurvivorsKeep
<1>3. /\ objects[j] \in Objects /\ AsMeant(objects[j])
      /\ objects[j].kind \in Kinds /\ objects[j].refs \in SUBSET Ids
      /\ objects[j].origin \in SUBSET Ids /\ depth - 1 \in 0..MaxDepth
      /\ depth \in Nat /\ born \in 0..MaxObjects /\ MaxObjects \in Nat
      /\ \A i \in Ids : objects[i].frame \in Nat
  BY <1>1, <1>2, BoundsAssumption DEF IInv, TypeOK, AllAsMeant, Objects
<1>4. /\ o \in Objects /\ AsMeant(o) /\ o.kind = objects[j].kind
      /\ o.frame = depth - 1 /\ o.refs = objects[j].refs
  BY <1>3, ObjectIsOne
<1> HIDE DEF o
<1>5. born + 1 \in Ids /\ ~Live(born + 1)
  BY <1>1, <1>3 DEF IInv, FreshIds, Ids
<1>6. /\ objects'[born + 1] = o
      /\ \A i \in Ids : i # born + 1 => objects'[i] = Survivors(depth)[i]
      /\ objects' \in [Ids -> Objects]
  BY <1>1, <1>2, <1>4, <1>5
<1>7. TypeOK' /\ born <= born' /\ depth' >= 1
  BY <1>1, <1>2, <1>3, <1>6, BoundsAssumption DEF TypeOK
<1>8. AllAsMeant'
  BY <1>2, <1>4, <1>6 DEF AllAsMeant, AsMeant
<1>9. \A i \in Ids : Survives(i)
  BY <1>2, <1>5, <1>6 DEF Survives, Kept
<1>10. \A i \in Ids : i # born + 1 /\ Live(i)' => Kept(i)
  BY <1>2, <1>6 DEF Live
<1>11. Made(born + 1)
  <2>1. ASSUME NEW r \in o.refs, o.kind # "client"
        PROVE  Live(r) /\ objects[r].frame <= depth'
    <3>1. r \in Ids /\ objects[r].frame < depth
      BY <1>1, <1>3, <1>4, <2>1 DEF Escapes
    <3>2. Live(r)
      BY <1>1, <1>4, <2>1 DEF IInv, Nested
    <3> QED BY <3>1, <3>2, <1>1, <1>3
  <2> QED BY <2>1, <1>1, <1>3, <1>4, <1>6 DEF Made
<1> QED BY <1>7, <1>8, <1>9, <1>10, <1>11, StepShape

LEMMA MoveKeeps ==
  ASSUME IInv, NEW b \in Ids, MoveConfig(b)
  PROVE  IInv'
<1> DEFINE o == Object("config", depth, {}, {}, objects[b])
<1>1. PICK host \in {objects[b].config.host, Lost} :
        objects' = [objects EXCEPT ![born + 1] = o,
                                   ![b].config.host = host, ![b].own.host = host]
  BY DEF MoveConfig
<1>2. /\ Is(b, "builder") /\ depth \in 1..MaxDepth /\ born < MaxObjects
      /\ born' = born + 1 /\ depth' = depth
      /\ born \in 0..MaxObjects /\ MaxObjects \in Nat /\ MaxDepth \in Nat
      /\ objects \in [Ids -> Objects]
  BY BoundsAssumption DEF MoveConfig, IInv, TypeOK
<1>3. objects[b] \in Objects /\ AsMeant(objects[b])
  BY <1>2 DEF IInv, AllAsMeant
<1>4. born + 1 \in Ids /\ ~Live(born + 1) /\ born + 1 # b
  BY <1>2 DEF IInv, FreshIds, Ids, Is
<1>5. o \in Objects /\ AsMeant(o) /\ o.frame = depth /\ o.refs = {}
  <2>1. "config" \in Kinds /\ depth \in 0..MaxDepth /\ {} \in SUBSET Ids
    BY <1>2 DEF Kinds
  <2> QED BY <2>1, <1>3, ObjectIsOne
<1> HIDE DEF o
<1> DEFINE p == [objects[b] EXCEPT !.config.host = host, !.own.host = host]
<1>6. /\ p \in Objects /\ AsMeant(p)
      /\ p.frame = objects[b].frame /\ p.kind = objects[b].kind
      /\ p.refs = objects[b].refs
  <2>1. /\ objects[b].config \in Settings /\ objects[b].own \in Settings
        /\ objects[b].config.host = objects[b].own.host
        /\ host \in Hosts \cup {DefaultHost, Lost}
    BY <1>3 DEF Objects, Settings, AsMeant
  <2>2. /\ [objects[b].config EXCEPT !.host = host] \in Settings
        /\ [objects[b].own EXCEPT !.host = host] \in Settings
    BY <2>1 DEF Settings
  <2>3. /\ p.config = [objects[b].config EXCEPT !.host = host]
        /\ p.own = [objects[b].own EXCEPT !.host = host]
        /\ p.meant = objects[b].meant /\ p \in Objects
        /\ p.frame = objects[b].frame /\ p.kind = objects[b].kind
        /\ p.refs = objects[b].refs
    BY <1>3, <2>2 DEF Objects
  <2>4. AsMeant(p)
    BY <1>3, <2>1, <2>3 DEF AsMeant, Settings
  <2> QED BY <2>3, <2>4
<1> HIDE DEF p
<1>7. /\ objects'[born + 1] = o /\ objects'[b] = p
      /\ \A i \in Ids : i # born + 1 /\ i # b => objects'[i] = objects[i]
      /\ objects' \in [Ids -> Objects]
  <2>1. objects' = [objects EXCEPT ![born + 1] = o, ![b] = p]
    BY <1>1, <1>2, <1>4 DEF p
  <2> QED BY <2>1, <1>2, <1>4, <1>5, <1>6
<1>8. TypeOK' /\ born <= born' /\ depth' >= 1
  BY <1>2, <1>7 DEF TypeOK
<1>9. AllAsMeant'
  BY <1>5, <1>6, <1>7 DEF AllAsMeant, AsMeant, IInv
<1>10. \A i \in Ids : Survives(i)
  BY <1>4, <1>6, <1>7 DEF Survives
<1>11. \A i \in Ids : i # born + 1 /\ Live(i)' => Kept(i)
  BY <1>2, <1>6, <1>7 DEF Live, Kept, IInv, Nested
<1>12. Made(born + 1)
  BY <1>2, <1>5, <1>7 DEF Made
<1> QED BY <1>8, <1>9, <1>10, <1>11, <1>12, StepShape

LEMMA NextKeeps == IInv /\ [Next]_vars => IInv'
<1> SUFFICES ASSUME IInv, [Next]_vars PROVE IInv'
  OBVIOUS
<1>0. /\ \A k \in {"builder", "config", "token", "strategy", "client", "engine"} : k \in Kinds
      /\ {} \in SUBSET Ids
      /\ \A i \in Ids : {i} \in SUBSET Ids
      /\ \A i \in Ids : /\ objects[i] \in Objects /\ AsMeant(objects[i])
                        /\ objects[i].refs \in SUBSET Ids
                        /\ objects[i].origin \in SUBSET Ids
  BY DEF Kinds, IInv, TypeOK, AllAsMeant, Objects
<1>1. CASE MakeBuilder
  BY <1>0, <1>1, NoObjectIsOne, MakeObjectKeeps DEF MakeBuilder
<1>2. CASE MakeToken
  BY <1>0, <1>2, NoObjectIsOne, MakeObjectKeeps DEF MakeToken
<1>3. CASE MakeStrategy
  BY <1>0, <1>3, NoObjectIsOne, MakeObjectKeeps DEF MakeStrategy
<1>4. ASSUME NEW i \in Ids, CopyConfig(i) PROVE IInv'
  BY <1>0, <1>4, MakeObjectKeeps DEF CopyConfig
<1>5. ASSUME NEW i \in Ids, MoveConfig(i) PROVE IInv'
  BY <1>5, MoveKeeps
<1>6. ASSUME NEW i \in Ids, MakeWrappedStrategy(i) PROVE IInv'
  BY <1>0, <1>6, NoObjectIsOne, MakeObjectKeeps DEF MakeWrappedStrategy, Is
<1>7. ASSUME NEW i \in Ids, NEW s \in Ids, MakeClient(i, s) PROVE IInv'
  BY <1>0, <1>7, MakeObjectKeeps DEF MakeClient
<1>8. ASSUME NEW i \in Ids, Derive(i) PROVE IInv'
  BY <1>0, <1>8, MakeObjectKeeps DEF Derive
<1>9. ASSUME NEW i \in Ids, MakeEngine(i) PROVE IInv'
  BY <1>0, <1>9, NoObjectIsOne, MakeObjectKeeps DEF MakeEngine, Is
<1>10. ASSUME NEW i \in Ids, NEW host \in Hosts, With(i, host) PROVE IInv'
  <2>1. PICK settings : settings = [host |-> host, verify |-> FALSE]
    OBVIOUS
  <2>2. settings \in Settings /\ settings.host = host
    BY <2>1 DEF Settings
  <2>3. PICK o : o = [kind |-> objects[i].kind, frame |-> objects[i].frame,
                      refs |-> objects[i].refs, origin |-> objects[i].origin,
                      own |-> settings, config |-> settings, meant |-> settings]
    OBVIOUS
  <2>4. /\ o \in Objects /\ AsMeant(o) /\ o.frame = objects[i].frame
        /\ o.refs = objects[i].refs /\ o.kind = objects[i].kind
    BY <1>0, <2>2, <2>3 DEF Objects, AsMeant
  <2>5. objects' = [objects EXCEPT ![i] = o] /\ UNCHANGED <<depth, born>>
    <3>1. objects \in [Ids -> Objects] /\ objects[i] \in Objects
      BY DEF IInv, TypeOK
    <3>2. objects' = [objects EXCEPT ![i].config = settings, ![i].own = settings,
                                     ![i].meant = settings]
      BY <1>10, <2>1 DEF With
    <3>3. objects'[i] = o
      BY <2>3, <3>1, <3>2 DEF Objects
    <3>4. objects' = [objects EXCEPT ![i] = objects'[i]]
      BY <3>1, <3>2
    <3> QED BY <1>10, <3>3, <3>4 DEF With
  <2> QED BY <2>4, <2>5, SetKeeps
<1>11. ASSUME NEW i \in Ids, ReturnObject(i) PROVE IInv'
  BY <1>11, ReturnObjectKeeps
<1>12. CASE Enter
  <2>1. /\ depth' = depth + 1 /\ depth < MaxDepth /\ UNCHANGED <<born, objects>>
        /\ depth \in 1 .. MaxDepth + 1 /\ MaxDepth \in Nat
        /\ \A i \in Ids : objects[i].frame \in Nat
    BY <1>0, <1>12, BoundsAssumption DEF Enter, IInv, TypeOK, Objects
  <2> QED BY <2>1 DEF IInv, TypeOK, Nested, FreshIds, AllAsMeant, AsMeant, Live
<1>13. CASE Return
  BY <1>13, ReturnKeeps
<1>14. CASE UNCHANGED vars
  BY <1>14 DEF vars, IInv, TypeOK, Nested, FreshIds, AllAsMeant, AsMeant, Live
<1> QED
  BY <1>1, <1>2, <1>3, <1>4, <1>5, <1>6, <1>7, <1>8, <1>9, <1>10, <1>11, <1>12,
     <1>13, <1>14
  DEF Next

\* The invariant holds in every reachable state.
THEOREM LifetimesInvariance == Spec => []IInv
<1>1. Init => IInv
  BY InitKeeps
<1>2. IInv /\ [Next]_vars => IInv'
  BY NextKeeps
<1> QED BY <1>1, <1>2, PTL DEF Spec

\* No engine and no strategy that a program can still use reads an object that is
\* gone, whatever functions make and return.
THEOREM NothingDangles == Spec => []UsesAreLive
<1>1. IInv => UsesAreLive
  BY DEF IInv, Nested, UsesAreLive, Reads
<1> QED BY <1>1, LifetimesInvariance, PTL

\* Clients go by the settings their builder was given before they were made.
THEOREM ConfiguredForLife == Spec => []ActsAsConfigured
<1>1. IInv => ActsAsConfigured
  BY DEF IInv, AllAsMeant, AsMeant, ActsAsConfigured, HttpConfig, Is, Live
<1> QED BY <1>1, LifetimesInvariance, PTL
=============================================================================
