----------------------------- MODULE Lifetimes -----------------------------
(***************************************************************************)
(* The objects of a program that uses the library, and who refers to whom. *)
(* ConfigBuilder::build hands out a reference into the builder, a client   *)
(* keeps a reference to its strategy, WrappedSecretAppRoleStrategy one to  *)
(* its token, an engine one to its client; Config, HttpClient and the      *)
(* settings of a client are copies.  Objects are locals of the functions   *)
(* that are running; a function may return one of its own, as the login    *)
(* helpers of the tests and examples return the client they have made.     *)
(***************************************************************************)
EXTENDS Integers, FiniteSets

CONSTANTS
  Hosts,       \* what withHost is given; withPort, withNamespace are alike
  Lost,        \* what is left of a string that was moved from
  MaxObjects,  \* objects a program makes, those that have died included
  MaxDepth     \* functions that are running at once

ASSUME LostAssumption == Lost \notin Hosts
ASSUME BoundsAssumption == MaxObjects \in Nat /\ MaxDepth \in Nat

VARIABLES
  depth,    \* functions that are running
  born,     \* objects made so far
  objects   \* the objects, in the order in which they were made

vars == <<depth, born, objects>>

Ids == 1..MaxObjects

DefaultHost == "localhost"

\* A string stands for all settings that are strings, a flag for the others.
Settings == [host : Hosts \cup {DefaultHost, Lost}, verify : BOOLEAN]

DefaultSettings == [host |-> DefaultHost, verify |-> TRUE]

Kinds == {"unborn", "builder", "config", "token", "strategy", "client", "engine"}

\* own is what a client itself goes by, config what its HttpClient goes by, and
\* the one config of a builder or Config.  meant is what the application has
\* asked for with the calls that led to the object, origin the builder or Config
\* a client was made with.
Objects ==
  [kind : Kinds, frame : 0..MaxDepth, refs : SUBSET Ids, origin : SUBSET Ids,
   own : Settings, config : Settings, meant : Settings]

NoObject ==
  [kind |-> "unborn", frame |-> 0, refs |-> {}, origin |-> {},
   own |-> DefaultSettings, config |-> DefaultSettings, meant |-> DefaultSettings]

TypeOK ==
  /\ depth \in 1 .. MaxDepth + 1
  /\ born \in 0..MaxObjects
  /\ objects \in [Ids -> Objects]

Init ==
  /\ depth = 1
  /\ born = 0
  /\ objects = [i \in Ids |-> NoObject]

Live(i) == i \in Ids /\ objects[i].frame # 0

Is(i, kind) == Live(i) /\ objects[i].kind = kind

-----------------------------------------------------------------------------
(* Making objects.                                                         *)

\* One more object, in the function that is running.
Make(object) ==
  /\ depth \in 1..MaxDepth /\ born < MaxObjects
  /\ born' = born + 1
  /\ objects' = [objects EXCEPT ![born + 1] = object]
  /\ UNCHANGED depth

\* An object of a function, with the settings of another one.
Object(kind, frame, refs, origin, like) ==
  [kind |-> kind, frame |-> frame, refs |-> refs, origin |-> origin,
   own |-> like.own, config |-> like.config, meant |-> like.meant]

MakeBuilder == Make(Object("builder", depth, {}, {}, NoObject))

MakeToken == Make(Object("token", depth, {}, {}, NoObject))

\* Config c = builder.build() or Config c = other: a copy either way.
CopyConfig(b) ==
  /\ Is(b, "builder") \/ Is(b, "config")
  /\ Make(Object("config", depth, {}, {}, objects[b]))

\* The other strategies hold their credentials by value.
MakeStrategy == Make(Object("strategy", depth, {}, {}, NoObject))

MakeWrappedStrategy(t) ==
  /\ Is(t, "token")
  /\ Make(Object("strategy", depth, {t}, {}, NoObject))

\* Client(Config &, AuthenticationStrategy &, ...) copies the configuration twice
\* and calls the strategy.
MakeClient(b, s) ==
  /\ Is(b, "builder") \/ Is(b, "config")
  /\ Is(s, "strategy")
  /\ Make(Object("client", depth, {s}, {b}, objects[b]))

\* Client(const Client &, Token), and the copying constructor, which differs from
\* it in the token only.
Derive(c) ==
  /\ Is(c, "client")
  /\ Make(Object("client", depth, objects[c].refs, objects[c].origin, objects[c]))

MakeEngine(c) ==
  /\ Is(c, "client")
  /\ Make(Object("engine", depth, {c}, {}, NoObject))

-----------------------------------------------------------------------------
(* Using them.                                                             *)

\* withHost and withTlsVerification(false), on a builder that may have served.
With(b, host) ==
  LET settings == [host |-> host, verify |-> FALSE]
  IN  /\ Is(b, "builder")
      /\ objects' = [objects EXCEPT ![b].config = settings, ![b].own = settings,
                                    ![b].meant = settings]
      /\ UNCHANGED <<depth, born>>

\* The conversion of a builder to Config&& moves the strings out of it.
MoveConfig(b) ==
  /\ Is(b, "builder")
  /\ depth \in 1..MaxDepth /\ born < MaxObjects
  /\ born' = born + 1
  /\ \E host \in {objects[b].config.host, Lost} :
       objects' = [objects EXCEPT
         ![born + 1] = Object("config", depth, {}, {}, objects[b]),
         ![b].config.host = host, ![b].own.host = host]
  /\ UNCHANGED depth

\* What an object reads when it is used.  An operation of an engine reads its
\* client: the url is made of the client's own settings, the transfer goes by
\* those of its HttpClient.  A strategy reads its token, when a client is made.
Reads_Relogin(i) ==
  objects[i].refs \cup UNION {objects[c].refs : c \in objects[i].refs}

Reads(i) == IF objects[i].kind = "client" THEN {} ELSE objects[i].refs

\* What a client's HttpClient goes by.
HttpConfig_ByReference(c) ==
  IF objects[c].origin = {} THEN objects[c].config
  ELSE objects[CHOOSE b \in objects[c].origin : TRUE].config

HttpConfig(c) == objects[c].config

Enter ==
  /\ depth < MaxDepth
  /\ depth' = depth + 1
  /\ UNCHANGED <<born, objects>>

\* The locals of the function that returns die.
Survivors(d) ==
  [i \in Ids |-> IF objects[i].frame = d THEN [objects[i] EXCEPT !.frame = 0]
                 ELSE objects[i]]

Return ==
  /\ depth > 1
  /\ depth' = depth - 1
  /\ objects' = Survivors(depth)
  /\ UNCHANGED born

\* A function returns one of its locals by value.  An application must not return
\* an engine without its client, or a strategy without its token; what a client
\* refers to it need not keep.
Escapes(i) ==
  \/ objects[i].kind = "client"
  \/ \A r \in objects[i].refs : objects[r].frame < depth

ReturnObject(i) ==
  /\ depth > 1 /\ born < MaxObjects
  /\ Live(i) /\ objects[i].frame = depth /\ Escapes(i)
  /\ depth' = depth - 1
  /\ born' = born + 1
  /\ objects' = [Survivors(depth) EXCEPT
                   ![born + 1] = Object(objects[i].kind, depth - 1,
                                        objects[i].refs, objects[i].origin,
                                        objects[i])]

Next ==
  \/ MakeBuilder \/ MakeToken \/ MakeStrategy
  \/ \E i \in Ids :
       \/ CopyConfig(i) \/ MoveConfig(i)
       \/ MakeWrappedStrategy(i)
       \/ \E s \in Ids : MakeClient(i, s)
       \/ Derive(i) \/ MakeEngine(i)
       \/ \E host \in Hosts : With(i, host)
       \/ ReturnObject(i)
  \/ Enter \/ Return

Spec == Init /\ [][Next]_vars

-----------------------------------------------------------------------------
(* Correctness.                                                            *)

\* Nothing a program can still use reads an object that is gone: a strategy and
\* its token have to outlive the construction of a client and no more, and so do
\* a Config and its builder, whatever functions clients are handed on by.
UsesAreLive == \A i \in Ids : Live(i) => \A r \in Reads(i) : Live(r)

\* A client, and every client derived from it, goes by what its builder was told
\* before it was made, in its urls as in its transfers, whatever becomes of the
\* builder later; save for a builder that had been moved from.
ActsAsConfigured ==
  \A c \in Ids :
    Is(c, "client") =>
      /\ HttpConfig(c) = objects[c].own
      /\ objects[c].own.verify = objects[c].meant.verify
      /\ objects[c].own.host \in {objects[c].meant.host, Lost}
=============================================================================
