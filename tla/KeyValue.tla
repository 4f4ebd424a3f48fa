------------------------------ MODULE KeyValue ------------------------------
(***************************************************************************)
(* The key/value engine (src/engines/KeyValue.cpp) on top of the promise   *)
(* HttpConsumer keeps (AtMostOnce): which request each operation makes,    *)
(* which it refuses to make for the engine's version, and what many calls, *)
(* some of them in doubt, do to one secret.  The state machine of the      *)
(* secret itself is the Vault server's, external to the repository.        *)
(***************************************************************************)
EXTENDS AtMostOnce, SequencesExt

CONSTANTS
  MergesSlashes,  \* whether the server reads repeated slashes as one, as the
                  \* README's mount "/test" takes for granted; one that redirects
                  \* instead is not reached: libvault follows no redirect
  VersionNumbers, \* the secret versions calls name
  NoReply         \* a call that has not read a version

ASSUME MergesAssumption == MergesSlashes \in BOOLEAN
ASSUME NumbersAssumption == VersionNumbers \subseteq Nat \ {0}

VARIABLES
  version_,   \* KeyValue::version_
  mount_,     \* KeyValue::mount_, written with or without a leading slash
  request,    \* what each call asks for
  before,     \* the calls settled as done when each call was made
  reply,      \* the call whose write an answered read returned
  versions,   \* the versions of the secret, oldest first
  writes      \* every write the server has carried out, oldest first

engine == <<version_, mount_>>

kvVars == <<verdict, effects, engine, request, before, reply, versions, writes>>

-----------------------------------------------------------------------------
(* The operations.  A URL is the text the mount is appended to, the        *)
(* endpoint below the mount and whether the path of the secret follows.    *)

Url(root, endpoint, path) == [root |-> root, endpoint |-> endpoint, path |-> path]

getUrl(path) ==
  IF version_ = "v1" THEN Url("/v1/", "", path) ELSE Url("/v1/", "data", path)

getMetadataUrl(path) == Url("/v1/", "metadata", path)

RequestOn(n, name, verb, url) ==
  [name |-> name, verb |-> verb, url |-> url, version |-> n]

\* A request that names no version of the secret.
Request(name, verb, url) == RequestOn(0, name, verb, url)

list == Request("list", "LIST",
                IF version_ = "v1" THEN getUrl("") ELSE getMetadataUrl(""))

read == Request("read", "GET", getUrl("secret"))

\* read(path + "?version=" + n); version_ is not consulted.
readVersion(n) == RequestOn(n, "read", "GET", getUrl("secret"))

create == Request("create", "POST", getUrl("secret"))

update == Request("update", "PUT", getUrl("secret"))

del == Request("del", "DELETE", getUrl("secret"))

\* The three operations on versions append the mount to "/v1", without a slash.
versionsUrl(endpoint) == Url("/v1", endpoint, "secret")

delVersions(n) == RequestOn(n, "delVersions", "POST", versionsUrl("delete"))

destroy(n) == RequestOn(n, "destroy", "POST", versionsUrl("destroy"))

undelete(n) == RequestOn(n, "undelete", "POST", versionsUrl("undelete"))

readConfig == Request("readConfig", "GET", Url("/v1/", "config", ""))

updateConfig == Request("updateConfig", "POST", Url("/v1/", "config", ""))

readMetadata == Request("readMetadata", "GET", getMetadataUrl("secret"))

updateMetadata == Request("updateMetadata", "POST", getMetadataUrl("secret"))

deleteMetadata == Request("deleteMetadata", "DELETE", getMetadataUrl("secret"))

Operations ==
  {list, read, create, update, del, readConfig, updateConfig, readMetadata,
   updateMetadata, deleteMetadata} \cup
  UNION {{readVersion(n), delVersions(n), destroy(n), undelete(n)} :
           n \in VersionNumbers}

V1Only == {"update"}

V2Only == {"delVersions", "destroy", "undelete", "readConfig", "updateConfig",
           "readMetadata", "updateMetadata", "deleteMetadata"}

\* The early returns: the operation exists for the engine's version.
Offered(o) == o.name \notin (IF version_ = "v1" THEN V2Only ELSE V1Only)

-----------------------------------------------------------------------------
KVTypeOK ==
  /\ TypeOK
  /\ version_ \in {"v1", "v2"} /\ mount_ \in {"bare", "slashed"}
  /\ request \in [CallIds -> Operations]
  /\ before \in [CallIds -> SUBSET CallIds]
  /\ reply \in [CallIds -> CallIds \cup {NoReply}]
  /\ versions \in Seq([by : CallIds, state : {"live", "deleted", "destroyed"}])
  /\ writes \in Seq(CallIds)

\* The engine's object exists, constructed one way or another.
KVInit ==
  /\ Init
  /\ version_ \in {"v1", "v2"} /\ mount_ \in {"bare", "slashed"}
  /\ request = [id \in CallIds |-> list]
  /\ before = [id \in CallIds |-> {}]
  /\ reply = [id \in CallIds |-> NoReply]
  /\ versions = <<>>
  /\ writes = <<>>

Call_Unversioned(id, o) ==
  /\ Invoke(id)
  /\ request' = [request EXCEPT ![id] = [o EXCEPT !.version = 0]]
  /\ before' = [before EXCEPT ![id] = {c \in CallIds : verdict[c] = "done"}]
  /\ UNCHANGED <<engine, reply, versions, writes>>

Call(id, o) ==
  /\ Invoke(id)
  /\ request' = [request EXCEPT ![id] = o]
  /\ before' = [before EXCEPT ![id] = {c \in CallIds : verdict[c] = "done"}]
  /\ UNCHANGED <<engine, reply, versions, writes>>

Return_Optimistic(id, v) ==
  /\ verdict[id] = "pending"
  /\ verdict' = [verdict EXCEPT ![id] = IF v = "unknown" THEN "done" ELSE v]
  /\ UNCHANGED <<effects, engine, request, before, reply, versions, writes>>

Return(id, v) ==
  /\ Settle(id, v)
  /\ ~Offered(request[id]) => v = "refused"
  /\ UNCHANGED <<engine, request, before, reply, versions, writes>>

-----------------------------------------------------------------------------
(* The Vault server, external to the repository: one secret of one mount.  *)

\* "/v1" and the mount need one slash between them.
Reached(o) ==
  IF mount_ = "slashed" THEN o.url.root = "/v1" \/ MergesSlashes
  ELSE o.url.root = "/v1/"

Endpoint(o) == <<o.verb, o.url.endpoint>>

SetState(n, from, to) ==
  IF n \in 1..Len(versions) /\ versions[n].state \in from
  THEN [versions EXCEPT ![n] = [by |-> versions[n].by, state |-> to]]
  ELSE versions

ServeWrite(id, o) ==
  /\ Endpoint(o) \in {"POST", "PUT"} \X {"", "data"}
  /\ versions' = (IF version_ = "v1" THEN <<>> ELSE versions) \o
                 <<[by |-> id, state |-> "live"]>>
  /\ writes' = Append(writes, id)
  /\ UNCHANGED reply

\* Version 0, like no version at all, is the newest one; a v1 mount has no other.
ServeRead(id, o) ==
  /\ Endpoint(o) \in {"GET"} \X {"", "data"}
  /\ LET n == IF o.version = 0 \/ version_ = "v1" THEN Len(versions) ELSE o.version
     IN  /\ n \in 1..Len(versions) /\ versions[n].state = "live"
         /\ reply' = [reply EXCEPT ![id] = versions[n].by]
  /\ UNCHANGED <<versions, writes>>

ServeDelete(o) ==
  /\ CASE Endpoint(o) = <<"DELETE", "">> -> versions' = <<>>
       [] Endpoint(o) = <<"DELETE", "metadata">> -> versions' = <<>>
       [] Endpoint(o) = <<"DELETE", "data">> ->
            versions' = SetState(Len(versions), {"live"}, "deleted")
       [] Endpoint(o) = <<"POST", "delete">> ->
            versions' = SetState(o.version, {"live"}, "deleted")
       [] Endpoint(o) = <<"POST", "undelete">> ->
            versions' = SetState(o.version, {"deleted"}, "live")
       [] Endpoint(o) = <<"POST", "destroy">> ->
            versions' = SetState(o.version, {"live", "deleted"}, "destroyed")
       [] OTHER -> FALSE
  /\ UNCHANGED <<reply, writes>>

\* Listing, configuration and metadata leave the versions alone.
ServeOther(o) ==
  /\ \/ o.verb = "LIST"
     \/ Endpoint(o) \in {"GET", "POST"} \X {"config", "metadata"}
  /\ UNCHANGED <<reply, versions, writes>>

Serve(id) ==
  /\ TakeEffect(id)
  /\ Offered(request[id]) /\ Reached(request[id])
  /\ \/ ServeWrite(id, request[id])
     \/ ServeRead(id, request[id])
     \/ ServeDelete(request[id])
     \/ ServeOther(request[id])
  /\ UNCHANGED <<engine, request, before>>

KVNext ==
  \E id \in CallIds :
    \/ \E o \in Operations : Call(id, o)
    \/ Serve(id)
    \/ \E v \in {"done", "refused", "unknown"} : Return(id, v)

KVSpec == KVInit /\ [][KVNext]_kvVars

-----------------------------------------------------------------------------
(* Correctness.                                                            *)

IsWrite(id) == request[id].name \in {"create", "update"}

Position(id) == CHOOSE n \in 1..Len(writes) : writes[n] = id

\* Every write that returned a body is stored once, a write that was refused
\* never is, and a write in doubt is stored at most once.
WritesAccounted ==
  /\ IsInjective(writes)
  /\ \A id \in CallIds :
       IsWrite(id) => CASE verdict[id] = "done" -> Contains(writes, id)
                        [] verdict[id] = "refused" -> ~Contains(writes, id)
                        [] OTHER -> TRUE

\* A write made after another one had returned its body is stored after it, even
\* when it is itself in doubt.
WritesInOrder ==
  \A i, j \in 1..Len(writes) : writes[i] \in before[writes[j]] => i < j

\* An answered read returns no version older than a write that had returned its
\* body when the read was made; only a write in doubt can hide it.
ReadsAreFresh ==
  \A r \in CallIds :
    verdict[r] = "done" /\ request[r] = read /\ reply[r] # NoReply =>
      \A w \in before[r] : IsWrite(w) => Position(w) <= Position(reply[r])

\* An operation that exists for the engine's version reaches the engine's mount.
ReachesMount ==
  \A id \in CallIds :
    verdict[id] # "none" /\ Offered(request[id]) => Reached(request[id])
=============================================================================
