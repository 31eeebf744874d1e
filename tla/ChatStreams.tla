---------------------------- MODULE ChatStreams ----------------------------
(***************************************************************************)
(* The chat API of the frontend: app/api/chat/route.ts answers a POST with *)
(* a stream and makes it resumable, app/api/chat/[id]/stream/route.ts      *)
(* takes a chat's running stream up again, over lib/chat-store.ts (the id  *)
(* of a chat's stream in Redis), lib/mcp-client.ts (one client for all     *)
(* requests) and lib/ratelimit.ts.                                         *)
(*                                                                         *)
(* A request is also the name of its stream and of the MCP client it       *)
(* creates.  resumable-stream (external) keeps a sentinel per stream and   *)
(* asks the producer, which must be alive to answer.  There is one server; *)
(* when it crashes, the next has its memory empty.                         *)
(***************************************************************************)
EXTENDS Integers, FiniteSets

CONSTANTS
    Requests,
    Chats,
    Chat,           \* the chat of each request
    Limit,          \* requests admitted per address and day: 200
    MaxBreaks,      \* bound on how often the MCP server forgets its clients
    MaxCrashes      \* bound on crashes of the server

None == "none"

ASSUME ChatStreamsAssumption ==
    /\ IsFiniteSet(Requests) /\ None \notin Requests
    /\ Chat \in [Requests -> Chats]
    /\ Limit \in Nat /\ MaxBreaks \in Nat /\ MaxCrashes \in Nat

VARIABLES
    at,             \* how far each request is
    used,           \* requests counted in the window of the rate limit
    promise,        \* mcpClientPromise: the request that creates the client
    client,         \* of each request: the client it creates
    given,          \* the client each request was given
    registering,    \* consumeSseStream of each request
    clearing,       \* clearActiveStreamId on its way
    activeStreamId, sentinel,   \* in Redis
    overlapped,     \* streams that met another of their chat, or whose id
                    \* expired or was not stored (history)
    breaks, crashes

redis == <<activeStreamId, sentinel>>
mcp == <<promise, client, given>>
bounds == <<breaks, crashes>>
vars == <<at, used, mcp, registering, clearing, redis, overlapped, bounds>>

Refused == {"429", "400"}
Over == Refused \cup {"500", "ended", "dead"}

Init ==
    /\ at = [r \in Requests |-> "new"]
    /\ used = 0
    /\ promise = None
    /\ client = [r \in Requests |-> None]
    /\ given = [r \in Requests |-> None]
    /\ registering = [r \in Requests |-> None]
    /\ clearing = {}
    /\ activeStreamId = [c \in Chats |-> None]
    /\ sentinel = [r \in Requests |-> None]
    /\ overlapped = {}
    /\ breaks = 0 /\ crashes = 0

To(r, step) == at' = [at EXCEPT ![r] = step]

\* mutant: the client is not reset
Fail_KeepsClient(failed) ==
    /\ at' = [r \in Requests |-> IF r \in failed THEN "500" ELSE at[r]]
    /\ UNCHANGED promise

(* The catch of POST, whatever failed. *)
Fail(failed) ==
    /\ at' = [r \in Requests |-> IF r \in failed THEN "500" ELSE at[r]]
    /\ promise' = None

-----------------------------------------------------------------------------
(* POST *)

(* checkRateLimit; without a store there is no limit. *)
Post(r) ==
    /\ at[r] = "new"
    /\ \/ /\ used < Limit /\ used' = used + 1
          /\ To(r, "admitted") /\ UNCHANGED promise
       \/ /\ used >= Limit /\ UNCHANGED <<used, promise>>
          /\ To(r, "429")
       \/ Fail({r}) /\ UNCHANGED used
    /\ UNCHANGED <<client, given, registering, clearing, redis, overlapped, bounds>>

(* convertToModelMessages and the classifier, whose failure admits. *)
Classify(r) ==
    /\ at[r] = "admitted"
    /\ \/ To(r, "on topic") /\ UNCHANGED promise
       \/ To(r, "400") /\ UNCHANGED promise
       \/ Fail({r})
    /\ UNCHANGED <<used, client, given, registering, clearing, redis, overlapped, bounds>>

\* mutant: the client is kept when it is there, not while it is created
GetMCPClient_Late(r) ==
    LET there == promise # None /\ client[promise] # "creating"
        p == IF there THEN promise ELSE r
    IN
    /\ at[r] = "on topic"
    /\ promise' = p
    /\ client' = IF p = r THEN [client EXCEPT ![r] = "creating"] ELSE client
    /\ given' = [given EXCEPT ![r] = p]
    /\ To(r, "tools")
    /\ UNCHANGED <<used, registering, clearing, redis, overlapped, bounds>>

GetMCPClient(r) ==
    LET p == IF promise = None THEN r ELSE promise IN
    /\ at[r] = "on topic"
    /\ promise' = p
    /\ client' = IF p = r THEN [client EXCEPT ![r] = "creating"] ELSE client
    /\ given' = [given EXCEPT ![r] = p]
    /\ To(r, "tools")
    /\ UNCHANGED <<used, registering, clearing, redis, overlapped, bounds>>

Waiting(c) == {r \in Requests : given[r] = c /\ at[r] = "tools"}

(* createMCPClient; all who wait for it fail with it, and the promise is
   dropped, be it another one by now. *)
Created(c) ==
    /\ client[c] = "creating"
    /\ \/ /\ client' = [client EXCEPT ![c] = "ready"]
          /\ UNCHANGED <<at, promise>>
       \/ /\ client' = [client EXCEPT ![c] = "broken"]
          /\ Fail(Waiting(c))
    /\ UNCHANGED <<used, given, registering, clearing, redis, overlapped, bounds>>

(* mcpClient.tools() fails. *)
ToolsFail(r) ==
    /\ at[r] = "tools" /\ client[given[r]] \in {"ready", "broken"}
    /\ Fail({r})
    /\ UNCHANGED <<used, client, given, registering, clearing, redis, overlapped, bounds>>

Live(r) == at[r] = "streaming" \/ registering[r] # None \/ r \in clearing
Rivals(r) == {s \in Requests \ {r} : Chat[s] = Chat[r] /\ Live(s)}

(* mcpClient.tools(), then the stream begins. *)
Stream(r) ==
    /\ at[r] = "tools" /\ client[given[r]] = "ready"
    /\ To(r, "streaming")
    /\ registering' = [registering EXCEPT ![r] = "create"]
    /\ overlapped' = overlapped \cup Rivals(r) \cup (IF Rivals(r) = {} THEN {} ELSE {r})
    /\ UNCHANGED <<used, mcp, clearing, redis, bounds>>

(* onEnd, which does not wait for what it starts. *)
End(r) ==
    /\ at[r] = "streaming"
    /\ To(r, "ended")
    /\ clearing' = clearing \cup {r}
    /\ UNCHANGED <<used, mcp, registering, redis, overlapped, bounds>>

-----------------------------------------------------------------------------
(* The stream is made resumable beside *)

\* mutant: the id is set before the stream is made
CreateNewResumableStream_After(r) ==
    /\ registering[r] = "create"
    /\ activeStreamId' = [activeStreamId EXCEPT ![Chat[r]] = r]
    /\ registering' = [registering EXCEPT ![r] = "set"]
    /\ UNCHANGED <<at, used, mcp, clearing, sentinel, overlapped, bounds>>

\* mutant: the id of the stream is not stored
CreateNewResumableStream_NoId(r) ==
    /\ registering[r] = "create"
    /\ sentinel' = [sentinel EXCEPT ![r] = "live"]
    /\ registering' = [registering EXCEPT ![r] = None]
    /\ UNCHANGED <<at, used, mcp, clearing, activeStreamId, overlapped, bounds>>

CreateNewResumableStream(r) ==
    /\ registering[r] = "create"
    /\ sentinel' = [sentinel EXCEPT ![r] = "live"]
    /\ registering' = [registering EXCEPT ![r] = "set"]
    /\ UNCHANGED <<at, used, mcp, clearing, activeStreamId, overlapped, bounds>>

(* resumable-stream has read the whole stream. *)
Drained(r) ==
    /\ sentinel[r] = "live" /\ at[r] = "ended"
    /\ sentinel' = [sentinel EXCEPT ![r] = "done"]
    /\ UNCHANGED <<at, used, mcp, registering, clearing, activeStreamId, overlapped, bounds>>

(* A failure of Redis leaves the stream without an id. *)
SetActiveStreamId(r) ==
    /\ registering[r] = "set"
    /\ registering' = [registering EXCEPT ![r] = None]
    /\ \/ /\ activeStreamId' = [activeStreamId EXCEPT ![Chat[r]] = r]
          /\ UNCHANGED overlapped
       \/ /\ overlapped' = overlapped \cup {r}
          /\ UNCHANGED activeStreamId
    /\ UNCHANGED <<at, used, mcp, clearing, sentinel, bounds>>

(* It clears the id of the chat, whichever stream's it is; or it fails. *)
ClearActiveStreamId(r) ==
    /\ r \in clearing
    /\ clearing' = clearing \ {r}
    /\ \/ activeStreamId' = [activeStreamId EXCEPT ![Chat[r]] = None]
       \/ UNCHANGED activeStreamId
    /\ UNCHANGED <<at, used, mcp, registering, sentinel, overlapped, bounds>>

(* Five minutes after the id was set. *)
Expire(c) ==
    /\ activeStreamId[c] # None
    /\ activeStreamId' = [activeStreamId EXCEPT ![c] = None]
    /\ overlapped' = overlapped \cup {activeStreamId[c]}
    /\ UNCHANGED <<at, used, mcp, registering, clearing, sentinel, bounds>>

(* GET: no content, the stream, or an error when its producer is silent. *)
Resume(c) ==
    LET id == activeStreamId[c] IN
    IF id = None THEN "204"
    ELSE CASE sentinel[id] \in {None, "done"} -> "204"
           [] sentinel[id] = "live" /\ at[id] # "dead" -> "stream"
           [] OTHER -> "500"

-----------------------------------------------------------------------------
(* The MCP server restarts and forgets its sessions. *)
Break ==
    /\ breaks < MaxBreaks /\ breaks' = breaks + 1
    /\ client' = [c \in Requests |-> IF client[c] = "ready" THEN "broken" ELSE client[c]]
    /\ UNCHANGED <<at, used, promise, given, registering, clearing, redis, overlapped, crashes>>

(* What runs in the process is lost. *)
Crash ==
    /\ crashes < MaxCrashes /\ crashes' = crashes + 1
    /\ at' = [r \in Requests |-> IF at[r] \in Over \cup {"new"} THEN
                                   IF at[r] = "ended" /\ sentinel[r] = "live" THEN "dead" ELSE at[r]
                                 ELSE "dead"]
    /\ promise' = None
    /\ client' = [c \in Requests |-> IF client[c] = None THEN None ELSE "broken"]
    /\ registering' = [r \in Requests |-> None]
    /\ clearing' = {}
    /\ UNCHANGED <<used, given, redis, overlapped, breaks>>

Next ==
    \/ \E r \in Requests :
        \/ Post(r) \/ Classify(r) \/ GetMCPClient(r) \/ Created(r) \/ ToolsFail(r)
        \/ Stream(r) \/ End(r)
        \/ CreateNewResumableStream(r) \/ Drained(r)
        \/ SetActiveStreamId(r) \/ ClearActiveStreamId(r)
    \/ \E c \in Chats : Expire(c)
    \/ Break \/ Crash

Spec == Init /\ [][Next]_vars

-----------------------------------------------------------------------------
TypeOK ==
    /\ at \in [Requests -> Over \cup {"new", "admitted", "on topic", "tools", "streaming"}]
    /\ used \in 0..Limit
    /\ promise \in Requests \cup {None}
    /\ client \in [Requests -> {None, "creating", "ready", "broken"}]
    /\ given \in [Requests -> Requests \cup {None}]
    /\ registering \in [Requests -> {None, "create", "set"}]
    /\ clearing \subseteq Requests
    /\ activeStreamId \in [Chats -> Requests \cup {None}]
    /\ sentinel \in [Requests -> {None, "live", "done"}]
    /\ overlapped \subseteq Requests
    /\ breaks \in 0..MaxBreaks /\ crashes \in 0..MaxCrashes

(* A running stream whose id was set can be resumed, unless another stream of
   the chat was still live beside it, or it has run for five minutes. *)
ResumableUnlessOverlapped ==
    \A r \in Requests \ overlapped :
        at[r] = "streaming" /\ registering[r] = None =>
            activeStreamId[Chat[r]] = r /\ Resume(Chat[r]) = "stream"

(* An id never names a stream that is not to be found yet. *)
IdsAreKnown ==
    \A c \in Chats : activeStreamId[c] # None => sentinel[activeStreamId[c]] # None

(* Requests share one client: another is only created after a request failed
   or the server crashed. *)
ClientIsShared ==
    Cardinality({c \in Requests : client[c] # None})
        <= 1 + Cardinality({r \in Requests : at[r] = "500"}) + crashes

(* A client that a request failed with is not given to the next: neither a
   broken MCP session nor a failed connection outlives the first error. *)
FailedClientIsDropped ==
    \A r \in Requests : at[r] = "500" /\ promise # None => given[r] # promise
=============================================================================
