------------------------- MODULE ChatStreams_proofs -------------------------
(***************************************************************************)
(* For any number of requests, chats, restarts of the MCP server and       *)
(* crashes: what the runs of ChatStreams check of three requests.          *)
(***************************************************************************)
EXTENDS ChatStreams, FiniteSetTheorems, TLAPS

Steps == Over \cup {"new", "admitted", "on topic", "tools", "streaming"}

(* The parts of the type invariant that the arguments below use. *)
Types ==
    /\ at \in [Requests -> Steps]
    /\ promise \in Requests \cup {None}
    /\ client \in [Requests -> {None, "creating", "ready", "broken"}]
    /\ given \in [Requests -> Requests \cup {None}]
    /\ registering \in [Requests -> {None, "create", "set"}]
    /\ clearing \subseteq Requests
    /\ activeStreamId \in [Chats -> Requests \cup {None}]
    /\ sentinel \in [Requests -> {None, "live", "done"}]
    /\ overlapped \subseteq Requests

Numbers == used \in 0..Limit /\ breaks \in 0..MaxBreaks /\ crashes \in 0..MaxCrashes

LEMMA NoneIsNoRequest == None \notin Requests
BY ChatStreamsAssumption

(* What Fail does to at, whichever requests it is given. *)
LEMMA FailMeans ==
    ASSUME Types, NEW failed, Fail(failed)
    PROVE  /\ at' \in [Requests -> Steps] /\ promise' = None
           /\ \A r \in Requests : at'[r] = IF r \in failed THEN "500" ELSE at[r]
BY DEF Types, Fail, Steps, Over

LEMMA TypesKeep ==
    ASSUME Types, [Next]_vars
    PROVE  Types'
<1>1. ASSUME NEW r \in Requests, Post(r) \/ Classify(r) \/ ToolsFail(r)
      PROVE  Types'
  <2>1. at' \in [Requests -> Steps] /\ promise' \in Requests \cup {None}
    <3>1. CASE Fail({r})
      BY <3>1, FailMeans
    <3>2. CASE ~Fail({r})
      BY <1>1, <3>2 DEF Post, Classify, ToolsFail, To, Types, Steps, Over, Refused
    <3> QED BY <3>1, <3>2
  <2> QED BY <1>1, <2>1 DEF Post, Classify, ToolsFail, redis, Types
<1>2. ASSUME NEW r \in Requests, GetMCPClient(r)
      PROVE  Types'
  BY <1>2 DEF GetMCPClient, To, redis, Types, Steps
<1>3. ASSUME NEW r \in Requests, Created(r)
      PROVE  Types'
  <2>1. at' \in [Requests -> Steps] /\ promise' \in Requests \cup {None}
    BY <1>3, FailMeans DEF Created, Types
  <2> QED BY <1>3, <2>1 DEF Created, redis, Types
<1>4. ASSUME NEW r \in Requests, Stream(r)
      PROVE  Types'
  <2>1. overlapped' \subseteq Requests
    BY <1>4 DEF Stream, Rivals, Types
  <2> QED BY <1>4, <2>1 DEF Stream, To, mcp, redis, Types, Steps
<1>5. ASSUME NEW r \in Requests, End(r)
      PROVE  Types'
  BY <1>5 DEF End, To, mcp, redis, Types, Steps, Over
<1>6. ASSUME NEW r \in Requests, CreateNewResumableStream(r) \/ Drained(r)
      PROVE  Types'
  BY <1>6 DEF CreateNewResumableStream, Drained, mcp, Types
<1>7. ASSUME NEW r \in Requests, SetActiveStreamId(r) \/ ClearActiveStreamId(r)
      PROVE  Types'
  BY <1>7 DEF SetActiveStreamId, ClearActiveStreamId, mcp, Types
<1>8. ASSUME NEW c \in Chats, Expire(c)
      PROVE  Types'
  BY <1>8 DEF Expire, mcp, Types
<1>9. CASE Break
  BY <1>9 DEF Break, redis, Types
<1>10. CASE Crash
  BY <1>10 DEF Crash, redis, Types, Steps, Over
<1>11. CASE UNCHANGED vars
  BY <1>11 DEF vars, mcp, redis, Types
<1> QED BY <1>1, <1>2, <1>3, <1>4, <1>5, <1>6, <1>7, <1>8, <1>9, <1>10, <1>11 DEF Next

LEMMA NumbersKeep ==
    ASSUME Numbers, [Next]_vars
    PROVE  Numbers'
<1>1. Limit \in Nat /\ MaxBreaks \in Nat /\ MaxCrashes \in Nat
  BY ChatStreamsAssumption
<1>2. used' = used \/ (used < Limit /\ used' = used + 1)
  BY DEF Next, Post, Classify, GetMCPClient, Created, ToolsFail, Stream, End,
     CreateNewResumableStream, Drained, SetActiveStreamId, ClearActiveStreamId, Expire,
     Break, Crash, vars
<1>3. breaks' = breaks \/ (breaks < MaxBreaks /\ breaks' = breaks + 1)
  BY DEF Next, Post, Classify, GetMCPClient, Created, ToolsFail, Stream, End,
     CreateNewResumableStream, Drained, SetActiveStreamId, ClearActiveStreamId, Expire,
     Break, Crash, vars, bounds
<1>4. crashes' = crashes \/ (crashes < MaxCrashes /\ crashes' = crashes + 1)
  BY DEF Next, Post, Classify, GetMCPClient, Created, ToolsFail, Stream, End,
     CreateNewResumableStream, Drained, SetActiveStreamId, ClearActiveStreamId, Expire,
     Break, Crash, vars, bounds
<1> QED BY <1>1, <1>2, <1>3, <1>4 DEF Numbers

LEMMA TypesHold == Spec => [](Types /\ Numbers)
<1>1. Init => Types /\ Numbers
  <2> SUFFICES ASSUME Init PROVE Types /\ Numbers
    OBVIOUS
  <2>1. Types
    BY DEF Init, Types, Steps
  <2>2. Limit \in Nat /\ MaxBreaks \in Nat /\ MaxCrashes \in Nat
    BY ChatStreamsAssumption
  <2> QED BY <2>1, <2>2 DEF Init, Numbers
<1> QED BY <1>1, TypesKeep, NumbersKeep, PTL DEF Spec

(* The state stays well typed. *)
THEOREM TypeCorrect == Spec => []TypeOK
<1>1. Types /\ Numbers => TypeOK
  BY DEF Types, Numbers, Steps, TypeOK
<1> QED BY <1>1, TypesHold, PTL
-----------------------------------------------------------------------------
(* The client that requests share *)

Early == {"new", "admitted", "on topic"}

(* A client is given first to the request that creates it, which waits for
   it as the others do. *)
Given ==
    /\ \A r \in Requests : at[r] \in Early => given[r] = None /\ client[r] = None
    /\ \A r \in Requests : given[r] # None => given[given[r]] = given[r]
    /\ promise # None => given[promise] = promise
    /\ \A r \in Requests : client[r] = "creating" => given[r] = r /\ at[r] = "tools"

LEMMA GivenMeans ==
    ASSUME Types, Given, NEW r \in Requests, at[r] = "on topic"
    PROVE  promise # r /\ \A s \in Requests : given[s] # r
<1>1. given[r] = None /\ r # None
  BY NoneIsNoRequest DEF Given, Early
<1>2. promise # r
  BY <1>1 DEF Given
<1>3. ASSUME NEW s \in Requests, given[s] = r
      PROVE  FALSE
  BY <1>1, <1>3 DEF Given
<1> QED BY <1>2, <1>3

(* A step that gives no client to anyone. *)
LEMMA NothingGiven ==
    ASSUME Types, Given, given' = given, promise' \in {promise, None},
           \A r \in Requests : at'[r] \in Early => at[r] \in Early,
           \A r \in Requests : client'[r] # None => client[r] # None,
           \A r \in Requests : client'[r] = "creating" =>
                client[r] = "creating" /\ at'[r] = at[r]
    PROVE  Given'
BY DEF Given

LEMMA GivenKeep ==
    ASSUME Types, Given, [Next]_vars
    PROVE  Given'
<1>1. ASSUME NEW r \in Requests, Post(r) \/ Classify(r) \/ ToolsFail(r)
      PROVE  Given'
  <2>1. given' = given /\ client' = client /\ promise' \in {promise, None}
    BY <1>1 DEF Post, Classify, ToolsFail, Fail
  <2>2. \A s \in Requests \ {r} : at'[s] = at[s]
    BY <1>1 DEF Post, Classify, ToolsFail, Fail, To, Types
  <2>3. at'[r] \in Early => at[r] \in Early
    BY <1>1 DEF Post, Classify, ToolsFail, Fail, Types, Early
  <2>4. client[r] # "creating"
    <3>1. CASE at[r] = "tools"
      BY <1>1, <3>1 DEF Post, Classify, ToolsFail, Given
    <3> QED BY <1>1, <3>1 DEF Post, Classify, ToolsFail, Given, Early
  <2> QED BY <2>1, <2>2, <2>3, <2>4, NothingGiven
<1>2. ASSUME NEW r \in Requests, GetMCPClient(r)
      PROVE  Given'
  <2> DEFINE p == IF promise = None THEN r ELSE promise
  <2>1. /\ at[r] = "on topic" /\ promise' = p
        /\ given' = [given EXCEPT ![r] = p] /\ at' = [at EXCEPT ![r] = "tools"]
        /\ client' = IF p = r THEN [client EXCEPT ![r] = "creating"] ELSE client
    BY <1>2 DEF GetMCPClient, To
  <2>2. promise # r /\ \A s \in Requests : given[s] # r
    BY <2>1, GivenMeans
  <2>3. p # None /\ p \in Requests /\ given'[p] = p
    BY <2>1, <2>2, NoneIsNoRequest, ZenonT(60) DEF Types, Given
  <2>4. \A s \in Requests : at'[s] \in Early => given'[s] = None /\ client'[s] = None
    BY <2>1, ZenonT(60) DEF Types, Given, Early
  <2>5. \A s \in Requests : given'[s] # None => given'[given'[s]] = given'[s]
    <3> SUFFICES ASSUME NEW s \in Requests, given'[s] # None
                 PROVE  given'[given'[s]] = given'[s]
      OBVIOUS
    <3>1. CASE s = r
      BY <2>1, <2>3, <3>1 DEF Types
    <3>2. CASE s # r
      <4>1. given'[s] = given[s] /\ given[s] \in Requests /\ given[s] # r
        BY <2>1, <2>2, <3>2 DEF Types
      <4> QED BY <2>1, <4>1, ZenonT(60) DEF Types, Given
    <3> QED BY <3>1, <3>2
  <2>6. \A s \in Requests : client'[s] = "creating" => given'[s] = s /\ at'[s] = "tools"
    BY <2>1, <2>2, <2>3, ZenonT(60) DEF Types, Given
  <2> QED BY <2>1, <2>3, <2>4, <2>5, <2>6 DEF Given
<1>3. ASSUME NEW c \in Requests, Created(c)
      PROVE  Given'
  <2>1. /\ given' = given /\ promise' \in {promise, None}
        /\ \A r \in Requests : at'[r] = at[r] \/ (r \in Waiting(c) /\ at'[r] = "500")
    BY <1>3, FailMeans DEF Created
  <2>2. \A r \in Requests : client'[r] = IF r = c THEN client'[c] ELSE client[r]
    BY <1>3 DEF Created, Types
  <2>3. client'[c] # "creating" /\ client[c] # None
    BY <1>3 DEF Created, Types, None
  <2>4. \A r \in Requests : client'[r] = "creating" => client[r] = "creating" /\ r \notin Waiting(c)
    BY <2>2, <2>3 DEF Given, Waiting
  <2> QED BY <2>1, <2>2, <2>3, <2>4, NothingGiven DEF Early
<1>4. ASSUME NEW r \in Requests, Stream(r) \/ End(r)
      PROVE  Given'
  <2>1. /\ given' = given /\ client' = client /\ promise' = promise
        /\ \E step \in {"streaming", "ended"} : at' = [at EXCEPT ![r] = step]
    BY <1>4 DEF Stream, End, To, mcp
  <2>2. client[r] # "creating"
    BY <1>4 DEF Stream, End, Given
  <2> QED BY <2>1, <2>2, NothingGiven DEF Types, Early
<1>5. ASSUME NEW r \in Requests, CreateNewResumableStream(r) \/ Drained(r)
                                  \/ SetActiveStreamId(r) \/ ClearActiveStreamId(r)
      PROVE  Given'
  BY <1>5 DEF CreateNewResumableStream, Drained, SetActiveStreamId, ClearActiveStreamId, mcp,
         Given
<1>6. ASSUME NEW c \in Chats, Expire(c)
      PROVE  Given'
  BY <1>6 DEF Expire, mcp, Given
<1>7. CASE Break
  <2>1. /\ given' = given /\ promise' = promise /\ at' = at
        /\ client' = [c \in Requests |-> IF client[c] = "ready" THEN "broken" ELSE client[c]]
    BY <1>7 DEF Break
  <2> QED BY <2>1, NothingGiven DEF Types, None
<1>8. CASE Crash
  <2>1. /\ given' = given /\ promise' = None
        /\ \A r \in Requests : at'[r] \in {at[r], "dead"}
        /\ client' = [c \in Requests |-> IF client[c] = None THEN None ELSE "broken"]
    BY <1>8 DEF Crash, Types
  <2> QED BY <2>1, NothingGiven DEF Types, Early, None
<1>9. CASE UNCHANGED vars
  BY <1>9 DEF vars, mcp, Given
<1> QED BY <1>1, <1>2, <1>3, <1>4, <1>5, <1>6, <1>7, <1>8, <1>9 DEF Next

LEMMA DroppedKeeps ==
    ASSUME Types, Given, FailedClientIsDropped, [Next]_vars
    PROVE  FailedClientIsDropped'
<1>1. ASSUME promise' = None
      PROVE  FailedClientIsDropped'
  BY <1>1 DEF FailedClientIsDropped
<1>2. ASSUME given' = given, promise' = promise,
             \A r \in Requests : at'[r] = "500" => at[r] = "500"
      PROVE  FailedClientIsDropped'
  BY <1>2 DEF FailedClientIsDropped
<1>3. ASSUME NEW r \in Requests, GetMCPClient(r)
      PROVE  FailedClientIsDropped'
  <2>1. /\ at[r] = "on topic" /\ promise' = IF promise = None THEN r ELSE promise
        /\ \A s \in Requests : at'[s] = "500" => s # r /\ at[s] = "500" /\ given'[s] = given[s]
    BY <1>3 DEF GetMCPClient, To, Types
  <2>2. \A s \in Requests : given[s] # r
    BY <2>1, GivenMeans
  <2> QED BY <2>1, <2>2 DEF FailedClientIsDropped
<1>4. ASSUME NEW r \in Requests, Post(r) \/ Classify(r) \/ ToolsFail(r)
      PROVE  FailedClientIsDropped'
  <2>1. CASE Fail({r})
    BY <1>1, <2>1 DEF Fail
  <2>2. CASE ~Fail({r})
    BY <1>2, <1>4, <2>2 DEF Post, Classify, ToolsFail, To, Types
  <2> QED BY <2>1, <2>2
<1>5. ASSUME NEW c \in Requests, Created(c)
      PROVE  FailedClientIsDropped'
  BY <1>1, <1>2, <1>5 DEF Created, Fail
<1>6. ASSUME NEW r \in Requests, Stream(r) \/ End(r)
      PROVE  FailedClientIsDropped'
  BY <1>2, <1>6 DEF Stream, End, To, mcp, Types
<1>7. CASE \/ \E r \in Requests : \/ CreateNewResumableStream(r) \/ Drained(r)
                                 \/ SetActiveStreamId(r) \/ ClearActiveStreamId(r)
           \/ \E c \in Chats : Expire(c)
           \/ Break \/ UNCHANGED vars
  <2>1. given' = given /\ promise' = promise /\ at' = at
    BY <1>7 DEF CreateNewResumableStream, Drained, SetActiveStreamId, ClearActiveStreamId,
           Expire, Break, vars, mcp
  <2> QED BY <1>2, <2>1
<1>8. CASE Crash
  BY <1>1, <1>8 DEF Crash
<1> QED BY <1>3, <1>4, <1>5, <1>6, <1>7, <1>8 DEF Next

LEMMA GivenHolds == Spec => []Given
<1>1. Init => Given
  BY DEF Init, Given, Early, None
<1>2. Types /\ Given /\ [Next]_vars => Given'
  BY GivenKeep
<1> QED BY <1>1, <1>2, TypesHold, PTL DEF Spec

(* A client that a request failed with is never given to a later request
   (the catch of POST and getMCPClient). *)
THEOREM FailureDropsClient == Spec => []FailedClientIsDropped
<1>1. Init => FailedClientIsDropped
  BY DEF Init, FailedClientIsDropped
<1>2. Types /\ Given /\ FailedClientIsDropped /\ [Next]_vars => FailedClientIsDropped'
  BY DroppedKeeps
<1> QED BY <1>1, <1>2, TypesHold, GivenHolds, PTL DEF Spec
-----------------------------------------------------------------------------
(* How many clients there are *)

Made == {c \in Requests : client[c] # None}
Failed == {r \in Requests : at[r] = "500"}

(* Without a promise, each client has been paid for by a failure. *)
Paid == /\ crashes \in Nat
        /\ Cardinality(Made) <= (IF promise = None THEN 0 ELSE 1)
                                   + Cardinality(Failed) + crashes

LEMMA Counted ==
    ASSUME NEW S, S \subseteq Requests
    PROVE  IsFiniteSet(S) /\ Cardinality(S) \in Nat
BY ChatStreamsAssumption, FS_Subset, FS_CardinalityType

LEMMA CountedLess ==
    ASSUME NEW S, NEW T, S \subseteq T, T \subseteq Requests
    PROVE  Cardinality(S) <= Cardinality(T)
BY Counted, FS_Subset

LEMMA CountedMore ==
    ASSUME NEW S, NEW T, T \subseteq Requests, S \subseteq T, NEW r \in T, r \notin S
    PROVE  Cardinality(S) + 1 <= Cardinality(T)
<1>1. IsFiniteSet(S) /\ IsFiniteSet(T)
  BY Counted, FS_Subset
<1>2. Cardinality(S \cup {r}) = Cardinality(S) + 1
  BY <1>1, FS_AddElement
<1>3. S \cup {r} \subseteq T
  OBVIOUS
<1> QED BY <1>1, <1>2, <1>3, FS_Subset

(* A step that makes no client and forgets no failure. *)
LEMMA NothingMade ==
    ASSUME Paid, Made' \subseteq Made, Failed \subseteq Failed', crashes' = crashes,
           \/ promise' = promise
           \/ promise' = None /\ \E r \in Failed' : r \notin Failed
    PROVE  Paid'
<1>1. /\ Cardinality(Made) \in Nat /\ Cardinality(Made') \in Nat
      /\ Cardinality(Failed) \in Nat /\ Cardinality(Failed') \in Nat
  BY Counted DEF Made, Failed
<1>2. Cardinality(Made') <= Cardinality(Made)
  BY CountedLess DEF Made
<1>3. CASE promise' = promise
  <2>1. Cardinality(Failed) <= Cardinality(Failed')
    BY CountedLess DEF Failed
  <2> QED BY <1>1, <1>2, <1>3, <2>1 DEF Paid
<1>4. CASE promise' = None /\ \E r \in Failed' : r \notin Failed
  <2>1. Cardinality(Failed) + 1 <= Cardinality(Failed')
    BY <1>4, CountedMore DEF Failed
  <2> QED BY <1>1, <1>2, <1>4, <2>1 DEF Paid
<1> QED BY <1>3, <1>4

LEMMA PaidKeeps ==
    ASSUME Types, Given, Paid, [Next]_vars
    PROVE  Paid'
<1>1. ASSUME NEW failed, Fail(failed), NEW r \in failed, r \in Requests, at[r] # "500",
             Made' \subseteq Made, crashes' = crashes
      PROVE  Paid'
  <2>1. Failed \subseteq Failed' /\ r \in Failed' /\ r \notin Failed /\ promise' = None
    BY <1>1, FailMeans DEF Failed
  <2> QED BY <1>1, <2>1, NothingMade
<1>2. ASSUME NEW r \in Requests, Post(r) \/ Classify(r) \/ ToolsFail(r)
      PROVE  Paid'
  <2>1. Made' = Made /\ crashes' = crashes /\ at[r] # "500"
    BY <1>2 DEF Post, Classify, ToolsFail, bounds, Made
  <2>2. CASE Fail({r})
    BY <1>1, <2>1, <2>2
  <2>3. CASE ~Fail({r})
    <3>1. promise' = promise /\ \E step : at' = [at EXCEPT ![r] = step]
      BY <1>2, <2>3 DEF Post, Classify, ToolsFail, To
    <3>2. Failed \subseteq Failed'
      BY <2>1, <3>1 DEF Failed, Types
    <3> QED BY <2>1, <3>1, <3>2, NothingMade
  <2> QED BY <2>2, <2>3
<1>3. ASSUME NEW r \in Requests, GetMCPClient(r)
      PROVE  Paid'
  <2>1. /\ at[r] = "on topic" /\ at' = [at EXCEPT ![r] = "tools"] /\ crashes' = crashes
        /\ promise' = IF promise = None THEN r ELSE promise
        /\ promise' # r => client' = client
        /\ promise' = r => client' = [client EXCEPT ![r] = "creating"]
    BY <1>3 DEF GetMCPClient, To, bounds
  <2>2. promise # r
    BY <2>1, GivenMeans
  <2>3. Failed' = Failed
    BY <2>1 DEF Failed, Types
  <2>4. CASE promise # None
    <3>1. Made' = Made /\ promise' = promise
      BY <2>1, <2>2, <2>4 DEF Made
    <3> QED BY <2>1, <2>3, <3>1, NothingMade
  <2>5. CASE promise = None
    <3>1. promise' = r /\ r # None /\ Made' = Made \cup {r}
      <4>1. "creating" # None
        BY DEF None
      <4>2. promise' = r /\ r # None
        BY <2>1, <2>5, NoneIsNoRequest
      <4>3. \A c \in Requests : client'[c] = IF c = r THEN "creating" ELSE client[c]
        BY <2>1, <4>2 DEF Types
      <4>4. Made' = Made \cup {r}
        BY <4>1, <4>3 DEF Made
      <4> QED BY <4>2, <4>4
    <3>2. IsFiniteSet(Made) /\ Cardinality(Made) \in Nat /\ Cardinality(Failed) \in Nat
      BY Counted DEF Made, Failed
    <3>3. Cardinality(Made') <= Cardinality(Made) + 1
      BY <3>1, <3>2, FS_AddElement
    <3>4. Cardinality(Made') \in Nat
      BY Counted DEF Made
    <3>5. crashes \in Nat /\ Cardinality(Made) <= Cardinality(Failed) + crashes
      BY <2>5, <3>2 DEF Paid
    <3>6. Cardinality(Made') <= 1 + Cardinality(Failed) + crashes
      BY <3>2, <3>3, <3>4, <3>5
    <3>7. promise' # None /\ crashes' = crashes
      BY <2>1, <3>1
    <3> QED BY <2>3, <3>5, <3>6, <3>7 DEF Paid
  <2> QED BY <2>4, <2>5
<1>4. ASSUME NEW c \in Requests, Created(c)
      PROVE  Paid'
  <2>1. Made' \subseteq Made /\ crashes' = crashes
    BY <1>4 DEF Created, bounds, Made, Types, None
  <2>2. c \in Waiting(c) /\ at[c] # "500"
    BY <1>4 DEF Created, Given, Waiting
  <2>3. CASE Fail(Waiting(c))
    BY <1>1, <2>1, <2>2, <2>3
  <2>4. CASE ~Fail(Waiting(c))
    <3>1. promise' = promise /\ Failed' = Failed
      BY <1>4, <2>4 DEF Created, Failed
    <3> QED BY <2>1, <3>1, NothingMade
  <2> QED BY <2>3, <2>4
<1>5. ASSUME NEW r \in Requests, Stream(r) \/ End(r)
      PROVE  Paid'
  <2>1. /\ Made' = Made /\ crashes' = crashes /\ promise' = promise /\ at[r] # "500"
        /\ \E step : at' = [at EXCEPT ![r] = step]
    BY <1>5 DEF Stream, End, To, mcp, bounds, Made
  <2>2. Failed \subseteq Failed'
    BY <2>1 DEF Failed, Types
  <2> QED BY <2>1, <2>2, NothingMade
<1>6. CASE \/ \E r \in Requests : \/ CreateNewResumableStream(r) \/ Drained(r)
                                 \/ SetActiveStreamId(r) \/ ClearActiveStreamId(r)
           \/ \E c \in Chats : Expire(c)
           \/ Break \/ UNCHANGED vars
  <2>1. promise' = promise /\ at' = at /\ crashes' = crashes
    BY <1>6 DEF CreateNewResumableStream, Drained, SetActiveStreamId, ClearActiveStreamId,
           Expire, Break, vars, mcp, bounds
  <2>2. client' = client \/ Break
    BY <1>6 DEF CreateNewResumableStream, Drained, SetActiveStreamId, ClearActiveStreamId,
           Expire, vars, mcp
  <2>3. Made' \subseteq Made
    BY <2>2 DEF Made, Break, None
  <2>4. Failed' = Failed
    BY <2>1 DEF Failed
  <2> QED BY <2>1, <2>3, <2>4, NothingMade
<1>7. CASE Crash
  <2>1. /\ crashes' = crashes + 1 /\ promise' = None
        /\ Made' = Made /\ Failed' = Failed
    BY <1>7 DEF Crash, Made, Failed, Types, Over, None
  <2>2. Cardinality(Made) \in Nat /\ Cardinality(Failed) \in Nat
    BY Counted DEF Made, Failed
  <2> QED BY <2>1, <2>2 DEF Paid
<1> QED BY <1>2, <1>3, <1>4, <1>5, <1>6, <1>7 DEF Next

(* Requests share one client; each further one follows a failed request or
   a crash (getMCPClient keeps the promise, not the client). *)
THEOREM SharingIsSound == Spec => []ClientIsShared
<1>1. Init => Paid
  <2> SUFFICES ASSUME Init PROVE Paid
    OBVIOUS
  <2>1. Made = {} /\ crashes = 0 /\ promise = None
    BY DEF Init, Made
  <2>2. Cardinality(Made) = 0 /\ Cardinality(Failed) \in Nat
    BY <2>1, FS_EmptySet, Counted DEF Failed
  <2> QED BY <2>1, <2>2 DEF Paid
<1>2. Types /\ Given /\ Paid /\ [Next]_vars => Paid'
  BY PaidKeeps
<1>3. Paid => ClientIsShared
  <2> SUFFICES ASSUME Paid PROVE ClientIsShared
    OBVIOUS
  <2>1. Cardinality(Made) \in Nat /\ Cardinality(Failed) \in Nat
    BY Counted DEF Made, Failed
  <2>2. Cardinality(Made) <= 1 + Cardinality(Failed) + crashes
    BY <2>1 DEF Paid
  <2> QED BY <2>2 DEF ClientIsShared, Made, Failed
<1> QED BY <1>1, <1>2, <1>3, TypesHold, GivenHolds, PTL DEF Spec
-----------------------------------------------------------------------------
(* Which stream an id names *)

Known == /\ \A r \in Requests : registering[r] = "set" => sentinel[r] # None
         /\ IdsAreKnown

LEMMA KnownKeeps ==
    ASSUME Types, Known, [Next]_vars
    PROVE  Known'
<1>1. ASSUME sentinel' = sentinel,
             \A r \in Requests : registering'[r] = "set" => registering[r] = "set",
             \A c \in Chats : activeStreamId'[c] \in {activeStreamId[c], None}
      PROVE  Known'
  BY <1>1 DEF Known, IdsAreKnown
<1>2. ASSUME NEW r \in Requests, CreateNewResumableStream(r) \/ Drained(r)
      PROVE  Known'
  <2>1. activeStreamId' = activeStreamId
    BY <1>2 DEF CreateNewResumableStream, Drained
  <2>2. \A s \in Requests : sentinel[s] # None => sentinel'[s] # None
    BY <1>2 DEF CreateNewResumableStream, Drained, Types, None
  <2>3. \A s \in Requests : registering'[s] = "set" =>
            registering[s] = "set" \/ sentinel'[s] # None
    BY <1>2 DEF CreateNewResumableStream, Drained, Types, None
  <2> QED BY <2>1, <2>2, <2>3 DEF Known, IdsAreKnown, Types
<1>3. ASSUME NEW r \in Requests, SetActiveStreamId(r)
      PROVE  Known'
  <2>1. /\ sentinel' = sentinel /\ registering[r] = "set"
        /\ registering' = [registering EXCEPT ![r] = None]
        /\ \A c \in Chats : activeStreamId'[c] \in {activeStreamId[c], r}
    BY <1>3 DEF SetActiveStreamId, Types
  <2>2. \A s \in Requests : registering'[s] = "set" => registering[s] = "set"
    BY <2>1 DEF Types, None
  <2> QED BY <2>1, <2>2 DEF Known, IdsAreKnown
<1>4. ASSUME NEW r \in Requests, ClearActiveStreamId(r)
      PROVE  Known'
  BY <1>1, <1>4 DEF ClearActiveStreamId, Types
<1>5. ASSUME NEW c \in Chats, Expire(c)
      PROVE  Known'
  BY <1>1, <1>5 DEF Expire, Types
<1>6. ASSUME NEW r \in Requests, Stream(r)
      PROVE  Known'
  <2>1. \A s \in Requests : registering'[s] = "set" => registering[s] = "set"
    BY <1>6 DEF Stream, Types
  <2> QED BY <1>1, <1>6, <2>1 DEF Stream, redis
<1>7. ASSUME NEW r \in Requests, Post(r) \/ Classify(r) \/ GetMCPClient(r) \/ Created(r)
                                  \/ ToolsFail(r) \/ End(r)
      PROVE  Known'
  BY <1>1, <1>7 DEF Post, Classify, GetMCPClient, Created, ToolsFail, End, redis
<1>8. CASE Crash
  BY <1>1, <1>8 DEF Crash, redis, None
<1>9. CASE Break \/ UNCHANGED vars
  BY <1>1, <1>9 DEF Break, vars, redis
<1> QED BY <1>2, <1>3, <1>4, <1>5, <1>6, <1>7, <1>8, <1>9 DEF Next

(* An id never names a stream that resumable-stream does not know yet
   (consumeSseStream creates the stream before it sets the id). *)
THEOREM IdsAreSound == Spec => []IdsAreKnown
<1>1. Init => Known
  BY DEF Init, Known, IdsAreKnown, None
<1>2. Types /\ Known /\ [Next]_vars => Known'
  BY KnownKeeps
<1>3. Known => IdsAreKnown
  BY DEF Known
<1> QED BY <1>1, <1>2, <1>3, TypesHold, PTL DEF Spec

-----------------------------------------------------------------------------
(* Which streams can be resumed *)

Waits == Early \cup {"tools"}

(* How far a request and its stream are. *)
Paired ==
    /\ \A r \in Requests : at[r] \in Waits => registering[r] = None /\ r \notin clearing
    /\ \A r \in Requests : at[r] = "streaming" =>
          /\ r \notin clearing
          /\ registering[r] # "create" => sentinel[r] = "live"

(* Streams of a chat that are live together have been noticed. *)
Noticed ==
    \A r, s \in Requests : r # s /\ Chat[r] = Chat[s] /\ Live(r) /\ Live(s) => r \in overlapped

Named ==
    \A r \in Requests \ overlapped :
        at[r] = "streaming" /\ registering[r] = None => activeStreamId[Chat[r]] = r

LEMMA PairedKeeps ==
    ASSUME Types, Paired, [Next]_vars
    PROVE  Paired'
<1>1. ASSUME registering' = registering, clearing' = clearing, sentinel' = sentinel,
             \A r \in Requests : at'[r] \in Waits \cup {"streaming"} =>
                /\ at[r] \in Waits \cup {"streaming"}
                /\ at'[r] = "streaming" <=> at[r] = "streaming"
      PROVE  Paired'
  BY <1>1 DEF Paired, Waits, Early
<1>2. ASSUME NEW r \in Requests, Post(r) \/ Classify(r) \/ GetMCPClient(r) \/ ToolsFail(r)
      PROVE  Paired'
  <2>1. registering' = registering /\ clearing' = clearing /\ sentinel' = sentinel
    BY <1>2 DEF Post, Classify, GetMCPClient, ToolsFail, redis
  <2>2. /\ at[r] \in Waits /\ at'[r] # "streaming"
        /\ \A s \in Requests \ {r} : at'[s] = at[s]
    BY <1>2 DEF Post, Classify, GetMCPClient, ToolsFail, To, Fail, Types, Waits, Early
  <2>3. at[r] # "streaming"
    BY <2>2 DEF Waits, Early
  <2> QED BY <1>1, <2>1, <2>2, <2>3
<1>3. ASSUME NEW c \in Requests, Created(c)
      PROVE  Paired'
  <2>1. \A r \in Requests : at'[r] = at[r] \/ at'[r] = "500"
    BY <1>3, FailMeans DEF Created
  <2> QED BY <1>1, <1>3, <2>1 DEF Created, redis, Waits, Early
<1>4. ASSUME NEW r \in Requests, Stream(r)
      PROVE  Paired'
  <2>1. /\ at[r] = "tools" /\ at' = [at EXCEPT ![r] = "streaming"]
        /\ registering' = [registering EXCEPT ![r] = "create"]
        /\ clearing' = clearing /\ sentinel' = sentinel
    BY <1>4 DEF Stream, To, redis
  <2>2. r \notin clearing
    BY <2>1 DEF Paired, Waits
  <2> QED BY <2>1, <2>2 DEF Types, Paired, Waits, Early
<1>5. ASSUME NEW r \in Requests, End(r)
      PROVE  Paired'
  <2>1. /\ at' = [at EXCEPT ![r] = "ended"] /\ clearing' = clearing \cup {r}
        /\ registering' = registering /\ sentinel' = sentinel
    BY <1>5 DEF End, To, redis
  <2> QED BY <2>1 DEF Types, Paired, Waits, Early
<1>6. ASSUME NEW r \in Requests, CreateNewResumableStream(r)
      PROVE  Paired'
  <2>1. /\ registering[r] = "create" /\ at' = at /\ clearing' = clearing
        /\ registering' = [registering EXCEPT ![r] = "set"]
        /\ sentinel' = [sentinel EXCEPT ![r] = "live"]
    BY <1>6 DEF CreateNewResumableStream
  <2>2. at[r] \notin Waits
    BY <2>1 DEF Paired, None
  <2> QED BY <2>1, <2>2 DEF Types, Paired
<1>7. ASSUME NEW r \in Requests, Drained(r)
      PROVE  Paired'
  BY <1>7 DEF Drained, Types, Paired
<1>8. ASSUME NEW r \in Requests, SetActiveStreamId(r)
      PROVE  Paired'
  BY <1>8 DEF SetActiveStreamId, Types, Paired
<1>9. ASSUME NEW r \in Requests, ClearActiveStreamId(r)
      PROVE  Paired'
  BY <1>9 DEF ClearActiveStreamId, Paired
<1>10. CASE Break \/ (\E c \in Chats : Expire(c)) \/ UNCHANGED vars
  BY <1>10 DEF Break, Expire, vars, redis, Paired
<1>11. CASE Crash
  <2>1. \A r \in Requests : at'[r] \notin {"streaming", "tools", "admitted", "on topic"}
    BY <1>11 DEF Crash, Over, Refused
  <2>2. registering' = [r \in Requests |-> None] /\ clearing' = {}
    BY <1>11 DEF Crash
  <2> QED BY <2>1, <2>2 DEF Paired
<1> QED BY <1>2, <1>3, <1>4, <1>5, <1>6, <1>7, <1>8, <1>9, <1>10, <1>11 DEF Next

LEMMA NoticedKeeps ==
    ASSUME Types, Paired, Noticed, [Next]_vars
    PROVE  Noticed'
<1>1. ASSUME overlapped \subseteq overlapped',
             \A r \in Requests : Live(r)' => Live(r)
      PROVE  Noticed'
  BY <1>1 DEF Noticed
<1>2. ASSUME NEW r \in Requests, Stream(r)
      PROVE  Noticed'
  <2>1. overlapped' = overlapped \cup Rivals(r) \cup (IF Rivals(r) = {} THEN {} ELSE {r})
    BY <1>2 DEF Stream
  <2>2. \A s \in Requests \ {r} : Live(s)' => Live(s)
    BY <1>2 DEF Stream, To, Live, Types
  <2>3. \A s \in Requests \ {r} : Live(s) /\ Chat[s] = Chat[r] => {r, s} \subseteq overlapped'
    BY <2>1 DEF Rivals
  <2> QED BY <2>1, <2>2, <2>3 DEF Noticed
<1>3. ASSUME NEW r \in Requests, Post(r) \/ Classify(r) \/ GetMCPClient(r) \/ ToolsFail(r)
      PROVE  Noticed'
  <2>1. registering' = registering /\ clearing' = clearing /\ overlapped' = overlapped
    BY <1>3 DEF Post, Classify, GetMCPClient, ToolsFail
  <2>2. \A s \in Requests : at'[s] = "streaming" => at[s] = "streaming"
    BY <1>3, ZenonT(60) DEF Post, Classify, GetMCPClient, ToolsFail, To, Fail, Types
  <2> QED BY <1>1, <2>1, <2>2 DEF Live
<1>4. ASSUME NEW c \in Requests, Created(c)
      PROVE  Noticed'
  <2>1. \A r \in Requests : at'[r] = at[r] \/ at'[r] = "500"
    BY <1>4, FailMeans DEF Created
  <2> QED BY <1>1, <1>4, <2>1 DEF Created, Live
<1>5. ASSUME NEW r \in Requests, End(r)
      PROVE  Noticed'
  BY <1>1, <1>5 DEF End, To, Live, Types
<1>6. ASSUME NEW r \in Requests, CreateNewResumableStream(r) \/ SetActiveStreamId(r)
      PROVE  Noticed'
  <2>1. /\ at' = at /\ clearing' = clearing /\ overlapped \subseteq overlapped'
        /\ registering[r] # None /\ \A s \in Requests \ {r} : registering'[s] = registering[s]
    BY <1>6 DEF CreateNewResumableStream, SetActiveStreamId, Types, None
  <2> QED BY <1>1, <2>1 DEF Live
<1>7. CASE \/ \E r \in Requests : Drained(r) \/ ClearActiveStreamId(r)
           \/ \E c \in Chats : Expire(c)
           \/ Break \/ UNCHANGED vars
  <2>1. /\ at' = at /\ clearing' \subseteq clearing /\ overlapped \subseteq overlapped'
        /\ registering' = registering
    BY <1>7 DEF Drained, ClearActiveStreamId, Expire, Break, vars
  <2> QED BY <1>1, <2>1 DEF Live
<1>8. CASE Crash
  <2>1. \A r \in Requests : ~Live(r)'
    BY <1>8 DEF Crash, Live, Over, Refused
  <2> QED BY <2>1 DEF Noticed
<1> QED BY <1>2, <1>3, <1>4, <1>5, <1>6, <1>7, <1>8 DEF Next

LEMMA NamedKeeps ==
    ASSUME Types, Paired, Noticed, Named, [Next]_vars
    PROVE  Named'
<1>1. ASSUME activeStreamId' = activeStreamId, overlapped \subseteq overlapped',
             \A r \in Requests : at'[r] = "streaming" /\ registering'[r] = None =>
                at[r] = "streaming" /\ registering[r] = None
      PROVE  Named'
  BY <1>1 DEF Named
<1>2. ASSUME NEW r \in Requests, Stream(r)
      PROVE  Named'
  <2>1. \A s \in Requests : at'[s] = "streaming" /\ registering'[s] = None =>
            at[s] = "streaming" /\ registering[s] = None
    BY <1>2 DEF Stream, To, Types, None
  <2> QED BY <1>1, <1>2, <2>1 DEF Stream, redis
<1>3. ASSUME NEW r \in Requests, Post(r) \/ Classify(r) \/ GetMCPClient(r) \/ ToolsFail(r)
      PROVE  Named'
  <2>1. registering' = registering /\ overlapped' = overlapped /\ activeStreamId' = activeStreamId
    BY <1>3 DEF Post, Classify, GetMCPClient, ToolsFail, redis
  <2>2. \A s \in Requests : at'[s] = "streaming" => at[s] = "streaming"
    BY <1>3, ZenonT(60) DEF Post, Classify, GetMCPClient, ToolsFail, To, Fail, Types
  <2> QED BY <1>1, <2>1, <2>2
<1>4. ASSUME NEW c \in Requests, Created(c)
      PROVE  Named'
  <2>1. \A r \in Requests : at'[r] = at[r] \/ at'[r] = "500"
    BY <1>4, FailMeans DEF Created
  <2> QED BY <1>1, <1>4, <2>1 DEF Created, redis
<1>5. ASSUME NEW r \in Requests, End(r)
      PROVE  Named'
  BY <1>1, <1>5 DEF End, To, redis, Types
<1>6. ASSUME NEW r \in Requests, CreateNewResumableStream(r) \/ Drained(r)
      PROVE  Named'
  BY <1>1, <1>6 DEF CreateNewResumableStream, Drained, Types, None
<1>7. ASSUME NEW r \in Requests, SetActiveStreamId(r)
      PROVE  Named'
  <2>1. /\ at' = at /\ registering[r] = "set" /\ overlapped \subseteq overlapped'
        /\ registering' = [registering EXCEPT ![r] = None]
        /\ \/ activeStreamId' = [activeStreamId EXCEPT ![Chat[r]] = r]
           \/ activeStreamId' = activeStreamId /\ r \in overlapped'
    BY <1>7 DEF SetActiveStreamId
  <2>2. Chat[r] \in Chats /\ Live(r)
    BY <2>1, ChatStreamsAssumption DEF Live, None
  <2> SUFFICES ASSUME NEW s \in Requests \ overlapped', at'[s] = "streaming",
                      registering'[s] = None
               PROVE  activeStreamId'[Chat[s]] = s
    BY DEF Named
  <2>3. CASE s = r
    BY <2>1, <2>2, <2>3 DEF Types
  <2>4. CASE s # r
    <3>1. at[s] = "streaming" /\ registering[s] = None /\ s \notin overlapped
      BY <2>1, <2>4 DEF Types
    <3>2. Chat[s] # Chat[r]
      BY <2>2, <2>4, <3>1 DEF Noticed, Live
    <3>3. activeStreamId[Chat[s]] = s /\ Chat[s] \in Chats
      BY <3>1, ChatStreamsAssumption DEF Named
    <3> QED BY <2>1, <2>2, <3>2, <3>3 DEF Types
  <2> QED BY <2>3, <2>4
<1>8. ASSUME NEW r \in Requests, ClearActiveStreamId(r)
      PROVE  Named'
  <2>1. /\ at' = at /\ r \in clearing /\ overlapped' = overlapped
        /\ registering' = registering
        /\ \/ activeStreamId' = [activeStreamId EXCEPT ![Chat[r]] = None]
           \/ activeStreamId' = activeStreamId
    BY <1>8 DEF ClearActiveStreamId
  <2> SUFFICES ASSUME NEW s \in Requests \ overlapped, at[s] = "streaming",
                      registering[s] = None
               PROVE  activeStreamId'[Chat[s]] = s
    BY <2>1 DEF Named
  <2>2. s # r
    BY <2>1 DEF Paired
  <2>3. Chat[s] # Chat[r]
    BY <2>1, <2>2 DEF Noticed, Live
  <2> QED BY <2>1, <2>3, ChatStreamsAssumption DEF Named, Types
<1>9. ASSUME NEW c \in Chats, Expire(c)
      PROVE  Named'
  BY <1>9 DEF Expire, Named, Types
<1>10. CASE Break \/ UNCHANGED vars
  BY <1>1, <1>10 DEF Break, vars, redis
<1>11. CASE Crash
  <2>1. \A r \in Requests : at'[r] # "streaming"
    BY <1>11 DEF Crash, Over, Refused
  <2> QED BY <2>1 DEF Named
<1> QED BY <1>2, <1>3, <1>4, <1>5, <1>6, <1>7, <1>8, <1>9, <1>10, <1>11 DEF Next

(* A running stream with an id can be resumed unless another of its chat was
   live beside it (route.ts: onEnd clears whichever id there is). *)
THEOREM ResumptionIsSound == Spec => []ResumableUnlessOverlapped
<1>1. Init => Paired /\ Noticed /\ Named
  BY DEF Init, Paired, Noticed, Named, Live, Waits, Early
<1>2. Types /\ Paired /\ Noticed /\ Named /\ [Next]_vars => Paired' /\ Noticed' /\ Named'
  BY PairedKeeps, NoticedKeeps, NamedKeeps
<1>3. Types /\ Paired /\ Named => ResumableUnlessOverlapped
  <2> SUFFICES ASSUME Types, Paired, Named, NEW r \in Requests \ overlapped,
                      at[r] = "streaming", registering[r] = None
               PROVE  activeStreamId[Chat[r]] = r /\ Resume(Chat[r]) = "stream"
    BY DEF ResumableUnlessOverlapped
  <2>1. activeStreamId[Chat[r]] = r /\ r # None
    BY NoneIsNoRequest DEF Named
  <2>2. sentinel[r] = "live" /\ at[r] # "dead"
    BY DEF Paired, None
  <2>3. sentinel[r] \notin {None, "done"}
    BY <2>2 DEF None
  <2> QED BY <2>1, <2>2, <2>3 DEF Resume
<1> QED BY <1>1, <1>2, <1>3, TypesHold, PTL DEF Spec
=============================================================================
