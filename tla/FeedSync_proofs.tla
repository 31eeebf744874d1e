--------------------------- MODULE FeedSync_proofs ---------------------------
(***************************************************************************)
(* For any operators, feeds and number of faults: route_stops only speaks  *)
(* of routes that are stored; a run of FullSync that returns nil has       *)
(* stored all that it claims to have loaded; a minibus stop that could not *)
(* be fetched is somewhere until it is; and names are lost only where the  *)
(* retry set brought a stop without them.                                  *)
(***************************************************************************)
EXTENDS FeedSync, WellFoundedInduction, TLAPS

Known3 == {"absent", "blank", "full"}

Types ==
    /\ names \in [Stops -> Known3]
    /\ got \in [Clients -> [Stops -> Known3]]
    /\ pc \in [Clients -> Steps]
    /\ listed \in [Clients -> SUBSET Lines]
    /\ \A c \in Clients : listed[c] \subseteq Of(c)
    /\ seen \subseteq Stops

(* A goroutine that fetches route stops has all its routes in the table. *)
ListedStored == \A c \in Clients : pc[c] = "routeStops" => listed[c] \subseteq routes

(* A stop that was claimed is stored, or its owner has yet to save it. *)
Saving(s) == \E c \in Clients : pc[c] = "save" /\ got[c][s] # "absent"
Claimed == ~firstErr => \A s \in seen : names[s] # "absent" \/ Saving(s)

SInv == /\ Types /\ ListedStored /\ RouteStopsHaveRoutes
        /\ loaded \subseteq routeStops /\ Claimed /\ SuccessIsComplete

-----------------------------------------------------------------------------
Less == {mn \in Nat \X Nat : mn[1] < mn[2]}

LEMMA Least ==
    ASSUME NEW T, T \subseteq Nat, T # {}
    PROVE  \E n \in T : \A m \in T : n <= m
<1>1. IsWellFoundedOn(Less, Nat)
  BY NatLessThanWellFounded DEF OpToRel, Less
<1>2. PICK n \in T : \A m \in T : <<m, n>> \notin Less
  BY <1>1, WFMin
<1>3. \A m \in T : ~(m < n)
  BY <1>2 DEF Less
<1> QED BY <1>3

(* FetchRouteStops finds a line of the same code among those listed. *)
LEMMA ResolvedIsListed ==
    ASSUME Types, NEW c \in Clients, NEW r \in listed[c]
    PROVE  Resolved(r) \in listed[c]
<1> DEFINE T == {q.region : q \in {p \in listed[c] : p.code = r.code}}
<1>1. r.op = c /\ listed[c] \subseteq Lines
  BY DEF Types, Of
<1>2. \A q \in listed[c] : q.region \in Nat
  BY <1>1, FeedSyncAssumption DEF Line
<1>3. T \subseteq Nat /\ T # {}
  BY <1>2
<1>4. PICK n \in T : \A m \in T : n <= m
  BY <1>3, Least
<1>5. PICK q \in listed[c] : q.code = r.code /\ q.region = n
  BY <1>4
<1>6. \A p \in listed[c] : p.code = r.code => q.region <= p.region
  BY <1>4, <1>5
<1>7. \E q1 \in listed[r.op] :
        /\ q1.code = r.code
        /\ \A p \in listed[r.op] : p.code = r.code => q1.region <= p.region
  BY <1>1, <1>5, <1>6
<1>8. Resolved(r) \in listed[r.op]
  BY <1>7 DEF Resolved
<1> QED BY <1>1, <1>8

-----------------------------------------------------------------------------
(* One lemma for each action. *)
LEMMA BeginKeeps == SInv /\ Begin => SInv'
<1> SUFFICES ASSUME SInv, Begin PROVE SInv'
  OBVIOUS
<1>1. PICK C \in SUBSET Clients :
        pc' = [c \in Clients |-> IF c \in C THEN "routes" ELSE "done"]
  BY DEF Begin
<1>2. /\ UNCHANGED <<routes, routeStops, names, listed, got, seen, loaded, firstErr>>
      /\ outcome' = "none" /\ \A c \in Clients : pc[c] = "off"
  BY DEF Begin, tables, goroutines, shared, Running
<1>3. Types'
  BY <1>1, <1>2 DEF SInv, Types, Steps
<1>4. ListedStored' /\ Claimed'
  BY <1>1, <1>2 DEF SInv, ListedStored, Claimed, Saving
<1> QED BY <1>2, <1>3, <1>4 DEF SInv, RouteStopsHaveRoutes, SuccessIsComplete

LEMMA RoutesKeeps ==
    ASSUME SInv, NEW c \in Clients, Routes(c)
    PROVE  SInv'
<1>1. /\ UNCHANGED <<routeStops, names, got, seen, loaded, index, outcome>>
      /\ pc[c] = "routes"
  BY DEF Routes, result
<1>2. CASE GiveUp(c) /\ UNCHANGED <<listed, routes>>
  <2>1. Types' /\ ListedStored' /\ Claimed'
    BY <1>1, <1>2 DEF SInv, Types, GiveUp, Goto, Steps, ListedStored, Claimed
  <2> QED BY <1>1, <1>2, <2>1 DEF SInv, RouteStopsHaveRoutes, SuccessIsComplete
<1>3. CASE \E L \in SUBSET Of(c) :
             /\ listed' = [listed EXCEPT ![c] = L]
             /\ \/ routes' = routes \cup L /\ GoOn(c, "routeStops")
                \/ (\E W \in SUBSET L : routes' = routes \cup W) /\ GiveUp(c)
  <2>1. PICK L \in SUBSET Of(c) :
             /\ listed' = [listed EXCEPT ![c] = L]
             /\ \/ routes' = routes \cup L /\ GoOn(c, "routeStops")
                \/ (\E W \in SUBSET L : routes' = routes \cup W) /\ GiveUp(c)
    BY <1>3
  <2>2. L \subseteq Lines /\ routes \subseteq routes'
    BY <2>1 DEF Of
  <2>3. Types'
    BY <1>1, <2>1, <2>2 DEF SInv, Types, GiveUp, GoOn, Goto, Steps
  <2>4. ListedStored'
    BY <1>1, <2>1, <2>2 DEF SInv, Types, ListedStored, GiveUp, GoOn, Goto
  <2>5. Claimed'
    BY <1>1, <2>1 DEF SInv, Types, Claimed, Saving, GiveUp, GoOn, Goto
  <2> QED BY <1>1, <2>2, <2>3, <2>4, <2>5 DEF SInv, RouteStopsHaveRoutes, SuccessIsComplete
<1> QED BY <1>2, <1>3 DEF Routes

LEMMA RouteStopsKeeps ==
    ASSUME SInv, NEW c \in Clients, RouteStops(c)
    PROVE  SInv'
<1>1. /\ UNCHANGED <<routes, names, listed, got, seen, index, outcome>>
      /\ pc[c] = "routeStops"
  BY DEF RouteStops, result
<1> DEFINE Rows(ok) == UNION {RowsOf(r) : r \in ok}
<1>2. PICK ok \in SUBSET listed[c] :
        \/ /\ routeStops' = routeStops \cup Rows(ok)
           /\ loaded' = loaded \cup Rows(ok)
           /\ GoOn(c, "stops")
        \/ /\ \E W \in SUBSET Rows(ok) : routeStops' = routeStops \cup W
           /\ GiveUp(c)
           /\ UNCHANGED loaded
  BY DEF RouteStops
<1>3. \A row \in Rows(ok) : row[1] \in routes
  <2> SUFFICES ASSUME NEW row \in Rows(ok) PROVE row[1] \in routes
    OBVIOUS
  <2>1. PICK r \in ok : row \in RowsOf(r)
    OBVIOUS
  <2>2. Resolved(r) \in listed[c]
    BY <1>2, ResolvedIsListed DEF SInv
  <2>3. row[1] = Resolved(r)
    BY <2>1 DEF RowsOf
  <2> QED BY <1>1, <2>2, <2>3 DEF SInv, ListedStored
<1> HIDE DEF Rows
<1>4. PICK W \in SUBSET Rows(ok) : routeStops' = routeStops \cup W
  BY <1>2
<1>5. Types' /\ ListedStored'
  BY <1>1, <1>2 DEF SInv, Types, ListedStored, GiveUp, GoOn, Goto, Steps
<1>6. Claimed'
  BY <1>1, <1>2 DEF SInv, Types, Claimed, Saving, GiveUp, GoOn, Goto
<1>7. RouteStopsHaveRoutes'
  BY <1>1, <1>3, <1>4 DEF SInv, RouteStopsHaveRoutes
<1>8. loaded' \subseteq routeStops' /\ SuccessIsComplete'
  BY <1>1, <1>2, <1>4 DEF SInv, SuccessIsComplete
<1> QED BY <1>5, <1>6, <1>7, <1>8 DEF SInv

(* The steps that only fetch stops. *)
LEMMA FetchKeeps ==
    ASSUME SInv, NEW c \in Clients, FetchStops(c) \/ (c = Gmb /\ (LoadRetries \/ FetchGmbStops))
    PROVE  SInv'
<1>1. UNCHANGED <<routes, routeStops, names, listed, seen, loaded, index, outcome>>
  BY DEF FetchStops, LoadRetries, FetchGmbStops, tables, shared, result
<1>2. /\ pc[c] \in {"stops", "fetch"}
      /\ \E step \in {"done", "dedupe", "fetch"} : pc' = [pc EXCEPT ![c] = step]
      /\ firstErr' = firstErr \/ firstErr'
  BY DEF FetchStops, LoadRetries, FetchGmbStops, shared, GiveUp, GoOn, Goto
<1>3. got' = got \/ \E f \in [Stops -> Known3] : got' = [got EXCEPT ![c] = f]
  <2>1. CASE FetchStops(c)
    <3>1. \A S : [s \in Stops |-> IF s \in S THEN "full" ELSE "absent"] \in [Stops -> Known3]
      BY DEF Known3
    <3> QED BY <2>1, <3>1 DEF FetchStops
  <2>2. CASE c = Gmb /\ LoadRetries
    BY <2>2 DEF LoadRetries
  <2>3. CASE c = Gmb /\ FetchGmbStops
    <3>1. \A known, ok : [s \in Stops |-> IF s \in ok THEN NameFor(s, known) ELSE "absent"]
                            \in [Stops -> Known3]
      BY DEF Known3, NameFor
    <3> DEFINE Source == IF cached # {} THEN {cached} ELSE {StopsOf(X) : X \in SUBSET Of(Gmb)}
               Named(known, ok) ==
                    [s \in Stops |-> IF s \in ok THEN NameFor(s, known) ELSE "absent"]
    <3>2. PICK known \in Source : \E ok \in SUBSET (known \cup members) :
              got' = [got EXCEPT ![Gmb] = Named(known, ok)]
      BY <2>3, Zenon DEF FetchGmbStops
    <3> HIDE DEF Source
    <3>3. PICK ok \in SUBSET (known \cup members) :
              got' = [got EXCEPT ![Gmb] = Named(known, ok)]
      BY <3>2
    <3>4. Named(known, ok) \in [Stops -> Known3]
      BY <3>1
    <3> QED BY <2>3, <3>3, <3>4
  <2> QED BY <2>1, <2>2, <2>3
<1>4. Types' /\ ListedStored'
  BY <1>1, <1>2, <1>3 DEF SInv, Types, ListedStored, Steps
<1>5. Claimed'
  <2>1. ~firstErr' => ~firstErr
    BY <1>2, Zenon
  <2>2. \A s \in Stops : Saving(s) => Saving(s)'
    BY <1>2, <1>3 DEF SInv, Types, Saving
  <2> QED BY <1>1, <2>1, <2>2 DEF SInv, Types, Claimed
<1> QED BY <1>1, <1>4, <1>5 DEF SInv, RouteStopsHaveRoutes, SuccessIsComplete

LEMMA DedupeKeeps ==
    ASSUME SInv, NEW c \in Clients, Dedupe(c)
    PROVE  SInv'
<1>1. UNCHANGED <<routes, routeStops, names, listed, loaded, firstErr, index, outcome>>
  BY DEF Dedupe, tables, result
<1>2. /\ pc[c] = "dedupe"
      /\ got' = [got EXCEPT ![c] = [s \in Stops |-> IF s \in seen THEN "absent" ELSE got[c][s]]]
      /\ seen' = seen \cup Known(got[c])
      /\ pc' = [pc EXCEPT ![c] = IF Known(got[c]) \subseteq seen THEN "done" ELSE "save"]
  BY DEF Dedupe, Goto
<1>3. [s \in Stops |-> IF s \in seen THEN "absent" ELSE got[c][s]] \in [Stops -> Known3]
  BY DEF SInv, Types, Known3
<1>4. Types' /\ ListedStored'
  BY <1>1, <1>2, <1>3 DEF SInv, Types, ListedStored, Steps, Known
<1>5. \A s \in Stops : Saving(s) => Saving(s)'
  BY <1>2 DEF SInv, Types, Saving
<1>6. \A s \in Known(got[c]) \ seen : Saving(s)'
  <2> SUFFICES ASSUME NEW s \in Known(got[c]) \ seen PROVE Saving(s)'
    OBVIOUS
  <2>1. pc'[c] = "save" /\ got'[c][s] # "absent"
    BY <1>2 DEF SInv, Types, Known
  <2> QED BY <2>1 DEF Saving
<1>7. Claimed'
  BY <1>1, <1>2, <1>5, <1>6 DEF SInv, Types, Claimed
<1> QED BY <1>1, <1>4, <1>7 DEF SInv, RouteStopsHaveRoutes, SuccessIsComplete

LEMMA SaveKeeps ==
    ASSUME SInv, NEW c \in Clients, Save(c)
    PROVE  SInv'
<1>1. /\ UNCHANGED <<routes, routeStops, listed, seen, loaded, index, outcome>>
      /\ pc[c] = "save" /\ got' = [got EXCEPT ![c] = Nothing]
      /\ pc' = [pc EXCEPT ![c] = "done"]
  BY DEF Save, result, GoOn, GiveUp, Goto
<1>2. PICK W \in SUBSET Known(got[c]) :
        /\ names' = [s \in Stops |-> IF s \in W THEN got[c][s] ELSE names[s]]
        /\ firstErr' = TRUE \/ (W = Known(got[c]) /\ UNCHANGED firstErr)
  BY DEF Save, GoOn, GiveUp, Overwrite
<1>3. Types' /\ ListedStored'
  BY <1>1, <1>2 DEF SInv, Types, ListedStored, Steps, Known, Known3, Nothing
<1>4. Known(names) \subseteq Known(names')
  BY <1>2 DEF SInv, Types, Known
<1>5. Claimed'
  <2> SUFFICES ASSUME ~firstErr', NEW s \in seen
               PROVE  names'[s] # "absent" \/ Saving(s)'
    BY <1>1 DEF Claimed
  <2>1. W = Known(got[c]) /\ UNCHANGED firstErr
    BY <1>2, Zenon
  <2>2. ~firstErr /\ s \in Stops
    <3>1. ~firstErr
      BY <2>1, Zenon
    <3>2. s \in Stops
      BY DEF SInv, Types
    <3> QED BY <3>1, <3>2
  <2>3. CASE names[s] # "absent"
    BY <1>4, <2>2, <2>3 DEF Known
  <2>4. CASE Saving(s)
    <3>1. PICK d \in Clients : pc[d] = "save" /\ got[d][s] # "absent"
      BY <2>4 DEF Saving
    <3>2. CASE d = c
      BY <1>2, <2>1, <2>2, <3>1, <3>2 DEF Known
    <3>3. CASE d # c
      BY <1>1, <3>1, <3>3 DEF SInv, Types, Saving
    <3> QED BY <3>2, <3>3
  <2> QED BY <2>2, <2>3, <2>4 DEF SInv, Claimed
<1> QED BY <1>1, <1>3, <1>4, <1>5 DEF SInv, RouteStopsHaveRoutes, SuccessIsComplete

LEMMA ForgetMeans ==
    ASSUME Forget, SInv, UNCHANGED <<routes, routeStops, names>>
    PROVE  Types' /\ ListedStored' /\ loaded' \subseteq routeStops' /\ Claimed'
<1>1. /\ pc' = [c \in Clients |-> "off"] /\ listed' = [c \in Clients |-> {}]
      /\ got' = [c \in Clients |-> Nothing] /\ seen' = {} /\ loaded' = {}
  BY DEF Forget
<1>2. Types'
  BY <1>1 DEF SInv, Types, Steps, Nothing, Known3
<1> QED BY <1>1, <1>2 DEF ListedStored, Claimed

LEMMA FinishKeeps == SInv /\ Finish => SInv'
<1> SUFFICES ASSUME SInv, Finish PROVE SInv'
  OBVIOUS
<1>1. /\ UNCHANGED <<routes, routeStops, names>> /\ Forget
      /\ index' = [stops |-> seen, routeStops |-> loaded]
      /\ outcome' = IF firstErr THEN "err" ELSE "ok"
      /\ \A c \in Clients : pc[c] = "done"
  BY DEF Finish, tables
<1>2. SuccessIsComplete'
  <2> SUFFICES ASSUME outcome' = "ok"
               PROVE  seen \subseteq Known(names) /\ loaded \subseteq routeStops
    BY <1>1 DEF SuccessIsComplete, Known
  <2>1. ~firstErr
    BY <1>1
  <2>2. \A s \in seen : ~Saving(s)
    BY <1>1 DEF Saving
  <2> QED BY <2>1, <2>2 DEF SInv, Types, Claimed, Known
<1> QED BY <1>1, <1>2, ForgetMeans DEF SInv, RouteStopsHaveRoutes

LEMMA CrashKeeps == SInv /\ Crash => SInv'
<1> SUFFICES ASSUME SInv, Crash PROVE SInv'
  OBVIOUS
<1>1. UNCHANGED <<routes, routeStops, names, index, outcome>> /\ Forget
  BY DEF Crash, tables, result
<1> QED BY <1>1, ForgetMeans DEF SInv, RouteStopsHaveRoutes, SuccessIsComplete

LEMMA AsideKeeps == SInv /\ (Interrupt \/ RedisRestart \/ UNCHANGED vars) => SInv'
<1> SUFFICES ASSUME SInv, Interrupt \/ RedisRestart \/ UNCHANGED vars PROVE SInv'
  OBVIOUS
<1>1. UNCHANGED <<routes, routeStops, names, pc, listed, got, seen, loaded, firstErr,
                  index, outcome>>
  BY DEF Interrupt, RedisRestart, vars, tables, goroutines, shared, result
<1> QED BY <1>1 DEF SInv, Types, ListedStored, Claimed, Saving, RouteStopsHaveRoutes,
                    SuccessIsComplete, Known

LEMMA Invariants == Spec => []SInv
<1>1. Init => SInv
  BY DEF Init, SInv, Types, Steps, Nothing, Known3, ListedStored, Claimed, Saving,
         RouteStopsHaveRoutes, SuccessIsComplete
<1>2. SInv /\ [Next]_vars => SInv'
  BY BeginKeeps, RoutesKeeps, RouteStopsKeeps, FetchKeeps, DedupeKeeps, SaveKeeps,
     FinishKeeps, CrashKeeps, AsideKeeps DEF Next, Client
<1> QED BY <1>1, <1>2, PTL DEF Spec

(* route_stops never speaks of a route that is not stored, wherever a batch
   failed or a run was killed (FullSync's order of upserts). *)
THEOREM RoutesComeFirst == Spec => []RouteStopsHaveRoutes
<1>1. SInv => RouteStopsHaveRoutes
  BY DEF SInv
<1> QED BY <1>1, Invariants, PTL

(* A run of FullSync that returns nil has stored all that it loaded, the
   stops that one goroutine left to another included (seenStops). *)
THEOREM SuccessIsHonest == Spec => []SuccessIsComplete
<1>1. SInv => SuccessIsComplete
  BY DEF SInv
<1> QED BY <1>1, Invariants, PTL
-----------------------------------------------------------------------------
(* What is stored speaks of lines and stops of the operators. *)
Rows == /\ routes \subseteq Lines
        /\ routeStops \subseteq Lines \X Stops /\ loaded \subseteq Lines \X Stops
        /\ retries \subseteq Stops /\ cached \subseteq Stops /\ members \subseteq Stops
        /\ index.stops \subseteq Stops /\ index.routeStops \subseteq Lines \X Stops

Flags == /\ firstErr \in BOOLEAN /\ cancelled \in BOOLEAN
         /\ slipped \in BOOLEAN
         /\ outcome \in {"none", "ok", "err"}
         /\ faults \in 0..MaxFaults

LEMMA LinesServeStops ==
    ASSUME NEW L, L \subseteq Lines
    PROVE  StopsOf(L) \subseteq Stops
<1>1. \A r \in L : r.stops \subseteq Stops
  BY FeedSyncAssumption DEF Line
<1> QED BY <1>1 DEF StopsOf

LEMMA RowsKept ==
    ASSUME Types, Rows, NEW c \in Clients,
           Routes(c) \/ RouteStops(c) \/ (c = Gmb /\ (LoadRetries \/ FetchGmbStops))
    PROVE  Rows'
<1>1. CASE Routes(c)
  <2>1. \E L \in SUBSET Of(c) : routes' = routes \/ \E W \in SUBSET L : routes' = routes \cup W
    BY <1>1 DEF Routes
  <2>2. routes' \subseteq Lines
    BY <2>1 DEF Rows, Of
  <2> QED BY <1>1, <2>2 DEF Routes, result, Rows
<1>2. CASE RouteStops(c)
  <2> DEFINE New(ok) == UNION {RowsOf(r) : r \in ok}
  <2>1. PICK ok \in SUBSET listed[c] :
          /\ cached' = IF c = Gmb THEN cached \cup {row[2] : row \in New(ok)} ELSE cached
          /\ \/ routeStops' = routeStops \cup New(ok) /\ loaded' = loaded \cup New(ok)
             \/ (\E W \in SUBSET New(ok) : routeStops' = routeStops \cup W) /\ UNCHANGED loaded
    BY <1>2 DEF RouteStops
  <2>2. New(ok) \subseteq Lines \X Stops
    <3>1. \A r \in ok : Resolved(r) \in Lines
      BY <2>1, ResolvedIsListed DEF Types
    <3>2. \A r \in ok : Resolved(r).stops \subseteq Stops
      BY <3>1, FeedSyncAssumption DEF Line
    <3> QED BY <3>1, <3>2 DEF RowsOf
  <2>3. \A row \in New(ok) : row[2] \in Stops
    BY <2>2
  <2> HIDE DEF New
  <2>4. cached' \subseteq Stops
    BY <2>1, <2>3 DEF Rows
  <2>5. routeStops' \subseteq Lines \X Stops /\ loaded' \subseteq Lines \X Stops
    BY <2>1, <2>2 DEF Rows
  <2> QED BY <1>2, <2>4, <2>5 DEF RouteStops, result, Rows
<1>3. CASE c = Gmb /\ LoadRetries
  BY <1>3 DEF LoadRetries, tables, shared, result, Rows
<1>4. CASE c = Gmb /\ FetchGmbStops
  <2>1. PICK known \in IF cached # {} THEN {cached} ELSE {StopsOf(X) : X \in SUBSET Of(Gmb)} :
          \E ok : retries' = retries \cup ((known \cup members) \ ok) \/ UNCHANGED retries
    BY <1>4 DEF FetchGmbStops, Remember
  <2>2. known \subseteq Stops
    BY <2>1, LinesServeStops DEF Of, Rows
  <2>3. retries' \subseteq Stops
    BY <2>1, <2>2 DEF Rows
  <2> QED BY <1>4, <2>3 DEF FetchGmbStops, tables, shared, result, Rows
<1> QED BY <1>1, <1>2, <1>3, <1>4

LEMMA RowsKeep ==
    ASSUME Types, Rows, [Next]_vars
    PROVE  Rows'
<1>1. ASSUME NEW c \in Clients, FetchStops(c) \/ Dedupe(c) \/ Save(c)
      PROVE  Rows'
  BY <1>1 DEF FetchStops, Dedupe, Save, tables, shared, result, Rows
<1>2. CASE Begin
  BY <1>2 DEF Begin, tables, goroutines, shared, NoIndex, Rows
<1>3. CASE Finish
  BY <1>3 DEF Finish, Forget, tables, Types, Rows
<1>4. CASE Crash
  BY <1>4 DEF Crash, Forget, tables, result, Rows
<1>5. CASE Interrupt \/ RedisRestart \/ UNCHANGED vars
  BY <1>5 DEF Interrupt, RedisRestart, vars, tables, goroutines, shared, result, Rows
<1> QED BY <1>1, <1>2, <1>3, <1>4, <1>5, RowsKept DEF Next, Client

LEMMA FlagsKeep ==
    ASSUME Flags, [Next]_vars
    PROVE  Flags'
<1>1. MaxFaults \in Nat
  BY FeedSyncAssumption
<1>2. ASSUME NEW c \in Clients, Client(c)
      PROVE  /\ firstErr' \in BOOLEAN /\ cancelled' = cancelled
             /\ slipped' \in BOOLEAN /\ outcome' = outcome
             /\ Fault \/ NoFault
  <2>1. CASE Routes(c)
    BY <2>1 DEF Routes, GiveUp, GoOn, Succeeds, Fails, NoFault, result, Flags
  <2>2. CASE RouteStops(c)
    BY <2>2 DEF RouteStops, GiveUp, GoOn, Succeeds, Fails, NoFault, result, Flags
  <2>3. CASE FetchStops(c) \/ Dedupe(c)
    BY <2>3 DEF FetchStops, Dedupe, GiveUp, GoOn, NoFault, shared, result, Flags
  <2>4. CASE LoadRetries \/ FetchGmbStops
    BY <2>4 DEF LoadRetries, FetchGmbStops, Succeeds, Fails, NoFault, shared, result, Flags
  <2>5. CASE Save(c)
    BY <2>5 DEF Save, GiveUp, GoOn, Succeeds, Fails, NoFault, result, Flags
  <2> QED BY <1>2, <2>1, <2>2, <2>3, <2>4, <2>5 DEF Client
<1>3. ASSUME NEW c \in Clients, Client(c)
      PROVE  Flags'
  <2>1. faults' \in 0..MaxFaults
    BY <1>1, <1>2, <1>3 DEF Fault, NoFault, Flags
  <2>2. cancelled' \in BOOLEAN /\ outcome' \in {"none", "ok", "err"}
    BY <1>2, <1>3 DEF Flags
  <2> QED BY <1>2, <1>3, <2>1, <2>2 DEF Flags
<1>4. CASE Begin \/ Finish \/ UNCHANGED vars
  BY <1>4 DEF Begin, Finish, Forget, shared, result, vars, Flags
<1>5. CASE Interrupt \/ Crash \/ RedisRestart
  <2>1. faults' \in 0..MaxFaults
    BY <1>1, <1>5 DEF Interrupt, Crash, RedisRestart, Fault, Flags
  <2>2. /\ firstErr' \in BOOLEAN /\ cancelled' \in BOOLEAN
        /\ slipped' \in BOOLEAN
    BY <1>5 DEF Interrupt, Crash, RedisRestart, Forget, shared, Flags
  <2>3. outcome' = outcome
    BY <1>5 DEF Interrupt, Crash, RedisRestart, result
  <2> QED BY <2>1, <2>2, <2>3 DEF Flags
<1> QED BY <1>3, <1>4, <1>5 DEF Next

(* The state stays well typed: tables, caches and the retry set never hold
   what no operator publishes. *)
THEOREM TypeCorrect == Spec => []TypeOK
<1>1. Init => Rows /\ Flags
  <2> SUFFICES ASSUME Init PROVE Rows /\ Flags
    OBVIOUS
  <2>1. Rows
    BY DEF Init, NoIndex, Rows
  <2>2. /\ firstErr \in BOOLEAN /\ cancelled \in BOOLEAN
        /\ slipped \in BOOLEAN
    BY Zenon DEF Init
  <2>3. outcome \in {"none", "ok", "err"}
    BY DEF Init
  <2>4. MaxFaults \in Nat
    BY FeedSyncAssumption
  <2>5. faults \in 0..MaxFaults
    BY <2>4 DEF Init
  <2> QED BY <2>1, <2>2, <2>3, <2>5 DEF Flags
<1>2. SInv /\ Rows /\ Flags /\ [Next]_vars => Rows' /\ Flags'
  BY RowsKeep, FlagsKeep DEF SInv
<1>3. SInv /\ Rows /\ Flags => TypeOK
  BY DEF SInv, Types, Known3, Rows, Flags, TypeOK
<1> QED BY <1>1, <1>2, <1>3, Invariants, PTL DEF Spec
-----------------------------------------------------------------------------
(* Where a minibus stop can be while no fault has hit one on its way: stored,
   in the retry set, with the client that is about to fetch it, or with the
   goroutine that is about to save it. *)
Fetching(s) ==
    \/ pc[Gmb] \in {"stops", "fetch"} /\ s \in cached
    \/ pc[Gmb] = "fetch" /\ s \in members
    \/ pc[Gmb] = "dedupe" /\ got[Gmb][s] # "absent"
Somewhere(s) == s \in Known(names) \cup retries \/ Fetching(s) \/ Saving(s)
Midway == ~slipped => \A row \in routeStops : row[1].op = Gmb => Somewhere(row[2])

(* What was claimed is stored or about to be, also in a run that will fail. *)
ClaimKept == ~slipped => \A s \in seen : s \in Known(names) \/ Saving(s)

(* A stop without names is a retry of a run that met it in no route. *)
BlankIsRetry == \A c \in Clients, s \in Stops : got[c][s] = "blank" =>
                    /\ c = Gmb /\ s \in members /\ s \notin cached
                    /\ pc[Gmb] \in {"dedupe", "save"}

KInv == Midway /\ ClaimKept /\ BlankIsRetry

LEMMA RoutesHold ==
    ASSUME SInv, Rows, KInv, NEW c \in Clients, Routes(c)
    PROVE  KInv'
<1>1. /\ UNCHANGED <<routeStops, names, retries, got, seen, cached, members, slipped>>
      /\ pc[c] = "routes" /\ \E step \in {"done", "routeStops"} : pc' = [pc EXCEPT ![c] = step]
  BY DEF Routes, GiveUp, GoOn, Goto
<1>2. \A s \in Stops : Saving(s) => Saving(s)'
  BY <1>1 DEF SInv, Types, Saving
<1>3. \A s \in Stops : Fetching(s) => Fetching(s)'
  BY <1>1 DEF SInv, Types, Fetching
<1>4. Midway'
  BY <1>1, <1>2, <1>3 DEF KInv, Midway, Somewhere, Rows, Known
<1>5. ClaimKept'
  BY <1>1, <1>2 DEF KInv, ClaimKept, SInv, Types, Known
<1>6. BlankIsRetry'
  BY <1>1, FeedSyncAssumption DEF KInv, BlankIsRetry, SInv, Types
<1> QED BY <1>4, <1>5, <1>6 DEF KInv

LEMMA RouteStopsHold ==
    ASSUME SInv, Rows, KInv, NEW c \in Clients, RouteStops(c)
    PROVE  KInv'
<1>1. /\ UNCHANGED <<names, retries, got, seen, members>>
      /\ pc[c] = "routeStops"
  BY DEF RouteStops
<1> DEFINE New(ok) == UNION {RowsOf(r) : r \in ok}
<1>2. PICK ok \in SUBSET listed[c] :
        /\ cached' = IF c = Gmb THEN cached \cup {row[2] : row \in New(ok)} ELSE cached
        /\ \/ /\ routeStops' = routeStops \cup New(ok)
              /\ GoOn(c, "stops")
              /\ UNCHANGED slipped
           \/ /\ \E W \in SUBSET New(ok) : routeStops' = routeStops \cup W
              /\ GiveUp(c)
              /\ slipped' = (slipped \/ c = Gmb)
  BY DEF RouteStops
<1>3. \A row \in New(ok) : row[1].op = c
  <2> SUFFICES ASSUME NEW r \in ok, NEW row \in RowsOf(r) PROVE row[1].op = c
    OBVIOUS
  <2>1. Resolved(r) \in listed[c]
    BY <1>2, ResolvedIsListed DEF SInv
  <2> QED BY <2>1 DEF RowsOf, SInv, Types, Of
<1> HIDE DEF New
<1>4. \E step \in {"stops", "done"} : pc' = [pc EXCEPT ![c] = step]
  BY <1>2 DEF GoOn, GiveUp, Goto
<1>5. \A s \in Stops : Saving(s) => Saving(s)'
  BY <1>1, <1>4 DEF SInv, Types, Saving
<1>6. \A s \in Stops : ~Fetching(s) \/ c # Gmb
  BY <1>1 DEF Fetching
<1>7. \A s \in Stops : Fetching(s) => Fetching(s)'
  BY <1>1, <1>2, <1>4, <1>6 DEF SInv, Types, Fetching
<1>8. ~slipped' => ~slipped
  BY <1>2, Zenon
<1>9. Midway'
  <2> SUFFICES ASSUME ~slipped', NEW row \in routeStops', row[1].op = Gmb
               PROVE  Somewhere(row[2])'
    BY DEF Midway
  <2>1. CASE row \in routeStops
    BY <1>1, <1>5, <1>7, <1>8, <2>1 DEF KInv, Midway, Somewhere, Rows, Known
  <2>2. CASE row \notin routeStops
    <3>1. row \in New(ok) /\ c = Gmb
      BY <1>2, <1>3, <2>2
    <3>2. GoOn(c, "stops")
      BY <1>2, <3>1, Zenon
    <3>3. pc'[Gmb] = "stops" /\ row[2] \in cached'
      BY <1>2, <3>1, <3>2 DEF GoOn, Goto, SInv, Types
    <3> QED BY <3>3 DEF Somewhere, Fetching
  <2> QED BY <2>1, <2>2
<1>10. ClaimKept'
  BY <1>1, <1>5, <1>8 DEF KInv, ClaimKept, SInv, Types, Known
<1>11. BlankIsRetry'
  <2>1. \A d \in Clients, s \in Stops : got[d][s] = "blank" => c # Gmb
    BY <1>1 DEF KInv, BlankIsRetry
  <2> QED BY <1>1, <1>2, <1>4, <2>1 DEF KInv, BlankIsRetry, SInv, Types
<1> QED BY <1>9, <1>10, <1>11 DEF KInv

LEMMA FetchStopsHold ==
    ASSUME SInv, Rows, KInv, NEW c \in Clients, FetchStops(c)
    PROVE  KInv'
<1>1. /\ UNCHANGED <<routeStops, names, retries, seen, cached, members, slipped>>
      /\ c # Gmb /\ pc[c] = "stops"
      /\ \E step \in {"done", "dedupe"} : pc' = [pc EXCEPT ![c] = step]
  BY DEF FetchStops, GiveUp, GoOn, Goto, tables
<1>2. \/ got' = got
      \/ \E S : got' = [got EXCEPT ![c] = [s \in Stops |-> IF s \in S THEN "full" ELSE "absent"]]
  BY DEF FetchStops
<1>3. \A s \in Stops : Saving(s) => Saving(s)'
  BY <1>1, <1>2 DEF SInv, Types, Saving
<1>4. \A s \in Stops : Fetching(s) => Fetching(s)'
  BY <1>1, <1>2, FeedSyncAssumption DEF SInv, Types, Fetching
<1>5. Midway'
  BY <1>1, <1>3, <1>4 DEF KInv, Midway, Somewhere, Rows, Known
<1>6. ClaimKept'
  BY <1>1, <1>3 DEF KInv, ClaimKept, SInv, Types, Known
<1>7. BlankIsRetry'
  BY <1>1, <1>2, FeedSyncAssumption DEF KInv, BlankIsRetry, SInv, Types
<1> QED BY <1>5, <1>6, <1>7 DEF KInv

LEMMA LoadRetriesHold ==
    ASSUME SInv, Rows, KInv, LoadRetries
    PROVE  KInv'
<1>1. /\ UNCHANGED <<routeStops, names, got, seen, cached>>
      /\ pc[Gmb] = "stops" /\ pc' = [pc EXCEPT ![Gmb] = "fetch"]
      /\ slipped' = (slipped \/ ~(retries \subseteq members' \cup retries'))
  BY DEF LoadRetries, Goto, tables, shared
<1>2. Gmb \in Clients
  BY FeedSyncAssumption
<1>3. \A s \in Stops : Saving(s) => Saving(s)'
  BY <1>1, <1>2 DEF SInv, Types, Saving
<1>4. ~slipped' => ~slipped /\ retries \subseteq members' \cup retries'
  BY <1>1, Zenon
<1>5. pc'[Gmb] = "fetch"
  BY <1>1, <1>2 DEF SInv, Types
<1>6. Midway'
  <2> SUFFICES ASSUME ~slipped', NEW row \in routeStops, row[1].op = Gmb
               PROVE  Somewhere(row[2])'
    BY <1>1 DEF Midway
  <2>1. Somewhere(row[2]) /\ row[2] \in Stops
    BY <1>4 DEF KInv, Midway, Rows
  <2> QED BY <1>1, <1>3, <1>4, <1>5, <2>1 DEF Somewhere, Fetching, Known
<1>7. ClaimKept'
  BY <1>1, <1>3, <1>4 DEF KInv, ClaimKept, SInv, Types, Known
<1>8. BlankIsRetry'
  <2>1. \A d \in Clients, s \in Stops : got[d][s] # "blank"
    BY <1>1 DEF KInv, BlankIsRetry
  <2> QED BY <1>1, <2>1 DEF BlankIsRetry
<1> QED BY <1>6, <1>7, <1>8 DEF KInv

LEMMA FetchGmbHold ==
    ASSUME SInv, Rows, KInv, FetchGmbStops
    PROVE  KInv'
<1>1. /\ UNCHANGED <<routeStops, names, seen, cached, members>>
      /\ pc[Gmb] = "fetch" /\ pc' = [pc EXCEPT ![Gmb] = "dedupe"]
  BY DEF FetchGmbStops, Goto, tables, shared
<1>2. Gmb \in Clients
  BY FeedSyncAssumption
<1> DEFINE Source == IF cached # {} THEN {cached} ELSE {StopsOf(X) : X \in SUBSET Of(Gmb)}
           Named(known, ok) == [s \in Stops |-> IF s \in ok THEN NameFor(s, known) ELSE "absent"]
<1>3. PICK known \in Source : \E ok \in SUBSET (known \cup members) :
        /\ got' = [got EXCEPT ![Gmb] = Named(known, ok)]
        /\ \/ Remember(known \cup members, ok) /\ UNCHANGED slipped
           \/ UNCHANGED retries /\ slipped' = TRUE
  BY Zenon DEF FetchGmbStops
<1>4. cached \subseteq known
  BY <1>3
<1> HIDE DEF Source
<1>5. PICK ok \in SUBSET (known \cup members) :
        /\ got' = [got EXCEPT ![Gmb] = Named(known, ok)]
        /\ \/ Remember(known \cup members, ok) /\ UNCHANGED slipped
           \/ UNCHANGED retries /\ slipped' = TRUE
  BY <1>3
<1>6. got'[Gmb] = Named(known, ok) /\ pc'[Gmb] = "dedupe"
  BY <1>1, <1>2, <1>5 DEF SInv, Types
<1>7. \A s \in Stops : Saving(s) => Saving(s)'
  BY <1>1, <1>2, <1>5 DEF SInv, Types, Saving
<1>8. ~slipped' => ~slipped /\ retries' = retries \cup ((known \cup members) \ ok)
  BY <1>5, Zenon DEF Remember
<1>9. Midway'
  <2> SUFFICES ASSUME ~slipped', NEW row \in routeStops, row[1].op = Gmb
               PROVE  Somewhere(row[2])'
    BY <1>1 DEF Midway
  <2>1. Somewhere(row[2]) /\ row[2] \in Stops
    BY <1>8 DEF KInv, Midway, Rows
  <2>2. CASE Fetching(row[2])
    <3>1. row[2] \in known \cup members
      BY <1>1, <1>4, <2>2 DEF Fetching
    <3>2. CASE row[2] \in ok
      <4>1. got'[Gmb][row[2]] # "absent"
        BY <1>6, <2>1, <3>2 DEF NameFor
      <4> QED BY <1>6, <4>1 DEF Somewhere, Fetching
    <3>3. CASE row[2] \notin ok
      BY <1>8, <3>1, <3>3 DEF Somewhere
    <3> QED BY <3>2, <3>3
  <2>3. CASE ~Fetching(row[2])
    BY <1>1, <1>7, <1>8, <2>1, <2>3 DEF Somewhere, Known
  <2> QED BY <2>2, <2>3
<1>10. ClaimKept'
  BY <1>1, <1>7, <1>8 DEF KInv, ClaimKept, SInv, Types, Known
<1>11. BlankIsRetry'
  <2> SUFFICES ASSUME NEW d \in Clients, NEW s \in Stops, got'[d][s] = "blank"
               PROVE  d = Gmb /\ s \in members /\ s \notin cached
    BY <1>1, <1>6 DEF BlankIsRetry
  <2>1. d = Gmb
    <3>1. d # Gmb => got'[d] = got[d]
      BY <1>5 DEF SInv, Types
    <3> QED BY <1>1, <3>1 DEF KInv, BlankIsRetry
  <2>2. s \in ok /\ s \notin known
    BY <1>6, <2>1 DEF NameFor
  <2> QED BY <1>4, <2>1, <2>2
<1> QED BY <1>9, <1>10, <1>11 DEF KInv

LEMMA DedupeHold ==
    ASSUME SInv, Rows, KInv, NEW c \in Clients, Dedupe(c)
    PROVE  KInv'
<1>1. UNCHANGED <<routeStops, names, retries, cached, members, slipped>>
  BY DEF Dedupe, tables
<1>2. /\ pc[c] = "dedupe"
      /\ got' = [got EXCEPT ![c] = [s \in Stops |-> IF s \in seen THEN "absent" ELSE got[c][s]]]
      /\ seen' = seen \cup Known(got[c])
      /\ pc' = [pc EXCEPT ![c] = IF Known(got[c]) \subseteq seen THEN "done" ELSE "save"]
  BY DEF Dedupe, Goto
<1>3. \A s \in Stops : Saving(s) => Saving(s)'
  BY <1>2 DEF SInv, Types, Saving
<1>4. \A s \in Known(got[c]) \ seen : Saving(s)'
  <2> SUFFICES ASSUME NEW s \in Known(got[c]) \ seen PROVE Saving(s)'
    OBVIOUS
  <2>1. pc'[c] = "save" /\ got'[c][s] # "absent"
    BY <1>2 DEF SInv, Types, Known
  <2> QED BY <2>1 DEF Saving
<1>5. ClaimKept'
  BY <1>1, <1>2, <1>3, <1>4 DEF KInv, ClaimKept, SInv, Types, Known
<1>6. Midway'
  <2> SUFFICES ASSUME ~slipped, NEW row \in routeStops, row[1].op = Gmb
               PROVE  Somewhere(row[2])'
    BY <1>1 DEF Midway
  <2>1. Somewhere(row[2]) /\ row[2] \in Stops
    BY DEF KInv, Midway, Rows
  <2>2. CASE Fetching(row[2]) /\ c = Gmb
    <3>1. row[2] \in Known(got[c])
      BY <1>2, <2>1, <2>2 DEF Fetching, Known
    <3>2. row[2] \in seen => row[2] \in Known(names) \/ Saving(row[2])
      BY DEF KInv, ClaimKept
    <3> QED BY <1>1, <1>3, <1>4, <2>1, <3>1, <3>2 DEF Somewhere, Known
  <2>3. CASE Fetching(row[2]) /\ c # Gmb
    <3>1. Fetching(row[2])'
      BY <1>1, <1>2, <2>3, FeedSyncAssumption DEF Fetching, SInv, Types
    <3> QED BY <3>1 DEF Somewhere
  <2>4. CASE ~Fetching(row[2])
    BY <1>1, <1>3, <2>1, <2>4 DEF Somewhere, Known
  <2> QED BY <2>2, <2>3, <2>4
<1>7. BlankIsRetry'
  <2> SUFFICES ASSUME NEW d \in Clients, NEW s \in Stops, got'[d][s] = "blank"
               PROVE  /\ d = Gmb /\ s \in members /\ s \notin cached
                      /\ pc'[Gmb] \in {"dedupe", "save"}
    BY <1>1 DEF BlankIsRetry
  <2>1. got[d][s] = "blank" /\ (d = c => s \notin seen)
    BY <1>2 DEF SInv, Types
  <2>2. /\ d = Gmb /\ s \in members /\ s \notin cached
        /\ pc[Gmb] \in {"dedupe", "save"}
    BY <2>1 DEF KInv, BlankIsRetry
  <2>3. c = Gmb => ~(Known(got[c]) \subseteq seen)
    BY <2>1, <2>2 DEF Known
  <2> QED BY <1>2, <2>2, <2>3 DEF SInv, Types
<1> QED BY <1>5, <1>6, <1>7 DEF KInv

LEMMA SaveHold ==
    ASSUME SInv, Rows, KInv, NEW c \in Clients, Save(c)
    PROVE  KInv'
<1>1. /\ UNCHANGED <<routeStops, retries, seen, cached, members>>
      /\ pc[c] = "save" /\ got' = [got EXCEPT ![c] = Nothing]
      /\ pc' = [pc EXCEPT ![c] = "done"]
  BY DEF Save, GoOn, GiveUp, Goto
<1>2. PICK W \in SUBSET Known(got[c]) :
        /\ names' = [s \in Stops |-> IF s \in W THEN got[c][s] ELSE names[s]]
        /\ slipped' = TRUE \/ (W = Known(got[c]) /\ UNCHANGED slipped)
  BY DEF Save, Overwrite
<1>3. ~slipped' => ~slipped /\ W = Known(got[c])
  BY <1>2, Zenon
<1>4. Known(names) \subseteq Known(names)'
  BY <1>2 DEF SInv, Types, Known
<1>5. ASSUME ~slipped', NEW s \in Stops, Saving(s)
      PROVE  s \in Known(names)' \/ Saving(s)'
  <2>1. PICK d \in Clients : pc[d] = "save" /\ got[d][s] # "absent"
    BY <1>5 DEF Saving
  <2>2. CASE d = c
    BY <1>2, <1>3, <1>5, <2>1, <2>2 DEF Known
  <2>3. CASE d # c
    BY <1>1, <2>1, <2>3 DEF SInv, Types, Saving
  <2> QED BY <2>2, <2>3
<1>6. \A s \in Stops : Fetching(s) => Fetching(s)'
  BY <1>1, FeedSyncAssumption DEF Fetching, SInv, Types
<1>7. Midway'
  <2> SUFFICES ASSUME ~slipped', NEW row \in routeStops, row[1].op = Gmb
               PROVE  Somewhere(row[2])'
    BY <1>1 DEF Midway
  <2>1. Somewhere(row[2]) /\ row[2] \in Stops
    BY <1>3 DEF KInv, Midway, Rows
  <2> QED BY <1>1, <1>4, <1>5, <1>6, <2>1 DEF Somewhere
<1>8. ClaimKept'
  BY <1>1, <1>3, <1>4, <1>5 DEF KInv, ClaimKept, SInv, Types
<1>9. BlankIsRetry'
  <2> SUFFICES ASSUME NEW d \in Clients, NEW s \in Stops, got'[d][s] = "blank"
               PROVE  /\ d = Gmb /\ s \in members /\ s \notin cached
                      /\ pc'[Gmb] \in {"dedupe", "save"}
    BY <1>1 DEF BlankIsRetry
  <2>1. d # c /\ got[d][s] = "blank"
    BY <1>1 DEF SInv, Types, Nothing
  <2> QED BY <1>1, <2>1 DEF KInv, BlankIsRetry, SInv, Types
<1> QED BY <1>7, <1>8, <1>9 DEF KInv

(* Where a process ends, with no stop on its way. *)
LEMMA EndHold ==
    ASSUME SInv, Rows, KInv, Forget, UNCHANGED <<routeStops, names, retries>>,
           ~slipped' => ~slipped /\ \A s \in Stops : ~Fetching(s) /\ ~Saving(s)
    PROVE  KInv'
<1>1. seen' = {} /\ got' = [c \in Clients |-> Nothing]
  BY DEF Forget
<1>2. Midway'
  BY DEF KInv, Midway, Somewhere, Rows, Known
<1> QED BY <1>1, <1>2 DEF KInv, ClaimKept, BlankIsRetry, Nothing

LEMMA RestHold ==
    ASSUME SInv, Rows, KInv, Begin \/ Finish \/ Crash \/ Interrupt \/ RedisRestart
                              \/ UNCHANGED vars
    PROVE  KInv'
<1>0. Gmb \in Clients
  BY FeedSyncAssumption
<1>1. CASE Begin
  <2>1. /\ UNCHANGED <<routeStops, names, retries, got, seen, cached, members, slipped>>
        /\ \A d \in Clients : pc[d] = "off"
    BY <1>1 DEF Begin, tables, goroutines, shared, Running
  <2>2. \A s \in Stops : ~Saving(s) /\ ~Fetching(s)
    BY <1>0, <2>1 DEF Saving, Fetching
  <2>3. Midway'
    BY <2>1, <2>2 DEF KInv, Midway, Somewhere, Rows, Known
  <2>4. ClaimKept'
    BY <2>1, <2>2 DEF KInv, ClaimKept, SInv, Types, Known
  <2>5. \A d \in Clients, s \in Stops : got[d][s] # "blank"
    BY <1>0, <2>1 DEF KInv, BlankIsRetry
  <2> QED BY <2>1, <2>3, <2>4, <2>5 DEF KInv, BlankIsRetry
<1>2. CASE Finish
  <2>1. /\ Forget /\ UNCHANGED <<routeStops, names, retries, slipped>>
        /\ \A d \in Clients : pc[d] = "done"
    BY <1>2 DEF Finish, tables
  <2>2. \A s \in Stops : ~Saving(s) /\ ~Fetching(s)
    BY <1>0, <2>1 DEF Saving, Fetching
  <2> QED BY <2>1, <2>2, EndHold
<1>3. CASE Crash
  <2>1. /\ Forget /\ UNCHANGED <<routeStops, names, retries>>
        /\ slipped' = (slipped \/ InFlight)
    BY <1>3 DEF Crash, tables
  <2>2. ~slipped' => ~slipped /\ ~InFlight
    BY <2>1, Zenon
  <2>3. ~InFlight => \A s \in Stops : ~Saving(s) /\ ~Fetching(s)
    BY DEF InFlight, Saving, Fetching
  <2> QED BY <2>1, <2>2, <2>3, EndHold
<1>4. CASE Interrupt \/ UNCHANGED vars
  <2>1. UNCHANGED <<routeStops, names, retries, pc, got, seen, cached, members, slipped>>
    BY <1>4 DEF Interrupt, vars, tables, goroutines, shared
  <2> QED BY <2>1 DEF KInv, Midway, ClaimKept, BlankIsRetry, Somewhere, Fetching, Saving, Known
<1>5. CASE RedisRestart
  <2>1. /\ UNCHANGED <<pc, got, cached, members>> /\ slipped' = TRUE
    BY <1>5 DEF RedisRestart, goroutines
  <2> QED BY <2>1 DEF KInv, Midway, ClaimKept, BlankIsRetry
<1> QED BY <1>1, <1>2, <1>3, <1>4, <1>5

LEMMA HoldsOn == Spec => []KInv
<1>1. Init => KInv /\ Rows
  <2> SUFFICES ASSUME Init PROVE KInv /\ Rows
    OBVIOUS
  <2>1. Rows
    BY DEF Init, NoIndex, Rows
  <2>2. KInv
    BY DEF Init, KInv, Midway, ClaimKept, BlankIsRetry, Nothing
  <2> QED BY <2>1, <2>2
<1>2. SInv /\ Rows /\ KInv /\ [Next]_vars => Rows' /\ KInv'
  <2> SUFFICES ASSUME SInv, Rows, KInv, [Next]_vars PROVE Rows' /\ KInv'
    OBVIOUS
  <2>1. Rows'
    BY RowsKeep DEF SInv
  <2>2. KInv'
    BY RoutesHold, RouteStopsHold, FetchStopsHold, LoadRetriesHold, FetchGmbHold, DedupeHold,
       SaveHold, RestHold DEF Next, Client
  <2> QED BY <2>1, <2>2
<1> QED BY <1>1, <1>2, Invariants, PTL DEF Spec

(* Between runs every minibus stop that a route serves is stored or will be
   retried, unless a fault hit it on its way: whatever clients failed, and
   also when another operator's goroutine claimed it (GMBClient.FetchAllStops
   and seenStops). *)
THEOREM NoStopForgotten == Spec => []FailedStopsRemembered
<1>1. KInv => FailedStopsRemembered
  <2> SUFFICES ASSUME KInv, ~Running, ~slipped PROVE FailedStopsRemembered
    BY DEF FailedStopsRemembered
  <2>1. \A c \in Clients : pc[c] = "off"
    BY DEF Running
  <2>2. \A s : ~Fetching(s) /\ ~Saving(s)
    BY <2>1, FeedSyncAssumption DEF Fetching, Saving
  <2> QED BY <2>2 DEF KInv, Midway, Somewhere, FailedStopsRemembered
<1> QED BY <1>1, HoldsOn, PTL

LEMMA SaveLoses ==
    ASSUME SInv, KInv, [Next]_vars, NEW s \in Stops, names[s] = "full", names'[s] = "blank"
    PROVE  s \in members /\ s \notin cached
<1>1. ASSUME ~\E c \in Clients : Save(c)
      PROVE  names' = names
  <2>1. ASSUME NEW c \in Clients, Client(c)
        PROVE  names' = names
    BY <1>1, <2>1 DEF Client, Routes, RouteStops, FetchStops, LoadRetries, FetchGmbStops,
       Dedupe, tables
  <2> QED BY <2>1 DEF Next, Begin, Finish, Interrupt, Crash, RedisRestart, vars, tables
<1>2. PICK c \in Clients : Save(c)
  BY <1>1
<1>3. PICK W : names' = [x \in Stops |-> IF x \in W THEN got[c][x] ELSE names[x]]
  BY <1>2 DEF Save, Overwrite
<1>4. got[c][s] = "blank"
  BY <1>3
<1> QED BY <1>4 DEF KInv, BlankIsRetry

(* A stored stop loses its names only as a retry, in a run that met it in no
   route (the empty stopInfo of GMBClient.FetchAllStops). *)
THEOREM NamesSurvive == Spec => NamesLostOnlyOnRetry
<1>1. SInv /\ KInv /\ [Next]_vars =>
        [\A s \in Stops : names[s] = "full" /\ names'[s] = "blank"
            => s \in members /\ s \notin cached]_vars
  BY SaveLoses
<1> QED BY <1>1, Invariants, HoldsOn, PTL DEF Spec, NamesLostOnlyOnRetry
=============================================================================
