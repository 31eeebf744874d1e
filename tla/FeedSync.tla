------------------------------ MODULE FeedSync ------------------------------
(***************************************************************************)
(* internal/sync/sync.go, run by cmd/sync, and the operators' clients of   *)
(* internal/busapi: FullSync starts one goroutine for each client, which   *)
(* fetches and upserts routes, route stops and stops in turn; the stops    *)
(* one goroutine has claimed the others skip.  The minibus client (GMB)    *)
(* has no list of stops: it fetches those it met in its route stops, one   *)
(* by one, and keeps those that failed in a Redis set for the next run.    *)
(*                                                                         *)
(* Runs of the job never overlap (concurrencyPolicy: Forbid).  What the    *)
(* graph build at the end of a run does is module TransitGraph.            *)
(***************************************************************************)
EXTENDS Integers, FiniteSets

CONSTANTS
    Clients,        \* the operators' clients
    Gmb,            \* the one for minibuses
    Stops,          \* the stops the operators publish
    Lines,          \* the route directions they publish
    MaxFaults       \* bound on crashes, interrupts, database and Redis faults

(* code is route code, bound and service type, all that FetchRouteStops is
   told; region is a position in gmbRegions. *)
Line == [op : Clients, code : STRING, region : Nat, stops : SUBSET Stops]

ASSUME FeedSyncAssumption ==
    /\ Gmb \in Clients
    /\ IsFiniteSet(Lines)
    /\ Lines \subseteq Line
    /\ \A q, r \in Lines : q.op = r.op /\ q.code = r.code /\ q.region = r.region => q = r
    /\ \A q, r \in Lines : q.op = r.op /\ q.code = r.code /\ q # r => q.op = Gmb
    /\ MaxFaults \in Nat

VARIABLES
    routes,     \* the table routes
    routeStops, \* the table route_stops: <<line, stop>>
    names,      \* the table bus_stops: absent, or the stop's names are full or blank
    retries,    \* the Redis set gmb:failed_stop_ids
    pc,         \* where the goroutine of each client is
    listed,     \* what its FetchAllRoutes returned
    cached,     \* GMBClient.cachedStopNames
    members,    \* retryIDs of GMBClient.FetchAllStops
    got,        \* the stops it fetched, then those it has to save
    seen,       \* seenStops and allStops
    loaded,     \* allRStops
    firstErr,   \* FullSync has an error to return
    cancelled,  \* the context is cancelled
    index,      \* the in-memory index of the process
    outcome,    \* what FullSync returned in it
    slipped,    \* a fault hit stops between two places that keep them (history)
    faults      \* faults so far

tables == <<routes, routeStops, names>>
goroutines == <<listed, cached, members, got>>
shared == <<seen, loaded, firstErr, cancelled>>
result == <<index, outcome>>
vars == <<tables, retries, pc, goroutines, shared, result, slipped, faults>>

Steps == {"off", "routes", "routeStops", "stops", "fetch", "dedupe", "save", "done"}
Nothing == [s \in Stops |-> "absent"]
NoIndex == [stops |-> {}, routeStops |-> {}]
Known(table) == {s \in Stops : table[s] # "absent"}
Of(c) == {r \in Lines : r.op = c}
StopsOf(L) == UNION {r.stops : r \in L}

Init ==
    /\ routes = {} /\ routeStops = {} /\ names = Nothing
    /\ retries = {}
    /\ pc = [c \in Clients |-> "off"]
    /\ listed = [c \in Clients |-> {}]
    /\ cached = {} /\ members = {}
    /\ got = [c \in Clients |-> Nothing]
    /\ seen = {} /\ loaded = {} /\ firstErr = FALSE /\ cancelled = FALSE
    /\ index = NoIndex /\ outcome = "none"
    /\ slipped = FALSE
    /\ faults = 0

Goto(c, step) == pc' = [pc EXCEPT ![c] = step]
Running == \E c \in Clients : pc[c] # "off"

Fault == faults < MaxFaults /\ faults' = faults + 1
NoFault == faults' = faults
(* A call on the database or on Redis fails: always once cancelled. *)
Succeeds == ~cancelled /\ NoFault
Fails == IF cancelled THEN NoFault ELSE Fault

\* mutant: the goroutine starts over for as long as something fails
GiveUp_Retry(c) == Goto(c, "routes") /\ firstErr' = TRUE

(* The goroutine gives up; FullSync will return the first error. *)
GiveUp(c) == Goto(c, "done") /\ firstErr' = TRUE
GoOn(c, step) == Goto(c, step) /\ UNCHANGED firstErr

-----------------------------------------------------------------------------
(* cmd/sync starts a run, of all operators or of those its flag names. *)
Begin ==
    /\ ~Running
    /\ \E C \in SUBSET Clients \ {{}} :
          pc' = [c \in Clients |-> IF c \in C THEN "routes" ELSE "done"]
    /\ index' = NoIndex /\ outcome' = "none"
    /\ UNCHANGED <<tables, retries, goroutines, shared, slipped, faults>>

\* mutant: an error of upsertRoutes is logged and the goroutine goes on
Routes_GoOn(c) ==
    /\ pc[c] = "routes"
    /\ \/ c # Gmb /\ GiveUp(c) /\ NoFault /\ UNCHANGED <<listed, routes>>
       \/ \E L \in IF c = Gmb THEN SUBSET Of(c) ELSE {Of(c)} :
             /\ listed' = [listed EXCEPT ![c] = L]
             /\ \/ Succeeds /\ routes' = routes \cup L
                \/ Fails /\ \E W \in SUBSET L : routes' = routes \cup W
             /\ GoOn(c, "routeStops")
    /\ UNCHANGED <<routeStops, names, retries, cached, members, got, seen, loaded,
                   cancelled, result, slipped>>

(* FetchAllRoutes and upsertRoutes.  A region or a route that GMB cannot
   fetch is left out; the upsert of nothing needs no database. *)
Routes(c) ==
    /\ pc[c] = "routes"
    /\ \/ c # Gmb /\ GiveUp(c) /\ NoFault /\ UNCHANGED <<listed, routes>>
       \/ \E L \in IF c = Gmb THEN SUBSET Of(c) ELSE {Of(c)} :
             /\ listed' = [listed EXCEPT ![c] = L]
             /\ \/ /\ Succeeds \/ (L = {} /\ NoFault)
                   /\ routes' = routes \cup L
                   /\ GoOn(c, "routeStops")
                \/ /\ L # {} /\ Fails
                   /\ \E W \in SUBSET L : routes' = routes \cup W
                   /\ GiveUp(c)
    /\ UNCHANGED <<routeStops, names, retries, cached, members, got, seen, loaded,
                   cancelled, result, slipped>>

(* The line FetchRouteStops takes a code for: the first region that has it. *)
Resolved(r) ==
    CHOOSE q \in listed[r.op] :
        /\ q.code = r.code
        /\ \A p \in listed[r.op] : p.code = r.code => q.region <= p.region

RowsOf(r) == {Resolved(r)} \X Resolved(r).stops

(* FetchRouteStops of each route, a failure of which leaves the route out,
   and upsertRouteStops. *)
RouteStops(c) ==
    /\ pc[c] = "routeStops"
    /\ \E ok \in SUBSET listed[c] :
          LET rows == UNION {RowsOf(r) : r \in ok}
          IN  /\ cached' = IF c = Gmb THEN cached \cup {row[2] : row \in rows} ELSE cached
              /\ \/ /\ Succeeds \/ (rows = {} /\ NoFault)
                    /\ routeStops' = routeStops \cup rows
                    /\ loaded' = loaded \cup rows
                    /\ GoOn(c, "stops")
                    /\ UNCHANGED slipped
                 \/ /\ rows # {} /\ Fails
                    /\ \E W \in SUBSET rows : routeStops' = routeStops \cup W
                    /\ GiveUp(c)
                    /\ slipped' = (slipped \/ c = Gmb)
                    /\ UNCHANGED loaded
    /\ UNCHANGED <<routes, names, retries, listed, members, got, seen, cancelled, result>>

(* FetchAllStops of the other operators: their list, or what the fetches of
   single stops yield. *)
FetchStops(c) ==
    /\ c # Gmb
    /\ pc[c] = "stops"
    /\ \/ GiveUp(c) /\ UNCHANGED got
       \/ \E S \in SUBSET StopsOf(Of(c)) :
             /\ got' = [got EXCEPT ![c] = [s \in Stops |-> IF s \in S THEN "full" ELSE "absent"]]
             /\ GoOn(c, "dedupe")
    /\ UNCHANGED <<tables, retries, listed, cached, members, seen, loaded, cancelled, result,
                   slipped, faults>>

(* GMBClient.FetchAllStops begins: SMEMBERS, whose error means no retries,
   and DEL, whose error is ignored. *)
LoadRetries ==
    /\ pc[Gmb] = "stops"
    /\ \/ Succeeds /\ members' = retries /\ retries' = {}
       \/ Fails /\ members' \in {{}, retries} /\ retries' \in {{}, retries}
    /\ slipped' = (slipped \/ ~(retries \subseteq members' \cup retries'))
    /\ Goto(Gmb, "fetch")
    /\ UNCHANGED <<tables, listed, cached, got, shared, result>>

\* mutant: the set is written only when every stop has failed
Remember_AllOnly(want, ok) ==
    IF ok = {} THEN retries' = retries \cup want ELSE UNCHANGED retries

(* SADD of the stops whose coordinates could not be had. *)
Remember(want, ok) == retries' = retries \cup (want \ ok)

\* mutant: an id from the Redis set replaces what is known of the stop
NameFor_RetryFirst(s, known) ==
    IF s \in members THEN "blank" ELSE IF s \in known THEN "full" ELSE "blank"

(* An id that is only in the Redis set has no name. *)
NameFor(s, known) == IF s \in known THEN "full" ELSE "blank"

(* GMBClient.FetchAllStops goes on: the stops of cachedStopNames, or if
   there are none those of all routes it can fetch now, and the retries. *)
FetchGmbStops ==
    /\ pc[Gmb] = "fetch"
    /\ \E known \in IF cached # {} THEN {cached} ELSE {StopsOf(X) : X \in SUBSET Of(Gmb)} :
       LET want == known \cup members
       IN  \E ok \in SUBSET want :
              /\ got' = [got EXCEPT ![Gmb] = [s \in Stops |->
                            IF s \in ok THEN NameFor(s, known) ELSE "absent"]]
              /\ \/ /\ Succeeds \/ (want = ok /\ NoFault)
                    /\ Remember(want, ok)
                    /\ UNCHANGED slipped
                 \/ /\ want # ok /\ Fails
                    /\ UNCHANGED retries
                    /\ slipped' = TRUE
    /\ Goto(Gmb, "dedupe")
    /\ UNCHANGED <<tables, listed, cached, members, shared, result>>

(* Under the mutex: stops that another goroutine claimed are skipped. *)
Dedupe(c) ==
    /\ pc[c] = "dedupe"
    /\ got' = [got EXCEPT ![c] = [s \in Stops |-> IF s \in seen THEN "absent" ELSE @[s]]]
    /\ seen' = seen \cup Known(got[c])
    /\ Goto(c, IF Known(got[c]) \subseteq seen THEN "done" ELSE "save")
    /\ UNCHANGED <<tables, retries, listed, cached, members, loaded, firstErr, cancelled,
                   result, slipped, faults>>

(* ON CONFLICT DO UPDATE: the stops of W get the names that were fetched. *)
Overwrite(c, W) == names' = [s \in Stops |-> IF s \in W THEN got[c][s] ELSE names[s]]

\* mutant: an error of upsertStops is only logged
Save_LogOnly(c) ==
    /\ pc[c] = "save"
    /\ \/ Succeeds /\ Overwrite(c, Known(got[c])) /\ UNCHANGED slipped
       \/ /\ Fails
          /\ \E W \in SUBSET Known(got[c]) : Overwrite(c, W)
          /\ slipped' = TRUE
    /\ GoOn(c, "done")
    /\ got' = [got EXCEPT ![c] = Nothing]
    /\ UNCHANGED <<routes, routeStops, retries, listed, cached, members, seen, loaded,
                   cancelled, result>>

(* upsertStops *)
Save(c) ==
    /\ pc[c] = "save"
    /\ \/ /\ Succeeds
          /\ Overwrite(c, Known(got[c]))
          /\ GoOn(c, "done")
          /\ UNCHANGED slipped
       \/ /\ Fails
          /\ \E W \in SUBSET Known(got[c]) : Overwrite(c, W)
          /\ GiveUp(c)
          /\ slipped' = TRUE
    /\ got' = [got EXCEPT ![c] = Nothing]
    /\ UNCHANGED <<routes, routeStops, retries, listed, cached, members, seen, loaded,
                   cancelled, result>>

(* The process ends; its memory goes with it. *)
Forget ==
    /\ pc' = [c \in Clients |-> "off"]
    /\ listed' = [c \in Clients |-> {}]
    /\ cached' = {} /\ members' = {}
    /\ got' = [c \in Clients |-> Nothing]
    /\ seen' = {} /\ loaded' = {} /\ firstErr' = FALSE /\ cancelled' = FALSE

(* wg.Wait, Reload, BuildTransitGraph, return firstErr. *)
Finish ==
    /\ \A c \in Clients : pc[c] = "done"
    /\ index' = [stops |-> seen, routeStops |-> loaded]
    /\ outcome' = IF firstErr THEN "err" ELSE "ok"
    /\ Forget
    /\ UNCHANGED <<tables, retries, slipped, faults>>

(* SIGTERM cancels the context; the goroutines run on. *)
Interrupt ==
    /\ Running /\ ~cancelled
    /\ Fault
    /\ cancelled' = TRUE
    /\ UNCHANGED <<tables, retries, pc, goroutines, seen, loaded, firstErr, result,
                   slipped>>

InFlight == pc[Gmb] \in {"stops", "fetch", "dedupe"} \/ \E c \in Clients : pc[c] = "save"

(* The process is killed, by the job's deadline for one. *)
Crash ==
    /\ Running
    /\ Fault
    /\ slipped' = (slipped \/ InFlight)
    /\ Forget
    /\ UNCHANGED <<tables, retries, result>>

(* Redis keeps nothing over a restart, and evicts keys when it is full. *)
RedisRestart ==
    /\ retries # {}
    /\ Fault
    /\ retries' = {}
    /\ slipped' = TRUE
    /\ UNCHANGED <<tables, pc, goroutines, shared, result>>

Client(c) ==
    \/ Routes(c) \/ RouteStops(c) \/ FetchStops(c)
    \/ c = Gmb /\ (LoadRetries \/ FetchGmbStops)
    \/ Dedupe(c) \/ Save(c)

Next == Begin \/ (\E c \in Clients : Client(c)) \/ Finish \/ Interrupt \/ Crash \/ RedisRestart

Spec == Init /\ [][Next]_vars

(* The goroutines run on: every HTTP call has a timeout of ten seconds, and
   every retry of GMB is bounded. *)
FairSpec == Spec /\ (\A c \in Clients : WF_vars(Client(c))) /\ WF_vars(Finish)

-----------------------------------------------------------------------------
(* Type invariant. *)
TypeOK ==
    /\ routes \subseteq Lines
    /\ routeStops \subseteq Lines \X Stops
    /\ names \in [Stops -> {"absent", "blank", "full"}]
    /\ retries \subseteq Stops
    /\ pc \in [Clients -> Steps]
    /\ \A c \in Clients : listed[c] \subseteq Of(c)
    /\ cached \subseteq Stops /\ members \subseteq Stops
    /\ got \in [Clients -> [Stops -> {"absent", "blank", "full"}]]
    /\ seen \subseteq Stops /\ loaded \subseteq Lines \X Stops
    /\ firstErr \in BOOLEAN /\ cancelled \in BOOLEAN
    /\ index.stops \subseteq Stops /\ index.routeStops \subseteq Lines \X Stops
    /\ outcome \in {"none", "ok", "err"}
    /\ slipped \in BOOLEAN
    /\ faults \in 0..MaxFaults

(* route_stops never speaks of a route that routes does not have, whatever
   batch failed and wherever a run was killed (FullSync writes routes
   first, and a client whose upsert failed goes no further). *)
RouteStopsHaveRoutes == \A row \in routeStops : row[1] \in routes

(* When FullSync returns nil, all that it loaded into the index is in the
   database, also the stops one client fetched and another claimed. *)
SuccessIsComplete ==
    outcome = "ok" => /\ index.stops \subseteq Known(names)
                      /\ index.routeStops \subseteq routeStops

(* Between runs, a minibus stop that a route serves is in bus_stops or in
   the set of those to retry, unless a fault hit it on the way between the
   two (GMBClient.FetchAllStops). *)
FailedStopsRemembered ==
    ~Running /\ ~slipped =>
        \A row \in routeStops : row[1].op = Gmb => row[2] \in Known(names) \cup retries

(* A stop in bus_stops loses its names only as a retry in a run that met
   the stop in no route (the empty stopInfo of FetchAllStops). *)
NamesLostOnlyOnRetry ==
    [][\A s \in Stops : names[s] = "full" /\ names'[s] = "blank"
            => s \in members /\ s \notin cached]_vars

(* Every run of FullSync comes to an end. *)
RunsEnd == Running ~> ~Running
=============================================================================
