---------------------------- MODULE TransitGraph ----------------------------
(***************************************************************************)
(* internal/geo/index.go: BuildTransitGraph rebuilds transit_node_map and  *)
(* transit_edges in four statements, each its own transaction, while       *)
(* FindTransferRoutes of other processes reads them in three.  Builds are  *)
(* run by cmd/sync, after its upserts into bus_stops and route_stops, and  *)
(* by every server that starts; nothing keeps two of them apart.           *)
(***************************************************************************)
EXTENDS Integers, FiniteSets, Functions

CONSTANTS
    Stops,          \* the stops the operators publish
    RouteFeed,      \* rows [route, stop, seq] the operators publish
    Near,           \* pairs {a, b} within DefaultWalkRadiusM
    Syncs,          \* runs of cmd/sync that can be active at a time
    Servers,        \* servers, each of which builds when it starts
    MaxFaults       \* bound on failed statements and crashes of builds

Builders == Syncs \cup Servers
WalkRouteID == "WALK"

ASSUME TransitGraphAssumption ==
    /\ IsFiniteSet(Stops)
    /\ \A x \in RouteFeed : /\ DOMAIN x = {"route", "stop", "seq"}
                            /\ x.stop \in Stops /\ x.seq \in Nat
                            /\ x.route # WalkRouteID
    /\ \A x, y \in RouteFeed : x.route = y.route /\ x.seq = y.seq => x = y
    /\ Near \subseteq SUBSET Stops
    /\ Syncs \cap Servers = {}
    /\ MaxFaults \in Nat

VARIABLES
    stops,      \* bus_stops
    routeStops, \* route_stops
    nodes,      \* transit_node_map, as a function from stops to node ids
    edges,      \* transit_edges: <<source, target, route>>
    pc,         \* what each builder does next
    query,      \* the FindTransferRoutes call of some server
    overtaken,  \* a TRUNCATE ran during the query (history)
    dirty,      \* a build failed, and none that ran alone began since (history)
    faults      \* faults so far

tables == <<stops, routeStops>>
graph == <<nodes, edges>>
reader == <<query, overtaken>>
vars == <<tables, graph, pc, reader, dirty, faults>>

BuilderSteps == {"idle", "upsert", "truncate", "nodes", "routes", "walks"}
Building == {"nodes", "routes", "walks"}
NoAnswer == <<"no", "answer">>
NoQuery == [step |-> "idle", from |-> 0, to |-> 0, asked |-> NoAnswer,
            answer |-> NoAnswer]

Init ==
    /\ stops = {} /\ routeStops = {}
    /\ nodes = << >> /\ edges = {}
    /\ pc = [b \in Builders |-> "idle"]
    /\ query = NoQuery
    /\ overtaken = FALSE
    /\ dirty = FALSE
    /\ faults = 0

Goto(b, step) == pc' = [pc EXCEPT ![b] = step]

-----------------------------------------------------------------------------
(* FullSync: the upserts of the clients, in whatever order they come, of
   whatever they managed to fetch and write. *)
StartSync(b) ==
    /\ b \in Syncs
    /\ pc[b] = "idle"
    /\ Goto(b, "upsert")
    /\ UNCHANGED <<tables, graph, reader, dirty, faults>>

Upsert(b) ==
    /\ pc[b] = "upsert"
    /\ \/ /\ \E S \in SUBSET Stops : stops' = stops \cup S
          /\ UNCHANGED routeStops
       \/ /\ \E R \in SUBSET RouteFeed : routeStops' = routeStops \cup R
          /\ UNCHANGED stops
    /\ \E step \in {"upsert", "truncate"} : Goto(b, step)
    /\ UNCHANGED <<graph, reader, dirty, faults>>

(* cmd/server: LoadFromDB finds stops, or the graph is left alone. *)
StartServer(b) ==
    /\ b \in Servers
    /\ pc[b] = "idle"
    /\ stops # {}
    /\ Goto(b, "truncate")
    /\ UNCHANGED <<tables, graph, reader, dirty, faults>>

-----------------------------------------------------------------------------
(* BuildTransitGraph *)

\* mutant: only the node map is truncated
Truncate_NodesOnly(b) ==
    /\ pc[b] = "truncate"
    /\ nodes' = << >>
    /\ Goto(b, "nodes")
    /\ dirty' = (dirty /\ \E c \in Builders : pc[c] \in Building)
    /\ overtaken' = TRUE
    /\ UNCHANGED <<tables, edges, query, faults>>

(* TRUNCATE of both tables at once, RESTART IDENTITY. *)
Truncate(b) ==
    /\ pc[b] = "truncate"
    /\ nodes' = << >>
    /\ edges' = {}
    /\ Goto(b, "nodes")
    /\ dirty' = (dirty /\ \E c \in Builders : pc[c] \in Building)
    /\ overtaken' = TRUE
    /\ UNCHANGED <<tables, query, faults>>

(* SELECT DISTINCT comes in no particular order: node ids are any numbering. *)
Numberings == Bijection(stops, 1..Cardinality(stops))

(* INSERT of all stops; if another build has filled the map, the UNIQUE
   stop_id makes the statement, and with it this build, fail. *)
PopulateNodes(b) ==
    /\ pc[b] = "nodes"
    /\ IF DOMAIN nodes = {}
       THEN nodes' \in Numberings /\ Goto(b, "routes")
       ELSE UNCHANGED nodes /\ Goto(b, "idle")
    /\ UNCHANGED <<tables, edges, reader, dirty, faults>>

(* LEAD(stop_id) OVER (PARTITION BY route_id ORDER BY stop_seq). *)
Consecutive == {xy \in routeStops \X routeStops :
                  LET x == xy[1] y == xy[2]
                  IN  /\ x.route = y.route /\ x.seq < y.seq
                      /\ ~\E z \in routeStops : /\ z.route = x.route
                                                /\ x.seq < z.seq /\ z.seq < y.seq}
Mapped(s) == s \in DOMAIN nodes

RouteEdges == {<<nodes[xy[1].stop], nodes[xy[2].stop], xy[1].route>> :
                 xy \in {z \in Consecutive : Mapped(z[1].stop) /\ Mapped(z[2].stop)}}
\* mutant: s1.stop_id < s2.stop_id, and only one direction is inserted
WalkEdges_OneWay == {<<nodes[ab[1]], nodes[ab[2]], WalkRouteID>> :
                       ab \in {z \in (stops \cap DOMAIN nodes) \X (stops \cap DOMAIN nodes) :
                                 {z[1], z[2]} \in Near /\ nodes[z[1]] < nodes[z[2]]}}

WalkEdges == {<<nodes[ab[1]], nodes[ab[2]], WalkRouteID>> :
                ab \in {z \in (stops \cap DOMAIN nodes) \X (stops \cap DOMAIN nodes) :
                          z[1] # z[2] /\ {z[1], z[2]} \in Near}}

PopulateRoutes(b) ==
    /\ pc[b] = "routes"
    /\ edges' = edges \cup RouteEdges
    /\ Goto(b, "walks")
    /\ UNCHANGED <<tables, nodes, reader, dirty, faults>>

PopulateWalks(b) ==
    /\ pc[b] = "walks"
    /\ edges' = edges \cup WalkEdges
    /\ Goto(b, "idle")
    /\ UNCHANGED <<tables, nodes, reader, dirty, faults>>

(* A statement fails or the process dies: the build ends where it is, and
   FullSync and the server only log it. *)
Fail(b) ==
    /\ pc[b] # "idle"
    /\ faults < MaxFaults
    /\ faults' = faults + 1
    /\ dirty' = TRUE
    /\ Goto(b, "idle")
    /\ UNCHANGED <<tables, graph, reader>>

-----------------------------------------------------------------------------
(* FindTransferRoutes, from one stop to another: getNodeIDs of each, then
   pgr_dijkstra between the ids. *)
Ask ==
    /\ query.step = "idle"
    /\ \E o, d \in Stops :
          /\ o # d
          /\ query' = [NoQuery EXCEPT !.step = "from", !.asked = <<o, d>>]
    /\ overtaken' = FALSE
    /\ UNCHANGED <<tables, graph, pc, dirty, faults>>

ReadFrom ==
    /\ query.step = "from"
    /\ query' = IF Mapped(query.asked[1])
                THEN [query EXCEPT !.step = "to", !.from = nodes[query.asked[1]]]
                ELSE NoQuery
    /\ UNCHANGED <<tables, graph, pc, overtaken, dirty, faults>>

ReadTo ==
    /\ query.step = "to"
    /\ query' = IF Mapped(query.asked[2])
                THEN [query EXCEPT !.step = "path", !.to = nodes[query.asked[2]]]
                ELSE NoQuery
    /\ UNCHANGED <<tables, graph, pc, overtaken, dirty, faults>>

Reachable(m, n) ==
    \A S \in SUBSET {nodes[s] : s \in DOMAIN nodes} :
        m \in S /\ (\A e \in edges : e[1] \in S => e[2] \in S) => n \in S

\* mutant: pgr_dijkstra gets the two arrays in the wrong order
FindPath_Swapped ==
    /\ query.step = "path"
    /\ \E a, b \in DOMAIN nodes :
          /\ nodes[a] = query.to /\ nodes[b] = query.from /\ a # b
          /\ Reachable(query.to, query.from)
          /\ query' = [query EXCEPT !.step = "idle", !.answer = <<a, b>>]
    /\ UNCHANGED <<tables, graph, pc, overtaken, dirty, faults>>

(* The path's first and last stop are read from the node map of now. *)
FindPath ==
    /\ query.step = "path"
    /\ \E a, b \in DOMAIN nodes :
          /\ nodes[a] = query.from /\ nodes[b] = query.to /\ a # b
          /\ Reachable(query.from, query.to)
          /\ query' = [query EXCEPT !.step = "idle", !.answer = <<a, b>>]
    /\ UNCHANGED <<tables, graph, pc, overtaken, dirty, faults>>

FindNothing ==
    /\ query.step = "path"
    /\ query' = NoQuery
    /\ UNCHANGED <<tables, graph, pc, overtaken, dirty, faults>>

-----------------------------------------------------------------------------
Build(b) ==
    \/ StartSync(b) \/ Upsert(b) \/ StartServer(b)
    \/ Truncate(b) \/ PopulateNodes(b) \/ PopulateRoutes(b) \/ PopulateWalks(b)
    \/ Fail(b)
Query == Ask \/ ReadFrom \/ ReadTo \/ FindPath \/ FindNothing

Next == (\E b \in Builders : Build(b)) \/ Query

Spec == Init /\ [][Next]_vars

-----------------------------------------------------------------------------
(* Type invariant. *)
TypeOK ==
    /\ stops \subseteq Stops
    /\ routeStops \subseteq RouteFeed
    /\ DOMAIN nodes \subseteq stops
    /\ IsInjective(nodes)
    /\ \A s \in DOMAIN nodes : nodes[s] \in 1..Cardinality(Stops)
    /\ pc \in [Builders -> BuilderSteps]
    /\ query \in [step : {"idle", "from", "to", "path"}, from : Nat, to : Nat,
                  asked : (Stops \X Stops) \cup {NoAnswer},
                  answer : (Stops \X Stops) \cup {NoAnswer}]
    /\ overtaken \in BOOLEAN /\ dirty \in BOOLEAN
    /\ faults \in 0..MaxFaults

(* What a correct graph of the current tables says of two stops. *)
Rides(a, b, r) == \E xy \in Consecutive : /\ xy[1].stop = a /\ xy[2].stop = b
                                          /\ xy[1].route = r
Walks(a, b) == a # b /\ {a, b} \in Near

(* What an edge may say of two stops: the operators' feed takes r from a to
   b in that order, perhaps past stops no longer or not yet stored. *)
Leads(r, a, b) ==
    IF r = WalkRouteID THEN Walks(a, b)
    ELSE \E x, y \in RouteFeed : /\ x.route = r /\ y.route = r
                                 /\ x.stop = a /\ y.stop = b /\ x.seq < y.seq

(* However builds interleave, an edge joins the node ids of two mapped
   stops: no edge dangles or survives a renumbering, so a path never leads
   through a stop that its route does not serve (BuildTransitGraph). *)
EdgesMatchNodes ==
    \A e \in edges : \E a, b \in DOMAIN nodes :
        e[1] = nodes[a] /\ e[2] = nodes[b] /\ Leads(e[3], a, b)

(* When every sync and server start is over, the graph has every stop and
   every edge of the tables, unless a build failed and no later one has
   begun on its own: overlapping builds never leave it half-built. *)
CompleteWhenQuiet ==
    (\A b \in Builders : pc[b] = "idle") /\ ~dirty =>
        /\ DOMAIN nodes = stops
        /\ \A a, b \in stops :
              /\ Walks(a, b) => <<nodes[a], nodes[b], WalkRouteID>> \in edges
              /\ \A x \in routeStops : Rides(a, b, x.route) =>
                    <<nodes[a], nodes[b], x.route>> \in edges

(* A path starts and ends at the stops asked for, unless the graph was
   rebuilt during the call (FindTransferRoutes). *)
AnswersUnlessRebuilt ==
    query.answer # NoAnswer /\ ~overtaken => query.answer = query.asked
=============================================================================
