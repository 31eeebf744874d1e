------------------------- MODULE TransitGraph_proofs -------------------------
(***************************************************************************)
(* Whatever the number of builds and however they overlap, the edges of    *)
(* the transit graph speak of the node ids of now, a query that no         *)
(* TRUNCATE overtook answers about the stops it was asked for, and a graph *)
(* left alone after a build of the current feed is complete.               *)
(***************************************************************************)
EXTENDS TransitGraph, FiniteSetTheorems, TLAPS

NodesOK == /\ nodes \in [DOMAIN nodes -> Nat]
           /\ IsInjective(nodes)
           /\ DOMAIN nodes \subseteq Stops
Data == stops \subseteq Stops /\ routeStops \subseteq RouteFeed

(* A query that nothing overtook holds current node ids. *)
QueryType == [step : {"idle", "from", "to", "path"}, from : Nat, to : Nat,
              asked : (Stops \X Stops) \cup {NoAnswer},
              answer : (Stops \X Stops) \cup {NoAnswer}]
Fresh == /\ query.step \in {"to", "path"} /\ ~overtaken =>
              Mapped(query.asked[1]) /\ query.from = nodes[query.asked[1]]
         /\ query.step = "path" /\ ~overtaken =>
              Mapped(query.asked[2]) /\ query.to = nodes[query.asked[2]]
         /\ query.step # "idle" => query.asked \in Stops \X Stops
QueryInv == query \in QueryType /\ Fresh /\ AnswersUnlessRebuilt

GInv == Data /\ NodesOK /\ EdgesMatchNodes

(* The edges a build adds. *)
LEMMA RouteEdgesMatch ==
    ASSUME GInv, NEW e \in RouteEdges
    PROVE  \E a, b \in DOMAIN nodes :
              e[1] = nodes[a] /\ e[2] = nodes[b] /\ Leads(e[3], a, b)
<1>1. PICK xy \in Consecutive :
        /\ Mapped(xy[1].stop) /\ Mapped(xy[2].stop)
        /\ e = <<nodes[xy[1].stop], nodes[xy[2].stop], xy[1].route>>
  BY DEF RouteEdges
<1>2. /\ xy[1] \in RouteFeed /\ xy[2] \in RouteFeed
      /\ xy[1].route = xy[2].route /\ xy[1].seq < xy[2].seq
  BY DEF Consecutive, GInv, Data
<1>3. xy[1].route # WalkRouteID
  BY <1>2, TransitGraphAssumption
<1>4. Leads(xy[1].route, xy[1].stop, xy[2].stop)
  BY <1>2, <1>3 DEF Leads
<1> QED BY <1>1, <1>4 DEF Mapped

LEMMA WalkEdgesMatch ==
    ASSUME GInv, NEW e \in WalkEdges
    PROVE  \E a, b \in DOMAIN nodes :
              e[1] = nodes[a] /\ e[2] = nodes[b] /\ Leads(e[3], a, b)
<1>1. PICK ab \in (stops \cap DOMAIN nodes) \X (stops \cap DOMAIN nodes) :
        /\ ab[1] # ab[2] /\ {ab[1], ab[2]} \in Near
        /\ e = <<nodes[ab[1]], nodes[ab[2]], WalkRouteID>>
  BY DEF WalkEdges
<1>2. Leads(WalkRouteID, ab[1], ab[2])
  BY <1>1 DEF Leads, Walks
<1>3. ab[1] \in DOMAIN nodes /\ ab[2] \in DOMAIN nodes
  OBVIOUS
<1> QED BY <1>1, <1>2, <1>3

(* Edges that match keep matching while the node map stays. *)
LEMMA MatchingEdges ==
    ASSUME NodesOK, nodes' = nodes,
           \A e \in edges' : \E a, b \in DOMAIN nodes :
              e[1] = nodes[a] /\ e[2] = nodes[b] /\ Leads(e[3], a, b)
    PROVE  NodesOK' /\ EdgesMatchNodes'
<1>1. DOMAIN nodes' = DOMAIN nodes
  OBVIOUS
<1>2. NodesOK'
  BY <1>1 DEF NodesOK, IsInjective
<1>3. EdgesMatchNodes'
  BY <1>1 DEF EdgesMatchNodes
<1> QED BY <1>2, <1>3

LEMMA BuildKeepsGraph ==
    ASSUME GInv, NEW b \in Builders, Build(b)
    PROVE  GInv'
<1>1. CASE StartSync(b) \/ StartServer(b) \/ Fail(b)
  <2>1. stops' = stops /\ routeStops' = routeStops /\ nodes' = nodes /\ edges' = edges
    BY <1>1 DEF StartSync, StartServer, Fail, tables, graph
  <2> QED BY <2>1, MatchingEdges DEF GInv, Data, EdgesMatchNodes
<1>2. CASE Upsert(b)
  <2>1. nodes' = nodes /\ edges' = edges /\ stops' \subseteq Stops /\ routeStops' \subseteq RouteFeed
    BY <1>2 DEF Upsert, graph, GInv, Data
  <2> QED BY <2>1, MatchingEdges DEF GInv, Data, EdgesMatchNodes
<1>3. CASE Truncate(b)
  <2>1. nodes' = << >> /\ edges' = {} /\ stops' = stops /\ routeStops' = routeStops
    BY <1>3 DEF Truncate, tables
  <2>2. DOMAIN nodes' = {}
    BY <2>1
  <2>3. nodes' \in [DOMAIN nodes' -> Nat] /\ IsInjective(nodes')
    BY <2>1, <2>2 DEF IsInjective
  <2> QED BY <2>1, <2>2, <2>3 DEF GInv, Data, NodesOK, EdgesMatchNodes
<1>4. CASE PopulateNodes(b)
  <2>1. edges' = edges /\ stops' = stops /\ routeStops' = routeStops
    BY <1>4 DEF PopulateNodes, tables
  <2>2. CASE nodes' = nodes
    BY <2>1, <2>2, MatchingEdges DEF GInv, Data, EdgesMatchNodes
  <2>3. CASE nodes' # nodes
    <3>1. DOMAIN nodes = {} /\ nodes' \in Numberings
      BY <1>4, <2>3 DEF PopulateNodes
    <3>2. edges = {}
      BY <3>1 DEF GInv, EdgesMatchNodes
    <3>3. nodes' \in [stops -> 1..Cardinality(stops)] /\ IsInjective(nodes')
      BY <3>1 DEF Numberings, Bijection, Injection
    <3>4. DOMAIN nodes' = stops /\ nodes' \in [DOMAIN nodes' -> Nat]
      BY <3>3
    <3> QED BY <2>1, <3>2, <3>3, <3>4 DEF GInv, Data, NodesOK, EdgesMatchNodes
  <2> QED BY <2>2, <2>3
<1>5. CASE PopulateRoutes(b)
  <2>1. edges' = edges \cup RouteEdges /\ nodes' = nodes /\ stops' = stops /\ routeStops' = routeStops
    BY <1>5 DEF PopulateRoutes, tables
  <2>2. \A e \in edges' : \E m, n \in DOMAIN nodes :
            e[1] = nodes[m] /\ e[2] = nodes[n] /\ Leads(e[3], m, n)
    BY <2>1, RouteEdgesMatch DEF GInv, EdgesMatchNodes
  <2> QED BY <2>1, <2>2, MatchingEdges DEF GInv, Data
<1>6. CASE PopulateWalks(b)
  <2>1. edges' = edges \cup WalkEdges /\ nodes' = nodes /\ stops' = stops /\ routeStops' = routeStops
    BY <1>6 DEF PopulateWalks, tables
  <2>2. \A e \in edges' : \E m, n \in DOMAIN nodes :
            e[1] = nodes[m] /\ e[2] = nodes[n] /\ Leads(e[3], m, n)
    BY <2>1, WalkEdgesMatch DEF GInv, EdgesMatchNodes
  <2> QED BY <2>1, <2>2, MatchingEdges DEF GInv, Data
<1> QED BY <1>1, <1>2, <1>3, <1>4, <1>5, <1>6 DEF Build

LEMMA QueryKeepsGraph ==
    ASSUME GInv, Query \/ UNCHANGED vars
    PROVE  GInv'
<1>1. stops' = stops /\ routeStops' = routeStops /\ nodes' = nodes /\ edges' = edges
  BY DEF Query, Ask, ReadFrom, ReadTo, FindPath, FindNothing, tables, graph, vars
<1> QED BY <1>1, MatchingEdges DEF GInv, Data, EdgesMatchNodes

(* A build leaves a query alone, and the node ids too unless it truncates. *)
LEMMA BuildKeepsQuery ==
    ASSUME GInv, QueryInv, NEW b \in Builders, Build(b)
    PROVE  QueryInv'
<1>1. query' = query
  BY DEF Build, StartSync, Upsert, StartServer, Truncate, PopulateNodes, PopulateRoutes,
         PopulateWalks, Fail, reader
<1>2. CASE Truncate(b)
  <2>1. overtaken' = TRUE
    BY <1>2 DEF Truncate
  <2> QED BY <1>1, <2>1 DEF QueryInv, QueryType, Fresh, AnswersUnlessRebuilt
<1>3. CASE ~Truncate(b)
  <2>1. overtaken' = overtaken
    BY <1>3 DEF Build, StartSync, Upsert, StartServer, PopulateNodes, PopulateRoutes,
           PopulateWalks, Fail, reader
  <2>2. nodes' = nodes \/ DOMAIN nodes = {}
    BY <1>3 DEF Build, StartSync, Upsert, StartServer, PopulateNodes, PopulateRoutes,
           PopulateWalks, Fail, graph
  <2>3. Fresh'
    BY <1>1, <2>1, <2>2 DEF QueryInv, Fresh, Mapped
  <2> QED BY <1>1, <2>1, <2>3 DEF QueryInv, QueryType, AnswersUnlessRebuilt
<1> QED BY <1>2, <1>3

LEMMA QueryKeepsQuery ==
    ASSUME GInv, QueryInv, Query
    PROVE  QueryInv'
<1>1. nodes' = nodes
  BY DEF Query, Ask, ReadFrom, ReadTo, FindPath, FindNothing, graph
<1>2. CASE Ask
  <2>1. PICK o, d \in Stops :
          query' = [NoQuery EXCEPT !.step = "from", !.asked = <<o, d>>]
    BY <1>2 DEF Ask
  <2>2. /\ query'.step = "from" /\ query'.asked = <<o, d>> /\ query'.answer = NoAnswer
        /\ query' \in QueryType
    BY <2>1 DEF NoQuery, QueryType
  <2> QED BY <2>2 DEF QueryInv, Fresh, AnswersUnlessRebuilt
<1>3. CASE query' = NoQuery
  BY <1>3 DEF QueryInv, QueryType, Fresh, AnswersUnlessRebuilt, NoQuery
<1>4. CASE ReadFrom /\ query' # NoQuery
  <2>1. /\ query.step = "from" /\ Mapped(query.asked[1]) /\ overtaken' = overtaken
        /\ query' = [query EXCEPT !.step = "to", !.from = nodes[query.asked[1]]]
    BY <1>4 DEF ReadFrom
  <2>2. nodes[query.asked[1]] \in Nat
    BY <2>1 DEF GInv, NodesOK, Mapped
  <2>3. /\ query'.step = "to" /\ query'.from = nodes[query.asked[1]]
        /\ query'.asked = query.asked /\ query'.answer = query.answer
        /\ query' \in QueryType
    BY <2>1, <2>2 DEF QueryInv, QueryType
  <2> QED BY <1>1, <2>1, <2>3 DEF QueryInv, Fresh, AnswersUnlessRebuilt, Mapped
<1>5. CASE ReadTo /\ query' # NoQuery
  <2>1. /\ query.step = "to" /\ Mapped(query.asked[2]) /\ overtaken' = overtaken
        /\ query' = [query EXCEPT !.step = "path", !.to = nodes[query.asked[2]]]
    BY <1>5 DEF ReadTo
  <2>2. nodes[query.asked[2]] \in Nat
    BY <2>1 DEF GInv, NodesOK, Mapped
  <2>3. /\ query'.step = "path" /\ query'.to = nodes[query.asked[2]]
        /\ query'.from = query.from
        /\ query'.asked = query.asked /\ query'.answer = query.answer
        /\ query' \in QueryType
    BY <2>1, <2>2 DEF QueryInv, QueryType
  <2> QED BY <1>1, <2>1, <2>3 DEF QueryInv, Fresh, AnswersUnlessRebuilt, Mapped
<1>6. CASE FindPath
  <2>1. query.step = "path" /\ overtaken' = overtaken
    BY <1>6 DEF FindPath
  <2>2. PICK a, b \in DOMAIN nodes :
          /\ nodes[a] = query.from /\ nodes[b] = query.to
          /\ query' = [query EXCEPT !.step = "idle", !.answer = <<a, b>>]
    BY <1>6 DEF FindPath
  <2>3. /\ query'.step = "idle" /\ query'.asked = query.asked /\ query'.answer = <<a, b>>
        /\ query' \in QueryType
    BY <2>2 DEF QueryInv, QueryType, GInv, NodesOK
  <2>4. ASSUME ~overtaken
        PROVE  a = query.asked[1] /\ b = query.asked[2]
    BY <2>1, <2>2, <2>4 DEF QueryInv, Fresh, Mapped, GInv, NodesOK, IsInjective
  <2>5. query.asked = <<query.asked[1], query.asked[2]>>
    BY <2>1 DEF QueryInv, Fresh
  <2> QED BY <2>1, <2>3, <2>4, <2>5 DEF QueryInv, Fresh, AnswersUnlessRebuilt
<1> QED BY <1>2, <1>3, <1>4, <1>5, <1>6 DEF Query, ReadFrom, ReadTo, FindNothing

LEMMA Invariants == Spec => [](GInv /\ QueryInv)
<1>1. Init => GInv /\ QueryInv
  <2> SUFFICES ASSUME Init PROVE GInv /\ QueryInv
    OBVIOUS
  <2>1. DOMAIN nodes = {} /\ edges = {} /\ stops = {} /\ routeStops = {}
    BY DEF Init
  <2>2. nodes \in [DOMAIN nodes -> Nat] /\ IsInjective(nodes)
    BY <2>1 DEF Init, IsInjective
  <2>3. GInv
    BY <2>1, <2>2 DEF GInv, Data, NodesOK, EdgesMatchNodes
  <2>4. QueryInv
    BY DEF Init, QueryInv, QueryType, Fresh, AnswersUnlessRebuilt, NoQuery
  <2> QED BY <2>3, <2>4
<1>2. GInv /\ QueryInv /\ [Next]_vars => GInv' /\ QueryInv'
  <2>1. GInv /\ QueryInv /\ UNCHANGED vars => QueryInv'
    BY DEF vars, graph, reader, QueryInv, QueryType, Fresh, AnswersUnlessRebuilt, Mapped
  <2> QED BY <2>1, BuildKeepsGraph, BuildKeepsQuery, QueryKeepsGraph, QueryKeepsQuery DEF Next
<1> QED BY <1>1, <1>2, PTL DEF Spec

(* However builds interleave, every edge joins the current node ids of two
   stops that a route or a short walk connects (BuildTransitGraph). *)
THEOREM EdgesAreSound == Spec => []EdgesMatchNodes
<1>1. GInv /\ QueryInv => EdgesMatchNodes
  BY DEF GInv
<1> QED BY <1>1, Invariants, PTL

(* FindTransferRoutes answers about the stops it was asked for unless a
   build truncated the graph during the call. *)
THEOREM AnswersAreSound == Spec => []AnswersUnlessRebuilt
<1>1. GInv /\ QueryInv => AnswersUnlessRebuilt
  BY DEF QueryInv
<1> QED BY <1>1, Invariants, PTL
-----------------------------------------------------------------------------
(* Node ids are numbers of stops. *)
Numbered == /\ DOMAIN nodes \subseteq stops
            /\ \A s \in DOMAIN nodes : nodes[s] \in 1..Cardinality(Stops)
Control == /\ pc \in [Builders -> BuilderSteps]
           /\ overtaken \in BOOLEAN /\ dirty \in BOOLEAN
           /\ faults \in 0..MaxFaults

LEMMA BuildKeepsNumbers ==
    ASSUME GInv, Numbered, Control, NEW b \in Builders, Build(b)
    PROVE  Numbered' /\ Control'
<1>1. CASE PopulateNodes(b)
  <2>1. stops' = stops /\ overtaken' = overtaken /\ dirty' = dirty /\ faults' = faults
    BY <1>1 DEF PopulateNodes, tables, reader
  <2>2. Control'
    BY <1>1, <2>1 DEF PopulateNodes, Goto, Control, BuilderSteps
  <2>3. CASE nodes' = nodes
    BY <2>1, <2>2, <2>3 DEF Numbered
  <2>4. CASE nodes' # nodes
    <3>1. nodes' \in [stops -> 1..Cardinality(stops)]
      BY <1>1, <2>4 DEF PopulateNodes, Numberings, Bijection, Injection
    <3>2. /\ IsFiniteSet(Stops) /\ stops \subseteq Stops
      BY TransitGraphAssumption DEF GInv, Data
    <3>3. /\ Cardinality(stops) \in Nat /\ Cardinality(Stops) \in Nat
          /\ Cardinality(stops) <= Cardinality(Stops)
      BY <3>2, FS_Subset, FS_CardinalityType
    <3> QED BY <2>1, <2>2, <3>1, <3>3 DEF Numbered
  <2> QED BY <2>3, <2>4
<1>2. CASE Truncate(b)
  <2>1. DOMAIN nodes' = {} /\ stops' = stops /\ faults' = faults
    BY <1>2 DEF Truncate, tables
  <2> QED BY <1>2, <2>1 DEF Truncate, Goto, Numbered, Control, BuilderSteps
<1>3. CASE ~PopulateNodes(b) /\ ~Truncate(b)
  <2>1. nodes' = nodes /\ stops \subseteq stops'
    BY <1>3 DEF Build, StartSync, Upsert, StartServer, PopulateRoutes, PopulateWalks, Fail,
           tables, graph
  <2>2. /\ pc' \in [Builders -> BuilderSteps]
        /\ overtaken' = overtaken /\ (dirty' = dirty \/ dirty' = TRUE)
    BY <1>3 DEF Build, StartSync, Upsert, StartServer, PopulateRoutes, PopulateWalks, Fail,
           reader, Goto, Control, BuilderSteps
  <2>3. faults' \in 0..MaxFaults
    BY <1>3, TransitGraphAssumption DEF Build, StartSync, Upsert, StartServer, PopulateRoutes,
           PopulateWalks, Fail, Control
  <2> QED BY <2>1, <2>2, <2>3 DEF Numbered, Control
<1> QED BY <1>1, <1>2, <1>3

LEMMA QueryKeepsNumbers ==
    ASSUME Numbered, Control, Query \/ UNCHANGED vars
    PROVE  Numbered' /\ Control'
<1>1. UNCHANGED <<nodes, stops, pc, dirty, faults>> /\ overtaken' \in BOOLEAN
  BY DEF Query, Ask, ReadFrom, ReadTo, FindPath, FindNothing, tables, graph, reader, vars,
         Control
<1> QED BY <1>1 DEF Numbered, Control

LEMMA NumbersBegin == Init => Numbered /\ Control
<1> SUFFICES ASSUME Init PROVE Numbered /\ Control
  OBVIOUS
<1>1. DOMAIN nodes = {}
  BY DEF Init
<1>2. MaxFaults \in Nat
  BY TransitGraphAssumption
<1>3. faults \in 0..MaxFaults /\ pc \in [Builders -> BuilderSteps]
  BY <1>2 DEF Init, BuilderSteps
<1>4. overtaken \in BOOLEAN /\ dirty \in BOOLEAN
  BY Zenon DEF Init
<1> QED BY <1>1, <1>3, <1>4 DEF Numbered, Control

(* The state stays well typed: node ids are those of stored stops and number
   at most the stops there are. *)
THEOREM TypeCorrect == Spec => []TypeOK
<1>1. Init => Numbered /\ Control
  BY NumbersBegin
<1>2. GInv /\ Numbered /\ Control /\ [Next]_vars => Numbered' /\ Control'
  BY BuildKeepsNumbers, QueryKeepsNumbers DEF Next
<1>3. GInv /\ QueryInv /\ Numbered /\ Control => TypeOK
  BY DEF GInv, Data, NodesOK, QueryInv, QueryType, Numbered, Control, TypeOK
<1> QED BY <1>1, <1>2, <1>3, Invariants, PTL DEF Spec
-----------------------------------------------------------------------------
(* While no build failed and none is still to truncate, the graph is empty
   and a build is about to fill it, or it has all the stops and who is at
   work will add what edges it lacks. *)
At(steps) == \E b \in Builders : pc[b] \in steps
Filled == /\ DOMAIN nodes = stops
          /\ RouteEdges \subseteq edges \/ At({"routes"})
          /\ WalkEdges \subseteq edges \/ At({"routes", "walks"})
Progress == ~dirty /\ ~At({"upsert", "truncate"}) =>
                (DOMAIN nodes = {} /\ At({"nodes"})) \/ Filled

LEMMA BuildProgresses ==
    ASSUME Control, Progress, NEW b \in Builders, Build(b)
    PROVE  Progress'
<1> SUFFICES ASSUME ~dirty', ~At({"upsert", "truncate"})'
             PROVE  ((DOMAIN nodes = {} /\ At({"nodes"})) \/ Filled)'
  BY DEF Progress
<1>1. ASSUME NEW step, Goto(b, step)
      PROVE  /\ pc'[b] = step /\ \A c \in Builders \ {b} : pc'[c] = pc[c]
             /\ step \notin {"upsert", "truncate"}
  BY <1>1 DEF Goto, Control, At
<1>2. CASE StartSync(b) \/ Upsert(b) \/ StartServer(b) \/ Fail(b)
  BY <1>1, <1>2 DEF StartSync, Upsert, StartServer, Fail
<1>3. CASE Truncate(b)
  <2>1. DOMAIN nodes' = {} /\ Goto(b, "nodes")
    BY <1>3 DEF Truncate
  <2> QED BY <1>1, <2>1 DEF At
<1>4. ASSUME pc[b] \notin {"upsert", "truncate"}, \E step : Goto(b, step), dirty' = dirty
      PROVE  (DOMAIN nodes = {} /\ At({"nodes"})) \/ Filled
  BY <1>1, <1>4 DEF Progress, At
<1>5. CASE PopulateNodes(b)
  <2>1. stops' = stops /\ routeStops' = routeStops /\ edges' = edges /\ pc[b] = "nodes"
    BY <1>5 DEF PopulateNodes, tables
  <2>2. CASE DOMAIN nodes = {}
    <3>1. nodes' \in Numberings /\ Goto(b, "routes")
      BY <1>5, <2>2 DEF PopulateNodes
    <3>2. DOMAIN nodes' = stops'
      BY <2>1, <3>1 DEF Numberings, Bijection, Injection
    <3>3. At({"routes"})' /\ At({"routes", "walks"})'
      BY <1>1, <3>1 DEF At
    <3> QED BY <3>2, <3>3 DEF Filled
  <2>3. CASE DOMAIN nodes # {}
    <3>1. nodes' = nodes /\ Goto(b, "idle") /\ dirty' = dirty
      BY <1>5, <2>3 DEF PopulateNodes
    <3>2. Filled
      BY <1>4, <2>1, <2>3, <3>1
    <3>3. /\ At({"routes"}) => At({"routes"})'
          /\ At({"routes", "walks"}) => At({"routes", "walks"})'
      BY <1>1, <2>1, <3>1 DEF At
    <3>4. RouteEdges' = RouteEdges /\ WalkEdges' = WalkEdges
      BY <2>1, <3>1 DEF RouteEdges, WalkEdges, Consecutive, Mapped
    <3> QED BY <2>1, <3>1, <3>2, <3>3, <3>4 DEF Filled
  <2> QED BY <2>2, <2>3
<1>6. CASE PopulateRoutes(b)
  <2>1. /\ UNCHANGED <<stops, routeStops, nodes, dirty>> /\ pc[b] = "routes"
        /\ edges' = edges \cup RouteEdges /\ Goto(b, "walks")
    BY <1>6 DEF PopulateRoutes, tables
  <2>2. RouteEdges' = RouteEdges /\ WalkEdges' = WalkEdges
    BY <2>1 DEF RouteEdges, WalkEdges, Consecutive, Mapped
  <2>3. At({"routes", "walks"})' /\ (At({"nodes"}) => At({"nodes"})')
    BY <1>1, <2>1 DEF At
  <2> QED BY <1>4, <2>1, <2>2, <2>3 DEF Filled
<1>7. CASE PopulateWalks(b)
  <2>1. /\ UNCHANGED <<stops, routeStops, nodes, dirty>> /\ pc[b] = "walks"
        /\ edges' = edges \cup WalkEdges /\ Goto(b, "idle")
    BY <1>7 DEF PopulateWalks, tables
  <2>2. RouteEdges' = RouteEdges /\ WalkEdges' = WalkEdges
    BY <2>1 DEF RouteEdges, WalkEdges, Consecutive, Mapped
  <2>3. (At({"routes"}) => At({"routes"})') /\ (At({"nodes"}) => At({"nodes"})')
    BY <1>1, <2>1 DEF At
  <2> QED BY <1>4, <2>1, <2>2, <2>3 DEF Filled
<1> QED BY <1>2, <1>3, <1>5, <1>6, <1>7 DEF Build

LEMMA QueryProgresses ==
    ASSUME Progress, Query \/ UNCHANGED vars
    PROVE  Progress'
<1>1. UNCHANGED <<stops, routeStops, nodes, edges, pc, dirty>>
  <2>1. CASE Query
    <3>1. UNCHANGED <<tables, graph, pc, dirty>>
      BY <2>1 DEF Query, Ask, ReadFrom, ReadTo, FindPath, FindNothing
    <3> QED BY <3>1 DEF tables, graph
  <2>2. CASE UNCHANGED vars
    BY <2>2 DEF vars, tables, graph
  <2> QED BY <2>1, <2>2
<1>2. RouteEdges' = RouteEdges /\ WalkEdges' = WalkEdges
  BY <1>1 DEF RouteEdges, WalkEdges, Consecutive, Mapped
<1>3. \A steps : At(steps)' = At(steps)
  BY <1>1 DEF At
<1> QED BY <1>1, <1>2, <1>3 DEF Progress, Filled

(* When every sync and server start is over, the graph has every stop and
   edge of the tables, however their builds overlapped, unless one failed
   and no later one began on its own (BuildTransitGraph). *)
THEOREM QuietGraphIsComplete == Spec => []CompleteWhenQuiet
<1>1. Init => Progress
  <2> SUFFICES ASSUME Init PROVE Filled
    BY DEF Progress
  <2>1. DOMAIN nodes = {} /\ stops = {} /\ routeStops = {}
    BY DEF Init
  <2> QED BY <2>1 DEF Filled, RouteEdges, WalkEdges, Consecutive
<1>2. Control /\ Progress /\ [Next]_vars => Progress'
  BY BuildProgresses, QueryProgresses DEF Next
<1>3. Progress => CompleteWhenQuiet
  <2> SUFFICES ASSUME Progress, \A b \in Builders : pc[b] = "idle", ~dirty
               PROVE  /\ DOMAIN nodes = stops
                      /\ \A a, b \in stops :
                            /\ Walks(a, b) => <<nodes[a], nodes[b], WalkRouteID>> \in edges
                            /\ \A x \in routeStops : Rides(a, b, x.route) =>
                                  <<nodes[a], nodes[b], x.route>> \in edges
    BY DEF CompleteWhenQuiet
  <2>1. DOMAIN nodes = stops /\ RouteEdges \subseteq edges /\ WalkEdges \subseteq edges
    BY DEF Progress, Filled, At
  <2>2. ASSUME NEW a \in stops, NEW b \in stops, Walks(a, b)
        PROVE  <<nodes[a], nodes[b], WalkRouteID>> \in edges
    <3>1. <<nodes[a], nodes[b], WalkRouteID>> \in WalkEdges
      <4> DEFINE Pairs == {z \in (stops \cap DOMAIN nodes) \X (stops \cap DOMAIN nodes) :
                             z[1] # z[2] /\ {z[1], z[2]} \in Near}
      <4>1. <<a, b>> \in Pairs
        BY <2>1, <2>2 DEF Walks
      <4> QED BY <4>1 DEF WalkEdges
    <3> QED BY <2>1, <3>1
  <2>3. ASSUME NEW a \in stops, NEW b \in stops, NEW r, Rides(a, b, r)
        PROVE  <<nodes[a], nodes[b], r>> \in edges
    <3>1. PICK xy \in Consecutive : xy[1].stop = a /\ xy[2].stop = b /\ xy[1].route = r
      BY <2>3 DEF Rides
    <3>2. xy \in {z \in Consecutive : Mapped(z[1].stop) /\ Mapped(z[2].stop)}
      BY <2>1, <3>1 DEF Mapped
    <3>3. <<nodes[a], nodes[b], r>> \in RouteEdges
      BY <3>1, <3>2 DEF RouteEdges
    <3> QED BY <2>1, <3>3
  <2> QED BY <2>1, <2>2, <2>3
<1>4. Init => Numbered /\ Control
  BY NumbersBegin
<1>5. GInv /\ Numbered /\ Control /\ [Next]_vars => Numbered' /\ Control'
  BY BuildKeepsNumbers, QueryKeepsNumbers DEF Next
<1> QED BY <1>1, <1>2, <1>3, <1>4, <1>5, Invariants, PTL DEF Spec
=============================================================================
