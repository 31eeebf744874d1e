SPECIFICATION CardsSpec
CONSTANTS
    a1 = a1
    a2 = a2
    i1 = i1
    r1 = r1
    r2 = r2
    q1 = q1
    q2 = q2
    q3 = q3
    q4 = q4
    Arrivals <- ThreeArrivals
    Inline <- OneInline
    Routes <- TwoRoutes
    Queries <- FourQueries
    Query <- Asks
    MaxReloads = 1
SYMMETRY Symmetry
CONSTRAINT FewCalls
INVARIANTS
    CardsTypeOK
    ShownIsLatest
    RouteCardsAwaited
    ClearedStaysCleared
    WidgetFollows
CHECK_DEADLOCK FALSE
