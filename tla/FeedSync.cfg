SPECIFICATION FairSpec
CONSTANTS
    kmb = kmb
    gmb = gmb
    s1 = s1
    s2 = s2
    Clients <- BothClients
    Gmb = gmb
    Stops <- TwoStops
    Lines <- SharedStop
    MaxFaults = 1
INVARIANTS
    RouteStopsHaveRoutes
    SuccessIsComplete
    FailedStopsRemembered
PROPERTIES
    NamesLostOnlyOnRetry
    RunsEnd
