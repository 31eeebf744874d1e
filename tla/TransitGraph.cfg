SPECIFICATION Spec
CONSTANTS
    s1 = s1
    s2 = s2
    s3 = s3
    job = job
    pod = pod
    Stops <- ThreeStops
    RouteFeed <- OneRoute
    Near <- OnePair
    Syncs <- OneSync
    Servers <- OneServer
    MaxFaults = 1
INVARIANTS
    EdgesMatchNodes
    CompleteWhenQuiet
    AnswersUnlessRebuilt
