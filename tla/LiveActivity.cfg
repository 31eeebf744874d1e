SPECIFICATION Spec
CONSTANTS
    r = r
    a = a
    b = b
    c1 = c1
    c2 = c2
    here = here
    Routes <- OneRoute
    Stops <- TwoStops
    Trips <- TwoTrips
    Screens <- OneScreen
    Page <- Pages
    Calls <- TwoCalls
    MaxTimers = 2
    MaxWrites = 2
    MaxKills = 1
INVARIANTS
    QuietMeansTracked
    OwnArrivalsUnlessCrossed
    ButtonTellsTruth
SYMMETRY Alike
CONSTRAINT FewRefreshes
