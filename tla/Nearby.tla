------------------------------- MODULE Nearby -------------------------------
(***************************************************************************)
(* Two tabs of the mobile app that are never unmounted: the screen of the  *)
(* arrivals near by (app/nearby/index.tsx with hooks/useGeolocation.ts),   *)
(* whose badges and order come from how often each service was tracked,    *)
(* and the list of what was tracked (app/history/index.tsx).  Both copy    *)
(* the table route_tracking of lib/db.ts when they get the focus;          *)
(* startTracking (LiveActivity) counts in it after its await.              *)
(*                                                                         *)
(* A service is a route to a destination.  It is counted under the name of *)
(* its last stop in the language of the app, or under no name when its     *)
(* stops did not come, and looked up under its destination: OwnName says   *)
(* in which languages the last stop is the destination.                    *)
(***************************************************************************)
EXTENDS I18n, Integers, FiniteSets, Sequences, SequencesExt

CONSTANTS
    Services,
    OwnName,        \* the languages in which the last stop is the destination
    MaxTracks       \* bound on calls of startTracking

ASSUME NearbyAssumption ==
    /\ OwnName \in [Services -> SUBSET Locales]
    /\ MaxTracks \in Nat

Name == Services \X BOOLEAN     \* <<s, FALSE>>: s under another name
NameOf(s, l, st) == <<s, st = "here" /\ l \in OwnName[s]>>
Destination(s) == <<s, TRUE>>

VARIABLES
    focus,          \* the screen that has the focus
    page,           \* the service whose route screen lies over the near by one
    stops,          \* of its query for its stops
    arrivals,       \* useNearbyArrivals has had an answer
    geo,            \* how far the location is: see Screen
    located,        \* there is one
    locationRequested,
    watch,          \* of its changes
    route_tracking, \* the table: the names in it and their counts
    trackingCounts, \* the near by screen's copy
    tracking,       \* the history screen's
    counting,       \* names that calls of startTracking are about to count
    behind,         \* counted since the screen that has the focus copied (history)
    tracks          \* calls of startTracking so far

location == <<geo, located, locationRequested, watch>>
copies == <<trackingCounts, tracking>>
screens == <<focus, page, stops, arrivals>>
nearby == <<screens, location, route_tracking, copies, counting, behind, tracks>>

Empty == <<>>
NoPage == "none"
IsTable(t) == DOMAIN t \subseteq Name /\ t \in [DOMAIN t -> Nat \ {0}]

NearbyInit ==
    /\ focus = "transport" /\ page = NoPage /\ stops = "loading" /\ arrivals = FALSE
    /\ geo = "permission" /\ located = FALSE /\ locationRequested = FALSE
    /\ watch = "off"
    /\ route_tracking = Empty /\ trackingCounts = Empty /\ tracking = Empty
    /\ counting = <<>> /\ behind = FALSE /\ tracks = 0

-----------------------------------------------------------------------------
(* The location *)

(* request is over, and startWatching asks for the permission again. *)
Settled(g) ==
    /\ geo' = g /\ locationRequested' = TRUE /\ watch' = "permission"

Request ==
    /\ \/ geo = "permission" /\ geo' = "position"
          /\ UNCHANGED <<located, locationRequested, watch>>
       \/ geo = "permission" /\ Settled("denied") /\ UNCHANGED located
       \/ geo = "position" /\ Settled("found") /\ located' = TRUE
       \/ geo = "position" /\ Settled("failed") /\ UNCHANGED located
    /\ UNCHANGED <<screens, route_tracking, copies, counting, behind, tracks, i18n>>

StartWatching ==
    /\ watch = "permission"
    /\ \/ watch' = "on" /\ UNCHANGED geo
       \/ watch' = "off" /\ geo' = "denied"
    /\ UNCHANGED <<screens, located, locationRequested, route_tracking, copies,
                   counting, behind, tracks, i18n>>

Moved ==
    /\ watch = "on" /\ geo # "found"
    /\ geo' = "found" /\ located' = TRUE
    /\ UNCHANGED <<screens, locationRequested, watch, route_tracking, copies,
                   counting, behind, tracks, i18n>>

Screen ==
    IF ~located /\ (geo \in {"permission", "position"} \/ ~locationRequested) THEN "loading"
    ELSE IF geo = "denied" THEN "denied" ELSE "list"

(* An answer to useNearbyArrivals: what it says is kept until the next. *)
Arrive ==
    /\ located /\ ~arrivals /\ arrivals' = TRUE
    /\ UNCHANGED <<focus, page, stops, location, route_tracking, copies, counting,
                   behind, tracks, i18n>>

-----------------------------------------------------------------------------
(* The table and its copies *)

Counts(t, n) == IF n \in DOMAIN t THEN t[n] ELSE 0

\* mutant: only the number of names is compared
NewCounts_Size(prev, next) ==
    IF Cardinality(DOMAIN prev) # Cardinality(DOMAIN next) THEN next ELSE prev

(* The copy is kept when it has the same names and counts. *)
NewCounts(prev, next) ==
    IF \/ Cardinality(DOMAIN prev) # Cardinality(DOMAIN next)
       \/ \E n \in DOMAIN next : n \notin DOMAIN prev \/ prev[n] # next[n]
    THEN next ELSE prev

(* What useFocusEffect does in the screen f. *)
Focus(f) ==
    /\ focus' = f
    /\ trackingCounts' = IF f = "nearby" THEN NewCounts(trackingCounts, route_tracking)
                         ELSE trackingCounts
    /\ tracking' = IF f = "history" THEN route_tracking ELSE tracking
    /\ behind' = (behind /\ f \notin {"nearby", "history"})

(* To a tab; the near by one may have a route screen on top. *)
Switch(tab) ==
    /\ Focus(IF tab = "nearby" /\ page # NoPage THEN "route" ELSE tab)
    /\ UNCHANGED <<page, stops, arrivals, location, route_tracking, counting, tracks,
                   i18n>>

OpenRoute(s) ==
    /\ focus = "nearby" /\ Screen = "list" /\ arrivals
    /\ page' = s /\ stops' = "loading"
    /\ Focus("route")
    /\ UNCHANGED <<arrivals, location, route_tracking, counting, tracks, i18n>>

(* The button comes with the stops, or when there are none. *)
RouteScreen ==
    IF focus # "route" THEN {}
    ELSE {"close"} \cup (IF stops = "loading" THEN {} ELSE {"track"})

RouteStops ==
    /\ page # NoPage /\ stops = "loading"
    /\ stops' \in {"here", "none"}
    /\ UNCHANGED <<focus, page, arrivals, location, route_tracking, copies, counting,
                   behind, tracks, i18n>>

Back ==
    /\ "close" \in RouteScreen
    /\ page' = NoPage /\ stops' = "loading"
    /\ Focus("nearby")
    /\ UNCHANGED <<arrivals, location, route_tracking, counting, tracks, i18n>>

(* The button of the route screen, up to the await. *)
Track ==
    /\ "track" \in RouteScreen /\ tracks < MaxTracks
    /\ counting' = Append(counting, NameOf(page, locale, stops))
    /\ tracks' = tracks + 1
    /\ UNCHANGED <<screens, location, route_tracking, copies, behind, i18n>>

(* The activity was started, or it was not. *)
IncrementRouteTracking ==
    /\ counting # <<>>
    /\ counting' = Tail(counting)
    /\ \/ LET n == Head(counting) IN
          /\ route_tracking' = [m \in DOMAIN route_tracking \cup {n} |->
                Counts(route_tracking, m) + (IF m = n THEN 1 ELSE 0)]
          /\ behind' = TRUE
       \/ UNCHANGED <<route_tracking, behind>>
    /\ UNCHANGED <<screens, location, copies, tracks, i18n>>

Without(t, n) == [m \in DOMAIN t \ {n} |-> t[m]]

(* The rows of the history screen that can be swiped away. *)
Rows == IF focus = "history" THEN DOMAIN tracking ELSE {}

(* A row is deleted, whether or not it is still what the table has. *)
HandleDeleteTracking(n) ==
    /\ n \in Rows
    /\ route_tracking' = Without(route_tracking, n)
    /\ tracking' = Without(tracking, n)
    /\ UNCHANGED <<screens, location, trackingCounts, counting, behind, tracks, i18n>>

NearbyNext ==
    \/ Request \/ StartWatching \/ Moved \/ Arrive \/ RouteStops
    \/ \E tab \in {"transport", "nearby", "history"} \ {focus} : Switch(tab)
    \/ \E s \in Services : OpenRoute(s)
    \/ Back \/ Track \/ IncrementRouteTracking
    \/ \E n \in Name : HandleDeleteTracking(n)

-----------------------------------------------------------------------------
(* What the near by screen draws: the badge of a service is marked, and it
   comes before those tracked less. *)
Tracked(s) == Counts(trackingCounts, Destination(s)) > 0
Before(s, t) == Counts(trackingCounts, Destination(s)) > Counts(trackingCounts, Destination(t))

NearbyTypeOK ==
    /\ focus \in {"transport", "nearby", "route", "history"}
    /\ page \in Services \cup {NoPage}
    /\ stops \in {"loading", "here", "none"} /\ arrivals \in BOOLEAN
    /\ focus = "route" => page \in Services
    /\ geo \in {"permission", "position", "found", "failed", "denied"}
    /\ watch \in {"off", "permission", "on"}
    /\ located \in BOOLEAN /\ locationRequested \in BOOLEAN /\ behind \in BOOLEAN
    /\ IsTable(route_tracking) /\ IsTable(trackingCounts) /\ IsTable(tracking)
    /\ counting \in Seq(Name) /\ tracks \in 0..MaxTracks

(* The screen with the focus shows the table as it is, badges, order and
   rows, unless a call of startTracking counted after the screen had copied:
   no step back, deletion or equal number of rows leaves an old copy. *)
CopiesMatchTable ==
    ~behind =>
        /\ focus = "nearby" => \A s, t \in Services :
            /\ Tracked(s) <=> Destination(s) \in DOMAIN route_tracking
            /\ Before(s, t) <=> Counts(route_tracking, Destination(s))
                                  > Counts(route_tracking, Destination(t))
        /\ focus = "history" => tracking = route_tracking
=============================================================================
