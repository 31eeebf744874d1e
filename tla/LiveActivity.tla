---------------------------- MODULE LiveActivity ----------------------------
(***************************************************************************)
(* mobile/src/lib/live-activity.ts with the screens that call it           *)
(* (app/nearby/route.tsx, one per tab, and the tool show_live_activity).   *)
(* startTracking, stopTracking and refreshActivity share the variables     *)
(* running, refreshTimer and trackedParams and await in the middle, so     *)
(* calls overlap; the activity itself lives in iOS and outlasts the app.   *)
(*                                                                         *)
(* A trip is what is tracked: a route at a stop.  Storage (AsyncStorage)   *)
(* carries out what it is asked in order, later.  Refreshes that ask for   *)
(* the same stop at the same time are one element of a set.                *)
(***************************************************************************)
EXTENDS Integers, FiniteSets, Sequences

CONSTANTS
    Routes, Stops,
    Trips,          \* the pairs of a route and a stop that are ever tracked
    Screens,        \* the route screens, each in a tab of its own
    Page,           \* Page[s]: the trip whose screen s is
    Calls,          \* calls of startTracking and stopTracking in flight
    MaxTimers,      \* bound on intervals alive at the same time
    MaxWrites,      \* bound on writes storage has yet to carry out
    MaxKills        \* bound on how often the app is killed

Trip == [route : Routes, stop : Stops]

ASSUME LiveActivityAssumption ==
    /\ Trips \subseteq Trip
    /\ Page \in [Screens -> Trips]
    /\ MaxTimers \in Nat /\ MaxWrites \in Nat /\ MaxKills \in Nat

None == [route |-> "none", stop |-> "none"]
Closed == [route |-> "closed", stop |-> "closed"]
Gone == "gone"      \* no screen called, but show_live_activity, or it is unmounted
ASSUME NoneAssumption == /\ {"none", "closed"} \cap (Routes \cup Stops) = {}
                         /\ Gone \notin Screens

VARIABLES
    up,             \* the app's process runs
    running, trackedParams,
    refreshTimer,   \* its handle is not null
    timers,         \* intervals alive, those without a handle included
    call,           \* the calls in flight
    trackedKey,     \* of each screen
    asked,          \* stops that a refresh waits for the arrivals of
    updates,        \* updateLiveActivity on its way: the trip of its ETAs
    stored,         \* the stored copy
    writes,         \* what storage was asked to store and has not yet
    restore,        \* restoreTracking: "none", "reading" or "read"
    found,          \* what it read
    activities,     \* the activities iOS shows
    crossed,        \* starts that another call or a refresh ran beside (history)
    clean,          \* no calls overlapped, nothing stored was lost or left
                    \* unread since the last start or stop that was alone
                    \* (history)
    unstored,       \* while clean: storage was not asked to store the last
                    \* change of tracking, or failed to (history)
    stale,          \* screens that tracking changed behind (history)
    kills

js == <<running, trackedParams, refreshTimer, timers>>
storage == <<stored, writes, restore, found>>
refresh == <<asked, updates>>
history == <<crossed, clean, unstored, stale>>
vars == <<up, js, call, trackedKey, refresh, storage, activities, history, kills>>

Idle == [op |-> "idle"]
Call(op, step, t, by, alone) ==
    [op |-> op, step |-> step, trip |-> t, by |-> by, alone |-> alone]
CallType ==
    [op : {"start"}, step : {"ending", "requesting", "started", "failed"},
     trip : Trips, by : Screens \cup {Gone}, alone : BOOLEAN]
    \cup
    [op : {"stop"}, step : {"ending", "ended"},
     trip : {None}, by : Screens \cup {Gone}, alone : BOOLEAN]
Activity == [by : Calls, trip : Trips, etas : Trip \cup {None}]

InFlight == {c \in Calls : call[c] # Idle}
Starting == {c \in InFlight : call[c].op = "start"}
Refreshing == asked # {} \/ updates # {}

Init ==
    /\ up = TRUE
    /\ running = FALSE /\ trackedParams = None
    /\ refreshTimer = FALSE /\ timers = 0
    /\ call = [c \in Calls |-> Idle]
    /\ trackedKey = [s \in Screens |-> Closed]
    /\ asked = {} /\ updates = {}
    /\ stored = None /\ writes = <<>> /\ restore = "reading" /\ found = None
    /\ activities = {}
    /\ crossed = {} /\ clean = TRUE /\ unstored = FALSE /\ stale = {}
    /\ kills = 0

Step(c, step) == call' = [call EXCEPT ![c].step = step]

(* Calls that run at the same time are not alone, nor is one that begins
   before restoreTracking is over. *)
Alone == InFlight = {} /\ restore = "none"
Others == [d \in Calls |-> IF d \in InFlight THEN [call[d] EXCEPT !.alone = FALSE]
                           ELSE Idle]

(* A call begins and awaits iOS.  Its name is free again once the activity
   it left is over. *)
Begin(c, k) ==
    /\ call[c] = Idle /\ \A a \in activities : a.by # c
    /\ timers + Cardinality(Starting) < MaxTimers
    /\ call' = [Others EXCEPT ![c] = k]
    /\ crossed' = IF Alone THEN (crossed \ {c}) \cup (IF Refreshing THEN {c} ELSE {})
                  ELSE crossed \cup {c} \cup Starting
    /\ clean' = (clean /\ Alone) /\ unstored' = (unstored /\ clean')

-----------------------------------------------------------------------------
(* startTracking *)

(* Up to the await of startLiveActivity. *)
StartTracking(c, t, by) ==
    /\ up /\ Len(writes) + Cardinality(InFlight) < MaxWrites
    /\ Begin(c, Call("start", "ending", t, by, Alone))
    /\ UNCHANGED <<up, js, trackedKey, refresh, storage, activities, stale, kills>>

\* mutant: the activities there are stay
EndActivities_Keeps(c) ==
    /\ call[c] # Idle /\ call[c].step = "ending"
    /\ Step(c, IF call[c].op = "start" THEN "requesting" ELSE "ended")
    /\ UNCHANGED <<up, js, trackedKey, refresh, storage, activities, history, kills>>

(* iOS ends what it shows, for a start as for a stop. *)
EndActivities(c) ==
    /\ call[c] # Idle /\ call[c].step = "ending"
    /\ Step(c, IF call[c].op = "start" THEN "requesting" ELSE "ended")
    /\ activities' = {}
    /\ UNCHANGED <<up, js, trackedKey, refresh, storage, history, kills>>

(* Then it shows the new one, unless the user has disabled activities. *)
Request(c) ==
    /\ call[c] # Idle /\ call[c].step = "requesting"
    /\ \/ /\ Step(c, "started")
          /\ activities' = activities \cup
                {[by |-> c, trip |-> call[c].trip, etas |-> None]}
       \/ Step(c, "failed") /\ UNCHANGED activities
    /\ UNCHANGED <<up, js, trackedKey, refresh, storage, history, kills>>

(* Screens other than the one that called do not hear of a change. *)
Behind(by) == stale' = (stale \cup {s \in Screens : trackedKey[s] # Closed}) \ {by}

SetKey(by, t) ==
    trackedKey' = IF by \in Screens THEN [trackedKey EXCEPT ![by] = t] ELSE trackedKey

(* The rest of startTracking and of the caller: the first refresh is asked
   for, and the new handle overwrites an old one, whose interval stays. *)
Started(c) ==
    LET k == call[c] IN
    /\ k # Idle /\ k.step = "started"
    /\ running' = TRUE /\ trackedParams' = k.trip
    /\ asked' = asked \cup {k.trip.stop}
    /\ refreshTimer' = TRUE /\ timers' = timers + 1
    /\ writes' = Append(writes, k.trip)
    /\ SetKey(k.by, k.trip) /\ Behind(k.by)
    /\ clean' = (clean \/ k.alone) /\ unstored' = FALSE
    /\ call' = [call EXCEPT ![c] = Idle]
    /\ UNCHANGED <<up, updates, stored, restore, found, activities, crossed, kills>>

(* incrementRouteTracking throws between the two: tracking has changed, and
   nothing is stored, refreshed or scheduled.  The answer is false, so the
   screen that called is as much behind as the others. *)
CountFails(c) ==
    LET k == call[c] IN
    /\ k # Idle /\ k.step = "started"
    /\ running' = TRUE /\ trackedParams' = k.trip
    /\ Behind(Gone)
    /\ clean' = (clean \/ k.alone) /\ unstored' = clean'
    /\ call' = [call EXCEPT ![c] = Idle]
    /\ UNCHANGED <<up, refreshTimer, timers, trackedKey, refresh, storage,
                   activities, crossed, kills>>

\* mutant: the screen does not look at the answer
StartFailed_SetsKey(c) ==
    /\ call[c] # Idle /\ call[c].step = "failed"
    /\ SetKey(call[c].by, call[c].trip)
    /\ call' = [call EXCEPT ![c] = Idle]
    /\ UNCHANGED <<up, js, refresh, storage, activities, history, kills>>

StartFailed(c) ==
    /\ call[c] # Idle /\ call[c].step = "failed"
    /\ call' = [call EXCEPT ![c] = Idle]
    /\ UNCHANGED <<up, js, trackedKey, refresh, storage, activities, history, kills>>

-----------------------------------------------------------------------------
(* stopTracking *)

\* mutant: the stored copy stays
Forget_KeepsStored(by) ==
    /\ running' = FALSE /\ trackedParams' = None
    /\ SetKey(by, None) /\ Behind(by)
    /\ unstored' = FALSE
    /\ UNCHANGED storage

(* The end of both paths of stopTracking and what its caller does next. *)
Forget(by) ==
    /\ running' = FALSE /\ trackedParams' = None
    /\ writes' = Append(writes, None)
    /\ SetKey(by, None) /\ Behind(by)
    /\ unstored' = FALSE
    /\ UNCHANGED <<stored, restore, found>>

(* clearInterval knows the last handle only.  Unless `running`, iOS is not
   asked, nothing awaited, and the call is over at once. *)
StopTracking(c, by) ==
    /\ up /\ Len(writes) + Cardinality(InFlight) < MaxWrites
    /\ refreshTimer' = FALSE
    /\ timers' = IF refreshTimer THEN timers - 1 ELSE timers
    /\ \/ /\ running
          /\ Begin(c, Call("stop", "ending", None, by, Alone))
          /\ UNCHANGED <<running, trackedParams, trackedKey, storage, stale>>
       \/ /\ ~running
          /\ Forget(by)
          /\ call' = Others
          /\ crossed' = crossed \cup Starting
          /\ clean' = (clean /\ Alone)
    /\ UNCHANGED <<up, refresh, activities, kills>>

Stopped(c) ==
    LET k == call[c] IN
    /\ k # Idle /\ k.step = "ended"
    /\ Forget(k.by)
    /\ clean' = (clean \/ k.alone)
    /\ call' = [call EXCEPT ![c] = Idle]
    /\ UNCHANGED <<up, refreshTimer, timers, refresh, activities, crossed, kills>>

-----------------------------------------------------------------------------
(* refreshActivity *)

(* An interval elapses.  Calls that are starting meet this refresh. *)
Tick ==
    /\ timers > 0 /\ running /\ trackedParams # None
    /\ asked' = asked \cup {trackedParams.stop}
    /\ crossed' = crossed \cup Starting
    /\ UNCHANGED <<up, js, call, trackedKey, updates, storage, activities,
                   clean, unstored, stale, kills>>

(* No arrivals come: the request fails, the stop is unknown, the tracked
   route does not call there, or trackedParams is null by now. *)
NoAnswer(s) ==
    /\ s \in asked
    /\ asked' = asked \ {s}
    /\ UNCHANGED <<up, js, call, trackedKey, updates, storage, activities, history, kills>>

(* The stop is the one asked for, the route the one tracked now. *)
Answer(s) ==
    /\ s \in asked /\ trackedParams # None
    /\ asked' = asked \ {s}
    /\ updates' = updates \cup {[route |-> trackedParams.route, stop |-> s]}
    /\ UNCHANGED <<up, js, call, trackedKey, storage, activities, history, kills>>

(* updateLiveActivity: the first activity there is, or an error. *)
Update(u) ==
    /\ u \in updates
    /\ updates' = updates \ {u}
    /\ \/ activities = {} /\ UNCHANGED activities
       \/ \E a \in activities :
            activities' = (activities \ {a}) \cup {[a EXCEPT !.etas = u]}
    /\ UNCHANGED <<up, js, call, trackedKey, asked, storage, history, kills>>

-----------------------------------------------------------------------------
(* The screens *)

Open(s) ==
    /\ up /\ trackedKey[s] = Closed
    /\ trackedKey' = [trackedKey EXCEPT ![s] = trackedParams]
    /\ stale' = stale \ {s}
    /\ UNCHANGED <<up, js, call, refresh, storage, activities, crossed, clean,
                   unstored, kills>>

(* Unmounting: what its calls set later is lost. *)
Close(s) ==
    /\ trackedKey[s] # Closed
    /\ trackedKey' = [trackedKey EXCEPT ![s] = Closed]
    /\ stale' = stale \ {s}
    /\ call' = [c \in Calls |-> IF c \in InFlight /\ call[c].by = s
                               THEN [call[c] EXCEPT !.by = Gone] ELSE call[c]]
    /\ UNCHANGED <<up, js, refresh, storage, activities, crossed, clean, unstored,
                   kills>>

(* What the button shows and goes by. *)
IsTracked(s) == trackedKey[s] = Page[s]

(* The button is never disabled: it may be pressed while a call runs. *)
Toggle(s, c) ==
    /\ trackedKey[s] # Closed
    /\ \/ IsTracked(s) /\ StopTracking(c, s)
       \/ ~IsTracked(s) /\ StartTracking(c, Page[s], s)

ShowLiveActivity(c) == \E t \in Trips : StartTracking(c, t, Gone)

-----------------------------------------------------------------------------
(* Storage, iOS and the process *)

ReadStored ==
    /\ up /\ restore = "reading"
    /\ found' = stored /\ restore' = "read"
    /\ UNCHANGED <<up, js, call, trackedKey, refresh, stored, writes, activities,
                   history, kills>>

(* The rest of restoreTracking: no interval is set, iOS is not asked. *)
RestoreTracking ==
    /\ up /\ restore = "read"
    /\ restore' = "none" /\ found' = None
    /\ IF found = None
       THEN UNCHANGED <<running, trackedParams, stale>>
       ELSE running' = TRUE /\ trackedParams' = found /\ Behind(Gone)
    /\ UNCHANGED <<up, refreshTimer, timers, call, trackedKey, refresh, stored, writes,
                   activities, crossed, clean, unstored, kills>>

Write ==
    /\ up /\ restore # "reading" /\ writes # <<>>
    /\ stored' = Head(writes) /\ writes' = Tail(writes)
    /\ UNCHANGED <<up, js, call, trackedKey, refresh, restore, found, activities,
                   history, kills>>

(* AsyncStorage rejects: what was not read is not restored, what was not
   written keeps its old value, and neither is tried again. *)
StorageFails ==
    /\ up
    /\ \/ /\ restore = "reading"
          /\ restore' = "none" /\ clean' = FALSE /\ unstored' = FALSE
          /\ UNCHANGED writes
       \/ /\ restore # "reading" /\ writes # <<>>
          /\ writes' = Tail(writes)
          /\ unstored' = (clean /\ (unstored \/ Len(writes) = 1))
          /\ UNCHANGED <<restore, clean>>
    /\ UNCHANGED <<up, js, call, trackedKey, refresh, stored, found, activities,
                   crossed, stale, kills>>

(* The user or iOS ends an activity. *)
Dismiss(a) ==
    /\ a \in activities
    /\ activities' = activities \ {a}
    /\ UNCHANGED <<up, js, call, trackedKey, refresh, storage, history, kills>>

(* Activities outlast the process. *)
Kill ==
    /\ up /\ kills < MaxKills
    /\ up' = FALSE
    /\ running' = FALSE /\ trackedParams' = None
    /\ refreshTimer' = FALSE /\ timers' = 0
    /\ call' = [c \in Calls |-> Idle]
    /\ trackedKey' = [s \in Screens |-> Closed]
    /\ asked' = {} /\ updates' = {}
    /\ writes' = <<>> /\ restore' = "none" /\ found' = None
    /\ clean' = (clean /\ InFlight = {} /\ writes = <<>> /\ ~unstored)
    /\ unstored' = FALSE /\ stale' = {}
    /\ kills' = kills + 1
    /\ UNCHANGED <<stored, activities, crossed>>

Launch ==
    /\ ~up
    /\ up' = TRUE /\ restore' = "reading"
    /\ UNCHANGED <<js, call, trackedKey, refresh, stored, writes, found, activities,
                   history, kills>>

Next ==
    \/ \E s \in Screens : Open(s) \/ Close(s) \/ \E c \in Calls : Toggle(s, c)
    \/ \E c \in Calls : \/ ShowLiveActivity(c)
                        \/ EndActivities(c) \/ Request(c)
                        \/ Started(c) \/ CountFails(c) \/ StartFailed(c)
                        \/ Stopped(c)
    \/ Tick
    \/ \E s \in Stops : NoAnswer(s) \/ Answer(s)
    \/ \E u \in Trip : Update(u)
    \/ \E a \in activities : Dismiss(a)
    \/ ReadStored \/ RestoreTracking \/ Write \/ StorageFails
    \/ Kill \/ Launch

Spec == Init /\ [][Next]_vars

-----------------------------------------------------------------------------
(* Types, and that running and trackedParams are set together. *)
TypeOK ==
    /\ up \in BOOLEAN /\ running \in BOOLEAN /\ refreshTimer \in BOOLEAN
    /\ trackedParams \in Trips \cup {None}
    /\ running <=> trackedParams # None
    /\ timers \in Nat /\ (refreshTimer => timers > 0)
    /\ call \in [Calls -> CallType \cup {Idle}]
    /\ trackedKey \in [Screens -> Trips \cup {None, Closed}]
    /\ asked \subseteq Stops /\ updates \subseteq Trip
    /\ stored \in Trips \cup {None} /\ found \in Trips \cup {None}
    /\ writes \in Seq(Trips \cup {None})
    /\ restore \in {"none", "reading", "read"}
    /\ activities \subseteq Activity
    /\ crossed \subseteq Calls /\ clean \in BOOLEAN /\ unstored \in BOOLEAN
    /\ stale \subseteq Screens
    /\ kills \in 0..MaxKills

LastWrite == IF writes = <<>> THEN stored ELSE writes[Len(writes)]

(* While no call runs, what iOS shows is what the app tracks and what a
   restart would restore, unless calls overlapped or a kill or storage lost
   what was stored since the last start or stop that ran alone.  A start
   whose count fails goes unstored until tracking changes again.  A failed
   start or a dismissal may leave tracking without an activity, never an
   activity without tracking. *)
QuietMeansTracked ==
    clean /\ up /\ InFlight = {} /\ restore = "none" =>
        /\ unstored \/ LastWrite = trackedParams
        /\ \A a \in activities : running /\ a.trip = trackedParams
        /\ Cardinality(activities) <= 1

(* An activity shows arrivals of another trip than its own only if its start
   ran beside another call or beside a refresh: refreshActivity reads the
   stop before its await and the route after it. *)
OwnArrivalsUnlessCrossed ==
    \A a \in activities : a.etas \in {None, a.trip} \/ a.by \in crossed

(* The button of a screen says the truth unless tracking changed from
   elsewhere, or by a start whose count failed, since the screen was
   opened. *)
ButtonTellsTruth ==
    \A s \in Screens : trackedKey[s] # Closed /\ s \notin stale =>
        (IsTracked(s) <=> trackedParams = Page[s])
=============================================================================
