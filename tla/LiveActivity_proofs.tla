------------------------- MODULE LiveActivity_proofs -------------------------
(***************************************************************************)
(* For any trips, screens and number of calls: between calls, what iOS     *)
(* shows, what the app tracks and what a restart restores agree unless     *)
(* calls overlapped, a button says the truth unless tracking changed       *)
(* behind its screen, and an activity shows the arrivals of its own trip   *)
(* unless calls crossed.                                                   *)
(***************************************************************************)
EXTENDS LiveActivity, FiniteSetTheorems, TLAPS

Callers == Screens \cup {Gone}
Goals == Trips \cup {None}

LEMMA NoneIsNoTrip == None \notin Trips /\ Closed \notin Goals
BY LiveActivityAssumption, NoneAssumption DEF None, Closed, Trip, Goals

Calls_OK == call \in [Calls -> CallType \cup {Idle}]
Js == /\ running \in BOOLEAN /\ refreshTimer \in BOOLEAN
      /\ trackedParams \in Goals /\ (running <=> trackedParams # None)
      /\ timers \in Nat /\ (refreshTimer => timers > 0)
Keys == trackedKey \in [Screens -> Goals \cup {Closed}] /\ stale \subseteq Screens
Store == /\ stored \in Goals /\ found \in Goals /\ writes \in Seq(Goals)
         /\ restore \in {"none", "reading", "read"}
Outside == /\ asked \subseteq Stops /\ updates \subseteq Trip
           /\ activities \subseteq Activity
Notes == /\ up \in BOOLEAN /\ clean \in BOOLEAN /\ unstored \in BOOLEAN
         /\ crossed \subseteq Calls /\ kills \in 0..MaxKills
Types == Calls_OK /\ Js /\ Keys /\ Store /\ Outside /\ Notes

(* What is known of a call in flight, and how it changes. *)
LEMMA CallMeans ==
    ASSUME NEW x \in CallType
    PROVE  /\ x # Idle /\ x.by \in Callers
           /\ x.op = "start" => x.trip \in Trips /\ x.step # "ended"
           /\ x.op \in {"start", "stop"}
           /\ x.step \in {"requesting", "started", "failed"} => x.op = "start"
           /\ x.step = "ended" => x.op = "stop"
BY DEF CallType, Idle, Callers

LEMMA CallChanges ==
    ASSUME NEW x \in CallType
    PROVE  /\ [x EXCEPT !.alone = FALSE] \in CallType
           /\ [x EXCEPT !.by = Gone] \in CallType
           /\ x.op = "stop" => [x EXCEPT !.step = "ended"] \in CallType
           /\ x.op = "start" => \A s \in {"requesting", "started", "failed"} :
                                    [x EXCEPT !.step = s] \in CallType
BY DEF CallType

LEMMA NewCalls ==
    /\ \A t \in Trips, by \in Callers, alone \in BOOLEAN :
          Call("start", "ending", t, by, alone) \in CallType
    /\ \A by \in Screens \cup {Gone}, alone \in BOOLEAN :
          Call("stop", "ending", None, by, alone) \in CallType
BY DEF Call, CallType, Callers

(* The steps, with the types of what they are about. *)
LEMMA Cases ==
    ASSUME [Next]_vars
    PROVE  \/ \E c \in Calls, t \in Trips, by \in Screens \cup {Gone} : StartTracking(c, t, by)
           \/ \E c \in Calls, by \in Screens : StopTracking(c, by)
           \/ \E c \in Calls : EndActivities(c)
           \/ \E c \in Calls : Request(c)
           \/ \E c \in Calls : Started(c)
           \/ \E c \in Calls : CountFails(c)
           \/ \E c \in Calls : StartFailed(c)
           \/ \E c \in Calls : Stopped(c)
           \/ Tick \/ (\E s \in Stops : NoAnswer(s) \/ Answer(s))
           \/ \E u \in Trip : Update(u)
           \/ \E a \in activities : Dismiss(a)
           \/ \E s \in Screens : Open(s)
           \/ \E s \in Screens : Close(s)
           \/ ReadStored \/ RestoreTracking \/ Write \/ StorageFails
           \/ Kill \/ Launch \/ UNCHANGED vars
<1>1. ASSUME NEW s \in Screens, NEW c \in Calls, Toggle(s, c)
      PROVE  \/ \E t \in Trips : StartTracking(c, t, s)
             \/ StopTracking(c, s)
  BY <1>1, LiveActivityAssumption DEF Toggle
<1> QED BY <1>1 DEF Next, ShowLiveActivity

LEMMA OthersKept ==
    ASSUME Calls_OK
    PROVE  Others \in [Calls -> CallType \cup {Idle}]
BY CallChanges DEF Calls_OK, Others, InFlight

LEMMA CallsKeep ==
    ASSUME Calls_OK, [Next]_vars
    PROVE  Calls_OK'
<1>1. ASSUME NEW c \in Calls, NEW t \in Trips, NEW by \in Screens \cup {Gone},
             StartTracking(c, t, by)
      PROVE  Calls_OK'
  <2>1. /\ by \in Callers /\ Alone \in BOOLEAN
        /\ call' = [Others EXCEPT ![c] = Call("start", "ending", t, by, Alone)]
    BY <1>1 DEF StartTracking, Begin, Callers, Alone
  <2> QED BY <2>1, OthersKept, NewCalls DEF Calls_OK
<1>2. ASSUME NEW c \in Calls, NEW by \in Screens, StopTracking(c, by)
      PROVE  Calls_OK'
  <2>1. /\ Alone \in BOOLEAN
        /\ \/ call' = [Others EXCEPT ![c] = Call("stop", "ending", None, by, Alone)]
           \/ call' = Others
    BY <1>2 DEF StopTracking, Begin, Alone
  <2> QED BY <2>1, OthersKept, NewCalls DEF Calls_OK
<1>3. ASSUME NEW c \in Calls, EndActivities(c)
      PROVE  Calls_OK'
  <2>1. /\ call[c] \in CallType
        /\ call' = [call EXCEPT ![c] = [call[c] EXCEPT !.step =
                        IF call[c].op = "start" THEN "requesting" ELSE "ended"]]
    BY <1>3 DEF EndActivities, Step, Calls_OK
  <2> QED BY <2>1, CallMeans, CallChanges DEF Calls_OK
<1>4. ASSUME NEW c \in Calls, Request(c)
      PROVE  Calls_OK'
  <2>1. /\ call[c] \in CallType /\ call[c].step = "requesting"
    BY <1>4 DEF Request, Calls_OK
  <2>2. PICK s \in {"started", "failed"} : call' = [call EXCEPT ![c] = [call[c] EXCEPT !.step = s]]
    BY <1>4 DEF Request, Step
  <2>3. [call[c] EXCEPT !.step = s] \in CallType
    BY <2>1, CallMeans, CallChanges
  <2> QED BY <2>2, <2>3 DEF Calls_OK
<1>5. ASSUME NEW c \in Calls,
             Started(c) \/ CountFails(c) \/ StartFailed(c) \/ Stopped(c)
      PROVE  Calls_OK'
  BY <1>5 DEF Started, CountFails, StartFailed, Stopped, Calls_OK
<1>6. ASSUME NEW s \in Screens, Close(s)
      PROVE  Calls_OK'
  <2>1. call' = [c \in Calls |-> IF c \in InFlight /\ call[c].by = s
                               THEN [call[c] EXCEPT !.by = Gone] ELSE call[c]]
    BY <1>6 DEF Close
  <2> QED BY <2>1, CallChanges DEF Calls_OK, InFlight
<1>7. CASE Kill
  BY <1>7 DEF Kill, Calls_OK
<1>8. CASE \/ Tick \/ (\E s \in Stops : NoAnswer(s) \/ Answer(s)) \/ (\E u \in Trip : Update(u))
           \/ (\E a \in activities : Dismiss(a)) \/ (\E s \in Screens : Open(s))
           \/ ReadStored \/ RestoreTracking \/ Write \/ StorageFails \/ Launch
           \/ UNCHANGED vars
  <2>1. call' = call
    BY <1>8 DEF Tick, NoAnswer, Answer, Update, Dismiss, Open, ReadStored, RestoreTracking,
           Write, StorageFails, Launch, vars
  <2> QED BY <2>1 DEF Calls_OK
<1> QED BY <1>1, <1>2, <1>3, <1>4, <1>5, <1>6, <1>7, <1>8, Cases
-----------------------------------------------------------------------------
(* Types of the other variables *)

LEMMA TripOf ==
    ASSUME Calls_OK, NEW c \in Calls, call[c] # Idle
    PROVE  /\ call[c] \in CallType /\ call[c].by \in Callers
           /\ call[c].step \in {"requesting", "started", "failed"} => call[c].trip \in Trips
           /\ call[c].step = "started" => call[c].trip.stop \in Stops
<1>1. call[c] \in CallType
  BY DEF Calls_OK
<1>2. call[c].step \in {"requesting", "started", "failed"} => call[c].trip \in Trips
  BY <1>1, CallMeans
<1> QED BY <1>1, <1>2, CallMeans, LiveActivityAssumption DEF Trip

LEMMA JsKeep ==
    ASSUME Calls_OK, Js, Store, [Next]_vars
    PROVE  Js'
<1>1. ASSUME NEW c \in Calls, NEW by \in Screens, StopTracking(c, by)
      PROVE  Js'
  <2>1. refreshTimer' = FALSE /\ timers' = IF refreshTimer THEN timers - 1 ELSE timers
    BY <1>1 DEF StopTracking
  <2>2. timers' \in Nat
    BY <2>1 DEF Js
  <2>3. \/ UNCHANGED <<running, trackedParams>>
        \/ running' = FALSE /\ trackedParams' = None
    BY <1>1 DEF StopTracking, Forget
  <2>4. running' \in BOOLEAN /\ (running' <=> trackedParams' # None) /\ trackedParams' \in Goals
    <3>1. CASE UNCHANGED <<running, trackedParams>>
      BY <3>1 DEF Js
    <3>2. CASE running' = FALSE /\ trackedParams' = None
      BY <3>2 DEF Goals
    <3> QED BY <2>3, <3>1, <3>2
  <2>5. refreshTimer' \in BOOLEAN /\ ~refreshTimer'
    BY <2>1
  <2> QED BY <2>2, <2>4, <2>5 DEF Js
<1>2. ASSUME NEW c \in Calls, Started(c)
      PROVE  Js'
  <2>1. trackedParams' \in Trips /\ running' = TRUE /\ refreshTimer' = TRUE /\ timers' = timers + 1
    BY <1>2, TripOf DEF Started
  <2> QED BY <2>1, NoneIsNoTrip DEF Js, Goals
<1>7. ASSUME NEW c \in Calls, CountFails(c)
      PROVE  Js'
  <2>1. /\ trackedParams' \in Trips /\ running' = TRUE
        /\ UNCHANGED <<refreshTimer, timers>>
    BY <1>7, TripOf DEF CountFails
  <2> QED BY <2>1, NoneIsNoTrip DEF Js, Goals
<1>3. ASSUME NEW c \in Calls, Stopped(c)
      PROVE  Js'
  BY <1>3 DEF Stopped, Forget, Js, Goals
<1>4. CASE RestoreTracking
  <2>1. \/ UNCHANGED <<running, trackedParams>>
        \/ running' = TRUE /\ trackedParams' = found /\ found # None
    BY <1>4 DEF RestoreTracking
  <2>2. UNCHANGED <<refreshTimer, timers>>
    BY <1>4 DEF RestoreTracking
  <2>3. CASE UNCHANGED <<running, trackedParams>>
    BY <2>2, <2>3 DEF Js
  <2>4. CASE running' = TRUE /\ trackedParams' = found /\ found # None
    BY <2>2, <2>4 DEF Js, Store
  <2> QED BY <2>1, <2>3, <2>4
<1>5. CASE Kill
  BY <1>5 DEF Kill, Js, Goals
<1>6. CASE \/ \E c \in Calls, t \in Trips, by \in Screens \cup {Gone} : StartTracking(c, t, by)
           \/ \E c \in Calls : EndActivities(c) \/ Request(c) \/ StartFailed(c)
           \/ Tick \/ (\E s \in Stops : NoAnswer(s) \/ Answer(s)) \/ (\E u \in Trip : Update(u))
           \/ (\E a \in activities : Dismiss(a)) \/ (\E s \in Screens : Open(s) \/ Close(s))
           \/ ReadStored \/ Write \/ StorageFails \/ Launch \/ UNCHANGED vars
  <2>1. UNCHANGED js
    BY <1>6 DEF StartTracking, EndActivities, Request, StartFailed, Tick, NoAnswer, Answer, Update,
           Dismiss, Open, Close, ReadStored, Write, StorageFails, Launch, vars
  <2> QED BY <2>1 DEF js, Js
<1> QED BY <1>1, <1>2, <1>3, <1>4, <1>5, <1>6, <1>7, Cases

LEMMA KeysKeep ==
    ASSUME Calls_OK, Js, Keys, [Next]_vars
    PROVE  Keys'
<1>1. ASSUME NEW by, NEW t \in Goals, SetKey(by, t), Behind(by)
      PROVE  Keys'
  BY <1>1 DEF SetKey, Behind, Keys
<1>2. ASSUME NEW c \in Calls, Started(c) \/ Stopped(c)
      PROVE  Keys'
  <2>1. \E t \in Goals : SetKey(call[c].by, t) /\ Behind(call[c].by)
    BY <1>2, TripOf DEF Started, Stopped, Forget, Goals
  <2> QED BY <1>1, <2>1
<1>3. ASSUME NEW c \in Calls, NEW by \in Screens, StopTracking(c, by)
      PROVE  Keys'
  <2>1. CASE Forget(by)
    BY <1>1, <2>1 DEF Forget, Goals
  <2>2. CASE UNCHANGED <<trackedKey, stale>>
    BY <2>2 DEF Keys
  <2> QED BY <1>3, <2>1, <2>2 DEF StopTracking
<1>4. ASSUME NEW s \in Screens, Open(s) \/ Close(s)
      PROVE  Keys'
  BY <1>4 DEF Open, Close, Keys, Js, Goals
<1>5. CASE RestoreTracking \/ Kill
  BY <1>5 DEF RestoreTracking, Kill, Behind, Keys
<1>6. CASE \E c \in Calls : StartFailed(c)
  BY <1>6 DEF StartFailed, history, Keys
<1>8. CASE \E c \in Calls : CountFails(c)
  BY <1>8 DEF CountFails, Behind, Keys
<1>7. CASE \/ \E c \in Calls, t \in Trips, by \in Screens \cup {Gone} : StartTracking(c, t, by)
           \/ \E c \in Calls : EndActivities(c) \/ Request(c)
           \/ Tick \/ (\E s \in Stops : NoAnswer(s) \/ Answer(s)) \/ (\E u \in Trip : Update(u))
           \/ (\E a \in activities : Dismiss(a))
           \/ ReadStored \/ Write \/ StorageFails \/ Launch \/ UNCHANGED vars
  <2>1. UNCHANGED <<trackedKey, stale>>
    BY <1>7 DEF StartTracking, EndActivities, Request, Tick, NoAnswer, Answer, Update,
           Dismiss, ReadStored, Write, StorageFails, Launch, history, vars
  <2> QED BY <2>1 DEF Keys
<1> QED BY <1>2, <1>3, <1>4, <1>5, <1>6, <1>7, <1>8, Cases


LEMMA StoreKeeps ==
    ASSUME Calls_OK, Js, Store, [Next]_vars
    PROVE  Store'
<1>1. ASSUME NEW t \in Goals, writes' = Append(writes, t), UNCHANGED <<stored, restore, found>>
      PROVE  Store'
  BY <1>1 DEF Store
<1>2. ASSUME NEW c \in Calls, Started(c) \/ Stopped(c)
      PROVE  Store'
  <2>1. CASE Started(c)
    BY <1>1, <2>1, TripOf DEF Started, Goals
  <2>2. CASE Stopped(c)
    BY <1>1, <2>2 DEF Stopped, Forget, Goals
  <2> QED BY <1>2, <2>1, <2>2
<1>3. ASSUME NEW c \in Calls, NEW by \in Screens, StopTracking(c, by)
      PROVE  Store'
  <2>1. CASE Forget(by)
    BY <1>1, <2>1 DEF Forget, Goals
  <2>2. CASE UNCHANGED storage
    BY <2>2 DEF storage, Store
  <2> QED BY <1>3, <2>1, <2>2 DEF StopTracking
<1>4. CASE Write \/ StorageFails
  BY <1>4 DEF Write, StorageFails, Store
<1>5. CASE ReadStored \/ RestoreTracking \/ Kill \/ Launch
  <2>1. stored' = stored /\ found' \in {found, stored, None}
    BY <1>5 DEF ReadStored, RestoreTracking, Kill, Launch
  <2>2. writes' = writes \/ writes' = <<>>
    BY <1>5 DEF ReadStored, RestoreTracking, Kill, Launch
  <2>3. writes' \in Seq(Goals)
    <3>1. writes \in Seq(Goals)
      BY DEF Store
    <3>2. <<>> \in Seq(Goals)
      OBVIOUS
    <3> QED BY <2>2, <3>1, <3>2
  <2>4. restore' \in {"none", "reading", "read"}
    BY <1>5 DEF ReadStored, RestoreTracking, Kill, Launch
  <2> QED BY <2>1, <2>3, <2>4 DEF Store, Goals
<1>6. CASE \/ \E c \in Calls, t \in Trips, by \in Screens \cup {Gone} : StartTracking(c, t, by)
           \/ \E c \in Calls : EndActivities(c) \/ Request(c) \/ CountFails(c) \/ StartFailed(c)
           \/ Tick \/ (\E s \in Stops : NoAnswer(s) \/ Answer(s)) \/ (\E u \in Trip : Update(u))
           \/ (\E a \in activities : Dismiss(a)) \/ (\E s \in Screens : Open(s) \/ Close(s))
           \/ UNCHANGED vars
  <2>1. UNCHANGED storage
    BY <1>6 DEF StartTracking, EndActivities, Request, CountFails, StartFailed, Tick, NoAnswer, Answer, Update,
           Dismiss, Open, Close, vars
  <2> QED BY <2>1 DEF storage, Store
<1> QED BY <1>2, <1>3, <1>4, <1>5, <1>6, Cases

LEMMA OutsideKeeps ==
    ASSUME Calls_OK, Js, Outside, [Next]_vars
    PROVE  Outside'
<1>1. ASSUME NEW c \in Calls, Request(c)
      PROVE  Outside'
  <2>1. call[c].trip \in Trips
    BY <1>1, TripOf DEF Request
  <2>2. [by |-> c, trip |-> call[c].trip, etas |-> None] \in Activity
    BY <2>1 DEF Activity
  <2> QED BY <1>1, <2>2 DEF Request, refresh, Outside
<1>2. ASSUME NEW c \in Calls,
             EndActivities(c) \/ CountFails(c) \/ StartFailed(c) \/ Stopped(c)
      PROVE  Outside'
  BY <1>2 DEF EndActivities, CountFails, StartFailed, Stopped, refresh, Outside
<1>3. ASSUME NEW c \in Calls, Started(c)
      PROVE  Outside'
  BY <1>3, TripOf DEF Started, Outside
<1>4. CASE Tick \/ \E s \in Stops : NoAnswer(s) \/ Answer(s)
  <2>1. trackedParams # None => trackedParams.route \in Routes /\ trackedParams.stop \in Stops
    BY LiveActivityAssumption DEF Js, Goals, Trip
  <2> QED BY <1>4, <2>1 DEF Tick, NoAnswer, Answer, Trip, Outside
<1>5. ASSUME NEW u \in Trip, Update(u)
      PROVE  Outside'
  <2>1. \A a \in Activity : [a EXCEPT !.etas = u] \in Activity
    BY DEF Activity
  <2>2. activities' \subseteq Activity
    BY <1>5, <2>1 DEF Update, Outside
  <2> QED BY <1>5, <2>2 DEF Update, Outside
<1>6. CASE (\E a \in activities : Dismiss(a)) \/ Kill
  BY <1>6 DEF Dismiss, Kill, refresh, Outside
<1>7. CASE \/ \E c \in Calls, t \in Trips, by \in Screens \cup {Gone} : StartTracking(c, t, by)
           \/ \E c \in Calls, by \in Screens : StopTracking(c, by)
           \/ \E s \in Screens : Open(s) \/ Close(s)
           \/ ReadStored \/ RestoreTracking \/ Write \/ StorageFails \/ Launch
           \/ UNCHANGED vars
  <2>1. UNCHANGED <<refresh, activities>>
    BY <1>7 DEF StartTracking, StopTracking, Open, Close, ReadStored, RestoreTracking, Write,
           StorageFails, Launch, vars
  <2> QED BY <2>1 DEF refresh, Outside
<1> QED BY <1>1, <1>2, <1>3, <1>4, <1>5, <1>6, <1>7, Cases

LEMMA NotesKeep ==
    ASSUME Calls_OK, Notes, [Next]_vars
    PROVE  Notes'
<1>1. ASSUME NEW c \in Calls, Started(c) \/ CountFails(c) \/ Stopped(c)
      PROVE  Notes'
  <2>1. clean' = (clean \/ call[c].alone) /\ UNCHANGED <<up, crossed, kills>>
    BY <1>1 DEF Started, CountFails, Stopped
  <2>2. clean' \in BOOLEAN
    BY <2>1
  <2>3. unstored' \in {FALSE, clean'}
    BY <1>1 DEF Started, CountFails, Stopped, Forget
  <2>4. unstored' \in BOOLEAN
    BY <2>2, <2>3
  <2> QED BY <2>1, <2>2, <2>4 DEF Notes
<1>2. ASSUME NEW c \in Calls, NEW k, Begin(c, k)
      PROVE  crossed' \subseteq Calls /\ clean' \in BOOLEAN /\ unstored' \in BOOLEAN
  BY <1>2 DEF Begin, Starting, InFlight, Notes
<1>3. ASSUME NEW c \in Calls, NEW t \in Trips, NEW by \in Screens \cup {Gone},
             StartTracking(c, t, by)
      PROVE  Notes'
  BY <1>2, <1>3 DEF StartTracking, Notes
<1>4. ASSUME NEW c \in Calls, NEW by \in Screens, StopTracking(c, by)
      PROVE  Notes'
  <2>1. crossed' \subseteq Calls /\ clean' \in BOOLEAN /\ unstored' \in BOOLEAN
    BY <1>2, <1>4 DEF StopTracking, Forget, Starting, InFlight, Notes
  <2> QED BY <1>4, <2>1 DEF StopTracking, Notes
<1>5. CASE Tick \/ Launch
  BY <1>5 DEF Tick, Launch, Starting, InFlight, history, Notes
<1>6. CASE Kill
  <2>1. MaxKills \in Nat
    BY LiveActivityAssumption
  <2>2. kills' \in 0..MaxKills
    BY <1>6, <2>1 DEF Kill, Notes
  <2>3. clean' \in BOOLEAN /\ unstored' \in BOOLEAN /\ up' \in BOOLEAN
    BY <1>6 DEF Kill
  <2> QED BY <1>6, <2>2, <2>3 DEF Kill, Notes
<1>7. CASE StorageFails
  <2>1. clean' \in BOOLEAN /\ unstored' \in BOOLEAN
    BY <1>7 DEF StorageFails, Notes
  <2> QED BY <1>7, <2>1 DEF StorageFails, Notes
<1>8. CASE \/ \E c \in Calls : EndActivities(c) \/ Request(c) \/ StartFailed(c)
           \/ (\E s \in Stops : NoAnswer(s) \/ Answer(s)) \/ (\E u \in Trip : Update(u))
           \/ (\E a \in activities : Dismiss(a)) \/ (\E s \in Screens : Open(s) \/ Close(s))
           \/ ReadStored \/ RestoreTracking \/ Write \/ UNCHANGED vars
  <2>1. UNCHANGED <<up, clean, unstored, crossed, kills>>
    BY <1>8 DEF EndActivities, Request, StartFailed, NoAnswer, Answer, Update, Dismiss, Open,
           Close, ReadStored, RestoreTracking, Write, history, vars
  <2> QED BY <2>1 DEF Notes
<1> QED BY <1>1, <1>3, <1>4, <1>5, <1>6, <1>7, <1>8, Cases

LEMMA TypesHold == Spec => []Types
<1>1. Init => Types
  <2> SUFFICES ASSUME Init PROVE Types
    OBVIOUS
  <2>1. Calls_OK /\ Keys
    BY DEF Init, Calls_OK, Keys
  <2>2. running = FALSE /\ refreshTimer = FALSE /\ trackedParams = None /\ timers = 0
    BY DEF Init
  <2>3. Js
    BY <2>2 DEF Js, Goals
  <2>4. Store /\ Outside
    BY DEF Init, Store, Outside, Goals
  <2>5. MaxKills \in Nat
    BY LiveActivityAssumption
  <2>6. up = TRUE /\ clean = TRUE /\ unstored = FALSE /\ crossed = {} /\ kills = 0
    BY DEF Init
  <2>7. kills \in 0..MaxKills /\ crossed \subseteq Calls
    BY <2>5, <2>6
  <2>8. up \in BOOLEAN /\ clean \in BOOLEAN /\ unstored \in BOOLEAN
    BY <2>6
  <2>9. Notes
    BY <2>7, <2>8 DEF Notes
  <2> QED BY <2>1, <2>3, <2>4, <2>9 DEF Types
<1>2. Types /\ [Next]_vars => Types'
  BY CallsKeep, JsKeep, KeysKeep, StoreKeeps, OutsideKeeps, NotesKeep DEF Types
<1> QED BY <1>1, <1>2, PTL DEF Spec

(* The state stays well typed, and running says whether trackedParams is
   set, in every interleaving of starts, stops, a restore and a kill. *)
THEOREM TypeCorrect == Spec => []TypeOK
<1>1. Types => TypeOK
  <2> SUFFICES ASSUME Types PROVE TypeOK
    OBVIOUS
  <2>1. /\ call \in [Calls -> CallType \cup {Idle}]
        /\ trackedKey \in [Screens -> Trips \cup {None, Closed}] /\ stale \subseteq Screens
    BY DEF Types, Calls_OK, Keys, Goals
  <2> QED BY <2>1 DEF Types, Js, Store, Outside, Notes, Goals, TypeOK
<1> QED BY <1>1, TypesHold, PTL
-----------------------------------------------------------------------------
(* The buttons *)

(* An open screen that no change went behind has the tracked trip. *)
Told == \A s \in Screens : trackedKey[s] # Closed /\ s \notin stale => trackedKey[s] = trackedParams

LEMMA ToldKeeps ==
    ASSUME Types, Told, [Next]_vars
    PROVE  Told'
<1>1. ASSUME NEW by, NEW t \in Goals, SetKey(by, t), Behind(by), trackedParams' = t
      PROVE  Told'
  <2> SUFFICES ASSUME NEW s \in Screens, trackedKey'[s] # Closed, s \notin stale'
               PROVE  trackedKey'[s] = trackedParams'
    BY DEF Told
  <2>1. CASE s = by
    BY <1>1, <2>1 DEF SetKey, Types, Keys
  <2>2. CASE s # by
    <3>1. trackedKey'[s] = trackedKey[s]
      BY <1>1, <2>2 DEF SetKey, Types, Keys
    <3>2. s \in stale'
      BY <1>1, <2>2, <3>1 DEF Behind
    <3> QED BY <3>2
  <2> QED BY <2>1, <2>2
<1>2. ASSUME NEW c \in Calls, Started(c) \/ Stopped(c)
      PROVE  Told'
  <2>1. \E t \in Goals : SetKey(call[c].by, t) /\ Behind(call[c].by) /\ trackedParams' = t
    BY <1>2, TripOf DEF Started, Stopped, Forget, Goals, Types
  <2> QED BY <1>1, <2>1
<1>3. ASSUME NEW c \in Calls, NEW by \in Screens, StopTracking(c, by)
      PROVE  Told'
  <2>1. CASE Forget(by)
    BY <1>1, <2>1 DEF Forget, Goals
  <2>2. CASE UNCHANGED <<trackedKey, stale, trackedParams>>
    BY <2>2 DEF Told
  <2> QED BY <1>3, <2>1, <2>2 DEF StopTracking
<1>4. ASSUME NEW s \in Screens, Open(s) \/ Close(s)
      PROVE  Told'
  BY <1>4 DEF Open, Close, js, Told, Types, Keys
<1>5. CASE RestoreTracking
  <2>1. UNCHANGED <<trackedKey, stale, trackedParams>> \/ (Behind(Gone) /\ trackedKey' = trackedKey)
    BY <1>5 DEF RestoreTracking
  <2>2. CASE UNCHANGED <<trackedKey, stale, trackedParams>>
    BY <2>2 DEF Told
  <2>3. CASE Behind(Gone) /\ trackedKey' = trackedKey
    BY <2>3, NoneAssumption DEF Behind, Told
  <2> QED BY <2>1, <2>2, <2>3
<1>6. CASE Kill
  BY <1>6 DEF Kill, Told
<1>8. CASE \E c \in Calls : CountFails(c)
  <2>1. Behind(Gone) /\ trackedKey' = trackedKey
    BY <1>8 DEF CountFails
  <2> QED BY <2>1, NoneAssumption DEF Behind, Told
<1>7. CASE \/ \E c \in Calls, t \in Trips, by \in Screens \cup {Gone} : StartTracking(c, t, by)
           \/ \E c \in Calls : EndActivities(c) \/ Request(c) \/ StartFailed(c)
           \/ Tick \/ (\E s \in Stops : NoAnswer(s) \/ Answer(s)) \/ (\E u \in Trip : Update(u))
           \/ (\E a \in activities : Dismiss(a))
           \/ ReadStored \/ Write \/ StorageFails \/ Launch \/ UNCHANGED vars
  <2>1. UNCHANGED <<trackedKey, stale, trackedParams>>
    BY <1>7 DEF StartTracking, EndActivities, Request, StartFailed, Tick, NoAnswer, Answer, Update,
           Dismiss, ReadStored, Write, StorageFails, Launch, js, history, vars
  <2> QED BY <2>1 DEF Told
<1> QED BY <1>2, <1>3, <1>4, <1>5, <1>6, <1>7, <1>8, Cases

(* The button of a screen says the truth until tracking changes from
   elsewhere, or by a start whose count fails (route.tsx copies trackedParams
   when it is mounted and sets its copy when startTracking returns true). *)
THEOREM ButtonIsHonest == Spec => []ButtonTellsTruth
<1>1. Init => Told
  BY DEF Init, Told
<1>2. Types /\ Told /\ [Next]_vars => Told'
  BY ToldKeeps
<1>3. Told => ButtonTellsTruth
  BY DEF Told, ButtonTellsTruth, IsTracked
<1> QED BY <1>1, <1>2, <1>3, TypesHold, PTL DEF Spec
-----------------------------------------------------------------------------
(* What iOS shows, what is tracked and what is stored *)

LEMMA Stores ==
    ASSUME Store, NEW t \in Goals, writes' = Append(writes, t)
    PROVE  LastWrite' = t
<1>1. writes \in Seq(Goals)
  BY DEF Store
<1>2. /\ writes' # <<>> /\ Len(writes') = Len(writes) + 1
      /\ writes'[Len(writes) + 1] = t
  BY <1>1
<1> QED BY <1>2 DEF LastWrite

LEMMA Writes ==
    ASSUME Store, writes # <<>>, writes' = Tail(writes),
           stored' = Head(writes) \/ Len(writes) # 1
    PROVE  LastWrite' = LastWrite
<1>1. writes \in Seq(Goals) /\ writes # <<>> /\ writes' = Tail(writes)
  BY DEF Store
<1>2. Len(writes) \in Nat \ {0}
  BY <1>1
<1>3. CASE Len(writes) = 1
  <2>1. writes' = <<>> /\ stored' = writes[1]
    BY <1>1, <1>3
  <2> QED BY <1>1, <1>3, <2>1 DEF LastWrite
<1>4. CASE Len(writes) # 1
  <2>1. /\ Len(writes') = Len(writes) - 1 /\ writes' # <<>>
        /\ writes'[Len(writes) - 1] = writes[Len(writes)]
    <3>1. Len(writes) >= 2 /\ Len(writes') = Len(writes) - 1
      <4>1. Len(writes') = Len(writes) - 1
        BY <1>1
      <4>2. Len(writes) >= 2
        BY <1>2, <1>4
      <4> QED BY <4>1, <4>2
    <3>2. \A i \in 1..Len(writes') : writes'[i] = writes[i + 1]
      BY <1>1
    <3>3. Len(writes) - 1 \in 1..Len(writes') /\ (Len(writes) - 1) + 1 = Len(writes)
      BY <1>2, <3>1
    <3>4. writes' # <<>>
      <4>1. Len(<<>>) = 0 /\ Len(writes') # 0
        BY <1>2, <3>1
      <4> QED BY <4>1
    <3> QED BY <3>1, <3>2, <3>3, <3>4
  <2> QED BY <1>1, <2>1 DEF LastWrite
<1> QED BY <1>3, <1>4

(* What tracking last changed to, stored or not. *)
Held == IF unstored THEN trackedParams ELSE LastWrite

Same == \A a, b \in activities : a = b
Shows(t) == \A a \in activities : a.trip = t

(* A call that began alone and met no other. *)
Sole ==
    /\ \A c \in InFlight : call[c].alone => InFlight = {c} /\ up /\ restore = "none"
    /\ clean => \A c \in InFlight : call[c].alone

(* What it has done so far. *)
Done ==
    \A c \in InFlight : call[c].alone =>
        /\ call[c].step \in {"requesting", "failed", "ended"} => activities = {}
        /\ call[c].step = "started" => Same /\ Shows(call[c].trip)

Agreed ==
    clean =>
        /\ (\A c \in InFlight : call[c].step # "started") => Same /\ Shows(Held)
        /\ up /\ restore = "none" => trackedParams = Held
        /\ ~up \/ restore # "none" =>
              /\ InFlight = {} /\ writes = <<>> /\ trackedParams = None /\ ~unstored
              /\ restore = "read" => found = stored

Quiet == Sole /\ Done /\ Agreed

(* A call begins, which what the user sees does not show yet. *)
LEMMA BeginKeeps ==
    ASSUME Types, Quiet, NEW c \in Calls, NEW k \in CallType, Begin(c, k),
           k.alone = Alone, k.step = "ending", up,
           UNCHANGED <<up, trackedParams, storage, activities>>
    PROVE  Quiet'
<1>1. /\ call[c] = Idle /\ call' = [Others EXCEPT ![c] = k] /\ clean' = (clean /\ Alone)
      /\ k # Idle /\ unstored' = (unstored /\ clean')
  BY CallMeans DEF Begin
<1>2. /\ UNCHANGED <<stored, writes, restore, found>>
      /\ clean' => unstored' = unstored /\ Held' = Held
  <2>1. UNCHANGED <<stored, writes, restore, found>> /\ LastWrite' = LastWrite
    BY DEF storage, LastWrite
  <2>2. clean' => unstored' = unstored
    BY <1>1 DEF Types, Notes
  <2> QED BY <2>1, <2>2 DEF Held
<1>3. InFlight' = InFlight \cup {c} /\ call'[c] = k
  <2>1. \A d \in InFlight : call[d] \in CallType
    BY DEF Types, Calls_OK, InFlight
  <2>2. \A d \in InFlight : [call[d] EXCEPT !.alone = FALSE] # Idle
    BY <2>1, CallMeans, CallChanges
  <2> QED BY <1>1, <2>2 DEF InFlight, Others
<1>4. CASE Alone
  <2>1. InFlight' = {c} /\ restore = "none" /\ k.alone
    BY <1>3, <1>4 DEF Alone
  <2> QED BY <1>1, <1>2, <1>3, <1>4, <2>1 DEF Quiet, Sole, Done, Agreed, Same, Shows, Alone
<1>5. CASE ~Alone
  <2>1. ~clean' /\ ~k.alone
    BY <1>1, <1>5
  <2>2. \A d \in InFlight' : ~call'[d].alone
    <3>1. \A d \in InFlight \ {c} : call'[d] = [call[d] EXCEPT !.alone = FALSE]
      BY <1>1 DEF InFlight, Others
    <3>2. \A d \in InFlight : call[d] \in CallType
      BY DEF Types, Calls_OK, InFlight
    <3>3. \A x \in CallType : [x EXCEPT !.alone = FALSE].alone = FALSE
      BY DEF CallType
    <3> QED BY <1>3, <2>1, <3>1, <3>2, <3>3, ZenonT(60)
  <2> QED BY <2>1, <2>2 DEF Quiet, Sole, Done, Agreed
<1> QED BY <1>4, <1>5
LEMMA StopKeeps ==
    ASSUME Types, Quiet, NEW c \in Calls, NEW by \in Screens, StopTracking(c, by)
    PROVE  Quiet'
<1>1. CASE running
  <2> DEFINE k == Call("stop", "ending", None, by, Alone)
  <2>1. k \in CallType /\ k.alone = Alone /\ k.step = "ending"
    BY NewCalls DEF Alone, Call
  <2>2. up /\ Begin(c, k) /\ UNCHANGED <<up, trackedParams, storage, activities>>
    BY <1>1 DEF StopTracking
  <2> HIDE DEF k
  <2> QED BY <2>1, <2>2, BeginKeeps
<1>2. CASE ~running
  <2>1. /\ Forget(by) /\ call' = Others /\ clean' = (clean /\ Alone) /\ up
        /\ UNCHANGED <<up, activities>>
    BY <1>2 DEF StopTracking
  <2>2. /\ Held' = None /\ trackedParams' = None /\ UNCHANGED <<stored, restore, found>>
    BY <2>1, Stores DEF Forget, Goals, Types, Held
  <2>3. \A d \in InFlight : call'[d] = [call[d] EXCEPT !.alone = FALSE]
    BY <2>1 DEF Others, InFlight
  <2>4. \A d \in Calls \ InFlight : call'[d] = Idle
    BY <2>1 DEF Others
  <2>5. \A d \in InFlight' : d \in InFlight /\ ~call'[d].alone
    <3>1. \A d \in InFlight : call[d] \in CallType
      BY DEF Types, Calls_OK, InFlight
    <3>2. \A x \in CallType : [x EXCEPT !.alone = FALSE].alone = FALSE
      BY DEF CallType
    <3> QED BY <2>3, <2>4, <3>1, <3>2 DEF InFlight
  <2>6. ASSUME clean'
        PROVE  InFlight' = {} /\ activities = {} /\ restore = "none"
    <3>1. clean /\ InFlight = {} /\ restore = "none"
      BY <2>1, <2>6 DEF Alone
    <3>2. Shows(Held) /\ Held = None
      BY <1>2, <2>1, <3>1 DEF Quiet, Agreed, Types, Js
    <3>3. \A a \in activities : a.trip \in Trips
      BY DEF Types, Outside, Activity
    <3> QED BY <2>5, <3>1, <3>2, <3>3, NoneIsNoTrip DEF Shows
  <2>7. Sole' /\ Done'
    BY <2>5, <2>6 DEF Sole, Done
  <2>8. Agreed'
    BY <2>1, <2>2, <2>6 DEF Agreed, Same, Shows
  <2> QED BY <2>7, <2>8 DEF Quiet
<1> QED BY <1>1, <1>2

(* A call goes on: it is the only one that could be alone. *)
LEMMA StepOf ==
    ASSUME Types, NEW c \in Calls, call[c] # Idle, NEW s, Step(c, s)
    PROVE  /\ InFlight' = InFlight /\ c \in InFlight
           /\ \A d \in InFlight : call'[d].alone = call[d].alone /\ call'[d].trip = call[d].trip
           /\ \A d \in InFlight \ {c} : call'[d].step = call[d].step
           /\ call'[c].step = s
<1>1. \A d \in Calls : call'[d] = IF d = c THEN [call[c] EXCEPT !.step = s] ELSE call[d]
  BY DEF Step, Types, Calls_OK
<1>2. call[c] \in CallType
  BY DEF Types, Calls_OK
<1>3. LET x == [call[c] EXCEPT !.step = s]
      IN  /\ x.step = s /\ x.alone = call[c].alone /\ x.trip = call[c].trip
          /\ x.op = call[c].op
  BY <1>2 DEF CallType
<1>4. [call[c] EXCEPT !.step = s] # Idle
  BY <1>2 DEF CallType, Idle
<1> QED BY <1>1, <1>3, <1>4 DEF InFlight

LEMMA IosKeeps ==
    ASSUME Types, Quiet, NEW c \in Calls, EndActivities(c) \/ Request(c)
    PROVE  Quiet'
<1>1. /\ call[c] # Idle /\ \E s : Step(c, s)
      /\ UNCHANGED <<up, trackedParams, stored, writes, restore, found, clean, unstored>>
      /\ Held' = Held
  BY DEF EndActivities, Request, js, storage, history, LastWrite, Held
<1>2. PICK s : Step(c, s)
  BY <1>1
<1>3. /\ InFlight' = InFlight /\ c \in InFlight
      /\ \A d \in InFlight : call'[d].alone = call[d].alone /\ call'[d].trip = call[d].trip
      /\ \A d \in InFlight \ {c} : call'[d].step = call[d].step
      /\ call'[c].step = s
  BY <1>1, <1>2, StepOf
<1>4. Sole'
  BY <1>1, <1>3 DEF Quiet, Sole
<1>5. \A d \in InFlight : call[d].alone => d = c
  BY <1>3 DEF Quiet, Sole
<1>6. CASE EndActivities(c)
  <2>1. activities' = {} /\ s # "started"
    <3>1. call'[c].step \in {"requesting", "ended"}
      BY <1>6, StepOf DEF EndActivities
    <3> QED BY <1>3, <1>6, <3>1 DEF EndActivities
  <2>2. Done'
    BY <1>3, <1>5, <2>1 DEF Done, Same, Shows
  <2>3. Agreed'
    BY <1>1, <1>3, <2>1 DEF Quiet, Agreed, Same, Shows
  <2> QED BY <1>4, <2>2, <2>3 DEF Quiet
<1>7. CASE Request(c)
  <2>1. \/ /\ call'[c].step = "started"
           /\ activities' = activities \cup {[by |-> c, trip |-> call[c].trip, etas |-> None]}
        \/ call'[c].step = "failed" /\ activities' = activities
    BY <1>7, StepOf DEF Request
  <2>2. call[c].alone => activities = {}
    BY <1>3, <1>7 DEF Request, Quiet, Done
  <2>3. Done'
    BY <1>3, <1>5, <2>1, <2>2 DEF Done, Same, Shows
  <2>4. Agreed'
    <3>1. clean => call[c].alone
      BY <1>3 DEF Quiet, Sole
    <3> QED BY <1>1, <1>3, <2>1, <2>2, <3>1 DEF Quiet, Agreed, Same, Shows
  <2> QED BY <1>4, <2>3, <2>4 DEF Quiet
<1> QED BY <1>6, <1>7

LEMMA EndKeeps ==
    ASSUME Types, Quiet, NEW c \in Calls,
           Started(c) \/ CountFails(c) \/ StartFailed(c) \/ Stopped(c)
    PROVE  Quiet'
<1>1. /\ call[c] # Idle /\ call' = [call EXCEPT ![c] = Idle]
      /\ UNCHANGED <<up, restore, activities>>
  BY DEF Started, CountFails, StartFailed, Stopped, Forget, storage
<1>2. /\ c \in InFlight /\ InFlight' = InFlight \ {c}
      /\ \A d \in InFlight' : call'[d] = call[d]
  BY <1>1 DEF InFlight, Types, Calls_OK
<1>3. ASSUME ~call[c].alone
      PROVE  /\ \A d \in InFlight : ~call[d].alone
             /\ ~clean
  <2>1. \A d \in InFlight : call[d].alone => c = d
    BY <1>2 DEF Quiet, Sole
  <2> QED BY <1>2, <1>3, <2>1 DEF Quiet, Sole
<1>4. CASE call[c].alone
  <2>1. InFlight = {c} /\ InFlight' = {} /\ up /\ restore = "none"
    BY <1>2, <1>4 DEF Quiet, Sole
  <2>2. Sole' /\ Done'
    BY <2>1 DEF Sole, Done
  <2>3. clean' => trackedParams' = Held' /\ Same /\ Shows(Held')
    <3>1. CASE Started(c)
      <4>1. Held' = call[c].trip /\ trackedParams' = call[c].trip
        BY <3>1, Stores, TripOf DEF Started, Types, Goals, Held
      <4>2. Same /\ Shows(call[c].trip)
        BY <1>2, <1>4, <3>1 DEF Started, Quiet, Done
      <4> QED BY <4>1, <4>2
    <3>4. CASE CountFails(c)
      <4>1. trackedParams' = call[c].trip /\ unstored' = clean'
        BY <3>4 DEF CountFails
      <4>2. Same /\ Shows(call[c].trip)
        BY <1>2, <1>4, <3>4 DEF CountFails, Quiet, Done
      <4> QED BY <4>1, <4>2 DEF Held
    <3>2. CASE Stopped(c)
      <4>1. Held' = None /\ trackedParams' = None
        BY <3>2, Stores DEF Stopped, Forget, Types, Goals, Held
      <4>2. activities = {}
        BY <1>2, <1>4, <3>2 DEF Stopped, Quiet, Done
      <4> QED BY <4>1, <4>2 DEF Same, Shows
    <3>3. CASE StartFailed(c)
      <4>1. UNCHANGED <<clean, trackedParams, stored, writes>> /\ Held' = Held
        BY <3>3 DEF StartFailed, history, js, storage, LastWrite, Held
      <4>2. activities = {}
        BY <1>2, <1>4, <3>3 DEF StartFailed, Quiet, Done
      <4>3. clean => trackedParams = Held
        BY <2>1 DEF Quiet, Agreed
      <4> QED BY <4>1, <4>2, <4>3 DEF Same, Shows
    <3> QED BY <3>1, <3>2, <3>3, <3>4
  <2>4. Agreed'
    BY <1>1, <2>1, <2>3 DEF Agreed, Same, Shows
  <2> QED BY <2>2, <2>4 DEF Quiet
<1>5. CASE ~call[c].alone
  <2>1. ~clean /\ \A d \in InFlight' : ~call'[d].alone
    BY <1>2, <1>3, <1>5
  <2>2. ~clean'
    BY <1>5, <2>1 DEF Started, CountFails, StartFailed, Stopped, history
  <2> QED BY <2>1, <2>2 DEF Quiet, Sole, Done, Agreed
<1> QED BY <1>4, <1>5

LEMMA ShownKeeps ==
    ASSUME Types, Quiet, (\E u \in Trip : Update(u)) \/ (\E a \in activities : Dismiss(a))
    PROVE  Quiet'
<1>1. /\ UNCHANGED <<up, trackedParams, call, stored, writes, restore, found, clean, unstored>>
      /\ InFlight' = InFlight /\ Held' = Held
  BY DEF Update, Dismiss, js, storage, history, InFlight, LastWrite, Held
<1>2. /\ activities = {} => activities' = {}
      /\ Same => Same'
      /\ \A t \in Goals : Shows(t) => \A a \in activities' : a.trip = t
  <2>1. ASSUME NEW u \in Trip, Update(u)
        PROVE  /\ activities = {} => activities' = {}
               /\ Same => Same'
               /\ \A t \in Goals : Shows(t) => \A a \in activities' : a.trip = t
    <3>1. CASE activities' = activities
      BY <3>1 DEF Same, Shows
    <3>2. CASE activities' # activities
      <4>1. PICK a \in activities : activities' = (activities \ {a}) \cup {[a EXCEPT !.etas = u]}
        BY <2>1, <3>2 DEF Update
      <4>2. [a EXCEPT !.etas = u].trip = a.trip
        BY DEF Types, Outside, Activity
      <4> QED BY <4>1, <4>2 DEF Same, Shows
    <3> QED BY <3>1, <3>2
  <2>2. ASSUME NEW a \in activities, Dismiss(a)
        PROVE  activities' \subseteq activities
    BY <2>2 DEF Dismiss
  <2> QED BY <2>1, <2>2 DEF Same, Shows
<1>3. Sole'
  BY <1>1 DEF Quiet, Sole
<1>4. Done'
  <2> SUFFICES ASSUME NEW c \in InFlight, call[c].alone
               PROVE  /\ call[c].step \in {"requesting", "failed", "ended"} => activities' = {}
                      /\ call[c].step = "started" => Same' /\ \A a \in activities' : a.trip = call[c].trip
    BY <1>1 DEF Done, Shows
  <2>1. call[c].step = "started" => call[c].trip \in Goals
    BY TripOf DEF Types, InFlight, Goals
  <2> QED BY <1>2, <2>1 DEF Quiet, Done
<1>5. Agreed'
  <2>1. Held \in Goals
    <3>1. writes \in Seq(Goals) /\ stored \in Goals /\ trackedParams \in Goals
      BY DEF Types, Store, Js
    <3>2. writes # <<>> => writes[Len(writes)] \in Goals
      BY <3>1
    <3> QED BY <3>1, <3>2 DEF LastWrite, Held
  <2> QED BY <1>1, <1>2, <2>1 DEF Quiet, Agreed, Shows
<1> QED BY <1>3, <1>4, <1>5 DEF Quiet

LEMMA StorageKeeps ==
    ASSUME Types, Quiet,
           ReadStored \/ RestoreTracking \/ Write \/ StorageFails \/ Kill \/ Launch
    PROVE  Quiet'
<1>1. CASE ReadStored
  <2>1. /\ UNCHANGED <<up, trackedParams, call, stored, writes, activities, clean, unstored>>
        /\ restore = "reading" /\ restore' = "read" /\ found' = stored /\ up
    BY <1>1 DEF ReadStored, js, history
  <2>2. InFlight' = InFlight /\ Held' = Held
    BY <2>1 DEF InFlight, LastWrite, Held
  <2> QED BY <2>1, <2>2 DEF Quiet, Sole, Done, Agreed, Same, Shows
<1>2. CASE RestoreTracking
  <2>1. /\ UNCHANGED <<up, call, stored, writes, activities, clean, unstored>>
        /\ restore = "read" /\ restore' = "none" /\ up
        /\ (found = None /\ UNCHANGED <<running, trackedParams>>)
            \/ (found # None /\ trackedParams' = found)
    BY <1>2 DEF RestoreTracking
  <2>2. InFlight' = InFlight /\ LastWrite' = LastWrite
    BY <2>1 DEF InFlight, LastWrite
  <2>3. clean => ~unstored /\ trackedParams' = LastWrite
    <3> SUFFICES ASSUME clean PROVE ~unstored /\ trackedParams' = LastWrite
      OBVIOUS
    <3>1. /\ writes = <<>> /\ found = stored /\ LastWrite = stored
          /\ trackedParams = None /\ ~unstored
      BY <2>1 DEF Quiet, Agreed, LastWrite
    <3>2. CASE found = None
      BY <2>1, <3>1, <3>2
    <3>3. CASE found # None
      BY <2>1, <3>1, <3>3
    <3> QED BY <3>2, <3>3
  <2>4. clean => Held' = LastWrite /\ Held = LastWrite
    BY <2>1, <2>2, <2>3 DEF Held
  <2> QED BY <2>1, <2>2, <2>3, <2>4 DEF Quiet, Sole, Done, Agreed, Same, Shows
<1>3. CASE Write
  <2>1. /\ UNCHANGED <<up, trackedParams, call, restore, found, activities, clean, unstored>>
        /\ up /\ restore # "reading" /\ writes # <<>>
    BY <1>3 DEF Write, js, history
  <2>2. InFlight' = InFlight /\ Held' = Held
    BY <1>3, <2>1, Writes DEF InFlight, Types, Write, Held
  <2>3. clean => restore = "none"
    BY <2>1 DEF Quiet, Agreed
  <2> QED BY <2>1, <2>2, <2>3 DEF Quiet, Sole, Done, Agreed, Same, Shows
<1>6. CASE StorageFails
  <2>1. UNCHANGED <<up, trackedParams, call, stored, found, activities>> /\ up
    BY <1>6 DEF StorageFails, js
  <2>2. InFlight' = InFlight
    BY <2>1 DEF InFlight
  <2>3. CASE restore = "reading"
    <3>1. ~clean' /\ \A c \in InFlight : ~call[c].alone
      BY <1>6, <2>3 DEF StorageFails, Quiet, Sole
    <3> QED BY <2>1, <2>2, <3>1 DEF Quiet, Sole, Done, Agreed
  <2>4. CASE restore # "reading"
    <3>1. /\ writes # <<>> /\ writes' = Tail(writes) /\ UNCHANGED <<restore, clean>>
          /\ unstored' = (clean /\ (unstored \/ Len(writes) = 1))
      BY <1>6, <2>4 DEF StorageFails
    <3>2. clean => restore = "none" /\ trackedParams = Held
      BY <2>1, <3>1 DEF Quiet, Agreed
    <3>3. clean => Held' = Held
      <4>1. CASE Len(writes) = 1
        BY <2>1, <3>1, <3>2, <4>1 DEF Held
      <4>2. CASE Len(writes) # 1
        <5>1. LastWrite' = LastWrite
          BY <3>1, <4>2, Writes DEF Types
        <5> QED BY <2>1, <3>1, <4>2, <5>1 DEF Held, Types, Notes
      <4> QED BY <4>1, <4>2
    <3> QED BY <2>1, <2>2, <3>1, <3>2, <3>3 DEF Quiet, Sole, Done, Agreed, Same, Shows
  <2> QED BY <2>3, <2>4
<1>4. CASE Kill
  <2>1. /\ up' = FALSE /\ InFlight' = {} /\ writes' = <<>> /\ restore' = "none"
        /\ trackedParams' = None /\ unstored' = FALSE
        /\ UNCHANGED <<stored, activities>>
        /\ clean' = (clean /\ InFlight = {} /\ writes = <<>> /\ ~unstored)
    BY <1>4 DEF Kill, InFlight
  <2>2. clean' => Same /\ Shows(Held') /\ Held' = stored
    BY <2>1 DEF Quiet, Agreed, LastWrite, Held
  <2> QED BY <2>1, <2>2 DEF Quiet, Sole, Done, Agreed, Same, Shows
<1>5. CASE Launch
  <2>1. /\ UNCHANGED <<trackedParams, call, stored, writes, found, activities, clean, unstored>>
        /\ ~up /\ up' = TRUE /\ restore' = "reading"
    BY <1>5 DEF Launch, js, history
  <2>2. InFlight' = InFlight /\ Held' = Held
    BY <2>1 DEF InFlight, LastWrite, Held
  <2>3. \A c \in InFlight : ~call[c].alone
    BY <2>1 DEF Quiet, Sole
  <2> QED BY <2>1, <2>2, <2>3 DEF Quiet, Sole, Done, Agreed, Same, Shows
<1> QED BY <1>1, <1>2, <1>3, <1>4, <1>5, <1>6

LEMMA OthersKeep ==
    ASSUME Types, Quiet,
           \/ Tick \/ (\E s \in Stops : NoAnswer(s) \/ Answer(s))
           \/ (\E s \in Screens : Open(s) \/ Close(s)) \/ UNCHANGED vars
    PROVE  Quiet'
<1>1. /\ UNCHANGED <<up, trackedParams, stored, writes, restore, found, clean, unstored,
                      activities>>
      /\ Held' = Held
  BY DEF Tick, NoAnswer, Answer, Open, Close, vars, js, storage, history, LastWrite, Held
<1>2. /\ InFlight' = InFlight
      /\ \A c \in InFlight : /\ call'[c].alone = call[c].alone
                             /\ call'[c].step = call[c].step
                             /\ call'[c].trip = call[c].trip
  <2>1. CASE call' = call
    BY <2>1 DEF InFlight
  <2>2. CASE call' # call
    <3>1. PICK s \in Screens : Close(s)
      BY <2>2 DEF Tick, NoAnswer, Answer, Open, vars
    <3>2. \A c \in InFlight : call[c] \in CallType
      BY DEF Types, Calls_OK, InFlight
    <3>3. \A x \in CallType : LET y == [x EXCEPT !.by = Gone]
                             IN  /\ y.alone = x.alone /\ y.step = x.step /\ y.trip = x.trip
                                 /\ y # Idle
      BY DEF CallType, Idle
    <3>4. \A c \in Calls : call'[c] = IF c \in InFlight /\ call[c].by = s
                                     THEN [call[c] EXCEPT !.by = Gone] ELSE call[c]
      BY <3>1 DEF Close
    <3> QED BY <3>2, <3>3, <3>4 DEF InFlight
  <2> QED BY <2>1, <2>2
<1> QED BY <1>1, <1>2 DEF Quiet, Sole, Done, Agreed, Same, Shows

LEMMA QuietKeeps ==
    ASSUME Types, Quiet, [Next]_vars
    PROVE  Quiet'
<1>1. ASSUME NEW c \in Calls, NEW t \in Trips, NEW by \in Screens \cup {Gone},
             StartTracking(c, t, by)
      PROVE  Quiet'
  <2> DEFINE k == Call("start", "ending", t, by, Alone)
  <2>1. k \in CallType /\ k.alone = Alone /\ k.step = "ending"
    BY NewCalls DEF Alone, Call, Callers
  <2>2. up /\ Begin(c, k) /\ UNCHANGED <<up, trackedParams, storage, activities>>
    BY <1>1 DEF StartTracking, js
  <2> HIDE DEF k
  <2> QED BY <2>1, <2>2, BeginKeeps
<1> QED BY <1>1, StopKeeps, IosKeeps, EndKeeps, ShownKeeps, StorageKeeps, OthersKeep, Cases

(* Between calls iOS shows what the app tracks and what a restart would
   restore, for any number of calls, screens, kills and failures of storage
   and, but for the stored copy, of the tracking count (startTracking,
   stopTracking and restoreTracking of live-activity.ts). *)
THEOREM QuietIsTracked == Spec => []QuietMeansTracked
<1>1. Init => Quiet
  <2> SUFFICES ASSUME Init PROVE Quiet
    OBVIOUS
  <2>1. InFlight = {} /\ LastWrite = None
    BY DEF Init, InFlight, LastWrite
  <2> QED BY <2>1 DEF Init, Quiet, Sole, Done, Agreed, Same, Shows, Held
<1>2. Types /\ Quiet /\ [Next]_vars => Quiet'
  BY QuietKeeps
<1>3. Types /\ Quiet => QuietMeansTracked
  <2> SUFFICES ASSUME Types, Quiet, clean, up, InFlight = {}, restore = "none"
               PROVE  /\ unstored \/ LastWrite = trackedParams
                      /\ \A a \in activities : running /\ a.trip = trackedParams
                      /\ Cardinality(activities) <= 1
    BY DEF QuietMeansTracked
  <2>1. Held = trackedParams /\ Same /\ Shows(Held)
    BY DEF Quiet, Agreed
  <2>6. unstored \/ LastWrite = trackedParams
    BY <2>1 DEF Held
  <2>2. \A a \in activities : a.trip \in Trips
    BY DEF Types, Outside, Activity
  <2>3. \A a \in activities : running /\ a.trip = trackedParams
    BY <2>1, <2>2, NoneIsNoTrip DEF Shows, Types, Js
  <2>4. activities = {} \/ \E a \in activities : activities = {a}
    BY <2>1 DEF Same
  <2>5. Cardinality(activities) <= 1
    <3>1. Cardinality(activities) = 0 \/ Cardinality(activities) = 1
      BY <2>4, FS_EmptySet, FS_Singleton
    <3> QED BY <3>1
  <2> QED BY <2>3, <2>5, <2>6
<1> QED BY <1>1, <1>2, <1>3, TypesHold, PTL DEF Spec
-----------------------------------------------------------------------------
(* Whose arrivals an activity shows *)

(* What of the calls the rest goes by, and how the calls change. *)
Goes(d) == /\ call'[d].op = call[d].op
           /\ call'[d].step = call[d].step
           /\ call'[d].trip = call[d].trip

LEMMA StartMeans ==
    ASSUME Types, NEW c \in Calls, call[c] # Idle
    PROVE  /\ c \in InFlight
           /\ call[c].step \in {"requesting", "started", "failed"} => c \in Starting
           /\ call[c].step = "ended" => c \notin Starting
BY TripOf, CallMeans DEF Types, InFlight, Starting

LEMMA OthersFlow ==
    ASSUME Types
    PROVE  \A d \in InFlight : /\ Others[d] # Idle
                               /\ Others[d].op = call[d].op
                               /\ Others[d].step = call[d].step
                               /\ Others[d].trip = call[d].trip
<1>1. \A d \in InFlight : call[d] \in CallType
  BY DEF Types, Calls_OK, InFlight
<1>2. \A x \in CallType : LET y == [x EXCEPT !.alone = FALSE]
                         IN  /\ y # Idle /\ y.op = x.op /\ y.step = x.step /\ y.trip = x.trip
  BY DEF CallType, Idle
<1> SUFFICES ASSUME NEW d \in InFlight
             PROVE  /\ Others[d] # Idle
                    /\ Others[d].op = call[d].op
                    /\ Others[d].step = call[d].step
                    /\ Others[d].trip = call[d].trip
  OBVIOUS
<1>3. Others[d] = [call[d] EXCEPT !.alone = FALSE]
  BY DEF Others, InFlight
<1> QED BY <1>1, <1>2, <1>3

LEMMA BeginFlow ==
    ASSUME Types, NEW c \in Calls, NEW k \in CallType, Begin(c, k)
    PROVE  /\ InFlight' = InFlight \cup {c} /\ c \notin InFlight /\ call'[c] = k
           /\ \A d \in InFlight : Goes(d)
           /\ Starting' = IF k.op = "start" THEN Starting \cup {c} ELSE Starting
<1>1. call[c] = Idle /\ call' = [Others EXCEPT ![c] = k] /\ k # Idle
  BY CallMeans DEF Begin
<1>2. c \notin InFlight /\ call'[c] = k
  BY <1>1 DEF InFlight, Others
<1>3. \A d \in Calls \ {c} : call'[d] = Others[d]
  BY <1>1 DEF Others
<1>4. \A d \in Calls \ InFlight : Others[d] = Idle
  BY DEF Others
<1>5. InFlight' = InFlight \cup {c}
  BY <1>1, <1>2, <1>3, <1>4, OthersFlow DEF InFlight
<1>6. \A d \in InFlight : Goes(d)
  BY <1>2, <1>3, OthersFlow DEF Goes, InFlight
<1> QED BY <1>2, <1>5, <1>6 DEF Starting, Goes

LEMMA StepFlow ==
    ASSUME Types, NEW c \in Calls, call[c] # Idle, NEW s, Step(c, s)
    PROVE  /\ InFlight' = InFlight /\ Starting' = Starting
           /\ \A d \in InFlight \ {c} : Goes(d)
           /\ call'[c].op = call[c].op /\ call'[c].step = s /\ call'[c].trip = call[c].trip
<1>1. \A d \in Calls : call'[d] = IF d = c THEN [call[c] EXCEPT !.step = s] ELSE call[d]
  BY DEF Step, Types, Calls_OK
<1>2. call[c] \in CallType
  BY DEF Types, Calls_OK
<1>3. LET x == [call[c] EXCEPT !.step = s]
      IN  x # Idle /\ x.step = s /\ x.trip = call[c].trip /\ x.op = call[c].op
  BY <1>2 DEF CallType, Idle
<1> QED BY <1>1, <1>3 DEF InFlight, Starting, Goes

LEMMA EndFlow ==
    ASSUME Types, NEW c \in Calls, call[c] # Idle, call' = [call EXCEPT ![c] = Idle]
    PROVE  /\ InFlight' = InFlight \ {c} /\ Starting' = Starting \ {c}
           /\ \A d \in InFlight' : Goes(d)
<1>1. \A d \in Calls : call'[d] = IF d = c THEN Idle ELSE call[d]
  BY DEF Types, Calls_OK
<1> QED BY <1>1 DEF InFlight, Starting, Goes

LEMMA CloseFlow ==
    ASSUME Types, UNCHANGED call \/ \E s \in Screens : Close(s)
    PROVE  /\ InFlight' = InFlight /\ Starting' = Starting
           /\ \A d \in InFlight : Goes(d)
<1>1. CASE UNCHANGED call
  BY <1>1 DEF InFlight, Starting, Goes
<1>2. CASE \E s \in Screens : Close(s)
  <2>1. PICK s \in Screens : Close(s)
    BY <1>2
  <2>2. \A c \in InFlight : call[c] \in CallType
    BY DEF Types, Calls_OK, InFlight
  <2>3. \A x \in CallType : LET y == [x EXCEPT !.by = Gone]
                           IN  y # Idle /\ y.op = x.op /\ y.step = x.step /\ y.trip = x.trip
    BY DEF CallType, Idle
  <2>4. \A c \in Calls : call'[c] = IF c \in InFlight /\ call[c].by = s
                                   THEN [call[c] EXCEPT !.by = Gone] ELSE call[c]
    BY <2>1 DEF Close
  <2>5. InFlight' = InFlight /\ \A d \in InFlight : Goes(d)
    BY <2>2, <2>3, <2>4 DEF InFlight, Goes
  <2> QED BY <2>5 DEF Starting, Goes
<1> QED BY <1>1, <1>2

(* A dead app has nothing on its way. *)
Down == ~up => /\ timers = 0 /\ asked = {} /\ updates = {}
               /\ InFlight = {} /\ restore = "none"

(* A start that nothing ran beside found no refresh under way. *)
Lone == \A c \in Starting \ crossed :
            InFlight = {c} /\ asked = {} /\ updates = {} /\ restore = "none"

(* The start of activity x is about to take x over, or it is over and no
   later one has got as far as to end x. *)
Follows(x) ==
    /\ x.by \in InFlight => /\ call[x.by].op = "start" /\ call[x.by].step = "started"
                            /\ call[x.by].trip = x.trip
    /\ \A d \in Starting \ {x.by} : call[d].step = "ending"

(* While a refresh is on its way or may begin, x is what is tracked. *)
Fed(x) ==
    /\ asked \subseteq {x.trip.stop} /\ updates \subseteq {x.trip}
    /\ x.by \notin InFlight =>
          /\ timers > 0 \/ asked # {} => trackedParams \in {None, x.trip}
          /\ restore # "none" => timers = 0 /\ asked = {}

Of(x) == x.etas \in {None, x.trip} /\ Follows(x) /\ Fed(x)
Own == \A x \in activities : x.by \notin crossed => Of(x)

LEMMA DownKeeps ==
    ASSUME Types, Down, [Next]_vars
    PROVE  Down'
<1>1. CASE up
  <2> SUFFICES ASSUME ~up' PROVE Down'
    BY DEF Down
  <2>1. Kill
    BY <1>1, Cases DEF StartTracking, StopTracking, EndActivities, Request, Started, CountFails,
       StartFailed, Stopped, Tick, NoAnswer, Answer, Update, Dismiss, Open, Close, ReadStored,
       RestoreTracking, Write, StorageFails, Launch, vars
  <2> QED BY <2>1 DEF Kill, Down, InFlight
<1>2. CASE ~up
  <2>1. \A c \in Calls : call[c] = Idle
    BY <1>2 DEF Down, InFlight
  <2>2. \/ Launch \/ (\E a \in activities : Dismiss(a)) \/ (\E s \in Screens : Close(s))
        \/ UNCHANGED vars
    <3>1. timers = 0 /\ asked = {} /\ updates = {}
      BY <1>2 DEF Down
    <3>2. /\ ~\E c \in Calls : EndActivities(c) \/ Request(c) \/ Started(c) \/ StartFailed(c)
          /\ ~\E c \in Calls : Stopped(c) \/ CountFails(c)
      BY <2>1 DEF EndActivities, Request, Started, CountFails, StartFailed, Stopped
    <3>3. ~Tick /\ (~\E s \in Stops : NoAnswer(s) \/ Answer(s)) /\ (~\E u \in Trip : Update(u))
      BY <3>1 DEF Tick, NoAnswer, Answer, Update
    <3>4. /\ ~\E c \in Calls, t \in Trips, by \in Screens \cup {Gone} : StartTracking(c, t, by)
          /\ ~\E c \in Calls, by \in Screens : StopTracking(c, by)
          /\ ~\E s \in Screens : Open(s)
          /\ ~ReadStored /\ ~RestoreTracking /\ ~Write /\ ~StorageFails /\ ~Kill
      BY <1>2 DEF StartTracking, StopTracking, Open, ReadStored, RestoreTracking, Write,
             StorageFails, Kill
    <3> QED BY <3>2, <3>3, <3>4, Cases
  <2>3. CASE Launch
    BY <2>3 DEF Launch, Down
  <2>4. CASE (\E a \in activities : Dismiss(a)) \/ (\E s \in Screens : Close(s)) \/ UNCHANGED vars
    <3>1. UNCHANGED <<timers, asked, updates, restore>>
      BY <2>4 DEF Dismiss, Close, vars, js, refresh, storage
    <3>2. InFlight' = InFlight
      BY <2>4, CloseFlow DEF Dismiss, vars
    <3> QED BY <1>2, <3>1, <3>2 DEF Down
  <2> QED BY <2>2, <2>3, <2>4
<1> QED BY <1>1, <1>2

LEMMA LoneKeeps ==
    ASSUME Types, Down, Lone, [Next]_vars
    PROVE  Lone'
<1>1. ASSUME NEW c \in Calls, NEW k \in CallType, Begin(c, k), UNCHANGED <<refresh, restore>>
      PROVE  Lone'
  <2>1. /\ InFlight' = InFlight \cup {c} /\ Starting' \subseteq Starting \cup {c}
        /\ Starting \subseteq InFlight
    BY <1>1, BeginFlow DEF Starting
  <2>2. CASE Alone
    BY <1>1, <2>1, <2>2 DEF Begin, Alone, Refreshing, refresh, Lone
  <2>3. CASE ~Alone
    BY <1>1, <2>1, <2>3 DEF Begin, Lone
  <2> QED BY <2>2, <2>3
<1>2. ASSUME NEW c \in Calls, NEW t \in Trips, NEW by \in Screens \cup {Gone},
             StartTracking(c, t, by)
      PROVE  Lone'
  <2>1. Call("start", "ending", t, by, Alone) \in CallType
    BY NewCalls DEF Alone, Callers
  <2> QED BY <1>1, <1>2, <2>1 DEF StartTracking, storage
<1>3. ASSUME NEW c \in Calls, NEW by \in Screens, StopTracking(c, by)
      PROVE  Lone'
  <2>1. Call("stop", "ending", None, by, Alone) \in CallType
    BY NewCalls DEF Alone
  <2>2. CASE running
    BY <1>1, <1>3, <2>1, <2>2 DEF StopTracking, storage
  <2>3. CASE ~running
    <3>1. call' = Others /\ crossed' = crossed \cup Starting
      BY <1>3, <2>3 DEF StopTracking
    <3>2. \A d \in Calls \ InFlight : call'[d] = Idle
      BY <3>1 DEF Others
    <3>3. Starting' \subseteq Starting
      BY <3>1, <3>2, OthersFlow DEF Starting, InFlight
    <3> QED BY <3>1, <3>3 DEF Lone
  <2> QED BY <2>2, <2>3
<1>4. ASSUME NEW c \in Calls, EndActivities(c) \/ Request(c)
      PROVE  Lone'
  <2>1. call[c] # Idle /\ (\E s : Step(c, s)) /\ UNCHANGED <<refresh, restore, crossed>>
    BY <1>4 DEF EndActivities, Request, storage, history
  <2>2. InFlight' = InFlight /\ Starting' = Starting
    BY <2>1, StepFlow
  <2> QED BY <2>1, <2>2 DEF Lone, refresh
<1>5. ASSUME NEW c \in Calls,
             Started(c) \/ CountFails(c) \/ StartFailed(c) \/ Stopped(c)
      PROVE  Lone'
  <2>1. call[c] # Idle /\ call' = [call EXCEPT ![c] = Idle] /\ UNCHANGED crossed
    BY <1>5 DEF Started, CountFails, StartFailed, Stopped, history
  <2>2. c \in InFlight /\ Starting' = Starting \ {c}
    BY <2>1, StartMeans, EndFlow
  <2>3. Starting' \subseteq crossed
    BY <2>2 DEF Lone
  <2> QED BY <2>1, <2>3 DEF Lone
<1>6. CASE Tick
  <2>1. Starting' = Starting /\ crossed' = crossed \cup Starting
    BY <1>6, CloseFlow DEF Tick
  <2> QED BY <2>1 DEF Lone
<1>7. CASE Kill
  <2>1. Starting' = {}
    BY <1>7 DEF Kill, Starting, InFlight
  <2> QED BY <2>1 DEF Lone
<1>10. CASE StorageFails
  <2>1. /\ InFlight' = InFlight /\ Starting' = Starting /\ UNCHANGED <<crossed, refresh>>
        /\ restore' = restore \/ restore' = "none"
    BY <1>10, CloseFlow DEF StorageFails
  <2> QED BY <2>1 DEF Lone, refresh
<1>8. CASE Launch \/ ReadStored \/ RestoreTracking
  <2>1. InFlight' = InFlight /\ Starting' = Starting /\ UNCHANGED <<crossed, refresh>>
    BY <1>8, CloseFlow DEF Launch, ReadStored, RestoreTracking, history
  <2>2. CASE Launch
    BY <2>1, <2>2 DEF Launch, Down, Starting, Lone
  <2>3. CASE ReadStored \/ RestoreTracking
    <3>1. restore # "none"
      BY <2>3 DEF ReadStored, RestoreTracking
    <3> QED BY <2>1, <3>1 DEF Lone
  <2> QED BY <1>8, <2>2, <2>3
<1>9. CASE \/ (\E s \in Stops : NoAnswer(s) \/ Answer(s)) \/ (\E u \in Trip : Update(u))
           \/ (\E a \in activities : Dismiss(a)) \/ (\E s \in Screens : Open(s) \/ Close(s))
           \/ Write \/ UNCHANGED vars
  <2>1. InFlight' = InFlight /\ Starting' = Starting
    BY <1>9, CloseFlow DEF NoAnswer, Answer, Update, Dismiss, Open, Write, vars
  <2>2. UNCHANGED <<crossed, restore>>
    BY <1>9 DEF NoAnswer, Answer, Update, Dismiss, Open, Close, Write, vars, storage, history
  <2>3. /\ asked' \subseteq asked
        /\ updates' \subseteq updates \/ asked # {}
    BY <1>9 DEF NoAnswer, Answer, Update, Dismiss, Open, Close, Write, vars, refresh
  <2> QED BY <2>1, <2>2, <2>3 DEF Lone
<1> QED BY <1>2, <1>3, <1>4, <1>5, <1>6, <1>7, <1>8, <1>9, <1>10, Cases

(* A call begins, or a stop is over at once. *)
LEMMA BeginOwns ==
    ASSUME Types, Own, UNCHANGED <<activities, refresh, restore>>,
           trackedParams' \in {None, trackedParams},
           timers > 0 \/ timers' = 0,
           NEW C \in SUBSET Calls,
           \A c \in C : call'[c].step = "ending" /\ \A a \in activities : a.by # c,
           InFlight' = InFlight \cup C, Starting' \subseteq Starting \cup C,
           \A d \in InFlight : Goes(d),
           crossed \subseteq crossed' \cup C
    PROVE  Own'
<1> SUFFICES ASSUME NEW x \in activities, x.by \notin crossed'
             PROVE  Of(x)'
  BY DEF Own
<1>1. Of(x) /\ x.by \notin C
  BY DEF Own
<1>2. Follows(x)'
  <2>1. Starting \subseteq InFlight
    BY DEF Starting
  <2> QED BY <1>1, <2>1 DEF Of, Follows, Goes
<1>3. Fed(x)'
  <2>1. timers' > 0 => timers > 0
    OBVIOUS
  <2>2. timers = 0 => timers' = 0
    OBVIOUS
  <2> QED BY <1>1, <2>1, <2>2 DEF Of, Fed, refresh
<1> QED BY <1>1, <1>2, <1>3 DEF Of

LEMMA StartOwns ==
    ASSUME Types, Own, NEW c \in Calls, NEW t \in Trips, NEW by \in Screens \cup {Gone},
           StartTracking(c, t, by)
    PROVE  Own'
<1> DEFINE k == Call("start", "ending", t, by, Alone)
<1>1. k \in CallType /\ k.step = "ending"
  BY NewCalls DEF Alone, Callers, Call
<1>2. Begin(c, k) /\ UNCHANGED <<activities, refresh, restore, trackedParams, timers>>
  BY DEF StartTracking, js, storage
<1> HIDE DEF k
<1>3. /\ InFlight' = InFlight \cup {c} /\ Starting' \subseteq Starting \cup {c}
      /\ call'[c] = k /\ \A d \in InFlight : Goes(d)
  BY <1>1, <1>2, BeginFlow
<1>4. crossed \subseteq crossed' \cup {c} /\ \A a \in activities : a.by # c
  BY <1>2 DEF Begin
<1>6. /\ {c} \in SUBSET Calls
      /\ \A d \in {c} : call'[d].step = "ending" /\ \A a \in activities : a.by # d
  BY <1>1, <1>3, <1>4
<1>5. timers > 0 \/ timers' = 0
  BY <1>2 DEF Types, Js
<1> QED BY <1>2, <1>3, <1>4, <1>5, <1>6, BeginOwns

LEMMA StopOwns ==
    ASSUME Types, Own, NEW c \in Calls, NEW by \in Screens, StopTracking(c, by)
    PROVE  Own'
<1>1. UNCHANGED <<activities, refresh, restore>>
  BY DEF StopTracking, Forget, storage
<1>2. timers > 0 \/ timers' = 0
  BY DEF StopTracking, Types, Js
<1>3. CASE running
  <2> DEFINE k == Call("stop", "ending", None, by, Alone)
  <2>1. k \in CallType /\ k.step = "ending"
    BY NewCalls DEF Alone, Call
  <2>2. Begin(c, k) /\ UNCHANGED trackedParams
    BY <1>3 DEF StopTracking
  <2> HIDE DEF k
  <2>3. /\ InFlight' = InFlight \cup {c} /\ Starting' \subseteq Starting \cup {c}
        /\ call'[c] = k /\ \A d \in InFlight : Goes(d)
    BY <2>1, <2>2, BeginFlow
  <2>4. crossed \subseteq crossed' \cup {c} /\ \A a \in activities : a.by # c
    BY <2>2 DEF Begin
  <2>5. /\ {c} \in SUBSET Calls
        /\ \A d \in {c} : call'[d].step = "ending" /\ \A a \in activities : a.by # d
    BY <2>1, <2>3, <2>4
  <2> QED BY <1>1, <1>2, <2>2, <2>3, <2>4, <2>5, BeginOwns
<1>4. CASE ~running
  <2>1. /\ call' = Others /\ crossed' = crossed \cup Starting /\ trackedParams' = None
    BY <1>4 DEF StopTracking, Forget
  <2>2. \A d \in Calls \ InFlight : call'[d] = Idle
    BY <2>1 DEF Others
  <2>3. InFlight' = InFlight /\ \A d \in InFlight : Goes(d)
    BY <2>1, <2>2, OthersFlow DEF InFlight, Goes
  <2>4. Starting' = Starting
    BY <2>3 DEF Starting, Goes
  <2>5. {} \in SUBSET Calls
    OBVIOUS
  <2> QED BY <1>1, <1>2, <2>1, <2>3, <2>4, <2>5, BeginOwns
<1> QED BY <1>3, <1>4

(* While a start is past its ending of activities, there is none but its own
   that nothing ran beside. *)
LEMMA NoOlder ==
    ASSUME Types, Own, NEW c \in Calls, call[c] # Idle,
           call[c].step \in {"requesting", "started", "failed"},
           NEW x \in activities, x.by \notin crossed
    PROVE  x.by = c /\ call[c].step = "started" /\ call[c].trip = x.trip
BY StartMeans DEF Own, Of, Follows

LEMMA RequestOwns ==
    ASSUME Types, Lone, Own, NEW c \in Calls, Request(c)
    PROVE  Own'
<1>1. call[c] # Idle /\ call[c].step = "requesting" /\ UNCHANGED <<refresh, crossed>>
  BY DEF Request, history
<1>2. c \in Starting /\ c \in InFlight
  BY <1>1, StartMeans
<1> SUFFICES ASSUME NEW x \in activities', x.by \notin crossed
             PROVE  Of(x)'
  BY <1>1 DEF Own
<1>3. x \notin activities
  BY <1>1, NoOlder
<1>4. /\ x = [by |-> c, trip |-> call[c].trip, etas |-> None]
      /\ Step(c, "started")
  BY <1>3 DEF Request
<1>5. /\ InFlight' = InFlight /\ Starting' = Starting
      /\ call'[c].op = call[c].op /\ call'[c].step = "started" /\ call'[c].trip = call[c].trip
  BY <1>1, <1>4, StepFlow
<1>6. InFlight = {c} /\ asked = {} /\ updates = {} /\ c \notin crossed
  BY <1>2, <1>4 DEF Lone
<1>7. Starting' \ {c} = {} /\ asked' = {} /\ updates' = {} /\ InFlight' = {c}
  BY <1>1, <1>5, <1>6 DEF Starting, refresh
<1>8. call'[c].op = "start" /\ x.by = c /\ x.trip = call[c].trip /\ x.etas = None
  BY <1>2, <1>4, <1>5 DEF Starting
<1> QED BY <1>5, <1>7, <1>8 DEF Of, Follows, Fed

LEMMA EndOwns ==
    ASSUME Types, Lone, Own, NEW c \in Calls,
           Started(c) \/ CountFails(c) \/ StartFailed(c) \/ Stopped(c)
    PROVE  Own'
<1>1. /\ call[c] # Idle /\ call' = [call EXCEPT ![c] = Idle]
      /\ UNCHANGED <<crossed, activities, restore>>
  BY DEF Started, CountFails, StartFailed, Stopped, Forget, storage, history
<1>2. /\ InFlight' = InFlight \ {c} /\ Starting' = Starting \ {c}
      /\ \A d \in InFlight' : Goes(d)
  BY <1>1, EndFlow
<1> SUFFICES ASSUME NEW x \in activities, x.by \notin crossed
             PROVE  Of(x)'
  BY <1>1 DEF Own
<1>3. Of(x)
  BY DEF Own
<1>4. CASE Started(c) \/ CountFails(c)
  <2>1. call[c].step = "started"
    BY <1>4 DEF Started, CountFails
  <2>2. x.by = c /\ call[c].trip = x.trip /\ c \in Starting
    BY <1>1, <2>1, NoOlder, StartMeans
  <2>3. InFlight = {c} /\ asked = {} /\ updates = {} /\ restore = "none"
    BY <2>2 DEF Lone
  <2>4. InFlight' = {} /\ Starting' = {}
    BY <1>2, <2>3 DEF Starting
  <2>5. /\ asked' \subseteq {x.trip.stop} /\ updates' = {} /\ restore' = "none"
        /\ trackedParams' = x.trip
    BY <1>1, <1>4, <2>2, <2>3 DEF Started, CountFails, refresh
  <2> QED BY <1>3, <2>4, <2>5 DEF Of, Follows, Fed
<1>5. CASE StartFailed(c)
  BY <1>1, <1>5, NoOlder DEF StartFailed
<1>6. CASE Stopped(c)
  <2>1. c \notin Starting /\ c \in InFlight
    BY <1>1, <1>6, StartMeans DEF Stopped
  <2>2. x.by # c
    BY <1>3, <2>1 DEF Of, Follows, Starting
  <2>3. Follows(x)'
    BY <1>2, <1>3, <2>1, <2>2 DEF Of, Follows, Goes, Starting
  <2>4. Fed(x)'
    BY <1>1, <1>2, <1>3, <1>6, <2>2 DEF Stopped, Forget, refresh, Of, Fed
  <2> QED BY <1>3, <2>3, <2>4 DEF Of
<1> QED BY <1>4, <1>5, <1>6

(* Steps beside the calls. *)
LEMMA BesideOwns ==
    ASSUME Types, Down, Lone, Own,
           \/ Tick \/ (\E s \in Stops : NoAnswer(s) \/ Answer(s)) \/ (\E u \in Trip : Update(u))
           \/ (\E a \in activities : Dismiss(a)) \/ (\E s \in Screens : Open(s) \/ Close(s))
           \/ ReadStored \/ RestoreTracking \/ Write \/ StorageFails \/ Launch
           \/ UNCHANGED vars
    PROVE  Own'
<1>1. /\ InFlight' = InFlight /\ Starting' = Starting
      /\ \A d \in InFlight : Goes(d)
  BY CloseFlow DEF Tick, NoAnswer, Answer, Update, Dismiss, Open, ReadStored, RestoreTracking,
     Write, StorageFails, Launch, vars
<1>2. crossed \subseteq crossed'
  BY DEF Tick, NoAnswer, Answer, Update, Dismiss, Open, Close, ReadStored, RestoreTracking,
     Write, StorageFails, Launch, vars, history
<1>3. ASSUME NEW x, Follows(x)
      PROVE  Follows(x)'
  BY <1>1, <1>3 DEF Follows, Goes, Starting
<1>4. ASSUME NEW x, x.by \in InFlight, Follows(x), x.by \notin crossed
      PROVE  /\ x.by \in Starting
             /\ asked = {} /\ updates = {} /\ restore = "none"
  BY <1>4 DEF Follows, Starting, Lone
<1>5. ASSUME activities' \subseteq activities,
             \A x \in activities : x.by \notin crossed' /\ Of(x) => Fed(x)'
      PROVE  Own'
  BY <1>2, <1>3, <1>5 DEF Own, Of
<1>6. CASE Tick
  <2> SUFFICES ASSUME NEW x \in activities, x.by \notin crossed', Of(x)
               PROVE  Fed(x)'
    BY <1>5, <1>6 DEF Tick
  <2>1. /\ timers > 0 /\ trackedParams # None /\ asked' = asked \cup {trackedParams.stop}
        /\ crossed' = crossed \cup Starting
        /\ UNCHANGED <<timers, trackedParams, updates, restore>>
    BY <1>6 DEF Tick, js, storage
  <2>2. x.by \notin InFlight
    BY <1>4, <2>1 DEF Of
  <2>3. trackedParams = x.trip /\ restore = "none"
    BY <2>1, <2>2 DEF Of, Fed
  <2> QED BY <2>1, <2>3 DEF Of, Fed
<1>7. ASSUME NEW s \in Stops, NoAnswer(s)
      PROVE  Own'
  <2>1. /\ asked' \subseteq asked
        /\ UNCHANGED <<timers, trackedParams, updates, restore, activities>>
    BY <1>7 DEF NoAnswer, js, storage
  <2> QED BY <1>1, <1>5, <2>1 DEF Of, Fed
<1>8. ASSUME NEW s \in Stops, Answer(s)
      PROVE  Own'
  <2>1. /\ s \in asked /\ trackedParams # None /\ asked' \subseteq asked
        /\ updates' = updates \cup {[route |-> trackedParams.route, stop |-> s]}
        /\ UNCHANGED <<timers, trackedParams, restore, activities, crossed>>
    BY <1>8 DEF Answer, js, storage, history
  <2> SUFFICES ASSUME NEW x \in activities, x.by \notin crossed, Of(x)
               PROVE  Fed(x)'
    BY <1>5, <2>1
  <2>2. x.by \notin InFlight
    BY <1>4, <2>1 DEF Of
  <2>3. trackedParams = x.trip /\ s = x.trip.stop
    BY <2>1, <2>2 DEF Of, Fed
  <2>4. x.trip = [route |-> x.trip.route, stop |-> x.trip.stop]
    <3>1. x.trip \in Trip
      BY LiveActivityAssumption DEF Types, Outside, Activity
    <3> QED BY <3>1 DEF Trip
  <2>5. updates' \subseteq {x.trip}
    BY <2>1, <2>3, <2>4 DEF Of, Fed
  <2> QED BY <1>1, <2>1, <2>5 DEF Of, Fed
<1>9. ASSUME NEW u \in Trip, Update(u)
      PROVE  Own'
  <2>1. /\ u \in updates /\ updates' \subseteq updates
        /\ UNCHANGED <<timers, trackedParams, asked, restore, crossed>>
    BY <1>9 DEF Update, js, storage, history
  <2>2. \A x \in activities : Of(x) => Fed(x)'
    BY <1>1, <2>1 DEF Of, Fed
  <2>3. CASE activities' = activities
    BY <1>5, <2>2, <2>3
  <2>4. CASE activities' # activities
    <3>1. PICK a \in activities : activities' = (activities \ {a}) \cup {[a EXCEPT !.etas = u]}
      BY <1>9, <2>4 DEF Update
    <3> DEFINE y == [a EXCEPT !.etas = u]
    <3>2. y.by = a.by /\ y.trip = a.trip /\ y.etas = u
      BY DEF Types, Outside, Activity
    <3> HIDE DEF y
    <3>3. ASSUME a.by \notin crossed
          PROVE  Of(y)'
      <4>1. Of(a) /\ Fed(a)' /\ Follows(a)'
        BY <1>3, <2>2, <3>3 DEF Own, Of
      <4>2. u = a.trip
        BY <2>1, <4>1 DEF Of, Fed
      <4>3. Fed(y)' /\ Follows(y)'
        BY <3>2, <4>1 DEF Fed, Follows
      <4> QED BY <3>2, <4>2, <4>3 DEF Of
    <3>4. \A x \in activities : x.by \notin crossed => Of(x)'
      BY <1>3, <2>2 DEF Own, Of
    <3> QED BY <2>1, <3>1, <3>2, <3>3, <3>4 DEF Own, y
  <2> QED BY <2>3, <2>4
<1>10. CASE ReadStored \/ RestoreTracking
  <2>1. /\ restore # "none" /\ UNCHANGED <<timers, asked, updates, activities, crossed>>
    BY <1>10 DEF ReadStored, RestoreTracking, js, refresh, history
  <2> SUFFICES ASSUME NEW x \in activities, x.by \notin crossed, Of(x)
               PROVE  Fed(x)'
    BY <1>5, <2>1
  <2>2. x.by \notin InFlight
    BY <1>4, <2>1 DEF Of
  <2>3. timers = 0 /\ asked = {}
    BY <2>1, <2>2 DEF Of, Fed
  <2> QED BY <2>1, <2>3 DEF Of, Fed
<1>11. CASE Launch
  <2>1. /\ timers = 0 /\ asked = {}
        /\ UNCHANGED <<timers, asked, updates, activities>>
    BY <1>11 DEF Launch, Down, js, refresh
  <2> QED BY <1>5, <2>1 DEF Of, Fed
<1>13. CASE StorageFails
  <2>1. /\ UNCHANGED <<timers, trackedParams, asked, updates, activities>>
        /\ restore' = restore \/ restore' = "none"
    BY <1>13 DEF StorageFails, js, refresh
  <2> QED BY <1>1, <1>5, <2>1 DEF Of, Fed
<1>12. CASE \/ (\E a \in activities : Dismiss(a)) \/ (\E s \in Screens : Open(s) \/ Close(s))
            \/ Write \/ UNCHANGED vars
  <2>1. /\ activities' \subseteq activities
        /\ UNCHANGED <<timers, trackedParams, asked, updates, restore>>
    BY <1>12 DEF Dismiss, Open, Close, Write, vars, js, refresh, storage
  <2> QED BY <1>1, <1>5, <2>1 DEF Of, Fed
<1> QED BY <1>6, <1>7, <1>8, <1>9, <1>10, <1>11, <1>12, <1>13

LEMMA OwnKeeps ==
    ASSUME Types, Down, Lone, Own, [Next]_vars
    PROVE  Own'
<1>1. ASSUME NEW c \in Calls, EndActivities(c)
      PROVE  Own'
  BY <1>1 DEF EndActivities, Own
<1>2. CASE Kill
  <2>1. /\ InFlight' = {} /\ Starting' = {} /\ asked' = {} /\ updates' = {}
        /\ timers' = 0 /\ restore' = "none" /\ UNCHANGED <<activities, crossed>>
    BY <1>2 DEF Kill, InFlight, Starting
  <2> QED BY <2>1 DEF Own, Of, Follows, Fed
<1> QED BY <1>1, <1>2, StartOwns, StopOwns, RequestOwns, EndOwns, BesideOwns, Cases

(* Whatever runs beside it later, an activity whose start nothing ran beside
   never shows arrivals of another trip (refreshActivity of live-activity.ts
   reads the stop before its await and the route after it). *)
THEOREM ArrivalsAreItsOwn == Spec => []OwnArrivalsUnlessCrossed
<1>1. Init => Down /\ Lone /\ Own
  BY DEF Init, Down, Lone, Own, Starting, InFlight
<1>2. Types /\ Down /\ Lone /\ Own /\ [Next]_vars => Down' /\ Lone' /\ Own'
  BY DownKeeps, LoneKeeps, OwnKeeps
<1>3. Own => OwnArrivalsUnlessCrossed
  BY DEF Own, Of, OwnArrivalsUnlessCrossed
<1> QED BY <1>1, <1>2, <1>3, TypesHold, PTL DEF Spec
=============================================================================
