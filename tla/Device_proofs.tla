---------------------------- MODULE Device_proofs ----------------------------
(***************************************************************************)
(* For any languages, services and bounds: the state of the screens beside *)
(* the chat stays well typed, the microphone is open only while its sheet  *)
(* shows, in the language of the app, each word spoken comes into the      *)
(* sheet once and stays, and the screens that copy the table of tracked    *)
(* services show it as it is.                                              *)
(***************************************************************************)
EXTENDS Device, FiniteSetTheorems, SequenceTheorems, TLAPS

LEMMA Bounds == MaxWords \in Nat /\ MaxHeard \in Nat /\ MaxStarts \in Nat /\ MaxTracks \in Nat
BY VoiceInputAssumption, NearbyAssumption

(* The steps of dictation. *)
LEMMA VoiceCases ==
    ASSUME [Next]_vars
    PROVE  \/ OpenSheet \/ CloseSheet \/ HandleChangeText \/ HandleMicPress
           \/ (\E s \in starts : Permission(s)) \/ (\E s \in starts : HasOnDeviceModel(s))
           \/ Speak \/ Understand \/ TakeBack \/ Cease
           \/ OnStart \/ OnResult \/ OnError \/ OnEnd
           \/ (\E l \in Locales : l # locale /\ Appear(visible, l) /\ locale' = l)
           \/ UNCHANGED <<voice, locale>>
<1>1. ASSUME NearbyNext
      PROVE  locale' = locale
  <2>1. UNCHANGED i18n
    BY <1>1 DEF NearbyNext, Request, StartWatching, Moved, Arrive, RouteStops, Switch,
           OpenRoute, Back, Track, IncrementRouteTracking, HandleDeleteTracking
  <2> QED BY <2>1 DEF i18n
<1>2. ASSUME NEW l \in Locales, Language(l)
      PROVE  /\ locale' = l
             /\ (l # locale /\ Appear(visible, l)) \/ UNCHANGED <<voice, locale>>
  <2>1. locale' = l
    BY <1>2 DEF Language, LocaleRead, SetLocale
  <2> QED BY <1>2, <2>1 DEF Language
<1> QED BY <1>1, <1>2 DEF Next, Voice, Screens, VoiceNext, vars, i18n

(* The language *)
LEMMA LanguageKept ==
    ASSUME VoiceNext \/ NearbyNext
    PROVE  UNCHANGED i18n
<1>1. CASE VoiceNext
  BY <1>1 DEF VoiceNext, OpenSheet, CloseSheet, HandleChangeText, HandleMicPress, Permission,
         HasOnDeviceModel, Says, Speak, Understand, TakeBack, Cease, OnStart, OnResult, OnError, OnEnd
<1>2. CASE NearbyNext
  BY <1>2 DEF NearbyNext, Request, StartWatching, Moved, Arrive, RouteStops, Switch,
         OpenRoute, Back, Track, IncrementRouteTracking, HandleDeleteTracking
<1> QED BY <1>1, <1>2

LEMMA LocaleKeeps ==
    ASSUME I18nTypeOK, [Next]_vars
    PROVE  I18nTypeOK'
<1>1. CASE VoiceNext \/ NearbyNext \/ UNCHANGED vars
  <2>1. UNCHANGED i18n
    BY <1>1, LanguageKept DEF vars
  <2> QED BY <2>1 DEF i18n, I18nTypeOK
<1>2. ASSUME NEW l \in Locales, Language(l)
      PROVE  I18nTypeOK'
  BY <1>2 DEF Language, LocaleRead, SetLocale, I18nTypeOK
<1> QED BY <1>1, <1>2 DEF Next, Voice, Screens
-----------------------------------------------------------------------------
(* Types of dictation *)

Heard == [name : {"start", "interim", "final", "aborted", "failed", "refused", "end"},
          word : 0..MaxWords]
Texts == draft \in Text /\ base \in Text /\ transcript \in Text /\ interim \in Text
Flags == /\ visible \in BOOLEAN /\ edited \in BOOLEAN
         /\ twice \in BOOLEAN /\ late \in BOOLEAN
         /\ status \in {"idle", "starting", "listening", "stopped"}
         /\ error \in {"none", "blocked", "other"}
Native == /\ mic \in Locales \cup {Off}
          /\ saying \in 0..spoken /\ spoken \in 0..MaxWords
Starts == starts \subseteq Start
Queue == heard \in Seq(Heard)

LEMMA VoiceParts == VoiceTypeOK <=> Texts /\ Flags /\ Native /\ Starts /\ Queue
BY DEF VoiceTypeOK, Texts, Flags, Native, Starts, Queue, Heard

LEMMA TextsJoin ==
    /\ <<>> \in Text
    /\ \A a, b \in Text : a \o b \in Text
    /\ \A a \in Text, w \in Words \cup {Typed} : Append(a, w) \in Text /\ <<w>> \in Text
BY DEF Text

LEMMA ShownIsText ==
    ASSUME NEW b \in Text, NEW e, NEW d \in Text, Show(b, e, d),
           transcript' \in Text, interim' \in Text
    PROVE  draft' \in Text
BY TextsJoin DEF Show

LEMMA HeadIsHeard ==
    ASSUME Queue, heard # <<>>
    PROVE  Head(heard) \in Heard /\ Tail(heard) \in Seq(Heard)
BY DEF Queue

LEMMA TextsKeep ==
    ASSUME VoiceTypeOK, [Next]_vars
    PROVE  Texts'
<1> USE VoiceParts
<1>1. ASSUME NEW v, NEW l, Appear(v, l)
      PROVE  Texts'
  <2>1. transcript' = <<>> /\ interim' = <<>>
        /\ \/ base' = <<>> /\ draft' = <<>>
           \/ base' = base /\ Show(base, edited, draft)
    BY <1>1 DEF Appear
  <2>2. draft' \in Text
    BY <2>1, TextsJoin, ShownIsText DEF Texts
  <2> QED BY <2>1, <2>2, TextsJoin DEF Texts
<1>2. CASE HandleChangeText
  <2>1. UNCHANGED <<base, transcript, interim>> /\ draft' \in {<<>>, Append(draft, Typed)}
    BY <1>2 DEF HandleChangeText
  <2> QED BY <2>1, TextsJoin DEF Texts
<1>3. CASE HandleMicPress
  <2>1. \/ UNCHANGED <<draft, base, transcript, interim>>
        \/ /\ base' = draft /\ transcript' = <<>> /\ interim' = <<>>
           /\ Show(draft, FALSE, draft)
    BY <1>3 DEF HandleMicPress, sheet
  <2>2. draft' \in Text
    BY <2>1, TextsJoin, ShownIsText DEF Texts
  <2> QED BY <2>1, <2>2, TextsJoin DEF Texts
<1>4. CASE OnResult
  <2>1. Head(heard).word \in Words \cup {Typed}
    <3>1. heard # <<>>
      BY <1>4 DEF OnResult, On, Silent
    <3>2. Head(heard).word \in 0..MaxWords
      BY <3>1, HeadIsHeard DEF Heard
    <3> QED BY <3>2, Bounds DEF Words, Typed
  <2>2. interim' \in Text /\ transcript' \in Text
    BY <1>4, <2>1, TextsJoin DEF OnResult, Texts
  <2>3. base' = base /\ Show(base, edited, draft)
    BY <1>4 DEF OnResult
  <2> QED BY <2>2, <2>3, ShownIsText DEF Texts
<1>5. CASE OnEnd
  <2>1. interim' \in Text /\ transcript' \in Text
    BY <1>5, TextsJoin DEF OnEnd, Texts
  <2>2. base' = base /\ Show(base, edited, draft)
    BY <1>5 DEF OnEnd
  <2> QED BY <2>1, <2>2, ShownIsText DEF Texts
<1>6. CASE OpenSheet \/ CloseSheet \/ (\E l \in Locales : Appear(visible, l))
  BY <1>1, <1>6 DEF OpenSheet, CloseSheet
<1>7. CASE \/ (\E s \in starts : Permission(s)) \/ (\E s \in starts : HasOnDeviceModel(s))
           \/ Speak \/ Understand \/ TakeBack \/ Cease \/ OnStart \/ OnError \/ UNCHANGED voice
  <2>1. UNCHANGED <<draft, base, transcript, interim>>
    BY <1>7 DEF Permission, HasOnDeviceModel, Speak, Understand, TakeBack, Cease, Says, OnStart, OnError,
           sheet, hook, voice
  <2> QED BY <2>1 DEF Texts
<1> QED BY <1>2, <1>3, <1>4, <1>5, <1>6, <1>7, VoiceCases

LEMMA FlagsKeep ==
    ASSUME VoiceTypeOK, [Next]_vars
    PROVE  Flags'
<1> USE VoiceParts
<1>1. ASSUME NEW v \in BOOLEAN, NEW l, Appear(v, l)
      PROVE  Flags'
  BY <1>1 DEF Appear, ResultOnItsWay, Flags
<1>2. CASE OpenSheet \/ CloseSheet \/ (\E l \in Locales : Appear(visible, l))
  BY <1>1, <1>2 DEF OpenSheet, CloseSheet, Flags
<1>3. CASE HandleChangeText
  BY <1>3 DEF HandleChangeText, takes, Flags
<1>4. CASE HandleMicPress
  <2>1. visible' = visible /\ edited' \in {edited, FALSE}
        /\ status' \in {status, "starting"} /\ error' \in {error, "none"}
    BY <1>4 DEF HandleMicPress, sheet
  <2>2. twice' \in BOOLEAN /\ late' \in BOOLEAN
    BY <1>4 DEF HandleMicPress, ResultOnItsWay, takes, Flags
  <2> QED BY <2>1, <2>2 DEF Flags
<1>5. ASSUME NEW s \in starts, Permission(s) \/ HasOnDeviceModel(s)
      PROVE  Flags'
  <2>1. status' \in {status, "stopped"} /\ error' \in {error, "blocked", "other"}
        /\ UNCHANGED <<visible, edited, twice, late>>
    BY <1>5 DEF Permission, HasOnDeviceModel, Fail, sheet, takes
  <2> QED BY <2>1 DEF Flags
<1>6. CASE OnStart \/ OnResult \/ OnError \/ OnEnd
  <2>1. status' \in {status, "listening", "stopped"} /\ error' \in {error, "blocked", "other"}
        /\ UNCHANGED <<visible, edited, twice, late>>
    BY <1>6 DEF OnStart, OnResult, OnError, OnEnd, sheet, takes
  <2> QED BY <2>1 DEF Flags
<1>7. CASE Speak \/ Understand \/ TakeBack \/ Cease \/ UNCHANGED voice
  <2>1. UNCHANGED <<sheet, hook, takes>>
    BY <1>7 DEF Speak, Understand, TakeBack, Cease, Says, voice
  <2> QED BY <2>1 DEF sheet, hook, takes, Flags
<1> QED BY <1>2, <1>3, <1>4, <1>5, <1>6, <1>7, VoiceCases

LEMMA NativeKeeps ==
    ASSUME VoiceTypeOK, [Next]_vars
    PROVE  Native'
<1> USE VoiceParts
<1>1. ASSUME NEW v, NEW l, Appear(v, l)
      PROVE  Native'
  <2>1. mic' = Off /\ saying' = 0 /\ spoken' = spoken
    BY <1>1 DEF Appear, abort, Typed
  <2> QED BY <2>1, Bounds DEF Native
<1>2. ASSUME NEW s \in starts, HasOnDeviceModel(s)
      PROVE  Native'
  <2>1. s.lang \in Locales
    BY DEF Starts, Start
  <2>2. UNCHANGED <<mic, saying, spoken>> \/ (mic' = s.lang /\ saying' = 0 /\ spoken' = spoken)
    BY <1>2 DEF HasOnDeviceModel, Fail, native, Typed
  <2> QED BY <2>1, <2>2, Bounds DEF Native
<1>3. CASE Speak
  <2>1. mic' = mic /\ spoken < MaxWords /\ spoken' = spoken + 1 /\ saying' = spoken + 1
    BY <1>3 DEF Speak
  <2> QED BY <2>1, Bounds DEF Native
<1>4. CASE Understand \/ TakeBack \/ Cease
  <2>1. mic' \in {mic, Off} /\ saying' = 0 /\ spoken' = spoken
    BY <1>4 DEF Understand, TakeBack, Cease, Typed
  <2> QED BY <2>1, Bounds DEF Native
<1>5. CASE OpenSheet \/ CloseSheet \/ (\E l \in Locales : Appear(visible, l))
  BY <1>1, <1>5 DEF OpenSheet, CloseSheet
<1>6. CASE \/ HandleChangeText \/ HandleMicPress \/ (\E s \in starts : Permission(s))
           \/ OnStart \/ OnResult \/ OnError \/ OnEnd \/ UNCHANGED voice
  <2>1. UNCHANGED <<mic, saying, spoken>>
    BY <1>6 DEF HandleChangeText, HandleMicPress, stop, Permission, Fail, OnStart, OnResult,
           OnError, OnEnd, native, voice
  <2> QED BY <2>1 DEF Native
<1> QED BY <1>2, <1>3, <1>4, <1>5, <1>6, VoiceCases

LEMMA SessionsKept ==
    ASSUME Starts
    PROVE  NextSession \subseteq Start
<1>1. \A s \in Start : [s EXCEPT !.mine = FALSE] \in Start
  BY DEF Start
<1> QED BY <1>1 DEF NextSession, Starts

LEMMA StartsKeep ==
    ASSUME I18nTypeOK, VoiceTypeOK, [Next]_vars
    PROVE  Starts'
<1> USE VoiceParts
<1>1. ASSUME NEW l \in Locales, start(l)
      PROVE  Starts'
  <2>1. [step |-> "permission", lang |-> l, mine |-> TRUE] \in Start
    BY DEF Start
  <2> QED BY <1>1, <2>1, SessionsKept DEF start, Starts
<1>2. ASSUME NEW v, NEW l \in Locales, Appear(v, l)
      PROVE  Starts'
  <2>1. CASE v
    BY <1>1, <1>2, <2>1 DEF Appear
  <2>2. CASE ~v
    BY <1>2, <2>2, SessionsKept DEF Appear, Starts
  <2> QED BY <2>1, <2>2
<1>3. CASE OpenSheet \/ CloseSheet \/ (\E l \in Locales : Appear(visible, l))
  BY <1>2, <1>3 DEF OpenSheet, CloseSheet, I18nTypeOK
<1>4. CASE HandleChangeText
  BY <1>4, SessionsKept DEF HandleChangeText, stop, Starts
<1>5. CASE HandleMicPress
  <2>1. start(locale) \/ starts' = NextSession
    BY <1>5 DEF HandleMicPress, stop
  <2> QED BY <1>1, <2>1, SessionsKept DEF I18nTypeOK, Starts
<1>6. ASSUME NEW s \in starts, Permission(s)
      PROVE  Starts'
  <2>1. s \in Start /\ [s EXCEPT !.step = "model"] \in Start
    BY DEF Starts, Start
  <2> QED BY <1>6, <2>1 DEF Permission, Rest, Starts
<1>7. ASSUME NEW s \in starts, HasOnDeviceModel(s)
      PROVE  Starts'
  BY <1>7 DEF HasOnDeviceModel, Rest, Starts
<1>8. CASE \/ Speak \/ Understand \/ TakeBack \/ Cease \/ OnStart \/ OnResult \/ OnError \/ OnEnd
           \/ UNCHANGED voice
  <2>1. starts' = starts
    BY <1>8 DEF Speak, Understand, TakeBack, Cease, Says, OnStart, OnResult, OnError, OnEnd, hook, voice
  <2> QED BY <2>1 DEF Starts
<1> QED BY <1>3, <1>4, <1>5, <1>6, <1>7, <1>8, VoiceCases

LEMMA EventsAreHeard ==
    /\ \A n \in {"start", "aborted", "failed", "refused", "end"} : Event(n) \in Heard
    /\ \A w \in 0..MaxWords : Result("interim", w) \in Heard /\ Result("final", w) \in Heard
BY Bounds DEF Event, Result, Heard, Typed

LEMMA QueueKeeps ==
    ASSUME VoiceTypeOK, [Next]_vars
    PROVE  Queue'
<1> USE VoiceParts
<1>1. Aborted \in Seq(Heard) /\ <<>> \in Seq(Heard)
  BY EventsAreHeard DEF Aborted
<1>2. \A q \in Seq(Heard) : heard \o q \in Seq(Heard)
  BY DEF Queue
<1>3. \A e \in Heard : Append(heard, e) \in Seq(Heard) /\ <<e>> \in Seq(Heard)
  BY DEF Queue
<1>4. ASSUME stop \/ abort
      PROVE  Queue'
  BY <1>1, <1>2, <1>3, <1>4, EventsAreHeard DEF stop, abort, Queue
<1>5. CASE OpenSheet \/ CloseSheet \/ (\E l \in Locales : Appear(visible, l))
  BY <1>4, <1>5 DEF OpenSheet, CloseSheet, Appear
<1>6. CASE HandleChangeText \/ HandleMicPress
  <2>1. stop \/ heard' = heard
    BY <1>6 DEF HandleChangeText, HandleMicPress, native
  <2> QED BY <1>4, <2>1 DEF Queue
<1>7. ASSUME NEW s \in starts, HasOnDeviceModel(s)
      PROVE  Queue'
  <2>1. \/ heard' = heard
        \/ heard' = heard \o (IF mic = Off THEN <<>> ELSE <<Event("end")>>) \o <<Event("start")>>
    BY <1>7 DEF HasOnDeviceModel, Fail, native
  <2>2. <<Event("end")>> \in Seq(Heard) /\ <<Event("start")>> \in Seq(Heard)
    BY <1>3, EventsAreHeard
  <2>3. heard \o (IF mic = Off THEN <<>> ELSE <<Event("end")>>) \in Seq(Heard)
    BY <1>1, <1>2, <2>2
  <2>4. \A p, q \in Seq(Heard) : p \o q \in Seq(Heard)
    OBVIOUS
  <2>5. heard \o (IF mic = Off THEN <<>> ELSE <<Event("end")>>) \o <<Event("start")>> \in Seq(Heard)
    BY <2>2, <2>3, <2>4
  <2>6. heard \in Seq(Heard)
    BY DEF Queue
  <2>7. heard' \in Seq(Heard)
    BY <2>1, <2>5, <2>6
  <2> QED BY <2>7 DEF Queue
<1>8. CASE Speak \/ Understand \/ TakeBack \/ Cease
  <2>1. /\ saying \in 0..MaxWords /\ Typed \in 0..MaxWords
        /\ (Speak => spoken + 1 \in 0..MaxWords)
    BY Bounds DEF Native, Speak, Typed
  <2>2. \/ \E e \in Heard : heard' = heard \o <<e>>
        \/ \E e, f \in Heard : heard' = heard \o <<e, f>>
    <3>1. CASE Speak
      BY <2>1, <3>1, EventsAreHeard DEF Speak, Says
    <3>2. CASE Understand
      BY <2>1, <3>2, EventsAreHeard DEF Understand, Says
    <3>3. CASE Cease
      BY <2>1, <3>3, EventsAreHeard DEF Cease, Says
    <3>4. CASE TakeBack
      BY <2>1, <3>4, EventsAreHeard DEF TakeBack, Says
    <3> QED BY <1>8, <3>1, <3>2, <3>3, <3>4
  <2>3. \A e, f \in Heard : <<e>> \in Seq(Heard) /\ <<e, f>> \in Seq(Heard)
    OBVIOUS
  <2>4. heard' \in Seq(Heard)
    BY <1>2, <2>2, <2>3
  <2> QED BY <2>4 DEF Queue
<1>9. CASE OnStart \/ OnResult \/ OnError \/ OnEnd
  <2>1. heard # <<>> /\ heard' = Tail(heard)
    BY <1>9 DEF OnStart, OnResult, OnError, OnEnd, On, Silent
  <2> QED BY <2>1, HeadIsHeard DEF Queue
<1>10. CASE (\E s \in starts : Permission(s)) \/ UNCHANGED voice
  <2>1. heard' = heard
    BY <1>10 DEF Permission, Fail, native, voice
  <2> QED BY <2>1 DEF Queue
<1> QED BY <1>5, <1>6, <1>7, <1>8, <1>9, <1>10, VoiceCases
-----------------------------------------------------------------------------
(* Types of the screens *)

Tables == IsTable(route_tracking) /\ IsTable(trackingCounts) /\ IsTable(tracking)
Counting == counting \in Seq(Name) /\ tracks \in 0..MaxTracks
Place == /\ focus \in {"transport", "nearby", "route", "history"}
         /\ page \in Services \cup {NoPage}
         /\ stops \in {"loading", "here", "none"} /\ arrivals \in BOOLEAN
         /\ focus = "route" => page \in Services
         /\ geo \in {"permission", "position", "found", "failed", "denied"}
         /\ watch \in {"off", "permission", "on"}
         /\ located \in BOOLEAN /\ locationRequested \in BOOLEAN /\ behind \in BOOLEAN

LEMMA NearbyParts == NearbyTypeOK <=> Tables /\ Counting /\ Place
BY DEF NearbyTypeOK, Tables, Counting, Place

LEMMA TablesChange ==
    ASSUME NEW t, IsTable(t), NEW n \in Name
    PROVE  /\ IsTable(Without(t, n))
           /\ IsTable([m \in DOMAIN t \cup {n} |-> Counts(t, m) + (IF m = n THEN 1 ELSE 0)])
<1>1. \A m \in DOMAIN t : t[m] \in Nat \ {0} /\ m \in Name
  BY DEF IsTable
<1>2. IsTable(Without(t, n))
  BY <1>1 DEF Without, IsTable
<1>3. \A m \in DOMAIN t \cup {n} : /\ Counts(t, m) + (IF m = n THEN 1 ELSE 0) \in Nat \ {0}
                                 /\ m \in Name
  BY <1>1 DEF Counts
<1> QED BY <1>2, <1>3 DEF IsTable

LEMMA TablesKeep ==
    ASSUME NearbyTypeOK, NearbyNext
    PROVE  Tables'
<1> USE NearbyParts
<1>1. ASSUME NEW f, Focus(f), route_tracking' = route_tracking
      PROVE  Tables'
  BY <1>1 DEF Focus, NewCounts, Tables, IsTable
<1>2. CASE \/ \E tab \in {"transport", "nearby", "history"} \ {focus} : Switch(tab)
           \/ \E s \in Services : OpenRoute(s)
           \/ Back
  BY <1>1, <1>2 DEF Switch, OpenRoute, Back
<1>3. CASE IncrementRouteTracking
  <2>1. Head(counting) \in Name
    BY <1>3 DEF IncrementRouteTracking, Counting
  <2>2. IsTable(route_tracking') /\ UNCHANGED copies
    BY <1>3, <2>1, TablesChange DEF IncrementRouteTracking, Tables
  <2> QED BY <2>2 DEF copies, Tables, IsTable
<1>4. ASSUME NEW n \in Name, HandleDeleteTracking(n)
      PROVE  Tables'
  <2>1. /\ route_tracking' = Without(route_tracking, n) /\ tracking' = Without(tracking, n)
        /\ trackingCounts' = trackingCounts
    BY <1>4 DEF HandleDeleteTracking
  <2>2. IsTable(route_tracking') /\ IsTable(tracking')
    BY <2>1, TablesChange DEF Tables
  <2> QED BY <2>1, <2>2 DEF Tables, IsTable
<1>5. CASE Request \/ StartWatching \/ Moved \/ Arrive \/ RouteStops \/ Track
  <2>1. UNCHANGED <<route_tracking, copies>>
    BY <1>5 DEF Request, StartWatching, Moved, Arrive, RouteStops, screens, Track
  <2> QED BY <2>1 DEF copies, Tables, IsTable
<1> QED BY <1>2, <1>3, <1>4, <1>5 DEF NearbyNext

LEMMA CountingKeeps ==
    ASSUME NearbyTypeOK, NearbyNext
    PROVE  Counting'
<1> USE NearbyParts
<1>1. CASE Track
  <2>1. NameOf(page, locale, stops) \in Name
    <3>1. page \in Services
      BY <1>1 DEF Track, RouteScreen, Place
    <3>2. (stops = "here" /\ locale \in OwnName[page]) \in BOOLEAN
      OBVIOUS
    <3> QED BY <3>1, <3>2, Zenon DEF NameOf, Name
  <2>2. counting' \in Seq(Name)
    BY <1>1, <2>1 DEF Track, Counting
  <2>3. tracks' \in 0..MaxTracks
    BY <1>1, Bounds DEF Track, Counting
  <2> QED BY <2>2, <2>3 DEF Counting
<1>2. CASE IncrementRouteTracking
  BY <1>2 DEF IncrementRouteTracking, Counting
<1>3. CASE \/ Request \/ StartWatching \/ Moved \/ Arrive \/ RouteStops \/ Back
           \/ (\E tab \in {"transport", "nearby", "history"} \ {focus} : Switch(tab))
           \/ (\E s \in Services : OpenRoute(s))
           \/ (\E n \in Name : HandleDeleteTracking(n))
  <2>1. UNCHANGED <<counting, tracks>>
    BY <1>3 DEF Request, StartWatching, Moved, Arrive, RouteStops, Back, Switch, OpenRoute,
           HandleDeleteTracking
  <2> QED BY <2>1 DEF Counting
<1> QED BY <1>1, <1>2, <1>3 DEF NearbyNext

LEMMA PlaceKeeps ==
    ASSUME NearbyTypeOK, NearbyNext
    PROVE  Place'
<1> USE NearbyParts
<1>1. CASE Request \/ StartWatching \/ Moved \/ Arrive \/ RouteStops
  BY <1>1, ZenonT(60)
     DEF Request, StartWatching, Moved, Arrive, RouteStops, Settled, screens, location, Place
<1>2. ASSUME NEW tab \in {"transport", "nearby", "history"}, Switch(tab)
      PROVE  Place'
  BY <1>2 DEF Switch, Focus, location, Place
<1>3. CASE (\E s \in Services : OpenRoute(s)) \/ Back
  BY <1>3 DEF OpenRoute, Back, Focus, location, Place
<1>4. CASE Track \/ IncrementRouteTracking \/ \E n \in Name : HandleDeleteTracking(n)
  <2>1. UNCHANGED <<screens, location>> /\ behind' \in {behind, TRUE}
    BY <1>4 DEF Track, IncrementRouteTracking, HandleDeleteTracking
  <2> QED BY <2>1, ZenonT(60) DEF screens, location, Place
<1> QED BY <1>1, <1>2, <1>3, <1>4 DEF NearbyNext

(* Every step, of dictation, of the screens and of the language, keeps the
   state well typed. *)
THEOREM TypeCorrect == Spec => []TypeOK
<1>1. Init => TypeOK
  <2> SUFFICES ASSUME Init PROVE TypeOK
    OBVIOUS
  <2>1. I18nTypeOK
    BY I18nAssumption DEF Init, I18nInit, I18nTypeOK
  <2>2. VoiceTypeOK
    <3>1. Texts
      BY TextsJoin DEF Init, VoiceInit, Texts
    <3>2. Flags /\ Starts
      BY DEF Init, VoiceInit, Flags, Starts
    <3>3. mic = Off /\ saying = 0 /\ spoken = 0
      BY DEF Init, VoiceInit, Typed
    <3>4. Native
      BY <3>3, Bounds DEF Native
    <3>5. Queue
      <4>1. heard = <<>>
        BY DEF Init, VoiceInit, Silent
      <4>2. <<>> \in Seq(Heard)
        OBVIOUS
      <4> QED BY <4>1, <4>2 DEF Queue
    <3> QED BY <3>1, <3>2, <3>4, <3>5, VoiceParts
  <2>3. NearbyTypeOK
    <3>1. Tables
      <4>1. /\ route_tracking = <<>> /\ trackingCounts = <<>> /\ tracking = <<>>
        BY DEF Init, NearbyInit, Empty
      <4>2. IsTable(<<>>)
        BY DEF IsTable
      <4> QED BY <4>1, <4>2 DEF Tables, IsTable
    <3>2. Counting
      <4>1. <<>> \in Seq(Name)
        OBVIOUS
      <4>2. counting = <<>> /\ tracks = 0
        BY DEF Init, NearbyInit
      <4> QED BY <4>1, <4>2, Bounds DEF Counting
    <3>3. Place
      BY DEF Init, NearbyInit, Place
    <3> QED BY <3>1, <3>2, <3>3, NearbyParts
  <2> QED BY <2>1, <2>2, <2>3 DEF TypeOK
<1>2. TypeOK /\ [Next]_vars => TypeOK'
  <2> SUFFICES ASSUME TypeOK, [Next]_vars PROVE TypeOK'
    OBVIOUS
  <2>1. VoiceTypeOK'
    <3>1. Texts' /\ Flags' /\ Native' /\ Starts' /\ Queue'
      BY TextsKeep, FlagsKeep, NativeKeeps, StartsKeep, QueueKeeps DEF TypeOK
    <3> QED BY <3>1 DEF VoiceTypeOK, Texts, Flags, Native, Starts, Queue, Heard
  <2>2. NearbyTypeOK'
    <3>1. CASE NearbyNext
      <4>1. Tables' /\ Counting' /\ Place'
        BY <3>1, TablesKeep, CountingKeeps, PlaceKeeps DEF TypeOK
      <4> QED BY <4>1 DEF NearbyTypeOK, Tables, Counting, Place
    <3>2. CASE ~NearbyNext
      <4>1. UNCHANGED nearby
        BY <3>2 DEF Next, Voice, Screens, Language, vars
      <4> QED BY <4>1 DEF nearby, screens, location, copies, TypeOK, NearbyTypeOK, IsTable
    <3> QED BY <3>1, <3>2
  <2> QED BY <2>1, <2>2, LocaleKeeps DEF TypeOK
<1> QED BY <1>1, <1>2, PTL DEF Spec
-----------------------------------------------------------------------------
(* The copies of the table *)

Finite == IsFiniteSet(DOMAIN route_tracking) /\ IsFiniteSet(DOMAIN trackingCounts)
Copied == ~behind => /\ focus = "nearby" => trackingCounts = route_tracking
                     /\ focus = "history" => tracking = route_tracking

(* A copy that is kept is what the table has. *)
LEMMA CopyIsNew ==
    ASSUME NEW prev, NEW next, IsTable(prev), IsTable(next),
           IsFiniteSet(DOMAIN prev), IsFiniteSet(DOMAIN next)
    PROVE  NewCounts(prev, next) = next
<1> SUFFICES ASSUME Cardinality(DOMAIN prev) = Cardinality(DOMAIN next),
                    \A n \in DOMAIN next : n \in DOMAIN prev /\ prev[n] = next[n]
             PROVE  prev = next
  BY DEF NewCounts
<1>1. DOMAIN prev = DOMAIN next
  <2>1. DOMAIN next \in SUBSET DOMAIN prev
    OBVIOUS
  <2> QED BY <2>1, FS_Subset
<1> QED BY <1>1 DEF IsTable

LEMMA FiniteKeeps ==
    ASSUME NearbyTypeOK, Finite, [Next]_vars
    PROVE  Finite'
<1>1. CASE \/ \E tab \in {"transport", "nearby", "history"} \ {focus} : Switch(tab)
           \/ \E s \in Services : OpenRoute(s)
           \/ Back
  BY <1>1 DEF Switch, OpenRoute, Back, Focus, NewCounts, Finite
<1>2. CASE IncrementRouteTracking
  <2>1. \/ route_tracking' = route_tracking
        \/ DOMAIN route_tracking' = DOMAIN route_tracking \cup {Head(counting)}
    BY <1>2 DEF IncrementRouteTracking
  <2>2. trackingCounts' = trackingCounts
    BY <1>2 DEF IncrementRouteTracking, copies
  <2> QED BY <2>1, <2>2, FS_AddElement DEF Finite
<1>3. ASSUME NEW n \in Name, HandleDeleteTracking(n)
      PROVE  Finite'
  <2>1. DOMAIN route_tracking' = DOMAIN route_tracking \ {n} /\ trackingCounts' = trackingCounts
    BY <1>3 DEF HandleDeleteTracking, Without
  <2> QED BY <2>1, FS_RemoveElement DEF Finite
<1>4. CASE Request \/ StartWatching \/ Moved \/ Arrive \/ RouteStops \/ Track \/ UNCHANGED nearby
  <2>1. UNCHANGED <<route_tracking, trackingCounts>>
    BY <1>4 DEF Request, StartWatching, Moved, Arrive, RouteStops, screens, Track, copies, nearby
  <2> QED BY <2>1 DEF Finite
<1> QED BY <1>1, <1>2, <1>3, <1>4 DEF Next, Voice, Screens, Language, NearbyNext, vars

LEMMA CopiesKeep ==
    ASSUME NearbyTypeOK, Finite, Copied, [Next]_vars
    PROVE  Copied'
<1>1. ASSUME NEW f, Focus(f), route_tracking' = route_tracking
      PROVE  Copied'
  <2>1. NewCounts(trackingCounts, route_tracking) = route_tracking
    BY CopyIsNew DEF NearbyTypeOK, Finite
  <2> QED BY <1>1, <2>1 DEF Focus, Copied
<1>2. CASE \/ \E tab \in {"transport", "nearby", "history"} \ {focus} : Switch(tab)
           \/ \E s \in Services : OpenRoute(s)
           \/ Back
  BY <1>1, <1>2 DEF Switch, OpenRoute, Back
<1>3. CASE IncrementRouteTracking
  <2>1. behind' = TRUE \/ UNCHANGED <<route_tracking, behind>>
    BY <1>3 DEF IncrementRouteTracking
  <2>2. UNCHANGED <<focus, trackingCounts, tracking>>
    BY <1>3 DEF IncrementRouteTracking, screens, copies
  <2> QED BY <2>1, <2>2 DEF Copied
<1>4. ASSUME NEW n \in Name, HandleDeleteTracking(n)
      PROVE  Copied'
  BY <1>4 DEF HandleDeleteTracking, Rows, screens, Copied
<1>5. CASE Request \/ StartWatching \/ Moved \/ Arrive \/ RouteStops \/ Track \/ UNCHANGED nearby
  <2>1. UNCHANGED <<focus, behind, route_tracking, trackingCounts, tracking>>
    BY <1>5 DEF Request, StartWatching, Moved, Arrive, RouteStops, screens, Track, copies, nearby
  <2> QED BY <2>1 DEF Copied
<1> QED BY <1>2, <1>3, <1>4, <1>5 DEF Next, Voice, Screens, Language, NearbyNext, vars

(* Badges, order and rows are those of the table route_tracking unless a
   service was counted while the screen had the focus (nearby/index.tsx and
   history/index.tsx, useFocusEffect), for any number of services. *)
THEOREM CopiesAreTrue == Spec => []CopiesMatchTable
<1>1. Init => Finite /\ Copied
  <2> SUFFICES ASSUME Init PROVE Finite /\ Copied
    OBVIOUS
  <2>1. /\ route_tracking = <<>> /\ trackingCounts = <<>> /\ focus = "transport"
        /\ DOMAIN <<>> = {}
    BY DEF Init, NearbyInit, Empty
  <2> QED BY <2>1, FS_EmptySet DEF Finite, Copied
<1>2. TypeOK /\ Finite /\ Copied /\ [Next]_vars => Finite' /\ Copied'
  BY FiniteKeeps, CopiesKeep DEF TypeOK
<1>3. TypeOK /\ Copied => CopiesMatchTable
  <2> SUFFICES ASSUME TypeOK, Copied, ~behind PROVE CopiesMatchTable
    BY DEF CopiesMatchTable
  <2>1. \A n \in DOMAIN route_tracking : route_tracking[n] \in Nat \ {0}
    BY DEF TypeOK, NearbyTypeOK, IsTable
  <2>2. ASSUME focus = "nearby", NEW s \in Services, NEW t \in Services
        PROVE  /\ Tracked(s) <=> Destination(s) \in DOMAIN route_tracking
               /\ Before(s, t) <=> Counts(route_tracking, Destination(s))
                                     > Counts(route_tracking, Destination(t))
    <3>1. trackingCounts = route_tracking
      BY <2>2 DEF Copied
    <3> QED BY <2>1, <3>1 DEF Tracked, Before, Counts
  <2> QED BY <2>2 DEF Copied, CopiesMatchTable
<1> QED BY <1>1, <1>2, <1>3, TypeCorrect, PTL DEF Spec
-----------------------------------------------------------------------------
(* The microphone *)

(* A start that was not overtaken, and the microphone it opens, belong to
   the sheet that shows and to its language. *)
Own == /\ \A s \in starts : s.mine => visible /\ s.lang = locale
       /\ mic # Off => visible /\ mic = locale

(* Unless the button was pressed twice one of the two is there. *)
One == ~twice => /\ \A s, t \in starts : s.mine /\ t.mine => s = t
                 /\ mic # Off => \A s \in starts : ~s.mine

(* Of an open microphone the last event that matters is its start, on its
   way or seen. *)
Said(i, j) == \A k \in Nat : i < k /\ k <= j => heard[k].name \in {"interim", "final"}
Opened ==
    ~twice /\ mic # Off =>
        \/ \E i \in 1..Len(heard) : heard[i].name = "start" /\ Said(i, Len(heard))
        \/ status = "listening" /\ Said(0, Len(heard))

LEMMA OthersAreOvertaken ==
    ASSUME Starts
    PROVE  \A s \in NextSession : ~s.mine
<1>1. \A s \in Start : ~[s EXCEPT !.mine = FALSE].mine
  BY DEF Start
<1> QED BY <1>1 DEF NextSession, Starts

LEMMA NewStart ==
    ASSUME Starts, NEW l, start(l)
    PROVE  /\ \A s \in starts' : s.mine => s.lang = l
           /\ \A s, t \in starts' : s.mine /\ t.mine => s = t
<1> DEFINE new == [step |-> "permission", lang |-> l, mine |-> TRUE]
<1>1. starts' = NextSession \cup {new} /\ new.lang = l
  BY DEF start
<1> HIDE DEF new
<1>2. \A s \in starts' : s.mine => s = new
  BY <1>1, OthersAreOvertaken
<1> QED BY <1>1, <1>2

LEMMA AppearKeeps ==
    ASSUME Starts, NEW v, NEW l, Appear(v, l), locale' = l
    PROVE  Own' /\ One' /\ Opened'
<1>1. mic' = Off /\ visible' = v
  BY DEF Appear, abort
<1>2. CASE v
  BY <1>1, <1>2, NewStart DEF Appear, Own, One, Opened
<1>3. CASE ~v
  BY <1>1, <1>3, OthersAreOvertaken DEF Appear, Own, One, Opened
<1> QED BY <1>2, <1>3

LEMMA StartGoesOn ==
    ASSUME VoiceTypeOK, Own, One, Opened, NEW s \in starts,
           Permission(s) \/ HasOnDeviceModel(s)
    PROVE  Own' /\ One' /\ Opened'
<1>0. s \in Start /\ [s EXCEPT !.step = "model"].mine = s.mine
      /\ [s EXCEPT !.step = "model"].lang = s.lang
  BY DEF VoiceTypeOK, Start
<1>1. UNCHANGED <<visible, locale, twice>>
  BY DEF Permission, HasOnDeviceModel, sheet, takes, i18n
<1>2. CASE UNCHANGED <<status, native>>
  <2>1. \/ starts' \subseteq starts
        \/ s.mine /\ starts' = (starts \ {s}) \cup {[s EXCEPT !.step = "model"]}
    BY DEF Permission, HasOnDeviceModel, Rest
  <2>2. Own' /\ One'
    BY <1>0, <1>1, <1>2, <2>1 DEF native, Own, One
  <2>3. Opened'
    BY <1>1, <1>2 DEF native, Opened, Said
  <2> QED BY <2>2, <2>3
<1>3. ASSUME NEW e, s.mine, Rest(s), Fail(e)
      PROVE  Own' /\ One' /\ Opened'
  <2>1. ~twice => mic = Off
    BY <1>3 DEF One
  <2>2. UNCHANGED <<mic, heard>> /\ starts' = starts \ {s}
    BY <1>3 DEF Fail, Rest, native
  <2> QED BY <1>1, <2>1, <2>2 DEF Own, One, Opened
<1>4. ASSUME s.mine, mic' = s.lang, Rest(s),
             heard' = heard \o (IF mic = Off THEN <<>> ELSE <<Event("end")>>)
                            \o <<Event("start")>>
      PROVE  Own' /\ One' /\ Opened'
  <2>1. starts' = starts \ {s} /\ visible /\ s.lang = locale
    BY <1>4 DEF Rest, Own
  <2>2. Own' /\ One'
    BY <1>1, <1>4, <2>1 DEF Own, One
  <2>3. /\ Len(heard') \in 1..Len(heard') /\ heard'[Len(heard')].name = "start"
    <3> DEFINE q == heard \o (IF mic = Off THEN <<>> ELSE <<Event("end")>>)
    <3>1. q \in Seq(Heard)
      <4>1. heard \in Seq(Heard) /\ <<>> \in Seq(Heard) /\ <<Event("end")>> \in Seq(Heard)
        BY EventsAreHeard DEF VoiceTypeOK, Heard
      <4> QED BY <4>1
    <3>2. <<Event("start")>> \in Seq(Heard) /\ Event("start").name = "start"
      BY EventsAreHeard DEF Event
    <3>3. heard' = q \o <<Event("start")>>
      BY <1>4
    <3> HIDE DEF q
    <3>4. Len(heard') = Len(q) + 1 /\ heard'[Len(q) + 1] = Event("start") /\ Len(q) \in Nat
      BY <3>1, <3>2, <3>3
    <3> QED BY <3>2, <3>4
  <2>4. \E i \in 1..Len(heard') : /\ heard'[i].name = "start"
                                  /\ \A k \in Nat : i < k /\ k <= Len(heard') =>
                                        heard'[k].name \in {"interim", "final"}
    BY <2>3
  <2> QED BY <2>2, <2>4 DEF Opened, Said
<1> QED BY <1>2, <1>3, <1>4 DEF Permission, HasOnDeviceModel, native

(* What the recognizer says later, and what the handlers have seen. *)
LEMMA SpeechKeeps ==
    ASSUME VoiceTypeOK, Own, One, Opened, Speak \/ Understand \/ TakeBack
    PROVE  Own' /\ One' /\ Opened'
<1>1. UNCHANGED <<visible, locale, twice, mic, starts, status>>
  BY DEF Speak, Understand, TakeBack, Says, sheet, hook, takes, i18n
<1>2. Own' /\ One'
  BY <1>1 DEF Own, One
<1>3. PICK e : heard' = heard \o <<e>> /\ e.name \in {"interim", "final"}
  <2>1. \A n, w : Result(n, w).name = n
    BY DEF Result
  <2> QED BY <2>1 DEF Speak, Understand, TakeBack, Says
<1>4. e.name \in {"interim", "final"}
  BY <1>3
<1>5. heard \in Seq(Heard)
  BY DEF VoiceTypeOK, Heard
<1>6. /\ Len(heard) \in Nat /\ Len(heard') = Len(heard) + 1
      /\ heard'[Len(heard) + 1] = e /\ \A i \in 1..Len(heard) : heard'[i] = heard[i]
  BY <1>3, <1>5
<1>7. ASSUME NEW i \in Nat, Said(i, Len(heard)), NEW k \in Nat, i < k, k <= Len(heard')
      PROVE  heard'[k].name \in {"interim", "final"}
  <2>1. CASE k = Len(heard) + 1
    BY <1>4, <1>6, <2>1
  <2>2. CASE k # Len(heard) + 1
    <3>1. k \in 1..Len(heard)
      BY <1>6, <1>7, <2>2
    <3> QED BY <1>6, <1>7, <3>1 DEF Said
  <2> QED BY <2>1, <2>2
<1>8. Opened'
  <2> SUFFICES ASSUME ~twice, mic # Off PROVE Opened'
    BY <1>1 DEF Opened
  <2>1. CASE \E i \in 1..Len(heard) : heard[i].name = "start" /\ Said(i, Len(heard))
    <3>1. PICK i \in 1..Len(heard) : heard[i].name = "start" /\ Said(i, Len(heard))
      BY <2>1
    <3>2. i \in Nat /\ i \in 1..Len(heard') /\ heard'[i].name = "start"
      BY <1>6, <3>1
    <3> QED BY <1>7, <3>1, <3>2 DEF Opened, Said
  <2>2. CASE status = "listening" /\ Said(0, Len(heard))
    BY <1>1, <1>7, <2>2 DEF Opened, Said
  <2> QED BY <2>1, <2>2 DEF Opened
<1> QED BY <1>2, <1>8

LEMMA HandlersKeep ==
    ASSUME VoiceTypeOK, Own, One, Opened, OnStart \/ OnResult \/ OnError \/ OnEnd
    PROVE  Own' /\ One' /\ Opened'
<1>1. UNCHANGED <<visible, locale, twice, mic, starts>>
  BY DEF OnStart, OnResult, OnError, OnEnd, sheet, takes, i18n
<1>2. Own' /\ One'
  BY <1>1 DEF Own, One
<1>3. heard \in Seq(Heard) /\ heard # <<>> /\ heard' = Tail(heard) /\ Head(heard) = heard[1]
  BY SMTT(30) DEF VoiceTypeOK, Heard, OnStart, OnResult, OnError, OnEnd, On, Silent
<1>4. /\ Len(heard) \in Nat \ {0} /\ Len(heard') = Len(heard) - 1
      /\ \A i \in 1..Len(heard') : heard'[i] = heard[i + 1]
  <2>1. Len(heard) \in Nat \ {0} /\ Len(Tail(heard)) = Len(heard) - 1
    BY <1>3
  <2> QED BY <1>3, <2>1
<1>5. ASSUME NEW i \in Nat, i > 0, Said(i, Len(heard)), NEW k \in Nat, i - 1 < k, k <= Len(heard')
      PROVE  heard'[k].name \in {"interim", "final"}
  <2>1. k \in 1..Len(heard') /\ k + 1 \in Nat /\ i < k + 1 /\ k + 1 <= Len(heard)
    BY <1>4, <1>5
  <2> QED BY <1>4, <1>5, <2>1 DEF Said
<1>6. /\ heard[1].name \in {"interim", "final"} => status' = status
      /\ heard[1].name = "start" => status' = "listening"
  BY <1>3 DEF OnStart, OnResult, OnError, OnEnd, On
<1>7. Opened'
  <2> SUFFICES ASSUME ~twice, mic # Off PROVE Opened'
    BY <1>1 DEF Opened
  <2>1. CASE \E i \in 1..Len(heard) : heard[i].name = "start" /\ Said(i, Len(heard))
    <3>1. PICK i \in 1..Len(heard) : heard[i].name = "start" /\ Said(i, Len(heard))
      BY <2>1
    <3>2. CASE i = 1
      <4>1. status' = "listening"
        BY <1>6, <3>1, <3>2
      <4>2. \A k \in Nat : 0 < k /\ k <= Len(heard') => heard'[k].name \in {"interim", "final"}
        BY <1>5, <3>1, <3>2
      <4> QED BY <4>1, <4>2 DEF Opened, Said
    <3>3. CASE i # 1
      <4>1. i \in Nat /\ i > 0 /\ i - 1 \in 1..Len(heard') /\ (i - 1) + 1 = i
        BY <1>4, <3>3
      <4>2. heard'[i - 1].name = "start"
        BY <1>4, <3>1, <4>1
      <4>3. \A k \in Nat : i - 1 < k /\ k <= Len(heard') => heard'[k].name \in {"interim", "final"}
        BY <1>5, <3>1, <4>1
      <4> QED BY <4>1, <4>2, <4>3 DEF Opened, Said
    <3> QED BY <3>2, <3>3
  <2>2. CASE status = "listening" /\ Said(0, Len(heard))
    <3>1. heard[1].name \in {"interim", "final"}
      BY <1>4, <2>2 DEF Said
    <3>2. Said(1, Len(heard))
      BY <2>2 DEF Said
    <3>3. \A k \in Nat : 0 < k /\ k <= Len(heard') => heard'[k].name \in {"interim", "final"}
      BY <1>5, <3>2
    <3> QED BY <1>6, <2>2, <3>1, <3>3 DEF Opened, Said
  <2> QED BY <2>1, <2>2 DEF Opened
<1> QED BY <1>2, <1>7

LEMMA PressKeeps ==
    ASSUME VoiceTypeOK, I18nTypeOK, Own, One, Opened, HandleChangeText \/ HandleMicPress
    PROVE  Own' /\ One' /\ Opened'
<1>1. visible /\ visible' /\ UNCHANGED <<locale, mic>>
  BY DEF HandleChangeText, HandleMicPress, Tappable, sheet, native, stop, i18n
<1>2. CASE UNCHANGED <<status, twice>> /\ (stop \/ UNCHANGED <<starts, native>>)
  <2>1. mic # Off => heard' = heard
    BY <1>2 DEF stop, native
  <2>2. starts' = starts \/ \A s \in starts' : ~s.mine
    BY <1>2, OthersAreOvertaken DEF stop, VoiceTypeOK, Starts
  <2>3. Own' /\ One'
    BY <1>1, <1>2, <2>2 DEF Own, One
  <2> QED BY <1>1, <1>2, <2>1, <2>3 DEF Opened, Said
<1>3. CASE start(locale) /\ twice' = (twice \/ mic # Off \/ \E s \in starts : s.mine)
  <2>1. /\ \A s \in starts' : s.mine => s.lang = locale
        /\ \A s, t \in starts' : s.mine /\ t.mine => s = t
    BY <1>3, NewStart DEF VoiceTypeOK, Starts
  <2>2. ~twice' => mic' = Off
    BY <1>1, <1>3
  <2> QED BY <1>1, <2>1, <2>2 DEF Own, One, Opened
<1> QED BY <1>2, <1>3 DEF HandleChangeText, HandleMicPress, takes

LEMMA MicKeeps ==
    ASSUME I18nTypeOK, VoiceTypeOK, Own, One, Opened, [Next]_vars
    PROVE  Own' /\ One' /\ Opened'
<1>1. CASE OpenSheet \/ CloseSheet \/ (\E l \in Locales : Appear(visible, l) /\ locale' = l)
  BY <1>1, AppearKeeps DEF OpenSheet, CloseSheet, i18n, VoiceTypeOK, Starts
<1>2. CASE Cease
  <2>1. mic' = Off /\ UNCHANGED <<visible, locale, twice, starts>>
    BY <1>2 DEF Cease, Says, sheet, hook, takes, i18n
  <2> QED BY <2>1 DEF Own, One, Opened
<1>3. CASE UNCHANGED <<voice, locale>>
  BY <1>3 DEF voice, sheet, hook, native, takes, Own, One, Opened, Said
<1> QED BY <1>1, <1>2, <1>3, StartGoesOn, SpeechKeeps, HandlersKeep, PressKeeps, VoiceCases

(* The microphone is open only for the sheet that shows, in its language,
   and the button says so (the sessions of start in use-voice-input.ts), for
   any number of starts, words and languages. *)
THEOREM MicIsHonest == Spec => []MicIsShown
<1>1. Init => Own /\ One /\ Opened
  BY DEF Init, VoiceInit, Own, One, Opened
<1>2. TypeOK /\ Own /\ One /\ Opened /\ [Next]_vars => Own' /\ One' /\ Opened'
  BY MicKeeps DEF TypeOK
<1>3. Own /\ Opened => MicIsShown
  <2> SUFFICES ASSUME Own, Opened, mic # Off, heard = Silent, ~twice
               PROVE  status = "listening"
    BY DEF MicIsShown, Own
  <2>1. Len(heard) = 0
    BY DEF Silent
  <2> QED BY <2>1 DEF Opened
<1> QED BY <1>1, <1>2, <1>3, TypeCorrect, PTL DEF Spec
-----------------------------------------------------------------------------
(* Words *)

(* The word that awaits its final result, before an event and after it: a new
   word, its final result, or one without text. *)
Fresh(e) == e.name = "interim" /\ e.word # Typed
Final(e) == e.name = "final" /\ e.word # Typed
Blank(e) == e.name \in {"interim", "final"} /\ e.word = Typed
Hears(p, e, q) ==
    /\ Fresh(e) => p = Typed /\ q = e.word
    /\ Final(e) => p = e.word /\ q = Typed
    /\ Blank(e) \/ e.name = "end" => q = Typed
    /\ e.name \notin {"interim", "final", "end"} => q = p

(* The events of h lead from the word f, that awaits its final result, to
   the word p. *)
Queued(f, h, p) ==
    \E o \in [0..Len(h) -> 0..MaxWords] :
        /\ o[0] = f /\ o[Len(h)] = p
        /\ \A i \in 1..Len(h) : Hears(o[i - 1], h[i], o[i])

(* New words come in order, and after the word w. *)
New(h, i) == i \in 1..Len(h) /\ Fresh(h[i])
InOrder(h, n) ==
    /\ \A i \in 1..Len(h) : New(h, i) => h[i].word \in 1..n
    /\ \A i, j \in 1..Len(h) : New(h, i) /\ New(h, j) /\ i < j => h[i].word < h[j].word
Above(h, w) == \A i \in 1..Len(h) : New(h, i) => w < h[i].word

LEMMA QueuedMore ==
    ASSUME NEW h \in Seq(Heard), NEW e \in Heard, NEW f, NEW p, NEW q \in 0..MaxWords,
           Queued(f, h, p), Hears(p, e, q)
    PROVE  Queued(f, Append(h, e), q)
<1>1. PICK o \in [0..Len(h) -> 0..MaxWords] :
         /\ o[0] = f /\ o[Len(h)] = p
         /\ \A i \in 1..Len(h) : Hears(o[i - 1], h[i], o[i])
  BY DEF Queued
<1>2. /\ Len(h) \in Nat /\ Len(Append(h, e)) = Len(h) + 1
      /\ Append(h, e)[Len(h) + 1] = e /\ \A i \in 1..Len(h) : Append(h, e)[i] = h[i]
  OBVIOUS
<1> DEFINE n == Len(h) + 1
           r == [i \in 0..n |-> IF i = n THEN q ELSE o[i]]
<1>3. r \in [0..n -> 0..MaxWords] /\ r[0] = f /\ r[n] = q
  BY <1>1, <1>2
<1>4. ASSUME NEW i \in 1..n
      PROVE  Hears(r[i - 1], Append(h, e)[i], r[i])
  <2>1. CASE i = n
    <3>1. r[i - 1] = p /\ r[i] = q /\ Append(h, e)[i] = e
      BY <1>1, <1>2, <2>1
    <3> QED BY <3>1
  <2>2. CASE i # n
    <3>1. i \in 1..Len(h) /\ r[i - 1] = o[i - 1] /\ r[i] = o[i] /\ Append(h, e)[i] = h[i]
      BY <1>2, <2>2
    <3> QED BY <1>1, <3>1
  <2> QED BY <2>1, <2>2
<1> HIDE DEF r
<1> QED BY <1>2, <1>3, <1>4 DEF Queued

LEMMA QueuedNext ==
    ASSUME NEW h \in Seq(Heard), h # <<>>, NEW f, NEW p, Queued(f, h, p)
    PROVE  \E g \in 0..MaxWords : Hears(f, Head(h), g) /\ Queued(g, Tail(h), p)
<1>1. PICK o \in [0..Len(h) -> 0..MaxWords] :
         /\ o[0] = f /\ o[Len(h)] = p
         /\ \A i \in 1..Len(h) : Hears(o[i - 1], h[i], o[i])
  BY DEF Queued
<1>2. /\ Len(h) \in Nat \ {0} /\ Len(Tail(h)) = Len(h) - 1 /\ Head(h) = h[1]
      /\ \A i \in 1..Len(h) - 1 : Tail(h)[i] = h[i + 1]
  OBVIOUS
<1> DEFINE n == Len(h) - 1
           r == [i \in 0..n |-> o[i + 1]]
<1>3. r \in [0..n -> 0..MaxWords] /\ r[0] = o[1] /\ r[n] = p
  BY <1>1, <1>2
<1>4. ASSUME NEW i \in 1..n
      PROVE  Hears(r[i - 1], Tail(h)[i], r[i])
  <2>1. i + 1 \in 1..Len(h) /\ r[i - 1] = o[(i + 1) - 1] /\ r[i] = o[i + 1]
        /\ Tail(h)[i] = h[i + 1]
    BY <1>2
  <2> QED BY <1>1, <2>1
<1>5. Hears(f, Head(h), o[1])
  <2>1. 1 \in 1..Len(h) /\ 1 - 1 = 0
    BY <1>2
  <2> QED BY <1>1, <1>2, <2>1
<1> HIDE DEF r
<1>6. Queued(o[1], Tail(h), p)
  BY <1>2, <1>3, <1>4 DEF Queued
<1>7. o[1] \in 0..MaxWords
  BY <1>1, <1>2
<1> QED BY <1>5, <1>6, <1>7

(* Without a final result on its way, the word that awaits one may as well
   be forgotten. *)
LEMMA QueuedAnew ==
    ASSUME NEW h \in Seq(Heard), NEW f, Queued(f, h, Typed),
           \A i \in 1..Len(h) : ~Final(h[i])
    PROVE  Queued(Typed, h, Typed)
<1>1. PICK o \in [0..Len(h) -> 0..MaxWords] :
         /\ o[0] = f /\ o[Len(h)] = Typed
         /\ \A i \in 1..Len(h) : Hears(o[i - 1], h[i], o[i])
  BY DEF Queued
<1>2. Len(h) \in Nat /\ Typed \in 0..MaxWords
  BY Bounds DEF Typed
<1> DEFINE Same(i) == \A j \in 0..i : o[j] = f
           r == [i \in 0..Len(h) |-> IF Same(i) THEN Typed ELSE o[i]]
<1>3. r \in [0..Len(h) -> 0..MaxWords] /\ r[0] = Typed /\ r[Len(h)] = Typed
  BY <1>1, <1>2
<1>4. ASSUME NEW i \in 1..Len(h), f # Typed
      PROVE  Hears(r[i - 1], h[i], r[i])
  <2>1. Hears(o[i - 1], h[i], o[i]) /\ i - 1 \in 0..Len(h) /\ i \in 0..Len(h)
    BY <1>1, <1>2
  <2>2. Same(i) <=> Same(i - 1) /\ o[i] = f
    BY <1>2
  <2>3. o[i - 1] = f \/ ~Same(i - 1)
    BY <1>2
  <2>4. r[i - 1] = (IF Same(i - 1) THEN Typed ELSE o[i - 1])
        /\ r[i] = (IF Same(i) THEN Typed ELSE o[i])
    BY <2>1
  <2> HIDE DEF r, Same
  <2>5. CASE Same(i - 1)
    BY <1>4, <2>1, <2>2, <2>3, <2>4, <2>5 DEF Hears, Fresh, Final, Blank
  <2>6. CASE ~Same(i - 1)
    BY <2>1, <2>2, <2>4, <2>6
  <2> QED BY <2>5, <2>6
<1> HIDE DEF r
<1> QED BY <1>3, <1>4 DEF Queued

LEMMA QueuedNone == Queued(Typed, <<>>, Typed)
<1> DEFINE o == [i \in 0..0 |-> Typed]
<1>1. Len(<<>>) = 0 /\ o \in [0..0 -> 0..MaxWords] /\ o[0] = Typed
  BY Bounds DEF Typed
<1> HIDE DEF o
<1> QED BY <1>1 DEF Queued

(* What an event at the end, or the first taken away, does to the order. *)
LEMMA OrderMore ==
    ASSUME NEW h \in Seq(Heard), NEW e \in Heard, NEW n \in Nat, InOrder(h, n),
           NEW m \in {n, n + 1}, Fresh(e) => m = n + 1 /\ e.word = m
    PROVE  /\ InOrder(Append(h, e), m)
           /\ \A w \in 0..n : Above(h, w) => Above(Append(h, e), w)
<1> DEFINE g == Append(h, e)
<1>1. /\ Len(h) \in Nat /\ Len(g) = Len(h) + 1
      /\ g[Len(h) + 1] = e /\ \A i \in 1..Len(h) : g[i] = h[i]
  OBVIOUS
<1> HIDE DEF g
<1>2. ASSUME NEW i, New(g, i)
      PROVE  \/ New(h, i) /\ g[i] = h[i]
             \/ i = Len(h) + 1 /\ g[i].word = n + 1 /\ m = n + 1
  BY <1>1, <1>2 DEF New
<1>3. \A i \in 1..Len(h) : New(h, i) => h[i].word \in 1..n
  BY DEF InOrder
<1>4. \A i \in 1..Len(g) : New(g, i) => g[i].word \in 1..m
  BY <1>2, <1>3 DEF New
<1>5. ASSUME NEW i \in 1..Len(g), NEW j \in 1..Len(g), New(g, i), New(g, j), i < j
      PROVE  g[i].word < g[j].word
  <2>1. New(h, i) /\ g[i] = h[i] /\ g[i].word \in 1..n
    BY <1>1, <1>2, <1>3, <1>5 DEF New
  <2> QED BY <1>2, <1>5, <2>1 DEF InOrder, New
<1>6. \A w \in 0..n : Above(h, w) => Above(g, w)
  BY <1>2 DEF Above, New
<1> QED BY <1>4, <1>5, <1>6 DEF InOrder, g

LEMMA OrderNext ==
    ASSUME NEW h \in Seq(Heard), h # <<>>, NEW n \in Nat, InOrder(h, n)
    PROVE  /\ InOrder(Tail(h), n)
           /\ \A w : Above(h, w) => Above(Tail(h), w)
           /\ Fresh(Head(h)) =>
                /\ Head(h).word \in 1..n /\ Above(Tail(h), Head(h).word)
                /\ \A w : Above(h, w) => w < Head(h).word
<1> DEFINE t == Tail(h)
<1>1. /\ Len(h) \in Nat \ {0} /\ Len(t) = Len(h) - 1 /\ Head(h) = h[1]
      /\ \A i \in 1..Len(t) : t[i] = h[i + 1]
  OBVIOUS
<1> HIDE DEF t
<1>2. ASSUME NEW i, New(t, i)
      PROVE  i + 1 \in 1..Len(h) /\ 1 \in 1..Len(h) /\ 1 < i + 1 /\ New(h, i + 1) /\ t[i] = h[i + 1]
  BY <1>1, <1>2 DEF New
<1>3. ASSUME NEW i \in 1..Len(t), NEW j \in 1..Len(t), New(t, i), New(t, j), i < j
      PROVE  t[i].word < t[j].word
  <2>1. i + 1 < j + 1
    BY <1>3
  <2> QED BY <1>2, <1>3, <2>1 DEF InOrder
<1>4. InOrder(t, n)
  BY <1>2, <1>3 DEF InOrder
<1>5. \A w : Above(h, w) => Above(t, w)
  BY <1>2 DEF Above
<1>6. ASSUME Fresh(Head(h))
      PROVE  /\ Head(h).word \in 1..n /\ Above(t, Head(h).word)
             /\ \A w : Above(h, w) => w < Head(h).word
  <2>1. 1 \in 1..Len(h) /\ New(h, 1)
    BY <1>1, <1>6 DEF New
  <2> QED BY <1>1, <1>2, <2>1 DEF InOrder, Above
<1> QED BY <1>4, <1>5, <1>6 DEF t

(* The recognizer goes on: from every word the events still lead to the one
   that it will have the final result of. *)
Idle == mic = Off => saying = Typed
GoesOn ==
    /\ Idle'
    /\ spoken' \in Nat /\ spoken <= spoken'
    /\ InOrder(heard', spoken')
    /\ \A f : Queued(f, heard, saying) => Queued(f, heard', saying')
    /\ \A w \in 0..spoken : Above(heard, w) => Above(heard', w)

LEMMA OneMore ==
    ASSUME VoiceTypeOK, InOrder(heard, spoken),
           NEW e \in Heard, heard' = Append(heard, e), Hears(saying, e, saying'),
           saying' \in 0..MaxWords, spoken' \in {spoken, spoken + 1},
           Fresh(e) => spoken' = spoken + 1 /\ e.word = spoken', Idle'
    PROVE  GoesOn
<1>1. heard \in Seq(Heard) /\ spoken \in Nat
  BY Bounds DEF VoiceTypeOK, Heard
<1>2. InOrder(heard', spoken') /\ \A w \in 0..spoken : Above(heard, w) => Above(heard', w)
  BY <1>1, OrderMore
<1>3. \A f : Queued(f, heard, saying) => Queued(f, heard', saying')
  BY <1>1, QueuedMore
<1> QED BY <1>1, <1>2, <1>3 DEF GoesOn

LEMMA TwoMore ==
    ASSUME VoiceTypeOK, InOrder(heard, spoken),
           NEW d \in Heard, NEW e \in Heard, heard' = Append(Append(heard, d), e),
           NEW p \in 0..MaxWords, Hears(saying, d, p), Hears(p, e, saying'),
           saying' \in 0..MaxWords, spoken' = spoken,
           ~Fresh(d), ~Fresh(e), Idle'
    PROVE  GoesOn
<1>1. heard \in Seq(Heard) /\ Append(heard, d) \in Seq(Heard) /\ spoken \in Nat
  BY Bounds DEF VoiceTypeOK, Heard
<1>2. /\ InOrder(Append(heard, d), spoken)
      /\ \A w \in 0..spoken : Above(heard, w) => Above(Append(heard, d), w)
  BY <1>1, OrderMore
<1>3. /\ InOrder(heard', spoken)
      /\ \A w \in 0..spoken : Above(Append(heard, d), w) => Above(heard', w)
  BY <1>1, <1>2, OrderMore
<1>4. ASSUME NEW f, Queued(f, heard, saying)
      PROVE  Queued(f, heard', saying')
  <2>1. Queued(f, Append(heard, d), p)
    BY <1>1, <1>4, QueuedMore
  <2> QED BY <1>1, <2>1, QueuedMore
<1> QED BY <1>1, <1>2, <1>3, <1>4 DEF GoesOn

LEMMA NoMore ==
    ASSUME VoiceTypeOK, Idle, InOrder(heard, spoken), UNCHANGED <<heard, saying, spoken>>,
           mic' = Off => mic = Off
    PROVE  GoesOn
BY Bounds DEF VoiceTypeOK, Idle, GoesOn

LEMMA JoinedEvents ==
    ASSUME NEW h \in Seq(Heard), NEW d \in Heard, NEW e \in Heard
    PROVE  /\ h \o <<e>> = Append(h, e)
           /\ h \o <<d, e>> = Append(Append(h, d), e)
           /\ h \o <<d>> \o <<e>> = Append(Append(h, d), e)
           /\ h \o <<>> = h
<1>1. h \o <<e>> = Append(h, e) /\ h \o <<d>> = Append(h, d) /\ Append(h, d) \in Seq(Heard)
  OBVIOUS
<1>2. Append(h, d) \o <<e>> = Append(Append(h, d), e)
  BY <1>1
<1>3. <<d, e>> = <<d>> \o <<e>> /\ <<d>> \in Seq(Heard) /\ <<e>> \in Seq(Heard)
  <2>1. /\ <<d>> \in Seq(Heard) /\ <<e>> \in Seq(Heard) /\ <<d, e>> \in Seq(Heard)
        /\ Len(<<d>>) = 1 /\ Len(<<e>>) = 1 /\ Len(<<d, e>>) = 2
        /\ <<d>>[1] = d /\ <<e>>[1] = e /\ <<d, e>>[1] = d /\ <<d, e>>[2] = e
    OBVIOUS
  <2> DEFINE p == <<d>>
             q == <<e>>
             r == <<d, e>>
  <2> HIDE DEF p, q, r
  <2>2. p \in Seq(Heard) /\ q \in Seq(Heard) /\ r \in Seq(Heard) /\ Len(r) = 2
        /\ Len(p) = 1 /\ Len(q) = 1 /\ p[1] = r[1] /\ q[1] = r[2]
    BY <2>1 DEF p, q, r
  <2>3. /\ p \o q \in Seq(Heard) /\ Len(p \o q) = 2
        /\ \A i \in 1..2 : (p \o q)[i] = r[i]
    <3>1. /\ p \o q \in Seq(Heard) /\ Len(p \o q) = Len(p) + Len(q)
          /\ \A i \in 1..Len(p) + Len(q) :
                (p \o q)[i] = IF i <= Len(p) THEN p[i] ELSE q[i - Len(p)]
      BY <2>2, ConcatProperties
    <3>2. \A i \in 1..2 : i = 1 \/ (i = 2 /\ i - 1 = 1 /\ ~(i <= 1))
      OBVIOUS
    <3> QED BY <2>2, <3>1, <3>2
  <2>4. r = p \o q
    BY <2>2, <2>3, SeqEqual
  <2> QED BY <2>1, <2>4 DEF p, q, r
<1>4. h \o <<d, e>> = (h \o <<d>>) \o <<e>>
  BY <1>3, ConcatAssociative
<1>5. h \o <<>> = h
  BY ConcatEmptySeq
<1> QED BY <1>1, <1>2, <1>4, <1>5

LEMMA StopGoesOn ==
    ASSUME VoiceTypeOK, Idle, InOrder(heard, spoken), stop
    PROVE  GoesOn
<1>1. CASE UNCHANGED heard
  BY <1>1, NoMore DEF stop
<1>2. CASE mic = Off /\ heard' = Append(heard, Event("end"))
  <2>1. saying' = Typed /\ saying = Typed /\ Idle' /\ spoken' = spoken
    BY <1>2 DEF stop, Idle
  <2>2. Event("end") \in Heard /\ Event("end").name = "end"
    BY EventsAreHeard DEF Event
  <2>3. Hears(saying, Event("end"), saying') /\ Typed \in 0..MaxWords
    BY <2>1, <2>2, Bounds DEF Hears, Fresh, Final, Blank, Typed
  <2> QED BY <1>2, <2>1, <2>2, <2>3, OneMore DEF Fresh
<1> QED BY <1>1, <1>2 DEF stop

LEMMA AbortGoesOn ==
    ASSUME VoiceTypeOK, Idle, InOrder(heard, spoken), abort
    PROVE  GoesOn
<1>1. mic' = Off /\ saying' = Typed /\ spoken' = spoken /\ Idle'
  BY DEF abort, Idle
<1>2. CASE mic = Off /\ UNCHANGED heard
  <2>1. saying = Typed
    BY <1>2 DEF Idle
  <2> QED BY <1>1, <1>2, <2>1, NoMore
<1>3. CASE heard' = heard \o Aborted
  <2>1. /\ Event("aborted") \in Heard /\ Event("aborted").name = "aborted"
        /\ Event("end") \in Heard /\ Event("end").name = "end"
    BY EventsAreHeard DEF Event
  <2>2. heard' = Append(Append(heard, Event("aborted")), Event("end"))
    BY <1>3, <2>1, JoinedEvents DEF Aborted, VoiceTypeOK, Heard
  <2>3. saying \in 0..MaxWords /\ Typed \in 0..MaxWords
    BY Bounds DEF VoiceTypeOK, Typed
  <2>4. Hears(saying, Event("aborted"), saying) /\ Hears(saying, Event("end"), saying')
    BY <1>1, <2>1 DEF Hears, Fresh, Final, Blank
  <2> QED BY <1>1, <2>1, <2>2, <2>3, <2>4, TwoMore DEF Fresh
<1> QED BY <1>2, <1>3 DEF abort

LEMMA ModelGoesOn ==
    ASSUME VoiceTypeOK, Idle, InOrder(heard, spoken), NEW s \in starts,
           HasOnDeviceModel(s) \/ Permission(s)
    PROVE  GoesOn
<1>1. CASE UNCHANGED native
  BY <1>1, NoMore DEF native
<1>2. ASSUME mic' = s.lang, saying' = Typed, UNCHANGED spoken,
             heard' = heard \o (IF mic = Off THEN <<>> ELSE <<Event("end")>>)
                            \o <<Event("start")>>
      PROVE  GoesOn
  <2>1. /\ Event("start") \in Heard /\ Event("start").name = "start"
        /\ Event("end") \in Heard /\ Event("end").name = "end"
    BY EventsAreHeard DEF Event
  <2>2. saying \in 0..MaxWords /\ Typed \in 0..MaxWords /\ Idle'
    BY <1>2, Bounds DEF VoiceTypeOK, Typed, Idle
  <2>3. heard \in Seq(Heard)
    BY DEF VoiceTypeOK, Heard
  <2>4. CASE mic = Off
    <3>1. heard' = Append(heard, Event("start"))
      BY <1>2, <2>1, <2>3, <2>4, JoinedEvents
    <3>2. Hears(saying, Event("start"), saying')
      BY <1>2, <2>1, <2>4 DEF Hears, Fresh, Final, Blank, Idle
    <3> QED BY <1>2, <2>1, <2>2, <3>1, <3>2, OneMore DEF Fresh
  <2>5. CASE mic # Off
    <3>1. heard' = Append(Append(heard, Event("end")), Event("start"))
      BY <1>2, <2>1, <2>3, <2>5, JoinedEvents
    <3>2. Hears(saying, Event("end"), Typed) /\ Hears(Typed, Event("start"), saying')
      BY <1>2, <2>1 DEF Hears, Fresh, Final, Blank
    <3> QED BY <1>2, <2>1, <2>2, <3>1, <3>2, TwoMore DEF Fresh
  <2> QED BY <2>4, <2>5
<1> QED BY <1>1, <1>2 DEF HasOnDeviceModel, Permission, Fail, native

LEMMA SpeechGoesOn ==
    ASSUME VoiceTypeOK, Idle, InOrder(heard, spoken), Speak \/ Understand \/ TakeBack \/ Cease
    PROVE  GoesOn
<1>1. heard \in Seq(Heard) /\ saying \in 0..MaxWords /\ spoken \in 0..MaxWords
      /\ Typed \in 0..MaxWords
  BY Bounds DEF VoiceTypeOK, Heard, Typed
<1>2. CASE Speak
  <2> DEFINE e == Result("interim", spoken + 1)
  <2>1. /\ spoken + 1 \in 0..MaxWords /\ saying' = spoken + 1 /\ spoken' = spoken + 1
        /\ saying = Typed /\ Idle'
    BY <1>1, <1>2, Bounds DEF Speak, Says, Idle
  <2>2. e \in Heard /\ e.name = "interim" /\ e.word = spoken + 1
    BY <2>1, EventsAreHeard DEF Result
  <2>3. heard' = heard \o <<e>>
    BY <1>2 DEF Speak, Says
  <2> HIDE DEF e
  <2>4. heard' = Append(heard, e) /\ Hears(saying, e, saying')
    BY <1>1, <2>1, <2>2, <2>3, JoinedEvents DEF Hears, Fresh, Final, Blank
  <2> QED BY <2>1, <2>2, <2>4, OneMore
<1>3. ASSUME saying' = Typed, UNCHANGED spoken, NEW n \in {"interim", "final"},
             NEW w \in {saying, Typed}, w = Typed \/ n = "final",
             heard' = heard \o <<Result(n, w)>>
      PROVE  GoesOn
  <2> DEFINE e == Result(n, w)
  <2>1. e \in Heard /\ e.name = n /\ e.word = w
    BY <1>1, <1>3, EventsAreHeard DEF Result
  <2>2. heard' = heard \o <<e>>
    BY <1>3
  <2> HIDE DEF e
  <2>3. heard' = Append(heard, e) /\ Hears(saying, e, saying') /\ Idle' /\ ~Fresh(e)
    BY <1>1, <1>3, <2>1, <2>2, JoinedEvents DEF Hears, Fresh, Final, Blank, Idle
  <2> QED BY <1>1, <1>3, <2>1, <2>3, OneMore
<1>4. Event("end") \in Heard /\ Event("end").name = "end"
  BY EventsAreHeard DEF Event
<1>5. ASSUME saying' = Typed, UNCHANGED spoken, heard' = heard \o <<Event("end")>>
      PROVE  GoesOn
  <2>1. heard' = Append(heard, Event("end")) /\ Hears(saying, Event("end"), saying') /\ Idle'
    BY <1>1, <1>4, <1>5, JoinedEvents DEF Hears, Fresh, Final, Blank, Idle
  <2> QED BY <1>1, <1>4, <1>5, <2>1, OneMore DEF Fresh
<1>6. ASSUME saying' = Typed, UNCHANGED spoken,
             NEW e \in Heard, Final(e) => e.word = saying, ~Fresh(e),
             e.name \in {"final", "failed", "refused"},
             heard' = heard \o <<e, Event("end")>>
      PROVE  GoesOn
  <2>1. heard' = Append(Append(heard, e), Event("end"))
    BY <1>1, <1>4, <1>6, JoinedEvents
  <2>2. PICK p \in {saying, Typed} : Hears(saying, e, p)
    BY <1>6 DEF Hears, Fresh, Final, Blank
  <2>3. /\ Hears(p, Event("end"), saying') /\ p \in 0..MaxWords /\ ~Fresh(Event("end"))
        /\ Idle'
    BY <1>1, <1>4, <1>6 DEF Hears, Fresh, Final, Blank, Idle
  <2> QED BY <1>1, <1>4, <1>6, <2>1, <2>2, <2>3, TwoMore
<1>7. CASE Understand \/ TakeBack
  BY <1>3, <1>7 DEF Understand, TakeBack, Says
<1>8. CASE Cease
  <2>1. /\ \A w \in {saying, Typed} : LET e == Result("final", w) IN
              e \in Heard /\ e.name = "final" /\ (Final(e) => e.word = saying) /\ ~Fresh(e)
        /\ \A n \in {"failed", "refused"} :
              Event(n) \in Heard /\ Event(n).name = n /\ ~Final(Event(n)) /\ ~Fresh(Event(n))
    BY <1>1, EventsAreHeard DEF Result, Event, Final, Fresh
  <2>2. saying' = Typed /\ UNCHANGED spoken
    BY <1>8 DEF Cease
  <2>3. \/ heard' = heard \o <<Event("end")>>
        \/ \E w \in {saying, Typed} : heard' = heard \o <<Result("final", w), Event("end")>>
        \/ \E n \in {"failed", "refused"} : heard' = heard \o <<Event(n), Event("end")>>
    BY <1>8 DEF Cease, Says
  <2> QED BY <1>5, <1>6, <2>1, <2>2, <2>3
<1> QED BY <1>2, <1>7, <1>8

(* What the sheet has shown and kept. *)
Sure == visible /\ ~twice /\ ~late
Joined == base \o transcript \o interim
Shown == IF interim = <<>> THEN Typed ELSE interim[1]
OneInterim == interim = <<>> \/ \E w \in Words : interim = <<w>>
Expected == \E f \in 0..MaxWords : Queued(f, heard, saying) /\ (Sure => f = Shown)
Once(t) == \A i, j \in DOMAIN t : t[i] = t[j] => i = j
Past(t) == \A w \in Range(t) : w \in 0..spoken /\ Above(heard, w)
Kept == /\ Once(draft) /\ Once(Joined) /\ Past(draft) /\ Past(Joined)
        /\ ~edited => draft = Joined
WordsInv == Idle /\ OneInterim /\ InOrder(heard, spoken) /\ Expected /\ (Sure => Kept)

LEMMA JoinedTexts ==
    ASSUME NEW b \in Text, NEW t \in Text, NEW i \in Text
    PROVE  b \o t \o i \in Text
BY TextsJoin

LEMMA JoinedAlone ==
    ASSUME NEW b \in Text
    PROVE  b \o <<>> \o <<>> = b
<1>1. b \o <<>> = b
  BY ConcatEmptySeq DEF Text
<1> QED BY <1>1

LEMMA JoinedAgain ==
    ASSUME NEW b \in Text, NEW t \in Text, NEW i \in Text
    PROVE  b \o (t \o i) \o <<>> = b \o t \o i
<1>1. b \o (t \o i) = b \o t \o i
  BY ConcatAssociative DEF Text
<1>2. (b \o t \o i) \o <<>> = b \o t \o i
  BY JoinedTexts, ConcatEmptySeq DEF Text
<1> QED BY <1>1, <1>2

LEMMA JoinedWord ==
    ASSUME NEW b \in Text, NEW t \in Text, NEW w \in Words \cup {Typed}
    PROVE  /\ b \o Append(t, w) \o <<>> = b \o t \o <<w>>
           /\ b \o t \o <<w>> = Append(b \o t \o <<>>, w)
<1>1. <<w>> \in Text /\ b \o t \in Text
  BY TextsJoin
<1>2. \A s \in Text : Append(s, w) = s \o <<w>>
  BY DEF Text
<1>3. b \o (t \o <<w>>) \o <<>> = b \o t \o <<w>>
  BY <1>1, JoinedAgain, Zenon
<1>4. b \o t \o <<>> = b \o t
  BY <1>1, ConcatEmptySeq DEF Text
<1> QED BY <1>1, <1>2, <1>3, <1>4

LEMMA TextsGrow ==
    ASSUME NEW t \in Text, NEW w \in Words \cup {Typed}
    PROVE  /\ Range(Append(t, w)) = Range(t) \cup {w}
           /\ Once(t) /\ w \notin Range(t) => Once(Append(t, w))
           /\ IsPrefix(t, t) /\ IsPrefix(t, Append(t, w))
<1> DEFINE S == Words \cup {Typed}
           a == Append(t, w)
<1>1. /\ t \in Seq(S) /\ a \in Seq(S) /\ Len(t) \in Nat /\ Len(a) = Len(t) + 1
      /\ DOMAIN t = 1..Len(t) /\ DOMAIN a = 1..Len(t) + 1
      /\ a[Len(t) + 1] = w /\ \A i \in 1..Len(t) : a[i] = t[i]
  BY DEF Text
<1> HIDE DEF S, a
<1>2. Range(a) = Range(t) \cup {w}
  <2>1. Range(t) \cup {w} \subseteq Range(a)
    BY <1>1 DEF Range
  <2>2. Range(a) \subseteq Range(t) \cup {w}
    BY <1>1 DEF Range
  <2> QED BY <2>1, <2>2
<1>3. ASSUME Once(t), w \notin Range(t)
      PROVE  Once(a)
  <2>1. \A i \in 1..Len(t) : t[i] # w
    BY <1>1, <1>3 DEF Range
  <2> QED BY <1>1, <1>3, <2>1 DEF Once
<1>4. \A s \in Seq(S) : SubSeq(s, 1, Len(s)) = s
  BY SubSeqFull
<1>5. SubSeq(a, 1, Len(t)) = t
  <2>1. \A i \in 1..Len(t) : a[i] \in S
    BY <1>1
  <2>2. /\ SubSeq(a, 1, Len(t)) \in Seq(S)
        /\ Len(SubSeq(a, 1, Len(t))) = Len(t)
        /\ \A i \in 1..Len(t) : SubSeq(a, 1, Len(t))[i] = t[i]
    BY <1>1, <2>1, SubSeqProperties
  <2> QED BY <1>1, <2>2, SeqEqual
<1>6. IsPrefix(t, t) /\ IsPrefix(t, a)
  BY <1>1, <1>4, <1>5 DEF IsPrefix
<1> QED BY <1>2, <1>3, <1>6 DEF a

LEMMA LastGone ==
    ASSUME NEW t \in Text, NEW w \in Words \cup {Typed}, Once(Append(t, w))
    PROVE  Once(t) /\ Range(t) \subseteq Range(Append(t, w))
<1>1. /\ Len(t) \in Nat /\ DOMAIN t = 1..Len(t) /\ DOMAIN Append(t, w) = 1..Len(t) + 1
      /\ \A i \in 1..Len(t) : Append(t, w)[i] = t[i]
  BY DEF Text
<1>2. \A i \in 1..Len(t) : i \in 1..Len(t) + 1
  BY <1>1
<1> QED BY <1>1, <1>2, TextsGrow DEF Once

(* What is on screen stays, but for a word taken back. *)
Stays == IsPrefix(draft, draft') \/ (Unsaid /\ draft = draft' \o interim)

(* A result of the recognizer, or the end of a take. *)
LEMMA HandlerWords ==
    ASSUME VoiceTypeOK, WordsInv, OnStart \/ OnResult \/ OnError \/ OnEnd
    PROVE  WordsInv' /\ (Sure => Stays /\ Once(draft'))
<1> DEFINE e == Head(heard)
<1>1. /\ heard \in Seq(Heard) /\ heard # <<>> /\ heard' = Tail(heard) /\ spoken \in Nat
      /\ UNCHANGED <<visible, twice, late, base, edited, mic, saying, spoken>>
  <2>1. heard \in Seq(Heard) /\ spoken \in Nat
    BY Bounds DEF VoiceTypeOK, Heard
  <2>2. heard # <<>> /\ heard' = Tail(heard)
    BY DEF OnStart, OnResult, OnError, OnEnd, On, Silent
  <2>3. UNCHANGED <<visible, twice, late, base, edited, mic, saying, spoken>>
    BY DEF OnStart, OnResult, OnError, OnEnd, sheet, takes
  <2> QED BY <2>1, <2>2, <2>3
<1>2. Idle' /\ (Sure' <=> Sure)
  BY <1>1 DEF WordsInv, Idle, Sure
<1>3. /\ InOrder(heard', spoken')
      /\ \A w : Above(heard, w) => Above(heard', w)
      /\ Fresh(e) =>
            /\ e.word \in 1..spoken /\ Above(heard', e.word)
            /\ \A w : Above(heard, w) => w < e.word
  BY <1>1, OrderNext DEF WordsInv
<1>4. PICK f \in 0..MaxWords : Queued(f, heard, saying) /\ (Sure => f = Shown)
  BY DEF WordsInv, Expected
<1>5. PICK g \in 0..MaxWords : Hears(f, e, g) /\ Queued(g, heard', saying)
  BY <1>1, <1>4, QueuedNext
<1>6. e.word \in 0..MaxWords /\ base \in Text /\ transcript \in Text /\ interim \in Text
      /\ draft \in Text /\ e.word \in Words \cup {Typed} /\ spoken \in 0..MaxWords
  <2>1. e.word \in 0..MaxWords
    <3>1. e \in Heard
      BY <1>1
    <3> HIDE DEF e
    <3> QED BY <3>1 DEF Heard
  <2> QED BY <2>1, Bounds DEF VoiceTypeOK, Words, Typed
<1> HIDE DEF e
<1>7. base \in Text /\ transcript \in Text /\ interim \in Text
  BY DEF VoiceTypeOK
<1>8. base \o Append(transcript, e.word) \o <<>> = base \o transcript \o <<e.word>>
  BY <1>6, JoinedWord, Zenon
<1>9. base \o transcript \o <<e.word>> = Append(base \o transcript \o <<>>, e.word)
  BY <1>6, JoinedWord, Zenon
<1>10. base \o transcript \o interim \in Text
  BY <1>7, JoinedTexts, Zenon
<1>11. base \o (transcript \o interim) \o <<>> = base \o transcript \o interim
  BY <1>7, JoinedAgain, Zenon
<1>12. CASE OnStart \/ OnError
  <2>1. UNCHANGED <<draft, transcript, interim>> /\ g = f
    BY <1>5, <1>12 DEF OnStart, OnError, On, Hears, sheet, e
  <2>2. OneInterim' /\ Expected'
    BY <1>1, <1>2, <1>4, <1>5, <2>1 DEF WordsInv, OneInterim, Expected, Shown
  <2>3. Sure => Kept'
    BY <1>1, <1>3, <2>1 DEF WordsInv, Kept, Past, Joined
  <2>4. Sure => IsPrefix(draft, draft') /\ Once(draft')
    BY <1>6, <2>1, <2>3, TextsGrow DEF Kept
  <2> QED BY <1>2, <1>3, <2>2, <2>3, <2>4 DEF WordsInv, Stays
<1>13. ASSUME Fresh(e), interim' = <<e.word>>, UNCHANGED transcript,
             Show(base, edited, draft)
      PROVE  WordsInv' /\ (Sure => Stays /\ Once(draft'))
  <2>1. f = Typed /\ g = e.word /\ e.word \in Words /\ e.word # Typed
    BY <1>3, <1>5, <1>6, <1>13 DEF Hears, Words, Typed
  <2>2. OneInterim' /\ Shown' = g
    BY <1>13, <2>1 DEF OneInterim, Shown
  <2>3. Expected'
    BY <1>1, <1>2, <1>5, <2>2 DEF Expected
  <2>4. ASSUME Sure
        PROVE  Kept' /\ IsPrefix(draft, draft') /\ Once(draft')
    <3>1. interim = <<>>
      <4>1. Shown = Typed /\ OneInterim
        BY <1>4, <2>1, <2>4 DEF WordsInv
      <4>2. ASSUME NEW w \in Words, interim = <<w>>
            PROVE  FALSE
        BY <4>1, <4>2 DEF Shown, Words, Typed
      <4> QED BY <4>1, <4>2 DEF OneInterim
    <3>2. Joined' = Append(Joined, e.word) /\ Joined \in Text
      <4>1. /\ Joined = base \o transcript \o <<>>
            /\ Joined' = base \o transcript \o <<e.word>>
        BY <1>1, <1>13, <3>1 DEF Joined
      <4>2. /\ base \o transcript \o <<e.word>> = Append(base \o transcript \o <<>>, e.word)
            /\ base \o transcript \o interim \in Text
        BY <1>9, <1>10
      <4> QED BY <4>1, <4>2 DEF Joined
    <3>3. Kept /\ e.word \notin Range(Joined) /\ e.word \notin Range(draft)
      <4>1. Kept /\ \A w : Above(heard, w) => w < e.word
        BY <1>3, <1>13, <2>4 DEF WordsInv
      <4>2. \A w \in Range(Joined) \cup Range(draft) : w \in 0..spoken /\ w < e.word
        BY <4>1 DEF Kept, Past
      <4> QED BY <1>3, <1>13, <4>1, <4>2
    <3>4. draft' = IF edited THEN draft ELSE Joined'
      <4>1. <<transcript', interim'>> # <<transcript, interim>>
        BY <1>13, <3>1
      <4> QED BY <1>1, <1>13, <4>1 DEF Show, Joined
    <3>5. Once(Joined') /\ Range(Joined') = Range(Joined) \cup {e.word}
      BY <1>6, <3>2, <3>3, TextsGrow DEF Kept
    <3>6. Past(Joined)' /\ Past(draft)'
      <4>1. \A w \in Range(Joined') \cup Range(draft) : w \in 0..spoken' /\ Above(heard', w)
        BY <1>1, <1>3, <1>13, <3>3, <3>5 DEF Kept, Past
      <4> QED BY <3>4, <4>1 DEF Past
    <3>7. Once(draft')
      BY <3>3, <3>4, <3>5 DEF Kept
    <3>8. Kept'
      BY <1>1, <3>4, <3>5, <3>6, <3>7 DEF Kept
    <3>9. IsPrefix(draft, draft')
      BY <1>6, <3>2, <3>3, <3>4, TextsGrow DEF Kept
    <3> QED BY <3>7, <3>8, <3>9
  <2> QED BY <1>2, <1>3, <2>2, <2>3, <2>4 DEF WordsInv, Stays
<1>14. ASSUME interim' = <<>>, g = Typed, Sure => Joined' = Joined,
             Show(base, edited, draft)
      PROVE  WordsInv' /\ (Sure => Stays /\ Once(draft'))
  <2>1. OneInterim' /\ Shown' = g
    BY <1>14 DEF OneInterim, Shown
  <2>2. Expected'
    BY <1>1, <1>2, <1>5, <2>1 DEF Expected
  <2>3. ASSUME Sure
        PROVE  Kept' /\ IsPrefix(draft, draft') /\ Once(draft')
    <3>1. draft' = draft
      BY <1>1, <1>14, <2>3 DEF Show, Joined, WordsInv, Kept
    <3>2. Kept'
      BY <1>1, <1>3, <1>14, <2>3, <3>1 DEF WordsInv, Kept, Past
    <3> QED BY <1>6, <3>1, <3>2, TextsGrow DEF Kept
  <2> QED BY <1>2, <1>3, <2>1, <2>2, <2>3 DEF WordsInv, Stays
<1>15. ASSUME OnResult, Blank(e)
      PROVE  WordsInv' /\ (Sure => Stays /\ Once(draft'))
  <2>1. /\ g = Typed /\ Unsaid /\ interim' = <<>> /\ Show(base, edited, draft)
        /\ transcript' \in {transcript, transcript \o <<>>}
    BY <1>5, <1>15 DEF Hears, Blank, OnResult, Unsaid, e
  <2>2. transcript' = transcript
    BY <1>7, <2>1, ConcatEmptySeq DEF Text
  <2>3. CASE interim = <<>>
    <3>1. Joined' = Joined
      BY <1>1, <2>1, <2>2, <2>3 DEF Joined
    <3> QED BY <1>14, <2>1, <3>1
  <2>4. ASSUME NEW w \in Words, interim = <<w>>
        PROVE  WordsInv' /\ (Sure => Stays /\ Once(draft'))
    <3>1. OneInterim' /\ Shown' = g
      BY <2>1 DEF OneInterim, Shown
    <3>2. Expected'
      BY <1>1, <1>2, <1>5, <3>1 DEF Expected
    <3>3. Joined = Append(Joined', w) /\ Joined' \in Text /\ Joined = Joined' \o interim
      <4>1. w \in Words \cup {Typed} /\ base \o transcript \in Text
        BY <1>7, TextsJoin
      <4>2. Joined = base \o transcript \o <<w>> /\ Joined' = base \o transcript \o <<>>
        BY <1>1, <2>1, <2>2, <2>4 DEF Joined
      <4>3. base \o transcript \o <<w>> = Append(base \o transcript \o <<>>, w)
        BY <1>7, <4>1, JoinedWord, Zenon
      <4>4. base \o transcript \o <<>> = base \o transcript
        BY <4>1, ConcatEmptySeq DEF Text
      <4> QED BY <2>4, <4>1, <4>2, <4>3, <4>4
    <3>4. ASSUME Sure
          PROVE  Kept' /\ Stays /\ Once(draft')
      <4>1. Kept
        BY <3>4 DEF WordsInv
      <4>2. Once(Joined') /\ Range(Joined') \subseteq Range(Joined)
        BY <3>3, <4>1, LastGone DEF Kept
      <4>3. Past(Joined)'
        BY <1>1, <1>3, <4>1, <4>2 DEF Kept, Past
      <4>4. CASE edited
        <5>1. draft' = draft
          BY <2>1, <4>4 DEF Show
        <5>2. Past(draft)'
          BY <1>1, <1>3, <4>1, <5>1 DEF Kept, Past
        <5> QED BY <1>1, <1>6, <4>1, <4>2, <4>3, <4>4, <5>1, <5>2, TextsGrow DEF Kept, Stays
      <4>5. CASE ~edited
        <5>1. interim' # interim
          BY <2>1, <2>4
        <5>2. draft = Joined /\ draft' = Joined'
          BY <1>1, <2>1, <4>1, <4>5, <5>1 DEF Show, Kept, Joined
        <5>3. Stays
          BY <2>1, <3>3, <5>2 DEF Stays
        <5> QED BY <1>1, <4>2, <4>3, <5>2, <5>3 DEF Kept, Past
      <4> QED BY <4>4, <4>5
    <3> QED BY <1>2, <1>3, <3>1, <3>2, <3>4 DEF WordsInv
  <2> QED BY <2>3, <2>4 DEF WordsInv, OneInterim
<1>17. CASE OnResult
  <2>1. CASE Fresh(e)
    BY <1>13, <1>17, <2>1 DEF OnResult, On, Fresh, e
  <2>2. CASE Final(e)
    <3>1. g = Typed /\ f = e.word /\ f # Typed
      BY <1>5, <2>2 DEF Hears, Final
    <3>2. /\ interim' = <<>> /\ transcript' = transcript \o <<e.word>>
          /\ Show(base, edited, draft)
      BY <1>17, <2>2 DEF OnResult, On, Final, e
    <3>3. ASSUME Sure
          PROVE  Joined' = Joined
      <4>1. interim = <<e.word>>
        BY <1>4, <3>1, <3>3 DEF Shown, WordsInv, OneInterim
      <4>2. /\ Joined = base \o transcript \o interim
            /\ Joined' = base \o (transcript \o interim) \o <<>>
        BY <1>1, <3>2, <4>1 DEF Joined
      <4> QED BY <1>11, <4>2
    <3> QED BY <1>14, <3>1, <3>2, <3>3
  <2>3. e.name \in {"interim", "final"}
    BY <1>17 DEF OnResult, On, e
  <2> QED BY <1>15, <1>17, <2>1, <2>2, <2>3 DEF Fresh, Final, Blank
<1>16. CASE OnEnd
  <2>1. /\ interim' = <<>> /\ transcript' = transcript \o interim /\ g = Typed
        /\ Show(base, edited, draft)
    BY <1>5, <1>16 DEF OnEnd, On, Hears, e
  <2>2. Joined' = Joined
    <3>1. /\ Joined = base \o transcript \o interim
          /\ Joined' = base \o (transcript \o interim) \o <<>>
      BY <1>1, <2>1 DEF Joined
    <3> QED BY <1>11, <3>1
  <2> QED BY <1>14, <2>1, <2>2
<1> QED BY <1>12, <1>16, <1>17

LEMMA PastKeeps ==
    ASSUME GoesOn, spoken \in Nat, NEW t, Past(t)
    PROVE  \A w \in Range(t) : w \in 0..spoken' /\ Above(heard', w)
BY DEF GoesOn, Past

(* The recognizer goes on, or the user types. *)
LEMMA QuietWords ==
    ASSUME VoiceTypeOK, WordsInv, GoesOn, Sure' => Sure,
           UNCHANGED <<base, transcript, interim>>,
           \/ UNCHANGED <<draft, edited>>
           \/ edited' = TRUE /\ draft' = <<>>
           \/ edited' = TRUE /\ Typed \notin Range(draft) /\ draft' = Append(draft, Typed)
    PROVE  WordsInv'
<1>1. spoken \in Nat /\ draft \in Text
  BY Bounds DEF VoiceTypeOK
<1>2. OneInterim' /\ Shown' = Shown /\ Joined' = Joined
  BY DEF WordsInv, OneInterim, Shown, Joined
<1>3. Expected'
  <2>1. PICK f \in 0..MaxWords : Queued(f, heard, saying) /\ (Sure => f = Shown)
    BY DEF WordsInv, Expected
  <2>2. Queued(f, heard', saying')
    BY <2>1 DEF GoesOn
  <2> QED BY <1>2, <2>1, <2>2 DEF Expected
<1>4. ASSUME Sure
      PROVE  Kept'
  <2>1. Kept
    BY <1>4 DEF WordsInv
  <2>2. \A w \in Range(Joined) \cup Range(draft) : w \in 0..spoken' /\ Above(heard', w)
    BY <1>1, <2>1, PastKeeps DEF Kept
  <2>3. Once(Joined') /\ Past(Joined)'
    BY <1>2, <2>1, <2>2 DEF Kept, Past
  <2>4. Once(draft') /\ Past(draft)'
    <3>1. CASE draft' = draft
      BY <2>1, <2>2, <3>1 DEF Kept, Past
    <3>2. CASE draft' = <<>>
      <4>1. Once(<<>>) /\ Range(<<>>) = {}
        BY DEF Once, Range
      <4> QED BY <3>2, <4>1 DEF Past
    <3>3. CASE Typed \notin Range(draft) /\ draft' = Append(draft, Typed)
      <4>1. Once(draft') /\ Range(draft') = Range(draft) \cup {Typed}
        BY <1>1, <2>1, <3>3, TextsGrow DEF Kept
      <4>2. Typed \in 0..spoken' /\ Above(heard', Typed)
        BY DEF GoesOn, InOrder, Above, New, Typed
      <4> QED BY <2>2, <4>1, <4>2 DEF Past
    <3> QED BY <3>1, <3>2, <3>3
  <2> QED BY <1>2, <2>1, <2>3, <2>4 DEF Kept
<1> QED BY <1>2, <1>3, <1>4 DEF WordsInv, GoesOn

(* What is on screen becomes the base of the next take. *)
LEMMA ResumeWords ==
    ASSUME VoiceTypeOK, WordsInv, UNCHANGED <<visible, native>>,
           base' = draft, edited' = FALSE, transcript' = <<>>, interim' = <<>>,
           Show(draft, FALSE, draft),
           twice' = (twice \/ mic # Off \/ \E s \in starts : s.mine),
           late' = (late \/ ResultOnItsWay)
    PROVE  WordsInv' /\ draft' = draft
<1>1. spoken \in Nat /\ draft \in Text /\ heard \in Seq(Heard) /\ draft \o <<>> \o <<>> = draft
  BY Bounds, JoinedAlone DEF VoiceTypeOK, Heard
<1>2. UNCHANGED <<mic, saying, spoken, heard>> /\ Idle' /\ InOrder(heard', spoken')
  BY DEF native, WordsInv, Idle
<1>3. draft' = draft /\ Joined' = draft
  BY <1>1 DEF Show, Joined
<1>4. OneInterim' /\ Shown' = Typed
  BY DEF OneInterim, Shown
<1>5. PICK f \in 0..MaxWords : Queued(f, heard, saying)
  BY DEF WordsInv, Expected
<1>6. Expected'
  <2>1. CASE Sure'
    <3>1. mic = Off /\ ~ResultOnItsWay
      BY <2>1 DEF Sure
    <3>2. saying = Typed /\ \A i \in 1..Len(heard) : ~Final(heard[i])
      BY <1>1, <3>1 DEF ResultOnItsWay, WordsInv, Idle, Final
    <3>3. Queued(Typed, heard, Typed) /\ Typed \in 0..MaxWords
      BY <1>1, <1>5, <3>2, QueuedAnew, Bounds DEF Typed
    <3> QED BY <1>2, <1>4, <3>2, <3>3 DEF Expected
  <2>2. CASE ~Sure'
    BY <1>2, <1>5, <2>2 DEF Expected
  <2> QED BY <2>1, <2>2
<1>7. Sure' => Kept'
  BY <1>2, <1>3 DEF Sure, WordsInv, Kept, Past
<1> QED BY <1>2, <1>3, <1>4, <1>6, <1>7 DEF WordsInv

(* The sheet starts anew, or goes. *)
LEMMA AppearWords ==
    ASSUME VoiceTypeOK, WordsInv, NEW v \in BOOLEAN, NEW l, Appear(v, l)
    PROVE  WordsInv'
<1>1. GoesOn
  BY AbortGoesOn DEF Appear, WordsInv
<1>2. interim' = <<>> /\ visible' = v /\ late' = ResultOnItsWay /\ saying' = Typed
      /\ heard \in Seq(Heard)
  BY DEF Appear, abort, VoiceTypeOK, Heard
<1>3. OneInterim' /\ Shown' = Typed
  BY <1>2 DEF OneInterim, Shown
<1>4. PICK f \in 0..MaxWords : Queued(f, heard, saying)
  BY DEF WordsInv, Expected
<1>5. Queued(f, heard', Typed)
  BY <1>1, <1>2, <1>4 DEF GoesOn
<1>6. Expected'
  <2>1. CASE Sure'
    <3>1. \A i \in 1..Len(heard) : ~Final(heard[i])
      BY <1>2, <2>1 DEF Sure, ResultOnItsWay, Final
    <3>2. heard' \in Seq(Heard) /\ \A i \in 1..Len(heard') : ~Final(heard'[i])
      <4> DEFINE a == Event("aborted")
                 b == Event("end")
      <4>1. a \in Heard /\ b \in Heard /\ ~Final(a) /\ ~Final(b)
        BY EventsAreHeard DEF Event, Final
      <4>2. heard' = heard \/ heard' = Append(Append(heard, a), b)
        BY <1>2, <4>1, JoinedEvents DEF Appear, abort, Aborted
      <4> HIDE DEF a, b
      <4>3. \A h \in Seq(Heard), e \in Heard :
               (\A i \in 1..Len(h) : ~Final(h[i])) /\ ~Final(e) =>
                  /\ Append(h, e) \in Seq(Heard)
                  /\ \A i \in 1..Len(Append(h, e)) : ~Final(Append(h, e)[i])
        OBVIOUS
      <4> QED BY <1>2, <3>1, <4>1, <4>2, <4>3
    <3>3. Queued(Typed, heard', Typed) /\ Typed \in 0..MaxWords
      BY <1>5, <3>2, QueuedAnew, Bounds DEF Typed
    <3> QED BY <1>2, <1>3, <3>3 DEF Expected
  <2>2. CASE ~Sure'
    BY <1>2, <1>5, <2>2 DEF Expected
  <2> QED BY <2>1, <2>2
<1>7. ASSUME Sure'
      PROVE  Kept'
  <2>1. base' = <<>> /\ draft' = <<>> /\ transcript' = <<>>
    BY <1>2, <1>7 DEF Sure, Appear
  <2>2. Joined' = <<>>
    <3>1. <<>> \o <<>> \o <<>> = <<>>
      BY TextsJoin, JoinedAlone
    <3> QED BY <1>2, <2>1, <3>1 DEF Joined
  <2>3. Once(<<>>) /\ Range(<<>>) = {}
    BY DEF Once, Range
  <2> QED BY <2>1, <2>2, <2>3 DEF Kept, Past
<1> QED BY <1>1, <1>3, <1>6, <1>7 DEF WordsInv, GoesOn

(* What a step of dictation does to the words, and to what is on screen. *)
LEMMA WordsKeep ==
    ASSUME I18nTypeOK, VoiceTypeOK, WordsInv, [Next]_vars
    PROVE  /\ WordsInv'
           /\ Sure /\ visible' /\ locale' = locale =>
                \/ HandleChangeText
                \/ Stays /\ Once(draft')
<1>1. draft \in Text /\ (draft' = draft => Stays) /\ IsPrefix(draft, draft) /\ (Sure => Once(draft))
      /\ Idle /\ InOrder(heard, spoken)
  BY TextsGrow, Bounds DEF VoiceTypeOK, WordsInv, Kept, Typed, Stays
<1>2. CASE \/ OpenSheet \/ CloseSheet
           \/ (\E l \in Locales : l # locale /\ Appear(visible, l) /\ locale' = l)
  <2>1. /\ OpenSheet => ~visible /\ Appear(TRUE, locale)
        /\ CloseSheet => visible' = FALSE /\ Appear(FALSE, locale)
    BY DEF OpenSheet, CloseSheet, Appear
  <2>2. visible \in BOOLEAN
    BY DEF VoiceTypeOK
  <2> QED BY <1>2, <2>1, <2>2, AppearWords DEF Sure
<1>3. CASE \/ (\E s \in starts : Permission(s) \/ HasOnDeviceModel(s))
           \/ Speak \/ Understand \/ TakeBack \/ Cease
  <2>1. GoesOn
    BY <1>1, <1>3, ModelGoesOn, SpeechGoesOn
  <2>2. UNCHANGED <<sheet, transcript, interim, takes>>
    BY <1>3 DEF Permission, HasOnDeviceModel, Speak, Understand, TakeBack, Cease, Says, hook
  <2>3. UNCHANGED <<visible, draft, base, edited, transcript, interim>> /\ Sure' = Sure
    BY <2>2 DEF sheet, takes, Sure
  <2>4. WordsInv'
    BY <2>1, <2>3, QuietWords
  <2> QED BY <1>1, <2>3, <2>4
<1>4. CASE HandleChangeText
  <2>1. stop \/ UNCHANGED native
    BY <1>4 DEF HandleChangeText
  <2>2. GoesOn
    BY <1>1, <2>1, StopGoesOn, NoMore DEF native
  <2>3. UNCHANGED <<visible, base, transcript, interim>> /\ Sure' = Sure /\ edited' = TRUE
        /\ \/ draft' = <<>>
           \/ Typed \notin Range(draft) /\ draft' = Append(draft, Typed)
    BY <1>4 DEF HandleChangeText, takes, Sure
  <2> QED BY <1>4, <2>2, <2>3, QuietWords
<1>5. CASE HandleMicPress
  <2>1. CASE stop /\ UNCHANGED <<sheet, status, transcript, interim, error, takes>>
    <3>1. UNCHANGED <<visible, draft, base, edited, transcript, interim>> /\ Sure' = Sure
      BY <2>1 DEF sheet, takes, Sure
    <3>2. GoesOn
      BY <1>1, <2>1, StopGoesOn
    <3>3. WordsInv'
      BY <3>1, <3>2, QuietWords
    <3> QED BY <1>1, <3>1, <3>3
  <2>2. CASE ~isRecording
    <3>1. WordsInv' /\ draft' = draft
      BY <1>1, <1>5, <2>2, ResumeWords DEF HandleMicPress
    <3> QED BY <1>1, <3>1
  <2> QED BY <1>5, <2>1, <2>2 DEF HandleMicPress
<1>6. CASE OnStart \/ OnResult \/ OnError \/ OnEnd
  BY <1>6, HandlerWords
<1>7. CASE UNCHANGED <<voice, locale>>
  <2>1. UNCHANGED <<visible, draft, base, edited, transcript, interim, mic, heard, saying, spoken>>
        /\ Sure' = Sure
    BY <1>7 DEF voice, sheet, hook, native, takes, Sure
  <2>2. WordsInv'
    BY <1>1, <2>1, NoMore, QuietWords
  <2> QED BY <1>1, <2>1, <2>2
<1> QED BY <1>2, <1>3, <1>4, <1>5, <1>6, <1>7, VoiceCases

(* While the sheet shows, what is in it stays and each word comes once
   (transcript, interim and the base in use-voice-input.ts and
   VoiceInputSheet.tsx), but for what SpokenOnceAndKept excepts, for any
   number of words, takes and events on their way. *)
THEOREM WordsComeOnce == Spec => SpokenOnceAndKept
<1>1. Init => WordsInv
  <2> SUFFICES ASSUME Init PROVE WordsInv
    OBVIOUS
  <2>1. /\ heard = <<>> /\ saying = Typed /\ interim = <<>> /\ spoken = 0 /\ visible = FALSE
    BY DEF Init, VoiceInit, Silent
  <2>2. Idle /\ OneInterim /\ ~Sure
    BY <2>1 DEF Idle, OneInterim, Sure
  <2>3. Expected
    BY <2>1, <2>2, QueuedNone, Bounds DEF Expected, Typed
  <2>4. Len(<<>>) = 0 /\ 1..0 = {}
    OBVIOUS
  <2>5. InOrder(heard, spoken)
    BY <2>1, <2>4 DEF InOrder
  <2> QED BY <2>2, <2>3, <2>5 DEF WordsInv
<1>2. TypeOK /\ WordsInv /\ [Next]_vars => WordsInv'
  BY WordsKeep DEF TypeOK
<1>3. TypeOK /\ WordsInv /\ [Next]_vars =>
        [visible /\ visible' /\ locale' = locale /\ ~twice /\ ~late =>
            \/ HandleChangeText
            \/ /\ IsPrefix(draft, draft') \/ (Unsaid /\ draft = draft' \o interim)
               /\ \A i, j \in DOMAIN draft' : draft'[i] = draft'[j] => i = j]_voice
  BY WordsKeep DEF TypeOK, Sure, Once, Stays
<1> QED BY <1>1, <1>2, <1>3, TypeCorrect, PTL DEF Spec, SpokenOnceAndKept
=============================================================================
