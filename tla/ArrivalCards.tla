---------------------------- MODULE ArrivalCards ----------------------------
(***************************************************************************)
(* The cards of a chat: display_arrivals and display_route, in both        *)
(* clients (frontend/app/page.tsx with chat-messages.tsx; mobile           *)
(* chat.tsx, ChatStreamContext.tsx and AssistantMessage.tsx).  A card is   *)
(* drawn from the call of the model, from data loaded beside the chat and, *)
(* for the latest arrivals, from useArrivalsRefresh, whose answers come    *)
(* at any time.                                                            *)
(*                                                                         *)
(* A list of messages is the sequence of the calls in it.  What the        *)
(* effects do in the commit of a render is one step with it.  React Query  *)
(* (external) keeps the last answer to each query, asks when the query it  *)
(* observes changes and every 30 s, and gives a new answer a new identity  *)
(* only if it differs.  An answer without stops counts as none.  The maps  *)
(* of both clients, which show the stops of every tool output as well, are *)
(* left out.                                                               *)
(***************************************************************************)
EXTENDS Integers, FiniteSets, Sequences, FiniteSetsExt, Functions

CONSTANTS
    Arrivals,       \* the calls of display_arrivals
    Inline,         \* those that carry their stops (legacy)
    Routes,         \* the calls of display_route
    Queries,
    Query,          \* what each call asks for
    MaxReloads      \* bound on reloads of the page, kills of the app

Calls == Arrivals \cup Routes
Nil == "none"

ASSUME ArrivalCardsAssumption ==
    /\ Arrivals \cap Routes = {} /\ Inline \subseteq Arrivals
    /\ Query \in [Calls -> Queries] /\ Nil \notin Queries \cup Calls
    /\ MaxReloads \in Nat

VARIABLES
    client,         \* "web" or "mobile"
    messages,
    streaming, answer,  \* an answer streams in: its calls so far
    made,           \* calls ever made
    override,       \* arrivalsOverride
    observed,       \* the query of useArrivalsRefresh
    noticed,        \* the answer its effect saw last: that of `observed`, or none
    cached, asking, \* queries React Query knows the answer of, waits for
    fetched, loading,   \* mobile: calls whose arrivals onToolCall loaded, loads
    info,           \* fetchedRoutes
    started, looking,   \* routeFetchesStarted; its lookups not over yet
    widget,         \* mobile: the call whose stops the iOS widget shows
    stored,         \* the messages in localStorage, or those of the session
    landing,        \* web: isLanding
    heard,          \* calls refreshed since the last question (history)
    late,           \* the widget was last told of another call than the
                    \* latest one then (history)
    gone,           \* calls cleared, but for those of an answer that streamed (history)
    undead,         \* calls cleared while their answer streamed (history)
    reloads

refresh == <<override, observed, noticed, cached, asking>>
routes == <<info, started, looking>>
cardHistory == <<heard, late, gone, undead>>
cardVars == <<client, messages, streaming, answer, made, refresh, fetched, loading,
              routes, widget, stored, landing, cardHistory, reloads>>

Web == client = "web"
Mobile == client = "mobile"

NoCard == [of |-> Nil, has |-> FALSE]
Card == [of : Arrivals \cup {Nil}, has : BOOLEAN]  \* arrivalsData: title and query
                                                    \* of a call; it has stops

CardsInit ==
    /\ client \in {"web", "mobile"}
    /\ messages = <<>> /\ streaming = FALSE /\ answer = <<>> /\ made = {}
    /\ override = NoCard /\ observed = Nil /\ noticed = Nil
    /\ cached = {} /\ asking = {}
    /\ fetched = {} /\ loading = {}
    /\ info = [r \in Routes |-> Nil] /\ started = {} /\ looking = {}
    /\ widget = Nil /\ stored = <<>> /\ landing = Web
    /\ heard = {} /\ late = FALSE /\ gone = {} /\ undead = {}
    /\ reloads = 0

-----------------------------------------------------------------------------
(* What is drawn *)

Latest(m, calls) ==
    LET at == {i \in DOMAIN m : m[i] \in calls} IN
    IF at = {} THEN Nil ELSE m[Max(at)]

(* What the calls say; the web leaves a query to useArrivalsRefresh, mobile
   has loaded it as well. *)
WebCard(c) == [of |-> c, has |-> c \in Inline]
MobileCard(c, f) == [of |-> c, has |-> c \in Inline \cup f]
CardOfCall(c, f) == IF Web THEN WebCard(c) ELSE MobileCard(c, f)

ArrivalsFromMessages(m, f) ==
    LET c == Latest(m, Arrivals) IN
    IF c = Nil THEN NoCard ELSE CardOfCall(c, f)

ArrivalsData(o, m, f) == IF o # NoCard THEN o ELSE ArrivalsFromMessages(m, f)

Shown == ArrivalsData(override, messages, fetched)

(* The calls that have a card: each has one, however often it is repeated,
   and a landing page that still gets an answer draws none. *)
WebDrawn == IF landing THEN {} ELSE Range(messages)
MobileDrawn == Range(messages)
Drawn == IF Web THEN WebDrawn ELSE MobileDrawn

(* The card of call c: the latest one shows arrivalsData, the others, greyed,
   what their call says. *)
CardOf(c) == IF c = Latest(messages, Arrivals) THEN Shown ELSE CardOfCall(c, fetched)

(* Without stops the web's is a header, mobile's spins. *)
WebArrivalCard(card) == IF card.has THEN "stops" ELSE "header"
MobileArrivalCard(card) == IF card.has THEN "stops" ELSE "spinner"

(* Of a route: the stops of its variants, or that it is not found or failed. *)
WebRouteCard(r) == IF info[r] = Nil THEN "spinner" ELSE info[r]
MobileRouteCard(r) == IF info[r] = Nil THEN "spinner" ELSE info[r]
RouteCard(r) == IF Web THEN WebRouteCard(r) ELSE MobileRouteCard(r)

(* What the page offers; mobile's is a chat panel too.  Its input is disabled
   while an answer streams.  The landing page's is not, but a question asked
   there before the answer of a cleared chat is over is left out. *)
CardsInput == IF streaming THEN {} ELSE {"input"}
LandingPage == CardsInput
ChatPanel == {"clear"} \cup CardsInput
Page == IF landing THEN LandingPage ELSE ChatPanel

-----------------------------------------------------------------------------
(* Effects *)

(* The query of a card; one without a call has none. *)
QueryOf(c) == IF c = Nil THEN Nil ELSE Query[c]

\* mutant: a refresh does not tell the widget
UpdateWidget_Never(hears, card, w) == widget' = w

(* What useArrivalsRefresh does in mobile besides. *)
UpdateWidget(hears, card, w) == widget' = IF hears /\ Mobile THEN card.of ELSE w

(* useArrivalsRefresh, given the answer its effect knew before. *)
Refresh(o, m, f, known, c, a, w) ==
    LET card == ArrivalsData(o, m, f)
        query == QueryOf(card.of)
        fresh == IF query \in c THEN query ELSE Nil
        hears == fresh # Nil /\ fresh # known
    IN
    /\ override' = IF hears THEN [card EXCEPT !.has = TRUE] ELSE o
    /\ observed' = query
    /\ noticed' = fresh
    /\ cached' = c
    /\ asking' = IF query \notin {Nil, observed} THEN a \cup {query} ELSE a
    /\ UpdateWidget(hears, card, w)

(* History: a refresh changed the override o, the widget changed. *)
Heed(o, h) ==
    /\ heard' = IF override' = o THEN h ELSE h \cup {override'.of}
    /\ late' = IF widget' = widget THEN late ELSE widget' # Latest(messages', Arrivals)

\* mutant: what is looked up is not marked
Sweep_Unmarked(m, i) ==
    /\ looking' = looking \cup {r \in Routes \ started : r \in Range(m)}
    /\ started' = started
    /\ info' = i

(* Every route in the messages that is not looked up yet. *)
Sweep(m, i) ==
    LET found == {r \in Routes \ started : r \in Range(m)} IN
    /\ started' = started \cup found
    /\ looking' = looking \cup found
    /\ info' = i

(* useChatStorage; for mobile, whose save is delayed, see MobileChat. *)
Store(m) == stored' = IF m = <<>> THEN stored ELSE m

(* The messages become m and the override o. *)
Commit(m, o, w, h) ==
    /\ messages' = m
    /\ Refresh(o, m, fetched, noticed, cached, asking, w) /\ Heed(o, h)
    /\ Sweep(m, info)
    /\ Store(m)

-----------------------------------------------------------------------------
(* The conversation *)

\* mutant: the override outlives the question
HandleSend_Keeps ==
    /\ "input" \in Page /\ streaming' = TRUE /\ answer' = <<>>
    /\ messages' = messages /\ stored' = stored
    /\ Refresh(override, messages, fetched, noticed, cached, asking, widget)
    /\ Heed(override, {})
    /\ Sweep(messages, info)
    /\ landing' = FALSE
    /\ UNCHANGED <<client, made, fetched, loading, gone, undead, reloads>>

(* handleSend: the cards are the same, without what refreshes added. *)
HandleSend ==
    /\ "input" \in Page /\ streaming' = TRUE /\ answer' = <<>>
    /\ Commit(messages, NoCard, widget, {})
    /\ landing' = FALSE
    /\ UNCHANGED <<client, made, fetched, loading, gone, undead, reloads>>

(* The stream writes the whole answer: after a Clear it comes back. *)
Written == IF messages = <<>> THEN answer ELSE messages

(* display_arrivals. *)
Call(c) ==
    /\ streaming /\ c \in Arrivals \ made
    /\ made' = made \cup {c} /\ answer' = Append(answer, c)
    /\ UNCHANGED <<client, streaming, fetched, landing, gone, undead, reloads>>

WebCallArrivals(c) ==
    /\ Web /\ Call(c)
    /\ Commit(Append(Written, c), override, widget, heard)
    /\ UNCHANGED loading

(* Mobile loads the arrivals, or has them for the widget at once. *)
MobileCallArrivals(c) ==
    /\ Mobile /\ Call(c)
    /\ loading' = IF c \in Inline THEN loading ELSE loading \cup {c}
    /\ Commit(Append(Written, c), override, IF c \in Inline THEN c ELSE widget, heard)

(* display_route: getRouteInfo is asked for by the sweep as well. *)
CallRoute(r) ==
    /\ streaming /\ r \in Routes \ made
    /\ made' = made \cup {r} /\ answer' = Append(answer, r)
    /\ Commit(Append(Written, r), override, widget, heard)
    /\ UNCHANGED <<client, streaming, fetched, loading, landing, gone, undead, reloads>>

(* More of the answer, the output of a tool included. *)
Chunk ==
    /\ streaming
    /\ Commit(Written, override, widget, heard)
    /\ UNCHANGED <<client, streaming, answer, made, fetched, loading, landing, gone, undead,
                   reloads>>

CardsFinish ==
    /\ streaming /\ streaming' = FALSE /\ answer' = <<>>
    /\ UNCHANGED <<client, messages, made, refresh, fetched, loading, routes, widget,
                   stored, landing, cardHistory, reloads>>

(* The messages become those of an empty chat, of an answer that is a. *)
Emptied(a, i) ==
    /\ messages' = <<>>
    /\ gone' = gone \cup (Range(messages) \ Range(a))
    /\ undead' = undead \cup Range(a)
    /\ Refresh(NoCard, <<>>, fetched, noticed, cached, asking, widget)
    /\ Heed(NoCard, {})
    /\ Sweep(<<>>, i)
    /\ UNCHANGED <<client, made, fetched, loading, reloads>>

\* mutant: the stored messages stay
WebClear_KeepsStored ==
    /\ Web /\ "clear" \in Page /\ landing' = TRUE
    /\ Emptied(answer, [r \in Routes |-> Nil])
    /\ UNCHANGED <<streaming, answer, stored>>

(* handleClear.  The web's stream goes on. *)
WebClear ==
    /\ Web /\ "clear" \in Page /\ landing' = TRUE
    /\ Emptied(answer, [r \in Routes |-> Nil])
    /\ stored' = <<>>
    /\ UNCHANGED <<streaming, answer>>

(* Mobile changes to a new session and keeps what it loaded. *)
MobileClear ==
    /\ Mobile /\ "clear" \in Page
    /\ Emptied(<<>>, info)
    /\ stored' = <<>> /\ UNCHANGED landing
    /\ streaming' = FALSE /\ answer' = <<>>

-----------------------------------------------------------------------------
(* Answers of the backend *)

(* The interval, or the button of the latest card. *)
Refetch ==
    /\ observed # Nil
    /\ asking' = asking \cup {observed}
    /\ UNCHANGED <<client, messages, streaming, answer, made, override, observed, noticed,
                   cached, fetched, loading, routes, widget, stored, landing, cardHistory,
                   reloads>>

(* It fails or says what is known, it says something new, or it has no stops. *)
Refetched(q) ==
    /\ q \in asking
    /\ \/ /\ asking' = asking \ {q}
          /\ UNCHANGED <<override, observed, noticed, cached, widget, late, heard>>
       \/ /\ messages' = messages
          /\ \/ Refresh(override, messages, fetched,
                        IF q = observed THEN Nil ELSE noticed,
                        cached \cup {q}, asking \ {q}, widget)
             \/ Refresh(override, messages, fetched, noticed,
                        cached \ {q}, asking \ {q}, widget)
          /\ Heed(override, heard)
    /\ UNCHANGED <<client, messages, streaming, answer, made, fetched, loading, routes, stored,
                   landing, gone, undead, reloads>>

(* fetchArrivals of onToolCall; a failure is logged. *)
Loaded(c) ==
    /\ c \in loading
    /\ loading' = loading \ {c}
    /\ \/ UNCHANGED <<fetched, refresh, widget, heard, late>>
       \/ \E stops \in {c, Nil} :
            LET f == IF stops = c THEN fetched \cup {c} ELSE fetched IN
            /\ fetched' = f
            /\ override' = override /\ asking' = asking
            /\ UNCHANGED <<observed, noticed, cached, heard>>
            /\ widget' = stops
            /\ late' = (stops # Latest(messages, Arrivals))
    /\ UNCHANGED <<client, messages, streaming, answer, made, routes, stored, landing,
                   gone, undead, reloads>>

(* getRouteInfo: one request for all who ask the same, and its answer is
   kept. *)
GetRouteInfo(q) == {r \in looking : Query[r] = q}

\* mutant: a failure is only logged
Looked_LogOnly(q, found) ==
    LET asked == GetRouteInfo(q) IN
    /\ asked # {}
    /\ looking' = looking \ asked
    /\ info' = [r \in Routes |-> IF r \in asked /\ found THEN "data" ELSE info[r]]
    /\ started' = IF found THEN started ELSE started \ asked
    /\ UNCHANGED <<client, messages, streaming, answer, made, refresh, fetched, loading,
                   widget, stored, landing, cardHistory, reloads>>

(* A failure is shown, and the next change of the messages asks again. *)
Looked(q, found) ==
    LET asked == GetRouteInfo(q) IN
    /\ asked # {}
    /\ looking' = looking \ asked
    /\ info' = [r \in Routes |-> IF r \notin asked THEN info[r]
                                 ELSE IF found THEN "data" ELSE "error"]
    /\ started' = IF found THEN started ELSE started \ asked
    /\ UNCHANGED <<client, messages, streaming, answer, made, refresh, fetched, loading,
                   widget, stored, landing, cardHistory, reloads>>

(* The page is loaded again, or the app killed and the session reopened. *)
Reload ==
    /\ reloads < MaxReloads /\ reloads' = reloads + 1
    /\ streaming' = FALSE /\ answer' = <<>>
    /\ messages' = stored /\ landing' = (Web /\ stored = <<>>)
    /\ override' = NoCard /\ noticed' = Nil /\ cached' = {}
    /\ observed' = QueryOf(Latest(stored, Arrivals))
    /\ asking' = {observed'} \ {Nil}
    /\ fetched' = {} /\ loading' = {}
    /\ info' = [r \in Routes |-> Nil]
    /\ started' = Range(stored) \cap Routes /\ looking' = started'
    /\ heard' = {} /\ late' = TRUE
    /\ UNCHANGED <<client, made, widget, stored, gone, undead>>

CardsNext ==
    \/ HandleSend \/ Chunk \/ CardsFinish \/ WebClear \/ MobileClear
    \/ \E c \in Arrivals : WebCallArrivals(c) \/ MobileCallArrivals(c) \/ Loaded(c)
    \/ \E r \in Routes : CallRoute(r)
    \/ Refetch
    \/ \E q \in Queries : Refetched(q) \/ \E found \in BOOLEAN : Looked(q, found)
    \/ Reload

CardsSpec == CardsInit /\ [][CardsNext]_cardVars

-----------------------------------------------------------------------------
CardsTypeOK ==
    /\ client \in {"web", "mobile"}
    /\ messages \in Seq(Calls) /\ answer \in Seq(Calls) /\ stored \in Seq(Calls)
    /\ streaming \in BOOLEAN /\ made \subseteq Calls
    /\ override \in Card /\ observed \in Queries \cup {Nil}
    /\ noticed \in {observed, Nil}
    /\ cached \subseteq Queries /\ asking \subseteq Queries
    /\ fetched \subseteq Arrivals /\ loading \subseteq Arrivals
    /\ info \in [Routes -> {Nil, "data", "error"}]
    /\ started \subseteq Routes /\ looking \subseteq started
    /\ widget \in Arrivals \cup {Nil} /\ landing \in BOOLEAN
    /\ heard \subseteq Arrivals /\ late \in BOOLEAN
    /\ gone \subseteq Calls /\ undead \subseteq Calls
    /\ reloads \in 0..MaxReloads

(* Each card shows the arrivals of its own call, unless a refresh of an
   earlier card came after the last question: the override, cleared by the
   question, is then set again and hides the latest call. *)
ShownIsLatest ==
    LET latest == Latest(messages, Arrivals) IN
    \A c \in Drawn \cap Arrivals :
        CardOf(c).of = c \/ (c = latest /\ CardOf(c).of \in heard)

(* A route card that spins is waited for, unless its chat was cleared while
   it streamed: the web then forgets the data, not that it asked. *)
RouteCardsAwaited ==
    \A r \in Routes \cap Drawn :
        RouteCard(r) = "spinner" => r \in looking \cup undead

(* What was cleared does not come back, on the screen or after a reload. *)
ClearedStaysCleared == gone \cap (Range(messages) \cup Range(stored)) = {}

(* The widget shows the stops of the latest card, unless the loads of two
   calls ended in the other order or a refresh hides the latest call. *)
WidgetFollows ==
    Mobile /\ ~late /\ MobileArrivalCard(Shown) = "stops" =>
        (Shown.of = Latest(messages, Arrivals) => widget = Shown.of)
=============================================================================
