----------------------------- MODULE MobileChat -----------------------------
(***************************************************************************)
(* The chats of the mobile app: ChatStreamContext.tsx, one provider in     *)
(* each of two tabs, that outlives the chat screens opened in it;          *)
(* app/(transport)/chat.tsx, the screen, with the debounced save of        *)
(* useChatSessions.ts; lib/db.ts, the tables behind both.                  *)
(*                                                                         *)
(* A turn is a question and its answer.  A list of messages is the set of  *)
(* its turns and how far the last answer is: it may wait for a tool.       *)
(* useChat (external) keeps one chat, drops it when its id changes, and    *)
(* gives a tool's output to the last message only.  What effects do in the *)
(* commit of a render is one step with it.                                 *)
(***************************************************************************)
EXTENDS Integers, FiniteSets

CONSTANTS
    Tabs,           \* the tabs with a ChatStreamProvider
    Landing,        \* the tab that starts new chats
    Sessions,       \* the ids createSession will give
    Turns,          \* the turns that are ever asked, in this order
    MaxKills        \* bound on how often the app is killed

ASSUME MobileChatAssumption ==
    /\ Landing \in Tabs
    /\ IsFiniteSet(Sessions)
    /\ Turns \subseteq Nat /\ IsFiniteSet(Turns)
    /\ MaxKills \in Nat

None == "none"
ASSUME NoneAssumption == None \notin Sessions \cup Tabs

VARIABLES
    session,        \* currentChatId of each tab
    shown,          \* messages of each tab's chat
    busy,           \* an answer is on its way into it
    pending,        \* pendingRef
    screen,         \* the chat screen open in each tab
    working,        \* tools the app still runs
    table,          \* sessions and messages in SQLite
    home,           \* the session each turn was asked in (history)
    saved,          \* turns that were stored once (history)
    strayed,        \* sessions that got messages left for another (history)
    contested,      \* sessions deleted, or held by two tabs at once (history)
    kills

tab == <<session, shown, busy, pending, screen>>
history == <<home, saved, strayed, contested>>
vars == <<tab, working, table, history, kills>>

Empty == [turns |-> {}, tail |-> "none"]
Messages == [turns : SUBSET Turns, tail : {"none", "asked", "partial", "call", "full"}]
Last(m) == CHOOSE t \in m.turns : \A u \in m.turns : u <= t
Count(m) == 2 * Cardinality(m.turns) - (IF m.tail = "asked" THEN 1 ELSE 0)
Ask(m, t) == [m EXCEPT !.turns = @ \cup {t}, !.tail = "asked"]
Answered(m) == [m EXCEPT !.tail = "partial"]

Absent == [here |-> FALSE, rows |-> Empty]
Row == [here : BOOLEAN, rows : Messages]

NoScreen == [on |-> FALSE]
NoTimer == [of |-> None, rows |-> Empty]
Anything == -1      \* loadedCountRef is null
Screen == [on : {TRUE}, loaded : Nat \cup {Anything},
           timer : [of : Sessions \cup {None}, rows : Messages],
           fixed : BOOLEAN,
           \* history: the last turn was asked here; the tab showed another
           \* chat when the screen came
           asked : BOOLEAN, over : BOOLEAN]

Nothing == [given |-> FALSE, rows |-> Empty, again |-> FALSE]
Options(m, again) == [given |-> TRUE, rows |-> m, again |-> again]

Tool == [turn : Turns, tab : Tabs, here : BOOLEAN]

Used == {s \in Sessions : table[s].here} \cup contested
NextTurn(t) == t \in Turns \ DOMAIN home /\ \A u \in Turns \ DOMAIN home : t <= u
Home(t, s) == home' = [u \in DOMAIN home \cup {t} |-> IF u = t THEN s ELSE home[u]]

Init ==
    /\ session = [p \in Tabs |-> None]
    /\ shown = [p \in Tabs |-> Empty]
    /\ busy = [p \in Tabs |-> FALSE]
    /\ pending = [p \in Tabs |-> Nothing]
    /\ screen = [p \in Tabs |-> NoScreen]
    /\ working = {}
    /\ table = [s \in Sessions |-> Absent]
    /\ home = [t \in {} |-> None]
    /\ saved = {} /\ strayed = {} /\ contested = {}
    /\ kills = 0

-----------------------------------------------------------------------------
(* What can be tapped in tab p *)

(* A disabled input takes no text, no dictation and no Send. *)
ChatInput(p) == IF busy[p] THEN {} ELSE {"input"}

ChatScreen(p) == {"back", "clear"} \cup ChatInput(p)
LandingScreen == {"input"} \cup (IF Used # {} THEN {"session"} ELSE {})
HistoryScreen == IF Used # {} THEN {"session"} ELSE {}

Tappable(p) ==
    IF screen[p].on THEN ChatScreen(p)
    ELSE IF p = Landing THEN LandingScreen ELSE HistoryScreen

-----------------------------------------------------------------------------
(* The effects of the chat screen *)

\* mutant: the guard of loaded messages is never cleared
Observe_KeepsGuard(c, s, m) ==
    IF m.turns = {} \/ c.loaded = Count(m)
    THEN [c EXCEPT !.timer = NoTimer]
    ELSE [c EXCEPT !.timer = [of |-> s, rows |-> m]]

(* useChatSessionStorage: a change cancels the save that waits; messages as
   many as the screen found when it came are taken for unchanged. *)
Observe(c, s, m) ==
    IF m.turns = {} \/ c.loaded = Count(m)
    THEN [c EXCEPT !.timer = NoTimer]
    ELSE [c EXCEPT !.loaded = Anything, !.timer = [of |-> s, rows |-> m]]

\* mutant: calls left open are not looked for
Fixes_Never(c, m) == FALSE

(* "Fix incomplete tool calls": once, on the first messages the screen sees.
   addToolOutput reaches the last message only. *)
Fixes(c, m) == ~c.fixed /\ m.tail = "call"
Fixed(c, m) == IF Fixes(c, m) THEN Answered(m) ELSE m

(* What the screen of tab p does about messages m of session s. *)
See(c, s, m) == IF c.on THEN Observe([c EXCEPT !.fixed = @ \/ m.turns # {}], s, Fixed(c, m))
                ELSE c

Show(p, m) ==
    /\ shown' = [shown EXCEPT ![p] = m]
    /\ screen' = [screen EXCEPT ![p] = See(@, session[p], m)]

-----------------------------------------------------------------------------
(* setChatId, with the effect that applies what it left in pendingRef: that
   effect runs when the id of the chat changes, and only then. *)

\* mutant: an empty list is not left
Left_IgnoresEmpty(p, options) ==
    IF options.given /\ options.rows # Empty THEN options ELSE pending[p]

Left(p, options) == IF options.given THEN options ELSE pending[p]

SetChatId(p, s, options, c) ==
    LET left == Left(p, options)
        changes == session[p] # s
        m == IF changes THEN left.rows ELSE shown[p]
    IN
    /\ session' = [session EXCEPT ![p] = s]
    /\ pending' = [pending EXCEPT ![p] = IF changes THEN Nothing ELSE left]
    /\ shown' = [shown EXCEPT ![p] = Fixed(c, m)]
    /\ busy' = [busy EXCEPT ![p] = \/ IF changes THEN left.again ELSE @
                                  \/ Fixes(c, m)]
    /\ screen' = [screen EXCEPT ![p] = IF changes THEN See(c, s, m)
                                       ELSE [c EXCEPT !.fixed = @ \/ m.turns # {}]]
    /\ working' = IF changes THEN {[w EXCEPT !.here = @ /\ w.tab # p] : w \in working}
                  ELSE working
    /\ strayed' = IF changes /\ ~options.given /\ left.rows # Empty
                  THEN strayed \cup {s} ELSE strayed
    /\ contested' = contested \cup
                    (IF \E q \in Tabs \ {p} : session[q] = s THEN {s} ELSE {})

(* A chat screen comes.  Its first effects still see the chat the tab had:
   they count its messages and fix its open call. *)
Mount(p, s, options, asked) ==
    LET old == shown[p]
        over == session[p] # s /\ old # Empty
        c == [on |-> TRUE, loaded |-> Count(old), timer |-> NoTimer, fixed |-> over,
              asked |-> asked, over |-> over]
    IN
    /\ ~screen[p].on
    /\ SetChatId(p, s, options, c)

CreateSession(s) ==
    /\ s \notin Used
    /\ table' = [table EXCEPT ![s] = [Absent EXCEPT !.here = TRUE]]

(* The landing page's input, and the tab's chat screen with nothing given. *)
OpenNew(s, t) ==
    /\ "input" \in Tappable(Landing)
    /\ CreateSession(s) /\ NextTurn(t) /\ Home(t, s)
    /\ Mount(Landing, s, Options(Ask(Empty, t), TRUE), TRUE)
    /\ UNCHANGED <<saved, kills>>

\* mutant: the new session is not made the tab's chat
OpenBlank_Unset(s) ==
    /\ CreateSession(s) /\ ~screen[Landing].on
    /\ screen' = [screen EXCEPT ![Landing] =
                    [on |-> TRUE, loaded |-> Count(shown[Landing]), timer |-> NoTimer,
                     fixed |-> FALSE, asked |-> FALSE, over |-> FALSE]]
    /\ UNCHANGED <<session, shown, busy, pending, working, history, kills>>

OpenBlank(s) ==
    /\ CreateSession(s)
    /\ Mount(Landing, s, Nothing, FALSE)
    /\ UNCHANGED <<home, saved, kills>>

\* mutant: the stored messages are not loaded
OpenStored_Blank(p, s) ==
    /\ s \in Used
    /\ Mount(p, s, Options(Empty, FALSE), FALSE)
    /\ UNCHANGED <<table, home, saved, kills>>

(* "Continue" or an entry of the history, possibly deleted in the meantime. *)
OpenStored(p, s) ==
    /\ "session" \in Tappable(p) /\ s \in Used
    /\ Mount(p, s, Options(table[s].rows, FALSE), FALSE)
    /\ UNCHANGED <<table, home, saved, kills>>

(* handleClear *)
NewChat(p, s) ==
    LET c == screen[p] IN
    /\ "clear" \in Tappable(p) /\ CreateSession(s)
    /\ SetChatId(p, s, Options(Empty, FALSE),
                 [c EXCEPT !.timer = NoTimer, !.fixed = FALSE, !.asked = FALSE,
                           !.over = FALSE])
    /\ UNCHANGED <<home, saved, kills>>

(* handleBack: a save that waits is cancelled, the chat goes on. *)
Back(p) ==
    /\ "back" \in Tappable(p)
    /\ screen' = [screen EXCEPT ![p] = NoScreen]
    /\ UNCHANGED <<session, shown, busy, pending, working, table, history, kills>>

-----------------------------------------------------------------------------
(* The conversation *)

(* The input is disabled while an answer comes, not while a tool runs. *)
Send(p, t) ==
    /\ screen[p].on /\ "input" \in Tappable(p) /\ NextTurn(t)
    /\ Home(t, session[p])
    /\ busy' = [busy EXCEPT ![p] = TRUE]
    /\ LET m == Ask(shown[p], t) IN
       /\ shown' = [shown EXCEPT ![p] = m]
       /\ screen' = [screen EXCEPT ![p] = See([@ EXCEPT !.asked = TRUE], session[p], m)]
    /\ UNCHANGED <<session, pending, working, table, saved, strayed, contested, kills>>

Stream(p) ==
    /\ busy[p] /\ shown[p].tail = "asked"
    /\ Show(p, [shown[p] EXCEPT !.tail = "partial"])
    /\ UNCHANGED <<session, busy, pending, working, table, history, kills>>

(* onToolCall for a tool whose output takes time; the stream ends with it. *)
OnToolCall(p) ==
    /\ busy[p] /\ shown[p].tail = "partial"
    /\ LET t == Last(shown[p]) IN
       /\ Show(p, [shown[p] EXCEPT !.tail = "call"])
       /\ busy' = [busy EXCEPT ![p] = FALSE]
       /\ working' = working \cup {[turn |-> t, tab |-> p, here |-> TRUE]}
    /\ UNCHANGED <<session, pending, table, history, kills>>

Waits(p, t) == shown[p].tail = "call" /\ Last(shown[p]) = t

(* addToolOutput, and sendAutomaticallyWhen.  After the tab's chat changed
   it is the library that decides which chat hears of it. *)
Output(w) ==
    /\ w \in working
    /\ working' = working \ {w}
    /\ \/ /\ Waits(w.tab, w.turn)
          /\ Show(w.tab, Answered(shown[w.tab]))
          /\ busy' = [busy EXCEPT ![w.tab] = TRUE]
       \/ /\ ~Waits(w.tab, w.turn) \/ ~w.here
          /\ UNCHANGED <<shown, screen, busy>>
    /\ UNCHANGED <<session, pending, table, history, kills>>

Finish(p) ==
    /\ busy[p] /\ shown[p].tail = "partial"
    /\ Show(p, [shown[p] EXCEPT !.tail = "full"])
    /\ busy' = [busy EXCEPT ![p] = FALSE]
    /\ UNCHANGED <<session, pending, working, table, history, kills>>

(* The request or the stream fails: an error bar, no more messages. *)
Fail(p) ==
    /\ busy[p]
    /\ busy' = [busy EXCEPT ![p] = FALSE]
    /\ UNCHANGED <<session, shown, pending, screen, working, table, history, kills>>

-----------------------------------------------------------------------------
(* lib/db.ts *)

(* The ids of messages are unique in the whole table: else nothing changes. *)
Conflict(s, m) == \E q \in Sessions \ {s} : table[q].rows.turns \cap m.turns # {}

(* The timer of 300 ms; saveSessionMessages replaces all of the session's
   messages, and creates it when it is not there (any more). *)
Save(p) ==
    LET due == screen[p].timer IN
    /\ screen[p].on /\ due # NoTimer
    /\ screen' = [screen EXCEPT ![p].timer = NoTimer]
    /\ IF Conflict(due.of, due.rows) THEN UNCHANGED <<table, saved>>
       ELSE /\ table' = [table EXCEPT ![due.of] = [@ EXCEPT !.here = TRUE, !.rows = due.rows]]
            /\ saved' = saved \cup due.rows.turns
    /\ UNCHANGED <<session, shown, busy, pending, working, home, strayed, contested, kills>>

(* The list of the history tab, seen when no chat is open there. *)
Delete(p, s) ==
    /\ p # Landing /\ ~screen[p].on /\ "session" \in Tappable(p) /\ table[s].here
    /\ table' = [table EXCEPT ![s] = Absent]
    /\ contested' = contested \cup {s}
    /\ UNCHANGED <<tab, working, home, saved, strayed, kills>>

Kill ==
    /\ kills < MaxKills
    /\ kills' = kills + 1
    /\ session' = [p \in Tabs |-> None]
    /\ shown' = [p \in Tabs |-> Empty]
    /\ busy' = [p \in Tabs |-> FALSE]
    /\ pending' = [p \in Tabs |-> Nothing]
    /\ screen' = [p \in Tabs |-> NoScreen]
    /\ working' = {}
    /\ UNCHANGED <<table, history>>

Next ==
    \/ \E s \in Sessions :
        \/ \E t \in Turns : OpenNew(s, t)
        \/ OpenBlank(s)
        \/ \E p \in Tabs : OpenStored(p, s) \/ NewChat(p, s) \/ Delete(p, s)
    \/ \E p \in Tabs :
        \/ Back(p) \/ Stream(p) \/ OnToolCall(p) \/ Finish(p) \/ Fail(p) \/ Save(p)
        \/ \E t \in Turns : Send(p, t)
    \/ \E w \in working : Output(w)
    \/ Kill

Spec == Init /\ [][Next]_vars

-----------------------------------------------------------------------------
TypeOK ==
    /\ session \in [Tabs -> Sessions \cup {None}]
    /\ shown \in [Tabs -> Messages]
    /\ busy \in [Tabs -> BOOLEAN]
    /\ pending \in [Tabs -> [given : BOOLEAN, rows : Messages, again : BOOLEAN]]
    /\ screen \in [Tabs -> Screen \cup {NoScreen}]
    /\ working \subseteq Tool
    /\ table \in [Sessions -> Row]
    /\ DOMAIN home \subseteq Turns /\ home \in [DOMAIN home -> Sessions]
    /\ saved \subseteq Turns
    /\ strayed \subseteq Sessions /\ contested \subseteq Sessions
    /\ kills \in 0..MaxKills

(* A session stores the turns asked in it, unless it was opened blank in a
   tab where messages were left: setChatId leaves them when the id does not
   change, and applies them to whatever chat comes next. *)
StoredIsOwn ==
    \A s \in Sessions \ strayed : \A t \in table[s].rows.turns : home[t] = s

(* What was stored once stays, unless its session was deleted or two tabs
   held it: the last to save replaces what the other stored. *)
SavedTurnsStay ==
    \A t \in saved : home[t] \in contested \/ t \in table[home[t]].rows.turns

(* A screen with no save ahead has stored what it shows, if it is where the
   last turn was asked and its answer has begun; so a turn seen through on
   one screen outlives the app. *)
ShownIsStored ==
    \A p \in Tabs :
        /\ screen[p].on /\ screen[p].asked /\ screen[p].timer = NoTimer
        /\ shown[p].tail # "asked"
        /\ session[p] \notin strayed \cup contested
        => table[session[p]].rows = shown[p]

(* A tool call that a screen shows waiting is being worked on, unless the
   screen came over another chat: it then spent its one look at open calls
   on that one. *)
OpenCallsLive ==
    \A p \in Tabs : screen[p].on /\ shown[p].tail = "call" =>
        \/ [turn |-> Last(shown[p]), tab |-> p, here |-> TRUE] \in working
        \/ screen[p].over

=============================================================================
