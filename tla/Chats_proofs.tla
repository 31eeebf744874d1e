------------------------------ MODULE Chats_proofs --------------------------
(***************************************************************************)
(* For any tabs, sessions and turns: the chats of the mobile app stay well *)
(* typed, a session stores its own turns and keeps them, what a screen     *)
(* shows is stored, and the tool calls it shows are worked on.             *)
(* The invariant is MInv.  Owned, its part on whose turns are where, knows *)
(* of each turn shown or left for another chat that its own session has it *)
(* stored, unless that one was deleted or held by two tabs.                *)
(*                                                                         *)
(* And for any calls, queries and reloads, of the cards in a chat: they    *)
(* show what their own call asks for, wait only for what is asked, stay    *)
(* cleared, and the widget follows them.  The invariant is CardsInv: of    *)
(* each query, mark and override that the client keeps, which messages it  *)
(* comes from.                                                             *)
(***************************************************************************)
EXTENDS MobileChat, ArrivalCards, FiniteSetTheorems, WellFoundedInduction, TLAPS

(* A list has a tail exactly when it has turns. *)
Sound(m) == m \in Messages /\ (m.turns = {} <=> m.tail = "none")
Tails == {"asked", "partial", "call", "full"}

LEMMA CountIsNat ==
    ASSUME NEW m, Sound(m)
    PROVE  /\ Cardinality(m.turns) \in Nat /\ Count(m) \in Nat
           /\ IsFiniteSet(m.turns)
<1>1. IsFiniteSet(m.turns)
  BY FS_Subset, MobileChatAssumption DEF Sound, Messages
<1>2. Cardinality(m.turns) \in Nat /\ (m.turns # {} => Cardinality(m.turns) # 0)
  BY <1>1, FS_CardinalityType, FS_EmptySet
<1>3. m.tail = "asked" => Cardinality(m.turns) >= 1
  BY <1>2 DEF Sound
<1>4. Count(m) \in Nat
  BY <1>2, <1>3 DEF Count
<1> QED BY <1>1, <1>2, <1>4

LEMMA EmptyIsSound == Sound(Empty) /\ Empty.turns = {} /\ Empty.tail = "none"
BY DEF Sound, Empty, Messages

LEMMA AskMeans ==
    ASSUME NEW m, Sound(m), NEW t \in Turns
    PROVE  /\ Sound(Ask(m, t))
           /\ Ask(m, t).turns = m.turns \cup {t} /\ Ask(m, t).tail = "asked"
BY DEF Sound, Ask, Messages

LEMMA TailMeans ==
    ASSUME NEW m, Sound(m), m.turns # {}, NEW x \in Tails
    PROVE  LET n == [m EXCEPT !.tail = x]
           IN  Sound(n) /\ n.turns = m.turns /\ n.tail = x
BY DEF Sound, Messages, Tails

LEMMA FixedMeans ==
    ASSUME NEW c, NEW m, Sound(m)
    PROVE  /\ Sound(Fixed(c, m)) /\ Fixed(c, m).turns = m.turns
           /\ Fixed(c, m) = m \/ (~c.fixed /\ m.tail = "call" /\ Fixed(c, m).tail = "partial")
           /\ ~c.fixed => Fixed(c, m).tail # "call"
<1>1. CASE Fixes(c, m)
  <2>1. m.turns # {} /\ ~c.fixed /\ m.tail = "call"
    BY <1>1 DEF Fixes, Sound
  <2> QED BY <1>1, <2>1, TailMeans DEF Fixed, Answered, Tails
<1>2. CASE ~Fixes(c, m)
  BY <1>2 DEF Fixed, Fixes
<1> QED BY <1>1, <1>2

(* What a screen makes of the messages of its tab. *)
LEMMA SeeMeans ==
    ASSUME NEW c \in Screen, NEW s \in Sessions, NEW m, Sound(m)
    PROVE  LET x == See(c, s, m)
           IN  /\ x \in Screen /\ x.asked = c.asked /\ x.over = c.over
               /\ x.fixed = (c.fixed \/ m.turns # {})
               /\ IF m.turns = {} \/ c.loaded = Count(Fixed(c, m))
                  THEN x.timer = NoTimer /\ x.loaded = c.loaded
                  ELSE /\ x.timer = [of |-> s, rows |-> Fixed(c, m)]
                       /\ x.loaded = Anything
<1> DEFINE n == Fixed(c, m)
<1> DEFINE d == [c EXCEPT !.fixed = @ \/ m.turns # {}]
<1>1. n \in Messages /\ n.turns = m.turns
  BY FixedMeans DEF Sound
<1> HIDE DEF n
<1>2. d \in Screen /\ d.asked = c.asked /\ d.over = c.over /\ d.loaded = c.loaded
      /\ d.fixed = (c.fixed \/ m.turns # {})
  BY DEF Screen
<1> HIDE DEF d
<1>3. See(c, s, m) = Observe(d, s, n)
  BY DEF See, Screen, d, n
<1>4. NoTimer \in [of : Sessions \cup {None}, rows : Messages]
  BY EmptyIsSound DEF NoTimer, Sound
<1>5. CASE m.turns = {} \/ c.loaded = Count(n)
  <2>1. See(c, s, m) = [d EXCEPT !.timer = NoTimer]
    BY <1>1, <1>2, <1>3, <1>5 DEF Observe
  <2>2. LET x == [d EXCEPT !.timer = NoTimer]
        IN  /\ x \in Screen /\ x.asked = d.asked /\ x.over = d.over /\ x.fixed = d.fixed
            /\ x.timer = NoTimer /\ x.loaded = d.loaded
    BY <1>2, <1>4 DEF Screen
  <2> QED BY <1>2, <1>5, <2>1, <2>2 DEF n
<1>6. CASE ~(m.turns = {} \/ c.loaded = Count(n))
  <2> DEFINE w == [of |-> s, rows |-> n]
  <2>1. See(c, s, m) = [d EXCEPT !.loaded = Anything, !.timer = w]
    BY <1>1, <1>2, <1>3, <1>6 DEF Observe
  <2>2. w \in [of : Sessions \cup {None}, rows : Messages]
    BY <1>1
  <2> HIDE DEF w
  <2>3. LET x == [d EXCEPT !.loaded = Anything, !.timer = w]
        IN  /\ x \in Screen /\ x.asked = d.asked /\ x.over = d.over /\ x.fixed = d.fixed
            /\ x.timer = w /\ x.loaded = Anything
    BY <1>2, <2>2 DEF Screen
  <2> QED BY <1>2, <1>6, <2>1, <2>3 DEF n, w
<1> QED BY <1>5, <1>6

(* Turns are numbered in the order they are asked: some turn is the last. *)
LEMMA Greatest ==
    ASSUME NEW T, T \subseteq Nat, IsFiniteSet(T), T # {}
    PROVE  \E t \in T : \A u \in T : u <= t
<1> DEFINE After(t) == {u \in T : t < u}
<1> DEFINE Family == {After(t) : t \in T}
<1>1. Family \subseteq FiniteSubsetsOf(T) /\ Family # {}
  <2>1. \A t \in T : After(t) \in SUBSET T /\ IsFiniteSet(After(t))
    BY FS_Subset
  <2> QED BY <2>1 DEF FiniteSubsetsOf
<1>2. PICK F \in Family : \A G \in Family : <<G, F>> \notin StrictSubsetOrdering(T)
  BY <1>1, FS_StrictSubsetOrderingWellFounded, WFMin
<1>3. PICK t \in T : F = After(t)
  BY <1>2
<1>4. ASSUME NEW u \in T, t < u
      PROVE  FALSE
  <2>1. After(u) \subseteq After(t) /\ u \in After(t) /\ u \notin After(u)
    <3>1. t \in Nat /\ u \in Nat /\ \A v \in T : v \in Nat
      OBVIOUS
    <3>2. \A v \in T : u < v => t < v
      BY <1>4, <3>1
    <3>3. ~(u < u)
      BY <3>1
    <3> QED BY <1>4, <3>2, <3>3
  <2>2. <<After(u), After(t)>> \in StrictSubsetOrdering(T)
    <3>1. After(u) \in SUBSET T /\ After(t) \in SUBSET T /\ After(u) # After(t)
      BY <2>1
    <3> HIDE DEF After
    <3> QED BY <2>1, <3>1 DEF StrictSubsetOrdering
  <2> QED BY <1>2, <1>3, <2>2
<1> QED BY <1>4

LEMMA LastIsTurn ==
    ASSUME NEW m, Sound(m), m.turns # {}
    PROVE  Last(m) \in m.turns /\ Last(m) \in Turns
<1>1. m.turns \subseteq Turns /\ m.turns \subseteq Nat /\ IsFiniteSet(m.turns)
  BY CountIsNat, MobileChatAssumption DEF Sound, Messages
<1>2. \E t \in m.turns : \A u \in m.turns : u <= t
  BY <1>1, Greatest
<1> QED BY <1>1, <1>2 DEF Last
-----------------------------------------------------------------------------
(* Types *)

Lists ==
    /\ \A p \in Tabs : /\ Sound(shown[p]) /\ shown[p].turns \subseteq DOMAIN home
                       /\ Sound(pending[p].rows) /\ pending[p].rows.turns \subseteq DOMAIN home
    /\ \A s \in Sessions : /\ Sound(table[s].rows) /\ table[s].rows.turns \subseteq DOMAIN home
                           /\ ~table[s].here => table[s].rows = Empty

(* A tab without a chat shows none; a chat that is shown was created. *)
Seated ==
    \A p \in Tabs : /\ session[p] = None => shown[p] = Empty /\ ~screen[p].on
                    /\ session[p] # None => session[p] \in Used

Types == TypeOK /\ Lists /\ Seated

LEMMA ScreenOn ==
    ASSUME Types, NEW p \in Tabs
    PROVE  /\ screen[p].on => screen[p] \in Screen /\ session[p] \in Sessions
           /\ ~screen[p].on => screen[p] = NoScreen
           /\ session[p] \in Used \cup {None} /\ Used \subseteq Sessions
           /\ \A c \in Screen : c.on
<1>1. screen[p] \in Screen \cup {NoScreen} /\ session[p] \in Sessions \cup {None}
  BY DEF Types, TypeOK
<1>2. ~NoScreen.on /\ \A c \in Screen : c.on
  BY DEF NoScreen, Screen
<1>3. /\ screen[p].on => session[p] # None
      /\ session[p] # None => session[p] \in Used
  BY DEF Types, Seated
<1>4. Used \subseteq Sessions
  BY DEF Types, TypeOK, Used
<1> QED BY <1>1, <1>2, <1>3, <1>4

(* Messages of tab p change, its chat does not. *)
LEMMA ShowMeans ==
    ASSUME Types, NEW p \in Tabs, NEW m, Sound(m), Show(p, m)
    PROVE  /\ shown' \in [Tabs -> Messages] /\ screen' \in [Tabs -> Screen \cup {NoScreen}]
           /\ shown'[p] = m
           /\ screen'[p] = See(screen[p], session[p], m)
           /\ \A q \in Tabs \ {p} : shown'[q] = shown[q] /\ screen'[q] = screen[q]
           /\ ~screen[p].on => screen'[p] = screen[p]
           /\ screen'[p].on = screen[p].on
<1>1. /\ shown' = [shown EXCEPT ![p] = m]
      /\ screen' = [screen EXCEPT ![p] = See(screen[p], session[p], m)]
      /\ shown \in [Tabs -> Messages] /\ screen \in [Tabs -> Screen \cup {NoScreen}]
  BY DEF Show, Types, TypeOK
<1>2. /\ See(screen[p], session[p], m) \in Screen \cup {NoScreen}
      /\ ~screen[p].on => See(screen[p], session[p], m) = screen[p]
      /\ See(screen[p], session[p], m).on = screen[p].on
  <2>1. CASE screen[p].on
    BY <2>1, ScreenOn, SeeMeans
  <2>2. CASE ~screen[p].on
    BY <2>2, ScreenOn DEF See
  <2> QED BY <2>1, <2>2
<1>3. m \in Messages
  BY DEF Sound
<1> QED BY <1>1, <1>2, <1>3

(* The answer in tab p goes on. *)
Answers(p, m) ==
    /\ Sound(m) /\ m.turns = shown[p].turns /\ m.turns # {} /\ m.tail \in Tails \ {"asked"}
    /\ Show(p, m) /\ UNCHANGED <<session, pending, table, history, kills>>

LEMMA AnswerSteps ==
    ASSUME Types, NEW p \in Tabs, Stream(p) \/ OnToolCall(p) \/ Finish(p)
    PROVE  \E m : Answers(p, m) /\ (m.tail = "call" => OnToolCall(p))
<1>1. shown[p].turns # {} /\ Sound(shown[p])
  BY DEF Stream, OnToolCall, Finish, Types, Lists, Sound
<1>2. PICK x \in Tails \ {"asked"} : /\ Show(p, [shown[p] EXCEPT !.tail = x])
                                     /\ x = "call" => OnToolCall(p)
  BY DEF Stream, OnToolCall, Finish, Tails
<1> DEFINE m == [shown[p] EXCEPT !.tail = x]
<1>3. Sound(m) /\ m.turns = shown[p].turns /\ m.tail = x
  BY <1>1, TailMeans
<1>4. UNCHANGED <<session, pending, table, history, kills>>
  BY DEF Stream, OnToolCall, Finish
<1> QED BY <1>1, <1>2, <1>3, <1>4 DEF Answers

LEMMA OutputSteps ==
    ASSUME Types, NEW w \in working, Output(w)
    PROVE  /\ w.tab \in Tabs
           /\ \/ \E m : Answers(w.tab, m) /\ m.tail = "partial" /\ Waits(w.tab, w.turn)
              \/ /\ ~Waits(w.tab, w.turn) \/ ~w.here
                 /\ UNCHANGED <<session, shown, screen, busy, pending, table, history, kills>>
<1>1. w.tab \in Tabs
  BY DEF Types, TypeOK, Tool
<1>2. CASE Waits(w.tab, w.turn) /\ Show(w.tab, Answered(shown[w.tab]))
  <2> DEFINE m == Answered(shown[w.tab])
  <2>1. shown[w.tab].turns # {} /\ Sound(shown[w.tab])
    BY <1>1, <1>2 DEF Waits, Types, Lists, Sound
  <2>2. Sound(m) /\ m.turns = shown[w.tab].turns /\ m.tail = "partial"
    BY <2>1, TailMeans DEF Answered, Tails
  <2>3. UNCHANGED <<session, pending, table, history, kills>>
    BY DEF Output
  <2> QED BY <1>1, <1>2, <2>1, <2>2, <2>3 DEF Answers, Tails
<1>3. CASE ~(Waits(w.tab, w.turn) /\ Show(w.tab, Answered(shown[w.tab])))
  BY <1>1, <1>3 DEF Output
<1> QED BY <1>2, <1>3

OptionType == [given : BOOLEAN, rows : Messages, again : BOOLEAN]
Content(p, s, o) == IF session[p] # s THEN Left(p, o).rows ELSE shown[p]

LEMMA SetChatMeans ==
    ASSUME Types, NEW p \in Tabs, NEW s \in Sessions, NEW o \in OptionType, Sound(o.rows),
           NEW c \in Screen, c.timer = NoTimer, SetChatId(p, s, o, c)
    PROVE  LET m == Content(p, s, o)
           IN  /\ Sound(m) /\ Sound(shown'[p]) /\ shown'[p] = Fixed(c, m)
               /\ shown' \in [Tabs -> Messages]
               /\ session' = [session EXCEPT ![p] = s] /\ session'[p] = s
               /\ pending' = [pending EXCEPT ![p] = IF session[p] # s THEN Nothing ELSE Left(p, o)]
               /\ pending' \in [Tabs -> OptionType] /\ Sound(pending'[p].rows)
               /\ screen' \in [Tabs -> Screen \cup {NoScreen}]
               /\ screen'[p] \in Screen /\ screen'[p].on
               /\ screen'[p].asked = c.asked /\ screen'[p].over = c.over
               /\ screen'[p].fixed = (c.fixed \/ m.turns # {})
               /\ session[p] # s => screen'[p] = See(c, s, m)
               /\ session[p] = s => screen'[p].timer = NoTimer /\ screen'[p].loaded = c.loaded
               /\ \A q \in Tabs \ {p} : /\ shown'[q] = shown[q] /\ screen'[q] = screen[q]
                                        /\ session'[q] = session[q] /\ pending'[q] = pending[q]
<1> DEFINE left == Left(p, o)
<1> DEFINE m == Content(p, s, o)
<1>1. left \in OptionType /\ Sound(left.rows)
  BY DEF Left, Types, TypeOK, Lists, OptionType
<1>2. Sound(m)
  BY <1>1 DEF Content, Types, Lists
<1>3. Sound(Fixed(c, m)) /\ Fixed(c, m) \in Messages
  BY <1>2, FixedMeans DEF Sound
<1>4. /\ session' = [session EXCEPT ![p] = s]
      /\ shown' = [shown EXCEPT ![p] = Fixed(c, m)]
      /\ pending' = [pending EXCEPT ![p] = IF session[p] # s THEN Nothing ELSE left]
      /\ screen' = [screen EXCEPT ![p] = IF session[p] # s THEN See(c, s, m)
                                         ELSE [c EXCEPT !.fixed = @ \/ m.turns # {}]]
  BY DEF SetChatId, Content
<1>5. Nothing \in OptionType /\ Sound(Nothing.rows)
  BY EmptyIsSound DEF Nothing, OptionType, Sound
<1>6. /\ See(c, s, m) \in Screen /\ See(c, s, m).asked = c.asked /\ See(c, s, m).over = c.over
      /\ See(c, s, m).fixed = (c.fixed \/ m.turns # {})
  BY <1>2, SeeMeans
<1>7. LET x == [c EXCEPT !.fixed = @ \/ m.turns # {}]
      IN  /\ x \in Screen /\ x.asked = c.asked /\ x.over = c.over /\ x.timer = c.timer
          /\ x.fixed = (c.fixed \/ m.turns # {}) /\ x.loaded = c.loaded
  BY DEF Screen
<1>8. /\ session \in [Tabs -> Sessions \cup {None}] /\ shown \in [Tabs -> Messages]
      /\ pending \in [Tabs -> OptionType] /\ screen \in [Tabs -> Screen \cup {NoScreen}]
  BY DEF Types, TypeOK, OptionType
<1>9. \A x \in Screen : x.on
  BY DEF Screen
<1> HIDE DEF m, left
<1>10. /\ session'[p] = s /\ shown'[p] = Fixed(c, m) /\ shown' \in [Tabs -> Messages]
       /\ \A q \in Tabs \ {p} : /\ shown'[q] = shown[q] /\ screen'[q] = screen[q]
                                /\ session'[q] = session[q] /\ pending'[q] = pending[q]
  BY <1>3, <1>4, <1>8
<1>11. pending' \in [Tabs -> OptionType] /\ Sound(pending'[p].rows)
  BY <1>1, <1>4, <1>5, <1>8
<1>12. CASE session[p] # s
  <2>1. screen'[p] = See(c, s, m) /\ screen' \in [Tabs -> Screen \cup {NoScreen}]
    BY <1>4, <1>6, <1>8, <1>12
  <2> QED BY <1>2, <1>3, <1>4, <1>6, <1>9, <1>10, <1>11, <1>12, <2>1 DEF m, left
<1>13. CASE session[p] = s
  <2> DEFINE x == [c EXCEPT !.fixed = @ \/ m.turns # {}]
  <2>1. screen'[p] = x /\ screen' \in [Tabs -> Screen \cup {NoScreen}]
    BY <1>4, <1>7, <1>8, <1>13
  <2> HIDE DEF x
  <2>2. /\ x \in Screen /\ x.asked = c.asked /\ x.over = c.over /\ x.timer = c.timer
        /\ x.fixed = (c.fixed \/ m.turns # {}) /\ x.loaded = c.loaded
    BY <1>7 DEF x
  <2> QED BY <1>2, <1>3, <1>4, <1>9, <1>10, <1>11, <1>13, <2>1, <2>2 DEF m, left
<1> QED BY <1>12, <1>13

(* What history knows of a change of chat, and of the tools of the old one. *)
LEMMA SetChatNotes ==
    ASSUME Types, NEW p \in Tabs, NEW s \in Sessions, NEW o \in OptionType,
           NEW c \in Screen, SetChatId(p, s, o, c)
    PROVE  /\ busy' \in [Tabs -> BOOLEAN] /\ working' \subseteq Tool
           /\ strayed \subseteq strayed' /\ strayed' \subseteq strayed \cup {s}
           /\ contested \subseteq contested' /\ contested' \subseteq contested \cup {s}
           /\ \A q \in Tabs \ {p} : session[q] = s => s \in contested'
           /\ session[p] # s /\ ~o.given /\ pending[p].rows # Empty => s \in strayed'
           /\ session[p] = s => working' = working
           /\ \A w \in working : w.tab # p => w \in working'
<1>1. /\ busy \in [Tabs -> BOOLEAN] /\ working \subseteq Tool
      /\ pending \in [Tabs -> OptionType]
  BY DEF Types, TypeOK, OptionType
<1>2. working' \subseteq Tool /\ \A w \in working : w.tab # p => w \in working'
  <2>1. \A w \in Tool : /\ [w EXCEPT !.here = @ /\ w.tab # p] \in Tool
                        /\ w.tab # p => [w EXCEPT !.here = @ /\ w.tab # p] = w
    BY DEF Tool
  <2>2. \/ working' = {[w EXCEPT !.here = @ /\ w.tab # p] : w \in working}
        \/ working' = working
    BY DEF SetChatId
  <2> QED BY <1>1, <2>1, <2>2
<1>3. busy' \in [Tabs -> BOOLEAN]
  <2>1. Left(p, o).again \in BOOLEAN /\ busy[p] \in BOOLEAN
    BY <1>1 DEF Left, OptionType
  <2>2. PICK b \in BOOLEAN : busy' = [busy EXCEPT ![p] = b]
    BY <2>1 DEF SetChatId, Fixes
  <2> QED BY <1>1, <2>2
<1> QED BY <1>2, <1>3 DEF SetChatId, Left

(* The ways to change the chat of tab p to session s, with options o and a
   screen c. *)
Stored(s, o) == /\ s \in Used /\ o = Options(table[s].rows, FALSE)
                /\ UNCHANGED <<table, home>>
Blank(s, o) == CreateSession(s) /\ o \in {Options(Empty, FALSE), Nothing} /\ home' = home
Asked(s, o, t) == CreateSession(s) /\ o = Options(Ask(Empty, t), TRUE) /\ NextTurn(t) /\ Home(t, s)
Opens(p, s, o, c) ==
    /\ o \in OptionType /\ Sound(o.rows)
    /\ c \in Screen /\ c.timer = NoTimer /\ c.fixed = c.over /\ (c.over => session[p] # s)
    /\ SetChatId(p, s, o, c) /\ UNCHANGED <<saved, kills>>
    /\ \/ ~c.asked /\ (Stored(s, o) \/ Blank(s, o))
       \/ \E t \in Turns : Asked(s, o, t)

LEMMA OptionsMean ==
    /\ \A m : \A again \in BOOLEAN : Sound(m) =>
          /\ Options(m, again) \in OptionType
          /\ Options(m, again).rows = m /\ Options(m, again).given
    /\ Nothing \in OptionType /\ Nothing.rows = Empty /\ ~Nothing.given
BY EmptyIsSound DEF Options, Nothing, OptionType, Sound

LEMMA OpenSteps ==
    ASSUME Types, NEW p \in Tabs, NEW s \in Sessions,
           \/ p = Landing /\ (OpenBlank(s) \/ \E t \in Turns : OpenNew(s, t))
           \/ OpenStored(p, s) \/ NewChat(p, s)
    PROVE  \E o, c : Opens(p, s, o, c)
<1>1. NoTimer \in [of : Sessions \cup {None}, rows : Messages]
  BY EmptyIsSound DEF NoTimer, Sound
<1>2. Sound(table[s].rows) /\ (\A t \in Turns : Sound(Ask(Empty, t)))
  BY EmptyIsSound, AskMeans DEF Types, Lists
<1>3. ASSUME NEW o \in OptionType, Sound(o.rows), NEW asked \in BOOLEAN, Mount(p, s, o, asked)
      PROVE  \E c \in Screen : /\ c.timer = NoTimer /\ c.fixed = c.over /\ c.asked = asked
                               /\ c.over => session[p] # s
                               /\ SetChatId(p, s, o, c)
  <2> DEFINE over == session[p] # s /\ shown[p] # Empty
  <2> DEFINE c == [on |-> TRUE, loaded |-> Count(shown[p]), timer |-> NoTimer, fixed |-> over,
                   asked |-> asked, over |-> over]
  <2>1. Count(shown[p]) \in Nat /\ over \in BOOLEAN
    BY CountIsNat DEF Types, Lists
  <2>2. SetChatId(p, s, o, c)
    BY <1>3 DEF Mount
  <2>3. c \in Screen
    BY <1>1, <2>1 DEF Screen
  <2>4. c.timer = NoTimer /\ c.fixed = c.over /\ c.asked = asked /\ (c.over => session[p] # s)
    OBVIOUS
  <2> HIDE DEF c
  <2> QED BY <2>2, <2>3, <2>4
<1>4. CASE p = Landing /\ OpenBlank(s)
  <2>1. /\ Mount(p, s, Nothing, FALSE) /\ Blank(s, Nothing) /\ UNCHANGED <<saved, kills>>
    BY <1>4 DEF OpenBlank, Blank
  <2> QED BY <1>3, <2>1, OptionsMean, EmptyIsSound DEF Opens
<1>5. ASSUME p = Landing, NEW t \in Turns, OpenNew(s, t)
      PROVE  \E o, c : Opens(p, s, o, c)
  <2> DEFINE o == Options(Ask(Empty, t), TRUE)
  <2>1. o \in OptionType /\ Sound(o.rows)
    BY <1>2, OptionsMean
  <2>2. Mount(p, s, o, TRUE) /\ Asked(s, o, t) /\ UNCHANGED <<saved, kills>>
    BY <1>5 DEF OpenNew, Asked
  <2> HIDE DEF o
  <2> QED BY <1>3, <2>1, <2>2 DEF Opens
<1>6. CASE OpenStored(p, s)
  <2> DEFINE o == Options(table[s].rows, FALSE)
  <2>1. o \in OptionType /\ Sound(o.rows)
    BY <1>2, OptionsMean
  <2>2. Mount(p, s, o, FALSE) /\ Stored(s, o) /\ UNCHANGED <<saved, kills>>
    BY <1>6 DEF OpenStored, Stored
  <2> HIDE DEF o
  <2> QED BY <1>3, <2>1, <2>2 DEF Opens
<1>7. CASE NewChat(p, s)
  <2> DEFINE o == Options(Empty, FALSE)
  <2> DEFINE c == [screen[p] EXCEPT !.timer = NoTimer, !.fixed = FALSE, !.asked = FALSE,
                                    !.over = FALSE]
  <2>1. o \in OptionType /\ Sound(o.rows)
    BY EmptyIsSound, OptionsMean
  <2>2. screen[p] \in Screen
    <3>1. "clear" \in Tappable(p)
      BY <1>7 DEF NewChat
    <3>2. screen[p].on
      BY <3>1 DEF Tappable, LandingScreen, HistoryScreen
    <3> QED BY <3>2, ScreenOn
  <2>3. c \in Screen /\ c.timer = NoTimer /\ ~c.fixed /\ ~c.over /\ ~c.asked
    BY <1>1, <2>2 DEF Screen
  <2>4. SetChatId(p, s, o, c) /\ Blank(s, o) /\ UNCHANGED <<saved, kills>>
    BY <1>7 DEF NewChat, Blank
  <2> HIDE DEF o, c
  <2>5. c.fixed = c.over
    BY <2>3 DEF Screen
  <2> QED BY <2>1, <2>3, <2>4, <2>5 DEF Opens
<1> QED BY <1>4, <1>5, <1>6, <1>7

LEMMA HomeMeans ==
    ASSUME Types, NEW s \in Sessions, NEW t \in Turns, NextTurn(t), Home(t, s)
    PROVE  /\ t \notin DOMAIN home /\ DOMAIN home' = DOMAIN home \cup {t}
           /\ home'[t] = s /\ \A u \in DOMAIN home : home'[u] = home[u]
           /\ DOMAIN home' \subseteq Turns /\ home' \in [DOMAIN home' -> Sessions]
<1>1. t \notin DOMAIN home
  BY DEF NextTurn
<1>2. home' = [u \in DOMAIN home \cup {t} |-> IF u = t THEN s ELSE home[u]]
  BY DEF Home
<1>3. DOMAIN home \subseteq Turns /\ home \in [DOMAIN home -> Sessions]
  BY DEF Types, TypeOK
<1> QED BY <1>1, <1>2, <1>3

(* A new session has no messages, and its id had none. *)
LEMMA Creates ==
    ASSUME Types, NEW s \in Sessions, CreateSession(s)
    PROVE  /\ s \notin Used /\ table' \in [Sessions -> Row]
           /\ table'[s].here /\ table[s].rows = Empty
           /\ \A q \in Sessions : /\ table'[q].rows = table[q].rows
                                  /\ table[q].here => table'[q].here
<1>1. /\ s \notin Used /\ table \in [Sessions -> Row]
      /\ table' = [table EXCEPT ![s] = [Absent EXCEPT !.here = TRUE]]
  BY DEF CreateSession, Types, TypeOK
<1>2. table[s].rows = Empty
  BY <1>1 DEF Used, Types, Lists
<1>3. LET x == [Absent EXCEPT !.here = TRUE] IN x \in Row /\ x.here /\ x.rows = Empty
  BY EmptyIsSound DEF Absent, Row, Sound
<1> QED BY <1>1, <1>2, <1>3

(* What all ways to change the chat have in common. *)
LEMMA OpensMean ==
    ASSUME Types, NEW p \in Tabs, NEW s \in Sessions, NEW o, NEW c, Opens(p, s, o, c)
    PROVE  /\ table' \in [Sessions -> Row]
           /\ \A q \in Sessions : /\ table'[q].rows = table[q].rows
                                  /\ table[q].here => table'[q].here
           /\ Used \subseteq Used' /\ s \in Used'
           /\ \A q \in Sessions : ~table'[q].here => ~table[q].here
           /\ DOMAIN home \subseteq DOMAIN home' /\ \A u \in DOMAIN home : home'[u] = home[u]
           /\ DOMAIN home' \subseteq Turns /\ home' \in [DOMAIN home' -> Sessions]
           /\ Content(p, s, o).turns \subseteq DOMAIN home'
           /\ pending'[p].rows.turns \subseteq DOMAIN home
<1>1. contested \subseteq contested'
  BY SetChatNotes DEF Opens
<1>2. /\ table \in [Sessions -> Row] /\ DOMAIN home \subseteq Turns
      /\ home \in [DOMAIN home -> Sessions]
      /\ pending \in [Tabs -> OptionType]
  BY DEF Types, TypeOK, OptionType
<1>3. /\ shown[p].turns \subseteq DOMAIN home /\ pending[p].rows.turns \subseteq DOMAIN home
      /\ table[s].rows.turns \subseteq DOMAIN home
      /\ Sound(table[s].rows)
  BY DEF Types, Lists
<1>4. pending'[p] = IF session[p] # s THEN Nothing ELSE Left(p, o)
  <2>1. pending' = [pending EXCEPT ![p] = IF session[p] # s THEN Nothing ELSE Left(p, o)]
    BY SetChatMeans DEF Opens
  <2> QED BY <1>2, <2>1
<1>5. /\ \A q \in Sessions : /\ table'[q].rows = table[q].rows
                             /\ table[q].here => table'[q].here
      /\ s \in Used' /\ table' \in [Sessions -> Row]
  <2>1. CASE Stored(s, o)
    BY <1>1, <1>2, <2>1 DEF Stored, Used
  <2>2. CASE CreateSession(s)
    BY <2>2, Creates DEF Used
  <2> QED BY <2>1, <2>2 DEF Opens, Blank, Asked
<1>6. Used \subseteq Used' /\ \A q \in Sessions : ~table'[q].here => ~table[q].here
  BY <1>1, <1>5, <1>2 DEF Used
<1>7. CASE Stored(s, o) \/ Blank(s, o)
  <2>1. home' = home
    BY <1>7 DEF Stored, Blank
  <2>2. Left(p, o).rows.turns \subseteq DOMAIN home
    BY <1>3, <1>7, OptionsMean, EmptyIsSound DEF Stored, Blank, Left
  <2>3. Content(p, s, o).turns \subseteq DOMAIN home /\ pending'[p].rows.turns \subseteq DOMAIN home
    BY <1>3, <1>4, <2>2, OptionsMean, EmptyIsSound DEF Content
  <2> QED BY <1>2, <1>5, <1>6, <2>1, <2>3
<1>8. ASSUME NEW t \in Turns, Asked(s, o, t)
      PROVE  /\ DOMAIN home \subseteq DOMAIN home' /\ \A u \in DOMAIN home : home'[u] = home[u]
             /\ DOMAIN home' \subseteq Turns /\ home' \in [DOMAIN home' -> Sessions]
             /\ Content(p, s, o).turns \subseteq DOMAIN home'
             /\ pending'[p].rows.turns \subseteq DOMAIN home
  <2>1. /\ DOMAIN home' = DOMAIN home \cup {t} /\ \A u \in DOMAIN home : home'[u] = home[u]
        /\ DOMAIN home' \subseteq Turns /\ home' \in [DOMAIN home' -> Sessions]
    BY <1>8, HomeMeans DEF Asked
  <2>2. session[p] # s
    BY <1>8, Creates, NoneAssumption DEF Asked, Types, Seated
  <2>3. Left(p, o).rows.turns = {t}
    <3>1. Sound(Ask(Empty, t)) /\ Ask(Empty, t).turns = {t}
      BY EmptyIsSound, AskMeans
    <3>2. o.rows = Ask(Empty, t) /\ o.given
      BY <1>8, <3>1, OptionsMean DEF Asked
    <3> QED BY <3>1, <3>2 DEF Left
  <2>4. Content(p, s, o).turns = {t} /\ pending'[p].rows.turns = {}
    BY <1>4, <2>2, <2>3, OptionsMean, EmptyIsSound DEF Content
  <2> QED BY <2>1, <2>4
<1> QED BY <1>5, <1>6, <1>7, <1>8 DEF Opens

LEMMA AnswersKeep ==
    ASSUME Types, NEW p \in Tabs, NEW m, Answers(p, m), busy' \in [Tabs -> BOOLEAN],
           working' \subseteq Tool
    PROVE  Types'
<1>1. /\ shown' \in [Tabs -> Messages] /\ screen' \in [Tabs -> Screen \cup {NoScreen}]
      /\ shown'[p] = m /\ screen'[p].on = screen[p].on
      /\ \A q \in Tabs \ {p} : shown'[q] = shown[q] /\ screen'[q] = screen[q]
  BY ShowMeans DEF Answers
<1>2. /\ UNCHANGED <<session, pending, table, home, saved, strayed, contested, kills>>
      /\ Sound(m) /\ m.turns = shown[p].turns /\ m.turns # {}
  BY DEF Answers, history
<1>3. TypeOK'
  BY <1>1, <1>2 DEF Types, TypeOK
<1>4. Lists'
  BY <1>1, <1>2 DEF Types, Lists
<1>5. Seated'
  BY <1>1, <1>2 DEF Types, Seated, Used, Empty
<1> QED BY <1>3, <1>4, <1>5 DEF Types

LEMMA OpensKeep ==
    ASSUME Types, NEW p \in Tabs, NEW s \in Sessions, NEW o, NEW c, Opens(p, s, o, c)
    PROVE  Types'
<1>1. LET m == Content(p, s, o)
      IN  /\ Sound(m) /\ Sound(shown'[p]) /\ shown'[p] = Fixed(c, m)
          /\ shown' \in [Tabs -> Messages]
          /\ session' = [session EXCEPT ![p] = s] /\ session'[p] = s
          /\ pending' \in [Tabs -> OptionType] /\ Sound(pending'[p].rows)
          /\ screen' \in [Tabs -> Screen \cup {NoScreen}]
          /\ \A q \in Tabs \ {p} : /\ shown'[q] = shown[q] /\ screen'[q] = screen[q]
                                   /\ session'[q] = session[q] /\ pending'[q] = pending[q]
  BY SetChatMeans DEF Opens
<1>2. /\ busy' \in [Tabs -> BOOLEAN] /\ working' \subseteq Tool
      /\ strayed' \subseteq strayed \cup {s} /\ contested' \subseteq contested \cup {s}
      /\ UNCHANGED <<saved, kills>>
  BY SetChatNotes DEF Opens
<1>3. /\ table' \in [Sessions -> Row]
      /\ \A q \in Sessions : table'[q].rows = table[q].rows
      /\ \A q \in Sessions : ~table'[q].here => ~table[q].here
      /\ Used \subseteq Used' /\ s \in Used'
      /\ DOMAIN home \subseteq DOMAIN home'
      /\ DOMAIN home' \subseteq Turns /\ home' \in [DOMAIN home' -> Sessions]
      /\ Content(p, s, o).turns \subseteq DOMAIN home'
      /\ pending'[p].rows.turns \subseteq DOMAIN home
  BY OpensMean
<1>4. session' \in [Tabs -> Sessions \cup {None}]
  BY <1>1 DEF Types, TypeOK
<1>5. TypeOK'
  <2>1. strayed' \subseteq Sessions /\ contested' \subseteq Sessions
    BY <1>2 DEF Types, TypeOK
  <2>2. saved' \subseteq Turns /\ kills' \in 0..MaxKills
    BY <1>2 DEF Types, TypeOK
  <2> QED BY <1>1, <1>2, <1>3, <1>4, <2>1, <2>2 DEF TypeOK, OptionType
<1>6. Lists'
  <2>1. shown'[p].turns \subseteq DOMAIN home'
    BY <1>1, <1>3, FixedMeans
  <2>2. \A q \in Tabs : /\ Sound(shown'[q]) /\ shown'[q].turns \subseteq DOMAIN home'
                        /\ Sound(pending'[q].rows) /\ pending'[q].rows.turns \subseteq DOMAIN home'
    BY <1>1, <1>3, <2>1 DEF Types, Lists
  <2>3. \A q \in Sessions : /\ Sound(table'[q].rows) /\ table'[q].rows.turns \subseteq DOMAIN home'
                            /\ ~table'[q].here => table'[q].rows = Empty
    BY <1>3 DEF Types, Lists
  <2> QED BY <2>2, <2>3 DEF Lists
<1>7. Seated'
  BY <1>1, <1>3, NoneAssumption DEF Types, Seated
<1> QED BY <1>5, <1>6, <1>7 DEF Types

LEMMA SendMeans ==
    ASSUME Types, NEW p \in Tabs, NEW t \in Turns, Send(p, t)
    PROVE  /\ screen[p] \in Screen /\ screen[p].on /\ session[p] \in Sessions
           /\ Sound(shown'[p]) /\ shown'[p].turns = shown[p].turns \cup {t}
           /\ shown'[p].tail = "asked" /\ shown' \in [Tabs -> Messages]
           /\ screen' \in [Tabs -> Screen \cup {NoScreen}] /\ screen'[p].on
           /\ \E d \in Screen : /\ d.asked /\ d.fixed = screen[p].fixed
                               /\ d.loaded = screen[p].loaded /\ d.over = screen[p].over
                               /\ screen'[p] = See(d, session[p], shown'[p])
           /\ \A q \in Tabs \ {p} : shown'[q] = shown[q] /\ screen'[q] = screen[q]
           /\ t \notin DOMAIN home /\ DOMAIN home' = DOMAIN home \cup {t}
           /\ home'[t] = session[p] /\ \A u \in DOMAIN home : home'[u] = home[u]
           /\ DOMAIN home' \subseteq Turns /\ home' \in [DOMAIN home' -> Sessions]
           /\ busy' \in [Tabs -> BOOLEAN]
           /\ UNCHANGED <<session, pending, working, table, saved, strayed, contested, kills>>
<1> DEFINE m == Ask(shown[p], t)
<1> DEFINE d == [screen[p] EXCEPT !.asked = TRUE]
<1>1. screen[p].on /\ NextTurn(t) /\ Home(t, session[p])
  BY DEF Send
<1>2. screen[p] \in Screen /\ session[p] \in Sessions
  BY <1>1, ScreenOn
<1>3. Sound(m) /\ m.turns = shown[p].turns \cup {t} /\ m.tail = "asked"
  BY AskMeans DEF Types, Lists
<1>4. /\ d \in Screen /\ d.asked /\ d.fixed = screen[p].fixed
      /\ d.loaded = screen[p].loaded /\ d.over = screen[p].over
  BY <1>2 DEF Screen
<1>5. /\ shown' = [shown EXCEPT ![p] = m]
      /\ screen' = [screen EXCEPT ![p] = See(d, session[p], m)]
      /\ busy' = [busy EXCEPT ![p] = TRUE]
      /\ UNCHANGED <<session, pending, working, table, saved, strayed, contested, kills>>
  BY DEF Send
<1> HIDE DEF d, m
<1>6. See(d, session[p], m) \in Screen /\ m \in Messages
  BY <1>2, <1>3, <1>4, SeeMeans DEF Sound
<1>7. screen \in [Tabs -> Screen \cup {NoScreen}] /\ shown \in [Tabs -> Messages]
      /\ busy \in [Tabs -> BOOLEAN]
  BY DEF Types, TypeOK
<1>8. \A x \in Screen : x.on
  BY DEF Screen
<1>9. /\ shown' \in [Tabs -> Messages] /\ shown'[p] = m
      /\ screen' \in [Tabs -> Screen \cup {NoScreen}] /\ screen'[p] = See(d, session[p], m)
      /\ screen'[p].on /\ busy' \in [Tabs -> BOOLEAN]
      /\ \A q \in Tabs \ {p} : shown'[q] = shown[q] /\ screen'[q] = screen[q]
  BY <1>5, <1>6, <1>7, <1>8
<1>10. /\ t \notin DOMAIN home /\ DOMAIN home' = DOMAIN home \cup {t}
       /\ home'[t] = session[p] /\ \A u \in DOMAIN home : home'[u] = home[u]
       /\ DOMAIN home' \subseteq Turns /\ home' \in [DOMAIN home' -> Sessions]
  BY <1>1, <1>2, HomeMeans
<1>11. /\ Sound(shown'[p]) /\ shown'[p].turns = shown[p].turns \cup {t}
       /\ shown'[p].tail = "asked"
  BY <1>3, <1>9
<1>12. \E x \in Screen : /\ x.asked /\ x.fixed = screen[p].fixed
                         /\ x.loaded = screen[p].loaded /\ x.over = screen[p].over
                         /\ screen'[p] = See(x, session[p], shown'[p])
  BY <1>4, <1>9
<1> QED BY <1>1, <1>2, <1>5, <1>9, <1>10, <1>11, <1>12

(* The save that waits is of what the screen shows, in the tab's session;
   with messages there, the one look at open calls is spent. *)
Timed ==
    \A p \in Tabs : screen[p].on =>
        /\ \/ screen[p].timer = NoTimer
           \/ screen[p].timer = [of |-> session[p], rows |-> shown[p]]
        /\ shown[p].turns # {} => screen[p].fixed

LEMMA SaveMeans ==
    ASSUME Types, Timed, NEW p \in Tabs, Save(p)
    PROVE  LET s == session[p]
           IN  /\ s \in Sessions /\ screen[p].on /\ screen[p] \in Screen
               /\ screen' \in [Tabs -> Screen \cup {NoScreen}]
               /\ screen'[p] \in Screen /\ screen'[p].on /\ screen'[p].timer = NoTimer
               /\ screen'[p].loaded = screen[p].loaded /\ screen'[p].asked = screen[p].asked
               /\ screen'[p].fixed = screen[p].fixed /\ screen'[p].over = screen[p].over
               /\ \A q \in Tabs \ {p} : screen'[q] = screen[q]
               /\ table' \in [Sessions -> Row]
               /\ \/ Conflict(s, shown[p]) /\ UNCHANGED <<table, saved>>
                  \/ /\ ~Conflict(s, shown[p])
                     /\ table'[s].here /\ table'[s].rows = shown[p]
                     /\ \A q \in Sessions \ {s} : table'[q] = table[q]
                     /\ saved' = saved \cup shown[p].turns
               /\ UNCHANGED <<session, shown, busy, pending, working, home, strayed,
                              contested, kills>>
<1> DEFINE s == session[p]
<1>1. screen[p].on /\ screen[p] \in Screen /\ s \in Sessions
  BY ScreenOn DEF Save
<1>2. screen[p].timer.of = s /\ screen[p].timer.rows = shown[p]
  <2>1. screen[p].timer = [of |-> session[p], rows |-> shown[p]]
    BY <1>1 DEF Timed, Save
  <2> QED BY <2>1
<1>3. LET x == [screen[p] EXCEPT !.timer = NoTimer]
      IN  /\ x \in Screen /\ x.on /\ x.timer = NoTimer
          /\ x.loaded = screen[p].loaded /\ x.asked = screen[p].asked
          /\ x.fixed = screen[p].fixed /\ x.over = screen[p].over
  <2>1. NoTimer \in [of : Sessions \cup {None}, rows : Messages]
    BY EmptyIsSound DEF NoTimer, Sound
  <2> QED BY <1>1, <2>1 DEF Screen
<1>4. screen' = [screen EXCEPT ![p] = [screen[p] EXCEPT !.timer = NoTimer]]
  BY DEF Save
<1>5. /\ screen \in [Tabs -> Screen \cup {NoScreen}] /\ table \in [Sessions -> Row]
      /\ shown[p] \in Messages
  BY DEF Types, TypeOK
<1>6. LET x == [table[s] EXCEPT !.here = TRUE, !.rows = shown[p]]
      IN  x \in Row /\ x.here /\ x.rows = shown[p]
  BY <1>1, <1>5 DEF Row
<1>7. \/ Conflict(s, shown[p]) /\ UNCHANGED <<table, saved>>
      \/ /\ ~Conflict(s, shown[p]) /\ saved' = saved \cup shown[p].turns
         /\ table' = [table EXCEPT ![s] = [table[s] EXCEPT !.here = TRUE, !.rows = shown[p]]]
  BY <1>2 DEF Save
<1>8. UNCHANGED <<session, shown, busy, pending, working, home, strayed, contested, kills>>
  BY DEF Save
<1> HIDE DEF s
<1>9. /\ screen' \in [Tabs -> Screen \cup {NoScreen}]
      /\ screen'[p] = [screen[p] EXCEPT !.timer = NoTimer]
      /\ \A q \in Tabs \ {p} : screen'[q] = screen[q]
  BY <1>3, <1>4, <1>5
<1>10. /\ table' \in [Sessions -> Row]
       /\ \/ Conflict(s, shown[p]) /\ UNCHANGED <<table, saved>>
          \/ /\ ~Conflict(s, shown[p])
             /\ table'[s].here /\ table'[s].rows = shown[p]
             /\ \A q \in Sessions \ {s} : table'[q] = table[q]
             /\ saved' = saved \cup shown[p].turns
  BY <1>1, <1>5, <1>6, <1>7
<1> QED BY <1>1, <1>3, <1>8, <1>9, <1>10 DEF s

LEMMA DeleteMeans ==
    ASSUME Types, NEW p \in Tabs, NEW s \in Sessions, Delete(p, s)
    PROVE  /\ table' \in [Sessions -> Row] /\ table'[s].rows = Empty
           /\ \A q \in Sessions \ {s} : table'[q] = table[q]
           /\ contested' = contested \cup {s}
           /\ UNCHANGED <<tab, working, home, saved, strayed, kills>>
<1>1. table \in [Sessions -> Row] /\ table' = [table EXCEPT ![s] = Absent]
  BY DEF Delete, Types, TypeOK
<1>2. Absent \in Row /\ Absent.rows = Empty
  BY EmptyIsSound DEF Absent, Row, Sound
<1> QED BY <1>1, <1>2 DEF Delete

LEMMA RestKeeps ==
    ASSUME Types, Timed,
           \/ \E p \in Tabs : \/ Back(p) \/ Fail(p) \/ Save(p)
                              \/ (\E s \in Sessions : Delete(p, s))
                              \/ (\E t \in Turns : Send(p, t))
           \/ Kill \/ UNCHANGED vars
    PROVE  Types'
<1>1. ASSUME NEW p \in Tabs, NEW t \in Turns, Send(p, t)
      PROVE  Types'
  <2>1. /\ session[p] \in Sessions
        /\ shown' \in [Tabs -> Messages] /\ Sound(shown'[p])
        /\ shown'[p].turns = shown[p].turns \cup {t}
        /\ screen' \in [Tabs -> Screen \cup {NoScreen}]
        /\ \A q \in Tabs \ {p} : shown'[q] = shown[q] /\ screen'[q] = screen[q]
        /\ DOMAIN home' = DOMAIN home \cup {t}
        /\ DOMAIN home' \subseteq Turns /\ home' \in [DOMAIN home' -> Sessions]
        /\ busy' \in [Tabs -> BOOLEAN]
        /\ UNCHANGED <<session, pending, working, table, saved, strayed, contested, kills>>
    BY <1>1, SendMeans
  <2>2. TypeOK'
    BY <2>1 DEF Types, TypeOK
  <2>3. Lists'
    BY <2>1 DEF Types, Lists
  <2>4. Seated'
    BY <2>1, NoneAssumption DEF Types, Seated, Used
  <2> QED BY <2>2, <2>3, <2>4 DEF Types
<1>2. ASSUME NEW p \in Tabs, Save(p)
      PROVE  Types'
  <2>1. /\ screen' \in [Tabs -> Screen \cup {NoScreen}] /\ table' \in [Sessions -> Row]
        /\ screen[p].on /\ \A q \in Tabs \ {p} : screen'[q] = screen[q]
        /\ \A q \in Sessions : \/ table'[q] = table[q]
                               \/ table'[q].here /\ table'[q].rows = shown[p]
        /\ saved' \in {saved, saved \cup shown[p].turns}
        /\ UNCHANGED <<session, shown, busy, pending, working, home, strayed, contested, kills>>
    BY <1>2, SaveMeans
  <2>2. shown[p].turns \subseteq Turns
    BY DEF Types, TypeOK, Messages
  <2>3. TypeOK'
    BY <2>1, <2>2 DEF Types, TypeOK
  <2>4. Lists'
    BY <2>1 DEF Types, Lists
  <2>5. Used \subseteq Used'
    BY <2>1 DEF Used
  <2>6. Seated'
    BY <2>1, <2>5 DEF Types, Seated
  <2> QED BY <2>3, <2>4, <2>6 DEF Types
<1>3. ASSUME NEW p \in Tabs, NEW s \in Sessions, Delete(p, s)
      PROVE  Types'
  <2>1. /\ table' \in [Sessions -> Row] /\ table'[s].rows = Empty
        /\ \A q \in Sessions \ {s} : table'[q] = table[q]
        /\ contested' = contested \cup {s}
        /\ UNCHANGED <<session, shown, busy, pending, screen, working, home, saved, strayed, kills>>
    BY <1>3, DeleteMeans DEF tab
  <2>2. TypeOK'
    BY <2>1 DEF Types, TypeOK
  <2>3. Lists'
    BY <2>1, EmptyIsSound DEF Types, Lists
  <2>4. Seated'
    BY <2>1 DEF Types, Seated, Used
  <2> QED BY <2>2, <2>3, <2>4 DEF Types
<1>4. ASSUME NEW p \in Tabs, Back(p) \/ Fail(p)
      PROVE  Types'
  <2>1. /\ UNCHANGED <<session, shown, pending, working, table, home, saved, strayed, contested, kills>>
        /\ busy' \in {busy, [busy EXCEPT ![p] = FALSE]}
        /\ screen' \in {screen, [screen EXCEPT ![p] = NoScreen]}
    BY <1>4 DEF Back, Fail, history
  <2>2. TypeOK'
    BY <2>1 DEF Types, TypeOK
  <2>3. \A q \in Tabs : screen'[q] = screen[q] \/ ~screen'[q].on
    BY <2>1 DEF Types, TypeOK, NoScreen
  <2>4. Lists' /\ Seated'
    BY <2>1, <2>3 DEF Types, Lists, Seated, Used
  <2> QED BY <2>2, <2>4 DEF Types
<1>5. CASE Kill
  <2>1. /\ UNCHANGED <<table, home, saved, strayed, contested>> /\ working' = {}
        /\ session' = [q \in Tabs |-> None] /\ shown' = [q \in Tabs |-> Empty]
        /\ busy' = [q \in Tabs |-> FALSE] /\ pending' = [q \in Tabs |-> Nothing]
        /\ screen' = [q \in Tabs |-> NoScreen]
        /\ kills' = kills + 1 /\ kills < MaxKills
    BY <1>5 DEF Kill, history
  <2>2. kills' \in 0..MaxKills
    BY <2>1, MobileChatAssumption DEF Types, TypeOK
  <2>3. Empty \in Messages /\ Nothing \in OptionType /\ Nothing.rows = Empty
    BY EmptyIsSound, OptionsMean DEF Sound
  <2>4. TypeOK'
    BY <2>1, <2>2, <2>3 DEF Types, TypeOK, OptionType
  <2>5. Lists'
    BY <2>1, <2>3, EmptyIsSound DEF Types, Lists
  <2>6. Seated'
    BY <2>1 DEF Seated, NoScreen
  <2> QED BY <2>4, <2>5, <2>6 DEF Types
<1>6. CASE UNCHANGED vars
  BY <1>6 DEF vars, tab, history, Types, TypeOK, Lists, Seated, Used
<1> QED BY <1>1, <1>2, <1>3, <1>4, <1>5, <1>6

(* The steps, by what they do to a tab. *)
LEMMA Cases ==
    ASSUME Types, [Next]_vars
    PROVE  \/ \E p \in Tabs, s \in Sessions : \E o, c : Opens(p, s, o, c)
           \/ \E p \in Tabs : Stream(p) \/ OnToolCall(p) \/ Finish(p)
           \/ \E w \in working : Output(w)
           \/ \E p \in Tabs : \/ Back(p) \/ Fail(p) \/ Save(p)
                              \/ (\E s \in Sessions : Delete(p, s))
                              \/ (\E t \in Turns : Send(p, t))
           \/ Kill \/ UNCHANGED vars
<1>1. ASSUME NEW s \in Sessions, OpenBlank(s) \/ \E t \in Turns : OpenNew(s, t)
      PROVE  \E o, c : Opens(Landing, s, o, c)
  BY <1>1, OpenSteps, MobileChatAssumption
<1>2. ASSUME NEW p \in Tabs, NEW s \in Sessions, OpenStored(p, s) \/ NewChat(p, s)
      PROVE  \E o, c : Opens(p, s, o, c)
  BY <1>2, OpenSteps
<1> QED BY <1>1, <1>2, MobileChatAssumption DEF Next

LEMMA TypesKeep ==
    ASSUME Types, Timed, [Next]_vars
    PROVE  Types'
<1>1. ASSUME NEW p \in Tabs, Stream(p) \/ OnToolCall(p) \/ Finish(p)
      PROVE  Types'
  <2>1. PICK m : Answers(p, m)
    BY <1>1, AnswerSteps
  <2>2. busy' \in [Tabs -> BOOLEAN]
    BY <1>1 DEF Stream, OnToolCall, Finish, Types, TypeOK
  <2>3. working' \subseteq Tool
    <3>1. CASE OnToolCall(p)
      <4>1. Last(shown[p]) \in Turns
        <5>1. Sound(shown[p]) /\ shown[p].turns # {}
          BY <3>1 DEF OnToolCall, Types, Lists, Sound
        <5> QED BY <5>1, LastIsTurn
      <4>2. working' = working \cup {[turn |-> Last(shown[p]), tab |-> p, here |-> TRUE]}
        BY <3>1 DEF OnToolCall
      <4>3. [turn |-> Last(shown[p]), tab |-> p, here |-> TRUE] \in Tool
        BY <4>1 DEF Tool
      <4> QED BY <4>2, <4>3 DEF Types, TypeOK
    <3>2. CASE Stream(p) \/ Finish(p)
      BY <3>2 DEF Stream, Finish, Types, TypeOK
    <3> QED BY <1>1, <3>1, <3>2
  <2> QED BY <2>1, <2>2, <2>3, AnswersKeep
<1>2. ASSUME NEW w \in working, Output(w)
      PROVE  Types'
  <2>1. working' \subseteq Tool /\ w.tab \in Tabs
    BY <1>2, OutputSteps DEF Output, Types, TypeOK
  <2>2. busy' \in [Tabs -> BOOLEAN]
    BY <1>2 DEF Output, Types, TypeOK
  <2>3. CASE \E m : Answers(w.tab, m)
    BY <2>1, <2>2, <2>3, AnswersKeep
  <2>4. CASE UNCHANGED <<session, shown, screen, busy, pending, table, history, kills>>
    BY <2>1, <2>4 DEF history, Types, TypeOK, Lists, Seated, Used
  <2> QED BY <1>2, <2>3, <2>4, OutputSteps
<1> QED BY <1>1, <1>2, OpensKeep, RestKeeps, Cases
-----------------------------------------------------------------------------
(* Saves that wait *)

(* A screen that looked at messages m of session s, with a guard against
   "loaded" messages: it waits to save them, unless they are as many. *)
LookedAt(x, loaded, s, m) ==
    /\ x \in Screen /\ x.on
    /\ m.turns # {} => x.fixed
    /\ IF m.turns = {} \/ loaded = Count(m)
       THEN x.timer = NoTimer /\ x.loaded = loaded
       ELSE x.timer = [of |-> s, rows |-> m] /\ x.loaded = Anything

LEMMA LookedMeans ==
    ASSUME NEW c \in Screen, NEW s \in Sessions, NEW m, Sound(m),
           m.tail = "call" => c.fixed
    PROVE  /\ Fixed(c, m) = m /\ LookedAt(See(c, s, m), c.loaded, s, m)
           /\ See(c, s, m).asked = c.asked /\ See(c, s, m).over = c.over
<1>1. Fixed(c, m) = m
  BY FixedMeans
<1>2. \A x \in Screen : x.on
  BY DEF Screen
<1> DEFINE x == See(c, s, m)
<1> HIDE DEF x
<1>3. /\ x \in Screen /\ x.asked = c.asked /\ x.over = c.over
      /\ x.fixed = (c.fixed \/ m.turns # {})
      /\ IF m.turns = {} \/ c.loaded = Count(Fixed(c, m))
         THEN x.timer = NoTimer /\ x.loaded = c.loaded
         ELSE x.timer = [of |-> s, rows |-> Fixed(c, m)] /\ x.loaded = Anything
  BY SeeMeans DEF x
<1>4. LookedAt(x, c.loaded, s, m)
  BY <1>1, <1>2, <1>3 DEF LookedAt
<1> QED BY <1>1, <1>3, <1>4 DEF x

LEMMA AnswersMean ==
    ASSUME Types, Timed, NEW p \in Tabs, NEW m, Answers(p, m)
    PROVE  /\ shown'[p] = m /\ Sound(m) /\ m.turns = shown[p].turns /\ m.turns # {}
           /\ m.tail \in Tails \ {"asked"}
           /\ \A q \in Tabs \ {p} : shown'[q] = shown[q] /\ screen'[q] = screen[q]
           /\ screen'[p].on = screen[p].on
           /\ screen[p].on =>
                /\ session[p] \in Sessions /\ screen[p] \in Screen
                /\ LookedAt(screen'[p], screen[p].loaded, session[p], m)
                /\ screen'[p].asked = screen[p].asked /\ screen'[p].over = screen[p].over
           /\ UNCHANGED <<session, pending, table, home, saved, strayed, contested, kills>>
<1>1. Sound(m) /\ m.turns = shown[p].turns /\ m.turns # {} /\ m.tail \in Tails \ {"asked"}
      /\ Show(p, m) /\ UNCHANGED <<session, pending, table, history, kills>>
  BY DEF Answers
<1>2. /\ shown'[p] = m /\ screen'[p] = See(screen[p], session[p], m)
      /\ \A q \in Tabs \ {p} : shown'[q] = shown[q] /\ screen'[q] = screen[q]
      /\ screen'[p].on = screen[p].on
  BY <1>1, ShowMeans
<1>3. ASSUME screen[p].on
      PROVE  /\ session[p] \in Sessions /\ screen[p] \in Screen
             /\ LookedAt(screen'[p], screen[p].loaded, session[p], m)
             /\ screen'[p].asked = screen[p].asked /\ screen'[p].over = screen[p].over
  <2>1. screen[p] \in Screen /\ session[p] \in Sessions
    BY <1>3, ScreenOn
  <2>2. screen[p].fixed
    BY <1>1, <1>3 DEF Timed
  <2> QED BY <1>1, <1>2, <2>1, <2>2, LookedMeans
<1> QED BY <1>1, <1>2, <1>3 DEF history

LEMMA SendLooks ==
    ASSUME Types, NEW p \in Tabs, NEW t \in Turns, Send(p, t)
    PROVE  /\ session[p] \in Sessions /\ screen[p].on
           /\ Sound(shown'[p]) /\ shown'[p].tail = "asked"
           /\ shown'[p].turns = shown[p].turns \cup {t}
           /\ LookedAt(screen'[p], screen[p].loaded, session[p], shown'[p])
           /\ screen'[p].asked /\ screen'[p].over = screen[p].over
           /\ \A q \in Tabs \ {p} : shown'[q] = shown[q] /\ screen'[q] = screen[q]
           /\ t \notin DOMAIN home /\ DOMAIN home' = DOMAIN home \cup {t}
           /\ home'[t] = session[p] /\ \A u \in DOMAIN home : home'[u] = home[u]
           /\ UNCHANGED <<session, pending, working, table, saved, strayed, contested, kills>>
<1>1. /\ session[p] \in Sessions /\ screen[p].on
      /\ Sound(shown'[p]) /\ shown'[p].turns = shown[p].turns \cup {t} /\ shown'[p].tail = "asked"
  BY SendMeans
<1>2. PICK d \in Screen : /\ d.asked /\ d.fixed = screen[p].fixed
                         /\ d.loaded = screen[p].loaded /\ d.over = screen[p].over
                         /\ screen'[p] = See(d, session[p], shown'[p])
  BY SendMeans
<1>3. shown'[p].tail # "call"
  BY <1>1
<1>4. /\ LookedAt(See(d, session[p], shown'[p]), d.loaded, session[p], shown'[p])
      /\ See(d, session[p], shown'[p]).asked = d.asked
      /\ See(d, session[p], shown'[p]).over = d.over
  BY <1>1, <1>3, LookedMeans
<1>5. /\ LookedAt(screen'[p], screen[p].loaded, session[p], shown'[p])
      /\ screen'[p].asked /\ screen'[p].over = screen[p].over
  BY <1>2, <1>4
<1>6. /\ \A q \in Tabs \ {p} : shown'[q] = shown[q] /\ screen'[q] = screen[q]
      /\ t \notin DOMAIN home /\ DOMAIN home' = DOMAIN home \cup {t}
      /\ home'[t] = session[p] /\ \A u \in DOMAIN home : home'[u] = home[u]
      /\ UNCHANGED <<session, pending, working, table, saved, strayed, contested, kills>>
  BY SendMeans
<1> QED BY <1>1, <1>5, <1>6

LEMMA OpensShows ==
    ASSUME Types, NEW p \in Tabs, NEW s \in Sessions, NEW o, NEW c, Opens(p, s, o, c)
    PROVE  /\ session'[p] = s
           /\ shown'[p].turns # {} => screen'[p].fixed
           /\ \/ screen'[p].timer = NoTimer
              \/ screen'[p].timer = [of |-> s, rows |-> shown'[p]] /\ screen'[p].loaded = Anything
           /\ shown'[p].turns # {} /\ session[p] # s =>
                \/ screen'[p].loaded = Count(shown'[p])
                \/ screen'[p].loaded = Anything
<1> DEFINE m == Content(p, s, o)
<1>1. c \in Screen /\ c.timer = NoTimer
  BY DEF Opens
<1>2. /\ Sound(m) /\ Sound(shown'[p]) /\ shown'[p] = Fixed(c, m)
      /\ session'[p] = s
      /\ pending' = [pending EXCEPT ![p] = IF session[p] # s THEN Nothing ELSE Left(p, o)]
      /\ screen'[p] \in Screen /\ screen'[p].on
      /\ screen'[p].asked = c.asked /\ screen'[p].over = c.over
      /\ screen'[p].fixed = (c.fixed \/ m.turns # {})
      /\ session[p] # s => screen'[p] = See(c, s, m)
      /\ session[p] = s => screen'[p].timer = NoTimer
      /\ \A q \in Tabs \ {p} : /\ shown'[q] = shown[q] /\ screen'[q] = screen[q]
                               /\ session'[q] = session[q] /\ pending'[q] = pending[q]
  BY SetChatMeans DEF Opens
<1> HIDE DEF m
<1>3. Fixed(c, m).turns = m.turns
  BY <1>2, FixedMeans
<1>4. session[p] # s =>
        IF m.turns = {} \/ c.loaded = Count(Fixed(c, m))
        THEN screen'[p].timer = NoTimer /\ screen'[p].loaded = c.loaded
        ELSE screen'[p].timer = [of |-> s, rows |-> Fixed(c, m)] /\ screen'[p].loaded = Anything
  BY <1>1, <1>2, SeeMeans
<1> QED BY <1>2, <1>3, <1>4

LEMMA Elsewhere ==
    ASSUME Types, NEW p \in Tabs, NEW s \in Sessions, NEW o, NEW c, Opens(p, s, o, c)
    PROVE  \A q \in Tabs \ {p} : /\ shown'[q] = shown[q] /\ screen'[q] = screen[q]
                                 /\ session'[q] = session[q] /\ pending'[q] = pending[q]
<1>1. /\ \E v : shown' = [shown EXCEPT ![p] = v]
      /\ \E v : screen' = [screen EXCEPT ![p] = v]
      /\ \E v : session' = [session EXCEPT ![p] = v]
      /\ \E v : pending' = [pending EXCEPT ![p] = v]
  BY DEF Opens, SetChatId
<1> QED BY <1>1 DEF Types, TypeOK

LEMMA TimedKeeps ==
    ASSUME Types, Timed, [Next]_vars
    PROVE  Timed'
<1> DEFINE Right(q) == screen[q].on =>
        /\ \/ screen[q].timer = NoTimer
           \/ screen[q].timer = [of |-> session[q], rows |-> shown[q]]
        /\ shown[q].turns # {} => screen[q].fixed
<1>1. ASSUME NEW p \in Tabs, NEW m, Answers(p, m)
      PROVE  Timed'
  <2>1. Right(p)'
    <3>1. screen'[p].on => screen[p].on
      BY <1>1, AnswersMean
    <3>2. screen[p].on => LookedAt(screen'[p], screen[p].loaded, session[p], m)
      BY <1>1, AnswersMean
    <3>3. shown'[p] = m /\ session' = session
      BY <1>1, AnswersMean
    <3> QED BY <3>1, <3>2, <3>3 DEF LookedAt
  <2>2. \A q \in Tabs \ {p} : Right(q)'
    BY <1>1, AnswersMean DEF Timed
  <2> QED BY <2>1, <2>2 DEF Timed
<1>2. ASSUME NEW p \in Tabs, NEW s \in Sessions, NEW o, NEW c, Opens(p, s, o, c)
      PROVE  Timed'
  <2>1. Right(p)'
    <3>1. session'[p] = s /\ (shown'[p].turns # {} => screen'[p].fixed)
      BY <1>2, OpensShows
    <3>2. \/ screen'[p].timer = NoTimer
          \/ screen'[p].timer = [of |-> s, rows |-> shown'[p]]
      BY <1>2, OpensShows
    <3> QED BY <3>1, <3>2
  <2>2. \A q \in Tabs \ {p} : Right(q)'
    <3>1. \A q \in Tabs \ {p} : /\ shown'[q] = shown[q] /\ screen'[q] = screen[q]
                                 /\ session'[q] = session[q] /\ pending'[q] = pending[q]
      BY <1>2, Elsewhere
    <3> QED BY <3>1 DEF Timed
  <2> QED BY <2>1, <2>2 DEF Timed
<1>3. ASSUME NEW p \in Tabs, NEW t \in Turns, Send(p, t)
      PROVE  Timed'
  <2>1. Right(p)'
    <3>1. LookedAt(screen'[p], screen[p].loaded, session[p], shown'[p]) /\ session' = session
      BY <1>3, SendLooks
    <3> QED BY <3>1 DEF LookedAt
  <2>2. \A q \in Tabs \ {p} : Right(q)'
    <3>1. \A q \in Tabs \ {p} : shown'[q] = shown[q] /\ screen'[q] = screen[q]
      BY <1>3, SendLooks
    <3>2. session' = session
      BY <1>3 DEF Send
    <3> QED BY <3>1, <3>2 DEF Timed
  <2> QED BY <2>1, <2>2 DEF Timed
<1>4. ASSUME NEW p \in Tabs, Save(p)
      PROVE  Timed'
  <2>1. /\ screen'[p].timer = NoTimer /\ screen'[p].fixed = screen[p].fixed /\ screen[p].on
        /\ \A q \in Tabs \ {p} : screen'[q] = screen[q]
        /\ UNCHANGED <<session, shown>>
    BY <1>4, SaveMeans
  <2> QED BY <2>1 DEF Timed
<1>5. ASSUME NEW p \in Tabs, Back(p) \/ Fail(p) \/ \E s \in Sessions : Delete(p, s)
      PROVE  Timed'
  <2>1. UNCHANGED <<session, shown>> /\ screen' \in {screen, [screen EXCEPT ![p] = NoScreen]}
    BY <1>5 DEF Back, Fail, Delete, tab
  <2>2. \A q \in Tabs : screen'[q] = screen[q] \/ ~screen'[q].on
    BY <2>1 DEF Types, TypeOK, NoScreen
  <2> QED BY <2>1, <2>2 DEF Timed
<1>6. CASE Kill
  BY <1>6 DEF Kill, Timed, NoScreen
<1>7. CASE UNCHANGED vars
  BY <1>7 DEF vars, tab, Timed
<1>8. ASSUME NEW w \in working, Output(w)
      PROVE  Timed'
  <2>1. CASE UNCHANGED <<session, shown, screen, busy, pending, table, history, kills>>
    BY <2>1 DEF Timed
  <2> QED BY <1>1, <1>8, <2>1, OutputSteps
<1>9. ASSUME NEW p \in Tabs, Stream(p) \/ OnToolCall(p) \/ Finish(p)
      PROVE  Timed'
  BY <1>1, <1>9, AnswerSteps
<1> QED BY <1>2, <1>3, <1>4, <1>5, <1>6, <1>7, <1>8, <1>9, Cases
-----------------------------------------------------------------------------
(* Whose turns a session stores *)

(* Turn t is stored where it was asked, or that is lost track of. *)
Kept(t) == home[t] \in contested \/ t \in table[home[t]].rows.turns

Shared ==
    \A p, q \in Tabs : p # q /\ session[p] = session[q] => session[p] \in contested \cup {None}

(* Turns of another session, shown or left to be shown, are stored in theirs. *)
Guests ==
    \A p \in Tabs : /\ \A t \in shown[p].turns : home[t] = session[p] \/ Kept(t)
                    /\ \A t \in pending[p].rows.turns : Kept(t)

ShownIsOwn ==
    \A p \in Tabs : session[p] \in Sessions \ strayed =>
        \A t \in shown[p].turns : home[t] = session[p]

Covered ==
    \A p \in Tabs : session[p] \in Sessions \ contested =>
        table[session[p]].rows.turns \subseteq shown[p].turns

Apart ==
    \A s \in Sessions : \A t \in table[s].rows.turns : home[t] = s \/ home[t] \in contested

Owned ==
    /\ Shared /\ Guests /\ ShownIsOwn /\ Covered
    /\ Apart /\ StoredIsOwn /\ SavedTurnsStay /\ saved \subseteq DOMAIN home

(* What a tab shows, and has left, when it changes to session s. *)
LEMMA OpensFills ==
    ASSUME Types, NEW p \in Tabs, NEW s \in Sessions, NEW o, NEW c, Opens(p, s, o, c)
    PROVE  \/ /\ session[p] = s /\ shown'[p].turns = shown[p].turns
              /\ pending'[p].rows.turns = table[s].rows.turns
           \/ /\ session[p] # s /\ pending'[p].rows.turns = {}
              /\ \/ shown'[p].turns = table[s].rows.turns
                 \/ /\ shown'[p].turns = pending[p].rows.turns /\ table[s].rows.turns = {}
                    /\ shown'[p].turns # {} => s \in strayed'
                 \/ /\ \E t \in Turns : shown'[p].turns = {t} /\ home'[t] = s
                    /\ table[s].rows.turns = {}
<1>1. /\ shown'[p].turns = Content(p, s, o).turns
      /\ pending'[p] = IF session[p] # s THEN Nothing ELSE Left(p, o)
  <2>1. shown'[p].turns = Content(p, s, o).turns
    <3> DEFINE m == Content(p, s, o)
    <3>1. Sound(m) /\ shown'[p] = Fixed(c, m)
      BY SetChatMeans DEF Opens
    <3> HIDE DEF m
    <3>2. shown'[p].turns = m.turns
      BY <3>1, FixedMeans
    <3> QED BY <3>2 DEF m
  <2>2. pending'[p] = IF session[p] # s THEN Nothing ELSE Left(p, o)
    BY DEF Opens, SetChatId, Types, TypeOK
  <2> QED BY <2>1, <2>2
<1>2. Nothing.rows.turns = {} /\ Empty.turns = {}
  BY OptionsMean, EmptyIsSound
<1>3. CASE Stored(s, o)
  <2>1. Sound(table[s].rows)
    BY DEF Types, Lists
  <2>2. Left(p, o).rows = table[s].rows
    BY <1>3, <2>1, OptionsMean DEF Stored, Left
  <2> QED BY <1>1, <1>2, <2>2 DEF Content
<1>4. CASE CreateSession(s)
  <2>1. table[s].rows.turns = {}
    BY <1>2, <1>4, Creates
  <2>2. session[p] # s
    BY <1>4, Creates, NoneAssumption DEF Types, Seated
  <2>3. CASE o = Options(Empty, FALSE)
    <3>1. Left(p, o).rows.turns = {}
      BY <1>2, <2>3, EmptyIsSound, OptionsMean DEF Left
    <3> QED BY <1>1, <1>2, <2>1, <2>2, <3>1 DEF Content
  <2>4. CASE o = Nothing
    <3>1. Left(p, o) = pending[p] /\ ~o.given
      BY <2>4, OptionsMean DEF Left
    <3>2. pending[p].rows.turns # {} => s \in strayed'
      BY <1>2, <2>2, <3>1, SetChatNotes DEF Opens
    <3> QED BY <1>1, <1>2, <2>1, <2>2, <3>1, <3>2 DEF Content
  <2>5. ASSUME NEW t \in Turns, Asked(s, o, t)
        PROVE  \E u \in Turns : shown'[p].turns = {u} /\ home'[u] = s
    <3>1. Sound(Ask(Empty, t)) /\ Ask(Empty, t).turns = {t}
      BY EmptyIsSound, AskMeans
    <3>2. o.rows = Ask(Empty, t) /\ o.given
      BY <2>5, <3>1, OptionsMean DEF Asked
    <3>3. home'[t] = s
      BY <2>5, HomeMeans DEF Asked
    <3> QED BY <1>1, <2>2, <3>1, <3>2, <3>3 DEF Content, Left
  <2>6. pending'[p].rows.turns = {}
    BY <1>1, <1>2, <2>2
  <2>7. Stored(s, o) \/ Blank(s, o) \/ \E t \in Turns : Asked(s, o, t)
    BY DEF Opens
  <2> QED BY <1>3, <2>1, <2>2, <2>3, <2>4, <2>5, <2>6, <2>7 DEF Blank
<1> QED BY <1>3, <1>4 DEF Opens, Blank, Asked

LEMMA OpensOwned ==
    ASSUME Types, Owned, NEW p \in Tabs, NEW s \in Sessions, NEW o, NEW c, Opens(p, s, o, c)
    PROVE  Owned'
<1> DEFINE T == shown'[p].turns
<1>1. /\ \A q \in Tabs \ {p} : /\ shown'[q] = shown[q] /\ session'[q] = session[q]
                               /\ pending'[q] = pending[q]
      /\ session'[p] = s
  <2>1. session'[p] = s
    BY SetChatMeans DEF Opens
  <2> QED BY <2>1, Elsewhere
<1>2. /\ \A q \in Sessions : table'[q].rows = table[q].rows
      /\ DOMAIN home \subseteq DOMAIN home' /\ \A u \in DOMAIN home : home'[u] = home[u]
  BY OpensMean
<1>3. /\ strayed \subseteq strayed' /\ contested \subseteq contested' /\ saved' = saved
      /\ \A q \in Tabs \ {p} : session[q] = s => s \in contested'
  BY SetChatNotes DEF Opens
<1>4. \A q \in Tabs : shown[q].turns \subseteq DOMAIN home /\ pending[q].rows.turns \subseteq DOMAIN home
  BY DEF Types, Lists
<1>5. \A q \in Sessions : table[q].rows.turns \subseteq DOMAIN home
  BY DEF Types, Lists
<1>6. \A u \in DOMAIN home : home[u] \in Sessions
  BY DEF Types, TypeOK
<1>7. \A u \in DOMAIN home : Kept(u) => Kept(u)'
  BY <1>2, <1>3, <1>6 DEF Kept
<1>8. \A u \in table[s].rows.turns : home[u] = s \/ home[u] \in contested
  BY DEF Owned, Apart
<1>9. \A u \in table[s].rows.turns : Kept(u) /\ u \in DOMAIN home
  BY <1>5, <1>8 DEF Kept
<1>10. \A u \in T : home'[u] = s \/ Kept(u)'
  <2>1. CASE session[p] = s /\ T = shown[p].turns
    BY <1>2, <1>4, <1>7, <2>1 DEF Owned, Guests
  <2>2. CASE T = table[s].rows.turns
    BY <1>7, <1>9, <2>2
  <2>3. CASE T = pending[p].rows.turns
    BY <1>4, <1>7, <2>3 DEF Owned, Guests
  <2>4. CASE \E t \in Turns : T = {t} /\ home'[t] = s
    BY <2>4
  <2> QED BY <2>1, <2>2, <2>3, <2>4, OpensFills
<1>11. \A u \in pending'[p].rows.turns : Kept(u)'
  <2>1. pending'[p].rows.turns \in {{}, table[s].rows.turns}
    BY OpensFills
  <2> QED BY <1>7, <1>9, <2>1
<1>12. s \notin strayed' => \A u \in T : home'[u] = s
  <2>1. CASE session[p] = s /\ T = shown[p].turns
    BY <1>2, <1>3, <1>4, <2>1 DEF Owned, ShownIsOwn
  <2>2. CASE T = table[s].rows.turns
    BY <1>2, <1>3, <1>5, <2>2 DEF Owned, StoredIsOwn
  <2>3. CASE T # {} => s \in strayed'
    BY <2>3
  <2>4. CASE \E t \in Turns : T = {t} /\ home'[t] = s
    BY <2>4
  <2> QED BY <2>1, <2>2, <2>3, <2>4, OpensFills
<1>13. s \notin contested' => table'[s].rows.turns \subseteq T
  <2>1. CASE session[p] = s /\ T = shown[p].turns
    BY <1>2, <1>3, <2>1 DEF Owned, Covered
  <2>2. CASE T = table[s].rows.turns \/ table[s].rows.turns = {}
    BY <1>2, <2>2
  <2> QED BY <2>1, <2>2, OpensFills
<1> HIDE DEF T
<1>14. Shared'
  BY <1>1, <1>3 DEF Owned, Shared
<1>15. Guests'
  <2>1. \A q \in Tabs \ {p} : /\ \A u \in shown'[q].turns : home'[u] = session'[q] \/ Kept(u)'
                              /\ \A u \in pending'[q].rows.turns : Kept(u)'
    BY <1>1, <1>2, <1>4, <1>7 DEF Owned, Guests
  <2>2. /\ \A u \in shown'[p].turns : home'[u] = session'[p] \/ Kept(u)'
        /\ \A u \in pending'[p].rows.turns : Kept(u)'
    BY <1>1, <1>10, <1>11 DEF T
  <2> QED BY <2>1, <2>2 DEF Guests
<1>16. ShownIsOwn'
  <2>1. \A q \in Tabs \ {p} : session'[q] \in Sessions \ strayed' =>
            \A u \in shown'[q].turns : home'[u] = session'[q]
    BY <1>1, <1>2, <1>3, <1>4 DEF Owned, ShownIsOwn
  <2>2. session'[p] \notin strayed' => \A u \in shown'[p].turns : home'[u] = session'[p]
    BY <1>1, <1>12 DEF T
  <2> QED BY <2>1, <2>2 DEF ShownIsOwn
<1>17. Covered'
  <2>1. \A q \in Tabs \ {p} : session'[q] \in Sessions \ contested' =>
            table'[session'[q]].rows.turns \subseteq shown'[q].turns
    BY <1>1, <1>2, <1>3 DEF Owned, Covered
  <2> QED BY <1>1, <1>13, <2>1 DEF Covered, T
<1>18. Apart' /\ StoredIsOwn'
  BY <1>2, <1>3, <1>5 DEF Owned, Apart, StoredIsOwn
<1>19. SavedTurnsStay' /\ saved' \subseteq DOMAIN home'
  <2>1. \A u \in saved : u \in DOMAIN home /\ Kept(u)
    BY DEF Owned, SavedTurnsStay, Kept
  <2>2. \A u \in saved' : u \in DOMAIN home' /\ Kept(u)'
    BY <1>2, <1>3, <1>7, <2>1
  <2> QED BY <2>2 DEF SavedTurnsStay, Kept
<1> QED BY <1>14, <1>15, <1>16, <1>17, <1>18, <1>19 DEF Owned

(* Steps that move no turns. *)
LEMMA StillOwned ==
    ASSUME Owned, \A q \in Tabs : shown'[q].turns = shown[q].turns,
           UNCHANGED <<session, pending, table, home, saved, strayed, contested>>
    PROVE  Owned'
<1>1. Shared' /\ Covered' /\ Apart' /\ StoredIsOwn' /\ SavedTurnsStay' /\ saved' \subseteq DOMAIN home'
  BY DEF Owned, Shared, Covered, Apart, StoredIsOwn, SavedTurnsStay
<1>2. Guests' /\ ShownIsOwn'
  BY DEF Owned, Guests, ShownIsOwn, Kept
<1> QED BY <1>1, <1>2 DEF Owned

LEMMA SendOwned ==
    ASSUME Types, Owned, NEW p \in Tabs, NEW t \in Turns, Send(p, t)
    PROVE  Owned'
<1>1. /\ session[p] \in Sessions
      /\ shown'[p].turns = shown[p].turns \cup {t}
      /\ \A q \in Tabs \ {p} : shown'[q] = shown[q]
      /\ t \notin DOMAIN home /\ DOMAIN home' = DOMAIN home \cup {t}
      /\ home'[t] = session[p] /\ \A u \in DOMAIN home : home'[u] = home[u]
      /\ UNCHANGED <<session, pending, table, saved, strayed, contested>>
  BY SendLooks
<1>2. /\ \A q \in Tabs : shown[q].turns \subseteq DOMAIN home
                         /\ pending[q].rows.turns \subseteq DOMAIN home
      /\ \A q \in Sessions : table[q].rows.turns \subseteq DOMAIN home
  BY DEF Types, Lists
<1>3. \A u \in DOMAIN home : Kept(u) <=> Kept(u)'
  BY <1>1 DEF Kept
<1>4. Shared' /\ Covered'
  BY <1>1 DEF Owned, Shared, Covered
<1>5. Apart' /\ StoredIsOwn'
  BY <1>1, <1>2 DEF Owned, Apart, StoredIsOwn
<1>6. SavedTurnsStay' /\ saved' \subseteq DOMAIN home'
  BY <1>1 DEF Owned, SavedTurnsStay
<1>7. ShownIsOwn'
  BY <1>1, <1>2 DEF Owned, ShownIsOwn
<1>8. Guests'
  BY <1>1, <1>2, <1>3 DEF Owned, Guests
<1> QED BY <1>4, <1>5, <1>6, <1>7, <1>8 DEF Owned

LEMMA SaveOwned ==
    ASSUME Types, Timed, Owned, NEW p \in Tabs, Save(p)
    PROVE  Owned'
<1> DEFINE s == session[p]
<1>1. s \in Sessions /\ UNCHANGED <<session, shown, pending, home, strayed, contested>>
  BY SaveMeans
<1>2. \/ UNCHANGED <<table, saved>>
      \/ /\ ~Conflict(s, shown[p])
         /\ table'[s].rows = shown[p]
         /\ \A q \in Sessions \ {s} : table'[q] = table[q]
         /\ saved' = saved \cup shown[p].turns
  BY SaveMeans
<1>3. CASE UNCHANGED <<table, saved>>
  BY <1>1, <1>3, StillOwned
<1>4. CASE /\ ~Conflict(s, shown[p])
           /\ table'[s].rows = shown[p]
           /\ \A q \in Sessions \ {s} : table'[q] = table[q]
           /\ saved' = saved \cup shown[p].turns
  <2>1. \A u \in DOMAIN home : home[u] \in Sessions
    BY DEF Types, TypeOK
  <2>2. /\ shown[p].turns \subseteq DOMAIN home
        /\ \A q \in Tabs : pending[q].rows.turns \subseteq DOMAIN home
                           /\ shown[q].turns \subseteq DOMAIN home
    BY DEF Types, Lists
  <2>3. s \notin contested => table[s].rows.turns \subseteq shown[p].turns
    BY <1>1 DEF Owned, Covered
  <2>4. \A u \in DOMAIN home : Kept(u) => Kept(u)'
    BY <1>1, <1>4, <2>1, <2>3 DEF Kept
  <2>5. \A u \in shown[p].turns : home[u] = s \/ home[u] \in contested
    <3>1. ASSUME NEW u \in shown[p].turns, home[u] # s, home[u] \notin contested
          PROVE  FALSE
      <4>1. u \in table[home[u]].rows.turns
        BY <3>1 DEF Owned, Guests, Kept
      <4>2. home[u] \in Sessions \ {s}
        BY <2>1, <2>2, <3>1
      <4> QED BY <1>4, <3>1, <4>1, <4>2 DEF Conflict
    <3> QED BY <3>1
  <2>6. \A u \in shown[p].turns : Kept(u)'
    BY <1>1, <1>4, <2>5 DEF Kept
  <2>7. Shared' /\ ShownIsOwn'
    BY <1>1 DEF Owned, Shared, ShownIsOwn
  <2>8. Guests'
    BY <1>1, <2>2, <2>4 DEF Owned, Guests
  <2>9. Covered'
    <3>1. ASSUME NEW q \in Tabs, session[q] \in Sessions \ contested
          PROVE  table'[session[q]].rows.turns \subseteq shown[q].turns
      <4>1. CASE q = p
        BY <1>4, <4>1
      <4>2. CASE q # p
        <5>1. session[q] # s
          BY <3>1, <4>2, NoneAssumption DEF Owned, Shared
        <5> QED BY <1>4, <3>1, <5>1 DEF Owned, Covered
      <4> QED BY <4>1, <4>2
    <3> QED BY <1>1, <3>1 DEF Covered
  <2>10. Apart'
    BY <1>1, <1>4, <2>5 DEF Owned, Apart
  <2>11. StoredIsOwn'
    <3>1. s \notin strayed => \A u \in shown[p].turns : home[u] = s
      BY <1>1 DEF Owned, ShownIsOwn
    <3> QED BY <1>1, <1>4, <3>1 DEF Owned, StoredIsOwn
  <2>12. SavedTurnsStay' /\ saved' \subseteq DOMAIN home'
    <3>1. \A u \in saved : u \in DOMAIN home /\ Kept(u)
      BY DEF Owned, SavedTurnsStay, Kept
    <3>2. \A u \in saved' : u \in DOMAIN home /\ Kept(u)'
      BY <1>4, <2>2, <2>4, <2>6, <3>1
    <3> QED BY <1>1, <3>2 DEF SavedTurnsStay, Kept
  <2> QED BY <2>7, <2>8, <2>9, <2>10, <2>11, <2>12 DEF Owned
<1> QED BY <1>2, <1>3, <1>4

LEMMA DeleteOwned ==
    ASSUME Types, Owned, NEW p \in Tabs, NEW s \in Sessions, Delete(p, s)
    PROVE  Owned'
<1>1. /\ table'[s].rows = Empty
      /\ \A q \in Sessions \ {s} : table'[q] = table[q]
      /\ contested' = contested \cup {s}
      /\ UNCHANGED <<session, shown, pending, home, saved, strayed>>
  BY DeleteMeans DEF tab
<1>2. Empty.turns = {}
  BY EmptyIsSound
<1>3. /\ \A u \in DOMAIN home : home[u] \in Sessions
      /\ \A q \in Tabs : pending[q].rows.turns \subseteq DOMAIN home
                         /\ shown[q].turns \subseteq DOMAIN home
  BY DEF Types, TypeOK, Lists
<1>4. \A u \in DOMAIN home : Kept(u) => Kept(u)'
  BY <1>1, <1>3 DEF Kept
<1>5. Shared' /\ ShownIsOwn'
  BY <1>1 DEF Owned, Shared, ShownIsOwn
<1>6. Guests'
  BY <1>1, <1>3, <1>4 DEF Owned, Guests
<1>7. Covered' /\ Apart' /\ StoredIsOwn'
  BY <1>1, <1>2 DEF Owned, Covered, Apart, StoredIsOwn
<1>8. SavedTurnsStay' /\ saved' \subseteq DOMAIN home'
  <2>1. \A u \in saved : u \in DOMAIN home /\ Kept(u)
    BY DEF Owned, SavedTurnsStay, Kept
  <2> QED BY <1>1, <1>4, <2>1 DEF SavedTurnsStay, Kept
<1> QED BY <1>5, <1>6, <1>7, <1>8 DEF Owned

LEMMA KillOwned ==
    ASSUME Types, Owned, Kill
    PROVE  Owned'
<1>1. /\ UNCHANGED <<table, home, saved, strayed, contested>>
      /\ session' = [q \in Tabs |-> None] /\ shown' = [q \in Tabs |-> Empty]
      /\ pending' = [q \in Tabs |-> Nothing]
  BY DEF Kill, history
<1>2. Empty.turns = {} /\ Nothing.rows.turns = {}
  BY EmptyIsSound, OptionsMean
<1>3. Shared' /\ Guests' /\ ShownIsOwn' /\ Covered'
  BY <1>1, <1>2, NoneAssumption DEF Shared, Guests, ShownIsOwn, Covered
<1>4. Apart' /\ StoredIsOwn' /\ SavedTurnsStay' /\ saved' \subseteq DOMAIN home'
  BY <1>1 DEF Owned, Apart, StoredIsOwn, SavedTurnsStay
<1> QED BY <1>3, <1>4 DEF Owned

LEMMA OwnedKeeps ==
    ASSUME Types, Timed, Owned, [Next]_vars
    PROVE  Owned'
<1>1. ASSUME NEW p \in Tabs, NEW m, Answers(p, m)
      PROVE  Owned'
  <2>1. /\ shown'[p].turns = shown[p].turns
        /\ \A q \in Tabs \ {p} : shown'[q] = shown[q]
        /\ UNCHANGED <<session, pending, table, home, saved, strayed, contested>>
    BY <1>1, AnswersMean
  <2> QED BY <2>1, StillOwned
<1>2. ASSUME NEW p \in Tabs, Back(p) \/ Fail(p)
      PROVE  Owned'
  BY <1>2, StillOwned DEF Back, Fail, history
<1>3. ASSUME NEW w \in working, Output(w)
      PROVE  Owned'
  <2>1. CASE UNCHANGED <<session, shown, screen, busy, pending, table, history, kills>>
    BY <2>1, StillOwned DEF history
  <2> QED BY <1>1, <1>3, <2>1, OutputSteps
<1>4. ASSUME NEW p \in Tabs, Stream(p) \/ OnToolCall(p) \/ Finish(p)
      PROVE  Owned'
  BY <1>1, <1>4, AnswerSteps
<1>5. CASE UNCHANGED vars
  BY <1>5, StillOwned DEF vars, tab, history
<1> QED BY <1>2, <1>3, <1>4, <1>5, OpensOwned, SendOwned, SaveOwned, DeleteOwned, KillOwned, Cases
-----------------------------------------------------------------------------
(* What shows is stored *)

(* On the screen a turn was asked on, the guard of loaded messages can only
   hold back the save of a question without an answer. *)
Guarded ==
    \A p \in Tabs : screen[p].on /\ screen[p].asked =>
        \/ screen[p].loaded = Anything
        \/ shown[p].tail = "asked" /\ screen[p].loaded = Count(shown[p])

LEMMA AskedShows ==
    ASSUME Types, NEW p \in Tabs, NEW s \in Sessions, NEW o, NEW c, Opens(p, s, o, c),
           NEW t \in Turns, Asked(s, o, t)
    PROVE  session[p] # s /\ shown'[p].tail = "asked" /\ shown'[p].turns # {}
<1>1. session[p] # s
  BY Creates, NoneAssumption DEF Asked, Types, Seated
<1>2. Sound(Ask(Empty, t)) /\ Ask(Empty, t).turns = {t} /\ Ask(Empty, t).tail = "asked"
  BY EmptyIsSound, AskMeans
<1>3. Content(p, s, o) = Ask(Empty, t)
  <2>1. o.rows = Ask(Empty, t) /\ o.given
    BY <1>2, OptionsMean DEF Asked
  <2> QED BY <1>1, <2>1 DEF Content, Left
<1>4. shown'[p] = Fixed(c, Ask(Empty, t))
  <2>1. shown'[p] = Fixed(c, Content(p, s, o))
    BY SetChatMeans DEF Opens
  <2> QED BY <1>3, <2>1
<1>5. Fixed(c, Ask(Empty, t)) = Ask(Empty, t)
  BY <1>2, FixedMeans
<1> QED BY <1>1, <1>2, <1>4, <1>5

(* With an answer to a turn asked on this screen, a save is ahead. *)
LEMMA AnswersWait ==
    ASSUME Types, Timed, Guarded, NEW p \in Tabs, NEW m, Answers(p, m),
           screen[p].on, screen[p].asked
    PROVE  screen'[p].timer # NoTimer /\ screen'[p].loaded = Anything
<1>1. /\ Sound(m) /\ m.turns = shown[p].turns /\ m.turns # {} /\ m.tail # "asked"
      /\ session[p] \in Sessions
      /\ LookedAt(screen'[p], screen[p].loaded, session[p], m)
  BY AnswersMean
<1>2. screen[p].loaded # Count(m)
  <2>1. CASE screen[p].loaded = Anything
    BY <1>1, <2>1, CountIsNat DEF Anything
  <2>2. CASE shown[p].tail = "asked" /\ screen[p].loaded = Count(shown[p])
    <3>1. Cardinality(m.turns) \in Nat
      BY <1>1, CountIsNat
    <3>2. Count(m) = 2 * Cardinality(m.turns) /\ Count(shown[p]) = 2 * Cardinality(m.turns) - 1
      BY <1>1, <2>2, <3>1 DEF Count
    <3> QED BY <2>2, <3>1, <3>2
  <2> QED BY <2>1, <2>2 DEF Guarded
<1>3. screen'[p].timer = [of |-> session[p], rows |-> m] /\ screen'[p].loaded = Anything
  BY <1>1, <1>2 DEF LookedAt
<1>4. [of |-> session[p], rows |-> m] # NoTimer
  BY <1>1, NoneAssumption DEF NoTimer
<1> QED BY <1>3, <1>4

LEMMA SaveStores ==
    ASSUME Types, Timed, Owned, ShownIsStored, NEW p \in Tabs, Save(p)
    PROVE  ShownIsStored'
<1> DEFINE s == session[p]
<1>1. /\ s \in Sessions /\ screen[p].on
      /\ \A q \in Tabs \ {p} : screen'[q] = screen[q]
      /\ UNCHANGED <<session, shown, home, strayed, contested>>
      /\ \/ Conflict(s, shown[p]) /\ table' = table
         \/ table'[s].rows = shown[p] /\ \A q \in Sessions \ {s} : table'[q] = table[q]
  BY SaveMeans
<1>2. ASSUME s \notin strayed \cup contested, Conflict(s, shown[p])
      PROVE  FALSE
  <2>1. PICK q \in Sessions \ {s} : \E t \in shown[p].turns : t \in table[q].rows.turns
    BY <1>2 DEF Conflict
  <2>2. PICK t \in shown[p].turns : t \in table[q].rows.turns
    BY <2>1
  <2>3. home[t] = s
    BY <1>1, <1>2, <2>2 DEF Owned, ShownIsOwn
  <2>4. home[t] = q \/ home[t] \in contested
    BY <2>1, <2>2 DEF Owned, Apart
  <2> QED BY <1>2, <2>1, <2>3, <2>4
<1>3. s \notin strayed \cup contested => table'[s].rows = shown[p]
  BY <1>1, <1>2
<1>4. ASSUME NEW q \in Tabs \ {p}, screen[q].on, session[q] \notin contested
      PROVE  table'[session[q]] = table[session[q]]
  <2>1. session[q] \in Sessions
    BY <1>4, ScreenOn
  <2>2. session[q] # s
    BY <1>4, <2>1, NoneAssumption DEF Owned, Shared
  <2> QED BY <1>1, <2>1, <2>2
<1> QED BY <1>1, <1>3, <1>4 DEF ShownIsStored

LEMMA StoredKeeps ==
    ASSUME Types, Timed, Owned, Guarded, ShownIsStored, [Next]_vars
    PROVE  Guarded' /\ ShownIsStored'
<1>1. ASSUME NEW p \in Tabs, NEW m, Answers(p, m)
      PROVE  Guarded' /\ ShownIsStored'
  <2>1. /\ \A q \in Tabs \ {p} : shown'[q] = shown[q] /\ screen'[q] = screen[q]
        /\ screen'[p].on = screen[p].on
        /\ screen[p].on => screen'[p].asked = screen[p].asked
        /\ UNCHANGED <<session, table, strayed, contested>>
    BY <1>1, AnswersMean
  <2>2. screen[p].on /\ screen[p].asked =>
            screen'[p].timer # NoTimer /\ screen'[p].loaded = Anything
    BY <1>1, AnswersWait
  <2> QED BY <2>1, <2>2 DEF Guarded, ShownIsStored
<1>2. ASSUME NEW p \in Tabs, NEW s \in Sessions, NEW o, NEW c, Opens(p, s, o, c)
      PROVE  Guarded' /\ ShownIsStored'
  <2>1. \A q \in Tabs \ {p} : /\ shown'[q] = shown[q] /\ screen'[q] = screen[q]
                              /\ session'[q] = session[q]
    BY <1>2, Elsewhere
  <2>2. /\ \A q \in Sessions : table'[q].rows = table[q].rows
        /\ strayed \subseteq strayed' /\ contested \subseteq contested'
    BY <1>2, OpensMean, SetChatNotes DEF Opens
  <2>3. screen'[p].asked = c.asked
    BY <1>2, SetChatMeans DEF Opens
  <2>4. c.asked => /\ shown'[p].tail = "asked"
                   /\ screen'[p].loaded \in {Anything, Count(shown'[p])}
    <3>1. ASSUME NEW t \in Turns, Asked(s, o, t)
          PROVE  /\ shown'[p].tail = "asked"
                 /\ screen'[p].loaded \in {Anything, Count(shown'[p])}
      <4>1. session[p] # s /\ shown'[p].tail = "asked" /\ shown'[p].turns # {}
        BY <1>2, <3>1, AskedShows
      <4>2. screen'[p].loaded = Count(shown'[p]) \/ screen'[p].loaded = Anything
        BY <1>2, <4>1, OpensShows
      <4> QED BY <4>1, <4>2
    <3> QED BY <1>2, <3>1 DEF Opens
  <2>5. Guarded'
    BY <2>1, <2>3, <2>4 DEF Guarded
  <2>6. \A q \in Tabs : screen[q].on => session[q] \in Sessions
    BY ScreenOn
  <2> QED BY <2>1, <2>2, <2>3, <2>4, <2>5, <2>6 DEF ShownIsStored
<1>3. ASSUME NEW p \in Tabs, NEW t \in Turns, Send(p, t)
      PROVE  Guarded' /\ ShownIsStored'
  <2>1. /\ LookedAt(screen'[p], screen[p].loaded, session[p], shown'[p])
        /\ shown'[p].tail = "asked" /\ shown'[p].turns = shown[p].turns \cup {t}
        /\ \A q \in Tabs \ {p} : shown'[q] = shown[q] /\ screen'[q] = screen[q]
        /\ UNCHANGED <<session, table, strayed, contested>>
    BY <1>3, SendLooks
  <2>2. screen'[p].loaded \in {Anything, Count(shown'[p])}
    BY <2>1 DEF LookedAt
  <2> QED BY <2>1, <2>2 DEF Guarded, ShownIsStored
<1>4. ASSUME NEW p \in Tabs, Save(p)
      PROVE  Guarded' /\ ShownIsStored'
  <2>1. /\ screen[p].on /\ screen'[p].loaded = screen[p].loaded
        /\ screen'[p].asked = screen[p].asked
        /\ \A q \in Tabs \ {p} : screen'[q] = screen[q]
        /\ UNCHANGED shown
    BY <1>4, SaveMeans
  <2>2. Guarded'
    BY <2>1 DEF Guarded
  <2> QED BY <1>4, <2>2, SaveStores
<1>5. ASSUME NEW p \in Tabs, NEW s \in Sessions, Delete(p, s)
      PROVE  Guarded' /\ ShownIsStored'
  <2>1. /\ \A q \in Sessions \ {s} : table'[q] = table[q]
        /\ contested' = contested \cup {s}
        /\ UNCHANGED <<session, shown, screen, strayed>>
    BY <1>5, DeleteMeans DEF tab
  <2>2. \A q \in Tabs : screen[q].on => session[q] \in Sessions
    BY ScreenOn
  <2> QED BY <2>1, <2>2 DEF Guarded, ShownIsStored
<1>6. ASSUME NEW p \in Tabs, Back(p) \/ Fail(p)
      PROVE  Guarded' /\ ShownIsStored'
  <2>1. /\ UNCHANGED <<session, shown, table, strayed, contested>>
        /\ screen' \in {screen, [screen EXCEPT ![p] = NoScreen]}
    BY <1>6 DEF Back, Fail, history
  <2>2. \A q \in Tabs : screen'[q] = screen[q] \/ ~screen'[q].on
    BY <2>1 DEF Types, TypeOK, NoScreen
  <2> QED BY <2>1, <2>2 DEF Guarded, ShownIsStored
<1>7. CASE Kill
  BY <1>7 DEF Kill, Guarded, ShownIsStored, NoScreen
<1>8. CASE UNCHANGED vars
  BY <1>8 DEF vars, tab, history, Guarded, ShownIsStored
<1>9. ASSUME NEW w \in working, Output(w)
      PROVE  Guarded' /\ ShownIsStored'
  <2>1. CASE UNCHANGED <<session, shown, screen, busy, pending, table, history, kills>>
    BY <2>1 DEF history, Guarded, ShownIsStored
  <2> QED BY <1>1, <1>9, <2>1, OutputSteps
<1>10. ASSUME NEW p \in Tabs, Stream(p) \/ OnToolCall(p) \/ Finish(p)
       PROVE  Guarded' /\ ShownIsStored'
  BY <1>1, <1>10, AnswerSteps
<1> QED BY <1>2, <1>3, <1>4, <1>5, <1>6, <1>7, <1>8, <1>9, <1>10, Cases
-----------------------------------------------------------------------------
(* The tool calls that show *)

Working(p) == [turn |-> Last(shown[p]), tab |-> p, here |-> TRUE] \in working

LEMMA CallsKeep ==
    ASSUME Types, Timed, OpenCallsLive, [Next]_vars
    PROVE  OpenCallsLive'
<1> DEFINE Live(q) == screen[q].on /\ shown[q].tail = "call" => Working(q) \/ screen[q].over
<1>1. ASSUME NEW p \in Tabs, Stream(p) \/ OnToolCall(p) \/ Finish(p)
      PROVE  OpenCallsLive'
  <2>1. PICK m : Answers(p, m) /\ (m.tail = "call" => OnToolCall(p))
    BY <1>1, AnswerSteps
  <2>2. /\ shown'[p] = m /\ m.turns = shown[p].turns
        /\ \A q \in Tabs \ {p} : shown'[q] = shown[q] /\ screen'[q] = screen[q]
    BY <2>1, AnswersMean
  <2>3. working \subseteq working'
    BY <1>1 DEF Stream, OnToolCall, Finish
  <2>4. m.tail = "call" => Working(p)'
    <3>1. Last(m) = Last(shown[p])
      BY <2>2 DEF Last
    <3>2. OnToolCall(p) => [turn |-> Last(shown[p]), tab |-> p, here |-> TRUE] \in working'
      BY DEF OnToolCall
    <3> QED BY <2>1, <2>2, <3>1, <3>2 DEF Working
  <2>5. \A q \in Tabs \ {p} : Live(q)'
    BY <2>2, <2>3 DEF OpenCallsLive, Working
  <2> QED BY <2>2, <2>4, <2>5 DEF OpenCallsLive, Working
<1>2. ASSUME NEW w \in working, Output(w)
      PROVE  OpenCallsLive'
  <2>1. working' = working \ {w} /\ w.tab \in Tabs
    BY <1>2, OutputSteps DEF Output
  <2>2. ASSUME NEW m, Answers(w.tab, m), m.tail = "partial"
        PROVE  OpenCallsLive'
    <3>1. /\ shown'[w.tab] = m
          /\ \A q \in Tabs \ {w.tab} : shown'[q] = shown[q] /\ screen'[q] = screen[q]
      BY <2>1, <2>2, AnswersMean
    <3>2. ASSUME NEW q \in Tabs \ {w.tab}, Working(q)
          PROVE  Working(q)'
      <4>1. [turn |-> Last(shown[q]), tab |-> q, here |-> TRUE] # w
        BY <3>2
      <4> QED BY <2>1, <3>1, <3>2, <4>1 DEF Working
    <3>3. \A q \in Tabs \ {w.tab} : Live(q)'
      <4>1. \A q \in Tabs \ {w.tab} : Live(q)
        BY DEF OpenCallsLive, Working
      <4> HIDE DEF Working
      <4> QED BY <3>1, <3>2, <4>1
    <3>4. ~(shown'[w.tab].tail = "call")
      BY <2>2, <3>1
    <3> QED BY <3>3, <3>4 DEF OpenCallsLive, Working
  <2>3. ASSUME ~Waits(w.tab, w.turn) \/ ~w.here, UNCHANGED <<shown, screen>>
        PROVE  OpenCallsLive'
    <3>1. ASSUME NEW q \in Tabs, shown[q].tail = "call", Working(q)
          PROVE  Working(q)'
      <4>1. [turn |-> Last(shown[q]), tab |-> q, here |-> TRUE] # w
        BY <2>3, <3>1 DEF Waits
      <4> QED BY <2>1, <2>3, <3>1, <4>1 DEF Working
    <3>2. \A q \in Tabs : Live(q)
      BY DEF OpenCallsLive, Working
    <3>3. \A q \in Tabs : Live(q)'
      BY <2>3, <3>1, <3>2
    <3> QED BY <3>3 DEF OpenCallsLive, Working
  <2> QED BY <1>2, <2>2, <2>3, OutputSteps
<1>3. ASSUME NEW p \in Tabs, NEW s \in Sessions, NEW o, NEW c, Opens(p, s, o, c)
      PROVE  OpenCallsLive'
  <2>1. \A q \in Tabs \ {p} : shown'[q] = shown[q] /\ screen'[q] = screen[q]
    BY <1>3, Elsewhere
  <2>2. \A w \in working : w.tab # p => w \in working'
    BY <1>3, SetChatNotes DEF Opens
  <2>3. \A q \in Tabs \ {p} : Live(q)'
    <3>1. \A q \in Tabs \ {p} : Working(q) => Working(q)'
      BY <2>1, <2>2 DEF Working
    <3>2. \A q \in Tabs : Live(q)
      BY DEF OpenCallsLive, Working
    <3> QED BY <2>1, <3>1, <3>2
  <2>4. shown'[p].tail = "call" => screen'[p].over
    <3> DEFINE m == Content(p, s, o)
    <3>1. Sound(m) /\ shown'[p] = Fixed(c, m) /\ screen'[p].over = c.over /\ c.fixed = c.over
      BY <1>3, SetChatMeans DEF Opens
    <3> HIDE DEF m
    <3>2. ~c.fixed => Fixed(c, m).tail # "call"
      BY <3>1, FixedMeans
    <3> QED BY <3>1, <3>2
  <2> QED BY <2>3, <2>4 DEF OpenCallsLive, Working
<1>4. ASSUME NEW p \in Tabs, NEW t \in Turns, Send(p, t)
      PROVE  OpenCallsLive'
  <2>1. /\ shown'[p].tail = "asked" /\ working' = working
        /\ \A q \in Tabs \ {p} : shown'[q] = shown[q] /\ screen'[q] = screen[q]
    BY <1>4, SendLooks
  <2> QED BY <2>1 DEF OpenCallsLive
<1>5. ASSUME NEW p \in Tabs, Save(p)
      PROVE  OpenCallsLive'
  <2>1. /\ screen[p].on /\ screen'[p].over = screen[p].over
        /\ \A q \in Tabs \ {p} : screen'[q] = screen[q]
        /\ UNCHANGED <<shown, working>>
    BY <1>5, SaveMeans
  <2> QED BY <2>1 DEF OpenCallsLive
<1>6. ASSUME NEW p \in Tabs, Back(p) \/ Fail(p) \/ \E s \in Sessions : Delete(p, s)
      PROVE  OpenCallsLive'
  <2>1. UNCHANGED <<shown, working>> /\ screen' \in {screen, [screen EXCEPT ![p] = NoScreen]}
    BY <1>6 DEF Back, Fail, Delete, tab
  <2>2. \A q \in Tabs : screen'[q] = screen[q] \/ ~screen'[q].on
    BY <2>1 DEF Types, TypeOK, NoScreen
  <2> QED BY <2>1, <2>2 DEF OpenCallsLive
<1>7. CASE Kill
  BY <1>7 DEF Kill, OpenCallsLive, NoScreen
<1>8. CASE UNCHANGED vars
  BY <1>8 DEF vars, tab, OpenCallsLive
<1> QED BY <1>1, <1>2, <1>3, <1>4, <1>5, <1>6, <1>7, <1>8, Cases
-----------------------------------------------------------------------------
(* The theorems *)

MInv == Types /\ Timed /\ Owned /\ Guarded /\ ShownIsStored /\ OpenCallsLive

LEMMA Starts == Init => MInv
<1> SUFFICES ASSUME Init
             PROVE  MInv
  OBVIOUS
<1>1. Nothing \in OptionType /\ Nothing.rows = Empty /\ Sound(Empty) /\ Empty.turns = {}
  BY OptionsMean, EmptyIsSound
<1>2. Absent \in Row /\ Absent.rows = Empty /\ ~Absent.here
  BY <1>1 DEF Absent, Row, Sound
<1>3. TypeOK
  BY <1>1, <1>2, MobileChatAssumption DEF Init, TypeOK, OptionType, Sound
<1>4. Lists /\ Seated
  BY <1>1, <1>2 DEF Init, Lists, Seated, NoScreen
<1>5. Timed /\ Guarded /\ ShownIsStored /\ OpenCallsLive
  BY DEF Init, Timed, Guarded, ShownIsStored, OpenCallsLive, NoScreen
<1>6. Owned
  BY <1>1, <1>2, NoneAssumption
     DEF Init, Owned, Shared, Guests, ShownIsOwn, Covered, Apart, StoredIsOwn, SavedTurnsStay
<1> QED BY <1>3, <1>4, <1>5, <1>6 DEF MInv, Types

LEMMA Stays == Spec => []MInv
<1>1. MInv /\ [Next]_vars => MInv'
  BY TypesKeep, TimedKeeps, OwnedKeeps, StoredKeeps, CallsKeep DEF MInv
<1> QED BY Starts, <1>1, PTL DEF Spec

(* The tabs, their screens, what they have left and the tables behind them
   keep their types in every history of taps, answers, saves and kills. *)
THEOREM ChatsWellTyped == Spec => []TypeOK
<1>1. MInv => TypeOK
  BY DEF MInv, Types
<1> QED BY Stays, <1>1, PTL

(* saveSessionMessages stores under a session only what was asked in it,
   though tabs carry messages from chat to chat: the exception is a session
   opened blank where setChatId had left messages. *)
THEOREM SessionsStoreTheirOwn == Spec => []StoredIsOwn
<1>1. MInv => StoredIsOwn
  BY DEF MInv, Owned
<1> QED BY Stays, <1>1, PTL

(* Nothing that was stored once is lost: not by a save that replaces all of a
   session's messages, nor one refused for a message id stored elsewhere, nor
   a kill; the user's deletion, and two tabs on one session, may. *)
THEOREM StoredTurnsStay == Spec => []SavedTurnsStay
<1>1. MInv => SavedTurnsStay
  BY DEF MInv, Owned
<1> QED BY Stays, <1>1, PTL

(* Where a turn was asked, no save ahead means that all that shows is stored:
   the guard of loaded messages never holds back the save of an answer. *)
THEOREM NothingShownIsUnsaved == Spec => []ShownIsStored
<1>1. MInv => ShownIsStored
  BY DEF MInv
<1> QED BY Stays, <1>1, PTL

(* No screen waits for a tool that nobody runs, but one that came over
   another chat and looked for open calls there. *)
THEOREM CallsShownAreLive == Spec => []OpenCallsLive
<1>1. MInv => OpenCallsLive
  BY DEF MInv
<1> QED BY Stays, <1>1, PTL

-----------------------------------------------------------------------------
(***************************************************************************)
(* The cards of a chat.                                                    *)
(***************************************************************************)

LEMMA Names ==
    /\ Calls = Arrivals \cup Routes /\ Arrivals \cap Routes = {}
    /\ Inline \subseteq Arrivals /\ MaxReloads \in Nat
    /\ Nil \notin Calls /\ Nil \notin Queries
    /\ \A c \in Calls : Query[c] \in Queries /\ QueryOf(c) = Query[c]
    /\ QueryOf(Nil) = Nil
BY ArrivalCardsAssumption DEF Calls, QueryOf

LEMMA RangeMeans ==
    ASSUME NEW S, NEW m \in Seq(S)
    PROVE  /\ Range(m) \subseteq S
           /\ \A c \in S : /\ Append(m, c) \in Seq(S)
                           /\ Range(Append(m, c)) = Range(m) \cup {c}
           /\ m # <<>> <=> Range(m) # {}
<1>1. DOMAIN m = 1..Len(m) /\ Len(m) \in Nat /\ \A i \in 1..Len(m) : m[i] \in S
  OBVIOUS
<1>2. Range(m) \subseteq S
  BY <1>1 DEF Range
<1>3. ASSUME NEW c \in S
      PROVE  /\ Append(m, c) \in Seq(S)
             /\ Range(Append(m, c)) = Range(m) \cup {c}
  <2> DEFINE n == Append(m, c)
  <2>1. /\ n \in Seq(S) /\ Len(n) = Len(m) + 1 /\ DOMAIN n = 1..(Len(m) + 1)
        /\ n[Len(m) + 1] = c /\ \A i \in 1..Len(m) : n[i] = m[i]
    BY <1>1
  <2> HIDE DEF n
  <2>2. DOMAIN n = DOMAIN m \cup {Len(m) + 1}
    BY <1>1, <2>1
  <2>3. Range(n) = Range(m) \cup {c}
    BY <1>1, <2>1, <2>2 DEF Range
  <2> QED BY <2>1, <2>3 DEF n
<1>4. m # <<>> <=> Range(m) # {}
  <2>1. m # <<>> => 1 \in DOMAIN m
    BY <1>1
  <2>2. m = <<>> => DOMAIN m = {}
    OBVIOUS
  <2> QED BY <2>1, <2>2 DEF Range
<1> QED BY <1>2, <1>3, <1>4

LEMMA PrefixIsFinite ==
    ASSUME NEW n \in Nat, NEW S, S \subseteq 1..n
    PROVE  S \subseteq Nat /\ IsFiniteSet(S)
<1>1. n \in Int /\ 1 \in Int
  OBVIOUS
<1>2. IsFiniteSet(1..n)
  BY <1>1, FS_Interval
<1>3. IsFiniteSet(S)
  BY <1>2, FS_Subset
<1>4. \A i \in 1..n : i \in Nat
  OBVIOUS
<1> QED BY <1>3, <1>4

(* The latest call of a kind. *)
LEMMA LatestMeans ==
    ASSUME NEW m \in Seq(Calls), NEW calls
    PROVE  /\ Latest(m, calls) \in (Range(m) \cap calls) \cup {Nil}
           /\ Latest(m, calls) = Nil <=> Range(m) \cap calls = {}
<1> DEFINE at == {i \in DOMAIN m : m[i] \in calls}
<1>1. at = {} <=> Range(m) \cap calls = {}
  BY DEF Range
<1>2. CASE at = {}
  BY <1>1, <1>2 DEF Latest
<1>3. CASE at # {}
  <2>1. at \subseteq 1..Len(m) /\ Len(m) \in Nat
    OBVIOUS
  <2>2. at \subseteq Nat /\ IsFiniteSet(at)
    BY <2>1, PrefixIsFinite
  <2>3. \E i \in at : \A j \in at : j <= i
    BY <1>3, <2>2, Greatest
  <2>4. \E i \in at : \A j \in at : i >= j
    BY <2>2, <2>3
  <2>5. Max(at) \in at
    BY <2>4 DEF Max
  <2>6. Latest(m, calls) = m[Max(at)]
    BY <1>3 DEF Latest
  <2>7. m[Max(at)] \in Range(m) \cap calls
    BY <2>5 DEF Range
  <2> QED BY <1>1, <1>3, <2>6, <2>7, Names, RangeMeans
<1> QED BY <1>2, <1>3

LEMMA LatestOfNone ==
    ASSUME NEW calls
    PROVE  Latest(<<>>, calls) = Nil /\ Range(<<>>) = {}
BY DEF Latest, Range

LEMMA LatestAppend ==
    ASSUME NEW S, NEW m \in Seq(S), NEW c \in S, NEW calls
    PROVE  Latest(Append(m, c), calls) =
               IF c \in calls THEN c ELSE Latest(m, calls)
<1> DEFINE n == Append(m, c)
<1> DEFINE at(l) == {i \in DOMAIN l : l[i] \in calls}
<1> DEFINE k == Len(m) + 1
<1>1. /\ DOMAIN m = 1..Len(m) /\ Len(m) \in Nat /\ k \in Nat /\ \A i \in 1..Len(m) : i < k
      /\ DOMAIN n = 1..k /\ n[k] = c /\ \A i \in 1..Len(m) : n[i] = m[i]
  OBVIOUS
<1>2. DOMAIN n = DOMAIN m \cup {k} /\ k \notin DOMAIN m
  BY <1>1
<1> HIDE DEF n, k
<1>3. CASE c \in calls
  <2>1. k \in at(n) /\ \A j \in at(n) : k >= j
    BY <1>1, <1>2, <1>3
  <2>2. \A i \in at(n) : i # k => ~(i >= k)
    BY <1>1, <1>2
  <2>3. Max(at(n)) = k
    BY <2>1, <2>2 DEF Max
  <2> QED BY <1>1, <1>3, <2>1, <2>3 DEF Latest, n
<1>4. CASE c \notin calls
  <2>1. at(n) = at(m)
    <3>1. \A i \in DOMAIN m : n[i] = m[i]
      BY <1>1
    <3>2. \A i \in DOMAIN n : n[i] \in calls => i \in DOMAIN m
      BY <1>1, <1>2, <1>4
    <3> QED BY <1>2, <3>1, <3>2
  <2>2. CASE at(m) = {}
    BY <1>4, <2>1, <2>2 DEF Latest, n
  <2>3. CASE at(m) # {}
    <3>1. Max(at(m)) \in at(m)
      <4>1. at(m) \subseteq 1..Len(m)
        BY <1>1
      <4>2. at(m) \subseteq Nat /\ IsFiniteSet(at(m))
        BY <1>1, <4>1, PrefixIsFinite
      <4>3. \E i \in at(m) : \A j \in at(m) : j <= i
        BY <2>3, <4>2, Greatest
      <4>4. \E i \in at(m) : \A j \in at(m) : i >= j
        BY <4>2, <4>3
      <4> QED BY <4>4 DEF Max
    <3>2. n[Max(at(m))] = m[Max(at(m))]
      BY <1>1, <3>1
    <3> QED BY <1>4, <2>1, <2>3, <3>2 DEF Latest, n
  <2> QED BY <2>2, <2>3
<1> QED BY <1>3, <1>4 DEF n
-----------------------------------------------------------------------------
(* What is known of the calls of each list and set. *)
L == Latest(messages, Arrivals)
Mades == /\ Range(messages) \subseteq made /\ Range(answer) \subseteq made
         /\ Range(stored) \subseteq made /\ gone \subseteq made
         /\ fetched \subseteq made /\ loading \subseteq made
         /\ override # NoCard => override.of \in heard \cap made /\ override.has
Cleared == gone \cap (Range(messages) \cup Range(stored) \cup Range(answer)) = {}

(* A route without data is looked up, and marked only where it is shown or
   was cleared; one that failed says so until it is asked for again. *)
Awaited ==
    \A r \in Routes :
        /\ r \in started /\ info[r] = Nil => r \in looking \cup undead \cup gone
        /\ r \in started => r \in Range(messages) \cup gone \cup undead
        /\ r \in Range(messages) \ started => info[r] # Nil

(* useArrivalsRefresh observes the card that shows, and its effect has seen
   what is known of it; a card the widget can know it was told of. *)
Watch == observed = QueryOf(Shown.of)
Sync == noticed = IF observed \in cached THEN observed ELSE Nil
Told ==
    Mobile =>
        /\ messages = <<>> => answer = <<>>
        /\ ~late /\ L # Nil /\ (L \in Inline \cup fetched \/ override.of = L) => widget = L
CardsInv == CardsTypeOK /\ Mades /\ Cleared /\ Awaited /\ Watch /\ Sync /\ Told

LEMMA LatestIsCall ==
    ASSUME NEW m \in Seq(Calls)
    PROVE  /\ Latest(m, Arrivals) \in Arrivals \cup {Nil}
           /\ Latest(m, Arrivals) # Nil => Latest(m, Arrivals) \in Range(m)
           /\ Range(m) \cap Arrivals # {} => Latest(m, Arrivals) # Nil
BY LatestMeans

LEMMA CardMeans ==
    ASSUME NEW m \in Seq(Calls), NEW f, NEW o \in Card
    PROVE  /\ ArrivalsData(o, m, f) \in Card
           /\ o # NoCard => ArrivalsData(o, m, f) = o
           /\ o = NoCard => ArrivalsData(o, m, f).of = Latest(m, Arrivals)
           /\ o = NoCard /\ ArrivalsData(o, m, f).has =>
                /\ Latest(m, Arrivals) # Nil
                /\ Latest(m, Arrivals) \in Inline \cup IF Web THEN {} ELSE f
<1> DEFINE c == Latest(m, Arrivals)
<1>1. c \in Arrivals \cup {Nil}
  BY LatestIsCall
<1> HIDE DEF c
<1>2. NoCard \in Card /\ NoCard.of = Nil /\ NoCard.has = FALSE
  BY DEF NoCard, Card
<1>3. CASE o # NoCard
  BY <1>3 DEF ArrivalsData
<1>4. CASE o = NoCard /\ c = Nil
  <2>1. ArrivalsData(o, m, f) = NoCard
    BY <1>4 DEF ArrivalsData, ArrivalsFromMessages, c
  <2> QED BY <1>2, <1>4, <2>1 DEF c
<1>5. CASE o = NoCard /\ c # Nil
  <2>1. ArrivalsData(o, m, f) = CardOfCall(c, f)
    BY <1>5 DEF ArrivalsData, ArrivalsFromMessages, c
  <2>2. CardOfCall(c, f) \in Card /\ CardOfCall(c, f).of = c
    BY <1>1, <1>5 DEF CardOfCall, WebCard, MobileCard, Card
  <2>3. CardOfCall(c, f).has => c \in Inline \cup IF Web THEN {} ELSE f
    BY DEF CardOfCall, WebCard, MobileCard, Mobile, Web
  <2> QED BY <1>5, <2>1, <2>2, <2>3 DEF c
<1> QED BY <1>3, <1>4, <1>5

LEMMA QueryMeans ==
    ASSUME NEW c \in Arrivals \cup {Nil}
    PROVE  QueryOf(c) \in Queries \cup {Nil} /\ (QueryOf(c) = Nil <=> c = Nil)
BY Names

(* The effect sees an answer to the card's query that it has not seen. *)
Hears(card, known, c) ==
    card.of # Nil /\ QueryOf(card.of) \in c /\ QueryOf(card.of) # known

(* What useArrivalsRefresh does in any commit: it either sets the override to
   the card that shows, which it then does still, or leaves it. *)
LEMMA RefreshMeans ==
    ASSUME NEW m \in Seq(Calls), NEW o \in Card, NEW known, NEW f,
           NEW c \in SUBSET Queries, NEW a \in SUBSET Queries, NEW w,
           messages' = m, fetched' = f, client' = client, Refresh(o, m, f, known, c, a, w)
    PROVE  /\ override' = IF Hears(ArrivalsData(o, m, f), known, c)
                          THEN [of |-> ArrivalsData(o, m, f).of, has |-> TRUE] ELSE o
           /\ widget' = IF Hears(ArrivalsData(o, m, f), known, c) /\ Mobile
                        THEN ArrivalsData(o, m, f).of ELSE w
           /\ override' \in Card /\ Shown'.of = ArrivalsData(o, m, f).of /\ Watch' /\ Sync'
           /\ cached' \subseteq Queries /\ asking' \subseteq Queries
           /\ observed' \in Queries \cup {Nil} /\ noticed' \in {observed', Nil}
<1> DEFINE card == ArrivalsData(o, m, f)
<1> DEFINE hears == Hears(card, known, c)
<1> DEFINE query == QueryOf(card.of)
<1> DEFINE fresh == IF query \in c THEN query ELSE Nil
<1>1. card \in Card /\ card.of \in Arrivals \cup {Nil}
  BY CardMeans DEF Card
<1>0. card = ArrivalsData(o, m, f)
  OBVIOUS
<1> HIDE DEF card
<1>2. query \in Queries \cup {Nil} /\ (query = Nil <=> card.of = Nil)
  BY <1>1, QueryMeans
<1>3. Nil \notin c
  BY Names
<1> HIDE DEF query
<1>4. hears <=> fresh # Nil /\ fresh # known
  BY <1>2, <1>3 DEF query, Hears
<1> HIDE DEF hears
<1>5. /\ override' = IF hears THEN [card EXCEPT !.has = TRUE] ELSE o
      /\ observed' = query /\ noticed' = fresh /\ cached' = c
      /\ asking' = IF query \notin {Nil, observed} THEN a \cup {query} ELSE a
      /\ widget' = IF hears /\ Mobile THEN card.of ELSE w
  BY <1>0, <1>4 DEF Refresh, UpdateWidget, query
<1>6. hears => override' \in Card /\ override'.of = card.of /\ override'.has
  BY <1>1, <1>5 DEF Card
<1>7. override' \in Card /\ override' = IF hears THEN [of |-> card.of, has |-> TRUE] ELSE o
  BY <1>1, <1>5, <1>6 DEF Card
<1>8. Shown'.of = card.of
  <2>1. CASE hears
    <3>1. override' # NoCard
      BY <1>6, <2>1 DEF NoCard
    <3> QED BY <1>0, <1>6, <2>1, <3>1 DEF Shown, ArrivalsData
  <2>2. CASE ~hears
    BY <1>0, <1>5, <2>2 DEF Shown, ArrivalsData, ArrivalsFromMessages, CardOfCall, Web
  <2> QED BY <2>1, <2>2
<1>9. Watch'
  BY <1>5, <1>8 DEF Watch, query, QueryOf
<1>10. Sync'
  BY <1>5 DEF Sync
<1>11. cached' \subseteq Queries /\ asking' \subseteq Queries
  BY <1>2, <1>5
<1>12. observed' \in Queries \cup {Nil} /\ noticed' \in {observed', Nil}
  BY <1>2, <1>5
<1> QED BY <1>5, <1>6, <1>7, <1>8, <1>9, <1>10, <1>11, <1>12 DEF hears, card

-----------------------------------------------------------------------------
(* The writes of a stream and a question: the messages become m. *)
Writing(m, o, w, h) ==
    /\ m \in Seq(Calls) /\ answer' \in Seq(Calls) /\ (m = <<>> => answer' = <<>>)
    /\ made \subseteq made' /\ made' \subseteq Calls
    /\ Range(messages) \subseteq Range(m)
    /\ Range(m) \cup Range(answer') \subseteq
           Range(messages) \cup Range(answer) \cup (made' \ made)
    /\ Mobile => \/ w = Latest(m, Arrivals)
                 \/ /\ w = widget
                    /\ Latest(m, Arrivals) = L \/ Latest(m, Arrivals) \notin made \cup Inline
    /\ w \in Arrivals \cup {Nil}
    /\ (o = NoCard /\ h = {}) \/ (o = override /\ h = heard)
    /\ Commit(m, o, w, h)
    /\ loading' \subseteq Arrivals \cap (loading \cup made')
    /\ streaming' \in BOOLEAN /\ landing' \in BOOLEAN
    /\ UNCHANGED <<client, fetched, gone, undead, reloads>>

LEMMA WritingMeans ==
    ASSUME CardsInv, NEW m, NEW o, NEW w, NEW h, Writing(m, o, w, h)
    PROVE  CardsInv'
<1> DEFINE card == ArrivalsData(o, m, fetched)
<1> DEFINE hears == Hears(card, noticed, cached)
<1> DEFINE k == Latest(m, Arrivals)
<1>0. /\ m \in Seq(Calls) /\ answer' \in Seq(Calls) /\ o \in Card /\ messages' = m
      /\ messages \in Seq(Calls) /\ answer \in Seq(Calls) /\ stored \in Seq(Calls)
      /\ UNCHANGED <<client, fetched, gone, undead, reloads>>
  <2>1. o \in Card
    <3>1. NoCard \in Card
      BY DEF NoCard, Card
    <3> QED BY <3>1 DEF Writing, CardsInv, CardsTypeOK
  <2>2. messages' = m
    BY DEF Writing, Commit
  <2> QED BY <2>1, <2>2 DEF Writing, CardsInv, CardsTypeOK
<1>1. /\ override' \in Card /\ (hears => override'.of = card.of /\ override'.has)
      /\ ~hears => override' = o
      /\ widget' = IF hears /\ Mobile THEN card.of ELSE w
      /\ Shown'.of = card.of /\ Watch' /\ Sync'
      /\ cached' \subseteq Queries /\ asking' \subseteq Queries
      /\ observed' \in Queries \cup {Nil} /\ noticed' \in {observed', Nil}
  <2>1. Refresh(o, m, fetched, noticed, cached, asking, w)
    BY DEF Writing, Commit
  <2>2. cached \in SUBSET Queries /\ asking \in SUBSET Queries
    BY DEF CardsInv, CardsTypeOK
  <2>3. /\ m \in Seq(Calls) /\ o \in Card /\ messages' = m
        /\ fetched' = fetched /\ client' = client
    BY <1>0
  <2>4. /\ override' = IF Hears(card, noticed, cached)
                         THEN [of |-> card.of, has |-> TRUE] ELSE o
        /\ widget' = IF Hears(card, noticed, cached) /\ Mobile THEN card.of ELSE w
    BY <2>1, <2>2, <2>3, RefreshMeans
  <2>5. override' \in Card /\ Shown'.of = card.of /\ Watch' /\ Sync'
    BY <2>1, <2>2, <2>3, RefreshMeans
  <2>6. /\ cached' \subseteq Queries /\ asking' \subseteq Queries
        /\ observed' \in Queries \cup {Nil} /\ noticed' \in {observed', Nil}
    BY <2>1, <2>2, <2>3, RefreshMeans
  <2> QED BY <2>4, <2>5, <2>6
<1>2. /\ card \in Card /\ (o # NoCard => card = o) /\ (o = NoCard => card.of = k)
      /\ k \in Arrivals \cup {Nil} /\ (k # Nil => k \in Range(m))
  BY <1>0, CardMeans, LatestIsCall
<1> HIDE DEF card, k
(* An override that shows already is observed, and what is known of it seen. *)
<1>3. hears => o = NoCard /\ card.of = k
  <2>1. ASSUME o # NoCard
        PROVE  ~hears
    <3>1. o = override /\ card = override
      BY <1>2, <2>1 DEF Writing
    <3>2. Shown = override
      BY <2>1, <3>1 DEF Shown, ArrivalsData
    <3>3. observed = QueryOf(card.of)
      BY <3>1, <3>2 DEF CardsInv, Watch
    <3> QED BY <3>3 DEF CardsInv, Sync, Hears
  <2> QED BY <1>2, <2>1
<1>4. /\ heard' = IF override' = o THEN h ELSE h \cup {override'.of}
      /\ late' = IF widget' = widget THEN late ELSE widget' # k
      /\ started' = started \cup {r \in Routes \ started : r \in Range(m)}
      /\ looking' = looking \cup {r \in Routes \ started : r \in Range(m)}
      /\ info' = info /\ stored' = IF m = <<>> THEN stored ELSE m
  BY <1>0 DEF Writing, Commit, Heed, Sweep, Store, k
<1> HIDE DEF hears
<1>5. Mades'
  <2>1. /\ Range(messages)' \subseteq made' /\ Range(answer)' \subseteq made'
        /\ Range(stored)' \subseteq made'
    <3>1. Range(m) \cup Range(answer') \subseteq made'
      BY DEF Writing, CardsInv, Mades
    <3>2. Range(stored) \subseteq made'
      BY DEF Writing, CardsInv, Mades
    <3> QED BY <1>0, <1>4, <3>1, <3>2
  <2>2. gone' \subseteq made' /\ fetched' \subseteq made' /\ loading' \subseteq made'
    BY <1>0 DEF Writing, CardsInv, Mades
  <2>3. ASSUME override' # NoCard
        PROVE  override'.of \in heard' \cap made' /\ override'.has
    <3>1. CASE hears
      <4>1. override' # o
        BY <1>3, <2>3, <3>1
      <4>2. k \in made'
        BY <1>0, <1>1, <1>2, <1>3, <2>1, <3>1 DEF hears, Hears
      <4> QED BY <1>1, <1>3, <1>4, <3>1, <4>1, <4>2
    <3>2. CASE ~hears
      <4>1. override' = o /\ o = override /\ h = heard
        BY <1>1, <2>3, <3>2 DEF Writing
      <4> QED BY <1>4, <2>3, <4>1 DEF Writing, CardsInv, Mades
    <3> QED BY <3>1, <3>2
  <2> QED BY <2>1, <2>2, <2>3 DEF Mades
<1>6. Cleared'
  <2>1. gone \cap (Range(m) \cup Range(answer')) = {}
    BY DEF Writing, CardsInv, Cleared, Mades
  <2>2. Range(stored') \subseteq Range(stored) \cup Range(m)
    BY <1>4
  <2> QED BY <1>0, <2>1, <2>2 DEF CardsInv, Cleared
<1>7. Awaited'
  <2>1. Range(messages) \subseteq Range(m)
    BY DEF Writing
  <2> QED BY <1>0, <1>4, <2>1 DEF CardsInv, Awaited
<1>8. Told'
  <2> SUFFICES ASSUME Mobile
               PROVE  /\ messages' = <<>> => answer' = <<>>
                      /\ ~late' /\ k # Nil /\ (k \in Inline \cup fetched \/ override'.of = k)
                            => widget' = k
    BY <1>0 DEF Told, Mobile, L, k
  <2>1. messages' = <<>> => answer' = <<>>
    BY <1>0 DEF Writing
  <2>2. ASSUME ~late', k # Nil, k \in Inline \cup fetched \/ override'.of = k
        PROVE  widget' = k
    <3>1. CASE widget' # widget
      BY <1>4, <2>2, <3>1
    <3>2. CASE hears
      BY <1>1, <1>3, <3>2
    <3>3. CASE ~hears /\ widget' = widget
      <4>1. widget' = w /\ override' = o
        BY <1>1, <3>3
      <4>2. CASE k = L
        <5>1. ~late
          BY <1>4, <2>2, <3>3
        <5>2. override'.of = k => override.of = L
          BY <2>2, <4>1, <4>2 DEF Writing, NoCard
        <5> QED BY <2>2, <3>3, <4>2, <5>1, <5>2 DEF CardsInv, Told
      <4>3. CASE k # L /\ w # k
        <5>1. k \notin made \cup Inline
          BY <4>3 DEF Writing, k
        <5>2. fetched \subseteq made /\ (override # NoCard => override.of \in made)
          BY DEF CardsInv, Mades
        <5>3. override'.of # k
          BY <2>2, <4>1, <5>1, <5>2 DEF Writing, NoCard
        <5> QED BY <2>2, <5>1, <5>2, <5>3
      <4> QED BY <4>1, <4>2, <4>3
    <3> QED BY <3>1, <3>2, <3>3
  <2> QED BY <2>1, <2>2
<1>9. CardsTypeOK'
  <2>1. widget' \in Arrivals \cup {Nil}
    BY <1>1, <1>2 DEF Writing, Card
  <2>2. heard' \subseteq Arrivals
    <3>1. h \subseteq Arrivals
      BY DEF Writing, CardsInv, CardsTypeOK
    <3>2. override' # o => override'.of \in Arrivals
      BY <1>1, <1>2, <1>3 DEF hears, Hears, Card
    <3> QED BY <1>4, <3>1, <3>2
  <2>3. late' \in BOOLEAN
    BY <1>4 DEF CardsInv, CardsTypeOK
  <2>4. stored' \in Seq(Calls)
    BY <1>0, <1>4
  <2>5. started' \subseteq Routes /\ looking' \subseteq started'
    BY <1>4 DEF CardsInv, CardsTypeOK
  <2>6. /\ made' \subseteq Calls /\ loading' \subseteq Arrivals
        /\ streaming' \in BOOLEAN /\ landing' \in BOOLEAN
    BY DEF Writing
  <2>7. /\ client' \in {"web", "mobile"} /\ fetched' \subseteq Arrivals
        /\ info' \in [Routes -> {Nil, "data", "error"}]
        /\ gone' \subseteq Calls /\ undead' \subseteq Calls /\ reloads' \in 0..MaxReloads
    BY <1>0, <1>4 DEF CardsInv, CardsTypeOK
  <2> QED BY <1>0, <1>1, <2>1, <2>2, <2>3, <2>4, <2>5, <2>6, <2>7 DEF CardsTypeOK
<1> QED BY <1>1, <1>5, <1>6, <1>7, <1>8, <1>9 DEF CardsInv

LEMMA StreamWrites ==
    ASSUME CardsInv
    PROVE  /\ HandleSend => Writing(messages, NoCard, widget, {})
           /\ Chunk => Writing(Written, override, widget, heard)
<1>1. /\ messages \in Seq(Calls) /\ answer \in Seq(Calls) /\ Written \in Seq(Calls)
      /\ made \subseteq Calls /\ loading \subseteq Arrivals /\ streaming \in BOOLEAN
      /\ landing \in BOOLEAN /\ widget \in Arrivals \cup {Nil}
  BY DEF CardsInv, CardsTypeOK, Written
<1>2. /\ Range(messages) \subseteq Range(Written)
      /\ Range(Written) \subseteq Range(messages) \cup Range(answer)
      /\ Written = <<>> => answer = <<>>
  BY LatestOfNone DEF Written
<1>3. Mobile => Written = messages
  BY DEF CardsInv, Told, Written
<1>4. Range(<<>>) = {} /\ <<>> \in Seq(Calls)
  BY LatestOfNone
<1>5. ASSUME HandleSend
      PROVE  Writing(messages, NoCard, widget, {})
  <2>1. /\ answer' = <<>> /\ made' = made /\ loading' = loading
        /\ streaming' = TRUE /\ landing' = FALSE
    BY <1>5 DEF HandleSend
  <2>2. /\ Commit(messages, NoCard, widget, {})
        /\ UNCHANGED <<client, fetched, gone, undead, reloads>>
    BY <1>5 DEF HandleSend
  <2>3. answer' \in Seq(Calls) /\ Range(answer') = {}
    BY <1>4, <2>1
  <2> QED BY <1>1, <2>1, <2>2, <2>3 DEF Writing, L
<1>6. ASSUME Chunk
      PROVE  Writing(Written, override, widget, heard)
  BY <1>1, <1>2, <1>3, <1>6 DEF Chunk, Writing, L
<1> QED BY <1>5, <1>6

LEMMA CallWrites ==
    ASSUME CardsInv, NEW c \in Calls \ made, made' = made \cup {c},
           answer' = Append(answer, c), NEW w,
           Commit(Append(Written, c), override, w, heard),
           loading' \subseteq Arrivals \cap (loading \cup {c}),
           \/ w = widget /\ (Mobile => c \notin Inline)
           \/ Mobile /\ c \in Arrivals /\ w = c,
           UNCHANGED <<client, streaming, fetched, landing, gone, undead, reloads>>
    PROVE  Writing(Append(Written, c), override, w, heard)
<1> DEFINE m == Append(Written, c)
<1>1. /\ messages \in Seq(Calls) /\ answer \in Seq(Calls) /\ Written \in Seq(Calls)
      /\ made \subseteq Calls /\ loading \subseteq Arrivals /\ streaming \in BOOLEAN
      /\ landing \in BOOLEAN /\ widget \in Arrivals \cup {Nil}
  BY DEF CardsInv, CardsTypeOK, Written
<1>2. /\ Range(messages) \subseteq Range(Written)
      /\ Range(Written) \subseteq Range(messages) \cup Range(answer)
  BY LatestOfNone DEF Written
<1>3. Mobile => Written = messages
  BY DEF CardsInv, Told, Written
<1>4. m \in Seq(Calls) /\ Range(m) = Range(Written) \cup {c}
  BY <1>1, RangeMeans
<1>5. answer' \in Seq(Calls) /\ Range(answer') = Range(answer) \cup {c}
  BY <1>1, RangeMeans
<1>6. m # <<>>
  BY <1>4, LatestOfNone
<1>7. Latest(m, Arrivals) = IF c \in Arrivals THEN c ELSE Latest(Written, Arrivals)
  BY <1>1, LatestAppend
<1> HIDE DEF m
<1>8. Mobile => \/ w = Latest(m, Arrivals)
                \/ /\ w = widget
                   /\ Latest(m, Arrivals) = L \/ Latest(m, Arrivals) \notin made \cup Inline
  BY <1>3, <1>7 DEF L
<1>9. /\ made \subseteq made' /\ made' \subseteq Calls
      /\ Range(m) \cup Range(answer') \subseteq
           Range(messages) \cup Range(answer) \cup (made' \ made)
      /\ loading' \subseteq Arrivals \cap (loading \cup made')
      /\ w \in Arrivals \cup {Nil} /\ streaming' \in BOOLEAN /\ landing' \in BOOLEAN
  BY <1>1, <1>2, <1>4, <1>5
<1>10. Commit(m, override, w, heard)
  BY DEF m
<1>11. Writing(m, override, w, heard)
  BY <1>2, <1>4, <1>5, <1>6, <1>8, <1>9, <1>10 DEF Writing
<1> QED BY <1>11 DEF m

LEMMA CallsWrite ==
    ASSUME CardsInv
    PROVE  /\ \A c \in Arrivals : /\ WebCallArrivals(c) => CardsInv'
                                  /\ MobileCallArrivals(c) => CardsInv'
           /\ \A r \in Routes : CallRoute(r) => CardsInv'
<1>1. Calls = Arrivals \cup Routes /\ Arrivals \cap Routes = {} /\ Inline \subseteq Arrivals
  BY Names
<1>2. loading \subseteq Arrivals /\ (Web => ~Mobile)
  BY DEF CardsInv, CardsTypeOK, Web, Mobile
<1>3. ASSUME NEW c \in Arrivals, WebCallArrivals(c)
      PROVE  CardsInv'
  <2>1. /\ c \in Calls \ made /\ made' = made \cup {c} /\ answer' = Append(answer, c)
        /\ UNCHANGED <<client, streaming, fetched, landing, gone, undead, reloads>>
    BY <1>1, <1>3 DEF WebCallArrivals, Call
  <2>2. /\ Commit(Append(Written, c), override, widget, heard)
        /\ loading' \subseteq Arrivals \cap (loading \cup {c}) /\ ~Mobile
    BY <1>2, <1>3 DEF WebCallArrivals
  <2>3. Writing(Append(Written, c), override, widget, heard)
    BY <2>1, <2>2, CallWrites
  <2> QED BY <2>3, WritingMeans
<1>4. ASSUME NEW c \in Arrivals, MobileCallArrivals(c)
      PROVE  CardsInv'
  <2> DEFINE w == IF c \in Inline THEN c ELSE widget
  <2>1. (w = widget /\ c \notin Inline) \/ (Mobile /\ c \in Arrivals /\ w = c)
    BY <1>4 DEF MobileCallArrivals, Mobile
  <2>2. Commit(Append(Written, c), override, w, heard)
    BY <1>4 DEF MobileCallArrivals
  <2>3. loading' \subseteq Arrivals \cap (loading \cup {c})
    BY <1>2, <1>4 DEF MobileCallArrivals
  <2> HIDE DEF w
  <2>4. /\ c \in Calls \ made /\ made' = made \cup {c} /\ answer' = Append(answer, c)
        /\ UNCHANGED <<client, streaming, fetched, landing, gone, undead, reloads>>
    BY <1>1, <1>4 DEF MobileCallArrivals, Call
  <2>5. Writing(Append(Written, c), override, w, heard)
    BY <2>1, <2>2, <2>3, <2>4, CallWrites
  <2> QED BY <2>5, WritingMeans
<1>5. ASSUME NEW r \in Routes, CallRoute(r)
      PROVE  CardsInv'
  <2>1. /\ r \in Calls \ made /\ made' = made \cup {r} /\ answer' = Append(answer, r)
        /\ UNCHANGED <<client, streaming, fetched, landing, gone, undead, reloads>>
    BY <1>1, <1>5 DEF CallRoute
  <2>2. /\ Commit(Append(Written, r), override, widget, heard)
        /\ loading' \subseteq Arrivals \cap (loading \cup {r})
    BY <1>2, <1>5 DEF CallRoute
  <2>3. r \notin Inline
    BY <1>1
  <2>4. Writing(Append(Written, r), override, widget, heard)
    BY <2>1, <2>2, <2>3, CallWrites
  <2> QED BY <2>4, WritingMeans
<1> QED BY <1>3, <1>4, <1>5

(* A cleared chat, of either client: mobile's ends the answer and keeps the
   data, the web's goes on streaming. *)
LEMMA EmptiedMeans ==
    ASSUME CardsInv, NEW i, NEW a \in Seq(Calls), Emptied(a, i), stored' = <<>>,
           i = info \/ i = [r \in Routes |-> Nil], answer' = a, Mobile => a = <<>>,
           Range(a) \subseteq Range(answer), streaming' \in BOOLEAN, landing' \in BOOLEAN
    PROVE  CardsInv'
<1>0. /\ <<>> \in Seq(Calls) /\ NoCard \in Card /\ Range(<<>>) = {}
      /\ NoCard.of = Nil /\ Latest(<<>>, Arrivals) = Nil
  BY LatestOfNone DEF NoCard, Card
<1>1. /\ messages' = <<>> /\ UNCHANGED <<client, made, fetched, loading, reloads>>
      /\ gone' = gone \cup (Range(messages) \ Range(a)) /\ undead' = undead \cup Range(a)
      /\ Refresh(NoCard, <<>>, fetched, noticed, cached, asking, widget)
  BY DEF Emptied
<1> DEFINE card == ArrivalsData(NoCard, <<>>, fetched)
<1>2. card = NoCard /\ card.of = Nil
  BY <1>0 DEF ArrivalsData, ArrivalsFromMessages
<1>3. /\ override' = NoCard /\ widget' = widget /\ Watch' /\ Sync'
      /\ cached' \subseteq Queries /\ asking' \subseteq Queries
      /\ observed' \in Queries \cup {Nil} /\ noticed' \in {observed', Nil}
  <2>1. cached \in SUBSET Queries /\ asking \in SUBSET Queries
    BY DEF CardsInv, CardsTypeOK
  <2>2. ~Hears(card, noticed, cached)
    BY <1>2 DEF Hears
  <2> DEFINE m == <<>>
  <2>3. /\ m \in Seq(Calls) /\ messages' = m /\ NoCard \in Card
        /\ fetched' = fetched /\ client' = client /\ card = ArrivalsData(NoCard, m, fetched)
        /\ Refresh(NoCard, m, fetched, noticed, cached, asking, widget)
    BY <1>0, <1>1
  <2> HIDE DEF card, m
  <2> QED BY <2>1, <2>2, <2>3, RefreshMeans
<1>4. heard' = {} /\ late' = late
  BY <1>1, <1>3 DEF Emptied, Heed
<1>5. started' = started /\ looking' = looking /\ info' = i
  <2>1. {r \in Routes \ started : r \in Range(<<>>)} = {}
    BY <1>0
  <2> QED BY <2>1 DEF Emptied, Sweep, CardsInv, CardsTypeOK
<1>6. CardsTypeOK'
  <2>1. gone' \subseteq Calls /\ undead' \subseteq Calls
    <3>1. Range(messages) \subseteq Calls /\ Range(a) \subseteq Calls
      BY RangeMeans DEF CardsInv, CardsTypeOK
    <3> QED BY <1>1, <3>1 DEF CardsInv, CardsTypeOK
  <2>2. info' \in [Routes -> {Nil, "data", "error"}]
    BY <1>5 DEF CardsInv, CardsTypeOK
  <2> QED BY <1>0, <1>1, <1>3, <1>4, <1>5, <2>1, <2>2 DEF CardsInv, CardsTypeOK
<1>7. Mades'
  <2>1. Range(messages') = {} /\ Range(stored') = {} /\ Range(answer') \subseteq made
    BY <1>0, <1>1 DEF CardsInv, Mades
  <2> QED BY <1>1, <1>3, <2>1 DEF CardsInv, Mades
<1>8. Cleared'
  <2>1. Range(messages') = {} /\ Range(stored') = {}
    BY <1>0, <1>1
  <2> QED BY <1>1, <2>1 DEF CardsInv, Cleared
<1>9. Awaited'
  <2>1. Range(messages') = {}
    BY <1>0, <1>1
  <2>2. ASSUME NEW r \in Routes, r \in started
        PROVE  /\ r \in gone' \cup undead'
               /\ info'[r] = Nil => r \in looking \cup undead' \cup gone'
    BY <1>1, <2>2 DEF CardsInv, Awaited
  <2> QED BY <1>5, <2>1, <2>2 DEF Awaited
<1>10. Told'
  <2>1. L' = Nil
    BY <1>0, <1>1 DEF L
  <2>2. Mobile' => answer' = <<>>
    BY <1>1 DEF Mobile
  <2> QED BY <2>1, <2>2 DEF Told
<1> QED BY <1>3, <1>6, <1>7, <1>8, <1>9, <1>10 DEF CardsInv

LEMMA ClearKeeps ==
    ASSUME CardsInv, WebClear \/ MobileClear
    PROVE  CardsInv'
<1>1. CASE WebClear
  <2>1. /\ Emptied(answer, [r \in Routes |-> Nil]) /\ stored' = <<>> /\ answer' = answer
        /\ answer \in Seq(Calls) /\ streaming' \in BOOLEAN /\ landing' \in BOOLEAN /\ ~Mobile
    BY <1>1 DEF WebClear, CardsInv, CardsTypeOK, Web, Mobile
  <2> QED BY <2>1, EmptiedMeans
<1>2. CASE MobileClear
  <2>1. /\ Emptied(<<>>, info) /\ stored' = <<>> /\ answer' = <<>>
        /\ streaming' = FALSE /\ landing' = landing
    BY <1>2 DEF MobileClear
  <2>2. landing \in BOOLEAN
    BY DEF CardsInv, CardsTypeOK
  <2>3. Range(<<>>) \subseteq Range(answer) /\ <<>> \in Seq(Calls)
    BY LatestOfNone
  <2> QED BY <2>1, <2>2, <2>3, EmptiedMeans
<1> QED BY <1>1, <1>2

(* An answer of the backend for the query that shows, or that showed. *)
LEMMA RefetchedMeans ==
    ASSUME CardsInv, NEW known, NEW c \in SUBSET Queries, NEW a \in SUBSET Queries,
           messages' = messages, Refresh(override, messages, fetched, known, c, a, widget),
           Heed(override, heard),
           UNCHANGED <<client, streaming, answer, made, fetched, loading, routes, stored,
                       landing, gone, undead, reloads>>
    PROVE  CardsInv'
<1> DEFINE hears == Hears(Shown, known, c)
<1>0. messages \in Seq(Calls) /\ override \in Card
  BY DEF CardsInv, CardsTypeOK
<1>1. /\ override' \in Card /\ (hears => override'.of = Shown.of /\ override'.has)
      /\ ~hears => override' = override
      /\ widget' = IF hears /\ Mobile THEN Shown.of ELSE widget
      /\ Watch' /\ Sync' /\ cached' \subseteq Queries /\ asking' \subseteq Queries
      /\ observed' \in Queries \cup {Nil} /\ noticed' \in {observed', Nil}
  <2>1. Shown = ArrivalsData(override, messages, fetched)
    BY DEF Shown
  <2>2. /\ override' = IF Hears(Shown, known, c)
                         THEN [of |-> Shown.of, has |-> TRUE] ELSE override
        /\ widget' = IF Hears(Shown, known, c) /\ Mobile THEN Shown.of ELSE widget
    BY <1>0, <2>1, RefreshMeans
  <2>3. /\ override' \in Card
        /\ Watch' /\ Sync' /\ cached' \subseteq Queries /\ asking' \subseteq Queries
        /\ observed' \in Queries \cup {Nil} /\ noticed' \in {observed', Nil}
    BY <1>0, <2>1, RefreshMeans
  <2> QED BY <2>2, <2>3
<1>2. /\ Shown \in Card /\ Shown.of \in Arrivals \cup {Nil}
      /\ Shown.of # Nil => Shown.of \in made
  <2>1. /\ Shown \in Card /\ (override # NoCard => Shown = override)
        /\ override = NoCard => Shown.of = L
    BY <1>0, CardMeans DEF Shown, L
  <2>2. L # Nil => L \in made
    BY <1>0, LatestIsCall DEF L, CardsInv, Mades
  <2> QED BY <2>1, <2>2 DEF Card, CardsInv, Mades
<1>3. hears => Shown.of # Nil
  BY DEF Hears
<1> HIDE DEF hears
<1>4. /\ heard' = IF override' = override THEN heard ELSE heard \cup {override'.of}
      /\ late' = IF widget' = widget THEN late ELSE widget' # L
  BY DEF Heed, L
<1>5. Mades'
  <2>1. ASSUME override' # NoCard
        PROVE  override'.of \in heard' \cap made /\ override'.has
    BY <1>1, <1>2, <1>3, <1>4, <2>1 DEF CardsInv, Mades
  <2> QED BY <2>1 DEF CardsInv, Mades
<1>6. CardsTypeOK'
  <2>1. heard' \subseteq Arrivals /\ late' \in BOOLEAN /\ widget' \in Arrivals \cup {Nil}
    <3>1. heard' \subseteq Arrivals
      BY <1>1, <1>2, <1>3, <1>4 DEF CardsInv, CardsTypeOK
    <3>2. late' \in BOOLEAN
      BY <1>4 DEF CardsInv, CardsTypeOK
    <3>3. widget' \in Arrivals \cup {Nil}
      BY <1>1, <1>2 DEF CardsInv, CardsTypeOK
    <3> QED BY <3>1, <3>2, <3>3
  <2> QED BY <1>1, <2>1 DEF CardsInv, CardsTypeOK, routes
<1>7. Cleared' /\ Awaited'
  BY DEF CardsInv, Cleared, Awaited, routes
<1>8. Told'
  <2>1. L' = L /\ (Mobile' <=> Mobile)
    BY DEF L, Mobile
  <2>2. ASSUME Mobile, ~late', L # Nil, L \in Inline \cup fetched \/ override'.of = L
        PROVE  widget' = L
    BY <1>1, <1>4, <2>2 DEF CardsInv, Told
  <2> QED BY <2>1, <2>2 DEF CardsInv, Told
<1> QED BY <1>1, <1>5, <1>6, <1>7, <1>8 DEF CardsInv

LEMMA AnswerKeeps ==
    ASSUME CardsInv, NEW q \in Queries, Refetched(q)
    PROVE  CardsInv'
<1>1. /\ cached \in SUBSET Queries /\ asking \in SUBSET Queries
      /\ cached \cup {q} \in SUBSET Queries /\ cached \ {q} \in SUBSET Queries
      /\ asking \ {q} \in SUBSET Queries
  BY DEF CardsInv, CardsTypeOK
<1>2. UNCHANGED <<client, messages, streaming, answer, made, fetched, loading, routes, stored,
                  landing, gone, undead, reloads>>
  BY DEF Refetched
<1>3. CASE UNCHANGED <<override, observed, noticed, cached, widget, late, heard>>
           /\ asking' = asking \ {q}
  <2>1. CardsTypeOK'
    BY <1>1, <1>2, <1>3 DEF CardsInv, CardsTypeOK, routes
  <2>2. Mades' /\ Cleared' /\ Awaited' /\ Sync'
    BY <1>2, <1>3 DEF CardsInv, Mades, Cleared, Awaited, Sync, routes
  <2>3. Shown' = Shown /\ L' = L /\ (Mobile' <=> Mobile)
    BY <1>2, <1>3 DEF Shown, ArrivalsData, ArrivalsFromMessages, CardOfCall, Web, L, Mobile
  <2>4. Watch' /\ Told'
    BY <1>2, <1>3, <2>3 DEF CardsInv, Watch, Told
  <2> QED BY <2>1, <2>2, <2>4 DEF CardsInv
<1>4. ASSUME NEW known, NEW c \in SUBSET Queries, Heed(override, heard),
             Refresh(override, messages, fetched, known, c, asking \ {q}, widget)
      PROVE  CardsInv'
  BY <1>1, <1>2, <1>4, RefetchedMeans
<1> QED BY <1>1, <1>3, <1>4 DEF Refetched

LEMMA LoadedKeeps ==
    ASSUME CardsInv, NEW c \in Arrivals, Loaded(c)
    PROVE  CardsInv'
<1>1. /\ c \in loading /\ loading' = loading \ {c}
      /\ UNCHANGED <<client, messages, streaming, answer, made, override, observed, noticed,
                     cached, routes, stored, landing, heard, gone, undead, reloads>>
      /\ asking' = asking
  BY DEF Loaded, refresh
<1>2. PICK stops \in {c, Nil} :
          \/ UNCHANGED <<fetched, widget, late>>
          \/ /\ fetched' \subseteq fetched \cup {c} /\ widget' = stops
             /\ late' = (stops # L)
  BY DEF Loaded, L
<1>3. CardsTypeOK'
  BY <1>1, <1>2 DEF CardsInv, CardsTypeOK, routes
<1>4. Mades' /\ Cleared' /\ Awaited' /\ Sync'
  BY <1>1, <1>2 DEF CardsInv, Mades, Cleared, Awaited, Sync, routes
<1>5. Shown'.of = Shown.of /\ L' = L /\ (Mobile' <=> Mobile)
  <2>1. /\ messages \in Seq(Calls) /\ override \in Card
        /\ override' = override /\ messages' = messages
    BY <1>1 DEF CardsInv, CardsTypeOK
  <2>2. Shown.of = IF override # NoCard THEN override.of ELSE L
    BY <2>1, CardMeans DEF Shown, L
  <2>3. Shown'.of = IF override # NoCard THEN override.of ELSE L
    BY <1>1, <2>1 DEF Shown, ArrivalsData, ArrivalsFromMessages, CardOfCall, WebCard,
                     MobileCard, NoCard, L
  <2> QED BY <2>1, <2>2, <2>3, <1>1 DEF L, Mobile
<1>6. Watch' /\ Told'
  BY <1>1, <1>2, <1>5 DEF CardsInv, Watch, Told
<1> QED BY <1>3, <1>4, <1>6 DEF CardsInv

LEMMA LookedKeeps ==
    ASSUME CardsInv, NEW q \in Queries, NEW found \in BOOLEAN, Looked(q, found)
    PROVE  CardsInv'
<1> DEFINE asked == GetRouteInfo(q)
<1>1. /\ looking' = looking \ asked
      /\ info' = [r \in Routes |-> IF r \notin asked THEN info[r]
                                   ELSE IF found THEN "data" ELSE "error"]
      /\ started' = IF found THEN started ELSE started \ asked
      /\ UNCHANGED <<client, messages, streaming, answer, made, refresh, fetched, loading,
                     widget, stored, landing, cardHistory, reloads>>
  BY DEF Looked
<1> HIDE DEF asked
<1>2. CardsTypeOK'
  <2>1. info' \in [Routes -> {Nil, "data", "error"}]
    BY <1>1 DEF CardsInv, CardsTypeOK
  <2>2. looking' \subseteq started' /\ started' \subseteq Routes
    BY <1>1 DEF CardsInv, CardsTypeOK
  <2> QED BY <1>1, <2>1, <2>2 DEF CardsInv, CardsTypeOK, refresh, cardHistory
<1>3. Mades' /\ Cleared' /\ Sync'
  BY <1>1 DEF CardsInv, Mades, Cleared, Sync, refresh, cardHistory
<1>4. Awaited'
  <2>1. "data" # Nil /\ "error" # Nil
    BY DEF Nil
  <2> QED BY <1>1, <2>1 DEF CardsInv, Awaited, cardHistory
<1>5. Shown' = Shown /\ L' = L /\ (Mobile' <=> Mobile)
  BY <1>1 DEF Shown, ArrivalsData, ArrivalsFromMessages, CardOfCall, Web, L, Mobile,
              refresh
<1>6. Watch' /\ Told'
  BY <1>1, <1>5 DEF CardsInv, Watch, Told, refresh, cardHistory
<1> QED BY <1>2, <1>3, <1>4, <1>6 DEF CardsInv

LEMMA ReloadKeeps ==
    ASSUME CardsInv, Reload
    PROVE  CardsInv'
<1> DEFINE k == Latest(stored, Arrivals)
<1>1. /\ messages' = stored /\ override' = NoCard /\ fetched' = {} /\ client' = client
      /\ stored \in Seq(Calls) /\ k \in Arrivals \cup {Nil} /\ answer' = <<>> /\ late' = TRUE
      /\ observed' = QueryOf(k) /\ noticed' = Nil /\ cached' = {}
  BY LatestIsCall DEF Reload, CardsInv, CardsTypeOK
<1>2. <<>> \in Seq(Calls) /\ Range(<<>>) = {} /\ NoCard \in Card
  BY LatestOfNone DEF NoCard, Card
<1> HIDE DEF k
<1>3. QueryOf(k) \in Queries \cup {Nil}
  BY <1>1, QueryMeans
<1>4. CardsTypeOK'
  <2>1. reloads' \in 0..MaxReloads
    BY Names DEF Reload, CardsInv, CardsTypeOK
  <2>2. asking' \subseteq Queries
    BY <1>1, <1>3 DEF Reload
  <2>3. /\ streaming' \in BOOLEAN /\ landing' \in BOOLEAN /\ loading' = {} /\ heard' = {}
        /\ started' \subseteq Routes /\ looking' = started'
        /\ info' = [r \in Routes |-> Nil]
        /\ UNCHANGED <<made, widget, stored, gone, undead>>
    BY DEF Reload
  <2>4. info' \in [Routes -> {Nil, "data", "error"}]
    BY <2>3
  <2> QED BY <1>1, <1>2, <1>3, <2>1, <2>2, <2>3, <2>4 DEF CardsInv, CardsTypeOK
<1>5. Mades' /\ Cleared'
  <2>1. Range(messages') = Range(stored) /\ Range(answer') = {}
    BY <1>1, <1>2
  <2>2. UNCHANGED <<made, stored, gone>> /\ loading' = {}
    BY DEF Reload
  <2> QED BY <1>1, <2>1, <2>2 DEF CardsInv, Mades, Cleared
<1>6. Awaited'
  BY <1>1 DEF Reload, CardsInv, Awaited
<1>7. Watch' /\ Sync'
  <2>1. Shown'.of = k
    BY <1>1, <1>2 DEF Shown, ArrivalsData, ArrivalsFromMessages, CardOfCall, WebCard,
                     MobileCard, NoCard, k
  <2> QED BY <1>1, <2>1 DEF Watch, Sync, QueryOf
<1>8. Told'
  BY <1>1 DEF Told
<1> QED BY <1>4, <1>5, <1>6, <1>7, <1>8 DEF CardsInv

(* The steps that move nothing of what the cards are drawn from. *)
LEMMA QuietKeeps ==
    ASSUME CardsInv, CardsFinish \/ Refetch \/ UNCHANGED cardVars
    PROVE  CardsInv'
<1>1. /\ answer' = answer \/ answer' = <<>>
      /\ asking' \subseteq asking \cup ({observed} \ {Nil}) /\ streaming' \in BOOLEAN
  BY DEF CardsFinish, Refetch, cardVars, refresh, CardsInv, CardsTypeOK
<1>2. UNCHANGED <<client, messages, made, override, observed, noticed, cached, fetched,
                  loading, routes, widget, stored, landing, cardHistory, reloads>>
  BY DEF CardsFinish, Refetch, cardVars, refresh
<1>3. <<>> \in Seq(Calls) /\ Range(<<>>) = {}
  BY LatestOfNone
<1>4. CardsTypeOK'
  BY <1>1, <1>2, <1>3 DEF CardsInv, CardsTypeOK, routes, cardHistory
<1>5. Mades' /\ Cleared' /\ Awaited' /\ Sync'
  <2>1. Range(answer') \subseteq Range(answer)
    BY <1>1, <1>3
  <2> QED BY <1>2, <2>1 DEF CardsInv, Mades, Cleared, Awaited, Sync, routes, cardHistory
<1>6. Shown' = Shown /\ L' = L /\ (Mobile' <=> Mobile)
  BY <1>2 DEF Shown, ArrivalsData, ArrivalsFromMessages, CardOfCall, Web, L, Mobile
<1>7. Watch' /\ Told'
  BY <1>1, <1>2, <1>6 DEF CardsInv, Watch, Told, cardHistory
<1> QED BY <1>4, <1>5, <1>7 DEF CardsInv

LEMMA Begins ==
    ASSUME CardsInit
    PROVE  CardsInv
<1>1. /\ messages = <<>> /\ override = NoCard /\ answer = <<>> /\ stored = <<>>
      /\ observed = Nil /\ noticed = Nil /\ cached = {} /\ gone = {} /\ started = {}
  BY DEF CardsInit
<1>2. /\ <<>> \in Seq(Calls) /\ Range(<<>>) = {} /\ NoCard \in Card
      /\ Latest(<<>>, Arrivals) = Nil
  BY LatestOfNone DEF NoCard, Card
<1>3. CardsTypeOK
  <2>1. reloads \in 0..MaxReloads
    BY Names DEF CardsInit
  <2> QED BY <1>1, <1>2, <2>1 DEF CardsInit, CardsTypeOK, Web
<1>4. Mades /\ Cleared /\ Sync
  BY <1>1, <1>2 DEF CardsInit, Mades, Cleared, Sync
<1>5. Awaited
  BY <1>1, <1>2 DEF Awaited
<1>6. Watch /\ Told
  <2>1. L = Nil
    BY <1>1, <1>2 DEF L
  <2>2. Shown.of = Nil
    BY <1>1, <2>1 DEF Shown, ArrivalsData, ArrivalsFromMessages, NoCard, L
  <2> QED BY <1>1, <2>1, <2>2 DEF Watch, Told, QueryOf
<1> QED BY <1>3, <1>4, <1>5, <1>6 DEF CardsInv

LEMMA CardsStay == CardsSpec => []CardsInv
<1>1. CardsInit => CardsInv
  BY Begins
<1>2. ASSUME CardsInv, [CardsNext]_cardVars
      PROVE  CardsInv'
  <2>1. CASE HandleSend \/ Chunk
    BY <1>2, <2>1, StreamWrites, WritingMeans
  <2>2. CASE WebClear \/ MobileClear
    BY <1>2, <2>2, ClearKeeps
  <2>3. CASE \/ \E c \in Arrivals : WebCallArrivals(c) \/ MobileCallArrivals(c)
             \/ \E r \in Routes : CallRoute(r)
    BY <1>2, <2>3, CallsWrite
  <2>4. CASE \E c \in Arrivals : Loaded(c)
    BY <1>2, <2>4, LoadedKeeps
  <2>5. CASE \E q \in Queries : Refetched(q) \/ \E found \in BOOLEAN : Looked(q, found)
    BY <1>2, <2>5, AnswerKeeps, LookedKeeps
  <2>6. CASE Reload
    BY <1>2, <2>6, ReloadKeeps
  <2>7. CASE CardsFinish \/ Refetch \/ UNCHANGED cardVars
    BY <1>2, <2>7, QuietKeeps
  <2> QED BY <1>2, <2>1, <2>2, <2>3, <2>4, <2>5, <2>6, <2>7 DEF CardsNext
<1> QED BY <1>1, <1>2, PTL DEF CardsSpec

(* Chats, cards and their loads stay well typed: what useArrivalsRefresh saw
   last is an answer to the query it observes, and a route being looked up is
   marked as asked for. *)
THEOREM CardsWellTyped == CardsSpec => []CardsTypeOK
<1>1. CardsInv => CardsTypeOK
  BY DEF CardsInv
<1> QED BY <1>1, CardsStay, PTL

(* An arrivals card shows its own call, in both clients: but for the latest
   one, which shows the override when a refresh of an earlier call set it
   after the last question. *)
THEOREM CardsShowTheirOwn == CardsSpec => []ShownIsLatest
<1>1. ASSUME CardsInv
      PROVE  ShownIsLatest
  <2>1. /\ messages \in Seq(Calls) /\ override \in Card /\ heard \subseteq Arrivals
        /\ override # NoCard => override.of \in heard
    BY <1>1 DEF CardsInv, CardsTypeOK, Mades
  <2>2. L \in Arrivals \cup {Nil} /\ Nil \notin Arrivals /\ Inline \subseteq Arrivals
    BY <2>1, LatestIsCall, Names DEF L, Calls
  <2>3. Shown.of = L \/ Shown.of \in heard
    BY <2>1, CardMeans DEF Shown, L
  <2>4. ASSUME NEW c \in Drawn \cap Arrivals
        PROVE  CardOf(c).of = c \/ (c = L /\ CardOf(c).of \in heard)
    <3>1. CASE c = L
      BY <2>3, <3>1 DEF CardOf, L
    <3>2. CASE c # L
      BY <3>2 DEF CardOf, CardOfCall, WebCard, MobileCard, L
    <3> QED BY <3>1, <3>2
  <2> QED BY <2>4 DEF ShownIsLatest, L
<1> QED BY <1>1, CardsStay, PTL

(* No route card spins without a lookup under way, after a failed one, a
   reload or a cleared chat neither: the marks of started lookups and the data
   of fetchedRoutes agree, but for a route cleared while it streamed. *)
THEOREM RouteCardsAreAwaited == CardsSpec => []RouteCardsAwaited
<1>1. ASSUME CardsInv, NEW r \in Routes \cap Drawn, RouteCard(r) = "spinner"
      PROVE  r \in looking \cup undead
  <2>1. r \in Range(messages)
    BY <1>1 DEF Drawn, WebDrawn, MobileDrawn
  <2>2. info[r] = Nil
    BY <1>1 DEF RouteCard, WebRouteCard, MobileRouteCard, CardsInv, CardsTypeOK
  <2>3. r \in started /\ r \notin gone
    BY <1>1, <2>1, <2>2 DEF CardsInv, Awaited, Cleared
  <2> QED BY <1>1, <2>2, <2>3 DEF CardsInv, Awaited
<1>2. CardsInv => RouteCardsAwaited
  BY <1>1 DEF RouteCardsAwaited
<1> QED BY <1>2, CardsStay, PTL

(* handleClear is final: what a chat held, but for an answer that streams
   still, is neither shown again, by the stream, nor restored by a reload. *)
THEOREM ClearedStaysGone == CardsSpec => []ClearedStaysCleared
<1>1. CardsInv => ClearedStaysCleared
  BY DEF CardsInv, Cleared, ClearedStaysCleared
<1> QED BY <1>1, CardsStay, PTL

(* The iOS widget and the latest card agree, whoever told the widget last:
   onToolCall, fetchArrivals or a refresh; but where it was told of another
   call than the latest one then. *)
THEOREM WidgetIsTold == CardsSpec => []WidgetFollows
<1>1. ASSUME CardsInv, Mobile, ~late, Shown.has, Shown.of = L
      PROVE  widget = L
  <2>1. /\ messages \in Seq(Calls) /\ override \in Card
        /\ override # NoCard => override.of \in heard /\ heard \subseteq Arrivals
    BY <1>1 DEF CardsInv, CardsTypeOK, Mades
  <2>2. CASE override # NoCard
    <3>1. Shown = override
      BY <2>1, <2>2, CardMeans DEF Shown
    <3>2. L # Nil
      BY <1>1, <2>1, <2>2, <3>1, Names DEF Calls
    <3> QED BY <1>1, <3>1, <3>2 DEF CardsInv, Told
  <2>3. CASE override = NoCard
    <3>1. L # Nil /\ L \in Inline \cup fetched
      <4>1. Shown = ArrivalsData(override, messages, fetched)
        BY DEF Shown
      <4> QED BY <1>1, <2>1, <2>3, <4>1, CardMeans DEF L
    <3> QED BY <1>1, <3>1 DEF CardsInv, Told
  <2> QED BY <2>2, <2>3
<1>2. MobileArrivalCard(Shown) = "stops" => Shown.has
  BY DEF MobileArrivalCard
<1>3. CardsInv => WidgetFollows
  BY <1>1, <1>2 DEF WidgetFollows, L
<1> QED BY <1>3, CardsStay, PTL
=============================================================================
