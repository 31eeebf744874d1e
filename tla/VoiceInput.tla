----------------------------- MODULE VoiceInput -----------------------------
(***************************************************************************)
(* Dictation in the mobile app: hooks/use-voice-input.ts over the native   *)
(* recognizer of expo-speech-recognition (external), and the sheet of      *)
(* components/chat/VoiceInputSheet.tsx that shows it.                      *)
(*                                                                         *)
(* start awaits twice, and what the recognizer says reaches the handlers   *)
(* later, in order.  A text is the sequence of its parts: words spoken,    *)
(* which are numbered, and Typed, what is typed by hand.  The volume is    *)
(* left out.                                                               *)
(***************************************************************************)
EXTENDS I18n, Integers, FiniteSets, Sequences, SequencesExt

CONSTANTS
    MaxWords,       \* bound on words spoken
    MaxHeard,       \* bound on events that the handlers have yet to see
    MaxStarts       \* bound on calls of start in flight

ASSUME VoiceInputAssumption ==
    MaxWords \in Nat /\ MaxHeard \in Nat /\ MaxStarts \in Nat

Off == "off"        \* the recognizer does not run
Typed == 0

VARIABLES
    visible,
    draft, base, edited,    \* the sheet; baseRef, editedRef
    status, transcript, interim, error,
    starts,         \* calls of start in flight; `mine`: sessionRef is theirs
    mic,            \* the language it listens in, or Off
    saying,         \* the word whose final result is to come
    spoken,         \* words spoken so far
    heard,          \* its events on their way
    twice,          \* the button was pressed to start what was starting or
                    \* listening, since the sheet appeared (history)
    late            \* a take was asked for while the final result of a word
                    \* before it was on its way, since the sheet appeared
                    \* (history)

sheet == <<visible, draft, base, edited>>
hook == <<status, transcript, interim, error, starts>>
native == <<mic, saying, spoken, heard>>
takes == <<twice, late>>
voice == <<sheet, hook, native, takes>>

Words == 1..MaxWords
Text == Seq(Words \cup {Typed})
Event(name) == [name |-> name, word |-> Typed]
Result(name, w) == [name |-> name, word |-> w]
Aborted == <<Event("aborted"), Event("end")>>
Start == [step : {"permission", "model"}, lang : Locales, mine : BOOLEAN]
Silent == <<>>

VoiceInit ==
    /\ visible = FALSE /\ draft = <<>> /\ base = <<>> /\ edited = FALSE
    /\ status = "idle" /\ transcript = <<>> /\ interim = <<>> /\ error = "none"
    /\ starts = {}
    /\ mic = Off /\ saying = Typed /\ spoken = 0 /\ heard = Silent
    /\ twice = FALSE /\ late = FALSE

isRecording == status \in {"starting", "listening"}
blocked == error = "blocked"        \* no permission, or no recognizer

(* The recognizer does not say to which take a result belongs. *)
ResultOnItsWay ==
    \E i \in DOMAIN heard : heard[i].name = "final" /\ heard[i].word # Typed

(* What can be tapped in the sheet. *)
Tappable ==
    IF ~visible THEN {}
    ELSE {"cancel"} \cup (IF draft # <<>> THEN {"done"} ELSE {})
                    \cup (IF blocked THEN {} ELSE {"text", "mic"})

-----------------------------------------------------------------------------
(* What the hook is asked for *)

NextSession == {[s EXCEPT !.mine = FALSE] : s \in starts}

start(lang) ==
    /\ Cardinality(starts) < MaxStarts
    /\ starts' = NextSession \cup {[step |-> "permission", lang |-> lang, mine |-> TRUE]}

(* The effect of the sheet on transcript and interim. *)
Show(b, e, d) ==
    draft' = IF e \/ <<transcript', interim'>> = <<transcript, interim>> THEN d
             ELSE b \o transcript' \o interim'

(* A recognizer that does not run says that it ended, or nothing. *)
stop ==
    /\ starts' = NextSession
    /\ \/ mic = Off /\ heard' = Append(heard, Event("end"))
       \/ UNCHANGED heard
    /\ UNCHANGED <<mic, saying, spoken>>

abort ==
    /\ mic' = Off /\ saying' = Typed
    /\ \/ heard' = heard \o Aborted
       \/ mic = Off /\ UNCHANGED heard
    /\ UNCHANGED spoken

(* The effect of the sheet on visible and locale: reset, and start. *)
Appear(v, lang) ==
    /\ Len(heard) + 2 <= MaxHeard
    /\ visible' = v
    /\ abort /\ twice' = FALSE /\ late' = ResultOnItsWay
    /\ transcript' = <<>> /\ interim' = <<>> /\ error' = "none"
    /\ IF v
       THEN /\ base' = <<>> /\ edited' = FALSE /\ draft' = <<>>
            /\ status' = "starting"
            /\ start(lang)
       ELSE /\ UNCHANGED <<base, edited>> /\ Show(base, edited, draft)
            /\ status' = "idle"
            /\ starts' = NextSession

-----------------------------------------------------------------------------
(* The rest of start *)

Rest(s) == starts' = starts \ {s}
Fail(e) == error' = e /\ status' = "stopped" /\ UNCHANGED native

\* mutant: the session is not looked at after the permission
Permission_AnySession(s) ==
    /\ s \in starts /\ s.step = "permission"
    /\ \/ starts' = (starts \ {s}) \cup {[s EXCEPT !.step = "model", !.mine = TRUE]}
          /\ UNCHANGED <<status, error, native>>
       \/ Rest(s) /\ Fail("blocked")
    /\ UNCHANGED <<sheet, transcript, interim, takes, i18n>>

Permission(s) ==
    /\ s \in starts /\ s.step = "permission"
    /\ \/ ~s.mine /\ Rest(s) /\ UNCHANGED <<status, error, native>>
       \/ s.mine /\ starts' = (starts \ {s}) \cup {[s EXCEPT !.step = "model"]}
          /\ UNCHANGED <<status, error, native>>
       \/ s.mine /\ Rest(s) /\ Fail("blocked")
    /\ UNCHANGED <<sheet, transcript, interim, takes, i18n>>

(* hasOnDeviceModel, whose answer is the recognizer's business.  One that
   runs ends its take first. *)
HasOnDeviceModel(s) ==
    /\ s \in starts /\ s.step = "model" /\ Len(heard) + 2 <= MaxHeard
    /\ Rest(s)
    /\ \/ ~s.mine /\ UNCHANGED <<status, error, native>>
       \/ /\ s.mine /\ mic' = s.lang /\ saying' = Typed
          /\ heard' = heard \o (IF mic = Off THEN <<>> ELSE <<Event("end")>>)
                           \o <<Event("start")>>
          /\ UNCHANGED <<status, error, spoken>>
       \/ s.mine /\ Fail("other")
    /\ UNCHANGED <<sheet, transcript, interim, takes, i18n>>

-----------------------------------------------------------------------------
(* The recognizer *)

Says(events) ==
    /\ mic # Off /\ Len(heard) + Len(events) <= MaxHeard
    /\ heard' = heard \o events
    /\ UNCHANGED <<sheet, hook, takes, i18n>>

Speak ==
    /\ saying = Typed /\ spoken < MaxWords
    /\ saying' = spoken + 1 /\ spoken' = spoken + 1
    /\ Says(<<Result("interim", spoken + 1)>>)
    /\ UNCHANGED mic

Understand ==
    /\ saying # Typed /\ saying' = Typed
    /\ Says(<<Result("final", saying)>>)
    /\ UNCHANGED <<mic, spoken>>

(* A result without text: the recognizer takes the word back, for good (if
   it hears it again, that is a new word).  Where no word is awaited such a
   result changes nothing. *)
TakeBack ==
    /\ saying # Typed /\ saying' = Typed
    /\ \E name \in {"interim", "final"} : Says(<<Result(name, Typed)>>)
    /\ UNCHANGED <<mic, spoken>>

(* It was stopped, or stops by itself, with or without a last result, which
   may be without text. *)
Cease ==
    /\ mic' = Off /\ saying' = Typed
    /\ \/ Says(<<Event("end")>>)
       \/ /\ saying # Typed
          /\ \E w \in {saying, Typed} : Says(<<Result("final", w), Event("end")>>)
       \/ \E e \in {"failed", "refused"} : Says(<<Event(e), Event("end")>>)
    /\ UNCHANGED spoken

-----------------------------------------------------------------------------
(* The handlers of its events *)

On(name) == heard # Silent /\ Head(heard).name = name /\ heard' = Tail(heard)

OnStart ==
    /\ On("start")
    /\ status' = "listening"
    /\ UNCHANGED <<sheet, transcript, interim, error, starts, mic, saying, spoken, takes, i18n>>

OnResult ==
    LET w == Head(heard).word
        text == IF w = Typed THEN <<>> ELSE <<w>> IN
    /\ \/ On("interim") /\ interim' = text /\ UNCHANGED transcript
       \/ On("final") /\ interim' = <<>> /\ transcript' = transcript \o text
    /\ Show(base, edited, draft)
    /\ UNCHANGED <<visible, base, edited, status, error, starts, mic, saying, spoken, takes, i18n>>

OnError ==
    /\ \/ On("aborted") /\ UNCHANGED error
       \/ On("failed") /\ error' = "other"
       \/ On("refused") /\ error' = "blocked"
    /\ status' = "stopped"
    /\ UNCHANGED <<sheet, transcript, interim, starts, mic, saying, spoken, takes, i18n>>

\* mutant: what is on screen is kept and still awaited
OnEnd_KeepsInterim ==
    /\ On("end")
    /\ transcript' = transcript \o interim /\ UNCHANGED interim
    /\ Show(base, edited, draft)
    /\ status' = IF status = "idle" THEN status ELSE "stopped"
    /\ UNCHANGED <<visible, base, edited, error, starts, mic, saying, spoken, takes, i18n>>

(* What is on screen is kept. *)
OnEnd ==
    /\ On("end")
    /\ transcript' = transcript \o interim /\ interim' = <<>>
    /\ Show(base, edited, draft)
    /\ status' = IF status = "idle" THEN status ELSE "stopped"
    /\ UNCHANGED <<visible, base, edited, error, starts, mic, saying, spoken, takes, i18n>>

-----------------------------------------------------------------------------
(* The sheet *)

(* The tap comes through the same queue as the recognizer's events, and
   after the abort of the last closing the recognizer says nothing more. *)
OpenSheet ==
    /\ ~visible /\ heard = Silent
    /\ Appear(TRUE, locale)
    /\ UNCHANGED i18n

(* Done or cancel: stop, and the sheet goes; the text of Done goes on to
   the input.  The abort follows the stop at once. *)
CloseSheet ==
    /\ Tappable \cap {"cancel", "done"} # {}
    /\ Appear(FALSE, locale)
    /\ UNCHANGED i18n

(* The text is deleted, or more is typed. *)
HandleChangeText ==
    /\ "text" \in Tappable /\ Len(heard) < MaxHeard
    /\ \/ draft # <<>> /\ draft' = <<>>
       \/ Typed \notin Range(draft) /\ draft' = Append(draft, Typed)
    /\ edited' = TRUE
    /\ IF isRecording THEN stop ELSE UNCHANGED <<starts, native>>
    /\ UNCHANGED <<visible, base, status, transcript, interim, error, takes, i18n>>

\* mutant: the transcript stays
HandleMicPress_KeepsTranscript ==
    /\ "mic" \in Tappable /\ Len(heard) < MaxHeard
    /\ IF isRecording
       THEN stop /\ UNCHANGED <<sheet, status, transcript, interim, error, takes>>
       ELSE /\ base' = draft /\ edited' = FALSE
            /\ UNCHANGED <<transcript, interim>>
            /\ Show(draft, FALSE, draft)
            /\ status' = "starting" /\ error' = "none"
            /\ start(locale)
            /\ twice' = (twice \/ mic # Off \/ \E s \in starts : s.mine)
            /\ late' = (late \/ ResultOnItsWay)
            /\ UNCHANGED <<visible, native>>
    /\ UNCHANGED i18n

(* Stop, or go on: the next take is appended to what there is. *)
HandleMicPress ==
    /\ "mic" \in Tappable /\ Len(heard) < MaxHeard
    /\ IF isRecording
       THEN stop /\ UNCHANGED <<sheet, status, transcript, interim, error, takes>>
       ELSE /\ base' = draft /\ edited' = FALSE
            /\ transcript' = <<>> /\ interim' = <<>>
            /\ Show(draft, FALSE, draft)
            /\ status' = "starting" /\ error' = "none"
            /\ start(locale)
            /\ twice' = (twice \/ mic # Off \/ \E s \in starts : s.mine)
            /\ late' = (late \/ ResultOnItsWay)
            /\ UNCHANGED <<visible, native>>
    /\ UNCHANGED i18n

VoiceNext ==
    \/ OpenSheet \/ CloseSheet \/ HandleChangeText \/ HandleMicPress
    \/ \E s \in starts : Permission(s) \/ HasOnDeviceModel(s)
    \/ Speak \/ Understand \/ TakeBack \/ Cease
    \/ OnStart \/ OnResult \/ OnError \/ OnEnd

-----------------------------------------------------------------------------
VoiceTypeOK ==
    /\ visible \in BOOLEAN /\ edited \in BOOLEAN
    /\ twice \in BOOLEAN /\ late \in BOOLEAN
    /\ draft \in Text /\ base \in Text
    /\ transcript \in Text /\ interim \in Text
    /\ status \in {"idle", "starting", "listening", "stopped"}
    /\ error \in {"none", "blocked", "other"}
    /\ starts \subseteq Start
    /\ mic \in Locales \cup {Off}
    /\ saying \in 0..spoken /\ spoken \in 0..MaxWords
    /\ heard \in Seq([name : {"start", "interim", "final", "aborted", "failed",
                              "refused", "end"}, word : 0..MaxWords])

(* The microphone is open only while the sheet shows, it listens in the
   language of the app: no start that was overtaken opens it.  Once its
   events have come the button says that it is open, unless it had been
   pressed to start a second time, which a late event of the take before
   makes possible: a failure of the second start then hides the first. *)
MicIsShown ==
    mic # Off => /\ visible /\ mic = locale
                 /\ heard = Silent /\ ~twice => status = "listening"

(* A result without text is handled: the word on screen is no longer awaited. *)
Unsaid == OnResult /\ Head(heard).word = Typed

(* While the sheet shows, what is in it stays and each word comes once,
   however the takes end, unless the user types, the language of the app
   arrives, or two takes overlap: the button was pressed to start a second
   time, or a take was asked for before the last result of another came.
   Results name no session, so the word that was on screen comes again.
   Only a result without text takes something away, and no more than the
   word that was not final. *)
SpokenOnceAndKept ==
    [][visible /\ visible' /\ locale' = locale /\ ~twice /\ ~late =>
        \/ HandleChangeText
        \/ /\ IsPrefix(draft, draft') \/ (Unsaid /\ draft = draft' \o interim)
           /\ \A i, j \in DOMAIN draft' : draft'[i] = draft'[j] => i = j]_voice
=============================================================================
