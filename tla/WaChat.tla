------------------------------- MODULE WaChat -------------------------------
(***************************************************************************)
(* internal/whatsapp/handler.go, internal/chat/repository.go and ai.go:    *)
(* every webhook message is a turn, a goroutine of its own that loads the  *)
(* history, talks to the model, stores two messages, replies and at last   *)
(* compresses the history.  Turns share the AIClient, whose sendFunc is    *)
(* one field for all of them, and the table chat_messages.                 *)
(*                                                                         *)
(* A transaction runs at READ COMMITTED: each statement sees the rows that *)
(* are committed when it starts, and created_at is the time of BEGIN.  The *)
(* sender's promise to its callers is WaOutbox; here SendMessage only      *)
(* returns.                                                                *)
(***************************************************************************)
EXTENDS Integers, FiniteSets

CONSTANTS
    Turns,          \* the messages the webhook delivers
    Jids,           \* the chats
    Jid,            \* Jid[t]: the chat that t belongs to
    MaxMessages,    \* Repository.maxMessages
    MaxTools,       \* maxToolIterations
    MaxFaults       \* bound on crashes and database errors

ASSUME WaChatAssumption ==
    /\ IsFiniteSet(Turns)
    /\ Jid \in [Turns -> Jids]
    /\ MaxMessages \in Nat \ {0}
    /\ MaxTools \in Nat \ {0}
    /\ MaxFaults \in Nat

Nobody == "nobody"
ASSUME NobodyAssumption == Nobody \notin Jids

VARIABLES
    pc,         \* where the goroutine of each turn is
    rounds,     \* tool iterations of Chat
    sendFunc,   \* AIClient.sendFunc: the chat the closure sends to
    rows,       \* committed rows of chat_messages
    tx,         \* the transaction each goroutine has open
    seen,       \* the history compressIfNeeded loaded
    clock,      \* orders created_at
    sent,       \* <<t, j>>: Chat of t sent a message to j (history)
    met,        \* turns that ran at the same time (history)
    saved,      \* rows ever committed (history)
    trimmed,    \* rows the window pushed out (history)
    summed,     \* rows a stored summary covers (history)
    faults      \* faults so far

chat == <<rounds, sendFunc, sent>>
table == <<rows, tx, clock, saved, trimmed, summed>>
vars == <<pc, chat, table, seen, met, faults>>

Working == {"load", "guard", "ask", "tool", "saveUser", "saveReply", "reply",
            "count", "reload", "summarise", "replace"}
Steps == Working \cup {"new", "ignored", "done", "lost"}

(* The role each transaction stores its row under. *)
Role == [saveUser |-> "user", saveReply |-> "assistant", replace |-> "system"]
(* What a goroutine does once its transaction is over, whatever came of it. *)
After == [saveUser |-> "saveReply", saveReply |-> "reply", replace |-> "done"]

Row == [turn : Turns, role : {"user", "assistant", "system"}, at : Nat]
NoTx == [phase |-> "none"]
Open(r) == [phase |-> "open", row |-> r]
Deleting(r, doomed, locks) ==
    [phase |-> "deleting", row |-> r, victims |-> doomed, after |-> locks]

Init ==
    /\ pc = [t \in Turns |-> "new"]
    /\ rounds = [t \in Turns |-> 0]
    /\ sendFunc = Nobody
    /\ rows = {}
    /\ tx = [t \in Turns |-> NoTx]
    /\ seen = [t \in Turns |-> {}]
    /\ clock = 0
    /\ sent = {}
    /\ met = {}
    /\ saved = {}
    /\ trimmed = {}
    /\ summed = {}
    /\ faults = 0

Fault == faults < MaxFaults /\ faults' = faults + 1

InChat(S, j) == {r \in S : Jid[r.turn] = j}

(* ORDER BY created_at DESC LIMIT maxMessages *)
Newest(S) == {r \in S : Cardinality({s \in S : s.at > r.at}) < MaxMessages}

Goto(t, step) == pc' = [pc EXCEPT ![t] = step]

-----------------------------------------------------------------------------
(* ServeHTTP and processMessage *)

(* A message without text ends processMessage at once. *)
Receive(t) ==
    /\ pc[t] = "new"
    /\ \E step \in {"load", "ignored"} : Goto(t, step)
    /\ met' = met \cup {{t, u} : u \in {v \in Turns : pc[v] \in Working}}
    /\ UNCHANGED <<chat, table, seen, faults>>

\* mutant: an error of GetHistory ends processMessage
Load_ErrorReturns(t) ==
    /\ pc[t] = "load"
    /\ \/ Goto(t, "guard") /\ sendFunc' = Jid[t]
       \/ Goto(t, "ignored") /\ UNCHANGED sendFunc
    /\ UNCHANGED <<rounds, sent, table, seen, met, faults>>

\* mutant: sendFunc is set by the first Chat only
Load_SetOnce(t) ==
    /\ pc[t] = "load"
    /\ Goto(t, "guard")
    /\ sendFunc' = IF sendFunc = Nobody THEN Jid[t] ELSE sendFunc
    /\ UNCHANGED <<rounds, sent, table, seen, met, faults>>

(* GetHistory, whose error only leaves the history empty, and the first
   line of Chat: sendFunc is overwritten. *)
Load(t) ==
    /\ pc[t] = "load"
    /\ Goto(t, "guard")
    /\ sendFunc' = Jid[t]
    /\ UNCHANGED <<rounds, sent, table, seen, met, faults>>

(* isBusQuery: go on, or answer with the fixed refusal or the apology. *)
Guard(t) ==
    /\ pc[t] = "guard"
    /\ \E step \in {"ask", "saveUser"} : Goto(t, step)
    /\ UNCHANGED <<chat, table, seen, met, faults>>

(* callCompletions: tool calls, or an answer or an error that ends Chat. *)
Ask(t) ==
    /\ pc[t] = "ask"
    /\ \E step \in {"tool", "saveUser"} : Goto(t, step)
    /\ UNCHANGED <<chat, table, seen, met, faults>>

(* The tool send_message, among the tool calls of one answer. *)
SendTool(t) ==
    /\ pc[t] = "tool"
    /\ sent' = sent \cup {<<t, sendFunc>>}
    /\ UNCHANGED <<pc, rounds, sendFunc, table, seen, met, faults>>

(* All tool calls of the answer are done: the next iteration, or the error
   "exceeded max tool iterations". *)
NextRound(t) ==
    /\ pc[t] = "tool"
    /\ rounds' = [rounds EXCEPT ![t] = @ + 1]
    /\ Goto(t, IF rounds[t] + 1 < MaxTools THEN "ask" ELSE "saveUser")
    /\ UNCHANGED <<sendFunc, sent, table, seen, met, faults>>

(* SendMessage of the response returns; compressIfNeeded takes over. *)
Reply(t) ==
    /\ pc[t] = "reply"
    /\ Goto(t, "count")
    /\ UNCHANGED <<chat, table, seen, met, faults>>

-----------------------------------------------------------------------------
(* Repository: the transactions of SaveMessage and CompressMessages *)

(* BEGIN, and INSERT in SaveMessage: the row has its created_at. *)
Begin(t) ==
    /\ pc[t] \in DOMAIN Role
    /\ tx[t] = NoTx
    /\ clock' = clock + 1
    /\ tx' = [tx EXCEPT ![t] =
                 Open([turn |-> t, role |-> Role[pc[t]], at |-> clock + 1])]
    /\ UNCHANGED <<pc, chat, rows, saved, trimmed, summed, seen, met, faults>>

\* mutant: ORDER BY created_at ASC keeps the oldest
Doomed_Oldest(t) ==
    LET visible == InChat(rows, Jid[t]) \cup {tx[t].row}
    IN  IF pc[t] = "replace" THEN InChat(rows, Jid[t])
        ELSE {r \in visible : Cardinality({s \in visible : s.at < r.at}) >= MaxMessages}

\* mutant: nothing is trimmed
Doomed_Nothing(t) == IF pc[t] = "replace" THEN InChat(rows, Jid[t]) ELSE {}

(* The rows the DELETE statement matches: all of the chat's in
   CompressMessages, those beyond the window in SaveMessage. *)
Doomed(t) ==
    LET visible == InChat(rows, Jid[t]) \cup {tx[t].row}
    IN  IF pc[t] = "replace" THEN InChat(rows, Jid[t]) ELSE visible \ Newest(visible)

(* DELETE starts.  It will wait for transactions that delete the same rows. *)
Delete(t) ==
    /\ tx[t].phase = "open"
    /\ tx' = [tx EXCEPT ![t] =
                 Deleting(@.row, Doomed(t),
                          {u \in Turns : tx[u].phase = "deleting"
                                         /\ tx[u].victims \cap Doomed(t) # {}})]
    /\ UNCHANGED <<pc, chat, rows, clock, saved, trimmed, summed, seen, met, faults>>

(* The transaction of t is over and the goroutine goes on: errors are only
   logged.  Who waited for its rows waits no more. *)
Finish(t) ==
    /\ tx' = [u \in Turns |->
                IF u = t THEN NoTx
                ELSE IF tx[u].phase = "deleting"
                     THEN [tx[u] EXCEPT !.after = @ \ {t}] ELSE tx[u]]
    /\ Goto(t, After[pc[t]])

(* DELETE ends, INSERT in CompressMessages, COMMIT. *)
Commit(t) ==
    /\ tx[t].phase = "deleting"
    /\ tx[t].after = {}
    /\ rows' = (rows \cup {tx[t].row}) \ tx[t].victims
    /\ saved' = saved \cup {tx[t].row}
    /\ IF pc[t] = "replace"
       THEN summed' = summed \cup seen[t] /\ UNCHANGED trimmed
       ELSE trimmed' = trimmed \cup (tx[t].victims \cap saved') /\ UNCHANGED summed
    /\ Finish(t)
    /\ UNCHANGED <<chat, clock, seen, met, faults>>

(* A statement fails, or BEGIN does: nothing is stored. *)
Rollback(t) ==
    /\ pc[t] \in DOMAIN Role
    /\ Fault
    /\ Finish(t)
    /\ UNCHANGED <<chat, rows, clock, saved, trimmed, summed, seen, met>>

-----------------------------------------------------------------------------
(* compressIfNeeded *)

Count(t) ==
    /\ pc[t] = "count"
    /\ \/ /\ Goto(t, IF Cardinality(InChat(rows, Jid[t])) < MaxMessages
                     THEN "done" ELSE "reload")
          /\ UNCHANGED faults
       \/ Fault /\ Goto(t, "done")
    /\ UNCHANGED <<chat, table, seen, met>>

\* mutant: the history for the summary has one message less
Reload_Short(t) ==
    /\ pc[t] = "reload"
    /\ Goto(t, "summarise")
    /\ seen' = [seen EXCEPT ![t] =
                  LET all == InChat(rows, Jid[t])
                  IN  {r \in all : \E s \in all : s.at < r.at}]
    /\ UNCHANGED <<chat, table, met, faults>>

(* GetHistory *)
Reload(t) ==
    /\ pc[t] = "reload"
    /\ \/ /\ Goto(t, "summarise")
          /\ seen' = [seen EXCEPT ![t] = Newest(InChat(rows, Jid[t]))]
          /\ UNCHANGED faults
       \/ Fault /\ Goto(t, "done") /\ UNCHANGED seen
    /\ UNCHANGED <<chat, table, met>>

(* CompressHistory: a summary, or an error that ends the goroutine. *)
Summarise(t) ==
    /\ pc[t] = "summarise"
    /\ \E step \in {"replace", "done"} : Goto(t, step)
    /\ UNCHANGED <<chat, table, seen, met, faults>>

-----------------------------------------------------------------------------
(* The process exits: its goroutines are gone, its transactions roll back. *)
Crash ==
    /\ Fault
    /\ pc' = [t \in Turns |-> IF pc[t] \in Working THEN "lost" ELSE pc[t]]
    /\ tx' = [t \in Turns |-> NoTx]
    /\ sendFunc' = Nobody
    /\ UNCHANGED <<rounds, sent, rows, clock, saved, trimmed, summed, seen, met>>

Turn(t) ==
    \/ Load(t) \/ Guard(t) \/ Ask(t) \/ SendTool(t) \/ NextRound(t) \/ Reply(t)
    \/ Begin(t) \/ Delete(t) \/ Commit(t) \/ Rollback(t)
    \/ Count(t) \/ Reload(t) \/ Summarise(t)

Next ==
    \/ \E t \in Turns : Receive(t) \/ Turn(t)
    \/ Crash

Spec == Init /\ [][Next]_vars

(* A goroutine runs on; the model and the database answer. *)
FairSpec == Spec /\ \A t \in Turns : WF_vars(Turn(t))

-----------------------------------------------------------------------------
(* Type invariant. *)
TypeOK ==
    /\ pc \in [Turns -> Steps]
    /\ rounds \in [Turns -> 0..MaxTools]
    /\ sendFunc \in Jids \cup {Nobody}
    /\ rows \subseteq Row /\ saved \subseteq Row
    /\ trimmed \subseteq Row /\ summed \subseteq Row
    /\ \A t \in Turns :
          /\ tx[t].phase \in {"none", "open", "deleting"}
          /\ tx[t].phase # "none" => tx[t].row \in Row
          /\ tx[t].phase = "deleting" =>
                tx[t].victims \subseteq Row /\ tx[t].after \subseteq Turns
          /\ tx[t].phase # "none" => pc[t] \in DOMAIN Role
          /\ seen[t] \subseteq Row
    /\ clock \in Nat
    /\ sent \subseteq Turns \X (Jids \cup {Nobody})
    /\ met \subseteq SUBSET Turns
    /\ faults \in 0..MaxFaults

(* A chat's table stays within its window, but for one row for every turn
   of the chat beyond the first: saves that overlap do not see each other's
   rows when they trim (SaveMessage). *)
WindowBounded ==
    \A j \in Jids : LET users == {t \in Turns : Jid[t] = j}
                    IN  Cardinality(InChat(rows, j)) <= MaxMessages + Cardinality(users) - 1

(* The window pushes a message out only for MaxMessages newer ones. *)
TrimmedHaveSuccessors ==
    \A r \in trimmed : Cardinality({s \in InChat(saved, Jid[r.turn]) : s.at > r.at})
                       >= MaxMessages

(* A chat whose turns never overlap forgets nothing: a message that was
   stored is still there, was pushed out of the window or is in a stored
   summary (compressIfNeeded, CompressMessages). *)
Overlapped(j) == \E t, u \in Turns : t # u /\ Jid[t] = j /\ Jid[u] = j /\ {t, u} \in met
Kept(r) == r \in rows \cup trimmed \cup summed
QuietChatsForgetNothing ==
    \A j \in Jids : ~Overlapped(j) => \A r \in InChat(saved, j) : Kept(r)

(* send_message reaches another chat only if a turn of that chat ran beside
   this one (AIClient.sendFunc). *)
CrossTalkNeedsOverlap ==
    \A s \in sent : Jid[s[1]] # s[2] =>
        \E u \in Turns : Jid[u] = s[2] /\ {s[1], u} \in met

(* Every message with text is answered, by the model, the refusal or the
   apology, unless the process dies: no error on the way ends the turn. *)
Replied == {"count", "reload", "summarise", "replace", "done", "lost"}
EveryTurnReplies == \A t \in Turns : pc[t] = "load" ~> pc[t] \in Replied

(* ai.go:104: sendFn "enables the send_message tool to immediately reply to
   the user": the tool writes to the chat the turn came from. *)
SendToolRepliesToUser == \A s \in sent : Jid[s[1]] = s[2]
=============================================================================
