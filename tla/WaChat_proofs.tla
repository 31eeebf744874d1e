---------------------------- MODULE WaChat_proofs ----------------------------
(***************************************************************************)
(* What bounds the damage of the shared AIClient.sendFunc: a message for   *)
(* another chat needs a turn of that chat running beside this one.  The    *)
(* invariant behind it: whoever is inside Chat finds in sendFunc its own   *)
(* closure or that of a turn it overlaps.                                  *)
(* And what overlapping saves do to the window of stored messages: how far *)
(* it is exceeded, what is pushed out, what a quiet chat keeps.            *)
(***************************************************************************)
EXTENDS WaChat, FiniteSetTheorems, WellFoundedInduction, TLAPS

InsideChat == {"guard", "ask", "tool"}
Meets == \A t, u \in Turns :
            t # u /\ pc[t] \in Working /\ pc[u] \in Working => {t, u} \in met
Field == \A t \in Turns : pc[t] \in InsideChat =>
            \E u \in Turns : sendFunc = Jid[u] /\ (u = t \/ {t, u} \in met)
Pcs == pc \in [Turns -> Steps]
(* Only a goroutine that stores a row has a transaction open. *)
Busy == /\ DOMAIN tx = Turns
        /\ \A t \in Turns : tx[t] # NoTx => pc[t] \in DOMAIN Role
SInv == Pcs /\ Meets /\ Field /\ CrossTalkNeedsOverlap

(* A step that starts no turn and touches neither the field nor the sends. *)
LEMMA Aside ==
    ASSUME SInv, NEW t \in Turns, NEW step \in Steps, Goto(t, step),
           pc[t] \in Working, step \in InsideChat => pc[t] \in InsideChat,
           met' = met, sendFunc' = sendFunc, sent' = sent
    PROVE  SInv'
<1>1. \A u \in Turns : pc'[u] = IF u = t THEN step ELSE pc[u]
  BY DEF SInv, Pcs, Goto
<1>2. Pcs'
  BY DEF SInv, Pcs, Goto
<1>3. Meets'
  BY <1>1 DEF SInv, Meets
<1>4. Field'
  BY <1>1 DEF SInv, Field
<1>5. CrossTalkNeedsOverlap'
  BY DEF SInv, CrossTalkNeedsOverlap
<1> QED BY <1>2, <1>3, <1>4, <1>5 DEF SInv

LEMMA ReceiveKeeps ==
    ASSUME SInv, NEW t \in Turns, Receive(t)
    PROVE  SInv'
<1>1. PICK step \in {"load", "ignored"} : Goto(t, step)
  BY DEF Receive
<1>2. \A u \in Turns : pc'[u] = IF u = t THEN step ELSE pc[u]
  BY <1>1 DEF SInv, Pcs, Goto
<1>3. /\ met' = met \cup {{t, u} : u \in {v \in Turns : pc[v] \in Working}}
      /\ sendFunc' = sendFunc /\ sent' = sent
  BY DEF Receive, chat
<1>4. Pcs'
  BY <1>1 DEF SInv, Pcs, Goto, Steps, Working
<1>5. Meets'
  <2> SUFFICES ASSUME NEW v \in Turns, NEW u \in Turns, v # u,
                      pc'[v] \in Working, pc'[u] \in Working
               PROVE  {v, u} \in met'
    BY DEF Meets
  <2>1. CASE v = t
    BY <1>2, <1>3, <2>1
  <2>2. CASE u = t
    <3>1. {v, u} = {t, v}
      BY <2>2
    <3> QED BY <1>2, <1>3, <2>2, <3>1
  <2>3. CASE v # t /\ u # t
    BY <1>2, <1>3, <2>3 DEF SInv, Meets
  <2> QED BY <2>1, <2>2, <2>3
<1>6. Field'
  BY <1>1, <1>2, <1>3 DEF SInv, Field, InsideChat
<1>7. CrossTalkNeedsOverlap'
  BY <1>3 DEF SInv, CrossTalkNeedsOverlap
<1> QED BY <1>4, <1>5, <1>6, <1>7 DEF SInv

LEMMA LoadKeeps ==
    ASSUME SInv, NEW t \in Turns, Load(t)
    PROVE  SInv'
<1>1. /\ pc[t] = "load" /\ pc' = [pc EXCEPT ![t] = "guard"]
      /\ sendFunc' = Jid[t] /\ met' = met /\ sent' = sent
  BY DEF Load, Goto
<1>2. \A u \in Turns : pc'[u] = IF u = t THEN "guard" ELSE pc[u]
  BY <1>1 DEF SInv, Pcs
<1>3. Pcs'
  BY <1>1 DEF SInv, Pcs, Steps, Working
<1>4. Meets'
  BY <1>1, <1>2 DEF SInv, Meets, Working
<1>5. Field'
  <2> SUFFICES ASSUME NEW u \in Turns, pc'[u] \in InsideChat
               PROVE  sendFunc' = Jid[t] /\ (t = u \/ {u, t} \in met')
    BY DEF Field
  <2>1. CASE u # t
    <3>1. pc[u] \in Working /\ pc[t] \in Working
      BY <1>1, <1>2, <2>1 DEF InsideChat, Working
    <3> QED BY <1>1, <2>1, <3>1 DEF SInv, Meets
  <2> QED BY <1>1, <2>1
<1>6. CrossTalkNeedsOverlap'
  BY <1>1 DEF SInv, CrossTalkNeedsOverlap
<1> QED BY <1>3, <1>4, <1>5, <1>6 DEF SInv

LEMMA SendToolKeeps ==
    ASSUME SInv, NEW t \in Turns, SendTool(t)
    PROVE  SInv'
<1>1. /\ pc' = pc /\ sendFunc' = sendFunc /\ met' = met
      /\ sent' = sent \cup {<<t, sendFunc>>} /\ pc[t] = "tool"
  BY DEF SendTool
<1>2. PICK u \in Turns : sendFunc = Jid[u] /\ (u = t \/ {t, u} \in met)
  BY <1>1 DEF SInv, Field, InsideChat
<1>3. CrossTalkNeedsOverlap'
  <2> SUFFICES ASSUME NEW s \in sent', Jid[s[1]] # s[2]
               PROVE  \E v \in Turns : Jid[v] = s[2] /\ {s[1], v} \in met'
    BY DEF CrossTalkNeedsOverlap
  <2>1. CASE s \in sent
    BY <1>1, <2>1 DEF SInv, CrossTalkNeedsOverlap
  <2>2. CASE s = <<t, sendFunc>>
    BY <1>1, <1>2, <2>2
  <2> QED BY <1>1, <2>1, <2>2
<1> QED BY <1>1, <1>3 DEF SInv, Pcs, Meets, Field

LEMMA FinishesKeep ==
    ASSUME SInv, NEW t \in Turns, Commit(t) \/ Rollback(t), pc[t] \in DOMAIN Role
    PROVE  SInv'
<1>1. Goto(t, After[pc[t]]) /\ met' = met /\ sendFunc' = sendFunc /\ sent' = sent
  BY DEF Commit, Rollback, Finish, chat
<1>2. pc[t] \in {"saveUser", "saveReply", "replace"}
  BY DEF Role
<1>3. After[pc[t]] \in {"saveReply", "reply", "done"} /\ pc[t] \in Working
  BY <1>2 DEF After, Working
<1>4. After[pc[t]] \in Steps /\ After[pc[t]] \notin InsideChat
  BY <1>3 DEF Steps, Working, InsideChat
<1> QED BY <1>1, <1>3, <1>4, Aside

LEMMA CrashKeeps ==
    ASSUME SInv, Crash
    PROVE  SInv'
<1>1. /\ pc' = [t \in Turns |-> IF pc[t] \in Working THEN "lost" ELSE pc[t]]
      /\ met' = met /\ sent' = sent
  BY DEF Crash
<1>2. Pcs'
  BY <1>1 DEF SInv, Pcs, Steps
<1>3. \A t \in Turns : pc'[t] \notin Working /\ pc'[t] \notin InsideChat
  BY <1>1 DEF Working, InsideChat
<1>4. Meets' /\ Field'
  BY <1>3 DEF Meets, Field
<1>5. CrossTalkNeedsOverlap'
  BY <1>1 DEF SInv, CrossTalkNeedsOverlap
<1> QED BY <1>2, <1>4, <1>5 DEF SInv

LEMMA BusyKeeps ==
    ASSUME Pcs, Busy, [Next]_vars
    PROVE  Busy'
<1>1. ASSUME NEW t \in Turns, pc[t] \notin DOMAIN Role, NEW step, Goto(t, step), tx' = tx
      PROVE  Busy'
  BY <1>1 DEF Pcs, Busy, Goto
<1>2. ASSUME NEW t \in Turns, NEW new, tx' = [tx EXCEPT ![t] = new], pc' = pc,
             pc[t] \in DOMAIN Role
      PROVE  Busy'
  BY <1>2 DEF Busy
<1>3. ASSUME NEW t \in Turns, Finish(t)
      PROVE  Busy'
  <2>1. \A u \in Turns : tx'[u] # NoTx => u # t /\ tx[u] # NoTx
    BY <1>3 DEF Finish, NoTx
  <2>2. \A u \in Turns \ {t} : pc'[u] = pc[u]
    BY <1>3 DEF Finish, Goto, Pcs
  <2> QED BY <1>3, <2>1, <2>2 DEF Finish, Busy
<1>4. ASSUME NEW t \in Turns, Receive(t)
      PROVE  Busy'
  <2>1. pc[t] \notin DOMAIN Role /\ tx' = tx
    BY <1>4 DEF Receive, Role, table
  <2> QED BY <1>1, <1>4, <2>1 DEF Receive
<1>5. ASSUME NEW t \in Turns, Load(t) \/ Guard(t) \/ Ask(t) \/ NextRound(t) \/ Reply(t)
      PROVE  Busy'
  <2>1. pc[t] \notin DOMAIN Role /\ tx' = tx
    BY <1>5 DEF Load, Guard, Ask, NextRound, Reply, Role, table
  <2> QED BY <1>1, <1>5, <2>1 DEF Load, Guard, Ask, NextRound, Reply
<1>6. ASSUME NEW t \in Turns, Count(t) \/ Reload(t) \/ Summarise(t)
      PROVE  Busy'
  <2>1. pc[t] \notin DOMAIN Role /\ tx' = tx
    BY <1>6 DEF Count, Reload, Summarise, Role, table
  <2> QED BY <1>1, <1>6, <2>1 DEF Count, Reload, Summarise
<1>7. ASSUME NEW t \in Turns, SendTool(t)
      PROVE  Busy'
  BY <1>7 DEF SendTool, table, Busy
<1>8. ASSUME NEW t \in Turns, Begin(t)
      PROVE  Busy'
  BY <1>2, <1>8 DEF Begin
<1>9. ASSUME NEW t \in Turns, Delete(t)
      PROVE  Busy'
  <2>1. pc[t] \in DOMAIN Role
    BY <1>9 DEF Delete, Busy, NoTx
  <2> QED BY <1>2, <1>9, <2>1 DEF Delete
<1>10. ASSUME NEW t \in Turns, Commit(t) \/ Rollback(t)
       PROVE  Busy'
  BY <1>3, <1>10 DEF Commit, Rollback
<1>11. CASE Crash
  BY <1>11 DEF Crash, Busy
<1>12. CASE UNCHANGED vars
  BY <1>12 DEF vars, table, Busy
<1> QED BY <1>4, <1>5, <1>6, <1>7, <1>8, <1>9, <1>10, <1>11, <1>12 DEF Next, Turn

LEMMA StepKeeps ==
    ASSUME SInv, Busy, [Next]_vars
    PROVE  SInv'
<1>1. ASSUME NEW t \in Turns, Guard(t) \/ Ask(t) \/ NextRound(t) \/ Reply(t)
      PROVE  SInv'
  <2>1. PICK step \in {"ask", "tool", "saveUser", "count"} : Goto(t, step)
    BY <1>1 DEF Guard, Ask, NextRound, Reply
  <2>2. /\ pc[t] \in Working /\ (step \in InsideChat => pc[t] \in InsideChat)
        /\ step \in Steps
    <3>1. CASE Reply(t)
      <4>1. step = "count"
        BY <2>1, <3>1 DEF Reply, Goto, SInv, Pcs
      <4> QED BY <3>1, <4>1 DEF Reply, InsideChat, Working, Steps
    <3> QED BY <1>1, <3>1 DEF Guard, Ask, NextRound, InsideChat, Working, Steps
  <2>3. met' = met /\ sendFunc' = sendFunc /\ sent' = sent
    BY <1>1 DEF Guard, Ask, NextRound, Reply, chat
  <2> QED BY <2>1, <2>2, <2>3, Aside
<1>2. ASSUME NEW t \in Turns, Count(t) \/ Reload(t) \/ Summarise(t)
      PROVE  SInv'
  <2>1. PICK step \in {"done", "reload", "summarise", "replace"} : Goto(t, step)
    BY <1>2 DEF Count, Reload, Summarise
  <2>2. step \in Steps /\ step \notin InsideChat
    BY DEF Steps, Working, InsideChat
  <2>3. pc[t] \in Working
    BY <1>2 DEF Count, Reload, Summarise, Working
  <2>4. met' = met /\ sendFunc' = sendFunc /\ sent' = sent
    BY <1>2 DEF Count, Reload, Summarise, chat
  <2> QED BY <2>1, <2>2, <2>3, <2>4, Aside
<1>3. ASSUME NEW t \in Turns, Commit(t) \/ Rollback(t)
      PROVE  SInv'
  <2>1. pc[t] \in DOMAIN Role
    BY <1>3 DEF Commit, Rollback, Busy, NoTx
  <2> QED BY <1>3, <2>1, FinishesKeep
<1>4. ASSUME NEW t \in Turns, Begin(t) \/ Delete(t)
      PROVE  SInv'
  <2>1. pc' = pc /\ met' = met /\ sendFunc' = sendFunc /\ sent' = sent
    BY <1>4 DEF Begin, Delete, chat
  <2> QED BY <2>1 DEF SInv, Pcs, Meets, Field, CrossTalkNeedsOverlap
<1>5. CASE UNCHANGED vars
  BY <1>5 DEF vars, chat, SInv, Pcs, Meets, Field, CrossTalkNeedsOverlap
<1> QED BY <1>1, <1>2, <1>3, <1>4, <1>5, ReceiveKeeps, LoadKeeps, SendToolKeeps, CrashKeeps
        DEF Next, Turn

(* send_message reaches another chat only if a turn of that chat ran beside
   this one (ai.go: Chat overwrites sendFunc, executeTool reads it). *)
THEOREM CrossTalkBounded == Spec => []CrossTalkNeedsOverlap
<1>1. Init => SInv /\ Busy
  BY DEF Init, SInv, Pcs, Meets, Field, CrossTalkNeedsOverlap, Busy, Steps, Working,
         InsideChat
<1>2. SInv /\ Busy /\ [Next]_vars => SInv' /\ Busy'
  BY StepKeeps, BusyKeeps DEF SInv
<1>3. SInv => CrossTalkNeedsOverlap
  BY DEF SInv
<1> QED BY <1>1, <1>2, <1>3, PTL DEF Spec
-----------------------------------------------------------------------------
(* Before it stores, a turn has a tool iteration left. *)
Early == {"new", "load", "guard", "ask", "tool"}
Rounds == /\ rounds \in [Turns -> 0..MaxTools]
          /\ \A t \in Turns : pc[t] \in Early => rounds[t] < MaxTools

TxOK(x) == \/ x = NoTx
           \/ \E r \in Row : x = Open(r)
           \/ \E r \in Row, doomed \in SUBSET Row, locks \in SUBSET Turns :
                x = Deleting(r, doomed, locks)
Tables == /\ rows \subseteq Row /\ saved \subseteq Row
          /\ trimmed \subseteq Row /\ summed \subseteq Row
          /\ seen \in [Turns -> SUBSET Row]
          /\ clock \in Nat
          /\ \A t \in Turns : TxOK(tx[t])

Marks == /\ sendFunc \in Jids \cup {Nobody}
         /\ sent \subseteq Turns \X (Jids \cup {Nobody})
         /\ met \subseteq SUBSET Turns
         /\ faults \in 0..MaxFaults

LEMMA RoundsKeep ==
    ASSUME Pcs, Busy, Rounds, [Next]_vars
    PROVE  Rounds'
<1>1. ASSUME NEW t \in Turns, NEW step, Goto(t, step), rounds' = rounds,
             step \in Early => pc[t] \in Early
      PROVE  Rounds'
  BY <1>1 DEF Pcs, Rounds, Goto
<1>2. ASSUME NEW t \in Turns, Receive(t) \/ Load(t) \/ Guard(t) \/ Ask(t) \/ Reply(t)
                               \/ Count(t) \/ Reload(t) \/ Summarise(t)
      PROVE  Rounds'
  <2>1. rounds' = rounds
    BY <1>2 DEF Receive, Load, Guard, Ask, Reply, Count, Reload, Summarise, chat
  <2>2. \E step : Goto(t, step) /\ (step \in Early => pc[t] \in Early)
    BY <1>2 DEF Receive, Load, Guard, Ask, Reply, Count, Reload, Summarise, Early
  <2> QED BY <1>1, <2>1, <2>2
<1>3. ASSUME NEW t \in Turns, NextRound(t)
      PROVE  Rounds'
  <2>1. MaxTools \in Nat /\ rounds[t] \in Nat /\ rounds[t] < MaxTools
    BY <1>3, WaChatAssumption DEF NextRound, Rounds, Early
  <2>2. rounds' = [rounds EXCEPT ![t] = @ + 1]
    BY <1>3 DEF NextRound
  <2>3. \/ pc' = [pc EXCEPT ![t] = "ask"] /\ rounds[t] + 1 < MaxTools
        \/ pc' = [pc EXCEPT ![t] = "saveUser"]
    BY <1>3 DEF NextRound, Goto
  <2>4. rounds' \in [Turns -> 0..MaxTools]
    BY <2>1, <2>2 DEF Rounds
  <2>5. \A u \in Turns : pc'[u] \in Early => rounds'[u] < MaxTools
    BY <2>1, <2>2, <2>3 DEF Rounds, Pcs, Early
  <2> QED BY <2>4, <2>5 DEF Rounds
<1>4. ASSUME NEW t \in Turns, Commit(t) \/ Rollback(t)
      PROVE  Rounds'
  <2>1. pc' = [pc EXCEPT ![t] = After[pc[t]]] /\ rounds' = rounds
    BY <1>4 DEF Commit, Rollback, Finish, Goto, chat
  <2>2. pc[t] \in DOMAIN Role
    BY <1>4 DEF Commit, Rollback, Busy, NoTx
  <2>3. After[pc[t]] \notin Early
    BY <2>2 DEF Role, After, Early
  <2> QED BY <2>1, <2>3 DEF Pcs, Rounds
<1>5. ASSUME NEW t \in Turns, SendTool(t) \/ Begin(t) \/ Delete(t)
      PROVE  Rounds'
  BY <1>5 DEF SendTool, Begin, Delete, chat, Rounds
<1>6. CASE Crash
  BY <1>6 DEF Crash, Rounds, Working, Early
<1>7. CASE UNCHANGED vars
  BY <1>7 DEF vars, chat, Rounds
<1> QED BY <1>2, <1>3, <1>4, <1>5, <1>6, <1>7 DEF Next, Turn
LEMMA Phases ==
    /\ NoTx.phase = "none"
    /\ \A r : Open(r).phase = "open" /\ Open(r).row = r
    /\ \A r, doomed, locks : LET x == Deleting(r, doomed, locks)
                             IN  /\ x.phase = "deleting" /\ x.row = r
                                 /\ x.victims = doomed /\ x.after = locks
BY DEF NoTx, Open, Deleting

LEMMA TablesKept ==
    ASSUME Tables, NEW t \in Turns, Finish(t)
    PROVE  \A u \in Turns : TxOK(tx'[u])
<1> SUFFICES ASSUME NEW u \in Turns PROVE TxOK(tx'[u])
  OBVIOUS
<1>1. CASE u = t \/ tx[u].phase # "deleting"
  BY <1>1 DEF Finish, Tables, TxOK
<1>2. CASE u # t /\ tx[u].phase = "deleting"
  <2>1. PICK r \in Row, doomed \in SUBSET Row, locks \in SUBSET Turns :
            tx[u] = Deleting(r, doomed, locks)
    BY <1>2, Phases DEF Tables, TxOK
  <2>2. tx'[u] = Deleting(r, doomed, locks \ {t})
    <3>1. tx'[u] = [tx[u] EXCEPT !.after = @ \ {t}]
      BY <1>2 DEF Finish
    <3>2. [Deleting(r, doomed, locks) EXCEPT !.after = @ \ {t}]
            = Deleting(r, doomed, locks \ {t})
      BY DEF Deleting
    <3> QED BY <2>1, <3>1, <3>2
  <2> QED BY <2>2 DEF TxOK
<1> QED BY <1>1, <1>2

LEMMA TablesKeep ==
    ASSUME Pcs, Busy, Tables, [Next]_vars
    PROVE  Tables'
<1>1. ASSUME NEW t \in Turns, Begin(t)
      PROVE  Tables'
  <2> DEFINE r == [turn |-> t, role |-> Role[pc[t]], at |-> clock + 1]
  <2>1. r \in Row
    <3>1. Role[pc[t]] \in {"user", "assistant", "system"}
      BY <1>1 DEF Begin, Role
    <3>2. clock + 1 \in Nat
      BY DEF Tables
    <3> QED BY <3>1, <3>2 DEF Row
  <2> HIDE DEF r
  <2>2. TxOK(Open(r))
    BY <2>1 DEF TxOK
  <2>3. tx' = [tx EXCEPT ![t] = Open(r)]
    BY <1>1 DEF Begin, r
  <2>4. \A u \in Turns : TxOK(tx'[u])
    BY <2>2, <2>3 DEF Busy, Tables
  <2> QED BY <1>1, <2>4 DEF Begin, Tables
<1>2. ASSUME NEW t \in Turns, Delete(t)
      PROVE  Tables'
  <2>1. PICK r \in Row : tx[t] = Open(r)
    BY <1>2, Phases DEF Delete, Tables, TxOK
  <2>2. PICK locks \in SUBSET Turns : tx' = [tx EXCEPT ![t] = Deleting(tx[t].row, Doomed(t), locks)]
    BY <1>2 DEF Delete
  <2>3. tx[t].row = r
    BY <2>1 DEF Open
  <2>4. Doomed(t) \subseteq Row
    BY <2>3 DEF Doomed, InChat, Tables
  <2>5. TxOK(Deleting(tx[t].row, Doomed(t), locks))
    BY <2>3, <2>4 DEF TxOK
  <2>6. \A u \in Turns : tx'[u] = IF u = t THEN Deleting(tx[t].row, Doomed(t), locks) ELSE tx[u]
    BY <2>2 DEF Busy
  <2>7. \A u \in Turns : TxOK(tx'[u])
    BY <2>5, <2>6 DEF Tables
  <2> QED BY <1>2, <2>7 DEF Delete, Tables
<1>3. ASSUME NEW t \in Turns, Commit(t)
      PROVE  Tables'
  <2>1. PICK r \in Row, doomed \in SUBSET Row, locks \in SUBSET Turns :
            tx[t] = Deleting(r, doomed, locks)
    BY <1>3, Phases DEF Commit, Tables, TxOK
  <2>2. tx[t].row \in Row /\ tx[t].victims \subseteq Row /\ seen[t] \subseteq Row
    BY <2>1 DEF Deleting, Tables
  <2>3. /\ rows' \subseteq Row /\ saved' \subseteq Row
        /\ trimmed' \subseteq Row /\ summed' \subseteq Row
    BY <1>3, <2>2 DEF Commit, Tables
  <2>4. \A u \in Turns : TxOK(tx'[u])
    BY <1>3, TablesKept DEF Commit
  <2> QED BY <1>3, <2>3, <2>4 DEF Commit, Tables
<1>4. ASSUME NEW t \in Turns, Rollback(t)
      PROVE  Tables'
  <2>1. \A u \in Turns : TxOK(tx'[u])
    BY <1>4, TablesKept DEF Rollback
  <2> QED BY <1>4, <2>1 DEF Rollback, Tables
<1>5. ASSUME NEW t \in Turns, Reload(t)
      PROVE  Tables'
  <2>1. Newest(InChat(rows, Jid[t])) \subseteq Row
    BY DEF Newest, InChat, Tables
  <2>2. seen' = seen \/ seen' = [seen EXCEPT ![t] = Newest(InChat(rows, Jid[t]))]
    BY <1>5 DEF Reload
  <2>3. seen' \in [Turns -> SUBSET Row]
    BY <2>1, <2>2 DEF Tables
  <2> QED BY <1>5, <2>3 DEF Reload, table, Tables
<1>6. ASSUME NEW t \in Turns, Receive(t) \/ Load(t) \/ Guard(t) \/ Ask(t) \/ SendTool(t)
                               \/ NextRound(t) \/ Reply(t) \/ Count(t) \/ Summarise(t)
      PROVE  Tables'
  BY <1>6 DEF Receive, Load, Guard, Ask, SendTool, NextRound, Reply, Count, Summarise,
         table, Tables
<1>7. CASE Crash
  BY <1>7 DEF Crash, Tables, TxOK
<1>8. CASE UNCHANGED vars
  BY <1>8 DEF vars, table, Tables
<1> QED BY <1>1, <1>2, <1>3, <1>4, <1>5, <1>6, <1>7, <1>8 DEF Next, Turn

LEMMA MarksKeep ==
    ASSUME Marks, [Next]_vars
    PROVE  Marks'
<1>1. sendFunc' \in Jids \cup {Nobody}
  <2>1. sendFunc' \in {sendFunc, Nobody} \/ \E t \in Turns : sendFunc' = Jid[t]
    BY DEF Next, Turn, Receive, Load, Guard, Ask, SendTool, NextRound,
       Reply, Begin, Delete, Commit, Rollback, Count, Reload, Summarise, Crash, chat, vars
  <2> QED BY <2>1, WaChatAssumption DEF Marks
<1>2. sent' \subseteq Turns \X (Jids \cup {Nobody})
  <2>1. sent' = sent \/ \E t \in Turns : sent' = sent \cup {<<t, sendFunc>>}
    BY DEF Next, Turn, Receive, Load, Guard, Ask, SendTool, NextRound,
       Reply, Begin, Delete, Commit, Rollback, Count, Reload, Summarise, Crash, chat, vars
  <2> QED BY <2>1 DEF Marks
<1>3. met' \subseteq SUBSET Turns
  <2>1. met' = met \/ \E t \in Turns : Receive(t)
    BY DEF Next, Turn, Load, Guard, Ask, SendTool, NextRound, Reply, Begin, Delete, Commit,
       Rollback, Count, Reload, Summarise, Crash, vars
  <2> QED BY <2>1 DEF Marks, Receive
<1>4. faults' \in 0..MaxFaults
  <2>1. faults' = faults \/ Fault
    BY DEF Next, Turn, Receive, Load, Guard, Ask, SendTool, NextRound, Reply, Begin, Delete,
       Commit, Rollback, Count, Reload, Summarise, Crash, vars
  <2>2. MaxFaults \in Nat
    BY WaChatAssumption
  <2> QED BY <2>1, <2>2 DEF Marks, Fault
<1> QED BY <1>1, <1>2, <1>3, <1>4 DEF Marks

(* The state stays well typed: a turn has an open transaction only where it
   stores a row, and no turn goes beyond its tool iterations. *)
THEOREM TypeCorrect == Spec => []TypeOK
<1>1. Init => Rounds /\ Tables /\ Marks
  <2> SUFFICES ASSUME Init PROVE Rounds /\ Tables /\ Marks
    OBVIOUS
  <2>1. MaxTools \in Nat \ {0} /\ MaxFaults \in Nat
    BY WaChatAssumption
  <2> QED BY <2>1 DEF Init, Rounds, Tables, TxOK, Marks
<1>2. SInv /\ Busy /\ Rounds /\ Tables /\ Marks /\ [Next]_vars => Rounds' /\ Tables' /\ Marks'
  BY RoundsKeep, TablesKeep, MarksKeep DEF SInv
<1>3. SInv /\ Busy /\ Rounds /\ Tables /\ Marks => TypeOK
  <2> SUFFICES ASSUME SInv, Busy, Rounds, Tables, Marks PROVE TypeOK
    OBVIOUS
  <2>1. ASSUME NEW t \in Turns
        PROVE  /\ tx[t].phase \in {"none", "open", "deleting"}
               /\ tx[t].phase # "none" => tx[t].row \in Row
               /\ tx[t].phase = "deleting" =>
                     tx[t].victims \subseteq Row /\ tx[t].after \subseteq Turns
               /\ tx[t].phase # "none" => pc[t] \in DOMAIN Role
               /\ seen[t] \subseteq Row
    <3>1. seen[t] \subseteq Row /\ TxOK(tx[t])
      BY DEF Tables
    <3>2. tx[t].phase # "none" => pc[t] \in DOMAIN Role
      BY Phases DEF Busy
    <3> QED BY <3>1, <3>2, Phases DEF TxOK
  <2> QED BY <2>1 DEF SInv, Pcs, Rounds, Tables, Marks, TypeOK
<1>4. Init => SInv /\ Busy
  BY DEF Init, SInv, Pcs, Meets, Field, CrossTalkNeedsOverlap, Busy, Steps, Working,
         InsideChat
<1>5. SInv /\ Busy /\ [Next]_vars => SInv' /\ Busy'
  BY StepKeeps, BusyKeeps DEF SInv
<1> QED BY <1>1, <1>2, <1>3, <1>4, <1>5, PTL DEF Spec
-----------------------------------------------------------------------------
(* The window.  at orders the rows of the table and of the transactions,
   all of them different. *)
Pending(t) == tx[t].phase # "none"
Trimming(t) == tx[t].phase = "deleting"
Stamped ==
    /\ IsFiniteSet(saved) /\ rows \subseteq saved
    /\ \A r \in saved : r.at <= clock
    /\ \A r, s \in saved : r.at = s.at => r = s
    /\ \A t \in Turns : Pending(t) =>
          /\ tx[t].row.turn = t /\ tx[t].row.at <= clock
          /\ \A r \in saved : r.at # tx[t].row.at
          /\ \A u \in Turns \ {t} : Pending(u) => tx[u].row.at # tx[t].row.at

(* What a DELETE found is of its chat, and in SaveMessage has its successors. *)
Later(S, r) == {s \in InChat(S, Jid[r.turn]) : s.at > r.at}
Victims == \A t \in Turns : Trimming(t) => \A v \in tx[t].victims :
              /\ Jid[v.turn] = Jid[t]
              /\ pc[t] = "replace" => v \in saved
              /\ pc[t] # "replace" =>
                    Cardinality(Later(saved \cup {tx[t].row}, v)) >= MaxMessages

(* The rows of its chat that a commit of t would leave now.  Rows committed
   since its DELETE make them more; but the more turns have committed beside
   it, the fewer are still to do so. *)
Users(j) == {t \in Turns : Jid[t] = j}
Left(t) == (InChat(rows, Jid[t]) \cup {tx[t].row}) \ tx[t].victims
Over(j, i) == {t \in Users(j) : Trimming(t) /\ Cardinality(Left(t)) >= MaxMessages + i}
Spread == \A j \in Jids, i \in Nat :
             Over(j, i) # {} => Cardinality(Over(j, i)) + i <= Cardinality(Users(j))

(* A chat whose turns do not overlap is within its window, and what its
   compression deletes is what it read for the summary. *)
Quiet(j) ==
    /\ Cardinality(InChat(rows, j)) <= MaxMessages
    /\ \A t \in Users(j) :
          /\ Trimming(t) => Cardinality(Left(t)) <= MaxMessages
          /\ pc[t] \in {"summarise", "replace"} => InChat(rows, j) \subseteq seen[t]
          /\ Trimming(t) /\ pc[t] = "replace" => tx[t].victims \subseteq seen[t]
    /\ \A r \in InChat(saved, j) : Kept(r)
QuietKept == \A j \in Jids : ~Overlapped(j) => Quiet(j)

Base == Pcs /\ Meets /\ Busy /\ Tables

Less == {mn \in Nat \X Nat : mn[1] < mn[2]}

LEMMA Least ==
    ASSUME NEW T, T \subseteq Nat, T # {}
    PROVE  \E n \in T : \A m \in T : n <= m
<1>1. IsWellFoundedOn(Less, Nat)
  BY NatLessThanWellFounded DEF OpToRel, Less
<1>2. PICK n \in T : \A m \in T : <<m, n>> \notin Less
  BY <1>1, WFMin
<1>3. \A m \in T : ~(m < n)
  BY <1>2 DEF Less
<1> QED BY <1>3

(* The window keeps at most MaxMessages rows, *)
LEMMA NewestAreFew ==
    ASSUME NEW S, S \subseteq Row, IsFiniteSet(S), \A r, s \in S : r.at = s.at => r = s
    PROVE  Cardinality(Newest(S)) <= MaxMessages
<1>0. Newest(S) \in SUBSET S
  BY DEF Newest
<1>1. IsFiniteSet(Newest(S)) /\ MaxMessages \in Nat /\ MaxMessages > 0
  BY <1>0, FS_Subset, WaChatAssumption
<1>2. CASE Newest(S) = {}
  BY <1>1, <1>2, FS_EmptySet
<1>3. CASE Newest(S) # {}
  <2> DEFINE T == {r.at : r \in Newest(S)}
  <2>1. T \subseteq Nat /\ T # {}
    BY <1>3 DEF Newest, Row
  <2>2. PICK n \in T : \A m \in T : n <= m
    BY <2>1, Least
  <2>3. PICK oldest \in Newest(S) : oldest.at = n
    BY <2>2
  <2> DEFINE After0 == {s \in S : s.at > oldest.at}
  <2>4. Newest(S) \ {oldest} \subseteq After0
    <3> SUFFICES ASSUME NEW r \in Newest(S), r # oldest PROVE r.at > oldest.at
      BY DEF Newest
    <3>1. r.at \in Nat /\ oldest.at \in Nat /\ r.at # oldest.at
      BY DEF Newest, Row
    <3>2. oldest.at <= r.at
      BY <2>2, <2>3
    <3> QED BY <3>1, <3>2
  <2>5. IsFiniteSet(After0) /\ Cardinality(After0) < MaxMessages
    BY <2>3, FS_Subset DEF Newest
  <2>6. Cardinality(Newest(S) \ {oldest}) <= Cardinality(After0)
    BY <2>4, <2>5, FS_Subset
  <2>7. Cardinality(Newest(S)) = Cardinality(Newest(S) \ {oldest}) + 1
    <3>1. Cardinality(Newest(S) \ {oldest}) = Cardinality(Newest(S)) - 1
      BY <1>1, <2>3, FS_RemoveElement
    <3> QED BY <1>1, <3>1, FS_CardinalityType
  <2>8. Cardinality(After0) \in Nat /\ Cardinality(Newest(S) \ {oldest}) \in Nat
    BY <1>1, <2>5, FS_CardinalityType, FS_RemoveElement
  <2> QED BY <1>1, <2>5, <2>6, <2>7, <2>8
<1> QED BY <1>2, <1>3

(* and all of them when there are no more. *)
LEMMA FewAreNewest ==
    ASSUME NEW S, S \subseteq Row, IsFiniteSet(S), Cardinality(S) <= MaxMessages
    PROVE  Newest(S) = S
<1> SUFFICES ASSUME NEW r \in S PROVE Cardinality({s \in S : s.at > r.at}) < MaxMessages
  BY DEF Newest
<1>1. {s \in S : s.at > r.at} \subseteq S \ {r}
  BY DEF Row
<1>2. IsFiniteSet(S \ {r}) /\ Cardinality(S \ {r}) = Cardinality(S) - 1
  BY FS_RemoveElement
<1>3. Cardinality({s \in S : s.at > r.at}) <= Cardinality(S) - 1
  BY <1>1, <1>2, FS_Subset
<1>4. Cardinality(S) \in Nat /\ MaxMessages \in Nat
  BY FS_CardinalityType, WaChatAssumption
<1>5. Cardinality({s \in S : s.at > r.at}) \in Nat
  BY FS_Subset, FS_CardinalityType
<1> QED BY <1>3, <1>4, <1>5

LEMMA Smaller ==
    ASSUME NEW S, NEW T, IsFiniteSet(T), S \subseteq T
    PROVE  /\ IsFiniteSet(S) /\ Cardinality(S) \in Nat /\ Cardinality(T) \in Nat
           /\ Cardinality(S) <= Cardinality(T)
BY FS_Subset, FS_CardinalityType

LEMMA OneMore ==
    ASSUME NEW S, NEW T, NEW x, IsFiniteSet(T), S \subseteq T \cup {x}
    PROVE  /\ IsFiniteSet(S) /\ Cardinality(S) \in Nat /\ Cardinality(T) \in Nat
           /\ Cardinality(S) <= Cardinality(T) + 1
<1>1. /\ IsFiniteSet(T \cup {x}) /\ Cardinality(T) \in Nat
      /\ Cardinality(T \cup {x}) <= Cardinality(T) + 1
  BY FS_AddElement, FS_CardinalityType
<1> QED BY <1>1, Smaller

LEMMA MoreLater ==
    ASSUME NEW S, NEW T, IsFiniteSet(T), S \subseteq T, NEW r, Cardinality(Later(S, r)) >= MaxMessages
    PROVE  Cardinality(Later(T, r)) >= MaxMessages
<1>1. Later(S, r) \subseteq Later(T, r) /\ Later(T, r) \subseteq T
  BY DEF Later, InChat
<1>2. /\ Cardinality(Later(S, r)) \in Nat /\ Cardinality(Later(T, r)) \in Nat
      /\ Cardinality(Later(S, r)) <= Cardinality(Later(T, r))
  BY <1>1, Smaller
<1> QED BY <1>2, WaChatAssumption

(* What the end of a transaction does to the others: nothing but free them. *)
LEMMA FinishFrees ==
    ASSUME Base, NEW t \in Turns, Finish(t)
    PROVE  /\ tx'[t] = NoTx
           /\ \A u \in Turns \ {t} :
                 /\ pc'[u] = pc[u] /\ tx'[u].phase = tx[u].phase
                 /\ Pending(u) => tx'[u].row = tx[u].row
                 /\ Trimming(u) => tx'[u].victims = tx[u].victims
<1>1. tx'[t] = NoTx
  BY DEF Finish
<1> SUFFICES ASSUME NEW u \in Turns \ {t}
             PROVE  /\ pc'[u] = pc[u] /\ tx'[u].phase = tx[u].phase
                    /\ Pending(u) => tx'[u].row = tx[u].row
                    /\ Trimming(u) => tx'[u].victims = tx[u].victims
  BY <1>1
<1>2. pc'[u] = pc[u]
  BY DEF Finish, Goto, Base, Pcs
<1>3. CASE tx[u].phase # "deleting"
  BY <1>2, <1>3 DEF Finish, Trimming
<1>4. CASE tx[u].phase = "deleting"
  <2>1. tx'[u] = [tx[u] EXCEPT !.after = @ \ {t}]
    BY <1>4 DEF Finish
  <2>2. PICK r, doomed, locks : tx[u] = Deleting(r, doomed, locks)
    BY <1>4, Phases DEF Base, Tables, TxOK
  <2>3. tx'[u] = Deleting(r, doomed, locks \ {t})
    <3>1. [Deleting(r, doomed, locks) EXCEPT !.after = @ \ {t}]
            = Deleting(r, doomed, locks \ {t})
      BY DEF Deleting
    <3> QED BY <2>1, <2>2, <3>1
  <2> QED BY <1>2, <2>2, <2>3, Phases
<1> QED BY <1>3, <1>4

(* The steps that leave the table alone are those of no transaction. *)
Talks(t) == \/ Receive(t) \/ Load(t) \/ Guard(t) \/ Ask(t) \/ SendTool(t) \/ NextRound(t)
            \/ Reply(t) \/ Count(t) \/ Reload(t) \/ Summarise(t)

LEMMA TalksAside ==
    ASSUME Base, NEW t \in Turns, Talks(t)
    PROVE  /\ UNCHANGED table /\ pc[t] \notin DOMAIN Role /\ tx[t] = NoTx
           /\ \A u \in Turns \ {t} : pc'[u] = pc[u]
<1>1. UNCHANGED table
  BY DEF Talks, Receive, Load, Guard, Ask, SendTool, NextRound, Reply, Count, Reload, Summarise
<1>2. pc[t] \notin DOMAIN Role
  BY DEF Talks, Receive, Load, Guard, Ask, SendTool, NextRound, Reply, Count, Reload,
     Summarise, Role
<1>3. pc' = pc \/ \E step : Goto(t, step)
  BY DEF Talks, Receive, Load, Guard, Ask, SendTool, NextRound, Reply, Count, Reload, Summarise
<1> QED BY <1>1, <1>2, <1>3 DEF Goto, Base, Pcs, Busy

(* What each statement of a transaction does, in terms of the rows. *)
LEMMA BeginMeans ==
    ASSUME Base, NEW t \in Turns, Begin(t)
    PROVE  /\ UNCHANGED <<pc, rows, saved, trimmed, summed, seen, met>>
           /\ clock' = clock + 1 /\ clock \in Nat
           /\ \A u \in Turns \ {t} : tx'[u] = tx[u]
           /\ tx'[t].phase = "open" /\ tx'[t].row.turn = t /\ tx'[t].row.at = clock + 1
<1> DEFINE r == [turn |-> t, role |-> Role[pc[t]], at |-> clock + 1]
<1>1. tx' = [tx EXCEPT ![t] = Open(r)] /\ r.turn = t /\ r.at = clock + 1
  BY DEF Begin
<1> HIDE DEF r
<1> QED BY <1>1, Phases DEF Begin, Base, Busy, Tables

LEMMA DeleteMeans ==
    ASSUME Base, NEW t \in Turns, Delete(t)
    PROVE  /\ UNCHANGED <<pc, rows, saved, trimmed, summed, seen, met, clock>>
           /\ \A u \in Turns \ {t} : tx'[u] = tx[u]
           /\ tx[t].phase = "open" /\ tx[t].row \in Row /\ pc[t] \in DOMAIN Role
           /\ tx'[t].phase = "deleting" /\ tx'[t].row = tx[t].row
           /\ tx'[t].victims = Doomed(t)
<1>1. PICK locks : tx' = [tx EXCEPT ![t] = Deleting(tx[t].row, Doomed(t), locks)]
  BY DEF Delete
<1>2. tx'[t] = Deleting(tx[t].row, Doomed(t), locks)
  BY <1>1 DEF Base, Busy
<1>3. tx[t].phase = "open" /\ tx[t].row \in Row
  BY Phases DEF Delete, Base, Tables, TxOK
<1>4. pc[t] \in DOMAIN Role
  BY <1>3, Phases DEF Base, Busy
<1> QED BY <1>1, <1>2, <1>3, <1>4, Phases DEF Delete

LEMMA CommitMeans ==
    ASSUME Base, NEW t \in Turns, Commit(t)
    PROVE  /\ UNCHANGED <<seen, met, clock>> /\ Trimming(t) /\ Pending(t)
           /\ tx[t].row \in Row /\ tx[t].victims \subseteq Row /\ pc[t] \in DOMAIN Role
           /\ rows' = (rows \cup {tx[t].row}) \ tx[t].victims
           /\ saved' = saved \cup {tx[t].row}
           /\ Finish(t)
<1>1. tx[t].phase = "deleting" /\ tx[t].row \in Row /\ tx[t].victims \subseteq Row
  BY Phases DEF Commit, Base, Tables, TxOK
<1> QED BY <1>1, Phases DEF Commit, Trimming, Pending, Base, Busy

LEMMA StampedKeeps ==
    ASSUME Base, Stamped, [Next]_vars
    PROVE  Stamped'
<1>0. /\ clock \in Nat /\ \A r \in saved : r.at \in Nat
      /\ \A t \in Turns : Pending(t) => tx[t].row \in Row /\ tx[t].row.at \in Nat
  BY Phases DEF Base, Tables, TxOK, Row, Pending
<1>1. ASSUME NEW t \in Turns, Talks(t)
      PROVE  Stamped'
  BY <1>1, TalksAside DEF table, Stamped, Pending
<1>2. ASSUME NEW t \in Turns, Begin(t)
      PROVE  Stamped'
  <2>1. \A u \in Turns : Pending(u)' => u = t \/ Pending(u)
    BY <1>2, BeginMeans DEF Pending
  <2> QED BY <1>0, <1>2, <2>1, BeginMeans DEF Stamped
<1>3. ASSUME NEW t \in Turns, Delete(t)
      PROVE  Stamped'
  <2>1. \A u \in Turns : /\ Pending(u)' => Pending(u)
                         /\ tx'[u].row = tx[u].row
    BY <1>3, DeleteMeans DEF Pending
  <2> QED BY <1>3, <2>1, DeleteMeans DEF Stamped
<1>4. ASSUME NEW t \in Turns, Commit(t)
      PROVE  Stamped'
  <2>1. \A u \in Turns : Pending(u)' => /\ u # t /\ Pending(u)
                                        /\ tx'[u].row = tx[u].row
    BY <1>4, CommitMeans, FinishFrees, Phases DEF Pending
  <2>2. /\ clock' = clock /\ Pending(t)
        /\ rows' \subseteq saved \cup {tx[t].row} /\ saved' = saved \cup {tx[t].row}
    BY <1>4, CommitMeans DEF Stamped
  <2>3. IsFiniteSet(saved')
    BY <2>2, FS_AddElement DEF Stamped
  <2>4. \A r, s \in saved' : r.at = s.at => r = s
    BY <2>2 DEF Stamped
  <2>5. \A r \in saved' : r.at <= clock
    BY <2>2 DEF Stamped
  <2>6. \A u \in Turns : Pending(u)' =>
          /\ tx'[u].row.turn = u /\ tx'[u].row.at <= clock
          /\ \A r \in saved' : r.at # tx'[u].row.at
          /\ \A v \in Turns \ {u} : Pending(v)' => tx'[v].row.at # tx'[u].row.at
    BY <2>1, <2>2 DEF Stamped
  <2> QED BY <2>2, <2>3, <2>4, <2>5, <2>6 DEF Stamped
<1>5. ASSUME NEW t \in Turns, Rollback(t)
      PROVE  Stamped'
  <2>1. \A u \in Turns : Pending(u)' => /\ u # t /\ Pending(u)
                                        /\ tx'[u].row = tx[u].row
    BY <1>5, FinishFrees, Phases DEF Pending, Rollback
  <2> QED BY <1>5, <2>1 DEF Rollback, Stamped
<1>6. CASE Crash
  BY <1>6, Phases DEF Crash, Stamped, Pending
<1>7. CASE UNCHANGED vars
  BY <1>7 DEF vars, table, Stamped, Pending
<1> QED BY <1>1, <1>2, <1>3, <1>4, <1>5, <1>6, <1>7 DEF Next, Turn, Talks

LEMMA VictimsKeep ==
    ASSUME Base, Stamped, Victims, [Next]_vars
    PROVE  Victims'
<1>0. IsFiniteSet(saved) /\ \A x : IsFiniteSet(saved \cup {x})
  BY FS_AddElement DEF Stamped
<1>1. ASSUME NEW t \in Turns, Talks(t)
      PROVE  Victims'
  <2>1. \A u \in Turns : Trimming(u)' => u # t /\ tx'[u] = tx[u]
    BY <1>1, TalksAside, Phases DEF table, Trimming
  <2> QED BY <1>1, <2>1, TalksAside DEF table, Victims, Trimming
<1>2. ASSUME NEW t \in Turns, Begin(t)
      PROVE  Victims'
  <2>1. /\ tx'[t].phase = "open" /\ UNCHANGED <<pc, saved>>
        /\ \A u \in Turns \ {t} : tx'[u] = tx[u]
    BY <1>2, BeginMeans
  <2>2. \A u \in Turns : Trimming(u)' => u # t /\ tx'[u] = tx[u]
    BY <2>1 DEF Trimming
  <2> QED BY <2>1, <2>2 DEF Victims, Trimming
<1>3. ASSUME NEW t \in Turns, Delete(t)
      PROVE  Victims'
  <2> DEFINE visible == InChat(rows, Jid[t]) \cup {tx[t].row}
  <2>1. tx[t].row.turn = t
    BY <1>3, DeleteMeans DEF Stamped, Pending
  <2>2. ASSUME NEW v \in Doomed(t)
        PROVE  /\ Jid[v.turn] = Jid[t]
               /\ pc[t] = "replace" => v \in saved
               /\ pc[t] # "replace" =>
                     Cardinality(Later(saved \cup {tx[t].row}, v)) >= MaxMessages
    <3>1. v \in visible /\ Jid[v.turn] = Jid[t]
      BY <2>1, <2>2 DEF Doomed, InChat
    <3>2. pc[t] = "replace" => v \in saved
      BY <2>2 DEF Doomed, InChat, Stamped
    <3>3. ASSUME pc[t] # "replace"
          PROVE  Cardinality(Later(saved \cup {tx[t].row}, v)) >= MaxMessages
      <4>1. ~(Cardinality({s \in visible : s.at > v.at}) < MaxMessages)
        BY <2>2, <3>3 DEF Doomed, Newest
      <4>2. {s \in visible : s.at > v.at} \subseteq Later(saved \cup {tx[t].row}, v)
        BY <2>1, <3>1 DEF Later, InChat, Stamped
      <4>3. IsFiniteSet(Later(saved \cup {tx[t].row}, v))
        <5>1. Later(saved \cup {tx[t].row}, v) \subseteq saved \cup {tx[t].row}
          BY DEF Later, InChat
        <5> QED BY <1>0, <5>1, FS_Subset
      <4>4. /\ Cardinality({s \in visible : s.at > v.at}) \in Nat
            /\ Cardinality(Later(saved \cup {tx[t].row}, v)) \in Nat
            /\ Cardinality({s \in visible : s.at > v.at})
                  <= Cardinality(Later(saved \cup {tx[t].row}, v))
        BY <4>2, <4>3, Smaller
      <4> QED BY <4>1, <4>4, WaChatAssumption
    <3> QED BY <3>1, <3>2, <3>3
  <2>3. \A u \in Turns \ {t} : tx'[u] = tx[u]
    BY <1>3, DeleteMeans
  <2>4. /\ pc' = pc /\ saved' = saved
        /\ tx'[t].row = tx[t].row /\ tx'[t].victims = Doomed(t)
    BY <1>3, DeleteMeans
  <2> SUFFICES ASSUME NEW u \in Turns, Trimming(u)', NEW v \in tx'[u].victims
               PROVE  /\ Jid[v.turn] = Jid[u]
                      /\ pc[u] = "replace" => v \in saved
                      /\ pc[u] # "replace" =>
                            Cardinality(Later(saved \cup {tx'[u].row}, v)) >= MaxMessages
    BY <2>4 DEF Victims
  <2>5. CASE u = t
    BY <2>2, <2>4, <2>5
  <2>6. CASE u # t
    BY <2>3, <2>6 DEF Victims, Trimming
  <2> QED BY <2>5, <2>6
<1>4. ASSUME NEW t \in Turns, Finish(t), saved \subseteq saved', IsFiniteSet(saved')
      PROVE  Victims'
  <2> SUFFICES ASSUME NEW u \in Turns, Trimming(u)', NEW v \in tx'[u].victims
               PROVE  /\ Jid[v.turn] = Jid[u]
                      /\ pc'[u] = "replace" => v \in saved'
                      /\ pc'[u] # "replace" =>
                            Cardinality(Later(saved' \cup {tx'[u].row}, v)) >= MaxMessages
    BY DEF Victims
  <2>1. u # t
    BY <1>4, FinishFrees, Phases DEF Trimming
  <2>2. /\ pc'[u] = pc[u] /\ Trimming(u) /\ tx'[u].row = tx[u].row
        /\ tx'[u].victims = tx[u].victims
    BY <1>4, <2>1, FinishFrees DEF Trimming, Pending
  <2>3. /\ Jid[v.turn] = Jid[u]
        /\ pc[u] = "replace" => v \in saved
        /\ pc[u] # "replace" =>
              Cardinality(Later(saved \cup {tx[u].row}, v)) >= MaxMessages
    BY <2>2 DEF Victims
  <2>4. /\ IsFiniteSet(saved' \cup {tx[u].row})
        /\ saved \cup {tx[u].row} \subseteq saved' \cup {tx[u].row}
    BY <1>4, FS_AddElement
  <2>5. pc[u] # "replace" => Cardinality(Later(saved' \cup {tx[u].row}, v)) >= MaxMessages
    BY <2>3, <2>4, MoreLater
  <2> QED BY <1>4, <2>2, <2>3, <2>5
<1>5. ASSUME NEW t \in Turns, Commit(t)
      PROVE  Victims'
  BY <1>0, <1>4, <1>5, CommitMeans
<1>6. ASSUME NEW t \in Turns, Rollback(t)
      PROVE  Victims'
  BY <1>0, <1>4, <1>6 DEF Rollback
<1>7. CASE Crash
  BY <1>7, Phases DEF Crash, Victims, Trimming
<1>8. CASE UNCHANGED vars
  BY <1>8 DEF vars, table, Victims, Trimming
<1> QED BY <1>1, <1>2, <1>3, <1>5, <1>6, <1>7, <1>8 DEF Next, Turn, Talks

LEMMA TrimmedKeep ==
    ASSUME Base, Stamped, Victims, TrimmedHaveSuccessors, [Next]_vars
    PROVE  TrimmedHaveSuccessors'
<1>1. \A r \in trimmed : Cardinality(Later(saved, r)) >= MaxMessages
  BY DEF TrimmedHaveSuccessors, Later
<1>2. ASSUME NEW t \in Turns, Commit(t)
      PROVE  TrimmedHaveSuccessors'
  <2>1. saved' = saved \cup {tx[t].row} /\ Trimming(t)
    BY <1>2, CommitMeans
  <2>2. IsFiniteSet(saved')
    BY <2>1, FS_AddElement DEF Stamped
  <2>3. trimmed' = trimmed \/ (pc[t] # "replace" /\ trimmed' \subseteq trimmed \cup tx[t].victims)
    BY <1>2 DEF Commit
  <2>4. \A r \in trimmed' : Cardinality(Later(saved', r)) >= MaxMessages
    <3> SUFFICES ASSUME NEW r \in trimmed' PROVE Cardinality(Later(saved', r)) >= MaxMessages
      OBVIOUS
    <3>1. CASE r \in trimmed
      BY <1>1, <2>1, <2>2, <3>1, MoreLater
    <3>2. CASE r \notin trimmed
      BY <2>1, <2>3, <3>2 DEF Victims
    <3> QED BY <3>1, <3>2
  <2> QED BY <2>4 DEF TrimmedHaveSuccessors, Later
<1>3. ASSUME NEW t \in Turns, Talks(t) \/ Begin(t) \/ Delete(t) \/ Rollback(t)
      PROVE  UNCHANGED <<saved, trimmed>>
  BY <1>3, TalksAside DEF table, Begin, Delete, Rollback
<1>4. CASE Crash \/ UNCHANGED vars
  BY <1>4 DEF Crash, vars, table, TrimmedHaveSuccessors
<1> QED BY <1>2, <1>3, <1>4 DEF Next, Turn, Talks, TrimmedHaveSuccessors

-----------------------------------------------------------------------------
LEMMA Finite ==
    ASSUME Base, Stamped
    PROVE  /\ \A j : IsFiniteSet(InChat(rows, j)) /\ Cardinality(InChat(rows, j)) \in Nat
           /\ \A t \in Turns : IsFiniteSet(Left(t)) /\ Cardinality(Left(t)) \in Nat
           /\ \A j : IsFiniteSet(Users(j)) /\ Cardinality(Users(j)) \in Nat
<1>1. \A j : IsFiniteSet(InChat(rows, j)) /\ Cardinality(InChat(rows, j)) \in Nat
  <2>1. \A j : InChat(rows, j) \subseteq saved
    BY DEF InChat, Stamped
  <2> QED BY <2>1, Smaller DEF Stamped
<1>2. \A t \in Turns : IsFiniteSet(Left(t)) /\ Cardinality(Left(t)) \in Nat
  BY <1>1, OneMore DEF Left
<1>3. \A j : IsFiniteSet(Users(j)) /\ Cardinality(Users(j)) \in Nat
  BY WaChatAssumption, Smaller DEF Users
<1> QED BY <1>1, <1>2, <1>3

(* A DELETE leaves no more than the window, of what it sees, *)
LEMMA DeleteLeaves ==
    ASSUME Base, Stamped, NEW t \in Turns, Delete(t)
    PROVE  Cardinality(Left(t)') <= MaxMessages
<1> DEFINE visible == InChat(rows, Jid[t]) \cup {tx[t].row}
<1>1. Left(t)' = visible \ Doomed(t)
  BY DeleteMeans DEF Left
<1>2. tx[t].row \in Row /\ Pending(t)
  BY DeleteMeans DEF Pending
<1>3. CASE pc[t] = "replace"
  <2>1. Left(t)' \subseteq {tx[t].row}
    BY <1>1, <1>3 DEF Doomed
  <2>2. IsFiniteSet({tx[t].row}) /\ Cardinality({tx[t].row}) = 1
    BY FS_Singleton
  <2>3. Cardinality(Left(t)') <= 1 /\ Cardinality(Left(t)') \in Nat
    BY <2>1, <2>2, Smaller
  <2> QED BY <2>3, WaChatAssumption
<1>4. CASE pc[t] # "replace"
  <2>1. Left(t)' = Newest(visible)
    BY <1>1, <1>4 DEF Doomed, Newest
  <2>2. visible \subseteq Row
    BY <1>2 DEF Base, Tables, InChat
  <2>3. IsFiniteSet(visible)
    BY Finite, FS_AddElement
  <2>4. visible \subseteq saved \cup {tx[t].row}
    BY DEF InChat, Stamped
  <2>5. \A r, s \in visible : r.at = s.at => r = s
    BY <1>2, <2>4 DEF Stamped
  <2> QED BY <2>1, <2>2, <2>3, <2>5, NewestAreFew
<1> QED BY <1>3, <1>4

(* and a COMMIT adds one row to what the others will leave. *)
LEMMA CommitLeaves ==
    ASSUME Base, Stamped, Victims, NEW t \in Turns, Commit(t)
    PROVE  /\ InChat(rows', Jid[t]) = Left(t)
           /\ \A j : j # Jid[t] => InChat(rows', j) = InChat(rows, j)
           /\ ~Trimming(t)'
           /\ \A u \in Turns \ {t} : Trimming(u)' =>
                 /\ Trimming(u)
                 /\ Jid[u] = Jid[t] => /\ Left(u)' \subseteq Left(u) \cup {tx[t].row}
                                       /\ Left(u)' \subseteq Left(t) \cup {tx[u].row}
                 /\ Jid[u] # Jid[t] => Left(u)' = Left(u)
<1>1. /\ Trimming(t) /\ Pending(t) /\ Finish(t)
      /\ rows' = (rows \cup {tx[t].row}) \ tx[t].victims
  BY CommitMeans
<1>2. /\ tx[t].row.turn = t
      /\ \A v \in tx[t].victims : Jid[v.turn] = Jid[t]
  BY <1>1 DEF Stamped, Victims
<1>3. InChat(rows', Jid[t]) = Left(t)
  BY <1>1, <1>2 DEF InChat, Left
<1>4. \A j : j # Jid[t] => InChat(rows', j) = InChat(rows, j)
  BY <1>1, <1>2 DEF InChat
<1>5. ~Trimming(t)'
  BY <1>1, FinishFrees, Phases DEF Trimming
<1>6. ASSUME NEW u \in Turns \ {t}, Trimming(u)'
      PROVE  /\ Trimming(u)
             /\ Jid[u] = Jid[t] => /\ Left(u)' \subseteq Left(u) \cup {tx[t].row}
                                   /\ Left(u)' \subseteq Left(t) \cup {tx[u].row}
             /\ Jid[u] # Jid[t] => Left(u)' = Left(u)
  <2>1. Trimming(u) /\ tx'[u].row = tx[u].row /\ tx'[u].victims = tx[u].victims
    BY <1>1, <1>6, FinishFrees DEF Trimming, Pending
  <2>2. Left(u)' = (InChat(rows', Jid[u]) \cup {tx[u].row}) \ tx[u].victims
    BY <2>1 DEF Left
  <2>3. Jid[u] # Jid[t] => Left(u)' = Left(u)
    BY <1>4, <2>2 DEF Left
  <2>4. ASSUME Jid[u] = Jid[t]
        PROVE  /\ Left(u)' \subseteq Left(u) \cup {tx[t].row}
               /\ Left(u)' \subseteq Left(t) \cup {tx[u].row}
    <3>1. Left(u)' \subseteq Left(t) \cup {tx[u].row}
      BY <1>3, <2>2, <2>4
    <3>2. Left(t) \subseteq InChat(rows, Jid[t]) \cup {tx[t].row}
      BY DEF Left
    <3>3. Left(u) = (InChat(rows, Jid[t]) \cup {tx[u].row}) \ tx[u].victims
      BY <2>4 DEF Left
    <3>4. Left(u)' \subseteq Left(u) \cup {tx[t].row}
      BY <1>3, <2>2, <2>4, <3>2, <3>3
    <3> QED BY <3>1, <3>4
  <2> QED BY <2>1, <2>3, <2>4
<1> QED BY <1>3, <1>4, <1>5, <1>6

LEMMA SpreadShrinks ==
    ASSUME Base, Stamped, Spread, \A j \in Jids, i \in Nat : i # 0 => Over(j, i)' \subseteq Over(j, i)
    PROVE  Spread'
<1> SUFFICES ASSUME NEW j \in Jids, NEW i \in Nat, Over(j, i)' # {}
             PROVE  Cardinality(Over(j, i)') + i <= Cardinality(Users(j))
  BY DEF Spread, Users
<1>1. CASE i = 0
  <2>1. Over(j, i)' \subseteq Users(j)
    BY DEF Over, Users
  <2> QED BY <1>1, <2>1, Finite, Smaller
<1>2. CASE i # 0
  <2>1. Over(j, i) \subseteq Users(j) /\ Over(j, i)' \subseteq Over(j, i)
    BY <1>2 DEF Over
  <2>2. /\ Cardinality(Over(j, i)') <= Cardinality(Over(j, i))
        /\ Cardinality(Over(j, i)') \in Nat /\ Cardinality(Over(j, i)) \in Nat
    <3>1. IsFiniteSet(Over(j, i))
      BY <2>1, Finite, Smaller
    <3> QED BY <2>1, <3>1, Smaller
  <2>3. Cardinality(Over(j, i)) + i <= Cardinality(Users(j))
    BY <2>1 DEF Spread
  <2> QED BY <2>2, <2>3, Finite
<1> QED BY <1>1, <1>2

LEMMA CommitSpreads ==
    ASSUME Base, Stamped, Victims, Spread, NEW t \in Turns, Commit(t)
    PROVE  Spread'
<1>0. MaxMessages \in Nat
  BY WaChatAssumption
<1> SUFFICES ASSUME NEW j \in Jids, NEW i \in Nat, Over(j, i)' # {}
             PROVE  Cardinality(Over(j, i)') + i <= Cardinality(Users(j))
  BY DEF Spread, Users
<1>1. IsFiniteSet(Users(j)) /\ Cardinality(Users(j)) \in Nat
  BY Finite
<1>2. CASE i = 0
  <2>1. Over(j, i)' \subseteq Users(j)
    BY DEF Over, Users
  <2> QED BY <1>1, <1>2, <2>1, Smaller
<1>3. CASE i # 0 /\ Jid[t] # j
  <2>1. Over(j, i)' \subseteq Over(j, i)
    BY <1>3, CommitLeaves DEF Over, Users
  <2>2. Over(j, i) \subseteq Users(j)
    BY DEF Over
  <2>3. IsFiniteSet(Over(j, i))
    BY <1>1, <2>2, Smaller
  <2>4. /\ Cardinality(Over(j, i)') <= Cardinality(Over(j, i))
        /\ Cardinality(Over(j, i)') \in Nat /\ Cardinality(Over(j, i)) \in Nat
    BY <2>1, <2>3, Smaller
  <2>5. Cardinality(Over(j, i)) + i <= Cardinality(Users(j))
    BY <2>1 DEF Spread
  <2> QED BY <1>1, <2>4, <2>5
<1>4. CASE i # 0 /\ Jid[t] = j
  <2>1. i - 1 \in Nat
    BY <1>4
  <2>2. ASSUME NEW u \in Over(j, i)'
        PROVE  /\ u # t /\ u \in Over(j, i - 1)
               /\ t \in Over(j, i - 1)
    <3>1. /\ u \in Turns \ {t} /\ Trimming(u)' /\ Jid[u] = j
          /\ Cardinality(Left(u)') >= MaxMessages + i
      BY <2>2, CommitLeaves DEF Over, Users
    <3>2. /\ Trimming(u) /\ Left(u)' \subseteq Left(u) \cup {tx[t].row}
          /\ Left(u)' \subseteq Left(t) \cup {tx[u].row}
      BY <1>4, <3>1, CommitLeaves
    <3>3. /\ Cardinality(Left(u)') <= Cardinality(Left(u)) + 1
          /\ Cardinality(Left(u)') <= Cardinality(Left(t)) + 1
          /\ Cardinality(Left(u)') \in Nat
      <4>1. IsFiniteSet(Left(u)) /\ IsFiniteSet(Left(t))
        BY <3>1, Finite
      <4> HIDE DEF Left
      <4> QED BY <3>2, <4>1, OneMore
    <3>4. /\ Cardinality(Left(u)) >= MaxMessages + (i - 1)
          /\ Cardinality(Left(t)) >= MaxMessages + (i - 1)
      BY <1>0, <3>1, <3>3, Finite
    <3>5. Trimming(t)
      BY CommitMeans
    <3> QED BY <1>4, <3>1, <3>2, <3>4, <3>5 DEF Over, Users
  <2> DEFINE Before == Over(j, i - 1)
  <2>3. Before \subseteq Users(j) /\ t \in Before /\ Over(j, i)' \subseteq Before \ {t}
    BY <2>2 DEF Over
  <2>4. Cardinality(Before) + (i - 1) <= Cardinality(Users(j))
    BY <2>1, <2>3 DEF Spread
  <2> HIDE DEF Before
  <2>5. IsFiniteSet(Before) /\ Cardinality(Before) \in Nat
    BY <1>1, <2>3, Smaller
  <2>6. IsFiniteSet(Before \ {t}) /\ Cardinality(Before \ {t}) = Cardinality(Before) - 1
    BY <2>3, <2>5, FS_RemoveElement
  <2>7. Cardinality(Over(j, i)') <= Cardinality(Before) - 1 /\ Cardinality(Over(j, i)') \in Nat
    BY <2>3, <2>6, Smaller
  <2> QED BY <1>1, <2>4, <2>5, <2>7
<1> QED BY <1>2, <1>3, <1>4

LEMMA SpreadKeeps ==
    ASSUME Base, Stamped, Victims, Spread, [Next]_vars
    PROVE  Spread'
<1>1. ASSUME NEW t \in Turns, Talks(t) \/ Begin(t)
      PROVE  Spread'
  <2>1. /\ rows' = rows
        /\ \A u \in Turns : Trimming(u)' => Trimming(u) /\ tx'[u] = tx[u]
    <3>1. CASE Talks(t)
      BY <3>1, TalksAside DEF table, Trimming
    <3>2. CASE Begin(t)
      BY <3>2, BeginMeans DEF Trimming
    <3> QED BY <1>1, <3>1, <3>2
  <2>2. \A u \in Turns : Trimming(u)' => Left(u)' = Left(u)
    BY <2>1 DEF Left
  <2>3. \A j \in Jids, i \in Nat : Over(j, i)' \subseteq Over(j, i)
    BY <2>1, <2>2 DEF Over, Users
  <2> QED BY <2>3, SpreadShrinks
<1>2. ASSUME NEW t \in Turns, Delete(t)
      PROVE  Spread'
  <2>1. rows' = rows /\ \A u \in Turns \ {t} : tx'[u] = tx[u]
    BY <1>2, DeleteMeans
  <2>2. \A u \in Turns \ {t} : (Trimming(u)' => Trimming(u)) /\ Left(u)' = Left(u)
    BY <2>1 DEF Left, Trimming
  <2>3. Cardinality(Left(t)') <= MaxMessages
    BY <1>2, DeleteLeaves
  <2>4. Cardinality(Left(t)') \in Nat
    BY <2>1, Finite, OneMore DEF Left
  <2>5. \A j \in Jids, i \in Nat : i # 0 => t \notin Over(j, i)'
    BY <2>3, <2>4, WaChatAssumption DEF Over
  <2>6. \A j \in Jids, i \in Nat : i # 0 => Over(j, i)' \subseteq Over(j, i)
    BY <2>2, <2>5 DEF Over, Users
  <2> QED BY <2>6, SpreadShrinks
<1>3. ASSUME NEW t \in Turns, Rollback(t)
      PROVE  Spread'
  <2>1. rows' = rows /\ Finish(t)
    BY <1>3 DEF Rollback
  <2>2. \A u \in Turns : Trimming(u)' =>
            /\ Trimming(u) /\ tx'[u].row = tx[u].row /\ tx'[u].victims = tx[u].victims
    BY <2>1, FinishFrees, Phases DEF Trimming, Pending
  <2>3. \A u \in Turns : Trimming(u)' => Left(u)' = Left(u)
    BY <2>1, <2>2 DEF Left
  <2>4. \A j \in Jids, i \in Nat : Over(j, i)' \subseteq Over(j, i)
    BY <2>2, <2>3 DEF Over, Users
  <2> QED BY <2>4, SpreadShrinks
<1>4. CASE Crash
  <2>1. \A u \in Turns : ~Trimming(u)'
    BY <1>4, Phases DEF Crash, Trimming
  <2> QED BY <2>1 DEF Spread, Over, Users
<1>5. CASE UNCHANGED vars
  BY <1>5 DEF vars, table, Spread, Over, Users, Trimming, Left
<1> QED BY <1>1, <1>2, <1>3, <1>4, <1>5, CommitSpreads DEF Next, Turn, Talks

LEMMA WindowKeeps ==
    ASSUME Base, Stamped, Victims, Spread, WindowBounded, [Next]_vars
    PROVE  WindowBounded'
<1>0. MaxMessages \in Nat \ {0}
  BY WaChatAssumption
<1>1. \A j \in Jids : Cardinality(InChat(rows, j)) <= MaxMessages + Cardinality(Users(j)) - 1
  BY DEF WindowBounded, Users
<1>2. ASSUME NEW t \in Turns, Commit(t)
      PROVE  WindowBounded'
  <2> SUFFICES ASSUME NEW j \in Jids
               PROVE  Cardinality(InChat(rows', j)) <= MaxMessages + Cardinality(Users(j)) - 1
    BY DEF WindowBounded, Users
  <2>1. CASE j # Jid[t]
    BY <1>1, <1>2, <2>1, CommitLeaves
  <2>2. CASE j = Jid[t]
    <3> DEFINE n == Cardinality(Left(t))
    <3>1. InChat(rows', j) = Left(t) /\ Trimming(t)
      BY <1>2, <2>2, CommitLeaves, CommitMeans
    <3>2. IsFiniteSet(Users(j)) /\ Cardinality(Users(j)) \in Nat /\ n \in Nat
      BY Finite
    <3>3. t \in Users(j)
      BY <2>2 DEF Users
    <3> HIDE DEF n
    <3>4. CASE n >= MaxMessages
      <4>1. n - MaxMessages \in Nat /\ n >= MaxMessages + (n - MaxMessages)
        BY <1>0, <3>2, <3>4
      <4> DEFINE i == n - MaxMessages
      <4>2. t \in Over(j, i)
        BY <3>1, <3>3, <4>1 DEF Over, n
      <4> HIDE DEF i
      <4>3. Over(j, i) \subseteq Users(j)
        BY DEF Over
      <4>4. IsFiniteSet(Over(j, i)) /\ Cardinality(Over(j, i)) \in Nat
        BY <3>2, <4>3, Smaller
      <4>5. Cardinality(Over(j, i)) # 0
        BY <4>2, <4>4, FS_EmptySet
      <4>6. i \in Nat /\ Cardinality(Over(j, i)) + i <= Cardinality(Users(j))
        BY <4>1, <4>2 DEF Spread, i
      <4>7. n <= MaxMessages + Cardinality(Users(j)) - 1
        BY <1>0, <3>2, <4>4, <4>5, <4>6 DEF i
      <4> QED BY <3>1, <4>7 DEF n
    <3>5. CASE ~(n >= MaxMessages)
      <4>1. Cardinality(Users(j)) # 0
        BY <3>2, <3>3, FS_EmptySet
      <4>2. n <= MaxMessages + Cardinality(Users(j)) - 1
        BY <1>0, <3>2, <3>5, <4>1
      <4> QED BY <3>1, <4>2 DEF n
    <3> QED BY <3>4, <3>5
  <2> QED BY <2>1, <2>2
<1>3. ASSUME NEW t \in Turns, Talks(t) \/ Begin(t) \/ Delete(t) \/ Rollback(t)
      PROVE  rows' = rows
  BY <1>3, TalksAside DEF table, Begin, Delete, Rollback
<1>4. CASE Crash \/ UNCHANGED vars
  BY <1>4 DEF Crash, vars, table, WindowBounded
<1> QED BY <1>2, <1>3, <1>4 DEF Next, Turn, Talks, WindowBounded

-----------------------------------------------------------------------------
(* Whether turns of a chat overlapped is never forgotten, *)
LEMMA OverlapStays ==
    ASSUME Base, [Next]_vars
    PROVE  met \subseteq met'
<1>1. ASSUME NEW t \in Turns, Talks(t)
      PROVE  met \subseteq met'
  BY <1>1 DEF Talks, Receive, Load, Guard, Ask, SendTool, NextRound, Reply, Count, Reload,
     Summarise
<1>2. ASSUME NEW t \in Turns, Begin(t) \/ Delete(t) \/ Commit(t) \/ Rollback(t)
      PROVE  met \subseteq met'
  BY <1>2 DEF Begin, Delete, Commit, Rollback
<1> QED BY <1>1, <1>2 DEF Next, Turn, Talks, Crash, vars

(* and where they did not, a turn at work is alone. *)
LEMMA Alone ==
    ASSUME Base, NEW j, ~Overlapped(j), NEW t \in Users(j), pc[t] \in Working,
           NEW u \in Users(j), pc[u] \in Working
    PROVE  u = t
BY DEF Base, Meets, Overlapped, Users

LEMMA TrimmersWork ==
    ASSUME Base, NEW t \in Turns,
           Trimming(t) \/ pc[t] \in {"summarise", "replace"} \/ pc[t] \in DOMAIN Role
    PROVE  pc[t] \in Working
<1>1. Trimming(t) => pc[t] \in DOMAIN Role
  BY Phases DEF Trimming, Base, Busy
<1> QED BY <1>1 DEF Role, Working

(* A goroutine reaches the summary with what it just read. *)
LEMMA TalkReads ==
    ASSUME Base, NEW t \in Turns, Talks(t)
    PROVE  /\ \A u \in Turns \ {t} : seen'[u] = seen[u]
           /\ pc'[t] \in {"summarise", "replace"} =>
                 \/ pc[t] = "summarise" /\ seen'[t] = seen[t]
                 \/ seen'[t] = Newest(InChat(rows, Jid[t]))
<1>1. ASSUME NEW step, Goto(t, step)
      PROVE  pc'[t] = step
  BY <1>1 DEF Goto, Base, Pcs
<1>2. CASE Reload(t)
  <2>1. seen' = seen \/ seen' = [seen EXCEPT ![t] = Newest(InChat(rows, Jid[t]))]
    BY <1>2 DEF Reload
  <2>2. \A u \in Turns \ {t} : seen'[u] = seen[u]
    BY <2>1 DEF Base, Tables
  <2>3. \/ Goto(t, "summarise") /\ seen' = [seen EXCEPT ![t] = Newest(InChat(rows, Jid[t]))]
        \/ Goto(t, "done")
    BY <1>2 DEF Reload
  <2> QED BY <1>1, <2>2, <2>3 DEF Base, Tables
<1>3. CASE Summarise(t)
  BY <1>3 DEF Summarise
<1>4. CASE SendTool(t)
  BY <1>4 DEF SendTool
<1>5. CASE Receive(t) \/ Load(t) \/ Guard(t) \/ Ask(t) \/ NextRound(t) \/ Reply(t) \/ Count(t)
  <2>1. seen' = seen
    BY <1>5 DEF Receive, Load, Guard, Ask, NextRound, Reply, Count
  <2>2. \E step : step \notin {"summarise", "replace"} /\ Goto(t, step)
    BY <1>5 DEF Receive, Load, Guard, Ask, NextRound, Reply, Count
  <2> QED BY <1>1, <2>1, <2>2
<1> QED BY <1>2, <1>3, <1>4, <1>5 DEF Talks

LEMMA EndsElsewhere ==
    ASSUME Base, NEW t \in Turns, Finish(t), pc[t] \in DOMAIN Role
    PROVE  pc'[t] \notin {"summarise", "replace"}
<1>1. pc'[t] = After[pc[t]]
  BY DEF Finish, Goto, Base, Pcs
<1> QED BY <1>1 DEF Role, After

LEMMA TalksStayQuiet ==
    ASSUME Base, Stamped, NEW j \in Jids, Quiet(j), NEW t \in Turns, Talks(t)
    PROVE  Quiet(j)'
<1>1. /\ UNCHANGED <<rows, saved, trimmed, summed, tx>> /\ ~Trimming(t)
      /\ \A u \in Turns \ {t} : pc'[u] = pc[u] /\ seen'[u] = seen[u]
  BY TalksAside, TalkReads, Phases DEF table, Trimming
<1>2. Cardinality(InChat(rows', j)) <= MaxMessages /\ \A r \in InChat(saved', j) : Kept(r)'
  BY <1>1 DEF Quiet, Kept
<1>3. ASSUME NEW u \in Users(j)
      PROVE  /\ Trimming(u)' => Cardinality(Left(u)') <= MaxMessages
             /\ pc'[u] \in {"summarise", "replace"} => InChat(rows, j) \subseteq seen'[u]
             /\ Trimming(u)' /\ pc'[u] = "replace" => tx'[u].victims \subseteq seen'[u]
  <2>1. CASE u # t
    BY <1>1, <1>3, <2>1 DEF Quiet, Users, Trimming, Left
  <2>2. CASE u = t
    <3>1. Newest(InChat(rows, j)) = InChat(rows, j)
      <4>1. InChat(rows, j) \subseteq Row
        BY DEF InChat, Base, Tables
      <4> QED BY <4>1, Finite, FewAreNewest DEF Quiet
    <3>2. Jid[t] = j /\ ~Trimming(u)'
      BY <1>1, <1>3, <2>2 DEF Users, Trimming
    <3>3. pc'[t] \in {"summarise", "replace"} =>
                 \/ pc[t] = "summarise" /\ seen'[t] = seen[t]
                 \/ seen'[t] = Newest(InChat(rows, j))
      BY <3>2, TalkReads
    <3> QED BY <1>3, <2>2, <3>1, <3>2, <3>3 DEF Quiet
  <2> QED BY <2>1, <2>2
<1> QED BY <1>1, <1>2, <1>3 DEF Quiet, Users

LEMMA DeleteStaysQuiet ==
    ASSUME Base, Stamped, NEW j \in Jids, Quiet(j), NEW t \in Turns, Delete(t)
    PROVE  Quiet(j)'
<1>1. /\ UNCHANGED <<pc, rows, saved, trimmed, summed, seen>>
      /\ \A u \in Turns \ {t} : tx'[u] = tx[u]
      /\ tx'[t].victims = Doomed(t)
  BY DeleteMeans
<1>2. \A r \in InChat(saved', j) : Kept(r)'
  BY <1>1 DEF Quiet, Kept
<1>3. ASSUME NEW u \in Users(j)
      PROVE  /\ Trimming(u)' => Cardinality(Left(u)') <= MaxMessages
             /\ pc[u] \in {"summarise", "replace"} => InChat(rows, j) \subseteq seen[u]
             /\ Trimming(u)' /\ pc[u] = "replace" => tx'[u].victims \subseteq seen[u]
  <2>1. CASE u # t
    BY <1>1, <1>3, <2>1 DEF Quiet, Users, Trimming, Left
  <2>2. CASE u = t
    <3>1. Jid[t] = j
      BY <1>3, <2>2 DEF Users
    <3>2. pc[t] = "replace" => Doomed(t) = InChat(rows, j)
      BY <3>1 DEF Doomed
    <3> QED BY <1>1, <1>3, <2>2, <3>2, DeleteLeaves DEF Quiet
  <2> QED BY <2>1, <2>2
<1> QED BY <1>1, <1>2, <1>3 DEF Quiet, Users

LEMMA CommitStaysQuiet ==
    ASSUME Base, Stamped, Victims, NEW j \in Jids, ~Overlapped(j), Quiet(j),
           NEW t \in Turns, Commit(t)
    PROVE  Quiet(j)'
<1>1. /\ seen' = seen /\ Trimming(t) /\ Pending(t) /\ Finish(t) /\ pc[t] \in DOMAIN Role
      /\ rows' = (rows \cup {tx[t].row}) \ tx[t].victims /\ saved' = saved \cup {tx[t].row}
  BY CommitMeans
<1>2. tx[t].row.turn = t /\ \A v \in tx[t].victims : Jid[v.turn] = Jid[t]
  BY <1>1 DEF Stamped, Victims
<1>3. /\ trimmed \subseteq trimmed' /\ summed \subseteq summed'
      /\ pc[t] = "replace" => seen[t] \subseteq summed'
      /\ pc[t] # "replace" => tx[t].victims \cap saved' \subseteq trimmed'
  BY DEF Commit
<1>4. CASE Jid[t] # j
  <2>1. InChat(rows', j) = InChat(rows, j) /\ InChat(saved', j) = InChat(saved, j)
    BY <1>1, <1>2, <1>4 DEF InChat
  <2>2. \A r \in InChat(saved', j) : Kept(r)'
    <3> SUFFICES ASSUME NEW r \in InChat(saved, j) PROVE r \in rows' \cup trimmed' \cup summed'
      BY <2>1 DEF Kept
    <3>1. r \in rows => r \in rows'
      BY <2>1 DEF InChat
    <3> QED BY <1>3, <3>1 DEF Quiet, Kept
  <2>3. ASSUME NEW u \in Users(j)
        PROVE  /\ u # t /\ pc'[u] = pc[u] /\ Jid[u] = j
               /\ Trimming(u)' => Trimming(u) /\ Left(u)' = Left(u)
                                  /\ tx'[u].victims = tx[u].victims
    <3>1. u \in Turns \ {t} /\ Jid[u] = j
      BY <1>4, <2>3 DEF Users
    <3> QED BY <1>1, <1>4, <3>1, CommitLeaves, FinishFrees
  <2> QED BY <1>1, <2>1, <2>2, <2>3 DEF Quiet, Users
<1>5. CASE Jid[t] = j
  <2>1. t \in Users(j) /\ pc[t] \in Working
    BY <1>1, <1>5, TrimmersWork DEF Users
  <2>2. ASSUME NEW u \in Users(j)
        PROVE  ~Trimming(u)' /\ pc'[u] \notin {"summarise", "replace"}
    <3>1. CASE u = t
      BY <1>1, <3>1, CommitLeaves, EndsElsewhere
    <3>2. CASE u # t
      <4>1. u \in Turns \ {t}
        BY <2>2, <3>2 DEF Users
      <4>2. pc[u] \notin Working
        BY <2>1, <2>2, <3>2, Alone
      <4> QED BY <1>1, <4>1, <4>2, TrimmersWork, FinishFrees, CommitLeaves
    <3> QED BY <3>1, <3>2
  <2>3. Cardinality(InChat(rows', j)) <= MaxMessages
    BY <1>1, <1>5, <2>1, CommitLeaves DEF Quiet
  <2>4. \A r \in InChat(saved', j) : Kept(r)'
    <3> SUFFICES ASSUME NEW r \in InChat(saved', j) PROVE r \in rows' \cup trimmed' \cup summed'
      BY DEF Kept
    <3>1. r \in saved' /\ r \in rows \cup trimmed \cup summed \cup {tx[t].row}
      BY <1>1 DEF Quiet, Kept, InChat
    <3>2. CASE r \in trimmed \cup summed \/ r \in rows'
      BY <1>3, <3>2
    <3>3. CASE r \notin trimmed \cup summed /\ r \notin rows'
      <4>1. r \in tx[t].victims
        BY <1>1, <3>1, <3>3
      <4>2. pc[t] = "replace" => tx[t].victims \subseteq seen[t]
        BY <1>1, <2>1 DEF Quiet
      <4> QED BY <1>3, <3>1, <4>1, <4>2
    <3> QED BY <3>2, <3>3
  <2> QED BY <2>2, <2>3, <2>4 DEF Quiet, Users
<1> QED BY <1>4, <1>5

LEMMA QuietKeeps ==
    ASSUME Base, Stamped, Victims, QuietKept, [Next]_vars
    PROVE  QuietKept'
<1> SUFFICES ASSUME NEW j \in Jids, ~Overlapped(j)' PROVE Quiet(j)'
  BY DEF QuietKept
<1>0. ~Overlapped(j) /\ Quiet(j)
  <2>1. ~Overlapped(j)
    BY OverlapStays DEF Overlapped
  <2> QED BY <2>1 DEF QuietKept
<1>1. ASSUME NEW t \in Turns, Begin(t)
      PROVE  Quiet(j)'
  <2>1. /\ UNCHANGED <<pc, rows, saved, trimmed, summed, seen>>
        /\ \A u \in Turns : Trimming(u)' => Trimming(u) /\ tx'[u] = tx[u]
    BY <1>1, BeginMeans DEF Trimming
  <2>2. \A u \in Turns : Trimming(u)' => Left(u)' = Left(u)
    BY <2>1 DEF Left
  <2> QED BY <1>0, <2>1, <2>2 DEF Quiet, Users, Kept
<1>2. ASSUME NEW t \in Turns, Rollback(t)
      PROVE  Quiet(j)'
  <2>1. /\ UNCHANGED <<rows, saved, trimmed, summed, seen>> /\ Finish(t) /\ pc[t] \in DOMAIN Role
    BY <1>2 DEF Rollback
  <2>2. \A u \in Turns : Trimming(u)' =>
            /\ u # t /\ Trimming(u) /\ tx'[u].row = tx[u].row /\ tx'[u].victims = tx[u].victims
    BY <2>1, FinishFrees, Phases DEF Trimming, Pending
  <2>3. \A u \in Turns : pc'[u] \in {"summarise", "replace"} => pc'[u] = pc[u]
    BY <2>1, EndsElsewhere, FinishFrees
  <2>4. \A u \in Turns : Trimming(u)' => Left(u)' = Left(u) /\ pc'[u] = pc[u]
    BY <2>1, <2>2, FinishFrees DEF Left
  <2> QED BY <1>0, <2>1, <2>2, <2>3, <2>4 DEF Quiet, Users, Kept
<1>3. CASE Crash
  <2>1. /\ UNCHANGED <<rows, saved, trimmed, summed, seen>>
        /\ \A u \in Turns : ~Trimming(u)'
        /\ \A u \in Turns : pc'[u] \in {"summarise", "replace"} => pc'[u] = pc[u]
    BY <1>3, Phases DEF Crash, Trimming
  <2> QED BY <1>0, <2>1 DEF Quiet, Users, Kept
<1>4. CASE UNCHANGED vars
  BY <1>0, <1>4 DEF vars, table, Quiet, Users, Kept, Trimming, Left
<1> QED BY <1>0, <1>1, <1>2, <1>3, <1>4, TalksStayQuiet, DeleteStaysQuiet, CommitStaysQuiet
        DEF Next, Turn, Talks

WInv == /\ Base /\ Stamped /\ Victims /\ TrimmedHaveSuccessors
        /\ Spread /\ WindowBounded /\ QuietKept

LEMMA Window == Spec => []WInv
<1>1. Init => SInv /\ Busy /\ Tables
  <2>1. Init => SInv /\ Busy
    BY DEF Init, SInv, Pcs, Meets, Field, CrossTalkNeedsOverlap, Busy, Steps, Working,
           InsideChat
  <2>2. Init => Tables
    BY DEF Init, Tables, TxOK
  <2> QED BY <2>1, <2>2
<1>2. Init => WInv
  <2> SUFFICES ASSUME Init PROVE WInv
    OBVIOUS
  <2>1. \A t \in Turns : ~Pending(t) /\ ~Trimming(t)
    BY Phases DEF Init, Pending, Trimming
  <2>2. /\ \A j : InChat(rows, j) = {} /\ InChat(saved, j) = {}
        /\ Cardinality({}) = 0 /\ IsFiniteSet({})
    BY FS_EmptySet DEF Init, InChat
  <2>3. Base /\ Stamped /\ Victims /\ TrimmedHaveSuccessors
    BY <1>1, <2>1, <2>2 DEF Init, Base, SInv, Stamped, Victims, TrimmedHaveSuccessors
  <2>4. Spread
    BY <2>1 DEF Spread, Over, Users
  <2>5. WindowBounded
    <3>1. \A j : Cardinality(Users(j)) \in Nat
      BY <2>3, Finite
    <3>2. \A j : 0 <= MaxMessages + Cardinality(Users(j)) - 1
      BY <3>1, WaChatAssumption
    <3>3. \A j : Cardinality(InChat(rows, j)) <= MaxMessages + Cardinality(Users(j)) - 1
      BY <2>2, <3>2, Zenon
    <3> QED BY <3>3 DEF WindowBounded, Users
  <2>6. QuietKept
    BY <2>1, <2>2, WaChatAssumption DEF QuietKept, Quiet, Users, Init
  <2> QED BY <2>3, <2>4, <2>5, <2>6 DEF WInv
<1>3. SInv /\ Busy /\ Tables /\ [Next]_vars => SInv' /\ Busy' /\ Tables'
  BY StepKeeps, BusyKeeps, TablesKeep DEF SInv
<1>4. SInv /\ Busy /\ Tables => Base
  BY DEF SInv, Base
<1>5. WInv /\ Base' /\ [Next]_vars => WInv'
  BY StampedKeeps, VictimsKeep, TrimmedKeep, SpreadKeeps, WindowKeeps, QuietKeeps DEF WInv
<1> QED BY <1>1, <1>2, <1>3, <1>4, <1>5, PTL DEF Spec

(* However many turns of a chat save at once, its table exceeds the window
   by fewer rows than there are turns (SaveMessage). *)
THEOREM WindowHolds == Spec => []WindowBounded
<1>1. WInv => WindowBounded
  BY DEF WInv
<1> QED BY <1>1, Window, PTL

(* The window pushes a message out only for MaxMessages newer ones that are
   stored, also when the DELETE of an overlapping save acts on an old view. *)
THEOREM OnlyTheOldGo == Spec => []TrimmedHaveSuccessors
<1>1. WInv => TrimmedHaveSuccessors
  BY DEF WInv
<1> QED BY <1>1, Window, PTL

(* A chat whose turns never overlap forgets nothing but what the window
   pushed out or a stored summary covers (compressIfNeeded). *)
THEOREM QuietChatsRemember == Spec => []QuietChatsForgetNothing
<1>1. WInv => QuietChatsForgetNothing
  BY DEF WInv, QuietKept, Quiet, QuietChatsForgetNothing
<1> QED BY <1>1, Window, PTL
=============================================================================
