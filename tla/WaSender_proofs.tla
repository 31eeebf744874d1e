--------------------------- MODULE WaSender_proofs ---------------------------
(***************************************************************************)
(* Safety of the WhatsApp sender for every set of messages and pods, every *)
(* interval, clock offset and fault bound, and that it implements          *)
(* WaOutbox.                                                               *)
(***************************************************************************)
EXTENDS WaSender, TLAPS

(* RPUSH adds one element at the end: the list keeps its other elements,
   and stays free of duplicates if the new one was not in it. *)
LEMMA AppendRange ==
    ASSUME NEW S, NEW q \in Seq(S), NEW e \in S
    PROVE  /\ Append(q, e) \in Seq(S)
           /\ Range(Append(q, e)) = Range(q) \cup {e}
           /\ IsInjective(q) /\ e \notin Range(q) => IsInjective(Append(q, e))
<1>1. /\ Append(q, e) \in Seq(S) /\ Len(q) \in Nat /\ DOMAIN q = 1..Len(q)
      /\ DOMAIN Append(q, e) = 1..(Len(q) + 1)
      /\ \A i \in 1..Len(q) : Append(q, e)[i] = q[i]
      /\ Append(q, e)[Len(q) + 1] = e
  OBVIOUS
<1>2. \A x \in Range(Append(q, e)) : x \in Range(q) \cup {e}
  <2> SUFFICES ASSUME NEW i \in 1..(Len(q) + 1)
               PROVE  Append(q, e)[i] \in Range(q) \cup {e}
    BY <1>1 DEF Range
  <2>1. CASE i \in 1..Len(q)
    BY <2>1, <1>1 DEF Range
  <2>2. CASE i = Len(q) + 1
    BY <2>2, <1>1
  <2> QED BY <2>1, <2>2, <1>1
<1>3. \A x \in Range(q) \cup {e} : x \in Range(Append(q, e))
  <2>1. e \in Range(Append(q, e))
    BY <1>1 DEF Range
  <2>2. ASSUME NEW i \in DOMAIN q PROVE q[i] \in Range(Append(q, e))
    <3>1. i \in DOMAIN Append(q, e) /\ Append(q, e)[i] = q[i]
      BY <1>1
    <3> QED BY <3>1 DEF Range
  <2> QED BY <2>1, <2>2 DEF Range
<1>4. IsInjective(q) /\ e \notin Range(q) => IsInjective(Append(q, e))
  <2> SUFFICES ASSUME IsInjective(q), e \notin Range(q),
                      NEW i \in 1..(Len(q) + 1), NEW j \in 1..(Len(q) + 1),
                      Append(q, e)[i] = Append(q, e)[j]
               PROVE  i = j
    BY <1>1 DEF IsInjective
  <2>1. \A k \in 1..Len(q) : q[k] # e
    BY <1>1 DEF Range
  <2>2. CASE i \in 1..Len(q) /\ j \in 1..Len(q)
    BY <2>2, <1>1 DEF IsInjective
  <2>3. CASE i = Len(q) + 1 \/ j = Len(q) + 1
    BY <2>1, <2>3, <1>1
  <2> QED BY <2>2, <2>3, <1>1
<1> QED BY <1>1, <1>2, <1>3, <1>4

(* BLPOP takes the head: the rest keeps the other elements, and the head is
   not among them when the list was free of duplicates. *)
LEMMA TailRange ==
    ASSUME NEW S, NEW q \in Seq(S), q # <<>>
    PROVE  /\ Head(q) \in S
           /\ Tail(q) \in Seq(S)
           /\ Range(q) = Range(Tail(q)) \cup {Head(q)}
           /\ IsInjective(q) => IsInjective(Tail(q)) /\ Head(q) \notin Range(Tail(q))
<1>1. Head(q) \in S /\ Tail(q) \in Seq(S) /\ Head(q) = q[1]
  OBVIOUS
<1>2. /\ Len(q) \in Nat \ {0} /\ DOMAIN q = 1..Len(q)
      /\ DOMAIN Tail(q) = 1..(Len(q) - 1)
      /\ \A i \in 1..(Len(q) - 1) : Tail(q)[i] = q[i + 1]
  OBVIOUS
<1>3. \A x \in Range(q) : x = Head(q) \/ x \in Range(Tail(q))
  <2> SUFFICES ASSUME NEW i \in DOMAIN q
               PROVE  q[i] = Head(q) \/ q[i] \in Range(Tail(q))
    BY DEF Range
  <2>1. CASE i = 1
    BY <2>1, <1>1
  <2>2. CASE i # 1
    <3>1. i - 1 \in 1..(Len(q) - 1) /\ Tail(q)[i - 1] = q[i]
      BY <2>2, <1>2
    <3> QED BY <3>1, <1>2 DEF Range
  <2> QED BY <2>1, <2>2
<1>4. \A x \in Range(Tail(q)) : x \in Range(q)
  <2> SUFFICES ASSUME NEW i \in DOMAIN Tail(q)
               PROVE  Tail(q)[i] \in Range(q)
    BY DEF Range
  <2>1. i + 1 \in DOMAIN q /\ Tail(q)[i] = q[i + 1]
    BY <1>2
  <2> QED BY <2>1 DEF Range
<1>5. Head(q) \in Range(q)
  BY <1>1, <1>2 DEF Range
<1>6. IsInjective(q) => IsInjective(Tail(q))
  <2> SUFFICES ASSUME IsInjective(q),
                      NEW i \in DOMAIN Tail(q), NEW j \in DOMAIN Tail(q),
                      Tail(q)[i] = Tail(q)[j]
               PROVE  i = j
    BY DEF IsInjective
  <2>1. q[i + 1] = q[j + 1] /\ i + 1 \in DOMAIN q /\ j + 1 \in DOMAIN q
    BY <1>2
  <2> QED BY <2>1, <1>2 DEF IsInjective
<1>7. IsInjective(q) => Head(q) \notin Range(Tail(q))
  <2> SUFFICES ASSUME IsInjective(q), NEW i \in DOMAIN Tail(q), Head(q) = Tail(q)[i]
               PROVE  FALSE
    BY DEF Range
  <2>1. q[1] = q[i + 1] /\ i + 1 \in DOMAIN q /\ 1 \in DOMAIN q /\ i + 1 # 1
    BY <1>1, <1>2
  <2> QED BY <2>1 DEF IsInjective
<1> QED BY <1>1, <1>3, <1>4, <1>5, <1>6, <1>7

(* The empty list. *)
LEMMA EmptyRange == Range(<<>>) = {} /\ IsInjective(<<>>)
  BY DEF Range, IsInjective

-----------------------------------------------------------------------------
LEMMA InitIInv == Init => IInv
<1> SUFFICES ASSUME Init PROVE IInv
  OBVIOUS
<1> USE WaSenderAssumption, SentinelAssumption, EmptyRange DEF Init
<1>1. TypeOK
  BY DEF TypeOK, CallerStates, PodStates, Holding
<1>2. Phases /\ OneCustodian /\ Fresh /\ Fates
  BY DEF Phases, OneCustodian, Fresh, Fates, Queued, NoResult, NoMsg
<1>3. AcceptedAtMostOnce /\ OkMeansAccepted
  BY DEF AcceptedAtMostOnce, OkMeansAccepted
<1> QED BY <1>1, <1>2, <1>3 DEF IInv

-----------------------------------------------------------------------------
(* Every action keeps the inductive invariant. *)

LEMMA SendMessageKeeps ==
    ASSUME IInv, NEW m \in Msgs, SendMessage(m)
    PROVE  IInv'
<1> USE WaSenderAssumption, SentinelAssumption
<1>1. queue' = queue \/ queue' = Append(queue, m)
  BY DEF SendMessage
<1>2. /\ queue' \in Seq(Msgs)
      /\ Range(queue') \subseteq Range(queue) \cup {m}
      /\ IsInjective(queue) /\ m \notin Range(queue) => IsInjective(queue')
  <2>1. queue \in Seq(Msgs)
    BY DEF IInv, TypeOK
  <2>2. CASE queue' = queue
    BY <2>1, <2>2
  <2>3. CASE queue' = Append(queue, m)
    BY <2>1, <2>3, AppendRange
  <2> QED BY <1>1, <2>2, <2>3
<1>3. TypeOK'
  <2> USE DEF IInv, TypeOK, SendMessage
  <2>1. caller' \in [Msgs -> CallerStates]
    BY DEF CallerStates
  <2>2. faults' \in 0..MaxFaults
    BY DEF Fault, NoFault
  <2>3. gate' \in {NoKey} \cup Keys
    OBVIOUS
  <2>4. \A r \in Pods : hand'[r] # NoMsg <=> pc'[r] \in Holding
    BY DEF worker
  <2> QED BY <1>2, <2>1, <2>2, <2>3, <2>4 DEF worker, history
<1>4. Phases'
  BY DEF IInv, Phases, SendMessage, worker
<1>5. OneCustodian'
  BY <1>2 DEF IInv, TypeOK, OneCustodian, Queued, SendMessage, Fresh, worker
<1>6. Fresh'
  BY <1>2, ZenonT(60) DEF IInv, TypeOK, Fresh, Queued, SendMessage, worker, history
<1>7. Fates'
  BY <1>2, ZenonT(60) DEF IInv, TypeOK, Fresh, Fates, Queued, SendMessage, worker, history
<1>8. AcceptedAtMostOnce' /\ OkMeansAccepted'
  BY DEF IInv, TypeOK, AcceptedAtMostOnce, OkMeansAccepted, SendMessage, history
<1> QED BY <1>3, <1>4, <1>5, <1>6, <1>7, <1>8 DEF IInv

LEMMA AwaitResultKeeps ==
    ASSUME IInv, NEW m \in Msgs, AwaitResult(m)
    PROVE  IInv'
<1> USE WaSenderAssumption, SentinelAssumption DEF AwaitResult
<1>a. outbox[m] # NoResult => outbox[m].val \in {"ok", "err"}
  BY DEF IInv, TypeOK, Results
<1>b. \A k \in Msgs : outbox'[k] = outbox[k] \/ outbox'[k] = NoResult
  BY DEF IInv, TypeOK
<1>c. \A k \in Msgs : caller'[k] = "new" => caller[k] = "new"
  BY <1>a DEF IInv, TypeOK
<1>1. TypeOK'
  <2> USE DEF IInv, TypeOK, Phases
  <2>1. queue' \in Seq(Msgs) /\ gate' \in {NoKey} \cup Keys
    BY DEF redis
  <2>2. outbox' \in [Msgs -> {NoResult} \cup Results]
    BY DEF redis
  <2>3. caller' \in [Msgs -> CallerStates] /\ left' \in [Msgs -> Nat]
    <3>1. left' = left \/ \E t \in Nat : left' = [left EXCEPT ![m] = t]
      OBVIOUS
    <3>2. left \in [Msgs -> Nat] /\ caller \in [Msgs -> CallerStates]
      OBVIOUS
    <3>3. \/ caller' = [caller EXCEPT ![m] = "waiting"]
          \/ \E v \in {"ok", "err"} : caller' = [caller EXCEPT ![m] = v]
      BY <1>a
    <3> HIDE DEF AwaitResult, IInv, TypeOK
    <3>4. left' \in [Msgs -> Nat]
      BY <3>1, <3>2
    <3>5. caller' \in [Msgs -> CallerStates]
      BY <3>2, <3>3 DEF CallerStates
    <3> QED BY <3>4, <3>5
  <2>4. pc' \in [Pods -> PodStates] /\ hand' \in [Pods -> Msgs \cup {NoMsg}]
    BY DEF worker, PodStates, Holding
  <2>5. \A r \in Pods : hand'[r] # NoMsg <=> pc'[r] \in Holding
    BY DEF worker, PodStates, Holding
  <2>6. tries' \in [Pods -> 0..MaxRetries] /\ wait' \in [Pods -> Nat]
    BY DEF worker
  <2>7. verdict' \in [Pods -> Answers \cup {"none", "ok", "err"}]
    BY DEF worker, Answers
  <2>8. closed' \in [Pods -> BOOLEAN] /\ accepted' \in [Msgs -> Nat]
    BY DEF history
  <2>9. sinceRead' \in 0..(Interval + MaxLag) /\ faults' \in 0..MaxFaults
    BY DEF history, Fault, NoFault
  <2>10. read' \in [Pods -> 0..MaxLag] /\ torn' \subseteq Msgs
    BY DEF worker, history
  <2> QED BY <2>1, <2>2, <2>3, <2>4, <2>5, <2>6, <2>7, <2>8, <2>9, <2>10
<1>2. Phases'
  BY DEF IInv, TypeOK, Phases, worker, Answers
<1>3. OneCustodian'
  BY DEF IInv, TypeOK, OneCustodian, Queued, redis, worker
<1>4. Fresh'
  BY <1>b, <1>c DEF IInv, Fresh, Queued, worker, history
<1>5. Fates'
  BY <1>b DEF IInv, Fates, Queued, worker, history, NoResult
<1>6. AcceptedAtMostOnce' /\ OkMeansAccepted'
  BY SMTT(30) DEF IInv, TypeOK, Fates, AcceptedAtMostOnce, OkMeansAccepted, redis, callers,
              worker, history
<1> QED BY <1>1, <1>2, <1>3, <1>4, <1>5, <1>6 DEF IInv

LEMMA TimeOutKeeps ==
    ASSUME IInv, NEW m \in Msgs, TimeOut(m)
    PROVE  IInv'
<1> USE WaSenderAssumption, SentinelAssumption DEF TimeOut
<1>1. TypeOK'
  BY DEF IInv, TypeOK, Phases, redis, callers, worker, history, Fault, NoFault,
         CallerStates, PodStates, Holding, Answers
<1>2. Phases'
  BY DEF IInv, TypeOK, Phases, worker, Answers
<1>3. OneCustodian'
  BY DEF IInv, TypeOK, OneCustodian, Queued, redis, worker
<1>4. Fresh'
  BY DEF IInv, TypeOK, Fresh, Queued, redis, callers, worker, history
<1>5. Fates'
  BY DEF IInv, TypeOK, Phases, Fresh, Fates, Queued, redis, callers, worker, history
<1>6. AcceptedAtMostOnce' /\ OkMeansAccepted'
  BY SMTT(30) DEF IInv, TypeOK, Fates, AcceptedAtMostOnce, OkMeansAccepted, redis, callers,
              worker, history
<1> QED BY <1>1, <1>2, <1>3, <1>4, <1>5, <1>6 DEF IInv

LEMMA WaitFailsKeeps ==
    ASSUME IInv, NEW m \in Msgs, WaitFails(m)
    PROVE  IInv'
<1> USE WaSenderAssumption, SentinelAssumption DEF WaitFails
<1>1. TypeOK'
  BY SMTT(30) DEF IInv, TypeOK, Phases, redis, callers, worker, history, Fault, NoFault,
         CallerStates, PodStates, Holding, Answers
<1>2. Phases'
  BY DEF IInv, TypeOK, Phases, worker, Answers
<1>3. OneCustodian'
  BY DEF IInv, TypeOK, OneCustodian, Queued, redis, worker
<1>4. Fresh'
  BY DEF IInv, TypeOK, Fresh, Queued, redis, callers, worker, history
<1>5. Fates'
  BY DEF IInv, TypeOK, Phases, Fresh, Fates, Queued, redis, callers, worker, history
<1>6. AcceptedAtMostOnce' /\ OkMeansAccepted'
  BY SMTT(30) DEF IInv, TypeOK, Fates, AcceptedAtMostOnce, OkMeansAccepted, redis, callers,
              worker, history
<1> QED BY <1>1, <1>2, <1>3, <1>4, <1>5, <1>6 DEF IInv

LEMMA DequeueKeeps ==
    ASSUME IInv, NEW p \in Pods, Dequeue(p)
    PROVE  IInv'
<1> USE WaSenderAssumption, SentinelAssumption DEF Dequeue
<1>a. queue \in Seq(Msgs) /\ queue # <<>>
  BY DEF IInv, TypeOK
<1>b. /\ Head(queue) \in Msgs /\ queue' \in Seq(Msgs)
      /\ Range(queue) = Range(queue') \cup {Head(queue)}
      /\ IsInjective(queue) => IsInjective(queue') /\ Head(queue) \notin Range(queue')
  BY <1>a, TailRange
<1>c. PICK h \in Msgs : h = Head(queue)
  BY <1>b
<1>d. \/ /\ pc' = [pc EXCEPT ![p] = "gate"] /\ hand' = [hand EXCEPT ![p] = h]
         /\ faults' = faults
      \/ /\ pc' = pc /\ hand' = hand
         /\ faults < MaxFaults /\ faults' = faults + 1
  BY <1>c DEF Fault, NoFault
<1>g. /\ pc \in [Pods -> PodStates] /\ hand \in [Pods -> Msgs \cup {NoMsg}]
      /\ \A r \in Pods : hand[r] # NoMsg <=> pc[r] \in Holding
  BY DEF IInv, TypeOK
<1>f. sinceRead' = sinceRead
  BY DEF history
<1>e. pc[p] = "idle"
  OBVIOUS
<1>1. TypeOK'
  <2> USE DEF IInv, TypeOK, Phases
  <2>1. queue' \in Seq(Msgs) /\ gate' \in {NoKey} \cup Keys
    BY DEF redis
  <2>2. outbox' \in [Msgs -> {NoResult} \cup Results]
    BY DEF redis
  <2>3. caller' \in [Msgs -> CallerStates] /\ left' \in [Msgs -> Nat]
    BY DEF callers, CallerStates
  <2>4. pc' \in [Pods -> PodStates] /\ hand' \in [Pods -> Msgs \cup {NoMsg}]
    <3> HIDE DEF Dequeue, IInv, TypeOK, Phases
    <3> QED BY <1>d, <1>g DEF PodStates
  <2>5. \A r \in Pods : hand'[r] # NoMsg <=> pc'[r] \in Holding
    <3> HIDE DEF Dequeue, IInv, TypeOK, Phases
    <3> QED BY <1>d, <1>e, <1>g DEF PodStates, Holding
  <2>6. tries' \in [Pods -> 0..MaxRetries] /\ wait' \in [Pods -> Nat]
    BY DEF worker
  <2>7. verdict' \in [Pods -> Answers \cup {"none", "ok", "err"}]
    BY DEF worker, Answers
  <2>8. closed' \in [Pods -> BOOLEAN] /\ accepted' \in [Msgs -> Nat]
    BY DEF history
  <2>9. sinceRead' \in 0..(Interval + MaxLag) /\ faults' \in 0..MaxFaults
    <3> sinceRead \in 0..(Interval + MaxLag) /\ faults \in 0..MaxFaults /\ MaxFaults \in Nat
      OBVIOUS
    <3> HIDE DEF Dequeue, IInv, TypeOK, Phases
    <3> QED BY <1>d, <1>f
  <2>10. read' \in [Pods -> 0..MaxLag] /\ torn' \subseteq Msgs
    BY DEF worker, history
  <2> QED BY <2>1, <2>2, <2>3, <2>4, <2>5, <2>6, <2>7, <2>8, <2>9, <2>10
<1>2. Phases'
  BY DEF IInv, TypeOK, Phases, worker, Answers
<1>3. OneCustodian'
  <2>1. IsInjective(queue') /\ Head(queue) \notin Queued' /\ Queued' \subseteq Queued
    BY <1>b DEF IInv, OneCustodian, Queued
  <2>2. \A r \in Pods : hand[r] \notin Queued /\ hand[r] # Head(queue)
    BY <1>b DEF IInv, OneCustodian, Queued
  <2>3. \A r \in Pods : hand'[r] = IF hand' # hand /\ r = p THEN Head(queue) ELSE hand[r]
    BY DEF IInv, TypeOK
  <2>4. \A r \in Pods : hand'[r] \notin Queued'
    BY <2>1, <2>2, <2>3
  <2>5. \A q, r \in Pods : hand'[q] = hand'[r] /\ hand'[q] # NoMsg => q = r
    BY <2>2, <2>3 DEF IInv, OneCustodian
  <2> QED BY <2>1, <2>4, <2>5 DEF OneCustodian
<1>4. Fresh'
  BY <1>b, ZenonT(60) DEF IInv, TypeOK, Fresh, Queued, redis, callers, worker, history
<1>5. Fates'
  <2>1. accepted[Head(queue)] = 0 /\ \A k \in Queued' : accepted'[k] = 0
    BY <1>b DEF IInv, Fates, Queued, history
  <2>2. \A r \in Pods : \/ pc'[r] = pc[r] /\ hand'[r] = hand[r]
                        \/ pc'[r] = "gate" /\ hand'[r] = Head(queue)
    <3> HIDE DEF Dequeue
    <3> QED BY <1>c, <1>d, <1>g
  <2> QED BY <2>1, <2>2 DEF IInv, Fates, history
<1>6. AcceptedAtMostOnce' /\ OkMeansAccepted'
  BY SMTT(30) DEF IInv, TypeOK, Fates, AcceptedAtMostOnce, OkMeansAccepted, redis, callers,
              worker, history
<1> QED BY <1>1, <1>2, <1>3, <1>4, <1>5, <1>6 DEF IInv

LEMMA WaitForSlotKeeps ==
    ASSUME IInv, NEW p \in Pods, WaitForSlot(p)
    PROVE  IInv'
<1> USE WaSenderAssumption, SentinelAssumption DEF WaitForSlot
<1>1. TypeOK'
  <2> USE DEF IInv, TypeOK, Phases
  <2>1. queue' \in Seq(Msgs) /\ gate' \in {NoKey} \cup Keys
    BY DEF redis
  <2>2. outbox' \in [Msgs -> {NoResult} \cup Results]
    BY DEF redis
  <2>3. caller' \in [Msgs -> CallerStates] /\ left' \in [Msgs -> Nat]
    BY DEF callers, CallerStates
  <2>4. pc' \in [Pods -> PodStates] /\ hand' \in [Pods -> Msgs \cup {NoMsg}]
    BY ZenonT(60) DEF worker, PodStates, Holding
  <2>5. \A r \in Pods : hand'[r] # NoMsg <=> pc'[r] \in Holding
    BY ZenonT(60) DEF worker, PodStates, Holding
  <2>6. tries' \in [Pods -> 0..MaxRetries] /\ wait' \in [Pods -> Nat]
    BY DEF worker
  <2>7. verdict' \in [Pods -> Answers \cup {"none", "ok", "err"}]
    BY DEF worker, Answers
  <2>8. closed' \in [Pods -> BOOLEAN] /\ accepted' \in [Msgs -> Nat]
    BY DEF history
  <2>9. sinceRead' \in 0..(Interval + MaxLag) /\ faults' \in 0..MaxFaults
    BY DEF history, Fault, NoFault
  <2>10. read' \in [Pods -> 0..MaxLag] /\ torn' \subseteq Msgs
    BY DEF worker, history
  <2> QED BY <2>1, <2>2, <2>3, <2>4, <2>5, <2>6, <2>7, <2>8, <2>9, <2>10
<1>2. Phases'
  BY DEF IInv, TypeOK, Phases, worker, Answers
<1>3. OneCustodian'
  BY DEF IInv, TypeOK, OneCustodian, Queued, redis, worker
<1>4. Fresh'
  BY DEF IInv, TypeOK, Fresh, Queued, redis, callers, worker, history
<1>5. Fates'
  BY DEF IInv, TypeOK, Phases, Fresh, Fates, Queued, redis, callers, worker, history
<1>6. AcceptedAtMostOnce' /\ OkMeansAccepted'
  BY SMTT(30) DEF IInv, TypeOK, Fates, AcceptedAtMostOnce, OkMeansAccepted, redis, callers,
              worker, history
<1> QED BY <1>1, <1>2, <1>3, <1>4, <1>5, <1>6 DEF IInv

LEMMA AcquireSendSlotKeeps ==
    ASSUME IInv, NEW p \in Pods, AcquireSendSlot(p)
    PROVE  IInv'
<1> USE WaSenderAssumption, SentinelAssumption DEF AcquireSendSlot, Granted, Denied, Ungated, TakeSlot
<1>a. ~SlotFree(p) => Interval - Elapsed(p) \in Nat
  <2>1. ~SlotFree(p) => /\ gate.age \in Nat /\ gate.late \in Nat /\ read[p] \in Nat
                        /\ Skew[p] \in Int /\ Skew[gate.by] \in Int
    <3>1. /\ gate \in {NoKey} \cup Keys /\ read \in [Pods -> 0..MaxLag]
          /\ ~SlotFree(p) => gate # NoKey
      BY DEF IInv, TypeOK, SlotFree
    <3> HIDE DEF AcquireSendSlot
    <3>2. gate \in Keys => /\ gate.age \in Nat /\ gate.late \in Nat
                           /\ Skew[gate.by] \in Int
      BY DEF Keys
    <3> QED BY <3>1, <3>2
  <2> QED BY <2>1 DEF SlotFree, Elapsed
<1>1. TypeOK'
  <2> USE DEF IInv, TypeOK, Phases
  <2>1. queue' \in Seq(Msgs) /\ gate' \in {NoKey} \cup Keys
    <3>1. [age |-> 0, late |-> read[p], by |-> p] \in Keys
      BY DEF Keys
    <3> QED BY <3>1 DEF redis
  <2>2. outbox' \in [Msgs -> {NoResult} \cup Results]
    BY DEF redis
  <2>3. caller' \in [Msgs -> CallerStates] /\ left' \in [Msgs -> Nat]
    BY DEF callers, CallerStates
  <2>4. pc' \in [Pods -> PodStates] /\ hand' \in [Pods -> Msgs \cup {NoMsg}]
    BY ZenonT(60) DEF worker, PodStates, Holding
  <2>5. \A r \in Pods : hand'[r] # NoMsg <=> pc'[r] \in Holding
    BY ZenonT(60) DEF worker, PodStates, Holding
  <2>6. tries' \in [Pods -> 0..MaxRetries] /\ wait' \in [Pods -> Nat]
    <3>1. \/ wait' = wait
          \/ ~SlotFree(p) /\ wait' = [wait EXCEPT ![p] = Interval - Elapsed(p)]
      OBVIOUS
    <3>2. wait' \in [Pods -> Nat]
      BY <3>1, <1>a, ZenonT(60)
    <3> QED BY <3>2
  <2>7. verdict' \in [Pods -> Answers \cup {"none", "ok", "err"}]
    BY DEF worker, Answers
  <2>8. closed' \in [Pods -> BOOLEAN] /\ accepted' \in [Msgs -> Nat]
    BY DEF history
  <2>9. sinceRead' \in 0..(Interval + MaxLag) /\ faults' \in 0..MaxFaults
    BY DEF history, Fault, NoFault
  <2>10. read' \in [Pods -> 0..MaxLag] /\ torn' \subseteq Msgs
    BY DEF worker, history
  <2> QED BY <2>1, <2>2, <2>3, <2>4, <2>5, <2>6, <2>7, <2>8, <2>9, <2>10
<1>2. Phases'
  BY DEF IInv, TypeOK, Phases, worker, Answers
<1>3. OneCustodian'
  BY DEF IInv, TypeOK, OneCustodian, Queued, redis, worker
<1>4. Fresh'
  BY DEF IInv, TypeOK, Fresh, Queued, redis, callers, worker, history
<1>5. Fates'
  BY DEF IInv, TypeOK, Phases, Fresh, Fates, Queued, redis, callers, worker, history
<1>6. AcceptedAtMostOnce' /\ OkMeansAccepted'
  BY SMTT(30) DEF IInv, TypeOK, Fates, AcceptedAtMostOnce, OkMeansAccepted, redis, callers,
              worker, history
<1> QED BY <1>1, <1>2, <1>3, <1>4, <1>5, <1>6 DEF IInv

LEMMA WakeKeeps ==
    ASSUME IInv, NEW p \in Pods, Wake(p)
    PROVE  IInv'
<1> USE WaSenderAssumption, SentinelAssumption DEF Wake
<1>1. TypeOK'
  <2> USE DEF IInv, TypeOK, Phases
  <2>1. queue' \in Seq(Msgs) /\ gate' \in {NoKey} \cup Keys
    BY DEF redis
  <2>2. outbox' \in [Msgs -> {NoResult} \cup Results]
    BY DEF redis
  <2>3. caller' \in [Msgs -> CallerStates] /\ left' \in [Msgs -> Nat]
    BY DEF callers, CallerStates
  <2>4. pc' \in [Pods -> PodStates] /\ hand' \in [Pods -> Msgs \cup {NoMsg}]
    BY ZenonT(60) DEF worker, PodStates, Holding
  <2>5. \A r \in Pods : hand'[r] # NoMsg <=> pc'[r] \in Holding
    BY ZenonT(60) DEF worker, PodStates, Holding
  <2>6. tries' \in [Pods -> 0..MaxRetries] /\ wait' \in [Pods -> Nat]
    BY DEF worker
  <2>7. verdict' \in [Pods -> Answers \cup {"none", "ok", "err"}]
    BY DEF worker, Answers
  <2>8. closed' \in [Pods -> BOOLEAN] /\ accepted' \in [Msgs -> Nat]
    BY DEF history
  <2>9. sinceRead' \in 0..(Interval + MaxLag) /\ faults' \in 0..MaxFaults
    BY DEF history, Fault, NoFault
  <2>10. read' \in [Pods -> 0..MaxLag] /\ torn' \subseteq Msgs
    BY DEF worker, history
  <2> QED BY <2>1, <2>2, <2>3, <2>4, <2>5, <2>6, <2>7, <2>8, <2>9, <2>10
<1>2. Phases'
  BY DEF IInv, TypeOK, Phases, worker, Answers
<1>3. OneCustodian'
  BY DEF IInv, TypeOK, OneCustodian, Queued, redis, worker
<1>4. Fresh'
  BY DEF IInv, TypeOK, Fresh, Queued, redis, callers, worker, history
<1>5. Fates'
  BY DEF IInv, TypeOK, Phases, Fresh, Fates, Queued, redis, callers, worker, history
<1>6. AcceptedAtMostOnce' /\ OkMeansAccepted'
  BY SMTT(30) DEF IInv, TypeOK, Fates, AcceptedAtMostOnce, OkMeansAccepted, redis, callers,
              worker, history
<1> QED BY <1>1, <1>2, <1>3, <1>4, <1>5, <1>6 DEF IInv

LEMMA RequestKeeps ==
    ASSUME IInv, NEW p \in Pods, Request(p)
    PROVE  IInv'
<1> USE WaSenderAssumption, SentinelAssumption DEF Request
<1>a. hand[p] \in Msgs /\ accepted[hand[p]] = 0
  BY ZenonT(60) DEF IInv, TypeOK, Fates, Holding, PodStates
<1>b. PICK a \in Answers :
        /\ verdict' = [verdict EXCEPT ![p] = a]
        /\ accepted' = [accepted EXCEPT ![hand[p]] =
                          IF a \in {"accept", "acceptLost"} THEN @ + 1 ELSE @]
  OBVIOUS
<1>c. \A k \in Msgs : accepted'[k] = IF k = hand[p] /\ a \in {"accept", "acceptLost"}
                                    THEN 1 ELSE accepted[k]
  BY <1>a, <1>b, SMTT(30) DEF IInv, TypeOK
<1>1. TypeOK'
  <2> USE DEF IInv, TypeOK, Phases
  <2>1. queue' \in Seq(Msgs) /\ gate' \in {NoKey} \cup Keys
    BY DEF redis
  <2>2. outbox' \in [Msgs -> {NoResult} \cup Results]
    BY DEF redis
  <2>3. caller' \in [Msgs -> CallerStates] /\ left' \in [Msgs -> Nat]
    BY DEF callers, CallerStates
  <2>4. pc' \in [Pods -> PodStates] /\ hand' \in [Pods -> Msgs \cup {NoMsg}]
    BY DEF worker, PodStates, Holding
  <2>5. \A r \in Pods : hand'[r] # NoMsg <=> pc'[r] \in Holding
    BY DEF worker, PodStates, Holding
  <2>6. tries' \in [Pods -> 0..MaxRetries] /\ wait' \in [Pods -> Nat]
    BY DEF worker
  <2>7. verdict' \in [Pods -> Answers \cup {"none", "ok", "err"}]
    BY DEF worker, Answers
  <2>8. closed' \in [Pods -> BOOLEAN] /\ accepted' \in [Msgs -> Nat]
    BY <1>a, <1>b
  <2>9. sinceRead' \in 0..(Interval + MaxLag) /\ faults' \in 0..MaxFaults
    BY DEF history, Fault, NoFault
  <2>10. read' \in [Pods -> 0..MaxLag] /\ torn' \subseteq Msgs
    BY DEF worker, history
  <2> QED BY <2>1, <2>2, <2>3, <2>4, <2>5, <2>6, <2>7, <2>8, <2>9, <2>10
<1>2. Phases'
  BY DEF IInv, TypeOK, Phases, worker, Answers
<1>3. OneCustodian'
  BY DEF IInv, TypeOK, OneCustodian, Queued, redis, worker
<1>4. Fresh'
  BY DEF IInv, TypeOK, Fresh, Queued, redis, callers, worker, history
<1>5. Fates'
  <2>1. \A k \in Queued : accepted'[k] = 0
    BY <1>a, <1>c DEF IInv, TypeOK, OneCustodian, Fates, Queued, Range
  <2>2. ASSUME NEW r \in Pods, r # p, hand[r] \in Msgs
        PROVE  accepted'[hand[r]] = accepted[hand[r]]
    BY <2>2, <1>a, <1>c DEF IInv, TypeOK, OneCustodian
  <2>3. ASSUME NEW r \in Pods, r # p
        PROVE  /\ pc[r] \in {"gate", "ask", "sleep", "send", "backoff", "http",
                               "publish"}
                     => hand[r] \in Msgs
               /\ pc'[r] = pc[r] /\ verdict'[r] = verdict[r]
    BY <2>3, <1>b, ZenonT(60) DEF IInv, TypeOK, Holding, PodStates
  <2>4. /\ pc'[p] = "http" /\ verdict'[p] = a
        /\ accepted'[hand[p]] = IF a \in {"accept", "acceptLost"} THEN 1 ELSE 0
    BY <1>a, <1>b, <1>c DEF IInv, TypeOK
  <2>5. \A k \in Msgs : outbox[k].val = "ok" => accepted'[k] = 1
    BY <1>a, <1>c DEF IInv, Fates
  <2> QED BY <2>1, <2>2, <2>3, <2>4, <2>5 DEF IInv, Fates, Queued, redis
<1>6. AcceptedAtMostOnce' /\ OkMeansAccepted'
  BY SMTT(30) DEF IInv, TypeOK, Fates, AcceptedAtMostOnce, OkMeansAccepted, redis, callers,
              worker, history
<1> QED BY <1>1, <1>2, <1>3, <1>4, <1>5, <1>6 DEF IInv

LEMMA ReplyKeeps ==
    ASSUME IInv, NEW p \in Pods, Reply(p)
    PROVE  IInv'
<1> USE WaSenderAssumption, SentinelAssumption DEF Reply, Throttled, Answered
<1>1. TypeOK'
  <2> USE DEF IInv, TypeOK, Phases
  <2>1. queue' \in Seq(Msgs) /\ gate' \in {NoKey} \cup Keys
    BY DEF redis
  <2>2. outbox' \in [Msgs -> {NoResult} \cup Results]
    BY DEF redis
  <2>3. caller' \in [Msgs -> CallerStates] /\ left' \in [Msgs -> Nat]
    BY DEF callers, CallerStates
  <2>4. pc' \in [Pods -> PodStates] /\ hand' \in [Pods -> Msgs \cup {NoMsg}]
    BY DEF worker, PodStates, Holding
  <2>5. \A r \in Pods : hand'[r] # NoMsg <=> pc'[r] \in Holding
    BY ZenonT(60) DEF worker, PodStates, Holding
  <2>6. tries' \in [Pods -> 0..MaxRetries] /\ wait' \in [Pods -> Nat]
    <3>1. wait' = wait \/ \E t \in Nat : wait' = [wait EXCEPT ![p] = t]
      OBVIOUS
    <3>2. wait \in [Pods -> Nat] /\ tries' \in [Pods -> 0..MaxRetries]
      OBVIOUS
    <3> HIDE DEF Reply, Throttled, Answered, IInv, TypeOK
    <3> QED BY <3>1, <3>2
  <2>7. verdict' \in [Pods -> Answers \cup {"none", "ok", "err"}]
    BY ZenonT(60)
  <2>8. closed' \in [Pods -> BOOLEAN] /\ accepted' \in [Msgs -> Nat]
    BY DEF history
  <2>9. sinceRead' \in 0..(Interval + MaxLag) /\ faults' \in 0..MaxFaults
    BY DEF history, Fault, NoFault
  <2>10. read' \in [Pods -> 0..MaxLag] /\ torn' \subseteq Msgs
    BY DEF worker, history
  <2> QED BY <2>1, <2>2, <2>3, <2>4, <2>5, <2>6, <2>7, <2>8, <2>9, <2>10
<1>2. Phases'
  BY ZenonT(60) DEF IInv, TypeOK, Phases, worker, Answers
<1>3. OneCustodian'
  BY DEF IInv, TypeOK, OneCustodian, Queued, redis, worker
<1>4. Fresh'
  BY DEF IInv, TypeOK, Fresh, Queued, redis, callers, worker, history
<1>5. Fates'
  <2>1. \A r \in Pods \ {p} : pc'[r] = pc[r] /\ verdict'[r] = verdict[r]
    BY DEF IInv, TypeOK
  <2>2. \/ pc'[p] = "backoff" /\ verdict[p] = "throttle"
        \/ pc'[p] = "publish" /\ (verdict'[p] = "ok" => verdict[p] = "accept")
    <3>1. CASE Throttled(p)
      BY <3>1 DEF IInv, TypeOK
    <3>2. CASE Answered(p)
      <4>1. verdict'[p] = IF verdict[p] = "accept" THEN "ok" ELSE "err"
        BY <3>2 DEF IInv, TypeOK
      <4> QED BY <4>1, <3>2 DEF IInv, TypeOK
    <3> QED BY <3>1, <3>2
  <2>3. /\ pc[p] = "http" /\ hand' = hand /\ accepted' = accepted
        /\ queue' = queue /\ outbox' = outbox
    BY DEF redis, history
  <2>4. Fates
    BY DEF IInv
  <2> HIDE DEF Reply, Throttled, Answered
  <2>5. ASSUME NEW r \in Pods
        PROVE  /\ pc'[r] \in {"gate", "ask", "sleep", "send", "backoff"} => accepted[hand[r]] = 0
               /\ pc'[r] = "http" /\ verdict'[r] \in {"throttle", "refuse"}
                     => accepted[hand[r]] = 0
               /\ pc'[r] = "http" /\ verdict'[r] = "accept" => accepted[hand[r]] = 1
               /\ pc'[r] = "publish" /\ verdict'[r] = "ok" => accepted[hand[r]] = 1
    <3>1. CASE r = p
      BY <3>1, <2>2, <2>3, <2>4 DEF Fates
    <3>2. CASE r # p
      BY <3>2, <2>1, <2>4 DEF Fates
    <3> QED BY <3>1, <3>2
  <2> QED BY <2>3, <2>4, <2>5 DEF Fates, Queued
<1>6. AcceptedAtMostOnce' /\ OkMeansAccepted'
  BY SMTT(30) DEF IInv, TypeOK, Fates, AcceptedAtMostOnce, OkMeansAccepted, redis, callers,
              worker, history
<1> QED BY <1>1, <1>2, <1>3, <1>4, <1>5, <1>6 DEF IInv

LEMMA RetryKeeps ==
    ASSUME IInv, NEW p \in Pods, Retry(p)
    PROVE  IInv'
<1> USE WaSenderAssumption, SentinelAssumption DEF Retry
<1>1. TypeOK'
  <2> USE DEF IInv, TypeOK, Phases
  <2>1. queue' \in Seq(Msgs) /\ gate' \in {NoKey} \cup Keys
    BY DEF redis
  <2>2. outbox' \in [Msgs -> {NoResult} \cup Results]
    BY DEF redis
  <2>3. caller' \in [Msgs -> CallerStates] /\ left' \in [Msgs -> Nat]
    BY DEF callers, CallerStates
  <2>4. pc' \in [Pods -> PodStates] /\ hand' \in [Pods -> Msgs \cup {NoMsg}]
    BY DEF worker, PodStates, Holding
  <2>5. \A r \in Pods : hand'[r] # NoMsg <=> pc'[r] \in Holding
    BY DEF worker, PodStates, Holding
  <2>6. tries' \in [Pods -> 0..MaxRetries] /\ wait' \in [Pods -> Nat]
    BY DEF worker
  <2>7. verdict' \in [Pods -> Answers \cup {"none", "ok", "err"}]
    BY DEF worker, Answers
  <2>8. closed' \in [Pods -> BOOLEAN] /\ accepted' \in [Msgs -> Nat]
    BY DEF history
  <2>9. sinceRead' \in 0..(Interval + MaxLag) /\ faults' \in 0..MaxFaults
    BY DEF history, Fault, NoFault
  <2>10. read' \in [Pods -> 0..MaxLag] /\ torn' \subseteq Msgs
    BY DEF worker, history
  <2> QED BY <2>1, <2>2, <2>3, <2>4, <2>5, <2>6, <2>7, <2>8, <2>9, <2>10
<1>2. Phases'
  BY DEF IInv, TypeOK, Phases, worker, Answers
<1>3. OneCustodian'
  BY DEF IInv, TypeOK, OneCustodian, Queued, redis, worker
<1>4. Fresh'
  BY DEF IInv, TypeOK, Fresh, Queued, redis, callers, worker, history
<1>5. Fates'
  BY DEF IInv, TypeOK, Phases, Fresh, Fates, Queued, redis, callers, worker, history
<1>6. AcceptedAtMostOnce' /\ OkMeansAccepted'
  BY SMTT(30) DEF IInv, TypeOK, Fates, AcceptedAtMostOnce, OkMeansAccepted, redis, callers,
              worker, history
<1> QED BY <1>1, <1>2, <1>3, <1>4, <1>5, <1>6 DEF IInv

LEMMA PublishKeeps ==
    ASSUME IInv, NEW p \in Pods, Publish(p)
    PROVE  IInv'
<1> USE WaSenderAssumption, SentinelAssumption DEF Publish, Deliver
<1>a. hand[p] \in Msgs /\ verdict[p] \in {"ok", "err"}
  BY DEF IInv, TypeOK, Phases, Holding, PodStates
<1>b. \A k \in Msgs : \/ outbox'[k] = outbox[k]
                      \/ /\ k = hand[p]
                         /\ \E t \in {ResultTTL, NoTTL} :
                               outbox'[k] = [val |-> verdict[p], ttl |-> t]
  BY <1>a DEF IInv, TypeOK, redis
<1>c. \A k \in Msgs : caller'[k] = caller[k] \/ (k = hand[p] /\ caller'[k] = verdict[p])
  <2>1. caller' = caller \/ caller' = [caller EXCEPT ![hand[p]] = verdict[p]]
    BY DEF callers
  <2>2. caller \in [Msgs -> CallerStates]
    BY DEF IInv, TypeOK
  <2> HIDE DEF Publish, Deliver
  <2> QED BY <2>1, <2>2, <1>a
<1>d. \A r \in Pods : hand'[r] = IF r = p THEN NoMsg ELSE hand[r]
  BY DEF IInv, TypeOK
<1>e. \A r \in Pods \ {p} : pc'[r] = pc[r] /\ verdict'[r] = verdict[r]
  BY DEF IInv, TypeOK
<1>f. pc'[p] \in {"stopped", "idle"}
  BY DEF IInv, TypeOK
<1>1. TypeOK'
  <2> USE DEF IInv, TypeOK, Phases
  <2>1. queue' \in Seq(Msgs) /\ gate' \in {NoKey} \cup Keys
    BY DEF redis
  <2>2. outbox' \in [Msgs -> {NoResult} \cup Results]
    <3>1. \A t \in {ResultTTL, NoTTL} : [val |-> verdict[p], ttl |-> t] \in Results
      BY <1>a DEF Results
    <3> QED BY <3>1 DEF redis
  <2>3. caller' \in [Msgs -> CallerStates] /\ left' \in [Msgs -> Nat]
    <3>1. \/ caller' = caller /\ left' = left
          \/ /\ caller' = [caller EXCEPT ![hand[p]] = verdict[p]]
             /\ left' = [left EXCEPT ![hand[p]] = 0]
      BY DEF callers
    <3>2. caller \in [Msgs -> CallerStates] /\ left \in [Msgs -> Nat]
      OBVIOUS
    <3> HIDE DEF Publish, Deliver, IInv, TypeOK
    <3> QED BY <3>1, <3>2, <1>a DEF CallerStates
  <2>4. pc' \in [Pods -> PodStates] /\ hand' \in [Pods -> Msgs \cup {NoMsg}]
    BY DEF worker, PodStates, Holding
  <2>5. \A r \in Pods : hand'[r] # NoMsg <=> pc'[r] \in Holding
    BY DEF worker, PodStates, Holding
  <2>6. tries' \in [Pods -> 0..MaxRetries] /\ wait' \in [Pods -> Nat]
    BY DEF worker
  <2>7. verdict' \in [Pods -> Answers \cup {"none", "ok", "err"}]
    BY DEF worker, Answers
  <2>8. closed' \in [Pods -> BOOLEAN] /\ accepted' \in [Msgs -> Nat]
    BY DEF history
  <2>9. sinceRead' \in 0..(Interval + MaxLag) /\ faults' \in 0..MaxFaults
    BY SMTT(30) DEF history, Fault, NoFault
  <2>10. read' \in [Pods -> 0..MaxLag] /\ torn' \subseteq Msgs
    <3>1. read' = read /\ (torn' = torn \/ torn' = torn \cup {hand[p]})
      OBVIOUS
    <3>2. read \in [Pods -> 0..MaxLag] /\ torn \subseteq Msgs
      OBVIOUS
    <3> HIDE DEF Publish, Deliver, IInv, TypeOK
    <3> QED BY <1>a, <3>1, <3>2
  <2> QED BY <2>1, <2>2, <2>3, <2>4, <2>5, <2>6, <2>7, <2>8, <2>9, <2>10
<1>2. Phases'
  BY DEF IInv, TypeOK, Phases, worker, Answers
<1>3. OneCustodian'
  <2>1. NoMsg \notin Queued
    BY DEF IInv, TypeOK, Queued, Range
  <2> QED BY <2>1, <1>d DEF IInv, OneCustodian, Queued, redis
<1>4. Fresh'
  <2>1. caller[hand[p]] # "new"
    BY <1>a DEF IInv, Fresh
  <2> QED BY <2>1, <1>a, <1>b, <1>c, <1>d DEF IInv, Fresh, Queued, redis, history
<1>5. Fates'
  <2>1. \A k \in Msgs : outbox'[k].val = "ok" => accepted[k] = 1
    BY <1>b DEF IInv, Fates
  <2> QED BY <2>1, <1>d, <1>e, <1>f DEF IInv, Fates, Queued, redis, history
<1>6. AcceptedAtMostOnce' /\ OkMeansAccepted'
  BY SMTT(30) DEF IInv, TypeOK, Fates, AcceptedAtMostOnce, OkMeansAccepted, redis, callers,
              worker, history
<1> QED BY <1>1, <1>2, <1>3, <1>4, <1>5, <1>6 DEF IInv

LEMMA StopKeeps ==
    ASSUME IInv, NEW p \in Pods, Stop(p)
    PROVE  IInv'
<1> USE WaSenderAssumption, SentinelAssumption DEF Stop
<1>1. TypeOK'
  BY DEF IInv, TypeOK, Phases, redis, callers, worker, history, Fault, NoFault,
         CallerStates, PodStates, Holding, Answers
<1>2. Phases'
  BY DEF IInv, TypeOK, Phases, worker, Answers
<1>3. OneCustodian'
  BY DEF IInv, TypeOK, OneCustodian, Queued, redis, worker
<1>4. Fresh'
  BY DEF IInv, TypeOK, Fresh, Queued, redis, callers, worker, history
<1>5. Fates'
  BY DEF IInv, TypeOK, Phases, Fresh, Fates, Queued, redis, callers, worker, history
<1>6. AcceptedAtMostOnce' /\ OkMeansAccepted'
  BY SMTT(30) DEF IInv, TypeOK, Fates, AcceptedAtMostOnce, OkMeansAccepted, redis, callers,
              worker, history
<1> QED BY <1>1, <1>2, <1>3, <1>4, <1>5, <1>6 DEF IInv

LEMMA CloseKeeps ==
    ASSUME IInv, NEW p \in Pods, Close(p)
    PROVE  IInv'
<1> USE WaSenderAssumption, SentinelAssumption DEF Close
<1>1. TypeOK'
  BY DEF IInv, TypeOK, Phases, redis, callers, worker, history, Fault, NoFault,
         CallerStates, PodStates, Holding, Answers
<1>2. Phases'
  BY DEF IInv, TypeOK, Phases, worker, Answers
<1>3. OneCustodian'
  BY DEF IInv, TypeOK, OneCustodian, Queued, redis, worker
<1>4. Fresh'
  BY DEF IInv, TypeOK, Fresh, Queued, redis, callers, worker, history
<1>5. Fates'
  BY DEF IInv, TypeOK, Phases, Fresh, Fates, Queued, redis, callers, worker, history
<1>6. AcceptedAtMostOnce' /\ OkMeansAccepted'
  BY SMTT(30) DEF IInv, TypeOK, Fates, AcceptedAtMostOnce, OkMeansAccepted, redis, callers,
              worker, history
<1> QED BY <1>1, <1>2, <1>3, <1>4, <1>5, <1>6 DEF IInv

LEMMA CrashKeeps ==
    ASSUME IInv, NEW p \in Pods, Crash(p)
    PROVE  IInv'
<1> USE WaSenderAssumption, SentinelAssumption DEF Crash
<1>1. TypeOK'
  BY DEF IInv, TypeOK, Phases, redis, callers, worker, history, Fault, NoFault,
         CallerStates, PodStates, Holding, Answers
<1>2. Phases'
  BY DEF IInv, TypeOK, Phases, worker, Answers
<1>3. OneCustodian'
  <2>1. NoMsg \notin Queued
    BY DEF IInv, TypeOK, Queued, Range
  <2>2. \A r \in Pods : hand'[r] = IF r = p THEN NoMsg ELSE hand[r]
    BY DEF IInv, TypeOK
  <2> QED BY <2>1, <2>2 DEF IInv, OneCustodian, Queued, redis
<1>4. Fresh'
  BY DEF IInv, TypeOK, Fresh, Queued, redis, callers, worker, history
<1>5. Fates'
  BY DEF IInv, TypeOK, Phases, Fresh, Fates, Queued, redis, callers, worker, history
<1>6. AcceptedAtMostOnce' /\ OkMeansAccepted'
  BY SMTT(30) DEF IInv, TypeOK, Fates, AcceptedAtMostOnce, OkMeansAccepted, redis, callers,
              worker, history
<1> QED BY <1>1, <1>2, <1>3, <1>4, <1>5, <1>6 DEF IInv

LEMMA StartKeeps ==
    ASSUME IInv, NEW p \in Pods, Start(p)
    PROVE  IInv'
<1> USE WaSenderAssumption, SentinelAssumption DEF Start
<1>1. TypeOK'
  BY DEF IInv, TypeOK, Phases, redis, callers, worker, history, Fault, NoFault,
         CallerStates, PodStates, Holding, Answers
<1>2. Phases'
  BY DEF IInv, TypeOK, Phases, worker, Answers
<1>3. OneCustodian'
  BY DEF IInv, TypeOK, OneCustodian, Queued, redis, worker
<1>4. Fresh'
  BY DEF IInv, TypeOK, Fresh, Queued, redis, callers, worker, history
<1>5. Fates'
  BY DEF IInv, TypeOK, Phases, Fresh, Fates, Queued, redis, callers, worker, history
<1>6. AcceptedAtMostOnce' /\ OkMeansAccepted'
  BY SMTT(30) DEF IInv, TypeOK, Fates, AcceptedAtMostOnce, OkMeansAccepted, redis, callers,
              worker, history
<1> QED BY <1>1, <1>2, <1>3, <1>4, <1>5, <1>6 DEF IInv

LEMMA RedisRestartKeeps ==
    ASSUME IInv, RedisRestart
    PROVE  IInv'
<1> USE WaSenderAssumption, SentinelAssumption DEF RedisRestart
<1> USE EmptyRange
<1>1. TypeOK'
  BY DEF IInv, TypeOK, Phases, redis, callers, worker, history, Fault, NoFault,
         CallerStates, PodStates, Holding, Answers
<1>2. Phases'
  BY DEF IInv, TypeOK, Phases, worker, Answers
<1>3. OneCustodian'
  BY DEF IInv, TypeOK, OneCustodian, Queued, redis, worker
<1>4. Fresh'
  BY DEF IInv, TypeOK, Fresh, Queued, redis, callers, worker, history
<1>5. Fates'
  <2>1. \A k \in Msgs : outbox'[k].val # "ok"
    BY DEF NoResult
  <2> QED BY <2>1 DEF IInv, Fates, Queued, worker
<1>6. AcceptedAtMostOnce' /\ OkMeansAccepted'
  BY SMTT(30) DEF IInv, TypeOK, Fates, AcceptedAtMostOnce, OkMeansAccepted, redis, callers,
              worker, history
<1> QED BY <1>1, <1>2, <1>3, <1>4, <1>5, <1>6 DEF IInv

LEMMA TtlStep ==
    ASSUME NEW r \in Results, r.ttl > 1
    PROVE  [r EXCEPT !.ttl = @ - 1] \in Results
  BY WaSenderAssumption DEF Results, NoTTL

(* The key of the gate grows older, and PX removes it. *)
LEMMA GateAges ==
    ASSUME TypeOK, Tick
    PROVE  gate' \in {NoKey} \cup Keys
<1> USE WaSenderAssumption
<1>1. CASE gate = NoKey \/ gate.age + 1 >= 2 * Interval
  BY <1>1 DEF Tick
<1>2. CASE ~(gate = NoKey \/ gate.age + 1 >= 2 * Interval)
  <2>1. gate \in Keys /\ gate' = [gate EXCEPT !.age = gate.age + 1]
    BY <1>2 DEF Tick, TypeOK
  <2>2. gate.age + 1 \in 0..(2 * Interval - 1)
    BY <1>2, <2>1 DEF Keys
  <2> QED BY <2>1, <2>2 DEF Keys
<1> QED BY <1>1, <1>2

(* The results in Redis grow older, and EXPIRE removes those that have it. *)
LEMMA OutboxAges ==
    ASSUME TypeOK, Tick, NEW k \in Msgs
    PROVE  \/ outbox'[k] = NoResult
           \/ outbox'[k] \in Results /\ outbox'[k].val = outbox[k].val
<1>1. /\ outbox[k] \in {NoResult} \cup Results
      /\ outbox'[k] = CASE outbox[k].ttl > 1 -> [outbox[k] EXCEPT !.ttl = @ - 1]
                        [] outbox[k].ttl = 1 -> NoResult
                        [] OTHER -> outbox[k]
  BY DEF TypeOK, Tick
<1>2. CASE outbox[k] = NoResult
  BY <1>1, <1>2 DEF NoResult
<1>3. CASE outbox[k] \in Results
  <2>1. outbox[k].ttl \in Int
    BY <1>3, WaSenderAssumption DEF Results, NoTTL
  <2>2. CASE outbox[k].ttl > 1
    <3>1. outbox'[k] = [outbox[k] EXCEPT !.ttl = @ - 1]
      BY <1>1, <2>2
    <3>2. outbox'[k].val = outbox[k].val
      BY <1>3, <3>1 DEF Results
    <3> QED BY <1>3, <2>2, <3>1, <3>2, TtlStep
  <2>3. CASE outbox[k].ttl = 1
    BY <1>1, <2>3
  <2>4. CASE outbox[k].ttl < 1
    BY <1>1, <1>3, <2>1, <2>4
  <2> QED BY <2>1, <2>2, <2>3, <2>4
<1> QED BY <1>1, <1>2, <1>3

LEMMA TickKeeps ==
    ASSUME IInv, Tick
    PROVE  IInv'
<1> USE WaSenderAssumption, SentinelAssumption
<1>a. /\ queue' = queue /\ caller' = caller /\ pc' = pc /\ hand' = hand
      /\ tries' = tries /\ verdict' = verdict /\ closed' = closed
      /\ accepted' = accepted /\ torn' = torn /\ faults' = faults
  BY DEF Tick
<1>b. \A k \in Msgs : \/ outbox'[k] = NoResult
                      \/ outbox'[k] \in Results /\ outbox'[k].val = outbox[k].val
  BY OutboxAges DEF IInv
<1>1. TypeOK'
  <2>1. TypeOK
    BY DEF IInv
  <2>2. gate' \in {NoKey} \cup Keys
    BY <2>1, GateAges
  <2>3. outbox' \in [Msgs -> {NoResult} \cup Results]
    <3>1. DOMAIN outbox' = Msgs /\ outbox' = [k \in Msgs |-> outbox'[k]]
      BY DEF Tick
    <3> QED BY <1>b, <3>1
  <2>4. left' \in [Msgs -> Nat] /\ wait' \in [Pods -> Nat]
    BY <2>1, SMTT(30) DEF Tick, Down, TypeOK
  <2>5. read' \in [Pods -> 0..MaxLag]
    BY <2>1, SMTT(30) DEF Tick, TypeOK
  <2>6. sinceRead' \in 0..(Interval + MaxLag)
    BY <2>1 DEF Tick, Upto, TypeOK
  <2> QED BY <1>a, <2>1, <2>2, <2>3, <2>4, <2>5, <2>6 DEF TypeOK
<1>2. Phases'
  BY <1>a DEF IInv, Phases
<1>3. OneCustodian'
  BY <1>a DEF IInv, OneCustodian, Queued
<1>4. Fresh'
  <2>1. \A k \in Msgs : outbox[k] = NoResult => outbox'[k] = NoResult
    <3> SUFFICES ASSUME NEW k \in Msgs, outbox[k] = NoResult PROVE outbox'[k] = NoResult
      OBVIOUS
    <3> QED BY <1>b DEF NoResult, Results
  <2> QED BY <1>a, <2>1 DEF IInv, Fresh, Queued
<1>5. Fates'
  <2>1. \A k \in Msgs : outbox'[k].val = "ok" => outbox[k].val = "ok"
    BY <1>b DEF NoResult
  <2> QED BY <1>a, <2>1 DEF IInv, Fates, Queued
<1>6. AcceptedAtMostOnce' /\ OkMeansAccepted'
  BY <1>a DEF IInv, AcceptedAtMostOnce, OkMeansAccepted
<1> QED BY <1>1, <1>2, <1>3, <1>4, <1>5, <1>6 DEF IInv

-----------------------------------------------------------------------------
(* Every step of the specification keeps the inductive invariant. *)
LEMMA NextKeeps == IInv /\ [Next]_vars => IInv'
<1> SUFFICES ASSUME IInv, [Next]_vars PROVE IInv'
  OBVIOUS
<1>1. ASSUME NEW m \in Msgs, Caller(m) PROVE IInv'
  BY <1>1, SendMessageKeeps, AwaitResultKeeps, TimeOutKeeps, WaitFailsKeeps DEF Caller
<1>2. ASSUME NEW p \in Pods, Worker(p) PROVE IInv'
  BY <1>2, DequeueKeeps, WaitForSlotKeeps, AcquireSendSlotKeeps, WakeKeeps,
     RequestKeeps, ReplyKeeps, RetryKeeps, PublishKeeps, StopKeeps DEF Worker
<1>3. ASSUME NEW p \in Pods, Environment(p) PROVE IInv'
  BY <1>3, CloseKeeps, CrashKeeps, StartKeeps DEF Environment
<1>4. CASE UNCHANGED vars
  BY <1>4 DEF vars, redis, callers, worker, history, IInv, TypeOK, Phases,
         OneCustodian, Fresh, Fates, Queued, AcceptedAtMostOnce, OkMeansAccepted
<1> QED BY <1>1, <1>2, <1>3, <1>4, RedisRestartKeeps, TickKeeps DEF Next

(* The inductive invariant holds in every reachable state of the sender. *)
THEOREM Invariance == Spec => []IInv
  BY InitIInv, NextKeeps, PTL DEF Spec

(* Type correctness: every variable of the sender keeps its type, and a
   processQueue holds a message exactly while it works on one. *)
THEOREM TypeCorrect == Spec => []TypeOK
<1>1. IInv => TypeOK
  BY DEF IInv
<1> QED BY <1>1, Invariance, PTL

(* A message is in the Redis list or with one processQueue, never in two
   places (the BLPOP of processQueue, sender.go). *)
THEOREM Custody == Spec => []OneCustodian
<1>1. IInv => OneCustodian
  BY DEF IInv
<1> QED BY <1>1, Invariance, PTL

(* WaSenderAPI accepts no message twice (doSend, sender.go). *)
THEOREM AtMostOnce == Spec => []AcceptedAtMostOnce
<1>1. IInv => AcceptedAtMostOnce
  BY DEF IInv
<1> QED BY <1>1, Invariance, PTL

(* SendMessage returns nil only for a message that was accepted. *)
THEOREM NilIsHonest == Spec => []OkMeansAccepted
<1>1. IInv => OkMeansAccepted
  BY DEF IInv
<1> QED BY <1>1, Invariance, PTL

-----------------------------------------------------------------------------
(* The send gate *)

(* acquireSendSlot sets the key only when the key is gone or old enough by
   the pod's own clock, which errs by MaxSkew at most, and its reading is no
   later than the call. *)
LEMMA GrantIsLate ==
    ASSUME TypeOK, GateInv, NEW p \in Pods, TakeSlot(p)
    PROVE  sinceRead >= Interval - MaxSkew
<1> USE WaSenderAssumption
<1>1. CASE sinceRead < Interval
  <2>1. gate # NoKey /\ sinceRead = gate.age + gate.late
    BY <1>1 DEF GateInv
  <2>2. /\ gate.age \in Nat /\ gate.late \in Nat /\ read[p] \in Nat
        /\ Skew[p] \in 0..MaxSkew /\ Skew[gate.by] \in 0..MaxSkew
    BY <2>1 DEF TypeOK, Keys
  <2>3. (gate.age + gate.late + Skew[p]) - (read[p] + Skew[gate.by]) >= Interval
    BY <2>1 DEF TakeSlot, SlotFree, Elapsed
  <2> QED BY <2>1, <2>2, <2>3
<1>2. CASE ~(sinceRead < Interval)
  BY <1>2 DEF TypeOK
<1> QED BY <1>1, <1>2

(* The key tells the time since the reading of the last grant. *)
LEMMA GateKeeps == TypeOK /\ GateInv /\ [Next]_vars => GateInv'
<1> SUFFICES ASSUME TypeOK, GateInv, [Next]_vars PROVE GateInv'
  OBVIOUS
<1> USE WaSenderAssumption
<1>1. CASE gate' = gate /\ sinceRead' = sinceRead
  BY <1>1 DEF GateInv
<1>2. ASSUME NEW p \in Pods, TakeSlot(p) PROVE GateInv'
  <2>1. /\ gate' = [age |-> 0, late |-> read[p], by |-> p]
        /\ sinceRead' = read[p] /\ read[p] \in Nat
    BY <1>2 DEF TakeSlot, TypeOK
  <2>2. gate' # NoKey /\ gate'.age = 0 /\ gate'.late = read[p]
    BY <2>1 DEF NoKey
  <2> QED BY <2>1, <2>2 DEF GateInv
<1>3. CASE RedisRestart
  BY <1>3 DEF RedisRestart, GateInv
<1>4. CASE Tick
  <2> SUFFICES ASSUME sinceRead' < Interval
               PROVE  gate' # NoKey /\ sinceRead' = gate'.age + gate'.late
    BY DEF GateInv
  <2>1. sinceRead \in Nat /\ sinceRead < Interval /\ sinceRead' = sinceRead + 1
    BY <1>4 DEF Tick, Upto, TypeOK
  <2>2. gate # NoKey /\ sinceRead = gate.age + gate.late
    BY <2>1 DEF GateInv
  <2>3. gate \in Keys /\ gate.age \in Nat /\ gate.late \in Nat
    BY <2>2 DEF TypeOK, Keys
  <2>4. ~(gate.age + 1 >= 2 * Interval)
    BY <2>1, <2>2, <2>3
  <2>5. gate' = [gate EXCEPT !.age = gate.age + 1]
    BY <1>4, <2>2, <2>4 DEF Tick
  <2>6. gate'.age = gate.age + 1 /\ gate'.late = gate.late /\ gate' # NoKey
    BY <2>3, <2>5 DEF Keys, NoKey
  <2> QED BY <2>1, <2>2, <2>3, <2>6
<1>5. ASSUME NEW m \in Msgs, Caller(m) PROVE gate' = gate /\ sinceRead' = sinceRead
  BY <1>5 DEF Caller, SendMessage, AwaitResult, TimeOut, WaitFails, redis, history
<1>6. ASSUME NEW p \in Pods, Worker(p)
      PROVE  (gate' = gate /\ sinceRead' = sinceRead) \/ TakeSlot(p)
  BY <1>6 DEF Worker, Dequeue, WaitForSlot, AcquireSendSlot, Granted, Denied, Ungated,
         Wake, Request, Reply, Retry, Publish, Stop, redis, history
<1>7. ASSUME NEW p \in Pods, Environment(p) PROVE gate' = gate /\ sinceRead' = sinceRead
  BY <1>7 DEF Environment, Close, Crash, Start, redis, history
<1>8. CASE UNCHANGED vars
  BY <1>1, <1>8 DEF vars, redis, history
<1> QED BY <1>1, <1>2, <1>3, <1>4, <1>5, <1>6, <1>7, <1>8 DEF Next

(* A slot is at least Interval, up to the clocks' difference, after the
   clock reading of the slot before it, for every number of pods and however
   long the calls of the script take (acquireSendSlot, sender.go). *)
THEOREM SlotsAreSpaced == Spec => SlotSpacing
<1>1. Init => GateInv
  BY WaSenderAssumption DEF Init, GateInv
<1>2. TypeOK /\ GateInv =>
        \A p \in Pods : pc[p] = "ask" /\ TakeSlot(p) => sinceRead >= Interval - MaxSkew
  BY GrantIsLate
<1>3. TypeOK /\ GateInv =>
        [\A p \in Pods : pc[p] = "ask" /\ TakeSlot(p)
            => sinceRead >= Interval - MaxSkew]_vars
  BY <1>2
<1> QED BY <1>1, <1>3, GateKeeps, TypeCorrect, PTL DEF Spec, SlotSpacing

-----------------------------------------------------------------------------
(* The sender implements WaOutbox: every step of a pod, a caller, Redis or
   the clock is a step of the outbox or leaves it unchanged. *)

Reported(m) == IF caller[m] \in {"ok", "err"} THEN caller[m] ELSE "none"

(* Under the inductive invariant the stage of a message can be read off
   three facts. *)
LEMMA StageIs ==
    ASSUME IInv, NEW m \in Msgs
    PROVE  Stage(m) = IF accepted[m] = 1 THEN "delivered"
                      ELSE IF Pending(m) THEN "pending"
                      ELSE IF caller[m] = "new" THEN "new" ELSE "dropped"
<1>1. accepted[m] \in {0, 1}
  <2>1. accepted[m] \in Nat /\ accepted[m] <= 1
    BY DEF IInv, TypeOK, AcceptedAtMostOnce
  <2> QED BY <2>1
<1>2. CASE accepted[m] = 1
  BY <1>2 DEF Stage
<1>3. CASE accepted[m] = 0
  BY <1>3 DEF Stage
<1> QED BY <1>1, <1>2, <1>3

LEMMA StageIsNext ==
    ASSUME IInv', NEW m \in Msgs
    PROVE  Stage(m)' = IF accepted'[m] = 1 THEN "delivered"
                       ELSE IF Pending(m)' THEN "pending"
                       ELSE IF caller'[m] = "new" THEN "new" ELSE "dropped"
<1>1. accepted'[m] \in {0, 1}
  BY DEF IInv, TypeOK, AcceptedAtMostOnce
<1>2. CASE accepted'[m] = 1
  BY <1>2 DEF Stage
<1>3. CASE accepted'[m] = 0
  BY <1>3 DEF Stage
<1> QED BY <1>1, <1>2, <1>3

(* A pending message was not accepted, and its caller has called. *)
LEMMA PendingMeans ==
    ASSUME IInv, NEW m \in Msgs, Pending(m)
    PROVE  accepted[m] = 0 /\ caller[m] # "new"
<1>1. CASE m \in Queued
  BY <1>1 DEF IInv, Fates, Fresh
<1>2. CASE \E p \in Pods : hand[p] = m /\ Undecided(p)
  BY <1>2 DEF IInv, Fates, Fresh, Undecided
<1> QED BY <1>1, <1>2 DEF Pending

(* An accepted message was submitted by a caller. *)
LEMMA AcceptedMeans ==
    ASSUME IInv, NEW m \in Msgs, accepted[m] = 1
    PROVE  caller[m] # "new"
  BY DEF IInv, Fresh

(* A step that loses some pending messages and fails some callers. *)
LEMMA Drops ==
    ASSUME IInv, IInv', accepted' = accepted,
           \A m \in Msgs : Pending(m)' => Pending(m),
           \A m \in Msgs : caller'[m] = "new" <=> caller[m] = "new",
           \A m \in Msgs : \/ Reported(m)' = Reported(m)
                           \/ /\ Reported(m) = "none" /\ Reported(m)' = "err"
                              /\ caller[m] # "new"
    PROVE  Outbox!Drop
<1> DEFINE lost == {m \in Msgs : Pending(m) /\ ~Pending(m)'}
           told == {m \in Msgs : Reported(m)' # Reported(m)}
<1>1. \A m \in Msgs : Stage(m)' = IF m \in lost THEN "dropped" ELSE Stage(m)
  BY StageIs, StageIsNext, PendingMeans
<1>2. \A m \in lost : Stage(m) = "pending"
  BY StageIs, PendingMeans
<1>3. \A m \in told : Stage(m) # "new" /\ Reported(m) = "none"
  BY StageIs
<1>4. \A m \in Msgs : Reported(m)' = IF m \in told THEN "err" ELSE Reported(m)
  OBVIOUS
<1> HIDE DEF lost, told
<1>5. lost \in SUBSET Msgs /\ told \in SUBSET Msgs
  BY DEF lost, told
<1> QED BY <1>1, <1>2, <1>3, <1>4, <1>5 DEF Outbox!Drop, Reported

(* A step that tells one caller the outcome and moves no message. *)
LEMMA Reports ==
    ASSUME IInv, IInv', accepted' = accepted, NEW m \in Msgs,
           \A k \in Msgs : Pending(k)' <=> Pending(k),
           caller[m] \in {"pushed", "waiting"},
           \/ caller' = [caller EXCEPT ![m] = "ok"] /\ accepted[m] = 1
           \/ caller' = [caller EXCEPT ![m] = "err"]
    PROVE  Outbox!Report(m)
<1>1. \A k \in Msgs : Stage(k)' = Stage(k)
  <2>1. \A k \in Msgs : caller'[k] = "new" <=> caller[k] = "new"
    BY DEF IInv, TypeOK
  <2> QED BY <2>1, StageIs, StageIsNext
<1>2. Stage(m) # "new" /\ Reported(m) = "none"
  BY StageIs DEF Reported
<1>3. accepted[m] = 1 => Stage(m) = "delivered"
  BY StageIs
<1>4. ASSUME NEW v \in {"ok", "err"}, caller' = [caller EXCEPT ![m] = v]
      PROVE  [k \in Msgs |-> Reported(k)]' =
                [[k \in Msgs |-> Reported(k)] EXCEPT ![m] = v]
  BY <1>4 DEF Reported, IInv, TypeOK
<1> QED BY <1>1, <1>2, <1>3, <1>4 DEF Outbox!Report, Reported

(* A step that moves no message keeps every message pending or not. *)
LEMMA SameHands ==
    ASSUME queue' = queue,
           \A r \in Pods : hand'[r] = hand[r] /\ (Undecided(r)' <=> Undecided(r))
    PROVE  \A m \in Msgs : Pending(m)' <=> Pending(m)
  BY DEF Pending, Queued

(* A step that may only give messages up. *)
LEMMA FewerHands ==
    ASSUME IInv, Range(queue') \subseteq Range(queue),
           \A r \in Pods : \/ hand'[r] \notin Msgs
                           \/ hand'[r] = hand[r] /\ (Undecided(r)' => Undecided(r))
    PROVE  \A m \in Msgs : Pending(m)' => Pending(m)
  BY DEF Pending, Queued

-----------------------------------------------------------------------------
LEMMA SubmitStep ==
    ASSUME IInv, IInv', NEW m \in Msgs, SendMessage(m)
    PROVE  Outbox!Submit(m)
<1>1. queue \in Seq(Msgs) /\ (queue' = queue \/ queue' = Append(queue, m))
  BY DEF IInv, TypeOK, SendMessage
<1>2. \/ Queued' = Queued
      \/ Queued' = Queued \cup {m}
  <2>1. CASE queue' = queue
    BY <2>1 DEF Queued
  <2>2. CASE queue' = Append(queue, m)
    BY <1>1, <2>2, AppendRange DEF Queued
  <2> QED BY <1>1, <2>1, <2>2
<1>3. hand' = hand /\ pc' = pc /\ verdict' = verdict /\ tries' = tries /\ accepted' = accepted
  BY DEF SendMessage, worker, history
<1>4. \A k \in Msgs \ {m} : Pending(k)' <=> Pending(k)
  BY <1>2, <1>3 DEF Pending, Undecided
<1>5. caller[m] = "new" /\ accepted[m] = 0 /\ ~Pending(m) /\ caller'[m] \in {"pushed", "err"}
  BY PendingMeans, ZenonT(60) DEF SendMessage, IInv, TypeOK, Fresh
<1>6. \A k \in Msgs \ {m} : caller'[k] = caller[k]
  BY DEF SendMessage, IInv, TypeOK
<1>7. \A k \in Msgs \ {m} : Stage(k)' = Stage(k)
  BY <1>3, <1>4, <1>6, StageIs, StageIsNext
<1>8. Stage(m) = "new" /\ Stage(m)' \in {"pending", "dropped"}
  BY <1>3, <1>5, StageIs, StageIsNext
<1>9. CASE caller'[m] = "err"
  <2>1. \A k \in Msgs : Reported(k)' = IF k = m THEN "err" ELSE Reported(k)
    BY <1>6, <1>9 DEF Reported
  <2> QED BY <1>7, <1>8, <2>1 DEF Outbox!Submit, Reported
<1>10. CASE caller'[m] = "pushed"
  <2>1. \A k \in Msgs : Reported(k)' = Reported(k)
    BY <1>5, <1>6, <1>10 DEF Reported
  <2>2. m \in Queued'
    <3>1. queue' = Append(queue, m)
      BY <1>10 DEF SendMessage, IInv, TypeOK
    <3> QED BY <1>1, <3>1, AppendRange DEF Queued
  <2>3. Stage(m)' = "pending"
    BY <1>3, <1>5, <2>2, StageIsNext DEF Pending
  <2> QED BY <1>7, <1>8, <2>1, <2>3 DEF Outbox!Submit, Reported
<1> QED BY <1>5, <1>9, <1>10

LEMMA AwaitStep ==
    ASSUME IInv, IInv', NEW m \in Msgs, AwaitResult(m)
    PROVE  Outbox!Report(m) \/ Outbox!Drop
<1>1. \A k \in Msgs : Pending(k)' <=> Pending(k)
  BY DEF AwaitResult, worker, Pending, Queued, Undecided
<1>2. accepted' = accepted /\ caller[m] = "pushed"
  BY DEF AwaitResult, history
<1>3. CASE outbox[m] # NoResult
  <2>1. outbox[m].val \in {"ok", "err"} /\ (outbox[m].val = "ok" => accepted[m] = 1)
    <3>1. outbox[m] \in Results
      BY <1>3 DEF IInv, TypeOK
    <3> QED BY <3>1 DEF IInv, Fates, Results
  <2>2. caller' = [caller EXCEPT ![m] = outbox[m].val]
    BY <1>3 DEF AwaitResult
  <2> QED BY <1>1, <1>2, <2>1, <2>2, Reports
<1>4. CASE outbox[m] = NoResult
  <2>1. caller' = [caller EXCEPT ![m] = "waiting"]
    BY <1>4 DEF AwaitResult
  <2>2. \A k \in Msgs : /\ caller'[k] = "new" <=> caller[k] = "new"
                        /\ Reported(k)' = Reported(k)
    BY <1>2, <2>1 DEF Reported, IInv, TypeOK
  <2> QED BY <1>1, <1>2, <2>2, Drops
<1> QED BY <1>3, <1>4

LEMMA GiveUpStep ==
    ASSUME IInv, IInv', NEW m \in Msgs, TimeOut(m) \/ WaitFails(m)
    PROVE  Outbox!Report(m)
<1>1. \A k \in Msgs : Pending(k)' <=> Pending(k)
  BY DEF TimeOut, WaitFails, worker, redis, Pending, Queued, Undecided
<1>2. /\ accepted' = accepted /\ caller[m] \in {"pushed", "waiting"}
      /\ caller' = [caller EXCEPT ![m] = "err"]
  BY DEF TimeOut, WaitFails, history
<1> QED BY <1>1, <1>2, Reports

LEMMA PublishStep ==
    ASSUME IInv, IInv', NEW p \in Pods, Publish(p)
    PROVE  Outbox!Drop \/ \E m \in Msgs : Outbox!Report(m)
<1>1. \A k \in Msgs : Pending(k)' <=> Pending(k)
  <2>1. pc[p] = "publish" /\ pc'[p] \in {"stopped", "idle"} /\ queue' = queue
    BY DEF Publish, IInv, TypeOK
  <2>2. ~Undecided(p) /\ ~Undecided(p)'
    BY <2>1 DEF Undecided
  <2>3. \A r \in Pods \ {p} : hand'[r] = hand[r] /\ (Undecided(r)' <=> Undecided(r))
    BY DEF Publish, Undecided, IInv, TypeOK
  <2> QED BY <2>1, <2>2, <2>3 DEF Pending, Queued
<1>2. accepted' = accepted
  BY DEF Publish, history
<1>3. CASE caller' = caller
  <2>1. \A k \in Msgs : Reported(k)' = Reported(k)
    BY <1>3 DEF Reported
  <2> QED BY <1>1, <1>2, <1>3, <2>1, Drops
<1>4. CASE caller' # caller
  <2>1. /\ caller[hand[p]] = "waiting"
        /\ caller' = [caller EXCEPT ![hand[p]] = verdict[p]]
    BY <1>4 DEF Publish, Deliver, callers
  <2>2. /\ hand[p] \in Msgs /\ verdict[p] \in {"ok", "err"}
        /\ verdict[p] = "ok" => accepted[hand[p]] = 1
    <3>1. pc[p] = "publish"
      BY DEF Publish
    <3>2. hand[p] \in Msgs
      BY <3>1 DEF IInv, TypeOK, Holding, PodStates
    <3>3. verdict[p] \in {"ok", "err"}
      BY <3>1 DEF IInv, Phases
    <3>4. verdict[p] = "ok" => accepted[hand[p]] = 1
      BY <3>1 DEF IInv, Fates
    <3> QED BY <3>2, <3>3, <3>4
  <2>3. PICK m \in Msgs : m = hand[p]
    BY <2>2
  <2>4. \/ caller' = [caller EXCEPT ![m] = "ok"] /\ accepted[m] = 1
        \/ caller' = [caller EXCEPT ![m] = "err"]
    BY <2>1, <2>2, <2>3
  <2>5. Outbox!Report(m)
    BY <1>1, <1>2, <2>1, <2>3, <2>4, Reports
  <2> QED BY <2>5
<1> QED BY <1>3, <1>4

LEMMA RequestStep ==
    ASSUME IInv, IInv', NEW p \in Pods, Request(p)
    PROVE  Outbox!Drop \/ \E m \in Msgs : Outbox!Deliver(m)
<1>1. /\ pc[p] = "send" /\ pc'[p] = "http" /\ queue' = queue /\ hand' = hand
      /\ caller' = caller /\ tries' = tries
  BY DEF Request, redis, callers, IInv, TypeOK
<1>2. PICK a \in Answers :
        /\ verdict' = [verdict EXCEPT ![p] = a]
        /\ accepted' = [accepted EXCEPT ![hand[p]] =
                          IF a \in {"accept", "acceptLost"} THEN @ + 1 ELSE @]
  BY DEF Request
<1>3. hand[p] \in Msgs /\ accepted[hand[p]] = 0 /\ Pending(hand[p])
  BY <1>1, ZenonT(60) DEF IInv, TypeOK, Fates, Holding, PodStates, Pending, Undecided
<1>4. \A r \in Pods \ {p} : Undecided(r)' <=> Undecided(r)
  <2>1. \A r \in Pods \ {p} : pc'[r] = pc[r] /\ verdict'[r] = verdict[r]
    BY <1>2 DEF Request, IInv, TypeOK
  <2> QED BY <1>1, <2>1 DEF Undecided
<1>5. \A m \in Msgs \ {hand[p]} : Pending(m)' <=> Pending(m)
  BY <1>1, <1>4 DEF Pending, Queued
<1>6. \A m \in Msgs : Reported(m)' = Reported(m)
  BY <1>1 DEF Reported
<1>7. CASE a \in {"accept", "acceptLost"}
  <2>1. PICK m \in Msgs : m = hand[p]
    BY <1>3
  <2>2. \A k \in Msgs : accepted'[k] = IF k = m THEN 1 ELSE accepted[k]
    BY <1>2, <1>3, <1>7, <2>1 DEF IInv, TypeOK
  <2>3. \A k \in Msgs \ {m} : Stage(k)' = Stage(k)
    BY <1>1, <1>5, <2>1, <2>2, StageIs, StageIsNext
  <2>4. Stage(m) = "pending" /\ Stage(m)' = "delivered"
    BY <1>3, <2>1, <2>2, StageIs, StageIsNext
  <2>5. Outbox!Deliver(m)
    BY <1>6, <2>3, <2>4 DEF Outbox!Deliver, Reported
  <2> QED BY <2>5
<1>8. CASE a \notin {"accept", "acceptLost"}
  <2>1. accepted' = accepted
    BY <1>2, <1>8 DEF IInv, TypeOK
  <2> QED BY <1>1, <1>3, <1>5, <1>6, <2>1, Drops
<1> QED BY <1>7, <1>8

(* The steps that lose messages or fail callers, and those the outbox does
   not see. *)
LEMMA QuietStep ==
    ASSUME IInv, IInv', NEW p \in Pods,
           \/ Dequeue(p) \/ WaitForSlot(p) \/ AcquireSendSlot(p) \/ Wake(p)
           \/ Reply(p) \/ Retry(p) \/ Stop(p) \/ Close(p) \/ Start(p)
    PROVE  Outbox!Drop
<1>1. caller' = caller /\ accepted' = accepted
  BY DEF Dequeue, WaitForSlot, AcquireSendSlot, Wake, Reply, Retry, Stop, Close, Start,
         callers, history
<1>2. \A m \in Msgs : Reported(m)' = Reported(m)
  BY <1>1 DEF Reported
<1>3. CASE Dequeue(p)
  <2>1. queue \in Seq(Msgs) /\ queue # <<>> /\ queue' = Tail(queue)
    BY <1>3 DEF Dequeue, IInv, TypeOK
  <2>2. Queued' \subseteq Queued /\ Head(queue) \in Queued
    BY <2>1, TailRange DEF Queued
  <2>3. pc[p] = "idle" /\ tries' = tries /\ verdict' = verdict
    BY <1>3 DEF Dequeue
  <2>4. \/ pc' = [pc EXCEPT ![p] = "gate"] /\ hand' = [hand EXCEPT ![p] = Head(queue)]
        \/ pc' = pc /\ hand' = hand
    BY <1>3 DEF Dequeue
  <2>5. pc \in [Pods -> PodStates] /\ hand \in [Pods -> Msgs \cup {NoMsg}]
    BY DEF IInv, TypeOK
  <2>6. \A r \in Pods : \/ hand'[r] = hand[r] /\ (Undecided(r)' => Undecided(r))
                        \/ hand'[r] = Head(queue)
    BY <2>3, <2>4, <2>5 DEF Undecided
  <2>7. \A m \in Msgs : Pending(m)' => Pending(m)
    BY <2>2, <2>6 DEF Pending
  <2> QED BY <1>1, <1>2, <2>7, Drops
<1>4. CASE \/ WaitForSlot(p) \/ AcquireSendSlot(p) \/ Wake(p) \/ Reply(p)
           \/ Retry(p) \/ Stop(p) \/ Close(p) \/ Start(p)
  <2>1. queue' = queue /\ hand' = hand
    BY <1>4 DEF WaitForSlot, AcquireSendSlot, Wake, Reply, Retry, Stop, Close,
           Start, redis, worker
  <2>2. \A r \in Pods : Undecided(r)' <=> Undecided(r)
    <3>1. CASE WaitForSlot(p)
      BY <3>1 DEF WaitForSlot, Undecided, IInv, TypeOK
    <3>6. CASE AcquireSendSlot(p)
      <4>1. /\ pc \in [Pods -> PodStates] /\ pc[p] = "ask"
            /\ verdict' = verdict /\ tries' = tries
            /\ \E v \in {"send", "sleep"} : pc' = [pc EXCEPT ![p] = v]
        BY <3>6 DEF AcquireSendSlot, Granted, Denied, Ungated, IInv, TypeOK
      <4> QED BY <4>1 DEF Undecided
    <3>2. CASE Wake(p) \/ Stop(p) \/ Start(p)
      BY <3>2, SMTT(30) DEF Wake, Stop, Start, Undecided, IInv, TypeOK
    <3>3. CASE Reply(p)
      <4>1. /\ pc \in [Pods -> PodStates] /\ pc[p] = "http" /\ tries' = tries
            /\ verdict \in [Pods -> Answers \cup {"none", "ok", "err"}]
            /\ tries[p] \in Nat /\ MaxRetries \in Nat
        BY <3>3, WaSenderAssumption DEF Reply, IInv, TypeOK
      <4>2. \/ pc' = [pc EXCEPT ![p] = "backoff"] /\ verdict[p] = "throttle"
               /\ tries[p] < MaxRetries
               /\ verdict' = [verdict EXCEPT ![p] = "none"]
            \/ pc' = [pc EXCEPT ![p] = "publish"]
               /\ (verdict[p] = "throttle" => tries[p] >= MaxRetries)
               /\ \E v \in {"ok", "err"} : verdict' = [verdict EXCEPT ![p] = v]
        BY <3>3 DEF Reply, Throttled, Answered
      <4>3. \A r \in Pods \ {p} : pc'[r] = pc[r] /\ verdict'[r] = verdict[r]
        BY <4>1, <4>2
      <4>4. Undecided(p)' <=> Undecided(p)
        BY <4>1, <4>2 DEF Undecided
      <4> QED BY <4>1, <4>3, <4>4 DEF Undecided
    <3>4. CASE Retry(p)
      BY <3>4 DEF Retry, Undecided, IInv, TypeOK
    <3>5. CASE Close(p)
      BY <3>5 DEF Close, worker, Undecided
    <3> QED BY <1>4, <3>1, <3>2, <3>3, <3>4, <3>5, <3>6
  <2>3. \A m \in Msgs : Pending(m)' <=> Pending(m)
    BY <2>1, <2>2, SameHands
  <2> QED BY <1>1, <1>2, <2>3, Drops
<1> QED BY <1>3, <1>4

LEMMA CrashStep ==
    ASSUME IInv, IInv', NEW p \in Pods, Crash(p)
    PROVE  Outbox!Drop
<1>1. queue' = queue /\ accepted' = accepted
  BY DEF Crash, redis, history
<1>2. \A r \in Pods : \/ hand'[r] = NoMsg
                      \/ hand'[r] = hand[r] /\ (Undecided(r)' => Undecided(r))
  BY DEF Crash, Undecided, IInv, TypeOK
<1>3. \A m \in Msgs : Pending(m)' => Pending(m)
  BY <1>1, <1>2, FewerHands, SentinelAssumption
<1>4. \A m \in Msgs : \/ caller'[m] = caller[m]
                      \/ caller[m] \in {"pushed", "waiting"} /\ caller'[m] = "gone"
  BY DEF Crash
<1>5. \A m \in Msgs : /\ caller'[m] = "new" <=> caller[m] = "new"
                      /\ Reported(m)' = Reported(m)
  BY <1>4 DEF Reported
<1> QED BY <1>1, <1>3, <1>5, Drops

LEMMA RedisRestartStep ==
    ASSUME IInv, IInv', RedisRestart
    PROVE  Outbox!Drop
<1>1. Range(queue') \subseteq Range(queue) /\ accepted' = accepted
  BY EmptyRange DEF RedisRestart
<1>2. \A r \in Pods : hand'[r] = hand[r] /\ (Undecided(r)' => Undecided(r))
  BY DEF RedisRestart, worker, Undecided
<1>3. \A m \in Msgs : Pending(m)' => Pending(m)
  BY <1>1, <1>2, FewerHands
<1>4. \A m \in Msgs : \/ caller'[m] = caller[m]
                      \/ caller[m] = "waiting" /\ caller'[m] = "err"
  BY DEF RedisRestart
<1>5. \A m \in Msgs : /\ caller'[m] = "new" <=> caller[m] = "new"
                      /\ \/ Reported(m)' = Reported(m)
                         \/ /\ Reported(m) = "none" /\ Reported(m)' = "err"
                            /\ caller[m] # "new"
  BY <1>4 DEF Reported
<1> QED BY <1>1, <1>3, <1>5, Drops

LEMMA TickStep ==
    ASSUME IInv, IInv', Tick
    PROVE  Outbox!Drop
<1>1. \A m \in Msgs : Pending(m)' <=> Pending(m)
  BY SameHands DEF Tick, Undecided
<1>2. \A m \in Msgs : Reported(m)' = Reported(m)
  BY DEF Tick, Reported
<1> QED BY <1>1, <1>2, Drops DEF Tick

LEMMA StutterStep ==
    ASSUME UNCHANGED vars
    PROVE  UNCHANGED Outbox!vars
  BY DEF vars, redis, callers, worker, history, Outbox!vars, Stage, Pending, Queued,
         Undecided

-----------------------------------------------------------------------------
(* The sender implements the outbox its callers rely on: at most one
   delivery, at most one outcome, "ok" only after delivery, through crashes,
   shutdowns, Redis restarts, 429s and timeouts. *)
THEOREM Refinement == Spec => RefinesOutbox
<1>1. Init => Outbox!Init
  BY DEF Init, Outbox!Init, Stage, Pending, Queued, Undecided, Range
<1>2. IInv /\ IInv' /\ [Next]_vars => [Outbox!Next]_Outbox!vars
  <2> SUFFICES ASSUME IInv, IInv', [Next]_vars
               PROVE  Outbox!Next \/ UNCHANGED Outbox!vars
    OBVIOUS
  <2>1. ASSUME NEW m \in Msgs, Caller(m) PROVE Outbox!Next
    BY <2>1, SubmitStep, AwaitStep, GiveUpStep DEF Caller, Outbox!Next
  <2>2. ASSUME NEW p \in Pods, Worker(p) PROVE Outbox!Next
    BY <2>2, QuietStep, RequestStep, PublishStep DEF Worker, Outbox!Next
  <2>3. ASSUME NEW p \in Pods, Environment(p) PROVE Outbox!Next
    BY <2>3, QuietStep, CrashStep DEF Environment, Outbox!Next
  <2>4. CASE RedisRestart \/ Tick
    BY <2>4, RedisRestartStep, TickStep DEF Outbox!Next
  <2> QED BY <2>1, <2>2, <2>3, <2>4, StutterStep DEF Next
<1> QED BY <1>1, <1>2, Invariance, PTL DEF Spec, RefinesOutbox, Outbox!Spec
=============================================================================
