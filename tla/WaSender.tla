------------------------------ MODULE WaSender ------------------------------
(***************************************************************************)
(* internal/whatsapp/sender.go: SendMessage pushes a message on a Redis    *)
(* list and blocks on a per-message result key; on every pod a goroutine   *)
(* pops the list, waits for a slot of the shared send gate, posts to       *)
(* WaSenderAPI (retrying on 429) and publishes the result.                 *)
(*                                                                         *)
(* Time is discrete.  Nothing reads an absolute time but the gate, which   *)
(* compares a pod's clock with the clock of the pod that wrote the key, so *)
(* the model keeps ages and countdowns that saturate, and each pod's clock *)
(* offset is a constant.                                                   *)
(***************************************************************************)
EXTENDS Integers, Sequences, Functions

CONSTANTS
    Msgs,           \* the messages, one SendMessage call each
    Pods,           \* the processes that run the sender
    Home,           \* Home[m]: the pod whose handler calls SendMessage for m
    Interval,       \* Sender.interval
    MaxRetries,     \* maxRetries
    RetryWaits,     \* the waits a 429 can ask for, defaultRetryWait included
    WaitTimes,      \* resultTimeout and the shorter deadlines of callers
    ResultTTL,      \* resultKeyTTL
    Skew, MaxSkew,  \* Skew[p]: how far p's clock is ahead; their bound
    MaxLag,         \* bound on a gate call's way from reading the clock to Redis
    Closable,       \* the pods on which Close may be called
    MaxFaults       \* bound on crashes and Redis errors

ASSUME WaSenderAssumption ==
    /\ Home \in [Msgs -> Pods]
    /\ Interval \in Nat \ {0}
    /\ MaxRetries \in Nat
    /\ RetryWaits \subseteq Nat \ {0}
    /\ WaitTimes \subseteq Nat \ {0}
    /\ ResultTTL \in Nat \ {0}
    /\ MaxSkew \in Nat
    /\ Skew \in [Pods -> 0..MaxSkew]
    /\ MaxLag \in Nat
    /\ Closable \subseteq Pods
    /\ MaxFaults \in Nat

NoMsg == "no message"
NoResult == [val |-> "none", ttl |-> 0]
NoTTL == -1     \* what TTL says of a key that does not expire
NoKey == [age |-> -1, late |-> 0, by |-> "nobody"]
ASSUME SentinelAssumption == NoMsg \notin Msgs

VARIABLES
    queue,      \* the list wa:queue
    gate,       \* the key wa:last_sent: the time since its SET, how old the
                \* reading it holds was at that SET, and whose clock that was
    outbox,     \* outbox[m]: the key wa:result:<m>, with its remaining TTL
    caller,     \* where the SendMessage call of m is
    left,       \* what is left of the result timeout of that call
    pc,         \* where processQueue is on each pod
    hand,       \* the message each processQueue holds
    tries,      \* doSend's attempt
    wait,       \* what is left of the sleep in waitForSlot or doSend
    verdict,    \* WaSenderAPI's answer, then doSend's result
    read,       \* time since waitForSlot read the clock for the call under way
    closed,     \* s.ctx is cancelled
    accepted,   \* how often WaSenderAPI accepted m (history)
    sinceRead,  \* time since the reading of the clock by which the gate last
                \* granted a slot, as far as Interval (history)
    torn,       \* messages whose RPUSH came without its EXPIRE (history)
    faults      \* faults so far

redis == <<queue, gate, outbox>>
callers == <<caller, left>>
worker == <<pc, hand, tries, wait, verdict, read>>
history == <<accepted, sinceRead, torn>>
vars == <<redis, callers, worker, closed, history, faults>>

CallerStates == {"new", "pushed", "waiting", "ok", "err", "gone"}
PodStates == {"idle", "gate", "ask", "sleep", "send", "http", "backoff",
              "publish", "stopped", "down"}
Answers == {"accept", "acceptLost", "throttle", "refuse"}
Holding == PodStates \ {"idle", "stopped", "down"}

Init ==
    /\ queue = <<>>
    /\ gate = NoKey
    /\ outbox = [m \in Msgs |-> NoResult]
    /\ caller = [m \in Msgs |-> "new"]
    /\ left = [m \in Msgs |-> 0]
    /\ pc = [p \in Pods |-> "idle"]
    /\ hand = [p \in Pods |-> NoMsg]
    /\ tries = [p \in Pods |-> 0]
    /\ wait = [p \in Pods |-> 0]
    /\ verdict = [p \in Pods |-> "none"]
    /\ read = [p \in Pods |-> 0]
    /\ closed = [p \in Pods |-> FALSE]
    /\ accepted = [m \in Msgs |-> 0]
    /\ sinceRead = Interval
    /\ torn = {}
    /\ faults = 0

(* An operation on Redis fails: its error, or its lost reply, is a fault. *)
Fault == faults < MaxFaults /\ faults' = faults + 1
NoFault == faults' = faults

-----------------------------------------------------------------------------
(* SendMessage *)

(* RPush; when it fails the element may have been pushed all the same. *)
SendMessage(m) ==
    /\ caller[m] = "new"
    /\ pc[Home[m]] # "down"
    /\ \/ /\ queue' = Append(queue, m)
          /\ caller' = [caller EXCEPT ![m] = "pushed"]
          /\ NoFault
       \/ /\ Fault
          /\ queue' \in {queue, Append(queue, m)}
          /\ caller' = [caller EXCEPT ![m] = "err"]
    /\ UNCHANGED <<gate, outbox, left, worker, closed, history>>

(* BLPop on the result key: the result is there, or the call blocks for
   resultTimeout or until its context's deadline if that is nearer. *)
AwaitResult(m) ==
    /\ caller[m] = "pushed"
    /\ \/ /\ outbox[m] # NoResult
          /\ caller' = [caller EXCEPT ![m] = outbox[m].val]
          /\ outbox' = [outbox EXCEPT ![m] = NoResult]
          /\ UNCHANGED left
       \/ /\ outbox[m] = NoResult
          /\ caller' = [caller EXCEPT ![m] = "waiting"]
          /\ \E t \in WaitTimes : left' = [left EXCEPT ![m] = t]
          /\ UNCHANGED outbox
    /\ UNCHANGED <<queue, gate, worker, closed, history, faults>>

\* mutant: BLPop with timeout 0 blocks for ever
TimeOut_Never(m) == FALSE /\ UNCHANGED vars

(* BLPop returns redis.Nil at the timeout. *)
TimeOut(m) ==
    /\ caller[m] = "waiting"
    /\ left[m] = 0
    /\ caller' = [caller EXCEPT ![m] = "err"]
    /\ UNCHANGED <<redis, left, worker, closed, history, faults>>

(* BLPop returns an error of the connection. *)
WaitFails(m) ==
    /\ caller[m] \in {"pushed", "waiting"}
    /\ Fault
    /\ caller' = [caller EXCEPT ![m] = "err"]
    /\ left' = [left EXCEPT ![m] = 0]
    /\ UNCHANGED <<redis, worker, closed, history>>

-----------------------------------------------------------------------------
(* processQueue *)

\* mutant: an error of BLPop ends the loop
Dequeue_ErrorReturns(p) ==
    /\ pc[p] = "idle"
    /\ queue # <<>>
    /\ queue' = Tail(queue)
    /\ \/ /\ pc' = [pc EXCEPT ![p] = "gate"]
          /\ hand' = [hand EXCEPT ![p] = Head(queue)]
          /\ NoFault
       \/ Fault /\ pc' = [pc EXCEPT ![p] = "stopped"] /\ UNCHANGED hand
    /\ UNCHANGED <<gate, outbox, callers, tries, wait, verdict, read, closed, history>>

(* BLPop on the queue.  The reply can be lost after the element was popped.
   A BLPop under way when s.ctx is cancelled still returns its element. *)
Dequeue(p) ==
    /\ pc[p] = "idle"
    /\ queue # <<>>
    /\ queue' = Tail(queue)
    /\ \/ /\ pc' = [pc EXCEPT ![p] = "gate"]
          /\ hand' = [hand EXCEPT ![p] = Head(queue)]
          /\ NoFault
       \/ Fault /\ UNCHANGED <<pc, hand>>
    /\ UNCHANGED <<gate, outbox, callers, tries, wait, verdict, read, closed, history>>

(* waitForSlot reads the clock and sends the script off; with s.ctx already
   cancelled the call fails at once and the send goes on without a slot. *)
WaitForSlot(p) ==
    /\ pc[p] = "gate"
    /\ pc' = [pc EXCEPT ![p] = IF closed[p] THEN "send" ELSE "ask"]
    /\ UNCHANGED <<redis, callers, hand, tries, wait, verdict, read, closed,
                   history, faults>>

(* Milliseconds since the last send as the script sees them: p's reading
   against the reading that p or another pod left in the key. *)
Elapsed(p) == (gate.age + gate.late + Skew[p]) - (read[p] + Skew[gate.by])
SlotFree(p) == gate # NoKey => Elapsed(p) >= Interval

\* mutant: the script tests the slot and somebody else sets the key
TakeSlot_NoSet(p) ==
    /\ SlotFree(p)
    /\ sinceRead' = read[p]
    /\ UNCHANGED gate

(* The script finds the slot free and takes it: SET now. *)
TakeSlot(p) ==
    /\ SlotFree(p)
    /\ gate' = [age |-> 0, late |-> read[p], by |-> p]
    /\ sinceRead' = read[p]

Granted(p) == TakeSlot(p) /\ pc' = [pc EXCEPT ![p] = "send"] /\ NoFault
              /\ UNCHANGED wait

(* The script says how long to sleep. *)
Denied(p) ==
    /\ ~SlotFree(p)
    /\ pc' = [pc EXCEPT ![p] = "sleep"]
    /\ wait' = [wait EXCEPT ![p] = Interval - Elapsed(p)]
    /\ NoFault
    /\ UNCHANGED <<gate, sinceRead>>

(* The call fails: waitForSlot returns because s.ctx is cancelled, or lets
   the send proceed (fail open).  The script may have run all the same. *)
Ungated(p) ==
    /\ \/ closed[p] /\ NoFault /\ UNCHANGED <<gate, sinceRead>>
       \/ Fault /\ (TakeSlot(p) \/ UNCHANGED <<gate, sinceRead>>)
    /\ pc' = [pc EXCEPT ![p] = "send"]
    /\ UNCHANGED wait

AcquireSendSlot(p) ==
    /\ pc[p] = "ask"
    /\ Granted(p) \/ Denied(p) \/ Ungated(p)
    /\ read' = [read EXCEPT ![p] = 0]
    /\ UNCHANGED <<queue, outbox, callers, hand, tries, verdict, closed,
                   accepted, torn>>

(* The sleep of waitForSlot ends, or Close ends it and no slot is taken. *)
Wake(p) ==
    /\ pc[p] = "sleep"
    /\ \/ wait[p] = 0 /\ pc' = [pc EXCEPT ![p] = "gate"]
       \/ closed[p] /\ pc' = [pc EXCEPT ![p] = "send"]
    /\ wait' = [wait EXCEPT ![p] = 0]
    /\ UNCHANGED <<redis, callers, hand, tries, verdict, read, closed, history, faults>>

(* doSend posts one request.  WaSenderAPI decides here; a connection that
   breaks before the answer arrives leaves the message accepted. *)
Request(p) ==
    /\ pc[p] = "send"
    /\ pc' = [pc EXCEPT ![p] = "http"]
    /\ \E a \in Answers :
          /\ verdict' = [verdict EXCEPT ![p] = a]
          /\ accepted' = [accepted EXCEPT ![hand[p]] =
                             IF a \in {"accept", "acceptLost"} THEN @ + 1 ELSE @]
    /\ UNCHANGED <<redis, callers, hand, tries, wait, read, closed, sinceRead,
                   torn, faults>>

\* mutant: network errors are retried like a 429
Throttled_RetryErrors(p) ==
    /\ verdict[p] \in {"throttle", "acceptLost"}
    /\ tries[p] < MaxRetries
    /\ pc' = [pc EXCEPT ![p] = "backoff"]
    /\ \E t \in RetryWaits : wait' = [wait EXCEPT ![p] = t]
    /\ verdict' = [verdict EXCEPT ![p] = "none"]

(* A 429 that is retried: sleep for retry_after. *)
Throttled(p) ==
    /\ verdict[p] = "throttle"
    /\ tries[p] < MaxRetries
    /\ pc' = [pc EXCEPT ![p] = "backoff"]
    /\ \E t \in RetryWaits : wait' = [wait EXCEPT ![p] = t]
    /\ verdict' = [verdict EXCEPT ![p] = "none"]

\* mutant: the loop runs out and doSend returns nil
Answered_ExhaustedIsNil(p) ==
    /\ verdict[p] = "throttle" => tries[p] >= MaxRetries
    /\ pc' = [pc EXCEPT ![p] = "publish"]
    /\ verdict' = [verdict EXCEPT ![p] =
                      IF @ \in {"accept", "throttle"} THEN "ok" ELSE "err"]
    /\ UNCHANGED wait

(* Every other answer ends doSend: nil on 2xx, an error otherwise. *)
Answered(p) ==
    /\ verdict[p] = "throttle" => tries[p] >= MaxRetries
    /\ pc' = [pc EXCEPT ![p] = "publish"]
    /\ verdict' = [verdict EXCEPT ![p] = IF @ = "accept" THEN "ok" ELSE "err"]
    /\ UNCHANGED wait

Reply(p) ==
    /\ pc[p] = "http"
    /\ Throttled(p) \/ Answered(p)
    /\ UNCHANGED <<redis, callers, hand, tries, read, closed, history, faults>>

Retry(p) ==
    /\ pc[p] = "backoff"
    /\ wait[p] = 0
    /\ pc' = [pc EXCEPT ![p] = "send"]
    /\ tries' = [tries EXCEPT ![p] = @ + 1]
    /\ UNCHANGED <<redis, callers, hand, wait, verdict, read, closed, history,
                   faults>>

\* mutant: the result is pushed without an Expire
Deliver_NoExpire(m, val, ttl) ==
    IF caller[m] = "waiting"
    THEN /\ caller' = [caller EXCEPT ![m] = val]
         /\ left' = [left EXCEPT ![m] = 0]
         /\ UNCHANGED outbox
    ELSE /\ outbox' = [outbox EXCEPT ![m] = [val |-> val, ttl |-> NoTTL]]
         /\ UNCHANGED callers

(* RPUSH of the result, and the EXPIRE behind it in the pipeline: the
   result serves a caller that is blocked on the key, or stays. *)
Deliver(m, val, ttl) ==
    IF caller[m] = "waiting"
    THEN /\ caller' = [caller EXCEPT ![m] = val]
         /\ left' = [left EXCEPT ![m] = 0]
         /\ UNCHANGED outbox
    ELSE /\ outbox' = [outbox EXCEPT ![m] = [val |-> val, ttl |-> ttl]]
         /\ UNCHANGED callers

(* The result is published with s.ctx: after Close it is lost.  The
   pipeline is no transaction: it may break before the RPUSH, or between
   the RPUSH and the EXPIRE. *)
Publish(p) ==
    /\ pc[p] = "publish"
    /\ \/ /\ ~closed[p]
          /\ Deliver(hand[p], verdict[p], ResultTTL)
          /\ NoFault
          /\ UNCHANGED torn
       \/ closed[p] /\ NoFault /\ UNCHANGED <<outbox, callers, torn>>
       \/ Fault /\ UNCHANGED <<outbox, callers, torn>>
       \/ /\ Fault
          /\ Deliver(hand[p], verdict[p], NoTTL)
          /\ torn' = torn \cup {hand[p]}
    /\ pc' = [pc EXCEPT ![p] = IF closed[p] THEN "stopped" ELSE "idle"]
    /\ hand' = [hand EXCEPT ![p] = NoMsg]
    /\ tries' = [tries EXCEPT ![p] = 0]
    /\ verdict' = [verdict EXCEPT ![p] = "none"]
    /\ UNCHANGED <<queue, gate, wait, read, closed, accepted, sinceRead>>

(* The loop sees s.ctx.Err() and returns. *)
Stop(p) ==
    /\ pc[p] = "idle"
    /\ closed[p]
    /\ pc' = [pc EXCEPT ![p] = "stopped"]
    /\ UNCHANGED <<redis, callers, hand, tries, wait, verdict, read, closed,
                   history, faults>>

Close(p) ==
    /\ p \in Closable
    /\ pc[p] # "down"
    /\ ~closed[p]
    /\ closed' = [closed EXCEPT ![p] = TRUE]
    /\ UNCHANGED <<redis, callers, worker, history, faults>>

-----------------------------------------------------------------------------
(* The environment *)

\* mutant: a pod that shuts down puts the message in its hand back
Crash_Requeue(p) ==
    /\ pc[p] # "down"
    /\ Fault
    /\ queue' = IF hand[p] = NoMsg THEN queue ELSE Append(queue, hand[p])
    /\ pc' = [pc EXCEPT ![p] = "down"]
    /\ hand' = [hand EXCEPT ![p] = NoMsg]
    /\ tries' = [tries EXCEPT ![p] = 0]
    /\ wait' = [wait EXCEPT ![p] = 0]
    /\ verdict' = [verdict EXCEPT ![p] = "none"]
    /\ read' = [read EXCEPT ![p] = 0]
    /\ caller' = [m \in Msgs |->
                    IF Home[m] = p /\ caller[m] \in {"pushed", "waiting"}
                    THEN "gone" ELSE caller[m]]
    /\ left' = [m \in Msgs |-> IF Home[m] = p THEN 0 ELSE left[m]]
    /\ UNCHANGED <<gate, outbox, closed, history>>

(* The process dies (cmd/server exits on SIGTERM without running its
   deferred Close): the message in hand and the calls waiting there go. *)
Crash(p) ==
    /\ pc[p] # "down"
    /\ Fault
    /\ pc' = [pc EXCEPT ![p] = "down"]
    /\ hand' = [hand EXCEPT ![p] = NoMsg]
    /\ tries' = [tries EXCEPT ![p] = 0]
    /\ wait' = [wait EXCEPT ![p] = 0]
    /\ verdict' = [verdict EXCEPT ![p] = "none"]
    /\ read' = [read EXCEPT ![p] = 0]
    /\ caller' = [m \in Msgs |->
                    IF Home[m] = p /\ caller[m] \in {"pushed", "waiting"}
                    THEN "gone" ELSE caller[m]]
    /\ left' = [m \in Msgs |-> IF Home[m] = p THEN 0 ELSE left[m]]
    /\ UNCHANGED <<redis, closed, history>>

(* NewSender and Start in the process that replaces it. *)
Start(p) ==
    /\ pc[p] = "down"
    /\ pc' = [pc EXCEPT ![p] = "idle"]
    /\ closed' = [closed EXCEPT ![p] = FALSE]
    /\ UNCHANGED <<redis, callers, hand, tries, wait, verdict, read, history, faults>>

(* Redis runs without persistence: a restart empties it and breaks the
   connections of the callers that are blocked on a result. *)
RedisRestart ==
    /\ Fault
    /\ queue' = <<>>
    /\ gate' = NoKey
    /\ outbox' = [m \in Msgs |-> NoResult]
    /\ caller' = [m \in Msgs |-> IF caller[m] = "waiting" THEN "err" ELSE caller[m]]
    /\ left' = [m \in Msgs |-> 0]
    /\ sinceRead' = Interval    \* the spacing is promised within one Redis life
    /\ UNCHANGED <<worker, closed, accepted, torn>>

Down(n) == IF n > 0 THEN n - 1 ELSE 0
Upto(n, cap) == IF n < cap THEN n + 1 ELSE cap

(* One unit of time.  waitForSlot reads the clock and doSend posts its
   request without waiting, so time does not pass before either; the
   timeouts of the Redis client end a call of the script within MaxLag. *)
Tick ==
    /\ \A p \in Pods : pc[p] \notin {"gate", "send"}
    /\ \A p \in Pods : pc[p] = "ask" => read[p] < MaxLag
    /\ read' = [p \in Pods |-> IF pc[p] = "ask" THEN read[p] + 1 ELSE read[p]]
    /\ left' = [m \in Msgs |-> Down(left[m])]
    /\ wait' = [p \in Pods |-> Down(wait[p])]
    /\ outbox' = [m \in Msgs |-> CASE outbox[m].ttl > 1 -> [outbox[m] EXCEPT !.ttl = @ - 1]
                                  [] outbox[m].ttl = 1 -> NoResult
                                  [] OTHER -> outbox[m]]
    /\ gate' = IF gate = NoKey \/ gate.age + 1 >= 2 * Interval
               THEN NoKey                                  \* PX interval_ms * 2
               ELSE [gate EXCEPT !.age = @ + 1]
    /\ sinceRead' = Upto(sinceRead, Interval)
    /\ UNCHANGED <<queue, caller, pc, hand, tries, verdict, closed, accepted, torn,
                   faults>>

-----------------------------------------------------------------------------
Caller(m) == \/ SendMessage(m) \/ AwaitResult(m)
             \/ TimeOut(m) \/ WaitFails(m)
Worker(p) == \/ Dequeue(p) \/ WaitForSlot(p) \/ AcquireSendSlot(p) \/ Wake(p)
             \/ Request(p) \/ Reply(p) \/ Retry(p) \/ Publish(p) \/ Stop(p)
Environment(p) == Close(p) \/ Crash(p) \/ Start(p)

Next ==
    \/ \E m \in Msgs : Caller(m)
    \/ \E p \in Pods : Worker(p) \/ Environment(p)
    \/ RedisRestart
    \/ Tick

Spec == Init /\ [][Next]_vars

(* Fair are the program's own steps, the passing of time, WaSenderAPI's
   answer (the client has no timeout) and the restart of a pod; a call of
   SendMessage, Close and every fault are not. *)
FairSpec ==
    /\ Spec
    /\ WF_vars(Tick)
    /\ \A m \in Msgs : WF_vars(AwaitResult(m)) /\ WF_vars(TimeOut(m))
    /\ \A p \in Pods : WF_vars(Worker(p)) /\ WF_vars(Start(p))

-----------------------------------------------------------------------------
Keys == [age : 0..(2 * Interval - 1), late : 0..MaxLag, by : Pods]
Results == [val : {"ok", "err"}, ttl : 1..ResultTTL \cup {NoTTL}]

(* Type invariant. *)
TypeOK ==
    /\ queue \in Seq(Msgs)
    /\ gate \in {NoKey} \cup Keys
    /\ outbox \in [Msgs -> {NoResult} \cup Results]
    /\ caller \in [Msgs -> CallerStates]
    /\ left \in [Msgs -> Nat]
    /\ pc \in [Pods -> PodStates]
    /\ hand \in [Pods -> Msgs \cup {NoMsg}]
    /\ \A p \in Pods : hand[p] # NoMsg <=> pc[p] \in Holding
    /\ tries \in [Pods -> 0..MaxRetries]
    /\ wait \in [Pods -> Nat]
    /\ verdict \in [Pods -> Answers \cup {"none", "ok", "err"}]
    /\ read \in [Pods -> 0..MaxLag]
    /\ closed \in [Pods -> BOOLEAN]
    /\ accepted \in [Msgs -> Nat]
    /\ sinceRead \in 0..(Interval + MaxLag)
    /\ torn \subseteq Msgs
    /\ faults \in 0..MaxFaults

Queued == Range(queue)

(* A message WaSenderAPI has not yet decided about can still be accepted. *)
Undecided(p) ==
    \/ pc[p] \in {"gate", "ask", "sleep", "send", "backoff"}
    \/ pc[p] = "http" /\ verdict[p] = "throttle" /\ tries[p] < MaxRetries
Pending(m) == m \in Queued \/ \E p \in Pods : hand[p] = m /\ Undecided(p)

(* One custodian: a message is in the Redis list once, or in the hands of
   one processQueue, never in both and never in two, whatever crashes,
   shutdowns and lost replies there were (BLPop of processQueue). *)
OneCustodian ==
    /\ IsInjective(queue)
    /\ \A p \in Pods : hand[p] \notin Queued
    /\ \A p, q \in Pods : hand[p] = hand[q] /\ hand[p] # NoMsg => p = q

(* WaSenderAPI never accepts a message twice, although doSend retries on
   429 and answers get lost: a request whose fate is unknown is not
   repeated, and a popped message is never put back. *)
AcceptedAtMostOnce == \A m \in Msgs : accepted[m] <= 1

(* SendMessage returns nil only for a message WaSenderAPI accepted, also
   when the result outlived a timeout, a crash or another pod's Close. *)
OkMeansAccepted == \A m \in Msgs : caller[m] = "ok" => accepted[m] = 1

(* What makes the two invariants above inductive: where a processQueue is
   says what it knows, and every message is in one phase of its life. *)
Phases ==
    \A p \in Pods :
        /\ pc[p] = "backoff" => tries[p] < MaxRetries
        /\ pc[p] = "http" => verdict[p] \in Answers
        /\ pc[p] = "publish" => verdict[p] \in {"ok", "err"}

Fresh ==
    \A m \in Msgs : caller[m] = "new" =>
        /\ m \notin Queued
        /\ \A p \in Pods : hand[p] # m
        /\ accepted[m] = 0
        /\ outbox[m] = NoResult

Fates ==
    /\ \A m \in Queued : accepted[m] = 0
    /\ \A p \in Pods :
          /\ pc[p] \in {"gate", "ask", "sleep", "send", "backoff"} => accepted[hand[p]] = 0
          /\ pc[p] = "http" /\ verdict[p] \in {"throttle", "refuse"}
                => accepted[hand[p]] = 0
          /\ pc[p] = "http" /\ verdict[p] = "accept" => accepted[hand[p]] = 1
          /\ pc[p] = "publish" /\ verdict[p] = "ok" => accepted[hand[p]] = 1
    /\ \A m \in Msgs : outbox[m].val = "ok" => accepted[m] = 1

IInv == /\ TypeOK /\ Phases /\ OneCustodian /\ Fresh /\ Fates
        /\ AcceptedAtMostOnce /\ OkMeansAccepted

(* The gate remembers the last grant: while the key lives it tells the time
   since the reading it was granted by, and it dies only after two intervals. *)
GateInv ==
    sinceRead < Interval => gate # NoKey /\ sinceRead = gate.age + gate.late

(* No slot is granted sooner than Interval after the reading of the clock by
   which the slot before it was granted, up to the clock difference of the
   pods and as long as Redis keeps its data (acquireSendSlot's elapsed test
   and the key's PX of two intervals).  The way from that reading to its SET
   is time the next slot may come early. *)
SlotSpacing ==
    [][\A p \in Pods : pc[p] = "ask" /\ TakeSlot(p)
            => sinceRead >= Interval - MaxSkew]_vars

(* Every SendMessage call that reached Redis returns, or dies with its pod
   (the BLPop on the result key has a timeout). *)
CallsReturn ==
    \A m \in Msgs : caller[m] \in {"pushed", "waiting"}
                    ~> caller[m] \in {"ok", "err", "gone"}

(* Every message leaves the queue unless every pod was shut down: denied
   slots, 429s, Redis errors and crashed pods that restart do not strand it. *)
QueueDrains ==
    \A m \in Msgs : m \in Queued ~> \/ m \notin Queued
                                    \/ \A p \in Pods : closed[p]

(* A result nobody collects does not stay in Redis (resultKeyTTL), unless
   the pipeline that pushed it broke before its EXPIRE. *)
ResultsExpire ==
    \A m \in Msgs : outbox[m] # NoResult /\ m \notin torn
                    ~> outbox[m] = NoResult

(* The sender implements the outbox its callers rely on. *)
Stage(m) ==
    CASE accepted[m] = 1 -> "delivered"
      [] accepted[m] > 1 -> "duplicated"
      [] accepted[m] = 0 /\ Pending(m) -> "pending"
      [] accepted[m] = 0 /\ ~Pending(m) /\ caller[m] = "new" -> "new"
      [] OTHER -> "dropped"
Outbox == INSTANCE WaOutbox WITH
    stage <- [m \in Msgs |-> Stage(m)],
    report <- [m \in Msgs |-> IF caller[m] \in {"ok", "err"}
                              THEN caller[m] ELSE "none"]
RefinesOutbox == Outbox!Spec
=============================================================================
