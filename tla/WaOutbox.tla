------------------------------ MODULE WaOutbox ------------------------------
(***************************************************************************)
(* What the WhatsApp sender promises its callers, without Redis, pods or   *)
(* time: a message that was submitted is delivered at most once or         *)
(* dropped, and its caller is told at most one outcome; "ok" is told only  *)
(* of a delivered message, "err" may be told of any.                       *)
(***************************************************************************)
CONSTANT Msgs

VARIABLES
    stage,      \* where the message is: new, pending, delivered, dropped
    report      \* what its caller was told: none, ok, err

vars == <<stage, report>>

Init ==
    /\ stage = [m \in Msgs |-> "new"]
    /\ report = [m \in Msgs |-> "none"]

(* A caller hands the message over; when the hand-over itself fails the
   caller learns so at once, whether or not the message got through. *)
Submit(m) ==
    /\ stage[m] = "new"
    /\ \/ stage' = [stage EXCEPT ![m] = "pending"] /\ report' = report
       \/ /\ stage' \in {[stage EXCEPT ![m] = s] : s \in {"pending", "dropped"}}
          /\ report' = [report EXCEPT ![m] = "err"]

Deliver(m) ==
    /\ stage[m] = "pending"
    /\ stage' = [stage EXCEPT ![m] = "delivered"]
    /\ UNCHANGED report

(* Messages vanish, one or many at a time (a crash, a lost queue); callers
   whose connection went with them learn of a failure. *)
Drop ==
    /\ \E lost \in SUBSET {m \in Msgs : stage[m] = "pending"} :
          stage' = [m \in Msgs |-> IF m \in lost THEN "dropped" ELSE stage[m]]
    /\ \E told \in SUBSET {m \in Msgs : stage[m] # "new" /\ report[m] = "none"} :
          report' = [m \in Msgs |-> IF m \in told THEN "err" ELSE report[m]]

Report(m) ==
    /\ stage[m] # "new"
    /\ report[m] = "none"
    /\ \/ stage[m] = "delivered" /\ report' = [report EXCEPT ![m] = "ok"]
       \/ report' = [report EXCEPT ![m] = "err"]
    /\ UNCHANGED stage

Next ==
    \/ \E m \in Msgs : Submit(m) \/ Deliver(m) \/ Report(m)
    \/ Drop

Spec == Init /\ [][Next]_vars
=============================================================================
