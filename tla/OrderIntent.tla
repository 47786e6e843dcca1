----------------------------- MODULE OrderIntent -----------------------------
(***************************************************************************)
(* What the Runner promises of one order intent, whatever fails underneath:*)
(* it is recorded before anything leaves the process, it leaves at most    *)
(* once, and a verdict is given only on what has left.  A verdict does not *)
(* stand: see Revise and RunnerOrders!FinalIsFinal.                        *)
(***************************************************************************)
CONSTANT Intents

VARIABLES
  stage,    \* "new", "recorded" in the ledger, "sent" to the exchange
  verdict   \* "open" or the final status of the order

Verdicts == {"FILLED", "CANCELLED", "REJECTED"}

Init ==
  /\ stage   = [c \in Intents |-> "new"]
  /\ verdict = [c \in Intents |-> "open"]

Record(c) ==
  /\ stage[c] = "new"
  /\ stage' = [stage EXCEPT ![c] = "recorded"]
  /\ UNCHANGED verdict

Send(c) ==
  /\ stage[c] = "recorded"
  /\ stage' = [stage EXCEPT ![c] = "sent"]
  /\ UNCHANGED verdict

Decide(c) ==
  /\ stage[c] = "sent"
  /\ verdict[c] = "open"
  /\ \E v \in Verdicts : verdict' = [verdict EXCEPT ![c] = v]
  /\ UNCHANGED stage

\* A worker that checked the order before the verdict overwrites it.
Revise(c) ==
  /\ verdict[c] # "open"
  /\ \E v \in Verdicts \cup {"open"} : verdict' = [verdict EXCEPT ![c] = v]
  /\ UNCHANGED stage

Next == \E c \in Intents : Record(c) \/ Send(c) \/ Decide(c) \/ Revise(c)

Spec == Init /\ [][Next]_<<stage, verdict>>
=============================================================================
