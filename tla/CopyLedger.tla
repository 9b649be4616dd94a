----------------------------- MODULE CopyLedger -----------------------------
(* What the copy engine promises of each copy, whatever its workers, its    *)
(* queue and its broker go through: a copy is claimed once, ordered at most *)
(* once while it is claimed, and given a verdict that matches the order; a  *)
(* verdict can later only turn into FAILED.                                 *)
EXTENDS Naturals

CONSTANTS
  Copies,  \* pairs of an event and an account
  Opens    \* the copies that open a position

VARIABLES
  row,     \* the status of the copy's record
  orders   \* the orders executed for the copy

Verdicts == {"SUCCESS", "FAILED", "SKIPPED"}

Init ==
  /\ row = [c \in Copies |-> "none"]
  /\ orders = [c \in Copies |-> 0]

Claim(c) ==
  /\ row[c] = "none"
  /\ row' = [row EXCEPT ![c] = "PENDING"]
  /\ UNCHANGED orders

Order(c) ==
  /\ row[c] = "PENDING"
  /\ orders[c] = 0
  /\ orders' = [orders EXCEPT ![c] = 1]
  /\ UNCHANGED row

Decide(c, verdict) ==
  /\ row[c] = "PENDING"
  /\ verdict = "SKIPPED" => orders[c] = 0
  /\ (verdict = "SUCCESS" /\ c \in Opens) => orders[c] = 1
  /\ row' = [row EXCEPT ![c] = verdict]
  /\ UNCHANGED orders

\* A call that throws after the verdict.
Overturn(c) ==
  /\ row[c] \in Verdicts
  /\ row' = [row EXCEPT ![c] = "FAILED"]
  /\ UNCHANGED orders

Next ==
  \E c \in Copies :
    Claim(c) \/ Order(c) \/ Overturn(c) \/ \E verdict \in Verdicts : Decide(c, verdict)

Spec == Init /\ [][Next]_<<row, orders>>
=============================================================================
