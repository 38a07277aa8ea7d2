------------------------------ MODULE SpendOnce ------------------------------
(***************************************************************************)
(* What redemption promises, with no store, no clock and no network: a     *)
(* receipt that authorizes an action is spent at most once, and the action *)
(* it authorizes is executed at most once, only after the receipt was      *)
(* spent.  core/receipts/receipts.py states the promise in its first line: *)
(* "Receipt redemption - spend an authorization exactly once".             *)
(***************************************************************************)
EXTENDS Naturals

CONSTANT Receipt      \* the receipts that may ever be issued

VARIABLES
  status,             \* what has become of each receipt
  executions          \* how often the authorized action was executed

svars == <<status, executions>>

Status == {"unissued", "inert", "spendable", "spent"}

SOInit ==
  /\ status = [n \in Receipt |-> "unissued"]
  /\ executions = [n \in Receipt |-> 0]

\* A verdict is issued: PERMIT can be spent, every other verdict never can.
Grant(n) ==
  /\ status[n] = "unissued"
  /\ \E s \in {"inert", "spendable"} : status' = [status EXCEPT ![n] = s]
  /\ UNCHANGED executions

Spend(n) ==
  /\ status[n] = "spendable"
  /\ status' = [status EXCEPT ![n] = "spent"]
  /\ UNCHANGED executions

Execute(n) ==
  /\ status[n] = "spent"
  /\ executions[n] = 0
  /\ executions' = [executions EXCEPT ![n] = 1]
  /\ UNCHANGED status

SONext == \E n \in Receipt : Grant(n) \/ Spend(n) \/ Execute(n)

SOSpec == SOInit /\ [][SONext]_svars
==============================================================================
