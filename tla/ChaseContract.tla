--------------------------- MODULE ChaseContract ---------------------------
(***************************************************************************)
(* What place_and_chase promises its callers (the docstrings of            *)
(* common/broker/kis_chase.py): of an order for Want shares it never has   *)
(* more than Want executed or open at the broker, it sends an order again  *)
(* only when nothing of it is open, and the number it reports has really   *)
(* been executed.  The broker may go on executing what is still open.      *)
(*                                                                         *)
(* The promise holds while the chase is alone with its symbol: it reads    *)
(* its fills from the holding of the whole account.                        *)
(***************************************************************************)
EXTENDS Integers

CONSTANT Wants          \* quantities that are asked for

VARIABLES
  want,       \* the quantity asked for
  executed,   \* shares the broker has executed
  open,       \* shares of the order that the broker may still execute
  report,     \* what the caller was told, NoReport before that
  others      \* trades of the account's other orders in the symbol

NoReport == -1

Init ==
  /\ want \in Wants
  /\ executed = 0
  /\ open = 0
  /\ report = NoReport
  /\ others = 0

Accept ==
  /\ report = NoReport
  /\ open = 0
  /\ open' \in 1..(want - executed)
  /\ UNCHANGED <<want, executed, report, others>>

Execute ==
  /\ \E q \in 1..open : open' = open - q /\ executed' = executed + q
  /\ UNCHANGED <<want, report, others>>

Withdraw ==
  /\ open' \in 0..open
  /\ UNCHANGED <<want, executed, report, others>>

Report ==
  /\ report = NoReport
  /\ report' \in 0..executed
  /\ UNCHANGED <<want, executed, open, others>>

OthersTrade ==
  /\ others' > others
  /\ UNCHANGED <<want, executed, open, report>>

NotAlone == others > 0 /\ others' >= others

Next == Accept \/ Execute \/ Withdraw \/ Report \/ OthersTrade \/ NotAlone

Spec == Init /\ [][Next]_<<want, executed, open, report, others>>
=============================================================================
