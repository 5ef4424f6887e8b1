---------------------------- MODULE OrderLedger ----------------------------
(***************************************************************************)
(* What the streaming order path promises to the owner of an account,      *)
(* without any of its moving parts: an order is placed once, and settles   *)
(* either in full, at one market price its limit admits and that the       *)
(* account covers, or not at all.  The order is executed at most once,     *)
(* whatever is lost, repeated or restarted underneath.                     *)
(*                                                                         *)
(* One clause is weaker than a reader of the code's comments would expect. *)
(* A rejection is not final: a second execution message of the order, at a *)
(* later price or after the balance has grown, still fills it.  See        *)
(* RedeliveryIsIdempotent in OrderPipelineProps.                           *)
(***************************************************************************)
EXTENDS OrderTerms

CONSTANTS Cash0, Held0    \* the balances the accounts start with

VARIABLES
  form,        \* what each drawn order id asks for
  status,      \* orders.status
  cash,        \* accounts.krw_balance
  held,        \* positions.quantity
  executions   \* the rows of executions: [order, price]

vars == <<form, status, cash, held, executions>>

Init ==
  /\ form = [o \in OrderIds |-> NoForm]
  /\ status = [o \in OrderIds |-> "ABSENT"]
  /\ cash = Cash0
  /\ held = Held0
  /\ executions = {}

Place(o, f) ==
  /\ status[o] = "ABSENT"
  /\ form' = [form EXCEPT ![o] = f]
  /\ status' = [status EXCEPT ![o] = "PENDING"]
  /\ UNCHANGED <<cash, held, executions>>

Fill(o, p) ==
  /\ status[o] \in {"PENDING", "REJECTED"}
  /\ status' = [status EXCEPT ![o] = "FILLED"]
  /\ Crosses(form[o], p)
  /\ Covered(form[o], p, cash, held)
  /\ cash' = CashAfter(form[o], p, cash)
  /\ held' = HeldAfter(form[o], held)
  /\ executions' = executions \union {[order |-> o, price |-> p]}
  /\ UNCHANGED form

Reject(o, p) ==
  /\ status[o] = "PENDING"
  /\ status' = [status EXCEPT ![o] = "REJECTED"]
  /\ Crosses(form[o], p)
  /\ ~ Covered(form[o], p, cash, held)
  /\ UNCHANGED <<form, cash, held, executions>>

Next ==
  \E o \in OrderIds :
    \/ \E f \in Forms : Place(o, f)
    \/ \E p \in Prices : Fill(o, p) \/ Reject(o, p)

Spec == Init /\ [][Next]_vars
=============================================================================
