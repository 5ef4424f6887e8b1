------------------------ MODULE WeeklyRebalanceProps ------------------------
(* What the weekly runners guarantee, and what is said of them. *)
EXTENDS WeeklyRebalance

(* The variables stay in their types: nothing is sold that is not held. *)
TypeOK ==
  /\ market \in Markets
  /\ day \in Days /\ runs \in 0..RunsPerDay /\ plans \in 0..RunsPerDay
  /\ most \in Nat \ {0}
  /\ marker \subseteq Weeks
  /\ held \in [Symbols -> Nat]
  /\ openBuy \in [Symbols -> Nat] /\ openSell \in [Symbols -> Nat]
  /\ pc \in {"idle", "send", "confirm", "mark"}
  /\ ranked \in BOOLEAN /\ aligned \in BOOLEAN
  /\ before \in [Symbols -> Nat]
  /\ asked \subseteq Symbols /\ buys \subseteq Symbols /\ sells \subseteq Symbols
  /\ accepted \in Nat
  /\ filled \subseteq Symbols
  /\ tradedOn \subseteq Days /\ alignedOn \subseteq Days

(***************************************************************************)
(* A symbol never gets a second allocation: through lost answers, late     *)
(* fills, crashes and retries, what is held and on order is at most one    *)
(* lot, times the runs of a single day that planned (kis_balance.py:62).   *)
(* The factor is real: a second run on the same day does not see what the  *)
(* first has left open.                                                    *)
(***************************************************************************)
OneAllocation ==
  \A s \in Symbols : held[s] + openBuy[s] <= Lot * most

(***************************************************************************)
(* A week is marked only if something was executed in it or a plan had     *)
(* nothing to do: an order that was only accepted is tried again           *)
(* (weekly_marker.py:4).                                                   *)
(***************************************************************************)
MarkerIsEarned ==
  \A w \in marker : \E d \in tradedOn \union alignedOn : WeekOf[d] = w

(***************************************************************************)
(* No order reaches the broker in a week that is marked, whichever run     *)
(* marked it and whenever its own orders are executed.                     *)
(***************************************************************************)
QuietOnceMarked ==
  [][\A s \in Symbols :
       openBuy'[s] > openBuy[s] \/ openSell'[s] > openSell[s]
         => Week \notin marker]_vars

(***************************************************************************)
(* weekly_marker.py:3: however often a week is retried, there is one real  *)
(* trade in it.  Not so when orders are executed after the confirmation    *)
(* has stopped looking, or the run dies between an order and the marker:   *)
(* the next weekday trades again.                                          *)
(***************************************************************************)
OncePerWeek ==
  \A c, d \in tradedOn : WeekOf[c] = WeekOf[d] => c = d
=============================================================================
