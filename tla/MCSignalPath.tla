---------------------------- MODULE MCSignalPath ----------------------------
(***************************************************************************)
(* Loads and money for the instances of SignalPath.  Prices are money per  *)
(* least unit of coin; an account starts with what buys about nine units.  *)
(***************************************************************************)
EXTENDS SignalPath

CONSTANTS fast, mid, slow, acc, btc

MCLoadOf == [n \in Loads |-> CASE n = fast -> [short |-> 1, long |-> 2]
                               [] n = mid -> [short |-> 2, long |-> 3]
                               [] n = slow -> [short |-> 1, long |-> 3]]
MCHistories == { <<60, 80, 40>>, <<40, 40, 60>> }
MCAppraisals == { [scores |-> [n \in Loads |-> IF n = fast THEN 2 ELSE -1], passed |-> Loads],
                  [scores |-> [n \in Loads |-> 1], passed |-> {slow}] }
\* One, two or all loads pass, or none, with scores equal or far apart.
MCManyAppraisals ==
  { [scores |-> [n \in Loads |-> IF n = fast THEN a ELSE 1], passed |-> P] :
      a \in {1, 9}, P \in {{}, {fast}, {slow}, {fast, mid}, Loads} }
\* A restart, or weights that are re-evaluated twice.
RestartOrTwice == restarts + reevals <= 2
MCCash0 == [a \in Accounts |-> 800]
=============================================================================
