---------------------------- MODULE WeightPolicy ----------------------------
(***************************************************************************)
(* How a re-evaluation turns scores into weights (core/weight_policy.py):  *)
(* a load whose edge is not significant aims at nothing, the aim is mixed  *)
(* slowly into the previous weight, and what comes out is pressed between  *)
(* a floor and a cap until the weights add up.                             *)
(*                                                                         *)
(* Weights count parts of Whole, the sum 1, rounded down; a score counts   *)
(* whole units.                                                            *)
(***************************************************************************)
EXTENDS Integers, FiniteSets, SequencesExt

CONSTANTS
  Whole,
  FloorPct, CapPct,     \* floor_mult, cap_mult, per cent of the equal weight
  EwmaPct,              \* ewma_alpha
  Iters                 \* iterations of the clamp

ASSUME PolicyAssumption ==
  /\ Whole \in Nat \ {0} /\ Iters \in Nat \ {0} /\ EwmaPct \in 0..100
  /\ FloorPct \in 0..100 /\ CapPct \in Nat /\ CapPct >= 100

Total(w) == SumFunction(w)
EqualShare(w) == Whole \div Cardinality(DOMAIN w)
Floor(w) == (FloorPct * EqualShare(w)) \div 100
Cap(w) == (CapPct * EqualShare(w)) \div 100
Scaled(w) ==
  LET sum == Total(w)
  IN  [n \in DOMAIN w |-> IF sum <= 0 THEN EqualShare(w) ELSE (w[n] * Whole) \div sum]

\* Weights that add up, and weights that are between floor and cap as well,
\* within the rounding.
AddsUp(w) == Whole - Cardinality(DOMAIN w) <= Total(w) /\ Total(w) <= Whole
Guarded(w) ==
  LET slack == Cardinality(DOMAIN w)
  IN  /\ \A n \in DOMAIN w : Floor(w) - slack <= w[n] /\ w[n] <= Cap(w) + slack
      /\ AddsUp(w)

Clamped(w) == [n \in DOMAIN w |-> Min({Cap(w), Max({Floor(w), w[n]})})]

\* (A definition named ...Bug is the one that follows it with a plausible
\* mistake; nothing uses it.)  Pressed once: adding up lifts a weight over the
\* cap again.
ClampNormalizeBug(w) == Scaled(Clamped(w))

ClampNormalize(w) ==
  FoldLeft(LAMBDA v, i : IF i > 1 /\ Guarded(v) THEN v ELSE Scaled(Clamped(v)),
           w, [i \in 1..Iters |-> i])

(***************************************************************************)
(* compute_weights: equal weights when no load passes its gate with a      *)
(* positive score.                                                         *)
(***************************************************************************)
ComputeWeights(scores, passed, prev) ==
  LET raw == [n \in DOMAIN scores |-> IF n \in passed THEN Max({0, scores[n]}) ELSE 0]
      before(n) == IF n \in DOMAIN prev THEN prev[n] ELSE EqualShare(raw)
  IN  IF Total(raw) = 0
      THEN [n \in DOMAIN raw |-> EqualShare(raw)]
      ELSE ClampNormalize([n \in DOMAIN raw |->
             (EwmaPct * Scaled(raw)[n] + (100 - EwmaPct) * before(n)) \div 100])
=============================================================================
