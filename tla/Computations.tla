---------------------------- MODULE Computations ----------------------------
(***************************************************************************)
(* The sequential tools: RateMeasure, Polynomial and AngleUnroller.  They  *)
(* do not interact; a behaviour is about one of them.                      *)
(***************************************************************************)
EXTENDS RateMeasure, Polynomial, Angles
LOCAL INSTANCE SequencesExt

CONSTANTS
    Coefficients,   \* of the polynomials that are set
    MaxOrder,       \* bound: order of the polynomials
    Points,         \* where they are evaluated, and reversed
    MaxTurns        \* bound: of the unrolled angle, in half turns

ASSUME ComputationsAssumption ==
    /\ Coefficients \subseteq Int /\ Coefficients # {}
    /\ Points \subseteq Int
    /\ MaxOrder \in Nat /\ MaxTurns \in Nat

VARIABLES
    subject,    \* "rate", "polynomial" or "angle"
    poly,       \* coefficients_ of a Polynomial
    made        \* how it was made: the operation, its operand and its parameter

AnglesSeen == -3 * kPi..3 * kPi

vars == <<rateVars, unrolled_angle, subject, poly, made>>

Init ==
    /\ subject \in {"rate", "polynomial", "angle"}
    /\ RateInit
    /\ unrolled_angle \in IF subject = "angle" THEN AnglesSeen ELSE {0}
    /\ \E n \in IF subject = "polynomial" THEN 1..MaxOrder + 1 ELSE {1} :
         \E c \in [1..n -> IF subject = "polynomial" THEN Coefficients ELSE {0}] :
            /\ poly = setCoefficients(c)
            /\ made = [by |-> "set", of |-> c, with |-> 0]

Measure ==
    /\ subject = "rate"
    /\ \/ \E s \in Samples : markSize(s[1], s[2])
       \/ reset
       \/ resetMaxJitter
    /\ UNCHANGED <<unrolled_angle, subject, poly, made>>

Derive(order) ==
    /\ poly' = derivative(poly, order)
    /\ made' = [by |-> "derivative", of |-> poly, with |-> order]

ReverseOver(t0, t1) ==
    /\ poly' = reverse(poly, t0, t1)
    /\ made' = [by |-> "reverse", of |-> poly, with |-> t0 + t1]

Compute ==
    /\ subject = "polynomial"
    /\ made.by = "set"
    /\ \/ \E order \in 0..MaxOrder + 1 : Derive(order)
       \/ \E t0, t1 \in Points : ReverseOver(t0, t1)
    /\ UNCHANGED <<rateVars, unrolled_angle, subject>>

Unroll ==
    /\ subject = "angle"
    /\ \E a \in AnglesSeen : unrollAngle(a)
    /\ fabs(unrolled_angle') <= MaxTurns * kPi
    /\ UNCHANGED <<rateVars, subject, poly, made>>

Next == Measure \/ Compute \/ Unroll

Spec == Init /\ [][Next]_vars

-----------------------------------------------------------------------------
SumsMatch ==
    /\ rate.interval_acc = Sum(rate.intervals)
    /\ rate.jitter_acc = Sum(rate.jitters)
    /\ rate.size_acc = Sum(rate.sizes)
    /\ Len(rate.jitters) = Len(rate.intervals)
    /\ Len(rate.sizes) = Len(rate.intervals)

(* The running sums of RateMeasure are the sums of its queues, also when   *)
(* samples go on after a reset(), and the samples a mark keeps are the     *)
(* latest ones that fit the window, all of them: nothing is dropped that   *)
(* would have fit.                                                         *)
WindowIsExact ==
    [][/\ SumsMatch'
       /\ \A s \in Samples :
            marked /\ markSize(s[1], s[2]) =>
                LET all == Append(rate.intervals, s[1])
                    n   == Len(rate'.intervals)
                IN  /\ Sum(LastN(all, n)) <= SampleWindow
                    /\ n < Len(all) => Sum(LastN(all, n + 1)) > SampleWindow]_vars

(* "Returns the nearest bin to the given interval": of the bins of every   *)
(* decade none is nearer to the average than the target, although the      *)
(* search starts from the bin that was nearest before.                     *)
TargetIsNearest ==
    rate.target # 0 =>
        \E i \in 0..kIntervalBinsSize - 1 :
            /\ rate.target = binValue(rate.avg, i)
            /\ \A j \in 1..kIntervalBinsSize, e \in 1..5 :
                  Diff(rate.avg, i) <= Abs(60 * rate.avg - kIntervalBins[j] * kTenToThe[e])

(* isAtWindow() does not divide by zero: the target may be rounded up, but *)
(* not above the window, provided that the window is itself a bin.         *)
WindowHoldsTarget == rate.target # 0 => ticksPerWindow > 0

Power(t, k) == FoldLeft(LAMBDA x, j : x * t, 1, [j \in 1..k |-> j])

Falling(k, order) == FoldLeft(LAMBDA x, j : x * (k - j), 1, [j \in 1..order |-> j - 1])

PolynomialAt(c, t) == FoldLeft(+, 0, [k \in 1..Len(c) |-> c[k] * Power(t, k - 1)])

DerivativeAt(c, order, t) ==
    FoldLeft(+, 0, [k \in 1..Len(c) |->
        IF k - 1 < order THEN 0 ELSE c[k] * Falling(k - 1, order) * Power(t, k - 1 - order)])

(* The derivative of any order is the term-by-term one, at every point,    *)
(* also when the order is that of the polynomial or more; and              *)
(* "G(t) = P(t0 + t1 - t)" for the reverse G of P over [t0, t1].           *)
PolynomialsAreRight ==
    \A t \in Points :
        CASE made.by = "derivative" -> Value(poly, t) = DerivativeAt(made.of, made.with, t)
          [] made.by = "reverse"    -> Value(poly, t) = PolynomialAt(made.of, made.with - t)
          [] OTHER                  -> TRUE

(* Whatever angles are added, the unrolled angle is the same direction as  *)
(* the last one, and it got there by the shorter way: "without any         *)
(* discontinuities".                                                       *)
UnrollsWithoutJumps ==
    [][\A a \in AnglesSeen :
          unrollAngle(a) /\ subject = "angle" =>
             /\ (unrolled_angle' - a) % (2 * kPi) = 0
             /\ fabs(unrolled_angle' - unrolled_angle) = AngleDiff(a, unrolled_angle)]_vars
=============================================================================
