----------------------------- MODULE Polynomial -----------------------------
(***************************************************************************)
(* a17/maths/polynomial, with whole coefficients in increasing order.      *)
(***************************************************************************)
EXTENDS Integers, Sequences
LOCAL INSTANCE SequencesExt

(* setCoefficients() removes the highest ones that are zero, but not the   *)
(* last one left.                                                          *)
setCoefficients(c) ==
    LET order == CHOOSE k \in 0..Len(c) - 1 :
                    /\ k = 0 \/ c[k + 1] # 0
                    /\ \A j \in k + 1..Len(c) - 1 : c[j + 1] = 0
    IN  SubSeq(c, 1, order + 1)

(* operator() *)
Value(p, t) == FoldRight(LAMBDA c, value : value * t + c, p, 0)

(* variant: one factor too few *)
derivativeCoefficientShort(k, order) == FoldLeft(LAMBDA x, j : x * j, 1, [j \in 1..order - 1 |-> k + 1 - j])

derivativeCoefficient(k, order) == FoldLeft(LAMBDA x, j : x * j, 1, [j \in 1..order |-> k + 1 - j])

derivative(p, order) ==
    IF order = 0
      THEN setCoefficients(p)
      ELSE IF Len(p) <= order
             THEN setCoefficients(<<0>>)
             ELSE setCoefficients([i \in 1..Len(p) - order |->
                      p[i + order] * derivativeCoefficient(i + order - 1, order)])

conversionMatrix(n, c) ==
    LET m[rc \in (0..n - 1) \X (0..n - 1)] ==
            CASE rc[2] < rc[1] -> 0
              [] rc = <<0, 0>> -> 1
              [] rc[1] = 0 /\ rc[2] > 0 -> c * m[<<0, rc[2] - 1>>]
              [] OTHER -> c * m[<<rc[1], rc[2] - 1>>] - m[<<rc[1] - 1, rc[2] - 1>>]
    IN  m

reverse(p, t0, t1) ==
    LET m == conversionMatrix(Len(p), t0 + t1)
    IN  setCoefficients([row \in 1..Len(p) |->
            FoldLeft(+, 0, [col \in 1..Len(p) |-> m[<<row - 1, col - 1>>] * p[col]])])
=============================================================================
