------------------------------- MODULE Angles -------------------------------
(***************************************************************************)
(* a17/maths/angle_utils and angle_unroller.  Angles are whole numbers, of *)
(* which half a turn has kPi.                                              *)
(***************************************************************************)
EXTENDS Integers

CONSTANT kPi

ASSUME PiAssumption == kPi \in Nat \ {0}

VARIABLE unrolled_angle     \* unrolled_angle_

fabs(x) == IF x < 0 THEN -x ELSE x

(* turns are taken off or added until the angle is in range *)
WrapToPi(angle) ==
    CHOOSE x \in -kPi..kPi :
        /\ (angle - x) % (2 * kPi) = 0
        /\ angle \in -kPi..kPi => x = angle
        /\ angle > kPi => x > -kPi
        /\ angle < -kPi => x < kPi

AngleDiff(angle1, angle2) ==
    kPi - fabs((fabs(angle1 - angle2) % (2 * kPi)) - kPi)

(* variant: the wrong way round *)
unrollAngleBack(a) ==
    LET diff == WrapToPi(a) - WrapToPi(unrolled_angle)
    IN  unrolled_angle' = unrolled_angle
            + (IF fabs(diff) <= kPi THEN diff ELSE IF diff > 0 THEN 2 * kPi - diff ELSE 2 * kPi + diff)

unrollAngle(a) ==
    LET diff == WrapToPi(a) - WrapToPi(unrolled_angle)
    IN  unrolled_angle' = unrolled_angle
            + (IF fabs(diff) <= kPi THEN diff ELSE IF diff > 0 THEN diff - 2 * kPi ELSE 2 * kPi + diff)
=============================================================================
