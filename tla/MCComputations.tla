--------------------------- MODULE MCComputations ---------------------------
(* The sequential tools for TLC: samples from simultaneous to longer than  *)
(* the window, cubic polynomials, angles of a twelfth of a turn.           *)
EXTENDS Computations

MCSamples == {<<0, 1>>, <<3, 2>>, <<9, 2>>, <<101, 1>>, <<99, 5>>, <<300, 3>>}
MCCoefficients == {-2, 0, 1, 3}
MCPoints == -2..2
=============================================================================
