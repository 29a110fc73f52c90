----------------------------- MODULE MCDirectory ----------------------------
(* Instances of the directory: two nodes, g1 opens clients. *)
EXTENDS Directory, TLC

CONSTANTS g1, g2, t1, a1, a2, a3, r1
=============================================================================
