---------------------------- MODULE MCPyDispatch ----------------------------
(* dispatch.py for TLC: two servers, one of which may move. *)
EXTENDS PyDispatch, TLC

CONSTANTS p1, p2, x1, x2
=============================================================================
