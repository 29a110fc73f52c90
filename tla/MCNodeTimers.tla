---------------------------- MODULE MCNodeTimers ----------------------------
(* One repeater and one watchdog on a node. *)
EXTENDS NodeTimers
=============================================================================
