---------------------------- MODULE MCBufferPool ----------------------------
(* An instance of the buffer pool, shared with two threads of zmq. *)
EXTENDS BufferPool, TLC

CONSTANTS node, zmq1, zmq2, os1, os2

Symmetry == Permutations({zmq1, zmq2}) \cup Permutations({os1, os2})
=============================================================================
