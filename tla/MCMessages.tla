----------------------------- MODULE MCMessages -----------------------------
(* Messages for TLC: two builders, two types, raw buffers that may be empty. *)
EXTENDS Messages

MCRawBuffers == {<<<<>>, <<7>>>>}
=============================================================================
