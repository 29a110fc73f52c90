--------------------------- MODULE MCRequestClient --------------------------
(* Instances of the request client: three requests, a server that may be   *)
(* restarted once.                                                         *)
EXTENDS RequestClient, TLC
=============================================================================
