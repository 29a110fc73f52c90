--------------------------- MODULE MCTopicClients ---------------------------
(* The clients of a topic for TLC: three nodes that share three addresses, *)
(* and three requests to a server that may be restarted once.              *)
EXTENDS TopicClients, TLC

CONSTANTS g1, g2, g3, a1, a2, a3
=============================================================================
