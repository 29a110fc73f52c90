---------------------------- MODULE TopicClients ----------------------------
(***************************************************************************)
(* The two kinds of clients of a topic: Client, which connects to all the  *)
(* nodes that offer it, and RequestClient, which connects to the newest.   *)
(* Both follow the directory of their node, but not each other; a          *)
(* behaviour is about one of them.                                         *)
(***************************************************************************)
EXTENDS Client, RequestClient

VARIABLE kind    \* "Client" or "RequestClient"

vars == <<clientVars, requestVars, kind>>

Init ==
    /\ kind \in {"Client", "RequestClient"}
    /\ ClientInit
    /\ RequestInit

Next ==
    /\ \/ kind = "Client" /\ ClientNext /\ UNCHANGED requestVars
       \/ kind = "RequestClient" /\ RequestStep /\ UNCHANGED clientVars
    /\ UNCHANGED kind

Spec == Init /\ [][Next]_vars /\ RequestFairness
=============================================================================
