----------------------------- MODULE ReplyServer ----------------------------
(***************************************************************************)
(* a17/dispatch/reply_server: servers of one topic, on zmq REP sockets.  A *)
(* server is an incarnation: one that restarts after a crash is another.   *)
(* A REP socket delivers a request only to a staged receive, and only      *)
(* after the one before has been replied to.                               *)
(***************************************************************************)
EXTENDS Integers, FiniteSets

CONSTANTS
    Servers,      \* incarnations of the server, in the order they start
    Requests,     \* identities of requests
    None,         \* no request, no server
    MaxStaged     \* bound: receives staged at a time

ASSUME ServerAssumption ==
    /\ Servers \subseteq Nat \ {0}
    /\ Requests \subseteq Nat \ {0}
    /\ None = 0
    /\ MaxStaged \in Nat \ {0}

VARIABLES
    life,         \* is the server constructed, gone?
    queue,        \* requests in the pipes of its socket
    serving,      \* the request its socket has received and not replied to
    staged,       \* async_receive operations waiting on its socket
    answers,      \* replies on their way to the clients' sockets
    failed        \* the servers a receive of which has failed

serverVars == <<life, queue, serving, staged, answers, failed>>

ServerInit ==
    /\ life = [s \in Servers |-> "new"]
    /\ queue = [s \in Servers |-> {}]
    /\ serving = [s \in Servers |-> None]
    /\ staged = [s \in Servers |-> 0]
    /\ answers = {}
    /\ failed = {}

(* The constructor stages the first receive. *)
ServerStart(s) ==
    /\ life[s] = "new"
    /\ life' = [life EXCEPT ![s] = "up"]
    /\ staged' = [staged EXCEPT ![s] = 1]
    /\ UNCHANGED <<queue, serving, answers, failed>>

(* The destructor, or a crash: the socket goes with all it holds. *)
ServerStop(s) ==
    /\ life[s] = "up"
    /\ life' = [life EXCEPT ![s] = "gone"]
    /\ queue' = [queue EXCEPT ![s] = {}]
    /\ serving' = [serving EXCEPT ![s] = None]
    /\ staged' = [staged EXCEPT ![s] = 0]
    /\ UNCHANGED <<answers, failed>>

(* A staged receive takes a request k out of the pipes. *)
Delivered(s, k) ==
    /\ life[s] = "up"
    /\ staged[s] > 0
    /\ serving[s] = None
    /\ k \in queue[s]
    /\ queue' = [queue EXCEPT ![s] = @ \ {k}]
    /\ UNCHANGED <<life, failed>>

(* A staged receive fails: onReceive() calls the user's error handler, and *)
(* nothing is staged in its place.                                         *)
onReceiveError(s) ==
    /\ staged[s] > 0
    /\ staged' = [staged EXCEPT ![s] = @ - 1]
    /\ failed' = failed \cup {s}
    /\ UNCHANGED <<life, queue, serving, answers>>

(* sendReply(): the reply and the next receive. *)
sendReply(s, k, received) ==
    /\ answers' = answers \cup {k}
    /\ serving' = [serving EXCEPT ![s] = None]
    /\ staged' = [staged EXCEPT ![s] = @ - received + 1]

(* onRequest(): the handler replies at once, ... *)
onRequestReplies(s, k) ==
    /\ Delivered(s, k)
    /\ sendReply(s, k, 1)

(* ... keeps the sender to reply later, or never, ... *)
onRequestKeeps(s, k) ==
    /\ Delivered(s, k)
    /\ serving' = [serving EXCEPT ![s] = k]
    /\ staged' = [staged EXCEPT ![s] = @ - 1]
    /\ UNCHANGED answers

RepliesLater(s) ==
    /\ serving[s] # None
    /\ sendReply(s, serving[s], 0)
    /\ UNCHANGED <<life, queue, failed>>

(* variant: does not stage the next receive after an exception *)
onRequestThrowsDeaf(s, k) ==
    /\ Delivered(s, k)
    /\ answers' = answers \cup {k}
    /\ serving' = [serving EXCEPT ![s] = None]
    /\ staged' = [staged EXCEPT ![s] = @ - 1]

(* ... throws, which makes the server send a blank reply, ... *)
onRequestThrows(s, k) ==
    /\ Delivered(s, k)
    /\ sendReply(s, k, 1)

(* ... or replies and then throws: the socket refuses the blank reply, and *)
(* two receives are staged.                                                *)
onRequestRepliesThrows(s, k) ==
    /\ Delivered(s, k)
    /\ staged[s] < MaxStaged
    /\ answers' = answers \cup {k}
    /\ serving' = [serving EXCEPT ![s] = None]
    /\ staged' = [staged EXCEPT ![s] = @ + 1]

ServerNext ==
    \E s \in Servers :
       \/ ServerStart(s) \/ ServerStop(s) \/ RepliesLater(s) \/ onReceiveError(s)
       \/ \E k \in queue[s] :
             \/ onRequestReplies(s, k) \/ onRequestKeeps(s, k)
             \/ onRequestThrows(s, k) \/ onRequestRepliesThrows(s, k)

-----------------------------------------------------------------------------
(* Type invariant. *)
ServerTypeOK ==
    /\ life \in [Servers -> {"new", "up", "gone"}]
    /\ queue \in [Servers -> SUBSET Requests]
    /\ serving \in [Servers -> Requests \cup {None}]
    /\ staged \in [Servers -> 0..MaxStaged]
    /\ answers \in SUBSET Requests
    /\ failed \in SUBSET Servers

(* A live server that owes no reply has a receive staged, whatever its     *)
(* handlers do, unless one of its receives has failed: an exception "in    *)
(* the application layer" does not make it deaf to the next request.  A    *)
(* receive that fails may, for good, since nothing stages another.         *)
ServerListens ==
    \A s \in Servers :
        life[s] = "up" /\ serving[s] = None /\ s \notin failed => staged[s] > 0
=============================================================================
