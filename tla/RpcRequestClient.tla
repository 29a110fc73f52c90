-------------------------- MODULE RpcRequestClient --------------------------
(***************************************************************************)
(* RpcRequestClient and RequestClient of dispatch.py, for one execute().   *)
(* Handlers call each other; each is an operator from the state before the *)
(* call, with the callbacks that were added so far, to that after it.  A   *)
(* handler that runs before execute() has set _request_client fails with   *)
(* an AttributeError, which ends the calls that led to it; the loop logs   *)
(* it.                                                                     *)
(***************************************************************************)
EXTENDS Naturals, Sequences

CONSTANT
    NoTopic     \* None, where a Topic may be

VARIABLES
    rpc,        \* the members of both objects
    connects,   \* timeouts under way that call _on_connect()
    raced,      \* a handler has failed: _request_client was not set, or there was no stream
    sent,       \* requests that were put on a stream
    garbled     \* a reply has come that is not a reply_type

rpcVars == <<rpc, connects, raced, sent, garbled>>

RpcInit ==
    /\ rpc = [at |-> "new",             \* where execute() is
              timeout |-> FALSE,        \* its timeout is not 0
              scheduled |-> FALSE,      \* _timeout_scheduled
              timer |-> FALSE,          \* _timeout_handle is under way
              client |-> "unset",       \* _request_client: "unset", "set" or "none"
              future |-> "none",        \* _future
              stream |-> NoTopic,       \* stream: whom it is connected to
              receiving |-> FALSE,      \* on_recv() of the stream was called
              asked |-> FALSE,          \* the request was sent on it
              connected |-> NoTopic,    \* connected_topic
              ref |-> FALSE]            \* observer_ref
    /\ connects = 0
    /\ raced = FALSE
    /\ sent = 0
    /\ garbled = FALSE

Call(c) == [rpc |-> c, posts |-> <<>>, raised |-> FALSE]

Post(s, c) == [s EXCEPT !.posts = Append(@, c)]

(* execute(), a statement that the loop's thread can see at a time *)
Execute(timeout) ==
    /\ rpc.at = "new"
    /\ rpc' = [rpc EXCEPT !.at = "scheduled", !.timeout = timeout, !.scheduled = timeout]

ExecuteFuture ==
    /\ rpc.at = "scheduled"
    /\ rpc' = [rpc EXCEPT !.at = "future", !.future = "pending"]

ExecuteConstruct ==
    /\ rpc.at = "future"
    /\ rpc' = [rpc EXCEPT !.at = "constructed"]

ExecuteReturn ==
    /\ rpc.at = "constructed"
    /\ rpc' = [rpc EXCEPT !.at = "returned", !.client = "set"]

(* __schedule_timeout() *)
schedule_timeout(c) == [c EXCEPT !.timer = c.scheduled]

(* variant: keeps the timeout that is under way *)
cancel_timeoutFlag(c) == [c EXCEPT !.scheduled = FALSE]

cancel_timeout(c) == [c EXCEPT !.scheduled = FALSE, !.timer = FALSE]

(* close_stream() up to its call of on_disconnect *)
NoStream(c) == [c EXCEPT !.stream = NoTopic, !.receiving = FALSE, !.asked = FALSE]

(* _cleanup(), with close() of the client; the on_disconnect that it       *)
(* triggers returns at once                                                *)
cleanup(s) ==
    Post([s EXCEPT !.rpc = NoStream(cancel_timeout([s.rpc EXCEPT !.client = "none"]))],
         "unobserve")

Fulfilled(s, outcome) ==
    IF s.rpc.future = "pending" THEN [s EXCEPT !.rpc.future = outcome] ELSE s

(* variant: waits for the next server *)
on_disconnectWaits(s) == IF s.rpc.client = "unset" THEN [s EXCEPT !.raised = TRUE] ELSE s

(* variant: closes the client and reports nothing *)
on_disconnectSilent(s) ==
    CASE s.rpc.client = "unset" -> [s EXCEPT !.raised = TRUE]
      [] s.rpc.client = "none"  -> s
      [] s.rpc.client = "set"   -> cleanup(s)

on_disconnect(s) ==
    CASE s.rpc.client = "unset" -> [s EXCEPT !.raised = TRUE]
      [] s.rpc.client = "none"  -> s
      [] s.rpc.client = "set"   -> Fulfilled(cleanup(s), "ConnectionError")

(* disconnect(sync=True) *)
disconnect(s) ==
    IF s.rpc.connected = NoTopic
      THEN s
      ELSE on_disconnect([s EXCEPT !.rpc = NoStream([s.rpc EXCEPT !.connected = NoTopic])])

(* connect(sync=True) *)
connect(s, topic) ==
    LET d == disconnect(s)
    IN  IF d.raised
          THEN d
          ELSE Post([d EXCEPT !.rpc.connected = topic, !.rpc.stream = topic], "later")

(* topic_map_updated(), given _newest_topic_in_topic_map() *)
topic_map_updated(s, newest) ==
    IF newest = NoTopic
      THEN Post(s, "disconnect")
      ELSE IF \/ s.rpc.connected = NoTopic
              \/ /\ newest.address # s.rpc.connected.address
                 /\ newest.timestamp > s.rpc.connected.timestamp
             THEN connect(s, newest)
             ELSE s

(* request(), which asserts that there is a stream *)
request(s) ==
    IF s.rpc.stream = NoTopic
      THEN [s EXCEPT !.raised = TRUE]
      ELSE Post([s EXCEPT !.rpc.receiving = TRUE], "send")

on_connect(s) ==
    CASE s.rpc.client = "unset" -> [s EXCEPT !.raised = TRUE]
      [] s.rpc.client = "none"  -> s
      [] s.rpc.client = "set"   -> request(s)

(* _on_timeout(), whose assertion is LateTimeoutImpossible *)
on_timeout(s) ==
    CASE s.rpc.client = "unset" -> [s EXCEPT !.raised = TRUE]
      [] s.rpc.client = "none"  -> s
      [] s.rpc.client = "set"   -> Fulfilled(cleanup(s), "TimeoutError")

(* variant: leaves the client open *)
on_replyOpen(s, good) == IF good THEN Fulfilled(s, "result") ELSE s

(* _on_reply(): the exception of a reply that is not a reply_type is only  *)
(* logged                                                                  *)
on_reply(s, good) == IF good THEN Fulfilled(cleanup(s), "result") ELSE cleanup(s)

(* _send(): asserts that there is a stream; its socket is a REQ socket,    *)
(* which refuses a second request before the reply                         *)
send ==
    /\ IF rpc.stream = NoTopic \/ rpc.asked
         THEN UNCHANGED <<rpc, sent>>
         ELSE rpc' = [rpc EXCEPT !.asked = TRUE] /\ sent' = sent + 1
    /\ UNCHANGED <<connects, raced, garbled>>

Done(s) ==
    /\ rpc' = s.rpc
    /\ raced' = (raced \/ s.raised)
=============================================================================
