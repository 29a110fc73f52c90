----------------------------- MODULE PyDispatch -----------------------------
(***************************************************************************)
(* dispatch.py: an RpcRequestClient with the TopicMap and the Directory of *)
(* its node on the loop's thread, and execute() on another one.  The node  *)
(* has no server of its own for the topic.  Packets of other directories   *)
(* are lost, repeated and delayed, so any may come at any time; those sent *)
(* are not kept.                                                           *)
(***************************************************************************)
EXTENDS IoLoop, RpcRequestClient, FiniteSets

CONSTANTS
    Guids,          \* other directories, each with a server of the topic
    Addresses,      \* the addresses of their servers
    IntervalMax,    \* broadcast_interval_max
    MaxPackets      \* bound: packets that come

ASSUME PyAssumption ==
    /\ IsFiniteSet(Guids)
    /\ IntervalMax \in Nat \ {0}
    /\ MaxPackets \in Nat

VARIABLES
    network,    \* network_topics: the topic by guid
    observers,  \* observers of the topic: no entry, one handler, or an entry without handlers
    searching,  \* broadcast_timer is under way
    interval,   \* broadcast_interval, in units of the one a search starts with
    packets     \* packets so far, which is the time of a Topic's timestamp

directoryVars == <<network, observers, searching, interval, packets>>

vars == <<loopVars, rpcVars, directoryVars>>

Init ==
    /\ LoopInit
    /\ RpcInit
    /\ network = <<>>
    /\ observers = "none"
    /\ searching = FALSE
    /\ interval = 1
    /\ packets = 0

Without(f, g) == [h \in DOMAIN f \ {g} |-> f[h]]

newest(map) ==
    IF DOMAIN map = {}
      THEN NoTopic
      ELSE map[CHOOSE g \in DOMAIN map :
                  \A h \in DOMAIN map : map[h].timestamp <= map[g].timestamp]

call_observers(s, map) ==
    IF observers = "handler" THEN topic_map_updated(s, newest(map)) ELSE s

(* missing(): an entry without handlers counts *)
missing(map, obs) == obs # "none" /\ DOMAIN map = {}

(* find_missing_topics(); the last doubling may exceed the maximum *)
find_missing_topics(i) ==
    IF missing(network, observers)
      THEN /\ searching' = TRUE
           /\ interval' = IF i < IntervalMax THEN 2 * i ELSE i
      ELSE searching' = FALSE /\ interval' = i

-----------------------------------------------------------------------------
(* execute() on the thread of its caller *)
Executes ==
    /\ \/ \E timeout \in BOOLEAN :
             /\ Execute(timeout)
             /\ IF timeout THEN add_callback("schedule") ELSE UNCHANGED loopVars
       \/ ExecuteFuture /\ UNCHANGED loopVars
       \/ ExecuteConstruct /\ add_callback("observe")
       \/ ExecuteReturn /\ UNCHANGED loopVars
    /\ UNCHANGED <<connects, raced, sent, garbled, directoryVars>>

ScheduleCallback ==
    /\ RunsCallback("schedule", <<>>)
    /\ rpc' = schedule_timeout(rpc)
    /\ UNCHANGED <<connects, raced, sent, garbled, directoryVars>>

(* variant: does not start a search *)
ObserveCallbackOnly ==
    LET s == IF DOMAIN network = {}
               THEN Call(rpc)
               ELSE topic_map_updated(Call(rpc), newest(network))
    IN  /\ RunsCallback("observe", s.posts)
        /\ Done([s EXCEPT !.rpc.ref = TRUE])
        /\ observers' = "handler"
        /\ UNCHANGED <<connects, sent, garbled, network, searching, interval, packets>>

(* _observe_topic(): TopicMap.observe() calls the handler at once if the   *)
(* topic is known, and query_poll() comes after that                       *)
ObserveCallback ==
    LET s == IF DOMAIN network = {}
               THEN Call(rpc)
               ELSE topic_map_updated(Call(rpc), newest(network))
    IN  /\ RunsCallback("observe", Append(s.posts, "poll"))
        /\ Done([s EXCEPT !.rpc.ref = TRUE])
        /\ observers' = "handler"
        /\ UNCHANGED <<connects, sent, garbled, network, searching, interval, packets>>

(* _unobserve_topic() *)
UnobserveCallback ==
    /\ RunsCallback("unobserve", <<>>)
    /\ observers' = IF rpc.ref THEN "entry" ELSE observers
    /\ UNCHANGED <<rpcVars, network, searching, interval, packets>>

DisconnectCallback ==
    LET s == disconnect(Call(rpc))
    IN  /\ RunsCallback("disconnect", s.posts)
        /\ Done(s)
        /\ UNCHANGED <<connects, sent, garbled, directoryVars>>

SendCallback ==
    /\ RunsCallback("send", <<>>)
    /\ send
    /\ UNCHANGED directoryVars

(* scheduleOnceCallback() of scheduleOnce(100, on_connect) *)
LaterCallback ==
    /\ RunsCallback("later", <<>>)
    /\ connects' = connects + 1
    /\ UNCHANGED <<rpc, raced, sent, garbled, directoryVars>>

(* _start_polling() *)
PollCallback ==
    /\ RunsCallback("poll", <<>>)
    /\ find_missing_topics(1)
    /\ UNCHANGED <<rpcVars, network, observers, packets>>

SearchTimeout ==
    /\ searching
    /\ RunsTimeout(<<>>)
    /\ find_missing_topics(interval)
    /\ UNCHANGED <<rpcVars, network, observers, packets>>

ConnectTimeout ==
    LET s == on_connect(Call(rpc))
    IN  /\ connects > 0
        /\ connects' = connects - 1
        /\ RunsTimeout(s.posts)
        /\ Done(s)
        /\ UNCHANGED <<sent, garbled, directoryVars>>

RequestTimeout ==
    LET s == on_timeout([Call(rpc) EXCEPT !.rpc.timer = FALSE])
    IN  /\ rpc.timer
        /\ RunsTimeout(s.posts)
        /\ Done(s)
        /\ UNCHANGED <<connects, sent, garbled, directoryVars>>

(* discovery_available(), from a server on the network, and add() *)
Available(g, address) ==
    LET known == g \in DOMAIN network /\ network[g].address = address
        topic == [address |-> address, timestamp |-> packets + 1]
        map   == [h \in DOMAIN network \cup {g} |-> IF h = g THEN topic ELSE network[h]]
        s     == call_observers(Call(rpc), map)
    IN  /\ packets < MaxPackets
        /\ packets' = packets + 1
        /\ network' = IF known THEN network ELSE map
        /\ RunsEvent("multicast", IF known THEN <<>> ELSE s.posts)
        /\ IF known THEN UNCHANGED <<rpc, raced>> ELSE Done(s)
        /\ UNCHANGED <<connects, sent, garbled, observers, searching, interval>>

(* discovery_exiting() and discovery_remove(), which for one topic are the *)
(* same: the observers hear of the rest, then query_poll()                 *)
Gone(g) ==
    LET map == Without(network, g)
        s   == IF g \in DOMAIN network THEN call_observers(Call(rpc), map) ELSE Call(rpc)
    IN  /\ packets < MaxPackets
        /\ packets' = packets + 1
        /\ network' = map
        /\ RunsEvent("multicast", IF s.raised THEN s.posts ELSE Append(s.posts, "poll"))
        /\ Done(s)
        /\ UNCHANGED <<connects, sent, garbled, observers, searching, interval>>

(* a reply on the stream *)
Reply(good) ==
    LET s == on_reply(Call(rpc), good)
    IN  /\ rpc.receiving
        /\ rpc.asked
        /\ RunsEvent("stream", s.posts)
        /\ Done(s)
        /\ garbled' = (garbled \/ ~good)
        /\ UNCHANGED <<connects, sent, directoryVars>>

Callbacks ==
    \/ ScheduleCallback \/ ObserveCallback \/ UnobserveCallback \/ DisconnectCallback
    \/ SendCallback \/ LaterCallback \/ PollCallback

Packets == \E g \in Guids : Gone(g) \/ \E a \in Addresses : Available(g, a)

Loops == Iterates /\ UNCHANGED <<rpcVars, directoryVars>>

Next ==
    \/ Executes
    \/ Callbacks
    \/ SearchTimeout \/ ConnectTimeout \/ RequestTimeout
    \/ Packets
    \/ \E good \in BOOLEAN : Reply(good)
    \/ Loops

(* The caller's thread and the loop go on, and every timeout expires.  No  *)
(* packet and no reply need come.                                          *)
Spec ==
    /\ Init
    /\ [][Next]_vars
    /\ WF_vars(Executes /\ rpc.at # "new")
    /\ WF_vars(Callbacks)
    /\ WF_vars(Loops)
    /\ WF_vars(RequestTimeout)
    /\ WF_vars(ConnectTimeout)

-----------------------------------------------------------------------------
Topic == [address : Addresses, timestamp : 1..MaxPackets]

Topics == Topic \cup {NoTopic}

Callback == {"schedule", "observe", "unobserve", "disconnect", "send", "later", "poll"}

RpcState ==
    [at : {"new", "scheduled", "future", "constructed", "returned"},
     timeout : BOOLEAN, scheduled : BOOLEAN, timer : BOOLEAN,
     client : {"unset", "set", "none"},
     future : {"none", "pending", "result", "ConnectionError", "TimeoutError"},
     stream : Topics, receiving : BOOLEAN, asked : BOOLEAN, connected : Topics,
     ref : BOOLEAN]

(* Type invariant of the loop, the client and the directory. *)
TypeOK ==
    /\ callbacks \in Seq(Callback)
    /\ left \in 0..Len(callbacks)
    /\ polled \subseteq {"multicast", "stream"}
    /\ rpc \in RpcState
    /\ connects \in Nat
    /\ raced \in BOOLEAN
    /\ sent \in Nat
    /\ garbled \in BOOLEAN
    /\ DOMAIN network \subseteq Guids
    /\ \A g \in DOMAIN network : network[g] \in Topic
    /\ observers \in {"none", "handler", "entry"}
    /\ searching \in BOOLEAN
    /\ interval \in 1..(2 * IntervalMax - 1)
    /\ packets \in 0..MaxPackets

(* "This shouldn't be possible": the timeout of an execute() is under way  *)
(* only until _cleanup(), whichever of reply, disconnection and timeout    *)
(* comes first, and also when it was still to be scheduled.                *)
LateTimeoutImpossible == rpc.client = "none" => ~rpc.timer /\ ~rpc.scheduled

(* A request is sent at most once, however often the server moves or goes; *)
(* unless the server went before execute() had set _request_client, when   *)
(* the client is not closed and connects again.                            *)
SentAtMostOnce == ~raced => sent <= 1

(* The future gets one outcome, and never one from a reply to somebody     *)
(* else: _on_reply() runs only while the future is pending.                *)
OneOutcome ==
    [][/\ rpc.future \notin {"none", "pending"} => rpc'.future = rpc.future
       /\ garbled' # garbled => rpc.future = "pending"]_vars

(* A missing topic is searched for: a search is due, or about to be        *)
(* started, and there is never none.                                       *)
MissingSearched ==
    missing(network, observers) =>
        searching \/ \E i \in DOMAIN callbacks : callbacks[i] = "poll"

(* execute() with a timeout ends: its future is done, unless a handler ran *)
(* before execute() had set _request_client, or the reply was none.        *)
TimeoutEnds ==
    rpc.at = "returned" /\ rpc.timeout ~>
        rpc.future \notin {"none", "pending"} \/ raced \/ garbled
=============================================================================
