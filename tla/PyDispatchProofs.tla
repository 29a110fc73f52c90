-------------------------- MODULE PyDispatchProofs --------------------------
(***************************************************************************)
(* Proofs about PyDispatch, for any directories, addresses and bounds.     *)
(***************************************************************************)
EXTENDS PyDispatch, SequenceLemmas, TLAPS

(* a handler's call: see Call *)
Calls == [rpc : RpcState, posts : Seq(Callback), raised : BOOLEAN]

Ended(c) == c.future \notin {"none", "pending"}

(* What holds of the client between handlers: it is closed exactly when    *)
(* the future is done or will never be, and a closed client neither        *)
(* receives nor has a timeout.                                             *)
Good(c) ==
    /\ c \in RpcState
    /\ c.client = "none" => ~c.timer /\ ~c.scheduled
    /\ c.client = "unset" <=> c.at # "returned"
    /\ c.receiving => c.client = "set"
    /\ c.client = "set" => c.future = "pending"
    /\ c.at \in {"new", "scheduled"} => c.future = "none"
    /\ c.at \in {"future", "constructed"} => c.future = "pending"

(* what a handler does to a client that was c *)
Keeps(c, d) ==
    /\ Good(d)
    /\ d.ref = c.ref
    /\ d.at = c.at
    /\ Ended(c) => d.future = c.future

(* Of the topics of a map one is the newest. *)
LEMMA NewestIsTopic ==
    ASSUME NEW map, \A g \in DOMAIN map : map[g] \in Topic
    PROVE  /\ newest(map) \in Topics
           /\ DOMAIN map = {} => newest(map) = NoTopic
<1>1. CASE DOMAIN map = {}
    BY <1>1 DEF newest, Topics
<1>2. CASE DOMAIN map # {}
    <2> DEFINE age(g) == MaxPackets - map[g].timestamp
               T == {age(g) : g \in DOMAIN map}
    <2>1. MaxPackets \in Nat /\ \A g \in DOMAIN map : map[g].timestamp \in 1..MaxPackets
        BY PyAssumption DEF Topic
    <2>2. T \subseteq Nat /\ T # {}
        BY <1>2, <2>1
    <2>3. PICK x \in T : \A y \in T : ~(<<y, x>> \in OpToRel(<, Nat))
        <3> HIDE DEF T
        <3> QED BY ZenonT(30), <2>2, WFMin, NatLessThanWellFounded
    <2>4. ASSUME NEW y \in T PROVE x <= y
        <3> HIDE DEF T
        <3>1. x \in Nat /\ y \in Nat
            BY <2>2
        <3>2. ~(y < x)
            BY ZenonT(30), <2>3, <3>1 DEF OpToRel
        <3> QED BY <3>1, <3>2
    <2>5. PICK g \in DOMAIN map : x = age(g)
        OBVIOUS
    <2>6. ASSUME NEW h \in DOMAIN map PROVE map[h].timestamp <= map[g].timestamp
        <3>1. age(g) <= age(h)
            BY <2>4, <2>5
        <3>2. map[g].timestamp \in Int /\ map[h].timestamp \in Int /\ MaxPackets \in Int
            BY <2>1
        <3> QED BY <3>1, <3>2
    <2>7. newest(map) \in Topic
        BY <1>2, <2>6 DEF newest
    <2> QED BY <1>2, <2>7 DEF Topics
<1> QED BY ZenonT(30), <1>1, <1>2

(* _cleanup() closes the client. *)
LEMMA CleanupKeeps ==
    ASSUME NEW s \in Calls
    PROVE  /\ cleanup(s) \in Calls
           /\ cleanup(s).raised = s.raised
           /\ cleanup(s).rpc = [s.rpc EXCEPT !.client = "none", !.scheduled = FALSE,
                                   !.timer = FALSE, !.stream = NoTopic,
                                   !.receiving = FALSE, !.asked = FALSE]
<1> DEFINE c == s.rpc
           d == [c EXCEPT !.client = "none", !.scheduled = FALSE, !.timer = FALSE,
                          !.stream = NoTopic, !.receiving = FALSE, !.asked = FALSE]
<1>1. c \in RpcState /\ s.posts \in Seq(Callback) /\ s.raised \in BOOLEAN
    BY DEF Calls
<1>2. NoStream(cancel_timeout([c EXCEPT !.client = "none"])) = d
    <2> HIDE DEF c
    <2> QED BY <1>1 DEF NoStream, cancel_timeout, RpcState
<1>3. d \in RpcState
    <2> HIDE DEF c
    <2> QED BY ZenonT(30), <1>1 DEF RpcState, Topics
<1>4. Append(s.posts, "unobserve") \in Seq(Callback)
    BY <1>1 DEF Callback
<1> HIDE DEF c, d
<1>5. cleanup(s) = [s EXCEPT !.rpc = d, !.posts = Append(s.posts, "unobserve")]
    BY ZenonT(30), <1>2 DEF cleanup, Post, Calls, c
<1> QED BY ZenonT(30), <1>3, <1>4, <1>5 DEF Calls, d, c

(* Handlers that call each other keep together what each of them keeps. *)
LEMMA KeepsTransitive ==
    ASSUME NEW b, NEW c, NEW d, Keeps(b, c), Keeps(c, d)
    PROVE  Keeps(b, d)
BY DEF Keeps, Ended

(* A client that is open is closed, with an outcome of its future ... *)
LEMMA OutcomeKeeps ==
    ASSUME NEW s \in Calls, Good(s.rpc), s.rpc.client = "set",
           NEW outcome \in {"result", "ConnectionError", "TimeoutError"}
    PROVE  /\ Fulfilled(cleanup(s), outcome) \in Calls
           /\ Fulfilled(cleanup(s), outcome).raised = s.raised
           /\ Keeps(s.rpc, Fulfilled(cleanup(s), outcome).rpc)
<1> DEFINE c == s.rpc
           d == cleanup(s).rpc
           e == [d EXCEPT !.future = outcome]
<1>1. /\ cleanup(s) \in Calls
      /\ cleanup(s).raised = s.raised
      /\ d = [c EXCEPT !.client = "none", !.scheduled = FALSE, !.timer = FALSE,
                       !.stream = NoTopic, !.receiving = FALSE, !.asked = FALSE]
    BY ZenonT(30), CleanupKeeps
<1>2. c \in RpcState /\ c.client = "set" /\ c.future = "pending" /\ c.at = "returned"
    BY DEF Good
<1> HIDE DEF c
<1>3. /\ d.future = "pending" /\ d.at = "returned" /\ d.client = "none" /\ d.ref = c.ref
      /\ ~d.timer /\ ~d.scheduled /\ ~d.receiving
    BY <1>1, <1>2 DEF RpcState
<1>4. d \in RpcState
    BY <1>1 DEF Calls
<1> HIDE DEF d
<1>5. /\ e \in RpcState /\ e.future = outcome /\ e.at = "returned" /\ e.client = "none"
      /\ e.ref = c.ref /\ ~e.timer /\ ~e.scheduled /\ ~e.receiving
    BY <1>3, <1>4 DEF RpcState
<1> HIDE DEF e
<1>6. Keeps(c, e)
    BY <1>2, <1>5 DEF Keeps, Good, Ended
<1>7. Fulfilled(cleanup(s), outcome) = [cleanup(s) EXCEPT !.rpc = e]
    BY <1>1, <1>3 DEF Fulfilled, d, e, Calls
<1> QED BY <1>1, <1>5, <1>6, <1>7 DEF Calls, c

(* ... or without one. *)
LEMMA ClosedKeeps ==
    ASSUME NEW s \in Calls, Good(s.rpc), s.rpc.client = "set"
    PROVE  Keeps(s.rpc, cleanup(s).rpc)
<1> DEFINE c == s.rpc
           d == cleanup(s).rpc
<1>1. /\ cleanup(s) \in Calls
      /\ d = [c EXCEPT !.client = "none", !.scheduled = FALSE, !.timer = FALSE,
                       !.stream = NoTopic, !.receiving = FALSE, !.asked = FALSE]
    BY ZenonT(30), CleanupKeeps
<1>2. c \in RpcState /\ c.client = "set" /\ c.future = "pending" /\ c.at = "returned"
    BY DEF Good
<1> HIDE DEF c
<1>3. /\ d.future = "pending" /\ d.at = "returned" /\ d.client = "none" /\ d.ref = c.ref
      /\ ~d.timer /\ ~d.scheduled /\ ~d.receiving
    BY <1>1, <1>2 DEF RpcState
<1>4. d \in RpcState
    BY <1>1 DEF Calls
<1> HIDE DEF d
<1> QED BY <1>2, <1>3, <1>4 DEF Keeps, Good, Ended, c, d

(* Handlers of both objects: from a good client to a good client. *)
LEMMA OnDisconnectKeeps ==
    ASSUME NEW s \in Calls, Good(s.rpc)
    PROVE  on_disconnect(s) \in Calls /\ Keeps(s.rpc, on_disconnect(s).rpc)
<1>1. s.rpc.client \in {"unset", "set", "none"}
    BY DEF Good, RpcState
<1>2. CASE s.rpc.client = "set"
    BY <1>2, OutcomeKeeps DEF on_disconnect
<1>3. CASE s.rpc.client = "none"
    BY <1>3 DEF on_disconnect, Keeps
<1>4. CASE s.rpc.client = "unset"
    <2>1. on_disconnect(s) = [s EXCEPT !.raised = TRUE]
        BY <1>4 DEF on_disconnect
    <2> QED BY ZenonT(30), <2>1 DEF Calls, Keeps
<1> QED BY <1>1, <1>2, <1>3, <1>4

(* disconnect() leads from a good client to a good one. *)
LEMMA DisconnectKeeps ==
    ASSUME NEW s \in Calls, Good(s.rpc)
    PROVE  disconnect(s) \in Calls /\ Keeps(s.rpc, disconnect(s).rpc)
<1>1. CASE s.rpc.connected = NoTopic
    BY <1>1 DEF disconnect, Keeps
<1>2. CASE s.rpc.connected # NoTopic
    <2> DEFINE c == s.rpc
               d == [c EXCEPT !.connected = NoTopic, !.stream = NoTopic,
                              !.receiving = FALSE, !.asked = FALSE]
               t == [s EXCEPT !.rpc = d]
    <2>1. c \in RpcState /\ Good(c)
        BY DEF Good
    <2> HIDE DEF c
    <2>2. NoStream([c EXCEPT !.connected = NoTopic]) = d
        BY <2>1 DEF NoStream, RpcState
    <2>3. d \in RpcState
        BY ZenonT(30), <2>1 DEF RpcState, Topics
    <2>4. /\ d.client = c.client /\ d.future = c.future /\ d.at = c.at /\ d.ref = c.ref
          /\ d.timer = c.timer /\ d.scheduled = c.scheduled /\ ~d.receiving
        BY <2>1 DEF RpcState
    <2> HIDE DEF d
    <2>5. Keeps(c, d)
        BY <2>1, <2>3, <2>4 DEF Keeps, Good, Ended
    <2>6. t \in Calls /\ t.rpc = d
        BY <2>3 DEF Calls
    <2>7. disconnect(s) = on_disconnect(t)
        BY <1>2, <2>2 DEF disconnect, c
    <2> HIDE DEF t
    <2>8. disconnect(s) \in Calls /\ Keeps(d, disconnect(s).rpc)
        BY <2>5, <2>6, <2>7, OnDisconnectKeeps DEF Keeps
    <2> QED BY <2>5, <2>8, KeepsTransitive DEF c
<1> QED BY <1>1, <1>2

(* So does connecting to a topic. *)
LEMMA ConnectKeeps ==
    ASSUME NEW s \in Calls, Good(s.rpc), NEW topic \in Topic
    PROVE  connect(s, topic) \in Calls /\ Keeps(s.rpc, connect(s, topic).rpc)
<1> DEFINE d == disconnect(s)
           c == d.rpc
           e == [c EXCEPT !.connected = topic, !.stream = topic]
<1>1. d \in Calls /\ Keeps(s.rpc, c)
    BY DisconnectKeeps
<1>2. CASE d.raised
    BY <1>1, <1>2 DEF connect
<1>3. CASE ~d.raised
    <2>1. c \in RpcState /\ Good(c) /\ d.posts \in Seq(Callback) /\ d.raised \in BOOLEAN
        BY <1>1 DEF Keeps, Good, Calls
    <2> HIDE DEF c
    <2>2. e \in RpcState
        BY ZenonT(30), <2>1 DEF RpcState, Topics
    <2>3. /\ e.client = c.client /\ e.future = c.future /\ e.at = c.at /\ e.ref = c.ref
          /\ e.timer = c.timer /\ e.scheduled = c.scheduled /\ e.receiving = c.receiving
        BY <2>1 DEF RpcState
    <2> HIDE DEF e
    <2>4. Keeps(c, e)
        BY <2>1, <2>2, <2>3 DEF Keeps, Good, Ended
    <2>5. Append(d.posts, "later") \in Seq(Callback)
        BY <2>1 DEF Callback
    <2>6. connect(s, topic) = [d EXCEPT !.rpc = e, !.posts = Append(d.posts, "later")]
        BY ZenonT(30), <1>1, <1>3 DEF connect, Post, Calls, c, e
    <2>7. connect(s, topic) \in Calls /\ connect(s, topic).rpc = e
        BY ZenonT(30), <1>1, <2>2, <2>5, <2>6 DEF Calls
    <2> QED BY <1>1, <2>4, <2>7, KeepsTransitive
<1> QED BY <1>2, <1>3

(* With no topic left topic_map_updated() only posts, so it does not fail. *)
LEMMA UpdatedKeeps ==
    ASSUME NEW s \in Calls, Good(s.rpc), NEW topic \in Topics
    PROVE  /\ topic_map_updated(s, topic) \in Calls
           /\ Keeps(s.rpc, topic_map_updated(s, topic).rpc)
           /\ topic = NoTopic => topic_map_updated(s, topic).raised = s.raised
<1>1. CASE topic = NoTopic
    <2>1. Append(s.posts, "disconnect") \in Seq(Callback)
        BY DEF Callback, Calls
    <2>2. topic_map_updated(s, topic) = [s EXCEPT !.posts = Append(s.posts, "disconnect")]
        BY <1>1 DEF topic_map_updated, Post, Calls
    <2> QED BY <2>1, <2>2 DEF Calls, Keeps
<1>2. CASE topic # NoTopic
    <2>1. \/ topic_map_updated(s, topic) = s
          \/ topic_map_updated(s, topic) = connect(s, topic)
        BY <1>2 DEF topic_map_updated
    <2>2. topic \in Topic
        BY <1>2 DEF Topics
    <2>3. CASE topic_map_updated(s, topic) = s
        BY <1>2, <2>3 DEF Keeps
    <2>4. CASE topic_map_updated(s, topic) = connect(s, topic)
        BY <1>2, <2>2, <2>4, ConnectKeeps
    <2> QED BY <2>1, <2>3, <2>4
<1> QED BY <1>1, <1>2

(* So does on_connect(). *)
LEMMA OnConnectKeeps ==
    ASSUME NEW s \in Calls, Good(s.rpc)
    PROVE  on_connect(s) \in Calls /\ Keeps(s.rpc, on_connect(s).rpc)
<1>1. s.rpc.client \in {"unset", "set", "none"}
    BY DEF Good, RpcState
<1>2. CASE s.rpc.client = "set" /\ s.rpc.stream # NoTopic
    <2> DEFINE c == s.rpc
               d == [c EXCEPT !.receiving = TRUE]
    <2>1. c \in RpcState /\ Good(c) /\ c.client = "set"
        BY <1>2 DEF Good
    <2>2. on_connect(s) = [s EXCEPT !.rpc = d, !.posts = Append(s.posts, "send")]
        BY <1>2 DEF on_connect, request, Post, Calls
    <2> HIDE DEF c
    <2>3. /\ d \in RpcState
          /\ d.client = c.client /\ d.future = c.future /\ d.at = c.at /\ d.ref = c.ref
          /\ d.timer = c.timer /\ d.scheduled = c.scheduled
        BY ZenonT(30), <2>1 DEF RpcState
    <2> HIDE DEF d
    <2>4. Keeps(c, d)
        BY <2>1, <2>3 DEF Keeps, Good, Ended
    <2>5. Append(s.posts, "send") \in Seq(Callback)
        BY DEF Calls, Callback
    <2> QED BY ZenonT(30), <2>2, <2>3, <2>4, <2>5 DEF Calls, c
<1>3. CASE s.rpc.client = "none"
    BY <1>3 DEF on_connect, Keeps
<1>4. CASE s.rpc.client = "unset" \/ (s.rpc.client = "set" /\ s.rpc.stream = NoTopic)
    <2>1. on_connect(s) = [s EXCEPT !.raised = TRUE]
        BY ZenonT(30), <1>4 DEF on_connect, request
    <2> QED BY ZenonT(30), <2>1 DEF Calls, Keeps
<1> QED BY <1>1, <1>2, <1>3, <1>4

(* So does on_timeout(). *)
LEMMA OnTimeoutKeeps ==
    ASSUME NEW s \in Calls, Good(s.rpc)
    PROVE  on_timeout(s) \in Calls /\ Keeps(s.rpc, on_timeout(s).rpc)
<1>1. s.rpc.client \in {"unset", "set", "none"}
    BY DEF Good, RpcState
<1>2. CASE s.rpc.client = "set"
    BY <1>2, OutcomeKeeps DEF on_timeout
<1>3. CASE s.rpc.client = "none"
    BY <1>3 DEF on_timeout, Keeps
<1>4. CASE s.rpc.client = "unset"
    <2>1. on_timeout(s) = [s EXCEPT !.raised = TRUE]
        BY <1>4 DEF on_timeout
    <2> QED BY ZenonT(30), <2>1 DEF Calls, Keeps
<1> QED BY <1>1, <1>2, <1>3, <1>4

-----------------------------------------------------------------------------
Polls(q) == \E i \in DOMAIN q : q[i] = "poll"

LoopOK ==
    /\ callbacks \in Seq(Callback)
    /\ left \in 0..Len(callbacks)
    /\ polled \subseteq {"multicast", "stream"}

RpcOK ==
    /\ Good(rpc)
    /\ connects \in Nat
    /\ raced \in BOOLEAN
    /\ sent \in Nat
    /\ garbled \in BOOLEAN

DirectoryOK ==
    /\ DOMAIN network \subseteq Guids
    /\ \A g \in DOMAIN network : network[g] \in Topic
    /\ observers \in {"none", "handler", "entry"}
    /\ searching \in BOOLEAN
    /\ interval \in 1..(2 * IntervalMax - 1)
    /\ packets \in 0..MaxPackets

(* The inductive invariant: the types, what holds of the client, and that  *)
(* a client that has observed the topic left an entry, so that unobserve   *)
(* makes no topic missing that was not before.                             *)
PyInv ==
    /\ LoopOK
    /\ RpcOK
    /\ DirectoryOK
    /\ missing(network, observers) => searching \/ Polls(callbacks)
    /\ rpc.ref => observers # "none"

(* what a step does to the future *)
Outcome ==
    /\ Ended(rpc) => rpc'.future = rpc.future
    /\ garbled' # garbled => rpc.future = "pending"

(* The polls in two queues of callbacks. *)
LEMMA PollsConcat ==
    ASSUME NEW q \in Seq(Callback), NEW r \in Seq(Callback)
    PROVE  /\ q \o r \in Seq(Callback)
           /\ Len(q \o r) = Len(q) + Len(r)
           /\ Polls(q) \/ Polls(r) => Polls(q \o r)
<1>1. q \o r \in Seq(Callback) /\ Len(q \o r) = Len(q) + Len(r)
    OBVIOUS
<1>2. ASSUME Polls(q) PROVE Polls(q \o r)
    <2>1. PICK i \in 1..Len(q) : q[i] = "poll"
        BY <1>2 DEF Polls
    <2>2. i \in 1..Len(q \o r) /\ (q \o r)[i] = "poll"
        BY <2>1
    <2> QED BY <2>2 DEF Polls
<1>3. ASSUME Polls(r) PROVE Polls(q \o r)
    <2>1. PICK i \in 1..Len(r) : r[i] = "poll"
        BY <1>3 DEF Polls
    <2>2. Len(q) + i \in 1..Len(q \o r) /\ (q \o r)[Len(q) + i] = "poll"
        BY <2>1
    <2> QED BY <2>2 DEF Polls
<1> QED BY <1>1, <1>2, <1>3

(* The polls in a queue to which a callback is added. *)
LEMMA PollsAppend ==
    ASSUME NEW q \in Seq(Callback), NEW c \in Callback
    PROVE  /\ Append(q, c) \in Seq(Callback)
           /\ Len(Append(q, c)) = Len(q) + 1
           /\ Polls(q) \/ c = "poll" => Polls(Append(q, c))
<1>1. ASSUME Polls(q) PROVE Polls(Append(q, c))
    <2>1. PICK i \in 1..Len(q) : q[i] = "poll"
        BY <1>1 DEF Polls
    <2>2. i \in 1..Len(Append(q, c)) /\ Append(q, c)[i] = "poll"
        BY <2>1
    <2> QED BY <2>2 DEF Polls
<1>2. ASSUME c = "poll" PROVE Polls(Append(q, c))
    <2>1. Len(q) + 1 \in 1..Len(Append(q, c)) /\ Append(q, c)[Len(q) + 1] = "poll"
        BY <1>2
    <2> QED BY <2>1 DEF Polls
<1> QED BY <1>1, <1>2

(* A step of the loop keeps what waits, but for the callback it runs. *)
LEMMA CallbackRuns ==
    ASSUME LoopOK, NEW c, NEW posts \in Seq(Callback), RunsCallback(c, posts)
    PROVE  /\ LoopOK'
           /\ Polls(callbacks) /\ c # "poll" => Polls(callbacks')
           /\ Polls(posts) => Polls(callbacks')
<1> DEFINE q == callbacks
           rest == Tail(q)
<1>1. /\ q \in Seq(Callback) /\ q # <<>> /\ Head(q) = c
      /\ callbacks' = rest \o posts /\ left' = left - 1 /\ polled' = polled
      /\ left \in 1..Len(q) /\ polled \subseteq {"multicast", "stream"}
    BY DEF LoopOK, RunsCallback
<1>2. rest \in Seq(Callback) /\ Len(rest) = Len(q) - 1
    BY <1>1
<1>3. ASSUME Polls(q), c # "poll" PROVE Polls(rest)
    <2>1. PICK i \in 1..Len(q) : q[i] = "poll"
        BY <1>1, <1>3 DEF Polls
    <2>2. i # 1
        BY <1>1, <1>3, <2>1
    <2>3. i - 1 \in 1..Len(rest) /\ rest[i - 1] = "poll"
        BY <1>1, <1>2, <2>1, <2>2
    <2> HIDE DEF rest
    <2> QED BY <1>2, <2>3 DEF Polls
<1>4. /\ callbacks' \in Seq(Callback)
      /\ Len(callbacks') = Len(rest) + Len(posts)
      /\ Polls(rest) \/ Polls(posts) => Polls(callbacks')
    BY ZenonT(30), <1>1, <1>2, PollsConcat
<1>5. left' \in 0..Len(callbacks')
    BY <1>1, <1>2, <1>4
<1> QED BY <1>1, <1>3, <1>4, <1>5 DEF LoopOK

(* A callback that posts nothing leaves the other polls in the queue. *)
LEMMA CallbackRunsAlone ==
    ASSUME LoopOK, NEW c, RunsCallback(c, <<>>)
    PROVE  LoopOK' /\ (Polls(callbacks) /\ c # "poll" => Polls(callbacks'))
<1>1. <<>> \in Seq(Callback)
    OBVIOUS
<1> QED BY ZenonT(30), <1>1, CallbackRuns

(* A timeout leaves them all, and adds what it posts. *)
LEMMA TimeoutRuns ==
    ASSUME LoopOK, NEW posts \in Seq(Callback), RunsTimeout(posts)
    PROVE  LoopOK' /\ (Polls(callbacks) \/ Polls(posts) => Polls(callbacks'))
<1>1. /\ callbacks' \in Seq(Callback)
      /\ Len(callbacks') = Len(callbacks) + Len(posts)
      /\ Polls(callbacks) \/ Polls(posts) => Polls(callbacks')
    BY PollsConcat DEF LoopOK, RunsTimeout
<1>2. left' \in 0..Len(callbacks')
    BY <1>1 DEF LoopOK, RunsTimeout
<1> QED BY <1>1, <1>2 DEF LoopOK, RunsTimeout

(* So does an event of a socket. *)
LEMMA EventRuns ==
    ASSUME LoopOK, NEW posts \in Seq(Callback), NEW k \in {"multicast", "stream"},
           RunsEvent(k, posts)
    PROVE  LoopOK' /\ (Polls(callbacks) \/ Polls(posts) => Polls(callbacks'))
<1>1. /\ callbacks' \in Seq(Callback)
      /\ Len(callbacks') = Len(callbacks) + Len(posts)
      /\ Polls(callbacks) \/ Polls(posts) => Polls(callbacks')
    BY PollsConcat DEF LoopOK, RunsEvent
<1>2. left' \in 0..Len(callbacks')
    BY <1>1 DEF LoopOK, RunsEvent
<1> QED BY <1>1, <1>2 DEF LoopOK, RunsEvent

(* add_callback() of the caller's thread *)
LEMMA CallbackAdded ==
    ASSUME LoopOK, NEW c \in Callback, add_callback(c)
    PROVE  LoopOK' /\ (Polls(callbacks) => Polls(callbacks'))
<1>1. /\ callbacks' \in Seq(Callback)
      /\ Len(callbacks') = Len(callbacks) + 1
      /\ Polls(callbacks) => Polls(callbacks')
    BY PollsAppend DEF LoopOK, add_callback
<1>2. left' \in 0..Len(callbacks')
    BY <1>1 DEF LoopOK, add_callback
<1> QED BY <1>1, <1>2 DEF LoopOK, add_callback

(* A handler starts with the client as it is. *)
LEMMA CallStarts ==
    ASSUME NEW c \in RpcState
    PROVE  Call(c) \in Calls /\ Call(c).rpc = c /\ Call(c).posts = <<>> /\ ~Call(c).raised
BY DEF Call, Calls

(* What the calls of a handler leave is the client after it. *)
LEMMA CallEnds ==
    ASSUME RpcOK, NEW s \in Calls, Keeps(rpc, s.rpc), Done(s)
    PROVE  /\ Good(rpc')
           /\ raced' \in BOOLEAN
           /\ rpc'.ref = rpc.ref
           /\ Ended(rpc) => rpc'.future = rpc.future
BY DEF Done, Keeps, RpcOK

-----------------------------------------------------------------------------
(* A step that leaves the directory as it is, and the polls that wait. *)
LEMMA DirectorySame ==
    ASSUME PyInv, LoopOK', RpcOK', UNCHANGED directoryVars,
           Polls(callbacks) => Polls(callbacks'), rpc'.ref = rpc.ref
    PROVE  PyInv'
BY DEF PyInv, DirectoryOK, directoryVars, missing

(* The initial states. *)
LEMMA InitInv == Init => PyInv
<1> SUFFICES ASSUME Init PROVE PyInv
    OBVIOUS
<1>1. LoopOK
    BY DEF Init, LoopInit, LoopOK
<1>2. Good(rpc)
    BY DEF Init, RpcInit, Good, RpcState, Topics
<1>3. RpcOK
    BY ZenonT(30), <1>2 DEF Init, RpcInit, RpcOK
<1>4. DOMAIN network = {}
    BY DEF Init
<1>5. interval \in 1..(2 * IntervalMax - 1)
    BY PyAssumption DEF Init
<1>6. packets \in 0..MaxPackets
    BY PyAssumption DEF Init
<1>7. DirectoryOK /\ ~missing(network, observers)
    BY ZenonT(30), <1>4, <1>5, <1>6 DEF Init, DirectoryOK, missing
<1>8. ~rpc.ref
    BY DEF Init, RpcInit
<1> QED BY <1>1, <1>3, <1>7, <1>8 DEF PyInv

(* The steps of the caller's thread keep the invariant, and a future has   *)
(* one outcome.                                                            *)
LEMMA ExecutesInv == PyInv /\ Executes => PyInv' /\ Outcome
<1> SUFFICES ASSUME PyInv, Executes PROVE PyInv' /\ Outcome
    OBVIOUS
<1>1. Good(rpc) /\ rpc \in RpcState /\ LoopOK
    BY DEF PyInv, RpcOK, Good
<1>2. UNCHANGED <<connects, raced, sent, garbled, directoryVars>>
    BY DEF Executes
<1>3. Good(rpc') /\ rpc'.ref = rpc.ref /\ (Ended(rpc) => rpc'.future = rpc.future)
    <2>1. ASSUME NEW timeout \in BOOLEAN, Execute(timeout)
          PROVE  Good(rpc') /\ rpc'.ref = rpc.ref /\ (Ended(rpc) => rpc'.future = rpc.future)
        <3>1. rpc.at = "new" /\ rpc.client = "unset" /\ rpc.future = "none"
            BY <1>1, <2>1 DEF Execute, Good
        <3>2. rpc' = [rpc EXCEPT !.at = "scheduled", !.timeout = timeout, !.scheduled = timeout]
            BY <2>1 DEF Execute
        <3>3. /\ rpc' \in RpcState /\ rpc'.at = "scheduled" /\ rpc'.client = rpc.client
              /\ rpc'.future = rpc.future /\ rpc'.receiving = rpc.receiving
              /\ rpc'.ref = rpc.ref
            BY ZenonT(30), <1>1, <3>2 DEF RpcState
        <3> QED BY <1>1, <3>1, <3>3 DEF Good, Ended
    <2>2. ASSUME ExecuteFuture
          PROVE  Good(rpc') /\ rpc'.ref = rpc.ref /\ (Ended(rpc) => rpc'.future = rpc.future)
        <3>1. rpc.at = "scheduled" /\ rpc.client = "unset" /\ rpc.future = "none"
            BY <1>1, <2>2 DEF ExecuteFuture, Good
        <3>2. /\ rpc' \in RpcState /\ rpc'.at = "future" /\ rpc'.client = rpc.client
              /\ rpc'.future = "pending" /\ rpc'.receiving = rpc.receiving
              /\ rpc'.ref = rpc.ref
            BY ZenonT(30), <1>1, <2>2 DEF ExecuteFuture, RpcState
        <3> QED BY <1>1, <3>1, <3>2 DEF Good, Ended
    <2>3. ASSUME ExecuteConstruct
          PROVE  Good(rpc') /\ rpc'.ref = rpc.ref /\ (Ended(rpc) => rpc'.future = rpc.future)
        <3>1. rpc.at = "future" /\ rpc.client = "unset" /\ rpc.future = "pending"
            BY <1>1, <2>3 DEF ExecuteConstruct, Good
        <3>2. /\ rpc' \in RpcState /\ rpc'.at = "constructed" /\ rpc'.client = rpc.client
              /\ rpc'.future = rpc.future /\ rpc'.receiving = rpc.receiving
              /\ rpc'.ref = rpc.ref
            BY <1>1, <2>3 DEF ExecuteConstruct, RpcState
        <3> QED BY <1>1, <3>1, <3>2 DEF Good, Ended
    <2>4. ASSUME ExecuteReturn
          PROVE  Good(rpc') /\ rpc'.ref = rpc.ref /\ (Ended(rpc) => rpc'.future = rpc.future)
        <3>1. rpc.at = "constructed" /\ rpc.client = "unset" /\ rpc.future = "pending"
            BY <1>1, <2>4 DEF ExecuteReturn, Good
        <3>2. /\ rpc' \in RpcState /\ rpc'.at = "returned" /\ rpc'.client = "set"
              /\ rpc'.future = rpc.future /\ rpc'.ref = rpc.ref
            BY ZenonT(30), <1>1, <2>4 DEF ExecuteReturn, RpcState
        <3> QED BY <1>1, <3>1, <3>2 DEF Good, Ended
    <2> QED BY <2>1, <2>2, <2>3, <2>4 DEF Executes
<1>4. LoopOK' /\ (Polls(callbacks) => Polls(callbacks'))
    <2>1. ASSUME UNCHANGED loopVars
          PROVE  LoopOK' /\ (Polls(callbacks) => Polls(callbacks'))
        BY <1>1, <2>1 DEF loopVars, LoopOK
    <2>2. ASSUME NEW c \in Callback, add_callback(c)
          PROVE  LoopOK' /\ (Polls(callbacks) => Polls(callbacks'))
        BY <1>1, <2>2, CallbackAdded
    <2>3. UNCHANGED loopVars \/ \E c \in Callback : add_callback(c)
        BY DEF Executes, Callback
    <2> QED BY <2>1, <2>2, <2>3
<1>5. RpcOK'
    BY <1>2, <1>3 DEF PyInv, RpcOK
<1> QED BY <1>2, <1>3, <1>4, <1>5, DirectorySame DEF Outcome

(* So does the callback that sets the timeout. *)
LEMMA ScheduleInv == PyInv /\ ScheduleCallback => PyInv' /\ Outcome
<1> SUFFICES ASSUME PyInv, ScheduleCallback PROVE PyInv' /\ Outcome
    OBVIOUS
<1>1. Good(rpc) /\ rpc \in RpcState /\ LoopOK
    BY DEF PyInv, RpcOK, Good
<1>2. UNCHANGED <<connects, raced, sent, garbled, directoryVars>>
    BY DEF ScheduleCallback
<1>3. /\ rpc' \in RpcState /\ rpc'.at = rpc.at /\ rpc'.client = rpc.client
      /\ rpc'.future = rpc.future /\ rpc'.receiving = rpc.receiving
      /\ rpc'.ref = rpc.ref /\ rpc'.scheduled = rpc.scheduled /\ rpc'.timer = rpc.scheduled
    BY <1>1 DEF ScheduleCallback, schedule_timeout, RpcState
<1>4. Good(rpc')
    BY <1>1, <1>3 DEF Good
<1>5. LoopOK' /\ (Polls(callbacks) => Polls(callbacks'))
    BY <1>1, CallbackRunsAlone DEF ScheduleCallback
<1>6. RpcOK'
    BY <1>2, <1>4 DEF PyInv, RpcOK
<1> QED BY <1>2, <1>3, <1>5, <1>6, DirectorySame DEF Outcome

(* So does the callback that observes the topic. *)
LEMMA ObserveInv == PyInv /\ ObserveCallback => PyInv' /\ Outcome
<1> SUFFICES ASSUME PyInv, ObserveCallback PROVE PyInv' /\ Outcome
    OBVIOUS
<1> DEFINE s == IF DOMAIN network = {}
                  THEN Call(rpc)
                  ELSE topic_map_updated(Call(rpc), newest(network))
           c == s.rpc
           t == [s EXCEPT !.rpc.ref = TRUE]
<1>1. Good(rpc) /\ rpc \in RpcState /\ LoopOK
    BY DEF PyInv, RpcOK, Good
<1>2. /\ UNCHANGED <<connects, sent, garbled, network, searching, interval, packets>>
      /\ observers' = "handler"
      /\ Done(t)
      /\ RunsCallback("observe", Append(s.posts, "poll"))
    BY DEF ObserveCallback
<1>3. s \in Calls /\ Keeps(rpc, c)
    <2>1. newest(network) \in Topics
        BY NewestIsTopic DEF PyInv, DirectoryOK
    <2> QED BY <1>1, <2>1, CallStarts, UpdatedKeeps DEF Keeps
<1> HIDE DEF s
<1>4. Append(s.posts, "poll") \in Seq(Callback) /\ Polls(Append(s.posts, "poll"))
    BY <1>3, PollsAppend DEF Calls, Callback
<1>5. LoopOK' /\ Polls(callbacks')
    BY ZenonT(30), <1>1, <1>2, <1>4, CallbackRuns
<1>6. Good(c) /\ c \in RpcState /\ (Ended(rpc) => c.future = rpc.future)
    BY <1>3 DEF Keeps, Good
<1>7. rpc' = [c EXCEPT !.ref = TRUE] /\ raced' \in BOOLEAN
    BY <1>2, <1>3 DEF Done, Calls
<1> HIDE DEF c
<1>8. /\ rpc' \in RpcState /\ rpc'.at = c.at /\ rpc'.client = c.client
      /\ rpc'.future = c.future /\ rpc'.receiving = c.receiving
      /\ rpc'.scheduled = c.scheduled /\ rpc'.timer = c.timer
    BY ZenonT(30), <1>6, <1>7 DEF RpcState
<1>9. Good(rpc')
    BY <1>6, <1>8 DEF Good
<1>10. RpcOK'
    BY <1>2, <1>7, <1>9 DEF PyInv, RpcOK
<1>11. DirectoryOK'
    BY <1>2 DEF PyInv, DirectoryOK
<1>12. PyInv'
    BY <1>2, <1>5, <1>10, <1>11 DEF PyInv
<1>13. Outcome
    BY <1>2, <1>6, <1>8 DEF Outcome
<1> QED BY <1>12, <1>13

(* So does the one that ends the observation. *)
LEMMA UnobserveInv == PyInv /\ UnobserveCallback => PyInv' /\ Outcome
<1> SUFFICES ASSUME PyInv, UnobserveCallback PROVE PyInv' /\ Outcome
    OBVIOUS
<1>1. UNCHANGED <<rpcVars, network, searching, interval, packets>>
    BY DEF UnobserveCallback
<1>2. observers' = IF rpc.ref THEN "entry" ELSE observers
    BY DEF UnobserveCallback
<1>3. LoopOK' /\ (Polls(callbacks) => Polls(callbacks'))
    BY CallbackRunsAlone DEF PyInv, UnobserveCallback
<1>4. RpcOK'
    BY <1>1 DEF PyInv, RpcOK, rpcVars
<1>5. DirectoryOK'
    BY <1>1, <1>2 DEF PyInv, DirectoryOK
<1>6. rpc' = rpc /\ garbled' = garbled
    BY <1>1 DEF rpcVars
<1>7. (observers' # "none") <=> (observers # "none")
    BY <1>2 DEF PyInv
<1>8. PyInv'
    BY <1>1, <1>3, <1>4, <1>5, <1>6, <1>7 DEF PyInv, missing
<1> QED BY <1>6, <1>8 DEF Outcome

(* So does the one that disconnects. *)
LEMMA DisconnectInv == PyInv /\ DisconnectCallback => PyInv' /\ Outcome
<1> SUFFICES ASSUME PyInv, DisconnectCallback PROVE PyInv' /\ Outcome
    OBVIOUS
<1> DEFINE s == disconnect(Call(rpc))
<1>1. Good(rpc) /\ rpc \in RpcState /\ LoopOK /\ RpcOK
    BY DEF PyInv, RpcOK, Good
<1>2. /\ UNCHANGED <<connects, sent, garbled, directoryVars>>
      /\ Done(s)
      /\ RunsCallback("disconnect", s.posts)
    BY DEF DisconnectCallback
<1>3. s \in Calls /\ Keeps(rpc, s.rpc)
    BY <1>1, CallStarts, DisconnectKeeps
<1> HIDE DEF s
<1>4. /\ Good(rpc') /\ raced' \in BOOLEAN /\ rpc'.ref = rpc.ref
      /\ Ended(rpc) => rpc'.future = rpc.future
    BY <1>1, <1>2, <1>3, CallEnds
<1>5. s.posts \in Seq(Callback)
    BY <1>3 DEF Calls
<1>6. LoopOK' /\ (Polls(callbacks) => Polls(callbacks'))
    BY <1>1, <1>2, <1>5, CallbackRuns
<1>7. RpcOK'
    BY <1>1, <1>2, <1>4 DEF RpcOK
<1> QED BY <1>2, <1>4, <1>6, <1>7, DirectorySame DEF Outcome

(* So does the one that sends the request. *)
LEMMA SendInv == PyInv /\ SendCallback => PyInv' /\ Outcome
<1> SUFFICES ASSUME PyInv, SendCallback PROVE PyInv' /\ Outcome
    OBVIOUS
<1>1. Good(rpc) /\ rpc \in RpcState /\ LoopOK /\ RpcOK /\ sent \in Nat
    BY DEF PyInv, RpcOK, Good
<1>2. UNCHANGED <<connects, raced, garbled, directoryVars>>
    BY DEF SendCallback, send
<1>3. LoopOK' /\ (Polls(callbacks) => Polls(callbacks'))
    BY <1>1, CallbackRunsAlone DEF SendCallback
<1>4. CASE UNCHANGED <<rpc, sent>>
    <2>1. RpcOK' /\ rpc' = rpc
        BY <1>1, <1>2, <1>4 DEF RpcOK
    <2> QED BY <1>2, <1>3, <2>1, DirectorySame DEF Outcome
<1>5. CASE rpc' = [rpc EXCEPT !.asked = TRUE] /\ sent' = sent + 1
    <2>1. /\ rpc' \in RpcState /\ rpc'.at = rpc.at /\ rpc'.client = rpc.client
          /\ rpc'.future = rpc.future /\ rpc'.receiving = rpc.receiving
          /\ rpc'.ref = rpc.ref /\ rpc'.scheduled = rpc.scheduled /\ rpc'.timer = rpc.timer
        BY ZenonT(30), <1>1, <1>5 DEF RpcState
    <2>2. Good(rpc')
        BY <1>1, <2>1 DEF Good
    <2>3. sent' \in Nat
        BY <1>1, <1>5
    <2>4. RpcOK'
        BY <1>1, <1>2, <2>2, <2>3 DEF RpcOK
    <2> QED BY <1>2, <1>3, <2>1, <2>4, DirectorySame DEF Outcome
<1> QED BY <1>4, <1>5 DEF SendCallback, send

(* So does the one that connects later. *)
LEMMA LaterInv == PyInv /\ LaterCallback => PyInv' /\ Outcome
<1> SUFFICES ASSUME PyInv, LaterCallback PROVE PyInv' /\ Outcome
    OBVIOUS
<1>1. UNCHANGED <<rpc, raced, sent, garbled, directoryVars>> /\ connects' = connects + 1
    BY DEF LaterCallback
<1>2. LoopOK' /\ (Polls(callbacks) => Polls(callbacks'))
    BY CallbackRunsAlone DEF PyInv, LaterCallback
<1>3. connects' \in Nat
    BY <1>1 DEF PyInv, RpcOK
<1>4. RpcOK'
    BY <1>1, <1>3 DEF PyInv, RpcOK
<1> QED BY <1>1, <1>2, <1>4, DirectorySame DEF Outcome

(* find_missing_topics() searches for what is missing, at an interval that *)
(* is below twice the maximum.                                             *)
LEMMA FindMissing ==
    ASSUME NEW i \in 1..(2 * IntervalMax - 1), find_missing_topics(i)
    PROVE  /\ searching' \in BOOLEAN
           /\ interval' \in 1..(2 * IntervalMax - 1)
           /\ missing(network, observers) => searching'
<1>1. IntervalMax \in Nat \ {0}
    BY PyAssumption
<1>2. (IF i < IntervalMax THEN 2 * i ELSE i) \in 1..(2 * IntervalMax - 1)
    BY <1>1
<1>3. CASE missing(network, observers)
    BY <1>2, <1>3 DEF find_missing_topics
<1>4. CASE ~missing(network, observers)
    BY ZenonT(30), <1>4 DEF find_missing_topics
<1> QED BY <1>3, <1>4

(* ... so that a step that does only this keeps the invariant. *)
LEMMA SearchInv ==
    ASSUME PyInv, LoopOK', NEW i \in 1..(2 * IntervalMax - 1), find_missing_topics(i),
           UNCHANGED <<rpcVars, network, observers, packets>>
    PROVE  PyInv' /\ Outcome
<1>1. /\ searching' \in BOOLEAN
      /\ interval' \in 1..(2 * IntervalMax - 1)
      /\ missing(network, observers) => searching'
    BY FindMissing
<1>2. RpcOK' /\ rpc' = rpc /\ garbled' = garbled
    BY DEF PyInv, RpcOK, rpcVars
<1>3. DirectoryOK'
    BY <1>1 DEF PyInv, DirectoryOK
<1>4. PyInv'
    BY <1>1, <1>2, <1>3 DEF PyInv, missing
<1> QED BY <1>2, <1>4 DEF Outcome

(* So does the one that searches for missing topics. *)
LEMMA PollInv == PyInv /\ PollCallback => PyInv' /\ Outcome
<1> SUFFICES ASSUME PyInv, PollCallback PROVE PyInv' /\ Outcome
    OBVIOUS
<1>1. LoopOK'
    BY CallbackRunsAlone DEF PyInv, PollCallback
<1>2. 1 \in 1..(2 * IntervalMax - 1)
    BY PyAssumption
<1> QED BY <1>1, <1>2, SearchInv DEF PollCallback

(* So does the timeout after which the search is repeated. *)
LEMMA SearchTimeoutInv == PyInv /\ SearchTimeout => PyInv' /\ Outcome
<1> SUFFICES ASSUME PyInv, SearchTimeout PROVE PyInv' /\ Outcome
    OBVIOUS
<1>1. <<>> \in Seq(Callback)
    OBVIOUS
<1>2. LoopOK'
    BY ZenonT(30), <1>1, TimeoutRuns DEF PyInv, SearchTimeout
<1>3. interval \in 1..(2 * IntervalMax - 1)
    BY DEF PyInv, DirectoryOK
<1> QED BY <1>2, <1>3, SearchInv DEF SearchTimeout

(* So does the timeout that follows a connection. *)
LEMMA ConnectTimeoutInv == PyInv /\ ConnectTimeout => PyInv' /\ Outcome
<1> SUFFICES ASSUME PyInv, ConnectTimeout PROVE PyInv' /\ Outcome
    OBVIOUS
<1> DEFINE s == on_connect(Call(rpc))
<1>1. Good(rpc) /\ rpc \in RpcState /\ LoopOK /\ RpcOK
    BY DEF PyInv, RpcOK, Good
<1>2. /\ UNCHANGED <<sent, garbled, directoryVars>>
      /\ connects > 0 /\ connects' = connects - 1
      /\ Done(s)
      /\ RunsTimeout(s.posts)
    BY DEF ConnectTimeout
<1>3. s \in Calls /\ Keeps(rpc, s.rpc)
    BY <1>1, CallStarts, OnConnectKeeps
<1> HIDE DEF s
<1>4. /\ Good(rpc') /\ raced' \in BOOLEAN /\ rpc'.ref = rpc.ref
      /\ Ended(rpc) => rpc'.future = rpc.future
    BY <1>1, <1>2, <1>3, CallEnds
<1>5. s.posts \in Seq(Callback)
    BY <1>3 DEF Calls
<1>6. LoopOK' /\ (Polls(callbacks) => Polls(callbacks'))
    BY <1>1, <1>2, <1>5, TimeoutRuns
<1>7. connects' \in Nat
    BY <1>1, <1>2 DEF RpcOK
<1>8. RpcOK'
    BY <1>1, <1>2, <1>4, <1>7 DEF RpcOK
<1> QED BY <1>2, <1>4, <1>6, <1>8, DirectorySame DEF Outcome

(* So does the timeout of the request. *)
LEMMA RequestTimeoutInv == PyInv /\ RequestTimeout => PyInv' /\ Outcome
<1> SUFFICES ASSUME PyInv, RequestTimeout PROVE PyInv' /\ Outcome
    OBVIOUS
<1> DEFINE r == [rpc EXCEPT !.timer = FALSE]
           t == [Call(rpc) EXCEPT !.rpc.timer = FALSE]
           s == on_timeout(t)
<1>1. Good(rpc) /\ rpc \in RpcState /\ LoopOK /\ RpcOK
    BY DEF PyInv, RpcOK, Good
<1>2. /\ UNCHANGED <<connects, sent, garbled, directoryVars>>
      /\ Done(s)
      /\ RunsTimeout(s.posts)
    BY DEF RequestTimeout
<1>3. /\ r \in RpcState /\ r.at = rpc.at /\ r.client = rpc.client
      /\ r.future = rpc.future /\ r.receiving = rpc.receiving
      /\ r.ref = rpc.ref /\ r.scheduled = rpc.scheduled /\ ~r.timer
    BY ZenonT(30), <1>1 DEF RpcState
<1>4. t \in Calls /\ t.rpc = r
    <2>1. Call(rpc) \in Calls /\ Call(rpc).rpc = rpc
        BY <1>1, CallStarts
    <2>2. t = [Call(rpc) EXCEPT !.rpc = r]
        BY <2>1
    <2> HIDE DEF r, t
    <2> QED BY <1>3, <2>1, <2>2 DEF Calls
<1> HIDE DEF r, t
<1>5. Keeps(rpc, r)
    BY <1>1, <1>3 DEF Keeps, Good, Ended
<1>6. s \in Calls /\ Keeps(r, s.rpc)
    BY <1>4, <1>5, OnTimeoutKeeps DEF Keeps
<1> HIDE DEF s
<1>7. Keeps(rpc, s.rpc)
    BY <1>5, <1>6, KeepsTransitive
<1>8. /\ Good(rpc') /\ raced' \in BOOLEAN /\ rpc'.ref = rpc.ref
      /\ Ended(rpc) => rpc'.future = rpc.future
    BY <1>1, <1>2, <1>6, <1>7, CallEnds
<1>9. s.posts \in Seq(Callback)
    BY <1>6 DEF Calls
<1>10. LoopOK' /\ (Polls(callbacks) => Polls(callbacks'))
    BY <1>1, <1>2, <1>9, TimeoutRuns
<1>11. RpcOK'
    BY <1>1, <1>2, <1>8 DEF RpcOK
<1> QED BY <1>2, <1>8, <1>10, <1>11, DirectorySame DEF Outcome

(* The observers hear of the newest topic of a map. *)
LEMMA ObserversKeep ==
    ASSUME RpcOK, NEW map, \A g \in DOMAIN map : map[g] \in Topic
    PROVE  /\ call_observers(Call(rpc), map) \in Calls
           /\ Keeps(rpc, call_observers(Call(rpc), map).rpc)
           /\ DOMAIN map = {} => ~call_observers(Call(rpc), map).raised
<1>1. rpc \in RpcState /\ Good(rpc)
    BY DEF RpcOK, Good
<1>2. Call(rpc) \in Calls /\ Call(rpc).rpc = rpc /\ ~Call(rpc).raised
    BY <1>1, CallStarts
<1>3. newest(map) \in Topics /\ (DOMAIN map = {} => newest(map) = NoTopic)
    BY NewestIsTopic
<1>4. CASE observers = "handler"
    <2>1. call_observers(Call(rpc), map) = topic_map_updated(Call(rpc), newest(map))
        BY <1>4 DEF call_observers
    <2> QED BY <1>1, <1>2, <1>3, <2>1, UpdatedKeeps
<1>5. CASE observers # "handler"
    <2>1. call_observers(Call(rpc), map) = Call(rpc)
        BY <1>5 DEF call_observers
    <2> QED BY <1>1, <1>2, <2>1 DEF Keeps
<1> QED BY <1>4, <1>5

(* So does a packet that offers a topic. *)
LEMMA AvailableInv ==
    ASSUME PyInv, NEW g \in Guids, NEW address \in Addresses, Available(g, address)
    PROVE  PyInv' /\ Outcome
<1> DEFINE known == g \in DOMAIN network /\ network[g].address = address
           topic == [address |-> address, timestamp |-> packets + 1]
           map   == [h \in DOMAIN network \cup {g} |-> IF h = g THEN topic ELSE network[h]]
           s     == call_observers(Call(rpc), map)
<1>1. LoopOK /\ RpcOK /\ DirectoryOK
    BY DEF PyInv
<1>2. /\ packets < MaxPackets /\ packets' = packets + 1
      /\ UNCHANGED <<connects, sent, garbled, observers, searching, interval>>
    BY DEF Available
<1>3. packets + 1 \in 1..MaxPackets /\ packets' \in 0..MaxPackets
    BY <1>1, <1>2, PyAssumption DEF DirectoryOK
<1>4. CASE known
    <2>1. UNCHANGED <<network, rpc, raced>> /\ RunsEvent("multicast", <<>>)
        BY <1>4 DEF Available
    <2>2. <<>> \in Seq(Callback)
        OBVIOUS
    <2>3. LoopOK' /\ (Polls(callbacks) => Polls(callbacks'))
        BY ZenonT(30), <1>1, <2>1, <2>2, EventRuns
    <2>4. RpcOK' /\ DirectoryOK'
        BY <1>1, <1>2, <1>3, <2>1 DEF RpcOK, DirectoryOK
    <2>5. PyInv'
        BY <1>2, <2>1, <2>3, <2>4 DEF PyInv, missing
    <2> QED BY <1>2, <2>1, <2>5 DEF Outcome
<1>5. CASE ~known
    <2>1. network' = map /\ Done(s) /\ RunsEvent("multicast", s.posts)
        BY <1>5 DEF Available
    <2>2. topic \in Topic
        BY <1>3 DEF Topic
    <2>3. DOMAIN map \subseteq Guids /\ DOMAIN map # {} /\ \A h \in DOMAIN map : map[h] \in Topic
        <3> HIDE DEF topic
        <3> QED BY <1>1, <2>2 DEF DirectoryOK
    <2> HIDE DEF map
    <2>4. s \in Calls /\ Keeps(rpc, s.rpc)
        BY <1>1, <2>3, ObserversKeep
    <2> HIDE DEF s
    <2>5. s.posts \in Seq(Callback)
        BY <2>4 DEF Calls
    <2>6. LoopOK' /\ (Polls(callbacks) => Polls(callbacks'))
        BY <1>1, <2>1, <2>5, EventRuns
    <2>7. /\ Good(rpc') /\ raced' \in BOOLEAN /\ rpc'.ref = rpc.ref
          /\ Ended(rpc) => rpc'.future = rpc.future
        BY <1>1, <2>1, <2>4, CallEnds
    <2>8. RpcOK'
        BY <1>1, <1>2, <2>7 DEF RpcOK
    <2>9. DirectoryOK'
        BY <1>1, <1>2, <1>3, <2>1, <2>3 DEF DirectoryOK
    <2>10. PyInv'
        BY <1>2, <2>1, <2>3, <2>6, <2>7, <2>8, <2>9 DEF PyInv, missing
    <2> QED BY <1>2, <2>7, <2>10 DEF Outcome
<1> QED BY <1>4, <1>5

(* So does a packet that withdraws one. *)
LEMMA GoneInv ==
    ASSUME PyInv, NEW g \in Guids, Gone(g)
    PROVE  PyInv' /\ Outcome
<1> DEFINE map == Without(network, g)
           s   == IF g \in DOMAIN network THEN call_observers(Call(rpc), map) ELSE Call(rpc)
           posts == IF s.raised THEN s.posts ELSE Append(s.posts, "poll")
<1>1. LoopOK /\ RpcOK /\ DirectoryOK
    BY DEF PyInv
<1>2. /\ packets < MaxPackets /\ packets' = packets + 1
      /\ UNCHANGED <<connects, sent, garbled, observers, searching, interval>>
      /\ network' = map
      /\ RunsEvent("multicast", posts)
      /\ Done(s)
    BY DEF Gone
<1>3. packets' \in 0..MaxPackets
    BY <1>1, <1>2, PyAssumption DEF DirectoryOK
<1>4. DOMAIN map \subseteq Guids /\ \A h \in DOMAIN map : map[h] \in Topic
    BY <1>1 DEF DirectoryOK, Without
<1> HIDE DEF map
<1>5. s \in Calls /\ Keeps(rpc, s.rpc) /\ (DOMAIN map = {} => ~s.raised)
    <2>1. CASE g \in DOMAIN network
        BY <1>1, <1>4, <2>1, ObserversKeep
    <2>2. CASE g \notin DOMAIN network
        <3>1. rpc \in RpcState /\ Good(rpc)
            BY <1>1 DEF RpcOK, Good
        <3> QED BY <2>2, <3>1, CallStarts DEF Keeps
    <2> QED BY <2>1, <2>2
<1> HIDE DEF s
<1>6. posts \in Seq(Callback) /\ (~s.raised => Polls(posts))
    BY <1>5, PollsAppend DEF Calls, Callback
<1> HIDE DEF posts
<1>7. LoopOK' /\ (Polls(posts) => Polls(callbacks'))
    BY <1>1, <1>2, <1>6, EventRuns
<1>8. /\ Good(rpc') /\ raced' \in BOOLEAN /\ rpc'.ref = rpc.ref
      /\ Ended(rpc) => rpc'.future = rpc.future
    BY <1>1, <1>2, <1>5, CallEnds
<1>9. RpcOK'
    BY <1>1, <1>2, <1>8 DEF RpcOK
<1>10. DirectoryOK'
    BY <1>1, <1>2, <1>3, <1>4 DEF DirectoryOK
<1>11. DOMAIN network' = {} => Polls(callbacks')
    BY <1>2, <1>5, <1>6, <1>7
<1>12. PyInv'
    BY <1>2, <1>7, <1>8, <1>9, <1>10, <1>11 DEF PyInv, missing
<1> QED BY <1>2, <1>8, <1>12 DEF Outcome

(* So does a reply. *)
LEMMA ReplyInv ==
    ASSUME PyInv, NEW good \in BOOLEAN, Reply(good)
    PROVE  PyInv' /\ Outcome
<1> DEFINE s == on_reply(Call(rpc), good)
<1>1. Good(rpc) /\ rpc \in RpcState /\ LoopOK /\ RpcOK
    BY DEF PyInv, RpcOK, Good
<1>2. /\ UNCHANGED <<connects, sent, directoryVars>>
      /\ rpc.receiving
      /\ Done(s)
      /\ garbled' = (garbled \/ ~good)
      /\ RunsEvent("stream", s.posts)
    BY DEF Reply
<1>3. rpc.client = "set" /\ rpc.future = "pending"
    BY <1>1, <1>2 DEF Good
<1>4. Call(rpc) \in Calls /\ Call(rpc).rpc = rpc
    BY <1>1, CallStarts
<1>5. s \in Calls /\ Keeps(rpc, s.rpc)
    <2>1. CASE good
        BY <1>1, <1>3, <1>4, <2>1, OutcomeKeeps DEF on_reply
    <2>2. CASE ~good
        BY ZenonT(30), <1>1, <1>3, <1>4, <2>2, CleanupKeeps, ClosedKeeps DEF on_reply
    <2> QED BY <2>1, <2>2
<1> HIDE DEF s
<1>6. /\ Good(rpc') /\ raced' \in BOOLEAN /\ rpc'.ref = rpc.ref
      /\ Ended(rpc) => rpc'.future = rpc.future
    BY <1>1, <1>2, <1>5, CallEnds
<1>7. s.posts \in Seq(Callback)
    BY <1>5 DEF Calls
<1>8. LoopOK' /\ (Polls(callbacks) => Polls(callbacks'))
    BY <1>1, <1>2, <1>7, EventRuns
<1>9. garbled' \in BOOLEAN
    BY <1>2
<1>10. RpcOK'
    BY <1>1, <1>2, <1>6, <1>9 DEF RpcOK
<1>11. PyInv'
    BY <1>2, <1>6, <1>8, <1>10, DirectorySame
<1> QED BY <1>3, <1>6, <1>11 DEF Outcome

(* So does the loop's own step. *)
LEMMA LoopsInv == PyInv /\ Loops => PyInv' /\ Outcome
<1> SUFFICES ASSUME PyInv, Loops PROVE PyInv' /\ Outcome
    OBVIOUS
<1>1. UNCHANGED <<callbacks, rpcVars, directoryVars>> /\ LoopOK /\ RpcOK
    BY DEF PyInv, Loops, Iterates
<1>2. LoopOK'
    BY <1>1 DEF LoopOK, Loops, Iterates
<1>3. RpcOK' /\ rpc' = rpc /\ garbled' = garbled
    BY <1>1 DEF RpcOK, rpcVars
<1> QED BY <1>1, <1>2, <1>3, DirectorySame DEF Outcome

(* Every step keeps the invariant, and a future has one outcome. *)
LEMMA NextInv == PyInv /\ [Next]_vars => PyInv' /\ [Outcome]_vars
<1> SUFFICES ASSUME PyInv, [Next]_vars PROVE PyInv' /\ [Outcome]_vars
    OBVIOUS
<1>1. CASE Executes
    BY <1>1, ExecutesInv
<1>2. CASE Callbacks
    BY <1>2, ScheduleInv, ObserveInv, UnobserveInv, DisconnectInv, SendInv, LaterInv, PollInv
       DEF Callbacks
<1>3. CASE SearchTimeout
    BY <1>3, SearchTimeoutInv
<1>4. CASE ConnectTimeout
    BY <1>4, ConnectTimeoutInv
<1>5. CASE RequestTimeout
    BY <1>5, RequestTimeoutInv
<1>6. CASE Packets
    BY <1>6, AvailableInv, GoneInv DEF Packets
<1>7. ASSUME NEW good \in BOOLEAN, Reply(good) PROVE PyInv' /\ [Outcome]_vars
    BY <1>7, ReplyInv
<1>8. CASE Loops
    BY <1>8, LoopsInv
<1>9. CASE UNCHANGED vars
    <2>1. UNCHANGED <<loopVars, rpcVars, directoryVars>>
        BY <1>9 DEF vars
    <2>2. PyInv'
        BY <2>1 DEF PyInv, LoopOK, RpcOK, DirectoryOK, missing, loopVars, rpcVars, directoryVars
    <2> QED BY <1>9, <2>2
<1> QED BY <1>1, <1>2, <1>3, <1>4, <1>5, <1>6, <1>7, <1>8, <1>9 DEF Next

(* The invariant holds of every behaviour of the loop, the client and the  *)
(* directory.                                                              *)
THEOREM PyInvariant == Spec => []PyInv
BY InitInv, NextInv, PTL DEF Spec

(* The types of the loop, the client and the directory; in particular the  *)
(* broadcast interval stays below twice broadcast_interval_max.            *)
THEOREM PyTypeCorrect == Spec => []TypeOK
<1>1. PyInv => TypeOK
    BY DEF PyInv, LoopOK, RpcOK, DirectoryOK, TypeOK, Good
<1> QED BY <1>1, PyInvariant, PTL

(* "This shouldn't be possible": after _cleanup() no timeout of execute()  *)
(* is under way or still to be scheduled, so _on_timeout() never runs on a *)
(* closed client.                                                          *)
THEOREM PyLateTimeoutImpossible == Spec => []LateTimeoutImpossible
<1>1. PyInv => LateTimeoutImpossible
    BY DEF PyInv, RpcOK, Good, LateTimeoutImpossible
<1> QED BY <1>1, PyInvariant, PTL

(* While an observed topic has no server a search is due or about to be    *)
(* started, after any packets and also when a handler failed.              *)
THEOREM PyMissingSearched == Spec => []MissingSearched
<1>1. PyInv => MissingSearched
    BY DEF PyInv, Polls, MissingSearched
<1> QED BY <1>1, PyInvariant, PTL

(* The future of execute() gets one outcome, and _on_reply() runs only     *)
(* while it is pending.                                                    *)
THEOREM PyOneOutcome == Spec => OneOutcome
<1>1. PyInv /\ [Next]_vars =>
          [/\ rpc.future \notin {"none", "pending"} => rpc'.future = rpc.future
           /\ garbled' # garbled => rpc.future = "pending"]_vars
    BY NextInv DEF Outcome, Ended
<1> QED BY <1>1, PyInvariant, PTL DEF Spec, OneOutcome

-----------------------------------------------------------------------------
(* how many requests, and how many connections, wait in a queue *)
Sends(q) == Count(q, "send")

Laters(q) == Count(q, "later")

(* the connections that a client that is open has made *)
Made(c) == IF c.connected = NoTopic THEN 0 ELSE 1

(* The inductive invariant of SentAtMostOnce: what was sent and what will  *)
(* be is one request at most; and while the client is open, no more than   *)
(* its connection leads to, be it a request, or on its way to become one.  *)
OnceInv ==
    ~raced =>
        /\ sent + Sends(callbacks) <= 1
        /\ rpc.client # "none" =>
               sent + Sends(callbacks) + Laters(callbacks) + connects <= Made(rpc)

(* What a handler that has not failed does: it posts no request, and only  *)
(* an open client without a connection makes one.                          *)
Ordered(c, s) ==
    ~s.raised =>
        /\ Sends(s.posts) = 0
        /\ s.rpc.client # "none" =>
               c.client # "none" /\ Made(c) + Laters(s.posts) <= Made(s.rpc)

(* How many requests and connections wait are numbers. *)
LEMMA CountsType ==
    ASSUME NEW q \in Seq(Callback)
    PROVE  Sends(q) \in Nat /\ Laters(q) \in Nat
BY CountType DEF Sends, Laters

(* None wait in an empty queue. *)
LEMMA CountsEmpty == Sends(<<>>) = 0 /\ Laters(<<>>) = 0
BY CountEmpty DEF Sends, Laters

(* How many wait in a queue to which a callback is added. *)
LEMMA CountsAppend ==
    ASSUME NEW q \in Seq(Callback), NEW c \in Callback
    PROVE  /\ Sends(Append(q, c)) = Sends(q) + (IF c = "send" THEN 1 ELSE 0)
           /\ Laters(Append(q, c)) = Laters(q) + (IF c = "later" THEN 1 ELSE 0)
<1>1. Sends(Append(q, c)) = Sends(q) + (IF "send" = c THEN 1 ELSE 0)
    BY CountAppend DEF Sends
<1>2. Laters(Append(q, c)) = Laters(q) + (IF "later" = c THEN 1 ELSE 0)
    BY CountAppend DEF Laters
<1> QED BY <1>1, <1>2

(* A step of the loop takes one callback from the queue and adds what it   *)
(* posts.                                                                  *)
LEMMA CallbackCounts ==
    ASSUME LoopOK, NEW c, NEW posts \in Seq(Callback), RunsCallback(c, posts)
    PROVE  /\ Sends(callbacks') = Sends(callbacks) + Sends(posts) - (IF c = "send" THEN 1 ELSE 0)
           /\ Laters(callbacks') = Laters(callbacks) + Laters(posts) - (IF c = "later" THEN 1 ELSE 0)
<1> DEFINE q == callbacks
           rest == Tail(q)
<1>1. q \in Seq(Callback) /\ q # <<>> /\ Head(q) = c /\ callbacks' = rest \o posts
    BY DEF LoopOK, RunsCallback
<1>2. rest \in Seq(Callback)
    BY <1>1
<1>3. /\ Sends(rest) = Sends(q) - (IF c = "send" THEN 1 ELSE 0)
      /\ Laters(rest) = Laters(q) - (IF c = "later" THEN 1 ELSE 0)
    BY <1>1, CountTail DEF Sends, Laters
<1> HIDE DEF rest
<1>4. /\ Sends(callbacks') = Sends(rest) + Sends(posts)
      /\ Laters(callbacks') = Laters(rest) + Laters(posts)
    BY <1>1, <1>2, CountConcat DEF Sends, Laters
<1>5. Sends(q) \in Nat /\ Laters(q) \in Nat /\ Sends(posts) \in Nat /\ Laters(posts) \in Nat
    BY <1>1, CountsType
<1> QED BY <1>3, <1>4, <1>5

(* How many wait in a queue to which the callbacks of a handler are added. *)
LEMMA PostsCount ==
    ASSUME LoopOK, NEW posts \in Seq(Callback), callbacks' = callbacks \o posts
    PROVE  /\ Sends(callbacks') = Sends(callbacks) + Sends(posts)
           /\ Laters(callbacks') = Laters(callbacks) + Laters(posts)
BY CountConcat DEF LoopOK, Sends, Laters

(* _cleanup() posts neither of them, and closes the client, whether the    *)
(* future then gets an outcome or not.                                     *)
LEMMA CleanupOrdered ==
    ASSUME NEW s \in Calls, NEW outcome, s.posts = <<>>, NEW c,
           NEW t \in {cleanup(s), Fulfilled(cleanup(s), outcome)}
    PROVE  Sends(t.posts) = 0 /\ t.rpc.client = "none" /\ Ordered(c, t)
<1> DEFINE d == cleanup(s)
<1>1. d \in Calls /\ d.rpc.client = "none"
    <2>1. /\ d \in Calls
          /\ d.rpc = [s.rpc EXCEPT !.client = "none", !.scheduled = FALSE,
                         !.timer = FALSE, !.stream = NoTopic,
                         !.receiving = FALSE, !.asked = FALSE]
        BY ZenonT(30), CleanupKeeps
    <2>2. s.rpc \in RpcState
        BY DEF Calls
    <2> QED BY <2>1, <2>2 DEF RpcState
<1>2. d.posts = Append(s.posts, "unobserve")
    BY ZenonT(30) DEF cleanup, Post, Calls
<1>3. Sends(d.posts) = 0
    <2>1. s.posts \in Seq(Callback) /\ "unobserve" \in Callback
        BY DEF Callback, Calls
    <2>2. Sends(d.posts) = Sends(s.posts) + 0
        BY ZenonT(30), <1>2, <2>1, CountsAppend
    <2> QED BY <2>2, CountsEmpty
<1> HIDE DEF d
<1>4. t.posts = d.posts /\ t.rpc.client = "none"
    <2>1. d.rpc \in RpcState
        BY <1>1 DEF Calls
    <2>2. Fulfilled(d, outcome).posts = d.posts /\ Fulfilled(d, outcome).rpc.client = "none"
        <3>1. CASE d.rpc.future = "pending"
            <4>1. Fulfilled(d, outcome) = [d EXCEPT !.rpc.future = outcome]
                BY <3>1 DEF Fulfilled
            <4> QED BY <1>1, <2>1, <4>1 DEF Calls, RpcState
        <3>2. CASE d.rpc.future # "pending"
            BY <1>1, <3>2 DEF Fulfilled
        <3> QED BY <3>1, <3>2
    <2> QED BY <1>1, <2>2 DEF d
<1> QED BY <1>3, <1>4 DEF Ordered

(* A handler that does nothing, and posts none of them. *)
LEMMA OrderedSame ==
    ASSUME NEW s \in Calls, Sends(s.posts) = 0, Laters(s.posts) = 0
    PROVE  Ordered(s.rpc, s)
<1>1. Made(s.rpc) \in {0, 1}
    BY DEF Made
<1> QED BY <1>1 DEF Ordered

(* disconnect(): a client that was connected is closed, or it fails. *)
LEMMA DisconnectOrdered ==
    ASSUME NEW s \in Calls, Good(s.rpc), s.posts = <<>>
    PROVE  /\ Ordered(s.rpc, disconnect(s))
           /\ \/ disconnect(s).raised
              \/ disconnect(s).rpc.client = "none"
              \/ disconnect(s) = s /\ s.rpc.connected = NoTopic
           /\ disconnect(s).raised \/ Sends(disconnect(s).posts) = 0
<1>1. CASE s.rpc.connected = NoTopic
    <2>1. disconnect(s) = s
        BY <1>1 DEF disconnect
    <2> QED BY <1>1, <2>1, OrderedSame, CountsEmpty
<1>2. CASE s.rpc.connected # NoTopic
    <2> DEFINE c == s.rpc
               d == NoStream([c EXCEPT !.connected = NoTopic])
               t == [s EXCEPT !.rpc = d]
    <2>1. c \in RpcState /\ c.client \in {"unset", "set", "none"}
        BY DEF Good, RpcState
    <2> HIDE DEF c
    <2>2. d \in RpcState /\ d.client = c.client
        BY ZenonT(30), <2>1 DEF NoStream, RpcState, Topics
    <2>3. disconnect(s) = on_disconnect(t)
        BY <1>2 DEF disconnect, c
    <2> HIDE DEF d
    <2>4. t \in Calls /\ t.rpc = d /\ t.posts = <<>>
        BY <2>2 DEF Calls
    <2> HIDE DEF t
    <2>5. CASE c.client = "unset"
        <3>1. disconnect(s) = [t EXCEPT !.raised = TRUE]
            BY <2>2, <2>3, <2>4, <2>5 DEF on_disconnect
        <3>2. disconnect(s).raised
            BY <2>4, <3>1 DEF Calls
        <3> QED BY <3>2 DEF Ordered
    <2>6. CASE c.client = "none"
        <3>1. disconnect(s) = t
            BY <2>2, <2>3, <2>4, <2>6 DEF on_disconnect
        <3> QED BY <2>2, <2>4, <2>6, <3>1, CountsEmpty DEF Ordered
    <2>7. CASE c.client = "set"
        <3>1. disconnect(s) = Fulfilled(cleanup(t), "ConnectionError")
            BY <2>2, <2>3, <2>4, <2>7 DEF on_disconnect
        <3> QED BY <2>4, <3>1, CleanupOrdered
    <2> QED BY <2>1, <2>5, <2>6, <2>7
<1> QED BY <1>1, <1>2

(* connect(): one connection, of a client that has none. *)
LEMMA ConnectOrdered ==
    ASSUME NEW s \in Calls, Good(s.rpc), s.posts = <<>>, NEW topic \in Topic, topic # NoTopic
    PROVE  Ordered(s.rpc, connect(s, topic))
<1> DEFINE d == disconnect(s)
           c == d.rpc
           e == [c EXCEPT !.connected = topic, !.stream = topic]
           t == connect(s, topic)
<1>1. /\ d.raised \/ d.rpc.client = "none" \/ (d = s /\ s.rpc.connected = NoTopic)
      /\ d.raised \/ Sends(d.posts) = 0
    BY DisconnectOrdered
<1>2. d \in Calls /\ d.rpc \in RpcState
    BY DisconnectKeeps DEF Calls
<1>3. CASE d.raised
    BY <1>3 DEF connect, Ordered
<1>4. CASE ~d.raised
    <2>1. t = [d EXCEPT !.rpc = e, !.posts = Append(d.posts, "later")]
        BY ZenonT(30), <1>2, <1>4 DEF connect, Post, Calls
    <2> HIDE DEF c
    <2>2. e.client = c.client /\ e.connected = topic
        BY <1>2 DEF RpcState, c
    <2> HIDE DEF d, e
    <2>3. t.posts = Append(d.posts, "later") /\ t.rpc = e
        BY <1>2, <2>1 DEF Calls
    <2>4. "later" \in Callback /\ d.posts \in Seq(Callback)
        BY <1>2 DEF Callback, Calls
    <2>5. Sends(t.posts) = Sends(d.posts) + 0 /\ Laters(t.posts) = Laters(d.posts) + 1
        BY <2>3, <2>4, CountsAppend
    <2>6. Sends(t.posts) = 0
        BY <1>1, <1>4, <2>5
    <2> HIDE DEF t
    <2>7. CASE d.rpc.client = "none"
        <3>1. t.rpc.client = "none"
            BY <2>2, <2>3, <2>7 DEF c
        <3>2. Ordered(s.rpc, t)
            BY <2>6, <3>1 DEF Ordered
        <3> QED BY <3>2 DEF t
    <2>8. CASE d.rpc.client # "none"
        <3>1. d = s /\ s.rpc.connected = NoTopic
            BY <1>1, <1>4, <2>8
        <3>2. Made(s.rpc) = 0 /\ Made(t.rpc) = 1 /\ Laters(t.posts) = 1
            BY <2>2, <2>3, <2>5, <3>1, CountsEmpty DEF Made
        <3>3. Ordered(s.rpc, t)
            BY <2>6, <2>8, <3>1, <3>2 DEF Ordered
        <3> QED BY <3>3 DEF t
    <2> QED BY <2>7, <2>8
<1> QED BY <1>3, <1>4

(* topic_map_updated() posts no request, and makes no second connection. *)
LEMMA UpdatedOrdered ==
    ASSUME NEW s \in Calls, Good(s.rpc), s.posts = <<>>, NEW topic \in Topics
    PROVE  Ordered(s.rpc, topic_map_updated(s, topic))
<1>1. CASE topic = NoTopic
    <2> DEFINE t == topic_map_updated(s, topic)
    <2>1. t = [s EXCEPT !.posts = Append(s.posts, "disconnect")]
        BY <1>1 DEF topic_map_updated, Post, Calls
    <2>2. s.posts \in Seq(Callback) /\ "disconnect" \in Callback
          /\ Append(s.posts, "disconnect") \in Seq(Callback)
        BY DEF Calls, Callback
    <2> HIDE DEF t
    <2>3. t \in Calls /\ t.rpc = s.rpc /\ t.posts = Append(s.posts, "disconnect")
        BY ZenonT(30), <2>1, <2>2 DEF Calls
    <2>4. Sends(t.posts) = Sends(s.posts) + 0 /\ Laters(t.posts) = Laters(s.posts) + 0
        BY ZenonT(30), <2>2, <2>3, CountsAppend
    <2>5. Sends(t.posts) = 0 /\ Laters(t.posts) = 0
        BY <2>4, CountsEmpty
    <2>6. Ordered(s.rpc, t)
        BY <2>3, <2>5, OrderedSame
    <2> QED BY <2>6 DEF t
<1>2. CASE topic # NoTopic
    <2>1. \/ topic_map_updated(s, topic) = s
          \/ topic_map_updated(s, topic) = connect(s, topic)
        BY <1>2 DEF topic_map_updated
    <2>2. topic \in Topic
        BY <1>2 DEF Topics
    <2>3. Ordered(s.rpc, s)
        BY OrderedSame, CountsEmpty
    <2>4. Ordered(s.rpc, connect(s, topic))
        BY <1>2, <2>2, ConnectOrdered
    <2> QED BY <2>1, <2>3, <2>4
<1> QED BY <1>1, <1>2

(* Nor does on_timeout(). *)
LEMMA OnTimeoutOrdered ==
    ASSUME NEW s \in Calls, Good(s.rpc), s.posts = <<>>
    PROVE  Ordered(s.rpc, on_timeout(s))
<1>1. s.rpc.client \in {"unset", "set", "none"}
    BY DEF Good, RpcState
<1>2. CASE s.rpc.client = "set"
    BY <1>2, CleanupOrdered DEF on_timeout
<1>3. CASE s.rpc.client = "none"
    <2>1. on_timeout(s) = s
        BY <1>3 DEF on_timeout
    <2> QED BY <2>1, OrderedSame, CountsEmpty
<1>4. CASE s.rpc.client = "unset"
    <2>1. on_timeout(s) = [s EXCEPT !.raised = TRUE]
        BY <1>4 DEF on_timeout
    <2>2. on_timeout(s).raised
        BY <2>1 DEF Calls
    <2> QED BY <2>2 DEF Ordered
<1> QED BY <1>1, <1>2, <1>3, <1>4

-----------------------------------------------------------------------------
(* A step that is such a handler, and may post other callbacks too. *)
LEMMA HandlerOnce ==
    ASSUME PyInv, PyInv', OnceInv, NEW s \in Calls, Ordered(rpc, s),
           rpc'.client = s.rpc.client, rpc'.connected = s.rpc.connected,
           raced' = (raced \/ s.raised), UNCHANGED <<connects, sent>>,
           Sends(callbacks') <= Sends(callbacks) + Sends(s.posts),
           Laters(callbacks') <= Laters(callbacks) + Laters(s.posts)
    PROVE  OnceInv'
<1> SUFFICES ASSUME ~raced'
             PROVE  /\ sent' + Sends(callbacks') <= 1
                    /\ rpc'.client # "none" =>
                           sent' + Sends(callbacks') + Laters(callbacks') + connects' <= Made(rpc')
    BY DEF OnceInv
<1>1. /\ ~raced /\ Sends(s.posts) = 0
      /\ s.rpc.client # "none" =>
             rpc.client # "none" /\ Made(rpc) + Laters(s.posts) <= Made(s.rpc)
    BY ZenonT(30) DEF Ordered
<1>2. /\ sent + Sends(callbacks) <= 1
      /\ rpc.client # "none" =>
             sent + Sends(callbacks) + Laters(callbacks) + connects <= Made(rpc)
    BY <1>1 DEF OnceInv
<1>3. /\ callbacks \in Seq(Callback) /\ callbacks' \in Seq(Callback)
      /\ s.posts \in Seq(Callback) /\ sent \in Nat /\ connects \in Nat
    BY DEF PyInv, LoopOK, RpcOK, Calls
<1>4. /\ Sends(callbacks) \in Nat /\ Laters(callbacks) \in Nat /\ Laters(s.posts) \in Nat
      /\ Sends(callbacks') \in Nat /\ Laters(callbacks') \in Nat
    BY <1>3, CountsType
<1>5. Made(rpc') = Made(s.rpc) /\ Made(rpc) \in Nat /\ Made(s.rpc) \in Nat
    BY DEF Made
<1>6. sent' = sent /\ connects' = connects
    OBVIOUS
<1>7. sent' + Sends(callbacks') <= 1
    BY <1>1, <1>2, <1>3, <1>4, <1>6
<1>8. ASSUME rpc'.client # "none"
      PROVE  sent' + Sends(callbacks') + Laters(callbacks') + connects' <= Made(rpc')
    <2>1. Made(rpc) + Laters(s.posts) <= Made(s.rpc)
        BY <1>1, <1>8
    <2>2. sent + Sends(callbacks) + Laters(callbacks) + connects <= Made(rpc)
        BY <1>1, <1>2, <1>8
    <2>3. Sends(callbacks') <= Sends(callbacks)
        BY <1>1, <1>4
    <2>4. Laters(callbacks') <= Laters(callbacks) + Laters(s.posts)
        OBVIOUS
    <2>5. sent + Sends(callbacks') + Laters(callbacks') + connects <= Made(s.rpc)
        <3> DEFINE se == Sends(callbacks)  se2 == Sends(callbacks')
                   la == Laters(callbacks) la2 == Laters(callbacks')
                   po == Laters(s.posts)   ma == Made(rpc)  ma2 == Made(s.rpc)
        <3>1. /\ se \in Nat /\ se2 \in Nat /\ la \in Nat /\ la2 \in Nat /\ po \in Nat
              /\ ma \in Nat /\ ma2 \in Nat /\ sent \in Nat /\ connects \in Nat
            BY <1>3, <1>4, <1>5, ZenonT(30)
        <3>2. sent + se + la + connects <= ma /\ ma + po <= ma2 /\ se2 <= se /\ la2 <= la + po
            BY <2>1, <2>2, <2>3, <2>4, ZenonT(30)
        <3> HIDE DEF se, se2, la, la2, po, ma, ma2
        <3>3. sent + se2 + la2 + connects <= ma2
            BY <3>1, <3>2
        <3> QED BY <3>3, ZenonT(30) DEF se2, la2, ma2
    <2> QED BY <1>5, <1>6, <2>5, ZenonT(30)
<1> QED BY <1>7, <1>8

(* A step that leaves the client open or closed, and neither sends nor     *)
(* connects.                                                               *)
LEMMA SameOnce ==
    ASSUME PyInv, PyInv', OnceInv, rpc'.connected = rpc.connected,
           rpc'.client = "none" <=> rpc.client = "none",
           UNCHANGED <<raced, connects, sent>>,
           Sends(callbacks') <= Sends(callbacks), Laters(callbacks') <= Laters(callbacks)
    PROVE  OnceInv'
<1>1. /\ Sends(callbacks) \in Nat /\ Laters(callbacks) \in Nat
      /\ Sends(callbacks') \in Nat /\ Laters(callbacks') \in Nat
      /\ sent \in Nat /\ connects \in Nat
    BY CountsType DEF PyInv, LoopOK, RpcOK
<1>2. Made(rpc') = Made(rpc) /\ Made(rpc) \in Nat
    BY DEF Made
<1>3. CASE raced
    BY <1>3 DEF OnceInv
<1>4. CASE ~raced
    <2>1. /\ sent + Sends(callbacks) <= 1
          /\ rpc.client # "none" =>
                 sent + Sends(callbacks) + Laters(callbacks) + connects <= Made(rpc)
        BY <1>4 DEF OnceInv
    <2>2. sent' = sent /\ connects' = connects
        OBVIOUS
    <2>3. sent' + Sends(callbacks') <= 1
        BY <1>1, <2>1, <2>2
    <2>4. ASSUME rpc.client # "none"
          PROVE  sent' + Sends(callbacks') + Laters(callbacks') + connects' <= Made(rpc')
        <3>1. sent + Sends(callbacks) + Laters(callbacks) + connects <= Made(rpc)
            BY <2>1, <2>4
        <3> QED BY <1>1, <1>2, <2>2, <3>1
    <2> QED BY <2>3, <2>4 DEF OnceInv
<1> QED BY <1>3, <1>4

(* The steps of the caller's thread make no second request. *)
LEMMA ExecutesOnce ==
    ASSUME PyInv, PyInv', OnceInv, Executes
    PROVE  OnceInv'
<1>1. Good(rpc) /\ rpc \in RpcState /\ callbacks \in Seq(Callback)
    BY DEF PyInv, RpcOK, LoopOK, Good
<1>2. UNCHANGED <<connects, raced, sent>>
    BY DEF Executes
<1>3. rpc'.connected = rpc.connected /\ (rpc'.client = "none" <=> rpc.client = "none")
    <2>1. ASSUME NEW timeout \in BOOLEAN, Execute(timeout)
          PROVE  rpc'.connected = rpc.connected /\ rpc'.client = rpc.client
        BY <1>1, <2>1 DEF Execute, RpcState
    <2>2. ASSUME ExecuteFuture
          PROVE  rpc'.connected = rpc.connected /\ rpc'.client = rpc.client
        BY <1>1, <2>2 DEF ExecuteFuture, RpcState
    <2>3. ASSUME ExecuteConstruct
          PROVE  rpc'.connected = rpc.connected /\ rpc'.client = rpc.client
        BY <1>1, <2>3 DEF ExecuteConstruct, RpcState
    <2>4. ASSUME ExecuteReturn
          PROVE  rpc'.connected = rpc.connected /\ rpc'.client = "set" /\ rpc.client = "unset"
        <3>1. rpc.at = "constructed" /\ rpc.client = "unset"
            BY <1>1, <2>4 DEF ExecuteReturn, Good
        <3> QED BY <1>1, <2>4, <3>1 DEF ExecuteReturn, RpcState
    <2> QED BY <2>1, <2>2, <2>3, <2>4 DEF Executes
<1>4. Sends(callbacks') = Sends(callbacks) /\ Laters(callbacks') = Laters(callbacks)
    <2>1. ASSUME NEW c \in {"schedule", "observe"}, add_callback(c)
          PROVE  Sends(callbacks') = Sends(callbacks) /\ Laters(callbacks') = Laters(callbacks)
        <3>1. callbacks' = Append(callbacks, c) /\ c \in Callback
            BY <2>1 DEF add_callback, Callback
        <3>2. Sends(callbacks') = Sends(callbacks) + 0 /\ Laters(callbacks') = Laters(callbacks) + 0
            BY <1>1, <3>1, CountsAppend
        <3>3. Sends(callbacks) \in Nat /\ Laters(callbacks) \in Nat
            BY <1>1, CountsType
        <3> QED BY <3>2, <3>3
    <2>2. callbacks' = callbacks \/ add_callback("schedule") \/ add_callback("observe")
        BY DEF Executes, loopVars
    <2> QED BY <2>1, <2>2
<1>5. Sends(callbacks) \in Nat /\ Laters(callbacks) \in Nat
    BY <1>1, CountsType
<1> QED BY <1>2, <1>3, <1>4, <1>5, SameOnce

(* A callback or a timeout that only posts other callbacks, or none. *)
LEMMA QuietCounts ==
    ASSUME PyInv, NEW c \in Callback \ {"send", "later"},
           RunsCallback(c, <<>>) \/ RunsTimeout(<<>>) \/ RunsEvent("multicast", <<>>)
    PROVE  Sends(callbacks') <= Sends(callbacks) /\ Laters(callbacks') <= Laters(callbacks)
<1>1. LoopOK /\ callbacks \in Seq(Callback) /\ <<>> \in Seq(Callback)
    BY DEF PyInv, LoopOK
<1>2. /\ Sends(callbacks) \in Nat /\ Laters(callbacks) \in Nat
      /\ Sends(<<>>) = 0 /\ Laters(<<>>) = 0
    BY <1>1, CountsType, CountsEmpty
<1>3. CASE RunsCallback(c, <<>>)
    <2>1. /\ Sends(callbacks') = Sends(callbacks) + 0 - 0
          /\ Laters(callbacks') = Laters(callbacks) + 0 - 0
        BY ZenonT(30), <1>1, <1>2, <1>3, CallbackCounts
    <2> QED BY <1>2, <2>1
<1>4. CASE RunsTimeout(<<>>) \/ RunsEvent("multicast", <<>>)
    <2>1. callbacks' = callbacks \o <<>>
        BY <1>4 DEF RunsTimeout, RunsEvent
    <2>2. Sends(callbacks') = Sends(callbacks) + 0 /\ Laters(callbacks') = Laters(callbacks) + 0
        BY <1>1, <1>2, <2>1, PostsCount
    <2> QED BY <1>2, <2>2
<1> QED BY <1>3, <1>4

(* Nor does a step that leaves requests and connections alone. *)
LEMMA QuietOnce ==
    ASSUME PyInv, PyInv', OnceInv,
           \/ ScheduleCallback \/ UnobserveCallback \/ PollCallback
           \/ SearchTimeout \/ Loops \/ UNCHANGED vars
    PROVE  OnceInv'
<1>1. Sends(callbacks) \in Nat /\ Laters(callbacks) \in Nat
    BY CountsType DEF PyInv, LoopOK
<1>2. CASE ScheduleCallback
    <2>1. rpc'.client = rpc.client /\ rpc'.connected = rpc.connected
        BY <1>2 DEF ScheduleCallback, schedule_timeout, PyInv, RpcOK, Good, RpcState
    <2>2. Sends(callbacks') <= Sends(callbacks) /\ Laters(callbacks') <= Laters(callbacks)
        BY <1>2, QuietCounts DEF ScheduleCallback, Callback
    <2> QED BY <1>2, <2>1, <2>2, SameOnce DEF ScheduleCallback
<1>3. CASE UnobserveCallback
    <2>1. Sends(callbacks') <= Sends(callbacks) /\ Laters(callbacks') <= Laters(callbacks)
        BY <1>3, QuietCounts DEF UnobserveCallback, Callback
    <2> QED BY <1>3, <2>1, SameOnce DEF UnobserveCallback, rpcVars
<1>4. CASE PollCallback
    <2>1. Sends(callbacks') <= Sends(callbacks) /\ Laters(callbacks') <= Laters(callbacks)
        BY <1>4, QuietCounts DEF PollCallback, Callback
    <2> QED BY <1>4, <2>1, SameOnce DEF PollCallback, rpcVars
<1>5. CASE SearchTimeout
    <2>1. Sends(callbacks') <= Sends(callbacks) /\ Laters(callbacks') <= Laters(callbacks)
        BY <1>5, QuietCounts DEF SearchTimeout, Callback
    <2> QED BY <1>5, <2>1, SameOnce DEF SearchTimeout, rpcVars
<1>6. CASE Loops \/ UNCHANGED vars
    <2>1. callbacks' = callbacks /\ UNCHANGED rpcVars
        BY <1>6 DEF Loops, Iterates, vars, loopVars
    <2> QED BY <1>1, <2>1, SameOnce DEF rpcVars
<1> QED BY <1>2, <1>3, <1>4, <1>5, <1>6

(* _send() turns a request that waits into one that was sent, or drops it. *)
LEMMA SendOnce ==
    ASSUME PyInv, PyInv', OnceInv, SendCallback
    PROVE  OnceInv'
<1>1. LoopOK /\ callbacks \in Seq(Callback) /\ <<>> \in Seq(Callback)
      /\ sent \in Nat /\ connects \in Nat /\ rpc \in RpcState
    BY DEF PyInv, LoopOK, RpcOK, Good
<1>2. /\ Sends(callbacks) \in Nat /\ Laters(callbacks) \in Nat
      /\ Sends(<<>>) = 0 /\ Laters(<<>>) = 0
    BY <1>1, CountsType, CountsEmpty
<1>3. RunsCallback("send", <<>>)
    BY DEF SendCallback
<1>4. /\ Sends(callbacks') = Sends(callbacks) + 0 - 1
      /\ Laters(callbacks') = Laters(callbacks) + 0 - 0
    BY ZenonT(30), <1>1, <1>2, <1>3, CallbackCounts
<1>5. /\ sent' \in {sent, sent + 1} /\ connects' = connects /\ raced' = raced
      /\ rpc'.client = rpc.client /\ rpc'.connected = rpc.connected
    BY <1>1 DEF SendCallback, send, RpcState
<1>6. Made(rpc') = Made(rpc) /\ Made(rpc) \in Nat
    BY <1>5 DEF Made
<1>7. CASE raced
    BY <1>5, <1>7 DEF OnceInv
<1>8. CASE ~raced
    <2>1. sent' + Sends(callbacks') <= 1
        BY <1>1, <1>2, <1>4, <1>5, <1>8 DEF OnceInv
    <2>2. ASSUME rpc.client # "none"
          PROVE  sent' + Sends(callbacks') + Laters(callbacks') + connects' <= Made(rpc')
        <3>1. sent + Sends(callbacks) + Laters(callbacks) + connects <= Made(rpc)
            BY <1>8, <2>2 DEF OnceInv
        <3> QED BY <1>1, <1>2, <1>4, <1>5, <1>6, <3>1
    <2> QED BY <1>5, <2>1, <2>2 DEF OnceInv
<1> QED BY <1>7, <1>8

(* Nor does the callback that connects later. *)
LEMMA LaterOnce ==
    ASSUME PyInv, PyInv', OnceInv, LaterCallback
    PROVE  OnceInv'
<1>1. LoopOK /\ callbacks \in Seq(Callback) /\ <<>> \in Seq(Callback)
      /\ sent \in Nat /\ connects \in Nat
    BY DEF PyInv, LoopOK, RpcOK
<1>2. /\ Sends(callbacks) \in Nat /\ Laters(callbacks) \in Nat
      /\ Sends(<<>>) = 0 /\ Laters(<<>>) = 0
    BY <1>1, CountsType, CountsEmpty
<1>3. RunsCallback("later", <<>>) /\ connects' = connects + 1 /\ UNCHANGED <<rpc, raced, sent>>
    BY DEF LaterCallback
<1>4. /\ Sends(callbacks') = Sends(callbacks) + 0 - 0
      /\ Laters(callbacks') = Laters(callbacks) + 0 - 1
    BY ZenonT(30), <1>1, <1>2, <1>3, CallbackCounts
<1>5. /\ Sends(callbacks') = Sends(callbacks)
      /\ Laters(callbacks') + connects' = Laters(callbacks) + connects
    BY <1>1, <1>2, <1>3, <1>4
<1>6. sent + Sends(callbacks) + Laters(callbacks') + connects' =
          sent + Sends(callbacks) + Laters(callbacks) + connects
    BY <1>1, <1>2, <1>3, <1>4
<1> QED BY <1>3, <1>5, <1>6 DEF OnceInv, Made

(* _on_connect() turns the timeout of a connection into a request. *)
LEMMA ConnectTimeoutOnce ==
    ASSUME PyInv, PyInv', OnceInv, ConnectTimeout
    PROVE  OnceInv'
<1> DEFINE s == on_connect(Call(rpc))
<1>1. /\ LoopOK /\ callbacks \in Seq(Callback) /\ <<>> \in Seq(Callback)
      /\ sent \in Nat /\ connects \in Nat /\ rpc \in RpcState
      /\ rpc.client \in {"unset", "set", "none"} /\ Good(rpc)
    BY DEF PyInv, LoopOK, RpcOK, Good, RpcState
<1>2. /\ connects > 0 /\ connects' = connects - 1 /\ sent' = sent
      /\ callbacks' = callbacks \o s.posts
      /\ rpc' = s.rpc /\ raced' = (raced \/ s.raised)
    BY DEF ConnectTimeout, RunsTimeout, Done
<1>3. Call(rpc) \in Calls /\ Call(rpc).rpc = rpc /\ Call(rpc).posts = <<>> /\ ~Call(rpc).raised
    BY <1>1, CallStarts
<1>4. s \in Calls /\ s.posts \in Seq(Callback)
    BY <1>1, <1>3, OnConnectKeeps DEF Calls
<1>5. /\ Sends(callbacks') = Sends(callbacks) + Sends(s.posts)
      /\ Laters(callbacks') = Laters(callbacks) + Laters(s.posts)
    BY ZenonT(30), <1>1, <1>2, <1>4, PostsCount
<1>6. Sends(callbacks) \in Nat /\ Laters(callbacks) \in Nat
    BY <1>1, CountsType
<1>7. CASE rpc.client = "unset" \/ (rpc.client = "set" /\ rpc.stream = NoTopic)
    <2>1. s = [Call(rpc) EXCEPT !.raised = TRUE]
        BY ZenonT(30), <1>3, <1>7 DEF on_connect, request
    <2>2. s.raised
        BY <1>3, <2>1 DEF Calls
    <2> HIDE DEF s
    <2>3. raced'
        BY ZenonT(30), <1>2, <2>2
    <2> QED BY <2>3 DEF OnceInv
<1>8. CASE rpc.client = "none"
    <2>1. s = Call(rpc)
        BY <1>3, <1>8 DEF on_connect
    <2> HIDE DEF s
    <2>2. rpc'.client = "none" /\ (~raced' => ~raced)
        BY ZenonT(30), <1>2, <1>3, <1>8, <2>1
    <2>3. Sends(callbacks') = Sends(callbacks)
        BY <1>3, <1>5, <1>6, <2>1, CountsEmpty
    <2> QED BY <1>2, <2>2, <2>3 DEF OnceInv
<1>9. CASE rpc.client = "set" /\ rpc.stream # NoTopic
    <2> DEFINE d == [rpc EXCEPT !.receiving = TRUE]
    <2>1. s = [Call(rpc) EXCEPT !.rpc = d, !.posts = Append(<<>>, "send")]
        BY ZenonT(30), <1>3, <1>9 DEF on_connect, request, Post, Calls
    <2>2. d.client = "set" /\ d.connected = rpc.connected
        BY <1>1, <1>9 DEF RpcState
    <2> HIDE DEF s, d
    <2>3. s.rpc = d /\ s.posts = Append(<<>>, "send") /\ ~s.raised
        BY <1>3, <2>1 DEF Calls
    <2>4. "send" \in Callback
        BY DEF Callback
    <2>5. Sends(s.posts) = Sends(<<>>) + 1 /\ Laters(s.posts) = Laters(<<>>) + 0
        BY ZenonT(30), <1>1, <2>3, <2>4, CountsAppend
    <2>6. Sends(callbacks') = Sends(callbacks) + 1 /\ Laters(callbacks') = Laters(callbacks)
        BY <1>5, <1>6, <2>5, CountsEmpty
    <2>7. Made(rpc') = Made(rpc) /\ Made(rpc) \in {0, 1}
        BY <1>2, <2>2, <2>3 DEF Made
    <2>8. CASE raced
        BY ZenonT(30), <1>2, <2>8 DEF OnceInv
    <2>9. CASE ~raced
        <3>1. sent + Sends(callbacks) + Laters(callbacks) + connects <= Made(rpc)
            BY <1>9, <2>9 DEF OnceInv
        <3>2. sent' + Sends(callbacks') + Laters(callbacks') + connects' <= Made(rpc')
            BY <1>1, <1>2, <1>6, <2>6, <2>7, <3>1
        <3>3. sent' + Sends(callbacks') <= 1
            BY <1>1, <1>2, <1>6, <2>6, <2>7, <3>1
        <3> QED BY <3>2, <3>3 DEF OnceInv
    <2> QED BY <2>8, <2>9
<1> QED BY <1>1, <1>7, <1>8, <1>9

(* query_poll() adds neither. *)
LEMMA PollCounts ==
    ASSUME NEW q \in Seq(Callback)
    PROVE  /\ Append(q, "poll") \in Seq(Callback)
           /\ Sends(Append(q, "poll")) = Sends(q) /\ Laters(Append(q, "poll")) = Laters(q)
<1>1. "poll" \in Callback
    BY DEF Callback
<1>2. Sends(Append(q, "poll")) = Sends(q) + 0 /\ Laters(Append(q, "poll")) = Laters(q) + 0
    BY <1>1, CountsAppend
<1> QED BY <1>1, <1>2, CountsType

(* Nor does the callback that observes the topic. *)
LEMMA ObserveOnce ==
    ASSUME PyInv, PyInv', OnceInv, ObserveCallback
    PROVE  OnceInv'
<1> DEFINE s == IF DOMAIN network = {}
                  THEN Call(rpc)
                  ELSE topic_map_updated(Call(rpc), newest(network))
           c == s.rpc
           t == [s EXCEPT !.rpc.ref = TRUE]
           posts == Append(s.posts, "poll")
<1>1. Good(rpc) /\ rpc \in RpcState /\ LoopOK /\ callbacks \in Seq(Callback)
    BY DEF PyInv, RpcOK, Good, LoopOK
<1>2. UNCHANGED <<connects, sent>> /\ Done(t) /\ RunsCallback("observe", posts)
    BY DEF ObserveCallback
<1>3. Call(rpc) \in Calls /\ Call(rpc).rpc = rpc /\ Call(rpc).posts = <<>> /\ ~Call(rpc).raised
    BY <1>1, CallStarts
<1>4. s \in Calls /\ Ordered(rpc, s)
    <2>1. newest(network) \in Topics
        BY NewestIsTopic DEF PyInv, DirectoryOK
    <2>2. /\ topic_map_updated(Call(rpc), newest(network)) \in Calls
          /\ Ordered(rpc, topic_map_updated(Call(rpc), newest(network)))
        BY <1>1, <1>3, <2>1, UpdatedKeeps, UpdatedOrdered
    <2>3. Ordered(rpc, Call(rpc))
        BY <1>3, OrderedSame, CountsEmpty
    <2> QED BY <1>3, <2>2, <2>3
<1> HIDE DEF s
<1>5. c \in RpcState /\ s.posts \in Seq(Callback) /\ s.raised \in BOOLEAN
    BY <1>4 DEF Calls
<1>6. rpc' = [c EXCEPT !.ref = TRUE] /\ raced' = (raced \/ s.raised)
    BY <1>2, <1>4 DEF Done, Calls
<1> HIDE DEF c
<1>7. rpc'.client = c.client /\ rpc'.connected = c.connected
    BY <1>5, <1>6 DEF RpcState
<1>8. posts \in Seq(Callback) /\ Sends(posts) = Sends(s.posts) /\ Laters(posts) = Laters(s.posts)
    BY <1>5, PollCounts
<1> HIDE DEF posts
<1>9. /\ Sends(callbacks') = Sends(callbacks) + Sends(posts) - 0
      /\ Laters(callbacks') = Laters(callbacks) + Laters(posts) - 0
    BY <1>1, <1>2, <1>8, CallbackCounts
<1>10. /\ Sends(callbacks) \in Nat /\ Laters(callbacks) \in Nat
       /\ Sends(s.posts) \in Nat /\ Laters(s.posts) \in Nat
    BY <1>1, <1>5, CountsType
<1>11. /\ Sends(callbacks') <= Sends(callbacks) + Sends(s.posts)
       /\ Laters(callbacks') <= Laters(callbacks) + Laters(s.posts)
    BY <1>8, <1>9, <1>10
<1> QED BY <1>2, <1>4, <1>6, <1>7, <1>11, HandlerOnce DEF c

(* Nor does the callback that disconnects. *)
LEMMA DisconnectOnce ==
    ASSUME PyInv, PyInv', OnceInv, DisconnectCallback
    PROVE  OnceInv'
<1> DEFINE s == disconnect(Call(rpc))
<1>1. Good(rpc) /\ rpc \in RpcState /\ LoopOK /\ callbacks \in Seq(Callback)
    BY DEF PyInv, RpcOK, Good, LoopOK
<1>2. UNCHANGED <<connects, sent>> /\ Done(s) /\ RunsCallback("disconnect", s.posts)
    BY DEF DisconnectCallback
<1>3. s \in Calls /\ Ordered(rpc, s)
    BY <1>1, CallStarts, DisconnectKeeps, DisconnectOrdered
<1> HIDE DEF s
<1>4. s.posts \in Seq(Callback)
    BY <1>3 DEF Calls
<1>5. /\ Sends(callbacks') = Sends(callbacks) + Sends(s.posts) - 0
      /\ Laters(callbacks') = Laters(callbacks) + Laters(s.posts) - 0
    BY <1>1, <1>2, <1>4, CallbackCounts
<1>6. /\ Sends(callbacks) \in Nat /\ Laters(callbacks) \in Nat
      /\ Sends(s.posts) \in Nat /\ Laters(s.posts) \in Nat
    BY <1>1, <1>4, CountsType
<1>7. /\ Sends(callbacks') <= Sends(callbacks) + Sends(s.posts)
      /\ Laters(callbacks') <= Laters(callbacks) + Laters(s.posts)
    BY <1>5, <1>6
<1> QED BY <1>2, <1>3, <1>7, HandlerOnce DEF Done

(* A timeout or an event that is such a handler. *)
LEMMA PostingOnce ==
    ASSUME PyInv, PyInv', OnceInv, NEW s \in Calls, Ordered(rpc, s), Done(s),
           UNCHANGED <<connects, sent>>, NEW posts \in {s.posts, Append(s.posts, "poll")},
           callbacks' = callbacks \o posts
    PROVE  OnceInv'
<1>1. LoopOK /\ callbacks \in Seq(Callback) /\ s.posts \in Seq(Callback)
    BY DEF PyInv, LoopOK, Calls
<1>2. posts \in Seq(Callback) /\ Sends(posts) = Sends(s.posts) /\ Laters(posts) = Laters(s.posts)
    BY ZenonT(30), <1>1, PollCounts
<1>3. /\ Sends(callbacks') = Sends(callbacks) + Sends(posts)
      /\ Laters(callbacks') = Laters(callbacks) + Laters(posts)
    BY ZenonT(30), <1>1, <1>2, PostsCount
<1>4. /\ Sends(callbacks) \in Nat /\ Laters(callbacks) \in Nat
      /\ Sends(s.posts) \in Nat /\ Laters(s.posts) \in Nat
    BY <1>1, CountsType
<1>5. /\ Sends(callbacks') <= Sends(callbacks) + Sends(s.posts)
      /\ Laters(callbacks') <= Laters(callbacks) + Laters(s.posts)
    BY <1>2, <1>3, <1>4
<1> QED BY <1>5, HandlerOnce DEF Done

(* Nor does the timeout of the request. *)
LEMMA RequestTimeoutOnce ==
    ASSUME PyInv, PyInv', OnceInv, RequestTimeout
    PROVE  OnceInv'
<1> DEFINE r == [rpc EXCEPT !.timer = FALSE]
           t == [Call(rpc) EXCEPT !.rpc.timer = FALSE]
           s == on_timeout(t)
<1>1. Good(rpc) /\ rpc \in RpcState
    BY DEF PyInv, RpcOK, Good
<1>2. UNCHANGED <<connects, sent>> /\ Done(s) /\ callbacks' = callbacks \o s.posts
    BY DEF RequestTimeout, RunsTimeout
<1>3. /\ r \in RpcState /\ r.at = rpc.at /\ r.client = rpc.client
      /\ r.future = rpc.future /\ r.receiving = rpc.receiving
      /\ r.connected = rpc.connected /\ r.scheduled = rpc.scheduled /\ ~r.timer
    BY ZenonT(30), <1>1 DEF RpcState
<1>4. t \in Calls /\ t.rpc = r /\ t.posts = <<>>
    <2>1. Call(rpc) \in Calls /\ Call(rpc).rpc = rpc /\ Call(rpc).posts = <<>>
        BY <1>1, CallStarts
    <2>2. t = [Call(rpc) EXCEPT !.rpc = r]
        BY <2>1
    <2> HIDE DEF r, t
    <2> QED BY <1>3, <2>1, <2>2 DEF Calls
<1> HIDE DEF r, t
<1>5. Good(r)
    BY <1>1, <1>3 DEF Good
<1>6. s \in Calls /\ Ordered(r, s)
    BY <1>4, <1>5, OnTimeoutKeeps, OnTimeoutOrdered
<1> HIDE DEF s
<1>7. Made(r) = Made(rpc)
    BY <1>3 DEF Made
<1>8. Ordered(rpc, s)
    BY <1>3, <1>6, <1>7 DEF Ordered
<1> QED BY <1>2, <1>6, <1>8, PostingOnce

(* What the observers do with the newest topic of a map. *)
LEMMA ObserversOrdered ==
    ASSUME PyInv, NEW map, \A g \in DOMAIN map : map[g] \in Topic
    PROVE  /\ call_observers(Call(rpc), map) \in Calls
           /\ Ordered(rpc, call_observers(Call(rpc), map))
<1>1. rpc \in RpcState /\ Good(rpc)
    BY DEF PyInv, RpcOK, Good
<1>2. Call(rpc) \in Calls /\ Call(rpc).rpc = rpc /\ Call(rpc).posts = <<>>
    BY <1>1, CallStarts
<1>3. newest(map) \in Topics
    BY NewestIsTopic
<1>4. CASE observers = "handler"
    <2>1. call_observers(Call(rpc), map) = topic_map_updated(Call(rpc), newest(map))
        BY <1>4 DEF call_observers
    <2> QED BY <1>1, <1>2, <1>3, <2>1, UpdatedKeeps, UpdatedOrdered
<1>5. CASE observers # "handler"
    <2>1. call_observers(Call(rpc), map) = Call(rpc)
        BY <1>5 DEF call_observers
    <2> QED BY <1>2, <2>1, OrderedSame, CountsEmpty
<1> QED BY <1>4, <1>5

(* Nor does a packet that offers a topic. *)
LEMMA AvailableOnce ==
    ASSUME PyInv, PyInv', OnceInv, NEW g \in Guids, NEW address \in Addresses,
           Available(g, address)
    PROVE  OnceInv'
<1> DEFINE known == g \in DOMAIN network /\ network[g].address = address
           topic == [address |-> address, timestamp |-> packets + 1]
           map   == [h \in DOMAIN network \cup {g} |-> IF h = g THEN topic ELSE network[h]]
           s     == call_observers(Call(rpc), map)
<1>1. UNCHANGED <<connects, sent>> /\ packets < MaxPackets
    BY DEF Available
<1>2. CASE known
    <2>1. UNCHANGED <<rpc, raced>> /\ RunsEvent("multicast", <<>>)
        BY <1>2 DEF Available
    <2>2. Sends(callbacks') <= Sends(callbacks) /\ Laters(callbacks') <= Laters(callbacks)
        BY <2>1, QuietCounts DEF Callback
    <2> QED BY <1>1, <2>1, <2>2, SameOnce
<1>3. CASE ~known
    <2>1. Done(s) /\ callbacks' = callbacks \o s.posts
        BY <1>3 DEF Available, RunsEvent
    <2>2. topic \in Topic
        BY <1>1, PyAssumption DEF PyInv, DirectoryOK, Topic
    <2>3. \A h \in DOMAIN map : map[h] \in Topic
        <3> HIDE DEF topic
        <3> QED BY <2>2 DEF PyInv, DirectoryOK
    <2> HIDE DEF map
    <2>4. s \in Calls /\ Ordered(rpc, s)
        BY <2>3, ObserversOrdered
    <2> HIDE DEF s
    <2> QED BY <1>1, <2>1, <2>4, PostingOnce
<1> QED BY <1>2, <1>3

(* Nor does a packet that withdraws one. *)
LEMMA GoneOnce ==
    ASSUME PyInv, PyInv', OnceInv, NEW g \in Guids, Gone(g)
    PROVE  OnceInv'
<1> DEFINE map == Without(network, g)
           s   == IF g \in DOMAIN network THEN call_observers(Call(rpc), map) ELSE Call(rpc)
           posts == IF s.raised THEN s.posts ELSE Append(s.posts, "poll")
<1>1. UNCHANGED <<connects, sent>> /\ Done(s) /\ callbacks' = callbacks \o posts
    BY DEF Gone, RunsEvent
<1>2. \A h \in DOMAIN map : map[h] \in Topic
    BY DEF PyInv, DirectoryOK, Without
<1> HIDE DEF map
<1>3. s \in Calls /\ Ordered(rpc, s)
    <2>1. rpc \in RpcState
        BY DEF PyInv, RpcOK, Good
    <2>2. Call(rpc) \in Calls /\ Ordered(rpc, Call(rpc))
        BY <2>1, CallStarts, OrderedSame, CountsEmpty
    <2> QED BY <1>2, <2>2, ObserversOrdered
<1> HIDE DEF s
<1>4. posts \in {s.posts, Append(s.posts, "poll")}
    OBVIOUS
<1> HIDE DEF posts
<1> QED BY ZenonT(30), <1>1, <1>3, <1>4, PostingOnce

(* Nor does a reply. *)
LEMMA ReplyOnce ==
    ASSUME PyInv, PyInv', OnceInv, NEW good \in BOOLEAN, Reply(good)
    PROVE  OnceInv'
<1> DEFINE s == on_reply(Call(rpc), good)
<1>1. Good(rpc) /\ rpc \in RpcState
    BY DEF PyInv, RpcOK, Good
<1>2. UNCHANGED <<connects, sent>> /\ rpc.receiving /\ Done(s) /\ callbacks' = callbacks \o s.posts
    BY DEF Reply, RunsEvent
<1>3. rpc.client = "set"
    BY <1>1, <1>2 DEF Good
<1>4. Call(rpc) \in Calls /\ Call(rpc).rpc = rpc /\ Call(rpc).posts = <<>>
    BY <1>1, CallStarts
<1>5. s \in {cleanup(Call(rpc)), Fulfilled(cleanup(Call(rpc)), "result")}
    BY DEF on_reply
<1>6. s \in Calls
    BY ZenonT(30), <1>1, <1>3, <1>4, <1>5, CleanupKeeps, OutcomeKeeps
<1> HIDE DEF s
<1>7. Ordered(rpc, s)
    BY <1>4, <1>5, CleanupOrdered
<1> QED BY <1>2, <1>6, <1>7, PostingOnce

(* No step makes a second request. *)
LEMMA NextOnce == PyInv /\ PyInv' /\ OnceInv /\ [Next]_vars => OnceInv'
<1> SUFFICES ASSUME PyInv, PyInv', OnceInv, [Next]_vars PROVE OnceInv'
    OBVIOUS
<1>1. CASE Executes
    BY <1>1, ExecutesOnce
<1>2. CASE Callbacks
    BY <1>2, QuietOnce, ObserveOnce, DisconnectOnce, SendOnce, LaterOnce DEF Callbacks
<1>3. CASE SearchTimeout \/ Loops \/ UNCHANGED vars
    BY <1>3, QuietOnce
<1>4. CASE ConnectTimeout
    BY <1>4, ConnectTimeoutOnce
<1>5. CASE RequestTimeout
    BY <1>5, RequestTimeoutOnce
<1>6. CASE Packets
    BY <1>6, AvailableOnce, GoneOnce DEF Packets
<1>7. ASSUME NEW good \in BOOLEAN, Reply(good) PROVE OnceInv'
    BY <1>7, ReplyOnce
<1> QED BY <1>1, <1>2, <1>3, <1>4, <1>5, <1>6, <1>7 DEF Next

(* A request is put on a stream at most once, however often servers come,  *)
(* move and go, unless a handler has failed because it ran before          *)
(* execute() had set _request_client.                                      *)
THEOREM PySentAtMostOnce == Spec => []SentAtMostOnce
<1>1. Init => OnceInv
    BY CountsEmpty DEF Init, LoopInit, RpcInit, OnceInv, Made
<1>2. PyInv /\ OnceInv => SentAtMostOnce
    <2> SUFFICES ASSUME PyInv, OnceInv, ~raced PROVE sent <= 1
        BY DEF SentAtMostOnce
    <2>1. sent \in Nat /\ Sends(callbacks) \in Nat
        BY CountsType DEF PyInv, LoopOK, RpcOK
    <2>2. sent + Sends(callbacks) <= 1
        BY DEF OnceInv
    <2> QED BY <2>1, <2>2
<1> QED BY <1>1, <1>2, NextOnce, PyInvariant, PTL DEF Spec
=============================================================================
