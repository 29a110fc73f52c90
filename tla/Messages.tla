------------------------------ MODULE Messages ------------------------------
(***************************************************************************)
(* From the builders of one node to the handler of another: the node of    *)
(* SmartCapnpBuilder publishes what it builds, and the subscriber of       *)
(* Socket reads it.                                                        *)
(***************************************************************************)
EXTENDS SmartCapnpBuilder, Socket

CONSTANTS
    SubscriberType,     \* the type of registerCapnpSubscriber()
    RawBuffers,         \* the raw buffers users append: sequences of parts
    MaxMessages,        \* bound: messages sent in a behaviour
    MaxCalls            \* bound: calls of builders in a behaviour

ASSUME MessagesAssumption == RawBuffers \subseteq Seq(Seq(Nat))

VARIABLES
    sent,       \* the messages taken so far: type, segments and raw buffers
    arrived,    \* how many of them have been delivered or lost
    last,       \* what the handler last read, and of which message
    calls,      \* calls of builders so far
    deaf        \* a receive has failed or a handler has thrown

vars == <<builderVars, socketVars, sent, arrived, last, calls, deaf>>

Nothing == [n |-> 0]

Init ==
    /\ BuilderInit
    /\ SocketInit
    /\ sent = <<>>
    /\ arrived = <<>>
    /\ last = Nothing
    /\ calls = 0
    /\ deaf = FALSE

(* the user of the pool, on the thread of the node *)
Build ==
    /\ calls < MaxCalls
    /\ calls' = calls + 1
    /\ \E b \in Builders :
          \/ NewBuilder(b)
          \/ Destroy(b)
          \/ \E type \in Types : initRoot(b, type)
          \/ \E usePool \in BOOLEAN : grow(b, usePool)
          \/ \E c \in Builders : move(b, c)
    /\ UNCHANGED <<socketVars, sent, arrived, last, deaf>>

(* getSmartMessage(), with raw buffers, to send() *)
smartMessage(b, raw) ==
    <<<<builders[b].id>>, body(segmentsForOutput(b))>> \o raw

Send(b, raw) ==
    /\ builders[b].alive
    /\ Len(sent) < MaxMessages
    /\ free \cap OsBuffers # {}
    /\ \E buffer \in bodyBuffers(b) :
          \/ /\ sendTaken([parts |-> smartMessage(b, raw), buffer |-> buffer])
             /\ free' = free \ {buffer}
             /\ sent' = Append(sent, [id |-> builders[b].id,
                                      segments |-> segmentsForOutput(b), raw |-> raw])
          \/ sendRefused /\ UNCHANGED <<free, sent>>
    /\ UNCHANGED <<builders, moved, arrived, last, calls, deaf>>

(* BufferPool::zmqFree() *)
zmqFree == free' = (free \cup {Head(pipe).buffer}) \ {NoBuffer}

Zmq ==
    /\ Transmit \/ Lose
    /\ zmqFree
    /\ arrived' = IF inbox' # inbox
                    THEN Append(arrived, Len(sent) - Len(pipe) + 1)
                    ELSE arrived
    /\ UNCHANGED <<builders, moved, sent, last, calls, deaf>>

(* Cap'n Proto's FlatArrayMessageReader, on the copy SmartCapnpReader makes *)
segmentsOf(halves) ==
    LET n == halves[1] + 1
        offset[i \in 1..n] ==
            IF i = 1 THEN n \div 2 + 1 ELSE offset[i - 1] + halves[i]
    IN  [i \in 1..n |-> [w \in 1..halves[i + 1] |-> halves[2 * (offset[i] + w)]]]

(* SmartMessageReader::bufferAt(): position 0 is the body *)
bufferAt(parts, pos) == parts[pos + 2]

(* what the handler reads with SmartMessageReader *)
read(parts) ==
    [id       |-> parts[1][1],
     segments |-> segmentsOf(parts[2]),
     raw      |-> [pos \in 1..Len(parts) - 2 |-> bufferAt(parts, pos)]]

Handle ==
    /\ \/ /\ onReceiveMore
          /\ UNCHANGED <<arrived, last>>
       \/ /\ onReceiveHandled(SubscriberType)
          /\ arrived' = Tail(arrived)
          /\ last' = [n |-> Head(arrived), is |-> read(kept(Head(inbox).data))]
       \/ /\ onReceiveReported
          /\ arrived' = Tail(arrived)
          /\ UNCHANGED last
    /\ UNCHANGED <<builderVars, sent, calls, deaf>>

Fail ==
    /\ \/ onReceiveThrows /\ arrived' = Tail(arrived)
       \/ onReceiveError /\ UNCHANGED arrived
    /\ deaf' = TRUE
    /\ UNCHANGED <<builderVars, sent, last, calls>>

Others ==
    /\ FreshErrorCode \/ Restart
    /\ UNCHANGED <<builderVars, sent, arrived, last, calls, deaf>>

Next ==
    \/ Build
    \/ \E b \in Builders, raw \in RawBuffers : Send(b, raw)
    \/ Zmq
    \/ Handle
    \/ Fail
    \/ Others

(* ZeroMQ's thread and the subscriber's loop go on. *)
Spec == Init /\ [][Next]_vars /\ WF_vars(Zmq) /\ WF_vars(Handle)

-----------------------------------------------------------------------------
ArenaBuffers(b) == BuffersOf(builders[b].arena)

PipeBuffers == BuffersOf(pipe) \ {NoBuffer}

(* No buffer has two users: the segments of a builder, also of one that    *)
(* was moved from, are not free and are in no other builder and in no      *)
(* message on its way, however builders are moved and destroyed; and a     *)
(* segment that the pool would not take is one of ::malloc.                *)
BuffersExclusive ==
    /\ \A b \in Builders :
          /\ ArenaBuffers(b) \cap (free \cup PipeBuffers) = {}
          /\ \A c \in Builders \ {b} : ArenaBuffers(b) \cap ArenaBuffers(c) = {}
          /\ \A i, j \in DOMAIN builders[b].arena :
                builders[b].arena[i].buffer = builders[b].arena[j].buffer => i = j
    /\ PipeBuffers \cap free = {}
    /\ \A i, j \in DOMAIN pipe :
          pipe[i].buffer = pipe[j].buffer => i = j \/ pipe[i].buffer = NoBuffer
    /\ \A b \in Builders :
          \A q \in {builders[b].first, builders[b].more} : \A i \in 1..Len(q) :
              q[i].pooled \/ q[i].buffer \in OsBuffers

(* Every buffer is free or has a user, unless a builder was moved: the     *)
(* segments of a moved builder are lost to the pool.                       *)
LeaksOnlyByMove ==
    moved \/ Buffers = free \cup PipeBuffers \cup UNION {ArenaBuffers(b) : b \in Builders}

(* The handler reads the type, the segments and, from position 1 of        *)
(* bufferAt() on, the raw buffers, less the empty ones, that the builder   *)
(* had when it was sent, although it may have been given another root,     *)
(* moved or destroyed since.                                               *)
ReadsWhatWasBuilt ==
    last # Nothing =>
        LET s == sent[last.n]
        IN  last.is = [s EXCEPT !.raw = NotEmpty(s.raw)]

(* bufferAt(): "pos = 1 will always be the capnp struct, additional        *)
(* buffers will be available starting at pos=2", in the message that a     *)
(* handler is called with.                                                 *)
StructIsAtOne ==
    [][last' # last =>
          bufferAt(kept(Head(inbox).data), 1) = body(sent[Head(arrived)].segments)]_vars

(* The parts of two messages never mix: what has been received is the      *)
(* beginning of the message that is arriving, unless the subscriber is     *)
(* deaf.                                                                   *)
PartsDoNotMix ==
    ~deaf /\ received # <<>> =>
        /\ arrived # <<>>
        /\ received[1] = <<sent[Head(arrived)].id>>
        /\ Len(received) > 1 => received[2] = body(sent[Head(arrived)].segments)

(* Every part that arrives is taken, unless a receive has failed or a      *)
(* handler has thrown: then the subscriber is deaf for ever, also when its *)
(* node is started again.                                                  *)
InboxDrains == inbox # <<>> ~> inbox = <<>> \/ deaf
=============================================================================
