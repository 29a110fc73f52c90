--------------------------- MODULE CharacterDevice ---------------------------
(***************************************************************************)
(* a17/utils/character_device with serial_port: a queue of send buffers    *)
(* from a pool, written to the port one at a time and piece by piece.      *)
(* Everything runs on the thread of one loop.  A byte is <<m, i>>, the     *)
(* i-th byte of message m.  The pool is what FreeList promises: a queue of *)
(* free buffers, and buffers of the operating system when it is empty.     *)
(***************************************************************************)
EXTENDS Naturals, Sequences, FiniteSets

CONSTANTS
    BufferSize,       \* pool_.bufferSize()
    PoolBuffers,      \* the buffers of pool_
    OsBuffer,         \* a buffer of ::malloc
    HighWaterMarks,   \* the marks users set
    Sizes,            \* the sizes of messages users send
    MaxMessages       \* bound: messages in a behaviour

ASSUME DeviceAssumption ==
    /\ BufferSize \in Nat \ {0}
    /\ IsFiniteSet(PoolBuffers)
    /\ OsBuffer \notin PoolBuffers
    /\ HighWaterMarks \subseteq Nat
    /\ Sizes \subseteq Nat
    /\ MaxMessages \in Nat

VARIABLES
    port,         \* port_: it was opened
    reads,        \* reads under way on the port
    readsDone,    \* their completions that onReceive() has to handle
    writes,       \* writes under way on the port: the bytes of each
    sendBuffers,  \* sendBuffers_
    highWaterMark, \* highWaterMark_
    free,         \* the free buffers of pool_, oldest first
    copying,      \* what send() has still to copy
    messages,     \* messages passed to send() so far
    accepted,     \* the bytes that were queued, in order
    wire,         \* the bytes the port has taken, in order
    failed        \* a write has failed

deviceVars == <<port, reads, readsDone, writes, sendBuffers, highWaterMark, free,
                copying, messages, accepted, wire, failed>>

(* SendBuffer::cbuffer(): what is left to send *)
cbuffer(b) == SubSeq(b.data, b.pos + 1, Len(b.data))

asyncSend(q) == writes' = Append(writes, cbuffer(Head(q)))

(* SerialPort::SerialPort(): no port when the device cannot be opened *)
DeviceInit ==
    /\ port \in BOOLEAN
    /\ reads = IF port THEN 1 ELSE 0
    /\ readsDone = 0
    /\ writes = <<>>
    /\ sendBuffers = <<>>
    /\ free \in [1..Cardinality(PoolBuffers) -> PoolBuffers]
    /\ \A i, j \in DOMAIN free : free[i] = free[j] => i = j
    /\ highWaterMark \in HighWaterMarks
    /\ copying = <<>>
    /\ messages = 0
    /\ accepted = <<>>
    /\ wire = <<>>
    /\ failed = FALSE

exceededHighWaterMark == Len(sendBuffers) >= highWaterMark

isOpen == port

Message(size) == [i \in 1..size |-> <<messages + 1, i>>]

(* the buffer that malloc() of the pool returns *)
allocated == IF free = <<>> THEN OsBuffer ELSE Head(free)

queued(data) == Append(sendBuffers, [data |-> data, pos |-> 0, buffer |-> allocated])

(* variant: the SendBuffer that was moved from still frees its buffer *)
pushFreesToo(data) ==
    /\ sendBuffers' = queued(data)
    /\ free' = IF free = <<>> THEN free ELSE Append(Tail(free), allocated)
    /\ accepted' = accepted \o data
    /\ IF sendBuffers = <<>> THEN asyncSend(queued(data)) ELSE UNCHANGED writes

(* the rest of send(copy): a SendBuffer of the pool that copy() has filled *)
(* with data joins the queue, and is written if it is alone there          *)
push(data) ==
    /\ sendBuffers' = queued(data)
    /\ free' = IF free = <<>> THEN free ELSE Tail(free)
    /\ accepted' = accepted \o data
    /\ IF sendBuffers = <<>> THEN asyncSend(queued(data)) ELSE UNCHANGED writes

nothingPushed == UNCHANGED <<sendBuffers, free, accepted, writes>>

(* a handler calls send(buffer, bytes) when isOpen() *)
send(size) ==
    /\ isOpen
    /\ copying = <<>>
    /\ messages < MaxMessages
    /\ messages' = messages + 1
    /\ copying' = IF exceededHighWaterMark THEN <<>> ELSE Message(size)
    /\ nothingPushed
    /\ UNCHANGED <<port, reads, readsDone, highWaterMark, wire, failed>>

(* what one turn of its loop copies *)
Piece == IF Len(copying) > BufferSize THEN BufferSize ELSE Len(copying)

(* one turn of its loop; no other handler runs until it ends *)
sendPiece ==
    /\ copying # <<>>
    /\ IF exceededHighWaterMark THEN nothingPushed ELSE push(SubSeq(copying, 1, Piece))
    /\ copying' = SubSeq(copying, BufferSize + 1, Len(copying))
    /\ UNCHANGED <<port, reads, readsDone, highWaterMark, messages, wire, failed>>

(* a handler calls send(copy) with a function of its own *)
sendCopy(size) ==
    /\ isOpen
    /\ copying = <<>>
    /\ messages < MaxMessages
    /\ size <= BufferSize
    /\ messages' = messages + 1
    /\ IF exceededHighWaterMark THEN nothingPushed ELSE push(Message(size))
    /\ UNCHANGED <<port, reads, readsDone, highWaterMark, copying, wire, failed>>

sendHighWaterMark(hwm) ==
    /\ copying = <<>>
    /\ highWaterMark' = hwm
    /\ nothingPushed
    /\ UNCHANGED <<port, reads, readsDone, copying, messages, wire, failed>>

(* the first n bytes of write w have been taken by the port *)
Written(w, n) ==
    /\ w \in DOMAIN writes
    /\ n \in 0..Len(writes[w])
    /\ n = 0 => writes[w] = <<>>
    /\ wire' = wire \o SubSeq(writes[w], 1, n)

WithoutWrite(w) == SubSeq(writes, 1, w - 1) \o SubSeq(writes, w + 1, Len(writes))

(* variant: a short write counts as a whole one *)
advancedWhole(n) == Tail(sendBuffers)

(* SendBuffer::advance() of the front, and its removal when it is sent *)
advanced(n) ==
    LET front == [Head(sendBuffers) EXCEPT !.pos = @ + n]
    IN  IF front.pos >= Len(front.data)
          THEN Tail(sendBuffers)
          ELSE <<front>> \o Tail(sendBuffers)

(* ~SendBuffer: a buffer of the pool goes back to it *)
freeAfter(n) ==
    LET b == Head(sendBuffers).buffer
    IN  IF Len(advanced(n)) < Len(sendBuffers) /\ b # OsBuffer
          THEN Append(free, b)
          ELSE free

(* variant: the next buffer is started only when one is complete *)
onSendWhole(w, n) ==
    /\ copying = <<>>
    /\ Written(w, n)
    /\ sendBuffers' = advanced(n)
    /\ free' = freeAfter(n)
    /\ writes' = IF advanced(n) # <<>> /\ Len(advanced(n)) < Len(sendBuffers)
                   THEN Append(WithoutWrite(w), cbuffer(Head(advanced(n))))
                   ELSE WithoutWrite(w)
    /\ UNCHANGED <<port, reads, readsDone, highWaterMark, copying, messages, accepted, failed>>

(* onSend() without an error *)
onSend(w, n) ==
    /\ copying = <<>>
    /\ Written(w, n)
    /\ sendBuffers' = advanced(n)
    /\ free' = freeAfter(n)
    /\ writes' = IF advanced(n) # <<>>
                   THEN Append(WithoutWrite(w), cbuffer(Head(advanced(n))))
                   ELSE WithoutWrite(w)
    /\ UNCHANGED <<port, reads, readsDone, highWaterMark, copying, messages, accepted, failed>>

(* onSend() with an error only logs it *)
onSendError(w) ==
    /\ copying = <<>>
    /\ w \in DOMAIN writes
    /\ writes' = WithoutWrite(w)
    /\ failed' = TRUE
    /\ UNCHANGED <<port, reads, readsDone, sendBuffers, highWaterMark, free, copying, messages,
                   accepted, wire>>

(* a read completes, with bytes in receiveBuffer_ or with an error *)
ReadCompletes ==
    /\ reads > 0
    /\ reads' = reads - 1
    /\ readsDone' = readsDone + 1
    /\ UNCHANGED <<port, writes, sendBuffers, highWaterMark, free, copying, messages,
                   accepted, wire, failed>>

(* onReceive(): receiveHandler_ or errorHandler_, which may send(), and in *)
(* either case the next read                                               *)
onReceive ==
    /\ copying = <<>>
    /\ readsDone > 0
    /\ readsDone' = readsDone - 1
    /\ reads' = reads + 1
    /\ UNCHANGED <<port, writes, sendBuffers, highWaterMark, free, copying, messages,
                   accepted, wire, failed>>
=============================================================================
