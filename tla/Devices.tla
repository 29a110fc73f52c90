------------------------------- MODULE Devices -------------------------------
(***************************************************************************)
(* A SerialPort and a GenericUdp on one loop.  Their users may call send() *)
(* of either from any handler.                                             *)
(***************************************************************************)
EXTENDS CharacterDevice, GenericUdp, Flattening

vars == <<deviceVars, udpVars>>

Init == DeviceInit /\ UdpInit

Sends ==
    \/ \E size \in Sizes : send(size) \/ sendCopy(size)
    \/ \E hwm \in HighWaterMarks : sendHighWaterMark(hwm)

(* the loop goes on within send(), and with the completions of the port *)
Completes == \E w \in DOMAIN writes : \E n \in 0..BufferSize : onSend(w, n)

Fails == \E w \in DOMAIN writes : onSendError(w)

Serial ==
    /\ Sends \/ sendPiece \/ Completes \/ Fails \/ ReadCompletes \/ onReceive
    /\ UNCHANGED udpVars

(* the network, not the loop *)
Network ==
    /\ ReceiveFails \/ \E p \in Peers, bytes \in Lengths : DatagramArrives(p, bytes)
    /\ UNCHANGED deviceVars

UdpHandler == udpOnReceive \/ udpOnReceiveError \/ udpRecovers

Udp ==
    /\ copying = <<>>
    /\ UdpHandler \/ udpSends
    /\ UNCHANGED deviceVars

Next == Serial \/ Network \/ Udp

(* The loop's thread goes on, a write that does not fail completes, and    *)
(* the recovery timer expires.  Peers and users need not do anything.      *)
Spec ==
    /\ Init
    /\ [][Next]_vars
    /\ WF_vars(sendPiece /\ UNCHANGED udpVars)
    /\ WF_vars(Completes /\ UNCHANGED udpVars)
    /\ WF_vars(copying = <<>> /\ UdpHandler /\ UNCHANGED deviceVars)

-----------------------------------------------------------------------------
Bytes == (1..MaxMessages) \X Nat

Buffers == PoolBuffers \cup {OsBuffer}

(* Type invariant of the serial port and the UDP socket. *)
TypeOK ==
    /\ port \in BOOLEAN
    /\ reads \in Nat
    /\ readsDone \in Nat
    /\ writes \in Seq(Seq(Bytes))
    /\ sendBuffers \in Seq([data : Seq(Bytes), pos : Nat, buffer : Buffers])
    /\ highWaterMark \in HighWaterMarks
    /\ free \in Seq(PoolBuffers)
    /\ copying \in Seq(Bytes)
    /\ messages \in 0..MaxMessages
    /\ accepted \in Seq(Bytes)
    /\ wire \in Seq(Bytes)
    /\ failed \in BOOLEAN
    /\ receives \in Nat
    /\ recoveries \in Nat
    /\ arrived \in Completed
    /\ target \in Peers \cup {NoPeer}
    /\ firstMessage \in BOOLEAN
    /\ lastSent \in Sendings

Unsent(b) == SubSeq(b.data, b.pos + 1, Len(b.data))

PrefixesOnly(bytes) ==
    \A i \in DOMAIN bytes :
        LET b == bytes[i]
        IN  IF b[2] = 1
              THEN i > 1 => bytes[i - 1][1] < b[1]
              ELSE i > 1 /\ bytes[i - 1] = <<b[1], b[2] - 1>>

(* What the port has taken and what is still queued are together what      *)
(* send() has accepted, in order: short writes, failed writes and buffers  *)
(* from outside the pool lose, repeat and reorder nothing.  What is        *)
(* accepted of a message is a prefix of it: the high water mark may cut a  *)
(* message that is being copied, but leaves no gap in it.                  *)
WireInOrder ==
    /\ accepted = wire \o Flatten([i \in 1..Len(sendBuffers) |-> Unsent(sendBuffers[i])])
    /\ PrefixesOnly(accepted)

(* Every buffer of the pool is free or in the queue, and once: moving a    *)
(* SendBuffer into the queue neither frees nor loses its buffer.           *)
SendBuffersAccounted ==
    \A b \in PoolBuffers :
        Cardinality({i \in DOMAIN free : free[i] = b})
            + Cardinality({i \in DOMAIN sendBuffers : sendBuffers[i].buffer = b}) = 1

(* After every error the UDP socket has one receive, one recovery or one   *)
(* completion under way, and an open port one read or its completion: they *)
(* never go deaf, and never receive twice into their one buffer.           *)
AlwaysListening ==
    /\ receives + recoveries + (IF arrived = Nothing THEN 0 ELSE 1) = 1
    /\ port => reads + readsDone = 1

(* What handler_ sends goes to the sender of the datagram it was called    *)
(* for, not to whoever sent the next one.                                  *)
AnswersTheSender == lastSent.answers \in {NoPeer, lastSent.to}

(* Whatever is accepted reaches the port, unless a write fails: after that *)
(* nothing is written again.                                               *)
QueueDrains == sendBuffers # <<>> /\ ~failed ~> wire = accepted \/ failed
=============================================================================
