----------------------------- MODULE GenericUdp -----------------------------
(***************************************************************************)
(* a17/utils/udp_socket: doubles over UDP with whoever sent last.  The     *)
(* reactor fills receiveBuffer_ and target_ before onReceive() runs.       *)
(***************************************************************************)
EXTENDS Naturals

CONSTANTS
    Peers,      \* the programs that send datagrams
    NoPeer,     \* the address target_ starts with
    Lengths     \* the lengths of their datagrams, in bytes, up to 1024

ASSUME UdpAssumption == NoPeer \notin Peers /\ Lengths \subseteq 0..1024

VARIABLES
    receives,       \* receives under way on socket_
    recoveries,     \* waits of recoveryTimer_ under way
    arrived,        \* the completion of a receive that onReceive() has to handle
    target,         \* target_
    firstMessage,   \* firstMessage_
    lastSent        \* the last datagram sent: its receiver, and whom it answers

udpVars == <<receives, recoveries, arrived, target, firstMessage, lastSent>>

Nothing == [kind |-> "nothing"]

Completed ==
    {Nothing, [kind |-> "error"]} \cup [kind : {"datagram"}, from : Peers, bytes : Lengths]

Sendings == [to : Peers \cup {NoPeer}, answers : Peers \cup {NoPeer}]

UdpInit ==
    /\ receives = 1
    /\ recoveries = 0
    /\ arrived = Nothing
    /\ target = NoPeer
    /\ firstMessage = FALSE
    /\ lastSent = [to |-> NoPeer, answers |-> NoPeer]

DatagramArrives(p, bytes) ==
    /\ receives > 0
    /\ receives' = receives - 1
    /\ arrived' = [kind |-> "datagram", from |-> p, bytes |-> bytes]
    /\ target' = p
    /\ UNCHANGED <<recoveries, firstMessage, lastSent>>

ReceiveFails ==
    /\ receives > 0
    /\ receives' = receives - 1
    /\ arrived' = [kind |-> "error"]
    /\ UNCHANGED <<recoveries, target, firstMessage, lastSent>>

(* send(), when firstMessage_ is first and target_ is to *)
udpSend(first, to, answers) ==
    IF first
      THEN lastSent' = [to |-> to, answers |-> answers]
      ELSE UNCHANGED lastSent

(* another handler calls send() *)
udpSends ==
    /\ udpSend(firstMessage, target, NoPeer)
    /\ UNCHANGED <<receives, recoveries, arrived, target, firstMessage>>

(* parser(): handler_ gets the doubles, and may send() an answer *)
parser(to) ==
    \/ arrived.bytes >= 8 /\ udpSend(TRUE, to, arrived.from)
    \/ UNCHANGED lastSent

(* variant: receive() comes before parser(), and may complete at once *)
udpOnReceiveFirst ==
    /\ arrived.kind = "datagram"
    /\ \E p \in Peers, bytes \in Lengths :
          /\ target' = p
          /\ arrived' = [kind |-> "datagram", from |-> p, bytes |-> bytes]
          /\ parser(p)
    /\ firstMessage' = TRUE
    /\ UNCHANGED <<receives, recoveries>>

udpOnReceive ==
    /\ arrived.kind = "datagram"
    /\ firstMessage' = TRUE
    /\ parser(target)
    /\ receives' = receives + 1
    /\ arrived' = Nothing
    /\ UNCHANGED <<recoveries, target>>

(* variant: receives at once as well as in a second *)
udpOnReceiveErrorTwice ==
    /\ arrived.kind = "error"
    /\ firstMessage' = TRUE
    /\ recoveries' = recoveries + 1
    /\ receives' = receives + 1
    /\ arrived' = Nothing
    /\ UNCHANGED <<target, lastSent>>

udpOnReceiveError ==
    /\ arrived.kind = "error"
    /\ firstMessage' = TRUE
    /\ recoveries' = recoveries + 1
    /\ arrived' = Nothing
    /\ UNCHANGED <<receives, target, lastSent>>

(* the second is over: the handler of recoveryTimer_ *)
udpRecovers ==
    /\ recoveries > 0
    /\ recoveries' = recoveries - 1
    /\ receives' = receives + 1
    /\ UNCHANGED <<arrived, target, firstMessage, lastSent>>
=============================================================================
