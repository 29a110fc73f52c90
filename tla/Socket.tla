------------------------------- MODULE Socket -------------------------------
(***************************************************************************)
(* a17/dispatch/socket, listener and the handlers of node.h: a Publisher   *)
(* sends multi-part messages to a Subscriber of another node.  A part is a *)
(* sequence; the first is the type, the second the body, the others are    *)
(* raw buffers.  ZeroMQ takes a message whole or refuses its first part,   *)
(* and delivers it whole or not at all.                                    *)
(***************************************************************************)
EXTENDS Naturals, Sequences

CONSTANTS
    SendHighWaterMark,  \* what sendHighWaterMark() sets
    Filters             \* the types that filters_ lets through

VARIABLES
    pipe,       \* messages ZeroMQ has taken, with the buffers of their bodies
    ec,         \* the error_code that the caller passes to send() again
    inbox,      \* parts that have arrived, each with its more flag
    receives,   \* calls of async_receive() under way
    received,   \* received_message_
    loop        \* the subscriber's loop: "running", or "ended" by an exception

socketVars == <<pipe, ec, inbox, receives, received, loop>>

Listening == receives > 0 /\ loop = "running"

SocketInit ==
    /\ pipe = <<>>
    /\ ec = FALSE
    /\ inbox = <<>>
    /\ receives = 1
    /\ received = <<>>
    /\ loop = "running"

full == Len(pipe) >= SendHighWaterMark

(* send(): an error_code that is set on entry stops every part.  The body  *)
(* of a message that is not taken is freed with the vector.                *)
sendTaken(message) ==
    /\ ~ec
    /\ ~full
    /\ pipe' = Append(pipe, message)
    /\ UNCHANGED <<ec, inbox, receives, received, loop>>

sendRefused ==
    /\ ec \/ full
    /\ ec' = TRUE
    /\ UNCHANGED <<pipe, inbox, receives, received, loop>>

(* the caller clears its error_code, or uses the send() that has its own *)
FreshErrorCode ==
    /\ ec
    /\ ec' = FALSE
    /\ UNCHANGED <<pipe, inbox, receives, received, loop>>

Parts(parts) ==
    [i \in DOMAIN parts |-> [data |-> parts[i], more |-> i < Len(parts)]]

(* ZeroMQ's thread delivers the oldest message, or loses it *)
Transmit ==
    /\ pipe # <<>>
    /\ pipe' = Tail(pipe)
    /\ inbox' = IF Head(pipe).parts[1][1] \in Filters
                  THEN inbox \o Parts(Head(pipe).parts)
                  ELSE inbox
    /\ UNCHANGED <<ec, receives, received, loop>>

Lose ==
    /\ pipe # <<>>
    /\ pipe' = Tail(pipe)
    /\ UNCHANGED <<ec, inbox, receives, received, loop>>

(* onReceive() drops empty parts *)
kept(data) == IF data = <<>> THEN received ELSE Append(received, data)

PartArrives ==
    /\ Listening
    /\ inbox # <<>>
    /\ inbox' = Tail(inbox)

(* onReceive() of a part with more to come *)
onReceiveMore ==
    /\ PartArrives
    /\ Head(inbox).more
    /\ received' = kept(Head(inbox).data)
    /\ UNCHANGED <<pipe, ec, receives, loop>>

(* variant: the message is not cleared *)
messageDoneKept ==
    /\ received' = kept(Head(inbox).data)
    /\ UNCHANGED <<receives, loop>>

(* the handler returns: Listener::onMessage() receives again, and          *)
(* onReceive() clears the message                                          *)
messageDone ==
    /\ received' = <<>>
    /\ UNCHANGED <<receives, loop>>

(* what a handler or an error handler that throws leaves behind *)
messageThrows ==
    /\ received' = kept(Head(inbox).data)
    /\ receives' = receives - 1
    /\ loop' = "ended"

LastPart == PartArrives /\ ~Head(inbox).more /\ UNCHANGED <<pipe, ec>>

(* The handler of registerCapnpSubscriber<type>(): getRoot() throws when   *)
(* the types differ, the user's handler may throw, and error_handler gets  *)
(* both; error_handler may throw too.                                      *)
getRootThrows(type) == kept(Head(inbox).data)[1][1] # type

onReceiveHandled(type) == LastPart /\ ~getRootThrows(type) /\ messageDone

(* variant: a message that is reported is not followed by a receive *)
onReceiveReportedDeaf ==
    /\ LastPart
    /\ received' = <<>>
    /\ receives' = receives - 1
    /\ UNCHANGED loop

onReceiveReported == LastPart /\ messageDone

onReceiveThrows == LastPart /\ messageThrows

(* onReceive() with an error: the listener does not receive again *)
onReceiveError ==
    /\ Listening
    /\ receives' = receives - 1
    /\ UNCHANGED <<pipe, ec, inbox, received, loop>>

(* Node::start() after an exception *)
Restart ==
    /\ loop = "ended"
    /\ loop' = "running"
    /\ UNCHANGED <<pipe, ec, inbox, receives, received>>
=============================================================================
