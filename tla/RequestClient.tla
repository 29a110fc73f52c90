---------------------------- MODULE RequestClient ---------------------------
(***************************************************************************)
(* a17/dispatch/request_client: one client of the topic, on a zmq REQ      *)
(* socket, with the servers it sends its requests to.  The client's        *)
(* handlers run one at a time on the event loop of its node; an expired    *)
(* timeout is queued there behind whatever is already queued.              *)
(***************************************************************************)
EXTENDS ReplyServer, Sequences

CONSTANTS
    Polite        \* does the user wait for a request to end before the next?

ASSUME RequestAssumption == Polite \in BOOLEAN

VARIABLES
    known,        \* the servers in the directory's map, oldest timestamp first
    socket,       \* socket_: the server it is connected to, or None
    sent,         \* the request that the REQ socket awaits the reply of
    receiving,    \* is a receive pending on the socket?
    waiting,      \* waiting_for_receive_
    handler,      \* reply_handler_: the request whose handler it is
    timer,        \* the request whose timeout is pending
    expired,      \* the request whose expired timeout is queued
    requested,    \* calls of request() so far
    answered,     \* the replies given to the reply handler of each request
    timedOut      \* the requests whose error handler got timed_out

linkVars == <<known, socket>>
callVars == <<requested, answered, timedOut>>
requestVars ==
    <<serverVars, linkVars, sent, receiving, waiting, handler, timer, expired, callVars>>

(* NewestTopic(): the directory stamps a topic when it learns of it. *)
Newest(ss) == ss[Len(ss)]

Without(i) == SubSeq(known, 1, i - 1) \o SubSeq(known, i + 1, Len(known))

RequestInit ==
    /\ ServerInit
    /\ known = <<>>
    /\ socket = None
    /\ sent = None
    /\ receiving = FALSE
    /\ waiting = FALSE
    /\ handler = None
    /\ timer = None
    /\ expired = None
    /\ requested = 0
    /\ answered = [k \in Requests |-> {}]
    /\ timedOut = {}

-----------------------------------------------------------------------------
(* request().  The reply handler is replaced first; then the request is    *)
(* refused while another waits, or while there is no connection; the send  *)
(* may fail, and does so while the socket awaits a reply; else a receive   *)
(* is started and, if a timeout is given, the timer.                       *)
Call(k) ==
    /\ k = requested + 1
    /\ Polite => ~waiting
    /\ requested' = k
    /\ handler' = k
    /\ UNCHANGED <<life, serving, staged, answers, failed, linkVars, expired, answered, timedOut>>

requestRefused(k) ==
    /\ Call(k)
    /\ UNCHANGED <<queue, sent, receiving, waiting, timer>>

requestSent(k, timed) ==
    /\ Call(k)
    /\ ~waiting
    /\ socket # None
    /\ sent = None
    /\ queue' = [queue EXCEPT ![socket] = IF life[socket] = "up" THEN @ \cup {k} ELSE @]
    /\ sent' = k
    /\ receiving' = TRUE
    /\ waiting' = TRUE
    /\ timer' = IF timed THEN k ELSE timer

(* variant: takes a late reply for the one it awaits *)
sendReplyToHandlerAny(k) ==
    /\ k \in answers
    /\ answers' = answers \ {k}
    /\ IF receiving
         THEN /\ timer' = None
              /\ waiting' = FALSE
              /\ sent' = None
              /\ receiving' = FALSE
              /\ answered' = [answered EXCEPT ![handler] = @ \cup {k}]
         ELSE UNCHANGED <<timer, waiting, sent, receiving, answered>>
    /\ UNCHANGED <<life, queue, serving, staged, failed, linkVars, handler, expired,
                   requested, timedOut>>

(* sendReplyToHandler(), with cleanupRequest(); a reply to a socket that   *)
(* is gone, or that no longer receives, is never taken.                    *)
sendReplyToHandler(k) ==
    /\ k \in answers
    /\ answers' = answers \ {k}
    /\ IF sent = k /\ receiving
         THEN /\ timer' = None
              /\ waiting' = FALSE
              /\ sent' = None
              /\ receiving' = FALSE
              /\ answered' = [answered EXCEPT ![handler] = @ \cup {k}]
         ELSE UNCHANGED <<timer, waiting, sent, receiving, answered>>
    /\ UNCHANGED <<life, queue, serving, staged, failed, linkVars, handler, expired,
                   requested, timedOut>>

(* The receive fails: the error handler of the request is called, and the  *)
(* request goes on waiting for a reply that nothing receives.              *)
onReplyError ==
    /\ receiving
    /\ receiving' = FALSE
    /\ UNCHANGED <<serverVars, linkVars, sent, waiting, handler, timer, expired, callVars>>

TimeoutExpires ==
    /\ timer # None
    /\ expired = None
    /\ expired' = timer
    /\ timer' = None
    /\ UNCHANGED <<serverVars, linkVars, sent, receiving, waiting, handler, callVars>>

(* variant: the socket is kept *)
onTimeoutKeepsSocket ==
    /\ expired # None
    /\ expired' = None
    /\ timer' = None
    /\ waiting' = FALSE
    /\ timedOut' = timedOut \cup {expired}
    /\ UNCHANGED <<serverVars, linkVars, sent, receiving, handler, requested, answered>>

(* variant: waiting_for_receive_ is not reset *)
onTimeoutStillWaiting ==
    /\ expired # None
    /\ expired' = None
    /\ timer' = None
    /\ sent' = None
    /\ receiving' = FALSE
    /\ timedOut' = timedOut \cup {expired}
    /\ UNCHANGED <<serverVars, linkVars, waiting, handler, requested, answered>>

(* the handler of the timer: cleanupRequest(), reconnect(), error handler *)
onTimeout ==
    /\ expired # None
    /\ expired' = None
    /\ timer' = None
    /\ waiting' = FALSE
    /\ sent' = None
    /\ receiving' = FALSE
    /\ timedOut' = timedOut \cup {expired}
    /\ UNCHANGED <<serverVars, linkVars, handler, requested, answered>>

(* onDirectoryTopicsChanged(), with connect() and disconnect() *)
onDirectoryTopicsChanged(ss) ==
    /\ known' = ss
    /\ IF ss = <<>>
         THEN socket' = None /\ sent' = None /\ receiving' = FALSE
         ELSE IF socket = Newest(ss)
                THEN UNCHANGED <<socket, sent, receiving>>
                ELSE socket' = Newest(ss) /\ sent' = None /\ receiving' = FALSE
    /\ UNCHANGED <<serverVars, waiting, handler, timer, expired, callVars>>

RequestNext ==
    \/ \E k \in Requests :
          requestRefused(k) \/ \E timed \in BOOLEAN : requestSent(k, timed)
    \/ \E k \in answers : sendReplyToHandler(k)
    \/ onReplyError \/ TimeoutExpires \/ onTimeout
    \/ \E s \in Servers :
          /\ life[s] # "new"
          /\ \A i \in 1..Len(known) : known[i] # s
          /\ onDirectoryTopicsChanged(Append(known, s))
    \/ \E i \in 1..Len(known) : onDirectoryTopicsChanged(Without(i))

RequestStep ==
    \/ RequestNext
    \/ /\ ServerNext
       /\ UNCHANGED <<linkVars, sent, receiving, waiting, handler, timer, expired, callVars>>

RequestSpec == RequestInit /\ [][RequestStep]_requestVars

(* The client's event loop keeps running, and time passes. *)
RequestFairness == WF_requestVars(TimeoutExpires) /\ WF_requestVars(onTimeout)

-----------------------------------------------------------------------------
(* Type invariant. *)
RequestTypeOK ==
    /\ ServerTypeOK
    /\ known \in Seq(Servers)
    /\ socket \in Servers \cup {None}
    /\ {sent, handler, timer, expired} \subseteq Requests \cup {None}
    /\ {receiving, waiting} \subseteq BOOLEAN
    /\ requested \in Nat
    /\ answered \in [Requests -> SUBSET Requests]
    /\ timedOut \subseteq Requests

(* When no request waits, the socket can send the next one: it is not left *)
(* awaiting the reply of a request that has been given up, however replies,*)
(* timeouts, disconnections and crashes follow each other.                 *)
NextRequestCanBeSent == ~waiting => sent = None

(* With a user that waits for each request to end, a reply is given to the *)
(* handler of the request it answers.                                      *)
RepliesReachTheirRequest == \A k \in Requests : answered[k] \subseteq {k}

(* A request that is given up after its timeout was still waiting for its  *)
(* reply ("since it is still waiting for a reply from the previous         *)
(* request"): none is both answered and reported as timed out.             *)
TimedOutWasUnanswered == \A k \in timedOut : k \notin answered[k]

(* The waiting of a request that was given a timeout ends, whether the     *)
(* server replies, crashes, restarts or is never heard of again.           *)
WaitingEnds == waiting /\ timer # None ~> ~waiting
=============================================================================
