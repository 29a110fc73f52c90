----------------------------- MODULE NodeTimers -----------------------------
(***************************************************************************)
(* A Repeater and a Watchdog on the loop of a Node, as in watchdog_test:   *)
(* the repeater's operation may mark the watchdog, other handlers start,   *)
(* stop and set the repeater, signals arrive, and the owner stops and      *)
(* destroys the node at any time.                                          *)
(***************************************************************************)
EXTENDS Repeater, Watchdog

CONSTANT MaxCalls      \* bound: calls of post() in a behaviour

ASSUME CallsAssumption == MaxCalls \in Nat

VARIABLE calls

vars == <<nodeVars, repeaterVars, watchdogVars, calls>>

Init == NodeInit /\ RepeaterInit /\ WatchdogInit /\ calls = 0

Time == owner # "gone" /\ RepeaterTick /\ WatchdogTick /\ UNCHANGED <<nodeVars, calls>>

Owner ==
    /\ start \/ stop \/ Destruct \/ DestructReturns
    /\ UNCHANGED <<repeaterVars, watchdogVars, calls>>

Post ==
    /\ calls < MaxCalls
    /\ calls' = calls + 1
    /\ post(MaxCalls)
    /\ UNCHANGED <<repeaterVars, watchdogVars>>

(* the handler passed to post() *)
UserHandler ==
    /\ Runs("user")
    /\ \/ /\ \E r \in UserCalls(rep) : rep' = r
          /\ LoopGoesOn
          /\ UNCHANGED watchdogVars
       \/ mark /\ LoopGoesOn /\ UNCHANGED rep
       \/ LoopThrows /\ UNCHANGED <<rep, watchdogVars>>
    /\ UNCHANGED <<since, calls>>

(* the operation of the repeater may mark the watchdog *)
Operation == repeatRuns /\ (mark \/ UNCHANGED watchdogVars) /\ UNCHANGED calls

Loop ==
    \/ UserHandler
    \/ Operation
    \/ (repeatThrows \/ repeatStopped) /\ UNCHANGED <<watchdogVars, calls>>
    \/ callback /\ UNCHANGED <<repeaterVars, calls>>
    \/ (signal \/ RunReturns) /\ UNCHANGED <<repeaterVars, watchdogVars, calls>>

Asio ==
    \/ RepeaterExpires /\ UNCHANGED <<watchdogVars, calls>>
    \/ WatchdogExpires /\ UNCHANGED <<repeaterVars, calls>>

Signal == SignalArrives /\ UNCHANGED <<repeaterVars, watchdogVars, calls>>

Next == Time \/ Owner \/ Post \/ Loop \/ Asio \/ Signal

(* Time passes, the loop's thread runs handlers and notices timers, and    *)
(* the destructor's wait ends once it can.  Nothing is assumed of users.   *)
Spec ==
    /\ Init
    /\ [][Next]_vars
    /\ WF_vars(Time)
    /\ WF_vars(Loop)
    /\ WF_vars(RepeaterExpires /\ UNCHANGED <<watchdogVars, calls>>)
    /\ WF_vars(WatchdogExpires /\ UNCHANGED <<repeaterVars, calls>>)
    /\ WF_vars(DestructReturns /\ UNCHANGED <<repeaterVars, watchdogVars, calls>>)

-----------------------------------------------------------------------------
(* Type invariant of the node, the repeater and the watchdog. *)
TypeOK ==
    /\ ready \in Seq(Completions)
    /\ stopped \in BOOLEAN
    /\ loop \in {"none", "running", "ended"}
    /\ owner \in {"up", "destroying", "gone"}
    /\ signals \in BOOLEAN
    /\ rep \in [running : BOOLEAN, interval : Intervals, waiting : BOOLEAN,
                left : Int, threw : BOOLEAN]
    /\ since \in 0..MaxLateness
    /\ dog \in [left : 0..Timeout, waiting : BOOLEAN]
    /\ silence \in 0..Timeout
    /\ lapses \in Int
    /\ calls \in 0..MaxCalls

Queued(c) == \E i \in DOMAIN ready : ready[i] = c

(* A repeater that says it is running has a wait pending or an expiry      *)
(* queued, whatever its users, its own operation and the loop do, unless   *)
(* the operation has thrown: then start() does nothing for ever, and only  *)
(* stop() and start() revive it.                                           *)
RunningIsArmed ==
    rep.running /\ ~rep.threw => rep.waiting \/ Queued("repeater")

(* The operation is never run twice within half an interval: lost time is  *)
(* not caught up in bursts.  The exceptions are an expiry that was already *)
(* queued when the repeater was restarted, which runs beside the new wait, *)
(* and the run after an operation that threw.                              *)
RunsKeepApart ==
    [][repeatRuns /\ ~rep.waiting /\ ~rep.threw => since >= rep.interval \div 2]_vars

(* The callback is called only after a timeout without a mark(): a mark()  *)
(* in time always reaches the timer before its expiry is queued.           *)
BarksOnlyWhenLate == [][callback => lapses > 0]_vars

(* Once ~Node has returned, no thread of the node runs handlers. *)
GoneIsQuiet == owner = "gone" => loop # "running"

(* watchdog_test: when the repeater that marks the watchdog has stopped,   *)
(* the watchdog stops the node.                                            *)
WatchdogStopsNode ==
    dog.waiting /\ ~rep.running ~> stopped \/ rep.running \/ loop # "running"

(* ~Node returns. *)
DestructorReturns == owner = "destroying" ~> owner = "gone"
=============================================================================
