------------------------------ MODULE Repeater ------------------------------
(***************************************************************************)
(* a17/utils/repeater: calls an operation at a fixed interval, by a timer  *)
(* on the loop of a node.  A timer keeps the time left to its deadline     *)
(* (negative: the lateness) and whether a wait is pending.  Setting a      *)
(* deadline, and cancel(), abort a pending wait, whose handler then does   *)
(* nothing; they do not reach a completion that is already queued.  Every  *)
(* async_wait() follows a new deadline, so one wait at most is pending.    *)
(***************************************************************************)
EXTENDS Node, Integers

CONSTANTS
    Intervals,      \* the intervals the user sets, in ticks
    MaxLateness     \* bound: lateness of a deadline, and the time since a run

ASSUME RepeaterAssumption ==
    /\ MaxLateness \in Nat
    /\ Intervals \subseteq 1..MaxLateness
    /\ Intervals # {}

VARIABLES
    rep,        \* is_running_, interval_, timer_; threw: operation_ has thrown
    since       \* time since the operation was last run

repeaterVars == <<rep, since>>

startTimer(r) ==
    IF r.running
      THEN r
      ELSE [r EXCEPT !.left = r.interval, !.waiting = TRUE, !.running = TRUE]

(* variant: cancels the wait only *)
stopKeepsRunning(r) == [r EXCEPT !.waiting = FALSE, !.threw = FALSE]

stopTimer(r) == [r EXCEPT !.waiting = FALSE, !.running = FALSE, !.threw = FALSE]

setInterval(r, i) ==
    LET s == [r EXCEPT !.interval = i]
    IN  IF r.running THEN startTimer(stopTimer(s)) ELSE s

(* what a user may do with a repeater, from any handler *)
UserCalls(r) ==
    {startTimer(r), stopTimer(r), startTimer(stopTimer(r))}
        \cup {setInterval(r, i) : i \in Intervals}

RepeaterInit ==
    /\ \E i \in Intervals, auto_start \in BOOLEAN :
          LET r == [running |-> FALSE, interval |-> i, left |-> i,
                    waiting |-> FALSE, threw |-> FALSE]
          IN  rep = IF auto_start THEN startTimer(r) ELSE r
    /\ since = MaxLateness

(* variant: always from the old deadline, so that lost time is caught up *)
rearmCatchesUp(r) ==
    [r EXCEPT !.left = r.left + r.interval, !.waiting = TRUE, !.threw = FALSE]

(* the next deadline: from the last one, or from now when that was missed  *)
(* by more than half an interval                                           *)
rearm(r) ==
    LET bump == -r.left > r.interval \div 2
        from == IF bump THEN 0 ELSE r.left
    IN  [r EXCEPT !.left = from + r.interval, !.waiting = TRUE, !.threw = FALSE]

(* repeat(): operation_() may itself use the repeater (to become r), and   *)
(* says whether to go on                                                   *)
repeat(r, goOn) == IF goOn THEN rearm(r) ELSE [r EXCEPT !.running = FALSE, !.threw = FALSE]

RepeaterExpires ==
    /\ loop = "running"
    /\ rep.waiting
    /\ rep.left <= 0
    /\ rep' = [rep EXCEPT !.waiting = FALSE]
    /\ ready' = Append(ready, "repeater")
    /\ UNCHANGED <<since, stopped, loop, owner, signals>>

(* a queued expiry of a repeater that does not run *)
repeatStopped ==
    /\ ~rep.running
    /\ Runs("repeater")
    /\ LoopGoesOn
    /\ UNCHANGED repeaterVars

repeatRuns ==
    /\ rep.running
    /\ Runs("repeater")
    /\ \E r \in {rep} \cup UserCalls(rep), goOn \in BOOLEAN : rep' = repeat(r, goOn)
    /\ since' = 0
    /\ LoopGoesOn

(* operation_() throws: nothing re-arms the timer, and is_running_ stays *)
repeatThrows ==
    /\ rep.running
    /\ Runs("repeater")
    /\ rep' = [rep EXCEPT !.threw = TRUE]
    /\ since' = 0
    /\ LoopThrows

Later(t) == IF t > 0 - MaxLateness THEN t - 1 ELSE t

RepeaterTick ==
    /\ rep' = [rep EXCEPT !.left = Later(@)]
    /\ since' = IF since < MaxLateness THEN since + 1 ELSE since
=============================================================================
