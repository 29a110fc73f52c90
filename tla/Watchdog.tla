------------------------------ MODULE Watchdog ------------------------------
(***************************************************************************)
(* a17/utils/watchdog: calls a callback when mark() has not been called    *)
(* for a timeout.  Its timer is like that of a Repeater.  The callback     *)
(* here stops the node, as in watchdog_test.                               *)
(***************************************************************************)
EXTENDS Node, Integers

CONSTANT Timeout    \* timeout_, in ticks

ASSUME WatchdogAssumption == Timeout \in Nat \ {0}

VARIABLES
    dog,        \* timer_: the time left, and whether a wait is pending
    silence,    \* time since the last mark(), up to the timeout
    lapses      \* timeouts that have passed and not been answered

watchdogVars == <<dog, silence, lapses>>

(* The constructor sets a deadline and does not wait for it: until the     *)
(* first mark() no callback comes, however long that takes.                *)
WatchdogInit ==
    /\ dog = [left |-> Timeout, waiting |-> FALSE]
    /\ silence = Timeout
    /\ lapses = 0

(* variant: waits again without a new deadline *)
markSameDeadline ==
    /\ dog' = [dog EXCEPT !.waiting = TRUE]
    /\ silence' = 0
    /\ lapses' = lapses

(* mark(), within some handler.  A late mark still aborts a wait whose     *)
(* expiry the loop has not noticed: that lapse is forgiven.                *)
mark ==
    /\ dog' = [left |-> Timeout, waiting |-> TRUE]
    /\ silence' = 0
    /\ lapses' = IF dog.waiting /\ silence = Timeout THEN lapses - 1 ELSE lapses

WatchdogExpires ==
    /\ loop = "running"
    /\ dog.waiting
    /\ dog.left <= 0
    /\ dog' = [dog EXCEPT !.waiting = FALSE]
    /\ ready' = Append(ready, "watchdog")
    /\ UNCHANGED <<silence, lapses, stopped, loop, owner, signals>>

(* variant: does not call it *)
callbackIgnored ==
    /\ Runs("watchdog")
    /\ lapses' = lapses - 1
    /\ UNCHANGED <<dog, silence, stopped, loop, owner, signals>>

(* the handler of mark()'s wait calls callback_() *)
callback ==
    /\ Runs("watchdog")
    /\ lapses' = lapses - 1
    /\ stopped' = TRUE
    /\ UNCHANGED <<dog, silence, loop, owner, signals>>

WatchdogTick ==
    /\ dog' = [dog EXCEPT !.left = IF @ > 0 THEN @ - 1 ELSE @]
    /\ silence' = IF silence < Timeout THEN silence + 1 ELSE silence
    /\ lapses' = IF silence = Timeout - 1 THEN lapses + 1 ELSE lapses
=============================================================================
