-------------------------------- MODULE Node --------------------------------
(***************************************************************************)
(* a17/dispatch/node and the io_service it runs.  The loop is a thread     *)
(* that start() creates; it takes completions from a queue, oldest first,  *)
(* and runs one handler at a time.  The owner's thread starts, stops and   *)
(* destroys the node.  Handlers are steps of the modules that extend this  *)
(* one.                                                                    *)
(***************************************************************************)
EXTENDS Naturals, Sequences

VARIABLES
    ready,      \* completions queued on ios_, oldest first
    stopped,    \* signaled_shutdown_; ios_.stop() has been called
    loop,       \* future_ and its thread: "none", "running" (in run()), "ended"
    owner,      \* the owner's thread: "up", "destroying" (in ~Node), "gone"
    signals     \* signals_ waits for a signal

nodeVars == <<ready, stopped, loop, owner, signals>>

Completions == {"repeater", "watchdog", "signal", "user"}

NodeInit ==
    /\ ready = <<>>
    /\ stopped = FALSE
    /\ loop = "none"
    /\ owner = "up"
    /\ signals = TRUE

(* the loop takes completion c and runs its handler *)
Runs(c) ==
    /\ loop = "running"
    /\ ~stopped
    /\ ready # <<>>
    /\ Head(ready) = c
    /\ ready' = Tail(ready)

(* Node::start().  A second start() with the first loop still running      *)
(* would run two loops at once and is left out.                            *)
start ==
    /\ owner = "up"
    /\ loop # "running"
    /\ loop' = "running"
    /\ UNCHANGED <<ready, stopped, owner, signals>>

(* Node::stop() on the owner's thread; the loop ends when it sees it *)
stop ==
    /\ owner = "up"
    /\ stopped' = TRUE
    /\ UNCHANGED <<ready, loop, owner, signals>>

(* variant: run() first drains the queue *)
RunReturnsDrained ==
    /\ loop = "running"
    /\ stopped
    /\ ready = <<>>
    /\ loop' = "ended"
    /\ UNCHANGED <<ready, stopped, owner, signals>>

RunReturns ==
    /\ loop = "running"
    /\ stopped
    /\ loop' = "ended"
    /\ UNCHANGED <<ready, stopped, owner, signals>>

(* Node::post() from the owner's thread *)
post(limit) ==
    /\ owner = "up"
    /\ Len(ready) < limit
    /\ ready' = Append(ready, "user")
    /\ UNCHANGED <<stopped, loop, owner, signals>>

(* a signal of the operating system completes the one wait of signals_ *)
SignalArrives ==
    /\ signals
    /\ loop = "running"
    /\ signals' = FALSE
    /\ ready' = Append(ready, "signal")
    /\ UNCHANGED <<stopped, loop, owner>>

signal ==
    /\ Runs("signal")
    /\ stopped' = TRUE
    /\ UNCHANGED <<loop, owner, signals>>

(* Node::~Node(): stop(), ... *)
Destruct ==
    /\ owner = "up"
    /\ stopped' = TRUE
    /\ owner' = "destroying"
    /\ UNCHANGED <<ready, loop, signals>>

(* ... then the wait for the thread, and the members' destruction *)
DestructReturns ==
    /\ owner = "destroying"
    /\ loop # "running"
    /\ owner' = "gone"
    /\ UNCHANGED <<ready, stopped, loop, signals>>

(* a handler that throws ends run(); the queue and the timers stay *)
LoopThrows == loop' = "ended" /\ UNCHANGED <<stopped, owner, signals>>

LoopGoesOn == UNCHANGED <<stopped, loop, owner, signals>>
=============================================================================
