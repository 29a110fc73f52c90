------------------------------- MODULE IoLoop -------------------------------
(***************************************************************************)
(* The loop of tornado that dispatch.py runs on.  An iteration runs the    *)
(* callbacks that were added before it began, then timeouts that are due,  *)
(* then one event of each socket that is ready.  Callbacks may be added by *)
(* any thread.                                                             *)
(***************************************************************************)
EXTENDS Naturals, Sequences

VARIABLES
    callbacks,  \* those that wait, first added first
    left,       \* how many of them this iteration has still to run
    polled      \* the sockets that have had their event in this iteration

loopVars == <<callbacks, left, polled>>

LoopInit == callbacks = <<>> /\ left = 0 /\ polled = {}

(* add_callback() of another thread *)
add_callback(c) ==
    /\ callbacks' = Append(callbacks, c)
    /\ UNCHANGED <<left, polled>>

(* the loop runs callback c, which adds posts *)
RunsCallback(c, posts) ==
    /\ left > 0
    /\ Head(callbacks) = c
    /\ callbacks' = Tail(callbacks) \o posts
    /\ left' = left - 1
    /\ UNCHANGED polled

(* the loop runs a timeout *)
RunsTimeout(posts) ==
    /\ left = 0
    /\ polled = {}
    /\ callbacks' = callbacks \o posts
    /\ UNCHANGED <<left, polled>>

(* the loop handles an event of socket s *)
RunsEvent(s, posts) ==
    /\ left = 0
    /\ s \notin polled
    /\ callbacks' = callbacks \o posts
    /\ polled' = polled \cup {s}
    /\ UNCHANGED left

Iterates ==
    /\ left = 0
    /\ callbacks # <<>> \/ polled # {}
    /\ left' = Len(callbacks)
    /\ polled' = {}
    /\ UNCHANGED callbacks
=============================================================================
