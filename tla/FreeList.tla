------------------------------ MODULE FreeList ------------------------------
(***************************************************************************)
(* What a buffer pool promises its users: a first-in first-out list of     *)
(* free buffers.  An allocation takes the head of the list, or a buffer of *)
(* the operating system when the list is empty; a buffer passed to free()  *)
(* is on its way back until it is appended.                                *)
(***************************************************************************)
EXTENDS Naturals, Sequences

CONSTANTS
    Buffers,     \* the buffers of the pool
    OsBuffers    \* what the operating system may hand out instead

VARIABLES
    queue,       \* the free buffers, oldest first
    held,        \* pool buffers in the hands of a user
    returning,   \* pool buffers passed to free() and not yet in the queue
    osHeld       \* operating-system buffers in the hands of a user

listVars == <<queue, held, returning, osHeld>>

ListInit ==
    /\ queue \in Seq(Buffers)
    /\ \A b \in Buffers : \E i \in DOMAIN queue : queue[i] = b
    /\ \A i, j \in DOMAIN queue : queue[i] = queue[j] => i = j
    /\ held = {}
    /\ returning = {}
    /\ osHeld = {}

Allocate ==
    /\ queue # <<>>
    /\ Head(queue) \notin held
    /\ held' = held \cup {Head(queue)}
    /\ queue' = Tail(queue)
    /\ UNCHANGED <<returning, osHeld>>

AllocateFromOs(b) ==
    /\ queue = <<>>
    /\ b \notin osHeld
    /\ osHeld' = osHeld \cup {b}
    /\ UNCHANGED <<queue, held, returning>>

Release(b) ==
    /\ b \in held
    /\ held' = held \ {b}
    /\ returning' = returning \cup {b}
    /\ UNCHANGED <<queue, osHeld>>

Requeue(b) ==
    /\ b \in returning
    /\ returning' = returning \ {b}
    /\ queue' = Append(queue, b)
    /\ UNCHANGED <<held, osHeld>>

ReleaseToOs(b) ==
    /\ b \in osHeld
    /\ osHeld' = osHeld \ {b}
    /\ UNCHANGED <<queue, held, returning>>

ListNext ==
    \/ Allocate
    \/ \E b \in OsBuffers : AllocateFromOs(b) \/ ReleaseToOs(b)
    \/ \E b \in Buffers : Release(b) \/ Requeue(b)

ListSpec == ListInit /\ [][ListNext]_listVars
=============================================================================
