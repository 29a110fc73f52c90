----------------------------- MODULE BufferPool -----------------------------
(***************************************************************************)
(* a17/utils/buffer_pool: a ring of pointers to free buffers.  One thread  *)
(* allocates, several threads free (the Node thread and the threads of     *)
(* zmq).  malloc() takes no lock; free() writes the slot and then advances *)
(* the tail under a mutex, so every access that another thread can observe *)
(* in between is a step of its own.                                        *)
(***************************************************************************)
EXTENDS Integers, FiniteSets

CONSTANTS
    BufferCount,      \* bufferCount_, the buffers of the pool
    Threads,          \* the threads that call into the pool
    Allocator,        \* the one thread that calls malloc()
    SingleThreaded,   \* singleThreaded_: free() bypasses the mutex
    Reordering,       \* threads whose tail the build may make visible before the slot
    OsBuffers,        \* bound: what ::malloc may have handed out at a time
    NullPtr,
    NoThread

Buffers == 0..(BufferCount - 1)
Slots == 0..BufferCount

ASSUME PoolAssumption ==
    /\ BufferCount \in Nat \ {0}
    /\ Allocator \in Threads
    /\ SingleThreaded \in BOOLEAN
    /\ SingleThreaded => Threads = {Allocator}
    /\ Reordering \subseteq Threads
    /\ NullPtr \notin Buffers
    /\ NoThread \notin Threads

VARIABLES
    ptrs,       \* ptrs_: the ring
    head,       \* head_: next slot to allocate from
    tail,       \* tail_: next slot to free into
    mutex,      \* tailMutex_: its holder
    pc,         \* where each thread is in malloc() or free()
    arg,        \* the pointer each thread is freeing
    slot,       \* the slot a thread whose stores are reordered has still to write
    out,        \* pool buffers in the hands of a user
    osOut       \* ::malloc buffers in the hands of a user

vars == <<ptrs, head, tail, mutex, pc, arg, slot, out, osOut>>

nextPos(pos) == (pos + 1) % (BufferCount + 1)

Init ==
    /\ ptrs = [i \in Slots |-> IF i < BufferCount THEN i ELSE NullPtr]
    /\ head = 0
    /\ tail = BufferCount
    /\ mutex = NoThread
    /\ pc = [t \in Threads |-> "idle"]
    /\ arg = [t \in Threads |-> NullPtr]
    /\ slot = [t \in Threads |-> 0]
    /\ out = {}
    /\ osOut = {}

(* variant: goes to the operating system with buffers left *)
MallocFromOsAlways(b) ==
    /\ pc[Allocator] = "idle"
    /\ b \notin osOut
    /\ osOut' = osOut \cup {b}
    /\ UNCHANGED <<ptrs, head, tail, mutex, pc, arg, slot, out>>

(* malloc(): the test of head_ against tail_, ... *)
MallocFromOs(b) ==
    /\ pc[Allocator] = "idle"
    /\ head = tail
    /\ b \notin osOut
    /\ osOut' = osOut \cup {b}
    /\ UNCHANGED <<ptrs, head, tail, mutex, pc, arg, slot, out>>

(* variant: does not test for an empty ring *)
MallocTestMissing ==
    /\ pc[Allocator] = "idle"
    /\ pc' = [pc EXCEPT ![Allocator] = "take"]
    /\ UNCHANGED <<ptrs, head, tail, mutex, arg, slot, out, osOut>>

MallocTest ==
    /\ pc[Allocator] = "idle"
    /\ head # tail
    /\ pc' = [pc EXCEPT ![Allocator] = "take"]
    /\ UNCHANGED <<ptrs, head, tail, mutex, arg, slot, out, osOut>>

(* ... and the read of the slot with the advance of head_, which only      *)
(* malloc() touches.                                                       *)
MallocTake ==
    /\ pc[Allocator] = "take"
    /\ out' = out \cup {ptrs[head]}
    /\ head' = nextPos(head)
    /\ pc' = [pc EXCEPT ![Allocator] = "idle"]
    /\ UNCHANGED <<ptrs, tail, mutex, arg, slot, osOut>>

(* free(): a pointer outside the pool goes back to the operating system. *)
FreeToOs(t, b) ==
    /\ pc[t] = "idle"
    /\ b \in osOut
    /\ osOut' = osOut \ {b}
    /\ UNCHANGED <<ptrs, head, tail, mutex, pc, arg, slot, out>>

FreeCall(t, b) ==
    /\ pc[t] = "idle"
    /\ b \in out
    /\ out' = out \ {b}
    /\ arg' = [arg EXCEPT ![t] = b]
    /\ pc' = [pc EXCEPT ![t] = "lock"]
    /\ UNCHANGED <<ptrs, head, tail, mutex, slot, osOut>>

(* variant: never takes the mutex *)
FreeLockNever(t) ==
    /\ pc[t] = "lock"
    /\ pc' = [pc EXCEPT ![t] = "store"]
    /\ UNCHANGED <<ptrs, head, tail, mutex, arg, slot, out, osOut>>

FreeLock(t) ==
    /\ pc[t] = "lock"
    /\ IF SingleThreaded
         THEN mutex' = mutex
         ELSE mutex = NoThread /\ mutex' = t
    /\ pc' = [pc EXCEPT ![t] = "store"]
    /\ UNCHANGED <<ptrs, head, tail, arg, slot, out, osOut>>

FreeStore(t) ==
    /\ pc[t] = "store"
    /\ ptrs' = [ptrs EXCEPT ![tail] = arg[t]]
    /\ pc' = [pc EXCEPT ![t] = "advance"]
    /\ UNCHANGED <<head, tail, mutex, arg, slot, out, osOut>>

(* the unlock at the end of free(), and the return *)
Return(t) ==
    /\ mutex' = IF SingleThreaded THEN mutex ELSE NoThread
    /\ arg' = [arg EXCEPT ![t] = NullPtr]
    /\ pc' = [pc EXCEPT ![t] = "idle"]

FreeAdvance(t) ==
    /\ pc[t] = "advance"
    /\ tail' = nextPos(tail)
    /\ Return(t)
    /\ UNCHANGED <<ptrs, head, slot, out, osOut>>

(* The two stores of free() are plain: nothing orders them for a thread    *)
(* that does not take the mutex, and malloc() does not.                    *)
FreeAdvanceEarly(t) ==
    /\ t \in Reordering
    /\ pc[t] = "store"
    /\ slot' = [slot EXCEPT ![t] = tail]
    /\ tail' = nextPos(tail)
    /\ pc' = [pc EXCEPT ![t] = "storeLate"]
    /\ UNCHANGED <<ptrs, head, mutex, arg, out, osOut>>

FreeStoreLate(t) ==
    /\ pc[t] = "storeLate"
    /\ ptrs' = [ptrs EXCEPT ![slot[t]] = arg[t]]
    /\ Return(t)
    /\ UNCHANGED <<head, tail, slot, out, osOut>>

Next ==
    \/ MallocTest
    \/ MallocTake
    \/ \E b \in OsBuffers : MallocFromOs(b)
    \/ \E t \in Threads :
          \/ \E b \in OsBuffers : FreeToOs(t, b)
          \/ \E b \in Buffers : FreeCall(t, b)
          \/ FreeLock(t)
          \/ FreeStore(t)
          \/ FreeAdvance(t)
          \/ FreeAdvanceEarly(t)
          \/ FreeStoreLate(t)

Spec == Init /\ [][Next]_vars

-----------------------------------------------------------------------------
(* The slots that hold free buffers: from head_ up to tail_, around the ring. *)
InWindow(i) ==
    IF head <= tail THEN head <= i /\ i < tail ELSE head <= i \/ i < tail

Window == {i \in Slots : InWindow(i)}

(* remaining() *)
Remaining == IF tail > head THEN tail - head ELSE BufferCount - (head - tail) + 1

(* the buffers that a thread inside free() is giving back *)
InTransit == {arg[t] : t \in Threads} \ {NullPtr}

(* the slots that tail_ has passed and free() has still to write *)
Unwritten == {slot[t] : t \in {u \in Threads : pc[u] = "storeLate"}}

(* Type invariant of the pool's members and of the threads in its methods. *)
TypeOK ==
    /\ ptrs \in [Slots -> Buffers \cup {NullPtr}]
    /\ head \in Slots
    /\ tail \in Slots
    /\ mutex \in Threads \cup {NoThread}
    /\ pc \in [Threads -> {"idle", "take", "lock", "store", "advance", "storeLate"}]
    /\ \A t \in Threads : pc[t] = "take" => t = Allocator
    /\ arg \in [Threads -> Buffers \cup {NullPtr}]
    /\ slot \in [Threads -> Slots]
    /\ out \subseteq Buffers
    /\ osOut \subseteq OsBuffers

(* When malloc() has seen a non-empty ring and is about to read its head,  *)
(* the slot holds a buffer that nobody has: no user, and no thread that is *)
(* still inside free().  A buffer is never handed out twice.               *)
HandoutIsFresh ==
    pc[Allocator] = "take" => ptrs[head] \in Buffers \ (out \cup InTransit)

(* No buffer is lost and none is in two places, whatever the interleaving  *)
(* of malloc() with several free()s: each is in exactly one slot of the    *)
(* ring, or with a user, or with one thread inside free().                 *)
BuffersAccounted ==
    LET written == Window \ Unwritten
        ring == {ptrs[i] : i \in written}
    IN
    /\ ring \cup out \cup InTransit = Buffers
    /\ ring \cap out = {}
    /\ ring \cap InTransit = {}
    /\ out \cap InTransit = {}
    /\ \A i, j \in written : ptrs[i] = ptrs[j] => i = j
    /\ \A t, u \in Threads : arg[t] = arg[u] /\ arg[t] # NullPtr => t = u

(* remaining() counts the free slots of a ring that is not empty, with the *)
(* tail on either side of the head.                                        *)
RemainingIsExact == head # tail => Remaining = Cardinality(Window)

(* The ring is a first-in first-out free list: its content in order is the *)
(* queue, and free() takes effect when it advances tail_, also when it has *)
(* still to write the slot.                                                *)
Content(i) ==
    IF i \in Unwritten
      THEN arg[CHOOSE t \in Threads : pc[t] = "storeLate" /\ slot[t] = i]
      ELSE ptrs[i]

RingContent ==
    [i \in 1..Cardinality(Window) |-> Content((head + i - 1) % (BufferCount + 1))]

Returning == {arg[t] : t \in {u \in Threads : pc[u] # "storeLate"}} \ {NullPtr}

FL == INSTANCE FreeList WITH
        queue <- RingContent, held <- out, returning <- Returning, osHeld <- osOut

(* Every step of malloc() and free() is a step of the free list or none. *)
ImplementsFreeList == FL!ListSpec
=============================================================================
