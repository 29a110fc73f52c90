-------------------------- MODULE BufferPoolProofs --------------------------
(***************************************************************************)
(* Proofs about BufferPool for any number of buffers and threads, in a     *)
(* build whose stores become visible in program order, except for those of *)
(* the thread that allocates: nobody reads between them.                   *)
(***************************************************************************)
EXTENDS BufferPool, FiniteSetTheorems, SequenceTheorems, TLAPS

(* The window of a ring with head h and tail t, as a predicate on slots.   *)
In(h, t, i) == IF h <= t THEN h <= i /\ i < t ELSE h <= i \/ i < t

(* nextPos without the modulus. *)
LEMMA NextPosWraps ==
    ASSUME NEW p \in Slots
    PROVE  nextPos(p) = IF p = BufferCount THEN 0 ELSE p + 1
<1> p \in Nat /\ p <= BufferCount /\ BufferCount \in Nat
    BY PoolAssumption DEF Slots
<1>1. CASE p = BufferCount
    BY <1>1 DEF nextPos
<1>2. CASE p < BufferCount
    BY <1>2 DEF nextPos
<1> QED BY <1>1, <1>2

(* Advancing the head of a ring that is not empty takes the head slot out  *)
(* of the window, and nothing else.                                        *)
LEMMA WindowTake ==
    ASSUME NEW h \in Slots, NEW t \in Slots, NEW i \in Slots, h # t
    PROVE  In(nextPos(h), t, i) <=> In(h, t, i) /\ i # h
BY PoolAssumption, NextPosWraps DEF In, Slots

(* Advancing the tail of a ring that is not full adds the tail slot to the *)
(* window, and nothing else.                                               *)
LEMMA WindowAdvance ==
    ASSUME NEW h \in Slots, NEW t \in Slots, NEW i \in Slots, nextPos(t) # h
    PROVE  In(h, nextPos(t), i) <=> In(h, t, i) \/ i = t
BY PoolAssumption, NextPosWraps DEF In, Slots

(* The tail slot itself is free to be written. *)
LEMMA TailOutside ==
    ASSUME NEW h \in Slots, NEW t \in Slots
    PROVE  ~In(h, t, t)
BY PoolAssumption DEF In, Slots

(* The head of a ring that is not empty holds a free buffer. *)
LEMMA HeadInside ==
    ASSUME NEW h \in Slots, NEW t \in Slots, h # t
    PROVE  In(h, t, h)
BY PoolAssumption DEF In, Slots

(* In a full ring every slot but the tail's is in the window. *)
LEMMA FullWindow ==
    ASSUME NEW h \in Slots, NEW t \in Slots, NEW i \in Slots, nextPos(t) = h, i # t
    PROVE  In(h, t, i)
BY PoolAssumption, NextPosWraps DEF In, Slots

-----------------------------------------------------------------------------
(* Only the allocating thread may see its own stores out of order. *)
OwnReordering == Reordering \subseteq {Allocator}

(* A thread inside the critical section of free(). *)
Freeing(t) == pc[t] \in {"store", "advance", "storeLate"}

(* The slot that the allocating thread has still to write. *)
Late(i) == pc[Allocator] = "storeLate" /\ slot[Allocator] = i

(* Mutual exclusion of free(), by the mutex or because there is one thread; *)
(* what a thread inside malloc() or free() relies on.                       *)
Protocol ==
    /\ \A t \in Threads : pc[t] = "storeLate" => t = Allocator
    /\ pc[Allocator] = "storeLate" => In(head, tail, slot[Allocator])
    /\ \A t \in Threads : arg[t] # NullPtr <=> pc[t] = "lock" \/ Freeing(t)
    /\ \A t, u \in Threads : Freeing(t) /\ Freeing(u) => t = u
    /\ \A t \in Threads : Freeing(t) => SingleThreaded \/ mutex = t
    /\ \A t \in Threads : pc[t] = "advance" => ptrs[tail] = arg[t]
    /\ pc[Allocator] = "take" => head # tail

(* The slots that hold a free buffer. *)
Holds(i) == In(head, tail, i) /\ ~Late(i)

(* Where the buffers are: BuffersAccounted, slot by slot. *)
Placement ==
    /\ \A i \in Slots : Holds(i) =>
          /\ ptrs[i] \in Buffers \ out
          /\ \A t \in Threads : arg[t] # ptrs[i]
    /\ \A i, j \in Slots : Holds(i) /\ Holds(j) /\ ptrs[i] = ptrs[j] => i = j
    /\ \A t \in Threads : arg[t] \notin out
    /\ \A t, u \in Threads : arg[t] = arg[u] /\ arg[t] # NullPtr => t = u
    /\ \A b \in Buffers :
          \/ b \in out
          \/ \E t \in Threads : arg[t] = b
          \/ \E i \in Slots : Holds(i) /\ ptrs[i] = b

(* The inductive invariant. *)
Inv == TypeOK /\ Protocol /\ Placement

(* The size of an interval without one of its members. *)
LEMMA IntervalWithout ==
    ASSUME NEW n \in Nat, NEW x \in 0..n
    PROVE  IsFiniteSet((0..n) \ {x}) /\ Cardinality((0..n) \ {x}) = n
<1> DEFINE I == 0..n
<1>1. IsFiniteSet(I) /\ Cardinality(I) = n + 1
    BY FS_Interval
<1>2. x \in I
    OBVIOUS
<1> HIDE DEF I
<1>3. IsFiniteSet(I \ {x}) /\ Cardinality(I \ {x}) = n
    BY <1>1, <1>2, FS_RemoveElement
<1> QED BY <1>3 DEF I

(* The ring cannot be full while a thread is giving a buffer back and no   *)
(* slot is still to be written: its slots hold different buffers, all      *)
(* different from that one.                                                *)
LEMMA NotFull ==
    ASSUME TypeOK, Placement, NEW t \in Threads, arg[t] # NullPtr,
           pc[Allocator] # "storeLate"
    PROVE  nextPos(tail) # head
<1> SUFFICES ASSUME nextPos(tail) = head PROVE FALSE
    OBVIOUS
<1> DEFINE S == (0..BufferCount) \ {tail}
           T == (0..(BufferCount - 1)) \ {arg[t]}
           f == [i \in S |-> ptrs[i]]
<1>1. BufferCount \in Nat /\ BufferCount > 0
    BY PoolAssumption
<1>2. tail \in 0..BufferCount /\ arg[t] \in 0..(BufferCount - 1)
    BY DEF TypeOK, Slots, Buffers
<1>3. IsFiniteSet(S) /\ Cardinality(S) = BufferCount
    BY <1>1, <1>2, IntervalWithout
<1>4. IsFiniteSet(T) /\ Cardinality(T) = BufferCount - 1
    BY <1>1, <1>2, IntervalWithout, BufferCount - 1 \in Nat
<1>5. \A i \in S : Holds(i)
    BY FullWindow DEF TypeOK, Slots, Holds, Late
<1>6. f \in [S -> T]
    BY <1>5 DEF Placement, Slots, Buffers
<1>7. \A i, j \in S : f[i] = f[j] => i = j
    BY <1>5 DEF Placement, Slots
<1>8. Cardinality(T) < Cardinality(S)
    BY <1>1, <1>3, <1>4
<1> HIDE DEF S, T, f
<1> QED BY <1>3, <1>4, <1>6, <1>7, <1>8, FS_PigeonHole

(* The pool starts with every buffer in the ring. *)
LEMMA InitInv == Init => Inv
<1> SUFFICES ASSUME Init PROVE Inv
    OBVIOUS
<1>1. TypeOK
    BY PoolAssumption DEF Init, TypeOK, Slots, Buffers
<1>2. Protocol
    BY PoolAssumption DEF Init, Protocol, Freeing
<1>3. Placement
    <2>1. \A i \in Slots : Holds(i) <=> i \in Buffers
        BY PoolAssumption DEF Init, In, Slots, Buffers, Holds, Late
    <2>2. \A i \in Buffers : i \in Slots /\ ptrs[i] = i
        BY PoolAssumption DEF Init, Slots, Buffers
    <2> QED BY <2>1, <2>2, PoolAssumption DEF Init, Placement
<1> QED BY <1>1, <1>2, <1>3 DEF Inv

(* Every step of malloc() and free() keeps the invariant. *)
LEMMA NextInv == OwnReordering /\ Inv /\ [Next]_vars => Inv'
<1> SUFFICES ASSUME OwnReordering, Inv, [Next]_vars PROVE Inv'
    OBVIOUS
<1> USE DEF Inv
<1>0. Allocator \in Threads
    BY PoolAssumption
<1>1. CASE MallocTest
    <2>1. TypeOK' BY <1>1, PoolAssumption DEF TypeOK, MallocTest
    <2>2. Protocol' BY <1>1, PoolAssumption DEF TypeOK, MallocTest, Protocol, Freeing
    <2>3. \A i \in Slots : Holds(i)' <=> Holds(i)
        BY <1>0, <1>1 DEF MallocTest, TypeOK, Holds, Late
    <2>4. Placement' BY <1>1, <2>3 DEF MallocTest, Placement
    <2> QED BY <2>1, <2>2, <2>4
<1>2. CASE MallocTake
    <2>1. head # tail /\ head \in Slots /\ tail \in Slots /\ pc[Allocator] = "take"
        BY <1>2 DEF MallocTake, Protocol, TypeOK
    <2>2. Holds(head)
        BY <2>1, HeadInside DEF Holds, Late
    <2>3. ptrs[head] \in Buffers \ out /\ \A t \in Threads : arg[t] # ptrs[head]
        BY <2>1, <2>2 DEF Placement
    <2>4. nextPos(head) \in Slots
        BY <2>1, NextPosWraps, PoolAssumption DEF Slots
    <2>5. TypeOK'
        BY <1>2, <2>3, <2>4, PoolAssumption DEF TypeOK, MallocTake
    <2>6. Protocol'
        BY <1>2, PoolAssumption DEF TypeOK, MallocTake, Protocol, Freeing
    <2>7. pc'[Allocator] = "idle"
        BY <1>0, <1>2 DEF MallocTake, TypeOK
    <2>8. \A i \in Slots : In(head', tail', i) <=> In(head, tail, i) /\ i # head
        BY <1>2, <2>1, WindowTake DEF MallocTake
    <2>9. \A i \in Slots : Holds(i)' <=> Holds(i) /\ i # head
        BY <2>1, <2>7, <2>8 DEF Holds, Late
    <2>10. Placement'
        BY <1>2, <2>1, <2>2, <2>3, <2>9 DEF MallocTake, Placement
    <2> QED BY <2>5, <2>6, <2>10
<1>3. ASSUME NEW b \in OsBuffers, MallocFromOs(b) PROVE Inv'
    BY <1>3 DEF MallocFromOs, TypeOK, Protocol, Placement, Freeing, Holds, Late
<1>4. ASSUME NEW t \in Threads, NEW b \in OsBuffers, FreeToOs(t, b) PROVE Inv'
    BY <1>4 DEF FreeToOs, TypeOK, Protocol, Placement, Freeing, Holds, Late
<1>5. ASSUME NEW t \in Threads, NEW b \in Buffers, FreeCall(t, b) PROVE Inv'
    <2>1. TypeOK' BY <1>5 DEF TypeOK, FreeCall
    <2>2. b # NullPtr BY PoolAssumption
    <2>3. Protocol' BY <1>0, <1>5, <2>2 DEF TypeOK, FreeCall, Protocol, Freeing
    <2>4. arg[t] = NullPtr /\ NullPtr \notin Buffers
        BY <1>5, PoolAssumption DEF FreeCall, Protocol, Freeing
    <2>5. \A u \in Threads : arg'[u] = IF u = t THEN b ELSE arg[u]
        BY <1>5 DEF FreeCall, TypeOK
    <2>6. \A i \in Slots : Holds(i)' <=> Holds(i)
        BY <1>0, <1>5 DEF FreeCall, TypeOK, Holds, Late
    <2>7. Placement'
        BY <1>5, <2>2, <2>4, <2>5, <2>6 DEF FreeCall, Placement
    <2> QED BY <2>1, <2>3, <2>7
<1>6. ASSUME NEW t \in Threads, FreeLock(t) PROVE Inv'
    <2>1. TypeOK' BY <1>6 DEF TypeOK, FreeLock
    <2>2. Protocol'
        BY <1>6, PoolAssumption DEF TypeOK, FreeLock, Protocol, Freeing
    <2>3. \A i \in Slots : Holds(i)' <=> Holds(i)
        BY <1>0, <1>6 DEF FreeLock, TypeOK, Holds, Late
    <2>4. Placement' BY <1>6, <2>3 DEF FreeLock, Placement
    <2> QED BY <2>1, <2>2, <2>4
<1>7. ASSUME NEW t \in Threads, FreeStore(t) PROVE Inv'
    <2>1. TypeOK' BY <1>7 DEF TypeOK, FreeStore
    <2>2. Protocol' BY <1>0, <1>7 DEF TypeOK, FreeStore, Protocol, Freeing
    <2>3. ~In(head, tail, tail) BY TailOutside DEF TypeOK
    <2>4. \A i \in Slots : In(head, tail, i) => ptrs'[i] = ptrs[i]
        BY <1>7, <2>3 DEF TypeOK, FreeStore
    <2>5. \A i \in Slots : Holds(i)' <=> Holds(i)
        BY <1>0, <1>7 DEF FreeStore, TypeOK, Holds, Late
    <2>6. Placement' BY <1>7, <2>4, <2>5 DEF FreeStore, Placement, Holds
    <2> QED BY <2>1, <2>2, <2>6
<1>8. ASSUME NEW t \in Threads, FreeAdvance(t) PROVE Inv'
    <2> USE <1>8 DEF FreeAdvance, Return
    <2>1. arg[t] # NullPtr /\ ptrs[tail] = arg[t] /\ Freeing(t)
        BY DEF Protocol, Freeing
    <2>2. pc[Allocator] # "storeLate"
        BY <1>0, <2>1 DEF Protocol, Freeing
    <2>3. nextPos(tail) # head /\ head \in Slots /\ tail \in Slots
        BY <2>1, <2>2, NotFull DEF TypeOK
    <2>4. nextPos(tail) \in Slots
        BY <2>3, NextPosWraps, PoolAssumption DEF Slots
    <2>5. TypeOK' BY <2>4 DEF TypeOK
    <2>6. Protocol' BY <2>1, <2>2, <2>3, PoolAssumption DEF TypeOK, Protocol, Freeing
    <2>7. \A i \in Slots : In(head', tail', i) <=> In(head, tail, i) \/ i = tail
        BY <2>3, WindowAdvance
    <2>8. pc'[Allocator] # "storeLate"
        BY <1>0, <2>2 DEF TypeOK
    <2>9. \A i \in Slots : Holds(i)' <=> Holds(i) \/ i = tail
        BY <2>2, <2>7, <2>8 DEF Holds, Late
    <2>10. arg[t] \in Buffers /\ \A u \in Threads : arg'[u] # arg[t]
        BY <2>1, PoolAssumption DEF TypeOK, Placement
    <2>11. \A u \in Threads : arg'[u] = arg[u] \/ arg'[u] = NullPtr
        BY DEF TypeOK
    <2>12. Placement'
        BY <2>1, <2>3, <2>9, <2>10, <2>11, PoolAssumption DEF TypeOK, Placement
    <2> QED BY <2>5, <2>6, <2>12
<1>9. ASSUME NEW t \in Threads, FreeAdvanceEarly(t) PROVE Inv'
    <2> USE <1>9 DEF FreeAdvanceEarly
    <2>1. t = Allocator
        BY DEF OwnReordering
    <2>2. pc[t] = "store" /\ arg[t] # NullPtr /\ Freeing(t)
        BY DEF Protocol, Freeing
    <2>3. nextPos(tail) # head /\ head \in Slots /\ tail \in Slots
        BY <2>1, <2>2, NotFull DEF TypeOK
    <2>4. nextPos(tail) \in Slots
        BY <2>3, NextPosWraps, PoolAssumption DEF Slots
    <2>5. TypeOK' BY <2>3, <2>4 DEF TypeOK
    <2>6. pc'[Allocator] = "storeLate" /\ slot'[Allocator] = tail
        BY <2>1 DEF TypeOK
    <2>7. \A i \in Slots : In(head', tail', i) <=> In(head, tail, i) \/ i = tail
        BY <2>3, WindowAdvance
    <2>8. ~In(head, tail, tail)
        BY <2>3, TailOutside
    <2>9. Protocol'
        BY <2>1, <2>2, <2>3, <2>6, <2>7 DEF TypeOK, Protocol, Freeing
    <2>10. \A i \in Slots : Holds(i)' <=> Holds(i)
        BY <2>1, <2>2, <2>6, <2>7, <2>8 DEF Holds, Late
    <2>11. Placement' BY <2>10 DEF Placement
    <2> QED BY <2>5, <2>9, <2>11
<1>10. ASSUME NEW t \in Threads, FreeStoreLate(t) PROVE Inv'
    <2> USE <1>10 DEF FreeStoreLate, Return
    <2>1. t = Allocator /\ pc[t] = "storeLate" /\ arg[t] # NullPtr /\ Freeing(t)
        BY DEF Protocol, Freeing
    <2> DEFINE s == slot[t]
    <2>2. s \in Slots /\ In(head, tail, s) /\ arg[t] \in Buffers
        BY <2>1 DEF Protocol, TypeOK
    <2>3. TypeOK' BY <2>2 DEF TypeOK
    <2>4. pc'[Allocator] = "idle"
        BY <2>1 DEF TypeOK
    <2>5. \A u \in Threads : u # t => ~Freeing(u)
        BY <2>1 DEF Protocol
    <2>6. Protocol'
        BY <2>1, <2>4, <2>5, PoolAssumption DEF TypeOK, Protocol, Freeing
    <2>7. \A i \in Slots : Holds(i)' <=> Holds(i) \/ i = s
        BY <2>1, <2>2, <2>4 DEF Holds, Late
    <2>8. \A i \in Slots : ptrs'[i] = IF i = s THEN arg[t] ELSE ptrs[i]
        BY DEF TypeOK
    <2>9. ~Holds(s)
        BY <2>1 DEF Holds, Late
    <2>10. \A u \in Threads : arg'[u] # arg[t]
        BY <2>1, PoolAssumption DEF TypeOK, Placement
    <2>11. \A u \in Threads : arg'[u] = IF u = t THEN NullPtr ELSE arg[u]
        BY DEF TypeOK
    <2>12. arg[t] \notin out /\ \A i \in Slots : Holds(i) => ptrs[i] # arg[t]
        BY DEF Placement
    <2>13. out' = out
        OBVIOUS
    <2> HIDE DEF s
    <2>14. \A i \in Slots : Holds(i)' =>
              ptrs'[i] \in Buffers \ out' /\ \A u \in Threads : arg'[u] # ptrs'[i]
        <3> SUFFICES ASSUME NEW i \in Slots, Holds(i)'
                     PROVE  ptrs'[i] \in Buffers \ out' /\ \A u \in Threads : arg'[u] # ptrs'[i]
            OBVIOUS
        <3>1. CASE i = s
            BY <3>1, <2>2, <2>8, <2>10, <2>12, <2>13
        <3>2. CASE i # s
            <4>1. Holds(i) /\ ptrs'[i] = ptrs[i] BY <3>2, <2>7, <2>8
            <4>2. ptrs[i] \in Buffers \ out /\ \A u \in Threads : arg[u] # ptrs[i]
                BY <4>1 DEF Placement
            <4>3. ptrs[i] # NullPtr BY <4>2, PoolAssumption
            <4> QED BY <4>1, <4>2, <4>3, <2>11, <2>13
        <3> QED BY <3>1, <3>2
    <2>15. \A i, j \in Slots : Holds(i)' /\ Holds(j)' /\ ptrs'[i] = ptrs'[j] => i = j
        BY <2>7, <2>8, <2>9, <2>12 DEF Placement
    <2>16. \A u \in Threads : arg'[u] \notin out'
        <3>1. NullPtr \notin out BY PoolAssumption DEF TypeOK
        <3> QED BY <3>1, <2>11, <2>13 DEF Placement
    <2>17. \A u, v \in Threads : arg'[u] = arg'[v] /\ arg'[u] # NullPtr => u = v
        BY <2>11 DEF Placement
    <2>18. \A b \in Buffers :
              \/ b \in out'
              \/ \E u \in Threads : arg'[u] = b
              \/ \E i \in Slots : Holds(i)' /\ ptrs'[i] = b
        BY <2>2, <2>7, <2>8, <2>9, <2>11, <2>13 DEF Placement
    <2>19. Placement'
        BY <2>14, <2>15, <2>16, <2>17, <2>18 DEF Placement
    <2> QED BY <2>3, <2>6, <2>19
<1>11. CASE UNCHANGED vars
    BY <1>11 DEF vars, TypeOK, Protocol, Placement, Freeing, Holds, Late
<1> QED BY <1>1, <1>2, <1>3, <1>4, <1>5, <1>6, <1>7, <1>8, <1>9, <1>10, <1>11 DEF Next

-----------------------------------------------------------------------------
(* The window of a state, and the buffers on their way back. *)
LEMMA InvImplies ==
    ASSUME Inv PROVE HandoutIsFresh /\ BuffersAccounted
<1> DEFINE W == Window \ Unwritten
<1>1. \A i \in Slots : i \in Unwritten <=> Late(i)
    BY SMTT(60), PoolAssumption DEF Inv, Protocol, Unwritten, Late
<1>2. \A i \in Slots : i \in W <=> Holds(i)
    BY <1>1 DEF Window, InWindow, In, Holds
<1>3. W \subseteq Slots
    BY DEF Window
<1> HIDE DEF W
<1>4. HandoutIsFresh
    BY HeadInside DEF Inv, TypeOK, Protocol, Placement, HandoutIsFresh, InTransit, Holds, Late
<1>5. BuffersAccounted
    <2> DEFINE ring == {ptrs[i] : i \in W}
    <2>1. ring \cup out \cup InTransit = Buffers
        <3>1. ring \subseteq Buffers
            BY <1>2, <1>3 DEF Inv, Placement
        <3>2. out \subseteq Buffers /\ InTransit \subseteq Buffers
            BY DEF Inv, TypeOK, InTransit
        <3>3. ASSUME NEW b \in Buffers PROVE b \in ring \cup out \cup InTransit
            BY <1>2, PoolAssumption DEF Inv, Placement, InTransit
        <3> QED BY <3>1, <3>2, <3>3
    <2>2. ring \cap out = {} /\ ring \cap InTransit = {}
        BY <1>2, <1>3 DEF Inv, Placement, InTransit
    <2>3. out \cap InTransit = {}
        BY DEF Inv, Placement, InTransit
    <2>4. \A i, j \in W : ptrs[i] = ptrs[j] => i = j
        BY <1>2, <1>3 DEF Inv, Placement
    <2>5. \A t, u \in Threads : arg[t] = arg[u] /\ arg[t] # NullPtr => t = u
        BY DEF Inv, Placement
    <2> QED BY <2>1, <2>2, <2>3, <2>4, <2>5 DEF BuffersAccounted, W
<1> QED BY <1>4, <1>5

(* The invariant holds throughout every run of the pool. *)
THEOREM PoolInvariant == OwnReordering => (Spec => []Inv)
<1> SUFFICES ASSUME OwnReordering PROVE Spec => []Inv
    OBVIOUS
<1>1. Inv /\ [Next]_vars => Inv' BY NextInv
<1> QED BY InitInv, <1>1, PTL DEF Spec

(* The pool's members and the threads in its methods keep their types.     *)
THEOREM PoolTypeCorrect == OwnReordering => (Spec => []TypeOK)
<1>1. Inv => TypeOK BY DEF Inv
<1> QED BY <1>1, PoolInvariant, PTL

(* malloc() takes no lock, and still never hands out a buffer that a user, *)
(* or a thread inside free(), has: for any pool size, any number of        *)
(* threads, and any interleaving.                                          *)
THEOREM PoolHandoutIsFresh == OwnReordering => (Spec => []HandoutIsFresh)
<1>1. Inv => HandoutIsFresh BY InvImplies
<1> QED BY <1>1, PoolInvariant, PTL

(* The pool loses no buffer and duplicates none. *)
THEOREM PoolBuffersAccounted == OwnReordering => (Spec => []BuffersAccounted)
<1>1. Inv => BuffersAccounted BY InvImplies
<1> QED BY <1>1, PoolInvariant, PTL

-----------------------------------------------------------------------------
(* The number of buffers in the ring, from its two ends. *)
Used == IF head <= tail THEN tail - head ELSE BufferCount + 1 - (head - tail)

(* The size of a half-open interval. *)
LEMMA IntervalSize ==
    ASSUME NEW a \in Int, NEW b \in Int, a <= b
    PROVE  IsFiniteSet(a..(b - 1)) /\ Cardinality(a..(b - 1)) = b - a
<1> DEFINE c == b - 1
<1>1. c \in Int /\ (a > c <=> a = b)
    OBVIOUS
<1> HIDE DEF c
<1>2. IsFiniteSet(a..c) /\ Cardinality(a..c) = IF a > c THEN 0 ELSE c - a + 1
    BY <1>1, FS_Interval
<1> QED BY <1>1, <1>2 DEF c

(* The window has that many slots, with the tail on either side of the head. *)
LEMMA WindowSize ==
    ASSUME TypeOK PROVE Cardinality(Window) = Used
<1>0. BufferCount \in Nat /\ head \in 0..BufferCount /\ tail \in 0..BufferCount
    BY PoolAssumption DEF TypeOK, Slots
<1>1. CASE head <= tail
    <2>1. Window = head..(tail - 1)
        BY <1>0, <1>1 DEF Window, InWindow, Slots
    <2>2. Cardinality(head..(tail - 1)) = tail - head
        BY <1>0, <1>1, IntervalSize
    <2> QED BY <1>1, <2>1, <2>2 DEF Used
<1>2. CASE head > tail
    <2> DEFINE A == head..BufferCount
               B == 0..(tail - 1)
    <2>1. Window = A \cup B /\ A \cap B = {}
        BY <1>0, <1>2 DEF Window, InWindow, Slots
    <2>2. IsFiniteSet(A) /\ Cardinality(A) = BufferCount - head + 1
        BY <1>0, FS_Interval
    <2>3. IsFiniteSet(B) /\ Cardinality(B) = tail
        BY <1>0, FS_Interval
    <2> HIDE DEF A, B
    <2>4. Cardinality(A \cap B) = 0
        BY <2>1, FS_EmptySet
    <2>5. Cardinality(Window) = Cardinality(A) + Cardinality(B) - Cardinality(A \cap B)
        BY <2>1, <2>2, <2>3, FS_Union
    <2> QED BY <1>0, <1>2, <2>2, <2>3, <2>4, <2>5 DEF Used
<1> QED BY <1>0, <1>1, <1>2

(* remaining() is exact in every reachable state with buffers left.        *)
THEOREM PoolRemainingIsExact == OwnReordering => (Spec => []RemainingIsExact)
<1>1. TypeOK => RemainingIsExact
    BY WindowSize, PoolAssumption DEF TypeOK, Slots, RemainingIsExact, Remaining, Used
<1> QED BY <1>1, PoolTypeCorrect, PTL

-----------------------------------------------------------------------------
(* The k-th slot from h on, around the ring. *)
Place(h, k) == IF h + k - 1 <= BufferCount THEN h + k - 1 ELSE h + k - 1 - (BufferCount + 1)

(* What slot i holds, or will when the allocating thread has written it. *)
Holding(i) == IF Late(i) THEN arg[Allocator] ELSE ptrs[i]

(* The free list that the ring stands for, slot by slot. *)
RingFacts ==
    /\ Used \in Nat
    /\ RingContent \in Seq(Buffers)
    /\ Len(RingContent) = Used
    /\ \A k \in 1..Used :
          /\ Place(head, k) \in Slots
          /\ In(head, tail, Place(head, k))
          /\ RingContent[k] = Holding(Place(head, k))

(* Place without the case distinction. *)
LEMMA PlaceWraps ==
    ASSUME NEW h \in Slots, NEW k \in 1..(BufferCount + 1)
    PROVE  Place(h, k) \in Slots /\ (h + k - 1) % (BufferCount + 1) = Place(h, k)
<1> DEFINE n == BufferCount + 1
           p == h + k - 1
<1>1. n \in Nat \ {0} /\ p \in 0..(2 * n - 2)
    BY PoolAssumption DEF Slots
<1>2. CASE p < n
    <2>1. p % n = p
        <3> HIDE DEF n, p
        <3> QED BY <1>1, <1>2
    <2> QED BY <1>1, <1>2, <2>1, PoolAssumption DEF Place, Slots
<1>3. CASE p >= n
    <2>1. p % n = p - n
        <3> HIDE DEF n, p
        <3>1. PICK q \in Nat : q = p - n /\ q < n
            BY <1>1, <1>3
        <3>2. (q + n) % n = q
            BY <1>1, <3>1
        <3> QED BY <1>1, <3>1, <3>2
    <2> QED BY <1>1, <1>3, <2>1, PoolAssumption DEF Place, Slots
<1> QED BY <1>1, <1>2, <1>3

(* RingFacts follows from the inductive invariant. *)
LEMMA RingIs == Inv => RingFacts
<1> SUFFICES ASSUME Inv PROVE RingFacts
    OBVIOUS
<1>0. BufferCount \in Nat /\ head \in 0..BufferCount /\ tail \in 0..BufferCount
    BY PoolAssumption DEF Inv, TypeOK, Slots
<1>1. Used \in 0..BufferCount
    BY <1>0 DEF Used
<1>2. Cardinality(Window) = Used
    BY WindowSize DEF Inv
<1>3. \A i \in Slots : i \in Unwritten <=> Late(i)
    BY PoolAssumption DEF Inv, Protocol, Unwritten, Late
<1>4. \A i \in Slots : Content(i) = Holding(i)
    <2> SUFFICES ASSUME NEW i \in Slots PROVE Content(i) = Holding(i)
        OBVIOUS
    <2>1. CASE Late(i)
        <3> DEFINE w == CHOOSE t \in Threads : pc[t] = "storeLate" /\ slot[t] = i
        <3>1. \A t \in Threads : pc[t] = "storeLate" /\ slot[t] = i <=> t = Allocator
            BY <2>1, PoolAssumption DEF Late, Inv, Protocol
        <3>2. w = Allocator
            BY <3>1, PoolAssumption
        <3>3. Content(i) = arg[w]
            BY <1>3, <2>1 DEF Content
        <3> HIDE DEF w
        <3> QED BY <2>1, <3>2, <3>3 DEF Holding
    <2>2. CASE ~Late(i)
        BY <1>3, <2>2 DEF Content, Holding
    <2> QED BY <2>1, <2>2
<1>5. ASSUME NEW k \in 1..Used
      PROVE  /\ Place(head, k) \in Slots
             /\ In(head, tail, Place(head, k))
             /\ (head + k - 1) % (BufferCount + 1) = Place(head, k)
    <2>1. k \in 1..(BufferCount + 1) /\ head \in Slots
        BY <1>0, <1>1 DEF Slots
    <2>2. Place(head, k) \in Slots /\ (head + k - 1) % (BufferCount + 1) = Place(head, k)
        BY <2>1, PlaceWraps
    <2>3. In(head, tail, Place(head, k))
        BY <1>0 DEF Place, In, Used
    <2> QED BY <2>2, <2>3
<1>6. ASSUME NEW i \in Slots, In(head, tail, i) PROVE Holding(i) \in Buffers
    <2>1. CASE Late(i)
        BY <2>1, PoolAssumption DEF Inv, TypeOK, Protocol, Freeing, Late, Holding
    <2>2. CASE ~Late(i)
        BY <1>6, <2>2 DEF Inv, Placement, Holds, Holding
    <2> QED BY <2>1, <2>2
<1>7. RingContent = [k \in 1..Used |-> Holding(Place(head, k))]
    BY <1>2, <1>4, <1>5 DEF RingContent
<1>8. \A k \in 1..Used : Holding(Place(head, k)) \in Buffers
    BY <1>5, <1>6
<1>9. RingContent \in Seq(Buffers) /\ Len(RingContent) = Used
    BY <1>1, <1>7, <1>8
<1> QED BY <1>1, <1>5, <1>7, <1>9 DEF RingFacts

(* A step that moves neither end of the ring and rewrites no slot between  *)
(* them leaves the free list as it is.                                     *)
LEMMA QueueKept ==
    ASSUME RingFacts, RingFacts', head' = head, tail' = tail,
           \A i \in Slots : In(head, tail, i) => Holding(i)' = Holding(i)
    PROVE  RingContent' = RingContent
<1>1. Used' = Used
    BY DEF Used
<1>2. \A k \in 1..Used : RingContent'[k] = RingContent[k]
    BY <1>1 DEF RingFacts
<1> QED BY <1>1, <1>2, SeqEqual DEF RingFacts

(* Advancing head_ takes the first buffer of the free list. *)
LEMMA QueueTaken ==
    ASSUME TypeOK, RingFacts, RingFacts', head # tail, head' = nextPos(head), tail' = tail,
           \A i \in Slots : Holding(i)' = Holding(i)
    PROVE  /\ RingContent # <<>>
           /\ Head(RingContent) = Holding(head)
           /\ RingContent' = Tail(RingContent)
<1>0. BufferCount \in Nat /\ head \in 0..BufferCount /\ tail \in 0..BufferCount
    BY PoolAssumption DEF TypeOK, Slots
<1>1. head' = IF head = BufferCount THEN 0 ELSE head + 1
    BY NextPosWraps DEF TypeOK
<1>2. Used \in 1..BufferCount /\ Used' = Used - 1
    BY <1>0, <1>1 DEF Used
<1>3. Place(head, 1) = head
    BY <1>0 DEF Place
<1>4. RingContent # <<>> /\ Head(RingContent) = RingContent[1]
    BY <1>2 DEF RingFacts
<1>5. RingContent[1] = Holding(head)
    BY <1>2, <1>3 DEF RingFacts
<1>6. ASSUME NEW k \in 1..(Used - 1)
      PROVE  RingContent'[k] = RingContent[k + 1]
    <2>1. k + 1 \in 1..Used /\ k \in 1..Used' /\ k \in 1..BufferCount
        BY <1>0, <1>2
    <2>2. Place(head', k) = Place(head, k + 1)
        BY <1>0, <1>1, <2>1 DEF Place
    <2>3. PICK j \in Slots : j = Place(head, k + 1) /\ RingContent[k + 1] = Holding(j)
        BY <2>1 DEF RingFacts
    <2>4. RingContent'[k] = Holding(Place(head, k))'
        BY <2>1 DEF RingFacts
    <2>5. Holding(Place(head, k))' = Holding(j)'
        BY <2>2, <2>3
    <2> QED BY <2>3, <2>4, <2>5
<1> DEFINE rest == Tail(RingContent)
<1>7. /\ rest \in Seq(Buffers)
      /\ Len(rest) = Used - 1
      /\ \A k \in 1..(Used - 1) : rest[k] = RingContent[k + 1]
    BY <1>4, HeadTailProperties DEF RingFacts
<1>8. RingContent' \in Seq(Buffers) /\ Len(RingContent') = Used - 1
    BY <1>2 DEF RingFacts
<1> HIDE DEF rest
<1>9. RingContent' = rest
    BY <1>6, <1>7, <1>8, SeqEqual
<1> QED BY <1>4, <1>5, <1>9 DEF rest

(* Advancing tail_ appends the buffer of the slot it passes. *)
LEMMA QueueAppended ==
    ASSUME TypeOK, RingFacts, RingFacts', nextPos(tail) # head, head' = head,
           tail' = nextPos(tail), NEW b \in Buffers,
           \A i \in Slots : In(head, tail, i) => Holding(i)' = Holding(i),
           NEW s \in Slots, s = tail, Holding(s)' = b
    PROVE  RingContent' = Append(RingContent, b)
<1>0. BufferCount \in Nat /\ head \in 0..BufferCount /\ tail \in 0..BufferCount
    BY PoolAssumption DEF TypeOK, Slots
<1>1. tail' = IF tail = BufferCount THEN 0 ELSE tail + 1
    BY NextPosWraps DEF TypeOK
<1>2. Used \in Nat /\ Used' = Used + 1
    BY <1>0, <1>1 DEF Used
<1>3. Place(head, Used + 1) = tail
    BY <1>0 DEF Place, Used
<1>4. RingContent'[Used + 1] = b
    <2> DEFINE n == Used + 1
    <2>1. n \in 1..Used'
        BY <1>2
    <2>2. RingContent'[n] = Holding(s)'
        BY <1>3, <2>1 DEF RingFacts
    <2> QED BY <2>2
<1>5. ASSUME NEW k \in 1..Used
      PROVE  RingContent'[k] = RingContent[k]
    BY <1>2 DEF RingFacts
<1> DEFINE more == Append(RingContent, b)
<1>6. /\ more \in Seq(Buffers)
      /\ Len(more) = Used + 1
      /\ \A k \in 1..Used : more[k] = RingContent[k]
      /\ more[Used + 1] = b
    BY AppendProperties DEF RingFacts
<1>7. RingContent' \in Seq(Buffers) /\ Len(RingContent') = Used + 1
    BY <1>2 DEF RingFacts
<1> HIDE DEF more
<1>8. \A k \in 1..(Used + 1) : RingContent'[k] = more[k]
    BY <1>2, <1>4, <1>5, <1>6
<1>9. RingContent' = more
    BY <1>6, <1>7, <1>8, SeqEqual
<1> QED BY <1>9 DEF more

(* The pool starts as a free list with every buffer on it, once. *)
LEMMA InitImplements == Init => FL!ListInit
<1> SUFFICES ASSUME Init PROVE FL!ListInit
    OBVIOUS
<1>1. Inv /\ RingFacts
    BY InitInv, RingIs
<1>2. BufferCount \in Nat /\ head = 0 /\ tail = BufferCount
    BY PoolAssumption DEF Init
<1>3. Used = BufferCount
    BY <1>2 DEF Used
<1>4. ASSUME NEW k \in 1..BufferCount PROVE RingContent[k] = k - 1
    <2>1. Place(head, k) = k - 1 /\ k - 1 \in Slots /\ k - 1 < BufferCount
        BY <1>2 DEF Place, Slots
    <2>2. ~Late(k - 1)
        BY PoolAssumption DEF Init, Late
    <2>3. Holding(k - 1) = k - 1
        BY <2>1, <2>2 DEF Holding, Init
    <2> QED BY <1>1, <1>3, <2>1, <2>3 DEF RingFacts
<1>5. RingContent \in Seq(Buffers) /\ DOMAIN RingContent = 1..BufferCount
    BY <1>1, <1>3 DEF RingFacts
<1>6. \A i, j \in 1..BufferCount : RingContent[i] = RingContent[j] => i = j
    BY <1>2, <1>4
<1>7. \A b \in Buffers : \E i \in 1..BufferCount : RingContent[i] = b
    <2> TAKE b \in Buffers
    <2>1. b + 1 \in 1..BufferCount /\ (b + 1) - 1 = b
        BY <1>2 DEF Buffers
    <2> QED BY <1>4, <2>1
<1>8. Returning = {}
    BY DEF Init, Returning
<1> QED BY <1>5, <1>6, <1>7, <1>8 DEF FL!ListInit, Init

(* Every step of the pool is a step of the free list, or changes nothing   *)
(* that its users see.                                                     *)
LEMMA NextImplements ==
    ASSUME OwnReordering, Inv, Inv', RingFacts, RingFacts', [Next]_vars
    PROVE  [FL!ListNext]_(FL!listVars)
<1> USE DEF Inv
<1>0. Allocator \in Threads /\ NullPtr \notin Buffers
    BY PoolAssumption
<1> DEFINE Stutters == UNCHANGED <<RingContent, out, Returning, osOut>>
<1>s. Stutters => UNCHANGED FL!listVars
    BY DEF FL!listVars
<1>1. CASE MallocTest
    <2>1. \A i \in Slots : Holding(i)' = Holding(i)
        BY <1>0, <1>1 DEF MallocTest, TypeOK, Holding, Late
    <2>2. RingContent' = RingContent
        BY <1>1, <2>1, QueueKept DEF MallocTest
    <2>3. \A u \in Threads : pc[u] = "storeLate" <=> pc'[u] = "storeLate"
        BY <1>1 DEF MallocTest, TypeOK
    <2>4. Returning' = Returning
        BY <1>1, <2>3 DEF MallocTest, Returning
    <2> QED BY <1>1, <1>s, <2>2, <2>4 DEF MallocTest
<1>2. CASE MallocTake
    <2>1. head # tail /\ head \in Slots /\ tail \in Slots /\ pc[Allocator] = "take"
        BY <1>2 DEF MallocTake, Protocol, TypeOK
    <2>2. \A i \in Slots : Holding(i) = ptrs[i] /\ Holding(i)' = Holding(i)
        BY <1>0, <1>2 DEF MallocTake, TypeOK, Holding, Late
    <2>3. Holds(head)
        BY <2>1, HeadInside DEF Holds, Late
    <2>4. Holding(head) = ptrs[head] /\ ptrs[head] \notin out
        BY <2>1, <2>2, <2>3 DEF Placement
    <2>5. /\ RingContent # <<>>
          /\ Head(RingContent) = Holding(head)
          /\ RingContent' = Tail(RingContent)
        BY <1>2, <2>1, <2>2, QueueTaken DEF MallocTake
    <2>6. \A u \in Threads : pc[u] = "storeLate" <=> pc'[u] = "storeLate"
        BY <1>2 DEF MallocTake, TypeOK
    <2>7. Returning' = Returning
        BY <1>2, <2>6 DEF MallocTake, Returning
    <2>8. FL!Allocate
        BY <1>2, <2>4, <2>5, <2>7 DEF MallocTake, FL!Allocate
    <2> QED BY <2>8 DEF FL!ListNext
<1>3. ASSUME NEW b \in OsBuffers, MallocFromOs(b) PROVE FL!ListNext
    <2>1. \A i \in Slots : Holding(i)' = Holding(i)
        BY <1>3 DEF MallocFromOs, Holding, Late
    <2>2. RingContent' = RingContent
        BY <1>3, <2>1, QueueKept DEF MallocFromOs
    <2>3. Used = 0
        BY <1>3, PoolAssumption DEF MallocFromOs, Used, TypeOK, Slots
    <2>4. RingContent = <<>>
        BY <2>3 DEF RingFacts
    <2>5. Returning' = Returning
        BY <1>3 DEF MallocFromOs, Returning
    <2>6. FL!AllocateFromOs(b)
        BY <1>3, <2>2, <2>4, <2>5 DEF MallocFromOs, FL!AllocateFromOs
    <2> QED BY <2>6 DEF FL!ListNext
<1>4. ASSUME NEW t \in Threads, NEW b \in OsBuffers, FreeToOs(t, b) PROVE FL!ListNext
    <2>1. \A i \in Slots : Holding(i)' = Holding(i)
        BY <1>4 DEF FreeToOs, Holding, Late
    <2>2. RingContent' = RingContent
        BY <1>4, <2>1, QueueKept DEF FreeToOs
    <2>3. Returning' = Returning
        BY <1>4 DEF FreeToOs, Returning
    <2>4. FL!ReleaseToOs(b)
        BY <1>4, <2>2, <2>3 DEF FreeToOs, FL!ReleaseToOs
    <2> QED BY <2>4 DEF FL!ListNext
<1>5. ASSUME NEW t \in Threads, NEW b \in Buffers, FreeCall(t, b) PROVE FL!ListNext
    <2>1. arg[t] = NullPtr /\ b # NullPtr
        BY <1>0, <1>5 DEF FreeCall, Protocol, Freeing
    <2>2. \A u \in Threads : arg'[u] = IF u = t THEN b ELSE arg[u]
        BY <1>5 DEF FreeCall, TypeOK
    <2>3. \A u \in Threads : pc'[u] = IF u = t THEN "lock" ELSE pc[u]
        BY <1>5 DEF FreeCall, TypeOK
    <2>4. \A i \in Slots : Holding(i)' = Holding(i)
        BY <1>0, <1>5, <2>2, <2>3 DEF FreeCall, Holding, Late
    <2>5. RingContent' = RingContent
        BY <1>5, <2>4, QueueKept DEF FreeCall
    <2>6. Returning' = Returning \cup {b}
        BY <1>5, <2>1, <2>2, <2>3 DEF FreeCall, Returning
    <2>7. FL!Release(b)
        BY <1>5, <2>5, <2>6 DEF FreeCall, FL!Release
    <2> QED BY <2>7 DEF FL!ListNext
<1>6. ASSUME NEW t \in Threads, FreeLock(t) PROVE Stutters
    <2>1. \A u \in Threads : pc[u] = "storeLate" <=> pc'[u] = "storeLate"
        BY <1>6 DEF FreeLock, TypeOK
    <2>2. \A i \in Slots : Holding(i)' = Holding(i)
        BY <1>0, <1>6, <2>1 DEF FreeLock, Holding, Late
    <2>3. RingContent' = RingContent
        BY <1>6, <2>2, QueueKept DEF FreeLock
    <2>4. Returning' = Returning
        BY <1>6, <2>1 DEF FreeLock, Returning
    <2> QED BY <1>6, <2>3, <2>4 DEF FreeLock
<1>7. ASSUME NEW t \in Threads, FreeStore(t) PROVE Stutters
    <2>1. pc[Allocator] # "storeLate"
        BY <1>0, <1>7 DEF FreeStore, Protocol, Freeing
    <2>2. \A u \in Threads : pc[u] = "storeLate" <=> pc'[u] = "storeLate"
        BY <1>7 DEF FreeStore, TypeOK
    <2>3. \A i \in Slots : In(head, tail, i) => ptrs'[i] = ptrs[i]
        BY <1>7, TailOutside DEF FreeStore, TypeOK
    <2>4. \A i \in Slots : In(head, tail, i) => Holding(i)' = Holding(i)
        BY <1>0, <2>1, <2>2, <2>3 DEF Holding, Late
    <2>5. RingContent' = RingContent
        BY <1>7, <2>4, QueueKept DEF FreeStore
    <2>6. Returning' = Returning
        BY <1>7, <2>2 DEF FreeStore, Returning
    <2> QED BY <1>7, <2>5, <2>6 DEF FreeStore
<1>8. ASSUME NEW t \in Threads, FreeAdvance(t) PROVE FL!ListNext
    <2>1. pc[Allocator] # "storeLate" /\ arg[t] \in Buffers /\ ptrs[tail] = arg[t]
        BY <1>0, <1>8 DEF FreeAdvance, Protocol, Freeing, TypeOK
    <2>2. nextPos(tail) # head
        BY <1>0, <2>1, NotFull
    <2>3. \A u \in Threads : pc[u] = "storeLate" <=> pc'[u] = "storeLate"
        BY <1>8 DEF FreeAdvance, Return, TypeOK
    <2>4. \A i \in Slots : Holding(i)' = Holding(i) /\ Holding(i) = ptrs[i]
        BY <1>0, <1>8, <2>1, <2>3 DEF FreeAdvance, Holding, Late
    <2>5. PICK b \in Buffers : b = arg[t]
        BY <2>1
    <2>6. PICK s \in Slots : s = tail
        BY DEF TypeOK
    <2>7. Holding(s)' = b
        BY <2>1, <2>4, <2>5, <2>6
    <2>8. RingContent' = Append(RingContent, b)
        BY <1>8, <2>2, <2>4, <2>6, <2>7, QueueAppended DEF FreeAdvance
    <2>9. \A u \in Threads : arg'[u] = IF u = t THEN NullPtr ELSE arg[u]
        BY <1>8 DEF FreeAdvance, Return, TypeOK
    <2>10. \A u \in Threads : arg[u] = b => u = t
        BY <1>0, <2>5 DEF Placement
    <2>11. b \in Returning /\ b # NullPtr
        BY <1>0, <1>8, <2>5 DEF FreeAdvance, Returning
    <2>12. Returning' = Returning \ {b}
        BY <2>3, <2>5, <2>9, <2>10 DEF Returning
    <2>13. FL!Requeue(b)
        BY <1>8, <2>8, <2>11, <2>12 DEF FreeAdvance, FL!Requeue
    <2> QED BY <2>13 DEF FL!ListNext
<1>9. ASSUME NEW t \in Threads, FreeAdvanceEarly(t) PROVE FL!ListNext
    <2>1. t = Allocator /\ pc[Allocator] = "store" /\ arg[t] \in Buffers
        BY SMTT(60), <1>0, <1>9 DEF FreeAdvanceEarly, OwnReordering, Protocol, Freeing, TypeOK
    <2>2. nextPos(tail) # head
        BY <1>0, <2>1, NotFull
    <2>3. \A u \in Threads : pc'[u] = IF u = t THEN "storeLate" ELSE pc[u]
        BY <1>9 DEF FreeAdvanceEarly, TypeOK
    <2>4. slot'[Allocator] = tail
        BY <1>0, <1>9, <2>1 DEF FreeAdvanceEarly, TypeOK
    <2>5. \A i \in Slots : In(head, tail, i) => Holding(i)' = Holding(i)
        BY <1>0, <1>9, <2>1, <2>3, <2>4, TailOutside DEF FreeAdvanceEarly, Holding, Late, TypeOK
    <2>6. PICK b \in Buffers : b = arg[t]
        BY <2>1
    <2>7. PICK s \in Slots : s = tail
        BY DEF TypeOK
    <2>8. Holding(s)' = b
        BY <1>0, <1>9, <2>1, <2>3, <2>4, <2>6, <2>7 DEF FreeAdvanceEarly, Holding, Late
    <2>9. RingContent' = Append(RingContent, b)
        BY <1>9, <2>2, <2>5, <2>7, <2>8, QueueAppended DEF FreeAdvanceEarly
    <2>10. \A u \in Threads : arg[u] = b => u = t
        BY <1>0, <2>6 DEF Placement
    <2>11. b \in Returning
        BY <1>0, <1>9, <2>6 DEF FreeAdvanceEarly, Returning
    <2>12. Returning' = Returning \ {b}
        BY <1>9, <2>3, <2>6, <2>10 DEF FreeAdvanceEarly, Returning
    <2>13. FL!Requeue(b)
        BY <1>9, <2>9, <2>11, <2>12 DEF FreeAdvanceEarly, FL!Requeue
    <2> QED BY <2>13 DEF FL!ListNext
<1>10. ASSUME NEW t \in Threads, FreeStoreLate(t) PROVE Stutters
    <2>1. t = Allocator /\ pc[Allocator] = "storeLate"
        BY <1>10 DEF FreeStoreLate, Protocol
    <2>2. \A u \in Threads : pc'[u] = IF u = t THEN "idle" ELSE pc[u]
        BY <1>10 DEF FreeStoreLate, Return, TypeOK
    <2>3. \A u \in Threads : arg'[u] = IF u = t THEN NullPtr ELSE arg[u]
        BY <1>10 DEF FreeStoreLate, Return, TypeOK
    <2>4. \A i \in Slots : ptrs'[i] = IF i = slot[Allocator] THEN arg[Allocator] ELSE ptrs[i]
        BY <1>0, <1>10, <2>1 DEF FreeStoreLate, TypeOK
    <2>5. \A i \in Slots : Holding(i)' = Holding(i)
        BY <1>0, <2>1, <2>2, <2>4 DEF Holding, Late
    <2>6. RingContent' = RingContent
        BY ZenonT(30), <1>10, <2>5, QueueKept DEF FreeStoreLate
    <2>7. Returning' = Returning
        BY <2>1, <2>2, <2>3 DEF Returning
    <2> QED BY <1>10, <2>6, <2>7 DEF FreeStoreLate
<1>11. CASE UNCHANGED vars
    <2>1. \A i \in Slots : Holding(i)' = Holding(i)
        BY <1>11 DEF vars, Holding, Late
    <2>2. RingContent' = RingContent
        BY <1>11, <2>1, QueueKept DEF vars
    <2>3. Returning' = Returning
        BY <1>11 DEF vars, Returning
    <2> QED BY <1>11, <1>s, <2>2, <2>3 DEF vars
<1> HIDE DEF Stutters
<1> QED
    BY <1>1, <1>2, <1>3, <1>4, <1>5, <1>6, <1>7, <1>8, <1>9, <1>10, <1>11, <1>s DEF Next

(* The ring with one allocating thread and several that free is a          *)
(* first-in first-out free list, for any number of buffers and threads:    *)
(* no step of malloc() or free() shows its users anything else.            *)
THEOREM PoolImplementsFreeList == OwnReordering => (Spec => ImplementsFreeList)
<1> SUFFICES ASSUME OwnReordering PROVE Spec => ImplementsFreeList
    OBVIOUS
<1>1. Init => FL!ListInit
    BY InitImplements
<1>2. Inv /\ Inv' /\ RingFacts /\ RingFacts' /\ [Next]_vars
        => [FL!ListNext]_(FL!listVars)
    BY NextImplements
<1> QED BY <1>1, <1>2, PoolInvariant, RingIs, PTL DEF Spec, ImplementsFreeList, FL!ListSpec
=============================================================================
