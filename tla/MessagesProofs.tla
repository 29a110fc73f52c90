--------------------------- MODULE MessagesProofs ---------------------------
(***************************************************************************)
(* Proofs about the buffers of Messages, for any builders, buffers, types, *)
(* raw buffers, filters and marks.                                         *)
(***************************************************************************)
EXTENDS Messages, SequenceLemmas, TLAPS

Word == Types \cup {NoType}

Owned == [buffer : Buffers, pooled : BOOLEAN]

Segment == [buffer : Buffers, words : Seq(Word)]

Builder == [alive : BOOLEAN, id : Word, first : Seq(Owned), more : Seq(Owned),
            invalidated : BOOLEAN, arena : Seq(Segment)]

(* the buffers that MessageBuilder has been given, and those that a        *)
(* builder has in its members                                              *)
Held(r) == BuffersOf(r.arena)

Members(r) == BuffersOf(r.first) \cup BuffersOf(r.more)

FromPoolOrSystem(q) == \A i \in 1..Len(q) : q[i].pooled \/ q[i].buffer \in OsBuffers

(* One builder: its segments are in different buffers, a builder that will *)
(* free its members holds them, and one that is gone holds nothing.        *)
BuilderOK(r) ==
    /\ r \in Builder
    /\ \A i \in 1..Len(r.arena) : r.arena[i].words # <<>>
    /\ \A i, j \in 1..Len(r.arena) : r.arena[i].buffer = r.arena[j].buffer => i = j
    /\ FromPoolOrSystem(r.first)
    /\ FromPoolOrSystem(r.more)
    /\ ~r.invalidated => Members(r) \subseteq Held(r)
    /\ ~r.alive => r.arena = <<>>

InPipe(p) == BuffersOf(p) \ {NoBuffer}

(* the buffers of all builders, pairwise disjoint *)
Apart(hs) == \A b, c \in Builders : b # c => hs[b] \cap hs[c] = {}

HeldBy == [b \in Builders |-> Held(builders[b])]

(* What says where the buffers are. *)
Placed(hs, fs, p) ==
    /\ Apart(hs)
    /\ fs \subseteq Buffers
    /\ \A b \in Builders : hs[b] \subseteq Buffers /\ hs[b] \cap (fs \cup InPipe(p)) = {}
    /\ InPipe(p) \cap fs = {}
    /\ \A i, j \in 1..Len(p) : p[i].buffer = p[j].buffer => i = j \/ p[i].buffer = NoBuffer

Nowhere(hs, fs, p) == Buffers \ (fs \cup InPipe(p) \cup UNION {hs[b] : b \in Builders})

Part == Seq(Int \cup Word)

BufferInv ==
    /\ builders \in [Builders -> Builder]
    /\ \A b \in Builders : BuilderOK(builders[b])
    /\ pipe \in Seq([parts : Seq(Part), buffer : Buffers \cup {NoBuffer}])
    /\ moved \in BOOLEAN
    /\ Placed(HeldBy, free, pipe)
    /\ ~moved => /\ \A b \in Builders : /\ ~builders[b].invalidated
                                        /\ Members(builders[b]) = Held(builders[b])
                 /\ Nowhere(HeldBy, free, pipe) = {}

(* The buffers of a queue change as the queue does. *)
LEMMA BuffersAppend ==
    ASSUME NEW S, NEW q \in Seq(S), NEW x \in S
    PROVE  BuffersOf(Append(q, x)) = BuffersOf(q) \cup {x.buffer}
<1> DEFINE n == Len(q)
           t == Append(q, x)
<1>1. n \in Nat /\ Len(t) = n + 1 /\ t[n + 1] = x /\ \A i \in 1..n : t[i] = q[i]
    OBVIOUS
<1>2. 1..n + 1 = (1..n) \cup {n + 1}
    BY <1>1
<1> HIDE DEF n, t
<1>3. BuffersOf(t) = {t[i].buffer : i \in (1..n) \cup {n + 1}}
    BY <1>1, <1>2 DEF BuffersOf
<1>4. BuffersOf(q) = {t[i].buffer : i \in 1..n}
    BY <1>1 DEF BuffersOf, n
<1> QED BY <1>1, <1>3, <1>4 DEF t

(* The buffers of a queue are that of its first and those of the others. *)
LEMMA BuffersTail ==
    ASSUME NEW S, NEW q \in Seq(S), q # <<>>
    PROVE  BuffersOf(q) = BuffersOf(Tail(q)) \cup {Head(q).buffer}
<1> DEFINE n == Len(q)
           t == Tail(q)
<1>1. /\ n \in Nat \ {0} /\ Len(t) = n - 1 /\ Head(q) = q[1]
      /\ \A i \in 1..n - 1 : t[i] = q[i + 1]
    BY EmptySeq
<1> HIDE DEF t
<1>2. ASSUME NEW y \in BuffersOf(q) PROVE y \in BuffersOf(t) \cup {Head(q).buffer}
    <2>1. PICK i \in 1..n : y = q[i].buffer
        BY DEF BuffersOf
    <2>2. CASE i # 1
        <3>1. i - 1 \in 1..n - 1 /\ (i - 1) + 1 = i
            BY <1>1, <2>2
        <3> QED BY ZenonT(30), <1>1, <2>1, <3>1 DEF BuffersOf
    <2> QED BY <1>1, <2>1, <2>2
<1>3. ASSUME NEW y \in BuffersOf(t) PROVE y \in BuffersOf(q)
    <2>1. PICK i \in 1..n - 1 : y = t[i].buffer
        BY <1>1 DEF BuffersOf
    <2>2. i + 1 \in 1..n
        BY <1>1
    <2> QED BY <1>1, <2>1, <2>2 DEF BuffersOf
<1>4. Head(q).buffer \in BuffersOf(q)
    <2>1. 1 \in 1..n
        BY <1>1
    <2> QED BY <1>1, <2>1 DEF BuffersOf
<1> QED BY <1>2, <1>3, <1>4 DEF t

(* The buffers of two queues in one. *)
LEMMA BuffersConcat ==
    ASSUME NEW S, NEW p \in Seq(S), NEW q \in Seq(S)
    PROVE  BuffersOf(p \o q) = BuffersOf(p) \cup BuffersOf(q)
<1> DEFINE n == Len(p)
           m == Len(q)
           t == p \o q
<1>1. /\ n \in Nat /\ m \in Nat /\ Len(t) = n + m
      /\ \A i \in 1..n + m : t[i] = IF i <= n THEN p[i] ELSE q[i - n]
    BY ConcatProperties
<1>2. BuffersOf(p) = {p[i].buffer : i \in 1..n} /\ BuffersOf(q) = {q[i].buffer : i \in 1..m}
    BY DEF BuffersOf
<1> HIDE DEF n, m, t
<1>3. BuffersOf(t) = {t[i].buffer : i \in 1..n + m}
    BY <1>1 DEF BuffersOf
<1>4. ASSUME NEW i \in 1..n PROVE p[i].buffer \in {t[k].buffer : k \in 1..n + m}
    <2>1. i \in 1..n + m /\ i <= n
        BY <1>1
    <2> QED BY <1>1, <2>1
<1>5. ASSUME NEW i \in 1..m PROVE q[i].buffer \in {t[k].buffer : k \in 1..n + m}
    <2>1. n + i \in 1..n + m /\ ~(n + i <= n) /\ (n + i) - n = i
        BY <1>1
    <2> QED BY ZenonT(30), <1>1, <2>1
<1>6. ASSUME NEW i \in 1..n + m PROVE t[i].buffer \in BuffersOf(p) \cup BuffersOf(q)
    <2>1. i <= n => i \in 1..n
        BY <1>1
    <2>2. ~(i <= n) => i - n \in 1..m
        BY <1>1
    <2> QED BY <1>1, <1>2, <2>1, <2>2
<1>7. {t[i].buffer : i \in 1..n + m} = BuffersOf(p) \cup BuffersOf(q)
    BY ZenonT(30), <1>2, <1>4, <1>5, <1>6
<1> QED BY ZenonT(30), <1>3, <1>7 DEF t

(* An empty queue has none. *)
LEMMA NoBuffers == BuffersOf(<<>>) = {}
BY DEF BuffersOf

(* What the pool or the system returns was free. *)
LEMMA TakenIsFree ==
    ASSUME free \cap OsBuffers # {}, NEW usePool \in BOOLEAN
    PROVE  /\ taken(usePool) \in free \cap Buffers
           /\ usePool \/ taken(usePool) \in OsBuffers
<1>1. ASSUME NEW S, S # {} PROVE (CHOOSE x \in S : TRUE) \in S
    BY <1>1
<1>2. CASE usePool /\ free \cap PoolBuffers # {}
    <2>1. taken(usePool) \in free \cap PoolBuffers
        BY <1>1, <1>2 DEF taken
    <2> QED BY ZenonT(30), <1>2, <2>1 DEF Buffers
<1>3. CASE ~(usePool /\ free \cap PoolBuffers # {})
    <2>1. taken(usePool) \in free \cap OsBuffers
        BY <1>1, <1>3 DEF taken
    <2> QED BY <2>1 DEF Buffers
<1> QED BY <1>2, <1>3

(* allocateSegment(): the new segment is held and is a member. *)
LEMMA SegmentAllocated ==
    ASSUME NEW r, BuilderOK(r), r.alive, NEW usePool \in BOOLEAN, NEW word \in Word,
           free \cap OsBuffers # {}, taken(usePool) \notin Held(r)
    PROVE  LET t == allocateSegment(r, usePool, word)
           IN  /\ BuilderOK(t)
               /\ t.invalidated = r.invalidated
               /\ Held(t) = Held(r) \cup {taken(usePool)}
               /\ Members(t) = Members(r) \cup {taken(usePool)}
<1> DEFINE t == allocateSegment(r, usePool, word)
           x == taken(usePool)
           seg == [buffer |-> x, pooled |-> usePool]
           held == [buffer |-> x, words |-> <<word>>]
<1>1. x \in Buffers /\ (usePool \/ x \in OsBuffers)
    BY TakenIsFree
<1>2. /\ r \in Builder
      /\ r.first \in Seq(Owned) /\ r.more \in Seq(Owned) /\ r.arena \in Seq(Segment)
    BY DEF BuilderOK, Builder
<1>3. seg \in Owned /\ seg.buffer = x /\ (seg.pooled \/ seg.buffer \in OsBuffers)
    BY <1>1 DEF Owned
<1>4. held \in Segment /\ held.buffer = x /\ held.words # <<>>
    BY <1>1 DEF Segment
<1>5. /\ t.arena = Append(r.arena, held)
      /\ t.alive = r.alive /\ t.id = r.id /\ t.invalidated = r.invalidated
      /\ \/ r.first = <<>> /\ t.first = <<seg>> /\ t.more = r.more
         \/ t.first = r.first /\ t.more = Append(r.more, seg)
    BY ZenonT(30), <1>2 DEF allocateSegment, Builder
<1>6. t \in Builder
    <2>1. /\ <<seg>> \in Seq(Owned) /\ Append(r.more, seg) \in Seq(Owned)
          /\ Append(r.arena, held) \in Seq(Segment)
        BY <1>2, <1>3, <1>4
    <2> QED BY ZenonT(30), <1>2, <2>1 DEF allocateSegment, Builder
<1> HIDE DEF seg, held, x, t
<1>7. t.arena \in Seq(Segment) /\ Held(t) = Held(r) \cup {x}
    BY <1>2, <1>4, <1>5, <1>6, BuffersAppend DEF Held, Builder
<1>8. Members(t) = Members(r) \cup {x}
    <2>1. BuffersOf(<<seg>>) = {x}
        <3>1. Len(<<seg>>) = 1 /\ <<seg>>[1] = seg /\ 1..1 = {1}
            OBVIOUS
        <3> QED BY <1>3, <3>1 DEF BuffersOf
    <2>2. BuffersOf(Append(r.more, seg)) = BuffersOf(r.more) \cup {x}
        BY <1>2, <1>3, BuffersAppend
    <2> QED BY ZenonT(30), <1>5, <2>1, <2>2, NoBuffers DEF Members
<1> DEFINE n == Len(r.arena)
<1>9. /\ n \in Nat /\ Len(t.arena) = n + 1 /\ t.arena[n + 1] = held
      /\ \A i \in 1..n : t.arena[i] = r.arena[i]
    BY <1>2, <1>4, <1>5
<1>10. \A i \in 1..Len(t.arena) : t.arena[i].words # <<>>
    <2>1. ASSUME NEW i \in 1..n + 1 PROVE i \in 1..n \/ i = n + 1
        BY <1>9
    <2> QED BY <1>4, <1>9, <2>1 DEF BuilderOK
<1>11. ASSUME NEW i \in 1..Len(t.arena), NEW j \in 1..Len(t.arena),
              t.arena[i].buffer = t.arena[j].buffer
       PROVE  i = j
    <2>1. (i \in 1..n \/ i = n + 1) /\ (j \in 1..n \/ j = n + 1)
        BY <1>9
    <2>2. \A k \in 1..n : r.arena[k].buffer # x
        BY DEF Held, x, BuffersOf
    <2>3. \A k, l \in 1..n : r.arena[k].buffer = r.arena[l].buffer => k = l
        BY DEF BuilderOK
    <2> HIDE DEF n
    <2>4. \A k \in 1..n : t.arena[k].buffer # t.arena[n + 1].buffer
        BY <1>4, <1>9, <2>2
    <2>5. CASE i \in 1..n /\ j \in 1..n
        BY <1>9, <1>11, <2>3, <2>5
    <2> QED BY <1>11, <2>1, <2>4, <2>5
<1>12. FromPoolOrSystem(t.first) /\ FromPoolOrSystem(t.more)
    <2>1. FromPoolOrSystem(<<seg>>)
        BY <1>3 DEF FromPoolOrSystem
    <2>2. FromPoolOrSystem(Append(r.more, seg))
        <3> DEFINE m == Len(r.more)
                   q == Append(r.more, seg)
        <3>1. /\ m \in Nat /\ Len(q) = m + 1 /\ q[m + 1] = seg
              /\ \A i \in 1..m : q[i] = r.more[i]
            BY <1>2, <1>3
        <3>2. \A i \in 1..m + 1 : i \in 1..m \/ i = m + 1
            BY <3>1
        <3>3. FromPoolOrSystem(r.more)
            BY DEF BuilderOK
        <3> HIDE DEF q
        <3> QED BY <1>3, <3>1, <3>2, <3>3 DEF FromPoolOrSystem, q
    <2> QED BY ZenonT(30), <1>5, <2>1, <2>2 DEF BuilderOK
<1>13. BuilderOK(t)
    <2>1. ~t.invalidated => Members(t) \subseteq Held(t)
        BY <1>5, <1>7, <1>8 DEF BuilderOK
    <2> QED BY <1>5, <1>6, <1>10, <1>11, <1>12, <2>1 DEF BuilderOK
<1> QED BY <1>5, <1>7, <1>8, <1>13 DEF t, x

-----------------------------------------------------------------------------
(* A buffer that was free is given to builder b. *)
LEMMA PlacedAllocated ==
    ASSUME NEW hs, NEW ks, NEW fs, NEW p, Placed(hs, fs, p),
           NEW b \in Builders, NEW x \in fs, ks[b] = hs[b] \cup {x},
           \A c \in Builders : c # b => ks[c] = hs[c]
    PROVE  Placed(ks, fs \ {x}, p) /\ Nowhere(ks, fs \ {x}, p) \subseteq Nowhere(hs, fs, p)
<1>1. \A c \in Builders : hs[c] \subseteq ks[c] /\ ks[c] \subseteq hs[c] \cup {x}
    OBVIOUS
<1>2. x \in Buffers /\ x \notin InPipe(p) /\ \A c \in Builders : x \notin hs[c]
    BY DEF Placed
<1>3. Apart(ks)
    BY <1>1, <1>2 DEF Apart, Placed
<1>4. \A c \in Builders : ks[c] \subseteq Buffers /\ ks[c] \cap ((fs \ {x}) \cup InPipe(p)) = {}
    BY <1>1, <1>2 DEF Placed
<1>5. Placed(ks, fs \ {x}, p)
    BY <1>3, <1>4 DEF Placed
<1>6. Nowhere(ks, fs \ {x}, p) \subseteq Nowhere(hs, fs, p)
    BY <1>1 DEF Nowhere
<1> QED BY <1>5, <1>6

(* What builder b held goes, and F of it is free again. *)
LEMMA PlacedFreed ==
    ASSUME NEW hs, NEW ks, NEW fs, NEW p, Placed(hs, fs, p),
           NEW b \in Builders, NEW F \in SUBSET hs[b], ks[b] = {},
           \A c \in Builders : c # b => ks[c] = hs[c]
    PROVE  /\ Placed(ks, fs \cup F, p)
           /\ F = hs[b] => Nowhere(ks, fs \cup F, p) \subseteq Nowhere(hs, fs, p)
<1>1. \A c \in Builders : ks[c] \subseteq hs[c] /\ ks[c] \cap hs[b] = {}
    BY DEF Placed, Apart
<1>2. F \subseteq Buffers /\ F \cap InPipe(p) = {}
    BY DEF Placed
<1>3. Apart(ks)
    BY <1>1 DEF Apart, Placed
<1>4. \A c \in Builders : ks[c] \subseteq Buffers /\ ks[c] \cap ((fs \cup F) \cup InPipe(p)) = {}
    BY <1>1, <1>2 DEF Placed
<1>5. Placed(ks, fs \cup F, p)
    BY <1>2, <1>3, <1>4 DEF Placed
<1>6. F = hs[b] => Nowhere(ks, fs \cup F, p) \subseteq Nowhere(hs, fs, p)
    BY <1>1 DEF Nowhere
<1> QED BY ZenonT(30), <1>5, <1>6

(* Builders that hold no more than before. *)
LEMMA PlacedKept ==
    ASSUME NEW hs, NEW ks, NEW fs, NEW p, Placed(hs, fs, p),
           \A c \in Builders : ks[c] \subseteq hs[c]
    PROVE  Placed(ks, fs, p)
BY DEF Placed, Apart

(* The body of a message joins the pipe. *)
LEMMA PlacedSent ==
    ASSUME NEW hs, NEW fs, NEW S, NEW p \in Seq(S), Placed(hs, fs, p),
           NEW m \in S, m.buffer \in fs \cup {NoBuffer}
    PROVE  /\ Placed(hs, fs \ {m.buffer}, Append(p, m))
           /\ Nowhere(hs, fs \ {m.buffer}, Append(p, m)) \subseteq Nowhere(hs, fs, p)
<1> DEFINE q == Append(p, m)
           n == Len(p)
           x == m.buffer
<1>1. InPipe(q) = InPipe(p) \cup ({x} \ {NoBuffer})
    BY BuffersAppend DEF InPipe
<1>2. n \in Nat /\ Len(q) = n + 1 /\ q[n + 1] = m /\ \A i \in 1..n : q[i] = p[i]
    OBVIOUS
<1> HIDE DEF q, n, x
<1>3. \A i \in 1..n + 1 : i \in 1..n \/ i = n + 1
    BY <1>2
<1>4. ASSUME x # NoBuffer, NEW i \in 1..n PROVE p[i].buffer # x
    <2>1. x \in fs /\ x \notin InPipe(p)
        BY <1>4 DEF Placed, x
    <2> QED BY <1>4, <2>1 DEF InPipe, BuffersOf, n
<1>5. ASSUME NEW i \in 1..Len(q), NEW j \in 1..Len(q), q[i].buffer = q[j].buffer
      PROVE  i = j \/ q[i].buffer = NoBuffer
    <2>1. CASE i \in 1..n /\ j \in 1..n
        BY <1>2, <1>5, <2>1 DEF Placed, n
    <2>2. CASE i = n + 1 /\ j = n + 1
        BY <2>2
    <2>3. CASE i \in 1..n /\ j = n + 1
        BY <1>2, <1>4, <1>5, <2>3 DEF x
    <2>4. CASE i = n + 1 /\ j \in 1..n
        BY <1>2, <1>4, <1>5, <2>4 DEF x
    <2> QED BY <1>2, <1>3, <2>1, <2>2, <2>3, <2>4
<1>6. \A c \in Builders : hs[c] \cap ((fs \ {x}) \cup InPipe(q)) = {}
    <2>1. ASSUME NEW c \in Builders PROVE hs[c] \cap ((fs \ {x}) \cup InPipe(q)) = {}
        <3>1. hs[c] \cap (fs \cup InPipe(p)) = {}
            BY DEF Placed
        <3>2. {x} \ {NoBuffer} \subseteq fs
            BY DEF x
        <3> QED BY <1>1, <3>1, <3>2
    <2> QED BY <2>1
<1>7. InPipe(q) \cap (fs \ {x}) = {}
    BY <1>1 DEF Placed
<1>8. Placed(hs, fs \ {x}, q)
    BY <1>5, <1>6, <1>7 DEF Placed
<1>9. Nowhere(hs, fs \ {x}, q) \subseteq Nowhere(hs, fs, p)
    <2>1. x \in fs => x # NoBuffer
        BY BuilderAssumption DEF Placed, Buffers
    <2>2. fs \cup InPipe(p) \subseteq (fs \ {x}) \cup InPipe(q)
        BY <1>1, <2>1
    <2> QED BY <2>2 DEF Nowhere
<1> QED BY ZenonT(30), <1>8, <1>9 DEF q, x

(* zmqFree(): the body of the oldest message is freed. *)
LEMMA PlacedGone ==
    ASSUME NEW hs, NEW fs, NEW S, NEW p \in Seq(S), p # <<>>, Placed(hs, fs, p),
           Head(p).buffer \in Buffers \cup {NoBuffer}
    PROVE  LET gs == (fs \cup {Head(p).buffer}) \ {NoBuffer}
           IN  /\ Placed(hs, gs, Tail(p))
               /\ Nowhere(hs, gs, Tail(p)) \subseteq Nowhere(hs, fs, p)
<1> DEFINE x == Head(p).buffer
           q == Tail(p)
           n == Len(p)
           gs == (fs \cup {x}) \ {NoBuffer}
<1>1. BuffersOf(p) = BuffersOf(q) \cup {x}
    BY BuffersTail
<1>2. /\ n \in Nat \ {0} /\ Len(q) = n - 1 /\ Head(p) = p[1]
      /\ \A i \in 1..n - 1 : q[i] = p[i + 1]
    BY EmptySeq
<1> HIDE DEF q, n, x
<1>3. InPipe(p) = InPipe(q) \cup ({x} \ {NoBuffer})
    BY <1>1 DEF InPipe
<1>4. NoBuffer \notin fs
    BY BuilderAssumption DEF Placed, Buffers
<1>5. gs = fs \cup ({x} \ {NoBuffer})
    BY <1>4
<1>6. x \notin InPipe(q)
    <2> SUFFICES ASSUME x # NoBuffer, x \in BuffersOf(q) PROVE FALSE
        BY DEF InPipe
    <2>1. PICK i \in 1..n - 1 : x = q[i].buffer
        BY <1>2 DEF BuffersOf
    <2>2. 1 \in 1..n /\ i + 1 \in 1..n /\ i + 1 # 1
        BY <1>2
    <2>3. p[1].buffer = p[i + 1].buffer /\ p[1].buffer # NoBuffer
        BY <1>2, <2>1 DEF x
    <2> QED BY <2>2, <2>3 DEF Placed, n
<1>7. ASSUME NEW i \in 1..Len(q), NEW j \in 1..Len(q), q[i].buffer = q[j].buffer
      PROVE  i = j \/ q[i].buffer = NoBuffer
    <2>1. i + 1 \in 1..n /\ j + 1 \in 1..n /\ (i + 1 = j + 1 => i = j) /\ i \in 1..n - 1 /\ j \in 1..n - 1
        BY <1>2
    <2>2. q[i] = p[i + 1] /\ q[j] = p[j + 1]
        BY <1>2, <2>1
    <2> QED BY <1>7, <2>1, <2>2 DEF Placed, n
<1>8. \A c \in Builders : hs[c] \cap (gs \cup InPipe(q)) = {}
    <2>1. gs \cup InPipe(q) = fs \cup InPipe(p)
        BY <1>3, <1>5
    <2> QED BY <2>1 DEF Placed
<1>9. gs \subseteq Buffers /\ InPipe(q) \cap gs = {}
    <2>1. gs \subseteq Buffers
        BY <1>5 DEF Placed, x
    <2>2. InPipe(q) \cap gs = {}
        BY <1>3, <1>5, <1>6 DEF Placed
    <2> QED BY <2>1, <2>2
<1>10. Placed(hs, gs, q)
    BY <1>7, <1>8, <1>9 DEF Placed
<1>11. Nowhere(hs, gs, q) \subseteq Nowhere(hs, fs, p)
    BY <1>3, <1>5 DEF Nowhere
<1> QED BY ZenonT(30), <1>10, <1>11 DEF q, x

-----------------------------------------------------------------------------
(* One builder changes, and the pool with it. *)
LEMMA BuilderReplaced ==
    ASSUME BufferInv, NEW b \in Builders, NEW t, BuilderOK(t),
           builders' = [builders EXCEPT ![b] = t], pipe' = pipe, moved' \in BOOLEAN,
           Placed(HeldBy', free', pipe),
           ~moved' => /\ ~moved /\ ~t.invalidated /\ Members(t) = Held(t)
                      /\ Nowhere(HeldBy', free', pipe) \subseteq Nowhere(HeldBy, free, pipe)
    PROVE  BufferInv'
<1>1. t \in Builder
    BY DEF BuilderOK
<1>2. /\ builders' \in [Builders -> Builder]
      /\ \A c \in Builders : builders'[c] = IF c = b THEN t ELSE builders[c]
    BY <1>1 DEF BufferInv
<1>3. \A c \in Builders : BuilderOK(builders'[c])
    BY <1>2 DEF BufferInv
<1>4. ASSUME ~moved'
      PROVE  /\ \A c \in Builders : /\ ~builders'[c].invalidated
                                    /\ Members(builders'[c]) = Held(builders'[c])
             /\ Nowhere(HeldBy', free', pipe) = {}
    BY <1>2, <1>4 DEF BufferInv
<1>5. Placed(HeldBy', free', pipe')
    OBVIOUS
<1>6. ~moved' => Nowhere(HeldBy', free', pipe') = {}
    BY <1>4
<1> HIDE DEF Placed, Nowhere, HeldBy
<1> QED BY <1>2, <1>3, <1>4, <1>5, <1>6 DEF BufferInv

(* What the builders hold when one of them is replaced. *)
LEMMA HeldByReplaced ==
    ASSUME BufferInv, NEW b \in Builders, NEW t, builders' = [builders EXCEPT ![b] = t]
    PROVE  /\ HeldBy'[b] = Held(t)
           /\ \A c \in Builders : c # b => HeldBy'[c] = HeldBy[c]
           /\ \A c \in Builders : HeldBy[c] = Held(builders[c])
<1>1. \A c \in Builders : builders'[c] = IF c = b THEN t ELSE builders[c]
    BY DEF BufferInv
<1> QED BY <1>1 DEF HeldBy

(* allocateSegment() *)
LEMMA AllocatesInv ==
    ASSUME BufferInv, NEW b \in Builders, NEW r, BuilderOK(r), r.alive,
           r.arena = builders[b].arena, Members(r) = Members(builders[b]),
           r.invalidated = builders[b].invalidated,
           NEW usePool \in BOOLEAN, NEW word \in Word, allocates(b, r, usePool, word), pipe' = pipe
    PROVE  BufferInv'
<1> DEFINE t == allocateSegment(r, usePool, word)
           x == taken(usePool)
<1>1. /\ free \cap OsBuffers # {} /\ free' = free \ {x} /\ moved' = moved
      /\ builders' = [builders EXCEPT ![b] = t]
    BY DEF allocates
<1>2. x \in free
    BY <1>1, TakenIsFree
<1>3. Held(r) = Held(builders[b])
    BY DEF Held
<1>4. x \notin Held(r)
    <2>1. HeldBy[b] \cap free = {}
        BY DEF BufferInv, Placed
    <2> QED BY <1>2, <1>3, <2>1 DEF HeldBy
<1>5. /\ BuilderOK(t) /\ t.invalidated = r.invalidated
      /\ Held(t) = Held(r) \cup {x} /\ Members(t) = Members(r) \cup {x}
    BY <1>1, <1>4, SegmentAllocated
<1> HIDE DEF t, x
<1>6. HeldBy'[b] = HeldBy[b] \cup {x} /\ \A c \in Builders : c # b => HeldBy'[c] = HeldBy[c]
    BY ZenonT(30), <1>1, <1>3, <1>5, HeldByReplaced
<1>7. /\ Placed(HeldBy', free', pipe)
      /\ Nowhere(HeldBy', free', pipe) \subseteq Nowhere(HeldBy, free, pipe)
    <2>1. Placed(HeldBy, free, pipe)
        BY DEF BufferInv
    <2> HIDE DEF HeldBy, Placed
    <2> QED BY ZenonT(30), <1>1, <1>2, <1>6, <2>1, PlacedAllocated
<1>8. moved \in BOOLEAN /\ (~moved => ~t.invalidated /\ Members(t) = Held(t))
    BY <1>3, <1>5 DEF BufferInv
<1> QED BY ZenonT(30), <1>1, <1>5, <1>7, <1>8, BuilderReplaced

(* A builder that holds and frees what it did before. *)
LEMMA SameBuffers ==
    ASSUME NEW r, NEW t, BuilderOK(r), t \in Builder, Len(t.arena) = Len(r.arena),
           \A i \in 1..Len(r.arena) : /\ t.arena[i].buffer = r.arena[i].buffer
                                      /\ t.arena[i].words # <<>>,
           t.first = r.first, t.more = r.more, t.invalidated = r.invalidated, t.alive = r.alive
    PROVE  BuilderOK(t) /\ Held(t) = Held(r) /\ Members(t) = Members(r)
<1>1. Held(t) = Held(r) /\ Members(t) = Members(r)
    BY DEF Held, Members, BuffersOf
<1>2. \A i, j \in 1..Len(t.arena) : t.arena[i].buffer = t.arena[j].buffer => i = j
    BY DEF BuilderOK
<1>3. ~t.alive => t.arena = <<>>
    <2>1. r.arena \in Seq(Segment) /\ t.arena \in Seq(Segment)
        BY DEF BuilderOK, Builder
    <2>2. ASSUME ~t.alive PROVE Len(t.arena) = 0
        BY <2>1, <2>2 DEF BuilderOK
    <2> QED BY <2>1, <2>2, EmptySeq
<1> QED BY <1>1, <1>2, <1>3 DEF BuilderOK

(* initRoot() *)
LEMMA InitRootInv ==
    ASSUME BufferInv, NEW b \in Builders, NEW type \in Types, initRoot(b, type), pipe' = pipe
    PROVE  BufferInv'
<1> DEFINE r == [builders[b] EXCEPT !.id = type]
<1>0. type \in Word
    BY DEF Word
<1>1. /\ builders[b] \in Builder /\ BuilderOK(builders[b])
      /\ builders[b].arena \in Seq(Segment)
    BY DEF BufferInv, Builder
<1>2. /\ r \in Builder /\ r.arena = builders[b].arena /\ r.first = builders[b].first
      /\ r.more = builders[b].more /\ r.invalidated = builders[b].invalidated
      /\ r.alive = builders[b].alive
    BY <1>0, <1>1 DEF Builder
<1>3. r.alive
    BY DEF initRoot
<1>4. CASE r.arena = <<>>
    <2>1. allocates(b, r, TRUE, type)
        BY ZenonT(30), <1>4 DEF initRoot
    <2> HIDE DEF r
    <2>2. BuilderOK(r) /\ Members(r) = Members(builders[b])
        <3>1. \A i \in 1..Len(builders[b].arena) : builders[b].arena[i].words # <<>>
            BY <1>1 DEF BuilderOK
        <3> QED BY ZenonT(30), <1>1, <1>2, <3>1, SameBuffers
    <2> QED BY ZenonT(30), <1>0, <1>2, <1>3, <2>1, <2>2, AllocatesInv
<1>5. CASE r.arena # <<>>
    <2> DEFINE t == [r EXCEPT !.arena[1].words[1] = type]
               words == [r.arena[1].words EXCEPT ![1] = type]
               arena == [r.arena EXCEPT ![1] = [r.arena[1] EXCEPT !.words = words]]
    <2>1. builders' = [builders EXCEPT ![b] = t] /\ free' = free /\ moved' = moved
        BY <1>5 DEF initRoot
    <2>2. r.arena \in Seq(Segment) /\ Len(r.arena) \in Nat \ {0}
        BY <1>1, <1>2, <1>5, EmptySeq
    <2>3. 1 \in 1..Len(r.arena) /\ r.arena[1] \in Segment
        BY <2>2
    <2>4. words \in Seq(Word) /\ words # <<>>
        <3>1. r.arena[1].words \in Seq(Word) /\ r.arena[1].words # <<>>
            BY <1>1, <1>2, <2>3 DEF Segment, BuilderOK
        <3>2. Len(r.arena[1].words) \in Nat \ {0}
            BY <3>1, EmptySeq
        <3> QED BY <1>0, <3>1, <3>2
    <2>5. t.arena = arena /\ t = [r EXCEPT !.arena = arena]
        OBVIOUS
    <2> HIDE DEF words, t, r
    <2>6. /\ [r.arena[1] EXCEPT !.words = words] \in Segment
          /\ [r.arena[1] EXCEPT !.words = words].buffer = r.arena[1].buffer
          /\ [r.arena[1] EXCEPT !.words = words].words = words
        BY <2>3, <2>4 DEF Segment
    <2>7. /\ arena \in Seq(Segment) /\ Len(arena) = Len(r.arena)
          /\ \A i \in 1..Len(r.arena) :
                arena[i] = IF i = 1 THEN [r.arena[1] EXCEPT !.words = words] ELSE r.arena[i]
        BY <2>2, <2>3, <2>6
    <2>8. /\ t \in Builder /\ t.first = r.first /\ t.more = r.more
          /\ t.invalidated = r.invalidated /\ t.alive = r.alive
        <3> HIDE DEF arena
        <3> QED BY ZenonT(30), <1>2, <2>5, <2>7 DEF Builder
    <2>9. \A i \in 1..Len(r.arena) : /\ t.arena[i].buffer = r.arena[i].buffer
                                    /\ t.arena[i].words # <<>>
        <3>1. \A i \in 1..Len(r.arena) : r.arena[i].words # <<>>
            BY <1>1, <1>2 DEF BuilderOK
        <3> HIDE DEF arena
        <3> QED BY ZenonT(30), <2>4, <2>5, <2>6, <2>7, <3>1
    <2>10. BuilderOK(t) /\ Held(t) = Held(builders[b]) /\ Members(t) = Members(builders[b])
        <3>1. \A i \in 1..Len(builders[b].arena) : builders[b].arena[i].words # <<>>
            BY <1>1 DEF BuilderOK
        <3>2. BuilderOK(r) /\ Held(r) = Held(builders[b]) /\ Members(r) = Members(builders[b])
            BY ZenonT(30), <1>1, <1>2, <3>1, SameBuffers
        <3>3. Len(t.arena) = Len(r.arena)
            BY <2>5, <2>7
        <3>4. BuilderOK(t) /\ Held(t) = Held(r) /\ Members(t) = Members(r)
            BY <2>8, <2>9, <3>2, <3>3, SameBuffers
        <3> QED BY <3>2, <3>4
    <2>11. \A c \in Builders : HeldBy'[c] = HeldBy[c]
        BY ZenonT(30), <2>1, <2>10, HeldByReplaced
    <2>12. HeldBy' = HeldBy
        BY <2>11 DEF HeldBy
    <2>13. Placed(HeldBy', free', pipe) /\ Nowhere(HeldBy', free', pipe) = Nowhere(HeldBy, free, pipe)
        <3> HIDE DEF HeldBy
        <3> QED BY <2>1, <2>12 DEF BufferInv
    <2>14. moved \in BOOLEAN /\ (~moved => ~t.invalidated /\ Members(t) = Held(t))
        BY <1>2, <2>8, <2>10 DEF BufferInv
    <2> QED BY ZenonT(30), <2>1, <2>10, <2>13, <2>14, BuilderReplaced
<1> QED BY <1>4, <1>5

(* grow() *)
LEMMA GrowInv ==
    ASSUME BufferInv, NEW b \in Builders, NEW usePool \in BOOLEAN, grow(b, usePool), pipe' = pipe
    PROVE  BufferInv'
<1>1. /\ BuilderOK(builders[b]) /\ builders[b].alive /\ builders[b].id \in Word
      /\ allocates(b, builders[b], usePool, builders[b].id)
    BY DEF grow, BufferInv, Builder
<1> QED BY <1>1, AllocatesInv

(* A builder that has no segments. *)
LEMMA EmptyBuilder ==
    ASSUME NEW r \in Builder, r.arena = <<>>, r.invalidated \/ (r.first = <<>> /\ r.more = <<>>),
           FromPoolOrSystem(r.first), FromPoolOrSystem(r.more)
    PROVE  BuilderOK(r) /\ Held(r) = {} /\ (~r.invalidated => Members(r) = {})
<1>1. Held(r) = {} /\ (~r.invalidated => Members(r) = {})
    BY NoBuffers DEF Held, Members
<1>2. Len(r.arena) = 0 /\ 1..0 = {}
    OBVIOUS
<1> QED BY <1>1, <1>2 DEF BuilderOK

(* A new builder, and one that is gone, hold nothing. *)
LEMMA BlankIs ==
    /\ Blank \in Builder /\ BuilderOK(Blank) /\ Held(Blank) = {} /\ Members(Blank) = {}
    /\ [Blank EXCEPT !.alive = TRUE] \in Builder /\ BuilderOK([Blank EXCEPT !.alive = TRUE])
    /\ Held([Blank EXCEPT !.alive = TRUE]) = {} /\ Members([Blank EXCEPT !.alive = TRUE]) = {}
    /\ ~Blank.invalidated /\ ~[Blank EXCEPT !.alive = TRUE].invalidated
<1> DEFINE s == [Blank EXCEPT !.alive = TRUE]
<1>0. <<>> \in Seq(Owned) /\ <<>> \in Seq(Segment) /\ NoType \in Word
    BY DEF Word
<1>1. Blank \in Builder /\ s \in Builder
    BY ZenonT(30), <1>0 DEF Blank, Builder
<1>2. /\ Blank.arena = <<>> /\ Blank.first = <<>> /\ Blank.more = <<>> /\ ~Blank.invalidated
      /\ s.arena = <<>> /\ s.first = <<>> /\ s.more = <<>> /\ ~s.invalidated
    BY DEF Blank
<1>3. FromPoolOrSystem(<<>>)
    BY DEF FromPoolOrSystem
<1> HIDE DEF s, Blank
<1>4. BuilderOK(Blank) /\ Held(Blank) = {} /\ Members(Blank) = {}
    BY <1>1, <1>2, <1>3, EmptyBuilder
<1>5. BuilderOK(s) /\ Held(s) = {} /\ Members(s) = {}
    BY <1>1, <1>2, <1>3, EmptyBuilder
<1> QED BY ZenonT(30), <1>1, <1>2, <1>4, <1>5 DEF s

(* The constructor. *)
LEMMA NewBuilderInv ==
    ASSUME BufferInv, NEW b \in Builders, NewBuilder(b), pipe' = pipe
    PROVE  BufferInv'
<1> DEFINE t == [Blank EXCEPT !.alive = TRUE]
<1>1. /\ builders' = [builders EXCEPT ![b] = t] /\ free' = free /\ moved' = moved
      /\ ~builders[b].alive
    BY DEF NewBuilder
<1>2. BuilderOK(t) /\ Held(t) = {} /\ Members(t) = {} /\ ~t.invalidated
    BY ZenonT(30), BlankIs
<1> HIDE DEF t
<1>3. Held(builders[b]) = {}
    BY <1>1, NoBuffers DEF BufferInv, BuilderOK, Held
<1>4. \A c \in Builders : HeldBy'[c] = HeldBy[c]
    BY ZenonT(30), <1>1, <1>2, <1>3, HeldByReplaced
<1>5. HeldBy' = HeldBy
    BY <1>4 DEF HeldBy
<1>6. Placed(HeldBy', free', pipe) /\ Nowhere(HeldBy', free', pipe) = Nowhere(HeldBy, free, pipe)
    <2> HIDE DEF HeldBy
    <2> QED BY <1>1, <1>5 DEF BufferInv
<1>7. moved \in BOOLEAN
    BY DEF BufferInv
<1> QED BY ZenonT(30), <1>1, <1>2, <1>6, <1>7, BuilderReplaced

(* The destructor frees what the members are, which the builder held. *)
LEMMA DestroyInv ==
    ASSUME BufferInv, NEW b \in Builders, Destroy(b), pipe' = pipe
    PROVE  BufferInv'
<1> DEFINE r == builders[b]
           F == frees(r)
<1>1. builders' = [builders EXCEPT ![b] = Blank] /\ free' = free \cup F /\ moved' = moved
    BY DEF Destroy
<1>2. r \in Builder /\ BuilderOK(r) /\ r.first \in Seq(Owned) /\ r.more \in Seq(Owned)
    BY DEF BufferInv, Builder
<1>3. ~r.invalidated => F = Members(r)
    <2> HIDE DEF r
    <2> QED BY <1>2, BuffersConcat DEF frees, Members
<1>4. F \in SUBSET Held(r)
    <2>1. CASE r.invalidated
        BY <2>1 DEF frees
    <2>2. CASE ~r.invalidated
        BY <1>2, <1>3, <2>2 DEF BuilderOK
    <2> QED BY <2>1, <2>2
<1> HIDE DEF F
<1>5. /\ HeldBy'[b] = {} /\ HeldBy[b] = Held(r)
      /\ \A c \in Builders : c # b => HeldBy'[c] = HeldBy[c]
    BY ZenonT(30), <1>1, BlankIs, HeldByReplaced
<1>6. /\ Placed(HeldBy', free', pipe)
      /\ F = Held(r) => Nowhere(HeldBy', free', pipe) \subseteq Nowhere(HeldBy, free, pipe)
    <2>1. Placed(HeldBy, free, pipe)
        BY DEF BufferInv
    <2>2. F \in SUBSET HeldBy[b]
        BY <1>4, <1>5
    <2> HIDE DEF HeldBy, Placed, r
    <2> QED BY ZenonT(30), <1>1, <1>5, <2>1, <2>2, PlacedFreed
<1>7. moved \in BOOLEAN /\ (~moved => F = Held(r))
    BY <1>3 DEF BufferInv
<1> QED BY ZenonT(30), <1>1, <1>6, <1>7, BlankIs, BuilderReplaced

(* The move constructor: c, which frees nothing, has the members of b, and *)
(* b holds what MessageBuilder was given.                                  *)
LEMMA MoveInv ==
    ASSUME BufferInv, NEW b \in Builders, NEW c \in Builders, move(b, c), pipe' = pipe
    PROVE  BufferInv'
<1> DEFINE r == builders[b]
           s == [Blank EXCEPT !.alive = TRUE, !.id = r.id, !.first = r.first, !.more = r.more,
                              !.invalidated = TRUE]
           t == [r EXCEPT !.more = <<>>]
<1>1. /\ r \in Builder /\ BuilderOK(r) /\ r.id \in Word
      /\ r.first \in Seq(Owned) /\ r.more \in Seq(Owned)
    BY DEF BufferInv, Builder
<1>2. r.alive /\ ~builders[c].alive /\ b # c /\ moved' = TRUE /\ free' = free
    BY DEF move
<1>3. builders' \in [Builders -> Builder] /\ s \in Builder /\ t \in Builder
         /\ \A d \in Builders : builders'[d] = IF d = c THEN s ELSE IF d = b THEN t ELSE builders[d]
    <2>1. <<>> \in Seq(Owned) /\ <<>> \in Seq(Segment)
        OBVIOUS
    <2>2. s \in Builder /\ t \in Builder
        BY ZenonT(30), <1>1, <2>1, BlankIs DEF Builder
    <2>3. builders' = [builders EXCEPT ![c] = s, ![b].more = <<>>]
        BY DEF move
    <2>4. builders \in [Builders -> Builder]
        BY DEF BufferInv
    <2> HIDE DEF s
    <2>5. builders' = [[builders EXCEPT ![c] = s] EXCEPT ![b] = t]
        BY <1>2, <2>3, <2>4
    <2> HIDE DEF t
    <2> QED BY <1>2, <2>2, <2>4, <2>5
<1>4. s.arena = <<>> /\ s.first = r.first /\ s.more = r.more /\ s.invalidated
    BY DEF Blank
<1>5. /\ t.arena = r.arena /\ t.first = r.first /\ t.more = <<>>
      /\ t.invalidated = r.invalidated /\ t.alive = r.alive
    BY <1>1 DEF Builder
<1> HIDE DEF s, t
<1>6. BuilderOK(s) /\ Held(s) = {}
    BY <1>1, <1>3, <1>4, EmptyBuilder DEF BuilderOK
<1>7. BuilderOK(t) /\ Held(t) = Held(r)
    <2>1. Held(t) = Held(r) /\ Members(t) \subseteq Members(r)
        BY <1>5, NoBuffers DEF Held, Members
    <2>2. FromPoolOrSystem(<<>>)
        BY DEF FromPoolOrSystem
    <2> QED BY <1>1, <1>3, <1>5, <2>1, <2>2 DEF BuilderOK
<1>8. \A d \in Builders : BuilderOK(builders'[d])
    BY <1>3, <1>6, <1>7 DEF BufferInv
<1>9. \A d \in Builders : HeldBy'[d] \subseteq HeldBy[d]
    BY <1>3, <1>6, <1>7 DEF HeldBy
<1>10. Placed(HeldBy', free', pipe')
    <2>1. Placed(HeldBy, free, pipe)
        BY DEF BufferInv
    <2> HIDE DEF HeldBy, Placed
    <2> QED BY <1>2, <1>9, <2>1, PlacedKept
<1>11. pipe' \in Seq([parts : Seq(Part), buffer : Buffers \cup {NoBuffer}])
    BY DEF BufferInv
<1> HIDE DEF HeldBy, Placed
<1> QED BY <1>2, <1>3, <1>8, <1>10, <1>11 DEF BufferInv

(* What the user of the pool does. *)
LEMMA BuildInv ==
    ASSUME BufferInv, Build
    PROVE  BufferInv'
<1>1. pipe' = pipe
    BY DEF Build, socketVars
<1>2. PICK b \in Builders :
          \/ NewBuilder(b) \/ Destroy(b)
          \/ \E type \in Types : initRoot(b, type)
          \/ \E usePool \in BOOLEAN : grow(b, usePool)
          \/ \E c \in Builders : move(b, c)
    BY DEF Build
<1>3. CASE NewBuilder(b) BY <1>1, <1>3, NewBuilderInv
<1>4. CASE Destroy(b) BY <1>1, <1>4, DestroyInv
<1>5. CASE \E type \in Types : initRoot(b, type) BY <1>1, <1>5, InitRootInv
<1>6. CASE \E usePool \in BOOLEAN : grow(b, usePool) BY <1>1, <1>6, GrowInv
<1>7. CASE \E c \in Builders : move(b, c) BY <1>1, <1>7, MoveInv
<1> QED BY <1>2, <1>3, <1>4, <1>5, <1>6, <1>7

-----------------------------------------------------------------------------
(* Halving a number, also the odd ones of half words. *)
LEMMA Halves ==
    ASSUME NEW n \in Nat
    PROVE  /\ n \div 2 \in Nat /\ n % 2 \in {0, 1} /\ n = 2 * (n \div 2) + (n % 2)
           /\ (2 * n + 1) \div 2 = n
OBVIOUS

(* buildSmartMessage(): the table of the sizes, then the words, of which   *)
(* the second half tells them all.                                         *)
LEMMA BodyIs ==
    ASSUME NEW W, NEW q \in Seq(Seq(W))
    PROVE  /\ body(q) \in Seq(Int \cup W) /\ body(q) # <<>>
           /\ body(q)[1] = Len(q) - 1
           /\ \A i \in 1..Len(q) : body(q)[i + 1] = Len(q[i])
           /\ \A k \in 1..Len(Flatten(q)) :
                 body(q)[2 * ((Len(q) \div 2 + 1) + k)] = Flatten(q)[k]
<1> DEFINE n == Len(q)
           d == n \div 2 + 1
           sizes == [i \in 1..n |-> Len(q[i])]
           pad == IF n % 2 = 0 THEN <<0>> ELSE <<>>
           table == <<n - 1>> \o sizes \o pad
           data == Flatten(q)
           len == 2 * d + 2 * Len(data)
<1>1. n \in Nat /\ \A i \in 1..n : Len(q[i]) \in Nat
    <2>1. \A i \in 1..n : q[i] \in Seq(W)
        OBVIOUS
    <2> QED BY <2>1
<1>2. data \in Seq(W) /\ Len(data) \in Nat
    <2>1. data \in Seq(W)
        BY FlattenType
    <2> HIDE DEF data
    <2> QED BY <2>1
<1>3. body(q) = [h \in 1..len |->
                    IF h > 2 * d THEN data[(h - 2 * d + 1) \div 2] ELSE table[h]]
    BY DEF body, dst
<1> HIDE DEF data, n
<1>4. d \in Nat \ {0} /\ Len(pad) \in Nat /\ 2 * d = (n + 1) + Len(pad) /\ pad \in Seq(Int)
    <2>1. n \div 2 \in Nat /\ n % 2 \in {0, 1} /\ n = 2 * (n \div 2) + (n % 2)
        BY <1>1, Halves
    <2> DEFINE e == n \div 2
    <2> HIDE DEF e
    <2>0. e \in Nat /\ d = e + 1 /\ n = 2 * e + (n % 2)
        BY <2>1 DEF e
    <2>2. CASE n % 2 = 0
        <3>1. pad = <<0>> /\ Len(pad) = 1 /\ pad \in Seq(Int)
            BY <2>2
        <3>2. n = 2 * e
            BY <1>1, <2>0, <2>2
        <3> HIDE DEF pad, d
        <3>3. 2 * d = (n + 1) + 1
            BY <1>1, <2>0, <3>2
        <3> QED BY <1>1, <2>0, <3>1, <3>3
    <2>3. CASE n % 2 = 1
        <3>1. pad = <<>> /\ Len(pad) = 0 /\ pad \in Seq(Int)
            BY <2>3
        <3>2. n = 2 * e + 1
            BY <1>1, <2>0, <2>3
        <3> HIDE DEF pad, d
        <3>3. 2 * d = (n + 1) + 0
            BY <1>1, <2>0, <3>2
        <3> QED BY <1>1, <2>0, <3>1, <3>3
    <2> QED BY <2>1, <2>2, <2>3
<1>5. sizes \in Seq(Int) /\ Len(sizes) = n /\ <<n - 1>> \in Seq(Int)
    BY <1>1
<1>6. /\ table \in Seq(Int) /\ Len(table) = 2 * d /\ table[1] = n - 1
      /\ \A i \in 1..n : table[i + 1] = Len(q[i])
    <2> DEFINE front == <<n - 1>> \o sizes
    <2>1. /\ front \in Seq(Int) /\ Len(front) = n + 1 /\ front[1] = n - 1
          /\ \A i \in 1..n : front[i + 1] = sizes[i]
        <3> HIDE DEF sizes
        <3>1. /\ front \in Seq(Int) /\ Len(front) = 1 + n
              /\ \A i \in 1..1 + n : front[i] = IF i <= 1 THEN <<n - 1>>[i] ELSE sizes[i - 1]
            BY <1>1, <1>5, ConcatProperties
        <3> HIDE DEF front
        <3>2. front[1] = n - 1 /\ Len(front) = n + 1
            BY <1>1, <3>1
        <3>3. ASSUME NEW i \in 1..n PROVE front[i + 1] = sizes[i]
            <4>1. i + 1 \in 1..1 + n /\ ~(i + 1 <= 1) /\ (i + 1) - 1 = i
                BY <1>1
            <4> QED BY <3>1, <4>1
        <3> QED BY <3>1, <3>2, <3>3
    <2>6. table = front \o pad
        OBVIOUS
    <2> HIDE DEF front, pad, table
    <2>2. /\ table \in Seq(Int) /\ Len(table) = (n + 1) + Len(pad)
          /\ \A i \in 1..(n + 1) + Len(pad) :
                table[i] = IF i <= n + 1 THEN front[i] ELSE pad[i - (n + 1)]
        <3>1. /\ table \in Seq(Int) /\ Len(table) = Len(front) + Len(pad)
              /\ \A i \in 1..Len(front) + Len(pad) :
                    table[i] = IF i <= Len(front) THEN front[i] ELSE pad[i - Len(front)]
            BY ZenonT(30), <1>4, <2>1, <2>6, ConcatProperties
        <3>2. Len(front) = n + 1
            BY <2>1
        <3> QED BY <3>1, <3>2
    <2>3. ASSUME NEW i \in 1..n + 1 PROVE table[i] = front[i]
        <3>1. i \in 1..(n + 1) + Len(pad) /\ i <= n + 1
            BY <1>1, <1>4
        <3> QED BY <2>2, <3>1
    <2>4. 1 \in 1..n + 1 /\ \A i \in 1..n : i + 1 \in 1..n + 1
        BY <1>1
    <2>5. \A i \in 1..n : table[i + 1] = Len(q[i])
        BY <2>1, <2>3, <2>4
    <2> QED BY <1>4, <2>1, <2>2, <2>3, <2>4, <2>5
<1> HIDE DEF table, d, sizes, pad
<1>7. len \in Nat /\ \A h \in 1..2 * d : h \in 1..len /\ ~(h > 2 * d)
    BY <1>2, <1>4
<1>8. \A h \in 1..2 * d : body(q)[h] = table[h]
    <2> HIDE DEF len
    <2> QED BY <1>3, <1>7
<1>9. ASSUME NEW k \in 1..Len(data)
      PROVE  2 * (d + k) \in 1..len /\ body(q)[2 * (d + k)] = data[k]
    <2>1. 2 * (d + k) \in 1..len /\ 2 * (d + k) > 2 * d /\ 2 * (d + k) - 2 * d + 1 = 2 * k + 1
             /\ k \in Nat
        BY <1>2, <1>4
    <2>2. (2 * (d + k) - 2 * d + 1) \div 2 = k
        BY <2>1, Halves
    <2> HIDE DEF len
    <2> QED BY <1>3, <2>1, <2>2
<1>10. body(q) \in Seq(Int \cup W) /\ Len(body(q)) = len
    <2>1. ASSUME NEW h \in 1..len
          PROVE  (IF h > 2 * d THEN data[(h - 2 * d + 1) \div 2] ELSE table[h]) \in Int \cup W
        <3>1. CASE h > 2 * d
            <4>1. h - 2 * d \in 1..2 * Len(data)
                BY <1>2, <1>4, <3>1
            <4>2. (h - 2 * d + 1) \div 2 \in 1..Len(data)
                <5>1. ASSUME NEW x \in Nat, NEW y \in 1..2 * x PROVE (y + 1) \div 2 \in 1..x
                    OBVIOUS
                <5> QED BY <1>2, <4>1, <5>1
            <4> QED BY <1>2, <3>1, <4>2
        <3>2. CASE ~(h > 2 * d)
            <4>1. h \in 1..2 * d
                BY <1>4, <1>7, <3>2
            <4> QED BY <1>4, <1>6, <3>2, <4>1
        <3> QED BY <3>1, <3>2
    <2> HIDE DEF len
    <2> QED BY <1>3, <1>7, <2>1
<1>11. \A i \in 1..n : i + 1 \in 1..2 * d
    BY <1>1, <1>4
<1>12. body(q) # <<>> /\ 1 \in 1..2 * d
    BY <1>2, <1>4, <1>10
<1>13. body(q)[1] = n - 1 /\ \A i \in 1..n : body(q)[i + 1] = Len(q[i])
    BY <1>6, <1>8, <1>11, <1>12
<1> QED BY <1>9, <1>10, <1>12, <1>13 DEF d, data, n

(* A reader finds in the body the segments that it was built from. *)
LEMMA ReadsBack ==
    ASSUME NEW W, NEW q \in Seq(Seq(W))
    PROVE  segmentsOf(body(q)) = q
<1> DEFINE halves == body(q)
           n == halves[1] + 1
           d == n \div 2 + 1
           data == Flatten(q)
           Body(g) == [i \in 1..n |-> IF i = 1 THEN d ELSE g[i - 1] + halves[i]]
           offset == CHOOSE g : g = Body(g)
           inner(i) == [w \in 1..halves[i + 1] |-> halves[2 * (offset[i] + w)]]
<1>1. segmentsOf(halves) = [i \in 1..n |-> inner(i)]
    BY DEF segmentsOf
<1>2. /\ halves[1] = Len(q) - 1
      /\ \A i \in 1..Len(q) : halves[i + 1] = Len(q[i])
      /\ \A k \in 1..Len(data) : halves[2 * ((Len(q) \div 2 + 1) + k)] = data[k]
    BY ZenonT(30), BodyIs
<1> HIDE DEF halves, data
<1>3. Len(q) \in Nat /\ n = Len(q)
    BY <1>2
<1> HIDE DEF n
<1>4. /\ n \in Nat
      /\ \A i \in 1..n : halves[i + 1] = Len(q[i])
      /\ \A k \in 1..Len(data) : halves[2 * (d + k)] = data[k]
    BY <1>2, <1>3
<1>5. d \in Nat /\ \A i \in 1..n : q[i] \in Seq(W) /\ Len(q[i]) \in Nat
    <2>1. n \div 2 \in Nat
        BY <1>4, Halves
    <2>2. \A i \in 1..n : q[i] \in Seq(W)
        BY <1>3
    <2>3. \A i \in 1..n : Len(q[i]) \in Nat
        BY <2>2
    <2> QED BY <2>1, <2>2, <2>3
<1>6. ASSUME NEW i \in 1..n PROVE inner(i) = q[i]
    <2>1. q # <<>>
        BY <1>3
    <2>2. PICK at \in [1..Len(q) -> Nat] :
                /\ at[1] = 0
                /\ \A k \in 2..Len(q) : at[k] = at[k - 1] + Len(q[k - 1])
                /\ \A k \in 1..Len(q) : \A w \in 1..Len(q[k]) :
                      /\ at[k] + w \in 1..Len(data)
                      /\ data[at[k] + w] = q[k][w]
        BY <2>1, Flattened DEF data
    <2> HIDE DEF d, inner
    <2>3. /\ \A k \in 1..n : at[k] \in Nat
          /\ \A k \in 2..n : at[k] = at[k - 1] + Len(q[k - 1])
          /\ \A k \in 1..n : \A w \in 1..Len(q[k]) :
                at[k] + w \in 1..Len(data) /\ data[at[k] + w] = q[k][w]
        BY ZenonT(30), <1>3, <2>2
    <2>4. ASSUME NEW k \in 2..n
          PROVE  /\ k \in 1..n /\ k # 1 /\ k - 1 \in 1..n /\ halves[k] = Len(q[k - 1])
                 /\ (d + at[k - 1]) + halves[k] = d + at[k]
        <3>1. k \in 1..n /\ k # 1 /\ k - 1 \in 1..n /\ (k - 1) + 1 = k
            BY <1>4
        <3>2. halves[(k - 1) + 1] = Len(q[k - 1])
            BY <1>4, <3>1
        <3>3. halves[k] = Len(q[k - 1])
            BY <3>1, <3>2
        <3>4. Len(q[k - 1]) \in Nat /\ at[k - 1] \in Nat /\ at[k] = at[k - 1] + Len(q[k - 1])
            BY <1>5, <2>3, <3>1
        <3>5. ASSUME NEW x \in Nat, NEW y \in Nat, NEW z \in Nat PROVE (x + y) + z = x + (y + z)
            OBVIOUS
        <3> QED BY <1>5, <3>1, <3>3, <3>4, <3>5
    <2> DEFINE g == [k \in 1..n |-> d + at[k]]
    <2>5. \A k \in 1..n : k = 1 \/ k \in 2..n
        BY <1>4
    <2>6. g = Body(g)
        <3>1. ASSUME NEW k \in 1..n PROVE g[k] = IF k = 1 THEN d ELSE g[k - 1] + halves[k]
            <4>1. CASE k = 1
                BY <1>5, <2>2, <4>1
            <4>2. CASE k \in 2..n
                <5>1. g[k] = d + at[k] /\ g[k - 1] = d + at[k - 1] /\ k # 1
                    BY <2>4, <4>2
                <5> HIDE DEF g
                <5> QED BY <2>4, <4>2, <5>1
            <4> QED BY <2>5, <4>1, <4>2
        <3> QED BY <3>1
    <2>7. offset = Body(offset)
        <3> HIDE DEF Body, g
        <3> QED BY <2>6
    <2> HIDE DEF offset
    <2>8. \A k \in 1..n : offset[k] = d + at[k]
        <3> DEFINE S == {m \in Nat : m + 1 <= n => offset[m + 1] = d + at[m + 1]}
        <3>1. 0 \in S
            <4>1. 1 \in 1..n
                BY <1>4
            <4>2. offset[1] = d
                BY <2>7, <4>1
            <4>3. d + 0 = d
                BY <1>5
            <4> QED BY <2>2, <4>2, <4>3
        <3>2. ASSUME NEW m \in S PROVE m + 1 \in S
            <4> SUFFICES ASSUME (m + 1) + 1 <= n PROVE offset[(m + 1) + 1] = d + at[(m + 1) + 1]
                OBVIOUS
            <4> DEFINE k == (m + 1) + 1
            <4>1. m \in Nat /\ k \in 2..n /\ k - 1 = m + 1 /\ offset[m + 1] = d + at[m + 1]
                BY <1>4
            <4> HIDE DEF k
            <4>2. offset[k] = offset[k - 1] + halves[k]
                BY <2>4, <2>7, <4>1
            <4>3. offset[k] = d + at[k]
                BY <2>4, <4>1, <4>2
            <4> QED BY <4>3 DEF k
        <3>3. S \in SUBSET Nat
            OBVIOUS
        <3>4. \A m \in S : m + 1 <= n => offset[m + 1] = d + at[m + 1]
            OBVIOUS
        <3> HIDE DEF S
        <3>5. \A m \in Nat : m \in S
            BY ZenonT(30), <3>1, <3>2, <3>3, SetInduction
        <3>6. ASSUME NEW k \in 1..n PROVE offset[k] = d + at[k]
            <4>1. k - 1 \in Nat /\ (k - 1) + 1 = k /\ k <= n
                BY <1>4
            <4>2. (k - 1) + 1 <= n => offset[(k - 1) + 1] = d + at[(k - 1) + 1]
                BY ZenonT(30), <3>4, <3>5, <4>1
            <4> QED BY <4>1, <4>2
        <3> QED BY <3>6
    <2>9. ASSUME NEW w \in 1..Len(q[i]) PROVE halves[2 * (offset[i] + w)] = q[i][w]
        <3>1. at[i] + w \in 1..Len(data) /\ data[at[i] + w] = q[i][w]
            BY <2>3
        <3>2. offset[i] + w = d + (at[i] + w)
            <4>1. at[i] \in Nat /\ w \in Nat /\ offset[i] = d + at[i]
                BY <1>5, <2>3, <2>8
            <4> QED BY <1>5, <4>1
        <3> QED BY <1>4, <3>1, <3>2
    <2>10. inner(i) = [w \in 1..Len(q[i]) |-> q[i][w]]
        BY <1>4, <2>9 DEF inner
    <2>11. q[i] \in Seq(W)
        BY <1>5
    <2> QED BY <2>10, <2>11
<1> HIDE DEF inner
<1>7. [i \in 1..n |-> inner(i)] = [i \in 1..n |-> q[i]]
    BY <1>6
<1>8. q = [i \in 1..n |-> q[i]]
    BY <1>3
<1> QED BY <1>1, <1>7, <1>8 DEF halves

-----------------------------------------------------------------------------
(* What is sent, in parts. *)
Sent == [id : Word, segments : Seq(Seq(Word)), raw : Seq(Seq(Nat))]

PartsOf(m) == <<<<m.id>>, body(m.segments)>> \o m.raw

(* The segments of a builder are sequences of words, none of them empty. *)
LEMMA SegmentsType ==
    ASSUME BufferInv, NEW b \in Builders
    PROVE  segmentsForOutput(b) \in Seq(Seq(Word)) /\ builders[b].id \in Word
<1>1. builders[b] \in Builder
    BY DEF BufferInv
<1>2. builders[b].arena \in Seq(Segment) /\ builders[b].id \in Word
    BY <1>1 DEF Builder
<1> DEFINE q == builders[b].arena
           n == Len(q)
<1>3. segmentsForOutput(b) = [i \in DOMAIN q |-> q[i].words]
    BY DEF segmentsForOutput
<1>4. n \in Nat /\ DOMAIN q = 1..n /\ \A i \in 1..n : q[i] \in Segment
    BY <1>2
<1> HIDE DEF q, n
<1>5. \A i \in 1..n : q[i].words \in Seq(Word)
    <2>1. \A s \in Segment : s.words \in Seq(Word)
        BY DEF Segment
    <2> QED BY <1>4, <2>1
<1>6. [i \in 1..n |-> q[i].words] \in [1..n -> Seq(Word)]
    BY <1>5
<1> QED BY <1>2, <1>3, <1>4, <1>6

(* The first two parts of a message are not empty. *)
LEMMA PartsType ==
    ASSUME NEW m \in Sent
    PROVE  /\ PartsOf(m) \in Seq(Part)
           /\ Len(PartsOf(m)) = Len(m.raw) + 2 /\ Len(m.raw) \in Nat
           /\ PartsOf(m)[1] = <<m.id>> /\ PartsOf(m)[2] = body(m.segments)
           /\ <<m.id>> \in Part /\ body(m.segments) \in Part
           /\ m.raw \in Seq(Part)
           /\ <<m.id>> # <<>> /\ body(m.segments) # <<>>
<1>1. m.id \in Word /\ m.segments \in Seq(Seq(Word)) /\ m.raw \in Seq(Seq(Nat))
    BY DEF Sent
<1>2. <<m.id>> \in Part /\ <<m.id>> # <<>>
    BY <1>1 DEF Part
<1>3. body(m.segments) \in Part /\ body(m.segments) # <<>>
    BY ZenonT(30), <1>1, BodyIs DEF Part
<1>4. Seq(Nat) \subseteq Part
    <2> SUFFICES ASSUME NEW s \in Seq(Nat) PROVE s \in Seq(Int \cup Word)
        BY DEF Part
    <2>1. s \in [1..Len(s) -> Int \cup Word] /\ Len(s) \in Nat
        OBVIOUS
    <2> QED BY <2>1
<1>5. m.raw \in Seq(Part)
    <2> DEFINE s == m.raw
    <2>1. s \in [1..Len(s) -> Part] /\ Len(s) \in Nat
        BY <1>1, <1>4
    <2> HIDE DEF Part
    <2> QED BY <2>1
<1> DEFINE x == <<m.id>>
           y == body(m.segments)
           t == m.raw
           h == <<x, y>>
<1> HIDE DEF x, y, t, Part
<1>6. h \in Seq(Part) /\ Len(h) = 2 /\ h[1] = x /\ h[2] = y
    BY <1>2, <1>3 DEF x, y
<1>7. t \in Seq(Part) /\ Len(t) \in Nat
    BY <1>5 DEF t
<1> HIDE DEF h
<1>8. /\ h \o t \in Seq(Part) /\ Len(h \o t) = Len(t) + 2
      /\ (h \o t)[1] = x /\ (h \o t)[2] = y
    <2>1. /\ h \o t \in Seq(Part) /\ Len(h \o t) = 2 + Len(t)
          /\ \A i \in 1..2 + Len(t) : (h \o t)[i] = IF i <= 2 THEN h[i] ELSE t[i - 2]
        <3>1. /\ h \o t \in Seq(Part) /\ Len(h \o t) = Len(h) + Len(t)
              /\ \A i \in 1..Len(h) + Len(t) :
                    (h \o t)[i] = IF i <= Len(h) THEN h[i] ELSE t[i - Len(h)]
            BY ONLY ZenonT(30), <1>6, <1>7, ConcatProperties
        <3> QED BY <1>6, <3>1
    <2>2. 1 \in 1..2 + Len(t) /\ 2 \in 1..2 + Len(t) /\ 2 + Len(t) = Len(t) + 2
        BY <1>7
    <2> QED BY <1>6, <2>1, <2>2
<1>9. PartsOf(m) = h \o t
    BY DEF PartsOf, h, x, y, t
<1> QED BY <1>2, <1>3, <1>5, <1>7, <1>8, <1>9 DEF x, y, t

(* The message that send() takes is one of a builder. *)
LEMMA SentType ==
    ASSUME BufferInv, NEW b \in Builders, NEW raw \in RawBuffers
    PROVE  LET m == [id |-> builders[b].id, segments |-> segmentsForOutput(b), raw |-> raw]
           IN  m \in Sent /\ smartMessage(b, raw) = PartsOf(m)
<1>1. raw \in Seq(Seq(Nat))
    BY MessagesAssumption
<1>2. segmentsForOutput(b) \in Seq(Seq(Word)) /\ builders[b].id \in Word
    BY SegmentsType
<1> QED BY <1>1, <1>2 DEF Sent, PartsOf, smartMessage

(* The pool and the pipe change, the builders do not. *)
LEMMA PipeReplaced ==
    ASSUME BufferInv, builders' = builders, moved' = moved,
           pipe' \in Seq([parts : Seq(Part), buffer : Buffers \cup {NoBuffer}]),
           Placed(HeldBy, free', pipe'),
           Nowhere(HeldBy, free', pipe') \subseteq Nowhere(HeldBy, free, pipe)
    PROVE  BufferInv'
<1>1. HeldBy' = HeldBy
    BY DEF HeldBy
<1>2. Placed(HeldBy', free', pipe')
    BY <1>1
<1>3. ~moved => Nowhere(HeldBy', free', pipe') = {}
    BY <1>1 DEF BufferInv
<1> HIDE DEF HeldBy, Placed, Nowhere
<1> QED BY <1>2, <1>3 DEF BufferInv

(* A message that is sent, or refused, leaves every buffer with one place. *)
LEMMA SendInv ==
    ASSUME BufferInv, NEW b \in Builders, NEW raw \in RawBuffers, Send(b, raw)
    PROVE  BufferInv'
<1> DEFINE M == [parts : Seq(Part), buffer : Buffers \cup {NoBuffer}]
<1>1. /\ free \cap OsBuffers # {}
      /\ UNCHANGED <<builders, moved>>
    BY DEF Send
<1>2. PICK buffer \in bodyBuffers(b) :
          \/ /\ sendTaken([parts |-> smartMessage(b, raw), buffer |-> buffer])
             /\ free' = free \ {buffer}
          \/ sendRefused /\ free' = free
    BY DEF Send
<1>3. buffer \in free \cup {NoBuffer} /\ buffer \in Buffers \cup {NoBuffer}
    <2>1. taken(TRUE) \in free \cap Buffers
        BY ZenonT(30), <1>1, TakenIsFree
    <2> QED BY ZenonT(30), <2>1 DEF bodyBuffers
<1>4. pipe \in Seq(M) /\ Placed(HeldBy, free, pipe)
    BY DEF BufferInv
<1> DEFINE m == [parts |-> smartMessage(b, raw), buffer |-> buffer]
<1>5. CASE sendTaken(m) /\ free' = free \ {buffer}
    <2>1. m \in M /\ m.buffer = buffer
        BY ZenonT(30), <1>3, SentType, PartsType
    <2>2. pipe' = Append(pipe, m)
        BY <1>5 DEF sendTaken
    <2> HIDE DEF m, M, HeldBy, Placed, Nowhere
    <2>3. /\ Placed(HeldBy, free', pipe')
          /\ Nowhere(HeldBy, free', pipe') \subseteq Nowhere(HeldBy, free, pipe)
        BY ZenonT(30), <1>3, <1>4, <1>5, <2>1, <2>2, PlacedSent
    <2>4. pipe' \in Seq(M)
        BY <1>4, <2>1, <2>2
    <2> QED BY <1>1, <2>3, <2>4, PipeReplaced DEF M
<1>6. CASE sendRefused /\ free' = free
    <2>1. pipe' = pipe
        BY <1>6 DEF sendRefused
    <2> HIDE DEF HeldBy, Placed, Nowhere
    <2> QED BY <1>1, <1>4, <1>6, <2>1, PipeReplaced
<1> QED BY <1>2, <1>5, <1>6

(* So does ZeroMQ, which delivers or loses the first message of the pipe. *)
LEMMA ZmqInv ==
    ASSUME BufferInv, Zmq
    PROVE  BufferInv'
<1> DEFINE M == [parts : Seq(Part), buffer : Buffers \cup {NoBuffer}]
<1>1. /\ pipe # <<>> /\ pipe' = Tail(pipe) /\ UNCHANGED <<builders, moved>>
      /\ free' = (free \cup {Head(pipe).buffer}) \ {NoBuffer}
    BY DEF Zmq, zmqFree, Transmit, Lose
<1>2. pipe \in Seq(M) /\ Placed(HeldBy, free, pipe)
    BY DEF BufferInv
<1>3. Head(pipe) \in M /\ Tail(pipe) \in Seq(M)
    BY ZenonT(30), <1>1, <1>2, HeadTailProperties
<1>4. Head(pipe).buffer \in Buffers \cup {NoBuffer}
    BY <1>3
<1> HIDE DEF M, HeldBy, Placed, Nowhere
<1>5. /\ Placed(HeldBy, free', pipe')
      /\ Nowhere(HeldBy, free', pipe') \subseteq Nowhere(HeldBy, free, pipe)
    BY ZenonT(30), <1>1, <1>2, <1>4, PlacedGone
<1> QED BY ZenonT(30), <1>1, <1>3, <1>5, PipeReplaced DEF M

-----------------------------------------------------------------------------
(* At first all buffers are free. *)
LEMMA InitBuffer == Init => BufferInv
<1> SUFFICES ASSUME Init PROVE BufferInv
    OBVIOUS
<1>1. /\ builders = [b \in Builders |-> Blank] /\ free = Buffers /\ moved = FALSE
      /\ pipe = <<>>
    BY DEF Init, BuilderInit, SocketInit
<1>2. /\ Blank \in Builder /\ BuilderOK(Blank) /\ Held(Blank) = {} /\ Members(Blank) = {}
      /\ ~Blank.invalidated
    BY BlankIs
<1>3. \A b \in Builders : builders[b] = Blank
    BY <1>1
<1>4. builders \in [Builders -> Builder]
    BY <1>1, <1>2
<1>5. InPipe(pipe) = {} /\ Len(pipe) = 0
    BY <1>1, NoBuffers DEF InPipe
<1>6. \A b \in Builders : HeldBy[b] = {}
    BY <1>2, <1>3 DEF HeldBy
<1>7. Placed(HeldBy, free, pipe)
    <2>1. 1..Len(pipe) = {}
        BY <1>5
    <2> QED BY <1>1, <1>5, <1>6, <2>1 DEF Placed, Apart
<1>8. Nowhere(HeldBy, free, pipe) = {}
    BY <1>1 DEF Nowhere
<1>9. pipe \in Seq([parts : Seq(Part), buffer : Buffers \cup {NoBuffer}])
    BY <1>1
<1> HIDE DEF HeldBy, Placed, Nowhere
<1> QED BY ZenonT(30), <1>1, <1>2, <1>3, <1>4, <1>7, <1>8, <1>9 DEF BufferInv

(* Only the user of the pool, send() and ZeroMQ move buffers. *)
LEMMA BufferKept ==
    ASSUME BufferInv, UNCHANGED <<builders, free, moved, pipe>>
    PROVE  BufferInv'
<1>1. Placed(HeldBy, free, pipe) /\ pipe \in Seq([parts : Seq(Part), buffer : Buffers \cup {NoBuffer}])
    BY DEF BufferInv
<1>2. Nowhere(HeldBy, free, pipe) \subseteq Nowhere(HeldBy, free, pipe)
    OBVIOUS
<1> HIDE DEF HeldBy, Placed, Nowhere
<1> QED BY <1>1, <1>2, PipeReplaced

(* Every step leaves every buffer with one place. *)
LEMMA NextBuffer == BufferInv /\ [Next]_vars => BufferInv'
<1> SUFFICES ASSUME BufferInv, [Next]_vars PROVE BufferInv'
    OBVIOUS
<1>1. CASE Build
    BY <1>1, BuildInv
<1>2. CASE \E b \in Builders, raw \in RawBuffers : Send(b, raw)
    BY <1>2, SendInv
<1>3. CASE Zmq
    BY <1>3, ZmqInv
<1>4. CASE Handle \/ Fail \/ Others
    <2>1. UNCHANGED <<builders, free, moved, pipe>>
        BY <1>4 DEF Handle, Fail, Others, builderVars, onReceiveMore, onReceiveHandled,
                    onReceiveReported, onReceiveThrows, onReceiveError, LastPart,
                    FreshErrorCode, Restart
    <2> QED BY <2>1, BufferKept
<1>5. CASE UNCHANGED vars
    <2>1. UNCHANGED <<builders, free, moved, pipe>>
        BY <1>5 DEF vars, builderVars, socketVars
    <2> QED BY <2>1, BufferKept
<1> QED BY <1>1, <1>2, <1>3, <1>4, <1>5 DEF Next

(* Where the buffers are, for any builders and any pool. *)
THEOREM MessagesBufferInvariant == Spec => []BufferInv
<1> QED BY InitBuffer, NextBuffer, PTL DEF Spec

(* No buffer has two users, however builders are moved and destroyed and   *)
(* messages are sent, taken by the other node and lost.                    *)
THEOREM MessagesBuffersExclusive == Spec => []BuffersExclusive
<1>1. ASSUME BufferInv PROVE BuffersExclusive
    <2>1. \A b \in Builders : BuilderOK(builders[b])
        BY <1>1 DEF BufferInv
    <2>2. \A b \in Builders : ArenaBuffers(b) = HeldBy[b]
        BY DEF ArenaBuffers, HeldBy, Held
    <2>3. PipeBuffers = InPipe(pipe)
        BY DEF PipeBuffers, InPipe
    <2>4. Placed(HeldBy, free, pipe)
        BY <1>1 DEF BufferInv
    <2>5. DOMAIN pipe = 1..Len(pipe)
        BY <1>1 DEF BufferInv
    <2>6. ASSUME NEW b \in Builders
          PROVE  \A i, j \in DOMAIN builders[b].arena :
                    builders[b].arena[i].buffer = builders[b].arena[j].buffer => i = j
        <3> DEFINE q == builders[b].arena
        <3>1. /\ q \in Seq(Segment)
              /\ \A i, j \in 1..Len(q) : q[i].buffer = q[j].buffer => i = j
            BY <2>1 DEF BuilderOK, Builder
        <3>2. DOMAIN q = 1..Len(q)
            BY <3>1
        <3> HIDE DEF q
        <3>3. \A i, j \in DOMAIN q : q[i].buffer = q[j].buffer => i = j
            BY <3>1, <3>2
        <3> QED BY <3>3 DEF q
    <2>7. ASSUME NEW b \in Builders, NEW q \in {builders[b].first, builders[b].more},
                 NEW i \in 1..Len(q)
          PROVE  q[i].pooled \/ q[i].buffer \in OsBuffers
        BY <2>1 DEF BuilderOK, FromPoolOrSystem
    <2> HIDE DEF HeldBy
    <2>8. ASSUME NEW b \in Builders
          PROVE  /\ ArenaBuffers(b) \cap (free \cup PipeBuffers) = {}
                 /\ \A c \in Builders \ {b} : ArenaBuffers(b) \cap ArenaBuffers(c) = {}
        BY <2>2, <2>3, <2>4 DEF Placed, Apart
    <2>9. /\ PipeBuffers \cap free = {}
          /\ \A i, j \in DOMAIN pipe :
                pipe[i].buffer = pipe[j].buffer => i = j \/ pipe[i].buffer = NoBuffer
        BY <2>3, <2>4, <2>5 DEF Placed
    <2> HIDE DEF ArenaBuffers, PipeBuffers
    <2> QED BY <2>6, <2>7, <2>8, <2>9 DEF BuffersExclusive
<1> QED BY <1>1, MessagesBufferInvariant, PTL

(* Every buffer is free or has a user, as long as no builder is moved. *)
THEOREM MessagesLeaksOnlyByMove == Spec => []LeaksOnlyByMove
<1>1. ASSUME BufferInv PROVE LeaksOnlyByMove
    <2> SUFFICES ASSUME ~moved
                 PROVE  Buffers = free \cup PipeBuffers \cup UNION {ArenaBuffers(b) : b \in Builders}
        BY DEF LeaksOnlyByMove
    <2>1. \A b \in Builders : ArenaBuffers(b) = HeldBy[b]
        BY DEF ArenaBuffers, HeldBy, Held
    <2>2. PipeBuffers = InPipe(pipe)
        BY DEF PipeBuffers, InPipe
    <2>3. Placed(HeldBy, free, pipe) /\ Nowhere(HeldBy, free, pipe) = {}
        BY <1>1 DEF BufferInv
    <2>4. InPipe(pipe) \subseteq Buffers
        <3>1. pipe \in Seq([parts : Seq(Part), buffer : Buffers \cup {NoBuffer}])
            BY <1>1 DEF BufferInv
        <3>2. ASSUME NEW i \in 1..Len(pipe)
              PROVE  pipe[i].buffer \in Buffers \cup {NoBuffer}
            <4> DEFINE R == [parts : Seq(Part), buffer : Buffers \cup {NoBuffer}]
            <4>1. pipe \in Seq(R)
                BY <3>1
            <4> HIDE DEF R
            <4>2. pipe[i] \in R
                BY <4>1
            <4> HIDE DEF Buffers
            <4> QED BY <4>2 DEF R
        <3> QED BY <3>2 DEF InPipe, BuffersOf
    <2> HIDE DEF HeldBy, ArenaBuffers, PipeBuffers, Buffers
    <2>5. UNION {ArenaBuffers(b) : b \in Builders} = UNION {HeldBy[b] : b \in Builders}
        BY <2>1
    <2>6. UNION {HeldBy[b] : b \in Builders} \subseteq Buffers /\ free \subseteq Buffers
        BY <2>3 DEF Placed
    <2> QED BY <2>2, <2>3, <2>4, <2>5, <2>6 DEF Nowhere
<1> QED BY <1>1, MessagesBufferInvariant, PTL
=============================================================================
