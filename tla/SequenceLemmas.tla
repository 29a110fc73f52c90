--------------------------- MODULE SequenceLemmas ---------------------------
(***************************************************************************)
(* Facts that the proofs share: induction over the numbers of a set; what  *)
(* a recursion defines, and what Flatten() computes; queues: what is       *)
(* appended and what is taken from the front, and how often it is there;   *)
(* and messages of several parts that arrive part by part.                 *)
(***************************************************************************)
EXTENDS Flattening, Integers, SequenceTheorems, WellFoundedInduction, TLAPS

(* A set of numbers that has 0, and with a number the next one, has all.   *)
LEMMA SetInduction ==
    ASSUME NEW S \in SUBSET Nat, 0 \in S, \A n \in S : n + 1 \in S
    PROVE  \A n \in Nat : n \in S
<1> DEFINE T == Nat \ S
<1> SUFFICES ASSUME T # {} PROVE FALSE
    OBVIOUS
<1>1. T \subseteq Nat
    OBVIOUS
<1>2. PICK x \in T : \A y \in T : ~(<<y, x>> \in OpToRel(<, Nat))
    <2> HIDE DEF T
    <2> QED BY ZenonT(30), <1>1, WFMin, NatLessThanWellFounded
<1>3. ASSUME NEW y \in Nat, y < x PROVE y \in S
    <2>1. <<y, x>> \in OpToRel(<, Nat)
        BY <1>1, <1>3 DEF OpToRel
    <2>2. y \notin T
        BY ZenonT(30), <1>2, <2>1
    <2> QED BY <2>2
<1>4. x \in Nat /\ x # 0 /\ x \notin S
    BY <1>1
<1>5. x - 1 \in Nat /\ x - 1 < x /\ (x - 1) + 1 = x
    BY <1>4
<1>6. x - 1 \in S
    BY <1>3, <1>5
<1> QED BY <1>4, <1>5, <1>6

(* h is the function that is defined by recursion over the numbers to n: a *)
(* step takes a number and the result before it                            *)
Recursing(h, n, base, step) ==
    \A i \in 0..n : h[i] = IF i = 0 THEN base ELSE step[<<i, h[i - 1]>>]

(* The function that a recursion defines exists. *)
LEMMA RecursionExists ==
    ASSUME NEW V, NEW n \in Nat, NEW base \in V, NEW step \in [(1..n) \X V -> V]
    PROVE  \E h \in [0..n -> V] : Recursing(h, n, base, step)
<1> DEFINE Exists(m) == \E h \in [0..m -> V] : Recursing(h, m, base, step)
           S == {m \in Nat : m <= n => Exists(m)}
<1>1. 0 \in S
    <2> DEFINE h == [i \in 0..0 |-> base]
    <2>1. h \in [0..0 -> V] /\ Recursing(h, 0, base, step)
        BY DEF Recursing
    <2>2. Exists(0)
        BY <2>1
    <2> HIDE DEF Exists
    <2> QED BY <2>2
<1>2. ASSUME NEW m \in S PROVE m + 1 \in S
    <2> SUFFICES ASSUME m + 1 <= n PROVE Exists(m + 1)
        <3> HIDE DEF Exists
        <3> QED OBVIOUS
    <2>0. m \in Nat /\ Exists(m)
        <3> HIDE DEF Exists
        <3> QED OBVIOUS
    <2> HIDE DEF S
    <2>1. PICK g \in [0..m -> V] : Recursing(g, m, base, step)
        BY <2>0
    <2> DEFINE next == step[<<m + 1, g[m]>>]
               h == [i \in 0..m + 1 |-> IF i = m + 1 THEN next ELSE g[i]]
    <2>2. next \in V
        <3>1. m + 1 \in 1..n /\ m \in 0..m
            BY <2>0
        <3> QED BY <3>1
    <2>3. h \in [0..m + 1 -> V]
        <3>1. \A i \in 0..m + 1 : i = m + 1 \/ i \in 0..m
            BY <2>0
        <3> HIDE DEF next
        <3> QED BY <2>2, <3>1
    <2>4. ASSUME NEW i \in 0..m + 1 PROVE h[i] = IF i = 0 THEN base ELSE step[<<i, h[i - 1]>>]
        <3>1. CASE i = m + 1
            <4>1. h[i] = next
                BY <3>1
            <4>2. i # 0 /\ i - 1 = m /\ m \in 0..m + 1 /\ m # m + 1
                BY <2>0, <3>1
            <4>3. h[i - 1] = g[m]
                BY <4>2
            <4> HIDE DEF h
            <4> QED BY <3>1, <4>1, <4>2, <4>3
        <3>2. CASE i # m + 1
            <4>1. i \in 0..m /\ (i # 0 => i - 1 \in 0..m + 1 /\ i - 1 # m + 1)
                BY <2>0, <3>2
            <4>2. h[i] = g[i] /\ (i # 0 => h[i - 1] = g[i - 1])
                BY <3>2, <4>1
            <4> HIDE DEF h
            <4> QED BY ZenonT(30), <2>1, <4>1, <4>2 DEF Recursing
        <3> QED BY <3>1, <3>2
    <2> HIDE DEF h
    <2>5. Recursing(h, m + 1, base, step)
        BY <2>4 DEF Recursing
    <2> QED BY <2>3, <2>5
<1>3. S \in SUBSET Nat
    OBVIOUS
<1> HIDE DEF S
<1>4. n \in S
    BY <1>1, <1>2, <1>3, SetInduction
<1>5. Exists(n)
    <2> HIDE DEF Exists
    <2> QED BY <1>4 DEF S
<1> QED BY <1>5

-----------------------------------------------------------------------------
(* Flatten() adds one sequence after the other. *)
LEMMA FlattenTrace ==
    ASSUME NEW W, NEW q \in Seq(Seq(W))
    PROVE  \E f \in [0..Len(q) -> Seq(W)] :
              /\ f[0] = <<>>
              /\ \A i \in 1..Len(q) : f[i] = f[i - 1] \o q[i]
              /\ Flatten(q) = f[Len(q)]
<1> DEFINE n == Len(q)
           V == Seq(W)
           step == [p \in (1..n) \X V |-> p[2] \o q[p[1]]]
           Body(g) == [i \in 0..n |-> IF i = 0 THEN <<>> ELSE g[i - 1] \o q[i]]
           flat == CHOOSE g : g = Body(g)
<1>1. n \in Nat /\ \A i \in 1..n : q[i] \in V
    OBVIOUS
<1>2. Flatten(q) = flat[n]
    BY DEF Flatten
<1> HIDE DEF n
<1>3. step \in [(1..n) \X V -> V]
    BY <1>1
<1>4. PICK h \in [0..n -> V] : Recursing(h, n, <<>>, step)
    <2>1. <<>> \in V
        OBVIOUS
    <2> HIDE DEF V, step, flat, Body
    <2> QED BY ZenonT(30), <1>1, <1>3, <2>1, RecursionExists
<1>5. ASSUME NEW i \in 0..n PROVE h[i] = IF i = 0 THEN <<>> ELSE h[i - 1] \o q[i]
    <2>1. CASE i = 0
        BY ZenonT(30), <1>4, <2>1 DEF Recursing
    <2>2. CASE i # 0
        <3>1. i - 1 \in 0..n /\ i \in 1..n
            BY <1>1, <2>2
        <3>2. h[i] = step[<<i, h[i - 1]>>] /\ h[i - 1] \in V
            BY ZenonT(30), <1>4, <2>2, <3>1 DEF Recursing
        <3> HIDE DEF V
        <3> QED BY ZenonT(30), <2>2, <3>1, <3>2
    <2> QED BY ZenonT(30), <2>1, <2>2
<1>6. h = Body(h)
    BY ZenonT(30), <1>5
<1>7. flat = Body(flat)
    <2> HIDE DEF Body
    <2> QED BY <1>6
<1> HIDE DEF flat
<1>8. flat[0] = <<>> /\ \A i \in 1..n : flat[i] = flat[i - 1] \o q[i]
    <2>1. 0 \in 0..n /\ \A i \in 1..n : i \in 0..n /\ i # 0
        BY <1>1
    <2> QED BY ZenonT(30), <1>7, <2>1
<1>9. \A i \in 0..n : flat[i] \in V
    <2> DEFINE S == {k \in Nat : k <= n => flat[k] \in V}
    <2>0. <<>> \in V
        OBVIOUS
    <2>1. 0 \in S
        BY ZenonT(30), <1>8, <2>0
    <2>2. ASSUME NEW k \in S PROVE k + 1 \in S
        <3> SUFFICES ASSUME k + 1 <= n PROVE flat[k + 1] \in V
            OBVIOUS
        <3>1. k \in Nat /\ k + 1 \in 1..n /\ (k + 1) - 1 = k /\ flat[k] \in V
            BY <1>1
        <3>2. flat[k + 1] = flat[k] \o q[k + 1]
            BY ZenonT(30), <1>8, <3>1
        <3> QED BY <1>1, <3>1, <3>2
    <2>3. S \in SUBSET Nat
        OBVIOUS
    <2>4. \A k \in S : k <= n => flat[k] \in V
        OBVIOUS
    <2> HIDE DEF S, V
    <2>5. \A k \in Nat : k \in S
        BY ZenonT(30), <2>1, <2>2, <2>3, SetInduction
    <2> QED BY <2>4, <2>5
<1>10. flat \in [0..n -> V]
    <2>1. flat = [i \in 0..n |-> flat[i]]
        BY <1>7
    <2> QED BY <1>9, <2>1
<1> QED BY ZenonT(30), <1>2, <1>8, <1>10 DEF n

(* Nothing flattened is nothing, and one more sequence is added at the end. *)
LEMMA FlattenNothing == Flatten(<<>>) = <<>>
<1>1. <<>> \in Seq(Seq({})) /\ Len(<<>>) = 0
    OBVIOUS
<1>2. PICK f \in [0..Len(<<>>) -> Seq({})] : f[0] = <<>> /\ Flatten(<<>>) = f[Len(<<>>)]
    BY ZenonT(30), <1>1, FlattenTrace
<1> QED BY <1>1, <1>2

(* It is a sequence over the same set. *)
LEMMA FlattenType ==
    ASSUME NEW W, NEW q \in Seq(Seq(W))
    PROVE  Flatten(q) \in Seq(W)
<1>1. PICK f \in [0..Len(q) -> Seq(W)] : Flatten(q) = f[Len(q)]
    BY ZenonT(30), FlattenTrace
<1>2. Len(q) \in 0..Len(q)
    OBVIOUS
<1> QED BY <1>1, <1>2

(* One more sequence is concatenated at the end. *)
LEMMA FlattenAppend ==
    ASSUME NEW W, NEW q \in Seq(Seq(W)), NEW x \in Seq(W)
    PROVE  Flatten(Append(q, x)) = Flatten(q) \o x
<1> DEFINE r == Append(q, x)
           n == Len(q)
<1>1. /\ r \in Seq(Seq(W)) /\ n \in Nat /\ Len(r) = n + 1 /\ r[n + 1] = x
      /\ \A k \in 1..n : r[k] = q[k]
    OBVIOUS
<1>2. PICK g \in [0..Len(q) -> Seq(W)] :
              /\ g[0] = <<>>
              /\ \A k \in 1..Len(q) : g[k] = g[k - 1] \o q[k]
              /\ Flatten(q) = g[Len(q)]
    BY ZenonT(30), FlattenTrace
<1> HIDE DEF r
<1>3. PICK h \in [0..Len(r) -> Seq(W)] :
              /\ h[0] = <<>>
              /\ \A k \in 1..Len(r) : h[k] = h[k - 1] \o r[k]
              /\ Flatten(r) = h[Len(r)]
    BY ZenonT(30), <1>1, FlattenTrace
<1> HIDE DEF n
<1> DEFINE S == {k \in Nat : k <= n => h[k] = g[k]}
<1>4. 0 \in S
    BY <1>2, <1>3
<1>5. ASSUME NEW k \in S PROVE k + 1 \in S
    <2> SUFFICES ASSUME k + 1 <= n PROVE h[k + 1] = g[k + 1]
        OBVIOUS
    <2>1. k \in Nat /\ k + 1 \in 1..n /\ k + 1 \in 1..Len(r) /\ (k + 1) - 1 = k /\ h[k] = g[k]
        BY <1>1
    <2>2. h[k + 1] = h[k] \o r[k + 1]
        BY ZenonT(30), <1>3, <2>1
    <2>3. g[k + 1] = g[k] \o q[k + 1]
        BY ZenonT(30), <1>2, <2>1 DEF n
    <2> QED BY ZenonT(30), <1>1, <2>1, <2>2, <2>3
<1>6. S \in SUBSET Nat
    OBVIOUS
<1> HIDE DEF S
<1>7. n \in S
    BY ZenonT(30), <1>1, <1>4, <1>5, <1>6, SetInduction
<1>8. h[n] = g[n]
    BY <1>1, <1>7 DEF S
<1>9. h[n + 1] = h[n] \o x
    <2>1. n + 1 \in 1..Len(r) /\ (n + 1) - 1 = n
        BY <1>1
    <2> QED BY ZenonT(30), <1>1, <1>3, <2>1
<1> QED BY <1>1, <1>2, <1>3, <1>8, <1>9 DEF n, r

(* Concatenation is associative. *)
LEMMA ThreeJoined == \A W : \A a, b, c \in Seq(W) : (a \o b) \o c = a \o (b \o c)
BY ConcatAssociative

(* What is at the front comes first. *)
LEMMA FlattenFront ==
    ASSUME NEW W, NEW q \in Seq(Seq(W)), q # <<>>
    PROVE  Flatten(q) = Head(q) \o Flatten(Tail(q))
<1> DEFINE r == Tail(q)
           n == Len(r)
           v == Head(q)
<1>1. /\ r \in Seq(Seq(W)) /\ n \in Nat /\ Len(q) = n + 1 /\ q[1] = v
      /\ v \in Seq(W) /\ \A k \in 1..n : r[k] = q[k + 1]
    OBVIOUS
<1>2. \A k \in 1..n : r[k] \in Seq(W)
    BY <1>1
<1>3. PICK g \in [0..Len(q) -> Seq(W)] :
              /\ g[0] = <<>>
              /\ \A k \in 1..Len(q) : g[k] = g[k - 1] \o q[k]
              /\ Flatten(q) = g[Len(q)]
    BY ZenonT(30), FlattenTrace
<1> HIDE DEF r, v
<1>4. PICK h \in [0..Len(r) -> Seq(W)] :
              /\ h[0] = <<>>
              /\ \A k \in 1..Len(r) : h[k] = h[k - 1] \o r[k]
              /\ Flatten(r) = h[Len(r)]
    BY ZenonT(30), <1>1, FlattenTrace
<1> HIDE DEF n
<1> DEFINE S == {k \in Nat : k <= n => v \o h[k] = g[k + 1]}
<1>5. 0 \in S
    <2>1. 1 \in 1..Len(q) /\ 1 - 1 = 0 /\ 0 + 1 = 1
        BY <1>1
    <2>2. g[1] = <<>> \o v
        BY ZenonT(30), <1>1, <1>3, <2>1
    <2>3. <<>> \o v = v /\ v \o <<>> = v
        BY <1>1
    <2> QED BY ZenonT(30), <1>4, <2>1, <2>2, <2>3
<1>6. ASSUME NEW k \in S PROVE k + 1 \in S
    <2> SUFFICES ASSUME k + 1 <= n PROVE v \o h[k + 1] = g[(k + 1) + 1]
        OBVIOUS
    <2>1. /\ k \in Nat /\ k + 1 \in 1..n /\ (k + 1) + 1 \in 1..Len(q) /\ k \in 0..n
          /\ (k + 1) - 1 = k /\ ((k + 1) + 1) - 1 = k + 1 /\ v \o h[k] = g[k + 1]
        <3>1. k \in Nat /\ (k <= n => v \o h[k] = g[k + 1])
            OBVIOUS
        <3>2. /\ k <= n /\ k + 1 \in 1..n /\ (k + 1) + 1 \in 1..Len(q) /\ k \in 0..n
              /\ (k + 1) - 1 = k /\ ((k + 1) + 1) - 1 = k + 1
            <4> HIDE DEF S
            <4> QED BY <1>1, <3>1
        <3> HIDE DEF S
        <3> QED BY <3>1, <3>2
    <2>2. h[k + 1] = h[k] \o r[k + 1]
        BY ZenonT(30), <1>4, <2>1 DEF n
    <2>3. g[(k + 1) + 1] = g[k + 1] \o q[(k + 1) + 1]
        BY ZenonT(30), <1>3, <2>1
    <2>4. r[k + 1] = q[(k + 1) + 1]
        BY <1>1, <2>1
    <2>5. h[k] \in Seq(W) /\ r[k + 1] \in Seq(W) /\ v \in Seq(W)
        BY ZenonT(30), <1>1, <1>2, <1>4, <2>1 DEF n
    <2>6. (v \o h[k]) \o r[k + 1] = v \o (h[k] \o r[k + 1])
        <3> HIDE DEF S
        <3> DEFINE s == h[k]
                   t == r[k + 1]
        <3>1. s \in Seq(W) /\ t \in Seq(W) /\ v \in Seq(W)
            BY <2>5
        <3>2. (v \o s) \o t = v \o (s \o t)
            <4> HIDE DEF s, t
            <4> QED BY ONLY <3>1, ThreeJoined, SMTT(60)
        <3> QED BY <3>2
    <2> QED BY <2>1, <2>2, <2>3, <2>4, <2>6
<1>7. S \in SUBSET Nat
    OBVIOUS
<1> HIDE DEF S
<1>8. n \in S
    BY ZenonT(30), <1>1, <1>5, <1>6, <1>7, SetInduction
<1>9. v \o h[n] = g[n + 1]
    BY <1>1, <1>8 DEF S
<1> QED BY ZenonT(30), <1>1, <1>3, <1>4, <1>9 DEF n, r, v

(* Where what is in each of the sequences is. *)
LEMMA Flattened ==
    ASSUME NEW W, NEW q \in Seq(Seq(W)), q # <<>>
    PROVE  \E at \in [1..Len(q) -> Nat] :
              /\ at[1] = 0
              /\ \A i \in 2..Len(q) : at[i] = at[i - 1] + Len(q[i - 1])
              /\ \A i \in 1..Len(q) : \A w \in 1..Len(q[i]) :
                    /\ at[i] + w \in 1..Len(Flatten(q))
                    /\ Flatten(q)[at[i] + w] = q[i][w]
<1> DEFINE n == Len(q)
           data == Flatten(q)
<1>1. PICK f \in [0..Len(q) -> Seq(W)] :
              /\ f[0] = <<>>
              /\ \A i \in 1..Len(q) : f[i] = f[i - 1] \o q[i]
              /\ data = f[Len(q)]
    BY ZenonT(30), FlattenTrace
<1>2. n \in Nat \ {0} /\ \A i \in 1..n : q[i] \in Seq(W) /\ Len(q[i]) \in Nat
    BY EmptySeq
<1>3. \A i \in 0..n : f[i] \in Seq(W) /\ Len(f[i]) \in Nat
    <2>1. \A i \in 0..n : f[i] \in Seq(W)
        BY ZenonT(30), <1>1
    <2> QED BY <2>1
<1> HIDE DEF n, data
<1> DEFINE at == [i \in 1..n |-> Len(f[i - 1])]
<1>4. ASSUME NEW i \in 1..n
      PROVE  /\ Len(f[i]) = Len(f[i - 1]) + Len(q[i]) /\ i - 1 \in 0..n /\ i \in 0..n
             /\ \A k \in 1..Len(f[i]) :
                   f[i][k] = IF k <= Len(f[i - 1]) THEN f[i - 1][k] ELSE q[i][k - Len(f[i - 1])]
    <2>1. i - 1 \in 0..n /\ i \in 0..n
        BY <1>2
    <2>2. f[i] = f[i - 1] \o q[i] /\ f[i - 1] \in Seq(W) /\ q[i] \in Seq(W)
        BY ZenonT(30), <1>1, <1>2, <1>3, <2>1 DEF n
    <2> DEFINE s == f[i - 1]
               t == q[i]
               u == f[i]
    <2>3. s \in Seq(W) /\ t \in Seq(W) /\ u = s \o t
        BY <2>2
    <2> HIDE DEF s, t, u
    <2>4. /\ Len(u) = Len(s) + Len(t)
          /\ \A k \in 1..Len(u) : u[k] = IF k <= Len(s) THEN s[k] ELSE t[k - Len(s)]
        BY <2>3, ConcatProperties
    <2> QED BY ZenonT(30), <2>1, <2>4 DEF s, t, u
<1>5. 1 \in 1..n /\ \A i \in 2..n : i \in 1..n /\ i - 1 \in 1..n
    BY <1>2
<1>6. at[1] = 0
    <2>1. 1 - 1 = 0 /\ Len(<<>>) = 0
        OBVIOUS
    <2> QED BY <1>1, <1>5, <2>1
<1>7. ASSUME NEW i \in 2..n PROVE at[i] = at[i - 1] + Len(q[i - 1])
    <2>1. i - 1 \in 1..n /\ i \in 1..n
        BY <1>5
    <2>2. Len(f[i - 1]) = Len(f[(i - 1) - 1]) + Len(q[i - 1])
        BY ZenonT(30), <1>4, <2>1
    <2> QED BY ZenonT(30), <2>1, <2>2
<1>8. ASSUME NEW i \in 1..n PROVE at[i] \in Nat /\ at[i] = Len(f[i - 1])
    BY <1>3, <1>4
<1> HIDE DEF at
<1>9. ASSUME NEW i \in 1..n, NEW w \in 1..Len(q[i])
      PROVE  at[i] + w \in 1..Len(f[i]) /\ f[i][at[i] + w] = q[i][w]
    <2>1. at[i] \in Nat /\ Len(f[i]) = at[i] + Len(q[i]) /\ Len(q[i]) \in Nat
        BY ZenonT(30), <1>2, <1>4, <1>8
    <2>2. at[i] + w \in 1..Len(f[i]) /\ ~(at[i] + w <= at[i]) /\ (at[i] + w) - at[i] = w
        <3>1. \A a, l \in Nat : \A v \in 1..l :
                  a + v \in 1..a + l /\ ~(a + v <= a) /\ (a + v) - a = v
            BY ONLY TRUE
        <3> QED BY ZenonT(30), <2>1, <3>1
    <2>3. f[i][at[i] + w] = IF at[i] + w <= Len(f[i - 1]) THEN f[i - 1][at[i] + w]
                                                        ELSE q[i][(at[i] + w) - Len(f[i - 1])]
        BY ZenonT(30), <1>4, <2>2
    <2>4. at[i] = Len(f[i - 1])
        BY <1>8
    <2> QED BY <2>2, <2>3, <2>4
<1>10. ASSUME NEW i \in 1..n
       PROVE  Len(f[i]) <= Len(f[n]) /\ \A k \in 1..Len(f[i]) : f[n][k] = f[i][k]
    <2> DEFINE Grown(j) == Len(f[i]) <= Len(f[j]) /\ \A k \in 1..Len(f[i]) : f[j][k] = f[i][k]
               S == {m \in Nat : i + m <= n => Grown(i + m)}
    <2>1. 0 \in S
        <3>1. i + 0 = i /\ Len(f[i]) \in Nat
            BY <1>3, <1>4
        <3>2. Grown(i)
            BY <3>1
        <3> HIDE DEF Grown
        <3> QED BY <3>1, <3>2
    <2>2. ASSUME NEW m \in S PROVE m + 1 \in S
        <3>0. m \in Nat /\ (i + m <= n => Grown(i + m))
            <4> HIDE DEF Grown
            <4> QED OBVIOUS
        <3> SUFFICES ASSUME i + (m + 1) <= n PROVE Grown(i + (m + 1))
            <4> HIDE DEF Grown
            <4> QED BY <3>0
        <3> DEFINE j == i + (m + 1)
        <3>1. j - 1 = i + m /\ i + m <= n /\ i + m \in 0..n /\ j \in 1..n /\ j \in 0..n
            BY <1>2, <3>0
        <3>2. Grown(j - 1)
            <4> HIDE DEF Grown
            <4> QED BY <3>0, <3>1
        <3> HIDE DEF j
        <3>3. /\ Len(f[j]) = Len(f[j - 1]) + Len(q[j])
              /\ \A k \in 1..Len(f[j]) :
                   f[j][k] = IF k <= Len(f[j - 1]) THEN f[j - 1][k] ELSE q[j][k - Len(f[j - 1])]
            BY ZenonT(30), <1>4, <3>1
        <3>4. Len(f[j]) \in Nat /\ Len(f[j - 1]) \in Nat /\ Len(q[j]) \in Nat /\ Len(f[i]) \in Nat
            BY ZenonT(30), <1>2, <1>3, <1>4, <3>1
        <3>5. Len(f[i]) <= Len(f[j - 1]) /\ Len(f[j - 1]) <= Len(f[j]) /\ Len(f[i]) <= Len(f[j])
            <4>1. Len(f[i]) <= Len(f[j - 1])
                BY <3>2
            <4>2. ASSUME NEW x \in Nat, NEW y \in Nat, NEW z \in Nat, x <= y
                  PROVE  y <= y + z /\ x <= y + z
                BY <4>2
            <4>3. Len(f[j - 1]) <= Len(f[j - 1]) + Len(q[j]) /\ Len(f[i]) <= Len(f[j - 1]) + Len(q[j])
                BY ZenonT(30), <3>4, <4>1, <4>2
            <4> QED BY ZenonT(30), <3>3, <4>1, <4>3
        <3>6. ASSUME NEW k \in 1..Len(f[i]) PROVE f[j][k] = f[i][k]
            <4>1. k \in 1..Len(f[j]) /\ k <= Len(f[j - 1])
                BY SMTT(60), <3>4, <3>5
            <4> QED BY ZenonT(30), <3>2, <3>3, <4>1
        <3>7. Grown(j)
            BY <3>5, <3>6
        <3> QED BY <3>7 DEF j
    <2>3. S \in SUBSET Nat
        OBVIOUS
    <2>4. \A m \in S : i + m <= n => Grown(i + m)
        <3> HIDE DEF Grown
        <3> QED OBVIOUS
    <2> HIDE DEF S
    <2>5. \A m \in Nat : m \in S
        BY ZenonT(30), <2>1, <2>2, <2>3, SetInduction
    <2>6. n - i \in Nat /\ i + (n - i) = n /\ n <= n
        BY <1>2
    <2>7. Grown(n)
        <3> HIDE DEF Grown
        <3>1. i + (n - i) <= n => Grown(i + (n - i))
            BY <2>4, <2>5, <2>6
        <3> QED BY <2>6, <3>1
    <2> QED BY <2>7
<1>11. data = f[n] /\ data \in Seq(W)
    BY <1>1, <1>2, <1>3 DEF n
<1>12. ASSUME NEW i \in 1..n, NEW w \in 1..Len(q[i])
       PROVE  at[i] + w \in 1..Len(data) /\ data[at[i] + w] = q[i][w]
    <2>1. at[i] + w \in 1..Len(f[i]) /\ f[i][at[i] + w] = q[i][w]
        BY <1>9
    <2>2. Len(f[i]) <= Len(data) /\ data[at[i] + w] = f[i][at[i] + w]
        BY ZenonT(30), <1>10, <1>11, <2>1
    <2>3. Len(f[i]) \in Nat /\ Len(data) \in Nat
        BY <1>3, <1>4, <1>11
    <2> QED BY <2>1, <2>2, <2>3
<1>13. at \in [1..n -> Nat]
    BY <1>8 DEF at
<1> QED BY ZenonT(30), <1>6, <1>7, <1>12, <1>13 DEF n, data

-----------------------------------------------------------------------------
(* where c is in queue s, and how often *)
Places(s, c) == {i \in 1..Len(s) : s[i] = c}

Marks(s, c) == [i \in 1..Len(s) |-> IF s[i] = c THEN <<c>> ELSE <<>>]

Count(s, c) == Len(Flatten(Marks(s, c)))

(* What is added to a queue is in it, with what was there. *)
LEMMA QueueAppend ==
    ASSUME NEW S, NEW s \in Seq(S), NEW c, NEW d \in S
    PROVE  Places(Append(s, d), c) =
               IF c = d THEN Places(s, c) \cup {Len(s) + 1} ELSE Places(s, c)
BY DEF Places

(* What is not taken from its front stays in a queue. *)
LEMMA QueueTail ==
    ASSUME NEW S, NEW s \in Seq(S), NEW c, s # <<>>, Head(s) # c, Places(s, c) # {}
    PROVE  Places(Tail(s), c) # {}
<1>1. PICK i \in 1..Len(s) : s[i] = c
    BY DEF Places
<1>2. i # 1
    BY <1>1
<1>3. i - 1 \in 1..Len(Tail(s)) /\ Tail(s)[i - 1] = c
    BY <1>1, <1>2
<1> QED BY ZenonT(30), <1>3 DEF Places

(* Of an empty queue nothing is there. *)
LEMMA CountEmpty == \A c : Count(<<>>, c) = 0
<1>1. \A c : Marks(<<>>, c) = <<>>
    BY DEF Marks
<1> QED BY <1>1, FlattenNothing DEF Count

(* How often c is in a queue is a number, ... *)
LEMMA CountType ==
    ASSUME NEW S, NEW s \in Seq(S), NEW c
    PROVE  /\ Count(s, c) \in Nat
           /\ Marks(s, c) \in Seq(Seq({c})) /\ Len(Marks(s, c)) = Len(s)
<1>1. <<c>> \in Seq({c}) /\ <<>> \in Seq({c}) /\ Len(s) \in Nat
    OBVIOUS
<1>2. Marks(s, c) \in [1..Len(s) -> Seq({c})]
    BY ZenonT(30), <1>1 DEF Marks
<1>3. Marks(s, c) \in Seq(Seq({c})) /\ Len(Marks(s, c)) = Len(s)
    BY ONLY <1>1, <1>2, IsASeq, LenProperties
<1>4. Flatten(Marks(s, c)) \in Seq({c})
    BY <1>3, FlattenType
<1> QED BY <1>3, <1>4, LenProperties DEF Count

(* ... one more when it is added ... *)
LEMMA CountAppend ==
    ASSUME NEW S, NEW s \in Seq(S), NEW c, NEW d \in S
    PROVE  Count(Append(s, d), c) = Count(s, c) + (IF c = d THEN 1 ELSE 0)
<1> DEFINE x == IF c = d THEN <<c>> ELSE <<>>
           a == Append(Marks(s, c), x)
           n == Len(s)
<1>1. n \in Nat /\ Append(s, d) \in Seq(S) /\ Len(Append(s, d)) = n + 1
    OBVIOUS
<1>2. \A i \in 1..n : Append(s, d)[i] = s[i]
    OBVIOUS
<1>3. Append(s, d)[n + 1] = d
    OBVIOUS
<1>4. x \in Seq({c}) /\ Len(x) = IF c = d THEN 1 ELSE 0
    <2>1. <<c>> \in Seq({c}) /\ Len(<<c>>) = 1 /\ <<>> \in Seq({c}) /\ Len(<<>>) = 0
        BY EmptySeq
    <2>2. (c = d => x = <<c>>) /\ (c # d => x = <<>>)
        OBVIOUS
    <2> HIDE DEF x
    <2>3. x \in Seq({c})
        BY ZenonT(30), <2>1, <2>2
    <2>4. (c = d => Len(x) = 1) /\ (c # d => Len(x) = 0)
        BY ZenonT(30), <2>1, <2>2
    <2> QED BY <2>3, <2>4
<1>5. Marks(s, c) \in Seq(Seq({c})) /\ Len(Marks(s, c)) = n
    BY CountType
<1> HIDE DEF x, n
<1>6. /\ a \in Seq(Seq({c})) /\ Len(a) = n + 1 /\ a[n + 1] = x
      /\ \A i \in 1..n : a[i] = Marks(s, c)[i]
    BY ONLY <1>1, <1>4, <1>5, AppendProperties
<1> HIDE DEF a
<1>7. \A i \in 1..n + 1 : Marks(Append(s, d), c)[i] = a[i]
    <2>1. \A i \in 1..n : Marks(Append(s, d), c)[i] = Marks(s, c)[i]
        BY <1>1, <1>2 DEF Marks, n
    <2>2. Marks(Append(s, d), c)[n + 1] = x
        BY <1>1, <1>3 DEF Marks, x
    <2>3. \A i \in 1..n + 1 : i \in 1..n \/ i = n + 1
        BY <1>1
    <2> QED BY ZenonT(30), <1>6, <2>1, <2>2, <2>3
<1>8. Marks(Append(s, d), c) \in Seq(Seq({c})) /\ Len(Marks(Append(s, d), c)) = n + 1
    BY ZenonT(30), <1>1, CountType
<1>9. Marks(Append(s, d), c) = a
    BY ONLY <1>6, <1>7, <1>8, SeqEqual
<1>10. Flatten(a) = Flatten(Marks(s, c)) \o x
    BY <1>4, <1>5, FlattenAppend DEF a
<1>11. Flatten(Marks(s, c)) \in Seq({c})
    BY <1>5, FlattenType
<1>12. Len(Flatten(Marks(s, c)) \o x) = Len(Flatten(Marks(s, c))) + Len(x)
    BY ONLY ZenonT(30), <1>4, <1>11, ConcatProperties
<1> QED BY <1>4, <1>9, <1>10, <1>12 DEF Count

(* ... and one less when it is taken from the front. *)
LEMMA CountTail ==
    ASSUME NEW S, NEW s \in Seq(S), NEW c, s # <<>>
    PROVE  Count(Tail(s), c) = Count(s, c) - (IF Head(s) = c THEN 1 ELSE 0)
<1> DEFINE m == Marks(s, c)
           n == Len(s)
<1>1. n \in Nat \ {0} /\ Tail(s) \in Seq(S) /\ Len(Tail(s)) = n - 1 /\ Head(s) = s[1]
    OBVIOUS
<1>2. \A i \in 1..n - 1 : Tail(s)[i] = s[i + 1]
    OBVIOUS
<1>3. m \in Seq(Seq({c})) /\ Len(m) = n
    BY CountType
<1>4. Head(m) = (IF Head(s) = c THEN <<c>> ELSE <<>>)
    BY <1>1 DEF Marks
<1>5. Marks(Tail(s), c) \in Seq(Seq({c})) /\ Len(Marks(Tail(s), c)) = n - 1
    BY ZenonT(30), <1>1, CountType
<1>6. \A i \in 1..n - 1 : Marks(Tail(s), c)[i] = m[i + 1]
    BY <1>1, <1>2 DEF Marks
<1> HIDE DEF m, n
<1>7. m # <<>> /\ Tail(m) \in Seq(Seq({c})) /\ Len(Tail(m)) = n - 1
    BY ONLY <1>1, <1>3, HeadTailProperties, EmptySeq
<1>8. \A i \in 1..n - 1 : Tail(m)[i] = m[i + 1]
    BY ONLY <1>1, <1>3, <1>7, HeadTailProperties
<1>9. Marks(Tail(s), c) = Tail(m)
    BY ONLY <1>5, <1>6, <1>7, <1>8, SeqEqual
<1>10. Flatten(m) = Head(m) \o Flatten(Tail(m))
    BY <1>3, <1>7, FlattenFront
<1>11. Flatten(Tail(m)) \in Seq({c})
    BY ZenonT(30), <1>7, FlattenType
<1>12. Head(m) \in Seq({c}) /\ Len(Head(m)) = IF Head(s) = c THEN 1 ELSE 0
    <2>1. <<c>> \in Seq({c}) /\ Len(<<c>>) = 1 /\ <<>> \in Seq({c}) /\ Len(<<>>) = 0
        BY EmptySeq
    <2>2. CASE Head(s) = c
        BY ZenonT(30), <1>4, <2>1, <2>2
    <2>3. CASE Head(s) # c
        BY ZenonT(30), <1>4, <2>1, <2>3
    <2> QED BY <2>2, <2>3
<1>13. Len(Flatten(m)) = Len(Head(m)) + Len(Flatten(Tail(m)))
    BY ONLY <1>10, <1>11, <1>12, ConcatProperties
<1>14. Len(Flatten(Tail(m))) \in Nat
    BY ONLY <1>11, LenProperties
<1>15. Count(Tail(s), c) = Len(Flatten(Tail(m))) /\ Count(s, c) = Len(Flatten(m))
    BY ZenonT(30), <1>9 DEF Count, m
<1>16. \A x, y, z \in Int : x = y + z => z = x - y
    OBVIOUS
<1>17. Len(Head(m)) \in Int /\ Len(Flatten(Tail(m))) \in Int /\ Len(Flatten(m)) \in Int
    BY ONLY <1>12, <1>13, <1>14
<1>18. Len(Flatten(Tail(m))) = Len(Flatten(m)) - Len(Head(m))
    BY ONLY <1>13, <1>16, <1>17
<1> QED BY ZenonT(30), <1>12, <1>15, <1>18

(* What two queues hold is in one after the other. *)
LEMMA CountConcat ==
    ASSUME NEW S, NEW s \in Seq(S), NEW t \in Seq(S), NEW c
    PROVE  Count(s \o t, c) = Count(s, c) + Count(t, c)
<1> DEFINE b(n) == [i \in 1..n |-> t[i]]
           N == {n \in Nat : n <= Len(t) =>
                    Count(s \o b(n), c) = Count(s, c) + Count(b(n), c)}
<1>1. Len(t) \in Nat /\ \A i \in 1..Len(t) : t[i] \in S
    OBVIOUS
<1>2. ASSUME NEW n \in 0..Len(t) PROVE b(n) \in Seq(S) /\ Len(b(n)) = n
    <2>1. n \in Nat /\ b(n) \in [1..n -> S]
        BY <1>1
    <2> HIDE DEF b
    <2> QED BY ONLY <2>1, IsASeq, LenProperties
<1>3. 0 \in N
    <2>1. b(0) = <<>>
        OBVIOUS
    <2>2. s \o <<>> = s
        BY ConcatEmptySeq
    <2>3. Count(s, c) \in Nat
        BY ZenonT(30), CountType
    <2> QED BY <2>1, <2>2, <2>3, CountEmpty
<1>4. ASSUME NEW n \in N PROVE n + 1 \in N
    <2> SUFFICES ASSUME n + 1 <= Len(t)
                 PROVE  Count(s \o b(n + 1), c) = Count(s, c) + Count(b(n + 1), c)
        OBVIOUS
    <2>1. n \in 0..Len(t) /\ n + 1 \in 1..Len(t) /\ n + 1 \in 0..Len(t)
        BY <1>1
    <2>2. t[n + 1] \in S
        BY <1>1, <2>1
    <2>3. \A i \in 1..n + 1 : b(n + 1)[i] = Append(b(n), t[n + 1])[i]
        <3>1. b(n) \in Seq(S) /\ Len(b(n)) = n
            BY <1>2, <2>1
        <3>2. \A i \in 1..n : Append(b(n), t[n + 1])[i] = b(n)[i]
            <4> HIDE DEF b
            <4> QED BY ONLY <3>1, <2>2, AppendProperties
        <3>3. Append(b(n), t[n + 1])[n + 1] = t[n + 1]
            <4> HIDE DEF b
            <4> QED BY ONLY <3>1, <2>2, AppendProperties
        <3>4. ASSUME NEW i \in 1..n + 1 PROVE b(n + 1)[i] = Append(b(n), t[n + 1])[i]
            <4>1. CASE i = n + 1
                BY <2>1, <3>3, <4>1
            <4>2. CASE i \in 1..n
                BY <2>1, <3>2, <4>2
            <4> QED BY <2>1, <4>1, <4>2
        <3> QED BY <3>4
    <2>4. /\ b(n) \in Seq(S) /\ Len(b(n)) = n
          /\ b(n + 1) \in Seq(S) /\ Len(b(n + 1)) = n + 1
        BY <1>2, <2>1
    <2> HIDE DEF b
    <2>5. Append(b(n), t[n + 1]) \in Seq(S) /\ Len(Append(b(n), t[n + 1])) = n + 1
        BY ONLY <2>2, <2>4, AppendProperties
    <2>6. b(n + 1) = Append(b(n), t[n + 1])
        BY ONLY ZenonT(30), <2>3, <2>4, <2>5, SeqEqual
    <2>7. s \o b(n) \in Seq(S) /\ s \o Append(b(n), t[n + 1]) = Append(s \o b(n), t[n + 1])
        BY ONLY s \in Seq(S), <2>2, <2>4
    <2>8. /\ Count(b(n + 1), c) = Count(b(n), c) + (IF c = t[n + 1] THEN 1 ELSE 0)
          /\ Count(s \o b(n + 1), c) = Count(s \o b(n), c) + (IF c = t[n + 1] THEN 1 ELSE 0)
        <3>1. Count(Append(b(n), t[n + 1]), c) = Count(b(n), c) + (IF c = t[n + 1] THEN 1 ELSE 0)
            BY ONLY <2>2, <2>4, CountAppend
        <3>2. Count(Append(s \o b(n), t[n + 1]), c) =
                 Count(s \o b(n), c) + (IF c = t[n + 1] THEN 1 ELSE 0)
            <4> DEFINE u == s \o b(n)
            <4>1. u \in Seq(S)
                BY <2>7
            <4> HIDE DEF u
            <4>2. Count(Append(u, t[n + 1]), c) = Count(u, c) + (IF c = t[n + 1] THEN 1 ELSE 0)
                BY ONLY <2>2, <4>1, CountAppend
            <4> QED BY <4>2 DEF u
        <3> QED BY ZenonT(30), <2>6, <2>7, <3>1, <3>2
    <2>9. Count(s \o b(n), c) = Count(s, c) + Count(b(n), c)
        BY <2>1
    <2>10. Count(b(n), c) \in Nat /\ Count(s, c) \in Nat
        BY ZenonT(30), <2>4, CountType
    <2> QED BY <2>8, <2>9, <2>10
<1>5. Len(t) \in N
    <2> HIDE DEF N
    <2>1. N \in SUBSET Nat
        BY DEF N
    <2>2. \A n \in Nat : n \in N
        BY ONLY ZenonT(30), <1>3, <1>4, <2>1, SetInduction
    <2> QED BY <1>1, <2>2
<1>6. b(Len(t)) = t
    OBVIOUS
<1> HIDE DEF b
<1> QED BY <1>5, <1>6, <1>1

-----------------------------------------------------------------------------
(* What arrives: whole messages, in order, of the first of which some      *)
(* parts have been received.                                               *)
Beginning(p, n) == [i \in 1..n |-> p[i]]

Rest(p, n) == [i \in 1..Len(p) - n |-> [data |-> p[n + i], more |-> n + i < Len(p)]]

AllParts(q) == [k \in 1..Len(q) |-> Rest(q[k], 0)]

Arriving(q, ins, rec) ==
    IF q = <<>>
      THEN ins = <<>> /\ rec = <<>>
      ELSE \E n \in 0..Len(Head(q)) - 1 :
              /\ rec = NotEmpty(Beginning(Head(q), n))
              /\ ins = Rest(Head(q), n) \o Flatten(AllParts(Tail(q)))

(* The parts that are not empty, from the front and from the back. *)
Kept(p) == IF p = <<>> THEN <<>> ELSE <<p>>

KeptAll(q) == [i \in 1..Len(q) |-> Kept(q[i])]

(* What is left is a sequence over the same set. *)
LEMMA NotEmptyFacts ==
    ASSUME NEW P, NEW q \in Seq(P)
    PROVE  /\ KeptAll(q) \in Seq(Seq(P)) /\ Len(KeptAll(q)) = Len(q) /\ Len(q) \in Nat
           /\ \A i \in 1..Len(q) : KeptAll(q)[i] = Kept(q[i])
           /\ NotEmpty(q) = Flatten(KeptAll(q))
           /\ NotEmpty(q) \in Seq(P)
<1>1. \A p \in P : Kept(p) \in Seq(P)
    BY DEF Kept
<1>2. Len(q) \in Nat /\ \A i \in 1..Len(q) : q[i] \in P
    OBVIOUS
<1>3. KeptAll(q) \in [1..Len(q) -> Seq(P)]
    BY <1>1, <1>2 DEF KeptAll
<1>4. KeptAll(q) \in Seq(Seq(P)) /\ Len(KeptAll(q)) = Len(q)
    BY <1>2, <1>3
<1>5. NotEmpty(q) = Flatten(KeptAll(q))
    BY DEF NotEmpty, Kept, KeptAll
<1>6. Flatten(KeptAll(q)) \in Seq(P)
    BY ONLY <1>4, FlattenType
<1>7. \A i \in 1..Len(q) : KeptAll(q)[i] = Kept(q[i])
    BY DEF KeptAll
<1> QED BY ZenonT(30), <1>2, <1>4, <1>5, <1>6, <1>7

(* One more part at the end is left if it is not empty. *)
LEMMA NotEmptyAppend ==
    ASSUME NEW P, NEW q \in Seq(P), NEW p \in P
    PROVE  NotEmpty(Append(q, p)) = IF p = <<>> THEN NotEmpty(q) ELSE Append(NotEmpty(q), p)
<1> DEFINE t == KeptAll(q)
           r == Append(q, p)
           u == KeptAll(r)
           k == Kept(p)
           a == Append(t, k)
<1>1. /\ r \in Seq(P) /\ Len(r) = Len(q) + 1 /\ r[Len(q) + 1] = p
      /\ \A i \in 1..Len(q) : r[i] = q[i]
    BY AppendProperties
<1>2. k \in Seq(P)
    BY DEF Kept
<1> HIDE DEF r
<1>3. /\ t \in Seq(Seq(P)) /\ NotEmpty(q) = Flatten(t) /\ NotEmpty(q) \in Seq(P)
      /\ Len(t) = Len(q) /\ Len(q) \in Nat /\ \A i \in 1..Len(q) : t[i] = Kept(q[i])
    BY NotEmptyFacts
<1>4. /\ u \in Seq(Seq(P)) /\ NotEmpty(r) = Flatten(u)
      /\ Len(u) = Len(r) /\ \A i \in 1..Len(r) : u[i] = Kept(r[i])
    BY <1>1, NotEmptyFacts
<1> HIDE DEF t, u, k
<1>5. u = a
    <2>1. /\ a \in Seq(Seq(P)) /\ Len(a) = Len(q) + 1
          /\ a[Len(q) + 1] = k /\ \A i \in 1..Len(q) : a[i] = t[i]
        BY ONLY <1>2, <1>3, AppendProperties
    <2> HIDE DEF a
    <2>2. \A i \in 1..Len(q) : u[i] = a[i]
        BY <1>1, <1>3, <1>4, <2>1
    <2>3. u[Len(q) + 1] = a[Len(q) + 1]
        BY <1>1, <1>3, <1>4, <2>1 DEF k
    <2>4. ASSUME NEW i \in 1..Len(u) PROVE u[i] = a[i]
        <3>1. Len(u) = Len(q) + 1 /\ Len(q) \in Nat
            BY <1>1, <1>3, <1>4
        <3>2. i \in 1..Len(q) \/ i = Len(q) + 1
            BY ONLY i \in 1..Len(u), <3>1
        <3> QED BY ZenonT(30), <2>2, <2>3, <3>2
    <2>5. Len(u) = Len(a)
        BY <1>1, <1>4, <2>1
    <2> QED BY ONLY <1>4, <2>1, <2>4, <2>5, SeqEqual
<1>6. NotEmpty(r) = NotEmpty(q) \o k
    <2>1. Flatten(a) = Flatten(t) \o k
        BY ONLY <1>2, <1>3, FlattenAppend
    <2> HIDE DEF a
    <2> QED BY <1>3, <1>4, <1>5, <2>1
<1> DEFINE z == NotEmpty(q)
<1>7. z \in Seq(P) /\ NotEmpty(r) = z \o k
    BY <1>3, <1>6
<1> HIDE DEF z
<1>8. CASE p = <<>>
    <2>1. k = <<>>
        BY <1>8 DEF k, Kept
    <2>2. z \o <<>> = z
        BY ONLY <1>7, ConcatEmptySeq
    <2> QED BY <1>7, <1>8, <2>1, <2>2 DEF r, z
<1>9. CASE p # <<>>
    <2>1. k = <<p>>
        BY <1>9 DEF k, Kept
    <2>2. Append(z, p) = z \o <<p>>
        BY ONLY p \in P, <1>7, AppendIsConcat
    <2> QED BY <1>7, <1>9, <2>1, <2>2 DEF r, z
<1> QED BY <1>8, <1>9

(* And one at the front. *)
LEMMA NotEmptyFront ==
    ASSUME NEW P, NEW q \in Seq(P), q # <<>>
    PROVE  NotEmpty(q) = Kept(Head(q)) \o NotEmpty(Tail(q))
<1> DEFINE t == KeptAll(q)
           r == Tail(q)
           u == KeptAll(r)
           a == Tail(t)
<1>1. /\ r \in Seq(P) /\ Len(q) \in Nat \ {0} /\ Len(r) = Len(q) - 1 /\ Head(q) = q[1]
      /\ \A i \in 1..Len(r) : r[i] = q[i + 1]
    BY EmptySeq, HeadTailProperties
<1> HIDE DEF r
<1>2. /\ t \in Seq(Seq(P)) /\ NotEmpty(q) = Flatten(t)
      /\ Len(t) = Len(q) /\ \A i \in 1..Len(q) : t[i] = Kept(q[i])
    BY NotEmptyFacts
<1>3. /\ u \in Seq(Seq(P)) /\ NotEmpty(r) = Flatten(u)
      /\ Len(u) = Len(r) /\ \A i \in 1..Len(r) : u[i] = Kept(r[i])
    BY <1>1, NotEmptyFacts
<1> HIDE DEF t, u
<1>4. t # <<>>
    BY <1>1, <1>2
<1>5. /\ a \in Seq(Seq(P)) /\ Len(a) = Len(q) - 1 /\ Head(t) = t[1]
      /\ \A i \in 1..Len(q) - 1 : a[i] = t[i + 1]
    BY <1>1, <1>2, <1>4, HeadTailProperties
<1>6. Flatten(t) = Head(t) \o Flatten(a)
    BY ONLY <1>2, <1>4, FlattenFront
<1> HIDE DEF a
<1>7. u = a
    <2>1. ASSUME NEW i \in 1..Len(u) PROVE u[i] = a[i]
        <3>1. Len(u) = Len(q) - 1 /\ Len(r) = Len(q) - 1 /\ Len(q) \in Nat
            BY <1>1, <1>3
        <3>2. i \in 1..Len(r) /\ i + 1 \in 1..Len(q) /\ i \in 1..Len(q) - 1
            BY ONLY i \in 1..Len(u), <3>1
        <3>3. u[i] = Kept(r[i]) /\ r[i] = q[i + 1] /\ a[i] = t[i + 1] /\ t[i + 1] = Kept(q[i + 1])
            BY ZenonT(30), <1>1, <1>2, <1>3, <1>5, <3>2
        <3> QED BY ZenonT(30), <3>3
    <2>2. Len(u) = Len(a)
        BY ZenonT(30), <1>1, <1>3, <1>5
    <2> QED BY ONLY ZenonT(30), <1>3, <1>5, <2>1, <2>2, SeqEqual
<1>8. Head(t) = Kept(Head(q))
    <2>1. 1 \in 1..Len(q)
        BY <1>1
    <2> QED BY ZenonT(30), <1>1, <1>2, <1>5, <2>1
<1> QED BY ZenonT(30), <1>2, <1>3, <1>6, <1>7, <1>8 DEF r

(* What is left of a message. *)
ArrivalOf(P) == [data : P, more : BOOLEAN]

(* The rest of a message is a sequence of parts. *)
LEMMA RestFacts ==
    ASSUME NEW P, NEW p \in Seq(P), NEW n \in 0..Len(p)
    PROVE  /\ Rest(p, n) \in Seq(ArrivalOf(P)) /\ Len(Rest(p, n)) = Len(p) - n
           /\ \A i \in 1..Len(p) - n :
                 Rest(p, n)[i] = [data |-> p[n + i], more |-> n + i < Len(p)]
<1>1. Len(p) \in Nat /\ Len(p) - n \in Nat /\ \A i \in 1..Len(p) - n : n + i \in 1..Len(p)
    OBVIOUS
<1>2. \A i \in 1..Len(p) - n : p[n + i] \in P
    BY <1>1
<1>3. \A i \in 1..Len(p) - n : [data |-> p[n + i], more |-> n + i < Len(p)] \in ArrivalOf(P)
    <2>1. \A d \in P, m \in BOOLEAN : [data |-> d, more |-> m] \in ArrivalOf(P)
        BY DEF ArrivalOf
    <2>2. \A i \in 1..Len(p) - n : (n + i < Len(p)) \in BOOLEAN
        OBVIOUS
    <2> QED BY ZenonT(30), <1>2, <2>1, <2>2
<1>4. Rest(p, n) \in [1..Len(p) - n -> ArrivalOf(P)]
    BY ZenonT(30), <1>3 DEF Rest
<1>5. Rest(p, n) \in Seq(ArrivalOf(P)) /\ Len(Rest(p, n)) = Len(p) - n
    BY <1>1, <1>4
<1>6. \A i \in 1..Len(p) - n :
          Rest(p, n)[i] = [data |-> p[n + i], more |-> n + i < Len(p)]
    BY ZenonT(30) DEF Rest
<1> QED BY ZenonT(30), <1>5, <1>6

(* After its last part nothing is left of a message. *)
LEMMA RestWhole ==
    ASSUME NEW P, NEW p \in Seq(P)
    PROVE  Rest(p, Len(p)) = <<>> /\ Rest(p, 0) \in Seq(ArrivalOf(P))
<1>1. Len(p) \in Nat /\ 0 \in 0..Len(p) /\ Len(p) \in 0..Len(p) /\ Len(p) - Len(p) = 0
    OBVIOUS
<1>2. Rest(p, 0) \in Seq(ArrivalOf(P))
    BY <1>1, RestFacts
<1>3. Rest(p, Len(p)) \in Seq(ArrivalOf(P)) /\ Len(Rest(p, Len(p))) = 0
    BY <1>1, RestFacts
<1>4. Rest(p, Len(p)) = <<>>
    BY ONLY <1>3, EmptySeq
<1> QED BY <1>2, <1>4

(* The rest begins with the next part, and more follow it unless it is the *)
(* last.                                                                   *)
LEMMA RestNext ==
    ASSUME NEW P, NEW p \in Seq(P), NEW n \in 0..Len(p) - 1
    PROVE  /\ Rest(p, n) # <<>>
           /\ Head(Rest(p, n)) = [data |-> p[n + 1], more |-> n + 1 < Len(p)]
           /\ Tail(Rest(p, n)) = Rest(p, n + 1)
<1> DEFINE s == Rest(p, n)
           t == Rest(p, n + 1)
           m == Len(p) - n
           A == ArrivalOf(P)
<1>1. /\ Len(p) \in Nat /\ n \in 0..Len(p) /\ n + 1 \in 0..Len(p)
      /\ m \in Nat \ {0} /\ Len(p) - (n + 1) = m - 1 /\ 1 \in 1..m
    OBVIOUS
<1>2. /\ s \in Seq(A) /\ Len(s) = m
      /\ \A i \in 1..m : s[i] = [data |-> p[n + i], more |-> n + i < Len(p)]
    BY ZenonT(30), <1>1, RestFacts
<1>3. /\ t \in Seq(A) /\ Len(t) = m - 1
      /\ \A i \in 1..m - 1 : t[i] = [data |-> p[(n + 1) + i], more |-> (n + 1) + i < Len(p)]
    <2>1. /\ t \in Seq(A) /\ Len(t) = Len(p) - (n + 1)
          /\ \A i \in 1..Len(p) - (n + 1) :
                t[i] = [data |-> p[(n + 1) + i], more |-> (n + 1) + i < Len(p)]
        BY ZenonT(30), <1>1, RestFacts
    <2> HIDE DEF t, m
    <2> QED BY ZenonT(30), <1>1, <2>1
<1> HIDE DEF s, t, m, A
<1>4. s # <<>>
    BY ONLY <1>1, <1>2
<1>5. /\ Head(s) = s[1] /\ Tail(s) \in Seq(A) /\ Len(Tail(s)) = m - 1
      /\ \A i \in 1..m - 1 : Tail(s)[i] = s[i + 1]
    BY ONLY <1>1, <1>2, <1>4, HeadTailProperties
<1>6. ASSUME NEW i \in 1..Len(Tail(s)) PROVE Tail(s)[i] = t[i]
    <2>1. i \in 1..m - 1 /\ i + 1 \in 1..m /\ n + (i + 1) = (n + 1) + i
        BY <1>1, <1>5
    <2>2. s[i + 1] = [data |-> p[n + (i + 1)], more |-> n + (i + 1) < Len(p)]
        BY ZenonT(30), <1>2, <2>1
    <2> QED BY ZenonT(30), <1>3, <1>5, <2>1, <2>2
<1>7. Tail(s) = t
    BY ONLY <1>3, <1>5, <1>6, SeqEqual
<1>8. Head(s) = [data |-> p[n + 1], more |-> n + 1 < Len(p)]
    BY ZenonT(30), <1>1, <1>2, <1>5
<1> QED BY <1>4, <1>7, <1>8 DEF s, t

(* The first of a concatenation is the first of its first sequence. *)
LEMMA FrontOfConcat ==
    ASSUME NEW S, NEW s \in Seq(S), s # <<>>, NEW t \in Seq(S)
    PROVE  s \o t # <<>> /\ Head(s \o t) = Head(s) /\ Tail(s \o t) = Tail(s) \o t
<1> DEFINE u == s \o t
           r == Tail(s)
           v == r \o t
<1>1. Len(s) \in Nat \ {0} /\ Len(t) \in Nat
    BY EmptySeq
<1>2. /\ Head(s) = s[1] /\ r \in Seq(S) /\ Len(r) = Len(s) - 1
      /\ \A i \in 1..Len(s) - 1 : r[i] = s[i + 1]
    BY HeadTailProperties
<1> HIDE DEF r
<1>3. /\ u \in Seq(S) /\ Len(u) = Len(s) + Len(t)
      /\ \A i \in 1..Len(s) + Len(t) : u[i] = IF i <= Len(s) THEN s[i] ELSE t[i - Len(s)]
    BY ConcatProperties
<1>4. /\ v \in Seq(S) /\ Len(v) = Len(r) + Len(t)
      /\ \A i \in 1..Len(r) + Len(t) : v[i] = IF i <= Len(r) THEN r[i] ELSE t[i - Len(r)]
    BY ZenonT(30), <1>2, ConcatProperties
<1> HIDE DEF u, v
<1>5. u # <<>>
    BY ONLY <1>1, <1>3
<1>6. /\ Head(u) = u[1] /\ Tail(u) \in Seq(S) /\ Len(Tail(u)) = Len(u) - 1
      /\ \A i \in 1..Len(u) - 1 : Tail(u)[i] = u[i + 1]
    BY ONLY <1>3, <1>5, HeadTailProperties
<1>7. Head(u) = Head(s)
    BY <1>1, <1>2, <1>3, <1>6
<1>8. ASSUME NEW i \in 1..Len(Tail(u)) PROVE Tail(u)[i] = v[i]
    <2>1. i \in 1..Len(u) - 1 /\ i + 1 \in 1..Len(s) + Len(t) /\ i \in 1..Len(r) + Len(t)
        BY <1>1, <1>2, <1>3, <1>6
    <2>2. Tail(u)[i] = u[i + 1]
        BY <1>6, <2>1
    <2>3. CASE i <= Len(r)
        <3>1. i + 1 <= Len(s) /\ i \in 1..Len(s) - 1
            BY <1>1, <1>2, <2>1, <2>3
        <3> QED BY ZenonT(30), <1>2, <1>3, <1>4, <2>1, <2>2, <2>3, <3>1
    <2>4. CASE ~(i <= Len(r))
        <3>1. ~(i + 1 <= Len(s)) /\ (i + 1) - Len(s) = i - Len(r)
            BY <1>1, <1>2, <2>1, <2>4
        <3> QED BY ZenonT(30), <1>3, <1>4, <2>1, <2>2, <2>4, <3>1
    <2> QED BY <2>3, <2>4
<1>9. Tail(u) = v
    <2>1. Len(Tail(u)) = Len(v)
        BY <1>1, <1>2, <1>3, <1>4, <1>6
    <2> QED BY ONLY ZenonT(30), <1>4, <1>6, <1>8, <2>1, SeqEqual
<1> QED BY <1>5, <1>7, <1>9 DEF u, v, r

(* The parts of a queue of messages. *)
LEMMA AllPartsFacts ==
    ASSUME NEW P, NEW q \in Seq(Seq(P))
    PROVE  /\ AllParts(q) \in Seq(Seq(ArrivalOf(P))) /\ Len(AllParts(q)) = Len(q)
           /\ Len(q) \in Nat /\ \A k \in 1..Len(q) : AllParts(q)[k] = Rest(q[k], 0)
<1>1. Len(q) \in Nat /\ \A k \in 1..Len(q) : q[k] \in Seq(P)
    OBVIOUS
<1>2. \A k \in 1..Len(q) : Rest(q[k], 0) \in Seq(ArrivalOf(P))
    BY <1>1, RestWhole
<1>3. AllParts(q) \in [1..Len(q) -> Seq(ArrivalOf(P))]
    BY ZenonT(30), <1>2 DEF AllParts
<1>4. AllParts(q) \in Seq(Seq(ArrivalOf(P))) /\ Len(AllParts(q)) = Len(q)
    BY <1>1, <1>3, SMTT(60)
<1>5. \A k \in 1..Len(q) : AllParts(q)[k] = Rest(q[k], 0)
    BY ZenonT(30) DEF AllParts
<1> QED BY ZenonT(30), <1>1, <1>4, <1>5

(* The parts when one more message is queued. *)
LEMMA AllPartsAppend ==
    ASSUME NEW P, NEW q \in Seq(Seq(P)), NEW p \in Seq(P)
    PROVE  AllParts(Append(q, p)) = Append(AllParts(q), Rest(p, 0))
<1> DEFINE A == ArrivalOf(P)
           r == Append(q, p)
           t == AllParts(q)
           u == AllParts(r)
           x == Rest(p, 0)
           a == Append(t, x)
<1>1. /\ r \in Seq(Seq(P)) /\ Len(r) = Len(q) + 1 /\ r[Len(q) + 1] = p
      /\ \A k \in 1..Len(q) : r[k] = q[k]
    BY AppendProperties
<1> HIDE DEF r
<1>2. /\ t \in Seq(Seq(A)) /\ Len(t) = Len(q) /\ Len(q) \in Nat
      /\ \A k \in 1..Len(q) : t[k] = Rest(q[k], 0)
    BY ZenonT(30), AllPartsFacts
<1>3. /\ u \in Seq(Seq(A)) /\ Len(u) = Len(r) /\ \A k \in 1..Len(r) : u[k] = Rest(r[k], 0)
    BY ZenonT(30), <1>1, AllPartsFacts
<1>4. x \in Seq(A)
    BY RestWhole
<1> HIDE DEF t, u, x, A
<1>5. /\ a \in Seq(Seq(A)) /\ Len(a) = Len(q) + 1 /\ a[Len(q) + 1] = x
      /\ \A k \in 1..Len(q) : a[k] = t[k]
    BY ONLY <1>2, <1>4, AppendProperties
<1> HIDE DEF a
<1>6. ASSUME NEW k \in 1..Len(u) PROVE u[k] = a[k]
    <2>1. k \in 1..Len(r) /\ (k \in 1..Len(q) \/ k = Len(q) + 1)
        BY <1>1, <1>2, <1>3
    <2>2. u[k] = Rest(r[k], 0)
        BY ZenonT(30), <1>3, <2>1
    <2> QED BY ZenonT(30), <1>1, <1>2, <1>5, <2>1, <2>2 DEF x
<1>7. Len(u) = Len(a)
    BY <1>1, <1>3, <1>5
<1>8. u = a
    BY ONLY <1>3, <1>5, <1>6, <1>7, SeqEqual
<1> QED BY <1>8 DEF u, a, r, t, x

(* The parts when the first message is taken. *)
LEMMA AllPartsFront ==
    ASSUME NEW P, NEW q \in Seq(Seq(P)), q # <<>>
    PROVE  /\ AllParts(q) # <<>> /\ Head(AllParts(q)) = Rest(Head(q), 0)
           /\ Tail(AllParts(q)) = AllParts(Tail(q))
<1> DEFINE A == ArrivalOf(P)
           r == Tail(q)
           t == AllParts(q)
           u == AllParts(r)
           a == Tail(t)
<1>1. /\ r \in Seq(Seq(P)) /\ Len(q) \in Nat \ {0} /\ Len(r) = Len(q) - 1 /\ Head(q) = q[1]
      /\ \A k \in 1..Len(q) - 1 : r[k] = q[k + 1]
    BY EmptySeq, HeadTailProperties
<1> HIDE DEF r
<1>2. /\ t \in Seq(Seq(A)) /\ Len(t) = Len(q)
      /\ \A k \in 1..Len(q) : t[k] = Rest(q[k], 0)
    BY ZenonT(30), AllPartsFacts
<1>3. /\ u \in Seq(Seq(A)) /\ Len(u) = Len(r) /\ \A k \in 1..Len(r) : u[k] = Rest(r[k], 0)
    BY ZenonT(30), <1>1, AllPartsFacts
<1> HIDE DEF t, u, A
<1>4. t # <<>>
    BY ONLY <1>1, <1>2
<1>5. /\ Head(t) = t[1] /\ a \in Seq(Seq(A)) /\ Len(a) = Len(q) - 1
      /\ \A k \in 1..Len(q) - 1 : a[k] = t[k + 1]
    BY ONLY <1>2, <1>4, HeadTailProperties
<1> HIDE DEF a
<1>6. ASSUME NEW k \in 1..Len(u) PROVE u[k] = a[k]
    <2>1. k \in 1..Len(r) /\ k \in 1..Len(q) - 1 /\ k + 1 \in 1..Len(q)
        BY <1>1, <1>3
    <2> QED BY ZenonT(30), <1>1, <1>2, <1>3, <1>5, <2>1
<1>7. Len(u) = Len(a)
    BY <1>1, <1>3, <1>5
<1>8. u = a
    BY ONLY ZenonT(30), <1>3, <1>5, <1>6, <1>7, SeqEqual
<1>9. Head(t) = Rest(Head(q), 0)
    <2>1. 1 \in 1..Len(q)
        BY <1>1
    <2> QED BY ZenonT(30), <1>1, <1>2, <1>5, <2>1
<1> QED BY <1>4, <1>8, <1>9 DEF u, a, t, r

(* No messages have no parts. *)
LEMMA AllPartsNothing == AllParts(<<>>) = <<>>
<1>1. <<>> \in Seq(Seq({})) /\ Len(<<>>) = 0
    OBVIOUS
<1>2. AllParts(<<>>) \in Seq(Seq(ArrivalOf({}))) /\ Len(AllParts(<<>>)) = 0
    BY ZenonT(30), <1>1, AllPartsFacts
<1> QED BY ONLY <1>2, EmptySeq

(* The beginning of no parts is empty. *)
LEMMA BeginsWithNothing ==
    ASSUME NEW p
    PROVE  NotEmpty(Beginning(p, 0)) = <<>>
<1>1. Beginning(p, 0) = <<>>
    BY DEF Beginning
<1>2. <<>> \in Seq({}) /\ Len(<<>>) = 0
    OBVIOUS
<1>3. /\ KeptAll(<<>>) \in Seq(Seq({})) /\ Len(KeptAll(<<>>)) = 0
      /\ NotEmpty(<<>>) = Flatten(KeptAll(<<>>))
    BY ZenonT(30), <1>2, NotEmptyFacts
<1>4. KeptAll(<<>>) = <<>>
    BY ONLY <1>3, EmptySeq
<1> QED BY <1>1, <1>3, <1>4, FlattenNothing

(* The parts of another message arrive. *)
LEMMA ArrivingAppend ==
    ASSUME NEW P, NEW q \in Seq(Seq(P) \ {<<>>}), NEW p \in Seq(P) \ {<<>>}, NEW ins, NEW rec,
           Arriving(q, ins, rec)
    PROVE  Arriving(Append(q, p), ins \o Rest(p, 0), rec)
<1> DEFINE A == ArrivalOf(P)
           x == Rest(p, 0)
<1>1. Append(q, p) # <<>> /\ q \in Seq(Seq(P)) /\ p \in Seq(P) /\ Len(p) \in Nat \ {0}
    <2>1. q \in Seq(Seq(P))
        BY ONLY q \in Seq(Seq(P) \ {<<>>}), SeqMonotonic
    <2> QED BY <2>1, EmptySeq, AppendProperties
<1>2. x \in Seq(A) /\ x = Rest(p, 0)
    BY <1>1, RestWhole
<1>3. CASE q = <<>>
    <2>1. Head(Append(q, p)) = p /\ Tail(Append(q, p)) = <<>>
        BY <1>3
    <2>2. ins = <<>> /\ rec = <<>>
        BY <1>3 DEF Arriving
    <2>3. NotEmpty(Beginning(p, 0)) = <<>>
        BY BeginsWithNothing
    <2>4. ins \o x = x \o Flatten(AllParts(<<>>))
        <3>1. <<>> \o x = x /\ x \o <<>> = x
            BY ONLY <1>2, ConcatEmptySeq
        <3> QED BY ZenonT(30), <2>2, <3>1, AllPartsNothing, FlattenNothing
    <2>5. 0 \in 0..Len(p) - 1
        BY <1>1
    <2> QED BY ZenonT(30), <1>1, <1>2, <2>1, <2>2, <2>3, <2>4, <2>5 DEF Arriving
<1>4. CASE q # <<>>
    <2> DEFINE h == Head(q)
               r == Tail(q)
               f == Flatten(AllParts(r))
    <2>1. PICK n \in 0..Len(h) - 1 : rec = NotEmpty(Beginning(h, n)) /\ ins = Rest(h, n) \o f
        BY ZenonT(30), <1>4 DEF Arriving
    <2>2. h \in Seq(P) /\ r \in Seq(Seq(P))
        BY <1>1, <1>4, HeadTailProperties
    <2>3. Head(Append(q, p)) = h /\ Tail(Append(q, p)) = Append(r, p)
        BY ZenonT(30), <1>1, <1>4, HeadTailAppend
    <2> DEFINE y == AllParts(r)
               e == Rest(h, n)
    <2>4. y \in Seq(Seq(A))
        BY ZenonT(30), <2>2, AllPartsFacts
    <2>5. e \in Seq(A)
        <3>1. n \in 0..Len(h)
            BY <2>2
        <3> QED BY <2>2, <3>1, RestFacts
    <2>6. AllParts(Append(r, p)) = Append(y, x)
        BY ZenonT(30), <1>1, <2>2, AllPartsAppend
    <2> HIDE DEF y, e, A, x, h, r
    <2>7. Flatten(Append(y, x)) = Flatten(y) \o x /\ Flatten(y) \in Seq(A)
        BY ONLY ZenonT(30), <1>2, <2>4, FlattenAppend, FlattenType
    <2>8. (e \o Flatten(y)) \o x = e \o (Flatten(y) \o x)
        <3> DEFINE z == Flatten(y)
        <3>1. z \in Seq(A)
            BY <2>7
        <3> HIDE DEF z
        <3>2. (e \o z) \o x = e \o (z \o x)
            BY ONLY <1>2, <2>5, <3>1, ThreeJoined, SMTT(60)
        <3> QED BY <3>2 DEF z
    <2>9. ins \o x = e \o Flatten(AllParts(Append(r, p)))
        BY <2>1, <2>6, <2>7, <2>8 DEF e, y
    <2> QED BY ZenonT(30), <1>1, <2>1, <2>3, <2>9 DEF Arriving, e, x
<1> QED BY <1>3, <1>4

(* One more part of the first message is received. *)
Taken(rec, d) == IF d = <<>> THEN rec ELSE Append(rec, d)

(* What has been received when the next part is. *)
LEMMA BeginningNext ==
    ASSUME NEW P, NEW p \in Seq(P), NEW n \in 0..Len(p) - 1
    PROVE  /\ Beginning(p, n) \in Seq(P) /\ p[n + 1] \in P
           /\ NotEmpty(Beginning(p, n + 1)) = Taken(NotEmpty(Beginning(p, n)), p[n + 1])
           /\ Beginning(p, Len(p)) = p
<1> DEFINE b == Beginning(p, n)
           c == Beginning(p, n + 1)
           a == Append(b, p[n + 1])
<1>1. /\ Len(p) \in Nat /\ n \in Nat /\ n + 1 \in 1..Len(p)
      /\ \A i \in 1..n + 1 : p[i] \in P /\ (i \in 1..n \/ i = n + 1)
    OBVIOUS
<1>2. b \in Seq(P) /\ Len(b) = n /\ \A i \in 1..n : b[i] = p[i]
    BY <1>1 DEF Beginning
<1>3. c \in Seq(P) /\ Len(c) = n + 1 /\ \A i \in 1..n + 1 : c[i] = p[i]
    BY <1>1 DEF Beginning
<1>4. p[n + 1] \in P /\ Beginning(p, Len(p)) = p
    BY <1>1 DEF Beginning
<1> HIDE DEF b, c
<1>5. a \in Seq(P) /\ Len(a) = n + 1 /\ a[n + 1] = p[n + 1] /\ \A i \in 1..n : a[i] = b[i]
    BY ONLY <1>2, <1>4, AppendProperties
<1> HIDE DEF a
<1>6. \A i \in 1..Len(c) : c[i] = a[i]
    BY ZenonT(30), <1>1, <1>2, <1>3, <1>5
<1>7. c = a
    BY ONLY <1>3, <1>5, <1>6, SeqEqual
<1>8. NotEmpty(a) = Taken(NotEmpty(b), p[n + 1])
    BY ONLY ZenonT(30), <1>2, <1>4, NotEmptyAppend DEF a, Taken
<1> QED BY <1>2, <1>4, <1>7, <1>8 DEF b, c

PartIs(q, ins, rec, n) ==
    /\ Head(ins).data = Head(q)[n + 1]
    /\ Head(ins).more <=> n + 1 < Len(Head(q))
    /\ Taken(rec, Head(ins).data) = NotEmpty(Beginning(Head(q), n + 1))
    /\ Tail(ins) = Rest(Head(q), n + 1) \o Flatten(AllParts(Tail(q)))

(* The first part that arrives is the next one of the first message. *)
LEMMA ArrivingNext ==
    ASSUME NEW P, NEW q \in Seq(Seq(P) \ {<<>>}), NEW ins, NEW rec, Arriving(q, ins, rec),
           ins # <<>>
    PROVE  /\ q # <<>> /\ Head(q) \in Seq(P) /\ Tail(q) \in Seq(Seq(P) \ {<<>>})
           /\ \E n \in 0..Len(Head(q)) - 1 : PartIs(q, ins, rec, n)
<1>1. q # <<>>
    BY DEF Arriving
<1> DEFINE p == Head(q)
           r == Tail(q)
           f == Flatten(AllParts(r))
           A == ArrivalOf(P)
<1>2. PICK n \in 0..Len(p) - 1 : rec = NotEmpty(Beginning(p, n)) /\ ins = Rest(p, n) \o f
    BY <1>1 DEF Arriving
<1>3. p \in Seq(P) /\ r \in Seq(Seq(P) \ {<<>>}) /\ r \in Seq(Seq(P))
    <2>1. p \in Seq(P) \ {<<>>} /\ r \in Seq(Seq(P) \ {<<>>})
        BY ONLY q \in Seq(Seq(P) \ {<<>>}), <1>1, HeadTailProperties
    <2> HIDE DEF r
    <2>2. r \in Seq(Seq(P))
        BY ONLY <2>1, SeqMonotonic
    <2> QED BY <2>1, <2>2
<1> HIDE DEF p, r
<1>4. f \in Seq(A)
    BY <1>3, AllPartsFacts, FlattenType
<1> DEFINE e == Rest(p, n)
           g == Rest(p, n + 1)
<1>5. e \in Seq(A)
    <2>1. n \in 0..Len(p)
        BY <1>3
    <2> QED BY <1>3, <2>1, RestFacts
<1>6. e # <<>> /\ Head(e) = [data |-> p[n + 1], more |-> n + 1 < Len(p)] /\ Tail(e) = g
    BY <1>3, RestNext
<1> HIDE DEF f, e, g, A
<1>7. Head(e \o f) = Head(e) /\ Tail(e \o f) = Tail(e) \o f
    BY ONLY <1>4, <1>5, <1>6, FrontOfConcat
<1>8. ins = e \o f
    BY <1>2 DEF e
<1>9. Head(ins).data = p[n + 1] /\ (Head(ins).more <=> n + 1 < Len(p))
    <2>1. Head(ins) = [data |-> p[n + 1], more |-> n + 1 < Len(p)]
        BY ONLY <1>6, <1>7, <1>8
    <2>2. \A d : \A m \in BOOLEAN :
              [data |-> d, more |-> m].data = d /\ ([data |-> d, more |-> m].more <=> m)
        BY ZenonT(30)
    <2>3. (n + 1 < Len(p)) \in BOOLEAN
        OBVIOUS
    <2> QED BY ZenonT(30), <2>1, <2>2, <2>3
<1>10. Tail(ins) = g \o f
    BY ONLY ZenonT(30), <1>6, <1>7, <1>8
<1>11. Taken(rec, Head(ins).data) = NotEmpty(Beginning(p, n + 1))
    BY <1>2, <1>3, <1>9, BeginningNext
<1>12. PartIs(q, ins, rec, n)
    BY ZenonT(30), <1>9, <1>10, <1>11 DEF PartIs, p, r, f, g
<1> QED BY ZenonT(30), <1>1, <1>3, <1>12 DEF p, r

(* A part that others follow stays with the beginning of its message. *)
LEMMA ArrivingMore ==
    ASSUME NEW P, NEW q \in Seq(Seq(P) \ {<<>>}), NEW ins, NEW rec, Arriving(q, ins, rec),
           ins # <<>>
    PROVE  Head(ins).more => Arriving(q, Tail(ins), Taken(rec, Head(ins).data))
<1>1. q # <<>> /\ Head(q) \in Seq(P)
    BY ZenonT(30), ArrivingNext
<1>0. PICK n \in 0..Len(Head(q)) - 1 : PartIs(q, ins, rec, n)
    BY ZenonT(30), ArrivingNext
<1> HAVE Head(ins).more
<1>2. /\ n + 1 < Len(Head(q))
      /\ Taken(rec, Head(ins).data) = NotEmpty(Beginning(Head(q), n + 1))
      /\ Tail(ins) = Rest(Head(q), n + 1) \o Flatten(AllParts(Tail(q)))
    BY ZenonT(30), <1>0 DEF PartIs
<1>3. n + 1 \in 0..Len(Head(q)) - 1
    <2>1. Len(Head(q)) \in Nat
        BY <1>1
    <2> QED BY <1>2, <2>1
<1> QED BY ZenonT(30), <1>1, <1>2, <1>3 DEF Arriving

(* The last part is received, and the next message, if any, is first. *)
LEMMA ArrivingLast ==
    ASSUME NEW P, NEW q \in Seq(Seq(P) \ {<<>>}), NEW ins, NEW rec, Arriving(q, ins, rec),
           ins # <<>>, ~Head(ins).more
    PROVE  /\ Arriving(Tail(q), Tail(ins), <<>>)
           /\ Taken(rec, Head(ins).data) = NotEmpty(Head(q))
<1> DEFINE p == Head(q)
           r == Tail(q)
           y == AllParts(r)
           A == ArrivalOf(P)
<1>1. q # <<>> /\ p \in Seq(P) /\ r \in Seq(Seq(P) \ {<<>>})
    BY ArrivingNext
<1>0. PICK n \in 0..Len(p) - 1 : PartIs(q, ins, rec, n)
    BY ZenonT(30), ArrivingNext
<1>2. /\ ~(n + 1 < Len(p))
      /\ Taken(rec, Head(ins).data) = NotEmpty(Beginning(p, n + 1))
      /\ Tail(ins) = Rest(p, n + 1) \o Flatten(y)
    BY ZenonT(30), <1>0 DEF PartIs
<1> HIDE DEF p, r
<1>3. n + 1 = Len(p)
    <2>1. Len(p) \in Nat
        BY <1>1
    <2> QED BY <1>2, <2>1
<1>4. Rest(p, Len(p)) = <<>> /\ Beginning(p, Len(p)) = p
    BY ZenonT(30), <1>1, RestWhole, BeginningNext
<1>5. r \in Seq(Seq(P))
    BY ONLY <1>1, SeqMonotonic
<1>6. y \in Seq(Seq(A))
    BY <1>5, AllPartsFacts
<1>7. Flatten(y) \in Seq(A)
    <2> HIDE DEF y, A
    <2> QED BY ONLY <1>6, FlattenType
<1>8. Tail(ins) = Flatten(y)
    <2> DEFINE z == Flatten(y)
    <2>1. z \in Seq(A) /\ Tail(ins) = <<>> \o z
        BY ZenonT(30), <1>2, <1>3, <1>4, <1>7
    <2> HIDE DEF z, A
    <2>2. <<>> \o z = z
        BY ONLY <2>1, ConcatEmptySeq
    <2> QED BY <2>1, <2>2 DEF z
<1>9. Arriving(r, Tail(ins), <<>>)
    <2>1. CASE r = <<>>
        <3>1. Tail(ins) = <<>>
            BY <1>8, <2>1, AllPartsNothing, FlattenNothing
        <3> QED BY <2>1, <3>1 DEF Arriving
    <2>2. CASE r # <<>>
        <3>1. Head(r) \in Seq(P) /\ Head(r) # <<>>
            BY ONLY <1>1, <2>2, HeadTailProperties
        <3>2. y # <<>> /\ Head(y) = Rest(Head(r), 0) /\ Tail(y) = AllParts(Tail(r))
            BY <1>5, <2>2, AllPartsFront
        <3> HIDE DEF y, A
        <3>4. Flatten(y) = Head(y) \o Flatten(Tail(y))
            BY ONLY <1>6, <3>2, FlattenFront
        <3>5. Tail(ins) = Rest(Head(r), 0) \o Flatten(AllParts(Tail(r)))
            BY ZenonT(30), <1>8, <3>2, <3>4
        <3>6. 0 \in 0..Len(Head(r)) - 1
            BY <3>1, EmptySeq
        <3>7. NotEmpty(Beginning(Head(r), 0)) = <<>>
            BY BeginsWithNothing
        <3> QED BY ZenonT(30), <2>2, <3>5, <3>6, <3>7 DEF Arriving
    <2> QED BY <2>1, <2>2
<1> QED BY <1>2, <1>3, <1>4, <1>9 DEF p, r

(* A first part that is not empty stays the first. *)
LEMMA NotEmptyFirst ==
    ASSUME NEW P, NEW q \in Seq(P), q # <<>>, q[1] # <<>>
    PROVE  LET t == NotEmpty(q)
               u == NotEmpty(Tail(q))
           IN  /\ Tail(q) \in Seq(P) /\ Len(Tail(q)) = Len(q) - 1
               /\ \A i \in 1..Len(q) - 1 : Tail(q)[i] = q[i + 1]
               /\ t \in Seq(P) /\ u \in Seq(P) /\ Len(t) = Len(u) + 1 /\ t[1] = q[1]
               /\ \A i \in 1..Len(u) : t[i + 1] = u[i]
<1> DEFINE t == NotEmpty(q)
           u == NotEmpty(Tail(q))
           h == <<q[1]>>
<1>1. /\ Tail(q) \in Seq(P) /\ Len(Tail(q)) = Len(q) - 1 /\ Head(q) = q[1] /\ q[1] \in P
      /\ \A i \in 1..Len(q) - 1 : Tail(q)[i] = q[i + 1]
    BY EmptySeq, HeadTailProperties
<1>2. t \in Seq(P) /\ u \in Seq(P) /\ Len(u) \in Nat
    BY ZenonT(30), <1>1, NotEmptyFacts
<1>3. t = h \o u
    BY <1>1, NotEmptyFront DEF Kept
<1>4. h \in Seq(P) /\ Len(h) = 1 /\ h[1] = q[1]
    BY <1>1
<1> HIDE DEF t, u, h
<1>5. /\ Len(h \o u) = Len(h) + Len(u)
      /\ \A i \in 1..Len(h) + Len(u) : (h \o u)[i] = IF i <= Len(h) THEN h[i] ELSE u[i - Len(h)]
    BY ONLY ZenonT(30), <1>2, <1>4, ConcatProperties
<1>6. Len(t) = Len(u) + 1 /\ \A i \in 1..Len(u) + 1 : t[i] = IF i <= 1 THEN h[i] ELSE u[i - 1]
    BY <1>2, <1>3, <1>4, <1>5
<1>7. t[1] = q[1]
    BY <1>2, <1>4, <1>6
<1>8. ASSUME NEW i \in 1..Len(u) PROVE t[i + 1] = u[i]
    <2>1. i + 1 \in 1..Len(u) + 1 /\ ~(i + 1 <= 1) /\ (i + 1) - 1 = i
        BY <1>2
    <2> QED BY ZenonT(30), <1>6, <2>1
<1> QED BY ZenonT(30), <1>1, <1>2, <1>6, <1>7, <1>8 DEF t, u
=============================================================================
