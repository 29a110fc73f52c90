---------------------------- MODULE DevicesProofs ----------------------------
(***************************************************************************)
(* Proofs about Devices, for any pool, messages, marks and peers.          *)
(***************************************************************************)
EXTENDS Devices, SequenceLemmas, FiniteSetTheorems, TLAPS

(* The UDP socket: one receive, recovery or completion is under way, and   *)
(* target_ is the sender of the datagram that onReceive() has to handle.   *)
UdpInv ==
    /\ receives \in Nat
    /\ recoveries \in Nat
    /\ arrived \in Completed
    /\ target \in Peers \cup {NoPeer}
    /\ firstMessage \in BOOLEAN
    /\ lastSent \in Sendings
    /\ receives + recoveries + (IF arrived = Nothing THEN 0 ELSE 1) = 1
    /\ arrived.kind = "datagram" => arrived.from = target
    /\ AnswersTheSender

(* What send() and an answer leave. *)
LEMMA SendKeeps ==
    ASSUME UdpInv, NEW first \in BOOLEAN, NEW to \in Peers \cup {NoPeer},
           NEW answers \in {to, NoPeer}, udpSend(first, to, answers)
    PROVE  lastSent' \in Sendings /\ AnswersTheSender'
BY DEF UdpInv, udpSend, Sendings, AnswersTheSender

(* Every step of the socket and of the network keeps it. *)
LEMMA UdpSteps ==
    ASSUME UdpInv
    PROVE  /\ ReceiveFails => UdpInv'
           /\ \A p \in Peers, bytes \in Lengths : DatagramArrives(p, bytes) => UdpInv'
           /\ udpOnReceive => UdpInv'
           /\ udpOnReceiveError => UdpInv'
           /\ udpRecovers => UdpInv'
           /\ udpSends => UdpInv'
           /\ UNCHANGED udpVars => UdpInv'
<1> DEFINE pending == IF arrived = Nothing THEN 0 ELSE 1
<1>0. /\ receives \in Nat /\ recoveries \in Nat /\ receives + recoveries + pending = 1
      /\ arrived \in Completed /\ target \in Peers \cup {NoPeer} /\ firstMessage \in BOOLEAN
      /\ lastSent \in Sendings /\ AnswersTheSender
      /\ arrived.kind = "datagram" => arrived.from = target
    BY DEF UdpInv
<1>1. ASSUME ReceiveFails PROVE UdpInv'
    <2>1. arrived' \in Completed /\ arrived' # Nothing /\ arrived'.kind # "datagram"
        BY <1>1 DEF ReceiveFails, Completed, Nothing
    <2>2. receives = 1 /\ receives' = 0 /\ recoveries = 0 /\ recoveries' = 0
        BY <1>0, <1>1 DEF ReceiveFails
    <2> QED BY <1>0, <1>1, <2>1, <2>2 DEF ReceiveFails, UdpInv, AnswersTheSender
<1>2. ASSUME NEW p \in Peers, NEW bytes \in Lengths, DatagramArrives(p, bytes) PROVE UdpInv'
    <2>1. arrived' \in Completed /\ arrived' # Nothing /\ arrived'.from = p
        BY <1>2 DEF DatagramArrives, Completed, Nothing
    <2>2. receives = 1 /\ receives' = 0 /\ recoveries = 0 /\ recoveries' = 0
        BY <1>0, <1>2 DEF DatagramArrives
    <2> QED BY <1>0, <1>2, <2>1, <2>2 DEF DatagramArrives, UdpInv, AnswersTheSender
<1>3. ASSUME udpOnReceive PROVE UdpInv'
    <2>1. arrived # Nothing /\ arrived' = Nothing /\ arrived.from = target
        BY <1>0, <1>3 DEF udpOnReceive, Nothing
    <2>2. receives = 0 /\ receives' = 1 /\ recoveries = 0 /\ recoveries' = 0
        BY <1>0, <1>3, <2>1 DEF udpOnReceive
    <2>3. lastSent' \in Sendings /\ AnswersTheSender'
        <3>1. CASE udpSend(TRUE, target, arrived.from)
            BY ZenonT(30), <1>0, <2>1, <3>1, SendKeeps
        <3>2. CASE UNCHANGED lastSent
            BY <1>0, <3>2 DEF AnswersTheSender
        <3> QED BY ZenonT(30), <1>3, <3>1, <3>2 DEF udpOnReceive, parser
    <2>4. arrived' \in Completed /\ arrived'.kind # "datagram"
        BY <2>1 DEF Completed, Nothing
    <2> QED BY <1>0, <1>3, <2>1, <2>2, <2>3, <2>4 DEF udpOnReceive, UdpInv
<1>4. ASSUME udpOnReceiveError PROVE UdpInv'
    <2>1. arrived # Nothing /\ arrived' = Nothing
        BY <1>4 DEF udpOnReceiveError, Nothing
    <2>2. receives = 0 /\ receives' = 0 /\ recoveries = 0 /\ recoveries' = 1
        BY <1>0, <1>4, <2>1 DEF udpOnReceiveError
    <2>3. arrived' \in Completed /\ arrived'.kind # "datagram"
        BY <2>1 DEF Completed, Nothing
    <2> QED BY <1>0, <1>4, <2>1, <2>2, <2>3 DEF udpOnReceiveError, UdpInv, AnswersTheSender
<1>5. ASSUME udpRecovers PROVE UdpInv'
    <2>1. arrived' = arrived /\ receives' = receives + 1 /\ recoveries' = recoveries - 1
             /\ recoveries > 0
        BY <1>5 DEF udpRecovers
    <2>2. receives' \in Nat /\ recoveries' \in Nat
             /\ receives' + recoveries' = receives + recoveries
        BY <1>0, <2>1
    <2> QED BY <1>0, <1>5, <2>1, <2>2 DEF udpRecovers, UdpInv, AnswersTheSender
<1>6. ASSUME udpSends PROVE UdpInv'
    <2>1. lastSent' \in Sendings /\ AnswersTheSender'
        BY <1>0, <1>6, SendKeeps DEF udpSends
    <2> QED BY <1>0, <1>6, <2>1 DEF udpSends, UdpInv
<1>7. ASSUME UNCHANGED udpVars PROVE UdpInv'
    BY <1>0, <1>7 DEF udpVars, UdpInv, AnswersTheSender
<1> QED BY <1>1, <1>2, <1>3, <1>4, <1>5, <1>6, <1>7

-----------------------------------------------------------------------------
SendBuffer == [data : Seq(Bytes), pos : Nat, buffer : Buffers]

(* How often c is in a queue is a number, ... *)
LEMMA PlacesType ==
    ASSUME NEW S, NEW s \in Seq(S), NEW c
    PROVE  IsFiniteSet(Places(s, c)) /\ Cardinality(Places(s, c)) \in Nat
<1>1. Places(s, c) \in SUBSET (1..Len(s)) /\ IsFiniteSet(1..Len(s))
    BY FS_Interval DEF Places
<1> QED BY <1>1, FS_Subset, FS_CardinalityType

(* ... one more when it is added ... *)
LEMMA PlacesAppend ==
    ASSUME NEW S, NEW s \in Seq(S), NEW c, NEW d \in S
    PROVE  Cardinality(Places(Append(s, d), c)) =
               Cardinality(Places(s, c)) + (IF c = d THEN 1 ELSE 0)
<1>1. Len(s) + 1 \notin Places(s, c)
    BY DEF Places
<1> QED BY <1>1, PlacesType, QueueAppend, FS_AddElement

(* ... and one less when it is taken from the front. *)
LEMMA PlacesTail ==
    ASSUME NEW S, NEW s \in Seq(S), NEW c, s # <<>>
    PROVE  Cardinality(Places(Tail(s), c)) =
               Cardinality(Places(s, c)) - (IF Head(s) = c THEN 1 ELSE 0)
<1> DEFINE rest == Places(s, c) \ {1}
           f == [i \in rest |-> i - 1]
<1>1. Tail(s) \in Seq(S) /\ Len(Tail(s)) = Len(s) - 1 /\ Len(s) \in Nat \ {0}
    OBVIOUS
<1>2. \A i \in 1..Len(Tail(s)) : Tail(s)[i] = s[i + 1]
    OBVIOUS
<1>3. ASSUME NEW i \in rest PROVE i \in 2..Len(s) /\ i - 1 \in Places(Tail(s), c)
    <2>1. i \in 2..Len(s) /\ s[i] = c
        BY <1>1 DEF Places
    <2>2. i - 1 \in 1..Len(Tail(s)) /\ (i - 1) + 1 = i
        BY <1>1, <2>1
    <2> QED BY <1>2, <2>1, <2>2 DEF Places
<1>4. ASSUME NEW j \in Places(Tail(s), c) PROVE j + 1 \in rest /\ f[j + 1] = j
    <2>1. j \in 1..Len(Tail(s)) /\ s[j + 1] = c
        BY <1>2 DEF Places
    <2>2. j + 1 \in rest
        BY <1>1, <2>1 DEF Places
    <2> QED BY <2>1, <2>2
<1>5. f \in Bijection(rest, Places(Tail(s), c))
    <2>1. f \in [rest -> Places(Tail(s), c)]
        BY <1>3
    <2>2. \A i, j \in rest : f[i] = f[j] => i = j
        BY <1>3
    <2>3. \A j \in Places(Tail(s), c) : \E i \in rest : f[i] = j
        BY ZenonT(30), <1>4
    <2> QED BY <2>1, <2>2, <2>3 DEF Bijection, Injection, Surjection, IsInjective
<1>6. IsFiniteSet(rest) /\ Cardinality(rest) =
          IF 1 \in Places(s, c) THEN Cardinality(Places(s, c)) - 1
          ELSE Cardinality(Places(s, c))
    BY PlacesType, FS_RemoveElement
<1>7. Cardinality(Places(Tail(s), c)) = Cardinality(rest)
    <2> HIDE DEF rest, f
    <2> QED BY <1>5, <1>6, FS_Bijection DEF ExistsBijection
<1>8. 1 \in Places(s, c) <=> Head(s) = c
    BY <1>1 DEF Places
<1>9. Cardinality(Places(s, c)) \in Nat
    BY PlacesType
<1> HIDE DEF rest
<1> QED BY <1>6, <1>7, <1>8, <1>9

(* the buffers of queue q, in order *)
Carried(q) == [i \in 1..Len(q) |-> q[i].buffer]

(* how often buffer b is free, and in queue q *)
Uses(f, q, b) == Cardinality(Places(f, b)) + Cardinality(Places(Carried(q), b))

(* The serial port: its queue, its one write, and the buffers of the pool. *)
QueueInv ==
    /\ sendBuffers \in Seq(SendBuffer)
    /\ free \in Seq(PoolBuffers)
    /\ writes \in Seq(Seq(Bytes))
    /\ accepted \in Seq(Bytes)
    /\ wire \in Seq(Bytes)
    /\ writes # <<>> => Len(writes) = 1 /\ sendBuffers # <<>>
    /\ \A b \in PoolBuffers : Uses(free, sendBuffers, b) = 1

(* The buffers of a queue change as the queue does. *)
LEMMA CarriedChanges ==
    ASSUME NEW q \in Seq(SendBuffer), NEW x \in SendBuffer
    PROVE  /\ Carried(q) \in Seq(Buffers)
           /\ Carried(Append(q, x)) = Append(Carried(q), x.buffer)
           /\ q # <<>> => /\ Carried(q) # <<>>
                          /\ Head(Carried(q)) = Head(q).buffer
                          /\ Carried(Tail(q)) = Tail(Carried(q))
                          /\ x.buffer = Head(q).buffer => Carried(<<x>> \o Tail(q)) = Carried(q)
<1>1. Carried(q) \in Seq(Buffers) /\ Len(Carried(q)) = Len(q)
    <2>1. ASSUME NEW i \in 1..Len(q) PROVE q[i].buffer \in Buffers
        <3>1. q[i] \in SendBuffer
            OBVIOUS
        <3> QED BY <3>1 DEF SendBuffer
    <2> QED BY <2>1 DEF Carried
<1>2. Carried(Append(q, x)) = Append(Carried(q), x.buffer)
    <2>1. Append(q, x) \in Seq(SendBuffer) /\ Len(Append(q, x)) = Len(q) + 1
        OBVIOUS
    <2>2. \A i \in 1..Len(q) + 1 : Append(q, x)[i] = IF i <= Len(q) THEN q[i] ELSE x
        OBVIOUS
    <2> QED BY <2>1, <2>2 DEF Carried
<1>3. ASSUME q # <<>>
      PROVE  /\ Carried(q) # <<>>
             /\ Head(Carried(q)) = Head(q).buffer
             /\ Carried(Tail(q)) = Tail(Carried(q))
    <2>1. Len(q) \in Nat \ {0} /\ Len(Tail(q)) = Len(q) - 1
        BY <1>3
    <2>2. \A i \in 1..Len(q) - 1 : Tail(q)[i] = q[i + 1]
        BY <1>3
    <2>3. Head(q) = q[1]
        BY <1>3
    <2> QED BY <2>1, <2>2, <2>3 DEF Carried
<1>4. ASSUME q # <<>>, x.buffer = Head(q).buffer
      PROVE  Carried(<<x>> \o Tail(q)) = Carried(q)
    <2> DEFINE r == <<x>> \o Tail(q)
    <2>1. Len(q) \in Nat \ {0} /\ Tail(q) \in Seq(SendBuffer) /\ Len(Tail(q)) = Len(q) - 1
        BY <1>4
    <2>2. Len(r) = Len(q)
        BY <2>1
    <2>3. \A i \in 1..Len(q) : r[i] = IF i = 1 THEN x ELSE q[i]
        BY <1>4, <2>1
    <2>4. Head(q) = q[1]
        BY <1>4
    <2>5. \A i \in 1..Len(q) : r[i].buffer = q[i].buffer
        BY <1>4, <2>3, <2>4
    <2> HIDE DEF r
    <2>6. Carried(r) = Carried(q)
        BY <2>2, <2>5 DEF Carried
    <2> QED BY <2>6 DEF r
<1> QED BY <1>1, <1>2, <1>3, <1>4

(* malloc() and the push move a buffer of the pool into the queue. *)
LEMMA PushKeeps ==
    ASSUME QueueInv, NEW data \in Seq(Bytes), push(data), UNCHANGED wire
    PROVE  QueueInv'
<1> DEFINE x == [data |-> data, pos |-> 0, buffer |-> allocated]
<1>0. /\ sendBuffers \in Seq(SendBuffer) /\ free \in Seq(PoolBuffers)
      /\ writes \in Seq(Seq(Bytes)) /\ accepted \in Seq(Bytes) /\ wire \in Seq(Bytes)
      /\ writes # <<>> => Len(writes) = 1 /\ sendBuffers # <<>>
      /\ \A b \in PoolBuffers : Uses(free, sendBuffers, b) = 1
    BY DEF QueueInv
<1>1. x \in SendBuffer /\ x.buffer = allocated /\ cbuffer(x) \in Seq(Bytes)
    BY SMTT(60), <1>0 DEF SendBuffer, Buffers, allocated, cbuffer
<1>2. sendBuffers' = Append(sendBuffers, x)
    BY DEF push, queued
<1> HIDE DEF x
<1>3. sendBuffers' \in Seq(SendBuffer) /\ sendBuffers' # <<>>
    <2>1. Append(sendBuffers, x) \in Seq(SendBuffer)
        BY <1>0, <1>1
    <2>2. Append(sendBuffers, x) # <<>>
        <3>1. Len(Append(sendBuffers, x)) = Len(sendBuffers) + 1 /\ Len(sendBuffers) \in Nat
            BY <1>0
        <3>2. Len(<<>>) = 0
            OBVIOUS
        <3> QED BY <3>1, <3>2
    <2> QED BY <1>2, <2>1, <2>2
<1>4. accepted' \in Seq(Bytes)
    BY <1>0 DEF push
<1>5. writes' \in Seq(Seq(Bytes)) /\ (writes' # <<>> => Len(writes') = 1)
    <2>1. CASE sendBuffers = <<>>
        <3>1. writes = <<>> /\ Head(sendBuffers') = x
            BY <1>0, <1>2, <2>1
        <3>2. writes' = Append(writes, cbuffer(x))
            BY <1>2, <2>1, <3>1 DEF push, asyncSend
        <3> QED BY <1>0, <1>1, <3>1, <3>2
    <2>2. CASE sendBuffers # <<>>
        BY <1>0, <2>2 DEF push
    <2> QED BY <2>1, <2>2
<1>6. free' \in Seq(PoolBuffers)
    BY <1>0 DEF push
<1>7. ASSUME NEW b \in PoolBuffers PROVE Uses(free', sendBuffers', b) = 1
    <2> DEFINE c == Carried(sendBuffers)
    <2>1. c \in Seq(Buffers) /\ Carried(sendBuffers') = Append(c, allocated)
             /\ allocated \in Buffers
        BY ZenonT(30), <1>0, <1>1, <1>2, CarriedChanges DEF SendBuffer
    <2> HIDE DEF c
    <2>2. /\ Cardinality(Places(c, b)) \in Nat
          /\ Cardinality(Places(Append(c, allocated), b)) =
                Cardinality(Places(c, b)) + (IF b = allocated THEN 1 ELSE 0)
        BY <2>1, PlacesType, PlacesAppend
    <2>3. Cardinality(Places(free, b)) \in Nat
        BY <1>0, PlacesType
    <2>4. Cardinality(Places(free', b)) =
             Cardinality(Places(free, b)) - (IF b = allocated THEN 1 ELSE 0)
        <3>1. CASE free = <<>>
            <4>1. free' = free /\ b # allocated
                BY <3>1, DeviceAssumption DEF push, allocated
            <4> QED BY <2>3, <4>1
        <3>2. CASE free # <<>>
            <4>1. free' = Tail(free) /\ allocated = Head(free) /\ allocated \in PoolBuffers
                BY <1>0, <3>2 DEF push, allocated
            <4> QED BY <1>0, <3>2, <4>1, PlacesTail
        <3> QED BY <3>1, <3>2
    <2>5. Cardinality(Places(free, b)) + Cardinality(Places(c, b)) = 1
        BY <1>0 DEF Uses, c
    <2> QED BY <2>1, <2>2, <2>3, <2>4, <2>5 DEF Uses
<1> QED BY <1>0, <1>3, <1>4, <1>5, <1>6, <1>7 DEF QueueInv

(* A write that completes advances the front of the queue, or removes it   *)
(* and gives its buffer back.                                              *)
LEMMA WrittenKeeps ==
    ASSUME QueueInv, NEW w \in DOMAIN writes, NEW n \in Nat, onSend(w, n)
    PROVE  QueueInv'
<1> DEFINE h == Head(sendBuffers)
           front == [h EXCEPT !.pos = @ + n]
           rest == Tail(sendBuffers)
<1>0. /\ sendBuffers \in Seq(SendBuffer) /\ free \in Seq(PoolBuffers)
      /\ writes \in Seq(Seq(Bytes)) /\ accepted \in Seq(Bytes) /\ wire \in Seq(Bytes)
      /\ writes # <<>> => Len(writes) = 1 /\ sendBuffers # <<>>
      /\ \A b \in PoolBuffers : Uses(free, sendBuffers, b) = 1
    BY DEF QueueInv
<1>1. w = 1 /\ Len(writes) = 1 /\ sendBuffers # <<>>
    BY <1>0
<1>2. WithoutWrite(w) = <<>>
    BY <1>0, <1>1 DEF WithoutWrite
<1>3. wire' \in Seq(Bytes) /\ accepted' = accepted
    <2>0. n \in 0..Len(writes[w])
        BY DEF onSend, Written
    <2>1. writes[w] \in Seq(Bytes)
        <3>1. \A S : \A s \in Seq(S) : \A i \in 1..Len(s) : s[i] \in S
            OBVIOUS
        <3>2. w \in 1..Len(writes)
            BY <1>1
        <3> QED BY <1>0, <3>1, <3>2
    <2>2. SubSeq(writes[w], 1, n) \in Seq(Bytes)
        BY <2>0, <2>1
    <2> QED BY <1>0, <2>2 DEF onSend, Written
<1>4. h \in SendBuffer /\ rest \in Seq(SendBuffer) /\ Len(rest) = Len(sendBuffers) - 1
         /\ Len(sendBuffers) \in Nat
    BY <1>0, <1>1
<1>5. front \in SendBuffer /\ front.buffer = h.buffer
    <2> HIDE DEF h
    <2>1. h.pos + n \in Nat
        BY <1>4 DEF SendBuffer
    <2>2. ASSUME NEW p \in Nat
          PROVE  [h EXCEPT !.pos = p] \in SendBuffer /\ [h EXCEPT !.pos = p].buffer = h.buffer
        BY ZenonT(30), <1>4 DEF SendBuffer
    <2> QED BY <2>1, <2>2
<1>6. /\ <<front>> \o rest \in Seq(SendBuffer)
      /\ Len(<<front>> \o rest) = Len(sendBuffers)
      /\ <<front>> \o rest # <<>>
      /\ Carried(<<front>> \o rest) = Carried(sendBuffers)
    <2>1. Carried(<<front>> \o rest) = Carried(sendBuffers)
        BY ZenonT(30), <1>0, <1>1, <1>5, CarriedChanges
    <2> HIDE DEF front, rest
    <2>2. <<front>> \in Seq(SendBuffer) /\ Len(<<front>>) = 1
        BY <1>5
    <2>3. <<front>> \o rest \in Seq(SendBuffer) /\ Len(<<front>> \o rest) = 1 + Len(rest)
        BY <1>4, <2>2
    <2>4. Len(<<>>) = 0
        OBVIOUS
    <2> QED BY <1>4, <2>1, <2>3, <2>4
<1>7. advanced(n) \in {rest, <<front>> \o rest}
    BY DEF advanced
<1>8. sendBuffers' = advanced(n) /\ free' = freeAfter(n)
    BY DEF onSend
<1>9. advanced(n) \in Seq(SendBuffer)
    BY ZenonT(30), <1>4, <1>6, <1>7
<1>10. /\ writes' \in Seq(Seq(Bytes))
       /\ writes' # <<>> => Len(writes') = 1 /\ sendBuffers' # <<>>
    <2>1. CASE advanced(n) = <<>>
        BY <1>2, <2>1 DEF onSend
    <2>2. CASE advanced(n) # <<>>
        <3>1. Head(advanced(n)) \in SendBuffer
            BY <1>9, <2>2
        <3>2. cbuffer(Head(advanced(n))) \in Seq(Bytes)
            BY <3>1 DEF SendBuffer, cbuffer
        <3>3. writes' = <<cbuffer(Head(advanced(n)))>>
            BY <1>2, <2>2 DEF onSend
        <3> QED BY <1>8, <2>2, <3>2, <3>3
    <2> QED BY <2>1, <2>2
<1> HIDE DEF front, rest
<1>11. CASE advanced(n) = rest
    <2>1. free' = IF h.buffer # OsBuffer THEN Append(free, h.buffer) ELSE free
        BY <1>4, <1>8, <1>11 DEF freeAfter
    <2>2. h.buffer \in PoolBuffers \/ h.buffer = OsBuffer
        BY <1>4 DEF SendBuffer, Buffers
    <2>3. OsBuffer \notin PoolBuffers
        BY DeviceAssumption
    <2>4. free' \in Seq(PoolBuffers)
        BY <1>0, <2>1, <2>2, <2>3
    <2>5. ASSUME NEW b \in PoolBuffers PROVE Uses(free', sendBuffers', b) = 1
        <3> DEFINE c == Carried(sendBuffers)
        <3>1. c \in Seq(Buffers) /\ c # <<>> /\ Head(c) = h.buffer /\ Carried(rest) = Tail(c)
            BY ZenonT(30), <1>0, <1>1, <1>5, CarriedChanges DEF rest
        <3> HIDE DEF c, h
        <3>2. /\ Cardinality(Places(c, b)) \in Nat
              /\ Cardinality(Places(Tail(c), b)) =
                    Cardinality(Places(c, b)) - (IF h.buffer = b THEN 1 ELSE 0)
            BY <3>1, PlacesType, PlacesTail
        <3>3. Cardinality(Places(free, b)) \in Nat
            BY <1>0, PlacesType
        <3>4. Cardinality(Places(free', b)) =
                 Cardinality(Places(free, b)) + (IF h.buffer = b THEN 1 ELSE 0)
            <4>1. CASE h.buffer = OsBuffer
                <5>1. free' = free /\ h.buffer # b
                    BY <2>1, <2>3, <4>1
                <5> QED BY <3>3, <5>1
            <4>2. CASE h.buffer # OsBuffer
                <5>1. free' = Append(free, h.buffer) /\ h.buffer \in PoolBuffers
                    BY <2>1, <2>2, <4>2
                <5> QED BY <1>0, <5>1, PlacesAppend
            <4> QED BY <4>1, <4>2
        <3>5. Cardinality(Places(free, b)) + Cardinality(Places(c, b)) = 1
            BY <1>0 DEF Uses, c
        <3>6. Carried(sendBuffers') = Tail(c)
            BY <1>8, <1>11, <3>1
        <3> QED BY <3>2, <3>3, <3>4, <3>5, <3>6 DEF Uses
    <2> QED BY <1>0, <1>3, <1>8, <1>9, <1>10, <2>4, <2>5 DEF QueueInv
<1>12. CASE advanced(n) = <<front>> \o rest
    <2>1. free' = free
        BY <1>4, <1>6, <1>8, <1>12 DEF freeAfter
    <2>2. Carried(sendBuffers') = Carried(sendBuffers)
        BY <1>6, <1>8, <1>12
    <2>3. \A b \in PoolBuffers : Uses(free', sendBuffers', b) = 1
        BY <1>0, <2>1, <2>2 DEF Uses
    <2> QED BY <1>0, <1>3, <1>8, <1>9, <1>10, <2>1, <2>3 DEF QueueInv
<1> QED BY <1>7, <1>11, <1>12

-----------------------------------------------------------------------------
(* The other members of the device; an open port is being read. *)
ReadInv ==
    /\ port \in BOOLEAN
    /\ reads \in Nat
    /\ readsDone \in Nat
    /\ port => reads + readsDone = 1
    /\ highWaterMark \in HighWaterMarks
    /\ copying \in Seq(Bytes)
    /\ messages \in 0..MaxMessages
    /\ failed \in BOOLEAN

(* The inductive invariant. *)
Inv == UdpInv /\ QueueInv /\ ReadInv

(* At first every buffer of the pool is free, once. *)
LEMMA InitInv == Init => Inv
<1> SUFFICES ASSUME Init PROVE Inv
    OBVIOUS
<1>1. UdpInv
    <2>1. arrived = Nothing /\ Nothing \in Completed /\ Nothing.kind # "datagram"
        BY DEF Init, UdpInit, Completed, Nothing
    <2>2. lastSent \in Sendings /\ AnswersTheSender
        BY DEF Init, UdpInit, Sendings, AnswersTheSender
    <2>3. receives = 1 /\ recoveries = 0 /\ target = NoPeer /\ firstMessage \in BOOLEAN
        BY ZenonT(30) DEF Init, UdpInit
    <2> QED BY <2>1, <2>2, <2>3 DEF UdpInv
<1>2. ReadInv
    <2>1. copying = <<>> /\ copying \in Seq(Bytes)
        BY DEF Init, DeviceInit
    <2>2. messages \in 0..MaxMessages
        BY DeviceAssumption DEF Init, DeviceInit
    <2>3. reads \in Nat /\ readsDone \in Nat /\ (port => reads + readsDone = 1)
        BY DEF Init, DeviceInit
    <2>4. port \in BOOLEAN /\ failed \in BOOLEAN /\ highWaterMark \in HighWaterMarks
        BY ZenonT(30) DEF Init, DeviceInit
    <2> QED BY <2>1, <2>2, <2>3, <2>4 DEF ReadInv
<1>3. ASSUME NEW b \in PoolBuffers PROVE Uses(free, sendBuffers, b) = 1
    <2> DEFINE N == Cardinality(PoolBuffers)
    <2>1. N \in Nat /\ IsFiniteSet(PoolBuffers)
        BY DeviceAssumption, FS_CardinalityType
    <2>2. free \in [1..N -> PoolBuffers] /\ \A i, j \in 1..N : free[i] = free[j] => i = j
        BY DEF Init, DeviceInit
    <2> HIDE DEF N
    <2>3. IsFiniteSet(1..N) /\ Cardinality(1..N) = N
        BY <2>1, FS_Interval
    <2>4. free \in Injection(1..N, PoolBuffers)
        BY <2>2 DEF Injection, IsInjective
    <2>5. free \in Surjection(1..N, PoolBuffers)
        BY <2>1, <2>3, <2>4, FS_Injection DEF N
    <2>6. PICK i \in 1..N : free[i] = b
        BY <2>5 DEF Surjection
    <2>7. Len(free) = N
        BY <2>1, <2>2
    <2>8. Places(free, b) = {i}
        BY <2>2, <2>6, <2>7 DEF Places
    <2>9. Places(Carried(sendBuffers), b) = {}
        <3>1. sendBuffers = <<>> /\ Len(sendBuffers) = 0
            BY DEF Init, DeviceInit
        <3>2. Len(Carried(sendBuffers)) = 0
            BY <3>1 DEF Carried
        <3> QED BY <3>2 DEF Places
    <2> QED BY <2>8, <2>9, FS_EmptySet, FS_Singleton DEF Uses
<1>4. QueueInv
    <2>1. free \in Seq(PoolBuffers)
        <3>1. Cardinality(PoolBuffers) \in Nat
            BY DeviceAssumption, FS_CardinalityType
        <3> QED BY <3>1 DEF Init, DeviceInit
    <2>2. /\ sendBuffers = <<>> /\ sendBuffers \in Seq(SendBuffer)
          /\ writes = <<>> /\ writes \in Seq(Seq(Bytes))
          /\ accepted = <<>> /\ accepted \in Seq(Bytes)
          /\ wire = <<>> /\ wire \in Seq(Bytes)
        BY DEF Init, DeviceInit
    <2> QED BY <1>3, <2>1, <2>2 DEF QueueInv
<1> QED BY <1>1, <1>2, <1>4 DEF Inv

(* Every step keeps the invariant. *)
LEMMA NextInv == Inv /\ [Next]_vars => Inv'
<1> SUFFICES ASSUME Inv, [Next]_vars PROVE Inv'
    OBVIOUS
<1> USE DEF Inv
<1>Q. UNCHANGED <<sendBuffers, free, writes, accepted, wire>> => QueueInv'
    BY ZenonT(30) DEF QueueInv, Uses, Carried, Places
<1>M. ASSUME NEW size \in Sizes, messages < MaxMessages
      PROVE  Message(size) \in Seq(Bytes) /\ messages + 1 \in 0..MaxMessages
    BY <1>M, DeviceAssumption DEF ReadInv, Message, Bytes
<1>1. ASSUME NEW size \in Sizes, send(size) PROVE QueueInv' /\ ReadInv'
    <2>1. QueueInv'
        BY <1>1, <1>Q DEF send, nothingPushed
    <2>2. copying' \in {<<>>, Message(size)} /\ copying' \in Seq(Bytes)
             /\ messages' \in 0..MaxMessages
        BY <1>1, <1>M DEF send
    <2> QED BY <1>1, <2>1, <2>2 DEF send, ReadInv
<1>2. ASSUME NEW size \in Sizes, sendCopy(size) PROVE QueueInv' /\ ReadInv'
    <2>1. Message(size) \in Seq(Bytes) /\ messages' \in 0..MaxMessages
        BY <1>2, <1>M DEF sendCopy
    <2>2. QueueInv'
        BY <1>2, <1>Q, <2>1, PushKeeps DEF sendCopy, nothingPushed
    <2> QED BY <1>2, <2>1, <2>2 DEF sendCopy, ReadInv
<1>3. ASSUME NEW hwm \in HighWaterMarks, sendHighWaterMark(hwm) PROVE QueueInv' /\ ReadInv'
    BY <1>3, <1>Q DEF sendHighWaterMark, nothingPushed, ReadInv
<1>4. ASSUME sendPiece PROVE QueueInv' /\ ReadInv'
    <2>1. copying \in Seq(Bytes) /\ BufferSize \in Nat
        BY DeviceAssumption DEF ReadInv
    <2>2. Piece \in 0..Len(copying)
        BY <2>1 DEF Piece
    <2>3. SubSeq(copying, 1, Piece) \in Seq(Bytes)
        BY <2>1, <2>2
    <2>4. SubSeq(copying, BufferSize + 1, Len(copying)) \in Seq(Bytes)
        BY <2>1
    <2>5. QueueInv'
        BY ZenonT(30), <1>4, <1>Q, <2>3, PushKeeps DEF sendPiece, nothingPushed
    <2> QED BY <1>4, <2>4, <2>5 DEF sendPiece, ReadInv
<1>5. ASSUME NEW w \in DOMAIN writes, NEW n \in 0..BufferSize, onSend(w, n)
      PROVE  QueueInv' /\ ReadInv'
    <2>1. n \in Nat
        BY DeviceAssumption
    <2>2. QueueInv'
        BY <1>5, <2>1, WrittenKeeps
    <2> QED BY <1>5, <2>2 DEF onSend, ReadInv
<1>6. ASSUME NEW w \in DOMAIN writes, onSendError(w) PROVE QueueInv' /\ ReadInv'
    <2>1. w = 1 /\ Len(writes) = 1 /\ writes \in Seq(Seq(Bytes))
        BY DEF QueueInv
    <2>2. writes' = <<>> /\ writes' \in Seq(Seq(Bytes))
        BY <1>6, <2>1 DEF onSendError, WithoutWrite
    <2>3. QueueInv'
        BY ZenonT(30), <1>6, <2>2 DEF onSendError, QueueInv, Uses, Carried, Places
    <2> QED BY <1>6, <2>3 DEF onSendError, ReadInv
<1>7. ASSUME ReadCompletes \/ onReceive PROVE QueueInv' /\ ReadInv'
    <2>1. QueueInv'
        BY <1>7, <1>Q DEF ReadCompletes, onReceive
    <2> QED BY <1>7, <2>1 DEF ReadCompletes, onReceive, ReadInv
<1>8. ASSUME UNCHANGED deviceVars PROVE QueueInv' /\ ReadInv'
    <2>1. QueueInv'
        BY <1>8, <1>Q DEF deviceVars
    <2> QED BY <1>8, <2>1 DEF deviceVars, ReadInv
<1>9. CASE Serial
    <2>1. UdpInv'
        BY <1>9, UdpSteps DEF Serial
    <2>2. QueueInv' /\ ReadInv'
        BY <1>1, <1>2, <1>3, <1>4, <1>5, <1>6, <1>7, <1>9 DEF Serial, Sends, Completes, Fails
    <2> QED BY <2>1, <2>2
<1>10. CASE Network
    BY <1>8, <1>10, UdpSteps DEF Network
<1>11. CASE Udp
    BY <1>8, <1>11, UdpSteps DEF Udp, UdpHandler
<1>12. CASE UNCHANGED vars
    BY <1>8, <1>12, UdpSteps DEF vars
<1> QED BY <1>9, <1>10, <1>11, <1>12 DEF Next

(* The invariant holds throughout. *)
THEOREM DevicesInvariant == Spec => []Inv
<1> QED BY InitInv, NextInv, PTL DEF Spec

(* Every member of the serial port and of the UDP socket keeps its type.   *)
THEOREM DevicesTypeCorrect == Spec => []TypeOK
<1>1. Inv => TypeOK
    BY DEF Inv, UdpInv, QueueInv, ReadInv, SendBuffer, TypeOK
<1> QED BY <1>1, DevicesInvariant, PTL

(* onReceive(), receive() and the recovery timer: neither device goes deaf *)
(* or receives twice into its one buffer, whatever fails.                  *)
THEOREM DevicesAlwaysListening == Spec => []AlwaysListening
<1>1. Inv => AlwaysListening
    BY DEF Inv, UdpInv, ReadInv, AlwaysListening
<1> QED BY <1>1, DevicesInvariant, PTL

(* GenericUdp::send() within the handler of a datagram goes to the sender  *)
(* of that datagram.                                                       *)
THEOREM DevicesAnswersTheSender == Spec => []AnswersTheSender
<1>1. Inv => AnswersTheSender
    BY DEF Inv, UdpInv
<1> QED BY <1>1, DevicesInvariant, PTL

(* SendBuffer's constructors and destructor: every buffer of the pool is   *)
(* free or in the queue, and once.                                         *)
THEOREM DevicesSendBuffersAccounted == Spec => []SendBuffersAccounted
<1>1. Inv => SendBuffersAccounted
    <2> SUFFICES ASSUME Inv, NEW b \in PoolBuffers
                 PROVE  Cardinality({i \in DOMAIN free : free[i] = b})
                          + Cardinality({i \in DOMAIN sendBuffers : sendBuffers[i].buffer = b}) = 1
        BY DEF SendBuffersAccounted
    <2>1. free \in Seq(PoolBuffers) /\ sendBuffers \in Seq(SendBuffer)
             /\ Uses(free, sendBuffers, b) = 1
        BY DEF Inv, QueueInv
    <2>2. {i \in DOMAIN free : free[i] = b} = Places(free, b)
        BY <2>1 DEF Places
    <2>3. {i \in DOMAIN sendBuffers : sendBuffers[i].buffer = b} = Places(Carried(sendBuffers), b)
        BY <2>1 DEF Places, Carried
    <2> QED BY ZenonT(30), <2>1, <2>2, <2>3 DEF Uses
<1> QED BY <1>1, DevicesInvariant, PTL

-----------------------------------------------------------------------------
(* what the port has taken, with what is queued after it *)
Queued(w, q) == w \o Flatten([i \in 1..Len(q) |-> Unsent(q[i])])

(* What is unsent of a buffer is bytes. *)
LEMMA UnsentType ==
    ASSUME NEW b \in SendBuffer
    PROVE  Unsent(b) \in Seq(Bytes)
BY DEF Unsent, SendBuffer

(* what is left of each buffer of the queue *)
AllUnsent(q) == [i \in 1..Len(q) |-> Unsent(q[i])]

(* So is what is unsent of each buffer of a queue. *)
LEMMA AllUnsentType ==
    ASSUME NEW q \in Seq(SendBuffer)
    PROVE  /\ AllUnsent(q) \in Seq(Seq(Bytes)) /\ Len(AllUnsent(q)) = Len(q)
           /\ \A i \in 1..Len(q) : AllUnsent(q)[i] = Unsent(q[i])
<1>1. Len(q) \in Nat /\ \A i \in 1..Len(q) : q[i] \in SendBuffer
    OBVIOUS
<1>2. \A i \in 1..Len(q) : Unsent(q[i]) \in Seq(Bytes)
    BY <1>1, UnsentType
<1>3. AllUnsent(q) \in [1..Len(q) -> Seq(Bytes)]
    BY <1>2 DEF AllUnsent
<1> QED BY <1>1, <1>3 DEF AllUnsent

(* What was taken and what is queued is a sequence of bytes, the queue     *)
(* flattened after the wire.                                               *)
LEMMA QueuedIs ==
    ASSUME NEW w, NEW q
    PROVE  Queued(w, q) = w \o Flatten(AllUnsent(q))
BY DEF Queued, AllUnsent

(* Nothing queued adds nothing. *)
LEMMA QueuedNothing ==
    ASSUME NEW w \in Seq(Bytes)
    PROVE  Queued(w, <<>>) = w
<1>1. AllUnsent(<<>>) = <<>>
    BY DEF AllUnsent
<1> QED BY <1>1, QueuedIs, FlattenNothing

(* What joins the queue is added at its end. *)
LEMMA QueuedAppend ==
    ASSUME NEW w \in Seq(Bytes), NEW q \in Seq(SendBuffer), NEW x \in SendBuffer
    PROVE  Queued(w, Append(q, x)) = Queued(w, q) \o Unsent(x)
<1> DEFINE r == Append(q, x)
           s == AllUnsent(q)
           y == Unsent(x)
           f == Flatten(s)
<1>1. /\ r \in Seq(SendBuffer) /\ Len(q) \in Nat /\ Len(r) = Len(q) + 1
      /\ r[Len(q) + 1] = x /\ \A i \in 1..Len(q) : r[i] = q[i]
    OBVIOUS
<1>2. s \in Seq(Seq(Bytes)) /\ y \in Seq(Bytes)
    BY AllUnsentType, UnsentType
<1>3. /\ Len(s) = Len(q) /\ Len(AllUnsent(r)) = Len(q) + 1
      /\ \A i \in 1..Len(q) : s[i] = Unsent(q[i])
      /\ \A i \in 1..Len(q) + 1 : AllUnsent(r)[i] = Unsent(r[i])
      /\ AllUnsent(r) \in Seq(Seq(Bytes))
    BY ZenonT(30), <1>1, AllUnsentType
<1> HIDE DEF r, s
<1>4. AllUnsent(r) = Append(s, y)
    <2>1. /\ Append(s, y) \in Seq(Seq(Bytes)) /\ Len(Append(s, y)) = Len(q) + 1
          /\ Append(s, y)[Len(q) + 1] = y /\ \A i \in 1..Len(q) : Append(s, y)[i] = s[i]
        BY <1>2, <1>3
    <2>2. \A i \in 1..Len(q) + 1 : i \in 1..Len(q) \/ i = Len(q) + 1
        BY <1>1
    <2>3. \A i \in 1..Len(q) + 1 : AllUnsent(r)[i] = Append(s, y)[i]
        BY <1>1, <1>3, <2>1, <2>2
    <2> HIDE DEF y
    <2> QED BY <1>3, <2>1, <2>3, SeqEqual
<1> HIDE DEF y
<1>5. Flatten(AllUnsent(r)) = f \o y /\ f \in Seq(Bytes)
    BY <1>2, <1>4, FlattenAppend, FlattenType
<1> HIDE DEF f
<1>6. w \o (f \o y) = (w \o f) \o y
    BY ONLY SMTT(60), <1>2, <1>5, w \in Seq(Bytes), ThreeJoined
<1> QED BY ZenonT(30), <1>5, <1>6, QueuedIs DEF f, r, s, y

(* What is at the front of the queue follows what the port has taken. *)
LEMMA QueuedFront ==
    ASSUME NEW w \in Seq(Bytes), NEW q \in Seq(SendBuffer), q # <<>>
    PROVE  Queued(w, q) = Queued(w \o Unsent(Head(q)), Tail(q))
<1> DEFINE r == Tail(q)
           s == AllUnsent(q)
           n == Len(r)
           y == Unsent(Head(q))
           f == Flatten(AllUnsent(r))
<1>1. /\ r \in Seq(SendBuffer) /\ n \in Nat /\ Len(q) = n + 1 /\ q[1] = Head(q)
      /\ Head(q) \in SendBuffer /\ \A k \in 1..n : r[k] = q[k + 1]
    OBVIOUS
<1>2. y \in Seq(Bytes)
    BY <1>1, UnsentType
<1>3. /\ s \in Seq(Seq(Bytes)) /\ Len(s) = n + 1
      /\ \A i \in 1..n + 1 : s[i] = Unsent(q[i])
    BY <1>1, AllUnsentType
<1>4. /\ AllUnsent(r) \in Seq(Seq(Bytes)) /\ Len(AllUnsent(r)) = n
      /\ \A i \in 1..n : AllUnsent(r)[i] = Unsent(r[i])
    BY ZenonT(30), <1>1, AllUnsentType
<1> HIDE DEF r, s, n
<1>5. s # <<>> /\ Head(s) = y /\ Tail(s) = AllUnsent(r)
    <2>1. s # <<>> /\ Head(s) = s[1] /\ 1 \in 1..n + 1
        BY <1>1, <1>3
    <2>2. Tail(s) \in Seq(Seq(Bytes)) /\ Len(Tail(s)) = n /\ \A i \in 1..n : Tail(s)[i] = s[i + 1]
        BY <1>1, <1>3, <2>1
    <2>3. ASSUME NEW i \in 1..n PROVE Tail(s)[i] = AllUnsent(r)[i]
        <3>1. i + 1 \in 1..n + 1
            BY <1>1
        <3> QED BY <1>1, <1>3, <1>4, <2>2, <3>1
    <2>4. Tail(s) = AllUnsent(r)
        BY ZenonT(30), <1>4, <2>2, <2>3, SeqEqual
    <2> QED BY <1>1, <1>3, <2>1, <2>4
<1>6. Flatten(s) = y \o f /\ f \in Seq(Bytes)
    <2>1. Flatten(s) = Head(s) \o Flatten(Tail(s))
        BY ZenonT(30), <1>3, <1>5, FlattenFront
    <2> QED BY ZenonT(30), <1>4, <1>5, <2>1, FlattenType
<1>7. Queued(w, q) = w \o Flatten(s) /\ Queued(w \o y, r) = (w \o y) \o f
    BY ZenonT(30), QueuedIs DEF s
<1> HIDE DEF f, y
<1>8. (w \o y) \o f = w \o (y \o f)
    BY ONLY SMTT(60), <1>2, <1>6, w \in Seq(Bytes), ThreeJoined
<1> QED BY ZenonT(30), <1>6, <1>7, <1>8 DEF r, y

(* What the port has taken and what is queued is what was accepted, and    *)
(* the write that is under way is of the front of the queue.               *)
WireInv ==
    /\ accepted = Queued(wire, sendBuffers)
    /\ writes # <<>> => writes[1] = cbuffer(Head(sendBuffers))

(* push() appends the same bytes to what was accepted and to the queue. *)
LEMMA PushWire ==
    ASSUME Inv, WireInv, NEW data \in Seq(Bytes), push(data), UNCHANGED wire
    PROVE  WireInv'
<1> DEFINE x == [data |-> data, pos |-> 0, buffer |-> allocated]
<1>1. /\ sendBuffers \in Seq(SendBuffer) /\ free \in Seq(PoolBuffers)
      /\ writes \in Seq(Seq(Bytes)) /\ wire \in Seq(Bytes)
      /\ writes # <<>> => Len(writes) = 1 /\ sendBuffers # <<>>
    BY DEF Inv, QueueInv
<1>2. x \in SendBuffer /\ Unsent(x) = data
    <2>1. x \in SendBuffer
        BY <1>1 DEF SendBuffer, Buffers, allocated
    <2>2. SubSeq(data, 0 + 1, Len(data)) = data
        OBVIOUS
    <2> QED BY <2>1, <2>2 DEF Unsent
<1>3. sendBuffers' = Append(sendBuffers, x) /\ accepted' = accepted \o data
    BY DEF push, queued
<1> HIDE DEF x
<1>4. accepted' = Queued(wire', sendBuffers')
    BY ZenonT(30), <1>1, <1>2, <1>3, QueuedAppend DEF WireInv
<1>5. ASSUME writes' # <<>> PROVE writes'[1] = cbuffer(Head(sendBuffers'))
    <2>1. CASE sendBuffers = <<>>
        <3>1. writes = <<>> /\ Head(sendBuffers') = x
            BY <1>1, <1>3, <2>1
        <3>2. writes' = Append(writes, cbuffer(x))
            BY <1>3, <2>1, <3>1 DEF push, asyncSend
        <3> QED BY <3>1, <3>2
    <2>2. CASE sendBuffers # <<>>
        <3>1. writes' = writes /\ Head(sendBuffers') = Head(sendBuffers)
            BY <1>1, <1>2, <1>3, <2>2 DEF push
        <3> QED BY <1>5, <3>1 DEF WireInv
    <2> QED BY <2>1, <2>2
<1> QED BY <1>4, <1>5 DEF WireInv

(* the start of what is left of a sequence *)
LEMMA StartOfRest ==
    ASSUME NEW S, NEW d \in Seq(S), NEW i \in 1..Len(d), NEW m \in 1..Len(d) - i + 1
    PROVE  SubSeq(SubSeq(d, i, Len(d)), 1, m) = SubSeq(d, i, i + m - 1)
<1>1. Len(d) \in Nat /\ Len(d) \in 1..Len(d) /\ 1 \in 1..Len(d) - i + 1 /\ i + 1 - 1 = i
    OBVIOUS
<1> DEFINE l == Len(d)
<1> HIDE DEF l
<1>2. SubSeq(SubSeq(d, i, l), 1, m) = SubSeq(d, i + 1 - 1, i + m - 1)
    BY <1>1, SubSeqOfSubSeq DEF l
<1> QED BY <1>1, <1>2 DEF l

(* onSend(): the bytes written move from the front of the queue to the     *)
(* wire.                                                                   *)
LEMMA WrittenWire ==
    ASSUME Inv, WireInv, NEW w \in DOMAIN writes, NEW n \in Nat, onSend(w, n)
    PROVE  WireInv'
<1> DEFINE h == Head(sendBuffers)
           rest == Tail(sendBuffers)
           front == [h EXCEPT !.pos = @ + n]
           out == Unsent(h)
           taken == SubSeq(out, 1, n)
<1>1. /\ sendBuffers \in Seq(SendBuffer) /\ writes \in Seq(Seq(Bytes)) /\ wire \in Seq(Bytes)
      /\ writes # <<>> => Len(writes) = 1 /\ sendBuffers # <<>>
    BY DEF Inv, QueueInv
<1>2. w = 1 /\ Len(writes) = 1 /\ sendBuffers # <<>> /\ writes # <<>>
    BY <1>1
<1>3. writes[w] = out
    BY <1>2 DEF WireInv, cbuffer, Unsent
<1>4. n \in 0..Len(out) /\ wire' = wire \o taken /\ accepted' = accepted
    BY <1>3 DEF onSend, Written
<1>5. h \in SendBuffer /\ rest \in Seq(SendBuffer) /\ sendBuffers' = advanced(n)
    BY <1>1, <1>2 DEF onSend
<1>6. out \in Seq(Bytes) /\ taken \in Seq(Bytes) /\ wire \o taken \in Seq(Bytes)
    BY <1>1, <1>4, <1>5, UnsentType
<1>7. accepted = Queued(wire \o out, rest)
    BY <1>1, <1>2, QueuedFront DEF WireInv
<1>8. h.data \in Seq(Bytes) /\ h.pos \in Nat /\ Len(h.data) \in Nat
    BY <1>5 DEF SendBuffer
<1>9. /\ front \in SendBuffer /\ front.pos = h.pos + n /\ front.data = h.data
    <2> HIDE DEF h
    <2>1. h.pos + n \in Nat
        BY <1>8
    <2>2. ASSUME NEW p \in Nat
          PROVE  /\ [h EXCEPT !.pos = p] \in SendBuffer /\ [h EXCEPT !.pos = p].pos = p
                 /\ [h EXCEPT !.pos = p].data = h.data
        BY ZenonT(30), <1>5 DEF SendBuffer
    <2> QED BY <2>1, <2>2
<1>10. out = SubSeq(h.data, h.pos + 1, Len(h.data))
    BY DEF Unsent
<1>11. Len(out) = IF h.pos < Len(h.data) THEN Len(h.data) - h.pos ELSE 0
    BY <1>8, <1>10
<1>12. sendBuffers' = IF h.pos + n >= Len(h.data) THEN rest ELSE <<front>> \o rest
    BY <1>5, <1>9 DEF advanced
<1> HIDE DEF h, out, front, rest
<1>13. accepted' = Queued(wire', sendBuffers')
    <2>1. CASE h.pos + n >= Len(h.data)
        <3>1. n = Len(out)
            BY <1>4, <1>8, <1>11, <2>1
        <3>2. taken = out
            BY <1>6, <3>1
        <3> QED BY ZenonT(30), <1>4, <1>7, <1>12, <2>1, <3>2
    <2>2. CASE ~(h.pos + n >= Len(h.data))
        <3> DEFINE later == Unsent(front)
        <3>1. later = SubSeq(h.data, h.pos + n + 1, Len(h.data))
            BY <1>9 DEF Unsent
        <3>2. taken = SubSeq(h.data, h.pos + 1, h.pos + n)
            <4>1. h.pos + 1 \in 1..Len(h.data) /\ Len(h.data) - (h.pos + 1) + 1 = Len(out)
                BY SMTT(60), <1>4, <1>8, <1>11, <2>2
            <4>2. CASE n = 0
                <5>1. taken = <<>>
                    BY <1>6, <4>2, SubSeqEmpty
                <5>2. SubSeq(h.data, h.pos + 1, h.pos + n) = <<>>
                    BY <1>8, <4>2, SubSeqEmpty
                <5> QED BY ZenonT(30), <5>1, <5>2
            <4>3. CASE n # 0
                <5>1. 1 \in 1..Len(out) /\ n \in 1..Len(out)
                    BY <1>4, <4>3
                <5>2. h.pos + 1 \in Int /\ n \in 1..Len(h.data) - (h.pos + 1) + 1
                         /\ h.pos + 1 + n - 1 = h.pos + n
                    BY <1>8, <4>1, <5>1
                <5>3. SubSeq(SubSeq(h.data, h.pos + 1, Len(h.data)), 1, n)
                         = SubSeq(h.data, h.pos + 1, h.pos + 1 + n - 1)
                    BY ZenonT(30), <1>8, <4>1, <5>2, StartOfRest
                <5> QED BY ZenonT(30), <1>10, <5>2, <5>3
            <4> QED BY ZenonT(30), <4>2, <4>3
        <3>3. out = taken \o later
            <4>1. /\ h.pos + 1 \in 1..Len(h.data) + 1
                  /\ h.pos + n \in (h.pos + 1) - 1..Len(h.data)
                  /\ Len(h.data) \in h.pos + n..Len(h.data)
                BY <1>8, <2>2
            <4>2. SubSeq(h.data, h.pos + 1, h.pos + n) \o SubSeq(h.data, h.pos + n + 1, Len(h.data))
                     = SubSeq(h.data, h.pos + 1, Len(h.data))
                BY ZenonT(30), <1>8, <4>1, ConcatAdjacentSubSeq
            <4> QED BY ZenonT(30), <1>10, <3>1, <3>2, <4>2
        <3> HIDE DEF later
        <3>4. later \in Seq(Bytes)
            BY <1>9, UnsentType DEF later
        <3> DEFINE q == <<front>> \o rest
        <3>5. q \in Seq(SendBuffer) /\ q # <<>> /\ Head(q) = front /\ Tail(q) = rest
            <4>1. <<front>> \in Seq(SendBuffer) /\ Len(<<front>>) = 1 /\ <<front>>[1] = front
                BY <1>9
            <4>2. q \in Seq(SendBuffer) /\ Len(q) = 1 + Len(rest) /\ q[1] = front
                     /\ \A i \in 1..Len(rest) : q[1 + i] = rest[i]
                BY <1>5, <4>1
            <4>3. Len(<<>>) = 0 /\ Len(rest) \in Nat
                BY <1>5
            <4> HIDE DEF q
            <4>4. q # <<>> /\ Head(q) = front
                BY <4>2, <4>3
            <4>5. Tail(q) \in Seq(SendBuffer) /\ Len(Tail(q)) = Len(rest)
                     /\ \A i \in 1..Len(rest) : Tail(q)[i] = q[i + 1]
                BY <4>2, <4>3, <4>4
            <4>6. Tail(q) = rest
                <5>1. \A i \in 1..Len(rest) : 1 + i = i + 1
                    BY <4>3
                <5> QED BY <1>5, <4>2, <4>5, <5>1, SeqEqual
            <4> QED BY <4>2, <4>4, <4>6
        <3>6. Queued(wire', q) = Queued((wire \o taken) \o later, rest)
            BY ZenonT(30), <1>4, <1>6, <3>5, QueuedFront DEF later
        <3>7. (wire \o taken) \o later = wire \o (taken \o later)
            <4>1. wire \in Seq(Bytes) /\ taken \in Seq(Bytes)
                BY <1>1, <1>6
            <4> HIDE DEF taken
            <4> QED BY <3>4, <4>1, ConcatAssociative
        <3> QED BY ZenonT(30), <1>4, <1>7, <1>12, <2>2, <3>3, <3>6, <3>7
    <2> QED BY <2>1, <2>2
<1>14. ASSUME writes' # <<>> PROVE writes'[1] = cbuffer(Head(sendBuffers'))
    <2>1. WithoutWrite(w) = <<>>
        BY <1>1, <1>2 DEF WithoutWrite
    <2>2. writes' = <<cbuffer(Head(advanced(n)))>>
        BY <1>14, <2>1 DEF onSend
    <2> QED BY <1>5, <2>2
<1> QED BY <1>13, <1>14 DEF WireInv

-----------------------------------------------------------------------------
(* byte b may follow those accepted so far *)
Continues(acc, b) ==
    IF b[2] = 1
      THEN acc # <<>> => acc[Len(acc)][1] < b[1]
      ELSE acc # <<>> /\ acc[Len(acc)] = <<b[1], b[2] - 1>>

(* bytes of one message, without a gap *)
Run(data) ==
    \A i \in 1..Len(data) : /\ data[i][2] >= 1
                            /\ i > 1 => data[i] = <<data[i - 1][1], data[i - 1][2] + 1>>

(* What is accepted are prefixes of messages up to the current one.  What  *)
(* send() has still to copy is the rest of that message, and follows what  *)
(* was accepted of it unless the high water mark has cut it: that mark is  *)
(* then exceeded until send() returns.                                     *)
CopyInv ==
    /\ PrefixesOnly(accepted)
    /\ accepted # <<>> => accepted[Len(accepted)][1] <= messages
    /\ Run(copying)
    /\ copying # <<>> => /\ copying[1][1] = messages
                         /\ exceededHighWaterMark \/ Continues(accepted, copying[1])

(* The last element of a concatenation. *)
LEMMA LastOfConcat ==
    ASSUME NEW S, NEW s \in Seq(S), NEW t \in Seq(S), t # <<>>
    PROVE  s \o t # <<>> /\ (s \o t)[Len(s \o t)] = t[Len(t)]
<1>1. Len(s) \in Nat /\ Len(t) \in Nat \ {0}
    BY EmptySeq
<1>2. Len(s \o t) = Len(s) + Len(t) /\ \A i \in 1..Len(s) + Len(t) :
          (s \o t)[i] = IF i <= Len(s) THEN s[i] ELSE t[i - Len(s)]
    BY ConcatProperties
<1>3. Len(<<>>) = 0
    OBVIOUS
<1>4. Len(s) + Len(t) \in 1..Len(s) + Len(t) /\ ~(Len(s) + Len(t) <= Len(s))
         /\ (Len(s) + Len(t)) - Len(s) = Len(t)
    BY <1>1
<1> QED BY <1>1, <1>2, <1>3, <1>4

(* What is queued extends a prefix, or begins the prefix of a later        *)
(* message.                                                                *)
LEMMA PrefixesExtend ==
    ASSUME NEW acc \in Seq(Bytes), NEW data \in Seq(Bytes), PrefixesOnly(acc), Run(data),
           data # <<>> => Continues(acc, data[1])
    PROVE  PrefixesOnly(acc \o data)
<1> DEFINE all == acc \o data
           n == Len(acc)
<1>1. n \in Nat /\ Len(data) \in Nat /\ DOMAIN acc = 1..n
    OBVIOUS
<1>2. /\ all \in Seq(Bytes) /\ Len(all) = n + Len(data)
      /\ \A i \in 1..n + Len(data) : all[i] = IF i <= n THEN acc[i] ELSE data[i - n]
    BY ConcatProperties
<1> HIDE DEF all, n
<1>3. DOMAIN all = 1..n + Len(data)
    BY <1>2
<1>4. ASSUME NEW i \in 1..n + Len(data)
      PROVE  IF all[i][2] = 1
               THEN i > 1 => all[i - 1][1] < all[i][1]
               ELSE i > 1 /\ all[i - 1] = <<all[i][1], all[i][2] - 1>>
    <2>1. CASE i <= n
        <3>1. i \in 1..n /\ all[i] = acc[i] /\ (i > 1 => all[i - 1] = acc[i - 1])
            BY <1>1, <1>2, <2>1
        <3> QED BY <1>1, <3>1 DEF PrefixesOnly
    <2>2. CASE i = n + 1
        <3>1. 1 \in 1..Len(data) /\ i - n = 1 /\ ~(i <= n)
            BY <1>1, <2>2
        <3>2. data # <<>>
            BY <3>1
        <3>3. all[i] = data[1] /\ (i > 1 => acc # <<>> /\ all[i - 1] = acc[n])
            <4>1. all[i] = data[1]
                BY <1>2, <3>1
            <4>2. ASSUME i > 1 PROVE acc # <<>> /\ all[i - 1] = acc[n]
                <5>1. i - 1 = n /\ n \in 1..n + Len(data) /\ n <= n /\ n # 0
                    BY <1>1, <2>2, <4>2
                <5>2. all[n] = acc[n]
                    BY <1>2, <5>1
                <5> QED BY <5>1, <5>2 DEF n
            <4> QED BY <4>1, <4>2
        <3>4. acc # <<>> => i > 1
            <4>1. acc # <<>> => n # 0
                BY <1>1 DEF n
            <4> QED BY <1>1, <2>2, <4>1
        <3> QED BY <3>2, <3>3, <3>4 DEF Continues, n
    <2>3. CASE i > n + 1
        <3> DEFINE j == i - n
        <3>1. j \in 1..Len(data) /\ j > 1 /\ j - 1 = (i - 1) - n /\ j - 1 \in 1..Len(data)
                 /\ i > 1 /\ ~(i <= n) /\ ~(i - 1 <= n) /\ i - 1 \in 1..n + Len(data)
            BY <1>1, <2>3
        <3>2. all[i] = data[j] /\ all[i - 1] = data[j - 1]
            BY <1>2, <3>1
        <3> HIDE DEF j
        <3>3. data[j] = <<data[j - 1][1], data[j - 1][2] + 1>> /\ data[j - 1][2] >= 1
            BY <3>1 DEF Run
        <3>4. data[j - 1] \in Bytes
            BY <3>1
        <3>5. \A b \in Bytes : b = <<b[1], b[2]>> /\ b[2] \in Nat
            BY DEF Bytes
        <3>6. data[j][1] = data[j - 1][1] /\ data[j][2] = data[j - 1][2] + 1
            BY <3>3
        <3>7. data[j][2] # 1 /\ data[j][2] - 1 = data[j - 1][2]
            <4>1. data[j - 1][2] \in Nat
                BY <3>4, <3>5
            <4>2. ASSUME NEW a \in Nat, a >= 1 PROVE a + 1 # 1 /\ (a + 1) - 1 = a
                BY <4>2
            <4> QED BY <3>3, <3>6, <4>1, <4>2
        <3>8. data[j - 1] = <<data[j][1], data[j][2] - 1>>
            BY ZenonT(30), <3>4, <3>5, <3>6, <3>7
        <3> QED BY <3>1, <3>2, <3>7, <3>8
    <2> QED BY <1>1, <2>1, <2>2, <2>3
<1>5. PrefixesOnly(all)
    BY <1>3, <1>4 DEF PrefixesOnly
<1> QED BY <1>5 DEF all

(* A message is a run from its first byte. *)
LEMMA MessageRuns ==
    ASSUME NEW size \in Nat, messages \in Nat
    PROVE  /\ Run(Message(size))
           /\ Message(size) # <<>> =>
                  /\ Message(size)[1] = <<messages + 1, 1>>
                  /\ Message(size)[Len(Message(size))][1] = messages + 1
<1> DEFINE m == Message(size)
<1>1. Len(m) = size /\ \A i \in 1..size : m[i] = <<messages + 1, i>>
    BY DEF Message
<1> HIDE DEF m
<1>2. ASSUME NEW i \in 1..size
      PROVE  m[i][2] >= 1 /\ (i > 1 => m[i] = <<m[i - 1][1], m[i - 1][2] + 1>>)
    <2>1. m[i] = <<messages + 1, i>> /\ m[i][2] = i
        BY <1>1
    <2>2. ASSUME i > 1 PROVE m[i] = <<m[i - 1][1], m[i - 1][2] + 1>>
        <3>1. i - 1 \in 1..size /\ (i - 1) + 1 = i
            BY <2>2
        <3>2. m[i - 1] = <<messages + 1, i - 1>>
            BY <1>1, <3>1
        <3> QED BY <2>1, <3>1, <3>2
    <2> QED BY <2>1, <2>2
<1>3. Run(m)
    BY <1>1, <1>2 DEF Run
<1>4. ASSUME m # <<>> PROVE m[1] = <<messages + 1, 1>> /\ m[Len(m)][1] = messages + 1
    <2>1. size # 0
        <3>1. CASE size = 0
            <4>1. m = <<>>
                BY <3>1 DEF m, Message
            <4> QED BY <1>4, <4>1
        <3> QED BY <3>1
    <2>2. 1 \in 1..size /\ size \in 1..size
        BY <2>1
    <2> QED BY <1>1, <2>2
<1> QED BY <1>3, <1>4 DEF m

(* Steps that leave the bytes and the mark alone, or copy nothing. *)
LEMMA CopySame ==
    ASSUME CopyInv, UNCHANGED <<accepted, copying, messages>>,
           copying # <<>> => UNCHANGED <<sendBuffers, highWaterMark>>
    PROVE  CopyInv'
<1>1. copying # <<>> => (exceededHighWaterMark' <=> exceededHighWaterMark)
    BY DEF exceededHighWaterMark
<1> QED BY <1>1 DEF CopyInv

(* send(): what it has to copy begins a new message. *)
LEMMA SendCopies ==
    ASSUME Inv, CopyInv, NEW size \in Sizes, send(size)
    PROVE  CopyInv'
<1>1. size \in Nat /\ messages \in Nat /\ accepted \in Seq(Bytes)
    BY DeviceAssumption DEF Inv, ReadInv, QueueInv
<1>2. /\ messages' = messages + 1 /\ accepted' = accepted
      /\ copying' \in {<<>>, Message(size)}
    BY DEF send, nothingPushed
<1>3. /\ Run(Message(size))
      /\ Message(size) # <<>> => Message(size)[1] = <<messages + 1, 1>>
    BY <1>1, MessageRuns
<1>4. Run(<<>>)
    BY DEF Run
<1>5. accepted # <<>> => accepted[Len(accepted)][1] \in Nat
    <2>1. ASSUME accepted # <<>> PROVE accepted[Len(accepted)] \in Bytes
        <3>1. Len(accepted) \in 1..Len(accepted)
            BY <1>1, <2>1
        <3> QED BY <1>1, <3>1
    <2> QED BY <2>1, DeviceAssumption DEF Bytes
<1>6. accepted # <<>> => /\ accepted[Len(accepted)][1] <= messages + 1
                        /\ accepted[Len(accepted)][1] < messages + 1
    BY <1>1, <1>5 DEF CopyInv
<1>7. ASSUME copying' # <<>>
      PROVE  copying'[1][1] = messages' /\ Continues(accepted', copying'[1])
    <2>1. copying'[1] = <<messages + 1, 1>>
        BY <1>2, <1>3, <1>7
    <2> QED BY <1>2, <1>6, <2>1 DEF Continues
<1>8. Run(copying')
    BY <1>2, <1>3, <1>4
<1> QED BY <1>2, <1>6, <1>7, <1>8 DEF CopyInv

(* send(copy): a whole message, or nothing of it. *)
LEMMA SendCopyCopies ==
    ASSUME Inv, CopyInv, NEW size \in Sizes, sendCopy(size)
    PROVE  CopyInv'
<1> DEFINE m == Message(size)
           last == accepted[Len(accepted)][1]
<1>1. size \in Nat /\ messages \in Nat /\ accepted \in Seq(Bytes) /\ messages < MaxMessages
    BY DeviceAssumption DEF Inv, ReadInv, QueueInv, sendCopy
<1>2. /\ messages' = messages + 1 /\ copying = <<>> /\ copying' = <<>>
      /\ accepted' = accepted \/ accepted' = accepted \o m
    BY DEF sendCopy, push, nothingPushed
<1>3. m \in Seq(Bytes) /\ Run(m)
    <2>1. m \in Seq(Bytes)
        BY <1>1, DeviceAssumption DEF Message, Bytes
    <2> QED BY <1>1, <2>1, MessageRuns
<1>4. m # <<>> => m[1] = <<messages + 1, 1>> /\ m[Len(m)][1] = messages + 1
    BY <1>1, MessageRuns
<1> HIDE DEF m
<1>5. accepted # <<>> => last \in Nat
    <2>1. ASSUME accepted # <<>> PROVE accepted[Len(accepted)] \in Bytes
        <3>1. Len(accepted) \in 1..Len(accepted)
            BY <1>1, <2>1
        <3> QED BY <1>1, <3>1
    <2> QED BY <2>1, DeviceAssumption DEF Bytes
<1>6. accepted # <<>> => last <= messages + 1 /\ last < messages + 1
    BY <1>1, <1>5 DEF CopyInv
<1>7. m # <<>> => Continues(accepted, m[1])
    BY <1>4, <1>6 DEF Continues
<1>8. PrefixesOnly(accepted')
    BY ZenonT(30), <1>1, <1>2, <1>3, <1>7, PrefixesExtend DEF CopyInv
<1>9. accepted' # <<>> => accepted'[Len(accepted')][1] <= messages'
    <2>1. CASE accepted' = accepted
        BY <1>2, <1>6, <2>1
    <2>2. CASE accepted' = accepted \o m
        <3>1. CASE m = <<>>
            <4>1. accepted' = accepted
                BY <1>1, <2>2, <3>1, ConcatEmptySeq
            <4> QED BY <1>2, <1>6, <4>1
        <3>2. CASE m # <<>>
            <4>1. accepted'[Len(accepted')] = m[Len(m)]
                BY <1>1, <1>3, <2>2, <3>2, LastOfConcat
            <4> QED BY <1>1, <1>2, <1>4, <3>2, <4>1
        <3> QED BY <3>1, <3>2
    <2> QED BY <1>2, <2>1, <2>2
<1>10. Run(copying')
    BY <1>2 DEF Run
<1> QED BY <1>2, <1>8, <1>9, <1>10 DEF CopyInv

(* The beginning and the rest of a run, cut after its k-th byte. *)
LEMMA RunCut ==
    ASSUME NEW data \in Seq(Bytes), Run(data), NEW k \in 1..Len(data)
    PROVE  LET piece == SubSeq(data, 1, k)
               rest  == SubSeq(data, k + 1, Len(data))
           IN  /\ piece \in Seq(Bytes) /\ piece # <<>> /\ Run(piece)
               /\ piece[1] = data[1] /\ piece[Len(piece)] = data[k]
               /\ data[k][1] = data[1][1]
               /\ Run(rest)
               /\ rest # <<>> => /\ rest[1][1] = data[1][1]
                                /\ Continues(piece, rest[1])
<1> DEFINE piece == SubSeq(data, 1, k)
           rest  == SubSeq(data, k + 1, Len(data))
           n == Len(data)
<1>1. n \in Nat /\ k \in Nat /\ 1 <= k /\ k <= n
    OBVIOUS
<1>2. /\ piece \in Seq(Bytes) /\ Len(piece) = k
      /\ \A i \in 1..k : piece[i] = data[i]
    BY <1>1, SubSeqProperties
<1>3. /\ rest \in Seq(Bytes) /\ Len(rest) = n - k
      /\ \A i \in 1..(n - k) : rest[i] = data[k + i]
    <2>1. CASE k = n
        <3>1. k + 1 > n
            BY <1>1, <2>1
        <3>2. rest = <<>>
            BY <1>1, <3>1, SubSeqEmpty
        <3>3. <<>> \in Seq(Bytes) /\ Len(<<>>) = 0 /\ n - k = 0
            BY <1>1, <2>1
        <3> QED BY <3>2, <3>3
    <2>2. CASE k # n
        <3>1. k + 1 \in 1..n + 1 /\ n \in k..n /\ k + 1 <= n + 1
            BY <1>1
        <3>2. /\ rest \in Seq(Bytes) /\ Len(rest) = n - k
              BY <1>1, <2>2, SubSeqProperties
        <3>3. ASSUME NEW i \in 1..(n - k) PROVE rest[i] = data[k + i]
            BY <1>1, <2>2, SubSeqProperties
        <3> QED BY <3>2, <3>3
    <2> QED BY <2>1, <2>2
<1>4. \A i \in 1..n : /\ data[i] \in Bytes /\ data[i][2] \in Nat /\ data[i][2] >= 1
                      /\ i > 1 => data[i] = <<data[i - 1][1], data[i - 1][2] + 1>>
    <2>1. \A i \in 1..n : data[i] \in Bytes
        BY <1>1
    <2>2. \A b \in Bytes : b[2] \in Nat
        BY DEF Bytes
    <2>3. \A i \in 1..n : /\ data[i][2] >= 1
                          /\ i > 1 => data[i] = <<data[i - 1][1], data[i - 1][2] + 1>>
        BY DEF Run
    <2> HIDE DEF n
    <2> QED BY <2>1, <2>2, <2>3
<1>5. \A i \in 1..n : data[i][1] = data[1][1]
    <2> DEFINE S == {i \in Nat : i + 1 <= n => data[i + 1][1] = data[1][1]}
    <2>1. 0 \in S
        OBVIOUS
    <2>2. ASSUME NEW i \in S PROVE i + 1 \in S
        <3>1. i \in Nat /\ i + 1 \in Nat
            OBVIOUS
        <3>2. ASSUME (i + 1) + 1 <= n PROVE data[(i + 1) + 1][1] = data[1][1]
            <4>1. (i + 1) + 1 \in 1..n /\ (i + 1) + 1 > 1 /\ ((i + 1) + 1) - 1 = i + 1 /\ i + 1 <= n
                BY <1>1, <3>1, <3>2
            <4>2. data[(i + 1) + 1][1] = data[i + 1][1]
                BY <1>4, <4>1
            <4> QED BY <4>1, <4>2
        <3> QED BY <3>1, <3>2
    <2>3. S \in SUBSET Nat
        OBVIOUS
    <2>4. \A i \in S : i + 1 <= n => data[i + 1][1] = data[1][1]
        OBVIOUS
    <2> HIDE DEF S
    <2>5. \A i \in Nat : i \in S
        BY <2>1, <2>2, <2>3, SetInduction
    <2>6. ASSUME NEW i \in 1..n PROVE data[i][1] = data[1][1]
        <3>1. i - 1 \in Nat /\ (i - 1) + 1 = i /\ i <= n
            BY <1>1
        <3>2. (i - 1) + 1 <= n => data[(i - 1) + 1][1] = data[1][1]
            BY <2>4, <2>5, <3>1
        <3> QED BY <3>1, <3>2
    <2> QED BY <2>6
<1> HIDE DEF piece, rest
<1>6. piece # <<>> /\ piece[1] = data[1] /\ piece[Len(piece)] = data[k]
    BY <1>1, <1>2
<1>7. ASSUME NEW i \in 1..k
      PROVE  piece[i][2] >= 1 /\ (i > 1 => piece[i] = <<piece[i - 1][1], piece[i - 1][2] + 1>>)
    <2>1. i \in 1..n /\ piece[i] = data[i] /\ (i > 1 => piece[i - 1] = data[i - 1])
        BY <1>1, <1>2
    <2> QED BY <1>4, <2>1
<1>8. ASSUME NEW i \in 1..(n - k)
      PROVE  rest[i][2] >= 1 /\ (i > 1 => rest[i] = <<rest[i - 1][1], rest[i - 1][2] + 1>>)
    <2>1. k + i \in 1..n /\ k + i > 1 /\ rest[i] = data[k + i]
        BY <1>1, <1>3
    <2>2. ASSUME i > 1 PROVE rest[i - 1] = data[(k + i) - 1]
        <3>1. i - 1 \in 1..(n - k) /\ k + (i - 1) = (k + i) - 1
            BY <1>1, <2>2
        <3> QED BY <1>3, <3>1
    <2> QED BY <1>4, <2>1, <2>2
<1>9. ASSUME rest # <<>> PROVE rest[1][1] = data[1][1] /\ Continues(piece, rest[1])
    <2>1. 1 \in 1..(n - k) /\ k + 1 \in 1..n /\ k + 1 > 1 /\ (k + 1) - 1 = k /\ k \in 1..n
        <3>1. n - k # 0
            BY <1>1, <1>3, <1>9, EmptySeq
        <3> QED BY <1>1, <3>1
    <2>2. rest[1] = data[k + 1] /\ data[k + 1] = <<data[k][1], data[k][2] + 1>>
        BY <1>3, <1>4, <2>1
    <2>3. data[k][2] \in Nat /\ data[k][2] >= 1 /\ data[k] = <<data[k][1], data[k][2]>>
        <3>1. data[k] \in Bytes /\ data[k][2] \in Nat /\ data[k][2] >= 1
            BY <1>4, <2>1
        <3>2. \A b \in Bytes : b = <<b[1], b[2]>>
            BY DEF Bytes
        <3> QED BY <3>1, <3>2
    <2>4. rest[1][1] = data[k][1] /\ rest[1][2] = data[k][2] + 1
        BY <2>2
    <2>5. rest[1][2] # 1 /\ rest[1][2] - 1 = data[k][2]
        <3>1. ASSUME NEW a \in Nat, a >= 1 PROVE a + 1 # 1 /\ (a + 1) - 1 = a
            BY <3>1
        <3> QED BY <2>3, <2>4, <3>1
    <2>6. Continues(piece, rest[1])
        BY <1>6, <2>3, <2>4, <2>5 DEF Continues
    <2> QED BY <1>5, <2>1, <2>4, <2>6
<1>10. Run(piece) /\ Run(rest)
    BY <1>2, <1>3, <1>7, <1>8 DEF Run
<1>11. k \in 1..n /\ data[k][1] = data[1][1]
    BY <1>1, <1>5
<1> QED BY ZenonT(30), <1>2, <1>6, <1>9, <1>10, <1>11 DEF piece, rest

(* One turn of the loop of send(). *)
LEMMA SendPieceCopies ==
    ASSUME Inv, CopyInv, sendPiece
    PROVE  CopyInv'
<1> DEFINE k == Piece
           piece == SubSeq(copying, 1, k)
           rest == SubSeq(copying, k + 1, Len(copying))
<1>1. /\ copying \in Seq(Bytes) /\ accepted \in Seq(Bytes) /\ copying # <<>>
      /\ BufferSize \in Nat \ {0} /\ messages \in Nat
    BY DeviceAssumption DEF Inv, ReadInv, QueueInv, sendPiece
<1>2. Len(copying) \in Nat \ {0}
    BY <1>1, EmptySeq
<1>3. k \in 1..Len(copying) /\ (k = BufferSize \/ (k = Len(copying) /\ ~(Len(copying) > BufferSize)))
    BY <1>1, <1>2 DEF Piece
<1>4. copying' = rest
    <2>1. CASE k = BufferSize
        BY <2>1 DEF sendPiece
    <2>2. CASE k = Len(copying) /\ ~(Len(copying) > BufferSize)
        <3>1. k + 1 > Len(copying) /\ BufferSize + 1 > Len(copying) /\ k + 1 \in Nat /\ BufferSize + 1 \in Nat
            BY <1>1, <1>2, <2>2
        <3>2. rest = <<>> /\ SubSeq(copying, BufferSize + 1, Len(copying)) = <<>>
            BY <1>1, <1>2, <3>1, SubSeqEmpty
        <3> QED BY ZenonT(30), <3>2 DEF sendPiece
    <2> QED BY <1>3, <2>1, <2>2
<1>5. Run(copying) /\ copying[1][1] = messages
    BY <1>1 DEF CopyInv
<1> HIDE DEF k
<1>6. /\ piece \in Seq(Bytes) /\ piece # <<>> /\ Run(piece)
      /\ piece[1] = copying[1] /\ piece[Len(piece)] = copying[k]
      /\ copying[k][1] = copying[1][1]
      /\ Run(rest)
      /\ rest # <<>> => rest[1][1] = copying[1][1] /\ Continues(piece, rest[1])
    BY ZenonT(30), <1>1, <1>3, <1>5, RunCut
<1> HIDE DEF piece, rest
<1>7. messages' = messages /\ highWaterMark' = highWaterMark
    BY DEF sendPiece
<1>8. CASE exceededHighWaterMark
    <2>1. accepted' = accepted /\ sendBuffers' = sendBuffers
        BY <1>8 DEF sendPiece, nothingPushed
    <2>2. exceededHighWaterMark'
        BY <1>7, <1>8, <2>1 DEF exceededHighWaterMark
    <2> QED BY <1>4, <1>5, <1>6, <1>7, <2>1, <2>2 DEF CopyInv
<1>9. CASE ~exceededHighWaterMark
    <2>1. accepted' = accepted \o piece
        BY ZenonT(30), <1>9 DEF sendPiece, push, piece, k
    <2>2. Continues(accepted, piece[1])
        BY <1>1, <1>6, <1>9 DEF CopyInv
    <2>3. PrefixesOnly(accepted')
        BY <1>1, <1>6, <2>1, <2>2, PrefixesExtend DEF CopyInv
    <2>4. accepted' # <<>> /\ accepted'[Len(accepted')] = piece[Len(piece)]
        BY <1>1, <1>6, <2>1, LastOfConcat
    <2>5. accepted'[Len(accepted')][1] <= messages'
        BY <1>1, <1>5, <1>6, <1>7, <2>4
    <2>6. rest # <<>> => Continues(accepted', rest[1])
        BY <1>6, <2>4 DEF Continues
    <2> QED BY <1>4, <1>5, <1>6, <1>7, <2>3, <2>5, <2>6 DEF CopyInv
<1> QED BY <1>8, <1>9

(* At first nothing was accepted. *)
LEMMA InitWire == Init => WireInv /\ CopyInv
<1> SUFFICES ASSUME Init PROVE WireInv /\ CopyInv
    OBVIOUS
<1>1. accepted = <<>> /\ wire = <<>> /\ sendBuffers = <<>> /\ writes = <<>> /\ copying = <<>>
    BY DEF Init, DeviceInit
<1>2. <<>> \in Seq(Bytes)
    OBVIOUS
<1>3. WireInv
    BY ZenonT(30), <1>1, <1>2, QueuedNothing DEF WireInv
<1>4. CopyInv
    BY <1>1 DEF CopyInv, PrefixesOnly, Run
<1> QED BY <1>3, <1>4

(* The invariants of the bytes are kept by every step. *)
LEMMA NextWire == Inv /\ WireInv /\ CopyInv /\ [Next]_vars => WireInv' /\ CopyInv'
<1> SUFFICES ASSUME Inv, WireInv, CopyInv, [Next]_vars PROVE WireInv' /\ CopyInv'
    OBVIOUS
<1>1. ASSUME UNCHANGED <<accepted, wire, sendBuffers, writes>> PROVE WireInv'
    BY <1>1 DEF WireInv
<1>2. ASSUME UNCHANGED deviceVars PROVE WireInv' /\ CopyInv'
    BY <1>2, <1>1, CopySame DEF deviceVars
<1>3. ASSUME NEW size \in Sizes, send(size) PROVE WireInv' /\ CopyInv'
    BY <1>3, <1>1, SendCopies DEF send, nothingPushed
<1>4. ASSUME NEW size \in Sizes, sendCopy(size) PROVE WireInv' /\ CopyInv'
    <2>1. size \in Nat /\ messages \in Nat /\ messages < MaxMessages
        BY <1>4, DeviceAssumption DEF Inv, ReadInv, sendCopy
    <2>2. Message(size) \in Seq(Bytes)
        BY <2>1, DeviceAssumption DEF Message, Bytes
    <2>3. wire' = wire /\ (nothingPushed \/ push(Message(size)))
        BY <1>4 DEF sendCopy
    <2>4. WireInv'
        BY <1>1, <2>2, <2>3, PushWire DEF nothingPushed
    <2> QED BY <1>4, <2>4, SendCopyCopies
<1>5. ASSUME NEW hwm \in HighWaterMarks, sendHighWaterMark(hwm) PROVE WireInv' /\ CopyInv'
    BY <1>5, <1>1, CopySame DEF sendHighWaterMark, nothingPushed
<1>6. ASSUME sendPiece PROVE WireInv' /\ CopyInv'
    <2> DEFINE piece == SubSeq(copying, 1, Piece)
    <2>1. piece \in Seq(Bytes)
        <3>1. copying \in Seq(Bytes) /\ Len(copying) \in Nat /\ Piece \in 0..Len(copying)
            BY DeviceAssumption DEF Inv, ReadInv, Piece
        <3> QED BY <3>1, SubSeqProperties
    <2>2. wire' = wire /\ (nothingPushed \/ push(piece))
        BY <1>6 DEF sendPiece
    <2>3. WireInv'
        BY ZenonT(30), <1>1, <2>1, <2>2, PushWire DEF nothingPushed
    <2> QED BY <1>6, <2>3, SendPieceCopies
<1>7. ASSUME NEW w \in DOMAIN writes, NEW n \in 0..BufferSize, onSend(w, n)
      PROVE  WireInv' /\ CopyInv'
    <2>1. n \in Nat
        BY DeviceAssumption
    <2>2. WireInv'
        BY <1>7, <2>1, WrittenWire
    <2> QED BY <1>7, <2>2, CopySame DEF onSend
<1>8. ASSUME NEW w \in DOMAIN writes, onSendError(w) PROVE WireInv' /\ CopyInv'
    <2>1. writes \in Seq(Seq(Bytes)) /\ Len(writes) = 1
        BY <1>8 DEF Inv, QueueInv
    <2>2. w = 1
        BY <2>1
    <2>3. writes' = <<>>
        BY <1>8, <2>1, <2>2 DEF onSendError, WithoutWrite
    <2>4. WireInv'
        BY <1>8, <2>3 DEF WireInv, onSendError
    <2> QED BY <1>8, <2>4, CopySame DEF onSendError
<1>9. ASSUME ReadCompletes \/ onReceive PROVE WireInv' /\ CopyInv'
    BY <1>9, <1>1, CopySame DEF ReadCompletes, onReceive
<1>10. CASE Next
    BY <1>2, <1>3, <1>4, <1>5, <1>6, <1>7, <1>8, <1>9, <1>10
       DEF Next, Serial, Network, Udp, Sends, Completes, Fails
<1>11. CASE UNCHANGED vars
    BY <1>2, <1>11 DEF vars
<1> QED BY <1>10, <1>11

(* What the port has taken and what is queued are together what send() has *)
(* accepted, in order, for any pool, any sizes of messages and any way the *)
(* port splits and fails writes; and what is accepted of a message is a    *)
(* prefix of it.                                                           *)
THEOREM DevicesWireInOrder == Spec => []WireInOrder
<1>1. WireInv /\ CopyInv => WireInOrder
    BY DEF WireInv, CopyInv, WireInOrder, Queued
<1> QED BY <1>1, InitWire, NextWire, DevicesInvariant, PTL DEF Spec
=============================================================================
