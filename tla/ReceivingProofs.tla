--------------------------- MODULE ReceivingProofs --------------------------
(***************************************************************************)
(* Proofs about what the subscriber of Messages receives, for any builders,*)
(* buffers, types, raw buffers, filters and marks.                         *)
(***************************************************************************)
EXTENDS MessagesProofs

(* The parts of a message that are not empty: the id, the body and those   *)
(* of the raw buffers.                                                     *)
LEMMA PartsKept ==
    ASSUME NEW m \in Sent
    PROVE  LET t == NotEmpty(PartsOf(m))
               u == NotEmpty(m.raw)
           IN  /\ Len(u) \in Nat /\ Len(t) = Len(u) + 2 /\ u = [i \in 1..Len(u) |-> u[i]]
               /\ t[1] = <<m.id>> /\ t[2] = body(m.segments)
               /\ \A i \in 1..Len(u) : t[i + 2] = u[i]
<1> DEFINE p == PartsOf(m)
           x == <<m.id>>
           y == body(m.segments)
           raw == m.raw
           q == <<y>> \o raw
<1>1. /\ p \in Seq(Part) /\ Len(p) = Len(raw) + 2 /\ p[1] = x /\ p[2] = y
      /\ x \in Part /\ y \in Part /\ raw \in Seq(Part) /\ x # <<>> /\ y # <<>> /\ Len(raw) \in Nat
    BY PartsType
<1>2. p = <<x, y>> \o raw
    BY DEF PartsOf
<1> HIDE DEF p, x, y, raw, Part
<1>3. /\ <<x, y>> \in Seq(Part) /\ <<x, y>> # <<>> /\ Tail(<<x, y>>) = <<y>>
      /\ <<y>> \in Seq(Part) /\ <<y>> # <<>> /\ Tail(<<y>>) = <<>>
    BY <1>1
<1>4. Tail(p) = q
    <2> DEFINE a == <<x, y>>
               b == <<y>>
    <2>1. a \in Seq(Part) /\ a # <<>> /\ Tail(a) = b /\ p = a \o raw
        BY <1>2, <1>3
    <2> HIDE DEF a
    <2>2. Tail(a \o raw) = Tail(a) \o raw
        BY ONLY <1>1, <2>1, FrontOfConcat
    <2> QED BY ZenonT(30), <2>1, <2>2
<1>5. Tail(q) = raw
    <2> DEFINE b == <<y>>
    <2>1. b \in Seq(Part) /\ b # <<>> /\ Tail(b) = <<>> /\ q = b \o raw
        BY <1>3
    <2> HIDE DEF b, q
    <2>2. Tail(b \o raw) = Tail(b) \o raw /\ <<>> \o raw = raw
        BY ONLY <1>1, <2>1, FrontOfConcat, ConcatEmptySeq
    <2> QED BY ZenonT(30), <2>1, <2>2
<1> HIDE DEF q
<1> DEFINE t == NotEmpty(p)
           s == NotEmpty(q)
           u == NotEmpty(raw)
<1>6. p # <<>>
    BY ONLY <1>1
<1>7. /\ q \in Seq(Part) /\ Len(q) = Len(p) - 1 /\ \A i \in 1..Len(p) - 1 : q[i] = p[i + 1]
      /\ Len(t) = Len(s) + 1 /\ t[1] = x /\ \A i \in 1..Len(s) : t[i + 1] = s[i]
    BY ZenonT(30), <1>1, <1>4, <1>6, NotEmptyFirst
<1>8. q # <<>> /\ q[1] = y
    <2>1. Len(q) = Len(raw) + 1 /\ 1 \in 1..Len(p) - 1
        BY <1>1, <1>7
    <2>2. q[1] = p[1 + 1] /\ 1 + 1 = 2
        BY <1>7, <2>1
    <2>3. q # <<>>
        BY ONLY <1>1, <1>7, <2>1
    <2> QED BY <1>1, <2>2, <2>3
<1>9. /\ Len(s) = Len(u) + 1 /\ s[1] = y /\ \A i \in 1..Len(u) : s[i + 1] = u[i]
      /\ u \in Seq(Part)
    BY ZenonT(30), <1>1, <1>5, <1>7, <1>8, NotEmptyFirst
<1> HIDE DEF t, s, u
<1>10. Len(u) \in Nat /\ u = [i \in 1..Len(u) |-> u[i]]
    BY ONLY <1>9
<1>11. Len(t) = Len(u) + 2 /\ t[2] = y
    <2>1. 1 \in 1..Len(s) /\ 1 + 1 = 2 /\ Len(t) = Len(u) + 2
        BY ONLY <1>7, <1>9, <1>10
    <2>2. t[1 + 1] = s[1]
        BY <1>7, <2>1
    <2> QED BY <1>9, <2>1, <2>2
<1>12. ASSUME NEW i \in 1..Len(u) PROVE t[i + 2] = u[i]
    <2>1. i + 1 \in 1..Len(s) /\ (i + 1) + 1 = i + 2
        BY <1>9, <1>10
    <2> QED BY ZenonT(30), <1>7, <1>9, <2>1
<1> QED BY ZenonT(30), <1>7, <1>10, <1>11, <1>12 DEF t, u, p, x, y, raw

(* The handler reads what was sent, less the empty raw buffers. *)
LEMMA ReadIs ==
    ASSUME NEW m \in Sent
    PROVE  read(NotEmpty(PartsOf(m))) = [m EXCEPT !.raw = NotEmpty(m.raw)]
<1> DEFINE t == NotEmpty(PartsOf(m))
           u == NotEmpty(m.raw)
<1>1. /\ Len(u) \in Nat /\ Len(t) = Len(u) + 2 /\ u = [i \in 1..Len(u) |-> u[i]]
      /\ t[1] = <<m.id>> /\ t[2] = body(m.segments) /\ \A i \in 1..Len(u) : t[i + 2] = u[i]
    BY ZenonT(30), PartsKept
<1>2. segmentsOf(body(m.segments)) = m.segments
    BY ReadsBack DEF Sent
<1>3. <<m.id>>[1] = m.id
    OBVIOUS
<1> HIDE DEF t, u
<1>4. Len(t) - 2 = Len(u)
    BY <1>1
<1>5. [pos \in 1..Len(t) - 2 |-> bufferAt(t, pos)] = u
    BY ZenonT(30), <1>1, <1>4 DEF bufferAt
<1>6. read(t) = [id |-> m.id, segments |-> m.segments, raw |-> u]
    BY ZenonT(30), <1>1, <1>2, <1>3, <1>5 DEF read
<1>7. [m EXCEPT !.raw = u] = [id |-> m.id, segments |-> m.segments, raw |-> u]
    <2> DEFINE Q == Seq(Seq(Word))
               R == Seq(Seq(Nat))
    <2>1. m \in [id : Word, segments : Q, raw : R]
        BY DEF Sent
    <2> HIDE DEF Q, R
    <2> QED BY ONLY <2>1
<1> QED BY <1>6, <1>7 DEF t, u

(* What has been received begins as the message does. *)
LEMMA BeginsAs ==
    ASSUME NEW m \in Sent, NEW n \in 0..Len(PartsOf(m)) - 1
    PROVE  LET t == NotEmpty(Beginning(PartsOf(m), n))
           IN  /\ t # <<>> => t[1] = <<m.id>>
               /\ t # <<>> /\ Len(t) > 1 => t[2] = body(m.segments)
<1> DEFINE p == PartsOf(m)
           x == <<m.id>>
           y == body(m.segments)
           b == Beginning(p, n)
           t == NotEmpty(b)
<1>1. /\ p \in Seq(Part) /\ Len(p) = Len(m.raw) + 2 /\ Len(m.raw) \in Nat
      /\ p[1] = x /\ p[2] = y /\ x # <<>> /\ y # <<>>
    BY ZenonT(30), PartsType
<1> HIDE DEF p, x, y, Part
<1>2. b \in Seq(Part) /\ n \in Nat
    BY <1>1, BeginningNext DEF p
<1>3. Len(b) = n /\ \A i \in 1..n : b[i] = p[i]
    BY <1>1, <1>2 DEF Beginning
<1>4. CASE n = 0
    <2>1. t = <<>>
        BY <1>4, BeginsWithNothing
    <2> QED BY <2>1 DEF p
<1>5. CASE n # 0
    <2> HIDE DEF b
    <2>1. b # <<>> /\ b[1] = x
        BY <1>1, <1>2, <1>3, <1>5
    <2> DEFINE r == Tail(b)
               u == NotEmpty(r)
    <2>2. /\ r \in Seq(Part) /\ Len(r) = n - 1 /\ \A i \in 1..n - 1 : r[i] = b[i + 1]
          /\ u \in Seq(Part) /\ Len(t) = Len(u) + 1 /\ t[1] = x
          /\ \A i \in 1..Len(u) : t[i + 1] = u[i]
        BY ZenonT(30), <1>1, <1>2, <1>3, <2>1, NotEmptyFirst
    <2>3. ASSUME Len(t) > 1 PROVE t[2] = y
        <3> HIDE DEF r
        <3>1. 1 \in 1..Len(u) /\ 1 + 1 = 2
            BY <2>2, <2>3
        <3>2. r # <<>>
            <4>1. NotEmpty(<<>>) = <<>>
                <5>1. Beginning(<<>>, 0) = <<>>
                    BY DEF Beginning
                <5> QED BY <5>1, BeginsWithNothing
            <4> QED BY <3>1, <4>1
        <3>3. r[1] = y
            <4>1. 1 \in 1..n - 1 /\ 2 \in 1..n
                BY ONLY <1>2, <2>2, <3>2
            <4> QED BY <1>1, <1>3, <2>2, <3>1, <4>1
        <3>4. u[1] = y
            BY ZenonT(30), <1>1, <2>2, <3>2, <3>3, NotEmptyFirst
        <3> QED BY <2>2, <3>1, <3>4
    <2> QED BY ZenonT(30), <2>2, <2>3 DEF p, b, x, y
<1> QED BY <1>4, <1>5

-----------------------------------------------------------------------------
Message == Seq(Part) \ {<<>>}

(* What ZeroMQ delivers of a message is all that is left of it before its  *)
(* first part is received.                                                 *)
LEMMA PartsAre ==
    ASSUME NEW P, NEW p \in Seq(P)
    PROVE  Parts(p) = Rest(p, 0)
<1>1. Len(p) \in Nat /\ DOMAIN p = 1..Len(p) /\ Len(p) - 0 = Len(p)
    OBVIOUS
<1>2. \A i \in 1..Len(p) : 0 + i = i
    BY <1>1
<1>3. Parts(p) = [i \in 1..Len(p) |-> [data |-> p[i], more |-> i < Len(p)]]
    BY ZenonT(30), <1>1 DEF Parts
<1>4. Rest(p, 0) = [i \in 1..Len(p) |-> [data |-> p[0 + i], more |-> 0 + i < Len(p)]]
    BY ZenonT(30), <1>1 DEF Rest
<1> QED BY ZenonT(30), <1>2, <1>3, <1>4

(* The messages, in parts, that are arriving. *)
QueueOf(arr, snt) == [k \in 1..Len(arr) |-> PartsOf(snt[arr[k]])]

(* The parts of what is sent are a message. *)
LEMMA MessageType == \A m \in Sent : PartsOf(m) \in Message
<1> SUFFICES ASSUME NEW m \in Sent PROVE PartsOf(m) \in Seq(Part) /\ PartsOf(m) # <<>>
    BY DEF Message
<1>1. PartsOf(m) \in Seq(Part) /\ Len(PartsOf(m)) = Len(m.raw) + 2 /\ Len(m.raw) \in Nat
    BY ZenonT(30), PartsType
<1> HIDE DEF Part
<1> QED BY ONLY <1>1

(* The messages that have arrived, as a queue of parts. *)
LEMMA QueueFacts ==
    ASSUME NEW snt \in Seq(Sent), NEW arr \in Seq(1..Len(snt))
    PROVE  /\ QueueOf(arr, snt) \in Seq(Message) /\ Len(QueueOf(arr, snt)) = Len(arr)
           /\ Len(arr) \in Nat
           /\ \A k \in 1..Len(arr) : /\ arr[k] \in 1..Len(snt)
                                     /\ QueueOf(arr, snt)[k] = PartsOf(snt[arr[k]])
<1>1. Len(arr) \in Nat /\ \A k \in 1..Len(arr) : arr[k] \in 1..Len(snt)
    OBVIOUS
<1>2. \A j \in 1..Len(snt) : snt[j] \in Sent
    <2> HIDE DEF Sent
    <2> QED OBVIOUS
<1>3. \A k \in 1..Len(arr) : PartsOf(snt[arr[k]]) \in Message
    BY ZenonT(30), <1>1, <1>2, MessageType
<1> HIDE DEF Message
<1>4. QueueOf(arr, snt) \in [1..Len(arr) -> Message]
    BY ZenonT(30), <1>3 DEF QueueOf
<1>5. QueueOf(arr, snt) \in Seq(Message) /\ Len(QueueOf(arr, snt)) = Len(arr)
    BY ONLY SMTT(60), <1>1, <1>4
<1>6. \A k \in 1..Len(arr) : QueueOf(arr, snt)[k] = PartsOf(snt[arr[k]])
    BY ZenonT(30) DEF QueueOf
<1> QED BY ZenonT(30), <1>1, <1>5, <1>6

(* The queue when one more arrives. *)
LEMMA ArrivedAppend ==
    ASSUME NEW snt \in Seq(Sent), NEW arr \in Seq(1..Len(snt)), NEW j \in 1..Len(snt)
    PROVE  /\ Append(arr, j) \in Seq(1..Len(snt))
           /\ QueueOf(Append(arr, j), snt) = Append(QueueOf(arr, snt), PartsOf(snt[j]))
<1> DEFINE r == Append(arr, j)
           t == QueueOf(arr, snt)
           u == QueueOf(r, snt)
           x == PartsOf(snt[j])
           a == Append(t, x)
<1>1. /\ r \in Seq(1..Len(snt)) /\ Len(r) = Len(arr) + 1 /\ r[Len(arr) + 1] = j
      /\ \A k \in 1..Len(arr) : r[k] = arr[k]
    BY AppendProperties
<1>2. /\ t \in Seq(Message) /\ Len(t) = Len(arr) /\ Len(arr) \in Nat
      /\ \A k \in 1..Len(arr) : t[k] = PartsOf(snt[arr[k]])
    BY ZenonT(30), QueueFacts
<1> HIDE DEF r
<1>3. u \in Seq(Message) /\ Len(u) = Len(r) /\ \A k \in 1..Len(r) : u[k] = PartsOf(snt[r[k]])
    BY ZenonT(30), <1>1, QueueFacts
<1>4. x \in Message
    <2>1. snt[j] \in Sent
        BY ElementOfSeq
    <2> QED BY <2>1, MessageType
<1> HIDE DEF t, u, x, Message
<1>5. /\ a \in Seq(Message) /\ Len(a) = Len(arr) + 1 /\ a[Len(arr) + 1] = x
      /\ \A k \in 1..Len(arr) : a[k] = t[k]
    <2>1. t \in Seq(Message) /\ Len(t) = Len(arr)
        BY <1>2
    <2>2. /\ a \in Seq(Message) /\ Len(a) = Len(t) + 1 /\ a[Len(t) + 1] = x
          /\ \A k \in 1..Len(t) : a[k] = t[k]
        BY ONLY <1>4, <2>1
    <2> HIDE DEF a
    <2> QED BY ZenonT(30), <2>1, <2>2
<1> HIDE DEF a
<1>6. ASSUME NEW k \in 1..Len(u) PROVE u[k] = a[k]
    <2>1. k \in 1..Len(r) /\ (k \in 1..Len(arr) \/ k = Len(arr) + 1)
        BY <1>1, <1>2, <1>3
    <2> QED BY ZenonT(30), <1>1, <1>2, <1>3, <1>5, <2>1 DEF x
<1>7. Len(u) = Len(a)
    BY ZenonT(30), <1>1, <1>3, <1>5
<1>8. u = a
    BY ONLY <1>3, <1>5, <1>6, <1>7, SeqEqual
<1> QED BY <1>1, <1>8 DEF u, a, r, t, x

(* The queue when the first has been handled. *)
LEMMA ArrivedTail ==
    ASSUME NEW snt \in Seq(Sent), NEW arr \in Seq(1..Len(snt)), QueueOf(arr, snt) # <<>>
    PROVE  /\ arr # <<>> /\ Head(arr) \in 1..Len(snt) /\ Tail(arr) \in Seq(1..Len(snt))
           /\ Head(QueueOf(arr, snt)) = PartsOf(snt[Head(arr)])
           /\ QueueOf(Tail(arr), snt) = Tail(QueueOf(arr, snt))
<1> DEFINE r == Tail(arr)
           t == QueueOf(arr, snt)
           u == QueueOf(r, snt)
           a == Tail(t)
<1>1. /\ t \in Seq(Message) /\ Len(t) = Len(arr) /\ Len(arr) \in Nat
      /\ \A k \in 1..Len(arr) : t[k] = PartsOf(snt[arr[k]])
    BY ZenonT(30), QueueFacts
<1> HIDE DEF t, Message
<1>2. Len(arr) \in Nat \ {0} /\ arr # <<>>
    <2>1. t # <<>>
        BY DEF t
    <2>2. Len(t) # 0
        BY ONLY <1>1, <2>1
    <2> QED BY <1>1, <2>2
<1>3. /\ r \in Seq(1..Len(snt)) /\ Len(r) = Len(arr) - 1 /\ Head(arr) = arr[1]
      /\ Head(arr) \in 1..Len(snt) /\ \A k \in 1..Len(arr) - 1 : r[k] = arr[k + 1]
    BY ONLY arr \in Seq(1..Len(snt)), <1>2, HeadTailProperties
<1> HIDE DEF r
<1>4. u \in Seq(Message) /\ Len(u) = Len(r) /\ \A k \in 1..Len(r) : u[k] = PartsOf(snt[r[k]])
    BY ZenonT(30), <1>3, QueueFacts
<1> HIDE DEF u
<1>5. /\ Head(t) = t[1] /\ a \in Seq(Message) /\ Len(a) = Len(arr) - 1
      /\ \A k \in 1..Len(arr) - 1 : a[k] = t[k + 1]
    <2>1. t # <<>>
        BY DEF t
    <2> QED BY ONLY <1>1, <2>1, HeadTailProperties
<1> HIDE DEF a
<1>6. ASSUME NEW k \in 1..Len(u) PROVE u[k] = a[k]
    <2>1. k \in 1..Len(r) /\ k \in 1..Len(arr) - 1 /\ k + 1 \in 1..Len(arr)
        BY <1>2, <1>3, <1>4
    <2> QED BY ZenonT(30), <1>1, <1>3, <1>4, <1>5, <2>1
<1>7. Len(u) = Len(a)
    BY ZenonT(30), <1>3, <1>4, <1>5
<1>8. u = a
    BY ONLY <1>4, <1>5, <1>6, <1>7, SeqEqual
<1>9. Head(t) = PartsOf(snt[Head(arr)])
    <2>1. 1 \in 1..Len(arr)
        BY <1>2
    <2> QED BY ZenonT(30), <1>1, <1>3, <1>5, <2>1
<1> QED BY ZenonT(30), <1>2, <1>3, <1>8, <1>9 DEF u, a, t, r

(* A message that is sent later changes nothing for them. *)
LEMMA SentMore ==
    ASSUME NEW snt \in Seq(Sent), NEW arr \in Seq(1..Len(snt)), NEW m \in Sent
    PROVE  /\ arr \in Seq(1..Len(Append(snt, m)))
           /\ QueueOf(arr, Append(snt, m)) = QueueOf(arr, snt)
<1> DEFINE r == Append(snt, m)
<1>1. r \in Seq(Sent) /\ Len(snt) \in Nat /\ Len(r) = Len(snt) + 1 /\ \A j \in 1..Len(snt) : r[j] = snt[j]
    BY AppendProperties
<1> HIDE DEF r, Sent
<1>2. arr \in Seq(1..Len(r))
    <2>1. 1..Len(snt) \subseteq 1..Len(r)
        BY <1>1
    <2> QED BY ONLY ZenonT(30), arr \in Seq(1..Len(snt)), <2>1, SeqMonotonic
<1>3. \A k \in 1..Len(arr) : arr[k] \in 1..Len(snt)
    OBVIOUS
<1>4. \A k \in 1..Len(arr) : r[arr[k]] = snt[arr[k]]
    BY ZenonT(30), <1>1, <1>3
<1>5. QueueOf(arr, r) = QueueOf(arr, snt)
    BY ZenonT(30), <1>4 DEF QueueOf
<1> QED BY <1>2, <1>5 DEF r

(* Where the messages are: what is in the pipe is what was sent last, and  *)
(* what has arrived is whole messages; the subscriber has one receive      *)
(* under way unless it is deaf.                                            *)
MessageInv ==
    /\ sent \in Seq(Sent)
    /\ Len(pipe) <= Len(sent)
    /\ \A i \in 1..Len(pipe) : pipe[i].parts = PartsOf(sent[(Len(sent) - Len(pipe)) + i])
    /\ arrived \in Seq(1..Len(sent))
    /\ deaf \in BOOLEAN
    /\ receives = (IF deaf THEN 0 ELSE 1)
    /\ ~deaf => Arriving(QueueOf(arrived, sent), inbox, received)
    /\ last # Nothing => last.n \in 1..Len(sent)
    /\ ReadsWhatWasBuilt

(* At first nothing was sent. *)
LEMMA InitMessage == Init => MessageInv
<1> SUFFICES ASSUME Init PROVE MessageInv
    OBVIOUS
<1>1. /\ sent = <<>> /\ pipe = <<>> /\ arrived = <<>> /\ deaf = FALSE /\ receives = 1
      /\ inbox = <<>> /\ received = <<>> /\ last = Nothing
    BY DEF Init, SocketInit
<1>2. sent \in Seq(Sent) /\ arrived \in Seq(1..Len(sent)) /\ Len(pipe) = 0 /\ Len(sent) = 0
    BY <1>1
<1>3. QueueOf(arrived, sent) = <<>>
    <2>1. Len(arrived) = 0
        BY <1>1
    <2> QED BY <2>1 DEF QueueOf
<1>4. Arriving(QueueOf(arrived, sent), inbox, received)
    BY <1>1, <1>3 DEF Arriving
<1>5. ReadsWhatWasBuilt
    BY <1>1 DEF ReadsWhatWasBuilt
<1>6. 1..Len(pipe) = {} /\ Len(pipe) <= Len(sent)
    BY <1>2
<1> QED BY ZenonT(30), <1>1, <1>2, <1>4, <1>5, <1>6 DEF MessageInv

(* A step that leaves the messages alone. *)
LEMMA MessageKept ==
    ASSUME MessageInv,
           UNCHANGED <<pipe, inbox, receives, received, sent, arrived, last, deaf>>
    PROVE  MessageInv'
BY ZenonT(60) DEF MessageInv, ReadsWhatWasBuilt

(* send() takes a message: it is the last of those sent and of the pipe. *)
LEMMA SendMessage ==
    ASSUME BufferInv, MessageInv, NEW b \in Builders, NEW raw \in RawBuffers, Send(b, raw)
    PROVE  MessageInv'
<1> DEFINE m == [id |-> builders[b].id, segments |-> segmentsForOutput(b), raw |-> raw]
<1>1. PICK buffer \in bodyBuffers(b) :
          \/ /\ sendTaken([parts |-> smartMessage(b, raw), buffer |-> buffer])
             /\ sent' = Append(sent, m)
          \/ sendRefused /\ UNCHANGED sent
    BY DEF Send
<1>2. UNCHANGED <<arrived, last, deaf>>
    BY DEF Send
<1>3. CASE sendRefused /\ UNCHANGED sent
    BY <1>2, <1>3, MessageKept DEF sendRefused
<1> DEFINE x == [parts |-> smartMessage(b, raw), buffer |-> buffer]
           M == [parts : Seq(Part), buffer : Buffers \cup {NoBuffer}]
<1>4. CASE sendTaken(x) /\ sent' = Append(sent, m)
    <2>1. pipe' = Append(pipe, x) /\ UNCHANGED <<inbox, receives, received>>
        BY <1>4 DEF sendTaken
    <2>2. m \in Sent /\ x.parts = PartsOf(m)
        BY SentType
    <2>3. sent \in Seq(Sent) /\ arrived \in Seq(1..Len(sent)) /\ pipe \in Seq(M)
        BY DEF MessageInv, BufferInv
    <2> HIDE DEF m, x, M, Sent
    <2>4. /\ Len(sent) \in Nat /\ sent' \in Seq(Sent) /\ Len(sent') = Len(sent) + 1
          /\ sent'[Len(sent) + 1] = m /\ \A j \in 1..Len(sent) : sent'[j] = sent[j]
        <3>1. sent \in Seq(Sent) /\ m \in Sent /\ sent' = Append(sent, m)
            BY <1>4, <2>2, <2>3
        <3> QED BY ONLY <3>1, AppendProperties, LenProperties
    <2>5. /\ Len(pipe) \in Nat /\ Len(pipe') = Len(pipe) + 1
          /\ pipe'[Len(pipe) + 1] = x /\ \A i \in 1..Len(pipe) : pipe'[i] = pipe[i]
        BY <2>1, <2>3
    <2>6. arrived' \in Seq(1..Len(sent')) /\ QueueOf(arrived', sent') = QueueOf(arrived, sent)
        BY <1>2, <1>4, <2>2, <2>3, SentMore
    <2>7. ASSUME NEW i \in 1..Len(pipe')
          PROVE  pipe'[i].parts = PartsOf(sent'[(Len(sent') - Len(pipe')) + i])
        <3>1. (Len(sent') - Len(pipe')) + i = (Len(sent) - Len(pipe)) + i
            BY <2>4, <2>5
        <3>2. CASE i \in 1..Len(pipe)
            <4>1. (Len(sent) - Len(pipe)) + i \in 1..Len(sent)
                BY <2>4, <2>5, <3>2 DEF MessageInv
            <4> QED BY ZenonT(30), <2>4, <2>5, <3>1, <3>2, <4>1 DEF MessageInv
        <3>3. CASE i = Len(pipe) + 1
            <4>1. (Len(sent) - Len(pipe)) + i = Len(sent) + 1
                BY <2>4, <2>5, <3>3
            <4> QED BY ZenonT(30), <2>2, <2>4, <2>5, <3>1, <3>3, <4>1
        <3> QED BY <2>5, <3>2, <3>3
    <2>8. last # Nothing => last.n \in 1..Len(sent)
        BY DEF MessageInv
    <2>9. ReadsWhatWasBuilt' /\ (last' # Nothing => last'.n \in 1..Len(sent'))
        <3>1. CASE last = Nothing
            BY <1>2, <3>1 DEF ReadsWhatWasBuilt
        <3>2. CASE last # Nothing
            <4>1. last.n \in 1..Len(sent) /\ last.n \in 1..Len(sent')
                BY <2>4, <2>8, <3>2
            <4>2. sent'[last.n] = sent[last.n]
                BY <2>4, <4>1
            <4>3. ReadsWhatWasBuilt
                BY DEF MessageInv
            <4> QED BY ZenonT(30), <1>2, <4>1, <4>2, <4>3 DEF ReadsWhatWasBuilt
        <3> QED BY <3>1, <3>2
    <2>10. Len(pipe') <= Len(sent')
        BY <2>4, <2>5 DEF MessageInv
    <2>11. /\ deaf' \in BOOLEAN /\ receives' = (IF deaf' THEN 0 ELSE 1)
           /\ ~deaf' => Arriving(QueueOf(arrived', sent'), inbox', received')
        BY ZenonT(30), <1>2, <2>1, <2>6 DEF MessageInv
    <2> HIDE DEF ReadsWhatWasBuilt
    <2> QED BY ZenonT(30), <2>4, <2>6, <2>7, <2>9, <2>10, <2>11 DEF MessageInv
<1> QED BY <1>1, <1>3, <1>4

(* ZeroMQ's thread delivers the oldest message of the pipe, or loses it. *)
LEMMA ZmqMessage ==
    ASSUME BufferInv, MessageInv, Zmq
    PROVE  MessageInv'
<1> DEFINE M == [parts : Seq(Part), buffer : Buffers \cup {NoBuffer}]
           j == Len(sent) - Len(pipe) + 1
           q == QueueOf(arrived, sent)
           p == Head(pipe).parts
<1>1. /\ pipe # <<>> /\ pipe' = Tail(pipe)
      /\ UNCHANGED <<receives, received, sent, last, deaf>>
      /\ arrived' = IF inbox' # inbox THEN Append(arrived, j) ELSE arrived
      /\ inbox' = inbox \/ inbox' = inbox \o Parts(p)
    BY DEF Zmq, Transmit, Lose
<1>2. sent \in Seq(Sent) /\ arrived \in Seq(1..Len(sent)) /\ pipe \in Seq(M)
    BY DEF MessageInv, BufferInv
<1> HIDE DEF M, Sent
<1>3. /\ Len(pipe) \in Nat \ {0} /\ Len(pipe') = Len(pipe) - 1 /\ Head(pipe) = pipe[1]
      /\ \A i \in 1..Len(pipe) - 1 : pipe'[i] = pipe[i + 1]
    BY <1>1, <1>2, EmptySeq, HeadTailProperties
<1>4. Len(sent) \in Nat /\ j \in 1..Len(sent) /\ 1 \in 1..Len(pipe) /\ j = (Len(sent) - Len(pipe)) + 1
    BY <1>2, <1>3 DEF MessageInv
<1>5. p = PartsOf(sent[j])
    BY ZenonT(30), <1>3, <1>4 DEF MessageInv
<1>6. sent[j] \in Sent
    BY <1>2, <1>4
<1>7. p \in Message
    BY <1>5, <1>6, MessageType
<1> HIDE DEF j, p
<1>8. ASSUME NEW i \in 1..Len(pipe')
      PROVE  pipe'[i].parts = PartsOf(sent'[(Len(sent') - Len(pipe')) + i])
    <2>1. i + 1 \in 1..Len(pipe) /\ i \in 1..Len(pipe) - 1
        BY <1>3
    <2>2. (Len(sent) - Len(pipe')) + i = (Len(sent) - Len(pipe)) + (i + 1)
        BY <1>3, <1>4
    <2> QED BY ZenonT(30), <1>1, <1>3, <2>1, <2>2 DEF MessageInv
<1>9. Len(pipe') <= Len(sent')
    BY <1>1, <1>3, <1>4 DEF MessageInv
<1>10. /\ Append(arrived, j) \in Seq(1..Len(sent))
       /\ QueueOf(Append(arrived, j), sent) = Append(q, p)
    BY ZenonT(30), <1>2, <1>4, <1>5, ArrivedAppend
<1>11. q \in Seq(Seq(Part) \ {<<>>}) /\ p \in Seq(Part) \ {<<>>}
    BY ZenonT(30), <1>2, <1>7, QueueFacts DEF Message
<1>12. arrived' \in Seq(1..Len(sent'))
    BY ZenonT(30), <1>1, <1>2, <1>10
<1>13. ASSUME ~deaf PROVE Arriving(QueueOf(arrived', sent'), inbox', received')
    <2>1. Arriving(q, inbox, received)
        BY <1>13 DEF MessageInv
    <2>2. CASE inbox' = inbox
        BY ZenonT(30), <1>1, <2>1, <2>2
    <2>3. CASE inbox' # inbox
        <3> HIDE DEF q
        <3>0. Parts(p) = Rest(p, 0)
            BY <1>11, PartsAre
        <3>1. Arriving(Append(q, p), inbox \o Parts(p), received)
            BY ZenonT(30), <1>11, <2>1, <3>0, ArrivingAppend
        <3>2. arrived' = Append(arrived, j) /\ inbox' = inbox \o Parts(p)
            BY <1>1, <2>3
        <3> QED BY ZenonT(30), <1>1, <1>10, <3>1, <3>2
    <2> QED BY <2>2, <2>3
<1>14. ReadsWhatWasBuilt' /\ (last' # Nothing => last'.n \in 1..Len(sent'))
    BY ZenonT(30), <1>1 DEF MessageInv, ReadsWhatWasBuilt
<1>15. /\ deaf' \in BOOLEAN /\ receives' = (IF deaf' THEN 0 ELSE 1)
       /\ ~deaf' => Arriving(QueueOf(arrived', sent'), inbox', received')
    BY ZenonT(30), <1>1, <1>13 DEF MessageInv
<1>16. sent' \in Seq(Sent)
    BY <1>1, <1>2
<1> HIDE DEF ReadsWhatWasBuilt
<1> QED BY ZenonT(30), <1>8, <1>9, <1>12, <1>14, <1>15, <1>16 DEF MessageInv

(* A part is taken from what has arrived: the subscriber is not deaf, and  *)
(* the first message is the one it takes a part of.                        *)
LEMMA PartTaken ==
    ASSUME MessageInv, PartArrives
    PROVE  LET q == QueueOf(arrived, sent)
               rec == kept(Head(inbox).data)
               m == sent[Head(arrived)]
           IN  /\ ~deaf /\ receives = 1 /\ arrived # <<>>
               /\ Head(arrived) \in 1..Len(sent) /\ m \in Sent
               /\ Tail(arrived) \in Seq(1..Len(sent))
               /\ Head(inbox).more => Arriving(q, Tail(inbox), rec)
               /\ ~Head(inbox).more => /\ Arriving(QueueOf(Tail(arrived), sent), Tail(inbox), <<>>)
                                       /\ rec = NotEmpty(PartsOf(m))
<1> DEFINE q == QueueOf(arrived, sent)
           rec == kept(Head(inbox).data)
           m == sent[Head(arrived)]
<1>1. ~deaf /\ receives = 1 /\ inbox # <<>>
    <2>1. receives > 0 /\ inbox # <<>>
        BY DEF PartArrives, Listening
    <2>2. deaf \in BOOLEAN /\ receives = (IF deaf THEN 0 ELSE 1)
        BY DEF MessageInv
    <2> QED BY <2>1, <2>2
<1>2. sent \in Seq(Sent) /\ arrived \in Seq(1..Len(sent)) /\ Arriving(q, inbox, received)
    BY <1>1 DEF MessageInv
<1>3. q \in Seq(Seq(Part) \ {<<>>})
    BY ZenonT(30), <1>2, QueueFacts DEF Message
<1>4. rec = Taken(received, Head(inbox).data)
    BY DEF kept, Taken
<1> HIDE DEF q, Sent, Part
<1>5. q # <<>>
    BY ZenonT(30), <1>1, <1>2, <1>3, ArrivingNext
<1>6. /\ arrived # <<>> /\ Head(arrived) \in 1..Len(sent) /\ Tail(arrived) \in Seq(1..Len(sent))
      /\ Head(q) = PartsOf(m) /\ QueueOf(Tail(arrived), sent) = Tail(q)
    BY ZenonT(30), <1>2, <1>5, ArrivedTail DEF q
<1>7. m \in Sent
    BY <1>2, <1>6, ElementOfSeq
<1>8. Head(inbox).more => Arriving(q, Tail(inbox), rec)
    BY ZenonT(30), <1>1, <1>2, <1>3, <1>4, ArrivingMore
<1>9. ~Head(inbox).more => /\ Arriving(Tail(q), Tail(inbox), <<>>)
                           /\ rec = NotEmpty(Head(q))
    BY ZenonT(30), <1>1, <1>2, <1>3, <1>4, ArrivingLast
<1> HIDE DEF m, rec
<1>10. ~Head(inbox).more => /\ Arriving(QueueOf(Tail(arrived), sent), Tail(inbox), <<>>)
                            /\ rec = NotEmpty(PartsOf(m))
    BY ZenonT(30), <1>6, <1>9
<1> QED BY ZenonT(30), <1>1, <1>6, <1>7, <1>8, <1>10 DEF q, m, rec

(* What a step of the subscriber leaves alone. *)
LEMMA Received ==
    ASSUME MessageInv, UNCHANGED <<pipe, sent>>, arrived' \in Seq(1..Len(sent)),
           deaf' \in BOOLEAN, receives' = (IF deaf' THEN 0 ELSE 1),
           ~deaf' => Arriving(QueueOf(arrived', sent), inbox', received'),
           last' # Nothing => last'.n \in 1..Len(sent),
           ReadsWhatWasBuilt'
    PROVE  MessageInv'
<1> HIDE DEF ReadsWhatWasBuilt
<1> QED BY ZenonT(60) DEF MessageInv

(* A part that is received, with its handler, moves the boundary in the    *)
(* first message or ends it.                                               *)
LEMMA HandleMessage ==
    ASSUME MessageInv, Handle
    PROVE  MessageInv'
<1>1. UNCHANGED <<pipe, sent, deaf>>
    BY DEF Handle, onReceiveMore, onReceiveHandled, onReceiveReported, LastPart
<1>2. PartArrives /\ inbox' = Tail(inbox) /\ receives' = receives
    BY DEF Handle, onReceiveMore, onReceiveHandled, onReceiveReported, LastPart, PartArrives,
           messageDone
<1> DEFINE q == QueueOf(arrived, sent)
           rec == kept(Head(inbox).data)
           m == sent[Head(arrived)]
<1>3. /\ ~deaf /\ receives = 1 /\ arrived # <<>>
      /\ Head(arrived) \in 1..Len(sent) /\ m \in Sent /\ Tail(arrived) \in Seq(1..Len(sent))
      /\ Head(inbox).more => Arriving(q, Tail(inbox), rec)
      /\ ~Head(inbox).more => /\ Arriving(QueueOf(Tail(arrived), sent), Tail(inbox), <<>>)
                              /\ rec = NotEmpty(PartsOf(m))
    BY ZenonT(30), <1>2, PartTaken
<1>4. deaf' \in BOOLEAN /\ receives' = (IF deaf' THEN 0 ELSE 1) /\ ~deaf'
    BY ZenonT(30), <1>1, <1>2, <1>3 DEF MessageInv
<1>5. /\ last # Nothing => last.n \in 1..Len(sent)
      /\ ReadsWhatWasBuilt /\ arrived \in Seq(1..Len(sent))
    BY DEF MessageInv
<1>6. CASE UNCHANGED last
    <2>1. ReadsWhatWasBuilt' /\ (last' # Nothing => last'.n \in 1..Len(sent))
        BY ZenonT(30), <1>1, <1>5, <1>6 DEF ReadsWhatWasBuilt
    <2>2. CASE onReceiveMore /\ UNCHANGED arrived
        <3>1. Arriving(QueueOf(arrived', sent), inbox', received')
            BY ZenonT(30), <1>2, <1>3, <2>2 DEF onReceiveMore
        <3>2. arrived' \in Seq(1..Len(sent))
            BY <1>5, <2>2
        <3> HIDE DEF ReadsWhatWasBuilt
        <3> QED BY ZenonT(30), <1>1, <1>4, <2>1, <3>1, <3>2, Received
    <2>3. CASE onReceiveReported /\ arrived' = Tail(arrived)
        <3>1. Arriving(QueueOf(arrived', sent), inbox', received')
            BY ZenonT(30), <1>2, <1>3, <2>3 DEF onReceiveReported, LastPart, messageDone
        <3>2. arrived' \in Seq(1..Len(sent))
            BY ZenonT(30), <1>3, <2>3
        <3> HIDE DEF ReadsWhatWasBuilt
        <3> QED BY ZenonT(30), <1>1, <1>4, <2>1, <3>1, <3>2, Received
    <2>4. CASE onReceiveHandled(SubscriberType) /\ arrived' = Tail(arrived)
        <3>1. Arriving(QueueOf(arrived', sent), inbox', received')
            BY ZenonT(30), <1>2, <1>3, <2>4 DEF onReceiveHandled, LastPart, messageDone
        <3>2. arrived' \in Seq(1..Len(sent))
            BY <1>3, <2>4
        <3> HIDE DEF ReadsWhatWasBuilt
        <3> QED BY ZenonT(30), <1>1, <1>4, <2>1, <3>1, <3>2, Received
    <2> QED BY <2>2, <2>3, <2>4 DEF Handle
<1>7. CASE /\ onReceiveHandled(SubscriberType) /\ arrived' = Tail(arrived)
           /\ last' = [n |-> Head(arrived), is |-> read(rec)]
    <2>1. ~Head(inbox).more /\ received' = <<>>
        BY <1>7 DEF onReceiveHandled, LastPart, messageDone
    <2>2. Arriving(QueueOf(arrived', sent), inbox', received') /\ rec = NotEmpty(PartsOf(m))
        BY ZenonT(30), <1>2, <1>3, <1>7, <2>1
    <2>3. arrived' \in Seq(1..Len(sent))
        BY <1>3, <1>7
    <2>4. read(rec) = [m EXCEPT !.raw = NotEmpty(m.raw)]
        BY <1>3, <2>2, ReadIs
    <2>5. last'.n = Head(arrived) /\ last'.is = read(rec)
        BY <1>7
    <2>6. ReadsWhatWasBuilt'
        BY ZenonT(30), <1>1, <2>4, <2>5 DEF ReadsWhatWasBuilt
    <2>7. last'.n \in 1..Len(sent)
        BY <1>3, <2>5
    <2> HIDE DEF ReadsWhatWasBuilt
    <2> QED BY ZenonT(30), <1>1, <1>4, <2>2, <2>3, <2>6, <2>7, Received
<1> QED BY <1>6, <1>7 DEF Handle

(* A receive that fails makes the subscriber deaf. *)
LEMMA FailMessage ==
    ASSUME MessageInv, Fail
    PROVE  MessageInv'
<1>1. UNCHANGED <<pipe, sent, last>> /\ deaf' = TRUE /\ receives' = receives - 1
    BY DEF Fail, onReceiveThrows, LastPart, messageThrows, onReceiveError
<1>2. receives = 1
    <2>1. receives > 0
        BY DEF Fail, onReceiveThrows, LastPart, PartArrives, onReceiveError, Listening
    <2>2. deaf \in BOOLEAN /\ receives = (IF deaf THEN 0 ELSE 1)
        BY DEF MessageInv
    <2> QED BY <2>1, <2>2
<1>3. arrived' \in Seq(1..Len(sent))
    <2>1. CASE onReceiveThrows /\ arrived' = Tail(arrived)
        <3>1. PartArrives
            BY <2>1 DEF onReceiveThrows, LastPart
        <3>2. Tail(arrived) \in Seq(1..Len(sent))
            BY ZenonT(30), <3>1, PartTaken
        <3> QED BY <2>1, <3>2
    <2>2. CASE UNCHANGED arrived
        BY <2>2 DEF MessageInv
    <2> QED BY <2>1, <2>2 DEF Fail
<1>4. ReadsWhatWasBuilt' /\ (last' # Nothing => last'.n \in 1..Len(sent))
    BY ZenonT(30), <1>1 DEF MessageInv, ReadsWhatWasBuilt
<1>5. deaf' \in BOOLEAN /\ receives' = (IF deaf' THEN 0 ELSE 1) /\ deaf'
    BY <1>1, <1>2
<1> HIDE DEF ReadsWhatWasBuilt
<1> QED BY ZenonT(30), <1>1, <1>3, <1>4, <1>5, Received

(* Every step keeps the messages whole and in order. *)
LEMMA NextMessage == BufferInv /\ MessageInv /\ [Next]_vars => MessageInv'
<1> SUFFICES ASSUME BufferInv, MessageInv, [Next]_vars PROVE MessageInv'
    OBVIOUS
<1>1. CASE Build
    BY <1>1, MessageKept DEF Build, socketVars
<1>2. CASE \E b \in Builders, raw \in RawBuffers : Send(b, raw)
    BY <1>2, SendMessage
<1>3. CASE Zmq
    BY <1>3, ZmqMessage
<1>4. CASE Handle
    BY <1>4, HandleMessage
<1>5. CASE Fail
    BY <1>5, FailMessage
<1>6. CASE Others
    BY <1>6, MessageKept DEF Others, FreshErrorCode, Restart
<1>7. CASE UNCHANGED vars
    BY <1>7, MessageKept DEF vars, socketVars
<1> QED BY <1>1, <1>2, <1>3, <1>4, <1>5, <1>6, <1>7 DEF Next

(* Where the messages are, for any messages, filters and marks. *)
THEOREM MessagesMessageInvariant == Spec => []MessageInv
<1>1. Init /\ [][Next]_vars /\ []BufferInv => []MessageInv
    BY InitMessage, NextMessage, PTL
<1> QED BY <1>1, MessagesBufferInvariant, PTL DEF Spec

(* The handler reads the type, the segments and the raw buffers that the   *)
(* builder had when it was sent, whatever has become of the builder, for   *)
(* any number and sizes of segments: segmentsOf undoes body().             *)
THEOREM MessagesReadsWhatWasBuilt == Spec => []ReadsWhatWasBuilt
<1>1. MessageInv => ReadsWhatWasBuilt
    BY DEF MessageInv
<1> QED BY <1>1, MessagesMessageInvariant, PTL

(* Parts of two messages never mix in received_message_, whatever is lost, *)
(* filtered or fails.                                                      *)
THEOREM MessagesPartsDoNotMix == Spec => []PartsDoNotMix
<1>1. ASSUME MessageInv PROVE PartsDoNotMix
    <2> SUFFICES ASSUME ~deaf, received # <<>>
                 PROVE  /\ arrived # <<>>
                        /\ received[1] = <<sent[Head(arrived)].id>>
                        /\ Len(received) > 1 =>
                               received[2] = body(sent[Head(arrived)].segments)
        BY ZenonT(30) DEF PartsDoNotMix
    <2> DEFINE q == QueueOf(arrived, sent)
               m == sent[Head(arrived)]
    <2>1. sent \in Seq(Sent) /\ arrived \in Seq(1..Len(sent)) /\ Arriving(q, inbox, received)
        BY <1>1 DEF MessageInv
    <2>2. q # <<>>
        BY <2>1 DEF Arriving
    <2>3. PICK n \in 0..Len(Head(q)) - 1 : received = NotEmpty(Beginning(Head(q), n))
        BY ZenonT(30), <2>1, <2>2 DEF Arriving
    <2> HIDE DEF Sent
    <2>4. arrived # <<>> /\ Head(arrived) \in 1..Len(sent) /\ Head(q) = PartsOf(m)
        BY ZenonT(30), <2>1, <2>2, ArrivedTail
    <2>5. m \in Sent
        BY <2>1, <2>4, ElementOfSeq
    <2> HIDE DEF q
    <2>6. n \in 0..Len(PartsOf(m)) - 1 /\ received = NotEmpty(Beginning(PartsOf(m), n))
        BY <2>3, <2>4
    <2>7. /\ received[1] = <<m.id>>
          /\ Len(received) > 1 => received[2] = body(m.segments)
        BY ZenonT(30), <2>5, <2>6, BeginsAs
    <2> QED BY <2>4, <2>7
<1> QED BY <1>1, MessagesMessageInvariant, PTL
=============================================================================
