-------------------------- MODULE SmartCapnpBuilder --------------------------
(***************************************************************************)
(* a17/dispatch/smart_capnp_builder: builds messages in segments that come *)
(* from the buffer pool of a node, and copies them into the body of an     *)
(* azmq message.  A word of a message is a value; the first word of the    *)
(* first segment, the root pointer, is the type of the root.  The pool is  *)
(* what FreeList promises; its buffers are alike, so any free one will do. *)
(* MessageBuilder, of Cap'n Proto, is modelled by the segments it was      *)
(* given; it is not moved with the rest of a builder.                      *)
(***************************************************************************)
EXTENDS Integers, FiniteSets, Flattening

CONSTANTS
    Builders,       \* names for the builders of a node
    PoolBuffers,    \* the buffers of its pool
    OsBuffers,      \* bound: memory of ::malloc and ::calloc in use
    NoBuffer,
    Types,          \* the Cap'n Proto ids in use
    NoType,         \* id_ before initRoot()
    MaxSegments     \* bound: segments of a builder

ASSUME BuilderAssumption ==
    /\ IsFiniteSet(PoolBuffers) /\ IsFiniteSet(OsBuffers)
    /\ PoolBuffers \cap OsBuffers = {}
    /\ NoBuffer \notin PoolBuffers \cup OsBuffers
    /\ NoType \notin Types
    /\ MaxSegments \in Nat

VARIABLES
    builders,   \* the builders: see Blank
    free,       \* the free buffers
    moved       \* a builder has been moved

builderVars == <<builders, free, moved>>

Buffers == PoolBuffers \cup OsBuffers

(* the buffers of segments or messages *)
BuffersOf(q) == {q[i].buffer : i \in 1..Len(q)}

(* first_segment_ (returned_first_segment_: not empty) and more_segments_, *)
(* with whether they came from the pool; arena is what MessageBuilder has  *)
(* been given and what was written there                                   *)
Blank == [alive |-> FALSE, id |-> NoType, first |-> <<>>, more |-> <<>>,
          invalidated |-> FALSE, arena |-> <<>>]

BuilderInit ==
    /\ builders = [b \in Builders |-> Blank]
    /\ free = Buffers
    /\ moved = FALSE

(* the result of the pool's malloc() and calloc(), or of the system's *)
taken(usePool) ==
    IF usePool /\ free \cap PoolBuffers # {}
      THEN CHOOSE x \in free \cap PoolBuffers : TRUE
      ELSE CHOOSE x \in free \cap OsBuffers : TRUE

(* allocateSegment() for builder r, which then writes word there.  What    *)
(* does not fit a buffer of the pool does not come from it.                *)
allocateSegment(r, usePool, word) ==
    LET seg == [buffer |-> taken(usePool), pooled |-> usePool]
        s   == [r EXCEPT !.arena = Append(@, [buffer |-> taken(usePool), words |-> <<word>>])]
    IN  IF r.first = <<>>
          THEN [s EXCEPT !.first = <<seg>>]
          ELSE [s EXCEPT !.more = Append(@, seg)]

allocates(b, r, usePool, word) ==
    /\ free \cap OsBuffers # {}
    /\ free' = free \ {taken(usePool)}
    /\ builders' = [builders EXCEPT ![b] = allocateSegment(r, usePool, word)]
    /\ UNCHANGED moved

NewBuilder(b) ==
    /\ ~builders[b].alive
    /\ builders' = [builders EXCEPT ![b] = [Blank EXCEPT !.alive = TRUE]]
    /\ UNCHANGED <<free, moved>>

(* initRoot() and setRoot(), again on the same builder too: then the root  *)
(* pointer is overwritten                                                  *)
initRoot(b, type) ==
    LET r == [builders[b] EXCEPT !.id = type]
    IN  /\ r.alive
        /\ IF r.arena = <<>>
             THEN allocates(b, r, TRUE, type)
             ELSE /\ builders' = [builders EXCEPT ![b] =
                                     [r EXCEPT !.arena[1].words[1] = type]]
                  /\ UNCHANGED <<free, moved>>

(* the user sets fields for which the segments have no room *)
grow(b, usePool) ==
    LET r == builders[b]
    IN  /\ r.alive
        /\ Len(r.arena) \in 1..MaxSegments - 1
        /\ allocates(b, r, usePool, r.id)

(* variant: both builders own the segments *)
moveShares(b, c) ==
    /\ builders[b].alive
    /\ ~builders[c].alive
    /\ builders' = [builders EXCEPT ![c] = [@ EXCEPT !.alive = TRUE, !.id = builders[b].id,
                                              !.first = builders[b].first,
                                              !.more = builders[b].more],
                                    ![b].more = <<>>]
    /\ moved' = TRUE
    /\ UNCHANGED free

(* The move constructor: the new builder c is the invalidated one. *)
move(b, c) ==
    /\ builders[b].alive
    /\ ~builders[c].alive
    /\ builders' = [builders EXCEPT ![c] = [Blank EXCEPT !.alive = TRUE,
                                              !.id = builders[b].id,
                                              !.first = builders[b].first,
                                              !.more = builders[b].more,
                                              !.invalidated = TRUE],
                                    ![b].more = <<>>]
    /\ moved' = TRUE
    /\ UNCHANGED free

(* variant: only the first segment *)
freesFirst(r) ==
    IF r.invalidated THEN {} ELSE BuffersOf(r.first)

(* what the destructor frees *)
frees(r) ==
    IF r.invalidated THEN {} ELSE BuffersOf(r.first \o r.more)

Destroy(b) ==
    /\ builders[b].alive
    /\ free' = free \cup frees(builders[b])
    /\ builders' = [builders EXCEPT ![b] = Blank]
    /\ UNCHANGED moved

(* buildSmartMessage(): where the segments start, in half words *)
dst(n) == 2 * (n \div 2 + 1)

(* variant: every segment is copied to the same place *)
bodyOverwritten(segments) ==
    LET n     == Len(segments)
        sizes == [i \in 1..n |-> Len(segments[i])]
        table == <<n - 1>> \o sizes \o (IF n % 2 = 0 THEN <<0>> ELSE <<>>)
        data  == [i \in DOMAIN Flatten(segments) |->
                     IF i <= Len(segments[n]) THEN segments[n][i] ELSE 0]
    IN  [h \in 1..dst(n) + 2 * Len(data) |->
            IF h > dst(n) THEN data[(h - dst(n) + 1) \div 2] ELSE table[h]]

(* A body is a sequence of half words (-1: the largest one); a word of a   *)
(* segment is twice its value.                                             *)
body(segments) ==
    LET n     == Len(segments)
        sizes == [i \in 1..n |-> Len(segments[i])]
        table == <<n - 1>> \o sizes \o (IF n % 2 = 0 THEN <<0>> ELSE <<>>)
        data  == Flatten(segments)
    IN  [h \in 1..dst(n) + 2 * Len(data) |->
            IF h > dst(n) THEN data[(h - dst(n) + 1) \div 2] ELSE table[h]]

segmentsForOutput(b) ==
    [i \in DOMAIN builders[b].arena |-> builders[b].arena[i].words]

(* build(): the memory of the body, a buffer of the pool when it fits.     *)
(* What needed a second segment is larger than a buffer.                   *)
bodyBuffers(b) ==
    (IF Len(builders[b].arena) <= 1 THEN {taken(TRUE)} ELSE {})
        \cup (IF Len(builders[b].arena) >= 1 THEN {NoBuffer} ELSE {})
=============================================================================
