----------------------------- MODULE Flattening -----------------------------
(***************************************************************************)
(* One sequence of many: what code that copies one buffer after another    *)
(* leaves.  It is FlattenSeq of SequencesExt, also of no sequences at all. *)
(***************************************************************************)
EXTENDS Naturals, Sequences

Flatten(seqs) ==
    LET upTo[n \in 0..Len(seqs)] ==
            IF n = 0 THEN <<>> ELSE upTo[n - 1] \o seqs[n]
    IN  upTo[Len(seqs)]

(* those that are not empty *)
NotEmpty(seqs) ==
    Flatten([i \in 1..Len(seqs) |-> IF seqs[i] = <<>> THEN <<>> ELSE <<seqs[i]>>])
=============================================================================
