------------------------------ MODULE Buffers -------------------------------
(***************************************************************************)
(* consuming_buffers over a sequence of buffers, of which only the sizes   *)
(* matter: where its slice begins, and how it moves on.                    *)
(***************************************************************************)
EXTENDS Naturals, Sequences, SequencesExt

\* buffer_size(): the bytes of all buffers.
buffer_size(sizes) == FoldSeq(LAMBDA a, b : a + b, 0, sizes)

\* How many bytes the slice of data() lies into the buffers.
data(sizes, first_, front_skip_) ==
    front_skip_ + buffer_size(SubSeq(sizes, 1, first_ - 1))

\* Mutant: consume() goes one buffer ahead at most.
consume_once(sizes, i, skip, n) ==
    IF n = 0 \/ i > Len(sizes) THEN <<i, skip>>
    ELSE IF n < sizes[i] - skip THEN <<i, skip + n>>
    ELSE <<i + 1, 0>>

RECURSIVE consume(_, _, _, _)

\* consume(n), from i and skip: the new first_ and front_skip_.
consume(sizes, i, skip, n) ==
    IF n = 0 \/ i > Len(sizes) THEN <<i, skip>>
    ELSE IF n < sizes[i] - skip THEN <<i, skip + n>>
    ELSE consume(sizes, i + 1, 0, n - (sizes[i] - skip))
=============================================================================
