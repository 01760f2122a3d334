------------------------------- MODULE MCReads -------------------------------
(* Small instances of Reads for TLC: contents are the sizes they take.     *)
EXTENDS Reads, TLC

MCSizeOf(v) == v

Chain(sort, limit, skip) == [sort |-> sort, limit |-> limit, skip |-> skip]

MCChains ==
    {Chain(FALSE, 1, 0), Chain(FALSE, None, 1), Chain(TRUE, 1, 1)}

OneFind == {Chain(FALSE, 1, 0)}

Symmetry == Permutations(DocIds) \cup Permutations(Cursors)

=============================================================================
