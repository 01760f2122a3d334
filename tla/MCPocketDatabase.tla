-------------------------- MODULE MCPocketDatabase --------------------------
(* Small instances of PocketDatabase for TLC.                              *)
EXTENDS Reopening, TLC

CONSTANTS Date, Iso    \* a Date, and the string JSON makes of it

\* Every other value is a string that is stored as it is.
MCKind   == [v \in Values |-> IF v = Date THEN "other" ELSE "string"]
MCStored == [v \in Values |-> IF v = Date THEN Iso ELSE v]

StringIndex == [type |-> "string", unique |-> FALSE]
UniqueIndex == [type |-> "string", unique |-> TRUE]

UniqueOnly == {UniqueIndex}
BothDefs   == {StringIndex, UniqueIndex}

Symmetry == Permutations(ColIds) \cup Permutations(DocIds)
              \cup Permutations(Values \ {Date, Iso})

=============================================================================
