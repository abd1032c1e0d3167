----------------------------- MODULE MCDurable -----------------------------
(* Small instances of DurableDatabase. *)
EXTENDS DurableDatabase, TLC

CONSTANTS t1, t2, t3, k1, k2, v1, v2

\* A put of two keys, an overwrite, and a delete.
PutBoth   == {<<k1, v1>>, <<k2, v1>>}
Overwrite == {<<k1, v2>>}
Remove    == {<<k1, Absent>>}

SmallBatches == {PutBoth, Remove}
TinyBatches  == {Overwrite, Remove}
Perms == Permutations(Tx)
Both == BOOLEAN
NoRepair == {FALSE}
=============================================================================
