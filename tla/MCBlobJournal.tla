--------------------------- MODULE MCBlobJournal ---------------------------
(***************************************************************************)
(* BlobJournal for TLC: the databases, their slots and the transactions    *)
(* are each as good as any other.                                          *)
(***************************************************************************)
EXTENDS BlobJournal, TLC

Symmetry == Permutations(Database) \cup Permutations(Slot) \cup Permutations(Txn)
=============================================================================
