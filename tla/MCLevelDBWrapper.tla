-------------------------- MODULE MCLevelDBWrapper --------------------------
(***************************************************************************)
(* LevelDBWrapper for TLC: two keys, of which the old database has one.    *)
(***************************************************************************)
EXTENDS LevelDBWrapper

CONSTANTS k1, k2

MCKey == {k1, k2}
MCOld == [k \in MCKey |-> IF k = k1 THEN 1 ELSE Absent]
=============================================================================
