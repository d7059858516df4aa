---------------------------- MODULE MCRecordStore ----------------------------
(* Small instances of RecordStore. *)
EXTENDS RecordStore, TLC

CONSTANTS p1, p2, c1, c2, b1, t1, t2, t3

MCSymmetry == Permutations(Thread)
=============================================================================
