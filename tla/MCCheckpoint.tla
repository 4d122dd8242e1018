---------------------------- MODULE MCCheckpoint ----------------------------
(* Connections are interchangeable, and so are uuids.                      *)
EXTENDS Checkpoint, TLC

MCSymmetry == Permutations(Conns) \cup Permutations(Uuids)
=============================================================================
