---------------------------- MODULE MCPostOffice ----------------------------
(* Connections are interchangeable, and so are uuids.                      *)
EXTENDS PostOfficeProperties, TLC

MCSymmetry == Permutations(Conns) \cup Permutations(Uuids)
=============================================================================
