------------------------- MODULE MCAddressBookAdmin -------------------------
(* Three sessions and two addresses; both sets are interchangeable.        *)
EXTENDS AddressBookAdmin, TLC

MCSymmetry == Permutations(Uuids) \cup Permutations(Keys)
=============================================================================
