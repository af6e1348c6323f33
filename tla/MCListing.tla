----------------------------- MODULE MCListing -----------------------------
(* A small instance of Listing: 2 is the folder of 3 and 4. *)
EXTENDS Listing

MCKeys == {1, 3, 4, 5}
MCUp == [k \in MCKeys |-> IF k \in {3, 4} THEN 2 ELSE k]
=============================================================================
