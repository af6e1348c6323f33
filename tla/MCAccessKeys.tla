---------------------------- MODULE MCAccessKeys ----------------------------
(* A small instance of AccessKeys: the keys of one tenant, and another tenant. *)
EXTENDS AccessKeys

CONSTANT t1

MCOwner == [k \in Keys |-> t1]
=============================================================================
