--------------------------- MODULE MCKeyRotation ---------------------------
(* A small instance of KeyRotation. *)
EXTENDS KeyRotation
=============================================================================
