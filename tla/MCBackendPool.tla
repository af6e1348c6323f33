---------------------------- MODULE MCBackendPool ----------------------------
(* A small instance of BackendPool: two callers in one process, one in another. *)
EXTENDS BackendPool, TLC

CONSTANTS p1, p2, c3

MCAt == [c \in Callers |-> IF c = c3 THEN p2 ELSE p1]
=============================================================================
