------------------------ MODULE MCGatewayCredentials ------------------------
(* The smallest instance of Gateway: one process, one store, one request. *)
EXTENDS Gateway

CONSTANTS t1, p1

MCOwner == [s \in Stores |-> t1]
MCAt == [c \in Requests \cup Browsers \cup Admins |-> p1]
=============================================================================
