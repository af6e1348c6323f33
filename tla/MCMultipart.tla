----------------------------- MODULE MCMultipart ----------------------------
(* A small instance of Multipart: one bucket of a provider, which the bucket of the *)
(* gateway resolves to with its prefix or without.                                  *)
EXTENDS Multipart, TLC

CONSTANTS whole, k1

MCBucketOf == [t \in Targets |-> whole]

\* Uploads are created for k1 and with the prefix: keys and targets are alike.  Either
\* there is one, and its calls may be for any key and reach any target, or there are
\* two, and all that happens is in this place.
Here == Place(whole, k1)
Two == \A u \in Uploads : created[u] # {}
AllHere == rerouted = {} /\ \A r \in Requests : \A q \in req[r] : q.place = Here

ArriveHere(r) == (\E u \in Uploads : Arrive(r, u, k1, whole)) /\ (Two => AllHere)'
ArriveElsewhere(r) ==
  /\ ~Two
  /\ \E u \in Uploads, key \in Keys, t \in Targets :
       created[u] # {} /\ Place(t, key) # Here /\ Arrive(r, u, key, t)

MCNext == (\E r \in Requests : ArriveHere(r) \/ ArriveElsewhere(r) \/ Proceed(r)) \/ Background

MCSpec == Init /\ [][MCNext]_vars

Symmetry == Permutations(Uploads) \cup Permutations(Requests)
=============================================================================
