------------------------------ MODULE MCGateway ------------------------------
(* Two small instances of Gateway in one. *)
EXTENDS Gateway, TLC

CONSTANTS s1, s2, t1, t2, p1, p2, r1, r2

VARIABLE scenario

\* Each tenant has a store.
MCOwner == [s \in Stores |-> IF s = s1 THEN t1 ELSE t2]

\* Request r2 runs in the second process, all else in the first.
MCAt == [c \in Requests \cup Browsers \cup Admins |-> IF c = r2 THEN p2 ELSE p1]

\* One store, the configuration of which changes, and a request in another process.
\* Updates of the origins and deletions of a mapping leave the pools alone: the former
\* come while nothing is mapped, the latter in the other scenario.
OneStore ==
  /\ scenario = "one store"
  /\ \A s, u \in Stores : status[s] # "absent" /\ status[u] # "absent" => s = u
  /\ \A m, n \in used : m = n
  /\ \A a \in Admins : adm[a].op # "mapping" /\ (adm[a].op = "cors" => mappings = {})
  /\ req[r2].pc # "idle" => \A s \in Stores : status[s] # "absent" => Owner[s] = req[r2].tenant

\* Two stores, and a bucket that passes from one to the other, with a request, which is
\* no preflight, in the process of the admin.
OneProcess ==
  /\ scenario = "one process"
  /\ \A s, u \in Stores : settings[s] = settings[u]
  /\ \A a \in Admins : adm[a].op \notin {"backend", "cors"}
  /\ req[r1].pc # "idle" => ~Preflight(r1)

\* A configuration may change once: an update does not bring a former one back.
Forward ==
  \A s \in Stores : settings'[s] # settings[s] /\ status'[s] = "live" =>
    status[s] = "live" /\ settings[s] = Blank

MCInit == GatewayInit /\ scenario \in {"one store", "one process"}

MCNext ==
  /\ UNCHANGED scenario
  /\ \/ scenario = "one store" /\ Serve(r2)
     \/ scenario = "one process" /\ Serve(r1)
     \/ \E x \in Browsers : Browse(x)
     \/ \E a \in Admins : Administer(a)
     \/ Between
  /\ (OneStore \/ OneProcess)'
  /\ Forward

MCSpec == MCInit /\ [][MCNext]_<<allVars, scenario>>

\* The stores change places together with their owners.
Swap == [x \in {s1, s2, t1, t2} |->
  CASE x = s1 -> s2 [] x = s2 -> s1 [] x = t1 -> t2 [] x = t2 -> t1]

Symmetry == Permutations(MappingIds) \cup {Swap}
=============================================================================
