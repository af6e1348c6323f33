--------------------------- MODULE MCBucketRoutes ---------------------------
(* Small instances of BucketRoutes. *)
EXTENDS BucketRoutes

CONSTANTS s2, t1, t2, m1, m2, a2

\* Store s2, where there is one, belongs to a second tenant.
MCOwner == [s \in Stores |-> IF s = s2 THEN t2 ELSE t1]

\* Either a second admin call or a second store with its mapping takes part.  The
\* columns of the second store stay as they are, and m1 is the first of the ids.
Small ==
  \/ adm[a2] = Free /\ settings[s2] = Blank /\ (m2 \in used => m1 \in used)
  \/ status[s2] = "absent" /\ m2 \notin used

MCNext == Next /\ Small'

MCSpec == Init /\ [][MCNext]_vars /\ \A b \in Buckets : WF_vars(Expire(b))
=============================================================================
