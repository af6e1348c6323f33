----------------------------- MODULE AccessKeys -----------------------------
(***************************************************************************)
(* Access keys behind the Redis cache: the lookup an S3 request makes      *)
(* before its signature is verified (cachedRegistry.LookupAccessKey called *)
(* by authMiddleware) and the admin operations that create, restrict and   *)
(* revoke keys.                                                            *)
(*                                                                         *)
(* PostgreSQL (table), Redis (cache), and every HTTP handler are separate  *)
(* actors: each round trip to PostgreSQL or Redis is one atomic step and   *)
(* any other handler may run between two of them.  Several gateway         *)
(* processes share both stores, so nothing orders handlers otherwise.      *)
(*                                                                         *)
(* The secret of a key never changes; what distinguishes the answers to a  *)
(* lookup is whether the key is usable and whether it may write.           *)
(***************************************************************************)
EXTENDS FiniteSets

CONSTANTS Keys,      \* access key ids
          Tenants,
          Owner,     \* the tenant a key is created for
          Requests,  \* slots for S3 requests being authenticated
          Admins,    \* slots for admin API calls on existing keys
          NoKey,     \* the key of an idle slot
          Faults     \* whether Redis, PostgreSQL or a process may fail

ASSUME OwnerAssumption == Owner \in [Keys -> Tenants]
ASSUME NoKeyAssumption == NoKey \notin Keys
ASSUME FaultsAssumption == Faults \in BOOLEAN

VARIABLES table,     \* access_keys: the status of the row of each key
          cache,     \* sgw:ak:<key>: what Redis holds for each key
          req,       \* the authentication in progress in each request slot
          adm        \* the key operation in progress in each admin slot

(***************************************************************************)
(* History variables.  held: the answers the table has had for a request's *)
(* key since the request began.  overtaken: requests whose key was         *)
(* evicted, or should have been, between their SELECT and their SET.       *)
(* suspect: keys whose entry was set by an overtaken request or missed an  *)
(* eviction.  doubtful: requests answered by such an entry, or by one      *)
(* whose eviction was still to come.                                       *)
(***************************************************************************)
VARIABLES held, overtaken, suspect, doubtful

store == <<table, cache>>
history == <<held, overtaken, suspect, doubtful>>
vars == <<table, cache, req, adm, held, overtaken, suspect, doubtful>>

Statuses == {"absent", "rw", "ro", "revoked"}
Active == {"rw", "ro"}
Answers == Active \cup {"none"}

\* Mutant: the SELECT forgets AND revoked_at IS NULL.
AnswerRevokedToo(status) == IF status = "absent" THEN "none" ELSE status

\* What SELECT ... WHERE access_key = $1 AND revoked_at IS NULL says of a row.
Answer(status) == IF status \in Active THEN status ELSE "none"

Flag(readonly) == IF readonly THEN "ro" ELSE "rw"

Idle == [pc |-> "idle", key |-> NoKey, ans |-> "none"]
Free == [pc |-> "idle", key |-> NoKey, tenant |-> NoKey, listed |-> {}]
Evicting(k) == [pc |-> "evict", key |-> k, tenant |-> NoKey, listed |-> {}]

EvictionPending(k) == \E a \in Admins : adm[a].pc = "evict" /\ adm[a].key = k

Init ==
  /\ table = [k \in Keys |-> "absent"]
  /\ cache = [k \in Keys |-> "empty"]
  /\ req = [r \in Requests |-> Idle]
  /\ adm = [a \in Admins |-> Free]
  /\ held = [r \in Requests |-> {}]
  /\ overtaken = {}
  /\ suspect = {}
  /\ doubtful = {}
-----------------------------------------------------------------------------
(***************************************************************************)
(* The S3 request.                                                         *)
(***************************************************************************)
Goto(r, step) == req' = [req EXCEPT ![r].pc = step]

Answered(r, step, answer) ==
  req' = [req EXCEPT ![r] = [pc |-> step, key |-> req[r].key, ans |-> answer]]

Leave(r) ==
  /\ req' = [req EXCEPT ![r] = Idle]
  /\ held' = [held EXCEPT ![r] = {}]
  /\ overtaken' = overtaken \ {r}
  /\ doubtful' = doubtful \ {r}

\* authMiddleware has parsed the request and looks up its access key id, which
\* may be any string: an id that was never issued is a key without a row.
LookupAccessKey(r, k) ==
  /\ req[r].pc = "idle"
  /\ req' = [req EXCEPT ![r] = [pc |-> "get", key |-> k, ans |-> "none"]]
  /\ held' = [held EXCEPT ![r] = {Answer(table[k])}]
  /\ UNCHANGED <<store, adm, overtaken, suspect, doubtful>>

\* GET finds an entry, positive or the NOT_FOUND sentinel, and it is the answer.
Hit(r) ==
  LET k == req[r].key IN
  /\ req[r].pc = "get"
  /\ cache[k] # "empty"
  /\ Answered(r, "check", cache[k])
  /\ doubtful' = IF k \in suspect \/ EvictionPending(k)
                 THEN doubtful \cup {r} ELSE doubtful
  /\ UNCHANGED <<store, adm, held, overtaken, suspect>>

\* GET finds nothing; an error of Redis is treated as a miss.
Miss(r) ==
  /\ req[r].pc = "get"
  /\ cache[req[r].key] = "empty" \/ Faults
  /\ Goto(r, "select")
  /\ UNCHANGED <<store, adm, history>>

Select(r) ==
  /\ req[r].pc = "select"
  /\ Answered(r, "fill", Answer(table[req[r].key]))
  /\ UNCHANGED <<store, adm, history>>

\* SET of the row or of the sentinel.
Fill(r) ==
  LET k == req[r].key IN
  /\ req[r].pc = "fill"
  /\ cache' = [cache EXCEPT ![k] = req[r].ans]
  /\ suspect' = IF r \in overtaken THEN suspect \cup {k} ELSE suspect \ {k}
  /\ overtaken' = overtaken \ {r}
  /\ Goto(r, "check")
  /\ UNCHANGED <<table, adm, held, doubtful>>

\* SET fails; its error is ignored and the row is used all the same.
FillLost(r) ==
  /\ Faults
  /\ req[r].pc = "fill"
  /\ overtaken' = overtaken \ {r}
  /\ Goto(r, "check")
  /\ UNCHANGED <<store, adm, held, suspect, doubtful>>

\* A GET or HEAD with a valid signature.
AdmitRead(r) ==
  /\ req[r].pc = "check"
  /\ req[r].ans \in Active
  /\ Goto(r, "read")
  /\ UNCHANGED <<store, adm, history>>

\* Mutant: the read-only flag is not looked at.
AdmitAnyWrite(r) ==
  /\ req[r].pc = "check"
  /\ req[r].ans \in Active
  /\ Goto(r, "write")
  /\ UNCHANGED <<store, adm, history>>

\* Any other method with a valid signature: refused to a read-only key.
AdmitWrite(r) ==
  /\ req[r].pc = "check"
  /\ req[r].ans = "rw"
  /\ Goto(r, "write")
  /\ UNCHANGED <<store, adm, history>>

\* 403 or 500: no such key, an expired URL, a bad signature, a read-only key.
Deny(r) ==
  /\ req[r].pc = "check"
  /\ Leave(r)
  /\ UNCHANGED <<store, adm, suspect>>

\* The handler behind authMiddleware has returned.
Served(r) ==
  /\ req[r].pc \in {"read", "write"}
  /\ Leave(r)
  /\ UNCHANGED <<store, adm, suspect>>

\* The SELECT fails, the client goes away or the process stops.
Abandon(r) ==
  /\ Faults
  /\ req[r].pc \in {"get", "select", "fill", "check"}
  /\ Leave(r)
  /\ UNCHANGED <<store, adm, suspect>>
-----------------------------------------------------------------------------
(***************************************************************************)
(* The admin API.  Calls that find no row change nothing and are left out. *)
(***************************************************************************)
Write(k, status) ==
  /\ table' = [table EXCEPT ![k] = status]
  /\ held' = [r \in Requests |-> IF req[r].key = k
                                 THEN held[r] \cup {Answer(status)}
                                 ELSE held[r]]

\* INSERT of a random id, which no request can have named before.
CreateAccessKey(k, readonly) ==
  /\ table[k] = "absent"
  /\ cache[k] = "empty"
  /\ \A r \in Requests : req[r].key # k
  /\ Write(k, Flag(readonly))
  /\ UNCHANGED <<cache, req, adm, overtaken, suspect, doubtful>>

\* Mutant: the entry is not evicted after the UPDATE.
UpdateWithoutEviction(a, k, t, readonly) ==
  /\ adm[a].pc = "idle"
  /\ table[k] \in Active
  /\ Owner[k] = t
  /\ Write(k, Flag(readonly))
  /\ UNCHANGED <<cache, req, adm, overtaken, suspect, doubtful>>

\* UPDATE ... WHERE id AND tenant_id AND revoked_at IS NULL RETURNING; the
\* eviction follows.
UpdateAccessKeyReadonly(a, k, t, readonly) ==
  /\ adm[a].pc = "idle"
  /\ table[k] \in Active
  /\ Owner[k] = t
  /\ Write(k, Flag(readonly))
  /\ adm' = [adm EXCEPT ![a] = Evicting(k)]
  /\ UNCHANGED <<cache, req, overtaken, suspect, doubtful>>

\* RevokeAccessKey first lists the tenant's keys, revoked ones included.
ListAccessKeys(a, k, t) ==
  /\ adm[a].pc = "idle"
  /\ table[k] # "absent"
  /\ adm' = [adm EXCEPT ![a] =
       [pc |-> "revoke", key |-> k, tenant |-> t,
        listed |-> {x \in Keys : table[x] # "absent" /\ Owner[x] = t}]]
  /\ UNCHANGED <<store, req, history>>

\* UPDATE ... SET revoked_at WHERE id AND tenant_id AND revoked_at IS NULL; the
\* key is evicted if the list had it.
RevokeAccessKey(a) ==
  LET k == adm[a].key IN
  /\ adm[a].pc = "revoke"
  /\ table[k] \in Active
  /\ Owner[k] = adm[a].tenant
  /\ Write(k, "revoked")
  /\ adm' = [adm EXCEPT ![a] = IF k \in adm[a].listed
                               THEN Evicting(k) ELSE Free]
  /\ UNCHANGED <<cache, req, overtaken, suspect, doubtful>>

\* The UPDATE matched no row (another tenant's key, or one just revoked) or failed.
RevokeFails(a) ==
  LET k == adm[a].key IN
  /\ adm[a].pc = "revoke"
  /\ table[k] \notin Active \/ Owner[k] # adm[a].tenant \/ Faults
  /\ adm' = [adm EXCEPT ![a] = Free]
  /\ UNCHANGED <<store, req, history>>

Overtake(k) ==
  overtaken' = overtaken \cup {r \in Requests : req[r].pc = "fill" /\ req[r].key = k}

\* InvalidateAccessKey: DEL, the last step of an update and of a revocation.
Evict(a) ==
  LET k == adm[a].key IN
  /\ adm[a].pc = "evict"
  /\ cache' = [cache EXCEPT ![k] = "empty"]
  /\ adm' = [adm EXCEPT ![a] = Free]
  /\ Overtake(k)
  /\ suspect' = suspect \ {k}
  /\ UNCHANGED <<table, req, held, doubtful>>

\* DEL fails and its error is ignored, or the process stops before sending it.
EvictLost(a) ==
  LET k == adm[a].key IN
  /\ Faults
  /\ adm[a].pc = "evict"
  /\ adm' = [adm EXCEPT ![a] = Free]
  /\ Overtake(k)
  /\ suspect' = suspect \cup {k}
  /\ UNCHANGED <<store, req, held, doubtful>>
-----------------------------------------------------------------------------
\* Mutant: only the sentinel is set with a TTL.
ExpireNegative(k) ==
  /\ cache[k] = "none"
  /\ cache' = [cache EXCEPT ![k] = "empty"]
  /\ suspect' = suspect \ {k}
  /\ UNCHANGED <<table, req, adm, held, overtaken, doubtful>>

\* Redis drops an entry at the end of its TTL (CACHE_TTL, or 30s if negative).
Expire(k) ==
  /\ cache[k] # "empty"
  /\ cache' = [cache EXCEPT ![k] = "empty"]
  /\ suspect' = suspect \ {k}
  /\ UNCHANGED <<table, req, adm, held, overtaken, doubtful>>

RequestStep(r) ==
  \/ \E k \in Keys : LookupAccessKey(r, k)
  \/ Hit(r) \/ Miss(r) \/ Select(r) \/ Fill(r) \/ FillLost(r)
  \/ AdmitRead(r) \/ AdmitWrite(r) \/ Deny(r) \/ Served(r) \/ Abandon(r)

AdminStep(a) ==
  \/ \E k \in Keys, t \in Tenants :
       \/ \E readonly \in BOOLEAN : UpdateAccessKeyReadonly(a, k, t, readonly)
       \/ ListAccessKeys(a, k, t)
  \/ RevokeAccessKey(a) \/ RevokeFails(a) \/ Evict(a) \/ EvictLost(a)

Next ==
  \/ \E r \in Requests : RequestStep(r)
  \/ \E a \in Admins : AdminStep(a)
  \/ \E k \in Keys, readonly \in BOOLEAN : CreateAccessKey(k, readonly)
  \/ \E k \in Keys : Expire(k)

Spec == Init /\ [][Next]_vars

\* The one thing eventual freshness needs: Redis honours every TTL.
FairSpec == Spec /\ \A k \in Keys : WF_vars(Expire(k))
-----------------------------------------------------------------------------
TypeOK ==
  /\ table \in [Keys -> Statuses]
  /\ cache \in [Keys -> Answers \cup {"empty"}]
  /\ req \in [Requests -> [pc : {"idle", "get", "select", "fill", "check",
                                 "read", "write"},
                           key : Keys \cup {NoKey},
                           ans : Answers]]
  /\ \A r \in Requests : req[r].pc # "idle" => req[r].key \in Keys
  /\ adm \in [Admins -> [pc : {"idle", "revoke", "evict"},
                         key : Keys \cup {NoKey},
                         tenant : Tenants \cup {NoKey},
                         listed : SUBSET Keys]]
  /\ \A a \in Admins : adm[a].pc # "idle" => adm[a].key \in Keys
  /\ held \in [Requests -> SUBSET Answers]
  /\ overtaken \subseteq Requests
  /\ suspect \subseteq Keys
  /\ doubtful \subseteq Requests

(***************************************************************************)
(* A cached answer that differs from the row has exactly two excuses: the  *)
(* eviction that follows the write is still to be made, or the entry is    *)
(* suspect.  Every write path evicts, and evicts after it has written      *)
(* (cache.go, "Manager write methods").                                    *)
(***************************************************************************)
StaleOnlyIfSuspect ==
  \A k \in Keys :
    cache[k] \notin {"empty", Answer(table[k])} =>
      EvictionPending(k) \/ k \in suspect

(***************************************************************************)
(* A request is let through to the handlers only on a right its key has    *)
(* had at some moment since the request arrived, unless it was answered by *)
(* an entry that was suspect or about to be evicted: a lookup through the  *)
(* cache is a regular read of the key except for those races               *)
(* (authMiddleware, auth.go).                                              *)
(***************************************************************************)
AccessWasGranted ==
  \A r \in Requests \ doubtful :
    /\ req[r].pc = "write" => "rw" \in held[r]
    /\ req[r].pc = "read" => held[r] \cap Active # {}

(***************************************************************************)
(* Once a key stays as it is, the cache comes to agree with it for good,   *)
(* whatever was lost or overtaken before: no write-back and no hit renews  *)
(* a stale entry (LookupAccessKey sets an entry only from the row).        *)
(***************************************************************************)
EventuallyFresh ==
  \A k \in Keys, s \in Statuses :
    <>[](table[k] = s) => <>[](cache[k] \in {"empty", Answer(s)})
=============================================================================
