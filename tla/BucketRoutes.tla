---------------------------- MODULE BucketRoutes ----------------------------
(***************************************************************************)
(* Gateway buckets behind the Redis cache: how an S3 request resolves a    *)
(* bucket name to a store of its tenant (cachedRegistry.ResolveBucket),    *)
(* how a CORS preflight reads the allowed origins                          *)
(* (GetBucketAllowedOrigins), and the admin operations that create, change *)
(* and delete stores and bucket mappings.                                  *)
(*                                                                         *)
(* As in AccessKeys every round trip to PostgreSQL or Redis is one step.   *)
(* The result of a SELECT is a set of rows with at most one member, so the *)
(* empty set is "no such bucket", in PostgreSQL as in the cache.           *)
(***************************************************************************)
EXTENDS FiniteSets

CONSTANTS Tenants,
          Stores,    \* store ids, each used once
          Owner,     \* the tenant of a store
          Buckets,   \* gateway bucket names, one name space for all tenants
          MappingIds,
          Configs,   \* encrypted backend configurations
          Modes,     \* presigned modes
          Origins,   \* lists of allowed origins
          Prefixes,  \* key prefixes of backend_bucket values; None is no prefix
          Requests,  \* slots for S3 requests and preflights
          Admins,    \* slots for admin API calls
          None,
          Faults     \* whether Redis, PostgreSQL or a process may fail

ASSUME OwnerAssumption == Owner \in [Stores -> Tenants]
ASSUME NoneAssumption == None \notin Tenants \cup Stores \cup Buckets \cup MappingIds
ASSUME SettingsAssumption == Configs # {} /\ Modes # {} /\ Origins # {}
ASSUME FaultsAssumption == Faults \in BOOLEAN

Settings == [config : Configs, mode : Modes, origins : Origins]
Mappings == [id : MappingIds, bucket : Buckets, store : Stores, prefix : Prefixes]
Routes == [id : MappingIds, store : Stores, prefix : Prefixes \cup {None},
           settings : Settings]

VARIABLES status,    \* stores: which ids have a row
          settings,  \* stores: the mutable columns
          mappings,  \* bucket_mappings: its rows
          used,      \* mapping ids that have been issued
          cached,    \* buckets with an entry sgw:bm:<bucket> in Redis
          entry,     \* that entry; {} is the NOT_FOUND sentinel
          req,       \* the lookup in progress in each request slot
          adm        \* the operation in progress in each admin slot

(***************************************************************************)
(* History variables, as in AccessKeys.  unevicted: buckets whose entry    *)
(* was made obsolete by an operation that evicts nothing afterwards.       *)
(***************************************************************************)
VARIABLES held, overtaken, suspect, unevicted, doubtful

tables == <<status, settings, mappings, used>>
redis == <<cached, entry>>
marks == <<overtaken, suspect, unevicted>>
vars == <<status, settings, mappings, used, cached, entry, req, adm,
          held, overtaken, suspect, unevicted, doubtful>>

\* bucket_mappings JOIN stores, for one mapping and for one bucket.
Route(m, columns) ==
  [id |-> m.id, store |-> m.store, prefix |-> m.prefix, settings |-> columns]
RoutesOf(b, rows, columns) ==
  {Route(m, columns[m.store]) : m \in {x \in rows : x.bucket = b}}
Current(b) == RoutesOf(b, mappings, settings)

\* What is written to the cache: of backend_bucket, which the SELECT has already
\* split, only the name of the bucket, so that a later hit finds no prefix.
Cached(routes) ==
  {[id |-> x.id, store |-> x.store, prefix |-> None, settings |-> x.settings] :
     x \in routes}

BucketsOf(s) == {m.bucket : m \in {x \in mappings : x.store = s}}

Blank == CHOOSE columns \in Settings : TRUE
Idle == [pc |-> "idle", tenant |-> None, bucket |-> None, ans |-> {}]
Call(step, op, s, todo) ==
  [pc |-> step, op |-> op, store |-> s, id |-> None, mode |-> Blank.mode,
   todo |-> todo, listed |-> {}]
Free == Call("idle", "none", None, {})

Steps == {"idle", "update", "list", "pre-evict", "unmap", "evict"}
Operations == {"none", "backend", "cors", "store", "mapping"}
Calls == [pc : Steps, op : Operations, store : Stores \cup {None},
          id : MappingIds \cup {None}, mode : Modes,
          todo : SUBSET Buckets, listed : SUBSET Mappings]

\* The entry of b is going to be evicted by a call that has already written.
EvictionPending(b) ==
  \E a \in Admins :
    \/ adm[a].pc = "list" /\ b \in BucketsOf(adm[a].store)
    \/ adm[a].pc = "evict" /\ b \in adm[a].todo

Init ==
  /\ status = [s \in Stores |-> "absent"]
  /\ settings = [s \in Stores |-> Blank]
  /\ mappings = {}
  /\ used = {}
  /\ cached = {}
  /\ entry = [b \in Buckets |-> {}]
  /\ req = [r \in Requests |-> Idle]
  /\ adm = [a \in Admins |-> Free]
  /\ held = [r \in Requests |-> {}]
  /\ overtaken = {}
  /\ suspect = {}
  /\ unevicted = {}
  /\ doubtful = {}
-----------------------------------------------------------------------------
(***************************************************************************)
(* Requests.  A preflight has no tenant.                                   *)
(***************************************************************************)
Preflight(r) == req[r].tenant = None
OfTenant(t, routes) == \A route \in routes : Owner[route.store] = t

Goto(r, step, routes) ==
  req' = [req EXCEPT ![r] = [pc |-> step, tenant |-> req[r].tenant,
                             bucket |-> req[r].bucket, ans |-> routes]]

Leave(r) ==
  /\ req' = [req EXCEPT ![r] = Idle]
  /\ held' = [held EXCEPT ![r] = {}]
  /\ overtaken' = overtaken \ {r}
  /\ doubtful' = doubtful \ {r}
  /\ UNCHANGED <<tables, redis, adm, suspect, unevicted>>

\* ResolveBucket for an authenticated tenant, or GetBucketAllowedOrigins.
Lookup(r, t, b) ==
  /\ req[r].pc = "idle"
  /\ req' = [req EXCEPT ![r] = [pc |-> "get", tenant |-> t, bucket |-> b,
                                ans |-> {}]]
  /\ held' = [held EXCEPT ![r] = {Current(b)}]
  /\ UNCHANGED <<tables, redis, adm, marks, doubtful>>

\* Mutant: the tenant of a cached route is not compared.
HitAnyTenant(r) ==
  LET b == req[r].bucket IN
  /\ req[r].pc = "get"
  /\ b \in cached
  /\ Preflight(r) => entry[b] # {}
  /\ Goto(r, "use", entry[b])
  /\ doubtful' = IF b \in suspect \cup unevicted \/ EvictionPending(b)
                 THEN doubtful \cup {r} ELSE doubtful
  /\ UNCHANGED <<tables, redis, adm, held, marks>>

\* GET finds an entry that answers the lookup.  The sentinel answers
\* ResolveBucket only, and a route of another tenant is refused (see Refused).
Hit(r) ==
  LET b == req[r].bucket IN
  /\ req[r].pc = "get"
  /\ b \in cached
  /\ IF Preflight(r) THEN entry[b] # {} ELSE OfTenant(req[r].tenant, entry[b])
  /\ Goto(r, "use", entry[b])
  /\ doubtful' = IF b \in suspect \cup unevicted \/ EvictionPending(b)
                 THEN doubtful \cup {r} ELSE doubtful
  /\ UNCHANGED <<tables, redis, adm, held, marks>>

\* GET finds nothing, fails, or finds the sentinel for a preflight.
Miss(r) ==
  LET b == req[r].bucket IN
  /\ req[r].pc = "get"
  /\ b \notin cached \/ (Preflight(r) /\ entry[b] = {}) \/ Faults
  /\ Goto(r, "select", {})
  /\ UNCHANGED <<tables, redis, adm, held, marks, doubtful>>

\* The answer of a preflight is not written back.
Select(r) ==
  LET b == req[r].bucket IN
  /\ req[r].pc = "select"
  /\ Preflight(r) \/ OfTenant(req[r].tenant, Current(b))
  /\ Goto(r, IF Preflight(r) THEN "use" ELSE "fill", Current(b))
  /\ UNCHANGED <<tables, redis, adm, held, marks, doubtful>>

\* ErrUnauthorized, from the entry or from the row; nothing is cached.
Refused(r) ==
  LET b == req[r].bucket IN
  /\ ~Preflight(r)
  /\ \/ req[r].pc = "get" /\ b \in cached /\ ~OfTenant(req[r].tenant, entry[b])
     \/ req[r].pc = "select" /\ ~OfTenant(req[r].tenant, Current(b))
  /\ Leave(r)

\* SET of the row or of the sentinel.
Fill(r) ==
  LET b == req[r].bucket IN
  /\ req[r].pc = "fill"
  /\ cached' = cached \cup {b}
  /\ entry' = [entry EXCEPT ![b] = Cached(req[r].ans)]
  /\ suspect' = IF r \in overtaken THEN suspect \cup {b} ELSE suspect \ {b}
  /\ unevicted' = unevicted \ {b}
  /\ overtaken' = overtaken \ {r}
  /\ Goto(r, "use", req[r].ans)
  /\ UNCHANGED <<tables, adm, held, doubtful>>

\* SET fails and its error is ignored.
FillLost(r) ==
  /\ Faults
  /\ req[r].pc = "fill"
  /\ overtaken' = overtaken \ {r}
  /\ Goto(r, "use", req[r].ans)
  /\ UNCHANGED <<tables, redis, adm, held, suspect, unevicted, doubtful>>

\* The handler has made its use of the route, or answered NoSuchBucket.
Finish(r) == req[r].pc = "use" /\ Leave(r)

\* The SELECT fails, the client goes away or the process stops.
Abandon(r) == Faults /\ req[r].pc \in {"get", "select", "fill"} /\ Leave(r)
-----------------------------------------------------------------------------
(***************************************************************************)
(* Admin operations on stores.  A call under the wrong tenant stops at     *)
(* verifyStoreOwnership, a call on a row that is gone at its UPDATE or     *)
(* DELETE; where neither changes anything they are left out.               *)
(***************************************************************************)
Overtaking(buckets) ==
  overtaken \cup {r \in Requests : req[r].pc = "fill" /\ req[r].bucket \in buckets}

\* What a running request may from now on be told.
Observe ==
  held' = [r \in Requests |->
             IF req[r].pc = "idle" THEN held[r]
             ELSE held[r] \cup {RoutesOf(req[r].bucket, mappings', settings')}]

\* DEL of the entries of some buckets.
Del(buckets) ==
  /\ cached' = cached \ buckets
  /\ entry' = [b \in Buckets |-> IF b \in buckets THEN {} ELSE entry[b]]
  /\ suspect' = suspect \ buckets
  /\ unevicted' = unevicted \ buckets

CreateStore(s, columns) ==
  /\ status[s] = "absent"
  /\ status' = [status EXCEPT ![s] = "live"]
  /\ settings' = [settings EXCEPT ![s] = columns]
  /\ UNCHANGED <<mappings, used, redis, req, adm, held, marks, doubtful>>

\* verifyStoreOwnership loads the row.  The mode to write is the one the call
\* supplies or, without one, the mode of the row just read.
VerifyStore(a, s, mode) ==
  /\ adm[a].pc = "idle"
  /\ status[s] = "live"
  /\ adm' = [adm EXCEPT ![a] = [Call("update", "backend", s, {}) EXCEPT !.mode = mode]]
  /\ UNCHANGED <<tables, redis, req, held, marks, doubtful>>

\* UPDATE of the configuration and of the mode together.
UpdateStoreBackend(a, config) ==
  LET s == adm[a].store IN
  /\ adm[a].pc = "update"
  /\ status[s] = "live"
  /\ settings' = [settings EXCEPT
       ![s] = [config |-> config, mode |-> adm[a].mode,
               origins |-> settings[s].origins]]
  /\ adm' = [adm EXCEPT ![a] = Call("list", "backend", s, {})]
  /\ UNCHANGED <<status, mappings, used, redis, req, marks, doubtful>>
  /\ Observe

UpdateStoreAllowedOrigins(a, s, origins) ==
  /\ adm[a].pc = "idle"
  /\ status[s] = "live"
  /\ settings' = [settings EXCEPT
       ![s] = [config |-> settings[s].config, mode |-> settings[s].mode,
               origins |-> origins]]
  /\ adm' = [adm EXCEPT ![a] = Call("list", "cors", s, {})]
  /\ UNCHANGED <<status, mappings, used, redis, req, marks, doubtful>>
  /\ Observe

\* Mutant: nothing is evicted after the UPDATE.
ListNothing(a) ==
  /\ adm[a].pc = "list"
  /\ adm' = [adm EXCEPT ![a] = Call("evict", adm[a].op, adm[a].store, {})]
  /\ UNCHANGED <<tables, redis, req, held, marks, doubtful>>

\* invalidateBucketsForStore after the UPDATE: list, then DEL one by one.
ListForEviction(a) ==
  LET s == adm[a].store IN
  /\ adm[a].pc = "list"
  /\ adm' = [adm EXCEPT ![a] = Call("evict", adm[a].op, s, BucketsOf(s))]
  /\ UNCHANGED <<tables, redis, req, held, marks, doubtful>>

NextBucket(a, b) ==
  /\ b \in adm[a].todo
  /\ adm' = [adm EXCEPT ![a] = Call(adm[a].pc, adm[a].op, adm[a].store,
                                   adm[a].todo \ {b})]

Evict(a, b) ==
  /\ adm[a].pc = "evict"
  /\ NextBucket(a, b)
  /\ Del({b})
  /\ overtaken' = Overtaking({b})
  /\ UNCHANGED <<tables, req, held, doubtful>>

\* DEL fails; its error is ignored and the next bucket follows.
EvictLost(a, b) ==
  /\ Faults
  /\ adm[a].pc = "evict"
  /\ NextBucket(a, b)
  /\ suspect' = suspect \cup {b}
  /\ overtaken' = Overtaking({b})
  /\ UNCHANGED <<tables, redis, req, held, unevicted, doubtful>>

\* DeleteStore lists and evicts first ...
DeleteStoreLists(a, s) ==
  /\ adm[a].pc = "idle"
  /\ status[s] = "live"
  /\ adm' = [adm EXCEPT ![a] = Call("pre-evict", "store", s, BucketsOf(s))]
  /\ UNCHANGED <<tables, redis, req, held, marks, doubtful>>

PreEvict(a, b) ==
  /\ adm[a].pc = "pre-evict"
  /\ NextBucket(a, b)
  /\ \/ Del({b})
     \/ Faults /\ UNCHANGED <<redis, suspect, unevicted>>
  /\ UNCHANGED <<tables, req, held, overtaken, doubtful>>

\* ... and then deletes the row and, ON DELETE CASCADE, its mappings.
DeleteStore(a) ==
  LET s == adm[a].store IN
  /\ adm[a].pc = "pre-evict"
  /\ adm[a].todo = {}
  /\ status[s] = "live"
  /\ status' = [status EXCEPT ![s] = "deleted"]
  /\ settings' = [settings EXCEPT ![s] = Blank]
  /\ mappings' = {m \in mappings : m.store # s}
  /\ Observe
  /\ overtaken' = Overtaking(BucketsOf(s))
  /\ unevicted' = unevicted \cup (BucketsOf(s) \cap cached)
  /\ adm' = [adm EXCEPT ![a] = Call("evict", "store", s, {})]
  /\ UNCHANGED <<used, redis, req, suspect, doubtful>>
-----------------------------------------------------------------------------
(***************************************************************************)
(* Admin operations on mappings.                                           *)
(***************************************************************************)
\* INSERT under UNIQUE (gateway_bucket); no entry is evicted.
CreateBucketMapping(s, b, id, prefix) ==
  /\ status[s] = "live"
  /\ id \notin used
  /\ Current(b) = {}
  /\ mappings' = mappings \cup {[id |-> id, bucket |-> b, store |-> s, prefix |-> prefix]}
  /\ used' = used \cup {id}
  /\ UNCHANGED <<status, settings>>
  /\ Observe
  /\ overtaken' = Overtaking({b})
  /\ unevicted' = unevicted \cup ({b} \cap cached)
  /\ UNCHANGED <<redis, req, adm, suspect, doubtful>>

\* DeleteBucketMapping lists the mappings of the store to learn the name.
ListBucketMappings(a, s, id) ==
  /\ adm[a].pc = "idle"
  /\ status[s] = "live"
  /\ id \in used
  /\ adm' = [adm EXCEPT ![a] = [Call("unmap", "mapping", s, {}) EXCEPT
                                  !.id = id,
                                  !.listed = {m \in mappings : m.store = s}]]
  /\ UNCHANGED <<tables, redis, req, held, marks, doubtful>>

\* Mutants: the mapping's id is evicted instead of its bucket, or nothing is.
DeleteEvictsId(a) ==
  LET Chosen(rows) == {m \in rows : m.id = adm[a].id /\ m.store = adm[a].store} IN
  /\ adm[a].pc = "unmap"
  /\ Chosen(mappings) # {}
  /\ mappings' = mappings \ Chosen(mappings)
  /\ UNCHANGED <<status, settings, used>>
  /\ Observe
  /\ adm' = [adm EXCEPT ![a] = Call("evict", "mapping", adm[a].store, {adm[a].id})]
  /\ UNCHANGED <<redis, req, marks, doubtful>>

DeleteEvictsNothing(a) ==
  LET Chosen(rows) == {m \in rows : m.id = adm[a].id /\ m.store = adm[a].store} IN
  /\ adm[a].pc = "unmap"
  /\ Chosen(mappings) # {}
  /\ mappings' = mappings \ Chosen(mappings)
  /\ UNCHANGED <<status, settings, used>>
  /\ Observe
  /\ adm' = [adm EXCEPT ![a] = Call("evict", "mapping", adm[a].store, {})]
  /\ UNCHANGED <<redis, req, marks, doubtful>>

\* DELETE WHERE id AND store_id; the name is evicted if the list had it.
DeleteBucketMapping(a) ==
  LET Chosen(rows) == {m \in rows : m.id = adm[a].id /\ m.store = adm[a].store} IN
  /\ adm[a].pc = "unmap"
  /\ Chosen(mappings) # {}
  /\ mappings' = mappings \ Chosen(mappings)
  /\ UNCHANGED <<status, settings, used>>
  /\ Observe
  /\ adm' = [adm EXCEPT ![a] = Call("evict", "mapping", adm[a].store,
                                   {m.bucket : m \in Chosen(adm[a].listed)})]
  /\ UNCHANGED <<redis, req, marks, doubtful>>
-----------------------------------------------------------------------------
\* The handler returns.
Return(a) ==
  /\ adm[a].pc = "evict"
  /\ adm[a].todo = {}
  /\ adm' = [adm EXCEPT ![a] = Free]
  /\ UNCHANGED <<tables, redis, req, held, marks, doubtful>>

\* The UPDATE or DELETE finds no row, and the handler returns its error.
RowGone(a) ==
  /\ \/ adm[a].pc = "update" /\ status[adm[a].store] # "live"
     \/ adm[a].pc = "pre-evict" /\ status[adm[a].store] # "live"
     \/ /\ adm[a].pc = "unmap"
        /\ ~\E m \in mappings : m.id = adm[a].id /\ m.store = adm[a].store
  /\ adm' = [adm EXCEPT ![a] = Free]
  /\ UNCHANGED <<tables, redis, req, held, marks, doubtful>>

\* PostgreSQL fails, the caller goes away or the process stops: what was
\* written stays, what was still to be evicted is not.
Fail(a) ==
  LET missed == CASE adm[a].pc = "list" -> BucketsOf(adm[a].store)
                  [] adm[a].pc = "evict" -> adm[a].todo
                  [] OTHER -> {}
  IN /\ Faults
     /\ adm[a].pc # "idle"
     /\ adm' = [adm EXCEPT ![a] = Free]
     /\ suspect' = suspect \cup missed
     /\ overtaken' = Overtaking(missed)
     /\ UNCHANGED <<tables, redis, req, held, unevicted, doubtful>>

\* Mutant: only the sentinel is set with a TTL.
ExpireNegative(b) ==
  /\ b \in cached
  /\ entry[b] = {}
  /\ Del({b})
  /\ UNCHANGED <<tables, req, adm, held, overtaken, doubtful>>

\* Redis drops an entry at the end of its TTL.
Expire(b) ==
  /\ b \in cached
  /\ Del({b})
  /\ UNCHANGED <<tables, req, adm, held, overtaken, doubtful>>

RequestStep(r) ==
  \/ \E t \in Tenants \cup {None}, b \in Buckets : Lookup(r, t, b)
  \/ Hit(r) \/ Miss(r) \/ Select(r) \/ Refused(r)
  \/ Fill(r) \/ FillLost(r) \/ Finish(r) \/ Abandon(r)

StoreStep(a) ==
  \/ \E s \in Stores, mode \in Modes : VerifyStore(a, s, mode)
  \/ \E config \in Configs : UpdateStoreBackend(a, config)
  \/ \E s \in Stores, origins \in Origins : UpdateStoreAllowedOrigins(a, s, origins)
  \/ ListForEviction(a)
  \/ \E s \in Stores : DeleteStoreLists(a, s)
  \/ DeleteStore(a)
  \/ \E b \in Buckets : Evict(a, b) \/ EvictLost(a, b) \/ PreEvict(a, b)

MappingStep(a) ==
  \/ \E s \in Stores, id \in MappingIds : ListBucketMappings(a, s, id)
  \/ DeleteBucketMapping(a)

AdminStep(a) == StoreStep(a) \/ MappingStep(a) \/ Return(a) \/ RowGone(a) \/ Fail(a)

Next ==
  \/ \E r \in Requests : RequestStep(r)
  \/ \E a \in Admins : AdminStep(a)
  \/ \E s \in Stores, columns \in Settings : CreateStore(s, columns)
  \/ \E s \in Stores, b \in Buckets, id \in MappingIds, prefix \in Prefixes :
       CreateBucketMapping(s, b, id, prefix)
  \/ \E b \in Buckets : Expire(b)

Spec == Init /\ [][Next]_vars

\* The one thing eventual freshness needs: Redis honours every TTL.
FairSpec == Spec /\ \A b \in Buckets : WF_vars(Expire(b))
-----------------------------------------------------------------------------
RequestTypeOK ==
  /\ req \in [Requests -> [pc : {"idle", "get", "select", "fill", "use"},
                           tenant : Tenants \cup {None},
                           bucket : Buckets \cup {None},
                           ans : SUBSET Routes]]
  /\ \A r \in Requests : req[r].pc # "idle" => req[r].bucket \in Buckets

AdminTypeOK ==
  /\ adm \in [Admins -> Calls]
  /\ \A a \in Admins : adm[a].pc # "idle" => adm[a].store \in Stores

HistoryTypeOK ==
  /\ held \in [Requests -> SUBSET SUBSET Routes]
  /\ overtaken \subseteq Requests
  /\ suspect \subseteq Buckets
  /\ unevicted \subseteq Buckets
  /\ doubtful \subseteq Requests

TypeOK ==
  /\ status \in [Stores -> {"absent", "live", "deleted"}]
  /\ settings \in [Stores -> Settings]
  /\ mappings \subseteq Mappings
  /\ used \subseteq MappingIds
  /\ cached \subseteq Buckets
  /\ entry \in [Buckets -> SUBSET Routes]
  /\ RequestTypeOK
  /\ AdminTypeOK
  /\ HistoryTypeOK

(***************************************************************************)
(* An entry that differs from the tables in more than the prefix, which    *)
(* the cache never holds, has one of three excuses: a call that has        *)
(* written is still going to evict it, it is suspect (an eviction was      *)
(* lost, or overtaken by a write-back), or the operation that made it      *)
(* obsolete is one of the two that evict nothing afterwards (cache.go, the *)
(* write methods of cachedRegistry).                                       *)
(***************************************************************************)
StaleOnlyIfSuspect ==
  \A b \in cached :
    entry[b] # Cached(Current(b)) => EvictionPending(b) \/ b \in suspect \cup unevicted

(***************************************************************************)
(* Outside those races a lookup is a regular read: the route it answers,   *)
(* or the absence of one, was in the tables at some moment since it began, *)
(* but for the prefix (ResolveBucket and GetBucketAllowedOrigins,          *)
(* cache.go).                                                              *)
(***************************************************************************)
RouteWasCurrent ==
  \A r \in Requests \ doubtful :
    req[r].pc = "use" =>
      \E routes \in held[r] : req[r].ans \in {routes, Cached(routes)}

(***************************************************************************)
(* A tenant is only ever given a route to a store of its own, however old  *)
(* the entry it comes from, and although a bucket name may have passed     *)
(* from one tenant to another in the meantime (ResolveBucket, cache.go and *)
(* postgres.go).                                                           *)
(***************************************************************************)
TenantIsolation ==
  \A r \in Requests :
    req[r].pc = "use" /\ ~Preflight(r) => OfTenant(req[r].tenant, req[r].ans)

(***************************************************************************)
(* Once the route of a bucket stays as it is, the cache comes to agree     *)
(* with it for good, negative entries included (the two TTLs of cache.go). *)
(***************************************************************************)
EventuallyFresh ==
  \A b \in Buckets :
    <>[][UNCHANGED Current(b)]_vars =>
      <>[](b \in cached => entry[b] = Cached(Current(b)))
-----------------------------------------------------------------------------
(***************************************************************************)
(* Claims of the documentation and of comments.                            *)
(***************************************************************************)
Quiescent == (\A a \in Admins : adm[a].pc = "idle") /\ (\A r \in Requests : req[r].pc = "idle")

(***************************************************************************)
(* Deleting a store evicts the entries of all affected buckets (README.md, *)
(* "DELETE .../stores"), apart from entries set by an overtaken request.   *)
(***************************************************************************)
DeletedStoreIsEvicted ==
  Quiescent =>
    \A b \in cached \ suspect : \A route \in entry[b] : status[route.store] # "deleted"

(***************************************************************************)
(* "The prefix is applied to every backend operation transparently"        *)
(* (README.md, "Bucket prefix"): the route a request uses has the prefix   *)
(* of its mapping, whether it comes from the table or from the cache.      *)
(***************************************************************************)
PrefixIsApplied ==
  \A r \in Requests :
    req[r].pc = "use" /\ ~Preflight(r) =>
      \A route \in req[r].ans, m \in mappings :
        m.id = route.id => route.prefix = m.prefix
=============================================================================
