---------------------------- MODULE GatewayProofs ----------------------------
(***************************************************************************)
(* Proofs about BucketRoutes and about Gateway, which extends it, for any  *)
(* number of processes, requests, browsers, admin calls, stores, tenants   *)
(* and buckets.  What is proved of BucketRoutes and of BackendPool holds   *)
(* of the composition, because every step of it is a step, or none, of     *)
(* each of the two.                                                        *)
(***************************************************************************)
EXTENDS Gateway, TLAPS

PoolFacts == INSTANCE BackendPoolProofs WITH Callers <- Requests \cup Browsers
-----------------------------------------------------------------------------
(***************************************************************************)
(* The routes.                                                             *)
(***************************************************************************)

(* A store is created with some settings, and reset to some on deletion. *)
LEMMA BlankType == Blank \in Settings
<1>1. PICK config \in Configs, mode \in Modes, origins \in Origins : TRUE
  BY SettingsAssumption
<1>2. [config |-> config, mode |-> mode, origins |-> origins] \in Settings
  BY DEF Settings
<1>3. QED
  BY <1>2 DEF Blank

(* What the join of the two tables returns for a bucket is a set of routes. *)
LEMMA RoutesOfType ==
  ASSUME NEW b, NEW rows \in SUBSET Mappings, NEW columns \in [Stores -> Settings]
  PROVE  RoutesOf(b, rows, columns) \subseteq Routes
BY DEF RoutesOf, Route, Routes, Mappings

(* Without its prefix a route is still a route. *)
LEMMA CachedType ==
  ASSUME NEW routes \in SUBSET Routes
  PROVE  Cached(routes) \subseteq Routes
BY DEF Cached, Routes

(* A call in progress is well typed, and has the fields it is given. *)
LEMMA CallType ==
  ASSUME NEW step \in Steps, NEW op \in Operations,
         NEW s \in Stores \cup {None}, NEW todo \in SUBSET Buckets
  PROVE  /\ Call(step, op, s, todo) \in Calls
         /\ Call(step, op, s, todo).pc = step
         /\ Call(step, op, s, todo).store = s
         /\ Call(step, op, s, todo).todo = todo
BY BlankType DEF Call, Calls, Settings

(* Replacing the call in one slot by another keeps the slots well typed. *)
LEMMA SetCallType ==
  ASSUME AdminTypeOK, NEW a \in Admins, NEW c \in Calls,
         c.pc # "idle" => c.store \in Stores,
         adm' = [adm EXCEPT ![a] = c]
  PROVE  AdminTypeOK'
BY DEF AdminTypeOK

(* The same for the calls that carry only a step, a store and buckets. *)
LEMMA NextCallType ==
  ASSUME AdminTypeOK, NEW a \in Admins, NEW step \in Steps, NEW op \in Operations,
         NEW s \in Stores, NEW todo \in SUBSET Buckets,
         adm' = [adm EXCEPT ![a] = Call(step, op, s, todo)]
  PROVE  AdminTypeOK'
<1> DEFINE c == Call(step, op, s, todo)
<1>1. c \in Calls /\ c.store = s
  BY CallType
<1>2. adm' = [adm EXCEPT ![a] = c]
  OBVIOUS
<1> HIDE DEF c
<1>3. QED
  BY <1>1, <1>2, SetCallType

(* A slot may always be freed. *)
LEMMA FreeType ==
  ASSUME AdminTypeOK, NEW a \in Admins, adm' = [adm EXCEPT ![a] = Free]
  PROVE  AdminTypeOK'
<1>1. Free \in Calls /\ Free.pc = "idle"
  BY CallType DEF Free, Steps, Operations
<1>2. QED
  BY <1>1, SetCallType

(* What the fields of a call in progress hold. *)
LEMMA CallFields ==
  ASSUME AdminTypeOK, NEW a \in Admins
  PROVE  /\ adm[a].pc \in Steps
         /\ adm[a].op \in Operations
         /\ adm[a].mode \in Modes
         /\ adm[a].todo \in SUBSET Buckets
         /\ adm[a].listed \in SUBSET Mappings
         /\ adm[a].pc # "idle" => adm[a].store \in Stores
BY DEF AdminTypeOK, Calls

(* Requests in progress keep observing sets of routes. *)
LEMMA ObserveType ==
  ASSUME Observe, held \in [Requests -> SUBSET SUBSET Routes],
         mappings' \in SUBSET Mappings, settings' \in [Stores -> Settings]
  PROVE  held' \in [Requests -> SUBSET SUBSET Routes]
<1>1. \A b : RoutesOf(b, mappings', settings') \subseteq Routes
  BY RoutesOfType
<1>2. QED
  BY <1>1 DEF Observe
-----------------------------------------------------------------------------
(***************************************************************************)
(* Type correctness: what the tables, the cache and the calls in progress  *)
(* can hold (registry/postgres.go, registry/cache.go).                     *)
(***************************************************************************)
THEOREM TypeCorrect == Spec => []TypeOK
<1> USE DEF TypeOK, RequestTypeOK, HistoryTypeOK
<1>1. Init => TypeOK
  <2> SUFFICES ASSUME Init PROVE TypeOK
    OBVIOUS
  <2>1. Free \in Calls /\ Free.pc = "idle"
    BY CallType DEF Free, Steps, Operations
  <2>2. AdminTypeOK
    BY <2>1 DEF Init, AdminTypeOK
  <2>3. QED
    BY <2>2, BlankType DEF Init, Idle
<1>2. TypeOK /\ [Next]_vars => TypeOK'
  <2> SUFFICES ASSUME TypeOK, [Next]_vars PROVE TypeOK'
    OBVIOUS
  <2> USE DEF tables, redis, marks
  <2>1. \A b : Current(b) \subseteq Routes
    BY RoutesOfType DEF Current
  <2>2. \A s : BucketsOf(s) \subseteq Buckets
    BY DEF BucketsOf, Mappings
  <2>3. ASSUME NEW r \in Requests, RequestStep(r) PROVE TypeOK'
    <3> USE DEF Goto, Leave, Idle, AdminTypeOK
    <3>1. ASSUME NEW t \in Tenants \cup {None}, NEW b \in Buckets, Lookup(r, t, b)
          PROVE TypeOK'
      BY <3>1, <2>1 DEF Lookup
    <3>2. CASE Hit(r)
      BY <3>2 DEF Hit
    <3>3. CASE Miss(r)
      BY <3>3 DEF Miss
    <3>4. CASE Select(r)
      BY <3>4, <2>1 DEF Select
    <3>5. CASE Refused(r)
      BY <3>5 DEF Refused
    <3>6. CASE Fill(r)
      <4>1. Cached(req[r].ans) \subseteq Routes
        BY CachedType
      <4>2. QED
        BY <3>6, <4>1 DEF Fill
    <3>7. CASE FillLost(r)
      BY <3>7 DEF FillLost
    <3>8. CASE Finish(r)
      BY <3>8 DEF Finish
    <3>9. CASE Abandon(r)
      BY <3>9 DEF Abandon
    <3>10. QED
      BY <2>3, <3>1, <3>2, <3>3, <3>4, <3>5, <3>6, <3>7, <3>8, <3>9
         DEF RequestStep
  <2>4. ASSUME NEW a \in Admins, AdminStep(a) PROVE TypeOK'
    <3> USE CallFields
    <3>0. /\ "list" \in Steps /\ "evict" \in Steps /\ "pre-evict" \in Steps
          /\ "backend" \in Operations /\ "cors" \in Operations
          /\ "store" \in Operations /\ "mapping" \in Operations
          /\ {} \in SUBSET Buckets
          /\ AdminTypeOK
      BY DEF Steps, Operations
    <3>1. ASSUME NEW s \in Stores, NEW mode \in Modes, VerifyStore(a, s, mode)
          PROVE TypeOK'
      <4> DEFINE c == [Call("update", "backend", s, {}) EXCEPT !.mode = mode]
      <4>1. c \in Calls /\ c.store = s
        BY BlankType DEF Call, Calls, Settings, Steps, Operations
      <4>2. AdminTypeOK'
        BY <3>1, <4>1, SetCallType DEF VerifyStore
      <4>3. QED
        BY <3>1, <4>2 DEF VerifyStore
    <3>2. ASSUME NEW config \in Configs, UpdateStoreBackend(a, config)
          PROVE TypeOK'
      <4>1. settings' \in [Stores -> Settings]
        BY <3>2 DEF UpdateStoreBackend, Settings
      <4>2. held' \in [Requests -> SUBSET SUBSET Routes]
        BY <3>2, <4>1, ObserveType DEF UpdateStoreBackend
      <4>3. AdminTypeOK'
        <5>1. adm[a].store \in Stores
          BY <3>2 DEF UpdateStoreBackend
        <5>2. adm' = [adm EXCEPT ![a] = Call("list", "backend", adm[a].store, {})]
          BY <3>2 DEF UpdateStoreBackend
        <5>3. QED
          BY <3>0, <5>1, <5>2, NextCallType
      <4>4. QED
        BY <3>2, <4>1, <4>2, <4>3 DEF UpdateStoreBackend
    <3>3. ASSUME NEW s \in Stores, NEW origins \in Origins,
                 UpdateStoreAllowedOrigins(a, s, origins)
          PROVE TypeOK'
      <4>1. settings' \in [Stores -> Settings]
        BY <3>3 DEF UpdateStoreAllowedOrigins, Settings
      <4>2. held' \in [Requests -> SUBSET SUBSET Routes]
        BY <3>3, <4>1, ObserveType DEF UpdateStoreAllowedOrigins
      <4>3. AdminTypeOK'
        BY <3>0, <3>3, NextCallType DEF UpdateStoreAllowedOrigins
      <4>4. QED
        BY <3>3, <4>1, <4>2, <4>3 DEF UpdateStoreAllowedOrigins
    <3>4. CASE ListForEviction(a)
      <4>1. AdminTypeOK'
        BY <3>0, <3>4, <2>2, NextCallType DEF ListForEviction
      <4>2. QED
        BY <3>4, <4>1 DEF ListForEviction
    <3>5. ASSUME NEW s \in Stores, DeleteStoreLists(a, s) PROVE TypeOK'
      <4>1. AdminTypeOK'
        BY <3>0, <3>5, <2>2, NextCallType DEF DeleteStoreLists
      <4>2. QED
        BY <3>5, <4>1 DEF DeleteStoreLists
    <3>6. CASE DeleteStore(a)
      <4>1. settings' \in [Stores -> Settings] /\ mappings' \in SUBSET Mappings
        BY <3>6, BlankType DEF DeleteStore
      <4>2. held' \in [Requests -> SUBSET SUBSET Routes]
        BY <3>6, <4>1, ObserveType DEF DeleteStore
      <4>3. AdminTypeOK'
        <5>1. adm[a].store \in Stores
          BY <3>6 DEF DeleteStore
        <5>2. adm' = [adm EXCEPT ![a] = Call("evict", "store", adm[a].store, {})]
          BY <3>6 DEF DeleteStore
        <5>3. QED
          BY <3>0, <5>1, <5>2, NextCallType
      <4>4. QED
        BY <3>6, <4>1, <4>2, <4>3 DEF DeleteStore, Overtaking
    <3>7. ASSUME NEW b \in Buckets, NextBucket(a, b), adm[a].pc # "idle"
          PROVE AdminTypeOK'
      <4>1. adm[a].store \in Stores /\ adm[a].todo \ {b} \in SUBSET Buckets
        BY <3>7
      <4>2. adm' = [adm EXCEPT ![a] = Call(adm[a].pc, adm[a].op, adm[a].store,
                                           adm[a].todo \ {b})]
        BY <3>7 DEF NextBucket
      <4>3. QED
        BY <4>1, <4>2, NextCallType
    <3>8. ASSUME NEW b \in Buckets, Evict(a, b) PROVE TypeOK'
      BY <3>8, <3>7 DEF Evict, Del, Overtaking
    <3>9. ASSUME NEW b \in Buckets, EvictLost(a, b) PROVE TypeOK'
      BY <3>9, <3>7 DEF EvictLost, Overtaking
    <3>10. ASSUME NEW b \in Buckets, PreEvict(a, b) PROVE TypeOK'
      BY <3>10, <3>7 DEF PreEvict, Del
    <3>11. ASSUME NEW s \in Stores, NEW id \in MappingIds, ListBucketMappings(a, s, id)
           PROVE TypeOK'
      <4> DEFINE c == [Call("unmap", "mapping", s, {}) EXCEPT
                         !.id = id, !.listed = {m \in mappings : m.store = s}]
      <4>1. c \in Calls /\ c.store = s
        BY BlankType DEF Call, Calls, Settings, Steps, Operations
      <4>2. AdminTypeOK'
        BY <3>11, <4>1, SetCallType DEF ListBucketMappings
      <4>3. QED
        BY <3>11, <4>2 DEF ListBucketMappings
    <3>12. CASE DeleteBucketMapping(a)
      <4>1. mappings' \in SUBSET Mappings
        BY <3>12 DEF DeleteBucketMapping
      <4>2. held' \in [Requests -> SUBSET SUBSET Routes]
        BY <3>12, <4>1, ObserveType DEF DeleteBucketMapping
      <4>3. {m.bucket : m \in {x \in adm[a].listed :
                                x.id = adm[a].id /\ x.store = adm[a].store}}
              \in SUBSET Buckets
        BY DEF Mappings
      <4>4. AdminTypeOK'
        BY <3>0, <3>12, <4>3, NextCallType DEF DeleteBucketMapping
      <4>5. QED
        BY <3>12, <4>1, <4>2, <4>4 DEF DeleteBucketMapping
    <3>13. CASE Return(a)
      BY <3>13, FreeType DEF Return
    <3>14. CASE RowGone(a)
      BY <3>14, FreeType DEF RowGone
    <3>15. CASE Fail(a)
      BY <3>15, <2>2, FreeType DEF Fail, Overtaking
    <3>16. QED
      BY <2>4, <3>1, <3>2, <3>3, <3>4, <3>5, <3>6, <3>8, <3>9, <3>10, <3>11,
         <3>12, <3>13, <3>14, <3>15 DEF AdminStep, StoreStep, MappingStep
  <2>5. ASSUME NEW s \in Stores, NEW columns \in Settings, CreateStore(s, columns)
        PROVE TypeOK'
    BY <2>5 DEF CreateStore, AdminTypeOK
  <2>6. ASSUME NEW s \in Stores, NEW b \in Buckets, NEW id \in MappingIds,
               NEW prefix \in Prefixes, CreateBucketMapping(s, b, id, prefix)
        PROVE TypeOK'
    <3>1. mappings' \in SUBSET Mappings
      BY <2>6 DEF CreateBucketMapping, Mappings
    <3>2. held' \in [Requests -> SUBSET SUBSET Routes]
      BY <2>6, <3>1, ObserveType DEF CreateBucketMapping
    <3>3. QED
      BY <2>6, <3>1, <3>2 DEF CreateBucketMapping, Overtaking, AdminTypeOK
  <2>7. ASSUME NEW b \in Buckets, Expire(b) PROVE TypeOK'
    BY <2>7 DEF Expire, Del, AdminTypeOK
  <2>8. CASE UNCHANGED vars
    BY <2>8 DEF vars, AdminTypeOK
  <2>9. QED
    BY <2>3, <2>4, <2>5, <2>6, <2>7, <2>8 DEF Next
<1>3. QED
  BY <1>1, <1>2, PTL DEF Spec
-----------------------------------------------------------------------------
(***************************************************************************)
(* The inductive strengthening of StaleOnlyIfSuspect.  A route on its way  *)
(* to the cache is excused like a cached one, a call that is going to      *)
(* delete a mapping knows which entry to evict, and mappings never outlive *)
(* their store.                                                            *)
(***************************************************************************)
FillOnlyIfOvertaken ==
  \A r \in Requests :
    req[r].pc = "fill" /\ req[r].ans # Current(req[r].bucket) =>
      EvictionPending(req[r].bucket) \/ r \in overtaken

DeletionKnowsMapping ==
  \A a \in Admins :
    adm[a].pc = "unmap" =>
      /\ adm[a].id \in used
      /\ \A m \in mappings :
           m.id = adm[a].id /\ m.store = adm[a].store => m \in adm[a].listed

MappingsHaveStores == \A m \in mappings : status[m.store] = "live"

FreshInv ==
  /\ StaleOnlyIfSuspect
  /\ FillOnlyIfOvertaken
  /\ DeletionKnowsMapping
  /\ MappingsHaveStores

(* The route of a bucket depends on its mappings and on their stores only. *)
LEMMA SameRoutes ==
  ASSUME NEW b, NEW rows, NEW rows2, NEW columns, NEW columns2,
         {m \in rows : m.bucket = b} = {m \in rows2 : m.bucket = b},
         \A m \in rows : m.bucket = b => columns[m.store] = columns2[m.store]
  PROVE  RoutesOf(b, rows, columns) = RoutesOf(b, rows2, columns2)
BY DEF RoutesOf

(* While the tables stay, so do the routes and the buckets of each store. *)
LEMMA SameTables ==
  ASSUME UNCHANGED <<settings, mappings>>
  PROVE  /\ \A b : Current(b)' = Current(b)
         /\ \A s : BucketsOf(s)' = BucketsOf(s)
BY DEF Current, BucketsOf

(* The step of a request leaves every eviction pending that was pending. *)
LEMMA SamePending ==
  ASSUME UNCHANGED <<settings, mappings, adm>>
  PROVE  \A b : EvictionPending(b)' = EvictionPending(b)
BY SameTables DEF EvictionPending

(* The step of a call keeps pending what the other calls have pending. *)
LEMMA OtherPending ==
  ASSUME NEW a \in Admins, NEW c, adm' = [adm EXCEPT ![a] = c], AdminTypeOK,
         NEW b, EvictionPending(b),
         \A s : b \in BucketsOf(s) => b \in BucketsOf(s)',
         \/ adm[a].pc \notin {"list", "evict"}
         \/ adm[a].pc = "evict" /\ b \notin adm[a].todo
  PROVE  EvictionPending(b)'
<1>1. PICK x \in Admins : \/ adm[x].pc = "list" /\ b \in BucketsOf(adm[x].store)
                          \/ adm[x].pc = "evict" /\ b \in adm[x].todo
  BY DEF EvictionPending
<1>2. x # a
  BY <1>1
<1>3. adm'[x] = adm[x]
  BY <1>2 DEF AdminTypeOK
<1>4. b \in BucketsOf(adm[x].store) => b \in BucketsOf(adm[x].store)'
  <2>1. PICK t : t = adm[x].store
    OBVIOUS
  <2>2. b \in BucketsOf(t) => b \in BucketsOf(t)'
    OBVIOUS
  <2>3. t = adm'[x].store
    BY <2>1, <1>3
  <2>4. QED
    BY <2>1, <2>2, <2>3 DEF BucketsOf
<1>5. QED
  BY <1>1, <1>3, <1>4 DEF EvictionPending

(***************************************************************************)
(* No step leaves a route that differs from the tables in the cache, or on *)
(* its way there, without an excuse, and no deletion of a mapping loses    *)
(* track of the entry it must evict (the write methods, cache.go).         *)
(***************************************************************************)
THEOREM FreshCorrect == Spec => []FreshInv
<1> USE DEF FreshInv, StaleOnlyIfSuspect, FillOnlyIfOvertaken,
            DeletionKnowsMapping, MappingsHaveStores
<1>1. Init => FreshInv
  <2>1. Free.pc = "idle"
    BY DEF Free, Call
  <2>2. QED
    BY <2>1 DEF Init, Idle
<1>2. TypeOK /\ FreshInv /\ [Next]_vars => FreshInv'
  <2> SUFFICES ASSUME TypeOK, FreshInv, [Next]_vars PROVE FreshInv'
    OBVIOUS
  <2> USE DEF tables, redis, marks
  <2>1. ASSUME NEW r \in Requests, RequestStep(r) PROVE FreshInv'
    <3>1. UNCHANGED <<status, settings, mappings, used, adm>>
      BY <2>1 DEF RequestStep, Lookup, Hit, Miss, Select, Refused, Fill, FillLost,
                  Finish, Abandon, Leave
    <3>2. \A b : Current(b)' = Current(b)
      BY <3>1, SameTables
    <3>3. \A b : EvictionPending(b)' = EvictionPending(b)
      BY <3>1, SamePending
    <3>4. DeletionKnowsMapping' /\ MappingsHaveStores'
      BY <3>1
    <3>5. TypeOK /\ req \in [Requests -> [pc : {"idle", "get", "select", "fill", "use"},
                           tenant : Tenants \cup {None},
                           bucket : Buckets \cup {None},
                           ans : SUBSET Routes]]
      BY DEF TypeOK, RequestTypeOK
    <3>14. req[r].pc = "fill" => req[r].bucket \in Buckets
      BY DEF TypeOK, RequestTypeOK
    <3> HIDE DEF DeletionKnowsMapping, MappingsHaveStores
    <3>6. CASE Fill(r)
      <4>1. StaleOnlyIfSuspect'
        <5> DEFINE b == req[r].bucket
        <5>1. entry'[b] = Cached(req[r].ans) /\ \A x \in cached' : x # b => x \in cached /\ entry'[x] = entry[x]
          <6>1. /\ entry' = [entry EXCEPT ![b] = Cached(req[r].ans)]
                /\ cached' = cached \cup {b}
                /\ b \in Buckets
                /\ entry \in [Buckets -> SUBSET Routes]
            BY <3>6, <3>14 DEF Fill, TypeOK
          <6>2. QED
            BY <6>1
        <5>2. suspect \ {b} \subseteq suspect' /\ unevicted \ {b} \subseteq unevicted'
          BY <3>6 DEF Fill
        <5>3. r \in overtaken => b \in suspect'
          BY <3>6 DEF Fill
        <5>4. req[r].ans # Current(b) => EvictionPending(b) \/ r \in overtaken
          BY <3>6 DEF Fill
        <5> HIDE DEF b
        <5>5. QED
          BY <3>2, <3>3, <5>1, <5>2, <5>3, <5>4
      <4>2. FillOnlyIfOvertaken'
        BY <3>2, <3>3, <3>5, <3>6 DEF Fill, Goto
      <4>3. QED
        BY <3>4, <4>1, <4>2
    <3>7. ASSUME UNCHANGED <<redis, suspect, unevicted>> PROVE StaleOnlyIfSuspect'
      BY <3>2, <3>3, <3>7
    <3>8. CASE Select(r)
      BY <3>2, <3>3, <3>4, <3>5, <3>7, <3>8 DEF Select, Goto
    <3>9. ASSUME NEW t \in Tenants \cup {None}, NEW b \in Buckets, Lookup(r, t, b)
          PROVE FreshInv'
      BY <3>2, <3>3, <3>4, <3>5, <3>7, <3>9 DEF Lookup
    <3>10. CASE Leave(r)
      BY <3>2, <3>3, <3>4, <3>5, <3>7, <3>10 DEF Leave, Idle
    <3>11. CASE Hit(r) \/ Miss(r)
      BY <3>2, <3>3, <3>4, <3>5, <3>7, <3>11 DEF Hit, Miss, Goto
    <3>12. CASE FillLost(r)
      BY <3>2, <3>3, <3>4, <3>5, <3>7, <3>12 DEF FillLost, Goto
    <3>13. QED
      BY <2>1, <3>6, <3>8, <3>9, <3>10, <3>11, <3>12
         DEF RequestStep, Refused, Finish, Abandon
  <2>2. ASSUME NEW a \in Admins, AdminStep(a) PROVE FreshInv'
    <3> USE CallFields
    <3>0. AdminTypeOK /\ RequestTypeOK /\ HistoryTypeOK
      BY DEF TypeOK
    <3>1. ASSUME NEW c, adm' = [adm EXCEPT ![a] = c],
                 \/ adm[a].pc \notin {"list", "evict"}
                 \/ adm[a].pc = "evict" /\ adm[a].todo = {},
                 c.pc # "unmap",
                 UNCHANGED <<tables, redis, req, marks>>
          PROVE FreshInv'
      <4>1. \A b : Current(b)' = Current(b)
        BY <3>1, SameTables
      <4>2. \A b : EvictionPending(b) => EvictionPending(b)'
        BY <3>0, <3>1, SameTables, OtherPending
      <4>3. DeletionKnowsMapping'
        BY <3>0, <3>1 DEF AdminTypeOK
      <4>4. QED
        BY <3>1, <4>1, <4>2, <4>3
    <3>2. ASSUME NEW s \in Stores, adm[a].pc \notin {"list", "evict"},
                 NEW columns \in Settings, settings' = [settings EXCEPT ![s] = columns],
                 NEW op, adm' = [adm EXCEPT ![a] = Call("list", op, s, {})],
                 UNCHANGED <<status, mappings, used, redis, req, marks>>
          PROVE FreshInv'
      <4>1. \A b : b \notin BucketsOf(s) => Current(b)' = Current(b)
        <5> SUFFICES ASSUME NEW b, b \notin BucketsOf(s) PROVE Current(b)' = Current(b)
          OBVIOUS
        <5>1. \A m \in mappings : m.bucket = b => settings'[m.store] = settings[m.store]
          BY <3>2 DEF BucketsOf, TypeOK
        <5>2. QED
          BY <3>2, <5>1 DEF Current, RoutesOf
      <4>2. \A x : BucketsOf(x)' = BucketsOf(x)
        BY <3>2 DEF BucketsOf
      <4>3. \A b : EvictionPending(b) => EvictionPending(b)'
        BY <3>0, <3>2, <4>2, OtherPending
      <4>4. adm'[a].pc = "list" /\ adm'[a].store = s
        BY <3>0, <3>2 DEF AdminTypeOK, Call
      <4>5. \A b \in BucketsOf(s) : EvictionPending(b)'
        BY <4>2, <4>4 DEF EvictionPending
      <4>6. StaleOnlyIfSuspect'
        BY <3>2, <4>1, <4>3, <4>5
      <4>7. FillOnlyIfOvertaken'
        BY <3>2, <4>1, <4>3, <4>5
      <4>8. DeletionKnowsMapping' /\ MappingsHaveStores'
        BY <3>0, <3>2, <4>4 DEF AdminTypeOK
      <4>9. QED
        BY <4>6, <4>7, <4>8
    <3>3. ASSUME NEW s \in Stores, NEW mode \in Modes, VerifyStore(a, s, mode)
          PROVE FreshInv'
      <4> DEFINE c == [Call("update", "backend", s, {}) EXCEPT !.mode = mode]
      <4>1. c.pc = "update"
        BY DEF Call
      <4>2. /\ adm' = [adm EXCEPT ![a] = c]
            /\ adm[a].pc = "idle"
            /\ UNCHANGED <<tables, redis, req, marks>>
        BY <3>3 DEF VerifyStore
      <4> HIDE DEF c
      <4>3. QED
        BY <3>1, <4>1, <4>2
    <3>4. ASSUME NEW config \in Configs, UpdateStoreBackend(a, config)
          PROVE FreshInv'
      <4> DEFINE s == adm[a].store
                 columns == [config |-> config, mode |-> adm[a].mode,
                             origins |-> settings[s].origins]
      <4>1. s \in Stores /\ adm[a].pc = "update"
        BY <3>0, <3>4 DEF UpdateStoreBackend, AdminTypeOK
      <4>2. columns \in Settings
        BY <4>1, <3>0 DEF Settings, TypeOK, AdminTypeOK, Calls
      <4>3. QED
        BY <3>2, <3>4, <4>1, <4>2 DEF UpdateStoreBackend
    <3>5. ASSUME NEW s \in Stores, NEW origins \in Origins,
                 UpdateStoreAllowedOrigins(a, s, origins)
          PROVE FreshInv'
      <4> DEFINE columns == [config |-> settings[s].config,
                             mode |-> settings[s].mode, origins |-> origins]
      <4>1. columns \in Settings
        BY DEF Settings, TypeOK
      <4>2. QED
        BY <3>2, <3>5, <4>1 DEF UpdateStoreAllowedOrigins
    <3>6. CASE ListForEviction(a)
      <4> DEFINE s == adm[a].store
      <4>1. /\ adm' = [adm EXCEPT ![a] = Call("evict", adm[a].op, s, BucketsOf(s))]
            /\ adm[a].pc = "list"
            /\ UNCHANGED <<tables, redis, req, held, marks, doubtful>>
        BY <3>6 DEF ListForEviction
      <4>2. \A b : Current(b)' = Current(b)
        BY <4>1, SameTables
      <4>3. \A x : BucketsOf(x)' = BucketsOf(x)
        BY <4>1, SameTables
      <4>4. /\ adm'[a].pc = "evict"
            /\ adm'[a].todo = BucketsOf(s)
            /\ \A x \in Admins \ {a} : adm'[x] = adm[x]
        BY <3>0, <4>1 DEF AdminTypeOK, Call
      <4>5. \A b : EvictionPending(b) => EvictionPending(b)'
        BY <4>1, <4>3, <4>4 DEF EvictionPending
      <4>6. DeletionKnowsMapping'
        BY <3>0, <4>1, <4>4 DEF AdminTypeOK
      <4>7. QED
        BY <4>1, <4>2, <4>5, <4>6
    <3>7. ASSUME NEW s \in Stores, DeleteStoreLists(a, s) PROVE FreshInv'
      <4> DEFINE c == Call("pre-evict", "store", s, BucketsOf(s))
      <4>1. c.pc = "pre-evict"
        BY DEF Call
      <4>2. /\ adm' = [adm EXCEPT ![a] = c]
            /\ adm[a].pc = "idle"
            /\ UNCHANGED <<tables, redis, req, marks>>
        BY <3>7 DEF DeleteStoreLists
      <4> HIDE DEF c
      <4>3. QED
        BY <3>1, <4>1, <4>2
    <3>8. ASSUME NEW b \in Buckets, NextBucket(a, b),
                 adm[a].pc \in {"evict", "pre-evict"},
                 UNCHANGED <<tables, req>>
          PROVE  /\ \A x : Current(x)' = Current(x)
                 /\ \A x : x # b /\ EvictionPending(x) => EvictionPending(x)'
                 /\ DeletionKnowsMapping' /\ MappingsHaveStores'
      <4>1. UNCHANGED <<settings, mappings>>
        BY <3>8
      <4>2. \A x : Current(x)' = Current(x)
        BY <4>1, SameTables
      <4>3. \A x : BucketsOf(x)' = BucketsOf(x)
        BY <4>1, SameTables
      <4>4. /\ adm'[a].pc = adm[a].pc
            /\ adm'[a].todo = adm[a].todo \ {b}
            /\ \A x \in Admins \ {a} : adm'[x] = adm[x]
        BY <3>0, <3>8 DEF AdminTypeOK, NextBucket, Call
      <4>5. \A x : x # b /\ EvictionPending(x) => EvictionPending(x)'
        BY <3>8, <4>3, <4>4 DEF EvictionPending
      <4>6. DeletionKnowsMapping' /\ MappingsHaveStores'
        BY <3>8, <4>4
      <4>7. QED
        BY <4>2, <4>5, <4>6
    <3>9. ASSUME NEW b \in Buckets, Evict(a, b) PROVE FreshInv'
      <4>1. StaleOnlyIfSuspect'
        BY <3>8, <3>9 DEF Evict, Del, TypeOK
      <4>2. FillOnlyIfOvertaken'
        BY <3>8, <3>9 DEF Evict, Overtaking
      <4>3. QED
        BY <3>8, <3>9, <4>1, <4>2 DEF Evict
    <3>10. ASSUME NEW b \in Buckets, EvictLost(a, b) PROVE FreshInv'
      <4>1. StaleOnlyIfSuspect'
        BY <3>8, <3>10 DEF EvictLost
      <4>2. FillOnlyIfOvertaken'
        BY <3>8, <3>10 DEF EvictLost, Overtaking
      <4>3. QED
        BY <3>8, <3>10, <4>1, <4>2 DEF EvictLost
    <3>11. ASSUME NEW b \in Buckets, PreEvict(a, b) PROVE FreshInv'
      <4>1. /\ adm[a].pc = "pre-evict"
            /\ NextBucket(a, b)
            /\ UNCHANGED <<tables, req, overtaken>>
            /\ Del({b}) \/ UNCHANGED <<redis, suspect, unevicted>>
        BY <3>11 DEF PreEvict
      <4>2. \A x : EvictionPending(x) => EvictionPending(x)'
        <5>1. \A x : BucketsOf(x)' = BucketsOf(x)
          BY <4>1, SameTables
        <5>2. QED
          BY <3>0, <4>1, <5>1, OtherPending DEF NextBucket
      <4>3. \A x : Current(x)' = Current(x)
        BY <4>1, SameTables
      <4>4. CASE Del({b})
        BY <3>8, <4>1, <4>2, <4>3, <4>4 DEF Del, TypeOK
      <4>5. CASE UNCHANGED <<redis, suspect, unevicted>>
        BY <3>8, <4>1, <4>2, <4>3, <4>5
      <4>6. QED
        BY <4>1, <4>4, <4>5
    <3>12. CASE DeleteStore(a)
      <4> DEFINE s == adm[a].store
      <4>1. /\ adm' = [adm EXCEPT ![a] = Call("evict", "store", s, {})]
            /\ adm[a].pc = "pre-evict"
            /\ status' = [status EXCEPT ![s] = "deleted"]
            /\ settings' = [settings EXCEPT ![s] = Blank]
            /\ mappings' = {m \in mappings : m.store # s}
            /\ overtaken' = Overtaking(BucketsOf(s))
            /\ unevicted' = unevicted \cup (BucketsOf(s) \cap cached)
            /\ UNCHANGED <<used, redis, req, suspect>>
        BY <3>12 DEF DeleteStore
      <4>2. \A b : b \notin BucketsOf(s) => Current(b)' = Current(b)
        <5> SUFFICES ASSUME NEW b, b \notin BucketsOf(s) PROVE Current(b)' = Current(b)
          OBVIOUS
        <5>1. {m \in mappings : m.bucket = b} = {m \in mappings' : m.bucket = b}
          BY <4>1 DEF BucketsOf
        <5>2. \A m \in mappings : m.bucket = b => settings[m.store] = settings'[m.store]
          BY <4>1 DEF BucketsOf, TypeOK
        <5>3. QED
          BY <5>1, <5>2, SameRoutes DEF Current
      <4>3. \A b : b \notin BucketsOf(s) => \A x : b \in BucketsOf(x) => b \in BucketsOf(x)'
        BY <4>1 DEF BucketsOf
      <4>4. \A b : b \notin BucketsOf(s) /\ EvictionPending(b) => EvictionPending(b)'
        BY <3>0, <4>1, <4>3, OtherPending
      <4>5. StaleOnlyIfSuspect'
        BY <4>1, <4>2, <4>4
      <4>6. FillOnlyIfOvertaken'
        BY <4>1, <4>2, <4>4 DEF Overtaking
      <4>7. DeletionKnowsMapping'
        BY <3>0, <4>1 DEF AdminTypeOK, Call
      <4>8. MappingsHaveStores'
        BY <4>1 DEF TypeOK, Mappings
      <4>9. QED
        BY <4>5, <4>6, <4>7, <4>8
    <3>13. ASSUME NEW s \in Stores, NEW id \in MappingIds, ListBucketMappings(a, s, id)
           PROVE FreshInv'
      <4> DEFINE c == [Call("unmap", "mapping", s, {}) EXCEPT
                         !.id = id, !.listed = {m \in mappings : m.store = s}]
      <4>1. /\ c.store = s /\ c.id = id /\ c.listed = {m \in mappings : m.store = s}
        BY DEF Call
      <4>2. /\ adm' = [adm EXCEPT ![a] = c]
            /\ adm[a].pc = "idle"
            /\ id \in used
            /\ UNCHANGED <<tables, redis, req, marks>>
        BY <3>13 DEF ListBucketMappings
      <4> HIDE DEF c
      <4>3. \A b : Current(b)' = Current(b)
        BY <4>2, SameTables
      <4>4. \A b : EvictionPending(b) => EvictionPending(b)'
        BY <3>0, <4>2, SameTables, OtherPending
      <4>5. DeletionKnowsMapping'
        BY <3>0, <4>1, <4>2 DEF AdminTypeOK
      <4>6. QED
        BY <4>2, <4>3, <4>4, <4>5
    <3>14. CASE DeleteBucketMapping(a)
      <4> DEFINE Chosen(rows) == {m \in rows : m.id = adm[a].id /\ m.store = adm[a].store}
                 gone == {m.bucket : m \in Chosen(mappings)}
      <4>1. /\ adm' = [adm EXCEPT ![a] = Call("evict", "mapping", adm[a].store,
                                            {m.bucket : m \in Chosen(adm[a].listed)})]
            /\ adm[a].pc = "unmap"
            /\ mappings' = mappings \ Chosen(mappings)
            /\ UNCHANGED <<status, settings, used, redis, req, marks>>
        BY <3>14 DEF DeleteBucketMapping
      <4>2. gone \subseteq {m.bucket : m \in Chosen(adm[a].listed)}
        BY <4>1
      <4>3. /\ adm'[a].pc = "evict"
            /\ gone \subseteq adm'[a].todo
        BY <3>0, <4>1, <4>2 DEF AdminTypeOK, Call
      <4>4. \A b : b \notin gone => Current(b)' = Current(b)
        <5> SUFFICES ASSUME NEW b, b \notin gone PROVE Current(b)' = Current(b)
          OBVIOUS
        <5>1. {m \in mappings : m.bucket = b} = {m \in mappings' : m.bucket = b}
          BY <4>1
        <5>2. \A m \in mappings : m.bucket = b => settings[m.store] = settings'[m.store]
          BY <4>1
        <5>3. QED
          BY <5>1, <5>2, SameRoutes DEF Current
      <4>5. \A b : b \notin gone => \A x : b \in BucketsOf(x) => b \in BucketsOf(x)'
        BY <4>1 DEF BucketsOf
      <4>6. \A b : EvictionPending(b) => EvictionPending(b)'
        <5>1. \A b \in gone : EvictionPending(b)'
          BY <4>3 DEF EvictionPending
        <5> HIDE DEF gone
        <5>2. \A b : b \notin gone /\ EvictionPending(b) => EvictionPending(b)'
          BY <3>0, <4>1, <4>5, OtherPending
        <5>3. QED
          BY <5>1, <5>2
      <4>7. \A b \in gone : EvictionPending(b)'
        BY <4>3 DEF EvictionPending
      <4>8. DeletionKnowsMapping' /\ MappingsHaveStores'
        BY <3>0, <4>1, <4>3 DEF AdminTypeOK
      <4> HIDE DEF gone
      <4>9. StaleOnlyIfSuspect'
        BY <4>1, <4>4, <4>6, <4>7
      <4>10. FillOnlyIfOvertaken'
        BY <4>1, <4>4, <4>6, <4>7
      <4>11. QED
        BY <4>8, <4>9, <4>10
    <3>15. Free.pc = "idle"
      BY DEF Free, Call
    <3>16. CASE Return(a)
      BY <3>1, <3>15, <3>16 DEF Return
    <3>17. CASE RowGone(a)
      BY <3>1, <3>15, <3>17 DEF RowGone
    <3>18. CASE Fail(a)
      <4> DEFINE missed == CASE adm[a].pc = "list" -> BucketsOf(adm[a].store)
                             [] adm[a].pc = "evict" -> adm[a].todo
                             [] OTHER -> {}
      <4>1. /\ adm' = [adm EXCEPT ![a] = Free]
            /\ suspect' = suspect \cup missed
            /\ overtaken' = Overtaking(missed)
            /\ UNCHANGED <<tables, redis, req, unevicted>>
        BY <3>18 DEF Fail
      <4>2. \A b : Current(b)' = Current(b)
        BY <4>1, SameTables
      <4>3. \A b : BucketsOf(b)' = BucketsOf(b)
        BY <4>1, SameTables
      <4>4. \A x \in Admins : x # a => adm'[x] = adm[x]
        BY <3>0, <4>1 DEF AdminTypeOK
      <4>5. \A b : EvictionPending(b) => EvictionPending(b)' \/ b \in missed
        BY <4>3, <4>4 DEF EvictionPending
      <4>6. DeletionKnowsMapping'
        BY <3>0, <3>15, <4>1 DEF AdminTypeOK
      <4> HIDE DEF missed
      <4>7. StaleOnlyIfSuspect'
        BY <4>1, <4>2, <4>5
      <4>8. FillOnlyIfOvertaken'
        BY <4>1, <4>2, <4>5 DEF Overtaking
      <4>9. QED
        BY <4>1, <4>6, <4>7, <4>8
    <3>19. QED
      BY <2>2, <3>3, <3>4, <3>5, <3>6, <3>7, <3>9, <3>10, <3>11, <3>12, <3>13,
         <3>14, <3>16, <3>17, <3>18 DEF AdminStep, StoreStep, MappingStep
  <2>3. ASSUME NEW s \in Stores, NEW columns \in Settings, CreateStore(s, columns)
        PROVE FreshInv'
    <3>1. \A b : Current(b)' = Current(b)
      <4>1. \A m \in mappings : settings'[m.store] = settings[m.store]
        BY <2>3 DEF CreateStore, TypeOK
      <4>2. mappings' = mappings
        BY <2>3 DEF CreateStore
      <4>3. QED
        BY <4>1, <4>2 DEF Current, RoutesOf
    <3>2. \A x : BucketsOf(x)' = BucketsOf(x)
      BY <2>3 DEF CreateStore, BucketsOf
    <3>3. \A b : EvictionPending(b)' = EvictionPending(b)
      BY <2>3, <3>2 DEF CreateStore, EvictionPending
    <3>4. MappingsHaveStores'
      BY <2>3 DEF CreateStore, TypeOK
    <3>5. QED
      BY <2>3, <3>1, <3>3, <3>4 DEF CreateStore
  <2>4. ASSUME NEW s \in Stores, NEW b \in Buckets, NEW id \in MappingIds,
               NEW prefix \in Prefixes, CreateBucketMapping(s, b, id, prefix)
        PROVE FreshInv'
    <3>1. \A x : x # b => Current(x)' = Current(x)
      BY <2>4, SameRoutes DEF CreateBucketMapping, Current
    <3>2. \A x, y : x \in BucketsOf(y) => x \in BucketsOf(y)'
      BY <2>4 DEF CreateBucketMapping, BucketsOf
    <3>3. \A x : EvictionPending(x) => EvictionPending(x)'
      BY <2>4, <3>2 DEF CreateBucketMapping, EvictionPending
    <3>4. StaleOnlyIfSuspect'
      BY <2>4, <3>1, <3>3 DEF CreateBucketMapping
    <3>5. FillOnlyIfOvertaken'
      BY <2>4, <3>1, <3>3 DEF CreateBucketMapping, Overtaking
    <3>6. DeletionKnowsMapping'
      BY <2>4 DEF CreateBucketMapping
    <3>7. MappingsHaveStores'
      BY <2>4 DEF CreateBucketMapping
    <3>8. QED
      BY <3>4, <3>5, <3>6, <3>7
  <2>5. ASSUME NEW b \in Buckets, Expire(b) PROVE FreshInv'
    <3>1. UNCHANGED <<status, settings, mappings, used, adm, req>>
      BY <2>5 DEF Expire
    <3>2. \A x : Current(x)' = Current(x)
      BY <3>1, SameTables
    <3>3. \A x : EvictionPending(x)' = EvictionPending(x)
      BY <3>1, SamePending
    <3>4. QED
      BY <2>5, <3>1, <3>2, <3>3 DEF Expire, Del, TypeOK
  <2>6. CASE UNCHANGED vars
    <3>1. UNCHANGED <<status, settings, mappings, used, adm, req>>
      BY <2>6 DEF vars
    <3>2. \A x : Current(x)' = Current(x)
      BY <3>1, SameTables
    <3>3. \A x : EvictionPending(x)' = EvictionPending(x)
      BY <3>1, SamePending
    <3>4. QED
      BY <2>6, <3>1, <3>2, <3>3 DEF vars
  <2>7. QED
    BY <2>1, <2>2, <2>3, <2>4, <2>5, <2>6 DEF Next
<1>3. QED
  BY <1>1, <1>2, TypeCorrect, PTL DEF Spec

(***************************************************************************)
(* A cached route that differs from the tables is about to be evicted, is  *)
(* suspect, or was made obsolete by DeleteStore or CreateBucketMapping,    *)
(* for any number of gateways and admin calls (cachedRegistry, cache.go).  *)
(***************************************************************************)
COROLLARY StaleOnlyIfSuspectHolds == Spec => []StaleOnlyIfSuspect
<1>1. FreshInv => StaleOnlyIfSuspect
  BY DEF FreshInv
<1>2. QED
  BY <1>1, FreshCorrect, PTL
-----------------------------------------------------------------------------
(***************************************************************************)
(* The inductive strengthening of TenantIsolation: a row is checked before *)
(* it is cached, so the answer of a request is its tenant's from then on.  *)
(***************************************************************************)
IsolationInv ==
  \A r \in Requests :
    req[r].pc \in {"fill", "use"} /\ ~Preflight(r) => OfTenant(req[r].tenant, req[r].ans)

(***************************************************************************)
(* Whatever entries are stale, and however bucket names have moved between *)
(* tenants, ResolveBucket gives a tenant routes to its own stores only     *)
(* (cache.go and postgres.go, ResolveBucket).                              *)
(***************************************************************************)
THEOREM TenantIsolationHolds == Spec => []TenantIsolation
<1>1. Init => IsolationInv
  BY DEF Init, IsolationInv, Idle
<1>2. TypeOK /\ IsolationInv /\ [Next]_vars => IsolationInv'
  <2> SUFFICES ASSUME TypeOK, IsolationInv, [Next]_vars PROVE IsolationInv'
    OBVIOUS
  <2> USE DEF IsolationInv, Preflight
  <2>1. req \in [Requests -> [pc : {"idle", "get", "select", "fill", "use"},
                             tenant : Tenants \cup {None},
                             bucket : Buckets \cup {None},
                             ans : SUBSET Routes]]
    BY DEF TypeOK, RequestTypeOK
  <2>2. ASSUME NEW r \in Requests, RequestStep(r) PROVE IsolationInv'
    <3>1. ASSUME NEW t \in Tenants \cup {None}, NEW b \in Buckets, Lookup(r, t, b)
          PROVE IsolationInv'
      BY <2>1, <3>1 DEF Lookup
    <3>2. CASE Leave(r)
      BY <2>1, <3>2 DEF Leave, Idle
    <3>3. CASE Hit(r) \/ Miss(r)
      BY <2>1, <3>3 DEF Hit, Miss, Goto
    <3>4. CASE Select(r)
      BY <2>1, <3>4 DEF Select, Goto
    <3>5. CASE Fill(r) \/ FillLost(r)
      BY <2>1, <3>5 DEF Fill, FillLost, Goto
    <3>6. QED
      BY <2>2, <3>1, <3>2, <3>3, <3>4, <3>5 DEF RequestStep, Refused, Finish, Abandon
  <2>3. CASE UNCHANGED req
    BY <2>3
  <2>4. ASSUME NEW a \in Admins, AdminStep(a) PROVE UNCHANGED req
    BY <2>4 DEF AdminStep, StoreStep, MappingStep, VerifyStore, UpdateStoreBackend,
       UpdateStoreAllowedOrigins, ListForEviction, DeleteStoreLists, DeleteStore,
       Evict, EvictLost, PreEvict, ListBucketMappings, DeleteBucketMapping, Return,
       RowGone, Fail
  <2>5. QED
    BY <2>2, <2>3, <2>4 DEF Next, CreateStore, CreateBucketMapping, Expire, vars
<1>3. IsolationInv => TenantIsolation
  BY DEF IsolationInv, TenantIsolation
<1>4. QED
  BY <1>1, <1>2, <1>3, TypeCorrect, PTL DEF Spec
-----------------------------------------------------------------------------
(***************************************************************************)
(* The inductive strengthening of RouteWasCurrent.                         *)
(***************************************************************************)
HeldInv ==
  /\ \A r \in Requests : req[r].pc # "idle" => Current(req[r].bucket) \in held[r]
  /\ \A r \in Requests \ doubtful :
       /\ req[r].pc = "fill" => req[r].ans \in held[r]
       /\ req[r].pc = "use" =>
            \E routes \in held[r] : req[r].ans \in {routes, Cached(routes)}

(***************************************************************************)
(* Apart from the races that StaleOnlyIfSuspect names, a lookup answers    *)
(* what was true at some moment since it began (ResolveBucket, cache.go).  *)
(***************************************************************************)
THEOREM RouteWasCurrentHolds == Spec => []RouteWasCurrent
<1>1. Init => HeldInv
  BY DEF Init, HeldInv, Idle
<1>2. TypeOK /\ FreshInv /\ HeldInv /\ [Next]_vars => HeldInv'
  <2> SUFFICES ASSUME TypeOK, FreshInv, HeldInv, [Next]_vars PROVE HeldInv'
    OBVIOUS
  <2> USE DEF HeldInv
  <2>1. /\ held \in [Requests -> SUBSET SUBSET Routes]
        /\ req \in [Requests -> [pc : {"idle", "get", "select", "fill", "use"},
                                 tenant : Tenants \cup {None},
                                 bucket : Buckets \cup {None},
                                 ans : SUBSET Routes]]
    BY DEF TypeOK, RequestTypeOK, HistoryTypeOK
  <2>2. ASSUME Observe, UNCHANGED <<req, doubtful>> PROVE HeldInv'
    BY <2>1, <2>2 DEF Observe, Current
  <2>3. ASSUME \A b : Current(b)' = Current(b), UNCHANGED <<req, held, doubtful>>
        PROVE HeldInv'
    BY <2>3
  <2>4. ASSUME NEW r \in Requests, RequestStep(r) PROVE HeldInv'
    <3>1. UNCHANGED <<settings, mappings>>
      BY <2>4 DEF RequestStep, Lookup, Hit, Miss, Select, Refused, Fill, FillLost,
                  Finish, Abandon, Leave, tables
    <3>2. \A b : Current(b)' = Current(b)
      BY <3>1, SameTables
    <3>3. ASSUME NEW t \in Tenants \cup {None}, NEW b \in Buckets, Lookup(r, t, b)
          PROVE HeldInv'
      BY <2>1, <3>2, <3>3 DEF Lookup
    <3>4. CASE Leave(r)
      BY <2>1, <3>2, <3>4 DEF Leave, Idle
    <3>5. CASE Hit(r)
      <4>1. r \notin doubtful' =>
              \E routes \in held[r] : entry[req[r].bucket] \in {routes, Cached(routes)}
        BY <3>5 DEF Hit, FreshInv, StaleOnlyIfSuspect
      <4>2. QED
        BY <2>1, <3>2, <3>5, <4>1 DEF Hit, Goto
    <3>6. CASE Miss(r)
      BY <2>1, <3>2, <3>6 DEF Miss, Goto
    <3>7. CASE Select(r)
      BY <2>1, <3>2, <3>7 DEF Select, Goto
    <3>8. CASE Fill(r) \/ FillLost(r)
      BY <2>1, <3>2, <3>8 DEF Fill, FillLost, Goto
    <3>9. QED
      BY <2>4, <3>3, <3>4, <3>5, <3>6, <3>7, <3>8
         DEF RequestStep, Refused, Finish, Abandon
  <2>5. ASSUME NEW a \in Admins, AdminStep(a) PROVE HeldInv'
    <3>1. CASE /\ Observe /\ UNCHANGED <<req, doubtful>>
      BY <2>2, <3>1
    <3>2. CASE UNCHANGED <<settings, mappings, req, held, doubtful>>
      BY <2>3, <3>2, SameTables
    <3>3. QED
      BY <2>5, <3>1, <3>2 DEF AdminStep, StoreStep, MappingStep, VerifyStore,
         UpdateStoreBackend, UpdateStoreAllowedOrigins, ListForEviction,
         DeleteStoreLists, DeleteStore, Evict, EvictLost, PreEvict,
         ListBucketMappings, DeleteBucketMapping, Return, RowGone, Fail, tables
  <2>6. ASSUME NEW s \in Stores, NEW columns \in Settings, CreateStore(s, columns)
        PROVE HeldInv'
    <3>1. \A m \in mappings : settings'[m.store] = settings[m.store]
      BY <2>6 DEF CreateStore, TypeOK, FreshInv, MappingsHaveStores
    <3>2. \A b : Current(b)' = Current(b)
      BY <2>6, <3>1 DEF CreateStore, Current, RoutesOf
    <3>3. QED
      BY <2>3, <2>6, <3>2 DEF CreateStore
  <2>7. ASSUME NEW s \in Stores, NEW b \in Buckets, NEW id \in MappingIds,
               NEW prefix \in Prefixes, CreateBucketMapping(s, b, id, prefix)
        PROVE HeldInv'
    BY <2>2, <2>7 DEF CreateBucketMapping
  <2>8. CASE UNCHANGED <<settings, mappings, req, held, doubtful>>
    BY <2>3, <2>8, SameTables
  <2>9. QED
    BY <2>4, <2>5, <2>6, <2>7, <2>8 DEF Next, Expire, vars, tables
<1>3. HeldInv => RouteWasCurrent
  BY DEF HeldInv, RouteWasCurrent
<1>4. QED
  BY <1>1, <1>2, <1>3, TypeCorrect, FreshCorrect, PTL DEF Spec
-----------------------------------------------------------------------------
(***************************************************************************)
(* The gateway.                                                            *)
(***************************************************************************)

(* Every step of the gateway is one of BucketRoutes, or leaves it alone. *)
LEMMA RoutesStep ==
  ASSUME [GatewayNext]_allVars
  PROVE  [Next]_vars
<1>1. ASSUME NEW r \in Requests, Serve(r) PROVE [Next]_vars
  <2>1. CASE Resolve(r) \/ Reply(r)
    BY <2>1 DEF Resolve, Reply, Next, RequestStep
  <2>2. CASE UseRoute(r) \/ Insert(r) \/ Yield(r)
    BY <2>2 DEF UseRoute, AskPool, Insert, Yield
  <2>3. QED
    BY <1>1, <2>1, <2>2 DEF Serve
<1>2. ASSUME NEW x \in Browsers, Browse(x) PROVE UNCHANGED vars
  BY <1>2 DEF Browse, BrowseReads, BrowseAsks, AskPool, Insert, Yield, BrowseEnds
<1>3. ASSUME NEW a \in Admins, Administer(a) PROVE [Next]_vars
  BY <1>3 DEF Administer, UpdateBackend, AdminReturns, AdminFails, AdminWorks, Next, AdminStep,
     StoreStep
<1>4. CASE Between
  BY <1>4 DEF Between, Next
<1>5. CASE UNCHANGED allVars
  BY <1>5 DEF allVars
<1>6. QED
  BY <1>1, <1>2, <1>3, <1>4, <1>5 DEF GatewayNext

(***************************************************************************)
(* The composition implements BucketRoutes: what is proved of the routes   *)
(* holds whatever pools and browsers do.                                   *)
(***************************************************************************)
THEOREM ImplementsBucketRoutes == GatewaySpec => Spec
<1>1. GatewayInit => Init
  BY DEF GatewayInit
<1>2. [GatewayNext]_allVars => [Next]_vars
  BY RoutesStep
<1>3. QED
  BY <1>1, <1>2, PTL DEF GatewaySpec, Spec

BrowsingOK == browsing \in [Browsers -> SUBSET Pool!Clients]

(* What the object browser has read is a store and its configuration. *)
LEMMA BrowsingCorrect == GatewaySpec => []BrowsingOK
<1>1. GatewayInit => BrowsingOK
  BY DEF GatewayInit, BrowsingOK
<1>2. TypeOK /\ BrowsingOK /\ [GatewayNext]_allVars => BrowsingOK'
  <2> SUFFICES ASSUME TypeOK, BrowsingOK, [GatewayNext]_allVars PROVE BrowsingOK'
    OBVIOUS
  <2>1. ASSUME NEW x \in Browsers, NEW s \in Stores, BrowseReads(x, s) PROVE BrowsingOK'
    <3>1. [store |-> s, config |-> settings[s].config] \in Pool!Clients
      BY DEF TypeOK, Settings, Pool!Clients
    <3>2. browsing' = [browsing EXCEPT ![x] = {[store |-> s, config |-> settings[s].config]}]
      BY <2>1 DEF BrowseReads
    <3>3. QED
      BY <3>1, <3>2 DEF BrowsingOK
  <2>2. ASSUME NEW x \in Browsers, BrowseEnds(x) PROVE BrowsingOK'
    BY <2>2 DEF BrowseEnds, BrowsingOK
  <2>3. CASE UNCHANGED browsing
    BY <2>3 DEF BrowsingOK
  <2>4. QED
    BY <2>1, <2>2, <2>3 DEF GatewayNext, Serve, Resolve, UseRoute, AskPool, Insert, Yield, Reply,
       Browse, BrowseAsks, Administer, UpdateBackend, AdminReturns, AdminFails, AdminWorks,
       Between, gatewayVars, allVars
<1>3. QED
  BY <1>1, <1>2, ImplementsBucketRoutes, TypeCorrect, PTL DEF GatewaySpec

(* Every step of the gateway is one of BackendPool, or leaves it alone. *)
LEMMA PoolStep ==
  ASSUME TypeOK, BrowsingOK, [GatewayNext]_allVars
  PROVE  [Pool!PoolNext]_(Pool!poolVars)
<1>1. ASSUME NEW c \in Requests \cup Browsers, NEW s \in Stores, NEW config \in Configs,
             AskPool(c, s, config)
      PROVE  Pool!PoolNext
  BY <1>1 DEF AskPool, Pool!PoolNext
<1>2. ASSUME NEW c \in Requests \cup Browsers, Insert(c) \/ Yield(c)
      PROVE  Pool!PoolNext
  BY <1>2 DEF Insert, Yield, Pool!PoolNext
<1>3. ASSUME NEW r \in Requests, Serve(r) PROVE [Pool!PoolNext]_(Pool!poolVars)
  <2>1. CASE Resolve(r)
    BY <2>1 DEF Resolve, gatewayVars, Pool!poolVars
  <2>2. CASE UseRoute(r)
    <3>1. PICK route \in req[r].ans : AskPool(r, route.store, route.settings.config)
      BY <2>2 DEF UseRoute
    <3>2. route \in Routes
      BY DEF TypeOK, RequestTypeOK
    <3>3. route.store \in Stores /\ route.settings.config \in Configs
      BY <3>2 DEF Routes, Settings
    <3>4. QED
      BY <1>1, <3>1, <3>3
  <2>3. CASE Reply(r)
    BY <2>3 DEF Reply, Pool!PoolNext, Pool!poolVars
  <2>4. QED
    BY <1>2, <1>3, <2>1, <2>2, <2>3 DEF Serve
<1>4. ASSUME NEW x \in Browsers, Browse(x) PROVE [Pool!PoolNext]_(Pool!poolVars)
  <2>1. CASE BrowseAsks(x)
    <3>1. PICK seen \in browsing[x] : AskPool(x, seen.store, seen.config)
      BY <2>1 DEF BrowseAsks
    <3>2. seen.store \in Stores /\ seen.config \in Configs
      BY DEF BrowsingOK, Pool!Clients
    <3>3. QED
      BY <1>1, <3>1, <3>2
  <2>2. CASE BrowseEnds(x)
    BY <2>2 DEF BrowseEnds, Pool!PoolNext, Pool!poolVars
  <2>3. ASSUME NEW s \in Stores, BrowseReads(x, s) PROVE UNCHANGED Pool!poolVars
    BY <2>3 DEF BrowseReads, Pool!poolVars
  <2>4. QED
    BY <1>2, <1>4, <2>1, <2>2, <2>3 DEF Browse
<1>5. ASSUME NEW a \in Admins, Administer(a) PROVE [Pool!PoolNext]_(Pool!poolVars)
  <2>1. CASE AdminReturns(a)
    <3>1. CASE adm[a].op \in {"backend", "store"}
      <4>1. adm[a].pc = "evict" /\ Pool!Invalidate(At[a], adm[a].store)
        BY <2>1, <3>1 DEF AdminReturns, Return
      <4>2. adm[a].store \in Stores /\ At[a] \in Processes
        BY <4>1, PlaceAssumption DEF TypeOK, AdminTypeOK
      <4>3. QED
        BY <4>1, <4>2 DEF Pool!PoolNext
    <3>2. CASE adm[a].op \notin {"backend", "store"}
      BY <2>1, <3>2 DEF AdminReturns, Pool!poolVars
    <3>3. QED
      BY <3>1, <3>2
  <2>2. CASE ~AdminReturns(a)
    BY <1>5, <2>2 DEF Administer, UpdateBackend, AdminFails, AdminWorks, gatewayVars, Pool!poolVars
  <2>3. QED
    BY <2>1, <2>2
<1>6. CASE Between \/ UNCHANGED allVars
  BY <1>6 DEF Between, allVars, gatewayVars, Pool!poolVars
<1>7. QED
  BY <1>3, <1>4, <1>5, <1>6 DEF GatewayNext

(***************************************************************************)
(* The composition implements BackendPool: one client per store, whoever   *)
(* asks for it and with whatever route.                                    *)
(***************************************************************************)
THEOREM ImplementsBackendPool == GatewaySpec => Pool!PoolSpec
<1>1. GatewayInit => Pool!PoolInit
  BY DEF GatewayInit
<1>2. TypeOK /\ BrowsingOK /\ [GatewayNext]_allVars => [Pool!PoolNext]_(Pool!poolVars)
  BY PoolStep
<1>3. QED
  BY <1>1, <1>2, ImplementsBucketRoutes, TypeCorrect, BrowsingCorrect, PTL
     DEF GatewaySpec, Pool!PoolSpec

(* So what is proved of the pool holds of it. *)
LEMMA PoolCorrect == GatewaySpec => [](Pool!PoolTypeOK /\ Pool!OneClientPerStore)
<1>1. \A c \in Requests \cup Browsers : At[c] \in Processes
  BY PlaceAssumption
<1>2. PoolFacts!PoolSpec => []PoolFacts!PoolTypeOK
  BY <1>1, PoolFacts!PoolTypeCorrect
<1>3. PoolFacts!PoolSpec => []PoolFacts!OneClientPerStore
  BY <1>1, PoolFacts!OneClientPerStoreHolds
<1>4. Pool!PoolInit => PoolFacts!PoolInit
  BY DEF Pool!PoolInit, PoolFacts!PoolInit, Pool!NoGet, PoolFacts!NoGet
<1>5. [Pool!PoolNext]_(Pool!poolVars) => [PoolFacts!PoolNext]_(PoolFacts!poolVars)
  BY DEF Pool!PoolNext, PoolFacts!PoolNext, Pool!poolVars, PoolFacts!poolVars,
     Pool!GetPooled, Pool!GetBuilds, Pool!GetInserts, Pool!GetYields, Pool!GetFails,
     Pool!Release, Pool!Invalidate, Pool!Restart, Pool!Pooled, Pool!Done, Pool!Client, Pool!NoGet,
     PoolFacts!GetPooled, PoolFacts!GetBuilds, PoolFacts!GetInserts, PoolFacts!GetYields,
     PoolFacts!GetFails, PoolFacts!Release, PoolFacts!Invalidate, PoolFacts!Restart,
     PoolFacts!Pooled, PoolFacts!Done, PoolFacts!Client, PoolFacts!NoGet
<1>6. PoolFacts!PoolTypeOK => Pool!PoolTypeOK
  BY DEF PoolFacts!PoolTypeOK, Pool!PoolTypeOK, PoolFacts!Clients, Pool!Clients
<1>7. PoolFacts!OneClientPerStore => Pool!OneClientPerStore
  BY DEF PoolFacts!OneClientPerStore, Pool!OneClientPerStore, PoolFacts!Clients, Pool!Clients
<1>8. Pool!PoolSpec => PoolFacts!PoolSpec
  BY <1>4, <1>5, PTL DEF Pool!PoolSpec, PoolFacts!PoolSpec
<1>9. QED
  BY <1>2, <1>3, <1>6, <1>7, <1>8, ImplementsBackendPool, PTL
-----------------------------------------------------------------------------
(* What the marks of the pool's slots are. *)
MarksOK == raced \subseteq Processes \X Stores /\ stray \subseteq Processes \X Stores

(* They are of the type. *)
LEMMA MarksCorrect == GatewaySpec => []MarksOK
<1>1. GatewayInit => MarksOK
  BY DEF GatewayInit, MarksOK
<1>2. TypeOK /\ Pool!PoolTypeOK /\ MarksOK /\ [GatewayNext]_allVars => MarksOK'
  <2> SUFFICES ASSUME TypeOK, Pool!PoolTypeOK, MarksOK, [GatewayNext]_allVars PROVE MarksOK'
    OBVIOUS
  <2>1. ASSUME NEW c \in Requests \cup Browsers, Insert(c) PROVE MarksOK'
    <3>1. At[c] \in Processes /\ \A x \in get[c].wants : x.store \in Stores
      BY PlaceAssumption DEF Pool!PoolTypeOK, Pool!Clients
    <3>2. QED
      BY <2>1, <3>1 DEF Insert, MarksOK
  <2>2. ASSUME NEW a \in Admins, Administer(a) PROVE MarksOK'
    <3>1. adm[a].pc # "idle" => adm[a].store \in Stores /\ At[a] \in Processes
      BY PlaceAssumption DEF TypeOK, AdminTypeOK
    <3>2. ASSUME NEW config \in Configs, UpdateBackend(a, config) PROVE MarksOK'
      <4>1. adm[a].store \in Stores
        BY <3>1, <3>2 DEF UpdateBackend, UpdateStoreBackend
      <4>2. QED
        BY <3>2, <4>1 DEF UpdateBackend, Elsewhere, MarksOK
    <3>3. CASE AdminReturns(a)
      BY <3>3 DEF AdminReturns, MarksOK
    <3>4. CASE AdminFails(a)
      BY <3>1, <3>4 DEF AdminFails, Fail, MarksOK
    <3>5. CASE AdminWorks(a)
      BY <3>5 DEF AdminWorks, gatewayVars, MarksOK
    <3>6. QED
      BY <2>2, <3>2, <3>3, <3>4, <3>5 DEF Administer
  <2>3. CASE UNCHANGED <<raced, stray>>
    BY <2>3 DEF MarksOK
  <2>4. QED
    BY <2>1, <2>2, <2>3 DEF GatewayNext, Serve, Resolve, UseRoute, AskPool, Yield, Reply,
       Browse, BrowseReads, BrowseAsks, BrowseEnds, Between, gatewayVars, allVars
<1>3. QED
  BY <1>1, <1>2, ImplementsBucketRoutes, TypeCorrect, PoolCorrect, PTL DEF GatewaySpec

(* Every variable of the composition keeps its type. *)
THEOREM GatewayTypeCorrect == GatewaySpec => []GatewayTypeOK
<1>1. TypeOK /\ Pool!PoolTypeOK /\ BrowsingOK /\ MarksOK => GatewayTypeOK
  BY DEF GatewayTypeOK, BrowsingOK, MarksOK
<1>2. QED
  BY <1>1, ImplementsBucketRoutes, TypeCorrect, PoolCorrect, BrowsingCorrect, MarksCorrect, PTL
-----------------------------------------------------------------------------
(***************************************************************************)
(* What a request has of the pool is of its tenant: it asks with its route *)
(* while it has it, and whoever built the client it is given built it for  *)
(* the store asked for.                                                    *)
(***************************************************************************)
AskedForTenant(r) ==
  /\ get[r].wants # {} => req[r].pc = "use" /\ ~Preflight(r) /\ req[r].ans # {}
  /\ \A x \in get[r].wants : Owner[x.store] = req[r].tenant
  /\ get[r].client # {} => get[r].pc = "done" /\ get[r].wants # {}

ClientInv == \A r \in Requests : AskedForTenant(r)

(* A request that has its route has it until it is done. *)
LEMMA ResolveEffect ==
  ASSUME TypeOK, NEW r \in Requests, Resolve(r)
  PROVE  /\ req[r].pc # "use" /\ get' = get
         /\ \A x \in Requests \ {r} : req'[x] = req[x]
<1>1. req[r].pc # "use" /\ get' = get
  BY DEF Resolve, Lookup, Hit, Miss, Select, Refused, Fill, FillLost, Abandon, gatewayVars
<1>2. \A x \in Requests \ {r} : req'[x] = req[x]
  <2>1. \E y : req' = [req EXCEPT ![r] = y]
    BY DEF Resolve, Lookup, Hit, Miss, Select, Refused, Fill, FillLost, Abandon, Leave, Goto
  <2>2. QED
    BY <2>1 DEF TypeOK, RequestTypeOK
<1>3. QED
  BY <1>1, <1>2

\* The type of the calls in progress.
Gets == [Requests \cup Browsers -> [pc : {"idle", "build", "done"},
                                    wants : SUBSET Pool!Clients, client : SUBSET Pool!Clients]]

(* What a call of the pool does to what a caller has of it: it asks ... *)
LEMMA AskEffect ==
  ASSUME Pool!PoolTypeOK, NEW c \in Requests \cup Browsers, NEW s, NEW config,
         AskPool(c, s, config)
  PROVE  /\ req' = req /\ \A d \in (Requests \cup Browsers) \ {c} : get'[d] = get[d]
         /\ \A x \in get'[c].wants : x.store = s
         /\ get'[c].wants # {}
         /\ get'[c].client # {} => get'[c].pc = "done"
<1>1. get \in Gets
  BY DEF Pool!PoolTypeOK, Gets
<1>2. req' = req
  BY DEF AskPool, vars
<1>3. CASE Pool!GetPooled(c, s, config)
  <2> DEFINE y == Pool!Done({Pool!Client(s, config)}, Pool!Pooled(c, s))
  <2>1. get' = [get EXCEPT ![c] = y]
    BY <1>3 DEF Pool!GetPooled
  <2>2. y.wants = {Pool!Client(s, config)} /\ y.pc = "done"
    BY DEF Pool!Done
  <2> HIDE DEF y
  <2>3. get'[c] = y /\ \A d \in (Requests \cup Browsers) \ {c} : get'[d] = get[d]
    BY <1>1, <2>1 DEF Gets
  <2>4. Pool!Client(s, config).store = s
    BY DEF Pool!Client
  <2>5. QED
    BY <1>2, <2>2, <2>3, <2>4
<1>4. CASE Pool!GetBuilds(c, s, config)
  <2> DEFINE y == [pc |-> "build", wants |-> {Pool!Client(s, config)}, client |-> {}]
  <2>1. get' = [get EXCEPT ![c] = y]
    BY <1>4 DEF Pool!GetBuilds
  <2>2. y.wants = {Pool!Client(s, config)} /\ y.client = {}
    OBVIOUS
  <2> HIDE DEF y
  <2>3. get'[c] = y /\ \A d \in (Requests \cup Browsers) \ {c} : get'[d] = get[d]
    BY <1>1, <2>1 DEF Gets
  <2>4. Pool!Client(s, config).store = s
    BY DEF Pool!Client
  <2>5. QED
    BY <1>2, <2>2, <2>3, <2>4
<1>5. QED
  BY <1>3, <1>4 DEF AskPool

(* ... builds, and takes what is then in the map ... *)
LEMMA BuildEffect ==
  ASSUME Pool!PoolTypeOK, NEW c \in Requests \cup Browsers, Insert(c) \/ Yield(c)
  PROVE  /\ req' = req /\ \A d \in (Requests \cup Browsers) \ {c} : get'[d] = get[d]
         /\ get'[c].wants \subseteq get[c].wants
         /\ get'[c].wants # {} /\ get'[c].pc = "done"
<1>1. get \in Gets
  BY DEF Pool!PoolTypeOK, Gets
<1>2. req' = req /\ (Pool!GetInserts(c) \/ Pool!GetYields(c))
  BY DEF Insert, Yield, vars
<1>3. PICK built \in get[c].wants : \E y : get' = [get EXCEPT ![c] = Pool!Done({built}, y)]
  BY <1>2 DEF Pool!GetInserts, Pool!GetYields
<1>4. QED
  BY <1>1, <1>2, <1>3 DEF Gets, Pool!Done

(* ... and has done with it. *)
LEMMA EndEffect ==
  ASSUME Pool!PoolTypeOK, NEW c \in Requests \cup Browsers, Pool!Release(c) \/ Pool!GetFails(c)
  PROVE  /\ \A d \in (Requests \cup Browsers) \ {c} : get'[d] = get[d]
         /\ get'[c].wants = {} /\ get'[c].client = {}
<1>1. get \in Gets
  BY DEF Pool!PoolTypeOK, Gets
<1>2. QED
  BY <1>1 DEF Gets, Pool!Release, Pool!GetFails, Pool!NoGet

(* That is so of every request. *)
LEMMA ClientCorrect == GatewaySpec => []ClientInv
<1>1. GatewayInit => ClientInv
  BY DEF GatewayInit, Pool!PoolInit, Pool!NoGet, ClientInv, AskedForTenant
<1>2. TypeOK /\ TenantIsolation /\ Pool!PoolTypeOK /\ ClientInv /\ [GatewayNext]_allVars
        => ClientInv'
  <2> SUFFICES ASSUME TypeOK, TenantIsolation, Pool!PoolTypeOK, ClientInv, [GatewayNext]_allVars,
                      NEW r \in Requests
               PROVE  AskedForTenant(r)'
    BY DEF ClientInv
  <2>0. AskedForTenant(r) /\ r \notin Browsers
    BY SlotAssumption DEF ClientInv
  <2>s. ASSUME get'[r] = get[r], req'[r] = req[r] PROVE AskedForTenant(r)'
    BY <2>0, <2>s DEF AskedForTenant, Preflight
  <2>1. ASSUME NEW z \in Requests, Serve(z) PROVE AskedForTenant(r)'
    <3>1. CASE Resolve(z)
      BY <2>0, <2>s, <3>1, ResolveEffect DEF AskedForTenant
    <3>2. CASE UseRoute(z)
      <4>1. PICK route \in req[z].ans : AskPool(z, route.store, route.settings.config)
        BY <3>2 DEF UseRoute
      <4>2. /\ req' = req /\ \A d \in (Requests \cup Browsers) \ {z} : get'[d] = get[d]
            /\ \A x \in get'[z].wants : x.store = route.store
            /\ get'[z].wants # {}
            /\ get'[z].client # {} => get'[z].pc = "done"
        BY <4>1, AskEffect
      <4>3. /\ req[z].pc = "use" /\ ~Preflight(z)
            /\ Owner[route.store] = req[z].tenant
        BY <3>2 DEF UseRoute, TenantIsolation, OfTenant
      <4>4. QED
        BY <2>s, <4>1, <4>2, <4>3 DEF AskedForTenant, Preflight
    <3>3. CASE Insert(z) \/ Yield(z)
      <4>1. /\ req' = req /\ \A d \in (Requests \cup Browsers) \ {z} : get'[d] = get[d]
            /\ get'[z].wants \subseteq get[z].wants
            /\ get'[z].wants # {} /\ get'[z].pc = "done"
        BY <3>3, BuildEffect
      <4>2. QED
        BY <2>0, <2>s, <4>1 DEF AskedForTenant, Preflight
    <3>4. CASE Reply(z)
      <4>1. \A x \in Requests \ {z} : req'[x] = req[x]
        BY <3>4 DEF Reply, Finish, Leave, TypeOK, RequestTypeOK
      <4>2. CASE (Preflight(z) \/ req[z].ans = {}) /\ UNCHANGED <<backends, get>>
        BY <2>0, <2>s, <4>1, <4>2 DEF AskedForTenant
      <4>3. CASE Pool!Release(z) \/ Pool!GetFails(z)
        <5>1. /\ \A d \in (Requests \cup Browsers) \ {z} : get'[d] = get[d]
              /\ get'[z].wants = {} /\ get'[z].client = {}
          BY <4>3, EndEffect
        <5>2. QED
          BY <2>s, <4>1, <5>1 DEF AskedForTenant
      <4>4. QED
        BY <3>4, <4>2, <4>3 DEF Reply
    <3>5. QED
      BY <2>1, <3>1, <3>2, <3>3, <3>4 DEF Serve
  <2>2. ASSUME NEW x \in Browsers, Browse(x) PROVE AskedForTenant(r)'
    <3>1. req' = req
      BY <2>2 DEF Browse, BrowseReads, BrowseAsks, AskPool, Insert, Yield, BrowseEnds, vars
    <3>2. get'[r] = get[r]
      <4>1. CASE BrowseAsks(x)
        BY <2>0, <4>1, AskEffect DEF BrowseAsks
      <4>2. CASE Insert(x) \/ Yield(x)
        BY <2>0, <4>2, BuildEffect
      <4>3. CASE Pool!Release(x) \/ Pool!GetFails(x)
        BY <2>0, <4>3, EndEffect
      <4>4. QED
        BY <2>2, <4>1, <4>2, <4>3 DEF Browse, BrowseReads, BrowseEnds
    <3>3. QED
      BY <2>s, <3>1, <3>2
  <2>3. ASSUME NEW a \in Admins, Administer(a) PROVE UNCHANGED <<get, req>>
    <3>1. UNCHANGED get
      BY <2>3 DEF Administer, UpdateBackend, AdminReturns, AdminFails, AdminWorks, gatewayVars,
         Pool!Invalidate
    <3>2. UNCHANGED req
      BY <2>3 DEF Administer, UpdateBackend, AdminReturns, AdminFails, AdminWorks, MappingStep,
         VerifyStore, UpdateStoreBackend, UpdateStoreAllowedOrigins, ListForEviction,
         DeleteStoreLists, DeleteStore, Evict, EvictLost, PreEvict, ListBucketMappings,
         DeleteBucketMapping, Return, RowGone, Fail
    <3>3. QED
      BY <3>1, <3>2
  <2>4. CASE Between \/ UNCHANGED allVars
    BY <2>s, <2>4 DEF Between, CreateStore, CreateBucketMapping, Expire, gatewayVars, allVars, vars
  <2>5. QED
    BY <2>1, <2>2, <2>3, <2>4, <2>s DEF GatewayNext
<1>3. QED
  BY <1>1, <1>2, ImplementsBucketRoutes, TypeCorrect, TenantIsolationHolds, PoolCorrect, PTL
     DEF GatewaySpec

(***************************************************************************)
(* No request is ever given a client of another tenant's store: of the     *)
(* three facts this rests on, one is the cache's, one the pool's and one   *)
(* that a request keeps its route while it uses it.                        *)
(***************************************************************************)
THEOREM ClientOfTenantHolds == GatewaySpec => []ClientOfTenant
<1>1. Pool!OneClientPerStore /\ ClientInv => ClientOfTenant
  <2> SUFFICES ASSUME Pool!OneClientPerStore, ClientInv,
                      NEW r \in Requests, NEW x \in get[r].client
               PROVE  Owner[x.store] = req[r].tenant
    BY DEF ClientOfTenant
  <2>1. get[r].pc = "done" /\ \E wanted \in get[r].wants : Owner[wanted.store] = req[r].tenant
    BY DEF ClientInv, AskedForTenant
  <2>2. \A wanted \in get[r].wants : x.store = wanted.store
    BY <2>1 DEF Pool!OneClientPerStore
  <2>3. QED
    BY <2>1, <2>2
<1>2. QED
  BY <1>1, PoolCorrect, ClientCorrect, PTL
-----------------------------------------------------------------------------
(***************************************************************************)
(* For OldClientIsExcused: an id that is still to be given to a store is   *)
(* nowhere known, so that a new store has no client of an older one.       *)
(***************************************************************************)
Known(s) == status[s] # "absent"

RoutesKnown ==
  /\ \A b \in Buckets : \A x \in entry[b] : Known(x.store)
  /\ \A r \in Requests : \A x \in req[r].ans : Known(x.store)

PoolKnown ==
  /\ \A x \in Browsers : \A seen \in browsing[x] : Known(seen.store)
  /\ \A c \in Requests \cup Browsers : \A x \in get[c].wants : Known(x.store)
  /\ \A p \in Processes, s \in Stores : backends[p][s] # {} => Known(s)

(* Ids are not given back. *)
LEMMA KnownStays ==
  ASSUME TypeOK, [Next]_vars, NEW s \in Stores, Known(s)
  PROVE  Known(s)'
<1>1. ASSUME NEW z \in Stores, NEW columns, CreateStore(z, columns) PROVE Known(s)'
  BY <1>1 DEF CreateStore, Known, TypeOK
<1>2. ASSUME NEW a \in Admins, DeleteStore(a) PROVE Known(s)'
  BY <1>2 DEF DeleteStore, Known, TypeOK
<1>3. CASE UNCHANGED status
  BY <1>3 DEF Known
<1>4. ASSUME NEW r \in Requests, RequestStep(r) PROVE UNCHANGED status
  BY <1>4 DEF RequestStep, Lookup, Hit, Miss, Select, Refused, Fill, FillLost, Finish, Abandon,
     Leave, tables
<1>5. ASSUME NEW a \in Admins, AdminStep(a), ~DeleteStore(a) PROVE UNCHANGED status
  BY <1>5 DEF AdminStep, StoreStep, MappingStep, VerifyStore, UpdateStoreBackend,
     UpdateStoreAllowedOrigins, ListForEviction, DeleteStoreLists, Evict, EvictLost, PreEvict,
     ListBucketMappings, DeleteBucketMapping, Return, RowGone, Fail, tables
<1>6. QED
  BY <1>1, <1>2, <1>3, <1>4, <1>5 DEF Next, CreateBucketMapping, Expire, vars, tables

(* Whatever a request or the cache has is of a store that is known. *)
LEMMA RoutesKnownCorrect == Spec => []RoutesKnown
<1>1. Init => RoutesKnown
  BY DEF Init, RoutesKnown, Idle
<1>2. TypeOK /\ TypeOK' /\ MappingsHaveStores /\ RoutesKnown /\ [Next]_vars => RoutesKnown'
  <2> SUFFICES ASSUME TypeOK, TypeOK', MappingsHaveStores, RoutesKnown, [Next]_vars
               PROVE  RoutesKnown'
    OBVIOUS
  <2>0. /\ entry \in [Buckets -> SUBSET Routes]
        /\ \A b \in Buckets : entry'[b] \subseteq Routes
        /\ \A r \in Requests : req'[r].ans \subseteq Routes
        /\ \A x \in Routes : x.store \in Stores
    BY DEF TypeOK, RequestTypeOK, Routes
  <2>1. SUFFICES /\ \A b \in Buckets : \A x \in entry'[b] : Known(x.store)
                 /\ \A r \in Requests : \A x \in req'[r].ans : Known(x.store)
    BY <2>0, <2>1, KnownStays DEF RoutesKnown
  <2>2. \A b : \A x \in Current(b) : Known(x.store)
    BY DEF MappingsHaveStores, Current, RoutesOf, Route, Known
  <2>3. ASSUME NEW r \in Requests, RequestStep(r)
        PROVE  /\ \A b \in Buckets : \A x \in entry'[b] : Known(x.store)
               /\ \A z \in Requests : \A x \in req'[z].ans : Known(x.store)
    <3>1. req \in [Requests -> [pc : {"idle", "get", "select", "fill", "use"},
                                tenant : Tenants \cup {None},
                                bucket : Buckets \cup {None},
                                ans : SUBSET Routes]]
      BY DEF TypeOK, RequestTypeOK
    <3>2. req[r].pc # "idle" => req[r].bucket \in Buckets
      BY DEF TypeOK, RequestTypeOK
    <3>3. ASSUME NEW t \in Tenants \cup {None}, NEW b \in Buckets, Lookup(r, t, b)
          PROVE  /\ entry' = entry
                 /\ \A z \in Requests : \A x \in req'[z].ans : Known(x.store)
      BY <3>1, <3>3 DEF Lookup, redis, RoutesKnown
    <3>4. CASE Leave(r)
      BY <3>1, <3>4 DEF Leave, Idle, redis, RoutesKnown
    <3>5. CASE Hit(r) \/ Miss(r)
      BY <3>1, <3>2, <3>5 DEF Hit, Miss, Goto, redis, RoutesKnown
    <3>6. CASE Select(r)
      BY <2>2, <3>1, <3>6 DEF Select, Goto, redis, RoutesKnown
    <3>7. CASE Fill(r) \/ FillLost(r)
      <4>1. \A z \in Requests : req'[z].ans = req[z].ans
        BY <3>1, <3>7 DEF Fill, FillLost, Goto
      <4>2. \A b \in Buckets : entry'[b] = entry[b] \/ entry'[b] = Cached(req[r].ans)
        BY <2>0, <3>7 DEF Fill, FillLost, redis
      <4>3. \A x \in Cached(req[r].ans) : Known(x.store)
        BY DEF Cached, RoutesKnown
      <4>4. QED
        BY <4>1, <4>2, <4>3 DEF RoutesKnown
    <3>8. QED
      BY <2>3, <3>3, <3>4, <3>5, <3>6, <3>7 DEF RequestStep, Refused, Finish, Abandon, RoutesKnown
  <2>4. ASSUME NEW buckets, Del(buckets) PROVE \A b \in Buckets : entry'[b] \subseteq entry[b]
    BY <2>4 DEF Del
  <2>5. ASSUME NEW a \in Admins, AdminStep(a)
        PROVE  req' = req /\ \A b \in Buckets : entry'[b] \subseteq entry[b]
    <3>1. req' = req
      BY <2>5 DEF AdminStep, StoreStep, MappingStep, VerifyStore, UpdateStoreBackend,
         UpdateStoreAllowedOrigins, ListForEviction, DeleteStoreLists, DeleteStore,
         Evict, EvictLost, PreEvict, ListBucketMappings, DeleteBucketMapping, Return,
         RowGone, Fail
    <3>2. entry' = entry \/ \E buckets : Del(buckets)
      BY <2>5 DEF AdminStep, StoreStep, MappingStep, VerifyStore, UpdateStoreBackend,
         UpdateStoreAllowedOrigins, ListForEviction, DeleteStoreLists, DeleteStore,
         Evict, EvictLost, PreEvict, ListBucketMappings, DeleteBucketMapping, Return,
         RowGone, Fail, redis
    <3>3. QED
      BY <2>4, <3>1, <3>2
  <2>6. ASSUME NEW b \in Buckets, Expire(b)
        PROVE  req' = req /\ \A x \in Buckets : entry'[x] \subseteq entry[x]
    BY <2>4, <2>6 DEF Expire
  <2>7. ASSUME req' = req, \A b \in Buckets : entry'[b] \subseteq entry[b]
        PROVE  /\ \A b \in Buckets : \A x \in entry'[b] : Known(x.store)
               /\ \A z \in Requests : \A x \in req'[z].ans : Known(x.store)
    BY <2>7 DEF RoutesKnown
  <2>8. CASE UNCHANGED <<req, entry>>
    BY <2>7, <2>8
  <2>9. QED
    BY <2>3, <2>5, <2>6, <2>7, <2>8 DEF Next, CreateStore, CreateBucketMapping, vars, redis
<1>3. QED
  BY <1>1, <1>2, TypeCorrect, FreshCorrect, PTL DEF Spec, FreshInv

\* Of the type of the calls in progress: what they ask for is stores.
StoresAsked == \A c \in Requests \cup Browsers : \A x \in get[c].wants : x.store \in Stores

(* Whatever a pool or a browser has is of a store that is known. *)
LEMMA PoolKnownCorrect == GatewaySpec => []PoolKnown
<1>1. GatewayInit => PoolKnown
  BY DEF GatewayInit, Pool!PoolInit, Pool!NoGet, PoolKnown
<1>2. TypeOK /\ RoutesKnown /\ BrowsingOK /\ BrowsingOK' /\ Pool!PoolTypeOK /\ StoresAsked' /\
      PoolKnown /\ [GatewayNext]_allVars => PoolKnown'
  <2> SUFFICES ASSUME TypeOK, RoutesKnown, BrowsingOK, BrowsingOK', Pool!PoolTypeOK,
                      StoresAsked', PoolKnown, [GatewayNext]_allVars
               PROVE  PoolKnown'
    OBVIOUS
  <2>0. \A s \in Stores : Known(s) => Known(s)'
    BY RoutesStep, KnownStays
  <2>1. \A x \in Browsers : \A seen \in browsing'[x] : Known(seen.store)
    <3>1. ASSUME NEW z \in Browsers, NEW s \in Stores, BrowseReads(z, s)
          PROVE  \A x \in Browsers : \A seen \in browsing'[x] : Known(seen.store)
      <4> DEFINE y == {[store |-> s, config |-> settings[s].config]}
      <4>1. browsing' = [browsing EXCEPT ![z] = y] /\ Known(s)
        BY <3>1 DEF BrowseReads, Known
      <4>2. \A seen \in y : seen.store = s
        OBVIOUS
      <4> HIDE DEF y
      <4>3. QED
        BY <4>1, <4>2 DEF BrowsingOK, PoolKnown
    <3>2. ASSUME NEW z \in Browsers, BrowseEnds(z)
          PROVE  \A x \in Browsers : \A seen \in browsing'[x] : Known(seen.store)
      BY <3>2 DEF BrowseEnds, BrowsingOK, PoolKnown
    <3>3. CASE UNCHANGED browsing
      BY <3>3 DEF PoolKnown
    <3>4. QED
      BY <3>1, <3>2, <3>3 DEF GatewayNext, Serve, Resolve, UseRoute, AskPool, Insert, Yield, Reply,
         Browse, BrowseAsks, Administer, UpdateBackend, AdminReturns, AdminFails, AdminWorks,
         Between, gatewayVars, allVars
  \* A caller has what it had, or asks for a store that is known.
  <2>2. \A c \in Requests \cup Browsers : \A x \in get'[c].wants : Known(x.store)
    <3>1. ASSUME NEW c \in Requests \cup Browsers, NEW s, NEW config, Known(s),
                 AskPool(c, s, config)
          PROVE  \A d \in Requests \cup Browsers : \A x \in get'[d].wants : Known(x.store)
      BY <3>1, AskEffect DEF PoolKnown
    <3>2. ASSUME NEW c \in Requests \cup Browsers, Insert(c) \/ Yield(c)
          PROVE  \A d \in Requests \cup Browsers : \A x \in get'[d].wants : Known(x.store)
      BY <3>2, BuildEffect DEF PoolKnown
    <3>3. ASSUME NEW c \in Requests \cup Browsers, Pool!Release(c) \/ Pool!GetFails(c)
          PROVE  \A d \in Requests \cup Browsers : \A x \in get'[d].wants : Known(x.store)
      BY <3>3, EndEffect DEF PoolKnown
    <3>4. CASE UNCHANGED get
      BY <3>4 DEF PoolKnown
    <3>5. ASSUME NEW r \in Requests, UseRoute(r)
          PROVE  \A d \in Requests \cup Browsers : \A x \in get'[d].wants : Known(x.store)
      BY <3>1, <3>5 DEF UseRoute, RoutesKnown
    <3>6. ASSUME NEW z \in Browsers, BrowseAsks(z)
          PROVE  \A d \in Requests \cup Browsers : \A x \in get'[d].wants : Known(x.store)
      BY <3>1, <3>6 DEF BrowseAsks, PoolKnown
    <3>7. ASSUME NEW a \in Admins, Administer(a) PROVE UNCHANGED get
      BY <3>7 DEF Administer, UpdateBackend, AdminReturns, AdminFails, AdminWorks, gatewayVars,
         Pool!Invalidate
    <3>8. ASSUME NEW r \in Requests, Serve(r)
          PROVE  \A d \in Requests \cup Browsers : \A x \in get'[d].wants : Known(x.store)
      BY <3>2, <3>3, <3>4, <3>5, <3>8 DEF Serve, Resolve, Reply, gatewayVars
    <3>9. ASSUME NEW z \in Browsers, Browse(z)
          PROVE  \A d \in Requests \cup Browsers : \A x \in get'[d].wants : Known(x.store)
      BY <3>2, <3>3, <3>4, <3>6, <3>9 DEF Browse, BrowseReads, BrowseEnds
    <3>10. QED
      BY <3>4, <3>7, <3>8, <3>9 DEF GatewayNext, Between, gatewayVars, allVars
  \* A slot is filled by a caller that asked for its store.
  <2>3. ASSUME NEW p \in Processes, NEW s \in Stores, backends'[p][s] # {} PROVE Known(s)
    <3>1. CASE backends[p][s] # {}
      BY <3>1 DEF PoolKnown
    <3>2. CASE backends[p][s] = {}
      <4>1. \A c \in Requests \cup Browsers : Insert(c) => Known(s)
        <5>1. SUFFICES ASSUME NEW c \in Requests \cup Browsers, Insert(c) PROVE Known(s)
          OBVIOUS
        <5>2. PICK built \in get[c].wants :
                backends' = [backends EXCEPT ![At[c]][built.store] = {built}]
          BY <5>1 DEF Insert, Pool!GetInserts
        <5>3. built.store \in Stores /\ At[c] \in Processes
          BY PlaceAssumption DEF Pool!PoolTypeOK, Pool!Clients
        <5>4. s = built.store
          BY <2>3, <3>2, <5>2, <5>3 DEF Pool!PoolTypeOK
        <5>5. QED
          BY <5>4 DEF PoolKnown
      <4>2. ASSUME NEW z \in Processes, NEW x, Pool!Invalidate(z, x) PROVE FALSE
        BY <2>3, <3>2, <4>2 DEF Pool!Invalidate, Pool!PoolTypeOK
      <4>3. backends' # backends
        BY <2>3, <3>2
      <4>4. ASSUME NEW r \in Requests, Serve(r) PROVE Known(s)
        BY <4>1, <4>3, <4>4 DEF Serve, Resolve, UseRoute, AskPool, Yield, Reply, gatewayVars,
           Pool!GetPooled, Pool!GetBuilds, Pool!GetYields, Pool!GetFails, Pool!Release
      <4>5. ASSUME NEW z \in Browsers, Browse(z) PROVE Known(s)
        BY <4>1, <4>3, <4>5 DEF Browse, BrowseReads, BrowseAsks, AskPool, Yield, BrowseEnds,
           Pool!GetPooled, Pool!GetBuilds, Pool!GetYields, Pool!GetFails, Pool!Release
      <4>6. ASSUME NEW a \in Admins, Administer(a) PROVE Known(s)
        BY <4>2, <4>3, <4>6, PlaceAssumption DEF Administer, UpdateBackend, AdminReturns,
           AdminFails, AdminWorks, gatewayVars
      <4>7. QED
        BY <4>3, <4>4, <4>5, <4>6 DEF GatewayNext, Between, gatewayVars, allVars
    <3>3. QED
      BY <3>1, <3>2
  <2>4. \A x \in Browsers : \A seen \in browsing'[x] : seen.store \in Stores
    BY DEF BrowsingOK, Pool!Clients
  <2>5. \A c \in Requests \cup Browsers : \A x \in get'[c].wants : x.store \in Stores
    BY DEF StoresAsked
  <2>6. QED
    BY <2>0, <2>1, <2>2, <2>3, <2>4, <2>5 DEF PoolKnown
<1>3. Pool!PoolTypeOK => StoresAsked
  BY DEF Pool!PoolTypeOK, Pool!Clients, StoresAsked
<1>4. QED
  BY <1>1, <1>2, <1>3, ImplementsBucketRoutes, TypeCorrect, RoutesKnownCorrect, BrowsingCorrect,
     PoolCorrect, PTL DEF GatewaySpec
-----------------------------------------------------------------------------
(* What a step may do to the credentials of a store that has some. *)
LEMMA ConfigEffect ==
  ASSUME TypeOK, [GatewayNext]_allVars, NEW s \in Stores, status'[s] = "live", Known(s)
  PROVE  /\ status[s] = "live"
         /\ \/ settings'[s].config = settings[s].config
            \/ \E a \in Admins, config \in Configs : UpdateBackend(a, config) /\ adm[a].store = s
<1> DEFINE Same == status[s] = "live" /\ settings'[s].config = settings[s].config
<1>0. status \in [Stores -> {"absent", "live", "deleted"}] /\ settings \in [Stores -> Settings]
  BY DEF TypeOK
<1>1. ASSUME NEW z \in Stores, NEW columns, CreateStore(z, columns) PROVE Same
  BY <1>0, <1>1 DEF CreateStore, Known
<1>2. ASSUME NEW a \in Admins, DeleteStore(a) PROVE Same
  BY <1>0, <1>2 DEF DeleteStore, Known
<1>3. ASSUME NEW a \in Admins, NEW z \in Stores, NEW origins, UpdateStoreAllowedOrigins(a, z, origins)
      PROVE  Same
  BY <1>0, <1>3 DEF UpdateStoreAllowedOrigins
<1>4. ASSUME NEW a \in Admins, NEW config \in Configs, UpdateBackend(a, config)
      PROVE  /\ status[s] = "live"
             /\ settings'[s].config = settings[s].config \/ adm[a].store = s
  BY <1>0, <1>4 DEF UpdateBackend, UpdateStoreBackend
<1>5. CASE UNCHANGED <<status, settings>>
  BY <1>5
<1>6. ASSUME NEW r \in Requests, Serve(r) PROVE UNCHANGED <<status, settings>>
  BY <1>6 DEF Serve, Resolve, UseRoute, AskPool, Insert, Yield, Reply, Lookup, Hit, Miss, Select,
     Refused, Fill, FillLost, Finish, Abandon, Leave, tables, vars
<1>7. ASSUME NEW x \in Browsers, Browse(x) PROVE UNCHANGED <<status, settings>>
  BY <1>7 DEF Browse, BrowseReads, BrowseAsks, AskPool, Insert, Yield, BrowseEnds, vars
<1>8. ASSUME NEW a \in Admins, Administer(a)
      PROVE  \/ UNCHANGED <<status, settings>>
             \/ DeleteStore(a)
             \/ \E config \in Configs : UpdateBackend(a, config)
             \/ \E z \in Stores, origins \in Origins : UpdateStoreAllowedOrigins(a, z, origins)
  BY <1>8 DEF Administer, AdminReturns, AdminFails, AdminWorks, MappingStep, VerifyStore,
     ListForEviction, DeleteStoreLists, Evict, EvictLost, PreEvict, ListBucketMappings,
     DeleteBucketMapping, Return, RowGone, Fail, tables
<1>9. QED
  BY <1>1, <1>2, <1>3, <1>4, <1>5, <1>6, <1>7, <1>8
     DEF GatewayNext, Between, CreateBucketMapping, Expire, allVars, vars, tables

\* A call that is going to invalidate the client of s in p.
Invalidating(a, p, s) ==
  At[a] = p /\ adm[a].op = "backend" /\ adm[a].store = s /\ adm[a].pc \in {"list", "evict"}

Excused(p, s) == <<p, s>> \in raced \cup stray \/ \E a \in Admins : Invalidating(a, p, s)

(* An excuse is given up only by the call that empties the slot. *)
LEMMA ExcuseStays ==
  ASSUME TypeOK, Pool!PoolTypeOK, [GatewayNext]_allVars, NEW p \in Processes, NEW s \in Stores,
         Excused(p, s)
  PROVE  Excused(p, s)' \/ backends'[p][s] = {}
<1>0. adm \in [Admins -> Calls] /\ \A a \in Admins : adm[a].pc # "idle" => adm[a].store \in Stores
  BY DEF TypeOK, AdminTypeOK
<1>1. ASSUME NEW a \in Admins, Administer(a) PROVE Excused(p, s)' \/ backends'[p][s] = {}
  <2>0. \A c \in Admins \ {a} : adm'[c] = adm[c]
    <3>1. \E y : adm' = [adm EXCEPT ![a] = y]
      BY <1>1 DEF Administer, UpdateBackend, AdminReturns, AdminFails, AdminWorks, MappingStep,
         VerifyStore, UpdateStoreBackend, UpdateStoreAllowedOrigins, ListForEviction,
         DeleteStoreLists, DeleteStore, Evict, EvictLost, PreEvict, NextBucket,
         ListBucketMappings, DeleteBucketMapping, Return, RowGone, Fail
    <3>2. QED
      BY <1>0, <3>1
  <2>1. CASE AdminReturns(a)
    <3>1. adm[a].pc = "evict" /\ adm[a].store \in Stores
      BY <1>0, <2>1 DEF AdminReturns, Return
    <3>2. CASE adm[a].op \in {"backend", "store"}
      <4>1. CASE p = At[a] /\ s = adm[a].store
        BY <2>1, <3>2, <4>1 DEF AdminReturns, Pool!Invalidate, Pool!PoolTypeOK
      <4>2. CASE ~(p = At[a] /\ s = adm[a].store)
        <5>1. <<p, s>> # <<At[a], adm[a].store>>
          BY <4>2
        <5>2. <<p, s>> \in raced \cup stray => <<p, s>> \in raced' \cup stray'
          BY <2>1, <3>2, <5>1 DEF AdminReturns
        <5>3. \A c \in Admins : Invalidating(c, p, s) => Invalidating(c, p, s)'
          BY <2>0, <4>2 DEF Invalidating
        <5>4. QED
          BY <5>2, <5>3 DEF Excused
      <4>3. QED
        BY <4>1, <4>2
    <3>3. CASE adm[a].op \notin {"backend", "store"}
      <4>1. UNCHANGED <<raced, stray>>
        BY <2>1, <3>3 DEF AdminReturns
      <4>2. \A c \in Admins : Invalidating(c, p, s) => Invalidating(c, p, s)'
        BY <2>0, <3>3 DEF Invalidating
      <4>3. QED
        BY <4>1, <4>2 DEF Excused
    <3>4. QED
      BY <3>2, <3>3
  <2>2. ASSUME NEW config \in Configs, UpdateBackend(a, config) PROVE Excused(p, s)'
    <3>1. raced' = raced /\ stray \subseteq stray' /\ adm[a].pc = "update"
      BY <2>2 DEF UpdateBackend, UpdateStoreBackend
    <3>2. QED
      BY <2>0, <3>1 DEF Excused, Invalidating
  <2>3. CASE AdminFails(a)
    <3>1. raced' = raced /\ stray \subseteq stray'
      BY <2>3 DEF AdminFails
    <3>2. Invalidating(a, p, s) => <<p, s>> \in stray'
      BY <2>3 DEF AdminFails, Invalidating
    <3>3. QED
      BY <2>0, <3>1, <3>2 DEF Excused, Invalidating
  <2>4. CASE AdminWorks(a)
    <3>1. UNCHANGED <<raced, stray>>
      BY <2>4 DEF AdminWorks, gatewayVars
    <3>2. Invalidating(a, p, s) => Invalidating(a, p, s)'
      <4>1. CASE ListForEviction(a)
        BY <1>0, <4>1 DEF ListForEviction, Invalidating, Call
      <4>2. ASSUME NEW b \in Buckets, Evict(a, b) \/ EvictLost(a, b)
            PROVE  Invalidating(a, p, s) => Invalidating(a, p, s)'
        BY <1>0, <4>2 DEF Evict, EvictLost, NextBucket, Invalidating, Call
      <4>3. ~ListForEviction(a) /\ (\A b \in Buckets : ~Evict(a, b) /\ ~EvictLost(a, b))
              => adm[a].pc \notin {"list", "evict"}
        BY <2>4 DEF AdminWorks, VerifyStore, UpdateStoreAllowedOrigins, DeleteStoreLists, PreEvict,
           DeleteStore, MappingStep, ListBucketMappings, DeleteBucketMapping, RowGone
      <4>4. QED
        BY <4>1, <4>2, <4>3 DEF Invalidating
    <3>3. QED
      BY <2>0, <3>1, <3>2 DEF Excused, Invalidating
  <2>5. QED
    BY <1>1, <2>1, <2>2, <2>3, <2>4 DEF Administer
<1>2. ASSUME NEW r \in Requests, Serve(r)
      PROVE  adm' = adm /\ raced \subseteq raced' /\ stray \subseteq stray'
  BY <1>2 DEF Serve, Resolve, UseRoute, AskPool, Insert, Yield, Reply, Lookup, Hit, Miss, Select,
     Refused, Fill, FillLost, Finish, Abandon, Leave, gatewayVars, vars
<1>3. ASSUME NEW x \in Browsers, Browse(x)
      PROVE  adm' = adm /\ raced \subseteq raced' /\ stray \subseteq stray'
  BY <1>3 DEF Browse, BrowseReads, BrowseAsks, AskPool, Insert, Yield, BrowseEnds, vars
<1>4. CASE Between \/ UNCHANGED allVars
  BY <1>4 DEF Between, CreateStore, CreateBucketMapping, Expire, gatewayVars, allVars, vars,
     Excused, Invalidating
<1>5. CASE adm' = adm /\ raced \subseteq raced' /\ stray \subseteq stray'
  BY <1>5 DEF Excused, Invalidating
<1>6. QED
  BY <1>1, <1>2, <1>3, <1>4, <1>5 DEF GatewayNext

(* What a step puts into a slot was there, or is the client a caller has built. *)
LEMMA SlotEffect ==
  ASSUME TypeOK, Pool!PoolTypeOK, [GatewayNext]_allVars, NEW p \in Processes, NEW s \in Stores,
         NEW x \in backends'[p][s]
  PROVE  \/ x \in backends[p][s]
         \/ \E c \in Requests \cup Browsers :
              Insert(c) /\ At[c] = p /\ x \in get[c].wants /\ x.store = s
<1>1. CASE backends' = backends
  BY <1>1
<1>2. ASSUME NEW c \in Requests \cup Browsers, Insert(c)
      PROVE  \/ x \in backends[p][s]
             \/ At[c] = p /\ x \in get[c].wants /\ x.store = s
  <2>1. PICK built \in get[c].wants :
          backends' = [backends EXCEPT ![At[c]][built.store] = {built}]
    BY <1>2 DEF Insert, Pool!GetInserts
  <2>2. built.store \in Stores /\ At[c] \in Processes
    BY PlaceAssumption DEF Pool!PoolTypeOK, Pool!Clients
  <2>3. CASE At[c] = p /\ built.store = s
    BY <2>1, <2>2, <2>3 DEF Pool!PoolTypeOK
  <2>4. CASE ~(At[c] = p /\ built.store = s)
    BY <2>1, <2>2, <2>4 DEF Pool!PoolTypeOK
  <2>5. QED
    BY <2>3, <2>4
<1>3. ASSUME NEW z, NEW y, Pool!Invalidate(z, y) PROVE x \in backends[p][s]
  BY <1>3 DEF Pool!Invalidate, Pool!PoolTypeOK
<1>4. ASSUME NEW r \in Requests, Serve(r), ~Insert(r) PROVE backends' = backends
  BY <1>4 DEF Serve, Resolve, UseRoute, AskPool, Yield, Reply, gatewayVars,
     Pool!GetPooled, Pool!GetBuilds, Pool!GetYields, Pool!GetFails, Pool!Release
<1>5. ASSUME NEW z \in Browsers, Browse(z), ~Insert(z) PROVE backends' = backends
  BY <1>5 DEF Browse, BrowseReads, BrowseAsks, AskPool, Yield, BrowseEnds,
     Pool!GetPooled, Pool!GetBuilds, Pool!GetYields, Pool!GetFails, Pool!Release
<1>6. ASSUME NEW a \in Admins, Administer(a) PROVE x \in backends[p][s]
  BY <1>1, <1>3, <1>6 DEF Administer, UpdateBackend, AdminReturns, AdminFails, AdminWorks,
     gatewayVars
<1>7. QED
  BY <1>1, <1>2, <1>4, <1>5, <1>6 DEF GatewayNext, Between, gatewayVars, allVars

(***************************************************************************)
(* A pooled client with old credentials has one of the excuses: nothing    *)
(* else keeps the credentials of an update from taking effect.             *)
(***************************************************************************)
THEOREM OldClientIsExcusedHolds == GatewaySpec => []OldClientIsExcused
<1>1. GatewayInit => OldClientIsExcused
  BY DEF GatewayInit, Pool!PoolInit, OldClientIsExcused
<1>2. TypeOK /\ Pool!PoolTypeOK /\ PoolKnown /\ OldClientIsExcused /\ [GatewayNext]_allVars
        => OldClientIsExcused'
  <2> SUFFICES ASSUME TypeOK, Pool!PoolTypeOK, PoolKnown, OldClientIsExcused,
                      [GatewayNext]_allVars, NEW p \in Processes, NEW s \in Stores,
                      NEW x \in backends'[p][s], status'[s] = "live",
                      x.config # settings'[s].config
               PROVE  Excused(p, s)'
    BY DEF OldClientIsExcused, Excused, Invalidating
  <2>1. CASE \E c \in Requests \cup Browsers :
               Insert(c) /\ At[c] = p /\ x \in get[c].wants /\ x.store = s
    <3>1. PICK c \in Requests \cup Browsers :
            Insert(c) /\ At[c] = p /\ x \in get[c].wants /\ x.store = s
      BY <2>1
    <3>2. x.config # settings[s].config
      BY <3>1 DEF Insert, vars
    <3>3. <<p, s>> \in raced'
      BY <3>1, <3>2 DEF Insert
    <3>4. QED
      BY <3>3 DEF Excused
  <2>2. CASE x \in backends[p][s]
    <3>1. Known(s)
      BY <2>2 DEF PoolKnown
    <3>2. status[s] = "live"
      BY <3>1, ConfigEffect
    <3>3. CASE settings'[s].config = settings[s].config
      <4>1. Excused(p, s)
        BY <2>2, <3>2, <3>3 DEF OldClientIsExcused, Excused, Invalidating
      <4>2. QED
        BY <4>1, ExcuseStays
    <3>4. CASE \E a \in Admins, config \in Configs :
                 UpdateBackend(a, config) /\ adm[a].store = s
      <4>1. PICK a \in Admins, config \in Configs :
              UpdateBackend(a, config) /\ adm[a].store = s
        BY <3>4
      <4>2. UpdateStoreBackend(a, config)
        BY <4>1 DEF UpdateBackend
      <4>3. CASE At[a] = p
        BY <4>1, <4>2, <4>3 DEF UpdateStoreBackend, Call, Excused, Invalidating, TypeOK, AdminTypeOK
      <4>4. CASE At[a] # p
        BY <2>2, <4>1, <4>4 DEF UpdateBackend, Elsewhere, Excused
      <4>5. QED
        BY <4>3, <4>4
    <3>5. QED
      BY <3>1, <3>3, <3>4, ConfigEffect
  <2>3. QED
    BY <2>1, <2>2, SlotEffect
<1>3. QED
  BY <1>1, <1>2, ImplementsBucketRoutes, TypeCorrect, PoolCorrect, PoolKnownCorrect, PTL
     DEF GatewaySpec
=============================================================================
