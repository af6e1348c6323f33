------------------------------- MODULE Gateway -------------------------------
(***************************************************************************)
(* Several gateway processes over one PostgreSQL and one Redis: the        *)
(* resolution of buckets (BucketRoutes) composed with the pool of backend  *)
(* clients that each process keeps (BackendPool).  A request resolves its  *)
(* bucket and asks the pool for a client of the store (resolveBucket, s3/  *)
(* handler.go); the admin console's object browser asks the pool with a    *)
(* route it builds from the tables (resolveBrowseContext, admin/           *)
(* browse.go); an update or deletion of a store ends by invalidating the   *)
(* client in the pool of the process that served it.                       *)
(***************************************************************************)
EXTENDS BucketRoutes

CONSTANTS Processes,
          Browsers,  \* slots for calls of the object browser
          At         \* the process that serves a request, a browser or an admin call

ASSUME PlaceAssumption == \A c \in Requests \cup Browsers \cup Admins : At[c] \in Processes
ASSUME SlotAssumption == Requests \cap Browsers = {}

VARIABLES backends, get,  \* see BackendPool
          browsing        \* the store and configuration each browser has read

\* History: slots of the pools whose client was built from an obsolete route,
\* and slots whose client became obsolete without a call that will invalidate it.
VARIABLES raced, stray

Pool == INSTANCE BackendPool WITH Callers <- Requests \cup Browsers

gatewayVars == <<backends, get, browsing, raced, stray>>
allVars == <<vars, gatewayVars>>

GatewayInit ==
  /\ Init
  /\ Pool!PoolInit
  /\ browsing = [x \in Browsers |-> {}]
  /\ raced = {}
  /\ stray = {}
-----------------------------------------------------------------------------
(***************************************************************************)
(* A request that has a route asks for a client; what it does with it is   *)
(* Finish.  A preflight, or a request without a route, needs none.         *)
(***************************************************************************)
Resolve(r) ==
  /\ \/ \E t \in Tenants \cup {None}, b \in Buckets : Lookup(r, t, b)
     \/ Hit(r) \/ Miss(r) \/ Select(r) \/ Refused(r)
     \/ Fill(r) \/ FillLost(r) \/ Abandon(r)
  /\ UNCHANGED gatewayVars

AskPool(c, s, config) ==
  /\ Pool!GetPooled(c, s, config) \/ Pool!GetBuilds(c, s, config)
  /\ UNCHANGED <<vars, browsing, raced, stray>>

UseRoute(r) ==
  /\ req[r].pc = "use"
  /\ ~Preflight(r)
  /\ \E route \in req[r].ans : AskPool(r, route.store, route.settings.config)

\* The client built is put in the map, or another caller was faster.
Insert(c) ==
  LET obsolete == {x \in get[c].wants : x.config # settings[x.store].config} IN
  /\ Pool!GetInserts(c)
  /\ raced' = raced \cup {<<At[c], x.store>> : x \in obsolete}
  /\ UNCHANGED <<vars, browsing, stray>>

Yield(c) == Pool!GetYields(c) /\ UNCHANGED <<vars, browsing, raced, stray>>

Reply(r) ==
  /\ Finish(r)
  /\ \/ (Preflight(r) \/ req[r].ans = {}) /\ UNCHANGED <<backends, get>>
     \/ Pool!Release(r)
     \/ Pool!GetFails(r)
  /\ UNCHANGED <<browsing, raced, stray>>
-----------------------------------------------------------------------------
\* resolveBrowseContext reads the row of the store, then the mapping.
BrowseReads(x, s) ==
  /\ browsing[x] = {}
  /\ status[s] = "live"
  /\ browsing' = [browsing EXCEPT ![x] = {[store |-> s, config |-> settings[s].config]}]
  /\ UNCHANGED <<vars, backends, get, raced, stray>>

BrowseAsks(x) == \E seen \in browsing[x] : AskPool(x, seen.store, seen.config)

\* The listing is done, or there was no such mapping or no client.
BrowseEnds(x) ==
  /\ browsing[x] # {}
  /\ browsing' = [browsing EXCEPT ![x] = {}]
  /\ \/ get[x].pc = "idle" /\ UNCHANGED <<backends, get>>
     \/ Pool!Release(x)
     \/ Pool!GetFails(x)
  /\ UNCHANGED <<vars, raced, stray>>
-----------------------------------------------------------------------------
\* Pools of other processes that hold a client of s when its row is updated.
Elsewhere(p, s) == {<<q, s>> : q \in {x \in Processes \ {p} : backends[x][s] # {}}}

UpdateBackend(a, config) ==
  /\ UpdateStoreBackend(a, config)
  /\ stray' = stray \cup Elsewhere(At[a], adm[a].store)
  /\ UNCHANGED <<backends, get, browsing, raced>>

\* Mutant: only deleteStore invalidates the client.
ReturnsWithoutInvalidate(a) ==
  /\ Return(a)
  /\ IF adm[a].op = "store"
     THEN Pool!Invalidate(At[a], adm[a].store)
     ELSE UNCHANGED <<backends, get>>
  /\ UNCHANGED <<browsing, raced, stray>>

\* updateStoreBackend and deleteStore end with pool.Invalidate; the CORS update
\* and the operations on mappings do not.
AdminReturns(a) ==
  LET slot == <<At[a], adm[a].store>> IN
  /\ Return(a)
  /\ IF adm[a].op \in {"backend", "store"}
     THEN /\ Pool!Invalidate(At[a], adm[a].store)
          /\ raced' = raced \ {slot}
          /\ stray' = stray \ {slot}
     ELSE UNCHANGED <<backends, get, raced, stray>>
  /\ UNCHANGED browsing

\* A failure after the UPDATE returns before pool.Invalidate.
AdminFails(a) ==
  /\ Fail(a)
  /\ stray' = IF adm[a].op = "backend" /\ adm[a].pc \in {"list", "evict"}
              THEN stray \cup {<<At[a], adm[a].store>>} ELSE stray
  /\ UNCHANGED <<backends, get, browsing, raced>>

AdminWorks(a) ==
  /\ \/ \E s \in Stores, mode \in Modes : VerifyStore(a, s, mode)
     \/ \E s \in Stores, origins \in Origins : UpdateStoreAllowedOrigins(a, s, origins)
     \/ \E s \in Stores : DeleteStoreLists(a, s)
     \/ \E b \in Buckets : Evict(a, b) \/ EvictLost(a, b) \/ PreEvict(a, b)
     \/ ListForEviction(a) \/ DeleteStore(a) \/ MappingStep(a) \/ RowGone(a)
  /\ UNCHANGED gatewayVars

Serve(r) == Resolve(r) \/ UseRoute(r) \/ Insert(r) \/ Yield(r) \/ Reply(r)

Browse(x) ==
  \/ \E s \in Stores : BrowseReads(x, s)
  \/ BrowseAsks(x) \/ Insert(x) \/ Yield(x) \/ BrowseEnds(x)

Administer(a) ==
  \/ \E config \in Configs : UpdateBackend(a, config)
  \/ AdminReturns(a) \/ AdminFails(a) \/ AdminWorks(a)

\* Single statements, and what Redis does by itself.
Between ==
  /\ \/ \E s \in Stores, columns \in Settings : CreateStore(s, columns)
     \/ \E s \in Stores, b \in Buckets, id \in MappingIds, prefix \in Prefixes :
          CreateBucketMapping(s, b, id, prefix)
     \/ \E b \in Buckets : Expire(b)
  /\ UNCHANGED gatewayVars

GatewayNext ==
  \/ \E r \in Requests : Serve(r)
  \/ \E x \in Browsers : Browse(x)
  \/ \E a \in Admins : Administer(a)
  \/ Between

GatewaySpec == GatewayInit /\ [][GatewayNext]_allVars
-----------------------------------------------------------------------------
GatewayTypeOK ==
  /\ TypeOK
  /\ Pool!PoolTypeOK
  /\ browsing \in [Browsers -> SUBSET Pool!Clients]
  /\ raced \subseteq Processes \X Stores
  /\ stray \subseteq Processes \X Stores

(***************************************************************************)
(* The client an S3 request is given is one of a store of its own tenant,  *)
(* through a stale route, a shared pool and buckets that change hands      *)
(* (resolveBucket, s3/handler.go).                                         *)
(***************************************************************************)
ClientOfTenant ==
  \A r \in Requests : \A x \in get[r].client : Owner[x.store] = req[r].tenant

(***************************************************************************)
(* A pooled client with credentials other than the store's has three       *)
(* excuses: an update in progress in its own process will invalidate it,   *)
(* it was built from an obsolete route, or the update that made it         *)
(* obsolete failed half-way or ran in another process (Pool, factory.go;   *)
(* updateStoreBackend, stores.go).                                         *)
(***************************************************************************)
OldClientIsExcused ==
  \A p \in Processes, s \in Stores :
    \A x \in backends[p][s] :
      status[s] = "live" /\ x.config # settings[s].config =>
        \/ <<p, s>> \in raced \cup stray
        \/ \E a \in Admins : /\ At[a] = p
                             /\ adm[a].op = "backend"
                             /\ adm[a].store = s
                             /\ adm[a].pc \in {"list", "evict"}

AllIdle == Quiescent /\ \A x \in Browsers : browsing[x] = {}

(***************************************************************************)
(* After an update of the backend the next request picks up the new        *)
(* credentials (README.md, "PUT .../backend"; Invalidate, factory.go).     *)
(***************************************************************************)
CredentialsTakeEffect ==
  AllIdle =>
    \A p \in Processes, s \in Stores :
      status[s] = "live" => \A x \in backends[p][s] : x.config = settings[s].config
=============================================================================
