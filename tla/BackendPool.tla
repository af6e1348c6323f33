----------------------------- MODULE BackendPool -----------------------------
(***************************************************************************)
(* backend.Pool: one SDK client per store and gateway process, built on    *)
(* first use and kept until it is invalidated.  Get holds the lock only    *)
(* while it looks, and again while it inserts: other callers, and          *)
(* Invalidate, run between the two.                                        *)
(***************************************************************************)
CONSTANTS Processes,  \* gateway processes, each with a pool of its own
          Callers,    \* handlers that call Get
          At,         \* the process a handler runs in
          Stores,
          Configs     \* backend configurations, decrypted

ASSUME AtAssumption == \A c \in Callers : At[c] \in Processes

VARIABLES backends,  \* per process and store, the client in the map, if any
          get        \* the Get in progress of each caller

poolVars == <<backends, get>>

\* A client knows the store and the configuration it was built for.
Clients == [store : Stores, config : Configs]

NoGet == [pc |-> "idle", wants |-> {}, client |-> {}]
Done(wants, client) == [pc |-> "done", wants |-> wants, client |-> client]
Client(s, config) == [store |-> s, config |-> config]

\* Mutant: the map is keyed by something that stores share, like the backend type.
PooledByType(c, s) == UNION {backends[At[c]][x] : x \in Stores}

Pooled(c, s) == backends[At[c]][s]

PoolInit ==
  /\ backends = [p \in Processes |-> [s \in Stores |-> {}]]
  /\ get = [c \in Callers |-> NoGet]
-----------------------------------------------------------------------------
\* The first look, under the read lock: the pooled client is the answer.
GetPooled(c, s, config) ==
  /\ get[c].pc = "idle"
  /\ Pooled(c, s) # {}
  /\ get' = [get EXCEPT ![c] = Done({Client(s, config)}, Pooled(c, s))]
  /\ UNCHANGED backends

\* No client yet: decrypt the configuration of the route and build one.
GetBuilds(c, s, config) ==
  /\ get[c].pc = "idle"
  /\ Pooled(c, s) = {}
  /\ get' = [get EXCEPT ![c] = [pc |-> "build",
                                wants |-> {Client(s, config)},
                                client |-> {}]]
  /\ UNCHANGED backends

\* Mutant: no second look.
InsertsUnchecked(c) ==
  /\ get[c].pc = "build"
  /\ \E built \in get[c].wants :
       /\ backends' = [backends EXCEPT ![At[c]][built.store] = {built}]
       /\ get' = [get EXCEPT ![c] = Done({built}, {built})]

\* The second look, under the write lock: nobody else has built one.
GetInserts(c) ==
  /\ get[c].pc = "build"
  /\ \E built \in get[c].wants :
       /\ Pooled(c, built.store) = {}
       /\ backends' = [backends EXCEPT ![At[c]][built.store] = {built}]
       /\ get' = [get EXCEPT ![c] = Done({built}, {built})]

\* Somebody else has: use that one and drop the one just built.
GetYields(c) ==
  /\ get[c].pc = "build"
  /\ \E built \in get[c].wants :
       /\ Pooled(c, built.store) # {}
       /\ get' = [get EXCEPT ![c] = Done({built}, Pooled(c, built.store))]
  /\ UNCHANGED backends

\* The configuration cannot be decrypted or the client cannot be built.
GetFails(c) ==
  /\ get[c].pc = "build"
  /\ get' = [get EXCEPT ![c] = NoGet]
  /\ UNCHANGED backends

\* The caller has done with the client.
Release(c) ==
  /\ get[c].pc = "done"
  /\ get' = [get EXCEPT ![c] = NoGet]
  /\ UNCHANGED backends

\* Mutant: the slot is overwritten with nil instead of being deleted.
InvalidateToNil(p, s) ==
  /\ backends' = [backends EXCEPT ![p][s] = {[store |-> s, config |-> {}]}]
  /\ UNCHANGED get

\* updateStoreBackend and deleteStore remove the client from their own pool.
Invalidate(p, s) ==
  /\ backends' = [backends EXCEPT ![p][s] = {}]
  /\ UNCHANGED get

\* A process that stops takes its pool, and the calls it was serving, with it.
Restart(p) ==
  /\ backends' = [backends EXCEPT ![p] = [s \in Stores |-> {}]]
  /\ get' = [c \in Callers |-> IF At[c] = p THEN NoGet ELSE get[c]]

PoolNext ==
  \/ \E c \in Callers, s \in Stores, config \in Configs :
       GetPooled(c, s, config) \/ GetBuilds(c, s, config)
  \/ \E c \in Callers : GetInserts(c) \/ GetYields(c) \/ GetFails(c) \/ Release(c)
  \/ \E p \in Processes, s \in Stores : Invalidate(p, s)
  \/ \E p \in Processes : Restart(p)

PoolSpec == PoolInit /\ [][PoolNext]_poolVars
-----------------------------------------------------------------------------
PoolTypeOK ==
  /\ backends \in [Processes -> [Stores -> SUBSET Clients]]
  /\ get \in [Callers -> [pc : {"idle", "build", "done"},
                          wants : SUBSET Clients,
                          client : SUBSET Clients]]

(***************************************************************************)
(* A slot of the map never holds a client of another store, and a caller   *)
(* that is done has exactly one client, of the store it asked for: the     *)
(* credentials of one store are never used for another (Pool.Get,          *)
(* factory.go).                                                            *)
(***************************************************************************)
OneClientPerStore ==
  /\ \A p \in Processes, s \in Stores :
       \A x, y \in backends[p][s] : x = y /\ x.store = s
  /\ \A c \in Callers :
       get[c].pc = "done" =>
         \E x \in Clients : /\ get[c].client = {x}
                           /\ \A wanted \in get[c].wants : x.store = wanted.store

(***************************************************************************)
(* Callers that build at the same time agree: a client in the map is never *)
(* overwritten, and a Get that ends returns the client the map then holds  *)
(* (the double check in Pool.Get, factory.go).                             *)
(***************************************************************************)
BuildersAgree ==
  [][/\ \A p \in Processes, s \in Stores :
          backends[p][s] # {} => backends'[p][s] \in {backends[p][s], {}}
     /\ \A c \in Callers :
          get[c].pc # "done" =>
            \A wanted \in get'[c].wants :
              get'[c].pc = "done" => get'[c].client = backends'[At[c]][wanted.store]]_poolVars
=============================================================================
