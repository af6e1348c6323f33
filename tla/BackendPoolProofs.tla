-------------------------- MODULE BackendPoolProofs --------------------------
(***************************************************************************)
(* Proofs about BackendPool, for any number of processes, callers, stores  *)
(* and configurations.                                                     *)
(***************************************************************************)
EXTENDS BackendPool, TLAPS

(***************************************************************************)
(* Every variable of the pool keeps its type.                              *)
(***************************************************************************)
THEOREM PoolTypeCorrect == PoolSpec => []PoolTypeOK
<1>1. PoolInit => PoolTypeOK
  BY DEF PoolInit, PoolTypeOK, NoGet, Clients
<1>2. PoolTypeOK /\ [PoolNext]_poolVars => PoolTypeOK'
  <2> SUFFICES ASSUME PoolTypeOK, [PoolNext]_poolVars PROVE PoolTypeOK'
    OBVIOUS
  <2> USE DEF PoolTypeOK
  <2>1. ASSUME NEW c \in Callers, NEW s \in Stores, NEW config \in Configs,
               GetPooled(c, s, config) \/ GetBuilds(c, s, config)
        PROVE  PoolTypeOK'
    BY <2>1, AtAssumption DEF GetPooled, GetBuilds, Pooled, Done, Client, Clients
  <2>2. ASSUME NEW c \in Callers,
               GetInserts(c) \/ GetYields(c) \/ GetFails(c) \/ Release(c)
        PROVE  PoolTypeOK'
    <3>1. CASE GetInserts(c)
      BY <3>1, AtAssumption DEF GetInserts, Pooled, Done, Clients
    <3>2. CASE GetYields(c)
      BY <3>2, AtAssumption DEF GetYields, Pooled, Done, Clients
    <3>3. CASE GetFails(c) \/ Release(c)
      BY <3>3 DEF GetFails, Release, NoGet
    <3> QED
      BY <2>2, <3>1, <3>2, <3>3
  <2>3. ASSUME NEW p \in Processes, NEW s \in Stores, Invalidate(p, s)
        PROVE  PoolTypeOK'
    BY <2>3 DEF Invalidate
  <2>4. ASSUME NEW p \in Processes, Restart(p)
        PROVE  PoolTypeOK'
    BY <2>4 DEF Restart, NoGet
  <2>5. CASE UNCHANGED poolVars
    BY <2>5 DEF poolVars
  <2> QED
    BY <2>1, <2>2, <2>3, <2>4, <2>5 DEF PoolNext
<1> QED
  BY <1>1, <1>2, PTL DEF PoolSpec

(***************************************************************************)
(* No client is ever used for another store: what is in a slot, and what a *)
(* Get returns, was built for the store that was asked for.                *)
(***************************************************************************)
THEOREM OneClientPerStoreHolds == PoolSpec => []OneClientPerStore
<1>1. PoolInit => OneClientPerStore
  BY DEF PoolInit, OneClientPerStore, NoGet
<1>2. PoolTypeOK /\ PoolTypeOK' /\ OneClientPerStore /\ [PoolNext]_poolVars => OneClientPerStore'
  <2> SUFFICES ASSUME PoolTypeOK, PoolTypeOK', OneClientPerStore, [PoolNext]_poolVars
               PROVE  OneClientPerStore'
    OBVIOUS
  <2> DEFINE SlotOK(p, s) == \A x, y \in backends[p][s] : x = y /\ x.store = s
             Served(c) == get[c].pc = "done" =>
                            \E x \in Clients : /\ get[c].client = {x}
                                              /\ \A wanted \in get[c].wants : x.store = wanted.store
  <2> SUFFICES /\ \A p \in Processes, s \in Stores : SlotOK(p, s)'
               /\ \A c \in Callers : Served(c)'
    BY DEF OneClientPerStore
  <2>a. /\ \A p \in Processes, s \in Stores : SlotOK(p, s)
        /\ \A c \in Callers : Served(c)
    BY DEF OneClientPerStore
  <2>b. \A c \in Callers, s \in Stores :
          Pooled(c, s) # {} => \E x \in Clients : Pooled(c, s) = {x} /\ x.store = s
    <3> SUFFICES ASSUME NEW c \in Callers, NEW s \in Stores, Pooled(c, s) # {}
                 PROVE  \E x \in Clients : Pooled(c, s) = {x} /\ x.store = s
      OBVIOUS
    <3>1. At[c] \in Processes /\ Pooled(c, s) = backends[At[c]][s]
      BY AtAssumption DEF Pooled
    <3>2. Pooled(c, s) \subseteq Clients
      BY <3>1 DEF PoolTypeOK
    <3>3. \A x, y \in Pooled(c, s) : x = y /\ x.store = s
      BY <3>1, <2>a
    <3>4. PICK x : x \in Pooled(c, s)
      OBVIOUS
    <3> QED
      BY <3>2, <3>3, <3>4
  <2>c. backends' = backends => \A p \in Processes, s \in Stores : SlotOK(p, s)'
    BY <2>a
  <2>1. ASSUME NEW c \in Callers, NEW s \in Stores, NEW config \in Configs,
               GetPooled(c, s, config)
        PROVE  (\A p \in Processes, z \in Stores : SlotOK(p, z)') /\ (\A d \in Callers : Served(d)')
    <3>1. PICK x \in Clients : Pooled(c, s) = {x} /\ x.store = s
      BY <2>1, <2>b DEF GetPooled
    <3>2. get' = [get EXCEPT ![c] = [pc |-> "done", wants |-> {[store |-> s, config |-> config]},
                                     client |-> {x}]]
      BY <2>1, <3>1 DEF GetPooled, Done, Client
    <3>3. Served(c)'
      BY <3>1, <3>2 DEF PoolTypeOK
    <3>4. ASSUME NEW d \in Callers, d # c PROVE Served(d)'
      BY <3>2, <3>4, <2>a DEF PoolTypeOK
    <3> QED
      BY <2>1, <2>c, <3>3, <3>4 DEF GetPooled
  <2>2. ASSUME NEW c \in Callers, NEW s \in Stores, NEW config \in Configs,
               GetBuilds(c, s, config)
        PROVE  (\A p \in Processes, z \in Stores : SlotOK(p, z)') /\ (\A d \in Callers : Served(d)')
    BY <2>2, <2>a DEF GetBuilds, PoolTypeOK
  <2>3. ASSUME NEW c \in Callers, GetInserts(c)
        PROVE  (\A p \in Processes, z \in Stores : SlotOK(p, z)') /\ (\A d \in Callers : Served(d)')
    <3>1. PICK built \in get[c].wants :
            /\ backends' = [backends EXCEPT ![At[c]][built.store] = {built}]
            /\ get' = [get EXCEPT ![c] = [pc |-> "done", wants |-> {built}, client |-> {built}]]
      BY <2>3 DEF GetInserts, Done
    <3>2. built \in Clients /\ built.store \in Stores /\ At[c] \in Processes
      BY AtAssumption DEF PoolTypeOK, Clients
    <3>3. ASSUME NEW p \in Processes, NEW z \in Stores PROVE SlotOK(p, z)'
      <4>1. CASE p = At[c] /\ z = built.store
        <5>1. backends'[p][z] = {built}
          BY <4>1, <3>1, <3>2 DEF PoolTypeOK
        <5> QED
          BY <5>1, <4>1
      <4>2. CASE ~(p = At[c] /\ z = built.store)
        <5>1. backends'[p][z] = backends[p][z]
          BY <4>2, <3>1, <3>2 DEF PoolTypeOK
        <5> QED
          BY <5>1, <2>a
      <4> QED
        BY <4>1, <4>2
    <3>4. Served(c)'
      BY <3>1, <3>2 DEF PoolTypeOK
    <3>5. ASSUME NEW d \in Callers, d # c PROVE Served(d)'
      BY <3>1, <3>5, <2>a DEF PoolTypeOK
    <3> QED
      BY <3>3, <3>4, <3>5
  <2>4. ASSUME NEW c \in Callers, GetYields(c)
        PROVE  (\A p \in Processes, z \in Stores : SlotOK(p, z)') /\ (\A d \in Callers : Served(d)')
    <3>1. PICK built \in get[c].wants :
            /\ Pooled(c, built.store) # {}
            /\ get' = [get EXCEPT ![c] = [pc |-> "done", wants |-> {built},
                                          client |-> Pooled(c, built.store)]]
      BY <2>4 DEF GetYields, Done
    <3>2. built.store \in Stores
      BY DEF PoolTypeOK, Clients
    <3>3. PICK x \in Clients : Pooled(c, built.store) = {x} /\ x.store = built.store
      BY <3>1, <3>2, <2>b
    <3>4. Served(c)'
      BY <3>1, <3>3 DEF PoolTypeOK
    <3>5. ASSUME NEW d \in Callers, d # c PROVE Served(d)'
      BY <3>1, <3>5, <2>a DEF PoolTypeOK
    <3> QED
      BY <2>4, <2>c, <3>4, <3>5 DEF GetYields
  <2>5. ASSUME NEW c \in Callers, GetFails(c) \/ Release(c)
        PROVE  (\A p \in Processes, z \in Stores : SlotOK(p, z)') /\ (\A d \in Callers : Served(d)')
    <3>1. backends' = backends /\ \A d \in Callers : get'[d] = get[d] \/ get'[d].pc = "idle"
      BY <2>5 DEF GetFails, Release, NoGet, PoolTypeOK
    <3>2. ASSUME NEW d \in Callers PROVE Served(d)'
      BY <3>1, <2>a
    <3> QED
      BY <3>1, <3>2, <2>c
  <2>6. ASSUME NEW p \in Processes, NEW s \in Stores, Invalidate(p, s)
        PROVE  (\A q \in Processes, z \in Stores : SlotOK(q, z)') /\ (\A d \in Callers : Served(d)')
    <3>1. \A q \in Processes, z \in Stores : backends'[q][z] \in {backends[q][z], {}}
      BY <2>6 DEF Invalidate, PoolTypeOK
    <3> QED
      BY <2>6, <3>1, <2>a DEF Invalidate
  <2>7. ASSUME NEW p \in Processes, Restart(p)
        PROVE  (\A q \in Processes, z \in Stores : SlotOK(q, z)') /\ (\A d \in Callers : Served(d)')
    <3>1. \A q \in Processes, z \in Stores : backends'[q][z] \in {backends[q][z], {}}
      BY <2>7 DEF Restart, PoolTypeOK
    <3>2. \A d \in Callers : get'[d] = get[d] \/ get'[d].pc = "idle"
      BY <2>7 DEF Restart, NoGet
    <3>3. ASSUME NEW d \in Callers PROVE Served(d)'
      BY <2>a, <3>2, <2>7 DEF Restart, NoGet
    <3>4. ASSUME NEW q \in Processes, NEW z \in Stores PROVE SlotOK(q, z)'
      BY <3>1, <2>a
    <3> QED
      BY <3>3, <3>4
  <2>8. CASE UNCHANGED poolVars
    BY <2>8, <2>a DEF poolVars
  <2> HIDE DEF SlotOK, Served
  <2> QED
    BY <2>1, <2>2, <2>3, <2>4, <2>5, <2>6, <2>7, <2>8 DEF PoolNext
<1> QED
  BY <1>1, <1>2, PoolTypeCorrect, PTL DEF PoolSpec

(***************************************************************************)
(* Callers that build at once agree on a client: a slot that is taken is   *)
(* only ever emptied, and a Get ends with the client that is then in it.   *)
(***************************************************************************)
THEOREM BuildersAgreeHolds == PoolSpec => BuildersAgree
<1> DEFINE Kept == \A p \in Processes, s \in Stores :
                     backends[p][s] # {} => backends'[p][s] \in {backends[p][s], {}}
           Agrees(c) == get[c].pc # "done" =>
                          \A wanted \in get'[c].wants :
                            get'[c].pc = "done" =>
                              get'[c].client = backends'[At[c]][wanted.store]
<1>1. PoolTypeOK /\ [PoolNext]_poolVars => [Kept /\ \A c \in Callers : Agrees(c)]_poolVars
  <2> SUFFICES ASSUME PoolTypeOK, PoolNext PROVE Kept /\ \A c \in Callers : Agrees(c)
    OBVIOUS
  <2>1. ASSUME NEW c \in Callers, NEW s \in Stores, NEW config \in Configs,
               GetPooled(c, s, config) \/ GetBuilds(c, s, config)
        PROVE  Kept /\ \A d \in Callers : Agrees(d)
    BY <2>1 DEF GetPooled, GetBuilds, Pooled, Done, Client, PoolTypeOK
  <2>2. ASSUME NEW c \in Callers, GetInserts(c)
        PROVE  Kept /\ \A d \in Callers : Agrees(d)
    <3>1. PICK built \in get[c].wants :
            /\ backends[At[c]][built.store] = {}
            /\ backends' = [backends EXCEPT ![At[c]][built.store] = {built}]
            /\ get' = [get EXCEPT ![c] = [pc |-> "done", wants |-> {built}, client |-> {built}]]
      BY <2>2 DEF GetInserts, Done, Pooled
    <3>2. built.store \in Stores /\ At[c] \in Processes
      BY AtAssumption DEF PoolTypeOK, Clients
    <3>3. Kept
      BY <3>1, <3>2 DEF PoolTypeOK
    <3>4. ASSUME NEW d \in Callers PROVE Agrees(d)
      <4>1. CASE d = c
        <5>1. backends'[At[c]][built.store] = {built}
          BY <3>1, <3>2 DEF PoolTypeOK
        <5> QED
          BY <5>1, <4>1, <3>1 DEF PoolTypeOK
      <4>2. CASE d # c
        BY <4>2, <3>1 DEF PoolTypeOK
      <4> QED
        BY <4>1, <4>2
    <3> QED
      BY <3>3, <3>4
  <2>3. ASSUME NEW c \in Callers, GetYields(c)
        PROVE  Kept /\ \A d \in Callers : Agrees(d)
    BY <2>3 DEF GetYields, Pooled, Done, PoolTypeOK
  <2>4. ASSUME NEW c \in Callers, GetFails(c) \/ Release(c)
        PROVE  Kept /\ \A d \in Callers : Agrees(d)
    BY <2>4 DEF GetFails, Release, NoGet, PoolTypeOK
  <2>5. ASSUME NEW p \in Processes, NEW s \in Stores, Invalidate(p, s)
        PROVE  Kept /\ \A d \in Callers : Agrees(d)
    BY <2>5 DEF Invalidate, PoolTypeOK
  <2>6. ASSUME NEW p \in Processes, Restart(p)
        PROVE  Kept /\ \A d \in Callers : Agrees(d)
    BY <2>6 DEF Restart, NoGet, PoolTypeOK
  <2> HIDE DEF Kept, Agrees
  <2> QED
    BY <2>1, <2>2, <2>3, <2>4, <2>5, <2>6 DEF PoolNext
<1>2. PoolTypeOK /\ [PoolNext]_poolVars
        => [/\ \A p \in Processes, s \in Stores :
                 backends[p][s] # {} => backends'[p][s] \in {backends[p][s], {}}
            /\ \A c \in Callers :
                 get[c].pc # "done" =>
                   \A wanted \in get'[c].wants :
                     get'[c].pc = "done" =>
                       get'[c].client = backends'[At[c]][wanted.store]]_poolVars
  BY <1>1
<1> QED
  BY <1>2, PoolTypeCorrect, PTL DEF PoolSpec, BuildersAgree
=============================================================================
