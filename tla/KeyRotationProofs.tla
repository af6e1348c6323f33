------------------------- MODULE KeyRotationProofs -------------------------
(* What holds of KeyRotation for every set of rows, keys and gateways. *)
EXTENDS KeyRotation, TLAPS

ToolStates == [pc : {"idle", "probe", "stores", "keys", "commit", "flush", "flushed", "refused"},
               old : MasterKeys, new : MasterKeys,
               locked : SUBSET Rows, missed : SUBSET Rows, left : SUBSET Rows]

(***************************************************************************)
(* The inductive strengthening of OneKey: once the tool has read a table,  *)
(* each of its live rows is locked, or known to have been missed.          *)
(***************************************************************************)
Covered ==
  /\ tool.pc = "keys" => Stores \cap Live \subseteq tool.locked \cup tool.missed
  /\ tool.pc = "commit" => Live \subseteq tool.locked \cup tool.missed

KeyInv == OneKey /\ Covered

(***************************************************************************)
(* The inductive strengthening of FlushedIsFresh: what is on its way to    *)
(* Redis can be opened unless it is doubtful, and while the flush works    *)
(* the stale entries are those that are left to it.                        *)
(***************************************************************************)
FillsAreFresh ==
  \A g \in Gateways : \A q \in call[g] :
    q.pc = "fill" /\ ~q.doubtful => q.enc = {current}

StaleIsLeft ==
  tool.pc = "flush" => \A r \in Cached \ (late \cup tool.left) : cache[r] = {current}

CacheInv == FlushedIsFresh /\ FillsAreFresh /\ StaleIsLeft
-----------------------------------------------------------------------------
(* A gateway writes under the key it has. *)
LEMMA OwnKey ==
  ASSUME NEW g \in Gateways, TypeOK, master[g] # {}
  PROVE  Encrypt(CHOOSE k \in MasterKeys : master[g] = {k}) = master[g]
<1>1. PICK k \in MasterKeys : master[g] = {k}
  BY DEF TypeOK, Ciphertexts
<1>2. QED
  BY <1>1 DEF Encrypt

(* The same, as an effect of Write. *)
LEMMA WriteEffect ==
  ASSUME NEW g \in Gateways, NEW r \in Rows, TypeOK, master[g] # {}, Write(g, r)
  PROVE  /\ table' = [table EXCEPT ![r] = master[g]]
         /\ astray' = IF master[g] = {current} THEN astray \ {r} ELSE astray \cup {r}
  BY OwnKey DEF Write

(* A handler in progress is a fill or an eviction, of one row. *)
LEMMA CallTyped ==
  ASSUME TypeOK, NEW g \in Gateways, NEW q \in call[g]
  PROVE  /\ call[g] = {q} /\ q \in Calls
         /\ q.row \in Rows
         /\ q.pc = "fill" => q.enc \in Ciphertexts
<1>1. q \in Calls /\ call[g] = {q}
  BY DEF TypeOK
<1>2. QED
  BY <1>1 DEF Calls

(* What a gateway goes to after its statement is a handler like that. *)
LEMMA GotoTyped ==
  ASSUME TypeOK, NEW g \in Gateways, NEW r \in Rows, NEW enc, NEW doubtful \in BOOLEAN,
         NEW pc, (pc = "fill" /\ enc \in Ciphertexts) \/ (pc = "evict" /\ enc = {}),
         Goto(g, pc, r, enc, doubtful)
  PROVE  call' \in [Gateways -> {{}} \cup {{q} : q \in Calls}]
<1>1. [pc |-> pc, row |-> r, enc |-> enc, doubtful |-> doubtful] \in Calls
  BY DEF Calls
<1>2. QED
  BY <1>1 DEF Goto, TypeOK

(* A handler that has ended leaves nothing. *)
LEMMA ReturnTyped ==
  ASSUME TypeOK, NEW g \in Gateways, Return(g)
  PROVE  call' \in [Gateways -> {{}} \cup {{q} : q \in Calls}]
  BY DEF Return, TypeOK

(* The tool exits with nothing locked, and nothing left to flush. *)
LEMMA ExitTyped ==
  ASSUME NEW pc \in {"idle", "flushed", "refused"}, Exit(pc)
  PROVE  /\ tool' \in ToolStates /\ tool'.pc = pc
         /\ tool'.locked = {} /\ tool'.missed = {} /\ tool'.left = {}
  BY FirstKeyAssumption DEF Exit, NoTool, ToolStates

(* A row that leaves the cache is not left to the flush either. *)
LEMMA UncacheTyped ==
  ASSUME TypeOK, NEW r \in Rows, cache' = [cache EXCEPT ![r] = {}],
         tool' = [tool EXCEPT !.left = @ \ {r}]
  PROVE  /\ cache' \in [Rows -> Ciphertexts \cup {{}}]
         /\ tool' \in ToolStates /\ tool'.left \subseteq Cached'
         /\ tool'.locked = tool.locked /\ tool'.pc = tool.pc
         /\ tool'.left = tool.left \ {r} /\ tool'.missed = tool.missed
         /\ Cached' = Cached \ {r}
<1>1. cache' \in [Rows -> Ciphertexts \cup {{}}] /\ Cached' = Cached \ {r}
  BY DEF TypeOK, Cached
<1>2. /\ tool' \in ToolStates /\ tool'.left = tool.left \ {r} /\ tool'.missed = tool.missed
      /\ tool'.locked = tool.locked /\ tool'.pc = tool.pc
  BY DEF TypeOK, ToolStates
<1>3. QED
  BY <1>1, <1>2 DEF TypeOK

(* The two statements of the transaction either lock live rows or refuse. *)
LEMMA ReencryptEffect ==
  ASSUME TypeOK, NEW rows \in SUBSET Live, NEW pc \in {"keys", "commit"}, Reencrypt(rows, pc)
  PROVE  /\ tool' \in ToolStates /\ tool'.locked \subseteq Live
         /\ tool'.left \subseteq Cached
         /\ \/ /\ tool'.pc = pc /\ tool'.locked = tool.locked \cup rows
               /\ tool'.missed = tool.missed
            \/ /\ tool'.pc = "refused"
               /\ \E r \in rows : ~Decrypt(tool.old, table[r])
<1>1. rows \subseteq Rows
  BY DEF Live
<1>2. CASE tool' = [tool EXCEPT !.pc = pc, !.locked = @ \cup rows]
  <2>1. /\ tool' \in ToolStates /\ tool'.pc = pc /\ tool'.locked = tool.locked \cup rows
        /\ tool'.left = tool.left /\ tool'.missed = tool.missed
    BY <1>1, <1>2 DEF TypeOK, ToolStates
  <2>2. QED
    BY <2>1 DEF TypeOK
<1>3. CASE Exit("refused") /\ \E r \in rows : ~Decrypt(tool.old, table[r])
  BY <1>3, ExitTyped
<1>4. QED
  BY <1>2, <1>3 DEF Reencrypt

(***************************************************************************)
(* Type correctness, and with it that the tool locks live rows only.       *)
(***************************************************************************)
THEOREM TypeCorrect == Spec => []TypeOK
<1>1. Init => TypeOK
  <2> SUFFICES ASSUME Init PROVE TypeOK
    OBVIOUS
  <2>1. tool \in ToolStates /\ tool.locked = {} /\ tool.left = {}
    BY FirstKeyAssumption DEF Init, NoTool, ToolStates
  <2>2. QED
    BY <2>1, FirstKeyAssumption DEF Init, TypeOK, ToolStates, Ciphertexts
<1>2. TypeOK /\ [Next]_vars => TypeOK'
  <2> SUFFICES ASSUME TypeOK, [Next]_vars PROVE TypeOK'
    OBVIOUS
  <2>0. tool \in ToolStates
    BY DEF TypeOK, ToolStates
  \* A step of the tool that leaves everything else as it is.
  <2>t. ASSUME tool' \in ToolStates, tool'.locked \subseteq Live, tool'.left \subseteq Cached,
               UNCHANGED <<table, revoked, cache, master, call, history>>
        PROVE  TypeOK'
    BY <2>t DEF TypeOK, ToolStates, Live, Cached, history
  <2>x. ASSUME NEW pc \in {"idle", "flushed", "refused"}, Exit(pc),
               UNCHANGED <<table, revoked, cache, master, call, history>>
        PROVE  TypeOK'
    BY <2>t, <2>x, ExitTyped
  <2>1. ASSUME NEW old \in MasterKeys, NEW new \in MasterKeys, Start(old, new) PROVE TypeOK'
    <3>1. tool' \in ToolStates /\ tool'.locked = {} /\ tool'.left = {}
      BY <2>1 DEF Start, NoTool, ToolStates
    <3>2. QED
      BY <2>1, <2>t, <3>1 DEF Start
  <2>2. CASE SanityProbe
    <3>1. CASE Enter("stores")
      <4>1. tool' \in ToolStates /\ tool'.locked = tool.locked /\ tool'.left = tool.left
        BY <2>0, <3>1 DEF Enter, ToolStates
      <4>2. QED
        BY <2>2, <2>t, <4>1 DEF SanityProbe, TypeOK
    <3>2. QED
      BY <2>2, <2>x, <3>1 DEF SanityProbe
  <2>3. CASE ReencryptStores
    BY <2>3, <2>t, ReencryptEffect DEF ReencryptStores, Reencrypt
  <2>4. CASE ReencryptAccessKeys
    BY <2>4, <2>t, ReencryptEffect DEF ReencryptAccessKeys, Reencrypt
  <2>5. CASE DryRunEnds
    BY <2>5, <2>x DEF DryRunEnds
  <2>6. CASE Commit
    <3> DEFINE Doubted(g) == {[q EXCEPT !.doubtful = TRUE] : q \in call[g]}
    <3>1. ASSUME NEW g \in Gateways PROVE Doubted(g) \in {{}} \cup {{q} : q \in Calls}
      <4>1. CASE call[g] = {}
        BY <4>1
      <4>2. ASSUME NEW q \in call[g] PROVE Doubted(g) \in {{}} \cup {{x} : x \in Calls}
        <5>1. Doubted(g) = {[q EXCEPT !.doubtful = TRUE]}
          BY CallTyped
        <5>2. [q EXCEPT !.doubtful = TRUE] \in Calls
          <6>1. CASE q \in [pc : {"fill"}, row : Rows, enc : Ciphertexts, doubtful : BOOLEAN]
            BY <6>1 DEF Calls
          <6>2. CASE q \in [pc : {"evict"}, row : Rows, enc : {{}}, doubtful : BOOLEAN]
            BY <6>2 DEF Calls
          <6>3. QED
            BY <6>1, <6>2, CallTyped DEF Calls
        <5>3. QED
          BY <5>1, <5>2
      <4>3. QED
        BY <4>1, <4>2
    <3>2. call' \in [Gateways -> {{}} \cup {{q} : q \in Calls}]
      BY <2>6, <3>1 DEF Commit
    <3>3. /\ table' \in [Rows -> Ciphertexts \cup {{}}] /\ current' \in MasterKeys
          /\ astray' \subseteq Rows
      <4>1. Encrypt(tool.new) \in Ciphertexts /\ tool.new \in MasterKeys /\ tool.missed \subseteq Rows
        BY <2>0 DEF ToolStates, Encrypt, Ciphertexts
      <4>2. QED
        BY <2>6, <4>1 DEF Commit, TypeOK
    <3>4. tool' \in ToolStates /\ tool'.locked = {} /\ tool'.left \subseteq Cached
      <4>1. CASE tool' = [NoTool EXCEPT !.pc = "flush", !.left = Cached]
        BY <4>1, FirstKeyAssumption DEF NoTool, ToolStates, Cached
      <4>2. CASE Exit("idle")
        BY <4>2, ExitTyped
      <4>3. QED
        BY <2>6, <4>1, <4>2 DEF Commit
    <3>5. QED
      BY <2>6, <3>2, <3>3, <3>4 DEF Commit, TypeOK, ToolStates, Cached
  \* An entry of the cache that goes.
  <2>u. ASSUME NEW r \in Rows, cache' = [cache EXCEPT ![r] = {}], late' = late \ {r},
               tool' = [tool EXCEPT !.left = @ \ {r}],
               call' \in [Gateways -> {{}} \cup {{q} : q \in Calls}],
               UNCHANGED <<table, revoked, master, current, astray>>
        PROVE  TypeOK'
    BY <2>u, UncacheTyped DEF TypeOK, ToolStates, Live
  <2>7. ASSUME NEW r \in Rows, Flush(r) PROVE TypeOK'
    BY <2>7, <2>u DEF Flush, TypeOK
  <2>8. CASE FlushEnds
    BY <2>8, <2>x DEF FlushEnds
  <2>9. CASE ToolFails
    BY <2>9, <2>x DEF ToolFails
  <2>10. ASSUME NEW g \in Gateways, Traffic(g) PROVE TypeOK'
    \* A row that is written while the tool does not hold it.
    <3>w. ASSUME NEW r \in Rows, master[g] # {}, Write(g, r),
                 tool' \in ToolStates, tool'.locked = tool.locked, tool'.left = tool.left,
                 call' \in [Gateways -> {{}} \cup {{q} : q \in Calls}],
                 UNCHANGED <<revoked, cache, master, current, late>>
          PROVE  TypeOK'
      <4>1. table' = [table EXCEPT ![r] = master[g]] /\ astray' \subseteq Rows
        BY <3>w, WriteEffect DEF TypeOK
      <4>2. master[g] \in Ciphertexts /\ master[g] # {}
        BY <3>w DEF TypeOK
      <4>3. table' \in [Rows -> Ciphertexts \cup {{}}] /\ Live \subseteq Live'
        BY <3>w, <4>1, <4>2 DEF TypeOK, Live
      <4>4. QED
        BY <3>w, <4>1, <4>3 DEF TypeOK, ToolStates, Cached
    <3>1. ASSUME NEW key \in MasterKeys, StartGateway(g, key) PROVE TypeOK'
      BY <3>1 DEF StartGateway, TypeOK, Ciphertexts, Live, Cached, history
    <3>2. CASE StopGateway(g)
      BY <3>2 DEF StopGateway, TypeOK, Live, Cached, history
    <3>3. CASE Fill(g)
      <4>1. PICK q \in call[g] : /\ cache' = [cache EXCEPT ![q.row] = q.enc]
                                 /\ late' = IF q.doubtful THEN late \cup {q.row} ELSE late \ {q.row}
                                 /\ q.pc = "fill" /\ Return(g)
                                 /\ UNCHANGED <<table, revoked, master, tool, current, astray>>
        BY <3>3 DEF Fill
      <4>2. q.row \in Rows /\ q.enc \in Ciphertexts /\ q.enc # {}
        BY <4>1, CallTyped DEF Ciphertexts
      <4>3. /\ cache' \in [Rows -> Ciphertexts \cup {{}}] /\ Cached \subseteq Cached'
            /\ late' \subseteq Rows
        BY <4>1, <4>2 DEF TypeOK, Cached
      <4>4. QED
        BY <4>1, <4>3, ReturnTyped DEF TypeOK, Live
    <3>4. CASE Evict(g)
      <4>1. PICK q \in call[g] : /\ cache' = [cache EXCEPT ![q.row] = {}]
                                 /\ late' = late \ {q.row}
                                 /\ tool' = [tool EXCEPT !.left = @ \ {q.row}]
                                 /\ Return(g)
                                 /\ UNCHANGED <<table, revoked, master, current, astray>>
        BY <3>4 DEF Evict
      <4>2. q.row \in Rows
        BY CallTyped
      <4>3. QED
        BY <2>u, <4>1, <4>2, ReturnTyped
    <3>5. CASE RedisLost(g)
      BY <3>5, ReturnTyped DEF RedisLost, TypeOK, Live, Cached, history
    <3>6. ASSUME NEW r \in Rows, ReadRow(g, r) PROVE TypeOK'
      <4>1. table[r] \in Ciphertexts /\ (r \in astray) \in BOOLEAN
        BY <3>6 DEF ReadRow, TypeOK, Live
      <4>2. call' \in [Gateways -> {{}} \cup {{q} : q \in Calls}]
        BY <3>6, <4>1, GotoTyped DEF ReadRow
      <4>3. QED
        BY <3>6, <4>2 DEF ReadRow, TypeOK, Live, Cached, history
    <3>7. ASSUME NEW r \in Rows, Insert(g, r) PROVE TypeOK'
      <4>1. tool' \in ToolStates /\ tool'.locked = tool.locked /\ tool'.left = tool.left
        BY <2>0, <3>7 DEF Insert, ToolStates
      <4>2. QED
        BY <3>7, <3>w, <4>1 DEF Insert, TypeOK
    <3>8. ASSUME NEW s \in Stores, UpdateStoreBackend(g, s) PROVE TypeOK'
      <4>1. call' \in [Gateways -> {{}} \cup {{q} : q \in Calls}]
        BY <3>8, GotoTyped DEF UpdateStoreBackend, Rows
      <4>2. QED
        BY <2>0, <3>8, <3>w, <4>1 DEF UpdateStoreBackend, Rows
    <3>9. ASSUME NEW k \in AccessKeys, RevokeAccessKey(g, k) PROVE TypeOK'
      <4>1. call' \in [Gateways -> {{}} \cup {{q} : q \in Calls}]
        BY <3>9, GotoTyped DEF RevokeAccessKey, Rows
      <4>2. QED
        BY <3>9, <4>1 DEF RevokeAccessKey, TypeOK, Live, Cached, history
    <3>10. QED
      BY <2>10, <3>1, <3>2, <3>3, <3>4, <3>5, <3>6, <3>7, <3>8, <3>9 DEF Traffic
  <2>11. ASSUME NEW r \in Rows, Expire(r) PROVE TypeOK'
    BY <2>11, <2>u DEF Expire, TypeOK
  <2>12. CASE UNCHANGED vars
    BY <2>12 DEF vars, history, TypeOK, Live, Cached
  <2>13. QED
    BY <2>1, <2>2, <2>3, <2>4, <2>5, <2>6, <2>7, <2>8, <2>9, <2>10, <2>11, <2>12
       DEF Next, Rotation
<1>3. QED
  BY <1>1, <1>2, PTL DEF Spec
-----------------------------------------------------------------------------
(* A row that is written is under the current key or astray, and no other changes. *)
LEMMA WriteKeepsOneKey ==
  ASSUME TypeOK, OneKey, NEW g \in Gateways, NEW r \in Rows, master[g] # {}, Write(g, r),
         revoked' = revoked, current' = current
  PROVE  OneKey' /\ Live' \subseteq Live \cup {r}
<1>1. /\ table' = [table EXCEPT ![r] = master[g]]
      /\ astray' = IF master[g] = {current} THEN astray \ {r} ELSE astray \cup {r}
  BY WriteEffect
<1>2. \A x \in Rows : x # r => (x \in Live' <=> x \in Live) /\ table'[x] = table[x]
  BY <1>1 DEF TypeOK, Live
<1>3. table'[r] = master[g]
  BY <1>1 DEF TypeOK
<1>4. Live' \subseteq Live \cup {r}
  BY <1>2 DEF Live
<1>5. ASSUME NEW x \in Live' \ astray' PROVE table'[x] = {current'}
  <2>1. CASE x = r
    BY <1>1, <1>3, <1>5, <2>1
  <2>2. CASE x # r
    BY <1>1, <1>2, <1>4, <1>5, <2>2 DEF OneKey
  <2>3. QED
    BY <2>1, <2>2
<1>6. QED
  BY <1>4, <1>5 DEF OneKey

(***************************************************************************)
(* All live rows are under the key of the last rotation, but for those      *)
(* gone astray, whatever gateways do while the tool works.                  *)
(***************************************************************************)
THEOREM KeyInvHolds == Spec => []KeyInv
<1>1. Init => KeyInv
  BY DEF Init, KeyInv, OneKey, Covered, NoTool, Live
<1>2. TypeOK /\ KeyInv /\ [Next]_vars => KeyInv'
  <2> SUFFICES ASSUME TypeOK, KeyInv, [Next]_vars PROVE KeyInv'
    OBVIOUS
  \* The tool does something else than reading, locking and writing tables.
  <2>t. ASSUME tool'.pc \notin {"keys", "commit"},
               UNCHANGED <<table, revoked, current, astray>>
        PROVE  KeyInv'
    BY <2>t DEF KeyInv, OneKey, Covered, Live
  <2>x. ASSUME NEW pc \in {"idle", "flushed", "refused"}, Exit(pc),
               UNCHANGED <<table, revoked, current, astray>>
        PROVE  KeyInv'
    BY <2>t, <2>x, ExitTyped
  \* It does not lock, or miss, anything else than before.
  <2>u. ASSUME tool'.pc = tool.pc, tool'.locked = tool.locked, tool'.missed = tool.missed,
               UNCHANGED <<table, current, astray>>, Live' \subseteq Live
        PROVE  KeyInv'
    BY <2>u DEF KeyInv, OneKey, Covered
  <2>1. ASSUME NEW old \in MasterKeys, NEW new \in MasterKeys, Start(old, new) PROVE KeyInv'
    BY <2>1, <2>t DEF Start, NoTool, history
  <2>2. CASE SanityProbe
    <3>1. CASE Enter("stores")
      BY <2>2, <2>t, <3>1 DEF SanityProbe, Enter, TypeOK, history
    <3>2. QED
      BY <2>2, <2>x, <3>1 DEF SanityProbe, history
  <2>3. CASE ReencryptStores
    <3>1. CASE tool'.pc = "refused"
      BY <2>3, <2>t, <3>1 DEF ReencryptStores, Reencrypt, history
    <3>2. CASE tool'.pc = "keys" /\ tool'.locked = tool.locked \cup (Stores \cap Live)
      BY <2>3, <3>2 DEF ReencryptStores, Reencrypt, history, KeyInv, OneKey, Covered, Live
    <3>3. QED
      BY <2>3, <3>1, <3>2, ReencryptEffect DEF ReencryptStores
  <2>4. CASE ReencryptAccessKeys
    <3>1. CASE tool'.pc = "refused"
      BY <2>4, <2>t, <3>1 DEF ReencryptAccessKeys, Reencrypt, history
    <3>2. CASE /\ tool'.pc = "commit" /\ tool'.locked = tool.locked \cup (AccessKeys \cap Live)
               /\ tool'.missed = tool.missed
      <4>1. Live' = Live /\ OneKey'
        BY <2>4 DEF ReencryptAccessKeys, Reencrypt, history, KeyInv, OneKey, Live
      <4>2. Stores \cap Live \subseteq tool.locked \cup tool.missed
        BY <2>4 DEF ReencryptAccessKeys, KeyInv, Covered
      <4>3. Live = (Stores \cap Live) \cup (AccessKeys \cap Live)
        BY DEF Live, Rows
      <4>4. QED
        BY <3>2, <4>1, <4>2, <4>3 DEF KeyInv, Covered
    <3>3. QED
      BY <2>4, <3>1, <3>2, ReencryptEffect DEF ReencryptAccessKeys
  <2>5. CASE DryRunEnds
    BY <2>5, <2>x DEF DryRunEnds, history
  <2>6. CASE Commit
    <3>1. /\ table' = [r \in Rows |-> IF r \in tool.locked THEN {tool.new} ELSE table[r]]
          /\ current' = tool.new /\ astray' = (astray \ tool.locked) \cup tool.missed
          /\ revoked' = revoked
          /\ Live \subseteq tool.locked \cup tool.missed /\ tool.locked \subseteq Live
      BY <2>6 DEF Commit, Encrypt, KeyInv, Covered, TypeOK
    <3>2. Live' \subseteq Live
      BY <3>1 DEF Live
    <3>3. OneKey'
      BY <3>1, <3>2 DEF OneKey, Live
    <3>4. tool'.pc \in {"flush", "idle"}
      BY <2>6 DEF Commit, Exit, NoTool
    <3>5. QED
      BY <3>3, <3>4 DEF KeyInv, Covered
  <2>7. ASSUME NEW r \in Rows, Flush(r) PROVE KeyInv'
    BY <2>7, <2>u, UncacheTyped DEF Flush, Live
  <2>8. CASE FlushEnds
    BY <2>8, <2>x DEF FlushEnds, history
  <2>9. CASE ToolFails
    BY <2>9, <2>x DEF ToolFails, history
  <2>10. ASSUME NEW g \in Gateways, Traffic(g) PROVE KeyInv'
    <3>1. ASSUME NEW key \in MasterKeys, StartGateway(g, key) PROVE KeyInv'
      BY <2>u, <3>1 DEF StartGateway, Live, history
    <3>2. CASE StopGateway(g)
      BY <2>u, <3>2 DEF StopGateway, Live, history
    <3>3. CASE Fill(g)
      BY <2>u, <3>3 DEF Fill, Live
    <3>4. CASE Evict(g)
      BY <2>u, <3>4, UncacheTyped, CallTyped DEF Evict, Live
    <3>5. CASE RedisLost(g)
      BY <2>u, <3>5 DEF RedisLost, Live, history
    <3>6. ASSUME NEW r \in Rows, ReadRow(g, r) PROVE KeyInv'
      BY <2>u, <3>6 DEF ReadRow, Live, history
    <3>7. ASSUME NEW r \in Rows, Insert(g, r) PROVE KeyInv'
      <4>1. OneKey' /\ Live' \subseteq Live \cup {r}
        BY <3>7, WriteKeepsOneKey DEF Insert, KeyInv
      <4>2. CASE tool.pc = "commit" \/ (tool.pc = "keys" /\ r \in Stores)
        <5>1. /\ tool'.pc = tool.pc /\ tool'.locked = tool.locked
              /\ tool'.missed = tool.missed \cup {r}
          BY <3>7, <4>2 DEF Insert, TypeOK
        <5>2. QED
          BY <4>1, <4>2, <5>1 DEF KeyInv, Covered
      <4>3. CASE ~(tool.pc = "commit" \/ (tool.pc = "keys" /\ r \in Stores))
        BY <3>7, <4>1, <4>3 DEF Insert, KeyInv, Covered
      <4>4. QED
        BY <4>2, <4>3
    <3>8. ASSUME NEW s \in Stores, UpdateStoreBackend(g, s) PROVE KeyInv'
      <4>1. s \in Live
        BY <3>8, RowsAssumption DEF UpdateStoreBackend, Live, TypeOK, Rows
      <4>2. OneKey' /\ Live' \subseteq Live
        BY <3>8, <4>1, WriteKeepsOneKey DEF UpdateStoreBackend, KeyInv, Live
      <4>3. QED
        BY <3>8, <4>2 DEF UpdateStoreBackend, KeyInv, Covered
    <3>9. ASSUME NEW k \in AccessKeys, RevokeAccessKey(g, k) PROVE KeyInv'
      BY <2>u, <3>9 DEF RevokeAccessKey, Live, history
    <3>10. QED
      BY <2>10, <3>1, <3>2, <3>3, <3>4, <3>5, <3>6, <3>7, <3>8, <3>9 DEF Traffic
  <2>11. ASSUME NEW r \in Rows, Expire(r) PROVE KeyInv'
    BY <2>11, <2>u, UncacheTyped DEF Expire, Live
  <2>12. CASE UNCHANGED vars
    BY <2>12, <2>u DEF vars, history, Live
  <2>13. QED
    BY <2>1, <2>2, <2>3, <2>4, <2>5, <2>6, <2>7, <2>8, <2>9, <2>10, <2>11, <2>12
       DEF Next, Rotation
<1>3. QED
  BY <1>1, <1>2, TypeCorrect, PTL DEF Spec

(* Its first conjunct is what the operator is told: all rows, or none. *)
COROLLARY OneKeyHolds == Spec => []OneKey
<1>1. KeyInv => OneKey
  BY DEF KeyInv
<1>2. QED
  BY <1>1, KeyInvHolds, PTL

(***************************************************************************)
(* The tool refuses the right key only where a row has gone astray.        *)
(***************************************************************************)
THEOREM RefusedForCauseHolds == Spec => RefusedForCause
<1> DEFINE ForCause == tool'.pc = "refused" /\ tool.pc # "refused"
                         => tool.old # current \/ astray # {}
<1>1. TypeOK /\ KeyInv /\ [Next]_vars => [ForCause]_vars
  <2> SUFFICES ASSUME TypeOK, KeyInv, Next PROVE ForCause
    OBVIOUS
  <2>o. ASSUME NEW r \in Live, ~Decrypt(tool.old, table[r]) PROVE tool.old # current \/ astray # {}
    BY <2>o DEF KeyInv, OneKey, Decrypt
  <2>1. ASSUME NEW old \in MasterKeys, NEW new \in MasterKeys, Start(old, new) PROVE ForCause
    BY <2>1 DEF Start, NoTool
  <2>2. CASE SanityProbe
    <3>1. CASE Enter("stores")
      BY <3>1 DEF Enter, TypeOK
    <3>2. QED
      BY <2>2, <2>o, <3>1 DEF SanityProbe
  <2>3. CASE ReencryptStores
    BY <2>3, <2>o, ReencryptEffect DEF ReencryptStores
  <2>4. CASE ReencryptAccessKeys
    BY <2>4, <2>o, ReencryptEffect DEF ReencryptAccessKeys
  <2>5. CASE DryRunEnds \/ FlushEnds \/ ToolFails
    BY <2>5, ExitTyped DEF DryRunEnds, FlushEnds, ToolFails
  <2>6. CASE Commit
    BY <2>6 DEF Commit, Exit, NoTool
  <2>7. ASSUME NEW r \in Rows, Flush(r) \/ Expire(r) PROVE ForCause
    BY <2>7, UncacheTyped DEF Flush, Expire
  <2>8. ASSUME NEW g \in Gateways, Traffic(g) PROVE ForCause
    <3>1. CASE Evict(g)
      BY <3>1, UncacheTyped, CallTyped DEF Evict
    <3>2. ASSUME NEW r \in Rows, Insert(g, r) PROVE ForCause
      BY <3>2 DEF Insert, TypeOK
    <3>3. CASE tool' = tool
      BY <3>3
    <3>4. QED
      BY <2>8, <3>1, <3>2, <3>3
         DEF Traffic, StartGateway, StopGateway, Fill, RedisLost, ReadRow, UpdateStoreBackend,
             RevokeAccessKey
  <2>9. QED
    BY <2>1, <2>2, <2>3, <2>4, <2>5, <2>6, <2>7, <2>8 DEF Next, Rotation
<1>2. TypeOK /\ KeyInv /\ [Next]_vars =>
        [tool'.pc = "refused" /\ tool.pc # "refused" => tool.old # current \/ astray # {}]_vars
  BY <1>1
<1>3. QED
  BY <1>2, TypeCorrect, KeyInvHolds, PTL DEF Spec, RefusedForCause
-----------------------------------------------------------------------------
(* A handler that ends, or goes to its eviction, puts nothing stale on its way. *)
LEMMA NoNewFill ==
  ASSUME TypeOK, FillsAreFresh, current' = current, NEW g \in Gateways,
         \/ Return(g)
         \/ \E r \in Rows : Goto(g, "evict", r, {}, FALSE)
  PROVE  FillsAreFresh'
  BY DEF FillsAreFresh, Return, Goto, TypeOK

(* An entry that goes makes nothing stale. *)
LEMMA UncacheKeepsFresh ==
  ASSUME TypeOK, FlushedIsFresh, StaleIsLeft, current' = current, NEW r \in Rows,
         cache' = [cache EXCEPT ![r] = {}], late' = late \ {r},
         tool' = [tool EXCEPT !.left = @ \ {r}]
  PROVE  FlushedIsFresh' /\ StaleIsLeft'
<1>1. Cached' = Cached \ {r} /\ tool'.pc = tool.pc /\ tool'.left = tool.left \ {r}
  BY UncacheTyped
<1>2. \A x \in Cached' : cache'[x] = cache[x]
  BY <1>1 DEF TypeOK, Cached
<1>3. QED
  BY <1>1, <1>2 DEF FlushedIsFresh, StaleIsLeft

(***************************************************************************)
(* A flush that ended well has left nothing in the cache that cannot be    *)
(* opened, but for what a running gateway put there.                       *)
(***************************************************************************)
THEOREM CacheInvHolds == Spec => []CacheInv
<1>1. Init => CacheInv
  BY DEF Init, CacheInv, FlushedIsFresh, FillsAreFresh, StaleIsLeft, NoTool
<1>2. TypeOK /\ KeyInv /\ CacheInv /\ [Next]_vars => CacheInv'
  <2> SUFFICES ASSUME TypeOK, KeyInv, CacheInv, [Next]_vars PROVE CacheInv'
    OBVIOUS
  <2>0. FlushedIsFresh /\ FillsAreFresh /\ StaleIsLeft
    BY DEF CacheInv
  \* The tool is, or goes, somewhere else.
  <2>t. ASSUME tool'.pc \notin {"flush", "flushed"}, UNCHANGED <<call, current>> PROVE CacheInv'
    BY <2>t, <2>0 DEF CacheInv, FlushedIsFresh, FillsAreFresh, StaleIsLeft
  \* Neither the tool nor the cache changes.
  <2>u. ASSUME tool'.pc = tool.pc, tool'.left = tool.left, UNCHANGED <<cache, late, current>>,
               FillsAreFresh'
        PROVE  CacheInv'
    BY <2>u, <2>0 DEF CacheInv, FlushedIsFresh, StaleIsLeft, Cached
  <2>1. ASSUME NEW old \in MasterKeys, NEW new \in MasterKeys, Start(old, new) PROVE CacheInv'
    BY <2>1, <2>t DEF Start, NoTool, history
  <2>2. CASE SanityProbe
    <3>1. CASE Enter("stores")
      BY <2>2, <2>t, <3>1 DEF SanityProbe, Enter, TypeOK, history
    <3>2. QED
      BY <2>2, <2>t, <3>1, ExitTyped DEF SanityProbe, history
  <2>3. CASE ReencryptStores
    BY <2>3, <2>t, ReencryptEffect DEF ReencryptStores, Reencrypt, history
  <2>4. CASE ReencryptAccessKeys
    BY <2>4, <2>t, ReencryptEffect DEF ReencryptAccessKeys, Reencrypt, history
  <2>5. CASE DryRunEnds \/ ToolFails
    BY <2>5, <2>t, ExitTyped DEF DryRunEnds, ToolFails, history
  <2>6. CASE Commit
    <3>1. FillsAreFresh'
      <4>1. ASSUME NEW g \in Gateways, NEW q \in call'[g] PROVE q.doubtful
        <5>1. PICK x \in call[g] : q = [x EXCEPT !.doubtful = TRUE]
          BY <2>6, <4>1 DEF Commit
        <5>2. x \in Calls
          BY CallTyped
        <5>3. QED
          BY <5>1, <5>2 DEF Calls
      <4>2. QED
        BY <4>1 DEF FillsAreFresh
    <3>2. \/ tool'.pc = "flush" /\ tool'.left = Cached
          \/ tool'.pc = "idle"
      BY <2>6 DEF Commit, Exit, NoTool
    <3>3. Cached' = Cached
      BY <2>6 DEF Commit, Cached
    <3>4. QED
      BY <3>1, <3>2, <3>3 DEF CacheInv, FlushedIsFresh, StaleIsLeft
  <2>7. ASSUME NEW r \in Rows, Flush(r) \/ Expire(r) PROVE CacheInv'
    <3>1. FlushedIsFresh' /\ StaleIsLeft'
      BY <2>0, <2>7, UncacheKeepsFresh DEF Flush, Expire
    <3>2. QED
      BY <2>0, <2>7, <3>1 DEF Flush, Expire, CacheInv, FillsAreFresh
  <2>8. CASE FlushEnds
    <3>1. /\ \A r \in Cached \ late : cache[r] = {current}
          /\ tool'.pc = "flushed"
      BY <2>0, <2>8, ExitTyped DEF FlushEnds, StaleIsLeft
    <3>2. QED
      BY <2>0, <2>8, <3>1 DEF FlushEnds, CacheInv, FlushedIsFresh, FillsAreFresh, StaleIsLeft,
                              Cached, history
  <2>9. ASSUME NEW g \in Gateways, Traffic(g) PROVE CacheInv'
    <3>1. ASSUME NEW key \in MasterKeys, StartGateway(g, key) PROVE CacheInv'
      BY <2>0, <2>u, <3>1 DEF StartGateway, FillsAreFresh, history
    <3>2. CASE StopGateway(g)
      <4>1. FillsAreFresh'
        BY <2>0, <3>2, NoNewFill DEF StopGateway, Return, history
      <4>2. QED
        BY <2>u, <3>2, <4>1 DEF StopGateway, history
    <3>3. CASE Fill(g)
      <4>1. PICK q \in call[g] : /\ cache' = [cache EXCEPT ![q.row] = q.enc]
                                 /\ late' = IF q.doubtful THEN late \cup {q.row} ELSE late \ {q.row}
                                 /\ q.pc = "fill" /\ Return(g)
                                 /\ UNCHANGED <<table, revoked, master, tool, current, astray>>
        BY <3>3 DEF Fill
      <4>2. q.row \in Rows /\ (q.row \notin late' => q.enc = {current})
        BY <2>0, <4>1, CallTyped DEF FillsAreFresh
      <4>3. /\ Cached' \subseteq Cached \cup {q.row} /\ cache'[q.row] = q.enc
            /\ \A x \in Rows : x # q.row => cache'[x] = cache[x]
        BY <4>1, <4>2 DEF TypeOK, Cached
      <4>4. late \subseteq late' \cup {q.row} /\ late' \subseteq late \cup {q.row}
        BY <4>1
      <4>5. FlushedIsFresh'
        BY <2>0, <4>1, <4>2, <4>3, <4>4 DEF FlushedIsFresh, Cached
      <4>6. StaleIsLeft'
        BY <2>0, <4>1, <4>2, <4>3, <4>4 DEF StaleIsLeft, Cached
      <4>7. FillsAreFresh'
        BY <2>0, <4>1, NoNewFill
      <4>8. QED
        BY <4>5, <4>6, <4>7 DEF CacheInv
    <3>4. CASE Evict(g)
      <4>1. PICK q \in call[g] : /\ cache' = [cache EXCEPT ![q.row] = {}]
                                 /\ late' = late \ {q.row}
                                 /\ tool' = [tool EXCEPT !.left = @ \ {q.row}]
                                 /\ Return(g) /\ current' = current
        BY <3>4 DEF Evict
      <4>2. FlushedIsFresh' /\ StaleIsLeft'
        BY <2>0, <4>1, CallTyped, UncacheKeepsFresh
      <4>3. FillsAreFresh'
        BY <2>0, <4>1, NoNewFill
      <4>4. QED
        BY <4>2, <4>3 DEF CacheInv
    <3>5. CASE RedisLost(g)
      <4>1. FillsAreFresh'
        BY <2>0, <3>5, NoNewFill DEF RedisLost, history
      <4>2. QED
        BY <2>u, <3>5, <4>1 DEF RedisLost, history
    <3>6. ASSUME NEW r \in Rows, ReadRow(g, r) PROVE CacheInv'
      <4>1. r \notin astray => table[r] = {current}
        BY <3>6 DEF ReadRow, KeyInv, OneKey
      <4>2. FillsAreFresh'
        <5> DEFINE new == [pc |-> "fill", row |-> r, enc |-> table[r], doubtful |-> r \in astray]
        <5>1. call' = [call EXCEPT ![g] = {new}] /\ current' = current
          BY <3>6 DEF ReadRow, Goto, history
        <5>2. ASSUME NEW h \in Gateways, NEW q \in call'[h], ~q.doubtful, q.pc = "fill"
              PROVE  q.enc = {current}
          <6>1. CASE h = g
            <7>1. q = new
              BY <5>1, <5>2, <6>1 DEF TypeOK
            <7>2. r \notin astray
              BY <5>2, <7>1, Zenon
            <7>3. QED
              BY <4>1, <7>1, <7>2
          <6>2. CASE h # g
            BY <2>0, <5>1, <5>2, <6>2 DEF FillsAreFresh, TypeOK
          <6>3. QED
            BY <6>1, <6>2
        <5>3. QED
          BY <5>1, <5>2 DEF FillsAreFresh
      <4>3. QED
        BY <2>u, <3>6, <4>2 DEF ReadRow, history
    <3>7. ASSUME NEW r \in Rows, Insert(g, r) PROVE CacheInv'
      <4>1. tool'.pc = tool.pc /\ tool'.left = tool.left
        BY <3>7 DEF Insert, TypeOK
      <4>2. QED
        BY <2>0, <2>u, <3>7, <4>1 DEF Insert, FillsAreFresh
    <3>8. ASSUME NEW s \in Stores, UpdateStoreBackend(g, s) PROVE CacheInv'
      <4>1. FillsAreFresh'
        BY <2>0, <3>8, NoNewFill DEF UpdateStoreBackend, Rows
      <4>2. QED
        BY <2>u, <3>8, <4>1 DEF UpdateStoreBackend
    <3>9. ASSUME NEW k \in AccessKeys, RevokeAccessKey(g, k) PROVE CacheInv'
      <4>1. FillsAreFresh'
        BY <2>0, <3>9, NoNewFill DEF RevokeAccessKey, Rows, history
      <4>2. QED
        BY <2>u, <3>9, <4>1 DEF RevokeAccessKey, history
    <3>10. QED
      BY <2>9, <3>1, <3>2, <3>3, <3>4, <3>5, <3>6, <3>7, <3>8, <3>9 DEF Traffic
  <2>10. CASE UNCHANGED vars
    BY <2>0, <2>u, <2>10 DEF vars, history, FillsAreFresh
  <2>11. QED
    BY <2>1, <2>2, <2>3, <2>4, <2>5, <2>6, <2>7, <2>8, <2>9, <2>10 DEF Next, Rotation
<1>3. QED
  BY <1>1, <1>2, TypeCorrect, KeyInvHolds, PTL DEF Spec

(* The conjunct the run checks. *)
COROLLARY FlushedIsFreshHolds == Spec => []FlushedIsFresh
<1>1. CacheInv => FlushedIsFresh
  BY DEF CacheInv
<1>2. QED
  BY <1>1, CacheInvHolds, PTL
=============================================================================
