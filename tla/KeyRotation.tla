---------------------------- MODULE KeyRotation ----------------------------
(***************************************************************************)
(* The rotation of the master key: rotate-key re-encrypts every secret of  *)
(* PostgreSQL in one transaction and then flushes the cached copies from   *)
(* Redis.  The operator is told to stop every gateway first and to start   *)
(* them with the new key afterwards; nothing enforces either, so gateways  *)
(* come and go at any time, with any key.  The secret in a row is a        *)
(* constant of the row, and a ciphertext is the key it can be opened with: *)
(* opening it with another one is an error, never another secret.          *)
(***************************************************************************)
CONSTANTS MasterKeys,  \* what MASTER_KEY may be
          FirstKey,    \* the one all rows are under at first
          Stores,      \* rows of stores, each with an encrypted configuration
          AccessKeys,  \* rows of access_keys, each with an encrypted secret
          Gateways     \* gateway processes, each with one handler at a time

ASSUME FirstKeyAssumption == FirstKey \in MasterKeys
ASSUME RowsAssumption == Stores \cap AccessKeys = {}

Rows == Stores \cup AccessKeys

VARIABLES table,    \* the key each row's ciphertext is under, if there is a row
          revoked,  \* access keys that are revoked: their rows are never read again
          cache,    \* the same of its copy in Redis, if there is one
          master,   \* the key of each gateway, if it runs
          call,     \* the handler in progress in each gateway, if any
          tool      \* rotate-key

\* History: the key of the last rotation; rows a gateway wrote under another key,
\* or inserted behind the back of the tool (tool.missed until it commits); entries
\* set in Redis from one of these rows, or from a row read before the last commit.
VARIABLES current, astray, late

history == <<current, astray, late>>
vars == <<table, revoked, cache, master, call, tool, history>>

Live == {r \in Rows : table[r] # {}} \ revoked

NoTool == [pc |-> "idle", old |-> FirstKey, new |-> FirstKey,
           locked |-> {}, missed |-> {}, left |-> {}]
Exit(pc) == tool' = [NoTool EXCEPT !.pc = pc]
Enter(pc) == tool' = [tool EXCEPT !.pc = pc]
Running == tool.pc \notin {"idle", "refused", "flushed"}

Init ==
  /\ table \in [Rows -> {{}, {FirstKey}}]
  /\ revoked = {}
  /\ cache = [r \in Rows |-> {}]
  /\ master = [g \in Gateways |-> {}]
  /\ call = [g \in Gateways |-> {}]
  /\ tool = NoTool
  /\ current = FirstKey /\ astray = {} /\ late = {}
-----------------------------------------------------------------------------
(***************************************************************************)
(* rotate-key                                                              *)
(***************************************************************************)

\* Opening a ciphertext authenticates it: only the key it was sealed with does.
Decrypt(key, enc) == enc = {key}
Encrypt(key) == {key}

Start(old, new) ==
  /\ ~Running
  /\ tool' = [NoTool EXCEPT !.pc = "probe", !.old = old, !.new = new]
  /\ UNCHANGED <<table, revoked, cache, master, call, history>>

\* Mutant: having nothing to probe is an error.
ProbeSome ==
  /\ tool.pc = "probe"
  /\ \/ \E s \in Stores \cap Live : Decrypt(tool.old, table[s]) /\ Enter("stores")
     \/ \E s \in Stores \cap Live : ~Decrypt(tool.old, table[s]) /\ Exit("refused")
     \/ Stores \cap Live = {} /\ Exit("refused")
  /\ UNCHANGED <<table, revoked, cache, master, call, history>>

\* The first row PostgreSQL happens to return, and no row is no error.
SanityProbe ==
  /\ tool.pc = "probe"
  /\ \/ \E s \in Stores \cap Live : Decrypt(tool.old, table[s]) /\ Enter("stores")
     \/ \E s \in Stores \cap Live : ~Decrypt(tool.old, table[s]) /\ Exit("refused")
     \/ Stores \cap Live = {} /\ Enter("stores")
  /\ UNCHANGED <<table, revoked, cache, master, call, history>>

\* SELECT ... FOR UPDATE of some rows, and the UPDATE of each.  What they write
\* is seen by others when the transaction commits.
Reencrypt(rows, pc) ==
  /\ IF \A r \in rows : Decrypt(tool.old, table[r])
       THEN tool' = [tool EXCEPT !.pc = pc, !.locked = @ \cup rows]
       ELSE Exit("refused")
  /\ UNCHANGED <<table, revoked, cache, master, call, history>>

ReencryptStores == tool.pc = "stores" /\ Reencrypt(Stores \cap Live, "keys")

\* Mutant: the rows of access keys are verified but stay as they are.
VerifyAccessKeys ==
  /\ tool.pc = "keys"
  /\ IF \A r \in AccessKeys \cap Live : Decrypt(tool.old, table[r])
       THEN Enter("commit")
       ELSE Exit("refused")
  /\ UNCHANGED <<table, revoked, cache, master, call, history>>

ReencryptAccessKeys == tool.pc = "keys" /\ Reencrypt(AccessKeys \cap Live, "commit")

\* With --dry-run the transaction is rolled back.
DryRunEnds ==
  /\ tool.pc = "commit"
  /\ Exit("idle")
  /\ UNCHANGED <<table, revoked, cache, master, call, history>>

\* What SCAN must return: the keys that are there from its start to its end.
Cached == {r \in Rows : cache[r] # {}}

Commit ==
  /\ tool.pc = "commit"
  /\ table' = [r \in Rows |-> IF r \in tool.locked THEN Encrypt(tool.new) ELSE table[r]]
  /\ current' = tool.new
  /\ astray' = (astray \ tool.locked) \cup tool.missed
  /\ late' = {}
  /\ \/ tool' = [NoTool EXCEPT !.pc = "flush", !.left = Cached]
     \/ Exit("idle")  \* there was no Redis to connect to
  /\ call' = [g \in Gateways |-> {[q EXCEPT !.doubtful = TRUE] : q \in call[g]}]
  /\ UNCHANGED <<revoked, cache, master>>

\* One key of a batch of SCAN is deleted.  A key that was set meanwhile may be
\* returned as well, or missed.
Flush(r) ==
  /\ tool.pc = "flush"
  /\ cache[r] # {}
  /\ cache' = [cache EXCEPT ![r] = {}]
  /\ tool' = [tool EXCEPT !.left = @ \ {r}]
  /\ late' = late \ {r}
  /\ UNCHANGED <<table, revoked, master, call, current, astray>>

\* Mutant: only the entries of access keys are scanned for.
FlushOfKeysEnds ==
  /\ tool.pc = "flush"
  /\ tool.left \cap AccessKeys = {}
  /\ Exit("flushed")
  /\ UNCHANGED <<table, revoked, cache, master, call, history>>

FlushEnds ==
  /\ tool.pc = "flush"
  /\ tool.left = {}
  /\ Exit("flushed")
  /\ UNCHANGED <<table, revoked, cache, master, call, history>>

\* Any error, the answer to a COMMIT that never comes, or a crash: what is not
\* committed is rolled back, and what is not flushed stays.
ToolFails ==
  /\ Running
  /\ Exit("idle")
  /\ UNCHANGED <<table, revoked, cache, master, call, history>>
-----------------------------------------------------------------------------
(***************************************************************************)
(* Gateways                                                                *)
(***************************************************************************)
StartGateway(g, key) ==
  /\ master[g] = {}
  /\ master' = [master EXCEPT ![g] = {key}]
  /\ UNCHANGED <<table, revoked, cache, call, tool, history>>

\* Shutdown or crash, with whatever the gateway was doing.
StopGateway(g) ==
  /\ master[g] # {}
  /\ master' = [master EXCEPT ![g] = {}]
  /\ call' = [call EXCEPT ![g] = {}]
  /\ UNCHANGED <<table, revoked, cache, tool, history>>

Goto(g, pc, r, enc, doubtful) ==
  call' = [call EXCEPT ![g] = {[pc |-> pc, row |-> r, enc |-> enc, doubtful |-> doubtful]}]
Return(g) == call' = [call EXCEPT ![g] = {}]

\* A lookup that finds no entry reads the row.  One that does changes nothing.
ReadRow(g, r) ==
  /\ master[g] # {} /\ call[g] = {}
  /\ cache[r] = {}
  /\ r \in Live
  /\ Goto(g, "fill", r, table[r], r \in astray)
  /\ UNCHANGED <<table, revoked, cache, master, tool, history>>

Fill(g) ==
  \E q \in call[g] :
    /\ q.pc = "fill"
    /\ cache' = [cache EXCEPT ![q.row] = q.enc]
    /\ late' = IF q.doubtful THEN late \cup {q.row} ELSE late \ {q.row}
    /\ Return(g)
    /\ UNCHANGED <<table, revoked, master, tool, current, astray>>

\* Redis does not answer, to a SET or to a DEL.
RedisLost(g) ==
  /\ call[g] # {}
  /\ Return(g)
  /\ UNCHANGED <<table, revoked, cache, master, tool, history>>

\* A row is written under the key of the gateway.
Write(g, r) ==
  /\ table' = [table EXCEPT ![r] = Encrypt(CHOOSE k \in MasterKeys : master[g] = {k})]
  /\ astray' = IF master[g] = {current} THEN astray \ {r} ELSE astray \cup {r}

\* An INSERT does not wait for the locks of the tool, which has read the table.
Insert(g, r) ==
  /\ master[g] # {} /\ call[g] = {}
  /\ table[r] = {}
  /\ Write(g, r)
  /\ tool' = IF tool.pc = "commit" \/ (tool.pc = "keys" /\ r \in Stores)
               THEN [tool EXCEPT !.missed = @ \cup {r}] ELSE tool
  /\ UNCHANGED <<revoked, cache, master, call, current, late>>

\* An UPDATE does.
UpdateStoreBackend(g, s) ==
  /\ master[g] # {} /\ call[g] = {}
  /\ table[s] # {} /\ s \notin tool.locked
  /\ Write(g, s)
  /\ Goto(g, "evict", s, {}, FALSE)
  /\ UNCHANGED <<revoked, cache, master, tool, current, late>>

\* Mutant: the tool reads its rows without locking them.
RevokeUnlocked(g, k) ==
  /\ master[g] # {} /\ call[g] = {}
  /\ k \in AccessKeys \cap Live
  /\ revoked' = revoked \cup {k}
  /\ Goto(g, "evict", k, {}, FALSE)
  /\ UNCHANGED <<table, cache, master, tool, history>>

RevokeAccessKey(g, k) ==
  /\ master[g] # {} /\ call[g] = {}
  /\ k \in (AccessKeys \cap Live) \ tool.locked
  /\ revoked' = revoked \cup {k}
  /\ Goto(g, "evict", k, {}, FALSE)
  /\ UNCHANGED <<table, cache, master, tool, history>>

Evict(g) ==
  \E q \in call[g] :
    /\ q.pc = "evict"
    /\ cache' = [cache EXCEPT ![q.row] = {}]
    /\ late' = late \ {q.row}
    /\ tool' = [tool EXCEPT !.left = @ \ {q.row}]
    /\ Return(g)
    /\ UNCHANGED <<table, revoked, master, current, astray>>

\* Mutant: entries of access keys are set without a TTL.
ExpireBuckets(r) ==
  /\ r \in Stores /\ cache[r] # {}
  /\ cache' = [cache EXCEPT ![r] = {}]
  /\ late' = late \ {r}
  /\ tool' = [tool EXCEPT !.left = @ \ {r}]
  /\ UNCHANGED <<table, revoked, master, call, current, astray>>

Expire(r) ==
  /\ cache[r] # {}
  /\ cache' = [cache EXCEPT ![r] = {}]
  /\ late' = late \ {r}
  /\ tool' = [tool EXCEPT !.left = @ \ {r}]
  /\ UNCHANGED <<table, revoked, master, call, current, astray>>
-----------------------------------------------------------------------------
Rotation ==
  \/ \E old, new \in MasterKeys : Start(old, new)
  \/ SanityProbe \/ ReencryptStores \/ ReencryptAccessKeys
  \/ DryRunEnds \/ Commit \/ (\E r \in Rows : Flush(r)) \/ FlushEnds \/ ToolFails

Traffic(g) ==
  \/ \E key \in MasterKeys : StartGateway(g, key)
  \/ StopGateway(g) \/ Fill(g) \/ Evict(g) \/ RedisLost(g)
  \/ \E r \in Rows : ReadRow(g, r) \/ Insert(g, r)
  \/ \E s \in Stores : UpdateStoreBackend(g, s)
  \/ \E k \in AccessKeys : RevokeAccessKey(g, k)

Next == Rotation \/ (\E g \in Gateways : Traffic(g)) \/ (\E r \in Rows : Expire(r))

Spec == Init /\ [][Next]_vars

\* Redis honours the TTL of every entry.
FairSpec == Spec /\ \A r \in Rows : WF_vars(Expire(r))
-----------------------------------------------------------------------------
Ciphertexts == {{k} : k \in MasterKeys}

Calls == [pc : {"fill"}, row : Rows, enc : Ciphertexts, doubtful : BOOLEAN]
         \cup [pc : {"evict"}, row : Rows, enc : {{}}, doubtful : BOOLEAN]

\* The types of the variables, with two facts about the tool: it exits with nothing
\* locked, and what it locks is live.
TypeOK ==
  /\ table \in [Rows -> Ciphertexts \cup {{}}]
  /\ revoked \subseteq AccessKeys
  /\ cache \in [Rows -> Ciphertexts \cup {{}}]
  /\ master \in [Gateways -> Ciphertexts \cup {{}}]
  /\ call \in [Gateways -> {{}} \cup {{q} : q \in Calls}]
  /\ tool \in [pc : {"idle", "probe", "stores", "keys", "commit", "flush", "flushed", "refused"},
               old : MasterKeys, new : MasterKeys,
               locked : SUBSET Rows, missed : SUBSET Rows, left : SUBSET Rows]
  /\ current \in MasterKeys /\ astray \subseteq Rows /\ late \subseteq Rows
  /\ tool.locked \subseteq Live
  /\ tool.left \subseteq Cached

\* Whatever step the tool stops at, and whatever the gateways do meanwhile, all
\* secrets are under the key of the last rotation, but for rows a gateway wrote with
\* another key or inserted while the tool worked: README, "All rows succeed or
\* nothing is written".
OneKey == \A r \in Live \ astray : table[r] = {current}

\* After a flush that ended well the cache has nothing that cannot be opened, but
\* for what a gateway that should have been stopped has put there since.
FlushedIsFresh == tool.pc = "flushed" => \A r \in Cached \ late : cache[r] = {current}

\* The tool refuses the right old key only because of a row a gateway wrote under
\* another one.  Such a row makes every later rotation fail, with any key.
RefusedForCause ==
  [][tool'.pc = "refused" /\ tool.pc # "refused" => tool.old # current \/ astray # {}]_vars

\* If the gateways end up with the key of the last rotation, then every entry of
\* Redis can in the end be opened, although the tool stopped between its commit and its
\* flush, or found no Redis, and cannot be run again: rows gone astray excepted.
EventuallyDecrypts ==
  \A k \in MasterKeys :
    <>[](current = k /\ \A g \in Gateways : master[g] \subseteq {k})
      => <>[](\A r \in Cached \ astray : cache[r] = {k})
=============================================================================
