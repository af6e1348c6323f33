--------------------------- MODULE AccessKeysProofs ---------------------------
(* What holds of AccessKeys for every set of keys, requests and admin calls. *)
EXTENDS AccessKeys, TLAPS

(***************************************************************************)
(* The inductive strengthening of StaleOnlyIfSuspect.  A row on its way to *)
(* the cache is excused like a cached one, and a revocation that is going  *)
(* to change a row knows which entry to evict.                             *)
(***************************************************************************)
FillOnlyIfOvertaken ==
  \A r \in Requests :
    req[r].pc = "fill" /\ req[r].ans # Answer(table[req[r].key]) =>
      EvictionPending(req[r].key) \/ r \in overtaken

RevocationKnowsKey ==
  \A a \in Admins :
    adm[a].pc = "revoke" /\ Owner[adm[a].key] = adm[a].tenant =>
      adm[a].key \in adm[a].listed

FreshInv == StaleOnlyIfSuspect /\ FillOnlyIfOvertaken /\ RevocationKnowsKey

(***************************************************************************)
(* The inductive strengthening of AccessWasGranted.                        *)
(***************************************************************************)
HoldsCurrent ==
  \A r \in Requests : req[r].pc # "idle" => Answer(table[req[r].key]) \in held[r]

AnswerWasHeld ==
  \A r \in Requests \ doubtful :
    req[r].pc \in {"fill", "check", "read", "write"} => req[r].ans \in held[r]

AdmittedByAnswer ==
  \A r \in Requests :
    /\ req[r].pc = "write" => req[r].ans = "rw"
    /\ req[r].pc = "read" => req[r].ans \in Active

GrantInv == HoldsCurrent /\ AnswerWasHeld /\ AdmittedByAnswer
-----------------------------------------------------------------------------
(* A lookup answers with one of the three answers, whatever the row. *)
LEMMA AnswerType == \A s : Answer(s) \in Answers
  BY DEF Answer, Answers, Active

(* A step of a request keeps the types. *)
LEMMA RequestTypes ==
  ASSUME TypeOK, NEW r \in Requests, RequestStep(r)
  PROVE  TypeOK'
<1> USE DEF Answers, Answer, Active, TypeOK, Idle, Free, Evicting, store, history, Goto,
       Answered, Leave
<1>1. ASSUME NEW k \in Keys, LookupAccessKey(r, k) PROVE TypeOK'
  BY <1>1 DEF LookupAccessKey
<1>2. CASE Hit(r)
  BY <1>2 DEF Hit
<1>3. CASE Miss(r)
  BY <1>3 DEF Miss
<1>4. CASE Select(r)
  BY <1>4 DEF Select
<1>5. CASE Fill(r)
  BY <1>5 DEF Fill
<1>6. CASE FillLost(r)
  BY <1>6 DEF FillLost
<1>7. CASE AdmitRead(r)
  BY <1>7 DEF AdmitRead
<1>8. CASE AdmitWrite(r)
  BY <1>8 DEF AdmitWrite
<1>9. CASE Deny(r)
  BY <1>9 DEF Deny
<1>10. CASE Served(r)
  BY <1>10 DEF Served
<1>11. CASE Abandon(r)
  BY <1>11 DEF Abandon
<1>12. QED
  BY <1>1, <1>2, <1>3, <1>4, <1>5, <1>6, <1>7, <1>8, <1>9, <1>10,
     <1>11 DEF RequestStep

(* So does a step of an admin call. *)
LEMMA AdminTypes ==
  ASSUME TypeOK, NEW a \in Admins, AdminStep(a)
  PROVE  TypeOK'
<1> USE DEF Answers, Answer, Active, TypeOK, Idle, Free, Evicting, store, history, Goto,
       Answered, Leave
<1>1. ASSUME NEW k \in Keys, NEW t \in Tenants, NEW readonly \in BOOLEAN,
             UpdateAccessKeyReadonly(a, k, t, readonly)
      PROVE TypeOK'
  BY <1>1 DEF UpdateAccessKeyReadonly, Write, Flag, Statuses
<1>2. ASSUME NEW k \in Keys, NEW t \in Tenants, ListAccessKeys(a, k, t)
      PROVE TypeOK'
  BY <1>2 DEF ListAccessKeys
<1>3. CASE RevokeAccessKey(a)
  BY <1>3 DEF RevokeAccessKey, Write, Statuses
<1>4. CASE RevokeFails(a)
  BY <1>4 DEF RevokeFails
<1>5. CASE Evict(a)
  BY <1>5 DEF Evict, Overtake
<1>6. CASE EvictLost(a)
  BY <1>6 DEF EvictLost, Overtake
<1>7. QED
  BY <1>1, <1>2, <1>3, <1>4, <1>5, <1>6 DEF AdminStep

(* And the creation of a key, or the end of a TTL. *)
LEMMA OtherTypes ==
  ASSUME TypeOK,
         \/ \E k \in Keys, readonly \in BOOLEAN : CreateAccessKey(k, readonly)
         \/ \E k \in Keys : Expire(k)
         \/ UNCHANGED vars
  PROVE  TypeOK'
<1> USE DEF Answers, Answer, Active, TypeOK, Idle, Free, Evicting, store, history, Goto,
       Answered, Leave
<1>1. CASE \E k \in Keys, readonly \in BOOLEAN : CreateAccessKey(k, readonly)
  BY <1>1 DEF CreateAccessKey, Write, Flag, Statuses
<1>2. CASE \E k \in Keys : Expire(k)
  BY <1>2 DEF Expire
<1>3. QED
  BY <1>1, <1>2 DEF vars

(***************************************************************************)
(* Type correctness: in particular a request in progress and an admin call *)
(* in progress always name a key (LookupAccessKey, cache.go).              *)
(***************************************************************************)
THEOREM TypeCorrect == Spec => []TypeOK
<1>1. Init => TypeOK
  BY DEF Init, TypeOK, Statuses, Answers, Idle, Free
<1>2. TypeOK /\ [Next]_vars => TypeOK'
  BY RequestTypes, AdminTypes, OtherTypes DEF Next
<1>3. QED
  BY <1>1, <1>2, PTL DEF Spec
-----------------------------------------------------------------------------
(* A request caches nothing stale without an excuse. *)
LEMMA RequestFresh ==
  ASSUME TypeOK, TypeOK', FreshInv, NEW r \in Requests, RequestStep(r)
  PROVE  FreshInv'
<1> USE DEF FreshInv, StaleOnlyIfSuspect, FillOnlyIfOvertaken, RevocationKnowsKey,
       EvictionPending, TypeOK, Idle, Free, Evicting, store, history, Goto, Answered, Leave
<1>1. ASSUME NEW k \in Keys, LookupAccessKey(r, k) PROVE FreshInv'
  BY <1>1 DEF LookupAccessKey
<1>2. CASE Hit(r)
  BY <1>2 DEF Hit
<1>3. CASE Miss(r)
  BY <1>3 DEF Miss
<1>4. CASE Select(r)
  BY <1>4 DEF Select
<1>5. CASE Fill(r)
  <2>1. adm' = adm /\ table' = table
    BY <1>5 DEF Fill
  <2>2. StaleOnlyIfSuspect'
    BY <1>5, <2>1 DEF Fill
  <2>3. FillOnlyIfOvertaken'
    BY <1>5, <2>1 DEF Fill
  <2>4. RevocationKnowsKey'
    BY <2>1
  <2>5. QED
    BY <2>2, <2>3, <2>4
<1>6. CASE FillLost(r)
  BY <1>6 DEF FillLost
<1>7. CASE AdmitRead(r)
  BY <1>7 DEF AdmitRead
<1>8. CASE AdmitWrite(r)
  BY <1>8 DEF AdmitWrite
<1>9. CASE Deny(r)
  BY <1>9 DEF Deny
<1>10. CASE Served(r)
  BY <1>10 DEF Served
<1>11. CASE Abandon(r)
  BY <1>11 DEF Abandon
<1>12. QED
  BY <1>1, <1>2, <1>3, <1>4, <1>5, <1>6, <1>7, <1>8, <1>9, <1>10,
     <1>11 DEF RequestStep

(* An admin call makes nothing stale without an excuse. *)
LEMMA AdminFresh ==
  ASSUME TypeOK, TypeOK', FreshInv, NEW a \in Admins, AdminStep(a)
  PROVE  FreshInv'
<1> USE DEF FreshInv, StaleOnlyIfSuspect, FillOnlyIfOvertaken, RevocationKnowsKey,
       EvictionPending, TypeOK, Idle, Free, Evicting, store, history, Goto, Answered, Leave
<1>1. ASSUME NEW k \in Keys, NEW t \in Tenants, NEW readonly \in BOOLEAN,
             UpdateAccessKeyReadonly(a, k, t, readonly)
      PROVE FreshInv'
  BY <1>1 DEF UpdateAccessKeyReadonly, Write
<1>2. ASSUME NEW k \in Keys, NEW t \in Tenants, ListAccessKeys(a, k, t)
      PROVE FreshInv'
  BY <1>2 DEF ListAccessKeys
<1>3. CASE RevokeAccessKey(a)
  BY <1>3 DEF RevokeAccessKey, Write
<1>4. CASE RevokeFails(a)
  BY <1>4 DEF RevokeFails
<1>5. CASE Evict(a)
  BY <1>5 DEF Evict, Overtake
<1>6. CASE EvictLost(a)
  BY <1>6 DEF EvictLost, Overtake
<1>7. QED
  BY <1>1, <1>2, <1>3, <1>4, <1>5, <1>6 DEF AdminStep

(* Nor does the creation of a key, or the end of a TTL. *)
LEMMA OtherFresh ==
  ASSUME TypeOK, TypeOK', FreshInv,
         \/ \E k \in Keys, readonly \in BOOLEAN : CreateAccessKey(k, readonly)
         \/ \E k \in Keys : Expire(k)
         \/ UNCHANGED vars
  PROVE  FreshInv'
<1> USE DEF FreshInv, StaleOnlyIfSuspect, FillOnlyIfOvertaken, RevocationKnowsKey,
       EvictionPending, TypeOK, Idle, Free, Evicting, store, history, Goto, Answered, Leave
<1>1. CASE \E k \in Keys, readonly \in BOOLEAN : CreateAccessKey(k, readonly)
  BY <1>1 DEF CreateAccessKey, Write
<1>2. CASE \E k \in Keys : Expire(k)
  BY <1>2 DEF Expire
<1>3. QED
  BY <1>1, <1>2 DEF vars

(***************************************************************************)
(* The strengthening is invariant: no step leaves a stale row in the cache *)
(* or on its way there without an excuse, and no revocation loses track of *)
(* the entry it must evict (LookupAccessKey, RevokeAccessKey, cache.go).   *)
(***************************************************************************)
THEOREM FreshCorrect == Spec => []FreshInv
<1>1. Init => FreshInv
  BY DEF Init, FreshInv, StaleOnlyIfSuspect, FillOnlyIfOvertaken,
         RevocationKnowsKey, Idle, Free
<1>2. TypeOK /\ TypeOK' /\ FreshInv /\ [Next]_vars => FreshInv'
  BY RequestFresh, AdminFresh, OtherFresh DEF Next
<1>3. QED
  BY <1>1, <1>2, TypeCorrect, PTL DEF Spec

(***************************************************************************)
(* Staleness in the cache has no excuse but a pending eviction or a        *)
(* suspect entry, for any number of gateways, requests and admin calls and *)
(* with or without faults (the write methods of cachedRegistry).           *)
(***************************************************************************)
COROLLARY StaleOnlyIfSuspectHolds == Spec => []StaleOnlyIfSuspect
<1>1. FreshInv => StaleOnlyIfSuspect
  BY DEF FreshInv
<1>2. QED
  BY <1>1, FreshCorrect, PTL

(* A statement that changes a row adds what the row says to what is held. *)
LEMMA WriteGrants ==
  ASSUME TypeOK, TypeOK', GrantInv, NEW k \in Keys, NEW status \in Statuses,
         Write(k, status), UNCHANGED <<req, doubtful>>
  PROVE  GrantInv'
BY DEF Write, GrantInv, HoldsCurrent, AnswerWasHeld, AdmittedByAnswer, TypeOK, Idle, store,
   history, Goto, Answered, Leave

(* A request is admitted on an answer that was held. *)
LEMMA RequestGrants ==
  ASSUME TypeOK, TypeOK', FreshInv, GrantInv, NEW r \in Requests, RequestStep(r)
  PROVE  GrantInv'
<1> USE DEF GrantInv, HoldsCurrent, AnswerWasHeld, AdmittedByAnswer, TypeOK,
       Idle, store, history, Goto, Answered, Leave
<1>1. ASSUME NEW k \in Keys, LookupAccessKey(r, k) PROVE GrantInv'
  BY <1>1 DEF LookupAccessKey
<1>2. CASE Hit(r)
  BY <1>2 DEF Hit, FreshInv, StaleOnlyIfSuspect
<1>3. CASE Miss(r)
  BY <1>3 DEF Miss
<1>4. CASE Select(r)
  BY <1>4 DEF Select
<1>5. CASE Fill(r)
  BY <1>5 DEF Fill
<1>6. CASE FillLost(r)
  BY <1>6 DEF FillLost
<1>7. CASE AdmitRead(r)
  BY <1>7 DEF AdmitRead
<1>8. CASE AdmitWrite(r)
  BY <1>8 DEF AdmitWrite
<1>9. CASE Deny(r)
  BY <1>9 DEF Deny
<1>10. CASE Served(r)
  BY <1>10 DEF Served
<1>11. CASE Abandon(r)
  BY <1>11 DEF Abandon
<1>12. QED
  BY <1>1, <1>2, <1>3, <1>4, <1>5, <1>6, <1>7, <1>8, <1>9, <1>10,
     <1>11 DEF RequestStep

(* An admin call takes no held answer away. *)
LEMMA AdminGrants ==
  ASSUME TypeOK, TypeOK', FreshInv, GrantInv, NEW a \in Admins, AdminStep(a)
  PROVE  GrantInv'
<1> USE DEF GrantInv, HoldsCurrent, AnswerWasHeld, AdmittedByAnswer, TypeOK,
       Idle, store, history, Goto, Answered, Leave
<1>1. ASSUME NEW k \in Keys, NEW t \in Tenants, NEW readonly \in BOOLEAN,
             UpdateAccessKeyReadonly(a, k, t, readonly)
      PROVE GrantInv'
  BY <1>1, WriteGrants DEF UpdateAccessKeyReadonly, Flag, Statuses
<1>2. ASSUME NEW k \in Keys, NEW t \in Tenants, ListAccessKeys(a, k, t)
      PROVE GrantInv'
  BY <1>2 DEF ListAccessKeys
<1>3. CASE RevokeAccessKey(a)
  BY <1>3, WriteGrants DEF RevokeAccessKey, Statuses
<1>4. CASE RevokeFails(a)
  BY <1>4 DEF RevokeFails
<1>5. CASE Evict(a)
  BY <1>5 DEF Evict
<1>6. CASE EvictLost(a)
  BY <1>6 DEF EvictLost
<1>7. QED
  BY <1>1, <1>2, <1>3, <1>4, <1>5, <1>6 DEF AdminStep

(* Nor does the creation of a key, or the end of a TTL. *)
LEMMA OtherGrants ==
  ASSUME TypeOK, TypeOK', FreshInv, GrantInv,
         \/ \E k \in Keys, readonly \in BOOLEAN : CreateAccessKey(k, readonly)
         \/ \E k \in Keys : Expire(k)
         \/ UNCHANGED vars
  PROVE  GrantInv'
<1> USE DEF GrantInv, HoldsCurrent, AnswerWasHeld, AdmittedByAnswer, TypeOK,
       Idle, store, history, Goto, Answered, Leave
<1>1. CASE \E k \in Keys, readonly \in BOOLEAN : CreateAccessKey(k, readonly)
  BY <1>1, WriteGrants DEF CreateAccessKey, Flag, Statuses
<1>2. CASE \E k \in Keys : Expire(k)
  BY <1>2 DEF Expire
<1>3. QED
  BY <1>1, <1>2 DEF vars

(***************************************************************************)
(* A request that was not answered by a suspect entry, nor by one about to *)
(* be evicted, is let through only on a right its key had while the        *)
(* request was in progress (authMiddleware, auth.go).                      *)
(***************************************************************************)
THEOREM AccessWasGrantedHolds == Spec => []AccessWasGranted
<1>1. Init => GrantInv
  BY DEF Init, GrantInv, HoldsCurrent, AnswerWasHeld, AdmittedByAnswer, Idle
<1>2. TypeOK /\ TypeOK' /\ FreshInv /\ GrantInv /\ [Next]_vars => GrantInv'
  BY RequestGrants, AdminGrants, OtherGrants DEF Next
<1>3. GrantInv => AccessWasGranted
  <2> SUFFICES ASSUME GrantInv, NEW r \in Requests \ doubtful
               PROVE /\ req[r].pc = "write" => "rw" \in held[r]
                     /\ req[r].pc = "read" => held[r] \cap Active # {}
    BY DEF AccessWasGranted
  <2> QED
    BY DEF GrantInv, AnswerWasHeld, AdmittedByAnswer
<1>4. QED
  BY <1>1, <1>2, <1>3, TypeCorrect, FreshCorrect, PTL DEF Spec
=============================================================================
