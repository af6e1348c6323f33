-------------------------- MODULE MultipartProofs --------------------------
(* What holds of Multipart for any uploads, keys, targets, parts and requests. *)
EXTENDS Multipart, TLAPS

Call == [pc : Steps, op : Ops, up : Uploads, place : Places, part : 0 .. NumParts]

(***************************************************************************)
(* Requests are one at a time in their slots, and a call knows its part    *)
(* from the beginning, or copies from none.                                *)
(***************************************************************************)
Formed(q) ==
  /\ q.pc = "part" => q.part \in Parts
  /\ q.pc = "complete" => q.part = 0
  /\ q.pc = "abort" => q.op = "abort"

FormInv == \A r \in Requests : \A q \in req[r] : req[r] = {q} /\ Formed(q)
-----------------------------------------------------------------------------
(* Where a part is found is among the places parts are found at. *)
LEMMA WhereTyped ==
  ASSUME NEW p \in Places
  PROVE  Where(p) \in Ats
  BY DEF Where, Ats, Places

(* What supplies a part of an object is uploads. *)
LEMMA SupplyTyped ==
  ASSUME TypeOK, NEW q \in Call, NEW n \in Parts
  PROVE  Supply(q, n) \subseteq Uploads
<1>1. objects[q.place][n] \subseteq Uploads
  BY DEF TypeOK, Call
<1>2. \A s \in staged : s.up \in Uploads
  BY DEF TypeOK, StagedParts
<1>3. QED
  BY <1>1, <1>2 DEF Supply, Visible

(* The ways a request goes on: it begins, goes to another step, copies a part or ends. *)
LEMMA ReqTyped ==
  ASSUME TypeOK, NEW r \in Requests, NEW new \in SUBSET Call,
         req' = [req EXCEPT ![r] = new]
  PROVE  /\ req' \in [Requests -> SUBSET Call]
         /\ req'[r] = new
         /\ \A x \in Requests \ {r} : req'[x] = req[x]
  BY DEF TypeOK, Call

(* A call that begins fills its slot. *)
LEMMA BeginTyped ==
  ASSUME TypeOK, NEW r \in Requests, NEW pc \in Ops, NEW u \in Uploads, NEW t \in Targets,
         NEW key \in Keys, NEW n \in 0 .. NumParts, Begin(r, pc, u, Place(t, key), n)
  PROVE  /\ req' \in [Requests -> SUBSET Call]
         /\ req'[r] = {[pc |-> pc, op |-> pc, up |-> u, place |-> Place(t, key), part |-> n]}
         /\ \A x \in Requests \ {r} : req'[x] = req[x]
<1> DEFINE new == {[pc |-> pc, op |-> pc, up |-> u, place |-> Place(t, key), part |-> n]}
<1>1. new \in SUBSET Call
  BY DEF Call, Steps, Place, Places
<1>2. req' = [req EXCEPT ![r] = new]
  BY DEF Begin
<1> HIDE DEF new
<1>3. /\ req' \in [Requests -> SUBSET Call] /\ req'[r] = new
      /\ \A x \in Requests \ {r} : req'[x] = req[x]
  BY <1>1, <1>2, ReqTyped
<1>4. QED
  BY <1>3 DEF new

(* One that goes to another step stays in it. *)
LEMMA GotoTyped ==
  ASSUME TypeOK, NEW r \in Requests, NEW q \in req[r], NEW pc \in Steps, Goto(r, q, pc)
  PROVE  /\ req' \in [Requests -> SUBSET Call]
         /\ req'[r] = {[q EXCEPT !.pc = pc]}
         /\ \A x \in Requests \ {r} : req'[x] = req[x]
<1> DEFINE new == {[q EXCEPT !.pc = pc]}
<1>1. new \in SUBSET Call
  BY DEF TypeOK, Call
<1>2. req' = [req EXCEPT ![r] = new]
  BY DEF Goto
<1> HIDE DEF new
<1>3. /\ req' \in [Requests -> SUBSET Call] /\ req'[r] = new
      /\ \A x \in Requests \ {r} : req'[x] = req[x]
  BY <1>1, <1>2, ReqTyped
<1>4. QED
  BY <1>3 DEF new

(* One that ends leaves it empty. *)
LEMMA EndTyped ==
  ASSUME TypeOK, NEW r \in Requests, End(r)
  PROVE  /\ req' \in [Requests -> SUBSET Call]
         /\ req'[r] = {}
         /\ \A x \in Requests \ {r} : req'[x] = req[x]
  BY ReqTyped DEF End

(* One that has copied a part goes on with the next. *)
LEMMA CopyTyped ==
  ASSUME TypeOK, NEW r \in Requests, NEW q \in req[r], CopyPart(r, q)
  PROVE  /\ req' \in [Requests -> SUBSET Call]
         /\ req'[r] = {[q EXCEPT !.part = @ + 1]}
         /\ \A x \in Requests \ {r} : req'[x] = req[x]
<1> DEFINE new == {[q EXCEPT !.part = @ + 1]}
<1>1. new \in SUBSET Call
  BY NumPartsAssumption DEF TypeOK, Call, CopyPart
<1>2. req' = [req EXCEPT ![r] = new]
  BY DEF CopyPart
<1> HIDE DEF new
<1>3. /\ req' \in [Requests -> SUBSET Call] /\ req'[r] = new
      /\ \A x \in Requests \ {r} : req'[x] = req[x]
  BY <1>1, <1>2, ReqTyped
<1>4. QED
  BY <1>3 DEF new

(***************************************************************************)
(* Type correctness.  That a part that is sent has a number needs the form *)
(* of the calls.                                                           *)
(***************************************************************************)
THEOREM FormCorrect == Spec => [](TypeOK /\ FormInv)
<1>1. Init => TypeOK /\ FormInv
  BY DEF Init, TypeOK, FormInv
<1>2. TypeOK /\ FormInv /\ [Next]_vars => TypeOK' /\ FormInv'
  <2> SUFFICES ASSUME TypeOK, FormInv, [Next]_vars PROVE TypeOK' /\ FormInv'
    OBVIOUS
  <2>1. ASSUME NEW r \in Requests, NEW u \in Uploads, NEW key \in Keys, NEW t \in Targets,
               Arrive(r, u, key, t)
        PROVE  TypeOK' /\ FormInv'
    <3>1. CASE CreateMultipartUpload(r, u, key, t)
      <4>1. Place(t, key) \in Places
        BY DEF Place, Places
      <4>2. /\ req' \in [Requests -> SUBSET Call]
            /\ req'[r] = {[pc |-> "insert", op |-> "insert", up |-> u, place |-> Place(t, key), part |-> 0]}
            /\ \A x \in Requests \ {r} : req'[x] = req[x]
        BY <3>1, BeginTyped, NumPartsAssumption DEF CreateMultipartUpload, Ops
      <4>3. FormInv'
        BY <4>2 DEF FormInv, Formed
      <4>4. QED
        BY <3>1, <4>1, <4>2, <4>3 DEF CreateMultipartUpload, TypeOK, Call
    <3>2. ASSUME NEW op \in {"part", "complete", "abort"}, NEW n \in 0 .. NumParts,
                 op = "part" => n \in Parts, op = "complete" => n = 0,
                 GetMultipartUpload(r, op, u, key, t, n)
          PROVE  TypeOK' /\ FormInv'
      <4>2. /\ req' \in [Requests -> SUBSET Call]
            /\ req'[r] = {[pc |-> op, op |-> op, up |-> u, place |-> Place(t, key), part |-> n]}
            /\ \A x \in Requests \ {r} : req'[x] = req[x]
        BY <3>2, BeginTyped DEF GetMultipartUpload, Ops
      <4>3. FormInv'
        BY <3>2, <4>2 DEF FormInv, Formed
      <4>4. rerouted' \subseteq Uploads
        BY <3>2 DEF GetMultipartUpload, TypeOK
      <4>5. QED
        BY <3>2, <4>2, <4>3, <4>4 DEF GetMultipartUpload, TypeOK, Call, upstream
    <3>3. QED
      BY <2>1, <3>1, <3>2, NumPartsAssumption DEF Arrive, Parts
  <2>2. ASSUME NEW r \in Requests, NEW q \in req[r] PROVE q \in Call /\ req[r] = {q} /\ Formed(q)
    BY DEF TypeOK, FormInv, Call
  \* The three ways a call goes on keep the form.
  <2>e. ASSUME NEW r \in Requests, End(r) PROVE FormInv' /\ req' \in [Requests -> SUBSET Call]
    BY <2>e, EndTyped DEF FormInv
  <2>g. ASSUME NEW r \in Requests, NEW q \in req[r], NEW pc \in {"undo", "copy", "delete"},
               Goto(r, q, pc)
        PROVE  FormInv' /\ req' \in [Requests -> SUBSET Call]
    <3>1. /\ req' \in [Requests -> SUBSET Call]
          /\ req'[r] = {[q EXCEPT !.pc = pc]}
          /\ \A x \in Requests \ {r} : req'[x] = req[x]
      BY <2>g, GotoTyped DEF Steps, Ops
    <3>2. Formed([q EXCEPT !.pc = pc])
      BY <2>2 DEF Formed, Call
    <3>3. QED
      BY <3>1, <3>2 DEF FormInv
  <2>3. ASSUME NEW r \in Requests, NEW q \in req[r], Record(r, q) PROVE TypeOK' /\ FormInv'
    <3>1. table' \in [Uploads -> SUBSET Keys]
      BY <2>2, <2>3 DEF Record, TypeOK, Call, Places
    <3>2. QED
      BY <2>3, <2>e, <3>1 DEF Record, TypeOK, upstream, history, Call
  <2>4. ASSUME NEW r \in Requests, NEW q \in req[r], RecordFails(r, q) PROVE TypeOK' /\ FormInv'
    BY <2>4, <2>g DEF RecordFails, TypeOK, upstream, history, Call
  <2>u. ASSUME NEW r \in Requests, NEW q \in req[r], RecordUnanswered(r, q)
        PROVE  TypeOK' /\ FormInv'
    <3>1. /\ table' \in [Uploads -> SUBSET Keys]
          /\ untold' \subseteq Uploads /\ lingering' \subseteq Uploads
      BY <2>2, <2>u DEF RecordUnanswered, TypeOK, Call, Places
    <3>2. FormInv' /\ req' \in [Requests -> SUBSET Call]
      BY <2>u, <2>g DEF RecordUnanswered
    <3>3. QED
      BY <2>u, <3>1, <3>2 DEF RecordUnanswered, TypeOK, upstream, Call
  <2>r. ASSUME NEW q, Release(q) PROVE open' \subseteq open /\ staged' \subseteq staged
    BY <2>r DEF Release
  <2>5. ASSUME NEW r \in Requests, NEW q \in req[r], Undo(r, q) PROVE TypeOK' /\ FormInv'
    <3>1. open' \subseteq open /\ staged' \subseteq staged /\ UNCHANGED <<cleaning, objects>>
      BY <2>5, <2>r DEF Undo, Release
    <3>2. QED
      BY <2>5, <2>e, <3>1 DEF Undo, TypeOK, history, Call
  <2>6. ASSUME NEW r \in Requests, NEW q \in req[r], UploadPart(r, q) PROVE TypeOK' /\ FormInv'
    <3>1. /\ [up |-> q.up, part |-> q.part, at |-> Where(q.place)] \in StagedParts
          /\ q.up \in Uploads /\ q.place \in Places
      BY <2>2, <2>6, WhereTyped DEF UploadPart, Formed, Call, StagedParts
    <3>2. staged' \subseteq staged \cup {[up |-> q.up, part |-> q.part, at |-> Where(q.place)]}
      BY <2>6 DEF UploadPart
    <3>3. orphaned' \subseteq Uploads /\ torn' \subseteq Places
      BY <2>6, <3>1 DEF UploadPart, TypeOK
    <3>4. FormInv' /\ req' \in [Requests -> SUBSET Call]
      BY <2>6, <2>e DEF UploadPart
    <3>5. QED
      BY <2>6, <3>1, <3>2, <3>3, <3>4 DEF UploadPart, TypeOK, Call
  <2>7. ASSUME NEW r \in Requests, NEW q \in req[r], CompleteMultipartUpload(r, q)
        PROVE  TypeOK' /\ FormInv'
    <3>1. q.place \in Places /\ Visible(q) \subseteq staged
      BY <2>2 DEF Call, Visible
    <3>2. objects' \in [Places -> [Parts -> SUBSET Uploads]]
      BY <2>2, <2>7, <3>1, SupplyTyped DEF CompleteMultipartUpload, TypeOK
    <3>3. open' \subseteq open /\ staged' \subseteq staged /\ cleaning' \subseteq cleaning \cup staged
      BY <2>7, <3>1 DEF CompleteMultipartUpload
    <3>4. torn' \subseteq Places
      BY <2>7, <3>1 DEF CompleteMultipartUpload, TypeOK
    <3>5. FormInv' /\ req' \in [Requests -> SUBSET Call]
      BY <2>7, <2>g DEF CompleteMultipartUpload
    <3>6. QED
      BY <2>7, <3>2, <3>3, <3>4, <3>5 DEF CompleteMultipartUpload, TypeOK, Call
  <2>8. ASSUME NEW r \in Requests, NEW q \in req[r], Truncate(r, q) PROVE TypeOK' /\ FormInv'
    <3>1. q.place \in Places
      BY <2>2 DEF Call
    <3>2. objects' \in [Places -> [Parts -> SUBSET Uploads]] /\ torn' \subseteq Places
      BY <2>8, <3>1 DEF Truncate, TypeOK
    <3>3. FormInv' /\ req' \in [Requests -> SUBSET Call]
      BY <2>8, <2>g DEF Truncate
    <3>4. QED
      BY <2>8, <3>2, <3>3 DEF Truncate, TypeOK, Call
  <2>9. ASSUME NEW r \in Requests, NEW q \in req[r], CopyPart(r, q) PROVE TypeOK' /\ FormInv'
    <3>1. q.place \in Places /\ q.up \in Uploads /\ q.part \in 0 .. NumParts /\ q.pc = "copy"
      BY <2>2, <2>9 DEF Call, CopyPart
    <3>2. objects' \in [Places -> [Parts -> SUBSET Uploads]]
      BY <2>9, <3>1 DEF CopyPart, TypeOK
    <3>3. FormInv'
      <4>1. Formed([q EXCEPT !.part = @ + 1])
        BY <2>2, <3>1 DEF Formed, Call
      <4>2. QED
        BY <2>9, <4>1, CopyTyped DEF FormInv
    <3>4. QED
      BY <2>9, <3>2, <3>3, CopyTyped DEF CopyPart, TypeOK, Call, history
  <2>10. ASSUME NEW r \in Requests, NEW q \in req[r], RemoveParts(r, q) PROVE TypeOK' /\ FormInv'
    BY <2>10, <2>g DEF RemoveParts, TypeOK, history, Call
  <2>s. ASSUME NEW r \in Requests, NEW q \in req[r], PartsStay(r, q) PROVE TypeOK' /\ FormInv'
    <3>1. orphaned' \subseteq Uploads /\ staged' \subseteq staged
      BY <2>2, <2>s DEF PartsStay, TypeOK, Call, Visible
    <3>2. QED
      BY <2>s, <2>g, <3>1 DEF PartsStay, TypeOK, Call
  <2>11. ASSUME NEW r \in Requests, NEW q \in req[r], AbortMultipartUpload(r, q)
         PROVE  TypeOK' /\ FormInv'
    <3>1. open' \subseteq open /\ staged' \subseteq staged /\ UNCHANGED <<cleaning, objects>>
      BY <2>11, <2>r DEF AbortMultipartUpload, Release
    <3>2. QED
      BY <2>11, <2>g, <3>1 DEF AbortMultipartUpload, TypeOK, history, Call
  <2>12. ASSUME NEW r \in Requests, NEW q \in req[r], AbortRefused(r, q) PROVE TypeOK' /\ FormInv'
    <3>1. orphaned' \subseteq Uploads /\ staged' \subseteq staged
      BY <2>2, <2>12 DEF AbortRefused, TypeOK, Call
    <3>2. QED
      BY <2>12, <2>g, <3>1 DEF AbortRefused, TypeOK, Call
  <2>13. ASSUME NEW r \in Requests, NEW q \in req[r], DeleteMultipartUpload(r, q) \/ DeleteLost(r, q)
         PROVE  TypeOK' /\ FormInv'
    <3>1. /\ table' \in [Uploads -> SUBSET Keys]
          /\ acked' \subseteq Uploads /\ lingering' \subseteq Uploads
      BY <2>2, <2>13 DEF DeleteMultipartUpload, DeleteLost, Acknowledge, TypeOK, Call
    <3>2. FormInv' /\ req' \in [Requests -> SUBSET Call]
      BY <2>13, <2>e DEF DeleteMultipartUpload, DeleteLost, Acknowledge
    <3>3. QED
      BY <2>13, <3>1, <3>2 DEF DeleteMultipartUpload, DeleteLost, TypeOK, upstream, Call
  <2>14. ASSUME NEW r \in Requests, NEW q \in req[r], Fail(r, q) PROVE TypeOK' /\ FormInv'
    <3>1. /\ orphaned' \subseteq Uploads /\ lingering' \subseteq Uploads /\ torn' \subseteq Places
      BY <2>2, <2>14 DEF Fail, TypeOK, Call
    <3>2. FormInv' /\ req' \in [Requests -> SUBSET Call]
      BY <2>14, <2>e DEF Fail
    <3>3. QED
      BY <2>14, <3>1, <3>2 DEF Fail, TypeOK, upstream, Call
  <2>15. CASE Background
    BY <2>15 DEF Background, Refused, Clean, CleanLost, vars, upstream, history, TypeOK, FormInv,
                 StagedParts
  <2>16. CASE UNCHANGED vars
    BY <2>16 DEF vars, upstream, history, TypeOK, FormInv
  <2>17. QED
    BY <2>1, <2>3, <2>4, <2>u, <2>5, <2>6, <2>7, <2>8, <2>9, <2>10, <2>s, <2>11, <2>12, <2>13,
       <2>14, <2>15, <2>16
       DEF Next, Proceed
<1>3. QED
  BY <1>1, <1>2, PTL DEF Spec

(* The type invariant the run checks. *)
COROLLARY TypeCorrect == Spec => []TypeOK
  BY FormCorrect, PTL
-----------------------------------------------------------------------------
(***************************************************************************)
(* Where an upload was created is where all of it is, unless its bucket    *)
(* resolved elsewhere; and while a creation is in progress there is         *)
(* nothing else of its upload.                                             *)
(***************************************************************************)
Once == \A u \in Uploads : \A p, x \in created[u] : p = x

TableTraced == \A u \in Uploads : \A key \in table[u] : \E p \in created[u] : p.key = key

OpenTraced == \A o \in open : kind = "s3" /\ o.place \in created[o.up]

StagedTraced ==
  \A s \in staged :
    created[s.up] # {} /\ (s.up \notin rerouted => \E p \in created[s.up] : s.at = Where(p))

CallTraced(q) ==
  created[q.up] # {} /\ (q.up \notin rerouted => q.place \in created[q.up])

Alone(r, q) ==
  /\ table[q.up] = {} \/ q.up \in untold
  /\ q.place \in created[q.up]
  /\ \A x \in Requests : \A y \in req[x] : y.up = q.up => x = r
  /\ kind = "s3" => [up |-> q.up, place |-> q.place] \in open

CallsTraced ==
  \A r \in Requests : \A q \in req[r] :
    CallTraced(q) /\ (q.pc \in {"insert", "undo"} => Alone(r, q))

TraceInv == Once /\ TableTraced /\ OpenTraced /\ StagedTraced /\ CallsTraced

\* What every step of a call has in common.
Onward(r, q) ==
  /\ UNCHANGED <<kind, created, rerouted>>
  /\ \A x \in Requests \ {r} : req'[x] = req[x]
  /\ \A y \in req'[r] :
       /\ y.up = q.up /\ y.place = q.place
       /\ y.pc # "insert"
       /\ y.pc = "copy" => kind = "local" \/ q.pc = "copy"
       /\ y.pc = "undo" => q.pc = "insert" /\ open' = open /\ (table' = table \/ q.up \in untold')
  /\ \A u \in Uploads \ {q.up} : table'[u] = table[u]
  /\ table'[q.up] \in {table[q.up], {}} \/ (q.pc = "insert" /\ table'[q.up] = {q.place.key})
  /\ open' \subseteq open /\ open \ {[up |-> q.up, place |-> q.place]} \subseteq open'
  /\ \A s \in staged' : s \in staged \/ (s.up = q.up /\ s.at = Where(q.place))
  /\ kind # "azure" => \A s \in StagedParts : s.up # q.up =>
       (s \in staged' <=> s \in staged) /\ (s \in cleaning' <=> s \in cleaning)
  /\ untold \subseteq untold' /\ orphaned \subseteq orphaned' /\ lingering \subseteq lingering'

\* The end of a copy on the local backend, whatever becomes of the parts.
EndCopy(r, q) == RemoveParts(r, q) \/ PartsStay(r, q)

\* The steps of a call.
Step(r, q) ==
  \/ Record(r, q) \/ RecordFails(r, q) \/ RecordUnanswered(r, q) \/ Undo(r, q)
  \/ UploadPart(r, q)
  \/ CompleteMultipartUpload(r, q) \/ Truncate(r, q) \/ CopyPart(r, q) \/ EndCopy(r, q)
  \/ AbortMultipartUpload(r, q) \/ AbortRefused(r, q)
  \/ DeleteMultipartUpload(r, q) \/ DeleteLost(r, q) \/ Fail(r, q)

(* A call that is in progress is of the type, and alone in its slot. *)
LEMMA CallTyped ==
  ASSUME TypeOK, FormInv, NEW r \in Requests, NEW q \in req[r]
  PROVE  q \in Call /\ req[r] = {q} /\ Formed(q) /\ q.up \in Uploads /\ q.place \in Places
  BY DEF TypeOK, FormInv, Call

(* A call that goes to another step is otherwise what it was. *)
LEMMA GotoEffect ==
  ASSUME TypeOK, NEW r \in Requests, NEW q \in req[r], NEW pc \in {"undo", "copy", "delete"},
         Goto(r, q, pc)
  PROVE  /\ \A x \in Requests \ {r} : req'[x] = req[x]
         /\ \E y \in Call : /\ req'[r] = {y} /\ y.pc = pc /\ y.up = q.up /\ y.place = q.place
                            /\ y.op = q.op /\ y.part = q.part
<1>1. pc \in Steps /\ q \in Call
  BY DEF Steps, TypeOK, Call
<1>2. req'[r] = {[q EXCEPT !.pc = pc]} /\ \A x \in Requests \ {r} : req'[x] = req[x]
  BY <1>1, GotoTyped
<1> DEFINE y == [q EXCEPT !.pc = pc]
<1>3. /\ y \in Call /\ y.pc = pc /\ y.up = q.up /\ y.place = q.place
      /\ y.op = q.op /\ y.part = q.part
  BY <1>1 DEF Call
<1> HIDE DEF y
<1>4. req'[r] = {y}
  BY <1>2 DEF y
<1>5. QED
  BY <1>2, <1>3, <1>4

(* So is one that has copied a part. *)
LEMMA CopyEffect ==
  ASSUME TypeOK, NEW r \in Requests, NEW q \in req[r], CopyPart(r, q)
  PROVE  /\ \A x \in Requests \ {r} : req'[x] = req[x]
         /\ \E y \in Call : /\ req'[r] = {y} /\ y.pc = "copy" /\ y.up = q.up
                            /\ y.place = q.place /\ y.part = q.part + 1
<1>1. q \in Call /\ q.pc = "copy" /\ q.part + 1 \in 0 .. NumParts
  BY NumPartsAssumption DEF TypeOK, Call, CopyPart
<1>2. req'[r] = {[q EXCEPT !.part = @ + 1]} /\ \A x \in Requests \ {r} : req'[x] = req[x]
  BY CopyTyped
<1> DEFINE y == [q EXCEPT !.part = @ + 1]
<1>3. /\ y \in Call /\ y.pc = "copy" /\ y.up = q.up /\ y.place = q.place
      /\ y.part = q.part + 1
  BY <1>1 DEF Call
<1> HIDE DEF y
<1>4. req'[r] = {y}
  BY <1>2 DEF y
<1>5. QED
  BY <1>2, <1>3, <1>4

(* On all backends but Azure a call sees parts of its own upload only. *)
LEMMA VisibleIsOwn ==
  ASSUME NEW q, kind # "azure"
  PROVE  \A s \in Visible(q) : s.up = q.up
  BY DEF Visible

(* What an abortion releases is of its upload. *)
LEMMA ReleaseEffect ==
  ASSUME NEW q, Release(q)
  PROVE  /\ open' \subseteq open /\ open \ {[up |-> q.up, place |-> q.place]} \subseteq open'
         /\ staged' \subseteq staged /\ cleaning' = cleaning
         /\ kind # "azure" => \A s : s.up # q.up => (s \in staged' <=> s \in staged)
  BY VisibleIsOwn DEF Release

(* The end of a copy leaves what was copied, and no part of another upload goes. *)
LEMMA EndCopyEffect ==
  ASSUME NEW r, NEW q, EndCopy(r, q)
  PROVE  /\ q.pc = "copy" /\ q.part = NumParts /\ Goto(r, q, "delete")
         /\ UNCHANGED <<kind, table, open, cleaning, objects,
                        created, untold, acked, lingering, rerouted, torn>>
         /\ staged' \subseteq staged /\ orphaned \subseteq orphaned'
         /\ kind # "azure" => \A s : s.up # q.up => (s \in staged' <=> s \in staged)
<1>1. Visible(q) \subseteq staged
  BY DEF Visible
<1>2. CASE RemoveParts(r, q)
  BY <1>1, <1>2, VisibleIsOwn DEF RemoveParts, history
<1>3. CASE PartsStay(r, q)
  BY <1>1, <1>3, VisibleIsOwn DEF PartsStay
<1>4. QED
  BY <1>2, <1>3 DEF EndCopy

(* Every step of a call works on its upload and its place only. *)
LEMMA StepIsOnward ==
  ASSUME TypeOK, FormInv, NEW r \in Requests, NEW q \in req[r], Step(r, q)
  PROVE  Onward(r, q)
<1>0. q \in Call /\ Formed(q) /\ q.up \in Uploads /\ q.place \in Places
  BY CallTyped
<1> USE DEF upstream, history
<1>1. CASE Record(r, q)
  BY <1>0, <1>1, EndTyped DEF Record, Onward, TypeOK
<1>2. CASE RecordFails(r, q)
  BY <1>0, <1>2, GotoEffect DEF RecordFails, Onward
<1>u. CASE RecordUnanswered(r, q)
  BY <1>0, <1>u, GotoEffect DEF RecordUnanswered, Onward, TypeOK
<1>3. CASE Undo(r, q)
  BY <1>0, <1>3, EndTyped, ReleaseEffect DEF Undo, Onward
<1>4. CASE UploadPart(r, q)
  BY <1>0, <1>4, EndTyped DEF UploadPart, Onward
<1>5. CASE CompleteMultipartUpload(r, q)
  BY <1>0, <1>5, GotoEffect, VisibleIsOwn DEF CompleteMultipartUpload, Onward
<1>6. CASE Truncate(r, q)
  BY <1>0, <1>6, GotoEffect DEF Truncate, Onward
<1>7. CASE CopyPart(r, q)
  <2>1. /\ UNCHANGED <<kind, table, open, staged, cleaning, created, untold, rerouted,
                       orphaned, lingering>>
        /\ q.pc = "copy"
    BY <1>7 DEF CopyPart
  <2>2. QED
    BY <1>0, <1>7, <2>1, CopyEffect DEF Onward
<1>8. CASE EndCopy(r, q)
  BY <1>0, <1>8, GotoEffect, EndCopyEffect DEF Onward
<1>9. CASE AbortMultipartUpload(r, q)
  BY <1>0, <1>9, GotoEffect, ReleaseEffect DEF AbortMultipartUpload, Onward
<1>10. CASE AbortRefused(r, q)
  BY <1>0, <1>10, GotoEffect, VisibleIsOwn DEF AbortRefused, Onward
<1>11. CASE DeleteMultipartUpload(r, q)
  BY <1>0, <1>11, EndTyped DEF DeleteMultipartUpload, Acknowledge, Onward, TypeOK
<1>12. CASE DeleteLost(r, q)
  BY <1>0, <1>12, EndTyped DEF DeleteLost, Acknowledge, Onward
<1>13. CASE Fail(r, q)
  BY <1>0, <1>13, EndTyped DEF Fail, Onward
<1>14. QED
  BY <1>1, <1>2, <1>u, <1>3, <1>4, <1>5, <1>6, <1>7, <1>8, <1>9, <1>10, <1>11, <1>12, <1>13
     DEF Step

(* A call begins in an empty slot, which was the slot of none. *)
LEMMA BeginEffect ==
  ASSUME TypeOK, NEW r \in Requests, req[r] = {}, NEW pc \in Ops, NEW u \in Uploads,
         NEW t \in Targets, NEW key \in Keys, NEW n \in 0 .. NumParts,
         Begin(r, pc, u, Place(t, key), n)
  PROVE  /\ \A x \in Requests \ {r} : req'[x] = req[x]
         /\ \E y \in Call : /\ req'[r] = {y} /\ y.pc = pc /\ y.op = pc /\ y.up = u
                            /\ y.place = Place(t, key) /\ y.part = n
<1>1. [pc |-> pc, op |-> pc, up |-> u, place |-> Place(t, key), part |-> n] \in Call
  BY DEF Call, Steps, Place, Places
<1>2. QED
  BY <1>1, BeginTyped

(* The place of a call to an upload that has a record. *)
LEMMA GetEffect ==
  ASSUME TypeOK, TraceInv, NEW r \in Requests, NEW op \in {"part", "complete", "abort"},
         NEW u \in Uploads, NEW key \in Keys, NEW t \in Targets, NEW n \in 0 .. NumParts,
         GetMultipartUpload(r, op, u, key, t, n)
  PROVE  /\ created[u] # {} /\ table[u] # {} /\ u \notin untold
         /\ rerouted \subseteq rerouted'
         /\ u \notin rerouted' => Place(t, key) \in created[u]
<1>1. PICK p \in created[u] : p.key = key
  BY DEF GetMultipartUpload, TraceInv, TableTraced
<1>2. p \in Places
  BY DEF TypeOK
<1>3. u \notin rerouted' => p.target = t
  BY DEF GetMultipartUpload
<1>4. p.target = t => p = Place(t, key)
  BY <1>1, <1>2 DEF Places, Place
<1>5. QED
  BY <1>1, <1>3, <1>4 DEF GetMultipartUpload

(* Whatever there is of an upload is where it was created, unless it was rerouted. *)
THEOREM TraceCorrect == Spec => []TraceInv
<1>1. Init => TraceInv
  BY DEF Init, TraceInv, Once, TableTraced, OpenTraced, StagedTraced, CallsTraced
<1>2. TypeOK /\ FormInv /\ TraceInv /\ [Next]_vars => TraceInv'
  <2> SUFFICES ASSUME TypeOK, FormInv, TraceInv, [Next]_vars PROVE TraceInv'
    OBVIOUS
  <2>0. Once /\ TableTraced /\ OpenTraced /\ StagedTraced /\ CallsTraced
    BY DEF TraceInv
  <2>1. ASSUME NEW r \in Requests, NEW u \in Uploads, NEW key \in Keys, NEW t \in Targets,
               CreateMultipartUpload(r, u, key, t)
        PROVE  TraceInv'
    <3> DEFINE p == Place(t, key)
    <3>1. /\ created[u] = {} /\ created'[u] = {p} /\ req[r] = {}
          /\ \A x \in Uploads \ {u} : created'[x] = created[x]
          /\ UNCHANGED <<kind, table, staged, rerouted, untold>>
      BY <2>1 DEF CreateMultipartUpload, TypeOK
    <3>2. /\ \A x \in Requests \ {r} : req'[x] = req[x]
          /\ \E y \in Call : req'[r] = {y} /\ y.pc = "insert" /\ y.up = u /\ y.place = p
      BY <2>1, <3>1, BeginEffect, NumPartsAssumption DEF CreateMultipartUpload, Ops
    <3>3. /\ open' \subseteq open \cup {[up |-> u, place |-> p]} /\ open \subseteq open'
          /\ kind = "s3" => [up |-> u, place |-> p] \in open'
          /\ kind # "s3" => open' = open
      BY <2>1 DEF CreateMultipartUpload
    <3>4. Once' /\ TableTraced'
      BY <2>0, <3>1 DEF Once, TableTraced
    <3>5. OpenTraced' /\ StagedTraced'
      <4>1. \A x : Where(x)' = Where(x)
        BY <3>1 DEF Where
      <4>2. \A o \in open : o.up \in Uploads /\ o.up # u
        BY <2>0, <3>1 DEF OpenTraced, TypeOK
      <4>3. \A s \in staged : s.up \in Uploads /\ s.up # u
        BY <2>0, <3>1 DEF StagedTraced, TypeOK, StagedParts
      <4>4. OpenTraced'
        BY <2>0, <3>1, <3>3, <4>2 DEF OpenTraced
      <4>5. StagedTraced'
        BY <2>0, <3>1, <4>1, <4>3 DEF StagedTraced
      <4>6. QED
        BY <4>4, <4>5
    <3>6. table[u] = {} /\ \A x \in Requests : \A y \in req[x] : y.up # u
      BY <2>0, <3>1 DEF TableTraced, CallsTraced, CallTraced
    <3>7. ASSUME NEW x \in Requests, NEW q \in req'[x] 
          PROVE  CallTraced(q)' /\ (q.pc \in {"insert", "undo"} => Alone(x, q)')
      <4>1. CASE x = r
        <5>1. q.up = u /\ q.place = p
          BY <3>2, <3>7, <4>1
        <5>2. CallTraced(q)'
          BY <3>1, <5>1 DEF CallTraced
        <5>3. Alone(x, q)'
          BY <3>1, <3>2, <3>3, <3>6, <4>1, <5>1 DEF Alone
        <5>4. QED
          BY <5>2, <5>3
      <4>2. CASE x # r
        <5>1. q \in req[x] /\ q.up # u /\ q.up \in Uploads
          BY <3>2, <3>6, <3>7, <4>2, CallTyped
        <5>2. CallTraced(q) /\ (q.pc \in {"insert", "undo"} => Alone(x, q))
          BY <2>0, <5>1 DEF CallsTraced
        <5>3. CallTraced(q)'
          BY <3>1, <5>1, <5>2 DEF CallTraced
        <5>4. Alone(x, q) => Alone(x, q)'
          BY <3>1, <3>2, <3>3, <5>1 DEF Alone
        <5>5. QED
          BY <5>2, <5>3, <5>4
      <4>3. QED
        BY <4>1, <4>2
    <3>8. QED
      BY <3>4, <3>5, <3>7 DEF TraceInv, CallsTraced
  <2>2. ASSUME NEW r \in Requests, NEW op \in {"part", "complete", "abort"}, NEW u \in Uploads,
               NEW key \in Keys, NEW t \in Targets, NEW n \in 0 .. NumParts,
               GetMultipartUpload(r, op, u, key, t, n)
        PROVE  TraceInv'
    <3>1. /\ UNCHANGED <<kind, table, open, staged, created, untold>> /\ req[r] = {}
          /\ created[u] # {} /\ table[u] # {} /\ u \notin untold /\ rerouted \subseteq rerouted'
          /\ u \notin rerouted' => Place(t, key) \in created[u]
      BY <2>2, GetEffect DEF GetMultipartUpload, upstream
    <3>2. /\ \A x \in Requests \ {r} : req'[x] = req[x]
          /\ \E y \in Call : req'[r] = {y} /\ y.pc = op /\ y.up = u /\ y.place = Place(t, key)
      BY <2>2, <3>1, BeginEffect DEF GetMultipartUpload, Ops
    <3>3. Once' /\ TableTraced' /\ OpenTraced' /\ StagedTraced'
      <4>1. \A x : Where(x)' = Where(x)
        BY <3>1 DEF Where
      <4>2. QED
        BY <2>0, <3>1, <4>1 DEF Once, TableTraced, OpenTraced, StagedTraced
    <3>4. ASSUME NEW x \in Requests, NEW q \in req'[x] 
          PROVE  CallTraced(q)' /\ (q.pc \in {"insert", "undo"} => Alone(x, q)')
      <4>1. CASE x = r
        BY <3>1, <3>2, <3>4, <4>1 DEF CallTraced
      <4>2. CASE x # r
        <5>1. q \in req[x]
          BY <3>2, <3>4, <4>2
        <5>2. CallTraced(q) /\ (q.pc \in {"insert", "undo"} => Alone(x, q))
          BY <2>0, <5>1 DEF CallsTraced
        <5>3. CallTraced(q)'
          BY <3>1, <5>2 DEF CallTraced
        <5>4. Alone(x, q) => Alone(x, q)'
          BY <3>1, <3>2 DEF Alone
        <5>5. QED
          BY <5>2, <5>3, <5>4
      <4>3. QED
        BY <4>1, <4>2
    <3>5. QED
      BY <3>3, <3>4 DEF TraceInv, CallsTraced
  <2>3. ASSUME NEW r \in Requests, NEW q \in req[r], Step(r, q) PROVE TraceInv'
    <3>0. Onward(r, q) /\ q \in Call /\ req[r] = {q} /\ q.up \in Uploads /\ q.place \in Places
      BY <2>3, StepIsOnward, CallTyped
    <3>1. CallTraced(q) /\ (q.pc \in {"insert", "undo"} => Alone(r, q))
      BY <2>0 DEF CallsTraced
    <3>2. Once'
      BY <2>0, <3>0 DEF Onward, Once
    <3>3. TableTraced'
      <4>1. q.pc = "insert" => q.place \in created[q.up]
        BY <3>1 DEF Alone
      <4>2. QED
        BY <2>0, <3>0, <4>1 DEF Onward, TableTraced
    <3>4. OpenTraced'
      BY <2>0, <3>0 DEF Onward, OpenTraced
    <3>5. StagedTraced'
      <4>1. \A p : Where(p)' = Where(p)
        BY <3>0 DEF Onward, Where
      <4>2. QED
        BY <2>0, <3>0, <3>1, <4>1 DEF Onward, StagedTraced, CallTraced
    <3>6. ASSUME NEW x \in Requests, NEW y \in req'[x]
          PROVE  CallTraced(y)' /\ (y.pc \in {"insert", "undo"} => Alone(x, y)')
      <4>1. CASE x = r
        <5>1. y.up = q.up /\ y.place = q.place /\ y.pc # "insert"
          BY <3>0, <3>6, <4>1 DEF Onward
        <5>2. CallTraced(y)'
          BY <3>0, <3>1, <5>1 DEF Onward, CallTraced
        <5>3. ASSUME y.pc = "undo" PROVE Alone(x, y)'
          <6>1. /\ Alone(r, q) /\ open' = open
                /\ table' = table \/ q.up \in untold'
            BY <3>0, <3>1, <3>6, <4>1, <5>3 DEF Onward
          <6>2. QED
            BY <3>0, <4>1, <5>1, <6>1 DEF Onward, Alone
        <5>4. QED
          BY <5>1, <5>2, <5>3
      <4>2. CASE x # r
        <5>1. y \in req[x] /\ y.up \in Uploads
          BY <3>0, <3>6, <4>2, CallTyped DEF Onward
        <5>2. CallTraced(y) /\ (y.pc \in {"insert", "undo"} => Alone(x, y))
          BY <2>0, <5>1 DEF CallsTraced
        <5>3. CallTraced(y)'
          BY <3>0, <5>2 DEF Onward, CallTraced
        <5>4. ASSUME Alone(x, y) PROVE Alone(x, y)'
          <6>1. y.up # q.up
            BY <4>2, <5>4 DEF Alone
          <6>2. table'[y.up] = table[y.up]
            BY <3>0, <5>1, <6>1 DEF Onward
          <6>3. kind = "s3" => [up |-> y.up, place |-> y.place] \in open'
            BY <3>0, <5>4, <6>1 DEF Onward, Alone
          <6>4. \A z \in Requests : \A w \in req'[z] : w.up = y.up => z = x
            BY <3>0, <5>4, <6>1 DEF Onward, Alone
          <6>5. QED
            BY <3>0, <5>4, <6>2, <6>3, <6>4 DEF Onward, Alone
        <5>5. QED
          BY <5>2, <5>3, <5>4
      <4>3. QED
        BY <4>1, <4>2
    <3>7. QED
      BY <3>2, <3>3, <3>4, <3>5, <3>6 DEF TraceInv, CallsTraced
  \* Only parts go.
  <2>b. ASSUME UNCHANGED <<kind, table, open, req, created, untold, rerouted>>, staged' \subseteq staged
        PROVE  TraceInv'
    <3>1. \A x : Where(x)' = Where(x)
      BY <2>b DEF Where
    <3>2. Once' /\ TableTraced' /\ OpenTraced' /\ StagedTraced'
      BY <2>0, <2>b, <3>1 DEF Once, TableTraced, OpenTraced, StagedTraced
    <3>3. CallsTraced'
      BY <2>0, <2>b DEF CallsTraced, CallTraced, Alone
    <3>4. QED
      BY <3>2, <3>3 DEF TraceInv
  <2>4. CASE Background
    BY <2>4, <2>b DEF Background, Refused, Clean, CleanLost, vars, upstream, history
  <2>5. CASE UNCHANGED vars
    BY <2>5, <2>b DEF vars, upstream, history
  <2>6. QED
    BY <2>1, <2>2, <2>3, <2>4, <2>5, NumPartsAssumption DEF Next, Arrive, Proceed, Step, EndCopy,
       Parts
<1>3. QED
  BY <1>1, <1>2, FormCorrect, PTL DEF Spec
-----------------------------------------------------------------------------
(***************************************************************************)
(* The inductive strengthening of UploadIsTracked, upload by upload: a call *)
(* that is about to delete the record has left nothing at the provider.    *)
(***************************************************************************)
Tracked(u) ==
  u \notin orphaned \cup rerouted =>
    /\ kind # "azure" /\ Held(u) => table[u] # {} \/ Calls(u, {"insert", "undo"}) # {}
    /\ kind = "s3" /\ table[u] # {} =>
         Held(u) \/ u \in lingering \/ Calls(u, {"delete"}) # {}
    /\ kind # "azure" /\ Calls(u, {"delete"}) # {} => ~Held(u)

\* Only GCS has parts that are being deleted.
CleaningOnGCS == cleaning # {} => kind = "gcs"

\* Only the local backend copies parts.
CopyingLocally == \A r \in Requests : \A q \in req[r] : q.pc = "copy" => kind = "local"

\* The record of an upload nobody was told of is left.
UntoldLingers == untold \subseteq lingering

TrackInv == CleaningOnGCS /\ CopyingLocally /\ UntoldLingers /\ \A u \in Uploads : Tracked(u)

(* A call sees all parts of its upload, and knows of all that is open of it. *)
LEMMA AllVisible ==
  ASSUME TypeOK, TraceInv, NEW r \in Requests, NEW q \in req[r], kind # "azure",
         q.up \notin rerouted
  PROVE  /\ \A s \in staged : s.up = q.up => s \in Visible(q)
         /\ \A o \in open : o.up = q.up => o = [up |-> q.up, place |-> q.place]
<1>1. q.place \in created[q.up] /\ q.up \in Uploads
  BY DEF TraceInv, CallsTraced, CallTraced, TypeOK
<1>2. \A p \in created[q.up] : p = q.place
  BY <1>1 DEF TraceInv, Once
<1>3. \A s \in staged : s.up = q.up => s.at = Where(q.place)
  BY <1>1, <1>2 DEF TraceInv, StagedTraced
<1>4. \A s \in staged : s.up = q.up => s \in Visible(q)
  BY <1>3 DEF Visible
<1>5. \A o \in open : o.up = q.up => o.place = q.place
  BY <1>1, <1>2 DEF TraceInv, OpenTraced
<1>6. \A o \in open : o = [up |-> o.up, place |-> o.place]
  BY DEF TypeOK
<1>7. QED
  BY <1>4, <1>5, <1>6

(* So nothing is held of it after what it sees and knows of is gone. *)
LEMMA NothingHeld ==
  ASSUME TypeOK, TraceInv, NEW r \in Requests, NEW q \in req[r], kind # "azure",
         q.up \notin rerouted,
         open' = open \ {[up |-> q.up, place |-> q.place]},
         \/ staged' = staged \ Visible(q)
         \/ staged' = staged /\ cleaning' = cleaning \cup Visible(q)
  PROVE  ~Held(q.up)'
  BY AllVisible DEF Held

(* The steps of a call leave all other uploads as they are. *)
LEMMA OthersTracked ==
  ASSUME TypeOK, TypeOK', NEW r \in Requests, NEW q \in req[r], req[r] = {q},
         Onward(r, q), NEW u \in Uploads \ {q.up}, Tracked(u)
  PROVE  Tracked(u)'
<1>1. SUFFICES ASSUME kind # "azure" PROVE Tracked(u)'
  BY DEF Tracked, Onward
<1>2. \A x \in Requests : \A pcs : x \in Calls(u, pcs)' <=> x \in Calls(u, pcs)
  BY DEF Onward, Calls
<1>3. \A pcs : Calls(u, pcs)' = Calls(u, pcs)
  BY <1>2 DEF Calls
<1>4. Held(u)' <=> Held(u)
  <2>1. (\E o \in open' : o.up = u) <=> (\E o \in open : o.up = u)
    BY DEF Onward
  <2>2. (\E s \in staged' \ cleaning' : s.up = u) <=> (\E s \in staged \ cleaning : s.up = u)
    BY <1>1 DEF Onward, TypeOK
  <2>3. QED
    BY <2>1, <2>2 DEF Held
<1>5. /\ table'[u] = table[u] /\ kind' = kind /\ rerouted' = rerouted
      /\ orphaned \subseteq orphaned' /\ lingering \subseteq lingering'
  BY DEF Onward
<1>6. QED
  BY <1>3, <1>4, <1>5 DEF Tracked

(***************************************************************************)
(* What the provider holds of an upload has a record, and on S3 a record    *)
(* has an upload, but for the named causes.                                *)
(***************************************************************************)
THEOREM TrackCorrect == Spec => []TrackInv
<1>1. Init => TrackInv
  BY DEF Init, TrackInv, Tracked, CleaningOnGCS, CopyingLocally, UntoldLingers, Held, Calls
<1>2. TypeOK /\ TypeOK' /\ FormInv /\ TraceInv /\ TrackInv /\ [Next]_vars => TrackInv'
  <2> SUFFICES ASSUME TypeOK, TypeOK', FormInv, TraceInv, TrackInv, [Next]_vars PROVE TrackInv'
    OBVIOUS
  <2>0. CleaningOnGCS /\ CopyingLocally /\ UntoldLingers /\ \A u \in Uploads : Tracked(u)
    BY DEF TrackInv
  <2>1. ASSUME NEW r \in Requests, NEW u \in Uploads, NEW key \in Keys, NEW t \in Targets,
               CreateMultipartUpload(r, u, key, t)
        PROVE  TrackInv'
    <3>1. /\ created[u] = {} /\ req[r] = {}
          /\ UNCHANGED <<kind, table, staged, cleaning, untold, orphaned, lingering, rerouted>>
          /\ open' \subseteq open \cup {[up |-> u, place |-> Place(t, key)]} /\ open \subseteq open'
      BY <2>1 DEF CreateMultipartUpload
    <3>2. /\ \A x \in Requests \ {r} : req'[x] = req[x]
          /\ \E y \in Call : req'[r] = {y} /\ y.pc = "insert" /\ y.up = u
      BY <2>1, <3>1, BeginEffect, NumPartsAssumption DEF CreateMultipartUpload, Ops
    <3>3. table[u] = {} /\ \A x \in Requests : \A y \in req[x] : y.up # u
      BY <3>1 DEF TraceInv, TableTraced, CallsTraced, CallTraced
    <3>4. r \in Calls(u, {"insert", "undo"})' /\ Calls(u, {"delete"})' = {}
      BY <3>2, <3>3 DEF Calls
    <3>5. Tracked(u)'
      BY <3>1, <3>3, <3>4 DEF Tracked
    <3>6. ASSUME NEW x \in Uploads \ {u} PROVE Tracked(x)'
      <4>1. \A pcs : Calls(x, pcs)' = Calls(x, pcs)
        BY <3>1, <3>2 DEF Calls
      <4>2. Held(x)' <=> Held(x)
        BY <3>1 DEF Held
      <4>3. QED
        BY <2>0, <3>1, <4>1, <4>2 DEF Tracked
    <3>7. QED
      BY <2>0, <3>1, <3>2, <3>5, <3>6 DEF TrackInv, CleaningOnGCS, CopyingLocally, UntoldLingers
  <2>2. ASSUME NEW r \in Requests, NEW op \in {"part", "complete", "abort"}, NEW u \in Uploads,
               NEW key \in Keys, NEW t \in Targets, NEW n \in 0 .. NumParts,
               GetMultipartUpload(r, op, u, key, t, n)
        PROVE  TrackInv'
    <3>1. /\ UNCHANGED <<kind, table, open, staged, cleaning, untold, orphaned, lingering>>
          /\ req[r] = {} /\ rerouted \subseteq rerouted'
      BY <2>2 DEF GetMultipartUpload, upstream
    <3>2. /\ \A x \in Requests \ {r} : req'[x] = req[x]
          /\ \E y \in Call : req'[r] = {y} /\ y.pc = op
      BY <2>2, <3>1, BeginEffect DEF GetMultipartUpload, Ops
    <3>3. ASSUME NEW x \in Uploads PROVE Tracked(x)'
      <4>1. /\ Calls(x, {"insert", "undo"})' = Calls(x, {"insert", "undo"})
            /\ Calls(x, {"delete"})' = Calls(x, {"delete"})
        BY <3>1, <3>2 DEF Calls
      <4>2. Held(x)' <=> Held(x)
        BY <3>1 DEF Held
      <4>3. QED
        BY <2>0, <3>1, <4>1, <4>2 DEF Tracked
    <3>4. QED
      BY <2>0, <3>1, <3>2, <3>3 DEF TrackInv, CleaningOnGCS, CopyingLocally, UntoldLingers
  <2>3. ASSUME NEW r \in Requests, NEW q \in req[r], Step(r, q) PROVE TrackInv'
    <3>0. Onward(r, q) /\ q \in Call /\ req[r] = {q} /\ q.up \in Uploads /\ kind' = kind
      BY <2>3, StepIsOnward, CallTyped DEF Onward
    <3> DEFINE u == q.up
               Ins == {"insert", "undo"}
               Del == {"delete"}
    <3>t. Tracked(u)
      BY <2>0, <3>0
    <3>c. CleaningOnGCS'
      <4>1. CASE CompleteMultipartUpload(r, q)
        BY <2>0, <4>1 DEF CompleteMultipartUpload, CleaningOnGCS
      <4>2. CASE UNCHANGED <<kind, cleaning>>
        BY <2>0, <4>2 DEF CleaningOnGCS
      <4>3. QED
        BY <2>3, <4>1, <4>2 DEF Step, Record, RecordFails, Undo, Release, UploadPart, Truncate,
             CopyPart, EndCopy, RemoveParts, PartsStay, AbortMultipartUpload, AbortRefused,
             RecordUnanswered, DeleteMultipartUpload, DeleteLost, Fail, upstream
    <3>a. ASSUME q.pc \in Ins
          PROVE  /\ table[u] = {} \/ u \in lingering
                 /\ Calls(u, Del) = {}
                 /\ kind = "s3" => \E o \in open : o.up = u
      <4>1. Alone(r, q)
        BY <3>a DEF TraceInv, CallsTraced
      <4>2. q.pc \notin Del
        BY <3>a
      <4>3. QED
        BY <2>0, <3>0, <4>1, <4>2 DEF Alone, Calls, UntoldLingers
    \* What a step of the call does to what is counted of it.
    <3>k. /\ \A y \in req'[r] : y.pc \in Ins => Calls(u, Ins)' # {}
          /\ \A y \in req'[r] : y.pc \in Del => Calls(u, Del)' # {}
          /\ q.pc \in Del => Calls(u, Del) # {}
          /\ (\A y \in req'[r] : y.pc \notin Del) => Calls(u, Del)' \subseteq Calls(u, Del)
          /\ q.pc \notin Ins => Calls(u, Ins) \subseteq Calls(u, Ins)'
          /\ q.pc \notin Del => Calls(u, Del) \subseteq Calls(u, Del)'
      BY <3>0 DEF Calls, Onward
    <3>1. Tracked(u)'
      <4>0. SUFFICES ASSUME kind # "azure", u \notin orphaned', u \notin rerouted'
                     PROVE  Tracked(u)'
        BY <3>0 DEF Tracked
      <4>u. u \notin orphaned \cup rerouted
        BY <3>0, <4>0 DEF Onward
      \* Nothing is held any more, and the record is still to be deleted.
      <4>d. ASSUME open' = open \ {[up |-> q.up, place |-> q.place]},
                   \/ staged' = staged \ Visible(q)
                   \/ staged' = staged /\ cleaning' = cleaning \cup Visible(q),
                   Goto(r, q, "delete")
            PROVE  Tracked(u)'
        <5>1. ~Held(u)'
          BY <4>0, <4>d, <4>u, NothingHeld
        <5>2. Calls(u, Del)' # {}
          BY <3>k, <4>d, GotoEffect
        <5>3. QED
          BY <5>1, <5>2 DEF Tracked
      <4>1. CASE Record(r, q)
        <5>1. /\ table'[u] # {} /\ UNCHANGED <<open, staged, cleaning>>
              /\ q.pc \in Ins /\ req'[r] = {}
          BY <3>0, <4>1, EndTyped DEF Record, upstream, TypeOK
        <5>2. Calls(u, Del)' = {} /\ (kind = "s3" => Held(u)')
          BY <3>a, <3>k, <5>1 DEF Held
        <5>3. QED
          BY <3>0, <5>1, <5>2 DEF Tracked
      <4>2. CASE RecordFails(r, q) \/ RecordUnanswered(r, q)
        <5>1. q.pc \in Ins /\ \E y \in req'[r] : y.pc = "undo" /\ req'[r] = {y}
          BY <4>2, GotoEffect DEF RecordFails, RecordUnanswered
        <5>2. table'[u] = {} \/ u \in lingering'
          BY <3>a, <4>2 DEF RecordFails, RecordUnanswered, history
        <5>3. Calls(u, Ins)' # {} /\ Calls(u, Del)' = {}
          BY <3>a, <3>k, <5>1
        <5>4. QED
          BY <5>2, <5>3 DEF Tracked
      <4>3. CASE Undo(r, q)
        <5>1. /\ q.pc \in Ins /\ table' = table /\ lingering' = lingering /\ req'[r] = {}
              /\ open' = open \ {[up |-> q.up, place |-> q.place]}
              /\ staged' = staged \ Visible(q)
          BY <4>0, <4>3, EndTyped DEF Undo, Release, history
        <5>2. ~Held(u)' /\ Calls(u, Del)' = {} /\ (table'[u] = {} \/ u \in lingering')
          BY <3>a, <3>k, <4>0, <4>u, <5>1, NothingHeld
        <5>3. QED
          BY <5>2 DEF Tracked
      <4>4. CASE UploadPart(r, q)
        <5>1. /\ table[u] # {} /\ Calls(u, Del) = {} /\ table' = table /\ open' = open
              /\ KnownUpstream(q) /\ req'[r] = {}
          BY <4>0, <4>4, EndTyped DEF UploadPart
        <5>2. kind = "s3" => Held(u)'
          BY <5>1 DEF KnownUpstream, Held
        <5>3. Calls(u, Del)' = {}
          BY <3>k, <5>1
        <5>4. QED
          BY <3>0, <5>1, <5>2, <5>3 DEF Tracked
      <4>5. CASE CompleteMultipartUpload(r, q)
        BY <4>0, <4>5, <4>d DEF CompleteMultipartUpload
      \* Nothing changes for the upload, nor for what is counted of it.
      <4>n. ASSUME UNCHANGED <<table, open, staged, cleaning, lingering>>,
                   q.pc \notin Ins \cup Del, \A y \in req'[r] : y.pc \notin Del
            PROVE  Tracked(u)'
        <5>1. Held(u)' <=> Held(u)
          BY <4>n DEF Held
        <5>2. Calls(u, Ins) \subseteq Calls(u, Ins)' /\ Calls(u, Del)' = Calls(u, Del)
          BY <3>k, <4>n
        <5>3. QED
          BY <3>0, <3>t, <4>n, <4>u, <5>1, <5>2 DEF Tracked
      <4>6. CASE Truncate(r, q)
        BY <4>6, <4>n, GotoEffect DEF Truncate
      <4>7. CASE CopyPart(r, q)
        <5>1. UNCHANGED <<table, open, staged, cleaning, lingering>> /\ q.pc = "copy"
          BY <4>7 DEF CopyPart, history
        <5>2. \A y \in req'[r] : y.pc = "copy"
          BY <4>7, CopyEffect
        <5>3. QED
          BY <4>n, <5>1, <5>2
      <4>8. CASE RemoveParts(r, q)
        <5>1. kind = "local" /\ Goto(r, q, "delete") /\ open' = open /\ staged' = staged \ Visible(q)
          BY <2>0, <4>8 DEF RemoveParts, CopyingLocally
        <5>2. open' = open \ {[up |-> q.up, place |-> q.place]}
          BY <5>1 DEF TraceInv, OpenTraced
        <5>3. QED
          BY <4>d, <5>1, <5>2
      <4>9. CASE AbortMultipartUpload(r, q)
        BY <4>0, <4>9, <4>d DEF AbortMultipartUpload, Release
      <4>10. CASE AbortRefused(r, q)
        BY <4>0, <4>10 DEF AbortRefused
      <4>s. CASE PartsStay(r, q)
        BY <4>0, <4>s DEF PartsStay
      \* A call that was about to delete the record.
      <4>e. ASSUME q.pc \in Del, UNCHANGED <<open, staged, cleaning>>,
                   table'[u] = {} \/ u \in lingering'
            PROVE  Tracked(u)'
        <5>1. ~Held(u)
          BY <3>k, <3>t, <4>0, <4>e, <4>u DEF Tracked
        <5>2. ~Held(u)'
          BY <4>e, <5>1 DEF Held
        <5>3. QED
          BY <4>e, <5>2 DEF Tracked
      <4>11. CASE DeleteMultipartUpload(r, q)
        BY <3>0, <4>11, <4>e DEF DeleteMultipartUpload, upstream, TypeOK
      <4>12. CASE DeleteLost(r, q)
        BY <4>12, <4>e DEF DeleteLost, upstream
      <4>13. CASE Fail(r, q)
        <5>1. q.pc \notin Ins /\ req'[r] = {} /\ UNCHANGED <<table, open, staged, cleaning>>
          BY <4>0, <4>13, EndTyped DEF Fail, upstream
        <5>2. CASE q.pc \in Del
          BY <4>13, <4>e, <5>1, <5>2 DEF Fail
        <5>3. CASE q.pc \notin Del
          BY <4>13, <4>n, <5>1, <5>3 DEF Fail
        <5>4. QED
          BY <5>2, <5>3
      <4>14. QED
        BY <2>3, <4>1, <4>2, <4>3, <4>4, <4>5, <4>6, <4>7, <4>8, <4>s, <4>9, <4>10, <4>11, <4>12,
           <4>13
           DEF Step, EndCopy
    <3>2. QED
      <4>1. CopyingLocally'
        BY <2>0, <3>0 DEF CopyingLocally, Onward
      <4>2. UntoldLingers'
        <5>1. CASE RecordUnanswered(r, q)
          BY <2>0, <5>1 DEF RecordUnanswered, UntoldLingers
        <5>2. CASE UNCHANGED untold
          BY <2>0, <3>0, <5>2 DEF UntoldLingers, Onward
        <5>3. QED
          BY <2>3, <5>1, <5>2, EndCopyEffect DEF Step, Record, RecordFails, Undo, UploadPart,
             CompleteMultipartUpload, Truncate, CopyPart, AbortMultipartUpload, AbortRefused,
             DeleteMultipartUpload, DeleteLost, Fail, history
      <4>3. QED
        BY <2>0, <3>0, <3>1, <3>c, <4>1, <4>2, OthersTracked DEF TrackInv
  <2>4. CASE Background
    <3>1. UNCHANGED <<kind, table, open, req, untold, rerouted, lingering>> /\ cleaning' \subseteq cleaning
      BY <2>4 DEF Background, Refused, Clean, CleanLost, vars, upstream, history
    <3>2. ASSUME NEW u \in Uploads PROVE Tracked(u)'
      <4>1. /\ orphaned \subseteq orphaned'
            /\ u \notin orphaned' =>
                 \A s : s.up = u => (s \in staged' \ cleaning' <=> s \in staged \ cleaning)
        BY <2>4 DEF Background, Refused, Clean, CleanLost, vars, upstream, history
      <4>2. u \notin orphaned' => (Held(u)' <=> Held(u))
        BY <3>1, <4>1 DEF Held
      <4>3. \A pcs : Calls(u, pcs)' = Calls(u, pcs)
        BY <3>1 DEF Calls
      <4>4. QED
        BY <2>0, <3>1, <4>1, <4>2, <4>3 DEF Tracked
    <3>3. QED
      BY <2>0, <3>1, <3>2 DEF TrackInv, CleaningOnGCS, CopyingLocally, UntoldLingers
  <2>5. CASE UNCHANGED vars
    BY <2>0, <2>5 DEF vars, upstream, history, TrackInv, CleaningOnGCS, CopyingLocally, UntoldLingers,
       Tracked, Held, Calls
  <2>6. QED
    BY <2>1, <2>2, <2>3, <2>4, <2>5, NumPartsAssumption DEF Next, Arrive, Proceed, Step, EndCopy,
       Parts
<1>3. QED
  BY <1>1, <1>2, TypeCorrect, FormCorrect, TraceCorrect, PTL DEF Spec

(* The property the run checks. *)
COROLLARY UploadIsTrackedHolds == Spec => []UploadIsTracked
<1>1. TrackInv => UploadIsTracked
  BY DEF TrackInv, Tracked, UploadIsTracked
<1>2. QED
  BY <1>1, TrackCorrect, PTL
-----------------------------------------------------------------------------
(***************************************************************************)
(* What is in the objects.  A copy that is alone at its place and was not  *)
(* spoilt has written the parts it has passed and none beyond.             *)
(***************************************************************************)
CopiedSoFar(p) ==
  p \in torn \/
    \A r \in Requests : \A q \in req[r] : q.pc = "copy" /\ q.place = p =>
      /\ Copying(p) \subseteq {r}
      /\ \A n \in Parts : objects[p][n] = IF n <= q.part THEN {q.up} ELSE {}

CopyInv == \A p \in Places : CopiedSoFar(p)

\* The steps that are not of a call in progress.
Outside ==
  \/ \E r \in Requests, u \in Uploads, key \in Keys, t \in Targets : Arrive(r, u, key, t)
  \/ Background
  \/ UNCHANGED vars

(* They touch no object, and only begin calls. *)
LEMMA OutsideEffect ==
  ASSUME TypeOK, Outside
  PROVE  /\ UNCHANGED <<kind, objects, acked, torn>>
         /\ staged' \subseteq staged /\ rerouted \subseteq rerouted'
         /\ \A x \in Requests : \A y \in req'[x] : y \in req[x] \/ y.pc \in Ops
         /\ \A p : Copying(p)' = Copying(p)
         /\ \A u \in Uploads : created[u] # {} => created'[u] = created[u]
<1>1. ASSUME NEW r \in Requests, NEW u \in Uploads, NEW key \in Keys, NEW t \in Targets,
             Arrive(r, u, key, t)
      PROVE  /\ UNCHANGED <<kind, objects, acked, torn>>
             /\ staged' \subseteq staged /\ rerouted \subseteq rerouted'
             /\ req[r] = {}
             /\ \A x \in Requests \ {r} : req'[x] = req[x]
             /\ \A y \in req'[r] : y.pc \in Ops
             /\ \A x \in Uploads : created[x] # {} => created'[x] = created[x]
  <2>1. CASE CreateMultipartUpload(r, u, key, t)
    <3>1. req[r] = {} /\ Begin(r, "insert", u, Place(t, key), 0)
      BY <2>1 DEF CreateMultipartUpload
    <3>2. \A x \in Requests \ {r} : req'[x] = req[x]
      BY <3>1, BeginEffect, NumPartsAssumption DEF Ops
    <3>3. \A y \in req'[r] : y.pc \in Ops
      BY <3>1, BeginEffect, NumPartsAssumption DEF Ops
    <3>4. /\ UNCHANGED <<kind, objects, acked, torn, staged, rerouted>>
          /\ \A x \in Uploads : created[x] # {} => created'[x] = created[x]
      BY <2>1 DEF CreateMultipartUpload, TypeOK
    <3>5. QED
      BY <3>1, <3>2, <3>3, <3>4
  <2>2. ASSUME NEW op \in {"part", "complete", "abort"}, NEW n \in 0 .. NumParts,
               GetMultipartUpload(r, op, u, key, t, n)
        PROVE  /\ UNCHANGED <<kind, objects, acked, torn, staged, created>>
               /\ rerouted \subseteq rerouted'
               /\ req[r] = {}
               /\ \A x \in Requests \ {r} : req'[x] = req[x]
               /\ \A y \in req'[r] : y.pc \in Ops
    <3>1. /\ req[r] = {} /\ Begin(r, op, u, Place(t, key), n)
          /\ UNCHANGED <<kind, objects, acked, torn, staged, created>>
          /\ rerouted \subseteq rerouted'
      BY <2>2 DEF GetMultipartUpload, upstream
    <3>2. op \in Ops
      BY DEF Ops
    <3>3. QED
      BY <3>1, <3>2, BeginEffect
  <2>3. QED
    BY <1>1, <2>1, <2>2, NumPartsAssumption DEF Arrive, Parts
<1>2. CASE \E r \in Requests, u \in Uploads, key \in Keys, t \in Targets : Arrive(r, u, key, t)
  <2>1. PICK r \in Requests, u \in Uploads, key \in Keys, t \in Targets : Arrive(r, u, key, t)
    BY <1>2
  <2>2. \A p : Copying(p)' = Copying(p)
    <3>1. \A y \in req'[r] : y.pc # "copy"
      BY <1>1, <2>1 DEF Ops
    <3>2. req[r] = {} /\ \A x \in Requests \ {r} : req'[x] = req[x]
      BY <1>1, <2>1
    <3>3. QED
      BY <3>1, <3>2 DEF Copying
  <2>3. \A x \in Requests : \A y \in req'[x] : y \in req[x] \/ y.pc \in Ops
    BY <1>1, <2>1
  <2>4. QED
    BY <1>1, <2>1, <2>2, <2>3
<1>3. CASE Background \/ UNCHANGED vars
  <2>1. UNCHANGED <<kind, objects, acked, torn, rerouted, req, created>> /\ staged' \subseteq staged
    BY <1>3 DEF Background, Refused, Clean, CleanLost, vars, upstream, history
  <2>2. QED
    BY <2>1 DEF Copying
<1>4. QED
  BY <1>2, <1>3 DEF Outside

(* A step is one of a call, or outside all calls. *)
LEMMA NextCases ==
  ASSUME [Next]_vars
  PROVE  Outside \/ \E r \in Requests : \E q \in req[r] : Step(r, q)
  BY DEF Next, Proceed, Step, EndCopy, Outside

\* The steps of a call that are not about objects.
Aside(r, q) ==
  /\ q.pc # "copy"
  /\ objects' = objects /\ torn \subseteq torn'
  /\ \A y \in req'[r] : y.pc # "copy" /\ (y.pc = "delete" => y.op = "abort")
  /\ \/ acked' = acked
     \/ q.pc = "delete" /\ q.op = "complete" /\ acked' = acked \cup {q.up}
  /\ staged' \subseteq staged \/ UploadPart(r, q)

(* A step of a call writes an object, gives a copy up, or is aside. *)
LEMMA StepCases ==
  ASSUME TypeOK, FormInv, NEW r \in Requests, NEW q \in req[r], Step(r, q)
  PROVE  \/ CompleteMultipartUpload(r, q) \/ Truncate(r, q) \/ CopyPart(r, q) \/ EndCopy(r, q)
         \/ q.pc = "copy" /\ Fail(r, q)
         \/ Aside(r, q)
<1>0. q \in Call /\ Formed(q)
  BY CallTyped
<1>1. CASE Record(r, q) \/ DeleteMultipartUpload(r, q) \/ DeleteLost(r, q)
  <2>1. req'[r] = {}
    BY <1>1, EndTyped DEF Record, DeleteMultipartUpload, DeleteLost, Acknowledge
  <2>2. QED
    BY <1>1, <2>1 DEF Record, DeleteMultipartUpload, DeleteLost, Acknowledge, Aside, upstream, history
<1>2. CASE RecordFails(r, q) \/ RecordUnanswered(r, q)
  BY <1>2, GotoEffect DEF RecordFails, RecordUnanswered, Aside, upstream, history
<1>3. CASE Undo(r, q) \/ UploadPart(r, q)
  <2>1. req'[r] = {}
    BY <1>3, EndTyped DEF Undo, UploadPart
  <2>2. QED
    BY <1>3, <2>1, ReleaseEffect DEF Undo, UploadPart, Release, Aside, history
<1>4. CASE AbortMultipartUpload(r, q) \/ AbortRefused(r, q)
  <2>1. q.op = "abort" /\ Goto(r, q, "delete") /\ q.pc = "abort"
    BY <1>0, <1>4 DEF AbortMultipartUpload, AbortRefused, Formed
  <2>2. \A y \in req'[r] : y.pc = "delete" /\ y.op = "abort"
    BY <2>1, GotoEffect
  <2>3. UNCHANGED <<objects, torn, acked>> /\ staged' \subseteq staged
    BY <1>4 DEF AbortMultipartUpload, AbortRefused, Release, upstream, history
  <2>4. QED
    BY <2>1, <2>2, <2>3 DEF Aside
<1>5. CASE Fail(r, q) /\ q.pc # "copy"
  BY <1>5, EndTyped DEF Fail, Aside, upstream
<1>6. QED
  BY <1>1, <1>2, <1>3, <1>4, <1>5 DEF Step

(* What the step of a call writes to objects, and that only at its place. *)
LEMMA CopyObjects ==
  ASSUME TypeOK, NEW r \in Requests, NEW q \in req[r], CopyPart(r, q)
  PROVE  /\ \A p \in Places \ {q.place} : objects'[p] = objects[p]
         /\ \A n \in Parts : objects'[q.place][n] =
              IF n = q.part + 1 THEN {q.up} ELSE objects[q.place][n]
<1>1. q \in Call
  BY DEF TypeOK, Call
<1>2. objects' = [objects EXCEPT ![q.place][q.part + 1] = {q.up}]
  BY DEF CopyPart
<1>3. objects \in [Places -> [Parts -> SUBSET Uploads]]
  BY DEF TypeOK
<1>4. \A p \in Places : objects'[p] =
        IF p = q.place THEN [objects[p] EXCEPT ![q.part + 1] = {q.up}] ELSE objects[p]
  BY <1>1, <1>2, <1>3 DEF Call
<1>5. q.place \in Places
  BY <1>1 DEF Call
<1>6. objects'[q.place] = [objects[q.place] EXCEPT ![q.part + 1] = {q.up}]
  BY <1>4, <1>5
<1>7. \A n \in Parts : objects'[q.place][n] =
        IF n = q.part + 1 THEN {q.up} ELSE objects[q.place][n]
  BY <1>3, <1>5, <1>6
<1>8. QED
  BY <1>4, <1>7

(* A call leaves every other place as it is. *)
LEMMA StepElsewhere ==
  ASSUME TypeOK, FormInv, NEW r \in Requests, NEW q \in req[r], Step(r, q),
         NEW p \in Places \ {q.place}
  PROVE  /\ \A n \in Parts : objects'[p][n] = objects[p][n]
         /\ p \in torn' <=> p \in torn
         /\ Copying(p)' = Copying(p)
         /\ \A x \in Requests : \A y \in req'[x] : y.place = p => y \in req[x]
<1>0. /\ Onward(r, q) /\ req[r] = {q} /\ q.place \in Places
      /\ objects \in [Places -> [Parts -> SUBSET Uploads]]
  BY StepIsOnward, CallTyped DEF TypeOK
<1>1. \A x \in Requests : \A y \in req'[x] : y.place = p => y \in req[x]
  BY <1>0 DEF Onward
<1>2. \A x \in Requests : \A y \in req[x] : y.place = p => y \in req'[x]
  BY <1>0 DEF Onward
<1>3. Copying(p)' = Copying(p)
  BY <1>1, <1>2 DEF Copying
<1>4. \A n \in Parts : objects'[p][n] = objects[p][n]
  <2>1. CASE CopyPart(r, q)
    <3>1. \A x \in Places \ {q.place} : objects'[x] = objects[x]
      BY <2>1, CopyObjects
    <3>2. QED
      BY <3>1
  <2>2. CASE CompleteMultipartUpload(r, q) \/ Truncate(r, q)
    BY <1>0, <2>2 DEF CompleteMultipartUpload, Truncate
  <2>3. CASE UNCHANGED objects
    BY <2>3
  <2>4. QED
    BY <2>1, <2>2, <2>3, StepCases, EndCopyEffect DEF Fail, Aside, upstream
<1>5. p \in torn' <=> p \in torn
  <2>1. CASE UNCHANGED torn
    BY <2>1
  <2>2. CASE UploadPart(r, q) \/ CompleteMultipartUpload(r, q) \/ Truncate(r, q) \/ Fail(r, q)
    BY <2>2 DEF UploadPart, CompleteMultipartUpload, Truncate, Fail
  <2>3. QED
    BY <2>1, <2>2, EndCopyEffect DEF Step, Record, RecordFails, RecordUnanswered, Undo, CopyPart,
       AbortMultipartUpload, AbortRefused, DeleteMultipartUpload, DeleteLost, history
<1>6. QED
  BY <1>1, <1>3, <1>4, <1>5

(* A step aside changes nothing of the copies. *)
LEMMA AsideCopies ==
  ASSUME TypeOK, FormInv, NEW r \in Requests, NEW q \in req[r], Step(r, q), Aside(r, q)
  PROVE  /\ \A p : Copying(p)' = Copying(p)
         /\ \A x \in Requests : \A y \in req'[x] : y.pc = "copy" => y \in req[x]
<1>1. Onward(r, q) /\ req[r] = {q}
  BY StepIsOnward, CallTyped
<1>2. \A x \in Requests : \A y \in req'[x] : y.pc = "copy" => y \in req[x]
  BY <1>1 DEF Onward, Aside
<1>3. \A x \in Requests : \A y \in req[x] : y.pc = "copy" => y \in req'[x]
  BY <1>1 DEF Onward, Aside
<1>4. QED
  BY <1>2, <1>3 DEF Copying

(* A local copy that is alone at its place has written what it has passed, and no more. *)
THEOREM CopyCorrect == Spec => []CopyInv
<1>1. Init => CopyInv
  BY DEF Init, CopyInv, CopiedSoFar
<1>2. TypeOK /\ FormInv /\ TrackInv /\ CopyInv /\ [Next]_vars => CopyInv'
  <2> SUFFICES ASSUME TypeOK, FormInv, TrackInv, CopyInv, [Next]_vars, NEW p \in Places
               PROVE  CopiedSoFar(p)'
    BY DEF CopyInv
  <2>0. CopiedSoFar(p) /\ CopyingLocally
    BY DEF CopyInv, TrackInv
  <2>1. CASE Outside
    <3>1. /\ UNCHANGED <<objects, torn>> /\ Copying(p)' = Copying(p)
          /\ \A x \in Requests : \A y \in req'[x] : y.pc = "copy" => y \in req[x]
      BY <2>1, OutsideEffect DEF Ops
    <3>2. QED
      BY <2>0, <3>1 DEF CopiedSoFar
  <2>2. ASSUME NEW r \in Requests, NEW q \in req[r], Step(r, q) PROVE CopiedSoFar(p)'
    <3>0. Onward(r, q) /\ req[r] = {q} /\ Formed(q) /\ q \in Call /\ q.place \in Places
      BY <2>2, StepIsOnward, CallTyped
    <3>1. CASE p # q.place
      BY <2>0, <2>2, <3>1, StepElsewhere DEF CopiedSoFar
    <3>2. CASE p = q.place
      <4>1. CASE CompleteMultipartUpload(r, q)
        <5>1. /\ kind # "local" /\ torn \subseteq torn' /\ \A y \in req'[r] : y.pc = "delete"
          BY <4>1, GotoEffect DEF CompleteMultipartUpload
        <5>2. \A x \in Requests : \A y \in req'[x] : y.pc # "copy"
          BY <2>0, <3>0, <5>1 DEF CopyingLocally, Onward
        <5>3. QED
          BY <5>2 DEF CopiedSoFar
      <4>2. CASE Truncate(r, q)
        <5>1. CASE Copying(p) # {}
          BY <3>2, <4>2, <5>1 DEF Truncate, CopiedSoFar
        <5>2. CASE Copying(p) = {}
          <6>1. \A n \in Parts : objects'[p][n] = {}
            BY <3>0, <3>2, <4>2 DEF Truncate, TypeOK
          <6>2. \A y \in req'[r] : y.part = 0
            BY <3>0, <4>2, GotoEffect DEF Truncate, Formed
          <6>3. \A x \in Requests \ {r} : req'[x] = req[x]
            BY <3>0 DEF Onward
          <6>4. Copying(p)' \subseteq {r}
            BY <5>2, <6>3 DEF Copying
          <6>5. \A x \in Requests : \A y \in req'[x] : y.pc = "copy" /\ y.place = p => x = r
            BY <6>4 DEF Copying
          <6>6. \A n \in Parts : ~(n <= 0)
            BY NumPartsAssumption DEF Parts
          <6>7. QED
            BY <6>1, <6>2, <6>4, <6>5, <6>6 DEF CopiedSoFar
        <5>3. QED
          BY <5>1, <5>2
      <4>3. CASE CopyPart(r, q)
        <5>1. q.pc = "copy" /\ torn' = torn
          BY <4>3 DEF CopyPart, history
        <5>2. CASE p \in torn
          BY <5>1, <5>2 DEF CopiedSoFar
        <5>3. CASE p \notin torn
          <6>1. /\ Copying(p) \subseteq {r}
                /\ \A n \in Parts : objects[p][n] = IF n <= q.part THEN {q.up} ELSE {}
            BY <2>0, <3>2, <5>1, <5>3 DEF CopiedSoFar
          <6>2. \A x \in Requests \ {r} : req'[x] = req[x]
            BY <3>0 DEF Onward
          <6>3. Copying(p)' \subseteq {r}
            BY <6>1, <6>2 DEF Copying
          <6>4. \A x \in Requests : \A y \in req'[x] : y.pc = "copy" /\ y.place = p => x = r
            BY <6>3 DEF Copying
          <6>5. \A y \in req'[r] : y.up = q.up /\ y.part = q.part + 1
            BY <4>3, CopyEffect
          <6>6. \A n \in Parts :
                  objects'[p][n] = IF n = q.part + 1 THEN {q.up} ELSE objects[p][n]
            BY <3>2, <4>3, CopyObjects
          <6>7. \A n \in Parts : n <= q.part + 1 <=> n = q.part + 1 \/ n <= q.part
            BY <3>0, NumPartsAssumption DEF Parts, Call
          <6>8. \A n \in Parts : objects'[p][n] = IF n <= q.part + 1 THEN {q.up} ELSE {}
            BY <6>1, <6>6, <6>7
          <6>9. QED
            BY <6>3, <6>4, <6>5, <6>8 DEF CopiedSoFar
        <5>4. QED
          BY <5>2, <5>3
      <4>4. CASE EndCopy(r, q)
        <5>1. q.pc = "copy" /\ torn' = torn /\ \A y \in req'[r] : y.pc = "delete"
          BY <4>4, GotoEffect, EndCopyEffect
        <5>2. CASE p \in torn
          BY <5>1, <5>2 DEF CopiedSoFar
        <5>3. CASE p \notin torn
          <6>1. Copying(p) \subseteq {r}
            BY <2>0, <3>2, <5>1, <5>3 DEF CopiedSoFar
          <6>2. \A x \in Requests : \A y \in req'[x] : ~(y.pc = "copy" /\ y.place = p)
            BY <3>0, <5>1, <6>1 DEF Copying, Onward
          <6>3. QED
            BY <6>2 DEF CopiedSoFar
        <5>4. QED
          BY <5>2, <5>3
      <4>5. CASE q.pc = "copy" /\ Fail(r, q)
        BY <3>2, <4>5 DEF Fail, CopiedSoFar
      <4>6. CASE Aside(r, q)
        <5>1. /\ objects' = objects /\ torn \subseteq torn' /\ Copying(p)' = Copying(p)
              /\ \A x \in Requests : \A y \in req'[x] : y.pc = "copy" => y \in req[x]
          BY <2>2, <4>6, AsideCopies DEF Aside
        <5>2. QED
          BY <2>0, <5>1 DEF CopiedSoFar
      <4>7. QED
        BY <2>2, <4>1, <4>2, <4>3, <4>4, <4>5, <4>6, StepCases
    <3>3. QED
      BY <3>1, <3>2
  <2>3. QED
    BY <2>1, <2>2, NextCases
<1>3. QED
  BY <1>1, <1>2, FormCorrect, TrackCorrect, PTL DEF Spec
-----------------------------------------------------------------------------
(***************************************************************************)
(* An object has its bytes from one upload.  On Azure this needs that the  *)
(* blocks staged for one blob are of one upload, unless it is spoilt.      *)
(***************************************************************************)
BlocksOfOne ==
  kind = "azure" => \A p \in Places \ torn : \A s, x \in staged :
    s.at = Where(p) /\ x.at = Where(p) => s.up = x.up

Whole(p) ==
  \/ p \in torn
  \/ Copying(p) # {}
  \/ \A n \in Parts : objects[p][n] = {}
  \/ \E u \in Uploads : /\ \A n \in Parts : objects[p][n] = {u}
                        /\ u \in rerouted \/ created[u] = {p}

SourceInv == BlocksOfOne /\ \A p \in Places : Whole(p)

\* One that goes on being whole: its parts stay, and where its upload was created.
LEMMA WholeStays ==
  ASSUME TypeOK, NEW p \in Places, Whole(p), Copying(p)' = Copying(p),
         \A n \in Parts : objects'[p][n] = objects[p][n], p \in torn => p \in torn',
         rerouted \subseteq rerouted',
         \A u \in Uploads : created[u] # {} => created'[u] = created[u]
  PROVE  Whole(p)'
  BY DEF Whole

(* A completion that lacks no block takes them all from one upload, created for its place. *)
LEMMA CompleteIsWhole ==
  ASSUME TypeOK, FormInv, TraceInv, BlocksOfOne, NEW r \in Requests, NEW q \in req[r],
         CompleteMultipartUpload(r, q), q.place \notin torn'
  PROVE  \E u \in Uploads : /\ \A n \in Parts : objects'[q.place][n] = {u}
                            /\ u \in rerouted \/ created[u] = {q.place}
<1>0. /\ q.up \in Uploads /\ q.place \in Places
      /\ objects \in [Places -> [Parts -> SUBSET Uploads]]
  BY CallTyped DEF TypeOK
<1>1. /\ q.place \notin torn
      /\ \A n \in Parts : \E s \in Visible(q) : s.part = n
      /\ \A n \in Parts : objects'[q.place][n] = Supply(q, n)
  BY <1>0 DEF CompleteMultipartUpload
<1>2. PICK u \in Uploads : /\ \A s \in Visible(q) : s.up = u
                           /\ u \in rerouted \/ created[u] = {q.place}
  <2>1. CASE kind # "azure"
    <3>1. CallTraced(q)
      BY DEF TraceInv, CallsTraced
    <3>2. q.up \in rerouted \/ created[q.up] = {q.place}
      BY <1>0, <3>1 DEF CallTraced, TraceInv, Once
    <3>3. QED
      BY <1>0, <2>1, <3>2, VisibleIsOwn
  <2>2. CASE kind = "azure"
    <3>1. PICK s \in Visible(q) : s.part = 1
      BY <1>1, NumPartsAssumption DEF Parts
    <3>2. s \in staged /\ s.at = Where(q.place) /\ s.up \in Uploads
      BY DEF Visible, TypeOK, StagedParts
    <3>3. \A x \in Visible(q) : x.up = s.up
      BY <1>0, <1>1, <2>2, <3>2 DEF BlocksOfOne, Visible
    <3>4. ASSUME s.up \notin rerouted PROVE created[s.up] = {q.place}
      <4>1. PICK p \in created[s.up] : s.at = Where(p)
        BY <3>2, <3>4 DEF TraceInv, StagedTraced
      <4>2. <<p>> = <<q.place>>
        BY <2>2, <3>2, <4>1 DEF Where
      <4>3. p = q.place
        BY <4>2
      <4>4. QED
        BY <3>2, <4>1, <4>3 DEF TraceInv, Once
    <3>5. QED
      BY <3>2, <3>3, <3>4
  <2>3. QED
    BY <2>1, <2>2
<1>3. \A n \in Parts : Supply(q, n) = {u}
  BY <1>1, <1>2 DEF Supply
<1>4. QED
  BY <1>1, <1>2, <1>3

(* A copy that ends has written all its parts. *)
LEMMA CopyIsWhole ==
  ASSUME TypeOK, FormInv, CopyInv, NEW r \in Requests, NEW q \in req[r], EndCopy(r, q),
         q.place \notin torn
  PROVE  \A n \in Parts : objects'[q.place][n] = {q.up}
<1>1. q.place \in Places /\ q.pc = "copy" /\ q.part = NumParts /\ objects' = objects
  BY CallTyped, EndCopyEffect
<1>2. \A n \in Parts : objects[q.place][n] = IF n <= q.part THEN {q.up} ELSE {}
  BY <1>1 DEF CopyInv, CopiedSoFar
<1>3. \A n \in Parts : n <= NumParts
  BY NumPartsAssumption DEF Parts
<1>4. QED
  BY <1>1, <1>2, <1>3

(* While a copy is at its place, or after one that failed. *)
LEMMA CopyInProgress ==
  ASSUME TypeOK, FormInv, NEW r \in Requests, NEW q \in req[r],
         \/ Truncate(r, q) \/ CopyPart(r, q)
         \/ q.pc = "copy" /\ Fail(r, q)
  PROVE  q.place \in torn' \/ Copying(q.place)' # {}
<1>1. CASE Truncate(r, q) \/ CopyPart(r, q)
  <2>1. \E y \in req'[r] : y.pc = "copy" /\ y.place = q.place
    BY <1>1, GotoEffect, CopyEffect DEF Truncate
  <2>2. QED
    BY <2>1 DEF Copying
<1>2. CASE q.pc = "copy" /\ Fail(r, q)
  BY <1>2 DEF Fail
<1>3. QED
  BY <1>1, <1>2

(* The blocks staged for a blob, and the parts of an object, are of one upload. *)
THEOREM SourceCorrect == Spec => []SourceInv
<1>1. Init => SourceInv
  BY DEF Init, SourceInv, BlocksOfOne, Whole
<1>2. TypeOK /\ FormInv /\ TraceInv /\ CopyInv /\ SourceInv /\ [Next]_vars => SourceInv'
  <2> SUFFICES ASSUME TypeOK, FormInv, TraceInv, CopyInv, SourceInv, [Next]_vars PROVE SourceInv'
    OBVIOUS
  <2>0. BlocksOfOne /\ \A p \in Places : Whole(p)
    BY DEF SourceInv
  <2>1. CASE Outside
    <3>1. \A p : Where(p)' = Where(p)
      BY <2>1, OutsideEffect DEF Where
    <3>2. BlocksOfOne'
      BY <2>0, <2>1, <3>1, OutsideEffect DEF BlocksOfOne
    <3>3. ASSUME NEW p \in Places PROVE Whole(p)'
      BY <2>0, <2>1, OutsideEffect, WholeStays
    <3>4. QED
      BY <3>2, <3>3 DEF SourceInv
  <2>2. ASSUME NEW r \in Requests, NEW q \in req[r], Step(r, q) PROVE SourceInv'
    <3>0. /\ Onward(r, q) /\ q.place \in Places /\ UNCHANGED <<kind, created, rerouted>>
          /\ \A p : Where(p)' = Where(p)
      BY <2>2, StepIsOnward, CallTyped DEF Onward, Where
    <3>1. BlocksOfOne'
      <4>0. SUFFICES ASSUME kind = "azure", NEW p \in Places \ torn', NEW s \in staged',
                            NEW x \in staged', s.at = Where(p), x.at = Where(p)
                     PROVE  s.up = x.up
        BY <3>0 DEF BlocksOfOne
      <4>1. CASE UploadPart(r, q)
        <5> DEFINE part == [up |-> q.up, part |-> q.part, at |-> Where(q.place)]
                   others == {z \in staged : z.at = part.at /\ z.up # q.up}
        <5>1. /\ staged' \subseteq staged \cup {part}
              /\ torn' = IF others # {} THEN torn \cup {q.place} ELSE torn
          BY <4>0, <4>1 DEF UploadPart
        <5>2. part.up = q.up /\ part.at = Where(q.place)
          OBVIOUS
        <5> HIDE DEF part
        <5>3. ASSUME NEW y \in staged, y.at = Where(p), Where(q.place) = Where(p)
              PROVE  y.up = q.up
          <6>1. p = q.place
            BY <4>0, <5>3 DEF Where
          <6>2. others = {}
            BY <5>1, <6>1
          <6>3. QED
            BY <5>2, <5>3, <6>2
        <5>4. p \notin torn
          BY <5>1
        <5>5. \A y, z \in staged : y.at = Where(p) /\ z.at = Where(p) => y.up = z.up
          BY <2>0, <4>0, <5>4 DEF BlocksOfOne
        <5>6. QED
          BY <4>0, <5>1, <5>2, <5>3, <5>5
      <4>2. CASE staged' \subseteq staged /\ torn \subseteq torn'
        BY <2>0, <4>0, <4>2 DEF BlocksOfOne
      <4>3. QED
        <5>1. ~Truncate(r, q)
          BY <4>0 DEF Truncate
        <5>2. CASE CompleteMultipartUpload(r, q)
          BY <4>2, <5>2 DEF CompleteMultipartUpload
        <5>3. CASE CopyPart(r, q) \/ EndCopy(r, q) \/ Fail(r, q)
          <6>1. staged' \subseteq staged /\ torn \subseteq torn'
            BY <5>3, EndCopyEffect DEF CopyPart, Fail, upstream, history
          <6>2. QED
            BY <4>2, <6>1
        <5>4. QED
          BY <2>2, <4>1, <4>2, <5>1, <5>2, <5>3, StepCases DEF Aside
    <3>2. ASSUME NEW p \in Places PROVE Whole(p)'
      <4>1. CASE p # q.place
        BY <2>0, <2>2, <3>0, <4>1, StepElsewhere, WholeStays
      <4>2. CASE p = q.place
        <5>1. CASE CompleteMultipartUpload(r, q)
          BY <2>0, <3>0, <4>2, <5>1, CompleteIsWhole DEF Whole
        <5>2. CASE Truncate(r, q) \/ CopyPart(r, q) \/ (q.pc = "copy" /\ Fail(r, q))
          BY <4>2, <5>2, CopyInProgress DEF Whole
        <5>3. CASE EndCopy(r, q)
          <6>1. q.up \in rerouted \/ created[q.up] = {q.place}
            BY CallTyped DEF TraceInv, CallsTraced, CallTraced, Once
          <6>2. torn' = torn /\ q.up \in Uploads
            BY <5>3, CallTyped, EndCopyEffect
          <6>3. p \notin torn => \A n \in Parts : objects'[p][n] = {q.up}
            BY <4>2, <5>3, CopyIsWhole
          <6>4. QED
            BY <3>0, <4>2, <6>1, <6>2, <6>3 DEF Whole
        <5>4. CASE Aside(r, q)
          <6>1. /\ objects' = objects /\ torn \subseteq torn' /\ Copying(p)' = Copying(p)
            BY <2>2, <5>4, AsideCopies DEF Aside
          <6>2. QED
            BY <2>0, <3>0, <6>1, WholeStays
        <5>5. QED
          BY <2>2, <5>1, <5>2, <5>3, <5>4, StepCases
      <4>3. QED
        BY <4>1, <4>2
    <3>3. QED
      BY <3>1, <3>2 DEF SourceInv
  <2>3. QED
    BY <2>1, <2>2, NextCases
<1>3. QED
  BY <1>1, <1>2, FormCorrect, TraceCorrect, CopyCorrect, PTL DEF Spec

(* All bytes of an object are from one upload that was created for it, with the  *)
(* exceptions the property names.                                               *)
COROLLARY ObjectOfOneUploadHolds == Spec => []ObjectOfOneUpload
<1>1. SourceInv => ObjectOfOneUpload
  BY DEF SourceInv, Whole, ObjectOfOneUpload
<1>2. QED
  BY <1>1, SourceCorrect, PTL
-----------------------------------------------------------------------------
(***************************************************************************)
(* What has been stored is kept: for an upload that is acknowledged, and   *)
(* before that for the call that is about to do so.                        *)
(***************************************************************************)
Kept(p) ==
  \/ \A n \in Parts : objects[p][n] # {}
  \/ kind = "local" /\ (p \in torn \/ Copying(p) # {})

AckInv ==
  /\ \A u \in acked : created[u] # {}
  /\ \A u \in acked \ rerouted : \A p \in created[u] : Kept(p)
  /\ \A r \in Requests : \A q \in req[r] :
       q.pc = "delete" /\ q.op = "complete" => Kept(q.place)

(* The step that ends a completion leaves the object stored. *)
LEMMA CompletionStores ==
  ASSUME TypeOK, FormInv, CopyInv, CopyingLocally, NEW r \in Requests, NEW q \in req[r],
         CompleteMultipartUpload(r, q) \/ EndCopy(r, q)
  PROVE  Kept(q.place)'
<1>1. CASE CompleteMultipartUpload(r, q)
  <2>1. /\ \A n \in Parts : Supply(q, n) # {}
        /\ objects' = [objects EXCEPT ![q.place] = [n \in Parts |-> Supply(q, n)]]
    BY <1>1 DEF CompleteMultipartUpload
  <2>2. q.place \in Places /\ objects \in [Places -> [Parts -> SUBSET Uploads]]
    BY CallTyped DEF TypeOK
  <2>3. QED
    BY <2>1, <2>2 DEF Kept
<1>2. CASE EndCopy(r, q)
  <2>1. kind = "local" /\ kind' = kind /\ torn' = torn
    BY <1>2, EndCopyEffect DEF CopyingLocally
  <2>2. QED
    BY <1>2, <2>1, CopyIsWhole DEF Kept
<1>3. QED
  BY <1>1, <1>2

(* No step of a call loses what is kept. *)
LEMMA KeptStays ==
  ASSUME TypeOK, FormInv, CopyInv, CopyingLocally, NEW r \in Requests, NEW q \in req[r],
         Step(r, q), NEW p \in Places, Kept(p)
  PROVE  Kept(p)'
<1>0. kind' = kind /\ q.place \in Places
  BY StepIsOnward, CallTyped DEF Onward
<1>1. CASE p # q.place
  BY <1>0, <1>1, StepElsewhere DEF Kept
<1>2. CASE p = q.place
  <2>1. CASE CompleteMultipartUpload(r, q) \/ EndCopy(r, q)
    BY <1>2, <2>1, CompletionStores
  <2>2. CASE Truncate(r, q) \/ CopyPart(r, q) \/ (q.pc = "copy" /\ Fail(r, q))
    <3>1. kind = "local"
      BY <2>2 DEF Truncate, CopyPart, CopyingLocally
    <3>2. QED
      BY <1>0, <1>2, <2>2, <3>1, CopyInProgress DEF Kept
  <2>3. CASE Aside(r, q)
    BY <1>0, <2>3, AsideCopies DEF Aside, Kept
  <2>4. QED
    BY <2>1, <2>2, <2>3, StepCases
<1>3. QED
  BY <1>1, <1>2

(* What is acknowledged, or about to be, is kept. *)
THEOREM AckCorrect == Spec => []AckInv
<1>1. Init => AckInv
  BY DEF Init, AckInv
<1>2. TypeOK /\ TypeOK' /\ FormInv /\ TraceInv /\ TrackInv /\ CopyInv /\ AckInv /\ [Next]_vars
        => AckInv'
  <2> SUFFICES ASSUME TypeOK, TypeOK', FormInv, TraceInv, TrackInv, CopyInv, AckInv, [Next]_vars
               PROVE  AckInv'
    OBVIOUS
  <2>0. CopyingLocally /\ acked \subseteq Uploads
    BY DEF TrackInv, TypeOK
  <2>1. CASE Outside
    <3>1. \A p : Kept(p) => Kept(p)'
      BY <2>1, OutsideEffect DEF Kept
    <3>2. \A u \in acked' : created'[u] # {}
      BY <2>0, <2>1, OutsideEffect DEF AckInv
    <3>3. \A u \in acked' \ rerouted' : \A p \in created'[u] : Kept(p)'
      BY <2>0, <2>1, <3>1, OutsideEffect DEF AckInv
    <3>4. ASSUME NEW x \in Requests, NEW y \in req'[x], y.pc = "delete", y.op = "complete"
          PROVE  Kept(y.place)'
      <4>1. y \in req[x]
        BY <2>1, <3>4, OutsideEffect DEF Ops
      <4>2. QED
        BY <3>1, <3>4, <4>1 DEF AckInv
    <3>5. QED
      BY <3>2, <3>3, <3>4 DEF AckInv
  <2>2. ASSUME NEW r \in Requests, NEW q \in req[r], Step(r, q) PROVE AckInv'
    <3>0. /\ Onward(r, q) /\ req[r] = {q} /\ q.place \in Places /\ q.up \in Uploads
          /\ UNCHANGED <<created, rerouted>> /\ created \in [Uploads -> SUBSET Places]
      BY <2>2, StepIsOnward, CallTyped DEF Onward, TypeOK
    <3>1. \A p \in Places : Kept(p) => Kept(p)'
      BY <2>0, <2>2, KeptStays
    \* What is acknowledged now is what was, and the upload of a call that has stored it.
    <3>2. \A u \in acked' :
            u \in acked \/ (u = q.up /\ q.pc = "delete" /\ q.op = "complete")
      <4>1. CASE UNCHANGED acked
        BY <4>1
      <4>2. QED
        BY <2>2, <4>1, StepCases, EndCopyEffect DEF Aside, CompleteMultipartUpload, Truncate,
           CopyPart, Fail, history
    <3>3. created[q.up] # {} /\ (q.up \notin rerouted => created[q.up] = {q.place})
      BY <3>0 DEF TraceInv, CallsTraced, CallTraced, Once
    <3>4. \A u \in acked' : created'[u] # {}
      BY <3>0, <3>2, <3>3 DEF AckInv
    <3>5. ASSUME NEW u \in acked' \ rerouted', NEW p \in created'[u] PROVE Kept(p)'
      <4>1. p \in Places /\ u \in Uploads
        BY <2>0, <3>0, <3>2
      <4>2. Kept(p)
        BY <3>0, <3>2, <3>3 DEF AckInv
      <4>3. QED
        BY <3>1, <4>1, <4>2
    <3>6. ASSUME NEW x \in Requests, NEW y \in req'[x], y.pc = "delete", y.op = "complete"
          PROVE  Kept(y.place)'
      <4>1. CASE y \in req[x]
        <5>1. Kept(y.place) /\ y.place \in Places
          BY <3>6, <4>1, CallTyped DEF AckInv
        <5>2. QED
          BY <3>1, <5>1
      <4>2. CASE y \notin req[x]
        <5>1. x = r /\ y.place = q.place
          BY <3>0, <4>2 DEF Onward
        <5>2. ~Truncate(r, q) /\ ~CopyPart(r, q) /\ ~Fail(r, q) /\ ~Aside(r, q)
          <6>1. ~Truncate(r, q)
            BY <3>6, <5>1, GotoEffect DEF Truncate
          <6>2. ~CopyPart(r, q)
            BY <3>6, <5>1, CopyEffect
          <6>3. ~Fail(r, q)
            BY <3>6, <5>1, EndTyped DEF Fail
          <6>4. ~Aside(r, q)
            BY <3>6, <5>1 DEF Aside
          <6>5. QED
            BY <6>1, <6>2, <6>3, <6>4
        <5>3. CompleteMultipartUpload(r, q) \/ EndCopy(r, q)
          BY <2>2, <5>2, StepCases
        <5>4. QED
          BY <2>0, <5>1, <5>3, CompletionStores
      <4>3. QED
        BY <4>1, <4>2
    <3>7. QED
      BY <3>4, <3>5, <3>6 DEF AckInv
  <2>3. QED
    BY <2>1, <2>2, NextCases
<1>3. QED
  BY <1>1, <1>2, FormCorrect, TraceCorrect, TrackCorrect, CopyCorrect, PTL DEF Spec

(* An upload a client was told is complete stays stored, but on the local backend, where *)
(* another completion may be about to write it again.                                   *)
COROLLARY AcknowledgedIsStoredHolds == Spec => []AcknowledgedIsStored
<1>1. AckInv => AcknowledgedIsStored
  BY DEF AckInv, Kept, AcknowledgedIsStored
<1>2. QED
  BY <1>1, AckCorrect, PTL
=============================================================================
