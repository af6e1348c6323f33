----------------------------- MODULE Multipart -----------------------------
(***************************************************************************)
(* Multipart uploads: the record of an upload in PostgreSQL against what   *)
(* the provider holds of it.  A handler reads the record, resolves the     *)
(* bucket, makes one call to the backend and then writes or deletes the    *)
(* record; between any two of these other handlers run, and any of them    *)
(* may be the last thing a handler does.  The four kinds of backend stage  *)
(* parts in four ways:                                                     *)
(*   s3     the provider knows the upload, its key and its parts (R2 too); *)
(*   gcs    parts are objects of the bucket, named by the upload;          *)
(*   azure  parts are blocks of the blob, named by their number only;      *)
(*   local  parts are files in a directory of the upload.                  *)
(***************************************************************************)
EXTENDS Naturals

CONSTANTS Uploads,   \* ids the gateway gives to uploads, and the backend with them
          Keys,      \* object keys of one bucket of the gateway
          Targets,   \* what that bucket may resolve to, with a prefix for the keys
          BucketOf,  \* the provider's bucket of each target
          NumParts,  \* the parts a client sends, and names when it completes
          Requests   \* slots for requests in progress

ASSUME NumPartsAssumption == NumParts \in Nat \ {0}

VARIABLES kind,      \* the kind of the store's backend
          table,     \* the record of each upload, if any: the key it is for
          open,      \* s3: the uploads the provider has open
          staged,    \* parts that wait for completion
          cleaning,  \* gcs: parts a goroutine is deleting
          objects,   \* per object and part, the upload that sent its bytes
          req        \* the request in each slot, if any

\* History: where each upload was created, the uploads whose id no client was
\* told, those a client was told are complete, and the excuses of the properties.
VARIABLES created, untold, acked, orphaned, lingering, rerouted, torn

history == <<created, untold, acked, orphaned, lingering, rerouted, torn>>
upstream == <<open, staged, cleaning, objects>>
vars == <<kind, table, upstream, req, history>>

Parts == 1 .. NumParts

Places == [target : Targets, key : Keys]
Place(t, key) == [target |-> t, key |-> key]  \* the object PrefixKey names

\* What a backend needs to find a part again, but for its number.
Where(p) ==
  CASE kind = "local" -> <<>>
    [] kind = "gcs"   -> <<BucketOf[p.target]>>
    [] OTHER          -> <<p>>

\* Mutant: the names of parts lack the upload on every backend.
VisibleToAll(q) == {s \in staged : s.at = Where(q.place)}

\* The parts a call sees: Azure cannot tell those of one upload from another's.
Visible(q) ==
  {s \in staged : s.at = Where(q.place) /\ (kind = "azure" \/ s.up = q.up)}

\* Who sent the bytes a completion would use for a part.  Azure looks for a
\* block among the staged ones first, then among those of the blob.
Supply(q, n) ==
  LET found == {s.up : s \in {x \in Visible(q) : x.part = n}}
  IN IF kind = "azure" /\ found = {} THEN objects[q.place][n] ELSE found

KnownUpstream(q) == kind = "s3" => [up |-> q.up, place |-> q.place] \in open

Begin(r, pc, u, p, n) ==
  req' = [req EXCEPT ![r] = {[pc |-> pc, op |-> pc, up |-> u, place |-> p, part |-> n]}]
Goto(r, q, pc) == req' = [req EXCEPT ![r] = {[q EXCEPT !.pc = pc]}]
End(r) == req' = [req EXCEPT ![r] = {}]

Calls(u, pcs) == {r \in Requests : \E q \in req[r] : q.up = u /\ q.pc \in pcs}
Copying(p) == {r \in Requests : \E q \in req[r] : q.place = p /\ q.pc = "copy"}

Init ==
  /\ kind \in {"s3", "gcs", "azure", "local"}
  /\ table = [u \in Uploads |-> {}]
  /\ open = {}
  /\ staged = {}
  /\ cleaning = {}
  /\ objects = [p \in Places |-> [n \in Parts |-> {}]]
  /\ req = [r \in Requests |-> {}]
  /\ created = [u \in Uploads |-> {}]
  /\ untold = {} /\ acked = {}
  /\ orphaned = {} /\ lingering = {} /\ rerouted = {} /\ torn = {}
-----------------------------------------------------------------------------
(***************************************************************************)
(* POST ?uploads.  The upload is created at the provider, then recorded;   *)
(* if that fails it is aborted again, with the same request context.  What *)
(* s3 creates is needed later; the directory the local backend makes is    *)
(* not, as every part makes it again.                                      *)
(***************************************************************************)
CreateMultipartUpload(r, u, key, t) ==
  /\ req[r] = {}
  /\ created[u] = {}
  /\ created' = [created EXCEPT ![u] = {Place(t, key)}]
  /\ open' = IF kind = "s3" THEN open \cup {[up |-> u, place |-> Place(t, key)]} ELSE open
  /\ Begin(r, "insert", u, Place(t, key), 0)
  /\ UNCHANGED <<kind, table, staged, cleaning, objects,
                 untold, acked, orphaned, lingering, rerouted, torn>>

\* Mutant: the key with its prefix is recorded.
RecordBackendKey(r, q) ==
  /\ q.pc = "insert"
  /\ table' = [table EXCEPT ![q.up] = {q.place}]
  /\ End(r)
  /\ UNCHANGED <<kind, upstream, history>>

Record(r, q) ==
  /\ q.pc = "insert"
  /\ table' = [table EXCEPT ![q.up] = {q.place.key}]
  /\ End(r)
  /\ UNCHANGED <<kind, upstream, history>>

\* Mutant: the error is answered without aborting the upload at the provider.
RecordFailsForGood(r, q) ==
  /\ q.pc = "insert"
  /\ End(r)
  /\ UNCHANGED <<kind, table, upstream, history>>

RecordFails(r, q) ==
  /\ q.pc = "insert"
  /\ Goto(r, q, "undo")
  /\ UNCHANGED <<kind, table, upstream, history>>

\* The record is in the table, but the answer of the database is lost: the
\* upload is aborted all the same, and its id is told to nobody.
RecordUnanswered(r, q) ==
  /\ q.pc = "insert"
  /\ table' = [table EXCEPT ![q.up] = {q.place.key}]
  /\ untold' = untold \cup {q.up}
  /\ lingering' = lingering \cup {q.up}
  /\ Goto(r, q, "undo")
  /\ UNCHANGED <<kind, upstream, created, acked, orphaned, rerouted, torn>>

\* What Abort of the backend does: nothing on Azure, whose blocks expire.
Release(q) ==
  /\ open' = open \ {[up |-> q.up, place |-> q.place]}
  /\ staged' = IF kind = "azure" THEN staged ELSE staged \ Visible(q)
  /\ UNCHANGED <<cleaning, objects>>

Undo(r, q) ==
  /\ q.pc = "undo"
  /\ Release(q)
  /\ End(r)
  /\ UNCHANGED <<kind, table, history>>
-----------------------------------------------------------------------------
(***************************************************************************)
(* The other three calls first read the record, which must be for their    *)
(* key, and then resolve the bucket.  The mapping may have changed since   *)
(* the upload was created, and a cached answer has lost its prefix (see    *)
(* BucketRoutes): any target may come of it, whatever the record says.     *)
(***************************************************************************)

\* Mutant: the key of the request is not compared with the one recorded.
GetAnyUpload(r, op, u, key, t, n) ==
  /\ req[r] = {}
  /\ table[u] # {} /\ u \notin untold
  /\ rerouted' = IF \E p \in created[u] : p.target # t THEN rerouted \cup {u} ELSE rerouted
  /\ Begin(r, op, u, Place(t, key), n)
  /\ UNCHANGED <<kind, table, upstream, created, untold, acked, orphaned, lingering, torn>>

GetMultipartUpload(r, op, u, key, t, n) ==
  /\ req[r] = {}
  /\ key \in table[u] /\ u \notin untold
  /\ rerouted' = IF \E p \in created[u] : p.target # t THEN rerouted \cup {u} ELSE rerouted
  /\ Begin(r, op, u, Place(t, key), n)
  /\ UNCHANGED <<kind, table, upstream, created, untold, acked, orphaned, lingering, torn>>

\* No record, or one for another key: NoSuchUpload.
Refused(u, key) ==
  /\ key \notin table[u]
  /\ UNCHANGED vars

\* PUT ?partNumber.  A part that arrives when another call is about to delete
\* the record, or has, is nobody's.
UploadPart(r, q) ==
  LET part == [up |-> q.up, part |-> q.part, at |-> Where(q.place)]
      others == {s \in staged : kind = "azure" /\ s.at = part.at /\ s.up # q.up}
  IN /\ q.pc = "part"
     /\ KnownUpstream(q)
     /\ staged' = (staged \ {s \in others : s.part = q.part}) \cup {part}
     /\ orphaned' = IF table[q.up] = {} \/ Calls(q.up, {"delete"}) # {}
                      THEN orphaned \cup {q.up} ELSE orphaned
     /\ torn' = IF others # {} THEN torn \cup {q.place} ELSE torn
     /\ End(r)
     /\ UNCHANGED <<kind, table, open, cleaning, objects,
                    created, untold, acked, lingering, rerouted>>
-----------------------------------------------------------------------------
(***************************************************************************)
(* POST ?uploadId.  The provider puts the object together in one step, if  *)
(* it has every part; GCS leaves the parts to a goroutine.                 *)
(***************************************************************************)
CompleteMultipartUpload(r, q) ==
  /\ q.pc = "complete"
  /\ kind # "local"
  /\ KnownUpstream(q)
  /\ \A n \in Parts : Supply(q, n) # {}
  /\ objects' = [objects EXCEPT ![q.place] = [n \in Parts |-> Supply(q, n)]]
  /\ open' = open \ {[up |-> q.up, place |-> q.place]}
  /\ staged' = IF kind = "gcs" THEN staged ELSE staged \ Visible(q)
  /\ cleaning' = IF kind = "gcs" THEN cleaning \cup Visible(q) ELSE cleaning
  /\ torn' = IF \E n \in Parts : \A s \in Visible(q) : s.part # n
               THEN torn \cup {q.place} ELSE torn
  /\ Goto(r, q, "delete")
  /\ UNCHANGED <<kind, table, created, untold, acked, orphaned, lingering, rerouted>>

\* The goroutine deletes a part, or stops with its process.
Clean(s) ==
  /\ cleaning' = cleaning \ {s}
  /\ staged' = staged \ {s}
  /\ UNCHANGED <<kind, table, open, objects, req, history>>

CleanLost(s) ==
  /\ cleaning' = cleaning \ {s}
  /\ orphaned' = orphaned \cup {s.up}
  /\ UNCHANGED <<kind, table, open, staged, objects, req,
                 created, untold, acked, lingering, rerouted, torn>>

\* The local backend truncates the destination, copies the parts to it one by
\* one, and removes them; that some could not be removed is ignored.
Truncate(r, q) ==
  /\ q.pc = "complete"
  /\ kind = "local"
  /\ objects' = [objects EXCEPT ![q.place] = [n \in Parts |-> {}]]
  /\ torn' = IF Copying(q.place) # {} THEN torn \cup {q.place} ELSE torn \ {q.place}
  /\ Goto(r, q, "copy")
  /\ UNCHANGED <<kind, table, open, staged, cleaning,
                 created, untold, acked, orphaned, lingering, rerouted>>

CopyPart(r, q) ==
  /\ q.pc = "copy"
  /\ q.part < NumParts
  /\ \E s \in Visible(q) : s.part = q.part + 1
  /\ objects' = [objects EXCEPT ![q.place][q.part + 1] = {q.up}]
  /\ req' = [req EXCEPT ![r] = {[q EXCEPT !.part = @ + 1]}]
  /\ UNCHANGED <<kind, table, open, staged, cleaning, history>>

RemoveParts(r, q) ==
  /\ q.pc = "copy"
  /\ q.part = NumParts
  /\ staged' = staged \ Visible(q)
  /\ Goto(r, q, "delete")
  /\ UNCHANGED <<kind, table, open, cleaning, objects, history>>

PartsStay(r, q) ==
  /\ q.pc = "copy"
  /\ q.part = NumParts
  /\ \E left \in SUBSET Visible(q) : staged' = (staged \ Visible(q)) \cup left
  /\ orphaned' = orphaned \cup {q.up}
  /\ Goto(r, q, "delete")
  /\ UNCHANGED <<kind, table, open, cleaning, objects,
                 created, untold, acked, lingering, rerouted, torn>>

\* DELETE ?uploadId.  An error of the provider is ignored, here and, on GCS,
\* for every part.
AbortMultipartUpload(r, q) ==
  /\ q.pc = "abort"
  /\ Release(q)
  /\ Goto(r, q, "delete")
  /\ UNCHANGED <<kind, table, history>>

AbortRefused(r, q) ==
  /\ q.pc = "abort"
  /\ kind # "azure"
  /\ \E gone \in SUBSET Visible(q) : (kind = "s3" => gone = {}) /\ staged' = staged \ gone
  /\ orphaned' = orphaned \cup {q.up}
  /\ Goto(r, q, "delete")
  /\ UNCHANGED <<kind, table, open, cleaning, objects,
                 created, untold, acked, lingering, rerouted, torn>>
-----------------------------------------------------------------------------
\* Completion and abortion end by deleting the record and answering; that the
\* record could not be deleted is ignored too.
Acknowledge(r, q) ==
  /\ acked' = IF q.op = "complete" THEN acked \cup {q.up} ELSE acked
  /\ End(r)

DeleteMultipartUpload(r, q) ==
  /\ q.pc = "delete"
  /\ table' = [table EXCEPT ![q.up] = {}]
  /\ Acknowledge(r, q)
  /\ UNCHANGED <<kind, upstream, created, untold, orphaned, lingering, rerouted, torn>>

DeleteLost(r, q) ==
  /\ q.pc = "delete"
  /\ lingering' = lingering \cup {q.up}
  /\ Acknowledge(r, q)
  /\ UNCHANGED <<kind, table, upstream, created, untold, orphaned, rerouted, torn>>

\* Mutant: the error of the backend is answered, but the handler goes on.
GoOn(r, q) ==
  \/ /\ q.pc = "complete"
     /\ Goto(r, q, "delete")
     /\ UNCHANGED <<kind, table, upstream, history>>
  \/ /\ q.pc # "complete"
     /\ End(r)
     /\ UNCHANGED <<kind, table, upstream, history>>

\* The backend refuses or does not answer, the client goes away or the process
\* stops: the handler ends where it is.
Fail(r, q) ==
  /\ orphaned' = IF q.pc \in {"insert", "undo"} THEN orphaned \cup {q.up} ELSE orphaned
  /\ lingering' = IF q.pc = "delete" THEN lingering \cup {q.up} ELSE lingering
  /\ torn' = IF q.pc = "copy" THEN torn \cup {q.place} ELSE torn
  /\ End(r)
  /\ UNCHANGED <<kind, table, upstream, created, untold, acked, rerouted>>

Arrive(r, u, key, t) ==
  \/ CreateMultipartUpload(r, u, key, t)
  \/ \E n \in Parts : GetMultipartUpload(r, "part", u, key, t, n)
  \/ \E op \in {"complete", "abort"} : GetMultipartUpload(r, op, u, key, t, 0)

Proceed(r) ==
  \E q \in req[r] :
    \/ Record(r, q) \/ RecordFails(r, q) \/ RecordUnanswered(r, q) \/ Undo(r, q)
    \/ UploadPart(r, q)
    \/ CompleteMultipartUpload(r, q)
    \/ Truncate(r, q) \/ CopyPart(r, q) \/ RemoveParts(r, q) \/ PartsStay(r, q)
    \/ AbortMultipartUpload(r, q) \/ AbortRefused(r, q)
    \/ DeleteMultipartUpload(r, q) \/ DeleteLost(r, q) \/ Fail(r, q)

Background ==
  \/ \E u \in Uploads, key \in Keys : Refused(u, key)
  \/ \E s \in cleaning : Clean(s) \/ CleanLost(s)

Next ==
  \/ \E r \in Requests, u \in Uploads, key \in Keys, t \in Targets : Arrive(r, u, key, t)
  \/ \E r \in Requests : Proceed(r)
  \/ Background

Spec == Init /\ [][Next]_vars
-----------------------------------------------------------------------------
Ats == {<<>>} \cup {<<BucketOf[t]>> : t \in Targets} \cup {<<p>> : p \in Places}
StagedParts == [up : Uploads, part : Parts, at : Ats]
Ops == {"insert", "part", "complete", "abort"}
Steps == Ops \cup {"undo", "copy", "delete"}

TypeOK ==
  /\ kind \in {"s3", "gcs", "azure", "local"}
  /\ table \in [Uploads -> SUBSET Keys]
  /\ open \subseteq [up : Uploads, place : Places]
  /\ staged \subseteq StagedParts
  /\ cleaning \subseteq StagedParts
  /\ objects \in [Places -> [Parts -> SUBSET Uploads]]
  /\ req \in [Requests -> SUBSET [pc : Steps, op : Ops, up : Uploads,
                                  place : Places, part : 0 .. NumParts]]
  /\ created \in [Uploads -> SUBSET Places]
  /\ untold \subseteq Uploads
  /\ acked \subseteq Uploads
  /\ orphaned \subseteq Uploads
  /\ lingering \subseteq Uploads
  /\ rerouted \subseteq Uploads
  /\ torn \subseteq Places

\* What the provider keeps of an upload, apart from what is being deleted.
Held(u) ==
  \/ \E o \in open : o.up = u
  \/ \E s \in staged \ cleaning : s.up = u

(***************************************************************************)
(* What the provider holds of an upload has a record by which it can be    *)
(* completed or aborted, and on S3 a record has an upload - unless a call  *)
(* is between its two writes, or one of these happened: a creation was cut *)
(* off, an abort or the removal of copied parts failed, a part came late,  *)
(* the goroutine stopped, the bucket resolved elsewhere (orphaned,         *)
(* rerouted), a record was not deleted, or was written without the gateway *)
(* knowing (lingering).  (multipart.go: create undoes itself, complete and *)
(* abort end at the provider before they delete the record.)  Azure's      *)
(* blocks are left to expire.                                              *)
(***************************************************************************)
UploadIsTracked ==
  \A u \in Uploads \ (orphaned \cup rerouted) :
    /\ kind # "azure" /\ Held(u) => table[u] # {} \/ Calls(u, {"insert", "undo"}) # {}
    /\ kind = "s3" /\ table[u] # {} =>
         Held(u) \/ u \in lingering \/ Calls(u, {"delete"}) # {}

(***************************************************************************)
(* An object has all its bytes from one upload, and from one that was      *)
(* created for it, however many calls complete, abort and send parts at    *)
(* once (multipart.go: the key of the record is compared; the parts of an  *)
(* upload are named by it).  The exceptions: the bucket resolved elsewhere *)
(* meanwhile; on Azure, two uploads that had blocks of one blob at once,   *)
(* or a completion that lacked one; on the local backend, two completions  *)
(* at once or one that stopped half-way.                                   *)
(***************************************************************************)
ObjectOfOneUpload ==
  \A p \in Places :
    \/ p \in torn
    \/ Copying(p) # {}
    \/ \A n \in Parts : objects[p][n] = {}
    \/ \E u \in Uploads : /\ \A n \in Parts : objects[p][n] = {u}
                          /\ u \in rerouted \/ created[u] = {p}

(***************************************************************************)
(* Once a client has been told that an upload is complete, the object is   *)
(* there and stays whole, whatever retries, aborts and late parts of the   *)
(* same or another upload do - except on the local backend, where a second *)
(* completion truncates it first (CompleteMultipartUpload, local.go).      *)
(***************************************************************************)
AcknowledgedIsStored ==
  \A u \in acked \ rerouted : \A p \in created[u] :
    \/ \A n \in Parts : objects[p][n] # {}
    \/ kind = "local" /\ (p \in torn \/ Copying(p) # {})
=============================================================================
