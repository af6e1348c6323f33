------------------------------ MODULE Objects ------------------------------
(***************************************************************************)
(* PUT, GET and DELETE of objects on the four kinds of backend.  A body is     *)
(* streamed to the backend while it comes in, plain or in aws-chunked framing, *)
(* and may break off; an object is streamed back while others write it.  A     *)
(* stored object - a version at a provider, a file of the local backend - is    *)
(* named by the PUT that made it, and a byte of it by the PUT that wrote it:    *)
(* byte i of a body is written at place i.                                      *)
(***************************************************************************)
EXTENDS ChunkedReader, Ranges, FiniteSets

CONSTANTS Keys, Puts, Gets, Kinds,
          In,         \* the keys that name a folder this key lies in
          Bodies,     \* for each PUT: what its client may send
          Rooms,      \* sizes of the buffer of io.Copy
          Asked       \* ranges a GET may ask for, NoRange for all

VARIABLES kind,    \* of the backend
          link,    \* the stored object that has the key's name, if any
          folders, \* the keys that name a directory: on the local backend only
          data,    \* the bytes of each stored object
          put,     \* requests to write, each made once
          get,     \* requests to read
          batch    \* a request to delete several keys

\* What a client may send: an object in chunks of these sizes, in framing or without,
\* the first cut tokens of it.  Without framing a request is complete or not, and
\* its Content-Length is the one of the object.
Sendings(framings, plain) ==
  LET Sent(chunked, sizes) == IF chunked THEN Encode(sizes) ELSE Decode(Encode(sizes)) IN
  UNION {LET sent == Sent(TRUE, sizes) IN
         [chunked : {TRUE}, sent : {sent}, size : {Len(Decode(sent))}, cut : 0..Len(sent),
          end : {"eof", "broken"}, declared : BOOLEAN] : sizes \in framings}
  \cup
  UNION {LET sent == Sent(FALSE, sizes) IN
         {[chunked |-> FALSE, sent |-> sent, size |-> Len(sent), cut |-> cut, declared |-> TRUE,
           end |-> IF cut = Len(sent) THEN "eof" ELSE "broken"] : cut \in 0..Len(sent)}
           : sizes \in plain}

\* Whatever is sent is the beginning of such a body, of an object whose size is a number.
IsSending(body) ==
  /\ body.chunked \in BOOLEAN /\ body.declared \in BOOLEAN /\ body.end \in {"eof", "broken"}
  /\ body.size \in 0..MaxInt /\ body.cut \in 0..Len(body.sent)
  /\ body.chunked => Framed(body.sent, body.size)
  /\ ~body.chunked => /\ body.sent = Bytes(0, body.size)
                      /\ body.end = "eof" <=> body.cut = Len(body.sent)

ASSUME KindsAssumption == Kinds \subseteq {"s3", "gcs", "azure", "local"}
ASSUME BodiesAssumption == \A p \in Puts : \A body \in Bodies[p] : IsSending(body)
ASSUME InAssumption ==
  /\ In \in [Keys -> SUBSET Keys]
  /\ \A k \in Keys : k \notin In[k] /\ \A f \in In[k] : In[f] \subseteq In[k]
ASSUME RoomsAssumption == Rooms \subseteq Nat \ {0}
ASSUME AskedAssumption ==
  Asked \subseteq {NoRange} \cup [first : 0..MaxInt, last : {Open} \cup 0..MaxInt]

\* History: PUTs of a key that another PUT or a DELETE took effect on later; stored
\* objects that are damaged by a named cause; GETs whose object changed meanwhile.
VARIABLES overridden, spoiled, disturbed

history == <<overridden, spoiled, disturbed>>
vars == <<kind, link, folders, data, put, get, batch, history>>

Hole == {}
Whole(p) == [i \in 1..put[p].size |-> {p}]
NoPut == [pc |-> "new", key |-> {}, size |-> 0, declared |-> TRUE,
          reader |-> Reader(FALSE, <<>>, "eof"), sent |-> <<>>, at |-> {}, tag |-> <<>>,
          whole |-> FALSE]
NoGet == [pc |-> "idle", key |-> {}, range |-> NoRange, at |-> {}, tag |-> <<>>,
          from |-> 0, length |-> 0, got |-> <<>>, cause |-> "none"]
NoBatch == [pc |-> "idle", before |-> [k \in Keys |-> {}], left |-> {}, errors |-> {}]

Init ==
  /\ kind \in Kinds
  /\ link = [k \in Keys |-> {}] /\ folders = {}
  /\ data = [p \in Puts |-> <<>>]
  /\ put = [p \in Puts |-> NoPut]
  /\ get = [g \in Gets |-> NoGet]
  /\ batch = NoBatch
  /\ overridden = {} /\ spoiled = {} /\ disturbed = {}

\* PUTs that have taken effect on a key, in part or whole.
Effective(k) == {p \in Puts : put[p].key = {k} /\ put[p].at # {}}
\* PUTs that are writing to a file.
Writing(o) == {p \in Puts : put[p].pc = "copy" /\ put[p].at = {o}}
\* GETs that are reading it.
Reading(o) == {g \in Gets : get[g].pc = "stream" /\ get[g].at = {o}}
Override(k, p) == overridden' = overridden \cup (Effective(k) \ {p})
-----------------------------------------------------------------------------
(***************************************************************************)
(* PUT                                                                      *)
(***************************************************************************)

\* The local backend makes the folders of a key, which no file may stand in the way of.
MakeFolders(k) ==
  IF kind = "local"
    THEN /\ k \notin folders /\ \A f \in In[k] : link[f] = {}
         /\ folders' = folders \cup In[k]
    ELSE UNCHANGED folders

\* It creates or truncates the file before it reads the body.
PutObject(p, k) ==
  \E body \in Bodies[p] :
    LET o == IF kind = "local" /\ link[k] # {} THEN CHOOSE o \in Puts : link[k] = {o} ELSE p
    IN
    /\ put[p].pc = "new"
    /\ MakeFolders(k)
    /\ put' = [put EXCEPT ![p] =
                 [NoPut EXCEPT !.pc = "copy", !.key = {k}, !.declared = body.declared,
                               !.size = body.size,
                               !.reader = Reader(body.chunked, SubSeq(body.sent, 1, body.cut), body.end),
                               !.at = IF kind = "local" THEN {o} ELSE {},
                               !.whole = body.cut = Len(body.sent)]]
    /\ IF kind = "local"
         THEN /\ link' = [link EXCEPT ![k] = {o}]
              /\ data' = [data EXCEPT ![o] = <<>>]
              /\ Override(k, p)
              /\ spoiled' = IF Writing(o) = {} THEN spoiled \ {o} ELSE spoiled \cup {o}
              /\ disturbed' = disturbed \cup Reading(o)
         ELSE UNCHANGED <<link, data, history>>
    /\ UNCHANGED <<kind, get, batch>>

\* Bytes of a PUT, behind those it has written before; a file that was truncated
\* meanwhile gets a hole.
Written(old, pos, n, p) ==
  [i \in 1..(IF pos + n > Len(old) THEN pos + n ELSE Len(old)) |->
     IF i \in (pos + 1)..(pos + n) THEN {p} ELSE IF i <= Len(old) THEN old[i] ELSE Hole]

\* One round of io.Copy: a Read, and a Write of what it returned.
Copy(p) ==
  \E room \in Rooms, k \in Keys : \E got \in Read(put[p].reader, room) :
    /\ put[p].pc = "copy" /\ put[p].key = {k}
    /\ got.err = "nil"
    /\ put' = [put EXCEPT ![p].reader = got.reader, ![p].sent = @ \o got.bytes]
    /\ IF kind = "local" /\ got.bytes # <<>>
         THEN \E o \in put[p].at :
                /\ data' = [data EXCEPT ![o] = Written(@, Len(put[p].sent), Len(got.bytes), p)]
                /\ overridden' = IF link[k] = {o} THEN overridden \cup (Effective(k) \ {p})
                                 ELSE overridden
                /\ spoiled' = IF Writing(o) = {p} THEN spoiled ELSE spoiled \cup {o}
                /\ disturbed' = disturbed \cup Reading(o)
         ELSE UNCHANGED <<data, history>>
    /\ UNCHANGED <<kind, link, folders, get, batch>>

Ended(p, err) ==
  put[p].pc = "copy" /\ \E room \in Rooms : \E got \in Read(put[p].reader, room) : got.err = err

\* The rest of a body is not read any more.
Goto(p, pc) ==
  put' = [put EXCEPT ![p].pc = pc, ![p].reader = NoPut.reader, ![p].sent = <<>>, ![p].whole = FALSE]

\* The provider makes a version of what it was sent.
Store(p, pc) ==
  \E k \in put[p].key :
    /\ put' = [put EXCEPT ![p].pc = pc, ![p].at = {p}, ![p].tag = [i \in DOMAIN put[p].sent |-> {p}],
                           ![p].reader = NoPut.reader, ![p].sent = <<>>, ![p].whole = FALSE]
    /\ link' = [link EXCEPT ![k] = {p}]
    /\ data' = [data EXCEPT ![p] = [i \in DOMAIN put[p].sent |-> {p}]]
    /\ Override(k, p)

\* A body that ended well is complete: the local backend is done, the others commit.
\* S3 compares its length with the one announced, that of the framing if the client
\* does not say how long the decoded body is.
PutCommits(p) ==
  /\ Ended(p, "eof")
  /\ CASE kind = "local" -> Goto(p, "acked") /\ UNCHANGED <<link, data, overridden>>
       [] kind = "s3"    -> IF put[p].declared /\ Len(put[p].sent) = put[p].size THEN Store(p, "acked")
                            ELSE Goto(p, "failed") /\ UNCHANGED <<link, data, overridden>>
       [] kind = "azure" -> Store(p, "acked")
       [] kind = "gcs"   -> Store(p, "attrs")
  /\ UNCHANGED <<kind, folders, get, batch, spoiled, disturbed>>

\* GCS: the ETag of the answer is asked for by name afterwards.
PutAttrs(p) ==
  /\ put[p].pc = "attrs"
  /\ \E k \in put[p].key :
       \/ link[k] = {} /\ Goto(p, "failed")
       \/ \E o \in link[k] : put' = [put EXCEPT ![p].pc = "acked", ![p].tag = data[o]]
  /\ UNCHANGED <<kind, link, folders, data, get, batch, history>>

\* Mutant: a reader's error is the end of the body.
BreaksOffAsIfWhole(p) ==
  /\ Ended(p, "error")
  /\ \/ kind # "local" /\ Store(p, "acked")
     \/ kind = "local" /\ Goto(p, "acked") /\ UNCHANGED <<link, data, overridden>>
  /\ UNCHANGED <<kind, folders, get, batch, spoiled, disturbed>>

\* A body that breaks off.  What the local backend has written stays; the writer of
\* GCS is closed, which may make a version of what came.
PutBreaksOff(p) ==
  /\ Ended(p, "error")
  /\ \/ /\ Goto(p, "failed")
        /\ spoiled' = spoiled \cup put[p].at
        /\ UNCHANGED <<link, data, overridden>>
     \/ /\ kind = "gcs"
        /\ Store(p, "failed")
        /\ spoiled' = spoiled \cup {p}
  /\ UNCHANGED <<kind, folders, get, batch, disturbed>>

\* An error of the backend or a stop of the process.  The version may be stored and
\* the answer lost.
PutFails(p) ==
  /\ put[p].pc \in {"copy", "attrs"}
  /\ \/ /\ Goto(p, "failed")
        /\ spoiled' = IF kind = "local" THEN spoiled \cup put[p].at ELSE spoiled
        /\ UNCHANGED <<link, data, overridden>>
     \/ /\ kind # "local" /\ Ended(p, "eof")
        /\ kind = "s3" => put[p].declared /\ Len(put[p].sent) = put[p].size
        /\ Store(p, "failed")
        /\ UNCHANGED spoiled
  /\ UNCHANGED <<kind, folders, get, batch, disturbed>>
-----------------------------------------------------------------------------
(***************************************************************************)
(* GET                                                                      *)
(***************************************************************************)

\* The bytes from an offset, and how many are announced.
From(q) == IF q = NoRange THEN 0 ELSE q.first
Length(q, size) ==
  IF q = NoRange THEN size
  ELSE CASE kind = "local" -> LocalLength(q, size)
         [] kind = "gcs"   -> GCSLength(q, size)
         [] kind = "azure" -> AzureLength(q, size)
         [] kind = "s3"    -> S3Length(q, size)

\* S3 reads the header itself.
Meant(q) == IF kind = "s3" THEN S3Range(q) ELSE q

\* The object by its name, with its ETag and length.  A range that begins behind it
\* is refused.
Opened(k, q, o, pc) ==
  [pc |-> pc, key |-> {k}, range |-> q, at |-> {o}, tag |-> data[o],
   from |-> From(q), length |-> Length(q, Len(data[o])), got |-> <<>>,
   cause |-> "none"]

GetObject(g, k, q) ==
  /\ get[g].pc = "idle"
  /\ \E o \in link[k] :
       /\ Meant(q) # NoRange => q.first < Len(data[o])
       /\ get' = [get EXCEPT ![g] =
            Opened(k, Meant(q), o, IF kind = "gcs" /\ q = NoRange THEN "attrs" ELSE "stream")]
  /\ UNCHANGED <<kind, link, folders, data, put, batch, history>>

\* A directory of the local backend is opened like a file.  The size it has as one is
\* announced, and then it cannot be read.
GetFolder(g, k, q) ==
  /\ get[g].pc = "idle" /\ k \in folders
  /\ \E size \in 1..MaxInt : q # NoRange => q.first < size /\ LocalLength(q, size) > 0
  /\ get' = [get EXCEPT ![g] = [NoGet EXCEPT !.pc = "broken", !.key = {k}, !.range = q,
                                            !.cause = "folder"]]
  /\ UNCHANGED <<kind, link, folders, data, put, batch, history>>

\* GCS, for the whole of an object: the reader is opened by a second call.
NewReader(g) ==
  /\ get[g].pc = "attrs"
  /\ \E k \in get[g].key :
       \/ /\ link[k] = {} /\ get' = [get EXCEPT ![g] = NoGet]
          /\ UNCHANGED disturbed
       \/ \E o \in link[k] :
            /\ get' = [get EXCEPT ![g].pc = "stream", ![g].at = {o}]
            /\ disturbed' = IF get[g].at = {o} THEN disturbed ELSE disturbed \cup {g}
  /\ UNCHANGED <<kind, link, folders, data, put, batch, overridden, spoiled>>

\* Mutant: the file is looked up by its name for every buffer.
StreamByName(g) ==
  /\ get[g].pc = "stream"
  /\ Len(get[g].got) < get[g].length
  /\ \E k \in get[g].key : \E o \in link[k] :
       LET i == get[g].from + Len(get[g].got) + 1 IN
       get' = IF i <= Len(data[o]) THEN [get EXCEPT ![g].got = Append(@, data[o][i])]
              ELSE [get EXCEPT ![g].pc = "broken"]
  /\ UNCHANGED <<kind, link, folders, data, put, batch, history>>

\* The next byte, or the end of the object before the announced length: the server
\* then closes the connection.  What is beyond that length is not sent.
Stream(g) ==
  /\ get[g].pc = "stream"
  /\ Len(get[g].got) < get[g].length
  /\ \E o \in get[g].at :
       LET i == get[g].from + Len(get[g].got) + 1 IN
       get' = IF i <= Len(data[o]) THEN [get EXCEPT ![g].got = Append(@, data[o][i])]
              ELSE [get EXCEPT ![g].pc = "broken"]
  /\ UNCHANGED <<kind, link, folders, data, put, batch, history>>

\* The object cannot be read any more: the error is ignored, and the answer ends
\* before the announced length all the same.
StreamFails(g) ==
  /\ get[g].pc = "stream"
  /\ Len(get[g].got) < get[g].length
  /\ get' = [get EXCEPT ![g].pc = "broken", ![g].cause = "error"]
  /\ UNCHANGED <<kind, link, folders, data, put, batch, history>>

GetEnds(g) ==
  /\ get[g].pc = "stream"
  /\ Len(get[g].got) = get[g].length
  /\ get' = [get EXCEPT ![g].pc = "done"]
  /\ UNCHANGED <<kind, link, folders, data, put, batch, history>>

\* The answer has been looked at, or the client went away.
Leave(g) ==
  /\ get[g].pc # "idle"
  /\ get' = [get EXCEPT ![g] = NoGet]
  /\ disturbed' = disturbed \ {g}
  /\ UNCHANGED <<kind, link, folders, data, put, batch, overridden, spoiled>>
-----------------------------------------------------------------------------
(***************************************************************************)
(* DELETE                                                                   *)
(***************************************************************************)

\* A directory can be removed if it is empty.
Removable(k) ==
  k \in folders => \A x \in Keys : k \in In[x] => link[x] = {} /\ x \notin folders

\* A name is removed.  A file stays for those that have it open.
Unlink(ks) ==
  /\ folders' = folders \ ks
  /\ link' = [k \in Keys |-> IF k \in ks THEN {} ELSE link[k]]
  /\ overridden' = overridden \cup UNION {Effective(k) : k \in ks}

DeleteObject(k) ==
  /\ link[k] # {} \/ k \in folders
  /\ Removable(k)
  /\ Unlink({k})
  /\ UNCHANGED <<kind, data, put, get, batch, spoiled, disturbed>>

DeleteObjects(ks) ==
  /\ batch.pc = "idle"
  /\ batch' = [pc |-> "loop", before |-> link, left |-> ks, errors |-> Keys \ ks]
  /\ UNCHANGED <<kind, link, folders, data, put, get, history>>

\* Mutant: a key that failed stays in the list as well.
DeleteRetries(gone, failed) ==
  /\ Unlink(gone)
  /\ batch' = [batch EXCEPT !.left = @ \ gone, !.errors = @ \cup failed]

\* Mutant: an error ends the loop, and the rest is reported deleted.
DeleteStops(gone, failed) ==
  /\ Unlink(gone)
  /\ batch' = [batch EXCEPT !.left = IF failed = {} THEN @ \ gone ELSE {}, !.errors = @ \cup failed]

DeleteSome(gone, failed) ==
  /\ Unlink(gone)
  /\ batch' = [batch EXCEPT !.left = @ \ (gone \cup failed), !.errors = @ \cup failed]

\* The keys one by one, whatever becomes of each, or S3 all of them in one call.
DeleteNext ==
  /\ batch.pc = "loop" /\ batch.left # {}
  /\ \E gone, failed \in SUBSET batch.left :
       /\ gone \cap failed = {} /\ \A k \in gone : Removable(k)
       /\ IF kind = "s3" THEN gone \cup failed = batch.left ELSE Cardinality(gone \cup failed) = 1
       /\ DeleteSome(gone, failed)
  /\ UNCHANGED <<kind, data, put, get, spoiled, disturbed>>

BatchAnswers ==
  /\ batch.pc = "loop" /\ batch.left = {}
  /\ batch' = [batch EXCEPT !.pc = "answered"]
  /\ UNCHANGED <<kind, link, folders, data, put, get, history>>

\* An answer has been looked at, or S3 refused the call.
BatchLeaves ==
  /\ batch.pc # "idle"
  /\ batch' = NoBatch
  /\ UNCHANGED <<kind, link, folders, data, put, get, history>>
-----------------------------------------------------------------------------
PutEnds(p) == Copy(p) \/ PutCommits(p) \/ PutAttrs(p) \/ PutBreaksOff(p)
GetSteps(g) == NewReader(g) \/ Stream(g) \/ StreamFails(g) \/ GetEnds(g)

Write(p) == (\E k \in Keys : PutObject(p, k)) \/ PutEnds(p) \/ PutFails(p)
Fetch(g) == \/ \E k \in Keys, q \in Asked : GetObject(g, k, q) \/ GetFolder(g, k, q)
            \/ GetSteps(g) \/ Leave(g)
Clear == \/ \E k \in Keys : DeleteObject(k)
         \/ \E ks \in SUBSET Keys \ {{}} : DeleteObjects(ks)
         \/ DeleteNext \/ BatchAnswers \/ BatchLeaves

Next == (\E p \in Puts : Write(p)) \/ (\E g \in Gets : Fetch(g)) \/ Clear
Spec == Init /\ [][Next]_vars

\* A handler goes on copying: what it reads from has come, or is lost.
FairSpec == Spec /\ \A p \in Puts : WF_vars(PutEnds(p))
-----------------------------------------------------------------------------
Stored == Seq({{p} : p \in Puts} \cup {Hole})

\* The types of what is stored, that a stored object has one name at most, and that no
\* key names both a file and a directory.
TypeOK ==
  /\ kind \in Kinds
  /\ folders \subseteq Keys /\ \A k \in folders : kind = "local" /\ link[k] = {}
  /\ \A k \in Keys : link[k] = {} \/ \E p \in Puts : link[k] = {p} /\ put[p].key = {k}
  /\ \A p \in Puts : data[p] \in Stored /\ put[p].pc \in {"new", "copy", "attrs", "acked", "failed"}
  /\ \A g \in Gets : get[g].pc \in {"idle", "attrs", "stream", "done", "broken"} /\ get[g].got \in Stored
  /\ batch.pc \in {"idle", "loop", "answered"} /\ batch.left \cap batch.errors = {}
  /\ overridden \subseteq Puts /\ spoiled \subseteq Puts /\ disturbed \subseteq Gets

\* However the framing is split over the buffers of Read, the bytes of the body come
\* out once and in order, and a body that is whole gives no error and ends with all
\* of them.
BodyIsDecoded ==
  \A p \in Puts :
    /\ \A i \in DOMAIN put[p].sent : put[p].sent[i] = Token("byte", i)
    /\ put[p].whole => ~Ended(p, "error") /\ (Ended(p, "eof") => Len(put[p].sent) = put[p].size)

\* A PUT that was answered with 200 is what is stored, to its last byte and with its
\* own ETag, until another PUT of the key or a DELETE takes effect.  So a body that
\* breaks off, in its framing or with the connection, is never acknowledged.
AckedIsStored ==
  \A p \in Puts \ overridden :
    put[p].pc = "acked" =>
      /\ \E o \in put[p].at : put[p].key # {} /\ \A k \in put[p].key : link[k] = {o} /\ data[o] = Whole(p)
      /\ kind # "local" => put[p].tag = Whole(p)

\* What can be read under a key is the whole body of one PUT, but for a file that is
\* being written, and objects damaged for one of three reasons: a PUT of the local
\* backend that failed, which has destroyed the object there was; two of them at
\* once; a body that broke off on its way to GCS.  On S3 and Azure there is no reason.
StoredIsWhole ==
  \A k \in Keys : \A o \in link[k] :
    \/ \E p \in Puts : data[o] = Whole(p)
    \/ o \in spoiled /\ kind \in {"local", "gcs"}
    \/ Writing(o) # {}

\* What a GET delivers without an error is the bytes its ETag stands for, those from
\* first to last if it asked for them (backend.go, "only that byte range is returned"),
\* and what it delivers before it breaks off is a beginning of these.  The exceptions
\* are a file written while it was read, and the two calls of GCS; and a range that
\* ends just before it begins, for which GCS and the local backend return nothing.
OneVersion ==
  \A g \in Gets \ disturbed :
    LET q == get[g].range
        tag == get[g].tag
        got == get[g].got
        last == IF q = NoRange \/ q.last \notin q.first..(Len(tag) - 1) THEN Len(tag) - 1 ELSE q.last
    IN /\ get[g].pc = "done" =>
            \/ got = SubSeq(tag, From(q) + 1, last + 1)
            \/ kind \in {"gcs", "local"} /\ EndsBefore(q) /\ q.last = q.first - 1
       /\ get[g].pc = "broken" => got = SubSeq(tag, get[g].from + 1, get[g].from + Len(got))

\* A GET breaks off for one of the two causes above, or because the object could not be
\* read to its end, or was a directory of the local backend, or because that backend
\* announces more than there is for a range that ends at the largest number: for every
\* other range, and for every object as long as the one that was opened, the announced
\* length is there.
BrokenForCause ==
  \A g \in Gets :
    get[g].pc = "broken" =>
      \/ g \in disturbed
      \/ get[g].cause \in {"error", "folder"}
      \/ kind = "local" /\ Overflows(get[g].range)

\* A key the answer to DeleteObjects does not report as an error was removed, even
\* if another one failed before it.
DeletedIsGone ==
  batch.pc = "answered" =>
    \A k \in Keys \ batch.errors : link[k] = {} \/ link[k] # batch.before[k]

\* A PUT comes to an end, unless its body ends within a chunk of the framing.
PutReturns == \A p \in Puts : put[p].pc = "copy" ~> (put[p].pc # "copy" \/ Endless(put[p].reader))
=============================================================================
