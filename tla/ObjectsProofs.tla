---------------------------- MODULE ObjectsProofs ----------------------------
(***************************************************************************)
(* Proofs about Objects: for any keys, requests, bodies, sizes of buffers, *)
(* ranges and width of the numbers.                                        *)
(***************************************************************************)
EXTENDS Objects, FiniteSetTheorems, SequenceTheorems, TLAPS

-----------------------------------------------------------------------------
(***************************************************************************)
(* The inductive invariant.                                                *)
(***************************************************************************)
Readers == [chunked : BOOLEAN, body : Seq(Tokens), end : {"eof", "broken"},
            remaining : Nat, done : {FALSE}]
PutTypes == [pc : {"new", "copy", "attrs", "acked", "failed"}, key : SUBSET Keys, size : 0..MaxInt,
             declared : BOOLEAN, reader : Readers, sent : Seq(Tokens), at : SUBSET Puts,
             tag : Stored, whole : BOOLEAN]
RangesOf == [first : 0..MaxInt, last : {Open} \cup 0..MaxInt]
GetTypes == [pc : {"idle", "attrs", "stream", "done", "broken"}, key : SUBSET Keys,
             range : {NoRange} \cup RangesOf, at : SUBSET Puts, tag : Stored,
             from : Nat, length : Int, got : Stored, cause : {"none", "error", "folder"}]
BatchTypes == [pc : {"idle", "loop", "answered"}, before : [Keys -> SUBSET Puts],
               left : SUBSET Keys, errors : SUBSET Keys]

Typed ==
  /\ kind \in Kinds
  /\ link \in [Keys -> SUBSET Puts]
  /\ data \in [Puts -> Stored]
  /\ put \in [Puts -> PutTypes]
  /\ get \in [Gets -> GetTypes]
  /\ batch \in BatchTypes
  /\ overridden \subseteq Puts /\ spoiled \subseteq Puts /\ disturbed \subseteq Gets

(* What a reader still has to return is a body from some position to where it is cut. *)
Rest(r, sent, cut, pos) ==
  /\ pos \in 0..cut
  /\ Len(r.body) = cut - pos
  /\ \A i \in 1..(cut - pos) : r.body[i] = sent[pos + i]

(* Between two chunks count bytes have come, and what comes is a header. *)
AtHeader(r, sent, cut, pos, count) ==
  /\ pos < cut => sent[pos + 1].t = "size" /\ Before(sent, pos + 1) = count
  /\ cut = Len(sent) => pos < cut

(* Within a chunk its bytes come, a line end and another header. *)
InChunk(r, sent, pos, count) ==
  /\ pos + r.remaining + 2 <= Len(sent)
  /\ \A j \in 1..r.remaining : sent[pos + j] = Token("byte", count + j)
  /\ sent[pos + r.remaining + 1].t = "line"
  /\ sent[pos + r.remaining + 2].t = "size"

(* A reader of a body that has returned count bytes. *)
Reads(r, body, pos, count) ==
  /\ r.chunked = body.chunked /\ r.end = body.end
  /\ Rest(r, body.sent, body.cut, pos)
  /\ count + r.remaining <= body.size
  /\ ~body.chunked => pos = count /\ r.remaining = 0
  /\ body.chunked /\ r.remaining = 0 => AtHeader(r, body.sent, body.cut, pos, count)
  /\ body.chunked /\ r.remaining > 0 => InChunk(r, body.sent, pos, count)

ReaderInv(p) ==
  /\ \A i \in DOMAIN put[p].sent : put[p].sent[i] = Token("byte", i)
  /\ put[p].pc # "copy" => ~put[p].whole
  /\ put[p].pc = "copy" =>
       \E body \in Bodies[p] :
         /\ put[p].size = body.size
         /\ put[p].whole <=> body.cut = Len(body.sent)
         /\ \E pos \in Nat : Reads(put[p].reader, body, pos, Len(put[p].sent))

(* No object is longer than a number can say. *)
SizeInv(o) == Len(data[o]) <= MaxInt

(* A stored object keeps to the key of the PUT that made it. *)
IsObject(o, k) == o \in Puts /\ put[o].key = {k} /\ put[o].at = {o}

(* Where a PUT has its bytes: on the local backend in a file that may be another's, *)
(* on the others in a version of its own once that is made.                         *)
PlaceInv(p) ==
  /\ put[p].pc = "new" => put[p].key = {} /\ put[p].at = {}
  /\ put[p].pc # "new" => \E k \in Keys : put[p].key = {k}
  /\ kind = "local" /\ put[p].pc # "new" =>
       /\ put[p].pc # "attrs"
       /\ \E o \in Puts, k \in Keys : put[p].at = {o} /\ put[p].key = {k} /\ IsObject(o, k)
  /\ kind # "local" =>
       /\ put[p].at \subseteq {p}
       /\ put[p].pc = "copy" => put[p].at = {}
       /\ put[p].pc \in {"attrs", "acked"} => put[p].at = {p}
  /\ put[p].pc = "attrs" => kind = "gcs"

NameInv(k) == \A o \in link[k] : link[k] = {o} /\ IsObject(o, k)

(* A PUT nothing took effect after is what its key names. *)
LatestInv(p) ==
  p \notin overridden => \A o \in put[p].at : \A k \in put[p].key : link[k] = {o}

Run(p, n) == [i \in 1..n |-> {p}]

(* Versions: whole, but for a body that broke off on its way to GCS. *)
VersionInv(p) ==
  kind # "local" =>
    /\ put[p].at = {p} => data[p] = Whole(p) \/ (kind = "gcs" /\ p \in spoiled)
    /\ put[p].pc \in {"attrs", "acked"} => data[p] = Whole(p)
    /\ put[p].pc = "acked" => put[p].tag = Whole(p) \/ (kind = "gcs" /\ p \in overridden)

(* Files: one that is not damaged has one writer, who began with an empty file, or *)
(* none, and then is whole.                                                        *)
FileInv(o) ==
  kind = "local" /\ put[o].at = {o} /\ o \notin spoiled =>
    \/ \E p \in Puts : Writing(o) = {p} /\ data[o] = Run(p, Len(put[p].sent))
    \/ Writing(o) = {} /\ \E p \in Puts : put[p].pc # "new" /\ data[o] = Whole(p)

(* And the latest PUT has written what it has sent, whoever else writes. *)
WriterInv(p) ==
  kind = "local" /\ p \notin overridden =>
    \A o \in put[p].at :
      /\ put[p].pc = "copy" => data[o] = Run(p, Len(put[p].sent))
      /\ put[p].pc = "acked" => data[o] = Whole(p)

(* A GET that nobody disturbed has the bytes that were there when it began, but for *)
(* one of a directory, which has found no object.                                    *)
Copied(q) ==
  \A i \in 1..Len(q.got) : q.from + i <= Len(q.tag) /\ q.got[i] = q.tag[q.from + i]

GetInv(g) ==
  LET q == get[g] IN
  /\ q.pc # "idle" /\ q.cause # "folder" =>
       /\ \E o \in Puts, k \in Keys : q.at = {o} /\ q.key = {k} /\ IsObject(o, k)
       /\ q.range # NoRange => q.range.first < Len(q.tag)
       /\ kind = "s3" => ~EndsBefore(q.range)
       /\ Len(q.tag) <= MaxInt
       /\ q.from = From(q.range) /\ q.length = Length(q.range, Len(q.tag))
  /\ q.pc = "attrs" => kind = "gcs" /\ q.got = <<>> /\ \A o \in q.at : data[o] = q.tag
  /\ q.pc \in {"stream", "done", "broken"} /\ g \notin disturbed => Copied(q)
  /\ q.pc = "stream" /\ g \notin disturbed => \A o \in q.at : data[o] = q.tag
  /\ q.pc = "done" => Len(q.got) = q.length
  /\ q.pc # "broken" => q.cause = "none"
  /\ q.cause = "folder" => q.got = <<>> /\ q.tag = <<>> /\ q.from = 0
  /\ q.pc = "broken" => \/ g \in disturbed \/ q.cause \in {"error", "folder"}
                        \/ kind = "local" /\ Overflows(q.range)

BatchInv ==
  /\ batch.left \cap batch.errors = {}
  /\ batch.pc # "idle" =>
    /\ batch.pc = "answered" => batch.left = {}
    /\ \A k \in Keys : \A o \in batch.before[k] : batch.before[k] = {o} /\ IsObject(o, k)
    /\ \A k \in Keys \ (batch.left \cup batch.errors) : link[k] = {} \/ link[k] # batch.before[k]

Inv ==
  /\ Typed
  /\ \A p \in Puts : ReaderInv(p) /\ PlaceInv(p) /\ LatestInv(p) /\ VersionInv(p)
                     /\ SizeInv(p) /\ FileInv(p) /\ WriterInv(p)
  /\ \A k \in Keys : NameInv(k)
  /\ \A g \in Gets : GetInv(g)
  /\ BatchInv
-----------------------------------------------------------------------------
(***************************************************************************)
(* Sequences: what is left after, and what is taken of, the first n        *)
(* elements.                                                               *)
(***************************************************************************)
LEMMA AfterFirst ==
  ASSUME NEW S, NEW s \in Seq(S), NEW n \in Nat, n <= Len(s)
  PROVE  /\ SubSeq(s, n + 1, Len(s)) \in Seq(S)
         /\ Len(SubSeq(s, n + 1, Len(s))) = Len(s) - n
         /\ \A i \in 1..(Len(s) - n) : SubSeq(s, n + 1, Len(s))[i] = s[n + i]
<1>1. /\ Len(s) \in Nat
      /\ \A i \in (n + 1)..Len(s) : s[i] \in S
  OBVIOUS
<1>2. /\ SubSeq(s, n + 1, Len(s)) \in Seq(S)
      /\ Len(SubSeq(s, n + 1, Len(s))) = IF n + 1 <= Len(s) THEN Len(s) - (n + 1) + 1 ELSE 0
      /\ \A i \in 1..(Len(s) - (n + 1) + 1) : SubSeq(s, n + 1, Len(s))[i] = s[n + 1 + i - 1]
  BY <1>1, SubSeqProperties
<1>3. Len(s) - (n + 1) + 1 = Len(s) - n /\ \A i \in Int : n + 1 + i - 1 = n + i
  BY <1>1
<1>4. ASSUME NEW i \in 1..(Len(s) - n) PROVE SubSeq(s, n + 1, Len(s))[i] = s[n + i]
  <2>1. i \in 1..(Len(s) - (n + 1) + 1) /\ n + 1 + i - 1 = n + i
    BY <1>1
  <2>2. SubSeq(s, n + 1, Len(s))[i] = s[n + 1 + i - 1]
    BY <2>1, <1>2
  <2>3. QED
    BY <2>1, <2>2
<1>5. Len(SubSeq(s, n + 1, Len(s))) = Len(s) - n
  BY <1>1, <1>2
<1>6. QED
  BY <1>2, <1>4, <1>5

LEMMA First ==
  ASSUME NEW S, NEW s \in Seq(S), NEW n \in Nat, n <= Len(s)
  PROVE  /\ SubSeq(s, 1, n) \in Seq(S)
         /\ Len(SubSeq(s, 1, n)) = n
         /\ \A i \in 1..n : SubSeq(s, 1, n)[i] = s[i]
<1>1. Len(s) \in Nat /\ \A i \in 1..n : s[i] \in S
  OBVIOUS
<1>2. /\ SubSeq(s, 1, n) \in Seq(S)
      /\ Len(SubSeq(s, 1, n)) = IF 1 <= n THEN n - 1 + 1 ELSE 0
      /\ \A i \in 1..(n - 1 + 1) : SubSeq(s, 1, n)[i] = s[1 + i - 1]
  BY <1>1, SubSeqProperties
<1>3. n - 1 + 1 = n /\ \A i \in Int : 1 + i - 1 = i
  OBVIOUS
<1>4. QED
  BY <1>2, <1>3

(***************************************************************************)
(* The reader.                                                             *)
(***************************************************************************)

(* The line end behind a chunk, if it has come, is one token. *)
LEMMA SwallowLine ==
  ASSUME NEW rest \in Seq(Tokens), rest # <<>> => rest[1].t = "line"
  PROVE  Swallow(rest) = IF rest = <<>> THEN <<>> ELSE SubSeq(rest, 2, Len(rest))
<1>1. CASE rest = <<>>
  BY <1>1 DEF Swallow
<1>2. CASE rest # <<>>
  <2>1. 1 \in DOMAIN rest /\ rest[1].t # "byte"
    BY <1>2
  <2> DEFINE P(i) == rest[i].t # "byte" /\ \A j \in 1..(i - 1) : rest[j].t = "byte"
  <2>2. P(1)
    BY <2>1
  <2>3. \A i \in DOMAIN rest : P(i) => i = 1
    BY <2>1
  <2>4. (CHOOSE i \in DOMAIN rest : P(i)) = 1
    BY <2>1, <2>2, <2>3
  <2>5. QED
    BY <1>2, <2>1, <2>4 DEF Swallow
<1>3. QED
  BY <1>1, <1>2

(* What one call of Read returns when count bytes of the body have come before. *)
Result(got, body, count) ==
  /\ got.err \in {"nil", "eof", "error"}
  /\ got.bytes \in Seq(Tokens)
  /\ \A i \in DOMAIN got.bytes : got.bytes[i] = Token("byte", count + i)
  /\ count + Len(got.bytes) <= body.size
  /\ got.err = "nil" =>
       /\ got.reader \in Readers
       /\ \E pos \in Nat : Reads(got.reader, body, pos, count + Len(got.bytes))
  /\ got.err = "eof" => count = body.size
  /\ got.err = "error" => body.cut # Len(body.sent)

Onward(r, rest, m) == [r EXCEPT !.body = rest, !.remaining = m]

LEMMA OnwardType ==
  ASSUME NEW r \in Readers, NEW rest \in Seq(Tokens), NEW m \in Nat
  PROVE  /\ Onward(r, rest, m) \in Readers
         /\ Onward(r, rest, m).body = rest /\ Onward(r, rest, m).remaining = m
         /\ Onward(r, rest, m).chunked = r.chunked /\ Onward(r, rest, m).end = r.end
BY DEF Onward, Readers

(* Within a chunk: bytes of it, as many as are left of it at most. *)
LEMMA ReadDataResult ==
  ASSUME NEW body, IsSending(body), body.chunked,
         NEW r \in Readers, NEW pos \in Nat, NEW count \in Nat, NEW room \in Nat \ {0},
         Reads(r, body, pos, count), r.remaining > 0,
         NEW got \in ReadData(r, room)
  PROVE  Result(got, body, count)
<1> DEFINE sent == body.sent
           cut == body.cut
<1>0. r \in Readers /\ 0 \in Nat /\ <<>> \in Seq(Tokens)
  OBVIOUS
<1>1. /\ sent \in Seq(Tokens) /\ Len(sent) \in Nat /\ cut \in 0..Len(sent)
      /\ r.body \in Seq(Tokens) /\ r.remaining \in Nat /\ r.chunked \in BOOLEAN
      /\ r.end \in {"eof", "broken"} /\ r.done = FALSE
  <2>1. sent \in Seq(Tokens) /\ cut \in 0..Len(sent)
    BY DEF IsSending, Framed
  <2>2. Len(sent) \in Nat
    BY <2>1
  <2>3. QED
    BY <2>1, <2>2 DEF Readers
<1>2. /\ r.chunked = body.chunked /\ r.end = body.end /\ r.chunked
      /\ pos \in 0..cut /\ Len(r.body) = cut - pos
      /\ pos + r.remaining + 2 <= Len(sent)
      /\ count + r.remaining <= body.size /\ body.size \in Nat
  BY DEF Reads, Rest, InChunk, IsSending
<1>6. \A i \in 1..(cut - pos) : r.body[i] = sent[pos + i]
  BY DEF Reads, Rest
<1>7. /\ \A j \in 1..r.remaining : sent[pos + j] = Token("byte", count + j)
      /\ sent[pos + r.remaining + 1].t = "line"
      /\ sent[pos + r.remaining + 2].t = "size"
  BY DEF Reads, InChunk
<1> HIDE DEF sent, cut
<1>3. CASE r.body = <<>>
  <2>1. got = Outcome(<<>>, IF r.end = "eof" THEN "nil" ELSE "error", r)
    BY <1>3 DEF ReadData
  <2>2. /\ got.bytes = <<>> /\ got.reader = r /\ Len(got.bytes) = 0 /\ DOMAIN got.bytes = {}
        /\ got.err \in {"nil", "error"} /\ got.bytes \in Seq(Tokens)
    BY <2>1 DEF Outcome
  <2>3. cut # Len(sent)
    BY <1>1, <1>2, <1>3
  <2>4. count + Len(got.bytes) = count /\ count <= body.size
    BY <2>2, <1>1, <1>2
  <2>5. QED
    BY <2>2, <2>3, <2>4 DEF Result, sent, cut
<1>4. CASE r.body # <<>>
  <2>1. PICK n \in Some(r, IF room < r.remaining THEN room ELSE r.remaining) :
          LET rest == SubSeq(r.body, n + 1, Len(r.body)) IN
          got = Outcome(SubSeq(r.body, 1, n), "nil",
                        [r EXCEPT !.body = IF n = r.remaining THEN Swallow(rest) ELSE rest,
                                  !.remaining = @ - n])
    BY <1>4 DEF ReadData
  <2> DEFINE rest == SubSeq(r.body, n + 1, Len(r.body))
             left == IF n = r.remaining THEN Swallow(rest) ELSE rest
             s == [r EXCEPT !.body = left, !.remaining = @ - n]
  <2>2. n \in Nat \ {0} /\ n <= r.remaining /\ n <= Len(r.body)
    BY <1>1 DEF Some
  <2>3. /\ rest \in Seq(Tokens) /\ Len(rest) = Len(r.body) - n
        /\ \A i \in 1..(Len(r.body) - n) : rest[i] = r.body[n + i]
    BY <1>1, <2>2, AfterFirst
  <2>4. /\ SubSeq(r.body, 1, n) \in Seq(Tokens) /\ Len(SubSeq(r.body, 1, n)) = n
        /\ \A i \in 1..n : SubSeq(r.body, 1, n)[i] = r.body[i]
    BY <1>1, <2>2, First
  <2>5. got.bytes = SubSeq(r.body, 1, n) /\ got.err = "nil" /\ got.reader = s
    BY <2>1 DEF Outcome
  <2> HIDE DEF rest, left, s
  <2>6. \A i \in 1..(cut - (pos + n)) : rest[i] = sent[pos + n + i]
    <3> SUFFICES ASSUME NEW i \in 1..(cut - (pos + n)) PROVE rest[i] = sent[pos + n + i]
      OBVIOUS
    <3>1. i \in 1..(Len(r.body) - n) /\ n + i \in 1..(cut - pos) /\ pos + (n + i) = pos + n + i
      BY <1>1, <1>2, <2>2
    <3>2. QED
      BY <3>1, <1>6, <2>3
  <2>7. /\ \A i \in DOMAIN got.bytes : got.bytes[i] = Token("byte", count + i)
        /\ got.bytes \in Seq(Tokens) /\ Len(got.bytes) = n
    <3>1. got.bytes \in Seq(Tokens) /\ Len(got.bytes) = n /\ DOMAIN got.bytes = 1..n
      BY <2>4, <2>5
    <3>2. \A i \in 1..n : i \in 1..r.remaining /\ i \in 1..(cut - pos)
      BY <1>1, <1>2, <2>2
    <3>3. \A i \in 1..n : got.bytes[i] = Token("byte", count + i)
      BY <3>2, <2>4, <2>5, <1>6, <1>7
    <3>4. QED
      BY <3>1, <3>3
  <2>7a. count + n + (r.remaining - n) <= body.size /\ count + n <= body.size /\ count + n + 0 = count + n
    BY <2>2, <1>1, <1>2
  <2>8. CASE n = r.remaining
    <3>1. rest # <<>> => rest[1].t = "line"
      <4> SUFFICES ASSUME rest # <<>> PROVE rest[1].t = "line"
        OBVIOUS
      <4>1. 1 \in 1..(cut - (pos + n))
        BY <1>1, <1>2, <2>2, <2>3
      <4>2. QED
        BY <4>1, <2>6, <2>8, <1>7
    <3>2. left = IF rest = <<>> THEN <<>> ELSE SubSeq(rest, 2, Len(rest))
      BY <3>1, <2>3, <2>8, SwallowLine DEF left
    <3>3. CASE rest = <<>>
      <4>1. pos + n = cut /\ cut # Len(sent)
        <5>1. Len(rest) = 0
          BY <3>3
        <5>2. Len(rest) = cut - pos - n
          BY <2>3, <1>2
        <5>3. /\ pos \in Int /\ cut \in Int /\ n \in Int /\ Len(sent) \in Int
              /\ pos + n + 2 <= Len(sent)
          BY <1>1, <1>2, <2>2, <2>8
        <5>4. QED
          BY ONLY <5>1, <5>2, <5>3
      <4>2. s = Onward(r, rest, 0)
        <5>1. r.remaining - n = 0 /\ left = rest
          BY <3>2, <3>3, <2>8, <1>1
        <5>2. QED
          BY <5>1 DEF s, Onward
      <4>3. /\ s \in Readers /\ s.body = rest /\ s.remaining = 0
            /\ s.chunked = r.chunked /\ s.end = r.end
        <5>1. /\ Onward(r, rest, 0) \in Readers
              /\ Onward(r, rest, 0).body = rest /\ Onward(r, rest, 0).remaining = 0
              /\ Onward(r, rest, 0).chunked = r.chunked /\ Onward(r, rest, 0).end = r.end
          BY ONLY <1>0, <2>3, OnwardType
        <5>2. QED
          BY <4>2, <5>1
      <4>4. Reads(s, body, pos + n, count + n)
        <5>1. Rest(s, sent, cut, pos + n)
          <6>1. Len(rest) = 0 /\ s.body = rest /\ cut - (pos + n) = 0 /\ pos + n \in 0..cut
            BY <3>3, <4>1, <4>3, <1>1, <1>2, <2>2
          <6>2. QED
            BY <6>1 DEF Rest
        <5>2. AtHeader(s, sent, cut, pos + n, count + n)
          BY <4>1, <1>1, <1>2, <2>2 DEF AtHeader
        <5>3. QED
          BY <5>1, <5>2, <4>3, <1>2, <2>7a DEF Reads, sent, cut
      <4>5. QED
        BY <4>3, <4>4, <2>2, <2>5, <2>7, <2>7a DEF Result
    <3>4. CASE rest # <<>>
      <4> DEFINE next == SubSeq(rest, 2, Len(rest))
      <4>1. 1 <= Len(rest)
        BY <3>4, <2>3
      <4>2. /\ next \in Seq(Tokens) /\ Len(next) = Len(rest) - 1
            /\ \A i \in 1..(Len(rest) - 1) : next[i] = rest[1 + i]
        BY <2>3, <4>1, AfterFirst
      <4>3. s = Onward(r, next, 0)
        <5>1. r.remaining - n = 0 /\ left = next
          BY <3>2, <3>4, <2>8, <1>1
        <5>2. QED
          BY <5>1 DEF s, Onward
      <4> HIDE DEF next
      <4>4. s \in Readers /\ s.body = next /\ s.remaining = 0 /\ s.chunked = r.chunked /\ s.end = r.end
        <5>1. /\ Onward(r, next, 0) \in Readers
              /\ Onward(r, next, 0).body = next /\ Onward(r, next, 0).remaining = 0
              /\ Onward(r, next, 0).chunked = r.chunked /\ Onward(r, next, 0).end = r.end
          BY ONLY <1>0, <4>2, OnwardType
        <5>2. QED
          BY <4>3, <5>1
      <4>5. pos + n + 1 \in 0..cut /\ Len(next) = cut - (pos + n + 1)
        <5>1. /\ pos \in Int /\ cut \in Int /\ n \in Int /\ pos >= 0 /\ n >= 0
              /\ Len(rest) = cut - pos - n
          BY <1>1, <1>2, <2>2, <2>3
        <5>2. 1 <= Len(rest) /\ Len(next) = Len(rest) - 1
          BY <4>1, <4>2
        <5>3. QED
          BY ONLY <5>1, <5>2
      <4>6. \A i \in 1..(cut - (pos + n + 1)) : next[i] = sent[pos + n + 1 + i]
        <5> SUFFICES ASSUME NEW i \in 1..(cut - (pos + n + 1)) PROVE next[i] = sent[pos + n + 1 + i]
          OBVIOUS
        <5>1. i \in 1..(Len(rest) - 1) /\ 1 + i \in 1..(cut - (pos + n))
              /\ pos + n + (1 + i) = pos + n + 1 + i
          BY <4>5, <4>2, <1>1, <1>2, <2>2
        <5>2. QED
          BY <5>1, <4>2, <2>6
      <4>7. Before(sent, pos + n + 1 + 1) = count + n /\ sent[pos + n + 1 + 1].t = "size"
        <5>1. sent[pos + n] = Token("byte", count + n)
          <6>1. n \in 1..r.remaining
            BY <2>2
          <6>2. QED
            BY ONLY <6>1, <1>7
        <5>2. Before(sent, pos + n + 2) = count + n
          <6>1. pos + n + 2 # 1 /\ pos + n + 2 - 2 = pos + n
            BY <2>2
          <6>2. Before(sent, pos + n + 2) = sent[pos + n].n
            BY <6>1, <2>2 DEF Before
          <6>3. QED
            BY <6>2, <5>1 DEF Token
        <5>3. pos + n + 1 + 1 = pos + n + 2
          BY <2>2
        <5>4. QED
          BY <5>2, <5>3, <1>7, <2>8
      <4>8. cut = Len(sent) => pos + n + 1 < cut
        BY <1>1, <1>2, <2>2, <2>8
      <4>9. Reads(s, body, pos + n + 1, count + n)
        <5>1. Rest(s, sent, cut, pos + n + 1)
          BY <4>4, <4>5, <4>6 DEF Rest
        <5>2. AtHeader(s, sent, cut, pos + n + 1, count + n)
          BY <4>7, <4>8 DEF AtHeader
        <5>3. QED
          BY <5>1, <5>2, <4>4, <1>2, <2>7a DEF Reads, sent, cut
      <4>10. pos + n + 1 \in Nat
        BY <2>2
      <4>11. QED
        BY <4>4, <4>9, <4>10, <2>5, <2>7, <2>7a DEF Result
    <3>5. QED
      BY <3>3, <3>4
  <2>9. CASE n # r.remaining
    <3>1. s = Onward(r, rest, r.remaining - n)
      BY <2>9 DEF s, left, Onward
    <3>2. /\ s \in Readers /\ s.body = rest /\ s.remaining = r.remaining - n /\ s.remaining > 0
          /\ s.chunked = r.chunked /\ s.end = r.end
      <4>1. r.remaining - n \in Nat /\ r.remaining - n > 0
        BY <1>1, <2>2, <2>9
      <4>2. QED
        <5> DEFINE m == r.remaining - n
        <5>1. m \in Nat
          BY <4>1
        <5> HIDE DEF m
        <5>2. /\ Onward(r, rest, m) \in Readers
              /\ Onward(r, rest, m).body = rest /\ Onward(r, rest, m).remaining = m
              /\ Onward(r, rest, m).chunked = r.chunked /\ Onward(r, rest, m).end = r.end
          BY ONLY <1>0, <2>3, <5>1, OnwardType
        <5>3. QED
          BY <3>1, <4>1, <5>2 DEF m
    <3>3. pos + n \in 0..cut /\ Len(rest) = cut - (pos + n)
      <4>1. n \in Nat /\ pos \in Nat /\ cut \in Nat /\ n <= cut - pos
        BY ONLY <1>1, <1>2, <2>2
      <4>2. Len(rest) = (cut - pos) - n
        BY ONLY <1>2, <2>3
      <4>3. QED
        BY ONLY <4>1, <4>2
    <3>4. \A j \in 1..(r.remaining - n) : sent[pos + n + j] = Token("byte", count + n + j)
      <4> SUFFICES ASSUME NEW j \in 1..(r.remaining - n)
                   PROVE  sent[pos + n + j] = Token("byte", count + n + j)
        OBVIOUS
      <4>1. n + j \in 1..r.remaining /\ pos + (n + j) = pos + n + j /\ count + (n + j) = count + n + j
        BY <1>1, <2>2
      <4>2. QED
        BY <4>1, <1>7
    <3>5. pos + n + (r.remaining - n) = pos + r.remaining
      BY <1>1, <2>2
    <3>6. InChunk(s, sent, pos + n, count + n)
      BY <3>2, <3>4, <3>5, <1>2, <1>7 DEF InChunk
    <3>7. Reads(s, body, pos + n, count + n)
      <4>1. Rest(s, sent, cut, pos + n)
        BY <3>2, <3>3, <2>6 DEF Rest
      <4>2. QED
        BY <3>2, <3>6, <4>1, <1>2, <2>7a DEF Reads, sent, cut
    <3>8. pos + n \in Nat
      BY <2>2
    <3>9. QED
      BY <3>2, <3>7, <3>8, <2>5, <2>7, <2>7a DEF Result
  <2>10. QED
    BY <2>8, <2>9
<1>5. QED
  BY <1>3, <1>4

(* What a header of a framed body says. *)
LEMMA FramedHeader ==
  ASSUME NEW sent, NEW size, Framed(sent, size), NEW i \in DOMAIN sent, sent[i].t = "size"
  PROVE  /\ sent[i] \in Tokens
         /\ sent[i].n = 0 => i = Len(sent) /\ Before(sent, i) = size
         /\ sent[i].n # 0 =>
              /\ i + sent[i].n + 2 <= Len(sent) /\ Before(sent, i) + sent[i].n <= size
              /\ \A j \in 1..sent[i].n : sent[i + j] = Token("byte", Before(sent, i) + j)
              /\ sent[i + sent[i].n + 1].t = "line"
              /\ sent[i + sent[i].n + 2].t = "size"
<1>1. sent[i] \in Tokens
  BY DEF Framed
<1>2. QED
  BY <1>1 DEF Framed

(* Between two chunks: the end of the body, or a header and bytes behind it. *)
LEMMA ReadHeaderResult ==
  ASSUME NEW body, IsSending(body), body.chunked,
         NEW r \in Readers, NEW pos \in Nat, NEW count \in Nat, NEW room \in Nat \ {0},
         Reads(r, body, pos, count), r.remaining = 0,
         NEW got \in ReadHeader(r, room)
  PROVE  Result(got, body, count)
<1> DEFINE sent == body.sent
           cut == body.cut
           head == sent[pos + 1]
<1>0. r \in Readers
  OBVIOUS
<1>1. Framed(sent, body.size) /\ sent \in Seq(Tokens) /\ cut \in 0..Len(sent)
  BY DEF IsSending, Framed
<1>2. /\ r.chunked = body.chunked /\ r.end = body.end
      /\ pos \in 0..cut /\ Len(r.body) = cut - pos
      /\ pos < cut => head.t = "size" /\ Before(sent, pos + 1) = count
      /\ cut = Len(sent) => pos < cut
      /\ count + r.remaining <= body.size /\ body.size \in Nat
  BY DEF Reads, Rest, AtHeader, IsSending
<1>3. \A i \in 1..(cut - pos) : r.body[i] = sent[pos + i]
  BY DEF Reads, Rest
<1>4. r.body \in Seq(Tokens) /\ Len(sent) \in Nat /\ cut \in Nat
  BY <1>1 DEF Readers
<1> HIDE DEF sent, cut, head
<1>5. CASE r.body = <<>>
  <2>1. got = Outcome(<<>>, "error", r)
    BY <1>5 DEF ReadHeader
  <2>2. /\ got.bytes = <<>> /\ DOMAIN got.bytes = {}
        /\ got.err = "error" /\ got.bytes \in Seq(Tokens)
        /\ count + Len(got.bytes) <= body.size
    BY <2>1, <1>2 DEF Outcome
  <2>3. cut # Len(sent)
    <3>1. Len(r.body) = 0
      BY <1>5
    <3>2. QED
      BY <3>1, <1>2, <1>4
  <2>4. QED
    BY <2>2, <2>3 DEF Result, sent, cut
<1>6. CASE r.body # <<>>
  <2>1. pos < cut /\ pos + 1 \in 1..Len(sent)
    <3>1. Len(r.body) # 0
      BY <1>4, <1>6
    <3>2. QED
      BY <3>1, <1>1, <1>2, <1>4
  <2>2. Head(r.body) = head
    <3>1. 1 \in 1..(cut - pos)
      BY <2>1, <1>2, <1>4
    <3>2. r.body[1] = head
      BY <3>1, <1>3 DEF head
    <3>3. QED
      BY <3>2, <1>4, <1>6
  <2>3. head.t = "size" /\ Before(sent, pos + 1) = count
    BY <1>2, <2>1
  <2>4. pos + 1 \in DOMAIN sent
    BY <2>1, <1>1
  <2>5. /\ head \in Tokens
        /\ head.n = 0 => pos + 1 = Len(sent) /\ count = body.size
        /\ head.n # 0 =>
             /\ pos + 1 + head.n + 2 <= Len(sent) /\ count + head.n <= body.size
             /\ \A j \in 1..head.n : sent[pos + 1 + j] = Token("byte", count + j)
             /\ sent[pos + 1 + head.n + 1].t = "line"
             /\ sent[pos + 1 + head.n + 2].t = "size"
    <3> DEFINE i == pos + 1
    <3>1. i \in DOMAIN sent /\ sent[i] = head /\ sent[i].t = "size" /\ Before(sent, i) = count
      BY <2>3, <2>4 DEF head
    <3> HIDE DEF i
    <3>2. /\ head \in Tokens
          /\ head.n = 0 => i = Len(sent) /\ count = body.size
          /\ head.n # 0 =>
               /\ i + head.n + 2 <= Len(sent) /\ count + head.n <= body.size
               /\ \A j \in 1..head.n : sent[i + j] = Token("byte", count + j)
               /\ sent[i + head.n + 1].t = "line"
               /\ sent[i + head.n + 2].t = "size"
      BY ONLY <3>1, <1>1, FramedHeader
    <3>3. QED
      BY <3>2 DEF i
  <2>6. CASE head.n = 0
    <3>1. head = Token("size", 0)
      BY <2>3, <2>5, <2>6 DEF Tokens, Token
    <3>2. got.bytes = <<>> /\ got.err = "eof"
      BY <3>1, <2>2, <2>3, <1>6 DEF ReadHeader, Outcome
    <3>3. /\ DOMAIN got.bytes = {} /\ got.bytes \in Seq(Tokens)
          /\ count + Len(got.bytes) <= body.size
      BY <3>2, <1>2
    <3>4. QED
      BY <3>2, <3>3, <2>5, <2>6 DEF Result
  <2>7. CASE head.n # 0
    <3> DEFINE rest == Tail(r.body)
               m == head.n
               s == Onward(r, rest, m)
    <3>1. head # Token("size", 0)
      BY <2>7 DEF Token
    <3>2. m \in Nat /\ m > 0
      BY <2>5, <2>7 DEF Tokens
    <3>3. /\ rest \in Seq(Tokens) /\ Len(rest) = Len(r.body) - 1
          /\ \A i \in 1..(Len(r.body) - 1) : rest[i] = r.body[1 + i]
      <4>1. Tail(r.body) = SubSeq(r.body, 1 + 1, Len(r.body)) /\ 1 <= Len(r.body)
        BY <1>4, <1>6
      <4>2. QED
        BY <4>1, <1>4, AfterFirst
    <3>4. [r EXCEPT !.remaining = Head(r.body).n, !.body = Tail(@)] = s
      BY <2>2 DEF Onward, Readers
    <3>5. got \in ReadData(s, room)
      <4>1. Head(r.body).t = "size" /\ Head(r.body) # Token("size", 0)
        BY <3>1, <2>2, <2>3
      <4>2. ReadHeader(r, room)
              = ReadData([r EXCEPT !.remaining = Head(r.body).n, !.body = Tail(@)], room)
        BY <4>1, <1>6 DEF ReadHeader
      <4>3. QED
        BY <3>4, <4>2
    <3> HIDE DEF rest, m
    <3>6. /\ s \in Readers /\ s.body = rest /\ s.remaining = m
          /\ s.chunked = r.chunked /\ s.end = r.end
      <4>1. rest \in Seq(Tokens) /\ m \in Nat
        BY ONLY <3>2, <3>3
      <4>2. QED
        BY ONLY <1>0, <4>1, OnwardType
    <3> HIDE DEF s
    <3>7. Rest(s, sent, cut, pos + 1)
      <4>1. pos + 1 \in 0..cut /\ Len(rest) = cut - (pos + 1)
        BY <3>3, <2>1, <1>2, <1>4
      <4>2. ASSUME NEW i \in 1..(cut - (pos + 1)) PROVE rest[i] = sent[pos + 1 + i]
        <5>1. i \in 1..(Len(r.body) - 1) /\ 1 + i \in 1..(cut - pos) /\ pos + (1 + i) = pos + 1 + i
          BY <4>1, <1>2, <1>4
        <5>2. QED
          BY <5>1, <3>3, <1>3
      <4>3. QED
        BY <4>1, <4>2, <3>6 DEF Rest
    <3>8. InChunk(s, sent, pos + 1, count)
      BY <3>6, <2>5, <2>7 DEF InChunk, m
    <3>9. Reads(s, body, pos + 1, count)
      BY <3>2, <3>6, <3>7, <3>8, <1>2, <2>5, <2>7 DEF Reads, sent, cut, m
    <3>10. pos + 1 \in Nat /\ s.remaining > 0
      BY <3>2, <3>6
    <3>11. QED
      BY <3>5, <3>6, <3>9, <3>10, ReadDataResult
  <2>8. QED
    BY <2>6, <2>7
<1>7. QED
  BY <1>5, <1>6

(* Without framing the bytes of the request are those of the object. *)
LEMMA ReadPlainResult ==
  ASSUME NEW body, IsSending(body), ~body.chunked,
         NEW r \in Readers, NEW pos \in Nat, NEW count \in Nat, NEW room \in Nat \ {0},
         Reads(r, body, pos, count),
         NEW got \in ReadPlain(r, room)
  PROVE  Result(got, body, count)
<1> DEFINE sent == body.sent
           cut == body.cut
<1>0. r \in Readers
  OBVIOUS
<1>1. /\ sent = [i \in 1..(body.size - 0) |-> Token("byte", 0 + i)] /\ body.size \in Nat
      /\ cut \in 0..Len(sent) /\ (body.end = "eof" <=> cut = Len(sent))
  BY DEF IsSending, Bytes
<1>2. Len(sent) = body.size /\ \A i \in 1..body.size : sent[i] = Token("byte", i)
  BY <1>1
<1>3. /\ r.chunked = body.chunked /\ r.end = body.end
      /\ pos \in 0..cut /\ Len(r.body) = cut - pos /\ pos = count /\ r.remaining = 0
  BY DEF Reads, Rest
<1>4. \A i \in 1..(cut - pos) : r.body[i] = sent[pos + i]
  BY DEF Reads, Rest
<1>5. r.body \in Seq(Tokens) /\ r.remaining \in Nat /\ r.end \in {"eof", "broken"} /\ cut \in 0..body.size
  BY <1>1, <1>2 DEF Readers
<1> HIDE DEF sent, cut
<1>6. CASE r.body = <<>>
  <2>1. got = Outcome(<<>>, IF r.end = "eof" THEN "eof" ELSE "error", r)
    BY <1>6 DEF ReadPlain
  <2>2. /\ got.bytes = <<>> /\ DOMAIN got.bytes = {} /\ got.bytes \in Seq(Tokens)
        /\ got.err = IF r.end = "eof" THEN "eof" ELSE "error"
        /\ count + Len(got.bytes) <= body.size
    BY <2>1, <1>1, <1>3, <1>5 DEF Outcome
  <2>3. pos = cut
    <3>1. Len(r.body) = 0
      BY <1>6
    <3>2. QED
      BY <3>1, <1>3, <1>5
  <2>4. QED
    BY <2>2, <2>3, <1>1, <1>2, <1>3 DEF Result, sent, cut
<1>7. CASE r.body # <<>>
  <2>1. PICK n \in Some(r, room) :
          got = Outcome(SubSeq(r.body, 1, n), "nil", [r EXCEPT !.body = SubSeq(@, n + 1, Len(@))])
    BY <1>7 DEF ReadPlain
  <2> DEFINE rest == SubSeq(r.body, n + 1, Len(r.body))
             m == r.remaining
             s == Onward(r, rest, m)
  <2>2. n \in Nat \ {0} /\ n <= Len(r.body)
    BY <1>5 DEF Some
  <2>3. /\ rest \in Seq(Tokens) /\ Len(rest) = Len(r.body) - n
        /\ \A i \in 1..(Len(r.body) - n) : rest[i] = r.body[n + i]
    BY <1>5, <2>2, AfterFirst
  <2>4. /\ SubSeq(r.body, 1, n) \in Seq(Tokens) /\ Len(SubSeq(r.body, 1, n)) = n
        /\ \A i \in 1..n : SubSeq(r.body, 1, n)[i] = r.body[i]
    BY <1>5, <2>2, First
  <2>5. [r EXCEPT !.body = SubSeq(@, n + 1, Len(@))] = s
    BY DEF Onward, Readers
  <2>6. got.bytes = SubSeq(r.body, 1, n) /\ got.err = "nil" /\ got.reader = s
    BY <2>1, <2>5 DEF Outcome
  <2> HIDE DEF rest, m
  <2>7. /\ s \in Readers /\ s.body = rest /\ s.remaining = m
        /\ s.chunked = r.chunked /\ s.end = r.end
    <3>1. m \in Nat
      BY <1>5 DEF m
    <3>2. QED
      BY ONLY <1>0, <2>3, <3>1, OnwardType
  <2> HIDE DEF s
  <2>8. Rest(s, sent, cut, pos + n)
    <3>1. pos + n \in 0..cut /\ Len(rest) = cut - (pos + n)
      BY <2>2, <2>3, <1>3, <1>5
    <3>2. ASSUME NEW i \in 1..(cut - (pos + n)) PROVE rest[i] = sent[pos + n + i]
      <4>1. i \in 1..(Len(r.body) - n) /\ n + i \in 1..(cut - pos) /\ pos + (n + i) = pos + n + i
        BY <3>1, <2>2, <1>3, <1>5
      <4>2. QED
        BY <4>1, <2>3, <1>4
    <3>3. QED
      BY <3>1, <3>2, <2>7 DEF Rest
  <2>9. got.bytes \in Seq(Tokens) /\ Len(got.bytes) = n /\ DOMAIN got.bytes = 1..n
    BY <2>4, <2>6
  <2>10. ASSUME NEW i \in 1..n PROVE got.bytes[i] = Token("byte", count + i)
    <3>1. i \in 1..(cut - pos) /\ pos + i \in 1..body.size /\ pos + i = count + i
      <4>1. /\ n \in Int /\ pos \in Int /\ cut \in Int /\ body.size \in Int /\ count = pos
            /\ pos >= 0 /\ n <= cut - pos /\ cut <= body.size
        BY <2>2, <1>1, <1>3, <1>5
      <4>2. QED
        BY ONLY <4>1, i \in 1..n
    <3>2. QED
      BY <3>1, <2>4, <2>6, <1>2, <1>4
  <2>10a. count + n <= body.size /\ m = 0 /\ count + n + 0 = count + n
    BY <1>1, <1>3, <1>5, <2>2 DEF m
  <2>11. Reads(s, body, pos + n, count + n)
    BY <2>7, <2>8, <2>10a, <1>3 DEF Reads, sent, cut
  <2>12. pos + n \in Nat
    BY <2>2
  <2>13. QED
    BY <2>6, <2>7, <2>9, <2>10, <2>11, <2>12, <2>10a DEF Result
<1>8. QED
  BY <1>6, <1>7

(***************************************************************************)
(* However the body is split, a call of Read returns its next bytes; it    *)
(* says "eof" after all of them only, and fails only if it is cut.         *)
(***************************************************************************)
LEMMA ReadResult ==
  ASSUME NEW body, IsSending(body),
         NEW r \in Readers, NEW pos \in Nat, NEW count \in Nat, NEW room \in Nat \ {0},
         Reads(r, body, pos, count),
         NEW got \in Read(r, room)
  PROVE  Result(got, body, count)
<1>1. /\ r.chunked \in BOOLEAN /\ r.done = FALSE /\ r.remaining \in Nat
      /\ body.chunked = r.chunked
  BY DEF Readers, Reads
<1>2. CASE ~r.chunked
  <2>1. Read(r, room) = ReadPlain(r, room)
    BY <1>2 DEF Read
  <2>2. QED
    BY <1>1, <1>2, <2>1, ReadPlainResult
<1>3. CASE r.chunked /\ r.remaining = 0
  <2>1. Read(r, room) = ReadHeader(r, room)
    BY <1>1, <1>3 DEF Read
  <2>2. QED
    BY <1>1, <1>3, <2>1, ReadHeaderResult
<1>4. CASE r.chunked /\ r.remaining > 0
  <2>1. Read(r, room) = ReadData(r, room)
    BY <1>1, <1>4 DEF Read
  <2>2. QED
    BY <1>1, <1>4, <2>1, ReadDataResult
<1>5. QED
  BY <1>1, <1>2, <1>3, <1>4

(***************************************************************************)
(* Numbers and ranges.                                                     *)
(***************************************************************************)
LEMMA HalfType == Half \in Nat /\ Half >= 1
<1> DEFINE S == 1..(Width - 1)
<1>1. Width - 1 \in Nat /\ Width - 1 >= 1
  BY WidthAssumption
<1>2. IsFiniteSet(S) /\ Cardinality(S) = Width - 1
  BY <1>1, FS_Interval
<1> HIDE DEF S
<1>3. IsFiniteSet(SUBSET S) /\ Cardinality(SUBSET S) = 2^Cardinality(S)
  BY <1>2, FS_SUBSET
<1>4. Cardinality(SUBSET S) = Half
  BY <1>2, <1>3, Zenon DEF Half
<1>5. Cardinality(SUBSET S) \in Nat
  BY <1>3, FS_CardinalityType
<1>6. Cardinality(SUBSET S) # 0
  BY <1>3, FS_EmptySet
<1>7. QED
  BY <1>4, <1>5, <1>6

LEMMA Modulo ==
  ASSUME NEW b \in Nat, b > 0, NEW a \in 0..(b - 1)
  PROVE  a % b = a /\ (a + b) % b = a
OBVIOUS

(* Numbers that fit stay what they are; the ones next to them come out at the *)
(* other end.                                                                 *)
LEMMA WrapFits ==
  /\ \A n \in (-Half)..(Half - 1) : Wrap(n) = n
  /\ Wrap(Half) = -Half
  /\ Wrap(-Half - 1) = Half - 1
<1> DEFINE b == 2 * Half
<1>1. Half \in Nat /\ Half >= 1
  BY HalfType
<1>2. b \in Nat /\ b > 0 /\ b = Half + Half
  BY <1>1
<1>3. \A n : Wrap(n) = ((n + Half) % b) - Half
  BY DEF Wrap
<1> HIDE DEF b
<1>4. ASSUME NEW n \in (-Half)..(Half - 1) PROVE Wrap(n) = n
  <2> DEFINE a == n + Half
  <2>1. a \in 0..(b - 1) /\ a - Half = n
    BY <1>1, <1>2
  <2> HIDE DEF a
  <2>2. a % b = a
    BY ONLY <2>1, <1>2, Modulo
  <2>3. QED
    BY <2>1, <2>2, <1>3 DEF a
<1>5. Wrap(Half) = -Half
  <2>1. 0 \in 0..(b - 1) /\ Half + Half = 0 + b
    BY <1>1, <1>2
  <2>2. (0 + b) % b = 0
    BY ONLY <2>1, <1>2, Modulo
  <2>3. Wrap(Half) = ((0 + b) % b) - Half
    BY <2>1, <1>3
  <2>4. QED
    BY <2>2, <2>3, <1>1
<1>6. Wrap(-Half - 1) = Half - 1
  <2> DEFINE a == -Half - 1 + Half
  <2>1. b - 1 \in 0..(b - 1) /\ a = -1 /\ a + b = b - 1 /\ a \in Int
    BY <1>1, <1>2
  <2> HIDE DEF a
  <2>2. a % b = b - 1
    BY <2>1, <1>2
  <2>3. Wrap(-Half - 1) = (a % b) - Half
    BY <1>3 DEF a
  <2>4. QED
    BY <2>2, <2>3, <1>1, <1>2
<1>7. QED
  BY <1>4, <1>5, <1>6

(* The last byte a range of an object of this size has. *)
LastOf(q, size) == IF q = NoRange \/ q.last \notin q.first..(size - 1) THEN size - 1 ELSE q.last

(* The range for which GCS and the local backend have nothing to return. *)
Short(q) == kind \in {"gcs", "local"} /\ EndsBefore(q) /\ q.last = q.first - 1

(* What the announced length has to be. *)
Fits(length, q, size) ==
  /\ length \in Int
  /\ ~(kind = "local" /\ Overflows(q)) => length <= size - q.first
  /\ length <= size - q.first => q.first + length = LastOf(q, size) + 1 \/ Short(q)

LEMMA ShortRange ==
  ASSUME NEW q \in RangesOf, q.last # -1, kind \in {"gcs", "local"}
  PROVE  q.last = q.first - 1 => Short(q)
BY HalfType DEF RangesOf, MaxInt, Short, EndsBefore, Open

LEMMA RangeNumbers ==
  ASSUME NEW q \in RangesOf
  PROVE  /\ q.first \in 0..MaxInt /\ q # NoRange /\ MaxInt \in Nat /\ Half = MaxInt + 1
         /\ q.last = -1 \/ q.last \in 0..MaxInt
<1>1. Half \in Nat /\ Half >= 1
  BY HalfType
<1>2. MaxInt \in Nat /\ Half = MaxInt + 1
  BY <1>1 DEF MaxInt
<1>3. QED
  BY <1>2 DEF RangesOf, NoRange, Open

(* The number of bytes from first to last, and the number after the last: the *)
(* largest number may be exceeded by one.                                     *)
LEMMA CountFits ==
  ASSUME NEW q \in RangesOf, q.last # -1
  PROVE  /\ q.first = 0 /\ q.last = MaxInt => Wrap(Wrap(q.last - q.first) + 1) = -Half
         /\ ~(q.first = 0 /\ q.last = MaxInt) =>
               Wrap(Wrap(q.last - q.first) + 1) = q.last - q.first + 1
         /\ q.last < MaxInt => Wrap(q.last + 1) = q.last + 1
         /\ Wrap(MaxInt + 1) = -Half
<1>1. /\ q.first \in 0..MaxInt /\ MaxInt \in Nat /\ Half = MaxInt + 1 /\ q.last \in 0..MaxInt
  BY RangeNumbers
<1> DEFINE d == q.last - q.first
<1>2. d \in (-Half)..(Half - 1) /\ d \in Int /\ d = q.last - q.first
  BY <1>1
<1> HIDE DEF d
<1>3. Wrap(d) = d
  BY <1>2, WrapFits
<1>4. CASE q.first = 0 /\ q.last = MaxInt
  <2>1. d + 1 = Half
    BY <1>1, <1>2, <1>4
  <2>2. Wrap(d + 1) = -Half
    BY <2>1, WrapFits
  <2>3. Wrap(MaxInt + 1) = -Half
    BY <1>1, WrapFits
  <2>4. ~(q.last < MaxInt)
    BY <1>1, <1>4
  <2>5. QED
    BY <1>2, <1>3, <1>4, <2>2, <2>3, <2>4
<1>5. CASE ~(q.first = 0 /\ q.last = MaxInt)
  <2>1. d + 1 \in (-Half)..(Half - 1)
    BY <1>1, <1>2, <1>5
  <2>2. Wrap(d + 1) = d + 1
    BY <2>1, WrapFits
  <2>3. Wrap(MaxInt + 1) = -Half
    BY <1>1, WrapFits
  <2>4. q.last < MaxInt => Wrap(q.last + 1) = q.last + 1
    <3> SUFFICES ASSUME q.last < MaxInt PROVE Wrap(q.last + 1) = q.last + 1
      OBVIOUS
    <3>1. q.last + 1 \in (-Half)..(Half - 1)
      BY <1>1
    <3>2. QED
      BY <3>1, WrapFits
  <2>5. QED
    BY <1>2, <1>3, <1>5, <2>2, <2>3, <2>4
<1>6. QED
  BY <1>4, <1>5

LEMMA LocalFits ==
  ASSUME NEW q \in RangesOf, NEW size \in 0..MaxInt, q.first < size, kind = "local"
  PROVE  Fits(LocalLength(q, size), q, size)
<1>1. /\ q.first \in 0..MaxInt /\ MaxInt \in Nat /\ Half = MaxInt + 1 /\ q # NoRange
      /\ q.last = -1 \/ q.last \in 0..MaxInt
  BY RangeNumbers
<1>2. CASE q.last = -1
  <2>1. LocalLength(q, size) = size - q.first
    BY <1>2 DEF LocalLength, ParseHTTPRange, Open
  <2>2. QED
    BY <1>1, <1>2, <2>1 DEF Fits, LastOf
<1>3. CASE q.last # -1
  <2> DEFINE n == Wrap(Wrap(q.last - q.first) + 1)
  <2>1. LocalLength(q, size) = IF n < 0 \/ Wrap(q.first + n) > size THEN size - q.first ELSE n
    BY <1>3 DEF LocalLength, ParseHTTPRange, Open
  <2>2. /\ q.first = 0 /\ q.last = MaxInt => n = -Half
        /\ ~(q.first = 0 /\ q.last = MaxInt) => n = q.last - q.first + 1
        /\ q.last < MaxInt => Wrap(q.last + 1) = q.last + 1
        /\ Wrap(MaxInt + 1) = -Half
    BY <1>3, CountFits
  <2> HIDE DEF n
  <2>3. CASE q.first = 0 /\ q.last = MaxInt
    <3>1. LocalLength(q, size) = size - q.first
      BY <1>1, <2>1, <2>2, <2>3
    <3>2. QED
      BY <1>1, <2>3, <3>1 DEF Fits, LastOf
  <2>4. CASE ~(q.first = 0 /\ q.last = MaxInt)
    <3>1. n = q.last - q.first + 1 /\ q.first + n = q.last + 1
      BY <1>1, <1>3, <2>2, <2>4
    <3>2. CASE q.last = MaxInt
      <4>1. LocalLength(q, size) = n /\ Overflows(q)
        BY <1>1, <2>1, <2>2, <2>4, <3>1, <3>2 DEF Overflows
      <4>2. ~(n <= size - q.first)
        BY <1>1, <3>1, <3>2
      <4>3. QED
        BY <1>1, <3>1, <4>1, <4>2 DEF Fits
    <3>3. CASE q.last < MaxInt
      <4>1. LocalLength(q, size) = IF n < 0 \/ q.last + 1 > size THEN size - q.first ELSE n
        BY <2>1, <2>2, <3>1, <3>3
      <4>2. QED
        BY <1>1, <1>3, <3>1, <3>3, <4>1, ShortRange DEF Fits, LastOf
    <3>4. QED
      BY <1>1, <1>3, <3>2, <3>3
  <2>5. QED
    BY <2>3, <2>4
<1>4. QED
  BY <1>2, <1>3

LEMMA GCSFits ==
  ASSUME NEW q \in RangesOf, NEW size \in 0..MaxInt, q.first < size, kind = "gcs"
  PROVE  Fits(GCSLength(q, size), q, size)
<1>1. /\ q.first \in 0..MaxInt /\ MaxInt \in Nat /\ Half = MaxInt + 1 /\ q # NoRange
      /\ q.last = -1 \/ q.last \in 0..MaxInt
  BY RangeNumbers
<1>2. CASE q.last = -1
  <2>1. GCSLength(q, size) = size - q.first
    BY <1>2 DEF GCSLength, ParseHTTPRange, Open
  <2>2. QED
    BY <1>1, <1>2, <2>1 DEF Fits, LastOf
<1>3. CASE q.last # -1
  <2> DEFINE n == Wrap(Wrap(q.last - q.first) + 1)
  <2>1. GCSLength(q, size) = IF n < 0 \/ q.first + n > size THEN size - q.first ELSE n
    BY <1>3 DEF GCSLength, ParseHTTPRange, Open
  <2>2. /\ q.first = 0 /\ q.last = MaxInt => n = -Half
        /\ ~(q.first = 0 /\ q.last = MaxInt) => n = q.last - q.first + 1
    BY <1>3, CountFits
  <2> HIDE DEF n
  <2>3. CASE q.first = 0 /\ q.last = MaxInt
    <3>1. GCSLength(q, size) = size - q.first
      BY <1>1, <2>1, <2>2, <2>3
    <3>2. QED
      BY <1>1, <2>3, <3>1 DEF Fits, LastOf
  <2>4. CASE ~(q.first = 0 /\ q.last = MaxInt)
    <3>1. n = q.last - q.first + 1 /\ q.first + n = q.last + 1
      BY <1>1, <1>3, <2>2, <2>4
    <3>2. QED
      BY <1>1, <1>3, <2>1, <3>1, ShortRange DEF Fits, LastOf
  <2>5. QED
    BY <2>3, <2>4
<1>4. QED
  BY <1>2, <1>3

LEMMA S3Fits ==
  ASSUME NEW q \in RangesOf, NEW size \in 0..MaxInt, q.first < size, kind = "s3", ~EndsBefore(q)
  PROVE  Fits(S3Length(q, size), q, size)
<1>1. /\ q.first \in 0..MaxInt /\ MaxInt \in Nat /\ q # NoRange
      /\ q.last = -1 \/ q.last \in 0..MaxInt
  BY RangeNumbers
<1>2. QED
  BY <1>1 DEF S3Length, Fits, LastOf, EndsBefore, Open

(* Azure names the last byte again, whatever the count has become. *)
LEMMA AzureFits ==
  ASSUME NEW q \in RangesOf, NEW size \in 0..MaxInt, q.first < size, kind = "azure"
  PROVE  Fits(AzureLength(q, size), q, size)
<1>1. /\ q.first \in 0..MaxInt /\ MaxInt \in Nat /\ Half = MaxInt + 1 /\ q # NoRange
      /\ q.last = -1 \/ q.last \in 0..MaxInt
  BY RangeNumbers
<1>2. CASE q.last = -1
  <2>1. AzureLength(q, size) = size - q.first
    BY <1>2 DEF AzureLength, ParseAzureRange, Open
  <2>2. QED
    BY <1>1, <1>2, <2>1 DEF Fits, LastOf
<1>3. CASE q.last # -1
  <2> DEFINE n == Wrap(Wrap(q.last - q.first) + 1)
             l == Wrap(Wrap(q.first + n) - 1)
  <2>1. AzureLength(q, size) = IF n = 0 \/ l < q.first \/ l >= size THEN size - q.first
                               ELSE l - q.first + 1
    BY <1>3 DEF AzureLength, ParseAzureRange, Open
  <2>2. /\ q.first = 0 /\ q.last = MaxInt => n = -Half
        /\ ~(q.first = 0 /\ q.last = MaxInt) => n = q.last - q.first + 1
        /\ q.last < MaxInt => Wrap(q.last + 1) = q.last + 1
        /\ Wrap(MaxInt + 1) = -Half
    BY <1>3, CountFits
  <2> HIDE DEF n
  <2>3. l = q.last
    <3>1. CASE q.last = MaxInt
      <4>1. q.first + n = -Half \/ q.first + n = MaxInt + 1
        BY <1>1, <2>2, <3>1
      <4>2. -Half \in (-Half)..(Half - 1)
        BY <1>1
      <4>3. Wrap(q.first + n) = -Half
        BY <4>1, <4>2, <2>2, WrapFits
      <4>4. Wrap(-Half - 1) = Half - 1 /\ Half - 1 = MaxInt
        BY <1>1, WrapFits
      <4>5. QED
        BY <3>1, <4>3, <4>4
    <3>2. CASE q.last < MaxInt
      <4>1. q.first + n = q.last + 1 /\ q.last + 1 - 1 = q.last
        BY <1>1, <1>3, <2>2, <3>2
      <4>2. q.last \in (-Half)..(Half - 1)
        BY <1>1
      <4>3. QED
        BY <4>1, <4>2, <2>2, <3>2, WrapFits
    <3>3. QED
      BY <1>1, <1>3, <3>1, <3>2
  <2> HIDE DEF l
  <2>4. ~(q.first = 0 /\ q.last = MaxInt) => n = 0 <=> q.last = q.first - 1
    BY <1>1, <1>3, <2>2
  <2>5. q.first = 0 /\ q.last = MaxInt => n # 0
    BY <1>1, <2>2
  <2>6. QED
    BY <1>1, <1>3, <2>1, <2>3, <2>4, <2>5 DEF Fits, LastOf
<1>4. QED
  BY <1>2, <1>3

LEMMA LengthFits ==
  ASSUME kind \in {"s3", "gcs", "azure", "local"},
         NEW q \in RangesOf, NEW size \in 0..MaxInt, q.first < size,
         kind = "s3" => ~EndsBefore(q)
  PROVE  Fits(Length(q, size), q, size)
<1>1. q # NoRange
  BY RangeNumbers
<1>2. CASE kind = "local"
  BY <1>1, <1>2, LocalFits DEF Length
<1>3. CASE kind = "gcs"
  BY <1>1, <1>3, GCSFits DEF Length
<1>4. CASE kind = "azure"
  BY <1>1, <1>4, AzureFits DEF Length
<1>5. CASE kind = "s3"
  BY <1>1, <1>5, S3Fits DEF Length
<1>6. QED
  BY <1>2, <1>3, <1>4, <1>5

-----------------------------------------------------------------------------
(***************************************************************************)
(* Stored bytes.                                                           *)
(***************************************************************************)
LEMMA RunType ==
  ASSUME NEW p \in Puts, NEW n \in Nat
  PROVE  Run(p, n) \in Stored /\ Len(Run(p, n)) = n /\ DOMAIN Run(p, n) = 1..n
<1>1. {p} \in {{o} : o \in Puts} \cup {Hole}
  OBVIOUS
<1>2. QED
  BY <1>1 DEF Run, Stored

LEMMA WholeRun ==
  ASSUME NEW p \in Puts
  PROVE  Whole(p) = Run(p, put[p].size)
BY DEF Whole, Run

LEMMA WrittenType ==
  ASSUME NEW p \in Puts, NEW old \in Stored, NEW pos \in Nat, NEW n \in Nat
  PROVE  /\ Written(old, pos, n, p) \in Stored
         /\ Len(Written(old, pos, n, p)) = IF pos + n > Len(old) THEN pos + n ELSE Len(old)
<1> DEFINE S == {{o} : o \in Puts} \cup {Hole}
           top == IF pos + n > Len(old) THEN pos + n ELSE Len(old)
           w == [i \in 1..top |->
                   IF i \in (pos + 1)..(pos + n) THEN {p} ELSE IF i <= Len(old) THEN old[i] ELSE Hole]
<1>1. Len(old) \in Nat /\ \A i \in 1..Len(old) : old[i] \in S
  BY DEF Stored
<1>2. top \in Nat
  BY <1>1
<1>3. {p} \in S /\ Hole \in S
  OBVIOUS
<1> HIDE DEF S, top
<1>4. \A i \in 1..top : w[i] \in S
  BY <1>1, <1>2, <1>3
<1>5. w \in [1..top -> S]
  BY <1>4
<1>5a. w \in Seq(S) /\ Len(w) = top
  <2> HIDE DEF w
  <2>1. QED
    BY <1>2, <1>5
<1>6. QED
  BY <1>5a DEF Written, Stored, S, top

(* Bytes behind those one PUT has written. *)
LEMMA WrittenRun ==
  ASSUME NEW p \in Puts, NEW pos \in Nat, NEW n \in Nat
  PROVE  Written(Run(p, pos), pos, n, p) = Run(p, pos + n)
<1>1. Len(Run(p, pos)) = pos /\ \A i \in 1..pos : Run(p, pos)[i] = {p}
  BY RunType DEF Run
<1>2. (IF pos + n > pos THEN pos + n ELSE pos) = pos + n
  OBVIOUS
<1>3. \A i \in 1..(pos + n) :
        (IF i \in (pos + 1)..(pos + n) THEN {p}
         ELSE IF i <= pos THEN Run(p, pos)[i] ELSE Hole) = {p}
  BY <1>1
<1>4. QED
  BY <1>1, <1>2, <1>3 DEF Written, Run

-----------------------------------------------------------------------------
(***************************************************************************)
(* The initial states.                                                     *)
(***************************************************************************)
LEMMA EmptyTypes ==
  /\ NoPut \in PutTypes /\ NoGet \in GetTypes /\ NoBatch \in BatchTypes
  /\ NoPut.reader \in Readers /\ <<>> \in Stored /\ MaxInt \in Nat
<1>1. MaxInt \in Nat
  BY HalfType DEF MaxInt
<1>2. <<>> \in Stored /\ <<>> \in Seq(Tokens)
  BY DEF Stored
<1>3. NoPut.reader \in Readers
  <2>1. NoPut.reader = Reader(FALSE, <<>>, "eof")
    BY DEF NoPut
  <2>2. Reader(FALSE, <<>>, "eof") \in Readers
    BY <1>2 DEF Readers, Reader
  <2>3. QED
    BY <2>1, <2>2
<1>4. NoPut \in PutTypes
  <2>1. Reader(FALSE, <<>>, "eof") \in Readers
    BY <1>3 DEF NoPut
  <2> DEFINE none == <<>>
             reader == Reader(FALSE, <<>>, "eof")
  <2>2. none \in Stored /\ none \in Seq(Tokens) /\ reader \in Readers
    BY <1>2, <2>1
  <2>2a. 0 \in 0..MaxInt
    BY <1>1
  <2>3. NoPut = [pc |-> "new", key |-> {}, size |-> 0, declared |-> TRUE, reader |-> reader,
                 sent |-> none, at |-> {}, tag |-> none, whole |-> FALSE]
    BY DEF NoPut
  <2> HIDE DEF none, reader
  <2>4. QED
    BY ONLY <2>2, <2>2a, <2>3 DEF PutTypes
<1>5. NoGet \in GetTypes
  BY <1>2 DEF NoGet, GetTypes
<1>6. NoBatch \in BatchTypes
  BY DEF NoBatch, BatchTypes
<1>7. QED
  BY <1>1, <1>2, <1>3, <1>4, <1>5, <1>6

LEMMA InitInv == Init => Inv
<1> SUFFICES ASSUME Init PROVE Inv
  OBVIOUS
<1>1. Typed
  BY EmptyTypes DEF Init, Typed
<1>2. ASSUME NEW p \in Puts PROVE ReaderInv(p) /\ PlaceInv(p) /\ LatestInv(p) /\ VersionInv(p)
                                  /\ SizeInv(p) /\ FileInv(p) /\ WriterInv(p)
  <2>1. /\ put[p].pc = "new" /\ put[p].key = {} /\ put[p].at = {} /\ put[p].sent = <<>>
        /\ put[p].whole = FALSE /\ data[p] = <<>>
    BY DEF Init, NoPut
  <2>2. ReaderInv(p)
    BY <2>1 DEF ReaderInv
  <2>3. PlaceInv(p) /\ LatestInv(p) /\ VersionInv(p) /\ FileInv(p) /\ WriterInv(p)
    BY <2>1 DEF PlaceInv, LatestInv, VersionInv, FileInv, WriterInv
  <2>4. SizeInv(p)
    BY <2>1, EmptyTypes DEF SizeInv
  <2>5. QED
    BY <2>2, <2>3, <2>4
<1>3. \A k \in Keys : NameInv(k)
  BY DEF Init, NameInv
<1>4. \A g \in Gets : GetInv(g)
  BY DEF Init, NoGet, GetInv
<1>5. BatchInv
  BY DEF Init, NoBatch, BatchInv
<1>6. QED
  BY <1>1, <1>2, <1>3, <1>4, <1>5 DEF Inv

-----------------------------------------------------------------------------
(***************************************************************************)
(* What a step of one request leaves to the others.                        *)
(***************************************************************************)

(* A stored object stays one. *)
Kept == \A o \in Puts, k \in Keys : IsObject(o, k) => IsObject(o, k)'

(* A name goes, stays, or is given to an object that was none. *)
Named(k) ==
  \/ link'[k] = link[k] \/ link'[k] = {}
  \/ \E o \in Puts : link'[k] = {o} /\ IsObject(o, k)' /\ ~IsObject(o, k)

LEMMA NamesStay ==
  ASSUME Inv, Kept, link' \in [Keys -> SUBSET Puts], \A k \in Keys : Named(k)
  PROVE  (\A k \in Keys : NameInv(k))' /\ (UNCHANGED batch => BatchInv')
<1>1. ASSUME NEW k \in Keys PROVE NameInv(k)'
  <2>1. CASE link'[k] = link[k]
    <3>1. ASSUME NEW o \in link[k] PROVE link[k] = {o} /\ IsObject(o, k)'
      BY DEF Inv, NameInv, IsObject, Kept
    <3>2. QED
      BY <2>1, <3>1 DEF NameInv
  <2>2. CASE link'[k] = {}
    BY <2>2 DEF NameInv
  <2>3. CASE \E o \in Puts : link'[k] = {o} /\ IsObject(o, k)' /\ ~IsObject(o, k)
    BY <2>3 DEF NameInv
  <2>4. QED
    BY <2>1, <2>2, <2>3 DEF Named
<1>2. ASSUME UNCHANGED batch PROVE BatchInv'
  <2>0. batch.left \cap batch.errors = {}
    BY DEF Inv, BatchInv
  <2> SUFFICES ASSUME batch.pc # "idle"
      PROVE /\ batch.pc = "answered" => batch.left = {}
            /\ \A k \in Keys : \A o \in batch.before[k] : batch.before[k] = {o} /\ IsObject(o, k)'
            /\ \A k \in Keys \ (batch.left \cup batch.errors) : link'[k] = {} \/ link'[k] # batch.before[k]
    BY <1>2, <2>0 DEF BatchInv
  <2>1. /\ batch.pc = "answered" => batch.left = {}
        /\ \A k \in Keys : \A o \in batch.before[k] : batch.before[k] = {o} /\ IsObject(o, k)
        /\ \A k \in Keys \ (batch.left \cup batch.errors) : link[k] = {} \/ link[k] # batch.before[k]
    BY DEF Inv, BatchInv
  <2>2. ASSUME NEW k \in Keys, NEW o \in batch.before[k] PROVE batch.before[k] = {o} /\ IsObject(o, k)'
    BY <2>1 DEF IsObject, Kept
  <2>3. ASSUME NEW k \in Keys \ (batch.left \cup batch.errors)
        PROVE  link'[k] = {} \/ link'[k] # batch.before[k]
    <3>1. CASE \E o \in Puts : link'[k] = {o} /\ IsObject(o, k)' /\ ~IsObject(o, k)
      BY <2>1, <3>1
    <3>2. QED
      BY <2>1, <3>1 DEF Named
  <2>4. QED
    BY <2>1, <2>2, <2>3
<1>3. QED
  BY <1>1, <1>2

(* A GET sees other bytes if somebody marked it, or it has seen none. *)
LEMMA GetsStay ==
  ASSUME Inv, Kept, UNCHANGED <<kind, get>>, disturbed \subseteq disturbed',
         \A o \in Puts : \/ data'[o] = data[o]
                         \/ kind = "local" /\ Reading(o) \subseteq disturbed'
                         \/ put[o].at # {o}
  PROVE  (\A g \in Gets : GetInv(g))'
<1> SUFFICES ASSUME NEW g \in Gets PROVE GetInv(g)'
  OBVIOUS
<1> DEFINE q == get[g]
<1>1. get'[g] = q /\ kind' = kind
  OBVIOUS
<1>2. /\ q.pc # "idle" /\ q.cause # "folder" =>
           /\ \E o \in Puts, k \in Keys : q.at = {o} /\ q.key = {k} /\ IsObject(o, k)
           /\ q.range # NoRange => q.range.first < Len(q.tag)
           /\ kind = "s3" => ~EndsBefore(q.range)
           /\ Len(q.tag) <= MaxInt
           /\ q.from = From(q.range) /\ q.length = Length(q.range, Len(q.tag))
      /\ q.pc = "attrs" => kind = "gcs" /\ q.got = <<>> /\ \A o \in q.at : data[o] = q.tag
      /\ q.pc \in {"stream", "done", "broken"} /\ g \notin disturbed => Copied(q)
      /\ q.pc = "stream" /\ g \notin disturbed => \A o \in q.at : data[o] = q.tag
      /\ q.pc = "done" => Len(q.got) = q.length
      /\ q.pc # "broken" => q.cause = "none"
      /\ q.cause = "folder" => q.got = <<>> /\ q.tag = <<>> /\ q.from = 0
      /\ q.pc = "broken" => \/ g \in disturbed \/ q.cause \in {"error", "folder"}
                            \/ kind = "local" /\ Overflows(q.range)
  BY DEF Inv, GetInv
<1> HIDE DEF q
<1>3. /\ q.pc # "idle" /\ q.cause # "folder" =>
           /\ \E o \in Puts, k \in Keys : q.at = {o} /\ q.key = {k} /\ IsObject(o, k)'
           /\ q.range # NoRange => q.range.first < Len(q.tag)
           /\ kind = "s3" => ~EndsBefore(q.range)
           /\ Len(q.tag) <= MaxInt
           /\ q.from = From(q.range) /\ q.length = Length(q.range, Len(q.tag))'
  <2>1. \A n, m : Length(n, m)' = Length(n, m)
    BY <1>1 DEF Length
  <2>2. Length(q.range, Len(q.tag))' = Length(q.range, Len(q.tag))
    BY <1>1, <2>1 DEF q
  <2>3. QED
    BY <1>2, <2>2 DEF Kept
<1>4. ASSUME q.pc \in {"attrs", "stream"}, g \notin disturbed' \/ q.pc = "attrs", NEW o \in q.at
      PROVE data'[o] = data[o]
  <2>1. o \in Puts /\ put[o].at = {o} /\ q.at = {o}
    BY <1>2, <1>4 DEF IsObject
  <2>2. q.pc = "attrs" => kind # "local"
    BY <1>2
  <2>3. q.pc = "stream" => g \in Reading(o)
    BY <2>1 DEF Reading, q
  <2>4. QED
    BY <1>4, <2>1, <2>2, <2>3
<1>5. q.pc = "attrs" => kind = "gcs" /\ q.got = <<>> /\ \A o \in q.at : data'[o] = q.tag
  BY <1>2, <1>4
<1>6. q.pc = "stream" /\ g \notin disturbed' => \A o \in q.at : data'[o] = q.tag
  BY <1>2, <1>4
<1>7. GetInv(g)' =
      (/\ q.pc # "idle" /\ q.cause # "folder" =>
            /\ \E o \in Puts, k \in Keys : q.at = {o} /\ q.key = {k} /\ IsObject(o, k)'
            /\ q.range # NoRange => q.range.first < Len(q.tag)
            /\ kind = "s3" => ~EndsBefore(q.range)
            /\ Len(q.tag) <= MaxInt
            /\ q.from = From(q.range) /\ q.length = Length(q.range, Len(q.tag))'
       /\ q.pc = "attrs" => kind = "gcs" /\ q.got = <<>> /\ \A o \in q.at : data'[o] = q.tag
       /\ q.pc \in {"stream", "done", "broken"} /\ g \notin disturbed' => Copied(q)
       /\ q.pc = "stream" /\ g \notin disturbed' => \A o \in q.at : data'[o] = q.tag
       /\ q.pc = "done" => Len(q.got) = q.length
       /\ q.pc # "broken" => q.cause = "none"
       /\ q.cause = "folder" => q.got = <<>> /\ q.tag = <<>> /\ q.from = 0
       /\ q.pc = "broken" => \/ g \in disturbed' \/ q.cause \in {"error", "folder"}
                             \/ kind = "local" /\ Overflows(q.range))
  BY <1>1 DEF GetInv, q, Copied
<1>8. QED
  BY <1>2, <1>3, <1>5, <1>6, <1>7

(* What holds of a PUT but for its file. *)
PutInv(p) == ReaderInv(p) /\ PlaceInv(p) /\ LatestInv(p) /\ VersionInv(p) /\ WriterInv(p)

(* Of the other PUTs nothing changes, but that they may be overridden. *)
LEMMA OthersStay ==
  ASSUME Inv, Kept, kind' = kind, NEW Mine \in SUBSET Puts,
         \A q \in Puts \ Mine : put'[q] = put[q],
         overridden \subseteq overridden',
         \A k \in Keys : link'[k] = link[k] \/ Effective(k) \ Mine \subseteq overridden',
         kind = "local" => \A o \in Puts : \/ data'[o] = data[o]
                                           \/ \A q \in Puts \ Mine : put[q].at = {o} => q \in overridden',
         kind # "local" => /\ \A q \in Puts \ Mine : data'[q] = data[q]
                           /\ spoiled \subseteq spoiled'
  PROVE  \A q \in Puts \ Mine : PutInv(q)'
<1> SUFFICES ASSUME NEW q \in Puts \ Mine PROVE PutInv(q)'
  OBVIOUS
<1> DEFINE r == put[q]
<1>1. q \in Puts /\ put'[q] = r /\ kind' = kind /\ r \in PutTypes
  BY DEF Inv, Typed
<1>2. PutInv(q)
  BY DEF Inv, PutInv
<1>3. r.key \subseteq Keys /\ r.at \subseteq Puts
  BY <1>1 DEF PutTypes
<1>4. ReaderInv(q)'
  BY <1>1, <1>2 DEF PutInv, ReaderInv
<1>5. PlaceInv(q)'
  <2>1. PlaceInv(q)
    BY <1>2 DEF PutInv
  <2>2. kind = "local" /\ r.pc # "new" =>
          /\ r.pc # "attrs"
          /\ \E o \in Puts, k \in Keys : r.at = {o} /\ r.key = {k} /\ IsObject(o, k)'
    BY <2>1 DEF PlaceInv, Kept
  <2>3. QED
    BY <1>1, <2>1, <2>2 DEF PlaceInv
<1>6. LatestInv(q)'
  <2> SUFFICES ASSUME q \notin overridden', NEW o \in r.at, NEW k \in r.key PROVE link'[k] = {o}
    BY <1>1 DEF LatestInv
  <2>1. link[k] = {o} /\ k \in Keys
    BY <1>2, <1>3 DEF PutInv, LatestInv
  <2>2. r.key = {k}
    <3>1. \E j \in Keys : r.key = {j}
      BY <1>2 DEF PutInv, PlaceInv
    <3>2. QED
      BY <3>1
  <2>3. q \in Effective(k) \ Mine
    BY <1>1, <2>2 DEF Effective
  <2>4. QED
    BY <2>1, <2>3
<1>7. VersionInv(q)'
  <2> SUFFICES ASSUME kind # "local" PROVE VersionInv(q)'
    BY <1>1 DEF VersionInv
  <2>1. data'[q] = data[q] /\ Whole(q)' = Whole(q)
    BY <1>1 DEF Whole
  <2>2. VersionInv(q)
    BY <1>2 DEF PutInv
  <2>3. QED
    BY <1>1, <2>1, <2>2 DEF VersionInv
<1>8. WriterInv(q)'
  <2> SUFFICES ASSUME kind = "local", q \notin overridden', NEW o \in r.at
               PROVE  /\ r.pc = "copy" => data'[o] = Run(q, Len(r.sent))
                      /\ r.pc = "acked" => data'[o] = Whole(q)'
    BY <1>1 DEF WriterInv, Run
  <2>1. /\ r.pc = "copy" => data[o] = Run(q, Len(r.sent))
        /\ r.pc = "acked" => data[o] = Whole(q)
    BY <1>2 DEF PutInv, WriterInv
  <2>2. Whole(q)' = Whole(q)
    BY <1>1 DEF Whole
  <2>3. r.at = {o} /\ o \in Puts
    <3>1. r.pc # "new"
      BY <1>2 DEF PutInv, PlaceInv
    <3>2. QED
      BY <1>2, <3>1 DEF PutInv, PlaceInv
  <2>4. data'[o] = data[o]
    BY <2>3
  <2>5. QED
    BY <2>1, <2>2, <2>4
<1>9. QED
  BY <1>4, <1>5, <1>6, <1>7, <1>8 DEF PutInv

(* So it comes to the request that moves. *)
LEMMA InvStays ==
  ASSUME Inv, Typed', Kept, kind' = kind, UNCHANGED batch, NEW Mine \in SUBSET Puts,
         \A q \in Puts \ Mine : put'[q] = put[q],
         overridden \subseteq overridden', disturbed \subseteq disturbed',
         \A k \in Keys : Named(k),
         \A k \in Keys : link'[k] = link[k] \/ Effective(k) \ Mine \subseteq overridden',
         kind = "local" => \A o \in Puts : \/ data'[o] = data[o]
                                           \/ /\ \A q \in Puts \ Mine : put[q].at = {o} => q \in overridden'
                                              /\ Reading(o) \subseteq disturbed',
         kind # "local" => /\ \A q \in Puts : data'[q] = data[q] \/ (q \in Mine /\ put[q].at # {q})
                           /\ spoiled \subseteq spoiled',
         \A p \in Mine : PutInv(p)',
         \A o \in Puts : SizeInv(o)' /\ FileInv(o)',
         UNCHANGED get
  PROVE  Inv'
<1>1. \A q \in Puts \ Mine : PutInv(q)'
  BY OthersStay
<1>2. (\A k \in Keys : NameInv(k))' /\ BatchInv'
  <2>1. link' \in [Keys -> SUBSET Puts]
    BY DEF Typed
  <2>2. QED
    BY <2>1, NamesStay
<1>3. (\A g \in Gets : GetInv(g))'
  BY GetsStay
<1>4. \A p \in Puts : PutInv(p)'
  BY <1>1
<1>5. QED
  BY <1>2, <1>3, <1>4 DEF Inv, PutInv

-----------------------------------------------------------------------------
(***************************************************************************)
(* PUT.                                                                    *)
(***************************************************************************)

(* A PUT that is done with its body. *)
Ends == {"attrs", "acked", "failed"}
Done(r, pc, at, tag) == [r EXCEPT !.pc = pc, !.reader = NoPut.reader, !.sent = <<>>, !.whole = FALSE,
                                  !.at = at, !.tag = tag]

LEMMA DoneType ==
  ASSUME NEW r \in PutTypes, NEW pc \in Ends, NEW at \in SUBSET Puts, NEW tag \in Stored
  PROVE  /\ Done(r, pc, at, tag) \in PutTypes
         /\ Done(r, pc, at, tag).pc = pc /\ Done(r, pc, at, tag).at = at
         /\ Done(r, pc, at, tag).tag = tag /\ Done(r, pc, at, tag).key = r.key
         /\ Done(r, pc, at, tag).size = r.size /\ Done(r, pc, at, tag).sent = <<>>
         /\ ~Done(r, pc, at, tag).whole
<1> DEFINE reader == NoPut.reader
           none == <<>>
<1>1. reader \in Readers /\ none \in Seq(Tokens)
  BY EmptyTypes
<1>2. Done(r, pc, at, tag) = [r EXCEPT !.pc = pc, !.reader = reader, !.sent = none, !.whole = FALSE,
                                       !.at = at, !.tag = tag]
  BY DEF Done
<1> HIDE DEF reader, none
<1>3. /\ Done(r, pc, at, tag) \in PutTypes
      /\ Done(r, pc, at, tag).pc = pc /\ Done(r, pc, at, tag).at = at
      /\ Done(r, pc, at, tag).tag = tag /\ Done(r, pc, at, tag).key = r.key
      /\ Done(r, pc, at, tag).size = r.size /\ Done(r, pc, at, tag).sent = none
      /\ ~Done(r, pc, at, tag).whole
  BY <1>1, <1>2 DEF PutTypes, Ends
<1>4. QED
  BY <1>3 DEF none

(* One PUT becomes r. *)
Becomes(p, r) ==
  /\ r \in PutTypes
  /\ put' \in [Puts -> PutTypes] /\ put'[p] = r /\ \A q \in Puts \ {p} : put'[q] = put[q]

LEMMA BecomesIf ==
  ASSUME Typed, NEW p \in Puts, NEW r \in PutTypes, put' = [put EXCEPT ![p] = r]
  PROVE  Becomes(p, r)
BY DEF Typed, Becomes

LEMMA GotoResult ==
  ASSUME Typed, NEW p \in Puts, NEW pc \in {"acked", "failed"}, Goto(p, pc)
  PROVE  Becomes(p, Done(put[p], pc, put[p].at, put[p].tag))
<1> DEFINE r == put[p]
           s == Done(r, pc, r.at, r.tag)
<1>1. r \in PutTypes /\ r.at \in SUBSET Puts /\ r.tag \in Stored
  BY DEF Typed, PutTypes
<1>2. s \in PutTypes
  <2>1. pc \in Ends
    BY DEF Ends
  <2>2. QED
    BY <1>1, <2>1, DoneType
<1>3. put' = [put EXCEPT ![p] = s]
  BY <1>1 DEF Goto, Done, Typed, PutTypes
<1> HIDE DEF s
<1>4. QED
  BY <1>2, <1>3, BecomesIf DEF s

LEMMA StoreResult ==
  ASSUME Typed, NEW p \in Puts, NEW pc \in Ends, Store(p, pc)
  PROVE  LET run == Run(p, Len(put[p].sent)) IN
         /\ Becomes(p, Done(put[p], pc, {p}, run))
         /\ data' = [data EXCEPT ![p] = run] /\ run \in Stored
         /\ \E k \in put[p].key : link' = [link EXCEPT ![k] = {p}] /\ Override(k, p)
<1> DEFINE r == put[p]
           run == Run(p, Len(r.sent))
           s == Done(r, pc, {p}, run)
<1>1. r \in PutTypes /\ Len(r.sent) \in Nat /\ DOMAIN r.sent = 1..Len(r.sent)
  <2>1. r \in PutTypes /\ r.sent \in Seq(Tokens)
    BY DEF Typed, PutTypes
  <2>2. QED
    BY <2>1
<1>2. run \in Stored /\ run = [i \in DOMAIN r.sent |-> {p}]
  BY <1>1, RunType DEF Run
<1> HIDE DEF run
<1>3. s \in PutTypes
  <2>1. {p} \in SUBSET Puts
    OBVIOUS
  <2>2. QED
    BY ONLY <1>1, <1>2, <2>1, pc \in Ends, DoneType
<1>4. put' = [put EXCEPT ![p] = s]
  <2>1. put' = [put EXCEPT ![p].pc = pc, ![p].at = {p}, ![p].tag = run,
                           ![p].reader = NoPut.reader, ![p].sent = <<>>, ![p].whole = FALSE]
    BY <1>2 DEF Store
  <2>2. put \in [Puts -> PutTypes]
    BY DEF Typed
  <2>3. QED
    BY ONLY <2>1, <2>2, p \in Puts DEF Done, PutTypes
<1> HIDE DEF s
<1>5. Becomes(p, s)
  BY <1>3, <1>4, BecomesIf
<1>6. QED
  BY <1>2, <1>5 DEF Store, s, run

(* What a call of Read does for a PUT. *)
LEMMA ReadOfPut ==
  ASSUME Inv, NEW p \in Puts, put[p].pc = "copy", NEW room \in Rooms, NEW got \in Read(put[p].reader, room)
  PROVE  \E body \in Bodies[p] :
           /\ put[p].size = body.size /\ (put[p].whole <=> body.cut = Len(body.sent))
           /\ Result(got, body, Len(put[p].sent))
<1> DEFINE r == put[p]
<1>1. r.reader \in Readers /\ Len(r.sent) \in Nat
  <2>1. r.reader \in Readers /\ r.sent \in Seq(Tokens)
    BY DEF Inv, Typed, PutTypes
  <2>2. QED
    BY <2>1
<1>2. PICK body \in Bodies[p] :
        /\ r.size = body.size
        /\ r.whole <=> body.cut = Len(body.sent)
        /\ \E pos \in Nat : Reads(r.reader, body, pos, Len(r.sent))
  BY DEF Inv, ReaderInv
<1>3. PICK pos \in Nat : Reads(r.reader, body, pos, Len(r.sent))
  BY <1>2
<1>4. IsSending(body) /\ room \in Nat \ {0}
  BY BodiesAssumption, RoomsAssumption
<1> DEFINE reader == r.reader
           count == Len(r.sent)
<1>5. /\ reader \in Readers /\ count \in Nat /\ pos \in Nat /\ Reads(reader, body, pos, count)
      /\ got \in Read(reader, room)
  BY <1>1, <1>3
<1> HIDE DEF reader, count
<1>6. Result(got, body, count)
  BY <1>4, <1>5, ReadResult
<1>7. QED
  BY <1>2, <1>6 DEF count

LEMMA EndedResult ==
  ASSUME Inv, NEW p \in Puts, NEW err, Ended(p, err)
  PROVE  /\ put[p].pc = "copy"
         /\ err = "eof" => Len(put[p].sent) = put[p].size
         /\ err = "error" => ~put[p].whole
<1>1. put[p].pc = "copy"
  BY DEF Ended
<1>2. PICK room \in Rooms : \E got \in Read(put[p].reader, room) : got.err = err
  BY DEF Ended
<1>3. PICK got \in Read(put[p].reader, room) : got.err = err
  BY <1>2
<1>4. PICK body \in Bodies[p] :
        /\ put[p].size = body.size /\ (put[p].whole <=> body.cut = Len(body.sent))
        /\ Result(got, body, Len(put[p].sent))
  BY <1>1, ReadOfPut
<1>5. QED
  BY <1>1, <1>3, <1>4 DEF Result

(* A PUT that has ended is in nobody's way. *)
LEMMA DoneInv ==
  ASSUME NEW p \in Puts, NEW pc \in Ends, NEW at \in SUBSET Puts, NEW tag \in Stored,
         Typed, put[p].pc # "new", Becomes(p, Done(put[p], pc, at, tag))
  PROVE  /\ put'[p].pc = pc /\ put'[p].at = at /\ put'[p].tag = tag
         /\ put'[p].key = put[p].key /\ put'[p].size = put[p].size
         /\ ReaderInv(p)'
<1> DEFINE r == put[p]
           s == Done(r, pc, at, tag)
<1>1. r \in PutTypes
  BY DEF Typed
<1> HIDE DEF r
<1>2. /\ s.pc = pc /\ s.at = at /\ s.tag = tag /\ s.key = r.key /\ s.size = r.size
      /\ s.sent = <<>> /\ ~s.whole
  BY <1>1, DoneType
<1>3. put'[p] = s
  BY DEF Becomes, r
<1> HIDE DEF s
<1>4. ReaderInv(p)'
  <2>1. put'[p].pc # "copy" /\ put'[p].sent = <<>> /\ ~put'[p].whole
    BY <1>2, <1>3 DEF Ends
  <2>2. QED
    BY <2>1 DEF ReaderInv
<1>5. QED
  BY <1>2, <1>3, <1>4 DEF r

LEMMA GotoInv ==
  ASSUME Inv, NEW p \in Puts, NEW pc \in {"acked", "failed"}, Goto(p, pc),
         put[p].pc \in {"copy", "attrs"},
         UNCHANGED <<kind, link, data, get, batch, overridden, disturbed>>,
         spoiled \subseteq spoiled', spoiled' \subseteq Puts,
         pc = "acked" => kind = "local" /\ Len(put[p].sent) = put[p].size,
         pc = "failed" /\ kind = "local" => put[p].at \subseteq spoiled'
  PROVE  Inv'
<1> DEFINE r == put[p]
           s == Done(r, pc, r.at, r.tag)
<1>0. Typed /\ r \in PutTypes /\ PlaceInv(p) /\ LatestInv(p) /\ VersionInv(p) /\ WriterInv(p)
  BY DEF Inv, Typed
<1>1. r.at \in SUBSET Puts /\ r.tag \in Stored
  BY <1>0 DEF PutTypes
<1>2. Becomes(p, s)
  BY <1>0, GotoResult
<1>3. /\ put'[p].pc = pc /\ put'[p].at = r.at /\ put'[p].tag = r.tag
      /\ put'[p].key = r.key /\ put'[p].size = r.size /\ ReaderInv(p)'
  <2>1. pc \in Ends /\ r.pc # "new"
    BY DEF Ends
  <2>2. QED
    BY ONLY p \in Puts, <2>1, <1>0, <1>1, <1>2, DoneInv
<1> HIDE DEF s
<1>4. \A q \in Puts \ {p} : put'[q] = put[q]
  BY <1>2 DEF Becomes
<1>5. Typed'
  BY <1>0, <1>2 DEF Typed, Becomes
<1>6. \A q \in Puts : put'[q].at = put[q].at /\ put'[q].key = put[q].key /\ put'[q].size = put[q].size
  BY <1>3, <1>4
<1>7. \A o \in Puts, k \in Keys : IsObject(o, k) <=> IsObject(o, k)'
  BY <1>6 DEF IsObject
<1>8. PutInv(p)'
  <2>1. PlaceInv(p)'
    <3>1. kind = "local" => \E o \in Puts, k \in Keys : r.at = {o} /\ r.key = {k} /\ IsObject(o, k)'
      BY <1>0, <1>7 DEF PlaceInv
    <3>2. QED
      BY <1>0, <1>3, <3>1 DEF PlaceInv
  <2>2. LatestInv(p)'
    BY <1>0, <1>3 DEF LatestInv
  <2>3. Whole(p)' = Whole(p)
    BY <1>3 DEF Whole
  <2>4. VersionInv(p)'
    BY <1>0, <1>3, <2>3 DEF VersionInv
  <2>5. WriterInv(p)'
    <3> SUFFICES ASSUME kind = "local", p \notin overridden, NEW o \in r.at, pc = "acked"
                 PROVE  data[o] = Whole(p)
      BY <1>3, <2>3 DEF WriterInv
    <3>1. r.pc = "copy"
      BY <1>0 DEF PlaceInv
    <3>2. QED
      BY <1>0, <3>1, WholeRun DEF WriterInv
  <2>6. QED
    BY <1>3, <2>1, <2>2, <2>4, <2>5 DEF PutInv
<1>9. ASSUME NEW o \in Puts PROVE SizeInv(o)' /\ FileInv(o)'
  <2>1. SizeInv(o)'
    BY DEF Inv, SizeInv
  <2>2. FileInv(o)'
    <3> SUFFICES ASSUME kind = "local", put[o].at = {o}, o \notin spoiled'
                 PROVE  \/ \E q \in Puts : Writing(o)' = {q} /\ data[o] = Run(q, Len(put'[q].sent))
                        \/ Writing(o)' = {} /\ \E q \in Puts : put'[q].pc # "new" /\ data[o] = Whole(q)'
      BY <1>6 DEF FileInv, Run
    <3>1. \/ \E q \in Puts : Writing(o) = {q} /\ data[o] = Run(q, Len(put[q].sent))
          \/ Writing(o) = {} /\ \E q \in Puts : put[q].pc # "new" /\ data[o] = Whole(q)
      BY DEF Inv, FileInv
    <3>2. Writing(o)' = Writing(o) \ {p}
      BY <1>3, <1>4, <1>6 DEF Writing
    <3>3. p \in Writing(o) => pc = "acked" /\ Len(r.sent) = r.size
      BY DEF Writing
    <3>4. \A q \in Puts : Whole(q)' = Whole(q) /\ (put[q].pc # "new" => put'[q].pc # "new")
      BY <1>3, <1>4, <1>6 DEF Whole
    <3>5. CASE p \in Writing(o)
      <4>1. Writing(o) = {p} /\ data[o] = Run(p, Len(r.sent))
        BY <3>1, <3>5
      <4>2. data[o] = Whole(p) /\ Writing(o)' = {}
        BY <3>2, <3>3, <3>5, <4>1, WholeRun
      <4>3. QED
        BY <3>4, <4>2
    <3>6. CASE p \notin Writing(o)
      <4>1. Writing(o)' = Writing(o)
        BY <3>2, <3>6
      <4>2. ASSUME NEW q \in Puts, Writing(o) = {q}, data[o] = Run(q, Len(put[q].sent))
            PROVE  data[o] = Run(q, Len(put'[q].sent))
        BY <1>4, <3>6, <4>2
      <4>3. QED
        BY <3>1, <3>4, <4>1, <4>2
    <3>7. QED
      BY <3>5, <3>6
  <2>3. QED
    BY <2>1, <2>2
<1>10. Kept /\ \A k \in Keys : Named(k)
  BY <1>7 DEF Kept, Named
<1>11. {p} \in SUBSET Puts /\ \A q \in {p} : PutInv(q)'
  BY <1>8
<1>12. QED
  BY <1>4, <1>5, <1>9, <1>10, <1>11, InvStays

(* A version is made: nobody had one of this name before. *)
LEMMA StoreInv ==
  ASSUME Inv, NEW p \in Puts, NEW pc \in Ends, Store(p, pc), put[p].pc = "copy", kind # "local",
         UNCHANGED <<kind, get, batch, disturbed>>,
         spoiled \subseteq spoiled', spoiled' \subseteq Puts,
         pc \in {"attrs", "acked"} => Len(put[p].sent) = put[p].size,
         pc = "attrs" => kind = "gcs",
         Len(put[p].sent) = put[p].size \/ (kind = "gcs" /\ p \in spoiled')
  PROVE  Inv'
<1> DEFINE r == put[p]
           run == Run(p, Len(r.sent))
           s == Done(r, pc, {p}, run)
<1>0. Typed /\ r \in PutTypes /\ ReaderInv(p) /\ PlaceInv(p)
  BY DEF Inv, Typed
<1>1. /\ Becomes(p, s) /\ data' = [data EXCEPT ![p] = run] /\ run \in Stored
      /\ \E k \in r.key : link' = [link EXCEPT ![k] = {p}] /\ Override(k, p)
  BY <1>0, StoreResult
<1>2. {p} \in SUBSET Puts
  OBVIOUS
<1>3. /\ put'[p].pc = pc /\ put'[p].at = {p} /\ put'[p].tag = run
      /\ put'[p].key = r.key /\ put'[p].size = r.size /\ ReaderInv(p)'
  BY <1>0, <1>1, <1>2, DoneInv
<1>4. r.at = {} /\ Len(r.sent) \in Nat /\ Len(r.sent) <= r.size /\ r.size \in 0..MaxInt
  <2>1. r.at = {}
    BY <1>0 DEF PlaceInv
  <2>2. r.sent \in Seq(Tokens) /\ r.size \in 0..MaxInt
    BY <1>0 DEF PutTypes
  <2>3. Len(r.sent) \in Nat
    BY <2>2
  <2>4. PICK body \in Bodies[p] : r.size = body.size /\ \E pos \in Nat : Reads(r.reader, body, pos, Len(r.sent))
    BY <1>0 DEF ReaderInv
  <2>5. Len(r.sent) + r.reader.remaining <= body.size /\ r.reader.remaining \in Nat
    BY <1>0, <2>4 DEF Reads, PutTypes, Readers
  <2>6. QED
    BY <2>1, <2>2, <2>3, <2>4, <2>5
<1> HIDE DEF s, run
<1>5. \A q \in Puts \ {p} : put'[q] = put[q]
  BY <1>1 DEF Becomes
<1>6. PICK k \in r.key : link' = [link EXCEPT ![k] = {p}] /\ Override(k, p)
  BY <1>1
<1>7. k \in Keys /\ r.key = {k}
  <2>1. \E j \in Keys : r.key = {j}
    BY <1>0 DEF PlaceInv
  <2>2. QED
    BY <2>1
<1>8. /\ link' = [link EXCEPT ![k] = {p}]
      /\ overridden' = overridden \cup (Effective(k) \ {p})
  BY <1>6 DEF Override
<1>9. Typed'
  <2>1. data' \in [Puts -> Stored] /\ link' \in [Keys -> SUBSET Puts] /\ overridden' \subseteq Puts
    BY <1>0, <1>1, <1>2, <1>7, <1>8 DEF Typed, Effective
  <2>2. QED
    BY <1>0, <1>1, <2>1 DEF Typed, Becomes
<1>10. Kept
  <2> SUFFICES ASSUME NEW o \in Puts, NEW j \in Keys, IsObject(o, j) PROVE IsObject(o, j)'
    BY DEF Kept
  <2>1. o # p
    BY <1>4 DEF IsObject
  <2>2. QED
    BY <1>5, <2>1 DEF IsObject
<1>11. ASSUME NEW j \in Keys PROVE Named(j) /\ (link'[j] = link[j] \/ Effective(j) \ {p} \subseteq overridden')
  <2>1. CASE j = k
    <3>1. link'[k] = {p} /\ IsObject(p, k)' /\ ~IsObject(p, k)
      BY <1>0, <1>3, <1>4, <1>7, <1>8 DEF IsObject, Typed
    <3>2. QED
      BY <2>1, <3>1, <1>8 DEF Named
  <2>2. CASE j # k
    BY <2>2, <1>0, <1>8 DEF Typed, Named
  <2>3. QED
    BY <2>1, <2>2
<1>12. data'[p] = run /\ \A q \in Puts \ {p} : data'[q] = data[q]
  BY <1>0, <1>1 DEF Typed
<1>13. PutInv(p)'
  <2>1. PlaceInv(p)'
    BY <1>3, <1>7 DEF PlaceInv, Ends
  <2>2. LatestInv(p)'
    BY <1>0, <1>3, <1>7, <1>8 DEF LatestInv, Typed
  <2>3. Len(r.sent) = r.size => run = Whole(p)'
    BY <1>3 DEF Whole, Run, run
  <2>4. VersionInv(p)'
    BY <1>3, <1>12, <2>3 DEF VersionInv
  <2>5. WriterInv(p)'
    BY DEF WriterInv
  <2>6. QED
    BY <1>3, <2>1, <2>2, <2>4, <2>5 DEF PutInv
<1>14. ASSUME NEW o \in Puts PROVE SizeInv(o)' /\ FileInv(o)'
  <2>1. SizeInv(o)'
    <3>1. Len(run) = Len(r.sent)
      BY <1>4, RunType DEF run
    <3>2. SizeInv(o)
      BY DEF Inv
    <3>3. CASE o = p
      <4>1. MaxInt \in Nat
        BY EmptyTypes
      <4>2. Len(r.sent) <= MaxInt
        BY ONLY <1>4, <4>1
      <4>3. QED
        BY <1>12, <3>1, <3>3, <4>2 DEF SizeInv
    <3>4. CASE o # p
      BY <1>12, <3>2, <3>4 DEF SizeInv
    <3>5. QED
      BY <3>3, <3>4
  <2>2. QED
    BY <2>1 DEF FileInv
<1>15. /\ \A q \in {p} : PutInv(q)'
       /\ overridden \subseteq overridden'
       /\ \A q \in Puts : data'[q] = data[q] \/ (q \in {p} /\ put[q].at # {q})
  BY <1>4, <1>8, <1>12, <1>13
<1>16. QED
  BY <1>2, <1>5, <1>9, <1>10, <1>11, <1>14, <1>15, InvStays

LEMMA PutCommitsInv ==
  ASSUME Inv, NEW p \in Puts, PutCommits(p)
  PROVE  Inv'
<1>1. put[p].pc = "copy" /\ Len(put[p].sent) = put[p].size
  BY EndedResult DEF PutCommits
<1>2. /\ UNCHANGED <<kind, get, batch, spoiled, disturbed>>
      /\ CASE kind = "local" -> Goto(p, "acked") /\ UNCHANGED <<link, data, overridden>>
           [] kind = "s3"    -> IF put[p].declared /\ Len(put[p].sent) = put[p].size THEN Store(p, "acked")
                                ELSE Goto(p, "failed") /\ UNCHANGED <<link, data, overridden>>
           [] kind = "azure" -> Store(p, "acked")
           [] kind = "gcs"   -> Store(p, "attrs")
  BY DEF PutCommits
<1>3. kind \in {"s3", "gcs", "azure", "local"} /\ spoiled \subseteq Puts
  BY KindsAssumption DEF Inv, Typed
<1>4. \/ Goto(p, "acked") /\ UNCHANGED <<link, data, overridden>> /\ kind = "local"
      \/ Goto(p, "failed") /\ UNCHANGED <<link, data, overridden>> /\ kind = "s3"
      \/ Store(p, "acked") /\ kind # "local"
      \/ Store(p, "attrs") /\ kind = "gcs"
  BY <1>2, <1>3
<1>5. "acked" \in Ends /\ "attrs" \in Ends
  BY DEF Ends
<1>6. CASE Goto(p, "acked") /\ UNCHANGED <<link, data, overridden>> /\ kind = "local"
  BY <1>1, <1>2, <1>3, <1>6, GotoInv
<1>7. CASE Goto(p, "failed") /\ UNCHANGED <<link, data, overridden>> /\ kind = "s3"
  BY <1>1, <1>2, <1>3, <1>7, GotoInv
<1>8. CASE Store(p, "acked") /\ kind # "local"
  BY <1>1, <1>2, <1>3, <1>5, <1>8, StoreInv
<1>9. CASE Store(p, "attrs") /\ kind = "gcs"
  BY <1>1, <1>2, <1>3, <1>5, <1>9, StoreInv
<1>10. QED
  BY <1>4, <1>6, <1>7, <1>8, <1>9

LEMMA PutBreaksOffInv ==
  ASSUME Inv, NEW p \in Puts, PutBreaksOff(p)
  PROVE  Inv'
<1>1. put[p].pc = "copy"
  BY DEF PutBreaksOff, Ended
<1>2. spoiled \subseteq Puts /\ put[p].at \subseteq Puts
  BY DEF Inv, Typed, PutTypes
<1>3. UNCHANGED <<kind, get, batch, disturbed>>
  BY DEF PutBreaksOff
<1>4. CASE /\ Goto(p, "failed") /\ spoiled' = spoiled \cup put[p].at
           /\ UNCHANGED <<link, data, overridden>>
  <2>1. spoiled \subseteq spoiled' /\ spoiled' \subseteq Puts /\ put[p].at \subseteq spoiled'
    BY <1>2, <1>4
  <2>2. QED
    BY <1>1, <1>3, <1>4, <2>1, GotoInv
<1>5. CASE kind = "gcs" /\ Store(p, "failed") /\ spoiled' = spoiled \cup {p}
  <2>1. spoiled \subseteq spoiled' /\ spoiled' \subseteq Puts /\ p \in spoiled' /\ "failed" \in Ends
    BY <1>2, <1>5 DEF Ends
  <2>2. QED
    BY <1>1, <1>3, <1>5, <2>1, StoreInv
<1>6. QED
  BY <1>4, <1>5 DEF PutBreaksOff

LEMMA PutFailsInv ==
  ASSUME Inv, NEW p \in Puts, PutFails(p)
  PROVE  Inv'
<1>1. put[p].pc \in {"copy", "attrs"} /\ UNCHANGED <<kind, get, batch, disturbed>>
  BY DEF PutFails
<1>2. spoiled \subseteq Puts /\ put[p].at \subseteq Puts
  BY DEF Inv, Typed, PutTypes
<1>3. CASE /\ Goto(p, "failed") /\ UNCHANGED <<link, data, overridden>>
           /\ spoiled' = IF kind = "local" THEN spoiled \cup put[p].at ELSE spoiled
  <2>1. /\ spoiled \subseteq spoiled' /\ spoiled' \subseteq Puts
        /\ kind = "local" => put[p].at \subseteq spoiled'
    BY <1>2, <1>3
  <2>2. QED
    BY <1>1, <1>3, <2>1, GotoInv
<1>4. CASE kind # "local" /\ Ended(p, "eof") /\ Store(p, "failed") /\ UNCHANGED spoiled
  <2>1. put[p].pc = "copy" /\ "failed" \in Ends /\ Len(put[p].sent) = put[p].size
    BY <1>4, EndedResult DEF Ends
  <2>2. QED
    BY <1>1, <1>2, <1>4, <2>1, StoreInv
<1>5. QED
  BY <1>3, <1>4 DEF PutFails

(* The name asked for is that of the version the PUT made, or a later one's. *)
LEMMA PutAttrsInv ==
  ASSUME Inv, NEW p \in Puts, PutAttrs(p)
  PROVE  Inv'
<1> DEFINE r == put[p]
<1>0. /\ Typed /\ r \in PutTypes /\ ReaderInv(p) /\ PlaceInv(p) /\ LatestInv(p) /\ VersionInv(p)
      /\ spoiled \subseteq Puts
  BY DEF Inv, Typed
<1>1. r.pc = "attrs" /\ UNCHANGED <<kind, link, data, get, batch, history>>
  BY DEF PutAttrs
<1>2. kind = "gcs" /\ r.at = {p}
  BY <1>0, <1>1 DEF PlaceInv
<1>3. PICK k \in r.key : \/ link[k] = {} /\ Goto(p, "failed")
                         \/ \E o \in link[k] : put' = [put EXCEPT ![p].pc = "acked", ![p].tag = data[o]]
  BY DEF PutAttrs
<1>4. CASE Goto(p, "failed")
  BY <1>0, <1>1, <1>2, <1>4, GotoInv DEF history
<1>5. CASE \E o \in link[k] : put' = [put EXCEPT ![p].pc = "acked", ![p].tag = data[o]]
  <2>1. PICK o \in link[k] : put' = [put EXCEPT ![p].pc = "acked", ![p].tag = data[o]]
    BY <1>5
  <2>2. k \in Keys /\ r.key = {k}
    <3>1. \E j \in Keys : r.key = {j}
      BY <1>0, <1>1 DEF PlaceInv
    <3>2. QED
      BY <3>1
  <2>3. o \in Puts /\ data[o] \in Stored
    BY <1>0, <2>2 DEF Typed
  <2> DEFINE s == [r EXCEPT !.pc = "acked", !.tag = data[o]]
  <2>4. s \in PutTypes /\ s.pc = "acked" /\ s.tag = data[o] /\ s.key = r.key /\ s.at = r.at
        /\ s.size = r.size /\ s.sent = r.sent /\ (s.whole <=> r.whole)
    BY <1>0, <2>3 DEF PutTypes
  <2>5. put' = [put EXCEPT ![p] = s]
    BY <1>0, <2>1 DEF Typed, PutTypes
  <2> HIDE DEF s
  <2>6. Becomes(p, s)
    BY <1>0, <2>4, <2>5, BecomesIf
  <2>7. put'[p] = s /\ \A q \in Puts \ {p} : put'[q] = put[q]
    BY <2>6 DEF Becomes
  <2>8. Typed'
    BY <1>0, <1>1, <2>6 DEF Typed, Becomes, history
  <2>9. \A q \in Puts : put'[q].at = put[q].at /\ put'[q].key = put[q].key /\ put'[q].size = put[q].size
    BY <2>4, <2>7
  <2>10. Kept
    BY <2>9 DEF Kept, IsObject
  <2>11. PutInv(p)'
    <3>1. ReaderInv(p)'
      <4>1. /\ put'[p].sent = r.sent /\ put'[p].pc # "copy" /\ ~put'[p].whole
        BY <1>0, <1>1, <2>4, <2>7 DEF ReaderInv
      <4>2. QED
        BY <1>0, <4>1 DEF ReaderInv
    <3>2. PlaceInv(p)'
      BY <1>0, <1>1, <1>2, <2>4, <2>7 DEF PlaceInv
    <3>3. LatestInv(p)'
      BY <1>0, <1>1, <2>4, <2>7 DEF LatestInv, history
    <3>4. Whole(p)' = Whole(p)
      BY <2>9 DEF Whole
    <3>5. data[p] = Whole(p)
      BY <1>0, <1>1, <1>2 DEF VersionInv
    <3>6. p \notin overridden => s.tag = Whole(p)
      <4> SUFFICES ASSUME p \notin overridden PROVE data[o] = Whole(p)
        BY <2>4
      <4>1. link[k] = {p}
        BY <1>0, <1>2, <2>2 DEF LatestInv
      <4>2. QED
        BY <2>1, <3>5, <4>1
    <3>7. VersionInv(p)'
      BY <1>1, <1>2, <2>4, <2>7, <3>4, <3>5, <3>6 DEF VersionInv, history
    <3>8. WriterInv(p)'
      BY <1>1, <1>2 DEF WriterInv
    <3>9. QED
      BY <3>1, <3>2, <3>3, <3>7, <3>8 DEF PutInv
  <2>12. \A q \in Puts : SizeInv(q)' /\ FileInv(q)'
    <3>1. \A q \in Puts : SizeInv(q)'
      BY <1>1 DEF Inv, SizeInv
    <3>2. \A q \in Puts : FileInv(q)'
      BY <1>1, <1>2 DEF FileInv
    <3>3. QED
      BY <3>1, <3>2
  <2>13. {p} \in SUBSET Puts /\ (\A q \in {p} : PutInv(q)') /\ \A j \in Keys : Named(j)
    BY <1>1, <2>11 DEF Named
  <2>14. QED
    BY <1>1, <1>2, <2>7, <2>8, <2>10, <2>12, <2>13, InvStays DEF history
<1>6. QED
  BY <1>3, <1>4, <1>5

(* The bytes of a PUT when n more have come. *)
LEMMA SentOn ==
  ASSUME NEW sent \in Seq(Tokens), NEW bytes \in Seq(Tokens),
         \A i \in DOMAIN sent : sent[i] = Token("byte", i),
         \A i \in DOMAIN bytes : bytes[i] = Token("byte", Len(sent) + i)
  PROVE  /\ sent \o bytes \in Seq(Tokens) /\ Len(sent \o bytes) = Len(sent) + Len(bytes)
         /\ \A i \in DOMAIN (sent \o bytes) : (sent \o bytes)[i] = Token("byte", i)
<1> DEFINE all == sent \o bytes
           n == Len(sent)
           m == Len(bytes)
<1>1. /\ all \in Seq(Tokens) /\ Len(all) = n + m /\ n \in Nat /\ m \in Nat
      /\ \A i \in 1..(n + m) : all[i] = IF i <= n THEN sent[i] ELSE bytes[i - n]
  OBVIOUS
<1>2. DOMAIN all = 1..(n + m) /\ DOMAIN sent = 1..n /\ DOMAIN bytes = 1..m
  BY <1>1
<1> HIDE DEF all
<1>3. ASSUME NEW i \in 1..(n + m) PROVE all[i] = Token("byte", i)
  <2>1. CASE i <= n
    BY <1>1, <1>2, <2>1
  <2>2. CASE i > n
    <3>1. i - n \in 1..m /\ n + (i - n) = i
      BY <1>1, <2>2
    <3>2. bytes[i - n] = Token("byte", n + (i - n))
      BY <1>2, <3>1
    <3>3. QED
      BY <1>1, <2>2, <3>1, <3>2
  <2>3. QED
    BY <1>1, <2>1, <2>2
<1>4. QED
  BY <1>1, <1>2, <1>3 DEF all

LEMMA CopyResult ==
  ASSUME Inv, NEW p \in Puts, NEW room \in Rooms, NEW got \in Read(put[p].reader, room),
         put[p].pc = "copy", got.err = "nil",
         put' = [put EXCEPT ![p].reader = got.reader, ![p].sent = @ \o got.bytes]
  PROVE  /\ Becomes(p, put'[p])
         /\ put'[p].pc = "copy" /\ put'[p].at = put[p].at /\ put'[p].key = put[p].key
         /\ put'[p].size = put[p].size /\ put'[p].tag = put[p].tag
         /\ Len(put[p].sent) \in Nat /\ Len(got.bytes) \in Nat
         /\ (got.bytes # <<>> => Len(got.bytes) # 0)
         /\ Len(put'[p].sent) = Len(put[p].sent) + Len(got.bytes)
         /\ Len(put'[p].sent) <= put[p].size
         /\ ReaderInv(p)'
<1> DEFINE r == put[p]
           sent == r.sent \o got.bytes
           reader == got.reader
           s == [r EXCEPT !.reader = reader, !.sent = sent]
<1>0. /\ put \in [Puts -> PutTypes] /\ r \in PutTypes /\ ReaderInv(p)
  BY DEF Inv, Typed
<1>1. PICK body \in Bodies[p] :
        /\ r.size = body.size /\ (r.whole <=> body.cut = Len(body.sent))
        /\ Result(got, body, Len(r.sent))
  BY ReadOfPut
<1>2. /\ got.bytes \in Seq(Tokens) /\ reader \in Readers
      /\ \A i \in DOMAIN got.bytes : got.bytes[i] = Token("byte", Len(r.sent) + i)
      /\ Len(r.sent) + Len(got.bytes) <= body.size
      /\ \E pos \in Nat : Reads(reader, body, pos, Len(r.sent) + Len(got.bytes))
  BY <1>1 DEF Result
<1>3. r.sent \in Seq(Tokens) /\ \A i \in DOMAIN r.sent : r.sent[i] = Token("byte", i)
  BY <1>0 DEF ReaderInv, PutTypes
<1>4. /\ sent \in Seq(Tokens) /\ Len(sent) = Len(r.sent) + Len(got.bytes)
      /\ \A i \in DOMAIN sent : sent[i] = Token("byte", i)
  BY <1>2, <1>3, SentOn
<1>5. /\ Len(r.sent) \in Nat /\ Len(got.bytes) \in Nat /\ (got.bytes # <<>> => Len(got.bytes) # 0)
  BY <1>2, <1>3
<1>6. put' = [put EXCEPT ![p] = s]
  BY <1>0 DEF PutTypes
<1> HIDE DEF sent, reader
<1>7. /\ s \in PutTypes /\ s.pc = r.pc /\ s.at = r.at /\ s.key = r.key /\ s.size = r.size /\ s.tag = r.tag
      /\ s.sent = sent /\ s.reader = reader /\ (s.whole <=> r.whole)
  BY <1>0, <1>2, <1>4 DEF PutTypes
<1> HIDE DEF s
<1>8. Becomes(p, s) /\ put'[p] = s
  <2>1. Typed
    BY DEF Inv
  <2>2. QED
    BY <1>6, <1>7, <2>1, BecomesIf DEF Becomes
<1>9. ReaderInv(p)'
  BY <1>1, <1>2, <1>4, <1>7, <1>8 DEF ReaderInv
<1>10. QED
  BY <1>1, <1>2, <1>4, <1>5, <1>7, <1>8, <1>9

LEMMA CopyInv ==
  ASSUME Inv, NEW p \in Puts, Copy(p)
  PROVE  Inv'
<1> DEFINE r == put[p]
           n == Len(r.sent)
<1>0. /\ Typed /\ r \in PutTypes /\ PlaceInv(p) /\ LatestInv(p) /\ VersionInv(p) /\ WriterInv(p)
  BY DEF Inv, Typed
<1>1. PICK room \in Rooms, k \in Keys : \E got \in Read(r.reader, room) :
        /\ r.pc = "copy" /\ r.key = {k}
        /\ got.err = "nil"
        /\ put' = [put EXCEPT ![p].reader = got.reader, ![p].sent = @ \o got.bytes]
        /\ IF kind = "local" /\ got.bytes # <<>>
             THEN \E o \in put[p].at :
                    /\ data' = [data EXCEPT ![o] = Written(@, Len(put[p].sent), Len(got.bytes), p)]
                    /\ overridden' = IF link[k] = {o} THEN overridden \cup (Effective(k) \ {p})
                                     ELSE overridden
                    /\ spoiled' = IF Writing(o) = {p} THEN spoiled ELSE spoiled \cup {o}
                    /\ disturbed' = disturbed \cup Reading(o)
             ELSE UNCHANGED <<data, history>>
        /\ UNCHANGED <<kind, link, get, batch>>
  BY DEF Copy
<1>2. PICK got \in Read(r.reader, room) :
        /\ r.pc = "copy" /\ r.key = {k}
        /\ got.err = "nil"
        /\ put' = [put EXCEPT ![p].reader = got.reader, ![p].sent = @ \o got.bytes]
        /\ IF kind = "local" /\ got.bytes # <<>>
             THEN \E o \in put[p].at :
                    /\ data' = [data EXCEPT ![o] = Written(@, Len(put[p].sent), Len(got.bytes), p)]
                    /\ overridden' = IF link[k] = {o} THEN overridden \cup (Effective(k) \ {p})
                                     ELSE overridden
                    /\ spoiled' = IF Writing(o) = {p} THEN spoiled ELSE spoiled \cup {o}
                    /\ disturbed' = disturbed \cup Reading(o)
             ELSE UNCHANGED <<data, history>>
        /\ UNCHANGED <<kind, link, get, batch>>
  BY <1>1
<1> DEFINE m == Len(got.bytes)
<1>3. /\ Becomes(p, put'[p])
      /\ put'[p].pc = "copy" /\ put'[p].at = r.at /\ put'[p].key = r.key
      /\ put'[p].size = r.size /\ put'[p].tag = r.tag
      /\ n \in Nat /\ m \in Nat /\ (got.bytes # <<>> => m # 0)
      /\ Len(put'[p].sent) = n + m /\ Len(put'[p].sent) <= r.size
      /\ ReaderInv(p)'
  BY <1>2, CopyResult
<1>4. /\ UNCHANGED <<kind, link, get, batch>> /\ r.pc = "copy" /\ r.key = {k}
      /\ \A q \in Puts \ {p} : put'[q] = put[q]
  BY <1>2, <1>3 DEF Becomes
<1>5. \A q \in Puts : put'[q].pc = put[q].pc /\ put'[q].at = put[q].at /\ put'[q].key = put[q].key
                      /\ put'[q].size = put[q].size
  BY <1>3, <1>4
<1>6. Kept /\ \A j \in Keys : Named(j)
  BY <1>4, <1>5 DEF Kept, IsObject, Named
<1>7. \A o \in Puts : Writing(o)' = Writing(o)
  BY <1>5 DEF Writing
<1>8. PlaceInv(p)'
  <2>1. kind = "local" => \E o \in Puts, j \in Keys : r.at = {o} /\ r.key = {j} /\ IsObject(o, j)'
    BY <1>0, <1>4, <1>6 DEF PlaceInv, Kept
  <2>2. QED
    BY <1>0, <1>3, <1>4, <2>1 DEF PlaceInv
<1>9. {p} \in SUBSET Puts
  OBVIOUS
<1>10. CASE ~(kind = "local" /\ got.bytes # <<>>)
  <2>1. UNCHANGED <<data, overridden, spoiled, disturbed>>
    BY <1>2, <1>10 DEF history
  <2>2. kind = "local" => n + m = n
    <3>1. got.bytes = <<>> => m = 0
      OBVIOUS
    <3>2. kind = "local" => m = 0
      BY <1>10, <3>1
    <3>3. n \in Nat
      BY <1>3
    <3> HIDE DEF n, m
    <3>4. QED
      BY ONLY <3>2, <3>3
  <2>3. Typed'
    BY <1>0, <1>3, <1>4, <2>1 DEF Typed, Becomes
  <2>4. PutInv(p)'
    <3>1. LatestInv(p)' /\ VersionInv(p)'
      BY <1>0, <1>3, <1>4, <2>1 DEF LatestInv, VersionInv, PlaceInv
    <3>2. WriterInv(p)'
      <4> SUFFICES ASSUME kind = "local", p \notin overridden, NEW o \in r.at
                   PROVE  data[o] = Run(p, n + m)
        BY <1>3, <1>4, <2>1 DEF WriterInv, Run
      <4>1. data[o] = Run(p, n)
        BY <1>0, <1>4 DEF WriterInv
      <4>2. QED
        BY <2>2, <4>1
    <3>3. QED
      BY <1>3, <1>8, <3>1, <3>2 DEF PutInv
  <2>5. ASSUME NEW o \in Puts PROVE SizeInv(o)' /\ FileInv(o)'
    <3>1. SizeInv(o)'
      BY <2>1 DEF Inv, SizeInv
    <3>2. FileInv(o)'
      <4> SUFFICES ASSUME kind = "local", put[o].at = {o}, o \notin spoiled
          PROVE \/ \E q \in Puts : Writing(o) = {q} /\ data[o] = Run(q, Len(put'[q].sent))
                \/ Writing(o) = {} /\ \E q \in Puts : put'[q].pc # "new" /\ data[o] = Whole(q)'
        BY <1>4, <1>5, <1>7, <2>1 DEF FileInv, Run
      <4>1. \/ \E q \in Puts : Writing(o) = {q} /\ data[o] = Run(q, Len(put[q].sent))
            \/ Writing(o) = {} /\ \E q \in Puts : put[q].pc # "new" /\ data[o] = Whole(q)
        BY DEF Inv, FileInv
      <4>2. \A q \in Puts : Len(put'[q].sent) = Len(put[q].sent)
        BY <1>3, <1>4, <2>2
      <4>3. \A q \in Puts : Whole(q)' = Whole(q)
        BY <1>5 DEF Whole
      <4>4. QED
        BY <1>5, <4>1, <4>2, <4>3
    <3>3. QED
      BY <3>1, <3>2
  <2>6. \A q \in {p} : PutInv(q)'
    BY <2>4
  <2>7. QED
    BY <1>4, <1>6, <1>9, <2>1, <2>3, <2>5, <2>6, InvStays
<1>11. CASE kind = "local" /\ got.bytes # <<>>
  <2>1. PICK o \in r.at :
          /\ data' = [data EXCEPT ![o] = Written(@, n, m, p)]
          /\ overridden' = IF link[k] = {o} THEN overridden \cup (Effective(k) \ {p}) ELSE overridden
          /\ spoiled' = IF Writing(o) = {p} THEN spoiled ELSE spoiled \cup {o}
          /\ disturbed' = disturbed \cup Reading(o)
    BY <1>2, <1>11
  <2>2. o \in Puts /\ r.at = {o} /\ data[o] \in Stored
    BY <1>0, <1>4, <1>11, <2>1 DEF PlaceInv, Typed
  <2> DEFINE w == Written(data[o], n, m, p)
  <2>3. /\ w \in Stored /\ Len(w) = IF n + m > Len(data[o]) THEN n + m ELSE Len(data[o])
    <3>1. p \in Puts /\ data[o] \in Stored /\ n \in Nat /\ m \in Nat
      BY <1>3, <2>2
    <3>2. QED
      BY ONLY <3>1, WrittenType
  <2>4. data[o] = Run(p, n) => w = Run(p, n + m)
    <3>1. p \in Puts /\ n \in Nat /\ m \in Nat
      BY <1>3
    <3>2. QED
      BY ONLY <3>1, WrittenRun
  <2> HIDE DEF w
  <2>5. data'[o] = w /\ (\A q \in Puts \ {o} : data'[q] = data[q]) /\ data' \in [Puts -> Stored]
    BY <1>0, <2>1, <2>2, <2>3 DEF Typed, w
  <2>6. /\ overridden \subseteq overridden' /\ overridden' \subseteq Puts
        /\ spoiled \subseteq spoiled' /\ spoiled' \subseteq Puts
        /\ disturbed \subseteq disturbed' /\ disturbed' \subseteq Gets /\ Reading(o) \subseteq disturbed'
    BY <1>0, <2>1, <2>2 DEF Typed, Effective, Reading
  <2>7. Typed'
    BY <1>0, <1>3, <1>4, <2>5, <2>6 DEF Typed, Becomes
  <2>8. \A q \in Puts \ {p} : put[q].at = {o} => q \in overridden'
    <3> SUFFICES ASSUME NEW q \in Puts \ {p}, put[q].at = {o}, q \notin overridden' PROVE FALSE
      OBVIOUS
    <3>1. PlaceInv(q) /\ LatestInv(q) /\ q \notin overridden
      BY <2>6 DEF Inv
    <3>2. put[o].key = {k}
      BY <1>0, <1>4, <1>11, <2>2 DEF PlaceInv, IsObject
    <3>3. put[q].key = put[o].key
      BY <1>11, <3>1 DEF PlaceInv, IsObject
    <3>4. link[k] = {o} /\ q \in Effective(k)
      BY <3>1, <3>2, <3>3 DEF LatestInv, Effective
    <3>5. QED
      BY <2>1, <3>4
  <2>9. PutInv(p)'
    <3>1. LatestInv(p)' /\ VersionInv(p)'
      BY <1>0, <1>3, <1>4, <1>11, <2>6 DEF LatestInv, VersionInv
    <3>2. WriterInv(p)'
      <4> SUFFICES ASSUME p \notin overridden' PROVE w = Run(p, n + m)
        BY <1>3, <2>2, <2>5 DEF WriterInv, Run
      <4>1. data[o] = Run(p, n)
        BY <1>0, <1>4, <1>11, <2>2, <2>6 DEF WriterInv
      <4>2. QED
        BY <2>4, <4>1
    <3>3. QED
      BY <1>3, <1>8, <3>1, <3>2 DEF PutInv
  <2>10. ASSUME NEW f \in Puts PROVE SizeInv(f)'
    <3>1. SizeInv(f)
      BY DEF Inv
    <3>2. CASE f # o
      BY <2>5, <3>1, <3>2 DEF SizeInv
    <3>3. CASE f = o
      <4>1. r.size \in 0..MaxInt /\ MaxInt \in Nat
        BY <1>0, EmptyTypes DEF PutTypes
      <4>2. n + m <= MaxInt
        <5>1. n \in Nat /\ m \in Nat /\ n + m <= r.size
          BY <1>3
        <5> HIDE DEF n, m
        <5>2. QED
          BY ONLY <4>1, <5>1
      <4>3. Len(w) <= MaxInt
        BY <2>3, <3>1, <3>3, <4>2 DEF SizeInv
      <4>4. QED
        BY <2>5, <3>3, <4>3 DEF SizeInv
    <3>4. QED
      BY <3>2, <3>3
  <2>11. ASSUME NEW f \in Puts PROVE FileInv(f)'
    <3> SUFFICES ASSUME put[f].at = {f}, f \notin spoiled'
        PROVE \/ \E q \in Puts : Writing(f) = {q} /\ data'[f] = Run(q, Len(put'[q].sent))
              \/ Writing(f) = {} /\ \E q \in Puts : put'[q].pc # "new" /\ data'[f] = Whole(q)'
      BY <1>5, <1>7 DEF FileInv, Run
    <3>1. \/ \E q \in Puts : Writing(f) = {q} /\ data[f] = Run(q, Len(put[q].sent))
          \/ Writing(f) = {} /\ \E q \in Puts : put[q].pc # "new" /\ data[f] = Whole(q)
      BY <1>11, <2>6 DEF Inv, FileInv
    <3>2. \A q \in Puts : Whole(q)' = Whole(q)
      BY <1>5 DEF Whole
    <3>3. CASE f # o
      <4>1. p \notin Writing(f)
        BY <2>2, <3>3 DEF Writing
      <4>2. \A q \in Puts : Writing(f) = {q} => put'[q] = put[q]
        BY <1>4, <4>1
      <4>3. QED
        BY <1>5, <2>5, <3>1, <3>2, <3>3, <4>2
    <3>4. CASE f = o
      <4>1. Writing(o) = {p} /\ p \in Writing(o)
        BY <2>1, <2>2, <3>4
      <4>2. data[o] = Run(p, n)
        BY <3>1, <3>4, <4>1
      <4>3. data'[o] = Run(p, Len(put'[p].sent))
        BY <1>3, <2>4, <2>5, <4>2
      <4>4. QED
        BY <3>4, <4>1, <4>3
    <3>5. QED
      BY <3>3, <3>4
  <2>12. /\ \A q \in {p} : PutInv(q)'
         /\ \A f \in Puts : \/ data'[f] = data[f]
                            \/ /\ \A q \in Puts \ {p} : put[q].at = {f} => q \in overridden'
                               /\ Reading(f) \subseteq disturbed'
         /\ \A j \in Keys : link'[j] = link[j]
    BY <1>4, <2>5, <2>6, <2>8, <2>9
  <2>13. QED
    BY <1>4, <1>6, <1>9, <1>11, <2>6, <2>7, <2>10, <2>11, <2>12, InvStays
<1>12. QED
  BY <1>10, <1>11

(* A new reader has the beginning of the body before it. *)
LEMMA NewReaderReads ==
  ASSUME NEW body, IsSending(body)
  PROVE  LET r == Reader(body.chunked, SubSeq(body.sent, 1, body.cut), body.end) IN
         r \in Readers /\ Reads(r, body, 0, 0)
<1> DEFINE sent == body.sent
           cut == body.cut
           first == SubSeq(sent, 1, cut)
           r == Reader(body.chunked, first, body.end)
<1>1. body.chunked \in BOOLEAN /\ body.end \in {"eof", "broken"} /\ body.size \in 0..MaxInt /\ cut \in 0..Len(sent)
  BY DEF IsSending
<1>2. sent \in Seq(Tokens) /\ (body.chunked => sent # <<>> /\ sent[1].t = "size")
  <2>1. CASE body.chunked
    BY <2>1 DEF IsSending, Framed
  <2>2. CASE ~body.chunked
    <3>1. sent = [i \in 1..(body.size - 0) |-> Token("byte", 0 + i)]
      BY <2>2 DEF IsSending, Bytes
    <3>2. body.size - 0 \in Nat /\ \A i \in 1..(body.size - 0) : Token("byte", 0 + i) \in Tokens
      BY <1>1 DEF Token, Tokens
    <3> HIDE DEF sent
    <3>3. QED
      BY <2>2, <3>1, <3>2
  <2>3. QED
    BY <1>1, <2>1, <2>2
<1>3. cut \in Nat /\ cut <= Len(sent) /\ Len(sent) \in Nat
  BY <1>1, <1>2
<1>4. first \in Seq(Tokens) /\ Len(first) = cut /\ \A i \in 1..cut : first[i] = sent[i]
  <2> HIDE DEF sent, cut
  <2>1. QED
    BY <1>2, <1>3, First
<1> HIDE DEF first
<1>5. /\ r \in Readers /\ r.body = first /\ r.remaining = 0
      /\ r.chunked = body.chunked /\ r.end = body.end
  BY <1>1, <1>4 DEF Reader, Readers
<1> HIDE DEF r, sent, cut
<1>6. Rest(r, sent, cut, 0)
  <2>1. \A i \in 1..(cut - 0) : i \in 1..cut /\ 0 + i = i
    BY <1>3
  <2>2. \A i \in 1..(cut - 0) : first[i] = sent[0 + i]
    BY <1>4, <2>1
  <2>3. 0 \in 0..cut /\ Len(first) = cut - 0
    BY <1>3, <1>4
  <2>4. QED
    BY <1>5, <2>2, <2>3 DEF Rest
<1>7. body.chunked => AtHeader(r, sent, cut, 0, 0)
  <2> SUFFICES ASSUME body.chunked PROVE AtHeader(r, sent, cut, 0, 0)
    OBVIOUS
  <2>1. Before(sent, 0 + 1) = 0 /\ sent[0 + 1].t = "size" /\ Len(sent) # 0
    BY <1>2 DEF Before
  <2>2. cut = Len(sent) => 0 < cut
    BY <1>3, <2>1
  <2>3. QED
    BY <2>1, <2>2 DEF AtHeader
<1>8. 0 + r.remaining <= body.size
  BY <1>1, <1>5
<1>9. Reads(r, body, 0, 0)
  BY <1>5, <1>6, <1>7, <1>8 DEF Reads, sent, cut
<1>10. QED
  BY <1>5, <1>9 DEF r, first, sent, cut

LEMMA PutObjectResult ==
  ASSUME Typed, NEW p \in Puts, NEW k \in Keys, NEW body \in Bodies[p], NEW at \in SUBSET Puts,
         put' = [put EXCEPT ![p] =
                   [NoPut EXCEPT !.pc = "copy", !.key = {k}, !.declared = body.declared,
                                 !.size = body.size,
                                 !.reader = Reader(body.chunked, SubSeq(body.sent, 1, body.cut), body.end),
                                 !.at = at, !.whole = body.cut = Len(body.sent)]]
  PROVE  /\ Becomes(p, put'[p])
         /\ put'[p].pc = "copy" /\ put'[p].at = at /\ put'[p].key = {k} /\ Len(put'[p].sent) = 0
         /\ ReaderInv(p)'
<1> DEFINE reader == Reader(body.chunked, SubSeq(body.sent, 1, body.cut), body.end)
           r == NoPut
           key == {k}
           whole == body.cut = Len(body.sent)
           s == [r EXCEPT !.pc = "copy", !.key = key, !.declared = body.declared, !.size = body.size,
                          !.reader = reader, !.at = at, !.whole = whole]
<1>1. IsSending(body)
  BY BodiesAssumption
<1>2. reader \in Readers /\ Reads(reader, body, 0, 0)
  BY <1>1, NewReaderReads
<1>3. body.declared \in BOOLEAN /\ body.size \in 0..MaxInt /\ key \in SUBSET Keys /\ whole \in BOOLEAN
  BY <1>1 DEF IsSending
<1>4. r \in PutTypes /\ r.sent = <<>>
  BY EmptyTypes DEF NoPut
<1>5. put' = [put EXCEPT ![p] = s]
  OBVIOUS
<1>6. whole <=> body.cut = Len(body.sent)
  OBVIOUS
<1> HIDE DEF reader, r, key, whole
<1>7. /\ s \in PutTypes /\ s.pc = "copy" /\ s.key = key /\ s.at = at /\ s.size = body.size
      /\ s.reader = reader /\ (s.whole <=> whole) /\ s.sent = r.sent
  BY <1>2, <1>3, <1>4 DEF PutTypes
<1> HIDE DEF s
<1>8. Becomes(p, s) /\ put'[p] = s
  BY <1>5, <1>7, BecomesIf DEF Becomes
<1>9. s.sent = <<>> /\ Len(s.sent) = 0 /\ DOMAIN s.sent = {}
  BY <1>4, <1>7
<1>10. ReaderInv(p)'
  <2>1. \A i \in DOMAIN s.sent : s.sent[i] = Token("byte", i)
    BY <1>9
  <2>2. /\ s.size = body.size
        /\ s.whole <=> body.cut = Len(body.sent)
        /\ \E pos \in Nat : Reads(s.reader, body, pos, Len(s.sent))
    BY <1>2, <1>6, <1>7, <1>9
  <2>3. QED
    BY <1>7, <1>8, <2>1, <2>2 DEF ReaderInv
<1>11. QED
  BY <1>7, <1>8, <1>9, <1>10 DEF key

LEMMA PutObjectInv ==
  ASSUME Inv, NEW p \in Puts, NEW k \in Keys, PutObject(p, k)
  PROVE  Inv'
<1>0. Typed /\ PlaceInv(p) /\ NameInv(k) /\ spoiled \subseteq Puts
  BY DEF Inv, Typed
<1> DEFINE file == IF kind = "local" /\ link[k] # {} THEN CHOOSE o \in Puts : link[k] = {o} ELSE p
<1>1. PICK body \in Bodies[p] :
        /\ put[p].pc = "new"
        /\ put' = [put EXCEPT ![p] =
                     [NoPut EXCEPT !.pc = "copy", !.key = {k}, !.declared = body.declared,
                                   !.size = body.size,
                                   !.reader = Reader(body.chunked, SubSeq(body.sent, 1, body.cut), body.end),
                                   !.at = IF kind = "local" THEN {file} ELSE {},
                                   !.whole = body.cut = Len(body.sent)]]
        /\ IF kind = "local"
             THEN /\ link' = [link EXCEPT ![k] = {file}]
                  /\ data' = [data EXCEPT ![file] = <<>>]
                  /\ Override(k, p)
                  /\ spoiled' = IF Writing(file) = {} THEN spoiled \ {file} ELSE spoiled \cup {file}
                  /\ disturbed' = disturbed \cup Reading(file)
             ELSE UNCHANGED <<link, data, history>>
        /\ UNCHANGED <<kind, get, batch>>
  BY DEF PutObject
<1>2. put[p].pc = "new" /\ put[p].key = {} /\ put[p].at = {}
  BY <1>0, <1>1 DEF PlaceInv
<1>3. PICK o \in Puts :
        /\ o = file
        /\ kind = "local" /\ link[k] # {} => link[k] = {o} /\ IsObject(o, k) /\ o # p
        /\ kind = "local" /\ link[k] = {} => o = p
  <2>1. CASE kind = "local" /\ link[k] # {}
    <3>1. PICK f \in link[k] : link[k] = {f} /\ IsObject(f, k)
      BY <1>0, <2>1 DEF NameInv
    <3>2. f \in Puts
      BY <3>1 DEF IsObject
    <3>3. file = CHOOSE g \in Puts : link[k] = {g}
      BY <2>1
    <3>4. f = file
      BY <3>1, <3>2, <3>3
    <3>5. f # p
      BY <1>2, <3>1 DEF IsObject
    <3> HIDE DEF file
    <3>6. QED
      BY <2>1, <3>1, <3>2, <3>4, <3>5
  <2>2. CASE ~(kind = "local" /\ link[k] # {})
    BY <2>2
  <2>3. QED
    BY <2>1, <2>2
<1> HIDE DEF file
<1> DEFINE at == IF kind = "local" THEN {o} ELSE {}
<1>4. at \in SUBSET Puts /\ (kind = "local" => at = {o}) /\ (kind # "local" => at = {})
  OBVIOUS
<1>4a. put' = [put EXCEPT ![p] =
                 [NoPut EXCEPT !.pc = "copy", !.key = {k}, !.declared = body.declared,
                               !.size = body.size,
                               !.reader = Reader(body.chunked, SubSeq(body.sent, 1, body.cut), body.end),
                               !.at = at, !.whole = body.cut = Len(body.sent)]]
  BY <1>1, <1>3
<1> HIDE DEF at
<1>5. /\ Becomes(p, put'[p])
      /\ put'[p].pc = "copy" /\ put'[p].at = at /\ put'[p].key = {k} /\ Len(put'[p].sent) = 0
      /\ ReaderInv(p)'
  BY <1>0, <1>4, <1>4a, PutObjectResult
<1>6. \A q \in Puts \ {p} : put'[q] = put[q]
  BY <1>5 DEF Becomes
<1>7. Kept
  <2> SUFFICES ASSUME NEW f \in Puts, NEW j \in Keys, IsObject(f, j) PROVE IsObject(f, j)'
    BY DEF Kept
  <2>1. f # p
    BY <1>2 DEF IsObject
  <2>2. QED
    BY <1>6, <2>1 DEF IsObject
<1>8. UNCHANGED <<kind, get, batch>> /\ {p} \in SUBSET Puts
  BY <1>1
<1>9. CASE kind # "local"
  <2>1. UNCHANGED <<link, data, overridden, spoiled, disturbed>>
    BY <1>1, <1>9 DEF history
  <2>2. Typed'
    BY <1>0, <1>5, <1>8, <2>1 DEF Typed, Becomes
  <2>3. PutInv(p)'
    <3>1. PlaceInv(p)'
      BY <1>4, <1>5, <1>8, <1>9 DEF PlaceInv
    <3>2. LatestInv(p)' /\ VersionInv(p)' /\ WriterInv(p)'
      BY <1>4, <1>5, <1>8, <1>9 DEF LatestInv, VersionInv, WriterInv
    <3>3. QED
      BY <1>5, <3>1, <3>2 DEF PutInv
  <2>4. \A f \in Puts : SizeInv(f)' /\ FileInv(f)'
    BY <1>8, <1>9, <2>1 DEF Inv, SizeInv, FileInv
  <2>5. (\A j \in Keys : Named(j)) /\ \A q \in {p} : PutInv(q)'
    BY <2>1, <2>3 DEF Named
  <2>6. QED
    BY <1>6, <1>7, <1>8, <1>9, <2>1, <2>2, <2>4, <2>5, InvStays
<1>10. CASE kind = "local"
  <2>1. /\ link' = [link EXCEPT ![k] = {o}]
        /\ data' = [data EXCEPT ![o] = <<>>]
        /\ overridden' = overridden \cup (Effective(k) \ {p})
        /\ spoiled' = IF Writing(o) = {} THEN spoiled \ {o} ELSE spoiled \cup {o}
        /\ disturbed' = disturbed \cup Reading(o)
    BY <1>1, <1>3, <1>10 DEF Override
  <2>2. /\ link'[k] = {o} /\ (\A j \in Keys \ {k} : link'[j] = link[j]) /\ link' \in [Keys -> SUBSET Puts]
        /\ data'[o] = <<>> /\ (\A f \in Puts \ {o} : data'[f] = data[f]) /\ data' \in [Puts -> Stored]
    <3>1. /\ link'[k] = {o} /\ (\A j \in Keys \ {k} : link'[j] = link[j])
          /\ link' \in [Keys -> SUBSET Puts]
      BY <1>0, <1>3, <2>1 DEF Typed
    <3> DEFINE none == <<>>
    <3>2. none \in Stored /\ data' = [data EXCEPT ![o] = none]
      BY <2>1, EmptyTypes
    <3> HIDE DEF none
    <3>3. data'[o] = none /\ (\A f \in Puts \ {o} : data'[f] = data[f]) /\ data' \in [Puts -> Stored]
      BY <1>0, <1>3, <3>2 DEF Typed
    <3>4. QED
      BY <3>1, <3>3 DEF none
  <2>3. /\ overridden \subseteq overridden' /\ overridden' \subseteq Puts /\ spoiled' \subseteq Puts
        /\ disturbed \subseteq disturbed' /\ disturbed' \subseteq Gets /\ Reading(o) \subseteq disturbed'
    BY <1>0, <1>3, <2>1 DEF Typed, Effective, Reading
  <2>4. Typed'
    BY <1>0, <1>5, <1>8, <2>2, <2>3 DEF Typed, Becomes
  <2>5. \A j \in Keys : Named(j)
    <3> SUFFICES ASSUME NEW j \in Keys PROVE Named(j)
      OBVIOUS
    <3>1. CASE j # k \/ link[k] # {}
      BY <1>3, <1>10, <2>2, <3>1 DEF Named
    <3>2. CASE j = k /\ link[k] = {}
      <4>1. link'[k] = {p} /\ ~IsObject(p, k) /\ IsObject(p, k)'
        BY <1>2, <1>3, <1>4, <1>5, <1>10, <2>2, <3>2 DEF IsObject
      <4>2. QED
        BY <3>2, <4>1 DEF Named
    <3>3. QED
      BY <3>1, <3>2
  <2>6. IsObject(o, k)'
    <3>1. CASE link[k] # {}
      BY <1>3, <1>7, <1>10, <3>1 DEF Kept
    <3>2. CASE link[k] = {}
      BY <1>3, <1>4, <1>5, <1>10, <3>2 DEF IsObject
    <3>3. QED
      BY <3>1, <3>2
  <2>7. \A q \in Puts \ {p} : put[q].at = {o} => q \in overridden'
    <3> SUFFICES ASSUME NEW q \in Puts \ {p}, put[q].at = {o} PROVE q \in overridden'
      OBVIOUS
    <3>1. PlaceInv(q)
      BY DEF Inv
    <3>2. PICK f \in Puts, j \in Keys : put[q].at = {f} /\ put[q].key = {j} /\ IsObject(f, j)
      BY <1>10, <3>1 DEF PlaceInv
    <3>3. f = o /\ IsObject(o, j)'
      BY <1>7, <3>2 DEF Kept
    <3>4. j = k
      BY <2>6, <3>3 DEF IsObject
    <3>5. q \in Effective(k)
      BY <3>2, <3>4 DEF Effective
    <3>6. QED
      BY <2>1, <3>5
  <2>8. PutInv(p)'
    <3>1. PlaceInv(p)'
      BY <1>3, <1>4, <1>5, <1>8, <1>10, <2>6 DEF PlaceInv
    <3>2. LatestInv(p)' /\ VersionInv(p)'
      BY <1>4, <1>5, <1>8, <1>10, <2>2 DEF LatestInv, VersionInv
    <3>3. WriterInv(p)'
      <4>1. Run(p, 0) = <<>>
        BY DEF Run
      <4>2. QED
        BY <1>4, <1>5, <1>10, <2>2, <4>1 DEF WriterInv, Run
    <3>4. QED
      BY <1>5, <3>1, <3>2, <3>3 DEF PutInv
  <2>9. ASSUME NEW f \in Puts PROVE SizeInv(f)'
    <3>1. SizeInv(f) /\ MaxInt \in Nat
      BY EmptyTypes DEF Inv
    <3>2. CASE f = o
      <4>1. Len(data'[o]) = 0
        BY <2>2
      <4>2. QED
        BY <3>1, <3>2, <4>1 DEF SizeInv
    <3>3. CASE f # o
      BY <2>2, <3>1, <3>3 DEF SizeInv
    <3>4. QED
      BY <3>2, <3>3
  <2>10. ASSUME NEW f \in Puts PROVE FileInv(f)'
    <3> SUFFICES ASSUME put'[f].at = {f}, f \notin spoiled'
        PROVE \/ \E q \in Puts : Writing(f)' = {q} /\ data'[f] = Run(q, Len(put'[q].sent))
              \/ Writing(f)' = {} /\ \E q \in Puts : put'[q].pc # "new" /\ data'[f] = Whole(q)'
      BY DEF FileInv, Run
    <3>1. CASE f = o
      <4>1. Writing(o) = {}
        BY <2>1, <3>1
      <4>2. Writing(o)' = {p}
        BY <1>4, <1>5, <1>6, <1>10, <4>1 DEF Writing
      <4>3. data'[o] = Run(p, Len(put'[p].sent))
        BY <1>5, <2>2 DEF Run
      <4>4. QED
        BY <3>1, <4>2, <4>3
    <3>2. CASE f # o
      <4>1. f # p
        BY <1>4, <1>5, <1>10, <3>2
      <4>2. put[f].at = {f} /\ f \notin spoiled
        BY <1>6, <2>1, <3>2, <4>1
      <4>3. \/ \E q \in Puts : Writing(f) = {q} /\ data[f] = Run(q, Len(put[q].sent))
            \/ Writing(f) = {} /\ \E q \in Puts : put[q].pc # "new" /\ data[f] = Whole(q)
        BY <1>10, <4>2 DEF Inv, FileInv
      <4>4. Writing(f)' = Writing(f) /\ p \notin Writing(f)
        BY <1>2, <1>4, <1>5, <1>6, <1>10, <3>2 DEF Writing
      <4>5. \A q \in Puts : Writing(f) = {q} => put'[q] = put[q]
        BY <1>6, <4>4
      <4>6. \A q \in Puts : put[q].pc # "new" => put'[q] = put[q] /\ Whole(q)' = Whole(q)
        BY <1>2, <1>6 DEF Whole
      <4>7. QED
        BY <2>2, <3>2, <4>3, <4>4, <4>5, <4>6
    <3>3. QED
      BY <3>1, <3>2
  <2>11. /\ \A q \in {p} : PutInv(q)'
         /\ \A f \in Puts : \/ data'[f] = data[f]
                            \/ /\ \A q \in Puts \ {p} : put[q].at = {f} => q \in overridden'
                               /\ Reading(f) \subseteq disturbed'
         /\ \A j \in Keys : link'[j] = link[j] \/ Effective(j) \ {p} \subseteq overridden'
    BY <2>1, <2>2, <2>3, <2>7, <2>8
  <2>12. QED
    BY <1>6, <1>7, <1>8, <1>10, <2>3, <2>4, <2>5, <2>9, <2>10, <2>11, InvStays
<1>11. QED
  BY <1>9, <1>10

-----------------------------------------------------------------------------
(***************************************************************************)
(* GET.                                                                    *)
(***************************************************************************)
LEMMA GetStays ==
  ASSUME Inv, NEW g \in Gets, NEW r \in GetTypes, get' = [get EXCEPT ![g] = r],
         UNCHANGED <<kind, link, data, put, batch, overridden, spoiled>>,
         disturbed' \subseteq Gets, disturbed' \ {g} = disturbed \ {g},
         get'[g] = r => GetInv(g)'
  PROVE  Inv'
<1>0. Typed
  BY DEF Inv
<1>1. get' \in [Gets -> GetTypes] /\ get'[g] = r /\ \A h \in Gets \ {g} : get'[h] = get[h]
  BY <1>0 DEF Typed
<1>2. Typed'
  BY <1>0, <1>1 DEF Typed
<1>3. ASSUME NEW h \in Gets PROVE GetInv(h)'
  <2>1. CASE h = g
    BY <1>1, <2>1
  <2>2. CASE h # g
    <3>1. get'[h] = get[h] /\ (h \in disturbed' <=> h \in disturbed)
      BY <1>1, <2>2
    <3>2. GetInv(h)
      BY DEF Inv
    <3>3. \A n, m : Length(n, m)' = Length(n, m)
      BY DEF Length
    <3>4. Length(get[h].range, Len(get[h].tag))' = Length(get[h].range, Len(get[h].tag))
      BY <3>1, <3>3
    <3>5. QED
      BY <3>1, <3>2, <3>4 DEF GetInv, Copied, IsObject
  <2>3. QED
    BY <2>1, <2>2
<1>4. ASSUME NEW p \in Puts
      PROVE  (ReaderInv(p) /\ PlaceInv(p) /\ LatestInv(p) /\ VersionInv(p)
              /\ SizeInv(p) /\ FileInv(p) /\ WriterInv(p))'
  <2>0. /\ ReaderInv(p) /\ PlaceInv(p) /\ LatestInv(p) /\ VersionInv(p)
        /\ SizeInv(p) /\ FileInv(p) /\ WriterInv(p)
    BY DEF Inv
  <2>1. ReaderInv(p)'
    BY <2>0 DEF ReaderInv
  <2>2. PlaceInv(p)' /\ LatestInv(p)' /\ SizeInv(p)'
    BY <2>0 DEF PlaceInv, IsObject, LatestInv, SizeInv
  <2>3. \A q \in Puts : Whole(q)' = Whole(q) /\ Writing(q)' = Writing(q)
    BY DEF Whole, Writing
  <2>4. VersionInv(p)' /\ WriterInv(p)'
    BY <2>0, <2>3 DEF VersionInv, WriterInv, Run
  <2>5. FileInv(p)'
    BY <2>0, <2>3 DEF FileInv, Run
  <2>6. QED
    BY <2>1, <2>2, <2>4, <2>5
<1>5. (\A k \in Keys : NameInv(k))' /\ BatchInv'
  BY DEF Inv, NameInv, IsObject, BatchInv
<1>6. QED
  BY <1>2, <1>3, <1>4, <1>5 DEF Inv

LEMMA GetObjectInv ==
  ASSUME Inv, NEW g \in Gets, NEW k \in Keys, NEW asked \in Asked, GetObject(g, k, asked)
  PROVE  Inv'
<1>0. Typed /\ NameInv(k) /\ GetInv(g)
  BY DEF Inv
<1> DEFINE q == Meant(asked)
<1>1. PICK o \in link[k] :
        /\ q # NoRange => asked.first < Len(data[o])
        /\ get' = [get EXCEPT ![g] =
             Opened(k, q, o, IF kind = "gcs" /\ asked = NoRange THEN "attrs" ELSE "stream")]
  BY DEF GetObject
<1>1a. /\ q = asked \/ q = NoRange
       /\ kind = "s3" => ~EndsBefore(q)
       /\ kind # "s3" => q = asked
  BY DEF Meant, S3Range, NoRange, EndsBefore, Open
<1> HIDE DEF q
<1>1b. /\ q # NoRange => q.first < Len(data[o])
       /\ kind = "gcs" /\ asked = NoRange <=> kind = "gcs" /\ q = NoRange
  BY <1>1, <1>1a
<1>2. UNCHANGED <<kind, link, data, put, batch, overridden, spoiled, disturbed>>
  BY DEF GetObject, history
<1>3. IsObject(o, k) /\ o \in Puts /\ data[o] \in Stored /\ SizeInv(o)
  BY <1>0, <1>1 DEF NameInv, IsObject, Typed, Inv
<1> DEFINE pc == IF kind = "gcs" /\ q = NoRange THEN "attrs" ELSE "stream"
           size == Len(data[o])
           tag == data[o]
           none == <<>>
           from == From(q)
           length == Length(q, size)
           r == Opened(k, q, o, pc)
<1>4. pc \in {"attrs", "stream"} /\ (pc = "attrs" => kind = "gcs")
  OBVIOUS
<1>5. q = NoRange \/ q \in RangesOf
  BY <1>1a, AskedAssumption DEF RangesOf
<1>6. size \in Nat /\ size \in 0..MaxInt
  <2>1. size \in Nat
    BY <1>3 DEF Stored
  <2>2. MaxInt \in Nat
    BY EmptyTypes
  <2>3. size <= MaxInt
    BY <1>3 DEF SizeInv
  <2>4. \A a \in Nat : a <= MaxInt => a \in 0..MaxInt
    BY <2>2
  <2> HIDE DEF size
  <2>5. QED
    BY ONLY <2>1, <2>3, <2>4
<1>7. length \in Int /\ from \in Nat
  <2>1. CASE q = NoRange
    BY <1>6, <2>1 DEF Length, From
  <2>2. CASE q # NoRange
    <3>1. kind \in {"s3", "gcs", "azure", "local"}
      BY <1>0, KindsAssumption DEF Typed
    <3>2. q \in RangesOf /\ q.first < size /\ q.first \in 0..MaxInt
      BY <1>1b, <1>5, <2>2, RangeNumbers
    <3>3. Fits(length, q, size)
      BY <1>1a, <1>6, <3>1, <3>2, LengthFits
    <3>4. from \in Nat
      BY <2>2, <3>2, EmptyTypes DEF From
    <3>5. QED
      BY <3>3, <3>4 DEF Fits
  <2>3. QED
    BY <2>1, <2>2
<1>8. none \in Stored /\ Len(none) = 0
  BY EmptyTypes
<1>9. r = [pc |-> pc, key |-> {k}, range |-> q, at |-> {o}, tag |-> tag,
           from |-> from, length |-> length, got |-> none,
           cause |-> "none"]
  BY DEF Opened
<1> HIDE DEF pc, tag, none, from, length, r, size
<1>10. /\ r \in GetTypes /\ r.pc = pc /\ r.key = {k} /\ r.range = q /\ r.at = {o} /\ r.tag = tag
       /\ r.from = from /\ r.length = length /\ r.got = none /\ r.cause = "none"
  BY <1>3, <1>4, <1>5, <1>7, <1>8, <1>9 DEF GetTypes, tag
<1>11. ASSUME get'[g] = r PROVE GetInv(g)'
  <2>1. IsObject(o, k)'
    BY <1>2, <1>3 DEF IsObject
  <2>2. \A n, m : Length(n, m)' = Length(n, m)
    BY <1>2 DEF Length
  <2>3. Length(get[g].range, Len(get[g].tag))' = length
    BY <1>10, <1>11, <2>2 DEF length, size, tag
  <2>4. Copied(r)
    BY <1>8, <1>10 DEF Copied
  <2>5. r.got = <<>> /\ r.tag = data[o] /\ r.from = From(r.range) /\ Len(r.tag) <= MaxInt
    BY <1>3, <1>10 DEF none, tag, from, SizeInv
  <2>6. q # NoRange => q.first < Len(r.tag)
    BY <1>1b, <2>5
  <2>7. /\ \E f \in Puts, j \in Keys : r.at = {f} /\ r.key = {j} /\ IsObject(f, j)'
        /\ r.range # NoRange => r.range.first < Len(r.tag)
        /\ kind = "s3" => ~EndsBefore(r.range)
        /\ Len(r.tag) <= MaxInt
        /\ r.from = From(r.range) /\ r.length = Length(get[g].range, Len(get[g].tag))'
    BY <1>1a, <1>3, <1>10, <2>1, <2>3, <2>5, <2>6
  <2>8. /\ r.pc = "attrs" => kind = "gcs" /\ r.got = <<>> /\ \A f \in r.at : data[f] = r.tag
        /\ r.pc = "stream" => \A f \in r.at : data[f] = r.tag
        /\ r.pc # "done" /\ r.pc # "broken" /\ r.cause = "none"
    BY <1>4, <1>10, <2>5
  <2>9. QED
    BY <1>2, <1>11, <2>4, <2>7, <2>8 DEF GetInv, Copied
<1>12. get' = [get EXCEPT ![g] = r]
  BY <1>1, <1>1b DEF r, pc
<1>13. disturbed' \subseteq Gets /\ disturbed' \ {g} = disturbed \ {g}
  BY <1>0, <1>2 DEF Typed
<1>14. QED
  BY <1>2, <1>10, <1>11, <1>12, <1>13, GetStays

(* One more byte of a sequence. *)
LEMMA AppendStored ==
  ASSUME NEW s \in Stored, NEW t \in Stored, NEW i \in 1..Len(t)
  PROVE  /\ Append(s, t[i]) \in Stored /\ Len(Append(s, t[i])) = Len(s) + 1 /\ Len(s) \in Nat
         /\ \A j \in 1..Len(s) : Append(s, t[i])[j] = s[j]
         /\ Append(s, t[i])[Len(s) + 1] = t[i]
<1> DEFINE S == {{p} : p \in Puts} \cup {Hole}
<1>1. s \in Seq(S) /\ t \in Seq(S)
  BY DEF Stored
<1> HIDE DEF S
<1>2. t[i] \in S
  BY <1>1
<1>3. /\ Append(s, t[i]) \in Seq(S) /\ Len(Append(s, t[i])) = Len(s) + 1 /\ Len(s) \in Nat
      /\ \A j \in 1..Len(s) : Append(s, t[i])[j] = s[j]
      /\ Append(s, t[i])[Len(s) + 1] = t[i]
  BY <1>1, <1>2
<1>4. QED
  BY <1>3 DEF Stored, S

(* An announced length is within the object, but for the sum that does not fit. *)
LEMMA LengthOf ==
  ASSUME Inv, NEW g \in Gets, get[g].pc \notin {"idle", "broken"}
  PROVE  /\ Len(get[g].tag) \in Nat
         /\ get[g].range = NoRange => get[g].from = 0 /\ get[g].length = Len(get[g].tag)
         /\ get[g].range # NoRange =>
              /\ get[g].range \in RangesOf
              /\ get[g].from = get[g].range.first
              /\ Fits(get[g].length, get[g].range, Len(get[g].tag))
<1> DEFINE r == get[g]
           q == r.range
           size == Len(r.tag)
<1>1. /\ q # NoRange => q.first < Len(r.tag)
      /\ kind = "s3" => ~EndsBefore(q)
      /\ Len(r.tag) <= MaxInt
      /\ r.from = From(q) /\ r.length = Length(q, Len(r.tag))
  BY DEF Inv, GetInv
<1>2. q \in {NoRange} \cup RangesOf /\ r.tag \in Stored /\ kind \in {"s3", "gcs", "azure", "local"}
  BY KindsAssumption DEF Inv, Typed, GetTypes
<1>3. size \in Nat
  BY <1>2 DEF Stored
<1>4. \A a \in Nat : a <= MaxInt => a \in 0..MaxInt
  BY EmptyTypes
<1>5. size \in 0..MaxInt
  BY <1>1, <1>3, <1>4
<1>6. CASE q = NoRange
  BY <1>1, <1>3, <1>6 DEF From, Length
<1>7. CASE q # NoRange
  <2>1. q \in RangesOf /\ q.first < size
    BY <1>1, <1>2, <1>7
  <2> HIDE DEF q, size
  <2>2. Fits(Length(q, size), q, size)
    BY <1>1, <1>2, <1>5, <2>1, LengthFits DEF q
  <2>3. QED
    BY <1>1, <1>3, <1>7, <2>1, <2>2 DEF q, size, From
<1>8. QED
  BY <1>6, <1>7

LEMMA StreamInv ==
  ASSUME Inv, NEW g \in Gets, Stream(g)
  PROVE  Inv'
<1> DEFINE r == get[g]
           i == r.from + Len(r.got) + 1
<1>0. Typed /\ r \in GetTypes /\ GetInv(g)
  BY DEF Inv, Typed
<1>1. r.pc = "stream" /\ Len(r.got) < r.length
  BY DEF Stream
<1>2. PICK o \in r.at :
        get' = IF i <= Len(data[o]) THEN [get EXCEPT ![g].got = Append(@, data[o][i])]
               ELSE [get EXCEPT ![g].pc = "broken"]
  BY DEF Stream
<1>3. UNCHANGED <<kind, link, data, put, batch, overridden, spoiled, disturbed>>
  BY DEF Stream, history
<1>4. /\ \E f \in Puts, j \in Keys : r.at = {f} /\ r.key = {j} /\ IsObject(f, j)
      /\ r.range # NoRange => r.range.first < Len(r.tag)
      /\ kind = "s3" => ~EndsBefore(r.range)
      /\ r.cause = "none" /\ Len(r.tag) <= MaxInt
      /\ r.from = From(r.range) /\ r.length = Length(r.range, Len(r.tag))
      /\ g \notin disturbed => Copied(r) /\ data[o] = r.tag
  BY <1>0, <1>1 DEF GetInv
<1>5. o \in Puts /\ data[o] \in Stored
  BY <1>0, <1>4 DEF Typed
<1>6. r.got \in Stored /\ Len(r.got) \in Nat /\ r.from \in Nat /\ r.length \in Int /\ Len(data[o]) \in Nat
  <2>1. r.got \in Stored /\ r.from \in Nat /\ r.length \in Int
    BY <1>0 DEF GetTypes
  <2>2. Len(r.got) \in Nat /\ Len(data[o]) \in Nat
    BY <1>5, <2>1 DEF Stored
  <2>3. QED
    BY <2>1, <2>2
<1>7. disturbed' \subseteq Gets /\ disturbed' \ {g} = disturbed \ {g}
  BY <1>0, <1>3 DEF Typed
<1>8. /\ \E f \in Puts, j \in Keys : r.at = {f} /\ r.key = {j} /\ IsObject(f, j)'
      /\ \A n, m : Length(n, m)' = Length(n, m)
  BY <1>3, <1>4 DEF IsObject, Length
<1>9. CASE i <= Len(data[o])
  <2> DEFINE got == Append(r.got, data[o][i])
             s == [r EXCEPT !.got = got]
  <2>1. i \in 1..Len(data[o])
    BY <1>6, <1>9
  <2>2. get' = [get EXCEPT ![g] = s]
    <3>1. get' = [get EXCEPT ![g].got = got]
      BY <1>2, <1>9
    <3> HIDE DEF got
    <3>2. QED
      BY <1>0, <3>1 DEF Typed, GetTypes
  <2> HIDE DEF i
  <2>3. /\ got \in Stored /\ Len(got) = Len(r.got) + 1
        /\ \A j \in 1..Len(r.got) : got[j] = r.got[j]
        /\ got[Len(r.got) + 1] = data[o][i]
    BY <1>5, <1>6, <2>1, AppendStored
  <2> HIDE DEF got
  <2>4. /\ s \in GetTypes /\ s.pc = "stream" /\ s.key = r.key /\ s.range = r.range /\ s.at = r.at
        /\ s.tag = r.tag /\ s.from = r.from /\ s.length = r.length /\ s.got = got
        /\ s.cause = r.cause
    BY <1>0, <1>1, <2>3 DEF GetTypes
  <2> HIDE DEF s
  <2>5. g \notin disturbed => Copied(s)
    <3> SUFFICES ASSUME g \notin disturbed, NEW j \in 1..Len(got)
                 PROVE  r.from + j <= Len(r.tag) /\ got[j] = r.tag[r.from + j]
      BY <2>4 DEF Copied
    <3>1. Copied(r) /\ data[o] = r.tag
      BY <1>4
    <3>2. CASE j \in 1..Len(r.got)
      BY <2>3, <3>1, <3>2 DEF Copied
    <3>3. CASE j = Len(r.got) + 1
      <4>1. r.from + j = i
        BY <1>6, <3>3 DEF i
      <4>2. QED
        BY <2>1, <2>3, <3>1, <3>3, <4>1
    <3>4. j \in 1..Len(r.got) \/ j = Len(r.got) + 1
      BY <1>6, <2>3
    <3>5. QED
      BY <3>2, <3>3, <3>4
  <2>6. ASSUME get'[g] = s PROVE GetInv(g)'
    <3>1. Length(get[g].range, Len(get[g].tag))' = r.length
      BY <1>4, <1>8, <2>4, <2>6
    <3>2. Copied(get[g])' = Copied(s)
      BY <2>6 DEF Copied
    <3>3. /\ \E f \in Puts, j \in Keys : s.at = {f} /\ s.key = {j} /\ IsObject(f, j)'
          /\ s.range # NoRange => s.range.first < Len(s.tag)
          /\ kind = "s3" => ~EndsBefore(s.range)
          /\ Len(s.tag) <= MaxInt
          /\ s.from = From(s.range) /\ s.length = Length(get[g].range, Len(get[g].tag))'
      BY <1>4, <1>8, <2>4, <3>1
    <3>4. g \notin disturbed' => Copied(s) /\ \A f \in s.at : data'[f] = s.tag
      BY <1>3, <1>4, <2>4, <2>5
    <3>5. s.cause = "none"
      BY <1>4, <2>4
    <3>6. QED
      BY <1>3, <2>4, <2>6, <3>2, <3>3, <3>4, <3>5 DEF GetInv
  <2>7. QED
    BY <1>3, <1>7, <2>2, <2>4, <2>6, GetStays
<1>10. CASE ~(i <= Len(data[o]))
  <2> DEFINE s == [r EXCEPT !.pc = "broken"]
  <2>1. get' = [get EXCEPT ![g] = s]
    BY <1>0, <1>2, <1>10 DEF Typed, GetTypes
  <2>2. g \in disturbed \/ (kind = "local" /\ Overflows(r.range))
    <3> SUFFICES ASSUME g \notin disturbed, ~(kind = "local" /\ Overflows(r.range)) PROVE FALSE
      OBVIOUS
    <3> DEFINE size == Len(r.tag)
               n == Len(r.got)
    <3>1. size = Len(data[o])
      BY <1>4
    <3>2. r.from + n + 1 > size /\ n < r.length /\ n \in Nat /\ size \in Nat /\ r.from \in Nat /\ r.length \in Int
      BY <1>1, <1>6, <1>10, <3>1
    <3>3. /\ r.range = NoRange => r.from = 0 /\ r.length = size
          /\ r.range # NoRange => r.from = r.range.first /\ Fits(r.length, r.range, size)
      BY <1>1, LengthOf
    <3> HIDE DEF size, n
    <3>4. CASE r.range = NoRange
      <4>1. r.from = 0 /\ r.length = size
        BY <3>3, <3>4
      <4>2. QED
        BY ONLY <3>2, <4>1
    <3>5. CASE r.range # NoRange
      <4>1. r.length <= size - r.from
        BY <3>3, <3>5 DEF Fits
      <4>2. QED
        BY ONLY <3>2, <4>1
    <3>6. QED
      BY <3>4, <3>5
  <2>3. /\ s \in GetTypes /\ s.pc = "broken" /\ s.key = r.key /\ s.range = r.range /\ s.at = r.at
        /\ s.tag = r.tag /\ s.from = r.from /\ s.length = r.length /\ s.got = r.got
        /\ s.cause = r.cause
    BY <1>0 DEF GetTypes
  <2> HIDE DEF s
  <2>4. ASSUME get'[g] = s PROVE GetInv(g)'
    <3>1. Length(get[g].range, Len(get[g].tag))' = r.length
      BY <1>4, <1>8, <2>3, <2>4
    <3>2. Copied(get[g])' = Copied(r)
      BY <2>3, <2>4 DEF Copied
    <3>3. QED
      BY <1>3, <1>4, <1>8, <2>2, <2>3, <2>4, <3>1, <3>2 DEF GetInv
  <2>5. QED
    BY <1>3, <1>7, <2>1, <2>3, <2>4, GetStays
<1>11. QED
  BY <1>9, <1>10

LEMMA StreamFailsInv ==
  ASSUME Inv, NEW g \in Gets, StreamFails(g)
  PROVE  Inv'
<1> DEFINE r == get[g]
           s == [r EXCEPT !.pc = "broken", !.cause = "error"]
<1>0. Typed /\ r \in GetTypes /\ GetInv(g)
  BY DEF Inv, Typed
<1>1. /\ r.pc = "stream"
      /\ UNCHANGED <<kind, link, data, put, batch, overridden, spoiled, disturbed>>
  BY DEF StreamFails, history
<1>2. get' = [get EXCEPT ![g] = s]
  BY <1>0 DEF StreamFails, Typed, GetTypes
<1>3. /\ s \in GetTypes /\ s.pc = "broken" /\ s.cause = "error" /\ s.key = r.key /\ s.range = r.range
      /\ s.at = r.at /\ s.tag = r.tag /\ s.from = r.from /\ s.length = r.length /\ s.got = r.got
  BY <1>0 DEF GetTypes
<1> HIDE DEF s
<1>4. disturbed' \subseteq Gets /\ disturbed' \ {g} = disturbed \ {g}
  BY <1>0, <1>1 DEF Typed
<1>5. ASSUME get'[g] = s PROVE GetInv(g)'
  <2>1. Length(get[g].range, Len(get[g].tag))' = Length(r.range, Len(r.tag))
    <3>1. \A n, m : Length(n, m)' = Length(n, m)
      BY <1>1 DEF Length
    <3>2. QED
      BY <1>3, <1>5, <3>1
  <2>2. \E f \in Puts, j \in Keys : s.at = {f} /\ s.key = {j} /\ IsObject(f, j)'
    BY <1>0, <1>1, <1>3 DEF GetInv, IsObject
  <2>3. Copied(get[g])' = Copied(r)
    BY <1>3, <1>5 DEF Copied
  <2>4. QED
    BY <1>0, <1>1, <1>3, <1>5, <2>1, <2>2, <2>3 DEF GetInv
<1>6. QED
  BY <1>1, <1>2, <1>3, <1>4, <1>5, GetStays

(* What a directory has announced has no bytes. *)
LEMMA GetFolderInv ==
  ASSUME Inv, NEW g \in Gets, NEW k \in Keys, NEW q \in Asked, GetFolder(g, k, q)
  PROVE  Inv'
<1> DEFINE key == {k}
           s == [NoGet EXCEPT !.pc = "broken", !.key = key, !.range = q, !.cause = "folder"]
<1>1. /\ get' = [get EXCEPT ![g] = s]
      /\ UNCHANGED <<kind, link, data, put, batch, overridden, spoiled, disturbed>>
  BY DEF GetFolder, history
<1>2. key \in SUBSET Keys /\ q \in {NoRange} \cup RangesOf
  BY AskedAssumption DEF RangesOf
<1> HIDE DEF key
<1>3. /\ s \in GetTypes /\ s.pc = "broken" /\ s.cause = "folder"
      /\ s.got = <<>> /\ s.tag = <<>> /\ s.from = 0
  BY <1>2, EmptyTypes DEF GetTypes, NoGet
<1> HIDE DEF s
<1>4. disturbed' \subseteq Gets /\ disturbed' \ {g} = disturbed \ {g}
  BY <1>1 DEF Inv, Typed
<1>5. ASSUME get'[g] = s PROVE GetInv(g)'
  <2>1. Copied(s)
    BY <1>3 DEF Copied
  <2>2. Copied(get[g])' = Copied(s)
    BY <1>5 DEF Copied
  <2>3. QED
    BY <1>3, <1>5, <2>1, <2>2 DEF GetInv
<1>6. QED
  BY <1>1, <1>3, <1>4, <1>5, GetStays

LEMMA NewReaderInv ==
  ASSUME Inv, NEW g \in Gets, NewReader(g)
  PROVE  Inv'
<1> DEFINE r == get[g]
<1>0. Typed /\ r \in GetTypes /\ GetInv(g)
  BY DEF Inv, Typed
<1>1. r.pc = "attrs" /\ UNCHANGED <<kind, link, data, put, batch, overridden, spoiled>>
  BY DEF NewReader
<1>2. PICK k \in r.key :
        \/ /\ link[k] = {} /\ get' = [get EXCEPT ![g] = NoGet]
           /\ UNCHANGED disturbed
        \/ \E o \in link[k] :
             /\ get' = [get EXCEPT ![g].pc = "stream", ![g].at = {o}]
             /\ disturbed' = IF r.at = {o} THEN disturbed ELSE disturbed \cup {g}
  BY DEF NewReader
<1>3. /\ \E f \in Puts, j \in Keys : r.at = {f} /\ r.key = {j} /\ IsObject(f, j)
      /\ r.range # NoRange => r.range.first < Len(r.tag)
      /\ kind = "s3" => ~EndsBefore(r.range)
      /\ r.cause = "none" /\ Len(r.tag) <= MaxInt
      /\ r.from = From(r.range) /\ r.length = Length(r.range, Len(r.tag))
      /\ kind = "gcs" /\ r.got = <<>> /\ \A o \in r.at : data[o] = r.tag
  BY <1>0, <1>1 DEF GetInv
<1>4. k \in Keys /\ r.key = {k} /\ NameInv(k)
  BY <1>2, <1>3 DEF Inv
<1>5. CASE link[k] = {} /\ get' = [get EXCEPT ![g] = NoGet] /\ UNCHANGED disturbed
  <2>1. NoGet \in GetTypes /\ NoGet.pc = "idle" /\ NoGet.cause = "none"
    BY EmptyTypes DEF NoGet
  <2>2. get'[g] = NoGet => GetInv(g)'
    BY <2>1 DEF GetInv
  <2>3. disturbed' \subseteq Gets /\ disturbed' \ {g} = disturbed \ {g}
    BY <1>0, <1>5 DEF Typed
  <2>4. QED
    BY <1>1, <1>5, <2>1, <2>2, <2>3, GetStays
<1>6. CASE \E o \in link[k] :
             /\ get' = [get EXCEPT ![g].pc = "stream", ![g].at = {o}]
             /\ disturbed' = IF r.at = {o} THEN disturbed ELSE disturbed \cup {g}
  <2>1. PICK o \in link[k] :
          /\ get' = [get EXCEPT ![g].pc = "stream", ![g].at = {o}]
          /\ disturbed' = IF r.at = {o} THEN disturbed ELSE disturbed \cup {g}
    BY <1>6
  <2>2. IsObject(o, k) /\ IsObject(o, k)' /\ o \in Puts
    BY <1>1, <1>4, <2>1 DEF NameInv, IsObject
  <2> DEFINE at == {o}
             s == [r EXCEPT !.pc = "stream", !.at = at]
  <2>3. get' = [get EXCEPT ![g] = s]
    BY <1>0, <2>1 DEF Typed, GetTypes
  <2>4. at \in SUBSET Puts
    BY <2>2
  <2> HIDE DEF at
  <2>5. /\ s \in GetTypes /\ s.pc = "stream" /\ s.key = r.key /\ s.range = r.range /\ s.at = at
        /\ s.tag = r.tag /\ s.from = r.from /\ s.length = r.length /\ s.got = r.got
        /\ s.cause = r.cause
    BY <1>0, <2>4 DEF GetTypes
  <2> HIDE DEF s
  <2>6. /\ disturbed' \subseteq Gets /\ disturbed' \ {g} = disturbed \ {g}
        /\ g \notin disturbed' => r.at = {o}
    BY <1>0, <2>1 DEF Typed
  <2>7. ASSUME get'[g] = s PROVE GetInv(g)'
    <3>1. Length(get[g].range, Len(get[g].tag))' = r.length
      <4>1. \A n, m : Length(n, m)' = Length(n, m)
        BY <1>1 DEF Length
      <4>2. QED
        BY <1>3, <2>5, <2>7, <4>1
    <3>2. Copied(s)
      <4>1. Len(s.got) = 0
        BY <1>3, <2>5
      <4>2. QED
        BY <4>1 DEF Copied
    <3>3. Copied(get[g])' = Copied(s)
      BY <2>7 DEF Copied
    <3>4. g \notin disturbed' => \A f \in at : data[f] = r.tag
      BY <1>3, <2>6 DEF at
    <3>5. \E f \in Puts, j \in Keys : s.at = {f} /\ s.key = {j} /\ IsObject(f, j)'
      BY <1>4, <2>2, <2>5 DEF at
    <3>6. QED
      BY <1>1, <1>3, <2>5, <2>7, <3>1, <3>2, <3>3, <3>4, <3>5 DEF GetInv
  <2>8. QED
    BY <1>1, <2>3, <2>5, <2>6, <2>7, GetStays
<1>7. QED
  BY <1>2, <1>5, <1>6

LEMMA GetEndsInv ==
  ASSUME Inv, NEW g \in Gets, GetEnds(g)
  PROVE  Inv'
<1> DEFINE r == get[g]
           s == [r EXCEPT !.pc = "done"]
<1>0. Typed /\ r \in GetTypes /\ GetInv(g)
  BY DEF Inv, Typed
<1>1. /\ r.pc = "stream" /\ Len(r.got) = r.length
      /\ UNCHANGED <<kind, link, data, put, batch, overridden, spoiled, disturbed>>
  BY DEF GetEnds, history
<1>2. get' = [get EXCEPT ![g] = s]
  BY <1>0 DEF GetEnds, Typed, GetTypes
<1>3. /\ s \in GetTypes /\ s.pc = "done" /\ s.key = r.key /\ s.range = r.range /\ s.at = r.at
      /\ s.tag = r.tag /\ s.from = r.from /\ s.length = r.length /\ s.got = r.got
      /\ s.cause = r.cause
  BY <1>0 DEF GetTypes
<1> HIDE DEF s
<1>4. disturbed' \subseteq Gets /\ disturbed' \ {g} = disturbed \ {g}
  BY <1>0, <1>1 DEF Typed
<1>5. ASSUME get'[g] = s PROVE GetInv(g)'
  <2>1. Length(get[g].range, Len(get[g].tag))' = Length(r.range, Len(r.tag))
    <3>1. \A n, m : Length(n, m)' = Length(n, m)
      BY <1>1 DEF Length
    <3>2. QED
      BY <1>3, <1>5, <3>1
  <2>2. \E f \in Puts, j \in Keys : s.at = {f} /\ s.key = {j} /\ IsObject(f, j)'
    BY <1>0, <1>1, <1>3 DEF GetInv, IsObject
  <2>3. Copied(get[g])' = Copied(r)
    BY <1>3, <1>5 DEF Copied
  <2>4. QED
    BY <1>0, <1>1, <1>3, <1>5, <2>1, <2>2, <2>3 DEF GetInv
<1>6. QED
  BY <1>1, <1>2, <1>3, <1>4, <1>5, GetStays

LEMMA LeaveInv ==
  ASSUME Inv, NEW g \in Gets, Leave(g)
  PROVE  Inv'
<1>1. Typed
  BY DEF Inv
<1>2. NoGet \in GetTypes /\ NoGet.pc = "idle" /\ NoGet.cause = "none"
  BY EmptyTypes DEF NoGet
<1>3. get'[g] = NoGet => GetInv(g)'
  BY <1>2 DEF GetInv
<1>4. /\ get' = [get EXCEPT ![g] = NoGet] /\ UNCHANGED <<kind, link, data, put, batch, overridden, spoiled>>
      /\ disturbed' \subseteq Gets /\ disturbed' \ {g} = disturbed \ {g}
  BY <1>1 DEF Leave, Typed
<1>5. QED
  BY <1>2, <1>3, <1>4, GetStays

-----------------------------------------------------------------------------
(***************************************************************************)
(* DELETE.                                                                 *)
(***************************************************************************)

(* A step that leaves everything but names and a batch. *)
Unlinked(ks) ==
  /\ link' = [k \in Keys |-> IF k \in ks THEN {} ELSE link[k]]
  /\ overridden' = overridden \cup UNION {Effective(k) : k \in ks}

LEMMA UnlinkInv ==
  ASSUME Inv, NEW ks \in SUBSET Keys, Unlinked(ks), batch' \in BatchTypes,
         UNCHANGED <<kind, data, put, get, spoiled, disturbed>>,
         UNCHANGED batch \/ BatchInv'
  PROVE  Inv'
<1>0. Typed
  BY DEF Inv
<1>1. /\ link' = [k \in Keys |-> IF k \in ks THEN {} ELSE link[k]]
      /\ overridden' = overridden \cup UNION {Effective(k) : k \in ks}
  BY DEF Unlinked
<1>2. \A k \in Keys : Effective(k) \subseteq Puts
  BY DEF Effective
<1>3. Typed'
  <2>1. link' \in [Keys -> SUBSET Puts]
    BY <1>0, <1>1 DEF Typed
  <2>2. overridden' \subseteq Puts
    BY <1>0, <1>1, <1>2 DEF Typed
  <2>3. QED
    BY <1>0, <2>1, <2>2 DEF Typed
<1>4. Kept
  BY DEF Kept, IsObject
<1>5. \A k \in Keys : Named(k)
  BY <1>1 DEF Named
<1>6. \A k \in Keys : link'[k] = link[k] \/ Effective(k) \subseteq overridden'
  BY <1>1
<1>7. overridden \subseteq overridden' /\ disturbed \subseteq disturbed'
  BY <1>1
<1>8. \A p \in Puts : PutInv(p)'
  <2> DEFINE mine == {}
  <2>1. mine \in SUBSET Puts /\ \A S : S \ mine = S
    OBVIOUS
  <2> HIDE DEF mine
  <2>2. \A k \in Keys : link'[k] = link[k] \/ Effective(k) \ mine \subseteq overridden'
    BY <1>6, <2>1
  <2>3. \A q \in Puts \ mine : PutInv(q)'
    BY <1>4, <1>7, <2>1, <2>2, OthersStay
  <2>4. QED
    BY <2>1, <2>3
<1>9. \A o \in Puts : SizeInv(o)' /\ FileInv(o)'
  <2> SUFFICES ASSUME NEW o \in Puts PROVE SizeInv(o)' /\ FileInv(o)'
    OBVIOUS
  <2>1. SizeInv(o) /\ FileInv(o)
    BY DEF Inv
  <2>2. SizeInv(o)'
    BY <2>1 DEF SizeInv
  <2>3. Writing(o)' = Writing(o) /\ \A p \in Puts : Whole(p)' = Whole(p) /\ Run(p, Len(put[p].sent))' = Run(p, Len(put[p].sent))
    BY DEF Writing, Whole, Run
  <2>4. FileInv(o)'
    BY <2>1, <2>3 DEF FileInv
  <2>5. QED
    BY <2>2, <2>4
<1>10. (\A k \in Keys : NameInv(k))' /\ (UNCHANGED batch => BatchInv')
  <2>1. link' \in [Keys -> SUBSET Puts]
    BY <1>3 DEF Typed
  <2>2. QED
    BY <2>1, <1>4, <1>5, NamesStay
<1>11. (\A g \in Gets : GetInv(g))'
  BY <1>4, <1>7, GetsStay
<1>12. QED
  BY <1>3, <1>8, <1>9, <1>10, <1>11 DEF Inv, PutInv

LEMMA DeleteObjectInv ==
  ASSUME Inv, NEW k \in Keys, DeleteObject(k)
  PROVE  Inv'
<1>1. /\ Unlinked({k}) /\ UNCHANGED <<kind, data, put, get, spoiled, disturbed>>
      /\ UNCHANGED batch
  BY DEF DeleteObject, Unlink, Unlinked
<1>2. batch' \in BatchTypes /\ {k} \in SUBSET Keys
  BY <1>1 DEF Inv, Typed
<1>3. QED
  BY <1>1, <1>2, UnlinkInv

(* A step of the batch alone, or of nothing. *)
LEMMA BatchAloneInv ==
  ASSUME Inv, UNCHANGED <<kind, link, data, put, get, history>>, batch' \in BatchTypes,
         UNCHANGED batch \/ BatchInv'
  PROVE  Inv'
<1> DEFINE none == {}
<1>1. none \in SUBSET Keys
  OBVIOUS
<1>2. Unlinked(none)
  BY DEF Unlinked, Inv, Typed, history
<1> HIDE DEF none
<1>3. UNCHANGED <<kind, data, put, get, spoiled, disturbed>>
  BY DEF history
<1>4. QED
  BY <1>1, <1>2, <1>3, UnlinkInv

LEMMA DeleteObjectsInv ==
  ASSUME Inv, NEW ks \in SUBSET Keys, DeleteObjects(ks)
  PROVE  Inv'
<1>1. /\ batch' = [pc |-> "loop", before |-> link, left |-> ks, errors |-> Keys \ ks]
      /\ UNCHANGED <<kind, link, data, put, get, history>>
  BY DEF DeleteObjects
<1>2. batch' \in BatchTypes
  BY <1>1 DEF Inv, Typed, BatchTypes
<1>3. BatchInv'
  <2>1. /\ batch'.pc = "loop" /\ batch'.before = link /\ batch'.left = ks /\ batch'.errors = Keys \ ks
    BY <1>1
  <2>2. \A k \in Keys : \A o \in link[k] : link[k] = {o} /\ IsObject(o, k)'
    BY <1>1 DEF Inv, NameInv, IsObject
  <2>3. QED
    BY <2>1, <2>2 DEF BatchInv
<1>4. QED
  BY <1>1, <1>2, <1>3, BatchAloneInv

(* What is removed is not there, and what is not removed is left or an error. *)
LEMMA DeleteNextInv ==
  ASSUME Inv, DeleteNext
  PROVE  Inv'
<1>1. PICK gone, failed \in SUBSET batch.left : DeleteSome(gone, failed)
  BY DEF DeleteNext
<1>2. batch.pc = "loop" /\ UNCHANGED <<kind, data, put, get, spoiled, disturbed>>
  BY DEF DeleteNext
<1>3. /\ batch \in BatchTypes /\ Unlinked(gone)
      /\ batch' = [batch EXCEPT !.left = @ \ (gone \cup failed), !.errors = @ \cup failed]
  <2>1. batch \in BatchTypes
    BY DEF Inv, Typed
  <2>2. QED
    BY ONLY <1>1, <2>1 DEF DeleteSome, Unlink, Unlinked
<1>4. /\ batch' \in BatchTypes /\ gone \in SUBSET Keys
      /\ batch'.pc = "loop" /\ batch'.before = batch.before
      /\ batch'.left = batch.left \ (gone \cup failed) /\ batch'.errors = batch.errors \cup failed
  BY <1>2, <1>3 DEF BatchTypes
<1>5. BatchInv'
  <2>1. /\ batch.left \cap batch.errors = {}
        /\ \A k \in Keys : \A o \in batch.before[k] : batch.before[k] = {o} /\ IsObject(o, k)
        /\ \A k \in Keys \ (batch.left \cup batch.errors) : link[k] = {} \/ link[k] # batch.before[k]
    BY <1>2 DEF Inv, BatchInv
  <2>2. batch'.left \cap batch'.errors = {}
    BY <1>4, <2>1
  <2>3. \A k \in Keys : \A o \in batch.before[k] : batch.before[k] = {o} /\ IsObject(o, k)'
    BY <1>2, <2>1 DEF IsObject
  <2>4. ASSUME NEW k \in Keys \ (batch'.left \cup batch'.errors)
        PROVE  link'[k] = {} \/ link'[k] # batch.before[k]
    <3>1. link'[k] = IF k \in gone THEN {} ELSE link[k]
      BY <1>3 DEF Unlinked
    <3>2. QED
      BY <1>4, <2>1, <2>4, <3>1
  <2>5. QED
    BY <1>4, <2>2, <2>3, <2>4 DEF BatchInv
<1>6. QED
  BY <1>2, <1>3, <1>4, <1>5, UnlinkInv

LEMMA BatchAnswersInv ==
  ASSUME Inv, BatchAnswers
  PROVE  Inv'
<1>1. /\ batch \in BatchTypes /\ batch.pc = "loop" /\ batch.left = {}
      /\ batch' = [batch EXCEPT !.pc = "answered"]
      /\ UNCHANGED <<kind, link, data, put, get, history>>
  BY DEF BatchAnswers, Inv, Typed
<1>2. /\ batch' \in BatchTypes /\ batch'.pc = "answered" /\ batch'.before = batch.before
      /\ batch'.left = batch.left /\ batch'.errors = batch.errors
  BY <1>1 DEF BatchTypes
<1>3. BatchInv'
  BY <1>1, <1>2 DEF Inv, BatchInv, IsObject
<1>4. QED
  BY <1>1, <1>2, <1>3, BatchAloneInv

LEMMA BatchLeavesInv ==
  ASSUME Inv, BatchLeaves
  PROVE  Inv'
<1>1. batch' = NoBatch /\ UNCHANGED <<kind, link, data, put, get, history>>
  BY DEF BatchLeaves
<1>2. batch' \in BatchTypes
  BY <1>1, EmptyTypes
<1>3. BatchInv'
  BY <1>1 DEF BatchInv, NoBatch
<1>4. QED
  BY <1>1, <1>2, <1>3, BatchAloneInv

-----------------------------------------------------------------------------
(***************************************************************************)
(* The invariant.                                                          *)
(***************************************************************************)
LEMMA WriteInv ==
  ASSUME Inv, NEW p \in Puts, Write(p)
  PROVE  Inv'
<1>1. CASE \E k \in Keys : PutObject(p, k)
  BY <1>1, PutObjectInv
<1>2. CASE PutEnds(p)
  BY <1>2, CopyInv, PutCommitsInv, PutAttrsInv, PutBreaksOffInv DEF PutEnds
<1>3. CASE PutFails(p)
  BY <1>3, PutFailsInv
<1>4. QED
  BY <1>1, <1>2, <1>3 DEF Write

LEMMA FetchInv ==
  ASSUME Inv, NEW g \in Gets, Fetch(g)
  PROVE  Inv'
<1>1. CASE \E k \in Keys, q \in Asked : GetObject(g, k, q) \/ GetFolder(g, k, q)
  BY <1>1, GetObjectInv, GetFolderInv
<1>2. CASE GetSteps(g)
  BY <1>2, NewReaderInv, StreamInv, StreamFailsInv, GetEndsInv DEF GetSteps
<1>3. CASE Leave(g)
  BY <1>3, LeaveInv
<1>4. QED
  BY <1>1, <1>2, <1>3 DEF Fetch

LEMMA ClearInv ==
  ASSUME Inv, Clear
  PROVE  Inv'
<1>1. CASE \E k \in Keys : DeleteObject(k)
  BY <1>1, DeleteObjectInv
<1>2. CASE \E ks \in SUBSET Keys \ {{}} : DeleteObjects(ks)
  BY <1>2, DeleteObjectsInv
<1>3. QED
  BY <1>1, <1>2, DeleteNextInv, BatchAnswersInv, BatchLeavesInv DEF Clear

LEMMA NextInv == Inv /\ [Next]_vars => Inv'
<1> SUFFICES ASSUME Inv, [Next]_vars PROVE Inv'
  OBVIOUS
<1>1. CASE Next
  BY <1>1, WriteInv, FetchInv, ClearInv DEF Next
<1>2. CASE UNCHANGED vars
  <2>1. UNCHANGED <<kind, link, data, put, get, history>> /\ UNCHANGED batch
    BY <1>2 DEF vars
  <2>2. batch' \in BatchTypes
    BY <2>1 DEF Inv, Typed
  <2>3. QED
    BY <2>1, <2>2, BatchAloneInv
<1>3. QED
  BY <1>1, <1>2

(* Readers, names, versions, files, answers and batches are always as above. *)
THEOREM Invariant == Spec => []Inv
<1>1. Init => Inv
  BY InitInv
<1>2. Inv /\ [Next]_vars => Inv'
  BY NextInv
<1>3. QED
  BY <1>1, <1>2, PTL DEF Spec

(* The names of directories, which no file has. *)
FolderInv ==
  /\ folders \subseteq Keys
  /\ \A k \in folders : kind = "local" /\ link[k] = {}

LEMMA FoldersStay ==
  ASSUME FolderInv, UNCHANGED <<kind, folders>>, kind # "local" \/ link' = link
  PROVE  FolderInv'
<1>1. CASE kind # "local"
  BY <1>1 DEF FolderInv
<1>2. CASE link' = link
  BY <1>2 DEF FolderInv
<1>3. QED
  BY <1>1, <1>2

LEMMA WriteFolders ==
  ASSUME Typed, FolderInv, NEW p \in Puts, Write(p)
  PROVE  FolderInv'
<1>1. ASSUME NEW k \in Keys, PutObject(p, k) PROVE FolderInv'
  <2>1. kind' = kind /\ MakeFolders(k)
    BY <1>1 DEF PutObject
  <2>2. CASE kind # "local"
    BY <2>1, <2>2, FoldersStay DEF MakeFolders
  <2>3. CASE kind = "local"
    <3>1. /\ k \notin folders /\ (\A f \in In[k] : link[f] = {}) /\ folders' = folders \cup In[k]
      BY <2>1, <2>3 DEF MakeFolders
    <3>2. \A f \in Keys \ {k} : link'[f] = link[f]
      BY <1>1, <2>3 DEF PutObject, Typed
    <3>3. In[k] \subseteq Keys /\ k \notin In[k]
      BY InAssumption
    <3>4. QED
      BY <2>1, <2>3, <3>1, <3>2, <3>3 DEF FolderInv
  <2>4. QED
    BY <2>2, <2>3
<1>2. CASE Copy(p)
  BY <1>2, FoldersStay DEF Copy
<1>3. CASE PutCommits(p)
  BY <1>3, FoldersStay DEF PutCommits
<1>4. CASE PutAttrs(p)
  BY <1>4, FoldersStay DEF PutAttrs
<1>5. CASE PutBreaksOff(p)
  BY <1>5, FoldersStay DEF PutBreaksOff
<1>6. CASE PutFails(p)
  BY <1>6, FoldersStay DEF PutFails
<1>7. QED
  BY <1>1, <1>2, <1>3, <1>4, <1>5, <1>6 DEF Write, PutEnds

LEMMA ClearFolders ==
  ASSUME Typed, FolderInv, Clear
  PROVE  FolderInv'
<1>1. ASSUME NEW ks \in SUBSET Keys, Unlink(ks), kind' = kind PROVE FolderInv'
  BY <1>1 DEF Unlink, FolderInv
<1>2. ASSUME NEW k \in Keys, DeleteObject(k) PROVE FolderInv'
  <2>1. {k} \in SUBSET Keys /\ Unlink({k}) /\ kind' = kind
    BY <1>2 DEF DeleteObject
  <2>2. QED
    BY <1>1, <2>1
<1>3. CASE DeleteNext
  <2>1. \E gone \in SUBSET batch.left : Unlink(gone) /\ kind' = kind
    BY <1>3 DEF DeleteNext, DeleteSome
  <2>2. batch.left \subseteq Keys
    BY DEF Typed, BatchTypes
  <2>3. QED
    BY <1>1, <2>1, <2>2
<1>4. CASE (\E ks \in SUBSET Keys \ {{}} : DeleteObjects(ks)) \/ BatchAnswers \/ BatchLeaves
  BY <1>4, FoldersStay DEF DeleteObjects, BatchAnswers, BatchLeaves
<1>5. QED
  BY <1>2, <1>3, <1>4 DEF Clear

(* Directories are those of the local backend, and none has the name of a file. *)
THEOREM FolderInvariant == Spec => []FolderInv
<1>1. Init => FolderInv
  BY DEF Init, FolderInv
<1>2. ASSUME Typed, FolderInv, [Next]_vars PROVE FolderInv'
  <2>1. ASSUME NEW g \in Gets, Fetch(g) PROVE FolderInv'
    BY <1>2, <2>1, FoldersStay
       DEF Fetch, GetObject, GetFolder, GetSteps, NewReader, Stream, StreamFails, GetEnds, Leave
  <2>2. CASE UNCHANGED vars
    BY <1>2, <2>2, FoldersStay DEF vars
  <2>3. QED
    BY <1>2, <2>1, <2>2, WriteFolders, ClearFolders DEF Next
<1>3. Inv => Typed
  BY DEF Inv
<1>4. QED
  BY <1>1, <1>2, <1>3, Invariant, PTL DEF Spec

-----------------------------------------------------------------------------
(***************************************************************************)
(* What it means.                                                          *)
(***************************************************************************)

(* Bytes that are those of another sequence from a place on are a part of it. *)
LEMMA IsPart ==
  ASSUME NEW s \in Stored, NEW t \in Stored, NEW from \in Nat, from + Len(s) <= Len(t),
         \A i \in 1..Len(s) : s[i] = t[from + i]
  PROVE  s = SubSeq(t, from + 1, from + Len(s))
<1> DEFINE S == {{p} : p \in Puts} \cup {Hole}
           n == Len(s)
           part == SubSeq(t, from + 1, from + n)
<1>1. s \in Seq(S) /\ t \in Seq(S)
  BY DEF Stored
<1> HIDE DEF S
<1>2. n \in Nat /\ Len(t) \in Nat /\ \A i \in (from + 1)..(from + n) : t[i] \in S
  BY <1>1
<1>3. /\ part \in Seq(S)
      /\ Len(part) = IF from + 1 <= from + n THEN from + n - (from + 1) + 1 ELSE 0
      /\ \A i \in 1..(from + n - (from + 1) + 1) : part[i] = t[from + 1 + i - 1]
  BY <1>1, <1>2, SubSeqProperties
<1>4. Len(part) = n
  BY <1>2, <1>3
<1>5. ASSUME NEW i \in 1..n PROVE part[i] = s[i]
  <2>1. i \in 1..(from + n - (from + 1) + 1) /\ from + 1 + i - 1 = from + i
    BY <1>2
  <2>2. part[i] = t[from + 1 + i - 1]
    BY <1>3, <2>1
  <2>3. QED
    BY <2>1, <2>2
<1> HIDE DEF part
<1>6. s = part
  BY <1>1, <1>3, <1>4, <1>5
<1>7. QED
  BY <1>6 DEF part

LEMMA InvTypeOK == Inv /\ FolderInv => TypeOK
<1> SUFFICES ASSUME Inv, FolderInv PROVE TypeOK
  OBVIOUS
<1>1. ASSUME NEW k \in Keys PROVE link[k] = {} \/ \E p \in Puts : link[k] = {p} /\ put[p].key = {k}
  BY DEF Inv, NameInv, IsObject
<1>2. ASSUME NEW p \in Puts
      PROVE  data[p] \in Stored /\ put[p].pc \in {"new", "copy", "attrs", "acked", "failed"}
  BY DEF Inv, Typed, PutTypes
<1>3. ASSUME NEW g \in Gets
      PROVE  get[g].pc \in {"idle", "attrs", "stream", "done", "broken"} /\ get[g].got \in Stored
  BY DEF Inv, Typed, GetTypes
<1>4. batch.pc \in {"idle", "loop", "answered"} /\ batch.left \cap batch.errors = {}
  BY DEF Inv, Typed, BatchTypes, BatchInv
<1>5. QED
  BY <1>1, <1>2, <1>3, <1>4 DEF FolderInv, Inv, Typed, TypeOK

LEMMA InvBodyIsDecoded == Inv => BodyIsDecoded
<1> SUFFICES ASSUME Inv, NEW p \in Puts
    PROVE  /\ \A i \in DOMAIN put[p].sent : put[p].sent[i] = Token("byte", i)
           /\ put[p].whole => ~Ended(p, "error") /\ (Ended(p, "eof") => Len(put[p].sent) = put[p].size)
  BY DEF BodyIsDecoded
<1>1. \A i \in DOMAIN put[p].sent : put[p].sent[i] = Token("byte", i)
  BY DEF Inv, ReaderInv
<1>2. Ended(p, "error") => ~put[p].whole
  BY EndedResult
<1>3. Ended(p, "eof") => Len(put[p].sent) = put[p].size
  BY EndedResult
<1>4. QED
  BY <1>1, <1>2, <1>3

LEMMA InvAckedIsStored == Inv => AckedIsStored
<1> SUFFICES ASSUME Inv, NEW p \in Puts \ overridden, put[p].pc = "acked"
    PROVE  /\ \E o \in put[p].at :
                put[p].key # {} /\ \A k \in put[p].key : link[k] = {o} /\ data[o] = Whole(p)
           /\ kind # "local" => put[p].tag = Whole(p)
  BY DEF AckedIsStored
<1>1. PlaceInv(p) /\ LatestInv(p) /\ VersionInv(p) /\ WriterInv(p)
  BY DEF Inv
<1>2. put[p].key # {}
  BY <1>1 DEF PlaceInv
<1>3. \E o \in Puts : put[p].at = {o}
  BY <1>1 DEF PlaceInv
<1>4. PICK o \in Puts : put[p].at = {o}
  BY <1>3
<1>5. data[o] = Whole(p)
  <2>1. CASE kind = "local"
    BY <1>1, <1>4, <2>1 DEF WriterInv
  <2>2. CASE kind # "local"
    BY <1>1, <1>4, <2>2 DEF PlaceInv, VersionInv
  <2>3. QED
    BY <2>1, <2>2
<1>6. \A k \in put[p].key : link[k] = {o}
  BY <1>1, <1>4 DEF LatestInv
<1>7. kind # "local" => put[p].tag = Whole(p)
  BY <1>1 DEF VersionInv
<1>8. QED
  BY <1>2, <1>4, <1>5, <1>6, <1>7

LEMMA InvStoredIsWhole == Inv => StoredIsWhole
<1> SUFFICES ASSUME Inv, NEW k \in Keys, NEW o \in link[k]
    PROVE  \/ \E p \in Puts : data[o] = Whole(p)
           \/ o \in spoiled /\ kind \in {"local", "gcs"}
           \/ Writing(o) # {}
  BY DEF StoredIsWhole
<1>1. o \in Puts /\ put[o].at = {o}
  BY DEF Inv, NameInv, IsObject
<1>2. VersionInv(o) /\ FileInv(o)
  BY <1>1 DEF Inv
<1>3. CASE kind = "local"
  BY <1>1, <1>2, <1>3 DEF FileInv
<1>4. CASE kind # "local"
  BY <1>1, <1>2, <1>4 DEF VersionInv
<1>5. QED
  BY <1>3, <1>4

(* What was copied from an object nobody disturbed is a part of it. *)
LEMMA CopiedPart ==
  ASSUME Inv, NEW g \in Gets \ disturbed, get[g].pc \in {"done", "broken"}
  PROVE  LET q == get[g] IN
         /\ Len(q.got) \in Nat
         /\ Len(q.got) > 0 => q.from + Len(q.got) <= Len(q.tag)
         /\ q.from <= Len(q.tag) => q.got = SubSeq(q.tag, q.from + 1, q.from + Len(q.got))
<1> DEFINE r == get[g]
           n == Len(r.got)
           size == Len(r.tag)
<1>1. Copied(r)
  BY DEF Inv, GetInv
<1>2. r.got \in Stored /\ r.tag \in Stored /\ r.from \in Nat
  BY DEF Inv, Typed, GetTypes
<1>3. n \in Nat /\ size \in Nat
  BY <1>2 DEF Stored
<1>4. \A i \in 1..n : r.from + i <= size /\ r.got[i] = r.tag[r.from + i]
  BY <1>1 DEF Copied
<1>5. n > 0 => r.from + n <= size
  <2>1. n > 0 => n \in 1..n
    BY <1>3
  <2>2. QED
    BY <1>4, <2>1
<1>6. r.from <= size => r.from + n <= size
  BY <1>2, <1>3, <1>5
<1>7. r.from <= size => r.got = SubSeq(r.tag, r.from + 1, r.from + n)
  BY <1>2, <1>4, <1>6, IsPart
<1>8. QED
  BY <1>3, <1>5, <1>7

(* Of an answer that ended well it is as long as was announced, and what was announced *)
(* ends where the range does, or where the object does.                                *)
LEMMA InvOneVersion == Inv => OneVersion
<1> SUFFICES ASSUME Inv, NEW g \in Gets \ disturbed
    PROVE  LET q == get[g].range
               tag == get[g].tag
               got == get[g].got
           IN /\ get[g].pc = "done" =>
                   \/ got = SubSeq(tag, From(q) + 1, LastOf(q, Len(tag)) + 1)
                   \/ Short(q)
              /\ get[g].pc = "broken" => got = SubSeq(tag, get[g].from + 1, get[g].from + Len(got))
  BY DEF OneVersion, LastOf, Short
<1> DEFINE r == get[g]
           q == r.range
           size == Len(r.tag)
           n == Len(r.got)
<1>1. r.tag \in Stored /\ r.from \in Nat /\ q \in {NoRange} \cup RangesOf
  BY DEF Inv, Typed, GetTypes
<1>2. size \in Nat
  BY <1>1 DEF Stored
<1>3. r.pc # "idle" /\ r.cause # "folder" => r.from = From(q) /\ (q # NoRange => q.first < size)
  BY DEF Inv, GetInv
<1>4. r.pc # "idle" /\ r.cause # "folder" => r.from <= size
  <2>1. q # NoRange => q.first \in Nat
    BY <1>1, EmptyTypes DEF RangesOf
  <2>2. QED
    BY <1>2, <1>3, <2>1 DEF From
<1>5. CASE r.pc = "done"
  <2>1. n = r.length /\ r.cause = "none"
    BY <1>5 DEF Inv, GetInv
  <2>2. n \in Nat /\ (n > 0 => r.from + n <= size)
        /\ r.got = SubSeq(r.tag, r.from + 1, r.from + n)
    BY <1>4, <1>5, <2>1, CopiedPart
  <2>3. /\ q = NoRange => r.from = 0 /\ r.length = size
        /\ q # NoRange => q \in RangesOf /\ r.from = q.first /\ Fits(r.length, q, size)
    BY <1>5, LengthOf
  <2>4. r.from + n = LastOf(q, size) + 1 \/ Short(q)
    <3>1. CASE q = NoRange
      BY <1>2, <2>1, <2>3, <3>1 DEF LastOf
    <3>2. CASE q # NoRange
      <4>1. n <= size - q.first
        BY <1>1, <1>2, <1>4, <1>5, <2>1, <2>2, <2>3, <3>2
      <4>2. QED
        BY <2>1, <2>3, <3>2, <4>1 DEF Fits
    <3>3. QED
      BY <3>1, <3>2
  <2>5. QED
    BY <1>3, <1>5, <2>1, <2>2, <2>4
<1>6. CASE r.pc = "broken"
  <2>1. CASE r.cause = "folder"
    <3>1. r.from <= size
      BY <1>2, <2>1 DEF Inv, GetInv
    <3>2. QED
      BY <1>6, <3>1, CopiedPart
  <2>2. CASE r.cause # "folder"
    BY <1>4, <1>6, <2>2, CopiedPart
  <2>3. QED
    BY <2>1, <2>2
<1>7. QED
  BY <1>5, <1>6

LEMMA InvBrokenForCause == Inv => BrokenForCause
BY DEF Inv, GetInv, BrokenForCause

LEMMA InvDeletedIsGone == Inv => DeletedIsGone
<1> SUFFICES ASSUME Inv, batch.pc = "answered", NEW k \in Keys \ batch.errors
    PROVE  link[k] = {} \/ link[k] # batch.before[k]
  BY DEF DeletedIsGone
<1>1. batch.left = {}
  BY DEF Inv, BatchInv
<1>2. QED
  BY <1>1 DEF Inv, BatchInv

-----------------------------------------------------------------------------
(* The handlers keep to the types of their requests, objects and answers; no two keys *)
(* name the same object, and no key of a batch is both to do and reported.            *)
THEOREM TypeCorrect == Spec => []TypeOK
BY Invariant, FolderInvariant, InvTypeOK, PTL

(* awsChunkedReader.Read: for every framing, cut and size of io.Copy's buffer the bytes  *)
(* of the body come out once and in order, and a whole body ends with all of them.       *)
THEOREM BodyIsDecodedHolds == Spec => []BodyIsDecoded
BY Invariant, InvBodyIsDecoded, PTL

(* PutObject of the handlers and the four backends: what was answered with 200 is what *)
(* the key names, whole and with its own ETag, until another PUT or a DELETE.          *)
THEOREM AckedIsStoredHolds == Spec => []AckedIsStored
BY Invariant, InvAckedIsStored, PTL

(* A key names the whole body of one PUT, but for a file that is being written, was   *)
(* left by a PUT that failed or by two at once, and a body that broke off on its way  *)
(* to the writer of GCS.                                                              *)
THEOREM StoredIsWholeHolds == Spec => []StoredIsWhole
BY Invariant, InvStoredIsWhole, PTL

(* GetObject: the bytes of an answer that ended well are those its ETag stands for, from *)
(* the first to the last byte of the range, and those of one that broke off a beginning  *)
(* of them, if nobody wrote the file and the two calls of GCS found the same object.      *)
THEOREM OneVersionHolds == Spec => []OneVersion
BY Invariant, InvOneVersion, PTL

(* A GET breaks off only if it was disturbed so, if reading the object failed, if it was *)
(* of a directory, or if the local backend announced too much because offset+length      *)
(* overflowed: never because a handler computed the length of a range wrongly.           *)
THEOREM BrokenForCauseHolds == Spec => []BrokenForCause
BY Invariant, InvBrokenForCause, PTL

(* DeleteObjects: a key that the answer does not report as an error does not name what it *)
(* named when the request came, whatever became of the keys before it.                    *)
THEOREM DeletedIsGoneHolds == Spec => []DeletedIsGone
BY Invariant, InvDeletedIsGone, PTL
=============================================================================
