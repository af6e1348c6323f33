---------------------------- MODULE ComposeTree ----------------------------
(***************************************************************************)
(* What Multipart has as one step on GCS: the completion of an upload.     *)
(* One composition takes a limited number of sources, so the gateway       *)
(* composes the parts, a chunk at a time, into temporary objects, these    *)
(* into others if they are still too many, and so on; at the end, or when  *)
(* something fails, it deletes the temporary objects level by level.  They *)
(* are named by the clock and nothing else, are all in one folder of the   *)
(* bucket, and no other call knows of them.  Meanwhile the parts may be    *)
(* deleted, by an abort or by the goroutine of another completion.         *)
(***************************************************************************)
EXTENDS Naturals, SequencesExt

CONSTANTS Uploads,      \* each for an object of its own, in one bucket of the provider
          Completions,  \* calls to complete one, by any process
          Limit,        \* the sources of one composition: 32
          MaxParts,     \* the parts an upload may have
          Ticks         \* how much a clock may go on between two temporary objects

ASSUME LimitAssumption == Limit \in Nat \ {0, 1}
ASSUME MaxPartsAssumption == MaxParts \in Nat
ASSUME TicksAssumption == Ticks \subseteq Nat \ {0}

VARIABLES sent,       \* the number of parts of each upload
          bucket,     \* the objects by name, each with the parts its bytes are of
          discarded,  \* uploads whose parts are being deleted
          call        \* the calls that have begun

\* History: calls that had an error of the provider, the client or the process;
\* calls that took a name another was using; temporary objects left with a cause.
VARIABLES faulty, collided, left

vars == <<sent, bucket, discarded, call, faulty, collided, left>>

Part(u, n) == <<"part", u, n>>
Temporary(i, time) == <<"tmp", i, time>>
Dest(u) == <<"key", u>>

PartKeys(u) == [n \in 1 .. sent[u] |-> Part(u, n)]

\* The temporary objects a call is to delete some time.
Names(q) == ToSet(q.made) \cup ToSet(q.outer)
-----------------------------------------------------------------------------
Init ==
  /\ sent \in [Uploads -> 1 .. MaxParts]
  /\ bucket = [x \in UNION {ToSet(PartKeys(u)) : u \in Uploads} |-> <<x>>]
  /\ discarded = {}
  /\ call = [c \in Completions |-> {}]
  /\ faulty = {} /\ collided = {} /\ left = {}

CompleteMultipartUpload(c, u) ==
  /\ call[c] = {}
  /\ call' = [call EXCEPT ![c] =
       {[up |-> u, pc |-> "compose", sources |-> PartKeys(u), at |-> 0,
         made |-> <<>>, outer |-> <<>>, time |-> 0, result |-> "none"]}]
  /\ UNCHANGED <<sent, bucket, discarded, faulty, collided, left>>

\* Mutant: the temporary objects are composed directly.
DirectOnceSplit(q) == Len(q.sources) <= Limit \/ q.outer # <<>>

\* composeTree: few enough for one composition, or the chunk at i of the loop.
Direct(q) == Len(q.sources) <= Limit

\* Mutant: the loop ends before a chunk that is not full.
AtEndOfFull(q) == q.at + 2 * Limit > Len(q.sources)

AtEnd(q) == q.at + Limit >= Len(q.sources)

Slice(q) ==
  IF Direct(q) THEN q.sources
  ELSE SubSeq(q.sources, q.at + 1, IF q.at + Limit > Len(q.sources) THEN Len(q.sources)
                                   ELSE q.at + Limit)

\* What the provider accepts, and what it makes of it.
Composable(slice) == Len(slice) \in 1 .. Limit /\ ToSet(slice) \subseteq DOMAIN bucket
Joined(slice) ==
  LET bytes[n \in 0 .. Len(slice)] == IF n = 0 THEN <<>> ELSE bytes[n - 1] \o bucket[slice[n]]
  IN bytes[Len(slice)]
Write(dest, slice) ==
  bucket' = [x \in DOMAIN bucket \cup {dest} |-> IF x = dest THEN Joined(slice) ELSE bucket[x]]

\* After a chunk, the next one; after the last, what was made of them is composed.
Advance(q, tmp, time) ==
  IF AtEnd(q)
  THEN [q EXCEPT !.sources = Append(q.made, tmp), !.at = 0, !.made = <<>>,
                 !.outer = Append(q.made, tmp) \o @, !.time = time]
  ELSE [q EXCEPT !.at = @ + Limit, !.made = Append(@, tmp), !.time = time]

Goto(c, q) == call' = [call EXCEPT ![c] = {q}]

\* Mutant: the error is returned at once.
UnwindOuter(q, result) == [q EXCEPT !.pc = "delete", !.made = <<>>, !.result = result]

\* The call ends what it composes, and goes on to delete: this level, then the outer ones.
Unwind(q, result) ==
  [q EXCEPT !.pc = "delete", !.made = <<>>, !.outer = q.made \o @, !.result = result]

Others(c, tmp) == {d \in Completions \ {c} : \E q \in call[d] : tmp \in Names(q)}

ComposeChunk(c, q) ==
  /\ q.pc = "compose"
  /\ ~Direct(q)
  /\ Composable(Slice(q))
  /\ \E tick \in Ticks :
       LET time == q.time + tick
           tmp == Temporary(q.at, time)
       IN /\ Write(tmp, Slice(q))
          /\ Goto(c, Advance(q, tmp, time))
          /\ collided' = IF Others(c, tmp) = {} THEN collided
                         ELSE collided \cup Others(c, tmp) \cup {c}
  /\ UNCHANGED <<sent, discarded, faulty, left>>

ComposeDest(c, q) ==
  /\ q.pc = "compose"
  /\ Direct(q)
  /\ Composable(Slice(q))
  /\ Write(Dest(q.up), Slice(q))
  /\ Goto(c, Unwind(q, "done"))
  /\ UNCHANGED <<sent, discarded, faulty, collided, left>>

\* Mutant: the composition is tried again until its sources are there.
RefusedRetries(c, q) ==
  /\ q.pc = "compose"
  /\ ~Composable(Slice(q))
  /\ UNCHANGED vars

Refused(c, q) ==
  /\ q.pc = "compose"
  /\ ~Composable(Slice(q))
  /\ Goto(c, Unwind(q, "failed"))
  /\ UNCHANGED <<sent, bucket, discarded, faulty, collided, left>>
-----------------------------------------------------------------------------
\* deleteKeys, which ignores errors.
DeleteKey(c, q) ==
  /\ q.pc = "delete"
  /\ q.outer # <<>>
  /\ bucket' = [x \in DOMAIN bucket \ {Head(q.outer)} |-> bucket[x]]
  /\ Goto(c, [q EXCEPT !.outer = Tail(@)])
  /\ UNCHANGED <<sent, discarded, faulty, collided, left>>

DeleteLost(c, q) ==
  /\ q.pc = "delete"
  /\ q.outer # <<>>
  /\ left' = left \cup {Head(q.outer)}
  /\ Goto(c, [q EXCEPT !.outer = Tail(@)])
  /\ UNCHANGED <<sent, bucket, discarded, faulty, collided>>

\* With the composition done a goroutine deletes the parts.  What is answered hangs
\* on one more call, for the attributes of the object.
Return(c, q) ==
  /\ q.pc = "delete"
  /\ q.outer = <<>>
  /\ discarded' = IF q.result = "done" THEN discarded \cup {q.up} ELSE discarded
  /\ Goto(c, [q EXCEPT !.pc = "ended"])
  /\ UNCHANGED <<sent, bucket, faulty, collided, left>>

AttrsFail(c, q) ==
  /\ q.pc = "delete"
  /\ q.outer = <<>>
  /\ q.result = "done"
  /\ discarded' = discarded \cup {q.up}
  /\ faulty' = faulty \cup {c}
  /\ Goto(c, [q EXCEPT !.pc = "ended", !.result = "failed"])
  /\ UNCHANGED <<sent, bucket, collided, left>>
-----------------------------------------------------------------------------
\* A composition fails; or it is done, but the answer does not come.
ComposeFails(c, q) ==
  /\ q.pc = "compose"
  /\ Goto(c, Unwind(q, "failed"))
  /\ faulty' = faulty \cup {c}
  /\ UNCHANGED <<sent, bucket, discarded, collided, left>>

AnswerLost(c, q) ==
  /\ q.pc = "compose"
  /\ Composable(Slice(q))
  /\ \E tick \in Ticks :
       LET tmp == Temporary(q.at, q.time + tick)
       IN /\ Write(IF Direct(q) THEN Dest(q.up) ELSE tmp, Slice(q))
          /\ left' = IF Direct(q) THEN left ELSE left \cup {tmp}
          /\ collided' = IF Direct(q) \/ Others(c, tmp) = {} THEN collided
                         ELSE collided \cup Others(c, tmp) \cup {c}
  /\ Goto(c, Unwind(q, "failed"))
  /\ faulty' = faulty \cup {c}
  /\ UNCHANGED <<sent, discarded>>

\* The process stops.
Stop(c, q) ==
  /\ q.pc # "ended"
  /\ left' = left \cup Names(q)
  /\ faulty' = faulty \cup {c}
  /\ Goto(c, [q EXCEPT !.pc = "ended", !.made = <<>>, !.outer = <<>>, !.result = "failed"])
  /\ UNCHANGED <<sent, bucket, discarded, collided>>

\* The parts of an upload are deleted one by one.
AbortMultipartUpload(u) ==
  /\ discarded' = discarded \cup {u}
  /\ UNCHANGED <<sent, bucket, call, faulty, collided, left>>

DeletePart(u, n) ==
  /\ u \in discarded
  /\ Part(u, n) \in DOMAIN bucket
  /\ bucket' = [x \in DOMAIN bucket \ {Part(u, n)} |-> bucket[x]]
  /\ UNCHANGED <<sent, discarded, call, faulty, collided, left>>

Step(c) ==
  \E q \in call[c] :
    \/ ComposeChunk(c, q) \/ ComposeDest(c, q) \/ Refused(c, q)
    \/ DeleteKey(c, q) \/ Return(c, q)

Fault(c) ==
  \E q \in call[c] :
    \/ ComposeFails(c, q) \/ AnswerLost(c, q) \/ Stop(c, q)
    \/ DeleteLost(c, q) \/ AttrsFail(c, q)

Next ==
  \/ \E c \in Completions, u \in Uploads : CompleteMultipartUpload(c, u)
  \/ \E c \in Completions : Step(c) \/ Fault(c)
  \/ \E u \in Uploads : AbortMultipartUpload(u)
  \/ \E u \in Uploads, n \in 1 .. MaxParts : DeletePart(u, n)

\* A call goes on: every call to the provider is answered or fails.
Spec == Init /\ [][Next]_vars /\ \A c \in Completions : WF_vars(Step(c))
-----------------------------------------------------------------------------
PartNames == {Part(u, n) : u \in Uploads, n \in 1 .. MaxParts}
Temporaries == {"tmp"} \X Nat \X Nat
Dests == {Dest(u) : u \in Uploads}

Calls == [up : Uploads, pc : {"compose", "delete", "ended"}, sources : Seq(PartNames \cup Temporaries),
          at : Nat, made : Seq(Temporaries), outer : Seq(Temporaries), time : Nat,
          result : {"none", "done", "failed"}]

\* A call composes parts and temporary objects, and deletes only the latter.
TypeOK ==
  /\ sent \in [Uploads -> 1 .. MaxParts]
  /\ DOMAIN bucket \subseteq PartNames \cup Temporaries \cup Dests
  /\ discarded \subseteq Uploads
  /\ call \in [Completions -> SUBSET Calls]
  /\ faulty \subseteq Completions /\ collided \subseteq Completions
  /\ left \subseteq Temporaries

(***************************************************************************)
(* An object is all the parts of its upload, each once and in the order of *)
(* their numbers, or it is not there: however many levels the composition  *)
(* has, whatever fails half-way, is deleted meanwhile or is done by two    *)
(* calls at once; and a call that succeeds has stored it.  The exception   *)
(* is a call that took the name of another's temporary object, since the   *)
(* name is a position and a time of some clock.  (gcs.go: composeTree.)    *)
(***************************************************************************)
ObjectIsWhole ==
  \A u \in Uploads :
    \/ \E c \in collided : \E q \in call[c] : q.up = u
    \/ /\ Dest(u) \in DOMAIN bucket => bucket[Dest(u)] = PartKeys(u)
       /\ \A c \in Completions : \A q \in call[c] :
            q.up = u /\ q.result = "done" => Dest(u) \in DOMAIN bucket

(***************************************************************************)
(* A completion fails only because of an error, because its parts are      *)
(* being deleted or because of such a name: the provider never refuses a   *)
(* composition for its number of sources, with any number of parts, and no *)
(* temporary object is deleted before it was composed.  (composeTree:      *)
(* "handles > 32^2 = 1024 parts, etc.")                                    *)
(***************************************************************************)
FailsForCause ==
  \A c \in Completions \ (faulty \cup collided) : \A q \in call[c] :
    q.result = "failed" => q.up \in discarded

(***************************************************************************)
(* A temporary object is about to be deleted by its call, whichever way    *)
(* that ends, or was left for a cause: the deletion or the answer to its   *)
(* composition was lost, or the process stopped.  Those are left for good, *)
(* as abortion looks for parts only.  (gcs.go: composeTree, deleteKeys.)   *)
(***************************************************************************)
NothingLeftBehind ==
  \A x \in DOMAIN bucket \cap Temporaries :
    x \in left \/ \E c \in Completions : \E q \in call[c] : x \in Names(q)

(***************************************************************************)
(* A completion ends: every level has fewer sources than the one before,   *)
(* and nothing is waited for.  (gcs.go: composeTree calls itself.)         *)
(***************************************************************************)
CompletionEnds ==
  \A c \in Completions :
    (call[c] # {}) ~> (\E q \in call[c] : q.pc = "ended")
=============================================================================
