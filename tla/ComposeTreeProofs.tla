-------------------------- MODULE ComposeTreeProofs --------------------------
(***************************************************************************)
(* What holds of ComposeTree for any number of parts, uploads and calls,   *)
(* and any limit of at least two sources.                                  *)
(***************************************************************************)
EXTENDS ComposeTree, SequenceTheorems, WellFoundedInduction, TLAPS

(* A slot has one call, and one that composes has a chunk in front of it. *)
CallInv ==
  \A c \in Completions : \A q \in call[c] :
    /\ call[c] = {q}
    /\ q.pc = "compose" => q.at < Len(q.sources)

(* What a call composes are parts of its upload and what it has made. *)
SourceInv ==
  \A c \in Completions : \A q \in call[c] :
    q.pc = "compose" =>
      \A x \in ToSet(q.sources) : x \in Names(q) \/ \E n \in 1 .. MaxParts : x = Part(q.up, n)

(* Two calls have a name in common only if they have collided. *)
ApartInv ==
  \A c, d \in Completions : \A q \in call[c], p \in call[d] :
    c # d /\ Names(q) \cap Names(p) # {} => c \in collided

(* What a call is to compose is in the bucket, unless it is being deleted for a cause. *)
PresentInv ==
  \A c \in Completions \ (faulty \cup collided) : \A q \in call[c] :
    q.pc = "compose" =>
      /\ Names(q) \subseteq DOMAIN bucket
      /\ \A x \in ToSet(q.sources) : x \in DOMAIN bucket \/ q.up \in discarded
-----------------------------------------------------------------------------
(* What a sequence has after an Append. *)
LEMMA AppendSet ==
  ASSUME NEW S, NEW s \in Seq(S), NEW x \in S
  PROVE  /\ Append(s, x) \in Seq(S)
         /\ ToSet(Append(s, x)) = ToSet(s) \cup {x}
         /\ Len(Append(s, x)) = Len(s) + 1
<1>1. Append(s, x) \in Seq(S) /\ Len(Append(s, x)) = Len(s) + 1
  OBVIOUS
<1>2. /\ \A i \in DOMAIN s : Append(s, x)[i] = s[i] /\ i \in DOMAIN Append(s, x)
      /\ Append(s, x)[Len(s) + 1] = x /\ Len(s) + 1 \in DOMAIN Append(s, x)
      /\ \A i \in DOMAIN Append(s, x) : i \in DOMAIN s \/ i = Len(s) + 1
  OBVIOUS
<1>3. QED
  BY <1>1, <1>2 DEF ToSet

(* What two sequences have together. *)
LEMMA ConcatSet ==
  ASSUME NEW S, NEW s \in Seq(S), NEW t \in Seq(S)
  PROVE  /\ s \o t \in Seq(S)
         /\ ToSet(s \o t) = ToSet(s) \cup ToSet(t)
<1>1. s \o t \in Seq(S) /\ Len(s \o t) = Len(s) + Len(t)
  OBVIOUS
<1>2. /\ \A i \in DOMAIN s : (s \o t)[i] = s[i] /\ i \in DOMAIN (s \o t)
      /\ \A i \in DOMAIN t : (s \o t)[Len(s) + i] = t[i] /\ Len(s) + i \in DOMAIN (s \o t)
  OBVIOUS
<1>3. \A i \in DOMAIN (s \o t) :
        \/ i \in DOMAIN s /\ (s \o t)[i] = s[i]
        \/ i - Len(s) \in DOMAIN t /\ (s \o t)[i] = t[i - Len(s)]
  OBVIOUS
<1>4. \A x \in ToSet(s \o t) : x \in ToSet(s) \cup ToSet(t)
  BY <1>3 DEF ToSet
<1>5. \A x \in ToSet(s) : x \in ToSet(s \o t)
  BY <1>2 DEF ToSet
<1>6. \A x \in ToSet(t) : x \in ToSet(s \o t)
  BY <1>2 DEF ToSet
<1>7. QED
  BY <1>1, <1>4, <1>5, <1>6

(* What a sequence has is its head and what its tail has. *)
LEMMA TailSet ==
  ASSUME NEW S, NEW s \in Seq(S), s # <<>>
  PROVE  /\ Tail(s) \in Seq(S) /\ Head(s) \in S
         /\ ToSet(s) = ToSet(Tail(s)) \cup {Head(s)}
<1>1. Tail(s) \in Seq(S) /\ Head(s) \in S /\ Len(Tail(s)) = Len(s) - 1 /\ Len(s) > 0
  OBVIOUS
<1>2. /\ \A i \in DOMAIN Tail(s) : Tail(s)[i] = s[i + 1] /\ i + 1 \in DOMAIN s
      /\ Head(s) = s[1] /\ 1 \in DOMAIN s
      /\ \A i \in DOMAIN s : i = 1 \/ (i - 1 \in DOMAIN Tail(s) /\ s[i] = Tail(s)[i - 1])
  BY <1>1
<1>3. QED
  BY <1>1, <1>2 DEF ToSet

(* A sequence of some set has members of it only. *)
LEMMA SetOfSeq ==
  ASSUME NEW S, NEW s \in Seq(S)
  PROVE  ToSet(s) \subseteq S
  BY DEF ToSet

(* The names of temporary objects are no names of parts. *)
LEMMA NamesApart ==
  /\ Temporaries \cap PartNames = {}
  /\ Temporaries \cap Dests = {} /\ PartNames \cap Dests = {}
  /\ \A i, time \in Nat : Temporary(i, time) \in Temporaries
  /\ \A u, v \in Uploads, n, m \in 1 .. MaxParts : Part(u, n) = Part(v, m) => u = v
  BY DEF Temporaries, PartNames, Dests, Temporary, Part, Dest
-----------------------------------------------------------------------------
(* The call in a slot, when it is replaced. *)
LEMMA GotoEffect ==
  ASSUME TypeOK, NEW c \in Completions, NEW p \in Calls, Goto(c, p)
  PROVE  /\ call' \in [Completions -> SUBSET Calls]
         /\ call'[c] = {p}
         /\ \A d \in Completions \ {c} : call'[d] = call[d]
  BY DEF TypeOK, Goto

(* A call that has made a temporary object has a chunk in front of it again. *)
LEMMA AdvanceEffect ==
  ASSUME NEW q \in Calls, NEW tmp \in Temporaries, NEW time \in Nat, q.pc = "compose"
  PROVE  LET p == Advance(q, tmp, time)
         IN /\ p \in Calls
            /\ Names(p) = Names(q) \cup {tmp}
            /\ p.up = q.up /\ p.pc = "compose" /\ p.result = q.result
            /\ p.at < Len(p.sources)
            /\ p.sources = q.sources \/ ToSet(p.sources) \subseteq Names(p)
<1> DEFINE p == Advance(q, tmp, time)
           more == Append(q.made, tmp)
           all == more \o q.outer
<1>1. /\ q.made \in Seq(Temporaries) /\ q.outer \in Seq(Temporaries)
      /\ q.sources \in Seq(PartNames \cup Temporaries) /\ q.at \in Nat
  BY DEF Calls
<1>2. /\ more \in Seq(Temporaries) /\ more \in Seq(PartNames \cup Temporaries)
      /\ ToSet(more) = ToSet(q.made) \cup {tmp}
      /\ Len(more) > 0
  <2>1. Len(q.made) \in Nat
    BY <1>1
  <2>2. /\ more \in Seq(Temporaries) /\ ToSet(more) = ToSet(q.made) \cup {tmp}
        /\ Len(more) = Len(q.made) + 1
    BY <1>1, AppendSet
  <2>3. more \in Seq(PartNames \cup Temporaries)
    <3> HIDE DEF more
    <3>1. QED
      BY <2>2
  <2>4. QED
    BY <2>1, <2>2, <2>3
<1>3. CASE AtEnd(q)
  <2>1. p = [q EXCEPT !.sources = more, !.at = 0, !.made = <<>>, !.outer = all, !.time = time]
    BY <1>3 DEF Advance
  <2> HIDE DEF p, more
  <2>2. all \in Seq(Temporaries) /\ ToSet(all) = ToSet(more) \cup ToSet(q.outer)
    BY <1>1, <1>2, ConcatSet
  <2>3. <<>> \in Seq(Temporaries)
    OBVIOUS
  <2> HIDE DEF all
  <2>4. /\ p.sources = more /\ p.at = 0 /\ p.made = <<>> /\ p.outer = all
        /\ p.up = q.up /\ p.pc = "compose" /\ p.result = q.result
    BY <2>1 DEF Calls
  <2>5. p \in Calls
    BY <1>2, <2>1, <2>2, <2>3 DEF Calls
  <2>6. ToSet(<<>>) = {}
    BY DEF ToSet
  <2>7. Names(p) = Names(q) \cup {tmp} /\ ToSet(p.sources) \subseteq Names(p)
    BY <1>2, <2>2, <2>4, <2>6 DEF Names
  <2>8. p.at < Len(p.sources)
    BY <1>2, <2>4
  <2>9. QED
    BY <2>4, <2>5, <2>7, <2>8 DEF p
<1>4. CASE ~AtEnd(q)
  <2>1. p = [q EXCEPT !.at = q.at + Limit, !.made = more, !.time = time]
    BY <1>4 DEF Advance
  <2> HIDE DEF p, more
  <2>2. q.at + Limit \in Nat /\ q.at + Limit < Len(q.sources)
    BY <1>1, <1>4, LimitAssumption DEF AtEnd
  <2>3. /\ p.sources = q.sources /\ p.at = q.at + Limit /\ p.made = more
        /\ p.outer = q.outer /\ p.up = q.up /\ p.pc = "compose" /\ p.result = q.result
    BY <2>1 DEF Calls
  <2>4. p \in Calls
    BY <1>2, <2>1, <2>2 DEF Calls
  <2>5. QED
    BY <1>2, <2>2, <2>3, <2>4 DEF Names, p
<1>5. QED
  BY <1>3, <1>4

(* A call that goes on to delete has to delete all it has made. *)
LEMMA UnwindEffect ==
  ASSUME NEW q \in Calls, NEW result \in {"done", "failed"}
  PROVE  LET p == Unwind(q, result)
         IN /\ p \in Calls
            /\ Names(p) = Names(q)
            /\ p.up = q.up /\ p.pc = "delete" /\ p.result = result
<1>1. /\ q.made \o q.outer \in Seq(Temporaries)
      /\ ToSet(q.made \o q.outer) = Names(q)
  BY ConcatSet DEF Calls, Names
<1>2. ToSet(<<>>) = {} /\ <<>> \in Seq(Temporaries)
  BY DEF ToSet
<1>3. QED
  BY <1>1, <1>2 DEF Unwind, Calls, Names

(* One that has deleted a temporary object, or tried to, has one less. *)
LEMMA NextKeyEffect ==
  ASSUME NEW q \in Calls, q.outer # <<>>
  PROVE  LET p == [q EXCEPT !.outer = Tail(@)]
         IN /\ p \in Calls
            /\ Names(q) = Names(p) \cup {Head(q.outer)} /\ Head(q.outer) \in Temporaries
            /\ p.up = q.up /\ p.pc = q.pc /\ p.result = q.result
  BY TailSet DEF Calls, Names

(* One that ends may have names left only if it keeps them. *)
LEMMA EndEffect ==
  ASSUME NEW q \in Calls, NEW result \in {"none", "done", "failed"}
  PROVE  LET p == [q EXCEPT !.pc = "ended", !.result = result]
             s == [q EXCEPT !.pc = "ended", !.made = <<>>, !.outer = <<>>, !.result = result]
         IN /\ p \in Calls /\ Names(p) = Names(q)
            /\ p.up = q.up /\ p.pc = "ended" /\ p.result = result
            /\ s \in Calls /\ Names(s) = {}
            /\ s.up = q.up /\ s.pc = "ended" /\ s.result = result
<1>1. ToSet(<<>>) = {} /\ <<>> \in Seq(Temporaries)
  BY DEF ToSet
<1>2. QED
  BY <1>1 DEF Calls, Names
-----------------------------------------------------------------------------
(***************************************************************************)
(* What the steps of a call come to: it makes a temporary object and goes  *)
(* on to compose, goes on to delete, or deletes something or ends.         *)
(***************************************************************************)
Onward(c, q, p) ==
  /\ p \in Calls /\ p.up = q.up
  /\ call' \in [Completions -> SUBSET Calls] /\ call'[c] = {p}
  /\ \A d \in Completions \ {c} : call'[d] = call[d]
  /\ sent' = sent
  /\ discarded \subseteq discarded' /\ discarded' \subseteq Uploads
  /\ faulty \subseteq faulty' /\ faulty' \subseteq Completions
  /\ collided \subseteq collided' /\ collided' \subseteq Completions
  /\ left \subseteq left' /\ left' \subseteq Temporaries

Makes(c, q, p) ==
  /\ q.pc = "compose" /\ p.pc = "compose" /\ p.result = q.result
  /\ p.at < Len(p.sources)
  /\ p.sources = q.sources \/ ToSet(p.sources) \subseteq Names(p)
  /\ \E tmp \in Temporaries :
       /\ Names(p) = Names(q) \cup {tmp}
       /\ DOMAIN bucket' = DOMAIN bucket \cup {tmp}
       /\ Others(c, tmp) = {} \/ Others(c, tmp) \cup {c} \subseteq collided'

Unwinds(c, q, p) ==
  /\ q.pc = "compose" /\ p.pc = "delete" /\ Names(p) = Names(q)
  /\ DOMAIN bucket \subseteq DOMAIN bucket'
  /\ DOMAIN bucket' \subseteq DOMAIN bucket \cup Dests \cup left'
  /\ p.result = "failed" => c \in faulty' \/ ~Composable(Slice(q))

Deletes(c, q, p) ==
  /\ p.pc # "compose" /\ Names(p) \subseteq Names(q)
  /\ DOMAIN bucket' \subseteq DOMAIN bucket
  /\ DOMAIN bucket \subseteq DOMAIN bucket' \cup Names(q)
  /\ \A x \in Names(q) \ Names(p) : x \in left' \/ x \notin DOMAIN bucket'
  /\ p.result = "failed" => c \in faulty' \/ q.result = "failed"

(* An object that is written is there, and no other comes or goes. *)
LEMMA WriteEffect ==
  ASSUME NEW dest, NEW slice, Write(dest, slice)
  PROVE  DOMAIN bucket' = DOMAIN bucket \cup {dest}
  BY DEF Write

(* Every temporary object has a name of its kind. *)
LEMMA TickEffect ==
  ASSUME NEW q \in Calls, NEW tick \in Ticks
  PROVE  q.time + tick \in Nat /\ Temporary(q.at, q.time + tick) \in Temporaries
<1>1. q.time \in Nat /\ q.at \in Nat
  BY DEF Calls
<1>2. q.time + tick \in Nat
  BY <1>1, TicksAssumption
<1>3. QED
  BY <1>1, <1>2, NamesApart

(* A step of a call is one of the three. *)
LEMMA StepCases ==
  ASSUME TypeOK, NEW c \in Completions, NEW q \in call[c],
         \/ ComposeChunk(c, q) \/ ComposeDest(c, q) \/ Refused(c, q)
         \/ DeleteKey(c, q) \/ Return(c, q)
         \/ ComposeFails(c, q) \/ AnswerLost(c, q) \/ Stop(c, q)
         \/ DeleteLost(c, q) \/ AttrsFail(c, q)
  PROVE  \E p : Onward(c, q, p) /\ (Makes(c, q, p) \/ Unwinds(c, q, p) \/ Deletes(c, q, p))
<1>1. q \in Calls /\ q.up \in Uploads /\ Names(q) \subseteq Temporaries
  BY SetOfSeq DEF TypeOK, Calls, Names
<1>2. CASE ComposeChunk(c, q)
  <2>1. PICK tick \in Ticks :
          LET time == q.time + tick
              tmp == Temporary(q.at, time)
          IN /\ Write(tmp, Slice(q))
             /\ Goto(c, Advance(q, tmp, time))
             /\ collided' = IF Others(c, tmp) = {} THEN collided
                            ELSE collided \cup Others(c, tmp) \cup {c}
    BY <1>2 DEF ComposeChunk
  <2> DEFINE time == q.time + tick
             tmp == Temporary(q.at, time)
             p == Advance(q, tmp, time)
  <2>2. time \in Nat /\ tmp \in Temporaries
    BY <1>1, TickEffect
  <2>3. q.pc = "compose" /\ UNCHANGED <<sent, discarded, faulty, left>>
    BY <1>2 DEF ComposeChunk
  <2>4. /\ p \in Calls /\ Names(p) = Names(q) \cup {tmp}
        /\ p.up = q.up /\ p.pc = "compose" /\ p.result = q.result
        /\ p.at < Len(p.sources)
        /\ p.sources = q.sources \/ ToSet(p.sources) \subseteq Names(p)
    <3> HIDE DEF time, tmp
    <3>1. QED
      BY <1>1, <2>2, <2>3, AdvanceEffect
  <2>5. DOMAIN bucket' = DOMAIN bucket \cup {tmp}
    BY <2>1, WriteEffect
  <2>6. collided' = IF Others(c, tmp) = {} THEN collided ELSE collided \cup Others(c, tmp) \cup {c}
    BY <2>1
  <2>7. Goto(c, p)
    BY <2>1
  <2> HIDE DEF p, tmp, time
  <2>8. Onward(c, q, p)
    BY <2>3, <2>4, <2>6, <2>7, GotoEffect DEF Onward, TypeOK, Others
  <2>9. Makes(c, q, p)
    BY <2>2, <2>3, <2>4, <2>5, <2>6 DEF Makes
  <2>10. QED
    BY <2>8, <2>9
<1>3. CASE ComposeDest(c, q)
  <2> DEFINE p == Unwind(q, "done")
  <2>1. Goto(c, p) /\ q.pc = "compose" /\ UNCHANGED <<sent, discarded, faulty, collided, left>>
    BY <1>3 DEF ComposeDest
  <2>2. p \in Calls /\ Names(p) = Names(q) /\ p.up = q.up /\ p.pc = "delete" /\ p.result = "done"
    BY <1>1, UnwindEffect
  <2>3. DOMAIN bucket' = DOMAIN bucket \cup {Dest(q.up)} /\ Dest(q.up) \in Dests
    BY <1>1, <1>3, WriteEffect DEF ComposeDest, Dests
  <2> HIDE DEF p
  <2>4. Onward(c, q, p) /\ Unwinds(c, q, p)
    BY <2>1, <2>2, <2>3, GotoEffect DEF Onward, Unwinds, TypeOK
  <2>5. QED
    BY <2>4
<1>4. CASE Refused(c, q) \/ ComposeFails(c, q)
  <2> DEFINE p == Unwind(q, "failed")
  <2>1. /\ Goto(c, p) /\ q.pc = "compose" /\ UNCHANGED <<sent, bucket, discarded, collided, left>>
        /\ (faulty' = faulty /\ ~Composable(Slice(q))) \/ faulty' = faulty \cup {c}
    BY <1>4 DEF Refused, ComposeFails
  <2>2. p \in Calls /\ Names(p) = Names(q) /\ p.up = q.up /\ p.pc = "delete"
    BY <1>1, UnwindEffect
  <2> HIDE DEF p
  <2>3. Onward(c, q, p) /\ Unwinds(c, q, p)
    BY <2>1, <2>2, GotoEffect DEF Onward, Unwinds, TypeOK
  <2>4. QED
    BY <2>3
<1>5. CASE AnswerLost(c, q)
  <2> DEFINE p == Unwind(q, "failed")
  <2>1. PICK tick \in Ticks :
          LET tmp == Temporary(q.at, q.time + tick)
          IN /\ Write(IF Direct(q) THEN Dest(q.up) ELSE tmp, Slice(q))
             /\ left' = IF Direct(q) THEN left ELSE left \cup {tmp}
             /\ collided' = IF Direct(q) \/ Others(c, tmp) = {} THEN collided
                            ELSE collided \cup Others(c, tmp) \cup {c}
    BY <1>5 DEF AnswerLost
  <2> DEFINE tmp == Temporary(q.at, q.time + tick)
  <2>2. tmp \in Temporaries
    BY <1>1, TickEffect
  <2>3. Goto(c, p) /\ q.pc = "compose" /\ faulty' = faulty \cup {c} /\ UNCHANGED <<sent, discarded>>
    BY <1>5 DEF AnswerLost
  <2>4. p \in Calls /\ Names(p) = Names(q) /\ p.up = q.up /\ p.pc = "delete"
    BY <1>1, UnwindEffect
  <2>5. DOMAIN bucket' = DOMAIN bucket \cup {IF Direct(q) THEN Dest(q.up) ELSE tmp}
    BY <2>1, WriteEffect
  <2>6. /\ left' = IF Direct(q) THEN left ELSE left \cup {tmp}
        /\ collided' = IF Direct(q) \/ Others(c, tmp) = {} THEN collided
                       ELSE collided \cup Others(c, tmp) \cup {c}
    BY <2>1
  <2> HIDE DEF p, tmp
  <2>7. Onward(c, q, p)
    BY <2>2, <2>3, <2>4, <2>6, GotoEffect DEF Onward, TypeOK, Others
  <2>8. Unwinds(c, q, p)
    BY <1>1, <2>3, <2>4, <2>5, <2>6 DEF Unwinds, Dests
  <2>9. QED
    BY <2>7, <2>8
<1>6. CASE DeleteKey(c, q) \/ DeleteLost(c, q)
  <2> DEFINE p == [q EXCEPT !.outer = Tail(@)]
             x == Head(q.outer)
  <2>1. /\ Goto(c, p) /\ q.pc = "delete" /\ UNCHANGED <<sent, discarded, faulty, collided>>
        /\ \/ DOMAIN bucket' = DOMAIN bucket \ {x} /\ left' = left
           \/ DOMAIN bucket' = DOMAIN bucket /\ left' = left \cup {x}
    BY <1>6 DEF DeleteKey, DeleteLost
  <2>2. /\ p \in Calls /\ Names(q) = Names(p) \cup {x} /\ x \in Temporaries
        /\ p.up = q.up /\ p.pc = q.pc /\ p.result = q.result
    BY <1>1, <1>6, NextKeyEffect DEF DeleteKey, DeleteLost
  <2> HIDE DEF p, x
  <2>3. Onward(c, q, p) /\ Deletes(c, q, p)
    BY <2>1, <2>2, GotoEffect DEF Onward, Deletes, TypeOK
  <2>4. QED
    BY <2>3
<1>7. CASE Return(c, q) \/ AttrsFail(c, q)
  <2>1. PICK result \in {"none", "done", "failed"} :
          /\ Goto(c, [q EXCEPT !.pc = "ended", !.result = result])
          /\ (result = q.result /\ faulty' = faulty) \/ faulty' = faulty \cup {c}
    <3>1. CASE Return(c, q)
      <4>1. [q EXCEPT !.pc = "ended"] = [q EXCEPT !.pc = "ended", !.result = q.result]
            /\ q.result \in {"none", "done", "failed"}
        BY <1>1 DEF Calls
      <4>2. QED
        BY <3>1, <4>1 DEF Return
    <3>2. QED
      BY <1>7, <3>1 DEF AttrsFail
  <2> DEFINE p == [q EXCEPT !.pc = "ended", !.result = result]
  <2>2. p \in Calls /\ Names(p) = Names(q) /\ p.up = q.up /\ p.pc = "ended" /\ p.result = result
    BY <1>1, EndEffect
  <2>3. /\ UNCHANGED <<sent, bucket, collided, left>>
        /\ discarded' = discarded \/ discarded' = discarded \cup {q.up}
    BY <1>7 DEF Return, AttrsFail
  <2>4. Goto(c, p)
    BY <2>1
  <2> HIDE DEF p
  <2>5. Onward(c, q, p) /\ Deletes(c, q, p)
    BY <1>1, <2>1, <2>2, <2>3, <2>4, GotoEffect DEF Onward, Deletes, TypeOK
  <2>6. QED
    BY <2>5
<1>8. CASE Stop(c, q)
  <2> DEFINE p == [q EXCEPT !.pc = "ended", !.made = <<>>, !.outer = <<>>, !.result = "failed"]
  <2>1. /\ Goto(c, p) /\ left' = left \cup Names(q) /\ faulty' = faulty \cup {c}
        /\ UNCHANGED <<sent, bucket, discarded, collided>>
    BY <1>8 DEF Stop
  <2>2. p \in Calls /\ Names(p) = {} /\ p.up = q.up /\ p.pc = "ended"
    BY <1>1, EndEffect
  <2> HIDE DEF p
  <2>3. Onward(c, q, p) /\ Deletes(c, q, p)
    BY <1>1, <2>1, <2>2, GotoEffect DEF Onward, Deletes, TypeOK
  <2>4. QED
    BY <2>3
<1>9. QED
  BY <1>2, <1>3, <1>4, <1>5, <1>6, <1>7, <1>8
-----------------------------------------------------------------------------
(* A call that begins has parts to compose, and has made nothing. *)
LEMMA BeginEffect ==
  ASSUME TypeOK, NEW c \in Completions, NEW u \in Uploads, CompleteMultipartUpload(c, u)
  PROVE  \E p \in Calls :
           /\ call' \in [Completions -> SUBSET Calls] /\ call'[c] = {p}
           /\ \A d \in Completions \ {c} : call'[d] = call[d]
           /\ p.up = u /\ p.result = "none" /\ Names(p) = {}
           /\ p.at < Len(p.sources)
           /\ \A x \in ToSet(p.sources) : \E n \in 1 .. sent[u] : x = Part(u, n)
<1> DEFINE p == [up |-> u, pc |-> "compose", sources |-> PartKeys(u), at |-> 0,
                 made |-> <<>>, outer |-> <<>>, time |-> 0, result |-> "none"]
           keys == PartKeys(u)
<1>1. sent[u] \in 1 .. MaxParts /\ \A n \in 1 .. sent[u] : Part(u, n) \in PartNames
  BY MaxPartsAssumption DEF TypeOK, PartNames
<1>2. /\ keys \in Seq(PartNames \cup Temporaries) /\ Len(keys) = sent[u]
      /\ DOMAIN keys = 1 .. sent[u] /\ \A n \in 1 .. sent[u] : keys[n] = Part(u, n)
  BY <1>1 DEF PartKeys
<1>3. ToSet(<<>>) = {} /\ <<>> \in Seq(Temporaries)
  BY DEF ToSet
<1>4. \A x \in ToSet(keys) : \E n \in 1 .. sent[u] : x = Part(u, n)
  BY <1>2 DEF ToSet
<1> HIDE DEF keys
<1>5. p = [up |-> u, pc |-> "compose", sources |-> keys, at |-> 0,
           made |-> <<>>, outer |-> <<>>, time |-> 0, result |-> "none"]
  BY DEF keys
<1>6. p \in Calls
  BY <1>2, <1>3, <1>5 DEF Calls
<1>7. p.sources = keys /\ p.at = 0 /\ p.up = u /\ p.result = "none" /\ Names(p) = {}
  BY <1>3, <1>5 DEF Names
<1>8. Goto(c, p)
  BY DEF CompleteMultipartUpload, Goto
<1> HIDE DEF p
<1>9. p.at < Len(p.sources)
  BY <1>1, <1>2, <1>7, MaxPartsAssumption
<1>10. QED
  BY <1>4, <1>6, <1>7, <1>8, <1>9, GotoEffect

(***************************************************************************)
(* The elements after position at, up to and including end.                *)
(***************************************************************************)
LEMMA SubSeqFrom ==
  ASSUME NEW S, NEW s \in Seq(S), NEW at \in Nat, NEW end \in Nat,
         at + 1 <= end, end <= Len(s)
  PROVE  /\ Len(SubSeq(s, at + 1, end)) = end - at
         /\ DOMAIN SubSeq(s, at + 1, end) = 1 .. (end - at)
         /\ \A i \in 1 .. (end - at) :
              SubSeq(s, at + 1, end)[i] = s[at + i] /\ at + i \in DOMAIN s
<1>1. \A i \in (at + 1) .. end : s[i] \in S
  OBVIOUS
<1>2. /\ SubSeq(s, at + 1, end) \in Seq(S)
      /\ Len(SubSeq(s, at + 1, end)) = IF at + 1 <= end THEN end - (at + 1) + 1 ELSE 0
      /\ \A i \in 1 .. (end - (at + 1) + 1) : SubSeq(s, at + 1, end)[i] = s[at + 1 + i - 1]
  BY <1>1, SubSeqProperties
<1>3. end - (at + 1) + 1 = end - at /\ \A i \in Int : at + 1 + i - 1 = at + i
  OBVIOUS
<1>4. QED
  BY <1>2, <1>3

(* The sources of a chunk. *)
EndOf(q) == IF q.at + Limit > Len(q.sources) THEN Len(q.sources) ELSE q.at + Limit

LEMMA SliceElements ==
  ASSUME NEW q \in Calls, q.at < Len(q.sources), ~Direct(q)
  PROVE  /\ EndOf(q) \in Nat /\ q.at \in Nat /\ q.at + 1 <= EndOf(q) /\ EndOf(q) <= Len(q.sources)
         /\ EndOf(q) - q.at <= Limit
         /\ IF AtEnd(q) THEN EndOf(q) = Len(q.sources) ELSE EndOf(q) = q.at + Limit
         /\ Len(Slice(q)) = EndOf(q) - q.at /\ DOMAIN Slice(q) = 1 .. (EndOf(q) - q.at)
         /\ \A i \in 1 .. (EndOf(q) - q.at) :
              Slice(q)[i] = q.sources[q.at + i] /\ q.at + i \in DOMAIN q.sources
<1> DEFINE s == q.sources
           end == EndOf(q)
<1>1. s \in Seq(PartNames \cup Temporaries) /\ Len(s) \in Nat /\ q.at \in Nat
      /\ Limit \in Nat /\ Limit > 1
  BY LimitAssumption DEF Calls
<1>2. Slice(q) = SubSeq(s, q.at + 1, end)
  BY DEF Slice, EndOf
<1>3. end \in Nat /\ q.at + 1 <= end /\ end <= Len(s) /\ end - q.at <= Limit
  BY <1>1 DEF EndOf
<1>4. IF AtEnd(q) THEN end = Len(s) ELSE end = q.at + Limit
  BY <1>1 DEF EndOf, AtEnd
<1> HIDE DEF end
<1>5. /\ Len(SubSeq(s, q.at + 1, end)) = end - q.at
      /\ DOMAIN SubSeq(s, q.at + 1, end) = 1 .. (end - q.at)
      /\ \A i \in 1 .. (end - q.at) :
           SubSeq(s, q.at + 1, end)[i] = s[q.at + i] /\ q.at + i \in DOMAIN s
  <2> DEFINE S == PartNames \cup Temporaries
             at == q.at
  <2>1. s \in Seq(S) /\ at \in Nat /\ end \in Nat /\ at + 1 <= end /\ end <= Len(s)
    BY <1>1, <1>3
  <2> HIDE DEF s, S, at
  <2>2. /\ Len(SubSeq(s, at + 1, end)) = end - at
        /\ DOMAIN SubSeq(s, at + 1, end) = 1 .. (end - at)
        /\ \A i \in 1 .. (end - at) :
             SubSeq(s, at + 1, end)[i] = s[at + i] /\ at + i \in DOMAIN s
    BY ONLY <2>1, SubSeqFrom
  <2>3. QED
    BY <2>2 DEF s, at
<1>6. QED
  BY <1>1, <1>2, <1>3, <1>4, <1>5 DEF end

(***************************************************************************)
(* A chunk, or what is left for the end, is of as many sources as one      *)
(* composition may have, and of at least one.                              *)
(***************************************************************************)
LEMMA SliceFits ==
  ASSUME NEW q \in Calls, q.at < Len(q.sources)
  PROVE  Len(Slice(q)) \in 1 .. Limit /\ ToSet(Slice(q)) \subseteq ToSet(q.sources)
<1> DEFINE s == q.sources
<1>1. s \in Seq(PartNames \cup Temporaries) /\ Len(s) \in Nat /\ q.at \in Nat
      /\ Limit \in Nat /\ Limit > 1
  BY LimitAssumption DEF Calls
<1>2. CASE Direct(q)
  BY <1>1, <1>2 DEF Direct, Slice
<1>3. CASE ~Direct(q)
  <2> DEFINE end == EndOf(q)
  <2>2. end \in Nat /\ q.at + 1 <= end /\ end <= Len(s) /\ end - q.at <= Limit
    BY <1>3, SliceElements
  <2>3. /\ Len(Slice(q)) = end - q.at /\ DOMAIN Slice(q) = 1 .. (end - q.at)
        /\ \A i \in 1 .. (end - q.at) : Slice(q)[i] = s[q.at + i] /\ q.at + i \in DOMAIN s
    BY <1>3, SliceElements
  <2> HIDE DEF end
  <2>4. QED
    BY <1>1, <2>2, <2>3 DEF ToSet
<1>4. QED
  BY <1>2, <1>3

(* Parts are deleted only of uploads that are discarded, and otherwise are there. *)
PartsInv ==
  \A u \in Uploads \ discarded : \A n \in 1 .. sent[u] : Part(u, n) \in DOMAIN bucket

Inv ==
  /\ CallInv /\ SourceInv /\ ApartInv /\ PartsInv /\ PresentInv
  /\ FailsForCause /\ NothingLeftBehind

(***************************************************************************)
(* Every variable of the model keeps its type.                             *)
(***************************************************************************)
THEOREM TypeCorrect == Spec => []TypeOK
<1>1. Init => TypeOK
  <2>1. ASSUME NEW u \in Uploads, sent \in [Uploads -> 1 .. MaxParts]
        PROVE  ToSet(PartKeys(u)) \subseteq PartNames
    <3>1. sent[u] \in 1 .. MaxParts
      BY <2>1
    <3>2. \A n \in 1 .. sent[u] : Part(u, n) \in PartNames
      BY <3>1, MaxPartsAssumption DEF PartNames
    <3>3. QED
      BY <3>2 DEF PartKeys, ToSet
  <2>2. QED
    BY <2>1 DEF Init, TypeOK
<1>2. TypeOK /\ [Next]_vars => TypeOK'
  <2> SUFFICES ASSUME TypeOK, [Next]_vars PROVE TypeOK'
    OBVIOUS
  <2>1. ASSUME NEW c \in Completions, NEW u \in Uploads, CompleteMultipartUpload(c, u)
        PROVE  TypeOK'
    <3>1. call' \in [Completions -> SUBSET Calls]
      BY <2>1, BeginEffect
    <3>2. QED
      BY <2>1, <3>1 DEF CompleteMultipartUpload, TypeOK
  <2>2. ASSUME NEW c \in Completions, Step(c) \/ Fault(c) PROVE TypeOK'
    <3>1. PICK q \in call[c] : \E p :
            Onward(c, q, p) /\ (Makes(c, q, p) \/ Unwinds(c, q, p) \/ Deletes(c, q, p))
      BY <2>2, StepCases DEF Step, Fault
    <3>2. PICK p : Onward(c, q, p) /\ (Makes(c, q, p) \/ Unwinds(c, q, p) \/ Deletes(c, q, p))
      BY <3>1
    <3>3. DOMAIN bucket' \subseteq PartNames \cup Temporaries \cup Dests
      BY <3>2 DEF Makes, Unwinds, Deletes, Onward, TypeOK
    <3>4. QED
      BY <3>2, <3>3 DEF Onward, TypeOK
  <2>3. ASSUME NEW u \in Uploads, AbortMultipartUpload(u) PROVE TypeOK'
    BY <2>3 DEF AbortMultipartUpload, TypeOK
  <2>4. ASSUME NEW u \in Uploads, NEW n \in 1 .. MaxParts, DeletePart(u, n) PROVE TypeOK'
    BY <2>4 DEF DeletePart, TypeOK
  <2>5. CASE UNCHANGED vars
    BY <2>5 DEF vars, TypeOK
  <2>6. QED
    BY <2>1, <2>2, <2>3, <2>4, <2>5 DEF Next
<1>3. QED
  BY <1>1, <1>2, PTL DEF Spec
-----------------------------------------------------------------------------
(* What a call composes, and what it is to delete, is of these kinds. *)
LEMMA SourceKinds ==
  ASSUME TypeOK, NEW c \in Completions, NEW q \in call[c]
  PROVE  q \in Calls /\ q.up \in Uploads /\ Names(q) \subseteq Temporaries
  BY SetOfSeq DEF TypeOK, Calls, Names

(* The invariant holds when a call has begun. *)
LEMMA InvBegins ==
  ASSUME TypeOK, Inv, NEW c \in Completions, NEW u \in Uploads, CompleteMultipartUpload(c, u)
  PROVE  Inv'
<1>1. PICK p \in Calls :
        /\ call' \in [Completions -> SUBSET Calls] /\ call'[c] = {p}
        /\ \A d \in Completions \ {c} : call'[d] = call[d]
        /\ p.up = u /\ p.result = "none" /\ Names(p) = {}
        /\ p.at < Len(p.sources)
        /\ \A x \in ToSet(p.sources) : \E n \in 1 .. sent[u] : x = Part(u, n)
  BY BeginEffect
<1>2. UNCHANGED <<sent, bucket, discarded, faulty, collided, left>> /\ call[c] = {}
  BY DEF CompleteMultipartUpload
<1>3. \A n \in 1 .. sent[u] : n \in 1 .. MaxParts
  BY MaxPartsAssumption DEF TypeOK
<1>4. CallInv' /\ SourceInv'
  BY <1>1, <1>3 DEF Inv, CallInv, SourceInv
<1>5. ApartInv'
  BY <1>1, <1>2 DEF Inv, ApartInv
<1>6. PartsInv'
  BY <1>2 DEF Inv, PartsInv
<1>7. PresentInv'
  BY <1>1, <1>2 DEF Inv, PresentInv, PartsInv
<1>8. FailsForCause'
  BY <1>1, <1>2 DEF Inv, FailsForCause
<1>9. NothingLeftBehind'
  BY <1>1, <1>2 DEF Inv, NothingLeftBehind
<1>10. QED
  BY <1>4, <1>5, <1>6, <1>7, <1>8, <1>9 DEF Inv

(* Every step of a call preserves it. *)
LEMMA InvStep ==
  ASSUME TypeOK, Inv, NEW c \in Completions, NEW q \in call[c], NEW p, Onward(c, q, p),
         Makes(c, q, p) \/ Unwinds(c, q, p) \/ Deletes(c, q, p)
  PROVE  Inv'
<1>1. q \in Calls /\ q.up \in Uploads /\ Names(q) \subseteq Temporaries
  BY SourceKinds
<1>2. /\ p.up = q.up /\ call'[c] = {p} /\ \A d \in Completions \ {c} : call'[d] = call[d]
      /\ sent' = sent /\ discarded \subseteq discarded' /\ faulty \subseteq faulty'
      /\ collided \subseteq collided' /\ left \subseteq left'
  BY DEF Onward
<1>3. CallInv'
  BY <1>2 DEF Inv, CallInv, Makes, Unwinds, Deletes
<1>4. SourceInv'
  <2>1. p.pc = "compose" =>
          \A x \in ToSet(p.sources) : x \in Names(p) \/ \E n \in 1 .. MaxParts : x = Part(p.up, n)
    <3> SUFFICES ASSUME p.pc = "compose", NEW x \in ToSet(p.sources), x \notin Names(p)
                 PROVE  \E n \in 1 .. MaxParts : x = Part(p.up, n)
      OBVIOUS
    <3>1. Makes(c, q, p)
      BY DEF Unwinds, Deletes
    <3>2. q.pc = "compose" /\ p.sources = q.sources /\ x \notin Names(q)
      BY <3>1 DEF Makes
    <3>3. \E n \in 1 .. MaxParts : x = Part(q.up, n)
      BY <3>2 DEF Inv, SourceInv
    <3>4. QED
      BY <1>2, <3>3
  <2>2. QED
    BY <1>2, <2>1 DEF Inv, SourceInv
<1>5. ApartInv'
  <2>1. ASSUME NEW d \in Completions \ {c}, NEW r \in call[d], Names(p) \cap Names(r) # {}
        PROVE  c \in collided' /\ d \in collided'
    <3>1. CASE Names(q) \cap Names(r) # {}
      BY <1>2, <3>1 DEF Inv, ApartInv
    <3>2. CASE Names(q) \cap Names(r) = {}
      <4>1. PICK tmp \in Temporaries :
              /\ Names(p) = Names(q) \cup {tmp}
              /\ Others(c, tmp) = {} \/ Others(c, tmp) \cup {c} \subseteq collided'
        BY <2>1, <3>2 DEF Makes, Unwinds, Deletes
      <4>2. d \in Others(c, tmp)
        BY <2>1, <3>2, <4>1 DEF Others
      <4>3. QED
        BY <4>1, <4>2
    <3>3. QED
      BY <3>1, <3>2
  <2>2. QED
    BY <1>2, <2>1 DEF Inv, ApartInv
<1>6. DOMAIN bucket \subseteq DOMAIN bucket' \cup Names(q)
  BY DEF Makes, Unwinds, Deletes
<1>7. PartsInv'
  <2>1. \A u \in Uploads : \A n \in 1 .. sent[u] : Part(u, n) \in PartNames
    BY MaxPartsAssumption DEF TypeOK, PartNames
  <2>2. QED
    BY <1>1, <1>2, <1>6, <2>1, NamesApart DEF Inv, PartsInv
<1>8. PresentInv'
  <2>1. ASSUME c \notin faulty' \cup collided', p.pc = "compose"
        PROVE  /\ Names(p) \subseteq DOMAIN bucket'
               /\ \A x \in ToSet(p.sources) : x \in DOMAIN bucket' \/ p.up \in discarded'
    <3>1. Makes(c, q, p) /\ c \in Completions \ (faulty \cup collided)
      BY <1>2, <2>1 DEF Unwinds, Deletes
    <3>2. Names(p) \subseteq DOMAIN bucket' /\ DOMAIN bucket \subseteq DOMAIN bucket'
      BY <3>1 DEF Makes, Inv, PresentInv
    <3>3. QED
      BY <1>2, <3>1, <3>2 DEF Makes, Inv, PresentInv
  <2>2. ASSUME NEW d \in Completions \ {c}, d \notin faulty' \cup collided', NEW r \in call[d],
               r.pc = "compose"
        PROVE  /\ Names(r) \subseteq DOMAIN bucket'
               /\ \A x \in ToSet(r.sources) : x \in DOMAIN bucket' \/ r.up \in discarded'
    <3>1. /\ Names(r) \subseteq DOMAIN bucket
          /\ \A x \in ToSet(r.sources) : x \in DOMAIN bucket \/ r.up \in discarded
      BY <1>2, <2>2 DEF Inv, PresentInv
    <3>2. Names(r) \cap Names(q) = {}
      BY <1>2, <2>2 DEF Inv, ApartInv
    <3>3. Names(r) \subseteq DOMAIN bucket'
      BY <1>6, <3>1, <3>2
    <3>4. r \in Calls /\ r.up \in Uploads
      BY SourceKinds
    <3>5. \A n \in 1 .. MaxParts : Part(r.up, n) \notin Names(q)
      BY <1>1, <3>4, NamesApart DEF PartNames
    <3>6. \A x \in ToSet(r.sources) : x \notin Names(q)
      BY <2>2, <3>2, <3>5 DEF Inv, SourceInv
    <3>7. QED
      BY <1>2, <1>6, <3>1, <3>3, <3>6
  <2>3. QED
    BY <1>2, <2>1, <2>2 DEF PresentInv
<1>9. FailsForCause'
  <2>1. ASSUME c \notin faulty' \cup collided', p.result = "failed" PROVE p.up \in discarded'
    <3>1. CASE q.result = "failed"
      BY <1>2, <2>1, <3>1 DEF Inv, FailsForCause
    <3>2. CASE q.result # "failed"
      <4>1. q.pc = "compose" /\ ~Composable(Slice(q))
        BY <2>1, <3>2 DEF Makes, Unwinds, Deletes
      <4>2. q.at < Len(q.sources)
        BY <4>1 DEF Inv, CallInv
      <4>3. PICK x \in ToSet(q.sources) : x \notin DOMAIN bucket
        BY <1>1, <4>1, <4>2, SliceFits DEF Composable
      <4>4. QED
        BY <1>2, <2>1, <4>1, <4>3 DEF Inv, PresentInv
    <3>3. QED
      BY <3>1, <3>2
  <2>2. QED
    BY <1>2, <2>1 DEF Inv, FailsForCause
<1>10. NothingLeftBehind'
  <2>1. ASSUME NEW x \in DOMAIN bucket' \cap Temporaries, x \notin left', x \notin Names(p)
        PROVE  \E d \in Completions \ {c} : \E r \in call[d] : x \in Names(r)
    <3>1. x \in DOMAIN bucket /\ x \notin left
      BY <1>2, <2>1, NamesApart DEF Makes, Unwinds, Deletes
    <3>2. x \notin Names(q)
      BY <2>1 DEF Makes, Unwinds, Deletes
    <3>3. call[c] = {q}
      BY DEF Inv, CallInv
    <3>4. QED
      BY <2>1, <3>1, <3>2, <3>3 DEF Inv, NothingLeftBehind
  <2>2. QED
    BY <1>2, <2>1 DEF NothingLeftBehind
<1>11. QED
  BY <1>3, <1>4, <1>5, <1>7, <1>8, <1>9, <1>10 DEF Inv

(* So does the deletion of parts. *)
LEMMA InvDeletes ==
  ASSUME TypeOK, Inv, NEW u \in Uploads, NEW n \in 1 .. MaxParts, DeletePart(u, n)
  PROVE  Inv'
<1>1. /\ u \in discarded /\ DOMAIN bucket' = DOMAIN bucket \ {Part(u, n)}
      /\ UNCHANGED <<sent, discarded, call, faulty, collided, left>>
  BY DEF DeletePart
<1>2. Part(u, n) \in PartNames
  BY DEF PartNames
<1>3. CallInv' /\ SourceInv' /\ ApartInv' /\ FailsForCause'
  BY <1>1 DEF Inv, CallInv, SourceInv, ApartInv, FailsForCause
<1>4. PartsInv'
  <2>1. \A v \in Uploads : \A m \in 1 .. sent[v] : m \in 1 .. MaxParts
    BY MaxPartsAssumption DEF TypeOK
  <2>2. QED
    BY <1>1, <2>1, NamesApart DEF Inv, PartsInv
<1>5. PresentInv'
  <2> SUFFICES ASSUME NEW c \in Completions \ (faulty \cup collided), NEW q \in call[c],
                      q.pc = "compose"
               PROVE  /\ Names(q) \subseteq DOMAIN bucket'
                      /\ \A x \in ToSet(q.sources) : x \in DOMAIN bucket' \/ q.up \in discarded
    BY <1>1 DEF PresentInv
  <2>1. q.up \in Uploads /\ Names(q) \subseteq Temporaries
    BY SourceKinds
  <2>2. Names(q) \subseteq DOMAIN bucket'
    BY <1>1, <1>2, <2>1, NamesApart DEF Inv, PresentInv
  <2>3. ASSUME NEW x \in ToSet(q.sources), x \notin DOMAIN bucket', q.up \notin discarded
        PROVE  FALSE
    <3>1. x = Part(u, n)
      BY <1>1, <2>3 DEF Inv, PresentInv
    <3>2. PICK m \in 1 .. MaxParts : x = Part(q.up, m)
      BY <2>2, <2>3 DEF Inv, SourceInv
    <3>3. QED
      BY <1>1, <2>1, <2>3, <3>1, <3>2, NamesApart
  <2>4. QED
    BY <2>2, <2>3
<1>6. NothingLeftBehind'
  BY <1>1 DEF Inv, NothingLeftBehind
<1>7. QED
  BY <1>3, <1>4, <1>5, <1>6 DEF Inv

(***************************************************************************)
(* The invariant of the runs' safety properties: two calls that have not   *)
(* collided have no name in common, so that what a call has yet to compose *)
(* is deleted by nobody else.                                              *)
(***************************************************************************)
THEOREM InvCorrect == Spec => []Inv
<1>1. Init => Inv
  <2> SUFFICES ASSUME Init PROVE Inv
    OBVIOUS
  <2>1. \A c \in Completions : call[c] = {}
    BY DEF Init
  <2>2. CallInv /\ SourceInv /\ ApartInv /\ PresentInv /\ FailsForCause
    BY <2>1 DEF CallInv, SourceInv, ApartInv, PresentInv, FailsForCause
  <2>3. \A u \in Uploads : ToSet(PartKeys(u)) = {Part(u, n) : n \in 1 .. sent[u]}
    BY DEF PartKeys, ToSet
  <2>4. PartsInv
    BY <2>3 DEF PartsInv, Init
  <2>5. \A u \in Uploads : \A n \in 1 .. sent[u] : Part(u, n) \notin Temporaries
    BY MaxPartsAssumption, NamesApart DEF Init, PartNames
  <2>6. NothingLeftBehind
    BY <2>3, <2>5 DEF NothingLeftBehind, Init
  <2>7. QED
    BY <2>2, <2>4, <2>6 DEF Inv
<1>2. TypeOK /\ Inv /\ [Next]_vars => Inv'
  <2> SUFFICES ASSUME TypeOK, Inv, [Next]_vars PROVE Inv'
    OBVIOUS
  <2>1. ASSUME NEW c \in Completions, Step(c) \/ Fault(c) PROVE Inv'
    <3>1. PICK q \in call[c] : \E p :
            Onward(c, q, p) /\ (Makes(c, q, p) \/ Unwinds(c, q, p) \/ Deletes(c, q, p))
      BY <2>1, StepCases DEF Step, Fault
    <3>2. PICK p : Onward(c, q, p) /\ (Makes(c, q, p) \/ Unwinds(c, q, p) \/ Deletes(c, q, p))
      BY <3>1
    <3>3. QED
      BY <3>2, InvStep
  <2>2. ASSUME NEW u \in Uploads, AbortMultipartUpload(u) PROVE Inv'
    BY <2>2 DEF AbortMultipartUpload, Inv, CallInv, SourceInv, ApartInv, PartsInv, PresentInv,
       FailsForCause, NothingLeftBehind
  <2>3. CASE UNCHANGED vars
    BY <2>3 DEF vars, Inv, CallInv, SourceInv, ApartInv, PartsInv, PresentInv,
       FailsForCause, NothingLeftBehind
  <2>4. QED
    BY <2>1, <2>2, <2>3, InvBegins, InvDeletes DEF Next
<1>3. QED
  BY <1>1, <1>2, TypeCorrect, PTL DEF Spec

(***************************************************************************)
(* A completion fails for a cause only, whatever the limit is and however  *)
(* many parts and levels there are.                                        *)
(***************************************************************************)
COROLLARY FailsForCauseHolds == Spec => []FailsForCause
<1>1. Inv => FailsForCause
  BY DEF Inv
<1>2. QED
  BY <1>1, InvCorrect, PTL

(***************************************************************************)
(* Every temporary object is about to be deleted, or was left for a cause. *)
(***************************************************************************)
COROLLARY NothingLeftBehindHolds == Spec => []NothingLeftBehind
<1>1. Inv => NothingLeftBehind
  BY DEF Inv
<1>2. QED
  BY <1>1, InvCorrect, PTL

-----------------------------------------------------------------------------
(***************************************************************************)
(* The bytes.                                                              *)
(***************************************************************************)

(* The parts behind one, up to and including another. *)
Parts(u, from, to) == [i \in 1 .. (to - from) |-> Part(u, from + i)]

(* Where the sources of a sequence end when they are laid side by side. *)
Ends(f, s, n) ==
  /\ f \in [0 .. Len(s) -> Nat]
  /\ f[0] = 0 /\ f[Len(s)] = n
  /\ \A i, j \in 0 .. Len(s) : i <= j => f[i] <= f[j]

(* The objects of a sequence that are there have the first n parts, each its share. *)
Tiles(stored, f, s, u, n) ==
  /\ Ends(f, s, n)
  /\ \A i \in 1 .. Len(s) : s[i] \in DOMAIN stored => stored[s[i]] = Parts(u, f[i - 1], f[i])

(* What a call is to compose is the first n parts of its upload, and what it has made *)
(* is those of the sources before the chunk it is at.                                *)
Laid(stored, q, u, n) ==
  \E f, g : Tiles(stored, f, q.sources, u, n) /\ Tiles(stored, g, q.made, u, f[q.at])

WholeCall(q) == q.pc = "compose" => Laid(bucket, q, q.up, sent[q.up])

(* The names a call has given are older than its clock. *)
TimeInv ==
  \A c \in Completions : \A q \in call[c] :
    q.pc = "compose" => \A x \in Names(q) : x[3] <= q.time

PartBytes ==
  \A u \in Uploads : \A n \in 1 .. MaxParts :
    Part(u, n) \in DOMAIN bucket => bucket[Part(u, n)] = Parts(u, n - 1, n)

BytesInv ==
  /\ TimeInv /\ PartBytes
  /\ \A c \in Completions \ collided : \A q \in call[c] : WholeCall(q)
  /\ ObjectIsWhole

(* A set of numbers has a least one. *)
LEMMA Least ==
  ASSUME NEW S \in SUBSET Nat, S # {}
  PROVE  \E n \in S : \A m \in S : ~(m < n)
<1>1. IsWellFoundedOn(OpToRel(<, Nat), Nat)
  BY NatLessThanWellFounded
<1> DEFINE R == OpToRel(<, Nat)
<1>2. \A x, y \in Nat : x < y => <<x, y>> \in R
  BY DEF OpToRel
<1> HIDE DEF R
<1>3. \E n \in S : \A m \in S : <<m, n>> \notin R
  BY <1>1, WFMin DEF R
<1>4. \A m, n \in S : m < n => <<m, n>> \in R
  BY <1>2
<1>5. QED
  BY <1>3, <1>4

LEMMA PartsJoin ==
  ASSUME NEW u, NEW a \in Nat, NEW b \in Nat, NEW c \in Nat, a <= b, b <= c
  PROVE  /\ Parts(u, a, a) = <<>>
         /\ Parts(u, a, b) \o Parts(u, b, c) = Parts(u, a, c)
<1> DEFINE P == {Part(u, i) : i \in Nat}
           x == Parts(u, a, b)
           y == Parts(u, b, c)
           z == Parts(u, a, c)
<1>1. /\ x \in Seq(P) /\ Len(x) = b - a /\ \A i \in 1 .. (b - a) : x[i] = Part(u, a + i)
      /\ y \in Seq(P) /\ Len(y) = c - b /\ \A i \in 1 .. (c - b) : y[i] = Part(u, b + i)
      /\ z \in Seq(P) /\ Len(z) = c - a /\ \A i \in 1 .. (c - a) : z[i] = Part(u, a + i)
  <2>1. ASSUME NEW d \in Nat, NEW e \in Nat, d <= e
        PROVE  /\ Parts(u, d, e) \in Seq(P) /\ Len(Parts(u, d, e)) = e - d
               /\ \A i \in 1 .. (e - d) : Parts(u, d, e)[i] = Part(u, d + i)
    <3>1. e - d \in Nat /\ \A i \in 1 .. (e - d) : d + i \in Nat
      BY <2>1
    <3>2. \A i \in 1 .. (e - d) : Part(u, d + i) \in P
      BY <3>1
    <3> HIDE DEF P
    <3>3. QED
      BY <3>1, <3>2 DEF Parts
  <2>2. a <= c
    OBVIOUS
  <2>3. QED
    BY <2>1, <2>2
<1>2. Parts(u, a, a) = <<>>
  BY DEF Parts
<1> HIDE DEF P, x, y, z
<1>3. x \o y \in Seq(P) /\ Len(x \o y) = c - a
  BY <1>1
<1>4. ASSUME NEW i \in 1 .. (c - a) PROVE (x \o y)[i] = z[i]
  <2>1. CASE i <= b - a
    <3>1. i \in 1 .. (b - a)
      BY <2>1
    <3>2. (x \o y)[i] = x[i]
      BY <1>1, <3>1
    <3>3. QED
      BY <1>1, <3>1, <3>2
  <2>2. CASE ~(i <= b - a)
    <3>1. i - (b - a) \in 1 .. (c - b) /\ b + (i - (b - a)) = a + i
      BY <2>2
    <3>2. (x \o y)[i] = y[i - (b - a)]
      BY <1>1, <2>2, <3>1
    <3>3. QED
      BY <1>1, <3>1, <3>2
  <2>3. QED
    BY <2>1, <2>2
<1>5. x \o y = z
  <2> DEFINE w == x \o y
  <2>1. w \in Seq(P) /\ z \in Seq(P) /\ Len(w) = Len(z) /\ \A i \in 1 .. Len(w) : w[i] = z[i]
    BY <1>1, <1>3, <1>4
  <2> HIDE DEF w
  <2>2. w = z
    BY ONLY <2>1, SeqEqual
  <2>3. QED
    BY <2>2 DEF w
<1>6. QED
  BY <1>2, <1>5 DEF x, y, z

(* What is composed of objects that lie side by side is what they are together. *)
IsJoin(f, slice) ==
  f = [n \in 0 .. Len(slice) |-> IF n = 0 THEN <<>> ELSE f[n - 1] \o bucket[slice[n]]]

LEMMA JoinedParts ==
  ASSUME NEW slice, Len(slice) \in Nat, NEW u, NEW h \in [0 .. Len(slice) -> Nat],
         \A i, j \in 0 .. Len(slice) : i <= j => h[i] <= h[j],
         \A i \in 1 .. Len(slice) : bucket[slice[i]] = Parts(u, h[i - 1], h[i])
  PROVE  Joined(slice) = Parts(u, h[0], h[Len(slice)])
<1> DEFINE n == Len(slice)
           all == [i \in 0 .. n |-> Parts(u, h[0], h[i])]
<1>1. \A i \in 0 .. n : h[i] \in Nat /\ h[0] <= h[i]
  OBVIOUS
<1>2. ASSUME NEW i \in 1 .. n
      PROVE  Parts(u, h[0], h[i]) = Parts(u, h[0], h[i - 1]) \o bucket[slice[i]]
  <2>1. i - 1 \in 0 .. n /\ i \in 0 .. n /\ 0 \in 0 .. n /\ i - 1 <= i
    OBVIOUS
  <2>2. h[0] \in Nat /\ h[i - 1] \in Nat /\ h[i] \in Nat /\ h[0] <= h[i - 1] /\ h[i - 1] <= h[i]
    BY <1>1, <2>1
  <2>3. Parts(u, h[0], h[i - 1]) \o Parts(u, h[i - 1], h[i]) = Parts(u, h[0], h[i])
    BY ONLY <2>2, PartsJoin
  <2>4. QED
    BY <2>3
<1>3. Parts(u, h[0], h[0]) = <<>>
  BY <1>1, PartsJoin
<1>4. IsJoin(all, slice)
  <2>1. \A i \in 0 .. n : all[i] = IF i = 0 THEN <<>> ELSE all[i - 1] \o bucket[slice[i]]
    <3> SUFFICES ASSUME NEW i \in 0 .. n
                 PROVE  all[i] = IF i = 0 THEN <<>> ELSE all[i - 1] \o bucket[slice[i]]
      OBVIOUS
    <3>1. CASE i = 0
      BY <1>3, <3>1
    <3>2. CASE i # 0
      <4>1. i \in 1 .. n /\ i - 1 \in 0 .. n
        BY <3>2
      <4>2. all[i - 1] = Parts(u, h[0], h[i - 1]) /\ all[i] = Parts(u, h[0], h[i])
        BY <4>1
      <4>3. QED
        BY <1>2, <3>2, <4>1, <4>2
    <3>3. QED
      BY <3>1, <3>2
  <2> HIDE DEF all
  <2>2. all = [i \in 0 .. n |-> all[i]]
    BY DEF all
  <2>3. QED
    BY <2>1, <2>2 DEF IsJoin
<1> DEFINE f == CHOOSE f : IsJoin(f, slice)
<1>5. Joined(slice) = f[n]
  BY DEF Joined, IsJoin
<1>6. IsJoin(f, slice)
  BY <1>4
<1> HIDE DEF f
<1>7. \A i \in 0 .. n : f[i] = IF i = 0 THEN <<>> ELSE f[i - 1] \o bucket[slice[i]]
  BY <1>6 DEF IsJoin
<1> DEFINE S == {i \in 0 .. n : f[i] # Parts(u, h[0], h[i])}
<1>8. S = {}
  <2> SUFFICES ASSUME S # {} PROVE FALSE
    OBVIOUS
  <2>1. S \in SUBSET Nat
    OBVIOUS
  <2> HIDE DEF S
  <2>2. PICK i \in S : \A j \in S : ~(j < i)
    BY <2>1, Least
  <2>3. i \in 0 .. n /\ f[i] # Parts(u, h[0], h[i])
    BY <2>2 DEF S
  <2>4. i # 0
    BY <1>3, <1>7, <2>3
  <2>5. i \in 1 .. n /\ i - 1 \in 0 .. n /\ i - 1 < i
    BY <2>3, <2>4
  <2>6. i - 1 \notin S
    BY <2>2, <2>5
  <2>7. f[i - 1] = Parts(u, h[0], h[i - 1])
    BY <2>5, <2>6 DEF S
  <2>8. QED
    BY <1>2, <1>7, <2>3, <2>4, <2>5, <2>7
<1>9. n \in 0 .. n
  OBVIOUS
<1>10. QED
  BY <1>5, <1>8, <1>9

(* What is composed of a chunk, and of all that is left. *)
LEMMA ChunkBytes ==
  ASSUME NEW q \in Calls, q.at < Len(q.sources), ~Direct(q), Composable(Slice(q)),
         NEW f, NEW u, NEW n, Tiles(bucket, f, q.sources, u, n)
  PROVE  Joined(Slice(q)) = Parts(u, f[q.at], f[EndOf(q)])
<1> DEFINE s == q.sources
           at == q.at
           end == EndOf(q)
           slice == Slice(q)
           h == [i \in 0 .. (end - at) |-> f[at + i]]
<1>1. /\ end \in Nat /\ at \in Nat /\ at + 1 <= end /\ end <= Len(s)
      /\ Len(slice) = end - at /\ DOMAIN slice = 1 .. (end - at)
      /\ \A i \in 1 .. (end - at) : slice[i] = s[at + i] /\ at + i \in DOMAIN s
  BY SliceElements
<1>2. /\ s \in Seq(PartNames \cup Temporaries) /\ Len(s) \in Nat /\ DOMAIN s = 1 .. Len(s)
  BY DEF Calls
<1>3. /\ f \in [0 .. Len(s) -> Nat]
      /\ \A i, j \in 0 .. Len(s) : i <= j => f[i] <= f[j]
      /\ \A i \in 1 .. Len(s) : s[i] \in DOMAIN bucket => bucket[s[i]] = Parts(u, f[i - 1], f[i])
  BY DEF Tiles, Ends
<1>4. \A i \in 1 .. (end - at) : slice[i] \in DOMAIN bucket
  BY <1>1 DEF Composable, ToSet
<1> HIDE DEF s, at, end, slice
<1>5. end - at \in Nat /\ \A i \in 0 .. (end - at) : at + i \in 0 .. Len(s)
  BY <1>1, <1>2
<1>6. h \in [0 .. Len(slice) -> Nat] /\ \A i, j \in 0 .. Len(slice) : i <= j => h[i] <= h[j]
  <2>1. \A i \in 0 .. (end - at) : h[i] = f[at + i] /\ f[at + i] \in Nat
    BY <1>3, <1>5
  <2>2. ASSUME NEW i \in 0 .. (end - at), NEW j \in 0 .. (end - at), i <= j PROVE h[i] <= h[j]
    <3>1. at + i \in 0 .. Len(s) /\ at + j \in 0 .. Len(s) /\ at + i <= at + j
      BY <1>1, <1>5, <2>2
    <3>2. QED
      BY <1>3, <2>1, <3>1
  <2>3. QED
    BY <1>1, <1>3, <1>5, <2>2
<1>7. ASSUME NEW i \in 1 .. Len(slice) PROVE bucket[slice[i]] = Parts(u, h[i - 1], h[i])
  <2>1. i \in 1 .. (end - at) /\ i \in 0 .. (end - at) /\ i - 1 \in 0 .. (end - at)
        /\ at + i \in 1 .. Len(s) /\ at + (i - 1) = (at + i) - 1
    BY <1>1, <1>2
  <2>2. slice[i] = s[at + i] /\ slice[i] \in DOMAIN bucket
    BY <1>1, <1>4, <2>1
  <2>3. bucket[s[at + i]] = Parts(u, f[(at + i) - 1], f[at + i])
    BY <1>3, <2>1, <2>2
  <2>4. h[i] = f[at + i] /\ h[i - 1] = f[(at + i) - 1]
    BY <2>1
  <2>5. QED
    BY <2>2, <2>3, <2>4
<1>8. h[0] = f[at] /\ h[Len(slice)] = f[end]
  <2>1. 0 \in 0 .. (end - at) /\ end - at \in 0 .. (end - at) /\ at + 0 = at /\ at + (end - at) = end
    BY <1>1, <1>5
  <2>2. QED
    BY <1>1, <2>1
<1> HIDE DEF h
<1>9. Joined(slice) = Parts(u, h[0], h[Len(slice)])
  <2>1. Len(slice) \in Nat
    BY <1>1, <1>5
  <2>2. QED
    BY <1>6, <1>7, <2>1, JoinedParts
<1>10. QED
  BY <1>8, <1>9 DEF slice, at, end

LEMMA DestBytes ==
  ASSUME NEW q \in Calls, Direct(q), Composable(Slice(q)),
         NEW f, NEW u, NEW n, Tiles(bucket, f, q.sources, u, n)
  PROVE  Joined(Slice(q)) = Parts(u, 0, n)
<1> DEFINE s == q.sources
<1>1. s \in Seq(PartNames \cup Temporaries) /\ Len(s) \in Nat /\ DOMAIN s = 1 .. Len(s) /\ Slice(q) = s
  BY DEF Calls, Slice
<1>2. /\ f \in [0 .. Len(s) -> Nat] /\ f[0] = 0 /\ f[Len(s)] = n
      /\ \A i, j \in 0 .. Len(s) : i <= j => f[i] <= f[j]
      /\ \A i \in 1 .. Len(s) : s[i] \in DOMAIN bucket => bucket[s[i]] = Parts(u, f[i - 1], f[i])
  BY DEF Tiles, Ends
<1>3. \A i \in 1 .. Len(s) : s[i] \in DOMAIN bucket
  BY <1>1 DEF Composable, ToSet
<1> HIDE DEF s
<1>4. \A i \in 1 .. Len(s) : bucket[s[i]] = Parts(u, f[i - 1], f[i])
  BY <1>2, <1>3
<1>5. Joined(s) = Parts(u, f[0], f[Len(s)])
  BY <1>1, <1>2, <1>4, JoinedParts
<1>6. QED
  BY <1>1, <1>2, <1>5

(* They go on to lie side by side when nothing of them is written, *)
LEMMA TilesStay ==
  ASSUME NEW b, NEW d, NEW f, NEW s, NEW u, NEW n, Tiles(b, f, s, u, n),
         \A i \in 1 .. Len(s) : s[i] \in DOMAIN d => s[i] \in DOMAIN b /\ d[s[i]] = b[s[i]]
  PROVE  Tiles(d, f, s, u, n)
BY DEF Tiles

(* and with one more behind them. *)
LEMMA AppendTiles ==
  ASSUME NEW b, NEW S, NEW s \in Seq(S), NEW x \in S, NEW f, NEW u, NEW m, NEW n \in Nat,
         Tiles(b, f, s, u, m), m <= n, x \in DOMAIN b => b[x] = Parts(u, m, n)
  PROVE  \E g : Tiles(b, g, Append(s, x), u, n)
<1> DEFINE l == Len(s)
           g == [i \in 0 .. (l + 1) |-> IF i = l + 1 THEN n ELSE f[i]]
           t == Append(s, x)
<1>1. /\ l \in Nat /\ Len(t) = l + 1 /\ t[l + 1] = x /\ \A i \in 1 .. l : t[i] = s[i]
  OBVIOUS
<1>2. /\ f \in [0 .. l -> Nat] /\ f[0] = 0 /\ f[l] = m
      /\ \A i, j \in 0 .. l : i <= j => f[i] <= f[j]
      /\ \A i \in 1 .. l : s[i] \in DOMAIN b => b[s[i]] = Parts(u, f[i - 1], f[i])
  BY DEF Tiles, Ends
<1> HIDE DEF l, t
<1>3. /\ \A i \in 0 .. l : g[i] = f[i] /\ g[i] \in Nat /\ f[i] <= n
      /\ g[l + 1] = n
  <2>1. ASSUME NEW i \in 0 .. l PROVE g[i] = f[i] /\ f[i] \in Nat /\ f[i] <= n
    <3>1. l \in 0 .. l /\ i <= l /\ i \in 0 .. (l + 1) /\ i # l + 1
      BY <1>1
    <3>2. f[i] <= m /\ f[i] \in Nat /\ m \in Nat
      BY <1>2, <3>1
    <3>3. QED
      BY <3>1, <3>2
  <2>2. l + 1 \in 0 .. (l + 1)
    BY <1>1
  <2>3. QED
    BY <2>1, <2>2
<1>4. g \in [0 .. (l + 1) -> Nat]
  <2>1. \A i \in 0 .. (l + 1) : i \in 0 .. l \/ i = l + 1
    BY <1>1
  <2>2. QED
    BY <1>3, <2>1
<1>5. ASSUME NEW i \in 0 .. (l + 1), NEW j \in 0 .. (l + 1), i <= j PROVE g[i] <= g[j]
  <2>1. CASE j \in 0 .. l
    <3>1. i \in 0 .. l
      BY <1>1, <1>5, <2>1
    <3>2. QED
      BY <1>2, <1>3, <1>5, <2>1, <3>1
  <2>2. CASE j \notin 0 .. l
    <3>1. j = l + 1 /\ (i = l + 1 \/ i \in 0 .. l)
      BY <1>1, <2>2
    <3>2. g[j] = n /\ n \in Nat
      BY <1>3, <3>1
    <3>3. CASE i = l + 1
      BY <1>3, <3>2, <3>3
    <3>4. CASE i \in 0 .. l
      BY <1>3, <3>2, <3>4
    <3>5. QED
      BY <3>1, <3>3, <3>4
  <2>3. QED
    BY <2>1, <2>2
<1>6. g[0] = 0
  BY <1>1, <1>2, <1>3
<1>7. ASSUME NEW i \in 1 .. (l + 1), t[i] \in DOMAIN b PROVE b[t[i]] = Parts(u, g[i - 1], g[i])
  <2>1. CASE i = l + 1
    <3>1. i - 1 = l /\ l \in 0 .. l
      BY <1>1, <2>1
    <3>2. g[i - 1] = m /\ g[i] = n /\ t[i] = x
      BY <1>1, <1>2, <1>3, <2>1, <3>1
    <3>3. QED
      BY <1>7, <3>2
  <2>2. CASE i # l + 1
    <3>1. i \in 1 .. l /\ i \in 0 .. l /\ i - 1 \in 0 .. l
      BY <1>1, <2>2
    <3>2. t[i] = s[i] /\ g[i] = f[i] /\ g[i - 1] = f[i - 1]
      BY <1>1, <1>3, <3>1
    <3>3. QED
      BY <1>2, <1>7, <3>1, <3>2
  <2>3. QED
    BY <2>1, <2>2
<1> HIDE DEF g
<1>8. Tiles(b, g, t, u, n)
  BY <1>1, <1>3, <1>4, <1>5, <1>6, <1>7 DEF Tiles, Ends
<1>9. QED
  BY <1>8 DEF t

(* So a call that goes on has all the parts before it, if it had. *)
LEMMA AdvanceTiles ==
  ASSUME NEW q \in Calls, q.at < Len(q.sources), ~Direct(q),
         NEW tmp \in Temporaries, NEW time \in Nat, NEW b, NEW f, NEW g, NEW u, NEW n,
         Tiles(b, f, q.sources, u, n), Tiles(b, g, q.made, u, f[q.at]),
         b[tmp] = Parts(u, f[q.at], f[EndOf(q)])
  PROVE  LET p == Advance(q, tmp, time)
         IN Laid(b, p, u, n)
<1> DEFINE p == Advance(q, tmp, time)
           at == q.at
           end == EndOf(q)
           more == Append(q.made, tmp)
           all == more \o q.outer
<1>1. /\ end \in Nat /\ at \in Nat /\ at + 1 <= end /\ end <= Len(q.sources)
      /\ IF AtEnd(q) THEN end = Len(q.sources) ELSE end = at + Limit
  BY SliceElements
<1>2. q.made \in Seq(Temporaries) /\ Len(q.sources) \in Nat
  BY DEF Calls
<1>3. /\ f \in [0 .. Len(q.sources) -> Nat] /\ f[Len(q.sources)] = n
      /\ \A i, j \in 0 .. Len(q.sources) : i <= j => f[i] <= f[j]
  BY DEF Tiles, Ends
<1> HIDE DEF end, at
<1>4. at \in 0 .. Len(q.sources) /\ end \in 0 .. Len(q.sources) /\ at <= end
  BY <1>1, <1>2
<1>5. f[at] <= f[end] /\ f[end] \in Nat
  BY <1>3, <1>4
<1>6. PICK w : Tiles(b, w, more, u, f[end])
  <2>1. Tiles(b, g, q.made, u, f[at]) /\ b[tmp] = Parts(u, f[at], f[end])
    BY DEF at, end
  <2>2. QED
    BY <1>2, <1>5, <2>1, AppendTiles
<1>7. CASE AtEnd(q)
  <2> HIDE DEF more, all
  <2>1. p = [q EXCEPT !.sources = more, !.at = 0, !.made = <<>>, !.outer = all, !.time = time]
    BY <1>7 DEF Advance, more, all
  <2> DEFINE none == <<>>
             v == [i \in 0 .. 0 |-> 0]
  <2>2. p.sources = more /\ p.at = 0 /\ p.made = none /\ p.time = time
    <3> HIDE DEF none, p
    <3>1. p = [q EXCEPT !.sources = more, !.at = 0, !.made = none, !.outer = all, !.time = time]
      BY <2>1 DEF none
    <3>2. QED
      BY <3>1 DEF Calls
  <2>3. f[end] = n
    BY <1>1, <1>3, <1>7
  <2>4. w[0] = 0
    BY <1>6 DEF Tiles, Ends
  <2>5. Tiles(b, v, none, u, 0)
    BY DEF Tiles, Ends
  <2> HIDE DEF none, v, p
  <2>6. Tiles(b, w, p.sources, u, n) /\ Tiles(b, v, p.made, u, w[p.at])
    BY <1>6, <2>2, <2>3, <2>4, <2>5
  <2>7. QED
    BY <2>6 DEF p, Laid
<1>8. CASE ~AtEnd(q)
  <2> HIDE DEF more
  <2>1. p = [q EXCEPT !.at = @ + Limit, !.made = more, !.time = time]
    BY <1>8 DEF Advance, more
  <2>2. p.sources = q.sources /\ p.at = end /\ p.made = more /\ p.time = time
    BY <1>1, <1>8, <2>1 DEF Calls, at
  <2> HIDE DEF p
  <2>3. Tiles(b, f, p.sources, u, n) /\ Tiles(b, w, p.made, u, f[p.at])
    BY <1>6, <2>2
  <2>4. QED
    BY <2>3 DEF p, Laid
<1>9. QED
  BY <1>7, <1>8

(* What the steps of a call write: a chunk, the object, or what they forget. *)
Chunk(q, p) ==
  /\ q.pc = "compose" /\ ~Direct(q) /\ Composable(Slice(q))
  /\ \E time \in Nat :
       LET tmp == Temporary(q.at, time)
       IN /\ q.time < time /\ p = Advance(q, tmp, time)
          /\ Write(tmp, Slice(q))

Stores(c, q, p) ==
  /\ p.pc = "compose" => Chunk(q, p)
  /\ p.result = "done" => q.result = "done" \/ Dest(q.up) \in DOMAIN bucket'
  /\ \A x \in DOMAIN bucket' :
       \/ x \in DOMAIN bucket /\ bucket'[x] = bucket[x]
       \/ x \in Temporaries /\ Others(c, x) \subseteq collided'
       \/ /\ x = Dest(q.up) /\ q.pc = "compose" /\ Direct(q) /\ Composable(Slice(q))
          /\ bucket'[x] = Joined(Slice(q))
  /\ \A x \in DOMAIN bucket : x \in DOMAIN bucket' \/ x \in Temporaries

(* A write is one of these. *)
LEMMA WriteStores ==
  ASSUME NEW dest, NEW slice, Write(dest, slice)
  PROVE  /\ DOMAIN bucket' = DOMAIN bucket \cup {dest}
         /\ bucket'[dest] = Joined(slice)
         /\ \A x \in DOMAIN bucket : x # dest => bucket'[x] = bucket[x]
BY DEF Write

LEMMA StepStores ==
  ASSUME TypeOK, NEW c \in Completions, NEW q \in call[c], NEW p, call'[c] = {p},
         \/ ComposeChunk(c, q) \/ ComposeDest(c, q) \/ Refused(c, q)
         \/ DeleteKey(c, q) \/ Return(c, q)
         \/ ComposeFails(c, q) \/ AnswerLost(c, q) \/ Stop(c, q)
         \/ DeleteLost(c, q) \/ AttrsFail(c, q)
  PROVE  Stores(c, q, p)
<1>1. q \in Calls /\ q.up \in Uploads /\ q.time \in Nat
  BY DEF TypeOK, Calls
<1>2. \A r : Goto(c, r) => p = r
  BY DEF Goto, TypeOK
<1>3. CASE ComposeChunk(c, q)
  <2>1. PICK tick \in Ticks :
          LET time == q.time + tick
              tmp == Temporary(q.at, time)
          IN /\ Write(tmp, Slice(q))
             /\ Goto(c, Advance(q, tmp, time))
             /\ collided' = IF Others(c, tmp) = {} THEN collided
                            ELSE collided \cup Others(c, tmp) \cup {c}
    BY <1>3 DEF ComposeChunk
  <2> DEFINE time == q.time + tick
             tmp == Temporary(q.at, time)
  <2>2. time \in Nat /\ tmp \in Temporaries /\ q.time < time
    BY <1>1, TickEffect, TicksAssumption
  <2>3. q.pc = "compose" /\ ~Direct(q) /\ Composable(Slice(q))
    BY <1>3 DEF ComposeChunk
  <2>4. p = Advance(q, tmp, time) /\ Write(tmp, Slice(q)) /\ Others(c, tmp) \subseteq collided'
    BY <1>2, <2>1
  <2> HIDE DEF time, tmp
  <2>5. Chunk(q, p)
    BY <2>2, <2>3, <2>4 DEF Chunk, tmp
  <2>6. p.result = q.result
    BY <1>1, <2>2, <2>3, <2>4, AdvanceEffect
  <2>7. QED
    BY <2>2, <2>4, <2>5, <2>6, WriteStores DEF Stores
<1>4. CASE ComposeDest(c, q)
  <2>1. /\ p = Unwind(q, "done") /\ q.pc = "compose" /\ Direct(q) /\ Composable(Slice(q))
        /\ Write(Dest(q.up), Slice(q))
    BY <1>2, <1>4 DEF ComposeDest
  <2>2. p.pc = "delete"
    BY <1>1, <2>1, UnwindEffect
  <2>3. QED
    BY <2>1, <2>2, WriteStores DEF Stores
<1>5. CASE Refused(c, q) \/ ComposeFails(c, q)
  <2>1. p = Unwind(q, "failed") /\ bucket' = bucket
    BY <1>2, <1>5 DEF Refused, ComposeFails
  <2>2. p.pc = "delete" /\ p.result = "failed"
    BY <1>1, <2>1, UnwindEffect
  <2>3. QED
    BY <2>1, <2>2 DEF Stores
<1>6. CASE AnswerLost(c, q)
  <2>1. PICK tick \in Ticks :
          LET tmp == Temporary(q.at, q.time + tick)
          IN /\ Write(IF Direct(q) THEN Dest(q.up) ELSE tmp, Slice(q))
             /\ left' = IF Direct(q) THEN left ELSE left \cup {tmp}
             /\ collided' = IF Direct(q) \/ Others(c, tmp) = {} THEN collided
                            ELSE collided \cup Others(c, tmp) \cup {c}
    BY <1>6 DEF AnswerLost
  <2> DEFINE tmp == Temporary(q.at, q.time + tick)
  <2>2. tmp \in Temporaries
    BY <1>1, TickEffect
  <2>3. p = Unwind(q, "failed") /\ q.pc = "compose" /\ Composable(Slice(q))
    BY <1>2, <1>6 DEF AnswerLost
  <2>4. p.pc = "delete" /\ p.result = "failed"
    BY <1>1, <2>3, UnwindEffect
  <2>5. /\ Write(IF Direct(q) THEN Dest(q.up) ELSE tmp, Slice(q))
        /\ ~Direct(q) => Others(c, tmp) \subseteq collided'
    BY <2>1
  <2> HIDE DEF tmp
  <2>6. CASE Direct(q)
    <3>1. Write(Dest(q.up), Slice(q))
      BY <2>5, <2>6
    <3>2. /\ DOMAIN bucket' = DOMAIN bucket \cup {Dest(q.up)}
          /\ bucket'[Dest(q.up)] = Joined(Slice(q))
          /\ \A x \in DOMAIN bucket : x # Dest(q.up) => bucket'[x] = bucket[x]
      BY ONLY <3>1, WriteStores
    <3>3. QED
      BY <2>3, <2>4, <2>6, <3>2 DEF Stores
  <2>7. CASE ~Direct(q)
    <3>1. Write(tmp, Slice(q))
      BY <2>5, <2>7
    <3>2. /\ DOMAIN bucket' = DOMAIN bucket \cup {tmp}
          /\ \A x \in DOMAIN bucket : x # tmp => bucket'[x] = bucket[x]
      BY ONLY <3>1, WriteStores
    <3>3. QED
      BY <2>2, <2>4, <2>5, <2>7, <3>2 DEF Stores
  <2>8. QED
    BY <2>6, <2>7
<1>7. CASE DeleteKey(c, q) \/ DeleteLost(c, q)
  <2>1. /\ p = [q EXCEPT !.outer = Tail(@)] /\ q.pc = "delete" /\ q.outer # <<>>
        /\ \/ bucket' = [x \in DOMAIN bucket \ {Head(q.outer)} |-> bucket[x]]
           \/ bucket' = bucket
    BY <1>2, <1>7 DEF DeleteKey, DeleteLost
  <2>2. Head(q.outer) \in Temporaries /\ p.pc = q.pc /\ p.result = q.result
    BY <1>1, <2>1, NextKeyEffect
  <2>3. QED
    BY <2>1, <2>2 DEF Stores
<1>8. CASE Return(c, q) \/ AttrsFail(c, q) \/ Stop(c, q)
  <2>1. p.pc = "ended" /\ (p.result = "done" => q.result = "done") /\ bucket' = bucket
    <3>1. CASE Return(c, q)
      <4>1. p = [q EXCEPT !.pc = "ended"] /\ bucket' = bucket
        BY <1>2, <3>1 DEF Return
      <4>2. QED
        BY <1>1, <4>1 DEF Calls
    <3>2. CASE AttrsFail(c, q)
      <4>1. p = [q EXCEPT !.pc = "ended", !.result = "failed"] /\ bucket' = bucket
        BY <1>2, <3>2 DEF AttrsFail
      <4>2. QED
        BY <1>1, <4>1 DEF Calls
    <3>3. CASE Stop(c, q)
      <4>1. /\ p = [q EXCEPT !.pc = "ended", !.made = <<>>, !.outer = <<>>, !.result = "failed"]
            /\ bucket' = bucket
        BY <1>2, <3>3 DEF Stop
      <4>2. QED
        BY <1>1, <4>1, EndEffect
    <3>4. QED
      BY <1>8, <3>1, <3>2, <3>3
  <2>2. QED
    BY <2>1 DEF Stores
<1>9. QED
  BY <1>3, <1>4, <1>5, <1>6, <1>7, <1>8

PartKeysParts == \A u \in Uploads : PartKeys(u) = Parts(u, 0, sent[u])

LEMMA PartKeysAre == TypeOK => PartKeysParts
<1> SUFFICES ASSUME TypeOK, NEW u \in Uploads PROVE PartKeys(u) = Parts(u, 0, sent[u])
  BY DEF PartKeysParts
<1>1. sent[u] \in Nat
  BY MaxPartsAssumption DEF TypeOK
<1>2. sent[u] - 0 = sent[u] /\ \A i \in 1 .. sent[u] : 0 + i = i
  BY <1>1
<1>3. QED
  BY <1>2 DEF PartKeys, Parts

(* What a call composes of and has made is written by no step but one that collides. *)
LEMMA SourcesStay ==
  ASSUME TypeOK, Inv, NEW d \in Completions, NEW r \in call[d], r.pc = "compose",
         NEW e, NEW f, NEW s, NEW u, NEW n, Tiles(bucket, f, s, u, n),
         s \in {r.sources, r.made},
         \A x \in DOMAIN e : \/ x \in DOMAIN bucket /\ e[x] = bucket[x]
                             \/ x \in Temporaries \ Names(r)
                             \/ x \in Dests
  PROVE  Tiles(e, f, s, u, n)
<1>1. r \in Calls /\ r.up \in Uploads /\ Names(r) \subseteq Temporaries
  BY SourceKinds
<1>2. /\ r.sources \in Seq(PartNames \cup Temporaries) /\ r.made \in Seq(Temporaries)
  BY <1>1 DEF Calls
<1>3. \A i \in 1 .. Len(s) : s[i] \in Names(r) \/ s[i] \in PartNames
  <2>1. ASSUME NEW i \in 1 .. Len(r.sources)
        PROVE  r.sources[i] \in Names(r) \/ r.sources[i] \in PartNames
    <3>1. r.sources[i] \in ToSet(r.sources)
      BY <1>2 DEF ToSet
    <3>2. QED
      BY <1>1, <3>1 DEF Inv, SourceInv, PartNames
  <2>2. ASSUME NEW i \in 1 .. Len(r.made) PROVE r.made[i] \in Names(r)
    BY <1>2 DEF ToSet, Names
  <2>3. QED
    BY <2>1, <2>2
<1>4. \A i \in 1 .. Len(s) : s[i] \in DOMAIN e => s[i] \in DOMAIN bucket /\ e[s[i]] = bucket[s[i]]
  BY <1>1, <1>3, NamesApart
<1>5. QED
  BY <1>4, TilesStay

(* Every step of a call preserves what its bytes are. *)
LEMMA BytesStep ==
  ASSUME TypeOK, Inv, BytesInv, NEW c \in Completions, NEW q \in call[c], NEW p,
         Onward(c, q, p), Makes(c, q, p) \/ Unwinds(c, q, p) \/ Deletes(c, q, p),
         Stores(c, q, p)
  PROVE  BytesInv'
<1>1. q \in Calls /\ q.up \in Uploads /\ Names(q) \subseteq Temporaries /\ call[c] = {q}
  BY SourceKinds DEF Inv, CallInv
<1>2. /\ p.up = q.up /\ call'[c] = {p} /\ \A d \in Completions \ {c} : call'[d] = call[d]
      /\ sent' = sent /\ collided \subseteq collided'
  BY DEF Onward
<1>3. \A x \in DOMAIN bucket' :
        \/ x \in DOMAIN bucket /\ bucket'[x] = bucket[x]
        \/ x \in Temporaries /\ Others(c, x) \subseteq collided'
        \/ /\ x = Dest(q.up) /\ q.pc = "compose" /\ Direct(q) /\ Composable(Slice(q))
           /\ bucket'[x] = Joined(Slice(q))
  BY DEF Stores
<1>4. Dest(q.up) \in Dests
  BY <1>1 DEF Dests
<1>5. TimeInv'
  <2>1. ASSUME p.pc = "compose", NEW x \in Names(p) PROVE x[3] <= p.time
    <3>1. PICK time \in Nat :
            LET tmp == Temporary(q.at, time)
            IN q.time < time /\ p = Advance(q, tmp, time) /\ Write(tmp, Slice(q))
      BY <2>1 DEF Stores, Chunk
    <3> DEFINE tmp == Temporary(q.at, time)
    <3>2. q.pc = "compose" /\ p = Advance(q, tmp, time) /\ q.time \in Nat /\ q.at \in Nat
      BY <1>1, <2>1, <3>1 DEF Stores, Chunk, Calls
    <3>3. tmp \in Temporaries /\ tmp[3] = time
      BY <3>2, NamesApart DEF Temporary
    <3> HIDE DEF tmp
    <3>4. Names(p) = Names(q) \cup {tmp}
      BY <1>1, <3>2, <3>3, AdvanceEffect
    <3>5. p.time = time
      BY <1>1, <3>2 DEF Advance, Calls
    <3>6. \A y \in Names(q) : y[3] <= q.time /\ y[3] \in Nat
      BY <1>1, <3>2 DEF BytesInv, TimeInv, Temporaries
    <3>7. QED
      BY <3>1, <3>2, <3>3, <3>4, <3>5, <3>6
  <2>2. ASSUME NEW d \in Completions, NEW r \in call'[d], r.pc = "compose", NEW x \in Names(r)
        PROVE  x[3] <= r.time
    BY <1>2, <2>1, <2>2 DEF BytesInv, TimeInv
  <2>3. QED
    BY <2>2 DEF TimeInv, Names
<1>6. PartBytes'
  BY <1>3, <1>4, NamesApart DEF BytesInv, PartBytes, PartNames
<1>7. ASSUME NEW d \in Completions \ {c}, d \notin collided', NEW r \in call[d]
      PROVE  WholeCall(r)'
  <2> SUFFICES ASSUME r.pc = "compose" PROVE Laid(bucket', r, r.up, sent[r.up])
    BY <1>2 DEF WholeCall
  <2>1. PICK f, g : /\ Tiles(bucket, f, r.sources, r.up, sent[r.up])
                    /\ Tiles(bucket, g, r.made, r.up, f[r.at])
    BY <1>2, <1>7 DEF BytesInv, WholeCall, Laid
  <2>2. \A x \in DOMAIN bucket' : \/ x \in DOMAIN bucket /\ bucket'[x] = bucket[x]
                                  \/ x \in Temporaries \ Names(r)
                                  \/ x \in Dests
    BY <1>3, <1>4, <1>7 DEF Others
  <2>3. /\ Tiles(bucket', f, r.sources, r.up, sent[r.up])
        /\ Tiles(bucket', g, r.made, r.up, f[r.at])
    BY <2>1, <2>2, SourcesStay
  <2>4. QED
    BY <2>3 DEF Laid
<1>8. ASSUME c \notin collided' PROVE WholeCall(p)'
  <2> SUFFICES ASSUME p.pc = "compose" PROVE Laid(bucket', p, p.up, sent[p.up])
    BY <1>2 DEF WholeCall
  <2>1. PICK time \in Nat :
          LET tmp == Temporary(q.at, time)
          IN q.time < time /\ p = Advance(q, tmp, time) /\ Write(tmp, Slice(q))
    BY DEF Stores, Chunk
  <2> DEFINE tmp == Temporary(q.at, time)
             n == sent[q.up]
  <2>2. /\ p = Advance(q, tmp, time) /\ q.time \in Nat /\ q.at \in Nat
        /\ q.pc = "compose" /\ ~Direct(q) /\ Composable(Slice(q)) /\ q.at < Len(q.sources)
    BY <1>1, <2>1 DEF Stores, Chunk, Calls, Inv, CallInv
  <2>3. tmp \in Temporaries /\ tmp[3] = time
    BY <2>2, NamesApart DEF Temporary
  <2>4. Write(tmp, Slice(q))
    BY <2>1
  <2> HIDE DEF tmp
  <2>5. tmp \notin Names(q)
    <3>1. \A y \in Names(q) : y[3] <= q.time /\ y[3] \in Nat
      BY <1>1, <2>2 DEF BytesInv, TimeInv, Temporaries
    <3>2. QED
      BY <2>1, <2>2, <2>3, <3>1
  <2>6. PICK f, g : Tiles(bucket, f, q.sources, q.up, n) /\ Tiles(bucket, g, q.made, q.up, f[q.at])
    BY <1>1, <1>2, <1>8, <2>2 DEF BytesInv, WholeCall, Laid
  <2>7. bucket'[tmp] = Parts(q.up, f[q.at], f[EndOf(q)])
    <3>1. bucket'[tmp] = Joined(Slice(q))
      BY <2>4, WriteStores
    <3>2. QED
      BY <1>1, <2>2, <2>6, <3>1, ChunkBytes
  <2>8. \A x \in DOMAIN bucket' : \/ x \in DOMAIN bucket /\ bucket'[x] = bucket[x]
                                  \/ x \in Temporaries \ Names(q)
                                  \/ x \in Dests
    <3>1. /\ DOMAIN bucket' = DOMAIN bucket \cup {tmp}
          /\ \A x \in DOMAIN bucket : x # tmp => bucket'[x] = bucket[x]
      BY ONLY <2>4, WriteStores
    <3>2. QED
      BY <2>3, <2>5, <3>1
  <2>9. Tiles(bucket', f, q.sources, q.up, n) /\ Tiles(bucket', g, q.made, q.up, f[q.at])
    BY <2>2, <2>6, <2>8, SourcesStay
  <2>10. Laid(bucket', p, q.up, n)
    <3>1. PICK b, m, u : b = bucket' /\ m = n /\ u = q.up
      OBVIOUS
    <3>2. /\ Tiles(b, f, q.sources, u, m) /\ Tiles(b, g, q.made, u, f[q.at])
          /\ b[tmp] = Parts(u, f[q.at], f[EndOf(q)])
      BY <2>7, <2>9, <3>1
    <3>3. q \in Calls /\ q.at < Len(q.sources) /\ ~Direct(q) /\ tmp \in Temporaries /\ time \in Nat
      BY <1>1, <2>2, <2>3
    <3>4. Laid(b, Advance(q, tmp, time), u, m)
      BY ONLY <3>2, <3>3, AdvanceTiles
    <3>5. QED
      BY <2>2, <3>1, <3>4
  <2>11. QED
    BY <1>2, <2>10
<1>9. \A d \in Completions \ collided' : \A r \in call'[d] : WholeCall(r)'
  BY <1>2, <1>7, <1>8
<1>10. ObjectIsWhole'
  <2> SUFFICES ASSUME NEW u \in Uploads, ~ \E d \in collided' : \E r \in call'[d] : r.up = u
               PROVE  /\ Dest(u) \in DOMAIN bucket' => bucket'[Dest(u)] = PartKeys(u)
                      /\ \A d \in Completions : \A r \in call'[d] :
                           r.up = u /\ r.result = "done" => Dest(u) \in DOMAIN bucket'
    BY <1>2 DEF ObjectIsWhole, PartKeys
  <2>1. collided' \subseteq Completions
    BY DEF Onward
  <2>2. ~ \E d \in collided : \E r \in call[d] : r.up = u
    BY <1>1, <1>2, <2>1
  <2>3. /\ Dest(u) \in DOMAIN bucket => bucket[Dest(u)] = PartKeys(u)
        /\ \A d \in Completions : \A r \in call[d] :
             r.up = u /\ r.result = "done" => Dest(u) \in DOMAIN bucket
    BY <2>2 DEF BytesInv, ObjectIsWhole
  <2>4. Dest(u) \notin Temporaries
    BY NamesApart DEF Dests
  <2>5. Dest(u) \in DOMAIN bucket => Dest(u) \in DOMAIN bucket'
    BY <2>4 DEF Stores
  <2>6. ASSUME Dest(u) \in DOMAIN bucket' PROVE bucket'[Dest(u)] = PartKeys(u)
    <3>1. CASE Dest(u) \in DOMAIN bucket /\ bucket'[Dest(u)] = bucket[Dest(u)]
      BY <2>3, <3>1
    <3>2. CASE /\ Dest(u) = Dest(q.up) /\ q.pc = "compose" /\ Direct(q) /\ Composable(Slice(q))
               /\ bucket'[Dest(u)] = Joined(Slice(q))
      <4>1. u = q.up /\ c \notin collided
        BY <1>1, <2>2, <3>2 DEF Dest
      <4>2. PICK f : Tiles(bucket, f, q.sources, u, sent[u])
        BY <1>1, <3>2, <4>1 DEF BytesInv, WholeCall, Laid
      <4>3. Joined(Slice(q)) = Parts(u, 0, sent[u])
        BY <1>1, <3>2, <4>2, DestBytes
      <4>4. QED
        BY <3>2, <4>3, PartKeysAre DEF PartKeysParts
    <3>3. QED
      BY <1>3, <2>4, <2>6, <3>1, <3>2
  <2>7. ASSUME NEW d \in Completions, NEW r \in call'[d], r.up = u, r.result = "done"
        PROVE  Dest(u) \in DOMAIN bucket'
    <3>1. CASE d = c
      <4>1. r = p /\ q.up = u
        BY <1>2, <2>7, <3>1
      <4>2. q.result = "done" \/ Dest(u) \in DOMAIN bucket'
        BY <2>7, <4>1 DEF Stores
      <4>3. QED
        BY <2>3, <2>5, <4>1, <4>2
    <3>2. CASE d # c
      BY <1>2, <2>3, <2>5, <2>7, <3>2
    <3>3. QED
      BY <3>1, <3>2
  <2>8. QED
    BY <2>6, <2>7
<1>11. QED
  BY <1>5, <1>6, <1>9, <1>10 DEF BytesInv

(* A call that begins has all the parts before it. *)
LEMMA BytesBegin ==
  ASSUME TypeOK, Inv, BytesInv, NEW c \in Completions, NEW u \in Uploads,
         CompleteMultipartUpload(c, u)
  PROVE  BytesInv'
<1> DEFINE keys == PartKeys(u)
           none == <<>>
           first == [up |-> u, pc |-> "compose", sources |-> keys, at |-> 0,
                     made |-> none, outer |-> none, time |-> 0, result |-> "none"]
           m == sent[u]
           f == [i \in 0 .. m |-> i]
           g == [i \in 0 .. 0 |-> 0]
<1>1. /\ call[c] = {} /\ call' = [call EXCEPT ![c] = {first}]
      /\ UNCHANGED <<sent, bucket, discarded, faulty, collided, left>>
  BY DEF CompleteMultipartUpload
<1>2. m \in Nat /\ \A n \in 1 .. m : n \in 1 .. MaxParts
  BY MaxPartsAssumption DEF TypeOK
<1>3. Len(keys) = m /\ \A n \in 1 .. m : keys[n] = Part(u, n)
  BY <1>2 DEF PartKeys
<1>4. Tiles(bucket, f, keys, u, m)
  <2>1. Ends(f, keys, m)
    <3> HIDE DEF m, keys
    <3>1. QED
      BY <1>2, <1>3 DEF Ends
  <2>2. ASSUME NEW i \in 1 .. m, keys[i] \in DOMAIN bucket
        PROVE  bucket[keys[i]] = Parts(u, f[i - 1], f[i])
    <3>1. keys[i] = Part(u, i) /\ i \in 1 .. MaxParts
      BY <1>2, <1>3
    <3>2. bucket[Part(u, i)] = Parts(u, i - 1, i)
      BY <2>2, <3>1 DEF BytesInv, PartBytes
    <3>3. i \in 0 .. m /\ i - 1 \in 0 .. m
      BY <1>2
    <3>4. f[i] = i /\ f[i - 1] = i - 1
      BY <3>3
    <3>5. QED
      BY <3>1, <3>2, <3>4
  <2>3. QED
    BY <1>3, <2>1, <2>2 DEF Tiles
<1>5. Tiles(bucket, g, none, u, 0) /\ f[0] = 0
  BY <1>2 DEF Tiles, Ends
<1>6. ToSet(none) = {}
  BY DEF ToSet
<1> HIDE DEF keys, none, f, g
<1>7. PICK p : /\ p = first /\ p.up = u /\ p.pc = "compose" /\ p.sources = keys /\ p.at = 0
               /\ p.made = none /\ p.outer = none /\ p.time = 0 /\ p.result = "none"
  <2>1. /\ first.up = u /\ first.pc = "compose" /\ first.sources = keys /\ first.at = 0
        /\ first.made = none /\ first.outer = none /\ first.time = 0 /\ first.result = "none"
    OBVIOUS
  <2> HIDE DEF first
  <2>2. QED
    BY <2>1
<1> HIDE DEF first
<1>8. call'[c] = {p} /\ \A d \in Completions \ {c} : call'[d] = call[d]
  BY <1>1, <1>7 DEF TypeOK
<1>9. TimeInv'
  <2>1. Names(p) = {}
    BY <1>6, <1>7 DEF Names
  <2>2. ASSUME NEW d \in Completions, NEW r \in call'[d], r.pc = "compose", NEW x \in Names(r)
        PROVE  x[3] <= r.time
    BY <1>8, <2>1, <2>2 DEF BytesInv, TimeInv
  <2>3. QED
    BY <2>2 DEF TimeInv, Names
<1>10. PartBytes'
  BY <1>1 DEF BytesInv, PartBytes
<1>11. WholeCall(p)'
  <2>1. Laid(bucket, p, u, m)
    BY <1>4, <1>5, <1>7 DEF Laid
  <2>2. bucket' = bucket /\ sent' = sent
    BY <1>1
  <2>3. QED
    BY <1>7, <2>1, <2>2 DEF WholeCall
<1>12. \A d \in Completions \ collided' : \A r \in call'[d] : WholeCall(r)'
  <2>1. ASSUME NEW d \in Completions \ collided, d # c, NEW r \in call[d] PROVE WholeCall(r)'
    <3>1. WholeCall(r)
      BY <2>1 DEF BytesInv
    <3>2. bucket' = bucket /\ sent' = sent
      BY <1>1
    <3>3. QED
      BY <3>1, <3>2 DEF WholeCall
  <2>2. QED
    BY <1>1, <1>8, <1>11, <2>1
<1>13. ObjectIsWhole'
  <2> SUFFICES ASSUME NEW v \in Uploads, ~ \E d \in collided : \E r \in call'[d] : r.up = v
               PROVE  /\ Dest(v) \in DOMAIN bucket => bucket[Dest(v)] = PartKeys(v)
                      /\ \A d \in Completions : \A r \in call'[d] :
                           r.up = v /\ r.result = "done" => Dest(v) \in DOMAIN bucket
    BY <1>1 DEF ObjectIsWhole, PartKeys
  <2>1. ~ \E d \in collided : \E r \in call[d] : r.up = v
    BY <1>1, <1>8 DEF TypeOK
  <2>2. QED
    BY <1>7, <1>8, <2>1 DEF BytesInv, ObjectIsWhole
<1>14. QED
  BY <1>9, <1>10, <1>12, <1>13 DEF BytesInv

(* And objects may go. *)
LEMMA BytesStay ==
  ASSUME BytesInv, UNCHANGED <<sent, call, collided>>,
         \A x \in DOMAIN bucket' : x \in DOMAIN bucket /\ bucket'[x] = bucket[x],
         \A x \in DOMAIN bucket : x \in DOMAIN bucket' \/ x \notin Dests
  PROVE  BytesInv'
<1>1. TimeInv'
  BY DEF BytesInv, TimeInv, Names
<1>2. PartBytes'
  BY DEF BytesInv, PartBytes
<1>3. ASSUME NEW d \in Completions \ collided, NEW r \in call[d] PROVE WholeCall(r)'
  <2> SUFFICES ASSUME r.pc = "compose" PROVE Laid(bucket', r, r.up, sent[r.up])
    BY DEF WholeCall
  <2>1. PICK f, g : /\ Tiles(bucket, f, r.sources, r.up, sent[r.up])
                    /\ Tiles(bucket, g, r.made, r.up, f[r.at])
    BY DEF BytesInv, WholeCall, Laid
  <2>2. PICK b, d2 : b = bucket /\ d2 = bucket'
    OBVIOUS
  <2>3. \A x \in DOMAIN d2 : x \in DOMAIN b /\ d2[x] = b[x]
    BY <2>2
  <2>4. \A h, s, u, n : Tiles(b, h, s, u, n) => Tiles(d2, h, s, u, n)
    BY ONLY <2>3, TilesStay
  <2>5. QED
    BY <2>1, <2>2, <2>4 DEF Laid
<1>4. \A u \in Uploads : Dest(u) \in DOMAIN bucket => Dest(u) \in DOMAIN bucket'
  BY DEF Dests
<1>5. ObjectIsWhole'
  BY <1>4 DEF BytesInv, ObjectIsWhole, PartKeys
<1>6. QED
  BY <1>1, <1>2, <1>3, <1>5 DEF BytesInv

(***************************************************************************)
(* What is composed of parts, by however many levels and calls, is theirs. *)
(***************************************************************************)
THEOREM BytesCorrect == Spec => []BytesInv
<1>1. Init => BytesInv
  <2> SUFFICES ASSUME Init PROVE BytesInv
    OBVIOUS
  <2>1. /\ \A c \in Completions : call[c] = {}
        /\ bucket = [x \in UNION {ToSet(PartKeys(u)) : u \in Uploads} |-> <<x>>]
        /\ sent \in [Uploads -> 1 .. MaxParts]
    BY DEF Init
  <2>2. PartBytes
    <3> SUFFICES ASSUME NEW u \in Uploads, NEW n \in 1 .. MaxParts, Part(u, n) \in DOMAIN bucket
                 PROVE  bucket[Part(u, n)] = Parts(u, n - 1, n)
      BY DEF PartBytes
    <3>1. bucket[Part(u, n)] = <<Part(u, n)>>
      BY <2>1
    <3>2. n - (n - 1) = 1 /\ (n - 1) + 1 = n
      BY MaxPartsAssumption
    <3>3. Parts(u, n - 1, n) = [i \in 1 .. 1 |-> Part(u, (n - 1) + i)]
      BY <3>2 DEF Parts
    <3>4. Parts(u, n - 1, n) = <<Part(u, n)>>
      BY <3>2, <3>3
    <3>5. QED
      BY <3>1, <3>4
  <2>3. \A u \in Uploads : Dest(u) \notin DOMAIN bucket
    <3>1. \A v \in Uploads : \A x \in ToSet(PartKeys(v)) : x \in PartNames
      <4> SUFFICES ASSUME NEW v \in Uploads, NEW x \in ToSet(PartKeys(v)) PROVE x \in PartNames
        OBVIOUS
      <4>1. sent[v] \in 1 .. MaxParts
        BY <2>1
      <4>2. \A n \in 1 .. sent[v] : Part(v, n) \in PartNames
        BY <4>1, MaxPartsAssumption DEF PartNames
      <4>3. QED
        BY <4>2 DEF PartKeys, ToSet
    <3>2. QED
      BY <2>1, <3>1, NamesApart DEF Dests
  <2>4. ObjectIsWhole
    BY <2>1, <2>3 DEF ObjectIsWhole
  <2>5. QED
    BY <2>1, <2>2, <2>4 DEF BytesInv, TimeInv
<1>2. TypeOK /\ Inv /\ BytesInv /\ [Next]_vars => BytesInv'
  <2> SUFFICES ASSUME TypeOK, Inv, BytesInv, [Next]_vars PROVE BytesInv'
    OBVIOUS
  <2>1. ASSUME NEW c \in Completions, NEW u \in Uploads, CompleteMultipartUpload(c, u)
        PROVE  BytesInv'
    BY <2>1, BytesBegin
  <2>2. ASSUME NEW c \in Completions, Step(c) \/ Fault(c) PROVE BytesInv'
    <3>1. PICK q \in call[c] :
            \/ ComposeChunk(c, q) \/ ComposeDest(c, q) \/ Refused(c, q)
            \/ DeleteKey(c, q) \/ Return(c, q)
            \/ ComposeFails(c, q) \/ AnswerLost(c, q) \/ Stop(c, q)
            \/ DeleteLost(c, q) \/ AttrsFail(c, q)
      BY <2>2 DEF Step, Fault
    <3>2. PICK p : Onward(c, q, p) /\ (Makes(c, q, p) \/ Unwinds(c, q, p) \/ Deletes(c, q, p))
      BY <3>1, StepCases
    <3>3. Stores(c, q, p)
      BY <3>1, <3>2, StepStores DEF Onward
    <3>4. QED
      BY <3>2, <3>3, BytesStep
  <2>3. ASSUME NEW u \in Uploads, AbortMultipartUpload(u) PROVE BytesInv'
    BY <2>3, BytesStay DEF AbortMultipartUpload
  <2>4. ASSUME NEW u \in Uploads, NEW n \in 1 .. MaxParts, DeletePart(u, n) PROVE BytesInv'
    <3>1. Part(u, n) \notin Dests
      BY NamesApart DEF PartNames
    <3>2. QED
      BY <2>4, <3>1, BytesStay DEF DeletePart
  <2>5. CASE UNCHANGED vars
    BY <2>5, BytesStay DEF vars
  <2>6. QED
    BY <2>1, <2>2, <2>3, <2>4, <2>5 DEF Next
<1>3. QED
  BY <1>1, <1>2, TypeCorrect, InvCorrect, PTL DEF Spec

(***************************************************************************)
(* An object is all the parts of its upload, in order, or not there,       *)
(* whatever fails half-way, with any number of parts, levels and calls.    *)
(***************************************************************************)
COROLLARY ObjectIsWholeHolds == Spec => []ObjectIsWhole
<1>1. BytesInv => ObjectIsWhole
  BY DEF BytesInv
<1>2. QED
  BY <1>1, BytesCorrect, PTL
=============================================================================
