--------------------------- MODULE ListingProofs ---------------------------
(* What holds of Listing for every set of keys, folders, page sizes and kinds. *)
EXTENDS Listing, TLAPS

Walk == [pc : {"idle", "paging", "done"}, style : {"token", "marker", "stream"},
         scope : Folders \cup {0}, delimiter : BOOLEAN, max : Sizes \cup {1},
         after : Entries \cup {0}, token : Entries \cup {0}, seen : SUBSET Entries]

(***************************************************************************)
(* The inductive strengthening of NoEntryTwice: what has been seen is not  *)
(* behind the point the walk goes on from.                                 *)
(***************************************************************************)
SeenIsBehind ==
  walk.pc = "paging" =>
    IF walk.style # "marker"
      THEN \A e \in walk.seen : e <= walk.token
      ELSE kind \notin {"gcs", "azure"} => \A e \in walk.seen \cap Keys : e <= walk.after

TwiceInv == SeenIsBehind /\ NoEntryTwice

(***************************************************************************)
(* The inductive strengthening of EveryKeyListed: it holds of the keys up   *)
(* to the token before the walk is done.                                   *)
(***************************************************************************)
Excused(k) == kind = "local" /\ (Up[k] # k \/ k \in named \/ walk.scope # 0)

Passed(k) == walk.pc = "done" \/ (walk.pc = "paging" /\ Entry(walk, k) <= walk.token)

ListedSoFar ==
  walk.style # "marker" =>
    \A k \in stable :
      InScope(walk.scope, k) /\ k > walk.after /\ Passed(k) =>
        Entry(walk, k) \in walk.seen \/ Excused(k)

ListedInv == stable \subseteq objects /\ ListedSoFar

(***************************************************************************)
(* The inductive strengthening of NothingElse.                             *)
(***************************************************************************)
ElseInv ==
  /\ walk.pc # "idle" => objects \subseteq ever
  /\ walk.pc = "idle" => walk.seen = {}
  /\ NothingElse
-----------------------------------------------------------------------------
(* Entries are positive numbers, and folders are not keys. *)
LEMMA EntriesArePositive ==
  /\ Entries \subseteq Nat \ {0}
  /\ Folders \cap Keys = {}
  /\ \A k \in Keys : Up[k] \in Entries
  BY KeysAssumption, UpAssumption DEF Entries, Folders

(* The points a walk goes on from, and the keys, are numbers. *)
LEMMA PointsAreNumbers ==
  ASSUME TypeOK
  PROVE  walk.after \in Nat /\ walk.token \in Nat /\ objects \subseteq Nat /\ Entries \subseteq Nat
<1>1. walk.after \in Entries \cup {0} /\ walk.token \in Entries \cup {0}
  BY DEF TypeOK
<1>2. objects \subseteq Entries
  BY DEF TypeOK, Entries
<1>3. Entries \cup {0} \subseteq Nat
  BY EntriesArePositive
<1>4. QED
  BY <1>1, <1>2, <1>3

(* What a page is made of are entries. *)
LEMMA MatchingTyped ==
  ASSUME TypeOK
  PROVE  AfterToken(walk) \subseteq Entries
<1>1. \A k \in objects : Entry(walk, k) \in Entries
  BY EntriesArePositive DEF TypeOK, Entry, Entries
<1>2. Names \subseteq Entries
  BY DEF TypeOK, Names, Entries
<1>3. Matching(walk) \subseteq Entries
  BY <1>1, <1>2 DEF Matching
<1>4. QED
  BY <1>3 DEF AfterToken

(* A key that is wanted and stored is on this page or a later one; on the local     *)
(* backend only if it is in no folder, and nothing but the whole bucket is listed. *)
LEMMA WantedIsAhead ==
  ASSUME TypeOK, NEW k \in objects, InScope(walk.scope, k), k > walk.after,
         Entry(walk, k) > walk.token, ~Excused(k)
  PROVE  Entry(walk, k) \in AfterToken(walk)
<1> USE DEF AfterToken, Matching
<1>1. k \in Nat /\ walk.after \in Nat
  BY PointsAreNumbers
<1>2. Admits(walk.after, k)
  BY <1>1 DEF Admits
<1>3. CASE kind = "local"
  <2>1. Up[k] = k /\ walk.scope = 0
    BY <1>3 DEF Excused
  <2>2. Entry(walk, k) = k /\ k \in Names
    BY <2>1 DEF Entry, Names
  <2>3. QED
    BY <1>2, <1>3, <2>1, <2>2
<1>4. CASE kind # "local"
  BY <1>2, <1>4
<1>5. QED
  BY <1>3, <1>4

(* The entries of a page of a walk by marker that are keys are behind the marker. *)
LEMMA BehindMarker ==
  ASSUME TypeOK, kind \notin {"gcs", "azure"}, NEW e \in AfterToken(walk),
         e \in Keys \/ kind = "local"
  PROVE  e > walk.after
<1> USE DEF AfterToken, Matching, Admits
<1>1. CASE kind = "local"
  BY <1>1
<1>2. CASE kind # "local"
  <2>1. PICK k \in objects : e = Entry(walk, k) /\ k > walk.after
    BY <1>2
  <2>2. e = k
    BY <1>2, <2>1, UpAssumption, EntriesArePositive DEF Entry, TypeOK
  <2>3. QED
    BY <2>1, <2>2
<1>3. QED
  BY <1>1, <1>2

(* What is on a page is in the bucket, under the prefix and behind the start. *)
LEMMA PageIsOfBucket ==
  ASSUME TypeOK, NEW e \in AfterToken(walk)
  PROVE  \/ \E k \in objects :
              /\ e \in {k, Up[k]} /\ (walk.scope = 0 \/ Up[k] = walk.scope)
              /\ \/ k > walk.after \/ kind = "azure"
                 \/ (kind = "gcs" /\ k = walk.after)
         \/ kind = "local" /\ e \in Folders
<1> USE DEF AfterToken, Matching, Admits
<1>1. CASE kind = "local"
  <2>1. e \in Names /\ walk.scope = 0 /\ e > walk.after
    BY <1>1
  <2>2. QED
    BY <1>1, <2>1 DEF Names, TypeOK
<1>2. CASE kind # "local"
  <2>1. PICK k \in objects : /\ e = Entry(walk, k) /\ InScope(walk.scope, k)
                             /\ Admits(walk.after, k)
    BY <1>2
  <2>2. k \in Nat /\ walk.after \in Nat
    BY PointsAreNumbers
  <2>3. e \in {k, Up[k]} /\ (walk.scope = 0 \/ Up[k] = walk.scope)
    BY <2>1 DEF Entry, InScope
  <2>4. QED
    BY <2>1, <2>2, <2>3
<1>3. QED
  BY <1>1, <1>2
-----------------------------------------------------------------------------
(***************************************************************************)
(* Type correctness.                                                       *)
(***************************************************************************)
THEOREM TypeCorrect == Spec => []TypeOK
<1>1. Init => TypeOK
  BY DEF Init, TypeOK, NoWalk
<1>2. TypeOK /\ [Next]_vars => TypeOK'
  <2> SUFFICES ASSUME TypeOK, [Next]_vars PROVE TypeOK'
    OBVIOUS
  <2>0. walk \in Walk /\ AfterToken(walk) \subseteq Entries
    BY MatchingTyped DEF TypeOK, Walk
  <2>1. ASSUME NEW k \in Keys, Put(k) PROVE TypeOK'
    BY <2>1 DEF Put, TypeOK
  <2>2. ASSUME NEW k \in Keys, Delete(k) PROVE TypeOK'
    BY <2>2 DEF Delete, TypeOK
  <2>3. ASSUME NEW style \in {"token", "marker", "stream"}, NEW scope \in Folders \cup {0},
               NEW delimiter \in BOOLEAN, NEW max \in Sizes, NEW after \in Keys \cup {0},
               Start(style, scope, delimiter, max, after)
        PROVE  TypeOK'
    <3>1. walk' \in Walk
      BY <2>3 DEF Start, NoWalk, Walk, Entries
    <3>2. QED
      BY <2>3, <3>1 DEF Start, TypeOK, Walk
  <2>4. CASE PageOfToken
    <3>1. PICK page \in SUBSET AfterToken(walk), token \in AfterToken(walk) :
            /\ walk' = [walk EXCEPT !.token = token, !.seen = @ \cup page]
            /\ named' = named \cup ({token} \ page)
            /\ Keep(page)
      BY <2>4 DEF PageOfToken
    <3>2. walk' \in Walk
      BY <2>0, <3>1 DEF Walk
    <3>3. QED
      BY <2>0, <3>1, <3>2 DEF Keep, TypeOK, Walk
  <2>5. CASE PageOfMarker
    <3>1. PICK page \in SUBSET AfterToken(walk) :
            /\ \/ \E k \in page : walk' = [walk EXCEPT !.after = k, !.seen = @ \cup page]
               \/ walk' = [walk EXCEPT !.pc = "done", !.seen = @ \cup page]
            /\ Keep(page)
      BY <2>5 DEF PageOfMarker
    <3>2. walk' \in Walk
      BY <2>0, <3>1 DEF Walk
    <3>3. QED
      BY <2>0, <2>5, <3>1, <3>2 DEF PageOfMarker, Keep, TypeOK, Walk
  <2>6. CASE LastPage
    <3>1. walk' \in Walk
      BY <2>0, <2>6 DEF LastPage, Walk
    <3>2. QED
      BY <2>0, <2>6, <3>1 DEF LastPage, Keep, TypeOK, Walk
  <2>7. CASE Leave
    BY <2>7 DEF Leave, NoWalk, TypeOK
  <2>8. CASE UNCHANGED vars
    BY <2>8 DEF vars, history, TypeOK
  <2>9. QED
    BY <2>1, <2>2, <2>3, <2>4, <2>5, <2>6, <2>7, <2>8 DEF Next, NextPage
<1>3. QED
  BY <1>1, <1>2, PTL DEF Spec
-----------------------------------------------------------------------------
(* A page, whatever it ends with, repeats nothing that is behind the walk. *)
LEMMA PageIsNew ==
  ASSUME TypeOK, TwiceInv, walk.pc = "paging", NEW page \in SUBSET AfterToken(walk),
         Keep(page), walk'.style = walk.style
  PROVE  NoEntryTwice'
<1>0. walk \in Walk /\ AfterToken(walk) \subseteq Entries
  BY MatchingTyped DEF TypeOK, Walk
<1>1. SUFFICES ASSUME NEW e \in page, e \in walk.seen
               PROVE  walk.style = "marker" /\ (e \in Folders \/ kind \in {"gcs", "azure"})
  BY DEF Keep, NoEntryTwice, TwiceInv
<1>2. e \in Nat /\ walk.token \in Nat /\ walk.after \in Nat /\ e > walk.token
  BY <1>0, PointsAreNumbers DEF AfterToken
<1>3. walk.style = "marker"
  BY <1>1, <1>2 DEF TwiceInv, SeenIsBehind
<1>4. ASSUME e \notin Folders, kind \notin {"gcs", "azure"} PROVE FALSE
  <2>1. e \in Keys
    BY <1>0, <1>4 DEF Entries
  <2>2. e > walk.after
    BY <1>4, <2>1, BehindMarker
  <2>3. e <= walk.after
    BY <1>1, <1>3, <1>4, <2>1 DEF TwiceInv, SeenIsBehind
  <2>4. QED
    BY <1>2, <2>2, <2>3
<1>5. QED
  BY <1>3, <1>4

(***************************************************************************)
(* No entry is returned on two pages, walks by marker excepted, whatever    *)
(* is written and deleted between them.                                    *)
(***************************************************************************)
THEOREM NoEntryTwiceHolds == Spec => []NoEntryTwice
<1>1. Init => TwiceInv
  BY DEF Init, NoWalk, TwiceInv, SeenIsBehind, NoEntryTwice
<1>2. TypeOK /\ TwiceInv /\ [Next]_vars => TwiceInv'
  <2> SUFFICES ASSUME TypeOK, TwiceInv, [Next]_vars PROVE TwiceInv'
    OBVIOUS
  <2>0. /\ walk \in Walk /\ AfterToken(walk) \subseteq Entries
        /\ Entries \subseteq Nat
    BY MatchingTyped, EntriesArePositive DEF TypeOK, Walk
  <2> USE DEF TwiceInv
  <2>1. ASSUME NEW k \in Keys, Put(k) \/ Delete(k) PROVE TwiceInv'
    BY <2>1 DEF Put, Delete, SeenIsBehind, NoEntryTwice
  <2>3. ASSUME NEW style \in {"token", "marker", "stream"}, NEW scope \in Folders \cup {0},
               NEW delimiter \in BOOLEAN, NEW max \in Sizes, NEW after \in Keys \cup {0},
               Start(style, scope, delimiter, max, after)
        PROVE  TwiceInv'
    <3>1. walk'.seen = {} /\ twice' = {}
      BY <2>3 DEF Start, NoWalk
    <3>2. QED
      BY <3>1 DEF SeenIsBehind, NoEntryTwice
  <2>4. CASE PageOfToken
    <3>1. PICK page \in SUBSET AfterToken(walk), token \in AfterToken(walk) :
            /\ IsPage(page, AfterToken(walk), walk.max)
            /\ IsToken(token, page, AfterToken(walk))
            /\ walk' = [walk EXCEPT !.token = token, !.seen = @ \cup page]
            /\ Keep(page)
      BY <2>4 DEF PageOfToken
    <3>2. /\ walk.pc = "paging" /\ walk.style # "marker"
          /\ walk'.style = walk.style /\ walk'.token = token /\ walk'.seen = walk.seen \cup page
      BY <2>0, <2>4, <3>1 DEF PageOfToken, Walk
    <3>3. NoEntryTwice'
      BY <3>1, <3>2, PageIsNew
    <3>4. \A e \in page : e <= token
      BY <2>0, <3>1 DEF IsPage, IsToken
    <3>5. \A e \in walk.seen : e <= token
      BY <2>0, <3>1, <3>2 DEF SeenIsBehind, AfterToken, Walk
    <3>6. QED
      BY <3>2, <3>3, <3>4, <3>5 DEF SeenIsBehind
  <2>5. CASE PageOfMarker
    <3>0. walk.pc = "paging" /\ walk.style = "marker"
      BY <2>5 DEF PageOfMarker
    <3>1. PICK page \in SUBSET AfterToken(walk) :
            LET contents == IF kind = "local" THEN page ELSE page \cap Keys IN
            /\ \/ \E k \in contents : /\ \A j \in contents : j <= k
                                      /\ walk' = [walk EXCEPT !.after = k, !.seen = @ \cup page]
               \/ walk' = [walk EXCEPT !.pc = "done", !.seen = @ \cup page]
            /\ Keep(page)
      BY <2>5 DEF PageOfMarker
    <3>2. walk'.style = walk.style
      BY <2>0, <3>1 DEF Walk
    <3>3. NoEntryTwice'
      BY <3>0, <3>1, <3>2, PageIsNew
    <3>4. CASE walk' = [walk EXCEPT !.pc = "done", !.seen = @ \cup page]
      BY <2>0, <3>3, <3>4 DEF SeenIsBehind, Walk
    <3>5. ASSUME NEW k \in page, k \in Keys \/ kind = "local",
                 \A j \in page \cap Keys : j <= k,
                 walk' = [walk EXCEPT !.after = k, !.seen = @ \cup page]
          PROVE  TwiceInv'
      <4>1. walk'.after = k /\ walk'.seen = walk.seen \cup page /\ walk'.style = "marker"
        BY <2>0, <3>0, <3>5 DEF Walk
      <4>2. ASSUME kind \notin {"gcs", "azure"}, NEW e \in walk.seen \cap Keys PROVE e <= k
        <5>1. e <= walk.after
          BY <3>0, <4>2 DEF SeenIsBehind
        <5>2. k > walk.after
          BY <3>5, <4>2, BehindMarker
        <5>3. e \in Nat /\ k \in Nat /\ walk.after \in Nat
          BY <2>0 DEF Walk, Entries
        <5>4. QED
          BY <5>1, <5>2, <5>3
      <4>3. kind' = kind
        BY <3>1 DEF Keep
      <4>4. QED
        BY <3>3, <3>5, <4>1, <4>2, <4>3 DEF SeenIsBehind
    <3>6. QED
      BY <3>1, <3>4, <3>5
  <2>6. CASE LastPage
    <3>1. /\ walk.pc = "paging" /\ walk'.pc = "done" /\ walk'.style = walk.style
          /\ Keep(AfterToken(walk))
      BY <2>0, <2>6 DEF LastPage, Walk
    <3>2. NoEntryTwice'
      BY <3>1, PageIsNew
    <3>3. QED
      BY <3>1, <3>2 DEF SeenIsBehind
  <2>7. CASE Leave
    BY <2>7 DEF Leave, NoWalk, SeenIsBehind, NoEntryTwice
  <2>8. CASE UNCHANGED vars
    BY <2>8 DEF vars, history, SeenIsBehind, NoEntryTwice
  <2>9. QED
    BY <2>1, <2>3, <2>4, <2>5, <2>6, <2>7, <2>8 DEF Next, NextPage
<1>3. QED
  BY <1>1, <1>2, TypeCorrect, PTL DEF Spec, TwiceInv
-----------------------------------------------------------------------------
(***************************************************************************)
(* Every key that stays and is asked for is listed, but for what is said   *)
(* of the local backend.                                                   *)
(***************************************************************************)
THEOREM EveryKeyListedHolds == Spec => []EveryKeyListed
<1>1. Init => ListedInv
  BY DEF Init, ListedInv, ListedSoFar
<1>2. TypeOK /\ ListedInv /\ [Next]_vars => ListedInv'
  <2> SUFFICES ASSUME TypeOK, ListedInv, [Next]_vars PROVE ListedInv'
    OBVIOUS
  <2>0. /\ walk \in Walk /\ AfterToken(walk) \subseteq Entries
        /\ Entries \subseteq Nat \ {0} /\ stable \subseteq Keys
        /\ \A k \in stable : Entry(walk, k) \in Nat
    BY MatchingTyped, EntriesArePositive DEF TypeOK, Walk, Entry, Entries
  <2> USE DEF ListedInv
  <2>1. ASSUME NEW k \in Keys, Put(k) \/ Delete(k) PROVE ListedInv'
    BY <2>1 DEF Put, Delete, ListedSoFar, Passed, Excused, Entry, InScope
  <2>3. ASSUME NEW style \in {"token", "marker", "stream"}, NEW scope \in Folders \cup {0},
               NEW delimiter \in BOOLEAN, NEW max \in Sizes, NEW after \in Keys \cup {0},
               Start(style, scope, delimiter, max, after)
        PROVE  ListedInv'
    <3>1. walk'.pc = "paging" /\ walk'.token = 0 /\ stable' = objects /\ objects' = objects
      BY <2>3 DEF Start, NoWalk
    <3>2. \A k \in Keys : Entry(walk', k) \in Nat \ {0}
      BY EntriesArePositive DEF Entry, Entries
    <3>3. \A k \in stable' : ~Passed(k)'
      BY <3>1, <3>2 DEF Passed, TypeOK, Entry
    <3>4. QED
      BY <3>1, <3>3 DEF ListedSoFar
  <2>4. CASE PageOfToken
    <3>1. PICK page \in SUBSET AfterToken(walk), token \in AfterToken(walk) :
            /\ IsPage(page, AfterToken(walk), walk.max)
            /\ IsToken(token, page, AfterToken(walk))
            /\ walk' = [walk EXCEPT !.token = token, !.seen = @ \cup page]
            /\ named' = named \cup ({token} \ page)
            /\ Keep(page)
      BY <2>4 DEF PageOfToken
    <3>2. /\ walk.pc = "paging" /\ walk.style # "marker" /\ walk'.pc = "paging"
          /\ walk'.scope = walk.scope /\ walk'.after = walk.after
          /\ walk'.delimiter = walk.delimiter
          /\ walk'.token = token /\ walk'.seen = walk.seen \cup page
          /\ kind' = kind /\ stable' = stable /\ objects' = objects
      BY <2>0, <2>4, <3>1 DEF PageOfToken, Keep, Walk
    <3>3. ASSUME NEW k \in stable, InScope(walk.scope, k), k > walk.after,
                 Entry(walk, k) <= token, Entry(walk, k) \notin walk.seen \cup page,
                 ~Excused(k)'
          PROVE  FALSE
      <4>1. ~Excused(k) /\ (kind = "local" => Entry(walk, k) # token)
        BY <3>1, <3>2, <3>3 DEF Excused, Entry
      <4>2. ~Passed(k)
        BY <3>2, <3>3, <4>1 DEF ListedSoFar
      <4>3. Entry(walk, k) > walk.token
        BY <2>0, <3>2, <4>2, PointsAreNumbers DEF Passed
      <4>4. Entry(walk, k) \in AfterToken(walk) \ page
        BY <3>3, <4>1, <4>3, WantedIsAhead
      <4>5. CASE kind = "local"
        BY <2>0, <3>1, <3>3, <4>1, <4>4, <4>5 DEF IsToken
      <4>6. CASE kind # "local"
        BY <2>0, <3>1, <3>3, <4>4, <4>6 DEF IsToken, IsPage
      <4>7. QED
        BY <4>5, <4>6
    <3>4. \A k : Entry(walk', k) = Entry(walk, k)
      BY <3>2 DEF Entry
    <3>5. ListedSoFar'
      BY <3>2, <3>3, <3>4 DEF ListedSoFar, Passed, InScope
    <3>6. QED
      BY <3>2, <3>5
  <2>5. CASE PageOfMarker
    <3>1. walk'.style = "marker" /\ stable' = stable /\ objects' = objects
      BY <2>0, <2>5 DEF PageOfMarker, Keep, Walk
    <3>2. QED
      BY <3>1 DEF ListedSoFar
  <2>6. CASE LastPage
    <3>2. /\ walk.pc = "paging"
          /\ walk'.style = walk.style /\ walk'.scope = walk.scope /\ walk'.after = walk.after
          /\ walk'.delimiter = walk.delimiter
          /\ walk'.seen = walk.seen \cup AfterToken(walk)
          /\ kind' = kind /\ stable' = stable /\ objects' = objects /\ named' = named
      BY <2>0, <2>6 DEF LastPage, Keep, Walk
    <3>3. ASSUME NEW k \in stable, walk.style # "marker", InScope(walk.scope, k), k > walk.after,
                 Entry(walk, k) \notin walk.seen, ~Excused(k)
          PROVE  Entry(walk, k) \in AfterToken(walk)
      <4>1. ~Passed(k)
        BY <3>3 DEF ListedSoFar
      <4>2. Entry(walk, k) > walk.token
        BY <2>0, <3>2, <4>1, PointsAreNumbers DEF Passed
      <4>3. QED
        BY <3>3, <4>2, WantedIsAhead
    <3>4. \A k : Entry(walk', k) = Entry(walk, k) /\ Excused(k)' = Excused(k)
      BY <3>2 DEF Entry, Excused
    <3>5. ListedSoFar'
      BY <3>2, <3>3, <3>4 DEF ListedSoFar, InScope
    <3>6. QED
      BY <3>2, <3>5
  <2>7. CASE Leave
    BY <2>7 DEF Leave, NoWalk, ListedSoFar
  <2>8. CASE UNCHANGED vars
    BY <2>8 DEF vars, history, ListedSoFar, Passed, Excused, Entry, InScope
  <2>9. QED
    BY <2>1, <2>3, <2>4, <2>5, <2>6, <2>7, <2>8 DEF Next, NextPage
<1>3. ListedInv => EveryKeyListed
  BY DEF ListedInv, ListedSoFar, EveryKeyListed, Passed, Excused, InScope
<1>4. QED
  BY <1>1, <1>2, <1>3, TypeCorrect, PTL DEF Spec
-----------------------------------------------------------------------------
(***************************************************************************)
(* Nothing is listed that was not in the bucket, under the prefix and      *)
(* behind the start, but for what is said of three backends.               *)
(***************************************************************************)
THEOREM NothingElseHolds == Spec => []NothingElse
<1>1. Init => ElseInv
  BY DEF Init, NoWalk, ElseInv, NothingElse
<1>2. TypeOK /\ ElseInv /\ [Next]_vars => ElseInv'
  <2> SUFFICES ASSUME TypeOK, ElseInv, [Next]_vars PROVE ElseInv'
    OBVIOUS
  <2>0. walk \in Walk
    BY DEF TypeOK, Walk
  <2> USE DEF ElseInv
  <2>1. ASSUME NEW k \in Keys, Put(k) PROVE ElseInv'
    BY <2>1 DEF Put, NothingElse
  <2>2. ASSUME NEW k \in Keys, Delete(k) PROVE ElseInv'
    BY <2>2 DEF Delete, NothingElse
  <2>3. ASSUME NEW style \in {"token", "marker", "stream"}, NEW scope \in Folders \cup {0},
               NEW delimiter \in BOOLEAN, NEW max \in Sizes, NEW after \in Keys \cup {0},
               Start(style, scope, delimiter, max, after)
        PROVE  ElseInv'
    <3>1. walk'.seen = {} /\ ever' = objects /\ objects' = objects
      BY <2>3 DEF Start, NoWalk
    <3>2. QED
      BY <3>1 DEF NothingElse
  <2>4. ASSUME NEW page \in SUBSET AfterToken(walk), walk.pc = "paging", Keep(page),
               walk'.seen = walk.seen \cup page, walk'.pc # "idle",
               walk'.scope = walk.scope, walk'.style = walk.style,
               walk'.style = "marker" \/ walk'.after = walk.after
        PROVE  ElseInv'
    <3>1. objects' = objects /\ ever' = ever /\ kind' = kind /\ objects \subseteq ever
      BY <2>4 DEF Keep
    <3>2. ASSUME NEW e \in page
          PROVE  \/ \E k \in ever :
                      /\ e \in {k, Up[k]} /\ (walk.scope = 0 \/ Up[k] = walk.scope)
                      /\ \/ walk.style = "marker" \/ k > walk.after
                         \/ kind = "azure" \/ (kind = "gcs" /\ k = walk.after)
                 \/ kind = "local" /\ e \in Folders
      BY <3>1, PageIsOfBucket
    <3>3. NothingElse'
      BY <2>4, <3>1, <3>2 DEF NothingElse
    <3>4. QED
      BY <2>4, <3>1, <3>3
  <2>5. CASE PageOfToken
    BY <2>0, <2>4, <2>5 DEF PageOfToken, Walk
  <2>6. CASE PageOfMarker
    BY <2>0, <2>4, <2>6 DEF PageOfMarker, Walk
  <2>7. CASE LastPage
    BY <2>0, <2>4, <2>7 DEF LastPage, Walk
  <2>8. CASE Leave
    BY <2>8 DEF Leave, NoWalk, NothingElse
  <2>9. CASE UNCHANGED vars
    BY <2>9 DEF vars, history, NothingElse
  <2>10. QED
    BY <2>1, <2>2, <2>3, <2>5, <2>6, <2>7, <2>8, <2>9 DEF Next, NextPage
<1>3. QED
  BY <1>1, <1>2, TypeCorrect, PTL DEF Spec, ElseInv
=============================================================================
