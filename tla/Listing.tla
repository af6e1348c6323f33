------------------------------ MODULE Listing ------------------------------
(***************************************************************************)
(* Listings, page by page: ListObjects of the four kinds of backend, paged  *)
(* through by an S3 client (continuation tokens, or the markers of version  *)
(* 1) and by the size count of the object browser, while objects come and   *)
(* go.  Keys are numbers in their order.  A key with a slash is in a folder, *)
(* whose number stands for the common prefix "folder/", and on the local     *)
(* backend for the name of a directory; it is less than its keys.            *)
(***************************************************************************)
EXTENDS Integers, FiniteSets

CONSTANTS Keys,   \* of one bucket of the provider, under any prefix
          Up,     \* the folder of a key, or the key itself
          Sizes,  \* values of max-keys
          Kinds   \* subset of {"s3", "gcs", "azure", "local"}

Folders == {Up[k] : k \in Keys} \ Keys

ASSUME KeysAssumption == Keys \subseteq Nat \ {0}
ASSUME UpAssumption ==
  /\ Up \in [Keys -> Nat \ {0}]
  /\ \A k \in Keys : Up[k] # k => Up[k] \in Folders /\ Up[k] < k
  /\ \A j, k \in Keys : j < k => Up[j] <= Up[k]
ASSUME SizesAssumption == Sizes \subseteq Nat \ {0}

VARIABLES kind,     \* of the backend
          objects,  \* keys that are stored
          dirs,     \* folders made on the disk of the local backend, which stay
          walk      \* the listing in progress

\* History: keys stored all the time since the listing began, and at any time;
\* entries that were returned more than once, and tokens that named an entry.
VARIABLES stable, ever, twice, named

history == <<stable, ever, twice, named>>
vars == <<kind, objects, dirs, walk, history>>

Entries == Keys \cup Folders
NoWalk == [pc |-> "idle", style |-> "token", scope |-> 0, delimiter |-> FALSE,
           max |-> 1, after |-> 0, token |-> 0, seen |-> {}]

Init ==
  /\ kind \in Kinds
  /\ objects \in SUBSET Keys
  /\ dirs = IF kind = "local" THEN {Up[k] : k \in objects} \cap Folders ELSE {}
  /\ walk = NoWalk
  /\ stable = {} /\ ever = {} /\ twice = {} /\ named = {}
-----------------------------------------------------------------------------
(***************************************************************************)
(* Other clients                                                           *)
(***************************************************************************)

\* Mutant: the path of the object itself is made a directory.
PutMakesPath(k) ==
  /\ objects' = objects \cup {k}
  /\ dirs' = IF kind = "local" THEN dirs \cup {Up[k]} ELSE dirs
  /\ ever' = IF walk.pc = "idle" THEN {} ELSE ever \cup {k}
  /\ UNCHANGED <<kind, walk, stable, twice, named>>

Put(k) ==
  /\ objects' = objects \cup {k}
  /\ dirs' = IF kind = "local" THEN dirs \cup ({Up[k]} \cap Folders) ELSE dirs
  /\ ever' = IF walk.pc = "idle" THEN {} ELSE ever \cup {k}
  /\ UNCHANGED <<kind, walk, stable, twice, named>>

Delete(k) ==
  /\ objects' = objects \ {k}
  /\ stable' = stable \ {k}
  /\ UNCHANGED <<kind, dirs, walk, ever, twice, named>>
-----------------------------------------------------------------------------
(***************************************************************************)
(* One call of ListObjects                                                 *)
(***************************************************************************)

\* Mutant: the prefix of the mapping is not passed on.
InAnyScope(scope, k) == TRUE

\* The prefix of the request behind that of the mapping: all keys, or a folder with
\* its slash, which is the delimiter too.
InScope(scope, k) == scope = 0 \/ Up[k] = scope

\* What a key is listed as.  Below a folder there is no other.
Entry(q, k) == IF q.delimiter /\ q.scope = 0 THEN Up[k] ELSE k

\* StartOffset of GCS includes its key, and Azure is not told where to start.
Admits(after, k) ==
  CASE kind = "gcs"   -> k >= after
    [] kind = "azure" -> TRUE
    [] OTHER          -> k > after

\* The names in the directory of the bucket, files and directories.  None of them
\* has a slash, to match a prefix with or to be cut at.
Names == {k \in objects : Up[k] = k} \cup dirs

Matching(q) ==
  IF kind = "local"
    THEN {n \in Names : q.scope = 0 /\ Admits(q.after, n)}
    ELSE {Entry(q, k) : k \in {j \in objects : InScope(q.scope, j) /\ Admits(q.after, j)}}

\* Mutant: the entry a token stands for is on both pages.
FromToken(q) == {e \in Matching(q) : e >= q.token}

\* Local: the keys up to the token are skipped.  The others' tokens are opaque
\* and go on behind the last entry.
AfterToken(q) == {e \in Matching(q) : e > q.token}

\* page has the first entries of rest, as many as there may be; Azure may stop before
\* that, and has to be asked for the rest.
IsPage(page, rest, max) ==
  /\ page \subseteq rest
  /\ \A e \in page, f \in rest \ page : e < f
  /\ Cardinality(page) <= max
  /\ page # rest => IF kind = "azure" THEN page # {} ELSE Cardinality(page) = max

\* Mutant: every backend's token is the first entry of the next page.
TokenIsNext(token, page, rest) ==
  token \in rest \ page /\ \A f \in rest \ page : token <= f

\* The first entry of the next page on the local backend, the last of this one on
\* the others.
IsToken(token, page, rest) ==
  IF kind = "local"
    THEN token \in rest \ page /\ \A f \in rest \ page : token <= f
    ELSE token \in page /\ \A e \in page : e <= token
-----------------------------------------------------------------------------
(***************************************************************************)
(* Walks: a client pages until a page is not truncated, whatever it gets.    *)
(***************************************************************************)
Start(style, scope, delimiter, max, after) ==
  /\ walk.pc = "idle"
  /\ style = "stream" => ~delimiter /\ after = 0
  /\ style = "marker" => after = 0
  /\ walk' = [NoWalk EXCEPT !.pc = "paging", !.style = style, !.scope = scope,
                            !.delimiter = delimiter, !.max = max, !.after = after]
  /\ stable' = objects /\ ever' = objects /\ twice' = {} /\ named' = {}
  /\ UNCHANGED <<kind, objects, dirs>>

Keep(page) ==
  /\ twice' = twice \cup (page \cap walk.seen)
  /\ UNCHANGED <<kind, objects, dirs, stable, ever>>

LastPage ==
  /\ walk.pc = "paging"
  /\ LET rest == AfterToken(walk) IN
       /\ IsPage(rest, rest, walk.max)
       /\ walk' = [walk EXCEPT !.pc = "done", !.seen = @ \cup rest]
       /\ Keep(rest)
  /\ UNCHANGED named

\* Mutant: the size count asks for the first page again.
PageOfTokenOnce ==
  /\ walk.pc = "paging" /\ walk.style # "marker"
  /\ LET rest == AfterToken(walk) IN
       \E page \in SUBSET rest, token \in rest :
         /\ page # rest /\ IsPage(page, rest, walk.max)
         /\ IsToken(token, page, rest)
         /\ walk' = [walk EXCEPT !.token = IF walk.style = "stream" THEN 0 ELSE token,
                                 !.seen = @ \cup page]
         /\ named' = named \cup ({token} \ page)
         /\ Keep(page)

\* A truncated page, of version 2 or of the size count.
PageOfToken ==
  /\ walk.pc = "paging" /\ walk.style # "marker"
  /\ LET rest == AfterToken(walk) IN
       \E page \in SUBSET rest, token \in rest :
         /\ page # rest /\ IsPage(page, rest, walk.max)
         /\ IsToken(token, page, rest)
         /\ walk' = [walk EXCEPT !.token = token, !.seen = @ \cup page]
         /\ named' = named \cup ({token} \ page)
         /\ Keep(page)

\* Version 1 has no NextMarker: a client takes the last key of Contents, and has
\* nothing to go on with if there are common prefixes only.
PageOfMarker ==
  /\ walk.pc = "paging" /\ walk.style = "marker"
  /\ LET rest == AfterToken(walk) IN
       \E page \in SUBSET rest :
         LET contents == IF kind = "local" THEN page ELSE page \cap Keys IN
         /\ page # rest /\ IsPage(page, rest, walk.max)
         /\ \/ \E k \in contents :
                 /\ \A j \in contents : j <= k
                 /\ walk' = [walk EXCEPT !.after = k, !.seen = @ \cup page]
            \/ contents = {} /\ walk' = [walk EXCEPT !.pc = "done", !.seen = @ \cup page]
         /\ Keep(page)
  /\ UNCHANGED named

\* A result has been looked at, an error, or the client went away.
Leave ==
  /\ walk.pc # "idle"
  /\ walk' = NoWalk
  /\ stable' = {} /\ ever' = {} /\ twice' = {} /\ named' = {}
  /\ UNCHANGED <<kind, objects, dirs>>

NextPage == PageOfToken \/ PageOfMarker \/ LastPage

Next ==
  \/ \E k \in Keys : Put(k) \/ Delete(k)
  \/ \E style \in {"token", "marker", "stream"}, scope \in Folders \cup {0},
        delimiter \in BOOLEAN, max \in Sizes, after \in Keys \cup {0} :
       Start(style, scope, delimiter, max, after)
  \/ NextPage
  \/ Leave

Spec == Init /\ [][Next]_vars

\* The size count loops by itself, and a client that pages goes on.
FairSpec == Spec /\ WF_vars(NextPage)
-----------------------------------------------------------------------------
TypeOK ==
  /\ kind \in Kinds
  /\ objects \subseteq Keys
  /\ dirs \subseteq Folders
  /\ walk \in [pc : {"idle", "paging", "done"}, style : {"token", "marker", "stream"},
               scope : Folders \cup {0}, delimiter : BOOLEAN, max : Sizes \cup {1},
               after : Entries \cup {0}, token : Entries \cup {0}, seen : SUBSET Entries]
  /\ stable \subseteq Keys /\ ever \subseteq Keys
  /\ twice \subseteq Entries /\ named \subseteq Entries

\* A key of the bucket all the while, that the client asked for, is listed, however
\* many others come and go between the pages: ListObjectsV2 semantics of
\* backend.go.  On the local backend but for the keys in folders, and for each key
\* a token named: it falls between two pages.  A start the client has given itself
\* counts from the first page on, so walks by marker are the next property's.
EveryKeyListed ==
  walk.pc = "done" /\ walk.style # "marker" =>
    \A k \in stable :
      (walk.scope = 0 \/ Up[k] = walk.scope) /\ k > walk.after =>
        \/ Entry(walk, k) \in walk.seen
        \/ kind = "local" /\ (Up[k] # k \/ k \in named \/ walk.scope # 0)

\* No entry is on two pages, but for walks by marker: a common prefix may sort
\* behind the last key of its page, and two backends do not start behind that key,
\* GCS repeating one on each page, Azure the page.
NoEntryTwice ==
  \A e \in twice : walk.style = "marker" /\ (e \in Folders \/ kind \in {"gcs", "azure"})

\* What is listed was in the bucket, under the prefix, and behind the start the
\* client gave, but for directories of the local backend; GCS gives the start itself
\* too, and Azure is not told.
NothingElse ==
  \A e \in walk.seen :
    \/ \E k \in ever :
         /\ e \in {k, Up[k]} /\ (walk.scope = 0 \/ Up[k] = walk.scope)
         /\ \/ walk.style = "marker" \/ k > walk.after
            \/ kind = "azure" \/ (kind = "gcs" /\ k = walk.after)
    \/ kind = "local" /\ e \in Folders

\* A client that pages by token comes to an end, and so does the size count.
\* By marker it need not on the two backends that do not start behind it.
WalkEnds ==
  (walk.pc = "paging" /\ (walk.style # "marker" \/ kind \in {"s3", "local"}))
    ~> walk.pc # "paging"
=============================================================================
