# Storage gateway: a TLA+ model

The storage gateway is an S3 front end for the buckets of other providers. A
tenant's client signs an S3 request with an access key of the gateway; the
gateway looks the key up, resolves the bucket name of the request to a *store*
(a provider account with encrypted credentials) and a bucket in it, takes an
SDK client for the store from a pool, and forwards the operation. An admin API
creates, changes and deletes tenants, keys, stores and bucket mappings, and a
tool rotates the master key.

The state is in four places: PostgreSQL has the truth, Redis caches the two
lookups every request makes, each gateway process keeps the SDK clients it has
built, and the providers (or the local disk) have the objects. Several processes
may run over the same PostgreSQL and Redis (README.md of the repository, "Key
rotation": "Scale instances to zero"). What a test hardly reaches is whether
these agree while requests, admin calls and the tool run between each other's
steps, and what is left behind when a step fails.

## Inventory

| Part | State | Operations | Interacts with | Hard behaviour |
|---|---|---|---|---|
| Access-key registry (`registry/cache.go`, `postgres.go`, `admin/keys.go`) | rows of `access_keys`; Redis `sgw:ak:*` with a TTL, `NOT_FOUND` for 30 s | lookup (GET, SELECT, SET), create, set read-only, revoke (list, UPDATE, DEL) | `authMiddleware`, admin API | a write-back overtaken by an eviction, an eviction that is lost, revocation racing with a change |
| Bucket registry (`registry/cache.go`, `postgres.go`, `admin/stores.go`, `admin/buckets.go`) | rows of `stores`, `bucket_mappings`; Redis `sgw:bm:*` | resolve, allowed origins; create/update/delete store, create/delete mapping, each with its list and its DELs | S3 handlers, CORS preflight, admin API | the same, plus the order of eviction and deletion, negative entries, a bucket name that changes tenant, the key prefix |
| Client pool (`backend/factory.go`) | per process, a map from store to client | Get (look, build, look again, insert), Invalidate | handlers, object browser, admin API | a client built from an old route, other processes |
| S3 authentication (`api/s3/auth.go`) | none | parse, verify, refuse writes of read-only keys | access-key registry | none of its own |
| Multipart uploads (`api/s3/multipart.go`) | rows of `multipart_uploads`; the upload at the provider | create, part, complete, abort | bucket registry, pool, backend | two records of one upload, crash between them, retries and races, a mapping that changes meanwhile |
| Object handlers (`api/s3/objects.go`) | none | PUT, GET, DELETE, deletion of several keys; the reader of aws-chunked bodies | backend | bodies that break off, readers and writers of one object, ranges at the edges of their integers |
| Listings (`api/s3/buckets.go`, `admin/browse.go`) | none; a token at the client | ListObjects of version 1 and 2, the size count of the object browser | backend | paging while keys come and go, tokens and markers of four providers, termination |
| Backends (`backend/local.go`, `gcs.go`, `s3.go`, `azure.go`) | files, objects at the provider | the `Backend` interface | SDKs | partial completion, truncation, calls that are two calls, the 32-source limit of GCS |
| Rotation tool (`cmd/rotate-key`) | none; rewrites two tables, flushes Redis | probe, re-encrypt in one transaction, flush | PostgreSQL, Redis, gateways that should be down | a stop between commit and flush, gateways that run |
| Wiring (`cmd/gateway`, `config`, `db`, `health`) | none | start, probes, shutdown with a deadline | all | calls cut off by the deadline |

What makes each part correct: the cache never differs from the tables but for
a few named races, and comes to agree; a lookup answers what was true while it
ran; no tenant is ever given the store or the client of another; the pool has
one client per store and process and gives it up when the store changes; an
upload is completed once, under the key it was created for, and leaves nothing
behind; a PUT that was acknowledged is stored whole, and a GET delivers one
version; a listing returns every key once and ends; a rotation is all or
nothing, and what it leaves in Redis can be opened.

## Modules

| Module | Models |
|---|---|
| `AccessKeys` | keys behind the cache: requests being authenticated and admin calls |
| `BucketRoutes` | routes of buckets behind the cache: requests, preflights and admin calls |
| `BackendPool` | the pools of several processes |
| `Gateway` | extends `BucketRoutes`, instantiates `BackendPool`: requests and the object browser use the pools, updates invalidate them |
| `Multipart` | uploads in parts: the record in PostgreSQL, the handlers, and the four kinds of backend |
| `ComposeTree` | what a completion on GCS does: compositions of a limited number of sources, their temporary objects |
| `Objects` | PUT, GET and DELETE on the four kinds of backend; extends the next two |
| `ChunkedReader`, `Ranges` | the reader of aws-chunked bodies and the arithmetic of Range headers, as operators with reference definitions beside them (`Framed` says as a predicate what `Encode` produces) |
| `Listing` | listings page by page, by S3 clients and by the size count |
| `KeyRotation` | the rotation tool and gateways that come and go with any key |
| `*Proofs` | theorems about `AccessKeys`, `BackendPool`, `KeyRotation`, `Listing`, `Multipart`, `ComposeTree`, `Objects` and `Gateway`, those about `BucketRoutes` at the beginning of `GatewayProofs` |
| `MC*` | the instances TLC checks |

### Routes, keys and pools

In `AccessKeys` and `BucketRoutes` every round trip to PostgreSQL or Redis is
an action, and between two of them anything else may run. `req[r]` is a request
in progress (`pc`: `get`, `select`, `fill`, then `check`/`read`/`write` or
`use`), `adm[a]` an admin call in progress, with what it carries from one
statement to the next: the rows it has listed, the buckets still to be evicted,
the presigned mode to be written. A call that would change nothing (wrong
tenant, no row) is left out or ends in an action of its own (`RowGone`,
`RevokeFails`). `Faults` switches on the failures: Redis that does not answer
(`Miss` of an entry that is there, `FillLost`, `EvictLost`), PostgreSQL errors
and clients or processes that go away (`Abandon`, `Fail`).

A row of `access_keys` is its status (`rw`, `ro`, `revoked`, `absent`): the
secret never changes. The answer to a bucket lookup is a set with at most one
route, and the empty set is `NOT_FOUND`. A route has the mapping it was read
from, which stands for the name of the provider's bucket, the prefix of its
keys, the store, and the columns an update may change: configuration, presigned
mode and allowed origins. What `Fill` puts in the cache is `Cached(route)`: the
code caches the bucket name it has already split from its prefix, so an entry
has none.

`Gateway` adds, per process, the map from stores to clients. `UseRoute`,
`Insert`, `Yield` and `Reply` are the four ends of `Pool.Get` for a request,
`BrowseReads`, `BrowseAsks`, `BrowseEnds` the object browser, which bypasses
the cache but not the pool; `AdminReturns` ends an update or deletion with
`pool.Invalidate` in its own process, `AdminFails` returns before it.

### Multipart uploads

A request is a record `q` in its slot: `pc`, the upload, the place (target and
key) it works on, and the part it sends or has copied. The first step of a call
reads the record and resolves the bucket; since a mapping may change at any
time, and a cached answer has lost its prefix, any of `Targets` may come of it,
and the model of the routes is not needed. Then there is one step at the
provider (`UploadPart`, `CompleteMultipartUpload`, `AbortMultipartUpload`; on
the local backend `Truncate`, `CopyPart` per part and `RemoveParts`, or `PartsStay`
where `os.RemoveAll` fails and nobody asks; on GCS the goroutine's `Clean`), and one
for the record. The INSERT that records an upload succeeds, fails, or is committed
and not answered (`RecordUnanswered`): the last two both lead to `Undo`. `Fail` ends a request at any
point: an error of the provider, its answer lost, the client gone, the process
stopped. `kind`, chosen by `Init`, is the store's backend; it decides where a
part is found again (`Where`) and who owns it (`Visible`: on Azure, nobody). The
bytes of a part stand for the upload that sent them.

`ComposeTree` takes one of these steps apart. A call to `composeTree` is a
record: the sources it composes, the position `i` of its loop (`at`), the
temporary objects of this level (`made`) and of the outer ones, innermost first
(`outer`), and the time of the last name. `ComposeChunk` is a round of the loop,
and at its end the recursive call; `ComposeDest` is the last composition; both
need what the provider needs, sources that are there and no more than `Limit`.
Then `DeleteKey` runs through all levels, after a failure as after success, and
`Return` starts the goroutine that deletes the parts. The bucket is a function
from names to the parts its objects are made of. A completion names all parts
that were sent, which is at least one.

### Objects

A stored object - a version at a provider, a file on the local disk - is named
by the PUT that made it, `link` says which one has a key's name, and `data` has
its bytes, each by the PUT that wrote it. A PUT is a loop of `Copy`, one round of
`io.Copy`, whose reads come from `Read` of `ChunkedReader`; `PutCommits` is what
follows the end of the body, `PutBreaksOff` what follows its error, and
`PutFails` everything else. On the local backend the file is truncated before
the body comes and bytes are visible at once; at the providers `Store` makes a
version at the end. A GET opens an object, on GCS with two calls, and streams it
byte by byte; `Length` is what it has announced. `StreamFails` is an object that cannot be
read to its end: `getObject` ignores the error (`objects.go:91`), and the answer ends
before the announced length, as it does where a file was truncated. On the local
backend a key may name a directory, made by the PUT of a key below it (`folders`,
`MakeFolders`): `GetFolder` opens it like a file, announces its size and cannot read
it (`local.go:63`), a PUT of it is refused, and `Removable` says when a DELETE
removes it. `DeleteNext` is one round of
the loop of `DeleteObjects`, or S3's single call.

In `ChunkedReader` a body is a sequence of tokens: headers of chunks with their
size, bytes, line ends, and the last chunk. `Encode` and `Decode` are the
reference definitions; `Read` is the method, state in and state out, with its
three outcomes. `Ranges` computes with integers of `Width` bits, wrapped like
Go's, and has the length each backend announces beside what the header means.

### Listings

Keys are numbers in their order, and a folder is a number less than its keys. A
`walk` is a client, or the size count, that pages until a page is not truncated:
by token, by marker, or in the loop of `browseSizeStream`. `Matching` is what
the backend lists at that moment, `IsPage` and `IsToken` what a page is and what
the next one begins from: on the local backend the first key of the next page,
on the others the last of this one. A truncated page is full, but Azure's may be shorter
(`azure.go:212`, `236`). Between pages `Put` and `Delete` change the
bucket; on the local backend a key in a folder makes a directory that stays.

### Rotation

A ciphertext is the key it can be opened with. The tool is one record: its step,
the rows it holds locks on, and what its flush has left to do. `ReencryptStores`
and `ReencryptAccessKeys` are the two SELECT ... FOR UPDATE with their UPDATEs,
seen by others after `Commit`; `Flush` deletes one key of SCAN; `ToolFails` stops
the tool anywhere. A gateway has a key, one handler at a time, and a handler is
on its way to a SET (`fill`) or a DEL (`evict`). INSERTs do not wait for the
tool's locks, UPDATEs do.

### History variables

They record what no program variable does, and no action's guard reads them.
`held`: what the tables have said since a request began; `overtaken`: requests
whose answer was made obsolete, and evicted, between their SELECT and their SET;
`suspect`: entries set by such a request or missed by an eviction; `unevicted`:
entries made obsolete by `DeleteStore` or `CreateBucketMapping`, which evict
nothing afterwards; `doubtful`: requests that were answered by one of these, or
by an entry whose eviction was still to come. `raced` and `stray`: slots of the
pools with a client built from an obsolete route, or made obsolete by an update
that failed half-way or ran elsewhere. `created`, `untold`, `acked`, `orphaned`,
`lingering`, `rerouted`, `torn`: where uploads began, which have a record no client
knows the id of, which a client was told are complete, and the excuses of
`Multipart`. `overridden`, `spoiled`, `disturbed`:
PUTs that another write took effect over, objects damaged by a named cause, GETs
whose object changed meanwhile. `stable`, `ever`, `twice`, `named`: keys that
stayed during a walk, keys it may have seen, entries it got twice, keys a local
token named. `current`, `astray`, `late`: the key of the last rotation, rows a
gateway wrote under another or inserted behind the tool, entries set from such
rows or from before the commit.

## What the runs check

| Run | Bounds | Shows |
|---|---|---|
| `access_keys` | 1 key, 2 tenants, 2 requests, 2 admin calls, faults | `TypeOK`; `StaleOnlyIfSuspect`: every write path evicts, and evicts last; `AccessWasGranted`: a request is let through on a right its key had while it ran, apart from the named races; `EventuallyFresh` |
| `bucket_routes` | 1 bucket, faults; 1 admin call with 2 stores of 2 tenants, or 2 admin calls with one store | `TypeOK`; `RouteWasCurrent`; `TenantIsolation`, while a bucket name passes from one tenant to the other; `StaleOnlyIfSuspect` with two writers; `EventuallyFresh` |
| `backend_pool` | 2 processes, 3 callers, 2 stores, 2 configurations | `OneClientPerStore`; `BuildersAgree`: the double check works |
| `gateway` | one store whose configuration changes, an admin call and the browser in one process, a request in another, faults; or two stores of two tenants, all in one process | `OldClientIsExcused`: a pooled client with old credentials has one of three excuses; `ClientOfTenant` |
| `multipart` (1,965,923 states) | 4 kinds of backend, 2 parts, 2 requests, every step may fail; two uploads of one place, or one upload while the bucket resolves elsewhere | `UploadIsTracked`: what the provider holds has a record, unless a named call failed or was not answered; `ObjectOfOneUpload`: no object mixes uploads; `AcknowledgedIsStored` |
| `compose_tree` | a limit of 2; 1 call and 1 to 5 parts with an abort, or 2 calls for 1 or 2 uploads of 3 parts; every call to the provider may fail | `ObjectIsWhole`; `FailsForCause`; `NothingLeftBehind`; `CompletionEnds` |
| `key_rotation` | 2 keys, 2 stores, 1 access key, 1 gateway | `OneKey`: all rows or none; `FlushedIsFresh`; `RefusedForCause`: the right key is refused only where a row went astray; `EventuallyDecrypts` |
| `listing` (273,289 states) | 4 kinds, 4 keys, two of them in a folder, pages of 1 and 2 | `EveryKeyListed`, `NoEntryTwice`, `NothingElse`, `WalkEnds` |
| `objects` (256,916 states) | 4 kinds, 2 PUTs (one may be framed, bodies of 1 or 2 bytes cut anywhere), 1 GET with ranges, deletions, 2 keys one of which lies in the folder the other names | `BodyIsDecoded`, `AckedIsStored`, `StoredIsWhole`, `OneVersion`, `BrokenForCause`, `DeletedIsGone`, `PutReturns` |

Three runs refute what the documentation or a comment says:

- `bucket_routes_prefix` - *The prefix is applied to every backend operation
  transparently* (README.md:340). The first request for a bucket reads the row
  and uses the prefix; what it caches (`cache.go:146`) is the bucket name
  without it, and every request answered by the cache reads, writes and lists
  without the prefix. Nothing concurrent is needed.
- `bucket_routes_deleted` - *Evicts cache entries for all affected buckets*
  (README.md:274). `DeleteStore` evicts first and deletes afterwards.
- `gateway_credentials` - *so the next request picks up the new credentials*
  (README.md:255). A client built from a route of before the update is inserted
  after `Invalidate`, and stays until the next update or restart.

### What the excuses say

The passing properties name their exceptions, and each one is a thing a reader
should know.

*Caches and pools.* A lookup that selected a key before its revocation sets it after
the DEL, and the key is accepted until its TTL ends (`overtaken`, `suspect`), where
`keys.go:140` has *so the next request sees the revocation*. A `NOT_FOUND` entry survives the creation of the mapping it
denies; an update of the origins can be overtaken like a revocation; an update
that reads the mode it is to keep can undo another's; and a process other than
the one that served an update keeps its old client for good.

*Multipart.* On Azure two uploads of one key share their blocks (`azure.go:331`
names a block by its number alone), even one that was aborted and its successor;
on the local backend a second completion - a retry, say - truncates an
acknowledged object before it misses the parts (`local.go:261`); the abort that
is to undo a creation uses the request's context, which may be why the record
could not be written (`multipart.go:74`); the same abort answers an INSERT that was
committed and not answered, and then leaves a record without an upload on S3, under an
id nobody was told (`lingering`); the error of removing the parts of a completed local
upload is ignored (`local.go:281`), and they stay without a record (`orphaned`); a bucket that resolves elsewhere takes
the upload with it, although the record has the bucket it was created in. A
completion the provider refuses keeps its record, and must, since the client may
try again; the comment *regardless of outcome* (`multipart.go:203`) is about the
answer only. On GCS the temporary objects are named by a position and the clock
alone (`gcs.go:302`): two completions that read the same nanosecond can mix their
objects (`collided`). What could not be deleted of them - the deletions use the
request's context, too - stays for good (`left`), since an abort looks for parts
only.

*Objects.* A complete request whose body ends inside a chunk makes the reader
return no byte and no error for ever (`objects.go:368`), and its PUT with it:
`PutReturns` excludes such an `Endless` reader. A PUT of the local backend that
fails has destroyed the object that was there (`local.go:117`), and a GET sees a
file while it is rewritten. On GCS the writer is closed when the body breaks off,
which may make a version of what came (`gcs.go:134`), and the two calls of a GET
may see two versions (`gcs.go:110`). A range with an offset that ends at the
largest integer overflows on the local backend, which then announces more than
there is (`local.go:95`). A range whose last byte is before its first is served
to the end by GCS, Azure and the local backend, or empty by GCS and the local backend
if it is just before; S3 gets the header as it is (`s3.go:73`), and ignores such a
range. A GET whose object cannot be read to its end, or is a directory of the local
backend, breaks off after the length was announced: `BrokenForCause` says that these,
the overflow and an object that changed are the only ways to that, so that no other
range of any backend announces more than there is, and `OneVersion` that what came
until then is right.

*Listings.* The local token is the first key of the next page, and the next page
skips keys up to and including it (`local.go:186`, `204`): every truncated page
loses a key, which is the excuse `named`. The local backend lists one directory:
keys in folders never, empty directories for ever, and under the prefix of a folder
nothing.
With version 1, GCS repeats the marker (with pages of one key, for ever), Azure
gives the first page again whatever the marker, and a common prefix may be
repeated; there is no `NextMarker`.

*Rotation.* A row written or inserted under another key while the tool works, or
by a gateway with the wrong key, is left astray, and makes every later rotation
fail with whichever key. A stop between commit and flush leaves entries that
cannot be opened until their TTL ends them; the tool cannot be run again.

### Bounds

Two actors of each kind are enough for every race of the caches: the longest
one needs a lookup between its SELECT and its SET, a writer between its UPDATE
and its DEL, and a second writer. A second request adds an entry set behind the
first one's back. Keys and buckets do not interact but for
`invalidateBucketsForStore`, which evicts the buckets of a store one by one in
any order; the runs have one bucket, and the theorem `StaleOnlyIfSuspectHolds`
covers any number. Mapping ids and stores are used once; two of each let a
bucket name change hands. `MCBucketRoutes` has the second admin call only while
there is one store, or the second store only while one call is made and the
columns stay. `MCGateway` chooses between two scenarios in its initial state:
one store whose configuration changes once, or two tenants with equal
configurations in one process.

An upload needs two parts to be mixed or cut off half-way, another upload to be
mixed with, and a second call to overlap with; a client always sends and names
the same parts. In `MCMultipart` a bucket resolves elsewhere only while there is
one upload. With a limit of two, three parts need a level of temporary objects and
five need two (more than the limit, and more than its square), with a chunk that
is not full on both. `MCObjects` needs two PUTs for two writers, sizes of one and two
bytes so that a read, a truncation and a range can fall inside an object, and
numbers of three bits so that 1 + 3 overflows; one of the PUTs is framed, the
second key, ranges and the deletion of several keys come where they do not
multiply with everything else (a range or a batch begins while no PUT is
copying, and PUTs may begin afterwards). `MCListing` has keys on both sides of a
folder, and pages smaller than the bucket. `MCKeyRotation` has a row of each
table the tool reads one after the other, a second store so that one can be
inserted between two statements while another is locked, and one gateway, which
may be stopped and started with the other key: two gateways are no more than two
handlers, and the theorems are for any number. Symmetry is used where ids are
interchangeable and no liveness is checked. The next-state relations have no
other bound.

### Fairness

`WF(Expire)`: Redis honours the TTL every entry is set with (`cache.go:82`, `95`,
`134`, `150`). No handler is assumed to finish, no eviction to succeed.
`EventuallyFresh` says that a row that stays as it is is in the end all the cache
says: no write-back keeps an old value alive, because the entry is set from the
row only, once per lookup. `EventuallyDecrypts` says the same of keys. Clients in
a pool have no TTL, and no such property.

`WF(NextPage)`: the loop of `browseSizeStream` goes on by itself, and a client
that pages goes on. `WF(Step(c))` of `ComposeTree`: a completion goes on, as each
of its calls to the provider is answered or fails. `WF(PutEnds(p))`: `io.Copy` goes on reading and writing, as
its goroutine is scheduled; what it reads from has come or is lost, since the server
of the S3 API gives a request 30 seconds to come (`ReadTimeout`, `main.go:112`). Its
`WriteTimeout` is 0 (`main.go:113`), so no such fairness is assumed of a GET.

## What is proved

For every set of keys, tenants, stores, buckets, uploads, requests, callers and
processes, and any number of parts and page sizes, from the assumptions the
modules state about their constants.

`AccessKeysProofs`, and `GatewayProofs` up to the composition, about `BucketRoutes`:

- `TypeCorrect`: `Spec => []TypeOK`.
- `FreshCorrect`, and as a corollary `StaleOnlyIfSuspectHolds`. The invariant is
  not inductive by itself: a route on its way to the cache must be excused like
  one that is there (`FillOnlyIfOvertaken`), otherwise `Fill` breaks it; in
  `BucketRoutes` a call that deletes a mapping must know which entry to evict
  (`DeletionKnowsMapping`: a mapping with its id and store that is in the table
  was in the list, because ids are used once and only `used` ids are deleted),
  and a mapping must have a live store (`MappingsHaveStores`), so that creating
  a store changes no route.
- `AccessWasGrantedHolds` and `RouteWasCurrentHolds`: the answer of a request
  that is not doubtful is among what the tables have said since it began. A hit
  rests on `FreshInv` - an entry with no excuse is current - and a miss on the
  SELECT.
- `TenantIsolationHolds`: the tenant is compared on both paths, before the answer
  is cached or used, so no freshness is needed.

`BackendPoolProofs`: `PoolTypeCorrect`, `OneClientPerStoreHolds` (inductive with
the types) and `BuildersAgreeHolds` (an action property: only `GetInserts` fills a
slot, and its second look has found it empty).

`KeyRotationProofs`: `TypeCorrect`, with it that the tool's locks are on live rows
only. `OneKeyHolds` needs `Covered`: once the tool has read a table, every live
row of it is locked or known to have been missed; so what `Commit` leaves behind
is astray. `RefusedForCauseHolds` follows, since a row that does not open with the
current key is astray. `FlushedIsFreshHolds` needs two facts more: a fill that is
not doubtful carries the current key (`FillsAreFresh`, from `OneKey` when it reads
the row), and during the flush what is stale is still left to it (`StaleIsLeft`).

`ListingProofs`: `TypeCorrect`. `NoEntryTwiceHolds` needs `SeenIsBehind`: what was
seen is not behind the point the walk goes on from. `EveryKeyListedHolds` needs
`ListedSoFar`, the same property of the keys up to the token, and that keys which
stayed are stored; a page has the least entries of the rest, so a key before the
next token is on it. `NothingElseHolds` is inductive with `objects \subseteq ever`.

`MultipartProofs`: `TypeCorrect`, with it `FormInv` (a slot has one call at most,
and a part that is sent has a number). `TraceInv` says that whatever there is of
an upload - record, parts, calls - is at the place it was created for, unless the
bucket resolved elsewhere meanwhile, and that a creation in progress is alone with
its upload. `UploadIsTrackedHolds` needs `TrackInv`: while a call is about to
delete the record, the provider holds nothing of the upload, and a record that was
written and not answered is `lingering` (`UntoldLingers`). Its excuses are single
calls that failed or were not answered; what it excludes is that calls which all
succeed, in whatever order and however many at once, lose an upload. `ObjectOfOneUploadHolds` needs `CopyInv`, that a local copy
alone at its place has written the parts it has passed and none beyond, and
`BlocksOfOne`, that on Azure the blocks staged for one blob are of one upload
unless that blob is `torn`. `AcknowledgedIsStoredHolds` needs `AckInv`: what the
property says holds already of the call that is about to delete the record and
to acknowledge, and no step of another call loses it.

`ComposeTreeProofs`: `TypeCorrect`; `FailsForCauseHolds` and
`NothingLeftBehindHolds` are parts of one invariant. It needs that a chunk is
never of more than `Limit` sources, nor of none (`SliceFits`), that calls which
have not collided have no name in common (`ApartInv`), so that what one has yet
to compose is deleted by nobody else (`PresentInv`), and that it composes only
what it has made itself and parts of its upload (`SourceInv`). The limit may be
any number from two.
`ObjectIsWholeHolds` is about what the objects hold. Its invariant `BytesInv` says
of every call that has not collided that the sources it is at are the parts of its
upload, cut into consecutive pieces and laid side by side (`Laid`), and so is what
it has made of those before its chunk. A temporary name is older than the clock of
its call (`TimeInv`), so no later step of that call writes it again, and a step of
another call that wrote it would collide. What a composition stores is a recursive
function of its sources (`Joined`); that it joins pieces to their sum
(`JoinedParts`) is shown by a least counterexample (`Least`, from the library's
`WFMin`), since the induction theorems cannot be instantiated.

`ObjectsProofs`: one invariant, `Inv`, and each property of the run as a
consequence. Its parts, and what they are needed for:

- `ReaderInv`: at every moment there is a position in what was sent from which the
  reader still has to read, and the bytes before it are what was written. For a
  framed body the position is at a header or inside a chunk (`AtHeader`,
  `InChunk`), which is what makes a Read with a buffer of any size and a body cut
  anywhere come out right (`ReadDataResult`,
  `ReadHeaderResult`). `BodyIsDecodedHolds` follows.
- `PlaceInv`, `NameInv` and `LatestInv`: an object belongs to the PUT and the key
  that made it, a key names one object, and the latest PUT is what its key names.
- `VersionInv` for the providers; `FileInv` and `WriterInv` for local files: a
  file that is not spoiled has one writer, who began when it was empty, or is
  whole. `AckedIsStoredHolds` and `StoredIsWholeHolds` follow.
- `GetInv` with `Copied`: an undisturbed GET has the bytes that were there when it
  began, also when it breaks off, and as many to come as it announced. For `OneVersionHolds` and
  `BrokenForCauseHolds` the four ways to compute a length must then be right for
  numbers that wrap around (`LengthFits`): outside `Overflows` none announces more
  than there is behind the offset.
- `FolderInv`, an invariant of its own on top of `Inv`: no key names both a file and a
  directory. `TypeCorrect` needs it.
- `BatchInv`, for `DeletedIsGoneHolds`: a key that is neither left nor an error no
  longer names what it named.

It assumes of the constants that a body a client sends is the beginning of an
object in framing or without (`BodiesAssumption`, with `Framed` for what `Encode`
produces), of a size the numbers can say; that no key lies in a folder it names itself
(`InAssumption`); that buffers are not empty; that the bounds of a
range are numbers; and that a number is at least two bits wide.

`GatewayProofs`: every step of the composition is a step, or none, of
`BucketRoutes` and of `BackendPool` (`ImplementsBucketRoutes`,
`ImplementsBackendPool`), so the theorems of both carry over, and
`GatewayTypeCorrect` adds the types of what is new. `ClientOfTenantHolds` follows
from `TenantIsolation`, `OneClientPerStore` and that a request keeps its route
while it asks for the client. `OldClientIsExcusedHolds` needs that a store which
does not exist yet is known to nobody - no route, pool or browser -, so that
creating one makes no client old, and that an excuse is given up only by the call
that empties the slot. It assumes that a slot is a request's or a browser's, not
both (`SlotAssumption`).

Each proof is one step per action. TLC checks the same invariants on the
instances above.

Every safety property and every action property of the passing runs is a theorem.
Only model-checked are the liveness properties (`EventuallyFresh` of keys and of
routes, `EventuallyDecrypts`, `CompletionEnds`, `WalkEnds`, `PutReturns`), since
fairness and ENABLED are outside what the prover handles, and one fact about
operators: that the bodies `Sendings` enumerates with the folds of `Encode` satisfy
`IsSending`, which TLC evaluates as `BodiesAssumption`.

## Not modelled

The computation of signatures and the parsing of requests (pure string work,
one valid/invalid outcome in `AccessKeys`); the creation of tenants and the list
of buckets (single statements); HEAD, presigned URLs and the redirect to them;
the wording of answers, ETags and XML; the start-up of a process, its probes and
its configuration. A shutdown cuts handlers off, like the crashes of the modules,
and empties a pool, which `BackendPool` covers; `Gateway` leaves the restart out.
The order of the DELs of one call is free in the model. Suffix ranges (`bytes=-n`)
and malformed ones are left out: GCS, Azure and the local backend refuse them before
anything happens, and on S3 they are the provider's business, to whom the header
goes as it is. So is a negative end (`bytes=5--3`), which the three take for a last
byte before the first. Chunk sizes are not negative.

In `Multipart`: the deletion of a store, whose uploads lose their records with it
(`multipart_uploads` cascades); parts of which only a piece is stored, and ETags;
completions that name some of the parts only. `ComposeTree` is checked beside it and
not composed with it: there an abort may end between two compositions, and the
object is put together from what has been composed, so that a client may be told
both. In `Objects`: metadata and content types; objects whose length GCS does not know
(`Remain()` is -1 where it decompresses, `gcs.go:86`, which needs a content encoding
the gateway never stores); the size of a directory, which announces more than nothing
unless the file system says 0. In `Listing`: the number of keys in the answer; prefixes
that end inside a name (the local backend lists the names that begin so,
`local.go:180`) and delimiters other than a slash (whose common prefixes do not count
towards max-keys there, `local.go:190`); pages of Azure that are empty but not the
last. Corrupt cache entries, which the
code treats as a miss, do not arise from what it writes.
