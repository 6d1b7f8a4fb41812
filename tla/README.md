# Verification of vs3-neo

TLA+ models of vs3-neo, an S3-compatible object store written in JavaScript
(`src/src`), with TLC runs on small instances and proofs checked by TLAPS.
Paths are relative to the directory above this one; `l.N` in a module is a line
of the source file its header names.

## 1. The system

One Node.js process.  A request is parsed, authorised and dispatched by
`server.js`, which calls one method of a storage backend (for `GET`, two).
JavaScript is not interrupted between two awaits; every await is a place where
other requests run.  That, the file system, clients that disconnect and kills
of the process are the sources of all interleaving.

| component | source | state | operations | with whom it interacts |
|---|---|---|---|---|
| keyed mutex | `storage/storage.js` 194-222 | a map from lock name to the last promise of a chain | `withKeyLock` | every object mutation of the disk backend (`bucket/key`), parts and completion (`bucket/uploads/id`) |
| disk objects | `storage/disk.js` 181-346, 600-625, 690-719 | per key a JSON file with the list of versions, per version a data file, and their `.tmp` files | put, get, head, delete, copy, tagging, expiry | the mutex; `bucket.json` for versioning; multipart completion |
| disk multipart | `storage/disk.js` 452-600, 721-733 | per upload a JSON file and one file per part | create, part, complete, abort, list, expiry | writes object files; has a lock of its own |
| disk buckets | `storage/disk.js` 100-173, 560-690 | `bucket.json`: versioning, tags, policy, lifecycle, CORS | create, delete, setters | read by every other operation |
| listing | `disk.js` 348-450, `memory.js` 195-292 | none | `listObjects`, `listObjectVersions`, pagination | metadata of all keys |
| memory backend | `storage/memory.js` | maps of buckets, objects, uploads | the whole storage interface | the same callers as the disk backend |
| mirror backend | `storage/custom.js` | an append-only audit file | delegates to a disk backend, then logs | the disk backend |
| request pipeline | `server.js` | metrics | CORS, dispatch, authorisation, policy, hooks, execution, error answers | all others |
| policy, CORS rules, signatures | `auth/`, `util/cors.js` | none | pure evaluation | the pipeline |
| encryption | `util/sse.js` | the master key file | encrypt, decrypt, create the key | disk and memory objects |
| plugins | `plugin/` | a registry filled at start-up | hooks | the pipeline |
| configuration, XML, errors, client | `config.js`, `util/xml.js`, `api/`, `client.js` | none after start-up | reading, formatting | |

### What is hard, and what makes each part correct

- **Keyed mutex.** A promise chain with clean-up of its map.  Correct: no two
  calls on a key at once, in order of arrival, an entry in the map exactly for
  the keys in use, and a call that throws lets the next one in.
- **Disk objects.** A mutation is four to seven file operations; reads take no
  lock and look at the metadata and the data at different moments; a put may
  fail or be killed anywhere; encryption writes the data file under its final
  name; the versioning that a delete follows is read before the lock.  Correct:
  when nobody is changing a key, every listed version can be read and matches
  its ETag; nothing is left over; an acknowledged version survives; a read by
  version id never mixes versions; the lifecycle deletes only what is old.
- **Disk multipart.** The same files changed without the key's lock.  Correct:
  an upload completes at most once, into exactly the listed parts, also across a
  crash between the object and the removal of the upload.
- **Disk buckets.** Read, change and rewrite of one file without a lock; a
  bucket that is tested for emptiness and then removed.  Correct: no change of
  configuration undoes another, no acknowledged object disappears.
- **Memory backend.** Bodies are awaited between the lookup of a bucket or an
  upload and the write into it.  Correct: a write goes where its call was made,
  an upload becomes one object, no object is an empty list of versions.
- **Listing.** Pages must cover all keys once, and end.
- **Mirror.** The audit log must tell every mutation, in an order that explains
  the state.
- **Pipeline.** Nothing is executed that authorisation or policy refused, by a
  policy that is in force; a request that fails has changed nothing; whichever
  way a request ends, the counters count it once.

`PROJECT.json` lists the hazards line by line, with the property that covers
each, or why none does yet.

## 2. The modules

```
FifoLock  <--refined by--  KeyLock
   ^ used by
DiskObjects  --refines-->  ObjectStore  <--refined by--  MemoryStorage

DiskMultipart  uses FifoLock
Listing
Gateway  composes  Requests (dispatch), Policy (signatures, policies, CORS),
                   DiskBuckets (the bucket's directory)
```

A refinement mapping stands in the module that refines.  The `MC` modules give
values to constants that a `.cfg` cannot (`MCGateway`'s requests, `MCListing`'s
keys), symmetries, and nothing else, except that `MCGateway` has TLC confirm the
hypothesis of a theorem.  The proofs, checked by TLAPS, are in modules
of their own:

| about | proofs in |
|---|---|
| `KeyLock` | `KeyLockProofs` |
| `MemoryStorage` | `MemoryProofs` |
| `DiskObjects` | `DiskObjectsProofs`, extended by `DiskSettledProofs`, extended by `DiskStoreProofs` |
| `DiskMultipart` | `DiskMultipartProofs` |
| `Listing` | `ListingProofs` |
| `Gateway` | `GatewayProofs` |

### FifoLock, KeyLock

`KeyLock` is `withKeyLock` statement by statement.  `keyLocks[k]` is the map;
a tail (the promise stored in it) is named by the call that made it; `prev[c]`
is the tail that call `c` awaits, `settled` the tails that have settled.
`Enter` is the synchronous stretch from the lookup to the await (l.206-212),
`Acquire` the resumption after it, `Release` the `finally` block (l.216-221),
`Settle` the turn of the microtask queue in which `prev.then(() => gate)`
settles.  `arrival` and `clock` are history variables that no guard reads.
`FifoLock` is the contract: per key a line of calls, of which only the first may
be inside.

### ObjectStore

What a backend promises: each operation takes effect at one instant on the list
of versions of one key.  Both backends are shown to refine it.

### DiskObjects

The objects of one bucket, one action per awaited file operation.  `meta`,
`metaTmp`, `data`, `tmp` are the files; a file being written holds `Torn`.  A
call `o` carries in `op[o]` the local variables of the method it runs (`mode`:
the versioning it read, `om`: its copy of the list, `todo`: data files it still
has to remove).  The locks are `FifoLock`, used through `INSTANCE`, which
`KeyLock` implements.  The steps of a put are

    PutCall, Acquire, PutOpen, StreamEnd, Hash, ReadMeta, DropData*,
    Swap | SealOpen, SealEnd, CleanTmp,   DropData?, WriteMeta, RenameMeta

and `complete` shares them from `StreamEnd` on, without the lock.  `GetHead`
and `GetLook` are the two lookups of a `GET` in `server.js`, `Stat` and `Open`
the two moments at which the data file must exist.  `Crash` loses every call in
flight and keeps the files.  `Open` on a file that has vanished also ends the
process: `createReadStream` opens lazily, and nobody listens to its `error`.

Abstractions: bytes, their MD5, the random version id, the nonce and the tags a
call creates are all named by the call; an empty body is `NoBytes`; the
directory of a key needs no modelling, since `mkdir` is recursive and
idempotent; sizes, ranges, user metadata and content types are left out.

### MemoryStorage

The whole memory backend.  `buckets[n]` is the record a name leads to and
`heap[r]` that record's contents, so that a call which captured a record before
an await (`putObject` l.87-89, `uploadPart` l.314-316) writes into that record
whatever has become of its name.  Everything else runs without an await and is
one action.  `PutObject`/`PutEnd`, `CopyObject`/`CopyPut`/`PutEnd` and
`UploadPart`/`PartEnd` are the calls in two or three steps.  `ExpireObject` and
`ExpireUpload` are one turn each of the loops of `runLifecycle`.

Abstractions: the bytes of an object are the sequence of the uploads it is made
of (one for a put, one per part for a completed upload); encryption does not
show in the state; the ages of objects are not tracked, so that with a lifecycle
rule set any current version may be old enough to expire; reads and listings
change nothing.

### DiskMultipart

The uploads of one bucket: `um` and `umTmp` are the metadata files, `part` and
`partTmp` the files of the parts, one action per file operation.  A part call is
`PartCall`, `Acquire`, `PartOpen`, `StreamEnd`, `RenamePart`, `WriteUm`,
`CommitUm`; a completion `CompleteCall`, `Acquire`, `Assemble`, `Publish`,
`RemovePart*`, `RemoveUm`; an abort shares the end of it; the lifecycle is
`SweepCall`, `SweepList`, `SweepRead*`, then for each old upload `SweepNext` and
an abort.  A part's bytes and their MD5 are named by the call that sends them, an
upload by the call that creates it.  `Publish` is the writing of the object in one
step, whose file operations are those of `complete` in `DiskObjects`; beside other
writers of the key it may fail, and then the upload is kept and the object there or
not.  `Assemble`
checks and reads the parts in one step, for which the lock is the reason: nobody
else touches the files of the upload meanwhile, as the proof shows.  `held` and
`published` are history variables: the bodies a part may have, and the calls that
made an upload an object.

### Listing

The pages of `ListObjects` and the first page of `ListObjectVersions` over a
bucket whose keys are written and deleted meanwhile.  On disk a page is `Ask` (the
directory), `Collect` (each object's file), `Sort`, then one of `Skip`, `RollUp`,
`List` or `ListVersions` per key, for the current version of a key is read again
when its turn comes.  In memory the same loop runs without a change in between
(`Changes`).  `Answer` ends a page and makes the client ask for the next one from
the marker that was answered.  Keys are sequences of numbers, in the order of
JavaScript strings.

### Requests, Policy, DiskBuckets, Gateway

`Gateway` is `_handle`: a request of the `Menu` comes in (`Receive`), is answered
at once (`Internal`, `Preflight`), or is dispatched and its signature verified
(`Admit`), judged by the bucket's policy and its hooks (`EnforcePolicy`), and
carried out: creation (`Create`, `Write`, `Commit`, and with `versioning.default`
`Default`, `Write`, `Commit`), the setters (`Set`, `Write`, `Commit`), deletion of
the bucket (`Test`, `RemoveAll`), puts (`PutCheck`, `PutOpen`, `PutPlace`,
`PutMetadata`), deletes (`DeleteFind`, `DeleteDrop`), reads (`Read`).  `Answers`
and `Fails` are the only ways to end, and count what `_recordStatus` and
`_handleError` count.  `Requests` is the tables `_dispatch`, `OP_ACTIONS` and
`HOOK_BY_OP`; `Policy` is `verifyRequest`, `evaluatePolicy` and `matchCorsRule`;
`DiskBuckets` the files of the bucket.  `held` is what `bucket.json` may be after
the acknowledged requests, `raced` whether two that change it have overlapped.

Abstractions: whether a signature is the one of the request's canonical form is
an attribute of the request; patterns and names are sequences of tokens; the
recursive removal of a directory, the two awaits of `_bucketMeta` and the two
lookups of a put are one step each; a tagging or a lifecycle that is not well
formed is one without entries, as the parsers have it; the CORS headers that are
added to ordinary answers, the bytes counters and the answers' bodies are left
out.  The menu has none of the requests that other modules describe (copies,
object tags, versions, uploads, listings).

## 3. The runs

Sizes are distinct states.

| run | module | distinct states | properties | what it shows |
|---|---|---|---|---|
| `key_lock` | `KeyLock` | 101,456 (29 s) | `IInv`, `MutualExclusion`, `ServedInOrder`, `MapHoldsLastActive`, `ImplementsFifoLock`, `EveryCallReturns` | `withKeyLock` is one FIFO lock per key, leaves no entry behind, serves every call |
| `disk_locked` | `MCDiskObjects` | 230,806 (122 s) | `SettledIntact`, `NoLeftovers`, `VersionReadsExact`, `ImplementsObjectStore`, `EveryCallEnds` | overlapping puts, deletes, taggings and reads, versioning switched, failing calls, clients hanging up |
| `disk_crash` | `MCDiskObjects` | 314,720 (146 s) | `Durable`, `ExpiresOnlyAged`, `ImplementsObjectStore` | the process killed at any step, versioning on |
| `disk_sequential` | `MCDiskObjects` | 446,509 (120 s) | `TypeOK`, `SettledIntact`, `ReadsServe`, `ImplementsObjectStore` | puts, copies, completions, deletes and reads, one call at a time |
| `disk_race_complete` | `MCDiskObjects` | violation | `Durable` | a completion under its own lock loses an acknowledged put |
| `disk_race_overwrite` | `MCDiskObjects` | violation | `CurrentIntact` | an overwrite without versioning killed midway leaves metadata whose data is gone |
| `disk_race_get` | `MCDiskObjects` | violation | `ReadsMatchETag` | a `GET` sends the ETag of one write and the bytes of another |
| `disk_race_expire` | `MCDiskObjects` | violation | `ExpiresOnlyAged` | expiry decides on a version read before the lock and deletes a younger one |
| `memory` | `MCMemoryStorage` | 104,877 (113 s) | `StorageInv`, `ObjectsWellFormed`, `UploadsCompleteOnce`, `WritesWhereCalled`, `BucketsApart`, `VersioningKeepsVersions`, `ImplementsObjectStore` | every method of the memory backend, requests interrupted at each body read |
| `multipart` | `DiskMultipart` | 501,474 (45 s) | `BytesAsListed`, `AckedPartStays`, `GoneForGood`, `EveryCallEnds` | parts, completions, aborts and sweeps overlap, with failing bodies, a client that hangs up and a crash |
| `listing` | `MCListing` | 928,424 (40 s) | `NothingMissed`, `NothingTwice`, `SessionEnds` | a client follows the markers while the bucket changes between the awaits |
| `gateway` | `MCGateway` | 4,116,333 (62 s) | `ConfigAsAcknowledged`, `PutsAsAnswered`, `MetricsAddUp`, `PolicyInForce` | settings, policies, CORS rules, puts and counters under overlapping requests and a crash |

Why these bounds are enough:

- *key_lock.* The code of a call looks at its predecessor and at the last call
  of its key only; four calls on two keys allow a queue of three behind a
  running call and use of two keys side by side.  All but `EveryCallReturns` is
  also proved for any number of calls and keys (section 4).
- *disk_locked.* All mutations of a key exclude each other, so two that
  overlap with a read already give every order of file operations; three calls
  of four kinds, with `MaxVersions = 1` so that the version limit (100 in the
  code) is met by the second put.  `MaxGone = 1` lets one client hang up while
  its put waits.  All but `EveryCallEnds` is also proved for any number of calls,
  keys, crashes and versions (section 4).
- *disk_crash.* Four calls, of which three overlap, and one kill at any step:
  enough for a call that was acknowledged, one that was killed, one that follows
  it and one that waited, or for a version that is pushed out of the limit of two.
  What this run checks is also proved, for any number of everything.
- *disk_sequential.* One call at a time, so that the bound on calls, not on
  overlap, matters; three calls over two keys with all kinds that write, copy,
  complete, delete and read, empty bodies included.
- *memory.* Three calls that create something, over one name that two bucket
  records may have in turn and two keys; administrative calls and deletes are
  not bounded.  One name is enough for what a captured record can meet: the name
  gone, or leading elsewhere.  All properties are proved for any number of
  everything (section 4).
- *multipart.* Four calls, three of them at a time, on two uploads of two parts:
  a creation leaves three for a part, what ends the upload, and a second one, or a
  sweep over two uploads.  A list of two parts meets every test of `Assemble`.  One
  kill and one hang-up, at any step.  Five calls, two at a time, on one upload were
  checked once as well (3,270,000 states).  The three invariants are proved for
  any number of everything (section 4).
- *listing.* Four keys of which two have a common prefix and one is the beginning
  of another's; the prefixes, delimiter and values of max-keys (negative, zero,
  one; the limit of 1000 is two) give pages of none, one, two and all; one change
  at any step of a session.  All but `SessionEnds` is also proved for any keys,
  prefixes, page sizes and changes (section 4).
- *gateway.* Three requests, two at a time, of the eighteen kinds in `MCMenu`: a
  policy or a rule that is put, what it governs, and a removal or a failure in
  between; one kill at any step.  The three invariants are proved for any number of
  requests of any kinds, `PolicyInForce` for any number of those that its reading
  of the policy is made for (section 4).
- Symmetry is used only in runs without liveness properties; the refinement
  properties are safety properties.

Deadlock is not checked in any run: all calls may have been made and answered.

### Disagreements between code and documentation

Each `disk_race_*` run checks one statement of the repository's documentation
and shows a behaviour of the code that violates it.

- `disk_race_complete`: `completeMultipartUpload` holds the lock of the upload,
  not that of the key (`disk.js:491`), so that it and a put rewrite the same
  metadata; an acknowledged version is lost.  (README: "key-level locking".)
- `disk_race_overwrite`: an overwrite without versioning removes the old data
  before the new data and metadata are in place (`disk.js:201`); after a crash
  the metadata lists an object with no data.  (README: "atomic writes".)
- `disk_race_get`: `GET` takes its headers from one lookup and its bytes from a
  later one (`server.js:549`): the body does not match the ETag.
- `disk_race_expire`: the lifecycle tests the age without the lock and deletes
  later (`disk.js:714`): an object just overwritten is deleted.

A fifth disagreement needs no interleaving and is proved instead of run:

- `Permits` is what the documentation promises of a policy: an explicit Deny wins,
  and a request without a signature requires an explicit Allow (README.md:216-217,
  `policy.js:22-24`, `server.js:227-228`).  But `matchPatterns` finds no match for a
  principal that is null before it looks at the patterns (`policy.js:67`), so that
  such a request is turned away as soon as the bucket has any policy, even one that
  allows everybody everything: this is the theorem `UnsignedTurnedAway`.  With a
  policy `allow * on *` and an unsigned `GET` in the menu, `PolicyInForce` is
  violated by three requests one after the other; the menu of `gateway` therefore
  has no policy that allows an unsigned object request without denying it (`Plain`).

Noted while modelling, and not the subject of a run of its own:

- The header of `policy.js` gives patterns with a leading `*` for actions, of
  which `matchAction` knows only a trailing one; of a list of ARNs under `AWS`
  only the last is compared, and `{"AWS": ["*"]}` matches nobody.
- The policy `null` is accepted, and then every request that is evaluated answers
  500, `DeleteBucketPolicy` included (`policy.js:34`).
- Two requests that change `bucket.json` at once lose one of the changes or fail
  on the common `.tmp`; one that overlaps with the bucket's removal may bring the
  file back.  `ConfigAsAcknowledged` and `PolicyInForce` therefore speak of what
  happens as long as no two such requests overlap.
- A put that overlaps with the removal of the bucket may be acknowledged and lost,
  and its metadata may come back in a bucket created later under the name.
  `PutsAsAnswered` allows for that, and for nothing else, if the put was under way
  between the test of the removal and its end (`exposed`).
- A put that breaks off leaves a `.tmp`, so that the bucket, empty for every
  listing, cannot be removed; one that answers `BadDigest` has stored the object,
  which is what `PutsAsAnswered` says of it.
- A crash between the creation and the default versioning leaves a bucket without
  it, and the retry answers that the bucket exists.
- An upload whose completion a crash cut short in the removal of its parts can
  neither be completed nor continued, only aborted.  A create or part call that is
  killed between the `.tmp` of the upload's metadata and its renaming
  (`disk.js:823-829`) leaves `<id>.json.tmp`, which neither a completion nor an abort
  removes (`disk.js:555-556`, `564-565`) and which makes `_bucketEmpty` answer false
  for ever (`disk.js:117-118`).  `GoneForGood` exempts this file, after a crash only,
  and counts no completion that was lost in a crash or failed: after those the upload
  may still be there, and be completed again.  An upload that vanishes
  between a sweep's listing and its abort ends the whole sweep.
- `max-keys=0` means 1000 and a negative value no limit; `start-after` of
  `ListObjectsV2` is not read; a common prefix may have nothing but delete
  markers under it.
- The presigner sorts query parameters by character code, the server with
  `localeCompare` (`sigv4.js:267`, `84`): a presigned URL with a further parameter
  such as `versionId` is not accepted.

The passing runs leave out exactly the ingredient each of the four violations needs:
`disk_locked` and `disk_crash` make no `complete` calls,
`disk_crash` has versioning always on, and exact reads under overlap are
claimed for reads by version id only (`VersionReadsExact`).

### Fairness

`KeyLock`: weak fairness of each call's `Acquire`, `Release`, `Settle`.  The
microtask queue runs every reaction of a settled promise, and the function under
the lock is assumed to return.  No call is obliged to be made.

`DiskObjects`: weak fairness of each call's `Step`: every file operation
completes, and a client either sends its body or breaks off.  The exception is
modelled, not assumed away: a client that hangs up while its put waits for the
lock leaves a destroyed stream, for which `writeStreamToFile` listens in vain
(`disk.js:832`); that put never ends and keeps the lock.  `EveryCallEnds` is
therefore conditional on no client having done so.

`DiskMultipart`: the same, with the same exception: `EveryCallEnds` says that every
call ends but those that wait for an upload on which a client hung up.

`Listing`: weak fairness of the session's steps together: the server goes on with a
page and the client asks for the next.  Changes of the bucket are bounded and owe
nothing.

`Gateway` has no liveness property: a request holds no lock there.

`MemoryStorage` has no liveness property: a body that never ends blocks only the
call that waits for it.

## 4. What is proved

`tlapm M.tla` for each module `M` of the table of proofs in section 2 checks every
step.

**KeyLock.** For any sets of calls and keys, from the one assumption that
`NoCall` is not a call: `TypeCorrect`, `Exclusion` (`MutualExclusion`),
`InOrder` (`ServedInOrder`), `MapExact` (`MapHoldsLastActive`).  None of the
three is inductive by itself.  `IInv` adds what the chain of promises means: a
waiting or running call's `prev` is a call made earlier on the same key, and
every active call before it is no later than that one (`Chained`); settled tails
belong to calls that are done; arrival numbers are distinct.  The argument: when
`Acquire(c)` fires, `prev[c]` is settled, hence done; an active call before `c`
would be no later than `prev[c]`, and `ServedInOrder` forbids that a done call
has an earlier active one.

`Refinement` is `ImplementsFifoLock`: `Enter` joins the line, `Acquire` goes in,
`Release` leaves, `Settle` stutters.  The mapping takes as the line of a key the
active calls on it, sorted by arrival (`Lined` says that there is such a
sequence).  Sorted by distinct numbers a set has one sequence only, for an
element's place is the number of elements up to it (`Places`, `SortedOnce`); so
`LineIs` recognises the line after each step as the old one with a call at the end
or without its head, which `Heads` shows to be the call that is inside.

**MemoryStorage.** For any sets of names, keys, buckets, calls, statuses, parts,
settings and tags, and any bounds, from the assumptions that the module names
(`None` and `NullId` are not calls, no tag set is missing, `None` is not a list
of versions): `Invariance` (`StorageInv`), and from it `WellFormed`, `CompletedOnce`,
`WrittenWhereCalled` and `Apart`.  `StorageInv` is their conjunction with the types and
with `CarriedReceived`, which is what makes `WritesWhereCalled` inductive: the
bytes that calls in flight and parts of uploads carry have been received
already, so that a version made of them is made of received bytes.
`UploadsCompleteOnce` needs `WritesWhereCalled` in turn: a version's upload is a
call that has ended, so no new upload has its id.  The proof does not go action
by action for the properties about versions.  Every step is first shown to be of
one of two shapes: in each object it keeps some of the versions, injectively and
but for their tags (`Fades`; the lemmas on `Without`, `Removed` and tagging give
the injection), or it ends one call by adding one version in front or alone
(`Adds`).  `FadesKeeps` and `AddsKeeps` prove the properties for the two shapes,
`CallVersions` and `ManageVersions` map the actions to them.  Likewise
`NamesStay` and `CallsAdvance` for buckets and carried bytes.

`VersionsKept` (`VersioningKeepsVersions`) and `Refinement`
(`ImplementsObjectStore`) go the same way, by shapes.  `NextChanges` shows that a
step changes nothing, or a name of a bucket, or the versions of one object of one
bucket in one of five ways: a new version in front, one that replaces all, one
less, none left, other tags (`Fronts`, `Replaces`, `Drops`, `Empties`, `Retags`).
What these do to the ids gives the first theorem (`IdsFront`, `IdsWithout`,
`IdsRetagged`).  What they do to the versions as a client sees them
(`ViewedFront`, ...) is a step of `ObjectStore`; the client sees it under one name
at most, because of `BucketsApart` (`SeenThroughNames`, `StoreMoves`).

**DiskObjects.** For any number of calls, keys, versions, crashes and clients that
hang up, from the assumptions that the module names (above all that `None` and
`Torn` are none of the values they stand beside).  One hypothesis is common to all
theorems: `"complete" \notin Kinds`.  It is the code's, not the proof's: a
completion changes the files of a key without its lock, and with it the properties
are false (`disk_race_complete`).  `Durability` and `Expiry` also have
`"Suspended" \notin Modes`, without which they are false as well
(`disk_race_overwrite`, `disk_race_expire`), and `Serves` has `MaxInFlight = 1` and
`MaxCrashes = 0`, for a get that overlaps with a put may announce one version and
open another (`disk_race_get`).

- `Invariance`: `IInv`, from which `Typed` (`TypeOK`) and `VersionReads`
  (`VersionReadsExact`) follow.  `IInv` is `TypeOK`; `LockOK`, the calls inside are
  those whose progress needs the lock, each at the head of its line; `CallsOK`,
  what a call knows: its copy of the list is what it read, changed as its kind
  changes it, and the list on disk is still the one it read (`Putting`,
  `Deleting`, `Tagging`, `Renaming`), and what a read has found of a version is
  true of it (`Reading`); `ListsOK`, no id is listed twice, and a listed version is
  as a call wrote it that was answered "ok"; `StoredOK`, a data file under the id of
  a call holds that call's bytes; `SoundOK`, enciphered as the metadata says.  Again
  the properties need ownership: the copy in a call's hands is right because only
  the call inside changes the files of its key.
- `Settled` (`SettledIntact`) and `NothingLeft` (`NoLeftovers`) follow from `IInv`
  and `AliveInv`, which holds until the process is killed: for each key the data
  files are exactly those of the list that is true of them now.  While a call is
  inside, that list (`Kept`) and the files that are on their way in or out
  (`Extra`) depend on how far the call is: before the first removal it is the list
  on disk, then what the call keeps of it, then the list it is going to write.
- `Refinement` (`ImplementsObjectStore`): only `RenameMeta` and `RemoveMeta` change
  what is listed, and for each kind of call that change is one operation of
  `ObjectStore` (`SeesPut`, `SeesMark`, `SeesRemove`, `SeesRetag`); all other steps,
  crashes included, stutter.
- `Durability` (`Durable`) and `Expiry` (`ExpiresOnlyAged`) follow from `IInv` and
  `StoreInv`, which survives crashes: `KeptInv`, each acknowledged version is listed
  and intact, or its call's id was named by a delete, or at least `MaxVersions`
  other calls are on top of it or about to be (`Gone`).  The step that matters is a
  put that finds the list full and drops its last entry.  `Crowded` shows by
  counting that the entries above, which are by as many distinct calls, and the put
  itself are `MaxVersions` calls; `Bottom` is there because a list may end in a
  marker that no counted call has written.  `AgedInv`, that an expiry names a
  version that was old when it looked, gives the second.
- `Serves` (`ReadsServe`) follows from `IInv`, `AliveInv` and `ServeInv`: what a read
  has announced and is about to open is the version that a lookup would find now
  (`Serving`), and no call carries the bytes of a file that is being written
  (`Whole`).  The call that takes a step is the only one in flight (`OnlyOne`), so that
  the files of the key it reads are settled; hence what it has looked up is there
  (`Finds`), and no read ends the process.

**DiskMultipart.** For any number of calls, part numbers up to 10000 and any
bounds, from the assumptions that the module names (`None` and `Torn` are none of
the values they stand beside): `BytesCorrect` (`BytesAsListed`), `AckedPartsKept`
(`AckedPartStays`) and `EndedForGood` (`GoneForGood`), from `Invariance`.  `IInv`
is the conjunction of
`TypeOK`; `LockOK`, which says that the calls inside are those whose progress
needs the lock, each at the head of its upload's line, so that there is one at
most; `CallsOK`, what each call in flight knows: a writer's copy of the metadata is that
on disk, but for the part it is replacing, nobody has written to an upload that
is being created, a sweep only holds ids that were old; `FilesOK` and `PartsOK`,
which say whose bytes each file may have; `Kept`, that what was acknowledged is
listed and on disk; and `PublishedOK`, about the completions of an upload.  `EndedForGood` also needs
`Leftovers`: the metadata's `.tmp` is there only while a call that writes it is on
its way, or after a crash has cut such a call short.  None of the properties is inductive alone: that a part's file
is the one listed depends on the copy of the metadata in another call's hands, and
that copy is right only because of the lock.  The argument is one of ownership: a step of call `o` changes only the files of
the upload whose lock `o` is inside, and two calls that are inside have different
uploads (`Exclusive`, `Apart`), so the other calls keep what they know
(`OthersKept`), the other uploads their files (`FilesKept`, `KeptKept`), and what
is left to show of each action concerns the one upload that it owns.

**Gateway.** For any menu of requests, any number of them, in flight together, and
of crashes, from the assumptions that the module names: `Configuration`
(`ConfigAsAcknowledged`), `Puts` (`PutsAsAnswered`), `Metrics` (`MetricsAddUp`) and
`Judgement`, from `Invariance`, and for menus that are `Plain` also `Enforcement`
(`PolicyInForce`).  `IInv` has a part for each.  `ConfigOK`: while the
requests that change `bucket.json` do not overlap there is one at most (`Lone`),
the file is one of `held` until that request renames its `.tmp`, its copy is what
it makes of the file, and the `.tmp` is its copy; the one moment at which the file
is in no sense acknowledged is between the two writes of a creation with
`versioning.default` (`Halfway`).  `Putting`: how far the file of a put is, for
each step of the put, unless the bucket was removed under it.  That an acknowledged
put is not lost needs `Removing`: while a removal that found the bucket empty is on
its way, every put that was answered before and that it does not overlap with is deleted
already.  `Living`: a
request in flight belongs to the running process, which makes the counters agree
when a crash sets them back.  `Expected`: what `bucket.json` is has been known to
every request in flight since it came in, or is the half-made bucket, which judges
as none does.  `Judgement` is what can be said of `PolicyInForce` for every policy:
a request is let in or turned away, and a preflight answered, as `Verdict` and
`PreflightAllowed` would have it by a `bucket.json` that was acknowledged or on its
way since the request came in (`JudgedAsAcknowledged`).

`PolicyInForce` compares instead with what one reads off the policy document
(`Denies`, `Allows`), without `EvaluatePolicy` and without `OP_ACTIONS`.  That reading is made
for requests on objects that read, write, copy or delete them, and for documents
whose denials are addressed to everybody, whose patterns have open ends, and which
allow no unsigned object request that they do not deny (`Ungranted`): where they do,
the code disagrees with the reading, as `UnsignedTurnedAway` proves of every policy.
This is the hypothesis `Plain(Menu)` of `Enforcement`, of which TLC confirms that the run's menu
satisfies it (`MenuAssumption`).
`DocumentInv` carries it into `bucket.json`, its `.tmp` and the copies of the
requests; `Verbs` goes through the dispatch table, `OpenEnds` through the matching of
patterns, and `VerdictAsRead` shows that the verdict and the reading agree.

The proof maps each of the nineteen steps of a request to one of seven ways (`Ways`:
it comes in, goes on, is answered, is acknowledged, ...), each of which says what
becomes of the request, of the counters and of the others; types, names, counters
and lifetimes are proved by way, `bucket.json` and the files by step.

**Listing.** For any keys, prefixes, delimiter, page sizes and number of versions
and changes, from the assumptions that keys and prefixes are sequences of numbers,
that `NoDelimiter` is none of them and no key is empty: `Complete`
(`NothingMissed`), `Unrepeated` (`NothingTwice`) and `MarkersAdvance`, from
`Invariance`.  The markers are what makes it hard: a marker is a key or a common
prefix, and is compared with keys and with common prefixes.  Both orders
have to agree, and the lemmas on sequences show that they do: `Less` is a total
order (`LessTransitive`, `LessTotal`), a key lies behind its own common prefix
(`PlaceUpTo`), and where keys are in order the places they are answered at (the
common prefix or the key itself) are too (`PlacesInOrder`).  That a loop takes
the keys in order needs `Smallest`, that a nonempty set of numbers has a least
one.  `IInv` says of the session that every key that was there all along and is
not behind the marker has been answered (`SessionOK`), and of the page in the
making that it answered the keys it has taken and no key it has not, in order
(`PageOK`: `ShapeOK`, `PrefixesOK`, `ObjectsOK`, `CoverOK`).  A page that is cut off
gives its last common prefix as the marker, or, if it has none, its last object;
that lies behind the marker before and not behind what is left
(`NextMarkerBetween`), whence all three theorems.  Objects that a page answered
after its last common prefix are answered by the next page again, which is why
`NothingTwice` speaks of objects only for sessions without a delimiter.

Only model-checked: liveness (out of the prover's reach; of `SessionEnds`,
`MarkersAdvance` is the step that a proof would rest on); and `DiskObjects` with
`complete`, one call at a time (`disk_sequential`).

## 5. What is not modelled, and why

Not yet: the mirror backend and its audit log (section 6).  Not at all: the
canonical form of a request and the computation of its signature, presigning,
XML, error formatting, configuration, the client (formatting and parsing, or
cryptography, without state); the functions that plugins provide, except that one
may answer a request itself; sizes and ranges; the paging of versions, whose
markers are compared with random ids; the directory `fsync`s that the code does
not make (a crash is a kill of the process, after which the file system still has
all completed operations); the start-up of a process, and with it the creation of
the master key; what a writer that is not destroyed when its request breaks off
(`disk.js:832-844`) writes afterwards: its last bytes are taken to have reached the
`.tmp` before the next call on the key, or the part, opens it (`StreamFail` in
`DiskObjects` and `DiskMultipart`); a recursive removal of a bucket's directory that
stops halfway; bodies of different lengths, of which one that replaces another
between the stat and the open would be cut off at the other's end; more than one process on one data directory, against which the
code has no protection.

`DiskObjects`, `DiskMultipart` and `Listing` assume that their bucket exists
throughout, and `DiskObjects` that one administrator at a time sets versioning;
what happens otherwise is in `Gateway`.

## 6. Plan

1. Proofs: `DiskObjects` with `complete`, one call at a time.
2. **MirrorAudit**: the audit log against the order and the crashes of the inner
   backend (`custom.js` delegates to the disk backend and logs after the mutation
   and outside its lock).
