---------------------------- MODULE MemoryStorage ----------------------------
(***************************************************************************)
(* The memory backend (src/src/storage/memory.js).                         *)
(*                                                                         *)
(* A bucket is a record reached through the map of names.  A call that     *)
(* receives a body looks its bucket up, awaits the body, and then writes   *)
(* into the record it found, which by then may have lost its name or been  *)
(* replaced under it by another.  Every other call runs without an await   *)
(* between its checks and its writes, and is one action.                   *)
(*                                                                         *)
(* Each element of Ops is one call that uploads bytes or draws a random    *)
(* id; it names both.  The bytes of an object are the sequence of the      *)
(* uploads they are made of, and stand for their MD5 too.  Listings and    *)
(* reads change nothing and are left out; encryption is not visible in     *)
(* this backend's state.                                                   *)
(***************************************************************************)
EXTENDS Naturals, Sequences, FiniteSets

CONSTANTS
  Names, Keys,
  Refs,         \* bucket records; each is created once
  Ops,
  Statuses,     \* what versioning may be set to; not validated here
  PartNumbers,  \* a subset of 1 .. 10000
  Settings,     \* what a bucket may have set: "tags", "policy", "lifecycle", "cors"
  Tags,         \* tag sets of an object, NoTags the empty one
  NoTags, NullId, None,
  MaxInFlight,  \* bound: how many bodies are awaited at once
  MaxListed     \* bound: how many parts a client lists to complete an upload

ASSUME OpsAssumption  == None \notin Ops /\ NullId \notin Ops
ASSUME RefsAssumption == None \notin Refs
ASSUME TagsAssumption == NoTags \in Tags
ASSUME StatusesAssumption == {"", "Enabled"} \subseteq Statuses
ASSUME PartsAssumption == PartNumbers \subseteq 1 .. 10000
ASSUME BoundsAssumption == {MaxInFlight, MaxListed} \subseteq Nat

\* The versions of objects, delete markers included; None is no list of them.
Version == [id : Ops \cup {NullId}, by : Ops, body : Seq(Ops), from : Ops \cup {None},
            del : BOOLEAN, tag : Tags]
ASSUME NoneAssumption == None \notin Seq(Version)

VARIABLES
  buckets,  \* buckets[n]: the record under name n, or None
  heap,     \* heap[r]: the contents of record r, reachable by a name or not
  created,  \* the records that have been created
  op        \* op[o]: the local state of call o

vars == <<buckets, heap, created, op>>

\* A new bucket.  objects[k] and uploads[u] are None where the Map has no entry.
Blank == [versioning |-> "", settings |-> {},
          objects |-> [k \in Keys |-> None], uploads |-> [u \in Ops |-> None]]

\* A call that has not been made.
Idle == [pc |-> "idle", ref |-> None, key |-> None, body |-> <<>>,
         up |-> None, part |-> None]

Init == /\ buckets = [n \in Names |-> None]
        /\ heap = [r \in Refs |-> Blank]
        /\ created = {}
        /\ op = [o \in Ops |-> Idle]

-----------------------------------------------------------------------------
Exists(n) == buckets[n] # None
Bucket(n) == heap[buckets[n]]

\* The versions of a key, newest first.
VersionsOf(b, k) == IF b.objects[k] = None THEN <<>> ELSE b.objects[k]

\* findVersion: the place of version i in the list s, 0 if it has none.
Find(s, i) == IF i = None THEN IF s = <<>> THEN 0 ELSE 1
              ELSE IF \E n \in 1 .. Len(s) : s[n].id = i
                   THEN CHOOSE n \in 1 .. Len(s) :
                          s[n].id = i /\ \A m \in 1 .. n - 1 : s[m].id # i
                   ELSE 0

SetObject(r, k, s)  == heap' = [heap EXCEPT ![r].objects[k] = s]
SetUpload(r, u, up) == heap' = [heap EXCEPT ![r].uploads[u] = up]

Becomes(o, r) == op' = [op EXCEPT ![o] = r]

Is(o, pc) == op[o].pc = pc

\* l.90-110, 349-362: a version written by o; from is the upload it completes.
NewVersion(b, o, body, from) ==
  [id |-> IF b.versioning = "Enabled" THEN o ELSE NullId,
   by |-> o, body |-> body, from |-> from, del |-> FALSE, tag |-> NoTags]

Marker(o) ==
  [id |-> o, by |-> o, body |-> <<>>, from |-> None, del |-> TRUE, tag |-> NoTags]

\* Mutant: a write replaces the object even with versioning.
WrittenReplacing(b, k, v) == <<v>>

\* l.114-120, 367-373: in front of the others with versioning, else alone.
Written(b, k, v) == IF b.versioning = "Enabled" THEN <<v>> \o VersionsOf(b, k) ELSE <<v>>

-----------------------------------------------------------------------------
(* Buckets.                                                                *)

\* l.46-55.  The server sets the versioning by a call of its own afterwards.
CreateBucket(n, r) ==
  /\ ~ Exists(n) /\ r \notin created
  /\ buckets' = [buckets EXCEPT ![n] = r]
  /\ created' = created \cup {r}
  /\ UNCHANGED <<heap, op>>

\* Mutant: the bucket need not be empty.
DeleteBucketForced(n) ==
  /\ Exists(n)
  /\ buckets' = [buckets EXCEPT ![n] = None]
  /\ UNCHANGED <<heap, created, op>>

\* l.57-62
DeleteBucket(n) ==
  /\ Exists(n)
  /\ \A k \in Keys : Bucket(n).objects[k] = None
  /\ \A u \in Ops : Bucket(n).uploads[u] = None
  /\ buckets' = [buckets EXCEPT ![n] = None]
  /\ UNCHANGED <<heap, created, op>>

\* l.80-84
SetVersioning(n, status) ==
  /\ Exists(n)
  /\ heap' = [heap EXCEPT ![buckets[n]].versioning = status]
  /\ UNCHANGED <<buckets, created, op>>

\* l.435-439, 454-458, 473-477, 492-496 and their deletes.
SetSetting(n, x) ==
  /\ Exists(n)
  /\ heap' = [heap EXCEPT ![buckets[n]].settings = @ \cup {x}]
  /\ UNCHANGED <<buckets, created, op>>

DeleteSetting(n, x) ==
  /\ Exists(n)
  /\ heap' = [heap EXCEPT ![buckets[n]].settings = @ \ {x}]
  /\ UNCHANGED <<buckets, created, op>>

-----------------------------------------------------------------------------
(* Calls that await a body: putObject, copyObject, uploadPart.             *)

Room == Cardinality({o \in Ops : op[o].pc \in {"put", "part", "copy"}}) < MaxInFlight

\* l.86-89: find the bucket and await the body.
PutObject(o, n, k) ==
  /\ Exists(n) /\ Is(o, "idle") /\ Room
  /\ Becomes(o, [Idle EXCEPT !.pc = "put", !.ref = buckets[n], !.key = k, !.body = <<o>>])
  /\ UNCHANGED <<buckets, heap, created>>

\* l.189-190: the current version of the source, ...
CopyObject(o, n, k) ==
  /\ Exists(n) /\ Is(o, "idle") /\ Room
  /\ LET s == VersionsOf(Bucket(n), k)
     IN  /\ s # <<>> /\ ~ Head(s).del
         /\ Becomes(o, [Idle EXCEPT !.pc = "copy", !.body = Head(s).body])
  /\ UNCHANGED <<buckets, heap, created>>

\* Mutant: the destination bucket is not looked for.
CopyPutUnchecked(o, n, k) ==
  /\ Is(o, "copy")
  /\ Becomes(o, [op[o] EXCEPT !.pc = "put", !.ref = buckets[n], !.key = k])
  /\ UNCHANGED <<buckets, heap, created>>

\* ... l.191: is put under the destination, if its bucket is there by then.
CopyPut(o, n, k) ==
  /\ Is(o, "copy")
  /\ IF Exists(n)
     THEN Becomes(o, [op[o] EXCEPT !.pc = "put", !.ref = buckets[n], !.key = k])
     ELSE Becomes(o, [op[o] EXCEPT !.pc = "failed"])
  /\ UNCHANGED <<buckets, heap, created>>

\* Mutant: the bucket is looked up again by its name after the body.
PutEndByName(o) ==
  /\ Is(o, "put")
  /\ \E n \in Names :
       /\ Exists(n)
       /\ LET b == Bucket(n)
          IN  SetObject(buckets[n], op[o].key, Written(b, op[o].key, NewVersion(b, o, op[o].body, None)))
  /\ Becomes(o, [op[o] EXCEPT !.pc = "done"])
  /\ UNCHANGED <<buckets, created>>

\* l.90-121: the body is there: read the versioning and write the version.
PutEnd(o) ==
  /\ Is(o, "put")
  /\ LET b == heap[op[o].ref]
     IN  SetObject(op[o].ref, op[o].key, Written(b, op[o].key, NewVersion(b, o, op[o].body, None)))
  /\ Becomes(o, [op[o] EXCEPT !.pc = "done"])
  /\ UNCHANGED <<buckets, created>>

\* l.310-316: find the upload, whatever the key, and await the body.
UploadPart(o, n, u, p) ==
  /\ Exists(n) /\ Is(o, "idle") /\ Room
  /\ Bucket(n).uploads[u] # None
  /\ Becomes(o, [Idle EXCEPT !.pc = "part", !.ref = buckets[n], !.up = u, !.part = p])
  /\ UNCHANGED <<buckets, heap, created>>

\* Mutant: the upload is looked up only after the body, and created if missing.
PartEndRevives(o) ==
  /\ Is(o, "part")
  /\ LET up == heap[op[o].ref].uploads[op[o].up]
     IN  SetUpload(op[o].ref, op[o].up,
                   IF up = None THEN [p \in PartNumbers |-> IF p = op[o].part THEN o ELSE None]
                   ELSE [up EXCEPT ![op[o].part] = o])
  /\ Becomes(o, [op[o] EXCEPT !.pc = "done"])
  /\ UNCHANGED <<buckets, created>>

\* l.317-324: the part goes into the record of the upload, which nobody sees any
\* more if the upload has been completed or aborted.
PartEnd(o) ==
  /\ Is(o, "part")
  /\ LET up == heap[op[o].ref].uploads[op[o].up]
     IN  IF up = None THEN UNCHANGED heap
         ELSE SetUpload(op[o].ref, op[o].up, [up EXCEPT ![op[o].part] = o])
  /\ Becomes(o, [op[o] EXCEPT !.pc = "done"])
  /\ UNCHANGED <<buckets, created>>

\* l.575: the request breaks off; the body of a copy is already in memory.
StreamError(o) ==
  /\ Is(o, "part") \/ (Is(o, "put") /\ op[o].body = <<o>>)
  /\ Becomes(o, [op[o] EXCEPT !.pc = "failed"])
  /\ UNCHANGED <<buckets, heap, created>>

-----------------------------------------------------------------------------
(* Multipart uploads.                                                      *)

\* l.295-308.  The upload's key is recorded and never compared.
CreateMultipartUpload(o, n) ==
  /\ Exists(n) /\ Is(o, "idle")
  /\ SetUpload(buckets[n], o, [p \in PartNumbers |-> None])
  /\ Becomes(o, [Idle EXCEPT !.pc = "done", !.ref = buckets[n]])
  /\ UNCHANGED <<buckets, created>>

\* l.332-334: part numbers may repeat but not go down.
Lists == {s \in UNION {[1 .. n -> PartNumbers] : n \in 0 .. MaxListed} :
            \A i \in 2 .. Len(s) : s[i - 1] <= s[i]}

\* l.335-347: the bytes of the listed parts, one after the other.
Assembled(up, list) == [i \in 1 .. Len(list) |-> up[list[i]]]

\* Mutant: the upload is not removed.
CompleteKeepsUpload(o, n, k, u, list) ==
  /\ Exists(n) /\ Is(o, "idle")
  /\ LET b == Bucket(n)
         up == b.uploads[u]
     IN  /\ up # None /\ \A i \in 1 .. Len(list) : up[list[i]] # None
         /\ SetObject(buckets[n], k, Written(b, k, NewVersion(b, o, Assembled(up, list), u)))
  /\ Becomes(o, [Idle EXCEPT !.pc = "done", !.ref = buckets[n]])
  /\ UNCHANGED <<buckets, created>>

\* l.327-376: every listed part is there (with the ETag the client gives, if it
\* gives one); write the object under the key of this call and drop the upload.
CompleteMultipartUpload(o, n, k, u, list) ==
  /\ Exists(n) /\ Is(o, "idle")
  /\ LET b == Bucket(n)
         up == b.uploads[u]
     IN  /\ up # None /\ \A i \in 1 .. Len(list) : up[list[i]] # None
         /\ heap' = [heap EXCEPT
              ![buckets[n]].objects[k] = Written(b, k, NewVersion(b, o, Assembled(up, list), u)),
              ![buckets[n]].uploads[u] = None]
  /\ Becomes(o, [Idle EXCEPT !.pc = "done", !.ref = buckets[n]])
  /\ UNCHANGED <<buckets, created>>

\* l.378-383
AbortMultipartUpload(n, u) ==
  /\ Exists(n) /\ Bucket(n).uploads[u] # None
  /\ SetUpload(buckets[n], u, None)
  /\ UNCHANGED <<buckets, created, op>>

-----------------------------------------------------------------------------
(* Deletes, tags, lifecycle.                                               *)

\* l.160-169, 179-183: with versioning a marker hides the object, or is all
\* there is of it.
DeleteMarking(o, n, k) ==
  /\ Exists(n) /\ Is(o, "idle") /\ Bucket(n).versioning = "Enabled"
  /\ SetObject(buckets[n], k, <<Marker(o)>> \o VersionsOf(Bucket(n), k))
  /\ Becomes(o, [Idle EXCEPT !.pc = "done", !.ref = buckets[n]])
  /\ UNCHANGED <<buckets, created>>

\* l.184-186: without versioning the object goes.
DeleteObject(n, k) ==
  /\ Exists(n) /\ Bucket(n).versioning # "Enabled"
  /\ Bucket(n).objects[k] # None
  /\ SetObject(buckets[n], k, None)
  /\ UNCHANGED <<buckets, created, op>>

Without(s, i) == SubSeq(s, 1, i - 1) \o SubSeq(s, i + 1, Len(s))

\* Mutant: an object without versions stays in the map.
RemovedKept(s, i) == Without(s, i)

\* l.175-176: without its last version the object goes.
Removed(s, i) == IF Len(s) = 1 THEN None ELSE Without(s, i)

\* l.172-178: one version goes.
DeleteVersion(n, k, i) ==
  /\ Exists(n) /\ Bucket(n).objects[k] # None
  /\ i # None /\ Find(Bucket(n).objects[k], i) # 0
  /\ SetObject(buckets[n], k, Removed(Bucket(n).objects[k], Find(Bucket(n).objects[k], i)))
  /\ UNCHANGED <<buckets, created, op>>

\* l.415-427
SetObjectTagging(n, k, i, tags) ==
  /\ Exists(n)
  /\ LET s == VersionsOf(Bucket(n), k)
     IN  /\ Find(s, i) # 0 /\ ~ s[Find(s, i)].del
         /\ SetObject(buckets[n], k, [s EXCEPT ![Find(s, i)].tag = tags])
  /\ UNCHANGED <<buckets, created, op>>

\* l.505-523, one turn of the loop: under a rule, a current version old enough
\* goes, by its id with versioning.  Any version may be old enough.
ExpireObject(n, k) ==
  /\ Exists(n) /\ "lifecycle" \in Bucket(n).settings
  /\ LET s == VersionsOf(Bucket(n), k)
     IN  /\ s # <<>> /\ ~ Head(s).del
         /\ SetObject(buckets[n], k, IF Bucket(n).versioning = "Enabled"
                                     THEN Removed(s, Find(s, Head(s).id)) ELSE None)
  /\ UNCHANGED <<buckets, created, op>>

\* l.524-534: under a rule, an upload old enough goes.
ExpireUpload(n, u) ==
  /\ Exists(n) /\ "lifecycle" \in Bucket(n).settings
  /\ AbortMultipartUpload(n, u)

-----------------------------------------------------------------------------
\* Calls that draw an id or upload bytes.
Call(o) ==
  \E n \in Names :
    \/ CreateMultipartUpload(o, n)
    \/ \E k \in Keys :
         \/ PutObject(o, n, k) \/ CopyObject(o, n, k) \/ CopyPut(o, n, k)
         \/ DeleteMarking(o, n, k)
         \/ \E u \in Ops, list \in Lists : CompleteMultipartUpload(o, n, k, u, list)
    \/ \E u \in Ops, p \in PartNumbers : UploadPart(o, n, u, p)

Administer(n) ==
  \/ \E r \in Refs : CreateBucket(n, r)
  \/ DeleteBucket(n)
  \/ \E s \in Statuses : SetVersioning(n, s)
  \/ \E x \in Settings : SetSetting(n, x) \/ DeleteSetting(n, x)

Change(n) ==
  \/ \E k \in Keys :
       \/ DeleteObject(n, k) \/ ExpireObject(n, k)
       \/ \E i \in Ops \cup {NullId} : DeleteVersion(n, k, i)
       \/ \E i \in Ops \cup {NullId, None}, t \in Tags : SetObjectTagging(n, k, i, t)
  \/ \E u \in Ops : AbortMultipartUpload(n, u) \/ ExpireUpload(n, u)

Next == \/ \E o \in Ops : Call(o) \/ PutEnd(o) \/ PartEnd(o) \/ StreamError(o)
        \/ \E n \in Names : Administer(n) \/ Change(n)

Spec == Init /\ [][Next]_vars

-----------------------------------------------------------------------------
Upload == [PartNumbers -> Ops \cup {None}]

Contents == [versioning : Statuses, settings : SUBSET Settings,
             objects : [Keys -> Seq(Version) \cup {None}], uploads : [Ops -> Upload \cup {None}]]

CallState == [pc : {"idle", "copy", "put", "part", "done", "failed"},
              ref : Refs \cup {None}, key : Keys \cup {None}, body : Seq(Ops),
              up : Ops \cup {None}, part : PartNumbers \cup {None}]

\* A call that awaits a body knows where it goes.
CallsOK ==
  /\ op \in [Ops -> CallState]
  /\ \A o \in Ops : /\ op[o].pc \in {"put", "part"} => op[o].ref \in created
                    /\ op[o].pc = "put" => op[o].key \in Keys
                    /\ op[o].pc = "part" => op[o].up \in Ops /\ op[o].part \in PartNumbers

TypeOK == /\ buckets \in [Names -> Refs \cup {None}]
          /\ heap \in [Refs -> Contents]
          /\ created \subseteq Refs
          /\ CallsOK

\* Every object in the map has a version (deleteObject takes versions[0], and a
\* bucket with an entry cannot be deleted), and no id occurs twice in it, so
\* that a client who names a version reads or deletes that one.
ObjectsWellFormed ==
  \A r \in Refs, k \in Keys :
    heap[r].objects[k] # None =>
      LET s == heap[r].objects[k]
      IN  s # <<>> /\ \A i, j \in 1 .. Len(s) : s[i].id = s[j].id => i = j

\* An upload becomes an object at most once: as long as it can be completed no
\* version is made of it, and no two versions are.
UploadsCompleteOnce ==
  \A r \in Refs, k \in Keys : \A i \in 1 .. Len(VersionsOf(heap[r], k)) :
    LET v == VersionsOf(heap[r], k)[i]
    IN  v.from # None =>
          /\ heap[r].uploads[v.from] = None
          /\ \A l \in Keys : \A j \in 1 .. Len(VersionsOf(heap[r], l)) :
               VersionsOf(heap[r], l)[j].from = v.from => k = l /\ i = j

\* A version belongs to one call: it has the id that call drew or "null", its
\* bytes are those of uploads that ended well, and it is in the bucket that had
\* the name when the call was made, not in one created under the same name while
\* the body was awaited.
WritesWhereCalled ==
  \A r \in Refs, k \in Keys : \A i \in 1 .. Len(VersionsOf(heap[r], k)) :
    LET v == VersionsOf(heap[r], k)[i]
    IN  /\ v.id \in {v.by, NullId} /\ (v.del => v.id = v.by)
        /\ op[v.by].pc = "done" /\ op[v.by].ref = r
        /\ v.from # None => op[v.from].pc = "done"
        /\ \A j \in 1 .. Len(v.body) : op[v.body[j]].pc = "done"

\* A bucket is empty when it gets its name, two names never share one, and when
\* it has lost its name it has no upload that could be completed.
BucketsApart ==
  /\ \A n \in Names : Exists(n) => buckets[n] \in created
  /\ \A m, n \in Names : Exists(m) /\ buckets[m] = buckets[n] => m = n
  /\ \A r \in Refs \ created : heap[r] = Blank
  /\ \A r \in Refs : (\A n \in Names : buckets[n] # r) => \A u \in Ops : heap[r].uploads[u] = None

\* What calls and uploads carry has been received: the bytes of a call are its own
\* or those of uploads that ended well, and so are the parts of an upload.
CarriedReceived ==
  /\ \A o \in Ops : \A j \in 1 .. Len(op[o].body) :
       op[o].body[j] = o \/ op[op[o].body[j]].pc = "done"
  /\ \A r \in Refs, u \in Ops : heap[r].uploads[u] # None =>
       /\ op[u].pc = "done"
       /\ \A p \in PartNumbers : heap[r].uploads[u][p] # None => op[heap[r].uploads[u][p]].pc = "done"

\* The inductive invariant behind the properties above.
StorageInv ==
  /\ TypeOK /\ ObjectsWellFormed /\ UploadsCompleteOnce /\ WritesWhereCalled
  /\ BucketsApart /\ CarriedReceived

IdsOf(s) == [i \in 1 .. Len(s) |-> s[i].id]

\* With versioning, one step adds one version in front of the others or takes one
\* away, whatever the versioning was when its call was made.
VersioningKeepsVersions ==
  [][\A r \in Refs, k \in Keys :
       LET old == IdsOf(VersionsOf(heap[r], k))
           new == IdsOf(VersionsOf(heap'[r], k))
       IN  heap[r].versioning = "Enabled" =>
             \/ new = old
             \/ new # <<>> /\ Tail(new) = old
             \/ \E i \in 1 .. Len(old) : new = Without(old, i)]_vars

-----------------------------------------------------------------------------
\* What a client can tell of a version; v.by stands for its bytes.
View(v) == [id |-> v.id, by |-> v.by, del |-> v.del, tag |-> v.tag]

\* What a client can tell of a key of the bucket under a name.
Seen(n, k) == IF Exists(n)
              THEN LET s == VersionsOf(Bucket(n), k) IN [i \in 1 .. Len(s) |-> View(s[i])]
              ELSE <<>>

\* The versions a call may write: a marker has an id of its own.
NewVersions == {v \in [id : Ops \cup {NullId}, by : Ops, del : BOOLEAN, tag : {NoTags}] :
                  v.id = v.by \/ (v.id = NullId /\ ~ v.del)}

Store == INSTANCE ObjectStore
           WITH Keys <- Names \X Keys,
                versions <- [x \in Names \X Keys |-> Seen(x[1], x[2])],
                Versions <- NewVersions,
                MaxVersions <- Cardinality(Ops) + 1

\* Through the names of buckets one sees only what ObjectStore allows: versions
\* come and go one call at a time, and none with a bucket.
ImplementsObjectStore == Store!Spec
=============================================================================
