----------------------------- MODULE DiskObjects -----------------------------
(***************************************************************************)
(* The objects of one bucket of the disk backend (src/src/storage/disk.js) *)
(* at the granularity of its awaits on the file system.                    *)
(*                                                                         *)
(* An object is a metadata file holding its list of versions, and one data *)
(* file per version that is not a delete marker; each of these files is    *)
(* written under a ".tmp" name and renamed.  Mutations of a key hold the   *)
(* key's lock, whose contract is the module FifoLock; reads take no lock,  *)
(* and completeMultipartUpload takes the lock of the upload instead.       *)
(*                                                                         *)
(* Each element of Ops is one call, made at most once.  It names what it   *)
(* creates: the bytes it uploads (unless they are none, NoBytes), the      *)
(* random version id it draws, the nonce it encrypts under and the tags it *)
(* sets.  Several calls write the same file only under the id NullId.      *)
(*                                                                         *)
(* A file that is being written holds Torn until the write ends.  Between  *)
(* two awaits JavaScript is not interrupted, so what the code does there   *)
(* is part of the action of the await before.                              *)
(***************************************************************************)
EXTENDS Naturals, Sequences, FiniteSets

CONSTANTS
  Ops,
  Keys,
  Kinds,        \* the calls made: a subset of AllKinds
  Modes,        \* the values versioning takes: a subset of {"Enabled", "Suspended"}
  Encs,         \* whether uploads ask for encryption: a subset of BOOLEAN
  Empties,      \* {NoBytes} if uploads may be empty, else {}
  NullId, None, Torn, NoBytes,
  MaxVersions,  \* 100 in the code
  MaxInFlight,  \* bound: how many calls overlap
  MaxCrashes,   \* bound: how often the process is killed
  MaxGone       \* bound: how many clients hang up while their put is waiting

AllKinds == {"put", "copy", "complete", "delete", "tag", "get", "expire"}

ASSUME KindsAssumption == Kinds \subseteq AllKinds
ASSUME ModesAssumption == Modes \subseteq {"Enabled", "Suspended"}
ASSUME EmptiesAssumption == Empties \subseteq {NoBytes}
ASSUME EncsAssumption == Encs \subseteq BOOLEAN
ASSUME OpsAssumption == IsFiniteSet(Ops)
ASSUME BoundsAssumption == /\ MaxVersions \in Nat \ {0}
                           /\ {MaxInFlight, MaxCrashes, MaxGone} \subseteq Nat

Ids   == Ops \cup {NullId}
Bytes == Ops \cup {Torn, NoBytes}

\* A version in the metadata: who wrote it, the MD5 of its bytes, whether it is
\* encrypted, whether it is a delete marker, who set its tags.
Version == [id : Ids, by : Ops, etag : Bytes \cup {None}, enc : BOOLEAN, del : BOOLEAN,
            tag : Ops \cup {None}]

\* A file with data: its bytes and, if it is encrypted, whose nonce that was with.
DataFile == [bytes : Bytes, by : Ops \cup {None}]

ASSUME NamesAssumption == /\ NullId \notin Ops /\ NoBytes \notin Ops /\ Torn \notin Ops \cup {NoBytes}
                          /\ None \notin Ids \cup Bytes \cup Modes \cup Keys \cup DataFile \cup Seq(Version)
                          /\ None \notin {"ok", "NoSuchKey", "failed"}

VARIABLES
  versioning,   \* the versioning field of bucket.json ("" acts as "Suspended")
  meta,         \* meta[k]: the versions in the metadata file; <<>>: no file
  metaTmp,      \* metaTmp[k]: the same of the metadata file's ".tmp", or None
  data,         \* data[<<k, i>>]: the data file of version i, or None
  tmp,          \* tmp[<<k, i>>]: its ".tmp", or None
  line, inside, \* the key locks, see FifoLock
  op,           \* op[o]: the local state of call o
  aged,         \* the calls whose versions are old enough to expire
  crashes

disk == <<meta, metaTmp, data, tmp>>
lock == <<line, inside>>
env  == <<versioning, aged, crashes>>
vars == <<versioning, meta, metaTmp, data, tmp, line, inside, op, aged, crashes>>

Lock == INSTANCE FifoLock WITH Calls <- Ops

\* The local state of a call that has not been made.
Idle == [kind |-> "none", pc |-> "idle", key |-> None,
         arg |-> None,     \* the version asked for, None for the current one
         enc |-> FALSE,    \* encrypt
         mode |-> None,    \* what the call read of versioning
         body |-> None,    \* the bytes it writes or serves
         etag |-> None,    \* their MD5, or the ETag it answers
         om |-> <<>>,      \* its copy of the list of versions
         todo |-> <<>>,    \* versions whose data it has still to remove
         gone |-> FALSE,   \* the client hung up before the body was read
         res |-> None]     \* the answer: "ok", "NoSuchKey", "failed"

Init == /\ versioning \in Modes
        /\ meta = [k \in Keys |-> <<>>]
        /\ metaTmp = [k \in Keys |-> None]
        /\ data = [f \in Keys \X Ids |-> None]
        /\ tmp = [f \in Keys \X Ids |-> None]
        /\ Lock!Init
        /\ op = [o \in Ops |-> Idle]
        /\ aged = {}
        /\ crashes = 0

-----------------------------------------------------------------------------
(* The state of a call.                                                    *)

Ended(o)    == op[o].pc \in {"done", "lost"}
InFlight(o) == op[o].pc # "idle" /\ ~ Ended(o)
Writes(o)   == op[o].kind \in {"put", "copy", "complete"}

At(o, pc) == op[o].pc = pc

\* The state of the call o becomes r.
Becomes(o, r) == op' = [op EXCEPT ![o] = r]

Ending(o, res) == [Idle EXCEPT !.kind = op[o].kind, !.key = op[o].key,
                               !.arg = op[o].arg, !.mode = op[o].mode,
                               !.etag = op[o].etag, !.body = op[o].body,
                               !.pc = "done", !.res = res]

\* Mutant: the lock is not given up when the call fails (no finally).
FinishKeepsLock(o, res) ==
  /\ op' = [op EXCEPT ![o] = Ending(o, res)]
  /\ IF o \in inside /\ res = "ok" THEN Lock!Leave(o, op[o].key) ELSE UNCHANGED lock

\* The call answers, and gives up the lock if it holds it (the finally of
\* withKeyLock).
Finish(o, res) ==
  /\ op' = [op EXCEPT ![o] = Ending(o, res)]
  /\ IF o \in inside THEN Lock!Leave(o, op[o].key) ELSE UNCHANGED lock

\* The bound on overlapping calls leaves room for one more.
Room == Cardinality({p \in Ops : InFlight(p)}) < MaxInFlight

\* A call is made: o starts in the state r.
Made(o, r) == r.kind \in Kinds /\ At(o, "idle") /\ Room /\ Becomes(o, r)

\* The versions a client may know of, and the current one.
Known(k) == {None} \cup {meta[k][i].id : i \in 1 .. Len(meta[k])}

\* Mutant: the version asked for is ignored.
FindCurrent(s, i) == IF s = <<>> THEN 0 ELSE 1

\* _findVersion: the place of version i in the list s, 0 if it has none.
Find(s, i) == IF i = None THEN IF s = <<>> THEN 0 ELSE 1
              ELSE IF \E n \in 1 .. Len(s) : s[n].id = i
                   THEN CHOOSE n \in 1 .. Len(s) :
                          s[n].id = i /\ \A m \in 1 .. n - 1 : s[m].id # i
                   ELSE 0

\* Mutant: splice(0, 1) for splice(idx, 1).
WithoutFirst(s, n) == Tail(s)

Without(s, n) == SubSeq(s, 1, n - 1) \o SubSeq(s, n + 1, Len(s))

-----------------------------------------------------------------------------
(* putObject, and the put at the end of copyObject.                        *)

\* l.182-183: the bucket is there; wait for the lock with the request's body.
PutCall(o) ==
  \E k \in Keys, e \in Encs, b \in {o} \cup Empties :
    /\ Made(o, [Idle EXCEPT !.kind = "put", !.key = k, !.enc = e, !.body = b, !.pc = "queued"])
    /\ Lock!Join(o, k)
    /\ UNCHANGED <<disk, env>>

File(o, mode) == <<op[o].key, IF mode = "Enabled" THEN o ELSE NullId>>
OwnFile(o)    == File(o, op[o].mode)

\* Mutant: the mutation does not wait for its turn.
AcquireUnlocked(o) ==
  /\ At(o, "queued")
  /\ inside' = inside \cup {o} /\ UNCHANGED line
  /\ Becomes(o, [op[o] EXCEPT !.pc = "held"])
  /\ UNCHANGED <<disk, env>>

\* The call's turn has come.
Acquire(o) ==
  /\ At(o, "queued")
  /\ Lock!Go(o, op[o].key)
  /\ Becomes(o, [op[o] EXCEPT !.pc = "held"])
  /\ UNCHANGED <<disk, env>>

\* l.185-194: read versioning, draw a version id, open the ".tmp".
PutOpen(o) ==
  /\ Writes(o) /\ At(o, "held")
  /\ tmp' = [tmp EXCEPT ![File(o, versioning)] = [bytes |-> Torn, by |-> None]]
  /\ Becomes(o, [op[o] EXCEPT !.mode = versioning, !.pc = "stream"])
  /\ UNCHANGED <<meta, metaTmp, data, lock, env>>

\* The client hangs up before writeStreamToFile listens to its request: a
\* destroyed stream sends neither "end" nor "error" to who listens later.
HangUp(o) ==
  /\ op[o].kind = "put" /\ op[o].pc \in {"queued", "held"} /\ ~ op[o].gone
  /\ Cardinality({p \in Ops : op[p].gone}) < MaxGone
  /\ Becomes(o, [op[o] EXCEPT !.gone = TRUE])
  /\ UNCHANGED <<disk, lock, env>>

\* l.194, 831-844: the whole body is in the ".tmp".
StreamEnd(o) ==
  /\ Writes(o) /\ At(o, "stream") /\ ~ op[o].gone
  /\ tmp' = [tmp EXCEPT ![OwnFile(o)] = [bytes |-> op[o].body, by |-> None]]
  /\ Becomes(o, [op[o] EXCEPT !.pc = "hash"])
  /\ UNCHANGED <<meta, metaTmp, data, lock, env>>

\* l.194, 842: the request breaks off, and the ".tmp" stays as it is: the last bytes
\* that its writer, which nobody destroys, was given are taken to have reached it
\* before the next call opens it.  For complete, l.508-509: a part is not the one
\* that was asked for.
StreamFail(o) ==
  /\ op[o].kind \in {"put", "complete"} /\ At(o, "stream") /\ ~ op[o].gone
  /\ Finish(o, "failed")
  /\ UNCHANGED <<disk, env>>

\* l.195: the ETag is the MD5 of the ".tmp"; complete has hashed what it wrote.
Hash(o) ==
  /\ Writes(o) /\ At(o, "hash")
  /\ IF op[o].kind = "complete"
     THEN Becomes(o, [op[o] EXCEPT !.etag = op[o].body, !.pc = "read"]) /\ UNCHANGED lock
     ELSE IF tmp[OwnFile(o)] = None
     THEN Finish(o, "failed")
     ELSE Becomes(o, [op[o] EXCEPT !.etag = tmp[OwnFile(o)].bytes, !.pc = "read"]) /\ UNCHANGED lock
  /\ UNCHANGED <<disk, env>>

\* l.197-202: read the versions; without versioning their data goes first.
ReadMeta(o) ==
  /\ Writes(o) /\ At(o, "read")
  /\ LET om == meta[op[o].key]
         old == IF op[o].mode = "Enabled" THEN <<>> ELSE om
     IN  Becomes(o, [op[o] EXCEPT !.om = om, !.todo = old, !.pc = IF old = <<>> THEN "swap" ELSE "drop"])
  /\ UNCHANGED <<disk, lock, env>>

\* Mutant: entry.enc is not recorded.
NewVersionPlain(o) == [id |-> OwnFile(o)[2], by |-> o, etag |-> op[o].etag, enc |-> FALSE,
                       del |-> FALSE, tag |-> None]

\* l.212-221: the entry of the new version.
NewVersion(o) == [id |-> OwnFile(o)[2], by |-> o, etag |-> op[o].etag, enc |-> op[o].enc,
                  del |-> FALSE, tag |-> None]

\* Mutant: a put cuts the list as complete does, and forgets the data file.
ListedSliced(o) ==
  LET all == <<NewVersion(o)>> \o op[o].om
  IN  [op[o] EXCEPT !.pc = "wmeta",
                    !.om = IF op[o].mode # "Enabled" THEN <<NewVersion(o)>>
                           ELSE IF Len(all) <= MaxVersions THEN all ELSE SubSeq(all, 1, MaxVersions)]

\* l.222-231: the list with the new version, of which the 101st is dropped.
\* complete (l.543-548) cuts the list first and then finds nothing to drop.
Listed(o) ==
  LET all == <<NewVersion(o)>> \o op[o].om
      n   == Len(all)
  IN  IF op[o].mode # "Enabled"
      THEN [op[o] EXCEPT !.om = <<NewVersion(o)>>, !.pc = "wmeta"]
      ELSE IF n <= MaxVersions
      THEN [op[o] EXCEPT !.om = all, !.pc = "wmeta"]
      ELSE IF op[o].kind = "complete"
      THEN [op[o] EXCEPT !.om = SubSeq(all, 1, MaxVersions), !.pc = "wmeta"]
      ELSE [op[o] EXCEPT !.om = SubSeq(all, 1, n - 1), !.todo = <<all[n]>>, !.pc = "trim"]

\* l.209: rename the ".tmp" to the data file.
Swap(o) ==
  /\ Writes(o) /\ At(o, "swap") /\ ~ op[o].enc
  /\ IF tmp[OwnFile(o)] = None
     THEN Finish(o, "failed") /\ UNCHANGED disk
     ELSE /\ data' = [data EXCEPT ![OwnFile(o)] = tmp[OwnFile(o)]]
          /\ tmp' = [tmp EXCEPT ![OwnFile(o)] = None]
          /\ Becomes(o, Listed(o))
          /\ UNCHANGED <<meta, metaTmp, lock>>
  /\ UNCHANGED env

\* l.205 (encryptFile): read the ".tmp", write the cipher text to the data file
\* under its final name, ...
SealOpen(o) ==
  /\ Writes(o) /\ At(o, "swap") /\ op[o].enc
  /\ IF tmp[OwnFile(o)] = None
     THEN Finish(o, "failed") /\ UNCHANGED disk
     ELSE /\ data' = [data EXCEPT ![OwnFile(o)] = [bytes |-> Torn, by |-> o]]
          /\ Becomes(o, [op[o] EXCEPT !.body = tmp[OwnFile(o)].bytes, !.pc = "seal"])
          /\ UNCHANGED <<meta, metaTmp, tmp, lock>>
  /\ UNCHANGED env

SealEnd(o) ==
  /\ At(o, "seal")
  /\ data' = [data EXCEPT ![OwnFile(o)] = [bytes |-> op[o].body, by |-> o]]
  /\ Becomes(o, [op[o] EXCEPT !.pc = "clean"])
  /\ UNCHANGED <<meta, metaTmp, tmp, lock, env>>

\* l.206: ... and remove the ".tmp".
CleanTmp(o) ==
  /\ At(o, "clean")
  /\ tmp' = [tmp EXCEPT ![OwnFile(o)] = None]
  /\ Becomes(o, Listed(o))
  /\ UNCHANGED <<meta, metaTmp, data, lock, env>>

-----------------------------------------------------------------------------
(* Removing data files and writing the metadata, for every mutation.       *)

\* _removeDataFile (l.777-780) for one version after the other.
DropData(o) ==
  /\ op[o].pc \in {"drop", "trim"} /\ op[o].todo # <<>>
  /\ data' = [data EXCEPT ![<<op[o].key, Head(op[o].todo).id>>] = None]
  /\ LET rest == Tail(op[o].todo)
         next == IF rest # <<>> THEN op[o].pc
                 ELSE IF Writes(o) /\ At(o, "drop") THEN "swap"
                 ELSE IF ~ Writes(o) /\ op[o].om = <<>> THEN "rmmeta"
                 ELSE "wmeta"
     IN  Becomes(o, [op[o] EXCEPT !.todo = rest, !.pc = next])
  /\ UNCHANGED <<meta, metaTmp, tmp, lock, env>>

\* Mutant: the metadata file is truncated and written in place.
WriteMetaInPlace(o) ==
  /\ At(o, "wmeta")
  /\ metaTmp' = [metaTmp EXCEPT ![op[o].key] = op[o].om]
  /\ meta' = [meta EXCEPT ![op[o].key] = <<>>]
  /\ Becomes(o, [op[o] EXCEPT !.pc = "rename"])
  /\ UNCHANGED <<data, tmp, lock, env>>

\* writeJsonAtomic (l.823-829): write the ".tmp", ...
WriteMeta(o) ==
  /\ At(o, "wmeta")
  /\ metaTmp' = [metaTmp EXCEPT ![op[o].key] = op[o].om]
  /\ Becomes(o, [op[o] EXCEPT !.pc = "rename"])
  /\ UNCHANGED <<meta, data, tmp, lock, env>>

\* ... and rename it, which fails if somebody else has done so.
RenameMeta(o) ==
  /\ At(o, "rename")
  /\ LET k == op[o].key
     IN  IF metaTmp[k] = None
         THEN Finish(o, "failed") /\ UNCHANGED disk
         ELSE /\ meta' = [meta EXCEPT ![k] = metaTmp[k]]
              /\ metaTmp' = [metaTmp EXCEPT ![k] = None]
              /\ Finish(o, "ok")
              /\ UNCHANGED <<data, tmp>>
  /\ UNCHANGED env

\* l.311, 333: the last version is gone, and with it the metadata file.
RemoveMeta(o) ==
  /\ At(o, "rmmeta")
  /\ meta' = [meta EXCEPT ![op[o].key] = <<>>]
  /\ Finish(o, "ok")
  /\ UNCHANGED <<metaTmp, data, tmp, env>>

-----------------------------------------------------------------------------
(* deleteObject, setObjectTagging, runLifecycle.                           *)

DeleteCall(o) ==
  \E k \in Keys : \E i \in Known(k) :
    /\ Made(o, [Idle EXCEPT !.kind = "delete", !.key = k, !.arg = i, !.pc = "ask"])
    /\ UNCHANGED <<disk, lock, env>>

\* l.283-285: versioning is read before the wait for the lock.
DeleteAsk(o) ==
  /\ At(o, "ask")
  /\ Lock!Join(o, op[o].key)
  /\ Becomes(o, [op[o] EXCEPT !.mode = versioning, !.pc = "queued"])
  /\ UNCHANGED <<disk, env>>

\* Mutant: a marker under the id "null".
MarkerNull(o) == [id |-> NullId, by |-> o, etag |-> None, enc |-> FALSE, del |-> TRUE, tag |-> None]

Marker(o) == [id |-> o, by |-> o, etag |-> None, enc |-> FALSE, del |-> TRUE, tag |-> None]

\* l.286-334: with the lock, read the versions and choose what to do.
DeleteRead(o) ==
  /\ op[o].kind \in {"delete", "expire"} /\ At(o, "held")
  /\ LET om == meta[op[o].key]
         n == Find(om, op[o].arg)
         versioned == op[o].mode = "Enabled"
     IN  \/ /\ om = <<>> /\ ~ versioned
            /\ Finish(o, "ok")
         \/ /\ om # <<>> /\ n = 0
            /\ Finish(o, "NoSuchKey")
         \/ /\ versioned /\ (om = <<>> \/ op[o].arg = None)
            /\ Becomes(o, [op[o] EXCEPT !.om = <<Marker(o)>> \o om, !.pc = "wmeta"])
            /\ UNCHANGED lock
         \/ /\ om # <<>> /\ op[o].arg # None /\ n # 0
            /\ Becomes(o, [op[o] EXCEPT !.om = Without(om, n), !.todo = <<om[n]>>, !.pc = "drop"])
            /\ UNCHANGED lock
         \/ /\ om # <<>> /\ op[o].arg = None /\ ~ versioned
            /\ Becomes(o, [op[o] EXCEPT !.om = <<>>, !.todo = om, !.pc = "drop"])
            /\ UNCHANGED lock
  /\ UNCHANGED <<disk, env>>

TagCall(o) ==
  \E k \in Keys : \E i \in Known(k) :
    /\ Made(o, [Idle EXCEPT !.kind = "tag", !.key = k, !.arg = i, !.pc = "queued"])
    /\ Lock!Join(o, k)
    /\ UNCHANGED <<disk, env>>

\* l.604-609: with the lock, read the versions and set the tags of one.
TagRead(o) ==
  /\ op[o].kind = "tag" /\ At(o, "held")
  /\ LET om == meta[op[o].key]
         n == Find(om, op[o].arg)
     IN  IF n = 0 \/ (n # 0 /\ om[n].del)
         THEN Finish(o, "NoSuchKey")
         ELSE Becomes(o, [op[o] EXCEPT !.om = [om EXCEPT ![n].tag = o], !.pc = "wmeta"]) /\ UNCHANGED lock
  /\ UNCHANGED <<disk, env>>

\* One turn of the loop of runLifecycle (l.705-719).  l.692-701: versioning and
\* the rules are read once; ...
ExpireCall(o) ==
  \E k \in Keys :
    /\ Made(o, [Idle EXCEPT !.kind = "expire", !.key = k, !.mode = versioning, !.pc = "scan"])
    /\ UNCHANGED <<disk, lock, env>>

\* ... l.706-717: an expired current version is deleted, by its id with
\* versioning and by its key without.
ExpireScan(o) ==
  /\ At(o, "scan")
  /\ LET om == meta[op[o].key]
         versioned == op[o].mode = "Enabled"
     IN  IF om # <<>> /\ ~ Head(om).del /\ Head(om).by \in aged
         THEN Becomes(o, [op[o] EXCEPT !.arg = IF versioned THEN Head(om).id ELSE None, !.pc = "ask"])
         ELSE Becomes(o, Ending(o, "ok"))
  /\ UNCHANGED <<disk, lock, env>>

-----------------------------------------------------------------------------
(* The reads: headObject and getObject, for the server's GET and for copy. *)

\* server.js l.549: the headers of the answer are those of a first headObject.
GetCall(o) ==
  \E k \in Keys : \E i \in Known(k) :
    /\ Made(o, [Idle EXCEPT !.kind = "get", !.key = k, !.arg = i, !.pc = "head"])
    /\ UNCHANGED <<disk, lock, env>>

\* l.338-339: copyObject reads the current version of the source.
CopyCall(o) ==
  \E k \in Keys :
    /\ Made(o, [Idle EXCEPT !.kind = "copy", !.key = k, !.pc = "look"])
    /\ UNCHANGED <<disk, lock, env>>

Seen(o) == LET om == meta[op[o].key]
               n == Find(om, op[o].arg)
           IN  IF n = 0 THEN {} ELSE IF om[n].del THEN {} ELSE {om[n]}

GetHead(o) ==
  /\ At(o, "head")
  /\ \/ Seen(o) = {} /\ Finish(o, "NoSuchKey")
     \/ \E v \in Seen(o) : Becomes(o, [op[o] EXCEPT !.etag = v.etag, !.pc = "look"]) /\ UNCHANGED lock
  /\ UNCHANGED <<disk, env>>

\* Mutant: getObject is called without the version id.
GetLookCurrent(o) ==
  /\ At(o, "look")
  /\ LET om == meta[op[o].key]
     IN  IF om = <<>> \/ (om # <<>> /\ Head(om).del)
         THEN Finish(o, "NoSuchKey")
         ELSE /\ Becomes(o, [op[o] EXCEPT !.todo = <<Head(om)>>, !.pc = IF Head(om).enc THEN "unseal" ELSE "stat"])
              /\ UNCHANGED lock
  /\ UNCHANGED <<disk, env>>

\* l.238-239: getObject looks the version up again, which may be another one.
GetLook(o) ==
  /\ At(o, "look")
  /\ \/ Seen(o) = {} /\ Finish(o, "NoSuchKey")
     \/ \E v \in Seen(o) : /\ Becomes(o, [op[o] EXCEPT !.todo = <<v>>, !.pc = IF v.enc THEN "unseal" ELSE "stat"])
                            /\ UNCHANGED lock
  /\ UNCHANGED <<disk, env>>

Source(o) == <<op[o].key, Head(op[o].todo).id>>

\* The bytes are there: answer them, or copy them under the lock of a key.
Served(o, bytes) ==
  IF op[o].kind = "get"
  THEN op' = [op EXCEPT ![o] = [Ending(o, "ok") EXCEPT !.body = bytes]] /\ UNCHANGED lock
  ELSE \E k \in Keys, e \in Encs :
         /\ Becomes(o, [op[o] EXCEPT !.key = k, !.enc = e, !.body = bytes, !.todo = <<>>, !.pc = "queued"])
         /\ Lock!Join(o, k)

\* l.242-253: an encrypted object is read and decrypted whole, which fails
\* unless the cipher text is the one the metadata speaks of.
Unseal(o) ==
  /\ At(o, "unseal")
  /\ LET f == data[Source(o)]
     IN  IF f # None /\ f.by = Head(op[o].todo).by /\ f.bytes # Torn
         THEN Served(o, f.bytes)
         ELSE Finish(o, "failed")
  /\ UNCHANGED <<disk, env>>

\* l.255-266: no file, no object.  Of an empty file the last byte would be number
\* -1, which createReadStream refuses.
Stat(o) ==
  /\ At(o, "stat")
  /\ IF data[Source(o)] = None THEN Finish(o, "NoSuchKey")
     ELSE IF data[Source(o)].bytes = NoBytes THEN Finish(o, "failed")
     ELSE Becomes(o, [op[o] EXCEPT !.pc = "open"]) /\ UNCHANGED lock
  /\ UNCHANGED <<disk, env>>

\* Every call in flight is lost with the process; the disk stays as it is.
Restart == /\ op' = [o \in Ops |-> IF InFlight(o) THEN [Ending(o, None) EXCEPT !.pc = "lost"]
                                   ELSE op[o]]
           /\ line' = [k \in Keys |-> <<>>]
           /\ inside' = {}

\* l.266: createReadStream opens the file later on; an open file is read to its end
\* whatever happens to its name (bodies that are not empty are taken to be as long
\* as each other).  Nobody listens to the stream's "error", so if the file has gone
\* by then the process ends.
Open(o) ==
  /\ At(o, "open")
  /\ IF data[Source(o)] = None THEN Restart
     ELSE Served(o, data[Source(o)].bytes)
  /\ UNCHANGED <<disk, env>>

-----------------------------------------------------------------------------
(* completeMultipartUpload (l.490-559), from the moment it has read the    *)
(* upload: the same steps as a put, without the lock of the key.           *)

\* l.496-503: read versioning, draw an id, open the ".tmp".
CompleteCall(o) ==
  \E k \in Keys, e \in Encs, b \in {o} \cup Empties :
    /\ Made(o, [Idle EXCEPT !.kind = "complete", !.key = k, !.enc = e, !.body = b,
                            !.mode = versioning, !.pc = "stream"])
    /\ tmp' = [tmp EXCEPT ![<<k, IF versioning = "Enabled" THEN o ELSE NullId>>]
                            = [bytes |-> Torn, by |-> None]]
    /\ UNCHANGED <<meta, metaTmp, data, lock, env>>

-----------------------------------------------------------------------------
\* Mutant: the status is not validated.
SetVersioningAny ==
  /\ Room
  /\ versioning' = "enabled"
  /\ UNCHANGED <<disk, lock, op, aged, crashes>>

\* setVersioning (l.166-173), by one administrator at a time.
SetVersioning ==
  /\ Room
  /\ \E m \in Modes \ {versioning} : versioning' = m
  /\ UNCHANGED <<disk, lock, op, aged, crashes>>

\* A version that a call wrote grows old enough for the lifecycle rule.
Age(o) ==
  /\ "expire" \in Kinds /\ Room /\ Writes(o) /\ Ended(o) /\ o \notin aged
  /\ aged' = aged \cup {o}
  /\ UNCHANGED <<versioning, disk, lock, op, crashes>>

\* The process is killed and started again.
Crash ==
  /\ crashes < MaxCrashes /\ \E o \in Ops : InFlight(o)
  /\ crashes' = crashes + 1
  /\ Restart
  /\ UNCHANGED <<versioning, disk, aged>>

\* A client makes a call.
Call(o) == \/ PutCall(o) \/ CopyCall(o) \/ CompleteCall(o) \/ DeleteCall(o)
           \/ TagCall(o) \/ GetCall(o) \/ ExpireCall(o)

\* A call in flight goes on.
Step(o) == \/ Acquire(o) \/ PutOpen(o) \/ StreamEnd(o) \/ StreamFail(o) \/ Hash(o)
           \/ ReadMeta(o) \/ Swap(o) \/ SealOpen(o) \/ SealEnd(o) \/ CleanTmp(o)
           \/ DropData(o) \/ WriteMeta(o) \/ RenameMeta(o) \/ RemoveMeta(o)
           \/ DeleteAsk(o) \/ DeleteRead(o) \/ TagRead(o) \/ ExpireScan(o)
           \/ GetHead(o) \/ GetLook(o) \/ Unseal(o) \/ Stat(o) \/ Open(o)

Next == \/ \E o \in Ops : Call(o) \/ Step(o) \/ HangUp(o) \/ Age(o)
        \/ SetVersioning
        \/ Crash

Spec == Init /\ [][Next]_vars

\* Node's event loop: every file operation completes, and a client that has not
\* hung up either sends its body or breaks off.
LiveSpec == Spec /\ \A o \in Ops : WF_vars(Step(o))

-----------------------------------------------------------------------------
Pcs == {"idle", "queued", "held", "stream", "hash", "read", "drop", "swap", "seal", "clean", "trim",
        "wmeta", "rename", "rmmeta", "ask", "scan", "head", "look", "unseal", "stat", "open",
        "done", "lost"}

CallState == [kind : Kinds \cup {"none"}, pc : Pcs, key : Keys \cup {None}, arg : Ids \cup {None},
              enc : BOOLEAN, mode : Modes \cup {None}, body : Bytes \cup {None},
              etag : Bytes \cup {None}, om : Seq(Version), todo : Seq(Version), gone : BOOLEAN,
              res : {"ok", "NoSuchKey", "failed", None}]

TypeOK ==
  /\ versioning \in Modes
  /\ meta \in [Keys -> Seq(Version)] /\ metaTmp \in [Keys -> Seq(Version) \cup {None}]
  /\ data \in [Keys \X Ids -> DataFile \cup {None}] /\ tmp \in [Keys \X Ids -> DataFile \cup {None}]
  /\ line \in [Keys -> Seq(Ops)] /\ inside \subseteq Ops
  /\ op \in [Ops -> CallState]
  /\ aged \subseteq Ops /\ crashes \in 0 .. MaxCrashes

\* The data of version v of key k is in place: the bytes whose MD5 is its ETag,
\* enciphered under the nonce in its metadata if it is encrypted.
Intact(k, v) == data[<<k, v.id>>] = [bytes |-> v.etag, by |-> IF v.enc THEN v.by ELSE None]

\* Calls that are changing key k.
Busy(k) == {o \in Ops : op[o].key = k /\ InFlight(o) /\ (o \in inside \/ op[o].kind = "complete")}

\* As long as the process lives, whenever nobody is changing a key, each version
\* its metadata lists can be read back and matches its ETag (putObject's order
\* of streaming, removing, renaming and writing metadata).
SettledIntact ==
  (\A o \in Ops : ~ At(o, "lost")) =>
    \A k \in Keys : Busy(k) = {} =>
      \A n \in 1 .. Len(meta[k]) : meta[k][n].del \/ Intact(k, meta[k][n])

\* Nothing is left behind: while no call is in flight, the files in the bucket
\* are those of the listed versions, so that a bucket whose objects are all
\* deleted can be deleted (the process lives); only a ".tmp" of a put that failed remains.
NoLeftovers ==
  (\A o \in Ops : ~ InFlight(o) /\ ~ At(o, "lost")) =>
    \A k \in Keys :
      /\ metaTmp[k] = None
      /\ \A i \in Ids :
           /\ data[<<k, i>>] # None => \E n \in 1 .. Len(meta[k]) : meta[k][n].id = i /\ ~ meta[k][n].del
           /\ tmp[<<k, i>>] # None => \E o \in Ops : Ended(o) /\ op[o].res # "ok" /\ File(o, op[o].mode) = <<k, i>>

\* The calls that may have put a version, delete markers included, on top of k's.
Pushers(k) == {p \in Ops : op[p].key = k /\ (Writes(p) \/ (op[p].kind = "delete" /\ op[p].arg = None))}

\* A version that a client was told was stored stays listed and intact, through
\* other calls and crashes, until a client deletes that version or enough puts
\* push it out of the list (putObject with versioning).
Durable ==
  \A o \in Ops :
    Writes(o) /\ op[o].res = "ok" /\ op[o].mode = "Enabled"
      => LET k == op[o].key
         IN  \/ \E n \in 1 .. Len(meta[k]) : meta[k][n].id = o /\ Intact(k, meta[k][n])
             \/ \E p \in Ops : op[p].kind \in {"delete", "expire"} /\ op[p].arg = o
             \/ Cardinality(Pushers(k) \ {o}) >= MaxVersions

\* A GET of a version by its id answers that version's bytes under that
\* version's ETag, or an error, whatever else happens to the key meanwhile.
VersionReadsExact ==
  \A o \in Ops : op[o].kind = "get" /\ op[o].res = "ok" /\ op[o].arg \in Ops
                   => op[o].body = op[o].etag

\* Every GET answers bytes whose MD5 is the ETag it answers.
ReadsMatchETag ==
  \A o \in Ops : op[o].kind = "get" /\ op[o].res = "ok" => op[o].body = op[o].etag

\* Calls made one after the other read what is there: a GET that finds the version
\* in the metadata answers bytes whose MD5 is the version's ETag, and fails on
\* nothing but an empty file (getObject after headObject).
ReadsServe ==
  \A o \in Ops : op[o].kind = "get" => CASE op[o].res = "ok" -> op[o].body = op[o].etag
                                        [] op[o].res = "failed" -> op[o].etag = NoBytes
                                        [] op[o].res = "NoSuchKey" -> op[o].etag = None
                                        [] OTHER -> TRUE

\* Whatever put was cut short by a crash, the current version of a key is there:
\* the one before the put or the one it wrote.
CurrentIntact ==
  \A k \in Keys : Busy(k) = {} /\ meta[k] # <<>>
    => Head(meta[k]).del \/ Intact(k, Head(meta[k]))

\* The lifecycle removes only what is old enough: the current version it found
\* under the lock, or the one it names, has expired.
ExpiresOnlyAged ==
  \A o \in Ops : op[o].kind = "expire" /\ At(o, "drop")
    => LET om == meta[op[o].key]
       IN  om[Find(om, op[o].arg)].by \in aged

\* Every call is answered, or lost in a crash, unless a client hangs up while
\* its put waits: then that put, and all that wait behind it, never are.
EveryCallEnds ==
  [](\A o \in Ops : ~ op[o].gone) => \A o \in Ops : InFlight(o) ~> Ended(o)

-----------------------------------------------------------------------------
\* What a client can tell of a version; the rest is how it is stored.
View(v) == [id |-> v.id, etag |-> v.etag, del |-> v.del, tag |-> v.tag]

Store == INSTANCE ObjectStore
           WITH versions <- [k \in Keys |-> [n \in 1 .. Len(meta[k]) |-> View(meta[k][n])]],
                Versions <- [id : Ids, etag : Bytes \cup {None}, del : BOOLEAN, tag : {None}],
                Tags <- Ops

\* The metadata file changes only as ObjectStore allows: no call overwrites the
\* effect of another.
ImplementsObjectStore == Store!Spec
=============================================================================
