---------------------------- MODULE DiskMultipart ----------------------------
(***************************************************************************)
(* The multipart uploads of one bucket of the disk backend                 *)
(* (src/src/storage/disk.js), at the granularity of its awaits on the file *)
(* system.                                                                 *)
(*                                                                         *)
(* An upload is a metadata file, which lists the MD5 of each part, and one *)
(* file per part.  Parts, completion and abort hold the lock of the        *)
(* upload, whose contract is the module FifoLock; creation takes none, for *)
(* nobody knows the random id yet, and the lifecycle aborts one upload     *)
(* after the other.                                                        *)
(*                                                                         *)
(* Calls are numbered in the order in which they are made.  The number of  *)
(* a create call is also the id of its upload, and that of a part call the *)
(* bytes it sends and their MD5.  What completion does to the object is    *)
(* one step here, and the subject of the module DiskObjects.               *)
(***************************************************************************)
EXTENDS Naturals, Sequences, FiniteSets

CONSTANTS
  MaxCalls,     \* bound: how many calls are made
  Parts,        \* part numbers
  None, Torn,   \* no file; a file that is being written
  MaxUploads,   \* bound: how many uploads are created
  MaxListed,    \* bound: how many parts a completion lists
  MaxInFlight,  \* bound: how many calls overlap
  MaxCrashes,   \* bound: how often the process is killed
  MaxGone       \* bound: how many clients hang up while their part is waiting

Ops == 1 .. MaxCalls

ASSUME PartsAssumption == Parts \subseteq 1 .. 10000
ASSUME NamesAssumption == /\ None \notin Ops \cup [Parts -> Ops \cup {None}]
                          /\ Torn \notin Ops \cup {None}
                          /\ None \notin {"ok", "failed", "NoSuchUpload", "InvalidPart", "InvalidPartOrder"}
ASSUME BoundsAssumption == {MaxCalls, MaxUploads, MaxListed, MaxInFlight, MaxCrashes, MaxGone} \subseteq Nat

VARIABLES
  um,           \* um[u]: the MD5 of each part in u's metadata file, or None
  umTmp,        \* umTmp[u]: the same of that file's ".tmp"
  part,         \* part[<<u, n>>]: the file of part n, or None
  partTmp,      \* partTmp[<<u, n>>]: its ".tmp"
  line, inside, \* the locks of the uploads, see FifoLock
  op,           \* op[o]: the local state of call o
  published,    \* published[u]: the calls that made u an object
  held,         \* held[<<u, n>>]: what part n may be: the body last acknowledged,
                \*   and those a crash has cut short since
  aged,         \* the uploads old enough for the lifecycle to abort
  crashes

files == <<um, umTmp, part, partTmp>>
lock  == <<line, inside>>
env   == <<published, held, aged, crashes>>
vars  == <<um, umTmp, part, partTmp, line, inside, op, published, held, aged, crashes>>

Lock == INSTANCE FifoLock WITH Calls <- Ops, Keys <- Ops

Files == Ops \X Parts

\* The local state of a call that has not been made.
Idle == [kind |-> "none", pc |-> "idle",
         up |-> None,      \* the upload
         n |-> None,       \* the part number
         list |-> <<>>,    \* the parts a completion lists: numbers and MD5s
         om |-> None,      \* its copy of the upload's metadata
         body |-> <<>>,    \* the parts a completion has put together
         old |-> {},       \* the uploads that had aged when the sweep was called
         todo |-> {},      \* those it has still to read, or to abort
         found |-> {},     \* those it has read
         gone |-> FALSE,   \* the client hung up before its body was read
         res |-> None]     \* the answer: "ok", an error code or "failed"

Init == /\ um = [u \in Ops |-> None]
        /\ umTmp = [u \in Ops |-> None]
        /\ part = [f \in Files |-> None]
        /\ partTmp = [f \in Files |-> None]
        /\ Lock!Init
        /\ op = [o \in Ops |-> Idle]
        /\ published = [u \in Ops |-> {}]
        /\ held = [f \in Files |-> {}]
        /\ aged = {}
        /\ crashes = 0

-----------------------------------------------------------------------------
(* The state of a call.                                                    *)

At(o, pc)   == op[o].pc = pc
Ended(o)    == op[o].pc \in {"done", "lost"}
InFlight(o) == op[o].pc # "idle" /\ ~ Ended(o)
File(o)     == <<op[o].up, op[o].n>>

Goes(o, pc) == op' = [op EXCEPT ![o].pc = pc]

Ending(o, res) == [Idle EXCEPT !.kind = op[o].kind, !.up = op[o].up, !.n = op[o].n,
                               !.old = op[o].old, !.pc = "done", !.res = res]

\* Mutant: the lock is not given up when the call fails (no finally).
FinishKeepsLock(o, res) ==
  /\ op' = [op EXCEPT ![o] = Ending(o, res)]
  /\ IF o \in inside /\ res = "ok" THEN Lock!Leave(o, op[o].up) ELSE UNCHANGED lock

\* The call answers, and gives up the lock if it holds it.
Finish(o, res) ==
  /\ op' = [op EXCEPT ![o] = Ending(o, res)]
  /\ IF o \in inside THEN Lock!Leave(o, op[o].up) ELSE UNCHANGED lock

\* o is the next call to be made.
Made(o) ==
  /\ At(o, "idle") /\ \A p \in 1 .. o - 1 : ~ At(p, "idle")
  /\ Cardinality({p \in Ops : InFlight(p)}) < MaxInFlight

\* The ids that clients may know, from the create call or from a listing.
Known == {u \in Ops : um[u] # None \/ (op[u].kind = "create" /\ Ended(u))}

\* ... and waits for the lock of an upload.
Queued(o, kind, u, n, list) ==
  /\ Made(o)
  /\ op' = [op EXCEPT ![o] = [Idle EXCEPT !.kind = kind, !.up = u, !.n = n, !.list = list,
                                         !.pc = "queued"]]
  /\ Lock!Join(o, u)
  /\ UNCHANGED <<files, env>>

\* Mutant: the mutation does not wait for its turn.
AcquireUnlocked(o) ==
  /\ At(o, "queued")
  /\ inside' = inside \cup {o} /\ UNCHANGED line
  /\ Goes(o, "held")
  /\ UNCHANGED <<files, env>>

Acquire(o) ==
  /\ At(o, "queued")
  /\ Lock!Go(o, op[o].up)
  /\ Goes(o, "held")
  /\ UNCHANGED <<files, env>>

\* _readUploadMeta: with the lock, the upload may be there no more.
NotThere(o) ==
  /\ op[o].kind # "create" /\ At(o, "held") /\ um[op[o].up] = None
  /\ Finish(o, "NoSuchUpload")
  /\ UNCHANGED <<files, env>>

There(o, kind) == op[o].kind = kind /\ At(o, "held") /\ um[op[o].up] # None

-----------------------------------------------------------------------------
(* createMultipartUpload and uploadPart.                                   *)

\* l.454-465: the upload has no parts.
CreateCall(o) ==
  /\ Cardinality({p \in Ops : op[p].kind = "create"}) < MaxUploads
  /\ Made(o)
  /\ op' = [op EXCEPT ![o] = [Idle EXCEPT !.kind = "create", !.up = o, !.pc = "wum",
                                         !.om = [n \in Parts |-> None]]]
  /\ UNCHANGED <<files, lock, env>>

PartCall(o) == \E u \in Known, n \in Parts : Queued(o, "part", u, n, <<>>)

\* Mutant: the body is streamed to the part's final name.
PartOpenInPlace(o) ==
  /\ There(o, "part")
  /\ part' = [part EXCEPT ![File(o)] = Torn]
  /\ partTmp' = [partTmp EXCEPT ![File(o)] = Torn]
  /\ op' = [op EXCEPT ![o].om = um[op[o].up], ![o].pc = "stream"]
  /\ UNCHANGED <<um, umTmp, lock, env>>

\* l.473-477: read the metadata, open the ".tmp".
PartOpen(o) ==
  /\ There(o, "part")
  /\ partTmp' = [partTmp EXCEPT ![File(o)] = Torn]
  /\ op' = [op EXCEPT ![o].om = um[op[o].up], ![o].pc = "stream"]
  /\ UNCHANGED <<um, umTmp, part, lock, env>>

\* The client hangs up before writeStreamToFile listens to its request.
HangUp(o) ==
  /\ op[o].kind = "part" /\ op[o].pc \in {"queued", "held"} /\ ~ op[o].gone
  /\ Cardinality({p \in Ops : op[p].gone}) < MaxGone
  /\ op' = [op EXCEPT ![o].gone = TRUE]
  /\ UNCHANGED <<files, lock, env>>

\* l.477-478: the whole body is in the ".tmp", and its MD5 known.
StreamEnd(o) ==
  /\ op[o].kind = "part" /\ At(o, "stream") /\ ~ op[o].gone
  /\ partTmp' = [partTmp EXCEPT ![File(o)] = o]
  /\ Goes(o, "rename")
  /\ UNCHANGED <<um, umTmp, part, lock, env>>

\* The request breaks off, and the ".tmp" stays as it is: the last bytes that its
\* writer, which nobody destroys, was given are taken to have reached it before
\* another call opens it.
StreamFail(o) ==
  /\ op[o].kind = "part" /\ At(o, "stream") /\ ~ op[o].gone
  /\ Finish(o, "failed")
  /\ UNCHANGED <<files, env>>

\* l.479-484: the ".tmp" becomes the part, and the part is listed.
RenamePart(o) ==
  /\ op[o].kind = "part" /\ At(o, "rename")
  /\ part' = [part EXCEPT ![File(o)] = partTmp[File(o)]]
  /\ partTmp' = [partTmp EXCEPT ![File(o)] = None]
  /\ op' = [op EXCEPT ![o].om = [op[o].om EXCEPT ![op[o].n] = o], ![o].pc = "wum"]
  /\ UNCHANGED <<um, umTmp, lock, env>>

\* writeJsonAtomic (l.823-829), for both: write the ".tmp", ...
WriteUm(o) ==
  /\ At(o, "wum")
  /\ umTmp' = [umTmp EXCEPT ![op[o].up] = op[o].om]
  /\ Goes(o, "commit")
  /\ UNCHANGED <<um, part, partTmp, lock, env>>

\* ... rename it, and answer.
CommitUm(o) ==
  /\ At(o, "commit")
  /\ um' = [um EXCEPT ![op[o].up] = umTmp[op[o].up]]
  /\ umTmp' = [umTmp EXCEPT ![op[o].up] = None]
  /\ held' = IF op[o].kind = "part" THEN [held EXCEPT ![File(o)] = {o}] ELSE held
  /\ Finish(o, "ok")
  /\ UNCHANGED <<part, partTmp, published, aged, crashes>>

-----------------------------------------------------------------------------
(* completeMultipartUpload and abortMultipartUpload.                       *)

\* What a client may list: a part by its number alone, or with an MD5 it had.
Listable(u) == [n : Parts, tag : {None}] \cup
               {[n |-> op[p].n, tag |-> p] : p \in {q \in Ops : op[q].kind = "part" /\ op[q].up = u}}

\* Any list of parts, in any order.
CompleteCall(o) ==
  /\ At(o, "idle")
  /\ \E u \in Known, len \in 0 .. MaxListed : \E list \in [1 .. len -> Listable(u)] :
       Queued(o, "complete", u, None, list)

\* Mutant: the MD5 is not compared.
AcceptsAny(o, i) == um[op[o].up][op[o].list[i].n] # None

\* l.508-510: the part is listed, and under the MD5 that the client gives, if any.
Accepts(o, i) == LET p == op[o].list[i]
                     rec == um[op[o].up][p.n]
                 IN  rec # None /\ p.tag \in {None, rec}

InOrder(list) == \A i \in 2 .. Len(list) : list[i - 1].n <= list[i].n

\* l.492-518: check the order, then each part, and put them together; a part
\* that is listed may have no file after a crash.
Assemble(o) ==
  /\ There(o, "complete")
  /\ LET list == op[o].list
         file(i) == part[<<op[o].up, list[i].n>>]
     IN  \/ ~ InOrder(list) /\ Finish(o, "InvalidPartOrder")
         \/ /\ InOrder(list)
            /\ \E i \in DOMAIN list :
                 /\ \A j \in 1 .. i - 1 : Accepts(o, j) /\ file(j) # None
                 /\ \/ ~ Accepts(o, i) /\ Finish(o, "InvalidPart")
                    \/ Accepts(o, i) /\ file(i) = None /\ Finish(o, "failed")
         \/ /\ InOrder(list)
            /\ \A i \in DOMAIN list : Accepts(o, i) /\ file(i) # None
            /\ op' = [op EXCEPT ![o].body = [i \in DOMAIN list |-> file(i)], ![o].pc = "publish"]
            /\ UNCHANGED lock
  /\ UNCHANGED <<files, env>>

\* l.520-553: the object is written, see DiskObjects.  Beside other writers of the
\* key, with which it shares the ".tmp"s, a rename may fail: the upload is kept, and
\* the object may be there all the same, renamed by the other writer.
Publish(o) ==
  /\ At(o, "publish")
  /\ LET made == [published EXCEPT ![op[o].up] = @ \cup {o}]
     IN  \/ published' = made /\ Goes(o, "rmparts") /\ UNCHANGED lock
         \/ published' \in {published, made} /\ Finish(o, "failed")
  /\ UNCHANGED <<files, held, aged, crashes>>

AbortCall(o) == \E u \in Known : Queued(o, "abort", u, None, <<>>)

\* l.563-564, for the lifecycle too.
AbortStart(o) ==
  /\ There(o, "abort") \/ There(o, "sweep")
  /\ Goes(o, "rmparts")
  /\ UNCHANGED <<files, lock, env>>

\* l.555, 565 (fs.rm, recursive): the files of the parts go one by one.
RemovePart(o) ==
  /\ At(o, "rmparts")
  /\ \E n \in Parts :
       LET f == <<op[o].up, n>>
       IN  \/ part[f] # None /\ part' = [part EXCEPT ![f] = None] /\ UNCHANGED partTmp
           \/ partTmp[f] # None /\ partTmp' = [partTmp EXCEPT ![f] = None] /\ UNCHANGED part
  /\ UNCHANGED <<um, umTmp, op, lock, env>>

\* The lifecycle goes on, the other calls answer.
Removed(o) ==
  IF op[o].kind = "sweep"
  THEN Lock!Leave(o, op[o].up) /\ op' = [op EXCEPT ![o].up = None, ![o].pc = "next"]
  ELSE Finish(o, "ok")

\* Mutant: the parts go and the metadata stays.
RemoveUmNot(o) ==
  /\ At(o, "rmparts")
  /\ \A n \in Parts : part[<<op[o].up, n>>] = None /\ partTmp[<<op[o].up, n>>] = None
  /\ Removed(o)
  /\ UNCHANGED <<files, env>>

\* l.556, 566: the metadata goes last.
RemoveUm(o) ==
  /\ At(o, "rmparts")
  /\ \A n \in Parts : part[<<op[o].up, n>>] = None /\ partTmp[<<op[o].up, n>>] = None
  /\ um' = [um EXCEPT ![op[o].up] = None]
  /\ Removed(o)
  /\ UNCHANGED <<umTmp, part, partTmp, env>>

-----------------------------------------------------------------------------
(* runLifecycle, the uploads (l.721-732).                                  *)

\* l.700, 723: what is old is told by the time of the call.
SweepCall(o) ==
  /\ Made(o)
  /\ op' = [op EXCEPT ![o] = [Idle EXCEPT !.kind = "sweep", !.old = aged, !.pc = "list"]]
  /\ UNCHANGED <<files, lock, env>>

\* Of a set of uploads to read nothing may be left.
Reading(o, todo, found) ==
  op' = IF todo = {} THEN [op EXCEPT ![o].todo = found, ![o].found = {}, ![o].pc = "next"]
        ELSE [op EXCEPT ![o].todo = todo, ![o].found = found, ![o].pc = "read"]

\* listMultipartUploads: the names in the directory, ...
SweepList(o) ==
  /\ At(o, "list")
  /\ Reading(o, {u \in op[o].old : um[u] # None}, {})
  /\ UNCHANGED <<files, lock, env>>

\* ... and their files one by one, of which one that has gone is passed over.
SweepRead(o) ==
  /\ At(o, "read")
  /\ \E u \in op[o].todo :
       Reading(o, op[o].todo \ {u}, op[o].found \cup (IF um[u] = None THEN {} ELSE {u}))
  /\ UNCHANGED <<files, lock, env>>

\* l.728: abort the next.
SweepNext(o) ==
  /\ At(o, "next")
  /\ \/ op[o].todo = {} /\ Finish(o, "ok")
     \/ \E u \in op[o].todo :
          /\ Lock!Join(o, u)
          /\ op' = [op EXCEPT ![o].up = u, ![o].todo = @ \ {u}, ![o].pc = "queued"]
  /\ UNCHANGED <<files, env>>

-----------------------------------------------------------------------------
\* An upload grows old enough for the lifecycle rule.
Age(u) ==
  /\ um[u] # None /\ u \notin aged
  /\ aged' = aged \cup {u}
  /\ UNCHANGED <<files, lock, op, published, held, crashes>>

\* A part call that a crash cuts short here may have replaced the part's file.
Replacing(o) == op[o].kind = "part" /\ op[o].pc \in {"rename", "wum", "commit"}

\* The process is killed and started again; the disk stays as it is.
Crash ==
  /\ crashes < MaxCrashes /\ \E o \in Ops : InFlight(o)
  /\ crashes' = crashes + 1
  /\ op' = [o \in Ops |-> IF InFlight(o) THEN [Ending(o, None) EXCEPT !.pc = "lost"] ELSE op[o]]
  /\ line' = [u \in Ops |-> <<>>]
  /\ inside' = {}
  /\ held' = [f \in Files |-> held[f] \cup {o \in Ops : Replacing(o) /\ File(o) = f}]
  /\ UNCHANGED <<files, published, aged>>

\* A client makes a call.
Call(o) == CreateCall(o) \/ PartCall(o) \/ CompleteCall(o) \/ AbortCall(o) \/ SweepCall(o)

\* A call in flight goes on.
Step(o) == \/ Acquire(o) \/ NotThere(o)
           \/ PartOpen(o) \/ StreamEnd(o) \/ StreamFail(o) \/ RenamePart(o)
           \/ WriteUm(o) \/ CommitUm(o)
           \/ Assemble(o) \/ Publish(o) \/ AbortStart(o) \/ RemovePart(o) \/ RemoveUm(o)
           \/ SweepList(o) \/ SweepRead(o) \/ SweepNext(o)

Next == \/ \E o \in Ops : Call(o) \/ Step(o) \/ HangUp(o) \/ Age(o)
        \/ Crash

Spec == Init /\ [][Next]_vars

\* Node's event loop: every file operation completes, and a client that has not
\* hung up either sends its body or breaks off.
LiveSpec == Spec /\ \A o \in Ops : WF_vars(Step(o))

-----------------------------------------------------------------------------
Metadata == [Parts -> Ops \cup {None}]

Kinds   == {"none", "create", "part", "complete", "abort", "sweep"}
Pcs     == {"idle", "queued", "held", "stream", "rename", "wum", "commit", "publish", "rmparts",
            "list", "read", "next", "done", "lost"}
Answers == {"ok", "failed", "NoSuchUpload", "InvalidPart", "InvalidPartOrder"}

CallType == [kind : Kinds, pc : Pcs, up : Ops \cup {None}, n : Parts \cup {None},
             list : Seq([n : Parts, tag : Ops \cup {None}]),
             om : Metadata \cup {None}, body : Seq(Ops),
             old : SUBSET Ops, todo : SUBSET Ops, found : SUBSET Ops,
             gone : BOOLEAN, res : Answers \cup {None}]

TypeOK ==
  /\ um \in [Ops -> Metadata \cup {None}] /\ umTmp \in [Ops -> Metadata \cup {None}]
  /\ part \in [Files -> Ops \cup {None}] /\ partTmp \in [Files -> Ops \cup {None, Torn}]
  /\ line \in [Ops -> Seq(Ops)] /\ inside \subseteq Ops
  /\ op \in [Ops -> CallType]
  /\ published \in [Ops -> SUBSET Ops] /\ held \in [Files -> SUBSET Ops]
  /\ aged \subseteq Ops /\ crashes \in Nat

\* What completion puts together is, part by part, the body that was acknowledged
\* last under that number (or one a crash cut short after it), and has the MD5 the
\* client listed, whatever else was uploading, completing or aborting meanwhile.
BytesAsListed ==
  \A o \in Ops : At(o, "publish") =>
    \A i \in DOMAIN op[o].list :
      LET p == op[o].list[i]
      IN  op[o].body[i] \in held[<<op[o].up, p.n>>] /\ p.tag \in held[<<op[o].up, p.n>>] \cup {None}

\* Somebody ends the upload u, or was ending it when the process was killed.
UploadEnding(u) == \E o \in Ops : /\ op[o].kind \in {"complete", "abort", "sweep"}
                             /\ \/ op[o].up = u /\ (At(o, "rmparts") \/ At(o, "lost") \/ op[o].res = "ok")
                                \/ u \in op[o].old

\* The part calls that are replacing part n of u.
Replacers(f) == {o \in Ops : Replacing(o) /\ File(o) = f}

\* A part whose upload was acknowledged stays listed and on disk, across crashes
\* and failed calls, until the part is sent again or the upload ends.
AckedPartStays ==
  \A f \in Files :
    held[f] # {} /\ (\E o \in held[f] : op[o].res = "ok") /\ ~ UploadEnding(f[1])
      => um[f[1]] # None /\ LET may == held[f] \cup Replacers(f)
                            IN  um[f[1]][f[2]] \in may /\ part[f] \in may

\* The uploads that the acknowledged call o has ended, or has found ended.
EndedBy(o) ==
  {u \in Ops : \/ op[o].kind \in {"complete", "abort"} /\ op[o].res = "ok" /\ u = op[o].up
               \/ op[o].kind = "sweep" /\ op[o].res = "ok" /\ u \in op[o].old
               \/ op[o].res = "NoSuchUpload" /\ u = op[o].up}

\* A create or part call of u was lost in a crash.
CutShort(u) == \E p \in Ops : op[p].kind \in {"create", "part"} /\ op[p].up = u /\ At(p, "lost")

\* A completion that was lost or failed: its object may be there, its upload too.
Uncertain(o) == At(o, "lost") \/ op[o].res = "failed"

\* An upload that a client was told is completed, aborted, swept or not there is
\* gone for good: no file of it is left, but for the ".tmp" of its metadata if a
\* create or part call of it was cut short by a crash (nothing removes that one).
\* It has become one object at most, not counting completions that were lost or
\* failed.
GoneForGood ==
  \A o \in Ops :
    /\ \A u \in EndedBy(o) : /\ um[u] = None
                             /\ umTmp[u] = None \/ CutShort(u)
                             /\ \A n \in Parts : part[<<u, n>>] = None /\ partTmp[<<u, n>>] = None
    /\ Cardinality(published[o]) <= 1 + Cardinality({p \in published[o] : Uncertain(p)})

\* o waits for an upload on which a client hung up while its part waited.
Stuck(o) == \E p \in Ops : op[p].gone /\ op[p].up = op[o].up

\* Every call is answered, or lost in a crash, unless it is stuck: as only MaxCalls
\* calls are made, all have ended at last.
EveryCallEnds == <>[](\A o \in Ops : InFlight(o) => Stuck(o))
=============================================================================
