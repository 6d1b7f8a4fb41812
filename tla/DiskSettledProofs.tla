--------------------------- MODULE DiskSettledProofs ---------------------------
(***************************************************************************)
(* What is on disk when nobody is changing a key: the files of its listed  *)
(* versions, all of them and nothing else - as long as the process lives.  *)
(***************************************************************************)
EXTENDS DiskObjectsProofs

Alive == \A o \in Ops : ~ At(o, "lost")

IdsOf(s) == {s[n].id : n \in 1 .. Len(s)}

\* Among the files d, the data of version v of key k is as it should be.
Right(d, k, v) == d[<<k, v.id>>] = [bytes |-> v.etag, by |-> IF v.enc THEN v.by ELSE None]

\* The files of key k are those of the versions in s, and maybe some with an id in extra.
InPlace(d, k, s, extra) ==
  /\ \A n \in 1 .. Len(s) : s[n].del \/ Right(d, k, s[n])
  /\ \A i \in Ids : d[<<k, i>>] # None =>
       i \in extra \/ \E n \in 1 .. Len(s) : s[n].id = i /\ ~ s[n].del

\* The versions whose data is in place while call o changes its key.
Kept(o) ==
  IF op[o].pc \in {"held", "stream", "hash", "read"} THEN meta[op[o].key]
  ELSE IF op[o].pc \in {"swap", "seal", "clean"} \/ (Writes(o) /\ At(o, "drop"))
  THEN IF op[o].mode = "Enabled" THEN meta[op[o].key] ELSE <<>>
  ELSE op[o].om

\* The ids whose data is being removed or written.
Extra(o) == IF op[o].pc \in {"drop", "trim"} THEN IdsOf(op[o].todo)
            ELSE IF op[o].pc \in {"seal", "clean"} THEN {OwnFile(o)[2]}
            ELSE {}

Midway(o) == InPlace(data, op[o].key, Kept(o), Extra(o))

Free(k) == \A o \in Ops : ~ (Holding(o) /\ op[o].key = k)

FilesOK ==
  /\ \A o \in Ops : Holding(o) => Midway(o)
  /\ \A k \in Keys : Free(k) => InPlace(data, k, meta[k], {})

\* The ".tmp" f is one that call o writes, or has left because it failed.
Owns(o, f) ==
  /\ File(o, op[o].mode) = f
  /\ \/ Writes(o) /\ op[o].pc \in {"stream", "hash", "read", "drop", "swap", "seal", "clean"}
     \/ Ended(o) /\ op[o].res # "ok"

TmpOK ==
  /\ \A k \in Keys : metaTmp[k] # None => \E o \in Ops : At(o, "rename") /\ op[o].key = k
  /\ \A k \in Keys, i \in Ids : tmp[<<k, i>>] # None => \E o \in Ops : Owns(o, <<k, i>>)

AliveInv == Alive => FilesOK /\ TmpOK

-----------------------------------------------------------------------------
(* How a step of a call keeps the files in order.                          *)

\* What the files of its key are like after a step: the call does without the lock,
\* takes it, goes on or gives it up.
FilesMove(o) ==
  \/ ~ Holding(o) /\ ~ Holding(o)'
  \/ ~ Holding(o) /\ At(o, "held")' /\ op[o].key \in Keys /\ op'[o].key = op[o].key /\ Free(op[o].key)
  \/ Holding(o) /\ Holding(o)' /\ Midway(o)'
  \/ Holding(o) /\ ~ Holding(o)' /\ InPlace(data', op[o].key, meta'[op[o].key], {})

\* What the ".tmp"s are like after a step.
TmpMove(o) ==
  /\ \A k \in Keys : metaTmp'[k] # None =>
       \/ metaTmp[k] # None /\ ~ (At(o, "rename") /\ op[o].key = k)
       \/ At(o, "rename")' /\ op'[o].key = k
  /\ \A k \in Keys, i \in Ids : tmp'[<<k, i>>] # None =>
       \/ tmp[<<k, i>>] # None /\ ~ Owns(o, <<k, i>>)
       \/ Owns(o, <<k, i>>)'

\* In place is in place where the files are the same.
LEMMA SamePlace ==
  ASSUME NEW d, NEW e, NEW k \in Keys, NEW s \in Seq(Version), NEW x, InPlace(d, k, s, x),
         \A i \in Ids : e[<<k, i>>] = d[<<k, i>>]
  PROVE  InPlace(e, k, s, x)
<1>1. \A n \in 1 .. Len(s) : s[n] \in Version
  OBVIOUS
<1>2. \A n \in 1 .. Len(s) : s[n].id \in Ids
  BY <1>1 DEF Version
<1>3. \A n \in 1 .. Len(s) : e[<<k, s[n].id>>] = d[<<k, s[n].id>>]
  BY <1>2
<1>4. \A n \in 1 .. Len(s) : Right(d, k, s[n]) => Right(e, k, s[n])
  BY <1>3 DEF Right
<1> QED
  BY <1>4 DEF InPlace

LEMMA FilesStep ==
  ASSUME IInv, FilesOK, NEW o \in Ops, Frame(o), Holding(o) => op'[o].key = op[o].key, FilesMove(o)
  PROVE  FilesOK'
<1>1. /\ meta \in [Keys -> Seq(Version)]
      /\ \A p \in Ops : op[p].om \in Seq(Version)
  BY DEF IInv, TypeOK, CallState
<1>2. \A p \in Ops \ {o} : op'[p] = op[p] /\ (Holding(p)' <=> Holding(p))
  BY DEF Frame, Holding
<1>3. \A p \in Ops : Holding(p) => op[p].key \in Keys
  BY HasKey DEF IInv, Holding, Locked, At
<1>4. ASSUME NEW p \in Ops, Holding(p)'
      PROVE  Midway(p)'
  <2>1. CASE p # o
    <3> DEFINE k == op[p].key
               s == Kept(p)
               x == Extra(p)
    <3>1. Holding(p) /\ k \in Keys /\ op'[p] = op[p]
      BY <1>2, <1>3, <1>4, <2>1
    <3>2. meta'[k] = meta[k] /\ \A i \in Ids : data'[<<k, i>>] = data[<<k, i>>]
      BY <2>1, <3>1, OtherKeys DEF IInv
    <3>3. Kept(p)' = s /\ Extra(p)' = x /\ s \in Seq(Version)
      BY <1>1, <3>1, <3>2 DEF Kept, Extra, IdsOf, OwnFile, File, Writes, At
    <3>4. InPlace(data, k, s, x)
      BY <3>1 DEF FilesOK, Midway
    <3>5. InPlace(data', k, s, x)
      <4> HIDE DEF k, s, x
      <4> QED
        BY <3>1, <3>2, <3>3, <3>4, SamePlace
    <3> QED
      BY <3>1, <3>3, <3>5 DEF Midway
  <2>2. CASE p = o /\ ~ Holding(o)
    <3> DEFINE k == op[o].key
    <3>1. op'[o].pc = "held" /\ k \in Keys /\ op'[o].key = k /\ Free(k)
      BY <1>4, <2>2 DEF FilesMove, At
    <3>2. Kept(o)' = meta'[k] /\ Extra(o)' = {}
      BY <3>1 DEF Kept, Extra
    <3>3. meta'[k] = meta[k] /\ \A i \in Ids : data'[<<k, i>>] = data[<<k, i>>]
      BY <2>2, <3>1 DEF Frame
    <3>4. InPlace(data, k, meta[k], {})
      BY <3>1 DEF FilesOK
    <3>5. InPlace(data', k, meta[k], {})
      BY <1>1, <3>1, <3>3, <3>4, SamePlace
    <3> QED
      BY <2>2, <3>1, <3>2, <3>3, <3>5 DEF Midway
  <2>3. CASE p = o /\ Holding(o)
    BY <1>4, <2>3 DEF FilesMove
  <2> QED
    BY <2>1, <2>2, <2>3
<1>5. ASSUME NEW k \in Keys, Free(k)'
      PROVE  InPlace(data', k, meta'[k], {})
  <2>1. CASE Holding(o) /\ op[o].key = k
    <3>1. ~ Holding(o)'
      BY <1>5, <2>1 DEF Free
    <3> QED
      BY <2>1, <3>1 DEF FilesMove
  <2>2. CASE ~ (Holding(o) /\ op[o].key = k)
    <3>1. Free(k)
      BY <1>2, <1>5, <2>2 DEF Free
    <3>2. meta'[k] = meta[k] /\ \A i \in Ids : data'[<<k, i>>] = data[<<k, i>>]
      BY <2>2 DEF Frame
    <3>3. InPlace(data, k, meta[k], {})
      BY <3>1 DEF FilesOK
    <3> QED
      BY <1>1, <3>2, <3>3, SamePlace
  <2> QED
    BY <2>1, <2>2
<1> QED
  BY <1>4, <1>5 DEF FilesOK

LEMMA TmpStep ==
  ASSUME TmpOK, NEW o \in Ops, \A p \in Ops \ {o} : op'[p] = op[p], TmpMove(o)
  PROVE  TmpOK'
<1>1. ASSUME NEW k \in Keys, metaTmp'[k] # None
      PROVE  \E p \in Ops : At(p, "rename")' /\ op'[p].key = k
  <2>1. CASE metaTmp[k] # None /\ ~ (At(o, "rename") /\ op[o].key = k)
    <3>1. PICK p \in Ops : At(p, "rename") /\ op[p].key = k
      BY <2>1 DEF TmpOK
    <3> QED
      BY <2>1, <3>1 DEF At
  <2> QED
    BY <1>1, <2>1 DEF TmpMove
<1>2. ASSUME NEW k \in Keys, NEW i \in Ids, tmp'[<<k, i>>] # None
      PROVE  \E p \in Ops : Owns(p, <<k, i>>)'
  <2>1. CASE tmp[<<k, i>>] # None /\ ~ Owns(o, <<k, i>>)
    <3>1. PICK p \in Ops : Owns(p, <<k, i>>)
      BY <2>1 DEF TmpOK
    <3>2. op'[p] = op[p]
      BY <2>1, <3>1
    <3> QED
      BY <3>1, <3>2 DEF Owns, File, Writes, Ended
  <2> QED
    BY <1>2, <2>1 DEF TmpMove
<1> QED
  BY <1>1, <1>2 DEF TmpOK

\* A step that leaves the ".tmp"s alone, and the state the call is in with them.
LEMMA TmpStill ==
  ASSUME NEW o \in Ops, UNCHANGED <<metaTmp, tmp>>, ~ At(o, "rename"), ~ Ended(o),
         \/ ~ (Writes(o) /\ op[o].pc \in {"stream", "hash", "read", "drop", "swap", "seal", "clean"})
         \/ /\ op'[o].key = op[o].key /\ op'[o].mode = op[o].mode /\ op'[o].kind = op[o].kind
            /\ \/ op'[o].pc \in {"stream", "hash", "read", "drop", "swap", "seal", "clean"}
               \/ op'[o].pc = "done" /\ op'[o].res # "ok"
  PROVE  TmpMove(o)
<1>1. \A k \in Keys, i \in Ids : Owns(o, <<k, i>>) => Owns(o, <<k, i>>)'
  BY DEF Owns, File, Writes, Ended
<1> QED
  BY <1>1 DEF TmpMove, At

-----------------------------------------------------------------------------
(* The steps that change no data file.                                     *)

\* Without the lock, before and after.
LEMMA OutsideMoves ==
  ASSUME IInv, IInv', "complete" \notin Kinds, NEW o \in Ops, ~ Restart,
         \/ Call(o) \/ DeleteAsk(o) \/ ExpireScan(o) \/ GetHead(o) \/ GetLook(o) \/ Unseal(o) \/ Stat(o)
         \/ Open(o) \/ (HangUp(o) /\ At(o, "queued"))
  PROVE  FilesMove(o) /\ TmpMove(o)
<1>1. ~ CompleteCall(o)
  <2> SUFFICES ASSUME CompleteCall(o) PROVE FALSE
    OBVIOUS
  <2>1. PICK k \in Keys, e \in Encs, b \in {o} \cup Empties :
          Made(o, [Idle EXCEPT !.kind = "complete", !.key = k, !.enc = e, !.body = b,
                               !.mode = versioning, !.pc = "stream"])
    BY DEF CompleteCall
  <2> QED
    BY <2>1 DEF Made, Idle
<1>2. UNCHANGED disk
  BY <1>1 DEF Call, PutCall, CopyCall, DeleteCall, TagCall, GetCall, ExpireCall, DeleteAsk, ExpireScan, GetHead,
              GetLook, Unseal, Stat, Open, HangUp
<1>3. op[o].pc \in {"idle", "queued", "ask", "scan", "head", "look", "unseal", "stat", "open"}
  BY <1>1 DEF Call, PutCall, CopyCall, DeleteCall, TagCall, GetCall, ExpireCall, DeleteAsk, ExpireScan, GetHead,
              GetLook, Unseal, Stat, Open, Made, At
<1>4. ~ Holding(o) /\ ~ Ended(o) /\ ~ At(o, "rename")
  BY <1>3 DEF Holding, Locked, Ended, At
<1>5. TmpMove(o)
  BY <1>2, <1>3, <1>4, TmpStill DEF disk
<1>6. ~ Holding(o)'
  <2>1. o \notin inside
    BY <1>4 DEF IInv, LockOK
  <2>2. \A res : Finish(o, res) => inside' = inside
    BY <2>1 DEF Finish, lock
  <2>3. \A b : Served(o, b) => inside' = inside
    BY DEF Served, Lock!Join, lock
  <2>4. inside' = inside
    BY <1>1, <2>2, <2>3 DEF Call, PutCall, CopyCall, DeleteCall, TagCall, GetCall, ExpireCall, DeleteAsk,
       ExpireScan, GetHead, GetLook, Unseal, Stat, Open, HangUp, Lock!Join, lock
  <2> QED
    BY <2>1, <2>4 DEF IInv, LockOK
<1> QED
  BY <1>4, <1>5, <1>6 DEF FilesMove

\* The call enters: nobody else is changing its key.
LEMMA AcquireMoves ==
  ASSUME IInv, NEW o \in Ops, Acquire(o)
  PROVE  FilesMove(o) /\ TmpMove(o)
<1>1. op[o] \in CallState /\ op[o].key \in Keys
  BY OpType, HasKey DEF IInv, Acquire, At
<1>2. op'[o] = [op[o] EXCEPT !.pc = "held"] /\ UNCHANGED disk
  BY Turn DEF Acquire
<1>3. op'[o].pc = "held" /\ op'[o].key = op[o].key
  BY <1>1, <1>2 DEF CallState
<1>4. ~ Holding(o) /\ ~ Ended(o) /\ ~ At(o, "rename")
  BY DEF Acquire, At, Holding, Locked, Ended
<1>5. Free(op[o].key)
  BY <1>4 DEF Acquire, Lock!Go, Free, IInv, LockOK
<1>6. TmpMove(o)
  BY <1>2, <1>4, TmpStill DEF Acquire, At, disk
<1> QED
  BY <1>1, <1>3, <1>4, <1>5, <1>6 DEF FilesMove, At

\* Still before the metadata is read.
LEMMA EarlyStay ==
  ASSUME IInv, FilesOK, NEW o \in Ops, UNCHANGED <<meta, data>>, op'[o].key = op[o].key,
         op[o].pc \in {"held", "stream", "hash", "read"}, op'[o].pc \in {"held", "stream", "hash", "read"}
  PROVE  FilesMove(o)
<1>1. Holding(o) /\ Holding(o)'
  BY DEF Holding, Locked
<1>2. InPlace(data, op[o].key, meta[op[o].key], {})
  BY <1>1 DEF FilesOK, Midway, Kept, Extra
<1>3. Midway(o)'
  BY <1>2 DEF Midway, Kept, Extra
<1> QED
  BY <1>1, <1>3 DEF FilesMove

LEMMA EarlyEnd ==
  ASSUME IInv, FilesOK, NEW o \in Ops, UNCHANGED <<meta, data>>, NEW res, Finish(o, res),
         op[o].pc \in {"held", "stream", "hash", "read"}
  PROVE  FilesMove(o)
<1>1. Holding(o) /\ ~ Holding(o)'
  BY Ends DEF Holding, Locked
<1>2. InPlace(data, op[o].key, meta[op[o].key], {})
  BY <1>1 DEF FilesOK, Midway, Kept, Extra
<1> QED
  BY <1>1, <1>2 DEF FilesMove

LEMMA EarlyMoves ==
  ASSUME IInv, FilesOK, NEW o \in Ops,
         PutOpen(o) \/ StreamEnd(o) \/ StreamFail(o) \/ Hash(o) \/ (HangUp(o) /\ At(o, "held"))
  PROVE  FilesMove(o) /\ TmpMove(o)
<1>1. TypeOK /\ CallOK(o) /\ op[o] \in CallState
  BY OpType
<1>2. op[o].pc \in {"held", "stream", "hash"} /\ ~ Ended(o) /\ ~ At(o, "rename")
  BY DEF PutOpen, StreamEnd, StreamFail, Hash, HangUp, At, Ended
<1>3. op[o].key \in Keys
  BY <1>2, HasKey DEF IInv, At
<1>4. CASE PutOpen(o)
  <2>6. PICK f : f = File(o, versioning)
    OBVIOUS
  <2>1. op'[o] = [op[o] EXCEPT !.mode = versioning, !.pc = "stream"]
    BY <1>4, Turn DEF PutOpen
  <2>2. op'[o].key = op[o].key /\ op'[o].kind = op[o].kind /\ op'[o].mode = versioning /\ op'[o].pc = "stream"
    BY <1>1, <2>1 DEF CallState
  <2>3. FilesMove(o)
    BY <1>2, <1>4, <2>2, EarlyStay DEF PutOpen
  <2>4. Owns(o, f)'
    BY <1>4, <2>2, <2>6 DEF PutOpen, Owns, File, Writes
  <2>7. \A i : ~ Owns(o, i)
    BY <1>2, <1>4 DEF PutOpen, Owns, At
  <2>5. \A k \in Keys, i \in Ids : <<k, i>> # f => tmp'[<<k, i>>] = tmp[<<k, i>>] /\ ~ Owns(o, <<k, i>>)
    BY <1>1, <1>4, <2>6, <2>7 DEF PutOpen, TypeOK
  <2> QED
    BY <1>2, <1>4, <2>3, <2>4, <2>5 DEF TmpMove, PutOpen
<1>5. CASE StreamEnd(o)
  <2>1. op'[o] = [op[o] EXCEPT !.pc = "hash"]
    BY <1>5, Turn DEF StreamEnd
  <2>2. op'[o].key = op[o].key /\ op'[o].kind = op[o].kind /\ op'[o].mode = op[o].mode /\ op'[o].pc = "hash"
    BY <1>1, <2>1 DEF CallState
  <2>3. FilesMove(o)
    BY <1>2, <1>5, <2>2, EarlyStay DEF StreamEnd
  <2>4. Owns(o, OwnFile(o))'
    BY <1>5, <2>2 DEF StreamEnd, Owns, OwnFile, File, Writes
  <2>5. OwnFile(o)' = OwnFile(o)
    BY <2>2 DEF OwnFile, File
  <2>6. \A k \in Keys, i \in Ids : <<k, i>> # OwnFile(o) =>
          tmp'[<<k, i>>] = tmp[<<k, i>>] /\ ~ Owns(o, <<k, i>>)
    BY <1>1, <1>5 DEF StreamEnd, TypeOK, Owns, OwnFile
  <2> QED
    BY <1>2, <1>5, <2>3, <2>4, <2>5, <2>6 DEF TmpMove, StreamEnd
<1>6. CASE Finish(o, "failed") /\ UNCHANGED disk
  <2>1. FilesMove(o)
    BY <1>2, <1>6, EarlyEnd DEF disk
  <2> QED
    BY <1>2, <1>6, <2>1, TmpStill, Ends DEF disk
<1>7. CASE Hash(o) /\ ~ Finish(o, "failed")
  <2>1. PICK e : op'[o] = [op[o] EXCEPT !.etag = e, !.pc = "read"]
    BY <1>7, Turn DEF Hash
  <2>2. op'[o].key = op[o].key /\ op'[o].kind = op[o].kind /\ op'[o].mode = op[o].mode /\ op'[o].pc = "read"
    BY <1>1, <2>1 DEF CallState
  <2>3. FilesMove(o)
    BY <1>2, <1>7, <2>2, EarlyStay DEF Hash, disk
  <2> QED
    BY <1>2, <1>7, <2>2, <2>3, TmpStill DEF Hash, disk
<1>8. CASE HangUp(o) /\ At(o, "held")
  <2>1. op'[o] = [op[o] EXCEPT !.gone = TRUE]
    BY <1>8, Turn DEF HangUp
  <2>2. op'[o].key = op[o].key /\ op'[o].pc = "held"
    BY <1>1, <1>8, <2>1 DEF CallState, At
  <2>3. FilesMove(o)
    BY <1>2, <1>8, <2>2, EarlyStay DEF HangUp, disk
  <2> QED
    BY <1>2, <1>8, <2>2, <2>3, TmpStill DEF HangUp, disk, At
<1> QED
  BY <1>4, <1>5, <1>6, <1>7, <1>8 DEF StreamFail, Hash

-----------------------------------------------------------------------------
(* The steps on the list of versions.                                      *)

\* With the lock before and after, and the same data.
LEMMA LateMoves ==
  ASSUME IInv, NEW o \in Ops, Holding(o), op'[o].pc \in Locked, UNCHANGED <<metaTmp, tmp>>,
         op'[o].key = op[o].key, InPlace(data', op[o].key, Kept(o)', Extra(o)'),
         Writes(o) => /\ op'[o].pc \in {"read", "drop", "swap", "seal", "clean"}
                      /\ op'[o].mode = op[o].mode /\ op'[o].kind = op[o].kind,
         ~ At(o, "rename")
  PROVE  FilesMove(o) /\ TmpMove(o)
<1>1. ~ Ended(o)
  BY DEF Holding, Locked, Ended
<1>2. TmpMove(o)
  BY <1>1, TmpStill
<1> QED
  BY <1>2 DEF FilesMove, Holding, Midway

LEMMA ReadMetaMoves ==
  ASSUME IInv, FilesOK, NEW o \in Ops, ReadMeta(o)
  PROVE  FilesMove(o) /\ TmpMove(o)
<1>1. op[o] \in CallState /\ Holding(o) /\ Writes(o) /\ op[o].pc = "read" /\ ~ At(o, "rename")
  BY OpType DEF ReadMeta, At, Holding, Locked
<1>2. op[o].key \in Keys /\ CallOK(o)
  BY <1>1, OpType, HasKey DEF IInv, At
<1> DEFINE k   == op[o].key
           om  == meta[k]
           old == IF op[o].mode = "Enabled" THEN <<>> ELSE om
           pc  == IF old = <<>> THEN "swap" ELSE "drop"
           r   == [op[o] EXCEPT !.om = om, !.todo = old, !.pc = pc]
<1>3. op'[o] = r
  BY Turn DEF ReadMeta
<1>4. r.key = k /\ r.kind = op[o].kind /\ r.mode = op[o].mode /\ r.pc = pc /\ r.todo = old
  BY <1>1 DEF CallState
<1> HIDE DEF r
<1>5. UNCHANGED <<meta, metaTmp, data, tmp>>
  BY DEF ReadMeta, disk
<1>6. InPlace(data, k, om, {})
  BY <1>1 DEF FilesOK, Midway, Kept, Extra
<1>7. InPlace(data', k, Kept(o)', Extra(o)')
  <2>1. CASE op[o].mode = "Enabled"
    <3>1. Kept(o)' = om /\ Extra(o)' = {}
      BY <1>3, <1>4, <1>5, <2>1 DEF Kept, Extra
    <3> QED
      BY <1>5, <1>6, <3>1
  <2>2. CASE op[o].mode # "Enabled" /\ om = <<>>
    <3>1. Kept(o)' = om /\ Extra(o)' = {}
      BY <1>3, <1>4, <1>5, <2>2 DEF Kept, Extra
    <3> QED
      BY <1>5, <1>6, <3>1
  <2>3. CASE op[o].mode # "Enabled" /\ om # <<>>
    <3>1. Kept(o)' = <<>> /\ Extra(o)' = IdsOf(om)
      BY <1>1, <1>3, <1>4, <2>3 DEF Kept, Extra, Writes, At, IdsOf
    <3>2. InPlace(data, k, <<>>, IdsOf(om))
      BY <1>6 DEF InPlace, IdsOf
    <3> QED
      BY <1>5, <3>1, <3>2
  <2> QED
    BY <2>1, <2>2, <2>3
<1>8. pc \in {"drop", "swap"}
  OBVIOUS
<1> QED
  BY <1>1, <1>3, <1>4, <1>5, <1>7, <1>8, LateMoves DEF Locked

LEMMA TagReadMoves ==
  ASSUME IInv, FilesOK, NEW o \in Ops, TagRead(o)
  PROVE  FilesMove(o) /\ TmpMove(o)
<1>1. op[o] \in CallState /\ Holding(o) /\ op[o].kind = "tag" /\ op[o].pc = "held" /\ ~ Ended(o) /\ ~ At(o, "rename")
  BY OpType DEF TagRead, At, Holding, Locked, Ended
<1>2. op[o].key \in Keys
  BY <1>1, HasKey DEF IInv, At
<1> DEFINE k  == op[o].key
           om == meta[k]
           n  == Find(om, op[o].arg)
<1>3. UNCHANGED <<meta, metaTmp, data, tmp>>
  BY DEF TagRead, disk
<1>4. CASE n = 0 \/ (n # 0 /\ om[n].del)
  <2>1. Finish(o, "NoSuchKey")
    BY <1>4 DEF TagRead
  <2> QED
    BY <1>1, <1>3, <2>1, EarlyEnd, TmpStill DEF Writes
<1>5. CASE ~ (n = 0 \/ (n # 0 /\ om[n].del))
  <2> DEFINE s == [om EXCEPT ![n].tag = o]
             r == [op[o] EXCEPT !.om = s, !.pc = "wmeta"]
  <2>1. op'[o] = r
    BY <1>5, Turn DEF TagRead
  <2>2. r.key = k /\ r.kind = "tag" /\ r.pc = "wmeta" /\ r.om = s
    BY <1>1 DEF CallState
  <2> HIDE DEF r
  <2>3. om \in Seq(Version) /\ n \in 1 .. Len(om)
    BY <1>2, <1>5, MetaType, FindPlace
  <2> HIDE DEF n
  <2>4. /\ Len(s) = Len(om)
        /\ \A j \in 1 .. Len(om) : /\ s[j].id = om[j].id /\ s[j].by = om[j].by /\ s[j].etag = om[j].etag
                                   /\ s[j].enc = om[j].enc /\ s[j].del = om[j].del
    BY <2>3, TaggedSeq
  <2>5. InPlace(data, k, om, {})
    BY <1>1 DEF FilesOK, Midway, Kept, Extra
  <2>6. InPlace(data, k, s, {})
    <3> HIDE DEF s, om, k
    <3> QED
      BY <2>4, <2>5 DEF InPlace, Right
  <2>7. Kept(o)' = s /\ Extra(o)' = {}
    BY <2>1, <2>2 DEF Kept, Extra, Writes, At
  <2> QED
    BY <1>1, <1>3, <2>1, <2>2, <2>6, <2>7, LateMoves DEF Locked, Writes
<1> QED
  BY <1>4, <1>5

LEMMA DeleteReadMoves ==
  ASSUME IInv, FilesOK, NEW o \in Ops, DeleteRead(o)
  PROVE  FilesMove(o) /\ TmpMove(o)
<1>1. /\ op[o] \in CallState /\ Holding(o) /\ ~ Writes(o) /\ op[o].pc = "held" /\ ~ Ended(o) /\ ~ At(o, "rename")
      /\ op[o].kind \in {"delete", "expire"}
  BY OpType DEF DeleteRead, At, Holding, Locked, Ended, Writes
<1>2. op[o].key \in Keys
  BY <1>1, HasKey DEF IInv, At
<1> DEFINE k  == op[o].key
           om == meta[k]
           n  == Find(om, op[o].arg)
<1>3. UNCHANGED <<meta, metaTmp, data, tmp>>
  BY DEF DeleteRead, disk
<1>4. om \in Seq(Version) /\ Len(om) \in Nat /\ UniqueIds(om) /\ n \in 0 .. Len(om)
  BY <1>2, MetaType, FindPlace
<1>5. InPlace(data, k, om, {})
  BY <1>1 DEF FilesOK, Midway, Kept, Extra
<1>6. ASSUME NEW res, Finish(o, res)
      PROVE  FilesMove(o) /\ TmpMove(o)
  BY <1>1, <1>3, <1>6, EarlyEnd, TmpStill
<1>7. CASE Becomes(o, [op[o] EXCEPT !.om = <<Marker(o)>> \o om, !.pc = "wmeta"])
  <2> DEFINE s == <<Marker(o)>> \o om
             r == [op[o] EXCEPT !.om = s, !.pc = "wmeta"]
  <2>1. op'[o] = r
    BY <1>7, Turn
  <2>2. r.key = k /\ r.kind = op[o].kind /\ r.pc = "wmeta" /\ r.om = s
    BY <1>1 DEF CallState
  <2> HIDE DEF r
  <2>3. Len(s) = Len(om) + 1 /\ s[1] = Marker(o) /\ \A j \in 2 .. Len(om) + 1 : s[j] = om[j - 1]
    BY <1>4, MarkerType, PrependSeq
  <2>4. s[1].del
    BY <2>3 DEF Marker
  <2>5. InPlace(data, k, s, {})
    <3> HIDE DEF s, om, k
    <3>1. \A j \in 1 .. Len(s) : s[j].del \/ Right(data, k, s[j])
      BY <1>4, <1>5, <2>3, <2>4 DEF InPlace
    <3>2. \A j \in 1 .. Len(om) : j + 1 \in 1 .. Len(s) /\ s[j + 1] = om[j]
      BY <1>4, <2>3
    <3> QED
      BY <1>5, <3>1, <3>2 DEF InPlace
  <2>6. Kept(o)' = s /\ Extra(o)' = {}
    BY <2>1, <2>2 DEF Kept, Extra, Writes, At
  <2> QED
    BY <1>1, <1>3, <2>1, <2>2, <2>5, <2>6, LateMoves DEF Locked
<1>8. CASE n # 0 /\ Becomes(o, [op[o] EXCEPT !.om = Without(om, n), !.todo = <<om[n]>>, !.pc = "drop"])
  <2> DEFINE s == Without(om, n)
             t == <<om[n]>>
             r == [op[o] EXCEPT !.om = s, !.todo = t, !.pc = "drop"]
  <2>1. op'[o] = r
    BY <1>8, Turn
  <2>2. r.key = k /\ r.kind = op[o].kind /\ r.pc = "drop" /\ r.om = s /\ r.todo = t
    BY <1>1 DEF CallState
  <2> HIDE DEF r
  <2>3. n \in 1 .. Len(om) /\ IdsOf(t) = {om[n].id}
    BY <1>4, <1>8 DEF IdsOf
  <2> HIDE DEF n
  <2>4. /\ Len(s) = Len(om) - 1
        /\ \A j \in 1 .. Len(om) - 1 : s[j] = IF j < n THEN om[j] ELSE om[j + 1]
    BY <1>4, <2>3, WithoutSeq
  <2>5. InPlace(data, k, s, IdsOf(t))
    <3> HIDE DEF s, om, k, t
    <3>1. \A j \in 1 .. Len(s) : s[j].del \/ Right(data, k, s[j])
      BY <1>4, <1>5, <2>3, <2>4 DEF InPlace
    <3>2. \A j \in 1 .. Len(om) : j = n \/ \E m \in 1 .. Len(s) : s[m] = om[j]
      <4> SUFFICES ASSUME NEW j \in 1 .. Len(om), j # n
                   PROVE  \E m \in 1 .. Len(s) : s[m] = om[j]
        OBVIOUS
      <4>1. CASE j < n
        <5>1. j \in 1 .. Len(s) /\ s[j] = om[j]
          BY <1>4, <2>3, <2>4, <4>1
        <5> QED
          BY <5>1
      <4>2. CASE j > n
        <5>1. j - 1 \in 1 .. Len(s) /\ s[j - 1] = om[j]
          BY <1>4, <2>3, <2>4, <4>2
        <5> QED
          BY <5>1
      <4> QED
        BY <1>4, <2>3, <4>1, <4>2
    <3> QED
      BY <1>5, <2>3, <3>1, <3>2 DEF InPlace
  <2>6. Kept(o)' = s /\ Extra(o)' = IdsOf(t)
    BY <1>1, <2>1, <2>2 DEF Kept, Extra, Writes, At, IdsOf
  <2> QED
    BY <1>1, <1>3, <2>1, <2>2, <2>5, <2>6, LateMoves DEF Locked
<1>9. CASE Becomes(o, [op[o] EXCEPT !.om = <<>>, !.todo = om, !.pc = "drop"])
  <2> DEFINE r == [op[o] EXCEPT !.om = <<>>, !.todo = om, !.pc = "drop"]
  <2>1. op'[o] = r
    BY <1>9, Turn
  <2>2. r.key = k /\ r.kind = op[o].kind /\ r.pc = "drop" /\ r.om = <<>> /\ r.todo = om
    BY <1>1 DEF CallState
  <2> HIDE DEF r
  <2>3. InPlace(data, k, <<>>, IdsOf(om))
    BY <1>5 DEF InPlace, IdsOf
  <2>4. Kept(o)' = <<>> /\ Extra(o)' = IdsOf(om)
    BY <1>1, <2>1, <2>2 DEF Kept, Extra, Writes, At, IdsOf
  <2> QED
    BY <1>1, <1>3, <2>1, <2>2, <2>3, <2>4, LateMoves DEF Locked
<1> QED
  BY <1>6, <1>7, <1>8, <1>9 DEF DeleteRead

LEMMA WriteMetaMoves ==
  ASSUME IInv, FilesOK, NEW o \in Ops, WriteMeta(o)
  PROVE  FilesMove(o) /\ TmpMove(o)
<1>1. TypeOK /\ op[o] \in CallState /\ Holding(o) /\ op[o].pc = "wmeta" /\ ~ Ended(o)
  BY OpType DEF WriteMeta, At, Holding, Locked, Ended
<1>2. op'[o] = [op[o] EXCEPT !.pc = "rename"]
  BY Turn DEF WriteMeta
<1>3. op'[o].key = op[o].key /\ op'[o].om = op[o].om /\ op'[o].pc = "rename" /\ Holding(o)'
  BY <1>1, <1>2 DEF CallState, Holding, Locked
<1>4. InPlace(data, op[o].key, op[o].om, {})
  BY <1>1 DEF FilesOK, Midway, Kept, Extra, At
<1>5. Midway(o)'
  BY <1>3, <1>4 DEF WriteMeta, Midway, Kept, Extra, At
<1>6. TmpMove(o)
  <2>1. \A k \in Keys, i \in Ids : ~ Owns(o, <<k, i>>)
    BY <1>1 DEF Owns
  <2>2. \A k \in Keys : k # op[o].key => metaTmp'[k] = metaTmp[k]
    BY <1>1 DEF WriteMeta, TypeOK
  <2> QED
    BY <1>1, <1>3, <2>1, <2>2 DEF TmpMove, WriteMeta, At
<1> QED
  BY <1>1, <1>3, <1>5, <1>6 DEF FilesMove

\* The list that was written takes effect: its files are in place.
LEMMA ListTaken ==
  ASSUME IInv, FilesOK, NEW o \in Ops, op[o].pc \in {"rename", "rmmeta"}, Finish(o, "ok"),
         UNCHANGED <<data, tmp>>, meta' = [meta EXCEPT ![op[o].key] = op[o].om],
         \A k \in Keys : metaTmp'[k] # None => metaTmp[k] # None /\ (At(o, "rename") => k # op[o].key)
  PROVE  FilesMove(o) /\ TmpMove(o)
<1>1. Holding(o) /\ ~ Ended(o) /\ TypeOK
  BY OpType DEF Holding, Locked, Ended
<1>2. op[o].key \in Keys
  BY <1>1, HasKey DEF IInv, At
<1>3. InPlace(data, op[o].key, op[o].om, {})
  BY <1>1 DEF FilesOK, Midway, Kept, Extra, At
<1>4. meta'[op[o].key] = op[o].om
  BY <1>1, <1>2 DEF TypeOK
<1>5. FilesMove(o)
  BY <1>1, <1>3, <1>4, Ends DEF FilesMove
<1>6. TmpMove(o)
  <2>1. \A k \in Keys, i \in Ids : ~ Owns(o, <<k, i>>)
    BY <1>1 DEF Owns
  <2> QED
    BY <2>1 DEF TmpMove
<1> QED
  BY <1>5, <1>6

LEMMA RenameMetaMoves ==
  ASSUME IInv, FilesOK, NEW o \in Ops, RenameMeta(o)
  PROVE  FilesMove(o) /\ TmpMove(o)
<1>1. At(o, "rename") /\ TypeOK
  BY OpType DEF RenameMeta
<1>2. op[o].key \in Keys /\ metaTmp[op[o].key] # None /\ metaTmp[op[o].key] = op[o].om
  BY <1>1, Relisted
<1>3. /\ meta' = [meta EXCEPT ![op[o].key] = op[o].om] /\ Finish(o, "ok") /\ UNCHANGED <<data, tmp>>
      /\ metaTmp' = [metaTmp EXCEPT ![op[o].key] = None]
  BY <1>2 DEF RenameMeta
<1>4. \A k \in Keys : metaTmp'[k] # None => metaTmp[k] # None /\ k # op[o].key
  BY <1>1, <1>3 DEF TypeOK
<1> QED
  BY <1>1, <1>3, <1>4, ListTaken DEF At

LEMMA RemoveMetaMoves ==
  ASSUME IInv, FilesOK, NEW o \in Ops, RemoveMeta(o)
  PROVE  FilesMove(o) /\ TmpMove(o)
<1>1. op[o].pc = "rmmeta" /\ CallOK(o)
  BY OpType DEF RemoveMeta, At
<1>2. op[o].om = <<>>
  BY <1>1 DEF CallOK, Shape, Deleting, Marking, Removing, RemovingAt, Clearing, At
<1> QED
  BY <1>1, <1>2, ListTaken DEF RemoveMeta, At

-----------------------------------------------------------------------------
(* The steps on the data files.                                            *)

\* A put with versioning writes to a file that no listed version has.
LEMMA OwnApart ==
  ASSUME IInv, NEW o \in Ops, Writes(o), Holding(o), op[o].mode = "Enabled"
  PROVE  OwnFile(o)[2] = o /\ \A n \in 1 .. Len(meta[op[o].key]) : meta[op[o].key][n].id # o
<1>1. op[o].key \in Keys /\ ~ At(o, "done")
  BY HasKey DEF IInv, Holding, Locked, At
<1> QED
  BY <1>1, ListedEnded DEF OwnFile, File

\* The versions in place while a put writes its data file.
LEMMA KeptApart ==
  ASSUME IInv, NEW o \in Ops, op[o].pc \in {"swap", "seal", "clean"}
  PROVE  /\ Writes(o) /\ Holding(o) /\ op[o].key \in Keys
         /\ Kept(o) \in Seq(Version)
         /\ \A n \in 1 .. Len(Kept(o)) : Kept(o)[n].id # OwnFile(o)[2]
<1>1. Writes(o) /\ Holding(o)
  BY OpType DEF CallOK, Shape, Holding, Locked
<1>2. op[o].key \in Keys
  BY <1>1, HasKey DEF IInv, Holding, Locked, At
<1>3. Kept(o) = IF op[o].mode = "Enabled" THEN meta[op[o].key] ELSE <<>>
  BY DEF Kept
<1>4. CASE op[o].mode = "Enabled"
  BY <1>1, <1>2, <1>3, <1>4, OwnApart, MetaType
<1>5. CASE op[o].mode # "Enabled"
  BY <1>1, <1>2, <1>3, <1>5
<1> QED
  BY <1>4, <1>5

\* Only the put's own file changes.
LEMMA OwnWrite ==
  ASSUME IInv, FilesOK, NEW o \in Ops, op[o].pc \in {"swap", "seal", "clean"},
         NEW d, \A i \in Ids : i # OwnFile(o)[2] => d[<<op[o].key, i>>] = data[<<op[o].key, i>>]
  PROVE  InPlace(d, op[o].key, Kept(o), {OwnFile(o)[2]})
<1> DEFINE k == op[o].key
           s == Kept(o)
           own == OwnFile(o)[2]
<1>1. /\ Holding(o) /\ k \in Keys /\ s \in Seq(Version)
      /\ \A n \in 1 .. Len(s) : s[n].id # own
  BY KeptApart
<1>2. InPlace(data, k, s, Extra(o)) /\ Extra(o) \subseteq {own}
  BY <1>1 DEF FilesOK, Midway, Extra
<1>3. \A n \in 1 .. Len(s) : s[n] \in Version
  BY <1>1
<1>4. \A n \in 1 .. Len(s) : s[n].id \in Ids
  BY <1>3 DEF Version
<1>5. \A n \in 1 .. Len(s) : d[<<k, s[n].id>>] = data[<<k, s[n].id>>]
  BY <1>1, <1>4
<1> HIDE DEF k, s, own
<1>6. \A n \in 1 .. Len(s) : s[n].del \/ Right(d, k, s[n])
  BY <1>2, <1>5 DEF InPlace, Right
<1>7. \A i \in Ids : d[<<k, i>>] # None => i = own \/ \E n \in 1 .. Len(s) : s[n].id = i /\ ~ s[n].del
  BY <1>2 DEF InPlace, k, own
<1>8. InPlace(d, k, s, {own})
  BY <1>6, <1>7 DEF InPlace
<1> QED
  BY <1>8 DEF k, s, own

LEMMA SealMoves ==
  ASSUME IInv, FilesOK, NEW o \in Ops, SealOpen(o) \/ SealEnd(o)
  PROVE  FilesMove(o) /\ TmpMove(o)
<1>1. TypeOK /\ CallOK(o) /\ op[o] \in CallState /\ op[o].pc \in {"swap", "seal"} /\ ~ At(o, "rename")
  BY OpType DEF SealOpen, SealEnd, At
<1>2. Writes(o) /\ Holding(o) /\ op[o].key \in Keys /\ OwnFile(o) \in Keys \X Ids
  BY <1>1, KeptApart, OwnFileType
<1>3. SealOpen(o) => tmp[OwnFile(o)] # None
  BY <1>1, <1>2, NamesAssumption DEF SealOpen, At, CallOK, Putting, TypeOK, DataFile, Shape
<1>4. PICK r, e : /\ r.pc \in {"seal", "clean"} /\ r.key = op[o].key /\ r.mode = op[o].mode /\ r.kind = op[o].kind
                  /\ Becomes(o, r) /\ data' = [data EXCEPT ![OwnFile(o)] = e]
  <2>1. CASE SealOpen(o)
    <3> DEFINE b == tmp[OwnFile(o)].bytes
               r == [op[o] EXCEPT !.body = b, !.pc = "seal"]
    <3>1. r.pc = "seal" /\ r.key = op[o].key /\ r.mode = op[o].mode /\ r.kind = op[o].kind
      BY <1>1 DEF CallState
    <3> QED
      BY <1>3, <2>1, <3>1 DEF SealOpen
  <2>2. CASE SealEnd(o)
    <3> DEFINE r == [op[o] EXCEPT !.pc = "clean"]
    <3>1. r.pc = "clean" /\ r.key = op[o].key /\ r.mode = op[o].mode /\ r.kind = op[o].kind
      BY <1>1 DEF CallState
    <3> QED
      BY <2>2, <3>1 DEF SealEnd
  <2> QED
    BY <2>1, <2>2
<1>5. op'[o] = r
  BY <1>4, Turn
<1>6. UNCHANGED <<meta, metaTmp, tmp>>
  BY <1>3 DEF SealOpen, SealEnd
<1>7. OwnFile(o)' = OwnFile(o) /\ Kept(o)' = Kept(o) /\ Extra(o)' = {OwnFile(o)[2]}
  BY <1>1, <1>4, <1>5, <1>6 DEF OwnFile, File, Kept, Extra
<1>8. \A i \in Ids : i # OwnFile(o)[2] => data'[<<op[o].key, i>>] = data[<<op[o].key, i>>]
  BY <1>1, <1>2, <1>4, OwnFileType DEF TypeOK
<1>9. InPlace(data', op[o].key, Kept(o)', Extra(o)')
  BY <1>1, <1>7, <1>8, OwnWrite
<1> QED
  BY <1>1, <1>2, <1>4, <1>5, <1>6, <1>9, LateMoves DEF Locked

\* The put's data file is there: the new list is in place, but for the version that
\* is to be dropped from it.
LEMMA PushedPlace ==
  ASSUME IInv, FilesOK, NEW o \in Ops, op[o].pc \in {"swap", "clean"},
         NEW d, \A i \in Ids : i # OwnFile(o)[2] => d[<<op[o].key, i>>] = data[<<op[o].key, i>>],
         d[OwnFile(o)] = [bytes |-> op[o].etag, by |-> IF op[o].enc THEN o ELSE None]
  PROVE  LET s == meta[op[o].key]
         IN  InPlace(d, op[o].key, Pushed(o),
                     IF op[o].mode = "Enabled" /\ Len(s) >= MaxVersions THEN {s[Len(s)].id} ELSE {})
<1> DEFINE k == op[o].key
           s == meta[k]
           v == NewVersion(o)
           own == OwnFile(o)[2]
           u == Pushed(o)
<1>1. Writes(o) /\ Holding(o) /\ k \in Keys
  BY KeptApart
<1>2. InPlace(d, k, Kept(o), {own})
  BY OwnWrite
<1>3. /\ Len(u) >= 1 /\ Len(u) \in Nat /\ u[1] = v
      /\ op[o].mode # "Enabled" => Len(u) = 1
      /\ op[o].mode = "Enabled" => Len(u) = IF Len(s) < MaxVersions THEN Len(s) + 1 ELSE Len(s)
      /\ \A n \in 2 .. Len(u) : n - 1 \in 1 .. Len(s) /\ u[n] = s[n - 1]
  BY <1>1, PushedSeq
<1>4. v.id = own /\ ~ v.del /\ Right(d, k, v)
  BY DEF NewVersion, Right, OwnFile, File
<1>5. Len(s) \in Nat /\ MaxVersions \in Nat
  BY <1>1, MetaType, BoundsAssumption
<1>6. CASE op[o].mode # "Enabled"
  <2>1. Kept(o) = <<>>
    BY <1>6 DEF Kept
  <2> HIDE DEF k, s, v, own, u
  <2>2. \A i \in Ids : d[<<k, i>>] # None => i = own
    BY <1>2, <2>1 DEF InPlace
  <2>3. InPlace(d, k, u, {})
    BY <1>3, <1>4, <1>6, <2>2 DEF InPlace
  <2> QED
    BY <1>6, <2>3 DEF k, u
<1>7. CASE op[o].mode = "Enabled"
  <2>1. InPlace(d, k, s, {own})
    BY <1>2, <1>7 DEF Kept
  <2> DEFINE x == IF Len(s) >= MaxVersions THEN {s[Len(s)].id} ELSE {}
  <2> HIDE DEF k, s, v, own, u
  <2>2. \A n \in 1 .. Len(u) : n = 1 \/ n \in 2 .. Len(u)
    BY <1>3
  <2>3. \A n \in 1 .. Len(u) : u[n].del \/ Right(d, k, u[n])
    BY <1>3, <1>4, <2>1, <2>2 DEF InPlace
  <2>4. \A j \in 1 .. Len(s) : j + 1 \in 2 .. Len(u) \/ (j = Len(s) /\ Len(s) >= MaxVersions)
    BY <1>3, <1>5, <1>7
  <2>5. \A j \in 1 .. Len(s) : (\E n \in 1 .. Len(u) : u[n] = s[j]) \/ s[j].id \in x
    <3> SUFFICES ASSUME NEW j \in 1 .. Len(s) PROVE (\E n \in 1 .. Len(u) : u[n] = s[j]) \/ s[j].id \in x
      OBVIOUS
    <3>1. CASE j + 1 \in 2 .. Len(u)
      <4>1. j + 1 \in 1 .. Len(u) /\ u[j + 1] = s[j]
        BY <1>3, <3>1
      <4> QED
        BY <4>1
    <3> QED
      BY <2>4, <3>1
  <2>6. \A i \in Ids : d[<<k, i>>] # None => i \in x \/ \E n \in 1 .. Len(u) : u[n].id = i /\ ~ u[n].del
    <3> SUFFICES ASSUME NEW i \in Ids, d[<<k, i>>] # None
                 PROVE  i \in x \/ \E n \in 1 .. Len(u) : u[n].id = i /\ ~ u[n].del
      OBVIOUS
    <3>1. CASE i = own
      <4>1. 1 \in 1 .. Len(u)
        BY <1>3
      <4> QED
        BY <1>3, <1>4, <3>1, <4>1
    <3>2. CASE i # own
      <4>1. PICK j \in 1 .. Len(s) : s[j].id = i /\ ~ s[j].del
        BY <2>1, <3>2 DEF InPlace
      <4> QED
        BY <2>5, <4>1
    <3> QED
      BY <3>1, <3>2
  <2>7. InPlace(d, k, u, x)
    <3> HIDE DEF x
    <3> QED
      BY <2>3, <2>6 DEF InPlace
  <2> QED
    BY <1>7, <2>7 DEF k, u, s
<1> QED
  BY <1>6, <1>7

LEMMA SwapMoves ==
  ASSUME IInv, FilesOK, NEW o \in Ops, Swap(o) \/ CleanTmp(o)
  PROVE  FilesMove(o) /\ TmpMove(o)
<1>1. TypeOK /\ CallOK(o) /\ op[o] \in CallState /\ op[o].pc \in {"swap", "clean"} /\ ~ At(o, "rename") /\ ~ Ended(o)
  BY OpType DEF Swap, CleanTmp, At, Ended
<1>2. Writes(o) /\ Holding(o) /\ op[o].key \in Keys /\ OwnFile(o) \in Keys \X Ids
  BY <1>1, KeptApart, OwnFileType
<1>3. Swap(o) => /\ tmp[OwnFile(o)] # None
                 /\ tmp[OwnFile(o)] = [bytes |-> op[o].etag, by |-> IF op[o].enc THEN o ELSE None]
  <2>1. op[o].body \in Bytes
    BY <1>1, <1>2 DEF CallOK, Shape
  <2>2. [bytes |-> op[o].body, by |-> None] \in DataFile
    BY <2>1 DEF DataFile
  <2> QED
    BY <1>1, <1>2, <2>2, NamesAssumption DEF Swap, At, CallOK, Putting
<1>4. CleanTmp(o) => data[OwnFile(o)] = [bytes |-> op[o].etag, by |-> IF op[o].enc THEN o ELSE None]
  BY <1>1, <1>2 DEF CleanTmp, At, CallOK, Putting, Placed
<1>5. Becomes(o, Listed(o)) /\ UNCHANGED <<meta, metaTmp>> /\ tmp' = [tmp EXCEPT ![OwnFile(o)] = None]
  BY <1>3 DEF Swap, CleanTmp
<1>6. /\ \A i \in Ids : i # OwnFile(o)[2] => data'[<<op[o].key, i>>] = data[<<op[o].key, i>>]
      /\ data'[OwnFile(o)] = [bytes |-> op[o].etag, by |-> IF op[o].enc THEN o ELSE None]
  <2>1. CASE Swap(o)
    <3>1. data' = [data EXCEPT ![OwnFile(o)] = tmp[OwnFile(o)]]
      BY <1>3, <2>1 DEF Swap
    <3> QED
      BY <1>1, <1>2, <1>3, <2>1, <3>1, OwnFileType DEF TypeOK
  <2>2. CASE CleanTmp(o)
    BY <1>4, <2>2 DEF CleanTmp
  <2> QED
    BY <2>1, <2>2
<1> DEFINE r == Listed(o)
           s == meta[op[o].key]
           x == IF op[o].mode = "Enabled" /\ Len(s) >= MaxVersions THEN {s[Len(s)].id} ELSE {}
<1>7. op'[o] = r
  BY <1>5, Turn
<1>8. /\ r.pc \in {"wmeta", "trim"} /\ r.om = Pushed(o) /\ r.key = op[o].key /\ r.kind = op[o].kind
      /\ r.pc = "trim" => op[o].mode = "Enabled" /\ Len(s) >= MaxVersions /\ r.todo = <<s[Len(s)]>>
      /\ op[o].mode = "Enabled" /\ Len(s) >= MaxVersions => r.pc = "trim"
  BY <1>1, <1>2, ListedState
<1> HIDE DEF r
<1>9. Kept(o)' = Pushed(o) /\ Extra(o)' = x
  <2>1. Kept(o)' = Pushed(o)
    BY <1>7, <1>8 DEF Kept, At
  <2>2. CASE r.pc = "trim"
    <3>1. IdsOf(<<s[Len(s)]>>) = {s[Len(s)].id}
      BY DEF IdsOf
    <3>2. Extra(o)' = IdsOf(<<s[Len(s)]>>)
      BY <1>7, <1>8, <2>2 DEF Extra, IdsOf
    <3> QED
      BY <1>8, <2>1, <2>2, <3>1, <3>2
  <2>3. CASE r.pc = "wmeta"
    BY <1>7, <1>8, <2>1, <2>3 DEF Extra
  <2> QED
    BY <1>8, <2>2, <2>3
<1>10. InPlace(data', op[o].key, Pushed(o), x)
  BY <1>1, <1>6, PushedPlace
<1>11. Holding(o)' /\ op'[o].key = op[o].key
  BY <1>7, <1>8 DEF Holding, Locked
<1>12. FilesMove(o)
  BY <1>2, <1>9, <1>10, <1>11 DEF FilesMove, Midway
<1>13. TmpMove(o)
  <2>1. \A k \in Keys, i \in Ids : tmp'[<<k, i>>] # None => tmp[<<k, i>>] # None /\ <<k, i>> # OwnFile(o)
    BY <1>1, <1>2, <1>5 DEF TypeOK
  <2>2. \A k \in Keys, i \in Ids : <<k, i>> # OwnFile(o) => ~ Owns(o, <<k, i>>)
    BY <1>1 DEF Owns, OwnFile
  <2> QED
    BY <1>1, <1>5, <2>1, <2>2 DEF TmpMove
<1> QED
  BY <1>12, <1>13

\* What a call is about to remove is not among what it keeps.
LEMMA DroppedApart ==
  ASSUME IInv, NEW o \in Ops, op[o].pc \in {"drop", "trim"}
  PROVE  LET i == Head(op[o].todo).id
         IN  /\ Kept(o) \in Seq(Version) /\ i \in Ids
             /\ \A n \in 1 .. Len(Kept(o)) : Kept(o)[n].id # i
             /\ Writes(o) /\ op[o].pc = "drop" => Kept(o) = <<>> /\ op[o].mode # "Enabled"
             /\ ~ (Writes(o) /\ op[o].pc = "drop") => Kept(o) = op[o].om
<1> DEFINE k == op[o].key
           s == meta[k]
           t == op[o].todo
           i == Head(t).id
<1>1. TypeOK /\ CallOK(o) /\ op[o] \in CallState /\ Holding(o) /\ k \in Keys
  BY OpType, HasKey DEF IInv, Holding, Locked, At
<1>2. t \in Seq(Version) /\ t # <<>> /\ op[o].om \in Seq(Version)
  BY <1>1 DEF CallState, CallOK, Shape
<1>3. Head(t) \in Version /\ i \in Ids
  <2>1. Head(t) \in Version
    BY <1>2
  <2> QED
    BY <2>1 DEF Version
<1>4. s \in Seq(Version) /\ Len(s) \in Nat /\ UniqueIds(s)
  BY <1>1, MetaType
<1>5. CASE Writes(o) /\ op[o].pc = "drop"
  <2>1. op[o].mode # "Enabled"
    BY <1>1, <1>5 DEF CallOK, Putting, At
  <2>2. Kept(o) = <<>>
    BY <1>5, <2>1 DEF Kept, At
  <2> QED
    BY <1>3, <1>5, <2>1, <2>2
<1>6. CASE op[o].pc = "trim"
  <2>1. Writes(o)
    BY <1>1, <1>6 DEF CallOK, Shape
  <2>2. /\ op[o].mode = "Enabled" /\ Len(s) >= MaxVersions
        /\ t = <<s[Len(s)]>> /\ op[o].om = Pushed(o)
    BY <1>1, <1>6, <2>1 DEF CallOK, Putting, At
  <2>3. Kept(o) = Pushed(o)
    BY <1>6, <2>2 DEF Kept, At
  <2>4. /\ Len(Pushed(o)) = Len(s) /\ Pushed(o)[1] = NewVersion(o)
        /\ \A n \in 2 .. Len(Pushed(o)) : n - 1 \in 1 .. Len(s) /\ Pushed(o)[n] = s[n - 1]
    BY <1>1, <1>4, <2>1, <2>2, PushedSeq, BoundsAssumption
  <2>5. i = s[Len(s)].id /\ Len(s) \in 1 .. Len(s)
    BY <1>4, <2>2, BoundsAssumption
  <2>6. NewVersion(o).id = o /\ i # o
    BY <1>1, <2>1, <2>2, <2>5, OwnApart DEF NewVersion
  <2> DEFINE u == Pushed(o)
  <2> HIDE DEF s, t, u, i
  <2>7. \A n \in 1 .. Len(u) : u[n].id # i
    <3> SUFFICES ASSUME NEW n \in 1 .. Len(u) PROVE u[n].id # i
      OBVIOUS
    <3>1. CASE n = 1
      BY <2>4, <2>6, <3>1 DEF u
    <3>2. CASE n # 1
      <4>1. n - 1 \in 1 .. Len(s) /\ u[n] = s[n - 1] /\ n - 1 # Len(s)
        BY <1>4, <2>4, <3>2 DEF u
      <4> QED
        BY <1>4, <2>5, <4>1 DEF UniqueIds
    <3> QED
      BY <3>1, <3>2
  <2> QED
    BY <1>2, <1>3, <1>6, <2>2, <2>3, <2>7 DEF u, t, i
<1>7. CASE ~ Writes(o) /\ op[o].pc = "drop"
  <2>1. Kept(o) = op[o].om
    BY <1>7 DEF Kept, At
  <2>2. Removing(o) \/ Clearing(o)
    BY <1>1, <1>7 DEF CallOK, Shape, Deleting, Marking, At
  <2>3. CASE Clearing(o)
    <3>1. op[o].om = <<>>
      BY <2>3 DEF Clearing
    <3> QED
      BY <1>3, <1>7, <2>1, <3>1
  <2>4. CASE Removing(o)
    <3>1. PICK n \in 1 .. Len(s) : op[o].om = Without(s, n) /\ t = <<s[n]>>
      BY <1>7, <2>4 DEF Removing, RemovingAt, At
    <3> DEFINE u == Without(s, n)
    <3>2. Len(u) = Len(s) - 1 /\ \A j \in 1 .. Len(s) - 1 : u[j] = IF j < n THEN s[j] ELSE s[j + 1]
      BY <1>4, WithoutSeq
    <3>3. i = s[n].id
      BY <3>1
    <3> HIDE DEF s, t, u, i
    <3>4. \A j \in 1 .. Len(u) : u[j].id # i
      <4> SUFFICES ASSUME NEW j \in 1 .. Len(u) PROVE u[j].id # i
        OBVIOUS
      <4>1. CASE j < n
        <5>1. j \in 1 .. Len(s) /\ u[j] = s[j] /\ j # n
          BY <1>4, <3>2, <4>1
        <5> QED
          BY <1>4, <3>3, <5>1 DEF UniqueIds
      <4>2. CASE ~ (j < n)
        <5>1. j + 1 \in 1 .. Len(s) /\ u[j] = s[j + 1] /\ j + 1 # n
          BY <1>4, <3>2, <4>2
        <5> QED
          BY <1>4, <3>3, <5>1 DEF UniqueIds
      <4> QED
        BY <4>1, <4>2
    <3> QED
      BY <1>2, <1>3, <1>7, <2>1, <3>1, <3>4 DEF u, t, i
  <2> QED
    BY <2>2, <2>3, <2>4
<1> QED
  BY <1>5, <1>6, <1>7

LEMMA DropDataMoves ==
  ASSUME IInv, FilesOK, NEW o \in Ops, DropData(o)
  PROVE  FilesMove(o) /\ TmpMove(o)
<1> DEFINE k    == op[o].key
           t    == op[o].todo
           i    == Head(t).id
           rest == Tail(t)
           s    == Kept(o)
           next == IF rest # <<>> THEN op[o].pc
                   ELSE IF Writes(o) /\ At(o, "drop") THEN "swap"
                   ELSE IF ~ Writes(o) /\ op[o].om = <<>> THEN "rmmeta"
                   ELSE "wmeta"
           r    == [op[o] EXCEPT !.todo = rest, !.pc = next]
<1>1. /\ TypeOK /\ op[o] \in CallState /\ op[o].pc \in {"drop", "trim"} /\ Holding(o) /\ ~ Ended(o)
      /\ ~ At(o, "rename") /\ k \in Keys /\ t # <<>>
  BY OpType, HasKey DEF DropData, IInv, Holding, Locked, At, Ended
<1>2. /\ s \in Seq(Version) /\ i \in Ids /\ \A n \in 1 .. Len(s) : s[n].id # i
      /\ Writes(o) /\ op[o].pc = "drop" => s = <<>> /\ op[o].mode # "Enabled"
      /\ ~ (Writes(o) /\ op[o].pc = "drop") => s = op[o].om
  BY <1>1, DroppedApart
<1>3. InPlace(data, k, s, IdsOf(t))
  BY <1>1 DEF FilesOK, Midway, Extra
<1>4. op'[o] = r /\ data' = [data EXCEPT ![<<k, i>>] = None] /\ UNCHANGED <<meta, metaTmp, tmp>>
  BY Turn DEF DropData
<1>5. r.key = k /\ r.kind = op[o].kind /\ r.mode = op[o].mode /\ r.om = op[o].om /\ r.todo = rest /\ r.pc = next
  BY <1>1 DEF CallState
<1> HIDE DEF r
<1>6. /\ \A j \in Ids : j # i => data'[<<k, j>>] = data[<<k, j>>]
      /\ data'[<<k, i>>] = None
  BY <1>1, <1>2, <1>4 DEF TypeOK
<1>7. IdsOf(t) = {i} \cup IdsOf(rest)
  <2>1. t \in Seq(Version)
    BY <1>1 DEF CallState
  <2>2. /\ Len(t) \in Nat \ {0} /\ Len(rest) = Len(t) - 1 /\ i = t[1].id
        /\ \A n \in 1 .. Len(rest) : rest[n] = t[n + 1]
    BY <1>1, <2>1
  <2> HIDE DEF t, rest, i
  <2>3. \A n \in 1 .. Len(t) : n = 1 \/ (n - 1 \in 1 .. Len(rest) /\ rest[n - 1] = t[n])
    BY <2>2
  <2>4. \A n \in 1 .. Len(rest) : n + 1 \in 1 .. Len(t) /\ rest[n] = t[n + 1]
    BY <2>2
  <2>5. 1 \in 1 .. Len(t)
    BY <2>2
  <2>6. IdsOf(t) \subseteq {i} \cup IdsOf(rest)
    BY <2>2, <2>3 DEF IdsOf
  <2>7. {i} \cup IdsOf(rest) \subseteq IdsOf(t)
    BY <2>2, <2>4, <2>5 DEF IdsOf
  <2> QED
    BY <2>6, <2>7
<1>8. InPlace(data', k, s, IdsOf(rest))
  <2>1. \A n \in 1 .. Len(s) : s[n] \in Version
    BY <1>2
  <2>2. \A n \in 1 .. Len(s) : s[n].id \in Ids /\ data'[<<k, s[n].id>>] = data[<<k, s[n].id>>]
    BY <1>2, <1>6, <2>1 DEF Version
  <2> HIDE DEF s, k, rest, i, t
  <2>3. \A n \in 1 .. Len(s) : s[n].del \/ Right(data', k, s[n])
    BY <1>3, <2>2 DEF InPlace, Right
  <2>4. \A j \in Ids : data'[<<k, j>>] # None =>
          j \in IdsOf(rest) \/ \E n \in 1 .. Len(s) : s[n].id = j /\ ~ s[n].del
    BY <1>3, <1>6, <1>7 DEF InPlace
  <2> QED
    BY <2>3, <2>4 DEF InPlace
<1>9. Kept(o)' = s /\ Extra(o)' = IdsOf(rest)
  <2>1. Writes(o)' <=> Writes(o)
    BY <1>4, <1>5 DEF Writes
  <2>2. CASE rest # <<>>
    <3>1. op'[o].pc = op[o].pc /\ op'[o].om = op[o].om /\ op'[o].mode = op[o].mode /\ op'[o].todo = rest
      BY <1>4, <1>5, <2>2
    <3>2. Kept(o)' = s
      BY <1>1, <1>2, <2>1, <3>1 DEF Kept, At
    <3> QED
      BY <1>1, <3>1, <3>2 DEF Extra, IdsOf
  <2>3. CASE rest = <<>>
    <3>1. IdsOf(rest) = {}
      BY <2>3 DEF IdsOf
    <3>2. op'[o].pc \in {"swap", "rmmeta", "wmeta"}
      BY <1>4, <1>5, <2>3
    <3>3. Extra(o)' = {}
      BY <3>2 DEF Extra
    <3>4. CASE Writes(o) /\ op[o].pc = "drop"
      <4>1. op'[o].pc = "swap" /\ op'[o].mode # "Enabled"
        BY <1>2, <1>4, <1>5, <2>3, <3>4 DEF At
      <4> QED
        BY <1>2, <3>1, <3>3, <3>4, <4>1 DEF Kept
    <3>5. CASE ~ (Writes(o) /\ op[o].pc = "drop")
      <4>1. op'[o].pc \in {"rmmeta", "wmeta"} /\ op'[o].om = op[o].om
        BY <1>4, <1>5, <2>3, <3>5 DEF At
      <4> QED
        BY <1>2, <3>1, <3>3, <3>5, <4>1 DEF Kept, At
    <3> QED
      BY <3>4, <3>5
  <2> QED
    BY <2>2, <2>3
<1>10. Holding(o)' /\ op'[o].key = k
  BY <1>1, <1>4, <1>5 DEF Holding, Locked
<1>11. FilesMove(o)
  BY <1>1, <1>8, <1>9, <1>10 DEF FilesMove, Midway
<1>12. TmpMove(o)
  <2>1. CASE Writes(o) /\ op[o].pc = "drop"
    <3>1. op'[o].pc \in {"drop", "swap"}
      BY <1>4, <1>5, <2>1 DEF At
    <3> QED
      BY <1>1, <1>4, <1>5, <3>1, TmpStill
  <2>2. CASE ~ (Writes(o) /\ op[o].pc = "drop")
    BY <1>1, <1>4, <2>2, TmpStill
  <2> QED
    BY <2>1, <2>2
<1> QED
  BY <1>11, <1>12

-----------------------------------------------------------------------------
(* The files stay in order as long as the process lives.                   *)

LEMMA AliveInitial == Init => AliveInv
<1> SUFFICES ASSUME Init PROVE FilesOK /\ TmpOK
  BY DEF AliveInv
<1>1. \A o \in Ops : ~ Holding(o)
  BY IdleType DEF Init, Holding, Locked
<1>2. \A k \in Keys : /\ meta[k] = <<>> /\ metaTmp[k] = None
                      /\ \A i \in Ids : data[<<k, i>>] = None /\ tmp[<<k, i>>] = None
  BY DEF Init
<1> QED
  BY <1>1, <1>2 DEF FilesOK, TmpOK, InPlace

LEMMA ActKeeps ==
  ASSUME IInv, IInv', "complete" \notin Kinds, FilesOK, TmpOK, NEW o \in Ops, Act(o)
  PROVE  FilesOK' /\ TmpOK'
<1>1. /\ Frame(o) /\ (Holding(o) => op'[o].key = op[o].key)
      /\ \A p \in Ops \ {o} : op'[p] = op[p]
  BY OneCall, Framed
<1>2. FilesMove(o) /\ TmpMove(o)
  <2>1. CASE \/ Call(o) \/ DeleteAsk(o) \/ ExpireScan(o) \/ GetHead(o) \/ GetLook(o) \/ Unseal(o) \/ Stat(o)
             \/ Open(o) \/ (HangUp(o) /\ At(o, "queued"))
    BY <2>1, OutsideMoves DEF Act
  <2>2. CASE PutOpen(o) \/ StreamEnd(o) \/ StreamFail(o) \/ Hash(o) \/ (HangUp(o) /\ At(o, "held"))
    BY <2>2, EarlyMoves
  <2>3. CASE Acquire(o) \/ ReadMeta(o) \/ TagRead(o) \/ DeleteRead(o)
    BY <2>3, AcquireMoves, ReadMetaMoves, TagReadMoves, DeleteReadMoves
  <2>4. CASE WriteMeta(o) \/ RenameMeta(o) \/ RemoveMeta(o)
    BY <2>4, WriteMetaMoves, RenameMetaMoves, RemoveMetaMoves
  <2>5. CASE SealOpen(o) \/ SealEnd(o) \/ Swap(o) \/ CleanTmp(o) \/ DropData(o)
    BY <2>5, SealMoves, SwapMoves, DropDataMoves
  <2>6. HangUp(o) => At(o, "queued") \/ At(o, "held")
    BY DEF HangUp, At
  <2>7. HangUp(o) => (HangUp(o) /\ At(o, "queued")) \/ (HangUp(o) /\ At(o, "held"))
    BY <2>6
  <2>8. Call(o) \/ Step(o) \/ HangUp(o)
    BY DEF Act
  <2> HIDE DEF FilesMove, TmpMove
  <2>9. CASE Step(o)
    BY <2>1, <2>2, <2>3, <2>4, <2>5, <2>9 DEF Step
  <2> QED
    BY <2>1, <2>2, <2>7, <2>8, <2>9
<1> QED
  BY <1>1, <1>2, FilesStep, TmpStep

\* A process that lives after a step has lived before it, and was not restarted.
LEMMA StillAlive ==
  ASSUME IInv, NEW o \in Ops, Call(o) \/ Step(o) \/ HangUp(o), Alive'
  PROVE  ~ Restart /\ ~ Ended(o)
<1>1. CASE Call(o)
  <2>1. PICK r : Made(o, r)
    BY <1>1 DEF Call, PutCall, CopyCall, CompleteCall, DeleteCall, TagCall, GetCall, ExpireCall
  <2>2. op[o] = Idle /\ ~ InFlight(o) /\ ~ Ended(o)
    BY <2>1, OpType DEF Made, CallOK, Shape, InFlight, Ended, At
  <2>3. op'[o] = r /\ r.kind # "none"
    BY <2>1, Turn, KindsAssumption DEF Made, AllKinds
  <2> QED
    BY <2>2, <2>3, IdleType DEF Restart
<1>2. CASE Step(o) \/ HangUp(o)
  <2>1. InFlight(o)
    BY <1>2, Going
  <2>2. ~ Restart
    <3> SUFFICES ASSUME Restart PROVE FALSE
      OBVIOUS
    <3>1. op'[o] = [Ending(o, None) EXCEPT !.pc = "lost"]
      BY <2>1 DEF Restart
    <3>2. op'[o].pc = "lost"
      BY <3>1 DEF Ending, Idle
    <3> QED
      BY <3>2 DEF Alive, At
  <2> QED
    BY <2>1, <2>2 DEF InFlight
<1> QED
  BY <1>1, <1>2

LEMMA AliveInductive ==
  ASSUME IInv, IInv', "complete" \notin Kinds, AliveInv, [Next]_vars
  PROVE  AliveInv'
<1> SUFFICES ASSUME Alive' PROVE FilesOK' /\ TmpOK'
  BY DEF AliveInv
<1>1. ASSUME NEW o \in Ops, Call(o) \/ Step(o) \/ HangUp(o)
      PROVE  FilesOK' /\ TmpOK'
  <2>1. Act(o) /\ ~ Ended(o)
    BY <1>1, StillAlive DEF Act
  <2>2. \A p \in Ops \ {o} : op'[p] = op[p]
    BY <2>1, OneCall
  <2>3. Alive
    BY <2>1, <2>2 DEF Alive, At, Ended
  <2> QED
    BY <2>1, <2>3, ActKeeps DEF AliveInv
<1>2. ASSUME UNCHANGED <<disk, op>>
      PROVE  FilesOK' /\ TmpOK'
  <2>1. FilesOK /\ TmpOK
    BY <1>2 DEF AliveInv, Alive, At
  <2>2. FilesOK'
    BY <1>2, <2>1 DEF disk, FilesOK, Holding, Midway, Free, Kept, Extra, OwnFile, File, IdsOf, Writes, At
  <2>3. TmpOK'
    BY <1>2, <2>1 DEF disk, TmpOK, Owns, File, Writes, Ended, At
  <2> QED
    BY <2>2, <2>3
<1>3. CASE Crash
  <2>1. PICK o \in Ops : InFlight(o) /\ op'[o] = [Ending(o, None) EXCEPT !.pc = "lost"]
    BY <1>3 DEF Crash, Restart
  <2>2. op'[o].pc = "lost"
    BY <2>1 DEF Ending, Idle
  <2> QED
    BY <2>2 DEF Alive, At
<1>4. CASE \E o \in Ops : Call(o) \/ Step(o) \/ HangUp(o)
  BY <1>1, <1>4
<1>5. CASE SetVersioning \/ (\E o \in Ops : Age(o)) \/ UNCHANGED vars
  BY <1>2, <1>5 DEF SetVersioning, Age, vars, disk
<1> QED
  BY <1>3, <1>4, <1>5 DEF Next

LEMMA AliveInvariance == ASSUME "complete" \notin Kinds PROVE Spec => [](IInv /\ AliveInv)
<1>1. IInv /\ AliveInv /\ [Next]_vars => (IInv /\ AliveInv)'
  BY Inductive, AliveInductive
<1> QED
  BY <1>1, Initial, AliveInitial, PTL DEF Spec

\* Whenever nobody is changing a key, each version its metadata lists can be read back
\* and matches its ETag, as long as the process lives: putObject's order of streaming,
\* removing, renaming and writing metadata, and the one lock of the key around it.
THEOREM Settled == ASSUME "complete" \notin Kinds PROVE Spec => []SettledIntact
<1>1. IInv /\ AliveInv => SettledIntact
  <2> SUFFICES ASSUME IInv, AliveInv, Alive, NEW k \in Keys, Busy(k) = {}, NEW n \in 1 .. Len(meta[k])
               PROVE  meta[k][n].del \/ Intact(k, meta[k][n])
    BY DEF SettledIntact, Alive
  <2>1. \A o \in Ops : Holding(o) => InFlight(o) /\ o \in inside
    BY DEF IInv, LockOK, Holding, Locked, InFlight, Ended
  <2>2. Free(k)
    BY <2>1 DEF Free, Busy
  <2>3. InPlace(data, k, meta[k], {})
    BY <2>2 DEF AliveInv, FilesOK
  <2> QED
    BY <2>3 DEF InPlace, Right, Intact
<1> QED
  BY <1>1, AliveInvariance, PTL

\* While no call is in flight, the files in the bucket are those of the listed versions
\* and the ".tmp"s of puts that failed, as long as the process lives: what a mutation
\* no longer lists it has removed.
THEOREM NothingLeft == ASSUME "complete" \notin Kinds PROVE Spec => []NoLeftovers
<1>1. IInv /\ AliveInv => NoLeftovers
  <2> SUFFICES ASSUME IInv, AliveInv, \A o \in Ops : ~ InFlight(o) /\ ~ At(o, "lost"), NEW k \in Keys
               PROVE  /\ metaTmp[k] = None
                      /\ \A i \in Ids :
                           /\ data[<<k, i>>] # None =>
                                \E n \in 1 .. Len(meta[k]) : meta[k][n].id = i /\ ~ meta[k][n].del
                           /\ tmp[<<k, i>>] # None =>
                                \E o \in Ops : Ended(o) /\ op[o].res # "ok" /\ File(o, op[o].mode) = <<k, i>>
    BY DEF NoLeftovers
  <2>1. FilesOK /\ TmpOK
    BY DEF AliveInv, Alive
  <2>2. \A o \in Ops : op[o].pc \in {"idle", "done", "lost"}
    BY DEF InFlight, Ended
  <2>3. Free(k)
    BY <2>2 DEF Free, Holding, Locked
  <2>4. InPlace(data, k, meta[k], {})
    BY <2>1, <2>3 DEF FilesOK
  <2>5. \A i \in Ids : tmp[<<k, i>>] # None => \E o \in Ops : Owns(o, <<k, i>>)
    BY <2>1 DEF TmpOK
  <2>6. \A f : \A o \in Ops : Owns(o, f) => Ended(o) /\ op[o].res # "ok" /\ File(o, op[o].mode) = f
    BY <2>2 DEF Owns
  <2>7. metaTmp[k] = None
    BY <2>1, <2>2 DEF TmpOK, At
  <2> QED
    BY <2>4, <2>5, <2>6, <2>7 DEF InPlace
<1> QED
  BY <1>1, AliveInvariance, PTL
=============================================================================
