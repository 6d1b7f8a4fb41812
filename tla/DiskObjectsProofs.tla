--------------------------- MODULE DiskObjectsProofs ---------------------------
(***************************************************************************)
(* The safety properties of the objects on disk, for any number of calls,  *)
(* keys, versions and crashes - as long as no multipart upload is          *)
(* completed on the bucket, which takes no lock of the key.                *)
(***************************************************************************)
EXTENDS DiskObjects, FiniteSetTheorems, SequenceTheorems, TLAPS

(* The inductive invariant: what the other theorems about DiskObjects, in  *)
(* DiskSettledProofs and DiskStoreProofs, rest on.                         *)

Locked == {"held", "stream", "hash", "read", "drop", "swap", "seal", "clean", "trim",
           "wmeta", "rename", "rmmeta"}

\* The call holds the lock of its key.
Holding(o) == op[o].pc \in Locked

\* The calls with the lock are the ones at the head of their line.
LockOK ==
  \A o \in Ops : /\ o \in inside <=> Holding(o)
                 /\ o \in inside => line[op[o].key] # <<>> /\ o = Head(line[op[o].key])

Removes(o) == op[o].kind \in {"delete", "expire"}

\* Which fields go with which state.
Shape(o) ==
  /\ IF At(o, "idle") THEN op[o] = Idle ELSE op[o].key \in Keys /\ op[o].kind # "none"
  /\ Holding(o) \/ At(o, "queued") => op[o].kind \in {"put", "copy", "tag", "delete", "expire"}
  /\ op[o].pc \in {"stream", "hash", "read", "swap", "seal", "clean", "trim"} => Writes(o)
  /\ At(o, "drop") => Writes(o) \/ Removes(o)
  /\ op[o].pc \in {"rmmeta", "ask", "scan"} => Removes(o)
  /\ op[o].pc \in {"head", "look", "unseal", "stat", "open"} => op[o].kind \in {"get", "copy"}
  /\ At(o, "head") => op[o].kind = "get"
  /\ op[o].pc \in {"drop", "trim", "unseal", "stat", "open"} => op[o].todo # <<>>
  /\ Writes(o) /\ (Holding(o) \/ At(o, "queued")) => op[o].body \in Bytes
  /\ Writes(o) /\ Holding(o) /\ ~ At(o, "held") => op[o].mode \in Modes
  /\ Removes(o) /\ (Holding(o) \/ At(o, "queued")) => op[o].mode \in Modes
  /\ op[o].kind = "expire" /\ ~ At(o, "idle") => op[o].mode \in Modes
  /\ op[o].pc \in {"seal", "clean"} => op[o].enc
  /\ op[o].res = "ok" => At(o, "done")

\* The file is as the put o left it.
Placed(o) == data[OwnFile(o)] = [bytes |-> op[o].body, by |-> IF op[o].enc THEN o ELSE None]

\* The list of versions with the one of put o.
Pushed(o) ==
  LET all == <<NewVersion(o)>> \o meta[op[o].key]
  IN  IF op[o].mode # "Enabled" THEN <<NewVersion(o)>>
      ELSE IF Len(all) <= MaxVersions THEN all ELSE SubSeq(all, 1, Len(all) - 1)

\* What a put with the lock has done so far.
Putting(o) ==
  Writes(o) =>
    /\ op[o].pc \in {"hash", "read", "drop", "swap"} =>
         tmp[OwnFile(o)] = [bytes |-> op[o].body, by |-> None]
    /\ op[o].pc \in {"read", "drop", "swap", "seal", "clean", "trim", "wmeta", "rename"} =>
         op[o].etag = op[o].body
    /\ op[o].pc \in {"drop", "swap", "seal", "clean"} => op[o].om = meta[op[o].key]
    /\ At(o, "drop") => op[o].mode # "Enabled"
    /\ op[o].pc \in {"clean", "trim", "wmeta", "rename"} => Placed(o)
    /\ op[o].pc \in {"trim", "wmeta", "rename"} => op[o].om = Pushed(o)
    /\ At(o, "trim") =>
         /\ op[o].mode = "Enabled" /\ Len(meta[op[o].key]) >= MaxVersions
         /\ op[o].todo = <<meta[op[o].key][Len(meta[op[o].key])]>>

\* What a delete with the lock does: put a marker on top, remove the version it
\* names, or remove all.
Marking(o) ==
  /\ op[o].pc \in {"wmeta", "rename"} /\ op[o].mode = "Enabled"
  /\ op[o].om = <<Marker(o)>> \o meta[op[o].key]
  /\ meta[op[o].key] = <<>> \/ op[o].arg = None

RemovingAt(o, n) ==
  /\ op[o].arg # None /\ meta[op[o].key][n].id = op[o].arg
  /\ op[o].om = Without(meta[op[o].key], n)
  /\ At(o, "drop") => op[o].todo = <<meta[op[o].key][n]>>
  /\ op[o].pc \in {"wmeta", "rename"} => op[o].om # <<>>
  /\ At(o, "rmmeta") => op[o].om = <<>>

Removing(o) == \E n \in 1 .. Len(meta[op[o].key]) : RemovingAt(o, n)

Clearing(o) == /\ op[o].pc \in {"drop", "rmmeta"}
               /\ op[o].arg = None /\ op[o].mode # "Enabled" /\ op[o].om = <<>>

Deleting(o) ==
  Removes(o) /\ op[o].pc \in {"drop", "wmeta", "rename", "rmmeta"}
    => Marking(o) \/ Removing(o) \/ Clearing(o)

Tagging(o) ==
  op[o].kind = "tag" /\ op[o].pc \in {"wmeta", "rename"} =>
    \E n \in 1 .. Len(meta[op[o].key]) :
      ~ meta[op[o].key][n].del /\ op[o].om = [meta[op[o].key] EXCEPT ![n].tag = o]

Renaming(o) == At(o, "rename") => metaTmp[op[o].key] = op[o].om

\* A version in the metadata of key k has been acknowledged to the call that wrote it.
VersionOK(k, v) ==
  /\ At(v.by, "done") /\ op[v.by].res = "ok" /\ op[v.by].key = k
  /\ v.id = IF op[v.by].mode = "Enabled" THEN v.by ELSE NullId
  /\ IF v.del THEN Removes(v.by) /\ op[v.by].mode = "Enabled"
     ELSE Writes(v.by) /\ v.etag = op[v.by].etag /\ v.etag \in Bytes

UniqueIds(s) == \A m, n \in 1 .. Len(s) : s[m].id = s[n].id => m = n

ListsOK == \A k \in Keys : /\ \A n \in 1 .. Len(meta[k]) : VersionOK(k, meta[k][n])
                           /\ UniqueIds(meta[k])

\* A data file under the id of a call is of that call's bytes.
StoredOK ==
  \A k \in Keys, i \in Ops : data[<<k, i>>] # None =>
    /\ Writes(i) /\ op[i].key = k /\ op[i].mode = "Enabled"
    /\ op[i].pc \in {"seal", "clean", "trim", "wmeta", "rename", "done", "lost"}
    /\ At(i, "done") => data[<<k, i>>].bytes = op[i].etag

\* ... and enciphered as the metadata says.
SoundOK ==
  \A k \in Keys : \A n \in 1 .. Len(meta[k]) :
    LET v == meta[k][n]
    IN  ~ v.del /\ v.id \in Ops /\ data[<<k, v.id>>] # None => Intact(k, v)

\* A read of a version by its id is about bytes that do not change any more.
Reading(o) ==
  op[o].kind = "get" /\ op[o].arg \in Ops =>
    LET i == op[o].arg
    IN  /\ At(i, "done") /\ op[i].key = op[o].key
        /\ At(o, "head") => op[o].etag = None
        /\ op[o].pc \in {"look", "unseal", "stat", "open"} \/ op[o].res = "ok" =>
             Writes(i) /\ op[o].etag = op[i].etag
        /\ op[o].pc \in {"unseal", "stat", "open"} => Head(op[o].todo).id = i
        /\ op[o].res = "ok" => op[o].body = op[i].etag

CallOK(o) == /\ Shape(o) /\ Putting(o) /\ Deleting(o) /\ Tagging(o) /\ Renaming(o)
             /\ Reading(o)

CallsOK == \A o \in Ops : CallOK(o)

IInv == TypeOK /\ LockOK /\ CallsOK /\ ListsOK /\ StoredOK /\ SoundOK

-----------------------------------------------------------------------------
(* The initial states.                                                     *)

LEMMA IdleType ==
  /\ Idle \in CallState
  /\ Idle.pc = "idle" /\ Idle.kind = "none" /\ Idle.res = None /\ Idle.arg = None /\ Idle.mode = None
  /\ Idle.todo = <<>> /\ Idle.om = <<>> /\ Idle.etag = None /\ Idle.gone = FALSE
BY DEF CallState, Idle, Pcs

LEMMA Initial == Init => IInv
<1> SUFFICES ASSUME Init PROVE IInv
  OBVIOUS
<1> USE NamesAssumption
<1>1. TypeOK
  BY IdleType, BoundsAssumption DEF Init, TypeOK, Lock!Init
<1>2. LockOK
  BY IdleType DEF Init, LockOK, Holding, Locked, Lock!Init
<1>3. CallsOK
  BY IdleType DEF Init, CallsOK, CallOK, Shape, Putting, Deleting, Tagging, Renaming, Reading, Holding, Locked,
       At, Writes, Removes
<1>4. ListsOK /\ StoredOK /\ SoundOK
  BY DEF Init, ListsOK, StoredOK, SoundOK, UniqueIds, Ids
<1> QED
  BY <1>1, <1>2, <1>3, <1>4 DEF IInv

-----------------------------------------------------------------------------
(* The locks.                                                              *)

\* A call with the lock, or waiting for it, has a key; two calls with the lock of one
\* key are one.
LEMMA HasKey ==
  ASSUME CallsOK, NEW o \in Ops, ~ At(o, "idle")
  PROVE  op[o].key \in Keys
BY DEF CallsOK, CallOK, Shape

LEMMA Exclusive ==
  ASSUME LockOK, NEW o \in Ops, NEW p \in Ops, Holding(o), Holding(p), op[o].key = op[p].key
  PROVE  o = p
BY DEF LockOK

\* A step of o leaves the locks in order, whether it joins, enters, leaves or does
\* none of these.
LEMMA LockKept ==
  ASSUME TypeOK, LockOK, NEW o \in Ops,
         \A p \in Ops : Holding(p) => op[p].key \in Keys,
         \A p \in Ops \ {o} : op'[p] = op[p],
         \/ UNCHANGED lock /\ (Holding(o)' <=> Holding(o)) /\ (Holding(o) => op'[o].key = op[o].key)
         \/ \E k \in Keys : Lock!Join(o, k) /\ ~ Holding(o) /\ ~ Holding(o)'
         \/ Lock!Go(o, op[o].key) /\ op[o].key \in Keys /\ op'[o].key = op[o].key /\ ~ Holding(o) /\ Holding(o)'
         \/ Lock!Leave(o, op[o].key) /\ op[o].key \in Keys /\ ~ Holding(o)'
  PROVE  LockOK' /\ line' \in [Keys -> Seq(Ops)] /\ inside' \subseteq Ops
<1>1. \A p \in Ops \ {o} : Holding(p)' = Holding(p)
  BY DEF Holding
<1>2. CASE UNCHANGED lock /\ (Holding(o)' <=> Holding(o)) /\ (Holding(o) => op'[o].key = op[o].key)
  BY <1>1, <1>2 DEF LockOK, lock, TypeOK
<1>3. CASE \E k \in Keys : Lock!Join(o, k) /\ ~ Holding(o) /\ ~ Holding(o)'
  <2>1. PICK k \in Keys : Lock!Join(o, k) /\ ~ Holding(o) /\ ~ Holding(o)'
    BY <1>3
  <2>2. line' = [line EXCEPT ![k] = Append(line[k], o)] /\ inside' = inside
    BY <2>1 DEF Lock!Join
  <2> DEFINE s == line[k]
  <2>3. s \in Seq(Ops)
    BY DEF TypeOK
  <2> HIDE DEF s
  <2>4. Append(s, o) \in Seq(Ops) /\ Append(s, o) # <<>> /\ (s # <<>> => Head(Append(s, o)) = Head(s))
    BY <2>3, AppendProperties, HeadTailAppend
  <2>5. \A l \in Keys : line[l] # <<>> => line'[l] # <<>> /\ Head(line'[l]) = Head(line[l])
    BY <2>2, <2>4 DEF TypeOK, s
  <2>6. LockOK'
    <3> SUFFICES ASSUME NEW p \in Ops
                 PROVE  /\ (p \in inside <=> Holding(p))'
                        /\ (p \in inside => line[op[p].key] # <<>> /\ p = Head(line[op[p].key]))'
      BY DEF LockOK
    <3>1. CASE p = o
      BY <2>1, <2>2, <3>1 DEF LockOK
    <3>2. CASE p # o
      <4>1. p \in inside => op[p].key \in Keys
        BY DEF LockOK
      <4> QED
        BY <1>1, <2>2, <2>5, <3>2, <4>1 DEF LockOK
    <3> QED
      BY <3>1, <3>2
  <2> QED
    BY <2>2, <2>4, <2>6 DEF TypeOK, s
<1>4. CASE Lock!Go(o, op[o].key) /\ op[o].key \in Keys /\ op'[o].key = op[o].key /\ ~ Holding(o) /\ Holding(o)'
  BY <1>1, <1>4 DEF LockOK, Lock!Go, TypeOK
<1>5. CASE Lock!Leave(o, op[o].key) /\ op[o].key \in Keys /\ ~ Holding(o)'
  <2>1. /\ line[op[o].key] # <<>> /\ o = Head(line[op[o].key])
        /\ line' = [line EXCEPT ![op[o].key] = Tail(line[op[o].key])]
        /\ inside' = inside \ {o}
    BY <1>5 DEF Lock!Leave
  <2>2. Tail(line[op[o].key]) \in Seq(Ops)
    BY <1>5, <2>1 DEF TypeOK
  <2>3. \A p \in inside' : op[p].key # op[o].key
    BY <2>1 DEF LockOK, TypeOK
  <2>4. LockOK'
    BY <1>1, <1>5, <2>1, <2>3 DEF LockOK, TypeOK
  <2> QED
    BY <1>5, <2>1, <2>2, <2>4 DEF TypeOK
<1> QED
  BY <1>2, <1>3, <1>4, <1>5

-----------------------------------------------------------------------------
(* The frame of a step.                                                    *)

\* A step of o changes no other call, and no file but those of a key it has locked.
Frame(o) ==
  /\ \A p \in Ops \ {o} : op'[p] = op[p]
  /\ \A k \in Keys : k # op[o].key \/ ~ Holding(o) =>
       /\ meta'[k] = meta[k] /\ metaTmp'[k] = metaTmp[k]
       /\ \A i \in Ids : data'[<<k, i>>] = data[<<k, i>>] /\ tmp'[<<k, i>>] = tmp[<<k, i>>]

\* The keys of other calls with a lock are not touched.
LEMMA OtherKeys ==
  ASSUME CallsOK, LockOK, NEW o \in Ops, Frame(o), NEW p \in Ops \ {o}, Holding(p)
  PROVE  LET k == op[p].key
         IN  /\ k \in Keys /\ meta'[k] = meta[k] /\ metaTmp'[k] = metaTmp[k]
             /\ \A i \in Ids : data'[<<k, i>>] = data[<<k, i>>] /\ tmp'[<<k, i>>] = tmp[<<k, i>>]
<1>1. op[p].key \in Keys
  BY HasKey DEF Holding, Locked, At
<1>2. op[p].key # op[o].key \/ ~ Holding(o)
  BY Exclusive
<1> QED
  BY <1>1, <1>2 DEF Frame

LEMMA OwnFileType ==
  ASSUME NEW o \in Ops, op[o].key \in Keys
  PROVE  OwnFile(o) \in Keys \X Ids /\ OwnFile(o)[1] = op[o].key /\ OwnFile(o)[2] \in Ids
BY DEF OwnFile, File, Ids

LEMMA OthersKept ==
  ASSUME IInv, NEW o \in Ops, Frame(o), ~ At(o, "done")
  PROVE  \A p \in Ops \ {o} : CallOK(p)'
<1> SUFFICES ASSUME NEW p \in Ops \ {o} PROVE CallOK(p)'
  OBVIOUS
<1>1. CallOK(p) /\ op'[p] = op[p]
  BY DEF IInv, CallsOK, Frame
<1>2. Shape(p)'
  BY <1>1 DEF CallOK, Shape, Holding, At, Writes, Removes
<1>3. Reading(p)'
  <2>1. op[p].kind = "get" /\ op[p].arg \in Ops => op[p].arg # o
    BY <1>1 DEF CallOK, Reading
  <2>2. op[p].kind = "get" /\ op[p].arg \in Ops => op'[op[p].arg] = op[op[p].arg]
    BY <2>1 DEF Frame
  <2> QED
    BY <1>1, <2>2 DEF CallOK, Reading, At, Writes
<1>4. CASE ~ Holding(p)
  BY <1>1, <1>2, <1>3, <1>4 DEF CallOK, Putting, Deleting, Tagging, Renaming, Holding, Locked, At
<1>5. CASE Holding(p)
  <2> DEFINE k == op[p].key
  <2>1. /\ k \in Keys /\ meta'[k] = meta[k] /\ metaTmp'[k] = metaTmp[k]
        /\ \A i \in Ids : data'[<<k, i>>] = data[<<k, i>>] /\ tmp'[<<k, i>>] = tmp[<<k, i>>]
    BY <1>5, OtherKeys DEF IInv
  <2>2. OwnFile(p)' = OwnFile(p) /\ NewVersion(p)' = NewVersion(p) /\ (At(p, "rename")' <=> At(p, "rename"))
    BY <1>1 DEF OwnFile, File, NewVersion, At
  <2>3. data'[OwnFile(p)] = data[OwnFile(p)] /\ tmp'[OwnFile(p)] = tmp[OwnFile(p)]
    BY <2>1 DEF OwnFile, File, Ids
  <2>4. Putting(p)'
    <3>1. Placed(p)' <=> Placed(p)
      BY <1>1, <2>2, <2>3 DEF Placed
    <3>2. Pushed(p)' = Pushed(p)
      BY <1>1, <2>1, <2>2 DEF Pushed
    <3>3. op'[p] = op[p] /\ meta'[op[p].key] = meta[op[p].key] /\ Putting(p)
      BY <1>1, <2>1 DEF CallOK
    <3> QED
      BY <2>2, <2>3, <3>1, <3>2, <3>3 DEF Putting, Writes, At
  <2>5. Deleting(p)'
    <3>1. Marking(p)' <=> Marking(p)
      BY <1>1, <2>1 DEF Marking, Marker
    <3>2. Removing(p)' <=> Removing(p)
      BY <1>1, <2>1 DEF Removing, RemovingAt, At
    <3>3. Clearing(p)' <=> Clearing(p)
      BY <1>1 DEF Clearing
    <3> QED
      BY <1>1, <3>1, <3>2, <3>3 DEF CallOK, Deleting, Removes
  <2>6. Tagging(p)' /\ Renaming(p)'
    BY <1>1, <2>1 DEF CallOK, Tagging, Renaming, At
  <2> QED
    BY <1>2, <1>3, <2>4, <2>5, <2>6 DEF CallOK
<1> QED
  BY <1>4, <1>5

-----------------------------------------------------------------------------
(* The state of the call that takes a step.                                *)

\* A call goes on in the state r, and joins a line, enters, or leaves the locks alone.
LEMMA Moves ==
  ASSUME IInv, NEW o \in Ops, NEW r \in CallState, Becomes(o, r),
         \/ UNCHANGED lock /\ (r.pc \in Locked <=> Holding(o)) /\ (Holding(o) => r.key = op[o].key)
         \/ \E k \in Keys : Lock!Join(o, k) /\ ~ Holding(o) /\ r.pc \notin Locked
         \/ Lock!Go(o, op[o].key) /\ op[o].key \in Keys /\ r.key = op[o].key /\ ~ Holding(o) /\ r.pc \in Locked
  PROVE  /\ op' \in [Ops -> CallState] /\ op'[o] = r /\ \A p \in Ops \ {o} : op'[p] = op[p]
         /\ LockOK' /\ line' \in [Keys -> Seq(Ops)] /\ inside' \subseteq Ops
<1>1. op' \in [Ops -> CallState] /\ op'[o] = r /\ \A p \in Ops \ {o} : op'[p] = op[p]
  BY DEF IInv, TypeOK, Becomes
<1>2. \A p \in Ops : Holding(p) => op[p].key \in Keys
  BY HasKey DEF IInv, Holding, Locked, At
<1>3. Holding(o)' <=> r.pc \in Locked
  BY <1>1 DEF Holding
<1>4. \/ UNCHANGED lock /\ (Holding(o)' <=> Holding(o)) /\ (Holding(o) => op'[o].key = op[o].key)
      \/ \E k \in Keys : Lock!Join(o, k) /\ ~ Holding(o) /\ ~ Holding(o)'
      \/ Lock!Go(o, op[o].key) /\ op[o].key \in Keys /\ op'[o].key = op[o].key /\ ~ Holding(o) /\ Holding(o)'
  BY <1>1, <1>3
<1> QED
  BY <1>1, <1>2, <1>4, LockKept DEF IInv

LEMMA EndingFields ==
  ASSUME TypeOK, NEW o \in Ops, NEW res \in {"ok", "NoSuchKey", "failed", None}
  PROVE  LET r == Ending(o, res)
         IN  /\ r \in CallState /\ [r EXCEPT !.pc = "lost"] \in CallState
             /\ r.pc = "done" /\ r.res = res /\ r.todo = <<>> /\ ~ r.gone
             /\ r.kind = op[o].kind /\ r.key = op[o].key /\ r.arg = op[o].arg /\ r.mode = op[o].mode
             /\ r.etag = op[o].etag /\ r.body = op[o].body
<1> DEFINE s == op[o]
<1>1. s \in CallState
  BY DEF TypeOK
<1>2. Ending(o, res) = [Idle EXCEPT !.kind = s.kind, !.key = s.key, !.arg = s.arg, !.mode = s.mode,
                                    !.etag = s.etag, !.body = s.body, !.pc = "done", !.res = res]
  BY DEF Ending
<1> HIDE DEF s
<1>3. LET r == Ending(o, res)
      IN  /\ r.pc = "done" /\ r.res = res /\ r.todo = <<>> /\ ~ r.gone
          /\ r.kind = s.kind /\ r.key = s.key /\ r.arg = s.arg /\ r.mode = s.mode
          /\ r.etag = s.etag /\ r.body = s.body
  BY <1>2 DEF Idle
<1>4. Ending(o, res) \in CallState
  BY <1>1, <1>2, IdleType DEF CallState, Pcs
<1>5. [Ending(o, res) EXCEPT !.pc = "lost"] \in CallState
  BY <1>4 DEF CallState, Pcs
<1> QED
  BY <1>3, <1>4, <1>5 DEF s

\* A call that answers, other than a read with what it read, is in order.
LEMMA Answered ==
  ASSUME IInv, NEW o \in Ops, InFlight(o), NEW res \in {"ok", "NoSuchKey", "failed"},
         op'[o] = Ending(o, res), \A p \in Ops \ {o} : op'[p] = op[p],
         res = "ok" => op[o].kind # "get"
  PROVE  CallOK(o)'
<1> DEFINE r == op'[o]
<1>1. /\ r.pc = "done" /\ r.res = res /\ r.kind = op[o].kind /\ r.key = op[o].key
      /\ r.arg = op[o].arg /\ r.mode = op[o].mode
  BY DEF Ending, Idle
<1>2. CallOK(o) /\ op[o].pc \notin {"idle", "done", "lost"}
  BY DEF IInv, CallsOK, InFlight, Ended
<1>3. Shape(o)'
  BY <1>1, <1>2 DEF CallOK, Shape, Holding, Locked, At, Writes, Removes
<1>4. Putting(o)' /\ Deleting(o)' /\ Tagging(o)' /\ Renaming(o)'
  BY <1>1 DEF Putting, Deleting, Tagging, Renaming, At
<1>5. Reading(o)'
  <2> SUFFICES ASSUME op[o].kind = "get", op[o].arg \in Ops PROVE Reading(o)'
    BY <1>1 DEF Reading
  <2>1. At(op[o].arg, "done") /\ op[op[o].arg].key = op[o].key
    BY <1>2 DEF CallOK, Reading
  <2>2. op'[op[o].arg] = op[op[o].arg]
    BY <1>2, <2>1 DEF At
  <2>3. res # "ok"
    OBVIOUS
  <2> QED
    BY <1>1, <2>1, <2>2, <2>3, NamesAssumption DEF Reading, At
<1> QED
  BY <1>3, <1>4, <1>5 DEF CallOK

LEMMA Finishes ==
  ASSUME IInv, NEW o \in Ops, InFlight(o), NEW res \in {"ok", "NoSuchKey", "failed"},
         Finish(o, res), res = "ok" => op[o].kind # "get"
  PROVE  /\ op' \in [Ops -> CallState] /\ op'[o] = Ending(o, res)
         /\ \A p \in Ops \ {o} : op'[p] = op[p]
         /\ LockOK' /\ line' \in [Keys -> Seq(Ops)] /\ inside' \subseteq Ops
         /\ CallOK(o)'
<1>1. op' \in [Ops -> CallState] /\ op'[o] = Ending(o, res) /\ \A p \in Ops \ {o} : op'[p] = op[p]
  BY EndingFields DEF IInv, TypeOK, Finish
<1>2. CallOK(o)'
  BY <1>1, Answered
<1>3. \A p \in Ops : Holding(p) => op[p].key \in Keys
  BY HasKey DEF IInv, Holding, Locked, At
<1>4. op[o].key \in Keys
  BY HasKey DEF IInv, InFlight, At
<1>5. ~ Holding(o)'
  BY <1>1, EndingFields DEF IInv, Holding, Locked
<1>6. \/ Lock!Leave(o, op[o].key)
      \/ UNCHANGED lock /\ ~ Holding(o)
  BY DEF IInv, LockOK, Finish
<1> QED
  BY <1>1, <1>2, <1>3, <1>4, <1>5, <1>6, LockKept DEF IInv

-----------------------------------------------------------------------------
(* Steps that change no file.                                              *)

\* The keys and lists stay as they are: what is left to show is about o alone.
LEMMA Quiet ==
  ASSUME IInv, NEW o \in Ops, UNCHANGED disk,
         op' \in [Ops -> CallState], \A p \in Ops \ {o} : op'[p] = op[p],
         LockOK', line' \in [Keys -> Seq(Ops)], inside' \subseteq Ops,
         versioning' \in Modes, aged' \subseteq Ops, crashes' \in 0 .. MaxCrashes,
         op[o].pc \notin {"seal", "clean", "trim", "wmeta", "rename", "done", "lost"},
         CallOK(o)'
  PROVE  IInv'
<1> USE DEF disk
<1>1. TypeOK'
  BY DEF IInv, TypeOK
<1>2. CallsOK'
  <2>1. Frame(o)
    BY DEF Frame
  <2> QED
    BY <2>1, OthersKept DEF CallsOK, At
<1>3. ListsOK'
  <2> SUFFICES ASSUME NEW k \in Keys, NEW n \in 1 .. Len(meta[k]) PROVE VersionOK(k, meta[k][n])'
    BY DEF IInv, ListsOK
  <2>1. VersionOK(k, meta[k][n]) /\ meta[k][n] \in Version
    BY DEF IInv, ListsOK, TypeOK
  <2>2. meta[k][n].by \in Ops \ {o}
    BY <2>1 DEF VersionOK, Version, At
  <2>3. op'[meta[k][n].by] = op[meta[k][n].by]
    BY <2>2
  <2> QED
    BY <2>1, <2>3 DEF VersionOK, At, Writes, Removes
<1>4. StoredOK'
  <2> SUFFICES ASSUME NEW k \in Keys, NEW i \in Ops, data[<<k, i>>] # None
               PROVE  /\ Writes(i)' /\ op'[i].key = k /\ op'[i].mode = "Enabled"
                      /\ op'[i].pc \in {"seal", "clean", "trim", "wmeta", "rename", "done", "lost"}
                      /\ At(i, "done")' => data'[<<k, i>>].bytes = op'[i].etag
    BY DEF StoredOK
  <2>1. i # o
    BY DEF IInv, StoredOK
  <2> QED
    BY <2>1 DEF IInv, StoredOK, At, Writes
<1>5. SoundOK'
  BY DEF IInv, SoundOK, Intact
<1> QED
  BY <1>1, <1>2, <1>3, <1>4, <1>5 DEF IInv

\* A call that fails, or finds nothing to do.
LEMMA QuietFinish ==
  ASSUME IInv, NEW o \in Ops, InFlight(o), UNCHANGED <<disk, env>>,
         op[o].pc \notin {"seal", "clean", "trim", "wmeta", "rename"},
         NEW res \in {"ok", "NoSuchKey", "failed"}, Finish(o, res), res = "ok" => op[o].kind # "get"
  PROVE  IInv'
<1>1. /\ op' \in [Ops -> CallState] /\ \A p \in Ops \ {o} : op'[p] = op[p]
      /\ LockOK' /\ line' \in [Keys -> Seq(Ops)] /\ inside' \subseteq Ops /\ CallOK(o)'
  BY Finishes
<1>2. op[o].pc \notin {"seal", "clean", "trim", "wmeta", "rename", "done", "lost"}
  BY DEF InFlight, Ended
<1>3. versioning' \in Modes /\ aged' \subseteq Ops /\ crashes' \in 0 .. MaxCrashes
  BY DEF IInv, TypeOK, env
<1> QED
  BY <1>1, <1>2, <1>3, Quiet

\* A call that goes on.
LEMMA QuietMove ==
  ASSUME IInv, NEW o \in Ops, UNCHANGED <<disk, env>>, NEW r \in CallState, Becomes(o, r),
         op[o].pc \notin {"seal", "clean", "trim", "wmeta", "rename", "done", "lost"},
         \/ UNCHANGED lock /\ (r.pc \in Locked <=> Holding(o)) /\ (Holding(o) => r.key = op[o].key)
         \/ \E k \in Keys : Lock!Join(o, k) /\ ~ Holding(o) /\ r.pc \notin Locked
         \/ Lock!Go(o, op[o].key) /\ op[o].key \in Keys /\ r.key = op[o].key /\ ~ Holding(o) /\ r.pc \in Locked,
         op'[o] = r /\ (\A p \in Ops \ {o} : op'[p] = op[p]) => CallOK(o)'
  PROVE  IInv'
<1>1. /\ op' \in [Ops -> CallState] /\ op'[o] = r /\ \A p \in Ops \ {o} : op'[p] = op[p]
      /\ LockOK' /\ line' \in [Keys -> Seq(Ops)] /\ inside' \subseteq Ops
  BY Moves
<1>2. versioning' \in Modes /\ aged' \subseteq Ops /\ crashes' \in 0 .. MaxCrashes
  BY DEF IInv, TypeOK, env
<1> QED
  BY <1>1, <1>2, Quiet

-----------------------------------------------------------------------------
(* Calls that are made.                                                    *)

LEMMA KnownIds ==
  ASSUME IInv, NEW k \in Keys, NEW i \in Known(k)
  PROVE  /\ i \in Ids \cup {None}
         /\ i \in Ops => At(i, "done") /\ op[i].key = k
<1>1. CASE i = None
  BY <1>1, NamesAssumption DEF Ids
<1>2. CASE i # None
  <2>1. PICK n \in 1 .. Len(meta[k]) : i = meta[k][n].id
    BY <1>2 DEF Known
  <2>2. meta[k][n] \in Version /\ VersionOK(k, meta[k][n])
    BY <2>1 DEF IInv, TypeOK, ListsOK
  <2> QED
    BY <2>1, <2>2, NamesAssumption DEF VersionOK, Version
<1> QED
  BY <1>1, <1>2

\* A call is made; when o has been idle, no lock and no version is about it.
LEMMA Starts ==
  ASSUME IInv, NEW o \in Ops, NEW r \in CallState, Made(o, r), UNCHANGED <<disk, env>>,
         r.pc \in {"queued", "ask", "scan", "head", "look"}, r.kind # "none", r.key \in Keys,
         r.res = None, r.etag = None, r.todo = <<>>,
         r.pc = "queued" => r.kind \in {"put", "tag"},
         r.pc \in {"ask", "scan"} => r.kind \in {"delete", "expire"},
         r.pc \in {"head", "look"} => r.kind \in {"get", "copy"},
         r.pc = "head" => r.kind = "get", r.kind = "get" => r.pc = "head",
         r.kind = "put" => r.body \in Bytes,
         r.kind = "expire" => r.mode \in Modes,
         r.arg \in Known(r.key),
         UNCHANGED lock \/ \E k \in Keys : Lock!Join(o, k)
  PROVE  IInv'
<1>1. At(o, "idle") /\ op[o].pc = "idle" /\ Becomes(o, r)
  BY DEF Made, At
<1>2. ~ Holding(o) /\ r.pc \notin Locked
  BY <1>1 DEF Holding, Locked
<1>3. ASSUME op'[o] = r, \A p \in Ops \ {o} : op'[p] = op[p]
      PROVE  CallOK(o)'
  <2>1. Shape(o)'
    BY <1>2, <1>3, NamesAssumption DEF Shape, At, Holding, Locked, Writes, Removes
  <2>2. Putting(o)' /\ Deleting(o)' /\ Tagging(o)' /\ Renaming(o)'
    BY <1>3 DEF Putting, Deleting, Tagging, Renaming, At
  <2>3. Reading(o)'
    <3> SUFFICES ASSUME r.kind = "get", r.arg \in Ops PROVE Reading(o)'
      BY <1>3 DEF Reading
    <3>1. At(r.arg, "done") /\ op[r.arg].key = r.key
      BY KnownIds
    <3>2. op'[r.arg] = op[r.arg]
      BY <1>1, <1>3, <3>1 DEF At
    <3> QED
      BY <1>3, <3>1, <3>2, NamesAssumption DEF Reading, At
  <2> QED
    BY <2>1, <2>2, <2>3 DEF CallOK
<1> QED
  BY <1>1, <1>2, <1>3, QuietMove

LEMMA CallsKeep ==
  ASSUME IInv, "complete" \notin Kinds, NEW o \in Ops, Call(o)
  PROVE  IInv'
<1>1. TypeOK
  BY DEF IInv
<1>2. CASE PutCall(o)
  <2>1. PICK k \in Keys, e \in Encs, b \in {o} \cup Empties :
          /\ Made(o, [Idle EXCEPT !.kind = "put", !.key = k, !.enc = e, !.body = b, !.pc = "queued"])
          /\ Lock!Join(o, k)
          /\ UNCHANGED <<disk, env>>
    BY <1>2 DEF PutCall
  <2> DEFINE r == [Idle EXCEPT !.kind = "put", !.key = k, !.enc = e, !.body = b, !.pc = "queued"]
  <2>2. /\ r.pc = "queued" /\ r.kind = "put" /\ r.key = k /\ r.body = b /\ r.arg = None
        /\ r.res = None /\ r.etag = None /\ r.todo = <<>>
    BY DEF Idle
  <2>3. b \in Bytes /\ e \in BOOLEAN
    BY EmptiesAssumption, EncsAssumption DEF Bytes
  <2>4. r \in CallState
    <3>1. "put" \in Kinds
      BY <2>1, <2>2 DEF Made
    <3> QED
      BY <2>3, <3>1, IdleType DEF CallState, Pcs
  <2>5. None \in Known(k)
    BY DEF Known
  <2> HIDE DEF r
  <2> QED
    BY <2>1, <2>2, <2>3, <2>4, <2>5, Starts DEF r
<1>3. CASE CopyCall(o)
  <2>1. PICK k \in Keys :
          /\ Made(o, [Idle EXCEPT !.kind = "copy", !.key = k, !.pc = "look"])
          /\ UNCHANGED <<disk, lock, env>>
    BY <1>3 DEF CopyCall
  <2> DEFINE r == [Idle EXCEPT !.kind = "copy", !.key = k, !.pc = "look"]
  <2>2. /\ r.pc = "look" /\ r.kind = "copy" /\ r.key = k /\ r.arg = None
        /\ r.res = None /\ r.etag = None /\ r.todo = <<>>
    BY DEF Idle
  <2>4. r \in CallState
    <3>1. "copy" \in Kinds
      BY <2>1, <2>2 DEF Made
    <3> QED
      BY <3>1, IdleType DEF CallState, Pcs
  <2>5. None \in Known(k)
    BY DEF Known
  <2> HIDE DEF r
  <2> QED
    BY <2>1, <2>2, <2>4, <2>5, Starts DEF r
<1>4. ~ CompleteCall(o)
  <2> SUFFICES ASSUME CompleteCall(o) PROVE FALSE
    OBVIOUS
  <2>1. PICK k \in Keys, e \in Encs, b \in {o} \cup Empties :
          Made(o, [Idle EXCEPT !.kind = "complete", !.key = k, !.enc = e, !.body = b,
                               !.mode = versioning, !.pc = "stream"])
    BY DEF CompleteCall
  <2> QED
    BY <2>1 DEF Made, Idle
<1>5. CASE DeleteCall(o)
  <2>1. PICK k \in Keys : \E i \in Known(k) :
          /\ Made(o, [Idle EXCEPT !.kind = "delete", !.key = k, !.arg = i, !.pc = "ask"])
          /\ UNCHANGED <<disk, lock, env>>
    BY <1>5 DEF DeleteCall
  <2>6. PICK i \in Known(k) :
          /\ Made(o, [Idle EXCEPT !.kind = "delete", !.key = k, !.arg = i, !.pc = "ask"])
          /\ UNCHANGED <<disk, lock, env>>
    BY <2>1
  <2> DEFINE r == [Idle EXCEPT !.kind = "delete", !.key = k, !.arg = i, !.pc = "ask"]
  <2>2. /\ r.pc = "ask" /\ r.kind = "delete" /\ r.key = k /\ r.arg = i
        /\ r.res = None /\ r.etag = None /\ r.todo = <<>>
    BY DEF Idle
  <2>4. r \in CallState
    <3>1. "delete" \in Kinds
      BY <2>6, <2>2 DEF Made
    <3> QED
      BY <3>1, IdleType, KnownIds DEF CallState, Pcs
  <2> HIDE DEF r
  <2> QED
    BY <2>6, <2>2, <2>4, Starts DEF r
<1>6. CASE TagCall(o)
  <2>1. PICK k \in Keys : \E i \in Known(k) :
          /\ Made(o, [Idle EXCEPT !.kind = "tag", !.key = k, !.arg = i, !.pc = "queued"])
          /\ Lock!Join(o, k)
          /\ UNCHANGED <<disk, env>>
    BY <1>6 DEF TagCall
  <2>6. PICK i \in Known(k) :
          /\ Made(o, [Idle EXCEPT !.kind = "tag", !.key = k, !.arg = i, !.pc = "queued"])
          /\ Lock!Join(o, k)
          /\ UNCHANGED <<disk, env>>
    BY <2>1
  <2> DEFINE r == [Idle EXCEPT !.kind = "tag", !.key = k, !.arg = i, !.pc = "queued"]
  <2>2. /\ r.pc = "queued" /\ r.kind = "tag" /\ r.key = k /\ r.arg = i
        /\ r.res = None /\ r.etag = None /\ r.todo = <<>>
    BY DEF Idle
  <2>4. r \in CallState
    <3>1. "tag" \in Kinds
      BY <2>6, <2>2 DEF Made
    <3> QED
      BY <3>1, IdleType, KnownIds DEF CallState, Pcs
  <2> HIDE DEF r
  <2> QED
    BY <2>6, <2>2, <2>4, Starts DEF r
<1>7. CASE GetCall(o)
  <2>1. PICK k \in Keys : \E i \in Known(k) :
          /\ Made(o, [Idle EXCEPT !.kind = "get", !.key = k, !.arg = i, !.pc = "head"])
          /\ UNCHANGED <<disk, lock, env>>
    BY <1>7 DEF GetCall
  <2>6. PICK i \in Known(k) :
          /\ Made(o, [Idle EXCEPT !.kind = "get", !.key = k, !.arg = i, !.pc = "head"])
          /\ UNCHANGED <<disk, lock, env>>
    BY <2>1
  <2> DEFINE r == [Idle EXCEPT !.kind = "get", !.key = k, !.arg = i, !.pc = "head"]
  <2>2. /\ r.pc = "head" /\ r.kind = "get" /\ r.key = k /\ r.arg = i
        /\ r.res = None /\ r.etag = None /\ r.todo = <<>>
    BY DEF Idle
  <2>4. r \in CallState
    <3>1. "get" \in Kinds
      BY <2>6, <2>2 DEF Made
    <3> QED
      BY <3>1, IdleType, KnownIds DEF CallState, Pcs
  <2> HIDE DEF r
  <2> QED
    BY <2>6, <2>2, <2>4, Starts DEF r
<1>8. CASE ExpireCall(o)
  <2>1. PICK k \in Keys :
          /\ Made(o, [Idle EXCEPT !.kind = "expire", !.key = k, !.mode = versioning, !.pc = "scan"])
          /\ UNCHANGED <<disk, lock, env>>
    BY <1>8 DEF ExpireCall
  <2> DEFINE r == [Idle EXCEPT !.kind = "expire", !.key = k, !.mode = versioning, !.pc = "scan"]
  <2>2. /\ r.pc = "scan" /\ r.kind = "expire" /\ r.key = k /\ r.arg = None /\ r.mode = versioning
        /\ r.res = None /\ r.etag = None /\ r.todo = <<>>
    BY DEF Idle
  <2>3. versioning \in Modes
    BY <1>1 DEF TypeOK
  <2>4. r \in CallState
    <3>1. "expire" \in Kinds
      BY <2>1, <2>2 DEF Made
    <3> QED
      BY <2>3, <3>1, IdleType DEF CallState, Pcs
  <2>5. None \in Known(k)
    BY DEF Known
  <2> HIDE DEF r
  <2> QED
    BY <2>1, <2>2, <2>3, <2>4, <2>5, Starts DEF r
<1> QED
  BY <1>2, <1>3, <1>4, <1>5, <1>6, <1>7, <1>8 DEF Call

-----------------------------------------------------------------------------
(* Lists of versions.                                                      *)

\* A list with one more element in front.
LEMMA PrependSeq ==
  ASSUME NEW S, NEW s \in Seq(S), NEW v \in S
  PROVE  /\ <<v>> \o s \in Seq(S)
         /\ Len(<<v>> \o s) = Len(s) + 1
         /\ (<<v>> \o s)[1] = v
         /\ \A i \in 2 .. Len(s) + 1 : (<<v>> \o s)[i] = s[i - 1]
OBVIOUS

\* A list without its i-th element.
LEMMA WithoutSeq ==
  ASSUME NEW S, NEW s \in Seq(S), NEW i \in 1 .. Len(s)
  PROVE  /\ Without(s, i) \in Seq(S)
         /\ Len(Without(s, i)) = Len(s) - 1
         /\ \A j \in 1 .. Len(s) - 1 : Without(s, i)[j] = IF j < i THEN s[j] ELSE s[j + 1]
<1> DEFINE a == SubSeq(s, 1, i - 1)
           b == SubSeq(s, i + 1, Len(s))
<1>1. /\ a \in Seq(S) /\ Len(a) = i - 1
      /\ \A j \in 1 .. i - 1 : a[j] = s[j]
  OBVIOUS
<1>2. /\ b \in Seq(S) /\ Len(b) = Len(s) - i
      /\ \A j \in 1 .. Len(s) - i : b[j] = s[i + j]
  OBVIOUS
<1>3. Without(s, i) = a \o b
  BY DEF Without
<1> HIDE DEF a, b
<1>4. /\ a \o b \in Seq(S) /\ Len(a \o b) = Len(s) - 1
      /\ \A j \in 1 .. Len(s) - 1 : (a \o b)[j] = IF j < i THEN s[j] ELSE s[j + 1]
  <2>1. a \o b \in Seq(S) /\ Len(a \o b) = Len(s) - 1
    BY <1>1, <1>2
  <2>2. ASSUME NEW j \in 1 .. Len(s) - 1, j < i
        PROVE  (a \o b)[j] = s[j]
    BY <1>1, <1>2, <2>2
  <2>3. ASSUME NEW j \in 1 .. Len(s) - 1, ~ j < i
        PROVE  (a \o b)[j] = s[j + 1]
    <3>1. (a \o b)[j] = b[j - (i - 1)]
      BY <1>1, <1>2, <2>3
    <3> QED
      BY <1>2, <2>3, <3>1
  <2> QED
    BY <2>1, <2>2, <2>3
<1> QED
  BY <1>3, <1>4

\* Find answers the place of the version asked for, or 0.
LEMMA FindPlace ==
  ASSUME NEW s \in Seq(Version), NEW i, UniqueIds(s)
  PROVE  /\ Find(s, i) \in 0 .. Len(s)
         /\ i # None /\ Find(s, i) # 0 => s[Find(s, i)].id = i
         /\ i # None /\ (\E n \in 1 .. Len(s) : s[n].id = i) => Find(s, i) # 0
         /\ i = None => Find(s, i) = IF s = <<>> THEN 0 ELSE 1
<1>1. CASE i = None
  BY <1>1 DEF Find
<1>2. CASE i # None /\ ~ \E n \in 1 .. Len(s) : s[n].id = i
  BY <1>2 DEF Find
<1>3. CASE i # None /\ \E n \in 1 .. Len(s) : s[n].id = i
  <2>1. \E n \in 1 .. Len(s) : s[n].id = i /\ \A m \in 1 .. n - 1 : s[m].id # i
    BY <1>3 DEF UniqueIds
  <2>2. LET p == CHOOSE n \in 1 .. Len(s) : s[n].id = i /\ \A m \in 1 .. n - 1 : s[m].id # i
        IN  p \in 1 .. Len(s) /\ s[p].id = i
    BY <2>1
  <2>3. Find(s, i) \in 1 .. Len(s) /\ s[Find(s, i)].id = i
    BY <1>3, <2>2 DEF Find
  <2> QED
    BY <1>3, <2>3
<1> QED
  BY <1>1, <1>2, <1>3

-----------------------------------------------------------------------------
(* Waiting for the lock, and reading with it.                              *)

LEMMA Updated ==
  ASSUME NEW s \in CallState, NEW pc \in Pcs
  PROVE  /\ [s EXCEPT !.pc = pc] \in CallState
         /\ \A e \in Bytes \cup {None} : [s EXCEPT !.etag = e, !.pc = pc] \in CallState
         /\ \A i \in Ids \cup {None} : [s EXCEPT !.arg = i, !.pc = pc] \in CallState
         /\ \A l \in Seq(Version) : [s EXCEPT !.om = l, !.pc = pc] \in CallState
         /\ \A l \in Seq(Version) : [s EXCEPT !.todo = l, !.pc = pc] \in CallState
         /\ \A l, m \in Seq(Version) : [s EXCEPT !.om = l, !.todo = m, !.pc = pc] \in CallState
BY DEF CallState

LEMMA OpType ==
  ASSUME IInv, NEW o \in Ops
  PROVE  TypeOK /\ CallOK(o) /\ op[o] \in CallState
BY DEF IInv, CallsOK, TypeOK

LEMMA MetaType ==
  ASSUME IInv, NEW k \in Keys
  PROVE  /\ meta[k] \in Seq(Version) /\ Len(meta[k]) \in Nat /\ UniqueIds(meta[k])
         /\ \A n \in 1 .. Len(meta[k]) : meta[k][n] \in Version /\ VersionOK(k, meta[k][n])
BY DEF IInv, TypeOK, ListsOK

LEMMA AcquireKeeps == ASSUME IInv, NEW o \in Ops, Acquire(o) PROVE IInv'
<1> DEFINE r == [op[o] EXCEPT !.pc = "held"]
<1>1. TypeOK /\ CallOK(o) /\ op[o] \in CallState
  BY OpType
<1>2. op[o].pc = "queued" /\ ~ Holding(o) /\ op[o].key \in Keys /\ op[o].kind # "get"
  BY <1>1 DEF Acquire, At, Holding, Locked, CallOK, Shape
<1>3. r \in CallState /\ r.pc = "held" /\ r.key = op[o].key
  BY <1>1 DEF CallState, Pcs
<1>4. ASSUME op'[o] = r
      PROVE  CallOK(o)'
  <2>1. Shape(o)'
    BY <1>1, <1>2, <1>4 DEF CallState, CallOK, Shape, At, Holding, Locked, Writes, Removes
  <2>2. Putting(o)' /\ Deleting(o)' /\ Tagging(o)' /\ Renaming(o)' /\ Reading(o)'
    BY <1>1, <1>2, <1>4 DEF CallState, Putting, Deleting, Tagging, Renaming, Reading, At
  <2> QED
    BY <2>1, <2>2 DEF CallOK
<1>5. "held" \in Locked
  BY DEF Locked
<1> QED
  BY <1>2, <1>3, <1>4, <1>5, QuietMove DEF Acquire

LEMMA HangUpKeeps == ASSUME IInv, NEW o \in Ops, HangUp(o) PROVE IInv'
<1> DEFINE r == [op[o] EXCEPT !.gone = TRUE]
<1>1. TypeOK /\ CallOK(o) /\ op[o] \in CallState
  BY OpType
<1>2. op[o].pc \in {"queued", "held"} /\ op[o].kind = "put"
  BY DEF HangUp
<1>3. r \in CallState /\ r.pc = op[o].pc /\ r.key = op[o].key
  BY <1>1 DEF CallState, Pcs
<1>4. ASSUME op'[o] = r
      PROVE  CallOK(o)'
  <2>1. Shape(o)'
    BY <1>1, <1>2, <1>4 DEF CallState, CallOK, Shape, At, Holding, Locked, Writes, Removes
  <2>2. Putting(o)' /\ Deleting(o)' /\ Tagging(o)' /\ Renaming(o)' /\ Reading(o)'
    BY <1>1, <1>2, <1>4 DEF CallState, Putting, Deleting, Tagging, Renaming, Reading, At, Removes
  <2> QED
    BY <2>1, <2>2 DEF CallOK
<1> QED
  BY <1>2, <1>3, <1>4, QuietMove DEF HangUp, Holding

LEMMA StreamFailKeeps == ASSUME IInv, NEW o \in Ops, StreamFail(o) PROVE IInv'
BY QuietFinish DEF StreamFail, At, InFlight, Ended

LEMMA HashKeeps == ASSUME IInv, NEW o \in Ops, Hash(o) PROVE IInv'
<1>1. TypeOK /\ CallOK(o) /\ op[o] \in CallState
  BY OpType
<1>2. /\ op[o].pc = "hash" /\ Holding(o) /\ Writes(o) /\ op[o].key \in Keys
      /\ op[o].kind \in {"put", "copy"} /\ op[o].body \in Bytes
  BY <1>1 DEF Hash, At, Holding, Locked, CallOK, Shape, Writes
<1>3. tmp[OwnFile(o)] = [bytes |-> op[o].body, by |-> None]
  BY <1>1, <1>2 DEF CallOK, Putting
<1>4. CASE tmp[OwnFile(o)] = None
  <2>1. Finish(o, "failed") /\ UNCHANGED <<disk, env>>
    BY <1>2, <1>4 DEF Hash
  <2> QED
    BY <1>2, <2>1, QuietFinish DEF InFlight, Ended
<1>5. CASE tmp[OwnFile(o)] # None
  <2> DEFINE r == [op[o] EXCEPT !.etag = tmp[OwnFile(o)].bytes, !.pc = "read"]
  <2>1. Becomes(o, r) /\ UNCHANGED lock /\ UNCHANGED <<disk, env>>
    BY <1>2, <1>5 DEF Hash
  <2>2. r \in CallState /\ r.pc = "read" /\ r.key = op[o].key /\ r.etag = op[o].body
    <3>1. tmp[OwnFile(o)].bytes = op[o].body /\ "read" \in Pcs
      BY <1>3 DEF Pcs
    <3>2. r \in CallState
      BY <1>1, <1>2, <3>1, Updated
    <3> QED
      BY <1>1, <3>1, <3>2 DEF CallState
  <2>3. ASSUME op'[o] = r
        PROVE  CallOK(o)'
    <3>1. Shape(o)'
      BY <1>1, <1>2, <2>3 DEF CallState, CallOK, Shape, At, Holding, Locked, Writes, Removes
    <3>2. OwnFile(o)' = OwnFile(o)
      BY <1>1, <2>3 DEF CallState, OwnFile, File
    <3>3. Putting(o)'
      BY <1>1, <1>3, <2>1, <2>2, <2>3, <3>2 DEF CallState, Putting, At, disk
    <3>4. Deleting(o)' /\ Tagging(o)' /\ Renaming(o)' /\ Reading(o)'
      BY <1>1, <1>2, <2>2, <2>3 DEF CallState, Deleting, Tagging, Renaming, Reading, At
    <3> QED
      BY <3>1, <3>3, <3>4 DEF CallOK
  <2>4. "read" \in Locked
    BY DEF Locked
  <2> HIDE DEF r
  <2> QED
    BY <1>2, <2>1, <2>2, <2>3, <2>4, QuietMove
<1> QED
  BY <1>4, <1>5

LEMMA ReadMetaKeeps == ASSUME IInv, NEW o \in Ops, ReadMeta(o) PROVE IInv'
<1>1. TypeOK /\ CallOK(o) /\ op[o] \in CallState
  BY OpType
<1>2. /\ op[o].pc = "read" /\ Holding(o) /\ Writes(o) /\ op[o].key \in Keys
      /\ op[o].kind \in {"put", "copy"} /\ op[o].body \in Bytes
  BY <1>1 DEF ReadMeta, At, Holding, Locked, CallOK, Shape, Writes
<1> DEFINE om  == meta[op[o].key]
           old == IF op[o].mode = "Enabled" THEN <<>> ELSE om
           pc  == IF old = <<>> THEN "swap" ELSE "drop"
           r   == [op[o] EXCEPT !.om = om, !.todo = old, !.pc = pc]
<1>3. Becomes(o, r) /\ UNCHANGED <<disk, lock, env>>
  BY DEF ReadMeta
<1>4. om \in Seq(Version) /\ old \in Seq(Version)
  BY <1>2, MetaType
<1>5. /\ r \in CallState /\ r.pc \in {"swap", "drop"} /\ r.key = op[o].key /\ r.om = om /\ r.todo = old
      /\ r.pc = "drop" => old # <<>> /\ op[o].mode # "Enabled"
      /\ r.kind = op[o].kind /\ r.body = op[o].body /\ r.etag = op[o].etag /\ r.mode = op[o].mode
      /\ r.arg = op[o].arg /\ r.res = op[o].res
  <2>1. pc \in Pcs /\ pc \in {"swap", "drop"} /\ (pc = "drop" => old # <<>> /\ op[o].mode # "Enabled")
    BY DEF Pcs
  <2> HIDE DEF pc, old, om
  <2>2. r \in CallState
    BY <1>1, <1>4, <2>1, Updated
  <2> QED
    BY <1>1, <2>1, <2>2 DEF CallState
<1> HIDE DEF r
<1>6. ASSUME op'[o] = r
      PROVE  CallOK(o)'
  <2>1. Shape(o)'
    BY <1>1, <1>2, <1>5, <1>6 DEF CallOK, Shape, At, Holding, Locked, Writes, Removes
  <2>2. OwnFile(o)' = OwnFile(o)
    BY <1>5, <1>6 DEF OwnFile, File
  <2>3. Putting(o)'
    BY <1>1, <1>2, <1>3, <1>5, <1>6, <2>2 DEF CallOK, Putting, At, disk
  <2>4. Deleting(o)' /\ Tagging(o)' /\ Renaming(o)' /\ Reading(o)'
    BY <1>2, <1>5, <1>6 DEF Deleting, Tagging, Renaming, Reading, At, Removes
  <2> QED
    BY <2>1, <2>3, <2>4 DEF CallOK
<1>7. r.pc \in Locked
  BY <1>5 DEF Locked
<1> QED
  BY <1>2, <1>3, <1>5, <1>6, <1>7, QuietMove

LEMMA DeleteAskKeeps == ASSUME IInv, NEW o \in Ops, DeleteAsk(o) PROVE IInv'
<1> DEFINE r == [op[o] EXCEPT !.mode = versioning, !.pc = "queued"]
<1>1. TypeOK /\ CallOK(o) /\ op[o] \in CallState
  BY OpType
<1>2. op[o].pc = "ask" /\ ~ Holding(o) /\ op[o].key \in Keys /\ op[o].kind \in {"delete", "expire"}
  BY <1>1 DEF DeleteAsk, At, Holding, Locked, CallOK, Shape, Removes
<1>3. r \in CallState /\ r.pc = "queued" /\ r.key = op[o].key /\ r.mode \in Modes
  BY <1>1 DEF TypeOK, CallState, Pcs
<1>4. ASSUME op'[o] = r
      PROVE  CallOK(o)'
  <2>1. Shape(o)'
    BY <1>1, <1>2, <1>3, <1>4 DEF CallState, CallOK, Shape, At, Holding, Locked, Writes, Removes
  <2>2. Putting(o)' /\ Deleting(o)' /\ Tagging(o)' /\ Renaming(o)' /\ Reading(o)'
    BY <1>1, <1>2, <1>3, <1>4 DEF CallState, Putting, Deleting, Tagging, Renaming, Reading, At
  <2> QED
    BY <2>1, <2>2 DEF CallOK
<1>5. "queued" \notin Locked
  BY DEF Locked
<1> QED
  BY <1>2, <1>3, <1>4, <1>5, QuietMove DEF DeleteAsk

LEMMA ExpireScanKeeps == ASSUME IInv, NEW o \in Ops, ExpireScan(o) PROVE IInv'
<1>1. TypeOK /\ CallOK(o) /\ op[o] \in CallState
  BY OpType
<1>2. op[o].pc = "scan" /\ ~ Holding(o) /\ op[o].key \in Keys /\ op[o].kind \in {"delete", "expire"}
  BY <1>1 DEF ExpireScan, At, Holding, Locked, CallOK, Shape, Removes
<1> DEFINE om == meta[op[o].key]
           i  == IF op[o].mode = "Enabled" THEN Head(om).id ELSE None
           r  == [op[o] EXCEPT !.arg = i, !.pc = "ask"]
<1>3. CASE om # <<>> /\ ~ Head(om).del /\ Head(om).by \in aged
  <2>1. Becomes(o, r) /\ UNCHANGED <<disk, lock, env>>
    BY <1>3 DEF ExpireScan
  <2>2. i \in Ids \cup {None}
    <3>1. Head(om) \in Version
      BY <1>2, <1>3, MetaType
    <3> QED
      BY <3>1 DEF Version
  <2>3. /\ r \in CallState /\ r.pc = "ask" /\ r.key = op[o].key /\ r.kind = op[o].kind /\ r.mode = op[o].mode
        /\ r.res = op[o].res
    <3>1. "ask" \in Pcs
      BY DEF Pcs
    <3> HIDE DEF i
    <3>2. r \in CallState
      BY <1>1, <2>2, <3>1, Updated
    <3> QED
      BY <1>1, <3>2 DEF CallState
  <2> HIDE DEF r
  <2>4. ASSUME op'[o] = r
        PROVE  CallOK(o)'
    <3>1. Shape(o)'
      BY <1>1, <1>2, <2>3, <2>4 DEF CallOK, Shape, At, Holding, Locked, Writes, Removes
    <3>2. Putting(o)' /\ Deleting(o)' /\ Tagging(o)' /\ Renaming(o)' /\ Reading(o)'
      BY <1>2, <2>3, <2>4 DEF Putting, Deleting, Tagging, Renaming, Reading, At
    <3> QED
      BY <3>1, <3>2 DEF CallOK
  <2>5. "ask" \notin Locked
    BY DEF Locked
  <2> QED
    BY <1>2, <2>1, <2>3, <2>4, <2>5, QuietMove
<1>4. CASE ~ (om # <<>> /\ ~ Head(om).del /\ Head(om).by \in aged)
  <2>1. Becomes(o, Ending(o, "ok")) /\ UNCHANGED <<disk, lock, env>>
    BY <1>4 DEF ExpireScan
  <2>2. o \notin inside
    BY <1>2 DEF IInv, LockOK
  <2>3. Finish(o, "ok")
    BY <2>1, <2>2 DEF Finish, Becomes
  <2> QED
    BY <1>2, <2>1, <2>3, QuietFinish DEF InFlight, Ended
<1> QED
  BY <1>3, <1>4

LEMMA TaggedSeq ==
  ASSUME NEW s \in Seq(Version), NEW n \in 1 .. Len(s), NEW t \in Ops
  PROVE  LET u == [s EXCEPT ![n].tag = t]
         IN  /\ u \in Seq(Version) /\ Len(u) = Len(s)
             /\ \A j \in 1 .. Len(s) :
                  /\ u[j].id = s[j].id /\ u[j].by = s[j].by /\ u[j].etag = s[j].etag
                  /\ u[j].enc = s[j].enc /\ u[j].del = s[j].del
<1> DEFINE e == [s[n] EXCEPT !.tag = t]
<1>1. s[n] \in Version /\ e \in Version
  <2>1. s[n] \in Version
    OBVIOUS
  <2> QED
    BY <2>1 DEF Version
<1>2. /\ e.id = s[n].id /\ e.by = s[n].by /\ e.etag = s[n].etag /\ e.enc = s[n].enc /\ e.del = s[n].del
  BY <1>1 DEF Version
<1>3. [s EXCEPT ![n].tag = t] = [s EXCEPT ![n] = e]
  OBVIOUS
<1> HIDE DEF e
<1> QED
  BY <1>1, <1>2, <1>3, ExceptSeq

LEMMA TagReadKeeps == ASSUME IInv, NEW o \in Ops, TagRead(o) PROVE IInv'
<1>1. TypeOK /\ CallOK(o) /\ op[o] \in CallState
  BY OpType
<1>2. op[o].pc = "held" /\ Holding(o) /\ op[o].key \in Keys /\ op[o].kind = "tag"
  BY <1>1 DEF TagRead, At, Holding, Locked, CallOK, Shape
<1> DEFINE om == meta[op[o].key]
           n  == Find(om, op[o].arg)
<1>3. om \in Seq(Version) /\ n \in 0 .. Len(om)
  BY <1>2, MetaType, FindPlace
<1>4. CASE n = 0 \/ (n # 0 /\ om[n].del)
  <2>1. Finish(o, "NoSuchKey") /\ UNCHANGED <<disk, env>>
    BY <1>4 DEF TagRead
  <2> QED
    BY <1>2, <2>1, QuietFinish DEF InFlight, Ended
<1>5. CASE n # 0 /\ ~ om[n].del
  <2> DEFINE new == [om EXCEPT ![n].tag = o]
             r   == [op[o] EXCEPT !.om = new, !.pc = "wmeta"]
  <2>1. Becomes(o, r) /\ UNCHANGED <<disk, lock, env>>
    BY <1>5 DEF TagRead
  <2>2. new \in Seq(Version)
    BY <1>3, <1>5, TaggedSeq
  <2>3. /\ r \in CallState /\ r.pc = "wmeta" /\ r.key = op[o].key /\ r.kind = "tag" /\ r.om = new
        /\ r.res = op[o].res
    <3>1. "wmeta" \in Pcs
      BY DEF Pcs
    <3> HIDE DEF new
    <3>2. r \in CallState
      BY <1>1, <2>2, <3>1, Updated
    <3> QED
      BY <1>1, <1>2, <3>2 DEF CallState
  <2> HIDE DEF r
  <2>4. ASSUME op'[o] = r
        PROVE  CallOK(o)'
    <3>1. Shape(o)'
      BY <1>1, <1>2, <2>3, <2>4 DEF CallOK, Shape, At, Holding, Locked, Writes, Removes
    <3>2. Putting(o)' /\ Deleting(o)' /\ Renaming(o)' /\ Reading(o)'
      BY <1>2, <2>3, <2>4 DEF Putting, Deleting, Renaming, Reading, At, Writes, Removes
    <3>3. Tagging(o)'
      <4>1. PICK m \in 1 .. Len(om) : m = n
        BY <1>3, <1>5
      <4>2. ~ om[m].del /\ r.om = [om EXCEPT ![m].tag = o]
        BY <1>5, <2>3, <4>1
      <4>3. meta' = meta
        BY <2>1 DEF disk
      <4>4. op'[o].key = op[o].key /\ op'[o].om = r.om
        BY <2>3, <2>4
      <4>5. /\ m \in 1 .. Len(meta'[op'[o].key]) /\ ~ meta'[op'[o].key][m].del
            /\ op'[o].om = [meta'[op'[o].key] EXCEPT ![m].tag = o]
        BY <4>2, <4>3, <4>4
      <4> QED
        BY <4>5 DEF Tagging
    <3> QED
      BY <3>1, <3>2, <3>3 DEF CallOK
  <2>5. "wmeta" \in Locked
    BY DEF Locked
  <2> QED
    BY <1>2, <2>1, <2>3, <2>4, <2>5, QuietMove
<1> QED
  BY <1>4, <1>5

LEMMA MarkerType == ASSUME NEW o \in Ops PROVE Marker(o) \in Version
BY DEF Marker, Version, Ids

LEMMA DeleteReadKeeps == ASSUME IInv, NEW o \in Ops, DeleteRead(o) PROVE IInv'
<1>1. TypeOK /\ CallOK(o) /\ op[o] \in CallState
  BY OpType
<1>2. /\ op[o].pc = "held" /\ Holding(o) /\ op[o].key \in Keys
      /\ op[o].kind \in {"delete", "expire"} /\ op[o].mode \in Modes
  BY <1>1 DEF DeleteRead, At, Holding, Locked, CallOK, Shape, Removes
<1> DEFINE om == meta[op[o].key]
           n  == Find(om, op[o].arg)
<1>3. om \in Seq(Version) /\ n \in 0 .. Len(om) /\ (op[o].arg # None /\ n # 0 => om[n].id = op[o].arg)
  BY <1>2, MetaType, FindPlace
<1>4. CASE Finish(o, "ok") \/ Finish(o, "NoSuchKey")
  <2>1. UNCHANGED <<disk, env>>
    BY DEF DeleteRead
  <2> QED
    BY <1>2, <1>4, <2>1, QuietFinish DEF InFlight, Ended
<1>5. ASSUME NEW s \in Seq(Version), NEW todo \in Seq(Version), NEW pc \in {"wmeta", "drop"},
             NEW r \in CallState,
             r.pc = pc, r.key = op[o].key, r.kind = op[o].kind, r.mode = op[o].mode, r.arg = op[o].arg,
             r.om = s, r.todo = todo, r.res = op[o].res,
             Becomes(o, r), UNCHANGED lock, pc = "drop" => todo # <<>>,
             \/ pc = "wmeta" /\ op[o].mode = "Enabled" /\ (om = <<>> \/ op[o].arg = None) /\ s = <<Marker(o)>> \o om
             \/ pc = "drop" /\ n # 0 /\ op[o].arg # None /\ s = Without(om, n) /\ todo = <<om[n]>>
             \/ pc = "drop" /\ op[o].arg = None /\ op[o].mode # "Enabled" /\ s = <<>>
      PROVE  IInv'
  <2>1. UNCHANGED <<disk, env>> /\ meta' = meta
    BY DEF DeleteRead, disk
  <2>2. ASSUME op'[o] = r
        PROVE  CallOK(o)'
    <3>1. Shape(o)'
      BY <1>1, <1>2, <1>5, <2>2 DEF CallOK, Shape, At, Holding, Locked, Writes, Removes
    <3>2. Putting(o)' /\ Tagging(o)' /\ Renaming(o)' /\ Reading(o)'
      BY <1>2, <1>5, <2>2 DEF Putting, Tagging, Renaming, Reading, At, Writes
    <3>3. Deleting(o)'
      <4>1. CASE pc = "wmeta"
        BY <1>5, <2>1, <2>2, <4>1 DEF Deleting, Marking, Marker
      <4>2. CASE pc = "drop" /\ n # 0 /\ op[o].arg # None /\ s = Without(om, n) /\ todo = <<om[n]>>
        <5>1. PICK m \in 1 .. Len(om) : m = n
          BY <1>3, <4>2
        <5>2. om[m].id = op[o].arg /\ s = Without(om, m) /\ todo = <<om[m]>>
          BY <1>3, <4>2, <5>1
        <5>3. RemovingAt(o, m)'
          BY <1>5, <2>1, <2>2, <4>2, <5>2 DEF RemovingAt, At
        <5>4. m \in 1 .. Len(meta'[op'[o].key])
          BY <1>5, <2>1, <2>2
        <5> QED
          BY <5>3, <5>4 DEF Deleting, Removing
      <4>3. CASE pc = "drop" /\ op[o].arg = None /\ op[o].mode # "Enabled" /\ s = <<>>
        BY <1>5, <2>2, <4>3 DEF Deleting, Clearing
      <4> QED
        BY <1>5, <4>1, <4>2, <4>3
    <3> QED
      BY <3>1, <3>2, <3>3 DEF CallOK
  <2>3. r.pc \in Locked
    BY <1>5 DEF Locked
  <2> QED
    BY <1>2, <1>5, <2>1, <2>2, <2>3, QuietMove
<1>6. CASE op[o].mode = "Enabled" /\ (om = <<>> \/ op[o].arg = None) /\ UNCHANGED lock
           /\ Becomes(o, [op[o] EXCEPT !.om = <<Marker(o)>> \o om, !.pc = "wmeta"])
  <2> DEFINE s == <<Marker(o)>> \o om
             r == [op[o] EXCEPT !.om = s, !.pc = "wmeta"]
  <2>1. s \in Seq(Version)
    BY <1>3, MarkerType, PrependSeq
  <2>2. s = <<Marker(o)>> \o om /\ Becomes(o, r)
    BY <1>6
  <2> HIDE DEF s
  <2>3. r \in CallState
    BY <1>1, <2>1, Updated DEF Pcs
  <2>4. /\ r.pc = "wmeta" /\ r.key = op[o].key /\ r.kind = op[o].kind /\ r.mode = op[o].mode /\ r.arg = op[o].arg
        /\ r.om = s /\ r.todo = op[o].todo /\ r.res = op[o].res /\ r.todo \in Seq(Version)
    BY <1>1 DEF CallState
  <2> HIDE DEF r
  <2> QED
    BY <1>5, <1>6, <2>1, <2>2, <2>3, <2>4
<1>7. CASE om # <<>> /\ op[o].arg # None /\ n # 0 /\ UNCHANGED lock
           /\ Becomes(o, [op[o] EXCEPT !.om = Without(om, n), !.todo = <<om[n]>>, !.pc = "drop"])
  <2> DEFINE s == Without(om, n)
             t == <<om[n]>>
             r == [op[o] EXCEPT !.om = s, !.todo = t, !.pc = "drop"]
  <2>1. s \in Seq(Version) /\ t \in Seq(Version) /\ t # <<>>
    BY <1>3, <1>7, WithoutSeq
  <2>2. s = Without(om, n) /\ t = <<om[n]>> /\ Becomes(o, r)
    BY <1>7
  <2> HIDE DEF s, t
  <2>3. r \in CallState
    BY <1>1, <2>1, Updated DEF Pcs
  <2>4. /\ r.pc = "drop" /\ r.key = op[o].key /\ r.kind = op[o].kind /\ r.mode = op[o].mode /\ r.arg = op[o].arg
        /\ r.om = s /\ r.todo = t /\ r.res = op[o].res
    BY <1>1 DEF CallState
  <2> HIDE DEF r
  <2> QED
    BY <1>5, <1>7, <2>1, <2>2, <2>3, <2>4
<1>8. CASE om # <<>> /\ op[o].arg = None /\ op[o].mode # "Enabled" /\ UNCHANGED lock
           /\ Becomes(o, [op[o] EXCEPT !.om = <<>>, !.todo = om, !.pc = "drop"])
  <2> DEFINE s == <<>>
             t == om
             r == [op[o] EXCEPT !.om = s, !.todo = t, !.pc = "drop"]
  <2>1. s \in Seq(Version) /\ t \in Seq(Version) /\ t # <<>>
    BY <1>3, <1>8
  <2>2. s = <<>> /\ Becomes(o, r)
    BY <1>8
  <2> HIDE DEF s, t
  <2>3. r \in CallState
    BY <1>1, <2>1, Updated DEF Pcs
  <2>4. /\ r.pc = "drop" /\ r.key = op[o].key /\ r.kind = op[o].kind /\ r.mode = op[o].mode /\ r.arg = op[o].arg
        /\ r.om = s /\ r.todo = t /\ r.res = op[o].res
    BY <1>1 DEF CallState
  <2> HIDE DEF r
  <2> QED
    BY <1>5, <1>8, <2>1, <2>2, <2>3, <2>4
<1> QED
  BY <1>4, <1>6, <1>7, <1>8 DEF DeleteRead

-----------------------------------------------------------------------------
(* The reads.                                                              *)

\* What a lookup finds.
LEMMA SeenPlace ==
  ASSUME IInv, NEW o \in Ops, op[o].key \in Keys, NEW v \in Seen(o)
  PROVE  /\ v \in Version /\ ~ v.del /\ VersionOK(op[o].key, v)
         /\ op[o].arg # None => v.id = op[o].arg
<1> DEFINE om == meta[op[o].key]
           n  == Find(om, op[o].arg)
<1>1. om \in Seq(Version) /\ n \in 0 .. Len(om) /\ (op[o].arg # None /\ n # 0 => om[n].id = op[o].arg)
  BY MetaType, FindPlace
<1>2. n # 0 /\ v = om[n] /\ ~ om[n].del
  BY DEF Seen
<1> QED
  BY <1>1, <1>2, MetaType

\* ... of a version by its id: the one that the call wrote.
LEMMA SeenOwn ==
  ASSUME IInv, NEW o \in Ops, op[o].key \in Keys, NEW v \in Seen(o), op[o].arg \in Ops
  PROVE  v.id = op[o].arg /\ Writes(op[o].arg) /\ v.etag = op[op[o].arg].etag
<1>1. v \in Version /\ ~ v.del /\ VersionOK(op[o].key, v) /\ v.id = op[o].arg
  BY SeenPlace, NamesAssumption DEF Ids
<1>2. v.by = op[o].arg
  BY <1>1, NamesAssumption DEF VersionOK
<1> QED
  BY <1>1, <1>2 DEF VersionOK

LEMMA GetHeadKeeps == ASSUME IInv, NEW o \in Ops, GetHead(o) PROVE IInv'
<1>1. TypeOK /\ CallOK(o) /\ op[o] \in CallState
  BY OpType
<1>2. op[o].pc = "head" /\ ~ Holding(o) /\ op[o].key \in Keys /\ op[o].kind = "get"
  BY <1>1 DEF GetHead, At, Holding, Locked, CallOK, Shape
<1>3. UNCHANGED <<disk, env>>
  BY DEF GetHead
<1>4. CASE Finish(o, "NoSuchKey")
  BY <1>2, <1>3, <1>4, QuietFinish DEF InFlight, Ended
<1>5. CASE \E v \in Seen(o) : Becomes(o, [op[o] EXCEPT !.etag = v.etag, !.pc = "look"]) /\ UNCHANGED lock
  <2>1. PICK v \in Seen(o) : Becomes(o, [op[o] EXCEPT !.etag = v.etag, !.pc = "look"]) /\ UNCHANGED lock
    BY <1>5
  <2> DEFINE e == v.etag
             r == [op[o] EXCEPT !.etag = e, !.pc = "look"]
  <2>2. v \in Version /\ (op[o].arg \in Ops => Writes(op[o].arg) /\ v.etag = op[op[o].arg].etag)
    BY <1>2, SeenPlace, SeenOwn
  <2>3. e \in Bytes \cup {None} /\ (op[o].arg \in Ops => Writes(op[o].arg) /\ e = op[op[o].arg].etag)
    BY <2>2 DEF Version
  <2>4. Becomes(o, r) /\ UNCHANGED lock
    BY <2>1
  <2> HIDE DEF e
  <2>5. r \in CallState
    BY <1>1, <2>3, Updated DEF Pcs
  <2>6. /\ r.pc = "look" /\ r.key = op[o].key /\ r.kind = "get" /\ r.arg = op[o].arg /\ r.etag = e
        /\ r.res = op[o].res
    BY <1>1, <1>2 DEF CallState
  <2> HIDE DEF r
  <2>7. ASSUME op'[o] = r, \A p \in Ops \ {o} : op'[p] = op[p]
        PROVE  CallOK(o)'
    <3>1. Shape(o)'
      BY <1>1, <1>2, <2>6, <2>7 DEF CallOK, Shape, At, Holding, Locked, Writes, Removes
    <3>2. Putting(o)' /\ Deleting(o)' /\ Tagging(o)' /\ Renaming(o)'
      BY <2>6, <2>7 DEF Putting, Deleting, Tagging, Renaming, At, Removes
    <3>3. Reading(o)'
      <4> SUFFICES ASSUME op[o].arg \in Ops PROVE Reading(o)'
        BY <2>6, <2>7 DEF Reading
      <4>1. At(op[o].arg, "done") /\ op[op[o].arg].key = op[o].key
        BY <1>1, <1>2 DEF CallOK, Reading
      <4>2. op'[op[o].arg] = op[op[o].arg]
        BY <1>2, <2>7, <4>1 DEF At
      <4>3. op[o].res # "ok"
        BY <1>1, <1>2 DEF CallOK, Shape, At
      <4> QED
        BY <2>3, <2>6, <2>7, <4>1, <4>2, <4>3 DEF Reading, At, Writes
    <3> QED
      BY <3>1, <3>2, <3>3 DEF CallOK
  <2>8. "look" \notin Locked
    BY DEF Locked
  <2> QED
    BY <1>2, <1>3, <2>4, <2>5, <2>6, <2>7, <2>8, QuietMove
<1> QED
  BY <1>4, <1>5 DEF GetHead

LEMMA GetLookKeeps == ASSUME IInv, NEW o \in Ops, GetLook(o) PROVE IInv'
<1>1. TypeOK /\ CallOK(o) /\ op[o] \in CallState
  BY OpType
<1>2. op[o].pc = "look" /\ ~ Holding(o) /\ op[o].key \in Keys /\ op[o].kind \in {"get", "copy"}
  BY <1>1 DEF GetLook, At, Holding, Locked, CallOK, Shape
<1>3. UNCHANGED <<disk, env>>
  BY DEF GetLook
<1>4. CASE Finish(o, "NoSuchKey")
  BY <1>2, <1>3, <1>4, QuietFinish DEF InFlight, Ended
<1>5. CASE \E v \in Seen(o) :
             /\ Becomes(o, [op[o] EXCEPT !.todo = <<v>>, !.pc = IF v.enc THEN "unseal" ELSE "stat"])
             /\ UNCHANGED lock
  <2>1. PICK v \in Seen(o) :
             /\ Becomes(o, [op[o] EXCEPT !.todo = <<v>>, !.pc = IF v.enc THEN "unseal" ELSE "stat"])
             /\ UNCHANGED lock
    BY <1>5
  <2> DEFINE t  == <<v>>
             pc == IF v.enc THEN "unseal" ELSE "stat"
             r  == [op[o] EXCEPT !.todo = t, !.pc = pc]
  <2>2. v \in Version /\ (op[o].arg \in Ops => v.id = op[o].arg)
    BY <1>2, SeenPlace, SeenOwn
  <2>3. t \in Seq(Version) /\ t # <<>> /\ Head(t) = v
    BY <2>2
  <2>4. Becomes(o, r) /\ UNCHANGED lock
    BY <2>1
  <2>5. pc \in {"unseal", "stat"} /\ pc \in Pcs /\ pc \notin Locked
    BY DEF Pcs, Locked
  <2> HIDE DEF t, pc
  <2>6. r \in CallState
    BY <1>1, <2>3, <2>5, Updated
  <2>7. /\ r.pc = pc /\ r.key = op[o].key /\ r.kind = op[o].kind /\ r.arg = op[o].arg /\ r.etag = op[o].etag
        /\ r.res = op[o].res /\ r.todo = t
    BY <1>1 DEF CallState
  <2> HIDE DEF r
  <2>8. ASSUME op'[o] = r, \A p \in Ops \ {o} : op'[p] = op[p]
        PROVE  CallOK(o)'
    <3>1. Shape(o)'
      BY <1>1, <1>2, <2>3, <2>5, <2>7, <2>8 DEF CallOK, Shape, At, Holding, Locked, Writes, Removes
    <3>2. Putting(o)' /\ Deleting(o)' /\ Tagging(o)' /\ Renaming(o)'
      BY <1>2, <2>5, <2>7, <2>8 DEF Putting, Deleting, Tagging, Renaming, At, Removes
    <3>3. Reading(o)'
      <4> SUFFICES ASSUME op[o].kind = "get", op[o].arg \in Ops PROVE Reading(o)'
        BY <2>7, <2>8 DEF Reading
      <4>1. /\ At(op[o].arg, "done") /\ op[op[o].arg].key = op[o].key
            /\ Writes(op[o].arg) /\ op[o].etag = op[op[o].arg].etag
        BY <1>1, <1>2 DEF CallOK, Reading
      <4>2. op'[op[o].arg] = op[op[o].arg]
        BY <1>2, <2>8, <4>1 DEF At
      <4>3. op[o].res # "ok"
        BY <1>1, <1>2 DEF CallOK, Shape, At
      <4> QED
        BY <2>2, <2>3, <2>5, <2>7, <2>8, <4>1, <4>2, <4>3 DEF Reading, At, Writes
    <3> QED
      BY <3>1, <3>2, <3>3 DEF CallOK
  <2> QED
    BY <1>2, <1>3, <2>4, <2>5, <2>6, <2>7, <2>8, QuietMove
<1> QED
  BY <1>4, <1>5 DEF GetLook

LEMMA StatKeeps == ASSUME IInv, NEW o \in Ops, Stat(o) PROVE IInv'
<1>1. TypeOK /\ CallOK(o) /\ op[o] \in CallState
  BY OpType
<1>2. op[o].pc = "stat" /\ ~ Holding(o) /\ op[o].key \in Keys /\ op[o].kind \in {"get", "copy"}
  BY <1>1 DEF Stat, At, Holding, Locked, CallOK, Shape
<1>3. UNCHANGED <<disk, env>>
  BY DEF Stat
<1>4. CASE Finish(o, "NoSuchKey") \/ Finish(o, "failed")
  BY <1>2, <1>3, <1>4, QuietFinish DEF InFlight, Ended
<1>5. CASE Becomes(o, [op[o] EXCEPT !.pc = "open"]) /\ UNCHANGED lock
  <2> DEFINE r == [op[o] EXCEPT !.pc = "open"]
  <2>1. r \in CallState
    BY <1>1, Updated DEF Pcs
  <2>2. /\ r.pc = "open" /\ r.key = op[o].key /\ r.kind = op[o].kind /\ r.arg = op[o].arg /\ r.etag = op[o].etag
        /\ r.res = op[o].res /\ r.todo = op[o].todo
    BY <1>1 DEF CallState
  <2>3. Becomes(o, r) /\ UNCHANGED lock
    BY <1>5
  <2> HIDE DEF r
  <2>4. ASSUME op'[o] = r, \A p \in Ops \ {o} : op'[p] = op[p]
        PROVE  CallOK(o)'
    <3>1. Shape(o)'
      BY <1>1, <1>2, <2>2, <2>4 DEF CallOK, Shape, At, Holding, Locked, Writes, Removes
    <3>2. Putting(o)' /\ Deleting(o)' /\ Tagging(o)' /\ Renaming(o)'
      BY <2>2, <2>4 DEF Putting, Deleting, Tagging, Renaming, At, Removes
    <3>3. Reading(o)'
      <4> SUFFICES ASSUME op[o].kind = "get", op[o].arg \in Ops PROVE Reading(o)'
        BY <2>2, <2>4 DEF Reading
      <4>1. /\ At(op[o].arg, "done") /\ op[op[o].arg].key = op[o].key
            /\ Writes(op[o].arg) /\ op[o].etag = op[op[o].arg].etag /\ Head(op[o].todo).id = op[o].arg
        BY <1>1, <1>2 DEF CallOK, Reading
      <4>2. op'[op[o].arg] = op[op[o].arg]
        BY <1>2, <2>4, <4>1 DEF At
      <4>3. op[o].res # "ok"
        BY <1>1, <1>2 DEF CallOK, Shape, At
      <4> QED
        BY <2>2, <2>4, <4>1, <4>2, <4>3 DEF Reading, At, Writes
    <3> QED
      BY <3>1, <3>2, <3>3 DEF CallOK
  <2>5. "open" \notin Locked
    BY DEF Locked
  <2> QED
    BY <1>2, <1>3, <2>1, <2>2, <2>3, <2>4, <2>5, QuietMove
<1> QED
  BY <1>4, <1>5 DEF Stat

\* A read that finds bytes answers, or copies, those that it looked up.
LEMMA ServedKeeps ==
  ASSUME IInv, NEW o \in Ops, op[o].pc \in {"unseal", "open"}, data[Source(o)] # None,
         Served(o, data[Source(o)].bytes), UNCHANGED <<disk, env>>
  PROVE  IInv'
<1>1. TypeOK /\ CallOK(o) /\ op[o] \in CallState
  BY OpType
<1>2. /\ ~ Holding(o) /\ op[o].key \in Keys /\ op[o].kind \in {"get", "copy"} /\ op[o].todo # <<>>
      /\ op[o].res # "ok"
  BY <1>1 DEF At, Holding, Locked, CallOK, Shape
<1>3. Source(o) \in Keys \X Ids
  <2>1. op[o].todo \in Seq(Version)
    BY <1>1 DEF CallState
  <2>2. Head(op[o].todo).id \in Ids
    <3>1. Head(op[o].todo) \in Version
      BY <1>2, <2>1
    <3> QED
      BY <3>1 DEF Version
  <2> QED
    BY <1>2, <2>2 DEF Source
<1> DEFINE b == data[Source(o)].bytes
<1>4. b \in Bytes
  BY <1>1, <1>3 DEF TypeOK, DataFile
<1>5. ASSUME op[o].kind = "get", op[o].arg \in Ops
      PROVE  /\ At(op[o].arg, "done") /\ op[op[o].arg].key = op[o].key
             /\ Writes(op[o].arg) /\ op[o].etag = op[op[o].arg].etag /\ b = op[op[o].arg].etag
  <2>1. /\ At(op[o].arg, "done") /\ op[op[o].arg].key = op[o].key
        /\ Writes(op[o].arg) /\ op[o].etag = op[op[o].arg].etag /\ Head(op[o].todo).id = op[o].arg
    BY <1>1, <1>5 DEF CallOK, Reading
  <2>2. data[<<op[o].key, op[o].arg>>] # None
    BY <2>1 DEF Source
  <2>3. data[<<op[o].key, op[o].arg>>].bytes = op[op[o].arg].etag
    BY <1>2, <1>5, <2>1, <2>2 DEF IInv, StoredOK
  <2> QED
    BY <2>1, <2>3 DEF Source
<1>6. CASE op[o].kind = "get"
  <2> DEFINE e == Ending(o, "ok")
             r == [e EXCEPT !.body = b]
  <2>1. e \in CallState /\ e.pc = "done" /\ e.kind = "get" /\ e.key = op[o].key /\ e.arg = op[o].arg
        /\ e.etag = op[o].etag /\ e.res = "ok"
    BY <1>1, <1>6, EndingFields
  <2>2. Becomes(o, r) /\ UNCHANGED lock
    BY <1>6 DEF Served, Becomes
  <2> HIDE DEF e, b
  <2>3. /\ r \in CallState /\ r.pc = "done" /\ r.kind = "get" /\ r.key = op[o].key /\ r.arg = op[o].arg
        /\ r.etag = op[o].etag /\ r.res = "ok" /\ r.body = b
    BY <1>4, <2>1 DEF CallState
  <2> HIDE DEF r
  <2>4. ASSUME op'[o] = r, \A p \in Ops \ {o} : op'[p] = op[p]
        PROVE  CallOK(o)'
    <3>1. Shape(o)'
      BY <1>1, <1>2, <2>3, <2>4 DEF CallOK, Shape, At, Holding, Locked, Writes, Removes
    <3>2. Putting(o)' /\ Deleting(o)' /\ Tagging(o)' /\ Renaming(o)'
      BY <2>3, <2>4 DEF Putting, Deleting, Tagging, Renaming, At, Removes
    <3>3. Reading(o)'
      <4> SUFFICES ASSUME op[o].arg \in Ops PROVE Reading(o)'
        BY <2>3, <2>4 DEF Reading
      <4>1. op'[op[o].arg] = op[op[o].arg]
        BY <1>5, <1>6, <2>4 DEF At
      <4> QED
        BY <1>5, <1>6, <2>3, <2>4, <4>1 DEF Reading, At, Writes
    <3> QED
      BY <3>1, <3>2, <3>3 DEF CallOK
  <2>5. "done" \notin Locked
    BY DEF Locked
  <2> QED
    BY <1>2, <2>2, <2>3, <2>4, <2>5, QuietMove
<1>7. CASE op[o].kind # "get"
  <2>1. PICK k \in Keys, enc \in Encs :
          /\ Becomes(o, [op[o] EXCEPT !.key = k, !.enc = enc, !.body = b, !.todo = <<>>, !.pc = "queued"])
          /\ Lock!Join(o, k)
    BY <1>7 DEF Served
  <2> DEFINE r == [op[o] EXCEPT !.key = k, !.enc = enc, !.body = b, !.todo = <<>>, !.pc = "queued"]
  <2>2. Becomes(o, r)
    BY <2>1
  <2> HIDE DEF b
  <2>3. /\ r \in CallState /\ r.pc = "queued" /\ r.kind = "copy" /\ r.key = k /\ r.body = b /\ r.res = op[o].res
    <3>1. enc \in BOOLEAN /\ <<>> \in Seq(Version) /\ "queued" \in Pcs /\ k \in Keys
      BY EncsAssumption DEF Pcs
    <3>2. r \in CallState
      BY <1>1, <1>4, <3>1 DEF CallState
    <3> QED
      BY <1>1, <1>2, <1>7, <3>2 DEF CallState
  <2> HIDE DEF r
  <2>4. ASSUME op'[o] = r
        PROVE  CallOK(o)'
    <3>1. Shape(o)'
      BY <1>2, <1>4, <2>3, <2>4 DEF Shape, At, Holding, Locked, Writes, Removes
    <3>2. Putting(o)' /\ Deleting(o)' /\ Tagging(o)' /\ Renaming(o)' /\ Reading(o)'
      BY <2>3, <2>4 DEF Putting, Deleting, Tagging, Renaming, Reading, At, Removes
    <3> QED
      BY <3>1, <3>2 DEF CallOK
  <2>5. "queued" \notin Locked
    BY DEF Locked
  <2> QED
    BY <1>2, <2>1, <2>2, <2>3, <2>4, <2>5, QuietMove
<1> QED
  BY <1>6, <1>7

LEMMA UnsealKeeps == ASSUME IInv, NEW o \in Ops, Unseal(o) PROVE IInv'
<1>1. op[o].pc = "unseal" /\ UNCHANGED <<disk, env>>
  BY DEF Unseal, At
<1>2. CASE Finish(o, "failed")
  BY <1>1, <1>2, QuietFinish DEF InFlight, Ended
<1>3. CASE data[Source(o)] # None /\ Served(o, data[Source(o)].bytes)
  BY <1>1, <1>3, ServedKeeps
<1> QED
  BY <1>2, <1>3 DEF Unseal

-----------------------------------------------------------------------------
(* The end of the process, and the steps of no call.                       *)

LEMMA RestartKeeps ==
  ASSUME IInv, Restart, UNCHANGED disk,
         versioning' \in Modes, aged' \subseteq Ops, crashes' \in 0 .. MaxCrashes
  PROVE  IInv'
<1> USE DEF disk
<1>1. ASSUME NEW o \in Ops
      PROVE  /\ op'[o] \in CallState
             /\ \/ ~ InFlight(o) /\ op'[o] = op[o]
                \/ /\ op'[o].pc = "lost" /\ op'[o].res = None
                   /\ op'[o].kind = op[o].kind /\ op'[o].key = op[o].key /\ op'[o].mode = op[o].mode
                   /\ op'[o].arg = op[o].arg /\ op'[o].etag = op[o].etag /\ InFlight(o)
  <2>1. CASE InFlight(o)
    <3> DEFINE e == Ending(o, None)
    <3>1. /\ [e EXCEPT !.pc = "lost"] \in CallState /\ e \in CallState
          /\ e.res = None /\ e.kind = op[o].kind /\ e.key = op[o].key /\ e.arg = op[o].arg /\ e.mode = op[o].mode
          /\ e.etag = op[o].etag
      BY EndingFields DEF IInv
    <3>2. op'[o] = [e EXCEPT !.pc = "lost"]
      BY <2>1 DEF Restart
    <3> HIDE DEF e
    <3> QED
      BY <2>1, <3>1, <3>2 DEF CallState
  <2>2. CASE ~ InFlight(o)
    BY <2>2 DEF Restart, IInv, TypeOK
  <2> QED
    BY <2>1, <2>2
<1>2. ASSUME NEW o \in Ops, At(o, "done")
      PROVE  op'[o] = op[o]
  BY <1>1, <1>2 DEF InFlight, Ended, At
<1>3. \A o \in Ops : ~ Holding(o)'
  BY <1>1 DEF Holding, Locked, InFlight, Ended
<1>4. TypeOK'
  BY <1>1 DEF IInv, TypeOK, Restart
<1>5. LockOK'
  BY <1>3 DEF LockOK, Restart
<1>6. CallsOK'
  <2> SUFFICES ASSUME NEW o \in Ops PROVE CallOK(o)'
    BY DEF CallsOK
  <2>1. CallOK(o)
    BY DEF IInv, CallsOK
  <2>2. Shape(o)'
    BY <1>1, <1>3, <2>1, NamesAssumption DEF CallOK, Shape, At, InFlight, Ended, Writes, Removes
  <2>3. Putting(o)' /\ Deleting(o)' /\ Tagging(o)' /\ Renaming(o)'
    BY <1>1 DEF Putting, Deleting, Tagging, Renaming, At, InFlight, Ended
  <2>4. Reading(o)'
    BY <1>1, <1>2, <2>1, NamesAssumption DEF CallOK, Reading, At, Writes
  <2> QED
    BY <2>2, <2>3, <2>4 DEF CallOK
<1>7. ListsOK'
  <2> SUFFICES ASSUME NEW k \in Keys, NEW n \in 1 .. Len(meta[k]) PROVE VersionOK(k, meta[k][n])'
    BY DEF IInv, ListsOK
  <2>1. VersionOK(k, meta[k][n]) /\ meta[k][n] \in Version
    BY MetaType
  <2>2. meta[k][n].by \in Ops
    BY <2>1 DEF Version
  <2>3. op'[meta[k][n].by] = op[meta[k][n].by]
    BY <1>2, <2>1, <2>2 DEF VersionOK
  <2> QED
    BY <2>1, <2>3 DEF VersionOK, At, Writes, Removes
<1>8. StoredOK'
  BY <1>1 DEF IInv, StoredOK, At, Writes, InFlight, Ended
<1>9. SoundOK'
  BY DEF IInv, SoundOK, Intact
<1> QED
  BY <1>4, <1>5, <1>6, <1>7, <1>8, <1>9 DEF IInv

LEMMA OpenKeeps == ASSUME IInv, NEW o \in Ops, Open(o) PROVE IInv'
<1>1. op[o].pc = "open" /\ UNCHANGED <<disk, env>>
  BY DEF Open, At
<1>2. versioning' \in Modes /\ aged' \subseteq Ops /\ crashes' \in 0 .. MaxCrashes
  BY <1>1 DEF IInv, TypeOK, env
<1>3. CASE Restart
  BY <1>1, <1>2, <1>3, RestartKeeps
<1>4. CASE data[Source(o)] # None /\ Served(o, data[Source(o)].bytes)
  BY <1>1, <1>4, ServedKeeps
<1> QED
  BY <1>3, <1>4 DEF Open

LEMMA CrashKeeps == ASSUME IInv, Crash PROVE IInv'
<1>1. versioning' \in Modes /\ aged' \subseteq Ops /\ crashes' \in 0 .. MaxCrashes
  BY BoundsAssumption DEF IInv, TypeOK, Crash
<1> QED
  BY <1>1, RestartKeeps DEF Crash

\* The files and the calls stay as they are.
LEMMA Still ==
  ASSUME IInv, UNCHANGED <<disk, lock, op>>,
         versioning' \in Modes, aged' \subseteq Ops, crashes' \in 0 .. MaxCrashes
  PROVE  IInv'
<1> USE DEF disk, lock
<1>1. TypeOK'
  BY DEF IInv, TypeOK
<1>2. LockOK' /\ CallsOK'
  <2>1. \A o \in Ops : CallOK(o)' = CallOK(o)
    BY DEF CallOK, Shape, Holding, At, Writes, Removes, Putting, OwnFile, File, Placed, Pushed, NewVersion,
           Deleting, Marking, Marker, Removing, RemovingAt, Clearing, Tagging, Renaming, Reading
  <2> QED
    BY <2>1 DEF IInv, LockOK, CallsOK, Holding
<1>3. ListsOK' /\ StoredOK' /\ SoundOK'
  BY DEF IInv, ListsOK, VersionOK, StoredOK, SoundOK, Intact, At, Writes, Removes
<1> QED
  BY <1>1, <1>2, <1>3 DEF IInv

-----------------------------------------------------------------------------
(* Steps of a call with the lock that change files of its key.             *)

\* What is listed was written by calls that have ended.
LEMMA ListedEnded ==
  ASSUME IInv, NEW k \in Keys, NEW n \in 1 .. Len(meta[k])
  PROVE  /\ meta[k][n].by \in Ops /\ At(meta[k][n].by, "done")
         /\ meta[k][n].id \in Ops => At(meta[k][n].id, "done")
BY MetaType, NamesAssumption DEF VersionOK, Version, Ids

\* The call goes on, and the list of versions stays.
LEMMA DiskMove ==
  ASSUME IInv, NEW o \in Ops, Holding(o), UNCHANGED <<meta, lock, env>>,
         NEW r \in CallState, Becomes(o, r), r.pc \in Locked, r.key = op[o].key,
         metaTmp' \in [Keys -> Seq(Version) \cup {None}],
         data' \in [Keys \X Ids -> DataFile \cup {None}], tmp' \in [Keys \X Ids -> DataFile \cup {None}],
         \A k \in Keys : k # op[o].key =>
           /\ metaTmp'[k] = metaTmp[k]
           /\ \A i \in Ids : data'[<<k, i>>] = data[<<k, i>>] /\ tmp'[<<k, i>>] = tmp[<<k, i>>],
         \A i \in Ops \ {o} : data'[<<op[o].key, i>>] \in {data[<<op[o].key, i>>], None},
         data'[<<op[o].key, o>>] # None =>
           /\ r.kind \in {"put", "copy", "complete"} /\ r.mode = "Enabled"
           /\ r.pc \in {"seal", "clean", "trim", "wmeta", "rename"},
         op'[o] = r => CallOK(o)'
  PROVE  IInv'
<1> DEFINE k == op[o].key
<1>1. op[o].pc \notin {"idle", "done", "lost"} /\ k \in Keys
  BY HasKey DEF IInv, Holding, Locked, At
<1>2. /\ op' \in [Ops -> CallState] /\ op'[o] = r /\ \A p \in Ops \ {o} : op'[p] = op[p]
      /\ LockOK' /\ line' \in [Keys -> Seq(Ops)] /\ inside' \subseteq Ops
  BY Moves
<1>3. TypeOK'
  BY <1>2 DEF IInv, TypeOK, env
<1>4. CallsOK'
  <2>1. Frame(o)
    BY <1>2 DEF Frame
  <2> QED
    BY <1>1, <1>2, <2>1, OthersKept DEF CallsOK, At
<1>5. ListsOK'
  <2> SUFFICES ASSUME NEW l \in Keys, NEW n \in 1 .. Len(meta[l]) PROVE VersionOK(l, meta[l][n])'
    BY DEF IInv, ListsOK
  <2>1. VersionOK(l, meta[l][n])
    BY MetaType
  <2>2. meta[l][n].by \in Ops \ {o}
    BY <1>1, ListedEnded DEF At
  <2>3. op'[meta[l][n].by] = op[meta[l][n].by]
    BY <1>2, <2>2
  <2> QED
    BY <2>1, <2>3 DEF VersionOK, At, Writes, Removes
<1>6. StoredOK'
  <2> SUFFICES ASSUME NEW l \in Keys, NEW i \in Ops, data'[<<l, i>>] # None
               PROVE  /\ Writes(i)' /\ op'[i].key = l /\ op'[i].mode = "Enabled"
                      /\ op'[i].pc \in {"seal", "clean", "trim", "wmeta", "rename", "done", "lost"}
                      /\ At(i, "done")' => data'[<<l, i>>].bytes = op'[i].etag
    BY DEF StoredOK
  <2>1. i \in Ids
    BY DEF Ids
  <2>2. CASE i # o
    <3>1. data'[<<l, i>>] = data[<<l, i>>]
      BY <2>1, <2>2
    <3> QED
      BY <1>2, <2>2, <3>1 DEF IInv, StoredOK, At, Writes
  <2>3. CASE i = o /\ l # k
    <3>1. data[<<l, o>>] # None
      BY <2>1, <2>3
    <3> QED
      BY <2>3, <3>1 DEF IInv, StoredOK
  <2>4. CASE i = o /\ l = k
    BY <1>2, <2>4 DEF At, Writes
  <2> QED
    BY <2>2, <2>3, <2>4
<1>7. SoundOK'
  <2> SUFFICES ASSUME NEW l \in Keys, NEW n \in 1 .. Len(meta[l]),
                      ~ meta[l][n].del, meta[l][n].id \in Ops, data'[<<l, meta[l][n].id>>] # None
               PROVE  Intact(l, meta[l][n])'
    BY DEF SoundOK
  <2>1. meta[l][n].id \in Ops \ {o} /\ meta[l][n].id \in Ids
    BY <1>1, ListedEnded DEF At, Ids
  <2>2. data'[<<l, meta[l][n].id>>] = data[<<l, meta[l][n].id>>]
    BY <2>1
  <2> QED
    BY <2>2 DEF IInv, SoundOK, Intact
<1> QED
  BY <1>2, <1>3, <1>4, <1>5, <1>6, <1>7 DEF IInv

\* The state of a put with the lock.
LEMMA PutState ==
  ASSUME IInv, NEW o \in Ops, Writes(o), Holding(o)
  PROVE  /\ TypeOK /\ CallOK(o) /\ op[o] \in CallState /\ op[o].key \in Keys
         /\ op[o].kind \in {"put", "copy"} /\ op[o].body \in Bytes /\ op[o].res # "ok"
         /\ op[o].pc # "held" => op[o].mode \in Modes
         /\ OwnFile(o) \in Keys \X Ids
         /\ op[o].pc \notin {"seal", "clean", "trim", "wmeta", "rename"} => data[<<op[o].key, o>>] = None
<1>1. TypeOK /\ CallOK(o) /\ op[o] \in CallState
  BY OpType
<1>2. /\ op[o].key \in Keys /\ op[o].kind \in {"put", "copy"} /\ op[o].body \in Bytes /\ op[o].res # "ok"
      /\ op[o].pc # "held" => op[o].mode \in Modes
  BY <1>1 DEF CallOK, Shape, At, Holding, Locked, Writes
<1>3. OwnFile(o) \in Keys \X Ids
  BY <1>2, OwnFileType
<1>4. op[o].pc \notin {"seal", "clean", "trim", "wmeta", "rename"} => data[<<op[o].key, o>>] = None
  BY <1>2 DEF IInv, StoredOK, Holding, Locked
<1> QED
  BY <1>1, <1>2, <1>3, <1>4

LEMMA PutOpenKeeps == ASSUME IInv, NEW o \in Ops, PutOpen(o) PROVE IInv'
<1> DEFINE r == [op[o] EXCEPT !.mode = versioning, !.pc = "stream"]
           f == [bytes |-> Torn, by |-> None]
<1>1. op[o].pc = "held" /\ Holding(o) /\ Writes(o)
  BY DEF PutOpen, At, Holding, Locked
<1>2. /\ TypeOK /\ CallOK(o) /\ op[o] \in CallState /\ op[o].key \in Keys
      /\ op[o].kind \in {"put", "copy"} /\ op[o].body \in Bytes /\ op[o].res # "ok"
      /\ data[<<op[o].key, o>>] = None
  BY <1>1, PutState
<1>3. versioning \in Modes
  BY <1>2 DEF TypeOK
<1>4. /\ r \in CallState /\ r.pc = "stream" /\ r.key = op[o].key /\ r.kind = op[o].kind /\ r.mode = versioning
      /\ r.body = op[o].body /\ r.res = op[o].res
  BY <1>2, <1>3 DEF CallState, Pcs
<1>5. f \in DataFile /\ File(o, versioning) \in {op[o].key} \X Ids
  BY DEF DataFile, Bytes, File, Ids
<1>6. tmp' = [tmp EXCEPT ![File(o, versioning)] = f] /\ Becomes(o, r) /\ UNCHANGED <<meta, metaTmp, data, lock, env>>
  BY DEF PutOpen
<1> HIDE DEF r, f
<1>7. tmp' \in [Keys \X Ids -> DataFile \cup {None}]
  BY <1>2, <1>5, <1>6 DEF TypeOK
<1>8. ASSUME op'[o] = r
      PROVE  CallOK(o)'
  <2>1. Shape(o)'
    BY <1>1, <1>2, <1>3, <1>4, <1>8 DEF Shape, At, Holding, Locked, Writes, Removes
  <2>2. Putting(o)' /\ Deleting(o)' /\ Tagging(o)' /\ Renaming(o)' /\ Reading(o)'
    BY <1>2, <1>4, <1>8 DEF Putting, Deleting, Tagging, Renaming, Reading, At, Removes
  <2> QED
    BY <2>1, <2>2 DEF CallOK
<1>9. \A k \in Keys : k # op[o].key =>
        \A i \in Ids : data'[<<k, i>>] = data[<<k, i>>] /\ tmp'[<<k, i>>] = tmp[<<k, i>>]
  BY <1>2, <1>5, <1>6 DEF TypeOK
<1>10. r.pc \in Locked
  BY <1>4 DEF Locked
<1>11. metaTmp' \in [Keys -> Seq(Version) \cup {None}] /\ data' \in [Keys \X Ids -> DataFile \cup {None}]
  BY <1>2, <1>6 DEF TypeOK
<1> QED
  BY <1>1, <1>2, <1>4, <1>6, <1>7, <1>8, <1>9, <1>10, <1>11, DiskMove

LEMMA StreamEndKeeps == ASSUME IInv, NEW o \in Ops, StreamEnd(o) PROVE IInv'
<1> DEFINE r == [op[o] EXCEPT !.pc = "hash"]
           f == [bytes |-> op[o].body, by |-> None]
<1>1. op[o].pc = "stream" /\ Holding(o) /\ Writes(o)
  BY DEF StreamEnd, At, Holding, Locked
<1>2. /\ TypeOK /\ CallOK(o) /\ op[o] \in CallState /\ op[o].key \in Keys
      /\ op[o].kind \in {"put", "copy"} /\ op[o].body \in Bytes /\ op[o].res # "ok"
      /\ op[o].mode \in Modes /\ data[<<op[o].key, o>>] = None
  BY <1>1, PutState
<1>4. /\ r \in CallState /\ r.pc = "hash" /\ r.key = op[o].key /\ r.kind = op[o].kind /\ r.mode = op[o].mode
      /\ r.body = op[o].body /\ r.res = op[o].res
  BY <1>2 DEF CallState, Pcs
<1>5. f \in DataFile /\ OwnFile(o) \in {op[o].key} \X Ids
  BY <1>2 DEF DataFile, OwnFile, File, Ids
<1>6. tmp' = [tmp EXCEPT ![OwnFile(o)] = f] /\ Becomes(o, r) /\ UNCHANGED <<meta, metaTmp, data, lock, env>>
  BY DEF StreamEnd
<1>7. f = [bytes |-> r.body, by |-> None]
  BY <1>4
<1> HIDE DEF r, f
<1>8. tmp' \in [Keys \X Ids -> DataFile \cup {None}] /\ tmp'[OwnFile(o)] = f
  BY <1>2, <1>5, <1>6 DEF TypeOK
<1>9. ASSUME op'[o] = r
      PROVE  CallOK(o)'
  <2>1. Shape(o)'
    BY <1>1, <1>2, <1>4, <1>9 DEF Shape, At, Holding, Locked, Writes, Removes
  <2>2. OwnFile(o)' = OwnFile(o)
    BY <1>4, <1>9 DEF OwnFile, File
  <2>3. Putting(o)'
    BY <1>4, <1>7, <1>8, <1>9, <2>2 DEF Putting, At
  <2>4. Deleting(o)' /\ Tagging(o)' /\ Renaming(o)' /\ Reading(o)'
    BY <1>2, <1>4, <1>9 DEF Deleting, Tagging, Renaming, Reading, At, Removes
  <2> QED
    BY <2>1, <2>3, <2>4 DEF CallOK
<1>10. \A k \in Keys : k # op[o].key =>
        \A i \in Ids : data'[<<k, i>>] = data[<<k, i>>] /\ tmp'[<<k, i>>] = tmp[<<k, i>>]
  BY <1>2, <1>5, <1>6 DEF TypeOK
<1>11. r.pc \in Locked
  BY <1>4 DEF Locked
<1>12. metaTmp' \in [Keys -> Seq(Version) \cup {None}] /\ data' \in [Keys \X Ids -> DataFile \cup {None}]
  BY <1>2, <1>6 DEF TypeOK
<1> QED
  BY <1>1, <1>2, <1>4, <1>6, <1>8, <1>9, <1>10, <1>11, <1>12, DiskMove

LEMMA NewVersionType ==
  ASSUME IInv, NEW o \in Ops, Writes(o), Holding(o)
  PROVE  NewVersion(o) \in Version
<1>1. op[o] \in CallState /\ op[o].key \in Keys
  BY PutState
<1>2. OwnFile(o)[2] \in Ids /\ op[o].etag \in Bytes \cup {None} /\ op[o].enc \in BOOLEAN
  BY <1>1, OwnFileType DEF CallState
<1> QED
  BY <1>2 DEF NewVersion, Version

\* What a put does with the list, having put its data in place.
LEMMA ListedState ==
  ASSUME IInv, NEW o \in Ops, Writes(o), op[o].pc \in {"swap", "clean"}
  PROVE  LET r == Listed(o)
             s == meta[op[o].key]
         IN  /\ r \in CallState /\ r.pc \in {"wmeta", "trim"} /\ r.om = Pushed(o)
             /\ r.key = op[o].key /\ r.kind = op[o].kind /\ r.mode = op[o].mode /\ r.body = op[o].body
             /\ r.etag = op[o].etag /\ r.enc = op[o].enc /\ r.arg = op[o].arg /\ r.res = op[o].res
             /\ r.pc = "trim" => op[o].mode = "Enabled" /\ Len(s) >= MaxVersions /\ r.todo = <<s[Len(s)]>>
             /\ op[o].mode = "Enabled" /\ Len(s) >= MaxVersions => r.pc = "trim"
<1>1. Holding(o)
  BY DEF Holding, Locked
<1>2. op[o] \in CallState /\ op[o].key \in Keys /\ CallOK(o) /\ op[o].kind # "complete"
  BY <1>1, PutState
<1> DEFINE s   == meta[op[o].key]
           v   == NewVersion(o)
           all == <<v>> \o s
           n   == Len(all)
           r   == Listed(o)
<1>3. op[o].om = s
  BY <1>2 DEF CallOK, Putting
<1>4. s \in Seq(Version) /\ Len(s) \in Nat
  BY <1>2, MetaType
<1>5. v \in Version
  BY <1>1, NewVersionType
<1>6. all \in Seq(Version) /\ n = Len(s) + 1 /\ \A j \in 2 .. Len(s) + 1 : all[j] = s[j - 1]
  BY <1>4, <1>5, PrependSeq
<1>7. r = IF op[o].mode # "Enabled"
          THEN [op[o] EXCEPT !.om = <<v>>, !.pc = "wmeta"]
          ELSE IF n <= MaxVersions
          THEN [op[o] EXCEPT !.om = all, !.pc = "wmeta"]
          ELSE [op[o] EXCEPT !.om = SubSeq(all, 1, n - 1), !.todo = <<all[n]>>, !.pc = "trim"]
  BY <1>2, <1>3 DEF Listed
<1>8. Pushed(o) = IF op[o].mode # "Enabled" THEN <<v>>
                  ELSE IF n <= MaxVersions THEN all ELSE SubSeq(all, 1, n - 1)
  BY DEF Pushed
<1> HIDE DEF r, s, v, all
<1>9. <<v>> \in Seq(Version) /\ "wmeta" \in Pcs /\ "trim" \in Pcs
  BY <1>5 DEF Pcs
<1>10. CASE op[o].mode # "Enabled"
  <2>1. r = [op[o] EXCEPT !.om = <<v>>, !.pc = "wmeta"] /\ Pushed(o) = <<v>>
    BY <1>7, <1>8, <1>10
  <2>2. r \in CallState
    BY <1>2, <1>9, <2>1, Updated
  <2> QED
    BY <1>2, <1>10, <2>1, <2>2 DEF CallState, r, s
<1>11. CASE op[o].mode = "Enabled" /\ n <= MaxVersions
  <2>1. r = [op[o] EXCEPT !.om = all, !.pc = "wmeta"] /\ Pushed(o) = all
    BY <1>7, <1>8, <1>11
  <2>2. r \in CallState
    BY <1>2, <1>6, <1>9, <2>1, Updated
  <2>3. Len(s) < MaxVersions
    BY <1>4, <1>6, <1>11, BoundsAssumption
  <2> QED
    BY <1>2, <1>4, <2>1, <2>2, <2>3, BoundsAssumption DEF CallState, r, s
<1>12. CASE op[o].mode = "Enabled" /\ ~ (n <= MaxVersions)
  <2> DEFINE c == SubSeq(all, 1, n - 1)
             t == <<all[n]>>
  <2>1. r = [op[o] EXCEPT !.om = c, !.todo = t, !.pc = "trim"] /\ Pushed(o) = c
    BY <1>7, <1>8, <1>12
  <2>2. Len(s) >= MaxVersions /\ all[n] = s[Len(s)] /\ all[n] \in Version
    BY <1>4, <1>6, <1>12, BoundsAssumption
  <2>3. c \in Seq(Version) /\ t \in Seq(Version) /\ t = <<s[Len(s)]>>
    BY <1>6, <2>2
  <2> HIDE DEF c, t
  <2>4. r \in CallState
    BY <1>2, <1>9, <2>1, <2>3, Updated
  <2> QED
    BY <1>2, <1>12, <2>1, <2>2, <2>3, <2>4 DEF CallState, r, s
<1> QED
  BY <1>4, <1>6, <1>10, <1>11, <1>12, BoundsAssumption

\* The data is in place.
LEMMA ListedKeeps ==
  ASSUME IInv, NEW o \in Ops, Writes(o), op[o].pc \in {"swap", "clean"},
         UNCHANGED <<meta, metaTmp, lock, env>>, Becomes(o, Listed(o)),
         data' \in [Keys \X Ids -> DataFile \cup {None}], tmp' \in [Keys \X Ids -> DataFile \cup {None}],
         \A f \in Keys \X Ids : f # OwnFile(o) => data'[f] = data[f] /\ tmp'[f] = tmp[f],
         data'[OwnFile(o)] = [bytes |-> op[o].body, by |-> IF op[o].enc THEN o ELSE None]
  PROVE  IInv'
<1> DEFINE r == Listed(o)
           s == meta[op[o].key]
<1>1. Holding(o)
  BY DEF Holding, Locked
<1>2. /\ TypeOK /\ CallOK(o) /\ op[o] \in CallState /\ op[o].key \in Keys
      /\ op[o].kind \in {"put", "copy"} /\ op[o].body \in Bytes /\ op[o].res # "ok"
      /\ op[o].mode \in Modes /\ OwnFile(o) \in Keys \X Ids
  BY <1>1, PutState
<1>3. /\ r \in CallState /\ r.pc \in {"wmeta", "trim"} /\ r.om = Pushed(o)
      /\ r.key = op[o].key /\ r.kind = op[o].kind /\ r.mode = op[o].mode /\ r.body = op[o].body
      /\ r.etag = op[o].etag /\ r.enc = op[o].enc /\ r.arg = op[o].arg /\ r.res = op[o].res
      /\ r.pc = "trim" => op[o].mode = "Enabled" /\ Len(s) >= MaxVersions /\ r.todo = <<s[Len(s)]>>
  BY ListedState
<1>4. op[o].etag = op[o].body
  BY <1>2 DEF CallOK, Putting
<1>5. Becomes(o, r)
  OBVIOUS
<1> HIDE DEF r
<1>14. r.pc = "trim" => r.todo # <<>>
  <2>1. \A x : <<x>> # <<>>
    OBVIOUS
  <2> HIDE DEF s
  <2>2. r.pc = "trim" => r.todo = <<s[Len(s)]>>
    BY <1>3
  <2> QED
    BY <2>1, <2>2
<1>6. ASSUME op'[o] = r
      PROVE  CallOK(o)'
  <2>1. Shape(o)'
    BY <1>1, <1>2, <1>3, <1>6, <1>14 DEF Shape, At, Holding, Locked, Writes, Removes
  <2>2. OwnFile(o)' = OwnFile(o) /\ NewVersion(o)' = NewVersion(o)
    BY <1>3, <1>6 DEF OwnFile, File, NewVersion
  <2>3. Placed(o)'
    BY <1>3, <1>6, <2>2 DEF Placed
  <2>4. Pushed(o)' = Pushed(o)
    BY <1>3, <1>6, <2>2 DEF Pushed
  <2>5. Putting(o)'
    BY <1>3, <1>4, <1>6, <2>2, <2>3, <2>4 DEF Putting, At
  <2>6. Deleting(o)' /\ Tagging(o)' /\ Renaming(o)' /\ Reading(o)'
    BY <1>2, <1>3, <1>6 DEF Deleting, Tagging, Renaming, Reading, At, Removes
  <2> QED
    BY <2>1, <2>5, <2>6 DEF CallOK
<1>7. OwnFile(o)[1] = op[o].key /\ (OwnFile(o) = <<op[o].key, o>> => op[o].mode = "Enabled")
      /\ (op[o].mode = "Enabled" => OwnFile(o) = <<op[o].key, o>>)
  BY NamesAssumption DEF OwnFile, File
<1>8. \A k \in Keys, i \in Ids : k # op[o].key \/ (i \in Ops /\ i # o) =>
        data'[<<k, i>>] = data[<<k, i>>] /\ tmp'[<<k, i>>] = tmp[<<k, i>>]
  <2> SUFFICES ASSUME NEW k \in Keys, NEW i \in Ids, k # op[o].key \/ (i \in Ops /\ i # o)
               PROVE  data'[<<k, i>>] = data[<<k, i>>] /\ tmp'[<<k, i>>] = tmp[<<k, i>>]
    OBVIOUS
  <2>1. OwnFile(o) # <<k, i>>
    BY NamesAssumption DEF OwnFile, File
  <2> QED
    BY <2>1
<1>9. data'[<<op[o].key, o>>] # None => r.mode = "Enabled"
  <2> SUFFICES ASSUME data'[<<op[o].key, o>>] # None, OwnFile(o) # <<op[o].key, o>> PROVE r.mode = "Enabled"
    BY <1>3, <1>7
  <2>1. data[<<op[o].key, o>>] # None
    BY <1>2 DEF Ids
  <2> QED
    BY <1>2, <1>3, <2>1 DEF IInv, StoredOK
<1>10. r.pc \in Locked
  BY <1>3 DEF Locked
<1>11. metaTmp' \in [Keys -> Seq(Version) \cup {None}]
  BY <1>2 DEF TypeOK
<1>12. r.kind \in {"put", "copy", "complete"} /\ r.pc \in {"seal", "clean", "trim", "wmeta", "rename"}
  BY <1>2, <1>3
<1>13. \A i \in Ops \ {o} : data'[<<op[o].key, i>>] \in {data[<<op[o].key, i>>], None}
  BY <1>2, <1>8 DEF Ids
<1> QED
  BY <1>1, <1>2, <1>3, <1>5, <1>6, <1>8, <1>9, <1>10, <1>11, <1>12, <1>13, DiskMove

LEMMA SwapKeeps == ASSUME IInv, NEW o \in Ops, Swap(o) PROVE IInv'
<1>1. op[o].pc = "swap" /\ Holding(o) /\ Writes(o) /\ ~ op[o].enc
  BY DEF Swap, At, Holding, Locked
<1>2. TypeOK /\ CallOK(o) /\ OwnFile(o) \in Keys \X Ids /\ op[o].body \in Bytes
  BY <1>1, PutState
<1>3. tmp[OwnFile(o)] = [bytes |-> op[o].body, by |-> None]
  BY <1>1, <1>2 DEF CallOK, Putting
<1>4. CASE tmp[OwnFile(o)] = None
  <2>1. Finish(o, "failed") /\ UNCHANGED <<disk, env>>
    BY <1>4 DEF Swap
  <2> QED
    BY <1>1, <2>1, QuietFinish DEF InFlight, Ended
<1>5. CASE tmp[OwnFile(o)] # None
  <2>1. /\ data' = [data EXCEPT ![OwnFile(o)] = tmp[OwnFile(o)]]
        /\ tmp' = [tmp EXCEPT ![OwnFile(o)] = None]
        /\ Becomes(o, Listed(o))
        /\ UNCHANGED <<meta, metaTmp, lock, env>>
    BY <1>5 DEF Swap
  <2>2. /\ data' \in [Keys \X Ids -> DataFile \cup {None}] /\ tmp' \in [Keys \X Ids -> DataFile \cup {None}]
        /\ \A f \in Keys \X Ids : f # OwnFile(o) => data'[f] = data[f] /\ tmp'[f] = tmp[f]
        /\ data'[OwnFile(o)] = tmp[OwnFile(o)]
    BY <1>2, <2>1 DEF TypeOK
  <2>3. data'[OwnFile(o)] = [bytes |-> op[o].body, by |-> IF op[o].enc THEN o ELSE None]
    BY <1>1, <1>3, <2>2
  <2> QED
    BY <1>1, <2>1, <2>2, <2>3, ListedKeeps
<1> QED
  BY <1>4, <1>5

LEMMA CleanTmpKeeps == ASSUME IInv, NEW o \in Ops, CleanTmp(o) PROVE IInv'
<1>1. op[o].pc = "clean"
  BY DEF CleanTmp, At
<1>2. CallOK(o) /\ Holding(o) /\ Writes(o) /\ op[o].enc
  BY <1>1, OpType DEF CallOK, Shape, Holding, Locked
<1>3. TypeOK /\ OwnFile(o) \in Keys \X Ids /\ op[o].body \in Bytes
  BY <1>2, PutState
<1>4. data[OwnFile(o)] = [bytes |-> op[o].body, by |-> IF op[o].enc THEN o ELSE None]
  BY <1>1, <1>2 DEF CallOK, Putting, Placed
<1>5. /\ tmp' = [tmp EXCEPT ![OwnFile(o)] = None]
      /\ Becomes(o, Listed(o))
      /\ UNCHANGED <<meta, metaTmp, data, lock, env>>
  BY DEF CleanTmp
<1>6. /\ data' \in [Keys \X Ids -> DataFile \cup {None}] /\ tmp' \in [Keys \X Ids -> DataFile \cup {None}]
      /\ \A f \in Keys \X Ids : f # OwnFile(o) => data'[f] = data[f] /\ tmp'[f] = tmp[f]
  BY <1>3, <1>5 DEF TypeOK
<1> QED
  BY <1>1, <1>2, <1>4, <1>5, <1>6, ListedKeeps

\* The cipher text is being written, or is written.
LEMMA SealKeeps ==
  ASSUME IInv, NEW o \in Ops, Writes(o), op[o].enc, NEW pc \in {"seal", "clean"}, NEW b \in Bytes,
         op[o].pc = IF pc = "seal" THEN "swap" ELSE "seal", pc = "clean" => b = op[o].body,
         UNCHANGED <<meta, metaTmp, tmp, lock, env>>,
         Becomes(o, [op[o] EXCEPT !.body = op[o].body, !.pc = pc]),
         data' = [data EXCEPT ![OwnFile(o)] = [bytes |-> b, by |-> o]]
  PROVE  IInv'
<1> DEFINE r == [op[o] EXCEPT !.body = op[o].body, !.pc = pc]
           f == [bytes |-> b, by |-> o]
<1>1. Holding(o)
  BY DEF Holding, Locked
<1>2. /\ TypeOK /\ CallOK(o) /\ op[o] \in CallState /\ op[o].key \in Keys
      /\ op[o].kind \in {"put", "copy"} /\ op[o].body \in Bytes /\ op[o].res # "ok"
      /\ op[o].mode \in Modes /\ OwnFile(o) \in Keys \X Ids
  BY <1>1, PutState
<1>3. /\ r \in CallState /\ r.pc = pc /\ r.om = op[o].om
      /\ r.key = op[o].key /\ r.kind = op[o].kind /\ r.mode = op[o].mode /\ r.body = op[o].body
      /\ r.etag = op[o].etag /\ r.enc = op[o].enc /\ r.arg = op[o].arg /\ r.res = op[o].res
  BY <1>2 DEF CallState, Pcs
<1>4. op[o].etag = op[o].body /\ op[o].om = meta[op[o].key]
  BY <1>2 DEF CallOK, Putting
<1>5. Becomes(o, r) /\ f \in DataFile /\ data' = [data EXCEPT ![OwnFile(o)] = f]
  BY DEF DataFile
<1>6. pc = "clean" => f = [bytes |-> r.body, by |-> IF r.enc THEN o ELSE None]
  BY <1>3
<1> HIDE DEF r, f
<1>7. data' \in [Keys \X Ids -> DataFile \cup {None}] /\ data'[OwnFile(o)] = f
  BY <1>2, <1>5 DEF TypeOK
<1>8. ASSUME op'[o] = r
      PROVE  CallOK(o)'
  <2>1. Shape(o)'
    BY <1>1, <1>2, <1>3, <1>8 DEF Shape, At, Holding, Locked, Writes, Removes
  <2>2. OwnFile(o)' = OwnFile(o)
    BY <1>3, <1>8 DEF OwnFile, File
  <2>3. pc = "clean" => Placed(o)'
    BY <1>3, <1>6, <1>7, <1>8, <2>2 DEF Placed
  <2>5. Putting(o)'
    BY <1>3, <1>4, <1>8, <2>2, <2>3 DEF Putting, At
  <2>6. Deleting(o)' /\ Tagging(o)' /\ Renaming(o)' /\ Reading(o)'
    BY <1>2, <1>3, <1>8 DEF Deleting, Tagging, Renaming, Reading, At, Removes
  <2> QED
    BY <2>1, <2>5, <2>6 DEF CallOK
<1>9. \A k \in Keys, i \in Ids : k # op[o].key \/ (i \in Ops /\ i # o) => data'[<<k, i>>] = data[<<k, i>>]
  <2> SUFFICES ASSUME NEW k \in Keys, NEW i \in Ids, k # op[o].key \/ (i \in Ops /\ i # o)
               PROVE  data'[<<k, i>>] = data[<<k, i>>]
    OBVIOUS
  <2>1. OwnFile(o) # <<k, i>>
    BY NamesAssumption DEF OwnFile, File
  <2> QED
    BY <1>2, <1>5, <2>1 DEF TypeOK
<1>10. data'[<<op[o].key, o>>] # None => r.mode = "Enabled"
  <2>1. CASE op[o].mode = "Enabled"
    BY <1>3, <2>1
  <2>2. CASE op[o].mode # "Enabled"
    <3>1. OwnFile(o) # <<op[o].key, o>>
      BY <2>2, NamesAssumption DEF OwnFile, File
    <3>2. data'[<<op[o].key, o>>] = data[<<op[o].key, o>>]
      BY <1>2, <1>5, <3>1 DEF TypeOK, Ids
    <3>3. data[<<op[o].key, o>>] # None => op[o].mode = "Enabled"
      BY <1>2 DEF IInv, StoredOK
    <3> QED
      BY <2>2, <3>2, <3>3
  <2> QED
    BY <2>1, <2>2
<1>11. r.pc \in Locked
  BY <1>3 DEF Locked
<1>12. metaTmp' \in [Keys -> Seq(Version) \cup {None}] /\ tmp' \in [Keys \X Ids -> DataFile \cup {None}]
  BY <1>2 DEF TypeOK
<1>13. r.kind \in {"put", "copy", "complete"} /\ r.pc \in {"seal", "clean", "trim", "wmeta", "rename"}
  BY <1>2, <1>3
<1>14. \A i \in Ops \ {o} : data'[<<op[o].key, i>>] \in {data[<<op[o].key, i>>], None}
  BY <1>2, <1>9 DEF Ids
<1> QED
  BY <1>1, <1>2, <1>3, <1>5, <1>7, <1>8, <1>9, <1>10, <1>11, <1>12, <1>13, <1>14, DiskMove

LEMMA SealOpenKeeps == ASSUME IInv, NEW o \in Ops, SealOpen(o) PROVE IInv'
<1>1. op[o].pc = "swap" /\ Holding(o) /\ Writes(o) /\ op[o].enc
  BY DEF SealOpen, At, Holding, Locked
<1>2. TypeOK /\ CallOK(o) /\ OwnFile(o) \in Keys \X Ids /\ op[o].body \in Bytes
  BY <1>1, PutState
<1>3. tmp[OwnFile(o)] = [bytes |-> op[o].body, by |-> None]
  BY <1>1, <1>2 DEF CallOK, Putting
<1>4. CASE tmp[OwnFile(o)] = None
  <2>1. Finish(o, "failed") /\ UNCHANGED <<disk, env>>
    BY <1>4 DEF SealOpen
  <2> QED
    BY <1>1, <2>1, QuietFinish DEF InFlight, Ended
<1>5. CASE tmp[OwnFile(o)] # None
  <2>1. tmp[OwnFile(o)].bytes = op[o].body
    BY <1>3
  <2>2. /\ Becomes(o, [op[o] EXCEPT !.body = op[o].body, !.pc = "seal"])
        /\ data' = [data EXCEPT ![OwnFile(o)] = [bytes |-> Torn, by |-> o]]
        /\ UNCHANGED <<meta, metaTmp, tmp, lock, env>>
    BY <1>5, <2>1 DEF SealOpen
  <2>3. Torn \in Bytes
    BY DEF Bytes
  <2> QED
    BY <1>1, <2>2, <2>3, SealKeeps
<1> QED
  BY <1>4, <1>5

LEMMA SealEndKeeps == ASSUME IInv, NEW o \in Ops, SealEnd(o) PROVE IInv'
<1>1. op[o].pc = "seal"
  BY DEF SealEnd, At
<1>2. CallOK(o) /\ Holding(o) /\ Writes(o) /\ op[o].enc
  BY <1>1, OpType DEF CallOK, Shape, Holding, Locked
<1>3. op[o].body \in Bytes /\ op[o] \in CallState
  BY <1>2, PutState
<1>4. [op[o] EXCEPT !.pc = "clean"] = [op[o] EXCEPT !.body = op[o].body, !.pc = "clean"]
  BY <1>3 DEF CallState
<1>5. Becomes(o, [op[o] EXCEPT !.body = op[o].body, !.pc = "clean"])
  BY <1>4 DEF SealEnd
<1> QED
  BY <1>1, <1>2, <1>3, <1>5, SealKeeps DEF SealEnd

LEMMA DropDataKeeps == ASSUME IInv, NEW o \in Ops, DropData(o) PROVE IInv'
<1> DEFINE k    == op[o].key
           i    == Head(op[o].todo).id
           rest == Tail(op[o].todo)
           next == IF rest # <<>> THEN op[o].pc
                   ELSE IF Writes(o) /\ At(o, "drop") THEN "swap"
                   ELSE IF ~ Writes(o) /\ op[o].om = <<>> THEN "rmmeta"
                   ELSE "wmeta"
           r    == [op[o] EXCEPT !.todo = rest, !.pc = next]
<1>1. op[o].pc \in {"drop", "trim"} /\ Holding(o) /\ op[o].todo # <<>>
  BY DEF DropData, Holding, Locked
<1>2. TypeOK /\ CallOK(o) /\ op[o] \in CallState
  BY OpType
<1>3. k \in Keys /\ op[o].res # "ok" /\ op[o].kind \in {"put", "copy", "delete", "expire"}
      /\ (Writes(o) => op[o].kind \in {"put", "copy"}) /\ (~ Writes(o) => Removes(o) /\ op[o].pc = "drop")
  BY <1>1, <1>2 DEF CallOK, Shape, At, Writes, Removes
<1>4. i \in Ids /\ rest \in Seq(Version)
  <2>1. op[o].todo \in Seq(Version)
    BY <1>2 DEF CallState
  <2>2. Head(op[o].todo) \in Version
    BY <1>1, <2>1
  <2> QED
    BY <1>1, <2>1, <2>2 DEF Version
<1>5. /\ data' = [data EXCEPT ![<<k, i>>] = None] /\ Becomes(o, r)
      /\ UNCHANGED <<meta, metaTmp, tmp, lock, env>>
  BY DEF DropData
<1>6. next \in Pcs /\ next \in Locked /\ next \in {op[o].pc, "swap", "rmmeta", "wmeta"}
  BY <1>1 DEF Pcs, Locked
<1>7. /\ next = "trim" => rest # <<>> /\ op[o].pc = "trim"
      /\ next = "drop" => rest # <<>> /\ op[o].pc = "drop"
      /\ next = "swap" => Writes(o) /\ op[o].pc = "drop"
      /\ next = "rmmeta" => ~ Writes(o) /\ op[o].om = <<>> /\ op[o].pc = "drop"
      /\ next = "wmeta" => rest = <<>> /\ (~ Writes(o) => op[o].om # <<>>) /\ (Writes(o) => op[o].pc = "trim")
  BY <1>1, <1>3 DEF At
<1> HIDE DEF rest, next
<1>8. r \in CallState
  BY <1>2, <1>4, <1>6, Updated
<1>9. /\ r.pc = next /\ r.todo = rest /\ r.key = k /\ r.kind = op[o].kind /\ r.mode = op[o].mode /\ r.om = op[o].om
      /\ r.body = op[o].body /\ r.etag = op[o].etag /\ r.enc = op[o].enc /\ r.arg = op[o].arg /\ r.res = op[o].res
  BY <1>2 DEF CallState
<1> HIDE DEF r
<1>10. /\ data' \in [Keys \X Ids -> DataFile \cup {None}]
       /\ \A l \in Keys, j \in Ids : data'[<<l, j>>] = IF l = k /\ j = i THEN None ELSE data[<<l, j>>]
  BY <1>2, <1>3, <1>4, <1>5 DEF TypeOK
<1>11. ASSUME Writes(o), op[o].pc = "trim"
       PROVE  i # o /\ rest = <<>>
  <2> DEFINE s == meta[k]
  <2>1. op[o].todo = <<s[Len(s)]>> /\ Len(s) >= MaxVersions
    BY <1>2, <1>11 DEF CallOK, Putting, At
  <2>2. Len(s) \in 1 .. Len(s)
    BY <1>3, <2>1, MetaType, BoundsAssumption
  <2>3. s[Len(s)].id # o
    BY <1>3, <1>11, <2>2, ListedEnded DEF At
  <2> HIDE DEF s
  <2> QED
    BY <2>1, <2>3 DEF rest
<1>12. ASSUME op'[o] = r
       PROVE  CallOK(o)'
  <2>1. Shape(o)'
    <3>1. next = "drop" => Writes(o) \/ Removes(o)
      BY <1>3
    <3> QED
      BY <1>1, <1>2, <1>3, <1>6, <1>7, <1>9, <1>12, <3>1 DEF CallOK, Shape, At, Holding, Locked, Writes, Removes
  <2>2. OwnFile(o)' = OwnFile(o) /\ NewVersion(o)' = NewVersion(o)
    BY <1>9, <1>12 DEF OwnFile, File, NewVersion
  <2>3. Putting(o)'
    <3> SUFFICES ASSUME Writes(o) PROVE Putting(o)'
      BY <1>9, <1>12 DEF Putting, Writes
    <3>1. op[o].kind \in {"put", "copy"} /\ next \in {"drop", "swap", "wmeta"}
      <4>1. next # "trim" /\ next # "rmmeta"
        BY <1>7, <1>11
      <4> QED
        BY <1>1, <1>3, <1>6, <4>1
    <3>2. CASE op[o].pc = "drop"
      <4>1. next \in {"drop", "swap"}
        BY <1>3, <1>6, <1>7, <3>1, <3>2
      <4> QED
        BY <1>2, <1>5, <1>9, <1>12, <2>2, <3>2, <4>1 DEF CallOK, Putting, At
    <3>3. CASE op[o].pc = "trim"
      <4>1. next = "wmeta"
        BY <1>7, <1>11, <3>1, <3>3
      <4>2. op[o].mode = "Enabled" /\ Placed(o) /\ op[o].om = Pushed(o) /\ op[o].etag = op[o].body
        BY <1>2, <3>3 DEF CallOK, Putting, At
      <4>3. OwnFile(o) = <<k, o>>
        BY <4>2 DEF OwnFile, File
      <4>4. data'[OwnFile(o)] = data[OwnFile(o)]
        BY <1>3, <1>10, <1>11, <3>3, <4>3 DEF Ids
      <4>5. Placed(o)' /\ Pushed(o)' = Pushed(o)
        BY <1>5, <1>9, <1>12, <2>2, <4>2, <4>4 DEF Placed, Pushed
      <4> QED
        BY <1>9, <1>12, <2>2, <4>1, <4>2, <4>5 DEF Putting, At
    <3> QED
      BY <1>1, <3>2, <3>3
  <2>4. Deleting(o)'
    <3> SUFFICES ASSUME Removes(o), op[o].pc = "drop" PROVE Deleting(o)'
      BY <1>1, <1>3, <1>9, <1>12 DEF Deleting, Removes, Writes
    <3>1. ~ Writes(o) /\ ~ Marking(o) /\ (Removing(o) \/ Clearing(o))
      BY <1>2 DEF CallOK, Deleting, Removes, Writes, Marking
    <3>2. CASE Removing(o)
      <4>1. PICK n \in 1 .. Len(meta[k]) : RemovingAt(o, n)
        BY <3>2 DEF Removing
      <4>2. op[o].todo = <<meta[k][n]>>
        BY <4>1 DEF RemovingAt, At
      <4>3. rest = <<>>
        <5> HIDE DEF k
        <5> QED
          BY <4>2 DEF rest
      <4>4. next \in {"rmmeta", "wmeta"} /\ (next = "wmeta" => op[o].om # <<>>) /\ (next = "rmmeta" => op[o].om = <<>>)
        BY <1>6, <1>7, <3>1, <4>3
      <4>5. RemovingAt(o, n)'
        BY <1>5, <1>9, <1>12, <4>1, <4>4 DEF RemovingAt, At
      <4>6. meta'[op'[o].key] = meta[k]
        BY <1>5, <1>9, <1>12
      <4> QED
        BY <4>5, <4>6 DEF Deleting, Removing
    <3>3. CASE Clearing(o)
      <4>1. op[o].arg = None /\ op[o].mode # "Enabled" /\ op[o].om = <<>>
        BY <3>3 DEF Clearing
      <4>2. next \in {"drop", "rmmeta"}
        BY <1>6, <1>7, <3>1, <4>1
      <4> QED
        BY <1>9, <1>12, <4>1, <4>2 DEF Deleting, Clearing
    <3> QED
      BY <3>1, <3>2, <3>3
  <2>5. Tagging(o)' /\ Renaming(o)' /\ Reading(o)'
    BY <1>1, <1>3, <1>6, <1>9, <1>12 DEF Tagging, Renaming, Reading, At
  <2> QED
    BY <2>1, <2>3, <2>4, <2>5 DEF CallOK
<1>13. data'[<<k, o>>] # None =>
           /\ r.kind \in {"put", "copy", "complete"} /\ r.mode = "Enabled"
           /\ r.pc \in {"seal", "clean", "trim", "wmeta", "rename"}
  <2> SUFFICES ASSUME data'[<<k, o>>] # None
               PROVE  /\ r.kind \in {"put", "copy", "complete"} /\ r.mode = "Enabled"
                      /\ r.pc \in {"seal", "clean", "trim", "wmeta", "rename"}
    OBVIOUS
  <2>1. data[<<k, o>>] # None
    BY <1>3, <1>10 DEF Ids
  <2>2. Writes(o) /\ op[o].mode = "Enabled" /\ op[o].pc = "trim"
    BY <1>1, <1>3, <2>1 DEF IInv, StoredOK
  <2> QED
    BY <1>3, <1>6, <1>7, <1>9, <1>11, <2>2
<1>14. /\ metaTmp' \in [Keys -> Seq(Version) \cup {None}] /\ tmp' \in [Keys \X Ids -> DataFile \cup {None}]
       /\ metaTmp' = metaTmp /\ tmp' = tmp
  BY <1>2, <1>5 DEF TypeOK
<1>15. \A l \in Keys : l # k => \A j \in Ids : data'[<<l, j>>] = data[<<l, j>>]
  BY <1>10
<1>16. \A j \in Ops \ {o} : data'[<<k, j>>] \in {data[<<k, j>>], None}
  BY <1>3, <1>10 DEF Ids
<1>17. r.pc \in Locked /\ r.key = k
  BY <1>6, <1>9
<1> QED
  BY <1>1, <1>5, <1>8, <1>10, <1>12, <1>13, <1>14, <1>15, <1>16, <1>17, DiskMove

LEMMA WriteMetaKeeps == ASSUME IInv, NEW o \in Ops, WriteMeta(o) PROVE IInv'
<1> DEFINE r == [op[o] EXCEPT !.pc = "rename"]
           k == op[o].key
<1>1. op[o].pc = "wmeta" /\ Holding(o)
  BY DEF WriteMeta, At, Holding, Locked
<1>2. TypeOK /\ CallOK(o) /\ op[o] \in CallState
  BY OpType
<1>3. k \in Keys /\ op[o].om \in Seq(Version) /\ op[o].res # "ok"
      /\ op[o].kind \in {"put", "copy", "tag", "delete", "expire"}
  BY <1>1, <1>2 DEF CallOK, Shape, At, CallState
<1>4. /\ r \in CallState /\ r.pc = "rename" /\ r.key = k /\ r.kind = op[o].kind /\ r.mode = op[o].mode
      /\ r.om = op[o].om /\ r.body = op[o].body /\ r.etag = op[o].etag /\ r.enc = op[o].enc /\ r.arg = op[o].arg
      /\ r.res = op[o].res /\ r.todo = op[o].todo
  BY <1>2 DEF CallState, Pcs
<1>5. /\ metaTmp' = [metaTmp EXCEPT ![k] = op[o].om] /\ Becomes(o, r)
      /\ UNCHANGED <<meta, data, tmp, lock, env>>
  BY DEF WriteMeta
<1> HIDE DEF r
<1>6. metaTmp' \in [Keys -> Seq(Version) \cup {None}] /\ metaTmp'[k] = op[o].om
      /\ \A l \in Keys : l # k => metaTmp'[l] = metaTmp[l]
  BY <1>2, <1>3, <1>5 DEF TypeOK
<1>7. ASSUME op'[o] = r
      PROVE  CallOK(o)'
  <2>1. Shape(o)'
    BY <1>1, <1>2, <1>3, <1>4, <1>7 DEF CallOK, Shape, At, Holding, Locked, Writes, Removes
  <2>2. OwnFile(o)' = OwnFile(o) /\ NewVersion(o)' = NewVersion(o) /\ Marker(o)' = Marker(o)
    BY <1>4, <1>7 DEF OwnFile, File, NewVersion, Marker
  <2>3. (Placed(o)' <=> Placed(o)) /\ Pushed(o)' = Pushed(o)
    BY <1>4, <1>5, <1>7, <2>2 DEF Placed, Pushed
  <2>4. Putting(o)'
    BY <1>1, <1>2, <1>4, <1>7, <2>3 DEF CallOK, Putting, At, Writes
  <2>5. (Marking(o)' <=> Marking(o)) /\ ~ Clearing(o)
    BY <1>1, <1>4, <1>5, <1>7, <2>2 DEF Marking, Clearing
  <2>6. Removing(o) => Removing(o)'
    BY <1>1, <1>4, <1>5, <1>7 DEF Removing, RemovingAt, At
  <2>7. Deleting(o)'
    BY <1>1, <1>2, <1>4, <1>7, <2>5, <2>6 DEF CallOK, Deleting, Removes
  <2>8. Tagging(o)'
    <3> SUFFICES ASSUME op[o].kind = "tag" PROVE Tagging(o)'
      BY <1>4, <1>7 DEF Tagging
    <3>1. PICK n \in 1 .. Len(meta[k]) : ~ meta[k][n].del /\ op[o].om = [meta[k] EXCEPT ![n].tag = o]
      BY <1>1, <1>2 DEF CallOK, Tagging
    <3>2. meta'[op'[o].key] = meta[k] /\ op'[o].om = op[o].om
      BY <1>4, <1>5, <1>7
    <3> HIDE DEF k
    <3> QED
      BY <3>1, <3>2 DEF Tagging
  <2>9. Renaming(o)' /\ Reading(o)'
    BY <1>3, <1>4, <1>6, <1>7 DEF Renaming, Reading
  <2> QED
    BY <2>1, <2>4, <2>7, <2>8, <2>9 DEF CallOK
<1>8. /\ data' = data /\ tmp' = tmp
      /\ data' \in [Keys \X Ids -> DataFile \cup {None}] /\ tmp' \in [Keys \X Ids -> DataFile \cup {None}]
  BY <1>2, <1>5 DEF TypeOK
<1>9. data'[<<k, o>>] # None =>
           /\ r.kind \in {"put", "copy", "complete"} /\ r.mode = "Enabled"
           /\ r.pc \in {"seal", "clean", "trim", "wmeta", "rename"}
  BY <1>3, <1>4, <1>8 DEF IInv, StoredOK, Writes
<1>10. r.pc \in Locked
  BY <1>4 DEF Locked
<1> QED
  BY <1>1, <1>4, <1>5, <1>6, <1>7, <1>8, <1>9, <1>10, DiskMove

-----------------------------------------------------------------------------
(* Steps that change the list of versions.                                 *)

\* What renaming the metadata file does to the list of versions of a key.
LEMMA Relisted ==
  ASSUME IInv, NEW o \in Ops, At(o, "rename")
  PROVE  LET k   == op[o].key
             old == meta[k]
             new == metaTmp[k]
         IN  /\ k \in Keys /\ Holding(o) /\ new # None /\ new = op[o].om
             /\ \/ Writes(o) /\ Placed(o) /\ op[o].etag = op[o].body /\ op[o].body \in Bytes /\ new = Pushed(o)
                \/ Removes(o) /\ Marking(o)
                \/ Removes(o) /\ Removing(o)
                \/ op[o].kind = "tag" /\ \E n \in 1 .. Len(old) : ~ old[n].del /\ new = [old EXCEPT ![n].tag = o]
<1>1. op[o].pc = "rename" /\ Holding(o) /\ CallOK(o) /\ op[o] \in CallState
  BY OpType DEF At, Holding, Locked
<1>2. op[o].key \in Keys /\ op[o].kind \in {"put", "copy", "tag", "delete", "expire"}
  BY <1>1 DEF CallOK, Shape, At
<1>3. metaTmp[op[o].key] = op[o].om /\ op[o].om # None
  BY <1>1, NamesAssumption DEF CallOK, Renaming, At, CallState
<1>4. Writes(o) => Placed(o) /\ op[o].etag = op[o].body /\ op[o].body \in Bytes /\ op[o].om = Pushed(o)
  BY <1>1 DEF CallOK, Putting, Shape
<1>5. Removes(o) => Marking(o) \/ Removing(o)
  BY <1>1 DEF CallOK, Deleting, Clearing
<1>6. op[o].kind = "tag" =>
        \E n \in 1 .. Len(meta[op[o].key]) :
          ~ meta[op[o].key][n].del /\ op[o].om = [meta[op[o].key] EXCEPT ![n].tag = o]
  BY <1>1 DEF CallOK, Tagging
<1> QED
  BY <1>1, <1>2, <1>3, <1>4, <1>5, <1>6 DEF Writes, Removes

\* Versions of calls other than the one that ends stay acknowledged.
LEMMA StillListed ==
  ASSUME IInv, NEW o \in Ops, ~ At(o, "done"), \A p \in Ops \ {o} : op'[p] = op[p],
         NEW k \in Keys, NEW n \in 1 .. Len(meta[k]), NEW v,
         v.id = meta[k][n].id, v.by = meta[k][n].by, v.etag = meta[k][n].etag, v.del = meta[k][n].del
  PROVE  VersionOK(k, v)'
<1>1. VersionOK(k, meta[k][n])
  BY MetaType
<1>2. meta[k][n].by \in Ops \ {o}
  BY ListedEnded
<1>3. op'[meta[k][n].by] = op[meta[k][n].by]
  BY <1>2
<1> QED
  BY <1>1, <1>3 DEF VersionOK, At, Writes, Removes

\* The call has replaced the list of its key by s, and ends.
LEMMA ListMove ==
  ASSUME IInv, NEW o \in Ops, op[o].pc \in {"rename", "rmmeta"}, Finish(o, "ok"),
         NEW k \in Keys, k = op[o].key, NEW s \in Seq(Version), meta' = [meta EXCEPT ![k] = s],
         metaTmp' \in [Keys -> Seq(Version) \cup {None}], \A l \in Keys : l # k => metaTmp'[l] = metaTmp[l],
         UNCHANGED <<data, tmp, env>>,
         op'[o] = Ending(o, "ok") /\ (\A p \in Ops \ {o} : op'[p] = op[p])
           => \A n \in 1 .. Len(s) : VersionOK(k, s[n])',
         UniqueIds(s),
         \A n \in 1 .. Len(s) :
           ~ s[n].del /\ s[n].id \in Ops /\ data[<<k, s[n].id>>] # None => Intact(k, s[n]),
         data[<<k, o>>] # None => data[<<k, o>>].bytes = op[o].etag
  PROVE  IInv'
<1>1. Holding(o) /\ InFlight(o) /\ ~ At(o, "done") /\ op[o].kind # "get"
  BY OpType DEF Holding, Locked, InFlight, Ended, At, CallOK, Shape
<1>2. /\ op' \in [Ops -> CallState] /\ op'[o] = Ending(o, "ok")
      /\ \A p \in Ops \ {o} : op'[p] = op[p]
      /\ LockOK' /\ line' \in [Keys -> Seq(Ops)] /\ inside' \subseteq Ops
      /\ CallOK(o)'
  BY <1>1, Finishes
<1>3. /\ op'[o].pc = "done" /\ op'[o].kind = op[o].kind /\ op'[o].key = op[o].key /\ op'[o].mode = op[o].mode
      /\ op'[o].etag = op[o].etag
  BY <1>2 DEF Ending, Idle
<1>4. meta \in [Keys -> Seq(Version)] /\ meta'[k] = s /\ \A l \in Keys : l # k => meta'[l] = meta[l]
  BY DEF IInv, TypeOK
<1>5. TypeOK'
  BY <1>2, <1>4 DEF IInv, TypeOK, env
<1>6. CallsOK'
  <2>1. Frame(o)
    BY <1>1, <1>2, <1>4 DEF Frame
  <2> QED
    BY <1>1, <1>2, <2>1, OthersKept DEF CallsOK
<1>7. ListsOK'
  <2> SUFFICES ASSUME NEW l \in Keys
               PROVE  /\ \A n \in 1 .. Len(meta'[l]) : \A v : v = meta'[l][n] => VersionOK(l, v)'
                      /\ UniqueIds(meta'[l])
    BY DEF ListsOK, UniqueIds, VersionOK
  <2>1. CASE l = k
    <3>1. \A n \in 1 .. Len(s) : VersionOK(k, s[n])'
      BY <1>2
    <3>2. meta'[l] = s
      BY <1>4, <2>1
    <3> QED
      BY <2>1, <3>1, <3>2
  <2>2. CASE l # k
    <3>1. ASSUME NEW n \in 1 .. Len(meta[l]), NEW v, v = meta[l][n]
          PROVE  VersionOK(l, v)'
      BY <1>1, <1>2, <3>1, StillListed
    <3> QED
      BY <1>4, <2>2, <3>1, MetaType
  <2> QED
    BY <2>1, <2>2
<1>8. StoredOK'
  <2> SUFFICES ASSUME NEW l \in Keys, NEW i \in Ops, data[<<l, i>>] # None
               PROVE  /\ Writes(i)' /\ op'[i].key = l /\ op'[i].mode = "Enabled"
                      /\ op'[i].pc \in {"seal", "clean", "trim", "wmeta", "rename", "done", "lost"}
                      /\ At(i, "done")' => data'[<<l, i>>].bytes = op'[i].etag
    BY DEF StoredOK
  <2>1. CASE i # o
    BY <1>2, <2>1 DEF IInv, StoredOK, At, Writes
  <2>2. CASE i = o
    <3>1. Writes(o) /\ op[o].key = l /\ op[o].mode = "Enabled"
      BY <2>2 DEF IInv, StoredOK
    <3> QED
      BY <1>3, <2>2, <3>1 DEF At, Writes
  <2> QED
    BY <2>1, <2>2
<1>9. SoundOK'
  <2> SUFFICES ASSUME NEW l \in Keys, NEW n \in 1 .. Len(meta'[l]),
                      ~ meta'[l][n].del, meta'[l][n].id \in Ops, data[<<l, meta'[l][n].id>>] # None
               PROVE  Intact(l, meta[l][n])'
    BY DEF SoundOK
  <2>1. CASE l = k
    BY <1>4, <2>1 DEF Intact
  <2>2. CASE l # k
    BY <1>4, <2>2 DEF IInv, SoundOK, Intact
  <2> QED
    BY <2>1, <2>2
<1> QED
  BY <1>2, <1>5, <1>6, <1>7, <1>8, <1>9 DEF IInv

LEMMA RemoveMetaKeeps == ASSUME IInv, NEW o \in Ops, RemoveMeta(o) PROVE IInv'
<1>1. op[o].pc = "rmmeta" /\ Finish(o, "ok") /\ UNCHANGED <<metaTmp, data, tmp, env>>
      /\ meta' = [meta EXCEPT ![op[o].key] = <<>>]
  BY DEF RemoveMeta, At
<1>2. op[o].key \in Keys /\ ~ Writes(o) /\ TypeOK
  BY <1>1, OpType DEF CallOK, Shape, At, Removes, Writes
<1>3. metaTmp' \in [Keys -> Seq(Version) \cup {None}]
  BY <1>1, <1>2 DEF TypeOK
<1>4. data[<<op[o].key, o>>] = None
  BY <1>2 DEF IInv, StoredOK
<1>5. UniqueIds(<<>>) /\ <<>> \in Seq(Version) /\ \A n \in 1 .. Len(<<>>) : FALSE
  BY DEF UniqueIds
<1>6. PICK k \in Keys : k = op[o].key
  BY <1>2
<1> QED
  BY <1>1, <1>3, <1>4, <1>5, <1>6, ListMove

\* A list with a new version on top.
LEMMA PushedSeq ==
  ASSUME IInv, NEW o \in Ops, Writes(o), Holding(o)
  PROVE  LET k == op[o].key
         IN  /\ Pushed(o) \in Seq(Version) /\ Len(Pushed(o)) >= 1 /\ Pushed(o)[1] = NewVersion(o)
             /\ op[o].mode # "Enabled" => Len(Pushed(o)) = 1
             /\ op[o].mode = "Enabled" =>
                  Len(Pushed(o)) = IF Len(meta[k]) < MaxVersions THEN Len(meta[k]) + 1 ELSE Len(meta[k])
             /\ \A n \in 2 .. Len(Pushed(o)) : n - 1 \in 1 .. Len(meta[k]) /\ Pushed(o)[n] = meta[k][n - 1]
<1> DEFINE s   == meta[op[o].key]
           v   == NewVersion(o)
           all == <<v>> \o s
<1>1. s \in Seq(Version) /\ Len(s) \in Nat /\ v \in Version
  BY PutState, MetaType, NewVersionType
<1>2. /\ all \in Seq(Version) /\ Len(all) = Len(s) + 1 /\ all[1] = v
      /\ \A j \in 2 .. Len(s) + 1 : all[j] = s[j - 1]
  BY <1>1, PrependSeq
<1>3. Pushed(o) = IF op[o].mode # "Enabled" THEN <<v>>
                  ELSE IF Len(all) <= MaxVersions THEN all ELSE SubSeq(all, 1, Len(all) - 1)
  BY DEF Pushed
<1> HIDE DEF s, v, all
<1>4. CASE op[o].mode # "Enabled"
  <2>1. Pushed(o) = <<v>>
    BY <1>3, <1>4
  <2>2. <<v>> \in Seq(Version) /\ Len(<<v>>) = 1 /\ <<v>>[1] = v
    BY <1>1
  <2> QED
    BY <1>4, <2>1, <2>2 DEF v, s
<1>5. CASE op[o].mode = "Enabled" /\ Len(all) <= MaxVersions
  <2>1. Pushed(o) = all /\ Len(s) < MaxVersions
    BY <1>1, <1>2, <1>3, <1>5, BoundsAssumption
  <2> QED
    BY <1>1, <1>2, <1>5, <2>1 DEF v, s
<1>6. CASE op[o].mode = "Enabled" /\ ~ (Len(all) <= MaxVersions)
  <2> DEFINE c == SubSeq(all, 1, Len(all) - 1)
  <2>1. Pushed(o) = c /\ ~ Len(s) < MaxVersions /\ Len(s) >= 1
    BY <1>1, <1>2, <1>3, <1>6, BoundsAssumption
  <2>2. c \in Seq(Version) /\ Len(c) = Len(s) /\ \A j \in 1 .. Len(s) : c[j] = all[j]
    BY <1>1, <1>2
  <2> HIDE DEF c
  <2> QED
    BY <1>1, <1>2, <1>6, <2>1, <2>2 DEF v, s
<1> QED
  BY <1>4, <1>5, <1>6

LEMMA RenameMetaKeeps == ASSUME IInv, NEW o \in Ops, RenameMeta(o) PROVE IInv'
<1> DEFINE old == meta[op[o].key]
<1>0. PICK new : new = metaTmp[op[o].key]
  OBVIOUS
<1>1. /\ op[o].key \in Keys /\ Holding(o) /\ new # None /\ new = op[o].om
      /\ \/ Writes(o) /\ Placed(o) /\ op[o].etag = op[o].body /\ op[o].body \in Bytes /\ new = Pushed(o)
         \/ Removes(o) /\ Marking(o)
         \/ Removes(o) /\ Removing(o)
         \/ op[o].kind = "tag" /\ \E n \in 1 .. Len(old) : ~ old[n].del /\ new = [old EXCEPT ![n].tag = o]
  BY <1>0, Relisted DEF RenameMeta
<1>2. PICK k \in Keys : k = op[o].key
  BY <1>1
<1>3. /\ op[o].pc = "rename" /\ ~ At(o, "done") /\ Finish(o, "ok") /\ UNCHANGED <<data, tmp, env>>
      /\ meta' = [meta EXCEPT ![k] = new] /\ metaTmp' = [metaTmp EXCEPT ![k] = None]
  BY <1>0, <1>1, <1>2 DEF RenameMeta, At
<1>4. TypeOK /\ CallOK(o) /\ op[o] \in CallState /\ new \in Seq(Version)
      /\ metaTmp' \in [Keys -> Seq(Version) \cup {None}] /\ \A l \in Keys : l # k => metaTmp'[l] = metaTmp[l]
  BY <1>1, <1>3, OpType DEF TypeOK, CallState
<1>5. old \in Seq(Version) /\ Len(old) \in Nat /\ UniqueIds(old)
  BY <1>1, MetaType
<1>6. ASSUME NEW n \in 1 .. Len(old), ~ old[n].del, old[n].id \in Ops, data[<<k, old[n].id>>] # None
      PROVE  Intact(k, old[n])
  BY <1>2, <1>6 DEF IInv, SoundOK
<1>7. ~ Writes(o) => data[<<k, o>>] = None
  BY DEF IInv, StoredOK
<1>8. op'[o] = Ending(o, "ok") =>
        /\ op'[o].pc = "done" /\ op'[o].res = "ok" /\ op'[o].kind = op[o].kind /\ op'[o].key = op[o].key
        /\ op'[o].mode = op[o].mode /\ op'[o].etag = op[o].etag
  BY DEF Ending, Idle
<1>9. \A n \in 1 .. Len(old) : old[n].id # o
  BY <1>1, <1>3, ListedEnded
\* A put.
<1>10. CASE Writes(o) /\ Placed(o) /\ op[o].etag = op[o].body /\ op[o].body \in Bytes /\ new = Pushed(o)
  <2> DEFINE v == NewVersion(o)
  <2>1. /\ Len(new) >= 1 /\ new[1] = v /\ (op[o].mode # "Enabled" => Len(new) = 1)
        /\ \A n \in 2 .. Len(new) : n - 1 \in 1 .. Len(old) /\ new[n] = old[n - 1]
    BY <1>1, <1>10, PushedSeq
  <2>2. /\ v.by = o /\ v.etag = op[o].etag /\ v.enc = op[o].enc /\ ~ v.del
        /\ v.id = IF op[o].mode = "Enabled" THEN o ELSE NullId
    BY DEF NewVersion, OwnFile, File
  <2> HIDE DEF v, old
  <2>3. ASSUME op'[o] = Ending(o, "ok"), \A p \in Ops \ {o} : op'[p] = op[p], NEW n \in 1 .. Len(new)
        PROVE  VersionOK(k, new[n])'
    <3>1. CASE n = 1
      BY <1>2, <1>8, <1>10, <2>1, <2>2, <2>3, <3>1 DEF VersionOK, At, Writes
    <3>2. CASE n # 1
      <4>1. n - 1 \in 1 .. Len(old) /\ new[n] = old[n - 1]
        BY <1>4, <2>1, <3>2
      <4> QED
        BY <1>2, <1>3, <2>3, <4>1, StillListed DEF old
    <3> QED
      BY <3>1, <3>2
  <2>4. UniqueIds(new)
    <3> SUFFICES ASSUME NEW m \in 1 .. Len(new), NEW n \in 1 .. Len(new), new[m].id = new[n].id, m < n PROVE FALSE
      <4>1. \A m, n \in 1 .. Len(new) : new[m].id = new[n].id /\ m < n => FALSE
        OBVIOUS
      <4> QED
        BY <1>4, <4>1 DEF UniqueIds
    <3>1. n - 1 \in 1 .. Len(old) /\ new[n] = old[n - 1] /\ op[o].mode = "Enabled"
      BY <1>4, <2>1
    <3>2. CASE m = 1
      BY <1>9, <2>1, <2>2, <3>1, <3>2
    <3>3. CASE m # 1
      <4>1. m - 1 \in 1 .. Len(old) /\ new[m] = old[m - 1]
        BY <1>4, <2>1, <3>3
      <4>2. m - 1 = n - 1
        BY <1>5, <3>1, <4>1 DEF UniqueIds
      <4> QED
        BY <1>4, <4>2
    <3> QED
      BY <3>2, <3>3
  <2>5. ASSUME NEW n \in 1 .. Len(new), ~ new[n].del, new[n].id \in Ops, data[<<k, new[n].id>>] # None
        PROVE  Intact(k, new[n])
    <3>1. CASE n = 1
      <4>1. op[o].mode = "Enabled" /\ new[n] = v /\ OwnFile(o) = <<k, o>> /\ v.id = o
        BY <1>2, <2>1, <2>2, <2>5, <3>1, NamesAssumption DEF OwnFile, File
      <4> QED
        BY <1>10, <2>2, <4>1 DEF Placed, Intact
    <3>2. CASE n # 1
      <4>1. n - 1 \in 1 .. Len(old) /\ new[n] = old[n - 1]
        BY <1>4, <2>1, <3>2
      <4> QED
        BY <1>6, <2>5, <4>1
    <3> QED
      BY <3>1, <3>2
  <2>6. data[<<k, o>>] # None => data[<<k, o>>].bytes = op[o].etag
    <3> SUFFICES ASSUME data[<<k, o>>] # None PROVE data[<<k, o>>].bytes = op[o].etag
      OBVIOUS
    <3>1. op[o].mode = "Enabled"
      BY DEF IInv, StoredOK
    <3>2. OwnFile(o) = <<k, o>>
      BY <1>2, <3>1 DEF OwnFile, File
    <3> QED
      BY <1>10, <3>2 DEF Placed
  <2> QED
    BY <1>2, <1>3, <1>4, <2>3, <2>4, <2>5, <2>6, ListMove
\* A delete that leaves a marker.
<1>11. CASE Removes(o) /\ Marking(o)
  <2> DEFINE v == Marker(o)
  <2>1. new = <<v>> \o old /\ op[o].mode = "Enabled" /\ ~ Writes(o)
    BY <1>1, <1>11 DEF Marking, Removes, Writes
  <2>2. v.by = o /\ v.del /\ v.id = o /\ v \in Version
    BY MarkerType DEF Marker
  <2> HIDE DEF v, old
  <2>3. Len(new) = Len(old) + 1 /\ new[1] = v /\ \A n \in 2 .. Len(old) + 1 : new[n] = old[n - 1]
    BY <1>5, <2>1, <2>2, PrependSeq
  <2>4. ASSUME op'[o] = Ending(o, "ok"), \A p \in Ops \ {o} : op'[p] = op[p], NEW n \in 1 .. Len(new)
        PROVE  VersionOK(k, new[n])'
    <3>1. CASE n = 1
      BY <1>2, <1>8, <1>11, <2>1, <2>2, <2>3, <2>4, <3>1 DEF VersionOK, At, Removes
    <3>2. CASE n # 1
      <4>1. n - 1 \in 1 .. Len(old) /\ new[n] = old[n - 1]
        BY <1>5, <2>3, <3>2
      <4> QED
        BY <1>2, <1>3, <2>4, <4>1, StillListed DEF old
    <3> QED
      BY <3>1, <3>2
  <2>5. UniqueIds(new)
    <3> SUFFICES ASSUME NEW m \in 1 .. Len(new), NEW n \in 1 .. Len(new), new[m].id = new[n].id, m < n PROVE FALSE
      <4>1. \A m, n \in 1 .. Len(new) : new[m].id = new[n].id /\ m < n => FALSE
        OBVIOUS
      <4> QED
        BY <1>4, <4>1 DEF UniqueIds
    <3>1. n - 1 \in 1 .. Len(old) /\ new[n] = old[n - 1]
      BY <1>5, <2>3
    <3>2. CASE m = 1
      BY <1>9, <2>2, <2>3, <3>1, <3>2
    <3>3. CASE m # 1
      <4>1. m - 1 \in 1 .. Len(old) /\ new[m] = old[m - 1]
        BY <1>5, <2>3, <3>3
      <4>2. m - 1 = n - 1
        BY <1>5, <3>1, <4>1 DEF UniqueIds
      <4> QED
        BY <1>4, <4>2
    <3> QED
      BY <3>2, <3>3
  <2>6. ASSUME NEW n \in 1 .. Len(new), ~ new[n].del, new[n].id \in Ops, data[<<k, new[n].id>>] # None
        PROVE  Intact(k, new[n])
    <3>1. n # 1
      BY <2>2, <2>3, <2>6
    <3>2. n - 1 \in 1 .. Len(old) /\ new[n] = old[n - 1]
      BY <1>5, <2>3, <3>1
    <3> QED
      BY <1>6, <2>6, <3>2
  <2> QED
    BY <1>2, <1>3, <1>4, <1>7, <2>1, <2>4, <2>5, <2>6, ListMove
\* A delete of one version.
<1>12. CASE Removes(o) /\ Removing(o)
  <2>1. PICK i \in 1 .. Len(old) : op[o].om = Without(old, i)
    BY <1>12 DEF Removing, RemovingAt
  <2>2. new = Without(old, i) /\ ~ Writes(o)
    BY <1>1, <1>12, <2>1 DEF Removes, Writes
  <2> HIDE DEF old
  <2>3. Len(new) = Len(old) - 1 /\ \A j \in 1 .. Len(old) - 1 : new[j] = IF j < i THEN old[j] ELSE old[j + 1]
    BY <1>5, <2>2, WithoutSeq
  <2> DEFINE at(j) == IF j < i THEN j ELSE j + 1
  <2>4. \A j \in 1 .. Len(new) : at(j) \in 1 .. Len(old) /\ new[j] = old[at(j)]
    BY <1>5, <2>3
  <2>5. \A j, m \in 1 .. Len(new) : at(j) = at(m) => j = m
    BY <1>4
  <2> HIDE DEF at
  <2>6. UniqueIds(new)
    BY <1>5, <2>4, <2>5 DEF UniqueIds
  <2>7. ASSUME op'[o] = Ending(o, "ok"), \A p \in Ops \ {o} : op'[p] = op[p], NEW n \in 1 .. Len(new)
        PROVE  VersionOK(k, new[n])'
    BY <1>2, <1>3, <2>4, <2>7, StillListed DEF old
  <2>8. ASSUME NEW n \in 1 .. Len(new), ~ new[n].del, new[n].id \in Ops, data[<<k, new[n].id>>] # None
        PROVE  Intact(k, new[n])
    BY <1>6, <2>4, <2>8
  <2> QED
    BY <1>2, <1>3, <1>4, <1>7, <2>2, <2>6, <2>7, <2>8, ListMove
\* Tags.
<1>13. CASE op[o].kind = "tag" /\ \E n \in 1 .. Len(old) : ~ old[n].del /\ new = [old EXCEPT ![n].tag = o]
  <2>1. PICK i \in 1 .. Len(old) : new = [old EXCEPT ![i].tag = o]
    BY <1>13
  <2>2. /\ Len(new) = Len(old)
        /\ \A j \in 1 .. Len(old) :
             /\ new[j].id = old[j].id /\ new[j].by = old[j].by /\ new[j].etag = old[j].etag
             /\ new[j].enc = old[j].enc /\ new[j].del = old[j].del
    BY <1>5, <2>1, TaggedSeq
  <2>3. ~ Writes(o)
    BY <1>13 DEF Writes
  <2> HIDE DEF old
  <2>4. UniqueIds(new)
    BY <1>5, <2>2 DEF UniqueIds
  <2>5. ASSUME op'[o] = Ending(o, "ok"), \A p \in Ops \ {o} : op'[p] = op[p], NEW n \in 1 .. Len(new)
        PROVE  VersionOK(k, new[n])'
    BY <1>2, <1>3, <2>2, <2>5, StillListed DEF old
  <2>6. ASSUME NEW n \in 1 .. Len(new), ~ new[n].del, new[n].id \in Ops, data[<<k, new[n].id>>] # None
        PROVE  Intact(k, new[n])
    <3>1. Intact(k, old[n])
      BY <1>6, <2>2, <2>6
    <3> QED
      BY <2>2, <3>1 DEF Intact
  <2> QED
    BY <1>2, <1>3, <1>4, <1>7, <2>3, <2>4, <2>5, <2>6, ListMove
<1> QED
  BY <1>1, <1>10, <1>11, <1>12, <1>13

-----------------------------------------------------------------------------
(* The invariant.                                                          *)

LEMMA Inductive ==
  ASSUME IInv, "complete" \notin Kinds, [Next]_vars
  PROVE  IInv'
<1>1. CASE \E o \in Ops : Call(o) \/ Step(o) \/ HangUp(o) \/ Age(o)
  <2>1. PICK o \in Ops : Call(o) \/ Step(o) \/ HangUp(o) \/ Age(o)
    BY <1>1
  <2>2. CASE Call(o)
    BY <2>2, CallsKeep
  <2>3. CASE Step(o)
    BY <2>3, AcquireKeeps, PutOpenKeeps, StreamEndKeeps, StreamFailKeeps, HashKeeps, ReadMetaKeeps, SwapKeeps,
       SealOpenKeeps, SealEndKeeps, CleanTmpKeeps, DropDataKeeps, WriteMetaKeeps, RenameMetaKeeps, RemoveMetaKeeps,
       DeleteAskKeeps, DeleteReadKeeps, TagReadKeeps, ExpireScanKeeps, GetHeadKeeps, GetLookKeeps, UnsealKeeps,
       StatKeeps, OpenKeeps DEF Step
  <2>4. CASE HangUp(o)
    BY <2>4, HangUpKeeps
  <2>5. CASE Age(o)
    <3>1. UNCHANGED <<versioning, disk, lock, op, crashes>> /\ aged' = aged \cup {o}
      BY <2>5 DEF Age
    <3> QED
      BY <3>1, Still DEF IInv, TypeOK
  <2> QED
    BY <2>1, <2>2, <2>3, <2>4, <2>5
<1>2. CASE SetVersioning
  <2>1. UNCHANGED <<disk, lock, op, aged, crashes>> /\ versioning' \in Modes
    BY <1>2 DEF SetVersioning
  <2> QED
    BY <2>1, Still DEF IInv, TypeOK
<1>3. CASE Crash
  BY <1>3, CrashKeeps
<1>4. CASE UNCHANGED vars
  BY <1>4, Still DEF IInv, TypeOK, vars, disk, lock
<1> QED
  BY <1>1, <1>2, <1>3, <1>4 DEF Next

\* The inductive invariant: as long as no upload is completed, a call with the lock
\* of its key finds the files of the key as it left them.
THEOREM Invariance == ASSUME "complete" \notin Kinds PROVE Spec => []IInv
<1>1. IInv /\ [Next]_vars => IInv'
  BY Inductive
<1> QED
  BY <1>1, Initial, PTL DEF Spec

\* Every variable keeps its type, the states of the calls included.
THEOREM Typed == ASSUME "complete" \notin Kinds PROVE Spec => []TypeOK
<1>1. IInv => TypeOK
  BY DEF IInv
<1> QED
  BY <1>1, Invariance, PTL

\* A GET of a version by its id answers that version's bytes under its ETag, whatever
\* is put, deleted, tagged or expired meanwhile, and whatever crashes.
THEOREM VersionReads == ASSUME "complete" \notin Kinds PROVE Spec => []VersionReadsExact
<1>1. IInv => VersionReadsExact
  BY DEF IInv, CallsOK, CallOK, Shape, Reading, VersionReadsExact, At
<1> QED
  BY <1>1, Invariance, PTL

-----------------------------------------------------------------------------
(* What a step leaves alone.                                               *)

\* The calls, but for the end of the process.
Act(o) == (Call(o) \/ Step(o) \/ HangUp(o)) /\ ~ Restart

LEMMA EndKey ==
  ASSUME NEW o, NEW res
  PROVE  LET r == Ending(o, res)
         IN  /\ r.key = op[o].key /\ r.pc = "done" /\ r.res = res /\ r.kind = op[o].kind
             /\ r.mode = op[o].mode /\ r.arg = op[o].arg /\ r.etag = op[o].etag
BY DEF Ending, Idle

\* Only the call changes, and while it has a lock it keeps its key.
LEMMA OneCall ==
  ASSUME IInv, "complete" \notin Kinds, NEW o \in Ops, Act(o)
  PROVE  /\ \A p \in Ops \ {o} : op'[p] = op[p]
         /\ Holding(o) => op'[o].key = op[o].key
<1> DEFINE One == \E r : op' = [op EXCEPT ![o] = r] /\ (Holding(o) => r.key = op[o].key)
<1>1. op \in [Ops -> CallState] /\ op[o] \in CallState
  BY OpType DEF TypeOK
<1>2. ASSUME NEW res, Finish(o, res)
      PROVE  One
  <2>1. op' = [op EXCEPT ![o] = Ending(o, res)]
    BY <1>2 DEF Finish
  <2>2. Ending(o, res).key = op[o].key
    BY EndKey
  <2> QED
    BY <2>1, <2>2
<1>3. CASE Call(o)
  <2>1. ASSUME NEW r, Made(o, r)
        PROVE  One
    BY <2>1 DEF Made, Becomes, At, Holding, Locked
  <2>2. One
    BY <1>3, <2>1 DEF Call, PutCall, CopyCall, CompleteCall, DeleteCall, TagCall, GetCall, ExpireCall
  <2> QED
    BY <1>1, <2>2
<1>5. ASSUME NEW r, Becomes(o, r), r.key = op[o].key
      PROVE  One
  BY <1>5 DEF Becomes
<1>4. CASE HangUp(o)
  <2>1. [op[o] EXCEPT !.gone = TRUE].key = op[o].key
    BY <1>1 DEF CallState
  <2>2. One
    BY <1>4, <1>5, <2>1 DEF HangUp
  <2> QED
    BY <1>1, <2>2
<1> HIDE DEF One
<1>6. CASE \/ Acquire(o) \/ PutOpen(o) \/ StreamEnd(o) \/ StreamFail(o) \/ ReadMeta(o) \/ SealEnd(o)
           \/ Hash(o) \/ SealOpen(o) \/ TagRead(o) \/ DropData(o) \/ WriteMeta(o)
  <2> SUFFICES One
    BY <1>1 DEF One
  <2>1. CASE Acquire(o)
    BY <1>1, <1>5, <2>1 DEF Acquire, CallState
  <2>2. CASE PutOpen(o)
    BY <1>1, <1>5, <2>2 DEF PutOpen, CallState
  <2>3. CASE StreamEnd(o) \/ SealEnd(o)
    BY <1>1, <1>5, <2>3 DEF StreamEnd, SealEnd, CallState
  <2>4. CASE StreamFail(o)
    BY <1>2, <2>4 DEF StreamFail
  <2>5. CASE ReadMeta(o)
    BY <1>1, <1>5, <2>5 DEF ReadMeta, CallState
  <2>6. CASE Hash(o)
    <3>1. /\ [op[o] EXCEPT !.etag = op[o].body, !.pc = "read"].key = op[o].key
          /\ [op[o] EXCEPT !.etag = tmp[OwnFile(o)].bytes, !.pc = "read"].key = op[o].key
      BY <1>1 DEF CallState
    <3> QED
      BY <1>2, <1>5, <2>6, <3>1 DEF Hash
  <2>7. CASE SealOpen(o)
    <3>1. [op[o] EXCEPT !.body = tmp[OwnFile(o)].bytes, !.pc = "seal"].key = op[o].key
      BY <1>1 DEF CallState
    <3> QED
      BY <1>2, <1>5, <2>7, <3>1 DEF SealOpen
  <2>8. CASE TagRead(o)
    <3>1. \A s : [op[o] EXCEPT !.om = s, !.pc = "wmeta"].key = op[o].key
      BY <1>1 DEF CallState
    <3> QED
      BY <1>2, <1>5, <2>8, <3>1 DEF TagRead
  <2>9. CASE DropData(o)
    <3>1. \A s, pc : [op[o] EXCEPT !.todo = s, !.pc = pc].key = op[o].key
      BY <1>1 DEF CallState
    <3> QED
      BY <1>5, <2>9, <3>1 DEF DropData
  <2>10. CASE WriteMeta(o)
    BY <1>1, <1>5, <2>10 DEF WriteMeta, CallState
  <2> QED
    BY <1>6, <2>1, <2>2, <2>3, <2>4, <2>5, <2>6, <2>7, <2>8, <2>9, <2>10
<1>7. CASE Swap(o) \/ CleanTmp(o)
  <2>1. Listed(o).key = op[o].key
    BY <1>1 DEF Listed, CallState
  <2>2. One
    BY <1>2, <1>5, <1>7, <2>1 DEF Swap, CleanTmp
  <2> QED
    BY <1>1, <2>2 DEF One
<1>8. CASE RenameMeta(o) \/ RemoveMeta(o)
  <2>1. One
    BY <1>2, <1>8 DEF RenameMeta, RemoveMeta
  <2> QED
    BY <1>1, <2>1 DEF One
<1>9. CASE DeleteAsk(o) \/ ExpireScan(o) \/ GetHead(o) \/ GetLook(o) \/ Stat(o)
  <2>1. ~ Holding(o)
    BY <1>9 DEF DeleteAsk, ExpireScan, GetHead, GetLook, Stat, At, Holding, Locked
  <2>2. One
    BY <1>2, <1>9, <2>1 DEF DeleteAsk, ExpireScan, GetHead, GetLook, Stat, Becomes, One
  <2> QED
    BY <1>1, <2>2 DEF One
<1>10. CASE DeleteRead(o)
  <2>1. One
    BY <1>1, <1>2, <1>5, <1>10 DEF DeleteRead, CallState
  <2> QED
    BY <1>1, <2>1 DEF One
<1>11. CASE Unseal(o) \/ Open(o)
  <2>1. ~ Holding(o)
    BY <1>11 DEF Unseal, Open, At, Holding, Locked
  <2>2. ASSUME NEW b, Served(o, b)
        PROVE  One
    BY <2>1, <2>2 DEF Served, Becomes, One
  <2>3. One
    BY <1>2, <1>11, <2>2 DEF Unseal, Open, Act
  <2> QED
    BY <1>1, <2>3 DEF One
<1> QED
  BY <1>3, <1>4, <1>6, <1>7, <1>8, <1>9, <1>10, <1>11 DEF Act, Step

\* Only a call with a lock changes files, and only those of its key.
LEMMA Framed ==
  ASSUME IInv, "complete" \notin Kinds, NEW o \in Ops, Act(o)
  PROVE  Frame(o) /\ (UNCHANGED disk \/ Holding(o))
<1>1. TypeOK /\ CallOK(o)
  BY OpType
<1> DEFINE Same == \A k \in Keys : k # op[o].key =>
                     /\ meta'[k] = meta[k] /\ metaTmp'[k] = metaTmp[k]
                     /\ \A i \in Ids : data'[<<k, i>>] = data[<<k, i>>] /\ tmp'[<<k, i>>] = tmp[<<k, i>>]
<1>2. ~ CompleteCall(o)
  <2> SUFFICES ASSUME CompleteCall(o) PROVE FALSE
    OBVIOUS
  <2>1. PICK k \in Keys, e \in Encs, b \in {o} \cup Empties :
          Made(o, [Idle EXCEPT !.kind = "complete", !.key = k, !.enc = e, !.body = b,
                               !.mode = versioning, !.pc = "stream"])
    BY DEF CompleteCall
  <2> QED
    BY <2>1 DEF Made, Idle
<1>3. CASE UNCHANGED disk
  BY <1>3, OneCall DEF Frame, disk
<1>4. ASSUME Holding(o), Same
      PROVE  Frame(o)
  BY <1>4, OneCall DEF Frame
<1>5. CASE PutOpen(o) \/ StreamEnd(o) \/ CleanTmp(o)
  <2>1. Holding(o)
    BY <1>5 DEF PutOpen, StreamEnd, CleanTmp, At, Holding, Locked
  <2>2. \A m, i : \A k \in Keys : k # op[o].key => File(o, m) # <<k, i>>
    BY DEF File
  <2>3. Same
    BY <1>1, <1>5, <2>2 DEF PutOpen, StreamEnd, CleanTmp, OwnFile, TypeOK
  <2> QED
    BY <1>4, <2>1, <2>3
<1>6. CASE Swap(o) \/ SealOpen(o) \/ SealEnd(o)
  <2>1. Holding(o)
    BY <1>6 DEF Swap, SealOpen, SealEnd, At, Holding, Locked
  <2>2. \A m, i : \A k \in Keys : k # op[o].key => File(o, m) # <<k, i>>
    BY DEF File
  <2>3. Same
    BY <1>1, <1>6, <2>2 DEF Swap, SealOpen, SealEnd, OwnFile, TypeOK, disk
  <2> QED
    BY <1>4, <2>1, <2>3
<1>7. CASE DropData(o) \/ WriteMeta(o) \/ RenameMeta(o) \/ RemoveMeta(o)
  <2>1. Holding(o)
    BY <1>7 DEF DropData, WriteMeta, RenameMeta, RemoveMeta, At, Holding, Locked
  <2>2. Same
    BY <1>1, <1>7 DEF DropData, WriteMeta, RenameMeta, RemoveMeta, TypeOK, disk
  <2> QED
    BY <1>4, <2>1, <2>2
<1>8. CASE UNCHANGED disk \/ PutOpen(o) \/ StreamEnd(o) \/ CleanTmp(o) \/ Swap(o) \/ SealOpen(o) \/ SealEnd(o)
           \/ DropData(o) \/ WriteMeta(o) \/ RenameMeta(o) \/ RemoveMeta(o)
  <2>1. PutOpen(o) \/ StreamEnd(o) \/ CleanTmp(o) \/ Swap(o) \/ SealOpen(o) \/ SealEnd(o)
           \/ DropData(o) \/ WriteMeta(o) \/ RenameMeta(o) \/ RemoveMeta(o) => Holding(o)
    BY DEF PutOpen, StreamEnd, CleanTmp, Swap, SealOpen, SealEnd, DropData, WriteMeta, RenameMeta, RemoveMeta,
           At, Holding, Locked
  <2> QED
    BY <1>3, <1>5, <1>6, <1>7, <1>8, <2>1
<1>9. \/ UNCHANGED disk \/ PutOpen(o) \/ StreamEnd(o) \/ CleanTmp(o) \/ Swap(o) \/ SealOpen(o) \/ SealEnd(o)
      \/ DropData(o) \/ WriteMeta(o) \/ RenameMeta(o) \/ RemoveMeta(o)
  <2>1. Call(o) => UNCHANGED disk
    BY <1>2 DEF Call, PutCall, CopyCall, DeleteCall, TagCall, GetCall, ExpireCall
  <2>2. HangUp(o) \/ Acquire(o) \/ StreamFail(o) \/ Hash(o) \/ ReadMeta(o) \/ DeleteAsk(o) \/ DeleteRead(o)
        \/ TagRead(o) \/ ExpireScan(o) \/ GetHead(o) \/ GetLook(o) \/ Unseal(o) \/ Stat(o) \/ Open(o)
        => UNCHANGED disk
    BY DEF HangUp, Acquire, StreamFail, Hash, ReadMeta, DeleteAsk, DeleteRead, TagRead, ExpireScan, GetHead,
           GetLook, Unseal, Stat, Open
  <2> QED
    BY <2>1, <2>2 DEF Act, Step
<1> QED
  BY <1>8, <1>9

LEMMA Turn ==
  ASSUME IInv, NEW o \in Ops, NEW r, Becomes(o, r)
  PROVE  op'[o] = r
BY OpType DEF TypeOK, Becomes

LEMMA Ends ==
  ASSUME IInv, NEW o \in Ops, NEW res, Finish(o, res)
  PROVE  /\ op'[o].pc = "done" /\ op'[o].res = res /\ ~ Holding(o)' /\ Ended(o)'
         /\ op'[o].key = op[o].key /\ op'[o].mode = op[o].mode /\ op'[o].kind = op[o].kind
<1>1. op'[o] = Ending(o, res)
  BY OpType DEF TypeOK, Finish
<1> QED
  BY <1>1, EndKey DEF Holding, Locked, Ended

\* Only calls in flight take steps.
LEMMA Going == ASSUME NEW o \in Ops, Step(o) \/ HangUp(o) PROVE InFlight(o)
<1>1. CASE \/ Acquire(o) \/ PutOpen(o) \/ StreamEnd(o) \/ StreamFail(o) \/ Hash(o) \/ ReadMeta(o) \/ Swap(o)
           \/ SealOpen(o) \/ SealEnd(o) \/ CleanTmp(o) \/ HangUp(o)
  BY <1>1 DEF Acquire, PutOpen, StreamEnd, StreamFail, Hash, ReadMeta, Swap, SealOpen, SealEnd, CleanTmp, HangUp,
              At, InFlight, Ended
<1>2. CASE \/ DropData(o) \/ WriteMeta(o) \/ RenameMeta(o) \/ RemoveMeta(o) \/ DeleteAsk(o) \/ DeleteRead(o)
           \/ TagRead(o) \/ ExpireScan(o) \/ GetHead(o) \/ GetLook(o) \/ Unseal(o) \/ Stat(o) \/ Open(o)
  BY <1>2 DEF DropData, WriteMeta, RenameMeta, RemoveMeta, DeleteAsk, DeleteRead, TagRead, ExpireScan, GetHead,
              GetLook, Unseal, Stat, Open, At, InFlight, Ended
<1> QED
  BY <1>1, <1>2 DEF Step

\* A call that is made was idle; what it has not got yet it has not got.
LEMMA Begins ==
  ASSUME IInv, NEW o \in Ops, Call(o)
  PROVE  /\ op[o] = Idle /\ ~ InFlight(o) /\ ~ Ended(o) /\ ~ Holding(o)
         /\ op'[o].kind \in Kinds /\ op'[o].res = None
         /\ op'[o].kind = "expire" => op'[o].pc = "scan"
         /\ op'[o].pc = "scan" => op'[o].arg = None
<1> DEFINE New(r) == Made(o, r) /\ r.res = None /\ (r.kind = "expire" => r.pc = "scan")
                      /\ (r.pc = "scan" => r.arg = None)
<1>1. ASSUME NEW r, New(r)
      PROVE  /\ op[o] = Idle /\ op'[o].kind \in Kinds /\ op'[o].res = None
             /\ op'[o].kind = "expire" => op'[o].pc = "scan"
             /\ op'[o].pc = "scan" => op'[o].arg = None
  <2>1. op[o] = Idle
    BY <1>1, OpType DEF Made, CallOK, Shape
  <2>2. op'[o] = r
    BY <1>1, Turn DEF Made
  <2> QED
    BY <1>1, <2>1, <2>2 DEF Made
<1>2. \E r : New(r)
  <2>1. CASE PutCall(o)
    <3>1. PICK k \in Keys, e \in Encs, b \in {o} \cup Empties :
            Made(o, [Idle EXCEPT !.kind = "put", !.key = k, !.enc = e, !.body = b, !.pc = "queued"])
      BY <2>1 DEF PutCall
    <3> DEFINE r == [Idle EXCEPT !.kind = "put", !.key = k, !.enc = e, !.body = b, !.pc = "queued"]
    <3>2. r.res = None /\ r.kind = "put" /\ r.pc = "queued"
      BY DEF Idle
    <3> QED
      BY <3>1, <3>2
  <2>2. CASE CopyCall(o)
    <3>1. PICK k \in Keys : Made(o, [Idle EXCEPT !.kind = "copy", !.key = k, !.pc = "look"])
      BY <2>2 DEF CopyCall
    <3> DEFINE r == [Idle EXCEPT !.kind = "copy", !.key = k, !.pc = "look"]
    <3>2. r.res = None /\ r.kind = "copy" /\ r.pc = "look"
      BY DEF Idle
    <3> QED
      BY <3>1, <3>2
  <2>3. CASE CompleteCall(o)
    <3>1. PICK k \in Keys, e \in Encs, b \in {o} \cup Empties :
            Made(o, [Idle EXCEPT !.kind = "complete", !.key = k, !.enc = e, !.body = b,
                                 !.mode = versioning, !.pc = "stream"])
      BY <2>3 DEF CompleteCall
    <3> DEFINE r == [Idle EXCEPT !.kind = "complete", !.key = k, !.enc = e, !.body = b,
                                 !.mode = versioning, !.pc = "stream"]
    <3>2. r.res = None /\ r.kind = "complete" /\ r.pc = "stream"
      BY DEF Idle
    <3> QED
      BY <3>1, <3>2
  <2>4. CASE DeleteCall(o)
    <3>1. PICK k \in Keys : \E i \in Known(k) : Made(o, [Idle EXCEPT !.kind = "delete", !.key = k, !.arg = i, !.pc = "ask"])
      BY <2>4 DEF DeleteCall
    <3>2. \A i : LET r == [Idle EXCEPT !.kind = "delete", !.key = k, !.arg = i, !.pc = "ask"]
                 IN  r.res = None /\ r.kind = "delete" /\ r.pc = "ask"
      BY DEF Idle
    <3> QED
      BY <3>1, <3>2
  <2>5. CASE TagCall(o)
    <3>1. PICK k \in Keys : \E i \in Known(k) : Made(o, [Idle EXCEPT !.kind = "tag", !.key = k, !.arg = i, !.pc = "queued"])
      BY <2>5 DEF TagCall
    <3>2. \A i : LET r == [Idle EXCEPT !.kind = "tag", !.key = k, !.arg = i, !.pc = "queued"]
                 IN  r.res = None /\ r.kind = "tag" /\ r.pc = "queued"
      BY DEF Idle
    <3> QED
      BY <3>1, <3>2
  <2>6. CASE GetCall(o)
    <3>1. PICK k \in Keys : \E i \in Known(k) : Made(o, [Idle EXCEPT !.kind = "get", !.key = k, !.arg = i, !.pc = "head"])
      BY <2>6 DEF GetCall
    <3>2. \A i : LET r == [Idle EXCEPT !.kind = "get", !.key = k, !.arg = i, !.pc = "head"]
                 IN  r.res = None /\ r.kind = "get" /\ r.pc = "head"
      BY DEF Idle
    <3> QED
      BY <3>1, <3>2
  <2>7. CASE ExpireCall(o)
    <3>1. PICK k \in Keys : Made(o, [Idle EXCEPT !.kind = "expire", !.key = k, !.mode = versioning, !.pc = "scan"])
      BY <2>7 DEF ExpireCall
    <3> DEFINE r == [Idle EXCEPT !.kind = "expire", !.key = k, !.mode = versioning, !.pc = "scan"]
    <3>2. r.res = None /\ r.pc = "scan" /\ r.arg = None
      BY DEF Idle
    <3> QED
      BY <3>1, <3>2
  <2> QED
    BY <2>1, <2>2, <2>3, <2>4, <2>5, <2>6, <2>7 DEF Call
<1>3. PICK r : New(r)
  BY <1>2
<1> HIDE DEF New
<1>4. /\ op[o] = Idle /\ op'[o].kind \in Kinds /\ op'[o].res = None
      /\ op'[o].kind = "expire" => op'[o].pc = "scan"
      /\ op'[o].pc = "scan" => op'[o].arg = None
  BY <1>1, <1>3
<1>5. ~ InFlight(o) /\ ~ Ended(o) /\ ~ Holding(o)
  BY <1>4, IdleType DEF InFlight, Ended, Holding, Locked
<1> QED
  BY <1>4, <1>5
=============================================================================
