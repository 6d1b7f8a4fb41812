---------------------------- MODULE MemoryProofs ----------------------------
(***************************************************************************)
(* Proofs about MemoryStorage for any number of names, keys, buckets and   *)
(* calls: its inductive invariant StorageInv, and from it that the backend       *)
(* implements ObjectStore and, with versioning, keeps the versions of its  *)
(* objects.                                                                *)
(***************************************************************************)
EXTENDS MemoryStorage, TLAPS

-----------------------------------------------------------------------------
(* Lists of versions.                                                      *)

\* A list with one more element in front.
LEMMA PrependSeq ==
  ASSUME NEW S, NEW s \in Seq(S), NEW v \in S
  PROVE  /\ <<v>> \o s \in Seq(S)
         /\ Len(<<v>> \o s) = Len(s) + 1
         /\ (<<v>> \o s)[1] = v
         /\ \A i \in 2 .. Len(s) + 1 : (<<v>> \o s)[i] = s[i - 1]
OBVIOUS

\* A list without its i-th element.
LEMMA WithoutSeq ==
  ASSUME NEW S, NEW s \in Seq(S), NEW i \in 1 .. Len(s)
  PROVE  /\ Without(s, i) \in Seq(S)
         /\ Len(Without(s, i)) = Len(s) - 1
         /\ \A j \in 1 .. Len(s) - 1 : Without(s, i)[j] = IF j < i THEN s[j] ELSE s[j + 1]
<1> DEFINE a == SubSeq(s, 1, i - 1)
           b == SubSeq(s, i + 1, Len(s))
<1>1. /\ a \in Seq(S) /\ Len(a) = i - 1
      /\ \A j \in 1 .. i - 1 : a[j] = s[j]
  OBVIOUS
<1>2. /\ b \in Seq(S) /\ Len(b) = Len(s) - i
      /\ \A j \in 1 .. Len(s) - i : b[j] = s[i + j]
  OBVIOUS
<1>3. Without(s, i) = a \o b
  BY DEF Without
<1> HIDE DEF a, b
<1>4. /\ a \o b \in Seq(S) /\ Len(a \o b) = Len(s) - 1
      /\ \A j \in 1 .. Len(s) - 1 : (a \o b)[j] = IF j < i THEN s[j] ELSE s[j + 1]
  <2>1. a \o b \in Seq(S) /\ Len(a \o b) = Len(s) - 1
    BY <1>1, <1>2
  <2>2. ASSUME NEW j \in 1 .. Len(s) - 1, j < i
        PROVE  (a \o b)[j] = s[j]
    BY <1>1, <1>2, <2>2
  <2>3. ASSUME NEW j \in 1 .. Len(s) - 1, ~ j < i
        PROVE  (a \o b)[j] = s[j + 1]
    <3>1. (a \o b)[j] = b[j - (i - 1)]
      BY <1>1, <1>2, <2>3
    <3> QED
      BY <1>2, <2>3, <3>1
  <2> QED
    BY <2>1, <2>2, <2>3
<1> QED
  BY <1>3, <1>4

\* Find answers a place in the list, or 0; of a list that repeats no id, the place
\* of the id.
LEMMA FindPlace ==
  ASSUME NEW s \in Seq(Version), NEW i,
         \A m, n \in 1 .. Len(s) : s[m].id = s[n].id => m = n
  PROVE  /\ Find(s, i) \in 0 .. Len(s)
         /\ i # None /\ Find(s, i) # 0 => s[Find(s, i)].id = i
         /\ i # None /\ (\E n \in 1 .. Len(s) : s[n].id = i) => Find(s, i) # 0
<1>1. CASE i = None
  BY <1>1 DEF Find
<1>2. CASE i # None /\ ~ \E n \in 1 .. Len(s) : s[n].id = i
  BY <1>2 DEF Find
<1>3. CASE i # None /\ \E n \in 1 .. Len(s) : s[n].id = i
  <2>1. \E n \in 1 .. Len(s) : s[n].id = i /\ \A m \in 1 .. n - 1 : s[m].id # i
    BY <1>3
  <2>2. LET p == CHOOSE n \in 1 .. Len(s) : s[n].id = i /\ \A m \in 1 .. n - 1 : s[m].id # i
        IN  p \in 1 .. Len(s) /\ s[p].id = i
    BY <2>1
  <2> QED
    BY <1>3, <2>2 DEF Find
<1> QED
  BY <1>1, <1>2, <1>3

-----------------------------------------------------------------------------
(* Types.                                                                  *)

\* What is found under a name.
LEMMA NamedBucket ==
  ASSUME TypeOK, NEW n \in Names, Exists(n)
  PROVE  buckets[n] \in Refs /\ Bucket(n) \in Contents
BY DEF TypeOK, Exists, Bucket

LEMMA VersionsType ==
  ASSUME NEW b \in Contents, NEW k \in Keys
  PROVE  VersionsOf(b, k) \in Seq(Version)
BY DEF Contents, VersionsOf

\* Writing one object, or one upload, of a bucket.
LEMMA SetObjectType ==
  ASSUME TypeOK, NEW r \in Refs, NEW k \in Keys, NEW s \in Seq(Version) \cup {None},
         SetObject(r, k, s)
  PROVE  heap' \in [Refs -> Contents]
BY DEF TypeOK, SetObject, Contents

LEMMA SetUploadType ==
  ASSUME TypeOK, NEW r \in Refs, NEW u \in Ops, NEW up \in Upload \cup {None},
         SetUpload(r, u, up)
  PROVE  heap' \in [Refs -> Contents]
BY DEF TypeOK, SetUpload, Contents

\* A write puts versions in the list and nothing else.
LEMMA WrittenType ==
  ASSUME NEW b \in Contents, NEW k \in Keys, NEW v \in Version
  PROVE  Written(b, k, v) \in Seq(Version)
BY VersionsType, PrependSeq DEF Written

LEMMA NewVersionType ==
  ASSUME NEW b, NEW o \in Ops, NEW body \in Seq(Ops), NEW from \in Ops \cup {None}
  PROVE  NewVersion(b, o, body, from) \in Version /\ Marker(o) \in Version
BY TagsAssumption DEF NewVersion, Marker, Version

LEMMA RemovedType ==
  ASSUME NEW s \in Seq(Version), NEW i \in 1 .. Len(s)
  PROVE  Removed(s, i) \in Seq(Version) \cup {None}
BY WithoutSeq DEF Removed

LEMMA AssembledType ==
  ASSUME NEW up \in Upload, NEW list \in Lists, \A i \in 1 .. Len(list) : up[list[i]] # None
  PROVE  Assembled(up, list) \in Seq(Ops)
<1>1. list \in Seq(PartNumbers)
  BY DEF Lists
<1>2. Len(list) \in Nat /\ \A i \in 1 .. Len(list) : up[list[i]] \in Ops
  BY <1>1 DEF Upload
<1> QED
  BY <1>2 DEF Assembled

-----------------------------------------------------------------------------
(* Lists that keep some of their versions.                                 *)

\* The same version, but for its tags.
Same(v, w) == /\ v.id = w.id /\ v.by = w.by /\ v.body = w.body
              /\ v.from = w.from /\ v.del = w.del

\* Each version of new is one of old, and no two are the same one.
Keeps(old, new) ==
  \E f \in [1 .. Len(new) -> 1 .. Len(old)] :
    /\ \A i, j \in 1 .. Len(new) : f[i] = f[j] => i = j
    /\ \A i \in 1 .. Len(new) : Same(new[i], old[f[i]])

LEMMA KeepsEqual ==
  ASSUME NEW s \in Seq(Version), NEW t \in Seq(Version), Len(s) = Len(t),
         \A i \in 1 .. Len(s) : Same(t[i], s[i])
  PROVE  Keeps(s, t)
<1> DEFINE f == [i \in 1 .. Len(t) |-> i]
<1>1. f \in [1 .. Len(t) -> 1 .. Len(s)]
  OBVIOUS
<1>2. \A i, j \in 1 .. Len(t) : f[i] = f[j] => i = j
  OBVIOUS
<1>3. \A i \in 1 .. Len(t) : Same(t[i], s[f[i]])
  OBVIOUS
<1> QED
  BY <1>1, <1>2, <1>3 DEF Keeps

LEMMA KeepsNothing == ASSUME NEW s \in Seq(Version) PROVE Keeps(s, <<>>)
<1> DEFINE f == [i \in 1 .. Len(<<>>) |-> 1]
<1>1. \A i \in 1 .. Len(<<>>) : FALSE
  OBVIOUS
<1>2. f \in [1 .. Len(<<>>) -> 1 .. Len(s)]
  BY <1>1
<1> QED
  BY <1>1, <1>2 DEF Keeps

LEMMA KeepsWithout ==
  ASSUME NEW s \in Seq(Version), NEW i \in 1 .. Len(s)
  PROVE  Keeps(s, Without(s, i))
<1> DEFINE t == Without(s, i)
           f == [j \in 1 .. Len(t) |-> IF j < i THEN j ELSE j + 1]
<1>1. /\ Len(t) = Len(s) - 1
      /\ \A j \in 1 .. Len(t) : t[j] = IF j < i THEN s[j] ELSE s[j + 1]
  BY WithoutSeq
<1> HIDE DEF t
<1>2. f \in [1 .. Len(t) -> 1 .. Len(s)]
  BY <1>1
<1>3. \A j, l \in 1 .. Len(t) : f[j] = f[l] => j = l
  BY <1>1
<1>4. \A j \in 1 .. Len(t) : Same(t[j], s[f[j]])
  BY <1>1 DEF Same
<1>5. Keeps(s, t)
  BY <1>2, <1>3, <1>4 DEF Keeps
<1> QED
  BY <1>5 DEF t

-----------------------------------------------------------------------------
(* Steps that add no version.                                              *)

\* No object gains a version, and calls that have ended do not change.
Fades ==
  /\ \A r \in Refs, k \in Keys : Keeps(VersionsOf(heap[r], k), VersionsOf(heap'[r], k))
  /\ \A o \in Ops : op[o].pc = "done" => op'[o] = op[o]

\* An upload that can be completed could be completed before, or is the one that
\* a call has just created.
UploadsKnown ==
  \A r \in Refs, u \in Ops :
    heap'[r].uploads[u] # None => heap[r].uploads[u] # None \/ op[u].pc # "done"

LEMMA FadesKeeps ==
  ASSUME StorageInv, TypeOK', Fades, UploadsKnown
  PROVE  /\ UploadsCompleteOnce' /\ WritesWhereCalled'
         /\ \A r \in Refs, k \in Keys : \A i, j \in 1 .. Len(VersionsOf(heap'[r], k)) :
              VersionsOf(heap'[r], k)[i].id = VersionsOf(heap'[r], k)[j].id => i = j
<1>t. \A r \in Refs, k \in Keys : /\ VersionsOf(heap[r], k) \in Seq(Version)
                                  /\ VersionsOf(heap'[r], k) \in Seq(Version)
  BY VersionsType DEF StorageInv, TypeOK
<1>1. \A r \in Refs, k \in Keys : \A i \in 1 .. Len(VersionsOf(heap'[r], k)) :
        \E j \in 1 .. Len(VersionsOf(heap[r], k)) :
          Same(VersionsOf(heap'[r], k)[i], VersionsOf(heap[r], k)[j])
  <2> TAKE r \in Refs, k \in Keys
  <2> DEFINE old == VersionsOf(heap[r], k)
             new == VersionsOf(heap'[r], k)
  <2>1. Keeps(old, new)
    BY DEF Fades
  <2> HIDE DEF old, new
  <2>2. \A i \in 1 .. Len(new) : \E j \in 1 .. Len(old) : Same(new[i], old[j])
    BY <2>1 DEF Keeps
  <2> QED
    BY <2>2 DEF old, new
<1>2. WritesWhereCalled'
  <2> SUFFICES ASSUME NEW r \in Refs, NEW k \in Keys,
                      NEW i \in 1 .. Len(VersionsOf(heap'[r], k)),
                      NEW j \in 1 .. Len(VersionsOf(heap[r], k)),
                      Same(VersionsOf(heap'[r], k)[i], VersionsOf(heap[r], k)[j])
               PROVE  LET v == VersionsOf(heap'[r], k)[i]
                      IN  /\ v.id \in {v.by, NullId} /\ (v.del => v.id = v.by)
                          /\ op'[v.by].pc = "done" /\ op'[v.by].ref = r
                          /\ v.from # None => op'[v.from].pc = "done"
                          /\ \A l \in 1 .. Len(v.body) : op'[v.body[l]].pc = "done"
    BY <1>1 DEF WritesWhereCalled
  <2> DEFINE v == VersionsOf(heap'[r], k)[i]
             w == VersionsOf(heap[r], k)[j]
  <2>0. w \in Version
    BY <1>t
  <2>1. w.by \in Ops /\ w.from \in Ops \cup {None} /\ w.body \in Seq(Ops)
    BY <2>0 DEF Version
  <2>2. /\ w.id \in {w.by, NullId} /\ (w.del => w.id = w.by)
        /\ op[w.by].pc = "done" /\ op[w.by].ref = r
        /\ w.from # None => op[w.from].pc = "done"
        /\ \A l \in 1 .. Len(w.body) : op[w.body[l]].pc = "done"
    BY DEF StorageInv, WritesWhereCalled
  <2>3. v.id = w.id /\ v.by = w.by /\ v.body = w.body /\ v.from = w.from /\ v.del = w.del
    BY DEF Same
  <2>4. \A l \in 1 .. Len(w.body) : w.body[l] \in Ops
    BY <2>1
  <2> HIDE DEF v, w
  <2>5. /\ op'[w.by].pc = "done" /\ op'[w.by].ref = r
        /\ w.from # None => op'[w.from].pc = "done"
        /\ \A l \in 1 .. Len(w.body) : op'[w.body[l]].pc = "done"
    BY <2>1, <2>2, <2>4 DEF Fades
  <2>6. /\ v.id \in {v.by, NullId} /\ (v.del => v.id = v.by)
        /\ op'[v.by].pc = "done" /\ op'[v.by].ref = r
        /\ v.from # None => op'[v.from].pc = "done"
        /\ \A l \in 1 .. Len(v.body) : op'[v.body[l]].pc = "done"
    BY <2>2, <2>3, <2>5
  <2> QED
    BY <2>6 DEF v
<1>3. UploadsCompleteOnce'
  <2> SUFFICES ASSUME NEW r \in Refs, NEW k \in Keys,
                      NEW i \in 1 .. Len(VersionsOf(heap'[r], k)),
                      VersionsOf(heap'[r], k)[i].from # None
               PROVE  /\ heap'[r].uploads[VersionsOf(heap'[r], k)[i].from] = None
                      /\ \A l \in Keys : \A j \in 1 .. Len(VersionsOf(heap'[r], l)) :
                           VersionsOf(heap'[r], l)[j].from = VersionsOf(heap'[r], k)[i].from
                             => k = l /\ i = j
    BY DEF UploadsCompleteOnce
  <2> DEFINE u == VersionsOf(heap'[r], k)[i].from
  <2>1. PICK g \in 1 .. Len(VersionsOf(heap[r], k)) :
               Same(VersionsOf(heap'[r], k)[i], VersionsOf(heap[r], k)[g])
    BY <1>1
  <2>2. /\ VersionsOf(heap[r], k)[g].from = u /\ u \in Ops
        /\ heap[r].uploads[u] = None /\ op[u].pc = "done"
    <3>1. VersionsOf(heap[r], k)[g] \in Version
      BY <1>t
    <3>2. VersionsOf(heap[r], k)[g].from = u /\ u # None
      BY <2>1 DEF Same
    <3>3. u \in Ops
      BY <3>1, <3>2 DEF Version
    <3>4. heap[r].uploads[u] = None
      BY <3>2 DEF StorageInv, UploadsCompleteOnce
    <3>5. op[u].pc = "done"
      BY <3>2 DEF StorageInv, WritesWhereCalled
    <3> QED
      BY <3>2, <3>3, <3>4, <3>5
  <2>3. heap'[r].uploads[u] = None
    BY <2>2 DEF UploadsKnown
  <2>4. ASSUME NEW l \in Keys, NEW j \in 1 .. Len(VersionsOf(heap'[r], l)),
               VersionsOf(heap'[r], l)[j].from = u
        PROVE  k = l /\ i = j
    <3>1. PICK f \in [1 .. Len(VersionsOf(heap'[r], l)) -> 1 .. Len(VersionsOf(heap[r], l))] :
            /\ \A a, b \in 1 .. Len(VersionsOf(heap'[r], l)) : f[a] = f[b] => a = b
            /\ \A a \in 1 .. Len(VersionsOf(heap'[r], l)) :
                 Same(VersionsOf(heap'[r], l)[a], VersionsOf(heap[r], l)[f[a]])
      BY DEF Fades, Keeps
    <3>2. VersionsOf(heap[r], l)[f[j]].from = u
      BY <3>1, <2>4 DEF Same
    <3>3. k = l /\ g = f[j]
      BY <2>2, <3>2 DEF StorageInv, UploadsCompleteOnce
    <3>4. VersionsOf(heap[r], k)[f[i]].from = u
      BY <3>1, <3>3 DEF Same
    <3>5. f[i] = g
      BY <2>2, <3>1, <3>3, <3>4 DEF StorageInv, UploadsCompleteOnce
    <3> QED
      BY <3>1, <3>3, <3>5
  <2> QED
    BY <2>3, <2>4
<1>4. ASSUME NEW r \in Refs, NEW k \in Keys,
             NEW i \in 1 .. Len(VersionsOf(heap'[r], k)), NEW j \in 1 .. Len(VersionsOf(heap'[r], k)),
             VersionsOf(heap'[r], k)[i].id = VersionsOf(heap'[r], k)[j].id
      PROVE  i = j
  <2>1. PICK f \in [1 .. Len(VersionsOf(heap'[r], k)) -> 1 .. Len(VersionsOf(heap[r], k))] :
          /\ \A a, b \in 1 .. Len(VersionsOf(heap'[r], k)) : f[a] = f[b] => a = b
          /\ \A a \in 1 .. Len(VersionsOf(heap'[r], k)) :
               Same(VersionsOf(heap'[r], k)[a], VersionsOf(heap[r], k)[f[a]])
    BY DEF Fades, Keeps
  <2>2. VersionsOf(heap[r], k)[f[i]].id = VersionsOf(heap[r], k)[f[j]].id
    BY <2>1, <1>4 DEF Same
  <2>3. \A a, b \in 1 .. Len(VersionsOf(heap[r], k)) :
          VersionsOf(heap[r], k)[a].id = VersionsOf(heap[r], k)[b].id => a = b
    BY DEF StorageInv, ObjectsWellFormed, VersionsOf
  <2> QED
    BY <2>1, <2>2, <2>3
<1> QED
  BY <1>2, <1>3, <1>4

-----------------------------------------------------------------------------
(* Steps that add a version.                                               *)

\* Call o ends by writing the version v of key k of bucket r, of bytes that have
\* been received and of an upload, if of one, that is no longer there afterwards.
Adds(o, r, k, v) ==
  /\ VersionsOf(heap'[r], k) \in {<<v>> \o VersionsOf(heap[r], k), <<v>>}
  /\ v.id = NullId => VersionsOf(heap'[r], k) = <<v>>
  /\ \A q \in Refs, l \in Keys : q # r \/ l # k => VersionsOf(heap'[q], l) = VersionsOf(heap[q], l)
  /\ v.by = o /\ v.id \in {o, NullId} /\ (v.del => v.id = o)
  /\ \A j \in 1 .. Len(v.body) : v.body[j] = o \/ op[v.body[j]].pc = "done"
  /\ v.from # None => heap[r].uploads[v.from] # None /\ heap'[r].uploads[v.from] = None
  /\ \A q \in Refs, u \in Ops : heap'[q].uploads[u] # None => heap[q].uploads[u] # None
  /\ op[o].pc # "done" /\ op'[o].pc = "done" /\ op'[o].ref = r
  /\ \A p \in Ops : p # o => op'[p] = op[p]

LEMMA AddsKeeps ==
  ASSUME StorageInv, TypeOK', NEW o \in Ops, NEW r0 \in Refs, NEW k0 \in Keys, NEW v0 \in Version,
         Adds(o, r0, k0, v0)
  PROVE  /\ UploadsCompleteOnce' /\ WritesWhereCalled'
         /\ \A r \in Refs, k \in Keys : \A i, j \in 1 .. Len(VersionsOf(heap'[r], k)) :
              VersionsOf(heap'[r], k)[i].id = VersionsOf(heap'[r], k)[j].id => i = j
<1> DEFINE Old(r, k) == VersionsOf(heap[r], k)
           New(r, k) == VersionsOf(heap'[r], k)
<1>t. \A r \in Refs, k \in Keys : Old(r, k) \in Seq(Version) /\ New(r, k) \in Seq(Version)
  BY VersionsType DEF StorageInv, TypeOK
\* A version after the step is the new one, or was there and has moved up by one
\* if the new one is in front of it.
<1>1. ASSUME NEW r \in Refs, NEW k \in Keys, NEW i \in 1 .. Len(New(r, k))
      PROVE  \/ r = r0 /\ k = k0 /\ i = 1 /\ New(r, k)[i] = v0
             \/ \E j \in 1 .. Len(Old(r, k)) :
                  /\ New(r, k)[i] = Old(r, k)[j]
                  /\ r = r0 /\ k = k0 => i = j + 1 /\ v0.id # NullId
                  /\ ~ (r = r0 /\ k = k0) => i = j
  <2>1. CASE r # r0 \/ k # k0
    <3>1. New(r, k) = Old(r, k)
      BY <2>1 DEF Adds
    <3> QED
      BY <2>1, <3>1
  <2>2. CASE r = r0 /\ k = k0 /\ New(r, k) = <<v0>>
    BY <2>2
  <2>3. CASE r = r0 /\ k = k0 /\ New(r, k) # <<v0>>
    <3>1. New(r, k) = <<v0>> \o Old(r, k) /\ v0.id # NullId
      BY <2>3 DEF Adds
    <3>2. Old(r, k) \in Seq(Version)
      BY <1>t
    <3> HIDE DEF Old, New
    <3>3. CASE i = 1
      BY <2>3, <3>1, <3>2, <3>3, PrependSeq
    <3>4. CASE i # 1
      <4>1. i \in 2 .. Len(Old(r, k)) + 1 /\ i - 1 \in 1 .. Len(Old(r, k))
        BY <3>1, <3>2, <3>4, PrependSeq
      <4>2. New(r, k)[i] = Old(r, k)[i - 1]
        BY <3>1, <3>2, <4>1, PrependSeq
      <4> QED
        BY <2>3, <3>1, <4>1, <4>2
    <3> QED
      BY <3>3, <3>4
  <2> QED
    BY <2>1, <2>2, <2>3
<1>2. /\ v0.by = o /\ v0.id \in {o, NullId} /\ (v0.del => v0.id = o)
      /\ op[o].pc # "done" /\ op'[o].pc = "done" /\ op'[o].ref = r0
      /\ \A p \in Ops : op[p].pc = "done" => op'[p] = op[p]
  BY DEF Adds
\* What was there was written by calls that had ended.
<1>3. ASSUME NEW r \in Refs, NEW k \in Keys, NEW j \in 1 .. Len(Old(r, k))
      PROVE  LET w == Old(r, k)[j]
             IN  /\ w \in Version /\ w.by \in Ops /\ w.from \in Ops \cup {None}
                 /\ \A l \in 1 .. Len(w.body) : w.body[l] \in Ops /\ op[w.body[l]].pc = "done"
                 /\ w.id \in {w.by, NullId} /\ (w.del => w.id = w.by)
                 /\ op[w.by].pc = "done" /\ op[w.by].ref = r
                 /\ w.from # None => /\ op[w.from].pc = "done"
                                     /\ heap[r].uploads[w.from] = None
  <2> DEFINE w == Old(r, k)[j]
  <2>1. w \in Version
    BY <1>t
  <2>2. /\ w.id \in {w.by, NullId} /\ (w.del => w.id = w.by)
        /\ op[w.by].pc = "done" /\ op[w.by].ref = r
        /\ w.from # None => op[w.from].pc = "done"
        /\ \A l \in 1 .. Len(w.body) : op[w.body[l]].pc = "done"
    BY DEF StorageInv, WritesWhereCalled
  <2>3. w.from # None => heap[r].uploads[w.from] = None
    BY DEF StorageInv, UploadsCompleteOnce
  <2> HIDE DEF w
  <2>4. w.by \in Ops /\ w.from \in Ops \cup {None} /\ w.body \in Seq(Ops)
    BY <2>1 DEF Version
  <2>5. \A l \in 1 .. Len(w.body) : w.body[l] \in Ops
    BY <2>4
  <2>6. /\ w \in Version /\ w.by \in Ops /\ w.from \in Ops \cup {None}
        /\ \A l \in 1 .. Len(w.body) : w.body[l] \in Ops /\ op[w.body[l]].pc = "done"
        /\ w.id \in {w.by, NullId} /\ (w.del => w.id = w.by)
        /\ op[w.by].pc = "done" /\ op[w.by].ref = r
        /\ w.from # None => op[w.from].pc = "done" /\ heap[r].uploads[w.from] = None
    BY <2>1, <2>2, <2>3, <2>4, <2>5
  <2> QED
    BY <2>6 DEF w
<1>4. /\ v0.from \in Ops \cup {None} /\ v0.body \in Seq(Ops)
      /\ v0.from # None => op[v0.from].pc = "done"
      /\ \A l \in 1 .. Len(v0.body) : v0.body[l] \in Ops /\ op'[v0.body[l]].pc = "done"
  <2>1. v0.from \in Ops \cup {None} /\ v0.body \in Seq(Ops)
    BY DEF Version
  <2>2. v0.from # None => op[v0.from].pc = "done"
    BY <2>1 DEF Adds, StorageInv, CarriedReceived
  <2>3. \A l \in 1 .. Len(v0.body) : v0.body[l] \in Ops
    BY <2>1
  <2>4. \A l \in 1 .. Len(v0.body) : v0.body[l] = o \/ op[v0.body[l]].pc = "done"
    BY DEF Adds
  <2>5. \A l \in 1 .. Len(v0.body) : op'[v0.body[l]].pc = "done"
    BY <1>2, <2>3, <2>4
  <2> QED
    BY <2>1, <2>2, <2>3, <2>5
<1>5. WritesWhereCalled'
  <2> SUFFICES ASSUME NEW r \in Refs, NEW k \in Keys, NEW i \in 1 .. Len(New(r, k))
               PROVE  LET v == New(r, k)[i]
                      IN  /\ v.id \in {v.by, NullId} /\ (v.del => v.id = v.by)
                          /\ op'[v.by].pc = "done" /\ op'[v.by].ref = r
                          /\ v.from # None => op'[v.from].pc = "done"
                          /\ \A l \in 1 .. Len(v.body) : op'[v.body[l]].pc = "done"
    BY DEF WritesWhereCalled
  <2> DEFINE v == New(r, k)[i]
  <2>1. CASE r = r0 /\ v = v0
    <3> HIDE DEF v
    <3>1. /\ v.id \in {v.by, NullId} /\ (v.del => v.id = v.by)
          /\ op'[v.by].pc = "done" /\ op'[v.by].ref = r
          /\ v.from # None => op'[v.from].pc = "done"
          /\ \A l \in 1 .. Len(v.body) : op'[v.body[l]].pc = "done"
      BY <2>1, <1>2, <1>4
    <3> QED
      BY <3>1 DEF v
  <2>2. ASSUME NEW j \in 1 .. Len(Old(r, k)), v = Old(r, k)[j]
        PROVE  /\ v.id \in {v.by, NullId} /\ (v.del => v.id = v.by)
               /\ op'[v.by].pc = "done" /\ op'[v.by].ref = r
               /\ v.from # None => op'[v.from].pc = "done"
               /\ \A l \in 1 .. Len(v.body) : op'[v.body[l]].pc = "done"
    <3>1. /\ v.by \in Ops /\ v.from \in Ops \cup {None}
          /\ \A l \in 1 .. Len(v.body) : v.body[l] \in Ops /\ op[v.body[l]].pc = "done"
          /\ v.id \in {v.by, NullId} /\ (v.del => v.id = v.by)
          /\ op[v.by].pc = "done" /\ op[v.by].ref = r
          /\ v.from # None => op[v.from].pc = "done"
      BY <1>3, <2>2
    <3> HIDE DEF v
    <3> QED
      BY <3>1, <1>2
  <2> QED
    BY <1>1, <2>1, <2>2
<1>6. UploadsCompleteOnce'
  <2> SUFFICES ASSUME NEW r \in Refs, NEW k \in Keys, NEW i \in 1 .. Len(New(r, k)),
                      New(r, k)[i].from # None
               PROVE  /\ heap'[r].uploads[New(r, k)[i].from] = None
                      /\ \A l \in Keys : \A j \in 1 .. Len(New(r, l)) :
                           New(r, l)[j].from = New(r, k)[i].from => k = l /\ i = j
    BY DEF UploadsCompleteOnce
  <2> DEFINE u == New(r, k)[i].from
  <2>1. /\ v0.from # None => heap[r0].uploads[v0.from] # None /\ heap'[r0].uploads[v0.from] = None
        /\ \A q \in Refs, x \in Ops : heap'[q].uploads[x] # None => heap[q].uploads[x] # None
    BY DEF Adds
  <2>2. heap'[r].uploads[u] = None
    <3>1. CASE r = r0 /\ u = v0.from
      BY <2>1, <3>1
    <3>2. ASSUME NEW g \in 1 .. Len(Old(r, k)), u = Old(r, k)[g].from
          PROVE  heap'[r].uploads[u] = None
      BY <1>3, <2>1, <3>2
    <3> QED
      BY <1>1, <3>1, <3>2
  <2>3. ASSUME NEW l \in Keys, NEW j \in 1 .. Len(New(r, l)), New(r, l)[j].from = u
        PROVE  k = l /\ i = j
    <3>1. \A x \in Keys : \A g \in 1 .. Len(Old(r, x)) :
            Old(r, x)[g].from = u => heap[r].uploads[u] = None
      BY <1>3
    <3>2. \A x, y \in Keys : \A g \in 1 .. Len(Old(r, x)), h \in 1 .. Len(Old(r, y)) :
            Old(r, x)[g].from = u /\ Old(r, y)[h].from = u => x = y /\ g = h
      BY DEF StorageInv, UploadsCompleteOnce
    <3>3. CASE r = r0 /\ v0.from = u
      <4>1. \A x \in Keys : \A g \in 1 .. Len(Old(r, x)) : Old(r, x)[g].from # u
        BY <2>1, <3>1, <3>3
      <4>2. k = k0 /\ i = 1
        BY <1>1, <4>1
      <4>3. l = k0 /\ j = 1
        BY <1>1, <2>3, <4>1
      <4> QED
        BY <4>2, <4>3
    <3>4. CASE ~ (r = r0 /\ v0.from = u)
      <4>1. PICK g \in 1 .. Len(Old(r, k)) :
              /\ New(r, k)[i] = Old(r, k)[g]
              /\ r = r0 /\ k = k0 => i = g + 1
              /\ ~ (r = r0 /\ k = k0) => i = g
        BY <1>1, <3>4
      <4>2. PICK h \in 1 .. Len(Old(r, l)) :
              /\ New(r, l)[j] = Old(r, l)[h]
              /\ r = r0 /\ l = k0 => j = h + 1
              /\ ~ (r = r0 /\ l = k0) => j = h
        BY <1>1, <2>3, <3>4
      <4>3. Old(r, k)[g].from = u /\ Old(r, l)[h].from = u
        BY <2>3, <4>1, <4>2
      <4>4. k = l /\ g = h
        BY <3>2, <4>3
      <4> QED
        BY <4>1, <4>2, <4>4
    <3> QED
      BY <3>3, <3>4
  <2> QED
    BY <2>2, <2>3
<1>7. ASSUME NEW r \in Refs, NEW k \in Keys, NEW i \in 1 .. Len(New(r, k)),
             NEW j \in 1 .. Len(New(r, k)), New(r, k)[i].id = New(r, k)[j].id
      PROVE  i = j
  <2>1. \A g, h \in 1 .. Len(Old(r, k)) : Old(r, k)[g].id = Old(r, k)[h].id => g = h
    BY DEF StorageInv, ObjectsWellFormed, VersionsOf
  <2>2. ASSUME v0.id # NullId, NEW g \in 1 .. Len(Old(r, k))
        PROVE  Old(r, k)[g].id # v0.id
    BY <1>2, <1>3, <2>2, OpsAssumption
  <2>3. CASE r = r0 /\ k = k0 /\ i = 1 /\ New(r, k)[i] = v0
    BY <1>1, <1>7, <2>2, <2>3
  <2>4. CASE r = r0 /\ k = k0 /\ j = 1 /\ New(r, k)[j] = v0
    BY <1>1, <1>7, <2>2, <2>4
  <2>5. ASSUME NEW g \in 1 .. Len(Old(r, k)), NEW h \in 1 .. Len(Old(r, k)),
               New(r, k)[i] = Old(r, k)[g], New(r, k)[j] = Old(r, k)[h],
               r = r0 /\ k = k0 => i = g + 1 /\ j = h + 1,
               ~ (r = r0 /\ k = k0) => i = g /\ j = h
        PROVE  i = j
    BY <1>7, <2>1, <2>5
  <2> QED
    BY <1>1, <2>3, <2>4, <2>5
<1> QED
  BY <1>5, <1>6, <1>7

-----------------------------------------------------------------------------
(* Every step keeps the types.                                             *)

LEMMA IdleType == Idle \in CallState
BY DEF Idle, CallState

\* One call goes on.
LEMMA CallGoesOn ==
  ASSUME CallsOK, created' = created, NEW o \in Ops, NEW c \in CallState, Becomes(o, c),
         c.pc \in {"put", "part"} => c.ref \in created,
         c.pc = "put" => c.key \in Keys,
         c.pc = "part" => c.up \in Ops /\ c.part \in PartNumbers
  PROVE  CallsOK'
BY DEF CallsOK, Becomes

\* A call that ends or fails, or a new one that ends at once.
LEMMA EndedCallsOK ==
  ASSUME CallsOK, created' = created, NEW o \in Ops, NEW r \in Refs \cup {None},
         NEW pc \in {"done", "failed"},
         Becomes(o, [op[o] EXCEPT !.pc = pc]) \/ Becomes(o, [Idle EXCEPT !.pc = pc, !.ref = r])
  PROVE  CallsOK'
<1>1. op[o] \in CallState
  BY DEF CallsOK
<1>2. [op[o] EXCEPT !.pc = pc] \in CallState /\ [op[o] EXCEPT !.pc = pc].pc = pc
  BY <1>1 DEF CallState
<1>3. [Idle EXCEPT !.pc = pc, !.ref = r] \in CallState /\ [Idle EXCEPT !.pc = pc, !.ref = r].pc = pc
  BY IdleType DEF CallState
<1>4. CASE Becomes(o, [op[o] EXCEPT !.pc = pc])
  <2> DEFINE c == [op[o] EXCEPT !.pc = pc]
  <2>1. c \in CallState /\ c.pc \notin {"put", "part"} /\ Becomes(o, c)
    BY <1>2, <1>4
  <2> HIDE DEF c
  <2> QED
    BY <2>1, CallGoesOn
<1>5. CASE Becomes(o, [Idle EXCEPT !.pc = pc, !.ref = r])
  <2> DEFINE c == [Idle EXCEPT !.pc = pc, !.ref = r]
  <2>1. c \in CallState /\ c.pc \notin {"put", "part"} /\ Becomes(o, c)
    BY <1>3, <1>5
  <2> HIDE DEF c
  <2> QED
    BY <2>1, CallGoesOn
<1> QED
  BY <1>4, <1>5

\* Types are kept by the calls that draw an id or upload bytes.
LEMMA CallType ==
  ASSUME StorageInv, NEW o \in Ops, Call(o) \/ PutEnd(o) \/ PartEnd(o) \/ StreamError(o)
  PROVE  TypeOK'
<1> USE NamedBucket DEF StorageInv, TypeOK
<1>0. CallsOK /\ buckets \in [Names -> Refs \cup {None}] /\ heap \in [Refs -> Contents] /\ created \subseteq Refs
  OBVIOUS
<1>1. ASSUME NEW n \in Names, CreateMultipartUpload(o, n) PROVE TypeOK'
  <2>1. buckets[n] \in Refs /\ created' = created /\ buckets' = buckets
    BY <1>1 DEF CreateMultipartUpload
  <2>2. [p \in PartNumbers |-> None] \in Upload
    BY DEF Upload
  <2>3. heap' \in [Refs -> Contents]
    BY <1>1, <2>1, <2>2, SetUploadType DEF CreateMultipartUpload
  <2>4. CallsOK'
    BY <1>0, <1>1, <2>1, EndedCallsOK DEF CreateMultipartUpload
  <2> QED
    BY <2>1, <2>3, <2>4
<1>2. ASSUME NEW n \in Names, NEW k \in Keys, PutObject(o, n, k) PROVE TypeOK'
  <2>1. buckets[n] \in created
    BY <1>2 DEF PutObject, BucketsApart
  <2>2. CallsOK'
    <3> DEFINE c == [Idle EXCEPT !.pc = "put", !.ref = buckets[n], !.key = k, !.body = <<o>>]
    <3>1. /\ c \in CallState
          /\ c.pc = "put" /\ c.ref \in created /\ c.key \in Keys
      <4>1. Idle \in CallState /\ <<o>> \in Seq(Ops)
        BY IdleType
      <4> QED
        BY <1>0, <1>2, <2>1, <4>1 DEF CallState
    <3>2. Becomes(o, c) /\ created' = created
      BY <1>2 DEF PutObject
    <3> HIDE DEF c
    <3> QED
      BY <1>0, <3>1, <3>2, CallGoesOn
  <2> QED
    BY <1>0, <1>2, <2>2 DEF PutObject
<1>3. ASSUME NEW n \in Names, NEW k \in Keys, CopyObject(o, n, k) PROVE TypeOK'
  <2>1. VersionsOf(Bucket(n), k) \in Seq(Version) /\ VersionsOf(Bucket(n), k) # <<>>
    BY <1>3, VersionsType DEF CopyObject
  <2>2. Head(VersionsOf(Bucket(n), k)).body \in Seq(Ops)
    <3>1. Head(VersionsOf(Bucket(n), k)) \in Version
      BY <2>1
    <3> QED
      BY <3>1 DEF Version
  <2>3. CallsOK'
    <3> DEFINE c == [Idle EXCEPT !.pc = "copy", !.body = Head(VersionsOf(Bucket(n), k)).body]
    <3>1. /\ c \in CallState
          /\ c.pc = "copy"
      <4>1. Idle \in CallState /\ <<o>> \in Seq(Ops)
        BY IdleType
      <4> QED
        BY <1>0, <1>3, <2>2, <4>1 DEF CallState
    <3>2. Becomes(o, c) /\ created' = created
      BY <1>3 DEF CopyObject
    <3> HIDE DEF c
    <3> QED
      BY <1>0, <3>1, <3>2, CallGoesOn
  <2> QED
    BY <1>0, <1>3, <2>3 DEF CopyObject
<1>4. ASSUME NEW n \in Names, NEW k \in Keys, CopyPut(o, n, k) PROVE TypeOK'
  <2>1. Exists(n) => buckets[n] \in created
    BY DEF BucketsApart
  <2>2. CallsOK'
    <3>1. CASE Exists(n)
      <4> DEFINE c == [op[o] EXCEPT !.pc = "put", !.ref = buckets[n], !.key = k]
      <4>1. c \in CallState /\ c.pc = "put" /\ c.ref \in created /\ c.key \in Keys
        BY <1>0, <2>1, <3>1 DEF CallsOK, CallState
      <4>2. Becomes(o, c) /\ created' = created
        BY <1>4, <3>1 DEF CopyPut
      <4> HIDE DEF c
      <4> QED
        BY <1>0, <4>1, <4>2, CallGoesOn
    <3>2. CASE ~ Exists(n)
      BY <1>0, <1>4, <3>2, EndedCallsOK DEF CopyPut
    <3> QED
      BY <3>1, <3>2
  <2> QED
    BY <1>0, <1>4, <2>2 DEF CopyPut
<1>5. ASSUME NEW n \in Names, NEW u \in Ops, NEW p \in PartNumbers, UploadPart(o, n, u, p) PROVE TypeOK'
  <2>1. buckets[n] \in created
    BY <1>5 DEF UploadPart, BucketsApart
  <2>2. CallsOK'
    <3> DEFINE c == [Idle EXCEPT !.pc = "part", !.ref = buckets[n], !.up = u, !.part = p]
    <3>1. /\ c \in CallState
          /\ c.pc = "part" /\ c.ref \in created /\ c.up \in Ops /\ c.part \in PartNumbers
      <4>1. Idle \in CallState /\ <<o>> \in Seq(Ops)
        BY IdleType
      <4> QED
        BY <1>0, <1>5, <2>1, <4>1 DEF CallState
    <3>2. Becomes(o, c) /\ created' = created
      BY <1>5 DEF UploadPart
    <3> HIDE DEF c
    <3> QED
      BY <1>0, <3>1, <3>2, CallGoesOn
  <2> QED
    BY <1>0, <1>5, <2>2 DEF UploadPart
<1>6. ASSUME NEW n \in Names, NEW k \in Keys, DeleteMarking(o, n, k) PROVE TypeOK'
  <2>1. buckets[n] \in Refs /\ created' = created /\ buckets' = buckets
    BY <1>6 DEF DeleteMarking
  <2>2. <<Marker(o)>> \o VersionsOf(Bucket(n), k) \in Seq(Version)
    <3>1. Marker(o) \in Version
      BY TagsAssumption DEF Marker, Version
    <3>2. VersionsOf(Bucket(n), k) \in Seq(Version)
      BY <1>6, VersionsType DEF DeleteMarking
    <3> QED
      BY <3>1, <3>2, PrependSeq
  <2>3. heap' \in [Refs -> Contents]
    BY <1>6, <2>1, <2>2, SetObjectType DEF DeleteMarking
  <2>4. CallsOK'
    BY <1>0, <1>6, <2>1, EndedCallsOK DEF DeleteMarking
  <2> QED
    BY <2>1, <2>3, <2>4
<1>7. ASSUME NEW n \in Names, NEW k \in Keys, NEW u \in Ops, NEW list \in Lists,
             CompleteMultipartUpload(o, n, k, u, list)
      PROVE  TypeOK'
  <2> DEFINE b == Bucket(n)
             v == NewVersion(b, o, Assembled(b.uploads[u], list), u)
  <2>1. /\ buckets[n] \in Refs /\ created' = created /\ buckets' = buckets
        /\ b \in Contents /\ b.uploads[u] # None /\ \A i \in 1 .. Len(list) : b.uploads[u][list[i]] # None
    BY <1>7 DEF CompleteMultipartUpload
  <2>2. b.uploads[u] \in Upload
    BY <2>1 DEF Contents
  <2>3. Written(b, k, v) \in Seq(Version)
    BY <2>1, <2>2, AssembledType, NewVersionType, WrittenType
  <2>4. heap' \in [Refs -> Contents]
    <3>1. heap' = [heap EXCEPT ![buckets[n]].objects[k] = Written(b, k, v),
                               ![buckets[n]].uploads[u] = None]
      BY <1>7 DEF CompleteMultipartUpload
    <3> HIDE DEF b, v
    <3> QED
      BY <1>0, <2>1, <2>3, <3>1 DEF Contents
  <2>5. CallsOK'
    BY <1>0, <1>7, <2>1, EndedCallsOK DEF CompleteMultipartUpload
  <2> QED
    BY <2>1, <2>4, <2>5
<1>8. CASE PutEnd(o)
  <2>1. op[o].ref \in Refs /\ op[o].key \in Keys /\ op[o].body \in Seq(Ops) /\ heap[op[o].ref] \in Contents
    BY <1>0, <1>8 DEF PutEnd, Is, CallsOK, CallState
  <2>2. Written(heap[op[o].ref], op[o].key, NewVersion(heap[op[o].ref], o, op[o].body, None)) \in Seq(Version)
    BY <2>1, NewVersionType, WrittenType
  <2>3. heap' \in [Refs -> Contents]
    BY <1>8, <2>1, <2>2, SetObjectType DEF PutEnd
  <2>4. CallsOK'
    BY <1>0, <1>8, EndedCallsOK DEF PutEnd
  <2> QED
    BY <1>0, <1>8, <2>3, <2>4 DEF PutEnd
<1>9. CASE PartEnd(o)
  <2>1. /\ op[o].ref \in Refs /\ op[o].up \in Ops /\ op[o].part \in PartNumbers
        /\ heap[op[o].ref].uploads[op[o].up] \in Upload \cup {None}
    BY <1>0, <1>9 DEF PartEnd, Is, CallsOK, Contents
  <2>2. heap' \in [Refs -> Contents]
    <3>1. CASE heap[op[o].ref].uploads[op[o].up] = None
      BY <1>0, <1>9, <3>1 DEF PartEnd
    <3>2. CASE heap[op[o].ref].uploads[op[o].up] # None
      <4>1. [heap[op[o].ref].uploads[op[o].up] EXCEPT ![op[o].part] = o] \in Upload
        BY <2>1, <3>2 DEF Upload
      <4> QED
        BY <1>9, <2>1, <3>2, <4>1, SetUploadType DEF PartEnd
    <3> QED
      BY <3>1, <3>2
  <2>3. CallsOK'
    BY <1>0, <1>9, EndedCallsOK DEF PartEnd
  <2> QED
    BY <1>0, <1>9, <2>2, <2>3 DEF PartEnd
<1>10. CASE StreamError(o)
  <2>1. CallsOK'
    BY <1>0, <1>10, EndedCallsOK DEF StreamError
  <2> QED
    BY <1>0, <1>10, <2>1 DEF StreamError
<1> QED
  BY <1>1, <1>2, <1>3, <1>4, <1>5, <1>6, <1>7, <1>8, <1>9, <1>10 DEF Call

-----------------------------------------------------------------------------
(* What deletes and tags write.                                            *)

\* The list of versions that stands for a value of the map.
Listed(x) == IF x = None THEN <<>> ELSE x

\* A value fit for the map: no entry, or a list that is not empty.
Fit(x) == x = None \/ (x \in Seq(Version) /\ x # <<>>)

LEMMA EntryFacts ==
  ASSUME StorageInv, NEW r \in Refs, NEW k \in Keys
  PROVE  /\ VersionsOf(heap[r], k) \in Seq(Version)
         /\ \A i, j \in 1 .. Len(VersionsOf(heap[r], k)) :
              VersionsOf(heap[r], k)[i].id = VersionsOf(heap[r], k)[j].id => i = j
         /\ heap[r].objects[k] # None => VersionsOf(heap[r], k) = heap[r].objects[k]
<1>1. heap[r] \in Contents
  BY DEF StorageInv, TypeOK
<1>2. VersionsOf(heap[r], k) \in Seq(Version)
  BY <1>1, VersionsType
<1> QED
  BY <1>2 DEF StorageInv, ObjectsWellFormed, VersionsOf

\* Removing one of the versions leaves the others, and no empty list.
LEMMA RemovedFacts ==
  ASSUME NEW s \in Seq(Version), NEW i \in 1 .. Len(s)
  PROVE  Fit(Removed(s, i)) /\ Keeps(s, Listed(Removed(s, i)))
<1>1. CASE Len(s) = 1
  BY <1>1, KeepsNothing DEF Removed, Fit, Listed
<1>2. CASE Len(s) # 1
  <2>1. Removed(s, i) = Without(s, i)
    BY <1>2 DEF Removed
  <2>2. Without(s, i) \in Seq(Version) /\ Len(Without(s, i)) = Len(s) - 1
    BY WithoutSeq
  <2>3. Without(s, i) # <<>>
    BY <1>2, <2>2
  <2>4. Listed(Without(s, i)) \in {<<>>, Without(s, i)}
    BY DEF Listed
  <2> QED
    BY <2>1, <2>2, <2>3, <2>4, KeepsNothing, KeepsWithout DEF Fit
<1> QED
  BY <1>1, <1>2

\* Replacing the tags of one version leaves them all.
LEMMA RetaggedFacts ==
  ASSUME NEW s \in Seq(Version), NEW i \in 1 .. Len(s), NEW t \in Tags
  PROVE  Fit([s EXCEPT ![i].tag = t]) /\ Keeps(s, Listed([s EXCEPT ![i].tag = t]))
<1> DEFINE w == [s EXCEPT ![i].tag = t]
<1>1. [s[i] EXCEPT !.tag = t] \in Version /\ Same([s[i] EXCEPT !.tag = t], s[i])
  <2>1. s[i] \in Version
    OBVIOUS
  <2> QED
    BY <2>1 DEF Version, Same
<1>2. /\ w \in Seq(Version) /\ Len(w) = Len(s)
      /\ \A j \in 1 .. Len(s) : w[j] = IF j = i THEN [s[i] EXCEPT !.tag = t] ELSE s[j]
  BY <1>1
<1> HIDE DEF w
<1>3. \A j \in 1 .. Len(s) : Same(w[j], s[j])
  BY <1>1, <1>2 DEF Same
<1>4. Keeps(s, w) /\ w # <<>>
  BY <1>2, <1>3, KeepsEqual
<1>5. Fit(w) /\ Keeps(s, Listed(w))
  BY <1>2, <1>4, KeepsNothing DEF Fit, Listed
<1> QED
  BY <1>5 DEF w

-----------------------------------------------------------------------------
(* The other calls.                                                        *)

\* The calls that delete, expire or tag write one object, in which they keep some
\* of the versions, and change nothing else.
LEMMA FadingWrites ==
  ASSUME StorageInv, NEW n \in Names, NEW k \in Keys,
         \/ DeleteObject(n, k) \/ ExpireObject(n, k)
         \/ \E i \in Ops \cup {NullId} : DeleteVersion(n, k, i)
         \/ \E i \in Ops \cup {NullId, None}, t \in Tags : SetObjectTagging(n, k, i, t)
  PROVE  /\ buckets[n] \in Refs /\ Exists(n)
         /\ UNCHANGED <<buckets, created, op>>
         /\ \E x : /\ Fit(x) /\ SetObject(buckets[n], k, x)
                   /\ Keeps(VersionsOf(heap[buckets[n]], k), Listed(x))
<1> DEFINE s == VersionsOf(heap[buckets[n]], k)
<1>1. Exists(n) /\ UNCHANGED <<buckets, created, op>>
  BY DEF DeleteObject, ExpireObject, DeleteVersion, SetObjectTagging
<1>2. buckets[n] \in Refs /\ Bucket(n) = heap[buckets[n]]
  BY <1>1, NamedBucket DEF StorageInv, Bucket
<1>3. /\ s \in Seq(Version) /\ \A i, j \in 1 .. Len(s) : s[i].id = s[j].id => i = j
      /\ heap[buckets[n]].objects[k] # None => s = heap[buckets[n]].objects[k]
  BY <1>2, EntryFacts
<1>s. VersionsOf(Bucket(n), k) = s
  BY <1>2
<1> HIDE DEF s
<1>4. Fit(None) /\ Keeps(s, Listed(None))
  BY <1>3, KeepsNothing DEF Fit, Listed
<1>5. CASE DeleteObject(n, k)
  BY <1>1, <1>2, <1>4, <1>5 DEF DeleteObject, s
<1>6. CASE ExpireObject(n, k)
  <2>1. s # <<>> /\ Head(s).id = s[1].id
    BY <1>3, <1>6, <1>s DEF ExpireObject
  <2>2. CASE Bucket(n).versioning # "Enabled"
    BY <1>1, <1>2, <1>4, <1>6, <2>2 DEF ExpireObject, s
  <2>3. CASE Bucket(n).versioning = "Enabled"
    <3>1. Find(s, Head(s).id) \in 1 .. Len(s)
      <4>1. CASE Head(s).id = None
        BY <1>3, <2>1, <4>1 DEF Find
      <4>2. CASE Head(s).id # None
        <5>1. 1 \in 1 .. Len(s)
          BY <1>3, <2>1
        <5>2. Find(s, Head(s).id) # 0 /\ Find(s, Head(s).id) \in 0 .. Len(s)
          BY <1>3, <2>1, <4>2, <5>1, FindPlace
        <5> QED
          BY <1>3, <5>2
      <4> QED
        BY <4>1, <4>2
    <3>2. SetObject(buckets[n], k, Removed(s, Find(s, Head(s).id)))
      BY <1>6, <1>s, <2>3 DEF ExpireObject
    <3> QED
      BY <1>1, <1>2, <1>3, <3>1, <3>2, RemovedFacts DEF s
  <2> QED
    BY <2>2, <2>3
<1>7. ASSUME NEW i \in Ops \cup {NullId}, DeleteVersion(n, k, i)
      PROVE  \E x : /\ Fit(x) /\ SetObject(buckets[n], k, x) /\ Keeps(s, Listed(x))
  <2>1. /\ Bucket(n).objects[k] = s /\ Find(s, i) # 0
        /\ SetObject(buckets[n], k, Removed(s, Find(s, i)))
    BY <1>2, <1>3, <1>7 DEF DeleteVersion
  <2>2. Find(s, i) \in 1 .. Len(s)
    BY <1>3, <2>1, FindPlace
  <2> QED
    BY <1>3, <2>1, <2>2, RemovedFacts
<1>8. ASSUME NEW i \in Ops \cup {NullId, None}, NEW t \in Tags, SetObjectTagging(n, k, i, t)
      PROVE  \E x : /\ Fit(x) /\ SetObject(buckets[n], k, x) /\ Keeps(s, Listed(x))
  <2>1. Find(s, i) # 0 /\ SetObject(buckets[n], k, [s EXCEPT ![Find(s, i)].tag = t])
    BY <1>8, <1>s DEF SetObjectTagging
  <2>2. Find(s, i) \in 1 .. Len(s)
    BY <1>3, <2>1, FindPlace
  <2> QED
    BY <1>3, <2>1, <2>2, RetaggedFacts
<1> QED
  BY <1>1, <1>2, <1>5, <1>6, <1>7, <1>8 DEF s

\* Types are kept by the other calls.
LEMMA ManageType ==
  ASSUME StorageInv, NEW n \in Names, Administer(n) \/ Change(n)
  PROVE  TypeOK'
<1> USE NamedBucket DEF StorageInv, TypeOK
<1>0. CallsOK /\ buckets \in [Names -> Refs \cup {None}] /\ heap \in [Refs -> Contents] /\ created \subseteq Refs
  OBVIOUS
\* Most of them leave all but the contents of one bucket alone.
<1>a. ASSUME heap' \in [Refs -> Contents], UNCHANGED <<buckets, created, op>> PROVE TypeOK'
  BY <1>0, <1>a DEF CallsOK
<1>1. ASSUME NEW r \in Refs, CreateBucket(n, r) PROVE TypeOK'
  BY <1>0, <1>1 DEF CreateBucket, CallsOK
<1>2. CASE DeleteBucket(n)
  BY <1>0, <1>2 DEF DeleteBucket, CallsOK
<1>3. ASSUME NEW x \in Statuses, SetVersioning(n, x) PROVE TypeOK'
  BY <1>0, <1>3, <1>a DEF SetVersioning, Contents
<1>4. ASSUME NEW x \in Settings, SetSetting(n, x) PROVE TypeOK'
  BY <1>0, <1>4, <1>a DEF SetSetting, Contents
<1>5. ASSUME NEW x \in Settings, DeleteSetting(n, x) PROVE TypeOK'
  BY <1>0, <1>5, <1>a DEF DeleteSetting, Contents
<1>6. ASSUME NEW k \in Keys, DeleteObject(n, k) PROVE TypeOK'
  BY <1>6, <1>a, FadingWrites, SetObjectType DEF Fit
<1>7. ASSUME NEW k \in Keys, NEW i \in Ops \cup {NullId}, DeleteVersion(n, k, i) PROVE TypeOK'
  BY <1>7, <1>a, FadingWrites, SetObjectType DEF Fit
<1>8. ASSUME NEW k \in Keys, ExpireObject(n, k) PROVE TypeOK'
  BY <1>8, <1>a, FadingWrites, SetObjectType DEF Fit
<1>9. ASSUME NEW k \in Keys, NEW i \in Ops \cup {NullId, None}, NEW t \in Tags, SetObjectTagging(n, k, i, t)
      PROVE  TypeOK'
  BY <1>9, <1>a, FadingWrites, SetObjectType DEF Fit
<1>10. ASSUME NEW u \in Ops, AbortMultipartUpload(n, u) PROVE TypeOK'
  BY <1>10, <1>a, SetUploadType DEF AbortMultipartUpload
<1> QED
  BY <1>1, <1>2, <1>3, <1>4, <1>5, <1>6, <1>7, <1>8, <1>9, <1>10 DEF Administer, Change, ExpireUpload

-----------------------------------------------------------------------------
(* Versions: ObjectsWellFormed, UploadsCompleteOnce, WritesWhereCalled.    *)

VersionsOK == ObjectsWellFormed /\ UploadsCompleteOnce /\ WritesWhereCalled

\* Objects that do not change keep their versions.
LEMMA SameObjects ==
  ASSUME StorageInv, \A r \in Refs : heap'[r].objects = heap[r].objects
  PROVE  /\ \A r \in Refs, k \in Keys : Keeps(VersionsOf(heap[r], k), VersionsOf(heap'[r], k))
         /\ \A r \in Refs, k \in Keys : heap'[r].objects[k] # None => heap'[r].objects[k] # <<>>
<1>1. ASSUME NEW r \in Refs, NEW k \in Keys PROVE Keeps(VersionsOf(heap[r], k), VersionsOf(heap'[r], k))
  <2>1. VersionsOf(heap'[r], k) = VersionsOf(heap[r], k)
    BY DEF VersionsOf
  <2>2. VersionsOf(heap[r], k) \in Seq(Version)
    BY EntryFacts
  <2> QED
    BY <2>1, <2>2, KeepsEqual DEF Same
<1>2. ASSUME NEW r \in Refs, NEW k \in Keys
      PROVE  heap'[r].objects[k] # None => heap'[r].objects[k] # <<>>
  BY DEF StorageInv, ObjectsWellFormed
<1> QED
  BY <1>1, <1>2

\* Writing one object in which versions are kept keeps them everywhere.
LEMMA OneObject ==
  ASSUME StorageInv, NEW r0 \in Refs, NEW k0 \in Keys, NEW x, Fit(x), SetObject(r0, k0, x),
         Keeps(VersionsOf(heap[r0], k0), Listed(x))
  PROVE  /\ \A r \in Refs, k \in Keys : Keeps(VersionsOf(heap[r], k), VersionsOf(heap'[r], k))
         /\ \A r \in Refs, k \in Keys : heap'[r].objects[k] # None => heap'[r].objects[k] # <<>>
         /\ \A r \in Refs : heap'[r].uploads = heap[r].uploads
<1>1. heap \in [Refs -> Contents]
  BY DEF StorageInv, TypeOK
<1>2. /\ \A r \in Refs : heap'[r].uploads = heap[r].uploads
      /\ \A r \in Refs, k \in Keys :
           heap'[r].objects[k] = IF r = r0 /\ k = k0 THEN x ELSE heap[r].objects[k]
  BY <1>1 DEF SetObject, Contents
<1>3. ASSUME NEW r \in Refs, NEW k \in Keys PROVE Keeps(VersionsOf(heap[r], k), VersionsOf(heap'[r], k))
  <2>1. CASE r = r0 /\ k = k0
    <3>1. VersionsOf(heap'[r], k) = Listed(x)
      BY <1>2, <2>1 DEF VersionsOf, Listed
    <3> QED
      BY <2>1, <3>1
  <2>2. CASE ~ (r = r0 /\ k = k0)
    <3>1. VersionsOf(heap'[r], k) = VersionsOf(heap[r], k)
      BY <1>2, <2>2 DEF VersionsOf
    <3>2. VersionsOf(heap[r], k) \in Seq(Version)
      BY EntryFacts
    <3> QED
      BY <3>1, <3>2, KeepsEqual DEF Same
  <2> QED
    BY <2>1, <2>2
<1>4. ASSUME NEW r \in Refs, NEW k \in Keys
      PROVE  heap'[r].objects[k] # None => heap'[r].objects[k] # <<>>
  BY <1>2 DEF StorageInv, ObjectsWellFormed, Fit
<1> QED
  BY <1>2, <1>3, <1>4

\* In either way of changing, the properties of versions are kept.
LEMMA FadesOK ==
  ASSUME StorageInv, TypeOK', Fades, UploadsKnown,
         \A r \in Refs, k \in Keys : heap'[r].objects[k] # None => heap'[r].objects[k] # <<>>
  PROVE  VersionsOK'
<1>1. ObjectsWellFormed'
  BY FadesKeeps DEF ObjectsWellFormed, VersionsOf
<1> QED
  BY <1>1, FadesKeeps DEF VersionsOK

LEMMA AddsOK ==
  ASSUME StorageInv, TypeOK', NEW o \in Ops, NEW r \in Refs, NEW k \in Keys, NEW v \in Version,
         Adds(o, r, k, v),
         \A q \in Refs, l \in Keys : heap'[q].objects[l] # None => heap'[q].objects[l] # <<>>
  PROVE  VersionsOK'
<1>1. ObjectsWellFormed'
  BY AddsKeeps DEF ObjectsWellFormed, VersionsOf
<1> QED
  BY <1>1, AddsKeeps DEF VersionsOK

\* Calls under way that touch no object.
LEMMA QuietStep ==
  ASSUME StorageInv, TypeOK', NEW o \in Ops, op[o].pc # "done", \A p \in Ops : p # o => op'[p] = op[p],
         \A r \in Refs : heap'[r].objects = heap[r].objects, UploadsKnown
  PROVE  VersionsOK'
<1>1. Fades
  BY SameObjects DEF Fades
<1> QED
  BY <1>1, SameObjects, FadesOK

LEMMA OthersUnchanged ==
  ASSUME StorageInv, NEW o \in Ops, NEW c, Becomes(o, c)
  PROVE  op'[o] = c /\ \A p \in Ops : p # o => op'[p] = op[p]
BY DEF StorageInv, TypeOK, CallsOK, Becomes

\* A call that writes version v in front of the others of its object, or alone.
LEMMA WriteAdds ==
  ASSUME StorageInv, NEW o \in Ops, NEW r \in Refs, NEW k \in Keys, NEW v \in Version, NEW x,
         \A q \in Refs, l \in Keys :
           heap'[q].objects[l] = IF q = r /\ l = k THEN x ELSE heap[q].objects[l],
         x = <<v>> \o VersionsOf(heap[r], k) \/ x = <<v>>,
         v.id = NullId => x = <<v>>,
         v.by = o, v.id \in {o, NullId}, v.del => v.id = o,
         \A j \in 1 .. Len(v.body) : v.body[j] = o \/ op[v.body[j]].pc = "done",
         v.from # None => heap[r].uploads[v.from] # None /\ heap'[r].uploads[v.from] = None,
         \A q \in Refs, u \in Ops : heap'[q].uploads[u] # None => heap[q].uploads[u] # None,
         NEW c, Becomes(o, c), op[o].pc # "done", c.pc = "done", c.ref = r,
         x # None
  PROVE  /\ Adds(o, r, k, v)
         /\ \A q \in Refs, l \in Keys : heap'[q].objects[l] # None => heap'[q].objects[l] # <<>>
<1>1. VersionsOf(heap'[r], k) = x
  BY DEF VersionsOf
<1>2. ASSUME NEW q \in Refs, NEW l \in Keys, q # r \/ l # k
      PROVE  VersionsOf(heap'[q], l) = VersionsOf(heap[q], l)
  BY <1>2 DEF VersionsOf
<1>3. op'[o] = c /\ \A p \in Ops : p # o => op'[p] = op[p]
  BY OthersUnchanged
<1>4. Adds(o, r, k, v)
  BY <1>1, <1>2, <1>3 DEF Adds
<1>5. x # <<>>
  <2>1. VersionsOf(heap[r], k) \in Seq(Version)
    BY EntryFacts
  <2>2. Len(<<v>> \o VersionsOf(heap[r], k)) = Len(VersionsOf(heap[r], k)) + 1 /\ Len(<<v>>) = 1
    BY <2>1, PrependSeq
  <2> QED
    BY <2>1, <2>2
<1>6. ASSUME NEW q \in Refs, NEW l \in Keys
      PROVE  heap'[q].objects[l] # None => heap'[q].objects[l] # <<>>
  BY <1>5 DEF StorageInv, ObjectsWellFormed
<1> QED
  BY <1>4, <1>6

\* Calls that draw an id or upload bytes keep the properties of versions.
LEMMA CallVersions ==
  ASSUME StorageInv, TypeOK', NEW o \in Ops, Call(o) \/ PutEnd(o) \/ PartEnd(o) \/ StreamError(o)
  PROVE  VersionsOK'
<1>0. /\ heap \in [Refs -> Contents] /\ op \in [Ops -> CallState] /\ created \subseteq Refs
      /\ CallsOK
  BY DEF StorageInv, TypeOK, CallsOK
\* A call under way that leaves all contents alone.
<1>a. ASSUME NEW c, Becomes(o, c), op[o].pc # "done", heap' = heap PROVE VersionsOK'
  BY <1>a, OthersUnchanged, QuietStep DEF UploadsKnown
<1>1. ASSUME NEW n \in Names, CreateMultipartUpload(o, n) PROVE VersionsOK'
  <2>1. buckets[n] \in Refs /\ op[o].pc = "idle"
    BY <1>1, NamedBucket DEF CreateMultipartUpload, StorageInv, Is
  <2>2. /\ \A r \in Refs : heap'[r].objects = heap[r].objects
        /\ \A r \in Refs, u \in Ops : u # o => heap'[r].uploads[u] = heap[r].uploads[u]
    BY <1>0, <1>1, <2>1 DEF CreateMultipartUpload, SetUpload, Contents
  <2>3. UploadsKnown
    BY <2>1, <2>2 DEF UploadsKnown
  <2>4. \A p \in Ops : p # o => op'[p] = op[p]
    BY <1>1, OthersUnchanged DEF CreateMultipartUpload
  <2> QED
    BY <2>1, <2>2, <2>3, <2>4, QuietStep
<1>2. ASSUME NEW n \in Names, NEW k \in Keys, PutObject(o, n, k) PROVE VersionsOK'
  BY <1>2, <1>a DEF PutObject, Is
<1>3. ASSUME NEW n \in Names, NEW k \in Keys, CopyObject(o, n, k) PROVE VersionsOK'
  BY <1>3, <1>a DEF CopyObject, Is
<1>4. ASSUME NEW n \in Names, NEW k \in Keys, CopyPut(o, n, k) PROVE VersionsOK'
  BY <1>4, <1>a DEF CopyPut, Is
<1>5. ASSUME NEW n \in Names, NEW u \in Ops, NEW p \in PartNumbers, UploadPart(o, n, u, p) PROVE VersionsOK'
  BY <1>5, <1>a DEF UploadPart, Is
<1>6. ASSUME NEW n \in Names, NEW k \in Keys, DeleteMarking(o, n, k) PROVE VersionsOK'
  <2> DEFINE r == buckets[n]
             v == Marker(o)
             x == <<v>> \o VersionsOf(heap[r], k)
  <2>1. r \in Refs /\ op[o].pc = "idle" /\ Bucket(n) = heap[r]
    BY <1>6, NamedBucket DEF DeleteMarking, StorageInv, Is, Bucket
  <2>2. v \in Version
    BY TagsAssumption DEF Marker, Version
  <2>3. x \in Seq(Version) /\ x # None
    <3>1. VersionsOf(heap[r], k) \in Seq(Version)
      BY <2>1, EntryFacts
    <3> HIDE DEF v, r
    <3>2. x \in Seq(Version)
      BY <2>2, <3>1, PrependSeq
    <3> QED
      BY <3>2, NoneAssumption
  <2>4. /\ \A q \in Refs, l \in Keys :
             heap'[q].objects[l] = IF q = r /\ l = k THEN x ELSE heap[q].objects[l]
        /\ \A q \in Refs : heap'[q].uploads = heap[q].uploads
    <3>1. SetObject(r, k, x)
      BY <1>6, <2>1 DEF DeleteMarking
    <3> HIDE DEF x, r
    <3> QED
      BY <1>0, <2>1, <3>1 DEF SetObject, Contents
  <2>5. v.by = o /\ v.id = o /\ v.body = <<>> /\ v.from = None /\ v.id # NullId
    BY OpsAssumption DEF Marker
  <2>6. Becomes(o, [Idle EXCEPT !.pc = "done", !.ref = r])
    BY <1>6 DEF DeleteMarking
  <2>7. [Idle EXCEPT !.pc = "done", !.ref = r].pc = "done" /\ [Idle EXCEPT !.pc = "done", !.ref = r].ref = r
    BY DEF Idle
  <2> HIDE DEF r, v, x
  <2>8. x = <<v>> \o VersionsOf(heap[r], k) \/ x = <<v>>
    BY DEF x
  <2> DEFINE c == [Idle EXCEPT !.pc = "done", !.ref = r]
  <2>9. Becomes(o, c) /\ c.pc = "done" /\ c.ref = r
    BY <2>6, <2>7
  <2>10. /\ v.by = o /\ v.id \in {o, NullId} /\ (v.del => v.id = o)
         /\ v.id = NullId => x = <<v>>
         /\ \A j \in 1 .. Len(v.body) : v.body[j] = o \/ op[v.body[j]].pc = "done"
         /\ v.from # None => heap[r].uploads[v.from] # None /\ heap'[r].uploads[v.from] = None
    BY <2>5
  <2>11. \A q \in Refs, u \in Ops : heap'[q].uploads[u] # None => heap[q].uploads[u] # None
    BY <2>4
  <2> HIDE DEF c
  <2>12. /\ Adds(o, r, k, v)
         /\ \A q \in Refs, l \in Keys : heap'[q].objects[l] # None => heap'[q].objects[l] # <<>>
    BY <2>1, <2>2, <2>3, <2>4, <2>8, <2>9, <2>10, <2>11, WriteAdds
  <2> QED
    BY <2>1, <2>2, <2>12, AddsOK
<1>7. ASSUME NEW n \in Names, NEW k \in Keys, NEW u \in Ops, NEW list \in Lists,
             CompleteMultipartUpload(o, n, k, u, list)
      PROVE  VersionsOK'
  <2> DEFINE r == buckets[n]
             up == heap[r].uploads[u]
             body == Assembled(up, list)
             v == NewVersion(heap[r], o, body, u)
             x == Written(heap[r], k, v)
             c == [Idle EXCEPT !.pc = "done", !.ref = r]
  <2>1. r \in Refs /\ op[o].pc = "idle" /\ Bucket(n) = heap[r]
    BY <1>7, NamedBucket DEF CompleteMultipartUpload, StorageInv, Is, Bucket
  <2>2. up # None /\ \A i \in 1 .. Len(list) : up[list[i]] # None
    BY <1>7, <2>1 DEF CompleteMultipartUpload
  <2>3. heap[r] \in Contents /\ up \in Upload
    BY <1>0, <2>1, <2>2 DEF Contents
  <2>4. list \in Seq(PartNumbers)
    BY DEF Lists
  <2>5. body \in Seq(Ops) /\ \A j \in 1 .. Len(body) : op[body[j]].pc = "done"
    <3>1. body \in Seq(Ops)
      BY <2>2, <2>3, AssembledType
    <3>2. Len(body) = Len(list) /\ \A j \in 1 .. Len(list) : body[j] = up[list[j]]
      BY <2>4 DEF Assembled
    <3>3. \A j \in 1 .. Len(list) : list[j] \in PartNumbers
      BY <2>4
    <3>4. \A p \in PartNumbers : up[p] # None => op[up[p]].pc = "done"
      BY <2>1, <2>2 DEF StorageInv, CarriedReceived
    <3> HIDE DEF body, up
    <3> QED
      BY <2>2, <3>1, <3>2, <3>3, <3>4
  <2>6. v \in Version
    BY <2>5, NewVersionType
  <2>7. x \in Seq(Version) /\ x # None
    BY <2>3, <2>6, WrittenType, NoneAssumption
  <2>8. /\ v.by = o /\ v.id \in {o, NullId} /\ v.body = body /\ v.from = u /\ v.del = FALSE
        /\ x = <<v>> \o VersionsOf(heap[r], k) \/ x = <<v>>
        /\ v.id = NullId => x = <<v>>
    <3>1. v = NewVersion(heap[r], o, body, u) /\ x = Written(heap[r], k, v)
      OBVIOUS
    <3> HIDE DEF v, x, body, r
    <3> QED
      BY <3>1, OpsAssumption DEF NewVersion, Written
  <2>9. /\ \A q \in Refs, l \in Keys :
             heap'[q].objects[l] = IF q = r /\ l = k THEN x ELSE heap[q].objects[l]
        /\ \A q \in Refs, w \in Ops :
             heap'[q].uploads[w] = IF q = r /\ w = u THEN None ELSE heap[q].uploads[w]
    <3>1. heap' = [heap EXCEPT ![r].objects[k] = x, ![r].uploads[u] = None]
      BY <1>7, <2>1 DEF CompleteMultipartUpload
    <3> HIDE DEF x, r
    <3> QED
      BY <1>0, <2>1, <3>1 DEF Contents
  <2>10. Becomes(o, c) /\ c.pc = "done" /\ c.ref = r
    BY <1>7 DEF CompleteMultipartUpload, Idle
  <2> HIDE DEF r, up, body, v, x, c
  <2>11. \A q \in Refs, w \in Ops : heap'[q].uploads[w] # None => heap[q].uploads[w] # None
    BY <2>9
  <2>12. heap[r].uploads[u] # None /\ heap'[r].uploads[u] = None
    BY <2>1, <2>2, <2>9 DEF up
  <2>13. /\ Adds(o, r, k, v)
         /\ \A q \in Refs, l \in Keys : heap'[q].objects[l] # None => heap'[q].objects[l] # <<>>
    BY <2>1, <2>5, <2>6, <2>7, <2>8, <2>9, <2>10, <2>11, <2>12, WriteAdds
  <2> QED
    BY <2>1, <2>6, <2>13, AddsOK
<1>8. CASE PutEnd(o)
  <2> DEFINE r == op[o].ref
             k == op[o].key
             body == op[o].body
             v == NewVersion(heap[r], o, body, None)
             x == Written(heap[r], k, v)
             c == [op[o] EXCEPT !.pc = "done"]
  <2>1. op[o].pc = "put" /\ r \in Refs /\ k \in Keys /\ body \in Seq(Ops) /\ heap[r] \in Contents
    BY <1>0, <1>8 DEF PutEnd, Is, CallsOK, CallState
  <2>2. \A j \in 1 .. Len(body) : body[j] = o \/ op[body[j]].pc = "done"
    BY DEF StorageInv, CarriedReceived
  <2>3. v \in Version
    BY <2>1, NewVersionType
  <2>4. x \in Seq(Version) /\ x # None
    BY <2>1, <2>3, WrittenType, NoneAssumption
  <2>5. /\ v.by = o /\ v.id \in {o, NullId} /\ v.body = body /\ v.from = None /\ v.del = FALSE
        /\ x = <<v>> \o VersionsOf(heap[r], k) \/ x = <<v>>
        /\ v.id = NullId => x = <<v>>
    <3>1. v = NewVersion(heap[r], o, body, None) /\ x = Written(heap[r], k, v)
      OBVIOUS
    <3> HIDE DEF v, x, body, r, k
    <3> QED
      BY <3>1, OpsAssumption DEF NewVersion, Written
  <2>6. SetObject(r, k, x) /\ Becomes(o, c)
    BY <1>8 DEF PutEnd
  <2>7. c.pc = "done" /\ c.ref = r
    BY <1>0 DEF CallState
  <2> HIDE DEF r, k, body, v, x, c
  <2>8. /\ \A q \in Refs, l \in Keys :
             heap'[q].objects[l] = IF q = r /\ l = k THEN x ELSE heap[q].objects[l]
        /\ \A q \in Refs : heap'[q].uploads = heap[q].uploads
    BY <1>0, <2>1, <2>6 DEF SetObject, Contents
  <2>9. /\ Adds(o, r, k, v)
        /\ \A q \in Refs, l \in Keys : heap'[q].objects[l] # None => heap'[q].objects[l] # <<>>
    BY <2>1, <2>2, <2>3, <2>4, <2>5, <2>6, <2>7, <2>8, WriteAdds
  <2> QED
    BY <2>1, <2>3, <2>9, AddsOK
<1>9. CASE PartEnd(o)
  <2>1. op[o].pc = "part" /\ op[o].ref \in Refs /\ op[o].up \in Ops
    BY <1>0, <1>9 DEF PartEnd, Is, CallsOK
  <2>2. /\ \A r \in Refs : heap'[r].objects = heap[r].objects
        /\ \A r \in Refs, u \in Ops : heap'[r].uploads[u] # None => heap[r].uploads[u] # None
    <3> DEFINE r0 == op[o].ref
               u0 == op[o].up
               up == heap[r0].uploads[u0]
               new == [up EXCEPT ![op[o].part] = o]
    <3>1. CASE up = None
      BY <1>9, <3>1 DEF PartEnd
    <3>2. CASE up # None
      <4>1. SetUpload(r0, u0, new)
        BY <1>9, <3>2 DEF PartEnd
      <4> HIDE DEF new
      <4>2. heap' = [heap EXCEPT ![r0].uploads[u0] = new]
        BY <4>1 DEF SetUpload
      <4>3. r0 \in Refs /\ u0 \in Ops
        BY <2>1
      <4> HIDE DEF r0, u0, up
      <4>4. /\ \A r \in Refs : heap'[r].objects = heap[r].objects
            /\ \A r \in Refs, u \in Ops :
                 heap'[r].uploads[u] = IF r = r0 /\ u = u0 THEN new ELSE heap[r].uploads[u]
        BY <1>0, <4>2, <4>3 DEF Contents
      <4> QED
        BY <3>2, <4>4 DEF up
    <3> QED
      BY <3>1, <3>2
  <2>3. UploadsKnown
    BY <2>2 DEF UploadsKnown
  <2>4. \A p \in Ops : p # o => op'[p] = op[p]
    BY <1>9, OthersUnchanged DEF PartEnd
  <2> QED
    BY <2>1, <2>2, <2>3, <2>4, QuietStep
<1>10. CASE StreamError(o)
  BY <1>10, <1>a DEF StreamError, Is
<1> QED
  BY <1>1, <1>2, <1>3, <1>4, <1>5, <1>6, <1>7, <1>8, <1>9, <1>10 DEF Call

\* Administration and the other changes keep the properties of versions.
LEMMA ManageVersions ==
  ASSUME StorageInv, TypeOK', NEW n \in Names, Administer(n) \/ Change(n)
  PROVE  VersionsOK'
<1>0. heap \in [Refs -> Contents] /\ op \in [Ops -> CallState]
  BY DEF StorageInv, TypeOK, CallsOK
\* All of them leave the calls alone; most leave the objects alone.
<1>a. ASSUME op' = op, \A r \in Refs : heap'[r].objects = heap[r].objects,
             \A r \in Refs, u \in Ops : heap'[r].uploads[u] # None => heap[r].uploads[u] # None
      PROVE  VersionsOK'
  <2>1. Fades /\ UploadsKnown
    BY <1>a, SameObjects DEF Fades, UploadsKnown
  <2> QED
    BY <1>a, <2>1, SameObjects, FadesOK
<1>b. ASSUME Exists(n) PROVE buckets[n] \in Refs
  BY <1>b, NamedBucket DEF StorageInv
<1>1. ASSUME NEW r \in Refs, CreateBucket(n, r) PROVE VersionsOK'
  BY <1>1, <1>a DEF CreateBucket
<1>2. CASE DeleteBucket(n)
  BY <1>2, <1>a DEF DeleteBucket
<1>3. ASSUME NEW x \in Statuses, SetVersioning(n, x) PROVE VersionsOK'
  BY <1>0, <1>3, <1>a, <1>b DEF SetVersioning, Contents
<1>4. ASSUME NEW x \in Settings, SetSetting(n, x) PROVE VersionsOK'
  BY <1>0, <1>4, <1>a, <1>b DEF SetSetting, Contents
<1>5. ASSUME NEW x \in Settings, DeleteSetting(n, x) PROVE VersionsOK'
  BY <1>0, <1>5, <1>a, <1>b DEF DeleteSetting, Contents
<1>6. ASSUME NEW k \in Keys,
             \/ DeleteObject(n, k) \/ ExpireObject(n, k)
             \/ \E i \in Ops \cup {NullId} : DeleteVersion(n, k, i)
             \/ \E i \in Ops \cup {NullId, None}, t \in Tags : SetObjectTagging(n, k, i, t)
      PROVE  VersionsOK'
  <2>1. buckets[n] \in Refs /\ op' = op
    BY <1>6, FadingWrites
  <2>2. PICK x : /\ Fit(x) /\ SetObject(buckets[n], k, x)
                 /\ Keeps(VersionsOf(heap[buckets[n]], k), Listed(x))
    BY <1>6, FadingWrites
  <2>3. /\ \A r \in Refs, l \in Keys : Keeps(VersionsOf(heap[r], l), VersionsOf(heap'[r], l))
        /\ \A r \in Refs, l \in Keys : heap'[r].objects[l] # None => heap'[r].objects[l] # <<>>
        /\ \A r \in Refs : heap'[r].uploads = heap[r].uploads
    BY <2>1, <2>2, OneObject
  <2>4. Fades /\ UploadsKnown
    BY <2>1, <2>3 DEF Fades, UploadsKnown
  <2> QED
    BY <2>3, <2>4, FadesOK
<1>7. ASSUME NEW u \in Ops, AbortMultipartUpload(n, u) PROVE VersionsOK'
  <2>1. buckets[n] \in Refs /\ op' = op /\ SetUpload(buckets[n], u, None)
    BY <1>7, <1>b DEF AbortMultipartUpload
  <2>2. /\ \A r \in Refs : heap'[r].objects = heap[r].objects
        /\ \A r \in Refs, w \in Ops : heap'[r].uploads[w] # None => heap[r].uploads[w] # None
    BY <1>0, <2>1 DEF SetUpload, Contents
  <2> QED
    BY <2>1, <2>2, <1>a
<1> QED
  BY <1>1, <1>2, <1>3, <1>4, <1>5, <1>6, <1>7 DEF Administer, Change, ExpireUpload

-----------------------------------------------------------------------------
(* Buckets and what calls carry: BucketsApart, CarriedReceived.            *)

\* Names stay; only buckets that have been created are written, and only those
\* with a name gain an upload.
NamesStay ==
  /\ UNCHANGED <<buckets, created>>
  /\ \A r \in Refs : heap'[r] # heap[r] => r \in created
  /\ \A r \in Refs, u \in Ops :
       heap'[r].uploads[u] # None => heap[r].uploads[u] # None \/ \E n \in Names : buckets[n] = r

\* No call is undone, none gains bytes that are neither its own nor received, and
\* no upload gains parts that are not received.
CallsAdvance ==
  /\ \A o \in Ops : op[o].pc = "done" => op'[o].pc = "done"
  /\ \A o \in Ops : \/ op'[o].body = op[o].body
                    \/ \A j \in 1 .. Len(op'[o].body) :
                         op'[o].body[j] = o \/ op[op'[o].body[j]].pc = "done"
  /\ \A r \in Refs, u \in Ops : heap'[r].uploads[u] # None =>
       \/ heap'[r].uploads[u] = heap[r].uploads[u]
       \/ /\ op'[u].pc = "done"
          /\ \A p \in PartNumbers :
               heap'[r].uploads[u][p] # None => op'[heap'[r].uploads[u][p]].pc = "done"

LEMMA NamesStayOK == ASSUME StorageInv, NamesStay PROVE BucketsApart'
<1>1. \A r \in Refs \ created : heap'[r] = Blank
  BY DEF NamesStay, StorageInv, BucketsApart
<1>2. ASSUME NEW r \in Refs, \A n \in Names : buckets[n] # r, NEW u \in Ops
      PROVE  heap'[r].uploads[u] = None
  BY <1>2 DEF NamesStay, StorageInv, BucketsApart
<1>3. buckets' = buckets /\ created' = created
  BY DEF NamesStay
<1> QED
  BY <1>1, <1>2, <1>3 DEF StorageInv, BucketsApart, Exists

LEMMA CallsAdvanceOK == ASSUME StorageInv, TypeOK', CallsAdvance PROVE CarriedReceived'
<1>0. op \in [Ops -> CallState] /\ op' \in [Ops -> CallState] /\ heap \in [Refs -> Contents]
  BY DEF StorageInv, TypeOK, CallsOK
<1>1. ASSUME NEW o \in Ops, NEW j \in 1 .. Len(op'[o].body)
      PROVE  op'[o].body[j] = o \/ op'[op'[o].body[j]].pc = "done"
  <2>1. op'[o].body \in Seq(Ops)
    BY <1>0 DEF CallState
  <2>2. op'[o].body[j] \in Ops
    BY <2>1
  <2>3. op'[o].body[j] = o \/ op[op'[o].body[j]].pc = "done"
    BY DEF CallsAdvance, StorageInv, CarriedReceived
  <2> QED
    BY <2>2, <2>3 DEF CallsAdvance
<1>2. ASSUME NEW r \in Refs, NEW u \in Ops, heap'[r].uploads[u] # None
      PROVE  /\ op'[u].pc = "done"
             /\ \A p \in PartNumbers :
                  heap'[r].uploads[u][p] # None => op'[heap'[r].uploads[u][p]].pc = "done"
  <2>1. CASE heap'[r].uploads[u] = heap[r].uploads[u]
    <3>1. heap[r].uploads[u] \in Upload
      BY <1>0, <1>2, <2>1 DEF Contents
    <3>2. /\ op[u].pc = "done"
          /\ \A p \in PartNumbers :
               heap[r].uploads[u][p] # None => op[heap[r].uploads[u][p]].pc = "done"
      BY <1>2, <2>1 DEF StorageInv, CarriedReceived
    <3>3. \A p \in PartNumbers : heap[r].uploads[u][p] \in Ops \cup {None}
      BY <3>1 DEF Upload
    <3> QED
      BY <2>1, <3>2, <3>3 DEF CallsAdvance
  <2> QED
    BY <1>2, <2>1 DEF CallsAdvance
<1> QED
  BY <1>1, <1>2 DEF CarriedReceived

\* One call goes on; the others do not change.
LEMMA OneCall ==
  ASSUME StorageInv, TypeOK', NEW o \in Ops, \A p \in Ops : p # o => op'[p] = op[p], op[o].pc # "done",
         \/ op'[o].body = op[o].body
         \/ \A j \in 1 .. Len(op'[o].body) : op'[o].body[j] = o \/ op[op'[o].body[j]].pc = "done",
         \A r \in Refs, u \in Ops : heap'[r].uploads[u] # None =>
           \/ heap'[r].uploads[u] = heap[r].uploads[u]
           \/ /\ op'[u].pc = "done"
              /\ \A p \in PartNumbers :
                   heap'[r].uploads[u][p] # None => op'[heap'[r].uploads[u][p]].pc = "done",
         NamesStay
  PROVE  BucketsApart' /\ CarriedReceived'
<1>1. CallsAdvance
  BY DEF CallsAdvance
<1> QED
  BY <1>1, NamesStayOK, CallsAdvanceOK

\* Calls that draw an id or upload bytes keep buckets apart and carry what has
\* been received.
LEMMA CallCarries ==
  ASSUME StorageInv, TypeOK', NEW o \in Ops, Call(o) \/ PutEnd(o) \/ PartEnd(o) \/ StreamError(o)
  PROVE  BucketsApart' /\ CarriedReceived'
<1>0. /\ heap \in [Refs -> Contents] /\ op \in [Ops -> CallState] /\ created \subseteq Refs
      /\ CallsOK
  BY DEF StorageInv, TypeOK, CallsOK
<1>n. \A n \in Names : Exists(n) => buckets[n] \in Refs /\ buckets[n] \in created /\ Bucket(n) = heap[buckets[n]]
  BY NamedBucket DEF StorageInv, BucketsApart, Bucket
\* A call under way that leaves all contents alone.
<1>a. ASSUME NEW c, Becomes(o, c), op[o].pc # "done", heap' = heap, UNCHANGED <<buckets, created>>,
             \/ c.body = op[o].body
             \/ \A j \in 1 .. Len(c.body) : c.body[j] = o \/ op[c.body[j]].pc = "done"
      PROVE  BucketsApart' /\ CarriedReceived'
  <2>1. NamesStay
    BY <1>a DEF NamesStay
  <2>2. op'[o] = c /\ \A p \in Ops : p # o => op'[p] = op[p]
    BY <1>a, OthersUnchanged
  <2> QED
    BY <1>a, <2>1, <2>2, OneCall
\* A call that ends by writing one object, and at most taking an upload away.
<1>b. ASSUME NEW c, Becomes(o, c), op[o].pc # "done", UNCHANGED <<buckets, created>>,
             c.body = op[o].body \/ c.body = <<>>, NEW r \in created,
             \A q \in Refs : q # r => heap'[q] = heap[q],
             \A q \in Refs, u \in Ops : heap'[q].uploads[u] \in {None, heap[q].uploads[u]}
      PROVE  BucketsApart' /\ CarriedReceived'
  <2>1. NamesStay
    BY <1>b DEF NamesStay
  <2>2. op'[o] = c /\ \A p \in Ops : p # o => op'[p] = op[p]
    BY <1>b, OthersUnchanged
  <2>3. c.body = <<>> => \A j \in 1 .. Len(c.body) : FALSE
    OBVIOUS
  <2>4. \/ op'[o].body = op[o].body
        \/ \A j \in 1 .. Len(op'[o].body) : op'[o].body[j] = o \/ op[op'[o].body[j]].pc = "done"
    BY <1>b, <2>2, <2>3
  <2>5. \A q \in Refs, u \in Ops : heap'[q].uploads[u] # None => heap'[q].uploads[u] = heap[q].uploads[u]
    BY <1>b
  <2> QED
    BY <1>b, <2>1, <2>2, <2>4, <2>5, OneCall
<1>1. ASSUME NEW n \in Names, CreateMultipartUpload(o, n) PROVE BucketsApart' /\ CarriedReceived'
  <2> DEFINE r == buckets[n]
             new == [p \in PartNumbers |-> None]
             c == [Idle EXCEPT !.pc = "done", !.ref = r]
  <2>1. /\ r \in Refs /\ r \in created /\ op[o].pc = "idle" /\ UNCHANGED <<buckets, created>>
        /\ Becomes(o, c) /\ heap' = [heap EXCEPT ![r].uploads[o] = new]
    BY <1>1, <1>n DEF CreateMultipartUpload, Is, SetUpload
  <2>2. c.pc = "done" /\ c.body = <<>> /\ \A p \in PartNumbers : new[p] = None
    BY DEF Idle
  <2>3. \A j \in 1 .. Len(c.body) : FALSE
    BY <2>2
  <2> HIDE DEF r, new, c
  <2>4. /\ \A q \in Refs : q # r => heap'[q] = heap[q]
        /\ \A q \in Refs, u \in Ops :
             heap'[q].uploads[u] = IF q = r /\ u = o THEN new ELSE heap[q].uploads[u]
    BY <1>0, <2>1 DEF Contents
  <2>5. op'[o] = c /\ \A p \in Ops : p # o => op'[p] = op[p]
    BY <2>1, OthersUnchanged
  <2>6. NamesStay
    BY <2>1, <2>4 DEF NamesStay, r
  <2>7. \A j \in 1 .. Len(op'[o].body) : op'[o].body[j] = o \/ op[op'[o].body[j]].pc = "done"
    BY <2>3, <2>5
  <2>8. \A q \in Refs, u \in Ops : heap'[q].uploads[u] # None =>
           \/ heap'[q].uploads[u] = heap[q].uploads[u]
           \/ /\ op'[u].pc = "done"
              /\ \A p \in PartNumbers :
                   heap'[q].uploads[u][p] # None => op'[heap'[q].uploads[u][p]].pc = "done"
    BY <2>2, <2>4, <2>5
  <2> QED
    BY <2>1, <2>5, <2>6, <2>7, <2>8, OneCall
<1>2. ASSUME NEW n \in Names, NEW k \in Keys, PutObject(o, n, k) PROVE BucketsApart' /\ CarriedReceived'
  <2> DEFINE c == [Idle EXCEPT !.pc = "put", !.ref = buckets[n], !.key = k, !.body = <<o>>]
  <2>1. c.body = <<o>>
    BY DEF Idle
  <2>2. Becomes(o, c) /\ op[o].pc # "done" /\ heap' = heap /\ UNCHANGED <<buckets, created>>
    BY <1>2 DEF PutObject, Is
  <2> HIDE DEF c
  <2>3. \A j \in 1 .. Len(c.body) : c.body[j] = o
    BY <2>1
  <2> QED
    BY <2>2, <2>3, <1>a
<1>3. ASSUME NEW n \in Names, NEW k \in Keys, CopyObject(o, n, k) PROVE BucketsApart' /\ CarriedReceived'
  <2> DEFINE s == VersionsOf(heap[buckets[n]], k)
             c == [Idle EXCEPT !.pc = "copy", !.body = Head(s).body]
  <2>1. /\ s # <<>> /\ Becomes(o, c) /\ op[o].pc # "done" /\ heap' = heap
        /\ UNCHANGED <<buckets, created>> /\ buckets[n] \in Refs
    BY <1>3, <1>n DEF CopyObject, Is
  <2>2. s \in Seq(Version)
    BY <2>1, EntryFacts
  <2>3. c.body = Head(s).body
    BY DEF Idle
  <2>4. 1 \in 1 .. Len(s) /\ Head(s) = s[1]
    BY <2>1, <2>2
  <2>5. \A j \in 1 .. Len(s[1].body) : op[s[1].body[j]].pc = "done"
    BY <2>1, <2>4 DEF StorageInv, WritesWhereCalled
  <2> HIDE DEF c, s
  <2>6. \A j \in 1 .. Len(c.body) : op[c.body[j]].pc = "done"
    BY <2>3, <2>4, <2>5
  <2> QED
    BY <2>1, <2>6, <1>a
<1>4. ASSUME NEW n \in Names, NEW k \in Keys, CopyPut(o, n, k) PROVE BucketsApart' /\ CarriedReceived'
  <2>1. op[o] \in CallState
    BY <1>0
  <2>2. /\ [op[o] EXCEPT !.pc = "put", !.ref = buckets[n], !.key = k].body = op[o].body
        /\ [op[o] EXCEPT !.pc = "failed"].body = op[o].body
    BY <2>1 DEF CallState
  <2>3. CASE Exists(n)
    <3> DEFINE c == [op[o] EXCEPT !.pc = "put", !.ref = buckets[n], !.key = k]
    <3>1. Becomes(o, c) /\ c.body = op[o].body
      BY <1>4, <2>2, <2>3 DEF CopyPut
    <3> HIDE DEF c
    <3> QED
      BY <1>4, <3>1, <1>a DEF CopyPut, Is
  <2>4. CASE ~ Exists(n)
    <3> DEFINE c == [op[o] EXCEPT !.pc = "failed"]
    <3>1. Becomes(o, c) /\ c.body = op[o].body
      BY <1>4, <2>2, <2>4 DEF CopyPut
    <3> HIDE DEF c
    <3> QED
      BY <1>4, <3>1, <1>a DEF CopyPut, Is
  <2> QED
    BY <2>3, <2>4
<1>5. ASSUME NEW n \in Names, NEW u \in Ops, NEW p \in PartNumbers, UploadPart(o, n, u, p)
      PROVE  BucketsApart' /\ CarriedReceived'
  <2> DEFINE c == [Idle EXCEPT !.pc = "part", !.ref = buckets[n], !.up = u, !.part = p]
  <2>1. c.body = <<>>
    BY DEF Idle
  <2>2. Becomes(o, c) /\ op[o].pc # "done" /\ heap' = heap /\ UNCHANGED <<buckets, created>>
    BY <1>5 DEF UploadPart, Is
  <2> HIDE DEF c
  <2>3. \A j \in 1 .. Len(c.body) : c.body[j] = o
    BY <2>1
  <2> QED
    BY <2>2, <2>3, <1>a
<1>6. ASSUME NEW n \in Names, NEW k \in Keys, DeleteMarking(o, n, k) PROVE BucketsApart' /\ CarriedReceived'
  <2> DEFINE r == buckets[n]
             x == <<Marker(o)>> \o VersionsOf(Bucket(n), k)
             c == [Idle EXCEPT !.pc = "done", !.ref = r]
  <2>1. /\ r \in Refs /\ r \in created /\ op[o].pc # "done" /\ UNCHANGED <<buckets, created>>
        /\ Becomes(o, c) /\ heap' = [heap EXCEPT ![r].objects[k] = x]
    BY <1>6, <1>n DEF DeleteMarking, Is, SetObject
  <2>2. c.body = <<>>
    BY DEF Idle
  <2> HIDE DEF r, x, c
  <2>3. /\ \A q \in Refs : q # r => heap'[q] = heap[q]
        /\ \A q \in Refs : heap'[q].uploads = heap[q].uploads
    BY <1>0, <2>1 DEF Contents
  <2>4. \A q \in Refs, u \in Ops : heap'[q].uploads[u] \in {None, heap[q].uploads[u]}
    BY <2>3
  <2> QED
    BY <2>1, <2>2, <2>3, <2>4, <1>b
<1>7. ASSUME NEW n \in Names, NEW k \in Keys, NEW u \in Ops, NEW list \in Lists,
             CompleteMultipartUpload(o, n, k, u, list)
      PROVE  BucketsApart' /\ CarriedReceived'
  <2> DEFINE r == buckets[n]
             x == Written(Bucket(n), k, NewVersion(Bucket(n), o, Assembled(Bucket(n).uploads[u], list), u))
             c == [Idle EXCEPT !.pc = "done", !.ref = r]
  <2>1. /\ r \in Refs /\ r \in created /\ op[o].pc # "done" /\ UNCHANGED <<buckets, created>>
        /\ Becomes(o, c) /\ heap' = [heap EXCEPT ![r].objects[k] = x, ![r].uploads[u] = None]
    BY <1>7, <1>n DEF CompleteMultipartUpload, Is
  <2>2. c.body = <<>>
    BY DEF Idle
  <2> HIDE DEF r, x, c
  <2>3. /\ \A q \in Refs : q # r => heap'[q] = heap[q]
        /\ \A q \in Refs, w \in Ops :
             heap'[q].uploads[w] = IF q = r /\ w = u THEN None ELSE heap[q].uploads[w]
    BY <1>0, <2>1 DEF Contents
  <2>4. \A q \in Refs, w \in Ops : heap'[q].uploads[w] \in {None, heap[q].uploads[w]}
    BY <2>3
  <2> QED
    BY <2>1, <2>2, <2>3, <2>4, <1>b
<1>8. CASE PutEnd(o)
  <2> DEFINE r == op[o].ref
             k == op[o].key
             x == Written(heap[r], k, NewVersion(heap[r], o, op[o].body, None))
             c == [op[o] EXCEPT !.pc = "done"]
  <2>1. /\ op[o].pc = "put" /\ r \in Refs /\ r \in created /\ k \in Keys /\ UNCHANGED <<buckets, created>>
        /\ Becomes(o, c) /\ heap' = [heap EXCEPT ![r].objects[k] = x]
    BY <1>0, <1>8 DEF PutEnd, Is, CallsOK, SetObject
  <2>2. c.body = op[o].body
    BY <1>0 DEF CallState
  <2> HIDE DEF r, k, x, c
  <2>3. /\ \A q \in Refs : q # r => heap'[q] = heap[q]
        /\ \A q \in Refs : heap'[q].uploads = heap[q].uploads
    BY <1>0, <2>1 DEF Contents
  <2>4. \A q \in Refs, u \in Ops : heap'[q].uploads[u] \in {None, heap[q].uploads[u]}
    BY <2>3
  <2> QED
    BY <2>1, <2>2, <2>3, <2>4, <1>b
<1>9. CASE PartEnd(o)
  <2> DEFINE r == op[o].ref
             u == op[o].up
             up == heap[r].uploads[u]
             p0 == op[o].part
             new == [up EXCEPT ![p0] = o]
             c == [op[o] EXCEPT !.pc = "done"]
  <2>1. /\ op[o].pc = "part" /\ r \in Refs /\ r \in created /\ u \in Ops /\ p0 \in PartNumbers
        /\ UNCHANGED <<buckets, created>> /\ Becomes(o, c)
    BY <1>0, <1>9 DEF PartEnd, Is, CallsOK
  <2>2. c.body = op[o].body /\ c.pc = "done"
    BY <1>0 DEF CallState
  <2>3. CASE up = None
    <3>1. heap' = heap
      BY <1>9, <2>3 DEF PartEnd
    <3> HIDE DEF c, up
    <3> QED
      BY <2>1, <2>2, <3>1, <1>a
  <2>4. CASE up # None
    <3>1. heap' = [heap EXCEPT ![r].uploads[u] = new]
      BY <1>9, <2>4 DEF PartEnd, SetUpload
    <3>2. up \in Upload
      BY <1>0, <2>1, <2>4 DEF Contents
    <3>3. \A p \in PartNumbers : /\ new[p] = IF p = p0 THEN o ELSE up[p]
                                 /\ up[p] \in Ops \cup {None}
      BY <3>2 DEF Upload
    <3>4. op[u].pc = "done" /\ \A p \in PartNumbers : up[p] # None => op[up[p]].pc = "done"
      BY <2>1, <2>4 DEF StorageInv, CarriedReceived
    <3>5. heap[r].uploads[u] # None
      BY <2>4
    <3> HIDE DEF r, u, up, p0, new, c
    <3>6. /\ \A q \in Refs : q # r => heap'[q] = heap[q]
          /\ \A q \in Refs, w \in Ops :
               heap'[q].uploads[w] = IF q = r /\ w = u THEN new ELSE heap[q].uploads[w]
      BY <1>0, <2>1, <3>1 DEF Contents
    <3>7. op'[o] = c /\ \A p \in Ops : p # o => op'[p] = op[p]
      BY <2>1, OthersUnchanged
    <3>8. NamesStay
      BY <2>1, <3>5, <3>6 DEF NamesStay
    <3>9. \A p \in PartNumbers : new[p] # None => op'[new[p]].pc = "done"
      <4> TAKE p \in PartNumbers
      <4>1. CASE p = p0
        BY <2>2, <3>3, <3>7, <4>1
      <4>2. CASE p # p0
        BY <2>2, <3>3, <3>4, <3>7, <4>2
      <4> QED
        BY <4>1, <4>2
    <3>10. op'[u].pc = "done"
      BY <2>1, <2>2, <3>4, <3>7
    <3>11. \A q \in Refs, w \in Ops : heap'[q].uploads[w] # None =>
             \/ heap'[q].uploads[w] = heap[q].uploads[w]
             \/ /\ op'[w].pc = "done"
                /\ \A p \in PartNumbers :
                     heap'[q].uploads[w][p] # None => op'[heap'[q].uploads[w][p]].pc = "done"
      BY <3>6, <3>9, <3>10
    <3>12. op'[o].body = op[o].body /\ op[o].pc # "done"
      BY <2>1, <2>2, <3>7
    <3> QED
      BY <3>7, <3>8, <3>11, <3>12, OneCall
  <2> QED
    BY <2>3, <2>4
<1>10. CASE StreamError(o)
  <2> DEFINE c == [op[o] EXCEPT !.pc = "failed"]
  <2>1. c.body = op[o].body
    BY <1>0 DEF CallState
  <2>2. Becomes(o, c) /\ op[o].pc # "done" /\ heap' = heap /\ UNCHANGED <<buckets, created>>
    BY <1>10 DEF StreamError, Is
  <2> HIDE DEF c
  <2> QED
    BY <2>1, <2>2, <1>a
<1> QED
  BY <1>1, <1>2, <1>3, <1>4, <1>5, <1>6, <1>7, <1>8, <1>9, <1>10 DEF Call

\* Administration and the other changes do so too.
LEMMA ManageCarries ==
  ASSUME StorageInv, TypeOK', NEW n \in Names, Administer(n) \/ Change(n)
  PROVE  BucketsApart' /\ CarriedReceived'
<1>0. /\ heap \in [Refs -> Contents] /\ buckets \in [Names -> Refs \cup {None}]
      /\ created \subseteq Refs
  BY DEF StorageInv, TypeOK
<1>n. Exists(n) => buckets[n] \in Refs /\ buckets[n] \in created /\ Bucket(n) = heap[buckets[n]]
  BY NamedBucket DEF StorageInv, BucketsApart, Bucket
\* All of them leave the calls alone and add no upload.
<1>a. ASSUME op' = op, \A r \in Refs, u \in Ops : heap'[r].uploads[u] \in {None, heap[r].uploads[u]}
      PROVE  CarriedReceived'
  <2>1. CallsAdvance
    BY <1>a DEF CallsAdvance
  <2> QED
    BY <2>1, CallsAdvanceOK
\* Most of them write the bucket of the name and leave the names alone.
<1>b. ASSUME Exists(n), UNCHANGED <<buckets, created, op>>,
             \A r \in Refs : r # buckets[n] => heap'[r] = heap[r],
             \A r \in Refs, u \in Ops : heap'[r].uploads[u] \in {None, heap[r].uploads[u]}
      PROVE  BucketsApart' /\ CarriedReceived'
  <2>1. NamesStay
    BY <1>b, <1>n DEF NamesStay
  <2> QED
    BY <1>a, <1>b, <2>1, NamesStayOK
<1>1. ASSUME NEW r \in Refs, CreateBucket(n, r) PROVE BucketsApart' /\ CarriedReceived'
  <2>1. /\ ~ Exists(n) /\ r \notin created /\ heap' = heap /\ op' = op
        /\ buckets' = [buckets EXCEPT ![n] = r] /\ created' = created \cup {r}
    BY <1>1 DEF CreateBucket
  <2>2. \A m \in Names : buckets'[m] = IF m = n THEN r ELSE buckets[m]
    BY <1>0, <2>1
  <2>3. \A m \in Names : Exists(m) => buckets[m] \in created
    BY DEF StorageInv, BucketsApart
  <2>4. \A m \in Names : buckets'[m] # None => buckets'[m] \in created'
    BY <2>1, <2>2, <2>3 DEF Exists
  <2>5. \A l, m \in Names : buckets'[l] # None /\ buckets'[m] = buckets'[l] => l = m
    <3> TAKE l, m \in Names
    <3> HAVE buckets'[l] # None /\ buckets'[m] = buckets'[l]
    <3>1. l # n /\ m # n => l = m
      BY <2>2 DEF StorageInv, BucketsApart, Exists
    <3>2. l = n => m = n
      BY <2>1, <2>2, <2>3 DEF Exists
    <3>3. m = n => l = n
      BY <2>1, <2>2, <2>3 DEF Exists
    <3> QED
      BY <3>1, <3>2, <3>3
  <2>6. \A q \in Refs \ created' : heap'[q] = Blank
    BY <2>1 DEF StorageInv, BucketsApart
  <2>7. ASSUME NEW q \in Refs, \A m \in Names : buckets'[m] # q, NEW u \in Ops
        PROVE  heap'[q].uploads[u] = None
    <3>1. \A m \in Names : m # n => buckets[m] # q
      BY <2>2, <2>7
    <3>2. buckets[n] # q
      BY <2>1, <2>7, RefsAssumption DEF Exists
    <3> QED
      BY <2>1, <3>1, <3>2 DEF StorageInv, BucketsApart
  <2>8. BucketsApart'
    BY <2>4, <2>5, <2>6, <2>7 DEF BucketsApart, Exists
  <2> QED
    BY <1>a, <2>1, <2>8
<1>2. CASE DeleteBucket(n)
  <2>1. /\ Exists(n) /\ heap' = heap /\ op' = op /\ created' = created
        /\ buckets' = [buckets EXCEPT ![n] = None]
        /\ \A u \in Ops : heap[buckets[n]].uploads[u] = None
    BY <1>2, <1>n DEF DeleteBucket
  <2>2. \A m \in Names : buckets'[m] = IF m = n THEN None ELSE buckets[m]
    BY <1>0, <2>1
  <2>3. ASSUME NEW q \in Refs, \A m \in Names : buckets'[m] # q, NEW u \in Ops
        PROVE  heap'[q].uploads[u] = None
    <3>1. CASE q = buckets[n]
      BY <2>1, <3>1
    <3>2. CASE q # buckets[n]
      <4>1. \A m \in Names : buckets[m] # q
        BY <2>2, <2>3, <3>2
      <4> QED
        BY <2>1, <4>1 DEF StorageInv, BucketsApart
    <3> QED
      BY <3>1, <3>2
  <2>4. BucketsApart'
    BY <2>1, <2>2, <2>3 DEF StorageInv, BucketsApart, Exists
  <2> QED
    BY <1>a, <2>1, <2>4
<1>3. ASSUME NEW x \in Statuses, SetVersioning(n, x) PROVE BucketsApart' /\ CarriedReceived'
  BY <1>0, <1>3, <1>b, <1>n DEF SetVersioning, Contents
<1>4. ASSUME NEW x \in Settings, SetSetting(n, x) PROVE BucketsApart' /\ CarriedReceived'
  BY <1>0, <1>4, <1>b, <1>n DEF SetSetting, Contents
<1>5. ASSUME NEW x \in Settings, DeleteSetting(n, x) PROVE BucketsApart' /\ CarriedReceived'
  BY <1>0, <1>5, <1>b, <1>n DEF DeleteSetting, Contents
<1>6. ASSUME NEW k \in Keys,
             \/ DeleteObject(n, k) \/ ExpireObject(n, k)
             \/ \E i \in Ops \cup {NullId} : DeleteVersion(n, k, i)
             \/ \E i \in Ops \cup {NullId, None}, t \in Tags : SetObjectTagging(n, k, i, t)
      PROVE  BucketsApart' /\ CarriedReceived'
  <2>1. Exists(n) /\ UNCHANGED <<buckets, created, op>>
    BY <1>6, FadingWrites
  <2>2. PICK x : SetObject(buckets[n], k, x)
    BY <1>6, FadingWrites
  <2>3. /\ \A r \in Refs : r # buckets[n] => heap'[r] = heap[r]
        /\ \A r \in Refs : heap'[r].uploads = heap[r].uploads
    BY <1>0, <1>n, <2>1, <2>2 DEF SetObject, Contents
  <2> QED
    BY <1>b, <2>1, <2>3
<1>7. ASSUME NEW u \in Ops, AbortMultipartUpload(n, u) PROVE BucketsApart' /\ CarriedReceived'
  <2>1. /\ Exists(n) /\ UNCHANGED <<buckets, created, op>>
        /\ heap' = [heap EXCEPT ![buckets[n]].uploads[u] = None]
    BY <1>7 DEF AbortMultipartUpload, SetUpload
  <2>2. /\ \A r \in Refs : r # buckets[n] => heap'[r] = heap[r]
        /\ \A r \in Refs, w \in Ops : heap'[r].uploads[w] \in {None, heap[r].uploads[w]}
    BY <1>0, <1>n, <2>1 DEF Contents
  <2> QED
    BY <1>b, <2>1, <2>2
<1> QED
  BY <1>1, <1>2, <1>3, <1>4, <1>5, <1>6, <1>7 DEF Administer, Change, ExpireUpload

-----------------------------------------------------------------------------
(* The invariant.                                                          *)

LEMMA BlankType == Blank \in Contents
BY StatusesAssumption DEF Blank, Contents

LEMMA InitIInv == Init => StorageInv
<1> SUFFICES ASSUME Init PROVE StorageInv
  OBVIOUS
<1>1. /\ \A r \in Refs : heap[r] = Blank
      /\ \A o \in Ops : op[o] = Idle
      /\ \A n \in Names : buckets[n] = None
      /\ created = {}
  BY DEF Init
<1>2. /\ \A k \in Keys : Blank.objects[k] = None
      /\ \A u \in Ops : Blank.uploads[u] = None
      /\ Idle.body = <<>> /\ Idle.pc = "idle"
  BY DEF Blank, Idle
<1>3. \A r \in Refs, k \in Keys : heap[r].objects[k] = None /\ VersionsOf(heap[r], k) = <<>>
  BY <1>1, <1>2 DEF VersionsOf
<1>4. \A i \in 1 .. Len(<<>>) : FALSE
  OBVIOUS
<1>5. TypeOK
  BY <1>1, <1>2, BlankType, IdleType DEF Init, TypeOK, CallsOK
<1>6. ObjectsWellFormed
  BY <1>3 DEF ObjectsWellFormed
<1>7. UploadsCompleteOnce /\ WritesWhereCalled
  BY <1>3, <1>4 DEF UploadsCompleteOnce, WritesWhereCalled
<1>8. BucketsApart
  BY <1>1, <1>2 DEF BucketsApart, Exists
<1>9. CarriedReceived
  BY <1>1, <1>2, <1>4 DEF CarriedReceived
<1> QED
  BY <1>5, <1>6, <1>7, <1>8, <1>9 DEF StorageInv

LEMMA StutterIInv == ASSUME StorageInv, UNCHANGED vars PROVE StorageInv'
BY DEF vars, StorageInv, TypeOK, CallsOK, ObjectsWellFormed, UploadsCompleteOnce, WritesWhereCalled,
       BucketsApart, CarriedReceived, Exists

LEMMA NextIInv == StorageInv /\ [Next]_vars => StorageInv'
<1> SUFFICES ASSUME StorageInv, [Next]_vars PROVE StorageInv'
  OBVIOUS
<1>1. ASSUME NEW o \in Ops, Call(o) \/ PutEnd(o) \/ PartEnd(o) \/ StreamError(o) PROVE StorageInv'
  <2>1. TypeOK'
    BY <1>1, CallType
  <2>2. VersionsOK' /\ BucketsApart' /\ CarriedReceived'
    BY <1>1, <2>1, CallVersions, CallCarries
  <2> QED
    BY <2>1, <2>2 DEF StorageInv, VersionsOK
<1>2. ASSUME NEW n \in Names, Administer(n) \/ Change(n) PROVE StorageInv'
  <2>1. TypeOK'
    BY <1>2, ManageType
  <2>2. VersionsOK' /\ BucketsApart' /\ CarriedReceived'
    BY <1>2, <2>1, ManageVersions, ManageCarries
  <2> QED
    BY <2>1, <2>2 DEF StorageInv, VersionsOK
<1>3. CASE UNCHANGED vars
  BY <1>3, StutterIInv
<1> QED
  BY <1>1, <1>2, <1>3 DEF Next

\* The strengthened invariant holds in every state of the memory backend.
THEOREM Invariance == Spec => []StorageInv
BY InitIInv, NextIInv, PTL DEF Spec

\* No object of any bucket is an empty list of versions or repeats an id.
THEOREM WellFormed == Spec => []ObjectsWellFormed
<1>1. StorageInv => ObjectsWellFormed
  BY DEF StorageInv
<1> QED
  BY <1>1, Invariance, PTL

\* However uploads, their completion, aborts and expiry interleave, an upload
\* becomes at most one version, and none that is left can be completed again.
THEOREM CompletedOnce == Spec => []UploadsCompleteOnce
<1>1. StorageInv => UploadsCompleteOnce
  BY DEF StorageInv
<1> QED
  BY <1>1, Invariance, PTL

\* A version is only ever written into the bucket its call was made on, under an
\* id of its own, from bytes that were received whole.
THEOREM WrittenWhereCalled == Spec => []WritesWhereCalled
<1>1. StorageInv => WritesWhereCalled
  BY DEF StorageInv
<1> QED
  BY <1>1, Invariance, PTL

\* Buckets under different names share nothing, and a deleted one keeps no upload.
THEOREM Apart == Spec => []BucketsApart
<1>1. StorageInv => BucketsApart
  BY DEF StorageInv
<1> QED
  BY <1>1, Invariance, PTL

-----------------------------------------------------------------------------
(* What a step does to the lists of versions.                              *)

\* Nothing.
Quiet == \A r \in Refs, k \in Keys : VersionsOf(heap'[r], k) = VersionsOf(heap[r], k)

\* Only the object k of bucket r changes.
Only(r, k) == \A q \in Refs, l \in Keys :
                q # r \/ l # k => VersionsOf(heap'[q], l) = VersionsOf(heap[q], l)

\* With versioning a version under a new id comes in front, without it one under
\* "null" replaces all; one version goes; without versioning all go; or a
\* version that is no marker gets other tags.
Fronts(r, k)   == /\ heap[r].versioning = "Enabled"
                  /\ \E v \in Version :
                       /\ v.id \in Ops /\ v.by = v.id /\ v.tag = NoTags
                       /\ \A i \in 1 .. Len(VersionsOf(heap[r], k)) : VersionsOf(heap[r], k)[i].id # v.id
                       /\ VersionsOf(heap'[r], k) = <<v>> \o VersionsOf(heap[r], k)
Replaces(r, k) == /\ heap[r].versioning # "Enabled"
                  /\ \E v \in Version : /\ v.id = NullId /\ ~ v.del /\ v.tag = NoTags
                                        /\ VersionsOf(heap'[r], k) = <<v>>
Drops(r, k)    == \E i \in 1 .. Len(VersionsOf(heap[r], k)) :
                    VersionsOf(heap'[r], k) = Without(VersionsOf(heap[r], k), i)
Empties(r, k)  == heap[r].versioning # "Enabled" /\ VersionsOf(heap'[r], k) = <<>>
Retags(r, k)   == \E i \in 1 .. Len(VersionsOf(heap[r], k)), t \in Tags :
                    /\ ~ VersionsOf(heap[r], k)[i].del
                    /\ VersionsOf(heap'[r], k) = [VersionsOf(heap[r], k) EXCEPT ![i].tag = t]

Edit(r, k) == Fronts(r, k) \/ Replaces(r, k) \/ Drops(r, k) \/ Empties(r, k) \/ Retags(r, k)

\* What a client sees of each key under each name.
seen == [x \in Names \X Keys |-> Seen(x[1], x[2])]

\* A step changes nothing that a client can see of versions, or one object.
Changes == \/ Quiet /\ seen' = seen
           \/ buckets' = buckets /\ \E r \in Refs, k \in Keys : Only(r, k) /\ Edit(r, k)

\* Where nothing changes in the buckets, nothing changes for a client.
LEMMA SameSeen ==
  ASSUME buckets' = buckets, TypeOK, Quiet
  PROVE  seen' = seen
<1>1. ASSUME NEW n \in Names, NEW k \in Keys PROVE Seen(n, k)' = Seen(n, k)
  <2>1. CASE ~ Exists(n)
    BY <2>1 DEF Seen, Exists
  <2>2. CASE Exists(n)
    <3>1. buckets[n] \in Refs
      BY <2>2, NamedBucket
    <3>2. VersionsOf(heap'[buckets[n]], k) = VersionsOf(heap[buckets[n]], k)
      BY <3>1 DEF Quiet
    <3> QED
      BY <2>2, <3>2 DEF Seen, Exists, Bucket
  <2> QED
    BY <2>1, <2>2
<1>2. \A x \in Names \X Keys : Seen(x[1], x[2])' = Seen(x[1], x[2])
  BY <1>1
<1> QED
  BY <1>2 DEF seen

\* Steps that leave the objects of all buckets alone.
LEMMA Unwritten ==
  ASSUME StorageInv, buckets' = buckets, \A r \in Refs : heap'[r].objects = heap[r].objects
  PROVE  Changes
<1>1. Quiet
  BY DEF Quiet, VersionsOf
<1> QED
  BY <1>1, SameSeen DEF StorageInv, Changes

\* A call that has not ended finds no version under its own id.
LEMMA FreshId ==
  ASSUME StorageInv, NEW o \in Ops, op[o].pc # "done", NEW r \in Refs, NEW k \in Keys
  PROVE  \A i \in 1 .. Len(VersionsOf(heap[r], k)) : VersionsOf(heap[r], k)[i].id # o
<1> SUFFICES ASSUME NEW i \in 1 .. Len(VersionsOf(heap[r], k)), VersionsOf(heap[r], k)[i].id = o
             PROVE  FALSE
  OBVIOUS
<1>1. o \in {VersionsOf(heap[r], k)[i].by, NullId} /\ op[VersionsOf(heap[r], k)[i].by].pc = "done"
  BY DEF StorageInv, WritesWhereCalled
<1> QED
  BY <1>1, OpsAssumption

\* What a put or a completion writes, once Written says where.
LEMMA Writing ==
  ASSUME StorageInv, NEW o \in Ops, op[o].pc # "done", NEW r \in Refs, NEW k \in Keys, NEW v \in Version,
         v.by = o, v.tag = NoTags, v.id = (IF heap[r].versioning = "Enabled" THEN o ELSE NullId), ~ v.del,
         NEW x, x = Written(heap[r], k, v), buckets' = buckets,
         \A q \in Refs, l \in Keys :
           heap'[q].objects[l] = IF q = r /\ l = k THEN x ELSE heap[q].objects[l]
  PROVE  Changes
<1>1. heap[r] \in Contents
  BY DEF StorageInv, TypeOK
<1>2. x \in Seq(Version) /\ x # None
  BY <1>1, WrittenType, NoneAssumption
<1>3. VersionsOf(heap'[r], k) = x
  BY <1>2 DEF VersionsOf
<1>4. Only(r, k)
  BY DEF Only, VersionsOf
<1>5. CASE heap[r].versioning = "Enabled"
  <2>1. x = <<v>> \o VersionsOf(heap[r], k) /\ v.id = o
    BY <1>5 DEF Written
  <2>2. Fronts(r, k)
    BY <1>3, <1>5, <2>1, FreshId DEF Fronts
  <2> QED
    BY <1>4, <2>2 DEF Changes, Edit
<1>6. CASE heap[r].versioning # "Enabled"
  <2>1. x = <<v>> /\ v.id = NullId
    BY <1>6 DEF Written
  <2>2. Replaces(r, k)
    BY <1>3, <1>6, <2>1 DEF Replaces
  <2> QED
    BY <1>4, <2>2 DEF Changes, Edit
<1> QED
  BY <1>5, <1>6

\* The calls that receive a body or name a version.
LEMMA CallChanges ==
  ASSUME StorageInv, NEW o \in Ops, Call(o) \/ PutEnd(o) \/ PartEnd(o) \/ StreamError(o)
  PROVE  Changes
<1>0. heap \in [Refs -> Contents] /\ op \in [Ops -> CallState] /\ created \subseteq Refs /\ CallsOK
  BY DEF StorageInv, TypeOK, CallsOK
<1>1. ASSUME NEW n \in Names, CreateMultipartUpload(o, n) PROVE Changes
  <2>1. buckets[n] \in Refs /\ buckets' = buckets
    BY <1>1, NamedBucket DEF CreateMultipartUpload, StorageInv
  <2>2. \A r \in Refs : heap'[r].objects = heap[r].objects
    BY <1>0, <1>1, <2>1 DEF CreateMultipartUpload, SetUpload, Contents
  <2> QED
    BY <2>1, <2>2, Unwritten
<1>2. ASSUME NEW n \in Names, NEW k \in Keys, PutObject(o, n, k) \/ CopyObject(o, n, k) \/ CopyPut(o, n, k)
      PROVE  Changes
  BY <1>2, Unwritten DEF PutObject, CopyObject, CopyPut
<1>3. ASSUME NEW n \in Names, NEW u \in Ops, NEW p \in PartNumbers, UploadPart(o, n, u, p) PROVE Changes
  BY <1>3, Unwritten DEF UploadPart
<1>4. ASSUME NEW n \in Names, NEW k \in Keys, DeleteMarking(o, n, k) PROVE Changes
  <2>1. PICK r \in Refs : r = buckets[n] /\ op[o].pc = "idle" /\ Bucket(n) = heap[r] /\ heap[r].versioning = "Enabled"
    BY <1>4, NamedBucket DEF DeleteMarking, StorageInv, Is, Bucket
  <2> DEFINE v == Marker(o)
             x == <<v>> \o VersionsOf(heap[r], k)
  <2>2. v \in Version /\ v.id = o /\ v.by = o /\ v.tag = NoTags
    BY TagsAssumption DEF Marker, Version
  <2>3. SetObject(r, k, x) /\ buckets' = buckets
    BY <1>4, <2>1 DEF DeleteMarking
  <2> HIDE DEF v
  <2>4. x \in Seq(Version) /\ x # None
    <3>1. VersionsOf(heap[r], k) \in Seq(Version)
      BY <2>1, EntryFacts
    <3>2. x \in Seq(Version)
      BY <2>2, <3>1, PrependSeq
    <3> QED
      BY <3>2, NoneAssumption
  <2> HIDE DEF x
  <2>5. \A q \in Refs, l \in Keys : heap'[q].objects[l] = IF q = r /\ l = k THEN x ELSE heap[q].objects[l]
    BY <1>0, <2>1, <2>3 DEF SetObject, Contents
  <2>6. VersionsOf(heap'[r], k) = x /\ Only(r, k)
    BY <2>4, <2>5 DEF VersionsOf, Only
  <2>7. Fronts(r, k)
    BY <2>1, <2>2, <2>6, FreshId DEF Fronts, x
  <2> QED
    BY <2>3, <2>6, <2>7 DEF Changes, Edit
<1>5. ASSUME NEW n \in Names, NEW k \in Keys, NEW u \in Ops, NEW list \in Lists,
             CompleteMultipartUpload(o, n, k, u, list)
      PROVE  Changes
  <2>1. PICK r \in Refs : r = buckets[n] /\ op[o].pc = "idle" /\ Bucket(n) = heap[r]
    BY <1>5, NamedBucket DEF CompleteMultipartUpload, StorageInv, Is, Bucket
  <2> DEFINE up == heap[r].uploads[u]
             body == Assembled(up, list)
             v == NewVersion(heap[r], o, body, u)
             x == Written(heap[r], k, v)
  <2>2. up # None /\ \A i \in 1 .. Len(list) : up[list[i]] # None
    BY <1>5, <2>1 DEF CompleteMultipartUpload
  <2>3. up \in Upload
    BY <1>0, <2>1, <2>2 DEF Contents
  <2>4. body \in Seq(Ops)
    BY <2>2, <2>3, AssembledType
  <2>5. heap' = [heap EXCEPT ![r].objects[k] = x, ![r].uploads[u] = None] /\ buckets' = buckets
    BY <1>5, <2>1 DEF CompleteMultipartUpload
  <2> HIDE DEF body
  <2>6. /\ v \in Version /\ v.by = o /\ v.tag = NoTags /\ ~ v.del
        /\ v.id = IF heap[r].versioning = "Enabled" THEN o ELSE NullId
    BY <2>4, NewVersionType DEF NewVersion
  <2>7. x = Written(heap[r], k, v)
    OBVIOUS
  <2> HIDE DEF v, x
  <2>8. \A q \in Refs, l \in Keys : heap'[q].objects[l] = IF q = r /\ l = k THEN x ELSE heap[q].objects[l]
    BY <1>0, <2>5 DEF Contents
  <2>9. op[o].pc # "done" /\ buckets' = buckets
    BY <2>1, <2>5
  <2> QED
    BY <2>6, <2>7, <2>8, <2>9, Writing
<1>6. CASE PutEnd(o)
  <2>1. PICK r \in Refs, k \in Keys : r = op[o].ref /\ k = op[o].key /\ op[o].pc = "put" /\ op[o].body \in Seq(Ops)
    BY <1>0, <1>6 DEF PutEnd, Is, CallsOK, CallState
  <2> DEFINE body == op[o].body
             v == NewVersion(heap[r], o, body, None)
             x == Written(heap[r], k, v)
  <2>2. /\ v \in Version /\ v.by = o /\ v.tag = NoTags /\ ~ v.del
        /\ v.id = IF heap[r].versioning = "Enabled" THEN o ELSE NullId
    BY <2>1, NewVersionType DEF NewVersion
  <2>3. SetObject(r, k, x) /\ buckets' = buckets
    BY <1>6, <2>1 DEF PutEnd
  <2>4. x = Written(heap[r], k, v)
    OBVIOUS
  <2> HIDE DEF v, x
  <2>5. \A q \in Refs, l \in Keys : heap'[q].objects[l] = IF q = r /\ l = k THEN x ELSE heap[q].objects[l]
    BY <1>0, <2>3 DEF SetObject, Contents
  <2> QED
    BY <2>1, <2>2, <2>3, <2>4, <2>5, Writing
<1>7. CASE PartEnd(o)
  <2>1. PICK r \in Refs, u \in Ops : r = op[o].ref /\ u = op[o].up
    BY <1>0, <1>7 DEF PartEnd, Is, CallsOK
  <2>2. buckets' = buckets /\ (heap' = heap \/ \E y : SetUpload(r, u, y))
    BY <1>7, <2>1 DEF PartEnd
  <2>3. \A q \in Refs : heap'[q].objects = heap[q].objects
    BY <1>0, <2>2 DEF SetUpload, Contents
  <2> QED
    BY <2>2, <2>3, Unwritten
<1>8. CASE StreamError(o)
  BY <1>8, Unwritten DEF StreamError
<1> QED
  BY <1>1, <1>2, <1>3, <1>4, <1>5, <1>6, <1>7, <1>8 DEF Call

\* What the calls that delete, expire or tag write.
LEMMA FadingEdits ==
  ASSUME StorageInv, NEW n \in Names, NEW k \in Keys,
         \/ DeleteObject(n, k) \/ ExpireObject(n, k)
         \/ \E i \in Ops \cup {NullId} : DeleteVersion(n, k, i)
         \/ \E i \in Ops \cup {NullId, None}, t \in Tags : SetObjectTagging(n, k, i, t)
  PROVE  Changes
<1>0. heap \in [Refs -> Contents]
  BY DEF StorageInv, TypeOK
<1>1. Exists(n) /\ buckets' = buckets
  BY FadingWrites
<1>2. PICK r \in Refs : r = buckets[n] /\ Bucket(n) = heap[r]
  BY <1>1, NamedBucket DEF StorageInv, Bucket
<1> DEFINE s == VersionsOf(heap[r], k)
<1>3. /\ s \in Seq(Version) /\ \A i, j \in 1 .. Len(s) : s[i].id = s[j].id => i = j
      /\ heap[r].objects[k] # None => s = heap[r].objects[k]
  BY EntryFacts
<1>s. VersionsOf(Bucket(n), k) = s
  BY <1>2
\* The object is written; what is left is to say how.
<1>4. ASSUME NEW x, SetObject(r, k, x)
      PROVE  VersionsOf(heap'[r], k) = Listed(x) /\ Only(r, k)
  <2>1. \A q \in Refs, l \in Keys : heap'[q].objects[l] = IF q = r /\ l = k THEN x ELSE heap[q].objects[l]
    BY <1>0, <1>4 DEF SetObject, Contents
  <2> QED
    BY <2>1 DEF Only, VersionsOf, Listed
<1> HIDE DEF s
<1>5. ASSUME SetObject(r, k, None), heap[r].versioning # "Enabled" PROVE Changes
  <2>1. VersionsOf(heap'[r], k) = <<>>
    BY <1>4, <1>5 DEF Listed
  <2> QED
    BY <1>1, <1>4, <1>5, <2>1 DEF Changes, Edit, Empties
<1>6. ASSUME NEW i \in 1 .. Len(s), SetObject(r, k, Removed(s, i)) PROVE Changes
  <2>1. Listed(Removed(s, i)) = Without(s, i)
    <3>1. Without(s, i) \in Seq(Version) /\ Len(Without(s, i)) = Len(s) - 1 /\ Without(s, i) # None
      BY <1>3, WithoutSeq, NoneAssumption
    <3> QED
      BY <3>1 DEF Listed, Removed
  <2>2. VersionsOf(heap'[r], k) = Without(s, i) /\ Only(r, k)
    BY <1>4, <1>6, <2>1
  <2>3. Drops(r, k)
    BY <2>2 DEF Drops, s
  <2> QED
    BY <1>1, <2>2, <2>3 DEF Changes, Edit
<1>7. CASE DeleteObject(n, k)
  BY <1>2, <1>5, <1>7 DEF DeleteObject
<1>8. CASE ExpireObject(n, k)
  <2>1. s # <<>> /\ Head(s).id = s[1].id
    BY <1>3, <1>8, <1>s DEF ExpireObject
  <2>2. CASE heap[r].versioning # "Enabled"
    BY <1>2, <1>5, <1>8, <2>2 DEF ExpireObject
  <2>3. CASE heap[r].versioning = "Enabled"
    <3>1. Find(s, Head(s).id) \in 1 .. Len(s)
      <4>1. CASE Head(s).id = None
        BY <1>3, <2>1, <4>1 DEF Find
      <4>2. CASE Head(s).id # None
        <5>1. 1 \in 1 .. Len(s)
          BY <1>3, <2>1
        <5>2. Find(s, Head(s).id) # 0 /\ Find(s, Head(s).id) \in 0 .. Len(s)
          BY <1>3, <2>1, <4>2, <5>1, FindPlace
        <5> QED
          BY <1>3, <5>2
      <4> QED
        BY <4>1, <4>2
    <3>2. SetObject(r, k, Removed(s, Find(s, Head(s).id)))
      BY <1>2, <1>8, <1>s, <2>3 DEF ExpireObject
    <3> QED
      BY <1>6, <3>1, <3>2
  <2> QED
    BY <2>2, <2>3
<1>9. ASSUME NEW i \in Ops \cup {NullId}, DeleteVersion(n, k, i) PROVE Changes
  <2>1. Bucket(n).objects[k] = s /\ Find(s, i) # 0 /\ SetObject(r, k, Removed(s, Find(s, i)))
    BY <1>2, <1>3, <1>9 DEF DeleteVersion
  <2>2. Find(s, i) \in 1 .. Len(s)
    BY <1>3, <2>1, FindPlace
  <2> QED
    BY <1>6, <2>1, <2>2
<1>10. ASSUME NEW i \in Ops \cup {NullId, None}, NEW t \in Tags, SetObjectTagging(n, k, i, t) PROVE Changes
  <2>1. /\ Find(s, i) # 0 /\ ~ s[Find(s, i)].del
        /\ SetObject(r, k, [s EXCEPT ![Find(s, i)].tag = t])
    BY <1>2, <1>10, <1>s DEF SetObjectTagging
  <2>2. PICK j \in 1 .. Len(s) : j = Find(s, i)
    BY <1>3, <2>1, FindPlace
  <2> DEFINE w == [s EXCEPT ![j].tag = t]
  <2>3. Fit(w) /\ w # None
    <3>1. Fit(w)
      BY <1>3, RetaggedFacts
    <3>2. w \in Seq(Version)
      <4>1. s[j] \in Version
        BY <1>3
      <4>2. [s[j] EXCEPT !.tag = t] \in Version
        BY <4>1 DEF Version
      <4> QED
        BY <1>3, <4>2
    <3> QED
      BY <3>1, <3>2, NoneAssumption
  <2>4. SetObject(r, k, w) /\ ~ s[j].del
    BY <2>1, <2>2
  <2> DEFINE x == w
  <2>5. VersionsOf(heap'[r], k) = w /\ Only(r, k)
    <3> HIDE DEF w
    <3>1. Listed(w) = w
      BY <2>3 DEF Listed
    <3> QED
      BY <1>4, <2>4, <3>1
  <2>6. Retags(r, k)
    BY <2>4, <2>5 DEF Retags, s
  <2> QED
    BY <1>1, <2>5, <2>6 DEF Changes, Edit
<1> QED
  BY <1>7, <1>8, <1>9, <1>10

\* The calls on buckets and their settings, and those that fade an object.
LEMMA ManageChanges ==
  ASSUME StorageInv, NEW n \in Names, Administer(n) \/ Change(n)
  PROVE  Changes
<1>0. heap \in [Refs -> Contents] /\ buckets \in [Names -> Refs \cup {None}]
  BY DEF StorageInv, TypeOK
<1>a. ASSUME Exists(n) PROVE buckets[n] \in Refs
  BY <1>a, NamedBucket DEF StorageInv
\* A bucket that gets or loses its name is empty.
<1>b. ASSUME NEW b, buckets' = [buckets EXCEPT ![n] = b], heap' = heap,
             \A k \in Keys : Seen(n, k) = <<>>, \A k \in Keys : b # None => VersionsOf(heap[b], k) = <<>>
      PROVE  Changes
  <2>1. ASSUME NEW m \in Names, NEW k \in Keys PROVE Seen(m, k)' = Seen(m, k)
    <3>1. CASE m # n
      BY <1>0, <1>b, <3>1 DEF Seen, Exists, Bucket
    <3>2. CASE m = n
      <4>1. buckets'[m] = b
        BY <1>0, <1>b, <3>2
      <4>2. CASE b = None
        BY <1>b, <3>2, <4>1, <4>2 DEF Seen, Exists
      <4>3. CASE b # None
        <5>1. VersionsOf(heap'[b], k) = <<>>
          BY <1>b, <4>3
        <5>2. Seen(m, k)' = [i \in 1 .. Len(<<>>) |-> View(<<>>[i])]
          BY <4>1, <4>3, <5>1 DEF Seen, Exists, Bucket
        <5>3. [i \in 1 .. Len(<<>>) |-> View(<<>>[i])] = <<>>
          OBVIOUS
        <5> QED
          BY <1>b, <3>2, <5>2, <5>3
      <4> QED
        BY <4>2, <4>3
    <3> QED
      BY <3>1, <3>2
  <2>2. \A x \in Names \X Keys : Seen(x[1], x[2])' = Seen(x[1], x[2])
    BY <2>1
  <2>3. seen' = seen
    BY <2>2 DEF seen
  <2> QED
    BY <1>b, <2>3 DEF Changes, Quiet
<1>1. ASSUME NEW r \in Refs, CreateBucket(n, r) PROVE Changes
  <2>1. ~ Exists(n) /\ r \notin created /\ buckets' = [buckets EXCEPT ![n] = r] /\ heap' = heap
    BY <1>1 DEF CreateBucket
  <2>2. heap[r] = Blank
    BY <2>1 DEF StorageInv, BucketsApart
  <2>3. \A k \in Keys : VersionsOf(heap[r], k) = <<>>
    <3>1. \A k \in Keys : Blank.objects[k] = None
      BY DEF Blank
    <3> QED
      BY <2>2, <3>1 DEF VersionsOf
  <2>4. \A k \in Keys : Seen(n, k) = <<>>
    BY <2>1 DEF Seen
  <2> QED
    BY <1>b, <2>1, <2>3, <2>4
<1>2. CASE DeleteBucket(n)
  <2>1. /\ Exists(n) /\ buckets' = [buckets EXCEPT ![n] = None] /\ heap' = heap
        /\ \A k \in Keys : Bucket(n).objects[k] = None
    BY <1>2 DEF DeleteBucket
  <2>2. ASSUME NEW k \in Keys PROVE Seen(n, k) = <<>>
    <3>1. VersionsOf(Bucket(n), k) = <<>>
      BY <2>1 DEF VersionsOf
    <3>2. [i \in 1 .. Len(<<>>) |-> View(<<>>[i])] = <<>>
      OBVIOUS
    <3> QED
      BY <2>1, <3>1, <3>2 DEF Seen
  <2> QED
    BY <1>b, <2>1, <2>2
<1>3. ASSUME NEW x \in Statuses, SetVersioning(n, x) PROVE Changes
  BY <1>0, <1>3, <1>a, Unwritten DEF SetVersioning, Contents
<1>4. ASSUME NEW x \in Settings, SetSetting(n, x) \/ DeleteSetting(n, x) PROVE Changes
  <2>1. buckets[n] \in Refs /\ buckets' = buckets /\ \E y : heap' = [heap EXCEPT ![buckets[n]].settings = y]
    BY <1>4, <1>a DEF SetSetting, DeleteSetting
  <2>2. \A r \in Refs : heap'[r].objects = heap[r].objects
    BY <1>0, <2>1 DEF Contents
  <2> QED
    BY <2>1, <2>2, Unwritten
<1>5. ASSUME NEW u \in Ops, AbortMultipartUpload(n, u) PROVE Changes
  <2>1. buckets[n] \in Refs /\ buckets' = buckets /\ SetUpload(buckets[n], u, None)
    BY <1>5, <1>a DEF AbortMultipartUpload
  <2>2. \A r \in Refs : heap'[r].objects = heap[r].objects
    BY <1>0, <2>1 DEF SetUpload, Contents
  <2> QED
    BY <2>1, <2>2, Unwritten
<1> QED
  BY <1>1, <1>2, <1>3, <1>4, <1>5, FadingEdits DEF Administer, Change, ExpireUpload

\* Every step.
LEMMA NextChanges == ASSUME StorageInv, [Next]_vars PROVE Changes
<1>1. CASE UNCHANGED vars
  BY <1>1, Unwritten DEF vars
<1>2. ASSUME NEW o \in Ops, Call(o) \/ PutEnd(o) \/ PartEnd(o) \/ StreamError(o) PROVE Changes
  BY <1>2, CallChanges
<1>3. ASSUME NEW n \in Names, Administer(n) \/ Change(n) PROVE Changes
  BY <1>3, ManageChanges
<1> QED
  BY <1>1, <1>2, <1>3 DEF Next

-----------------------------------------------------------------------------
(* With versioning a step adds or takes one version.                       *)

\* Lists that agree in length and at each place are the same.
LEMMA SeqEqual ==
  ASSUME NEW S, NEW s \in Seq(S), NEW t \in Seq(S), Len(s) = Len(t), \A i \in 1 .. Len(s) : s[i] = t[i]
  PROVE  s = t
OBVIOUS

Ids == Ops \cup {NullId}

\* The ids of a list, after each of the ways in which a step changes it.
LEMMA IdsSeq ==
  ASSUME NEW s \in Seq(Version)
  PROVE  /\ IdsOf(s) \in Seq(Ids) /\ Len(IdsOf(s)) = Len(s)
         /\ \A i \in 1 .. Len(s) : IdsOf(s)[i] = s[i].id
<1>1. \A i \in 1 .. Len(s) : s[i] \in Version
  OBVIOUS
<1>2. \A i \in 1 .. Len(s) : s[i].id \in Ids
  BY <1>1 DEF Version, Ids
<1> DEFINE t == IdsOf(s)
<1>3. t \in [1 .. Len(s) -> Ids] /\ Len(s) \in Nat
  BY <1>2 DEF IdsOf
<1>4. t \in Seq(Ids) /\ Len(t) = Len(s)
  BY <1>3
<1> QED
  BY <1>4 DEF IdsOf

LEMMA IdsFront ==
  ASSUME NEW s \in Seq(Version), NEW v \in Version
  PROVE  IdsOf(<<v>> \o s) # <<>> /\ Tail(IdsOf(<<v>> \o s)) = IdsOf(s)
<1> DEFINE all == <<v>> \o s
           t == IdsOf(all)
<1>1. all \in Seq(Version) /\ Len(all) = Len(s) + 1 /\ \A i \in 2 .. Len(s) + 1 : all[i] = s[i - 1]
  BY PrependSeq
<1> HIDE DEF all
<1>2. t \in Seq(Ids) /\ Len(t) = Len(all) /\ \A i \in 1 .. Len(all) : t[i] = all[i].id
  BY <1>1, IdsSeq
<1>3. IdsOf(s) \in Seq(Ids) /\ Len(IdsOf(s)) = Len(s) /\ \A i \in 1 .. Len(s) : IdsOf(s)[i] = s[i].id
  BY IdsSeq
<1> HIDE DEF t
<1>4. Len(s) \in Nat
  OBVIOUS
<1>5. Tail(t) \in Seq(Ids) /\ Len(Tail(t)) = Len(s) /\ \A i \in 1 .. Len(s) : Tail(t)[i] = t[i + 1]
  BY <1>1, <1>2, <1>4
<1>6. \A i \in 1 .. Len(s) : Tail(t)[i] = IdsOf(s)[i]
  <2> SUFFICES ASSUME NEW i \in 1 .. Len(s) PROVE Tail(t)[i] = IdsOf(s)[i]
    OBVIOUS
  <2>1. i + 1 \in 2 .. Len(s) + 1 /\ i + 1 \in 1 .. Len(all) /\ i + 1 - 1 = i
    BY <1>1, <1>4
  <2>2. Tail(t)[i] = t[i + 1]
    BY <1>5
  <2>3. t[i + 1] = all[i + 1].id
    BY <1>2, <2>1
  <2>4. all[i + 1] = s[i]
    BY <1>1, <2>1
  <2>5. IdsOf(s)[i] = s[i].id
    BY <1>3
  <2> QED
    BY <2>2, <2>3, <2>4, <2>5
<1>7. Tail(t) = IdsOf(s)
  BY <1>3, <1>5, <1>6, SeqEqual
<1> QED
  BY <1>1, <1>2, <1>4, <1>7 DEF t, all

LEMMA IdsWithout ==
  ASSUME NEW s \in Seq(Version), NEW i \in 1 .. Len(s)
  PROVE  IdsOf(Without(s, i)) = Without(IdsOf(s), i)
<1> DEFINE w == Without(s, i)
           a == IdsOf(w)
           t == IdsOf(s)
           b == Without(t, i)
<1>1. /\ w \in Seq(Version) /\ Len(w) = Len(s) - 1
      /\ \A j \in 1 .. Len(s) - 1 : w[j] = IF j < i THEN s[j] ELSE s[j + 1]
  BY WithoutSeq
<1> HIDE DEF w
<1>2. a \in Seq(Ids) /\ Len(a) = Len(w) /\ \A j \in 1 .. Len(w) : a[j] = w[j].id
  BY <1>1, IdsSeq
<1>3. t \in Seq(Ids) /\ Len(t) = Len(s) /\ \A j \in 1 .. Len(s) : t[j] = s[j].id
  BY IdsSeq
<1> HIDE DEF a, t
<1>4. /\ b \in Seq(Ids) /\ Len(b) = Len(t) - 1
      /\ \A j \in 1 .. Len(t) - 1 : b[j] = IF j < i THEN t[j] ELSE t[j + 1]
  BY <1>3, WithoutSeq
<1> HIDE DEF b
<1>5. \A j \in 1 .. Len(a) : a[j] = b[j]
  <2> SUFFICES ASSUME NEW j \in 1 .. Len(s) - 1 PROVE a[j] = b[j]
    BY <1>1, <1>2
  <2>1. j \in 1 .. Len(s) /\ j + 1 \in 1 .. Len(s) /\ j \in 1 .. Len(w) /\ j \in 1 .. Len(t) - 1
    BY <1>1, <1>3
  <2> QED
    BY <1>1, <1>2, <1>3, <1>4, <2>1
<1>6. a = b
  BY <1>1, <1>2, <1>3, <1>4, <1>5, SeqEqual
<1> QED
  BY <1>6 DEF a, b, t, w

\* A list with other tags at one place.
LEMMA RetaggedSeq ==
  ASSUME NEW s \in Seq(Version), NEW i \in 1 .. Len(s), NEW t \in Tags
  PROVE  /\ [s EXCEPT ![i].tag = t] \in Seq(Version) /\ Len([s EXCEPT ![i].tag = t]) = Len(s)
         /\ \A j \in 1 .. Len(s) : [s EXCEPT ![i].tag = t][j] = IF j = i THEN [s[i] EXCEPT !.tag = t] ELSE s[j]
<1>1. s[i] \in Version
  OBVIOUS
<1>2. [s[i] EXCEPT !.tag = t] \in Version
  BY <1>1 DEF Version
<1> QED
  BY <1>2

LEMMA IdsRetagged ==
  ASSUME NEW s \in Seq(Version), NEW i \in 1 .. Len(s), NEW t \in Tags
  PROVE  IdsOf([s EXCEPT ![i].tag = t]) = IdsOf(s)
<1> DEFINE w == [s EXCEPT ![i].tag = t]
<1>1. /\ w \in Seq(Version) /\ Len(w) = Len(s)
      /\ \A j \in 1 .. Len(s) : w[j] = IF j = i THEN [s[i] EXCEPT !.tag = t] ELSE s[j]
  BY RetaggedSeq
<1>2. s[i] \in Version
  OBVIOUS
<1>3. [s[i] EXCEPT !.tag = t].id = s[i].id
  BY <1>2 DEF Version
<1> HIDE DEF w
<1>4. IdsOf(w) \in Seq(Ids) /\ Len(IdsOf(w)) = Len(s) /\ \A j \in 1 .. Len(s) : IdsOf(w)[j] = w[j].id
  BY <1>1, IdsSeq
<1>5. IdsOf(s) \in Seq(Ids) /\ Len(IdsOf(s)) = Len(s) /\ \A j \in 1 .. Len(s) : IdsOf(s)[j] = s[j].id
  BY IdsSeq
<1>6. \A j \in 1 .. Len(s) : w[j].id = s[j].id
  BY <1>1, <1>3
<1>7. IdsOf(w) = IdsOf(s)
  BY <1>4, <1>5, <1>6, SeqEqual
<1> QED
  BY <1>7 DEF w

\* With versioning each step leaves the ids of an object's versions as they are,
\* puts one in front, or takes one out (putObject, deleteObject, runLifecycle).
THEOREM VersionsKept == Spec => VersioningKeepsVersions
<1> DEFINE Kept(old, new, on) == on => \/ new = old
                                       \/ new # <<>> /\ Tail(new) = old
                                       \/ \E i \in 1 .. Len(old) : new = Without(old, i)
<1>1. ASSUME StorageInv, [Next]_vars, NEW r \in Refs, NEW k \in Keys
      PROVE  Kept(IdsOf(VersionsOf(heap[r], k)), IdsOf(VersionsOf(heap'[r], k)), heap[r].versioning = "Enabled")
  <2> SUFFICES ASSUME heap[r].versioning = "Enabled"
               PROVE  Kept(IdsOf(VersionsOf(heap[r], k)), IdsOf(VersionsOf(heap'[r], k)), TRUE)
    OBVIOUS
  <2> DEFINE s == VersionsOf(heap[r], k)
             t == VersionsOf(heap'[r], k)
  <2>1. s \in Seq(Version)
    BY <1>1, EntryFacts
  <2>2. Changes
    BY <1>1, NextChanges
  <2>3. t = s \/ Edit(r, k)
    BY <2>2 DEF Changes, Quiet, Only
  <2>4. CASE t = s
    BY <2>4
  <2>5. CASE Fronts(r, k)
    <3>1. PICK v \in Version : t = <<v>> \o s
      BY <2>5 DEF Fronts
    <3> HIDE DEF s, t
    <3> QED
      BY <2>1, <3>1, IdsFront DEF s, t
  <2>6. CASE Drops(r, k)
    <3>1. PICK i \in 1 .. Len(s) : t = Without(s, i)
      BY <2>6 DEF Drops
    <3>2. i \in 1 .. Len(IdsOf(s)) /\ IdsOf(t) = Without(IdsOf(s), i)
      BY <2>1, <3>1, IdsWithout, IdsSeq
    <3> QED
      BY <3>2
  <2>7. CASE Retags(r, k)
    <3>1. PICK i \in 1 .. Len(s), g \in Tags : t = [s EXCEPT ![i].tag = g]
      BY <2>7 DEF Retags
    <3>2. IdsOf(t) = IdsOf(s)
      BY <2>1, <3>1, IdsRetagged
    <3> QED
      BY <3>2
  <2> QED
    BY <2>3, <2>4, <2>5, <2>6, <2>7 DEF Edit, Replaces, Empties
<1>2. StorageInv /\ [Next]_vars => [\A r \in Refs, k \in Keys :
       LET old == IdsOf(VersionsOf(heap[r], k))
           new == IdsOf(VersionsOf(heap'[r], k))
       IN  heap[r].versioning = "Enabled" =>
             \/ new = old
             \/ new # <<>> /\ Tail(new) = old
             \/ \E i \in 1 .. Len(old) : new = Without(old, i)]_vars
  BY <1>1
<1> QED
  BY <1>2, Invariance, PTL DEF Spec, VersioningKeepsVersions

-----------------------------------------------------------------------------
(* The implementation of ObjectStore: what a client sees of a key is the   *)
(* views of its versions, and each shape of step is one of the store's.    *)

Viewed(s) == [i \in 1 .. Len(s) |-> View(s[i])]
Views     == [id : Ids, by : Ops, del : BOOLEAN, tag : Tags]

\* The views of a list, after each of the ways in which a step changes it.
LEMMA ViewType ==
  ASSUME NEW v \in Version
  PROVE  View(v) \in Views
BY DEF View, Views, Version, Ids

LEMMA ViewedSeq ==
  ASSUME NEW s \in Seq(Version)
  PROVE  /\ Viewed(s) \in Seq(Views) /\ Len(Viewed(s)) = Len(s)
         /\ \A i \in 1 .. Len(s) : Viewed(s)[i] = View(s[i])
<1>1. \A i \in 1 .. Len(s) : View(s[i]) \in Views
  <2>1. \A i \in 1 .. Len(s) : s[i] \in Version
    OBVIOUS
  <2> QED
    BY <2>1, ViewType
<1> DEFINE t == Viewed(s)
<1>2. t \in [1 .. Len(s) -> Views] /\ Len(s) \in Nat
  BY <1>1 DEF Viewed
<1>3. t \in Seq(Views) /\ Len(t) = Len(s)
  BY <1>2
<1> QED
  BY <1>3 DEF Viewed

LEMMA ViewedFront ==
  ASSUME NEW s \in Seq(Version), NEW v \in Version
  PROVE  Viewed(<<v>> \o s) = <<View(v)>> \o Viewed(s)
<1> DEFINE all == <<v>> \o s
           a == Viewed(all)
           t == Viewed(s)
           w == View(v)
           b == <<w>> \o t
<1>1. /\ all \in Seq(Version) /\ Len(all) = Len(s) + 1 /\ all[1] = v
      /\ \A i \in 2 .. Len(s) + 1 : all[i] = s[i - 1]
  BY PrependSeq
<1> HIDE DEF all
<1>2. a \in Seq(Views) /\ Len(a) = Len(all) /\ \A i \in 1 .. Len(all) : a[i] = View(all[i])
  BY <1>1, ViewedSeq
<1>3. t \in Seq(Views) /\ Len(t) = Len(s) /\ \A i \in 1 .. Len(s) : t[i] = View(s[i])
  BY ViewedSeq
<1>4. w \in Views
  BY ViewType
<1> HIDE DEF a, t
<1>5. b \in Seq(Views) /\ Len(b) = Len(t) + 1 /\ b[1] = w /\ \A i \in 2 .. Len(t) + 1 : b[i] = t[i - 1]
  <2> HIDE DEF w
  <2> QED
    BY <1>3, <1>4, PrependSeq
<1> HIDE DEF b
<1>6. ASSUME NEW i \in 1 .. Len(s) + 1 PROVE a[i] = b[i]
  <2>1. a[i] = View(all[i])
    BY <1>1, <1>2
  <2>2. CASE i = 1
    BY <1>1, <1>5, <2>1, <2>2
  <2>3. CASE i # 1
    <3>1. i \in 2 .. Len(s) + 1 /\ i - 1 \in 1 .. Len(s)
      BY <2>3
    <3>2. all[i] = s[i - 1]
      BY <1>1, <3>1
    <3>3. b[i] = t[i - 1]
      BY <1>3, <1>5, <3>1
    <3>4. t[i - 1] = View(s[i - 1])
      BY <1>3, <3>1
    <3> QED
      BY <2>1, <3>2, <3>3, <3>4
  <2> QED
    BY <2>2, <2>3
<1>7. a = b
  BY <1>1, <1>2, <1>3, <1>5, <1>6, SeqEqual
<1> QED
  BY <1>7 DEF a, b, t, w, all

LEMMA ViewedWithout ==
  ASSUME NEW s \in Seq(Version), NEW i \in 1 .. Len(s)
  PROVE  Viewed(Without(s, i)) = Without(Viewed(s), i)
<1> DEFINE w == Without(s, i)
           a == Viewed(w)
           t == Viewed(s)
           b == Without(t, i)
<1>1. /\ w \in Seq(Version) /\ Len(w) = Len(s) - 1
      /\ \A j \in 1 .. Len(s) - 1 : w[j] = IF j < i THEN s[j] ELSE s[j + 1]
  BY WithoutSeq
<1> HIDE DEF w
<1>2. a \in Seq(Views) /\ Len(a) = Len(w) /\ \A j \in 1 .. Len(w) : a[j] = View(w[j])
  BY <1>1, ViewedSeq
<1>3. t \in Seq(Views) /\ Len(t) = Len(s) /\ \A j \in 1 .. Len(s) : t[j] = View(s[j])
  BY ViewedSeq
<1> HIDE DEF a, t
<1>4. /\ b \in Seq(Views) /\ Len(b) = Len(t) - 1
      /\ \A j \in 1 .. Len(t) - 1 : b[j] = IF j < i THEN t[j] ELSE t[j + 1]
  BY <1>3, WithoutSeq
<1> HIDE DEF b
<1>5. \A j \in 1 .. Len(a) : a[j] = b[j]
  <2> SUFFICES ASSUME NEW j \in 1 .. Len(s) - 1 PROVE a[j] = b[j]
    BY <1>1, <1>2
  <2>1. j \in 1 .. Len(s) /\ j + 1 \in 1 .. Len(s) /\ j \in 1 .. Len(w) /\ j \in 1 .. Len(t) - 1
    BY <1>1, <1>3
  <2> QED
    BY <1>1, <1>2, <1>3, <1>4, <2>1
<1>6. a = b
  BY <1>1, <1>2, <1>3, <1>4, <1>5, SeqEqual
<1> QED
  BY <1>6 DEF a, b, t, w

Retagged(s, i, t) == [s EXCEPT ![i].tag = t]

LEMMA ViewedRetagged ==
  ASSUME NEW s \in Seq(Version), NEW i \in 1 .. Len(s), NEW t \in Tags
  PROVE  Viewed(Retagged(s, i, t)) = Retagged(Viewed(s), i, t)
<1> DEFINE w == Retagged(s, i, t)
           a == Viewed(w)
           c == Viewed(s)
           v == [s[i] EXCEPT !.tag = t]
           b == Retagged(c, i, t)
<1>1. /\ w \in Seq(Version) /\ Len(w) = Len(s)
      /\ \A j \in 1 .. Len(s) : w[j] = IF j = i THEN v ELSE s[j]
  BY RetaggedSeq DEF Retagged
<1>2. View(v) = [View(s[i]) EXCEPT !.tag = t]
  <2>1. s[i] \in Version
    OBVIOUS
  <2> QED
    BY <2>1 DEF View, Version
<1> HIDE DEF w, v
<1>3. a \in Seq(Views) /\ Len(a) = Len(s) /\ \A j \in 1 .. Len(s) : a[j] = View(w[j])
  BY <1>1, ViewedSeq
<1>4. c \in Seq(Views) /\ Len(c) = Len(s) /\ \A j \in 1 .. Len(s) : c[j] = View(s[j])
  BY ViewedSeq
<1> HIDE DEF a, c
<1>5. c[i] \in Views /\ [c[i] EXCEPT !.tag = t] \in Views
  <2>1. c[i] \in Views
    BY <1>4
  <2> QED
    BY <2>1 DEF Views
<1>6. /\ b \in Seq(Views) /\ Len(b) = Len(s)
      /\ \A j \in 1 .. Len(s) : b[j] = IF j = i THEN [c[i] EXCEPT !.tag = t] ELSE c[j]
  BY <1>4, <1>5 DEF Retagged
<1> HIDE DEF b
<1>7. ASSUME NEW j \in 1 .. Len(s) PROVE a[j] = b[j]
  <2>1. CASE j = i
    <3>1. a[j] = View(v)
      BY <1>1, <1>3, <2>1
    <3>2. b[j] = [c[i] EXCEPT !.tag = t]
      BY <1>6, <2>1
    <3>3. c[i] = View(s[i])
      BY <1>4
    <3> QED
      BY <1>2, <3>1, <3>2, <3>3
  <2>2. CASE j # i
    <3>1. a[j] = View(s[j])
      BY <1>1, <1>3, <2>2
    <3>2. b[j] = c[j]
      BY <1>6, <2>2
    <3> QED
      BY <1>4, <3>1, <3>2
  <2> QED
    BY <2>1, <2>2
<1>8. a = b
  BY <1>3, <1>6, <1>7, SeqEqual
<1> QED
  BY <1>8 DEF a, b, c, w

\* When one object of one bucket changes, a client sees it change under the one
\* name that leads to the bucket, and no change if no name does.
LEMMA SeenThroughNames ==
  ASSUME StorageInv, buckets' = buckets, NEW r \in Refs, NEW k \in Keys, Only(r, k)
  PROVE  \/ seen' = seen
         \/ \E x \in Names \X Keys :
              /\ seen[x] = Viewed(VersionsOf(heap[r], k))
              /\ seen' = [seen EXCEPT ![x] = Viewed(VersionsOf(heap'[r], k))]
<1>0. TypeOK /\ \A m, n \in Names : Exists(m) /\ buckets[m] = buckets[n] => m = n
  BY DEF StorageInv, BucketsApart
<1>1. ASSUME NEW n \in Names, NEW l \in Keys, buckets[n] # r \/ l # k PROVE Seen(n, l)' = Seen(n, l)
  <2>1. CASE ~ Exists(n)
    BY <2>1 DEF Seen, Exists
  <2>2. CASE Exists(n)
    <3>1. PICK q \in Refs : q = buckets[n]
      BY <1>0, <2>2, NamedBucket
    <3>2. VersionsOf(heap'[q], l) = VersionsOf(heap[q], l)
      BY <1>1, <3>1 DEF Only
    <3> QED
      BY <2>2, <3>1, <3>2 DEF Seen, Exists, Bucket
  <2> QED
    BY <2>1, <2>2
<1>2. CASE \A n \in Names : buckets[n] # r
  <2>1. \A x \in Names \X Keys : Seen(x[1], x[2])' = Seen(x[1], x[2])
    BY <1>1, <1>2
  <2> QED
    BY <2>1 DEF seen
<1>3. ASSUME NEW n \in Names, buckets[n] = r
      PROVE  \E x \in Names \X Keys :
               /\ seen[x] = Viewed(VersionsOf(heap[r], k))
               /\ seen' = [seen EXCEPT ![x] = Viewed(VersionsOf(heap'[r], k))]
  <2>1. Exists(n)
    BY <1>3, RefsAssumption DEF Exists
  <2>2. Seen(n, k) = Viewed(VersionsOf(heap[r], k)) /\ Seen(n, k)' = Viewed(VersionsOf(heap'[r], k))
    BY <1>3, <2>1 DEF Seen, Exists, Bucket, Viewed
  <2> DEFINE x == <<n, k>>
  <2>3. x \in Names \X Keys /\ x[1] = n /\ x[2] = k
    OBVIOUS
  <2>4. \A y \in Names \X Keys : y # x => Seen(y[1], y[2])' = Seen(y[1], y[2])
    <3> SUFFICES ASSUME NEW m \in Names, NEW l \in Keys, m # n \/ l # k PROVE Seen(m, l)' = Seen(m, l)
      OBVIOUS
    <3>1. buckets[m] # r \/ l # k
      BY <1>0, <1>3, <2>1
    <3> QED
      BY <1>1, <3>1
  <2>5. seen[x] = Viewed(VersionsOf(heap[r], k))
    BY <2>2, <2>3 DEF seen
  <2>6. seen' = [seen EXCEPT ![x] = Viewed(VersionsOf(heap'[r], k))]
    BY <2>2, <2>3, <2>4 DEF seen
  <2> QED
    BY <2>3, <2>5, <2>6
<1> QED
  BY <1>2, <1>3

\* The shapes of a change, as operations of the store.
LEMMA StoreMoves ==
  ASSUME NEW x \in Names \X Keys, NEW s, seen' = [seen EXCEPT ![x] = s],
         \/ \E v \in NewVersions :
              \/ /\ v.id # NullId /\ v.id \notin {seen[x][i].id : i \in 1 .. Len(seen[x])}
                 /\ seen[x] \in Seq(Views) /\ v \in Views
                 /\ s = <<v>> \o seen[x]
              \/ v.id = NullId /\ ~ v.del /\ s = <<v>>
         \/ \E i \in 1 .. Len(seen[x]) :
              \/ s = Without(seen[x], i)
              \/ \E t \in Tags : ~ seen[x][i].del /\ s = Retagged(seen[x], i, t)
         \/ s = <<>>
  PROVE  Store!Next
<1>1. Store!Become(x, s)
  BY DEF Store!Become, seen
<1>2. ASSUME NEW v \in NewVersions, v.id # NullId, v.id \notin {seen[x][i].id : i \in 1 .. Len(seen[x])},
             seen[x] \in Seq(Views), v \in Views, s = <<v>> \o seen[x]
      PROVE  Store!PutVersion(x, v) \/ Store!Mark(x, v)
  <2>1. v.id \notin Store!Ids(x)
    BY <1>2 DEF Store!Ids, seen
  <2>2. CASE v.del
    BY <1>1, <1>2, <2>1, <2>2 DEF Store!Mark, Store!Become, seen
  <2>3. CASE ~ v.del
    <3> DEFINE n == Len(seen[x]) + 1
    <3>1. n \in 1 .. Len(seen[x]) + 1
      BY <1>2
    <3>2. SubSeq(<<v>> \o seen[x], 1, n) = s
      <4>1. s \in Seq(Views) /\ Len(s) = n
        BY <1>2, PrependSeq
      <4>2. SubSeq(s, 1, Len(s)) = s
        BY <4>1
      <4> QED
        BY <1>2, <4>1, <4>2
    <3>3. Store!Become(x, SubSeq(<<v>> \o seen[x], 1, n))
      BY <1>1, <3>2
    <3> QED
      BY <1>2, <2>1, <2>3, <3>1, <3>3 DEF Store!PutVersion, seen
  <2> QED
    BY <2>2, <2>3
<1>3. ASSUME NEW v \in NewVersions, v.id = NullId, ~ v.del, s = <<v>>
      PROVE  Store!PutNull(x, v)
  BY <1>1, <1>3 DEF Store!PutNull
<1>4. ASSUME NEW i \in 1 .. Len(seen[x]), s = Without(seen[x], i)
      PROVE  Store!Remove(x, i)
  BY <1>1, <1>4 DEF Store!Remove, Store!Become, Store!Without, Without, seen
<1>5. ASSUME NEW i \in 1 .. Len(seen[x]), NEW t \in Tags, ~ seen[x][i].del, s = Retagged(seen[x], i, t)
      PROVE  Store!Retag(x, i, t)
  BY <1>1, <1>5 DEF Retagged, Store!Retag, Store!Become, seen
<1>6. ASSUME s = <<>> PROVE Store!Clear(x)
  BY <1>1, <1>6 DEF Store!Clear
<1>7. seen[x] = Seen(x[1], x[2])
  BY DEF seen
<1> QED
  BY <1>2, <1>3, <1>4, <1>5, <1>6, <1>7 DEF Store!Next, seen

\* Each step is one of them, or none that a client sees.
LEMMA ChangesSeen == ASSUME StorageInv, Changes PROVE Store!Next \/ seen' = seen
<1>1. CASE seen' = seen
  BY <1>1
<1>2. CASE seen' # seen
  <2>1. PICK r \in Refs, k \in Keys : buckets' = buckets /\ Only(r, k) /\ Edit(r, k)
    BY <1>2 DEF Changes
  <2>2. PICK x \in Names \X Keys :
          /\ seen[x] = Viewed(VersionsOf(heap[r], k))
          /\ seen' = [seen EXCEPT ![x] = Viewed(VersionsOf(heap'[r], k))]
    BY <1>2, <2>1, SeenThroughNames
  <2>3. PICK s \in Seq(Version) : s = VersionsOf(heap[r], k)
    BY EntryFacts
  <2>4. PICK t : t = VersionsOf(heap'[r], k)
    OBVIOUS
  <2>5. seen[x] = Viewed(s) /\ seen' = [seen EXCEPT ![x] = Viewed(t)]
    BY <2>2, <2>3, <2>4
  <2>6. /\ Viewed(s) \in Seq(Views) /\ Len(Viewed(s)) = Len(s)
        /\ \A i \in 1 .. Len(s) : Viewed(s)[i] = View(s[i])
    BY ViewedSeq
  <2>7. CASE Fronts(r, k)
    <3>1. PICK v \in Version : /\ v.id \in Ops /\ v.by = v.id /\ v.tag = NoTags
                               /\ \A i \in 1 .. Len(s) : s[i].id # v.id
                               /\ t = <<v>> \o s
      BY <2>3, <2>4, <2>7 DEF Fronts
    <3>2. /\ View(v) \in NewVersions /\ View(v) \in Views /\ View(v).id = v.id /\ View(v).id # NullId
      <4>1. View(v) \in Views
        BY ViewType
      <4> QED
        BY <3>1, <4>1, OpsAssumption DEF View, NewVersions, Version
    <3>3. View(v).id \notin {Viewed(s)[i].id : i \in 1 .. Len(Viewed(s))}
      <4>1. \A i \in 1 .. Len(s) : View(s[i]).id = s[i].id
        BY DEF View
      <4> QED
        BY <2>6, <3>1, <3>2, <4>1
    <3>4. Viewed(t) = <<View(v)>> \o Viewed(s)
      BY <3>1, ViewedFront
    <3> DEFINE a == Viewed(s)
               b == Viewed(t)
               w == View(v)
    <3>5. /\ w \in NewVersions /\ w \in Views /\ w.id # NullId /\ w.id \notin {a[i].id : i \in 1 .. Len(a)}
          /\ a \in Seq(Views) /\ b = <<w>> \o a /\ seen[x] = a /\ seen' = [seen EXCEPT ![x] = b]
      BY <2>5, <2>6, <3>2, <3>3, <3>4
    <3> HIDE DEF a, b, w
    <3> QED
      BY <3>5, StoreMoves
  <2>8. CASE Replaces(r, k)
    <3>1. PICK v \in Version : v.id = NullId /\ ~ v.del /\ v.tag = NoTags /\ t = <<v>>
      BY <2>4, <2>8 DEF Replaces
    <3>2. View(v) \in NewVersions /\ View(v).id = NullId /\ ~ View(v).del
      BY <3>1 DEF View, NewVersions, Version
    <3>3. Viewed(t) = <<View(v)>>
      BY <3>1 DEF Viewed
    <3> QED
      BY <2>5, <3>2, <3>3, StoreMoves
  <2>9. CASE Drops(r, k)
    <3>1. PICK i \in 1 .. Len(s) : t = Without(s, i)
      BY <2>3, <2>4, <2>9 DEF Drops
    <3>2. Viewed(t) = Without(Viewed(s), i) /\ i \in 1 .. Len(Viewed(s))
      BY <2>6, <3>1, ViewedWithout
    <3> QED
      BY <2>5, <3>2, StoreMoves
  <2>10. CASE Empties(r, k)
    <3>1. Viewed(t) = <<>>
      BY <2>4, <2>10 DEF Empties, Viewed
    <3> QED
      BY <2>5, <3>1, StoreMoves
  <2>11. CASE Retags(r, k)
    <3>1. PICK i \in 1 .. Len(s), g \in Tags : ~ s[i].del /\ t = Retagged(s, i, g)
      BY <2>3, <2>4, <2>11 DEF Retags, Retagged
    <3>2. /\ Viewed(t) = Retagged(Viewed(s), i, g) /\ i \in 1 .. Len(Viewed(s))
          /\ ~ Viewed(s)[i].del
      <4>1. Viewed(t) = Retagged(Viewed(s), i, g)
        BY <3>1, ViewedRetagged
      <4>2. View(s[i]).del = s[i].del
        BY DEF View
      <4>3. Viewed(s)[i] = View(s[i]) /\ i \in 1 .. Len(Viewed(s))
        BY <2>6
      <4>4. ~ s[i].del
        BY <3>1
      <4> QED
        BY <4>1, <4>2, <4>3, <4>4
    <3> QED
      BY <2>5, <3>2, StoreMoves
  <2> QED
    BY <2>1, <2>7, <2>8, <2>9, <2>10, <2>11 DEF Edit
<1> QED
  BY <1>1, <1>2

\* What a client sees through the names of buckets changes only by an operation of
\* ObjectStore on one key, at one instant (memory.js: every call writes after its
\* last await, into the record that it found).
THEOREM Refinement == Spec => ImplementsObjectStore
<1>1. Init => Store!Init
  <2> SUFFICES ASSUME Init PROVE Store!Init
    OBVIOUS
  <2>1. \A n \in Names : ~ Exists(n)
    BY DEF Init, Exists
  <2>2. \A x \in Names \X Keys : Seen(x[1], x[2]) = <<>>
    BY <2>1 DEF Seen
  <2> QED
    BY <2>2 DEF Store!Init
<1>2. StorageInv /\ [Next]_vars => [Store!Next]_([x \in Names \X Keys |-> Seen(x[1], x[2])])
  BY NextChanges, ChangesSeen DEF seen
<1> QED
  BY <1>1, <1>2, Invariance, PTL DEF Spec, ImplementsObjectStore, Store!Spec
=============================================================================
