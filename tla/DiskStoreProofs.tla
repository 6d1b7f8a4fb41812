---------------------------- MODULE DiskStoreProofs ----------------------------
(***************************************************************************)
(* What the disk backend promises about the versions of its objects: each  *)
(* call that changes a metadata file does what ObjectStore allows, at the  *)
(* rename or removal of that file; what a client was told was stored stays *)
(* there; and the lifecycle removes only what is old enough.               *)
(***************************************************************************)
EXTENDS DiskSettledProofs

Viewed(s) == [n \in 1 .. Len(s) |-> View(s[n])]

views == [k \in Keys |-> Viewed(meta[k])]

Views == [id : Ids, etag : Bytes \cup {None}, del : BOOLEAN, tag : Ops \cup {None}]

LEMMA ViewedSeq ==
  ASSUME NEW s \in Seq(Version)
  PROVE  /\ Viewed(s) \in Seq(Views) /\ Len(Viewed(s)) = Len(s)
         /\ \A n \in 1 .. Len(s) : Viewed(s)[n] = View(s[n])
<1>1. \A n \in 1 .. Len(s) : s[n] \in Version
  OBVIOUS
<1>2. \A n \in 1 .. Len(s) : View(s[n]) \in Views
  BY <1>1 DEF View, Views, Version
<1> DEFINE t == Viewed(s)
<1>3. t \in [1 .. Len(s) -> Views] /\ Len(s) \in Nat
  BY <1>2 DEF Viewed
<1>4. t \in Seq(Views) /\ Len(t) = Len(s)
  BY <1>3
<1> QED
  BY <1>4 DEF Viewed

\* The client sees a list change where the list changes.
LEMMA ViewsMove ==
  ASSUME TypeOK, NEW k \in Keys, NEW s, meta' = [meta EXCEPT ![k] = s]
  PROVE  views' = [views EXCEPT ![k] = Viewed(s)]
BY DEF TypeOK, views

-----------------------------------------------------------------------------
(* The operations of ObjectStore, on what the client sees.                 *)

Entries == [id : Ids, etag : Bytes \cup {None}, del : BOOLEAN, tag : {None}]

\* The ids a client sees on the versions of key k.
SeenIds(k) == {views[k][n].id : n \in 1 .. Len(views[k])}

LEMMA ViewsAre ==
  /\ views = [k \in Keys |-> [n \in 1 .. Len(meta[k]) |-> View(meta[k][n])]]
  /\ views' = [k \in Keys |-> [n \in 1 .. Len(meta[k]) |-> View(meta[k][n])]]'
BY DEF views, Viewed

LEMMA StorePuts ==
  ASSUME NEW k \in Keys, NEW v \in Entries, v.id \notin SeenIds(k), v.id # NullId, ~ v.del,
         NEW n \in 1 .. Len(views[k]) + 1, n >= MaxVersions \/ n = Len(views[k]) + 1,
         views' = [views EXCEPT ![k] = SubSeq(<<v>> \o views[k], 1, n)]
  PROVE  Store!Next
<1>1. Store!PutVersion(k, v)
  BY DEF Store!PutVersion, Store!Become, Store!Ids, views, Viewed, SeenIds
<1> QED
  BY <1>1 DEF Store!Next, Entries

LEMMA StoreReplaces ==
  ASSUME NEW k \in Keys, NEW v \in Entries, v.id = NullId, ~ v.del, views' = [views EXCEPT ![k] = <<v>>]
  PROVE  Store!Next
<1>1. Store!PutNull(k, v)
  BY DEF Store!PutNull, Store!Become, views, Viewed
<1> QED
  BY <1>1 DEF Store!Next, Entries

LEMMA StoreMarks ==
  ASSUME NEW k \in Keys, NEW v \in Entries, v.id \notin SeenIds(k), v.id # NullId, v.del,
         views' = [views EXCEPT ![k] = <<v>> \o views[k]]
  PROVE  Store!Next
<1>1. Store!Mark(k, v)
  BY DEF Store!Mark, Store!Become, Store!Ids, views, Viewed, SeenIds
<1> QED
  BY <1>1 DEF Store!Next, Entries

LEMMA StoreRemoves ==
  ASSUME NEW k \in Keys, NEW n \in 1 .. Len(views[k]),
         views' = [views EXCEPT ![k] = SubSeq(views[k], 1, n - 1) \o SubSeq(views[k], n + 1, Len(views[k]))]
  PROVE  Store!Next
<1>1. Store!Remove(k, n)
  BY DEF Store!Remove, Store!Become, Store!Without, views, Viewed
<1>2. n \in 1 .. Len([j \in Keys |-> [m \in 1 .. Len(meta[j]) |-> View(meta[j][m])]][k])
  BY DEF views, Viewed
<1> QED
  BY <1>1, <1>2 DEF Store!Next

LEMMA StoreClears ==
  ASSUME NEW k \in Keys, views' = [views EXCEPT ![k] = <<>>]
  PROVE  Store!Next
<1>1. Store!Clear(k)
  BY DEF Store!Clear, Store!Become, views, Viewed
<1> QED
  BY <1>1 DEF Store!Next

LEMMA StoreRetags ==
  ASSUME NEW k \in Keys, NEW n \in 1 .. Len(views[k]), NEW t \in Ops, ~ views[k][n].del,
         views' = [views EXCEPT ![k] = [views[k] EXCEPT ![n].tag = t]]
  PROVE  Store!Next
<1>1. Store!Retag(k, n, t)
  BY DEF Store!Retag, Store!Become, views, Viewed
<1>2. n \in 1 .. Len([j \in Keys |-> [m \in 1 .. Len(meta[j]) |-> View(meta[j][m])]][k])
  BY DEF views, Viewed
<1> QED
  BY <1>1, <1>2 DEF Store!Next

-----------------------------------------------------------------------------
(* What the client sees of what RenameMeta and RemoveMeta do.              *)

LEMMA SeenList ==
  ASSUME IInv, NEW k \in Keys
  PROVE  /\ views[k] = Viewed(meta[k]) /\ views[k] \in Seq(Views) /\ Len(views[k]) = Len(meta[k])
         /\ Len(meta[k]) \in Nat
         /\ \A n \in 1 .. Len(meta[k]) : /\ views[k][n] = View(meta[k][n])
                                         /\ views[k][n].id = meta[k][n].id /\ views[k][n].del = meta[k][n].del
<1>1. meta[k] \in Seq(Version) /\ Len(meta[k]) \in Nat
  BY MetaType
<1>2. views[k] = Viewed(meta[k])
  BY DEF views
<1> QED
  BY <1>1, <1>2, ViewedSeq DEF View

\* A call that has not ended finds no version under its own id.
LEMMA SeenApart ==
  ASSUME IInv, NEW o \in Ops, ~ At(o, "done"), NEW k \in Keys
  PROVE  o \notin SeenIds(k)
<1>1. \A n \in 1 .. Len(views[k]) : views[k][n].id # o
  BY SeenList, ListedEnded
<1> QED
  BY <1>1 DEF SeenIds

\* A view on top of the views of a list, cut at n.
LEMMA TopViews ==
  ASSUME NEW s \in Seq(Version), NEW v \in Version, NEW u \in Seq(Version), Len(u) \in 1 .. Len(s) + 1, u[1] = v,
         \A n \in 2 .. Len(u) : u[n] = s[n - 1]
  PROVE  Viewed(u) = SubSeq(<<View(v)>> \o Viewed(s), 1, Len(u))
<1> DEFINE w == View(v)
           t == Viewed(s)
           all == <<w>> \o t
           m == Len(u)
<1>1. w \in Views
  BY DEF View, Views, Version
<1>2. t \in Seq(Views) /\ Len(t) = Len(s) /\ Len(s) \in Nat /\ \A n \in 1 .. Len(s) : t[n] = View(s[n])
  BY ViewedSeq
<1>3. Viewed(u) \in Seq(Views) /\ Len(Viewed(u)) = m /\ \A n \in 1 .. m : Viewed(u)[n] = View(u[n])
  BY ViewedSeq
<1> HIDE DEF w, t, m
<1>4. all \in Seq(Views) /\ Len(all) = Len(s) + 1 /\ all[1] = w /\ \A n \in 2 .. Len(s) + 1 : all[n] = t[n - 1]
  BY <1>1, <1>2, PrependSeq
<1> HIDE DEF all
<1>5. m \in 1 .. Len(s) + 1 /\ m \in Nat
  BY <1>2 DEF m
<1> DEFINE c == SubSeq(all, 1, m)
<1>6. c \in Seq(Views) /\ Len(c) = m /\ \A n \in 1 .. m : c[n] = all[n]
  BY <1>4, <1>5
<1> HIDE DEF c
<1>7. \A n \in 1 .. m : Viewed(u)[n] = c[n]
  <2> SUFFICES ASSUME NEW n \in 1 .. m PROVE Viewed(u)[n] = c[n]
    OBVIOUS
  <2>1. CASE n = 1
    BY <1>3, <1>4, <1>5, <1>6, <2>1 DEF w
  <2>2. CASE n # 1
    <3>1. n \in 2 .. m /\ n \in 2 .. Len(s) + 1 /\ n - 1 \in 1 .. Len(s)
      BY <1>2, <1>5, <2>2
    <3>2. u[n] = s[n - 1]
      BY <3>1 DEF m
    <3> QED
      BY <1>2, <1>3, <1>4, <1>6, <3>1, <3>2
  <2> QED
    BY <2>1, <2>2
<1>8. Viewed(u) = c
  BY <1>3, <1>6, <1>7, SeqEqual
<1> QED
  BY <1>8 DEF c, all, w, t, m

LEMMA SeesPut ==
  ASSUME IInv, NEW o \in Ops, Writes(o), Holding(o), NEW k \in Keys, k = op[o].key,
         op[o].mode \in Modes, op[o].etag \in Bytes,
         views' = [views EXCEPT ![k] = Viewed(Pushed(o))]
  PROVE  Store!Next
<1> DEFINE s == meta[k]
           v == NewVersion(o)
           u == Pushed(o)
           w == View(v)
<1>1. s \in Seq(Version) /\ Len(s) \in Nat /\ v \in Version
  BY MetaType, NewVersionType
<1>2. w = [id |-> OwnFile(o)[2], etag |-> op[o].etag, del |-> FALSE, tag |-> None]
  BY DEF View, NewVersion
<1>3. w \in Entries
  BY <1>2, OwnFileType DEF Entries
<1>4. /\ u \in Seq(Version) /\ Len(u) >= 1 /\ u[1] = v
      /\ op[o].mode # "Enabled" => Len(u) = 1
      /\ op[o].mode = "Enabled" => Len(u) = IF Len(s) < MaxVersions THEN Len(s) + 1 ELSE Len(s)
      /\ \A n \in 2 .. Len(u) : n - 1 \in 1 .. Len(s) /\ u[n] = s[n - 1]
  BY PushedSeq
<1>5. views[k] = Viewed(s) /\ Len(views[k]) = Len(s)
  BY SeenList
<1>6. ~ At(o, "done")
  BY DEF Holding, Locked, At
<1>7. CASE op[o].mode = "Enabled"
  <2>1. w.id = o /\ ~ w.del /\ w.id # NullId /\ w.id \notin SeenIds(k)
    BY <1>2, <1>6, <1>7, SeenApart, NamesAssumption DEF OwnFile, File
  <2>2. Len(u) \in 1 .. Len(s) + 1 /\ (Len(u) >= MaxVersions \/ Len(u) = Len(s) + 1)
    BY <1>1, <1>4, <1>7, BoundsAssumption
  <2>3. Viewed(u) = SubSeq(<<w>> \o Viewed(s), 1, Len(u))
    <3> HIDE DEF s, v, u
    <3> QED
      BY <1>1, <1>4, <2>2, TopViews
  <2> HIDE DEF s, u, w
  <2>4. views' = [views EXCEPT ![k] = SubSeq(<<w>> \o views[k], 1, Len(u))]
    BY <1>5, <2>3 DEF u
  <2> DEFINE m == Len(u)
  <2>5. m \in 1 .. Len(views[k]) + 1 /\ (m >= MaxVersions \/ m = Len(views[k]) + 1)
    BY <1>5, <2>2
  <2> HIDE DEF m
  <2> QED
    BY <1>3, <2>1, <2>4, <2>5, StorePuts DEF m
<1>8. CASE op[o].mode # "Enabled"
  <2>1. w.id = NullId /\ ~ w.del
    BY <1>2, <1>8 DEF OwnFile, File
  <2>2. u = <<v>>
    BY <1>8 DEF Pushed
  <2>3. Viewed(u) = <<w>>
    BY <2>2 DEF Viewed
  <2> HIDE DEF s, u, w
  <2> QED
    BY <1>3, <2>1, <2>3, StoreReplaces DEF u
<1> QED
  BY <1>7, <1>8

LEMMA SeesMark ==
  ASSUME IInv, NEW o \in Ops, ~ At(o, "done"), NEW k \in Keys,
         views' = [views EXCEPT ![k] = Viewed(<<Marker(o)>> \o meta[k])]
  PROVE  Store!Next
<1> DEFINE s == meta[k]
           v == Marker(o)
           u == <<v>> \o s
           w == View(v)
<1>1. s \in Seq(Version) /\ Len(s) \in Nat /\ v \in Version /\ views[k] = Viewed(s) /\ Viewed(s) \in Seq(Views)
  BY SeenList, MetaType, MarkerType
<1>2. w = [id |-> o, etag |-> None, del |-> TRUE, tag |-> None]
  BY DEF View, Marker
<1>3. w \in Entries /\ w \in Views
  BY <1>2 DEF Entries, Views, Ids
<1>4. w.id \notin SeenIds(k) /\ w.id # NullId /\ w.del
  BY <1>2, SeenApart, NamesAssumption
<1>5. Viewed(u) = <<w>> \o Viewed(s)
  <2> DEFINE c == <<w>> \o Viewed(s)
  <2> HIDE DEF s, v
  <2>1. u \in Seq(Version) /\ Len(u) = Len(s) + 1 /\ u[1] = v /\ \A n \in 2 .. Len(s) + 1 : u[n] = s[n - 1]
    BY <1>1, PrependSeq
  <2>6. Len(u) \in 1 .. Len(s) + 1 /\ \A n \in 2 .. Len(u) : u[n] = s[n - 1]
    BY <1>1, <2>1
  <2> HIDE DEF u
  <2>2. Viewed(u) = SubSeq(<<View(v)>> \o Viewed(s), 1, Len(u))
    BY <1>1, <2>1, <2>6, TopViews
  <2>3. c \in Seq(Views) /\ Len(c) = Len(Viewed(s)) + 1
    <3> HIDE DEF w
    <3> QED
      BY <1>1, <1>3, PrependSeq
  <2>4. Len(Viewed(s)) = Len(s)
    BY <1>1, ViewedSeq
  <2> HIDE DEF c
  <2>5. SubSeq(c, 1, Len(c)) = c
    BY <2>3
  <2> QED
    BY <2>1, <2>2, <2>3, <2>4, <2>5 DEF c
<1> HIDE DEF w
<1> QED
  BY <1>1, <1>3, <1>4, <1>5, StoreMarks

LEMMA SeesRemove ==
  ASSUME IInv, NEW k \in Keys, NEW n \in 1 .. Len(meta[k]),
         views' = [views EXCEPT ![k] = Viewed(Without(meta[k], n))]
  PROVE  Store!Next
<1> DEFINE s == meta[k]
           u == Without(s, n)
           t == Viewed(s)
           c == SubSeq(t, 1, n - 1) \o SubSeq(t, n + 1, Len(t))
<1>1. s \in Seq(Version) /\ Len(s) \in Nat /\ views[k] = t /\ t \in Seq(Views) /\ Len(t) = Len(s)
  BY SeenList, MetaType
<1>2. \A j \in 1 .. Len(s) : t[j] = View(s[j])
  BY <1>1, ViewedSeq
<1>3. /\ u \in Seq(Version) /\ Len(u) = Len(s) - 1
      /\ \A j \in 1 .. Len(s) - 1 : u[j] = IF j < n THEN s[j] ELSE s[j + 1]
  BY <1>1, WithoutSeq
<1>4. Viewed(u) \in Seq(Views) /\ Len(Viewed(u)) = Len(u) /\ \A j \in 1 .. Len(u) : Viewed(u)[j] = View(u[j])
  BY <1>3, ViewedSeq
<1>5. n \in 1 .. Len(t)
  BY <1>1
<1> HIDE DEF t
<1>6. /\ Without(t, n) \in Seq(Views) /\ Len(Without(t, n)) = Len(t) - 1
      /\ \A j \in 1 .. Len(t) - 1 : Without(t, n)[j] = IF j < n THEN t[j] ELSE t[j + 1]
  BY <1>1, <1>5, WithoutSeq
<1>7. Without(t, n) = c
  BY DEF Without
<1> HIDE DEF u, s, c
<1>8. \A j \in 1 .. Len(u) : Viewed(u)[j] = c[j]
  <2> SUFFICES ASSUME NEW j \in 1 .. Len(u) PROVE Viewed(u)[j] = c[j]
    OBVIOUS
  <2>1. j \in 1 .. Len(s) /\ j + 1 \in 1 .. Len(s) /\ j \in 1 .. Len(s) - 1
    BY <1>1, <1>3
  <2>2. u[j] = IF j < n THEN s[j] ELSE s[j + 1]
    BY <1>3, <2>1
  <2>3. c[j] = IF j < n THEN t[j] ELSE t[j + 1]
    BY <1>1, <1>6, <1>7, <2>1
  <2> QED
    BY <1>2, <1>4, <2>1, <2>2, <2>3
<1>9. Viewed(u) = c
  BY <1>1, <1>3, <1>4, <1>6, <1>7, <1>8, SeqEqual
<1> QED
  BY <1>1, <1>5, <1>9, StoreRemoves DEF u, s, c

LEMMA SeesRetag ==
  ASSUME IInv, NEW o \in Ops, NEW k \in Keys, NEW n \in 1 .. Len(meta[k]), ~ meta[k][n].del,
         views' = [views EXCEPT ![k] = Viewed([meta[k] EXCEPT ![n].tag = o])]
  PROVE  Store!Next
<1> DEFINE s == meta[k]
           u == [s EXCEPT ![n].tag = o]
           t == Viewed(s)
           c == [t EXCEPT ![n].tag = o]
<1>1. s \in Seq(Version) /\ Len(s) \in Nat /\ views[k] = t /\ t \in Seq(Views) /\ Len(t) = Len(s)
  BY SeenList, MetaType
<1>2. \A j \in 1 .. Len(s) : t[j] = View(s[j]) /\ t[j] \in Views /\ s[j] \in Version
  <2>1. \A j \in 1 .. Len(s) : t[j] = View(s[j])
    BY <1>1, ViewedSeq
  <2> HIDE DEF t
  <2> QED
    BY <1>1, <2>1
<1>3. u \in Seq(Version) /\ Len(u) = Len(s)
  BY <1>1, TaggedSeq
<1>4. Viewed(u) \in Seq(Views) /\ Len(Viewed(u)) = Len(u) /\ \A j \in 1 .. Len(u) : Viewed(u)[j] = View(u[j])
  BY <1>3, ViewedSeq
<1>5. n \in 1 .. Len(t) /\ ~ t[n].del
  <2>1. t[n] = View(s[n])
    BY <1>2
  <2>2. n \in 1 .. Len(t)
    BY <1>1
  <2> HIDE DEF t
  <2> QED
    BY <2>1, <2>2 DEF View
<1> HIDE DEF t, s
<1>6. \A j \in 1 .. Len(s) : u[j] = IF j = n THEN [s[n] EXCEPT !.tag = o] ELSE s[j]
  BY <1>1
<1>7. c \in Seq(Views) /\ Len(c) = Len(t)
      /\ \A j \in 1 .. Len(t) : c[j] = IF j = n THEN [t[n] EXCEPT !.tag = o] ELSE t[j]
  <2>1. [t[n] EXCEPT !.tag = o] \in Views
    BY <1>1, <1>2, <1>5 DEF Views
  <2> QED
    BY <1>1, <1>5, <2>1
<1>8. View([s[n] EXCEPT !.tag = o]) = [View(s[n]) EXCEPT !.tag = o]
  BY <1>1, <1>2 DEF View, Version, s
<1> HIDE DEF u, c
<1>9. \A j \in 1 .. Len(u) : Viewed(u)[j] = c[j]
  <2> SUFFICES ASSUME NEW j \in 1 .. Len(s) PROVE Viewed(u)[j] = c[j]
    BY <1>3
  <2>1. Viewed(u)[j] = View(u[j]) /\ t[j] = View(s[j])
    BY <1>2, <1>3, <1>4
  <2>2. c[j] = IF j = n THEN [t[n] EXCEPT !.tag = o] ELSE t[j]
    BY <1>1, <1>7
  <2> QED
    BY <1>6, <1>8, <2>1, <2>2
<1>10. Viewed(u) = c
  BY <1>1, <1>3, <1>4, <1>7, <1>9, SeqEqual
<1> QED
  BY <1>1, <1>5, <1>10, StoreRetags DEF u, s, c

-----------------------------------------------------------------------------
(* Every other step leaves what the client sees.                           *)

LEMMA RenameSees ==
  ASSUME IInv, NEW o \in Ops, RenameMeta(o)
  PROVE  Store!Next
<1>1. At(o, "rename") /\ TypeOK /\ op[o] \in CallState
  BY OpType DEF RenameMeta
<1> DEFINE k == op[o].key
           old == meta[k]
           new == metaTmp[k]
<1>2. /\ k \in Keys /\ Holding(o) /\ new # None
      /\ \/ Writes(o) /\ op[o].etag = op[o].body /\ op[o].body \in Bytes /\ new = Pushed(o)
         \/ Removes(o) /\ Marking(o) /\ new = op[o].om
         \/ Removes(o) /\ Removing(o) /\ new = op[o].om
         \/ \E n \in 1 .. Len(old) : ~ old[n].del /\ new = [old EXCEPT ![n].tag = o]
  BY <1>1, Relisted
<1>3. views' = [views EXCEPT ![k] = Viewed(new)]
  <2>1. meta' = [meta EXCEPT ![k] = new]
    BY <1>2 DEF RenameMeta
  <2> HIDE DEF new
  <2> QED
    BY <1>1, <1>2, <2>1, ViewsMove
<1>4. ~ At(o, "done")
  BY <1>1 DEF At
<1>5. CASE Writes(o) /\ op[o].etag = op[o].body /\ op[o].body \in Bytes /\ new = Pushed(o)
  <2>1. op[o].mode \in Modes
    BY <1>1, <1>2, <1>5, PutState DEF At
  <2> QED
    BY <1>2, <1>3, <1>5, <2>1, SeesPut
<1>6. CASE Removes(o) /\ Marking(o) /\ new = op[o].om
  BY <1>2, <1>3, <1>4, <1>6, SeesMark DEF Marking
<1>7. CASE Removes(o) /\ Removing(o) /\ new = op[o].om
  <2>1. PICK n \in 1 .. Len(old) : new = Without(old, n)
    BY <1>7 DEF Removing, RemovingAt
  <2> QED
    BY <1>2, <1>3, <2>1, SeesRemove
<1>8. CASE \E n \in 1 .. Len(old) : ~ old[n].del /\ new = [old EXCEPT ![n].tag = o]
  <2>1. PICK n \in 1 .. Len(old) : ~ old[n].del /\ new = [old EXCEPT ![n].tag = o]
    BY <1>8
  <2> QED
    BY <1>2, <1>3, <2>1, SeesRetag
<1> QED
  BY <1>2, <1>5, <1>6, <1>7, <1>8

LEMMA RemoveSees ==
  ASSUME IInv, NEW o \in Ops, RemoveMeta(o)
  PROVE  Store!Next
<1>1. TypeOK /\ op[o].key \in Keys /\ meta' = [meta EXCEPT ![op[o].key] = <<>>]
  BY OpType, HasKey DEF IInv, RemoveMeta, At
<1>2. views' = [views EXCEPT ![op[o].key] = Viewed(<<>>)]
  BY <1>1, ViewsMove
<1>3. Viewed(<<>>) = <<>>
  BY DEF Viewed
<1> QED
  BY <1>1, <1>2, <1>3, StoreClears

LEMMA Unlisted ==
  ASSUME NEW o \in Ops, Call(o) \/ Step(o) \/ HangUp(o), ~ RenameMeta(o), ~ RemoveMeta(o)
  PROVE  UNCHANGED meta
<1>1. CASE Call(o)
  BY <1>1 DEF Call, PutCall, CopyCall, CompleteCall, DeleteCall, TagCall, GetCall, ExpireCall, disk
<1>2. CASE Step(o)
  <2>1. CASE \/ Acquire(o) \/ PutOpen(o) \/ StreamEnd(o) \/ StreamFail(o) \/ Hash(o) \/ ReadMeta(o) \/ Swap(o)
             \/ SealOpen(o) \/ SealEnd(o) \/ CleanTmp(o) \/ DropData(o) \/ WriteMeta(o)
    BY <2>1 DEF Acquire, PutOpen, StreamEnd, StreamFail, Hash, ReadMeta, Swap, SealOpen, SealEnd, CleanTmp, DropData,
                WriteMeta, disk
  <2>2. CASE \/ DeleteAsk(o) \/ DeleteRead(o) \/ TagRead(o) \/ ExpireScan(o) \/ GetHead(o) \/ GetLook(o)
             \/ Unseal(o) \/ Stat(o) \/ Open(o)
    BY <2>2 DEF DeleteAsk, DeleteRead, TagRead, ExpireScan, GetHead, GetLook, Unseal, Stat, Open, disk
  <2> QED
    BY <1>2, <2>1, <2>2 DEF Step
<1>3. CASE HangUp(o)
  BY <1>3 DEF HangUp, disk
<1> QED
  BY <1>1, <1>2, <1>3

LEMMA MetaStays ==
  ASSUME [Next]_vars
  PROVE  UNCHANGED meta \/ \E o \in Ops : RenameMeta(o) \/ RemoveMeta(o)
<1>1. ASSUME NEW o \in Ops, Call(o) \/ Step(o) \/ HangUp(o), ~ RenameMeta(o), ~ RemoveMeta(o)
      PROVE  UNCHANGED meta
  BY <1>1, Unlisted
<1>2. ASSUME NEW o \in Ops, Age(o)
      PROVE  UNCHANGED meta
  BY <1>2 DEF Age, disk
<1>3. SetVersioning \/ Crash \/ UNCHANGED vars => UNCHANGED meta
  BY DEF SetVersioning, Crash, vars, disk
<1> QED
  BY <1>1, <1>2, <1>3 DEF Next

\* The metadata files change only as ObjectStore allows, whatever the calls do at the
\* same time and whatever crashes: each put, delete and tagging takes effect at one
\* instant, on the versions the key has at that instant (putObject, deleteObject and
\* setObjectTagging read the list, change their copy and write it back).
THEOREM Refinement == ASSUME "complete" \notin Kinds PROVE Spec => ImplementsObjectStore
<1>1. Init => Store!Init
  BY DEF Init, Store!Init
<1>2. IInv /\ [Next]_vars => [Store!Next]_([k \in Keys |-> [n \in 1 .. Len(meta[k]) |-> View(meta[k][n])]])
  <2> SUFFICES ASSUME IInv, [Next]_vars
               PROVE  Store!Next \/ UNCHANGED [k \in Keys |-> [n \in 1 .. Len(meta[k]) |-> View(meta[k][n])]]
    OBVIOUS
  <2>1. CASE UNCHANGED meta
    BY <2>1
  <2>2. CASE \E o \in Ops : RenameMeta(o) \/ RemoveMeta(o)
    BY <2>2, RenameSees, RemoveSees
  <2> QED
    BY <2>1, <2>2, MetaStays
<1> QED
  BY <1>1, <1>2, Invariance, PTL DEF Spec, ImplementsObjectStore, Store!Spec

-----------------------------------------------------------------------------
(* What is stored stays, and what expires is old, on a bucket that always  *)
(* keeps its versions.                                                     *)

\* A put that has taken effect has read a value of versioning.
Answers == \A o \in Ops : Writes(o) /\ op[o].res = "ok" => op[o].mode \in Modes

\* An expiry names a version that is old enough, once it has looked for one.
AgedInv ==
  \A o \in Ops :
    /\ At(o, "scan") => op[o].arg = None
    /\ op[o].kind = "expire" /\ (op[o].pc \in {"ask", "queued"} \/ Holding(o)) => op[o].arg \in aged

\* A marker that the delete of a version has left, on a key without any, is at the bottom.
Bottom ==
  \A k \in Keys : \A n \in 1 .. Len(meta[k]) :
    meta[k][n].by \notin Pushers(k) => n = Len(meta[k])

\* The calls that have put, or may put, a version on top of key k's, and stay with it.
Stacked(k) == {p \in Pushers(k) : Holding(p) \/ Ended(p)}

Present(k, o) == \E n \in 1 .. Len(meta[k]) : meta[k][n].id = o /\ Intact(k, meta[k][n])

\* The version of put o was deleted by its id or pushed out of the list.
Gone(o) ==
  \/ \E p \in Ops : Removes(p) /\ op[p].arg = o
  \/ Cardinality(Stacked(op[o].key) \ {o}) >= MaxVersions

KeptInv == \A o \in Ops : Writes(o) /\ op[o].res = "ok" => Present(op[o].key, o) \/ Gone(o)

StoreInv == Answers /\ AgedInv /\ Bottom /\ KeptInv

\* What a call keeps of its state, step by step.
LEMMA Fields ==
  ASSUME IInv, NEW o \in Ops, Step(o) \/ HangUp(o), ~ (Open(o) /\ Restart)
  PROVE  /\ op'[o].kind = op[o].kind
         /\ op'[o].arg = op[o].arg \/ ExpireScan(o)
         /\ op'[o].mode = op[o].mode \/ PutOpen(o) \/ DeleteAsk(o)
         /\ Holding(o) => Holding(o)' \/ Ended(o)'
         /\ op'[o].res = "ok" => RenameMeta(o) \/ ~ Writes(o)
         /\ op'[o].pc \notin {"scan", "lost"}
<1> DEFINE Goal == /\ op'[o].kind = op[o].kind
                   /\ op'[o].arg = op[o].arg \/ ExpireScan(o)
                   /\ op'[o].mode = op[o].mode \/ PutOpen(o) \/ DeleteAsk(o)
                   /\ Holding(o) => Holding(o)' \/ Ended(o)'
                   /\ op'[o].res = "ok" => RenameMeta(o) \/ ~ Writes(o)
                   /\ op'[o].pc \notin {"scan", "lost"}
<1>1. op[o] \in CallState /\ CallOK(o)
  BY OpType
<1>2. ASSUME NEW res, Finish(o, res), res # "ok" \/ RenameMeta(o) \/ ~ Writes(o)
      PROVE  Goal
  <2>1. op'[o] = Ending(o, res)
    BY <1>2, OpType DEF TypeOK, Finish
  <2> QED
    BY <1>2, <2>1, EndKey DEF Ended
<1>3. ASSUME NEW r, Becomes(o, r), r.kind = op[o].kind, r.arg = op[o].arg \/ ExpireScan(o),
             r.mode = op[o].mode \/ PutOpen(o) \/ DeleteAsk(o), r.pc \in Locked \/ (~ Holding(o) /\ r.pc \notin {"scan", "lost"}),
             r.res = op[o].res, op[o].pc # "done"
      PROVE  Goal
  <2>1. op'[o] = r
    BY <1>3, Turn
  <2>2. op[o].res # "ok"
    BY <1>1, <1>3 DEF CallOK, Shape, At
  <2> QED
    BY <1>3, <2>1, <2>2 DEF Holding, Locked
<1> HIDE DEF Goal
<1>4. Goal
  <2>1. CASE Acquire(o)
    BY <1>1, <1>3, <2>1 DEF Acquire, CallState, At, Holding, Locked
  <2>2. CASE PutOpen(o)
    <3> DEFINE r == [op[o] EXCEPT !.mode = versioning, !.pc = "stream"]
    <3>1. Becomes(o, r) /\ op[o].pc # "done" /\ r.kind = op[o].kind /\ r.arg = op[o].arg /\ r.pc \in Locked /\ r.res = op[o].res
      BY <1>1, <2>2 DEF PutOpen, CallState, At, Locked
    <3> HIDE DEF r
    <3> QED
      BY <1>3, <2>2, <3>1
  <2>3. CASE StreamEnd(o) \/ SealEnd(o)
    BY <1>1, <1>3, <2>3 DEF StreamEnd, SealEnd, CallState, At, Holding, Locked
  <2>4. CASE StreamFail(o)
    BY <1>2, <2>4 DEF StreamFail
  <2>5. CASE ReadMeta(o)
    <3>1. \A s, t, pc : LET r == [op[o] EXCEPT !.om = s, !.todo = t, !.pc = pc]
                        IN  r.kind = op[o].kind /\ r.arg = op[o].arg /\ r.mode = op[o].mode /\ r.res = op[o].res
                            /\ r.pc = pc
      BY <1>1 DEF CallState
    <3>2. PICK s, t, pc : Becomes(o, [op[o] EXCEPT !.om = s, !.todo = t, !.pc = pc]) /\ pc \in Locked
      BY <2>5 DEF ReadMeta, Locked
    <3> DEFINE r == [op[o] EXCEPT !.om = s, !.todo = t, !.pc = pc]
    <3>3. /\ Becomes(o, r) /\ r.kind = op[o].kind /\ r.arg = op[o].arg /\ r.mode = op[o].mode /\ r.res = op[o].res
          /\ r.pc \in Locked /\ op[o].pc # "done"
      BY <2>5, <3>1, <3>2 DEF ReadMeta, At
    <3> HIDE DEF r
    <3> QED
      BY <1>3, <3>3
  <2>6. CASE Hash(o)
    <3>1. \A e : LET r == [op[o] EXCEPT !.etag = e, !.pc = "read"]
                 IN  r.kind = op[o].kind /\ r.arg = op[o].arg /\ r.mode = op[o].mode /\ r.res = op[o].res
                     /\ r.pc = "read"
      BY <1>1 DEF CallState
    <3> QED
      BY <1>2, <1>3, <2>6, <3>1 DEF Hash, At, Locked
  <2>7. CASE SealOpen(o)
    <3>1. \A b : LET r == [op[o] EXCEPT !.body = b, !.pc = "seal"]
                 IN  r.kind = op[o].kind /\ r.arg = op[o].arg /\ r.mode = op[o].mode /\ r.res = op[o].res
                     /\ r.pc = "seal"
      BY <1>1 DEF CallState
    <3> QED
      BY <1>2, <1>3, <2>7, <3>1 DEF SealOpen, At, Locked
  <2>8. CASE TagRead(o)
    <3>1. \A s : LET r == [op[o] EXCEPT !.om = s, !.pc = "wmeta"]
                 IN  r.kind = op[o].kind /\ r.arg = op[o].arg /\ r.mode = op[o].mode /\ r.res = op[o].res
                     /\ r.pc = "wmeta"
      BY <1>1 DEF CallState
    <3> QED
      BY <1>2, <1>3, <2>8, <3>1 DEF TagRead, At, Locked
  <2>9. CASE DropData(o)
    <3>1. \A s, pc : LET r == [op[o] EXCEPT !.todo = s, !.pc = pc]
                     IN  r.kind = op[o].kind /\ r.arg = op[o].arg /\ r.mode = op[o].mode /\ r.res = op[o].res
                         /\ r.pc = pc
      BY <1>1 DEF CallState
    <3>2. PICK s, pc : Becomes(o, [op[o] EXCEPT !.todo = s, !.pc = pc]) /\ pc \in Locked
      BY <2>9 DEF DropData, Locked
    <3> DEFINE r == [op[o] EXCEPT !.todo = s, !.pc = pc]
    <3>3. /\ Becomes(o, r) /\ r.kind = op[o].kind /\ r.arg = op[o].arg /\ r.mode = op[o].mode /\ r.res = op[o].res
          /\ r.pc \in Locked /\ op[o].pc # "done"
      BY <2>9, <3>1, <3>2 DEF DropData
    <3> HIDE DEF r
    <3> QED
      BY <1>3, <3>3
  <2>10. CASE WriteMeta(o)
    BY <1>1, <1>3, <2>10 DEF WriteMeta, CallState, At, Holding, Locked
  <2>11. CASE Swap(o) \/ CleanTmp(o)
    <3>1. LET r == Listed(o)
          IN  r.kind = op[o].kind /\ r.arg = op[o].arg /\ r.mode = op[o].mode /\ r.res = op[o].res
              /\ r.pc \in {"wmeta", "trim"}
      BY <1>1 DEF Listed, CallState
    <3> QED
      BY <1>2, <1>3, <2>11, <3>1 DEF Swap, CleanTmp, At, Locked
  <2>12. CASE RenameMeta(o) \/ RemoveMeta(o)
    <3>1. RemoveMeta(o) => ~ Writes(o)
      BY <1>1 DEF RemoveMeta, CallOK, Shape, At, Writes, Removes
    <3> QED
      BY <1>2, <2>12, <3>1 DEF RenameMeta, RemoveMeta
  <2>13. CASE DeleteAsk(o)
    <3> DEFINE r == [op[o] EXCEPT !.mode = versioning, !.pc = "queued"]
    <3>1. Becomes(o, r) /\ op[o].pc # "done" /\ ~ Holding(o) /\ r.kind = op[o].kind /\ r.arg = op[o].arg
          /\ r.res = op[o].res /\ r.pc \notin {"scan", "lost"}
      BY <1>1, <2>13 DEF DeleteAsk, CallState, At, Holding, Locked
    <3> HIDE DEF r
    <3> QED
      BY <1>3, <2>13, <3>1
  <2>14. CASE DeleteRead(o)
    <3>1. ~ Writes(o)
      BY <2>14 DEF DeleteRead, Writes
    <3>2. \A s, t : LET r == [op[o] EXCEPT !.om = s, !.todo = t, !.pc = "drop"]
                        q == [op[o] EXCEPT !.om = s, !.pc = "wmeta"]
                    IN  /\ r.kind = op[o].kind /\ r.arg = op[o].arg /\ r.mode = op[o].mode /\ r.res = op[o].res
                        /\ q.kind = op[o].kind /\ q.arg = op[o].arg /\ q.mode = op[o].mode /\ q.res = op[o].res
                        /\ r.pc = "drop" /\ q.pc = "wmeta"
      BY <1>1 DEF CallState
    <3>3. CASE \E res : Finish(o, res)
      BY <1>2, <3>1, <3>3
    <3>4. CASE \E s, t : Becomes(o, [op[o] EXCEPT !.om = s, !.todo = t, !.pc = "drop"])
      <4>1. PICK s, t : Becomes(o, [op[o] EXCEPT !.om = s, !.todo = t, !.pc = "drop"])
        BY <3>4
      <4> DEFINE r == [op[o] EXCEPT !.om = s, !.todo = t, !.pc = "drop"]
      <4>2. /\ Becomes(o, r) /\ r.kind = op[o].kind /\ r.arg = op[o].arg /\ r.mode = op[o].mode /\ r.res = op[o].res
            /\ r.pc \in Locked /\ op[o].pc # "done"
        BY <2>14, <3>2, <4>1 DEF DeleteRead, At, Locked
      <4> HIDE DEF r
      <4> QED
        BY <1>3, <4>2
    <3>5. CASE \E s : Becomes(o, [op[o] EXCEPT !.om = s, !.pc = "wmeta"])
      <4>1. PICK s : Becomes(o, [op[o] EXCEPT !.om = s, !.pc = "wmeta"])
        BY <3>5
      <4> DEFINE r == [op[o] EXCEPT !.om = s, !.pc = "wmeta"]
      <4>2. /\ Becomes(o, r) /\ r.kind = op[o].kind /\ r.arg = op[o].arg /\ r.mode = op[o].mode /\ r.res = op[o].res
            /\ r.pc \in Locked /\ op[o].pc # "done"
        BY <2>14, <3>2, <4>1 DEF DeleteRead, At, Locked
      <4> HIDE DEF r
      <4> QED
        BY <1>3, <4>2
    <3> QED
      BY <2>14, <3>3, <3>4, <3>5 DEF DeleteRead
  <2>15. CASE ExpireScan(o)
    <3>1. \A a : LET r == [op[o] EXCEPT !.arg = a, !.pc = "ask"]
                 IN  r.kind = op[o].kind /\ r.mode = op[o].mode /\ r.res = op[o].res /\ r.pc \notin {"scan", "lost"}
      BY <1>1 DEF CallState
    <3>2. ~ Writes(o) /\ ~ Holding(o) /\ op[o].pc # "done"
      BY <1>1, <2>15 DEF ExpireScan, CallOK, Shape, Writes, Removes, At, Holding, Locked
    <3>3. CASE Becomes(o, Ending(o, "ok"))
      <4>1. op'[o] = Ending(o, "ok")
        BY <3>3, Turn
      <4> QED
        BY <3>2, <4>1, EndKey DEF Goal
    <3> QED
      BY <1>3, <2>15, <3>1, <3>2, <3>3 DEF ExpireScan
  <2>16. CASE GetHead(o)
    <3>1. \A e : LET r == [op[o] EXCEPT !.etag = e, !.pc = "look"]
                 IN  r.kind = op[o].kind /\ r.arg = op[o].arg /\ r.mode = op[o].mode /\ r.res = op[o].res
                     /\ r.pc \notin {"scan", "lost"}
      BY <1>1 DEF CallState
    <3>2. ~ Holding(o) /\ op[o].pc # "done"
      BY <2>16 DEF GetHead, At, Holding, Locked
    <3> QED
      BY <1>2, <1>3, <2>16, <3>1, <3>2 DEF GetHead
  <2>17. CASE GetLook(o)
    <3>1. \A s, pc : LET r == [op[o] EXCEPT !.todo = s, !.pc = pc]
                     IN  r.kind = op[o].kind /\ r.arg = op[o].arg /\ r.mode = op[o].mode /\ r.res = op[o].res
                         /\ r.pc = pc
      BY <1>1 DEF CallState
    <3>2. ~ Holding(o) /\ op[o].pc # "done"
      BY <2>17 DEF GetLook, At, Holding, Locked
    <3>3. ASSUME NEW s, NEW pc, Becomes(o, [op[o] EXCEPT !.todo = s, !.pc = pc]), pc \notin {"scan", "lost"}
          PROVE  Goal
      <4> DEFINE r == [op[o] EXCEPT !.todo = s, !.pc = pc]
      <4>1. /\ Becomes(o, r) /\ r.kind = op[o].kind /\ r.arg = op[o].arg /\ r.mode = op[o].mode /\ r.res = op[o].res
            /\ r.pc \notin {"scan", "lost"}
        BY <3>1, <3>3
      <4> HIDE DEF r
      <4> QED
        BY <1>3, <3>2, <4>1
    <3> QED
      BY <1>2, <2>17, <3>3 DEF GetLook
  <2>18. CASE Stat(o)
    BY <1>1, <1>2, <1>3, <2>18 DEF Stat, CallState, At, Holding, Locked
  <2>19. ASSUME NEW b, Served(o, b), op[o].pc \in {"unseal", "open"}
         PROVE  Goal
    <3>1. ~ Holding(o) /\ op[o].pc # "done"
      BY <2>19 DEF Holding, Locked
    <3>2. CASE op[o].kind = "get"
      <4>1. op'[o] = [Ending(o, "ok") EXCEPT !.body = b]
        BY <2>19, <3>2, OpType DEF Served, TypeOK
      <4>2. LET r == [Ending(o, "ok") EXCEPT !.body = b]
            IN  r.kind = op[o].kind /\ r.arg = op[o].arg /\ r.mode = op[o].mode /\ r.pc = "done"
        BY DEF Ending, Idle
      <4> QED
        BY <3>1, <3>2, <4>1, <4>2 DEF Goal, Writes
    <3>3. CASE op[o].kind # "get"
      <4>1. \A k, e : LET r == [op[o] EXCEPT !.key = k, !.enc = e, !.body = b, !.todo = <<>>, !.pc = "queued"]
                      IN  r.kind = op[o].kind /\ r.arg = op[o].arg /\ r.mode = op[o].mode /\ r.res = op[o].res
                          /\ r.pc \notin {"scan", "lost"}
        BY <1>1 DEF CallState
      <4> QED
        BY <1>3, <2>19, <3>1, <3>3, <4>1 DEF Served
    <3> QED
      BY <3>2, <3>3
  <2>20. CASE Unseal(o)
    BY <1>2, <2>19, <2>20 DEF Unseal, At
  <2>21. CASE Open(o)
    BY <1>2, <2>19, <2>21 DEF Open, At
  <2>22. CASE HangUp(o)
    <3> DEFINE r == [op[o] EXCEPT !.gone = TRUE]
    <3>1. Becomes(o, r) /\ op[o].pc # "done" /\ r.kind = op[o].kind /\ r.arg = op[o].arg /\ r.mode = op[o].mode
          /\ r.res = op[o].res /\ r.pc = op[o].pc /\ r.pc \notin {"scan", "lost"}
      BY <1>1, <2>22 DEF HangUp, CallState
    <3> HIDE DEF r
    <3> QED
      BY <1>3, <3>1 DEF Holding
  <2> QED
    BY <2>1, <2>2, <2>3, <2>4, <2>5, <2>6, <2>7, <2>8, <2>9, <2>10, <2>11, <2>12, <2>13, <2>14, <2>15, <2>16, <2>17,
       <2>18, <2>20, <2>21, <2>22 DEF Step
<1> QED
  BY <1>4 DEF Goal

\* With versioning always on, whoever has written a version has given it its own id.
LEMMA AlwaysOn ==
  ASSUME "Suspended" \notin Modes, NEW m \in Modes
  PROVE  m = "Enabled"
BY ModesAssumption

LEMMA OwnIds ==
  ASSUME IInv, Answers, "Suspended" \notin Modes, NEW k \in Keys, NEW n \in 1 .. Len(meta[k])
  PROVE  LET v == meta[k][n]
         IN  /\ v \in Version /\ v.by \in Ops /\ v.id = v.by /\ op[v.by].key = k
             /\ At(v.by, "done") /\ op[v.by].res = "ok" /\ (Writes(v.by) \/ Removes(v.by))
<1>1. meta[k][n] \in Version /\ VersionOK(k, meta[k][n])
  BY MetaType
<1>2. meta[k][n].by \in Ops
  BY <1>1 DEF Version
<1>3. Writes(meta[k][n].by) /\ op[meta[k][n].by].res = "ok" => op[meta[k][n].by].mode = "Enabled"
  BY <1>2, AlwaysOn DEF Answers
<1> QED
  BY <1>1, <1>2, <1>3 DEF VersionOK

\* A put renames its metadata under the mode it has read.
LEMMA PutMode ==
  ASSUME IInv, "Suspended" \notin Modes, NEW o \in Ops, Holding(o), Writes(o) \/ Removes(o), ~ At(o, "held")
  PROVE  op[o].mode \in Modes /\ op[o].mode = "Enabled"
<1>1. op[o].mode \in Modes
  BY OpType DEF CallOK, Shape
<1> QED
  BY <1>1, AlwaysOn

\* The process ends: the calls in flight keep what they were asked.
LEMMA Lost ==
  ASSUME IInv, Restart, NEW o \in Ops
  PROVE  /\ op'[o].kind = op[o].kind /\ op'[o].key = op[o].key /\ op'[o].arg = op[o].arg /\ op'[o].mode = op[o].mode
         /\ op'[o].res = "ok" => op'[o] = op[o]
         /\ op'[o].pc \in {"idle", "done", "lost"}
         /\ Holding(o) \/ Ended(o) => Ended(o)'
<1>1. CASE InFlight(o)
  <2>1. op'[o] = [Ending(o, None) EXCEPT !.pc = "lost"]
    BY <1>1 DEF Restart
  <2>2. LET r == [Ending(o, None) EXCEPT !.pc = "lost"]
        IN  r.kind = op[o].kind /\ r.key = op[o].key /\ r.arg = op[o].arg /\ r.mode = op[o].mode /\ r.res = None
            /\ r.pc = "lost"
    BY DEF Ending, Idle
  <2> QED
    BY <2>1, <2>2, NamesAssumption DEF Ended
<1>2. CASE ~ InFlight(o)
  <2>1. op'[o] = op[o]
    BY <1>2 DEF Restart
  <2> QED
    BY <1>2, <2>1 DEF InFlight, Ended, Holding, Locked
<1> QED
  BY <1>1, <1>2

LEMMA AnswersKept ==
  ASSUME IInv, Answers, "complete" \notin Kinds, NEW o \in Ops, Act(o)
  PROVE  Answers'
<1> SUFFICES ASSUME NEW p \in Ops, Writes(p)', op'[p].res = "ok"
             PROVE  op'[p].mode \in Modes
  BY DEF Answers
<1>1. CASE p # o
  <2>1. op'[p] = op[p]
    BY <1>1, OneCall
  <2> QED
    BY <2>1 DEF Answers, Writes
<1>2. CASE p = o /\ Call(o)
  BY <1>2, Begins, NamesAssumption
<1>3. CASE p = o /\ (Step(o) \/ HangUp(o))
  <2>1. /\ op'[o].kind = op[o].kind
        /\ op'[o].mode = op[o].mode \/ PutOpen(o) \/ DeleteAsk(o)
        /\ RenameMeta(o) \/ ~ Writes(o)
    BY <1>3, Fields DEF Act
  <2>2. RenameMeta(o) /\ Writes(o)
    BY <1>3, <2>1 DEF Writes
  <2>3. op[o].pc = "rename"
    BY <2>2 DEF RenameMeta, At
  <2>4. op[o].mode \in Modes
    BY <2>2, <2>3, OpType DEF CallOK, Shape, Holding, Locked, At
  <2> QED
    BY <1>3, <2>1, <2>3, <2>4 DEF PutOpen, DeleteAsk, At
<1> QED
  BY <1>1, <1>2, <1>3 DEF Act

LEMMA AgedKept ==
  ASSUME IInv, Answers, AgedInv, "complete" \notin Kinds, "Suspended" \notin Modes, NEW o \in Ops, Act(o)
  PROVE  AgedInv'
<1>1. aged' = aged
  <2>1. Call(o) \/ HangUp(o) => UNCHANGED aged
    BY DEF Call, HangUp, PutCall, CopyCall, CompleteCall, DeleteCall, TagCall, GetCall, ExpireCall, env
  <2>2. Acquire(o) \/ PutOpen(o) \/ StreamEnd(o) \/ StreamFail(o) \/ Hash(o) \/ ReadMeta(o) \/ Swap(o) \/ SealOpen(o)
        \/ SealEnd(o) \/ CleanTmp(o) \/ DropData(o) \/ WriteMeta(o) => UNCHANGED aged
    BY DEF Acquire, PutOpen, StreamEnd, StreamFail, Hash, ReadMeta, Swap, SealOpen, SealEnd, CleanTmp, DropData,
           WriteMeta, env
  <2>3. RenameMeta(o) \/ RemoveMeta(o) \/ DeleteAsk(o) \/ DeleteRead(o) \/ TagRead(o) \/ ExpireScan(o) \/ GetHead(o)
        \/ GetLook(o) \/ Unseal(o) \/ Stat(o) \/ Open(o) => UNCHANGED aged
    BY DEF RenameMeta, RemoveMeta, DeleteAsk, DeleteRead, TagRead, ExpireScan, GetHead, GetLook, Unseal, Stat, Open, env
  <2> QED
    BY <2>1, <2>2, <2>3 DEF Act, Step
<1> SUFFICES ASSUME NEW p \in Ops
             PROVE  /\ op'[p].pc = "scan" => op'[p].arg = None
                    /\ op'[p].kind = "expire" /\ (op'[p].pc \in {"ask", "queued"} \/ op'[p].pc \in Locked)
                         => op'[p].arg \in aged
  BY <1>1 DEF AgedInv, At, Holding
<1>2. CASE p # o
  <2>1. op'[p] = op[p]
    BY <1>2, OneCall
  <2> QED
    BY <2>1 DEF AgedInv, At, Holding
<1>3. CASE p = o /\ Call(o)
  BY <1>3, Begins DEF Locked
<1>4. CASE p = o /\ ExpireScan(o) /\ op'[o].kind = "expire"
  <2> DEFINE om == meta[op[o].key]
             i == IF op[o].mode = "Enabled" THEN Head(om).id ELSE None
  <2>1. op[o].kind = "expire" /\ op[o].key \in Keys
    <3>1. op'[o].kind = op[o].kind
      BY <1>4, Fields DEF Act, Step
    <3>2. op[o].pc # "idle"
      BY <1>4 DEF ExpireScan, At
    <3>3. op[o].key \in Keys
      BY <3>2, OpType DEF CallOK, Shape, At
    <3> QED
      BY <1>4, <3>1, <3>3
  <2>2. op[o].mode = "Enabled"
    BY <1>4, <2>1, OpType, AlwaysOn DEF CallOK, Shape, ExpireScan, At
  <2>3. CASE om # <<>> /\ Head(om).by \in aged /\ Becomes(o, [op[o] EXCEPT !.arg = i, !.pc = "ask"])
    <3>1. Len(om) \in Nat /\ 1 \in 1 .. Len(om) /\ Head(om) = om[1]
      BY <2>1, <2>3, MetaType
    <3>2. Head(om).id = Head(om).by
      BY <2>1, <3>1, OwnIds
    <3>3. op'[o] = [op[o] EXCEPT !.arg = i, !.pc = "ask"]
      BY <2>3, Turn
    <3> HIDE DEF i
    <3>4. op'[o].arg = i /\ op'[o].pc = "ask"
      BY <3>3, OpType DEF CallState
    <3> QED
      BY <1>4, <2>2, <2>3, <3>2, <3>4 DEF i
  <2>4. CASE Becomes(o, Ending(o, "ok"))
    <3>1. op'[o] = Ending(o, "ok")
      BY <2>4, Turn
    <3> QED
      BY <1>4, <3>1, EndKey DEF Locked
  <2> HIDE DEF i
  <2> QED
    BY <1>4, <2>3, <2>4 DEF ExpireScan, i
<1>5. CASE p = o /\ (Step(o) \/ HangUp(o)) /\ ~ ExpireScan(o) /\ op'[o].kind = "expire"
  <2>1. op'[o].kind = op[o].kind /\ op'[o].arg = op[o].arg /\ op'[o].pc # "scan"
    BY <1>5, Fields DEF Act
  <2>2. op[o].kind = "expire" /\ InFlight(o)
    BY <1>5, <2>1, Going
  <2>3. ~ At(o, "scan")
    <3>1. CASE HangUp(o)
      BY <3>1, <2>2 DEF HangUp
    <3>2. CASE Step(o)
      BY <1>5, <3>2 DEF Step, At, Acquire, PutOpen, StreamEnd, StreamFail, Hash, ReadMeta, Swap, SealOpen, SealEnd,
                        CleanTmp, DropData, WriteMeta, RenameMeta, RemoveMeta, DeleteAsk, DeleteRead, TagRead,
                        GetHead, GetLook, Unseal, Stat, Open
    <3> QED
      BY <1>5, <3>1, <3>2
  <2>4. op[o].pc \in {"ask", "queued"} \/ Holding(o)
    BY <2>2, <2>3, OpType DEF CallOK, Shape, CallState, Pcs, InFlight, Ended, Holding, Locked, At
  <2>5. op[o].arg \in aged
    BY <2>2, <2>4 DEF AgedInv
  <2> QED
    BY <1>5, <2>1, <2>5
<1>6. CASE p = o /\ (Step(o) \/ HangUp(o)) /\ op'[o].kind # "expire"
  BY <1>6, Fields DEF Act
<1>7. ExpireScan(o) => Step(o)
  BY DEF Step
<1> QED
  BY <1>2, <1>3, <1>4, <1>5, <1>6, <1>7 DEF Act

-----------------------------------------------------------------------------
(* A version leaves the list at the bottom, or by its id.                  *)

\* The author of a listed version has ended, and stays what it was.
LEMMA AuthorStays ==
  ASSUME IInv, NEW o \in Ops, InFlight(o), \A p \in Ops \ {o} : op'[p] = op[p],
         NEW k \in Keys, NEW n \in 1 .. Len(meta[k])
  PROVE  meta[k][n].by \in Ops \ {o} /\ (meta[k][n].by \in Pushers(k) <=> meta[k][n].by \in Pushers(k)')
<1>1. meta[k][n].by \in Ops /\ At(meta[k][n].by, "done")
  BY ListedEnded
<1>2. meta[k][n].by # o
  BY <1>1 DEF InFlight, Ended, At
<1> DEFINE b == meta[k][n].by
<1>3. op'[b] = op[b]
  BY <1>1, <1>2
<1> HIDE DEF b
<1>4. b \in Pushers(k) <=> b \in Pushers(k)'
  BY <1>3 DEF Pushers, Writes
<1> QED
  BY <1>1, <1>2, <1>4 DEF b

\* Renaming puts the call's own version on top, takes one out, or leaves the order.
LEMMA BottomRename ==
  ASSUME IInv, Answers, AgedInv, Bottom, "complete" \notin Kinds, "Suspended" \notin Modes,
         NEW o \in Ops, RenameMeta(o), Act(o), aged \subseteq Ops
  PROVE  Bottom'
<1>0. PICK k : k = op[o].key
  OBVIOUS
<1> DEFINE old == meta[k]
           new == metaTmp[k]
<1>1. At(o, "rename") /\ TypeOK /\ Holding(o) /\ InFlight(o)
  BY OpType DEF RenameMeta, At, Holding, Locked, InFlight, Ended
<1>2. /\ k \in Keys /\ new # None
      /\ \/ Writes(o) /\ new = Pushed(o)
         \/ Removes(o) /\ Marking(o) /\ new = op[o].om
         \/ Removes(o) /\ Removing(o) /\ new = op[o].om
         \/ \E n \in 1 .. Len(old) : ~ old[n].del /\ new = [old EXCEPT ![n].tag = o]
  BY <1>0, <1>1, Relisted
<1>3. /\ \A p \in Ops \ {o} : op'[p] = op[p]
      /\ op'[o].key = k /\ op'[o].kind = op[o].kind /\ op'[o].arg = op[o].arg
  <2>1. ~ ExpireScan(o)
    BY <1>1 DEF ExpireScan, At
  <2> QED
    BY <1>0, <1>1, <2>1, OneCall, Fields DEF Act, Step
<1>4. \A l \in Keys : l # k => meta'[l] = meta[l]
  BY <1>0, <1>1 DEF RenameMeta, TypeOK, disk
<1>5. meta'[k] = new
  BY <1>0, <1>1, <1>2 DEF RenameMeta, TypeOK
<1>6. old \in Seq(Version) /\ Len(old) \in Nat
  BY <1>2, MetaType
<1>7. \A l \in Keys : \A n \in 1 .. Len(meta[l]) :
        meta[l][n].by \notin Pushers(l)' => n = Len(meta[l])
  BY <1>1, <1>3, AuthorStays DEF Bottom
<1>8. \A n \in 1 .. Len(old) : old[n].by \notin Pushers(k)' => n = Len(old)
  BY <1>2, <1>7
<1> HIDE DEF old, new
<1>9. ASSUME \A n \in 1 .. Len(new) : new[n].by \notin Pushers(k)' => n = Len(new)
      PROVE  Bottom'
  <2> SUFFICES ASSUME NEW l \in Keys, NEW n \in 1 .. Len(meta'[l]), meta'[l][n].by \notin Pushers(l)'
               PROVE  n = Len(meta'[l])
    BY DEF Bottom
  <2>1. CASE l = k
    BY <1>5, <1>9, <2>1
  <2>2. CASE l # k
    BY <1>4, <1>7, <2>2
  <2> QED
    BY <2>1, <2>2
<1>10. o \in Pushers(k)' <=> (Writes(o) \/ (op[o].kind = "delete" /\ op[o].arg = None))
  BY <1>3 DEF Pushers, Writes
<1>11. CASE Writes(o) /\ new = Pushed(o)
  <2>1. op[o].mode = "Enabled"
    BY <1>1, <1>11, PutMode DEF At
  <2>2. /\ Len(new) \in Nat /\ new[1].by = o
        /\ Len(new) = IF Len(old) < MaxVersions THEN Len(old) + 1 ELSE Len(old)
        /\ \A n \in 2 .. Len(new) : n - 1 \in 1 .. Len(old) /\ new[n] = old[n - 1]
    <3>1. /\ Pushed(o) \in Seq(Version) /\ Pushed(o)[1] = NewVersion(o)
          /\ Len(Pushed(o)) = IF Len(old) < MaxVersions THEN Len(old) + 1 ELSE Len(old)
          /\ \A n \in 2 .. Len(Pushed(o)) : n - 1 \in 1 .. Len(old) /\ Pushed(o)[n] = old[n - 1]
      BY <1>0, <1>1, <1>11, <2>1, PushedSeq DEF old
    <3>2. NewVersion(o).by = o
      BY DEF NewVersion
    <3> QED
      BY <1>11, <3>1, <3>2
  <2>3. ASSUME NEW n \in 1 .. Len(new), new[n].by \notin Pushers(k)'
        PROVE  n = Len(new)
    <3>1. n \in 2 .. Len(new)
      BY <1>10, <1>11, <2>2, <2>3
    <3>2. n - 1 = Len(old)
      BY <1>8, <2>2, <2>3, <3>1
    <3> QED
      BY <1>6, <2>2, <3>1, <3>2
  <2> QED
    BY <1>9, <2>3
<1>12. CASE Removes(o) /\ Marking(o) /\ new = op[o].om
  <2>1. new = <<Marker(o)>> \o old /\ (old = <<>> \/ op[o].arg = None) /\ Marker(o).by = o
    BY <1>0, <1>12 DEF Marking, Marker, old
  <2>2. old = <<>> \/ o \in Pushers(k)'
    <3>1. op[o].kind = "expire" => op[o].arg \in Ops
      BY <1>1 DEF AgedInv
    <3>2. None \notin Ops
      BY NamesAssumption DEF Ids
    <3> QED
      BY <1>10, <1>12, <2>1, <3>1, <3>2 DEF Removes
  <2>3. /\ Len(new) = Len(old) + 1 /\ new[1].by = o
        /\ \A n \in 2 .. Len(old) + 1 : new[n] = old[n - 1]
    BY <1>6, <2>1, MarkerType, PrependSeq
  <2>4. ASSUME NEW n \in 1 .. Len(new), new[n].by \notin Pushers(k)'
        PROVE  n = Len(new)
    <3>1. CASE n = 1
      BY <1>6, <2>2, <2>3, <2>4, <3>1
    <3>2. CASE n # 1
      <4>1. n \in 2 .. Len(old) + 1 /\ n - 1 \in 1 .. Len(old)
        BY <1>6, <2>3, <3>2
      <4> QED
        BY <1>6, <1>8, <2>3, <2>4, <4>1
    <3> QED
      BY <3>1, <3>2
  <2> QED
    BY <1>9, <2>4
<1>13. CASE Removes(o) /\ Removing(o) /\ new = op[o].om
  <2>1. PICK i \in 1 .. Len(old) : new = Without(old, i)
    BY <1>0, <1>13 DEF Removing, RemovingAt, old
  <2>2. Len(new) = Len(old) - 1 /\ \A j \in 1 .. Len(old) - 1 : new[j] = IF j < i THEN old[j] ELSE old[j + 1]
    BY <1>6, <2>1, WithoutSeq
  <2>3. ASSUME NEW n \in 1 .. Len(new), new[n].by \notin Pushers(k)'
        PROVE  n = Len(new)
    <3>1. CASE n < i
      BY <1>6, <1>8, <2>2, <2>3, <3>1
    <3>2. CASE ~ n < i
      BY <1>6, <1>8, <2>2, <2>3, <3>2
    <3> QED
      BY <3>1, <3>2
  <2> QED
    BY <1>9, <2>3
<1>14. CASE \E n \in 1 .. Len(old) : ~ old[n].del /\ new = [old EXCEPT ![n].tag = o]
  <2>1. PICK i \in 1 .. Len(old) : new = [old EXCEPT ![i].tag = o]
    BY <1>14
  <2>2. Len(new) = Len(old) /\ \A j \in 1 .. Len(old) : new[j].by = old[j].by
    BY <1>6, <2>1, TaggedSeq
  <2> QED
    BY <1>8, <1>9, <2>2
<1> QED
  BY <1>2, <1>11, <1>12, <1>13, <1>14 DEF old, new

\* The list of a key is renamed, or removed, or stays.
LEMMA BottomKept ==
  ASSUME IInv, Answers, AgedInv, Bottom, "complete" \notin Kinds, "Suspended" \notin Modes,
         NEW o \in Ops, Act(o)
  PROVE  Bottom'
<1>1. aged \subseteq Ops /\ TypeOK
  BY OpType DEF TypeOK
<1>2. \A p \in Ops \ {o} : op'[p] = op[p]
  BY OneCall
<1>3. CASE RenameMeta(o)
  BY <1>1, <1>3, BottomRename
<1>4. ASSUME ~ Ended(o), NEW k \in Keys, meta'[k] = meta[k], NEW n \in 1 .. Len(meta[k]),
             meta[k][n].by \notin Pushers(k)'
      PROVE  n = Len(meta[k])
  <2> DEFINE b == meta[k][n].by
  <2>1. b \in Ops \ {o}
    BY <1>4, ListedEnded DEF At, Ended
  <2>2. op'[b] = op[b]
    BY <1>2, <2>1
  <2> HIDE DEF b
  <2>3. b \notin Pushers(k)
    BY <1>4, <2>1, <2>2 DEF Pushers, Writes, b
  <2> QED
    BY <2>3 DEF Bottom, b
<1>5. ~ Ended(o)
  BY Begins, Going DEF Act, InFlight
<1>6. CASE RemoveMeta(o)
  <2>1. \A k \in Keys : meta'[k] = meta[k] \/ meta'[k] = <<>>
    BY <1>1, <1>6 DEF RemoveMeta, TypeOK
  <2> QED
    BY <1>4, <1>5, <2>1 DEF Bottom
<1>7. CASE ~ RenameMeta(o) /\ ~ RemoveMeta(o)
  <2>1. meta' = meta
    BY <1>7, Unlisted DEF Act
  <2> QED
    BY <1>4, <1>5, <2>1 DEF Bottom
<1> QED
  BY <1>3, <1>6, <1>7

-----------------------------------------------------------------------------
(* What was stored stays present, or is gone for a reason.                 *)

\* With more calls stacked on a key there are still enough of them.
LEMMA Enough ==
  ASSUME NEW S, NEW T, S \subseteq T, T \subseteq Ops, Cardinality(S) >= MaxVersions
  PROVE  Cardinality(T) >= MaxVersions
<1>1. IsFiniteSet(T) /\ IsFiniteSet(S) /\ Cardinality(S) <= Cardinality(T)
  BY OpsAssumption, FS_Subset
<1>2. Cardinality(S) \in Nat /\ Cardinality(T) \in Nat
  BY <1>1, FS_CardinalityType
<1> QED
  BY <1>1, <1>2, BoundsAssumption

\* A put that finds the list of its key full has that many calls above the last
\* version, its own included.
LEMMA Crowded ==
  ASSUME IInv, Answers, Bottom, "Suspended" \notin Modes, NEW o \in Ops, Holding(o), Writes(o), NEW p \in Ops,
         NEW k \in Keys, op[o].key = k, op[p].key = k,
         Len(meta[k]) >= MaxVersions, meta[k][Len(meta[k])].id = p
  PROVE  Gone(p)
<1> DEFINE old == meta[k]
           L == Len(old)
           T == Stacked(k) \ {p}
           f == [n \in 1 .. L |-> IF n = L THEN o ELSE old[n].by]
<1>1. L \in Nat /\ L >= MaxVersions /\ MaxVersions \in Nat \ {0} /\ UniqueIds(old)
  BY MetaType, BoundsAssumption
<1>2. \A n \in 1 .. L : old[n].by \in Ops /\ old[n].id = old[n].by /\ At(old[n].by, "done")
  BY OwnIds
<1>3. ~ At(o, "done") /\ o \in Stacked(k)
  BY DEF Holding, Locked, At, Stacked, Pushers
<1>4. \A n \in 1 .. L : n # L => old[n].by \in Stacked(k)
  BY <1>2 DEF Bottom, Stacked, Ended, At
<1>5. old[L].id = p /\ L \in 1 .. L
  BY <1>1
<1> HIDE DEF old, L
<1>6. \A m, n \in 1 .. L : old[m].by = old[n].by => m = n
  BY <1>1, <1>2 DEF UniqueIds, L
<1>7. p # o /\ \A n \in 1 .. L : n # L => old[n].by # p
  BY <1>2, <1>3, <1>5, <1>6
<1>8. f \in [1 .. L -> T]
  BY <1>3, <1>4, <1>7
<1>9. \A m, n \in 1 .. L : f[m] = f[n] => m = n
  BY <1>2, <1>3, <1>6
<1>10. IsFiniteSet(T) /\ Cardinality(T) \in Nat
  <2>1. T \subseteq Ops
    BY DEF Stacked, Pushers
  <2> HIDE DEF T
  <2> QED
    BY <2>1, OpsAssumption, FS_Subset, FS_CardinalityType
<1>11. IsFiniteSet(1 .. L) /\ Cardinality(1 .. L) = L
  <2>1. 1 \in Int /\ L \in Int /\ ~ 1 > L /\ L - 1 + 1 = L
    BY <1>1, <1>5
  <2>2. IsFiniteSet(1 .. L) /\ Cardinality(1 .. L) = IF 1 > L THEN 0 ELSE L - 1 + 1
    BY <2>1, FS_Interval
  <2> QED
    BY <2>1, <2>2
<1> HIDE DEF f, T
<1>12. ~ Cardinality(T) < L
  BY <1>8, <1>9, <1>10, <1>11, FS_PigeonHole
<1>13. Cardinality(T) >= MaxVersions
  BY <1>1, <1>10, <1>12
<1> QED
  BY <1>13 DEF Gone, T

\* Data files change when a put writes its own and when a call drops one.
LEMMA DataStays ==
  ASSUME IInv, "complete" \notin Kinds, NEW o \in Ops, Act(o), NEW k \in Keys, NEW i \in Ids
  PROVE  \/ data'[<<k, i>>] = data[<<k, i>>]
         \/ op[o].pc \in {"swap", "seal"} /\ OwnFile(o) = <<k, i>>
         \/ op[o].pc \in {"drop", "trim"} /\ op[o].key = k /\ Head(op[o].todo).id = i
<1>1. data \in [Keys \X Ids -> DataFile \cup {None}]
  BY OpType DEF TypeOK
<1>2. CASE Swap(o) \/ SealOpen(o) \/ SealEnd(o)
  BY <1>1, <1>2 DEF Swap, SealOpen, SealEnd, At, disk
<1>3. CASE DropData(o)
  BY <1>1, <1>3 DEF DropData
<1>4. CASE Call(o) \/ HangUp(o)
  BY <1>4 DEF Call, HangUp, PutCall, CopyCall, CompleteCall, DeleteCall, TagCall, GetCall, ExpireCall, disk
<1>5. CASE \/ Acquire(o) \/ PutOpen(o) \/ StreamEnd(o) \/ StreamFail(o) \/ Hash(o) \/ ReadMeta(o)
           \/ CleanTmp(o) \/ WriteMeta(o) \/ RenameMeta(o) \/ RemoveMeta(o)
  BY <1>5 DEF Acquire, PutOpen, StreamEnd, StreamFail, Hash, ReadMeta, CleanTmp, WriteMeta, RenameMeta, RemoveMeta, disk
<1>6. CASE \/ DeleteAsk(o) \/ DeleteRead(o) \/ TagRead(o) \/ ExpireScan(o) \/ GetHead(o) \/ GetLook(o)
           \/ Unseal(o) \/ Stat(o) \/ Open(o)
  BY <1>6 DEF DeleteAsk, DeleteRead, TagRead, ExpireScan, GetHead, GetLook, Unseal, Stat, Open, disk
<1> QED
  BY <1>2, <1>3, <1>4, <1>5, <1>6 DEF Act, Step

\* The data of a version is removed by the delete of that version, or to make room.
LEMMA DataKept ==
  ASSUME IInv, StoreInv, "complete" \notin Kinds, "Suspended" \notin Modes, NEW o \in Ops, Act(o),
         NEW p \in Ops, At(p, "done"), NEW k \in Keys, op[p].key = k
  PROVE  data'[<<k, p>>] = data[<<k, p>>] \/ Gone(p)
<1>1. CallOK(o) /\ p \in Ids
  BY OpType DEF Ids
<1>2. CASE op[o].pc \in {"swap", "seal"} /\ OwnFile(o) = <<k, p>>
  <2>1. Writes(o) /\ Holding(o) /\ ~ At(o, "held") /\ ~ At(o, "done")
    BY <1>1, <1>2 DEF CallOK, Shape, Holding, Locked, At
  <2>2. op[o].mode = "Enabled"
    BY <2>1, PutMode
  <2> QED
    BY <1>2, <2>1, <2>2 DEF OwnFile, File
<1>3. CASE op[o].pc \in {"drop", "trim"} /\ op[o].key = k /\ Head(op[o].todo).id = p
  <2>1. Holding(o) /\ ~ At(o, "held") /\ (Writes(o) \/ Removes(o))
    BY <1>1, <1>3 DEF CallOK, Shape, Holding, Locked, At
  <2>2. op[o].mode = "Enabled"
    BY <2>1, PutMode
  <2>3. CASE Writes(o)
    <3>1. Len(meta[k]) >= MaxVersions /\ op[o].todo = <<meta[k][Len(meta[k])]>>
      BY <1>1, <1>3, <2>2, <2>3 DEF CallOK, Putting, At
    <3>2. meta[k][Len(meta[k])].id = p
      BY <1>3, <3>1
    <3> QED
      BY <1>3, <2>1, <2>3, <3>1, <3>2, Crowded DEF StoreInv
  <2>4. CASE Removes(o) /\ ~ Writes(o)
    <3>1. Removing(o) /\ op[o].pc = "drop"
      BY <1>1, <1>3, <2>2, <2>4 DEF CallOK, Shape, Deleting, Marking, Clearing, At
    <3>2. PICK n \in 1 .. Len(meta[k]) : meta[k][n].id = op[o].arg /\ op[o].todo = <<meta[k][n]>>
      BY <1>3, <3>1 DEF Removing, RemovingAt, At
    <3>3. op[o].arg = p
      BY <1>3, <3>2
    <3> QED
      BY <2>4, <3>3 DEF Gone
  <2> QED
    BY <2>1, <2>3, <2>4
<1> QED
  BY <1>1, <1>2, <1>3, DataStays

\* A version leaves the list by its id or to make room for a put.
LEMMA ListKept ==
  ASSUME IInv, StoreInv, "complete" \notin Kinds, "Suspended" \notin Modes, NEW o \in Ops, Act(o),
         NEW p \in Ops, NEW k \in Keys, op[p].key = k, op[o].key = k, Holding(o),
         NEW n \in 1 .. Len(meta[k]), meta[k][n].id = p
  PROVE  \/ Gone(p)
         \/ \E m \in 1 .. Len(meta'[k]) :
              /\ meta'[k][m].id = p /\ meta'[k][m].by = meta[k][n].by
              /\ meta'[k][m].etag = meta[k][n].etag /\ meta'[k][m].enc = meta[k][n].enc
<1> DEFINE old == meta[k]
           new == metaTmp[k]
<1>1. TypeOK /\ CallOK(o) /\ old \in Seq(Version) /\ Len(old) \in Nat
  BY OpType, MetaType
<1>2. CASE ~ RenameMeta(o) /\ ~ RemoveMeta(o)
  BY <1>2, Unlisted DEF Act
<1>3. ASSUME Removes(o), Removing(o)
      PROVE  \E i \in 1 .. Len(old) : op[o].om = Without(old, i) /\ (i = n => Gone(p))
  <2>1. PICK i \in 1 .. Len(old) : op[o].om = Without(old, i) /\ old[i].id = op[o].arg
    BY <1>3 DEF Removing, RemovingAt
  <2>2. i = n => op[o].arg = p
    BY <2>1
  <2> QED
    BY <1>3, <2>1, <2>2 DEF Gone
<1>4. CASE RemoveMeta(o)
  <2>1. Removes(o) /\ op[o].mode = "Enabled" /\ op[o].pc = "rmmeta"
    <3>1. Removes(o) /\ ~ At(o, "held") /\ op[o].pc = "rmmeta"
      BY <1>1, <1>4 DEF RemoveMeta, CallOK, Shape, At
    <3> QED
      BY <3>1, PutMode
  <2>2. Removing(o) /\ op[o].om = <<>>
    BY <1>1, <2>1 DEF CallOK, Deleting, Marking, Removing, RemovingAt, Clearing, At
  <2>3. PICK i \in 1 .. Len(old) : op[o].om = Without(old, i) /\ (i = n => Gone(p))
    BY <1>3, <2>1, <2>2
  <2>4. Len(op[o].om) = Len(old) - 1
    BY <1>1, <2>3, WithoutSeq
  <2>5. Len(old) = 1
    BY <1>1, <2>2, <2>4
  <2>6. i = n
    BY <2>5
  <2> QED
    BY <2>3, <2>6
<1>5. CASE RenameMeta(o)
  <2>1. At(o, "rename")
    BY <1>5 DEF RenameMeta
  <2>2. /\ new # None /\ new = op[o].om
        /\ \/ Writes(o) /\ new = Pushed(o)
           \/ Removes(o) /\ Marking(o)
           \/ Removes(o) /\ Removing(o)
           \/ \E i \in 1 .. Len(old) : ~ old[i].del /\ new = [old EXCEPT ![i].tag = o]
    <3> DEFINE List(l) ==
          /\ metaTmp[l] # None /\ metaTmp[l] = op[o].om
          /\ \/ Writes(o) /\ metaTmp[l] = Pushed(o)
             \/ Removes(o) /\ Marking(o)
             \/ Removes(o) /\ Removing(o)
             \/ \E i \in 1 .. Len(meta[l]) : ~ meta[l][i].del /\ metaTmp[l] = [meta[l] EXCEPT ![i].tag = o]
    <3>1. List(op[o].key)
      BY <2>1, Relisted
    <3>2. List(k)
      <4> HIDE DEF List
      <4> QED
        BY <3>1
    <3> QED
      BY <3>2
  <2>3. meta'[k] = new
    BY <1>1, <1>5, <2>2 DEF RenameMeta, TypeOK
  <2> DEFINE Same(m) == /\ new[m].id = p /\ new[m].by = old[n].by /\ new[m].etag = old[n].etag
                        /\ new[m].enc = old[n].enc
  <2>4. old[n].id = p /\ n \in 1 .. Len(old)
    OBVIOUS
  <2> HIDE DEF old, new
  <2>5. Gone(p) \/ \E m \in 1 .. Len(new) : Same(m)
    <3>1. CASE Writes(o) /\ new = Pushed(o)
      <4>1. op[o].mode = "Enabled"
        BY <2>1, <3>1, PutMode DEF At
      <4>2. /\ Len(new) = IF Len(old) < MaxVersions THEN Len(old) + 1 ELSE Len(old)
            /\ \A j \in 2 .. Len(new) : new[j] = old[j - 1]
        BY <3>1, <4>1, PushedSeq DEF old
      <4>3. CASE n + 1 <= Len(new)
        <5>1. n + 1 \in 2 .. Len(new) /\ (n + 1) - 1 = n
          BY <1>1, <2>4, <4>2, <4>3
        <5>2. new[n + 1] = old[n]
          BY <4>2, <5>1
        <5> QED
          BY <1>1, <2>4, <4>2, <5>1, <5>2
      <4>4. CASE ~ n + 1 <= Len(new)
        <5>1. n = Len(old) /\ Len(old) >= MaxVersions
          BY <1>1, <2>4, <4>2, <4>4, BoundsAssumption
        <5> QED
          BY <2>4, <3>1, <5>1, Crowded DEF StoreInv, old
      <4> QED
        BY <4>3, <4>4
    <3>2. CASE Removes(o) /\ Marking(o)
      <4>1. new = <<Marker(o)>> \o old
        BY <2>2, <3>2 DEF Marking, old
      <4>2. Len(new) = Len(old) + 1 /\ \A j \in 2 .. Len(old) + 1 : new[j] = old[j - 1]
        BY <1>1, <4>1, MarkerType, PrependSeq
      <4>3. n + 1 \in 2 .. Len(old) + 1 /\ n + 1 \in 1 .. Len(new) /\ (n + 1) - 1 = n
        BY <1>1, <2>4, <4>2
      <4>4. new[n + 1] = old[n]
        BY <4>2, <4>3
      <4> QED
        BY <2>4, <4>3, <4>4
    <3>3. CASE Removes(o) /\ Removing(o)
      <4>1. PICK i \in 1 .. Len(old) : new = Without(old, i) /\ (i = n => Gone(p))
        BY <1>3, <2>2, <3>3
      <4>2. Len(new) = Len(old) - 1 /\ \A j \in 1 .. Len(old) - 1 : new[j] = IF j < i THEN old[j] ELSE old[j + 1]
        BY <1>1, <4>1, WithoutSeq
      <4>3. CASE n < i
        <5>1. n \in 1 .. Len(old) - 1
          BY <1>1, <2>4, <4>1, <4>3
        <5> QED
          BY <2>4, <4>2, <4>3, <5>1
      <4>4. CASE n > i
        <5>1. n - 1 \in 1 .. Len(old) - 1 /\ ~ (n - 1 < i) /\ (n - 1) + 1 = n
          BY <1>1, <2>4, <4>1, <4>4
        <5>2. new[n - 1] = old[n]
          BY <4>2, <5>1
        <5> QED
          BY <2>4, <4>2, <5>1, <5>2
      <4> QED
        BY <1>1, <2>4, <4>1, <4>3, <4>4
    <3>4. CASE \E i \in 1 .. Len(old) : ~ old[i].del /\ new = [old EXCEPT ![i].tag = o]
      <4>1. PICK i \in 1 .. Len(old) : new = [old EXCEPT ![i].tag = o]
        BY <3>4
      <4>2. /\ Len(new) = Len(old)
            /\ \A j \in 1 .. Len(old) :
                 /\ new[j].id = old[j].id /\ new[j].by = old[j].by /\ new[j].etag = old[j].etag
                 /\ new[j].enc = old[j].enc
        BY <1>1, <4>1, TaggedSeq
      <4> QED
        BY <2>4, <4>2
    <3> QED
      BY <2>2, <3>1, <3>2, <3>3, <3>4
  <2> QED
    BY <2>3, <2>5 DEF old, new
<1> QED
  BY <1>2, <1>4, <1>5

\* A version that is present stays, or is gone for a reason.
LEMMA PresentKept ==
  ASSUME IInv, StoreInv, "complete" \notin Kinds, "Suspended" \notin Modes, NEW o \in Ops, Act(o),
         NEW p \in Ops, At(p, "done"), NEW k \in Keys, op[p].key = k, Present(k, p)
  PROVE  Present(k, p)' \/ Gone(p)
<1>1. PICK n \in 1 .. Len(meta[k]) : meta[k][n].id = p /\ Intact(k, meta[k][n])
  BY DEF Present
<1>2. data'[<<k, p>>] = data[<<k, p>>] \/ Gone(p)
  BY DataKept
<1>3. ASSUME NEW m \in 1 .. Len(meta'[k]), meta'[k][m].id = p, meta'[k][m].by = meta[k][n].by,
             meta'[k][m].etag = meta[k][n].etag, meta'[k][m].enc = meta[k][n].enc,
             data'[<<k, p>>] = data[<<k, p>>]
      PROVE  Present(k, p)'
  BY <1>1, <1>3 DEF Present, Intact
<1>4. CASE k # op[o].key \/ ~ Holding(o)
  <2>1. meta'[k] = meta[k] /\ \A i \in Ids : data'[<<k, i>>] = data[<<k, i>>]
    BY <1>4, Framed DEF Frame
  <2> QED
    BY <1>1, <1>3, <2>1 DEF Ids
<1>5. CASE k = op[o].key /\ Holding(o)
  <2>1. \/ Gone(p)
        \/ \E m \in 1 .. Len(meta'[k]) :
              /\ meta'[k][m].id = p /\ meta'[k][m].by = meta[k][n].by
              /\ meta'[k][m].etag = meta[k][n].etag /\ meta'[k][m].enc = meta[k][n].enc
    BY <1>1, <1>5, ListKept
  <2> QED
    BY <1>2, <1>3, <2>1
<1> QED
  BY <1>4, <1>5

\* What has pushed a version out stays, and so does the delete that named it.
LEMMA GoneKept ==
  ASSUME IInv, AgedInv, "complete" \notin Kinds, NEW o \in Ops, Act(o), NEW p \in Ops, At(p, "done"), Gone(p)
  PROVE  Gone(p)'
<1>1. ~ Ended(o) /\ (Holding(o) => ~ Call(o)) /\ \A q \in Ops \ {o} : op'[q] = op[q]
  BY Begins, Going, OneCall DEF Act, InFlight
<1>2. op'[p] = op[p]
  BY <1>1 DEF Ended, At
<1>3. CASE \E q \in Ops : Removes(q) /\ op[q].arg = p
  <2>1. PICK q \in Ops : Removes(q) /\ op[q].arg = p
    BY <1>3
  <2>2. CASE q # o
    <3>1. op'[q] = op[q]
      BY <1>1, <2>2
    <3> QED
      BY <2>1, <3>1 DEF Gone, Removes
  <2>3. CASE q = o
    <3>1. ~ Call(o)
      BY <2>1, <2>3, Begins, IdleType DEF Removes
    <3>2. op'[o].kind = op[o].kind /\ (op'[o].arg = op[o].arg \/ ExpireScan(o))
      BY <3>1, Fields DEF Act
    <3>3. ~ ExpireScan(o)
      <4> SUFFICES ASSUME ExpireScan(o) PROVE FALSE
        OBVIOUS
      <4>1. op[o].arg = None
        BY DEF AgedInv, ExpireScan
      <4> QED
        BY <2>1, <2>3, <4>1, NamesAssumption DEF Ids
    <3> QED
      BY <2>1, <2>3, <3>2, <3>3 DEF Gone, Removes
  <2> QED
    BY <2>2, <2>3
<1>4. CASE Cardinality(Stacked(op[p].key) \ {p}) >= MaxVersions
  <2>1. PICK k : k = op[p].key
    OBVIOUS
  <2>2. ASSUME NEW q \in Stacked(k)
        PROVE  q \in Stacked(k)'
    <3>1. q \in Ops /\ op[q].key = k /\ (Writes(q) \/ (op[q].kind = "delete" /\ op[q].arg = None))
          /\ (Holding(q) \/ Ended(q))
      BY DEF Stacked, Pushers
    <3>2. CASE q # o
      <4>1. op'[q] = op[q]
        BY <1>1, <3>1, <3>2
      <4> QED
        BY <3>1, <4>1 DEF Stacked, Pushers, Writes, Holding, Ended
    <3>3. CASE q = o
      <4>1. Holding(o) /\ ~ Call(o)
        BY <1>1, <3>1, <3>3
      <4>2. ~ ExpireScan(o)
        BY <4>1 DEF ExpireScan, At, Holding, Locked
      <4>3. op'[o].key = op[o].key /\ op'[o].kind = op[o].kind /\ op'[o].arg = op[o].arg
            /\ (Holding(o)' \/ Ended(o)')
        BY <4>1, <4>2, OneCall, Fields DEF Act
      <4> QED
        BY <3>1, <3>3, <4>3 DEF Stacked, Pushers, Writes
    <3> QED
      BY <3>2, <3>3
  <2>3. Stacked(k) \ {p} \subseteq Stacked(k)' \ {p} /\ Stacked(k)' \ {p} \subseteq Ops
    BY <2>2 DEF Stacked, Pushers
  <2>4. Cardinality(Stacked(k)' \ {p}) >= MaxVersions
    BY <1>4, <2>1, <2>3, Enough
  <2>5. op'[p].key = k
    BY <1>2, <2>1
  <2> QED
    BY <2>4, <2>5 DEF Gone
<1> QED
  BY <1>3, <1>4 DEF Gone

\* A put that ends leaves its version on top of the list.
LEMMA PutPresent ==
  ASSUME IInv, StoreInv, "complete" \notin Kinds, "Suspended" \notin Modes, NEW o \in Ops, Act(o), Writes(o)',
         op'[o].res = "ok"
  PROVE  Present(op[o].key, o)' /\ op'[o].key = op[o].key
<1>1. PICK k : k = op[o].key
  OBVIOUS
<1>2. RenameMeta(o) /\ Writes(o)
  <2>1. ~ Call(o)
    BY Begins, NamesAssumption
  <2>2. op'[o].kind = op[o].kind /\ (RenameMeta(o) \/ ~ Writes(o))
    BY <2>1, Fields DEF Act
  <2> QED
    BY <2>2 DEF Writes
<1>3. At(o, "rename") /\ Holding(o) /\ op[o].mode = "Enabled" /\ TypeOK
  <2>1. At(o, "rename") /\ Holding(o) /\ ~ At(o, "held")
    BY <1>2 DEF RenameMeta, At, Holding, Locked
  <2> QED
    BY <1>2, <2>1, PutMode, OpType
<1>4. k \in Keys /\ metaTmp[k] # None /\ Placed(o) /\ op[o].etag = op[o].body /\ metaTmp[k] = Pushed(o)
  BY <1>1, <1>2, <1>3, Relisted DEF Writes, Removes
<1>5. meta'[k] = Pushed(o) /\ data' = data
  BY <1>1, <1>2, <1>3, <1>4 DEF RenameMeta, TypeOK
<1>6. Len(Pushed(o)) \in Nat /\ Len(Pushed(o)) >= 1 /\ Pushed(o)[1] = NewVersion(o)
  BY <1>2, <1>3, PushedSeq
<1>7. LET v == NewVersion(o)
      IN  v.id = o /\ v.by = o /\ v.etag = op[o].etag /\ v.enc = op[o].enc
  BY <1>3 DEF NewVersion, OwnFile, File
<1>8. data[<<k, o>>] = [bytes |-> op[o].etag, by |-> IF op[o].enc THEN o ELSE None]
  BY <1>1, <1>3, <1>4 DEF Placed, OwnFile, File
<1>9. 1 \in 1 .. Len(meta'[k]) /\ meta'[k][1].id = o /\ Intact(k, meta[k][1])'
  BY <1>5, <1>6, <1>7, <1>8 DEF Intact
<1>10. Present(k, o)'
  BY <1>9 DEF Present
<1>11. op'[o].key = op[o].key
  BY <1>3, OneCall
<1> QED
  BY <1>1, <1>10, <1>11

LEMMA KeptKept ==
  ASSUME IInv, StoreInv, "complete" \notin Kinds, "Suspended" \notin Modes, NEW o \in Ops, Act(o)
  PROVE  KeptInv'
<1> SUFFICES ASSUME NEW p \in Ops, Writes(p)', op'[p].res = "ok"
             PROVE  Present(op[p].key, p)' \/ Gone(p)'
  BY DEF KeptInv
<1>1. CASE p = o
  <2>1. PICK k : k = op[o].key
    OBVIOUS
  <2>2. Present(k, o)' /\ op'[o].key = k
    BY <1>1, <2>1, PutPresent
  <2> QED
    BY <1>1, <2>2
<1>2. CASE p # o
  <2>1. op'[p] = op[p]
    BY <1>2, OneCall
  <2>2. Writes(p) /\ op[p].res = "ok"
    BY <2>1 DEF Writes
  <2>3. At(p, "done") /\ op[p].key \in Keys
    <3>1. At(p, "done")
      BY <2>2, OpType DEF CallOK, Shape
    <3> QED
      BY <3>1, OpType DEF CallOK, Shape, At
  <2>4. PICK k \in Keys : k = op[p].key
    BY <2>3
  <2>5. Present(k, p) \/ Gone(p)
    BY <2>2, <2>4 DEF StoreInv, KeptInv
  <2>6. Present(k, p)' \/ Gone(p)'
    <3>1. Present(k, p)' \/ Gone(p)
      BY <2>3, <2>4, <2>5, PresentKept
    <3> QED
      BY <2>3, <3>1, GoneKept DEF StoreInv
  <2>7. op'[p].key = k
    BY <2>1, <2>4
  <2> QED
    BY <2>6, <2>7
<1> QED
  BY <1>1, <1>2

-----------------------------------------------------------------------------
(* The theorems on a bucket that keeps its versions.                       *)

LEMMA StoreInitial == Init => StoreInv
<1> SUFFICES ASSUME Init PROVE StoreInv
  OBVIOUS
<1>1. \A o \in Ops : op[o] = Idle
  BY DEF Init
<1>2. Answers /\ KeptInv
  BY <1>1, IdleType, NamesAssumption DEF Answers, KeptInv
<1>3. AgedInv
  BY <1>1, IdleType DEF AgedInv, At
<1>4. Bottom
  BY DEF Init, Bottom
<1> QED
  BY <1>2, <1>3, <1>4 DEF StoreInv

\* The end of the process and the passing of time change nothing here.
LEMMA StoreStill ==
  ASSUME IInv, StoreInv, UNCHANGED disk, aged \subseteq aged', UNCHANGED op \/ Restart
  PROVE  StoreInv'
<1>1. ASSUME NEW o \in Ops
      PROVE  /\ op'[o].kind = op[o].kind /\ op'[o].key = op[o].key
             /\ op'[o].arg = op[o].arg /\ op'[o].mode = op[o].mode
             /\ op'[o].res = "ok" => op'[o] = op[o]
             /\ op'[o].pc = op[o].pc \/ op'[o].pc \in {"idle", "done", "lost"}
             /\ Holding(o) \/ Ended(o) => Holding(o)' \/ Ended(o)'
  BY Lost DEF Holding, Ended
<1>2. Answers'
  BY <1>1 DEF StoreInv, Answers, Writes
<1>3. AgedInv'
  BY <1>1 DEF StoreInv, AgedInv, At, Holding, Locked
<1>4. \A k : Pushers(k)' = Pushers(k)
  BY <1>1 DEF Pushers, Writes
<1>5. Bottom'
  BY <1>4 DEF StoreInv, Bottom, disk
<1>6. \A k : \A p : Present(k, p)' <=> Present(k, p)
  BY DEF Present, Intact, disk
<1>7. \A k : Stacked(k) \subseteq Stacked(k)'
  BY <1>1, <1>4 DEF Stacked, Pushers
<1>8. ASSUME NEW p \in Ops, Gone(p)
      PROVE  Gone(p)'
  <2>1. CASE \E q \in Ops : Removes(q) /\ op[q].arg = p
    BY <1>1, <2>1 DEF Gone, Removes
  <2>2. CASE Cardinality(Stacked(op[p].key) \ {p}) >= MaxVersions
    <3>1. PICK k : k = op[p].key
      OBVIOUS
    <3>2. Stacked(k) \ {p} \subseteq Stacked(k)' \ {p} /\ Stacked(k)' \ {p} \subseteq Ops
      BY <1>7 DEF Stacked, Pushers
    <3>3. Cardinality(Stacked(k)' \ {p}) >= MaxVersions
      BY <2>2, <3>1, <3>2, Enough
    <3>4. op'[p].key = k
      BY <1>1, <3>1
    <3> QED
      BY <3>3, <3>4 DEF Gone
  <2> QED
    BY <1>8, <2>1, <2>2 DEF Gone
<1>9. KeptInv'
  <2> SUFFICES ASSUME NEW p \in Ops, Writes(p)', op'[p].res = "ok"
               PROVE  Present(op[p].key, p)' \/ Gone(p)'
    BY DEF KeptInv
  <2>1. PICK k : k = op[p].key
    OBVIOUS
  <2>2. Writes(p) /\ op[p].res = "ok" /\ op'[p].key = k
    BY <1>1, <2>1 DEF Writes
  <2>3. Present(k, p) \/ Gone(p)
    BY <2>1, <2>2 DEF StoreInv, KeptInv
  <2>4. Present(k, p)' \/ Gone(p)'
    BY <1>6, <1>8, <2>3
  <2> QED
    BY <2>2, <2>4
<1> QED
  BY <1>2, <1>3, <1>5, <1>9 DEF StoreInv

LEMMA StoreInductive ==
  ASSUME IInv, "complete" \notin Kinds, "Suspended" \notin Modes, StoreInv, [Next]_vars
  PROVE  StoreInv'
<1>1. CASE \E o \in Ops : Act(o)
  BY <1>1, AnswersKept, AgedKept, BottomKept, KeptKept DEF StoreInv
<1>2. CASE \E o \in Ops : (Call(o) \/ Step(o) \/ HangUp(o)) /\ Restart
  <2>1. PICK o \in Ops : (Call(o) \/ Step(o) \/ HangUp(o)) /\ Restart
    BY <1>2
  <2>2. ~ Call(o)
    <3>1. Call(o) => op[o] = Idle /\ ~ InFlight(o) /\ op'[o].kind \in AllKinds
      BY Begins, KindsAssumption
    <3>2. Call(o) => op'[o] = Idle
      BY <2>1, <3>1 DEF Restart
    <3> QED
      BY <3>1, <3>2, IdleType DEF AllKinds
  <2>3. op'[o].pc = "lost"
    <3>1. op'[o] = [Ending(o, None) EXCEPT !.pc = "lost"]
      BY <2>1, <2>2, Going DEF Restart
    <3> QED
      BY <3>1 DEF Ending, Idle
  <2>4. Open(o)
    BY <2>1, <2>2, <2>3, Fields
  <2>5. UNCHANGED disk /\ aged' = aged
    BY <2>4 DEF Open, env
  <2> QED
    BY <2>1, <2>5, StoreStill
<1>3. CASE SetVersioning \/ Crash \/ UNCHANGED vars
  <2>1. UNCHANGED disk /\ aged' = aged /\ (UNCHANGED op \/ Restart)
    BY <1>3 DEF SetVersioning, Crash, vars, disk
  <2> QED
    BY <2>1, StoreStill
<1>4. CASE \E o \in Ops : Age(o)
  <2>1. UNCHANGED disk /\ aged \subseteq aged' /\ UNCHANGED op
    BY <1>4 DEF Age
  <2> QED
    BY <2>1, StoreStill
<1> QED
  BY <1>1, <1>2, <1>3, <1>4 DEF Next, Act

LEMMA StoreInvariance ==
  ASSUME "complete" \notin Kinds, "Suspended" \notin Modes
  PROVE  Spec => [](IInv /\ StoreInv)
<1>1. IInv /\ StoreInv /\ [Next]_vars => (IInv /\ StoreInv)'
  BY Inductive, StoreInductive
<1> QED
  BY <1>1, Initial, StoreInitial, PTL DEF Spec

\* On a bucket that keeps its versions, a version that a client was told was stored
\* stays listed and intact, whatever calls and crashes come between, until a client
\* deletes that version or MaxVersions other calls have put one on top: putObject writes
\* the metadata last and removes only the data of a version that it drops from the list.
THEOREM Durability ==
  ASSUME "complete" \notin Kinds, "Suspended" \notin Modes
  PROVE  Spec => []Durable
<1>1. IInv /\ StoreInv => Durable
  <2> SUFFICES ASSUME StoreInv, NEW o \in Ops, Writes(o), op[o].res = "ok"
               PROVE  \/ Present(op[o].key, o)
                      \/ \E p \in Ops : op[p].kind \in {"delete", "expire"} /\ op[p].arg = o
                      \/ Cardinality(Pushers(op[o].key) \ {o}) >= MaxVersions
    BY DEF Durable, Present
  <2>1. Stacked(op[o].key) \ {o} \subseteq Pushers(op[o].key) \ {o} /\ Pushers(op[o].key) \ {o} \subseteq Ops
    BY DEF Stacked, Pushers
  <2>2. Present(op[o].key, o) \/ Gone(o)
    BY DEF StoreInv, KeptInv
  <2> QED
    BY <2>1, <2>2, Enough DEF Gone, Removes
<1> QED
  BY <1>1, StoreInvariance, PTL

\* On a bucket that keeps its versions, the lifecycle removes only what is old enough:
\* runLifecycle looks at the current version before deleteObject has the lock, and names
\* the version it saw, so that a put in between is not what it deletes.
THEOREM Expiry ==
  ASSUME "complete" \notin Kinds, "Suspended" \notin Modes
  PROVE  Spec => []ExpiresOnlyAged
<1>1. IInv /\ StoreInv => ExpiresOnlyAged
  <2> SUFFICES ASSUME IInv, StoreInv, NEW o \in Ops, op[o].kind = "expire", At(o, "drop"),
                      NEW k, k = op[o].key
               PROVE  meta[k][Find(meta[k], op[o].arg)].by \in aged
    BY DEF ExpiresOnlyAged
  <2>1. CallOK(o) /\ TypeOK /\ Holding(o) /\ Removes(o) /\ k \in Keys
    BY OpType DEF CallOK, Shape, At, Holding, Locked, Removes
  <2>2. op[o].arg \in aged /\ op[o].arg \in Ops /\ op[o].arg # None
    BY <2>1, NamesAssumption DEF StoreInv, AgedInv, TypeOK, Ids
  <2>3. PICK n \in 1 .. Len(meta[k]) : meta[k][n].id = op[o].arg
    BY <2>1, <2>2 DEF CallOK, Deleting, Marking, Removing, RemovingAt, Clearing, At
  <2>4. meta[k] \in Seq(Version) /\ UniqueIds(meta[k]) /\ Len(meta[k]) \in Nat
    BY <2>1, MetaType
  <2> DEFINE f == Find(meta[k], op[o].arg)
  <2>5. f # 0
    BY <2>2, <2>3, <2>4, FindPlace
  <2>6. f \in 1 .. Len(meta[k]) /\ meta[k][f].id = op[o].arg
    BY <2>2, <2>4, <2>5, FindPlace
  <2> HIDE DEF f
  <2>7. meta[k][f].by = op[o].arg
    BY <2>1, <2>6, OwnIds DEF StoreInv
  <2> QED
    BY <2>2, <2>7 DEF f
<1> QED
  BY <1>1, StoreInvariance, PTL

-----------------------------------------------------------------------------
(* Reads when calls are made one after the other.                          *)

Reads == {"unseal", "stat", "open"}

\* What a read has announced, and what it is about to open, is what is listed.
Serving(o) ==
  /\ op[o].pc \in Reads => \E v \in Seen(o) : op[o].todo = <<v>> /\ (At(o, "unseal") <=> v.enc)
  /\ op[o].kind = "get" =>
       /\ InFlight(o) => op[o].res = None
       /\ At(o, "head") => op[o].etag = None
       /\ op[o].pc \in Reads \cup {"look"} => \E v \in Seen(o) : op[o].etag = v.etag

\* No call carries the bytes of a file that is being written.
Whole(o) == op[o].body # Torn /\ op[o].etag # Torn

\* What a get has answered.
Told(o) ==
  op[o].kind = "get" => CASE op[o].res = "ok" -> op[o].body = op[o].etag
                          [] op[o].res = "failed" -> op[o].etag = NoBytes
                          [] op[o].res = "NoSuchKey" -> op[o].etag = None
                          [] OTHER -> TRUE

Lone == \A p, q \in Ops : InFlight(p) /\ InFlight(q) => p = q

ServeInv == Alive /\ Lone /\ \A o \in Ops : Serving(o) /\ Whole(o) /\ Told(o)

\* A call that takes a step is the only one in flight.
LEMMA OnlyOne ==
  ASSUME IInv, Lone, MaxInFlight = 1, NEW o \in Ops, Call(o) \/ Step(o) \/ HangUp(o)
  PROVE  \A p \in Ops \ {o} : ~ InFlight(p)
<1>1. CASE Step(o) \/ HangUp(o)
  BY <1>1, Going DEF Lone
<1>2. CASE Call(o)
  <2> DEFINE F == {p \in Ops : InFlight(p)}
  <2>1. Room
    BY <1>2 DEF Call, PutCall, CopyCall, CompleteCall, DeleteCall, TagCall, GetCall, ExpireCall, Made
  <2>2. IsFiniteSet(F) /\ Cardinality(F) < 1
    BY <2>1, OpsAssumption, FS_Subset DEF Room
  <2>3. Cardinality(F) = 0
    BY <2>2, FS_CardinalityType
  <2>4. F = {}
    BY <2>2, <2>3, FS_EmptySet
  <2>5. QED
    BY <2>4
<1>3. QED
  BY <1>1, <1>2

\* Calls that are not in flight have nothing left to find out.
LEMMA RestKeeps ==
  ASSUME NEW p \in Ops, Serving(p), Whole(p), Told(p), op'[p] = op[p], ~ InFlight(p)
  PROVE  Serving(p)' /\ Whole(p)' /\ Told(p)'
<1>1. op[p].pc \in {"idle", "done", "lost"}
  BY DEF InFlight, Ended
<1>2. QED
  BY <1>1 DEF Serving, Whole, Told, InFlight, Ended, At, Reads

\* The version that a read has looked up is on disk, and whole.
LEMMA SeenWhole ==
  ASSUME IInv, AliveInv, ServeInv, NEW o \in Ops, op[o].pc \in Reads \cup {"head", "look"}, NEW v \in Seen(o)
  PROVE  /\ v \in Version /\ v.etag \in Bytes \ {Torn}
         /\ data[<<op[o].key, v.id>>] = [bytes |-> v.etag, by |-> IF v.enc THEN v.by ELSE None]
<1>1. op[o].key \in Keys /\ InFlight(o) /\ ~ Holding(o)
  BY HasKey DEF IInv, At, InFlight, Ended, Holding, Locked, Reads
<1>2. \A p \in Ops : ~ Holding(p)
  BY <1>1 DEF ServeInv, Lone, Holding, Locked, InFlight, Ended
<1>3. InPlace(data, op[o].key, meta[op[o].key], {})
  BY <1>1, <1>2 DEF ServeInv, AliveInv, FilesOK, Free
<1>4. v \in Version /\ ~ v.del /\ VersionOK(op[o].key, v)
  BY <1>1, SeenPlace
<1>5. PICK n \in 1 .. Len(meta[op[o].key]) : v = meta[op[o].key][n]
  <2> DEFINE om == meta[op[o].key]
             n  == Find(om, op[o].arg)
  <2>1. om \in Seq(Version) /\ n \in 0 .. Len(om)
    BY <1>1, MetaType, FindPlace
  <2>2. n # 0 /\ v = om[n]
    BY DEF Seen
  <2>3. QED
    BY <2>1, <2>2
<1>6. v.etag \in Bytes \ {Torn}
  BY <1>4 DEF VersionOK, ServeInv, Whole, Version
<1>7. Right(data, op[o].key, v)
  BY <1>3, <1>4, <1>5 DEF InPlace
<1>8. QED
  BY <1>4, <1>6, <1>7 DEF Right

\* What a read has looked up is one version.
LEMMA SeenOne ==
  ASSUME NEW o \in Ops, NEW v \in Seen(o), NEW w \in Seen(o)
  PROVE  v = w
BY DEF Seen

\* A call is made: it carries what it was given.
LEMMA CallServes ==
  ASSUME IInv, NEW o \in Ops, Call(o)
  PROVE  Serving(o)' /\ Whole(o)' /\ Told(o)' /\ ~ At(o, "lost")'
<1> DEFINE New(r) == /\ r.res = None /\ r.etag = None /\ r.body # Torn /\ r.pc \notin Reads \cup {"done", "lost"}
                     /\ r.kind = "get" => r.pc = "head"
<1>1. \E r : Becomes(o, r) /\ New(r)
  <2>1. CASE PutCall(o)
    <3>1. PICK k \in Keys, e \in Encs, b \in {o} \cup Empties :
            Made(o, [Idle EXCEPT !.kind = "put", !.key = k, !.enc = e, !.body = b, !.pc = "queued"])
      BY <2>1 DEF PutCall
    <3>2. New([Idle EXCEPT !.kind = "put", !.key = k, !.enc = e, !.body = b, !.pc = "queued"])
      BY NamesAssumption, EmptiesAssumption DEF Idle, Reads
    <3>3. QED
      BY <3>1, <3>2 DEF Made
  <2>2. CASE CopyCall(o)
    <3>1. PICK k \in Keys : Made(o, [Idle EXCEPT !.kind = "copy", !.key = k, !.pc = "look"])
      BY <2>2 DEF CopyCall
    <3>2. New([Idle EXCEPT !.kind = "copy", !.key = k, !.pc = "look"])
      BY NamesAssumption DEF Idle, Reads, Bytes
    <3>3. QED
      BY <3>1, <3>2 DEF Made
  <2>3. CASE CompleteCall(o)
    <3>1. PICK k \in Keys, e \in Encs, b \in {o} \cup Empties :
            Made(o, [Idle EXCEPT !.kind = "complete", !.key = k, !.enc = e, !.body = b,
                                 !.mode = versioning, !.pc = "stream"])
      BY <2>3 DEF CompleteCall
    <3>2. New([Idle EXCEPT !.kind = "complete", !.key = k, !.enc = e, !.body = b,
                           !.mode = versioning, !.pc = "stream"])
      BY NamesAssumption, EmptiesAssumption DEF Idle, Reads
    <3>3. QED
      BY <3>1, <3>2 DEF Made
  <2>4. CASE DeleteCall(o)
    <3>1. PICK k \in Keys : \E i \in Known(k) : Made(o, [Idle EXCEPT !.kind = "delete", !.key = k, !.arg = i, !.pc = "ask"])
      BY <2>4 DEF DeleteCall
    <3>2. \A i : New([Idle EXCEPT !.kind = "delete", !.key = k, !.arg = i, !.pc = "ask"])
      BY NamesAssumption DEF Idle, Reads, Bytes
    <3>3. QED
      BY <3>1, <3>2 DEF Made
  <2>5. CASE TagCall(o)
    <3>1. PICK k \in Keys : \E i \in Known(k) : Made(o, [Idle EXCEPT !.kind = "tag", !.key = k, !.arg = i, !.pc = "queued"])
      BY <2>5 DEF TagCall
    <3>2. \A i : New([Idle EXCEPT !.kind = "tag", !.key = k, !.arg = i, !.pc = "queued"])
      BY NamesAssumption DEF Idle, Reads, Bytes
    <3>3. QED
      BY <3>1, <3>2 DEF Made
  <2>6. CASE GetCall(o)
    <3>1. PICK k \in Keys : \E i \in Known(k) : Made(o, [Idle EXCEPT !.kind = "get", !.key = k, !.arg = i, !.pc = "head"])
      BY <2>6 DEF GetCall
    <3>2. \A i : New([Idle EXCEPT !.kind = "get", !.key = k, !.arg = i, !.pc = "head"])
      BY NamesAssumption DEF Idle, Reads, Bytes
    <3>3. QED
      BY <3>1, <3>2 DEF Made
  <2>7. CASE ExpireCall(o)
    <3>1. PICK k \in Keys : Made(o, [Idle EXCEPT !.kind = "expire", !.key = k, !.mode = versioning, !.pc = "scan"])
      BY <2>7 DEF ExpireCall
    <3>2. New([Idle EXCEPT !.kind = "expire", !.key = k, !.mode = versioning, !.pc = "scan"])
      BY NamesAssumption DEF Idle, Reads, Bytes
    <3>3. QED
      BY <3>1, <3>2 DEF Made
  <2>8. QED
    BY <2>1, <2>2, <2>3, <2>4, <2>5, <2>6, <2>7 DEF Call
<1>2. PICK r : Becomes(o, r) /\ New(r)
  BY <1>1
<1>3. op'[o] = r
  BY <1>2, Turn
<1>4. QED
  BY <1>2, <1>3, NamesAssumption DEF Serving, Whole, Told, At, Reads, Bytes

\* What a call has in its hands after it has ended is what it had before.
LEMMA EndWhole ==
  ASSUME IInv, NEW o \in Ops, Whole(o), NEW res, Finish(o, res)
  PROVE  Whole(o)'
<1>1. op'[o] = Ending(o, res)
  BY OpType DEF TypeOK, Finish
<1>2. Ending(o, res).body = op[o].body /\ Ending(o, res).etag = op[o].etag
  BY DEF Ending, Idle
<1>3. QED
  BY <1>1, <1>2 DEF Whole

LEMMA TurnWhole ==
  ASSUME IInv, NEW o \in Ops, NEW r, Becomes(o, r), r.body # Torn, r.etag # Torn
  PROVE  Whole(o)'
BY Turn DEF Whole

\* The other calls carry what they were given, and its MD5.
LEMMA StaysWhole ==
  ASSUME IInv, "complete" \notin Kinds, NEW o \in Ops, Whole(o), Step(o) \/ HangUp(o),
         ~ (GetHead(o) \/ GetLook(o) \/ Unseal(o) \/ Stat(o) \/ Open(o))
  PROVE  Whole(o)'
<1>1. op[o] \in CallState /\ CallOK(o) /\ op[o].body # Torn /\ op[o].etag # Torn /\ op[o].kind # "complete"
  BY OpType, KindsAssumption DEF Whole, CallState
<1>2. \A m, pc : LET r == [op[o] EXCEPT !.mode = m, !.pc = pc] IN r.body = op[o].body /\ r.etag = op[o].etag
  BY <1>1 DEF CallState
<1>3. \A s, t, pc : /\ LET r == [op[o] EXCEPT !.om = s, !.todo = t, !.pc = pc]
                       IN  r.body = op[o].body /\ r.etag = op[o].etag
                    /\ LET r == [op[o] EXCEPT !.om = s, !.pc = pc]
                       IN  r.body = op[o].body /\ r.etag = op[o].etag
                    /\ LET r == [op[o] EXCEPT !.todo = t, !.pc = pc]
                       IN  r.body = op[o].body /\ r.etag = op[o].etag
  BY <1>1 DEF CallState
<1>4. ASSUME NEW t, NEW m, NEW pc,
              \/ Becomes(o, [op[o] EXCEPT !.om = t, !.todo = m, !.pc = pc])
              \/ Becomes(o, [op[o] EXCEPT !.om = t, !.pc = pc])
              \/ Becomes(o, [op[o] EXCEPT !.todo = m, !.pc = pc])
       PROVE  Whole(o)'
  <2>1. CASE Becomes(o, [op[o] EXCEPT !.om = t, !.todo = m, !.pc = pc])
    <3> DEFINE r == [op[o] EXCEPT !.om = t, !.todo = m, !.pc = pc]
    <3>1. Becomes(o, r) /\ r.body = op[o].body /\ r.etag = op[o].etag
      BY <1>3, <2>1
    <3> HIDE DEF r
    <3>2. QED
      BY <1>1, <3>1, TurnWhole
  <2>2. CASE Becomes(o, [op[o] EXCEPT !.om = t, !.pc = pc])
    <3> DEFINE r == [op[o] EXCEPT !.om = t, !.pc = pc]
    <3>1. Becomes(o, r) /\ r.body = op[o].body /\ r.etag = op[o].etag
      BY <1>3, <2>2
    <3> HIDE DEF r
    <3>2. QED
      BY <1>1, <3>1, TurnWhole
  <2>3. CASE Becomes(o, [op[o] EXCEPT !.todo = m, !.pc = pc])
    <3> DEFINE r == [op[o] EXCEPT !.todo = m, !.pc = pc]
    <3>1. Becomes(o, r) /\ r.body = op[o].body /\ r.etag = op[o].etag
      BY <1>3, <2>3
    <3> HIDE DEF r
    <3>2. QED
      BY <1>1, <3>1, TurnWhole
  <2>4. QED
    BY <1>4, <2>1, <2>2, <2>3
<1>5. CASE Acquire(o) \/ StreamEnd(o) \/ SealEnd(o) \/ WriteMeta(o) \/ HangUp(o)
  <2>1. \A pc : LET r == [op[o] EXCEPT !.pc = pc] IN r.body = op[o].body /\ r.etag = op[o].etag
    BY <1>1 DEF CallState
  <2>2. LET r == [op[o] EXCEPT !.gone = TRUE] IN r.body = op[o].body /\ r.etag = op[o].etag
    BY <1>1 DEF CallState
  <2>3. QED
    BY <1>1, <1>5, <2>1, <2>2, TurnWhole DEF Acquire, StreamEnd, SealEnd, WriteMeta, HangUp
<1>6. CASE PutOpen(o) \/ DeleteAsk(o)
  BY <1>1, <1>2, <1>6, TurnWhole DEF PutOpen, DeleteAsk
<1>7. CASE StreamFail(o) \/ RenameMeta(o) \/ RemoveMeta(o)
  BY <1>7, EndWhole DEF StreamFail, RenameMeta, RemoveMeta
<1>8. CASE Hash(o)
  <2>1. tmp[OwnFile(o)].bytes = op[o].body
    BY <1>1, <1>8 DEF Hash, CallOK, Putting, At
  <2>2. LET r == [op[o] EXCEPT !.etag = tmp[OwnFile(o)].bytes, !.pc = "read"]
        IN  r.body = op[o].body /\ r.etag = op[o].body
    BY <1>1, <2>1 DEF CallState
  <2>3. QED
    BY <1>1, <1>8, <2>2, EndWhole, TurnWhole DEF Hash
<1>9. CASE ReadMeta(o) \/ DropData(o)
  <2>1. \/ \E s, t, pc : Becomes(o, [op[o] EXCEPT !.om = s, !.todo = t, !.pc = pc])
        \/ \E t, pc : Becomes(o, [op[o] EXCEPT !.todo = t, !.pc = pc])
    BY <1>9 DEF ReadMeta, DropData
  <2>2. QED
    BY <1>4, <2>1
<1>10. CASE Swap(o) \/ CleanTmp(o)
  <2>1. Listed(o).body = op[o].body /\ Listed(o).etag = op[o].etag
    BY <1>3 DEF Listed
  <2>2. QED
    BY <1>1, <1>10, <2>1, EndWhole, TurnWhole DEF Swap, CleanTmp
<1>11. CASE SealOpen(o)
  <2>1. tmp[OwnFile(o)].bytes = op[o].body
    BY <1>1, <1>11 DEF SealOpen, CallOK, Putting, At
  <2>2. LET r == [op[o] EXCEPT !.body = tmp[OwnFile(o)].bytes, !.pc = "seal"]
        IN  r.body = op[o].body /\ r.etag = op[o].etag
    BY <1>1, <2>1 DEF CallState
  <2>3. QED
    BY <1>1, <1>11, <2>2, EndWhole, TurnWhole DEF SealOpen
<1>12. CASE TagRead(o) \/ DeleteRead(o)
  <2>1. \/ \E res : Finish(o, res)
        \/ \E s, t, pc : Becomes(o, [op[o] EXCEPT !.om = s, !.todo = t, !.pc = pc])
        \/ \E s, pc : Becomes(o, [op[o] EXCEPT !.om = s, !.pc = pc])
    BY <1>12 DEF TagRead, DeleteRead
  <2>2. QED
    BY <1>4, <2>1, EndWhole
<1>13. CASE ExpireScan(o)
  <2>1. \A a : LET r == [op[o] EXCEPT !.arg = a, !.pc = "ask"] IN r.body = op[o].body /\ r.etag = op[o].etag
    BY <1>1 DEF CallState
  <2>2. Ending(o, "ok").body = op[o].body /\ Ending(o, "ok").etag = op[o].etag
    BY DEF Ending, Idle
  <2>3. \E r : Becomes(o, r) /\ r.body = op[o].body /\ r.etag = op[o].etag
    BY <1>13, <2>1, <2>2 DEF ExpireScan
  <2>4. QED
    BY <1>1, <2>3, TurnWhole
<1>14. QED
  BY <1>5, <1>6, <1>7, <1>8, <1>9, <1>10, <1>11, <1>12, <1>13 DEF Step

\* Calls that do not read stay calls that do not read.
LEMMA OthersServe ==
  ASSUME IInv, "complete" \notin Kinds, NEW o \in Ops, Whole(o), Step(o) \/ HangUp(o),
         ~ (GetHead(o) \/ GetLook(o) \/ Unseal(o) \/ Stat(o) \/ Open(o))
  PROVE  Serving(o)' /\ Whole(o)' /\ Told(o)' /\ ~ At(o, "lost")'
<1>1. op[o].pc \in Locked \cup {"queued", "ask", "scan"}
  BY DEF Step, Acquire, PutOpen, StreamEnd, StreamFail, Hash, ReadMeta, Swap, SealOpen, SealEnd, CleanTmp,
         DropData, WriteMeta, RenameMeta, RemoveMeta, DeleteAsk, DeleteRead, TagRead, ExpireScan, HangUp, At, Locked
<1>2. op[o].kind # "get"
  BY <1>1, OpType DEF CallOK, Shape, Holding, Removes, At
<1>3. op'[o].kind # "get" /\ op'[o].pc # "lost"
  BY <1>2, Fields
<1>4. op'[o].pc \notin Reads
  <2>1. CASE Holding(o)
    <3>1. Holding(o)' \/ Ended(o)'
      BY <2>1, Fields
    <3>2. QED
      BY <3>1 DEF Holding, Ended, Locked, Reads
  <2>2. CASE ~ Holding(o)
    <3>1. Acquire(o) \/ DeleteAsk(o) \/ ExpireScan(o) \/ HangUp(o)
      BY <1>1, <2>2 DEF Step, PutOpen, StreamEnd, StreamFail, Hash, ReadMeta, Swap, SealOpen, SealEnd, CleanTmp,
         DropData, WriteMeta, RenameMeta, RemoveMeta, DeleteRead, TagRead, At, Holding, Locked
    <3>2. op[o] \in CallState
      BY OpType
    <3>3. \E r : Becomes(o, r) /\ r.pc \in {"held", "queued", "ask", "done"}
      <4>1. CASE Acquire(o) \/ DeleteAsk(o)
        <5>1. /\ [op[o] EXCEPT !.pc = "held"].pc = "held"
              /\ [op[o] EXCEPT !.mode = versioning, !.pc = "queued"].pc = "queued"
          BY <3>2 DEF CallState
        <5>2. QED
          BY <4>1, <5>1 DEF Acquire, DeleteAsk
      <4>2. CASE ExpireScan(o)
        <5>1. \A a : [op[o] EXCEPT !.arg = a, !.pc = "ask"].pc = "ask"
          BY <3>2 DEF CallState
        <5>2. Ending(o, "ok").pc = "done"
          BY EndKey
        <5>3. QED
          BY <4>2, <5>1, <5>2 DEF ExpireScan
      <4>3. CASE HangUp(o)
        <5>1. [op[o] EXCEPT !.gone = TRUE].pc = op[o].pc
          BY <3>2 DEF CallState
        <5>2. QED
          BY <4>3, <5>1 DEF HangUp
      <4>4. QED
        BY <3>1, <4>1, <4>2, <4>3
    <3>4. QED
      BY <3>3, Turn DEF Reads
  <2>3. QED
    BY <2>1, <2>2
<1>5. Whole(o)'
  BY StaysWhole
<1>6. QED
  BY <1>3, <1>4, <1>5 DEF Serving, Told, At

\* The reads.  The lookup of getObject finds the version that headObject announced.
LEMMA HeadServes ==
  ASSUME IInv, AliveInv, ServeInv, NEW o \in Ops, GetHead(o)
  PROVE  Serving(o)' /\ Whole(o)' /\ Told(o)' /\ ~ At(o, "lost")'
<1>1. op[o] \in CallState /\ At(o, "head") /\ Serving(o) /\ Whole(o) /\ op[o].kind = "get" /\ UNCHANGED meta
  BY OpType DEF GetHead, CallOK, Shape, ServeInv, disk, At
<1>2. op[o].res = None /\ op[o].etag = None
  BY <1>1 DEF Serving, InFlight, Ended, At
<1>3. CASE Finish(o, "NoSuchKey")
  <2>1. op'[o].pc = "done" /\ op'[o].res = "NoSuchKey" /\ op'[o].etag = None
    <3>1. op'[o] = Ending(o, "NoSuchKey")
      BY <1>3, OpType DEF TypeOK, Finish
    <3>2. QED
      BY <1>2, <3>1, EndKey
  <2>2. Whole(o)'
    BY <1>1, <1>3, EndWhole
  <2>3. QED
    BY <2>1, <2>2 DEF Serving, Told, InFlight, Ended, At, Reads
<1>4. CASE \E v \in Seen(o) : Becomes(o, [op[o] EXCEPT !.etag = v.etag, !.pc = "look"])
  <2>1. PICK v \in Seen(o) : Becomes(o, [op[o] EXCEPT !.etag = v.etag, !.pc = "look"])
    BY <1>4
  <2>2. v.etag \in Bytes \ {Torn}
    BY <1>1, SeenWhole DEF At
  <2> DEFINE r == [op[o] EXCEPT !.etag = v.etag, !.pc = "look"]
  <2>3. /\ op'[o] = r /\ r.pc = "look" /\ r.etag = v.etag /\ r.body = op[o].body /\ r.res = None
        /\ r.key = op[o].key /\ r.arg = op[o].arg
    BY <1>1, <1>2, <2>1, Turn DEF CallState
  <2> HIDE DEF r
  <2>4. v \in Seen(o)'
    BY <1>1, <2>3 DEF Seen
  <2>5. Whole(o)'
    BY <1>1, <2>2, <2>3 DEF Whole
  <2>6. Told(o)'
    BY <2>3, NamesAssumption DEF Told
  <2>7. QED
    BY <2>3, <2>4, <2>5, <2>6 DEF Serving, At, Reads
<1>5. QED
  BY <1>3, <1>4 DEF GetHead

LEMMA LookServes ==
  ASSUME IInv, AliveInv, ServeInv, NEW o \in Ops, GetLook(o)
  PROVE  Serving(o)' /\ Whole(o)' /\ Told(o)' /\ ~ At(o, "lost")'
<1>1. op[o] \in CallState /\ At(o, "look") /\ Serving(o) /\ Whole(o) /\ UNCHANGED meta
      /\ op[o].kind \in {"get", "copy"}
  BY OpType DEF GetLook, CallOK, Shape, ServeInv, disk, At
<1>2. op[o].kind = "get" => op[o].res = None /\ \E v \in Seen(o) : op[o].etag = v.etag
  BY <1>1 DEF Serving, InFlight, Ended, At
<1>3. CASE Seen(o) = {} /\ Finish(o, "NoSuchKey")
  <2>1. op[o].kind = "copy"
    BY <1>1, <1>2, <1>3
  <2>2. op'[o].pc = "done" /\ op'[o].kind = "copy"
    BY <1>3, <2>1, Ends
  <2>3. Whole(o)'
    BY <1>1, <1>3, EndWhole
  <2>4. QED
    BY <2>2, <2>3 DEF Serving, Told, At, Reads
<1>4. CASE \E v \in Seen(o) : Becomes(o, [op[o] EXCEPT !.todo = <<v>>, !.pc = IF v.enc THEN "unseal" ELSE "stat"])
  <2>1. PICK v \in Seen(o) : Becomes(o, [op[o] EXCEPT !.todo = <<v>>, !.pc = IF v.enc THEN "unseal" ELSE "stat"])
    BY <1>4
  <2> DEFINE r == [op[o] EXCEPT !.todo = <<v>>, !.pc = IF v.enc THEN "unseal" ELSE "stat"]
  <2>2. /\ op'[o] = r /\ r.pc = (IF v.enc THEN "unseal" ELSE "stat") /\ r.todo = <<v>> /\ r.etag = op[o].etag
        /\ r.body = op[o].body /\ r.res = op[o].res /\ r.key = op[o].key /\ r.arg = op[o].arg /\ r.kind = op[o].kind
    BY <1>1, <2>1, Turn DEF CallState
  <2> HIDE DEF r
  <2>3. v \in Seen(o)'
    BY <1>1, <2>1, <2>2 DEF Seen
  <2>4. op[o].kind = "get" => op[o].etag = v.etag
    BY <1>2, SeenOne
  <2>5. Whole(o)'
    BY <1>1, <2>2 DEF Whole
  <2>6. Told(o)'
    BY <1>2, <2>2, NamesAssumption DEF Told
  <2>7. QED
    BY <1>2, <2>2, <2>3, <2>4, <2>5, <2>6 DEF Serving, At, Reads
<1>5. QED
  BY <1>3, <1>4 DEF GetLook

\* What a read has looked up it finds on disk.
LEMMA Finds ==
  ASSUME IInv, AliveInv, ServeInv, NEW o \in Ops, op[o].pc \in Reads
  PROVE  \E v \in Seen(o) :
           /\ Head(op[o].todo) = v /\ op[o].todo = <<v>> /\ (At(o, "unseal") <=> v.enc)
           /\ op[o].kind = "get" => op[o].res = None /\ op[o].etag = v.etag
           /\ data[Source(o)] = [bytes |-> v.etag, by |-> IF v.enc THEN v.by ELSE None]
           /\ data[Source(o)] # None /\ v.etag \in Bytes \ {Torn}
<1>1. PICK v \in Seen(o) : op[o].todo = <<v>> /\ (At(o, "unseal") <=> v.enc)
  BY DEF ServeInv, Serving
<1>2. op[o].kind = "get" => op[o].res = None /\ op[o].etag = v.etag
  BY SeenOne DEF ServeInv, Serving, InFlight, Ended, Reads
<1>3. Head(op[o].todo) = v /\ Source(o) = <<op[o].key, v.id>>
  BY <1>1 DEF Source
<1>4. /\ v.etag \in Bytes \ {Torn} /\ v \in Version
      /\ data[Source(o)] = [bytes |-> v.etag, by |-> IF v.enc THEN v.by ELSE None]
  BY <1>3, SeenWhole
<1>5. data[Source(o)] # None
  <2>1. data[Source(o)] \in DataFile
    BY <1>4 DEF DataFile, Version
  <2>2. QED
    BY <2>1, NamesAssumption
<1>6. QED
  BY <1>1, <1>2, <1>3, <1>4, <1>5

LEMMA StatServes ==
  ASSUME IInv, AliveInv, ServeInv, NEW o \in Ops, Stat(o)
  PROVE  Serving(o)' /\ Whole(o)' /\ Told(o)' /\ ~ At(o, "lost")'
<1>1. op[o] \in CallState /\ At(o, "stat") /\ Whole(o) /\ UNCHANGED meta
  BY OpType DEF Stat, ServeInv, disk
<1>2. PICK v \in Seen(o) : /\ op[o].todo = <<v>> /\ (At(o, "unseal") <=> v.enc)
                           /\ op[o].kind = "get" => op[o].res = None /\ op[o].etag = v.etag
                           /\ data[Source(o)] = [bytes |-> v.etag, by |-> IF v.enc THEN v.by ELSE None]
                           /\ data[Source(o)] # None
  BY <1>1, Finds DEF At, Reads
<1>b. data[Source(o)].bytes = v.etag
  BY <1>2
<1>3. CASE Finish(o, "failed") /\ v.etag = NoBytes
  <2>1. op'[o] = Ending(o, "failed")
    BY <1>3, OpType DEF TypeOK, Finish
  <2>2. op'[o].pc = "done" /\ op'[o].res = "failed" /\ op'[o].etag = op[o].etag /\ op'[o].kind = op[o].kind
    BY <2>1, EndKey
  <2>3. Whole(o)'
    BY <1>1, <1>3, EndWhole
  <2>4. QED
    BY <1>2, <1>3, <2>2, <2>3 DEF Serving, Told, InFlight, Ended, At, Reads
<1>4. CASE Becomes(o, [op[o] EXCEPT !.pc = "open"])
  <2> DEFINE r == [op[o] EXCEPT !.pc = "open"]
  <2>1. /\ op'[o] = r /\ r.pc = "open" /\ r.todo = op[o].todo /\ r.etag = op[o].etag /\ r.body = op[o].body
        /\ r.res = op[o].res /\ r.key = op[o].key /\ r.arg = op[o].arg /\ r.kind = op[o].kind
    BY <1>1, <1>4, Turn DEF CallState
  <2> HIDE DEF r
  <2>2. v \in Seen(o)' /\ ~ v.enc
    BY <1>1, <1>2, <2>1 DEF Seen, At
  <2>3. Whole(o)'
    BY <1>1, <2>1 DEF Whole
  <2>4. Told(o)'
    BY <1>2, <2>1, NamesAssumption DEF Told
  <2>5. QED
    BY <1>2, <2>1, <2>2, <2>3, <2>4 DEF Serving, At, Reads
<1>5. QED
  BY <1>2, <1>3, <1>4, <1>b DEF Stat

\* A read that has the bytes of what it announced answers them, or copies them.
LEMMA ServedServes ==
  ASSUME IInv, NEW o \in Ops, Whole(o), NEW b, b # Torn, Served(o, b), op[o].kind = "get" => op[o].etag = b
  PROVE  Serving(o)' /\ Whole(o)' /\ Told(o)' /\ ~ At(o, "lost")'
<1>1. op[o] \in CallState
  BY OpType
<1>2. CASE op[o].kind = "get"
  <2> DEFINE r == [Ending(o, "ok") EXCEPT !.body = b]
  <2>1. op'[o] = r
    BY <1>2, OpType DEF Served, TypeOK
  <2>2. r.pc = "done" /\ r.res = "ok" /\ r.body = b /\ r.etag = op[o].etag
    BY DEF Ending, Idle
  <2> HIDE DEF r
  <2>3. QED
    BY <1>2, <2>1, <2>2 DEF Serving, Whole, Told, InFlight, Ended, At, Reads
<1>3. CASE op[o].kind # "get"
  <2>1. PICK k \in Keys, e \in Encs :
          Becomes(o, [op[o] EXCEPT !.key = k, !.enc = e, !.body = b, !.todo = <<>>, !.pc = "queued"])
    BY <1>3 DEF Served
  <2> DEFINE r == [op[o] EXCEPT !.key = k, !.enc = e, !.body = b, !.todo = <<>>, !.pc = "queued"]
  <2>2. op'[o] = r /\ r.pc = "queued" /\ r.body = b /\ r.etag = op[o].etag /\ r.kind = op[o].kind
    BY <1>1, <2>1, Turn DEF CallState
  <2> HIDE DEF r
  <2>3. QED
    BY <1>3, <2>2 DEF Serving, Whole, Told, At, Reads
<1>4. QED
  BY <1>2, <1>3

LEMMA OpenServes ==
  ASSUME IInv, AliveInv, ServeInv, NEW o \in Ops, Unseal(o) \/ Open(o)
  PROVE  Serving(o)' /\ Whole(o)' /\ Told(o)' /\ ~ At(o, "lost")'
<1>1. op[o].pc \in Reads /\ Whole(o)
  BY DEF Unseal, Open, ServeInv, At, Reads
<1>2. PICK v \in Seen(o) :
           /\ Head(op[o].todo) = v /\ (At(o, "unseal") <=> v.enc)
           /\ op[o].kind = "get" => op[o].res = None /\ op[o].etag = v.etag
           /\ data[Source(o)] = [bytes |-> v.etag, by |-> IF v.enc THEN v.by ELSE None]
           /\ data[Source(o)] # None /\ v.etag \in Bytes \ {Torn}
  BY <1>1, Finds
<1>3. data[Source(o)].bytes = v.etag /\ (v.enc => data[Source(o)].by = v.by)
  BY <1>2
<1>4. CASE Served(o, data[Source(o)].bytes)
  BY <1>1, <1>2, <1>3, <1>4, ServedServes
<1>5. QED
  BY <1>2, <1>3, <1>4 DEF Unseal, Open

LEMMA ServeInductive ==
  ASSUME IInv, AliveInv, ServeInv, "complete" \notin Kinds, MaxInFlight = 1, MaxCrashes = 0, [Next]_vars
  PROVE  ServeInv'
<1>1. ASSUME NEW o \in Ops, Call(o) \/ Step(o) \/ HangUp(o)
      PROVE  ServeInv'
  <2>1. Whole(o)
    BY DEF ServeInv
  <2>2. Serving(o)' /\ Whole(o)' /\ Told(o)' /\ ~ At(o, "lost")'
    BY <1>1, <2>1, CallServes, OthersServe, HeadServes, LookServes, StatServes, OpenServes
  <2>3. ~ Restart
    <3>1. op[o].pc # "idle" \/ Call(o)
      BY <1>1, Going DEF InFlight
    <3>2. ASSUME Restart, InFlight(o) PROVE FALSE
      <4>1. op'[o] = [Ending(o, None) EXCEPT !.pc = "lost"]
        BY <3>2 DEF Restart
      <4>2. op'[o].pc = "lost"
        BY <4>1 DEF Ending, Idle
      <4>3. QED
        BY <2>2, <4>2 DEF At
    <3>3. ASSUME Restart, Call(o) PROVE FALSE
      <4>1. op[o] = Idle /\ ~ InFlight(o) /\ op'[o].kind \in Kinds
        BY <3>3, Begins
      <4>2. op'[o] = op[o]
        BY <3>3, <4>1 DEF Restart
      <4>3. QED
        BY <4>1, <4>2, IdleType, KindsAssumption DEF AllKinds
    <3>4. QED
      BY <1>1, <3>2, <3>3, Going
  <2>4. \A p \in Ops \ {o} : op'[p] = op[p]
    BY <1>1, <2>3, OneCall DEF Act
  <2>5. \A p \in Ops \ {o} : ~ InFlight(p)
    BY <1>1, OnlyOne DEF ServeInv
  <2>6. \A p \in Ops \ {o} : Serving(p)' /\ Whole(p)' /\ Told(p)'
    BY <2>4, <2>5, RestKeeps DEF ServeInv
  <2>7. Lone'
    BY <2>4, <2>5 DEF Lone, InFlight, Ended
  <2>8. Alive'
    BY <2>2, <2>4 DEF ServeInv, Alive, At
  <2>9. QED
    BY <2>2, <2>6, <2>7, <2>8 DEF ServeInv
<1>2. CASE UNCHANGED <<disk, op>>
  <2>1. Alive' /\ Lone'
    BY <1>2 DEF ServeInv, Alive, Lone, InFlight, Ended, At
  <2>2. \A o \in Ops : Serving(o)' /\ Whole(o)' /\ Told(o)'
    BY <1>2 DEF ServeInv, Serving, Whole, Told, Seen, InFlight, Ended, At, disk
  <2>3. QED
    BY <2>1, <2>2 DEF ServeInv
<1>3. ~ Crash
  BY DEF Crash, IInv, TypeOK
<1>4. CASE SetVersioning \/ (\E o \in Ops : Age(o)) \/ UNCHANGED vars
  BY <1>2, <1>4 DEF SetVersioning, Age, vars, disk
<1>5. QED
  BY <1>1, <1>3, <1>4 DEF Next

LEMMA ServeInitial == Init => ServeInv
<1>1. ASSUME Init, NEW o \in Ops
      PROVE  op[o] = Idle /\ Idle.body = None
  BY <1>1 DEF Init, Idle
<1>2. QED
  BY <1>1, IdleType, NamesAssumption
     DEF ServeInv, Alive, Lone, Serving, Whole, Told, InFlight, Ended, At, Reads, Bytes

\* When calls are made one after the other and the process is not killed, a GET
\* serves what is listed: getObject finds the version that headObject announced, its
\* file is there and whole, and only an empty one fails.
THEOREM Serves ==
  ASSUME "complete" \notin Kinds, MaxInFlight = 1, MaxCrashes = 0
  PROVE  Spec => []ReadsServe
<1>1. IInv /\ AliveInv /\ ServeInv /\ [Next]_vars => ServeInv'
  BY ServeInductive
<1>2. ServeInv => ReadsServe
  BY DEF ServeInv, Told, ReadsServe
<1>3. QED
  BY <1>1, <1>2, ServeInitial, AliveInvariance, PTL DEF Spec
=============================================================================
