--------------------------- MODULE ListingProofs ---------------------------
(***************************************************************************)
(* Proofs about Listing for any keys, prefixes, delimiters and page sizes, *)
(* and any changes of the bucket: its inductive invariant IInv, and that a *)
(* session of pages misses nothing and answers nothing twice.              *)
(***************************************************************************)
EXTENDS Listing, WellFoundedInduction, NaturalsInduction, TLAPS

-----------------------------------------------------------------------------
(* The order of keys.                                                      *)

\* A nonempty set of numbers has a smallest one.
LEMMA Smallest ==
  ASSUME NEW S \in SUBSET Nat, S # {}
  PROVE  \E n \in S : \A m \in S : n <= m
<1> DEFINE R == {p \in Nat \X Nat : p[1] < p[2]}
<1>1. IsWellFoundedOn(R, Nat)
  BY NatLessThanWellFounded, Zenon DEF OpToRel
<1>2. PICK n \in S : \A m \in S : ~ (<<m, n>> \in R)
  BY <1>1, WFMin
<1>3. \A m \in S : m \in Nat /\ n \in Nat /\ ~ (m < n)
  BY <1>2
<1>4. QED
  BY <1>2, <1>3

\* a is less than b at place i: up to there they agree, and there a has ended or
\* has a smaller number.
At(a, b, i) ==
  /\ i \in 1 .. Len(b) /\ i <= Len(a) + 1
  /\ \A j \in 1 .. i - 1 : a[j] = b[j]
  /\ i <= Len(a) => a[i] < b[i]

\* A prefix, element by element.
LEMMA PrefixAt ==
  ASSUME NEW a \in Seq(Nat), NEW b \in Seq(Nat)
  PROVE  IsPrefix(a, b) <=> Len(a) <= Len(b) /\ \A j \in 1 .. Len(a) : a[j] = b[j]
<1>1. ASSUME Len(a) <= Len(b), \A j \in 1 .. Len(a) : a[j] = b[j]
      PROVE  SubSeq(a, 1, Len(a)) = SubSeq(b, 1, Len(a))
  BY <1>1
<1>2. ASSUME Len(a) <= Len(b), SubSeq(a, 1, Len(a)) = SubSeq(b, 1, Len(a)), NEW j \in 1 .. Len(a)
      PROVE  a[j] = b[j]
  <2>1. SubSeq(a, 1, Len(a))[j] = a[j] /\ SubSeq(b, 1, Len(a))[j] = b[j]
    BY <1>2
  <2>2. QED
    BY <1>2, <2>1
<1>3. QED
  BY <1>1, <1>2 DEF IsPrefix

\* Sequences that agree everywhere are equal.
LEMMA SameSeq ==
  ASSUME NEW a \in Seq(Nat), NEW b \in Seq(Nat), Len(a) = Len(b),
         \A j \in 1 .. Len(a) : a[j] = b[j]
  PROVE  a = b
OBVIOUS

\* Less is At some place.
LEMMA LessAt ==
  ASSUME NEW a \in Seq(Nat), NEW b \in Seq(Nat)
  PROVE  Less(a, b) <=> \E i \in Nat : At(a, b, i)
<1>1. ASSUME IsStrictPrefix(a, b)
      PROVE  \E i \in Nat : At(a, b, i)
  <2>1. Len(a) <= Len(b) /\ (\A j \in 1 .. Len(a) : a[j] = b[j]) /\ a # b
    BY <1>1, PrefixAt DEF IsStrictPrefix
  <2>2. Len(a) # Len(b)
    BY <2>1, SameSeq
  <2>3. At(a, b, Len(a) + 1) /\ Len(a) + 1 \in Nat
    BY <2>1, <2>2 DEF At
  <2>4. QED
    BY <2>3
<1>2. ASSUME NEW i \in DOMAIN a \cap DOMAIN b, a[i] < b[i], SubSeq(a, 1, i - 1) = SubSeq(b, 1, i - 1)
      PROVE  At(a, b, i) /\ i \in Nat
  <2>1. i \in 1 .. Len(a) /\ i \in 1 .. Len(b)
    OBVIOUS
  <2>2. ASSUME NEW j \in 1 .. i - 1
        PROVE  a[j] = b[j]
    <3>1. SubSeq(a, 1, i - 1)[j] = a[j] /\ SubSeq(b, 1, i - 1)[j] = b[j]
      BY <2>1
    <3>2. QED
      BY <1>2, <3>1
  <2>3. QED
    BY <1>2, <2>1, <2>2 DEF At
<1>3. ASSUME NEW i \in Nat, At(a, b, i), i > Len(a)
      PROVE  IsStrictPrefix(a, b)
  <2>1. i = Len(a) + 1 /\ Len(a) < Len(b) /\ \A j \in 1 .. Len(a) : a[j] = b[j]
    BY <1>3 DEF At
  <2>2. a # b
    BY <2>1
  <2>3. QED
    BY <2>1, <2>2, PrefixAt DEF IsStrictPrefix
<1>4. ASSUME NEW i \in Nat, At(a, b, i), i <= Len(a)
      PROVE  i \in DOMAIN a \cap DOMAIN b /\ a[i] < b[i] /\ SubSeq(a, 1, i - 1) = SubSeq(b, 1, i - 1)
  <2>1. i \in 1 .. Len(a) /\ i \in 1 .. Len(b) /\ a[i] < b[i] /\ \A j \in 1 .. i - 1 : a[j] = b[j]
    BY <1>4 DEF At
  <2>2. SubSeq(a, 1, i - 1) = SubSeq(b, 1, i - 1)
    BY <2>1
  <2>3. QED
    BY <2>1, <2>2
<1>5. ASSUME Less(a, b)
      PROVE  \E i \in Nat : At(a, b, i)
  BY <1>1, <1>2, <1>5 DEF Less
<1>6. ASSUME NEW i \in Nat, At(a, b, i)
      PROVE  Less(a, b)
  <2>1. CASE i > Len(a)
    BY <1>3, <1>6, <2>1 DEF Less
  <2>2. CASE i <= Len(a)
    BY <1>4, <1>6, <2>2 DEF Less
  <2>3. QED
    BY <2>1, <2>2
<1>7. QED
  BY <1>5, <1>6

LEMMA LessIrreflexive ==
  ASSUME NEW a \in Seq(Nat)
  PROVE  ~ Less(a, a)
BY LessAt DEF At

LEMMA LessTransitive ==
  ASSUME NEW a \in Seq(Nat), NEW b \in Seq(Nat), NEW c \in Seq(Nat), Less(a, b), Less(b, c)
  PROVE  Less(a, c)
<1>1. PICK i \in Nat : At(a, b, i)
  BY LessAt
<1>2. PICK j \in Nat : At(b, c, j)
  BY LessAt
<1>3. CASE i <= j
  <2>1. At(a, c, i)
    BY <1>1, <1>2, <1>3 DEF At
  <2>2. QED
    BY <2>1, LessAt
<1>4. CASE j < i
  <2>1. At(a, c, j)
    BY <1>1, <1>2, <1>4 DEF At
  <2>2. QED
    BY <2>1, LessAt
<1>5. QED
  BY <1>3, <1>4

\* Two sequences that differ, differ first at some place.
LEMMA LessTotal ==
  ASSUME NEW a \in Seq(Nat), NEW b \in Seq(Nat)
  PROVE  Less(a, b) \/ a = b \/ Less(b, a)
<1> DEFINE n == IF Len(a) <= Len(b) THEN Len(a) ELSE Len(b)
           D == {i \in 1 .. n : a[i] # b[i]}
<1>0. n \in Nat /\ n <= Len(a) /\ n <= Len(b) /\ (n = Len(a) \/ n = Len(b))
  OBVIOUS
<1> HIDE DEF n
<1>1. CASE D = {}
  <2>1. \A j \in 1 .. n : a[j] = b[j]
    BY <1>1
  <2>2. CASE Len(a) = Len(b)
    BY <1>0, <2>1, <2>2, SameSeq
  <2>3. CASE Len(a) < Len(b)
    <3>1. At(a, b, n + 1)
      BY <1>0, <2>1, <2>3 DEF At
    <3>2. QED
      BY <1>0, <3>1, LessAt
  <2>4. CASE Len(b) < Len(a)
    <3>1. At(b, a, n + 1)
      BY <1>0, <2>1, <2>4 DEF At
    <3>2. QED
      BY <1>0, <3>1, LessAt
  <2>5. QED
    BY <2>2, <2>3, <2>4
<1>2. CASE D # {}
  <2>1. D \in SUBSET Nat
    BY <1>0
  <2>2. PICK i \in D : \A m \in D : i <= m
    BY <1>2, <2>1, Smallest
  <2>3. i \in 1 .. n /\ a[i] # b[i] /\ a[i] \in Nat /\ b[i] \in Nat
    BY <1>0, <2>2
  <2>4. \A j \in 1 .. i - 1 : a[j] = b[j]
    BY <1>0, <2>2, <2>3
  <2>5. CASE a[i] < b[i]
    <3>1. At(a, b, i)
      BY <1>0, <2>3, <2>4, <2>5 DEF At
    <3>2. QED
      BY <2>3, <3>1, LessAt
  <2>6. CASE b[i] < a[i]
    <3>1. At(b, a, i)
      BY <1>0, <2>3, <2>4, <2>6 DEF At
    <3>2. QED
      BY <2>3, <3>1, LessAt
  <2>7. QED
    BY <2>3, <2>5, <2>6
<1>3. QED
  BY <1>1, <1>2

\* LessEq is an order, and what it relates cannot be strictly the other way round.
LEMMA LessEqOrder ==
  ASSUME NEW a \in Seq(Nat), NEW b \in Seq(Nat)
  PROVE  /\ LessEq(a, a)
         /\ ~ LessEq(a, b) => Less(b, a)
         /\ Less(a, b) => LessEq(a, b) /\ ~ LessEq(b, a)
         /\ LessEq(a, b) /\ a # b => Less(a, b)
         /\ \A c \in Seq(Nat) : LessEq(a, b) /\ LessEq(b, c) => LessEq(a, c)
         /\ \A c \in Seq(Nat) : LessEq(a, b) /\ Less(b, c) => Less(a, c)
         /\ \A c \in Seq(Nat) : Less(a, b) /\ LessEq(b, c) => Less(a, c)
BY LessIrreflexive, LessTransitive, LessTotal, Zenon DEF LessEq

-----------------------------------------------------------------------------
(* Where a key stands on a page: at its common prefix, or at itself.       *)

\* The places of the delimiter d behind the prefix p.
Ends(p, d, k) == {i \in Len(p) + 1 .. Len(k) : k[i] = d}

Place(p, d, k) == IF Ends(p, d, k) = {} THEN k
                  ELSE SubSeq(k, 1, CHOOSE i \in Ends(p, d, k) : \A j \in Ends(p, d, k) : i <= j)

\* The place of k is k up to n.
UpTo(p, d, k, n) ==
  /\ n \in Len(p) .. Len(k) /\ Place(p, d, k) = SubSeq(k, 1, n)
  /\ \A i \in Len(p) + 1 .. n - 1 : k[i] # d
  /\ Ends(p, d, k) = {} => n = Len(k) /\ \A i \in Len(p) + 1 .. n : k[i] # d
  /\ Ends(p, d, k) # {} => n >= Len(p) + 1 /\ k[n] = d

LEMMA PlaceUpTo ==
  ASSUME NEW p \in Seq(Nat), NEW k \in Seq(Nat), NEW d, IsPrefix(p, k)
  PROVE  \E n \in Nat : UpTo(p, d, k, n)
<1>0. Len(p) <= Len(k)
  BY DEF IsPrefix
<1>1. CASE Ends(p, d, k) = {}
  <2>1. \A i \in Len(p) + 1 .. Len(k) : k[i] # d
    BY <1>1 DEF Ends
  <2>2. Place(p, d, k) = SubSeq(k, 1, Len(k))
    BY <1>1 DEF Place
  <2>3. UpTo(p, d, k, Len(k))
    BY <1>0, <1>1, <2>1, <2>2 DEF UpTo
  <2>4. QED
    BY <2>3
<1>2. CASE Ends(p, d, k) # {}
  <2> DEFINE E == Ends(p, d, k)
             n == CHOOSE i \in E : \A j \in E : i <= j
  <2>1. E \in SUBSET Nat
    BY DEF Ends
  <2>2. \E i \in E : \A j \in E : i <= j
    BY <1>2, <2>1, Smallest
  <2>3. n \in E /\ \A j \in E : n <= j
    BY <2>2
  <2>4. Place(p, d, k) = SubSeq(k, 1, n)
    BY <1>2 DEF Place
  <2> HIDE DEF n
  <2>5. n \in Len(p) + 1 .. Len(k) /\ k[n] = d /\ n \in Nat
    BY <2>3 DEF Ends
  <2>6. \A i \in Len(p) + 1 .. n - 1 : k[i] # d
    BY <2>3, <2>5 DEF Ends
  <2>7. UpTo(p, d, k, n)
    BY <1>2, <2>4, <2>5, <2>6 DEF UpTo
  <2>8. QED
    BY <2>5, <2>7
<1>3. QED
  BY <1>1, <1>2

\* A place is a key's beginning, its elements, its length.
LEMMA PlaceSeq ==
  ASSUME NEW p \in Seq(Nat), NEW k \in Seq(Nat), NEW d, NEW n \in Nat, UpTo(p, d, k, n)
  PROVE  /\ Place(p, d, k) \in Seq(Nat) /\ Len(Place(p, d, k)) = n
         /\ \A i \in 1 .. n : Place(p, d, k)[i] = k[i]
BY DEF UpTo

\* In the order of the keys their places do not go back.
LEMMA PlacesInOrder ==
  ASSUME NEW p \in Seq(Nat), NEW j \in Seq(Nat), NEW k \in Seq(Nat), NEW d,
         IsPrefix(p, j), IsPrefix(p, k), LessEq(j, k)
  PROVE  LessEq(Place(p, d, j), Place(p, d, k))
<1> DEFINE a == Place(p, d, j)
           b == Place(p, d, k)
<1>1. CASE j = k
  BY <1>1 DEF LessEq
<1>2. CASE Less(j, k)
  <2>1. PICK m \in Nat : UpTo(p, d, j, m)
    BY PlaceUpTo
  <2>2. PICK n \in Nat : UpTo(p, d, k, n)
    BY PlaceUpTo
  <2>3. PICK i \in Nat : At(j, k, i)
    BY <1>2, LessAt
  <2>4. /\ a \in Seq(Nat) /\ Len(a) = m /\ \A x \in 1 .. m : a[x] = j[x]
        /\ b \in Seq(Nat) /\ Len(b) = n /\ \A x \in 1 .. n : b[x] = k[x]
    BY <2>1, <2>2, PlaceSeq
  <2> HIDE DEF a, b
  <2>5. /\ i \in 1 .. Len(k) /\ i <= Len(j) + 1 /\ \A x \in 1 .. i - 1 : j[x] = k[x]
        /\ i <= Len(j) => j[i] < k[i]
        /\ j \in Seq(Nat) /\ k \in Seq(Nat)
    BY <2>3 DEF At
  <2>6. i > Len(p)
    <3>1. SUFFICES ASSUME i <= Len(p)
                   PROVE  FALSE
      BY <2>5
    <3>2. j[i] = p[i] /\ k[i] = p[i] /\ i <= Len(j)
      BY <2>5, <3>1, PrefixAt
    <3>3. QED
      BY <2>5, <3>2
  <2>7. /\ m \in Len(p) .. Len(j)
        /\ \A x \in Len(p) + 1 .. m - 1 : j[x] # d
        /\ Ends(p, d, j) = {} => m = Len(j) /\ \A x \in Len(p) + 1 .. m : j[x] # d
        /\ Ends(p, d, j) # {} => m >= Len(p) + 1 /\ j[m] = d
        /\ n \in Len(p) .. Len(k)
        /\ \A x \in Len(p) + 1 .. n - 1 : k[x] # d
        /\ Ends(p, d, k) = {} => n = Len(k) /\ \A x \in Len(p) + 1 .. n : k[x] # d
        /\ Ends(p, d, k) # {} => n >= Len(p) + 1 /\ k[n] = d
    BY <2>1, <2>2 DEF UpTo
  <2>8. CASE Ends(p, d, j) # {} /\ m < i
    <3>1. k[m] = d /\ m \in Len(p) + 1 .. Len(k)
      BY <2>5, <2>7, <2>8
    <3>2. Ends(p, d, k) # {}
      BY <3>1 DEF Ends
    <3>3. n = m
      <4>1. ~ n < m
        <5>1. SUFFICES ASSUME n < m
                       PROVE  FALSE
          OBVIOUS
        <5>2. j[n] = d /\ n \in Len(p) + 1 .. m - 1
          BY <2>5, <2>7, <2>8, <3>2, <5>1
        <5>3. QED
          BY <2>7, <5>2
      <4>2. ~ m < n
        BY <2>7, <3>1
      <4>3. QED
        BY <2>7, <4>1, <4>2
    <3>4. ASSUME NEW x \in 1 .. m
          PROVE  a[x] = b[x]
      <4>1. x \in 1 .. i - 1 /\ x \in 1 .. n
        BY <2>5, <2>7, <2>8, <3>3
      <4>2. QED
        BY <2>4, <2>5, <4>1
    <3>5. a = b
      BY <2>4, <3>3, <3>4, SameSeq
    <3>6. QED
      BY <3>5 DEF LessEq, a, b
  <2>9. CASE ~ (Ends(p, d, j) # {} /\ m < i)
    <3>1. n >= i
      <4>1. SUFFICES ASSUME n < i
                     PROVE  FALSE
        BY <2>5, <2>7
      <4>2. Ends(p, d, k) # {} /\ k[n] = d /\ n \in Len(p) + 1 .. i - 1
        BY <2>5, <2>7, <4>1
      <4>3. j[n] = d /\ n \in Len(p) + 1 .. Len(j)
        BY <2>5, <4>2
      <4>4. Ends(p, d, j) # {}
        BY <4>3 DEF Ends
      <4>5. QED
        BY <2>7, <2>9, <4>2, <4>3, <4>4
    <3>2. i <= m + 1
      BY <2>5, <2>7, <2>9
    <3>3. At(a, b, i)
      <4>1. i \in 1 .. Len(b) /\ i <= Len(a) + 1
        BY <2>4, <2>5, <3>1, <3>2
      <4>2. ASSUME NEW x \in 1 .. i - 1
            PROVE  a[x] = b[x]
        <5>1. x \in 1 .. m /\ x \in 1 .. n
          BY <2>5, <2>7, <3>1, <3>2
        <5>2. QED
          BY <2>4, <2>5, <5>1
      <4>3. ASSUME i <= Len(a)
            PROVE  a[i] < b[i]
        <5>1. i \in 1 .. m /\ i \in 1 .. n /\ i <= Len(j)
          BY <2>4, <2>5, <2>7, <3>1, <4>3
        <5>2. QED
          BY <2>4, <2>5, <5>1
      <4>4. QED
        BY <4>1, <4>2, <4>3 DEF At
    <3>4. Less(a, b)
      BY <2>4, <3>3, LessAt
    <3>5. QED
      BY <3>4 DEF LessEq, a, b
  <2>10. QED
    BY <2>8, <2>9
<1>3. QED
  BY <1>1, <1>2 DEF LessEq

\* A key without a delimiter behind the prefix is nobody's common prefix.
LEMMA PlaceApart ==
  ASSUME NEW p \in Seq(Nat), NEW j \in Seq(Nat), NEW k \in Seq(Nat), NEW d,
         IsPrefix(p, k), Ends(p, d, j) = {}, Ends(p, d, k) # {}
  PROVE  Place(p, d, k) # j
<1>1. PICK n \in Nat : UpTo(p, d, k, n)
  BY PlaceUpTo
<1>2. /\ Len(Place(p, d, k)) = n /\ Place(p, d, k)[n] = k[n]
      /\ n \in Len(p) + 1 .. Len(k) /\ k[n] = d
  BY <1>1, PlaceSeq DEF UpTo
<1>3. QED
  BY <1>2 DEF Ends

-----------------------------------------------------------------------------
(* The inductive invariant.                                                *)

Entry == [key : Keys, id : Nat]
Page  == [pc : {"none", "collect", "scan"}, names : SUBSET Keys, keys : SUBSET Keys, count : Nat,
          truncated : BOOLEAN, objects : Seq(Entry), prefixes : Seq(Seq(Nat))]

Spot(k) == Place(s.prefix, s.delimiter, k)

Matching == {k \in Keys : IsPrefix(s.prefix, k)}

TypeOK ==
  /\ versions \in [Keys -> Seq([id : Nat, mark : BOOLEAN])] /\ last \in Nat
  /\ s \in [kind : {"objects", "versions"}, prefix : KeyPrefixes, delimiter : Delimiters, max : Int,
            backend : Backends, marker : Seq(Nat), pc : {"ask", "done", "left"}]
  /\ listed \in [objects : Seq(Entry), prefixes : Seq(Seq(Nat))]
  /\ constant \subseteq Entry

\* A version's id is its own.
VersionsOK ==
  \A k \in Keys : \A i, j \in DOMAIN versions[k] :
    versions[k][i].id <= last /\ (versions[k][i].id = versions[k][j].id => i = j)

\* What there has been to list ever since is there to list.
HeldOK == \A c \in constant : c \in Range(Entries(c.key, versions[c.key]))

\* Where the session is.  Every page but the first has a marker, and all that was
\* answered is no greater: the prefixes, and without a delimiter the objects.
SessionOK ==
  /\ s.pc # "ask" => page.pc = "none"
  /\ s.pc = "ask" =>
       /\ s.marker = <<>> => listed.objects = <<>> /\ listed.prefixes = <<>>
       /\ s.kind = "versions" => s.marker = <<>>
       /\ \A q \in Range(listed.prefixes) : LessEq(q, s.marker)
       /\ s.delimiter = NoDelimiter => \A o \in Range(listed.objects) : LessEq(o.key, s.marker)

\* What page g holds before its loop begins, and what it counts.
ShapeOK(g) ==
  /\ g \in Page
  /\ g.pc # "scan" => g.objects = <<>> /\ g.prefixes = <<>> /\ ~ g.truncated /\ g.count = 0
  /\ s.kind = "objects" => /\ g.count = Len(g.objects) + Len(g.prefixes)
                           /\ g.truncated => g.count > 0

\* The common prefixes of page g are new, the last one is the greatest, and the keys
\* still to come stand there or behind; on a page that is full, behind.
PrefixesOK(g) ==
  /\ Distinct(g.prefixes)
  /\ \A p \in Range(g.prefixes) :
       /\ \E k \in Matching : p \in Common(k)
       /\ ~ Passed(p) /\ LessEq(p, Last(g.prefixes))
       /\ \A k \in g.keys \cap Matching : /\ LessEq(p, Spot(k))
                                          /\ g.truncated /\ s.kind = "objects" => p # Spot(k)

\* The same of its objects.
ObjectsOK(g) ==
  /\ Distinct(g.objects)
  /\ \A o \in Range(g.objects) :
       /\ o.key \in Matching /\ Common(o.key) = {} /\ LessEq(o.key, Last(g.objects).key)
       /\ s.kind = "objects" => ~ Passed(o.key)
       /\ \A k \in g.keys : Less(o.key, k)

Answered(c, r) == IF Common(c.key) = {} THEN c \in Range(r.objects)
                  ELSE Common(c.key) \subseteq Range(r.prefixes)

\* Nothing gets lost: what page g does not hold is still to come, or is no greater
\* than the marker and was answered before.
CoverOK(g) ==
  \A c \in constant : c.key \in Matching =>
    /\ g.pc = "collect" => c.key \in g.names \cup g.keys
    /\ g.pc = "scan" => \/ c.key \in g.keys \/ Answered(c, g) \/ Answered(c, listed)
                        \/ g.truncated /\ s.kind = "versions"
    /\ s.pc = "ask" /\ Passed(Spot(c.key)) => Answered(c, listed)

PageOK(g) == ShapeOK(g) /\ PrefixesOK(g) /\ ObjectsOK(g) /\ CoverOK(g)

IInv == /\ TypeOK /\ VersionsOK /\ HeldOK /\ SessionOK /\ PageOK(page)
        /\ NothingMissed /\ NothingTwice

-----------------------------------------------------------------------------
(* Keys and their spots.                                                   *)

LEMMA KeySeq ==
  ASSUME NEW k \in Keys
  PROVE  k \in Seq(Nat) /\ k # <<>> /\ \A i \in 1 .. Len(k) : k[i] # NoDelimiter
<1>1. k \in Seq(Nat \ {NoDelimiter}) /\ k # <<>>
  BY KeysAssumption
<1>2. QED
  BY <1>1

LEMMA PrefixSeq ==
  ASSUME TypeOK
  PROVE  s.prefix \in Seq(Nat)
BY KeysAssumption DEF TypeOK

\* Common tells where the key stands.
LEMMA CommonSpot ==
  ASSUME NEW k
  PROVE  /\ Common(k) = {} <=> Ends(s.prefix, s.delimiter, k) = {}
         /\ Common(k) = {} => Spot(k) = k
         /\ Common(k) # {} => Common(k) = {Spot(k)}
BY DEF Common, Spot, Place, Ends

\* Without a delimiter every key stands for itself.
LEMMA NoCommon ==
  ASSUME TypeOK, s.delimiter = NoDelimiter, NEW k \in Keys
  PROVE  Common(k) = {}
<1>1. s.prefix \in Seq(Nat) /\ k \in Seq(Nat) /\ \A i \in 1 .. Len(k) : k[i] # s.delimiter
  BY PrefixSeq, KeySeq
<1>2. Ends(s.prefix, s.delimiter, k) = {}
  BY <1>1 DEF Ends
<1>3. QED
  BY <1>2, CommonSpot

LEMMA SpotSeq ==
  ASSUME TypeOK, NEW k \in Matching
  PROVE  Spot(k) \in Seq(Nat) /\ Spot(k) # <<>>
<1>1. s.prefix \in Seq(Nat) /\ k \in Keys /\ k \in Seq(Nat) /\ k # <<>> /\ IsPrefix(s.prefix, k)
  BY PrefixSeq, KeySeq DEF Matching
<1>2. CASE Common(k) = {}
  BY <1>1, <1>2, CommonSpot
<1>3. CASE Common(k) # {}
  <2>1. PICK n \in Nat : UpTo(s.prefix, s.delimiter, k, n)
    BY <1>1, PlaceUpTo
  <2>2. n >= 1
    BY <1>1, <1>3, <2>1, CommonSpot DEF UpTo
  <2>3. Spot(k) \in Seq(Nat) /\ Len(Spot(k)) = n
    BY <1>1, <2>1, PlaceSeq DEF Spot
  <2>4. QED
    BY <2>2, <2>3
<1>4. QED
  BY <1>2, <1>3

LEMMA SpotsInOrder ==
  ASSUME TypeOK, NEW j \in Matching, NEW k \in Matching, LessEq(j, k)
  PROVE  LessEq(Spot(j), Spot(k))
<1>1. /\ s.prefix \in Seq(Nat) /\ j \in Seq(Nat) /\ k \in Seq(Nat)
      /\ IsPrefix(s.prefix, j) /\ IsPrefix(s.prefix, k)
  BY PrefixSeq, KeySeq DEF Matching
<1>2. QED
  BY <1>1, PlacesInOrder DEF Spot

LEMMA SpotsApart ==
  ASSUME TypeOK, NEW j \in Matching, NEW k \in Matching, Common(j) = {}, Common(k) # {}
  PROVE  Spot(k) # j
<1>1. /\ s.prefix \in Seq(Nat) /\ j \in Seq(Nat) /\ k \in Seq(Nat) /\ IsPrefix(s.prefix, k)
  BY PrefixSeq, KeySeq DEF Matching
<1>2. Ends(s.prefix, s.delimiter, j) = {} /\ Ends(s.prefix, s.delimiter, k) # {}
  BY CommonSpot
<1>3. QED
  BY <1>1, <1>2, PlaceApart DEF Spot

-----------------------------------------------------------------------------
(* Lists.                                                                  *)

\* What is in a list made of two, and whether its elements are distinct.
LEMMA JoinedSeq ==
  ASSUME NEW S, NEW a \in Seq(S), NEW b \in Seq(S)
  PROVE  /\ a \o b \in Seq(S) /\ Range(a \o b) = Range(a) \cup Range(b)
         /\ Len(a \o b) = Len(a) + Len(b)
         /\ b # <<>> => Last(a \o b) = Last(b) /\ Last(b) \in Range(b)
         /\ Distinct(a) /\ Distinct(b) /\ Range(a) \cap Range(b) = {} => Distinct(a \o b)
<1> DEFINE t == a \o b
<1>1. /\ t \in Seq(S) /\ Len(t) = Len(a) + Len(b)
      /\ \A i \in 1 .. Len(a) : t[i] = a[i]
      /\ \A i \in 1 .. Len(b) : t[Len(a) + i] = b[i]
      /\ \A i \in Len(a) + 1 .. Len(t) : t[i] = b[i - Len(a)]
  OBVIOUS
<1> HIDE DEF t
<1>2. /\ DOMAIN a = 1 .. Len(a) /\ DOMAIN b = 1 .. Len(b) /\ DOMAIN t = 1 .. Len(t)
      /\ Len(a) \in Nat /\ Len(b) \in Nat
  BY <1>1
<1>3. Range(t) = Range(a) \cup Range(b)
  <2>1. ASSUME NEW x \in Range(t)
        PROVE  x \in Range(a) \cup Range(b)
    <3>1. PICK i \in 1 .. Len(t) : x = t[i]
      BY <1>2 DEF Range
    <3>2. CASE i <= Len(a)
      <4>1. i \in 1 .. Len(a) /\ x = a[i]
        BY <1>1, <1>2, <3>1, <3>2
      <4>2. QED
        BY <1>2, <4>1 DEF Range
    <3>3. CASE i > Len(a)
      <4>1. i - Len(a) \in 1 .. Len(b) /\ x = b[i - Len(a)]
        BY <1>1, <1>2, <3>1, <3>3
      <4>2. QED
        BY <1>2, <4>1 DEF Range
    <3>4. QED
      BY <1>2, <3>2, <3>3
  <2>2. ASSUME NEW x \in Range(a)
        PROVE  x \in Range(t)
    <3>1. PICK i \in 1 .. Len(a) : x = a[i]
      BY <1>2 DEF Range
    <3>2. i \in 1 .. Len(t) /\ x = t[i]
      BY <1>1, <1>2, <3>1
    <3>3. QED
      BY <1>2, <3>2 DEF Range
  <2>3. ASSUME NEW x \in Range(b)
        PROVE  x \in Range(t)
    <3>1. PICK i \in 1 .. Len(b) : x = b[i]
      BY <1>2 DEF Range
    <3>2. Len(a) + i \in 1 .. Len(t) /\ x = t[Len(a) + i]
      BY <1>1, <1>2, <3>1
    <3>3. QED
      BY <1>2, <3>2 DEF Range
  <2>4. QED
    BY <2>1, <2>2, <2>3
<1>4. b # <<>> => Last(t) = Last(b) /\ Last(b) \in Range(b)
  <2>1. b # <<>> => Len(b) \in 1 .. Len(b)
    BY <1>2
  <2>2. b # <<>> => t[Len(t)] = b[Len(b)]
    BY <1>1, <1>2, <2>1
  <2>3. QED
    BY <1>2, <2>1, <2>2 DEF Last, Range
<1>5. ASSUME Distinct(a), Distinct(b), Range(a) \cap Range(b) = {}
      PROVE  Distinct(t)
  <2>1. SUFFICES ASSUME NEW i \in 1 .. Len(t), NEW j \in 1 .. Len(t), t[i] = t[j], i # j
                 PROVE  FALSE
    BY <1>2 DEF Distinct
  <2>2. \A n \in 1 .. Len(t) : \/ n \in 1 .. Len(a) /\ t[n] = a[n]
                               \/ n - Len(a) \in 1 .. Len(b) /\ t[n] = b[n - Len(a)]
    BY <1>1, <1>2
  <2>3. \A m \in 1 .. Len(a), n \in 1 .. Len(b) : a[m] # b[n]
    BY <1>2, <1>5 DEF Range
  <2>4. \/ i \in 1 .. Len(a) /\ j \in 1 .. Len(a) /\ a[i] = a[j]
        \/ i - Len(a) \in 1 .. Len(b) /\ j - Len(a) \in 1 .. Len(b) /\ b[i - Len(a)] = b[j - Len(a)]
    BY <2>1, <2>2, <2>3
  <2>5. i = j \/ i - Len(a) = j - Len(a)
    BY <1>2, <1>5, <2>4 DEF Distinct
  <2>6. QED
    BY <1>2, <2>1, <2>5
<1>6. QED
  BY <1>1, <1>3, <1>4, <1>5 DEF t

LEMMA NoElementsIn ==
  <<>> \in Seq({}) /\ Len(<<>>) = 0 /\ DOMAIN <<>> = 1 .. Len(<<>>)
<1>1. \A e \in Seq({}) : DOMAIN e = 1 .. Len(e)
  OBVIOUS
<1>2. <<>> \in Seq({}) /\ Len(<<>>) = 0
  OBVIOUS
<1>3. QED
  BY <1>1, <1>2

LEMMA NoElements ==
  ASSUME NEW e, e = <<>>
  PROVE  Range(e) = {} /\ Distinct(e)
<1>1. DOMAIN e = 1 .. 0
  BY NoElementsIn
<1>2. DOMAIN e = {}
  BY <1>1
<1>3. QED
  BY <1>2 DEF Range, Distinct

LEMMA OneSeq ==
  ASSUME NEW S, NEW x \in S
  PROVE  <<x>> \in Seq(S) /\ <<x>> # <<>> /\ Range(<<x>>) = {x} /\ Last(<<x>>) = x /\ Distinct(<<x>>)
BY DEF Range, Last, Distinct

\* The beginning of a list.
LEMMA CutSeq ==
  ASSUME NEW S, NEW a \in Seq(S), NEW n \in 0 .. Len(a), Distinct(a)
  PROVE  /\ SubSeq(a, 1, n) \in Seq(S) /\ Len(SubSeq(a, 1, n)) = n
         /\ Range(SubSeq(a, 1, n)) \subseteq Range(a) /\ Distinct(SubSeq(a, 1, n))
         /\ n = Len(a) => SubSeq(a, 1, n) = a
<1> DEFINE t == SubSeq(a, 1, n)
<1>1. t \in Seq(S) /\ Len(t) = n /\ \A i \in 1 .. n : t[i] = a[i]
  OBVIOUS
<1>2. n = Len(a) => t = a
  OBVIOUS
<1> HIDE DEF t
<1>3. DOMAIN t = 1 .. n /\ DOMAIN a = 1 .. Len(a)
  BY <1>1
<1>4. Range(t) \subseteq Range(a) /\ Distinct(t)
  BY <1>1, <1>3 DEF Range, Distinct
<1>5. QED
  BY <1>1, <1>2, <1>4 DEF t

LEMMA LastIn ==
  ASSUME NEW S, NEW a \in Seq(S), a # <<>>
  PROVE  Last(a) \in Range(a) /\ Last(a) \in S
BY DEF Range, Last

LEMMA RangeIn ==
  ASSUME NEW S, NEW a \in Seq(S)
  PROVE  Range(a) \subseteq S
BY DEF Range

-----------------------------------------------------------------------------
(* Versions and what there is to list of them.                             *)

Version == [id : Nat, mark : BOOLEAN]

\* A list of versions under ids of their own, none greater than n.
Fine(vs, n) ==
  /\ vs \in Seq(Version)
  /\ \A i, j \in 1 .. Len(vs) : vs[i].id <= n /\ (vs[i].id = vs[j].id => i = j)

LEMMA FineAt ==
  ASSUME NEW vs, NEW n, Fine(vs, n), NEW i \in 1 .. Len(vs)
  PROVE  /\ vs[i] \in Version /\ vs[i].id \in Nat /\ vs[i].id <= n
         /\ \A j \in 1 .. Len(vs) : vs[i].id = vs[j].id => i = j
<1>1. vs[i] \in Version
  BY DEF Fine
<1>2. QED
  BY <1>1 DEF Fine, Version

LEMMA EntriesSeq ==
  ASSUME NEW k \in Keys, NEW vs, NEW n, Fine(vs, n)
  PROVE  /\ Entries(k, vs) \in Seq(Entry) /\ Distinct(Entries(k, vs))
         /\ \A c \in Range(Entries(k, vs)) : c.key = k
         /\ s.kind = "objects" => Len(Entries(k, vs)) <= 1
<1> DEFINE t == [i \in DOMAIN vs |-> [key |-> k, id |-> vs[i].id]]
<1>1. vs \in Seq(Version) /\ DOMAIN vs = 1 .. Len(vs) /\ Len(vs) \in Nat
  BY DEF Fine
<1>2. CASE s.kind = "versions"
  <2>1. Entries(k, vs) = t
    BY <1>2 DEF Entries
  <2>2. ASSUME NEW i \in 1 .. Len(vs)
        PROVE  t[i] \in Entry /\ t[i].key = k /\ t[i].id = vs[i].id
    <3>1. vs[i].id \in Nat
      BY FineAt
    <3>2. t[i] = [key |-> k, id |-> vs[i].id]
      BY <1>1
    <3>3. QED
      BY <3>1, <3>2 DEF Entry
  <2>3. DOMAIN t = 1 .. Len(vs)
    BY <1>1
  <2>4. t \in Seq(Entry)
    BY <1>1, <2>2, <2>3
  <2>5. Distinct(t)
    BY <2>2, <2>3, FineAt DEF Distinct
  <2>6. \A c \in Range(t) : c.key = k
    BY <2>2, <2>3 DEF Range
  <2>7. QED
    BY <1>2, <2>1, <2>4, <2>5, <2>6
<1>3. CASE s.kind # "versions"
  <2> DEFINE e == [key |-> k, id |-> 0]
  <2>1. e \in Entry /\ e.key = k
    BY DEF Entry
  <2>2. Entries(k, vs) = <<e>> \/ Entries(k, vs) = <<>>
    BY <1>3 DEF Entries
  <2>3. <<e>> \in Seq(Entry) /\ Range(<<e>>) = {e} /\ Distinct(<<e>>) /\ Len(<<e>>) <= 1
    BY <2>1, OneSeq
  <2>4. <<>> \in Seq(Entry) /\ Len(<<>>) <= 1
    OBVIOUS
  <2> HIDE DEF e
  <2>5. CASE Entries(k, vs) = <<e>>
    BY <2>1, <2>3, <2>5
  <2>5a. Entries(k, vs) = <<>> => Range(Entries(k, vs)) = {} /\ Distinct(Entries(k, vs))
    <3>1. PICK t0 : t0 = Entries(k, vs)
      OBVIOUS
    <3>2. QED
      BY <3>1, NoElements
  <2>6. CASE Entries(k, vs) = <<>>
    <3>1. \A c \in Range(Entries(k, vs)) : c.key = k
      BY <2>6, <2>5a
    <3>2. QED
      BY <2>4, <2>6, <3>1, <2>5a
  <2>7. QED
    BY <2>2, <2>5, <2>6
<1>4. QED
  BY <1>2, <1>3

LEMMA KeysVersions ==
  ASSUME TypeOK, VersionsOK, NEW k \in Keys
  PROVE  Fine(versions[k], last)
BY DEF TypeOK, VersionsOK, Fine, Version

\* A version under a new id in front of others.
LEMMA FrontFine ==
  ASSUME NEW n \in Nat, NEW vs, Fine(vs, n), NEW m \in BOOLEAN
  PROVE  Fine(<<[id |-> n + 1, mark |-> m]>> \o vs, n + 1)
<1> DEFINE v == [id |-> n + 1, mark |-> m]
           t == <<v>> \o vs
<1>1. v \in Version /\ v.id = n + 1
  BY DEF Version
<1> HIDE DEF v
<1>2. /\ t \in Seq(Version) /\ Len(t) = Len(vs) + 1 /\ t[1] = v
      /\ \A i \in 2 .. Len(t) : t[i] = vs[i - 1]
  BY <1>1 DEF Fine
<1> HIDE DEF t
<1>3. ASSUME NEW i \in 1 .. Len(t)
      PROVE  \/ i = 1 /\ t[i].id = n + 1
             \/ i - 1 \in 1 .. Len(vs) /\ t[i].id = vs[i - 1].id /\ vs[i - 1].id \in Nat /\ t[i].id <= n
  <2>1. CASE i = 1
    BY <1>1, <1>2, <2>1
  <2>2. CASE i # 1
    <3>1. i - 1 \in 1 .. Len(vs) /\ t[i] = vs[i - 1]
      BY <1>2, <2>2 DEF Fine
    <3>2. QED
      BY <3>1, FineAt
  <2>3. QED
    BY <2>1, <2>2
<1>4. ASSUME NEW i \in 1 .. Len(t), NEW j \in 1 .. Len(t)
      PROVE  t[i].id <= n + 1 /\ (t[i].id = t[j].id => i = j)
  <2>1. CASE i = 1
    BY <1>3, <2>1
  <2>2. CASE i # 1 /\ j = 1
    BY <1>3, <2>2
  <2>3. CASE i # 1 /\ j # 1
    <3>1. /\ i - 1 \in 1 .. Len(vs) /\ t[i].id = vs[i - 1].id /\ vs[i - 1].id \in Nat /\ t[i].id <= n
          /\ j - 1 \in 1 .. Len(vs) /\ t[j].id = vs[j - 1].id
      BY <1>3, <2>3
    <3>2. vs[i - 1].id = vs[j - 1].id => i - 1 = j - 1
      BY <3>1, FineAt
    <3>3. QED
      BY <3>1, <3>2
  <2>4. QED
    BY <2>1, <2>2, <2>3
<1>5. Fine(t, n + 1)
  BY <1>2, <1>4 DEF Fine
<1>6. QED
  BY <1>5 DEF t, v

LEMMA EmptyFine ==
  ASSUME NEW n \in Nat
  PROVE  Fine(<<>>, n)
BY DEF Fine

\* One version less.
LEMMA WithoutFine ==
  ASSUME NEW n \in Nat, NEW vs, Fine(vs, n), NEW i \in 1 .. Len(vs)
  PROVE  Fine(RemoveAt(vs, i), n + 1)
<1> DEFINE a == SubSeq(vs, 1, i - 1)
           b == SubSeq(vs, i + 1, Len(vs))
           t == a \o b
<1>0. vs \in Seq(Version) /\ Len(vs) \in Nat
  BY DEF Fine
<1>1. /\ a \in Seq(Version) /\ Len(a) = i - 1
      /\ \A j \in 1 .. i - 1 : a[j] = vs[j]
  BY <1>0
<1>2. /\ b \in Seq(Version) /\ Len(b) = Len(vs) - i
      /\ \A j \in 1 .. Len(vs) - i : b[j] = vs[i + j]
  BY <1>0
<1> HIDE DEF a, b
<1>3. t \in Seq(Version) /\ Len(t) = Len(vs) - 1
  BY <1>0, <1>1, <1>2
<1>4. ASSUME NEW j \in 1 .. Len(t)
      PROVE  t[j] = vs[IF j < i THEN j ELSE j + 1]
  <2>1. CASE j < i
    BY <1>1, <1>2, <1>3, <2>1
  <2>2. CASE j >= i
    <3>1. j - (i - 1) \in 1 .. Len(vs) - i
      BY <1>0, <1>3, <2>2
    <3>2. t[j] = b[j - (i - 1)]
      BY <1>1, <1>2, <1>3, <2>2
    <3>3. QED
      BY <1>2, <2>2, <3>1, <3>2
  <2>3. QED
    BY <1>3, <2>1, <2>2
<1> HIDE DEF t
<1> DEFINE at(j) == IF j < i THEN j ELSE j + 1
<1>5. ASSUME NEW j \in 1 .. Len(t)
      PROVE  at(j) \in 1 .. Len(vs) /\ t[j] = vs[at(j)] /\ vs[at(j)].id \in Nat /\ vs[at(j)].id <= n
  <2>1. at(j) \in 1 .. Len(vs) /\ t[j] = vs[at(j)]
    BY <1>0, <1>3, <1>4
  <2> HIDE DEF at
  <2>2. vs[at(j)] \in Version
    BY <1>0, <2>1
  <2>3. QED
    BY <2>1, <2>2 DEF Fine, Version
<1>6. ASSUME NEW j \in 1 .. Len(t), NEW l \in 1 .. Len(t), t[j].id = t[l].id
      PROVE  j = l
  <2>1. at(j) = at(l)
    <3> HIDE DEF at
    <3>1. QED
      BY <1>5, <1>6, FineAt
  <2>2. QED
    BY <1>3, <2>1
<1>7. \A j \in 1 .. Len(t) : t[j].id <= n + 1
  <2> HIDE DEF at
  <2>1. QED
    BY <1>5
<1>8. Fine(t, n + 1)
  BY <1>3, <1>6, <1>7 DEF Fine
<1>9. QED
  BY <1>8 DEF RemoveAt, t, a, b

-----------------------------------------------------------------------------
(* What does not change with the bucket or within a page.                  *)

\* While the session stays as it is, so does where the keys stand.
LEMMA SpotsStay ==
  ASSUME s' = s
  PROVE  /\ \A k : Common(k)' = Common(k) /\ Spot(k)' = Spot(k) /\ (Passed(k)' <=> Passed(k))
         /\ Matching' = Matching
<1>1. ASSUME NEW k
      PROVE  Common(k)' = Common(k) /\ Spot(k)' = Spot(k) /\ (Passed(k)' <=> Passed(k))
  BY DEF Common, Spot, Passed
<1>2. Matching' = Matching
  BY DEF Matching
<1>3. QED
  BY <1>1, <1>2

\* While the session stays as it is, what a page holds stays right.
LEMMA PageStays ==
  ASSUME NEW g, PageOK(g), page' = g, s' = s, listed' = listed, constant' \subseteq constant
  PROVE  PageOK(page)'
<1>1. ShapeOK(page)'
  BY DEF PageOK, ShapeOK, Page, Entry
<1>2. PrefixesOK(page)'
  BY SpotsStay DEF PageOK, PrefixesOK
<1>3. ObjectsOK(page)'
  BY SpotsStay DEF PageOK, ObjectsOK
<1>4. CoverOK(page)'
  BY SpotsStay DEF PageOK, CoverOK, Answered
<1>5. QED
  BY <1>1, <1>2, <1>3, <1>4 DEF PageOK

\* And what the session has answered.
LEMMA SessionStays ==
  ASSUME NothingMissed, NothingTwice, s' = s, listed' = listed, constant' \subseteq constant
  PROVE  NothingMissed' /\ NothingTwice'
<1>1. NothingMissed'
  BY SpotsStay DEF NothingMissed
<1>2. NothingTwice'
  BY DEF NothingTwice
<1>3. QED
  BY <1>1, <1>2

\* A step within a page.
LEMMA WithinPage ==
  ASSUME IInv, NEW g, PageOK(g), Goes(g), s.pc = "ask"
  PROVE  IInv'
<1>1. page' = g /\ UNCHANGED <<versions, last, s, listed, constant>>
  BY DEF Goes
<1>2. PageOK(page)'
  BY <1>1, PageStays
<1>3. NothingMissed' /\ NothingTwice'
  BY <1>1, SessionStays DEF IInv
<1>4. TypeOK'
  BY <1>1 DEF IInv, TypeOK, Entry
<1>5. VersionsOK'
  BY <1>1 DEF IInv, VersionsOK
<1>6. HeldOK'
  BY <1>1 DEF IInv, HeldOK, Entries
<1>7. SessionOK'
  BY <1>1 DEF IInv, SessionOK
<1>8. QED
  BY <1>2, <1>3, <1>4, <1>5, <1>6, <1>7 DEF IInv

-----------------------------------------------------------------------------
(* A change of the bucket.                                                 *)

\* An object gets other versions.
LEMMA ChangesKeep ==
  ASSUME IInv, NEW k \in Keys, NEW vs, Changes(k, vs), Fine(vs, last + 1)
  PROVE  IInv'
<1>1. /\ versions' = [versions EXCEPT ![k] = vs] /\ last' = last + 1
      /\ constant' = {c \in constant : c.key = k => c \in Range(Entries(k, vs))}
      /\ s' = s /\ page' = page /\ listed' = listed /\ s.pc = "ask"
  BY DEF Changes
<1>2. constant' \subseteq constant
  BY <1>1
<1>3. PageOK(page)'
  <2>1. PICK g : g = page
    OBVIOUS
  <2>2. QED
    BY <1>1, <1>2, <2>1, PageStays DEF IInv
<1>4. NothingMissed' /\ NothingTwice'
  BY <1>1, <1>2, SessionStays DEF IInv
<1>5. TypeOK'
  <2>1. versions' \in [Keys -> Seq(Version)] /\ last' \in Nat
    BY <1>1 DEF IInv, TypeOK, Fine, Version
  <2>2. QED
    BY <1>1, <1>2, <2>1 DEF IInv, TypeOK, Entry, Version
<1>6. VersionsOK'
  <2>1. ASSUME NEW l \in Keys, NEW i \in DOMAIN versions'[l], NEW j \in DOMAIN versions'[l]
        PROVE  versions'[l][i].id <= last' /\ (versions'[l][i].id = versions'[l][j].id => i = j)
    <3>1. CASE l = k
      <4>1. versions'[l] = vs /\ i \in 1 .. Len(vs) /\ j \in 1 .. Len(vs)
        BY <1>1, <3>1 DEF IInv, TypeOK, Fine
      <4>2. QED
        BY <1>1, <4>1, FineAt
    <3>2. CASE l # k
      <4>1. Fine(versions[l], last) /\ versions'[l] = versions[l] /\ last \in Nat
        BY <1>1, <3>2, KeysVersions DEF IInv, TypeOK
      <4>2. PICK w : w = versions[l]
        OBVIOUS
      <4>3. Fine(w, last) /\ i \in 1 .. Len(w) /\ j \in 1 .. Len(w) /\ versions'[l] = w
        BY <4>1, <4>2 DEF Fine
      <4>4. PICK n : n = last
        OBVIOUS
      <4>5. w[i].id \in Nat /\ w[i].id <= n /\ (w[i].id = w[j].id => i = j)
        BY <4>3, <4>4, FineAt
      <4>6. QED
        BY <1>1, <4>1, <4>3, <4>4, <4>5
    <3>3. QED
      BY <3>1, <3>2
  <2>2. QED
    BY <2>1 DEF VersionsOK
<1>7. HeldOK'
  <2>1. ASSUME NEW c \in constant'
        PROVE  c \in Range(Entries(c.key, versions[c.key])')
    <3>1. c \in constant /\ c.key \in Keys /\ c \in Range(Entries(c.key, versions[c.key]))
      BY <1>2 DEF IInv, HeldOK, TypeOK, Entry
    <3>2. CASE c.key = k
      <4>1. versions'[c.key] = vs
        BY <1>1, <3>1, <3>2 DEF IInv, TypeOK
      <4>2. c \in Range(Entries(k, vs))
        BY <1>1, <3>2
      <4>3. QED
        BY <1>1, <3>2, <4>1, <4>2 DEF Entries
    <3>3. CASE c.key # k
      <4>1. versions'[c.key] = versions[c.key]
        BY <1>1, <3>1, <3>3 DEF IInv, TypeOK
      <4>2. QED
        BY <1>1, <3>1, <4>1 DEF Entries
    <3>4. QED
      BY <3>2, <3>3
  <2>2. QED
    BY <2>1 DEF HeldOK
<1>8. SessionOK'
  BY <1>1 DEF IInv, SessionOK
<1>9. QED
  BY <1>3, <1>4, <1>5, <1>6, <1>7, <1>8 DEF IInv

LEMMA PutKeeps ==
  ASSUME IInv, NEW k \in Keys, Put(k)
  PROVE  IInv'
<1>1. PICK n, vs : n = last /\ vs = versions[k]
  OBVIOUS
<1>2. n \in Nat /\ Fine(vs, n)
  BY <1>1, KeysVersions DEF IInv, TypeOK
<1>3. CASE Changes(k, New(FALSE) \o versions[k])
  <2>1. Fine(<<[id |-> n + 1, mark |-> FALSE]>> \o vs, n + 1)
    BY <1>2, FrontFine
  <2>2. Changes(k, <<[id |-> n + 1, mark |-> FALSE]>> \o vs)
    BY <1>1, <1>3 DEF New
  <2>3. QED
    BY <1>1, <2>1, <2>2, ChangesKeep
<1>4. CASE Changes(k, New(FALSE))
  <2>1. <<[id |-> n + 1, mark |-> FALSE]>> \in Seq(Version) /\ Len(<<[id |-> n + 1, mark |-> FALSE]>>) = 1
    BY <1>2 DEF Version
  <2>2. Fine(<<[id |-> n + 1, mark |-> FALSE]>>, n + 1)
    BY <1>2, <2>1 DEF Fine
  <2>3. Changes(k, <<[id |-> n + 1, mark |-> FALSE]>>)
    BY <1>1, <1>4 DEF New
  <2>4. QED
    BY <1>1, <2>2, <2>3, ChangesKeep
<1>5. QED
  BY <1>3, <1>4 DEF Put

LEMMA DeleteKeeps ==
  ASSUME IInv, NEW k \in Keys, Delete(k)
  PROVE  IInv'
<1>1. PICK n, vs : n = last /\ vs = versions[k]
  OBVIOUS
<1>2. n \in Nat /\ Fine(vs, n)
  BY <1>1, KeysVersions DEF IInv, TypeOK
<1>3. CASE Changes(k, New(TRUE) \o versions[k])
  <2>1. Fine(<<[id |-> n + 1, mark |-> TRUE]>> \o vs, n + 1)
    BY <1>2, FrontFine
  <2>2. Changes(k, <<[id |-> n + 1, mark |-> TRUE]>> \o vs)
    BY <1>1, <1>3 DEF New
  <2>3. QED
    BY <1>1, <2>1, <2>2, ChangesKeep
<1>4. CASE Changes(k, <<>>)
  <2>1. Fine(<<>>, n + 1)
    BY <1>2, EmptyFine
  <2>2. QED
    BY <1>1, <1>4, <2>1, ChangesKeep
<1>5. ASSUME NEW i \in DOMAIN versions[k], Changes(k, RemoveAt(versions[k], i))
      PROVE  IInv'
  <2>1. i \in 1 .. Len(vs) /\ Changes(k, RemoveAt(vs, i))
    BY <1>1, <1>2, <1>5 DEF Fine
  <2>2. Fine(RemoveAt(vs, i), n + 1)
    BY <1>2, <2>1, WithoutFine
  <2>3. QED
    BY <1>1, <2>1, <2>2, ChangesKeep
<1>6. QED
  BY <1>3, <1>4, <1>5 DEF Delete

-----------------------------------------------------------------------------
(* The steps of a page.                                                    *)

\* A page is made for a client that has asked.
LEMMA PageAsked ==
  ASSUME IInv, page.pc # "none"
  PROVE  s.pc = "ask"
BY DEF IInv, SessionOK

\* What is always there to list has versions.
LEMMA HeldThere ==
  ASSUME IInv, NEW c \in constant
  PROVE  c.key \in Keys /\ versions[c.key] # <<>> /\ c \in Range(Entries(c.key, versions[c.key]))
<1>1. c.key \in Keys /\ c \in Range(Entries(c.key, versions[c.key]))
  BY DEF IInv, TypeOK, HeldOK, Entry
<1>2. Fine(versions[c.key], last) /\ TypeOK
  BY <1>1, KeysVersions DEF IInv
<1>3. SUFFICES ASSUME versions[c.key] = <<>>
               PROVE  FALSE
  BY <1>1
<1>4. PICK t : t = Entries(c.key, versions[c.key])
  OBVIOUS
<1>5. t = <<>>
  BY <1>3, <1>4 DEF Entries
<1>6. QED
  BY <1>1, <1>4, <1>5, NoElements

\* A page without entries.
LEMMA NoEntries ==
  ASSUME NEW g, g.objects = <<>>, g.prefixes = <<>>
  PROVE  PrefixesOK(g) /\ ObjectsOK(g)
<1>1. PICK e : e = <<>>
  OBVIOUS
<1>2. Range(e) = {} /\ Distinct(e)
  BY <1>1, NoElements
<1>3. QED
  BY <1>1, <1>2 DEF PrefixesOK, ObjectsOK

\* The entries of a page stay right when a key has been treated.
LEMMA FewerKeys ==
  ASSUME NEW g, NEW h, PrefixesOK(g), ObjectsOK(g), h.keys \subseteq g.keys,
         h.objects = g.objects, h.prefixes = g.prefixes, h.truncated = g.truncated
  PROVE  PrefixesOK(h) /\ ObjectsOK(h)
<1>1. PrefixesOK(h)
  BY DEF PrefixesOK
<1>2. ObjectsOK(h)
  BY DEF ObjectsOK
<1>3. QED
  BY <1>1, <1>2

LEMMA AskKeeps ==
  ASSUME IInv, Ask
  PROVE  IInv'
<1>1. PICK g : g = [page EXCEPT !.pc = "collect", !.names = {k \in Keys : versions[k] # <<>>}]
  OBVIOUS
<1>2. Goes(g) /\ s.pc = "ask" /\ page.pc = "none"
  BY <1>1 DEF Ask
<1>3. /\ page \in Page /\ page.objects = <<>> /\ page.prefixes = <<>>
      /\ ~ page.truncated /\ page.count = 0
      /\ s.kind = "objects" => page.count = Len(page.objects) + Len(page.prefixes)
  BY <1>2 DEF IInv, PageOK, ShapeOK
<1>4. /\ g \in Page /\ g.pc = "collect" /\ g.names = {k \in Keys : versions[k] # <<>>}
      /\ g.objects = <<>> /\ g.prefixes = <<>> /\ ~ g.truncated /\ g.count = 0
      /\ s.kind = "objects" => g.count = Len(g.objects) + Len(g.prefixes)
  BY <1>1, <1>3 DEF Page
<1>5. ShapeOK(g)
  BY <1>4 DEF ShapeOK
<1>6. PrefixesOK(g) /\ ObjectsOK(g)
  BY <1>4, NoEntries
<1>7. CoverOK(g)
  BY <1>4, HeldThere DEF CoverOK, IInv, PageOK
<1>8. QED
  BY <1>2, <1>5, <1>6, <1>7, WithinPage DEF PageOK

LEMMA CollectKeeps ==
  ASSUME IInv, Collect
  PROVE  IInv'
<1>1. PICK k \in page.names :
        Goes([page EXCEPT !.names = @ \ {k}, !.keys = IF versions[k] = <<>> THEN @ ELSE @ \cup {k}])
  BY DEF Collect
<1>2. PICK g : g = [page EXCEPT !.names = @ \ {k}, !.keys = IF versions[k] = <<>> THEN @ ELSE @ \cup {k}]
  OBVIOUS
<1>3. Goes(g) /\ page.pc = "collect"
  BY <1>1, <1>2 DEF Collect
<1>4. /\ page \in Page /\ page.objects = <<>> /\ page.prefixes = <<>>
      /\ ~ page.truncated /\ page.count = 0
      /\ s.kind = "objects" => page.count = Len(page.objects) + Len(page.prefixes)
  BY <1>3 DEF IInv, PageOK, ShapeOK
<1>5. /\ g \in Page /\ g.pc = "collect" /\ g.names = page.names \ {k}
      /\ g.keys = IF versions[k] = <<>> THEN page.keys ELSE page.keys \cup {k}
      /\ g.objects = <<>> /\ g.prefixes = <<>> /\ ~ g.truncated /\ g.count = 0
      /\ s.kind = "objects" => g.count = Len(g.objects) + Len(g.prefixes)
  BY <1>2, <1>3, <1>4 DEF Page
<1>6. ShapeOK(g)
  BY <1>5 DEF ShapeOK
<1>7. PrefixesOK(g) /\ ObjectsOK(g)
  BY <1>5, NoEntries
<1>8. CoverOK(g)
  <2>1. \A c \in constant : c.key \in Matching => c.key \in page.names \cup page.keys
    BY <1>3 DEF IInv, PageOK, CoverOK
  <2>2. \A c \in constant : c.key \in Matching => c.key \in g.names \cup g.keys
    BY <1>5, <2>1, HeldThere
  <2>3. QED
    BY <1>5, <2>2 DEF IInv, PageOK, CoverOK
<1>9. QED
  BY <1>3, <1>6, <1>7, <1>8, PageAsked, WithinPage DEF PageOK

LEMMA SortKeeps ==
  ASSUME IInv, Sort
  PROVE  IInv'
<1>1. PICK g : g = [page EXCEPT !.pc = "scan"]
  OBVIOUS
<1>2. Goes(g) /\ page.pc = "collect" /\ page.names = {}
  BY <1>1 DEF Sort
<1>3. /\ page \in Page /\ page.objects = <<>> /\ page.prefixes = <<>>
      /\ ~ page.truncated /\ page.count = 0
      /\ s.kind = "objects" => page.count = Len(page.objects) + Len(page.prefixes)
  BY <1>2 DEF IInv, PageOK, ShapeOK
<1>4. /\ g \in Page /\ g.pc = "scan" /\ g.keys = page.keys
      /\ g.objects = <<>> /\ g.prefixes = <<>> /\ ~ g.truncated /\ g.count = 0
      /\ s.kind = "objects" => g.count = Len(g.objects) + Len(g.prefixes)
  BY <1>1, <1>3 DEF Page
<1>5. ShapeOK(g)
  BY <1>4 DEF ShapeOK
<1>6. PrefixesOK(g) /\ ObjectsOK(g)
  BY <1>4, NoEntries
<1>7. CoverOK(g)
  BY <1>2, <1>4 DEF CoverOK, IInv, PageOK
<1>8. QED
  BY <1>2, <1>5, <1>6, <1>7, PageAsked, WithinPage DEF PageOK

\* The key that is next has been treated, and what there has always been to list of
\* it has been answered.
LEMMA TreatedCovers ==
  ASSUME IInv, NEW k, IsNext(k), NEW g, g.pc = "scan", g.keys = page.keys \ {k},
         Range(page.objects) \subseteq Range(g.objects),
         Range(page.prefixes) \subseteq Range(g.prefixes),
         \/ g.truncated /\ s.kind = "versions"
         \/ \A c \in constant : c.key = k /\ k \in Matching => Answered(c, g) \/ Answered(c, listed)
  PROVE  CoverOK(g)
<1>1. page.pc = "scan" /\ ~ page.truncated
  BY DEF IsNext
<1>2. ASSUME NEW c \in constant, c.key \in Matching
      PROVE  /\ \/ c.key \in g.keys \/ Answered(c, g) \/ Answered(c, listed)
                \/ g.truncated /\ s.kind = "versions"
             /\ s.pc = "ask" /\ Passed(Spot(c.key)) => Answered(c, listed)
  <2>1. /\ c.key \in page.keys \/ Answered(c, page) \/ Answered(c, listed)
        /\ s.pc = "ask" /\ Passed(Spot(c.key)) => Answered(c, listed)
    BY <1>1, <1>2 DEF IInv, PageOK, CoverOK
  <2>2. Answered(c, page) => Answered(c, g)
    BY DEF Answered
  <2>3. QED
    BY <1>2, <2>1, <2>2
<1>3. QED
  BY <1>2 DEF CoverOK

LEMMA SkipKeeps ==
  ASSUME IInv, NEW k \in Keys, Skip(k)
  PROVE  IInv'
<1>1. PICK g : g = [page EXCEPT !.keys = @ \ {k}]
  OBVIOUS
<1>2. Goes(g) /\ IsNext(k) /\ page.pc = "scan"
  BY <1>1 DEF Skip, IsNext
<1>3. ShapeOK(page) /\ PrefixesOK(page) /\ ObjectsOK(page)
  BY DEF IInv, PageOK
<1>4. /\ g \in Page /\ g.pc = page.pc /\ g.keys = page.keys \ {k} /\ g.count = page.count
      /\ g.objects = page.objects /\ g.prefixes = page.prefixes /\ g.truncated = page.truncated
  BY <1>1, <1>3 DEF ShapeOK, Page
<1>5. ShapeOK(g)
  BY <1>3, <1>4 DEF ShapeOK
<1>6. PrefixesOK(g) /\ ObjectsOK(g)
  <2>1. PICK h : h = page
    OBVIOUS
  <2>2. QED
    BY <1>3, <1>4, <2>1, FewerKeys
<1>7. ASSUME NEW c \in constant, c.key = k, k \in Matching
      PROVE  Answered(c, g) \/ Answered(c, listed)
  <2>1. s.pc = "ask" /\ (Passed(Spot(k)) => Answered(c, listed))
    BY <1>2, <1>7, PageAsked DEF IInv, PageOK, CoverOK
  <2>2. \/ Common(k) = {} /\ Passed(k)
        \/ \E p \in Common(k) : Passed(p) \/ p \in Range(page.prefixes)
    BY <1>7 DEF Skip, Matching
  <2>3. CASE Common(k) = {} /\ Passed(k)
    BY <2>1, <2>3, CommonSpot
  <2>4. ASSUME NEW p \in Common(k), Passed(p) \/ p \in Range(page.prefixes)
        PROVE  Answered(c, g) \/ Answered(c, listed)
    <3>1. p = Spot(k) /\ Common(k) = {p}
      BY CommonSpot
    <3>2. CASE Passed(p)
      BY <2>1, <3>1, <3>2
    <3>3. CASE p \in Range(page.prefixes)
      BY <1>4, <1>7, <3>1, <3>3 DEF Answered
    <3>4. QED
      BY <2>4, <3>2, <3>3
  <2>5. QED
    BY <2>2, <2>3, <2>4
<1>8. CoverOK(g)
  BY <1>2, <1>4, <1>7, TreatedCovers
<1>9. QED
  BY <1>2, <1>5, <1>6, <1>8, PageAsked, WithinPage DEF PageOK

\* A page with other keys, entries and counts.
LEMMA PageWith ==
  ASSUME page \in Page, NEW g,
         g = [pc |-> g.pc, names |-> g.names, keys |-> g.keys, count |-> g.count,
              truncated |-> g.truncated, objects |-> g.objects, prefixes |-> g.prefixes],
         g.pc = page.pc, g.names = page.names, g.keys \subseteq page.keys, g.count \in Nat,
         g.truncated \in BOOLEAN, g.objects \in Seq(Entry), g.prefixes \in Seq(Seq(Nat))
  PROVE  g \in Page
<1>1. g.pc \in {"none", "collect", "scan"} /\ g.names \in SUBSET Keys /\ g.keys \in SUBSET Keys
  BY DEF Page
<1>2. QED
  BY <1>1 DEF Page

\* The page is full when the next key's turn comes, which stands behind all prefixes.
LEMMA FullKeeps ==
  ASSUME IInv, NEW k \in Matching, IsNext(k), Full, Goes([page EXCEPT !.truncated = TRUE]),
         Spot(k) \notin Range(page.prefixes)
  PROVE  IInv'
<1>1. PICK g : g = [page EXCEPT !.truncated = TRUE]
  OBVIOUS
<1>2. Goes(g) /\ page.pc = "scan" /\ TypeOK
  BY <1>1 DEF IsNext, IInv
<1>3. ShapeOK(page) /\ PrefixesOK(page) /\ ObjectsOK(page) /\ CoverOK(page)
  BY DEF IInv, PageOK
<1>4. /\ g \in Page /\ g.pc = page.pc /\ g.keys = page.keys /\ g.count = page.count
      /\ g.objects = page.objects /\ g.prefixes = page.prefixes /\ g.truncated
  BY <1>1, <1>3 DEF ShapeOK, Page
<1>5. ShapeOK(g)
  <2>1. s.max \in Int /\ page.count \in Nat /\ page.count > 0
    BY <1>2, <1>3 DEF Full, TypeOK, ShapeOK, Page
  <2>2. QED
    BY <1>2, <1>3, <1>4, <2>1 DEF ShapeOK
<1>6. PrefixesOK(g)
  <2>1. ASSUME NEW p \in Range(page.prefixes), NEW l \in page.keys \cap Matching
        PROVE  p # Spot(l)
    <3>1. l \in Matching /\ LessEq(k, l) /\ k \in page.keys
      BY DEF IsNext
    <3>2. LessEq(Spot(k), Spot(l)) /\ LessEq(p, Spot(k)) /\ p # Spot(k)
      BY <1>2, <1>3, <3>1, SpotsInOrder DEF PrefixesOK
    <3>3. p \in Seq(Nat) /\ Spot(k) \in Seq(Nat) /\ Spot(l) \in Seq(Nat)
      BY <1>2, <1>3, <3>1, SpotSeq, RangeIn DEF ShapeOK, Page
    <3>4. Less(p, Spot(l))
      BY <3>2, <3>3, LessEqOrder
    <3>5. QED
      BY <3>3, <3>4, LessIrreflexive
  <2>2. QED
    BY <1>3, <1>4, <2>1 DEF PrefixesOK
<1>7. ObjectsOK(g)
  BY <1>3, <1>4 DEF ObjectsOK
<1>8. CoverOK(g)
  BY <1>2, <1>3, <1>4 DEF CoverOK, Answered
<1>9. QED
  BY <1>2, <1>5, <1>6, <1>7, <1>8, PageAsked, WithinPage DEF PageOK

LEMMA RollUpKeeps ==
  ASSUME IInv, NEW k \in Keys, RollUp(k)
  PROVE  IInv'
<1>1. PICK c \in Common(k) :
        /\ ~ Passed(c) /\ c \notin Range(page.prefixes)
        /\ IF Full THEN Goes([page EXCEPT !.truncated = TRUE])
           ELSE Goes([page EXCEPT !.keys = @ \ {k}, !.count = @ + 1, !.prefixes = Append(@, c)])
  BY DEF RollUp
<1>2. /\ IsNext(k) /\ k \in Matching /\ c = Spot(k) /\ Common(k) = {c} /\ TypeOK
      /\ page.pc = "scan" /\ ~ page.truncated /\ k \in page.keys
  BY <1>1, CommonSpot DEF RollUp, Matching, IInv, IsNext
<1>3. CASE Full
  BY <1>1, <1>2, <1>3, FullKeeps
<1>4. CASE ~ Full
  <2>1. PICK g : g = [page EXCEPT !.keys = @ \ {k}, !.count = @ + 1, !.prefixes = Append(@, c)]
    OBVIOUS
  <2>2. Goes(g)
    BY <1>1, <1>4, <2>1
  <2>3. ShapeOK(page) /\ PrefixesOK(page) /\ ObjectsOK(page)
    BY DEF IInv, PageOK
  <2>4. c \in Seq(Nat) /\ page.prefixes \in Seq(Seq(Nat)) /\ page \in Page
    BY <1>2, <2>3, SpotSeq DEF ShapeOK, Page
  <2>5. PICK one : one = <<c>>
    OBVIOUS
  <2>6. one \in Seq(Seq(Nat)) /\ one # <<>> /\ Range(one) = {c} /\ Last(one) = c /\ Distinct(one)
        /\ Len(one) = 1 /\ Append(page.prefixes, c) = page.prefixes \o one
    BY <2>4, <2>5, OneSeq
  <2>7. PICK a : a = page.prefixes
    OBVIOUS
  <2>8. /\ g.keys = page.keys \ {k} /\ g.count = page.count + 1 /\ g.prefixes = a \o one
        /\ g.objects = page.objects /\ g.pc = page.pc /\ g.truncated = page.truncated
        /\ g.names = page.names
    BY <2>1, <2>4, <2>6, <2>7 DEF Page
  <2>9. /\ a \o one \in Seq(Seq(Nat)) /\ Range(a \o one) = Range(a) \cup {c}
        /\ Len(a \o one) = Len(a) + 1 /\ Last(a \o one) = c
        /\ Distinct(a) /\ c \notin Range(a) => Distinct(a \o one)
    BY <2>4, <2>6, <2>7, JoinedSeq
  <2>10. ShapeOK(g)
    <3>1. /\ g = [pc |-> g.pc, names |-> g.names, keys |-> g.keys, count |-> g.count,
                  truncated |-> g.truncated, objects |-> g.objects, prefixes |-> g.prefixes]
      BY <2>1, <2>4 DEF Page
    <3>2. g \in Page
      <4>1. g.count \in Nat /\ g.truncated \in BOOLEAN /\ g.objects \in Seq(Entry) /\ g.prefixes \in Seq(Seq(Nat))
        BY <2>4, <2>8, <2>9 DEF Page
      <4>2. QED
        BY <2>4, <2>8, <3>1, <4>1, PageWith
    <3>3. s.kind = "objects" => g.count = Len(g.objects) + Len(g.prefixes)
      BY <2>3, <2>4, <2>7, <2>8, <2>9 DEF ShapeOK, Page
    <3>4. QED
      BY <1>2, <2>8, <3>2, <3>3 DEF ShapeOK
  <2>11. PrefixesOK(g)
    <3>1. Distinct(g.prefixes)
      BY <1>1, <2>3, <2>7, <2>8, <2>9 DEF PrefixesOK
    <3>2. ASSUME NEW p \in Range(g.prefixes)
          PROVE  /\ \E l \in Matching : p \in Common(l)
                 /\ ~ Passed(p) /\ LessEq(p, c)
                 /\ \A l \in g.keys \cap Matching : LessEq(p, Spot(l))
      <4>1. CASE p = c
        <5>1. \A l \in g.keys \cap Matching : LessEq(k, l)
          BY <1>2, <2>8 DEF IsNext
        <5>2. \A l \in g.keys \cap Matching : LessEq(Spot(k), Spot(l))
          BY <1>2, <5>1, SpotsInOrder
        <5>3. QED
          BY <1>1, <1>2, <2>4, <4>1, <5>2, LessEqOrder
      <4>2. CASE p \in Range(a)
        BY <1>2, <2>3, <2>7, <2>8, <4>2 DEF PrefixesOK
      <4>3. QED
        BY <2>8, <2>9, <4>1, <4>2
    <3>3. QED
      BY <1>2, <2>8, <2>9, <3>1, <3>2 DEF PrefixesOK
  <2>12. ObjectsOK(g)
    BY <2>3, <2>8 DEF ObjectsOK
  <2>13. CoverOK(g)
    <3>1. Range(page.prefixes) \subseteq Range(g.prefixes) /\ c \in Range(g.prefixes)
      BY <2>7, <2>8, <2>9
    <3>2. \A x \in constant : x.key = k => Answered(x, g)
      BY <1>2, <3>1 DEF Answered
    <3>3. QED
      BY <1>2, <2>8, <3>1, <3>2, TreatedCovers
  <2>14. QED
    BY <1>2, <2>2, <2>10, <2>11, <2>12, <2>13, PageAsked, WithinPage DEF PageOK
<1>5. QED
  BY <1>3, <1>4

\* The next key is answered itself, with some of the entries of its versions: each
\* under that key, all of them if the page is not truncated.
LEMMA ListedKeeps ==
  ASSUME IInv, NEW k \in Matching, IsNext(k), Common(k) = {}, s.kind = "objects" => ~ Passed(k),
         NEW new \in Seq(Entry), Distinct(new), \A e \in Range(new) : e.key = k,
         NEW g, Goes(g), g \in Page, g.pc = "scan", g.keys = page.keys \ {k},
         g.count = page.count + Len(new), g.objects = page.objects \o new, g.prefixes = page.prefixes,
         g.truncated => s.kind = "versions",
         g.truncated \/ \A c \in constant : c.key = k => c \in Range(new)
  PROVE  IInv'
<1>1. /\ ShapeOK(page) /\ PrefixesOK(page) /\ ObjectsOK(page) /\ TypeOK
      /\ page.pc = "scan" /\ ~ page.truncated /\ k \in page.keys /\ page \in Page
  BY DEF IInv, PageOK, IsNext, ShapeOK
<1>2. PICK a : a = page.objects
  OBVIOUS
<1>3. a \in Seq(Entry) /\ g.objects = a \o new
  BY <1>1, <1>2 DEF Page
<1>4. Range(a) \cap Range(new) = {}
  <2>1. SUFFICES ASSUME NEW e \in Range(a), e \in Range(new)
                 PROVE  FALSE
    OBVIOUS
  <2>2. Less(e.key, k) /\ e.key = k
    BY <1>1, <1>2, <2>1 DEF ObjectsOK
  <2>3. QED
    BY <2>2, KeySeq, LessIrreflexive DEF Matching
<1>5. /\ Range(a \o new) = Range(a) \cup Range(new) /\ Len(a \o new) = Len(a) + Len(new)
      /\ new # <<>> => Last(a \o new) = Last(new) /\ Last(new) \in Range(new)
      /\ Distinct(a \o new)
  <2>1. Distinct(a)
    BY <1>1, <1>2 DEF ObjectsOK
  <2>2. QED
    BY <1>3, <1>4, <2>1, JoinedSeq
<1>6. ShapeOK(g)
  <2>1. s.kind = "objects" => g.count = Len(g.objects) + Len(g.prefixes) /\ ~ g.truncated
    <3>1. s.kind = "objects" => page.count = Len(a) + Len(page.prefixes)
      BY <1>1, <1>2 DEF ShapeOK
    <3>2. Len(a) \in Nat /\ Len(page.prefixes) \in Nat /\ Len(new) \in Nat
      BY <1>1, <1>3 DEF Page
    <3>3. Len(g.objects) = Len(a) + Len(new) /\ Len(g.prefixes) = Len(page.prefixes)
      BY <1>3, <1>5
    <3>4. g.count = page.count + Len(new)
      OBVIOUS
    <3>5. s.kind = "objects" => g.count = Len(g.objects) + Len(g.prefixes)
      <4>1. PICK x, y, z : x = Len(a) /\ y = Len(new) /\ z = Len(page.prefixes)
        OBVIOUS
      <4>2. (x + z) + y = (x + y) + z
        <5>1. x \in Nat /\ y \in Nat /\ z \in Nat
          BY <3>2, <4>1, Zenon
        <5>2. QED
          BY <5>1
      <4>3. s.kind = "objects" => g.count = (x + z) + y
        BY <3>1, <3>4, <4>1, Zenon
      <4>4. Len(g.objects) + Len(g.prefixes) = (x + y) + z
        BY <3>3, <4>1, Zenon
      <4>5. QED
        BY <4>2, <4>3, <4>4, Zenon
    <3>6. s.kind = "objects" => ~ g.truncated
      OBVIOUS
    <3>7. QED
      BY <3>5, <3>6
  <2>2. QED
    BY <2>1 DEF ShapeOK
<1>7. PrefixesOK(g)
  BY <1>1 DEF PrefixesOK
<1>8. ObjectsOK(g)
  <2>1. \A l \in g.keys : l \in Keys /\ LessEq(k, l) /\ l # k
    BY <1>1 DEF IsNext, Page
  <2>2. \A l \in g.keys : Less(k, l)
    BY <2>1 DEF LessEq
  <2>3. k \in Keys /\ k \in Seq(Nat)
    BY KeySeq DEF Matching
  <2>4. ASSUME NEW o \in Range(g.objects)
        PROVE  /\ o.key \in Matching /\ Common(o.key) = {} /\ LessEq(o.key, Last(g.objects).key)
               /\ s.kind = "objects" => ~ Passed(o.key)
               /\ \A l \in g.keys : Less(o.key, l)
    <3>1. CASE o \in Range(new)
      <4>1. new # <<>>
        BY <3>1, NoElements
      <4>2. Last(g.objects).key = k /\ o.key = k
        BY <1>3, <1>5, <3>1, <4>1
      <4>3. LessEq(o.key, Last(g.objects).key)
        BY <4>2 DEF LessEq
      <4>4. QED
        BY <2>2, <4>2, <4>3
    <3>2. CASE o \in Range(a)
      <4>1. /\ o.key \in Matching /\ Common(o.key) = {} /\ LessEq(o.key, Last(a).key)
            /\ s.kind = "objects" => ~ Passed(o.key)
            /\ Less(o.key, k) /\ \A l \in g.keys : Less(o.key, l)
        BY <1>1, <1>2, <3>2 DEF ObjectsOK
      <4>2. CASE new = <<>>
        <5>1. a \o new = a
          BY <1>3, <4>2
        <5>2. QED
          BY <1>3, <4>1, <5>1
      <4>3. CASE new # <<>>
        <5>1. Last(g.objects).key = k
          BY <1>3, <1>5, <4>3
        <5>2. LessEq(o.key, k)
          BY <4>1 DEF LessEq
        <5>3. QED
          BY <4>1, <5>1, <5>2
      <4>4. QED
        BY <4>2, <4>3
    <3>3. QED
      BY <1>3, <1>5, <3>1, <3>2
  <2>5. QED
    BY <1>3, <1>5, <2>4 DEF ObjectsOK
<1>9. CoverOK(g)
  <2>1. Range(page.objects) \subseteq Range(g.objects) /\ Range(new) \subseteq Range(g.objects)
    BY <1>2, <1>3, <1>5
  <2>2. CASE g.truncated
    BY <2>1, <2>2, TreatedCovers
  <2>3. CASE ~ g.truncated
    <3>1. \A c \in constant : c.key = k => Answered(c, g)
      BY <2>1, <2>3 DEF Answered
    <3>2. QED
      BY <2>1, <3>1, TreatedCovers
  <2>4. QED
    BY <2>2, <2>3
<1>10. QED
  BY <1>1, <1>6, <1>7, <1>8, <1>9, PageAsked, WithinPage DEF PageOK

LEMMA ListKeeps ==
  ASSUME IInv, NEW k \in Keys, List(k)
  PROVE  IInv'
<1>1. PICK new : new = Entries(k, versions[k])
  OBVIOUS
<1>2. /\ s.kind = "objects" /\ IsNext(k) /\ k \in Matching /\ Common(k) = {} /\ ~ Passed(k)
      /\ IF Full THEN Goes([page EXCEPT !.truncated = TRUE])
         ELSE Goes([page EXCEPT !.keys = @ \ {k}, !.count = @ + Len(new), !.objects = @ \o new])
  BY <1>1 DEF List, Matching
<1>3. /\ page \in Page /\ page.pc = "scan" /\ ~ page.truncated /\ k \in page.keys
      /\ PrefixesOK(page) /\ TypeOK /\ VersionsOK
  BY <1>2 DEF IInv, PageOK, ShapeOK, IsNext
<1>4. CASE Full
  <2>1. Spot(k) \notin Range(page.prefixes)
    <3>1. SUFFICES ASSUME k \in Range(page.prefixes)
                   PROVE  FALSE
      BY <1>2, CommonSpot
    <3>2. PICK l \in Matching : k \in Common(l)
      BY <1>3, <3>1 DEF PrefixesOK
    <3>3. Common(l) # {} /\ k = Spot(l)
      BY <3>2, CommonSpot
    <3>4. QED
      BY <1>2, <1>3, <3>3, SpotsApart
  <2>2. QED
    BY <1>2, <1>4, <2>1, FullKeeps
<1>5. CASE ~ Full
  <2>1. PICK g : g = [page EXCEPT !.keys = @ \ {k}, !.count = @ + Len(new), !.objects = @ \o new]
    OBVIOUS
  <2>2. Goes(g)
    BY <1>2, <1>5, <2>1
  <2>3. PICK vs, n : vs = versions[k] /\ n = last
    OBVIOUS
  <2>4. Fine(vs, n) /\ new = Entries(k, vs)
    BY <1>1, <1>3, <2>3, KeysVersions
  <2>5. new \in Seq(Entry) /\ Distinct(new) /\ (\A e \in Range(new) : e.key = k)
    BY <1>3, <2>4, EntriesSeq
  <2>6. /\ g.pc = "scan" /\ g.keys = page.keys \ {k} /\ g.count = page.count + Len(new)
        /\ g.objects = page.objects \o new /\ g.prefixes = page.prefixes /\ ~ g.truncated
    BY <1>3, <2>1 DEF Page
  <2>7. g \in Page
    <3>1. g = [pc |-> g.pc, names |-> g.names, keys |-> g.keys, count |-> g.count,
                  truncated |-> g.truncated, objects |-> g.objects, prefixes |-> g.prefixes]
      BY <1>3, <2>1 DEF Page
    <3>2. g.names = page.names /\ g.count \in Nat /\ g.truncated \in BOOLEAN
      BY <1>3, <2>1, <2>5 DEF Page
    <3>3. g.objects \in Seq(Entry) /\ g.prefixes \in Seq(Seq(Nat))
      BY <1>3, <2>5, <2>6 DEF Page
    <3>4. QED
      BY <1>3, <2>6, <3>1, <3>2, <3>3, PageWith
  <2>8. \A c \in constant : c.key = k => c \in Range(new)
    BY <1>1, HeldThere
  <2>9. QED
    BY <1>2, <2>2, <2>5, <2>6, <2>7, <2>8, ListedKeeps
<1>6. QED
  BY <1>4, <1>5

LEMMA ListVersionsKeeps ==
  ASSUME IInv, NEW k \in Keys, ListVersions(k)
  PROVE  IInv'
<1>1. PICK all : all = Entries(k, versions[k])
  OBVIOUS
<1>2. PICK mn : mn = {n \in 0 .. Len(all) : n = Len(all) \/ (s.max > 0 /\ page.count + n = s.max)}
  OBVIOUS
<1>3. PICK n : n = CHOOSE m \in mn : \A j \in mn : m <= j
  OBVIOUS
<1>4. PICK new : new = SubSeq(all, 1, n)
  OBVIOUS
<1>5. PICK g : g = [page EXCEPT !.keys = @ \ {k}, !.count = @ + n, !.truncated = n < Len(all),
                                !.objects = @ \o new]
  OBVIOUS
<1>6. /\ s.kind = "versions" /\ IsNext(k) /\ k \in Matching /\ Common(k) = {} /\ Goes(g)
  BY <1>1, <1>2, <1>3, <1>4, <1>5 DEF ListVersions, Matching
<1>7. page \in Page /\ page.pc = "scan" /\ ~ page.truncated /\ k \in page.keys /\ TypeOK /\ VersionsOK
  BY <1>6 DEF IInv, PageOK, ShapeOK, IsNext
<1>8. all \in Seq(Entry) /\ Distinct(all) /\ (\A e \in Range(all) : e.key = k)
  <2>1. PICK vs, m : vs = versions[k] /\ m = last
    OBVIOUS
  <2>2. Fine(vs, m) /\ all = Entries(k, vs)
    BY <1>1, <1>7, <2>1, KeysVersions
  <2>3. QED
    BY <1>7, <2>2, EntriesSeq
<1>9. n \in 0 .. Len(all)
  <2>1. Len(all) \in mn /\ mn \in SUBSET Nat
    BY <1>2, <1>8
  <2>2. \E m \in mn : \A j \in mn : m <= j
    BY <2>1, Smallest
  <2>3. n \in mn
    BY <1>3, <2>2
  <2>4. QED
    BY <1>2, <2>3
<1>10. /\ new \in Seq(Entry) /\ Len(new) = n /\ Distinct(new) /\ Range(new) \subseteq Range(all)
       /\ n = Len(all) => new = all
  BY <1>4, <1>8, <1>9, CutSeq
<1>11. /\ g.pc = "scan" /\ g.keys = page.keys \ {k} /\ g.count = page.count + Len(new)
       /\ g.objects = page.objects \o new /\ g.prefixes = page.prefixes /\ g.truncated = (n < Len(all))
  BY <1>5, <1>7, <1>10 DEF Page
<1>12. g \in Page
  <2>1. g = [pc |-> g.pc, names |-> g.names, keys |-> g.keys, count |-> g.count,
                truncated |-> g.truncated, objects |-> g.objects, prefixes |-> g.prefixes]
    BY <1>5, <1>7 DEF Page
  <2>2. g.names = page.names /\ g.count \in Nat /\ g.truncated \in BOOLEAN
    BY <1>5, <1>7, <1>9 DEF Page
  <2>3. g.objects \in Seq(Entry) /\ g.prefixes \in Seq(Seq(Nat))
    BY <1>7, <1>10, <1>11 DEF Page
  <2>4. QED
    BY <1>7, <1>11, <2>1, <2>2, <2>3, PageWith
<1>13. g.truncated \/ \A c \in constant : c.key = k => c \in Range(new)
  <2>1. ~ (n < Len(all)) => new = all
    BY <1>8, <1>9, <1>10
  <2>2. \A c \in constant : c.key = k => c \in Range(all)
    BY <1>1, HeldThere
  <2>3. QED
    BY <1>11, <2>1, <2>2
<1>14. QED
  BY <1>6, <1>8, <1>10, <1>11, <1>12, <1>13, ListedKeeps

-----------------------------------------------------------------------------
(* The end of a page.                                                      *)

\* The marker of the next page is behind the one before and not before anything that
\* was answered; what is still to come stands behind it.
LEMMA NextMarkerBetween ==
  ASSUME IInv, page.pc = "scan", page.truncated, s.kind = "objects", NEW m, m = NextMarker
  PROVE  /\ m \in Seq(Nat) /\ m # <<>>
         /\ s.marker # <<>> => Less(s.marker, m)
         /\ \A p \in Range(page.prefixes) : LessEq(p, m)
         /\ s.delimiter = NoDelimiter => \A o \in Range(page.objects) : LessEq(o.key, m)
         /\ \A k \in page.keys \cap Matching : Less(m, Spot(k))
<1>1. /\ TypeOK /\ ShapeOK(page) /\ PrefixesOK(page) /\ ObjectsOK(page) /\ page \in Page
      /\ s.marker \in Seq(Nat)
  BY DEF IInv, PageOK, ShapeOK, TypeOK
<1>2. page.objects \in Seq(Entry) /\ page.prefixes \in Seq(Seq(Nat))
  BY <1>1 DEF Page
<1>3. CASE page.prefixes # <<>>
  <2>1. m = Last(page.prefixes) /\ m \in Range(page.prefixes)
    BY <1>2, <1>3, LastIn DEF NextMarker
  <2>2. PICK l \in Matching : m \in Common(l)
    BY <1>1, <2>1 DEF PrefixesOK
  <2>3. m \in Seq(Nat) /\ m # <<>>
    BY <1>1, <2>2, CommonSpot, SpotSeq
  <2>4. /\ ~ Passed(m) /\ \A p \in Range(page.prefixes) : LessEq(p, m)
        /\ \A k \in page.keys \cap Matching : LessEq(m, Spot(k)) /\ m # Spot(k)
    BY <1>1, <2>1 DEF PrefixesOK
  <2>5. s.marker # <<>> => Less(s.marker, m)
    BY <1>1, <2>3, <2>4, LessEqOrder DEF Passed
  <2>6. s.delimiter # NoDelimiter
    BY <1>1, <2>2, NoCommon DEF Matching
  <2>7. ASSUME NEW k \in page.keys \cap Matching
        PROVE  Less(m, Spot(k))
    BY <1>1, <2>3, <2>4, SpotSeq, LessEqOrder
  <2>8. QED
    BY <2>3, <2>4, <2>5, <2>6, <2>7
<1>4. CASE page.prefixes = <<>>
  <2>1. page.objects # <<>>
    <3>1. page.count = Len(page.objects) + Len(page.prefixes) /\ page.count > 0
      BY <1>1 DEF ShapeOK
    <3>2. Len(page.prefixes) = 0
      BY <1>4
    <3>3. Len(page.objects) # 0
      <4>1. PICK x, y : x = Len(page.objects) /\ y = Len(page.prefixes)
        OBVIOUS
      <4>2. x + y > 0 /\ y = 0 /\ x \in Nat
        BY <1>2, <3>1, <3>2, <4>1
      <4>3. QED
        BY <4>1, <4>2
    <3>4. QED
      BY <3>3
  <2>2. PICK o : o = Last(page.objects)
    OBVIOUS
  <2>3. m = o.key /\ o \in Range(page.objects) /\ o \in Entry
    BY <1>2, <1>4, <2>1, <2>2, LastIn DEF NextMarker
  <2>4. /\ m \in Matching /\ Common(m) = {} /\ ~ Passed(m) /\ \A k \in page.keys : Less(m, k)
        /\ \A e \in Range(page.objects) : LessEq(e.key, m)
    BY <1>1, <2>2, <2>3 DEF ObjectsOK
  <2>5. m \in Seq(Nat) /\ m # <<>> /\ Spot(m) = m
    BY <1>1, <2>4, SpotSeq, CommonSpot
  <2>6. s.marker # <<>> => Less(s.marker, m)
    BY <1>1, <2>4, <2>5, LessEqOrder DEF Passed
  <2>7. ASSUME NEW p \in Range(page.prefixes)
        PROVE  FALSE
    BY <1>4, <2>7, NoElements
  <2>8. ASSUME NEW k \in page.keys \cap Matching
        PROVE  Less(m, Spot(k))
    <3>1. k \in Seq(Nat) /\ k \in Matching /\ Spot(k) \in Seq(Nat) /\ Less(m, k)
      BY <1>1, <2>4, KeySeq, SpotSeq DEF Matching
    <3>2. LessEq(m, k) /\ m # k
      BY <2>5, <3>1, LessIrreflexive DEF LessEq
    <3>3. LessEq(m, Spot(k))
      BY <1>1, <2>4, <2>5, <3>1, <3>2, SpotsInOrder
    <3>4. m # Spot(k)
      BY <1>1, <2>4, <3>1, <3>2, CommonSpot, SpotsApart
    <3>5. QED
      BY <2>5, <3>1, <3>3, <3>4, LessEqOrder
  <2>9. QED
    BY <2>4, <2>5, <2>6, <2>7, <2>8
<1>5. QED
  BY <1>3, <1>4

\* What a page answers was not answered before.
LEMMA PageIsNew ==
  ASSUME IInv, page.pc = "scan"
  PROVE  /\ Range(listed.prefixes) \cap Range(page.prefixes) = {}
         /\ s.delimiter = NoDelimiter => Range(listed.objects) \cap Range(page.objects) = {}
<1>1. s.pc = "ask" /\ SessionOK /\ PrefixesOK(page) /\ ObjectsOK(page)
  BY PageAsked DEF IInv, PageOK
<1>2. CASE s.marker = <<>>
  <2>1. listed.prefixes = <<>> /\ listed.objects = <<>>
    BY <1>1, <1>2 DEF SessionOK
  <2>2. PICK e : e = <<>>
    OBVIOUS
  <2>3. Range(e) = {}
    BY <2>2, NoElements
  <2>4. QED
    BY <2>1, <2>2, <2>3
<1>3. CASE s.marker # <<>>
  <2>1. s.kind = "objects"
    BY <1>1, <1>3 DEF IInv, TypeOK, SessionOK
  <2>2. \A p \in Range(page.prefixes) : ~ LessEq(p, s.marker)
    BY <1>1, <1>3 DEF PrefixesOK, Passed
  <2>3. \A q \in Range(listed.prefixes) : LessEq(q, s.marker)
    BY <1>1 DEF SessionOK
  <2>4. \A o \in Range(page.objects) : ~ LessEq(o.key, s.marker)
    BY <1>1, <1>3, <2>1 DEF ObjectsOK, Passed
  <2>5. s.delimiter = NoDelimiter => \A o \in Range(listed.objects) : LessEq(o.key, s.marker)
    BY <1>1 DEF SessionOK
  <2>6. QED
    BY <2>2, <2>3, <2>4, <2>5
<1>4. QED
  BY <1>2, <1>3

LEMMA AnswerKeeps ==
  ASSUME IInv, Answer
  PROVE  IInv'
<1>1. PICK a, b, c, d : /\ a = listed.objects /\ b = page.objects
                        /\ c = listed.prefixes /\ d = page.prefixes
  OBVIOUS
<1>2. /\ page.pc = "scan" /\ (page.keys = {} \/ page.truncated)
      /\ listed' = [objects |-> a \o b, prefixes |-> c \o d]
      /\ page' = Blank /\ UNCHANGED <<versions, last, constant>>
  BY <1>1 DEF Answer
<1>3. /\ TypeOK /\ SessionOK /\ ShapeOK(page) /\ PrefixesOK(page) /\ ObjectsOK(page) /\ CoverOK(page)
      /\ NothingTwice /\ s.pc = "ask"
  BY <1>2, PageAsked DEF IInv, PageOK
<1>4. a \in Seq(Entry) /\ b \in Seq(Entry) /\ c \in Seq(Seq(Nat)) /\ d \in Seq(Seq(Nat))
  BY <1>1, <1>3 DEF TypeOK, ShapeOK, Page
<1>5. /\ a \o b \in Seq(Entry) /\ Range(a \o b) = Range(a) \cup Range(b)
      /\ c \o d \in Seq(Seq(Nat)) /\ Range(c \o d) = Range(c) \cup Range(d)
      /\ Distinct(a) /\ Distinct(b) /\ Range(a) \cap Range(b) = {} => Distinct(a \o b)
      /\ Distinct(c) /\ Distinct(d) /\ Range(c) \cap Range(d) = {} => Distinct(c \o d)
  BY <1>4, JoinedSeq
<1>6. listed'.objects = a \o b /\ listed'.prefixes = c \o d
  BY <1>2
<1>7. PICK m : m = NextMarker
  OBVIOUS
<1>8. \/ ~ page.truncated /\ s' = [s EXCEPT !.pc = "done"]
      \/ page.truncated /\ s.kind = "versions" /\ s' = [s EXCEPT !.pc = "left"]
      \/ page.truncated /\ s.kind = "objects" /\ s' = [s EXCEPT !.marker = m]
  BY <1>3, <1>7 DEF Answer, TypeOK
<1>9. /\ s'.kind = s.kind /\ s'.prefix = s.prefix /\ s'.delimiter = s.delimiter
      /\ s'.pc \in {"ask", "done", "left"} /\ s'.marker \in {s.marker, m}
      /\ s'.pc = "done" => ~ page.truncated
      /\ s'.pc = "ask" => page.truncated /\ s.kind = "objects" /\ s'.marker = m
  BY <1>3, <1>8 DEF TypeOK
<1>10. page.truncated /\ s.kind = "objects" =>
         /\ m \in Seq(Nat) /\ m # <<>>
         /\ s.marker # <<>> => Less(s.marker, m)
         /\ \A p \in Range(d) : LessEq(p, m)
         /\ s.delimiter = NoDelimiter => \A o \in Range(b) : LessEq(o.key, m)
         /\ \A k \in page.keys \cap Matching : Less(m, Spot(k))
  BY <1>1, <1>2, <1>7, NextMarkerBetween
<1>11. /\ \A k : Common(k)' = Common(k) /\ Spot(k)' = Spot(k)
       /\ Matching' = Matching
  <2>1. ASSUME NEW k
        PROVE  Common(k)' = Common(k) /\ Spot(k)' = Spot(k)
    BY <1>9 DEF Common, Spot
  <2>2. Matching' = Matching
    BY <1>9 DEF Matching
  <2>3. QED
    BY <2>1, <2>2
<1>12. ASSUME NEW x \in constant
       PROVE  Answered(x, listed)' <=> Answered(x, page) \/ Answered(x, listed)
  <2>1. CASE Common(x.key) = {}
    <3>1. Answered(x, listed)' <=> x \in Range(a \o b)
      BY <1>6, <1>11, <2>1 DEF Answered
    <3>2. QED
      BY <1>1, <1>5, <2>1, <3>1 DEF Answered
  <2>2. CASE Common(x.key) # {}
    <3>1. Answered(x, listed)' <=> Common(x.key) \subseteq Range(c \o d)
      BY <1>6, <1>11, <2>2 DEF Answered
    <3>2. Common(x.key) = {Spot(x.key)}
      BY <2>2, CommonSpot
    <3>3. QED
      BY <1>1, <1>5, <2>2, <3>1, <3>2 DEF Answered
  <2>3. QED
    BY <2>1, <2>2
<1>13. TypeOK'
  <2>1. s' \in [kind : {"objects", "versions"}, prefix : KeyPrefixes, delimiter : Delimiters, max : Int,
                backend : Backends, marker : Seq(Nat), pc : {"ask", "done", "left"}]
    BY <1>3, <1>8, <1>10 DEF TypeOK
  <2>2. listed' \in [objects : Seq(Entry), prefixes : Seq(Seq(Nat))]
    BY <1>2, <1>5
  <2>3. QED
    BY <1>2, <1>3, <2>1, <2>2 DEF TypeOK, Entry
<1>14. VersionsOK'
  BY <1>2 DEF IInv, VersionsOK
<1>15. HeldOK'
  BY <1>2, <1>9 DEF IInv, HeldOK, Entries
<1>16. SessionOK'
  <2>1. page'.pc = "none"
    BY <1>2 DEF Blank
  <2>2. ASSUME s'.pc = "ask"
        PROVE  /\ s'.marker # <<>> /\ s'.kind # "versions"
               /\ \A q \in Range(listed'.prefixes) : LessEq(q, s'.marker)
               /\ s'.delimiter = NoDelimiter => \A o \in Range(listed'.objects) : LessEq(o.key, s'.marker)
    <3>1. page.truncated /\ s.kind = "objects" /\ s'.marker = m /\ m \in Seq(Nat) /\ m # <<>>
      BY <1>9, <1>10, <2>2
    <3>2. s.marker \in Seq(Nat) /\ Range(c) \subseteq Seq(Nat) /\ Range(a) \subseteq Entry
      BY <1>3, <1>4, RangeIn DEF TypeOK
    <3>3. ASSUME NEW q \in Range(c)
          PROVE  LessEq(q, m)
      <4>1. LessEq(q, s.marker)
        BY <1>1, <1>3, <3>3 DEF SessionOK
      <4>2. s.marker # <<>>
        <5>1. c # <<>>
          BY <3>3, NoElements
        <5>2. QED
          BY <1>1, <1>3, <5>1 DEF SessionOK
      <4>3. Less(s.marker, m)
        BY <1>10, <3>1, <4>2
      <4>4. PICK mk : mk = s.marker
        OBVIOUS
      <4>5. Less(q, m)
        BY <3>1, <3>2, <4>1, <4>3, <4>4, LessEqOrder
      <4>6. QED
        BY <4>5 DEF LessEq
    <3>4. ASSUME s.delimiter = NoDelimiter, NEW o \in Range(a)
          PROVE  LessEq(o.key, m)
      <4>1. LessEq(o.key, s.marker)
        BY <1>1, <1>3, <3>4 DEF SessionOK
      <4>2. s.marker # <<>>
        <5>1. a # <<>>
          BY <3>4, NoElements
        <5>2. QED
          BY <1>1, <1>3, <5>1 DEF SessionOK
      <4>3. Less(s.marker, m)
        BY <1>10, <3>1, <4>2
      <4>4. PICK mk : mk = s.marker
        OBVIOUS
      <4>5. o.key \in Seq(Nat)
        BY <3>2, KeySeq DEF Entry
      <4>6. Less(o.key, m)
        BY <3>1, <3>2, <4>1, <4>3, <4>4, <4>5, LessEqOrder
      <4>7. QED
        BY <4>6 DEF LessEq
    <3>5. \A q \in Range(c) \cup Range(d) : LessEq(q, m)
      BY <1>10, <3>1, <3>3
    <3>6. s.delimiter = NoDelimiter => \A o \in Range(a) \cup Range(b) : LessEq(o.key, m)
      BY <1>10, <3>1, <3>4
    <3>7. QED
      BY <1>5, <1>6, <1>9, <3>1, <3>5, <3>6
  <2>3. QED
    BY <2>1, <2>2 DEF SessionOK
<1>17. PageOK(page)'
  <2>1. /\ page'.pc = "none" /\ page'.objects = <<>> /\ page'.prefixes = <<>> /\ ~ page'.truncated
        /\ page'.count = 0 /\ page' \in Page
    <3>1. Blank \in Page
      <4>1. <<>> \in Seq(Entry) /\ <<>> \in Seq(Seq(Nat))
        OBVIOUS
      <4>2. QED
        BY <4>1 DEF Blank, Page
    <3>2. QED
      BY <1>2, <3>1 DEF Blank
  <2>2. ShapeOK(page)'
    <3>1. Len(page'.objects) + Len(page'.prefixes) = 0
      BY <2>1
    <3>2. QED
      BY <2>1, <3>1 DEF ShapeOK, Page, Entry
  <2>3. PrefixesOK(page)' /\ ObjectsOK(page)'
    <3>1. PICK e : e = <<>>
      OBVIOUS
    <3>2. Range(e) = {} /\ Distinct(e)
      BY <3>1, NoElements
    <3>3. PrefixesOK(page)'
      BY <2>1, <3>1, <3>2 DEF PrefixesOK
    <3>4. ObjectsOK(page)'
      BY <2>1, <3>1, <3>2 DEF ObjectsOK
    <3>5. QED
      BY <3>3, <3>4
  <2>4. CoverOK(page)'
    <3>1. ASSUME NEW x \in constant, x.key \in Matching, s'.pc = "ask", Passed(Spot(x.key))'
          PROVE  Answered(x, listed)'
      <4>1. page.truncated /\ s.kind = "objects" /\ s'.marker = m /\ m \in Seq(Nat)
        BY <1>9, <1>10, <3>1
      <4>2. LessEq(Spot(x.key), m)
        <5>1. PICK y : y = Spot(x.key)
          OBVIOUS
        <5>2. Passed(y)'
          BY <1>11, <3>1, <5>1 DEF Passed
        <5>3. QED
          BY <4>1, <5>1, <5>2 DEF Passed
      <4>3. x.key \notin page.keys
        <5>1. SUFFICES ASSUME x.key \in page.keys
                       PROVE  FALSE
          OBVIOUS
        <5>2. Less(m, Spot(x.key)) /\ Spot(x.key) \in Seq(Nat)
          BY <1>3, <1>10, <3>1, <4>1, <5>1, SpotSeq
        <5>3. PICK y : y = Spot(x.key)
          OBVIOUS
        <5>4. QED
          BY <4>1, <4>2, <5>2, <5>3, LessEqOrder
      <4>4. Answered(x, page) \/ Answered(x, listed)
        BY <1>2, <1>3, <3>1, <4>1, <4>3 DEF CoverOK
      <4>5. QED
        BY <1>12, <4>4
    <3>2. QED
      BY <1>2, <1>11, <2>1, <3>1 DEF CoverOK
  <2>5. QED
    BY <2>2, <2>3, <2>4 DEF PageOK
<1>18. NothingMissed'
  <2>1. ASSUME s'.pc = "done", NEW x \in constant, x.key \in Matching
        PROVE  Answered(x, listed)'
    <3>1. page.keys = {} /\ ~ page.truncated
      BY <1>2, <1>9, <2>1
    <3>2. Answered(x, page) \/ Answered(x, listed)
      BY <1>2, <1>3, <2>1, <3>1 DEF CoverOK
    <3>3. QED
      BY <1>12, <3>2
  <2>2. \A x \in constant : x.key \in Keys
    BY <1>3 DEF TypeOK, Entry
  <2>3. QED
    BY <1>2, <1>9, <1>11, <2>1, <2>2 DEF NothingMissed, Answered, Matching
<1>19. NothingTwice'
  <2>1. Distinct(c) /\ Distinct(d) /\ Distinct(b) /\ (s.delimiter = NoDelimiter => Distinct(a))
    BY <1>1, <1>3 DEF NothingTwice, PrefixesOK, ObjectsOK
  <2>2. /\ Range(c) \cap Range(d) = {}
        /\ s.delimiter = NoDelimiter => Range(a) \cap Range(b) = {}
    BY <1>1, <1>2, PageIsNew
  <2>3. QED
    BY <1>5, <1>6, <1>9, <2>1, <2>2 DEF NothingTwice
<1>20. QED
  BY <1>13, <1>14, <1>15, <1>16, <1>17, <1>18, <1>19 DEF IInv

-----------------------------------------------------------------------------
(* The theorems.                                                           *)

LEMMA InitOK ==
  ASSUME Init
  PROVE  IInv
<1>1. PICK p \in KeyPrefixes, d \in Delimiters, m \in Asked, b \in Backends, kind \in {"objects", "versions"} :
        s = [kind |-> kind, prefix |-> p, delimiter |-> d, max |-> MaxKeys(m), backend |-> b,
             marker |-> <<>>, pc |-> "ask"]
  BY DEF Init
<1>2. /\ versions \in [Keys -> {<<>>, <<[id |-> 0, mark |-> FALSE]>>,
                                <<[id |-> 1, mark |-> TRUE], [id |-> 0, mark |-> FALSE]>>}]
      /\ last = 1 /\ page = Blank /\ listed = [objects |-> <<>>, prefixes |-> <<>>]
      /\ constant = UNION {Range(Entries(k, versions[k])) : k \in Keys}
  BY DEF Init
<1>3. s \in [kind : {"objects", "versions"}, prefix : KeyPrefixes, delimiter : Delimiters, max : Int,
             backend : Backends, marker : Seq(Nat), pc : {"ask", "done", "left"}]
  <2>1. MaxKeys(m) \in Int /\ <<>> \in Seq(Nat)
    BY LimitAssumption DEF MaxKeys
  <2>2. QED
    BY <1>1, <2>1
<1>4. s.marker = <<>> /\ s.pc = "ask"
  BY <1>1
<1>5. ASSUME NEW vs \in {<<>>, <<[id |-> 0, mark |-> FALSE]>>,
                         <<[id |-> 1, mark |-> TRUE], [id |-> 0, mark |-> FALSE]>>}
      PROVE  Fine(vs, 1)
  <2>1. CASE vs = <<>>
    BY <2>1 DEF Fine
  <2>2. CASE vs = <<[id |-> 0, mark |-> FALSE]>>
    BY <2>2 DEF Fine, Version
  <2>3. CASE vs = <<[id |-> 1, mark |-> TRUE], [id |-> 0, mark |-> FALSE]>>
    <3>1. /\ vs \in Seq(Version) /\ Len(vs) = 2 /\ vs[1].id = 1 /\ vs[2].id = 0
      BY <2>3 DEF Version
    <3>2. \A i \in 1 .. Len(vs) : i = 1 \/ i = 2
      BY <3>1
    <3>3. QED
      BY <3>1, <3>2 DEF Fine
  <2>4. QED
    BY <2>1, <2>2, <2>3
<1>6. \A k \in Keys : Fine(versions[k], 1)
  BY <1>2, <1>5
<1>7. VersionsOK
  BY <1>2, <1>6, FineAt DEF VersionsOK, Fine
<1>8. PICK e : e = <<>>
  OBVIOUS
<1>9. Range(e) = {} /\ Distinct(e)
  BY <1>8, NoElements
<1>10. <<>> \in Seq(Entry) /\ <<>> \in Seq(Seq(Nat))
  OBVIOUS
<1>11. versions \in [Keys -> Seq([id : Nat, mark : BOOLEAN])]
  BY <1>2, <1>6 DEF Fine, Version
<1>12. TypeOK
  <2>1. ASSUME NEW k \in Keys
        PROVE  Range(Entries(k, versions[k])) \subseteq Entry
    <3>1. PICK vs : vs = versions[k]
      OBVIOUS
    <3>2. Entries(k, vs) \in Seq(Entry)
      BY <1>6, <3>1, EntriesSeq
    <3>3. QED
      BY <3>1, <3>2, RangeIn
  <2>2. constant \subseteq Entry
    BY <1>2, <2>1
  <2>3. listed \in [objects : Seq(Entry), prefixes : Seq(Seq(Nat))]
    BY <1>2, <1>10
  <2>4. QED
    BY <1>2, <1>3, <1>11, <2>2, <2>3 DEF TypeOK
<1>13. HeldOK
  <2>1. ASSUME NEW c \in constant
        PROVE  c \in Range(Entries(c.key, versions[c.key]))
    <3>1. PICK k \in Keys : c \in Range(Entries(k, versions[k]))
      BY <1>2
    <3>2. PICK vs : vs = versions[k]
      OBVIOUS
    <3>3. c.key = k
      BY <1>6, <1>12, <3>1, <3>2, EntriesSeq
    <3>4. QED
      BY <3>1, <3>3
  <2>2. QED
    BY <2>1 DEF HeldOK
<1>14. SessionOK
  BY <1>2, <1>4, <1>8, <1>9 DEF SessionOK
<1>15. PageOK(page)
  <2>1. /\ page \in Page /\ page.pc = "none" /\ page.objects = <<>> /\ page.prefixes = <<>>
        /\ ~ page.truncated /\ page.count = 0
    BY <1>2, <1>10 DEF Blank, Page
  <2>2. Len(page.objects) + Len(page.prefixes) = 0
    BY <2>1
  <2>3. ShapeOK(page)
    BY <2>1, <2>2 DEF ShapeOK
  <2>4. PrefixesOK(page) /\ ObjectsOK(page)
    <3>1. PICK g : g = page
      OBVIOUS
    <3>2. QED
      BY <2>1, <3>1, NoEntries
  <2>5. CoverOK(page)
    BY <1>4, <2>1 DEF CoverOK, Passed
  <2>6. QED
    BY <2>3, <2>4, <2>5 DEF PageOK
<1>16. NothingMissed
  BY <1>4 DEF NothingMissed
<1>17. NothingTwice
  BY <1>2, <1>8, <1>9 DEF NothingTwice
<1>18. QED
  BY <1>7, <1>12, <1>13, <1>14, <1>15, <1>16, <1>17 DEF IInv

LEMMA IInvStutters ==
  ASSUME IInv, UNCHANGED vars
  PROVE  IInv'
<1>1. PICK g : g = page
  OBVIOUS
<1>2. PageOK(page)'
  BY <1>1, PageStays DEF IInv, vars
<1>3. NothingMissed' /\ NothingTwice'
  BY SessionStays DEF IInv, vars
<1>4. TypeOK' /\ VersionsOK' /\ HeldOK' /\ SessionOK'
  BY DEF IInv, vars, TypeOK, Entry, VersionsOK, HeldOK, Entries, SessionOK
<1>5. QED
  BY <1>2, <1>3, <1>4 DEF IInv

\* Every step of the server, the client and the bucket keeps the invariant.
THEOREM Invariance == Spec => []IInv
<1>1. Init => IInv
  BY InitOK
<1>2. IInv /\ [Next]_vars => IInv'
  <2> SUFFICES ASSUME IInv, [Next]_vars
               PROVE  IInv'
    OBVIOUS
  <2>1. CASE UNCHANGED vars
    BY <2>1, IInvStutters
  <2>2. CASE Ask
    BY <2>2, AskKeeps
  <2>3. CASE Collect
    BY <2>3, CollectKeeps
  <2>4. CASE Sort
    BY <2>4, SortKeeps
  <2>5. CASE Answer
    BY <2>5, AnswerKeeps
  <2>6. ASSUME NEW k \in Keys, Skip(k) \/ RollUp(k) \/ List(k) \/ ListVersions(k)
        PROVE  IInv'
    BY <2>6, SkipKeeps, RollUpKeeps, ListKeeps, ListVersionsKeeps
  <2>7. ASSUME NEW k \in Keys, Put(k) \/ Delete(k)
        PROVE  IInv'
    BY <2>7, PutKeeps, DeleteKeeps
  <2>8. QED
    BY <2>1, <2>2, <2>3, <2>4, <2>5, <2>6, <2>7 DEF Next, Step
<1>3. QED
  BY <1>1, <1>2, PTL DEF Spec

\* A client that follows the markers (disk.js l.390-396) to the last page has been
\* told of every key, or its common prefix, that was there all the time.
THEOREM Complete == Spec => []NothingMissed
<1>1. IInv => NothingMissed
  BY DEF IInv
<1>2. QED
  BY <1>1, Invariance, PTL

\* It has been told of no common prefix twice, and without a delimiter of no object.
THEOREM Unrepeated == Spec => []NothingTwice
<1>1. IInv => NothingTwice
  BY DEF IInv
<1>2. QED
  BY <1>1, Invariance, PTL

\* What the end of a session rests on: each further page (disk.js l.390-396) is asked
\* for from a marker, and that is behind the one before.
MarkerAdvances ==
  Answer /\ s'.pc = "ask" =>
    /\ s'.marker # <<>>
    /\ s.marker # <<>> => Less(s.marker, s'.marker)

THEOREM MarkersAdvance == Spec => [][MarkerAdvances]_vars
<1>1. IInv /\ [Next]_vars => [MarkerAdvances]_vars
  <2> SUFFICES ASSUME IInv, Answer, s'.pc = "ask"
               PROVE  s'.marker # <<>> /\ (s.marker # <<>> => Less(s.marker, s'.marker))
    BY DEF MarkerAdvances
  <2>1. PICK m : m = NextMarker
    OBVIOUS
  <2>2. page.pc = "scan" /\ page.truncated /\ s.kind = "objects" /\ s'.marker = m
    BY <2>1 DEF Answer, IInv, TypeOK
  <2>3. m # <<>> /\ (s.marker # <<>> => Less(s.marker, m))
    BY <2>1, <2>2, NextMarkerBetween
  <2>4. QED
    BY <2>2, <2>3
<1>2. QED
  BY <1>1, Invariance, PTL DEF Spec

=============================================================================
