------------------------------- MODULE Listing -------------------------------
(***************************************************************************)
(* ListObjects (v1 and v2) and ListObjectVersions over one bucket that     *)
(* changes meanwhile: a client asks for one page after the other, each     *)
(* from the marker that the page before has answered.                      *)
(*                                                                         *)
(* The memory backend makes a page in one go.  The disk backend reads the  *)
(* directory, then the metadata of each object, then, key by key in order, *)
(* the current version again (disk.js) - each at an await of its own, with *)
(* changes in between.  The loop over the keys is the same code in both.   *)
(*                                                                         *)
(* A key is a sequence of character codes.                                 *)
(***************************************************************************)
EXTENDS Integers, Sequences, SequencesExt

CONSTANTS
  Keys,         \* the keys that may exist: nonempty sequences of numbers
  KeyPrefixes,  \* the prefixes asked for: sequences of numbers
  Delimiters,   \* the delimiters asked for: numbers, or NoDelimiter
  NoDelimiter,
  Asked,        \* the values of max-keys that clients send
  Limit,        \* 1000 in the code
  Backends,     \* a subset of {"disk", "memory"}
  MaxChanges    \* bound: how often the bucket changes

ASSUME KeysAssumption == Keys \subseteq Seq(Nat \ {NoDelimiter}) \ {<<>>} /\ KeyPrefixes \subseteq Seq(Nat)
ASSUME LimitAssumption == Limit \in Nat \ {0} /\ Asked \subseteq Int /\ MaxChanges \in Nat
ASSUME BackendsAssumption == Backends \subseteq {"disk", "memory"}

VARIABLES
  versions,   \* versions[k]: the versions of key k, newest first; <<>>: no object
  last,       \* the number of the last version made
  s,          \* the client's session
  page,       \* the page that is being made
  listed,     \* what the pages have answered, in order
  constant    \* what there has been to list ever since the session began

vars == <<versions, last, s, page, listed, constant>>

-----------------------------------------------------------------------------
(* Keys.                                                                   *)

\* The order of JavaScript strings.
Less(a, b) ==
  \/ IsStrictPrefix(a, b)
  \/ \E i \in DOMAIN a \cap DOMAIN b : a[i] < b[i] /\ SubSeq(a, 1, i - 1) = SubSeq(b, 1, i - 1)

LessEq(a, b) == a = b \/ Less(a, b)

\* The part of key k up to the first delimiter behind the prefix, if it has one.
Common(k) ==
  LET ends == {i \in Len(s.prefix) + 1 .. Len(k) : k[i] = s.delimiter}
  IN  IF ends = {} THEN {} ELSE {SubSeq(k, 1, CHOOSE i \in ends : \A j \in ends : i <= j)}

\* What there is to list of a key with the versions vs: the key, if its current
\* version is not a delete marker, or each version.
Entries(k, vs) ==
  IF s.kind = "versions" THEN [i \in DOMAIN vs |-> [key |-> k, id |-> vs[i].id]]
  ELSE IF vs # <<>> /\ ~ vs[1].mark THEN <<[key |-> k, id |-> 0]>>
  ELSE <<>>

\* server.js l.462, 496: max-keys is at most the limit, which 0 stands for too;
\* a page with a negative max-keys is not limited at all.
MaxKeys(asked) == IF asked = 0 \/ asked > Limit THEN Limit ELSE asked

-----------------------------------------------------------------------------
\* No page is being made.
Blank == [pc |-> "none", names |-> {}, keys |-> {}, count |-> 0, truncated |-> FALSE,
          objects |-> <<>>, prefixes |-> <<>>]

\* At first a key has no version, one, or a delete marker on top of one.
Init ==
  /\ versions \in [Keys -> {<<>>, <<[id |-> 0, mark |-> FALSE]>>,
                            <<[id |-> 1, mark |-> TRUE], [id |-> 0, mark |-> FALSE]>>}]
  /\ last = 1
  /\ \E p \in KeyPrefixes, d \in Delimiters, m \in Asked, b \in Backends, kind \in {"objects", "versions"} :
       s = [kind |-> kind, prefix |-> p, delimiter |-> d, max |-> MaxKeys(m), backend |-> b,
            marker |-> <<>>, pc |-> "ask"]
  /\ page = Blank
  /\ listed = [objects |-> <<>>, prefixes |-> <<>>]
  /\ constant = UNION {Range(Entries(k, versions[k])) : k \in Keys}

-----------------------------------------------------------------------------
(* The bucket changes; in memory, not while a page is made.                *)

Changes(k, vs) ==
  /\ last <= MaxChanges /\ s.pc = "ask"
  /\ s.backend = "memory" => page = Blank
  /\ versions' = [versions EXCEPT ![k] = vs]
  /\ last' = last + 1
  /\ constant' = {c \in constant : c.key = k => c \in Range(Entries(k, vs))}
  /\ UNCHANGED <<s, page, listed>>

New(mark) == <<[id |-> last + 1, mark |-> mark]>>

\* A put with versioning, and without.
Put(k) == Changes(k, New(FALSE) \o versions[k]) \/ Changes(k, New(FALSE))

\* A delete with versioning, without, and of one version.
Delete(k) == \/ Changes(k, New(TRUE) \o versions[k])
             \/ versions[k] # <<>> /\ Changes(k, <<>>)
             \/ \E i \in DOMAIN versions[k] : Changes(k, RemoveAt(versions[k], i))

-----------------------------------------------------------------------------
(* A page.                                                                 *)

Goes(p) == page' = p /\ UNCHANGED <<versions, last, s, listed, constant>>

\* _collectKeys (disk.js l.751-769): the names in the directory, ...
Ask ==
  /\ s.pc = "ask" /\ page.pc = "none"
  /\ Goes([page EXCEPT !.pc = "collect", !.names = {k \in Keys : versions[k] # <<>>}])

\* ... of which those count that are there when their file is read, ...
Collect ==
  /\ page.pc = "collect"
  /\ \E k \in page.names :
       Goes([page EXCEPT !.names = @ \ {k}, !.keys = IF versions[k] = <<>> THEN @ ELSE @ \cup {k}])

\* ... and the keys are taken in their order.
Sort == /\ page.pc = "collect" /\ page.names = {}
        /\ Goes([page EXCEPT !.pc = "scan"])

\* The next key.
IsNext(k) == page.pc = "scan" /\ ~ page.truncated /\ k \in page.keys /\ \A j \in page.keys : LessEq(k, j)

\* Mutant: the test comes one too early.
FullBefore == s.max > 0 /\ page.count + 1 >= s.max

Full == s.max > 0 /\ page.count >= s.max

\* Mutant: what is as great as the marker is answered again.
PassedBefore(x) == s.marker # <<>> /\ Less(x, s.marker)

\* An earlier page has answered x, a key or a common prefix.
Passed(x) == s.marker # <<>> /\ LessEq(x, s.marker)

\* The key has another prefix, or has been answered itself, or its common prefix has.
Skip(k) ==
  /\ IsNext(k)
  /\ \/ ~ IsPrefix(s.prefix, k)
     \/ Common(k) = {} /\ Passed(k)
     \/ \E c \in Common(k) : Passed(c) \/ c \in Range(page.prefixes)
  /\ Goes([page EXCEPT !.keys = @ \ {k}])

\* The key's common prefix is answered.
RollUp(k) ==
  /\ IsNext(k) /\ IsPrefix(s.prefix, k)
  /\ \E c \in Common(k) :
       /\ ~ Passed(c) /\ c \notin Range(page.prefixes)
       /\ IF Full THEN Goes([page EXCEPT !.truncated = TRUE])
          ELSE Goes([page EXCEPT !.keys = @ \ {k}, !.count = @ + 1, !.prefixes = Append(@, c)])

\* The key itself is answered, as headObject finds it now.  The page is truncated
\* before it is known whether the key's current version is a delete marker, ...
List(k) ==
  /\ s.kind = "objects"
  /\ IsNext(k) /\ IsPrefix(s.prefix, k) /\ Common(k) = {} /\ ~ Passed(k)
  /\ LET new == Entries(k, versions[k])
     IN  IF Full THEN Goes([page EXCEPT !.truncated = TRUE])
         ELSE Goes([page EXCEPT !.keys = @ \ {k}, !.count = @ + Len(new), !.objects = @ \o new])

\* ... or in the middle of its versions.
ListVersions(k) ==
  /\ s.kind = "versions"
  /\ IsNext(k) /\ IsPrefix(s.prefix, k) /\ Common(k) = {}
  /\ LET all == Entries(k, versions[k])
         new == {n \in 0 .. Len(all) : n = Len(all) \/ (s.max > 0 /\ page.count + n = s.max)}
         n   == CHOOSE n \in new : \A m \in new : n <= m
     IN  Goes([page EXCEPT !.keys = @ \ {k}, !.count = @ + n, !.truncated = n < Len(all),
                           !.objects = @ \o SubSeq(all, 1, n)])

\* Mutant: the marker is the key that did not fit.
NextMarkerAhead == CHOOSE k \in page.keys : \A j \in page.keys : LessEq(k, j)

\* l.390-396: the last common prefix, though an object behind it may have been
\* answered; without one, the last object.
NextMarker == IF page.prefixes # <<>> THEN Last(page.prefixes)
              ELSE IF page.objects # <<>> THEN Last(page.objects).key
              ELSE <<>>

\* The page is answered; a client of ListObjects asks for the next one.  The paging
\* of versions, by comparison with a random id, is not modelled.
Answer ==
  /\ page.pc = "scan" /\ (page.keys = {} \/ page.truncated)
  /\ listed' = [objects |-> listed.objects \o page.objects, prefixes |-> listed.prefixes \o page.prefixes]
  /\ s' = IF ~ page.truncated THEN [s EXCEPT !.pc = "done"]
          ELSE IF s.kind = "versions" THEN [s EXCEPT !.pc = "left"]
          ELSE [s EXCEPT !.marker = NextMarker]
  /\ page' = Blank
  /\ UNCHANGED <<versions, last, constant>>

Step == \/ Ask \/ Collect \/ Sort \/ Answer
        \/ \E k \in Keys : Skip(k) \/ RollUp(k) \/ List(k) \/ ListVersions(k)

Next == Step \/ \E k \in Keys : Put(k) \/ Delete(k)

Spec == Init /\ [][Next]_vars

\* The server goes on with a page, and the client asks for the next one.
LiveSpec == Spec /\ WF_vars(Step)

-----------------------------------------------------------------------------
\* Whatever was there to list from the beginning to the end of a session has been
\* answered by one of its pages, itself or by its common prefix: neither paging nor
\* a change of other keys between two awaits loses a key.
NothingMissed ==
  s.pc = "done" => \A c \in constant : IsPrefix(s.prefix, c.key) =>
                     IF Common(c.key) = {} THEN c \in Range(listed.objects)
                     ELSE Common(c.key) \subseteq Range(listed.prefixes)

Distinct(seq) == \A i, j \in DOMAIN seq : seq[i] = seq[j] => i = j

\* No common prefix is answered twice in a session, and without a delimiter no
\* object or version.  (With one, an object behind the last common prefix of a
\* page is answered by the next page again.)
NothingTwice ==
  /\ Distinct(listed.prefixes)
  /\ s.delimiter = NoDelimiter => Distinct(listed.objects)

\* A client that follows the markers comes to the last page, if the bucket does not
\* change for ever: each page's marker is behind the one before.
SessionEnds == <>(s.pc # "ask")
=============================================================================
