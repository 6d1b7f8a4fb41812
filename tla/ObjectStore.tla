----------------------------- MODULE ObjectStore -----------------------------
(***************************************************************************)
(* What a storage backend promises about the versions of its objects: each *)
(* operation takes effect at one instant, on the versions the key has at   *)
(* that instant.  Newest first; the newest is the current version, and a   *)
(* key without versions has no object.                                     *)
(*                                                                         *)
(* A version is a record with at least the fields id, del (a delete        *)
(* marker) and tag.  Which of the operations a call performs depends on    *)
(* the bucket's versioning, left to the modules that implement this one.   *)
(***************************************************************************)
EXTENDS Naturals, Sequences

CONSTANTS Keys,
          Versions,      \* the versions that may be written
          Tags,
          NullId,        \* the id of versions written without versioning
          MaxVersions    \* puts may forget the oldest versions beyond this many

VARIABLE versions        \* versions[k]: the versions of key k, newest first

Init == versions = [k \in Keys |-> <<>>]

Ids(k) == {versions[k][i].id : i \in 1 .. Len(versions[k])}

Become(k, s) == versions' = [versions EXCEPT ![k] = s]

Without(s, i) == SubSeq(s, 1, i - 1) \o SubSeq(s, i + 1, Len(s))

\* A put with versioning: the new version is the current one; some of the
\* oldest may go, down to MaxVersions.
PutVersion(k, v) ==
  /\ v.id # NullId /\ v.id \notin Ids(k) /\ ~ v.del
  /\ \E n \in 1 .. Len(versions[k]) + 1 :
       /\ n >= MaxVersions \/ n = Len(versions[k]) + 1
       /\ Become(k, SubSeq(<<v>> \o versions[k], 1, n))

\* A put without versioning replaces all there was.
PutNull(k, v) == /\ v.id = NullId /\ ~ v.del
                 /\ Become(k, <<v>>)

\* A delete with versioning hides the object behind a marker.
Mark(k, v) == /\ v.id # NullId /\ v.id \notin Ids(k) /\ v.del
              /\ Become(k, <<v>> \o versions[k])

\* A delete of one version, and a delete without versioning.
Remove(k, i) == Become(k, Without(versions[k], i))
Clear(k)     == Become(k, <<>>)

\* Tags are replaced, on the version they belong to and on no other.
Retag(k, i, t) == /\ ~ versions[k][i].del
                  /\ Become(k, [versions[k] EXCEPT ![i].tag = t])

Next == \E k \in Keys :
          \/ \E v \in Versions : PutVersion(k, v) \/ PutNull(k, v) \/ Mark(k, v)
          \/ \E i \in 1 .. Len(versions[k]) : Remove(k, i) \/ \E t \in Tags : Retag(k, i, t)
          \/ Clear(k)

Spec == Init /\ [][Next]_versions
=============================================================================
