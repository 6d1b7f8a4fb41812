---------------------------- MODULE KeyLockProofs ----------------------------
(***************************************************************************)
(* The keyed mutex is correct for any number of calls and keys: proofs     *)
(* from the inductive invariant IInv of KeyLock.                           *)
(***************************************************************************)
EXTENDS KeyLock, FunctionTheorems, FiniteSetTheorems, TLAPS

\* The invariant holds before the first call.
LEMMA InitIInv == Init => IInv
<1> SUFFICES ASSUME Init PROVE IInv
  OBVIOUS
<1> USE NoCallAssumption
<1>1. TypeOK
  BY DEF Init, TypeOK
<1>2. \A c \in Calls : pc[c] = "idle"
  BY DEF Init
<1>3. MapHoldsLastActive
  BY <1>2 DEF Init, MapHoldsLastActive, Active
<1> QED
  BY <1>1, <1>2, <1>3 DEF Init, IInv, ServedInOrder, Active

\* Type correctness is preserved by every step of a call.
LEMMA TypeStep == ASSUME TypeOK, NEW c \in Calls, Step(c)
                  PROVE  TypeOK'
<1> USE NoCallAssumption DEF TypeOK
<1>1. CASE Enter(c)
  BY <1>1 DEF Enter
<1>2. CASE Acquire(c)
  BY <1>2 DEF Acquire
<1>3. CASE Release(c)
  BY <1>3 DEF Release
<1>4. CASE Settle(c)
  BY <1>4 DEF Settle
<1> QED
  BY <1>1, <1>2, <1>3, <1>4 DEF Step

\* A call whose prev is past has no active call before it on its key.
LEMMA PastIsHead ==
  ASSUME IInv, NEW c \in Calls, Active(c), Past(prev[c]),
         NEW d \in Calls, Active(d), key[d] = key[c], d # c
  PROVE  arrival[c] < arrival[d]
<1> USE NoCallAssumption
<1>1. /\ arrival[c] \in Nat /\ arrival[d] \in Nat /\ arrival[c] # arrival[d]
      /\ prev[c] \in Calls \cup {NoCall}
  BY DEF IInv, TypeOK, Active
<1>2. SUFFICES ASSUME arrival[d] < arrival[c] PROVE FALSE
  BY <1>1
<1>3. prev[c] # NoCall /\ arrival[d] <= arrival[prev[c]] /\ key[prev[c]] = key[c]
  BY <1>2 DEF IInv, Chained
<1>4. prev[c] \in Calls /\ pc[prev[c]] = "done"
  BY <1>1, <1>3 DEF IInv, Past
<1>5. prev[c] # d /\ arrival[prev[c]] < arrival[d]
  BY <1>3, <1>4 DEF IInv, ServedInOrder, Active
<1> QED
  BY <1>1, <1>3, <1>4, <1>5 DEF IInv, TypeOK

\* A call that joins becomes the last of its key; nobody else's place changes.
LEMMA EnterStep == ASSUME IInv, NEW c \in Calls, Enter(c) PROVE IInv'
<1> USE NoCallAssumption
<1>t. TypeOK'
  BY TypeStep DEF IInv, Step
<1>0. /\ pc[c] = "idle" /\ pc' = [pc EXCEPT ![c] = "queued"]
      /\ arrival' = [arrival EXCEPT ![c] = clock] /\ clock' = clock + 1
      /\ key' = key /\ settled' = settled /\ TypeOK
      /\ prev' = [prev EXCEPT ![c] = keyLocks[key[c]]]
      /\ keyLocks' = [keyLocks EXCEPT ![key[c]] = c]
  BY DEF Enter, IInv
<1>1. \A d \in Calls : /\ d # c => /\ pc'[d] = pc[d] /\ arrival'[d] = arrival[d]
                                   /\ prev'[d] = prev[d] /\ (Active(d)' <=> Active(d))
                       /\ key'[d] = key[d]
  BY <1>0 DEF TypeOK, Active
<1>2. /\ pc'[c] = "queued" /\ arrival'[c] = clock /\ prev'[c] = keyLocks[key[c]]
      /\ Active(c)' /\ ~ Active(c) /\ clock \in Nat /\ key[c] \in Keys
  BY <1>0 DEF TypeOK, Active
<1>3. \A d \in Calls : pc'[d] # "idle" => arrival'[d] < clock'
  BY <1>0, <1>1, <1>2 DEF IInv, TypeOK
<1>4. \A d \in Calls : d # c /\ pc[d] # "idle" => arrival[d] \in Nat /\ arrival[d] < clock
  BY DEF IInv, TypeOK
<1>5. \A d, e \in Calls : d # e /\ pc'[d] # "idle" /\ pc'[e] # "idle" => arrival'[d] # arrival'[e]
  BY <1>1, <1>2, <1>4 DEF IInv
<1>6. \A d \in settled' : pc'[d] = "done"
  BY <1>0, <1>1 DEF IInv, TypeOK
<1>7. \A d \in Calls : Active(d)' => Chained(d)'
  <2> SUFFICES ASSUME NEW d \in Calls, Active(d)' PROVE Chained(d)'
    OBVIOUS
  <2>1. CASE d = c
    <3>1. keyLocks[key[c]] # NoCall =>
            /\ keyLocks[key[c]] \in Calls /\ keyLocks[key[c]] # c
            /\ Active(keyLocks[key[c]]) /\ key[keyLocks[key[c]]] = key[c]
      BY <1>0, <1>2 DEF IInv, MapHoldsLastActive, TypeOK
    <3>2. \A e \in Calls : Active(e) /\ key[e] = key[c]
            => keyLocks[key[c]] # NoCall /\ arrival[e] <= arrival[keyLocks[key[c]]]
      BY <1>2 DEF IInv, MapHoldsLastActive
    <3>3. prev'[d] # NoCall => /\ pc'[prev'[d]] # "idle"
                               /\ key'[prev'[d]] = key'[d]
                               /\ arrival'[prev'[d]] < arrival'[d]
      BY <2>1, <3>1, <1>1, <1>2, <1>4 DEF Active
    <3>4. ASSUME NEW e \in Calls, Active(e)', key'[e] = key'[d], arrival'[e] < arrival'[d]
          PROVE  prev'[d] # NoCall /\ arrival'[e] <= arrival'[prev'[d]]
      <4>1. e # c
        BY <2>1, <3>4, <1>2
      <4> QED
        BY <2>1, <3>4, <4>1, <3>1, <3>2, <1>1, <1>2
    <3> QED
      BY <3>3, <3>4 DEF Chained
  <2>2. CASE d # c
    <3>1. Active(d) /\ Chained(d)
      BY <2>2, <1>1 DEF IInv
    <3>2. prev[d] # NoCall => prev[d] \in Calls /\ prev[d] # c
      BY <3>1, <1>0 DEF Chained, TypeOK
    <3>3. ~ (arrival'[c] < arrival'[d])
      BY <2>2, <3>1, <1>1, <1>2, <1>4 DEF Active
    <3> QED
      BY <2>2, <3>1, <3>2, <3>3, <1>1 DEF Chained
  <2> QED
    BY <2>1, <2>2
<1>8. ServedInOrder'
  <2> SUFFICES ASSUME NEW d \in Calls, NEW e \in Calls,
                      pc'[d] \in {"running", "done"}, Active(e)', d # e, key'[d] = key'[e]
               PROVE  arrival'[d] < arrival'[e]
    BY DEF ServedInOrder
  <2>1. d # c
    BY <1>2
  <2>2. CASE e = c
    BY <2>1, <2>2, <1>1, <1>2, <1>4
  <2>3. CASE e # c
    BY <2>1, <2>3, <1>1 DEF IInv, ServedInOrder
  <2> QED
    BY <2>2, <2>3
<1>9. MapHoldsLastActive'
  <2> SUFFICES ASSUME NEW k \in Keys
               PROVE  LET users == {d \in Calls : Active(d)' /\ key'[d] = k}
                      IN  IF users = {} THEN keyLocks'[k] = NoCall
                          ELSE /\ keyLocks'[k] \in users
                               /\ \A d \in users : arrival'[d] <= arrival'[keyLocks'[k]]
    BY DEF MapHoldsLastActive
  <2>1. CASE k = key[c]
    <3>1. keyLocks'[k] = c
      BY <2>1, <1>0 DEF TypeOK
    <3>2. \A d \in Calls : Active(d)' => arrival'[d] <= arrival'[c]
      BY <1>1, <1>2, <1>4 DEF Active
    <3> QED
      BY <2>1, <3>1, <3>2, <1>1, <1>2
  <2>2. CASE k # key[c]
    <3>1. keyLocks'[k] = keyLocks[k]
      BY <2>2, <1>0 DEF TypeOK
    <3>2. {d \in Calls : Active(d)' /\ key'[d] = k} = {d \in Calls : Active(d) /\ key[d] = k}
      BY <2>2, <1>1
    <3>3. \A d \in Calls : Active(d) /\ key[d] = k => arrival'[d] = arrival[d]
      BY <2>2, <1>1
    <3> QED
      BY <3>1, <3>2, <3>3 DEF IInv, MapHoldsLastActive
  <2> QED
    BY <2>1, <2>2
<1> QED
  BY <1>t, <1>3, <1>5, <1>6, <1>7, <1>8, <1>9 DEF IInv

\* The head of the line starts: only its pc changes, it stays active.
LEMMA AcquireStep == ASSUME IInv, NEW c \in Calls, Acquire(c) PROVE IInv'
<1> USE NoCallAssumption
<1>t. TypeOK'
  BY TypeStep DEF IInv, Step
<1>0. /\ pc[c] = "queued" /\ Past(prev[c]) /\ pc' = [pc EXCEPT ![c] = "running"]
      /\ UNCHANGED <<keyLocks, key, prev, settled, arrival, clock>> /\ TypeOK
  BY DEF Acquire, IInv
<1>1. \A d \in Calls : /\ d # c => pc'[d] = pc[d]
                       /\ pc'[d] # "idle" <=> pc[d] # "idle"
                       /\ Active(d)' <=> Active(d)
  BY <1>0 DEF TypeOK, Active
<1>2. \A d \in Calls : pc'[d] # "idle" => arrival'[d] < clock'
  BY <1>0, <1>1 DEF IInv
<1>3. \A d, e \in Calls : d # e /\ pc'[d] # "idle" /\ pc'[e] # "idle" => arrival'[d] # arrival'[e]
  BY <1>0, <1>1 DEF IInv
<1>4. \A d \in settled' : pc'[d] = "done"
  BY <1>0, <1>1 DEF IInv, TypeOK
<1>5. \A d \in Calls : Active(d)' => Chained(d)'
  <2> SUFFICES ASSUME NEW d \in Calls, Active(d)' PROVE Chained(d)'
    OBVIOUS
  <2>1. Chained(d) /\ (prev[d] # NoCall => prev[d] \in Calls)
    BY <1>0, <1>1 DEF IInv, TypeOK
  <2> QED
    BY <2>1, <1>0, <1>1 DEF Chained
<1>6. ServedInOrder'
  <2> SUFFICES ASSUME NEW d \in Calls, NEW e \in Calls,
                      pc'[d] \in {"running", "done"}, Active(e)', d # e, key[d] = key[e]
               PROVE  arrival[d] < arrival[e]
    BY <1>0 DEF ServedInOrder
  <2>1. CASE d = c
    BY <2>1, <1>0, <1>1, PastIsHead DEF Active
  <2>2. CASE d # c
    BY <2>2, <1>1 DEF IInv, ServedInOrder
  <2> QED
    BY <2>1, <2>2
<1>7. MapHoldsLastActive'
  <2>1. \A k \in Keys : {d \in Calls : Active(d)' /\ key'[d] = k}
                        = {d \in Calls : Active(d) /\ key[d] = k}
    BY <1>0, <1>1
  <2> QED
    BY <2>1, <1>0 DEF IInv, MapHoldsLastActive
<1> QED
  BY <1>t, <1>2, <1>3, <1>4, <1>5, <1>6, <1>7 DEF IInv

\* The holder leaves.  It was the oldest on its key, so those behind it are all
\* younger; and it clears the map entry only if nobody is behind it.
LEMMA ReleaseStep == ASSUME IInv, NEW c \in Calls, Release(c) PROVE IInv'
<1> USE NoCallAssumption
<1>t. TypeOK'
  BY TypeStep DEF IInv, Step
<1>0. /\ pc[c] = "running" /\ pc' = [pc EXCEPT ![c] = "done"] /\ TypeOK
      /\ keyLocks' = [keyLocks EXCEPT ![key[c]] = IF @ = c THEN NoCall ELSE @]
      /\ UNCHANGED <<key, prev, settled, arrival, clock>>
  BY DEF Release, IInv
<1>1. \A d \in Calls : /\ d # c => pc'[d] = pc[d] /\ (Active(d)' <=> Active(d))
                       /\ pc'[d] # "idle" <=> pc[d] # "idle"
                       /\ Active(d)' => Active(d)
  BY <1>0 DEF TypeOK, Active
<1>2. Active(c) /\ ~ Active(c)' /\ key[c] \in Keys
  BY <1>0 DEF TypeOK, Active
<1>3. \A d \in Calls : pc'[d] # "idle" => arrival'[d] < clock'
  BY <1>0, <1>1 DEF IInv
<1>4. \A d, e \in Calls : d # e /\ pc'[d] # "idle" /\ pc'[e] # "idle" => arrival'[d] # arrival'[e]
  BY <1>0, <1>1 DEF IInv
<1>5. \A d \in settled' : pc'[d] = "done"
  BY <1>0, <1>1 DEF IInv, TypeOK
<1>6. \A d \in Calls : Active(d)' => Chained(d)'
  <2> SUFFICES ASSUME NEW d \in Calls, Active(d)' PROVE Chained(d)'
    OBVIOUS
  <2>1. Chained(d) /\ (prev[d] # NoCall => prev[d] \in Calls)
    BY <1>0, <1>1 DEF IInv, TypeOK
  <2> QED
    BY <2>1, <1>0, <1>1 DEF Chained
<1>7. ServedInOrder'
  <2> SUFFICES ASSUME NEW d \in Calls, NEW e \in Calls,
                      pc'[d] \in {"running", "done"}, Active(e)', d # e, key[d] = key[e]
               PROVE  arrival[d] < arrival[e]
    BY <1>0 DEF ServedInOrder
  <2>1. CASE d = c
    BY <2>1, <1>0, <1>1 DEF IInv, ServedInOrder
  <2>2. CASE d # c
    BY <2>2, <1>1 DEF IInv, ServedInOrder
  <2> QED
    BY <2>1, <2>2
<1>8. MapHoldsLastActive'
  <2> SUFFICES ASSUME NEW k \in Keys
               PROVE  LET users == {d \in Calls : Active(d)' /\ key[d] = k}
                      IN  IF users = {} THEN keyLocks'[k] = NoCall
                          ELSE /\ keyLocks'[k] \in users
                               /\ \A d \in users : arrival[d] <= arrival[keyLocks'[k]]
    BY <1>0 DEF MapHoldsLastActive
  <2>1. CASE k # key[c]
    <3>1. keyLocks'[k] = keyLocks[k]
      BY <2>1, <1>0 DEF TypeOK
    <3>2. {d \in Calls : Active(d)' /\ key[d] = k} = {d \in Calls : Active(d) /\ key[d] = k}
      BY <2>1, <1>1
    <3> QED
      BY <3>1, <3>2 DEF IInv, MapHoldsLastActive
  <2>2. CASE k = key[c] /\ keyLocks[k] = c
    <3>1. \A d \in Calls : Active(d) /\ key[d] = k => arrival[d] <= arrival[c]
      BY <2>2, <1>2 DEF IInv, MapHoldsLastActive
    <3>2. \A d \in Calls : Active(d) /\ key[d] = k /\ d # c => arrival[c] < arrival[d]
      BY <2>2, <1>0 DEF IInv, ServedInOrder
    <3>3. {d \in Calls : Active(d)' /\ key[d] = k} = {}
      BY <3>1, <3>2, <1>0, <1>1, <1>2 DEF TypeOK
    <3>4. keyLocks'[k] = NoCall
      BY <2>2, <1>0 DEF TypeOK
    <3> QED
      BY <3>3, <3>4
  <2>3. CASE k = key[c] /\ keyLocks[k] # c
    <3>1. keyLocks'[k] = keyLocks[k]
      BY <2>3, <1>0 DEF TypeOK
    <3>2. /\ keyLocks[k] \in Calls /\ Active(keyLocks[k]) /\ key[keyLocks[k]] = k
          /\ \A d \in Calls : Active(d) /\ key[d] = k => arrival[d] <= arrival[keyLocks[k]]
      BY <2>3, <1>2 DEF IInv, MapHoldsLastActive
    <3>3. Active(keyLocks[k])'
      BY <2>3, <3>2, <1>0, <1>1 DEF Active
    <3>4. \A d \in Calls : Active(d)' /\ key[d] = k => arrival[d] <= arrival[keyLocks'[k]]
      BY <3>1, <3>2, <1>1
    <3>5. keyLocks'[k] \in {d \in Calls : Active(d)' /\ key[d] = k}
      BY <3>1, <3>2, <3>3
    <3> QED
      BY <3>4, <3>5
  <2> QED
    BY <2>1, <2>2, <2>3
<1> QED
  BY <1>t, <1>3, <1>4, <1>5, <1>6, <1>7, <1>8 DEF IInv

\* A tail settles: only settled grows, by a call that is done.
LEMMA SettleStep == ASSUME IInv, NEW c \in Calls, Settle(c) PROVE IInv'
<1>t. TypeOK'
  BY TypeStep DEF IInv, Step
<1>0. /\ pc[c] = "done" /\ settled' = settled \cup {c}
      /\ UNCHANGED <<keyLocks, pc, key, prev, arrival, clock>>
  BY DEF Settle
<1>1. \A d \in Calls : (Active(d)' <=> Active(d)) /\ (Chained(d)' <=> Chained(d))
  BY <1>0 DEF Active, Chained
<1>2. ServedInOrder' /\ MapHoldsLastActive'
  BY <1>0 DEF IInv, ServedInOrder, MapHoldsLastActive, Active
<1> QED
  BY <1>t, <1>0, <1>1, <1>2 DEF IInv

\* IInv is an invariant: the lock's chain of promises mirrors the order of
\* arrival on every key.
THEOREM Invariance == Spec => []IInv
<1>1. IInv /\ [Next]_vars => IInv'
  <2> SUFFICES ASSUME IInv, [Next]_vars PROVE IInv'
    OBVIOUS
  <2>1. ASSUME NEW c \in Calls, Step(c) PROVE IInv'
    BY <2>1, EnterStep, AcquireStep, ReleaseStep, SettleStep DEF Step
  <2>2. CASE UNCHANGED vars
    BY <2>2 DEF IInv, vars, TypeOK, Active, Chained, ServedInOrder, MapHoldsLastActive
  <2> QED
    BY <2>1, <2>2 DEF Next
<1> QED
  BY InitIInv, <1>1, PTL DEF Spec

\* Every variable keeps its type (withKeyLock's map, calls and promises).
THEOREM TypeCorrect == Spec => []TypeOK
<1>1. IInv => TypeOK
  BY DEF IInv
<1> QED
  BY Invariance, <1>1, PTL

\* Two calls on one key never overlap: each would have to be the older.
THEOREM Exclusion == Spec => []MutualExclusion
<1>1. IInv => MutualExclusion
  BY DEF IInv, MutualExclusion, ServedInOrder, Active, TypeOK
<1> QED
  BY Invariance, <1>1, PTL

\* Calls on one key are served in the order in which they were made.
THEOREM InOrder == Spec => []ServedInOrder
<1>1. IInv => ServedInOrder
  BY DEF IInv
<1> QED
  BY Invariance, <1>1, PTL

\* The map holds an entry exactly for the keys in use: no leak, no early loss.
THEOREM MapExact == Spec => []MapHoldsLastActive
<1>1. IInv => MapHoldsLastActive
  BY DEF IInv
<1> QED
  BY Invariance, <1>1, PTL

-----------------------------------------------------------------------------
(* The refinement of FifoLock.                                             *)

\* A sorted sequence of a set has its length, and each element stands at the
\* place that counts the elements up to it.
LEMMA Places ==
  ASSUME NEW users, NEW at, \A c \in users : at[c] \in Nat, NEW s \in Seq(users), Sorted(s, users, at)
  PROVE  /\ Cardinality(users) = Len(s)
         /\ \A i \in 1 .. Len(s) : Cardinality({c \in users : at[c] <= at[s[i]]}) = i
<1>0. Len(s) \in Nat /\ \A i \in 1 .. Len(s) : s[i] \in users
  OBVIOUS
<1>1. \A i, j \in 1 .. Len(s) : s[i] = s[j] => i = j
  <2> SUFFICES ASSUME NEW i \in 1 .. Len(s), NEW j \in 1 .. Len(s), s[i] = s[j], i # j PROVE FALSE
    OBVIOUS
  <2>1. i < j \/ j < i
    BY <1>0
  <2>2. at[s[i]] < at[s[i]] /\ at[s[i]] \in Nat
    BY <1>0, <2>1 DEF Sorted
  <2> QED
    BY <2>2
<1>2. ASSUME NEW n \in 0 .. Len(s), NEW T, \A c : c \in T <=> \E i \in 1 .. n : s[i] = c
      PROVE  Cardinality(T) = n
  <2> DEFINE f == [i \in 1 .. n |-> s[i]]
  <2>1. n \in Nat /\ \A i \in 1 .. n : i \in 1 .. Len(s)
    BY <1>0
  <2>2. f \in [1 .. n -> T]
    BY <1>2
  <2>3. \A i, j \in 1 .. n : f[i] = f[j] => i = j
    BY <1>1, <2>1
  <2>4. \A c \in T : \E i \in 1 .. n : f[i] = c
    BY <1>2
  <2>5. f \in Bijection(1 .. n, T)
    BY <2>2, <2>3, <2>4, Fun_IsBij
  <2>6. ExistsBijection(1 .. n, T)
    BY <2>5, Fun_ExistsBij
  <2> QED
    BY <2>1, <2>6, FS_CountingElements
<1>3. Cardinality(users) = Len(s)
  <2>1. \A c : c \in users <=> \E i \in 1 .. Len(s) : s[i] = c
    BY <1>0 DEF Sorted
  <2>2. Len(s) \in 0 .. Len(s)
    BY <1>0
  <2> QED
    BY <2>1, <2>2, <1>2
<1>4. ASSUME NEW i \in 1 .. Len(s)
      PROVE  Cardinality({c \in users : at[c] <= at[s[i]]}) = i
  <2> DEFINE T == {c \in users : at[c] <= at[s[i]]}
  <2>1. ASSUME NEW j \in 1 .. Len(s) PROVE s[j] \in T <=> j \in 1 .. i
    <3>1. at[s[j]] \in Nat /\ at[s[i]] \in Nat /\ s[j] \in users
      BY <1>0
    <3>2. CASE j < i
      <4>1. at[s[j]] < at[s[i]]
        BY <3>2 DEF Sorted
      <4> QED
        BY <1>0, <3>1, <3>2, <4>1
    <3>3. CASE j = i
      BY <3>1, <3>3
    <3>4. CASE i < j
      <4>1. at[s[i]] < at[s[j]]
        BY <3>4 DEF Sorted
      <4> QED
        BY <3>1, <3>4, <4>1
    <3> QED
      BY <3>2, <3>3, <3>4, <1>0
  <2>2. \A c \in T : \E j \in 1 .. Len(s) : s[j] = c
    BY DEF Sorted
  <2> HIDE DEF T
  <2>3. i \in 0 .. Len(s) /\ \A j \in 1 .. i : j \in 1 .. Len(s)
    BY <1>0
  <2>4. \A c : c \in T <=> \E j \in 1 .. i : s[j] = c
    BY <2>1, <2>2, <2>3
  <2>5. Cardinality(T) = i
    BY <2>3, <2>4, <1>2
  <2> QED
    BY <2>5 DEF T
<1> QED
  BY <1>3, <1>4

\* There is one way to sort a set.
LEMMA SortedOnce ==
  ASSUME NEW users, NEW at, \A c \in users : at[c] \in Nat, NEW s \in Seq(users), Sorted(s, users, at)
  PROVE  (CHOOSE t \in [1 .. Cardinality(users) -> users] : Sorted(t, users, at)) = s
<1> DEFINE n == Cardinality(users)
           u == CHOOSE t \in [1 .. n -> users] : Sorted(t, users, at)
<1>1. n = Len(s) /\ n \in Nat /\ \A i \in 1 .. n : Cardinality({c \in users : at[c] <= at[s[i]]}) = i
  BY Places
<1>2. s \in [1 .. n -> users]
  BY <1>1
<1> HIDE DEF n
<1>3. u \in [1 .. n -> users] /\ Sorted(u, users, at)
  BY <1>2
<1> HIDE DEF u
<1>4. u \in Seq(users) /\ Len(u) = n
  BY <1>1, <1>3
<1>5. \A i \in 1 .. n : Cardinality({c \in users : at[c] <= at[u[i]]}) = i
  BY <1>3, <1>4, Places
<1>6. ASSUME NEW i \in 1 .. n PROVE u[i] = s[i]
  <2>1. u[i] \in users
    BY <1>3
  <2>2. PICK j \in 1 .. n : s[j] = u[i]
    BY <2>1, <1>1 DEF Sorted
  <2>3. j = i
    BY <1>1, <1>5, <2>2
  <2> QED
    BY <2>2, <2>3
<1>7. u = [i \in 1 .. n |-> u[i]] /\ s = [i \in 1 .. n |-> s[i]]
  BY <1>2, <1>3
<1>8. u = s
  BY <1>6, <1>7
<1> QED
  BY <1>8 DEF u, n

\* The line of every key is its waiting and running calls in order of arrival.
Lined == \A k \in Keys : line[k] \in Seq(Users(k)) /\ Sorted(line[k], Users(k), arrival)

\* A sequence that is sorted in the next state is the line there.
LEMMA LineIs ==
  ASSUME TypeOK', NEW k \in Keys, NEW s \in Seq(Users(k)'), Sorted(s, Users(k)', arrival')
  PROVE  /\ line'[k] = s
         /\ line'[k] \in Seq(Users(k)') /\ Sorted(line'[k], Users(k)', arrival')
<1>1. \A c \in Users(k)' : arrival'[c] \in Nat
  BY DEF TypeOK, Users
<1>2. (CHOOSE t \in [1 .. Cardinality(Users(k)') -> Users(k)'] : Sorted(t, Users(k)', arrival')) = s
  BY <1>1, SortedOnce
<1>3. line'[k] = s
  BY <1>2 DEF line
<1> QED
  BY <1>3

\* The line of a key stays as long as the same calls use it.
LEMMA LineStays ==
  ASSUME Lined, TypeOK', NEW k \in Keys, Users(k)' = Users(k), \A c \in Users(k) : arrival'[c] = arrival[c]
  PROVE  line'[k] = line[k] /\ line'[k] \in Seq(Users(k)') /\ Sorted(line'[k], Users(k)', arrival')
<1> DEFINE s == line[k]
<1>1. s \in Seq(Users(k)) /\ Sorted(s, Users(k), arrival) /\ \A i \in 1 .. Len(s) : s[i] \in Users(k)
  BY DEF Lined
<1> HIDE DEF s
<1>2. Sorted(s, Users(k)', arrival')
  BY <1>1 DEF Sorted
<1>3. s \in Seq(Users(k)')
  BY <1>1
<1>4. line'[k] = s /\ line'[k] \in Seq(Users(k)') /\ Sorted(line'[k], Users(k)', arrival')
  BY <1>2, <1>3, LineIs
<1> QED
  BY <1>4 DEF s

\* The call that came before all others on its key is the head of the line.
LEMMA Heads ==
  ASSUME TypeOK, Lined, NEW k \in Keys, NEW c \in Users(k),
         \A d \in Users(k) : d # c => arrival[c] < arrival[d]
  PROVE  line[k] # <<>> /\ Head(line[k]) = c /\ line[k][1] = c
<1> DEFINE s == line[k]
<1>1. s \in Seq(Users(k)) /\ Len(s) \in Nat /\ Sorted(s, Users(k), arrival) /\ \A i \in 1 .. Len(s) : s[i] \in Users(k)
  BY DEF Lined
<1> HIDE DEF s
<1>2. PICK i \in 1 .. Len(s) : s[i] = c
  BY <1>1 DEF Sorted
<1>3. 1 \in 1 .. Len(s)
  BY <1>1, <1>2
<1>4. arrival[s[1]] \in Nat /\ arrival[c] \in Nat
  BY <1>1, <1>3 DEF TypeOK, Users
<1>5. i = 1
  <2> SUFFICES ASSUME 1 < i PROVE FALSE
    BY <1>1, <1>2
  <2>1. arrival[s[1]] < arrival[c]
    BY <1>1, <1>2, <1>3 DEF Sorted
  <2>2. s[1] \in Users(k) /\ (s[1] # c => arrival[c] < arrival[s[1]])
    BY <1>1, <1>3
  <2> QED
    BY <1>4, <2>1, <2>2
<1>6. s # <<>> /\ Head(s) = c /\ s[1] = c
  BY <1>1, <1>2, <1>5
<1> QED
  BY <1>6 DEF s

\* Enter is Join: the newcomer goes to the end of its line.
LEMMA EnterJoins ==
  ASSUME IInv, IInv', Lined, NEW c \in Calls, Enter(c)
  PROVE  Lined' /\ Fifo!Next
<1>k. PICK k \in Keys : k = key[c]
  BY DEF IInv, TypeOK
<1> DEFINE s == line[k]
           t == Append(s, c)
<1>0. /\ pc[c] = "idle" /\ pc' = [pc EXCEPT ![c] = "queued"] /\ key' = key /\ TypeOK /\ TypeOK' /\ k = key[c]
      /\ arrival' = [arrival EXCEPT ![c] = clock]
  BY <1>k DEF Enter, IInv, TypeOK
<1>1. /\ \A d \in Calls : d # c => arrival'[d] = arrival[d] /\ (Active(d)' <=> Active(d))
      /\ arrival'[c] = clock /\ Active(c)' /\ ~ Active(c)
  BY <1>0 DEF TypeOK, Active
<1>2. \A d \in Calls : Active(d) => arrival[d] < clock
  BY DEF IInv, Active
<1>3. Users(k)' = Users(k) \cup {c} /\ \A j \in Keys : j # k => Users(j)' = Users(j)
  BY <1>0, <1>1 DEF Users
<1>4. s \in Seq(Users(k)) /\ Len(s) \in Nat /\ Sorted(s, Users(k), arrival) /\ \A i \in 1 .. Len(s) : s[i] \in Users(k)
  BY <1>0 DEF Lined
<1>5. \A j \in Keys : \A d \in Users(j) : d \in Calls /\ Active(d) /\ d # c /\ arrival'[d] = arrival[d]
  BY <1>1 DEF Users
<1> HIDE DEF s
<1>6. /\ t \in Seq(Users(k)') /\ Len(t) = Len(s) + 1
      /\ \A i \in 1 .. Len(s) : t[i] = s[i]
      /\ t[Len(s) + 1] = c
  BY <1>3, <1>4
<1> HIDE DEF t
<1>7. Sorted(t, Users(k)', arrival')
  <2>1. ASSUME NEW d \in Users(k)' PROVE \E i \in 1 .. Len(t) : t[i] = d
    <3>1. CASE d = c
      BY <1>4, <1>6, <3>1
    <3>2. CASE d # c
      <4>1. PICK i \in 1 .. Len(s) : s[i] = d
        BY <1>3, <1>4, <3>2 DEF Sorted
      <4> QED
        BY <1>4, <1>6, <4>1
    <3> QED
      BY <3>1, <3>2
  <2>2. ASSUME NEW i \in 1 .. Len(t), NEW j \in 1 .. Len(t), i < j PROVE arrival'[t[i]] < arrival'[t[j]]
    <3>1. i \in 1 .. Len(s) /\ t[i] = s[i] /\ s[i] \in Users(k)
      BY <1>4, <1>6, <2>2
    <3>2. CASE j = Len(s) + 1
      BY <1>1, <1>2, <1>5, <1>6, <3>1, <3>2, <1>0
    <3>3. CASE j # Len(s) + 1
      <4>1. j \in 1 .. Len(s) /\ t[j] = s[j] /\ s[j] \in Users(k)
        BY <1>4, <1>6, <3>3
      <4>2. arrival[s[i]] < arrival[s[j]]
        BY <1>4, <2>2, <3>1, <4>1 DEF Sorted
      <4> QED
        BY <1>0, <1>5, <3>1, <4>1, <4>2
    <3> QED
      BY <3>2, <3>3
  <2> QED
    BY <2>1, <2>2 DEF Sorted
<1>8. line'[k] = t /\ line'[k] \in Seq(Users(k)') /\ Sorted(line'[k], Users(k)', arrival')
  BY <1>0, <1>6, <1>7, LineIs
<1>9. \A j \in Keys : j # k => line'[j] = line[j] /\ line'[j] \in Seq(Users(j)') /\ Sorted(line'[j], Users(j)', arrival')
  BY <1>0, <1>3, <1>5, LineStays
<1>10. Lined'
  BY <1>8, <1>9, <1>0 DEF Lined
<1>11. line' = [line EXCEPT ![k] = t]
  <2>1. line' = [j \in Keys |-> line'[j]] /\ line = [j \in Keys |-> line[j]]
    BY DEF line
  <2> QED
    BY <1>0, <1>8, <1>9, <2>1
<1>12. inside' = inside
  BY <1>0 DEF inside, TypeOK
<1>13. ~ Fifo!InLine(c)
  <2> SUFFICES ASSUME NEW j \in Keys, NEW i \in 1 .. Len(line[j]) PROVE line[j][i] # c
    BY DEF Fifo!InLine
  <2>1. line[j] \in Seq(Users(j))
    BY DEF Lined
  <2>2. line[j][i] \in Users(j)
    BY <2>1
  <2> QED
    BY <1>5, <2>2
<1>14. Fifo!Join(c, k)
  BY <1>11, <1>12, <1>13, <1>0 DEF Fifo!Join, t, s
<1> QED
  BY <1>0, <1>10, <1>14 DEF Fifo!Next

\* Acquire is Go: only the head of the line gets past its prev.
LEMMA AcquireGoes ==
  ASSUME IInv, IInv', Lined, NEW c \in Calls, Acquire(c)
  PROVE  Lined' /\ Fifo!Next
<1>k. PICK k \in Keys : k = key[c]
  BY DEF IInv, TypeOK
<1>0. /\ pc[c] = "queued" /\ Past(prev[c]) /\ pc' = [pc EXCEPT ![c] = "running"] /\ key' = key /\ arrival' = arrival
      /\ TypeOK /\ TypeOK' /\ k = key[c]
  BY <1>k DEF Acquire, IInv, TypeOK
<1>1. Active(c) /\ \A d \in Calls : Active(d)' <=> Active(d)
  BY <1>0 DEF TypeOK, Active
<1>2. \A j \in Keys : Users(j)' = Users(j)
  BY <1>0, <1>1 DEF Users
<1>3. \A j \in Keys : line'[j] = line[j] /\ line'[j] \in Seq(Users(j)') /\ Sorted(line'[j], Users(j)', arrival')
  BY <1>0, <1>2, LineStays
<1>4. Lined'
  BY <1>3, <1>0 DEF Lined
<1>5. line' = line
  <2>1. line' = [j \in Keys |-> line'[j]] /\ line = [j \in Keys |-> line[j]]
    BY DEF line
  <2> QED
    BY <1>3, <2>1
<1>6. inside' = inside \cup {c} /\ c \notin inside
  BY <1>0 DEF inside, TypeOK
<1>7. c \in Users(k) /\ \A d \in Users(k) : d # c => arrival[c] < arrival[d]
  BY <1>0, <1>1, PastIsHead DEF Users
<1>8. line[k] # <<>> /\ Head(line[k]) = c
  BY <1>0, <1>7, Heads
<1>9. Fifo!Go(c, k)
  BY <1>5, <1>6, <1>8 DEF Fifo!Go
<1> QED
  BY <1>0, <1>4, <1>9 DEF Fifo!Next

\* Release is Leave: the call that runs is the head of its line.
LEMMA ReleaseLeaves ==
  ASSUME IInv, IInv', Lined, NEW c \in Calls, Release(c)
  PROVE  Lined' /\ Fifo!Next
<1>k. PICK k \in Keys : k = key[c]
  BY DEF IInv, TypeOK
<1> DEFINE s == line[k]
           t == Tail(s)
<1>0. /\ pc[c] = "running" /\ pc' = [pc EXCEPT ![c] = "done"] /\ key' = key /\ arrival' = arrival
      /\ TypeOK /\ TypeOK' /\ k = key[c]
  BY <1>k DEF Release, IInv, TypeOK
<1>1. Active(c) /\ ~ Active(c)' /\ \A d \in Calls : d # c => (Active(d)' <=> Active(d))
  BY <1>0 DEF TypeOK, Active
<1>2. Users(k)' = Users(k) \ {c} /\ \A j \in Keys : j # k => Users(j)' = Users(j)
  BY <1>0, <1>1 DEF Users
<1>3. c \in Users(k) /\ \A d \in Users(k) : d # c => arrival[c] < arrival[d]
  BY <1>0, <1>1 DEF Users, IInv, ServedInOrder
<1>4. s # <<>> /\ Head(s) = c /\ s[1] = c
  BY <1>0, <1>3, Heads
<1>5. s \in Seq(Users(k)) /\ Len(s) \in Nat /\ Sorted(s, Users(k), arrival) /\ \A i \in 1 .. Len(s) : s[i] \in Users(k)
  BY <1>0 DEF Lined
<1>6. c \in inside /\ inside' = inside \ {c}
  BY <1>0 DEF inside, TypeOK
<1>a. \A d \in Users(k) : arrival[d] \in Nat
  BY <1>0 DEF Users, TypeOK
<1> HIDE DEF s
<1>7. /\ t \in Seq(Users(k)) /\ Len(t) = Len(s) - 1 /\ Len(t) \in Nat
      /\ \A i \in 1 .. Len(t) : t[i] = s[i + 1] /\ i + 1 \in 1 .. Len(s)
  BY <1>4, <1>5
<1> HIDE DEF t
<1>8. \A i \in 1 .. Len(t) : t[i] \in Users(k)'
  <2> SUFFICES ASSUME NEW i \in 1 .. Len(t) PROVE t[i] # c /\ t[i] \in Users(k)
    BY <1>2
  <2>1. t[i] = s[i + 1] /\ i + 1 \in 1 .. Len(s) /\ 1 \in 1 .. Len(s) /\ 1 < i + 1
    BY <1>5, <1>7
  <2>2. arrival[s[1]] < arrival[t[i]]
    BY <1>5, <2>1 DEF Sorted
  <2> QED
    BY <1>3, <1>4, <1>5, <1>a, <2>1, <2>2
<1>9. t \in Seq(Users(k)')
  BY <1>7, <1>8
<1>10. Sorted(t, Users(k)', arrival')
  <2>1. ASSUME NEW d \in Users(k)' PROVE \E i \in 1 .. Len(t) : t[i] = d
    <3>1. PICK i \in 1 .. Len(s) : s[i] = d
      BY <1>2, <1>5 DEF Sorted
    <3>2. i - 1 \in 1 .. Len(t) /\ i - 1 + 1 = i
      BY <1>2, <1>4, <1>5, <1>7, <3>1
    <3> QED
      BY <1>7, <3>1, <3>2
  <2>2. ASSUME NEW i \in 1 .. Len(t), NEW j \in 1 .. Len(t), i < j PROVE arrival'[t[i]] < arrival'[t[j]]
    <3>1. i + 1 < j + 1 /\ i + 1 \in 1 .. Len(s) /\ j + 1 \in 1 .. Len(s)
      BY <1>7, <2>2
    <3> QED
      BY <1>0, <1>5, <1>7, <3>1 DEF Sorted
  <2> QED
    BY <2>1, <2>2 DEF Sorted
<1>11. line'[k] = t /\ line'[k] \in Seq(Users(k)') /\ Sorted(line'[k], Users(k)', arrival')
  BY <1>0, <1>9, <1>10, LineIs
<1>12. \A j \in Keys : j # k => line'[j] = line[j] /\ line'[j] \in Seq(Users(j)') /\ Sorted(line'[j], Users(j)', arrival')
  BY <1>0, <1>2, LineStays
<1>13. Lined'
  BY <1>11, <1>12, <1>0 DEF Lined
<1>14. line' = [line EXCEPT ![k] = t]
  <2>1. line' = [j \in Keys |-> line'[j]] /\ line = [j \in Keys |-> line[j]]
    BY DEF line
  <2> QED
    BY <1>0, <1>11, <1>12, <2>1
<1>15. Fifo!Leave(c, k)
  BY <1>0, <1>4, <1>6, <1>14 DEF Fifo!Leave, t, s
<1> QED
  BY <1>0, <1>13, <1>15 DEF Fifo!Next

\* Nobody's place changes when a tail settles.
LEMMA SettleStutters ==
  ASSUME IInv', Lined, UNCHANGED <<pc, key, arrival>>
  PROVE  Lined' /\ line' = line /\ inside' = inside
<1>0. TypeOK' /\ \A j \in Keys : Users(j)' = Users(j)
  BY DEF IInv, Users, Active
<1>1. \A j \in Keys : line'[j] = line[j] /\ line'[j] \in Seq(Users(j)') /\ Sorted(line'[j], Users(j)', arrival')
  BY <1>0, LineStays
<1>2. Lined'
  BY <1>1 DEF Lined
<1>3. line' = line
  <2>1. line' = [j \in Keys |-> line'[j]] /\ line = [j \in Keys |-> line[j]]
    BY DEF line
  <2> QED
    BY <1>1, <2>1
<1> QED
  BY <1>2, <1>3 DEF inside

LEMMA InitLined == Init => Lined /\ Fifo!Init
<1> SUFFICES ASSUME Init PROVE Lined /\ Fifo!Init
  OBVIOUS
<1>1. \A k \in Keys : Users(k) = {}
  BY DEF Init, Users, Active
<1>2. \A k \in Keys : line[k] = <<>>
  <2> SUFFICES ASSUME NEW k \in Keys PROVE line[k] = <<>>
    OBVIOUS
  <2>1. \A c \in {} : arrival[c] \in Nat
    OBVIOUS
  <2>2. <<>> \in Seq({}) /\ Sorted(<<>>, {}, arrival)
    BY DEF Sorted
  <2>3. (CHOOSE t \in [1 .. Cardinality({}) -> {}] : Sorted(t, {}, arrival)) = <<>>
    BY <2>1, <2>2, SortedOnce
  <2> QED
    BY <1>1, <2>3 DEF line
<1>3. Lined
  <2>1. <<>> \in Seq({}) /\ Sorted(<<>>, {}, arrival)
    BY DEF Sorted
  <2> QED
    BY <1>1, <1>2, <2>1 DEF Lined
<1>4. line = [k \in Keys |-> <<>>]
  BY <1>2 DEF line
<1>5. inside = {}
  BY DEF Init, inside
<1> QED
  BY <1>3, <1>4, <1>5 DEF Fifo!Init

\* withKeyLock implements the first-in first-out lock that the backends rely on.
THEOREM Refinement == Spec => ImplementsFifoLock
<1>1. Init => Lined /\ Fifo!Init
  BY InitLined
<1>2. IInv /\ IInv' /\ Lined /\ [Next]_vars => Lined' /\ [Fifo!Next]_<<line, inside>>
  <2> SUFFICES ASSUME IInv, IInv', Lined, [Next]_vars
               PROVE  Lined' /\ [Fifo!Next]_<<line, inside>>
    OBVIOUS
  <2>1. ASSUME NEW c \in Calls, Step(c) PROVE Lined' /\ [Fifo!Next]_<<line, inside>>
    <3>1. CASE Enter(c)
      BY <3>1, EnterJoins
    <3>2. CASE Acquire(c)
      BY <3>2, AcquireGoes
    <3>3. CASE Release(c)
      BY <3>3, ReleaseLeaves
    <3>4. CASE Settle(c)
      BY <3>4, SettleStutters DEF Settle
    <3> QED
      BY <2>1, <3>1, <3>2, <3>3, <3>4 DEF Step
  <2>2. CASE UNCHANGED vars
    BY <2>2, SettleStutters DEF vars
  <2> QED
    BY <2>1, <2>2 DEF Next
<1> QED
  BY <1>1, <1>2, Invariance, PTL DEF Spec, ImplementsFifoLock, Fifo!Spec
=============================================================================
