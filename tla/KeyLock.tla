------------------------------- MODULE KeyLock -------------------------------
(***************************************************************************)
(* withKeyLock (src/src/storage/storage.js): the asynchronous keyed mutex  *)
(* built from promise chaining.  Each call stores in the map a promise,    *)
(* its "tail", that settles once the call before it has settled and its    *)
(* own gate is released; the next call on the key awaits that tail.        *)
(*                                                                         *)
(* A tail is named by the call that made it.  The synchronous stretches    *)
(* of the function (from entry to the await, and the finally block) are    *)
(* one action each: JavaScript runs them without interruption.  The turns  *)
(* of the microtask queue between the resolution of a promise and the      *)
(* resumption of who awaits it are the actions Settle and Acquire.         *)
(***************************************************************************)
EXTENDS Naturals, Sequences, FiniteSets

CONSTANTS Calls,   \* calls of withKeyLock, each made at most once
          Keys,
          NoCall   \* "the map has no entry", "the promise is already resolved"

ASSUME NoCallAssumption == NoCall \notin Calls

VARIABLES
  keyLocks,   \* keyLocks[k]: the call whose tail the map holds for k, or NoCall
  pc,         \* "idle", "queued" (in the await), "running" (fn), "done"
  key,        \* key[c]: the key c was called with
  prev,       \* prev[c]: whose tail c awaits, NoCall for Promise.resolve()
  settled,    \* the calls whose tail has settled
  arrival,    \* history: arrival[c] counts the calls made before c
  clock       \* history: the number of calls made

vars == <<keyLocks, pc, key, prev, settled, arrival, clock>>

Init == /\ keyLocks = [k \in Keys |-> NoCall]
        /\ pc = [c \in Calls |-> "idle"]
        /\ key \in [Calls -> Keys]
        /\ prev = [c \in Calls |-> NoCall]
        /\ settled = {}
        /\ arrival = [c \in Calls |-> 0]
        /\ clock = 0

\* A promise the call c may get past: Promise.resolve() or a settled tail.
Past(t) == t = NoCall \/ t \in settled

\* Mutants: plausible slips of the source, never part of Next.
EnterAwaitsLater(c) ==      \* the map is written before prev is read
  /\ pc[c] = "idle"
  /\ prev' = [prev EXCEPT ![c] = NoCall]
  /\ keyLocks' = [keyLocks EXCEPT ![key[c]] = c]
  /\ pc' = [pc EXCEPT ![c] = "queued"]
  /\ arrival' = [arrival EXCEPT ![c] = clock]
  /\ clock' = clock + 1
  /\ UNCHANGED <<key, settled>>

ReleaseAlwaysDeletes(c) ==  \* no test that the map still holds the own tail
  /\ pc[c] = "running"
  /\ pc' = [pc EXCEPT ![c] = "done"]
  /\ keyLocks' = [keyLocks EXCEPT ![key[c]] = NoCall]
  /\ UNCHANGED <<key, prev, settled, arrival, clock>>

ReleaseNeverDeletes(c) ==   \* the clean-up of the map is missing
  /\ pc[c] = "running"
  /\ pc' = [pc EXCEPT ![c] = "done"]
  /\ UNCHANGED <<keyLocks, key, prev, settled, arrival, clock>>

SettleWithoutGate(c) ==     \* the tail does not wait for the gate
  /\ pc[c] # "idle" /\ c \notin settled
  /\ Past(prev[c])
  /\ settled' = settled \cup {c}
  /\ UNCHANGED <<keyLocks, pc, key, prev, arrival, clock>>

SettleOnlyIfLast(c) ==      \* the gate is released only by the last call
  /\ pc[c] = "done" /\ c \notin settled
  /\ keyLocks[key[c]] = NoCall
  /\ settled' = settled \cup {c}
  /\ UNCHANGED <<keyLocks, pc, key, prev, arrival, clock>>

\* l.206-212: look up the previous tail, chain a new one, publish it.
Enter(c) ==
  /\ pc[c] = "idle"
  /\ prev' = [prev EXCEPT ![c] = keyLocks[key[c]]]
  /\ keyLocks' = [keyLocks EXCEPT ![key[c]] = c]
  /\ pc' = [pc EXCEPT ![c] = "queued"]
  /\ arrival' = [arrival EXCEPT ![c] = clock]
  /\ clock' = clock + 1
  /\ UNCHANGED <<key, settled>>

\* l.213-215: the await of prev resumes and fn starts.
Acquire(c) ==
  /\ pc[c] = "queued"
  /\ Past(prev[c])
  /\ pc' = [pc EXCEPT ![c] = "running"]
  /\ UNCHANGED <<keyLocks, key, prev, settled, arrival, clock>>

\* l.216-221: fn returned or threw; open the gate, and drop the map entry
\* unless a later call has chained itself behind this one.
Release(c) ==
  /\ pc[c] = "running"
  /\ pc' = [pc EXCEPT ![c] = "done"]
  /\ keyLocks' = [keyLocks EXCEPT ![key[c]] = IF @ = c THEN NoCall ELSE @]
  /\ UNCHANGED <<key, prev, settled, arrival, clock>>

\* l.211: tail = prev.then(() => gate) settles.
Settle(c) ==
  /\ pc[c] = "done" /\ c \notin settled
  /\ Past(prev[c])
  /\ settled' = settled \cup {c}
  /\ UNCHANGED <<keyLocks, pc, key, prev, arrival, clock>>

Step(c) == Enter(c) \/ Acquire(c) \/ Release(c) \/ Settle(c)

Next == \E c \in Calls : Step(c)

Spec == Init /\ [][Next]_vars

\* The microtask queue runs every settled promise's reactions, and the
\* function under the lock is assumed to return; no call has to be made.
Fairness == \A c \in Calls : WF_vars(Acquire(c) \/ Release(c) \/ Settle(c))

LiveSpec == Spec /\ Fairness

-----------------------------------------------------------------------------
Active(c) == pc[c] \in {"queued", "running"}

TypeOK == /\ keyLocks \in [Keys -> Calls \cup {NoCall}]
          /\ pc \in [Calls -> {"idle", "queued", "running", "done"}]
          /\ key \in [Calls -> Keys]
          /\ prev \in [Calls -> Calls \cup {NoCall}]
          /\ settled \in SUBSET Calls
          /\ arrival \in [Calls -> Nat]
          /\ clock \in Nat

\* Two calls on the same key never run fn at the same time: what "serialize
\* mutations of one logical key" (l.202) says.
MutualExclusion ==
  \A c, d \in Calls : c # d /\ pc[c] = "running" /\ pc[d] = "running"
                        => key[c] # key[d]

\* First come, first served: no call runs fn, or has run it, while an earlier
\* call on its key is still waiting or running.
ServedInOrder ==
  \A c, d \in Calls : /\ pc[c] \in {"running", "done"}
                      /\ Active(d) /\ c # d /\ key[c] = key[d]
                      => arrival[c] < arrival[d]

\* The map has an entry exactly for the keys in use, and it is the tail of the
\* last call to join.  An entry deleted too early would let a newcomer in beside
\* a waiting call; one deleted too late would leak memory for every key used.
MapHoldsLastActive ==
  \A k \in Keys :
    LET users == {c \in Calls : Active(c) /\ key[c] = k}
    IN  IF users = {} THEN keyLocks[k] = NoCall
        ELSE /\ keyLocks[k] \in users
             /\ \A c \in users : arrival[c] <= arrival[keyLocks[k]]

\* Where a waiting or running call stands in the chain: its prev is an earlier
\* call on its key, no longer idle, and no active call lies between the two.
Chained(c) ==
  /\ prev[c] # NoCall => /\ pc[prev[c]] # "idle"
                         /\ key[prev[c]] = key[c]
                         /\ arrival[prev[c]] < arrival[c]
  /\ \A d \in Calls :
       Active(d) /\ key[d] = key[c] /\ arrival[d] < arrival[c]
         => prev[c] # NoCall /\ arrival[d] <= arrival[prev[c]]

\* The inductive invariant behind the three properties above.
IInv == /\ TypeOK
        /\ \A c \in Calls : pc[c] # "idle" => arrival[c] < clock
        /\ \A c, d \in Calls : /\ c # d /\ pc[c] # "idle" /\ pc[d] # "idle"
                              => arrival[c] # arrival[d]
        /\ \A c \in settled : pc[c] = "done"
        /\ \A c \in Calls : Active(c) => Chained(c)
        /\ ServedInOrder
        /\ MapHoldsLastActive

\* Every call that was made gets its turn and returns.
EveryCallReturns == \A c \in Calls : pc[c] = "queued" ~> pc[c] = "done"

-----------------------------------------------------------------------------
\* The refinement mapping: the line of a key is its active calls in order of
\* arrival; inside are the calls that run fn.
Sorted(s, users, at) ==
  /\ \A c \in users : \E i \in 1 .. Len(s) : s[i] = c
  /\ \A i, j \in 1 .. Len(s) : i < j => at[s[i]] < at[s[j]]

Users(k) == {c \in Calls : Active(c) /\ key[c] = k}

line == [k \in Keys |->
          CHOOSE s \in [1 .. Cardinality(Users(k)) -> Users(k)] : Sorted(s, Users(k), arrival)]

inside == {c \in Calls : pc[c] = "running"}

Fifo == INSTANCE FifoLock

\* withKeyLock behaves as a first-in first-out lock per key.
ImplementsFifoLock == Fifo!Spec
=============================================================================
