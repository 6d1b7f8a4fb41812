------------------------------ MODULE FifoLock ------------------------------
(***************************************************************************)
(* What the keyed mutex promises to the storage backends: one line of      *)
(* calls per key, served in the order in which they joined, at most the    *)
(* head of a line inside its critical section.                             *)
(***************************************************************************)
EXTENDS Naturals, Sequences

CONSTANTS Calls,   \* mutations that take the lock
          Keys     \* names of locks, e.g. "bucket/key"

VARIABLES line,    \* line[k]: the calls waiting for or holding lock k, oldest first
          inside   \* the calls whose critical section is running

Init == /\ line = [k \in Keys |-> <<>>]
        /\ inside = {}

InLine(c) == \E k \in Keys : \E i \in 1 .. Len(line[k]) : line[k][i] = c

\* A call joins the end of the line of its key.
Join(c, k) == /\ ~ InLine(c)
              /\ line' = [line EXCEPT ![k] = Append(@, c)]
              /\ UNCHANGED inside

\* The head of the line enters.
Go(c, k) == /\ line[k] # <<>> /\ c = Head(line[k])
            /\ c \notin inside
            /\ inside' = inside \cup {c}
            /\ UNCHANGED line

\* The call inside leaves, whatever its outcome.
Leave(c, k) == /\ line[k] # <<>> /\ c = Head(line[k])
               /\ c \in inside
               /\ inside' = inside \ {c}
               /\ line' = [line EXCEPT ![k] = Tail(@)]

Next == \E c \in Calls, k \in Keys : Join(c, k) \/ Go(c, k) \/ Leave(c, k)

Spec == Init /\ [][Next]_<<line, inside>>
=============================================================================
