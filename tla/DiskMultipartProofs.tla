------------------------- MODULE DiskMultipartProofs -------------------------
(***************************************************************************)
(* The safety properties of the multipart uploads on disk, for any number  *)
(* of calls, uploads, parts and crashes.                                   *)
(***************************************************************************)
EXTENDS DiskMultipart, FiniteSetTheorems, SequenceTheorems, TLAPS

(* The inductive invariant.                                                *)

\* The call holds the lock of its upload.
Holding(o) == \/ op[o].pc \in {"held", "stream", "rename", "publish", "rmparts"}
              \/ op[o].pc \in {"wum", "commit"} /\ op[o].kind # "create"

\* The calls with the lock are the ones at its head.
LockOK ==
  \A o \in Ops :
    /\ o \in inside <=> Holding(o)
    /\ o \in inside => line[op[o].up] # <<>> /\ o = Head(line[op[o].up])

\* Which fields go with which state.
Shape(o) ==
  /\ At(o, "idle") => op[o] = Idle
  /\ Holding(o) \/ At(o, "queued") => op[o].up \in Ops /\ op[o].kind \in {"part", "complete", "abort", "sweep"}
  /\ op[o].kind = "part" => op[o].n \in Parts
  /\ op[o].pc \in {"stream", "rename"} => op[o].kind = "part"
  /\ op[o].pc \in {"wum", "commit"} => op[o].kind \in {"create", "part"}
  /\ op[o].kind = "create" => op[o].up = o /\ op[o].pc \in {"wum", "commit", "done", "lost"}
  /\ At(o, "publish") => op[o].kind = "complete"
  /\ At(o, "rmparts") => op[o].kind \in {"complete", "abort", "sweep"}
  /\ op[o].pc \in {"list", "read", "next"} => op[o].kind = "sweep"
  /\ ~ At(o, "done") => op[o].res = None
  /\ op[o].kind = "complete" /\ At(o, "publish") => DOMAIN op[o].body = DOMAIN op[o].list

Creating(o) == op[o].kind = "create" /\ op[o].pc \in {"wum", "commit"}

\* What a call has written so far, and what it found.
Writing(o) ==
  /\ op[o].pc \in {"stream", "rename", "publish", "rmparts"} => um[op[o].up] # None
  /\ op[o].pc \in {"stream", "rename"} => op[o].om = um[op[o].up]
  /\ At(o, "rename") => partTmp[File(o)] = o
  /\ op[o].kind = "part" /\ op[o].pc \in {"wum", "commit"} =>
       /\ um[op[o].up] # None
       /\ op[o].om = [um[op[o].up] EXCEPT ![op[o].n] = o]
       /\ part[File(o)] = o
  /\ Creating(o) => op[o].om = [n \in Parts |-> None]
  /\ At(o, "commit") => umTmp[op[o].up] = op[o].om

\* An upload that has not been created is known to nobody.
Unborn(u) ==
  At(u, "idle") \/ Creating(u) =>
    /\ um[u] = None /\ u \notin aged
    /\ \A n \in Parts : held[<<u, n>>] = {}
    /\ \A o \in Ops \ {u} : op[o].up # u /\ u \notin op[o].old

\* The uploads that a sweep has not dealt with are the ones it has still to do.
Sweeping(o) ==
  op[o].kind = "sweep" =>
    /\ op[o].todo \subseteq op[o].old /\ op[o].found \subseteq op[o].old
    /\ op[o].up \in op[o].old \cup {None}
    /\ LET open == {u \in op[o].old : um[u] # None}
       IN  /\ At(o, "read") => open \subseteq op[o].todo \cup op[o].found
           /\ At(o, "next") => open \subseteq op[o].todo
           /\ At(o, "queued") \/ Holding(o) => open \subseteq op[o].todo \cup {op[o].up}

EndedGone(o) == \A u \in EndedBy(o) : um[u] = None

\* No files without metadata; what is listed has been acknowledged or cut short.
FilesOK ==
  /\ \A f \in Files : um[f[1]] = None => part[f] = None /\ partTmp[f] = None
  /\ \A f \in Files : um[f[1]] # None => um[f[1]][f[2]] \in held[f] \cup {None}
  /\ \A f \in Files : \A o \in held[f] : Ended(o)

\* A part's file is acknowledged, cut short, or just being replaced.
PartsOK ==
  \A f \in Files : part[f] # None =>
    part[f] \in held[f] \cup {o \in Ops : op[o].kind = "part" /\ op[o].pc \in {"wum", "commit"} /\ File(o) = f}

\* An acknowledged part is listed and on disk.
Kept ==
  \A f \in Files :
    (\E o \in held[f] : op[o].res = "ok") /\ ~ UploadEnding(f[1])
      => um[f[1]] # None /\ um[f[1]][f[2]] # None /\ part[f] # None

\* The completions that have made an upload an object.
PublishedOK ==
  \A u \in Ops : \A o \in published[u] :
    /\ op[o].kind = "complete" /\ op[o].up = u
    /\ At(o, "rmparts") \/ At(o, "lost") \/ (At(o, "done") /\ op[o].res \in {"ok", "failed"})
    /\ \A p \in published[u] : Uncertain(o) \/ Uncertain(p) \/ o = p

Bytes(o) ==
  At(o, "publish") =>
    \A i \in DOMAIN op[o].list :
      LET p == op[o].list[i]
      IN  op[o].body[i] \in held[<<op[o].up, p.n>>] /\ p.tag \in held[<<op[o].up, p.n>>] \cup {None}

CallsOK == \A o \in Ops : Shape(o) /\ Writing(o) /\ Unborn(o) /\ Sweeping(o) /\ EndedGone(o) /\ Bytes(o)

IInv == TypeOK /\ LockOK /\ CallsOK /\ FilesOK /\ PartsOK /\ Kept /\ PublishedOK

-----------------------------------------------------------------------------
(* The initial states.                                                     *)

LEMMA IdleFields ==
  /\ Idle \in CallType
  /\ Idle.kind = "none" /\ Idle.pc = "idle" /\ Idle.up = None /\ Idle.om = None /\ Idle.res = None
  /\ Idle.old = {} /\ Idle.todo = {} /\ Idle.found = {}
BY NamesAssumption DEF CallType, Idle, Kinds, Pcs, Answers

LEMMA Initial == Init => IInv
<1> SUFFICES ASSUME Init PROVE IInv
  OBVIOUS
<1> USE NamesAssumption
<1>1. TypeOK
  BY DEF Init, TypeOK, CallType, Idle, Kinds, Pcs, Answers, Files, Lock!Init
<1>2. LockOK
  BY DEF Init, LockOK, Holding, Idle, Lock!Init
<1>3. CallsOK
  BY DEF Init, CallsOK, Shape, Writing, Unborn, Sweeping, EndedGone, EndedBy, Bytes, Holding, Creating, At, Idle, Files
<1>4. FilesOK /\ PartsOK /\ Kept /\ PublishedOK
  BY DEF Init, FilesOK, PartsOK, Kept, PublishedOK, Files
<1>5. QED
  BY <1>1, <1>2, <1>3, <1>4 DEF IInv

-----------------------------------------------------------------------------
(* The locks.                                                              *)

\* Two calls with the lock of one upload are one.
LEMMA Exclusive ==
  ASSUME LockOK, NEW o \in Ops, NEW p \in Ops, Holding(o), Holding(p), op[o].up = op[p].up
  PROVE  o = p
BY DEF LockOK

\* A step of o leaves the locks in order, whether it joins, enters, leaves or does
\* none of these.
LEMMA LockKept ==
  ASSUME TypeOK, LockOK, NEW o \in Ops,
         \A p \in Ops : Holding(p) => op[p].up \in Ops,
         \A p \in Ops \ {o} : op'[p] = op[p],
         \/ UNCHANGED lock /\ (Holding(o)' <=> Holding(o)) /\ (Holding(o) => op'[o].up = op[o].up)
         \/ \E u \in Ops : Lock!Join(o, u) /\ ~ Holding(o) /\ ~ Holding(o)'
         \/ Lock!Go(o, op[o].up) /\ op[o].up \in Ops /\ op'[o].up = op[o].up /\ ~ Holding(o) /\ Holding(o)'
         \/ Lock!Leave(o, op[o].up) /\ op[o].up \in Ops /\ ~ Holding(o)'
  PROVE  LockOK' /\ line' \in [Ops -> Seq(Ops)] /\ inside' \subseteq Ops
<1>1. \A p \in Ops \ {o} : Holding(p)' = Holding(p)
  BY DEF Holding
<1>2. CASE UNCHANGED lock /\ (Holding(o)' <=> Holding(o)) /\ (Holding(o) => op'[o].up = op[o].up)
  BY <1>1, <1>2 DEF LockOK, lock, TypeOK
<1>3. CASE \E u \in Ops : Lock!Join(o, u) /\ ~ Holding(o) /\ ~ Holding(o)'
  <2>1. PICK u \in Ops : Lock!Join(o, u) /\ ~ Holding(o) /\ ~ Holding(o)'
    BY <1>3
  <2>2. line' = [line EXCEPT ![u] = Append(line[u], o)] /\ inside' = inside
    BY <2>1 DEF Lock!Join
  <2> DEFINE s == line[u]
  <2>3. s \in Seq(Ops)
    BY DEF TypeOK
  <2> HIDE DEF s
  <2>4. Append(s, o) \in Seq(Ops) /\ Append(s, o) # <<>> /\ (s # <<>> => Head(Append(s, o)) = Head(s))
    BY <2>3
  <2>5. \A k \in Ops : line[k] # <<>> => line'[k] # <<>> /\ Head(line'[k]) = Head(line[k])
    BY <2>2, <2>4 DEF TypeOK, s
  <2>6. LockOK'
    <3>1. SUFFICES ASSUME NEW p \in Ops
                   PROVE  /\ (p \in inside <=> Holding(p))'
                          /\ (p \in inside => line[op[p].up] # <<>> /\ p = Head(line[op[p].up]))'
      BY DEF LockOK
    <3>2. CASE p = o
      BY <2>1, <2>2, <3>2 DEF LockOK, Holding
    <3>3. CASE p # o
      <4>1. p \in inside => op[p].up \in Ops
        BY DEF LockOK, TypeOK
      <4>2. QED
        BY <1>1, <2>2, <2>5, <3>3, <4>1 DEF LockOK
    <3>4. QED
      BY <3>2, <3>3
  <2>7. QED
    BY <2>2, <2>4, <2>6 DEF TypeOK, s
<1>4. CASE Lock!Go(o, op[o].up) /\ op[o].up \in Ops /\ op'[o].up = op[o].up /\ ~ Holding(o) /\ Holding(o)'
  BY <1>1, <1>4 DEF LockOK, Lock!Go, TypeOK
<1>5. CASE Lock!Leave(o, op[o].up) /\ op[o].up \in Ops /\ ~ Holding(o)'
  <2>1. /\ line[op[o].up] # <<>> /\ o = Head(line[op[o].up])
        /\ line' = [line EXCEPT ![op[o].up] = Tail(line[op[o].up])]
        /\ inside' = inside \ {o}
    BY <1>5 DEF Lock!Leave
  <2>2. Tail(line[op[o].up]) \in Seq(Ops)
    BY <1>5, <2>1 DEF TypeOK
  <2>3. \A p \in inside' : op[p].up # op[o].up
    BY <2>1 DEF LockOK, TypeOK
  <2>4. LockOK'
    BY <1>1, <1>5, <2>1, <2>3 DEF LockOK, TypeOK
  <2>5. QED
    BY <1>5, <2>1, <2>2, <2>4 DEF TypeOK
<1>6. QED
  BY <1>2, <1>3, <1>4, <1>5

-----------------------------------------------------------------------------
(* Steps that change no file but the ".tmp" of a part.                     *)

LEMMA HoldersUp ==
  ASSUME CallsOK, NEW o \in Ops, Holding(o) \/ At(o, "queued")
  PROVE  op[o].up \in Ops /\ op[o].kind \in {"part", "complete", "abort", "sweep"}
BY DEF CallsOK, Shape

\* What makes such a step of o keep the invariant are facts about o alone.
LEMMA Quiet ==
  ASSUME IInv, NEW o \in Ops,
         op' \in [Ops -> CallType],
         \A p \in Ops \ {o} : op'[p] = op[p],
         UNCHANGED <<um, umTmp, part, env>>,
         partTmp' \in [Files -> Ops \cup {None, Torn}],
         \/ UNCHANGED partTmp
         \/ /\ Holding(o) /\ um[op[o].up] # None
            /\ \A f \in Files : f # File(o) => partTmp'[f] = partTmp[f],
         LockOK', line' \in [Ops -> Seq(Ops)], inside' \subseteq Ops,
         op[o].pc \notin {"wum", "commit", "rmparts", "done", "lost"},
         op'[o].kind = op[o].kind \/ At(o, "idle"),
         op[o].old \subseteq op'[o].old, op'[o].old \subseteq op[o].old \cup aged,
         op'[o].up \in Known \cup op[o].old \cup {op[o].up, None, o},
         ~ At(o, "idle")', Creating(o)' => At(o, "idle"),
         Shape(o)', Writing(o)', Sweeping(o)', EndedGone(o)', Bytes(o)'
  PROVE  IInv'
<1> USE DEF IInv, env
<1>1. TypeOK'
  BY DEF TypeOK
<1>2. \A p \in Ops \ {o} : Shape(p)' /\ Sweeping(p)' /\ EndedGone(p)' /\ Bytes(p)'
  <2> SUFFICES ASSUME NEW p \in Ops \ {o} PROVE Shape(p)' /\ Sweeping(p)' /\ EndedGone(p)' /\ Bytes(p)'
    OBVIOUS
  <2>1. op'[p] = op[p] /\ Shape(p) /\ Sweeping(p) /\ EndedGone(p) /\ Bytes(p)
    BY DEF CallsOK
  <2>2. Shape(p)' /\ Sweeping(p)'
    BY <2>1 DEF Shape, Sweeping, At, Holding
  <2>3. EndedGone(p)'
    BY <2>1 DEF EndedGone, EndedBy
  <2>4. Bytes(p)'
    BY <2>1 DEF Bytes, At
  <2> QED
    BY <2>2, <2>3, <2>4
<1>3. \A p \in Ops \ {o} : Writing(p)'
  <2> SUFFICES ASSUME NEW p \in Ops \ {o} PROVE Writing(p)'
    OBVIOUS
  <2>1. op'[p] = op[p] /\ Writing(p)
    BY DEF CallsOK
  <2>2. At(p, "rename") => partTmp'[File(p)] = partTmp[File(p)]
    <3> SUFFICES ASSUME At(p, "rename") PROVE partTmp'[File(p)] = partTmp[File(p)]
      OBVIOUS
    <3>1. Holding(p)
      BY DEF Holding, At
    <3>2. op[p].up \in Ops /\ op[p].n \in Parts
      BY <3>1, HoldersUp DEF CallsOK, Shape, At
    <3>3. Holding(o) => File(p) # File(o)
      BY <3>1, Exclusive DEF File
    <3> QED
      BY <3>2, <3>3 DEF File, Files
  <2> QED
    BY <2>1, <2>2 DEF Writing, At, File, Creating
<1>4. \A u \in Ops : Unborn(u)'
  <2> SUFFICES ASSUME NEW u \in Ops, (At(u, "idle") \/ Creating(u))' PROVE Unborn(u)'
    BY DEF Unborn
  <2>1. At(u, "idle") \/ Creating(u)
    BY DEF At, Creating
  <2>2. /\ um[u] = None /\ u \notin aged
        /\ \A n \in Parts : held[<<u, n>>] = {}
        /\ \A p \in Ops \ {u} : op[p].up # u /\ u \notin op[p].old
    BY <2>1 DEF CallsOK, Unborn
  <2>3. u \notin Known
    BY <2>1, <2>2 DEF Known, Ended, At, Creating
  <2>4. None \notin Ops
    BY NamesAssumption
  <2>5. u # o => op'[o].up # u /\ u \notin op'[o].old
    BY <2>2, <2>3, <2>4
  <2> QED
    BY <2>2, <2>5 DEF Unborn
<1>5. CallsOK'
  BY <1>2, <1>3, <1>4 DEF CallsOK
<1>6. FilesOK'
  <2>1. \A f \in Files : um'[f[1]] = None => part'[f] = None /\ partTmp'[f] = None
    <3> SUFFICES ASSUME NEW f \in Files, um[f[1]] = None PROVE part'[f] = None /\ partTmp'[f] = None
      OBVIOUS
    <3>1. Holding(o) /\ um[op[o].up] # None => f # File(o)
      BY DEF File
    <3> QED
      BY <3>1 DEF FilesOK
  <2>2. \A p \in Ops : Ended(p) => Ended(p)'
    BY DEF Ended
  <2>3. \A f \in Files : \A p \in held'[f] : Ended(p)'
    BY <2>2 DEF FilesOK, TypeOK
  <2> QED
    BY <2>1, <2>3 DEF FilesOK
<1>7. PartsOK'
  <2>1. \A p \in Ops : op[p].pc \in {"wum", "commit"} => op'[p] = op[p]
    OBVIOUS
  <2> QED
    BY <2>1 DEF PartsOK, File
<1>8. Kept'
  <2>1. \A u \in Ops : UploadEnding(u) => UploadEnding(u)'
    <3> SUFFICES ASSUME NEW u \in Ops, NEW p \in Ops,
                        op[p].kind \in {"complete", "abort", "sweep"},
                        \/ op[p].up = u /\ (At(p, "rmparts") \/ At(p, "lost") \/ op[p].res = "ok")
                        \/ u \in op[p].old
                 PROVE  UploadEnding(u)'
      BY DEF UploadEnding
    <3>1. op[o].res = None /\ (At(o, "idle") => op[o].kind = "none")
      <4>1. Shape(o)
        BY DEF CallsOK
      <4> QED
        BY <4>1 DEF Shape, At, Idle
    <3>2. None # "ok"
      BY NamesAssumption
    <3>3. CASE p # o
      BY <3>3 DEF UploadEnding, At
    <3>4. CASE p = o
      BY <3>1, <3>2, <3>4 DEF UploadEnding, At
    <3> QED
      BY <3>3, <3>4
  <2>2. \A f \in Files : \A p \in held[f] : op'[p] = op[p]
    BY DEF FilesOK, TypeOK, Ended
  <2>3. \A f \in Files : f[1] \in Ops
    BY DEF Files
  <2> SUFFICES ASSUME NEW f \in Files, (\E p \in held[f] : op'[p].res = "ok"), ~ UploadEnding(f[1])'
               PROVE  um[f[1]] # None /\ um[f[1]][f[2]] # None /\ part[f] # None
    BY DEF Kept
  <2>4. ~ UploadEnding(f[1]) /\ \E p \in held[f] : op[p].res = "ok"
    BY <2>1, <2>2, <2>3
  <2> QED
    BY <2>4 DEF Kept
<1>9. PublishedOK'
  <2>1. \A u \in Ops : \A p \in published[u] : op'[p] = op[p]
    BY DEF PublishedOK, TypeOK, At
  <2> QED
    BY <2>1 DEF PublishedOK, Uncertain, At, TypeOK
<1> QED
  BY <1>1, <1>5, <1>6, <1>7, <1>8, <1>9

LEMMA QueuedStep ==
  ASSUME IInv, NEW o \in Ops, NEW kind \in {"part", "complete", "abort"}, NEW u \in Known,
         NEW n \in Parts \cup {None}, kind = "part" => n \in Parts,
         NEW list \in Seq([n : Parts, tag : Ops \cup {None}]),
         Queued(o, kind, u, n, list)
  PROVE  IInv'
<1> DEFINE c == [Idle EXCEPT !.kind = kind, !.up = u, !.n = n, !.list = list, !.pc = "queued"]
<1>1. /\ op' = [op EXCEPT ![o] = c] /\ At(o, "idle")
      /\ Lock!Join(o, u) /\ UNCHANGED <<files, env>>
  BY DEF Queued, Made
<1>2. u \in Ops
  BY DEF Known
<1>3. /\ c \in CallType
      /\ c.kind = kind /\ c.up = u /\ c.n = n /\ c.pc = "queued" /\ c.old = {} /\ c.res = None
  BY <1>2, IdleFields DEF CallType, Kinds, Pcs
<1>4. /\ op' \in [Ops -> CallType] /\ op'[o] = c
      /\ \A p \in Ops \ {o} : op'[p] = op[p]
  BY <1>1, <1>3 DEF IInv, TypeOK
<1> HIDE DEF c
<1>5. op[o].pc = "idle" /\ op[o].old = {} /\ op[o].up = None
  BY <1>1 DEF IInv, CallsOK, Shape, At, Idle
<1>6. ~ Holding(o) /\ ~ Holding(o)'
  BY <1>3, <1>4, <1>5 DEF Holding
<1>7. LockOK' /\ line' \in [Ops -> Seq(Ops)] /\ inside' \subseteq Ops
  BY <1>1, <1>2, <1>4, <1>6, LockKept, HoldersUp DEF IInv
<1>8. Shape(o)' /\ Writing(o)' /\ Sweeping(o)' /\ EndedGone(o)' /\ Bytes(o)'
  BY <1>2, <1>3, <1>4, <1>6, NamesAssumption
     DEF Shape, Writing, Sweeping, EndedGone, EndedBy, Bytes, At, Holding, Creating
<1>9. QED
  BY <1>1, <1>3, <1>4, <1>5, <1>7, <1>8, Quiet DEF files, env, IInv, TypeOK, At, Creating

LEMMA CallStep ==
  ASSUME IInv, NEW o \in Ops, Call(o)
  PROVE  IInv'
<1>0. <<>> \in Seq([n : Parts, tag : Ops \cup {None}])
  OBVIOUS
<1>1. CASE PartCall(o)
  <2>1. PICK u \in Known, n \in Parts : Queued(o, "part", u, n, <<>>)
    BY <1>1 DEF PartCall
  <2> QED
    BY <1>0, <2>1, QueuedStep
<1>2. CASE CompleteCall(o)
  <2>1. PICK u \in Known, len \in 0 .. MaxListed :
          \E list \in [1 .. len -> Listable(u)] : Queued(o, "complete", u, None, list)
    BY <1>2 DEF CompleteCall
  <2>2. PICK list \in [1 .. len -> Listable(u)] : Queued(o, "complete", u, None, list)
    BY <2>1
  <2>3. Listable(u) \subseteq [n : Parts, tag : Ops \cup {None}]
    <3> SUFFICES ASSUME NEW p \in Ops, op[p].kind = "part"
                 PROVE  [n |-> op[p].n, tag |-> p] \in [n : Parts, tag : Ops \cup {None}]
      BY DEF Listable
    <3>1. op[p].n \in Parts
      BY DEF IInv, CallsOK, Shape
    <3> QED
      BY <3>1
  <2>4. list \in Seq([n : Parts, tag : Ops \cup {None}])
    <3> DEFINE S == [n : Parts, tag : Ops \cup {None}]
    <3>1. len \in Nat /\ list \in [1 .. len -> S]
      BY <2>2, <2>3, BoundsAssumption
    <3> HIDE DEF S
    <3>2. list \in Seq(S)
      BY <3>1, SeqDef
    <3> QED
      BY <3>2 DEF S
  <2> QED
    BY <2>2, <2>4, QueuedStep
<1>3. CASE AbortCall(o)
  <2>1. PICK u \in Known : Queued(o, "abort", u, None, <<>>)
    BY <1>3 DEF AbortCall
  <2> QED
    BY <1>0, <2>1, QueuedStep
<1>4. CASE CreateCall(o)
  <2> DEFINE c == [Idle EXCEPT !.kind = "create", !.up = o, !.pc = "wum", !.om = [n \in Parts |-> None]]
  <2>1. /\ op' = [op EXCEPT ![o] = c] /\ At(o, "idle")
        /\ UNCHANGED <<files, lock, env>>
    BY <1>4 DEF CreateCall, Made
  <2>2. [n \in Parts |-> None] \in Metadata
    BY DEF Metadata
  <2>3. /\ c \in CallType
        /\ c.kind = "create" /\ c.up = o /\ c.pc = "wum" /\ c.old = {} /\ c.res = None /\ c.om = [n \in Parts |-> None]
    BY <2>2, IdleFields DEF CallType, Kinds, Pcs
  <2>4. /\ op' \in [Ops -> CallType] /\ op'[o] = c
        /\ \A p \in Ops \ {o} : op'[p] = op[p]
    BY <2>1, <2>3 DEF IInv, TypeOK
  <2> HIDE DEF c
  <2>5. op[o].pc = "idle" /\ op[o].old = {} /\ op[o].up = None
    BY <2>1 DEF IInv, CallsOK, Shape, At, Idle
  <2>6. ~ Holding(o) /\ ~ Holding(o)'
    BY <2>3, <2>4, <2>5 DEF Holding
  <2>7. LockOK' /\ line' \in [Ops -> Seq(Ops)] /\ inside' \subseteq Ops
    BY <2>1, <2>4, <2>6, LockKept, HoldersUp DEF IInv
  <2>8. Shape(o)' /\ Writing(o)' /\ Sweeping(o)' /\ EndedGone(o)' /\ Bytes(o)'
    BY <2>3, <2>4, <2>6, NamesAssumption
       DEF Shape, Writing, Sweeping, EndedGone, EndedBy, Bytes, At, Holding, Creating
  <2> QED
    BY <2>1, <2>3, <2>4, <2>5, <2>7, <2>8, Quiet DEF files, env, IInv, TypeOK, At, Creating
<1>5. CASE SweepCall(o)
  <2> DEFINE c == [Idle EXCEPT !.kind = "sweep", !.old = aged, !.pc = "list"]
  <2>1. /\ op' = [op EXCEPT ![o] = c] /\ At(o, "idle")
        /\ UNCHANGED <<files, lock, env>>
    BY <1>5 DEF SweepCall, Made
  <2>3. /\ c \in CallType
        /\ c.kind = "sweep" /\ c.up = None /\ c.pc = "list" /\ c.old = aged /\ c.res = None
        /\ c.todo = {} /\ c.found = {}
    BY IdleFields DEF CallType, Kinds, Pcs, IInv, TypeOK
  <2>4. /\ op' \in [Ops -> CallType] /\ op'[o] = c
        /\ \A p \in Ops \ {o} : op'[p] = op[p]
    BY <2>1, <2>3 DEF IInv, TypeOK
  <2> HIDE DEF c
  <2>5. op[o].pc = "idle" /\ op[o].old = {} /\ op[o].up = None
    BY <2>1 DEF IInv, CallsOK, Shape, At, Idle
  <2>6. ~ Holding(o) /\ ~ Holding(o)'
    BY <2>3, <2>4, <2>5 DEF Holding
  <2>7. LockOK' /\ line' \in [Ops -> Seq(Ops)] /\ inside' \subseteq Ops
    BY <2>1, <2>4, <2>6, LockKept, HoldersUp DEF IInv
  <2>8. Shape(o)' /\ Writing(o)' /\ Sweeping(o)' /\ EndedGone(o)' /\ Bytes(o)'
    BY <2>3, <2>4, <2>6, NamesAssumption
       DEF Shape, Writing, Sweeping, EndedGone, EndedBy, Bytes, At, Holding, Creating
  <2> QED
    BY <2>1, <2>3, <2>4, <2>5, <2>7, <2>8, Quiet DEF files, env, IInv, TypeOK, At, Creating
<1>6. QED
  BY <1>1, <1>2, <1>3, <1>4, <1>5 DEF Call

\* A step that answers, from a state in which nothing is half done.
LEMMA FinishStep ==
  ASSUME IInv, NEW o \in Ops, NEW res \in Answers, Finish(o, res), UNCHANGED <<files, env>>,
         op[o].pc \in {"held", "stream", "next"}, EndedGone(o)'
  PROVE  IInv'
<1> DEFINE c == Ending(o, res)
<1>1. /\ c \in CallType
      /\ c.kind = op[o].kind /\ c.up = op[o].up /\ c.n = op[o].n /\ c.old = op[o].old /\ c.pc = "done"
      /\ c.todo = {} /\ c.found = {}
  BY IdleFields DEF Ending, CallType, Pcs, IInv, TypeOK
<1>2. op' = [op EXCEPT ![o] = c] /\ IF o \in inside THEN Lock!Leave(o, op[o].up) ELSE UNCHANGED lock
  BY DEF Finish
<1> HIDE DEF c
<1>3. /\ op' \in [Ops -> CallType] /\ op'[o] = c
      /\ \A p \in Ops \ {o} : op'[p] = op[p]
  BY <1>1, <1>2 DEF IInv, TypeOK
<1>4. ~ Holding(o)' /\ (o \in inside <=> Holding(o))
  BY <1>1, <1>3 DEF Holding, IInv, LockOK
<1>5. LockOK' /\ line' \in [Ops -> Seq(Ops)] /\ inside' \subseteq Ops
  BY <1>2, <1>3, <1>4, LockKept, HoldersUp DEF IInv
<1>6. Shape(o) /\ Sweeping(o)
  BY DEF IInv, CallsOK
<1>7. Shape(o)'
  BY <1>1, <1>3, <1>4, <1>6 DEF Shape, At, Holding
<1>8. Sweeping(o)'
  BY <1>1, <1>3, <1>4, <1>6, NamesAssumption DEF Sweeping, At
<1>9. Writing(o)' /\ Bytes(o)'
  BY <1>1, <1>3 DEF Writing, Bytes, At, Creating
<1>10. QED
  BY <1>1, <1>2, <1>3, <1>5, <1>7, <1>8, <1>9, Quiet DEF files, env, IInv, TypeOK, At, Creating

LEMMA NotThereStep ==
  ASSUME IInv, NEW o \in Ops, NotThere(o)
  PROVE  IInv'
<1>1. /\ At(o, "held") /\ um[op[o].up] = None
      /\ Finish(o, "NoSuchUpload") /\ UNCHANGED <<files, env>>
  BY DEF NotThere
<1>2. /\ op'[o].res = "NoSuchUpload" /\ op'[o].up = op[o].up
  BY <1>1, IdleFields DEF Finish, Ending, IInv, TypeOK, CallType
<1>3. EndedGone(o)'
  BY <1>1, <1>2 DEF EndedGone, EndedBy, files
<1>4. QED
  BY <1>1, <1>3, FinishStep DEF At, Answers

\* Answers that tell nothing about an upload.
LEMMA FailStep ==
  ASSUME IInv, NEW o \in Ops, NEW res \in {"failed", "InvalidPart", "InvalidPartOrder"},
         Finish(o, res), UNCHANGED <<files, env>>, op[o].pc \in {"held", "stream"}
  PROVE  IInv'
<1>1. op'[o].res = res
  BY IdleFields DEF Finish, Ending, IInv, TypeOK, CallType
<1>2. EndedGone(o)'
  BY <1>1 DEF EndedGone, EndedBy
<1>3. QED
  BY <1>2, FinishStep DEF Answers

LEMMA OpType ==
  ASSUME IInv, NEW o \in Ops
  PROVE  op[o] \in CallType
BY DEF IInv, TypeOK

LEMMA SetPc ==
  ASSUME NEW r \in CallType, NEW x \in Pcs
  PROVE  LET c == [r EXCEPT !.pc = x]
         IN  /\ c \in CallType /\ c.pc = x
             /\ c.kind = r.kind /\ c.up = r.up /\ c.n = r.n /\ c.res = r.res /\ c.om = r.om
             /\ c.list = r.list /\ c.body = r.body
             /\ c.old = r.old /\ c.todo = r.todo /\ c.found = r.found
BY DEF CallType

LEMMA SetGone ==
  ASSUME NEW r \in CallType
  PROVE  LET c == [r EXCEPT !.gone = TRUE]
         IN  /\ c \in CallType /\ c.pc = r.pc /\ c.up = r.up
             /\ c.om = r.om /\ c.body = r.body /\ c.todo = r.todo /\ c.found = r.found
             /\ c.kind = r.kind /\ c.n = r.n /\ c.res = r.res /\ c.list = r.list /\ c.old = r.old
BY DEF CallType

LEMMA AcquireStep ==
  ASSUME IInv, NEW o \in Ops, Acquire(o)
  PROVE  IInv'
<1> DEFINE c == [op[o] EXCEPT !.pc = "held"]
<1>0. /\ c \in CallType /\ c.pc = "held"
      /\ c.kind = op[o].kind /\ c.up = op[o].up /\ c.n = op[o].n /\ c.res = op[o].res
      /\ c.old = op[o].old /\ c.todo = op[o].todo /\ c.found = op[o].found
  <2>1. op[o] \in CallType
    BY OpType
  <2>2. "held" \in Pcs
    BY DEF Pcs
  <2> QED
    BY <2>1, <2>2, SetPc
<1>1. /\ At(o, "queued") /\ Lock!Go(o, op[o].up) /\ op' = [op EXCEPT ![o] = c]
      /\ UNCHANGED <<files, env>>
  BY DEF Acquire, Goes
<1> HIDE DEF c
<1>2. /\ op' \in [Ops -> CallType] /\ op'[o] = c
      /\ \A p \in Ops \ {o} : op'[p] = op[p]
  BY <1>0, <1>1 DEF IInv, TypeOK
<1>3. ~ Holding(o) /\ Holding(o)' /\ op[o].up \in Ops /\ op[o].kind # "create"
  BY <1>0, <1>1, <1>2, HoldersUp DEF Holding, At, IInv
<1>4. LockOK' /\ line' \in [Ops -> Seq(Ops)] /\ inside' \subseteq Ops
  BY <1>0, <1>1, <1>2, <1>3, LockKept, HoldersUp DEF IInv
<1>5. Shape(o) /\ Sweeping(o) /\ EndedGone(o)
  BY DEF IInv, CallsOK
<1>6. Shape(o)' /\ Sweeping(o)' /\ EndedGone(o)' /\ Writing(o)' /\ Bytes(o)'
  BY <1>0, <1>1, <1>2, <1>3, <1>5
     DEF Shape, Sweeping, EndedGone, EndedBy, Writing, Bytes, At, Holding, Creating, files
<1>7. QED
  BY <1>0, <1>1, <1>2, <1>3, <1>4, <1>6, Quiet DEF files, env, IInv, TypeOK, At, Creating

\* A step of o that leaves the locks alone, and changes neither what the call is
\* about nor more than a ".tmp".
LEMMA LocalStep ==
  ASSUME IInv, NEW o \in Ops, NEW c \in CallType, op' = [op EXCEPT ![o] = c],
         c.kind = op[o].kind, c.up = op[o].up, c.old = op[o].old, c.res = op[o].res,
         op[o].pc \in {"queued", "held", "stream", "list", "read"},
         c.pc \notin {"idle", "wum", "commit", "done", "lost"},
         UNCHANGED <<um, umTmp, part, lock, env>>,
         partTmp' \in [Files -> Ops \cup {None, Torn}],
         \/ UNCHANGED partTmp
         \/ /\ Holding(o) /\ um[op[o].up] # None
            /\ \A f \in Files : f # File(o) => partTmp'[f] = partTmp[f],
         Holding(o)' <=> Holding(o), Shape(o)', Writing(o)', Sweeping(o)', Bytes(o)'
  PROVE  IInv'
<1>1. /\ op' \in [Ops -> CallType] /\ op'[o] = c
      /\ \A p \in Ops \ {o} : op'[p] = op[p]
  BY DEF IInv, TypeOK
<1>2. LockOK' /\ line' \in [Ops -> Seq(Ops)] /\ inside' \subseteq Ops
  BY <1>1, LockKept, HoldersUp DEF IInv
<1>3. EndedGone(o)'
  <2>1. op[o].res = None
    BY DEF IInv, CallsOK, Shape, At
  <2> QED
    BY <1>1, <2>1, NamesAssumption DEF EndedGone, EndedBy
<1>4. QED
  BY <1>1, <1>2, <1>3, Quiet DEF env, IInv, TypeOK, At, Creating

LEMMA HangUpStep ==
  ASSUME IInv, NEW o \in Ops, HangUp(o)
  PROVE  IInv'
<1> DEFINE c == [op[o] EXCEPT !.gone = TRUE]
<1>1. /\ op[o].pc \in {"queued", "held"} /\ op' = [op EXCEPT ![o] = c]
      /\ UNCHANGED <<files, lock, env>>
  BY DEF HangUp
<1>2. /\ c \in CallType /\ c.pc = op[o].pc /\ c.up = op[o].up
      /\ c.kind = op[o].kind /\ c.n = op[o].n /\ c.res = op[o].res /\ c.old = op[o].old
      /\ c.todo = op[o].todo /\ c.found = op[o].found
  <2>1. op[o] \in CallType
    BY OpType
  <2> QED
    BY <2>1, SetGone
<1> HIDE DEF c
<1>3. op'[o] = c
  BY <1>1 DEF IInv, TypeOK
<1>4. Shape(o) /\ Sweeping(o)
  BY DEF IInv, CallsOK
<1>5. (Holding(o)' <=> Holding(o)) /\ Shape(o)' /\ Writing(o)' /\ Sweeping(o)' /\ Bytes(o)'
  BY <1>1, <1>2, <1>3, <1>4 DEF Holding, Shape, Writing, Sweeping, Bytes, At, Creating, files
<1>6. QED
  BY <1>1, <1>2, <1>5, LocalStep DEF files, IInv, TypeOK

\* Steps under the lock that find the upload.
LEMMA PartOpenStep ==
  ASSUME IInv, NEW o \in Ops, PartOpen(o)
  PROVE  IInv'
<1> DEFINE c == [op[o] EXCEPT !.om = um[op[o].up], !.pc = "stream"]
<1>1. /\ op[o].kind = "part" /\ op[o].pc = "held" /\ um[op[o].up] # None
      /\ partTmp' = [partTmp EXCEPT ![File(o)] = Torn]
      /\ op' = [op EXCEPT ![o] = c]
      /\ UNCHANGED <<um, umTmp, part, lock, env>>
  BY DEF PartOpen, There, At
<1>2. op[o] \in CallType /\ Shape(o) /\ Sweeping(o) /\ Holding(o) /\ op[o].up \in Ops /\ op[o].n \in Parts
  BY <1>1, OpType, HoldersUp DEF IInv, CallsOK, Holding, Shape
<1>3. /\ c \in CallType /\ c.pc = "stream" /\ c.up = op[o].up /\ c.om = um[op[o].up]
      /\ c.kind = op[o].kind /\ c.n = op[o].n /\ c.res = op[o].res /\ c.old = op[o].old
  <2>1. op[o] \in CallType
    BY <1>2
  <2>2. um[op[o].up] \in Metadata \cup {None}
    BY <1>2 DEF IInv, TypeOK
  <2>3. "stream" \in Pcs
    BY DEF Pcs
  <2>4. PICK r \in CallType, y \in Metadata \cup {None} : r = op[o] /\ y = um[op[o].up]
    BY <2>1, <2>2
  <2>5. c = [r EXCEPT !.om = y, !.pc = "stream"]
    BY <2>4
  <2> HIDE DEF c
  <2> QED
    BY <2>3, <2>4, <2>5 DEF CallType
<1> HIDE DEF c
<1>4. op'[o] = c
  BY <1>1 DEF IInv, TypeOK
<1>5. (Holding(o)' <=> Holding(o)) /\ Shape(o)' /\ Writing(o)' /\ Sweeping(o)' /\ Bytes(o)'
  BY <1>1, <1>2, <1>3, <1>4 DEF Holding, Shape, Writing, Sweeping, Bytes, At, Creating
<1>6. /\ partTmp' \in [Files -> Ops \cup {None, Torn}]
      /\ \A f \in Files : f # File(o) => partTmp'[f] = partTmp[f]
  BY <1>1 DEF IInv, TypeOK
<1>7. QED
  BY <1>1, <1>2, <1>3, <1>5, <1>6, LocalStep

LEMMA StreamEndStep ==
  ASSUME IInv, NEW o \in Ops, StreamEnd(o)
  PROVE  IInv'
<1> DEFINE c == [op[o] EXCEPT !.pc = "rename"]
<1>1. /\ op[o].kind = "part" /\ op[o].pc = "stream"
      /\ partTmp' = [partTmp EXCEPT ![File(o)] = o]
      /\ op' = [op EXCEPT ![o] = c]
      /\ UNCHANGED <<um, umTmp, part, lock, env>>
  BY DEF StreamEnd, Goes, At
<1>2. /\ op[o] \in CallType /\ Shape(o) /\ Sweeping(o) /\ Writing(o) /\ Holding(o)
      /\ op[o].up \in Ops /\ op[o].n \in Parts /\ File(o) \in Files
  BY <1>1, OpType, HoldersUp DEF IInv, CallsOK, Holding, Shape, File, Files
<1>3. /\ c \in CallType /\ c.pc = "rename" /\ c.up = op[o].up /\ c.om = op[o].om
      /\ c.kind = op[o].kind /\ c.n = op[o].n /\ c.res = op[o].res /\ c.old = op[o].old
  <2>1. "rename" \in Pcs
    BY DEF Pcs
  <2> QED
    BY <1>2, <2>1, SetPc
<1> HIDE DEF c
<1>4. op'[o] = c
  BY <1>1 DEF IInv, TypeOK
<1>5. /\ partTmp' \in [Files -> Ops \cup {None, Torn}] /\ partTmp'[File(o)] = o
      /\ \A f \in Files : f # File(o) => partTmp'[f] = partTmp[f]
  BY <1>1, <1>2 DEF IInv, TypeOK
<1>6. File(o)' = File(o) /\ um[op[o].up] # None
  BY <1>1, <1>2, <1>3, <1>4 DEF File, Writing
<1>7. (Holding(o)' <=> Holding(o)) /\ Shape(o)' /\ Writing(o)' /\ Sweeping(o)' /\ Bytes(o)'
  BY <1>1, <1>2, <1>3, <1>4, <1>5, <1>6 DEF Holding, Shape, Writing, Sweeping, Bytes, At, Creating
<1>8. QED
  BY <1>1, <1>2, <1>3, <1>5, <1>6, <1>7, LocalStep

LEMMA AbortStartStep ==
  ASSUME IInv, NEW o \in Ops, AbortStart(o)
  PROVE  IInv'
<1> DEFINE c == [op[o] EXCEPT !.pc = "rmparts"]
<1>1. /\ op[o].kind \in {"abort", "sweep"} /\ op[o].pc = "held" /\ um[op[o].up] # None
      /\ op' = [op EXCEPT ![o] = c]
      /\ UNCHANGED <<files, lock, env>>
  BY DEF AbortStart, There, Goes, At
<1>2. op[o] \in CallType /\ Shape(o) /\ Sweeping(o)
  BY OpType DEF IInv, CallsOK
<1>3. /\ c \in CallType /\ c.pc = "rmparts" /\ c.up = op[o].up
      /\ c.kind = op[o].kind /\ c.n = op[o].n /\ c.res = op[o].res /\ c.old = op[o].old
      /\ c.todo = op[o].todo /\ c.found = op[o].found
  <2>1. "rmparts" \in Pcs
    BY DEF Pcs
  <2> QED
    BY <1>2, <2>1, SetPc
<1> HIDE DEF c
<1>4. op'[o] = c
  BY <1>1 DEF IInv, TypeOK
<1>5. (Holding(o)' <=> Holding(o)) /\ Shape(o)' /\ Writing(o)' /\ Sweeping(o)' /\ Bytes(o)'
  BY <1>1, <1>2, <1>3, <1>4 DEF Holding, Shape, Writing, Sweeping, Bytes, At, Creating, files
<1>6. QED
  BY <1>1, <1>3, <1>5, LocalStep DEF files, IInv, TypeOK

\* The sweep: an upload whose metadata has gone needs no abort.
LEMMA ReadingStep ==
  ASSUME IInv, NEW o \in Ops, NEW todo \in SUBSET op[o].old, NEW found \in SUBSET op[o].old,
         op[o].kind = "sweep", op[o].pc \in {"list", "read"},
         {u \in op[o].old : um[u] # None} \subseteq todo \cup found,
         Reading(o, todo, found), UNCHANGED <<files, lock, env>>
  PROVE  IInv'
<1>1. op[o] \in CallType
  BY OpType
<1>2. op[o].old \subseteq Ops
  BY <1>1 DEF CallType
<1>3. todo \in SUBSET Ops /\ found \in SUBSET Ops
  BY <1>2
<1>4. Shape(o) /\ Sweeping(o)
  BY DEF IInv, CallsOK
<1>5. CASE todo = {}
  <2> DEFINE c == [op[o] EXCEPT !.todo = found, !.found = {}, !.pc = "next"]
  <2>1. op' = [op EXCEPT ![o] = c]
    BY <1>5 DEF Reading
  <2>2. /\ c \in CallType /\ c.pc = "next" /\ c.todo = found /\ c.found = {} /\ c.up = op[o].up
        /\ c.kind = op[o].kind /\ c.n = op[o].n /\ c.res = op[o].res /\ c.old = op[o].old
    <3>1. "next" \in Pcs
      BY DEF Pcs
    <3>2. {} \in SUBSET Ops
      OBVIOUS
    <3>3. PICK r \in CallType : r = op[o]
      BY <1>1
    <3>4. c = [r EXCEPT !.todo = found, !.found = {}, !.pc = "next"]
      BY <3>3
    <3> HIDE DEF c
    <3> QED
      BY <1>3, <3>1, <3>2, <3>3, <3>4 DEF CallType
  <2> HIDE DEF c
  <2>3. op'[o] = c
    BY <2>1 DEF IInv, TypeOK
  <2>4. (Holding(o)' <=> Holding(o)) /\ Shape(o)' /\ Writing(o)' /\ Sweeping(o)' /\ Bytes(o)'
    BY <1>4, <1>5, <2>2, <2>3 DEF Holding, Shape, Writing, Sweeping, Bytes, At, Creating, files
  <2> QED
    BY <2>1, <2>2, <2>4, LocalStep DEF files, IInv, TypeOK
<1>6. CASE todo # {}
  <2> DEFINE c == [op[o] EXCEPT !.todo = todo, !.found = found, !.pc = "read"]
  <2>1. op' = [op EXCEPT ![o] = c]
    BY <1>6 DEF Reading
  <2>2. /\ c \in CallType /\ c.pc = "read" /\ c.todo = todo /\ c.found = found /\ c.up = op[o].up
        /\ c.kind = op[o].kind /\ c.n = op[o].n /\ c.res = op[o].res /\ c.old = op[o].old
    <3>1. "read" \in Pcs
      BY DEF Pcs
    <3>2. PICK r \in CallType : r = op[o]
      BY <1>1
    <3>3. c = [r EXCEPT !.todo = todo, !.found = found, !.pc = "read"]
      BY <3>2
    <3> HIDE DEF c
    <3> QED
      BY <1>3, <3>1, <3>2, <3>3 DEF CallType
  <2> HIDE DEF c
  <2>3. op'[o] = c
    BY <2>1 DEF IInv, TypeOK
  <2>4. (Holding(o)' <=> Holding(o)) /\ Shape(o)' /\ Writing(o)' /\ Sweeping(o)' /\ Bytes(o)'
    BY <1>4, <1>6, <2>2, <2>3 DEF Holding, Shape, Writing, Sweeping, Bytes, At, Creating, files
  <2> QED
    BY <2>1, <2>2, <2>4, LocalStep DEF files, IInv, TypeOK
<1>7. QED
  BY <1>5, <1>6

LEMMA SweepReadStep ==
  ASSUME IInv, NEW o \in Ops, SweepList(o) \/ SweepRead(o)
  PROVE  IInv'
<1>1. Shape(o) /\ Sweeping(o)
  BY DEF IInv, CallsOK
<1>2. CASE SweepList(o)
  <2> DEFINE todo == {u \in op[o].old : um[u] # None}
  <2>1. op[o].pc = "list" /\ Reading(o, todo, {}) /\ UNCHANGED <<files, lock, env>>
    BY <1>2 DEF SweepList, At
  <2>2. op[o].kind = "sweep"
    BY <1>1, <2>1 DEF Shape
  <2>3. todo \in SUBSET op[o].old /\ {} \in SUBSET op[o].old /\ todo \subseteq todo \cup {}
    OBVIOUS
  <2> QED
    BY <2>1, <2>2, <2>3, ReadingStep
<1>3. CASE SweepRead(o)
  <2>1. PICK u \in op[o].todo :
          Reading(o, op[o].todo \ {u}, op[o].found \cup (IF um[u] = None THEN {} ELSE {u}))
    BY <1>3 DEF SweepRead
  <2>2. op[o].pc = "read" /\ UNCHANGED <<files, lock, env>>
    BY <1>3 DEF SweepRead, At
  <2>3. op[o].kind = "sweep"
    BY <1>1, <2>2 DEF Shape
  <2> DEFINE todo  == op[o].todo \ {u}
             found == op[o].found \cup (IF um[u] = None THEN {} ELSE {u})
  <2>4. todo \in SUBSET op[o].old /\ found \in SUBSET op[o].old
    BY <1>1, <2>3 DEF Sweeping
  <2>5. {w \in op[o].old : um[w] # None} \subseteq todo \cup found
    BY <1>1, <2>2, <2>3 DEF Sweeping, At
  <2>6. Reading(o, todo, found)
    BY <2>1
  <2> HIDE DEF todo, found
  <2> QED
    BY <2>2, <2>3, <2>4, <2>5, <2>6, ReadingStep
<1>4. QED
  BY <1>2, <1>3

LEMMA SweepNextStep ==
  ASSUME IInv, NEW o \in Ops, SweepNext(o)
  PROVE  IInv'
<1>1. op[o].pc = "next" /\ Shape(o) /\ Sweeping(o) /\ UNCHANGED <<files, env>>
  BY DEF SweepNext, At, IInv, CallsOK
<1>2. op[o].kind = "sweep" /\ op[o].res = None
  BY <1>1 DEF Shape, At
<1>3. op[o] \in CallType
  BY OpType
<1>4. CASE op[o].todo = {} /\ Finish(o, "ok")
  <2>1. op'[o].kind = "sweep" /\ op'[o].res = "ok" /\ op'[o].old = op[o].old
    BY <1>2, <1>4, IdleFields DEF Finish, Ending, IInv, TypeOK, CallType
  <2>2. \A u \in op[o].old : um[u] = None
    BY <1>1, <1>2, <1>4 DEF Sweeping, At
  <2>3. EndedGone(o)'
    BY <1>1, <2>1, <2>2 DEF EndedGone, EndedBy, files
  <2> QED
    BY <1>1, <1>4, <2>3, FinishStep DEF Answers
<1>5. CASE \E u \in op[o].todo :
             /\ Lock!Join(o, u)
             /\ op' = [op EXCEPT ![o].up = u, ![o].todo = @ \ {u}, ![o].pc = "queued"]
  <2>1. PICK u \in op[o].todo :
             /\ Lock!Join(o, u)
             /\ op' = [op EXCEPT ![o].up = u, ![o].todo = @ \ {u}, ![o].pc = "queued"]
    BY <1>5
  <2> DEFINE todo == op[o].todo \ {u}
             c == [op[o] EXCEPT !.up = u, !.todo = todo, !.pc = "queued"]
  <2>2. op' = [op EXCEPT ![o] = c]
    BY <2>1
  <2>3. u \in Ops /\ todo \in SUBSET Ops /\ u \in op[o].old /\ todo \subseteq op[o].old
    BY <1>1, <1>2, <1>3 DEF Sweeping, CallType
  <2>4. op[o].old \subseteq todo \cup {u} \cup {w \in op[o].old : um[w] = None}
    BY <1>1, <1>2 DEF Sweeping, At
  <2>5. /\ c \in CallType /\ c.pc = "queued" /\ c.up = u /\ c.todo = todo /\ c.found = op[o].found
        /\ c.kind = op[o].kind /\ c.n = op[o].n /\ c.res = op[o].res /\ c.old = op[o].old
    <3>1. "queued" \in Pcs
      BY DEF Pcs
    <3>2. u \in Ops \cup {None} /\ todo \in SUBSET Ops
      BY <2>3
    <3>3. PICK r \in CallType : r = op[o]
      BY <1>3
    <3>4. c = [r EXCEPT !.up = u, !.todo = todo, !.pc = "queued"]
      BY <3>3
    <3> HIDE DEF c, todo
    <3> QED
      BY <3>1, <3>2, <3>3, <3>4 DEF CallType
  <2> HIDE DEF c, todo
  <2>6. /\ op' \in [Ops -> CallType] /\ op'[o] = c
        /\ \A p \in Ops \ {o} : op'[p] = op[p]
    BY <2>2, <2>5 DEF IInv, TypeOK
  <2>7. ~ Holding(o) /\ ~ Holding(o)'
    BY <1>1, <2>5, <2>6 DEF Holding
  <2>8. LockOK' /\ line' \in [Ops -> Seq(Ops)] /\ inside' \subseteq Ops
    BY <2>1, <2>3, <2>6, <2>7, LockKept, HoldersUp DEF IInv
  <2>9. Shape(o)' /\ Writing(o)' /\ Bytes(o)'
    BY <1>1, <1>2, <2>3, <2>5, <2>6, <2>7 DEF Shape, Writing, Bytes, At, Creating
  <2>10. Sweeping(o)'
    BY <1>1, <1>2, <2>3, <2>4, <2>5, <2>6 DEF Sweeping, At, files
  <2>11. EndedGone(o)'
    BY <1>2, <2>5, <2>6, NamesAssumption DEF EndedGone, EndedBy
  <2> QED
    BY <1>1, <1>2, <2>3, <2>5, <2>6, <2>8, <2>9, <2>10, <2>11, Quiet DEF files, env, IInv, TypeOK, At, Creating
<1>6. QED
  BY <1>4, <1>5 DEF SweepNext

LEMMA StreamFailStep ==
  ASSUME IInv, NEW o \in Ops, StreamFail(o)
  PROVE  IInv'
BY FailStep DEF StreamFail, At

\* With the lock held elsewhere, the file of a part is one that was acknowledged, or
\* that a crash has cut short.
LEMMA SettledPart ==
  ASSUME IInv, NEW o \in Ops, Holding(o), op[o].pc \notin {"wum", "commit"},
         NEW n \in Parts, part[<<op[o].up, n>>] # None
  PROVE  part[<<op[o].up, n>>] \in held[<<op[o].up, n>>]
<1> DEFINE f == <<op[o].up, n>>
<1>1. op[o].up \in Ops
  BY HoldersUp DEF IInv
<1>2. f \in Files
  BY <1>1 DEF Files
<1>3. SUFFICES ASSUME NEW p \in Ops, op[p].kind = "part", op[p].pc \in {"wum", "commit"}, File(p) = f
               PROVE  FALSE
  BY <1>2 DEF IInv, PartsOK
<1>4. Holding(p) /\ op[p].up = op[o].up
  BY <1>3 DEF Holding, File
<1>5. QED
  BY <1>3, <1>4, Exclusive DEF IInv

LEMMA AssembleStep ==
  ASSUME IInv, NEW o \in Ops, Assemble(o)
  PROVE  IInv'
<1> DEFINE list == op[o].list
           file(i) == part[<<op[o].up, list[i].n>>]
           b == [i \in DOMAIN list |-> file(i)]
           c == [op[o] EXCEPT !.body = b, !.pc = "publish"]
<1>1. op[o].kind = "complete" /\ op[o].pc = "held" /\ um[op[o].up] # None /\ UNCHANGED <<files, env>>
  BY DEF Assemble, There, At
<1>2. CASE ~ InOrder(list) /\ Finish(o, "InvalidPartOrder")
  BY <1>1, <1>2, FailStep
<1>3. CASE \E i \in DOMAIN list :
             \/ ~ Accepts(o, i) /\ Finish(o, "InvalidPart")
             \/ Accepts(o, i) /\ file(i) = None /\ Finish(o, "failed")
  BY <1>1, <1>3, FailStep
<1>4. CASE /\ \A i \in DOMAIN list : Accepts(o, i) /\ file(i) # None
           /\ op' = [op EXCEPT ![o].body = b, ![o].pc = "publish"]
           /\ UNCHANGED lock
  <2>1. op[o] \in CallType /\ Shape(o) /\ Sweeping(o) /\ Holding(o) /\ op[o].up \in Ops
    BY <1>1, OpType, HoldersUp DEF IInv, CallsOK, Holding
  <2>2. list \in Seq([n : Parts, tag : Ops \cup {None}])
    BY <2>1 DEF CallType
  <2> HIDE DEF list
  <2>3. Len(list) \in Nat /\ DOMAIN list = 1 .. Len(list) /\ \A i \in DOMAIN list : list[i].n \in Parts
    <3> DEFINE S == [n : Parts, tag : Ops \cup {None}]
    <3>1. list \in Seq(S)
      BY <2>2
    <3> HIDE DEF S
    <3>2. Len(list) \in Nat /\ DOMAIN list = 1 .. Len(list) /\ \A i \in DOMAIN list : list[i] \in S
      BY <3>1
    <3> QED
      BY <3>2 DEF S
  <2>4. ASSUME NEW i \in DOMAIN list
        PROVE  /\ file(i) \in held[<<op[o].up, list[i].n>>]
               /\ list[i].tag \in held[<<op[o].up, list[i].n>>] \cup {None}
    <3>1. list[i].n \in Parts /\ file(i) # None /\ Accepts(o, i)
      BY <1>4, <2>3
    <3>2. file(i) \in held[<<op[o].up, list[i].n>>]
      BY <1>1, <2>1, <3>1, SettledPart
    <3>3. <<op[o].up, list[i].n>> \in Files
      BY <2>1, <3>1 DEF Files
    <3>4. um[op[o].up][list[i].n] \in held[<<op[o].up, list[i].n>>] \cup {None}
      BY <1>1, <3>3 DEF IInv, FilesOK
    <3>5. list[i].tag \in {None, um[op[o].up][list[i].n]}
      BY <3>1 DEF Accepts, list
    <3> QED
      BY <3>2, <3>4, <3>5
  <2>5. b \in Seq(Ops) /\ DOMAIN b = DOMAIN list
    <3>1. \A i \in DOMAIN list : file(i) \in Ops
      <4> SUFFICES ASSUME NEW i \in DOMAIN list PROVE file(i) \in Ops
        OBVIOUS
      <4>1. <<op[o].up, list[i].n>> \in Files
        BY <2>1, <2>3 DEF Files
      <4> QED
        BY <2>4, <4>1 DEF IInv, TypeOK
    <3> HIDE DEF file
    <3>2. b \in [1 .. Len(list) -> Ops]
      BY <2>3, <3>1
    <3> HIDE DEF b
    <3> QED
      BY <2>3, <3>2, SeqDef
  <2>6. /\ c \in CallType /\ c.pc = "publish" /\ c.up = op[o].up /\ c.body = b /\ c.list = op[o].list
        /\ c.kind = op[o].kind /\ c.n = op[o].n /\ c.res = op[o].res /\ c.old = op[o].old
    <3>1. PICK r \in CallType, y \in Seq(Ops) : r = op[o] /\ y = b
      BY <2>1, <2>5
    <3>2. c = [r EXCEPT !.body = y, !.pc = "publish"]
      BY <3>1
    <3> HIDE DEF c, b
    <3> QED
      BY <3>1, <3>2 DEF CallType, Pcs
  <2>7. op' = [op EXCEPT ![o] = c]
    BY <1>4
  <2>8. \A i \in DOMAIN list : b[i] = file(i)
    OBVIOUS
  <2> HIDE DEF c, b, file
  <2>9. op'[o] = c
    BY <2>7 DEF IInv, TypeOK
  <2>10. UNCHANGED <<um, umTmp, part, partTmp, held, lock, env>>
    BY <1>1, <1>4 DEF files, env
  <2>11. Bytes(o)'
    BY <2>4, <2>6, <2>8, <2>9, <2>10 DEF Bytes, At, list
  <2>12. (Holding(o)' <=> Holding(o)) /\ Shape(o)' /\ Sweeping(o)'
    BY <1>1, <2>1, <2>5, <2>6, <2>9, <2>10 DEF Holding, Shape, Sweeping, At, list
  <2>13. Writing(o)'
    BY <1>1, <2>6, <2>9, <2>10 DEF Writing, At, Creating
  <2> QED
    BY <1>1, <2>1, <2>6, <2>7, <2>10, <2>11, <2>12, <2>13, LocalStep DEF IInv, TypeOK
<1>5. QED
  BY <1>2, <1>3, <1>4 DEF Assemble

-----------------------------------------------------------------------------
(* Steps that change files: of a call with the lock, or of one that creates *)
(* its upload.                                                             *)

Working(o) == Holding(o) \/ Creating(o)

\* Such a step of o touches no upload but its own.
Frame(o) ==
  /\ \A p \in Ops \ {o} : op'[p] = op[p]
  /\ op'[o].up \in {op[o].up, None} /\ op'[o].kind = op[o].kind /\ op'[o].old = op[o].old
  /\ \A w \in Ops \ {op[o].up} : um'[w] = um[w] /\ umTmp'[w] = umTmp[w]
  /\ \A f \in Files : f[1] # op[o].up => part'[f] = part[f] /\ partTmp'[f] = partTmp[f] /\ held'[f] = held[f]
  /\ aged' = aged

LEMMA Apart ==
  ASSUME IInv, NEW o \in Ops, NEW p \in Ops \ {o}, Working(o), Working(p)
  PROVE  op[p].up # op[o].up
<1>1. Shape(o) /\ Shape(p) /\ Unborn(o) /\ Unborn(p)
  BY DEF IInv, CallsOK
<1>2. CASE Creating(o)
  BY <1>1, <1>2 DEF Unborn, Shape, Creating
<1>3. CASE Creating(p)
  BY <1>1, <1>3 DEF Unborn, Shape, Creating
<1>4. CASE Holding(o) /\ Holding(p)
  BY <1>4, Exclusive DEF IInv
<1>5. QED
  BY <1>2, <1>3, <1>4 DEF Working

LEMMA WorkersUp ==
  ASSUME IInv, NEW o \in Ops, Working(o)
  PROVE  op[o].up \in Ops /\ ~ Ended(o) /\ ~ At(o, "idle")
<1>1. Shape(o)
  BY DEF IInv, CallsOK
<1>2. op[o].up \in Ops
  BY <1>1, HoldersUp DEF IInv, Working, Creating, Shape
<1>3. QED
  BY <1>2 DEF Working, Holding, Creating, Ended, At

LEMMA OthersKept ==
  ASSUME IInv, NEW o \in Ops, Working(o), Frame(o),
         um'[op[o].up] = None \/ um[op[o].up] # None \/ Creating(o),
         Shape(o)', Writing(o)', Unborn(o)', Sweeping(o)', EndedGone(o)', Bytes(o)'
  PROVE  CallsOK'
<1>1. op[o].up \in Ops
  BY WorkersUp
<1>2. \A p \in Ops \ {o} : Shape(p)' /\ Writing(p)' /\ Sweeping(p)' /\ EndedGone(p)' /\ Bytes(p)'
  <2> SUFFICES ASSUME NEW p \in Ops \ {o}
               PROVE  Shape(p)' /\ Writing(p)' /\ Sweeping(p)' /\ EndedGone(p)' /\ Bytes(p)'
    OBVIOUS
  <2>1. /\ op'[p] = op[p]
        /\ Shape(p) /\ Writing(p) /\ Sweeping(p) /\ EndedGone(p) /\ Bytes(p)
    BY DEF Frame, IInv, CallsOK
  <2>2. Shape(p)'
    BY <2>1 DEF Shape, At, Holding
  <2>3. Working(p) => op[p].up \in Ops /\ op[p].up # op[o].up
    BY Apart, WorkersUp
  <2>4. Working(p) => um'[op[p].up] = um[op[p].up] /\ umTmp'[op[p].up] = umTmp[op[p].up]
    BY <2>3 DEF Frame
  <2>5. Working(p) => \A n \in Parts : LET f == <<op[p].up, n>>
                                       IN  part'[f] = part[f] /\ partTmp'[f] = partTmp[f] /\ held'[f] = held[f]
    BY <2>3 DEF Frame, Files
  <2>6. Writing(p)'
    <3>1. op[p].kind = "part" => op[p].n \in Parts
      BY <2>1 DEF Shape
    <3>2. op[p].pc \in {"stream", "rename", "publish", "rmparts", "wum", "commit"} => Working(p)
      BY <2>1 DEF Working, Holding, Creating, Shape
    <3>3. op[p].pc \in {"stream", "rename"} => op[p].kind = "part"
      BY <2>1 DEF Shape
    <3> QED
      BY <2>1, <2>4, <2>5, <3>1, <3>2, <3>3 DEF Writing, At, File, Creating
  <2>7. Bytes(p)'
    <3> SUFFICES ASSUME At(p, "publish") PROVE Bytes(p)'
      BY <2>1 DEF Bytes, At
    <3>1. Working(p)
      BY DEF At, Working, Holding
    <3>2. \A i \in DOMAIN op[p].list : op[p].list[i].n \in Parts
      <4> DEFINE S == [n : Parts, tag : Ops \cup {None}]
      <4>1. op[p].list \in Seq(S)
        BY OpType DEF CallType
      <4> HIDE DEF S
      <4>2. \A i \in DOMAIN op[p].list : op[p].list[i] \in S
        BY <4>1
      <4> QED
        BY <4>2 DEF S
    <3> QED
      BY <2>1, <2>5, <3>1, <3>2 DEF Bytes, At
  <2>8. \A u \in Ops : um[u] = None /\ um'[u] # None => Creating(o) /\ u = op[o].up
    BY DEF Frame
  <2>9. Creating(o) => op[p].up # op[o].up /\ op[o].up \notin op[p].old
    BY DEF IInv, CallsOK, Unborn, Shape, Creating
  <2>10. op[p].old \subseteq Ops
    BY OpType DEF CallType
  <2>11. Sweeping(p)'
    BY <2>1, <2>8, <2>9, <2>10 DEF Sweeping, At, Holding
  <2>12. EndedGone(p)'
    BY <2>1, <2>8, <2>9 DEF EndedGone, EndedBy
  <2> QED
    BY <2>2, <2>6, <2>7, <2>11, <2>12
<1>3. \A u \in Ops \ {o} : Unborn(u)'
  <2> SUFFICES ASSUME NEW u \in Ops \ {o}, (At(u, "idle") \/ Creating(u))' PROVE Unborn(u)'
    BY DEF Unborn
  <2>1. At(u, "idle") \/ Creating(u)
    BY DEF Frame, At, Creating
  <2>2. /\ um[u] = None /\ u \notin aged
        /\ \A n \in Parts : held[<<u, n>>] = {}
        /\ \A p \in Ops \ {u} : op[p].up # u /\ u \notin op[p].old
    BY <2>1 DEF IInv, CallsOK, Unborn
  <2>3. None \notin Ops
    BY NamesAssumption
  <2>4. op'[o].up # u /\ u \notin op'[o].old /\ u # op[o].up
    BY <2>2, <2>3 DEF Frame
  <2>5. \A n \in Parts : held'[<<u, n>>] = {}
    BY <2>2, <2>4 DEF Frame, Files
  <2> QED
    BY <2>2, <2>4, <2>5 DEF Unborn, Frame
<1>4. QED
  BY <1>2, <1>3 DEF CallsOK

LEMMA FilesKept ==
  ASSUME IInv, NEW o \in Ops, Working(o), Frame(o), held' \in [Files -> SUBSET Ops],
         \A n \in Parts :
           LET f == <<op[o].up, n>>
           IN  /\ um'[op[o].up] = None => part'[f] = None /\ partTmp'[f] = None
               /\ um'[op[o].up] # None => um'[op[o].up][n] \in held'[f] \cup {None}
               /\ part'[f] # None =>
                    \/ part'[f] \in held'[f]
                    \/ part'[f] = o /\ op'[o].kind = "part" /\ op'[o].pc \in {"wum", "commit"} /\ File(o)' = f
               /\ held'[f] \subseteq held[f] \cup {o}
               /\ o \in held'[f] => Ended(o)'
  PROVE  FilesOK' /\ PartsOK'
<1>1. op[o].up \in Ops /\ ~ Ended(o)
  BY WorkersUp
<1>2. \A f \in Files : f[1] \in Ops /\ f[2] \in Parts /\ f = <<f[1], f[2]>>
  BY DEF Files
<1>3. \A f \in Files : f[1] = op[o].up => f = <<op[o].up, f[2]>>
  BY <1>2
<1>4. FilesOK'
  <2>1. ASSUME NEW f \in Files
        PROVE  /\ um'[f[1]] = None => part'[f] = None /\ partTmp'[f] = None
               /\ um'[f[1]] # None => um'[f[1]][f[2]] \in held'[f] \cup {None}
    <3>1. CASE f[1] = op[o].up
      BY <1>2, <1>3, <3>1
    <3>2. CASE f[1] # op[o].up
      BY <1>2, <3>2 DEF Frame, IInv, FilesOK
    <3> QED
      BY <3>1, <3>2
  <2>2. ASSUME NEW f \in Files, NEW p \in held'[f]
        PROVE  Ended(p)'
    <3>1. CASE p \in held[f]
      <4>1. Ended(p) /\ p \in Ops
        BY <3>1 DEF IInv, FilesOK, TypeOK
      <4> QED
        BY <1>1, <4>1 DEF Frame, Ended
    <3>2. CASE p \notin held[f]
      <4>1. f[1] = op[o].up
        BY <3>2 DEF Frame
      <4>2. PICK n \in Parts : f = <<op[o].up, n>>
        BY <1>2, <1>3, <4>1
      <4>3. held'[f] \subseteq held[f] \cup {o} /\ (o \in held'[f] => Ended(o)')
        BY <4>2
      <4> QED
        BY <3>2, <4>3
    <3> QED
      BY <3>1, <3>2
  <2> QED
    BY <2>1, <2>2 DEF FilesOK
<1>5. PartsOK'
  <2> SUFFICES ASSUME NEW f \in Files, part'[f] # None
               PROVE  \/ part'[f] \in held'[f]
                      \/ \E p \in Ops : /\ p = part'[f] /\ op'[p].kind = "part"
                                        /\ op'[p].pc \in {"wum", "commit"} /\ File(p)' = f
    BY DEF PartsOK
  <2>1. CASE f[1] = op[o].up
    BY <1>2, <1>3, <2>1
  <2>2. CASE f[1] # op[o].up
    <3>1. part'[f] = part[f] /\ held'[f] = held[f]
      BY <2>2 DEF Frame
    <3>2. \/ part[f] \in held[f]
          \/ \E p \in Ops : /\ p = part[f] /\ op[p].kind = "part"
                            /\ op[p].pc \in {"wum", "commit"} /\ File(p) = f
      BY <3>1 DEF IInv, PartsOK
    <3>3. \A p \in Ops : File(p) = f => p # o
      BY <2>2 DEF File
    <3> QED
      BY <3>1, <3>2, <3>3 DEF Frame, File
  <2> QED
    BY <2>1, <2>2
<1>6. QED
  BY <1>4, <1>5

LEMMA KeptKept ==
  ASSUME IInv, NEW o \in Ops, Working(o), Frame(o), NEW u \in Ops, u = op[o].up,
         \A n \in Parts :
           LET f == <<u, n>>
           IN  (\E p \in held'[f] : op'[p].res = "ok") /\ ~ UploadEnding(u)'
                 => um'[u] # None /\ um'[u][n] # None /\ part'[f] # None
  PROVE  Kept'
<1>1. ~ Ended(o)
  BY WorkersUp
<1>2. \A f \in Files : f[1] \in Ops /\ f[2] \in Parts /\ f = <<f[1], f[2]>>
  BY DEF Files
<1>3. SUFFICES ASSUME NEW f \in Files, (\E p \in held'[f] : op'[p].res = "ok"), ~ UploadEnding(f[1])'
               PROVE  um'[f[1]] # None /\ um'[f[1]][f[2]] # None /\ part'[f] # None
  BY DEF Kept
<1>4. CASE f[1] = u
  <2>1. PICK n \in Parts : f = <<u, n>> /\ f[2] = n
    BY <1>2, <1>4
  <2>2. (\E p \in held'[f] : op'[p].res = "ok") /\ ~ UploadEnding(u)'
           => um'[u] # None /\ um'[u][n] # None /\ part'[f] # None
    BY <2>1
  <2> QED
    BY <1>3, <1>4, <2>1, <2>2
<1>5. CASE f[1] # u
  <2>1. \A p \in held[f] : op'[p] = op[p]
    BY <1>1 DEF IInv, FilesOK, TypeOK, Frame
  <2>2. UploadEnding(f[1]) => UploadEnding(f[1])'
    <3> SUFFICES ASSUME NEW p \in Ops,
                        op[p].kind \in {"complete", "abort", "sweep"},
                        \/ op[p].up = f[1] /\ (At(p, "rmparts") \/ At(p, "lost") \/ op[p].res = "ok")
                        \/ f[1] \in op[p].old
                 PROVE  UploadEnding(f[1])'
      BY DEF UploadEnding
    <3>1. CASE p # o
      BY <3>1 DEF UploadEnding, At, Frame
    <3>2. CASE p = o
      BY <1>5, <3>2 DEF UploadEnding, At, Frame
    <3> QED
      BY <3>1, <3>2
  <2>3. held'[f] = held[f] /\ part'[f] = part[f] /\ um'[f[1]] = um[f[1]]
    BY <1>2, <1>5 DEF Frame
  <2>4. ~ UploadEnding(f[1]) /\ \E p \in held[f] : op[p].res = "ok"
    BY <1>3, <2>1, <2>2, <2>3
  <2> QED
    BY <2>3, <2>4 DEF IInv, Kept
<1>6. QED
  BY <1>4, <1>5

LEMMA PublishedKept ==
  ASSUME IInv, NEW o \in Ops, Working(o), Frame(o), published' = published,
         At(o, "rmparts") /\ op[o].kind = "complete" =>
           /\ op'[o].up = op[o].up
           /\ At(o, "rmparts")' \/ (At(o, "done")' /\ op'[o].res = "ok")
  PROVE  PublishedOK'
<1>1. ~ Ended(o)
  BY WorkersUp
<1>2. SUFFICES ASSUME NEW u \in Ops, NEW p \in published[u]
               PROVE  /\ op'[p].kind = "complete" /\ op'[p].up = u
                      /\ At(p, "rmparts")' \/ At(p, "lost")' \/ (At(p, "done")' /\ op'[p].res \in {"ok", "failed"})
                      /\ \A q \in published[u] : Uncertain(p)' \/ Uncertain(q)' \/ p = q
  BY DEF PublishedOK
<1>3. /\ p \in Ops /\ op[p].kind = "complete" /\ op[p].up = u
      /\ At(p, "rmparts") \/ At(p, "lost") \/ (At(p, "done") /\ op[p].res \in {"ok", "failed"})
      /\ \A q \in published[u] : Uncertain(p) \/ Uncertain(q) \/ p = q
  BY DEF IInv, PublishedOK, TypeOK
<1>4. \A q \in Ops : Uncertain(q) => Uncertain(q)'
  <2>1. op[o].res = None
    BY <1>1 DEF IInv, CallsOK, Shape, Ended, At
  <2> QED
    BY <1>1, <2>1, NamesAssumption DEF Frame, Uncertain, At, Ended
<1>5. \A q \in published[u] : q \in Ops
  BY DEF IInv, TypeOK
<1>6. \A q \in published[u] : Uncertain(p)' \/ Uncertain(q)' \/ p = q
  BY <1>3, <1>4, <1>5
<1>7. CASE p = o
  BY <1>1, <1>3, <1>6, <1>7 DEF Frame, At, Ended
<1>8. CASE p # o
  BY <1>3, <1>6, <1>8 DEF Frame, At
<1>9. QED
  BY <1>7, <1>8

\* Whoever is at work on an upload knows the file of each part: it was acknowledged or
\* cut short, or the call itself has just put it there.
LEMMA PartOfWorker ==
  ASSUME IInv, NEW o \in Ops, Working(o), NEW n \in Parts, part[<<op[o].up, n>>] # None
  PROVE  \/ part[<<op[o].up, n>>] \in held[<<op[o].up, n>>]
         \/ /\ part[<<op[o].up, n>>] = o /\ op[o].kind = "part" /\ op[o].pc \in {"wum", "commit"}
            /\ File(o) = <<op[o].up, n>>
<1> DEFINE f == <<op[o].up, n>>
<1>1. f \in Files
  BY WorkersUp DEF Files
<1>2. SUFFICES ASSUME NEW p \in Ops, p = part[f], op[p].kind = "part", op[p].pc \in {"wum", "commit"}, File(p) = f
               PROVE  p = o
  BY <1>1 DEF IInv, PartsOK
<1>3. Working(p) /\ op[p].up = op[o].up
  BY <1>2 DEF Working, Holding, File
<1>4. QED
  BY <1>3, Apart

\* Parts that were acknowledged stay, if the step of o ends no upload.
LEMMA KeptMore ==
  ASSUME IInv, NEW o \in Ops, Working(o), Frame(o), ~ At(o, "rmparts"), op'[o].up = op[o].up,
         \A n \in Parts :
           LET f == <<op[o].up, n>>
           IN  \/ /\ held'[f] = held[f]
                  /\ um[op[o].up] # None =>
                       um'[op[o].up] # None /\ (um[op[o].up][n] # None => um'[op[o].up][n] # None)
                  /\ part[f] # None => part'[f] # None
               \/ um'[op[o].up] # None /\ um'[op[o].up][n] # None /\ part'[f] # None
  PROVE  Kept'
<1>1. PICK u \in Ops : u = op[o].up
  BY WorkersUp
<1>2. ~ Ended(o) /\ Shape(o)
  BY WorkersUp DEF IInv, CallsOK
<1>3. op[o].res = None
  BY <1>2 DEF Shape, Ended, At
<1>4. UploadEnding(u) => UploadEnding(u)'
  <2> SUFFICES ASSUME NEW p \in Ops,
                      op[p].kind \in {"complete", "abort", "sweep"},
                      \/ op[p].up = u /\ (At(p, "rmparts") \/ At(p, "lost") \/ op[p].res = "ok")
                      \/ u \in op[p].old
               PROVE  UploadEnding(u)'
    BY DEF UploadEnding
  <2>1. CASE p # o
    BY <2>1 DEF UploadEnding, At, Frame
  <2>2. CASE p = o
    <3>1. u \in op[o].old
      BY <1>2, <1>3, <2>2, NamesAssumption DEF At, Ended
    <3> QED
      BY <2>2, <3>1 DEF UploadEnding, Frame
  <2> QED
    BY <2>1, <2>2
<1>5. ASSUME NEW n \in Parts, (\E p \in held'[<<u, n>>] : op'[p].res = "ok"), ~ UploadEnding(u)'
      PROVE  um'[u] # None /\ um'[u][n] # None /\ part'[<<u, n>>] # None
  <2> DEFINE f == <<u, n>>
  <2>1. f \in Files /\ f[1] = u /\ f[2] = n
    BY DEF Files
  <2>2. CASE /\ held'[f] = held[f]
             /\ um[u] # None => um'[u] # None /\ (um[u][n] # None => um'[u][n] # None)
             /\ part[f] # None => part'[f] # None
    <3>1. \A p \in held[f] : op'[p] = op[p]
      BY <1>2, <2>1 DEF IInv, FilesOK, TypeOK, Frame
    <3>2. ~ UploadEnding(u) /\ \E p \in held[f] : op[p].res = "ok"
      BY <1>4, <1>5, <2>2, <3>1
    <3>3. um[u] # None /\ um[u][n] # None /\ part[f] # None
      BY <2>1, <3>2 DEF IInv, Kept
    <3> QED
      BY <2>2, <3>3
  <2> HIDE DEF f
  <2>3. CASE um'[u] # None /\ um'[u][n] # None /\ part'[f] # None
    BY <2>3 DEF f
  <2> QED
    BY <1>1, <2>2, <2>3 DEF f
<1>6. QED
  BY <1>1, <1>5, KeptKept

LEMMA EndingFields ==
  ASSUME IInv, NEW o \in Ops, NEW res \in Answers
  PROVE  LET c == Ending(o, res)
         IN  /\ c \in CallType
             /\ c.kind = op[o].kind /\ c.up = op[o].up /\ c.n = op[o].n /\ c.old = op[o].old
             /\ c.pc = "done" /\ c.res = res /\ c.todo = {} /\ c.found = {}
BY IdleFields DEF Ending, CallType, Pcs, IInv, TypeOK

LEMMA RenamePartStep ==
  ASSUME IInv, NEW o \in Ops, RenamePart(o)
  PROVE  IInv'
<1> DEFINE md == [op[o].om EXCEPT ![op[o].n] = o]
           c == [op[o] EXCEPT !.om = md, !.pc = "wum"]
<1>1. /\ op[o].kind = "part" /\ op[o].pc = "rename"
      /\ part' = [part EXCEPT ![File(o)] = partTmp[File(o)]]
      /\ partTmp' = [partTmp EXCEPT ![File(o)] = None]
      /\ op' = [op EXCEPT ![o] = c]
      /\ UNCHANGED <<um, umTmp, lock, env>>
  BY DEF RenamePart, At
<1>2. /\ op[o] \in CallType /\ Shape(o) /\ Sweeping(o) /\ Writing(o) /\ Holding(o) /\ Working(o)
      /\ op[o].up \in Ops /\ op[o].n \in Parts /\ File(o) \in Files
  BY <1>1, OpType, HoldersUp DEF IInv, CallsOK, Holding, Working, Shape, File, Files
<1>3. op[o].om = um[op[o].up] /\ um[op[o].up] # None /\ partTmp[File(o)] = o /\ op[o].res = None
  BY <1>1, <1>2 DEF Writing, Shape, At
<1>4. md \in Metadata
  BY <1>2, <1>3 DEF IInv, TypeOK, Metadata
<1>5. /\ c \in CallType /\ c.pc = "wum" /\ c.up = op[o].up /\ c.om = md
      /\ c.kind = op[o].kind /\ c.n = op[o].n /\ c.res = op[o].res /\ c.old = op[o].old
  <2>1. PICK r \in CallType, y \in Metadata : r = op[o] /\ y = md
    BY <1>2, <1>4
  <2>2. c = [r EXCEPT !.om = y, !.pc = "wum"]
    BY <2>1
  <2> HIDE DEF c, md
  <2> QED
    BY <2>1, <2>2 DEF CallType, Pcs
<1> HIDE DEF c
<1>6. /\ op' \in [Ops -> CallType] /\ op'[o] = c
      /\ \A p \in Ops \ {o} : op'[p] = op[p]
  BY <1>1, <1>5 DEF IInv, TypeOK
<1>7. File(o)' = File(o)
  BY <1>5, <1>6 DEF File
<1>8. /\ part'[File(o)] = o /\ part' \in [Files -> Ops \cup {None}]
      /\ partTmp' \in [Files -> Ops \cup {None, Torn}]
      /\ \A f \in Files : f # File(o) => part'[f] = part[f] /\ partTmp'[f] = partTmp[f]
  BY <1>1, <1>2, <1>3 DEF IInv, TypeOK
<1>9. /\ TypeOK' /\ um' = um /\ umTmp' = umTmp /\ held' = held /\ published' = published /\ aged' = aged
  BY <1>1, <1>6, <1>8 DEF IInv, TypeOK, env, lock
<1>10. Frame(o)
  BY <1>5, <1>6, <1>8, <1>9 DEF Frame, File
<1>11. LockOK'
  <2>1. Holding(o)'
    BY <1>1, <1>5, <1>6 DEF Holding
  <2> QED
    BY <1>1, <1>2, <1>5, <1>6, <2>1, LockKept, HoldersUp DEF IInv
<1>12. CallsOK'
  <2>1. Shape(o)' /\ Sweeping(o)' /\ EndedGone(o)' /\ Bytes(o)' /\ Unborn(o)'
    BY <1>1, <1>2, <1>3, <1>5, <1>6, NamesAssumption
       DEF Shape, Sweeping, EndedGone, EndedBy, Bytes, Unborn, At, Holding, Creating
  <2>2. Writing(o)'
    BY <1>1, <1>3, <1>5, <1>6, <1>7, <1>8, <1>9 DEF Writing, At, Creating
  <2> QED
    BY <1>2, <1>3, <1>10, <2>1, <2>2, OthersKept
<1>13. FilesOK' /\ PartsOK'
  <2> SUFFICES ASSUME NEW n \in Parts
               PROVE  LET f == <<op[o].up, n>>
                      IN  /\ um'[op[o].up] # None
                          /\ um'[op[o].up][n] \in held'[f] \cup {None}
                          /\ part'[f] # None =>
                               \/ part'[f] \in held'[f]
                               \/ part'[f] = o /\ op'[o].kind = "part" /\ op'[o].pc \in {"wum", "commit"} /\ File(o)' = f
                          /\ held'[f] = held[f] /\ o \notin held'[f]
    BY <1>2, <1>9, <1>10, FilesKept DEF IInv, TypeOK
  <2> DEFINE f == <<op[o].up, n>>
  <2>1. f \in Files
    BY <1>2 DEF Files
  <2>2. um[op[o].up][n] \in held[f] \cup {None} /\ o \notin held[f]
    BY <1>1, <1>3, <2>1 DEF IInv, FilesOK, Ended
  <2>3. f # File(o) /\ part[f] # None => part[f] \in held[f]
    BY <1>1, <1>2, PartOfWorker
  <2> QED
    BY <1>1, <1>3, <1>5, <1>6, <1>7, <1>8, <1>9, <2>1, <2>2, <2>3
<1>14. Kept'
  <2>1. \A n \in Parts : <<op[o].up, n>> \in Files
    BY <1>2 DEF Files
  <2>2. o # None
    BY NamesAssumption
  <2>3. \A f \in Files : part[f] # None => part'[f] # None
    BY <1>8, <2>2
  <2> QED
    BY <1>1, <1>2, <1>5, <1>6, <1>9, <1>10, <2>1, <2>3, KeptMore DEF At
<1>15. PublishedOK'
  BY <1>1, <1>2, <1>9, <1>10, PublishedKept DEF At
<1>16. QED
  BY <1>9, <1>11, <1>12, <1>13, <1>14, <1>15 DEF IInv

LEMMA WriteUmStep ==
  ASSUME IInv, NEW o \in Ops, WriteUm(o)
  PROVE  IInv'
<1> DEFINE c == [op[o] EXCEPT !.pc = "commit"]
<1>1. /\ op[o].pc = "wum"
      /\ umTmp' = [umTmp EXCEPT ![op[o].up] = op[o].om]
      /\ op' = [op EXCEPT ![o] = c]
      /\ UNCHANGED <<um, part, partTmp, lock, env>>
  BY DEF WriteUm, Goes, At
<1>2. op[o] \in CallType /\ Shape(o) /\ Sweeping(o) /\ Writing(o) /\ Unborn(o) /\ op[o].kind \in {"create", "part"}
  BY <1>1, OpType DEF IInv, CallsOK, Shape
<1>3. Working(o) /\ op[o].up \in Ops /\ op[o].res = None
  BY <1>1, <1>2, WorkersUp DEF Working, Holding, Creating, Shape, At
<1>4. /\ c \in CallType /\ c.pc = "commit" /\ c.up = op[o].up /\ c.om = op[o].om
      /\ c.kind = op[o].kind /\ c.n = op[o].n /\ c.res = op[o].res /\ c.old = op[o].old
  <2>1. "commit" \in Pcs
    BY DEF Pcs
  <2> QED
    BY <1>2, <2>1, SetPc
<1> HIDE DEF c
<1>5. /\ op' \in [Ops -> CallType] /\ op'[o] = c
      /\ \A p \in Ops \ {o} : op'[p] = op[p]
  BY <1>1, <1>4 DEF IInv, TypeOK
<1>6. op[o].om \in Metadata \cup {None}
  BY <1>2 DEF CallType
<1>7. /\ umTmp' \in [Ops -> Metadata \cup {None}] /\ umTmp'[op[o].up] = op[o].om
      /\ \A w \in Ops \ {op[o].up} : umTmp'[w] = umTmp[w]
  BY <1>1, <1>3, <1>6 DEF IInv, TypeOK
<1>8. /\ TypeOK' /\ um' = um /\ part' = part /\ partTmp' = partTmp
      /\ held' = held /\ published' = published /\ aged' = aged
  BY <1>1, <1>5, <1>7 DEF IInv, TypeOK, env, lock
<1>9. Frame(o)
  BY <1>4, <1>5, <1>7, <1>8 DEF Frame
<1>10. LockOK'
  <2>1. Holding(o)' <=> Holding(o)
    BY <1>1, <1>4, <1>5 DEF Holding
  <2> QED
    BY <1>1, <1>4, <1>5, <2>1, LockKept, HoldersUp DEF IInv
<1>11. CallsOK'
  <2>1. Shape(o)' /\ Sweeping(o)' /\ EndedGone(o)' /\ Bytes(o)'
    BY <1>1, <1>2, <1>3, <1>4, <1>5, NamesAssumption
       DEF Shape, Sweeping, EndedGone, EndedBy, Bytes, At, Holding, Creating
  <2>2. Writing(o)'
    BY <1>1, <1>2, <1>4, <1>5, <1>7, <1>8 DEF Writing, At, File, Creating
  <2>3. Unborn(o)'
    BY <1>1, <1>2, <1>4, <1>5, <1>8 DEF Unborn, At, Creating
  <2>4. um'[op[o].up] = None \/ um[op[o].up] # None
    BY <1>8
  <2> QED
    BY <1>3, <1>9, <2>1, <2>2, <2>3, <2>4, OthersKept
<1>12. FilesOK' /\ PartsOK'
  <2> SUFFICES ASSUME NEW n \in Parts
               PROVE  LET f == <<op[o].up, n>>
                      IN  /\ um'[op[o].up] = None => part'[f] = None /\ partTmp'[f] = None
                          /\ um'[op[o].up] # None => um'[op[o].up][n] \in held'[f] \cup {None}
                          /\ part'[f] # None =>
                               \/ part'[f] \in held'[f]
                               \/ part'[f] = o /\ op'[o].kind = "part" /\ op'[o].pc \in {"wum", "commit"} /\ File(o)' = f
                          /\ held'[f] = held[f] /\ o \notin held'[f]
    BY <1>3, <1>8, <1>9, FilesKept DEF IInv, TypeOK
  <2> DEFINE f == <<op[o].up, n>>
  <2>1. f \in Files
    BY <1>3 DEF Files
  <2>2. /\ um[op[o].up] = None => part[f] = None /\ partTmp[f] = None
        /\ um[op[o].up] # None => um[op[o].up][n] \in held[f] \cup {None}
        /\ o \notin held[f]
    BY <1>1, <2>1 DEF IInv, FilesOK, Ended
  <2>3. part[f] # None => \/ part[f] \in held[f]
                          \/ part[f] = o /\ op[o].kind = "part" /\ File(o) = f
    BY <1>3, PartOfWorker
  <2>4. File(o)' = File(o)
    BY <1>4, <1>5 DEF File
  <2> QED
    BY <1>4, <1>5, <1>8, <2>2, <2>3, <2>4
<1>13. Kept'
  BY <1>1, <1>3, <1>4, <1>5, <1>8, <1>9, KeptMore DEF At
<1>14. PublishedOK'
  BY <1>1, <1>3, <1>8, <1>9, PublishedKept DEF At
<1>15. QED
  BY <1>8, <1>10, <1>11, <1>12, <1>13, <1>14 DEF IInv

\* What createMultipartUpload and uploadPart have in common when they answer.
LEMMA CommitUmFacts ==
  ASSUME IInv, NEW o \in Ops, CommitUm(o)
  PROVE  /\ op[o].pc = "commit" /\ op[o].kind \in {"create", "part"} /\ op[o].up \in Ops
         /\ Working(o) /\ Shape(o) /\ Writing(o) /\ Sweeping(o)
         /\ op' \in [Ops -> CallType] /\ \A p \in Ops \ {o} : op'[p] = op[p]
         /\ op'[o].pc = "done" /\ op'[o].kind = op[o].kind /\ op'[o].up = op[o].up /\ op'[o].n = op[o].n
         /\ op'[o].old = op[o].old /\ op'[o].res = "ok"
         /\ um' \in [Ops -> Metadata \cup {None}] /\ um'[op[o].up] = op[o].om
         /\ umTmp' \in [Ops -> Metadata \cup {None}]
         /\ \A w \in Ops \ {op[o].up} : um'[w] = um[w] /\ umTmp'[w] = umTmp[w]
         /\ UNCHANGED <<part, partTmp, published, aged, crashes>>
         /\ LockOK' /\ line' \in [Ops -> Seq(Ops)] /\ inside' \subseteq Ops
         /\ Shape(o)' /\ Writing(o)' /\ Unborn(o)' /\ Sweeping(o)' /\ EndedGone(o)' /\ Bytes(o)'
<1> DEFINE c == Ending(o, "ok")
<1>1. /\ op[o].pc = "commit"
      /\ um' = [um EXCEPT ![op[o].up] = umTmp[op[o].up]]
      /\ umTmp' = [umTmp EXCEPT ![op[o].up] = None]
      /\ op' = [op EXCEPT ![o] = c]
      /\ IF o \in inside THEN Lock!Leave(o, op[o].up) ELSE UNCHANGED lock
      /\ UNCHANGED <<part, partTmp, published, aged, crashes>>
  BY DEF CommitUm, Finish, At
<1>2. Shape(o) /\ Sweeping(o) /\ Writing(o) /\ op[o].kind \in {"create", "part"}
  BY <1>1 DEF IInv, CallsOK, Shape
<1>3. Working(o) /\ op[o].up \in Ops
  BY <1>1, <1>2, WorkersUp DEF Working, Holding, Creating
<1>4. /\ c \in CallType
      /\ c.kind = op[o].kind /\ c.up = op[o].up /\ c.n = op[o].n /\ c.old = op[o].old
      /\ c.pc = "done" /\ c.res = "ok"
  <2>1. "ok" \in Answers
    BY DEF Answers
  <2> QED
    BY <2>1, EndingFields
<1> HIDE DEF c
<1>5. /\ op' \in [Ops -> CallType] /\ op'[o] = c
      /\ \A p \in Ops \ {o} : op'[p] = op[p]
  BY <1>1, <1>4 DEF IInv, TypeOK
<1>6. umTmp[op[o].up] = op[o].om
  BY <1>1, <1>2 DEF Writing, At
<1>7. /\ um' \in [Ops -> Metadata \cup {None}] /\ um'[op[o].up] = op[o].om
      /\ umTmp' \in [Ops -> Metadata \cup {None}]
      /\ \A w \in Ops \ {op[o].up} : um'[w] = um[w] /\ umTmp'[w] = umTmp[w]
  BY <1>1, <1>3, <1>6 DEF IInv, TypeOK
<1>8. ~ Holding(o)' /\ (o \in inside <=> Holding(o))
  BY <1>4, <1>5 DEF Holding, IInv, LockOK
<1>9. LockOK' /\ line' \in [Ops -> Seq(Ops)] /\ inside' \subseteq Ops
  BY <1>1, <1>3, <1>4, <1>5, <1>8, LockKept, HoldersUp DEF IInv
<1>10. Shape(o)' /\ Writing(o)' /\ Unborn(o)' /\ Sweeping(o)' /\ EndedGone(o)' /\ Bytes(o)'
  BY <1>1, <1>2, <1>4, <1>5, <1>8
     DEF Shape, Writing, Unborn, Sweeping, EndedGone, EndedBy, Bytes, At, Creating
<1>11. QED
  BY <1>1, <1>2, <1>3, <1>4, <1>5, <1>7, <1>9, <1>10

LEMMA CommitUmStep ==
  ASSUME IInv, NEW o \in Ops, CommitUm(o)
  PROVE  IInv'
<1>1. /\ op[o].pc = "commit" /\ op[o].kind \in {"create", "part"} /\ op[o].up \in Ops
      /\ Working(o) /\ Shape(o) /\ Writing(o) /\ Unborn(o)
  BY CommitUmFacts DEF IInv, CallsOK
<1>2. /\ op' \in [Ops -> CallType] /\ \A p \in Ops \ {o} : op'[p] = op[p]
      /\ op'[o].pc = "done" /\ op'[o].kind = op[o].kind /\ op'[o].up = op[o].up /\ op'[o].n = op[o].n
      /\ op'[o].old = op[o].old
      /\ um' \in [Ops -> Metadata \cup {None}] /\ um'[op[o].up] = op[o].om
      /\ umTmp' \in [Ops -> Metadata \cup {None}]
      /\ \A w \in Ops \ {op[o].up} : um'[w] = um[w] /\ umTmp'[w] = umTmp[w]
      /\ part' = part /\ partTmp' = partTmp /\ published' = published /\ aged' = aged /\ crashes' = crashes
  BY CommitUmFacts
<1>3. LockOK' /\ line' \in [Ops -> Seq(Ops)] /\ inside' \subseteq Ops
  BY CommitUmFacts
<1>4. Shape(o)' /\ Writing(o)' /\ Unborn(o)' /\ Sweeping(o)' /\ EndedGone(o)' /\ Bytes(o)'
  BY CommitUmFacts
<1>5. \A n \in Parts : <<op[o].up, n>> \in Files /\ o \notin held[<<op[o].up, n>>]
  BY <1>1 DEF Files, IInv, FilesOK, Ended
<1>6. SUFFICES
        /\ held' \in [Files -> SUBSET Ops] /\ op[o].om # None
        /\ \A f \in Files : f[1] # op[o].up => held'[f] = held[f]
        /\ um[op[o].up] # None \/ Creating(o)
        /\ \A n \in Parts :
             LET f == <<op[o].up, n>>
             IN  /\ op[o].om[n] \in held'[f] \cup {None}
                 /\ part[f] # None => part[f] \in held'[f]
                 /\ held'[f] \subseteq held[f] \cup {o}
                 /\ \/ /\ held'[f] = held[f]
                       /\ um[op[o].up] # None /\ um[op[o].up][n] # None => op[o].om[n] # None
                    \/ op[o].om[n] # None /\ part[f] # None
  <2>1. TypeOK'
    BY <1>2, <1>3, <1>6 DEF IInv, TypeOK
  <2>2. Frame(o)
    BY <1>2, <1>6 DEF Frame
  <2>3. CallsOK'
    BY <1>1, <1>4, <1>6, <2>2, OthersKept
  <2>4. \A n \in Parts :
          LET f == <<op[o].up, n>>
          IN  /\ um'[op[o].up] # None
              /\ um'[op[o].up][n] \in held'[f] \cup {None}
              /\ part'[f] # None => part'[f] \in held'[f]
              /\ held'[f] \subseteq held[f] \cup {o}
              /\ Ended(o)'
    BY <1>2, <1>6 DEF Ended
  <2>5. FilesOK' /\ PartsOK'
    BY <1>1, <1>6, <2>2, <2>4, FilesKept
  <2>6. Kept'
    <3>1. \A n \in Parts :
            LET f == <<op[o].up, n>>
            IN  \/ /\ held'[f] = held[f]
                   /\ um[op[o].up] # None =>
                        um'[op[o].up] # None /\ (um[op[o].up][n] # None => um'[op[o].up][n] # None)
                   /\ part[f] # None => part'[f] # None
                \/ um'[op[o].up] # None /\ um'[op[o].up][n] # None /\ part'[f] # None
      BY <1>2, <1>6
    <3>2. ~ At(o, "rmparts")
      BY <1>1 DEF At
    <3> QED
      BY <1>1, <1>2, <2>2, <3>1, <3>2, KeptMore
  <2>7. PublishedOK'
    BY <1>1, <1>2, <2>2, PublishedKept DEF At
  <2> QED
    BY <1>3, <2>1, <2>3, <2>5, <2>6, <2>7 DEF IInv
<1>7. CASE op[o].kind = "create"
  <2>1. Creating(o) /\ op[o].om = [n \in Parts |-> None] /\ um[op[o].up] = None
    BY <1>1, <1>7 DEF Creating, Writing, Unborn, Shape
  <2>2. held' = held
    BY <1>7 DEF CommitUm
  <2>3. op[o].om # None
    <3>1. op[o].om \in [Parts -> Ops \cup {None}]
      BY <2>1
    <3> QED
      BY <3>1, NamesAssumption
  <2>4. \A n \in Parts : part[<<op[o].up, n>>] = None
    BY <1>5, <2>1 DEF IInv, FilesOK
  <2>5. \A n \in Parts : op[o].om[n] = None
    BY <2>1
  <2> QED
    BY <2>1, <2>2, <2>3, <2>4, <2>5 DEF IInv, TypeOK
<1>8. CASE op[o].kind = "part"
  <2>1. /\ um[op[o].up] # None /\ op[o].om = [um[op[o].up] EXCEPT ![op[o].n] = o]
        /\ part[File(o)] = o /\ op[o].n \in Parts
    BY <1>1, <1>8 DEF Writing, Shape
  <2>2. held' = [held EXCEPT ![File(o)] = {o}]
    BY <1>8 DEF CommitUm
  <2>3. um[op[o].up] \in Metadata
    BY <1>1, <2>1 DEF IInv, TypeOK
  <2>4. op[o].om \in Metadata /\ op[o].om # None
    BY <2>1, <2>3, NamesAssumption DEF Metadata
  <2>5. /\ op[o].om[op[o].n] = o
        /\ \A n \in Parts \ {op[o].n} : op[o].om[n] = um[op[o].up][n]
    BY <2>1, <2>3 DEF Metadata
  <2>6. File(o) = <<op[o].up, op[o].n>> /\ File(o) \in Files
    BY <1>5, <2>1 DEF File
  <2>7. /\ held' \in [Files -> SUBSET Ops] /\ held'[File(o)] = {o}
        /\ \A f \in Files : f # File(o) => held'[f] = held[f]
    BY <2>2, <2>6 DEF IInv, TypeOK
  <2>8. ASSUME NEW n \in Parts
        PROVE  LET f == <<op[o].up, n>>
               IN  /\ op[o].om[n] \in held'[f] \cup {None}
                   /\ part[f] # None => part[f] \in held'[f]
                   /\ held'[f] \subseteq held[f] \cup {o}
                   /\ \/ held'[f] = held[f] /\ (um[op[o].up][n] # None => op[o].om[n] # None)
                      \/ op[o].om[n] # None /\ part[f] # None
    <3> DEFINE f == <<op[o].up, n>>
    <3>1. CASE n = op[o].n
      BY <2>1, <2>5, <2>6, <2>7, <3>1, NamesAssumption
    <3>2. CASE n # op[o].n
      <4>1. f # File(o) /\ f \in Files
        BY <1>5, <2>6, <3>2
      <4>2. um[op[o].up][n] \in held[f] \cup {None}
        BY <2>1, <4>1 DEF IInv, FilesOK
      <4>3. part[f] # None => part[f] \in held[f]
        BY <1>1, <4>1, PartOfWorker
      <4> QED
        BY <2>5, <2>7, <3>2, <4>1, <4>2, <4>3
    <3> QED
      BY <3>1, <3>2
  <2> QED
    BY <2>1, <2>4, <2>6, <2>7, <2>8
<1>9. QED
  BY <1>1, <1>7, <1>8

LEMMA PublishStep ==
  ASSUME IInv, NEW o \in Ops, Publish(o)
  PROVE  IInv'
<1> DEFINE made == [published EXCEPT ![op[o].up] = published[op[o].up] \cup {o}]
           listed == [op[o] EXCEPT !.pc = "rmparts"]
           failed == Ending(o, "failed")
<1>1. /\ op[o].pc = "publish"
      /\ published' \in {published, made}
      /\ UNCHANGED <<files, held, aged, crashes>>
  BY DEF Publish, At
<1>2. /\ op[o] \in CallType /\ Shape(o) /\ Sweeping(o) /\ Writing(o) /\ Holding(o) /\ Working(o)
      /\ op[o].up \in Ops /\ op[o].kind = "complete"
  BY <1>1, OpType, HoldersUp DEF IInv, CallsOK, Holding, Working, Shape, At
<1>3. um[op[o].up] # None /\ op[o].res = None /\ o \in inside
  BY <1>1, <1>2 DEF Writing, Shape, At, IInv, LockOK
<1>4. PICK c \in CallType :
        /\ op' = [op EXCEPT ![o] = c]
        /\ c.kind = op[o].kind /\ c.up = op[o].up /\ c.n = op[o].n /\ c.old = op[o].old
        /\ \/ c.pc = "rmparts" /\ c.res = None /\ UNCHANGED lock
           \/ c.pc = "done" /\ c.res = "failed" /\ c.todo = {} /\ c.found = {} /\ Lock!Leave(o, op[o].up)
  <2>1. CASE published' = made /\ Goes(o, "rmparts") /\ UNCHANGED lock
    <3>1. "rmparts" \in Pcs
      BY DEF Pcs
    <3>2. /\ listed \in CallType /\ listed.pc = "rmparts" /\ listed.up = op[o].up
          /\ listed.kind = op[o].kind /\ listed.n = op[o].n /\ listed.res = op[o].res /\ listed.old = op[o].old
      BY <1>2, <3>1, SetPc
    <3>3. op' = [op EXCEPT ![o] = listed]
      BY <2>1 DEF Goes
    <3> HIDE DEF listed
    <3> QED
      BY <1>3, <2>1, <3>2, <3>3
  <2>2. CASE Finish(o, "failed")
    <3>1. /\ failed \in CallType /\ failed.pc = "done" /\ failed.res = "failed"
          /\ failed.kind = op[o].kind /\ failed.up = op[o].up /\ failed.n = op[o].n /\ failed.old = op[o].old
          /\ failed.todo = {} /\ failed.found = {}
      BY <1>2, IdleFields DEF Ending, CallType, Pcs, Answers
    <3>2. op' = [op EXCEPT ![o] = failed] /\ Lock!Leave(o, op[o].up)
      BY <1>3, <2>2 DEF Finish
    <3> HIDE DEF failed
    <3> QED
      BY <3>1, <3>2
  <2> QED
    BY <2>1, <2>2 DEF Publish
<1>5. /\ op' \in [Ops -> CallType] /\ op'[o] = c
      /\ \A p \in Ops \ {o} : op'[p] = op[p]
  BY <1>4 DEF IInv, TypeOK
<1>6. /\ published' \in [Ops -> SUBSET Ops]
      /\ \/ published' = published
         \/ /\ published'[op[o].up] = published[op[o].up] \cup {o}
            /\ \A u \in Ops \ {op[o].up} : published'[u] = published[u]
  <2>1. published \in [Ops -> SUBSET Ops]
    BY DEF IInv, TypeOK
  <2>2. CASE published' = published
    BY <2>1, <2>2
  <2>3. CASE published' = made
    BY <1>2, <2>1, <2>3
  <2> QED
    BY <1>1, <2>2, <2>3
<1> HIDE DEF made, listed, failed
<1>7. LockOK' /\ line' \in [Ops -> Seq(Ops)] /\ inside' \subseteq Ops
  <2>1. c.pc = "rmparts" => Holding(o)'
    BY <1>5 DEF Holding
  <2>2. c.pc = "done" => ~ Holding(o)'
    BY <1>5 DEF Holding
  <2> QED
    BY <1>2, <1>4, <1>5, <2>1, <2>2, LockKept, HoldersUp DEF IInv
<1>8. /\ um' = um /\ umTmp' = umTmp /\ part' = part /\ partTmp' = partTmp
      /\ held' = held /\ aged' = aged /\ crashes' = crashes
  BY <1>1 DEF files
<1>9. TypeOK' /\ Frame(o)
  BY <1>4, <1>5, <1>6, <1>7, <1>8 DEF IInv, TypeOK, Frame
<1>10. CallsOK'
  <2>1. Shape(o)' /\ Sweeping(o)' /\ EndedGone(o)' /\ Bytes(o)' /\ Unborn(o)'
    BY <1>2, <1>3, <1>4, <1>5, NamesAssumption
       DEF Shape, Sweeping, EndedGone, EndedBy, Bytes, Unborn, At, Holding, Creating
  <2>2. Writing(o)'
    BY <1>3, <1>4, <1>5, <1>8 DEF Writing, At, Creating
  <2> QED
    BY <1>2, <1>3, <1>8, <1>9, <2>1, <2>2, OthersKept
<1>11. FilesOK' /\ PartsOK'
  <2>1. ASSUME NEW n \in Parts
        PROVE  LET f == <<op[o].up, n>>
               IN  /\ um'[op[o].up] # None
                   /\ um'[op[o].up][n] \in held'[f] \cup {None}
                   /\ part'[f] # None => part'[f] \in held'[f]
                   /\ held'[f] = held[f] /\ o \notin held'[f]
    <3> DEFINE f == <<op[o].up, n>>
    <3>1. f \in Files
      BY <1>2 DEF Files
    <3>2. um[op[o].up][n] \in held[f] \cup {None} /\ o \notin held[f]
      BY <1>1, <1>3, <3>1 DEF IInv, FilesOK, Ended
    <3>3. part[f] # None => part[f] \in held[f]
      BY <1>1, <1>2, PartOfWorker
    <3> QED
      BY <1>3, <1>8, <3>2, <3>3
  <2> QED
    BY <1>2, <1>8, <1>9, <2>1, FilesKept DEF IInv, TypeOK
<1>12. Kept'
  BY <1>1, <1>2, <1>4, <1>5, <1>8, <1>9, KeptMore DEF At
<1>13. PublishedOK'
  <2>1. CASE published' = published
    BY <1>1, <1>2, <1>9, <2>1, PublishedKept DEF At
  <2>2. CASE /\ published'[op[o].up] = published[op[o].up] \cup {o}
             /\ \A u \in Ops \ {op[o].up} : published'[u] = published[u]
    <3>1. \A q \in published[op[o].up] : q # o /\ Uncertain(q)
      <4> SUFFICES ASSUME NEW q \in published[op[o].up] PROVE q # o /\ Uncertain(q)
        OBVIOUS
      <4>1. /\ q \in Ops /\ op[q].kind = "complete" /\ op[q].up = op[o].up
            /\ At(q, "rmparts") \/ At(q, "lost") \/ (At(q, "done") /\ op[q].res \in {"ok", "failed"})
        BY <1>2 DEF IInv, PublishedOK, TypeOK
      <4>2. q # o
        BY <1>1, <4>1 DEF At
      <4>3. ~ At(q, "rmparts")
        BY <1>2, <4>1, <4>2, Apart DEF Working, Holding, At
      <4>4. op[q].res # "ok"
        <5> SUFFICES ASSUME op[q].res = "ok" PROVE FALSE
          OBVIOUS
        <5>1. op[o].up \in EndedBy(q)
          BY <1>2, <4>1 DEF EndedBy
        <5> QED
          BY <1>3, <4>1, <5>1 DEF IInv, CallsOK, EndedGone
      <4> QED
        BY <4>1, <4>2, <4>3, <4>4 DEF Uncertain
    <3>2. /\ At(o, "rmparts")' \/ (At(o, "done")' /\ op'[o].res = "failed")
          /\ op'[o].kind = "complete" /\ op'[o].up = op[o].up
      BY <1>2, <1>4, <1>5 DEF At
    <3> SUFFICES ASSUME NEW u \in Ops, NEW p \in published'[u]
                 PROVE  /\ op'[p].kind = "complete" /\ op'[p].up = u
                        /\ \/ At(p, "rmparts")' \/ At(p, "lost")'
                           \/ At(p, "done")' /\ op'[p].res \in {"ok", "failed"}
                        /\ \A q \in published'[u] : Uncertain(p)' \/ Uncertain(q)' \/ p = q
      BY DEF PublishedOK
    <3>3. \A q \in published[u] :
             /\ q \in Ops /\ op[q].kind = "complete" /\ op[q].up = u
             /\ At(q, "rmparts") \/ At(q, "lost") \/ (At(q, "done") /\ op[q].res \in {"ok", "failed"})
             /\ \A r \in published[u] : Uncertain(q) \/ Uncertain(r) \/ q = r
      BY DEF IInv, PublishedOK, TypeOK
    <3>4. \A q \in published[u] : q # o
      BY <1>1, <3>3 DEF At
    <3>5. \A q \in published[u] : /\ q \in Ops \ {o} /\ op'[q] = op[q]
                                  /\ Uncertain(q)' = Uncertain(q)
      BY <1>5, <3>3, <3>4 DEF Uncertain, At
    <3>6. CASE u # op[o].up
      BY <2>2, <3>3, <3>5, <3>6 DEF At
    <3>7. CASE u = op[o].up
      <4>1. \A q \in published'[u] : q = o \/ (q \in published[u] /\ Uncertain(q)')
        BY <2>2, <3>1, <3>5, <3>7
      <4>2. CASE p = o
        BY <3>2, <3>7, <4>1, <4>2
      <4>3. CASE p # o
        <5>1. p \in published[u] /\ Uncertain(p)'
          BY <4>1, <4>3
        <5> QED
          BY <3>3, <3>5, <5>1 DEF At
      <4> QED
        BY <4>2, <4>3
    <3> QED
      BY <3>6, <3>7
  <2> QED
    BY <1>6, <2>1, <2>2
<1>14. QED
  BY <1>7, <1>9, <1>10, <1>11, <1>12, <1>13 DEF IInv

\* Whoever removes an upload's files is ending the upload.
LEMMA RemoverEnds ==
  ASSUME IInv, NEW o \in Ops, At(o, "rmparts")
  PROVE  /\ op[o].kind \in {"complete", "abort", "sweep"} /\ op[o].up \in Ops /\ um[op[o].up] # None
         /\ Holding(o) /\ Working(o) /\ Shape(o) /\ Writing(o) /\ Sweeping(o) /\ op[o].res = None
         /\ op[o].kind = "sweep" => op[o].up \in op[o].old
<1>1. Shape(o) /\ Writing(o) /\ Sweeping(o) /\ Holding(o) /\ Working(o)
  BY DEF IInv, CallsOK, Holding, Working, At
<1>2. op[o].up \in Ops
  BY <1>1, WorkersUp
<1>3. QED
  BY <1>1, <1>2, NamesAssumption DEF Shape, Writing, Sweeping, At

LEMMA RemovePartStep ==
  ASSUME IInv, NEW o \in Ops, RemovePart(o)
  PROVE  IInv'
<1>1. At(o, "rmparts") /\ UNCHANGED <<um, umTmp, op, lock, env>>
  BY DEF RemovePart
<1>2. PICK k \in Parts :
        LET f == <<op[o].up, k>>
        IN  \/ part[f] # None /\ part' = [part EXCEPT ![f] = None] /\ UNCHANGED partTmp
            \/ partTmp[f] # None /\ partTmp' = [partTmp EXCEPT ![f] = None] /\ UNCHANGED part
  BY DEF RemovePart
<1>3. /\ op[o].kind \in {"complete", "abort", "sweep"} /\ op[o].up \in Ops /\ um[op[o].up] # None
      /\ Holding(o) /\ Working(o) /\ Shape(o) /\ Writing(o) /\ Sweeping(o) /\ op[o].res = None
  BY <1>1, RemoverEnds
<1>4. <<op[o].up, k>> \in Files
  BY <1>3 DEF Files
<1>5. /\ part' \in [Files -> Ops \cup {None}] /\ partTmp' \in [Files -> Ops \cup {None, Torn}]
      /\ \A f \in Files : part'[f] \in {part[f], None} /\ partTmp'[f] \in {partTmp[f], None}
      /\ \A f \in Files : f # <<op[o].up, k>> => part'[f] = part[f] /\ partTmp'[f] = partTmp[f]
  BY <1>2, <1>4 DEF IInv, TypeOK
<1>6. /\ um' = um /\ umTmp' = umTmp /\ op' = op /\ held' = held /\ published' = published /\ aged' = aged
      /\ line' = line /\ inside' = inside
  BY <1>1 DEF env, lock
<1>7. TypeOK'
  BY <1>1, <1>5, <1>6 DEF IInv, TypeOK, env
<1>8. Frame(o)
  BY <1>5, <1>6 DEF Frame
<1>9. LockOK'
  BY <1>6 DEF IInv, LockOK, Holding
<1>10. CallsOK'
  <2>1. EndedGone(o) /\ Bytes(o) /\ Unborn(o)
    BY DEF IInv, CallsOK
  <2>2. Shape(o)' /\ Sweeping(o)' /\ EndedGone(o)' /\ Bytes(o)' /\ Unborn(o)'
    BY <1>3, <1>6, <2>1 DEF Shape, Sweeping, EndedGone, EndedBy, Bytes, Unborn, At, Holding, Creating
  <2>3. Writing(o)'
    BY <1>1, <1>3, <1>6 DEF Writing, At, Creating
  <2> QED
    BY <1>3, <1>8, <2>2, <2>3, OthersKept
<1>11. FilesOK' /\ PartsOK'
  <2>1. ASSUME NEW n \in Parts
        PROVE  LET f == <<op[o].up, n>>
               IN  /\ um'[op[o].up] # None
                   /\ um'[op[o].up][n] \in held'[f] \cup {None}
                   /\ part'[f] # None => part'[f] \in held'[f]
                   /\ held'[f] = held[f] /\ o \notin held'[f]
    <3> DEFINE f == <<op[o].up, n>>
    <3>1. f \in Files
      BY <1>3 DEF Files
    <3>2. um[op[o].up][n] \in held[f] \cup {None} /\ o \notin held[f]
      BY <1>1, <1>3, <3>1 DEF IInv, FilesOK, Ended, At
    <3>3. part[f] # None => part[f] \in held[f]
      BY <1>1, <1>3, PartOfWorker DEF At
    <3> QED
      BY <1>3, <1>5, <1>6, <3>1, <3>2, <3>3
  <2> QED
    BY <1>3, <1>6, <1>7, <1>8, <2>1, FilesKept DEF TypeOK
<1>12. Kept'
  <2>1. PICK u \in Ops : u = op[o].up
    BY <1>3
  <2>2. UploadEnding(u)'
    BY <1>1, <1>3, <1>6, <2>1 DEF UploadEnding, At
  <2> QED
    BY <1>3, <1>8, <2>1, <2>2, KeptKept
<1>13. PublishedOK'
  BY <1>1, <1>3, <1>6, <1>8, PublishedKept DEF At
<1>14. QED
  BY <1>7, <1>9, <1>10, <1>11, <1>12, <1>13 DEF IInv

LEMMA RemoveUmStep ==
  ASSUME IInv, NEW o \in Ops, RemoveUm(o)
  PROVE  IInv'
<1>1. /\ At(o, "rmparts") /\ Removed(o)
      /\ \A n \in Parts : part[<<op[o].up, n>>] = None /\ partTmp[<<op[o].up, n>>] = None
      /\ um' = [um EXCEPT ![op[o].up] = None]
      /\ UNCHANGED <<umTmp, part, partTmp, env>>
  BY DEF RemoveUm
<1>2. /\ op[o].kind \in {"complete", "abort", "sweep"} /\ op[o].up \in Ops
      /\ Holding(o) /\ Working(o) /\ Shape(o) /\ Sweeping(o) /\ op[o].res = None
      /\ op[o].kind = "sweep" => op[o].up \in op[o].old
  BY <1>1, RemoverEnds
<1>3. /\ um' \in [Ops -> Metadata \cup {None}] /\ um'[op[o].up] = None
      /\ \A w \in Ops \ {op[o].up} : um'[w] = um[w]
  BY <1>1, <1>2 DEF IInv, TypeOK
<1>4. PICK c \in CallType :
        /\ op' = [op EXCEPT ![o] = c]
        /\ c.kind = op[o].kind /\ c.n = op[o].n /\ c.old = op[o].old
        /\ \/ /\ op[o].kind = "sweep" /\ c.pc = "next" /\ c.up = None /\ c.res = None
              /\ c.todo = op[o].todo /\ c.found = op[o].found
           \/ op[o].kind # "sweep" /\ c.pc = "done" /\ c.up = op[o].up /\ c.res = "ok"
        /\ Lock!Leave(o, op[o].up)
  <2>1. CASE op[o].kind = "sweep"
    <3> DEFINE c == [op[o] EXCEPT !.up = None, !.pc = "next"]
    <3>1. op' = [op EXCEPT ![o] = c] /\ Lock!Leave(o, op[o].up)
      BY <1>1, <2>1 DEF Removed
    <3>2. /\ c \in CallType /\ c.pc = "next" /\ c.up = None /\ c.res = op[o].res
          /\ c.todo = op[o].todo /\ c.found = op[o].found
          /\ c.kind = op[o].kind /\ c.n = op[o].n /\ c.old = op[o].old
      <4>1. PICK r \in CallType : r = op[o]
        BY OpType
      <4>2. c = [r EXCEPT !.up = None, !.pc = "next"]
        BY <4>1
      <4> HIDE DEF c
      <4> QED
        BY <4>1, <4>2 DEF CallType, Pcs
    <3> QED
      BY <1>2, <2>1, <3>1, <3>2
  <2>2. CASE op[o].kind # "sweep"
    <3> DEFINE c == Ending(o, "ok")
    <3>1. op' = [op EXCEPT ![o] = c] /\ Lock!Leave(o, op[o].up)
      BY <1>1, <1>2, <2>2 DEF Removed, Finish, IInv, LockOK
    <3>2. "ok" \in Answers
      BY DEF Answers
    <3>3. /\ c \in CallType /\ c.pc = "done" /\ c.up = op[o].up /\ c.res = "ok"
          /\ c.kind = op[o].kind /\ c.n = op[o].n /\ c.old = op[o].old
      BY <3>2, EndingFields
    <3> QED
      BY <2>2, <3>1, <3>3
  <2> QED
    BY <2>1, <2>2
<1>5. /\ op' \in [Ops -> CallType] /\ op'[o] = c
      /\ \A p \in Ops \ {o} : op'[p] = op[p]
  BY <1>4 DEF IInv, TypeOK
<1>6. ~ Holding(o)'
  BY <1>4, <1>5 DEF Holding
<1>7. LockOK' /\ line' \in [Ops -> Seq(Ops)] /\ inside' \subseteq Ops
  BY <1>2, <1>4, <1>5, <1>6, LockKept, HoldersUp DEF IInv
<1>8. /\ umTmp' = umTmp /\ part' = part /\ partTmp' = partTmp
      /\ held' = held /\ published' = published /\ aged' = aged /\ crashes' = crashes
  BY <1>1 DEF env
<1>9. TypeOK'
  BY <1>3, <1>5, <1>7, <1>8 DEF IInv, TypeOK
<1>10. Frame(o)
  BY <1>3, <1>4, <1>5, <1>8 DEF Frame
<1>11. CallsOK'
  <2>1. Shape(o)'
    BY <1>1, <1>2, <1>4, <1>5, <1>6 DEF Shape, At
  <2>2. Writing(o)' /\ Bytes(o)' /\ Unborn(o)'
    BY <1>4, <1>5 DEF Writing, Bytes, Unborn, At, Creating
  <2>3. \A u \in Ops : um'[u] # None => um[u] # None /\ u # op[o].up
    BY <1>3
  <2>4. op[o].old \subseteq Ops
    BY OpType DEF CallType
  <2>5. Sweeping(o)'
    BY <1>2, <1>4, <1>5, <1>6, <2>3, <2>4 DEF Sweeping, At
  <2>6. EndedGone(o)'
    BY <1>2, <1>3, <1>4, <1>5, NamesAssumption DEF EndedGone, EndedBy
  <2> QED
    BY <1>2, <1>3, <1>10, <2>1, <2>2, <2>5, <2>6, OthersKept
<1>12. FilesOK' /\ PartsOK'
  <2>1. \A n \in Parts : <<op[o].up, n>> \in Files
    BY <1>2 DEF Files
  <2>2. \A n \in Parts : o \notin held[<<op[o].up, n>>]
    BY <1>1, <2>1 DEF IInv, FilesOK, Ended, At
  <2> QED
    BY <1>1, <1>2, <1>3, <1>8, <1>9, <1>10, <2>2, FilesKept DEF TypeOK
<1>13. Kept'
  <2>1. PICK u \in Ops : u = op[o].up
    BY <1>2
  <2>2. UploadEnding(u)'
    BY <1>2, <1>4, <1>5, <2>1 DEF UploadEnding, At
  <2> QED
    BY <1>2, <1>10, <2>1, <2>2, KeptKept
<1>14. PublishedOK'
  BY <1>1, <1>2, <1>4, <1>5, <1>8, <1>10, PublishedKept DEF At
<1>15. QED
  BY <1>7, <1>9, <1>11, <1>12, <1>13, <1>14 DEF IInv

-----------------------------------------------------------------------------
(* Time, crashes, and the theorems.                                        *)

LEMMA AgeStep ==
  ASSUME IInv, NEW u \in Ops, Age(u)
  PROVE  IInv'
<1>1. /\ um[u] # None /\ aged' = aged \cup {u}
      /\ UNCHANGED <<files, lock, op, published, held, crashes>>
  BY DEF Age
<1>2. /\ um' = um /\ umTmp' = umTmp /\ part' = part /\ partTmp' = partTmp /\ line' = line /\ inside' = inside
      /\ op' = op /\ published' = published /\ held' = held /\ crashes' = crashes
  BY <1>1 DEF files, lock
<1>3. TypeOK' /\ LockOK'
  BY <1>1, <1>2 DEF IInv, TypeOK, LockOK, Holding
<1>4. CallsOK'
  <2> SUFFICES ASSUME NEW o \in Ops
               PROVE  Shape(o)' /\ Writing(o)' /\ Unborn(o)' /\ Sweeping(o)' /\ EndedGone(o)' /\ Bytes(o)'
    BY DEF CallsOK
  <2>1. Shape(o) /\ Writing(o) /\ Unborn(o) /\ Sweeping(o) /\ EndedGone(o) /\ Bytes(o)
    BY DEF IInv, CallsOK
  <2>2. Shape(o)' /\ Writing(o)' /\ Sweeping(o)'
    BY <1>2, <2>1 DEF Shape, Writing, Sweeping, At, Holding, Creating, File
  <2>3. EndedGone(o)' /\ Bytes(o)'
    BY <1>2, <2>1 DEF EndedGone, EndedBy, Bytes, At
  <2>4. Unborn(o)'
    BY <1>1, <1>2, <2>1 DEF Unborn, At, Creating
  <2> QED
    BY <2>2, <2>3, <2>4
<1>5. FilesOK' /\ PartsOK'
  BY <1>2 DEF IInv, FilesOK, PartsOK, Ended, File
<1>6. Kept' /\ PublishedOK'
  BY <1>2 DEF IInv, Kept, UploadEnding, PublishedOK, Uncertain, At
<1>7. QED
  BY <1>3, <1>4, <1>5, <1>6 DEF IInv

\* What a crash leaves of the calls.
LEMMA CrashOps ==
  ASSUME IInv, Crash
  PROVE  /\ op' \in [Ops -> CallType]
         /\ \A o \in Ops : /\ op'[o].kind = op[o].kind /\ op'[o].up = op[o].up /\ op'[o].n = op[o].n
                           /\ op'[o].old = op[o].old
                           /\ InFlight(o) => /\ op'[o].pc = "lost" /\ op'[o].res = None
                                             /\ op'[o].todo = {} /\ op'[o].found = {}
                           /\ ~ InFlight(o) => op'[o] = op[o]
<1> DEFINE c(o) == [Ending(o, None) EXCEPT !.pc = "lost"]
<1>1. op' = [o \in Ops |-> IF InFlight(o) THEN c(o) ELSE op[o]]
  BY DEF Crash
<1>2. ASSUME NEW o \in Ops
      PROVE  /\ c(o) \in CallType
             /\ c(o).kind = op[o].kind /\ c(o).up = op[o].up /\ c(o).n = op[o].n /\ c(o).old = op[o].old
             /\ c(o).pc = "lost" /\ c(o).res = None /\ c(o).todo = {} /\ c(o).found = {}
  <2>1. op[o] \in CallType
    BY OpType
  <2> QED
    BY <2>1, IdleFields DEF Ending, CallType, Pcs
<1> HIDE DEF c
<1>3. \A o \in Ops : op[o] \in CallType
  BY OpType
<1>4. QED
  BY <1>1, <1>2, <1>3

LEMMA CrashStep ==
  ASSUME IInv, Crash
  PROVE  IInv'
<1>1. /\ line' = [u \in Ops |-> <<>>] /\ inside' = {} /\ crashes' = crashes + 1
      /\ held' = [f \in Files |-> held[f] \cup {o \in Ops : Replacing(o) /\ File(o) = f}]
      /\ um' = um /\ umTmp' = umTmp /\ part' = part /\ partTmp' = partTmp
      /\ published' = published /\ aged' = aged
  BY DEF Crash, files
<1>2. op' \in [Ops -> CallType]
  BY CrashOps
<1>3. \A o \in Ops :
        /\ op'[o].kind = op[o].kind /\ op'[o].up = op[o].up /\ op'[o].n = op[o].n
        /\ op'[o].old = op[o].old
        /\ InFlight(o) => op'[o].pc = "lost" /\ op'[o].res = None /\ op'[o].todo = {} /\ op'[o].found = {}
        /\ ~ InFlight(o) => op'[o] = op[o]
  BY CrashOps
<1>4. \A o \in Ops : ~ InFlight(o) => op[o].pc \in {"idle", "done", "lost"}
  BY DEF InFlight, Ended
<1>5. \A o \in Ops : op'[o].pc \in {"idle", "done", "lost"} /\ (op'[o].pc = "idle" <=> op[o].pc = "idle")
  BY <1>3, <1>4 DEF InFlight
<1>6. \A o \in Ops : op'[o].res = "ok" => op'[o] = op[o]
  BY <1>3, NamesAssumption
<1>7. \A o \in Ops : ~ Holding(o)' /\ ~ Creating(o)'
  BY <1>5 DEF Holding, Creating
<1>8. TypeOK'
  BY <1>1, <1>2 DEF IInv, TypeOK
<1>9. LockOK'
  BY <1>1, <1>7 DEF LockOK
<1>10. CallsOK'
  <2> SUFFICES ASSUME NEW o \in Ops
               PROVE  Shape(o)' /\ Writing(o)' /\ Unborn(o)' /\ Sweeping(o)' /\ EndedGone(o)' /\ Bytes(o)'
    BY DEF CallsOK
  <2>1. Shape(o) /\ Unborn(o) /\ Sweeping(o) /\ EndedGone(o)
    BY DEF IInv, CallsOK
  <2>2. Shape(o)'
    <3>1. CASE InFlight(o)
      BY <1>3, <1>7, <2>1, <3>1 DEF Shape, At
    <3>2. CASE ~ InFlight(o)
      BY <1>3, <1>7, <2>1, <3>2 DEF Shape, At
    <3> QED
      BY <3>1, <3>2
  <2>3. Writing(o)' /\ Bytes(o)'
    BY <1>5, <1>7 DEF Writing, Bytes, At
  <2>4. Unborn(o)'
    <3> SUFFICES ASSUME op[o].pc = "idle" PROVE Unborn(o)'
      BY <1>5, <1>7 DEF Unborn, At
    <3>1. /\ um[o] = None /\ o \notin aged
          /\ \A n \in Parts : held[<<o, n>>] = {}
          /\ \A p \in Ops \ {o} : op[p].up # o /\ o \notin op[p].old
      BY <2>1 DEF Unborn, At
    <3>2. \A p \in Ops, n \in Parts : ~ (Replacing(p) /\ File(p) = <<o, n>>)
      BY <3>1 DEF Replacing, File
    <3>3. \A n \in Parts : held'[<<o, n>>] = {}
      BY <1>1, <3>1, <3>2 DEF Files
    <3> QED
      BY <1>1, <1>3, <3>1, <3>3 DEF Unborn
  <2>5. Sweeping(o)'
    <3>1. CASE InFlight(o)
      BY <1>3, <1>7, <2>1, <3>1 DEF Sweeping, At
    <3>2. CASE ~ InFlight(o)
      BY <1>3, <1>5, <1>7, <2>1, <3>2 DEF Sweeping, At
    <3> QED
      BY <3>1, <3>2
  <2>6. EndedGone(o)'
    <3>1. CASE InFlight(o)
      BY <1>3, <3>1, NamesAssumption DEF EndedGone, EndedBy
    <3>2. CASE ~ InFlight(o)
      BY <1>1, <1>3, <2>1, <3>2 DEF EndedGone, EndedBy
    <3> QED
      BY <3>1, <3>2
  <2> QED
    BY <2>2, <2>3, <2>4, <2>5, <2>6
<1>11. FilesOK'
  <2>1. \A f \in Files : held'[f] = held[f] \cup {o \in Ops : Replacing(o) /\ File(o) = f}
    BY <1>1
  <2>2. \A f \in Files : \A o \in held[f] : o \in Ops /\ Ended(o)
    BY DEF IInv, FilesOK, TypeOK
  <2>3. \A o \in Ops : Ended(o) \/ Replacing(o) => Ended(o)'
    BY <1>3, <1>5 DEF Ended, Replacing
  <2>4. \A f \in Files : \A o \in held'[f] : Ended(o)'
    BY <2>1, <2>2, <2>3
  <2> QED
    BY <1>1, <2>1, <2>4 DEF IInv, FilesOK
<1>12. PartsOK'
  <2> SUFFICES ASSUME NEW f \in Files, part[f] # None PROVE part[f] \in held'[f]
    BY <1>1 DEF PartsOK
  <2> QED
    BY <1>1 DEF IInv, PartsOK, Replacing
<1>13. Kept'
  <2> SUFFICES ASSUME NEW f \in Files, NEW p \in held'[f], op'[p].res = "ok", ~ UploadEnding(f[1])'
               PROVE  um[f[1]] # None /\ um[f[1]][f[2]] # None /\ part[f] # None
    BY <1>1 DEF Kept
  <2>1. p \in Ops
    BY <1>8 DEF TypeOK
  <2>2. op'[p] = op[p] /\ ~ InFlight(p)
    BY <1>3, <1>6, <2>1, NamesAssumption
  <2>3. p \in held[f]
    BY <1>1, <2>2 DEF Replacing, InFlight, Ended
  <2>4. UploadEnding(f[1]) => UploadEnding(f[1])'
    <3> SUFFICES ASSUME NEW q \in Ops,
                        op[q].kind \in {"complete", "abort", "sweep"},
                        \/ op[q].up = f[1] /\ (At(q, "rmparts") \/ At(q, "lost") \/ op[q].res = "ok")
                        \/ f[1] \in op[q].old
                 PROVE  UploadEnding(f[1])'
      BY DEF UploadEnding
    <3>1. op'[q].kind = op[q].kind /\ op'[q].up = op[q].up /\ op'[q].old = op[q].old
      BY <1>3
    <3>2. CASE InFlight(q)
      <4>1. op'[q].pc = "lost"
        BY <1>3, <3>2
      <4>2. op[q].up = f[1] \/ f[1] \in op[q].old
        OBVIOUS
      <4> QED
        BY <3>1, <4>1, <4>2 DEF UploadEnding, At
    <3>3. CASE ~ InFlight(q)
      BY <1>3, <3>3 DEF UploadEnding, At
    <3> QED
      BY <3>2, <3>3
  <2>5. ~ UploadEnding(f[1]) /\ op[p].res = "ok"
    BY <2>2, <2>4
  <2> QED
    BY <2>3, <2>5 DEF IInv, Kept
<1>14. PublishedOK'
  <2>1. \A o \in Ops : /\ At(o, "lost") => At(o, "lost")'
                       /\ At(o, "rmparts") => At(o, "lost")'
                       /\ At(o, "done") => op'[o] = op[o]
                       /\ Uncertain(o) => Uncertain(o)'
    <3>1. \A o \in Ops : op[o].res = "failed" => ~ InFlight(o)
      BY NamesAssumption DEF IInv, CallsOK, Shape, InFlight, Ended, At
    <3> QED
      BY <1>3, <3>1 DEF At, InFlight, Ended, Uncertain
  <2>2. \A u \in Ops : \A o \in published[u] : o \in Ops
    BY DEF IInv, TypeOK
  <2> QED
    BY <1>1, <1>3, <2>1, <2>2 DEF IInv, PublishedOK, Uncertain, At
<1>15. QED
  BY <1>8, <1>9, <1>10, <1>11, <1>12, <1>13, <1>14 DEF IInv

LEMMA Stutter ==
  ASSUME IInv, UNCHANGED vars
  PROVE  IInv'
<1>1. /\ um' = um /\ umTmp' = umTmp /\ part' = part /\ partTmp' = partTmp /\ line' = line /\ inside' = inside
      /\ op' = op /\ published' = published /\ held' = held /\ aged' = aged /\ crashes' = crashes
  BY DEF vars
<1>2. TypeOK' /\ LockOK'
  BY <1>1 DEF IInv, TypeOK, LockOK, Holding
<1>3. CallsOK'
  <2> SUFFICES ASSUME NEW o \in Ops
               PROVE  Shape(o)' /\ Writing(o)' /\ Unborn(o)' /\ Sweeping(o)' /\ EndedGone(o)' /\ Bytes(o)'
    BY DEF CallsOK
  <2>1. Shape(o) /\ Writing(o) /\ Unborn(o) /\ Sweeping(o) /\ EndedGone(o) /\ Bytes(o)
    BY DEF IInv, CallsOK
  <2>2. Shape(o)' /\ Writing(o)' /\ Unborn(o)' /\ Sweeping(o)'
    BY <1>1, <2>1 DEF Shape, Writing, Unborn, Sweeping, At, Holding, Creating, File
  <2>3. EndedGone(o)' /\ Bytes(o)'
    BY <1>1, <2>1 DEF EndedGone, EndedBy, Bytes, At
  <2> QED
    BY <2>2, <2>3
<1>4. FilesOK' /\ PartsOK' /\ Kept' /\ PublishedOK'
  BY <1>1 DEF IInv, FilesOK, PartsOK, Kept, PublishedOK, Uncertain, Ended, File, UploadEnding, At
<1>5. QED
  BY <1>2, <1>3, <1>4 DEF IInv

LEMMA Inductive ==
  ASSUME IInv, [Next]_vars
  PROVE  IInv'
<1>1. CASE UNCHANGED vars
  BY <1>1, Stutter
<1>2. CASE Crash
  BY <1>2, CrashStep
<1>3. ASSUME NEW o \in Ops, Call(o) \/ HangUp(o) \/ Age(o)
      PROVE  IInv'
  BY <1>3, CallStep, HangUpStep, AgeStep
<1>4. ASSUME NEW o \in Ops, Step(o)
      PROVE  IInv'
  <2>1. CASE Acquire(o) \/ NotThere(o)
    BY <2>1, AcquireStep, NotThereStep
  <2>2. CASE PartOpen(o) \/ StreamEnd(o) \/ StreamFail(o) \/ RenamePart(o)
    BY <2>2, PartOpenStep, StreamEndStep, StreamFailStep, RenamePartStep
  <2>3. CASE WriteUm(o) \/ CommitUm(o)
    BY <2>3, WriteUmStep, CommitUmStep
  <2>4. CASE Assemble(o) \/ Publish(o) \/ AbortStart(o)
    BY <2>4, AssembleStep, PublishStep, AbortStartStep
  <2>5. CASE RemovePart(o) \/ RemoveUm(o)
    BY <2>5, RemovePartStep, RemoveUmStep
  <2>6. CASE SweepList(o) \/ SweepRead(o) \/ SweepNext(o)
    BY <2>6, SweepReadStep, SweepNextStep
  <2> QED
    BY <1>4, <2>1, <2>2, <2>3, <2>4, <2>5, <2>6 DEF Step
<1>5. QED
  BY <1>1, <1>2, <1>3, <1>4 DEF Next

\* The calls of any number of clients, interleaved at every await and cut short by any
\* number of crashes, keep the inductive invariant: the holder of an upload's lock is
\* the only one that touches the upload, and nothing is left of one that has ended.
THEOREM Invariance == Spec => []IInv
<1>1. IInv /\ [Next]_vars => IInv'
  BY Inductive
<1>2. QED
  BY Initial, <1>1, PTL DEF Spec

-----------------------------------------------------------------------------
(* What may be left of the metadata's ".tmp": the file of a call that is    *)
(* about to rename it, or of one that a crash has cut short.               *)

Leftovers ==
  \A u \in Ops : umTmp[u] # None => CutShort(u) \/ \E p \in Ops : At(p, "commit") /\ op[p].up = u

LEMMA SweepNextElsewhere ==
  ASSUME IInv, NEW o \in Ops, SweepNext(o)
  PROVE  umTmp' = umTmp /\ op[o].pc = "next" /\ \E c : op' = [op EXCEPT ![o] = c]
<1>1. op[o].pc = "next" /\ UNCHANGED <<files, env>>
  BY DEF SweepNext, At
<1>2. umTmp' = umTmp
  BY <1>1 DEF files
<1>3. CASE op[o].todo = {} /\ Finish(o, "ok")
  BY <1>1, <1>2, <1>3 DEF Finish
<1>4. CASE \E u \in op[o].todo :
             /\ Lock!Join(o, u)
             /\ op' = [op EXCEPT ![o].up = u, ![o].todo = @ \ {u}, ![o].pc = "queued"]
  <2>1. PICK u \in op[o].todo :
             /\ Lock!Join(o, u)
             /\ op' = [op EXCEPT ![o].up = u, ![o].todo = @ \ {u}, ![o].pc = "queued"]
    BY <1>4
  <2> DEFINE c == [op[o] EXCEPT !.up = u, !.todo = op[o].todo \ {u}, !.pc = "queued"]
  <2>2. op' = [op EXCEPT ![o] = c]
    BY <2>1
  <2> HIDE DEF c
  <2> QED
    BY <1>1, <1>2, <2>2
<1>5. QED
  BY <1>3, <1>4 DEF SweepNext

\* Only WriteUm and CommitUm touch the file, and no other step is one of a call in
\* their midst.
LEMMA ElsewhereStep ==
  ASSUME IInv, NEW o \in Ops, Call(o) \/ HangUp(o) \/ Step(o), ~ WriteUm(o), ~ CommitUm(o)
  PROVE  /\ umTmp' = umTmp /\ op[o].pc \notin {"commit", "lost"}
         /\ op' = op \/ \E c : op' = [op EXCEPT ![o] = c]
<1>1. CASE Call(o)
  <2>1. \A kind, u, n, list : Queued(o, kind, u, n, list) =>
           /\ umTmp' = umTmp /\ op[o].pc \notin {"commit", "lost"}
           /\ \E c : op' = [op EXCEPT ![o] = c]
    BY DEF Queued, Made, At, files
  <2>2. CASE PartCall(o) \/ CompleteCall(o) \/ AbortCall(o)
    BY <2>1, <2>2 DEF PartCall, CompleteCall, AbortCall
  <2>3. CASE CreateCall(o) \/ SweepCall(o)
    BY <2>3 DEF CreateCall, SweepCall, Made, At, files
  <2> QED
    BY <1>1, <2>2, <2>3 DEF Call
<1>2. CASE HangUp(o)
  <2>1. \E c : op' = [op EXCEPT ![o] = c]
    BY <1>2 DEF HangUp
  <2> QED
    BY <1>2, <2>1 DEF HangUp, files
<1>3. CASE Step(o)
  <2>1. \A res : Finish(o, res) => \E c : op' = [op EXCEPT ![o] = c]
    BY DEF Finish
  <2>2. \A pc : Goes(o, pc) => \E c : op' = [op EXCEPT ![o] = c]
    BY DEF Goes
  <2>3. CASE Acquire(o) \/ NotThere(o)
    BY <2>1, <2>2, <2>3 DEF Acquire, NotThere, At, files
  <2>4. CASE PartOpen(o) \/ StreamEnd(o) \/ StreamFail(o) \/ RenamePart(o)
    BY <2>1, <2>2, <2>4 DEF PartOpen, StreamEnd, StreamFail, RenamePart, There, At, files
  <2>5. CASE Assemble(o)
    <3>1. /\ umTmp' = umTmp /\ op[o].pc = "held"
          /\ (\E res : Finish(o, res)) \/ \E b : op' = [op EXCEPT ![o].body = b, ![o].pc = "publish"]
      BY <2>5 DEF Assemble, There, At, files
    <3> QED
      BY <2>1, <3>1
  <2>6. CASE Publish(o) \/ AbortStart(o)
    BY <2>1, <2>2, <2>6 DEF Publish, AbortStart, There, At, files
  <2>7. CASE RemovePart(o) \/ RemoveUm(o)
    BY <2>1, <2>7 DEF RemovePart, RemoveUm, Removed, At
  <2>8. CASE SweepList(o) \/ SweepRead(o) \/ SweepNext(o)
    <3>1. \A todo, found : Reading(o, todo, found) => \E c : op' = [op EXCEPT ![o] = c]
      BY DEF Reading
    <3>2. CASE SweepList(o) \/ SweepRead(o)
      BY <3>1, <3>2 DEF SweepList, SweepRead, At, files
    <3>3. CASE SweepNext(o)
      BY <3>3, SweepNextElsewhere
    <3> QED
      BY <2>8, <3>2, <3>3
  <2> QED
    BY <1>3, <2>3, <2>4, <2>5, <2>6, <2>7, <2>8 DEF Step
<1>4. QED
  BY <1>1, <1>2, <1>3

LEMMA LeftoversStep ==
  ASSUME IInv, Leftovers, [Next]_vars
  PROVE  Leftovers'
<1>1. CASE UNCHANGED vars
  BY <1>1 DEF vars, Leftovers, CutShort, At
<1>2. CASE Crash
  <2>1. umTmp' = umTmp
    BY <1>2 DEF Crash, files
  <2>2. \A p \in Ops : /\ op'[p].kind = op[p].kind /\ op'[p].up = op[p].up
                       /\ At(p, "lost") \/ At(p, "commit") => At(p, "lost")'
    BY <1>2, CrashOps DEF At, InFlight, Ended
  <2>3. \A p \in Ops : At(p, "commit") => op[p].kind \in {"create", "part"}
    BY DEF IInv, CallsOK, Shape, At
  <2> SUFFICES ASSUME NEW u \in Ops, umTmp[u] # None PROVE CutShort(u)'
    BY <2>1 DEF Leftovers
  <2> QED
    BY <2>2, <2>3 DEF Leftovers, CutShort
<1>3. ASSUME NEW u \in Ops, Age(u)
      PROVE  Leftovers'
  BY <1>3 DEF Age, Leftovers, CutShort, At, files
<1>4. ASSUME NEW o \in Ops, Call(o) \/ HangUp(o) \/ Step(o)
      PROVE  Leftovers'
  <2>1. ASSUME umTmp' = umTmp, op[o].pc \notin {"commit", "lost"}, \A p \in Ops \ {o} : op'[p] = op[p]
        PROVE  Leftovers'
    BY <2>1 DEF Leftovers, CutShort, At
  <2>2. CASE WriteUm(o)
    <3>1. At(o, "wum") /\ umTmp' = [umTmp EXCEPT ![op[o].up] = op[o].om] /\ op' = [op EXCEPT ![o].pc = "commit"]
      BY <2>2 DEF WriteUm, Goes
    <3>2. op'[o].pc = "commit" /\ op'[o].up = op[o].up /\ \A p \in Ops \ {o} : op'[p] = op[p]
      BY <3>1, OpType DEF IInv, TypeOK, CallType
    <3>3. \A w \in Ops \ {op[o].up} : umTmp'[w] = umTmp[w]
      BY <3>1 DEF IInv, TypeOK
    <3> SUFFICES ASSUME NEW u \in Ops, umTmp'[u] # None
                 PROVE  CutShort(u)' \/ \E p \in Ops : At(p, "commit")' /\ op'[p].up = u
      BY DEF Leftovers
    <3>4. CASE u = op[o].up
      BY <3>2, <3>4 DEF At
    <3>5. CASE u # op[o].up
      <4>1. CutShort(u) \/ \E p \in Ops : At(p, "commit") /\ op[p].up = u
        BY <3>3, <3>5 DEF Leftovers
      <4> QED
        BY <3>1, <3>2, <4>1 DEF CutShort, At
    <3> QED
      BY <3>4, <3>5
  <2>3. CASE CommitUm(o)
    <3>1. /\ At(o, "commit") /\ umTmp' = [umTmp EXCEPT ![op[o].up] = None]
          /\ op' = [op EXCEPT ![o] = Ending(o, "ok")]
      BY <2>3 DEF CommitUm, Finish
    <3>2. \A p \in Ops \ {o} : op'[p] = op[p]
      BY <3>1 DEF IInv, TypeOK
    <3>3. \A w \in Ops : umTmp'[w] # None => w # op[o].up /\ umTmp'[w] = umTmp[w]
      BY <3>1 DEF IInv, TypeOK
    <3> QED
      BY <3>1, <3>2, <3>3 DEF Leftovers, CutShort, At
  <2>4. CASE ~ WriteUm(o) /\ ~ CommitUm(o)
    <3>1. /\ umTmp' = umTmp /\ op[o].pc \notin {"commit", "lost"}
          /\ op' = op \/ \E c : op' = [op EXCEPT ![o] = c]
      BY <1>4, <2>4, ElsewhereStep
    <3>2. \A p \in Ops \ {o} : op'[p] = op[p]
      BY <3>1 DEF IInv, TypeOK
    <3> QED
      BY <2>1, <3>1, <3>2
  <2> QED
    BY <2>2, <2>3, <2>4
<1>5. QED
  BY <1>1, <1>2, <1>3, <1>4 DEF Next

LEMMA LeftoversInv == Spec => []Leftovers
<1>1. Init => Leftovers
  BY DEF Init, Leftovers
<1>2. IInv /\ Leftovers /\ [Next]_vars => Leftovers'
  BY LeftoversStep
<1>3. QED
  BY Invariance, <1>1, <1>2, PTL DEF Spec

\* A completion puts together the bodies that were acknowledged last (or cut short by
\* a crash since) under the part numbers and MD5s the client lists.
THEOREM BytesCorrect == Spec => []BytesAsListed
<1>1. IInv => BytesAsListed
  BY DEF IInv, CallsOK, Bytes, BytesAsListed
<1>2. QED
  BY Invariance, <1>1, PTL

\* An acknowledged part stays listed and on disk, whatever calls and crashes follow,
\* until it is sent again or its upload ends.
THEOREM AckedPartsKept == Spec => []AckedPartStays
<1>1. ASSUME IInv PROVE AckedPartStays
  <2> SUFFICES ASSUME NEW f \in Files, \E o \in held[f] : op[o].res = "ok", ~ UploadEnding(f[1])
               PROVE  /\ um[f[1]] # None
                      /\ um[f[1]][f[2]] \in held[f] \cup Replacers(f)
                      /\ part[f] \in held[f] \cup Replacers(f)
    BY DEF AckedPartStays
  <2>1. um[f[1]] # None /\ um[f[1]][f[2]] # None /\ part[f] # None
    BY <1>1 DEF IInv, Kept
  <2>2. um[f[1]][f[2]] \in held[f]
    BY <1>1, <2>1 DEF IInv, FilesOK
  <2>3. part[f] \in held[f] \cup Replacers(f)
    BY <1>1, <2>1 DEF IInv, PartsOK, Replacers, Replacing
  <2> QED
    BY <2>1, <2>2, <2>3
<1>2. QED
  BY Invariance, <1>1, PTL

\* An upload that has been answered as completed, aborted, swept or not there never comes
\* back and leaves no file behind, but for the ".tmp" of its metadata if a crash cut a
\* create or part call of it short; it has become one object at most, but for the
\* completions that were lost in a crash or failed.
THEOREM EndedForGood == Spec => []GoneForGood
<1>1. ASSUME IInv, Leftovers PROVE GoneForGood
  <2> SUFFICES ASSUME NEW o \in Ops
               PROVE  /\ \A u \in EndedBy(o) : /\ um[u] = None
                                               /\ umTmp[u] = None \/ CutShort(u)
                                               /\ \A n \in Parts : part[<<u, n>>] = None /\ partTmp[<<u, n>>] = None
                      /\ Cardinality(published[o]) <= 1 + Cardinality({p \in published[o] : Uncertain(p)})
    BY DEF GoneForGood
  <2>1. ASSUME NEW u \in EndedBy(o)
        PROVE  /\ um[u] = None
               /\ umTmp[u] = None \/ CutShort(u)
               /\ \A n \in Parts : part[<<u, n>>] = None /\ partTmp[<<u, n>>] = None
    <3>1. u \in Ops /\ um[u] = None
      BY <1>1 DEF IInv, CallsOK, EndedGone, EndedBy
    <3>2. \A n \in Parts : <<u, n>> \in Files /\ <<u, n>>[1] = u
      BY <3>1 DEF Files
    <3>3. \A p \in Ops : ~ (At(p, "commit") /\ op[p].up = u)
      <4> SUFFICES ASSUME NEW p \in Ops, At(p, "commit"), op[p].up = u PROVE FALSE
        OBVIOUS
      <4>1. Shape(p) /\ Writing(p) /\ Unborn(p) /\ Shape(o)
        BY <1>1 DEF IInv, CallsOK
      <4>2. CASE op[p].kind = "part"
        BY <3>1, <4>1, <4>2 DEF Writing, At
      <4>3. CASE op[p].kind = "create"
        <5>1. u = p /\ \A q \in Ops \ {p} : op[q].up # p /\ p \notin op[q].old
          BY <4>1, <4>3 DEF Shape, Unborn, Creating, At
        <5>2. op[p].res = None /\ op[p].kind = "create"
          BY <4>1, <4>3 DEF Shape, At
        <5> QED
          BY <2>1, <5>1, <5>2, NamesAssumption DEF EndedBy
      <4> QED
        BY <4>1, <4>2, <4>3 DEF Shape, At
    <3>4. umTmp[u] = None \/ CutShort(u)
      BY <1>1, <3>1, <3>3 DEF Leftovers
    <3> QED
      BY <1>1, <3>1, <3>2, <3>4 DEF IInv, FilesOK
  <2> DEFINE P == published[o]
             L == {p \in P : Uncertain(p)}
  <2>2. IsFiniteSet(Ops)
    <3>1. 1 \in Int /\ MaxCalls \in Int
      BY BoundsAssumption
    <3>2. IsFiniteSet(1 .. MaxCalls)
      BY <3>1, FS_Interval
    <3> QED
      BY <3>2 DEF Ops
  <2>3. L \subseteq P /\ P \subseteq Ops
    BY <1>1 DEF IInv, TypeOK
  <2>4. IsFiniteSet(L)
    BY <2>2, <2>3, FS_Subset
  <2>5. \A p, q \in P : p \in L \/ q \in L \/ p = q
    BY <1>1 DEF IInv, PublishedOK
  <2> HIDE DEF P, L
  <2>6. Cardinality(L) \in Nat
    BY <2>4, FS_CardinalityType
  <2>7. Cardinality(P) <= 1 + Cardinality(L)
    <3>1. CASE P = L
      BY <2>6, <3>1
    <3>2. CASE P # L
      <4>1. PICK x \in P : x \notin L
        BY <2>3, <3>2
      <4>2. P = L \cup {x}
        BY <2>3, <2>5, <4>1
      <4>3. Cardinality(L \cup {x}) = Cardinality(L) + 1
        BY <2>4, <4>1, FS_AddElement
      <4> QED
        BY <2>6, <4>2, <4>3
    <3> QED
      BY <3>1, <3>2
  <2> QED
    BY <2>1, <2>7 DEF P, L
<1>2. QED
  BY Invariance, LeftoversInv, <1>1, PTL
=============================================================================
