---------------------------- MODULE GatewayProofs ----------------------------
(***************************************************************************)
(* For any number of requests, of any kinds, and of crashes: bucket.json   *)
(* holds what was acknowledged, puts have done what they answered, the     *)
(* counters add up, and policies are in force once acknowledged.           *)
(***************************************************************************)
EXTENDS Gateway, FiniteSetTheorems, TLAPS

-----------------------------------------------------------------------------
(* Types.                                                                  *)

States == {"idle", "internal", "preflight", "admit", "policy", "create", "default", "set",
           "write", "commit", "test", "remove", "check", "open", "place", "metadata", "find",
           "drop", "read", "done", "lost"}

\* What is answered to the server's own tests, and what VerifyRequest answers.
Refusals == {"AccessDenied", "AuthorizationMalformed", "InvalidAccessKeyId", "SignatureDoesNotMatch"}
Errors   == Refusals \cup {"InternalFailed", "AccessForbidden", "MethodNotAllowed", "InternalError",
                           "BucketAlreadyExists", "NoSuchBucket", "BucketNotEmpty", "Malformed",
                           "BadDigest", "NotFound"}
Granted  == {"ok", "refused", "bad request"}

Fields == {"pc", "req", "name", "who", "copy", "may", "exposed", "life", "passed", "res"}

IsRequest(r) ==
  /\ r = [f \in Fields |-> r[f]]
  /\ r.pc \in States /\ r.exposed \in BOOLEAN /\ r.life \in Nat /\ r.passed \in BOOLEAN
  /\ r.res \in Errors \cup Granted \cup {None}

Counters == [requests : Nat, errors : Nat, operations : Nat, statuses : Nat]

TypeOK ==
  /\ op = [o \in Ops |-> op[o]] /\ \A o \in Ops : IsRequest(op[o])
  /\ files \in [Ops -> Disk!Stages]
  /\ metrics \in Counters
  /\ raced \in BOOLEAN /\ crashes \in Nat

\* Which fields go with which state.
Named(o) ==
  LET c == op[o] IN
  /\ c.pc \in {"idle", "internal", "preflight", "admit", "lost"} => c.name = None
  /\ c.pc \in {"create", "default"} => c.name = "CreateBucket"
  /\ c.pc = "set" => c.name \in Setters
  /\ c.pc \in {"write", "commit"} => c.name \in Setters \cup {"CreateBucket"}
  /\ c.pc \in {"test", "remove"} => c.name = "DeleteBucket"
  /\ c.pc \in {"check", "open", "place", "metadata"} => c.name = "PutObject"
  /\ c.pc \in {"find", "drop"} => c.name = "DeleteObject"
  /\ c.pc = "read" => c.name \notin {"PutObject", "DeleteObject"}

-----------------------------------------------------------------------------
(* The configuration.                                                      *)

\* While requests that change it do not overlap, there is one at most, which finds
\* it as it left it.
Lone == \A o, p \in Ops : Administers(o) /\ Administers(p) => o = p

\* The bucket is being created with versioning on, and exists already without.
Halfway(o) == /\ DefaultVersioning /\ op[o].name = "CreateBucket" /\ config = Disk!Fresh

Administering(o) ==
  LET c == op[o] IN
  /\ c.pc \in {"create", "set", "test", "remove"} => config \in held
  /\ c.pc = "default" => Halfway(o)
  /\ c.pc \in {"write", "commit"} =>
       IF c.name = "CreateBucket"
       THEN \/ config \in held /\ c.copy = Disk!Fresh
            \/ Halfway(o) /\ c.copy = [Disk!Fresh EXCEPT !["versioning"] = "Enabled"]
       ELSE config \in held /\ c.copy = Effect(o, config)
  /\ c.pc = "commit" => configTmp = c.copy

ConfigOK == ~ raced => /\ Lone
                       /\ \A o \in Ops : Administering(o)
                       /\ (\A o \in Ops : ~ Administers(o)) => config \in held

\* Before its operation.
Fore == {"internal", "preflight", "admit", "policy"}

\* What bucket.json is, a request may know it to be: it was acknowledged, or the
\* bucket is being created, and has as few settings as when there was none.
Expects(may) == config \in may \/ (config = Disk!Fresh /\ None \in may)

Creating(o) ==
  op[o].name = "CreateBucket" /\ op[o].pc \in {"write", "commit"} =>
    (config = None /\ op[o].copy = Disk!Fresh) \/ config = Disk!Fresh

Expected == ~ raced => /\ \A o \in Ops : Creating(o)
                       /\ Expects(held)
                       /\ \A o \in Ops : op[o].pc \in Fore => Expects(op[o].may)

-----------------------------------------------------------------------------
(* The puts.                                                               *)

Removing == \E d \in Ops : At(d, "remove")

Putting(o) ==
  LET c == op[o]
      f == files[o]
  IN  /\ c.pc \in {"idle", "internal", "preflight", "admit", "policy", "check", "open"} => f = "none"
      /\ c.pc = "place" => f = "tmp" \/ (c.exposed /\ f = "none")
      /\ c.pc = "metadata" => f = "data" \/ (c.exposed /\ f = "none")
      /\ c.pc = "done" /\ c.name = "PutObject" =>
           IF c.res \in {"ok", "BadDigest"}
           THEN /\ f \in {"object", "marked", "deleted"} \cup (IF c.exposed THEN {"bare", "none"} ELSE {})
                /\ Removing /\ ~ c.exposed => f = "deleted"
           ELSE f \in {"none", "tmp"}

-----------------------------------------------------------------------------
(* The counters.                                                           *)

Mine     == {o \in Ops : ~ At(o, "idle") /\ op[o].life = crashes}
Replied  == {o \in Mine : At(o, "done")}
Failed   == {o \in Replied : op[o].res \notin Granted}
LetIn    == {o \in Mine : op[o].passed}

Living(o) ==
  /\ ~ At(o, "idle") => op[o].life <= crashes
  /\ InFlight(o) => op[o].life = crashes
  /\ op[o].pc \in {"idle", "internal", "preflight", "admit", "policy"} => ~ op[o].passed

IInv == /\ TypeOK /\ (\A o \in Ops : Named(o)) /\ held # {} /\ ConfigOK /\ Expected
        /\ (\A o \in Ops : Putting(o)) /\ (\A o \in Ops : Living(o)) /\ MetricsAddUp

-----------------------------------------------------------------------------
(* How the state of a request changes.                                     *)

\* But for where it is and what it has read, the request is as it was.
Alike(c, d) == /\ d.req = c.req /\ d.name = c.name /\ d.life = c.life /\ d.passed = c.passed
               /\ d.res = c.res /\ d.exposed = c.exposed

LEMMA Moving ==
  ASSUME NEW r, IsRequest(r), NEW pc \in States,
         NEW d, d = [r EXCEPT !.pc = pc]
  PROVE  IsRequest(d) /\ Alike(r, d) /\ d.pc = pc /\ d.copy = r.copy
BY DEF IsRequest, Fields, Alike

Copied(r, pc, x) == [r EXCEPT !.copy = x, !.pc = pc]

LEMMA Copying ==
  ASSUME NEW r, IsRequest(r), NEW pc \in States, NEW x, NEW d, d = Copied(r, pc, x)
  PROVE  IsRequest(d) /\ Alike(r, d) /\ d.pc = pc /\ d.copy = x
BY DEF IsRequest, Fields, Alike, Copied

Known(r, name, who) == [r EXCEPT !.name = name, !.pc = "policy", !.who = who]

LEMMA Naming ==
  ASSUME NEW r, IsRequest(r), NEW name, NEW who, NEW d, d = Known(r, name, who)
  PROVE  /\ IsRequest(d) /\ d.pc = "policy" /\ d.life = r.life /\ d.passed = r.passed
         /\ d.exposed = r.exposed /\ d.res = r.res /\ d.may = r.may
BY DEF IsRequest, Fields, States, Known

Passed(r, pc) == [r EXCEPT !.passed = TRUE, !.pc = pc]

LEMMA Passing ==
  ASSUME NEW r, IsRequest(r), NEW pc \in States, NEW d, d = Passed(r, pc)
  PROVE  /\ IsRequest(d) /\ d.pc = pc /\ d.passed /\ d.req = r.req /\ d.name = r.name
         /\ d.life = r.life /\ d.exposed = r.exposed /\ d.res = r.res
BY DEF IsRequest, Fields, Passed

LEMMA Ending ==
  ASSUME TypeOK, NEW o \in Ops, NEW res \in Errors \cup Granted,
         NEW d, d = Done(o, res)
  PROVE  /\ IsRequest(d) /\ d.pc = "done" /\ d.req = op[o].req /\ d.name = op[o].name
         /\ d.life = op[o].life /\ d.passed = op[o].passed /\ d.res = res
         /\ d.exposed = (op[o].exposed \/ Removing)
<1>1. op[o].life \in Nat /\ op[o].passed \in BOOLEAN /\ op[o].exposed \in BOOLEAN
  BY DEF TypeOK, IsRequest, Fields
<1>2. "done" \in States
  BY DEF States
<1> QED
  BY <1>1, <1>2 DEF IsRequest, Fields, Done, Idle, Removing

LEMMA Refusing ==
  ASSUME TypeOK, NEW o \in Ops,
         NEW d, d = [Done(o, "refused") EXCEPT !.passed = TRUE]
  PROVE  /\ IsRequest(d) /\ d.pc = "done" /\ d.req = op[o].req /\ d.name = op[o].name
         /\ d.life = op[o].life /\ d.passed /\ d.res = "refused"
<1>1. op[o].life \in Nat /\ op[o].passed \in BOOLEAN /\ op[o].exposed \in BOOLEAN
  BY DEF TypeOK, IsRequest, Fields
<1>2. "done" \in States /\ "refused" \in Granted
  BY DEF States, Granted
<1> QED
  BY <1>1, <1>2 DEF IsRequest, Fields, Done, Idle, Removing

Arriving(req, pc) == [Idle EXCEPT !.req = req, !.may = held, !.life = crashes, !.pc = pc]

LEMMA Coming ==
  ASSUME TypeOK, NEW req, NEW pc \in States, NEW d, d = Arriving(req, pc)
  PROVE  /\ IsRequest(d) /\ d.pc = pc /\ d.name = None /\ d.life = crashes /\ ~ d.passed
         /\ d.res = None /\ ~ d.exposed /\ d.may = held
BY DEF TypeOK, IsRequest, Fields, Idle, Arriving

Exposed(r, may, x) == [r EXCEPT !.may = may, !.exposed = x]

LEMMA Exposing ==
  ASSUME NEW r, IsRequest(r), NEW may, NEW x \in BOOLEAN,
         NEW d, d = Exposed(r, may, x)
  PROVE  /\ IsRequest(d) /\ d.pc = r.pc /\ d.req = r.req /\ d.name = r.name /\ d.copy = r.copy
         /\ d.life = r.life /\ d.passed = r.passed /\ d.res = r.res /\ d.exposed = x /\ d.may = may
         /\ d.who = r.who
BY DEF IsRequest, Fields, Exposed

LEMMA Losing ==
  ASSUME TypeOK, NEW o \in Ops,
         NEW d, d = [Idle EXCEPT !.pc = "lost", !.req = op[o].req, !.life = op[o].life]
  PROVE  /\ IsRequest(d) /\ d.pc = "lost" /\ d.name = None /\ d.life = op[o].life /\ ~ d.passed
<1>1. op[o].life \in Nat
  BY DEF TypeOK, IsRequest, Fields
<1>2. "lost" \in States
  BY DEF States
<1> QED
  BY <1>1, <1>2 DEF IsRequest, Fields, Idle

\* The counters, field by field.
Counts(m, r, e, p, s) == m = [requests |-> r, errors |-> e, operations |-> p, statuses |-> s]

LEMMA Counting ==
  ASSUME NEW r \in Nat, NEW e \in Nat, NEW p \in Nat, NEW s \in Nat, NEW m, Counts(m, r, e, p, s), NEW n
  PROVE  /\ m \in Counters
         /\ n = [m EXCEPT !.requests = @ + 1] => Counts(n, r + 1, e, p, s)
         /\ n = [m EXCEPT !.statuses = @ + 1] => Counts(n, r, e, p, s + 1)
         /\ n = [m EXCEPT !.operations = @ + 1] => Counts(n, r, e, p + 1, s)
         /\ n = [m EXCEPT !.errors = @ + 1, !.statuses = @ + 1] => Counts(n, r, e + 1, p, s + 1)
         /\ n = [m EXCEPT !.operations = @ + 1, !.statuses = @ + 1] => Counts(n, r, e, p + 1, s + 1)
<1>1. m \in Counters
  BY DEF Counts, Counters
<1>2. ASSUME n = [m EXCEPT !.requests = @ + 1] PROVE Counts(n, r + 1, e, p, s)
  BY <1>2 DEF Counts
<1>3. ASSUME n = [m EXCEPT !.statuses = @ + 1] PROVE Counts(n, r, e, p, s + 1)
  BY <1>3 DEF Counts
<1>4. ASSUME n = [m EXCEPT !.operations = @ + 1] PROVE Counts(n, r, e, p + 1, s)
  BY <1>4 DEF Counts
<1>5. ASSUME n = [m EXCEPT !.errors = @ + 1, !.statuses = @ + 1] PROVE Counts(n, r, e + 1, p, s + 1)
  BY <1>5 DEF Counts
<1>6. ASSUME n = [m EXCEPT !.operations = @ + 1, !.statuses = @ + 1] PROVE Counts(n, r, e, p + 1, s + 1)
  BY <1>6 DEF Counts
<1> QED
  BY <1>1, <1>2, <1>3, <1>4, <1>5, <1>6, Zenon

\* Only request o changes.
Still(o) == /\ op' = [p \in Ops |-> op'[p]] /\ \A p \in Ops : IsRequest(op'[p])
            /\ \A p \in Ops : p # o => op'[p] = op[p]

LEMMA Written ==
  ASSUME TypeOK, NEW o \in Ops, NEW r, IsRequest(r), op' = [op EXCEPT ![o] = r]
  PROVE  op'[o] = r /\ Still(o)
<1>1. op = [p \in Ops |-> op[p]] /\ \A p \in Ops : IsRequest(op[p])
  BY DEF TypeOK
<1>2. op' = [p \in Ops |-> IF p = o THEN r ELSE op[p]]
  BY <1>1
<1> QED
  BY <1>1, <1>2 DEF Still

\* The five ways of a step: the request comes in, goes on, is let in by its policy,
\* ends, or is acknowledged.
Came(o) ==
  /\ Still(o) /\ At(o, "idle") /\ op'[o].pc \in {"internal", "preflight", "admit"}
  /\ op'[o].name = None /\ op'[o].life = crashes /\ ~ op'[o].passed /\ op'[o].may = held
  /\ metrics' = [metrics EXCEPT !.requests = @ + 1] /\ UNCHANGED <<disk, ghost>>

Went(o, pc) ==
  /\ Still(o) /\ op'[o].pc = pc /\ op'[o].copy = op[o].copy /\ Alike(op[o], op'[o])
  /\ UNCHANGED <<metrics, ghost>>

WentWith(o, pc, x) ==
  /\ Still(o) /\ op'[o].pc = pc /\ op'[o].copy = x /\ Alike(op[o], op'[o])
  /\ UNCHANGED <<metrics, ghost>>

Ends(o, res) ==
  /\ op'[o].pc = "done" /\ op'[o].req = op[o].req /\ op'[o].name = op[o].name
  /\ op'[o].life = op[o].life /\ op'[o].passed = op[o].passed /\ op'[o].res = res
  /\ op'[o].exposed = (op[o].exposed \/ Removing)

Granting(o, res) == /\ Still(o) /\ Ends(o, res) /\ UNCHANGED ghost
                    /\ metrics' = [metrics EXCEPT !.statuses = @ + 1]

Failing(o, res) == /\ Still(o) /\ Ends(o, res) /\ UNCHANGED ghost
                   /\ metrics' = [metrics EXCEPT !.errors = @ + 1, !.statuses = @ + 1]

Acked(o) ==
  /\ op' = [p \in Ops |-> op'[p]] /\ \A p \in Ops : IsRequest(op'[p])
  /\ Ends(o, "ok")
  /\ \A p \in Ops : p # o =>
       /\ op'[p].pc = op[p].pc /\ op'[p].copy = op[p].copy /\ op'[p].req = op[p].req
       /\ op'[p].name = op[p].name /\ op'[p].life = op[p].life
       /\ op'[p].passed = op[p].passed /\ op'[p].res = op[p].res /\ op'[p].who = op[p].who
       /\ op'[p].exposed = (op[p].exposed \/ (InFlight(p) /\ op[o].name = "DeleteBucket"))
       /\ InFlight(p) => op'[p].may = op[p].may \cup held'
  /\ held' = {Effect(o, c) : c \in held}
  /\ metrics' = [metrics EXCEPT !.statuses = @ + 1] /\ UNCHANGED <<raced, crashes>>

LEMMA GoesOn ==
  ASSUME TypeOK, NEW o \in Ops, NEW pc \in States, Goes(o, [op[o] EXCEPT !.pc = pc])
  PROVE  Went(o, pc)
<1> DEFINE d == [op[o] EXCEPT !.pc = pc]
<1>1. IsRequest(d) /\ Alike(op[o], d) /\ d.pc = pc /\ d.copy = op[o].copy
  BY Moving DEF TypeOK
<1>2. op' = [op EXCEPT ![o] = d] /\ UNCHANGED <<metrics, ghost>>
  BY DEF Goes, Becomes
<1> HIDE DEF d
<1> QED
  BY <1>1, <1>2, Written DEF Went

LEMMA GoesWith ==
  ASSUME TypeOK, NEW o \in Ops, NEW pc \in States, NEW x, Goes(o, [op[o] EXCEPT !.copy = x, !.pc = pc])
  PROVE  WentWith(o, pc, x)
<1> DEFINE d == Copied(op[o], pc, x)
<1>0. IsRequest(op[o])
  BY DEF TypeOK
<1>1. IsRequest(d) /\ Alike(op[o], d) /\ d.pc = pc /\ d.copy = x
  BY <1>0, Copying
<1>2. op' = [op EXCEPT ![o] = d] /\ UNCHANGED <<metrics, ghost>>
  BY DEF Goes, Becomes, Copied
<1> HIDE DEF d
<1> QED
  BY <1>1, <1>2, Written DEF WentWith

LEMMA EndsWith ==
  ASSUME TypeOK, NEW o \in Ops, NEW res \in Errors \cup Granted, op' = [op EXCEPT ![o] = Done(o, res)]
  PROVE  Still(o) /\ Ends(o, res)
<1> DEFINE d == Done(o, res)
<1>1. /\ IsRequest(d) /\ d.pc = "done" /\ d.req = op[o].req /\ d.name = op[o].name
      /\ d.life = op[o].life /\ d.passed = op[o].passed /\ d.res = res
      /\ d.exposed = (op[o].exposed \/ Removing)
  BY Ending
<1>2. op' = [op EXCEPT ![o] = d]
  OBVIOUS
<1> HIDE DEF d
<1> QED
  BY <1>1, <1>2, Written DEF Ends

LEMMA OkGrants ==
  ASSUME TypeOK, NEW o \in Ops, NEW res \in Granted, Ok(o, res)
  PROVE  Granting(o, res)
BY EndsWith DEF Ok, Answers, Granting

LEMMA FailsEnds ==
  ASSUME TypeOK, NEW o \in Ops, NEW code \in Errors, Fails(o, code)
  PROVE  Failing(o, code)
BY EndsWith DEF Fails, Failing

LEMMA AcksEnd ==
  ASSUME TypeOK, NEW o \in Ops, Acknowledges(o)
  PROVE  Acked(o)
<1>1. \A p \in Ops : IsRequest(op[p])
  BY DEF TypeOK
<1>2. op'[o] = Done(o, "ok") /\ op' = [p \in Ops |-> op'[p]]
  BY DEF Acknowledges
<1>3. "ok" \in Errors \cup Granted
  BY DEF Granted
<1>4. IsRequest(op'[o]) /\ Ends(o, "ok")
  BY <1>2, <1>3, Ending DEF Ends
<1>5. ASSUME NEW p \in Ops, p # o
      PROVE  /\ IsRequest(op'[p])
             /\ op'[p].pc = op[p].pc /\ op'[p].copy = op[p].copy /\ op'[p].req = op[p].req
             /\ op'[p].name = op[p].name /\ op'[p].life = op[p].life
             /\ op'[p].passed = op[p].passed /\ op'[p].res = op[p].res /\ op'[p].who = op[p].who
             /\ op'[p].exposed = (op[p].exposed \/ (InFlight(p) /\ op[o].name = "DeleteBucket"))
             /\ InFlight(p) => op'[p].may = op[p].may \cup held'
  <2>0. op[p].exposed \in BOOLEAN
    BY <1>1 DEF IsRequest
  <2>1. CASE ~ InFlight(p)
    <3>1. op'[p] = op[p]
      BY <1>5, <2>1 DEF Acknowledges
    <3> QED
      BY <1>1, <2>0, <2>1, <3>1
  <2>2. CASE InFlight(p)
    <3> DEFINE x == op[p].exposed \/ op[o].name = "DeleteBucket"
               m == op[p].may \cup held'
    <3>1. op'[p] = Exposed(op[p], m, x)
      BY <1>5, <2>2 DEF Acknowledges, Exposed
    <3>2. x \in BOOLEAN
      BY <2>0
    <3>3. /\ x = (op[p].exposed \/ (InFlight(p) /\ op[o].name = "DeleteBucket"))
          /\ m = op[p].may \cup held'
      BY <2>2
    <3> HIDE DEF x, m
    <3>4. /\ IsRequest(op'[p])
          /\ op'[p].pc = op[p].pc /\ op'[p].copy = op[p].copy /\ op'[p].req = op[p].req
          /\ op'[p].name = op[p].name /\ op'[p].life = op[p].life
          /\ op'[p].passed = op[p].passed /\ op'[p].res = op[p].res /\ op'[p].exposed = x
          /\ op'[p].may = m /\ op'[p].who = op[p].who
      <4>1. IsRequest(op[p])
        BY <1>1
      <4> QED
        BY <3>1, <3>2, <4>1, Exposing
    <3> QED
      BY <3>3, <3>4
  <2> QED
    BY <2>1, <2>2
<1> QED
  BY <1>2, <1>4, <1>5 DEF Acked, Acknowledges

\* Its operation is known, and its caller.
Learned(o) ==
  /\ Still(o) /\ At(o, "admit") /\ op'[o].pc = "policy" /\ op'[o].life = op[o].life
  /\ op'[o].passed = op[o].passed /\ op'[o].exposed = op[o].exposed /\ op'[o].may = op[o].may
  /\ UNCHANGED <<metrics, ghost>>

\* A hook answers it.
Turned(o) ==
  /\ Still(o) /\ At(o, "policy") /\ op'[o].pc = "done" /\ op'[o].life = op[o].life
  /\ op'[o].name = op[o].name /\ op'[o].passed /\ op'[o].res = "refused" /\ UNCHANGED ghost
  /\ metrics' = [metrics EXCEPT !.operations = @ + 1, !.statuses = @ + 1]

\* Its operation begins.
Entered(o) ==
  /\ Still(o) /\ At(o, "policy") /\ op'[o].pc = First(op[o].name) /\ op'[o].name = op[o].name
  /\ op'[o].req = op[o].req /\ op'[o].life = op[o].life /\ op'[o].passed
  /\ op'[o].exposed = op[o].exposed /\ metrics' = [metrics EXCEPT !.operations = @ + 1]
  /\ raced' = (raced \/ /\ First(op[o].name) \in {"create", "set", "test"}
                        /\ \E p \in Ops : Administers(p))
  /\ UNCHANGED <<held, crashes>>

Answered(o) == (\E res \in Granted : Granting(o, res)) \/ (\E code \in Errors : Failing(o, code))

LEMMA FirstState ==
  ASSUME NEW name
  PROVE  /\ First(name) \in {"create", "test", "set", "check", "find", "read"}
         /\ First(name) = "create" => name = "CreateBucket"
         /\ First(name) = "test" => name = "DeleteBucket"
         /\ First(name) = "set" => name \in Setters
         /\ First(name) = "check" => name = "PutObject"
         /\ First(name) = "find" => name = "DeleteObject"
         /\ First(name) = "read" => name \notin {"PutObject", "DeleteObject"}
<1>1. CASE name = "CreateBucket"
  BY <1>1 DEF First, Setters, Deleters
<1>2. CASE name = "DeleteBucket"
  BY <1>2 DEF First, Setters, Deleters
<1>3. CASE name \in Setters
  BY <1>3 DEF First, Setters, Deleters
<1>4. CASE name = "PutObject"
  BY <1>4 DEF First, Setters, Deleters
<1>5. CASE name = "DeleteObject"
  BY <1>5 DEF First, Setters, Deleters
<1>6. CASE name \notin Setters \cup {"CreateBucket", "DeleteBucket", "PutObject", "DeleteObject"}
  BY <1>6 DEF First
<1> QED
  BY <1>1, <1>2, <1>3, <1>4, <1>5, <1>6

LEMMA Refused ==
  ASSUME NEW a, NEW users, NEW anonymous
  PROVE  LET e == VerifyRequest(a, users, anonymous).error IN e = "none" \/ e \in Errors
BY DEF VerifyRequest, Denied, Accepted, Errors, Refusals

\* Up to the operation no file changes.
LEMMA EarlySteps ==
  ASSUME TypeOK, NEW o \in Ops, Receive(o) \/ Internal(o) \/ Preflight(o) \/ Admit(o) \/ EnforcePolicy(o)
  PROVE  /\ UNCHANGED disk
         /\ \/ Came(o)
            \/ /\ op[o].pc \in Fore /\ Answered(o)
               /\ At(o, "policy") => \E code \in {"AccessDenied", "InternalError"} : Failing(o, code)
            \/ Learned(o)
            \/ Turned(o)
            \/ Entered(o)
<1>0. IsRequest(op[o])
  BY DEF TypeOK
<1>1. CASE Receive(o)
  <2>1. PICK r \in Menu :
          Becomes(o, [Idle EXCEPT !.req = r, !.may = held, !.life = crashes,
                                  !.pc = CASE r.internal -> "internal"
                                           [] ~ r.internal /\ r.method = "OPTIONS" -> "preflight"
                                           [] OTHER -> "admit"])
    BY <1>1 DEF Receive
  <2>2. PICK pc : pc = CASE r.internal -> "internal"
                         [] ~ r.internal /\ r.method = "OPTIONS" -> "preflight"
                         [] OTHER -> "admit"
    OBVIOUS
  <2>3. pc \in {"internal", "preflight", "admit"} /\ pc \in States
    <3>1. CASE r.internal
      BY <2>2, <3>1 DEF States
    <3>2. CASE ~ r.internal /\ r.method = "OPTIONS"
      BY <2>2, <3>2 DEF States
    <3>3. CASE ~ r.internal /\ r.method # "OPTIONS"
      BY <2>2, <3>3 DEF States
    <3> QED
      BY <3>1, <3>2, <3>3
  <2>4. op' = [op EXCEPT ![o] = Arriving(r, pc)]
    BY <2>1, <2>2 DEF Becomes, Arriving
  <2>5. PICK d : d = Arriving(r, pc)
    OBVIOUS
  <2>6. /\ IsRequest(d) /\ d.pc = pc /\ d.name = None /\ d.life = crashes /\ ~ d.passed
        /\ d.res = None /\ ~ d.exposed /\ d.may = held
    BY <2>3, <2>5, Coming
  <2>7. op'[o] = d /\ Still(o)
    BY <2>4, <2>5, <2>6, Written
  <2>8. Came(o)
    BY <1>1, <2>3, <2>6, <2>7 DEF Came, Receive
  <2> QED
    BY <1>1, <2>8 DEF Receive
<1>2. CASE Internal(o)
  <2>1. "ok" \in Granted /\ "InternalFailed" \in Errors
    BY DEF Granted, Errors
  <2> QED
    BY <1>2, <2>1, OkGrants, FailsEnds DEF Internal, Answered, Fore, At
<1>3. CASE Preflight(o)
  <2>1. "ok" \in Granted /\ "bad request" \in Granted /\ "AccessForbidden" \in Errors
    BY DEF Granted, Errors
  <2>2. Ok(o, "ok") \/ Ok(o, "bad request") \/ Fails(o, "AccessForbidden")
    BY <1>3 DEF Preflight
  <2> QED
    BY <1>3, <2>1, <2>2, OkGrants, FailsEnds DEF Preflight, Answered, Fore, At
<1>4. CASE Admit(o)
  <2> DEFINE r      == op[o].req
             caller == VerifyRequest(r.auth, Users, Anonymous)
  <2>1. NotAllowed \in Errors /\ (caller.error = "none" \/ caller.error \in Errors)
    BY Refused DEF NotAllowed, Errors
  <2>2. At(o, "admit") /\ UNCHANGED disk
    BY <1>4 DEF Admit
  <2>3. \/ Fails(o, NotAllowed)
        \/ caller.error # "none" /\ Fails(o, caller.error)
        \/ Goes(o, [op[o] EXCEPT !.name = Dispatch(r), !.pc = "policy", !.who = caller.principal])
    BY <1>4 DEF Admit
  <2> HIDE DEF caller
  <2>4. CASE Goes(o, [op[o] EXCEPT !.name = Dispatch(r), !.pc = "policy", !.who = caller.principal])
    <3>1. PICK d : d = Known(op[o], Dispatch(r), caller.principal)
      OBVIOUS
    <3>2. op' = [op EXCEPT ![o] = d] /\ UNCHANGED <<metrics, ghost>>
      BY <2>4, <3>1 DEF Goes, Becomes, Known
    <3>3. /\ IsRequest(d) /\ d.pc = "policy" /\ d.life = op[o].life /\ d.passed = op[o].passed
          /\ d.exposed = op[o].exposed /\ d.res = op[o].res /\ d.may = op[o].may
      BY <1>0, <3>1, Naming
    <3>4. op'[o] = d /\ Still(o)
      BY <3>2, <3>3, Written
    <3> QED
      BY <2>2, <3>2, <3>3, <3>4 DEF Learned
  <2>5. CASE \E code \in Errors : Fails(o, code)
    BY <2>2, <2>5, FailsEnds DEF Answered, Fore, At
  <2> QED
    BY <2>1, <2>3, <2>4, <2>5
<1>5. CASE EnforcePolicy(o)
  <2>1. At(o, "policy") /\ UNCHANGED disk
    BY <1>5 DEF EnforcePolicy
  <2>2. "AccessDenied" \in Errors /\ "InternalError" \in Errors
    BY DEF Errors, Refusals
  <2>3. \/ Fails(o, "AccessDenied")
        \/ Fails(o, "InternalError")
        \/ /\ op' = [op EXCEPT ![o] = [Done(o, "refused") EXCEPT !.passed = TRUE]]
           /\ metrics' = [metrics EXCEPT !.operations = @ + 1, !.statuses = @ + 1]
           /\ UNCHANGED ghost
        \/ /\ Becomes(o, [op[o] EXCEPT !.passed = TRUE, !.pc = First(op[o].name)])
           /\ metrics' = [metrics EXCEPT !.operations = @ + 1]
           /\ raced' = (raced \/ /\ First(op[o].name) \in {"create", "set", "test"}
                                 /\ \E p \in Ops : Administers(p))
           /\ UNCHANGED <<held, crashes>>
    <3>1. metrics \in Counters
      BY DEF TypeOK
    <3>2. [[metrics EXCEPT !.operations = @ + 1] EXCEPT !.statuses = @ + 1]
            = [metrics EXCEPT !.operations = @ + 1, !.statuses = @ + 1]
      BY <3>1 DEF Counters
    <3> QED
      BY <1>5, <3>2 DEF EnforcePolicy
  <2>4. CASE Fails(o, "AccessDenied") \/ Fails(o, "InternalError")
    <3>1. PICK code \in {"AccessDenied", "InternalError"} : Failing(o, code)
      BY <2>2, <2>4, FailsEnds
    <3> QED
      BY <2>1, <2>2, <3>1 DEF Answered, Fore, At
  <2>5. ASSUME op' = [op EXCEPT ![o] = [Done(o, "refused") EXCEPT !.passed = TRUE]], UNCHANGED ghost,
               metrics' = [metrics EXCEPT !.operations = @ + 1, !.statuses = @ + 1]
        PROVE  Turned(o)
    <3>1. PICK d : d = [Done(o, "refused") EXCEPT !.passed = TRUE]
      OBVIOUS
    <3>2. /\ IsRequest(d) /\ d.pc = "done" /\ d.req = op[o].req /\ d.name = op[o].name
          /\ d.life = op[o].life /\ d.passed /\ d.res = "refused"
      BY <3>1, Refusing
    <3>3. op'[o] = d /\ Still(o)
      BY <2>5, <3>1, <3>2, Written
    <3> QED
      BY <2>1, <2>5, <3>2, <3>3 DEF Turned
  <2>6. ASSUME Becomes(o, [op[o] EXCEPT !.passed = TRUE, !.pc = First(op[o].name)]),
               metrics' = [metrics EXCEPT !.operations = @ + 1],
               raced' = (raced \/ /\ First(op[o].name) \in {"create", "set", "test"}
                                  /\ \E p \in Ops : Administers(p)),
               UNCHANGED <<held, crashes>>
        PROVE  Entered(o)
    <3>1. PICK pc : pc = First(op[o].name)
      OBVIOUS
    <3>2. pc \in States
      BY <3>1, FirstState DEF States
    <3>3. PICK d : d = Passed(op[o], pc)
      OBVIOUS
    <3>4. op' = [op EXCEPT ![o] = d]
      BY <2>6, <3>1, <3>3 DEF Becomes, Passed
    <3>5. /\ IsRequest(d) /\ d.pc = pc /\ d.passed /\ d.req = op[o].req /\ d.name = op[o].name
          /\ d.life = op[o].life /\ d.exposed = op[o].exposed
      BY <1>0, <3>2, <3>3, Passing
    <3>6. op'[o] = d /\ Still(o)
      BY <3>4, <3>5, Written
    <3> QED
      BY <2>1, <2>6, <3>1, <3>5, <3>6 DEF Entered
  <2> QED
    BY <2>1, <2>3, <2>4, <2>5, <2>6
<1> QED
  BY <1>1, <1>2, <1>3, <1>4, <1>5

\* The operations, step by step.
LEMMA ConfigSteps ==
  ASSUME TypeOK, NEW o \in Ops
  PROVE  /\ Create(o) =>
              /\ At(o, "create") /\ UNCHANGED disk
              /\ \/ config # None /\ Failing(o, "BucketAlreadyExists")
                 \/ config = None /\ WentWith(o, "write", Disk!Fresh)
         /\ Default(o) =>
              /\ At(o, "default") /\ UNCHANGED disk
              /\ \/ config = None /\ Failing(o, "NoSuchBucket")
                 \/ config # None /\ WentWith(o, "write", [config EXCEPT !["versioning"] = "Enabled"])
         /\ Set(o) =>
              /\ At(o, "set") /\ UNCHANGED disk
              /\ \/ \E code \in Errors : Failing(o, code)
                 \/ config # None /\ WentWith(o, "write", Effect(o, config))
         /\ Write(o) => At(o, "write") /\ Disk!WriteConfig(op[o].copy) /\ Went(o, "commit")
         /\ Commit(o) =>
              /\ At(o, "commit")
              /\ \/ configTmp = None /\ UNCHANGED disk /\ Failing(o, "InternalError")
                 \/ /\ Disk!CommitConfig
                    /\ op[o].name = "CreateBucket" /\ DefaultVersioning /\ op[o].copy = Disk!Fresh
                    /\ Went(o, "default")
                 \/ /\ Disk!CommitConfig
                    /\ op[o].name = "CreateBucket" /\ DefaultVersioning => op[o].copy # Disk!Fresh
                    /\ Acked(o)
         /\ Test(o) =>
              /\ At(o, "test") /\ UNCHANGED disk
              /\ \/ \E code \in Errors : Failing(o, code)
                 \/ Disk!Empty /\ Went(o, "remove")
         /\ RemoveAll(o) => At(o, "remove") /\ Disk!RemoveBucket /\ Acked(o)
<1>0. {"write", "commit", "default", "remove"} \subseteq States
  BY DEF States
<1>c. {"BucketAlreadyExists", "NoSuchBucket", "InternalError", "BucketNotEmpty", "Malformed"} \subseteq Errors
  BY DEF Errors
<1>1. ASSUME Create(o) PROVE /\ At(o, "create") /\ UNCHANGED disk
                             /\ \/ config # None /\ Failing(o, "BucketAlreadyExists")
                                \/ config = None /\ WentWith(o, "write", Disk!Fresh)
  <2>1. CASE config # None
    BY <1>1, <1>c, <2>1, FailsEnds DEF Create
  <2>2. CASE config = None
    <3>1. PICK x : x = Disk!Fresh
      OBVIOUS
    <3>2. Goes(o, [op[o] EXCEPT !.copy = x, !.pc = "write"])
      BY <1>1, <2>2, <3>1 DEF Create
    <3>3. WentWith(o, "write", x)
      BY <1>0, <3>2, GoesWith
    <3> QED
      BY <1>1, <2>2, <3>1, <3>3 DEF Create
  <2> QED
    BY <2>1, <2>2
<1>2. ASSUME Default(o)
      PROVE  /\ At(o, "default") /\ UNCHANGED disk
             /\ \/ config = None /\ Failing(o, "NoSuchBucket")
                \/ config # None /\ WentWith(o, "write", [config EXCEPT !["versioning"] = "Enabled"])
  <2>1. CASE config = None
    BY <1>2, <1>c, <2>1, FailsEnds DEF Default
  <2>2. CASE config # None
    <3>1. PICK x : x = [config EXCEPT !["versioning"] = "Enabled"]
      OBVIOUS
    <3>2. Goes(o, [op[o] EXCEPT !.copy = x, !.pc = "write"])
      BY <1>2, <2>2, <3>1 DEF Default
    <3>3. WentWith(o, "write", x)
      BY <1>0, <3>2, GoesWith
    <3> QED
      BY <1>2, <2>2, <3>1, <3>3 DEF Default
  <2> QED
    BY <2>1, <2>2
<1>3. ASSUME Set(o)
      PROVE  /\ At(o, "set") /\ UNCHANGED disk
             /\ \/ \E code \in Errors : Failing(o, code)
                \/ config # None /\ WentWith(o, "write", Effect(o, config))
  <2>1. PICK x : x = Effect(o, config)
    OBVIOUS
  <2>2. \/ \E code \in Errors : Fails(o, code)
        \/ config # None /\ Goes(o, [op[o] EXCEPT !.copy = x, !.pc = "write"])
    BY <1>3, <1>c, <2>1 DEF Set
  <2>3. \/ \E code \in Errors : Failing(o, code)
        \/ config # None /\ WentWith(o, "write", x)
    BY <1>0, <2>2, FailsEnds, GoesWith
  <2> QED
    BY <1>3, <2>1, <2>3 DEF Set
<1>4. ASSUME Write(o) PROVE At(o, "write") /\ Disk!WriteConfig(op[o].copy) /\ Went(o, "commit")
  BY <1>0, <1>4, GoesOn DEF Write
<1>5. ASSUME Commit(o)
      PROVE  /\ At(o, "commit")
             /\ \/ configTmp = None /\ UNCHANGED disk /\ Failing(o, "InternalError")
                \/ /\ Disk!CommitConfig
                   /\ op[o].name = "CreateBucket" /\ DefaultVersioning /\ op[o].copy = Disk!Fresh
                   /\ Went(o, "default")
                \/ /\ Disk!CommitConfig
                   /\ op[o].name = "CreateBucket" /\ DefaultVersioning => op[o].copy # Disk!Fresh
                   /\ Acked(o)
  <2>1. CASE configTmp = None
    BY <1>5, <1>c, <2>1, FailsEnds DEF Commit
  <2>2. CASE configTmp # None /\ op[o].name = "CreateBucket" /\ DefaultVersioning /\ op[o].copy = Disk!Fresh
    BY <1>0, <1>5, <2>2, GoesOn DEF Commit
  <2>3. CASE configTmp # None /\ ~ (op[o].name = "CreateBucket" /\ DefaultVersioning /\ op[o].copy = Disk!Fresh)
    BY <1>5, <2>3, AcksEnd DEF Commit
  <2> QED
    BY <2>1, <2>2, <2>3
<1>6. ASSUME Test(o)
      PROVE  /\ At(o, "test") /\ UNCHANGED disk
             /\ \/ \E code \in Errors : Failing(o, code)
                \/ Disk!Empty /\ Went(o, "remove")
  BY <1>0, <1>c, <1>6, FailsEnds, GoesOn DEF Test
<1>7. ASSUME RemoveAll(o) PROVE At(o, "remove") /\ Disk!RemoveBucket /\ Acked(o)
  BY <1>7, AcksEnd DEF RemoveAll
<1> QED
  BY <1>1, <1>2, <1>3, <1>4, <1>5, <1>6, <1>7

LEMMA ObjectSteps ==
  ASSUME TypeOK, NEW o \in Ops
  PROVE  /\ PutCheck(o) =>
              At(o, "check") /\ UNCHANGED disk /\ (Failing(o, "NoSuchBucket") \/ Went(o, "open"))
         /\ PutOpen(o) => At(o, "open") /\ Disk!OpenUpload(o) /\ Went(o, "place")
         /\ PutPlace(o) =>
              /\ At(o, "place")
              /\ \/ Disk!PlaceUpload(o) /\ Went(o, "metadata")
                 \/ UNCHANGED disk /\ Failing(o, "InternalError")
         /\ PutMetadata(o) =>
              /\ At(o, "metadata") /\ Disk!CommitUpload(o)
              /\ Failing(o, "BadDigest") \/ Granting(o, "ok")
         /\ DeleteFind(o) =>
              At(o, "find") /\ UNCHANGED disk /\ (Failing(o, "NoSuchBucket") \/ WentWith(o, "drop", config))
         /\ DeleteDrop(o) =>
              /\ At(o, "drop") /\ Granting(o, "ok")
              /\ \E versioned \in BOOLEAN : \/ \E p \in Ops : Disk!DeleteUpload(p, versioned)
                                            \/ Disk!DeleteMissing(o, versioned)
         /\ Read(o) => At(o, "read") /\ UNCHANGED disk /\ Answered(o)
<1>0. {"open", "place", "metadata", "drop"} \subseteq States /\ "ok" \in Granted
  BY DEF States, Granted
<1>c. {"NoSuchBucket", "InternalError", "BadDigest", "NotFound"} \subseteq Errors
  BY DEF Errors
<1>1. ASSUME PutCheck(o)
      PROVE  At(o, "check") /\ UNCHANGED disk /\ (Failing(o, "NoSuchBucket") \/ Went(o, "open"))
  BY <1>0, <1>c, <1>1, FailsEnds, GoesOn DEF PutCheck
<1>2. ASSUME PutOpen(o) PROVE At(o, "open") /\ Disk!OpenUpload(o) /\ Went(o, "place")
  BY <1>0, <1>2, GoesOn DEF PutOpen
<1>3. ASSUME PutPlace(o)
      PROVE  /\ At(o, "place")
             /\ \/ Disk!PlaceUpload(o) /\ Went(o, "metadata")
                \/ UNCHANGED disk /\ Failing(o, "InternalError")
  BY <1>0, <1>c, <1>3, FailsEnds, GoesOn DEF PutPlace
<1>4. ASSUME PutMetadata(o)
      PROVE  At(o, "metadata") /\ Disk!CommitUpload(o) /\ (Failing(o, "BadDigest") \/ Granting(o, "ok"))
  BY <1>0, <1>c, <1>4, FailsEnds, OkGrants DEF PutMetadata
<1>5. ASSUME DeleteFind(o)
      PROVE  At(o, "find") /\ UNCHANGED disk /\ (Failing(o, "NoSuchBucket") \/ WentWith(o, "drop", config))
  BY <1>0, <1>c, <1>5, FailsEnds, GoesWith DEF DeleteFind
<1>6. ASSUME DeleteDrop(o)
      PROVE  /\ At(o, "drop") /\ Granting(o, "ok")
             /\ \E versioned \in BOOLEAN : \/ \E p \in Ops : Disk!DeleteUpload(p, versioned)
                                           \/ Disk!DeleteMissing(o, versioned)
  <2> DEFINE versioned == op[o].copy["versioning"] = "Enabled"
  <2>1. versioned \in BOOLEAN
    OBVIOUS
  <2>2. (\E p \in Ops : Disk!DeleteUpload(p, versioned)) \/ Disk!DeleteMissing(o, versioned)
    BY <1>6 DEF DeleteDrop
  <2> HIDE DEF versioned
  <2> QED
    BY <1>0, <1>6, <2>1, <2>2, OkGrants DEF DeleteDrop
<1>7. ASSUME Read(o) PROVE At(o, "read") /\ UNCHANGED disk /\ Answered(o)
  <2>1. Ok(o, "ok") \/ Fails(o, "NotFound")
    BY <1>7 DEF Read
  <2> QED
    BY <1>0, <1>c, <1>7, <2>1, FailsEnds, OkGrants DEF Read, Answered
<1> QED
  BY <1>1, <1>2, <1>3, <1>4, <1>5, <1>6, <1>7

Hind == {"create", "default", "set", "write", "commit", "test", "remove", "check", "open",
         "place", "metadata", "find", "drop", "read"}

Onward(o) == /\ Still(o) /\ op[o].pc \in Hind /\ op'[o].pc \in Hind /\ Alike(op[o], op'[o])
             /\ UNCHANGED <<metrics, ghost>>

LEMMA Ways ==
  ASSUME TypeOK, NEW o \in Ops, Step(o)
  PROVE  \/ Came(o)
         \/ op[o].pc \in Fore \cup Hind /\ Answered(o)
         \/ Learned(o)
         \/ Turned(o)
         \/ Entered(o)
         \/ Onward(o)
         \/ op[o].pc \in Hind /\ Acked(o)
<1>0. {"ok"} \subseteq Granted /\ {"BucketAlreadyExists", "NoSuchBucket", "InternalError", "BadDigest"} \subseteq Errors
  BY DEF Granted, Errors
<1>1. CASE Receive(o) \/ Internal(o) \/ Preflight(o) \/ Admit(o) \/ EnforcePolicy(o)
  BY <1>1, EarlySteps
<1>w. ASSUME NEW pc \in Hind, op[o].pc \in Hind, Went(o, pc) PROVE Onward(o)
  BY <1>w DEF Went, Onward
<1>x. ASSUME NEW pc \in Hind, NEW x, op[o].pc \in Hind, WentWith(o, pc, x) PROVE Onward(o)
  BY <1>x DEF WentWith, Onward
<1>h. {"open", "place", "metadata", "drop", "write", "commit", "default", "remove"} \subseteq Hind
  BY DEF Hind
<1>2. CASE Create(o) \/ Default(o) \/ Set(o) \/ Write(o) \/ Commit(o) \/ Test(o) \/ RemoveAll(o)
  <2>1. op[o].pc \in Hind
    BY <1>2, ConfigSteps DEF At, Hind
  <2>2. CASE Create(o) \/ Default(o) \/ Set(o)
    BY <1>0, <1>h, <1>x, <2>1, <2>2, ConfigSteps DEF Answered
  <2>3. CASE Write(o) \/ Commit(o) \/ Test(o) \/ RemoveAll(o)
    BY <1>0, <1>h, <1>w, <2>1, <2>3, ConfigSteps DEF Answered
  <2> QED
    BY <1>2, <2>2, <2>3
<1>3. CASE \/ PutCheck(o) \/ PutOpen(o) \/ PutPlace(o) \/ PutMetadata(o)
           \/ DeleteFind(o) \/ DeleteDrop(o) \/ Read(o)
  <2>1. op[o].pc \in Hind
    BY <1>3, ObjectSteps DEF At, Hind
  <2>2. CASE PutCheck(o) \/ PutOpen(o) \/ PutPlace(o)
    BY <1>0, <1>h, <1>w, <2>1, <2>2, ObjectSteps DEF Answered
  <2>3. CASE PutMetadata(o) \/ DeleteFind(o) \/ DeleteDrop(o) \/ Read(o)
    BY <1>0, <1>h, <1>x, <2>1, <2>3, ObjectSteps DEF Answered
  <2> QED
    BY <1>3, <2>2, <2>3
<1> QED
  BY <1>1, <1>2, <1>3 DEF Step

\* What a step does to the files stays within their stages.
LEMMA FilesType ==
  ASSUME TypeOK, NEW o \in Ops, Step(o)
  PROVE  files' \in [Ops -> Disk!Stages]
<1>0. files \in [Ops -> Disk!Stages]
  BY DEF TypeOK
<1>1. CASE UNCHANGED disk
  BY <1>0, <1>1 DEF disk
<1>2. ASSUME NEW p \in Ops, NEW stage \in Disk!Stages, Disk!Leave(p, stage) PROVE files' \in [Ops -> Disk!Stages]
  BY <1>0, <1>2 DEF Disk!Leave
<1>3. {"none", "tmp", "data", "object", "bare", "marked", "deleted"} = Disk!Stages
  BY DEF Disk!Stages
<1>4. CASE Receive(o) \/ Internal(o) \/ Preflight(o) \/ Admit(o) \/ EnforcePolicy(o)
  BY <1>1, <1>4, EarlySteps
<1>5. CASE Create(o) \/ Default(o) \/ Set(o) \/ Write(o) \/ Commit(o) \/ Test(o)
  BY <1>0, <1>1, <1>5, ConfigSteps DEF Disk!WriteConfig, Disk!CommitConfig
<1>6. CASE RemoveAll(o)
  BY <1>0, <1>3, <1>6, ConfigSteps DEF Disk!RemoveBucket
<1>7. CASE PutCheck(o) \/ PutPlace(o) \/ DeleteFind(o) \/ Read(o)
  BY <1>0, <1>1, <1>2, <1>3, <1>7, ObjectSteps DEF Disk!PlaceUpload
<1>8. CASE PutOpen(o) \/ PutMetadata(o)
  <2>1. \E stage \in Disk!Stages : Disk!Leave(o, stage)
    BY <1>3, <1>8, ObjectSteps DEF Disk!OpenUpload, Disk!CommitUpload
  <2> QED
    BY <1>2, <2>1
<1>9. CASE DeleteDrop(o)
  <2>1. UNCHANGED disk \/ \E p \in Ops, stage \in Disk!Stages : Disk!Leave(p, stage)
    BY <1>3, <1>9, ObjectSteps DEF Disk!DeleteUpload, Disk!DeleteMissing, Disk!disk, disk
  <2> QED
    BY <1>1, <1>2, <2>1
<1> QED
  BY <1>4, <1>5, <1>6, <1>7, <1>8, <1>9 DEF Step

LEMMA StepType == ASSUME TypeOK, NEW o \in Ops, Step(o) PROVE TypeOK'
<1>0. /\ metrics \in Counters
      /\ raced \in BOOLEAN /\ crashes \in Nat
  BY DEF TypeOK
<1>1. op' = [p \in Ops |-> op'[p]] /\ \A p \in Ops : IsRequest(op'[p])
  BY Ways DEF Came, Answered, Granting, Failing, Learned, Turned, Entered, Onward, Acked, Still
<1>2. metrics' \in Counters
  <2>1. PICK r, e, p, s \in Nat : Counts(metrics, r, e, p, s)
    BY <1>0 DEF Counters, Counts
  <2>2. PICK n : n = metrics'
    OBVIOUS
  <2>3. \/ n = metrics
        \/ n = [metrics EXCEPT !.requests = @ + 1]
        \/ n = [metrics EXCEPT !.statuses = @ + 1]
        \/ n = [metrics EXCEPT !.operations = @ + 1]
        \/ n = [metrics EXCEPT !.errors = @ + 1, !.statuses = @ + 1]
        \/ n = [metrics EXCEPT !.operations = @ + 1, !.statuses = @ + 1]
    BY <2>2, Ways DEF Came, Answered, Granting, Failing, Learned, Turned, Entered, Onward, Acked
  <2>4. \E a, b, c, d \in Nat : Counts(n, a, b, c, d)
    <3>1. {r + 1, e + 1, p + 1, s + 1} \subseteq Nat
      OBVIOUS
    <3>2. \/ Counts(n, r, e, p, s)
          \/ Counts(n, r + 1, e, p, s)
          \/ Counts(n, r, e, p, s + 1)
          \/ Counts(n, r, e, p + 1, s)
          \/ Counts(n, r, e + 1, p, s + 1)
          \/ Counts(n, r, e, p + 1, s + 1)
      BY <2>1, <2>3, Counting, Zenon
    <3> QED
      BY <3>1, <3>2
  <2> QED
    BY <2>2, <2>4, Counting
<1>3. raced' \in BOOLEAN /\ crashes' \in Nat
  BY <1>0, Ways DEF Came, Answered, Granting, Failing, Learned, Turned, Entered, Onward, Acked, ghost
<1> QED
  BY <1>1, <1>2, <1>3, FilesType DEF TypeOK

LEMMA StepNamed ==
  ASSUME TypeOK, \A p \in Ops : Named(p), NEW o \in Ops, Step(o)
  PROVE  \A p \in Ops : Named(p)'
<1>1. ASSUME NEW p \in Ops, p # o PROVE Named(p)'
  <2>1. op'[p].pc = op[p].pc /\ op'[p].name = op[p].name
    BY <1>1, Ways DEF Came, Answered, Granting, Failing, Learned, Turned, Entered, Onward, Acked, Still
  <2> QED
    BY <2>1 DEF Named
<1>2. Named(o)'
  <2>1. CASE Came(o) \/ Answered(o) \/ Learned(o) \/ Turned(o) \/ Acked(o)
    BY <2>1 DEF Came, Answered, Granting, Failing, Ends, Learned, Turned, Acked, Named
  <2>2. CASE Entered(o)
    BY <2>2, FirstState DEF Entered, Named
  <2>3. CASE Create(o) \/ Default(o) \/ Set(o)
    BY <2>1, <2>3, ConfigSteps DEF Answered, WentWith, Alike, Named, At, Failing, Ends
  <2>4. CASE Write(o) \/ Commit(o) \/ Test(o) \/ RemoveAll(o)
    BY <2>1, <2>4, ConfigSteps DEF Answered, Went, Alike, Named, At, Failing, Ends
  <2>5. CASE PutCheck(o) \/ PutOpen(o) \/ PutPlace(o) \/ PutMetadata(o)
    BY <2>1, <2>5, ObjectSteps DEF Answered, Went, Alike, Named, At, Failing, Granting, Ends
  <2>6. CASE DeleteFind(o) \/ DeleteDrop(o) \/ Read(o)
    BY <2>1, <2>6, ObjectSteps DEF Answered, WentWith, Alike, Named, At, Failing, Granting, Ends
  <2>7. CASE Receive(o) \/ Internal(o) \/ Preflight(o) \/ Admit(o) \/ EnforcePolicy(o)
    BY <2>1, <2>2, <2>7, EarlySteps
  <2> QED
    BY <2>3, <2>4, <2>5, <2>6, <2>7 DEF Step
<1> QED
  BY <1>1, <1>2

-----------------------------------------------------------------------------
(* bucket.json.                                                            *)

\* The other requests stay where they are.
LEMMA Others ==
  ASSUME TypeOK, NEW o \in Ops, Step(o), NEW p \in Ops, p # o
  PROVE  /\ op'[p].pc = op[p].pc /\ op'[p].name = op[p].name /\ op'[p].copy = op[p].copy
         /\ op'[p].req = op[p].req /\ op'[p].life = op[p].life /\ op'[p].passed = op[p].passed
         /\ op'[p].res = op[p].res /\ op'[p].who = op[p].who
BY Ways DEF Came, Answered, Granting, Failing, Learned, Turned, Entered, Onward, Acked, Still

\* A step of a request that does not change the configuration.
LEMMA Bystander ==
  ASSUME TypeOK, ConfigOK, NEW o \in Ops, Step(o), ~ Administers(o), ~ Administers(o)',
         config' = config, configTmp' = configTmp, held' = held, ~ raced' => ~ raced
  PROVE  ConfigOK'
<1> SUFFICES ASSUME ~ raced'
             PROVE  /\ Lone'
                    /\ \A p \in Ops : Administering(p)'
                    /\ (\A p \in Ops : ~ Administers(p)') => config' \in held'
  BY DEF ConfigOK
<1>1. /\ Lone /\ \A p \in Ops : Administering(p)
      /\ (\A p \in Ops : ~ Administers(p)) => config \in held
  BY DEF ConfigOK
<1>2. \A p \in Ops : Administers(p)' <=> Administers(p)
  BY Others DEF Administers
<1>3. ASSUME NEW p \in Ops, p # o PROVE Administering(p)'
  <2>1. op'[p].pc = op[p].pc /\ op'[p].name = op[p].name /\ op'[p].copy = op[p].copy /\ op'[p].req = op[p].req
    BY <1>3, Others
  <2> QED
    BY <1>1, <2>1 DEF Administering, Halfway, Effect, NewValue
<1>4. Administering(o)'
  BY DEF Administering, Administers
<1> QED
  BY <1>1, <1>2, <1>3, <1>4 DEF Lone

\* A step of the one request that changes it.
LEMMA Alone ==
  ASSUME TypeOK, ~ raced, ConfigOK, NEW o \in Ops, Step(o), Administers(o), Administering(o)',
         ~ Administers(o)' => config' \in held'
  PROVE  ConfigOK'
<1>1. \A p \in Ops : p # o => ~ Administers(p)
  BY DEF ConfigOK, Lone
<1>2. \A p \in Ops : p # o => ~ Administers(p)'
  BY <1>1, Others DEF Administers
<1>3. \A p \in Ops : p # o => Administering(p)'
  BY <1>2 DEF Administering, Administers
<1> QED
  BY <1>2, <1>3 DEF ConfigOK, Lone

LEMMA AckedEffects ==
  ASSUME NEW o \in Ops, Acked(o), held # {}
  PROVE  held' # {}
BY DEF Acked

LEMMA HeldStays == ASSUME TypeOK, held # {}, NEW o \in Ops, Step(o) PROVE held' # {} /\ (raced => raced')
<1>1. CASE Acked(o)
  BY <1>1, AckedEffects DEF Acked
<1>2. CASE Entered(o)
  BY <1>2 DEF Entered
<1>3. CASE Came(o) \/ Answered(o) \/ Learned(o) \/ Turned(o) \/ Onward(o)
  BY <1>3 DEF Came, Answered, Granting, Failing, Learned, Turned, Onward, ghost
<1> QED
  BY <1>1, <1>2, <1>3, Ways

LEMMA StepConfig ==
  ASSUME TypeOK, \A p \in Ops : Named(p), held # {}, ConfigOK, NEW o \in Ops, Step(o)
  PROVE  ConfigOK'
<1> SUFFICES ASSUME ~ raced' PROVE ConfigOK'
  BY DEF ConfigOK
<1>0. ~ raced
  BY HeldStays
<1>1. /\ \A p \in Ops : Administering(p)
      /\ (\A p \in Ops : ~ Administers(p)) => config \in held
  BY <1>0 DEF ConfigOK
<1>2. Named(o) /\ Administering(o)
  BY <1>1
<1>n. {[Disk!Fresh EXCEPT !["versioning"] = "Enabled"], Disk!Fresh} \subseteq [Settings -> {Unset, "Enabled"}]
  BY ConfigAssumption DEF Disk!Fresh
\* A request that fails, or is refused, while the file is what was acknowledged.
<1>f. ASSUME Administers(o), UNCHANGED disk, NEW code, Failing(o, code), config \in held PROVE ConfigOK'
  <2>1. op'[o].pc = "done" /\ config' = config /\ held' = held
    BY <1>f DEF Failing, Ends, disk, ghost
  <2>2. Administering(o)' /\ ~ Administers(o)'
    BY <2>1 DEF Administering, Administers
  <2> QED
    BY <1>0, <1>f, <2>1, <2>2, Alone
\* A request that administers nothing.
<1>b. ASSUME op[o].pc \notin {"create", "default", "set", "write", "commit", "test", "remove"},
             op'[o].pc \notin {"create", "default", "set", "write", "commit", "test", "remove"},
             config' = config, configTmp' = configTmp, held' = held
      PROVE  ConfigOK'
  BY <1>0, <1>b, Bystander DEF Administers
<1>3. CASE Receive(o) \/ Internal(o) \/ Preflight(o) \/ Admit(o) \/ EnforcePolicy(o)
  <2>0. config' = config /\ configTmp' = configTmp
    BY <1>3, EarlySteps DEF disk
  <2>1. CASE Came(o) \/ (op[o].pc \in Fore /\ Answered(o)) \/ Learned(o) \/ Turned(o)
    <3>1. op[o].pc \in Fore \cup {"idle"} /\ op'[o].pc \in Fore \cup {"done"} /\ held' = held
      BY <2>1 DEF Came, Answered, Granting, Failing, Ends, Learned, Turned, At, Fore, ghost
    <3> QED
      BY <1>b, <2>0, <3>1 DEF Fore
  <2>2. CASE Entered(o)
    <3>0. op[o].pc = "policy" /\ held' = held /\ op'[o].pc \in {"create", "test", "set", "check", "find", "read"}
      BY <2>2, FirstState DEF Entered, At
    <3>1. CASE op'[o].pc \in {"check", "find", "read"}
      BY <1>b, <2>0, <3>0, <3>1
    <3>2. CASE op'[o].pc \in {"create", "set", "test"}
      <4>1. \A p \in Ops : ~ Administers(p)
        BY <2>2, <3>2 DEF Entered
      <4>2. \A p \in Ops : p # o => ~ Administers(p)'
        BY <4>1, Others DEF Administers
      <4>3. config' \in held'
        BY <1>1, <2>0, <3>0, <4>1
      <4>4. \A p \in Ops : Administering(p)'
        BY <3>2, <4>2, <4>3 DEF Administering, Administers
      <4> QED
        BY <4>2, <4>3, <4>4 DEF ConfigOK, Lone
    <3> QED
      BY <3>0, <3>1, <3>2
  <2> QED
    BY <1>3, <2>1, <2>2, EarlySteps
<1>4. CASE \/ PutCheck(o) \/ PutOpen(o) \/ PutPlace(o) \/ PutMetadata(o)
           \/ DeleteFind(o) \/ DeleteDrop(o) \/ Read(o)
  <2>1. op[o].pc \in {"check", "open", "place", "metadata", "find", "drop", "read"}
    BY <1>4, ObjectSteps DEF At
  <2>2. op'[o].pc \in {"open", "place", "metadata", "drop", "done"} /\ held' = held
    BY <1>4, ObjectSteps DEF Answered, Granting, Failing, Ends, Went, WentWith, ghost
  <2>3. config' = config /\ configTmp' = configTmp
    <3>1. CASE PutCheck(o) \/ PutOpen(o) \/ PutPlace(o) \/ PutMetadata(o)
      BY <3>1, ObjectSteps DEF disk, Disk!OpenUpload, Disk!PlaceUpload, Disk!CommitUpload, Disk!Leave
    <3>2. CASE DeleteFind(o) \/ DeleteDrop(o) \/ Read(o)
      BY <3>2, ObjectSteps DEF disk, Disk!DeleteUpload, Disk!DeleteMissing, Disk!Leave, Disk!disk
    <3> QED
      BY <1>4, <3>1, <3>2
  <2> QED
    BY <1>b, <2>1, <2>2, <2>3
<1>5. CASE Create(o)
  <2>1. op[o].pc = "create" /\ UNCHANGED disk /\ Administers(o) /\ config \in held /\ op[o].name = "CreateBucket"
    BY <1>2, <1>5, ConfigSteps DEF At, Administers, Administering, Named
  <2>2. CASE \E code : Failing(o, code)
    BY <1>f, <2>1, <2>2
  <2>3. CASE WentWith(o, "write", Disk!Fresh)
    <3>1. /\ op'[o].pc = "write" /\ op'[o].copy = Disk!Fresh /\ op'[o].name = "CreateBucket"
          /\ config' = config /\ held' = held
      BY <2>1, <2>3 DEF WentWith, Alike, ghost, disk
    <3>2. Administering(o)' /\ Administers(o)'
      BY <2>1, <3>1 DEF Administering, Administers
    <3> QED
      BY <1>0, <2>1, <3>2, Alone
  <2> QED
    BY <1>5, <2>2, <2>3, ConfigSteps
<1>6. CASE Default(o)
  <2>1. op[o].pc = "default" /\ UNCHANGED disk /\ Administers(o) /\ Halfway(o)
    BY <1>2, <1>6, ConfigSteps DEF At, Administers, Administering
  <2>2. config # None
    BY <1>n, <2>1, NoneAssumption DEF Halfway
  <2>3. WentWith(o, "write", [config EXCEPT !["versioning"] = "Enabled"])
    BY <1>6, <2>2, ConfigSteps
  <2>4. /\ op'[o].pc = "write" /\ op'[o].copy = [Disk!Fresh EXCEPT !["versioning"] = "Enabled"]
        /\ op'[o].name = op[o].name /\ config' = config
    BY <2>1, <2>3 DEF WentWith, Alike, disk, Halfway
  <2>5. Administering(o)' /\ Administers(o)'
    BY <2>1, <2>4 DEF Administering, Administers, Halfway
  <2> QED
    BY <1>0, <2>1, <2>5, Alone
<1>7. CASE Set(o)
  <2>1. op[o].pc = "set" /\ UNCHANGED disk /\ Administers(o) /\ config \in held /\ op[o].name \in Setters
    BY <1>2, <1>7, ConfigSteps DEF At, Administers, Administering, Named
  <2>2. CASE \E code \in Errors : Failing(o, code)
    BY <1>f, <2>1, <2>2
  <2>3. CASE WentWith(o, "write", Effect(o, config))
    <3>1. /\ op'[o].pc = "write" /\ op'[o].copy = Effect(o, config) /\ op'[o].name = op[o].name
          /\ op'[o].req = op[o].req /\ config' = config /\ held' = held
      BY <2>1, <2>3 DEF WentWith, Alike, ghost, disk
    <3>2. Effect(o, config)' = Effect(o, config)
      BY <3>1 DEF Effect, NewValue
    <3>3. op[o].name # "CreateBucket"
      BY <2>1 DEF Setters, Deleters
    <3>4. Administering(o)' /\ Administers(o)'
      BY <2>1, <3>1, <3>2, <3>3 DEF Administering, Administers
    <3> QED
      BY <1>0, <2>1, <3>4, Alone
  <2> QED
    BY <1>7, <2>2, <2>3, ConfigSteps
<1>8. CASE Write(o)
  <2>1. op[o].pc = "write" /\ Administers(o) /\ Disk!WriteConfig(op[o].copy) /\ Went(o, "commit")
    BY <1>8, ConfigSteps DEF At, Administers
  <2>2. /\ op'[o].pc = "commit" /\ op'[o].copy = op[o].copy /\ op'[o].name = op[o].name
        /\ op'[o].req = op[o].req /\ config' = config /\ held' = held /\ configTmp' = op[o].copy
    BY <2>1 DEF Went, Alike, ghost, Disk!WriteConfig
  <2>3. Effect(o, config)' = Effect(o, config)
    BY <2>2 DEF Effect, NewValue
  <2>4. Administering(o)' /\ Administers(o)'
    BY <1>2, <2>1, <2>2, <2>3 DEF Administering, Administers, Halfway
  <2> QED
    BY <1>0, <2>1, <2>4, Alone
<1>9. CASE Commit(o)
  <2>1. /\ op[o].pc = "commit" /\ Administers(o) /\ configTmp = op[o].copy
        /\ op[o].name \in Setters \cup {"CreateBucket"}
        /\ IF op[o].name = "CreateBucket"
           THEN \/ config \in held /\ op[o].copy = Disk!Fresh
                \/ Halfway(o) /\ op[o].copy = [Disk!Fresh EXCEPT !["versioning"] = "Enabled"]
           ELSE config \in held /\ op[o].copy = Effect(o, config)
    BY <1>2, <1>9, ConfigSteps DEF At, Administers, Administering, Named
  <2>2. CASE configTmp = None /\ UNCHANGED disk /\ Failing(o, "InternalError")
    <3>1. config \in held
      BY <1>n, <2>1, <2>2, NoneAssumption
    <3> QED
      BY <1>f, <2>1, <2>2, <3>1
  <2>3. CASE /\ Disk!CommitConfig /\ Went(o, "default")
             /\ op[o].name = "CreateBucket" /\ DefaultVersioning /\ op[o].copy = Disk!Fresh
    <3>1. op'[o].pc = "default" /\ op'[o].name = "CreateBucket" /\ config' = Disk!Fresh
      BY <2>1, <2>3 DEF Went, Alike, Disk!CommitConfig
    <3>2. Administering(o)' /\ Administers(o)'
      BY <2>3, <3>1 DEF Administering, Administers, Halfway, Disk!Fresh
    <3> QED
      BY <1>0, <2>1, <3>2, Alone
  <2>4. CASE /\ Disk!CommitConfig /\ Acked(o)
             /\ op[o].name = "CreateBucket" /\ DefaultVersioning => op[o].copy # Disk!Fresh
    <3>1. op'[o].pc = "done" /\ config' = op[o].copy /\ held' = {Effect(o, c) : c \in held}
      BY <2>1, <2>4 DEF Acked, Ends, Disk!CommitConfig
    <3>2. PICK c \in held : op[o].copy = Effect(o, c)
      <4>1. CASE op[o].name = "CreateBucket"
        <5>1. \A c : Effect(o, c) = IF DefaultVersioning THEN [Disk!Fresh EXCEPT !["versioning"] = "Enabled"]
                                    ELSE Disk!Fresh
          BY <4>1 DEF Effect
        <5>2. op[o].copy = IF DefaultVersioning THEN [Disk!Fresh EXCEPT !["versioning"] = "Enabled"]
                           ELSE Disk!Fresh
          BY <2>1, <2>4, <4>1 DEF Halfway
        <5> QED
          BY <5>1, <5>2
      <4>2. CASE op[o].name # "CreateBucket"
        BY <2>1, <4>2
      <4> QED
        BY <4>1, <4>2
    <3>3. config' \in held'
      BY <3>1, <3>2
    <3>4. Administering(o)'
      BY <3>1 DEF Administering
    <3> QED
      BY <1>0, <2>1, <3>3, <3>4, Alone
  <2> QED
    BY <1>9, <2>2, <2>3, <2>4, ConfigSteps
<1>10. CASE Test(o)
  <2>1. op[o].pc = "test" /\ UNCHANGED disk /\ Administers(o) /\ config \in held
    BY <1>2, <1>10, ConfigSteps DEF At, Administers, Administering
  <2>2. CASE \E code \in Errors : Failing(o, code)
    BY <1>f, <2>1, <2>2
  <2>3. CASE Went(o, "remove")
    <3>1. op'[o].pc = "remove" /\ config' = config /\ held' = held
      BY <2>1, <2>3 DEF Went, ghost, disk
    <3>2. Administering(o)' /\ Administers(o)'
      BY <2>1, <3>1 DEF Administering, Administers
    <3> QED
      BY <1>0, <2>1, <3>2, Alone
  <2> QED
    BY <1>10, <2>2, <2>3, ConfigSteps
<1>11. CASE RemoveAll(o)
  <2>1. op[o].pc = "remove" /\ Disk!RemoveBucket /\ Acked(o) /\ Administers(o) /\ op[o].name = "DeleteBucket"
    BY <1>2, <1>11, ConfigSteps DEF At, Administers, Named
  <2>2. op'[o].pc = "done" /\ config' = None /\ held' = {Effect(o, c) : c \in held}
    BY <2>1 DEF Acked, Ends, Disk!RemoveBucket
  <2>3. \A c : Effect(o, c) = None
    BY <2>1 DEF Effect
  <2>4. config' \in held'
    BY <2>2, <2>3
  <2>5. Administering(o)'
    BY <2>2 DEF Administering
  <2> QED
    BY <1>0, <2>1, <2>4, <2>5, Alone
<1> QED
  BY <1>3, <1>4, <1>5, <1>6, <1>7, <1>8, <1>9, <1>10, <1>11 DEF Step

LEMMA CrashConfig ==
  ASSUME TypeOK, \A p \in Ops : Named(p), held # {}, ConfigOK, Crash
  PROVE  ConfigOK' /\ held' # {}
<1>0. /\ held \subseteq held' /\ config' = config /\ raced' = raced
      /\ \A o \in Ops : Administers(o) /\ op[o].name = "CreateBucket" => Disk!Fresh \in held'
  <2>1. held' = AfterCrash
    BY DEF Crash
  <2>2. ASSUME NEW o \in Ops, Administers(o), op[o].name = "CreateBucket" PROVE Disk!Fresh \in held'
    <3>1. \E p \in {p \in Ops : Administers(p)} : op[p].name = "CreateBucket"
      BY <2>2
    <3>2. Disk!Fresh \in {c \in {Disk!Fresh} : \E p \in {p \in Ops : Administers(p)} : op[p].name = "CreateBucket"}
      BY <3>1
    <3>3. Disk!Fresh \in AfterCrash
      BY <3>2 DEF AfterCrash
    <3> QED
      BY <2>1, <3>3
  <2>3. held \subseteq held'
    BY <2>1 DEF AfterCrash
  <2> QED
    BY <2>2, <2>3 DEF Crash, disk
<1>1. \A o \in Ops : ~ Administers(o)' /\ Administering(o)'
  <2> SUFFICES ASSUME NEW o \in Ops PROVE ~ Administers(o)' /\ Administering(o)'
    OBVIOUS
  <2>1. op'[o].pc \in {"idle", "done", "lost"}
    <3>1. CASE InFlight(o)
      BY <3>1, Losing DEF Crash
    <3>2. CASE ~ InFlight(o)
      BY <3>2 DEF Crash, InFlight, Ended
    <3> QED
      BY <3>1, <3>2
  <2> QED
    BY <2>1 DEF Administers, Administering
<1>2. ASSUME ~ raced PROVE config \in held'
  <2>1. CASE \A o \in Ops : ~ Administers(o)
    BY <1>0, <1>2, <2>1 DEF ConfigOK
  <2>2. ASSUME NEW o \in Ops, Administers(o) PROVE config \in held'
    <3>1. Administering(o) /\ Named(o)
      BY <1>2 DEF ConfigOK
    <3>2. config \in held \/ Halfway(o)
      BY <2>2, <3>1 DEF Administering, Administers
    <3> QED
      BY <1>0, <2>2, <3>2 DEF Halfway
  <2> QED
    BY <2>1, <2>2
<1> QED
  BY <1>0, <1>1, <1>2 DEF ConfigOK, Lone

-----------------------------------------------------------------------------
(* The puts.                                                               *)

LEMMA OthersExposed ==
  ASSUME TypeOK, NEW o \in Ops, Step(o), NEW p \in Ops, p # o, op[p].exposed
  PROVE  op'[p].exposed
BY Ways DEF Came, Answered, Granting, Failing, Learned, Turned, Entered, Onward, Acked, Still

\* Whoever removes the bucket was at it already, or has found it empty.
LEMMA RemovingOnly ==
  ASSUME TypeOK, NEW o \in Ops, Step(o), Removing'
  PROVE  Removing \/ (Test(o) /\ Disk!Empty /\ UNCHANGED disk)
<1>1. PICK d \in Ops : op'[d].pc = "remove"
  BY DEF Removing, At
<1>2. CASE d # o
  BY <1>1, <1>2, Others DEF Removing, At
<1>3. CASE d = o
  <2>1. CASE Receive(o) \/ Internal(o) \/ Preflight(o) \/ Admit(o) \/ EnforcePolicy(o)
    BY <1>1, <1>3, <2>1, EarlySteps, FirstState
    DEF Came, Answered, Granting, Failing, Ends, Learned, Turned, Entered
  <2>2. CASE Create(o) \/ Default(o) \/ Set(o) \/ Write(o) \/ Commit(o) \/ RemoveAll(o)
    BY <1>1, <1>3, <2>2, ConfigSteps DEF Failing, Ends, Went, WentWith, Acked
  <2>3. CASE Test(o)
    BY <1>1, <1>3, <2>3, ConfigSteps DEF Failing, Ends
  <2>4. CASE \/ PutCheck(o) \/ PutOpen(o) \/ PutPlace(o) \/ PutMetadata(o)
             \/ DeleteFind(o) \/ DeleteDrop(o) \/ Read(o)
    BY <1>1, <1>3, <2>4, ObjectSteps DEF Answered, Granting, Failing, Ends, Went, WentWith
  <2> QED
    BY <2>1, <2>2, <2>3, <2>4 DEF Step
<1> QED
  BY <1>2, <1>3

\* A put keeps its promise while its file stays as it is.
LEMMA Untouched ==
  ASSUME TypeOK, NEW o \in Ops, Step(o), NEW p \in Ops, p # o, Putting(p), files'[p] = files[p]
  PROVE  Putting(p)'
<1>1. op'[p].pc = op[p].pc /\ op'[p].name = op[p].name /\ op'[p].res = op[p].res
  BY Others
<1>2. op[p].exposed => op'[p].exposed
  BY OthersExposed
<1>3. Removing' /\ files[p] \in {"object", "marked", "deleted"} => Removing \/ files[p] = "deleted"
  BY RemovingOnly DEF Disk!Empty
<1> QED
  BY <1>1, <1>2, <1>3 DEF Putting

\* ... and while it is deleted, or put under a delete marker.
LEMMA Deleted ==
  ASSUME TypeOK, NEW o \in Ops, DeleteDrop(o), NEW p \in Ops, p # o, Putting(p), Named(p),
         files[p] \in {"object", "bare", "marked"}, files'[p] \in {"marked", "deleted"}
  PROVE  Putting(p)'
<1>1. op'[p].pc = op[p].pc /\ op'[p].name = op[p].name /\ op'[p].res = op[p].res
  BY Others DEF Step
<1>2. op[p].exposed => op'[p].exposed
  BY OthersExposed DEF Step
<1>3. Removing' => Removing
  <2>1. ~ Test(o)
    BY ConfigSteps, ObjectSteps DEF At
  <2> QED
    BY <2>1, RemovingOnly DEF Step
<1> QED
  BY <1>1, <1>2, <1>3 DEF Putting

LEMMA StepPutting ==
  ASSUME TypeOK, \A p \in Ops : Named(p), \A p \in Ops : Putting(p), NEW o \in Ops, Step(o)
  PROVE  \A p \in Ops : Putting(p)'
<1>0. files \in [Ops -> Disk!Stages] /\ Putting(o) /\ Named(o)
  BY DEF TypeOK
<1>s. \A p \in Ops : p # o /\ files'[p] = files[p] => Putting(p)'
  BY Untouched
<1>1. CASE Receive(o) \/ Internal(o) \/ Preflight(o) \/ Admit(o) \/ EnforcePolicy(o)
  <2>0. files' = files
    BY <1>1, EarlySteps DEF disk
  <2>1. Putting(o)'
    <3>1. CASE Came(o) \/ Learned(o) \/ Turned(o)
      BY <1>0, <2>0, <3>1 DEF Came, Learned, Turned, Putting, At
    <3>2. CASE /\ op[o].pc \in Fore /\ Answered(o)
               /\ At(o, "policy") => \E code \in {"AccessDenied", "InternalError"} : Failing(o, code)
      <4>1. files'[o] = "none" /\ op'[o].pc = "done" /\ op'[o].name = op[o].name
        BY <1>0, <2>0, <3>2 DEF Putting, Fore, Answered, Granting, Failing, Ends
      <4>2. CASE op[o].pc = "policy"
        <5>1. op'[o].res \in {"AccessDenied", "InternalError"}
          BY <3>2, <4>2 DEF At, Failing, Ends
        <5> QED
          BY <4>1, <5>1 DEF Putting
      <4>3. CASE op[o].pc # "policy"
        <5>1. op'[o].name # "PutObject"
          BY <1>0, <3>2, <4>1, <4>3, NoneAssumption DEF Named, Fore
        <5> QED
          BY <4>1, <5>1 DEF Putting
      <4> QED
        BY <4>2, <4>3
    <3>3. CASE Entered(o)
      <4>1. files'[o] = "none"
        BY <1>0, <2>0, <3>3 DEF Entered, Putting, At
      <4> QED
        BY <3>3, <4>1, FirstState DEF Entered, Putting
    <3> QED
      BY <1>1, <3>1, <3>2, <3>3, EarlySteps
  <2> QED
    BY <1>s, <2>0, <2>1
<1>2. CASE Create(o) \/ Default(o) \/ Set(o) \/ Write(o) \/ Commit(o) \/ Test(o)
  <2>0. files' = files
    BY <1>2, ConfigSteps DEF disk, Disk!WriteConfig, Disk!CommitConfig
  <2>1. op[o].name # "PutObject"
    BY <1>0, <1>2, ConfigSteps DEF Named, At, Setters, Deleters
  <2>2. op'[o].name = op[o].name /\ op'[o].pc \in {"write", "commit", "default", "remove", "done"}
    BY <1>2, ConfigSteps DEF Failing, Ends, Went, WentWith, Alike, Acked
  <2>3. Putting(o)'
    BY <2>1, <2>2 DEF Putting
  <2> QED
    BY <1>s, <2>0, <2>3
<1>3. CASE RemoveAll(o)
  <2>0. \A p \in Ops : files'[p] = IF files[p] = "deleted" THEN "deleted" ELSE "none"
    BY <1>3, ConfigSteps DEF Disk!RemoveBucket
  <2>1. At(o, "remove") /\ op[o].name = "DeleteBucket" /\ Removing
    BY <1>0, <1>3, ConfigSteps DEF At, Named, Removing
  <2>2. Acked(o)
    BY <1>3, ConfigSteps
  <2>3. Putting(o)'
    BY <2>1, <2>2 DEF Acked, Ends, Putting
  <2>4. ASSUME NEW p \in Ops, p # o PROVE Putting(p)'
    <3>0. Putting(p)
      OBVIOUS
    <3>1. op'[p].pc = op[p].pc /\ op'[p].name = op[p].name /\ op'[p].res = op[p].res
      BY <2>4, Others
    <3>2. op[p].exposed => op'[p].exposed
      BY <2>4, OthersExposed
    <3>3. op[p].pc \in {"place", "metadata"} => op'[p].exposed
      BY <2>1, <2>2, <2>4 DEF Acked, InFlight, Ended
    <3>4. CASE op[p].pc # "done"
      BY <2>0, <3>0, <3>1, <3>3, <3>4 DEF Putting
    <3>5. CASE op[p].pc = "done"
      BY <2>0, <2>1, <3>0, <3>1, <3>2, <3>5 DEF Putting
    <3> QED
      BY <3>4, <3>5
  <2> QED
    BY <2>3, <2>4
<1>4. CASE PutCheck(o) \/ PutOpen(o) \/ PutPlace(o) \/ PutMetadata(o)
  <2>0. \A p \in Ops : p # o => files'[p] = files[p]
    BY <1>0, <1>4, ObjectSteps DEF disk, Disk!OpenUpload, Disk!PlaceUpload, Disk!CommitUpload, Disk!Leave
  <2>1. ASSUME PutCheck(o) PROVE Putting(o)'
    BY <1>0, <2>1, ObjectSteps DEF Putting, At, disk, Failing, Ends, Went
  <2>2. ASSUME PutOpen(o) PROVE Putting(o)'
    <3>1. files'[o] = "tmp" /\ op'[o].pc = "place"
      BY <1>0, <2>2, ObjectSteps DEF Disk!OpenUpload, Disk!Leave, Went
    <3> QED
      BY <3>1 DEF Putting
  <2>3. ASSUME PutPlace(o) PROVE Putting(o)'
    <3>1. CASE Disk!PlaceUpload(o) /\ Went(o, "metadata")
      <4>1. files'[o] = "data" /\ op'[o].pc = "metadata"
        BY <1>0, <3>1 DEF Disk!PlaceUpload, Disk!Leave, Went
      <4> QED
        BY <4>1 DEF Putting
    <3>2. CASE UNCHANGED disk /\ Failing(o, "InternalError")
      BY <1>0, <2>3, <3>2, ObjectSteps DEF Putting, At, disk, Failing, Ends
    <3> QED
      BY <2>3, <3>1, <3>2, ObjectSteps
  <2>4. ASSUME PutMetadata(o) PROVE Putting(o)'
    <3>1. /\ files'[o] = (IF files[o] = "data" THEN "object" ELSE "bare")
          /\ op'[o].pc = "done" /\ op'[o].exposed = (op[o].exposed \/ Removing)
          /\ op'[o].res \in {"ok", "BadDigest"}
      BY <1>0, <2>4, ObjectSteps DEF Disk!CommitUpload, Disk!Leave, Failing, Granting, Ends
    <3>2. files[o] = "data" \/ op[o].exposed
      BY <1>0, <2>4, ObjectSteps DEF Putting, At
    <3>3. Removing' => Removing
      <4>1. ~ Test(o)
        BY <2>4, ConfigSteps, ObjectSteps DEF At
      <4> QED
        BY <4>1, RemovingOnly
    <3> QED
      BY <3>1, <3>2, <3>3 DEF Putting
  <2> QED
    BY <1>4, <1>s, <2>0, <2>1, <2>2, <2>3, <2>4
<1>5. CASE DeleteFind(o) \/ DeleteDrop(o) \/ Read(o)
  <2>1. op'[o].pc \in {"drop", "done"} /\ (op'[o].pc = "done" => op'[o].name = op[o].name)
    BY <1>5, ObjectSteps DEF Answered, Granting, Failing, Ends, WentWith
  <2>2. op[o].name # "PutObject" /\ op[o].pc \in {"find", "drop", "read"}
    BY <1>0, <1>5, ObjectSteps DEF Named, At
  <2>3. Putting(o)'
    BY <2>1, <2>2 DEF Putting
  <2>4. ASSUME NEW p \in Ops, p # o PROVE Putting(p)'
    <3>1. CASE files'[p] = files[p]
      BY <1>s, <2>4, <3>1
    <3>2. CASE files'[p] # files[p]
      <4>1. DeleteDrop(o)
        BY <1>5, <3>2, ObjectSteps DEF disk
      <4>2. PICK versioned \in BOOLEAN : \/ \E q \in Ops : Disk!DeleteUpload(q, versioned)
                                         \/ Disk!DeleteMissing(o, versioned)
        BY <4>1, ObjectSteps
      <4>3. files[p] \in {"object", "bare", "marked"} /\ files'[p] \in {"marked", "deleted"}
        BY <1>0, <2>4, <3>2, <4>2 DEF Disk!DeleteUpload, Disk!DeleteMissing, Disk!Leave, Disk!disk
      <4> QED
        BY <2>4, <4>1, <4>3, Deleted
    <3> QED
      BY <3>1, <3>2
  <2> QED
    BY <2>3, <2>4
<1> QED
  BY <1>1, <1>2, <1>3, <1>4, <1>5 DEF Step

LEMMA CrashPutting ==
  ASSUME TypeOK, \A p \in Ops : Putting(p), Crash
  PROVE  \A p \in Ops : Putting(p)'
<1>0. files' = files
  BY DEF Crash, disk
<1>1. \A p \in Ops : InFlight(p) => op'[p].pc = "lost"
  BY Losing DEF Crash
<1>2. \A p \in Ops : ~ InFlight(p) => op'[p] = op[p]
  BY DEF Crash
<1>3. ~ Removing'
  BY <1>1, <1>2 DEF Removing, At, InFlight, Ended
<1> QED
  BY <1>0, <1>1, <1>2, <1>3 DEF Putting, InFlight, Ended

-----------------------------------------------------------------------------
(* The counters.                                                           *)

LEMMA StepLiving ==
  ASSUME TypeOK, \A p \in Ops : Living(p), NEW o \in Ops, Step(o)
  PROVE  /\ \A p \in Ops : Living(p)'
         /\ op'[o].life = crashes /\ crashes' = crashes
         /\ ~ At(o, "idle") => op[o].life = crashes
         /\ ~ At(o, "done") /\ op'[o].pc # "idle"
<1>0. crashes' = crashes
  BY Ways DEF Came, Answered, Granting, Failing, Learned, Turned, Entered, Onward, Acked, ghost
<1>1. /\ op[o].pc \in {"idle"} \cup Fore \cup Hind
      /\ At(o, "idle") => Came(o)
      /\ ~ Came(o) => op'[o].life = op[o].life /\ ~ At(o, "idle")
      /\ op'[o].pc \in {"done"} \cup Fore \cup Hind
  <2>1. CASE Came(o)
    BY <2>1 DEF Came, At, Fore
  <2>2. CASE op[o].pc \in Fore \cup Hind /\ Answered(o)
    BY <2>2 DEF Answered, Granting, Failing, Ends, At, Fore, Hind
  <2>3. CASE Learned(o) \/ Turned(o) \/ Entered(o)
    BY <2>3, FirstState DEF Learned, Turned, Entered, At, Fore, Hind
  <2>4. CASE Onward(o)
    BY <2>4 DEF Onward, Alike, At, Hind
  <2>5. CASE op[o].pc \in Hind /\ Acked(o)
    BY <2>5 DEF Acked, Ends, At, Hind
  <2> QED
    BY <2>1, <2>2, <2>3, <2>4, <2>5, Ways
<1>2. ~ At(o, "idle") => InFlight(o)
  BY <1>1 DEF At, InFlight, Ended, Fore, Hind
<1>3. Living(o)
  OBVIOUS
<1>4. op'[o].life = crashes /\ (~ At(o, "idle") => op[o].life = crashes)
  BY <1>1, <1>2, <1>3 DEF Living, Came
<1>5. ASSUME NEW p \in Ops, p # o PROVE Living(p)'
  <2>1. op'[p].pc = op[p].pc /\ op'[p].life = op[p].life /\ op'[p].passed = op[p].passed
    BY <1>5, Others
  <2>2. Living(p)
    OBVIOUS
  <2> QED
    BY <1>0, <2>1, <2>2 DEF Living, InFlight, Ended, At
<1>6. op'[o].pc \in {"idle", "internal", "preflight", "admit", "policy"} => ~ op'[o].passed
  <2>1. CASE Came(o) \/ Learned(o)
    BY <1>3, <2>1 DEF Came, Learned, Living, At
  <2>2. CASE Answered(o) \/ Turned(o) \/ Onward(o) \/ Acked(o) \/ Entered(o)
    BY <2>2, FirstState DEF Answered, Granting, Failing, Ends, Turned, Onward, Acked, Entered, Hind
  <2> QED
    BY <2>1, <2>2, Ways
<1>7. Living(o)'
  <2>1. crashes \in Nat
    BY DEF TypeOK
  <2> QED
    BY <1>0, <1>4, <1>6, <2>1 DEF Living, InFlight, Ended, At
<1>8. ~ At(o, "done") /\ op'[o].pc # "idle"
  BY <1>1 DEF At, Fore, Hind
<1> QED
  BY <1>0, <1>4, <1>5, <1>7, <1>8

\* What a step adds to each of the four sets.
LEMMA StepSets ==
  ASSUME TypeOK, \A p \in Ops : Living(p), NEW o \in Ops, Step(o),
         op[o].passed => ~ At(o, "idle") /\ op'[o].passed
  PROVE  /\ Mine'    = IF At(o, "idle") THEN Mine \cup {o} ELSE Mine
         /\ Replied' = IF op'[o].pc = "done" THEN Replied \cup {o} ELSE Replied
         /\ Failed'  = IF op'[o].pc = "done" /\ op'[o].res \notin Granted THEN Failed \cup {o} ELSE Failed
         /\ LetIn'   = IF op'[o].passed /\ ~ op[o].passed THEN LetIn \cup {o} ELSE LetIn
         /\ At(o, "idle") => o \notin Mine
         /\ o \notin Replied /\ o \notin Failed
         /\ ~ op[o].passed => o \notin LetIn
<1>0. /\ op'[o].life = crashes /\ crashes' = crashes /\ (~ At(o, "idle") => op[o].life = crashes)
      /\ ~ At(o, "done") /\ op'[o].pc # "idle"
  BY StepLiving
<1>1. \A p \in Ops : p # o => /\ op'[p].pc = op[p].pc /\ op'[p].life = op[p].life
                              /\ op'[p].passed = op[p].passed /\ op'[p].res = op[p].res
  BY Others
<1>2. Mine' = IF At(o, "idle") THEN Mine \cup {o} ELSE Mine
  BY <1>0, <1>1 DEF Mine, At
<1>3. Replied' = IF op'[o].pc = "done" THEN Replied \cup {o} ELSE Replied
  BY <1>0, <1>1 DEF Mine, Replied, At
<1>4. Failed' = IF op'[o].pc = "done" /\ op'[o].res \notin Granted THEN Failed \cup {o} ELSE Failed
  BY <1>0, <1>1 DEF Mine, Replied, Failed, At
<1>5. LetIn' = IF op'[o].passed /\ ~ op[o].passed THEN LetIn \cup {o} ELSE LetIn
  BY <1>0, <1>1 DEF Mine, LetIn, At
<1> QED
  BY <1>0, <1>2, <1>3, <1>4, <1>5 DEF Mine, Replied, Failed, LetIn, At

LEMMA Sums == MetricsAddUp <=> Counts(metrics, Cardinality(Mine), Cardinality(Failed),
                                      Cardinality(LetIn), Cardinality(Replied))
BY DEF MetricsAddUp, Counts, Mine, Replied, Failed, LetIn, Granted

LEMMA FewRequests ==
  ASSUME NEW S \in SUBSET Ops
  PROVE  /\ Cardinality(S) \in Nat
         /\ \A o \in Ops : o \notin S => Cardinality(S \cup {o}) = Cardinality(S) + 1
<1>1. IsFiniteSet(Ops)
  BY FS_Interval, BoundsAssumption DEF Ops
<1>2. IsFiniteSet(S)
  BY <1>1, FS_Subset
<1> QED
  BY <1>2, FS_CardinalityType, FS_AddElement

LEMMA StepMetrics ==
  ASSUME TypeOK, \A p \in Ops : Living(p), MetricsAddUp, NEW o \in Ops, Step(o)
  PROVE  MetricsAddUp'
<1> DEFINE r == Cardinality(Mine)
           e == Cardinality(Failed)
           p == Cardinality(LetIn)
           s == Cardinality(Replied)
<1>s. {Mine, Failed, LetIn, Replied} \subseteq SUBSET Ops
  BY DEF Mine, Failed, LetIn, Replied
<1>1. r \in Nat /\ e \in Nat /\ p \in Nat /\ s \in Nat
  BY <1>s, FewRequests
<1>2. Counts(metrics, r, e, p, s)
  BY Sums
<1>p. op[o].passed \in BOOLEAN /\ Living(o)
  BY DEF TypeOK, IsRequest
<1>3. SUFFICES Counts(metrics, r, e, p, s)'
  <2>1. Counts(metrics, r, e, p, s)' <=> MetricsAddUp'
    BY Sums, PTL
  <2> QED
    BY <2>1
<1>4. ASSUME op[o].passed => ~ At(o, "idle") /\ op'[o].passed
      PROVE  /\ r' = IF At(o, "idle") THEN r + 1 ELSE r
             /\ s' = IF op'[o].pc = "done" THEN s + 1 ELSE s
             /\ e' = IF op'[o].pc = "done" /\ op'[o].res \notin Granted THEN e + 1 ELSE e
             /\ p' = IF op'[o].passed /\ ~ op[o].passed THEN p + 1 ELSE p
  <2>0. /\ Mine'    = IF At(o, "idle") THEN Mine \cup {o} ELSE Mine
        /\ Replied' = IF op'[o].pc = "done" THEN Replied \cup {o} ELSE Replied
        /\ Failed'  = IF op'[o].pc = "done" /\ op'[o].res \notin Granted THEN Failed \cup {o} ELSE Failed
        /\ LetIn'   = IF op'[o].passed /\ ~ op[o].passed THEN LetIn \cup {o} ELSE LetIn
        /\ At(o, "idle") => o \notin Mine
        /\ o \notin Replied /\ o \notin Failed
        /\ ~ op[o].passed => o \notin LetIn
    BY <1>4, StepSets
  <2>1. r' = IF At(o, "idle") THEN r + 1 ELSE r
    BY <1>s, <2>0, FewRequests
  <2>2. s' = IF op'[o].pc = "done" THEN s + 1 ELSE s
    BY <1>s, <2>0, FewRequests
  <2>3. e' = IF op'[o].pc = "done" /\ op'[o].res \notin Granted THEN e + 1 ELSE e
    BY <1>s, <2>0, FewRequests
  <2>4. p' = IF op'[o].passed /\ ~ op[o].passed THEN p + 1 ELSE p
    BY <1>s, <2>0, FewRequests
  <2> QED
    BY <2>1, <2>2, <2>3, <2>4
<1> HIDE DEF r, e, p, s
<1>n. PICK n : n = metrics'
  OBVIOUS
<1>5. CASE Came(o)
  <2>1. At(o, "idle") /\ ~ op[o].passed /\ ~ op'[o].passed /\ op'[o].pc # "done"
    BY <1>5, <1>p DEF Came, Living, At
  <2>2. r' = r + 1 /\ e' = e /\ p' = p /\ s' = s
    BY <1>4, <2>1
  <2>3. n = [metrics EXCEPT !.requests = @ + 1]
    BY <1>5, <1>n DEF Came
  <2> QED
    BY <1>1, <1>2, <1>n, <2>2, <2>3, Counting, Zenon
<1>6. ASSUME op[o].pc \in Fore \cup Hind, NEW res \in Granted, Granting(o, res)
      PROVE  Counts(metrics, r, e, p, s)'
  <2>1. ~ At(o, "idle") /\ op'[o].passed = op[o].passed /\ op'[o].pc = "done" /\ op'[o].res \in Granted
    BY <1>6 DEF Granting, Ends, At, Fore, Hind
  <2>2. r' = r /\ e' = e /\ p' = p /\ s' = s + 1
    BY <1>4, <2>1
  <2>3. n = [metrics EXCEPT !.statuses = @ + 1]
    BY <1>6, <1>n DEF Granting
  <2> QED
    BY <1>1, <1>2, <1>n, <2>2, <2>3, Counting, Zenon
<1>7. ASSUME op[o].pc \in Fore \cup Hind, NEW code \in Errors, Failing(o, code)
      PROVE  Counts(metrics, r, e, p, s)'
  <2>0. code \notin Granted
    BY DEF Errors, Refusals, Granted
  <2>1. ~ At(o, "idle") /\ op'[o].passed = op[o].passed /\ op'[o].pc = "done" /\ op'[o].res \notin Granted
    BY <1>7, <2>0 DEF Failing, Ends, At, Fore, Hind
  <2>2. r' = r /\ e' = e + 1 /\ p' = p /\ s' = s + 1
    BY <1>4, <2>1
  <2>3. n = [metrics EXCEPT !.errors = @ + 1, !.statuses = @ + 1]
    BY <1>7, <1>n DEF Failing
  <2> QED
    BY <1>1, <1>2, <1>n, <2>2, <2>3, Counting, Zenon
<1>8. CASE Learned(o) \/ Onward(o)
  <2>1. ~ At(o, "idle") /\ op'[o].passed = op[o].passed /\ op'[o].pc # "done" /\ metrics' = metrics
    BY <1>8 DEF Learned, Onward, Alike, At, Hind
  <2>2. r' = r /\ e' = e /\ p' = p /\ s' = s
    BY <1>4, <2>1
  <2> QED
    BY <1>2, <2>1, <2>2
<1>9. CASE Turned(o)
  <2>1. /\ ~ At(o, "idle") /\ ~ op[o].passed /\ op'[o].passed /\ op'[o].pc = "done"
        /\ op'[o].res \in Granted
    BY <1>9, <1>p DEF Turned, Living, At, Granted
  <2>2. r' = r /\ e' = e /\ p' = p + 1 /\ s' = s + 1
    BY <1>4, <2>1
  <2>3. n = [metrics EXCEPT !.operations = @ + 1, !.statuses = @ + 1]
    BY <1>9, <1>n DEF Turned
  <2> QED
    BY <1>1, <1>2, <1>n, <2>2, <2>3, Counting, Zenon
<1>10. CASE Entered(o)
  <2>1. ~ At(o, "idle") /\ ~ op[o].passed /\ op'[o].passed /\ op'[o].pc # "done"
    BY <1>10, <1>p, FirstState DEF Entered, Living, At
  <2>2. r' = r /\ e' = e /\ p' = p + 1 /\ s' = s
    BY <1>4, <2>1
  <2>3. n = [metrics EXCEPT !.operations = @ + 1]
    BY <1>10, <1>n DEF Entered
  <2> QED
    BY <1>1, <1>2, <1>n, <2>2, <2>3, Counting, Zenon
<1>11. CASE op[o].pc \in Hind /\ Acked(o)
  <2>1. ~ At(o, "idle") /\ op'[o].passed = op[o].passed /\ op'[o].pc = "done" /\ op'[o].res \in Granted
    BY <1>11 DEF Acked, Ends, At, Hind, Granted
  <2>2. r' = r /\ e' = e /\ p' = p /\ s' = s + 1
    BY <1>4, <2>1
  <2>3. n = [metrics EXCEPT !.statuses = @ + 1]
    BY <1>11, <1>n DEF Acked
  <2> QED
    BY <1>1, <1>2, <1>n, <2>2, <2>3, Counting, Zenon
<1> QED
  BY <1>5, <1>6, <1>7, <1>8, <1>9, <1>10, <1>11, Ways DEF Answered

LEMMA NothingCounted == Mine = {} /\ metrics = NoMetrics => MetricsAddUp
<1> SUFFICES ASSUME Mine = {}, metrics = NoMetrics PROVE MetricsAddUp
  OBVIOUS
<1>1. Replied = {} /\ Failed = {} /\ LetIn = {}
  BY DEF Replied, Failed, LetIn
<1>2. Counts(metrics, 0, 0, 0, 0)
  BY DEF Counts, NoMetrics
<1> QED
  BY <1>1, <1>2, Sums, FS_EmptySet

-----------------------------------------------------------------------------
(* Policies and CORS rules.                                                *)

\* A step that leaves bucket.json as it is.
LEMMA ConfigStays ==
  ASSUME TypeOK, Expected, NEW o \in Ops, Step(o), ~ raced, config' = config, held' = held,
         Creating(o)', ~ Acked(o)
  PROVE  Expected'
<1>1. /\ \A p \in Ops : Creating(p)
      /\ Expects(held)
      /\ \A p \in Ops : op[p].pc \in Fore => Expects(op[p].may)
  BY DEF Expected
<1>2. ASSUME NEW p \in Ops, p # o PROVE op'[p] = op[p]
  BY <1>2, Ways DEF Came, Answered, Granting, Failing, Learned, Turned, Entered, Onward, Still
<1>3. ASSUME NEW p \in Ops PROVE Creating(p)'
  <2>1. CASE p = o
    BY <2>1
  <2>2. CASE p # o
    BY <1>1, <1>2, <2>2 DEF Creating
  <2> QED
    BY <2>1, <2>2
<1>4. ASSUME NEW p \in Ops, op'[p].pc \in Fore PROVE Expects(op[p].may)'
  <2>1. CASE p # o
    BY <1>1, <1>2, <1>4, <2>1 DEF Expects
  <2>2. CASE p = o
    <3>1. \/ Came(o) /\ op'[o].may = held
          \/ Learned(o) /\ op'[o].may = op[o].may /\ op[o].pc \in Fore
      <4>1. op'[o].pc \notin {"create", "test", "set", "check", "find", "read", "done"} \cup Hind
        BY <1>4, <2>2 DEF Fore, Hind
      <4>2. ~ Answered(o) /\ ~ Turned(o) /\ ~ Entered(o) /\ ~ Onward(o)
        BY <4>1, FirstState DEF Answered, Granting, Failing, Ends, Turned, Entered, Onward
      <4>3. Came(o) \/ Learned(o)
        BY <4>2, Ways
      <4> QED
        BY <4>3 DEF Came, Learned, At, Fore
    <3> QED
      BY <1>1, <2>2, <3>1 DEF Expects
  <2> QED
    BY <2>1, <2>2
<1> QED
  BY <1>1, <1>3, <1>4 DEF Expected, Expects

LEMMA StepExpected ==
  ASSUME TypeOK, \A p \in Ops : Named(p), held # {}, ConfigOK, Expected, NEW o \in Ops, Step(o)
  PROVE  Expected'
<1> SUFFICES ASSUME ~ raced' PROVE Expected'
  BY DEF Expected
<1>0. ~ raced
  BY HeldStays
<1>1. /\ Lone /\ Administering(o) /\ Named(o)
      /\ Creating(o) /\ Expects(held)
      /\ \A p \in Ops : op[p].pc \in Fore => Expects(op[p].may)
  BY <1>0 DEF ConfigOK, Expected
<1>n. [Disk!Fresh EXCEPT !["versioning"] = "Enabled"] \in [Settings -> {Unset, "Enabled"}]
      /\ Disk!Fresh # None
  BY NoneAssumption, ConfigAssumption DEF Disk!Fresh
\* Nobody else changes the settings.
<1>2. Administers(o) => \A p \in Ops : p # o => ~ Administers(p)
  BY <1>1 DEF Lone
<1>3. ASSUME Administers(o), Acked(o) PROVE Expected'
  <2>1. \A p \in Ops : ~ Administers(p)'
    <3>1. \A p \in Ops : p # o => ~ Administers(p)'
      BY <1>2, <1>3, Others DEF Administers
    <3>2. ~ Administers(o)'
      BY <1>3 DEF Acked, Ends, Administers
    <3> QED
      BY <3>1, <3>2
  <2>2. config' \in held'
    BY <2>1, StepConfig DEF ConfigOK
  <2>3. \A p \in Ops : Creating(p)'
    BY <2>1 DEF Creating, Administers
  <2>4. ASSUME NEW p \in Ops, op'[p].pc \in Fore PROVE Expects(op[p].may)'
    <3>1. p # o
      BY <1>3, <2>4 DEF Acked, Ends, Fore
    <3>2. InFlight(p)
      BY <2>4, <3>1, Others DEF InFlight, Ended, Fore
    <3>3. op'[p].may = op[p].may \cup held'
      BY <1>3, <3>1, <3>2 DEF Acked
    <3> QED
      BY <2>2, <3>3 DEF Expects
  <2> QED
    BY <2>2, <2>3, <2>4 DEF Expected, Expects
<1>4. CASE Create(o) \/ Default(o) \/ Set(o) \/ Write(o) \/ Test(o)
  <2>1. config' = config /\ held' = held /\ ~ Acked(o)
    <3>1. CASE Write(o)
      BY <3>1, ConfigSteps DEF Went, ghost, Acked, Ends, Disk!WriteConfig
    <3>2. CASE Create(o) \/ Default(o) \/ Set(o) \/ Test(o)
      <4>1. config' = config
        BY <3>2, ConfigSteps DEF disk
      <4>2. {"BucketAlreadyExists", "NoSuchBucket"} \subseteq Errors /\ "ok" \notin Errors
        BY DEF Errors, Refusals
      <4>3. (\E code \in Errors : Failing(o, code)) \/ (\E x : WentWith(o, "write", x)) \/ Went(o, "remove")
        BY <3>2, <4>2, ConfigSteps
      <4> QED
        BY <4>1, <4>2, <4>3 DEF Went, WentWith, Failing, Ends, Acked, ghost
    <3> QED
      BY <1>4, <3>1, <3>2
  <2>2. Creating(o)'
    <3>1. CASE Create(o)
      BY <2>1, <3>1, ConfigSteps DEF Failing, Ends, WentWith, Creating
    <3>2. CASE Default(o)
      BY <1>1, <2>1, <3>2, ConfigSteps DEF Administering, Halfway, Creating, At, Failing, Ends, WentWith
    <3>3. CASE Set(o)
      <4>1. op[o].name # "CreateBucket"
        BY <1>1, <3>3, ConfigSteps DEF Named, At, Setters, Deleters
      <4>2. op'[o].name = op[o].name
        BY <3>3, ConfigSteps DEF Failing, Ends, WentWith, Alike
      <4> QED
        BY <4>1, <4>2 DEF Creating
    <3>4. CASE Write(o)
      <4>1. op[o].pc = "write" /\ op'[o].copy = op[o].copy /\ op'[o].name = op[o].name
        BY <3>4, ConfigSteps DEF Went, Alike, At
      <4> QED
        BY <1>1, <2>1, <4>1 DEF Creating
    <3>5. CASE Test(o)
      BY <3>5, ConfigSteps DEF Failing, Ends, Went, Creating
    <3> QED
      BY <1>4, <3>1, <3>2, <3>3, <3>4, <3>5
  <2> QED
    BY <1>0, <2>1, <2>2, ConfigStays
<1>5. CASE Commit(o)
  <2>1. op[o].pc = "commit" /\ configTmp = op[o].copy /\ Administers(o)
    BY <1>1, <1>5, ConfigSteps DEF At, Administers, Administering
  <2>2. CASE configTmp = None /\ UNCHANGED disk /\ Failing(o, "InternalError")
    <3>1. config' = config /\ held' = held /\ ~ Acked(o) /\ op'[o].pc = "done"
      BY <2>2 DEF disk, Failing, Acked, Ends, ghost
    <3> QED
      BY <1>0, <3>1, ConfigStays DEF Creating
  <2>3. CASE /\ Disk!CommitConfig /\ Went(o, "default")
             /\ op[o].name = "CreateBucket" /\ DefaultVersioning /\ op[o].copy = Disk!Fresh
    <3>1. config' = Disk!Fresh /\ held' = held /\ op'[o].pc = "default"
      BY <2>1, <2>3 DEF Disk!CommitConfig, Went, ghost
    <3>2. config \in {None, Disk!Fresh}
      BY <1>1, <2>1, <2>3 DEF Creating
    <3>3. ASSUME NEW may, Expects(may) PROVE config' \in may \/ (config' = Disk!Fresh /\ None \in may)
      BY <3>1, <3>2, <3>3 DEF Expects
    <3>4. \A p \in Ops : Creating(p)'
      <4>1. \A p \in Ops : p # o => ~ Administers(p)'
        BY <1>2, <2>1, Others DEF Administers
      <4> QED
        BY <3>1, <4>1 DEF Creating, Administers
    <3>5. ASSUME NEW p \in Ops, op'[p].pc \in Fore PROVE Expects(op[p].may)'
      <4>1. p # o
        BY <3>1, <3>5 DEF Fore
      <4>2. op'[p] = op[p]
        BY <2>3, <4>1 DEF Went, Still
      <4>3. Expects(op[p].may)
        BY <1>1, <3>5, <4>2
      <4> QED
        BY <3>3, <4>2, <4>3 DEF Expects
    <3> QED
      BY <1>1, <3>1, <3>3, <3>4, <3>5 DEF Expected, Expects
  <2>4. CASE Acked(o)
    BY <1>3, <2>1, <2>4
  <2> QED
    BY <1>5, <2>2, <2>3, <2>4, ConfigSteps
<1>6. CASE RemoveAll(o)
  BY <1>3, <1>6, ConfigSteps DEF At, Administers
<1>7. CASE \/ Receive(o) \/ Internal(o) \/ Preflight(o) \/ Admit(o) \/ EnforcePolicy(o)
           \/ PutCheck(o) \/ PutOpen(o) \/ PutPlace(o) \/ PutMetadata(o)
           \/ DeleteFind(o) \/ DeleteDrop(o) \/ Read(o)
  <2>1. config' = config
    <3>1. CASE Receive(o) \/ Internal(o) \/ Preflight(o) \/ Admit(o) \/ EnforcePolicy(o)
      BY <3>1, EarlySteps DEF disk
    <3>2. CASE PutCheck(o) \/ PutOpen(o) \/ PutPlace(o) \/ PutMetadata(o)
      BY <3>2, ObjectSteps DEF disk, Disk!OpenUpload, Disk!PlaceUpload, Disk!CommitUpload, Disk!Leave
    <3>3. CASE DeleteFind(o) \/ DeleteDrop(o) \/ Read(o)
      BY <3>3, ObjectSteps DEF disk, Disk!DeleteUpload, Disk!DeleteMissing, Disk!Leave, Disk!disk
    <3> QED
      BY <1>7, <3>1, <3>2, <3>3
  <2>2. Still(o) /\ held' = held /\ op'[o].pc \notin {"write", "commit"}
    <3>1. CASE Receive(o) \/ Internal(o) \/ Preflight(o) \/ Admit(o) \/ EnforcePolicy(o)
      BY <3>1, EarlySteps, FirstState
      DEF Came, Answered, Granting, Failing, Ends, Learned, Turned, Entered, ghost
    <3>2. CASE \/ PutCheck(o) \/ PutOpen(o) \/ PutPlace(o) \/ PutMetadata(o)
               \/ DeleteFind(o) \/ DeleteDrop(o) \/ Read(o)
      BY <3>2, ObjectSteps DEF Answered, Granting, Failing, Ends, Went, WentWith, ghost
    <3> QED
      BY <1>7, <3>1, <3>2
  <2>3. Creating(o)'
    BY <2>2 DEF Creating
  <2>4. CASE ~ Acked(o)
    BY <1>0, <2>1, <2>2, <2>3, <2>4, ConfigStays
  <2>5. CASE Acked(o)
    <3>1. ASSUME NEW p \in Ops PROVE Creating(p)'
      <4>1. CASE p = o
        BY <2>3, <4>1
      <4>2. CASE p # o
        BY <1>0, <2>1, <2>2, <4>2 DEF Creating, Still, Expected
      <4> QED
        BY <4>1, <4>2
    <3>2. ASSUME NEW p \in Ops, op'[p].pc \in Fore PROVE Expects(op[p].may)'
      <4>1. p # o
        BY <2>5, <3>2 DEF Acked, Ends, Fore
      <4> QED
        BY <1>1, <2>1, <2>2, <3>2, <4>1 DEF Still, Expects
    <3> QED
      BY <1>1, <2>1, <2>2, <3>1, <3>2 DEF Expected, Expects
  <2> QED
    BY <2>4, <2>5
<1> QED
  BY <1>4, <1>5, <1>6, <1>7 DEF Step

LEMMA CrashExpected ==
  ASSUME TypeOK, \A p \in Ops : Named(p), held # {}, ConfigOK, Crash
  PROVE  Expected'
<1>1. \A p \in Ops : op'[p].pc \in {"idle", "done", "lost"}
  <2> SUFFICES ASSUME NEW p \in Ops PROVE op'[p].pc \in {"idle", "done", "lost"}
    OBVIOUS
  <2>1. CASE InFlight(p)
    BY <2>1, Losing DEF Crash
  <2>2. CASE ~ InFlight(p)
    BY <2>2 DEF Crash, InFlight, Ended
  <2> QED
    BY <2>1, <2>2
<1>2. \A p \in Ops : ~ Administers(p)' /\ Creating(p)' /\ op'[p].pc \notin Fore
  BY <1>1 DEF Administers, Creating, Fore
<1>3. ~ raced' => config' \in held'
  BY <1>2, CrashConfig DEF ConfigOK
<1> QED
  BY <1>2, <1>3 DEF Expected, Expects

-----------------------------------------------------------------------------
(* The invariant.                                                          *)

LEMMA CrashRest ==
  ASSUME TypeOK, \A p \in Ops : Named(p), \A p \in Ops : Living(p), Crash
  PROVE  /\ TypeOK' /\ (\A p \in Ops : Named(p)') /\ (\A p \in Ops : Living(p)') /\ MetricsAddUp'
<1>0. /\ op = [p \in Ops |-> op[p]] /\ files \in [Ops -> Disk!Stages] /\ raced \in BOOLEAN /\ crashes \in Nat
      /\ \A p \in Ops : IsRequest(op[p])
  BY DEF TypeOK
<1>1. /\ crashes' = crashes + 1 /\ metrics' = NoMetrics /\ files' = files /\ raced' = raced
      /\ op' = [p \in Ops |-> op'[p]]
  BY DEF Crash, disk
<1>2. ASSUME NEW p \in Ops, InFlight(p)
      PROVE  /\ IsRequest(op'[p]) /\ op'[p].pc = "lost" /\ op'[p].name = None
             /\ op'[p].life = op[p].life
  BY <1>2, Losing DEF Crash
<1>3. ASSUME NEW p \in Ops, ~ InFlight(p) PROVE op'[p] = op[p] /\ op[p].pc \in {"idle", "done", "lost"}
  BY <1>3 DEF Crash, InFlight, Ended
<1>4. NoMetrics \in Counters
  BY DEF NoMetrics, Counters
<1>5. TypeOK'
  BY <1>0, <1>1, <1>2, <1>3, <1>4 DEF TypeOK
<1>6. \A p \in Ops : Named(p)'
  <2> SUFFICES ASSUME NEW p \in Ops PROVE Named(p)'
    OBVIOUS
  <2>1. CASE InFlight(p)
    BY <1>2, <2>1 DEF Named
  <2>2. CASE ~ InFlight(p)
    <3>1. op'[p] = op[p] /\ Named(p)
      BY <1>3, <2>2
    <3> QED
      BY <3>1 DEF Named
  <2> QED
    BY <2>1, <2>2
<1>7. \A p \in Ops : (op'[p].pc # "idle" => op'[p].life <= crashes)
  <2> SUFFICES ASSUME NEW p \in Ops, op'[p].pc # "idle" PROVE op'[p].life <= crashes
    OBVIOUS
  <2>1. Living(p)
    OBVIOUS
  <2> QED
    BY <1>2, <1>3, <2>1 DEF Living, At, InFlight
<1>8. \A p \in Ops : op'[p].life \in Nat
  BY <1>5 DEF TypeOK, IsRequest
<1>9. \A p \in Ops : Living(p)'
  <2> SUFFICES ASSUME NEW p \in Ops PROVE Living(p)'
    OBVIOUS
  <2>1. op'[p].pc \in {"idle", "done", "lost"}
    BY <1>2, <1>3
  <2>2. op'[p].pc = "idle" => ~ op'[p].passed
    <3>1. ASSUME op'[p].pc = "idle" PROVE op'[p] = op[p]
      BY <1>2, <1>3, <3>1
    <3>2. Living(p)
      OBVIOUS
    <3> QED
      BY <3>1, <3>2 DEF Living
  <2>3. op'[p].pc # "idle" => op'[p].life <= crashes'
    BY <1>0, <1>1, <1>7, <1>8
  <2> QED
    BY <2>1, <2>2, <2>3 DEF Living, At, InFlight, Ended
<1>10. MetricsAddUp'
  <2>1. Mine' = {}
    BY <1>0, <1>1, <1>7, <1>8 DEF Mine, At
  <2>2. Mine' = {} /\ metrics' = NoMetrics => MetricsAddUp'
    <3>1. (Mine = {} /\ metrics = NoMetrics => MetricsAddUp)'
      BY NothingCounted, PTL
    <3> QED
      BY <3>1 DEF NoMetrics
  <2> QED
    BY <1>1, <2>1, <2>2
<1> QED
  BY <1>5, <1>6, <1>9, <1>10

LEMMA Initially == Init => IInv
<1> SUFFICES ASSUME Init PROVE IInv
  OBVIOUS
<1>0. /\ config \in {None, Disk!Fresh} /\ configTmp = None /\ files = [o \in Ops |-> "none"]
      /\ op = [o \in Ops |-> Idle] /\ metrics = NoMetrics
      /\ held = {config} /\ raced = FALSE /\ crashes = 0
  BY DEF Init, Disk!Init
<1>1. \A o \in Ops : op[o] = Idle /\ files[o] = "none"
  BY <1>0
<1>2. /\ Idle.pc = "idle" /\ Idle.name = None /\ Idle.passed = FALSE
  BY DEF Idle
<1>3. IsRequest(Idle)
  BY DEF IsRequest, Idle, Fields, States
<1>4. NoMetrics \in Counters
  BY DEF NoMetrics, Counters
<1>5. "none" \in Disk!Stages
  BY DEF Disk!Stages
<1>6. TypeOK
  BY <1>0, <1>1, <1>3, <1>4, <1>5 DEF TypeOK
<1>7. \A o \in Ops : Named(o) /\ Putting(o) /\ Living(o) /\ ~ Administers(o) /\ Administering(o)
  BY <1>1, <1>2 DEF Named, Putting, Living, Administers, Administering, At, InFlight, Ended
<1>8. ConfigOK /\ held # {} /\ Expected
  <2>1. \A o \in Ops : Creating(o) /\ op[o].pc \notin Fore
    BY <1>1, <1>2 DEF Creating, Fore
  <2> QED
    BY <1>0, <1>7, <2>1 DEF ConfigOK, Lone, Expected, Expects
<1>9. MetricsAddUp
  <2>1. Mine = {}
    BY <1>1, <1>2 DEF Mine, At
  <2> QED
    BY <1>0, <2>1, NothingCounted
<1> QED
  BY <1>6, <1>7, <1>8, <1>9 DEF IInv

LEMMA Stuttering == IInv /\ UNCHANGED vars => IInv'
<1> SUFFICES ASSUME IInv, UNCHANGED vars PROVE IInv'
  OBVIOUS
<1>0. /\ config' = config /\ configTmp' = configTmp /\ files' = files /\ op' = op
      /\ metrics' = metrics /\ held' = held /\ raced' = raced /\ crashes' = crashes
  BY DEF vars
<1>1. TypeOK'
  BY <1>0 DEF IInv, TypeOK
<1>2. \A o \in Ops : Named(o)'
  BY <1>0 DEF IInv, Named
<1>3. held' # {}
  BY <1>0 DEF IInv
<1>4. \A o \in Ops : (Administers(o)' <=> Administers(o)) /\ (Administering(o)' <=> Administering(o))
  BY <1>0 DEF Administers, Administering, Halfway, Effect, NewValue
<1>5. ConfigOK'
  BY <1>0, <1>4 DEF IInv, ConfigOK, Lone
<1>e. Expected'
  BY <1>0 DEF IInv, Expected, Expects, Creating
<1>6. \A o \in Ops : Putting(o)'
  <2>1. Removing' <=> Removing
    BY <1>0 DEF Removing, At
  <2> QED
    BY <1>0, <2>1 DEF IInv, Putting
<1>7. \A o \in Ops : Living(o)'
  BY <1>0 DEF IInv, Living, At, InFlight, Ended
<1>8. MetricsAddUp'
  BY <1>0 DEF IInv, MetricsAddUp, At
<1> QED
  BY <1>1, <1>2, <1>3, <1>5, <1>e, <1>6, <1>7, <1>8 DEF IInv

\* The invariant of the server: types, bucket.json, the puts and the counters, each
\* with what the code relies on while a request is under way.
THEOREM Invariance == Spec => []IInv
<1>1. Init => IInv
  BY Initially
<1>2. IInv /\ [Next]_vars => IInv'
  <2> SUFFICES ASSUME IInv, [Next]_vars PROVE IInv'
    OBVIOUS
  <2>0. /\ TypeOK /\ (\A o \in Ops : Named(o)) /\ held # {} /\ ConfigOK /\ Expected
        /\ (\A o \in Ops : Putting(o)) /\ (\A o \in Ops : Living(o)) /\ MetricsAddUp
    BY DEF IInv
  <2>1. CASE UNCHANGED vars
    BY <2>1, Stuttering
  <2>2. CASE Crash
    BY <2>0, <2>2, CrashConfig, CrashExpected, CrashPutting, CrashRest DEF IInv
  <2>3. ASSUME NEW o \in Ops, Step(o) PROVE IInv'
    <3>1. TypeOK'
      BY <2>0, <2>3, StepType
    <3>2. \A p \in Ops : Named(p)'
      BY <2>0, <2>3, StepNamed
    <3>3. held' # {}
      BY <2>0, <2>3, HeldStays
    <3>4. ConfigOK'
      BY <2>0, <2>3, StepConfig
    <3>e. Expected'
      BY <2>0, <2>3, StepExpected
    <3>5. \A p \in Ops : Putting(p)'
      BY <2>0, <2>3, StepPutting
    <3>6. \A p \in Ops : Living(p)'
      BY <2>0, <2>3, StepLiving
    <3>7. MetricsAddUp'
      BY <2>0, <2>3, StepMetrics
    <3> QED
      BY <3>1, <3>2, <3>3, <3>4, <3>e, <3>5, <3>6, <3>7 DEF IInv
  <2> QED
    BY <2>1, <2>2, <2>3 DEF Next
<1> QED
  BY <1>1, <1>2, PTL DEF Spec

\* bucket.json holds what was acknowledged while the requests that change it do not
\* overlap, whatever was refused, broke off or was cut short (disk.js l.161-179,
\* 617-688).
THEOREM Configuration == Spec => []ConfigAsAcknowledged
<1>1. IInv => ConfigAsAcknowledged
  BY DEF IInv, ConfigOK, ConfigAsAcknowledged
<1> QED
  BY <1>1, Invariance, PTL

\* A put that was acknowledged, or answered BadDigest, is there until it is deleted if
\* no removal of the bucket was on its way meanwhile; else it is there, gone, or without
\* its data.  One that failed otherwise is not there (server.js l.533-538, disk.js
\* l.108-113, 191-229).
THEOREM Puts == Spec => []PutsAsAnswered
<1>1. IInv => PutsAsAnswered
  BY DEF IInv, Putting, PutsAsAnswered, At
<1> QED
  BY <1>1, Invariance, PTL

\* The counters of the process are the numbers of its requests, of those answered,
\* failed and let in (server.js l.172-221, 880-887).
THEOREM Metrics == Spec => []MetricsAddUp
<1>1. IInv => MetricsAddUp
  BY DEF IInv
<1> QED
  BY <1>1, Invariance, PTL

\* While the settings are not changed by two requests at once, the policy lets a
\* request in or turns it away, and a preflight is answered, as by a bucket.json that
\* was acknowledged or on its way when the request came in or later.
JudgedAsAcknowledged ==
  [][\A o \in Ops :
       LET now == op'[o]
           may == op[o].may
       IN  ~ raced =>
             /\ At(o, "policy") =>
                  /\ now.passed => \E c \in may : Verdict(o, c) = "allow"
                  /\ now.pc = "done" /\ now.res = "AccessDenied" =>
                       \E c \in may : Verdict(o, c) = "deny"
             /\ At(o, "preflight") /\ now.pc = "done" /\ op[o].req.arg # None =>
                  (now.res = "ok") \in {PreflightAllowed(c, op[o].req.arg) : c \in may}]_vars

\* A bucket that is being created judges as none did.
LEMMA Expecting ==
  ASSUME NEW may, Expects(may), NEW o, NEW a
  PROVE  \E c \in may : /\ Verdict(o, c) = Verdict(o, config)
                        /\ PreflightAllowed(c, a) = PreflightAllowed(config, a)
<1>1. CASE config \in may
  BY <1>1
<1>2. CASE config = Disk!Fresh /\ None \in may
  <2>1. config["policy"] = Unset /\ config["cors"] = Unset
    BY <1>2, ConfigAssumption DEF Disk!Fresh
  <2>2. Verdict(o, None) = "allow" /\ Verdict(o, config) = "allow"
    BY <2>1 DEF Verdict
  <2>3. Rules(None) = {} /\ Rules(config) = {}
    BY <2>1 DEF Rules
  <2>4. PreflightAllowed(None, a) = PreflightAllowed(config, a)
    BY <2>3 DEF PreflightAllowed
  <2> QED
    BY <1>2, <2>2, <2>4
<1> QED
  BY <1>1, <1>2 DEF Expects

\* A request meets the policy and the rules that are in bucket.json now.
LEMMA PolicyStep ==
  ASSUME TypeOK, NEW o \in Ops, Living(o), Step(o), At(o, "policy")
  PROVE  /\ op'[o].passed => Verdict(o, config) = "allow"
         /\ op'[o].pc = "done" /\ op'[o].res = "AccessDenied" => Verdict(o, config) = "deny"
         /\ op'[o].pc = "done" \/ op'[o].res = op[o].res
<1>1. EnforcePolicy(o)
  <2>1. ~ (Receive(o) \/ Internal(o) \/ Preflight(o) \/ Admit(o))
    BY DEF At, Receive, Internal, Preflight, Admit
  <2>2. ~ (Create(o) \/ Default(o) \/ Set(o) \/ Write(o) \/ Commit(o) \/ Test(o) \/ RemoveAll(o))
    BY ConfigSteps DEF At
  <2>3. ~ (\/ PutCheck(o) \/ PutOpen(o) \/ PutPlace(o) \/ PutMetadata(o)
           \/ DeleteFind(o) \/ DeleteDrop(o) \/ Read(o))
    BY ObjectSteps DEF At
  <2> QED
    BY <2>1, <2>2, <2>3 DEF Step
<1>2. ~ op[o].passed
  BY DEF Living, At
<1>3. "AccessDenied" \in Errors /\ "InternalError" \in Errors /\ IsRequest(op[o])
  BY DEF Errors, Refusals, TypeOK
<1>4. CASE Verdict(o, config) = "deny" /\ Fails(o, "AccessDenied")
  BY <1>2, <1>3, <1>4, FailsEnds DEF Failing, Ends
<1>5. CASE Verdict(o, config) = "throws" /\ Fails(o, "InternalError")
  BY <1>2, <1>3, <1>5, FailsEnds DEF Failing, Ends
<1>6. CASE /\ Verdict(o, config) = "allow"
           /\ op' = [op EXCEPT ![o] = [Done(o, "refused") EXCEPT !.passed = TRUE]]
  <2>1. PICK d : d = [Done(o, "refused") EXCEPT !.passed = TRUE]
    OBVIOUS
  <2>2. op'[o] = d /\ d.res = "refused" /\ d.pc = "done"
    BY <1>6, <2>1, Refusing, Written
  <2> QED
    BY <1>6, <2>2
<1>7. CASE /\ Verdict(o, config) = "allow"
           /\ Becomes(o, [op[o] EXCEPT !.passed = TRUE, !.pc = First(op[o].name)])
  <2>1. PICK pc : pc = First(op[o].name)
    OBVIOUS
  <2>2. pc \in States /\ pc # "done"
    BY <2>1, FirstState DEF States
  <2>3. PICK d : d = Passed(op[o], pc)
    OBVIOUS
  <2>4. op' = [op EXCEPT ![o] = d]
    BY <1>7, <2>1, <2>3 DEF Becomes, Passed
  <2>5. IsRequest(d) /\ d.pc = pc /\ d.res = op[o].res
    BY <1>3, <2>2, <2>3, Passing
  <2>6. op'[o] = d
    BY <2>4, <2>5, Written
  <2> QED
    BY <1>7, <2>2, <2>5, <2>6
<1> QED
  BY <1>1, <1>4, <1>5, <1>6, <1>7 DEF EnforcePolicy

LEMMA PreflightStep ==
  ASSUME TypeOK, NEW o \in Ops, Step(o), At(o, "preflight"), op[o].req.arg # None
  PROVE  (op'[o].res = "ok") = PreflightAllowed(config, op[o].req.arg)
<1>1. Preflight(o)
  <2>1. ~ (Receive(o) \/ Internal(o) \/ Admit(o) \/ EnforcePolicy(o))
    BY DEF At, Receive, Internal, Admit, EnforcePolicy
  <2>2. ~ (Create(o) \/ Default(o) \/ Set(o) \/ Write(o) \/ Commit(o) \/ Test(o) \/ RemoveAll(o))
    BY ConfigSteps DEF At
  <2>3. ~ (\/ PutCheck(o) \/ PutOpen(o) \/ PutPlace(o) \/ PutMetadata(o)
           \/ DeleteFind(o) \/ DeleteDrop(o) \/ Read(o))
    BY ObjectSteps DEF At
  <2> QED
    BY <2>1, <2>2, <2>3 DEF Step
<1>2. PreflightAllowed(config, op[o].req.arg) \in BOOLEAN
  BY DEF PreflightAllowed, CorsAllows
<1>3. "AccessForbidden" \in Errors /\ "ok" \in Granted
  BY DEF Errors, Granted
<1>4. CASE PreflightAllowed(config, op[o].req.arg)
  <2>1. Ok(o, "ok")
    BY <1>1, <1>4 DEF Preflight
  <2>2. op'[o].res = "ok"
    BY <1>3, <2>1, OkGrants DEF Granting, Ends
  <2> QED
    BY <1>2, <1>4, <2>2
<1>5. CASE ~ PreflightAllowed(config, op[o].req.arg)
  <2>1. Fails(o, "AccessForbidden")
    BY <1>1, <1>5 DEF Preflight
  <2>2. op'[o].res = "AccessForbidden"
    BY <1>3, <2>1, FailsEnds DEF Failing, Ends
  <2> QED
    BY <1>2, <1>5, <2>2
<1> QED
  BY <1>4, <1>5

\* Policies and CORS rules are in force from their acknowledgement on, whatever they
\* say (server.js l.229-245, 779-803: each request reads bucket.json anew).
THEOREM Judgement == Spec => JudgedAsAcknowledged
<1>1. ASSUME IInv, Next, NEW o \in Ops, ~ raced
      PROVE  /\ At(o, "policy") =>
                  /\ op'[o].passed => \E c \in op[o].may : Verdict(o, c) = "allow"
                  /\ op'[o].pc = "done" /\ op'[o].res = "AccessDenied" =>
                       \E c \in op[o].may : Verdict(o, c) = "deny"
             /\ At(o, "preflight") /\ op'[o].pc = "done" /\ op[o].req.arg # None =>
                  (op'[o].res = "ok") \in {PreflightAllowed(c, op[o].req.arg) : c \in op[o].may}
  <2>0. TypeOK /\ Living(o) /\ (At(o, "policy") => ~ op[o].passed)
        /\ (At(o, "policy") \/ At(o, "preflight") => Expects(op[o].may))
    BY <1>1 DEF IInv, Living, Expected, At, Fore
  <2>1. CASE Crash
    <3>1. At(o, "policy") \/ At(o, "preflight") => InFlight(o)
      BY DEF At, InFlight, Ended
    <3>2. InFlight(o) => op'[o].pc = "lost" /\ ~ op'[o].passed
      BY <2>0, <2>1, Losing DEF Crash
    <3> QED
      BY <3>1, <3>2
  <2>2. ASSUME NEW p \in Ops, p # o, Step(p)
        PROVE  op'[o].pc = op[o].pc /\ op'[o].passed = op[o].passed
    BY <2>0, <2>2, Others
  <2>3. CASE Step(o)
    <3>1. ASSUME At(o, "policy")
          PROVE  /\ op'[o].passed => \E c \in op[o].may : Verdict(o, c) = "allow"
                 /\ op'[o].pc = "done" /\ op'[o].res = "AccessDenied" =>
                      \E c \in op[o].may : Verdict(o, c) = "deny"
      BY <2>0, <2>3, <3>1, PolicyStep, Expecting
    <3>2. ASSUME At(o, "preflight"), op[o].req.arg # None
          PROVE  (op'[o].res = "ok") \in {PreflightAllowed(c, op[o].req.arg) : c \in op[o].may}
      <4>1. PICK c \in op[o].may :
              PreflightAllowed(c, op[o].req.arg) = PreflightAllowed(config, op[o].req.arg)
        BY <2>0, <3>2, Expecting
      <4>2. (op'[o].res = "ok") = PreflightAllowed(c, op[o].req.arg)
        BY <2>0, <2>3, <3>2, <4>1, PreflightStep
      <4> QED
        BY <4>2
    <3> QED
      BY <3>1, <3>2
  <2> QED
    BY <1>1, <2>0, <2>1, <2>2, <2>3 DEF Next, At
<1>2. IInv /\ [Next]_vars =>
        [\A o \in Ops :
           LET now == op'[o]
               may == op[o].may
           IN  ~ raced =>
                 /\ At(o, "policy") =>
                      /\ now.passed => \E c \in may : Verdict(o, c) = "allow"
                      /\ now.pc = "done" /\ now.res = "AccessDenied" =>
                           \E c \in may : Verdict(o, c) = "deny"
                 /\ At(o, "preflight") /\ now.pc = "done" /\ op[o].req.arg # None =>
                      (now.res = "ok") \in {PreflightAllowed(c, op[o].req.arg) : c \in may}]_vars
  BY <1>1
<1> QED
  BY <1>2, Invariance, PTL DEF Spec, JudgedAsAcknowledged
-----------------------------------------------------------------------------
(* What the policy document says.                                          *)

LEMMA OpenEnds ==
  ASSUME NEW head \in Seq(STRING), NEW a, NEW b, NEW c
  PROVE  Matches(Beginning(head), <<a, b, c>>) <=> IsPrefix(head, <<a, b, c>>)
<1>1. IsPrefix(<<>>, Reverse(<<a, b, c>>))
  BY DEF IsPrefix, Reverse
<1>2. Reverse(<<>>) = <<>>
  BY DEF Reverse
<1>3. IsSuffix(<<>>, <<a, b, c>>)
  BY <1>1, <1>2 DEF IsSuffix
<1>4. Len(head) \in Nat /\ Len(<<>>) = 0
  OBVIOUS
<1>5. IsPrefix(head, <<a, b, c>>) => Len(head) + 0 <= Len(<<a, b, c>>)
  BY <1>4 DEF IsPrefix
<1> QED
  BY <1>3, <1>4, <1>5 DEF Matches, Beginning

\* The verb under which a policy knows a request on an object.
Verb(r) == CASE r.method \in {"GET", "HEAD"} -> "Get" [] r.method = "PUT" -> "Put" [] OTHER -> "Delete"

LEMMA Verbs ==
  ASSUME NEW r, r.bucket, r.key, r.query \cap {"uploadId", "uploads", "tagging"} = {},
         Dispatch(r) # NotAllowed
  PROVE  ActionOf(Dispatch(r)) = <<"s3:", Verb(r), "Object">>
<1> DEFINE table == IF r.method \in DOMAIN ObjectOps THEN ObjectOps[r.method] ELSE <<>>
           fits  == {i \in DOMAIN table : table[i][1] \subseteq r.query}
<1>1. Dispatch(r) = IF fits = {} THEN NotAllowed ELSE table[CHOOSE i \in fits : \A j \in fits : i <= j][2]
  BY DEF Dispatch
<1>2. "uploadId" \notin r.query /\ "uploads" \notin r.query /\ "tagging" \notin r.query
  OBVIOUS
<1>3. r.method \in {"GET", "PUT", "HEAD", "DELETE", "POST"}
  <2>1. ASSUME r.method \notin DOMAIN ObjectOps PROVE FALSE
    <3>1. table = <<>>
      BY <2>1
    <3>2. fits = {}
      BY <3>1
    <3> QED
      BY <1>1, <3>2
  <2> QED
    BY <2>1 DEF ObjectOps
<1>4. CASE r.method = "GET"
  <2>1. table = << <<{"uploadId"}, "ListParts">>, <<{"tagging"}, "GetObjectTagging">>, <<{}, "GetObject">> >>
    BY <1>4 DEF ObjectOps
  <2>2. fits = {3}
    BY <1>2, <2>1
  <2>3. Dispatch(r) = "GetObject"
    BY <1>1, <2>1, <2>2
  <2> QED
    BY <1>4, <2>3 DEF ActionOf, S3, Verb
<1>5. CASE r.method = "PUT"
  <2>1. table = << <<{"uploadId", "partNumber"}, "UploadPart">>, <<{"tagging"}, "PutObjectTagging">>,
                   <<{"copy"}, "CopyObject">>, <<{}, "PutObject">> >>
    BY <1>5 DEF ObjectOps
  <2>2. fits \subseteq {3, 4} /\ 4 \in fits
    BY <1>2, <2>1
  <2>3. (CHOOSE i \in fits : \A j \in fits : i <= j) \in {3, 4}
    <3>1. \E i \in fits : \A j \in fits : i <= j
      <4>1. CASE 3 \in fits
        BY <2>2, <4>1
      <4>2. CASE 3 \notin fits
        BY <2>2, <4>2
      <4> QED
        BY <4>1, <4>2
    <3> QED
      BY <2>2, <3>1
  <2>4. Dispatch(r) \in {"CopyObject", "PutObject"}
    BY <1>1, <2>1, <2>2, <2>3
  <2> QED
    BY <1>5, <2>4 DEF ActionOf, S3, Verb
<1>6. CASE r.method = "HEAD"
  <2>1. table = << <<{}, "HeadObject">> >>
    BY <1>6 DEF ObjectOps
  <2>2. fits = {1}
    BY <2>1
  <2>3. Dispatch(r) = "HeadObject"
    BY <1>1, <2>1, <2>2
  <2> QED
    BY <1>6, <2>3 DEF ActionOf, S3, Verb
<1>7. CASE r.method = "DELETE"
  <2>1. table = << <<{"uploadId"}, "AbortMultipartUpload">>, <<{"tagging"}, "DeleteObjectTagging">>,
                   <<{}, "DeleteObject">> >>
    BY <1>7 DEF ObjectOps
  <2>2. fits = {3}
    BY <1>2, <2>1
  <2>3. Dispatch(r) = "DeleteObject"
    BY <1>1, <2>1, <2>2
  <2> QED
    BY <1>7, <2>3 DEF ActionOf, S3, Verb
<1>8. CASE r.method = "POST"
  <2>1. table = << <<{"uploads"}, "CreateMultipartUpload">>, <<{"uploadId"}, "CompleteMultipartUpload">> >>
    BY <1>8 DEF ObjectOps
  <2>2. fits = {}
    BY <1>2, <2>1
  <2> QED
    BY <1>1, <2>2
<1> QED
  BY <1>3, <1>4, <1>5, <1>6, <1>7, <1>8

\* A policy, and a bucket.json, that the reading of Denies and Allows is made for.
PlainFor(d) == PlainDocument(d) /\ \A q \in Menu : Ungranted(d, q)

Readable(c) ==
  c = None \/ /\ c = [s \in Settings |-> c[s]]
              /\ c["policy"] \in {Unset, NullDocument} \/ PlainFor(c["policy"])

\* What _enforcePolicy makes of an object request is what the document says.
LEMMA DeniesAsRead ==
  ASSUME NEW r, r.bucket, r.key, r.query \cap {"uploadId", "uploads", "tagging"} = {},
         Dispatch(r) # NotAllowed, NEW who, who # Nobody,
         NEW d, PlainDocument(d), NEW s \in d, s.effect = "deny"
  PROVE  StmtMatches(s, who, ActionOf(Dispatch(r)), Resource(r)) <=> Denies(s, r)
<1>1. /\ ActionOf(Dispatch(r)) = <<"s3:", Verb(r), "Object">>
      /\ Resource(r) = <<"bucket", "/", "key">>
  BY Verbs DEF Resource
<1>2. /\ Everybody \in s.principals
      /\ \A p \in s.actions \cup s.resources : p.head \in Seq(STRING) /\ p = Beginning(p.head)
  BY DEF PlainDocument
<1>3. \E p \in s.principals : MatchPrincipal(p, who)
  BY <1>2 DEF MatchPrincipal, Everybody
<1>4. PICK verb : verb = Verb(r)
  OBVIOUS
<1>5. \A p \in s.actions : Matches(p, <<"s3:", verb, "Object">>) <=> IsPrefix(p.head, <<"s3:", verb, "Object">>)
  BY <1>2, OpenEnds
<1>6. \A p \in s.resources : Matches(p, <<"bucket", "/", "key">>) <=> IsPrefix(p.head, <<"bucket", "/", "key">>)
  BY <1>2, OpenEnds
<1>7. Denies(s, r) <=> /\ \E p \in s.actions : IsPrefix(p.head, <<"s3:", verb, "Object">>)
                       /\ \E p \in s.resources : IsPrefix(p.head, <<"bucket", "/", "key">>)
  BY <1>4 DEF Denies, Covers, Verb
<1> QED
  BY <1>1, <1>3, <1>4, <1>5, <1>6, <1>7 DEF StmtMatches

LEMMA VerdictAsRead ==
  ASSUME NEW o \in Ops, NEW c, Readable(c), op[o].req.bucket, op[o].req.key,
         op[o].req.query \cap {"uploadId", "uploads", "tagging"} = {},
         op[o].name = Dispatch(op[o].req), op[o].name # NotAllowed,
         op[o].req \in Menu, op[o].who = Nobody => op[o].req.auth.form = "none"
  PROVE  /\ Verdict(o, c) = "allow" => Permits(c, o)
         /\ Verdict(o, c) = "deny" => ~ Permits(c, o) /\ c # None /\ c["policy"] # Unset
<1>1. CASE c = None
  BY <1>1 DEF Verdict, Permits
<1>2. CASE c # None /\ c["policy"] = Unset
  BY <1>2 DEF Verdict, Permits
<1>3. CASE c # None /\ c["policy"] # Unset
  <2> DEFINE r      == op[o].req
             who    == op[o].who
             action == ActionOf(op[o].name)
             d      == c["policy"]
             hits   == {s \in d : s.effect \in {"allow", "deny"} /\ StmtMatches(s, who, action, Resource(r))}
  <2>1. action # <<>>
    BY Verbs
  <2>2. Verdict(o, c) = IF d = NullDocument THEN "throws"
                        ELSE IF \E s \in hits : s.effect = "deny" THEN "deny"
                        ELSE IF hits # {} \/ who # Nobody THEN "allow"
                        ELSE "deny"
    BY <1>3, <2>1 DEF Verdict, EvaluatePolicy
  <2>3. Permits(c, o) <=> /\ d # NullDocument
                          /\ \A s \in d : ~ Denies(s, r)
                          /\ who # Nobody \/ \E s \in d : Allows(s, r)
    BY <1>3 DEF Permits
  <2>4. CASE d = NullDocument
    BY <1>3, <2>2, <2>4
  <2>5. CASE d # NullDocument /\ who = Nobody
    <3>1. hits = {}
      BY <2>5 DEF StmtMatches
    <3>2. Verdict(o, c) = "deny"
      BY <2>2, <2>5, <3>1
    <3>3. PlainFor(d) /\ r.key /\ r \in Menu /\ r.auth.form = "none"
      BY <1>3, <2>5 DEF Readable
    <3>n. Dispatch(r) # NotAllowed
      OBVIOUS
    <3>4. (\E s \in d : Allows(s, r)) => \E s \in d : Denies(s, r)
      <4> HIDE DEF d, r
      <4> QED
        BY <3>3, <3>n DEF PlainFor, Ungranted
    <3>5. ~ Permits(c, o)
      <4> HIDE DEF d, r
      <4> QED
        BY <2>3, <2>5, <3>4 DEF who
    <3> QED
      BY <1>3, <3>2, <3>5
  <2>6. CASE d # NullDocument /\ who # Nobody
    <3>1. PlainDocument(d)
      BY <1>3, <2>6 DEF Readable, PlainFor
    <3>2. \A s \in d : s.effect = "deny" => (StmtMatches(s, who, action, Resource(r)) <=> Denies(s, r))
      <4> HIDE DEF d
      <4> QED
        BY <2>6, <3>1, DeniesAsRead
    <3>3. \A s : Denies(s, r) => s.effect = "deny"
      BY DEF Denies
    <3>4. (\E s \in hits : s.effect = "deny") <=> \E s \in d : Denies(s, r)
      BY <3>2, <3>3
    <3> HIDE DEF hits, d, who
    <3> QED
      BY <1>3, <2>2, <2>3, <2>6, <3>4 DEF d
  <2> QED
    BY <2>4, <2>5, <2>6
<1> QED
  BY <1>1, <1>2, <1>3

\* What the server has to do with is what its clients have sent.
Asked(c) ==
  /\ c.pc \in Fore => c.req \in Menu /\ c.res = None
  /\ c.pc \in Hind \cup {"policy"} => c.req \in Menu /\ c.name = Dispatch(c.req) /\ c.name # NotAllowed
  /\ c.pc = "policy" => (c.who = Nobody => c.req.auth.form = "none")
  /\ c.pc = "write" => Readable(c.copy)

DocumentInv == /\ Readable(config) /\ Readable(configTmp)
               /\ \A o \in Ops : Asked(op[o])

LEMMA FreshReadable == Readable(Disk!Fresh) /\ Readable(None)
BY ConfigAssumption DEF Readable, Disk!Fresh

LEMMA EffectReadable ==
  ASSUME Plain(Menu), NEW o \in Ops, op[o].name \in Setters, op[o].req \in Menu,
         op[o].name = Dispatch(op[o].req), Readable(config), config # None
  PROVE  Readable(Effect(o, config))
<1> DEFINE name    == op[o].name
           setting == SettingOf(name)
           value   == NewValue(o)
<1>1. Effect(o, config) = [config EXCEPT ![setting] = value]
  BY DEF Effect, Setters, Deleters
<1>2. setting = "policy" => name \in {"PutBucketPolicy", "DeleteBucketPolicy"}
  BY DEF SettingOf, Setters, Deleters
<1>3. name = "DeleteBucketPolicy" => value = Unset
  BY DEF NewValue, Deleters
<1>4. name = "PutBucketPolicy" => value \in {Unset, NullDocument} \/ PlainFor(value)
  BY DEF NewValue, Deleters, Plain, PlainFor
<1>5. setting = "policy" => value \in {Unset, NullDocument} \/ PlainFor(value)
  BY <1>2, <1>3, <1>4
<1>6. config = [s \in Settings |-> config[s]] /\ "policy" \in Settings
      /\ (config["policy"] \in {Unset, NullDocument} \/ PlainFor(config["policy"]))
  BY ConfigAssumption DEF Readable
<1> HIDE DEF setting, value
<1>7. PICK d : d = [config EXCEPT ![setting] = value]
  OBVIOUS
<1>8. d = [s \in Settings |-> d[s]] /\ d["policy"] = IF setting = "policy" THEN value ELSE config["policy"]
  BY <1>6, <1>7
<1>9. d["policy"] \in {Unset, NullDocument} \/ PlainFor(d["policy"])
  BY <1>5, <1>6, <1>8
<1> QED
  BY <1>1, <1>7, <1>8, <1>9 DEF Readable

LEMMA VersioningReadable ==
  ASSUME Readable(config), config # None
  PROVE  Readable([config EXCEPT !["versioning"] = "Enabled"])
<1>1. config = [s \in Settings |-> config[s]] /\ "policy" \in Settings
      /\ (config["policy"] \in {Unset, NullDocument} \/ PlainFor(config["policy"]))
  BY ConfigAssumption DEF Readable
<1>2. PICK d : d = [config EXCEPT !["versioning"] = "Enabled"]
  OBVIOUS
<1>3. d = [s \in Settings |-> d[s]] /\ d["policy"] = config["policy"]
  BY <1>1, <1>2
<1> QED
  BY <1>1, <1>2, <1>3 DEF Readable

\* Who has no name has not signed.
LEMMA Unnamed ==
  ASSUME NEW a
  PROVE  LET caller == VerifyRequest(a, Users, Anonymous)
         IN  caller.error = "none" /\ caller.principal = Nobody => a.form = "none"
BY UsersAssumption DEF VerifyRequest, Denied, Accepted

\* An answered request has nothing more to do with anything.
LEMMA DoneAsked == \A c : c.pc \in {"done", "lost", "idle"} => Asked(c)
BY DEF Asked, Fore, Hind

LEMMA EarlyAsked ==
  ASSUME TypeOK, NEW o \in Ops, Asked(op[o]),
         Receive(o) \/ Internal(o) \/ Preflight(o) \/ Admit(o) \/ EnforcePolicy(o)
  PROVE  Asked(op'[o])
<1>0. IsRequest(op[o])
  BY DEF TypeOK
<1>1. CASE Receive(o)
  <2>1. PICK r \in Menu :
          Becomes(o, [Idle EXCEPT !.req = r, !.may = held, !.life = crashes,
                                  !.pc = CASE r.internal -> "internal"
                                           [] ~ r.internal /\ r.method = "OPTIONS" -> "preflight"
                                           [] OTHER -> "admit"])
    BY <1>1 DEF Receive
  <2>2. PICK pc : pc = CASE r.internal -> "internal"
                         [] ~ r.internal /\ r.method = "OPTIONS" -> "preflight"
                         [] OTHER -> "admit"
    OBVIOUS
  <2>3. op' = [op EXCEPT ![o] = Arriving(r, pc)]
    BY <2>1, <2>2 DEF Becomes, Arriving
  <2>4. op'[o] = Arriving(r, pc)
    BY <2>3 DEF TypeOK
  <2>5. op'[o].req = r /\ op'[o].res = None
    BY <2>4 DEF Arriving, Idle
  <2>6. op'[o].pc \in {"internal", "preflight", "admit"}
    <3>1. Came(o)
      BY <1>1, EarlySteps DEF Receive, At, Fore, Answered, Learned, Turned, Entered
    <3> QED
      BY <3>1 DEF Came
  <2> QED
    BY <2>5, <2>6 DEF Asked, Fore, Hind
<1>2. CASE Internal(o) \/ Preflight(o)
  <2>1. op[o].pc \in {"internal", "preflight"}
    BY <1>2 DEF Internal, Preflight, At
  <2>2. Answered(o)
    BY <1>2, <2>1, EarlySteps DEF Came, Learned, Turned, Entered, At
  <2> QED
    BY <2>2, DoneAsked DEF Answered, Granting, Failing, Ends
<1>3. CASE Admit(o)
  <2> DEFINE r      == op[o].req
             caller == VerifyRequest(r.auth, Users, Anonymous)
  <2>1. NotAllowed \in Errors /\ (caller.error = "none" \/ caller.error \in Errors)
    BY Refused DEF NotAllowed, Errors
  <2>2. r \in Menu /\ op[o].res = None
    BY <1>3 DEF Admit, At, Asked, Fore
  <2>3. \/ Fails(o, NotAllowed)
        \/ caller.error # "none" /\ Fails(o, caller.error)
        \/ /\ Dispatch(r) # NotAllowed /\ caller.error = "none"
           /\ Goes(o, [op[o] EXCEPT !.name = Dispatch(r), !.pc = "policy", !.who = caller.principal])
    BY <1>3 DEF Admit
  <2>u. caller.error = "none" /\ caller.principal = Nobody => r.auth.form = "none"
    BY Unnamed
  <2> HIDE DEF caller
  <2>4. CASE /\ Dispatch(r) # NotAllowed /\ caller.error = "none"
             /\ Goes(o, [op[o] EXCEPT !.name = Dispatch(r), !.pc = "policy", !.who = caller.principal])
    <3>1. PICK d : d = Known(op[o], Dispatch(r), caller.principal)
      OBVIOUS
    <3>2. op' = [op EXCEPT ![o] = d]
      BY <2>4, <3>1 DEF Goes, Becomes, Known
    <3>3. op'[o] = d
      BY <3>2 DEF TypeOK
    <3>4. /\ d.pc = "policy" /\ d.req = r /\ d.name = Dispatch(r) /\ d.res = None
          /\ d.who = caller.principal
      BY <1>0, <2>2, <3>1 DEF Known, IsRequest, Fields
    <3> QED
      BY <2>2, <2>4, <2>u, <3>3, <3>4 DEF Asked, Fore, Hind
  <2>5. CASE \E code \in Errors : Fails(o, code)
    BY <2>5, FailsEnds, DoneAsked DEF Failing, Ends
  <2> QED
    BY <2>1, <2>3, <2>4, <2>5
<1>4. CASE EnforcePolicy(o)
  <2>1. At(o, "policy")
    BY <1>4 DEF EnforcePolicy
  <2>2. Answered(o) \/ Turned(o) \/ Entered(o)
    BY <1>4, <2>1, EarlySteps DEF Came, Learned, At
  <2>3. CASE Answered(o) \/ Turned(o)
    BY <2>3, DoneAsked DEF Answered, Granting, Failing, Ends, Turned
  <2>4. CASE Entered(o)
    <3>1. op[o].req \in Menu /\ op[o].name = Dispatch(op[o].req) /\ op[o].name # NotAllowed
      BY <2>1 DEF Asked, At
    <3>2. op'[o].pc \in {"create", "test", "set", "check", "find", "read"}
      BY <2>4, FirstState DEF Entered
    <3> QED
      BY <2>4, <3>1, <3>2 DEF Asked, Entered, Fore, Hind
  <2> QED
    BY <2>2, <2>3, <2>4
<1> QED
  BY <1>1, <1>2, <1>3, <1>4

LEMMA LateAsked ==
  ASSUME TypeOK, NEW o \in Ops, Asked(op[o]), op[o].pc \in Hind, op'[o].pc \in Hind,
         Alike(op[o], op'[o]), op'[o].pc = "write" => Readable(op'[o].copy)
  PROVE  Asked(op'[o])
BY DEF Asked, Alike, Hind, Fore

LEMMA ConfigAsked ==
  ASSUME Plain(Menu), TypeOK, NEW o \in Ops, Named(o), DocumentInv,
         Create(o) \/ Default(o) \/ Set(o) \/ Write(o) \/ Commit(o) \/ Test(o) \/ RemoveAll(o)
  PROVE  Asked(op'[o]) /\ Readable(config') /\ Readable(configTmp')
<1>0. Readable(config) /\ Readable(configTmp) /\ Asked(op[o])
  BY DEF DocumentInv
<1>1. op[o].pc \in Hind
  BY ConfigSteps DEF At, Hind
<1>d. ASSUME op'[o].pc = "done" PROVE Asked(op'[o])
  BY <1>d, DoneAsked
<1>w. ASSUME NEW pc \in Hind \ {"write"}, Went(o, pc) PROVE Asked(op'[o])
  BY <1>0, <1>1, <1>w, LateAsked DEF Went
<1>x. ASSUME NEW x, Readable(x), WentWith(o, "write", x) PROVE Asked(op'[o])
  BY <1>0, <1>1, <1>x, LateAsked DEF WentWith, Hind
<1>h. {"commit", "default", "remove"} \subseteq Hind \ {"write"}
  BY DEF Hind
<1>2. CASE Create(o)
  <2>1. config' = config /\ configTmp' = configTmp
    BY <1>2, ConfigSteps DEF disk
  <2> QED
    BY <1>0, <1>2, <1>d, <1>x, <2>1, ConfigSteps, FreshReadable DEF Failing, Ends
<1>3. CASE Default(o)
  <2>1. config' = config /\ configTmp' = configTmp
    BY <1>3, ConfigSteps DEF disk
  <2>2. PICK x : x = [config EXCEPT !["versioning"] = "Enabled"]
    OBVIOUS
  <2>3. config # None => Readable(x)
    BY <1>0, <2>2, VersioningReadable
  <2>4. op'[o].pc = "done" \/ (config # None /\ WentWith(o, "write", x))
    BY <1>3, <2>2, ConfigSteps DEF Failing, Ends
  <2> QED
    BY <1>0, <1>d, <1>x, <2>1, <2>3, <2>4
<1>4. CASE Set(o)
  <2>1. config' = config /\ configTmp' = configTmp
    BY <1>4, ConfigSteps DEF disk
  <2>2. PICK x : x = Effect(o, config)
    OBVIOUS
  <2>3. op[o].name \in Setters /\ op[o].req \in Menu /\ op[o].name = Dispatch(op[o].req)
    BY <1>0, <1>1, <1>4, ConfigSteps DEF Named, At, Asked
  <2>4. config # None => Readable(x)
    BY <1>0, <2>2, <2>3, EffectReadable
  <2>5. op'[o].pc = "done" \/ (config # None /\ WentWith(o, "write", x))
    BY <1>4, <2>2, ConfigSteps DEF Failing, Ends
  <2> QED
    BY <1>0, <1>d, <1>x, <2>1, <2>4, <2>5
<1>5. CASE Write(o)
  <2>1. At(o, "write") /\ config' = config /\ configTmp' = op[o].copy /\ Went(o, "commit")
    BY <1>5, ConfigSteps DEF Disk!WriteConfig
  <2>2. Readable(op[o].copy)
    BY <1>0, <2>1 DEF Asked, At
  <2> QED
    BY <1>0, <1>h, <1>w, <2>1, <2>2
<1>6. CASE Commit(o)
  <2>1. \/ config' = config /\ configTmp' = configTmp
        \/ config' = configTmp /\ configTmp' = None
    BY <1>6, ConfigSteps DEF Disk!CommitConfig, disk
  <2>2. op'[o].pc = "done" \/ Went(o, "default")
    BY <1>6, ConfigSteps DEF Failing, Acked, Ends
  <2> QED
    BY <1>0, <1>d, <1>h, <1>w, <2>1, <2>2, FreshReadable
<1>7. CASE Test(o)
  <2>1. config' = config /\ configTmp' = configTmp
    BY <1>7, ConfigSteps DEF disk
  <2>2. op'[o].pc = "done" \/ Went(o, "remove")
    BY <1>7, ConfigSteps DEF Failing, Ends
  <2> QED
    BY <1>0, <1>d, <1>h, <1>w, <2>1, <2>2
<1>8. CASE RemoveAll(o)
  <2>1. config' = None /\ configTmp' = None
    BY <1>8, ConfigSteps DEF Disk!RemoveBucket
  <2>2. op'[o].pc = "done"
    BY <1>8, ConfigSteps DEF Acked, Ends
  <2> QED
    BY <1>d, <2>1, <2>2, FreshReadable
<1> QED
  BY <1>2, <1>3, <1>4, <1>5, <1>6, <1>7, <1>8

LEMMA ObjectAsked ==
  ASSUME TypeOK, NEW o \in Ops, Asked(op[o]),
         \/ PutCheck(o) \/ PutOpen(o) \/ PutPlace(o) \/ PutMetadata(o)
         \/ DeleteFind(o) \/ DeleteDrop(o) \/ Read(o)
  PROVE  Asked(op'[o]) /\ config' = config /\ configTmp' = configTmp
<1>1. op[o].pc \in Hind
  BY ObjectSteps DEF At, Hind
<1>w. ASSUME NEW pc \in Hind \ {"write"}, Went(o, pc) PROVE Asked(op'[o])
  BY <1>1, <1>w, LateAsked DEF Went
<1>x. ASSUME NEW x, WentWith(o, "drop", x) PROVE Asked(op'[o])
  BY <1>1, <1>x, LateAsked DEF WentWith, Hind
<1>h. {"open", "place", "metadata"} \subseteq Hind \ {"write"}
  BY DEF Hind
<1>2. \/ op'[o].pc = "done"
      \/ Went(o, "open") \/ Went(o, "place") \/ Went(o, "metadata")
      \/ WentWith(o, "drop", config)
  BY ObjectSteps DEF Answered, Granting, Failing, Ends
<1>3. UNCHANGED disk \/ \E p \in Ops, stage \in Disk!Stages : Disk!Leave(p, stage)
  <2>1. {"none", "tmp", "data", "object", "bare", "marked", "deleted"} = Disk!Stages
    BY DEF Disk!Stages
  <2>2. CASE PutCheck(o) \/ DeleteFind(o) \/ Read(o)
    BY <2>2, ObjectSteps
  <2>3. CASE PutOpen(o) \/ PutPlace(o) \/ PutMetadata(o)
    BY <2>1, <2>3, ObjectSteps DEF Disk!OpenUpload, Disk!PlaceUpload, Disk!CommitUpload
  <2>4. CASE DeleteDrop(o)
    BY <2>1, <2>4, ObjectSteps DEF Disk!DeleteUpload, Disk!DeleteMissing, Disk!disk, disk
  <2> QED
    BY <2>2, <2>3, <2>4
<1>4. config' = config /\ configTmp' = configTmp
  BY <1>3 DEF disk, Disk!Leave
<1> QED
  BY <1>2, <1>4, <1>h, <1>w, <1>x, DoneAsked

LEMMA DocumentsStay ==
  ASSUME Plain(Menu), IInv, DocumentInv, [Next]_vars
  PROVE  DocumentInv'
<1>0. TypeOK /\ (\A o \in Ops : Named(o)) /\ Readable(config) /\ Readable(configTmp)
      /\ \A o \in Ops : Asked(op[o])
  BY DEF IInv, DocumentInv
<1>1. CASE UNCHANGED vars
  BY <1>0, <1>1 DEF vars, DocumentInv
<1>2. CASE Crash
  <2>1. config' = config /\ configTmp' = configTmp
    BY <1>2 DEF Crash, disk
  <2>2. ASSUME NEW p \in Ops PROVE Asked(op'[p])
    <3>1. CASE InFlight(p)
      <4>1. op'[p].pc = "lost"
        BY <1>0, <1>2, <3>1, Losing DEF Crash
      <4> QED
        BY <4>1, DoneAsked
    <3>2. CASE ~ InFlight(p)
      <4>1. op'[p] = op[p]
        BY <1>2, <3>2 DEF Crash
      <4> QED
        BY <1>0, <4>1
    <3> QED
      BY <3>1, <3>2
  <2> QED
    BY <1>0, <2>1, <2>2 DEF DocumentInv
<1>3. ASSUME NEW o \in Ops, Step(o) PROVE DocumentInv'
  <2>1. Asked(op'[o]) /\ Readable(config') /\ Readable(configTmp')
    <3>1. CASE Receive(o) \/ Internal(o) \/ Preflight(o) \/ Admit(o) \/ EnforcePolicy(o)
      BY <1>0, <3>1, EarlyAsked, EarlySteps DEF disk
    <3>2. CASE Create(o) \/ Default(o) \/ Set(o) \/ Write(o) \/ Commit(o) \/ Test(o) \/ RemoveAll(o)
      BY <1>0, <3>2, ConfigAsked
    <3>3. CASE \/ PutCheck(o) \/ PutOpen(o) \/ PutPlace(o) \/ PutMetadata(o)
               \/ DeleteFind(o) \/ DeleteDrop(o) \/ Read(o)
      BY <1>0, <3>3, ObjectAsked
    <3> QED
      BY <1>3, <3>1, <3>2, <3>3 DEF Step
  <2>2. ASSUME NEW p \in Ops, p # o PROVE Asked(op'[p])
    <3>1. /\ op'[p].pc = op[p].pc /\ op'[p].name = op[p].name /\ op'[p].copy = op[p].copy
          /\ op'[p].req = op[p].req /\ op'[p].res = op[p].res /\ op'[p].who = op[p].who
      BY <1>0, <1>3, <2>2, Others
    <3> QED
      BY <1>0, <3>1 DEF Asked
  <2> QED
    BY <2>1, <2>2 DEF DocumentInv
<1> QED
  BY <1>1, <1>2, <1>3 DEF Next

LEMMA DocumentsFirst == Init => DocumentInv
<1> SUFFICES ASSUME Init PROVE DocumentInv
  OBVIOUS
<1>1. config \in {None, Disk!Fresh} /\ configTmp = None /\ op = [o \in Ops |-> Idle]
  BY DEF Init, Disk!Init
<1>2. Idle.pc = "idle"
  BY DEF Idle
<1> QED
  BY <1>1, <1>2, FreshReadable, DoneAsked DEF DocumentInv

\* Some bucket.json that the request may know judges as the policy did.
LEMMA SomeKnown ==
  ASSUME NEW o \in Ops, Expects(op[o].may), Readable(config), op[o].req.bucket, op[o].req.key,
         op[o].req.query \cap {"uploadId", "uploads", "tagging"} = {},
         op[o].name = Dispatch(op[o].req), op[o].name # NotAllowed,
         op[o].req \in Menu, op[o].who = Nobody => op[o].req.auth.form = "none"
  PROVE  /\ Verdict(o, config) = "allow" => \E c \in op[o].may : Permits(c, o)
         /\ Verdict(o, config) = "deny" => \E c \in op[o].may : ~ Permits(c, o)
<1>1. /\ Verdict(o, config) = "allow" => Permits(config, o)
      /\ Verdict(o, config) = "deny" => ~ Permits(config, o) /\ config # None /\ config["policy"] # Unset
  BY VerdictAsRead
<1>2. CASE config \in op[o].may
  BY <1>1, <1>2
<1>3. CASE config = Disk!Fresh /\ None \in op[o].may
  <2>1. config["policy"] = Unset
    BY <1>3, ConfigAssumption DEF Disk!Fresh
  <2>2. Permits(None, o)
    BY DEF Permits
  <2> QED
    BY <1>1, <1>3, <2>1, <2>2
<1> QED
  BY <1>2, <1>3 DEF Expects

\* Policies and CORS rules are in force from their acknowledgement on, as one reads
\* them off the document, for the documents that Denies and Allows can read and that do
\* not let in a request without a signature, which the code turns away (server.js
\* l.229-245, 779-803, policy.js l.17-63).
THEOREM Enforcement == ASSUME Plain(Menu) PROVE Spec => PolicyInForce
<1>1. ASSUME IInv, DocumentInv, Next, NEW o \in Ops, ~ raced
      PROVE  /\ At(o, "policy") /\ op[o].req.key =>
                  /\ op'[o].passed => \E c \in op[o].may : Permits(c, o)
                  /\ op'[o].res = "AccessDenied" => \E c \in op[o].may : ~ Permits(c, o)
             /\ At(o, "preflight") /\ op'[o].pc = "done" /\ op[o].req.arg # None =>
                  (op'[o].res = "ok") \in {PreflightAllowed(c, op[o].req.arg) : c \in op[o].may}
  <2>0. /\ TypeOK /\ Living(o) /\ Asked(op[o]) /\ Readable(config)
        /\ At(o, "policy") => ~ op[o].passed
        /\ At(o, "policy") \/ At(o, "preflight") => Expects(op[o].may)
        /\ At(o, "policy") => op[o].res # "AccessDenied"
    BY <1>1, NoneAssumption DEF IInv, Living, Expected, At, Fore, DocumentInv, Asked
  <2>1. CASE Crash
    <3>1. At(o, "policy") \/ At(o, "preflight") => InFlight(o)
      BY DEF At, InFlight, Ended
    <3>2. InFlight(o) => op'[o] = [Idle EXCEPT !.pc = "lost", !.req = op[o].req, !.life = op[o].life]
      BY <2>1 DEF Crash
    <3>3. InFlight(o) => op'[o].pc = "lost" /\ ~ op'[o].passed /\ op'[o].res # "AccessDenied"
      BY <3>2, NoneAssumption DEF Idle
    <3> QED
      BY <3>1, <3>3
  <2>2. ASSUME NEW p \in Ops, p # o, Step(p)
        PROVE  op'[o].pc = op[o].pc /\ op'[o].passed = op[o].passed /\ op'[o].res = op[o].res
    BY <2>0, <2>2, Others
  <2>3. CASE Step(o)
    <3>1. ASSUME At(o, "policy"), op[o].req.key
          PROVE  /\ op'[o].passed => \E c \in op[o].may : Permits(c, o)
                 /\ op'[o].res = "AccessDenied" => \E c \in op[o].may : ~ Permits(c, o)
      <4>1. /\ op[o].req \in Menu /\ op[o].name = Dispatch(op[o].req) /\ op[o].name # NotAllowed
            /\ op[o].who = Nobody => op[o].req.auth.form = "none"
        BY <2>0, <3>1 DEF Asked, At
      <4>2. op[o].req.bucket /\ op[o].req.query \cap {"uploadId", "uploads", "tagging"} = {}
        BY <3>1, <4>1 DEF Plain
      <4>3. /\ Verdict(o, config) = "allow" => \E c \in op[o].may : Permits(c, o)
            /\ Verdict(o, config) = "deny" => \E c \in op[o].may : ~ Permits(c, o)
        BY <2>0, <3>1, <4>1, <4>2, SomeKnown
      <4> QED
        BY <2>0, <2>3, <3>1, <4>3, PolicyStep
    <3>2. ASSUME At(o, "preflight"), op[o].req.arg # None
          PROVE  (op'[o].res = "ok") \in {PreflightAllowed(c, op[o].req.arg) : c \in op[o].may}
      <4>1. PICK c \in op[o].may :
              PreflightAllowed(c, op[o].req.arg) = PreflightAllowed(config, op[o].req.arg)
        BY <2>0, <3>2, Expecting
      <4>2. (op'[o].res = "ok") = PreflightAllowed(c, op[o].req.arg)
        BY <2>0, <2>3, <3>2, <4>1, PreflightStep
      <4> QED
        BY <4>2
    <3> QED
      BY <3>1, <3>2
  <2> QED
    BY <1>1, <2>0, <2>1, <2>2, <2>3 DEF Next, At
<1>2. IInv /\ DocumentInv /\ [Next]_vars =>
        [\A o \in Ops :
           LET now == op'[o] IN
           ~ raced =>
             /\ At(o, "policy") /\ op[o].req.key =>
                  /\ now.passed => \E c \in op[o].may : Permits(c, o)
                  /\ now.res = "AccessDenied" => \E c \in op[o].may : ~ Permits(c, o)
             /\ At(o, "preflight") /\ now.pc = "done" /\ op[o].req.arg # None =>
                  (now.res = "ok") \in {PreflightAllowed(c, op[o].req.arg) : c \in op[o].may}]_vars
  BY <1>1
<1>3. IInv /\ DocumentInv /\ [Next]_vars => DocumentInv'
  BY DocumentsStay
<1> QED
  BY <1>2, <1>3, DocumentsFirst, Invariance, PTL DEF Spec, PolicyInForce

\* No policy lets in a request without a signature: it is not allowed by bucket.json
\* while that has a policy, whatever the policy says, though README.md l.216-217 and
\* policy.js l.22-24 have it that an explicit Allow does (policy.js l.67, server.js
\* l.229-245).
THEOREM UnsignedTurnedAway ==
  Spec => [][\A o \in Ops :
               /\ At(o, "policy") /\ op[o].who = Nobody
               /\ op[o].req.bucket /\ ActionOf(op[o].name) # <<>>
               /\ config # None /\ config["policy"] # Unset
               => ~ op'[o].passed]_vars
<1>1. ASSUME IInv, Next, NEW o \in Ops, At(o, "policy"), op[o].who = Nobody,
             op[o].req.bucket, ActionOf(op[o].name) # <<>>, config # None, config["policy"] # Unset
      PROVE  ~ op'[o].passed
  <2>0. TypeOK /\ Living(o) /\ ~ op[o].passed
    BY <1>1 DEF IInv, Living, At
  <2>1. CASE Crash
    <3>1. InFlight(o)
      BY <1>1 DEF At, InFlight, Ended
    <3>2. op'[o] = [Idle EXCEPT !.pc = "lost", !.req = op[o].req, !.life = op[o].life]
      BY <2>1, <3>1 DEF Crash
    <3> QED
      BY <3>2 DEF Idle
  <2>2. ASSUME NEW p \in Ops, p # o, Step(p)
        PROVE  ~ op'[o].passed
    BY <2>0, <2>2, Others
  <2>3. CASE Step(o)
    <3>1. Verdict(o, config) # "allow"
      <4>1. Verdict(o, config)
              = EvaluatePolicy(config["policy"], Nobody, ActionOf(op[o].name), Resource(op[o].req))
        BY <1>1 DEF Verdict
      <4>2. \A s \in config["policy"] : ~ StmtMatches(s, Nobody, ActionOf(op[o].name), Resource(op[o].req))
        BY DEF StmtMatches
      <4> QED
        BY <4>1, <4>2 DEF EvaluatePolicy
    <3> QED
      BY <1>1, <2>0, <2>3, <3>1, PolicyStep
  <2> QED
    BY <1>1, <2>1, <2>2, <2>3 DEF Next
<1>2. IInv /\ [Next]_vars =>
        [\A o \in Ops :
           /\ At(o, "policy") /\ op[o].who = Nobody
           /\ op[o].req.bucket /\ ActionOf(op[o].name) # <<>>
           /\ config # None /\ config["policy"] # Unset
           => ~ op'[o].passed]_vars
  BY <1>1
<1> QED
  BY <1>2, Invariance, PTL DEF Spec
=============================================================================
