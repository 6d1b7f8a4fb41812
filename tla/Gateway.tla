------------------------------- MODULE Gateway -------------------------------
(***************************************************************************)
(* The server's way with a request (src/src/server.js, _handle): CORS      *)
(* preflights, dispatch, authentication, the bucket's policy, hooks, then  *)
(* the operation, over one bucket of the disk backend, whose settings are  *)
(* administered by requests like any other.                                *)
(*                                                                         *)
(* Requests are numbered in the order in which they come in.  A request is *)
(* a record of Menu: [method, bucket, key, query] as in Requests, whether  *)
(* it is for an internal endpoint, its signature, and the argument in its  *)
(* body or headers.  What the operations on versions, copies, object tags, *)
(* multipart uploads and listings do is the subject of other modules: the  *)
(* menu has none of those that change something.                           *)
(***************************************************************************)
EXTENDS Naturals, FiniteSets, Policy, Requests

CONSTANTS
  MaxRequests,   \* bound: how many requests come in
  MaxInFlight,   \* bound: how many overlap
  MaxCrashes,    \* bound: how often the process is killed
  Menu,          \* the requests that clients send
  Settings, Unset, None,
  Malformed,     \* a body that is not well formed
  Users,         \* the access keys of auth.users
  Anonymous,     \* auth.anonymous
  DefaultVersioning, \* versioning.default
  Denying        \* the hooks with a function that answers some requests itself

Ops == 1 .. MaxRequests

ASSUME BoundsAssumption == {MaxRequests, MaxInFlight, MaxCrashes} \subseteq Nat
ASSUME ConfigAssumption == Anonymous \in BOOLEAN /\ DefaultVersioning \in BOOLEAN
                           /\ {"versioning", "policy", "cors"} \subseteq Settings
ASSUME UsersAssumption == Nobody \notin Users
ASSUME NoneAssumption == /\ None \notin [Settings -> {Unset, "Enabled"}]
                         /\ None \notin {"PutObject", "AccessDenied"}

VARIABLES
  config, configTmp, files, \* the bucket's directory, see DiskBuckets
  op,        \* op[o]: the state of request o
  metrics,   \* the server's counters
  held,      \* what bucket.json may be: what the acknowledged requests have made
             \*   of it, and what those cut short by a crash may have
  raced,     \* requests that change bucket.json have overlapped
  crashes

Disk == INSTANCE DiskBuckets WITH Uploads <- Ops

disk  == <<config, configTmp, files>>
ghost == <<held, raced, crashes>>
vars  == <<config, configTmp, files, op, metrics, held, raced, crashes>>

NoMetrics == [requests |-> 0, errors |-> 0, operations |-> 0, statuses |-> 0]

\* The state of a request that has not come in.
Idle == [pc |-> "idle", req |-> None, name |-> None,
         who |-> None,        \* the principal
         copy |-> None,       \* its copy of bucket.json
         may |-> {},          \* what bucket.json may have been since it came in
         exposed |-> FALSE,   \* it overlapped with the removal of the bucket
         life |-> 0,          \* the process that it came to
         passed |-> FALSE,    \* it was counted as an operation
         res |-> None]        \* the answer: "ok", "refused" by a hook, "bad request",
                              \*   or an error code

Init == /\ Disk!Init
        /\ op = [o \in Ops |-> Idle]
        /\ metrics = NoMetrics
        /\ held = {config} /\ raced = FALSE /\ crashes = 0

-----------------------------------------------------------------------------
(* The state of a request.                                                 *)

At(o, pc)   == op[o].pc = pc
Ended(o)    == op[o].pc \in {"done", "lost"}
InFlight(o) == op[o].pc # "idle" /\ ~ Ended(o)

Becomes(o, r) == op' = [op EXCEPT ![o] = r]

\* The request goes on, and nothing is counted.
Goes(o, r) == Becomes(o, r) /\ UNCHANGED <<metrics, ghost>>

Done(o, res) == [Idle EXCEPT !.pc = "done", !.req = op[o].req, !.name = op[o].name,
                             !.exposed = op[o].exposed \/ \E d \in Ops : At(d, "remove"),
                             !.life = op[o].life,
                             !.passed = op[o].passed, !.res = res]

\* _sendResponse and _recordStatus.
Answers(o, res) ==
  /\ op' = [op EXCEPT ![o] = Done(o, res)]
  /\ metrics' = [metrics EXCEPT !.statuses = @ + 1]

Ok(o, res) == Answers(o, res) /\ UNCHANGED ghost

\* Mutant: _handle records the status of a failed request once more.
FailsCountedTwice(o, code) ==
  /\ op' = [op EXCEPT ![o] = Done(o, code)]
  /\ metrics' = [metrics EXCEPT !.errors = @ + 1, !.statuses = @ + 2]
  /\ UNCHANGED ghost

\* _handleError
Fails(o, code) ==
  /\ op' = [op EXCEPT ![o] = Done(o, code)]
  /\ metrics' = [metrics EXCEPT !.errors = @ + 1, !.statuses = @ + 1]
  /\ UNCHANGED ghost

-----------------------------------------------------------------------------
(* Until the operation.                                                    *)

\* _handle l.172-185: the server counts the request, and looks at the path and
\* the method.
Receive(o) ==
  /\ At(o, "idle") /\ \A p \in 1 .. o - 1 : ~ At(p, "idle")
  /\ Cardinality({p \in Ops : InFlight(p)}) < MaxInFlight
  /\ \E r \in Menu :
       Becomes(o, [Idle EXCEPT !.req = r, !.may = held, !.life = crashes,
                               !.pc = CASE r.internal -> "internal"
                                        [] ~ r.internal /\ r.method = "OPTIONS" -> "preflight"
                                        [] OTHER -> "admit"])
  /\ metrics' = [metrics EXCEPT !.requests = @ + 1]
  /\ UNCHANGED <<disk, ghost>>

\* _handleInternal: health, info, metrics and functions answer or throw, and change
\* nothing.  What the endpoint of the lifecycle does is in DiskObjects and
\* DiskMultipart.
Internal(o) ==
  /\ At(o, "internal")
  /\ Ok(o, "ok") \/ Fails(o, "InternalFailed")
  /\ UNCHANGED disk

Rules(c) == IF c = None THEN {} ELSE IF c["cors"] = Unset THEN {} ELSE c["cors"]

PreflightAllowed(c, a) == CorsAllows(Rules(c), a.origin, a.method, a.headers)

\* _handlePreflight: the rules alone decide; no header, no question.
Preflight(o) ==
  /\ At(o, "preflight")
  /\ LET a == op[o].req.arg
     IN  IF a = None THEN Ok(o, "bad request")
         ELSE IF PreflightAllowed(config, a) THEN Ok(o, "ok")
         ELSE Fails(o, "AccessForbidden")
  /\ UNCHANGED disk

\* _dispatch, then _authorize: the signature is verified.  The headers that
\* _applyCors has added to the answer are left out.
Admit(o) ==
  /\ At(o, "admit")
  /\ LET r      == op[o].req
         caller == VerifyRequest(r.auth, Users, Anonymous)
     IN  IF Dispatch(r) = NotAllowed THEN Fails(o, NotAllowed)
         ELSE IF caller.error # "none" THEN Fails(o, caller.error)
         ELSE Goes(o, [op[o] EXCEPT !.name = Dispatch(r), !.pc = "policy", !.who = caller.principal])
  /\ UNCHANGED disk

Resource(r) == IF r.key THEN <<"bucket", "/", "key">> ELSE <<"bucket">>

\* What the policy in bucket.json says of request o; without a policy, and for an
\* operation without an action, it is allowed.
Verdict(o, c) ==
  IF ~ op[o].req.bucket \/ ActionOf(op[o].name) = <<>> \/ c = None THEN "allow"
  ELSE IF c["policy"] = Unset THEN "allow"
  ELSE EvaluatePolicy(c["policy"], op[o].who, ActionOf(op[o].name), Resource(op[o].req))

SettingOf(name) ==
  CASE name \in {"GetBucketVersioning", "SetBucketVersioning"}                        -> "versioning"
    [] name \in {"GetBucketPolicy", "PutBucketPolicy", "DeleteBucketPolicy"}          -> "policy"
    [] name \in {"GetBucketCors", "PutBucketCors", "DeleteBucketCors"}                -> "cors"
    [] name \in {"GetBucketTagging", "PutBucketTagging", "DeleteBucketTagging"}       -> "tagging"
    [] name \in {"GetBucketLifecycle", "PutBucketLifecycle", "DeleteBucketLifecycle"} -> "lifecycle"

Deleters == {"DeleteBucketPolicy", "DeleteBucketCors", "DeleteBucketTagging", "DeleteBucketLifecycle"}
Setters  == Deleters \cup {"SetBucketVersioning", "PutBucketPolicy", "PutBucketCors",
                           "PutBucketTagging", "PutBucketLifecycle"}
Readers  == {"GetBucketVersioning", "GetBucketPolicy", "GetBucketCors", "GetBucketTagging",
             "GetBucketLifecycle"}

\* The first step of the operation.
First(name) == CASE name = "CreateBucket" -> "create"
                 [] name = "DeleteBucket" -> "test"
                 [] name \in Setters      -> "set"
                 [] name = "PutObject"    -> "check"
                 [] name = "DeleteObject" -> "find"
                 [] OTHER                 -> "read"

\* Request o is changing bucket.json, or about to.
Administers(o) == op[o].pc \in {"create", "default", "set", "write", "commit", "test", "remove"}

\* Mutant: the operation is carried out before the policy is asked.
EnforcePolicyLate(o) ==
  /\ At(o, "policy")
  /\ Becomes(o, [op[o] EXCEPT !.passed = TRUE, !.pc = First(op[o].name)])
  /\ metrics' = [metrics EXCEPT !.operations = @ + 1]
  /\ UNCHANGED <<disk, ghost>>

\* _enforcePolicy, _recordOp and runHooks.
EnforcePolicy(o) ==
  /\ At(o, "policy")
  /\ LET verdict == Verdict(o, config)
         passed  == [metrics EXCEPT !.operations = @ + 1]
         first   == First(op[o].name)
     IN  \/ verdict = "deny" /\ Fails(o, "AccessDenied")
         \/ verdict = "throws" /\ Fails(o, "InternalError")
         \/ /\ verdict = "allow" /\ HookOf(op[o].name) \in Denying
            /\ op' = [op EXCEPT ![o] = [Done(o, "refused") EXCEPT !.passed = TRUE]]
            /\ metrics' = [passed EXCEPT !.statuses = @ + 1]
            /\ UNCHANGED ghost
         \/ /\ verdict = "allow"
            /\ Becomes(o, [op[o] EXCEPT !.passed = TRUE, !.pc = first])
            /\ metrics' = passed
            /\ raced' = (raced \/ /\ first \in {"create", "set", "test"}
                                  /\ \E p \in Ops : Administers(p))
            /\ UNCHANGED <<held, crashes>>
  /\ UNCHANGED disk

-----------------------------------------------------------------------------
(* The bucket and its settings.                                            *)

NewValue(o) == IF op[o].name \in Deleters \/ op[o].req.arg = Malformed THEN Unset ELSE op[o].req.arg

\* What request o makes of the bucket.
Effect(o, c) ==
  CASE op[o].name = "CreateBucket" ->
         IF DefaultVersioning THEN [Disk!Fresh EXCEPT !["versioning"] = "Enabled"] ELSE Disk!Fresh
    [] op[o].name = "DeleteBucket" -> None
    [] OTHER -> IF c = None THEN None ELSE [c EXCEPT ![SettingOf(op[o].name)] = NewValue(o)]

\* The change is acknowledged: from now on it is what the others may meet.
Acknowledges(o) ==
  /\ held' = {Effect(o, c) : c \in held}
  /\ op' = [p \in Ops |->
              IF p = o THEN Done(o, "ok")
              ELSE IF ~ InFlight(p) THEN op[p]
              ELSE [op[p] EXCEPT !.may = @ \cup held',
                                 !.exposed = @ \/ op[o].name = "DeleteBucket"]]
  /\ metrics' = [metrics EXCEPT !.statuses = @ + 1]
  /\ UNCHANGED <<raced, crashes>>

\* _createBucket
Create(o) ==
  /\ At(o, "create")
  /\ IF config # None THEN Fails(o, "BucketAlreadyExists")
     ELSE Goes(o, [op[o] EXCEPT !.copy = Disk!Fresh, !.pc = "write"])
  /\ UNCHANGED disk

\* ... and, with versioning.default, setVersioning.
Default(o) ==
  /\ At(o, "default")
  /\ IF config = None THEN Fails(o, "NoSuchBucket")
     ELSE Goes(o, [op[o] EXCEPT !.copy = [config EXCEPT !["versioning"] = "Enabled"], !.pc = "write"])
  /\ UNCHANGED disk

\* A lifecycle or a tagging that is not well formed is one without entries.
Rejects(name, arg) == arg = Malformed /\ name \in {"SetBucketVersioning", "PutBucketPolicy", "PutBucketCors"}

\* Mutant: the other settings are forgotten.
SetFresh(o) ==
  /\ At(o, "set")
  /\ IF config = None THEN Fails(o, "NoSuchBucket")
     ELSE Goes(o, [op[o] EXCEPT !.copy = [Disk!Fresh EXCEPT ![SettingOf(op[o].name)] = NewValue(o)],
                                !.pc = "write"])
  /\ UNCHANGED disk

\* The setters: the body is read and looked at, or breaks off, and bucket.json read.
Set(o) ==
  /\ At(o, "set")
  /\ \/ IF Rejects(op[o].name, op[o].req.arg) THEN Fails(o, "Malformed")
        ELSE IF config = None THEN Fails(o, "NoSuchBucket")
        ELSE Goes(o, [op[o] EXCEPT !.copy = Effect(o, config), !.pc = "write"])
     \/ op[o].name \notin Deleters /\ Fails(o, "InternalError")
  /\ UNCHANGED disk

Write(o) ==
  /\ At(o, "write")
  /\ Disk!WriteConfig(op[o].copy)
  /\ Goes(o, [op[o] EXCEPT !.pc = "commit"])

Commit(o) ==
  /\ At(o, "commit")
  /\ IF configTmp = None THEN Fails(o, "InternalError") /\ UNCHANGED disk
     ELSE /\ Disk!CommitConfig
          /\ IF op[o].name = "CreateBucket" /\ DefaultVersioning /\ op[o].copy = Disk!Fresh
             THEN Goes(o, [op[o] EXCEPT !.pc = "default"])
             ELSE Acknowledges(o)

\* Mutant: the bucket need not be empty.
TestForce(o) ==
  /\ At(o, "test")
  /\ IF config = None THEN Fails(o, "NoSuchBucket") ELSE Goes(o, [op[o] EXCEPT !.pc = "remove"])
  /\ UNCHANGED disk

\* deleteBucket, its test, ...
Test(o) ==
  /\ At(o, "test")
  /\ IF config = None THEN Fails(o, "NoSuchBucket")
     ELSE IF ~ Disk!Empty THEN Fails(o, "BucketNotEmpty")
     ELSE Goes(o, [op[o] EXCEPT !.pc = "remove"])
  /\ UNCHANGED disk

\* ... and the removal.
RemoveAll(o) ==
  /\ At(o, "remove")
  /\ Disk!RemoveBucket
  /\ Acknowledges(o)

-----------------------------------------------------------------------------
(* Objects, as far as the bucket is concerned.                             *)

PutCheck(o) ==
  /\ At(o, "check")
  /\ IF config = None THEN Fails(o, "NoSuchBucket") ELSE Goes(o, [op[o] EXCEPT !.pc = "open"])
  /\ UNCHANGED disk

PutOpen(o) ==
  /\ At(o, "open")
  /\ Disk!OpenUpload(o)
  /\ Goes(o, [op[o] EXCEPT !.pc = "place"])

\* The body comes in, or breaks off; without the ".tmp" the renaming fails.
PutPlace(o) ==
  /\ At(o, "place")
  /\ \/ Disk!PlaceUpload(o) /\ Goes(o, [op[o] EXCEPT !.pc = "metadata"])
     \/ Fails(o, "InternalError") /\ UNCHANGED disk

\* The metadata; only now is the digest compared.
PutMetadata(o) ==
  /\ At(o, "metadata")
  /\ Disk!CommitUpload(o)
  /\ IF op[o].req.arg = "wrong digest" THEN Fails(o, "BadDigest") ELSE Ok(o, "ok")

\* deleteObject reads the versioning, ...
DeleteFind(o) ==
  /\ At(o, "find")
  /\ IF config = None THEN Fails(o, "NoSuchBucket") ELSE Goes(o, [op[o] EXCEPT !.copy = config, !.pc = "drop"])
  /\ UNCHANGED disk

\* ... then deletes.
DeleteDrop(o) ==
  /\ At(o, "drop")
  /\ LET versioned == op[o].copy["versioning"] = "Enabled"
     IN  \/ \E p \in Ops : Disk!DeleteUpload(p, versioned)
         \/ Disk!DeleteMissing(o, versioned)
  /\ Ok(o, "ok")

\* Requests that change nothing.  Whether an object or an upload is there is the
\* subject of other modules.
Read(o) ==
  /\ At(o, "read")
  /\ LET name == op[o].name
     IN  \/ /\ \/ name = "ListBuckets"
               \/ config # None /\ (name \in Readers \ {"GetBucketVersioning"} => config[SettingOf(name)] # Unset)
            /\ Ok(o, "ok")
         \/ /\ \/ name # "ListBuckets" /\ config = None
               \/ name \in Readers \ {"GetBucketVersioning"} /\ config # None /\ config[SettingOf(name)] = Unset
               \/ op[o].req.key
            /\ Fails(o, "NotFound")
  /\ UNCHANGED disk

-----------------------------------------------------------------------------
Step(o) ==
  \/ Receive(o) \/ Internal(o) \/ Preflight(o) \/ Admit(o) \/ EnforcePolicy(o)
  \/ Create(o) \/ Default(o) \/ Set(o) \/ Write(o) \/ Commit(o) \/ Test(o) \/ RemoveAll(o)
  \/ PutCheck(o) \/ PutOpen(o) \/ PutPlace(o) \/ PutMetadata(o)
  \/ DeleteFind(o) \/ DeleteDrop(o) \/ Read(o)

\* What bucket.json may be when the process is killed: what it was asked may have
\* happened or not.
AfterCrash ==
  LET cut == {o \in Ops : Administers(o)}
  IN  held \cup (UNION {{Effect(o, c) : c \in held} : o \in cut})
           \cup {c \in {Disk!Fresh} : \E o \in cut : op[o].name = "CreateBucket"}

Crash ==
  /\ crashes < MaxCrashes
  /\ crashes' = crashes + 1
  /\ op' = [o \in Ops |-> IF ~ InFlight(o) THEN op[o]
                          ELSE [Idle EXCEPT !.pc = "lost", !.req = op[o].req, !.life = op[o].life]]
  /\ metrics' = NoMetrics
  /\ held' = AfterCrash
  /\ UNCHANGED <<disk, raced>>

Next == Crash \/ \E o \in Ops : Step(o)

Spec == Init /\ [][Next]_vars

-----------------------------------------------------------------------------
(* Properties.                                                             *)

\* As long as no two requests that change the settings overlap, bucket.json holds
\* what the acknowledged ones have made of it, however many others were refused,
\* broke off or were cut short by a crash (writeJsonAtomic and the setters'
\* reading before writing, disk.js l.161-179, 617-688).
ConfigAsAcknowledged ==
  ~ raced /\ (\A o \in Ops : ~ Administers(o)) => config \in held

\* The object requests that a statement is about, read off the document: their verb
\* is that of the method.
Covers(s, r) ==
  LET verb   == CASE r.method \in {"GET", "HEAD"} -> "Get" [] r.method = "PUT" -> "Put" [] OTHER -> "Delete"
      covers(patterns, t) == \E p \in patterns : IsPrefix(p.head, t)
  IN  /\ covers(s.actions, <<"s3:", verb, "Object">>)
      /\ covers(s.resources, <<"bucket", "/", "key">>)

Denies(s, r) == s.effect = "deny" /\ Covers(s, r)
Allows(s, r) == s.effect = "allow" /\ Everybody \in s.principals /\ Covers(s, r)

\* What the documentation promises of a policy: an explicit Deny wins, and a request
\* that nobody has signed requires an explicit Allow.
Permits(c, o) ==
  \/ c = None \/ c["policy"] = Unset
  \/ /\ c["policy"] # NullDocument
     /\ \A s \in c["policy"] : ~ Denies(s, op[o].req)
     /\ op[o].who # Nobody \/ \E s \in c["policy"] : Allows(s, op[o].req)

\* What this reading is made for: documents that deny to everybody and leave the ends
\* of their patterns open, and requests on objects that read, write, copy or delete.
PlainDocument(d) ==
  \A s \in d :
    /\ s.effect = "deny" => Everybody \in s.principals
    /\ \A p \in s.actions \cup s.resources : p.head \in Seq(STRING) /\ p = Beginning(p.head)

\* The document lets in no object request without a signature.
Ungranted(d, r) ==
  r.key /\ r.auth.form = "none" /\ Dispatch(r) # NotAllowed =>
    ((\E s \in d : Allows(s, r)) => \E s \in d : Denies(s, r))

Plain(menu) ==
  \A r \in menu :
    /\ r.key => r.bucket /\ r.query \cap {"uploadId", "uploads", "tagging"} = {}
    /\ Dispatch(r) = "PutBucketPolicy" =>
         \/ r.arg \in {Malformed, NullDocument}
         \/ PlainDocument(r.arg) /\ \A q \in menu : Ungranted(r.arg, q)

\* Policies and CORS rules are in force from their acknowledgement on: an object
\* request is let in only if a policy permits it that was acknowledged or still on
\* its way when the request came in or later, it is turned away by its policy only
\* if one of these does not, and likewise for preflights (server.js l.229-245,
\* 779-803: each request reads bucket.json anew).
PolicyInForce ==
  [][\A o \in Ops :
       LET now == op'[o] IN
       ~ raced =>
         /\ At(o, "policy") /\ op[o].req.key =>
              /\ now.passed => \E c \in op[o].may : Permits(c, o)
              /\ now.res = "AccessDenied" => \E c \in op[o].may : ~ Permits(c, o)
         /\ At(o, "preflight") /\ now.pc = "done" /\ op[o].req.arg # None =>
              (now.res = "ok") \in {PreflightAllowed(c, op[o].req.arg) : c \in op[o].may}]_vars

\* A put that was answered did what it was answered.  One that was acknowledged, or
\* answered BadDigest when the object had been stored already, is there until it is
\* deleted, if it was not under way between the test and the end of a removal of the
\* bucket; of one that was, no half is left: its object may be gone, or lack the
\* data, but it is not a file that nobody renames any more.  One that failed or was
\* refused otherwise is not there (server.js l.533-538, disk.js l.108-113, 191-229).
PutsAsAnswered ==
  \A o \in Ops :
    At(o, "done") /\ op[o].name = "PutObject" =>
      IF op[o].res \in {"ok", "BadDigest"}
      THEN files[o] \in {"object", "marked", "deleted"} \cup (IF op[o].exposed THEN {"bare", "none"} ELSE {})
      ELSE files[o] \in {"none", "tmp"}

\* The counters of the process agree: each request it was sent is counted once by
\* its status when it has been answered, once as an error if it failed, and once
\* as an operation if it was let in (_handle and _handleError, l.172-221, 880-887).
MetricsAddUp ==
  LET mine     == {o \in Ops : ~ At(o, "idle") /\ op[o].life = crashes}
      answered == {o \in mine : At(o, "done")}
      failed   == {o \in answered : op[o].res \notin {"ok", "refused", "bad request"}}
  IN  metrics = [requests   |-> Cardinality(mine),
                 statuses   |-> Cardinality(answered),
                 errors     |-> Cardinality(failed),
                 operations |-> Cardinality({o \in mine : op[o].passed})]
=============================================================================
