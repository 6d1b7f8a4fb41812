------------------------------ MODULE Requests ------------------------------
(***************************************************************************)
(* The tables of the server (src/src/server.js): which operation a request *)
(* asks for, under which action a policy knows it, and which hook it runs. *)
(*                                                                         *)
(* A request has a method, may name a bucket and a key, and has a set of   *)
(* query parameters; "copy" stands among them for the header               *)
(* x-amz-copy-source, and "list-type=2" for that value.                    *)
(***************************************************************************)
EXTENDS Naturals, Sequences

NotAllowed == "MethodNotAllowed"

\* The operations of a method on a bucket, each with the parameters it needs: the
\* first that fits is meant.
BucketOps ==
  [GET    |-> << <<{"location"}, "GetBucketLocation">>, <<{"versioning"}, "GetBucketVersioning">>,
                 <<{"tagging"}, "GetBucketTagging">>, <<{"policy"}, "GetBucketPolicy">>,
                 <<{"lifecycle"}, "GetBucketLifecycle">>, <<{"cors"}, "GetBucketCors">>,
                 <<{"uploads"}, "ListMultipartUploads">>, <<{"versions"}, "ListObjectVersions">>,
                 <<{"list-type=2"}, "ListObjectsV2">>, <<{}, "ListObjects">> >>,
   PUT    |-> << <<{"versioning"}, "SetBucketVersioning">>, <<{"tagging"}, "PutBucketTagging">>,
                 <<{"policy"}, "PutBucketPolicy">>, <<{"lifecycle"}, "PutBucketLifecycle">>,
                 <<{"cors"}, "PutBucketCors">>, <<{}, "CreateBucket">> >>,
   HEAD   |-> << <<{}, "HeadBucket">> >>,
   DELETE |-> << <<{"tagging"}, "DeleteBucketTagging">>, <<{"policy"}, "DeleteBucketPolicy">>,
                 <<{"lifecycle"}, "DeleteBucketLifecycle">>, <<{"cors"}, "DeleteBucketCors">>,
                 <<{}, "DeleteBucket">> >>,
   POST   |-> << <<{"delete"}, "DeleteObjects">>, <<{"uploads"}, "CreateMultipartUpload">>,
                 <<{"versioning"}, "SetBucketVersioning">> >>]

ObjectOps ==
  [GET    |-> << <<{"uploadId"}, "ListParts">>, <<{"tagging"}, "GetObjectTagging">>,
                 <<{}, "GetObject">> >>,
   PUT    |-> << <<{"uploadId", "partNumber"}, "UploadPart">>, <<{"tagging"}, "PutObjectTagging">>,
                 <<{"copy"}, "CopyObject">>, <<{}, "PutObject">> >>,
   HEAD   |-> << <<{}, "HeadObject">> >>,
   DELETE |-> << <<{"uploadId"}, "AbortMultipartUpload">>, <<{"tagging"}, "DeleteObjectTagging">>,
                 <<{}, "DeleteObject">> >>,
   POST   |-> << <<{"uploads"}, "CreateMultipartUpload">>, <<{"uploadId"}, "CompleteMultipartUpload">> >>]

ServiceOps == [GET |-> << <<{}, "ListBuckets">> >>]

\* _dispatch
Dispatch(r) ==
  LET ops   == IF ~ r.bucket THEN ServiceOps ELSE IF r.key THEN ObjectOps ELSE BucketOps
      table == IF r.method \in DOMAIN ops THEN ops[r.method] ELSE <<>>
      fits  == {i \in DOMAIN table : table[i][1] \subseteq r.query}
  IN  IF fits = {} THEN NotAllowed
      ELSE table[CHOOSE i \in fits : \A j \in fits : i <= j][2]

-----------------------------------------------------------------------------
\* OP_ACTIONS, in tokens; an operation that is not listed is not evaluated.
S3(verb, noun) == <<"s3:", verb, noun>>

ActionOf(op) ==
  CASE op = "CreateBucket"                                      -> S3("Create", "Bucket")
    [] op = "DeleteBucket"                                      -> S3("Delete", "Bucket")
    [] op = "GetBucketLocation"                                 -> S3("Get", "BucketLocation")
    [] op = "GetBucketVersioning"                               -> S3("Get", "BucketVersioning")
    [] op = "SetBucketVersioning"                               -> S3("Put", "BucketVersioning")
    [] op = "GetBucketTagging"                                  -> S3("Get", "BucketTagging")
    [] op = "PutBucketTagging"                                  -> S3("Put", "BucketTagging")
    [] op = "DeleteBucketTagging"                               -> S3("Delete", "BucketTagging")
    [] op = "GetBucketPolicy"                                   -> S3("Get", "BucketPolicy")
    [] op = "PutBucketPolicy"                                   -> S3("Put", "BucketPolicy")
    [] op = "DeleteBucketPolicy"                                -> S3("Delete", "BucketPolicy")
    [] op = "GetBucketLifecycle"                                -> S3("Get", "LifecycleConfiguration")
    [] op \in {"PutBucketLifecycle", "DeleteBucketLifecycle"}   -> S3("Put", "LifecycleConfiguration")
    [] op = "GetBucketCors"                                     -> S3("Get", "BucketCORS")
    [] op \in {"PutBucketCors", "DeleteBucketCors"}             -> S3("Put", "BucketCORS")
    [] op \in {"HeadBucket", "ListObjects", "ListObjectsV2"}    -> S3("List", "Bucket")
    [] op = "ListObjectVersions"                                -> S3("List", "BucketVersions")
    [] op \in {"GetObject", "HeadObject"}                       -> S3("Get", "Object")
    [] op \in {"DeleteObject", "DeleteObjects"}                 -> S3("Delete", "Object")
    [] op \in {"PutObject", "CopyObject", "CreateMultipartUpload", "UploadPart",
               "CompleteMultipartUpload"}                       -> S3("Put", "Object")
    [] op = "AbortMultipartUpload"                              -> S3("Abort", "MultipartUpload")
    [] op = "ListParts"                                         -> S3("List", "MultipartUploadParts")
    [] op = "ListMultipartUploads"                              -> S3("List", "BucketMultipartUploads")
    [] OTHER                                                    -> <<>>

\* HOOK_BY_OP
HookOf(op) ==
  CASE op = "PutObject" -> "onPut" [] op = "GetObject" -> "onGet" [] op = "HeadObject" -> "onHead"
    [] op = "CopyObject" -> "onCopy"
    [] op \in {"DeleteObject", "DeleteObjects"} -> "onDelete"
    [] op \in {"ListObjects", "ListObjectsV2"} -> "onList"
    [] op \in {"CreateMultipartUpload", "UploadPart", "CompleteMultipartUpload",
               "AbortMultipartUpload"} -> "onMultipart"
    [] OTHER -> "none"
=============================================================================
