----------------------------- MODULE DiskBuckets -----------------------------
(***************************************************************************)
(* One bucket of the disk backend as a directory (src/src/storage/disk.js):*)
(* its bucket.json with the settings, and the files of its objects.  Each  *)
(* step is what happens at one await; who takes which, and when, is the    *)
(* subject of the module Gateway.                                          *)
(*                                                                         *)
(* Each upload writes an object of its own: a data file under a ".tmp"     *)
(* name, renamed, and then its metadata.  The locks of the keys and more   *)
(* versions of one are the subject of DiskObjects.                         *)
(***************************************************************************)
CONSTANTS Uploads,    \* the uploads, each of one object
          Settings,   \* "versioning", "policy", "cors", "tagging", "lifecycle"
          Unset,      \* a setting that bucket.json does not have
          None        \* no file

VARIABLES config,     \* the settings in bucket.json, or None
          configTmp,  \* those in its ".tmp", or None
          files       \* files[o]: how far upload o has got

disk == <<config, configTmp, files>>

\* createBucket writes no setting.
Fresh == [s \in Settings |-> Unset]

\* "bare" is metadata whose data file has gone with an earlier bucket of the name,
\* "marked" an object under a delete marker.
Stages == {"none", "tmp", "data", "object", "bare", "marked", "deleted"}

Init == /\ config \in {None, Fresh}
        /\ configTmp = None
        /\ files = [o \in Uploads |-> "none"]

\* _bucketEmpty: no metadata, and nothing in the directory of the data.
Empty == \A o \in Uploads : files[o] \in {"none", "deleted"}

\* writeJsonAtomic on bucket.json: the directory is made if it is not there, ...
WriteConfig(c) == configTmp' = c /\ UNCHANGED <<config, files>>

\* ... and the ".tmp" renamed, whoever wrote it.
CommitConfig == /\ configTmp # None
                /\ config' = configTmp
                /\ configTmp' = None
                /\ UNCHANGED files

\* deleteBucket: the directory goes with all that is in it.
RemoveBucket == /\ config' = None
                /\ configTmp' = None
                /\ files' = [o \in Uploads |-> IF files[o] = "deleted" THEN "deleted" ELSE "none"]

Leave(o, stage) == files' = [files EXCEPT ![o] = stage] /\ UNCHANGED <<config, configTmp>>

\* putObject, the ".tmp"; the directory is made if it is not there.
OpenUpload(o) == Leave(o, "tmp")

\* ... its renaming to the data file, ...
PlaceUpload(o) == files[o] = "tmp" /\ Leave(o, "data")

\* ... and the metadata, which is written even if the bucket is no more.
CommitUpload(o) == Leave(o, IF files[o] = "data" THEN "object" ELSE "bare")

\* deleteObject: the object goes, or gets a delete marker on top.
DeleteUpload(o, versioned) == /\ files[o] \in {"object", "bare", "marked"}
                              /\ Leave(o, IF versioned THEN "marked" ELSE "deleted")

\* ... of a key that has no object; a marker is written even if the bucket is no more.
DeleteMissing(o, versioned) == IF versioned THEN Leave(o, "marked") ELSE UNCHANGED disk
=============================================================================
