-------------------------- MODULE RecordingArchive --------------------------
(***************************************************************************)
(* The life of recorded footage: the stream worker, the upload worker and  *)
(* the retention pass of the ingestion process, the API process, and the   *)
(* crashes of the former, over the rows, files and objects they share.     *)
(***************************************************************************)
EXTENDS RemoteUpload, Retention

CONSTANT MaxCrashes   \* bound: how often the ingestion process dies

ASSUME CrashAssumption == MaxCrashes \in Nat

VARIABLE crashes

vars == <<storeVars, up, ret, shelter, crashes>>

TypeOK ==
  /\ StoreTypeOK
  /\ UpTypeOK
  /\ RetTypeOK
  /\ crashes \in 0..MaxCrashes

Init ==
  /\ StoreInit
  /\ up = UpIdle
  /\ ret = RetIdle
  /\ shelter = {}
  /\ crashes = 0

(* The ingestion process dies and starts again: its transactions roll back *)
(* and what its tasks were doing is forgotten; files and objects stay.     *)
Crash ==
  /\ crashes < MaxCrashes
  /\ crashes' = crashes + 1
  /\ up' = UpIdle
  /\ ret' = RetIdle
  /\ finalizing' = {}
  /\ locked' = {}
  /\ UNCHANGED <<row, disk, object, profile, archive, saved, aged, expired,
                 deleting, condemned, admin, shelter>>

StoreStep     == StoreNext /\ UNCHANGED <<up, ret, shelter, crashes>>
UploadStep    == UpNext    /\ UNCHANGED <<ret, shelter, crashes>>
RetentionStep == RetStep   /\ UNCHANGED <<up, crashes>>
ShelterStep   == (\E r \in Recordings : Shelter(r)) /\ UNCHANGED <<up, crashes>>

Next == StoreStep \/ UploadStep \/ RetentionStep \/ ShelterStep \/ Crash

Spec == Init /\ [][Next]_vars

(* Both loops are tasks that poll for ever and catch what a pass raises, so *)
(* each of them keeps taking steps.                                        *)
Fairness == WF_vars(UploadStep) /\ WF_vars(RetentionStep)

FairSpec == Spec /\ Fairness

-----------------------------------------------------------------------------
(* Properties *)

(* Footage exists somewhere until someone decides that it goes: neither    *)
(* the transfer, nor the removal of the local file before the commit, nor  *)
(* a rollback, a crash or a retention pass over stale rows ever destroys   *)
(* the last watchable copy (remote_upload.py: "never loses footage").      *)
CopySurvives ==
  \A r \in Recordings : r <= saved /\ r \notin condemned => HasCopy(r)

(* The same promise as a specification: every step of this system is a     *)
(* step of the vault, or leaves it as it is.                               *)
Vault == INSTANCE FootageVault WITH
           Recording <- Recordings,
           kept <- {r \in Recordings : HasCopy(r)} \ condemned,
           listed <- Live

(* Footage is lost, and a row removed, only after someone condemned the    *)
(* recording: the upload worker, the passes and a crash alone never do.    *)
VaultSpec == Vault!Spec

(* A row that says "uploaded" names the profile that holds the object, so  *)
(* playback and retention can find it (models/cameras.py: remote_profile_id *)
(* "snapshots WHICH profile handled the upload").                          *)
UploadedHasObject ==
  \A r \in Recordings :
    row[r].live /\ row[r].remote = "uploaded" /\ r \notin condemned
      => /\ row[r].profile \in Profiles
         /\ object[row[r].profile][r] \in Footage

(* When archive retention is about to drop a row, no object of it is left  *)
(* on the archive, whatever the upload worker did in the meantime          *)
(* (_enforce_archive_retention: the row goes only once the object is gone). *)
ExpiryLeavesNoOrphan ==
  ret.step = "archive"
    => \A r \in ret.dropped : object[ret.seen[r].profile][r] = "absent"

(* Local retention never drops a recording of the configured archive,      *)
(* neither as it loaded the row nor as the row is by now                   *)
(* (docs/storage-architecture.md: "A recording the archive owns (uploaded, *)
(* pending, or failed) is never deleted by local retention").              *)
OwnedIsKept ==
  ret.step = "local"
    => \A r \in ret.dropped : /\ ~Owns(ArchiveTarget, ret.seen[r])
                              /\ ~Owns(ArchiveTarget, row[r])

(* A failed upload keeps the local file, the only copy                     *)
(* (docs/storage-architecture.md: "the terminal `failed` state keeps the   *)
(* local copy").                                                           *)
FailedKeepsLocal ==
  \A r \in Recordings :
    row[r].live /\ row[r].remote = "failed" /\ r \notin condemned
      => FileOf(r, row[r]) # "absent"

(* Every queued recording settles: it is uploaded, given up or deleted.    *)
QueuedSettles ==
  \A r \in Recordings :
    (row[r].live /\ row[r].remote = "pending")
      ~> (~row[r].live \/ row[r].remote \in {"uploaded", "failed"})

(* With an archive set, a recording that ages out of the local window is   *)
(* eventually queued for it.                                               *)
AgedOutIsQueued ==
  \A r \in Recordings :
    (r <= aged /\ row[r].live /\ row[r].remote = "null" /\ archive # NoProfile)
      ~> (row[r].remote # "null" \/ ~row[r].live)
=============================================================================
