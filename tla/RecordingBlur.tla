---------------------------- MODULE RecordingBlur ----------------------------
(***************************************************************************)
(* The privacy blur pass (services/ingestion/blur_worker.py) next to the   *)
(* upload worker, the delete route and crashes of the ingestion process.   *)
(* One task per finished segment reads the file twice: a first pass looks  *)
(* for protected people, a second one writes a blurred copy, which then    *)
(* replaces the original.  The task keeps the path it read at its start;   *)
(* the upload worker sends and removes files by the path it read at its.   *)
(***************************************************************************)
EXTENDS RemoteUpload

CONSTANTS
  Protected,    \* recordings that show a person whose face is blurred
  MaxCrashes,   \* bound: how often the ingestion process dies
  MaxDeleted    \* bound: how many recordings are deleted

ASSUME BlurAssumption ==
  /\ Protected \subseteq Recordings
  /\ MaxCrashes \in Nat
  /\ MaxDeleted \in Nat

VARIABLES
  task,        \* the blur task of each recording: its stage, and its output
  blurStatus,  \* column blur_status
  crashes,
  spoilt,      \* history: recordings replaced by what a dead encoder left
  unsaid       \* history: what the database refused to be told, or to tell,
               \* at the end of a task: its status, or the new path with it

blurVars == <<task, blurStatus, spoilt, unsaid>>
vars == <<storeVars, up, blurVars, crashes>>

BlurStages == {"none", "scheduled", "found", "reading", "writing", "written",
               "swapped", "skipping", "failing"}

(* The stages whose transaction is the last of the task. *)
LastStages == {"scheduled", "swapped", "skipping", "failing"}

NoTask == [stage |-> "none", tmp |-> "absent"]

TypeOK ==
  /\ StoreTypeOK
  /\ UpTypeOK
  /\ task \in [Recordings -> [stage: BlurStages, tmp: Content]]
  /\ blurStatus \in [Recordings ->
       {"pending", "processing", "done", "failed", "skipped"}]
  /\ crashes \in 0..MaxCrashes
  /\ spoilt \subseteq Recordings
  /\ unsaid \in [Recordings -> {"none", "status", "path"}]

Init ==
  /\ StoreInit
  /\ up = UpIdle
  /\ task = [r \in Recordings |-> NoTask]
  /\ blurStatus = [r \in Recordings |-> "pending"]
  /\ crashes = 0
  /\ spoilt = {}
  /\ unsaid = [r \in Recordings |-> "none"]

-----------------------------------------------------------------------------
(* The task of recording r *)

(* Scheduled by the stream worker right after the row is committed. *)
SaveAndSchedule ==
  /\ SaveRecording
  /\ task' = [task EXCEPT ![saved + 1] =
                [stage |-> "scheduled", tmp |-> "absent"]]
  /\ UNCHANGED <<up, blurStatus, crashes, spoilt, unsaid>>

Goto(r, from, to) ==
  /\ task[r].stage = from
  /\ task' = [task EXCEPT ![r].stage = to]
  /\ UNCHANGED <<up, crashes>>

(* Nobody is protected, as far as the task can read, and the nudity check  *)
(* is off: the task ends before it looks at the row.                       *)
BlurNothing(r) ==
  /\ Goto(r, "scheduled", "skipping")
  /\ UNCHANGED <<storeVars, blurStatus, spoilt, unsaid>>

(* The row is loaded and the file it names is looked for.  This is the     *)
(* last time the task reads the row's path, here always "original".        *)
BlurStart(r) ==
  /\ Goto(r, "scheduled",
          IF ~row[r].live THEN "none"
          ELSE IF disk[r]["original"] = "absent" THEN "failing" ELSE "found")
  /\ UNCHANGED <<storeVars, blurStatus, spoilt, unsaid>>

(* _update_status: a transaction of its own.  It waits for a row lock and  *)
(* does nothing when the row is gone; that it may also fail is Refused.    *)
SetStatus(r, s) ==
  /\ r \notin locked
  /\ blurStatus' = IF row[r].live THEN [blurStatus EXCEPT ![r] = s]
                                  ELSE blurStatus
  /\ UNCHANGED <<spoilt, unsaid>>

(* The database refuses a transaction of the task.  A failed _update_status *)
(* is logged and the task goes on, or ends, as if it had succeeded; a row  *)
(* that cannot be loaded ends the task outside its try.                    *)
Refused(r) ==
  /\ \/ Goto(r, "found", "reading") /\ UNCHANGED unsaid
     \/ \E s \in LastStages :
          /\ Goto(r, s, "none")
          /\ unsaid' = [unsaid EXCEPT ![r] =
                          IF s = "swapped" THEN "path" ELSE "status"]
  /\ UNCHANGED <<storeVars, blurStatus, spoilt>>

BlurProcessing(r) ==
  /\ Goto(r, "found", "reading")
  /\ SetStatus(r, "processing")
  /\ UNCHANGED storeVars

(* What the first pass comes to: whom it does not recognise it passes over. *)
Scanned(r) == {"skipping"} \cup (IF r \in Protected THEN {"writing"} ELSE {})

(* Fault: a missing file ends the task without a status. *)
BlurScanSilently(r) ==
  /\ IF disk[r]["original"] = "absent"
     THEN Goto(r, "reading", "none")
     ELSE \E to \in Scanned(r) : Goto(r, "reading", to)
  /\ UNCHANGED <<storeVars, blurStatus, spoilt, unsaid>>

(* The first pass holds the file open; it fails when it cannot open it.    *)
BlurScan(r) ==
  /\ IF disk[r]["original"] = "absent"
     THEN Goto(r, "reading", "failing")
     ELSE \E to \in Scanned(r) : Goto(r, "reading", to)
  /\ UNCHANGED <<storeVars, blurStatus, spoilt, unsaid>>

(* The second pass opens the file again and does not look whether it could: *)
(* without a file there is no frame to write, and the output is empty or   *)
(* not there.                                                              *)
BlurWrite(r) ==
  /\ task[r].stage = "writing"
  /\ \E tmp \in IF disk[r]["original"] = "absent" THEN {"empty", "absent"}
                                                  ELSE {"blurred"} :
       task' = [task EXCEPT ![r] = [stage |-> "written", tmp |-> tmp]]
  /\ UNCHANGED <<storeVars, up, blurStatus, crashes, spoilt, unsaid>>

(* Nor does it hear of an encoder that dies: the writer drops the frames   *)
(* that no longer reach it, its release logs the exit code, and the pass   *)
(* reports success over what has been written.                             *)
EncoderDies(r) ==
  /\ task[r].stage = "writing"
  /\ disk[r]["original"] # "absent"
  /\ task' = [task EXCEPT ![r] = [stage |-> "written", tmp |-> "partial"]]
  /\ UNCHANGED <<storeVars, up, blurStatus, crashes, spoilt, unsaid>>

(* Fault: the clean-up of a failed pass removes the original. *)
BlurFailsAndRemoves(r) ==
  /\ \E s \in {"reading", "writing"} : Goto(r, s, "failing")
  /\ disk' = [disk EXCEPT ![r]["original"] = "absent"]
  /\ UNCHANGED <<row, object, profile, archive, saved, finalizing, aged,
                 expired, locked, deleting, condemned, admin, blurStatus,
                 spoilt, unsaid>>

(* A library is missing or raises, the writer cannot be opened, or the     *)
(* output cannot be renamed.                                               *)
BlurFails(r) ==
  /\ task[r].stage \in {"reading", "writing", "written"}
  /\ task' = [task EXCEPT ![r] = [stage |-> "failing", tmp |-> "absent"]]
  /\ UNCHANGED <<storeVars, up, blurStatus, crashes, spoilt, unsaid>>

(* os.replace, then os.remove of the original; nothing else runs on the    *)
(* event loop in between, and a removal that fails is only logged.         *)
BlurSwap(r) ==
  /\ task[r].stage = "written"
  /\ task[r].tmp # "absent"
  /\ \E kept \in {"absent", disk[r]["original"]} :
       disk' = [disk EXCEPT ![r] = [original |-> kept,
                                    blurred  |-> task[r].tmp]]
  /\ spoilt' = IF task[r].tmp = "partial" THEN spoilt \cup {r} ELSE spoilt
  /\ task' = [task EXCEPT ![r] = [stage |-> "swapped", tmp |-> "absent"]]
  /\ UNCHANGED <<row, object, profile, archive, saved, finalizing, aged,
                 expired, locked, deleting, condemned, admin, up, blurStatus,
                 crashes, unsaid>>

(* Fault: the row keeps the old path. *)
BlurDoneOldPath(r) ==
  /\ Goto(r, "swapped", "none")
  /\ SetStatus(r, "done")
  /\ UNCHANGED storeVars

(* The row follows its file only now. *)
BlurDone(r) ==
  /\ Goto(r, "swapped", "none")
  /\ SetStatus(r, "done")
  /\ row' = [row EXCEPT ![r].path = IF row[r].live THEN "blurred" ELSE @]
  /\ UNCHANGED <<disk, object, profile, archive, saved, finalizing, aged,
                 expired, locked, deleting, condemned, admin>>

BlurSkipped(r) ==
  /\ Goto(r, "skipping", "none")
  /\ SetStatus(r, "skipped")
  /\ UNCHANGED storeVars

BlurFailed(r) ==
  /\ Goto(r, "failing", "none")
  /\ SetStatus(r, "failed")
  /\ UNCHANGED storeVars

BlurStep(r) ==
  \/ BlurNothing(r)
  \/ BlurStart(r)
  \/ BlurProcessing(r)
  \/ Refused(r)
  \/ BlurScan(r)
  \/ BlurWrite(r)
  \/ EncoderDies(r)
  \/ BlurFails(r)
  \/ BlurSwap(r)
  \/ BlurDone(r)
  \/ BlurSkipped(r)
  \/ BlurFailed(r)

(* The ingestion process dies.  Nothing schedules a lost task again. *)
Crash ==
  /\ crashes < MaxCrashes
  /\ crashes' = crashes + 1
  /\ up' = UpIdle
  /\ task' = [r \in Recordings |-> NoTask]
  /\ finalizing' = {}
  /\ locked' = {}
  /\ UNCHANGED <<row, disk, object, profile, archive, saved, aged, expired,
                 deleting, condemned, admin, blurStatus, spoilt, unsaid>>

FinalizeOrDelete ==
  /\ \E r \in Recordings : \/ QueueForProfile(r)
                           \/ LeaveLocal(r)
                           \/ DeleteFile(r) /\ Cardinality(condemned) < MaxDeleted
                           \/ DeleteRow(r)
  /\ UNCHANGED <<up, blurVars, crashes>>

UploadStep == UpNext /\ UNCHANGED <<blurVars, crashes>>

Next ==
  \/ SaveAndSchedule
  \/ FinalizeOrDelete
  \/ UploadStep
  \/ \E r \in Recordings : BlurStep(r)
  \/ Crash

Spec == Init /\ [][Next]_vars

(* Each task runs on the event loop or its executor and the upload worker  *)
(* polls for ever.  A task that waits for a row lock stands in the         *)
(* database's queue for it, so a worker that locks the row again and again *)
(* does not starve it: strong fairness.                                    *)
Fairness ==
  /\ WF_vars(UploadStep)
  /\ \A r \in Recordings : SF_vars(BlurStep(r))

FairSpec == Spec /\ Fairness

-----------------------------------------------------------------------------
(* Properties *)

(* No recording anyone can still ask for loses its last watchable copy     *)
(* (remote_upload.py:8, "A failed or unreachable FTP server never loses    *)
(* footage"; blur_worker.py:13, "Failures never touch the original file"), *)
(* unless a dead encoder's copy took its place.                            *)
CopySurvives ==
  \A r \in Recordings : r <= saved /\ r \notin condemned \cup spoilt => HasCopy(r)

(* A blur pass that failed leaves the recording playable, from the local   *)
(* file or from the remote object, once no upload is under way             *)
(* (blur_worker.py: "the recording stays usable with blur_status='failed'"), *)
(* as long as nobody deletes footage and the process does not die: either  *)
(* rolls back a batch of uploads whose local files are gone already.       *)
FailedStaysUsable ==
  crashes = 0 /\ condemned = {} => \A r \in Recordings :
    /\ row[r].live
    /\ blurStatus[r] = "failed"
    /\ up.stage = "idle"
    => Playable(r)

(* Once the pass is done the row's local file never shows the original,    *)
(* whichever of the two paths the upload worker still holds.               *)
DoneIsNotRaw ==
  \A r \in Recordings :
    row[r].live /\ blurStatus[r] = "done" => FileOf(r, row[r]) # "raw"

(* As long as the process does not die, every recording can be played      *)
(* between passes and transfers: neither the swap of the file before its   *)
(* row follows nor the upload of a path that was swapped away leaves a row *)
(* that names nothing (blur_worker.py: "Failures never touch the original  *)
(* file").  Two failures do break it, and nobody hears of either: the      *)
(* encoder's, and that of the update which the swapped row waits for.      *)
StaysUsable ==
  crashes = 0 => \A r \in Recordings :
    row[r].live /\ r \notin condemned \cup spoilt /\ unsaid[r] # "path"
      /\ task[r].stage = "none" /\ up.stage = "idle"
      => Playable(r)

(* That without the two exceptions: what blur_worker.py:13 says.  It does  *)
(* not hold.                                                               *)
FailuresLeaveItUsable ==
  crashes = 0 => \A r \in Recordings :
    row[r].live /\ r \notin condemned /\ task[r].stage = "none"
      /\ up.stage = "idle"
      => Playable(r)

(* An upload that was given up because the pass swapped the file away is   *)
(* tried again with the new path until it settles.                         *)
GivenUpIsRetried ==
  \A r \in Recordings :
    (row[r].live /\ row[r].remote = "failed" /\ task[r].stage = "none"
       /\ row[r].attempts < AttemptCap /\ FileOf(r, row[r]) # "absent")
      ~> (row[r].remote = "uploaded" \/ row[r].attempts = AttemptCap
            \/ ~row[r].live \/ FileOf(r, row[r]) = "absent")

(* Every recorded segment is eventually blurred, passed over or given up,  *)
(* and its row says which (blur_worker.py: "When a recording finishes,     *)
(* check whether any face embedding belongs to a person marked             *)
(* `privacy_blur`"), unless the database refused to be told: nothing looks *)
(* for a recording that stayed "pending" or "processing".                  *)
EveryRecordingIsChecked ==
  \A r \in Recordings :
    (r <= saved) ~> (blurStatus[r] \in {"done", "failed", "skipped"}
                       \/ ~row[r].live \/ unsaid[r] # "none")
=============================================================================
