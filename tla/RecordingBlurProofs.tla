------------------------ MODULE RecordingBlurProofs ------------------------
(***************************************************************************)
(* Proofs about RecordingBlur, for any number of recordings, profiles and  *)
(* crashes.  The argument: a recording's blurred file is only ever what a  *)
(* pass wrote, never the original, and its row names that file only once   *)
(* its pass is done (IInv).  Where no profile drops the local file, nothing *)
(* but the pass itself removes the file of a recording nobody deleted, and *)
(* the pass removes the original only after the blurred file is in place   *)
(* (KInv), which is the promise of FootageVault.  As long as nobody        *)
(* deletes and the process lives, a failed pass leaves its recording       *)
(* watchable wherever its row says it is (CalmInv).                        *)
(***************************************************************************)
EXTENDS MCRecordingBlur, RemoteUploadProofs

(* What a pass may have left behind. *)
Output == {"absent", "empty", "partial", "blurred"}

BlurInv(r) ==
  /\ task[r].tmp \in Output
  /\ disk[r]["blurred"] \in Output
  /\ r > saved => /\ blurStatus[r] = "pending" /\ ~row[r].live
                  /\ task[r].stage = "none" /\ unsaid[r] = "none"
  /\ blurStatus[r] = "done" /\ row[r].live => row[r].path = "blurred"

IInv ==
  /\ TypeOK
  /\ UpCurrent
  /\ \A r \in Recordings : BlurInv(r)

(* Where the footage of a recording nobody deleted is: in the original     *)
(* until the swap, in the blurred file from the swap on.  A crash between  *)
(* the swap and the row's update leaves the row at the old name, and so    *)
(* does a refused update.                                                  *)
Kept(r) ==
  /\ row[r].live
  /\ task[r].stage = "written" => task[r].tmp \in {"blurred", "partial"}
  /\ \/ /\ row[r].path = "original"
        /\ task[r].stage # "swapped"
        /\ disk[r]["original"] = "raw"
     \/ /\ row[r].path = "original"
        /\ task[r].stage = "swapped"
        /\ disk[r]["blurred"] = "blurred"
     \/ /\ row[r].path = "blurred"
        /\ task[r].stage = "none"
        /\ disk[r]["blurred"] = "blurred"
     \/ /\ crashes > 0 \/ unsaid[r] = "path"
        /\ task[r].stage = "none"
        /\ disk[r]["blurred"] = "blurred"

CameraOnly(rec) == rec.profile \in {CameraProfile, NoProfile}

KInv ==
  /\ archive = NoProfile
  /\ deleting \subseteq condemned
  /\ \A r \in Recordings : CameraOnly(row[r]) /\ CameraOnly(up.seen[r])
  /\ \A r \in Recordings : r <= saved /\ r \notin condemned \cup spoilt => Kept(r)

-----------------------------------------------------------------------------
(* The upload worker *)

(* Only a recording with a readable profile is ever transferred. *)
LEMMA UploadKeepsCurrent ==
  ASSUME StoreTypeOK, UpTypeOK, UpCurrent, UpNext
  PROVE  UpCurrent'
  <1> USE DEF UpTypeOK, StoreTypeOK, UpCurrent
  <1>1. CASE UpSelect
    BY <1>1 DEF UpSelect, UpIdle
  <1>2. ASSUME NEW r \in Recordings, UpGiveUp(r) PROVE UpCurrent'
    BY <1>2 DEF UpGiveUp, UpTake
  <1>3. ASSUME NEW r \in Recordings, UpOpen(r) PROVE UpCurrent'
    <2>1. up.seen[r].profile \in Profiles
      BY <1>3, RowFields DEF UpOpen, CanSend, Readable
    <2> QED BY <1>3, <2>1 DEF UpOpen
  <1>4. CASE UpSent
    <2>1. up.cur \in Recordings /\ up.seen[up.cur].profile \in Profiles
      BY <1>4 DEF UpSent
    <2>2. up.seen[up.cur] \in Rows
      BY <2>1
    <2>3. /\ up'.cur = up.cur
          /\ up'.seen[up.cur] = [up.seen[up.cur] EXCEPT !.remote = "uploaded"]
      BY <1>4, <2>1 DEF UpSent
    <2>4. up'.seen[up.cur].profile = up.seen[up.cur].profile
      BY <2>2, <2>3 DEF Rows
    <2> QED BY <2>1, <2>3, <2>4
  <1>5. CASE UpSendFails
    BY <1>5 DEF UpSendFails
  <1>6. CASE UpDropLocal
    BY <1>6 DEF UpDropLocal
  <1>7. CASE UpKeepLocal
    BY <1>7 DEF UpKeepLocal
  <1>8. CASE UpCommit
    BY <1>8 DEF UpCommit, UpIdle
  <1>9. CASE UpRollback
    BY <1>9 DEF UpRollback, UpIdle
  <1> QED
    BY <1>1, <1>2, <1>3, <1>4, <1>5, <1>6, <1>7, <1>8, <1>9 DEF UpNext

(* It changes neither the name nor the profile of a row, and all it does   *)
(* to a file is to remove it.                                              *)
LEMMA UploadFrame ==
  ASSUME StoreTypeOK, UpTypeOK, UpCurrent, UpNext, NEW r \in Recordings
  PROVE  /\ row'[r].live = row[r].live
         /\ row'[r].path = row[r].path
         /\ row'[r].profile = row[r].profile
         /\ disk'[r]["blurred"] \in {disk[r]["blurred"], "absent"}
         /\ UNCHANGED <<saved, archive, deleting, condemned>>
  <1> USE DEF UpTypeOK, StoreTypeOK
  <1>1. CASE UpSelect
    BY <1>1 DEF UpSelect, storeVars
  <1>2. ASSUME NEW s \in Recordings, UpGiveUp(s)
        PROVE  UNCHANGED <<row, disk, saved, archive, deleting, condemned>>
    BY <1>2 DEF UpGiveUp
  <1>3. ASSUME NEW s \in Recordings, UpOpen(s)
        PROVE  UNCHANGED <<row, disk, saved, archive, deleting, condemned>>
    BY <1>3 DEF UpOpen
  <1>4. CASE UpSent
    BY <1>4 DEF UpSent
  <1>5. CASE UpSendFails
    BY <1>5 DEF UpSendFails
  <1>6. CASE UpDropLocal
    <2>1. /\ up.cur \in Recordings
          /\ disk' = [disk EXCEPT ![up.cur][up.seen[up.cur].path] = "absent"]
      BY <1>6 DEF UpDropLocal, UpCurrent
    <2>2. up.seen[up.cur].path \in Paths
      BY <2>1, RowFields
    <2>3. disk'[r]["blurred"] \in {disk[r]["blurred"], "absent"}
      BY <2>1, <2>2 DEF Paths
    <2> QED BY <1>6, <2>3 DEF UpDropLocal
  <1>7. CASE UpKeepLocal
    BY <1>7 DEF UpKeepLocal, storeVars
  <1>8. CASE UpCommit
    <2>1. /\ row[r] \in Rows
          /\ row'[r] = IF r \in up.dirty
                       THEN [row[r] EXCEPT !.remote = up.seen[r].remote,
                                           !.attempts = up.seen[r].attempts]
                       ELSE row[r]
      BY <1>8 DEF UpCommit
    <2>2. /\ row'[r].live = row[r].live
          /\ row'[r].path = row[r].path
          /\ row'[r].profile = row[r].profile
      BY <2>1 DEF Rows
    <2> QED BY <1>8, <2>2 DEF UpCommit
  <1>9. CASE UpRollback
    BY <1>9 DEF UpRollback
  <1> QED
    BY <1>1, <1>2, <1>3, <1>4, <1>5, <1>6, <1>7, <1>8, <1>9 DEF UpNext

-----------------------------------------------------------------------------
(* One step *)

(* The steps of a task that leave files, objects and rows as they are.     *)
Quiet(r, from, to) ==
  /\ Goto(r, from, to)
  /\ UNCHANGED <<storeVars, spoilt>>
  /\ \/ UNCHANGED <<blurStatus, unsaid>>
     \/ \E st \in {"processing", "skipped", "failed"} : SetStatus(r, st)
     \/ \E x \in {"status", "path"} :
          unsaid' = [unsaid EXCEPT ![r] = x] /\ UNCHANGED blurStatus

(* They are all but five.                                                  *)
LEMMA QuietSteps ==
  ASSUME NEW r \in Recordings, BlurStep(r)
  PROVE  \/ \E from \in BlurStages \ {"none", "writing", "written"},
               to \in BlurStages \ {"written", "swapped"} : Quiet(r, from, to)
         \/ BlurWrite(r) \/ EncoderDies(r) \/ BlurFails(r) \/ BlurSwap(r)
         \/ BlurDone(r)
  <1> USE DEF BlurStages
  <1>1. CASE BlurNothing(r)
    BY <1>1 DEF BlurNothing, Quiet
  <1>2. CASE BlurStart(r)
    BY <1>2 DEF BlurStart, Quiet
  <1>3. CASE BlurProcessing(r)
    BY <1>3 DEF BlurProcessing, SetStatus, Quiet
  <1>4. CASE Refused(r)
    <2>1. CASE Goto(r, "found", "reading") /\ UNCHANGED unsaid
      BY <1>4, <2>1 DEF Refused, Quiet
    <2>2. ASSUME NEW st \in LastStages, Goto(r, st, "none"),
                 unsaid' = [unsaid EXCEPT ![r] =
                              IF st = "swapped" THEN "path" ELSE "status"]
          PROVE  Quiet(r, st, "none")
      BY <1>4, <2>2 DEF Refused, Quiet
    <2> QED
      BY <1>4, <2>1, <2>2 DEF Refused, LastStages
  <1>5. CASE BlurScan(r)
    <2>1. PICK to \in {"failing", "writing", "skipping"} : Goto(r, "reading", to)
      BY <1>5 DEF BlurScan, Scanned
    <2> QED
      BY <1>5, <2>1 DEF BlurScan, Quiet
  <1>6. CASE BlurSkipped(r)
    BY <1>6 DEF BlurSkipped, SetStatus, Quiet
  <1>7. CASE BlurFailed(r)
    BY <1>7 DEF BlurFailed, SetStatus, Quiet
  <1> QED
    BY <1>1, <1>2, <1>3, <1>4, <1>5, <1>6, <1>7 DEF BlurStep

(* What a quiet step of one task leaves alone. *)
LEMMA QuietFrame ==
  ASSUME TypeOK, NEW r \in Recordings, NEW from, NEW to \in BlurStages,
         Quiet(r, from, to)
  PROVE  /\ UNCHANGED <<storeVars, spoilt, up, crashes>>
         /\ task[r].stage = from /\ task'[r].stage = to
         /\ task'[r].tmp = task[r].tmp
         /\ \A s \in Recordings \ {r} : /\ task'[s] = task[s]
                                        /\ blurStatus'[s] = blurStatus[s]
                                        /\ unsaid'[s] = unsaid[s]
         /\ TypeOK'
  <1> USE DEF TypeOK
  <1>1. /\ task[r].stage = from
        /\ task' = [task EXCEPT ![r] = [task[r] EXCEPT !.stage = to]]
        /\ UNCHANGED <<storeVars, spoilt, up, crashes>>
    BY DEF Quiet, Goto
  <1>2. [task[r] EXCEPT !.stage = to] \in [stage: BlurStages, tmp: Content]
    OBVIOUS
  <1>3. /\ task' \in [Recordings -> [stage: BlurStages, tmp: Content]]
        /\ task'[r].stage = to /\ task'[r].tmp = task[r].tmp
        /\ \A s \in Recordings \ {r} : task'[s] = task[s]
    BY <1>1, <1>2
  <1>4. /\ blurStatus' \in [Recordings ->
             {"pending", "processing", "done", "failed", "skipped"}]
        /\ \A s \in Recordings \ {r} : blurStatus'[s] = blurStatus[s]
    BY DEF Quiet, SetStatus
  <1>5. /\ unsaid' \in [Recordings -> {"none", "status", "path"}]
        /\ \A s \in Recordings \ {r} : unsaid'[s] = unsaid[s]
    BY DEF Quiet, SetStatus
  <1>6. StoreTypeOK' /\ UpTypeOK'
    BY <1>1 DEF storeVars, StoreTypeOK, UpTypeOK
  <1> QED
    BY <1>1, <1>3, <1>4, <1>5, <1>6

(* The step of one task only touches what belongs to its recording.        *)
LEMMA TaskTypes ==
  ASSUME TypeOK, NEW r \in Recordings, BlurStep(r)
  PROVE  /\ TypeOK'
         /\ UNCHANGED <<saved, archive, deleting, condemned, up, crashes>>
         /\ spoilt \subseteq spoilt'
         /\ \A s \in Recordings \ {r} :
              /\ row'[s] = row[s]
              /\ disk'[s] = disk[s]
              /\ task'[s] = task[s]
              /\ blurStatus'[s] = blurStatus[s]
              /\ unsaid'[s] = unsaid[s]
  <1> DEFINE Local ==
        /\ UNCHANGED <<saved, archive, deleting, condemned, up, crashes>>
        /\ spoilt \subseteq spoilt'
        /\ \A s \in Recordings \ {r} :
             /\ row'[s] = row[s]
             /\ disk'[s] = disk[s]
             /\ task'[s] = task[s]
             /\ blurStatus'[s] = blurStatus[s]
             /\ unsaid'[s] = unsaid[s]
  <1> SUFFICES TypeOK' /\ Local
    OBVIOUS
  <1>1. /\ "absent" \in Content /\ "empty" \in Content /\ "blurred" \in Content
        /\ "partial" \in Content /\ "written" \in BlurStages
        /\ "swapped" \in BlurStages /\ "failing" \in BlurStages
        /\ "none" \in BlurStages
    BY DEF Content, BlurStages
  <1>2. ASSUME NEW from, NEW to \in BlurStages, Quiet(r, from, to)
        PROVE  TypeOK' /\ Local
    BY <1>2, QuietFrame DEF storeVars
  <1> USE DEF TypeOK
  <1>3. ASSUME NEW st \in BlurStages, NEW tmp \in Content,
               task' = [task EXCEPT ![r] = [stage |-> st, tmp |-> tmp]],
               UNCHANGED <<storeVars, up, blurStatus, crashes, spoilt, unsaid>>
        PROVE  TypeOK' /\ Local
    <2>1. task' \in [Recordings -> [stage: BlurStages, tmp: Content]]
      BY <1>3
    <2>2. StoreTypeOK' /\ UpTypeOK'
      BY <1>3 DEF storeVars, StoreTypeOK, UpTypeOK
    <2> QED BY <1>3, <2>1, <2>2 DEF storeVars
  <1> HIDE DEF Local, TypeOK
  <1>4. CASE BlurWrite(r)
    BY <1>1, <1>3, <1>4 DEF BlurWrite
  <1>5. CASE EncoderDies(r)
    BY <1>1, <1>3, <1>5 DEF EncoderDies
  <1>6. CASE BlurFails(r)
    BY <1>1, <1>3, <1>6 DEF BlurFails
  <1> USE DEF TypeOK
  <1>7. CASE BlurSwap(r)
    <2>1. PICK kept \in {"absent", disk[r]["original"]} :
            disk' = [disk EXCEPT ![r] = [original |-> kept,
                                         blurred  |-> task[r].tmp]]
      BY <1>7 DEF BlurSwap
    <2>2. kept \in Content /\ task[r].tmp \in Content
      BY <1>1 DEF StoreTypeOK, Paths
    <2>3. [original |-> kept, blurred |-> task[r].tmp] \in [Paths -> Content]
      BY <2>2 DEF Paths
    <2>4. disk' \in [Recordings -> [Paths -> Content]]
      BY <2>1, <2>3 DEF StoreTypeOK
    <2>5. task' \in [Recordings -> [stage: BlurStages, tmp: Content]]
      BY <1>1, <1>7 DEF BlurSwap
    <2>6. StoreTypeOK' /\ UpTypeOK'
      BY <1>7, <2>4 DEF BlurSwap, StoreTypeOK, UpTypeOK
    <2>7. spoilt \subseteq spoilt' /\ spoilt' \subseteq Recordings
      BY <1>7 DEF BlurSwap
    <2>8. TypeOK'
      BY <1>7, <2>5, <2>6, <2>7 DEF BlurSwap
    <2> QED BY <1>7, <2>1, <2>7, <2>8 DEF BlurSwap, StoreTypeOK, Local
  <1>8. CASE BlurDone(r)
    <2>1. row[r] \in Rows
      BY DEF StoreTypeOK
    <2>2. [row[r] EXCEPT !.path = IF row[r].live THEN "blurred" ELSE @] \in Rows
      BY <2>1 DEF Rows, Paths
    <2>3. row' \in [Recordings -> Rows]
      BY <1>8, <2>2 DEF BlurDone, StoreTypeOK
    <2>4. task' \in [Recordings -> [stage: BlurStages, tmp: Content]]
      <3>1. task' = [task EXCEPT ![r] = [task[r] EXCEPT !.stage = "none"]]
        BY <1>8 DEF BlurDone, Goto
      <3> QED BY <1>1, <3>1
    <2>5. /\ blurStatus' \in [Recordings ->
               {"pending", "processing", "done", "failed", "skipped"}]
          /\ \A s \in Recordings \ {r} : blurStatus'[s] = blurStatus[s]
          /\ UNCHANGED <<spoilt, unsaid>>
      BY <1>8 DEF BlurDone, SetStatus
    <2>6. StoreTypeOK' /\ UpTypeOK'
      BY <1>8, <2>3 DEF BlurDone, Goto, StoreTypeOK, UpTypeOK
    <2> QED
      BY <1>8, <2>4, <2>5, <2>6 DEF BlurDone, Goto, StoreTypeOK, Local
  <1> HIDE DEF TypeOK
  <1> QED
    BY <1>2, <1>4, <1>5, <1>6, <1>7, <1>8, QuietSteps

(* It keeps what the pass may have left behind. *)
LEMMA TaskKeepsBlurInv ==
  ASSUME IInv, NEW r \in Recordings, BlurStep(r)
  PROVE  BlurInv(r)'
  <1>1. /\ task[r].tmp \in Output
        /\ disk[r]["blurred"] \in Output
        /\ blurStatus[r] = "done" /\ row[r].live => row[r].path = "blurred"
        /\ row[r] \in Rows /\ task[r].stage # "none" => r <= saved
        /\ TypeOK /\ saved' = saved
    <2>1. TypeOK /\ BlurInv(r)
      BY DEF IInv
    <2>2. r \in Nat /\ saved \in Nat
      BY <2>1, StoreAssumption DEF TypeOK, StoreTypeOK, Recordings
    <2>3. saved' = saved
      BY <2>1, TaskTypes
    <2> QED
      BY <2>1, <2>2, <2>3 DEF BlurInv, TypeOK, StoreTypeOK
  <1>2. ~(r > saved)
    <2>1. task[r].stage # "none"
      <3>1. ASSUME NEW from \in BlurStages \ {"none", "writing", "written"}, NEW to,
                   Quiet(r, from, to)
            PROVE  task[r].stage # "none"
        BY <3>1 DEF Quiet, Goto
      <3> QED
        BY <3>1, QuietSteps DEF BlurWrite, EncoderDies, BlurFails, BlurSwap,
           BlurDone, Goto
    <2>2. BlurInv(r)
      BY DEF IInv
    <2> QED
      BY <2>1, <2>2 DEF BlurInv
  <1>3. ASSUME NEW from, NEW to \in BlurStages, Quiet(r, from, to)
        PROVE  BlurInv(r)'
    <2>1. UNCHANGED storeVars /\ task'[r].tmp = task[r].tmp
      BY <1>1, <1>3, QuietFrame
    <2>2. blurStatus'[r] = "done" => blurStatus[r] = "done"
      BY <1>1, <1>3 DEF Quiet, SetStatus, TypeOK
    <2> QED BY <1>1, <1>2, <2>1, <2>2 DEF storeVars, BlurInv
  <1>4. CASE BlurWrite(r) \/ EncoderDies(r) \/ BlurFails(r)
    <2>1. UNCHANGED <<storeVars, blurStatus>> /\ task'[r].tmp \in Output
      BY <1>1, <1>4 DEF BlurWrite, EncoderDies, BlurFails, TypeOK, Output
    <2> QED BY <1>1, <1>2, <2>1 DEF storeVars, BlurInv
  <1>5. CASE BlurSwap(r)
    <2>1. /\ row' = row /\ blurStatus' = blurStatus
          /\ disk'[r]["blurred"] = task[r].tmp /\ task'[r].tmp = "absent"
      BY <1>1, <1>5 DEF BlurSwap, TypeOK, StoreTypeOK
    <2> QED BY <1>1, <1>2, <2>1 DEF BlurInv, Output
  <1>6. CASE BlurDone(r)
    <2>1. task'[r].tmp = task[r].tmp
      BY <1>1, <1>6 DEF BlurDone, Goto, TypeOK
    <2>2. row'[r] = [row[r] EXCEPT !.path = IF row[r].live THEN "blurred"
                                                           ELSE @]
      BY <1>1, <1>6 DEF BlurDone, TypeOK, StoreTypeOK
    <2>3. /\ row'[r].live = row[r].live
          /\ row[r].live => row'[r].path = "blurred"
      BY <1>1, <2>2 DEF Rows
    <2>4. disk' = disk
      BY <1>6 DEF BlurDone
    <2> QED
      BY <1>1, <1>2, <2>1, <2>3, <2>4 DEF BlurInv
  <1> QED
    BY <1>3, <1>4, <1>5, <1>6, QuietSteps

(* So do the stream worker and the delete route. *)
LEMMA SaveKeepsIInv ==
  ASSUME IInv, SaveAndSchedule
  PROVE  IInv'
  <1> USE DEF IInv, TypeOK
  <1>1. StoreTypeOK'
    BY StoreTypes DEF SaveAndSchedule, StoreNext
  <1>2. /\ UpTypeOK' /\ UpCurrent' /\ crashes' \in 0..MaxCrashes
        /\ UNCHANGED <<blurStatus, spoilt, unsaid>>
    BY DEF SaveAndSchedule, UpTypeOK, UpCurrent
  <1>3. [stage |-> "scheduled", tmp |-> "absent"]
          \in [stage: BlurStages, tmp: Content]
    BY DEF BlurStages, Content
  <1>4. task' \in [Recordings -> [stage: BlurStages, tmp: Content]]
    BY <1>3 DEF SaveAndSchedule
  <1>5. ASSUME NEW r \in Recordings PROVE BlurInv(r)'
    <2>1. BlurInv(r)
      OBVIOUS
    <2>2. saved \in Nat /\ saved' = saved + 1 /\ saved + 1 \in Recordings
          /\ r \in Nat
      BY StoreAssumption DEF SaveAndSchedule, SaveRecording, StoreTypeOK,
                             Recordings
    <2>3. CASE r = saved + 1
      <3>1. /\ blurStatus[r] = "pending"
            /\ disk'[r]["blurred"] = disk[r]["blurred"]
            /\ task'[r].tmp = "absent"
        BY <2>1, <2>2, <2>3
           DEF BlurInv, SaveAndSchedule, SaveRecording, StoreTypeOK
      <3> QED BY <1>2, <2>1, <2>2, <2>3, <3>1 DEF BlurInv, Output
    <2>4. CASE r # saved + 1
      <3>1. row'[r] = row[r] /\ disk'[r] = disk[r] /\ task'[r] = task[r]
        BY <2>2, <2>4 DEF SaveAndSchedule, SaveRecording, StoreTypeOK
      <3> QED BY <1>2, <2>1, <2>2, <3>1 DEF BlurInv
    <2> QED BY <2>3, <2>4
  <1> QED BY <1>1, <1>2, <1>4, <1>5

(* What finalizing or deleting one recording does to the others. *)
LEMMA FinalizeFrame ==
  ASSUME StoreTypeOK, FinalizeOrDelete
  PROVE  /\ StoreTypeOK'
         /\ UNCHANGED <<saved, archive, up, task, blurStatus, crashes, spoilt,
                        unsaid>>
         /\ condemned \subseteq condemned'
         /\ \A r \in Recordings :
              /\ row'[r].live => row[r].live
              /\ row'[r].path = row[r].path
              /\ row'[r].profile \in {row[r].profile, CameraProfile}
              /\ disk'[r]["blurred"] \in {disk[r]["blurred"], "absent"}
  <1> USE DEF StoreTypeOK
  <1>0. UNCHANGED <<up, task, blurStatus, crashes, spoilt, unsaid>>
    BY DEF FinalizeOrDelete, blurVars
  <1>a. \A s \in Recordings : row[s] \in Rows
    OBVIOUS
  <1>1. ASSUME NEW r \in Recordings, QueueForProfile(r)
        PROVE  /\ UNCHANGED <<saved, archive, disk, condemned>>
               /\ \A s \in Recordings :
                    /\ row'[s].live = row[s].live
                    /\ row'[s].path = row[s].path
                    /\ row'[s].profile \in {row[s].profile, CameraProfile}
    <2>1. row' = [row EXCEPT ![r] = [row[r] EXCEPT !.remote = "pending",
                                                   !.profile = CameraProfile]]
      BY <1>1 DEF QueueForProfile
    <2> QED BY <1>1, <1>a, <2>1 DEF QueueForProfile, Rows
  <1>2. ASSUME NEW r \in Recordings, LeaveLocal(r)
        PROVE  UNCHANGED <<saved, archive, disk, condemned, row>>
    BY <1>2 DEF LeaveLocal
  <1>3. ASSUME NEW r \in Recordings, DeleteFile(r)
        PROVE  /\ UNCHANGED <<saved, archive, row>>
               /\ condemned \subseteq condemned'
               /\ \A s \in Recordings :
                    disk'[s]["blurred"] \in {disk[s]["blurred"], "absent"}
    <2>1. row[r].path \in Paths
      BY <1>a, RowFields
    <2> QED BY <1>3, <2>1 DEF DeleteFile, Paths
  <1>4. ASSUME NEW r \in Recordings, DeleteRow(r)
        PROVE  /\ UNCHANGED <<saved, archive, disk, condemned>>
               /\ \A s \in Recordings :
                    /\ row'[s].live => row[s].live
                    /\ row'[s].path = row[s].path
                    /\ row'[s].profile = row[s].profile
    <2>1. row' = [row EXCEPT ![r] = [row[r] EXCEPT !.live = FALSE]]
      BY <1>4 DEF DeleteRow
    <2> QED BY <1>4, <1>a, <2>1 DEF DeleteRow, Rows
  <1>5. StoreTypeOK'
    BY StoreTypes DEF FinalizeOrDelete, StoreNext
  <1> HIDE DEF StoreTypeOK
  <1> QED
    BY <1>0, <1>1, <1>2, <1>3, <1>4, <1>5 DEF FinalizeOrDelete

-----------------------------------------------------------------------------
(* The inductive invariant *)

LEMMA InitIInv == Init => IInv
  <1> SUFFICES ASSUME Init PROVE IInv
    OBVIOUS
  <1> USE StoreAssumption, BlurAssumption, RowKinds
      DEF Init, StoreInit, UpIdle, NoTask
  <1>1. StoreTypeOK
    BY DEF StoreTypeOK, Content, ProfileStates
  <1>2. UpTypeOK /\ UpCurrent
    BY DEF UpTypeOK, UpCurrent, NoOne, Content
  <1>3. TypeOK
    BY <1>1, <1>2 DEF TypeOK, BlurStages, Content
  <1>4. \A r \in Recordings : BlurInv(r)
    BY DEF BlurInv, Output, NoRow, NewRow, Paths
  <1> QED BY <1>2, <1>3, <1>4 DEF IInv

LEMMA NextIInv == IInv /\ [Next]_vars => IInv'
  <1> SUFFICES ASSUME IInv, [Next]_vars PROVE IInv'
    OBVIOUS
  <1> USE DEF IInv
  <1>1. CASE SaveAndSchedule
    BY <1>1, SaveKeepsIInv
  <1>2. CASE FinalizeOrDelete
    <2>1. TypeOK'
      BY <1>2, FinalizeFrame DEF TypeOK, UpTypeOK
    <2>2. UpCurrent'
      BY <1>2, FinalizeFrame DEF TypeOK, UpCurrent
    <2>3. \A r \in Recordings : BlurInv(r)'
      BY <1>2, FinalizeFrame DEF TypeOK, BlurInv, Output
    <2> QED BY <2>1, <2>2, <2>3
  <1>3. CASE UploadStep
    <2>1. UpNext /\ UNCHANGED <<task, blurStatus, crashes, spoilt, unsaid>>
      BY <1>3 DEF UploadStep, blurVars
    <2>2. TypeOK'
      BY <2>1, UploadTypes DEF TypeOK
    <2>3. UpCurrent'
      BY <2>1, UploadKeepsCurrent DEF TypeOK
    <2>4. \A r \in Recordings : BlurInv(r)'
      BY <2>1, UploadFrame DEF TypeOK, BlurInv, Output
    <2> QED BY <2>2, <2>3, <2>4
  <1>4. ASSUME NEW r \in Recordings, BlurStep(r) PROVE IInv'
    <2>1. TypeOK' /\ UNCHANGED up /\ UNCHANGED saved
      BY <1>4, TaskTypes
    <2>2. UpCurrent'
      BY <2>1 DEF UpCurrent
    <2>3. BlurInv(r)'
      BY <1>4, TaskKeepsBlurInv
    <2>4. \A s \in Recordings \ {r} : BlurInv(s)'
      BY <1>4, TaskTypes DEF BlurInv
    <2> QED BY <2>1, <2>2, <2>3, <2>4
  <1>5. CASE Crash
    <2>1. up' = UpIdle /\ UpTypeOK' /\ UpCurrent'
      BY <1>5, RowKinds DEF Crash, UpIdle, UpTypeOK, UpCurrent, NoOne, Content
    <2>2. StoreTypeOK'
      BY <1>5 DEF Crash, TypeOK, StoreTypeOK
    <2>3. TypeOK'
      BY <1>5, <2>1, <2>2, BlurAssumption
         DEF Crash, TypeOK, NoTask, BlurStages, Content
    <2>4. \A r \in Recordings : BlurInv(r)'
      BY <1>5 DEF Crash, BlurInv, NoTask, Output
    <2> QED BY <2>1, <2>3, <2>4
  <1>6. CASE UNCHANGED vars
    <2>1. TypeOK' /\ UpCurrent'
      BY <1>6 DEF vars, blurVars, storeVars, TypeOK, StoreTypeOK, UpTypeOK,
                  UpCurrent
    <2>2. \A r \in Recordings : BlurInv(r)'
      BY <1>6 DEF vars, blurVars, storeVars, BlurInv
    <2> QED BY <2>1, <2>2
  <1> QED BY <1>1, <1>2, <1>3, <1>4, <1>5, <1>6 DEF Next

(* The inductive invariant holds in every behaviour. *)
THEOREM IInvHolds == Spec => []IInv
  BY InitIInv, NextIInv, PTL DEF Spec

(* Every variable keeps its type.                                          *)
THEOREM TypeCorrect == Spec => []TypeOK
  <1>1. IInv => TypeOK
    BY DEF IInv
  <1> QED BY <1>1, IInvHolds, PTL

(* A row whose blur pass is done never names a file that shows the         *)
(* original: whatever the upload worker, the delete route and crashes do   *)
(* between the swap of the file and the update of its row.                 *)
THEOREM DoneNeverShowsTheOriginal == Spec => []DoneIsNotRaw
  <1>1. IInv => DoneIsNotRaw
    BY DEF IInv, BlurInv, Output, DoneIsNotRaw, FileOf
  <1> QED BY <1>1, IInvHolds, PTL

-----------------------------------------------------------------------------
(* Without a profile that drops the local file *)

(* The upload worker then leaves every file alone. *)
LEMMA UploadKeepsFiles ==
  ASSUME CameraProfile \notin DropLocal, IInv, KInv, UpNext
  PROVE  /\ disk' = disk
         /\ \A r \in Recordings : CameraOnly(up.seen[r])'
  <1> USE DEF IInv, TypeOK, UpTypeOK, KInv, CameraOnly
  <1>1. CASE UpSelect
    <2>1. /\ disk' = disk
          /\ \A r \in Recordings : up'.seen[r] \in {row[r], NoRow}
      BY <1>1 DEF UpSelect, UpIdle, storeVars
    <2> QED BY <2>1 DEF NoRow, NewRow
  <1>2. ASSUME NEW r \in Recordings, UpGiveUp(r)
        PROVE  disk' = disk /\ \A s \in Recordings : CameraOnly(up.seen[s])'
    <2>1. /\ disk' = disk
          /\ up'.seen = [up.seen EXCEPT
                           ![r] = [up.seen[r] EXCEPT !.remote = "failed"]]
      BY <1>2 DEF UpGiveUp
    <2>2. \A s \in Recordings : up'.seen[s].profile = up.seen[s].profile
      BY <2>1 DEF Rows
    <2> QED BY <2>1, <2>2
  <1>3. ASSUME NEW r \in Recordings, UpOpen(r)
        PROVE  disk' = disk /\ up'.seen = up.seen
    BY <1>3 DEF UpOpen
  <1>4. CASE UpSent
    <2>1. /\ disk' = disk
          /\ up'.seen = [up.seen EXCEPT
                  ![up.cur] = [up.seen[up.cur] EXCEPT !.remote = "uploaded"]]
      BY <1>4 DEF UpSent
    <2>2. \A s \in Recordings : up'.seen[s].profile = up.seen[s].profile
      BY <2>1 DEF Rows
    <2> QED BY <2>1, <2>2
  <1>5. CASE UpSendFails
    <2>1. /\ disk' = disk
          /\ \A s \in Recordings : up'.seen[s].profile = up.seen[s].profile
      <3>1. PICK n, st :
              /\ disk' = disk
              /\ up'.seen = [up.seen EXCEPT
                    ![up.cur] = [up.seen[up.cur] EXCEPT !.attempts = n,
                                                        !.remote = st]]
        BY <1>5 DEF UpSendFails
      <3> QED BY <3>1 DEF Rows
    <2> QED BY <2>1
  <1>6. CASE UpDropLocal
    <2>1. up.cur \in Recordings /\ up.seen[up.cur].profile \in Profiles
      BY <1>6 DEF UpDropLocal, UpCurrent
    <2>2. up.seen[up.cur].profile = CameraProfile
      BY <2>1, StoreAssumption
    <2>3. ArchiveTarget # up.seen[up.cur].profile
      BY <2>1, StoreAssumption DEF ArchiveTarget
    <2> QED BY <1>6, <2>2, <2>3 DEF UpDropLocal
  <1>7. CASE UpKeepLocal
    BY <1>7 DEF UpKeepLocal, storeVars
  <1>8. CASE UpCommit
    BY <1>8 DEF UpCommit, UpIdle, NoRow, NewRow
  <1>9. CASE UpRollback
    BY <1>9 DEF UpRollback, UpIdle, NoRow, NewRow
  <1> QED
    BY <1>1, <1>2, <1>3, <1>4, <1>5, <1>6, <1>7, <1>8, <1>9 DEF UpNext

(* A task moves the footage of its recording; it drops it only for what an *)
(* encoder left that died.                                                 *)
LEMMA TaskKeepsFootage ==
  ASSUME IInv, NEW r \in Recordings, Kept(r), BlurStep(r)
  PROVE  Kept(r)' \/ r \in spoilt'
  <1>1. /\ row[r] \in Rows
        /\ task \in [Recordings -> [stage: BlurStages, tmp: Content]]
        /\ disk \in [Recordings -> [Paths -> Content]]
        /\ row \in [Recordings -> Rows]
        /\ unsaid \in [Recordings -> {"none", "status", "path"}]
        /\ row[r].live
        /\ crashes' = crashes /\ TypeOK
    BY TaskTypes DEF Kept, IInv, TypeOK, StoreTypeOK
  <1>2. ASSUME NEW from \in BlurStages \ {"none", "writing", "written"},
               NEW to \in BlurStages \ {"written", "swapped"}, Quiet(r, from, to)
        PROVE  Kept(r)'
    <2>1. /\ task[r].stage = from /\ task'[r].stage = to
          /\ row' = row /\ disk' = disk
      BY <1>1, <1>2, QuietFrame DEF storeVars
    <2>2. CASE from # "swapped"
      BY <1>1, <1>2, <2>1, <2>2 DEF Kept
    <2>3. CASE from = "swapped"
      <3>1. BlurStep(r) /\ ~BlurDone(r) => to = "none" /\ unsaid'[r] = "path"
        <4>1. task[r].stage = "swapped"
          BY <2>1, <2>3
        <4>2. BlurStep(r) => Refused(r) \/ BlurDone(r)
          BY <4>1 DEF BlurStep, BlurNothing, BlurStart, BlurProcessing, BlurScan,
             BlurWrite, EncoderDies, BlurFails, BlurSwap, BlurSkipped, BlurFailed, Goto
        <4>3. Refused(r) => task'[r].stage = "none" /\ unsaid'[r] = "path"
          BY <1>1, <4>1 DEF Refused, Goto, LastStages
        <4> QED
          BY <2>1, <4>2, <4>3
      <3>2. BlurDone(r) => row'[r].path = "blurred"
        <4>1. BlurDone(r) => row'[r] = [row[r] EXCEPT !.path = "blurred"]
          BY <1>1 DEF BlurDone
        <4> QED
          BY <1>1, <4>1 DEF Rows, Paths
      <3> QED
        BY <1>1, <2>1, <2>3, <3>1, <3>2 DEF Kept
    <2> QED
      BY <2>2, <2>3
  <1>3. CASE BlurWrite(r) \/ EncoderDies(r)
    <2>1. /\ task[r].stage = "writing"
          /\ row' = row /\ disk' = disk
      BY <1>3 DEF BlurWrite, EncoderDies, storeVars
    <2>2. row[r].path = "original" /\ disk[r]["original"] = "raw"
      BY <2>1 DEF Kept
    <2>3. task'[r].stage = "written" /\ task'[r].tmp \in {"blurred", "partial"}
      BY <1>1, <1>3, <2>2 DEF BlurWrite, EncoderDies
    <2> QED BY <1>1, <2>1, <2>2, <2>3 DEF Kept
  <1>4. CASE BlurFails(r)
    <2>1. /\ task[r].stage \notin {"none", "swapped"} /\ task'[r].stage = "failing"
          /\ row' = row /\ disk' = disk
      BY <1>1, <1>4 DEF BlurFails, storeVars
    <2> QED BY <1>1, <2>1 DEF Kept
  <1>5. CASE BlurSwap(r)
    <2>1. /\ task[r].stage = "written"
          /\ task'[r].stage = "swapped"
          /\ disk'[r]["blurred"] = task[r].tmp
          /\ row' = row
          /\ task[r].tmp = "partial" => r \in spoilt'
      BY <1>1, <1>5 DEF BlurSwap
    <2>2. row[r].path = "original" /\ task[r].tmp \in {"blurred", "partial"}
      BY <2>1 DEF Kept
    <2> QED BY <1>1, <2>1, <2>2 DEF Kept
  <1>6. CASE BlurDone(r)
    <2>1. /\ task[r].stage = "swapped"
          /\ task'[r].stage = "none"
          /\ disk' = disk
          /\ row'[r] = [row[r] EXCEPT !.path = "blurred"]
      BY <1>1, <1>6 DEF BlurDone, Goto
    <2>2. disk[r]["blurred"] = "blurred"
      BY <2>1 DEF Kept
    <2>3. row'[r].path = "blurred" /\ row'[r].live
      BY <1>1, <2>1 DEF Rows, Paths
    <2> QED BY <2>1, <2>2, <2>3 DEF Kept
  <1> QED
    BY <1>2, <1>3, <1>4, <1>5, <1>6, QuietSteps

(* No task changes the profile of a row. *)
LEMMA TaskKeepsProfile ==
  ASSUME IInv, NEW r \in Recordings, BlurStep(r)
  PROVE  row'[r].profile = row[r].profile
  <1>1. row[r] \in Rows
    BY DEF IInv, TypeOK, StoreTypeOK
  <1>2. CASE BlurDone(r)
    <2>1. row'[r] = [row[r] EXCEPT !.path = IF row[r].live THEN "blurred"
                                                           ELSE @]
      BY <1>2 DEF BlurDone, IInv, TypeOK, StoreTypeOK
    <2> QED BY <1>1, <2>1 DEF Rows
  <1>3. CASE ~BlurDone(r)
    <2>1. row' = row
      BY <1>3 DEF BlurStep, BlurNothing, BlurStart, BlurProcessing, Refused,
                  BlurScan, BlurWrite, EncoderDies, BlurFails, BlurSwap,
                  BlurSkipped, BlurFailed, storeVars
    <2> QED BY <2>1
  <1> QED BY <1>2, <1>3

(* Deleting one recording leaves the footage of the others. *)
LEMMA FinalizeKeepsFootage ==
  ASSUME IInv, KInv, FinalizeOrDelete
  PROVE  /\ deleting' \subseteq condemned'
         /\ \A r \in Recordings :
              r \notin condemned' =>
                /\ disk'[r] = disk[r]
                /\ row'[r].live = row[r].live
  <1> USE DEF IInv, TypeOK, StoreTypeOK, KInv
  <1>1. ASSUME NEW r \in Recordings, QueueForProfile(r)
        PROVE  /\ UNCHANGED <<deleting, condemned, disk>>
               /\ \A s \in Recordings : row'[s].live = row[s].live
    BY <1>1 DEF QueueForProfile, Rows
  <1>2. ASSUME NEW r \in Recordings, LeaveLocal(r)
        PROVE  UNCHANGED <<deleting, condemned, disk, row>>
    BY <1>2 DEF LeaveLocal
  <1>3. ASSUME NEW r \in Recordings, DeleteFile(r)
        PROVE  /\ deleting' \subseteq condemned'
               /\ row' = row
               /\ \A s \in Recordings :
                    s \notin condemned' => disk'[s] = disk[s]
    BY <1>3 DEF DeleteFile
  <1>4. ASSUME NEW r \in Recordings, DeleteRow(r)
        PROVE  /\ deleting' \subseteq condemned'
               /\ disk' = disk
               /\ \A s \in Recordings :
                    s \notin condemned' => row'[s] = row[s]
    BY <1>4 DEF DeleteRow
  <1> HIDE DEF IInv, KInv
  <1>5. deleting \subseteq condemned
    BY DEF KInv
  <1> QED BY <1>1, <1>2, <1>3, <1>4, <1>5 DEF FinalizeOrDelete

LEMMA InitKInv == NoArchiveInit => KInv
  BY StoreAssumption
     DEF NoArchiveInit, Init, StoreInit, UpIdle, KInv, CameraOnly, NoRow,
         NewRow, Recordings

LEMMA NextKInv ==
  ASSUME CameraProfile \notin DropLocal, IInv, KInv, [Next]_vars
  PROVE  KInv'
  <1>1. CASE SaveAndSchedule
    <2>1. saved \in Nat /\ saved + 1 \in Recordings /\ saved' = saved + 1
      BY <1>1, StoreAssumption
         DEF SaveAndSchedule, SaveRecording, IInv, TypeOK, StoreTypeOK,
             Recordings
    <2>2. UNCHANGED <<archive, deleting, condemned, up, crashes, spoilt, unsaid>>
      BY <1>1 DEF SaveAndSchedule, SaveRecording
    <2>3. \A r \in Recordings \ {saved + 1} :
            row'[r] = row[r] /\ disk'[r] = disk[r] /\ task'[r] = task[r]
      BY <1>1, <2>1 DEF SaveAndSchedule, SaveRecording, IInv, TypeOK,
                        StoreTypeOK
    <2>4. /\ row'[saved + 1] = NewRow
          /\ disk'[saved + 1]["original"] = "raw"
          /\ task'[saved + 1].stage = "scheduled"
      BY <1>1, <2>1 DEF SaveAndSchedule, SaveRecording, IInv, TypeOK,
                        StoreTypeOK, Paths
    <2>5. \A r \in Recordings : CameraOnly(row[r])' /\ CameraOnly(up.seen[r])'
      BY <2>2, <2>3, <2>4 DEF KInv, CameraOnly, NewRow
    <2>6. ASSUME NEW r \in Recordings, r <= saved', r \notin condemned' \cup spoilt'
          PROVE  Kept(r)'
      <3>1. CASE r = saved + 1
        BY <2>4, <3>1 DEF Kept, NewRow
      <3>2. CASE r # saved + 1
        <4>1. r <= saved
          BY <2>1, <2>6, <3>2 DEF Recordings
        <4> QED BY <2>2, <2>3, <2>6, <3>2, <4>1 DEF KInv, Kept
      <3> QED BY <3>1, <3>2
    <2> QED BY <2>2, <2>5, <2>6 DEF KInv
  <1>2. CASE FinalizeOrDelete
    <2>1. StoreTypeOK
      BY DEF IInv, TypeOK
    <2>2. /\ UNCHANGED <<saved, archive, up, task, crashes, spoilt, unsaid>>
          /\ condemned \subseteq condemned'
          /\ \A r \in Recordings :
               /\ row'[r].path = row[r].path
               /\ row'[r].profile \in {row[r].profile, CameraProfile}
      BY <1>2, <2>1, FinalizeFrame
    <2>3. \A r \in Recordings : CameraOnly(row[r])' /\ CameraOnly(up.seen[r])'
      BY <2>2 DEF KInv, CameraOnly
    <2>4. ASSUME NEW r \in Recordings, r <= saved', r \notin condemned' \cup spoilt'
          PROVE  Kept(r)'
      <3>1. disk'[r] = disk[r] /\ row'[r].live = row[r].live
        BY <1>2, <2>4, FinalizeKeepsFootage
      <3> QED BY <2>2, <2>4, <3>1 DEF KInv, Kept
    <2> QED BY <1>2, <2>2, <2>3, <2>4, FinalizeKeepsFootage DEF KInv
  <1>3. CASE UploadStep
    <2>1. UpNext /\ UNCHANGED <<task, crashes, spoilt, unsaid>>
      BY <1>3 DEF UploadStep, blurVars
    <2>2. /\ disk' = disk
          /\ \A r \in Recordings : CameraOnly(up.seen[r])'
      BY <2>1, UploadKeepsFiles
    <2>3. /\ UNCHANGED <<saved, archive, deleting, condemned>>
          /\ \A r \in Recordings :
               /\ row'[r].live = row[r].live
               /\ row'[r].path = row[r].path
               /\ row'[r].profile = row[r].profile
      <3>1. StoreTypeOK /\ UpTypeOK /\ UpCurrent
        BY DEF IInv, TypeOK
      <3>2. UNCHANGED <<saved, archive, deleting, condemned>>
        BY <2>1 DEF UpNext, UpSelect, UpGiveUp, UpOpen, UpSent, UpSendFails,
                    UpDropLocal, UpKeepLocal, UpCommit, UpRollback, storeVars
      <3> QED BY <2>1, <3>1, <3>2, UploadFrame
    <2> QED BY <2>1, <2>2, <2>3 DEF KInv, Kept, CameraOnly
  <1>4. ASSUME NEW r \in Recordings, BlurStep(r) PROVE KInv'
    <2>1. /\ UNCHANGED <<saved, archive, deleting, condemned, up, crashes>>
          /\ spoilt \subseteq spoilt'
          /\ \A s \in Recordings \ {r} :
               /\ row'[s] = row[s] /\ disk'[s] = disk[s] /\ task'[s] = task[s]
               /\ unsaid'[s] = unsaid[s]
      BY <1>4, TaskTypes DEF IInv
    <2>2. row'[r].profile = row[r].profile
      BY <1>4, TaskKeepsProfile
    <2>3. r <= saved /\ r \notin condemned \cup spoilt' => Kept(r)'
      BY <1>4, <2>1, TaskKeepsFootage DEF KInv
    <2>4. \A s \in Recordings : CameraOnly(row[s])' /\ CameraOnly(up.seen[s])'
      BY <2>1, <2>2 DEF KInv, CameraOnly
    <2>5. \A s \in Recordings \ {r} :
            s <= saved /\ s \notin condemned \cup spoilt' => Kept(s)'
      BY <2>1 DEF KInv, Kept
    <2> QED BY <2>1, <2>3, <2>4, <2>5 DEF KInv
  <1>5. CASE Crash
    <2>1. /\ UNCHANGED <<row, disk, archive, saved, deleting, condemned, spoilt,
                         unsaid>>
          /\ crashes' = crashes + 1
          /\ up' = UpIdle
          /\ task' = [r \in Recordings |-> NoTask]
      BY <1>5 DEF Crash
    <2>2. crashes \in Nat
      BY BlurAssumption DEF IInv, TypeOK
    <2>3. \A r \in Recordings : CameraOnly(row[r])' /\ CameraOnly(up.seen[r])'
      BY <2>1 DEF KInv, CameraOnly, UpIdle, NoRow, NewRow
    <2>4. ASSUME NEW r \in Recordings, Kept(r) PROVE Kept(r)'
      BY <2>1, <2>2, <2>4 DEF Kept, NoTask
    <2> QED BY <2>1, <2>3, <2>4 DEF KInv
  <1>6. CASE UNCHANGED vars
    BY <1>6 DEF vars, blurVars, storeVars, KInv, Kept, CameraOnly
  <1> QED BY <1>1, <1>2, <1>3, <1>4, <1>5, <1>6 DEF Next

(* Both invariants hold where there is no archive and no dropping profile. *)
LEMMA NoArchiveInvariants ==
  CameraProfile \notin DropLocal /\ NoArchiveSpec => [](IInv /\ KInv)
  <1> SUFFICES ASSUME CameraProfile \notin DropLocal
               PROVE  NoArchiveSpec => [](IInv /\ KInv)
    OBVIOUS
  <1>1. NoArchiveInit => IInv /\ KInv
    BY InitIInv, InitKInv DEF NoArchiveInit
  <1>2. IInv /\ KInv /\ [Next]_vars => (IInv /\ KInv)'
    BY NextIInv, NextKInv
  <1> QED BY <1>1, <1>2, PTL DEF NoArchiveSpec

(* Where no profile drops the local file, no recording loses its last      *)
(* watchable copy: neither to a pass that fails, nor to an update that the *)
(* database refuses, nor to a crash between any two steps; only a dead     *)
(* encoder's copy, which the pass takes for its own, can take its place.   *)
THEOREM FootageSurvivesThePass ==
  CameraProfile \notin DropLocal /\ NoArchiveSpec => []CopySurvives
  <1>1. IInv /\ KInv => CopySurvives
    <2> SUFFICES ASSUME KInv, NEW r \in Recordings, r <= saved,
                        r \notin condemned \cup spoilt
                 PROVE  HasCopy(r)
      BY DEF CopySurvives
    <2> QED BY DEF KInv, Kept, HasCopy, Footage, Paths
  <1> QED BY <1>1, NoArchiveInvariants, PTL

(* There, as long as the process does not die, every recording can be      *)
(* played from its own file whenever no task works on it, but for the two  *)
(* failures nobody hears of: that of the encoder, and that of the update   *)
(* of a row whose file has been swapped.                                   *)
THEOREM EveryRecordingPlays ==
  CameraProfile \notin DropLocal /\ NoArchiveSpec => []StaysUsable
  <1>1. IInv /\ KInv => StaysUsable
    <2> SUFFICES ASSUME IInv, KInv, crashes = 0, NEW r \in Recordings,
                        row[r].live, r \notin condemned \cup spoilt,
                        unsaid[r] # "path", task[r].stage = "none"
                 PROVE  Playable(r)
      BY DEF StaysUsable
    <2>1. r <= saved
      BY StoreAssumption
         DEF IInv, BlurInv, TypeOK, StoreTypeOK, Recordings
    <2>2. Kept(r)
      BY <2>1 DEF KInv
    <2> QED BY <2>2 DEF Kept, Playable, FileOf, Footage
  <1> QED BY <1>1, NoArchiveInvariants, PTL

-----------------------------------------------------------------------------
(* A failed pass leaves the recording playable                             *)

(* The footage of recording r is out of the upload worker's hands: the row *)
(* says so, or will at the next commit.                                    *)
Secured(r) == \/ row[r].remote = "uploaded"
              \/ r \in up.dirty /\ up.seen[r].remote = "uploaded"

(* The worker's stages, what it has in hand, and what it is sending: the   *)
(* path it read may be one the pass has left, never one it has not reached. *)
WorkerInv ==
  /\ HandQueued
  /\ \A r \in Recordings : Hand(r) =>
       /\ r <= saved /\ up.seen[r].profile = row[r].profile
       /\ up.seen[r].path = "blurred" => row[r].path = "blurred"
  /\ up.batch \cap up.dirty = {}
  /\ up.stage = "idle" => up.dirty = {}
  /\ up.stage \in {"sending", "stored"} =>
       /\ up.cur \notin up.batch
       /\ up.seen[up.cur].path = "original" => up.content = "raw"
  /\ up.stage = "sending" => up.cur \notin up.dirty
  /\ up.stage = "stored" =>
       up.cur \in up.dirty /\ up.seen[up.cur].remote = "uploaded"

(* Until its file is swapped, a recording has its original or is secured,  *)
(* and nothing has been kept from its row;                                 *)
(* what is secured under the original's name is watchable where the row,   *)
(* or the worker's copy of it, says it is.                                 *)
OriginalInv(r) ==
  /\ disk[r]["original"] \in {"absent", "raw"}
  /\ task[r].stage # "none" => row[r].path = "original" /\ unsaid[r] = "none"
  /\ blurStatus[r] = "failed" => /\ task[r].stage = "none" /\ unsaid[r] # "path"
                                 /\ row[r].path = "original"
  /\ row[r].path = "original" =>
       /\ r <= saved /\ task[r].stage # "swapped" /\ unsaid[r] # "path"
            => disk[r]["original"] = "raw" \/ Secured(r)
       /\ Secured(r) => /\ row[r].profile \in Profiles
                        /\ object[row[r].profile][r] \in Footage

(* As long as nobody deletes and the process does not die: rows stay, and  *)
(* a segment that waits for its target is not queued.                      *)
Calm == crashes = 0 /\ condemned = {}

CalmState ==
  /\ \A r \in Recordings : r <= saved => row[r].live
  /\ \A r \in finalizing : row[r].remote = "null"
  /\ WorkerInv
  /\ \A r \in Recordings : OriginalInv(r)

CalmInv ==
  /\ \A p \in Profiles : profile[p] = "enabled"
  /\ deleting \subseteq condemned
  /\ Calm => CalmState

(* What the types say, and that only recorded segments are listed. *)
LEMMA CalmTypes ==
  ASSUME IInv
  PROVE  /\ StoreTypeOK /\ UpTypeOK /\ UpCurrent
         /\ saved \in Nat /\ finalizing \subseteq 1..saved
         /\ \A r \in Recordings : /\ r \in Nat /\ row[r] \in Rows
                                  /\ row[r].live => r <= saved
                                  /\ r > saved => /\ blurStatus[r] = "pending"
                                                  /\ unsaid[r] = "none"
  <1>1. /\ StoreTypeOK /\ UpTypeOK /\ UpCurrent /\ saved \in Nat
        /\ \A r \in Recordings : r \in Nat /\ row[r] \in Rows
    BY StoreAssumption DEF IInv, TypeOK, StoreTypeOK, Recordings
  <1>2. finalizing \subseteq 1..saved
    BY <1>1 DEF StoreTypeOK
  <1>3. \A r \in Recordings : r > saved => /\ blurStatus[r] = "pending"
                                           /\ unsaid[r] = "none" /\ ~row[r].live
    BY DEF IInv, BlurInv
  <1> QED
    BY <1>1, <1>2, <1>3

(* Recording and queueing keep what is said of the worker. *)
LEMMA StoreKeepsWorkerInv ==
  ASSUME IInv, WorkerInv, \A r \in finalizing : row[r].remote = "null",
         StoreNext, up' = up, saved' \in Nat, saved <= saved'
  PROVE  WorkerInv'
  <1>1. HandQueued'
    BY CalmTypes, StoreKeepsHands DEF WorkerInv
  <1>2. ASSUME NEW r \in Recordings, Hand(r)
        PROVE  /\ r <= saved' /\ up.seen[r].profile = row'[r].profile
               /\ up.seen[r].path = "blurred" => row'[r].path = "blurred"
    <2>1. /\ r <= saved /\ up.seen[r].profile = row[r].profile
          /\ up.seen[r].path = "blurred" => row[r].path = "blurred"
          /\ row[r].remote # "null"
      BY <1>2 DEF WorkerInv, HandQueued
    <2>2. ~QueueForProfile(r)
      BY <2>1 DEF QueueForProfile
    <2>3. r # saved + 1 /\ r <= saved'
      BY <2>1, CalmTypes
    <2> QED
      BY <2>1, <2>2, <2>3, CalmTypes, StoreRows
  <1> QED
    BY <1>1, <1>2 DEF WorkerInv, Hand

(* A new segment has its original. *)
LEMMA SaveKeepsCalm ==
  ASSUME IInv, CalmState, SaveAndSchedule
  PROVE  CalmState'
  <1>1. /\ saved' = saved + 1 /\ saved + 1 \in Recordings
        /\ row' = [row EXCEPT ![saved + 1] = NewRow]
        /\ disk' = [disk EXCEPT ![saved + 1]["original"] = "raw"]
        /\ finalizing' = finalizing \cup {saved + 1}
        /\ task' = [task EXCEPT ![saved + 1] = [stage |-> "scheduled", tmp |-> "absent"]]
        /\ UNCHANGED <<object, up, blurStatus, unsaid>>
    BY CalmTypes, StoreAssumption DEF SaveAndSchedule, SaveRecording, Recordings
  <1>2. /\ row \in [Recordings -> Rows] /\ disk \in [Recordings -> [Paths -> Content]]
        /\ \A r \in Recordings : task[r] = task[r] /\ r \in DOMAIN task
        /\ saved \in Nat
    BY CalmTypes DEF IInv, TypeOK, StoreTypeOK
  <1>3. /\ row'[saved + 1] = NewRow /\ disk'[saved + 1]["original"] = "raw"
        /\ task'[saved + 1].stage = "scheduled"
    BY <1>1, <1>2 DEF Paths
  <1>4. ASSUME NEW r \in Recordings, r # saved + 1
        PROVE  row'[r] = row[r] /\ disk'[r] = disk[r] /\ task'[r] = task[r]
    BY <1>1, <1>2, <1>4
  <1>5. WorkerInv'
    BY <1>1, <1>2, StoreKeepsWorkerInv DEF SaveAndSchedule, StoreNext, CalmState
  <1>6. \A r \in Recordings : r <= saved' => row'[r].live
    BY <1>1, <1>2, <1>3, <1>4, CalmTypes DEF CalmState, NewRow
  <1>7. \A r \in finalizing' : row'[r].remote = "null"
    <2>1. \A r \in finalizing : r \in Recordings /\ r # saved + 1
      BY <1>2, CalmTypes, StoreAssumption DEF StoreTypeOK, Recordings
    <2> QED
      BY <1>1, <1>3, <1>4, <2>1 DEF CalmState, NewRow
  <1>8. ASSUME NEW r \in Recordings PROVE OriginalInv(r)'
    <2>1. CASE r = saved + 1
      <3>1. ~Hand(r)
        BY <1>2, <2>1 DEF CalmState, WorkerInv
      <3>2. ~Secured(r)'
        BY <1>1, <1>3, <2>1, <3>1 DEF Secured, Hand, NewRow
      <3>3. blurStatus[r] = "pending" /\ unsaid[r] = "none"
        BY <1>2, <2>1, CalmTypes
      <3> QED
        BY <1>1, <1>3, <2>1, <3>2, <3>3 DEF OriginalInv, NewRow
    <2>2. CASE r # saved + 1
      <3>1. r <= saved' => r <= saved
        BY <1>1, <1>2, <2>2, CalmTypes
      <3>2. OriginalInv(r)
        BY DEF CalmState
      <3> QED
        BY <1>1, <1>4, <2>2, <3>1, <3>2 DEF OriginalInv, Secured
    <2> QED
      BY <2>1, <2>2
  <1> QED
    BY <1>5, <1>6, <1>7, <1>8 DEF CalmState

(* Queueing a segment leaves its file where it is. *)
LEMMA FinalizeKeepsCalm ==
  ASSUME IInv, CalmState, deleting \subseteq condemned, FinalizeOrDelete,
         condemned' = {}
  PROVE  CalmState'
  <1>1. condemned = {} /\ deleting = {}
    BY CalmTypes, FinalizeFrame
  <1>2. PICK q \in Recordings : QueueForProfile(q) \/ LeaveLocal(q)
    BY <1>1 DEF FinalizeOrDelete, DeleteFile, DeleteRow
  <1>3. /\ StoreNext
        /\ UNCHANGED <<up, task, blurStatus, unsaid, disk, object, saved>>
        /\ finalizing' \subseteq finalizing
        /\ \A r \in Recordings : QueueForProfile(r) => r \notin finalizing'
    BY <1>2 DEF StoreNext, FinalizeOrDelete, QueueForProfile, LeaveLocal, blurVars
  <1>4. ASSUME NEW r \in Recordings
        PROVE  /\ row'[r].path = row[r].path /\ row'[r].live = row[r].live
               /\ \/ /\ row'[r].remote = row[r].remote
                     /\ row'[r].profile = row[r].profile
                  \/ /\ QueueForProfile(r) /\ row[r].remote = "null"
                     /\ row'[r].remote = "pending"
    <2>1. ~SaveRecording
      BY <1>3, CalmTypes DEF SaveRecording
    <2>2. row'[r].live = row[r].live
      BY <1>2, CalmTypes DEF QueueForProfile, LeaveLocal, StoreTypeOK, Rows
    <2>3. QueueForProfile(r) => row[r].remote = "null"
      BY DEF QueueForProfile, CalmState
    <2> QED
      BY <1>3, <2>1, <2>2, <2>3, CalmTypes, StoreRows
  <1>5. WorkerInv'
    BY <1>3, CalmTypes, StoreKeepsWorkerInv DEF CalmState
  <1>6. \A r \in finalizing' : row'[r].remote = "null"
    <2>1. finalizing \subseteq Recordings
      BY CalmTypes, StoreAssumption DEF StoreTypeOK, Recordings
    <2> QED
      BY <1>3, <1>4, <2>1 DEF CalmState
  <1>7. ASSUME NEW r \in Recordings PROVE OriginalInv(r)'
    <2>1. OriginalInv(r)
      BY DEF CalmState
    <2>2. row[r].remote = "null" => ~Hand(r)
      BY DEF CalmState, WorkerInv, HandQueued
    <2>3. CASE row'[r].remote = row[r].remote /\ row'[r].profile = row[r].profile
      BY <1>3, <1>4, <2>1, <2>3 DEF OriginalInv, Secured
    <2>4. CASE row[r].remote = "null" /\ row'[r].remote = "pending"
      <3>1. ~Secured(r) /\ ~Secured(r)'
        BY <1>3, <2>2, <2>4 DEF Secured, Hand
      <3> QED
        BY <1>3, <1>4, <2>1, <3>1 DEF OriginalInv
    <2> QED
      BY <1>4, <2>3, <2>4
  <1> QED
    BY <1>3, <1>4, <1>5, <1>6, <1>7 DEF CalmState

(* The worker takes each recording of its batch once, and sends what it    *)
(* opened.                                                                 *)
LEMMA UploadKeepsWorkerInv ==
  ASSUME IInv, WorkerInv, UpNext, saved' = saved,
         \A r \in Recordings : disk[r]["original"] \in {"absent", "raw"}
  PROVE  WorkerInv'
  <1> DEFINE Stages ==
         /\ up'.batch \cap up'.dirty = {}
         /\ up'.stage = "idle" => up'.dirty = {}
         /\ up'.stage \in {"sending", "stored"} =>
              /\ up'.cur \notin up'.batch
              /\ up'.seen[up'.cur].path = "original" => up'.content = "raw"
         /\ up'.stage = "sending" => up'.cur \notin up'.dirty
         /\ up'.stage = "stored" =>
              up'.cur \in up'.dirty /\ up'.seen[up'.cur].remote = "uploaded"
  <1>0. /\ up \in [stage: {"idle", "next", "sending", "stored"},
                   batch: SUBSET Recordings, cur: Recordings \cup {NoOne},
                   seen: [Recordings -> Rows], dirty: SUBSET Recordings,
                   content: Content]
        /\ UpCurrent
    BY CalmTypes DEF UpTypeOK
  <1>1. HandQueued'
    BY CalmTypes, UploadKeepsHands DEF WorkerInv
  <1>2. ASSUME NEW r \in Recordings, Hand(r)'
        PROVE  /\ r <= saved /\ up'.seen[r].profile = row'[r].profile
               /\ up'.seen[r].path = "blurred" => row'[r].path = "blurred"
    <2>1. CASE /\ Hand(r) /\ row'[r] = row[r]
               /\ up'.seen[r].profile = up.seen[r].profile
               /\ up'.seen[r].path = up.seen[r].path
      BY <2>1 DEF WorkerInv
    <2>2. CASE r \in Queued /\ row'[r] = row[r] /\ up'.seen[r] = row[r]
      BY <2>2, CalmTypes DEF Queued, Live
    <2> QED
      BY <1>2, <2>1, <2>2, CalmTypes, UploadHands
  <1>3. CASE UpSelect
    <2>1. up'.stage = "next" /\ up'.dirty = {}
      BY <1>3 DEF UpSelect, UpIdle
    <2> QED
      BY <1>1, <1>2, <2>1 DEF WorkerInv
  <1>4. ASSUME NEW r \in Recordings, UpGiveUp(r) PROVE Stages
    <2>1. /\ up.stage = "next" /\ up'.stage = up.stage
          /\ up'.batch = up.batch \ {r} /\ up'.dirty = up.dirty \cup {r}
      BY <1>4 DEF UpGiveUp, UpTake
    <2> QED
      BY <2>1 DEF WorkerInv
  <1>5. ASSUME NEW r \in Recordings, UpOpen(r) PROVE Stages
    <2>1. /\ r \in up.batch /\ up'.stage = "sending" /\ up'.cur = r
          /\ up'.batch = up.batch \ {r} /\ up'.dirty = up.dirty
          /\ up'.seen = up.seen /\ up'.content = FileOf(r, up.seen[r])
          /\ FileOf(r, up.seen[r]) # "absent"
      BY <1>0, <1>5 DEF UpOpen, UpTake, Oldest, CanSend
    <2>2. up.seen[r].path = "original" => FileOf(r, up.seen[r]) = "raw"
      BY <2>1 DEF FileOf
    <2> QED
      BY <2>1, <2>2 DEF WorkerInv
  <1>6. CASE UpSent
    <2> DEFINE c == up.cur
    <2>1. /\ up.stage = "sending" /\ c \in Recordings /\ up'.stage = "stored"
          /\ up'.cur = c /\ up'.batch = up.batch /\ up'.dirty = up.dirty \cup {c}
          /\ up'.content = up.content
          /\ up'.seen = [up.seen EXCEPT ![c].remote = "uploaded"]
      BY <1>0, <1>6 DEF UpSent, UpCurrent
    <2>2. up'.seen[c].path = up.seen[c].path /\ up'.seen[c].remote = "uploaded"
      BY <1>0, <2>1 DEF Rows
    <2>3. Stages
      BY <2>1, <2>2 DEF WorkerInv
    <2> QED
      BY <1>1, <1>2, <2>3 DEF WorkerInv
  <1>7. CASE UpSendFails
    <2>1. /\ up.stage = "sending" /\ up'.stage = "next"
          /\ up'.batch = up.batch /\ up'.dirty = up.dirty \cup {up.cur}
      BY <1>0, <1>7 DEF UpSendFails
    <2> QED
      BY <1>1, <1>2, <2>1 DEF WorkerInv
  <1>8. CASE UpDropLocal \/ UpKeepLocal
    <2>1. up'.stage = "next" /\ up'.batch = up.batch /\ up'.dirty = up.dirty
      BY <1>0, <1>8 DEF UpDropLocal, UpKeepLocal
    <2> QED
      BY <1>1, <1>2, <2>1 DEF WorkerInv
  <1>9. CASE UpCommit \/ UpRollback
    <2>1. up' = UpIdle
      BY <1>9 DEF UpCommit, UpRollback
    <2>2. up'.stage = "idle" /\ up'.batch = {} /\ up'.dirty = {}
      BY <2>1 DEF UpIdle
    <2> QED
      BY <1>1, <1>2, <2>2 DEF WorkerInv
  <1>10. Stages => WorkerInv'
    BY <1>1, <1>2 DEF WorkerInv
  <1> HIDE DEF Stages
  <1> QED
    BY <1>3, <1>4, <1>5, <1>6, <1>7, <1>8, <1>9, <1>10 DEF UpNext

(* What is secured stays so: no row it could commit is gone.               *)
LEMMA SecuredStays ==
  ASSUME IInv, CalmState, UpNext, NEW r \in Recordings, Secured(r)
  PROVE  Secured(r)'
  <1>0. /\ up \in [stage: {"idle", "next", "sending", "stored"},
                   batch: SUBSET Recordings, cur: Recordings \cup {NoOne},
                   seen: [Recordings -> Rows], dirty: SUBSET Recordings,
                   content: Content]
        /\ UpCurrent
    BY CalmTypes DEF UpTypeOK
  <1>1. CASE row[r].remote = "uploaded"
    <2>1. r \notin up.dirty
      BY <1>1 DEF CalmState, WorkerInv, HandQueued, Hand
    <2> QED
      BY <1>1, <2>1, CalmTypes, UploadRows DEF Secured
  <1>2. CASE r \in up.dirty /\ up.seen[r].remote = "uploaded"
    <2>1. /\ r \notin up.batch /\ up.stage # "idle"
          /\ up.stage = "sending" => r # up.cur
      BY <1>2 DEF CalmState, WorkerInv
    <2>2. CanFlush
      BY <1>0 DEF CalmState, WorkerInv, Hand, CanFlush
    <2>3. CASE UpCommit
      <3>1. row'[r] = [row[r] EXCEPT !.remote = up.seen[r].remote,
                                     !.attempts = up.seen[r].attempts]
        BY <1>2, <2>3 DEF UpCommit
      <3>2. row'[r].remote = "uploaded"
        BY <1>2, <3>1, CalmTypes DEF Rows
      <3> QED
        BY <3>2 DEF Secured
    <2>4. ~UpRollback /\ ~UpSelect
      BY <2>1, <2>2 DEF UpRollback, UpSelect
    <2>5. ASSUME NEW s \in Recordings, UpGiveUp(s) PROVE Secured(r)'
      <3>1. s # r
        BY <2>1, <2>5 DEF UpGiveUp, UpTake, Oldest
      <3> QED
        BY <1>0, <1>2, <2>5, <3>1 DEF UpGiveUp, Secured
    <2>6. ASSUME NEW s \in Recordings, UpOpen(s) PROVE Secured(r)'
      BY <1>0, <1>2, <2>6 DEF UpOpen, Secured
    <2>7. CASE UpSent \/ UpSendFails
      <3>1. up.stage = "sending" /\ up.cur \in Recordings /\ up.cur # r
        BY <1>0, <2>1, <2>7 DEF UpSent, UpSendFails, UpCurrent
      <3>2. /\ up'.dirty = up.dirty \cup {up.cur}
            /\ \E x : up'.seen = [up.seen EXCEPT ![up.cur] = x]
        BY <1>0, <2>7 DEF UpSent, UpSendFails
      <3> QED
        BY <1>0, <1>2, <3>1, <3>2 DEF Secured
    <2>8. CASE UpDropLocal \/ UpKeepLocal
      BY <1>0, <1>2, <2>8 DEF UpDropLocal, UpKeepLocal, Secured
    <2> QED
      BY <2>3, <2>4, <2>5, <2>6, <2>7, <2>8 DEF UpNext
  <1> QED
    BY <1>1, <1>2 DEF Secured

(* What becomes secured has just been sent. *)
LEMMA SecuredOnlySent ==
  ASSUME IInv, CalmState, UpNext, NEW r \in Recordings, Secured(r)'
  PROVE  \/ Secured(r) /\ \A p \in Profiles : object'[p][r] = object[p][r]
         \/ /\ up.stage = "sending" /\ up.cur = r
            /\ object'[up.seen[r].profile][r] = up.content
  <1>1. CASE row'[r].remote = "uploaded"
    <2>1. CASE row[r].remote = "uploaded"
      <3>1. ~Hand(r)
        BY <2>1 DEF CalmState, WorkerInv, HandQueued
      <3> QED
        BY <2>1, <3>1, CalmTypes, UploadObjects DEF Secured, Hand
    <2>2. CASE UpCommit /\ r \in up.dirty /\ row'[r].remote = up.seen[r].remote
      BY <1>1, <2>2 DEF UpCommit, Secured
    <2> QED
      BY <1>1, <2>1, <2>2, CalmTypes, UploadRows
  <1>2. CASE r \in up'.dirty /\ up'.seen[r].remote = "uploaded"
    BY <1>2, CalmTypes, UploadDirty DEF Secured
  <1> QED
    BY <1>1, <1>2 DEF Secured

(* The only file the worker removes is that of the recording it has stored. *)
LEMMA UploadFiles ==
  ASSUME IInv, UpNext, NEW r \in Recordings
  PROVE  \/ disk'[r]["original"] = disk[r]["original"]
         \/ up.stage = "stored" /\ up.cur = r /\ disk'[r]["original"] = "absent"
  <1>1. CASE UpDropLocal
    <2>1. /\ up.cur \in Recordings /\ up.seen[up.cur] \in Rows
          /\ up.stage = "stored"
          /\ disk' = [disk EXCEPT ![up.cur][up.seen[up.cur].path] = "absent"]
      BY <1>1, CalmTypes DEF UpDropLocal, UpCurrent, UpTypeOK
    <2>2. up.seen[up.cur].path \in Paths /\ disk \in [Recordings -> [Paths -> Content]]
      BY <2>1, CalmTypes, RowFields DEF StoreTypeOK
    <2> QED
      BY <2>1, <2>2 DEF Paths
  <1>2. CASE disk' = disk
    BY <1>2
  <1> QED
    BY <1>1, <1>2 DEF UpNext, UpSelect, UpGiveUp, UpOpen, UpSent, UpSendFails,
       UpKeepLocal, UpCommit, UpRollback, storeVars

(* The worker removes the file only of what is secured. *)
LEMMA UploadKeepsCalm ==
  ASSUME IInv, CalmState, UploadStep
  PROVE  CalmState'
  <1>0. /\ UpNext /\ UNCHANGED <<task, blurStatus, unsaid>>
        /\ UNCHANGED <<saved, finalizing>>
    <2>1. UpNext
      BY DEF UploadStep
    <2> QED
      BY <2>1 DEF UploadStep, blurVars, UpNext, UpSelect, UpGiveUp, UpOpen, UpTake,
         UpSent, UpSendFails, UpDropLocal, UpKeepLocal, UpCommit, UpRollback, storeVars
  <1>1. WorkerInv'
    BY <1>0, UploadKeepsWorkerInv DEF CalmState, OriginalInv
  <1>2. \A r \in Recordings :
          /\ row'[r].profile = row[r].profile /\ row'[r].path = row[r].path
          /\ row'[r].live = row[r].live
          /\ row[r].remote = "null" => row'[r].remote = "null"
    BY <1>0, CalmTypes, UploadRows DEF CalmState, WorkerInv, HandQueued, Hand
  <1>3. \A r \in finalizing' : row'[r].remote = "null"
    <2>1. finalizing \subseteq Recordings
      BY CalmTypes, StoreAssumption DEF StoreTypeOK, Recordings
    <2> QED
      BY <1>0, <1>2, <2>1 DEF CalmState
  <1>4. ASSUME NEW r \in Recordings PROVE OriginalInv(r)'
    <2>1. OriginalInv(r)
      BY DEF CalmState
    <2>2. disk'[r]["original"] \in {"absent", "raw"}
      BY <1>0, <2>1, UploadFiles DEF OriginalInv
    <2>3. ASSUME row[r].path = "original", r <= saved, task[r].stage # "swapped",
                 unsaid[r] # "path"
          PROVE  disk'[r]["original"] = "raw" \/ Secured(r)'
      <3>1. CASE up.stage = "stored" /\ up.cur = r
        <4>1. Secured(r)
          BY <3>1 DEF CalmState, WorkerInv, Secured
        <4> QED
          BY <1>0, <4>1, SecuredStays
      <3>2. CASE disk'[r]["original"] = disk[r]["original"]
        BY <1>0, <2>1, <2>3, <3>2, SecuredStays DEF OriginalInv
      <3> QED
        BY <1>0, <3>1, <3>2, UploadFiles
    <2>4. ASSUME row[r].path = "original", Secured(r)'
          PROVE  /\ row[r].profile \in Profiles
                 /\ object'[row[r].profile][r] \in Footage
      <3>1. CASE Secured(r) /\ \A p \in Profiles : object'[p][r] = object[p][r]
        BY <2>1, <2>4, <3>1 DEF OriginalInv
      <3>2. CASE /\ up.stage = "sending" /\ up.cur = r
                 /\ object'[up.seen[r].profile][r] = up.content
        <4>1. up.seen[r].path \in Paths
          BY CalmTypes, RowFields DEF UpTypeOK
        <4>2. up.seen[r].path = "original"
          BY <2>4, <3>2, <4>1 DEF CalmState, WorkerInv, Hand, Paths
        <4>3. up.content = "raw"
          BY <3>2, <4>2 DEF CalmState, WorkerInv
        <4>4. /\ up.seen[r].profile = row[r].profile
              /\ up.seen[r].profile \in Profiles
          BY <3>2, CalmTypes DEF CalmState, WorkerInv, Hand, UpCurrent
        <4> QED
          BY <3>2, <4>3, <4>4 DEF Footage
      <3> QED
        BY <1>0, <2>4, <3>1, <3>2, SecuredOnlySent
    <2> QED
      BY <1>0, <1>2, <2>1, <2>2, <2>3, <2>4 DEF OriginalInv
  <1> QED
    BY <1>0, <1>1, <1>2, <1>3, <1>4 DEF CalmState

(* What a step of the task of r does to r: the swap moves the file, the    *)
(* last step the row, unless it is refused, the others neither.            *)
TaskMoves(r) ==
  \/ /\ task[r].stage # "swapped" /\ task'[r].stage # "swapped"
     /\ row'[r] = row[r] /\ disk'[r] = disk[r]
     /\ blurStatus'[r] = "failed" => blurStatus[r] = "failed" \/ task'[r].stage = "none"
     /\ \/ unsaid'[r] = unsaid[r]
        \/ unsaid'[r] = "status" /\ task'[r].stage = "none"
  \/ /\ task[r].stage # "swapped" /\ task'[r].stage = "swapped"
     /\ row'[r] = row[r] /\ UNCHANGED <<blurStatus, unsaid>>
     /\ disk'[r]["original"] \in {"absent", disk[r]["original"]}
  \/ /\ task[r].stage = "swapped" /\ task'[r].stage = "none"
     /\ disk'[r] = disk[r] /\ unsaid' = unsaid
     /\ row'[r].path = IF row[r].live THEN "blurred" ELSE row[r].path
     /\ blurStatus'[r] = "failed" => blurStatus[r] = "failed"
  \/ /\ task[r].stage = "swapped" /\ task'[r].stage = "none"
     /\ disk'[r] = disk[r] /\ row'[r] = row[r] /\ blurStatus' = blurStatus
     /\ unsaid'[r] = "path"

LEMMA TaskEffect ==
  ASSUME IInv, NEW r \in Recordings, BlurStep(r)
  PROVE  /\ UNCHANGED <<object, profile, finalizing>>
         /\ row'[r].live = row[r].live /\ row'[r].remote = row[r].remote
         /\ row'[r].profile = row[r].profile /\ task[r].stage # "none"
         /\ TaskMoves(r)
  <1>0. /\ row \in [Recordings -> Rows]
        /\ task \in [Recordings -> [stage: BlurStages, tmp: Content]]
        /\ blurStatus \in [Recordings ->
             {"pending", "processing", "done", "failed", "skipped"}]
        /\ unsaid \in [Recordings -> {"none", "status", "path"}]
        /\ disk \in [Recordings -> [Paths -> Content]]
    BY DEF IInv, TypeOK, StoreTypeOK
  <1>1. ASSUME NEW from, NEW to, Goto(r, from, to), UNCHANGED storeVars,
               from \notin {"none", "swapped"}, to # "swapped",
               \/ UNCHANGED <<blurStatus, unsaid>>
               \/ SetStatus(r, "processing") \/ SetStatus(r, "skipped")
               \/ SetStatus(r, "failed") /\ to = "none"
               \/ /\ to = "none" /\ unsaid' = [unsaid EXCEPT ![r] = "status"]
                  /\ UNCHANGED blurStatus
        PROVE  /\ UNCHANGED <<object, profile, finalizing>>
               /\ row' = row /\ task[r].stage # "none"
               /\ TaskMoves(r)
    <2>1. task[r].stage = from /\ task'[r].stage = to
      BY <1>0, <1>1 DEF Goto
    <2>2. blurStatus'[r] = "failed" => blurStatus[r] = "failed" \/ to = "none"
      BY <1>0, <1>1 DEF SetStatus
    <2>3. \/ unsaid'[r] = unsaid[r]
          \/ unsaid'[r] = "status" /\ to = "none"
      BY <1>0, <1>1 DEF SetStatus
    <2> QED
      BY <1>1, <2>1, <2>2, <2>3 DEF storeVars, TaskMoves
  <1>2. CASE BlurNothing(r) \/ BlurStart(r) \/ BlurProcessing(r)
    BY <1>1, <1>2 DEF BlurNothing, BlurStart, BlurProcessing
  <1>3. CASE BlurSkipped(r) \/ BlurFailed(r)
    BY <1>1, <1>3 DEF BlurSkipped, BlurFailed
  <1>4. CASE BlurScan(r)
    <2>1. PICK to \in {"failing", "writing", "skipping"} : Goto(r, "reading", to)
      BY <1>4 DEF BlurScan, Scanned
    <2> QED
      BY <1>1, <1>4, <2>1 DEF BlurScan
  <1>5. CASE Refused(r)
    <2>1. CASE Goto(r, "found", "reading") /\ UNCHANGED unsaid
      BY <1>1, <1>5, <2>1 DEF Refused
    <2>2. ASSUME NEW st \in {"scheduled", "skipping", "failing"}, Goto(r, st, "none"),
                 unsaid' = [unsaid EXCEPT ![r] = "status"]
          PROVE  /\ UNCHANGED <<object, profile, finalizing>>
                 /\ row' = row /\ task[r].stage # "none" /\ TaskMoves(r)
      BY <1>1, <1>5, <2>2 DEF Refused
    <2>3. CASE Goto(r, "swapped", "none") /\ unsaid' = [unsaid EXCEPT ![r] = "path"]
      <3>1. /\ task[r].stage = "swapped" /\ task'[r].stage = "none"
            /\ unsaid'[r] = "path"
        BY <1>0, <2>3 DEF Goto
      <3> QED
        BY <1>5, <3>1 DEF Refused, storeVars, TaskMoves
    <2>4. \/ Goto(r, "found", "reading") /\ UNCHANGED unsaid
          \/ Goto(r, "swapped", "none") /\ unsaid' = [unsaid EXCEPT ![r] = "path"]
          \/ \E st \in {"scheduled", "skipping", "failing"} :
               Goto(r, st, "none") /\ unsaid' = [unsaid EXCEPT ![r] = "status"]
      BY <1>5 DEF Refused, LastStages
    <2> QED
      BY <2>1, <2>2, <2>3, <2>4
  <1>6. CASE BlurWrite(r) \/ EncoderDies(r) \/ BlurFails(r)
    <2>1. /\ UNCHANGED <<storeVars, blurStatus, unsaid>>
          /\ task[r].stage \notin {"none", "swapped"}
          /\ task'[r].stage # "swapped"
      BY <1>0, <1>6 DEF BlurWrite, EncoderDies, BlurFails
    <2> QED
      BY <2>1 DEF storeVars, TaskMoves
  <1>7. CASE BlurSwap(r)
    BY <1>0, <1>7 DEF BlurSwap, TaskMoves
  <1>8. CASE BlurDone(r)
    <2>1. /\ task[r].stage = "swapped" /\ task'[r].stage = "none"
          /\ disk' = disk /\ UNCHANGED <<object, profile, finalizing, unsaid>>
          /\ row' = [row EXCEPT ![r].path = IF row[r].live THEN "blurred" ELSE @]
      BY <1>0, <1>8 DEF BlurDone, Goto, SetStatus
    <2>2. /\ row'[r].live = row[r].live /\ row'[r].remote = row[r].remote
          /\ row'[r].profile = row[r].profile
          /\ row'[r].path = IF row[r].live THEN "blurred" ELSE row[r].path
      BY <1>0, <2>1 DEF Rows
    <2>3. blurStatus'[r] = "failed" => blurStatus[r] = "failed"
      BY <1>0, <1>8 DEF BlurDone, SetStatus
    <2> QED
      BY <2>1, <2>2, <2>3 DEF TaskMoves
  <1> QED
    BY <1>2, <1>3, <1>4, <1>5, <1>6, <1>7, <1>8 DEF BlurStep

(* A task that fails, fails before the swap. *)
LEMMA TaskKeepsCalm ==
  ASSUME IInv, CalmState, NEW r \in Recordings, BlurStep(r)
  PROVE  CalmState'
  <1>1. /\ UNCHANGED <<saved, up, object, finalizing>>
        /\ \A s \in Recordings \ {r} :
             /\ row'[s] = row[s] /\ disk'[s] = disk[s] /\ unsaid'[s] = unsaid[s]
             /\ task'[s] = task[s] /\ blurStatus'[s] = blurStatus[s]
    BY TaskTypes, TaskEffect DEF IInv
  <1>2. \A s \in Recordings :
          /\ row'[s].live = row[s].live /\ row'[s].remote = row[s].remote
          /\ row'[s].profile = row[s].profile
          /\ row[s].path = "blurred" => row'[s].path = "blurred"
    BY <1>1, TaskEffect DEF TaskMoves
  <1>3. WorkerInv'
    BY <1>1, <1>2 DEF CalmState, WorkerInv, HandQueued, Hand
  <1>4. \A s \in finalizing' : row'[s].remote = "null"
    <2>1. finalizing \subseteq Recordings
      BY CalmTypes, StoreAssumption DEF StoreTypeOK, Recordings
    <2> QED
      BY <1>1, <1>2, <2>1 DEF CalmState
  <1>5. ASSUME NEW s \in Recordings \ {r} PROVE OriginalInv(s)'
    BY <1>1, <1>5 DEF CalmState, OriginalInv, Secured
  <1>6. OriginalInv(r)'
    <2>1. OriginalInv(r) /\ r <= saved => row[r].live
      BY DEF CalmState
    <2>2. Secured(r)' <=> Secured(r)
      BY <1>1, <1>2 DEF Secured
    <2>3. /\ row[r].path = "original" /\ unsaid[r] = "none"
          /\ task[r].stage # "none" /\ blurStatus[r] # "failed"
      BY <2>1, TaskEffect DEF CalmState, OriginalInv
    <2> QED
      BY <1>1, <1>2, <2>1, <2>2, <2>3, TaskEffect
         DEF CalmState, OriginalInv, TaskMoves
  <1> QED
    BY <1>1, <1>2, <1>3, <1>4, <1>5, <1>6 DEF CalmState

LEMMA InitCalmInv == Init => CalmInv
  <1> SUFFICES ASSUME Init PROVE CalmInv
    OBVIOUS
  <1> USE StoreAssumption DEF Init, StoreInit, UpIdle
  <1>1. WorkerInv
    BY DEF WorkerInv, HandQueued, Hand
  <1>2. ASSUME NEW r \in Recordings PROVE OriginalInv(r)
    <2>1. /\ disk[r]["original"] = "absent" /\ r > saved
          /\ task[r].stage = "none" /\ blurStatus[r] = "pending"
          /\ row[r].remote = "null" /\ up.dirty = {}
      BY DEF NoTask, NoRow, NewRow, Paths, Recordings
    <2> QED
      BY <2>1 DEF OriginalInv, Secured, Recordings
  <1> QED
    BY <1>1, <1>2 DEF CalmInv, CalmState, Recordings

(* Every step keeps the invariant; one that deletes or crashes ends the    *)
(* calm.                                                                   *)
LEMMA NextCalmInv == IInv /\ CalmInv /\ [Next]_vars => CalmInv'
  <1> SUFFICES ASSUME IInv, CalmInv, [Next]_vars PROVE CalmInv'
    OBVIOUS
  <1>1. /\ profile' = profile /\ deleting' \subseteq condemned'
        /\ condemned \subseteq condemned'
        /\ crashes' = 0 => crashes = 0
    <2>1. CASE SaveAndSchedule
      BY <2>1 DEF SaveAndSchedule, SaveRecording, CalmInv
    <2>2. CASE FinalizeOrDelete
      BY <2>2 DEF FinalizeOrDelete, QueueForProfile, LeaveLocal, DeleteFile,
                  DeleteRow, CalmInv
    <2>3. CASE UploadStep
      <3>1. UNCHANGED <<profile, deleting, condemned, crashes>>
        BY <2>3 DEF UploadStep, UpNext, UpSelect, UpGiveUp, UpOpen, UpSent,
           UpSendFails, UpDropLocal, UpKeepLocal, UpCommit, UpRollback, storeVars
      <3> QED
        BY <3>1 DEF CalmInv
    <2>4. ASSUME NEW r \in Recordings, BlurStep(r)
          PROVE  UNCHANGED <<profile, deleting, condemned, crashes>>
      BY <2>4, TaskTypes, TaskEffect DEF IInv
    <2>5. CASE Crash
      <3>1. crashes' # 0
        BY <2>5, BlurAssumption DEF Crash, IInv, TypeOK
      <3> QED
        BY <2>5, <3>1 DEF Crash, CalmInv
    <2>6. CASE UNCHANGED vars
      BY <2>6 DEF vars, storeVars, CalmInv
    <2> QED
      BY <2>1, <2>2, <2>3, <2>4, <2>5, <2>6 DEF Next, CalmInv
  <1>2. ASSUME Calm' PROVE CalmState'
    <2>1. Calm /\ CalmState /\ condemned' = {} /\ crashes' = 0
      BY <1>1, <1>2 DEF Calm, CalmInv
    <2>2. CASE SaveAndSchedule
      BY <2>1, <2>2, SaveKeepsCalm
    <2>3. CASE FinalizeOrDelete
      BY <2>1, <2>3, FinalizeKeepsCalm DEF CalmInv
    <2>4. CASE UploadStep
      BY <2>1, <2>4, UploadKeepsCalm
    <2>5. ASSUME NEW r \in Recordings, BlurStep(r) PROVE CalmState'
      BY <2>1, <2>5, TaskKeepsCalm
    <2>6. ~Crash
      BY <2>1, BlurAssumption DEF Crash, IInv, TypeOK
    <2>7. CASE UNCHANGED vars
      BY <2>1, <2>7 DEF vars, storeVars, blurVars, CalmState, WorkerInv, HandQueued,
                        Hand, OriginalInv, Secured
    <2> QED
      BY <2>2, <2>3, <2>4, <2>5, <2>6, <2>7 DEF Next
  <1> QED
    BY <1>1, <1>2 DEF CalmInv

(* A failed pass leaves the recording playable, as long as nobody deletes  *)
(* footage and the process does not die: its original is there, or the     *)
(* worker, which removed it, had it stored and has said so.                *)
THEOREM FailureLeavesItPlayable == Spec => []FailedStaysUsable
  <1>1. IInv /\ CalmInv => FailedStaysUsable
    <2> SUFFICES ASSUME IInv, CalmInv, Calm, NEW r \in Recordings, row[r].live,
                        blurStatus[r] = "failed", up.stage = "idle"
                 PROVE  Playable(r)
      BY DEF FailedStaysUsable, Calm
    <2>1. r <= saved /\ OriginalInv(r) /\ up.dirty = {}
      BY CalmTypes DEF CalmInv, CalmState, WorkerInv
    <2>2. row[r].path = "original" /\ task[r].stage = "none"
      BY <2>1 DEF OriginalInv
    <2>3. CASE disk[r]["original"] = "raw"
      BY <2>2, <2>3 DEF Playable, FileOf, Footage
    <2>4. CASE disk[r]["original"] = "absent" /\ Secured(r)
      <3>1. /\ row[r].remote = "uploaded" /\ row[r].profile \in Profiles
            /\ object[row[r].profile][r] \in Footage
        BY <2>1, <2>2, <2>4 DEF OriginalInv, Secured
      <3>2. Readable(row[r].profile)
        BY <3>1, StoreAssumption DEF Readable, CalmInv
      <3> QED
        BY <2>2, <2>4, <3>1, <3>2 DEF Playable, FileOf
    <2> QED
      BY <2>1, <2>2, <2>3, <2>4 DEF OriginalInv
  <1> QED
    BY <1>1, InitCalmInv, NextCalmInv, IInvHolds, PTL DEF Spec

-----------------------------------------------------------------------------
(* The pass implements the vault                                           *)

(* What of the recorded footage nobody condemned can be watched.           *)
Watchable == {r \in 1..saved : HasCopy(r)} \ condemned

Vault == INSTANCE FootageVault WITH
           Recording <- Recordings, kept <- Watchable, listed <- Live

(* Only recorded segments are condemned. *)
CondemnedInv == condemned \subseteq 1..saved

VaultInv == IInv /\ KInv /\ CondemnedInv

(* What a step does to the list, the numbers and the decisions.            *)
VaultMoves ==
  \/ saved' = saved + 1 /\ condemned' = condemned /\ Live' = Live \cup {saved'}
  \/ \E r \in Live : /\ saved' = saved /\ Live' = Live
                     /\ condemned' = condemned \cup {r}
  \/ \E r \in condemned : /\ saved' = saved /\ condemned' = condemned
                          /\ Live' = Live \ {r}
  \/ saved' = saved /\ condemned' = condemned /\ Live' = Live

(* It records, condemns or delists one recording, or does none of these.   *)
LEMMA StepMoves ==
  ASSUME IInv, KInv, [Next]_vars
  PROVE  VaultMoves
  <1>0. /\ row \in [Recordings -> Rows] /\ saved \in Nat
        /\ deleting \subseteq condemned /\ deleting \subseteq Recordings
    BY CalmTypes DEF StoreTypeOK, KInv
  <1>1. CASE SaveAndSchedule
    <2>1. /\ saved' = saved + 1 /\ condemned' = condemned
          /\ saved + 1 \in Recordings /\ row' = [row EXCEPT ![saved + 1] = NewRow]
      BY <1>0, <1>1, StoreAssumption DEF SaveAndSchedule, SaveRecording, Recordings
    <2>2. Live' = Live \cup {saved'}
      BY <1>0, <2>1 DEF Live, NewRow
    <2> QED
      BY <2>1, <2>2 DEF VaultMoves
  <1>2. CASE FinalizeOrDelete
    <2>1. ASSUME NEW r \in Recordings, QueueForProfile(r) PROVE VaultMoves
      <3>1. Live' = Live
        BY <1>0, <2>1 DEF QueueForProfile, Live, Rows
      <3> QED
        BY <2>1, <3>1 DEF QueueForProfile, VaultMoves
    <2>2. ASSUME NEW r \in Recordings, LeaveLocal(r) PROVE VaultMoves
      BY <2>2 DEF LeaveLocal, Live, VaultMoves
    <2>3. ASSUME NEW r \in Recordings, DeleteFile(r) PROVE VaultMoves
      BY <2>3 DEF DeleteFile, Live, VaultMoves
    <2>4. ASSUME NEW r \in Recordings, DeleteRow(r) PROVE VaultMoves
      <3>1. Live' = Live \ {r}
        BY <1>0, <2>4 DEF DeleteRow, Live, Rows
      <3> QED
        BY <1>0, <2>4, <3>1 DEF DeleteRow, VaultMoves
    <2> QED
      BY <1>2, <2>1, <2>2, <2>3, <2>4 DEF FinalizeOrDelete
  <1>3. CASE UploadStep
    <2>1. \A r \in Recordings : row'[r].live = row[r].live
      BY <1>3, CalmTypes, UploadRows DEF UploadStep
    <2>2. saved' = saved /\ condemned' = condemned
      BY <1>3 DEF UploadStep, UpNext, UpSelect, UpGiveUp, UpOpen, UpSent, UpSendFails,
         UpDropLocal, UpKeepLocal, UpCommit, UpRollback, storeVars
    <2> QED
      BY <2>1, <2>2 DEF Live, VaultMoves
  <1>4. ASSUME NEW r \in Recordings, BlurStep(r) PROVE VaultMoves
    <2>1. \A s \in Recordings : row'[s].live = row[s].live
      BY <1>4, TaskTypes, TaskEffect DEF IInv
    <2>2. saved' = saved /\ condemned' = condemned
      BY <1>4, TaskTypes DEF IInv
    <2> QED
      BY <2>1, <2>2 DEF Live, VaultMoves
  <1>5. CASE Crash \/ UNCHANGED vars
    BY <1>5 DEF Crash, vars, storeVars, Live, VaultMoves
  <1> QED
    BY <1>1, <1>2, <1>3, <1>4, <1>5 DEF Next

(* Every step is one of the vault's or stutters there. *)
LEMMA VaultStep ==
  ASSUME VaultInv, IInv', KInv', spoilt = {}, spoilt' = {}, [Next]_vars
  PROVE  CondemnedInv' /\ [Vault!Next]_(Vault!vars)
  <1>0. /\ saved \in Nat /\ saved' \in Nat /\ Live \subseteq 1..saved
        /\ 1..saved' \subseteq Recordings /\ condemned \subseteq Recordings
    <2>1. IInv /\ saved' \in 0..NumRecordings
      BY DEF VaultInv, IInv, TypeOK, StoreTypeOK
    <2>2. Live \subseteq Recordings /\ \A r \in Live : r <= saved
      BY <2>1, CalmTypes DEF Live
    <2>3. saved \in Nat /\ condemned \subseteq Recordings
      BY <2>1, CalmTypes DEF StoreTypeOK
    <2>4. saved' \in Nat /\ 1..saved' \subseteq Recordings
      BY <2>1, StoreAssumption DEF Recordings
    <2>5. Live \subseteq 1..saved
      BY <2>2, <2>3 DEF Recordings
    <2> QED
      BY <2>3, <2>4, <2>5
  <1>1. Watchable = (1..saved) \ condemned
    <2> SUFFICES ASSUME NEW r \in 1..saved, r \notin condemned PROVE HasCopy(r)
      BY DEF Watchable
    <2>1. r \in Recordings /\ r <= saved
      BY <1>0, CalmTypes, StoreAssumption DEF VaultInv, StoreTypeOK, Recordings
    <2> QED
      BY <2>1 DEF VaultInv, KInv, Kept, HasCopy, Footage, Paths
  <1>2. Watchable' = (1..saved') \ condemned'
    <2> SUFFICES ASSUME NEW r \in 1..saved', r \notin condemned' PROVE HasCopy(r)'
      BY DEF Watchable
    <2>1. r \in Recordings /\ r <= saved'
      BY <1>0
    <2> QED
      BY <2>1 DEF KInv, Kept, HasCopy, Footage, Paths
  <1>3. condemned \subseteq 1..saved
    BY DEF VaultInv, CondemnedInv
  <1> HIDE DEF Watchable
  <1>4. CASE /\ saved' = saved + 1 /\ condemned' = condemned
             /\ Live' = Live \cup {saved'}
    <2>1. /\ saved' \in Recordings /\ saved' \notin Watchable \cup Live \cup condemned
          /\ Watchable' = Watchable \cup {saved'}
      BY <1>0, <1>1, <1>2, <1>3, <1>4
    <2>2. Vault!Record(saved')
      BY <1>4, <2>1 DEF Vault!Record
    <2>3. PICK r \in Recordings : r = saved'
      BY <2>1
    <2>4. Vault!Next
      BY <2>2, <2>3 DEF Vault!Next
    <2>5. condemned' \subseteq 1..saved'
      BY <1>0, <1>3, <1>4
    <2> QED
      BY <2>4, <2>5 DEF CondemnedInv
  <1>5. ASSUME NEW r \in Live, saved' = saved, Live' = Live,
               condemned' = condemned \cup {r}
        PROVE  CondemnedInv' /\ Vault!Next
    <2>1. /\ r \in Recordings /\ r \in Watchable \cup condemned
          /\ Watchable' = Watchable \ {r}
      BY <1>0, <1>1, <1>2, <1>5 DEF Live
    <2>2. Vault!Condemn(r)
      BY <1>5, <2>1 DEF Vault!Condemn
    <2> QED
      BY <1>0, <1>3, <1>5, <2>1, <2>2 DEF Vault!Next, CondemnedInv
  <1>6. ASSUME NEW r \in condemned, saved' = saved, condemned' = condemned,
               Live' = Live \ {r}
        PROVE  CondemnedInv' /\ Vault!Next
    <2>1. Watchable' = Watchable /\ {r} \in SUBSET Recordings
      BY <1>0, <1>1, <1>2, <1>6
    <2>2. Vault!Delist({r})
      BY <1>6, <2>1 DEF Vault!Delist
    <2> QED
      BY <1>3, <1>6, <2>1, <2>2 DEF Vault!Next, CondemnedInv
  <1>7. CASE saved' = saved /\ condemned' = condemned /\ Live' = Live
    BY <1>1, <1>2, <1>3, <1>7 DEF Vault!vars, CondemnedInv
  <1>8. VaultMoves
    BY StepMoves DEF VaultInv
  <1> QED
    BY <1>4, <1>5, <1>6, <1>7, <1>8 DEF VaultMoves

(* Where no profile drops the local file and there is no archive, the      *)
(* recordings with their blur passes keep the promise of the vault as long *)
(* as no encoder dies over a copy that is then put in place: through       *)
(* failed passes, refused updates, swaps and crashes, footage is lost only *)
(* by being condemned, and only condemned recordings leave the list.       *)
THEOREM PassImplementsVault ==
  CameraProfile \notin DropLocal /\ NoArchiveSpec /\ [](spoilt = {}) => Vault!Spec
  <1> SUFFICES ASSUME CameraProfile \notin DropLocal
               PROVE  NoArchiveSpec /\ [](spoilt = {}) => Vault!Spec
    OBVIOUS
  <1>1. NoArchiveInit => CondemnedInv /\ Vault!Init
    BY StoreAssumption
       DEF NoArchiveInit, Init, StoreInit, CondemnedInv, Vault!Init, Watchable,
           Live, NoRow, NewRow
  <1>2. /\ IInv /\ KInv /\ (IInv /\ KInv)' /\ spoilt = {} /\ (spoilt = {})'
        /\ CondemnedInv /\ [Next]_vars
        => CondemnedInv' /\ [Vault!Next]_(Vault!vars)
    BY VaultStep DEF VaultInv
  <1>3. NoArchiveSpec => [](IInv /\ KInv)
    BY NoArchiveInvariants
  <1> QED
    BY <1>1, <1>2, <1>3, PTL DEF NoArchiveSpec, Vault!Spec
=============================================================================
