----------------------- MODULE RecordingArchiveProofs -----------------------
(***************************************************************************)
(* Theorems about RecordingArchive for any number of recordings, profiles, *)
(* batches, attempts, admin changes and crashes: type correctness, that no *)
(* step ever destroys the last copy of footage nobody condemned, that the  *)
(* system implements FootageVault, and where objects are: an expired       *)
(* recording leaves none behind (OrphanInv), an uploaded one has its own   *)
(* (MoveInv), and the archive target keeps what it owns (OwnerInv).        *)
(***************************************************************************)
EXTENDS RecordingArchive, RemoteUploadProofs

(* Only recorded segments have rows, are condemned or being deleted; a     *)
(* recording that nobody condemned has its row; what lies on the local     *)
(* disk is footage or absent (the blur pass is not part of this system).   *)
StoreInv ==
  /\ Live \subseteq 1..saved
  /\ condemned \subseteq 1..saved
  /\ deleting \subseteq condemned
  /\ (1..saved) \ condemned \subseteq Live
  /\ \A r \in Recordings : \A f \in Paths :
       disk[r][f] \in {"absent"} \cup Footage

(* What the upload worker knows of the recording it transfers: until the   *)
(* transfer is done its local file is there, afterwards the object is.     *)
(* This is what lets it remove the file before it commits.                 *)
UpInv ==
  /\ up.batch \cup up.dirty \subseteq 1..saved
  /\ up.stage \in {"sending", "stored"}
       => /\ up.cur \in 1..saved
          /\ up.seen[up.cur].profile \in Profiles
          /\ up.content \in Footage
  /\ up.stage = "sending" /\ up.cur \notin condemned
       => FileOf(up.cur, up.seen[up.cur]) \in Footage
  /\ up.stage = "stored" /\ up.cur \notin condemned
       => object[up.seen[up.cur].profile][up.cur] \in Footage

(* A retention pass only works on recorded segments and drops only         *)
(* condemned ones.                                                         *)
RetInv ==
  /\ ret.todo \subseteq 1..saved
  /\ ret.dropped \subseteq condemned

(* No file or object exists of a segment that was not recorded yet.        *)
NothingAhead == \A r \in Recordings : r > saved => ~HasCopy(r)

(* The inductive invariant.  CopySurvives alone is not inductive: it says  *)
(* nothing of what the workers, which act on their own copies of the rows, *)
(* are about to remove.                                                    *)
IInv == TypeOK /\ StoreInv /\ UpInv /\ RetInv /\ NothingAhead /\ CopySurvives

(* The initial states are well typed.                                      *)
LEMMA InitTypes == Init => TypeOK
  <1> SUFFICES ASSUME Init PROVE TypeOK
    OBVIOUS
  <1>1. row \in [Recordings -> Rows]
    BY RowKinds DEF Init, StoreInit
  <1>2. /\ disk \in [Recordings -> [Paths -> Content]]
        /\ object \in [Profiles -> [Recordings -> Content]]
        /\ profile \in [Profiles -> ProfileStates]
    BY DEF Init, StoreInit, Content, ProfileStates
  <1>3. StoreTypeOK
    BY <1>1, <1>2, StoreAssumption DEF Init, StoreInit, StoreTypeOK
  <1>4. UpTypeOK
    BY RowKinds DEF Init, UpIdle, UpTypeOK, Content
  <1>5. RetTypeOK
    BY RowKinds DEF Init, RetIdle, RetTypeOK, RetSteps, Modes
  <1> QED
    BY <1>3, <1>4, <1>5, CrashAssumption DEF TypeOK, Init

(* The types of a pass that moves on, or that loads a phase's rows. *)
RetRecords == [step: RetSteps, mode: Modes,
               archive: Profiles \cup {NoProfile},
               todo: SUBSET Recordings, seen: [Recordings -> Rows],
               marked: SUBSET Recordings, dropped: SUBSET Recordings,
               excess: Int, shelter: SUBSET Recordings]

(* The session a retention phase ends with is well typed.                  *)
LEMMA RetMoveOnType ==
  ASSUME RetTypeOK
  PROVE  RetMoveOn \in RetRecords
  <1>1. NextStep \in RetSteps
    BY DEF NextStep, RetSteps
  <1>2. RetIdle \in RetRecords
    BY RowKinds DEF RetIdle, RetRecords, RetSteps, Modes
  <1>3. (IF NextStep = "idle" THEN NoProfile ELSE ret.archive)
          \in Profiles \cup {NoProfile}
    BY DEF RetTypeOK
  <1> QED
    BY <1>1, <1>2, <1>3 DEF RetMoveOn, RetRecords

(* The session a retention phase starts with is well typed.                *)
LEMMA RetLoadType ==
  ASSUME RetTypeOK, StoreTypeOK, NEW step \in RetSteps,
         NEW S \in SUBSET Recordings, NEW n \in Int, RetLoad(step, S, n)
  PROVE  ret' \in RetRecords
  <1>1. [r \in Recordings |-> IF r \in S THEN row[r] ELSE NoRow]
          \in [Recordings -> Rows]
    BY RowKinds DEF StoreTypeOK
  <1>2. CASE S = {}
    BY <1>2, RetMoveOnType DEF RetLoad
  <1>3. CASE S # {}
    BY <1>1, <1>3 DEF RetLoad, RetTypeOK, RetRecords
  <1> QED
    BY <1>2, <1>3

(* Deleting a remote copy changes at most one object of one recording. *)
LEMMA DeleteRemoteCopyEffect ==
  ASSUME StoreTypeOK, NEW r \in Recordings, NEW rec \in Rows,
         NEW ok \in BOOLEAN, DeleteRemoteCopy(r, rec, ok)
  PROVE  /\ object' \in [Profiles -> [Recordings -> Content]]
         /\ \A p \in Profiles : \A s \in Recordings :
              s # r => object'[p][s] = object[p][s]
         /\ \A p \in Profiles : object'[p][r] \in {object[p][r], "absent"}
  <1> USE DEF StoreTypeOK
  <1>1. CASE UNCHANGED object
    BY <1>1
  <1>2. CASE /\ rec.profile \in Profiles
             /\ object' = [object EXCEPT ![rec.profile][r] = "absent"]
    BY <1>2 DEF Content
  <1>3. rec.profile \in Profiles \cup {NoProfile}
    BY DEF Rows
  <1> QED
    BY <1>1, <1>2, <1>3 DEF DeleteRemoteCopy

(* Removing a file changes no other file.                                  *)
LEMMA RemoveFileEffect ==
  ASSUME StoreTypeOK, NEW r \in Recordings, RemoveFile(r)
  PROVE  /\ disk' \in [Recordings -> [Paths -> Content]]
         /\ \A s \in Recordings : s # r => disk'[s] = disk[s]
         /\ \A f \in Paths : disk'[r][f] \in {disk[r][f], "absent"}
  BY DEF RemoveFile, StoreTypeOK, Content

(* Passing over a recording preserves the types.                           *)
LEMMA SkipTypes ==
  ASSUME RetTypeOK, NEW r \in Recordings, NEW n \in Int, Skip(r, n)
  PROVE  RetTypeOK' /\ UNCHANGED storeVars
  <1>1. ret.excess - n \in Int /\ ret.todo \ {r} \in SUBSET Recordings
    BY DEF RetTypeOK
  <1>2. ret' = [ret EXCEPT !.todo = @ \ {r}, !.excess = @ - n]
    BY DEF Skip
  <1>3. shelter' = shelter /\ UNCHANGED storeVars
    BY DEF Skip
  <1> QED
    BY <1>1, <1>2, <1>3 DEF RetTypeOK

(* Dropping a recording preserves the types.                               *)
LEMMA DropTypes ==
  ASSUME RetTypeOK, StoreTypeOK, NEW r \in Recordings, Drop(r),
         disk' \in [Recordings -> [Paths -> Content]],
         object' \in [Profiles -> [Recordings -> Content]]
  PROVE  StoreTypeOK' /\ RetTypeOK'
  <1>1. StoreTypeOK'
    BY DEF Drop, StoreTypeOK
  <1>2. /\ ret.excess - 1 \in Int
        /\ ret.todo \ {r} \in SUBSET Recordings
        /\ ret.dropped \cup {r} \in SUBSET Recordings
    BY DEF RetTypeOK
  <1>3. RetTypeOK'
    BY <1>2 DEF Drop, RetTypeOK
  <1> QED
    BY <1>1, <1>3

(* The retention pass preserves the types.                                 *)
LEMMA RetentionTypes ==
  ASSUME TypeOK, RetInv, RetStep
  PROVE  StoreTypeOK' /\ RetTypeOK'
  <1> USE StoreAssumption, RetentionAssumption DEF TypeOK
  <1> DEFINE Goal == StoreTypeOK' /\ RetTypeOK'
  <1>0. ASSUME UNCHANGED storeVars PROVE StoreTypeOK'
    BY <1>0 DEF StoreTypeOK, storeVars
  <1>1. CASE RetBegin
    <2>1. RetIdle \in RetRecords
      BY RowKinds DEF RetIdle, RetRecords, RetSteps, Modes
    <2>2. ArchiveTarget \in Profiles \cup {NoProfile}
      BY DEF ArchiveTarget, StoreTypeOK
    <2>3. PICK a \in Profiles \cup {NoProfile}, m \in Modes :
            ret' = [RetIdle EXCEPT !.archive = a, !.mode = m,
                      !.step = IF m = "none" THEN "scanArchive"
                                             ELSE "scanLocal"]
      BY <1>1, <2>2 DEF RetBegin
    <2>4. ret' \in RetRecords
      BY <2>1, <2>3 DEF RetRecords, RetSteps
    <2> QED
      BY <1>0, <1>1, <2>4 DEF RetBegin, RetRecords, RetTypeOK
  <1>2. CASE RetScanLocal
    <2> DEFINE counted == {r \in Live : ret.archive # NoProfile
                                          => row[r].remote # "uploaded"}
    <2>1. IsFiniteSet(counted) /\ Cardinality(counted) \in Nat
      BY RecordingsFinite DEF Live
    <2>2. Cardinality(counted) - LocalBudget \in Int
      BY <2>1
    <2>3. PICK S \in SUBSET Recordings, n \in Int : RetLoad("local", S, n)
      BY <1>2, <2>2 DEF RetScanLocal, Live
    <2>4. ret' \in RetRecords
      BY <2>3, RetLoadType DEF RetSteps
    <2> QED
      BY <1>0, <1>2, <2>4 DEF RetScanLocal, RetRecords, RetTypeOK
  <1>3. ASSUME NEW r \in Recordings, RetLeave(r) PROVE Goal
    <2>1. PICK n \in Int : Skip(r, n)
      BY <1>3 DEF RetLeave
    <2> QED
      BY <1>0, <2>1, SkipTypes
  <1>4. ASSUME NEW r \in Recordings, RetMark(r) PROVE Goal
    <2>1. /\ ret.excess - 1 \in Int
          /\ ret.todo \ {r} \in SUBSET Recordings
          /\ ret.marked \cup {r} \in SUBSET Recordings
      BY DEF RetTypeOK
    <2>2. RetTypeOK'
      BY <1>4, <2>1 DEF RetMark, RetTypeOK
    <2> QED
      BY <1>0, <1>4, <2>2 DEF RetMark
  <1>6. ASSUME NEW r \in Recordings, RetDelete(r) PROVE Goal
    <2>1. ret.seen[r] \in Rows
      BY DEF RetTypeOK
    <2> QED
      BY DropTypes, <1>6, <2>1, DeleteRemoteCopyEffect, RemoveFileEffect
         DEF RetDelete
  <1>7. ASSUME NEW r \in Recordings, RetCannotDelete(r) PROVE Goal
    <2>1. PICK n \in Int : Skip(r, n)
      BY <1>7 DEF RetCannotDelete
    <2> QED
      BY <1>0, <2>1, SkipTypes
  <1>8. CASE RetScanArchive
    <2>1. PICK S \in SUBSET Recordings : RetLoad("archive", S, 0)
      BY <1>8 DEF RetScanArchive, Live
    <2>2. ret' \in RetRecords
      BY <2>1, RetLoadType DEF RetSteps
    <2> QED
      BY <1>0, <1>8, <2>2 DEF RetScanArchive, RetRecords, RetTypeOK
  <1>9. ASSUME NEW r \in Recordings, RetExpire(r) PROVE Goal
    <2>1. ret.seen[r] \in Rows
      BY DEF RetTypeOK
    <2>2. disk' \in [Recordings -> [Paths -> Content]]
      BY <1>9, RemoveFileEffect DEF RetExpire, RemoveFails, StoreTypeOK
    <2>3. object' \in [Profiles -> [Recordings -> Content]]
      BY <1>9, <2>1, DeleteRemoteCopyEffect DEF RetExpire
    <2> QED
      BY DropTypes, <1>9, <2>2, <2>3 DEF RetExpire
  <1>10. ASSUME NEW r \in Recordings, RetExpireLater(r) PROVE Goal
    <2>1. ret.seen[r] \in Rows
      BY DEF RetTypeOK
    <2>2. object' \in [Profiles -> [Recordings -> Content]]
      BY <1>10, <2>1, DeleteRemoteCopyEffect DEF RetExpireLater
    <2> QED
      BY <1>10, <2>2 DEF RetExpireLater, StoreTypeOK, RetTypeOK
  <1>11. CASE RetScanDisk
    <2>1. PICK S \in SUBSET Recordings : RetLoad("disk", S, 0)
      BY <1>11 DEF RetScanDisk, Live
    <2>2. ret' \in RetRecords
      BY <2>1, RetLoadType DEF RetSteps
    <2> QED
      BY <1>0, <1>11, <2>2 DEF RetScanDisk, RetRecords, RetTypeOK
  <1>12. ASSUME NEW r \in Recordings, RetReclaim(r) PROVE Goal
    <2>1. object' \in [Profiles -> [Recordings -> Content]]
      BY <1>12 DEF RetReclaim, StoreTypeOK
    <2> QED
      BY DropTypes, <1>12, <2>1, RemoveFileEffect DEF RetReclaim
  <1>13. ASSUME NEW r \in Recordings, RetSpare(r) PROVE Goal
    <2>1. PICK n \in Int : Skip(r, n)
      BY <1>13 DEF RetSpare
    <2> QED
      BY <1>0, <2>1, SkipTypes
  <1>14. CASE RetEnough
    BY <1>0, <1>14 DEF RetEnough, RetTypeOK
  <1>15. CASE RetCommit
    <2>1. \A r \in Recordings : [row[r] EXCEPT !.live = FALSE] \in Rows
      BY DEF StoreTypeOK, Rows
    <2>2. \A r \in Recordings :
            [row[r] EXCEPT !.remote = "pending", !.profile = ret.archive]
              \in Rows
      BY RowUpdates DEF StoreTypeOK, RetTypeOK, RemoteStates
    <2>3. row' \in [Recordings -> Rows]
      BY <1>15, <2>1, <2>2 DEF RetCommit, StoreTypeOK
    <2> QED
      BY <1>15, <2>3, RetMoveOnType
         DEF RetCommit, StoreTypeOK, RetTypeOK, RetRecords
  <1>16. CASE RetRollback
    BY <1>0, <1>16, RetMoveOnType DEF RetRollback, RetTypeOK, RetRecords
  <1> QED
    BY <1>1, <1>2, <1>3, <1>4, <1>6, <1>7, <1>8, <1>9, <1>10, <1>11, <1>12,
       <1>13, <1>14, <1>15, <1>16 DEF RetStep

-----------------------------------------------------------------------------
(* A step keeps the footage of the recordings nobody condemned when it     *)
(* leaves each of their watchable files and objects watchable, and it adds *)
(* none when whatever is watchable after it was watchable before.          *)
KeepsFootage ==
  \A r \in Recordings :
    r \notin condemned' =>
      /\ \A f \in Paths : disk[r][f] \in Footage => disk'[r][f] \in Footage
      /\ \A p \in Profiles :
           object[p][r] \in Footage => object'[p][r] \in Footage

AddsNoFootage ==
  \A r \in Recordings :
    /\ \A f \in Paths : disk'[r][f] \in {disk[r][f], "absent"}
    /\ \A p \in Profiles : object'[p][r] \in {object[p][r], "absent"}

Quiet == /\ KeepsFootage
         /\ condemned \subseteq condemned'
         /\ condemned' \subseteq 1..saved

(* A step that touches neither files nor objects keeps every copy.         *)
LEMMA QuietKeepsCopies ==
  ASSUME TypeOK, CopySurvives, Quiet, saved' = saved
  PROVE  CopySurvives'
  <1> SUFFICES ASSUME NEW r \in Recordings, r <= saved, r \notin condemned'
               PROVE  HasCopy(r)'
    BY DEF CopySurvives
  <1>1. HasCopy(r)
    BY DEF CopySurvives, Quiet
  <1> QED
    BY <1>1 DEF HasCopy, Quiet, KeepsFootage

(* Nor does it make a copy of a segment that is not recorded yet.          *)
LEMMA QuietKeepsNothingAhead ==
  ASSUME NothingAhead, AddsNoFootage, saved' = saved
  PROVE  NothingAhead'
  BY DEF NothingAhead, AddsNoFootage, HasCopy, Footage

(* Nor does it change what the upload worker relies on.                    *)
LEMMA QuietKeepsUpInv ==
  ASSUME TypeOK, UpInv, KeepsFootage, condemned \subseteq condemned',
         up' = up, saved' \in Nat, saved <= saved'
  PROVE  UpInv'
  <1> USE DEF TypeOK, StoreTypeOK, UpTypeOK, Recordings
  <1>1. 1..saved \subseteq 1..saved'
    OBVIOUS
  <1>2. ASSUME up.stage \in {"sending", "stored"}
        PROVE  /\ up.cur \in 1..saved' /\ up.cur \in Recordings
               /\ up.seen[up.cur].profile \in Profiles
               /\ up.seen[up.cur].path \in Paths
               /\ up.content \in Footage
    <2>1. /\ up.cur \in 1..saved
          /\ up.seen[up.cur].profile \in Profiles
          /\ up.content \in Footage
      BY <1>2 DEF UpInv
    <2>2. up.cur \in Recordings
      BY <2>1, StoreAssumption
    <2>3. up.seen[up.cur] \in Rows
      BY <2>2
    <2>4. up.seen[up.cur].path \in Paths
      BY <2>3 DEF Rows
    <2> QED
      BY <1>1, <2>1, <2>2, <2>4
  <1>3. ASSUME up.stage = "sending", up.cur \notin condemned'
        PROVE  disk'[up.cur][up.seen[up.cur].path] \in Footage
    BY <1>2, <1>3 DEF UpInv, KeepsFootage, FileOf
  <1>4. ASSUME up.stage = "stored", up.cur \notin condemned'
        PROVE  object'[up.seen[up.cur].profile][up.cur] \in Footage
    BY <1>2, <1>4 DEF UpInv, KeepsFootage
  <1> QED
    BY <1>1, <1>2, <1>3, <1>4 DEF UpInv, FileOf

-----------------------------------------------------------------------------
(* Steps of the stream worker, the admin routes and the delete route.      *)

(* A new segment starts with its local file.                               *)
LEMMA SaveEffects ==
  ASSUME TypeOK, StoreInv, SaveRecording, NothingAhead, CopySurvives
  PROVE  /\ StoreInv' /\ NothingAhead' /\ CopySurvives'
         /\ KeepsFootage /\ condemned' = condemned
         /\ saved' = saved + 1 /\ saved' \in Recordings
  <1> USE StoreAssumption DEF TypeOK, StoreTypeOK, Recordings
  <1>1. /\ saved' = saved + 1 /\ saved' \in Recordings
        /\ condemned' = condemned /\ deleting' = deleting
        /\ object' = object
    BY DEF SaveRecording
  <1>2. /\ \A r \in Recordings : r # saved' => row'[r] = row[r]
        /\ row'[saved'].live
    BY <1>1 DEF SaveRecording, NewRow
  <1>3. /\ \A r \in Recordings, f \in Paths :
             ~(r = saved' /\ f = "original") => disk'[r][f] = disk[r][f]
        /\ disk'[saved']["original"] = "raw"
    BY <1>1 DEF SaveRecording, Paths
  <1>4. StoreInv'
    BY <1>1, <1>2, <1>3 DEF StoreInv, Live, Footage
  <1>5. KeepsFootage
    BY <1>1, <1>3 DEF KeepsFootage, Footage
  <1>6. NothingAhead'
    BY <1>1, <1>3 DEF NothingAhead, HasCopy
  <1>7. CopySurvives'
    <2> SUFFICES ASSUME NEW r \in Recordings, r <= saved', r \notin condemned
                 PROVE  HasCopy(r)'
      BY <1>1 DEF CopySurvives
    <2>1. CASE r = saved'
      BY <1>3, <2>1 DEF HasCopy, Footage, Paths
    <2>2. CASE r # saved'
      <3>1. HasCopy(r)
        BY <1>1, <2>2 DEF CopySurvives
      <3> QED
        BY <1>1, <1>3, <2>2, <3>1 DEF HasCopy
    <2> QED
      BY <2>1, <2>2
  <1> QED
    BY <1>1, <1>4, <1>5, <1>6, <1>7

(* The other steps of the store only remove the file of a recording they   *)
(* condemn.                                                                *)
LEMMA OtherStoreEffects ==
  ASSUME TypeOK, StoreInv, StoreNext, ~SaveRecording
  PROVE  StoreInv' /\ Quiet /\ AddsNoFootage /\ saved' = saved
  <1> USE StoreAssumption DEF TypeOK, StoreTypeOK, Recordings
  <1> DEFINE Goal == StoreInv' /\ Quiet /\ AddsNoFootage /\ saved' = saved
             SameStuff == UNCHANGED <<disk, object, saved, condemned>>
  <1>1. ASSUME SameStuff, deleting' = deleting, Live' = Live PROVE Goal
    BY <1>1 DEF StoreInv, Quiet, KeepsFootage, AddsNoFootage
  <1>2. ASSUME row' = row PROVE Live' = Live
    BY <1>2 DEF Live
  <1>3. ASSUME NEW r \in Recordings, QueueForProfile(r) PROVE Goal
    <2>1. Live' = Live
      BY <1>3 DEF QueueForProfile, Live, Rows
    <2> QED
      BY <1>1, <1>3, <2>1 DEF QueueForProfile
  <1>4. ASSUME NEW r \in Recordings, LeaveLocal(r) PROVE Goal
    BY <1>1, <1>2, <1>4 DEF LeaveLocal
  <1>5. CASE Age
    BY <1>1, <1>2, <1>5 DEF Age
  <1>6. CASE Expire
    BY <1>1, <1>2, <1>6 DEF Expire
  <1>7. ASSUME NEW r \in Recordings, DeleteFile(r) PROVE Goal
    <2>1. r \in 1..saved
      BY <1>7 DEF DeleteFile, StoreInv, Live
    <2>2. /\ row' = row /\ object' = object /\ saved' = saved
          /\ condemned' = condemned \cup {r}
          /\ deleting' = deleting \cup {r}
      BY <1>7 DEF DeleteFile
    <2>3. /\ \A s \in Recordings : s # r => disk'[s] = disk[s]
          /\ \A f \in Paths : disk'[r][f] \in {disk[r][f], "absent"}
      BY <1>7 DEF DeleteFile
    <2>4. StoreInv'
      BY <1>2, <2>1, <2>2, <2>3 DEF StoreInv
    <2>5. Quiet /\ AddsNoFootage
      BY <2>1, <2>2, <2>3 DEF Quiet, KeepsFootage, AddsNoFootage, StoreInv
    <2> QED
      BY <2>2, <2>4, <2>5
  <1>8. ASSUME NEW r \in Recordings, DeleteRow(r) PROVE Goal
    <2>1. SameStuff /\ deleting' = deleting \ {r} /\ r \in condemned
      BY <1>8 DEF DeleteRow, StoreInv
    <2>2. Live' = Live \ {r}
      BY <1>8 DEF DeleteRow, Live, Rows
    <2> QED
      BY <2>1, <2>2 DEF StoreInv, Quiet, KeepsFootage, AddsNoFootage
  <1>9. ASSUME AdminStep, row' = row PROVE Goal
    BY <1>1, <1>2, <1>9 DEF AdminStep
  <1>10. ASSUME AdminStep PROVE Goal
    BY <1>9, <1>10 DEF AdminStep
  <1> QED
    BY <1>3, <1>4, <1>5, <1>6, <1>7, <1>8, <1>10
       DEF StoreNext, PutArchive, UpdateProfile, LoseKey, DeleteProfile

-----------------------------------------------------------------------------
(* Steps of the upload worker.  They condemn nothing, change no row's      *)
(* liveness, and only touch the copies of the recording being transferred. *)

(* What the upload worker never touches.                                   *)
LEMMA UploadFrame ==
  ASSUME TypeOK, StoreInv, UpNext, disk' = disk \/ UpDropLocal
  PROVE  /\ condemned' = condemned /\ deleting' = deleting /\ saved' = saved
         /\ Live' = Live
         /\ StoreInv'
  <1>1. condemned' = condemned /\ deleting' = deleting /\ saved' = saved
    BY DEF UpNext, UpSelect, UpGiveUp, UpOpen, UpSent, UpSendFails,
           UpDropLocal, UpKeepLocal, UpCommit, UpRollback, storeVars
  <1>2. row' = row \/ UpCommit
    BY DEF UpNext, UpSelect, UpGiveUp, UpOpen, UpSent, UpSendFails,
           UpDropLocal, UpKeepLocal, UpRollback, storeVars
  <1>3. ASSUME UpCommit, NEW r \in Recordings
        PROVE  row'[r].live = row[r].live
    BY <1>3 DEF UpCommit, TypeOK, StoreTypeOK, Rows
  <1>4. Live' = Live
    BY <1>2, <1>3 DEF Live
  <1>5. \A r \in Recordings : \A f \in Paths :
          disk'[r][f] \in {"absent"} \cup Footage
    BY DEF StoreInv, UpDropLocal, TypeOK, StoreTypeOK
  <1> QED
    BY <1>1, <1>4, <1>5 DEF StoreInv

(* The upload worker always leaves a copy: it overwrites an object only    *)
(* while the file is there, and removes the file only when the object is.  *)
LEMMA UploadCopies ==
  ASSUME TypeOK, StoreInv, UpInv, UpNext, NothingAhead, CopySurvives
  PROVE  StoreInv' /\ NothingAhead' /\ CopySurvives'
         /\ condemned' = condemned /\ saved' = saved /\ Live' = Live
  <1> USE StoreAssumption DEF TypeOK, StoreTypeOK, Recordings
  <1>0. \A r \in 1..saved : r \in Recordings /\ up.seen[r] \in Rows
    <2>1. 1..saved \subseteq Recordings
      OBVIOUS
    <2> QED
      BY <2>1 DEF UpTypeOK
  <1>1. disk' = disk \/ UpDropLocal
    BY DEF UpNext, UpSelect, UpGiveUp, UpOpen, UpSent, UpSendFails,
           UpKeepLocal, UpCommit, UpRollback, storeVars
  <1>2. /\ StoreInv' /\ condemned' = condemned /\ saved' = saved
        /\ Live' = Live
    BY <1>1, UploadFrame
  <1>3. CASE UpSent \/ UpSendFails
    <2>1. PICK r \in 1..saved, p \in Profiles :
            r = up.cur /\ p = up.seen[r].profile
      BY <1>3 DEF UpSent, UpSendFails, UpInv
    <2>2. up.seen[r].path \in Paths
      <3>1. up.seen[r] \in Rows
        BY <1>0, <2>1
      <3> QED
        BY <3>1 DEF Rows
    <2>3. up.content \in Footage /\ disk' = disk
      BY <1>3 DEF UpSent, UpSendFails, UpInv
    <2>4. PICK c : object' = [object EXCEPT ![p][r] = c]
      BY <1>3, <2>1 DEF UpSent, UpSendFails
    <2>5. \A s \in Recordings, q \in Profiles :
            s # r => object'[q][s] = object[q][s]
      BY <2>4
    <2>6. r \notin condemned => disk'[r][up.seen[r].path] \in Footage
      BY <1>3, <2>1, <2>3 DEF UpSent, UpSendFails, UpInv, FileOf
    <2>7. r \notin condemned => HasCopy(r)'
      BY <2>2, <2>6 DEF HasCopy
    <2>8. \A s \in Recordings : s # r => (HasCopy(s)' <=> HasCopy(s))
      BY <2>3, <2>5 DEF HasCopy
    <2>9. CopySurvives'
      BY <1>2, <2>7, <2>8 DEF CopySurvives
    <2>10. NothingAhead'
      BY <1>2, <2>8 DEF NothingAhead
    <2> QED
      BY <1>2, <2>9, <2>10
  <1>4. CASE UpDropLocal
    <2>1. PICK r \in 1..saved, p \in Profiles :
            r = up.cur /\ p = up.seen[r].profile
      BY <1>4 DEF UpDropLocal, UpInv
    <2>2. object' = object
      BY <1>4 DEF UpDropLocal
    <2>3. \A s \in Recordings : s # r => disk'[s] = disk[s]
      BY <1>4, <2>1 DEF UpDropLocal
    <2>4. r \notin condemned => object[p][r] \in Footage
      BY <1>4, <2>1 DEF UpDropLocal, UpInv
    <2>5. r \notin condemned => HasCopy(r)'
      BY <2>2, <2>4 DEF HasCopy
    <2>6. \A s \in Recordings : s # r => (HasCopy(s)' <=> HasCopy(s))
      BY <2>2, <2>3 DEF HasCopy
    <2>7. CopySurvives'
      BY <1>2, <2>5, <2>6 DEF CopySurvives
    <2>8. NothingAhead'
      BY <1>2, <2>6 DEF NothingAhead
    <2> QED
      BY <1>2, <2>7, <2>8
  <1>5. ASSUME UNCHANGED <<disk, object>>
        PROVE  NothingAhead' /\ CopySurvives'
    BY <1>2, <1>5 DEF NothingAhead, CopySurvives, HasCopy
  <1> QED
    BY <1>2, <1>3, <1>4, <1>5
       DEF UpNext, UpSelect, UpGiveUp, UpOpen, UpKeepLocal, UpCommit,
           UpRollback, storeVars

(* What the worker knows of the recording it is transferring. *)
LEMMA UploadKnowledge ==
  ASSUME TypeOK, StoreInv, UpInv, UpNext
  PROVE  UpInv'
  <1> USE StoreAssumption
      DEF TypeOK, StoreTypeOK, UpTypeOK, Recordings
  <1>1. CASE UpSelect
    <2>1. OldestN(Queued, BatchSize) \subseteq 1..saved
      BY DEF OldestN, Queued, StoreInv
    <2> QED
      BY <1>1, <2>1 DEF UpSelect, UpIdle, UpInv, storeVars
  <1>2. ASSUME NEW r \in Recordings, UpGiveUp(r) PROVE UpInv'
    <2>1. r \in 1..saved
      BY <1>2 DEF UpGiveUp, UpTake, Oldest, UpInv
    <2> QED
      BY <1>2, <2>1 DEF UpGiveUp, UpTake, UpInv
  <1>3. ASSUME NEW r \in Recordings, UpOpen(r) PROVE UpInv'
    <2>1. r \in up.batch /\ r \in 1..saved
      BY <1>3 DEF UpOpen, UpTake, Oldest, UpInv
    <2>2. up.seen[r] \in Rows
      OBVIOUS
    <2>3. /\ up.seen[r].profile \in Profiles
          /\ up.seen[r].path \in Paths
      BY <1>3, <2>2 DEF UpOpen, CanSend, Readable, Rows
    <2>4. FileOf(r, up.seen[r]) \in Footage
      BY <1>3, <2>3 DEF UpOpen, CanSend, FileOf, StoreInv
    <2>5. /\ up'.batch = up.batch \ {r} /\ up'.dirty = up.dirty
          /\ up'.stage = "sending" /\ up'.cur = r /\ up'.seen = up.seen
          /\ up'.content = FileOf(r, up.seen[r])
          /\ saved' = saved /\ disk' = disk /\ condemned' = condemned
      BY <1>3 DEF UpOpen, UpTake
    <2> QED
      BY <2>1, <2>3, <2>4, <2>5 DEF UpInv, FileOf
  <1>4. CASE UpSent
    <2> DEFINE r == up.cur
               p == up.seen[r].profile
    <2>1. r \in 1..saved /\ p \in Profiles /\ up.content \in Footage
      BY <1>4 DEF UpSent, UpInv
    <2>2. up.seen[r] \in Rows
      BY <2>1
    <2>3. /\ up'.batch = up.batch /\ up'.dirty = up.dirty \cup {r}
          /\ up'.stage = "stored" /\ up'.cur = r /\ up'.content = up.content
          /\ up'.seen = [up.seen EXCEPT ![r].remote = "uploaded"]
          /\ saved' = saved /\ condemned' = condemned
      BY <1>4 DEF UpSent
    <2>4. up'.seen[r].profile = p
      BY <2>1, <2>2, <2>3 DEF Rows
    <2>5. object'[p][r] \in Footage
      BY <1>4, <2>1 DEF UpSent
    <2> QED
      BY <2>1, <2>3, <2>4, <2>5 DEF UpInv
  <1>5. CASE UpSendFails
    <2>1. /\ up'.stage = "next" /\ up'.batch = up.batch
          /\ up'.dirty = up.dirty \cup {up.cur} /\ saved' = saved
          /\ up.cur \in 1..saved
      BY <1>5 DEF UpSendFails, UpInv
    <2> QED
      BY <2>1 DEF UpInv
  <1>6. CASE UpDropLocal \/ UpKeepLocal
    <2>1. /\ up'.stage = "next" /\ up'.batch = up.batch
          /\ up'.dirty = up.dirty /\ saved' = saved
      BY <1>6 DEF UpDropLocal, UpKeepLocal, storeVars
    <2> QED
      BY <2>1 DEF UpInv
  <1>7. CASE UpCommit \/ UpRollback
    <2>0. up' = UpIdle
      BY <1>7 DEF UpCommit, UpRollback
    <2>1. /\ up'.stage = "idle" /\ up'.batch = {} /\ up'.dirty = {}
      BY <2>0 DEF UpIdle
    <2> QED
      BY <2>1 DEF UpInv
  <1> QED
    BY <1>1, <1>2, <1>3, <1>4, <1>5, <1>6, <1>7 DEF UpNext

-----------------------------------------------------------------------------
(* Steps of the retention pass.  What a pass removes it condemns first, or *)
(* in the same step.                                                       *)

(* Dropping a recording condemns it.                                       *)
LEMMA DropEffects ==
  ASSUME TypeOK, StoreInv, RetInv, NEW r \in ret.todo,
         condemned' = condemned \cup {r},
         \A s \in Recordings : s # r => disk'[s] = disk[s],
         \A f \in Paths : disk'[r][f] \in {disk[r][f], "absent"},
         \A p \in Profiles : \A s \in Recordings :
           s # r => object'[p][s] = object[p][s],
         \A p \in Profiles : object'[p][r] \in {object[p][r], "absent"},
         row' = row, saved' = saved, deleting' = deleting
  PROVE  StoreInv' /\ Quiet /\ AddsNoFootage
  <1> USE StoreAssumption DEF TypeOK, StoreTypeOK, Recordings
  <1>1. r \in 1..saved
    BY DEF RetInv
  <1>2. Live' = Live
    BY DEF Live
  <1>3. Quiet
    BY <1>1 DEF Quiet, KeepsFootage, StoreInv
  <1>4. AddsNoFootage
    BY DEF AddsNoFootage
  <1>5. StoreInv'
    BY <1>1, <1>2, <1>4 DEF StoreInv, AddsNoFootage
  <1> QED
    BY <1>3, <1>4, <1>5

(* Loading rows changes nothing but the session.                           *)
LEMMA ScanEffects ==
  ASSUME StoreInv, RetInv, NEW step, NEW S \in SUBSET Live, NEW n,
         RetLoad(step, S, n), UNCHANGED storeVars
  PROVE  RetInv'
  <1>1. CASE S = {}
    BY <1>1 DEF RetLoad, RetMoveOn, RetIdle, RetInv
  <1>2. CASE S # {}
    <2>1. ret'.todo = S /\ ret'.dropped = ret.dropped
      BY <1>2 DEF RetLoad
    <2> QED
      BY <2>1 DEF RetInv, StoreInv, storeVars
  <1> QED
    BY <1>1, <1>2

(* Only condemned rows go at the commit of a phase.                        *)
LEMMA CommitDrops ==
  ASSUME StoreTypeOK, RetCommit
  PROVE  Live' = Live \ ret.dropped
  <1>1. ASSUME NEW r \in Recordings
        PROVE  row'[r].live <=> row[r].live /\ r \notin ret.dropped
    BY DEF RetCommit, StoreTypeOK, Rows
  <1> QED
    BY <1>1 DEF Live

(* The retention pass removes copies only of recordings it condemns.       *)
LEMMA RetentionEffects ==
  ASSUME TypeOK, StoreInv, RetInv, RetStep
  PROVE  StoreInv' /\ RetInv' /\ Quiet /\ AddsNoFootage /\ saved' = saved
  <1> USE StoreAssumption DEF TypeOK, StoreTypeOK
  <1> DEFINE Goal == /\ StoreInv' /\ RetInv' /\ Quiet /\ AddsNoFootage
                     /\ saved' = saved
  <1>1. ASSUME UNCHANGED storeVars, RetInv' PROVE Goal
    BY <1>1 DEF StoreInv, Live, Quiet, KeepsFootage, AddsNoFootage, storeVars
  <1>2. CASE RetBegin
    <2>1. RetInv'
      BY <1>2 DEF RetBegin, RetIdle, RetInv
    <2> QED
      BY <1>1, <1>2, <2>1 DEF RetBegin
  <1>3. CASE RetScanLocal
    BY <1>1, <1>3, ScanEffects DEF RetScanLocal
  <1>4. CASE RetScanArchive
    BY <1>1, <1>4, ScanEffects DEF RetScanArchive
  <1>5. CASE RetScanDisk
    BY <1>1, <1>5, ScanEffects DEF RetScanDisk
  <1>6. ASSUME NEW r \in Recordings, NEW n, Skip(r, n) PROVE Goal
    <2>1. RetInv'
      BY <1>6 DEF Skip, RetInv, storeVars
    <2> QED
      BY <1>1, <1>6, <2>1 DEF Skip
  <1>7. ASSUME NEW r \in Recordings, RetMark(r) PROVE Goal
    <2>1. RetInv'
      BY <1>7 DEF RetMark, RetInv, storeVars
    <2> QED
      BY <1>1, <1>7, <2>1 DEF RetMark
  <1>8. ASSUME NEW r \in ret.todo, Drop(r),
               \A s \in Recordings : s # r => disk'[s] = disk[s],
               \A f \in Paths : disk'[r][f] \in {disk[r][f], "absent"},
               \A p \in Profiles : \A s \in Recordings :
                 s # r => object'[p][s] = object[p][s],
               \A p \in Profiles : object'[p][r] \in {object[p][r], "absent"}
        PROVE  Goal
    <2>1. /\ row' = row /\ saved' = saved /\ deleting' = deleting
          /\ condemned' = condemned \cup {r}
          /\ ret'.todo = ret.todo \ {r}
          /\ ret'.dropped = ret.dropped \cup {r}
      BY <1>8 DEF Drop, RetTypeOK
    <2>2. StoreInv' /\ Quiet /\ AddsNoFootage
      BY <1>8, <2>1, DropEffects
    <2>3. RetInv'
      BY <2>1 DEF RetInv
    <2> QED
      BY <2>1, <2>2, <2>3
  <1>9. ASSUME NEW r \in Recordings, RetDelete(r) PROVE Goal
    <2>1. ret.seen[r] \in Rows /\ r \in ret.todo
      BY <1>9 DEF RetTypeOK, RetDelete, RetAt
    <2>2. PICK ok \in BOOLEAN : /\ Drop(r) /\ RemoveFile(r)
                                /\ DeleteRemoteCopy(r, ret.seen[r], ok)
      BY <1>9 DEF RetDelete
    <2>3. /\ \A s \in Recordings : s # r => disk'[s] = disk[s]
          /\ \A f \in Paths : disk'[r][f] \in {disk[r][f], "absent"}
      BY <2>2, RemoveFileEffect
    <2>4. /\ \A p \in Profiles : \A s \in Recordings :
               s # r => object'[p][s] = object[p][s]
          /\ \A p \in Profiles : object'[p][r] \in {object[p][r], "absent"}
      BY <2>1, <2>2, DeleteRemoteCopyEffect
    <2> QED
      BY <1>8, <2>1, <2>2, <2>3, <2>4
  <1>10. ASSUME NEW r \in Recordings, RetExpire(r) PROVE Goal
    <2>1. ret.seen[r] \in Rows /\ r \in ret.todo
      BY <1>10 DEF RetTypeOK, RetExpire, Oldest
    <2>2. /\ \A s \in Recordings : s # r => disk'[s] = disk[s]
          /\ \A f \in Paths : disk'[r][f] \in {disk[r][f], "absent"}
      BY <1>10, RemoveFileEffect DEF RetExpire, RemoveFails
    <2> QED
      BY <1>8, <1>10, <2>1, <2>2, DeleteRemoteCopyEffect DEF RetExpire
  <1>11. ASSUME NEW r \in Recordings, RetExpireLater(r) PROVE Goal
    <2>1. ret.seen[r] \in Rows /\ r \in ret.todo
      BY <1>11 DEF RetTypeOK, RetExpireLater, Oldest
    <2>2. /\ row' = row /\ saved' = saved /\ deleting' = deleting
          /\ disk' = disk
          /\ condemned' = condemned \cup {r}
          /\ ret'.todo = ret.todo \ {r} /\ ret'.dropped = ret.dropped
      BY <1>11 DEF RetExpireLater, RetTypeOK
    <2>3. StoreInv' /\ Quiet /\ AddsNoFootage
      BY <1>11, <2>1, <2>2, DeleteRemoteCopyEffect, DropEffects
         DEF RetExpireLater
    <2>4. RetInv'
      BY <2>2 DEF RetInv
    <2> QED
      BY <2>2, <2>3, <2>4
  <1>12. ASSUME NEW r \in Recordings, RetReclaim(r) PROVE Goal
    <2>1. r \in ret.todo
      BY <1>12 DEF RetReclaim, Oldest
    <2> QED
      BY <1>8, <1>12, <2>1, RemoveFileEffect DEF RetReclaim
  <1>13. CASE RetEnough
    <2>1. RetInv'
      BY <1>13 DEF RetEnough, RetInv, storeVars
    <2> QED
      BY <1>1, <1>13, <2>1 DEF RetEnough
  <1>14. CASE RetCommit
    <2>1. /\ disk' = disk /\ object' = object /\ saved' = saved
          /\ condemned' = condemned /\ deleting' = deleting
      BY <1>14 DEF RetCommit
    <2>2. Live' = Live \ ret.dropped
      BY <1>14, CommitDrops
    <2>3. StoreInv'
      BY <2>1, <2>2 DEF StoreInv, RetInv
    <2>4. RetInv'
      BY <1>14 DEF RetCommit, RetMoveOn, RetIdle, RetInv
    <2> QED
      BY <2>1, <2>3, <2>4 DEF Quiet, KeepsFootage, AddsNoFootage, StoreInv
  <1>15. CASE RetRollback
    <2>1. RetInv'
      BY <1>15 DEF RetRollback, RetMoveOn, RetIdle, RetInv
    <2> QED
      BY <1>1, <1>15, <2>1 DEF RetRollback
  <1> QED
    BY <1>2, <1>3, <1>4, <1>5, <1>6, <1>7, <1>9, <1>10, <1>11, <1>12, <1>13,
       <1>14, <1>15
       DEF RetStep, RetLeave, RetCannotDelete, RetSpare

-----------------------------------------------------------------------------
(* The invariant is inductive.                                             *)

(* Every step preserves the inductive invariant.                           *)
LEMMA NextIInv == IInv /\ [Next]_vars => IInv'
  <1> SUFFICES ASSUME IInv, [Next]_vars PROVE IInv'
    OBVIOUS
  <1> USE DEF IInv
  <1>0. saved \in Nat
    BY StoreAssumption DEF TypeOK, StoreTypeOK
  <1>1. CASE StoreStep
    <2>1. UpTypeOK' /\ RetTypeOK' /\ crashes' \in 0..MaxCrashes
      BY <1>1 DEF StoreStep, TypeOK, UpTypeOK, RetTypeOK
    <2>2. TypeOK'
      BY <1>1, <2>1, StoreTypes DEF TypeOK, StoreStep
    <2>3. CASE SaveRecording
      <3>1. /\ StoreInv' /\ NothingAhead' /\ CopySurvives'
            /\ KeepsFootage /\ condemned' = condemned /\ saved' = saved + 1
        BY <2>3, SaveEffects
      <3>2. UpInv'
        BY <1>0, <1>1, <3>1, QuietKeepsUpInv DEF StoreStep
      <3>3. RetInv'
        BY <1>0, <1>1, <3>1 DEF RetInv, StoreStep
      <3> QED
        BY <2>2, <3>1, <3>2, <3>3
    <2>4. CASE ~SaveRecording
      <3>1. StoreInv' /\ Quiet /\ AddsNoFootage /\ saved' = saved
        BY <1>1, <2>4, OtherStoreEffects DEF StoreStep
      <3>2. NothingAhead' /\ CopySurvives'
        BY <3>1, QuietKeepsCopies, QuietKeepsNothingAhead
      <3>3. UpInv'
        BY <1>0, <1>1, <3>1, QuietKeepsUpInv DEF StoreStep, Quiet
      <3>4. RetInv'
        BY <1>1, <3>1 DEF RetInv, StoreStep, Quiet
      <3> QED
        BY <2>2, <3>1, <3>2, <3>3, <3>4
    <2> QED
      BY <2>3, <2>4
  <1>2. CASE UploadStep
    <2>1. RetTypeOK' /\ crashes' \in 0..MaxCrashes
      BY <1>2 DEF UploadStep, TypeOK, RetTypeOK
    <2>0. UpCurrent
      <3>1. 1..saved \subseteq Recordings
        BY StoreAssumption DEF TypeOK, StoreTypeOK, Recordings
      <3> QED BY <3>1 DEF UpInv, UpCurrent
    <2>2. TypeOK'
      BY <1>2, <2>0, <2>1, UploadTypes DEF TypeOK, UploadStep
    <2>3. /\ StoreInv' /\ NothingAhead' /\ CopySurvives'
          /\ condemned' = condemned /\ saved' = saved
      BY <1>2, UploadCopies DEF UploadStep
    <2>4. UpInv'
      BY <1>2, UploadKnowledge DEF UploadStep
    <2>5. RetInv'
      BY <1>2, <2>3 DEF RetInv, UploadStep
    <2> QED
      BY <2>2, <2>3, <2>4, <2>5
  <1>3. CASE RetentionStep
    <2>1. UpTypeOK' /\ crashes' \in 0..MaxCrashes
      BY <1>3 DEF RetentionStep, TypeOK, UpTypeOK
    <2>2. TypeOK'
      BY <1>3, <2>1, RetentionTypes DEF TypeOK, RetentionStep
    <2>3. StoreInv' /\ RetInv' /\ Quiet /\ AddsNoFootage /\ saved' = saved
      BY <1>3, RetentionEffects DEF RetentionStep
    <2>4. NothingAhead' /\ CopySurvives'
      BY <2>3, QuietKeepsCopies, QuietKeepsNothingAhead
    <2>5. UpInv'
      BY <1>0, <1>3, <2>3, QuietKeepsUpInv DEF RetentionStep, Quiet
    <2> QED
      BY <2>2, <2>3, <2>4, <2>5
  <1>4. CASE ShelterStep
    <2>1. PICK r \in Recordings : Shelter(r)
      BY <1>4 DEF ShelterStep
    <2>2. /\ UNCHANGED <<storeVars, up, ret, crashes>>
          /\ shelter' = shelter \cup {r}
      BY <1>4, <2>1 DEF ShelterStep, Shelter
    <2>3. TypeOK'
      BY <2>2 DEF TypeOK, StoreTypeOK, UpTypeOK, RetTypeOK, storeVars
    <2> QED
      BY <2>2, <2>3 DEF StoreInv, Live, UpInv, FileOf, RetInv, NothingAhead,
                        CopySurvives, HasCopy, storeVars
  <1>5. CASE Crash
    <2>1. /\ UNCHANGED <<row, disk, object, profile, archive, saved, aged,
                         expired, deleting, condemned, admin, shelter>>
          /\ up' = UpIdle /\ ret' = RetIdle
          /\ finalizing' = {} /\ locked' = {}
          /\ crashes' \in 0..MaxCrashes
      BY <1>5, CrashAssumption DEF Crash, TypeOK
    <2>2. StoreTypeOK'
      BY <2>1 DEF TypeOK, StoreTypeOK
    <2>3. UpTypeOK'
      BY <2>1, RowKinds DEF UpIdle, UpTypeOK, Content
    <2>4. RetTypeOK'
      BY <2>1, RowKinds DEF RetIdle, RetTypeOK, RetSteps, Modes,
                        TypeOK
    <2>5. StoreInv' /\ NothingAhead' /\ CopySurvives'
      BY <2>1 DEF StoreInv, Live, NothingAhead, CopySurvives, HasCopy
    <2>6. UpInv' /\ RetInv'
      BY <2>1 DEF UpIdle, RetIdle, UpInv, RetInv
    <2> QED
      BY <2>1, <2>2, <2>3, <2>4, <2>5, <2>6 DEF TypeOK
  <1>6. CASE UNCHANGED vars
    BY <1>6 DEF vars, storeVars, TypeOK, StoreTypeOK, UpTypeOK, RetTypeOK,
                StoreInv, Live, UpInv, FileOf, RetInv, NothingAhead,
                CopySurvives, HasCopy
  <1> QED
    BY <1>1, <1>2, <1>3, <1>4, <1>5, <1>6 DEF Next

(* The inductive invariant holds initially.                                *)
LEMMA InitIInv == Init => IInv
  <1> SUFFICES ASSUME Init PROVE IInv
    OBVIOUS
  <1>1. TypeOK
    BY InitTypes
  <1>2. StoreInv
    BY StoreAssumption
       DEF Init, StoreInit, StoreInv, Live, NoRow, NewRow, Recordings
  <1>3. UpInv /\ RetInv
    BY DEF Init, UpIdle, RetIdle, UpInv, RetInv
  <1>4. NothingAhead /\ CopySurvives
    BY DEF Init, StoreInit, NothingAhead, CopySurvives, HasCopy, Footage,
           Recordings
  <1> QED
    BY <1>1, <1>2, <1>3, <1>4 DEF IInv

(* The inductive invariant holds in every reachable state.                 *)
THEOREM IInvHolds == Spec => []IInv
  BY InitIInv, NextIInv, PTL DEF Spec

(* Every reachable state is well typed, for every number of recordings,    *)
(* profiles, admin changes and crashes.                                    *)
THEOREM TypeCorrect == Spec => []TypeOK
  <1>1. IInv => TypeOK
    BY DEF IInv
  <1> QED
    BY <1>1, IInvHolds, PTL

(* Footage that nobody condemned can still be watched from some copy: the  *)
(* upload worker removes the local file before its row says "uploaded", a  *)
(* batch may roll back or the process die in between, and retention works  *)
(* on stale rows, yet one copy is always left.                             *)
THEOREM FootageSurvives == Spec => []CopySurvives
  <1>1. IInv => CopySurvives
    BY DEF IInv
  <1> QED
    BY <1>1, IInvHolds, PTL

-----------------------------------------------------------------------------
(* The system implements the vault: in every state of the invariant the    *)
(* vault keeps exactly the recordings nobody condemned.                    *)

(* In every reachable state the vault keeps what was recorded and not      *)
(* condemned.                                                              *)
LEMMA KeptIsUncondemned ==
  ASSUME IInv
  PROVE  {r \in Recordings : HasCopy(r)} \ condemned = (1..saved) \ condemned
  BY StoreAssumption DEF IInv, TypeOK, StoreTypeOK, NothingAhead,
                         CopySurvives, Recordings

(* The same after a step.                                                  *)
LEMMA KeptNext ==
  ASSUME IInv'
  PROVE  ({r \in Recordings : HasCopy(r)} \ condemned)'
           = (1..saved') \ condemned'
  BY StoreAssumption DEF IInv, TypeOK, StoreTypeOK, NothingAhead,
                         CopySurvives, Recordings

(* Initial states are initial states of the vault.                         *)
LEMMA VaultInit == Init => Vault!Init
  BY DEF Init, StoreInit, Vault!Init, Live, HasCopy, Footage, NoRow, NewRow

(* A segment is recorded. *)
LEMMA RecordStep ==
  ASSUME IInv, IInv', saved' = saved + 1, saved' \in Recordings,
         condemned' = condemned, Live' = Live \cup {saved'}
  PROVE  Vault!Next
  <1> DEFINE kept == {r \in Recordings : HasCopy(r)} \ condemned
  <1>1. kept = (1..saved) \ condemned /\ kept' = (1..saved') \ condemned'
    BY KeptIsUncondemned, KeptNext
  <1>2. saved \in Nat /\ Live \subseteq 1..saved /\ condemned \subseteq 1..saved
    BY StoreAssumption DEF IInv, TypeOK, StoreTypeOK, StoreInv
  <1>3. saved' \notin kept \cup Live \cup condemned
    BY <1>1, <1>2
  <1>4. kept' = kept \cup {saved'}
    BY <1>1, <1>2
  <1> HIDE DEF kept
  <1>5. PICK r \in Recordings : r = saved'
    OBVIOUS
  <1>6. Vault!Record(r)
    BY <1>3, <1>4, <1>5 DEF Vault!Record, kept
  <1> QED
    BY <1>6 DEF Vault!Next

(* A recording is condemned. *)
LEMMA CondemnStep ==
  ASSUME IInv, IInv', NEW r \in Recordings, r <= saved, saved' = saved,
         condemned' = condemned \cup {r}, Live' = Live
  PROVE  Vault!Next
  <1> DEFINE kept == {s \in Recordings : HasCopy(s)} \ condemned
  <1>1. kept = (1..saved) \ condemned /\ kept' = (1..saved') \ condemned'
    BY KeptIsUncondemned, KeptNext
  <1>2. saved \in Nat /\ r \in 1..saved
    BY StoreAssumption DEF IInv, TypeOK, StoreTypeOK, Recordings
  <1>3. r \in kept \cup condemned /\ kept' = kept \ {r}
    BY <1>1, <1>2
  <1>4. Vault!Condemn(r)
    BY <1>3 DEF Vault!Condemn
  <1> QED
    BY <1>4 DEF Vault!Next

(* The rows of condemned recordings go. *)
LEMMA DelistStep ==
  ASSUME IInv, IInv', NEW S \in SUBSET condemned, saved' = saved,
         condemned' = condemned, Live' = Live \ S
  PROVE  Vault!Next
  <1>1. S \in SUBSET Recordings
    BY DEF IInv, TypeOK, StoreTypeOK
  <1>2. Vault!Delist(S)
    BY KeptIsUncondemned, KeptNext DEF Vault!Delist
  <1> QED
    BY <1>1, <1>2 DEF Vault!Next

(* A step that keeps the vault's view of the system stutters there.        *)
LEMMA StutterStep ==
  ASSUME IInv, IInv', saved' = saved, condemned' = condemned, Live' = Live
  PROVE  UNCHANGED Vault!vars
  BY KeptIsUncondemned, KeptNext DEF Vault!vars

(* Every step of the store is a step of the vault.                         *)
LEMMA VaultStoreStep ==
  ASSUME IInv, IInv', StoreNext
  PROVE  Vault!Next \/ UNCHANGED Vault!vars
  <1> USE DEF IInv, TypeOK, StoreTypeOK
  <1>0. row' = row => Live' = Live
    BY DEF Live
  <1>1. CASE SaveRecording
    <2>1. /\ saved' = saved + 1 /\ saved' \in Recordings
          /\ condemned' = condemned
      BY <1>1, SaveEffects
    <2>2. Live' = Live \cup {saved'}
      BY <1>1, <2>1 DEF SaveRecording, Live, NewRow
    <2> QED
      BY <2>1, <2>2, RecordStep
  <1>2. ASSUME NEW r \in Recordings, QueueForProfile(r)
        PROVE  UNCHANGED Vault!vars
    <2>1. Live' = Live
      BY <1>2 DEF QueueForProfile, Live, Rows
    <2> QED
      BY <1>2, <2>1, StutterStep DEF QueueForProfile
  <1>3. ASSUME NEW r \in Recordings, DeleteFile(r)
        PROVE  Vault!Next
    <2>1. r <= saved
      BY <1>3 DEF DeleteFile, StoreInv, Live
    <2> QED
      BY <1>0, <1>3, <2>1, CondemnStep DEF DeleteFile
  <1>4. ASSUME NEW r \in Recordings, DeleteRow(r)
        PROVE  Vault!Next
    <2>1. Live' = Live \ {r}
      BY <1>4 DEF DeleteRow, Live, Rows
    <2>2. {r} \in SUBSET condemned
      BY <1>4 DEF DeleteRow, StoreInv
    <2> QED
      BY <1>4, <2>1, <2>2, DelistStep DEF DeleteRow
  <1>5. ASSUME UNCHANGED <<row, saved, condemned>>
        PROVE  UNCHANGED Vault!vars
    BY <1>0, <1>5, StutterStep
  <1> QED
    BY <1>1, <1>2, <1>3, <1>4, <1>5
       DEF StoreNext, LeaveLocal, Age, Expire, PutArchive, UpdateProfile,
           LoseKey, DeleteProfile, AdminStep

(* Every step of the retention pass is a step of the vault.                *)
LEMMA VaultRetentionStep ==
  ASSUME IInv, IInv', RetStep
  PROVE  Vault!Next \/ UNCHANGED Vault!vars
  <1> USE DEF IInv, TypeOK, StoreTypeOK
  <1>0. row' = row => Live' = Live
    BY DEF Live
  <1>1. ASSUME NEW r \in Recordings, r \in ret.todo,
               UNCHANGED <<row, saved>>, condemned' = condemned \cup {r}
        PROVE  Vault!Next
    <2>1. r <= saved
      BY <1>1 DEF RetInv
    <2> QED
      BY <1>0, <1>1, <2>1, CondemnStep
  <1>2. ASSUME NEW r \in Recordings,
               RetDelete(r) \/ RetExpire(r) \/ RetExpireLater(r)
                 \/ RetReclaim(r)
        PROVE  Vault!Next
    <2>1. r \in ret.todo
      BY <1>2 DEF RetDelete, RetAt, RetExpire, RetExpireLater, RetReclaim,
                  Oldest
    <2>2. UNCHANGED <<row, saved>> /\ condemned' = condemned \cup {r}
      BY <1>2 DEF RetDelete, RetExpire, RetExpireLater, RetReclaim, Drop
    <2> QED
      BY <1>1, <2>1, <2>2
  <1>3. CASE RetCommit
    <2>1. /\ saved' = saved /\ condemned' = condemned
          /\ ret.dropped \in SUBSET condemned
      BY <1>3 DEF RetCommit, RetInv
    <2>2. Live' = Live \ ret.dropped
      BY <1>3, CommitDrops
    <2> QED
      BY <2>1, <2>2, DelistStep
  <1>4. ASSUME UNCHANGED storeVars
        PROVE  UNCHANGED Vault!vars
    BY <1>0, <1>4, StutterStep DEF storeVars
  <1> QED
    BY <1>2, <1>3, <1>4
       DEF RetStep, RetBegin, RetScanLocal, RetLeave, RetMark,
           RetCannotDelete, RetScanArchive, RetScanDisk, RetSpare, RetEnough,
           RetRollback, Skip

(* Every step of the system is a step of the vault or stutters there.      *)
LEMMA VaultStep == IInv /\ IInv' /\ [Next]_vars => [Vault!Next]_(Vault!vars)
  <1> SUFFICES ASSUME IInv, IInv', [Next]_vars
               PROVE  Vault!Next \/ UNCHANGED Vault!vars
    OBVIOUS
  <1>1. CASE StoreStep
    BY <1>1, VaultStoreStep DEF StoreStep
  <1>2. CASE UploadStep
    <2>1. condemned' = condemned /\ saved' = saved /\ Live' = Live
      BY <1>2, UploadCopies DEF UploadStep, IInv
    <2> QED
      BY <2>1, StutterStep
  <1>3. CASE RetentionStep
    BY <1>3, VaultRetentionStep DEF RetentionStep
  <1>4. CASE ShelterStep \/ Crash \/ UNCHANGED vars
    <2>1. UNCHANGED <<row, saved, condemned>>
      BY <1>4 DEF ShelterStep, Shelter, Crash, vars, storeVars
    <2>2. Live' = Live
      BY <2>1 DEF Live
    <2> QED
      BY <2>1, <2>2, StutterStep
  <1> QED
    BY <1>1, <1>2, <1>3, <1>4 DEF Next

(* The recording store, with its uploads, passes, races and crashes,       *)
(* implements the vault: footage is lost only by being condemned, and only *)
(* condemned recordings leave the list.                                    *)
THEOREM ImplementsVault == Spec => VaultSpec
  <1>1. Init => Vault!Init
    BY VaultInit
  <1>2. IInv /\ IInv' /\ [Next]_vars => [Vault!Next]_(Vault!vars)
    BY VaultStep
  <1> QED
    BY <1>1, <1>2, IInvHolds, PTL DEF Spec, VaultSpec, Vault!Spec

-----------------------------------------------------------------------------
(* Archive retention leaves no orphan                                      *)

(* A segment is finalized long before it ages out of a window.             *)
FreshInv == \A r \in finalizing : r > aged /\ r > expired

(* A session holds nothing while no phase is loaded, and marks only in     *)
(* local retention.                                                        *)
SessionInv ==
  /\ ret.step \in {"idle", "scanLocal", "scanArchive", "scanDisk"}
       => ret.dropped = {} /\ ret.marked = {}
  /\ ret.step # "local" => ret.marked = {}

(* What archive retention loaded is still uploaded, whatever became of the *)
(* rest of the row; what it drops has lost its object.                     *)
ExpiryInv ==
  ret.step = "archive"
    => /\ ret.archive \in Profiles
       /\ \A r \in ret.todo \cup ret.dropped :
            /\ r <= expired /\ row[r].remote = "uploaded"
            /\ ret.seen[r].remote = "uploaded"
            /\ ret.seen[r].profile = ret.archive
       /\ \A r \in ret.dropped : object[ret.archive][r] = "absent"

OrphanInv == HandQueued /\ FreshInv /\ SessionInv /\ ExpiryInv

(* What the worker has in hand was recorded. *)
LEMMA HandRecorded ==
  ASSUME IInv
  PROVE  UpCurrent /\ \A r \in Recordings : Hand(r) => r <= saved
  <1>1. saved \in Nat /\ 1..saved \subseteq Recordings
    BY StoreAssumption DEF IInv, TypeOK, StoreTypeOK, Recordings
  <1> QED
    BY <1>1 DEF IInv, UpInv, UpCurrent, Hand

(* A phase that loads rows starts with them; without any the pass goes on. *)
LEMMA LoadEffect ==
  ASSUME RetTypeOK, NEW step \in RetSteps, NEW S \in SUBSET Recordings,
         NEW n, RetLoad(step, S, n)
  PROVE  \/ /\ S = {} /\ ret' = RetMoveOn
         \/ /\ ret'.step = step /\ ret'.todo = S /\ ret'.mode = ret.mode
            /\ ret'.archive = ret.archive
            /\ ret'.dropped = ret.dropped /\ ret'.marked = ret.marked
            /\ \A r \in S : ret'.seen[r] = row[r]
  BY DEF RetLoad, RetTypeOK

(* A pass that moves on holds nothing. *)
LEMMA MoveOnEffect ==
  /\ RetMoveOn.dropped = {} /\ RetMoveOn.marked = {} /\ RetMoveOn.todo = {}
  /\ RetMoveOn.step = NextStep /\ RetMoveOn.mode = "none"
  /\ RetMoveOn.archive = IF NextStep = "idle" THEN NoProfile ELSE ret.archive
  /\ NextStep \in {"scanArchive", "scanDisk", "idle"}
  BY DEF RetMoveOn, RetIdle, NextStep

(* What a step of the pass does to its session: it starts, loads a phase,  *)
(* deals with one recording of it, or moves on.                            *)
LEMMA RetentionSession ==
  ASSUME TypeOK, RetStep
  PROVE  \/ /\ RetBegin /\ ret'.step \in {"scanLocal", "scanArchive"}
            /\ ret'.dropped = {} /\ ret'.marked = {} /\ ret'.todo = {}
            /\ ret'.step = "scanLocal"
                 => ret'.mode \in RetentionModes /\ ret'.mode # "none"
            /\ ~SettingsFaults => ret'.archive = ArchiveTarget
            /\ UNCHANGED storeVars
         \/ /\ ret' = RetMoveOn /\ ret.step # "idle"
            /\ RetCommit \/ UNCHANGED storeVars
         \/ /\ RetScanLocal /\ ret'.step = "local" /\ ret'.mode = ret.mode
            /\ ret'.archive = ret.archive
            /\ ret'.todo \subseteq Live /\ \A r \in ret'.todo : ret'.seen[r] = row[r]
            /\ ret.mode = "time" => \A r \in ret'.todo : r <= aged
            /\ ret'.dropped = ret.dropped /\ ret'.marked = ret.marked
            /\ UNCHANGED storeVars
         \/ /\ RetScanArchive /\ ret'.step = "archive"
            /\ ret'.archive = ret.archive /\ ret.archive \in Profiles
            /\ \A r \in ret'.todo : /\ ret'.seen[r] = row[r] /\ r <= expired
                                    /\ row[r].remote = "uploaded"
                                    /\ row[r].profile = ret.archive
            /\ ret'.dropped = ret.dropped /\ ret'.marked = ret.marked
            /\ UNCHANGED storeVars
         \/ /\ RetScanDisk /\ ret'.step = "disk"
            /\ ret'.archive = ret.archive
            /\ ret'.dropped = ret.dropped /\ ret'.marked = ret.marked
            /\ UNCHANGED storeVars
         \/ /\ ret.step \in {"local", "archive", "disk"} /\ ret'.step = ret.step
            /\ ret'.archive = ret.archive /\ ret'.mode = ret.mode
            /\ ret'.seen = ret.seen /\ ret'.todo \subseteq ret.todo
            /\ \E r \in ret.todo :
                 \/ /\ RetMark(r) /\ ret'.marked = ret.marked \cup {r}
                    /\ ret'.dropped = ret.dropped
                 \/ /\ RetDelete(r) \/ RetExpire(r) \/ RetReclaim(r)
                    /\ ret'.dropped = ret.dropped \cup {r}
                    /\ ret'.marked = ret.marked
                 \/ /\ ret'.dropped = ret.dropped /\ ret'.marked = ret.marked
                    /\ UNCHANGED storeVars \/ RetExpireLater(r)
            /\ UNCHANGED <<row, profile, archive, saved, finalizing, aged,
                           expired, locked, deleting, admin>>
  <1> DEFINE Live1 == {r \in Live : r <= aged}
  <1>0. RetTypeOK /\ RetentionAssumption /\ Live \subseteq Recordings
    BY RetentionAssumption DEF TypeOK, Live
  <1>1. CASE RetBegin
    <2>1. PICK m \in RetentionModes, a \in {ArchiveTarget}
                 \cup (IF SettingsFaults THEN {NoProfile} ELSE {}) :
            ret' = [RetIdle EXCEPT !.archive = a, !.mode = m,
                      !.step = IF m = "none" THEN "scanArchive" ELSE "scanLocal"]
      BY <1>1 DEF RetBegin
    <2>2. /\ ret'.step = IF m = "none" THEN "scanArchive" ELSE "scanLocal"
          /\ ret'.dropped = {} /\ ret'.marked = {} /\ ret'.todo = {}
          /\ ret'.mode = m /\ ret'.archive = a
      BY <2>1 DEF RetIdle
    <2> QED
      BY <1>1, <2>2 DEF RetBegin
  <1>2. CASE RetScanLocal
    <2>1. ret.step = "scanLocal" /\ UNCHANGED storeVars
      BY <1>2 DEF RetScanLocal
    <2>2. PICK S, n : /\ S \in SUBSET Live /\ RetLoad("local", S, n)
                      /\ ret.mode = "time" => S = Live1
      <3>1. CASE ret.mode = "time"
        BY <1>2, <3>1 DEF RetScanLocal
      <3>2. CASE ret.mode # "time"
        <4> DEFINE counted == {r \in Live : ret.archive # NoProfile
                                              => row[r].remote # "uploaded"}
                   excess == Cardinality(counted) - LocalBudget
        <4>1. RetLoad("local", IF excess > 0 THEN counted ELSE {}, excess)
          BY <1>2, <3>2 DEF RetScanLocal
        <4>2. (IF excess > 0 THEN counted ELSE {}) \in SUBSET Live
          OBVIOUS
        <4> HIDE DEF counted, excess
        <4> QED
          BY <3>2, <4>1, <4>2
      <3> QED
        BY <3>1, <3>2
    <2>3. \/ ret' = RetMoveOn
          \/ /\ ret'.step = "local" /\ ret'.todo = S /\ ret'.mode = ret.mode
             /\ ret'.archive = ret.archive
             /\ ret'.dropped = ret.dropped /\ ret'.marked = ret.marked
             /\ \A r \in S : ret'.seen[r] = row[r]
      BY <1>0, <2>2, LoadEffect DEF RetSteps
    <2> QED
      BY <1>2, <2>1, <2>2, <2>3
  <1>3. CASE RetScanArchive
    <2> DEFINE S == {r \in Live : /\ ret.archive # NoProfile /\ ArchiveExpires
                                  /\ row[r].profile = ret.archive
                                  /\ row[r].remote = "uploaded"
                                  /\ r <= expired}
    <2>1. ret.step = "scanArchive" /\ UNCHANGED storeVars /\ RetLoad("archive", S, 0)
      BY <1>3 DEF RetScanArchive
    <2>2. \/ S = {} /\ ret' = RetMoveOn
          \/ /\ ret'.step = "archive" /\ ret'.todo = S
             /\ ret'.archive = ret.archive
             /\ ret'.dropped = ret.dropped /\ ret'.marked = ret.marked
             /\ \A r \in S : ret'.seen[r] = row[r]
      <3>1. S \subseteq Recordings
        BY <1>0
      <3> HIDE DEF S
      <3> QED
        BY <1>0, <2>1, <3>1, LoadEffect DEF RetSteps
    <2>3. S # {} => ret.archive \in Profiles
      BY <1>0 DEF RetTypeOK
    <2>4. S = {} => ret' = RetMoveOn
      BY <2>1 DEF RetLoad
    <2> QED
      BY <1>3, <2>1, <2>2, <2>3, <2>4
  <1>4. CASE RetScanDisk
    <2>1. PICK S \in SUBSET Live : RetLoad("disk", S, 0)
      BY <1>4 DEF RetScanDisk
    <2>2. ret.step = "scanDisk" /\ UNCHANGED storeVars
      BY <1>4 DEF RetScanDisk
    <2>3. \/ ret' = RetMoveOn
          \/ /\ ret'.step = "disk" /\ ret'.archive = ret.archive
             /\ ret'.dropped = ret.dropped /\ ret'.marked = ret.marked
      BY <1>0, <2>1, LoadEffect DEF RetSteps
    <2> QED
      BY <1>4, <2>2, <2>3
  <1>5. CASE RetCommit \/ RetRollback
    BY <1>5 DEF RetCommit, RetRollback
  <1> DEFINE Within == /\ ret.step \in {"local", "archive", "disk"}
                       /\ ret'.step = ret.step
                       /\ ret'.archive = ret.archive /\ ret'.mode = ret.mode
                       /\ ret'.seen = ret.seen /\ ret'.todo \subseteq ret.todo
                       /\ UNCHANGED <<row, profile, archive, saved, finalizing,
                                      aged, expired, locked, deleting, admin>>
             Same == ret'.dropped = ret.dropped /\ ret'.marked = ret.marked
  <1>6. ASSUME NEW r \in Recordings, NEW n, r \in ret.todo, Skip(r, n),
               ret.step \in {"local", "archive", "disk"}
        PROVE  Within /\ Same /\ UNCHANGED storeVars
    BY <1>0, <1>6 DEF Skip, storeVars, RetTypeOK
  <1>7. ASSUME NEW r \in Recordings, RetLeave(r) \/ RetCannotDelete(r) \/ RetSpare(r)
        PROVE  r \in ret.todo /\ Within /\ Same /\ UNCHANGED storeVars
    <2>1. r \in ret.todo /\ ret.step \in {"local", "disk"} /\ \E n : Skip(r, n)
      BY <1>7 DEF RetLeave, RetCannotDelete, RetSpare, RetAt, Oldest
    <2> QED
      BY <1>6, <2>1
  <1>8. ASSUME NEW r \in Recordings, RetMark(r)
        PROVE  /\ r \in ret.todo /\ Within
               /\ ret'.marked = ret.marked \cup {r} /\ ret'.dropped = ret.dropped
    BY <1>0, <1>8 DEF RetMark, RetAt, storeVars, RetTypeOK
  <1>9. ASSUME NEW r \in Recordings, RetDelete(r) \/ RetExpire(r) \/ RetReclaim(r)
        PROVE  /\ r \in ret.todo /\ Within
               /\ ret'.dropped = ret.dropped \cup {r} /\ ret'.marked = ret.marked
    <2>1. r \in ret.todo /\ ret.step \in {"local", "archive", "disk"} /\ Drop(r)
      BY <1>9 DEF RetDelete, RetExpire, RetReclaim, RetAt, Oldest
    <2> QED
      BY <1>0, <2>1 DEF Drop, RetTypeOK
  <1>10. ASSUME NEW r \in Recordings, RetExpireLater(r)
         PROVE  r \in ret.todo /\ Within /\ Same
    BY <1>0, <1>10 DEF RetExpireLater, Oldest, RetTypeOK
  <1>11. CASE RetEnough
    <2>1. PICK r : r \in ret.todo
      BY <1>11 DEF RetEnough
    <2>2. Within /\ Same /\ UNCHANGED storeVars
      BY <1>0, <1>11 DEF RetEnough, storeVars, RetTypeOK
    <2> QED
      BY <2>1, <2>2
  <1> QED
    <2>1. CASE RetBegin \/ RetScanLocal \/ RetScanArchive \/ RetScanDisk
               \/ RetCommit \/ RetRollback \/ RetEnough
      BY <1>1, <1>2, <1>3, <1>4, <1>5, <1>11, <2>1
    <2>2. ASSUME NEW r \in Recordings, RetLeave(r) \/ RetCannotDelete(r) \/ RetSpare(r)
          PROVE  r \in ret.todo /\ Within /\ Same /\ UNCHANGED storeVars
      BY <1>7, <2>2
    <2> QED
      BY <1>8, <1>9, <1>10, <2>1, <2>2 DEF RetStep

(* The pass changes the upload columns of a row when it commits its marks. *)
LEMMA RetentionRows ==
  ASSUME TypeOK, RetStep, NEW r \in Recordings
  PROVE  /\ row'[r].path = row[r].path
         /\ \/ row'[r].remote = row[r].remote /\ row'[r].profile = row[r].profile
            \/ /\ RetCommit /\ r \in ret.marked
               /\ row'[r].remote = "pending" /\ row'[r].profile = ret.archive
  <1>0. row[r] \in Rows
    BY DEF TypeOK, StoreTypeOK
  <1>1. CASE RetCommit
    <2>1. CASE r \in ret.dropped
      <3>1. row'[r] = [row[r] EXCEPT !.live = FALSE]
        BY <1>1, <2>1 DEF RetCommit
      <3> QED
        BY <1>0, <3>1 DEF Rows
    <2>2. CASE r \notin ret.dropped /\ r \in ret.marked
      <3>1. row'[r] = [row[r] EXCEPT !.remote = "pending", !.profile = ret.archive]
        BY <1>1, <2>2 DEF RetCommit
      <3> QED
        BY <1>0, <1>1, <2>2, <3>1 DEF Rows
    <2>3. CASE r \notin ret.dropped /\ r \notin ret.marked
      BY <1>1, <2>3 DEF RetCommit
    <2> QED
      BY <2>1, <2>2, <2>3
  <1>2. CASE UNCHANGED row
    BY <1>2
  <1> QED
    BY <1>1, <1>2 DEF RetStep, RetBegin, RetScanLocal, RetLeave, RetMark,
       RetDelete, RetCannotDelete, RetScanArchive, RetExpire, RetExpireLater,
       RetScanDisk, RetReclaim, RetSpare, RetEnough, RetRollback, Skip, Drop,
       storeVars

(* The store leaves the objects alone and moves the clock forward only.    *)
LEMMA StoreClock ==
  ASSUME TypeOK, FreshInv, StoreNext
  PROVE  /\ object' = object /\ aged <= aged' /\ expired <= expired'
         /\ FreshInv'
  <1>0. /\ saved \in Nat /\ aged \in 0..saved /\ expired \in 0..saved
        /\ finalizing \subseteq 1..saved
    BY StoreAssumption DEF TypeOK, StoreTypeOK
  <1>1. CASE SaveRecording
    BY <1>0, <1>1 DEF SaveRecording, FreshInv
  <1>2. CASE \/ \E r \in Recordings : QueueForProfile(r) \/ LeaveLocal(r)
             \/ \E r \in Recordings : DeleteFile(r) \/ DeleteRow(r)
             \/ AdminStep
    <2>1. /\ object' = object /\ aged' = aged /\ expired' = expired
          /\ finalizing' \subseteq finalizing
      BY <1>2 DEF QueueForProfile, LeaveLocal, DeleteFile, DeleteRow, AdminStep
    <2> QED
      BY <1>0, <2>1 DEF FreshInv
  <1>3. CASE Age
    BY <1>0, <1>3 DEF Age, FreshInv
  <1>4. CASE Expire
    BY <1>0, <1>4 DEF Expire, FreshInv
  <1> QED
    BY <1>1, <1>2, <1>3, <1>4 DEF StoreNext, PutArchive, UpdateProfile,
       LoseKey, DeleteProfile

(* Deleting the remote copy of an uploaded row, and being told it is gone. *)
LEMMA ExpireDeletes ==
  ASSUME TypeOK, NEW r \in Recordings, RetExpire(r),
         ret.seen[r].remote = "uploaded", ret.seen[r].profile \in Profiles
  PROVE  object'[ret.seen[r].profile][r] = "absent"
  BY StoreAssumption DEF RetExpire, DeleteRemoteCopy, TypeOK, StoreTypeOK

(* Recording, queueing and deleting by hand keep the invariant. *)
LEMMA StoreKeepsOrphanInv ==
  ASSUME IInv, OrphanInv, StoreStep
  PROVE  OrphanInv'
  <1>0. TypeOK /\ StoreTypeOK /\ StoreNext /\ UNCHANGED <<up, ret>>
    BY DEF IInv, TypeOK, StoreStep
  <1>1. HandQueued'
    BY <1>0, HandRecorded, StoreKeepsHands DEF OrphanInv
  <1>2. /\ object' = object /\ expired <= expired' /\ FreshInv'
        /\ expired \in 0..saved /\ saved \in Nat
        /\ expired' \in Int
    <2>1. /\ object' = object /\ expired <= expired' /\ FreshInv'
      BY <1>0, StoreClock DEF OrphanInv
    <2>2. StoreTypeOK'
      BY <1>0, StoreTypes
    <2> QED
      BY <1>0, <2>1, <2>2, StoreAssumption DEF StoreTypeOK
  <1>3. SessionInv'
    BY <1>0 DEF OrphanInv, SessionInv
  <1>4. ASSUME NEW r \in Recordings, r <= expired
        PROVE  row'[r].remote = row[r].remote /\ r <= expired'
    <2>1. r # saved + 1
      BY <1>2, <1>4 DEF Recordings
    <2>2. ~QueueForProfile(r)
      BY <1>2, <1>4 DEF QueueForProfile, OrphanInv, FreshInv, Recordings
    <2> QED
      BY <1>0, <1>2, <1>4, <2>1, <2>2, StoreRows DEF Recordings
  <1>5. ExpiryInv'
    <2>1. ret.todo \cup ret.dropped \subseteq Recordings
      BY <1>0 DEF TypeOK, RetTypeOK
    <2> QED
      BY <1>0, <1>2, <1>4, <2>1 DEF OrphanInv, ExpiryInv
  <1> QED
    BY <1>1, <1>2, <1>3, <1>5 DEF OrphanInv

(* The worker keeps it: a row that is uploaded is not in its hands.        *)
LEMMA UploadKeepsOrphanInv ==
  ASSUME IInv, OrphanInv, UploadStep
  PROVE  OrphanInv'
  <1>0. /\ TypeOK /\ StoreTypeOK /\ UpTypeOK /\ UpNext /\ ret' = ret /\ UpCurrent
    BY HandRecorded DEF IInv, TypeOK, UploadStep
  <1>1. HandQueued'
    BY <1>0, UploadKeepsHands DEF OrphanInv
  <1>2. UNCHANGED <<finalizing, aged, expired>>
    BY <1>0 DEF UpNext, UpSelect, UpGiveUp, UpOpen, UpTake, UpSent, UpSendFails,
       UpDropLocal, UpKeepLocal, UpCommit, UpRollback, storeVars
  <1>3. FreshInv' /\ SessionInv'
    BY <1>0, <1>2 DEF OrphanInv, FreshInv, SessionInv
  <1>4. ASSUME NEW r \in Recordings, row[r].remote = "uploaded"
        PROVE  /\ row'[r].remote = "uploaded"
               /\ \A p \in Profiles : object'[p][r] = object[p][r]
    <2>1. ~Hand(r)
      BY <1>4 DEF OrphanInv, HandQueued
    <2> QED
      BY <1>0, <1>4, <2>1, UploadRows, UploadObjects DEF Hand
  <1>5. ExpiryInv'
    <2>1. ret.todo \cup ret.dropped \subseteq Recordings
      BY <1>0 DEF TypeOK, RetTypeOK
    <2> QED
      BY <1>0, <1>2, <1>4, <2>1 DEF OrphanInv, ExpiryInv
  <1> QED
    BY <1>1, <1>3, <1>5 DEF OrphanInv

(* The pass keeps it: archive retention drops what it has deleted.         *)
LEMMA RetentionKeepsOrphanInv ==
  ASSUME IInv, OrphanInv, RetentionStep
  PROVE  OrphanInv'
  <1>0. /\ TypeOK /\ RetStep /\ up' = up /\ StoreTypeOK
    BY DEF IInv, TypeOK, RetentionStep
  <1>1. HandQueued'
    BY <1>0, RetentionRows DEF OrphanInv, HandQueued, Hand
  <1>2. UNCHANGED <<finalizing, aged, expired>>
    BY <1>0 DEF RetStep, RetBegin, RetScanLocal, RetLeave, RetMark, RetDelete,
       RetCannotDelete, RetScanArchive, RetExpire, RetExpireLater, RetScanDisk,
       RetReclaim, RetSpare, RetEnough, RetRollback, RetCommit, Skip, Drop, storeVars
  <1>3. FreshInv'
    BY <1>2 DEF OrphanInv, FreshInv
  <1>4. \A r \in Recordings : RetMark(r) => ret.step = "local"
    BY DEF RetMark, RetAt
  <1>5. SessionInv'
    <2>0. SessionInv /\ \A r \in ret.todo : r \in Recordings
      BY <1>0 DEF OrphanInv, TypeOK, RetTypeOK
    <2>1. CASE ret'.dropped = {} /\ ret'.marked = {}
      BY <2>1 DEF SessionInv
    <2>2. CASE /\ ret'.step \in {"local", "archive", "disk"}
               /\ ret'.marked = ret.marked
               /\ ret.step = "local" => ret'.step = "local"
      BY <2>0, <2>2 DEF SessionInv
    <2>3. CASE ret'.step = "local"
      BY <2>3 DEF SessionInv
    <2>4. RetScanArchive \/ RetScanDisk => ret.step # "local"
      BY DEF RetScanArchive, RetScanDisk
    <2> QED
      BY <1>0, <1>4, <2>0, <2>1, <2>2, <2>3, <2>4, RetentionSession, MoveOnEffect
  <1>6. ExpiryInv'
    <2>0. /\ SessionInv /\ ExpiryInv /\ ret.todo \cup ret.dropped \subseteq Recordings
          /\ RetInv /\ StoreInv /\ UpInv
      BY <1>0 DEF OrphanInv, TypeOK, RetTypeOK, IInv
    <2>1. CASE ret'.step # "archive"
      BY <2>1 DEF ExpiryInv
    <2>2. CASE RetScanArchive /\ ret'.step = "archive"
      <3>1. /\ ret'.archive = ret.archive /\ ret.archive \in Profiles
            /\ \A r \in ret'.todo : /\ ret'.seen[r] = row[r] /\ r <= expired
                                    /\ row[r].remote = "uploaded"
                                    /\ row[r].profile = ret.archive
            /\ ret'.dropped = ret.dropped /\ UNCHANGED storeVars
        BY <1>0, <2>2, RetentionSession, MoveOnEffect
           DEF RetScanArchive, RetBegin, RetScanLocal, RetScanDisk
      <3>2. ret.dropped = {}
        BY <2>0, <2>2 DEF RetScanArchive, SessionInv
      <3> QED
        BY <1>2, <3>1, <3>2 DEF ExpiryInv, storeVars
    <2>3. CASE ret.step = "archive" /\ ret'.step = "archive"
      <3>1. /\ ret'.archive = ret.archive /\ ret'.seen = ret.seen
            /\ ret'.todo \subseteq ret.todo /\ UNCHANGED <<row, expired>>
            /\ \E r \in ret.todo : \/ RetExpire(r) /\ ret'.dropped = ret.dropped \cup {r}
                                   \/ ret'.dropped = ret.dropped
        BY <1>0, <2>3, RetentionSession, MoveOnEffect
           DEF RetScanArchive, RetBegin, RetScanLocal, RetScanDisk, RetDelete,
               RetReclaim, RetAt
      <3>2. \A p \in Profiles : \A r \in Recordings :
              object'[p][r] \in {object[p][r], "absent"}
        BY <1>0, <2>0, RetentionEffects DEF AddsNoFootage, IInv
      <3>3. ASSUME NEW r \in ret.todo, RetExpire(r)
            PROVE  object'[ret.archive][r] = "absent"
        BY <1>0, <2>0, <2>3, <3>3, ExpireDeletes DEF ExpiryInv
      <3>4. \A r \in ret'.dropped : object'[ret.archive][r] = "absent"
        BY <2>0, <2>3, <3>1, <3>2, <3>3 DEF ExpiryInv
      <3>5. ret'.dropped \subseteq ret.dropped \cup ret.todo
        BY <3>1
      <3> QED
        BY <2>0, <2>3, <3>1, <3>4, <3>5 DEF ExpiryInv
    <2> QED
      BY <1>0, <2>1, <2>2, <2>3, RetentionSession, MoveOnEffect
  <1> QED
    BY <1>1, <1>3, <1>5, <1>6 DEF OrphanInv

(* Every step keeps the invariant. *)
LEMMA NextOrphanInv == IInv /\ OrphanInv /\ [Next]_vars => OrphanInv'
  <1> SUFFICES ASSUME IInv, OrphanInv, [Next]_vars PROVE OrphanInv'
    OBVIOUS
  <1>1. CASE Crash
    <2>1. /\ UNCHANGED <<row, object, aged, expired>> /\ finalizing' = {}
          /\ up' = UpIdle /\ ret' = RetIdle
      BY <1>1 DEF Crash
    <2>2. HandQueued'
      BY <2>1 DEF HandQueued, Hand, UpIdle
    <2>3. FreshInv' /\ SessionInv' /\ ExpiryInv'
      BY <2>1 DEF FreshInv, SessionInv, ExpiryInv, RetIdle
    <2> QED
      BY <2>2, <2>3 DEF OrphanInv
  <1>2. CASE ShelterStep \/ UNCHANGED vars
    <2>1. UNCHANGED <<storeVars, up, ret>>
      BY <1>2 DEF ShelterStep, Shelter, vars
    <2> QED
      BY <2>1 DEF OrphanInv, HandQueued, Hand, FreshInv, SessionInv, ExpiryInv, storeVars
  <1> QED
    BY <1>1, <1>2, StoreKeepsOrphanInv, UploadKeepsOrphanInv,
       RetentionKeepsOrphanInv DEF Next

(* The invariant holds initially.                                          *)
LEMMA InitOrphanInv == Init => OrphanInv
  BY DEF Init, StoreInit, OrphanInv, HandQueued, Hand, FreshInv, SessionInv,
         ExpiryInv, UpIdle, RetIdle

(* What archive retention is about to drop has lost its object.            *)
THEOREM ExpiredLeavesNoOrphan == Spec => []ExpiryLeavesNoOrphan
  <1>1. OrphanInv => ExpiryLeavesNoOrphan
    BY DEF OrphanInv, ExpiryInv, ExpiryLeavesNoOrphan
  <1> QED
    BY <1>1, InitOrphanInv, NextOrphanInv, IInvHolds, PTL DEF Spec

-----------------------------------------------------------------------------
(* An uploaded row names the profile of its object                         *)

(* Nobody moves a recording that the camera queues: the camera has no      *)
(* profile, or local retention takes old recordings only.                  *)
Unmoved == CameraProfile = NoProfile \/ "size" \notin RetentionModes

(* The worker's copy of a queued row names the profile of the row; what it *)
(* is about to commit as uploaded is there.                                *)
ProfileInv ==
  /\ \A r \in Recordings : Hand(r) => up.seen[r].profile = row[r].profile
  /\ \A r \in up.dirty : up.seen[r].remote = "uploaded" /\ r \notin condemned
       => /\ up.seen[r].profile \in Profiles
          /\ object[up.seen[r].profile][r] \in Footage

(* A segment that the camera may yet queue is not queued; what local       *)
(* retention marks, or is free to mark, is not queued either.              *)
LocalInv ==
  /\ CameraProfile # NoProfile
       => /\ \A r \in finalizing : row[r].remote = "null"
          /\ ret.step \in {"scanLocal", "local"} => ret.mode = "time"
          /\ ret.step = "local" => \A r \in ret.todo \cup ret.marked : r <= aged
  /\ \A r \in ret.marked : row[r].remote = "null"
  /\ ret.step = "local"
       => \A r \in ret.todo : ret.seen[r].remote = "null" => row[r].remote = "null"

(* UploadedHasObject for every row, listed or not.                         *)
ObjectInv ==
  \A r \in Recordings : row[r].remote = "uploaded" /\ r \notin condemned
    => /\ row[r].profile \in Profiles
       /\ object[row[r].profile][r] \in Footage

MoveInv == ProfileInv /\ LocalInv /\ ObjectInv

(* The store adds to the condemned and keeps the objects; a segment waits  *)
(* for its target until it gets one.                                       *)
LEMMA StoreWaits ==
  ASSUME IInv, StoreNext
  PROVE  /\ condemned \subseteq condemned'
         /\ \A r \in finalizing' : \/ r \in finalizing /\ ~QueueForProfile(r)
                                   \/ SaveRecording /\ r = saved + 1
  <1>1. condemned \subseteq condemned'
    BY SaveEffects, OtherStoreEffects DEF IInv, Quiet
  <1>2. CASE SaveRecording
    BY <1>1, <1>2 DEF SaveRecording, QueueForProfile
  <1>3. CASE ~SaveRecording
    <2>1. \A r \in Recordings : QueueForProfile(r) => finalizing' = finalizing \ {r}
      BY DEF QueueForProfile
    <2>2. finalizing' \subseteq finalizing
      BY <1>3 DEF StoreNext, QueueForProfile, LeaveLocal, Age, Expire,
         DeleteFile, DeleteRow, PutArchive, UpdateProfile, LoseKey,
         DeleteProfile, AdminStep
    <2>3. finalizing \subseteq Recordings
      BY StoreAssumption DEF IInv, TypeOK, StoreTypeOK, Recordings
    <2> QED
      BY <1>1, <2>1, <2>2, <2>3
  <1> QED
    BY <1>2, <1>3

(* Recording, queueing and deleting by hand keep the invariant. *)
LEMMA StoreKeepsMoveInv ==
  ASSUME IInv, OrphanInv, MoveInv, StoreStep
  PROVE  MoveInv'
  <1>0. /\ TypeOK /\ StoreTypeOK /\ StoreNext /\ up' = up /\ ret' = ret
        /\ saved \in Nat /\ aged \in 0..saved /\ finalizing \subseteq Recordings
        /\ ret.todo \cup ret.marked \subseteq Recordings
        /\ up.dirty \subseteq Recordings
    BY StoreAssumption
       DEF IInv, TypeOK, StoreStep, StoreTypeOK, RetTypeOK, UpTypeOK, Recordings
  <1>1. object' = object /\ aged <= aged' /\ condemned \subseteq condemned'
    BY <1>0, StoreClock, StoreWaits DEF OrphanInv
  <1>2. ASSUME NEW r \in Recordings
        PROVE  \/ /\ row'[r].remote = row[r].remote
                  /\ row'[r].profile = row[r].profile
               \/ r = saved + 1 /\ row'[r].remote = "null"
               \/ /\ CameraProfile # NoProfile /\ r \in finalizing /\ r > aged
                  /\ row[r].remote = "null" /\ row'[r].remote = "pending"
                  /\ QueueForProfile(r)
    BY <1>0, StoreRows DEF QueueForProfile, MoveInv, LocalInv, OrphanInv, FreshInv, NewRow
  <1>3. ProfileInv'
    <2>1. ASSUME NEW r \in Recordings, Hand(r)
          PROVE  up.seen[r].profile = row'[r].profile
      <3>1. r <= saved /\ row[r].remote # "null" /\ up.seen[r].profile = row[r].profile
        BY <2>1, HandRecorded DEF OrphanInv, HandQueued, MoveInv, ProfileInv
      <3>2. r # saved + 1
        BY <1>0, <3>1 DEF Recordings
      <3> QED
        BY <1>2, <3>1, <3>2
    <2> QED
      BY <1>0, <1>1, <2>1 DEF MoveInv, ProfileInv, Hand
  <1>4. LocalInv'
    <2>1. ASSUME CameraProfile # NoProfile, NEW r \in finalizing'
          PROVE  row'[r].remote = "null"
      <3>1. CASE r \in finalizing /\ ~QueueForProfile(r)
        BY <1>0, <1>2, <2>1, <3>1 DEF MoveInv, LocalInv
      <3>2. CASE SaveRecording /\ r = saved + 1
        <4>1. saved + 1 \in Recordings /\ row' = [row EXCEPT ![saved + 1] = NewRow]
          BY <1>0, <3>2, StoreAssumption DEF SaveRecording, Recordings
        <4> QED
          BY <1>0, <3>2, <4>1 DEF NewRow, StoreTypeOK
      <3> QED
        BY <1>0, <3>1, <3>2, StoreWaits
    <2>2. ASSUME NEW r \in Recordings, ret.step = "local",
                 r \in ret.todo \cup ret.marked, row[r].remote = "null"
          PROVE  row'[r].remote = "null"
      <3>1. CameraProfile # NoProfile => r <= aged
        BY <2>2 DEF MoveInv, LocalInv
      <3>2. ~(CameraProfile # NoProfile /\ r > aged)
        BY <1>0, <3>1 DEF Recordings
      <3> QED
        BY <1>2, <2>2, <3>2
    <2>3. CameraProfile # NoProfile
            => /\ ret.step \in {"scanLocal", "local"} => ret.mode = "time"
               /\ ret.step = "local" => \A r \in ret.todo \cup ret.marked : r <= aged'
      <3>1. StoreTypeOK'
        BY <1>0, StoreTypes
      <3>2. aged' \in Int
        BY <3>1 DEF StoreTypeOK
      <3> QED
        BY <1>0, <1>1, <3>2 DEF MoveInv, LocalInv, Recordings
    <2>4. \A r \in ret.marked : ret.step = "local" /\ row[r].remote = "null"
      BY DEF OrphanInv, SessionInv, MoveInv, LocalInv
    <2> QED
      BY <1>0, <2>1, <2>2, <2>3, <2>4 DEF MoveInv, LocalInv
  <1>5. ObjectInv'
    BY <1>1, <1>2 DEF MoveInv, ObjectInv
  <1> QED
    BY <1>3, <1>4, <1>5 DEF MoveInv

(* So does the worker: it commits as uploaded only what it has sent.       *)
LEMMA UploadKeepsMoveInv ==
  ASSUME IInv, OrphanInv, MoveInv, UploadStep
  PROVE  MoveInv'
  <1>a. UpCurrent
    BY HandRecorded
  <1>b. /\ TypeOK /\ StoreTypeOK /\ UpTypeOK /\ RetTypeOK /\ UpNext /\ ret' = ret
    BY DEF IInv, TypeOK, UploadStep
  <1>0. /\ TypeOK /\ StoreTypeOK /\ UpTypeOK /\ UpNext /\ ret' = ret /\ UpCurrent
        /\ finalizing \subseteq Recordings
        /\ ret.todo \cup ret.marked \subseteq Recordings
    BY <1>a, <1>b, StoreAssumption DEF StoreTypeOK, RetTypeOK, Recordings
  <1>1. condemned' = condemned
    BY <1>0, UploadCopies DEF IInv
  <1>2. UNCHANGED <<finalizing, aged>>
    BY <1>0 DEF UpNext, UpSelect, UpGiveUp, UpOpen, UpTake, UpSent, UpSendFails,
       UpDropLocal, UpKeepLocal, UpCommit, UpRollback, storeVars
  <1>3. \A r \in Recordings : row[r].remote = "null" => row'[r].remote = "null"
    BY <1>0, UploadRows DEF OrphanInv, HandQueued, Hand
  <1>4. LocalInv'
    BY <1>0, <1>2, <1>3 DEF MoveInv, LocalInv
  <1>5. ASSUME NEW r \in Recordings, Hand(r)'
        PROVE  up'.seen[r].profile = row'[r].profile
    <2>1. CASE /\ Hand(r) /\ row'[r] = row[r]
               /\ up'.seen[r].profile = up.seen[r].profile
      BY <2>1 DEF MoveInv, ProfileInv
    <2>2. CASE row'[r] = row[r] /\ up'.seen[r] = row[r]
      BY <2>2
    <2> QED
      BY <1>0, <1>5, <2>1, <2>2, UploadHands
  <1>6. ASSUME NEW r \in up'.dirty, up'.seen[r].remote = "uploaded", r \notin condemned
        PROVE  /\ up'.seen[r].profile \in Profiles
               /\ object'[up'.seen[r].profile][r] \in Footage
    <2>0. r \in Recordings
      BY <1>0, UploadTypes DEF UpTypeOK
    <2>1. CASE /\ r \in up.dirty /\ up'.seen[r] = up.seen[r]
               /\ \A p \in Profiles : object'[p][r] = object[p][r]
      BY <1>6, <2>1 DEF MoveInv, ProfileInv
    <2>2. CASE /\ up.stage = "sending" /\ up.cur = r
               /\ up'.seen[r].profile = up.seen[r].profile
               /\ object'[up.seen[r].profile][r] = up.content
      BY <2>2 DEF IInv, UpInv
    <2> QED
      BY <1>0, <1>6, <2>0, <2>1, <2>2, UploadDirty
  <1>7. ProfileInv'
    BY <1>1, <1>5, <1>6 DEF ProfileInv
  <1>8. ASSUME NEW r \in Recordings, row'[r].remote = "uploaded", r \notin condemned
        PROVE  /\ row'[r].profile \in Profiles
               /\ object'[row'[r].profile][r] \in Footage
    <2>0. row'[r].profile = row[r].profile
      BY <1>0, UploadRows
    <2>1. CASE row[r].remote = "uploaded"
      <3>1. ~Hand(r)
        BY <2>1 DEF OrphanInv, HandQueued
      <3>2. \A p \in Profiles : object'[p][r] = object[p][r]
        BY <1>0, <3>1, UploadObjects DEF Hand
      <3> QED
        BY <1>8, <2>0, <2>1, <3>2 DEF MoveInv, ObjectInv
    <2>2. CASE UpCommit /\ r \in up.dirty /\ row'[r].remote = up.seen[r].remote
      <3>1. object' = object
        BY <2>2 DEF UpCommit
      <3> QED
        BY <1>8, <2>0, <2>2, <3>1 DEF MoveInv, ProfileInv, Hand
    <2> QED
      BY <1>0, <1>8, <2>1, <2>2, UploadRows
  <1>9. ObjectInv'
    BY <1>1, <1>8 DEF ObjectInv
  <1> QED
    BY <1>4, <1>7, <1>9 DEF MoveInv

(* So does the pass: what it marks, the camera cannot queue.               *)
LEMMA RetentionKeepsMoveInv ==
  ASSUME IInv, OrphanInv, MoveInv, Unmoved, RetentionStep
  PROVE  MoveInv'
  <1>0. /\ TypeOK /\ RetStep /\ up' = up /\ StoreTypeOK
        /\ finalizing \subseteq Recordings /\ aged \in Nat
        /\ ret.todo \cup ret.marked \subseteq Recordings
        /\ up.dirty \subseteq Recordings
    BY StoreAssumption
       DEF IInv, TypeOK, RetentionStep, StoreTypeOK, RetTypeOK, UpTypeOK, Recordings
  <1>1. KeepsFootage /\ condemned \subseteq condemned'
    BY <1>0, RetentionEffects DEF IInv, Quiet
  <1>2. UNCHANGED <<finalizing, aged, expired>>
    BY <1>0 DEF RetStep, RetBegin, RetScanLocal, RetLeave, RetMark, RetDelete,
       RetCannotDelete, RetScanArchive, RetExpire, RetExpireLater, RetScanDisk,
       RetReclaim, RetSpare, RetEnough, RetRollback, RetCommit, Skip, Drop, storeVars
  <1>3. \A r \in ret.marked : /\ ret.step = "local" /\ row[r].remote = "null"
                              /\ CameraProfile # NoProfile => r <= aged
    BY DEF OrphanInv, SessionInv, MoveInv, LocalInv
  <1>4. ASSUME NEW r \in Recordings
        PROVE  \/ row'[r].remote = row[r].remote /\ row'[r].profile = row[r].profile
               \/ /\ RetCommit /\ r \in ret.marked /\ row'[r].remote = "pending"
    BY <1>0, RetentionRows
  <1>5. ProfileInv'
    <2>1. \A r \in Recordings : Hand(r) => up.seen[r].profile = row'[r].profile
      BY <1>3, <1>4 DEF OrphanInv, HandQueued, MoveInv, ProfileInv
    <2> QED
      BY <1>0, <1>1, <2>1 DEF MoveInv, ProfileInv, Hand, KeepsFootage
  <1>6. ObjectInv'
    BY <1>1, <1>4 DEF MoveInv, ObjectInv, KeepsFootage
  <1>7. CameraProfile # NoProfile => \A r \in finalizing : row'[r].remote = "null"
    <2>1. \A r \in finalizing : ~(r <= aged)
      BY <1>0 DEF OrphanInv, FreshInv, Recordings
    <2> QED
      BY <1>0, <1>3, <1>4, <2>1 DEF MoveInv, LocalInv
  <1> DEFINE Rest ==
         /\ CameraProfile # NoProfile
              => /\ ret'.step \in {"scanLocal", "local"} => ret'.mode = "time"
                 /\ ret'.step = "local"
                      => \A r \in ret'.todo \cup ret'.marked : r <= aged
         /\ \A r \in ret'.marked : row'[r].remote = "null"
         /\ ret'.step = "local"
              => \A r \in ret'.todo :
                   ret'.seen[r].remote = "null" => row'[r].remote = "null"
  <1>8. Rest
    <2>1. CASE /\ ret'.step \in {"scanLocal", "scanArchive"}
               /\ ret'.marked = {}
               /\ ret'.step = "scanLocal"
                    => ret'.mode \in RetentionModes /\ ret'.mode # "none"
      BY <2>1, RetentionAssumption DEF Unmoved, Modes
    <2>2. CASE ret' = RetMoveOn
      BY <2>2, MoveOnEffect
    <2>3. CASE /\ RetScanLocal /\ ret'.step = "local" /\ ret'.mode = ret.mode
               /\ \A r \in ret'.todo : ret'.seen[r] = row[r]
               /\ ret.mode = "time" => \A r \in ret'.todo : r <= aged
               /\ ret'.marked = ret.marked /\ UNCHANGED storeVars
      <3>1. ret.step = "scanLocal" /\ ret'.marked = {} /\ row' = row
        BY <2>3 DEF RetScanLocal, OrphanInv, SessionInv, storeVars
      <3> QED
        BY <2>3, <3>1 DEF MoveInv, LocalInv
    <2>4. CASE /\ RetScanArchive \/ RetScanDisk
               /\ ret'.step \in {"archive", "disk"} /\ ret'.marked = ret.marked
      <3>1. ret'.marked = {}
        BY <2>4 DEF RetScanArchive, RetScanDisk, OrphanInv, SessionInv
      <3> QED
        BY <2>4, <3>1
    <2>5. CASE /\ ret'.step = ret.step /\ ret'.mode = ret.mode
               /\ ret.step \in {"local", "archive", "disk"}
               /\ ret'.seen = ret.seen /\ ret'.todo \subseteq ret.todo
               /\ \E r \in ret.todo : \/ RetMark(r) /\ ret'.marked = ret.marked \cup {r}
                                      \/ ret'.marked = ret.marked
               /\ row' = row
      <3>1. PICK r \in ret.todo : \/ RetMark(r) /\ ret'.marked = ret.marked \cup {r}
                                  \/ ret'.marked = ret.marked
        BY <2>5
      <3>2. RetMark(r) => ret.step = "local" /\ ret.seen[r].remote = "null"
        BY DEF RetMark, RetAt
      <3>3. RetMark(r) => row[r].remote = "null"
        BY <3>2 DEF MoveInv, LocalInv
      <3> QED
        BY <2>5, <3>1, <3>3 DEF MoveInv, LocalInv
    <2> HIDE DEF Rest
    <2> QED
      BY <1>0, <2>1, <2>2, <2>3, <2>4, <2>5, RetentionSession
  <1>9. LocalInv'
    BY <1>2, <1>7, <1>8 DEF LocalInv
  <1> QED
    BY <1>5, <1>6, <1>9 DEF MoveInv

(* Every step keeps the invariant. *)
LEMMA NextMoveInv == Unmoved /\ IInv /\ OrphanInv /\ MoveInv /\ [Next]_vars => MoveInv'
  <1> SUFFICES ASSUME Unmoved, IInv, OrphanInv, MoveInv, [Next]_vars PROVE MoveInv'
    OBVIOUS
  <1>1. CASE Crash
    <2>1. /\ UNCHANGED <<row, object, condemned>> /\ finalizing' = {}
          /\ up' = UpIdle /\ ret' = RetIdle
      BY <1>1 DEF Crash
    <2>2. ProfileInv'
      BY <2>1 DEF ProfileInv, Hand, UpIdle
    <2>3. LocalInv' /\ ObjectInv'
      BY <2>1 DEF LocalInv, MoveInv, ObjectInv, RetIdle
    <2> QED
      BY <2>2, <2>3 DEF MoveInv
  <1>2. CASE ShelterStep \/ UNCHANGED vars
    <2>1. UNCHANGED <<storeVars, up, ret>>
      BY <1>2 DEF ShelterStep, Shelter, vars
    <2> QED
      BY <2>1 DEF MoveInv, ProfileInv, Hand, LocalInv, ObjectInv, storeVars
  <1> QED
    BY <1>1, <1>2, StoreKeepsMoveInv, UploadKeepsMoveInv, RetentionKeepsMoveInv DEF Next

(* The invariant holds initially.                                          *)
LEMMA InitMoveInv == Init => MoveInv
  BY DEF Init, StoreInit, MoveInv, ProfileInv, Hand, LocalInv, ObjectInv,
         UpIdle, RetIdle, NoRow, NewRow

(* As long as nobody moves a queued recording, a row that says "uploaded"  *)
(* names the profile where its footage is: the worker writes the state     *)
(* and the route the profile, and neither is ever ahead of the object.     *)
THEOREM UploadedIsThere == Unmoved => (Spec => []UploadedHasObject)
  <1> SUFFICES ASSUME Unmoved PROVE Spec => []UploadedHasObject
    OBVIOUS
  <1>1. MoveInv => UploadedHasObject
    BY DEF MoveInv, ObjectInv, UploadedHasObject
  <1>2. IInv /\ OrphanInv /\ MoveInv /\ [Next]_vars => MoveInv'
    BY NextMoveInv
  <1> QED
    BY <1>1, <1>2, InitOrphanInv, NextOrphanInv, InitMoveInv, IInvHolds, PTL DEF Spec

-----------------------------------------------------------------------------
(* The archive's recordings are kept                                       *)

(* The settings stay as they are and can always be read.                   *)
Steady == MaxAdmin = 0 /\ ~SettingsFaults

(* A pass works for the configured archive; a queued segment that is not   *)
(* finalized yet was marked for it; what local retention may delete is not *)
(* the archive's and cannot become so.                                     *)
OwnerInv ==
  /\ \A p \in Profiles : profile[p] = "enabled"
  /\ ret.step # "idle" => ret.archive = archive
  /\ \A r \in finalizing : row[r].remote # "null" => row[r].profile = archive
  /\ ret.step = "local" /\ archive # NoProfile
       => /\ \A r \in ret.todo \cup ret.dropped :
               ret.seen[r].remote # "null" /\ ret.seen[r].profile # archive
                 => /\ r <= saved /\ r \notin finalizing
                    /\ row[r].profile # archive
          /\ \A r \in ret.dropped : /\ ret.seen[r].remote # "null"
                                    /\ ret.seen[r].profile # archive

(* Enabled profiles make the setting the destination. *)
LEMMA TargetIsArchive ==
  ASSUME TypeOK, \A p \in Profiles : profile[p] = "enabled"
  PROVE  ArchiveTarget = archive
  BY DEF TypeOK, StoreTypeOK, ArchiveTarget

(* Without admin changes the settings stay. *)
LEMMA SettingsStay ==
  ASSUME TypeOK, Steady, [Next]_vars
  PROVE  UNCHANGED <<profile, archive>>
  <1>1. ~(admin < MaxAdmin)
    BY DEF TypeOK, StoreTypeOK, Steady
  <1>2. CASE StoreNext
    BY <1>1, <1>2 DEF StoreNext, SaveRecording, QueueForProfile, LeaveLocal, Age,
       Expire, DeleteFile, DeleteRow, PutArchive, UpdateProfile, LoseKey,
       DeleteProfile, AdminStep
  <1>3. CASE UpNext
    BY <1>3 DEF UpNext, UpSelect, UpGiveUp, UpOpen, UpSent, UpSendFails,
       UpDropLocal, UpKeepLocal, UpCommit, UpRollback, storeVars
  <1>4. CASE RetStep
    BY <1>4 DEF RetStep, RetBegin, RetScanLocal, RetLeave, RetMark, RetDelete,
       RetCannotDelete, RetScanArchive, RetExpire, RetExpireLater, RetScanDisk,
       RetReclaim, RetSpare, RetEnough, RetRollback, RetCommit, Skip, Drop, storeVars
  <1> QED
    BY <1>2, <1>3, <1>4 DEF Next, StoreStep, UploadStep, RetentionStep,
       ShelterStep, Shelter, Crash, vars, storeVars

(* Recording, queueing and deleting by hand keep the invariant. *)
LEMMA StoreKeepsOwnerInv ==
  ASSUME IInv, OrphanInv, OwnerInv, StoreStep, UNCHANGED <<profile, archive>>
  PROVE  OwnerInv'
  <1>0. /\ TypeOK /\ StoreTypeOK /\ StoreNext /\ ret' = ret
        /\ saved \in Nat /\ finalizing \subseteq Recordings
        /\ ret.todo \cup ret.dropped \subseteq Recordings
    BY StoreAssumption
       DEF IInv, TypeOK, StoreStep, StoreTypeOK, RetTypeOK, Recordings
  <1>1. saved' \in Nat /\ saved <= saved'
    <2>1. CASE SaveRecording
      BY <1>0, <2>1 DEF SaveRecording
    <2>2. CASE ~SaveRecording
      <3>1. StoreNext
        BY DEF StoreStep
      <3>2. saved' = saved
        BY <2>2, <3>1 DEF StoreNext, QueueForProfile, LeaveLocal, Age, Expire,
           DeleteFile, DeleteRow, PutArchive, UpdateProfile, LoseKey,
           DeleteProfile, AdminStep
      <3> QED
        BY <1>0, <3>2
    <2> QED
      BY <2>1, <2>2
  <1>2. ASSUME NEW r \in finalizing', row'[r].remote # "null"
        PROVE  row'[r].profile = archive
    <2>1. CASE r \in finalizing /\ ~QueueForProfile(r)
      <3>1. r # saved + 1
        BY <1>0, <2>1 DEF StoreTypeOK
      <3> QED
        BY <1>0, <1>2, <2>1, <3>1, StoreRows DEF OwnerInv
    <2>2. CASE SaveRecording /\ r = saved + 1
      <3>1. saved + 1 \in Recordings /\ row' = [row EXCEPT ![saved + 1] = NewRow]
        BY <1>0, <2>2, StoreAssumption DEF SaveRecording, Recordings
      <3> QED
        BY <1>0, <1>2, <2>2, <3>1 DEF NewRow, StoreTypeOK
    <2> QED
      BY <1>0, <2>1, <2>2, StoreWaits
  <1>3. ASSUME NEW r \in Recordings, r <= saved, r \notin finalizing,
               row[r].profile # archive
        PROVE  r <= saved' /\ r \notin finalizing' /\ row'[r].profile # archive
    <2>1. r # saved + 1 /\ r <= saved'
      BY <1>0, <1>1, <1>3 DEF Recordings
    <2>2. ~QueueForProfile(r)
      BY <1>3 DEF QueueForProfile
    <2>3. r \notin finalizing'
      BY <1>0, <1>3, <2>1, StoreWaits
    <2> QED
      BY <1>0, <1>3, <2>1, <2>2, <2>3, StoreRows
  <1> QED
    BY <1>0, <1>2, <1>3 DEF OwnerInv

(* The worker never writes the profile of a row. *)
LEMMA UploadKeepsOwnerInv ==
  ASSUME IInv, OrphanInv, OwnerInv, UploadStep, UNCHANGED <<profile, archive>>
  PROVE  OwnerInv'
  <1>0. /\ TypeOK /\ StoreTypeOK /\ UpNext /\ ret' = ret
        /\ finalizing \subseteq Recordings
        /\ ret.todo \cup ret.dropped \subseteq Recordings
    BY StoreAssumption
       DEF IInv, TypeOK, UploadStep, StoreTypeOK, RetTypeOK, Recordings
  <1>1. UNCHANGED <<finalizing, saved>>
    BY <1>0 DEF UpNext, UpSelect, UpGiveUp, UpOpen, UpTake, UpSent, UpSendFails,
       UpDropLocal, UpKeepLocal, UpCommit, UpRollback, storeVars
  <1>2. \A r \in Recordings : /\ row'[r].profile = row[r].profile
                              /\ row[r].remote = "null" => row'[r].remote = "null"
    BY <1>0, UploadRows DEF OrphanInv, HandQueued, Hand
  <1> QED
    BY <1>0, <1>1, <1>2 DEF OwnerInv

(* The pass keeps it: it marks for the archive and deletes what is not its. *)
LEMMA RetentionKeepsOwnerInv ==
  ASSUME IInv, OrphanInv, OwnerInv, Steady, RetentionStep,
         UNCHANGED <<profile, archive>>
  PROVE  OwnerInv'
  <1>0. /\ TypeOK /\ RetStep
        /\ finalizing \subseteq Recordings
        /\ ret.todo \cup ret.dropped \subseteq Recordings /\ saved \in Nat
        /\ archive \in Profiles \cup {NoProfile}
        /\ ArchiveTarget = archive /\ ~SettingsFaults
    <2>1. TypeOK /\ RetStep /\ ~SettingsFaults
      BY DEF IInv, RetentionStep, Steady
    <2>2. /\ ret.todo \cup ret.dropped \subseteq Recordings
          /\ archive \in Profiles \cup {NoProfile}
      BY <2>1 DEF TypeOK, StoreTypeOK, RetTypeOK
    <2>3. finalizing \subseteq Recordings /\ saved \in Nat
      BY <2>1, StoreAssumption DEF TypeOK, StoreTypeOK, Recordings
    <2>4. ArchiveTarget = archive
      BY <2>1, TargetIsArchive DEF OwnerInv
    <2> QED
      BY <2>1, <2>2, <2>3, <2>4
  <1>1. UNCHANGED <<finalizing, saved>>
    BY <1>0 DEF RetStep, RetBegin, RetScanLocal, RetLeave, RetMark, RetDelete,
       RetCannotDelete, RetScanArchive, RetExpire, RetExpireLater, RetScanDisk,
       RetReclaim, RetSpare, RetEnough, RetRollback, RetCommit, Skip, Drop, storeVars
  <1>2. ASSUME NEW r \in finalizing, row'[r].remote # "null"
        PROVE  row'[r].profile = archive
    <2>1. CASE row'[r].remote = row[r].remote /\ row'[r].profile = row[r].profile
      BY <1>2, <2>1 DEF OwnerInv
    <2>2. CASE RetCommit /\ row'[r].profile = ret.archive
      BY <2>2 DEF RetCommit, OwnerInv
    <2> QED
      BY <1>0, <2>1, <2>2, RetentionRows
  <1> DEFINE Rest ==
         /\ ret'.step # "idle" => ret'.archive = archive
         /\ ret'.step = "local" /\ archive # NoProfile
              => /\ \A r \in ret'.todo \cup ret'.dropped :
                      ret'.seen[r].remote # "null" /\ ret'.seen[r].profile # archive
                        => /\ r <= saved /\ r \notin finalizing
                           /\ row'[r].profile # archive
                 /\ \A r \in ret'.dropped : /\ ret'.seen[r].remote # "null"
                                            /\ ret'.seen[r].profile # archive
  <1>3. Rest
    <2>1. CASE /\ ret'.step \in {"scanLocal", "scanArchive"}
               /\ ~SettingsFaults => ret'.archive = ArchiveTarget
      BY <1>0, <2>1
    <2>2. CASE ret' = RetMoveOn /\ ret.step # "idle"
      BY <2>2, MoveOnEffect DEF OwnerInv
    <2>3. CASE /\ RetScanLocal /\ ret'.step = "local" /\ ret'.archive = ret.archive
               /\ ret'.todo \subseteq Live /\ \A r \in ret'.todo : ret'.seen[r] = row[r]
               /\ ret'.dropped = ret.dropped /\ UNCHANGED storeVars
      <3>1. /\ ret.step = "scanLocal" /\ ret'.dropped = {} /\ row' = row
            /\ ret'.archive = archive
        BY <2>3 DEF RetScanLocal, OrphanInv, SessionInv, storeVars, OwnerInv
      <3>2. \A r \in ret'.todo : r <= saved
        <4>1. Live \subseteq 1..saved /\ saved \in Nat
          BY <1>0 DEF IInv, StoreInv
        <4>2. ret'.todo \subseteq 1..saved
          BY <2>3, <4>1
        <4> QED
          BY <4>1, <4>2
      <3> QED
        BY <2>3, <3>1, <3>2 DEF OwnerInv
    <2>4. CASE /\ RetScanArchive \/ RetScanDisk
               /\ ret'.step \in {"archive", "disk"} /\ ret'.archive = ret.archive
      BY <2>4 DEF RetScanArchive, RetScanDisk, OwnerInv
    <2>5. CASE /\ ret'.step = ret.step /\ ret.step \in {"local", "archive", "disk"}
               /\ ret'.archive = ret.archive /\ ret'.seen = ret.seen
               /\ ret'.todo \subseteq ret.todo /\ row' = row
               /\ \E r \in ret.todo :
                    \/ /\ RetDelete(r) \/ RetExpire(r) \/ RetReclaim(r)
                       /\ ret'.dropped = ret.dropped \cup {r}
                    \/ ret'.dropped = ret.dropped
      <3>0. ret'.archive = archive
        BY <2>5 DEF OwnerInv
      <3>1. CASE ret.step = "local" /\ archive # NoProfile
        <4>1. PICK r \in ret.todo :
                \/ /\ RetDelete(r) \/ RetExpire(r) \/ RetReclaim(r)
                   /\ ret'.dropped = ret.dropped \cup {r}
                \/ ret'.dropped = ret.dropped
          BY <2>5
        <4>2. RetDelete(r) => /\ ret.seen[r].remote # "null"
                              /\ ret.seen[r].profile # archive
          BY <3>1 DEF RetDelete, MustDelete, Owns, OwnerInv
        <4>3. ~RetExpire(r) /\ ~RetReclaim(r)
          BY <3>1 DEF RetExpire, RetReclaim
        <4>4. \A s \in ret'.dropped : /\ ret.seen[s].remote # "null"
                                      /\ ret.seen[s].profile # archive
          BY <3>1, <4>1, <4>2, <4>3 DEF OwnerInv
        <4>5. ret'.todo \cup ret'.dropped \subseteq ret.todo \cup ret.dropped
          BY <2>5, <4>1
        <4> QED
          BY <2>5, <3>0, <3>1, <4>4, <4>5 DEF OwnerInv
      <3> QED
        BY <2>5, <3>0, <3>1
    <2> HIDE DEF Rest
    <2> QED
      BY <1>0, <2>1, <2>2, <2>3, <2>4, <2>5, RetentionSession
  <1> QED
    BY <1>1, <1>2, <1>3 DEF OwnerInv

(* Every step keeps the invariant. *)
LEMMA NextOwnerInv == Steady /\ IInv /\ OrphanInv /\ OwnerInv /\ [Next]_vars => OwnerInv'
  <1> SUFFICES ASSUME Steady, IInv, OrphanInv, OwnerInv, [Next]_vars PROVE OwnerInv'
    OBVIOUS
  <1>0. UNCHANGED <<profile, archive>>
    BY SettingsStay DEF IInv
  <1>1. CASE Crash
    BY <1>0, <1>1 DEF Crash, OwnerInv, RetIdle
  <1>2. CASE ShelterStep \/ UNCHANGED vars
    BY <1>2 DEF ShelterStep, Shelter, vars, OwnerInv, storeVars
  <1> QED
    BY <1>0, <1>1, <1>2, StoreKeepsOwnerInv, UploadKeepsOwnerInv,
       RetentionKeepsOwnerInv DEF Next

(* The invariant holds initially.                                          *)
LEMMA InitOwnerInv == Init => OwnerInv
  BY DEF Init, StoreInit, OwnerInv, RetIdle

(* While the settings stay as they are, local retention drops nothing that *)
(* the archive owns, although it works on rows it read before: a recording *)
(* it may delete went elsewhere, and nobody moves it to the archive.       *)
THEOREM ArchiveKeepsItsOwn == Steady => (Spec => []OwnedIsKept)
  <1> SUFFICES ASSUME Steady PROVE Spec => []OwnedIsKept
    OBVIOUS
  <1>1. IInv /\ OwnerInv => OwnedIsKept
    <2> SUFFICES ASSUME IInv, OwnerInv, ret.step = "local", NEW r \in ret.dropped,
                        archive # NoProfile
                 PROVE  ret.seen[r].profile # archive /\ row[r].profile # archive
      BY TargetIsArchive DEF IInv, OwnerInv, OwnedIsKept, Owns
    <2> QED
      BY DEF OwnerInv
  <1>2. IInv /\ OrphanInv /\ OwnerInv /\ [Next]_vars => OwnerInv'
    BY NextOwnerInv
  <1> QED
    BY <1>1, <1>2, InitOrphanInv, NextOrphanInv, InitOwnerInv, IInvHolds, PTL DEF Spec
=============================================================================
