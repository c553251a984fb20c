------------------------- MODULE RemoteUploadProofs -------------------------
(***************************************************************************)
(* What the proofs about RecordingArchive and RecordingBlur share: the     *)
(* store and the upload worker keep their types, what their steps do to    *)
(* rows and objects, and which recordings the worker has in hand.          *)
(***************************************************************************)
EXTENDS RemoteUpload, FiniteSetTheorems, TLAPS

(* A transfer under way is that of a recording with a profile.             *)
UpCurrent ==
  up.stage \in {"sending", "stored"}
    => up.cur \in Recordings /\ up.seen[up.cur].profile \in Profiles

(* The two initial rows are rows.                                          *)
LEMMA RowKinds == NewRow \in Rows /\ NoRow \in Rows
  <1>1. NewRow \in Rows
    BY DEF NewRow, Rows, Paths, RemoteStates
  <1> QED
    BY <1>1 DEF NoRow, NewRow, Rows

(* Sets of recordings are finite, so counting them makes sense.            *)
LEMMA RecordingsFinite ==
  \A S \in SUBSET Recordings : IsFiniteSet(S) /\ Cardinality(S) \in Nat
  <1>1. IsFiniteSet(Recordings)
    BY FS_Interval, StoreAssumption DEF Recordings
  <1> QED
    BY <1>1, FS_Subset, FS_CardinalityType

(* What the columns of a row hold. *)
LEMMA RowFields ==
  ASSUME NEW rec \in Rows
  PROVE  /\ rec.remote \in RemoteStates
         /\ rec.profile \in Profiles \cup {NoProfile}
         /\ rec.attempts \in Nat
         /\ rec.path \in Paths
         /\ [rec EXCEPT !.live = FALSE] \in Rows
  BY DEF Rows

(* Changing the upload columns of a row leaves a row. *)
LEMMA RowUpdates ==
  ASSUME NEW rec \in Rows, NEW st \in RemoteStates
  PROVE  /\ [rec EXCEPT !.remote = st] \in Rows
         /\ \A p \in Profiles \cup {NoProfile} :
              [rec EXCEPT !.remote = st, !.profile = p] \in Rows
         /\ \A n \in Nat :
              /\ [rec EXCEPT !.remote = st, !.attempts = n] \in Rows
              /\ [rec EXCEPT !.attempts = n, !.remote = st] \in Rows
  BY DEF Rows

(* The stream worker, the clock and the routes preserve the types.         *)
LEMMA StoreTypes ==
  ASSUME StoreTypeOK, StoreNext
  PROVE  StoreTypeOK'
  <1> USE StoreAssumption DEF StoreTypeOK, Recordings
  <1>1. CASE SaveRecording
    <2>1. row' \in [Recordings -> Rows]
      BY <1>1, RowKinds DEF SaveRecording
    <2>2. disk' \in [Recordings -> [Paths -> Content]]
      BY <1>1 DEF SaveRecording, Content
    <2> QED BY <1>1, <2>1, <2>2 DEF SaveRecording
  <1>2. ASSUME NEW r \in Recordings, QueueForProfile(r) PROVE StoreTypeOK'
    <2> DEFINE new == [row[r] EXCEPT !.remote = "pending",
                                    !.profile = CameraProfile]
    <2>a. new \in Rows
      BY RowFields, RowUpdates DEF RemoteStates
    <2>b. row' = [row EXCEPT ![r] = new]
      BY <1>2 DEF QueueForProfile
    <2>1. row' \in [Recordings -> Rows]
      BY <2>a, <2>b
    <2> QED BY <1>2, <2>1 DEF QueueForProfile
  <1>3. ASSUME NEW r \in Recordings, LeaveLocal(r) PROVE StoreTypeOK'
    BY <1>3 DEF LeaveLocal
  <1>4. CASE Age
    BY <1>4 DEF Age
  <1>5. CASE Expire
    BY <1>5 DEF Expire
  <1>6. ASSUME NEW r \in Recordings, DeleteFile(r) PROVE StoreTypeOK'
    <2>1. disk' \in [Recordings -> [Paths -> Content]]
      <3>1. CASE disk' = disk
        BY <3>1
      <3>2. CASE disk' = [disk EXCEPT ![r][row[r].path] = "absent"]
        <4>1. "absent" \in Content
          BY DEF Content
        <4>2. row[r].path \in Paths
          BY DEF Rows
        <4> HIDE DEF Recordings
        <4> QED BY <1>6, <3>2, <4>1, <4>2
      <3> QED BY <1>6, <3>1, <3>2 DEF DeleteFile
    <2> QED BY <1>6, <2>1 DEF DeleteFile
  <1>7. ASSUME NEW r \in Recordings, DeleteRow(r) PROVE StoreTypeOK'
    <2>1. row' \in [Recordings -> Rows]
      BY <1>7 DEF DeleteRow, Rows
    <2> QED BY <1>7, <2>1 DEF DeleteRow
  <1>8. ASSUME NEW p \in Profiles \cup {NoProfile}, PutArchive(p) PROVE StoreTypeOK'
    BY <1>8 DEF PutArchive, AdminStep
  <1>9. ASSUME NEW p \in Profiles, NEW s \in ProfileStates, UpdateProfile(p, s) PROVE StoreTypeOK'
    BY <1>9 DEF UpdateProfile, AdminStep
  <1>10. ASSUME NEW p \in Profiles, LoseKey(p) PROVE StoreTypeOK'
    BY <1>10 DEF LoseKey, AdminStep, ProfileStates
  <1>11. ASSUME NEW p \in Profiles, DeleteProfile(p) PROVE StoreTypeOK'
    BY <1>11 DEF DeleteProfile, AdminStep, ProfileStates
  <1> QED
    BY <1>1, <1>2, <1>3, <1>4, <1>5, <1>6, <1>7, <1>8, <1>9, <1>10, <1>11 DEF StoreNext

(* The upload worker preserves the types.                                  *)
LEMMA UploadTypes ==
  ASSUME StoreTypeOK, UpTypeOK, UpCurrent, UpNext
  PROVE  StoreTypeOK' /\ UpTypeOK'
  <1> USE StoreAssumption, UploadAssumption
      DEF StoreTypeOK, UpTypeOK, Recordings, NoOne
  <1>1. CASE UpSelect
    <2>1. [r \in Recordings |-> IF r \in OldestN(Queued, BatchSize)
                                THEN row[r] ELSE NoRow]
            \in [Recordings -> Rows]
      BY RowKinds
    <2>2. OldestN(Queued, BatchSize) \in SUBSET Recordings
      BY DEF OldestN, Queued, Live
    <2> QED
      BY <1>1, <2>1, <2>2 DEF UpSelect, UpIdle, storeVars, Content
  <1>2. ASSUME NEW r \in Recordings, UpGiveUp(r)
        PROVE  StoreTypeOK' /\ UpTypeOK'
    <2>1. [up.seen[r] EXCEPT !.remote = "failed"] \in Rows
      BY RowFields, RowUpdates DEF RemoteStates
    <2>2. [up.seen EXCEPT ![r].remote = "failed"] \in [Recordings -> Rows]
      BY <2>1
    <2> QED
      BY <1>2, <2>2 DEF UpGiveUp, UpTake
  <1>3. ASSUME NEW r \in Recordings, UpOpen(r)
        PROVE  StoreTypeOK' /\ UpTypeOK'
    <2>0. up.seen[r] \in Rows
      OBVIOUS
    <2>1. FileOf(r, up.seen[r]) \in Content
      BY <2>0 DEF FileOf, Rows
    <2> QED
      BY <1>3, <2>1 DEF UpOpen, UpTake
  <1>4. CASE UpSent
    <2> DEFINE r == up.cur
    <2>1. r \in Recordings
      BY <1>4 DEF UpSent, UpCurrent
    <2>2. [up.seen[r] EXCEPT !.remote = "uploaded"] \in Rows
      BY <2>1, RowFields, RowUpdates DEF RemoteStates
    <2>3. [up.seen EXCEPT ![r].remote = "uploaded"] \in [Recordings -> Rows]
      BY <2>2
    <2>4. object' \in [Profiles -> [Recordings -> Content]]
      BY <1>4 DEF UpSent
    <2> QED
      BY <1>4, <2>1, <2>3, <2>4 DEF UpSent
  <1>5. CASE UpSendFails
    <2> DEFINE r == up.cur
               n == up.seen[r].attempts + 1
               st == IF n >= AttemptCap THEN "failed" ELSE "pending"
               new == [up.seen[r] EXCEPT !.attempts = n, !.remote = st]
    <2>1. r \in Recordings /\ up.seen[r].profile \in Profiles
      BY <1>5 DEF UpSendFails, UpCurrent
    <2>2. up.seen[r] \in Rows
      BY <2>1
    <2>3. n \in Nat
      BY <2>2 DEF Rows
    <2>4. st \in RemoteStates
      BY DEF RemoteStates
    <2>5. new \in Rows
      BY <2>2, <2>3, <2>4, RowUpdates
    <2>6. object' \in [Profiles -> [Recordings -> Content]]
      <3>1. PICK c \in {object[up.seen[r].profile][r], "partial", up.content} :
              object' = [object EXCEPT ![up.seen[r].profile][r] = c]
        BY <1>5 DEF UpSendFails
      <3>2. c \in Content /\ object \in [Profiles -> [Recordings -> Content]]
        BY <2>1, <3>1 DEF Content
      <3>3. [object[up.seen[r].profile] EXCEPT ![r] = c] \in [Recordings -> Content]
        BY <2>1, <3>2
      <3> HIDE DEF r
      <3> QED
        BY <3>1, <3>2, <3>3
    <2>7. up' = [up EXCEPT !.stage = "next", !.cur = NoOne,
                           !.content = "absent", !.dirty = @ \cup {r},
                           !.seen[r] = new]
      BY <1>5 DEF UpSendFails
    <2>8. [up.seen EXCEPT ![r] = new] \in [Recordings -> Rows]
      BY <2>5
    <2>9. UpTypeOK'
      BY <2>1, <2>7, <2>8 DEF Content
    <2> QED
      BY <1>5, <2>6, <2>9 DEF UpSendFails
  <1>6. CASE UpDropLocal
    <2>1. disk' \in [Recordings -> [Paths -> Content]]
      BY <1>6 DEF UpDropLocal, Content
    <2> QED
      BY <1>6, <2>1 DEF UpDropLocal, Content
  <1>7. CASE UpKeepLocal
    BY <1>7 DEF UpKeepLocal, storeVars, Content
  <1>8. CASE UpCommit
    <2>1. row' \in [Recordings -> Rows]
      <3>1. \A r \in Recordings :
              [row[r] EXCEPT !.remote = up.seen[r].remote,
                             !.attempts = up.seen[r].attempts] \in Rows
        BY RowFields, RowUpdates
      <3> QED
        BY <1>8, <3>1 DEF UpCommit
    <2>2. UpTypeOK'
      BY <1>8, RowKinds DEF UpCommit, UpIdle, Content
    <2> QED
      BY <1>8, <2>1, <2>2 DEF UpCommit
  <1>9. CASE UpRollback
    <2>2. UpTypeOK'
      BY <1>9, RowKinds DEF UpRollback, UpIdle, Content
    <2> QED
      BY <1>9, <2>2 DEF UpRollback
  <1> QED
    BY <1>1, <1>2, <1>3, <1>4, <1>5, <1>6, <1>7, <1>8, <1>9 DEF UpNext

-----------------------------------------------------------------------------
(* What the worker has in hand                                             *)

(* The worker took recording r into its batch and has not committed it.    *)
Hand(r) == \/ r \in up.batch \cup up.dirty
           \/ up.stage \in {"sending", "stored"} /\ up.cur = r

(* While it has, the committed row stays queued: only the worker's own     *)
(* commit says otherwise.                                                  *)
HandQueued ==
  \A r \in Recordings : Hand(r) => row[r].remote \in {"pending", "failed"}

(* The upload columns of a row change when the segment is inserted or      *)
(* queued for the camera's profile.                                        *)
LEMMA StoreRows ==
  ASSUME StoreTypeOK, StoreNext, NEW r \in Recordings
  PROVE  \/ /\ row'[r].remote = row[r].remote
            /\ row'[r].profile = row[r].profile /\ row'[r].path = row[r].path
         \/ SaveRecording /\ r = saved + 1 /\ row'[r] = NewRow
         \/ /\ QueueForProfile(r) /\ row'[r].path = row[r].path
            /\ row'[r].remote = "pending" /\ row'[r].profile = CameraProfile
  <1>0. row \in [Recordings -> Rows]
    BY DEF StoreTypeOK
  <1>1. CASE SaveRecording
    BY <1>0, <1>1 DEF SaveRecording
  <1>2. ASSUME NEW s \in Recordings, QueueForProfile(s)
        PROVE  \/ row'[r] = row[r]
               \/ /\ QueueForProfile(r) /\ row'[r].path = row[r].path
                  /\ row'[r].remote = "pending" /\ row'[r].profile = CameraProfile
    <2>1. row' = [row EXCEPT ![s] = [row[s] EXCEPT !.remote = "pending",
                                                   !.profile = CameraProfile]]
      BY <1>2 DEF QueueForProfile
    <2>2. s # r => row'[r] = row[r]
      BY <1>0, <2>1
    <2>3. s = r => /\ row'[r].path = row[r].path /\ row'[r].remote = "pending"
                   /\ row'[r].profile = CameraProfile
      BY <1>0, <2>1 DEF Rows
    <2> QED
      BY <1>2, <2>2, <2>3
  <1>3. ASSUME NEW s \in Recordings, DeleteRow(s)
        PROVE  /\ row'[r].remote = row[r].remote
               /\ row'[r].profile = row[r].profile /\ row'[r].path = row[r].path
    BY <1>0, <1>3 DEF DeleteRow, Rows
  <1>4. CASE UNCHANGED row
    BY <1>4
  <1> QED
    BY <1>1, <1>2, <1>3, <1>4 DEF StoreNext, LeaveLocal, Age, Expire,
       DeleteFile, PutArchive, UpdateProfile, LoseKey, DeleteProfile, AdminStep

(* The worker's commit writes the states of the rows it changed. *)
LEMMA UploadRows ==
  ASSUME StoreTypeOK, UpNext, NEW r \in Recordings
  PROVE  /\ row'[r].profile = row[r].profile /\ row'[r].path = row[r].path
         /\ row'[r].live = row[r].live
         /\ \/ row'[r].remote = row[r].remote
            \/ UpCommit /\ r \in up.dirty /\ row'[r].remote = up.seen[r].remote
  <1>1. CASE UpCommit
    <2>0. row[r] \in Rows
      BY DEF StoreTypeOK
    <2>1. CASE r \in up.dirty
      <3>1. row'[r] = [row[r] EXCEPT !.remote = up.seen[r].remote,
                                     !.attempts = up.seen[r].attempts]
        BY <1>1, <2>1 DEF UpCommit
      <3> QED
        BY <1>1, <2>0, <2>1, <3>1 DEF Rows
    <2>2. CASE r \notin up.dirty
      BY <1>1, <2>2 DEF UpCommit
    <2> QED
      BY <2>1, <2>2
  <1>2. CASE UNCHANGED row
    BY <1>2
  <1> QED
    BY <1>1, <1>2 DEF UpNext, UpSelect, UpGiveUp, UpOpen, UpSent, UpSendFails,
       UpDropLocal, UpKeepLocal, UpRollback, storeVars

(* A transfer touches the object of the recording it is for.               *)
LEMMA UploadObjects ==
  ASSUME StoreTypeOK, UpTypeOK, UpCurrent, UpNext,
         NEW p \in Profiles, NEW r \in Recordings
  PROVE  \/ object'[p][r] = object[p][r]
         \/ up.stage = "sending" /\ up.cur = r /\ p = up.seen[r].profile
  <1>1. CASE UpSent \/ UpSendFails
    <2>1. up.stage = "sending" /\ up.cur \in Recordings /\ up.seen[up.cur].profile \in Profiles
      BY <1>1 DEF UpSent, UpSendFails, UpCurrent
    <2>2. PICK c \in {object[up.seen[up.cur].profile][up.cur], "partial", up.content} :
            object' = [object EXCEPT ![up.seen[up.cur].profile][up.cur] = c]
      BY <1>1 DEF UpSent, UpSendFails
    <2> QED
      BY <2>1, <2>2 DEF StoreTypeOK
  <1>2. CASE UNCHANGED object
    BY <1>2
  <1> QED
    BY <1>1, <1>2 DEF UpNext, UpSelect, UpGiveUp, UpOpen, UpDropLocal,
       UpKeepLocal, UpCommit, UpRollback, storeVars

(* What the worker has in hand it had before, under the same profile, or   *)
(* it has just selected it.                                                *)
LEMMA UploadHands ==
  ASSUME StoreTypeOK, UpTypeOK, UpCurrent, UpNext, NEW r \in Recordings, Hand(r)'
  PROVE  \/ /\ Hand(r) /\ row'[r] = row[r]
            /\ up'.seen[r].profile = up.seen[r].profile
            /\ up'.seen[r].path = up.seen[r].path
         \/ UpSelect /\ r \in Queued /\ row'[r] = row[r] /\ up'.seen[r] = row[r]
  <1> USE DEF UpTypeOK
  <1>0. up.seen \in [Recordings -> Rows]
    OBVIOUS
  <1>1. CASE UpSelect
    <2> DEFINE batch == OldestN(Queued, BatchSize)
    <2>1. /\ up'.batch = batch /\ up'.dirty = {} /\ up'.stage = "next"
          /\ up'.seen = [s \in Recordings |-> IF s \in batch THEN row[s] ELSE NoRow]
          /\ UNCHANGED row
      BY <1>1 DEF UpSelect, UpIdle, storeVars
    <2>2. batch \subseteq Queued
      BY DEF OldestN
    <2> HIDE DEF batch
    <2> QED
      BY <1>1, <2>1, <2>2 DEF Hand
  <1>2. ASSUME NEW s \in Recordings, UpGiveUp(s)
        PROVE  /\ Hand(r) /\ row'[r] = row[r]
               /\ up'.seen[r].profile = up.seen[r].profile
               /\ up'.seen[r].path = up.seen[r].path
    <2>1. /\ s \in up.batch /\ up.stage = "next" /\ row' = row
          /\ up'.batch = up.batch \ {s} /\ up'.dirty = up.dirty \cup {s}
          /\ up'.stage = up.stage
          /\ up'.seen = [up.seen EXCEPT ![s].remote = "failed"]
      BY <1>2 DEF UpGiveUp, UpTake, Oldest
    <2>2. /\ up'.seen[r].profile = up.seen[r].profile
          /\ up'.seen[r].path = up.seen[r].path
      BY <1>0, <2>1 DEF Rows
    <2> QED
      BY <2>1, <2>2 DEF Hand
  <1>3. ASSUME NEW s \in Recordings, UpOpen(s)
        PROVE  Hand(r) /\ row'[r] = row[r] /\ up'.seen = up.seen
    <2>1. /\ s \in up.batch /\ row' = row /\ up'.seen = up.seen /\ up'.cur = s
          /\ up'.batch = up.batch \ {s} /\ up'.dirty = up.dirty
      BY <1>3 DEF UpOpen, UpTake, Oldest
    <2> QED
      BY <2>1 DEF Hand
  <1>4. CASE UpSent \/ UpSendFails
    <2> DEFINE c == up.cur
    <2>1. /\ row' = row /\ up'.batch = up.batch /\ up'.dirty = up.dirty \cup {c}
          /\ up.stage = "sending" /\ c \in Recordings
          /\ up'.stage = "stored" => up'.cur = c
          /\ up'.stage \in {"stored", "next"}
      BY <1>4 DEF UpSent, UpSendFails, UpCurrent
    <2>2. PICK n \in {up.seen[c].attempts, up.seen[c].attempts + 1},
               st \in {"uploaded", "failed", "pending"} :
            up'.seen = [up.seen EXCEPT ![c] = [up.seen[c] EXCEPT !.attempts = n,
                                                                 !.remote = st]]
      <3>1. CASE UpSent
        <4>1. up'.seen = [up.seen EXCEPT ![c] = [up.seen[c] EXCEPT !.remote = "uploaded"]]
          BY <3>1 DEF UpSent
        <4>2. [up.seen[c] EXCEPT !.remote = "uploaded"]
                = [up.seen[c] EXCEPT !.attempts = up.seen[c].attempts, !.remote = "uploaded"]
          BY <1>0, <2>1 DEF Rows
        <4> QED
          BY <4>1, <4>2
      <3>2. CASE UpSendFails
        BY <3>2 DEF UpSendFails
      <3> QED
        BY <1>4, <3>1, <3>2
    <2>3. /\ up'.seen[r].profile = up.seen[r].profile
          /\ up'.seen[r].path = up.seen[r].path
      BY <1>0, <2>1, <2>2 DEF Rows
    <2> QED
      BY <2>1, <2>3 DEF Hand
  <1>5. CASE UpDropLocal \/ UpKeepLocal
    <2>1. /\ row' = row /\ up'.batch = up.batch /\ up'.dirty = up.dirty
          /\ up'.stage = "next" /\ up'.seen = up.seen
      BY <1>5 DEF UpDropLocal, UpKeepLocal, storeVars
    <2> QED
      BY <2>1 DEF Hand
  <1>6. CASE UpCommit \/ UpRollback
    <2>1. up'.batch = {} /\ up'.dirty = {} /\ up'.stage = "idle"
      <3>1. up' = UpIdle
        BY <1>6 DEF UpCommit, UpRollback
      <3> QED
        BY <3>1 DEF UpIdle
    <2> QED
      BY <2>1 DEF Hand
  <1> QED
    BY <1>1, <1>2, <1>3, <1>4, <1>5, <1>6 DEF UpNext

(* The store keeps what is in hand queued. *)
LEMMA StoreKeepsHands ==
  ASSUME StoreTypeOK, HandQueued, \A r \in Recordings : Hand(r) => r <= saved,
         StoreNext, up' = up
  PROVE  HandQueued'
  <1> SUFFICES ASSUME NEW r \in Recordings, Hand(r)
               PROVE  row'[r].remote \in {"pending", "failed"}
    BY DEF HandQueued, Hand
  <1>1. row[r].remote \in {"pending", "failed"} /\ r <= saved /\ saved \in Nat
    BY StoreAssumption DEF HandQueued, StoreTypeOK
  <1>2. r # saved + 1
    BY <1>1 DEF Recordings
  <1> QED
    BY <1>1, <1>2, StoreRows

(* So does the worker. *)
LEMMA UploadKeepsHands ==
  ASSUME StoreTypeOK, UpTypeOK, UpCurrent, HandQueued, UpNext
  PROVE  HandQueued'
  <1> SUFFICES ASSUME NEW r \in Recordings, Hand(r)'
               PROVE  row'[r].remote \in {"pending", "failed"}
    BY DEF HandQueued
  <1> QED
    BY UploadHands DEF HandQueued, Queued

(* What the worker has changed to "uploaded" it had before, untouched, or  *)
(* it has just been sent.                                                  *)
LEMMA UploadDirty ==
  ASSUME StoreTypeOK, UpTypeOK, UpCurrent, UpNext,
         NEW r \in Recordings, r \in up'.dirty, up'.seen[r].remote = "uploaded"
  PROVE  \/ /\ r \in up.dirty /\ up'.seen[r] = up.seen[r]
            /\ \A p \in Profiles : object'[p][r] = object[p][r]
         \/ /\ up.stage = "sending" /\ up.cur = r
            /\ up'.seen[r].profile = up.seen[r].profile
            /\ object'[up.seen[r].profile][r] = up.content
  <1> USE DEF UpTypeOK, StoreTypeOK
  <1>0. up.seen \in [Recordings -> Rows]
    OBVIOUS
  <1>1. CASE UpSelect \/ UpCommit \/ UpRollback
    <2>1. up'.dirty = {}
      <3>1. CASE UpSelect
        BY <3>1 DEF UpSelect, UpIdle
      <3>2. CASE UpCommit \/ UpRollback
        <4>1. up' = UpIdle
          BY <3>2 DEF UpCommit, UpRollback
        <4> QED
          BY <4>1 DEF UpIdle
      <3> QED
        BY <1>1, <3>1, <3>2
    <2> QED
      BY <2>1
  <1>2. ASSUME NEW s \in Recordings, UpGiveUp(s)
        PROVE  r \in up.dirty /\ up'.seen[r] = up.seen[r] /\ object' = object
    <2>1. /\ up'.dirty = up.dirty \cup {s} /\ object' = object
          /\ up'.seen = [up.seen EXCEPT ![s].remote = "failed"]
      BY <1>2 DEF UpGiveUp
    <2>2. up'.seen[s].remote = "failed"
      BY <1>0, <2>1 DEF Rows
    <2>3. r # s
      BY <2>2
    <2> QED
      BY <1>0, <2>1, <2>3
  <1>3. ASSUME NEW s \in Recordings, UpOpen(s)
        PROVE  up'.dirty = up.dirty /\ up'.seen = up.seen /\ object' = object
    BY <1>3 DEF UpOpen
  <1>4. CASE UpSent
    <2> DEFINE c == up.cur
               p == up.seen[c].profile
    <2>1. /\ up.stage = "sending" /\ c \in Recordings /\ p \in Profiles
          /\ up'.dirty = up.dirty \cup {c}
          /\ up'.seen = [up.seen EXCEPT ![c].remote = "uploaded"]
          /\ object' = [object EXCEPT ![p][c] = up.content]
      BY <1>4 DEF UpSent, UpCurrent
    <2>2. CASE r = c
      <3>1. up'.seen[r].profile = p
        BY <1>0, <2>1, <2>2 DEF Rows
      <3>2. object'[p][c] = up.content
        BY <2>1
      <3> QED
        BY <2>1, <2>2, <3>1, <3>2
    <2>3. CASE r # c
      <3>1. up'.seen[r] = up.seen[r] /\ \A q \in Profiles : object'[q][r] = object[q][r]
        BY <1>0, <2>1, <2>3
      <3> QED
        BY <2>1, <2>3, <3>1
    <2> QED
      BY <2>2, <2>3
  <1>5. CASE UpSendFails
    <2> DEFINE c == up.cur
               p == up.seen[c].profile
               n == up.seen[c].attempts + 1
               st == IF n >= AttemptCap THEN "failed" ELSE "pending"
    <2>1. /\ c \in Recordings /\ p \in Profiles
          /\ up'.dirty = up.dirty \cup {c}
          /\ up'.seen = [up.seen EXCEPT ![c] = [up.seen[c] EXCEPT !.attempts = n,
                                                                  !.remote = st]]
          /\ \E x : object' = [object EXCEPT ![p][c] = x]
      BY <1>5 DEF UpSendFails, UpCurrent
    <2>2. up'.seen[c].remote = st /\ st # "uploaded"
      BY <1>0, <2>1 DEF Rows
    <2>3. r # c
      BY <2>2
    <2> HIDE DEF n, st
    <2>4. up'.seen[r] = up.seen[r] /\ \A q \in Profiles : object'[q][r] = object[q][r]
      BY <1>0, <2>1, <2>3
    <2> QED
      BY <2>1, <2>3, <2>4
  <1>6. CASE UpDropLocal \/ UpKeepLocal
    BY <1>6 DEF UpDropLocal, UpKeepLocal, storeVars
  <1> QED
    BY <1>1, <1>2, <1>3, <1>4, <1>5, <1>6 DEF UpNext
=============================================================================
