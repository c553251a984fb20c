---------------------------- MODULE RemoteUpload ----------------------------
(***************************************************************************)
(* The upload worker (services/ingestion/remote_upload.py).  Every poll it *)
(* selects a batch of queued recordings, transfers them one at a time and  *)
(* commits the whole batch once, at the end.  Between the select and the   *)
(* commit it works on its own copy of the rows (up.seen); the local file   *)
(* of a transferred recording is removed before that commit.               *)
(*                                                                         *)
(* The session flushes what it changed when the next recording's profile   *)
(* is looked up: from then on those rows are locked, and if one of them is *)
(* gone the flush raises and the batch rolls back.                         *)
(***************************************************************************)
EXTENDS RecordingStore

CONSTANTS
  BatchSize,    \* BATCH_SIZE
  AttemptCap,   \* ATTEMPT_CAP
  DropLocal     \* profiles with delete_after_upload

ASSUME UploadAssumption ==
  /\ BatchSize \in Nat \ {0}
  /\ AttemptCap \in Nat \ {0}
  /\ DropLocal \subseteq Profiles

VARIABLE up   \* the worker: its stage, batch, current recording and session

NoOne == 0

UpIdle == [stage |-> "idle", batch |-> {}, cur |-> NoOne,
           seen |-> [r \in Recordings |-> NoRow], dirty |-> {},
           content |-> "absent"]

UpTypeOK ==
  up \in [stage: {"idle", "next", "sending", "stored"},
          batch: SUBSET Recordings,
          cur: Recordings \cup {NoOne},
          seen: [Recordings -> Rows],
          dirty: SUBSET Recordings,
          content: Content]

(* Fault: a failed upload is never selected again. *)
QueuedPendingOnly == {r \in Live : /\ row[r].remote = "pending"
                                   /\ row[r].attempts < AttemptCap}

Queued == {r \in Live : /\ row[r].remote \in {"pending", "failed"}
                        /\ row[r].attempts < AttemptCap}

(* process_batch: SELECT ... ORDER BY started_at LIMIT BATCH_SIZE *)
UpSelect ==
  /\ up.stage = "idle"
  /\ Queued # {}
  /\ LET batch == OldestN(Queued, BatchSize) IN
       up' = [UpIdle EXCEPT !.stage = "next", !.batch = batch,
                !.seen = [r \in Recordings |-> IF r \in batch THEN row[r]
                                                              ELSE NoRow]]
  /\ UNCHANGED storeVars

(* The flush of the changed rows succeeds only if all of them still exist. *)
CanFlush == \A r \in up.dirty : row[r].live

(* _process_one begins: the profile lookup flushes the session. *)
UpTake(r) ==
  /\ up.stage = "next"
  /\ r \in Oldest(up.batch)
  /\ CanFlush
  /\ locked' = up.dirty

CanSend(r) == /\ Readable(up.seen[r].profile)
              /\ FileOf(r, up.seen[r]) # "absent"

(* Fault: giving up does not set the state. *)
UpGiveUpSilently(r) ==
  /\ UpTake(r)
  /\ ~CanSend(r)
  /\ up' = [up EXCEPT !.batch = @ \ {r}, !.dirty = @ \cup {r}]
  /\ UNCHANGED <<row, disk, object, profile, archive, saved, finalizing, aged,
                 expired, deleting, condemned, admin>>

(* No profile, no credentials or no local file: failed, attempts unchanged. *)
UpGiveUp(r) ==
  /\ UpTake(r)
  /\ ~CanSend(r)
  /\ up' = [up EXCEPT !.batch = @ \ {r}, !.dirty = @ \cup {r},
                      !.seen[r].remote = "failed"]
  /\ UNCHANGED <<row, disk, object, profile, archive, saved, finalizing, aged,
                 expired, deleting, condemned, admin>>

(* The transfer starts: the local file is open from here on. *)
UpOpen(r) ==
  /\ UpTake(r)
  /\ CanSend(r)
  /\ up' = [up EXCEPT !.batch = @ \ {r}, !.stage = "sending", !.cur = r,
                      !.content = FileOf(r, up.seen[r])]
  /\ UNCHANGED <<row, disk, object, profile, archive, saved, finalizing, aged,
                 expired, deleting, condemned, admin>>

(* The object is stored and its size agrees with the local file's, which   *)
(* must still be there to be measured.                                     *)
UpSent ==
  LET r == up.cur IN
  /\ up.stage = "sending"
  /\ FileOf(r, up.seen[r]) # "absent"
  /\ object' = [object EXCEPT ![up.seen[r].profile][r] = up.content]
  /\ up' = [up EXCEPT !.stage = "stored", !.dirty = @ \cup {r},
                      !.seen[r].remote = "uploaded"]
  /\ UNCHANGED <<row, disk, profile, archive, saved, finalizing, aged,
                 expired, locked, deleting, condemned, admin>>

(* Fault: what the transfer returned is not looked at. *)
UpSendUnverified ==
  LET r == up.cur IN
  /\ up.stage = "sending"
  /\ \E c \in {object[up.seen[r].profile][r], "partial", up.content} :
       object' = [object EXCEPT ![up.seen[r].profile][r] = c]
  /\ up' = [up EXCEPT !.stage = "stored", !.dirty = @ \cup {r},
                      !.seen[r].remote = "uploaded"]
  /\ UNCHANGED <<row, disk, profile, archive, saved, finalizing, aged,
                 expired, locked, deleting, condemned, admin>>

(* The transfer or its verification fails; it may leave the old object, a  *)
(* truncated one, or a complete one that was not acknowledged.             *)
UpSendFails ==
  LET r == up.cur
      n == up.seen[r].attempts + 1 IN
  /\ up.stage = "sending"
  /\ \E c \in {object[up.seen[r].profile][r], "partial", up.content} :
       object' = [object EXCEPT ![up.seen[r].profile][r] = c]
  /\ up' = [up EXCEPT !.stage = "next", !.cur = NoOne,
                      !.content = "absent", !.dirty = @ \cup {r},
                      !.seen[r] = [@ EXCEPT !.attempts = n,
                                     !.remote = IF n >= AttemptCap
                                                THEN "failed" ELSE "pending"]]
  /\ UNCHANGED <<row, disk, profile, archive, saved, finalizing, aged,
                 expired, locked, deleting, condemned, admin>>

(* Fault: the local file is removed before the transfer is verified. *)
UpDropUnsent ==
  LET r == up.cur IN
  /\ up.stage = "sending"
  /\ disk' = [disk EXCEPT ![r][up.seen[r].path] = "absent"]
  /\ up' = [up EXCEPT !.stage = "next", !.cur = NoOne, !.content = "absent"]
  /\ UNCHANGED <<row, object, profile, archive, saved, finalizing, aged,
                 expired, locked, deleting, condemned, admin>>

(* The profile says so, or this is the archive: the local file is removed. *)
UpDropLocal ==
  LET r == up.cur
      p == up.seen[r].profile IN
  /\ up.stage = "stored"
  /\ p \in DropLocal \/ ArchiveTarget = p
  /\ disk' = [disk EXCEPT ![r][up.seen[r].path] = "absent"]
  /\ up' = [up EXCEPT !.stage = "next", !.cur = NoOne, !.content = "absent"]
  /\ UNCHANGED <<row, object, profile, archive, saved, finalizing, aged,
                 expired, locked, deleting, condemned, admin>>

(* The local file stays: not asked for, or the removal failed (ignored).   *)
UpKeepLocal ==
  /\ up.stage = "stored"
  /\ up' = [up EXCEPT !.stage = "next", !.cur = NoOne, !.content = "absent"]
  /\ UNCHANGED storeVars

(* The one commit of the batch: the changed columns of the changed rows.   *)
UpCommit ==
  /\ up.stage = "next"
  /\ up.batch = {}
  /\ CanFlush
  /\ row' = [r \in Recordings |->
               IF r \in up.dirty
               THEN [row[r] EXCEPT !.remote = up.seen[r].remote,
                                   !.attempts = up.seen[r].attempts]
               ELSE row[r]]
  /\ locked' = {}
  /\ up' = UpIdle
  /\ UNCHANGED <<disk, object, profile, archive, saved, finalizing, aged,
                 expired, deleting, condemned, admin>>

(* A changed row was deleted meanwhile: the flush raises (StaleDataError)  *)
(* and the whole batch rolls back; run() logs it and polls again.          *)
UpRollback ==
  /\ up.stage = "next"
  /\ ~CanFlush
  /\ locked' = {}
  /\ up' = UpIdle
  /\ UNCHANGED <<row, disk, object, profile, archive, saved, finalizing, aged,
                 expired, deleting, condemned, admin>>

UpNext ==
  \/ UpSelect
  \/ \E r \in Recordings : UpGiveUp(r)
  \/ \E r \in Recordings : UpOpen(r)
  \/ UpSent
  \/ UpSendFails
  \/ UpDropLocal
  \/ UpKeepLocal
  \/ UpCommit
  \/ UpRollback
=============================================================================
