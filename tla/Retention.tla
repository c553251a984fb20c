----------------------------- MODULE Retention -----------------------------
(***************************************************************************)
(* The hourly retention pass over recordings (services/ingestion/          *)
(* retention.py): local retention by age or by size, archive retention,    *)
(* and the low-disk guard, in that order.  The archive destination is read *)
(* once, at the start of the pass.  Each phase loads its rows in a session *)
(* of its own, removes files and remote objects one recording at a time,   *)
(* and commits the row changes once, at the end of the phase.              *)
(***************************************************************************)
EXTENDS RecordingStore

CONSTANTS
  RetentionModes,    \* what the camera's retention_mode may be set to
  LocalBudget,       \* retention_gb, in recordings (every size is 1)
  ArchiveExpires,    \* archive_retention_days > 0
  IdempotentDelete,  \* profiles (s3) where deleting a missing object succeeds
  SettingsFaults     \* reading the archive setting may fail

Modes == {"time", "size", "none"}

ASSUME RetentionAssumption ==
  /\ RetentionModes \subseteq Modes
  /\ LocalBudget \in Nat
  /\ ArchiveExpires \in BOOLEAN
  /\ IdempotentDelete \subseteq Profiles
  /\ SettingsFaults \in BOOLEAN

VARIABLES
  ret,      \* the pass: its step, archive snapshot and session
  shelter   \* recordings under an active share or an open incident

RetSteps == {"idle", "scanLocal", "local", "scanArchive", "archive",
             "scanDisk", "disk"}

RetIdle == [step |-> "idle", mode |-> "none", archive |-> NoProfile,
            todo |-> {}, seen |-> [r \in Recordings |-> NoRow],
            marked |-> {}, dropped |-> {}, excess |-> 0, shelter |-> {}]

RetTypeOK ==
  /\ ret \in [step: RetSteps, mode: Modes,
              archive: Profiles \cup {NoProfile}, todo: SUBSET Recordings,
              seen: [Recordings -> Rows],
              marked: SUBSET Recordings, dropped: SUBSET Recordings,
              excess: Int, shelter: SUBSET Recordings]
  /\ shelter \subseteq Recordings

(* Someone shares a recording, or an incident opens over it.  Only the     *)
(* low-disk guard looks, so this is left out where that guard never acts.  *)
Shelter(r) ==
  /\ "none" \in RetentionModes
  /\ row[r].live
  /\ shelter' = shelter \cup {r}
  /\ UNCHANGED <<storeVars, ret>>

-----------------------------------------------------------------------------
(* Shared by the phases *)

(* The camera's mode, which an admin may have changed since the last pass, *)
(* and archive_target() are read at the start of the pass.  A failed read  *)
(* of the archive setting is answered with its default: no archive.        *)
RetBegin ==
  /\ ret.step = "idle"
  /\ \E m \in RetentionModes,
        a \in {ArchiveTarget}
                 \cup (IF SettingsFaults THEN {NoProfile} ELSE {}) :
       ret' = [RetIdle EXCEPT !.archive = a, !.mode = m,
                 !.step = IF m = "none" THEN "scanArchive" ELSE "scanLocal"]
  /\ UNCHANGED <<storeVars, shelter>>

NextStep == CASE ret.step \in {"scanLocal", "local"}     -> "scanArchive"
              [] ret.step \in {"scanArchive", "archive"} -> "scanDisk"
              [] OTHER                                   -> "idle"

(* The session of a phase ends: nothing of it is kept but the snapshot.    *)
RetMoveOn == [RetIdle EXCEPT !.step = NextStep,
                !.archive = IF NextStep = "idle" THEN NoProfile
                                                 ELSE ret.archive]

(* A phase loads the rows of S; without any it returns at once. *)
RetLoad(step, S, excess) ==
  ret' = IF S = {} THEN RetMoveOn
         ELSE [ret EXCEPT !.step = step, !.todo = S, !.excess = excess,
                          !.seen = [r \in Recordings |->
                                      IF r \in S THEN row[r] ELSE NoRow],
                          !.shelter = shelter]

(* Deleting the remote copy of a row as this session saw it.  ok is what   *)
(* the call returns: true when there is nothing to delete or it is gone.   *)
(* A failed call may have deleted the object before the answer was lost.   *)
DeleteRemoteCopy(r, rec, ok) ==
  LET p == rec.profile
      gone == [object EXCEPT ![p][r] = "absent"] IN
  IF rec.remote # "uploaded" \/ p = NoProfile
  THEN ok /\ UNCHANGED object
  ELSE \/ /\ ok
          /\ Readable(p)
          /\ object[p][r] # "absent" \/ p \in IdempotentDelete
          /\ object' = gone
       \/ /\ ~ok
          /\ \/ UNCHANGED object
             \/ Readable(p) /\ object' = gone

(* The commit of a phase.  It waits for locked rows; a marked row that is  *)
(* gone fails it, a deleted row that is gone already does not.  The mark   *)
(* writes the columns that differ from the loaded row: attempts was 0.     *)
RetDone == ret.todo = {} \/ (ret.step = "local" /\ ret.mode = "size"
                             /\ ret.excess <= 0)

RetCommit ==
  /\ ret.step \in {"local", "archive", "disk"}
  /\ RetDone
  /\ (ret.marked \cup ret.dropped) \cap locked = {}
  /\ \A r \in ret.marked : row[r].live
  /\ row' = [r \in Recordings |->
               IF r \in ret.dropped THEN [row[r] EXCEPT !.live = FALSE]
               ELSE IF r \in ret.marked
                    THEN [row[r] EXCEPT !.remote = "pending",
                                        !.profile = ret.archive]
                    ELSE row[r]]
  /\ ret' = RetMoveOn
  /\ UNCHANGED <<disk, object, profile, archive, saved, finalizing, aged,
                 expired, locked, deleting, condemned, admin, shelter>>

RetRollback ==
  /\ ret.step = "local"
  /\ RetDone
  /\ \E r \in ret.marked : ~row[r].live
  /\ ret' = RetMoveOn
  /\ UNCHANGED <<storeVars, shelter>>

(* The file of recording r as this session saw it is removed; fails is an  *)
(* OSError, and a file that is missing already counts as removed.          *)
RemoveFile(r) == disk' = [disk EXCEPT ![r][ret.seen[r].path] = "absent"]

(* An OSError while a file that exists is removed. *)
RemoveFails(r) == FileOf(r, ret.seen[r]) # "absent" /\ UNCHANGED disk

Drop(r) == /\ condemned' = condemned \cup {r}
           /\ ret' = [ret EXCEPT !.todo = @ \ {r}, !.dropped = @ \cup {r},
                                 !.excess = @ - 1]
           /\ UNCHANGED <<row, profile, archive, saved, finalizing, aged,
                          expired, locked, deleting, admin, shelter>>

Skip(r, freed) == /\ ret' = [ret EXCEPT !.todo = @ \ {r}, !.excess = @ - freed]
                  /\ UNCHANGED <<storeVars, shelter>>

-----------------------------------------------------------------------------
(* _enforce_time and _enforce_size *)

(* Fault: the cutoff is one recording late, and size mode is left out. *)
RetScanLocalLate ==
  /\ ret.step = "scanLocal"
  /\ RetLoad("local", {r \in Live : r < aged}, 0)
  /\ UNCHANGED <<storeVars, shelter>>

RetScanLocal ==
  /\ ret.step = "scanLocal"
  /\ LET counted == {r \in Live : ret.archive # NoProfile
                                    => row[r].remote # "uploaded"}
         excess == Cardinality(counted) - LocalBudget IN
       IF ret.mode = "time"
       THEN RetLoad("local", {r \in Live : r <= aged}, 0)
       ELSE RetLoad("local", IF excess > 0 THEN counted ELSE {}, excess)
  /\ UNCHANGED <<storeVars, shelter>>

RetAt(r) == /\ ret.step = "local"
            /\ ~RetDone
            /\ r \in ret.todo
            /\ ret.mode = "size" => r \in Oldest(ret.todo)

(* Owned by the archive: left alone; when it is on its way its bytes count *)
(* as freed already.                                                       *)
RetLeave(r) ==
  /\ RetAt(r)
  /\ Owns(ret.archive, ret.seen[r])
  /\ Skip(r, IF ret.seen[r].remote = "pending" THEN 1 ELSE 0)

(* Fault: after marking, the loop falls through to the removal of the file. *)
RetMarkAndRemove(r) ==
  /\ RetAt(r)
  /\ ~Owns(ret.archive, ret.seen[r])
  /\ ret.archive # NoProfile /\ ret.seen[r].remote = "null"
  /\ RemoveFile(r)
  /\ ret' = [ret EXCEPT !.todo = @ \ {r}, !.marked = @ \cup {r},
                        !.excess = @ - 1]
  /\ UNCHANGED <<row, object, profile, archive, saved, finalizing, aged,
                 expired, locked, deleting, condemned, admin, shelter>>

(* mark_for_archive *)
RetMark(r) ==
  /\ RetAt(r)
  /\ ~Owns(ret.archive, ret.seen[r])
  /\ ret.archive # NoProfile /\ ret.seen[r].remote = "null"
  /\ ret' = [ret EXCEPT !.todo = @ \ {r}, !.marked = @ \cup {r},
                        !.excess = @ - 1]
  /\ UNCHANGED <<storeVars, shelter>>

(* Fault: what the archive owns is not left out. *)
MustDeleteOwned(r) == ~(ret.archive # NoProfile /\ ret.seen[r].remote = "null")

(* Delete: the file, then the remote copy, whatever that call returns.     *)
MustDelete(r) == /\ ~Owns(ret.archive, ret.seen[r])
                 /\ ~(ret.archive # NoProfile /\ ret.seen[r].remote = "null")

RetDelete(r) ==
  /\ RetAt(r)
  /\ MustDelete(r)
  /\ RemoveFile(r)
  /\ \E ok \in BOOLEAN : DeleteRemoteCopy(r, ret.seen[r], ok)
  /\ Drop(r)

RetCannotDelete(r) ==
  /\ RetAt(r)
  /\ MustDelete(r)
  /\ RemoveFails(r)
  /\ Skip(r, 0)

-----------------------------------------------------------------------------
(* _enforce_archive_retention *)

RetScanArchive ==
  /\ ret.step = "scanArchive"
  /\ LET S == {r \in Live : /\ ret.archive # NoProfile /\ ArchiveExpires
                            /\ row[r].profile = ret.archive
                            /\ row[r].remote = "uploaded"
                            /\ r <= expired} IN
       RetLoad("archive", S, 0)
  /\ UNCHANGED <<storeVars, shelter>>

(* Fault: the row goes whether or not the object could be deleted. *)
RetExpireAnyway(r) ==
  /\ ret.step = "archive"
  /\ r \in Oldest(ret.todo)
  /\ \E ok \in BOOLEAN : DeleteRemoteCopy(r, ret.seen[r], ok)
  /\ RemoveFile(r)
  /\ Drop(r)

(* The object is gone: the file (best effort) and the row go too.          *)
RetExpire(r) ==
  /\ ret.step = "archive"
  /\ r \in Oldest(ret.todo)
  /\ DeleteRemoteCopy(r, ret.seen[r], TRUE)
  /\ RemoveFile(r) \/ RemoveFails(r)
  /\ Drop(r)

(* The object could not be deleted: the row stays for the next pass.       *)
RetExpireLater(r) ==
  /\ ret.step = "archive"
  /\ r \in Oldest(ret.todo)
  /\ DeleteRemoteCopy(r, ret.seen[r], FALSE)
  /\ condemned' = condemned \cup {r}
  /\ ret' = [ret EXCEPT !.todo = @ \ {r}]
  /\ UNCHANGED <<row, disk, profile, archive, saved, finalizing, aged,
                 expired, locked, deleting, admin, shelter>>

-----------------------------------------------------------------------------
(* _enforce_low_disk_guard: when the disk is low and the camera, as it is  *)
(* by now, keeps everything forever.                                       *)

RetScanDisk ==
  /\ ret.step = "scanDisk"
  /\ \E low \in BOOLEAN, m \in RetentionModes :
       RetLoad("disk", IF low /\ m = "none" THEN Live ELSE {}, 0)
  /\ UNCHANGED <<storeVars, shelter>>

RetReclaim(r) ==
  /\ ret.step = "disk"
  /\ r \in Oldest(ret.todo)
  /\ r \notin ret.shelter
  /\ RemoveFile(r)
  /\ Drop(r)
  /\ UNCHANGED object

RetSpare(r) ==
  /\ ret.step = "disk"
  /\ r \in Oldest(ret.todo)
  /\ r \in ret.shelter \/ RemoveFails(r)
  /\ Skip(r, 0)

(* Enough space is free again: the rest of the list is left alone.         *)
RetEnough ==
  /\ ret.step = "disk"
  /\ ret.todo # {}
  /\ ret' = [ret EXCEPT !.todo = {}]
  /\ UNCHANGED <<storeVars, shelter>>

RetStep ==
  \/ RetBegin
  \/ RetScanLocal
  \/ \E r \in Recordings : RetLeave(r)
  \/ \E r \in Recordings : RetMark(r)
  \/ \E r \in Recordings : RetDelete(r)
  \/ \E r \in Recordings : RetCannotDelete(r)
  \/ RetScanArchive
  \/ \E r \in Recordings : RetExpire(r)
  \/ \E r \in Recordings : RetExpireLater(r)
  \/ RetScanDisk
  \/ \E r \in Recordings : RetReclaim(r)
  \/ \E r \in Recordings : RetSpare(r)
  \/ RetEnough
  \/ RetCommit
  \/ RetRollback

RetNext == RetStep \/ \E r \in Recordings : Shelter(r)
=============================================================================
