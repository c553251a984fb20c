--------------------------- MODULE RecordingStore ---------------------------
(***************************************************************************)
(* The state that the ingestion service, the API and the retention loop    *)
(* share about recorded footage: the rows of the recordings table, the     *)
(* files on the local disk, the objects on the remote storage profiles,    *)
(* the profiles themselves and the archive setting.  The module holds the  *)
(* operations of the stream worker (which creates recordings), of the      *)
(* admin routes (which change profiles and the archive destination) and of *)
(* the delete route.  RemoteUpload and Retention add the two background    *)
(* loops, RecordingArchive composes them.                                  *)
(*                                                                         *)
(* Recordings are numbered in the order of started_at, so "oldest first"   *)
(* is the order of the numbers.  One camera is modelled.                   *)
(***************************************************************************)
EXTENDS Integers, FiniteSets

CONSTANTS
  NumRecordings,   \* bound: how many segments are ever recorded
  Profiles,        \* remote storage profiles (kind ftp or s3)
  NoProfile,       \* the null profile id
  CameraProfile,   \* the profile the camera records to, or NoProfile
  MaxAdmin         \* bound: how many admin changes are made

ASSUME StoreAssumption ==
  /\ NumRecordings \in Nat
  /\ MaxAdmin \in Nat
  /\ NoProfile \notin Profiles
  /\ CameraProfile \in Profiles \cup {NoProfile}

Recordings == 1..NumRecordings

(* The two names a recording's file can have: as written, and the output   *)
(* of the privacy blur pass.                                               *)
Paths == {"original", "blurred"}

(* What a file or an object holds.  Only Footage can be watched.           *)
Content == {"absent", "partial", "empty", "raw", "blurred"}
Footage == {"raw", "blurred"}

VARIABLES
  row,         \* the committed row of each recording
  disk,        \* local files: recording -> path -> content
  object,      \* remote objects: profile -> recording -> content
  profile,     \* status of each storage profile
  archive,     \* app setting archive_profile_id
  saved,       \* how many segments have been recorded
  finalizing,  \* segments inserted whose upload target is not resolved yet
  aged,        \* recordings 1..aged are older than retention_days
  expired,     \* recordings 1..expired are older than archive_retention_days
  locked,      \* rows locked by an open transaction that already wrote them
  deleting,    \* delete requests whose file is gone and whose row is not
  condemned,   \* history: someone decided that this recording goes
  admin        \* admin changes made so far

storeVars == <<row, disk, object, profile, archive, saved, finalizing, aged,
               expired, locked, deleting, condemned, admin>>

RemoteStates == {"null", "pending", "uploaded", "failed"}

NewRow == [live |-> TRUE, path |-> "original", remote |-> "null",
           profile |-> NoProfile, attempts |-> 0]
NoRow  == [NewRow EXCEPT !.live = FALSE]

Rows == [live: BOOLEAN, path: Paths, remote: RemoteStates,
         profile: Profiles \cup {NoProfile}, attempts: Nat]

ProfileStates == {"enabled", "disabled", "unreadable", "deleted"}

StoreTypeOK ==
  /\ row \in [Recordings -> Rows]
  /\ disk \in [Recordings -> [Paths -> Content]]
  /\ object \in [Profiles -> [Recordings -> Content]]
  /\ profile \in [Profiles -> ProfileStates]
  /\ archive \in Profiles \cup {NoProfile}
  /\ saved \in 0..NumRecordings
  /\ finalizing \subseteq 1..saved
  /\ aged \in 0..saved
  /\ expired \in 0..saved
  /\ locked \subseteq Recordings
  /\ deleting \subseteq Recordings
  /\ condemned \subseteq Recordings
  /\ admin \in 0..MaxAdmin

StoreInit ==
  /\ row = [r \in Recordings |-> NoRow]
  /\ disk = [r \in Recordings |-> [f \in Paths |-> "absent"]]
  /\ object = [p \in Profiles |-> [r \in Recordings |-> "absent"]]
  /\ profile = [p \in Profiles |-> "enabled"]
  /\ archive \in Profiles \cup {NoProfile}
  /\ saved = 0
  /\ finalizing = {}
  /\ aged = 0
  /\ expired = 0
  /\ locked = {}
  /\ deleting = {}
  /\ condemned = {}
  /\ admin = 0

-----------------------------------------------------------------------------
(* Helpers *)

Live == {r \in Recordings : row[r].live}

Oldest(S) == {r \in S : \A s \in S : r <= s}

(* The n oldest members of S: ORDER BY started_at LIMIT n. *)
OldestN(S, n) == {r \in S : Cardinality({s \in S : s < r}) < n}

(* parse_remote_config returns a config: the row is there and unseals. *)
Readable(p) == p # NoProfile /\ profile[p] \in {"enabled", "disabled"}

(* archive_target(): the destination, or NoProfile when archiving is off or *)
(* its profile is missing or disabled.  It does not unseal the credentials. *)
ArchiveTarget ==
  IF archive # NoProfile /\ profile[archive] \in {"enabled", "unreadable"}
  THEN archive ELSE NoProfile

FileOf(r, rec) == disk[r][rec.path]

(* archive_owns(rec, archive) *)
Owns(a, rec) == a # NoProfile /\ rec.profile = a

(* Some copy of the recording that a viewer could watch exists somewhere.  *)
HasCopy(r) == \/ \E f \in Paths : disk[r][f] \in Footage
              \/ \E p \in Profiles : object[p][r] \in Footage

(* What the playback route serves: the local file when it exists, else the *)
(* remote object of an uploaded recording whose profile can be read.       *)
Playable(r) ==
  IF FileOf(r, row[r]) # "absent"
  THEN FileOf(r, row[r]) \in Footage
  ELSE /\ row[r].remote = "uploaded"
       /\ Readable(row[r].profile)
       /\ object[row[r].profile][r] \in Footage

-----------------------------------------------------------------------------
(* The stream worker *)

(* A segment closed: its row is inserted and committed, without a target.  *)
SaveRecording ==
  /\ saved < NumRecordings
  /\ saved' = saved + 1
  /\ row' = [row EXCEPT ![saved + 1] = NewRow]
  /\ disk' = [disk EXCEPT ![saved + 1]["original"] = "raw"]
  /\ finalizing' = finalizing \cup {saved + 1}
  /\ UNCHANGED <<object, profile, archive, aged, expired, locked, deleting,
                 condemned, admin>>

(* The same session then resolves the camera's profile and queues the      *)
(* recording.  The resolver caches its answer for 30 s, so the profile may *)
(* have been disabled or deleted in the meantime.                          *)
QueueForProfile(r) ==
  /\ r \in finalizing
  /\ CameraProfile # NoProfile
  /\ row[r].live /\ r \notin locked
  /\ row' = [row EXCEPT ![r].remote = "pending", ![r].profile = CameraProfile]
  /\ finalizing' = finalizing \ {r}
  /\ UNCHANGED <<disk, object, profile, archive, saved, aged, expired, locked,
                 deleting, condemned, admin>>

(* No target, or the marking failed: the exception is swallowed. *)
LeaveLocal(r) ==
  /\ r \in finalizing
  /\ finalizing' = finalizing \ {r}
  /\ UNCHANGED <<row, disk, object, profile, archive, saved, aged, expired,
                 locked, deleting, condemned, admin>>

(* Time: a recording leaves the local window (retention_days >= 1, so never *)
(* while it is being finalized) or the archive's.                          *)
Age ==
  /\ aged < saved
  /\ aged + 1 \notin finalizing
  /\ aged' = aged + 1
  /\ UNCHANGED <<row, disk, object, profile, archive, saved, finalizing,
                 expired, locked, deleting, condemned, admin>>

Expire ==
  /\ expired < saved
  /\ expired + 1 \notin finalizing
  /\ expired' = expired + 1
  /\ UNCHANGED <<row, disk, object, profile, archive, saved, finalizing, aged,
                 locked, deleting, condemned, admin>>

-----------------------------------------------------------------------------
(* The API process *)

(* DELETE /recordings/{id}: the file goes first (an OSError is ignored) ... *)
DeleteFile(r) ==
  /\ row[r].live
  /\ r \notin deleting
  /\ deleting' = deleting \cup {r}
  /\ condemned' = condemned \cup {r}
  /\ \/ disk' = [disk EXCEPT ![r][row[r].path] = "absent"]
     \/ UNCHANGED disk
  /\ UNCHANGED <<row, object, profile, archive, saved, finalizing, aged,
                 expired, locked, admin>>

(* ... and the row at the commit, which waits for a lock on it.  The remote *)
(* object is not touched.                                                  *)
DeleteRow(r) ==
  /\ r \in deleting
  /\ r \notin locked
  /\ row' = [row EXCEPT ![r].live = FALSE]
  /\ deleting' = deleting \ {r}
  /\ UNCHANGED <<disk, object, profile, archive, saved, finalizing, aged,
                 expired, locked, condemned, admin>>

AdminStep ==
  /\ admin < MaxAdmin
  /\ admin' = admin + 1
  /\ UNCHANGED <<row, disk, object, saved, finalizing, aged, expired, locked,
                 deleting, condemned>>

(* PUT /storage/archive *)
PutArchive(p) ==
  /\ AdminStep
  /\ p # NoProfile => profile[p] \in {"enabled", "unreadable"}
  /\ archive' = p
  /\ UNCHANGED profile

(* PATCH /storage-profiles/{id}: only a profile that can be read and probed *)
(* is saved; new credentials make an unreadable one readable again.        *)
UpdateProfile(p, status) ==
  /\ AdminStep
  /\ profile[p] # "deleted"
  /\ status \in {"enabled", "disabled"}
  /\ profile' = [profile EXCEPT ![p] = status]
  /\ UNCHANGED archive

(* The server's secret key changes: sealed credentials no longer open.     *)
LoseKey(p) ==
  /\ AdminStep
  /\ profile[p] = "enabled"
  /\ profile' = [profile EXCEPT ![p] = "unreadable"]
  /\ UNCHANGED archive

(* DELETE /storage-profiles/{id}: refused for the archive destination.     *)
DeleteProfile(p) ==
  /\ AdminStep
  /\ profile[p] # "deleted"
  /\ archive # p
  /\ profile' = [profile EXCEPT ![p] = "deleted"]
  /\ UNCHANGED archive

StoreNext ==
  \/ SaveRecording
  \/ \E r \in Recordings : QueueForProfile(r)
  \/ \E r \in Recordings : LeaveLocal(r)
  \/ Age
  \/ Expire
  \/ \E r \in Recordings : DeleteFile(r)
  \/ \E r \in Recordings : DeleteRow(r)
  \/ \E p \in Profiles \cup {NoProfile} : PutArchive(p)
  \/ \E p \in Profiles, s \in ProfileStates : UpdateProfile(p, s)
  \/ \E p \in Profiles : LoseKey(p)
  \/ \E p \in Profiles : DeleteProfile(p)
=============================================================================
