# Nurby: a TLA+ model of footage, alerts and observations

Nurby is a self-hosted camera recorder: an ingestion process cuts camera streams
into recordings, a perception process turns key frames into observations, a rule
engine turns observations into events and alerts, and an API process serves the
web and mobile clients. PostgreSQL holds the rows, Redis carries streams, queues,
cooldowns and invalidations, and the footage lies in local files and, for cameras
with an archive, on an FTP server or in an S3 bucket. Everything is asyncio:
within a process, tasks interleave at each `await`; between processes only the
database, Redis and the file system are shared.

This directory holds the specification of the parts where that concurrency
decides whether footage survives, whether observations are described and filed,
and whether alerts are raised. Source paths below are relative to the repository.

## Inventory

| component | state | operations | hard behaviour | what makes it correct | modelled |
|---|---|---|---|---|---|
| recording rows (`shared/models/cameras.py`, `services/ingestion/stream.py`, `services/api/routes/recordings.py`, `storage_profiles.py`, `shared/archive.py`) | rows, local files, remote objects, profiles, the archive setting | save a segment, queue it for the camera's profile, delete, play; change the archive, edit or delete a profile | row and file change in separate steps of separate processes | a row leads to its footage | `RecordingStore` |
| upload worker (`services/ingestion/remote_upload.py`, `shared/remote_storage.py`) | `remote_state`, `remote_attempts`, one transaction per batch of ten | select, send, verify, remove the local file, commit | files change before the commit; a row deleted meanwhile rolls the batch back | no footage is lost; each queued recording settles | `RemoteUpload` |
| retention (`services/ingestion/retention.py`) | none of its own: rows read at the start of a phase | age, size, archive expiry, low-disk guard | acts on rows read earlier, while uploads go on | only footage that is due goes; what the archive owns stays | `Retention` |
| privacy blur (`services/ingestion/blur_worker.py`) | a task in memory, a temporary file, `blur_status` | scan, rewrite, swap, update the row | two passes over a file others may remove; swap and row update are apart; an encoder that dies and an update that fails go unnoticed | the recording stays usable; a finished one never shows the original | `RecordingBlur` |
| sequence rules (`services/events/sequences.py`, `sequence_sweeper.py`) | rows of `rule_sequence_instances` | start, advance, confirm, restart, complete, expire | each query is a transaction; evaluators and sweeper race | one instance per key, one outcome, one alert | `SequenceRules` |
| rule engine and firing (`services/events/engine.py`, `firing.py`, `services/api/routes/rules.py`) | rule cache, cooldowns, visit and incident dedup, streaks of frames | reload, invalidate, evaluate, claim, store | check, awaits, act; reload against invalidation; Redis fails in between | one alert per cooldown, visit, incident; edits take effect | `RuleEngine` |
| VLM queue (`services/perception/vlm_queue.py`, `vlm_backlog.py`, `vlm_pacing.py`) | two capped Redis lists and a worker per camera, frames with a lifetime | admit, enqueue, pop, describe, measure | the idle worker stops while a job arrives; evictions judged by an old size; every reader of the status may change it | a job skipped or knowingly evicted is counted; the tile shows that jobs wait | `VlmQueue` |
| captions and enrichment (`services/perception/vlm_enrichment_worker.py`, `shared/models/observations.py`) | the ledger of passes of an observation, its caption | caption, refine, spend a lens, summarise | writers read the row, call a model for a while, and append | passes numbered, immutable; one summary in force | `VlmCaptions` |
| trackers (`services/perception/incident_tracker.py`, `journey_tracker.py`, `pipeline.py`, `conversation_finalizer.py`) | open incidents, journeys, conversations | file a sighting, extend, close, tell guardians | the finalizers close rows the pipeline has read and will write | each sighting filed once; what is closed stays closed | `Trackers` |
| action chain (`services/events/actions.py`) | vars of a chain | run the actions, fan out | one step of several fails | no action without an event | no |
| notifications (`services/notify/telegram_poller.py`, `telegram.py`) | update offset, snoozes | poll, answer, acknowledge | restart between handling and offset | no command is run twice | no |
| agent (`services/agent/driver.py`, `budget.py`) | runs, the spent budget | plan, call tools, stop | check before, spend after an await | the budget holds | no |
| guardian (`services/guardian`) | links, claims, alerts | claim, revoke, alert | revocation during delivery | only a live link is served | no |
| perception, tracking, identity (`services/perception/detector.py`, `associator.py`, `reid.py`, `faces.py`) | tracks, embeddings | detect, associate, store | numeric | statistical | no |
| capture (`services/ingestion/stream.py`, `manager.py`, `mediamtx_mux.py`) | workers per camera, ffmpeg processes | start, stop, reconnect | threads, restarts | each enabled camera is recorded | no |
| search, digests, voice, grounding, discovery, MQTT, MCP, API, migrations, frontend, mobile, deployment | little or none | | | not the subject of this model | no |

The components meet in three places: the rows, files and objects of a recording
(capture, uploads, retention, blur and the API), the observations (perception,
captions, trackers, rule engine), and the events (rules to firing to
notifications).

## Modules

Recordings:

- `RecordingStore` is the shared state: `row` (a record per recording with `live`,
  `path`, `remote`, `profile` and `attempts`), `disk` (the file
  at each path: absent, raw, blurred or empty), `object` (what each profile holds),
  `profile` (enabled, disabled, unreadable, deleted), `archive` (the setting),
  `aged` and `expired` (how many recordings time has carried out of the local and
  the archive window), `locked` (rows the open upload transaction has flushed) and
  `condemned`, a history variable: recordings that a user, a retention rule or the
  low-disk guard decided to drop. Its actions are the stream worker's save, the
  API's delete in its two steps, and the admin's changes.
- `RemoteUpload` is `process_batch` and `_process_one`: the batch is selected, each
  recording is flushed (autoflush takes the row lock), given up or sent, its local
  file removed, and one commit or rollback ends the batch. `RemoteUploadProofs` holds
  the lemmas that every proof about uploads shares.
- `Retention` is the hourly pass: each phase loads its rows (`ret.seen`) and acts
  on that copy, with its own commit or rollback.
- `RecordingArchive` composes the three with crashes of the ingestion process and
  states the properties. `FootageVault` is what it promises: footage that is kept
  stays kept until it is condemned. `RecordingArchiveProofs` holds the proofs.
- `RecordingBlur` composes store and upload worker with the blur task of each
  recording and its `blurStatus`; `MCRecordingBlur` restricts it to installations
  without an archive. Two failures the code does not notice are actions of their own:
  `EncoderDies`, after which the pass swaps in a truncated copy, and `Refused`, an
  update of the row that is logged and taken for done. The history variables `spoilt`
  and `unsaid` remember which recordings they struck, so that the properties can say
  what holds of the others. `RecordingBlurProofs` holds the proofs.

Observations:

- `VlmQueue` is one camera's queue: `lanes` (the two capped Redis lists), `fresh`
  (the jobs whose frame and provider still exist), `memory` (the in-memory fallback),
  `pipe` and `worker` (the pipeline's place in an enqueue and the worker task, each
  with its job and what it read), `stats` (the camera's counters), `gone` and `spent`
  (history: lost jobs, and what is used of the bounds). The admission gate reads `stats`; an enqueue reads the
  size of both lanes, pushes, trims, judges by the old size whether something was
  evicted, and starts a worker when it sees none; the worker pops, drops expired
  frames, calls the model, measures, and returns when a blocking pop finds nothing.
  Whoever looks at the statistics runs `update_status` (`Told`): each broadcast, each
  frame at the gate (`Offer`, `Refresh`) and each snapshot may turn "queued" into
  "slow" or "stalled".
- `VlmCaptions` extends that queue with the ledger of passes of one observation
  (`row`), the queue's jobs being its live captions: the live patch, `refiners` and
  the enrichment worker (`enrich`) each read the row, await a model and append a pass
  numbered from a read of their own. An attempt of enrichment may also end with no
  more than a touch of the row (`EnrichTouch`). `VlmQueueProofs` and `VlmCaptionsProofs` hold the proofs.
- `Trackers` is the filing of observations: `tx` is the pipeline's transaction with
  the rows it read and changed, `incident` and `journey` the tables, `closing` and
  `parting` the two finalizers with the rows of their tick and the one in hand, and
  `guardian` the last thing guardians heard of each subject. A commit writes the
  columns the pipeline changed into the rows as they are then (`Merge`).
  `MCTrackers` says what the two cameras show; `TrackersProofs` holds the proofs.
  Cameras without `incident_tracking_enabled` file nothing and are outside it.

Alerts:

- `RuleEngine` is one rule on one camera. `engine` is the `RuleEngine` object
  (the cached list, visits, the incident dedup, streaks, the cooldown microcache),
  `redis` the shared cooldown key, `task` the two evaluations that can be under way
  with what each has read, `db` whether the rule is enabled, `admin` an edit and its
  message, `left` the tracks that have gone, and `alert` and `history` what the
  properties compare with. One `gate` per instance (none, visit, incident,
  frames) decides which dedup applies; `MCRuleEngine` takes an instance of each.
  `RuleEngineProofs` holds the proofs.
- `SequenceRules` gives each evaluator a program counter (`ev[e].stage`) that moves
  from one transaction of `evaluate_sequence` to the next and holds the rows it
  read; a write merges the columns SQLAlchemy found changed into the row as it is
  now (`Merge`). `inst` is the table, `sweep` the sweeper, `completed` and
  `timedOut` count the chains an instance has fired. `SequenceRulesProofs` holds the
  proofs, and `MCSequenceRules` adds the symmetry of evaluators for TLC.

Operators commented "Fault: ..." are no part of a specification: each is a definition
with a plausible bug (a dropped guard, a missing reset), put in the place of the
definition it follows to show that a property can fail.

### How the code maps to the model

`PROJECT.json` ("map") names the lines of every definition. The main abstractions:

- The camera's retention mode is read anew by each pass: an admin may change it
  among `RetentionModes` at any time.
- A recording is a number, and numbers are in the order of `started_at`. All sizes
  are one, so a budget is a count. One camera; its profile is `CameraProfile`.
- A file or object is described by what a viewer would see: nothing, the original,
  the blurred version, or an empty file.
- The upload worker's transaction is explicit: its changes to rows are in `up` and
  reach `row` at the commit. Files and objects change at once, as they do in the
  code. A flushed row is locked until then; writers of the same row wait.
- A network call may fail after it had its effect (`UpSendFails`, `DeleteRemoteCopy`).
- A VLM job is a number in the order of arrival; its text, its image and the
  filters before the queue (`vlm_dedupe.py`, `vlm_gate.py`) decide nothing but
  whether it is offered. A pass is its number, kind, lens, writer and authority.
- A rule is its gate, its cooldown and whether it is enabled. What a frame shows is a
  set of tracks, those of its detections that the trigger matches, with or without a
  track (the tracker follows some labels only), and an incident.
  Other workers' events reload the list and end visits, but match no rule.
- An incident or journey is named by the sighting and the subject that opened it;
  a subject is a signature, of a kind that has journeys (`Followed`) or not. Two
  scenes with the same signature are left to chance (`ExtendScene` may happen).
  Frames of one camera are in order, those of two cameras up to `Skew` out of it.
- A sequence rule is its number of steps, confirmations, cap and refire mode; what
  a frame matches is any set of steps, the keys it carries any set of keys.
- Time is a counter that stops at a bound; windows and lifetimes are a few ticks.
  Recordings only know the order in which time passes them.

## Runs

| run | asks | size |
|---|---|---|
| `footage` | does footage survive, does an uploaded row lead to its object, does archive expiry leave no orphan, is every step one of `FootageVault`, with age-based retention and the low-disk guard | one recording, two profiles, one admin change, one crash, settings reads that fail |
| `footage_pair` | does local retention keep what the archive owns, as read and as it is by then, while batches roll back | two recordings in one batch |
| `footage_settles` | does every queued recording settle, is every aged-out one queued | one recording, two attempts, fairness |
| `blur` | short of a delete or crash, does a failed pass leave the recording playable, does a finished one hide the original, is every segment looked at unless its status update is refused, is an upload given up for a missing file tried again | one segment, one delete, a profile whose uploads drop the local file, encoders that die and updates that are refused at any time, fairness |
| `blur_crash` | is a copy left at each point of the swap, unless a dead encoder spoilt it; short of a crash, can every recording be played, but for those the two unnoticed failures strike | two segments, one protected, one delete, one crash, the same failures |
| `vlm_queue` | is every job skipped or evicted counted as dropped, does a tile with jobs and no worker never say idle, does a running worker drain both lanes | four jobs, lanes of two, slow and late answers or not (`Paces`), one failure, one restart, fairness |
| `captions` | do passes stay numbered and unedited, is the summary in force the caption shown, is each raw lens spent once, does enrichment end unless it only touches the row | two live captions through lanes of two, five passes, one restart, fairness |
| `trackers` | is each stored sighting in one incident per subject, are incidents apart by their window, do journeys last as long as their incidents, does what is closed stay closed, do guardians hear of departures | two cameras, two subjects of which one has journeys (`ScenesSeen`), two sightings up to two ticks apart, windows of one tick, frames one tick out of order, one failing write, refresh or restart, fairness |
| `rules` | does the cooldown hold across restarts and failing reads, does the dedup forget no incident too early and mute only tracks that were there at an alert, is a disabled rule quiet in time, are frames counted within their window only | one rule of each gate, five frames at most, a dedup of two incidents, a window and a cache of one tick, an event, an edit, a fault and a restart in the combinations of `MCRuleEngine` |
| `sequences` | cap, deadlines, one completion, an alert for each expiry, an end for each instance | one evaluator, two keys in a frame, two instances, fairness |
| `sequence_shared` | at most one alert, no return from the dead | two interchangeable evaluators, one step confirmed over two frames, one instance, three observation times, one crash |

Two recordings are enough for a batch to have a row that succeeds before one that
fails it, for size retention to have an older and a newer row, and for a lock of
one to hold the other up; two profiles for the archive to be changed or to differ
from the camera's own. One crash can fall at every point of every task. Four jobs
over two lanes of two are the least at which a lane evicts while the other still
holds something; five passes hold a caption, the raw lenses and a summary. Two
sightings are an incident and its extension, or two subjects of a frame and the
next, under every state of both finalizers; a window of one tick ends within the
run. Two evaluations of a rule, one edit and one reload are every pair that can
overtake one another. Two evaluators and the sweeper are every pair of writers of
an instance; two instances the least at which a cap or a second start of a key
shows. The clocks run past the last deadline a frame can set.

The type invariants and the inductive invariants of the proofs are no runs of their
own where they are proved; they can be checked by naming them in the same
configurations (`IInv`, `QueueInv` and `CaptionInv` in the proof modules).

Deadlock is not checked where the system may stop: all recordings saved and
settled, all frames processed, time at its bound.

One run shows a disagreement between the code and what it says; it is the entry of
"findings" with the line that says it: in `blur_empties_copy` the source vanishes
between the two passes of the blur, an empty file is swapped in and may be
uploaded over the good object.

### Shown without a run

These are properties the code does not keep, most of them stated by a document or a
comment. Each is defined in its module; put into a configuration with the bounds
named, TLC shows the behaviour.

| property | what happens | what it contradicts |
|---|---|---|
| `UploadedHasObject` (size mode, two recordings, a camera profile) | size mode marks a row for the archive after the worker sent it elsewhere (`retention.py:793`): it ends "uploaded" at a profile that has no object | `models/cameras.py:376` |
| `FailedKeepsLocal` (two recordings in a batch, one attempt) | a rolled-back batch has removed the local file (`remote_upload.py:134`): the next one makes the row "failed", without the file | `docs/storage-architecture.md:66` |
| `OneActivePerKey` (two evaluators, one key) | look-up and insert of an instance are separate transactions (`sequences.py:383`): a key has two, and the cap (`:380`) can be exceeded | `docs/sequence-rules-design.md:131` |
| `OneOutcome` (one evaluator, one step) | an instance expires and completes (`sequences.py:426`) | `docs/sequence-rules-design.md:271` |
| `FailuresLeaveItUsable` (`blur_crash`) | the encoder dies in the second pass (`video_writer.py:89`), which reports success (`blur_worker.py:253`): the truncated copy replaces the original, which is removed. Or the update to "done" fails and is only logged (`blur_worker.py:103`): the row names the removed original | `blur_worker.py:13` |
| `VisitHearsTheUntracked` (gate "visit") | the tracker follows some labels only (`tracker.py:81`); a matched subject without a track is muted while a track alerted for before is on camera (`engine.py:1160`) | `engine.py:1151`: "True when this rule has already alerted for every subject currently on camera" |
| `VisitOnce` (gate "visit") | a payload that carries no tracks ends every visit on the camera (`engine.py:1146`): the next keyframe alerts again | `engine.py:281` |
| `HotFrameIsNotEnough` (gate "frames") | every detection of a frame counts, and those without a track id share one streak: two of them in one keyframe are two sightings (`engine.py:1265`) | `engine.py:176` |
| `SurvivorsAreDrained` | a job that arrives while the idle worker returns (`vlm_queue.py:533`), or before a restart, waits for the next frame | `vlm_backlog.py:24` |
| `PacingReopens` | skipped jobs do not refresh the recorded depth (`vlm_queue.py:547`, `:559`): at the cap no routine frame is admitted | `vlm_queue.py:231` |
| `CeilingHolds` | the depth the gate reads is older than the queue | `vlm_pacing.py:17` |
| `OneAuthoritative` | the summary is published without taking the live pass out of force (`vlm_enrichment_worker.py:742`) | `observations.py:247` |
| `LiveIsPassOne` | a live caption of a later frame, or one that comes after enrichment, is not pass 1 | `observations.py:210` |
| `ClosedWasQuiet` (one subject, time to 4) | which incidents are due is decided once per tick (`incident_tracker.py:502`); one that was seen again meanwhile is closed | `incident_tracker.py:10` |
| `SceneHoldsIncident` (likewise) | a scene that goes on extends its observation but not its incident (`pipeline.py:1319`), which is closed under it | |
| `GuardianKnows` (likewise) | a departure is told after the subject came back (`journey_tracker.py:320`) | `docs/guardian-build-plan.md:147` |
| `ArrivalIsStored` (one failing write) | an arrival is told before its transaction commits (`journey_tracker.py:161`), which may fail | |
| `SegmentsReach` (likewise) | extending the last segment changes a dictionary inside the loaded list (`journey_tracker.py:205`); the new list equals the loaded one and is not written, so segments and the gaps between them keep the first sighting's time | `observations.py:308` |

Reading the code for the models showed more, in places they abstract from: after a
crash between the commit of an expiry and its chain the alert is lost
(`sequences.py:303`); a crash forgets the blur tasks under way (`blur_worker.py:337`),
and one between swap and row update leaves a row without its file (`:314`); a last
status that the database refuses leaves a row "pending" or "processing" for ever
(`:103`); a row
whose profile is gone is selected by every batch although it was given up
(`remote_upload.py:87`); the low-disk guard drops rows whose only copy is remote
(`retention.py:389`); a failed read of the archive setting means "no archive", so age
mode deletes what the archive owns (`app_settings.py:411`); two evaluations of a rule
that matches any payload can both pass the cooldown (`engine.py:264`); a cooldown whose
SET failed is forgotten by a GET that finds nothing (`engine.py:510`); the dedup is
recorded before the event is stored, so a failed store loses the alert of a visit
(`engine.py:287`); the in-memory fallback of the queue is never drained
(`vlm_queue.py:311`), the drop counter may count a job twice (`:455`), and it misses the
jobs lost by a pop that fails after its BRPOP or evicted by a push whose reply is lost;
an expired instance can still be written by an evaluator that loaded it before
(`sequences.py:219`), a step and a deadline included; an enrichment lens whose attempts
bring nothing is tried for as long as the row is a candidate
(`vlm_enrichment_worker.py:425`); a failed refresh after the commit of a departure closes
the journey without telling anyone (`journey_tracker.py:314`); a camera whose
lane is stranded keeps enrichment from all others
(`vlm_enrichment_worker.py:232`); a close that fails is logged and announced all the
same, at every tick (`incident_tracker.py:522`); `incidents_count` of a journey counts
sightings (`journey_tracker.py:120`); the default incident window is longer than the
journey window although the comment says the reverse (`journey_tracker.py:45`).
`StaysUsable`, `ExpiryIsAnnounced` and `StrandedIsNotIdle` are therefore stated up to
the first crash, and `DepartureIsTold` up to the first crash, failed write or failed refresh.
`CopySurvives` and `StaysUsable` of the blur except recordings a dead encoder spoilt,
`StaysUsable` also a refused update of a swapped row, `EveryRecordingIsChecked` any
refused last update, and `RuleFreshness` evaluations whose own reload failed.

## Fairness

`RecordingArchive!Fairness` is weak fairness of the upload worker and of the
retention pass: both are endless polling loops that catch what a pass raises
(`remote_upload.py:62`, `retention.py:229`). `RecordingBlur!Fairness` adds each
blur task, strongly: a task that waits for a row lock has its place in the
database's queue, so the worker cannot overtake it for ever. `VlmQueue` has weak
fairness of the worker, whose model call is bounded by
`VLM_CALL_TIMEOUT_SECONDS` and whose blocking pop by its timeout, and of an enqueue
under way; `VlmCaptions` adds the enrichment loop (`vlm_enrichment_worker.py:829`).
`Trackers` has weak fairness of the pipeline's transaction, of both finalizers, which
poll for ever and catch what a tick raises (`incident_tracker.py:471`,
`journey_tracker.py:270`), and of time. `SequenceRules!Fairness` is weak fairness of
each evaluator, of the sweeper (`sequence_sweeper.py:24`) and of time. Nothing assumes
that an upload succeeds, that a user acts, that a frame comes or that it matches.

Two liveness properties do assume something of the world. `EnrichmentFinishes` is
conditional: the lanes stay empty from some time on, and so do attempts that only touch
the row (no budget, no frame, nothing to sum up, an empty answer of the model, an
exception), of which the code allows any number; its fairness supposes that enrichment
is enabled, has a provider, that the hourly budget is renewed and that the row stays a
candidate. `WorkerDrains` is about finitely many offered frames (`NumJobs`): the pop
serves the high lane first, and an endless stream of high frames would hold the normal
lane back.

## Proofs

All theorems hold for every value of the constants that the named assumptions of
the modules allow (sets, and bounds in `Nat`).

`RecordingArchiveProofs` (any number of recordings, any profiles, batch size,
attempts, budgets, crashes, each retention mode):

- `TypeCorrect`: `Spec => []TypeOK`.
- `IInvHolds`, `FootageSurvives`: `Spec => []CopySurvives`. `CopySurvives` is not
  inductive: that a local file may go rests on what the worker knows, not on the
  row. `IInv` adds what each pending step has secured: a recording past a verified
  send has its footage in the object; a row that says uploaded, or that is about to
  in the open transaction, either still has a local copy or has an object at the
  profile named; what retention has in hand to delete is condemned as it is
  deleted. Each action is a lemma; those that leave files and objects alone share one.
- `ImplementsVault`: `Spec => VaultSpec`, from `IInv` and one step lemma per
  component: a step either keeps the vault's view or drops a condemned recording.
- `ExpiredLeavesNoOrphan`: `Spec => []ExpiryLeavesNoOrphan`. Expiry deletes the object of
  a row it read as uploaded, and an upload still under way would put it back.
  `OrphanInv` says that it cannot be: what the worker has in hand is queued in the
  table (`HandQueued`), and a recording as old as those that expire is not queued
  again once it is uploaded, neither by the stream worker (`FreshInv`: what still waits
  for its target has not aged out) nor by what the pass has in its session.
- `UploadedIsThere`: `Spec => []UploadedHasObject` where `Unmoved`: the camera has no profile
  of its own, or no retention mode is "size". Otherwise size mode moves a row that the
  worker is sending (see "Shown without a run"). `MoveInv` says that the worker's copy of
  a row names the profile the row names, and that what it is about to commit as
  uploaded is there.
- `ArchiveKeepsItsOwn`: `Spec => []OwnedIsKept` where `Steady`: no admin changes a profile or
  the setting, and reading the settings does not fail. A pass works with the setting it
  read at its start, and a failed read means "no archive", so without these the pass
  may drop what the archive owns by then. `OwnerInv` says that what local retention may
  still delete belongs to another profile or to none, and that neither the worker nor
  the stream worker can give it to the archive.

`RecordingBlurProofs` (any number of recordings, profiles and crashes):

- `TypeCorrect`, `IInvHolds`, `DoneNeverShowsTheOriginal`. `IInv` says what a pass may
  have left at the second path, and that a row names that path from the moment its
  status is "done".
- `FootageSurvivesThePass`, `EveryRecordingPlays`, for installations without an archive
  whose camera profile does not drop local files, with the exceptions of `CopySurvives`
  and `StaysUsable`: what a dead encoder spoilt (`spoilt`), and a swapped row whose
  update was refused (`unsaid`). `KInv` says where the footage of a
  recording nobody deleted is at each stage of its task (`Kept`), and that the worker
  only ever holds rows of the camera's profile, so that it removes no file.
- `PassImplementsVault`: under the same hypotheses, and where no truncated copy is ever
  swapped in (`[](spoilt = {})`), the system implements `FootageVault`. Without that
  hypothesis it does not. Refused updates, failed passes and crashes are allowed.
  From `KInv`, what can be watched is what was recorded and not condemned, so each step
  records, condemns, delists a condemned recording, or stutters.
- `FailureLeavesItPlayable`: `Spec => []FailedStaysUsable`, for any profile and archive,
  drop-local included: there the file may go while the pass has it open. `CalmInv` says,
  as long as nothing was deleted and nothing crashed, that until the swap a recording
  has its original or is secured (`Secured`: uploaded, or about to be committed so), that
  what is secured under the original's name is footage in the object, and that the
  path the worker read may be behind the pass but never ahead of it.

`VlmQueueProofs` (any number of jobs, any capacity, failures and restarts):

- `QueueTypes`, `EveryDropCounts`, `WaitingIsShown` (`StrandedIsNotIdle`, which holds
  because `update_status` never makes a status idle, and the idle worker sets it before
  the broadcast it can be overtaken in). That every evicted or skipped job is counted
  although evictions are judged by an old size rests on `SizeInv`: between reading the
  size and pushing, only the worker touches the lanes, so the size read is never
  smaller than what is there; `JobInv` places each job in one lane, the worker's
  hand, the fallback or among the lost.

`VlmCaptionsProofs`, on top of it (any number of jobs and passes):

- `CaptionTypes`, `PassesStayNumbered`, `SummaryStaysInForce`, `RawLensSpentOnce`,
  `PassesAreImmutable`. `CaptionInv` adds what enrichment has in hand: the number it
  read is not above the row's, and the lens it chose is unspent until it commits.

`TrackersProofs` (any cameras, subjects, windows, batch and order of frames):

- `TypeCorrect`, `IInvHolds`, `EverySightingIsFiled`, `WindowsAreApart`, `JourneysLast`,
  `FinalizedForGood`. The properties speak of committed rows, but what is committed
  was computed from rows read earlier. `FiledInv` and `LinkInv` relate the rows of the
  open transaction to the tables as they are now: each is the committed row plus the
  new observation, one per subject, and of the incidents it did not choose none
  is open within the window. This survives the finalizers because they write only the
  state and the end (`ClosesOne`, `PartsOne`). `FrameInv` says that the new observation is
  the newest of its camera, `IncidentInv` that an incident ends by the camera's last
  observation, which together make the newest open incident the right one.

`SequenceRulesProofs` (any number of evaluators, keys, steps, instances and
confirmations):

- `TypeCorrect`, `IInvHolds`.
- `AlertsOnce`: `Spec => []TimesOutOnce`. `IInv` says that an alert has been raised, or
  is in the sweeper's list, only for an instance that is expired, and that it is
  in that list once.
- `FinishedForGood`: `Spec => NeverReactivated`. An ended instance is never active again,
  so no look-up finds it; it may still change, as an evaluator that loaded it before
  writes a step or completion into it. The theorem rests on the part of `IInv` that every
  copy an evaluator holds was read active, so the merge never writes
  "active" over a later status.
- `OnceByEach` and `CapByEach`, for any finite set of evaluators: an instance completes at
  most once per evaluator, and at most `MaxActive` instances per evaluator are active.
  More cannot be had: two evaluators that hold the same active row both complete it,
  and both count before they insert. `CompletionInv` counts, with the completions, the
  evaluators that may still complete an instance (`Handlers`), and `CapInv`, with the
  active instances, those the evaluators may still start (`Slots`); neither sum exceeds
  its bound. For one evaluator these are `OnceByOne` (`CompletesOnce`) and `CapByOne`
  (`CapHolds`).
- `InTimeByOne`: with one evaluator, `StepsInTime`. The deadline in its copy is that of the
  row (`TimeInv`), since the sweeper moves none; with two, another may have moved it.
- `ExpiryAnnounced`: `Spec => []ExpiryIsAnnounced`, which speaks of the time up to the first
  crash: an idle sweeper has nothing left to announce (`AnnounceInv`).

That there are finitely many evaluators is an assumption of `SequenceRules`
(`SequenceAssumption`): they are processes. It is needed to count them.

`RuleEngineProofs` (any rule, tracks, windows, lifetimes, bounds, and any capacity of
the dedup above one; the code has 4096):

- `TypeCorrect`, `IInvHolds`, `CooldownKept`, `DisabledFallsQuiet`,
  `VisitsMuteOnlyTheAlerted`, `IncidentsPassOnce`, `FramesCountInWindow`. Evaluations
  interleave at their awaits, but of the two that can be under way only that of a
  keyframe can match (`SerialInv`), so what it read of the cooldown is still true when it
  claims it. `CooldownInv` says what the microcache and Redis know of the last alert,
  `FreshInv` that a list loaded before a rule was disabled is dated at most one evaluation
  after the edit, although a reload under way can overwrite the invalidation,
  and `GateInv` relates each dedup to the history of what passed: the visits to who was
  on camera, the trimmed map to the order of the incidents, a streak to its sightings.
  The gate records a frame's tracks awaits before the alert is made; `AlertedInv` says
  that each of them has been alerted for since, could not be, or is in the frame whose
  alert is under way, which is over before the next keyframe is looked at (`SerialInv`).

Every safety property of the passing runs is the subject of one of these theorems, with
the hypotheses named above. Only model-checked are the eight liveness properties
(`QueuedSettles`, `AgedOutIsQueued`, `EveryRecordingIsChecked`, `GivenUpIsRetried`,
`WorkerDrains`, `EnrichmentFinishes`, `DepartureIsTold`, `EveryInstanceEnds`): liveness under
fairness is out of the prover's reach.

## Not modelled, and what is left

Within the components above: bulk delete and export routes, the playback cache, S3
storage classes, several cameras sharing a profile, the retention of audio,
transcripts and observations; embeddings, the hourly budget of enrichment,
`audio/vlm_enrichment.py`; what trigger types and conditions compute, loiter and lane
state, veto, household mode and notes; the conversation finalizer, summaries, the
resolve workflow and edits of idle windows; grounding checks of sequence steps
beyond their being slow and their outcome open.

Left for later, in this order: the action chain with its abort, composed with
`RuleEngine` and `SequenceRules` through the events they store; the conversation
finalizer next to `Trackers`; the Telegram offset and the agent's budget.
