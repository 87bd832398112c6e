# TLA+ models of the media engine

This directory models the job pipeline of `src/app` in TLA+. It holds the
modules, the TLC configurations that check them on small instances, and the
TLAPS proofs of their invariants for every value of the constants.
`PROJECT.json` is the machine-readable index. It lists the components, the
runs, the mutants, the map from definitions to source lines, the findings,
the hazards and the theorems.

## The system

The service is a FastAPI application (`main.py`) built on one `JobManager`
(`jobs.py`).

- `submit_job` stores the upload and a `JobRecord` with status `queued`.
  It then awaits `queue.put` on an `asyncio.Queue(maxsize=max_queue_size)`.
- A single worker task (`_worker`) takes WorkItems from the queue. It skips a
  job that was cancelled while queued. Otherwise it sets the job to
  `processing` and awaits `TranscodeEngine.process`.
- `process` runs `_process_sync` in an executor thread. That thread probes the
  file and picks a profile, a codec and a path (remux, CPU, or RKMPP hardware
  with a fallback over filter candidates). It runs ffmpeg, writing
  `transcode_media_seconds` into the shared record from the progress pipe,
  and moves the result into `output_dir`.
- Back on the event loop, the worker sets `completed` or `failed`. It then
  awaits `_fire_callback`, which calls `CallbackDispatcher.dispatch`: up to
  `callback_max_attempts` POSTs with exponential backoff.
- `cancel_job` marks any non-terminal record `cancelled`.
- `_maintenance_loop` runs `purge_expired_jobs` every 60 s. That removes
  every record whose `updated_at` is older than the retention, deletes its
  files, and pops it from `records`.
- `to_detail` derives the progress and the ETA from the record.
- At shutdown, `main.py` awaits `JobManager.stop()`, which sets `_shutdown`,
  cancels the worker and maintenance tasks and awaits them, and then closes
  the dispatcher's HTTP client.

Handlers on the event loop are atomic between their awaits. The executor
thread runs truly in parallel and touches only the record (progress,
duration) and the files.

## Modules

| Module | Models | Sources |
|---|---|---|
| `JobManager` | the JobManager, the worker, the executor thread's steps, the callback dispatcher, `stop()`, the `to_detail` view | `jobs.py`, `engine.py` 34-102, 223-324, `callbacks.py` 28-42, `main.py` 53-58 |
| `JobLifecycle` | the abstract job lifecycle of spec sections 3 and 4.1, which `JobManager` refines | spec |
| `MCJobManager` | the TLC instance, with a symmetry set over job ids | |
| `TranscodePlan` | the decisions of `_process_sync`: profile, codec, remux, RKMPP or software path, encoder, filters, output size and rate | `engine.py` 28-221, 362-429, `profiles.py`, `models.py` |
| `MCTranscodePlan` | the bounded probe results for TLC | |
| `JobManagerProofs` | the TLAPS proofs about `JobManager`, the refinement included | |
| `JobManagerWorkProofs` | the TLAPS proofs of `WInv` and of the work-dir, ETA and progress invariants | |
| `TranscodePlanProofs` | the TLAPS proofs of the plan invariants of `TranscodePlan` | |

### JobManager: state

- `records` is the key set of `JobManager.records`.
- `status`, `updated`, `hasCallback`, `duration` and `processed` are the
  `JobRecord` fields `status`, `updated_at`, `callback_url is not None`,
  `media_duration_seconds` and `transcode_media_seconds`. Times are ticks of a
  bounded clock `now`.
- `started` and `finished` are the jobs with `transcode_started_at` and
  `transcode_finished_at` set.
- `outPath` holds the jobs with `output_path` set.
- `queue` is the asyncio queue, a sequence of job ids.
- `putters` holds the submit tasks suspended in `queue.put`.
- `srcFiles`, `workFiles` and `outFiles` say which files exist in input_dir,
  work_dir and output_dir.
- `worker` is where the worker task is suspended: idle in `queue.get`, in the
  engine, in a callback POST or in the backoff sleep with its attempt number,
  or ended by `stop()`. It keeps the job it held when it was stopped.
- `engine` is the executor thread: its phase, the chosen path (`mode`), the
  RKMPP filter candidates left, and the last ffmpeg out_time of the current
  run.
- `delivered` is the status in the last callback payload, and NoValue when
  none was sent.
- `created` and `dequeued` are history variables. They give the submission
  order and the dequeue order.
- `stopped` is the `_shutdown` event: `stop()` has run.

### JobManager: actions

There is one action per handler segment between awaits:

- `Submit` is `submit_job` up to `put`, and `SubmitResume` is a suspended put
  that resumes.
- `Cancel` is `cancel_job`.
- `Purge` is one whole pass of `purge_expired_jobs` with no await inside.
- `Tick` is the clock.
- `WorkerDequeue` is `queue.get` plus the cancelled test, or the switch to
  processing.
- `EngineProbe` is `_probe`, `_select_profile` and the choice of path.
  `EngineProgress` is one `out_time_ms` line. `EngineSucceed` is an ffmpeg
  exit 0 plus the move. `EngineFail` is a non-zero exit plus the RKMPP
  fallback.
- `WorkerFinish` is the success or except branch of `_worker` plus
  `_fire_callback`.
- `CallbackSucceed` and `CallbackFail` are one POST attempt each. A failure
  puts the worker in the backoff sleep. `CallbackBackoff` is the end of that
  sleep: the next attempt, or the end of the dispatch after the last one.
- `Stop` is `stop()`. The worker's `CancelledError` escapes its
  `except Exception` wherever it is suspended, so the task ends. The
  maintenance loop ends too, so `Purge` needs `~stopped`. The executor thread
  cannot be cancelled: its actions stay enabled, and no worker is left to
  record their outcome. `Halted` is the process after shutdown (a final
  stutter), so a stopped system is not reported as a deadlock.

Inside `JobManager`, the engine's decisions are a nondeterministic `mode` and
candidate count. They are modelled exactly in `TranscodePlan`. Every
combination `JobManager` allows there (remux, cpu, or hw with one or two
candidates) is a plan `TranscodePlan` can produce.

### TranscodePlan

- The constants are the values ffprobe and the ffmpeg build can report:
  widths, heights, codec names (including upper-case ones, for `lower()`),
  containers, and the RKMPP decoder and encoder names.
- A container is the set of its demuxer names. `"mp4" in container.lower()`
  becomes membership of `"mp4"`.
- `ChooseProfile` translates `choose_profile`, including its
  `sorted(..., reverse=True)` loop, with `ProfilesSortedBy` and
  `SelectInSeq`. `ProfilesSortedBy` is the sequence of the four presets
  ordered by the key; it is written as a CHOOSE over sequences rather than
  with TLC's `SortSeq`, whose definition TLAPS cannot expand. The heights
  are distinct, so the stable sort has exactly one result.
  `ResolveCodec`, `ShouldRemux`, `SelectRkmppCodecs` and `HevcRateControl`
  follow their methods line by line.
- `Plan` composes them as `_process_sync` does. It fails with
  UnknownResolution when the probe has no width or height. It also records
  the output size and encoder each path writes: the software path scales and
  pads to the profile, the RKMPP path pads to multiples of 16, and remux
  copies.
- The state holds the capability listings, `/dev/rga` and a `/dev/dri`
  device (fixed at construction), one probe result and request, and the
  plan. `Process` computes the plan. `Done` is the engine waiting for the
  next job.

For each property a mutant checks, the module defines a mutant operator just
before the action it replaces. Each mutant is a plausible bug: a dropped
guard, an off-by-one, a missing backfill, a payload built too early.

## Runs

| Run | cfg | Result | What it shows |
|---|---|---|---|
| main | `MCJobManager.cfg` | pass | With 2 jobs, a 1-slot queue, clock 0..1, retention 0, media 0..2 s, 2 callback attempts and `stop()`, every safety invariant holds in all interleavings, and every behaviour is one of `JobLifecycle` under the refinement mapping (about 1.8M distinct states) |
| live | `MCJobManagerLive.cfg` | pass | `EveryJobFinishes`: under fairness, every queued job reaches a terminal status unless the manager is stopped |
| terminal_stable | `MCTerminalStable.cfg` | violation | A cancel while processing is overwritten by `completed` |
| queued_has_item | `MCQueuedHasWorkItem.cfg` | violation | A full queue does not raise QueueFull; the record is listed with no queued WorkItem |
| fifo | `MCFifoOrder.cfg` | violation | A fresh `put_nowait` overtakes a woken putter |
| purge_only_finished | `MCPurgeOnlyFinished.cfg` | violation | A queued record is purged with its source file |
| progress_monotone | `MCProgressNeverRegresses.cfg` | violation | Progress goes back after an RKMPP fallback |
| stop_no_transcode | `MCStopLeavesNoTranscode.cfg` | violation | `stop()` returns while the executor thread still transcodes (spec sections 4.1 and 5 ask it to await termination) |
| cancel_notified | `MCTerminalJobNotified.cfg` | violation | A job cancelled while queued never gets its callback, though spec section 3 says every terminal transition triggers one |
| plan | `MCTranscodePlan.cfg` | pass | Over 290,880 combinations of probe result, request and capabilities: `AutoProfileHighestFitting` (the auto profile is the highest one the source reaches, per the spec's set definition rather than the code's loop), `RemuxIffRule` (remux exactly by the spec's three clauses), `OutputCodecIsTarget` (every path writes the resolved codec) |
| plan_upscale_remux | `MCPlanUpscaleNeverRemuxes.cfg` | violation | A 426x240 h264 MP4 with an explicit larger preset is remuxed, against the spec's 240p-to-1080p example |
| plan_decoder_device | `MCPlanDecoderNeedsDevice.cfg` | violation | The RKMPP decoder is used with no acceleration device |

All runs except plan use `MCJobManager`.

Two divergences from the spec are recorded as hazards in `PROJECT.json` with
no run of their own:

- `dispatch` sleeps after its last failed attempt too (`callbacks.py` 41).
  The model has that sleep (`CallbackBackoff` after the last attempt ends the
  dispatch without a retry), but no state another property observes depends
  on it.
- The RKMPP filters only pad the source to multiples of 16 and never scale
  (`engine.py` 234), so 1920x1080 is written as 1920x1088. `TranscodePlan`
  computes that size (`CeilTo16`); a unit test reaches it directly.

The properties of the passing runs:

- `OutputIffCompleted`: output_path is set exactly for completed jobs.
- `CompletedOutputOnDisk`: a listed completed job has its file.
- `CallbackMatchesStatus`: the payload carries the final status and it stays
  final.
- `EtaClearedWhenDone`: there is no ETA once a job is finished.
- `WorkFileOnlyAfterFailure`: a file left in work_dir belongs to the running
  transcode or to a failed or cancelled job, never to a completed one. The
  software and remux paths do leak their partial file on failure; this
  bounds the leak.
- `WInv`: the inductive invariant of the proofs: `IInv`, the two conjuncts
  of `RInv` and three more (below).
- `LifecycleRefinement`: `JobLifecycle!Spec` under the
  mapping.
- `TypeOK`: the type invariant.

Each of these properties has a mutant, listed in `PROJECT.json`, that TLC
finds violating it.

**Bounds.**

- Two jobs are enough for every two-actor race: submit against a full queue,
  cancel against the worker, purge against the worker. A one-slot queue makes
  the queue full and a suspended put reachable.
- The clock bound 1 with retention 0 lets a record expire, so purge races
  the worker and a suspended put.
- Media seconds 0..1 let a job report progress, which is what the ETA
  invariant needs. No property of the main run depends on ffmpeg reporting
  past the duration. The `progress_monotone` violation needs a fallback
  that reports less than before, and media 0..1 is enough for it.
- Two callback attempts exercise both the retry and the exhaustion.
- The liveness run uses the same bounds without symmetry. A record can
  still expire and a putter can still wait, and the run takes about two
  minutes.
- The FIFO violation needs three jobs (one in the worker, one queued, one
  suspended), so that cfg has three.
- The violation runs use the smallest instance that shows their trace.
- `MCTranscodePlan` covers each profile's threshold values in both
  dimensions (426, 1280, 1920, 3840 by 240, 720, 1080, 2160), so both clauses
  of the auto test and both size clauses of the remux test are exercised.
  It also covers a source below every profile, a missing width or height,
  h264, HEVC and vp9, MP4 and Matroska, and every subset of the two RKMPP
  codecs.
- Job ids are interchangeable, so the main run uses symmetry.
  The liveness run does not, because symmetry is unsound for liveness.

**Fairness** (`Fairness` in `JobManager`).

- There is weak fairness on `WorkerDequeue`, `EngineProbe`,
  `EngineSucceed \/ EngineFail`, `WorkerFinish`, the callback attempts and
  `CallbackBackoff`. The worker loops until stopped, the executor thread runs
  what it is given, httpx's timeout ends every POST, and `asyncio.sleep`
  returns.
- There is weak fairness on each `SubmitResume(j)`. asyncio wakes a putter
  whenever a slot frees.
- ffmpeg is assumed to exit. The code sets no timeout (hazard at
  `engine.py:327`).
- Client actions (submit, cancel), the clock and `Stop` get no fairness.
  Nothing forces a shutdown, so `EveryJobFinishes` excuses only a stopped
  manager.

## Proofs

`JobManagerProofs` proves, for every value of the constants that satisfies
`ConstantsAssumption` (a positive queue size and attempt count, naturals for
the bounds, and NoValue distinct from job ids and numbers):

- `IInvInvariant`: `Spec => []IInv`.
- `TypeCorrect`: `Spec => []TypeOK`.
- `OutputIffCompletedInvariant`: `Spec => []OutputIffCompleted`.
- `CompletedOutputOnDiskInvariant`: `Spec => []CompletedOutputOnDisk`.
- `RInvInvariant`: `Spec => []RInv`.
- `Refinement`: `Spec => LifecycleRefinement`. `JobManager` implements
  `JobLifecycle`.
- `CallbackMatchesStatusInvariant`: `Spec => []CallbackMatchesStatus`.

`JobManagerWorkProofs` proves, under the same assumption:

- `WInvInvariant`: `Spec => []WInv`.
- `EtaClearedWhenDoneInvariant`: `Spec => []EtaClearedWhenDone`.
- `WorkFileOnlyAfterFailureInvariant`: `Spec => []WorkFileOnlyAfterFailure`.

`TranscodePlanProofs` proves, for every set of widths and heights of
positive naturals, codec names, containers and RKMPP listings
(`PlanAssumption`):

- `PlanTypeCorrect`: `Spec => []TypeOK`.
- `AutoProfileHighestFittingInvariant`: `Spec => []AutoProfileHighestFitting`.
- `RemuxIffRuleInvariant`: `Spec => []RemuxIffRule`.
- `OutputCodecIsTargetInvariant`: `Spec => []OutputCodecIsTarget`.

`OutputIffCompleted` alone is not inductive. Cancel must not reach a
completed job, and the worker must not mark completed a job that already has
an output. Both depend on where the job is. The invariant `IInv` adds these
facts:

- `WorkerOwnsJob`: while the worker is in the engine phase, the engine runs.
  While the engine runs, the worker is in the engine phase or stopped. The
  engine's job is processing or cancelled and is in no queue. `stopped`
  holds exactly when the worker task has ended.
- `WaitingItemsPending`: the queue has no repeated job. Queue and putters are
  disjoint. Every waiting job is queued or cancelled, so the head the worker
  takes has no output.
- `EngineOutputMoved`: a successful engine run has already put the file into
  output_dir.

**Refinement.** The mapping sends `status` to `AbsStatus`, and `output` to
`outPath`. `AbsStatus` is the record's status, except that a job labelled
cancelled while the engine runs it counts as processing. That label is the
`TerminalStable` finding: the worker overwrites it. At the abstract level,
only a queued job can be cancelled, and a terminal status never changes.
The proof needs `RInv`, which is `IInv` with two more facts:

- `ProcessingOwned`: a processing record is the engine's job.
- `RecordsAccepted`: a listed record was submitted.

Under `RInv`, the steps map as follows:

- `Submit` is `Accept`.
- `Cancel` is `CancelQueued` on a queued job, and a stutter on the running
  one.
- `WorkerDequeue` is `Start`, or a stutter when it skips a cancelled item.
- `WorkerFinish` is `Complete` or `Fail`.
- Every other step, `Stop` and the executor thread after it included,
  changes neither a mapped status nor an output path (`QuietStep`).

Because of `ProcessingOwned`, the worker's finish always finds its job
processing at the abstract level. `CallbackMatchesStatus` follows from
`RInv` by one step lemma. A
delivered status is completed or failed, and a job in either status is in no
queue, is not the engine's job, and can no longer be cancelled.

**Work files and finish times.** `WorkFileOnlyAfterFailure` is not
inductive by itself: `EngineSucceed` moves the file, and `WorkerFinish` then
marks the job completed, so the completed step must know that the file is
already gone. `EtaClearedWhenDone` needs every completed or failed record to
have a finished time, whoever wrote the status. `WInv` is `RInv` with:

- `DoneIsFinished`: a completed or failed record has a finished time.
- `SucceededRunMoved`: after a successful engine run the job's file is no
  longer in work_dir.
- `WorkFileOnlyAfterFailure` itself.

`DoneStep` and `WorkStep` show each conjunct preserved by every action
(`WorkStep` has one case per action).

**Plans.** `TranscodePlan`'s state changes only in `Process`, so the
invariant `PInv` says that a decided plan is `Plan` of the current inputs.
The work is in the lemmas about `Plan`:

- `SortedProfilesValue`: the sorted table is `<<2160p, 1080p, 720p, 480p>>`.
  `ProfilesCount` shows the table has four distinct presets, and
  `DescendingUnique` that exactly one sequence of them is strictly
  descending in height.
- `AutoChoice`: in auto mode `ChooseProfile` returns the tallest fitting
  preset, or 480p. `SelectInSeq` finds the least index that fits, and in a
  descending sequence that is the tallest.
- `PlanFields` states each field of a plan with a known resolution, and
  `PlanType` that every plan is in `PlanRecords`. `DecidedFacts` and
  `DecidedPlan` carry them over to the engine's state under `PInv`.
  `ResolveCodecTarget` shows that the target is h264 or h265.

The three plan invariants follow from `PInv` and these lemmas.

The proof has one lemma per action, each citing only the definitions that
action touches. `AppendElems` and `TailElems` are lemmas on the elements of
`Append` and `Tail`, and `AfterFinishEffect` states what `_fire_callback`
leaves behind. `NextIInv` combines the per-action lemmas. The temporal
theorems follow by PTL.

**Only model-checked:**

- The liveness property `EveryJobFinishes`: TLAPS does not handle fairness
  or ENABLED.
- The plan runs' other properties (`plan_upscale_remux`,
  `plan_decoder_device`) are violations that TLC exhibits; there is nothing
  to prove about them.
- Everything in the findings: those are counterexamples, found by TLC.

**Left out.** Two properties are not stated at all because they could not
fail:

- "Progress is at most 1". It is `min(processed, duration) <= duration`,
  which holds whatever the code does.
- "A cancelled job is never started". It restates the single test at
  `jobs.py:216`, and dequeue is the only step that sets processing. The
  stale cancel that matters, the worker overwriting a cancel made during
  the transcode, is the `terminal_stable` finding.

The purge boundary is also not checked. Spec line 94 purges at
`now - updated_at >= retention`; `purge_expired_jobs` needs the age to
exceed the retention (`jobs.py:188`). `Expired` models the code's strict
test, and the difference only delays a purge by one tick.

## Not modelled

- `probe.py`: ffprobe and its JSON parsing.
- `main.py`: the HTTP routes.
- `config.py`: the settings, whose values appear as CONSTANTS.
- `selftest.py`.
- `JobManager.start`: `Init` is the state after it. A `start()` after
  `stop()` creates loops that exit at once on `_shutdown`.
- `_query_ffmpeg_list`, which parses `ffmpeg -encoders` output. Its result
  is a free subset of the RKMPP names in `TranscodePlan`.
- The length of the dispatcher's backoff sleeps. The sleep is a phase, not a
  duration.

## Plan

1. Done: `TranscodePlan`, the `JobLifecycle` refinement with its proof,
   `stop()`, the work-dir leak, the backoff phase, and the proofs of
   `CallbackMatchesStatus`, and the proofs of every safety invariant of
   the main and plan runs.
2. Drive the engine's `mode` in `JobManager` from `TranscodePlan` instead of
   a free choice.
3. Model the HTTP download route against purge. `FileResponse` opens the
   file after the handler has returned, so a purge in between would be
   visible.
