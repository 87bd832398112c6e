----------------------------- MODULE JobManager -----------------------------
(***************************************************************************)
(* The job pipeline of src/app/jobs.py: the JobManager with its bounded    *)
(* asyncio.Queue, the single transcode worker, the maintenance loop that   *)
(* purges old records, cancellation, and the callback dispatch the worker  *)
(* awaits after every finished job.  The TranscodeEngine runs in an        *)
(* executor thread (engine.py process -> run_in_executor); its effect on   *)
(* the shared JobRecord and on the files is modelled step by step, its     *)
(* decisions (profile, codec, remux, hardware) as a nondeterministic mode. *)
(*                                                                         *)
(* Every handler of the event loop runs atomically up to its next await;   *)
(* those awaits are the points where the actions below interleave.        *)
(***************************************************************************)
EXTENDS Naturals, Sequences, FiniteSets

CONSTANTS
  Jobs,         \* job ids (uuid4 in submit_job), model values
  MaxQueue,     \* settings.max_queue_size
  Retention,    \* settings.job_retention_minutes, in clock ticks
  MaxTime,      \* bound on the clock
  MaxMedia,     \* bound on media seconds reported by ffprobe / ffmpeg
  MaxAttempts,  \* settings.callback_max_attempts
  NoValue       \* Python None

ASSUME ConstantsAssumption ==
  /\ MaxQueue \in Nat \ {0}
  /\ Retention \in Nat
  /\ MaxTime \in Nat
  /\ MaxMedia \in Nat
  /\ MaxAttempts \in Nat \ {0}
  /\ NoValue \notin Jobs
  /\ NoValue \notin Nat

Terminal == {"completed", "failed", "cancelled"}
Status == {"queued", "processing"} \cup Terminal
Time == 0..MaxTime
Media == 0..MaxMedia

\* The engine's choice of path in _process_sync: remux (_remux), software
\* encode (_transcode_cpu) or RKMPP encode (_transcode_rkmpp).
Modes == {"remux", "cpu", "hw"}

VARIABLES
  now,          \* datetime.utcnow(), a discrete clock
  records,      \* the keys of JobManager.records
  status,       \* JobRecord.status per record object ("none": not created)
  updated,      \* JobRecord.updated_at
  hasCallback,  \* JobRecord.callback_url is not None
  started,      \* jobs whose transcode_started_at is set
  finished,     \* jobs whose transcode_finished_at is set
  outPath,      \* jobs whose output_path is set
  duration,     \* JobRecord.media_duration_seconds
  processed,    \* JobRecord.transcode_media_seconds
  queue,        \* the WorkItems in JobManager.queue
  putters,      \* submit_job tasks suspended in queue.put (queue full)
  srcFiles,     \* jobs whose uploaded file exists in input_dir
  workFiles,    \* jobs with a (partial) ffmpeg output in work_dir
  outFiles,     \* jobs whose finished file exists in output_dir
  worker,       \* the _worker task: where it is suspended, on which job
  engine,       \* the executor thread running _process_sync
  delivered,    \* status carried by the CallbackPayload sent for a job
  created,      \* history: order in which records were created
  dequeued,     \* history: order in which the worker took WorkItems
  stopped       \* JobManager._shutdown is set: stop() has run

vars == <<now, records, status, updated, hasCallback, started, finished,
          outPath, duration, processed, queue, putters, srcFiles, workFiles,
          outFiles, worker, engine, delivered, created, dequeued,
          stopped>>

QueuedItems == {queue[i] : i \in DOMAIN queue}

MinOf(a, b) == IF a <= b THEN a ELSE b

-----------------------------------------------------------------------------
(* The derived view JobRecord.to_detail (jobs.py 50-92).                    *)

\* transcode_progress is computed only when the duration is truthy, the
\* processed seconds are known and the transcode has started.
ProgressDefined(j) ==
  /\ duration[j] \notin {NoValue, 0}
  /\ processed[j] # NoValue
  /\ j \in started

\* The clamped numerator of the progress fraction, min(processed, duration).
ProgressNumerator(j) == MinOf(processed[j], duration[j])

\* transcode_eta_seconds is computed only while the transcode has not
\* finished and some media has been processed (speed > 0).
EtaDefined(j) ==
  /\ ProgressDefined(j)
  /\ ProgressNumerator(j) > 0
  /\ j \notin finished

-----------------------------------------------------------------------------
Init ==
  /\ now = 0
  /\ records = {}
  /\ status = [j \in Jobs |-> "none"]
  /\ updated = [j \in Jobs |-> 0]
  /\ hasCallback = [j \in Jobs |-> FALSE]
  /\ started = {}
  /\ finished = {}
  /\ outPath = {}
  /\ duration = [j \in Jobs |-> NoValue]
  /\ processed = [j \in Jobs |-> NoValue]
  /\ queue = <<>>
  /\ putters = {}
  /\ srcFiles = {}
  /\ workFiles = {}
  /\ outFiles = {}
  /\ worker = [phase |-> "idle", job |-> NoValue, attempt |-> 0]
  /\ engine = [phase |-> "off", mode |-> "cpu", cands |-> 0, last |-> NoValue,
               ok |-> FALSE]
  /\ delivered = [j \in Jobs |-> NoValue]
  /\ created = <<>>
  /\ dequeued = <<>>
  /\ stopped = FALSE

-----------------------------------------------------------------------------
(* submit_job (jobs.py 131-167).  The upload is persisted before the record *)
(* exists, so its awaits are invisible to the other handlers; the record is *)
(* then stored and queue.put runs: put_nowait when the queue has room,      *)
(* otherwise the task is suspended as a putter, its record already visible. *)
Submit(j) ==
  /\ status[j] = "none"
  /\ records' = records \cup {j}
  /\ status' = [status EXCEPT ![j] = "queued"]
  /\ updated' = [updated EXCEPT ![j] = now]
  /\ srcFiles' = srcFiles \cup {j}
  /\ \E cb \in BOOLEAN : hasCallback' = [hasCallback EXCEPT ![j] = cb]
  /\ created' = Append(created, j)
  /\ IF Len(queue) < MaxQueue
       THEN /\ queue' = Append(queue, j)
            /\ UNCHANGED putters
       ELSE /\ putters' = putters \cup {j}
            /\ UNCHANGED queue
  /\ UNCHANGED <<now, started, finished, outPath, duration, processed,
                 workFiles, outFiles, worker, engine, delivered, dequeued, stopped>>

\* Off-by-one in the room test of a woken putter.
SubmitResumeOffByOne(j) ==
  /\ j \in putters
  /\ Len(queue) < MaxQueue - 1
  /\ queue' = Append(queue, j)
  /\ putters' = putters \ {j}
  /\ UNCHANGED <<now, records, status, updated, hasCallback, started,
                 finished, outPath, duration, processed, srcFiles, workFiles,
                 outFiles, worker, engine, delivered, created, dequeued, stopped>>

\* A suspended queue.put resumes once the queue has room (asyncio.Queue.put
\* loops on full()); a fresh put_nowait may take the room first, so any
\* suspended putter may be the next to enqueue.
SubmitResume(j) ==
  /\ j \in putters
  /\ Len(queue) < MaxQueue
  /\ queue' = Append(queue, j)
  /\ putters' = putters \ {j}
  /\ UNCHANGED <<now, records, status, updated, hasCallback, started,
                 finished, outPath, duration, processed, srcFiles, workFiles,
                 outFiles, worker, engine, delivered, created, dequeued, stopped>>

\* cancel_job without the test for a terminal status.
CancelUnguarded(j) ==
  /\ j \in records
  /\ status' = [status EXCEPT ![j] = "cancelled"]
  /\ updated' = [updated EXCEPT ![j] = now]
  /\ UNCHANGED <<now, records, hasCallback, started, finished, outPath,
                 duration, processed, queue, putters, srcFiles, workFiles,
                 outFiles, worker, engine, delivered, created, dequeued, stopped>>

\* cancel_job (jobs.py 176-184): any known non-terminal record, including
\* one the worker is processing, becomes cancelled.
Cancel(j) ==
  /\ j \in records
  /\ status[j] \notin Terminal
  /\ status' = [status EXCEPT ![j] = "cancelled"]
  /\ updated' = [updated EXCEPT ![j] = now]
  /\ UNCHANGED <<now, records, hasCallback, started, finished, outPath,
                 duration, processed, queue, putters, srcFiles, workFiles,
                 outFiles, worker, engine, delivered, created, dequeued, stopped>>

\* The records purge_expired_jobs selects: updated_at < now - retention.
Expired == {j \in records : updated[j] + Retention < now}

\* purge_expired_jobs (jobs.py 186-196), run by _maintenance_loop (198-205)
\* with no await inside: every expired record is popped whatever its status,
\* its source file deleted, and its output file if output_path is set.
Purge ==
  /\ ~stopped
  /\ records' = records \ Expired
  /\ srcFiles' = srcFiles \ Expired
  /\ outFiles' = outFiles \ (Expired \cap outPath)
  /\ UNCHANGED <<now, status, updated, hasCallback, started, finished,
                 outPath, duration, processed, queue, putters, workFiles,
                 worker, engine, delivered, created, dequeued, stopped>>

\* The passage of time (the clock read by utcnow), bounded by MaxTime.
Tick ==
  /\ now < MaxTime
  /\ now' = now + 1
  /\ UNCHANGED <<records, status, updated, hasCallback, started, finished,
                 outPath, duration, processed, queue, putters, srcFiles,
                 workFiles, outFiles, worker, engine, delivered, created,
                 dequeued, stopped>>

\* JobManager.stop (jobs.py 121-129), called from the shutdown hook: the
\* _shutdown event is set, both tasks are cancelled and awaited.  The
\* CancelledError raised in the worker at queue.get, at the awaited
\* transcoder.process or inside the callback dispatch is not caught by its
\* "except Exception", so the task ends there; the maintenance loop ends
\* too.  run_in_executor cannot cancel the thread: the engine keeps its
\* state and runs on, and the record stays as it was.
Stop ==
  /\ ~stopped
  /\ stopped' = TRUE
  /\ worker' = [worker EXCEPT !.phase = "stopped"]
  /\ UNCHANGED <<now, records, status, updated, hasCallback, started, finished,
                 outPath, duration, processed, queue, putters, srcFiles,
                 workFiles, outFiles, engine, delivered, created, dequeued>>

\* After stop() the lifespan hook closes the dispatcher and the process
\* exits (main.py 53-58): a stopped manager may stay as it is for good.
Halted ==
  /\ stopped
  /\ UNCHANGED vars

-----------------------------------------------------------------------------
(* The worker task (jobs.py 207-243).                                      *)

\* _worker with the cancelled test at dequeue left out.
WorkerDequeueUnchecked ==
  /\ worker.phase = "idle"
  /\ queue # <<>>
  /\ LET j == Head(queue) IN
       /\ queue' = Tail(queue)
       /\ dequeued' = Append(dequeued, j)
       /\ status' = [status EXCEPT ![j] = "processing"]
       /\ updated' = [updated EXCEPT ![j] = now]
       /\ started' = started \cup {j}
       /\ worker' = [worker EXCEPT !.phase = "engine", !.job = j]
       /\ engine' = [engine EXCEPT !.phase = "start"]
  /\ UNCHANGED <<now, records, hasCallback, finished, outPath, duration,
                 processed, putters, srcFiles, workFiles, outFiles, delivered,
                 created, stopped>>

\* queue.get returns the head WorkItem.  A cancelled record is skipped;
\* otherwise it becomes processing, transcode_started_at is set and
\* transcoder.process is awaited (the executor thread starts).
WorkerDequeue ==
  /\ worker.phase = "idle"
  /\ queue # <<>>
  /\ LET j == Head(queue) IN
       /\ queue' = Tail(queue)
       /\ dequeued' = Append(dequeued, j)
       /\ IF status[j] = "cancelled"
            THEN UNCHANGED <<status, updated, started, worker, engine>>
            ELSE /\ status' = [status EXCEPT ![j] = "processing"]
                 /\ updated' = [updated EXCEPT ![j] = now]
                 /\ started' = started \cup {j}
                 /\ worker' = [worker EXCEPT !.phase = "engine", !.job = j]
                 /\ engine' = [engine EXCEPT !.phase = "start"]
  /\ UNCHANGED <<now, records, hasCallback, finished, outPath, duration,
                 processed, putters, srcFiles, workFiles, outFiles, delivered,
                 created, stopped>>

-----------------------------------------------------------------------------
(* The executor thread: TranscodeEngine._process_sync (engine.py 38-102).  *)

\* _probe and _select_profile (lines 42, 54): the probe fails (ProbeError,
\* or RuntimeError for a missing resolution) when the source file is gone,
\* and may fail for any file; on success media_duration_seconds is set from
\* the probe (line 71) and the path is chosen (73-92).  A RKMPP encode has
\* two filter candidates when /dev/rga exists, one otherwise (233-235).
EngineProbe ==
  /\ engine.phase = "start"
  /\ LET j == worker.job IN
       \/ /\ engine' = [engine EXCEPT !.phase = "done", !.ok = FALSE]
          /\ UNCHANGED duration
       \/ /\ j \in srcFiles
          /\ \E d \in {NoValue} \cup Media, m \in Modes, c \in 1..2 :
               /\ m # "hw" => c = 1
               /\ duration' = [duration EXCEPT ![j] = d]
               /\ engine' = [phase |-> "running", mode |-> m, cands |-> c,
                             last |-> NoValue, ok |-> FALSE]
  /\ UNCHANGED <<now, records, status, updated, hasCallback, started,
                 finished, outPath, processed, queue, putters, srcFiles,
                 workFiles, outFiles, worker, delivered, created, dequeued, stopped>>

\* The progress_handler of _run_ffmpeg (317-324) calling _update_progress
\* (415-419): each out_time_ms line of the running ffmpeg sets the processed
\* seconds and updated_at.  ffmpeg's out_time does not decrease within one
\* run but may pass the probed duration.  The duration backfill at 417 never
\* fires: the captured duration is media_duration_seconds or 0.0.  The remux
\* path passes no progress handler.
EngineProgress(t) ==
  /\ engine.phase = "running"
  /\ engine.mode # "remux"
  /\ engine.last # NoValue => t >= engine.last
  /\ LET j == worker.job IN
       /\ processed' = [processed EXCEPT ![j] = t]
       /\ updated' = [updated EXCEPT ![j] = now]
       /\ workFiles' = workFiles \cup {j}
  /\ engine' = [engine EXCEPT !.last = t]
  /\ UNCHANGED <<now, records, status, hasCallback, started, finished,
                 outPath, duration, queue, putters, srcFiles, outFiles,
                 worker, delivered, created, dequeued, stopped>>

\* _process_sync with shutil.copy in place of shutil.move (line 95).
EngineSucceedCopy ==
  /\ engine.phase = "running"
  /\ LET j == worker.job IN
       /\ outFiles' = outFiles \cup {j}
       /\ processed' = [processed EXCEPT ![j] =
                          IF duration[j] # NoValue THEN duration[j] ELSE @]
  /\ engine' = [engine EXCEPT !.phase = "done", !.ok = TRUE]
  /\ UNCHANGED <<now, records, status, updated, hasCallback, started,
                 finished, outPath, duration, queue, putters, srcFiles,
                 workFiles, worker, delivered, created, dequeued, stopped>>

\* The ffmpeg run exits 0: _process_sync moves the work file into output_dir
\* (line 95) and sets the processed seconds to the duration (96-97).
EngineSucceed ==
  /\ engine.phase = "running"
  /\ LET j == worker.job IN
       /\ outFiles' = outFiles \cup {j}
       /\ workFiles' = workFiles \ {j}
       /\ processed' = [processed EXCEPT ![j] =
                          IF duration[j] # NoValue THEN duration[j] ELSE @]
  /\ engine' = [engine EXCEPT !.phase = "done", !.ok = TRUE]
  /\ UNCHANGED <<now, records, status, updated, hasCallback, started,
                 finished, outPath, duration, queue, putters, srcFiles,
                 worker, delivered, created, dequeued, stopped>>

\* The ffmpeg run exits non-zero (_run_ffmpeg raises, 334-339).  On the
\* RKMPP path the partial output is unlinked and the next filter candidate
\* is run (287-292); with none left the last error propagates (294-295).
\* The remux and software paths propagate at once, leaving whatever partial
\* file ffmpeg wrote in work_dir.
EngineFail ==
  /\ engine.phase = "running"
  /\ LET j == worker.job IN
       IF engine.mode = "hw"
         THEN /\ workFiles' = workFiles \ {j}
              /\ engine' = IF engine.cands > 1
                             THEN [engine EXCEPT !.cands = @ - 1,
                                                 !.last = NoValue]
                             ELSE [engine EXCEPT !.phase = "done", !.ok = FALSE]
         ELSE /\ \E w \in {workFiles, workFiles \cup {j}} : workFiles' = w
              /\ engine' = [engine EXCEPT !.phase = "done", !.ok = FALSE]
  /\ UNCHANGED <<now, records, status, updated, hasCallback, started,
                 finished, outPath, duration, processed, queue, putters,
                 srcFiles, outFiles, worker, delivered, created, dequeued, stopped>>

-----------------------------------------------------------------------------
(* Back on the event loop: the worker resumes after transcoder.process.    *)

\* After a finished job the worker awaits _fire_callback (245-254), which
\* dispatches only when a callback_url was given.
AfterFinish(j, st) ==
  IF hasCallback[j]
    THEN /\ worker' = [phase |-> "callback", job |-> j, attempt |-> 1]
         /\ delivered' = [delivered EXCEPT ![j] = st]
    ELSE /\ worker' = [phase |-> "idle", job |-> NoValue, attempt |-> 0]
         /\ UNCHANGED delivered

\* The except branch without the transcode_finished_at backfill (239-240).
WorkerFinishNoBackfill ==
  /\ worker.phase = "engine"
  /\ engine.phase = "done"
  /\ LET j == worker.job IN
       /\ IF engine.ok
            THEN /\ finished' = finished \cup {j}
                 /\ outPath' = outPath \cup {j}
                 /\ status' = [status EXCEPT ![j] = "completed"]
                 /\ AfterFinish(j, "completed")
            ELSE /\ status' = [status EXCEPT ![j] = "failed"]
                 /\ UNCHANGED <<finished, outPath>>
                 /\ AfterFinish(j, "failed")
       /\ updated' = [updated EXCEPT ![j] = now]
  /\ engine' = [engine EXCEPT !.phase = "off"]
  /\ UNCHANGED <<now, records, hasCallback, started, duration, processed,
                 queue, putters, srcFiles, workFiles, outFiles, created,
                 dequeued, stopped>>

\* An engine error swallowed: every outcome is recorded as completed.
WorkerFinishIgnoresError ==
  /\ worker.phase = "engine"
  /\ engine.phase = "done"
  /\ LET j == worker.job IN
       /\ finished' = finished \cup {j}
       /\ outPath' = outPath \cup {j}
       /\ status' = [status EXCEPT ![j] = "completed"]
       /\ AfterFinish(j, "completed")
       /\ updated' = [updated EXCEPT ![j] = now]
  /\ engine' = [engine EXCEPT !.phase = "off"]
  /\ UNCHANGED <<now, records, hasCallback, started, duration, processed,
                 queue, putters, srcFiles, workFiles, outFiles, created,
                 dequeued, stopped>>

\* The callback payload built before the status is updated.
WorkerFinishEarlyPayload ==
  /\ worker.phase = "engine"
  /\ engine.phase = "done"
  /\ LET j == worker.job IN
       /\ finished' = finished \cup {j}
       /\ IF engine.ok
            THEN /\ outPath' = outPath \cup {j}
                 /\ status' = [status EXCEPT ![j] = "completed"]
            ELSE /\ status' = [status EXCEPT ![j] = "failed"]
                 /\ UNCHANGED outPath
       /\ AfterFinish(j, status[j])
       /\ updated' = [updated EXCEPT ![j] = now]
  /\ engine' = [engine EXCEPT !.phase = "off"]
  /\ UNCHANGED <<now, records, hasCallback, started, duration, processed,
                 queue, putters, srcFiles, workFiles, outFiles, created,
                 dequeued, stopped>>

\* transcoder.process returns or raises (227-241).  Success: finished time,
\* output_path and status completed.  Any exception: status failed and the
\* finished time backfilled.  Whatever the record's status was meanwhile
\* (a cancel may have run) it is overwritten.
WorkerFinish ==
  /\ worker.phase = "engine"
  /\ engine.phase = "done"
  /\ LET j == worker.job IN
       /\ finished' = finished \cup {j}
       /\ IF engine.ok
            THEN /\ outPath' = outPath \cup {j}
                 /\ status' = [status EXCEPT ![j] = "completed"]
                 /\ AfterFinish(j, "completed")
            ELSE /\ status' = [status EXCEPT ![j] = "failed"]
                 /\ UNCHANGED outPath
                 /\ AfterFinish(j, "failed")
       /\ updated' = [updated EXCEPT ![j] = now]
  /\ engine' = [engine EXCEPT !.phase = "off"]
  /\ UNCHANGED <<now, records, hasCallback, started, duration, processed,
                 queue, putters, srcFiles, workFiles, outFiles, created,
                 dequeued, stopped>>

\* CallbackDispatcher.dispatch (callbacks.py 28-42), awaited by the worker:
\* one POST attempt answered with a 2xx response ends the dispatch.
CallbackSucceed ==
  /\ worker.phase = "callback"
  /\ worker' = [phase |-> "idle", job |-> NoValue, attempt |-> 0]
  /\ UNCHANGED <<now, records, status, updated, hasCallback, started,
                 finished, outPath, duration, processed, queue, putters,
                 srcFiles, workFiles, outFiles, engine, delivered, created,
                 dequeued, stopped>>

\* A failed attempt (network error, non-2xx status or the httpx timeout,
\* lines 33-40): the dispatch logs it and sleeps min(2^attempt, 30) s,
\* whether or not another attempt follows.
CallbackFail ==
  /\ worker.phase = "callback"
  /\ worker' = [worker EXCEPT !.phase = "backoff"]
  /\ UNCHANGED <<now, records, status, updated, hasCallback, started,
                 finished, outPath, duration, processed, queue, putters,
                 srcFiles, workFiles, outFiles, engine, delivered, created,
                 dequeued, stopped>>

\* The retry loop run one attempt past max_attempts (range(1, n + 2)).
CallbackBackoffUncapped ==
  /\ worker.phase = "backoff"
  /\ worker' = IF worker.attempt <= MaxAttempts
                 THEN [worker EXCEPT !.phase = "callback", !.attempt = @ + 1]
                 ELSE [phase |-> "idle", job |-> NoValue, attempt |-> 0]
  /\ UNCHANGED <<now, records, status, updated, hasCallback, started,
                 finished, outPath, duration, processed, queue, putters,
                 srcFiles, workFiles, outFiles, engine, delivered, created,
                 dequeued, stopped>>

\* The backoff sleep returns (line 41): the for loop over
\* range(1, max_attempts + 1) makes the next attempt, or, after the last
\* one, logs the exhaustion (42) and returns without raising; the worker
\* then takes the next WorkItem.
CallbackBackoff ==
  /\ worker.phase = "backoff"
  /\ worker' = IF worker.attempt < MaxAttempts
                 THEN [worker EXCEPT !.phase = "callback", !.attempt = @ + 1]
                 ELSE [phase |-> "idle", job |-> NoValue, attempt |-> 0]
  /\ UNCHANGED <<now, records, status, updated, hasCallback, started,
                 finished, outPath, duration, processed, queue, putters,
                 srcFiles, workFiles, outFiles, engine, delivered, created,
                 dequeued, stopped>>

-----------------------------------------------------------------------------
Next ==
  \/ \E j \in Jobs : Submit(j) \/ SubmitResume(j) \/ Cancel(j)
  \/ Purge
  \/ Tick
  \/ WorkerDequeue
  \/ EngineProbe
  \/ \E t \in Media : EngineProgress(t)
  \/ EngineSucceed
  \/ EngineFail
  \/ WorkerFinish
  \/ CallbackSucceed
  \/ CallbackFail
  \/ CallbackBackoff
  \/ Stop
  \/ Halted

\* The worker and the executor thread run whenever they can, every callback
\* attempt ends (httpx timeout) and every backoff sleep returns; a suspended
\* put resumes once there is room.  That ffmpeg exits is assumed: _run_ffmpeg
\* waits on it with no timeout (engine.py 327, spec section 5).  Nothing
\* forces a client to submit or cancel, nor the process to shut down.
Fairness ==
  /\ \A j \in Jobs : WF_vars(SubmitResume(j))
  /\ WF_vars(WorkerDequeue)
  /\ WF_vars(EngineProbe)
  /\ WF_vars(EngineSucceed \/ EngineFail)
  /\ WF_vars(WorkerFinish)
  /\ WF_vars(CallbackSucceed \/ CallbackFail)
  /\ WF_vars(CallbackBackoff)

Spec == Init /\ [][Next]_vars

FairSpec == Spec /\ Fairness

-----------------------------------------------------------------------------
\* Where the worker task can be suspended, and the executor thread's state.
WorkerStates == [phase : {"idle", "engine", "callback", "backoff",
                          "stopped"},
                 job : Jobs \cup {NoValue}, attempt : 0..MaxAttempts]
EngineStates == [phase : {"off", "start", "running", "done"}, mode : Modes,
                 cands : 0..2, last : Media \cup {NoValue}, ok : BOOLEAN]

TypeOK ==
  /\ now \in Time
  /\ records \subseteq Jobs
  /\ status \in [Jobs -> Status \cup {"none"}]
  /\ updated \in [Jobs -> Time]
  /\ hasCallback \in [Jobs -> BOOLEAN]
  /\ started \subseteq Jobs
  /\ finished \subseteq Jobs
  /\ outPath \subseteq Jobs
  /\ duration \in [Jobs -> Media \cup {NoValue}]
  /\ processed \in [Jobs -> Media \cup {NoValue}]
  /\ queue \in Seq(Jobs)
  /\ putters \subseteq Jobs
  /\ srcFiles \subseteq Jobs
  /\ workFiles \subseteq Jobs
  /\ outFiles \subseteq Jobs
  /\ worker \in WorkerStates
  /\ engine \in EngineStates
  /\ delivered \in [Jobs -> Status \cup {NoValue}]
  /\ created \in Seq(Jobs)
  /\ dequeued \in Seq(Jobs)
  /\ stopped \in BOOLEAN

-----------------------------------------------------------------------------
(* Properties.                                                              *)

\* Spec section 3: output_path is set if and only if the status is
\* completed, whatever cancel_job, the worker and the engine thread do in
\* between.
OutputIffCompleted ==
  \A j \in Jobs : j \in outPath <=> status[j] = "completed"

\* A completed job that is still listed has its output file in output_dir:
\* the engine's move precedes the completed status, and purge deletes the
\* file only together with the record.
CompletedOutputOnDisk ==
  \A j \in records : status[j] = "completed" => j \in outFiles

\* The callback payload of a job carries the job's final status: completed
\* or failed, and never changed afterwards by cancel_job.
CallbackMatchesStatus ==
  \A j \in Jobs : delivered[j] # NoValue =>
                    /\ delivered[j] \in {"completed", "failed"}
                    /\ delivered[j] = status[j]

\* Spec section 8: no ETA is shown for a job that has completed or failed
\* (both worker branches set transcode_finished_at).
EtaClearedWhenDone ==
  \A j \in Jobs : status[j] \in {"completed", "failed"} => ~EtaDefined(j)

\* Every accepted job, including one suspended in queue.put, one purged
\* while waiting and one cancelled, eventually reaches a terminal status,
\* unless the manager is stopped first (nothing forces a shutdown).
EveryJobFinishes ==
  \A j \in Jobs : status[j] = "queued" ~> (status[j] \in Terminal \/ stopped)

\* Spec sections 3 and 4.1: completed, failed and cancelled are terminal;
\* a status, once terminal, never changes.
TerminalStable ==
  [][\A j \in Jobs : status[j] \in Terminal => status'[j] = status[j]]_vars

\* Spec section 4.1: submit fails with QueueFull when the queue is full and
\* then creates no record, so every queued record has its WorkItem queued.
QueuedHasWorkItem ==
  \A j \in records : status[j] = "queued" => j \in QueuedItems

\* The position of a job in a history sequence.
PositionIn(s, j) == CHOOSE i \in DOMAIN s : s[i] = j

\* Spec section 5: jobs are processed in FIFO submission order; the worker
\* takes WorkItems in the order their records were created.
FifoOrder ==
  \A a, b \in DOMAIN dequeued :
    a < b => PositionIn(created, dequeued[a]) < PositionIn(created, dequeued[b])

\* The retention setting "How long to keep completed job metadata"
\* (config.py:24): purge_expired_jobs only removes finished jobs.
PurgeOnlyFinished ==
  [][\A j \in records \ records' : status[j] \in Terminal]_vars

\* Spec section 3: processed media seconds are updated monotonically, so the
\* progress a client polls from to_detail never goes back.
ProgressNeverRegresses ==
  [][\A j \in Jobs :
       ProgressDefined(j) /\ ProgressDefined(j)' =>
         ProgressNumerator(j)' >= ProgressNumerator(j)]_vars

\* Spec sections 4.1 and 5: stop() cancels both tasks and awaits their
\* termination before returning, so once it has returned no transcode of
\* the manager is still running.
StopLeavesNoTranscode ==
  stopped => engine.phase \in {"off", "done"}

\* shutil.move takes a successful run's file out of work_dir, and a failed
\* RKMPP candidate's partial output is unlinked (spec section 4.2 steps 6
\* and 9): a file left in work_dir belongs to the transcode the executor
\* thread runs or has just ended, or to a job whose transcode failed (its
\* status "failed", or "cancelled" when the cancel came while it ran): never
\* to a completed job.  The software and remux paths do leave their partial
\* output behind on failure, and nothing ever removes it.
WorkFileOnlyAfterFailure ==
  \A k \in workFiles :
    \/ engine.phase # "off" /\ worker.job = k
    \/ status[k] \in {"failed", "cancelled"}

\* Spec sections 3 and 4.3: every terminal transition of a job with a
\* callback URL triggers a callback dispatch (invoked exactly once per job
\* reaching a terminal state), unless the manager is stopped.
TerminalJobNotified ==
  \A j \in Jobs :
    status[j] \in Terminal /\ hasCallback[j] ~> delivered[j] # NoValue \/ stopped

-----------------------------------------------------------------------------
(* Refinement of the abstract lifecycle.  cancel_job may label the job the *)
(* executor thread is running "cancelled"; the worker overwrites the label *)
(* when transcoder.process returns (spec section 5: the job completes      *)
(* naturally), so the mapping reads that transient label as processing.    *)
(* The executor thread keeps its job after stop(), so ownership is read    *)
(* from the engine, not from the worker task.                              *)

\* The lifecycle status a client can rely on for job j.
AbsStatus(j) ==
  IF status[j] = "cancelled" /\ engine.phase # "off" /\ worker.job = j
    THEN "processing"
    ELSE status[j]

Abs == INSTANCE JobLifecycle
         WITH status <- [j \in Jobs |-> AbsStatus(j)], output <- outPath

\* Spec sections 3, 4.1 and 5: under the mapping, every step of submit_job,
\* cancel_job, purge, the worker, the executor thread, the callback
\* dispatcher and stop() is a step of the abstract lifecycle or leaves it
\* unchanged: a job starts only from queued, ends once, is cancelled only
\* while queued, and has an output exactly when it completed.
LifecycleRefinement == Abs!Spec

-----------------------------------------------------------------------------
(* The inductive invariant behind OutputIffCompleted and                    *)
(* CompletedOutputOnDisk: the worker owns at most one job, which is in no   *)
(* queue; a WorkItem waiting in the queue or in a suspended put belongs to  *)
(* a queued or cancelled record and appears once; a successful engine run   *)
(* has already moved its file into output_dir.                              *)

\* A sequence without repeated elements.
NoRepeats(s) == \A a, b \in DOMAIN s : s[a] = s[b] => a = b

WorkerOwnsJob ==
  /\ worker.phase \in {"engine", "callback", "backoff"} => worker.job \in Jobs
  /\ stopped <=> (worker.phase = "stopped")
  /\ worker.phase = "engine" => engine.phase # "off"
  /\ engine.phase # "off" =>
       /\ worker.phase \in {"engine", "stopped"}
       /\ worker.job \in Jobs
       /\ status[worker.job] \in {"processing", "cancelled"}
       /\ worker.job \notin QueuedItems \cup putters

WaitingItemsPending ==
  /\ NoRepeats(queue)
  /\ QueuedItems \cap putters = {}
  /\ \A j \in QueuedItems \cup putters : status[j] \in {"queued", "cancelled"}

EngineOutputMoved ==
  engine.phase = "done" /\ engine.ok => worker.job \in outFiles

IInv ==
  /\ TypeOK
  /\ WorkerOwnsJob
  /\ WaitingItemsPending
  /\ EngineOutputMoved
  /\ OutputIffCompleted
  /\ CompletedOutputOnDisk

(* The strengthening behind LifecycleRefinement: a processing record is    *)
(* the one the executor thread runs, and a listed record has been          *)
(* submitted.                                                               *)

ProcessingOwned ==
  \A k \in Jobs : status[k] = "processing" =>
                    engine.phase # "off" /\ worker.job = k

RecordsAccepted == \A k \in records : status[k] # "none"

\* The inductive invariant of the job manager: IInv, with the job the
\* executor thread runs as the only processing record and no listed record
\* unsubmitted.  It carries the proof of LifecycleRefinement.
RInv == IInv /\ ProcessingOwned /\ RecordsAccepted

(* The strengthening behind WorkFileOnlyAfterFailure and EtaClearedWhenDone: *)
(* both worker branches set transcode_finished_at before a completed or    *)
(* failed status, and a successful run has moved its file out of work_dir  *)
(* by the time the worker resumes.                                          *)

DoneIsFinished ==
  \A k \in Jobs : status[k] \in {"completed", "failed"} => k \in finished

SucceededRunMoved ==
  engine.phase = "done" /\ engine.ok => worker.job \notin workFiles

\* RInv, with a finished time for every completed or failed record and the
\* work_dir file of each job accounted for by its transcode's outcome.
WInv ==
  /\ RInv
  /\ DoneIsFinished
  /\ SucceededRunMoved
  /\ WorkFileOnlyAfterFailure

=============================================================================
