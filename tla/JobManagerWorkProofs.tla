------------------------ MODULE JobManagerWorkProofs ------------------------
(* Proofs about the finished time and the work_dir files of JobManager,   *)
(* for every value of the constants allowed by ConstantsAssumption:        *)
(* WInv is inductive, so a completed or failed job never shows an ETA, a   *)
(* file left in work_dir belongs to the running transcode or to a failed   *)
(* or cancelled job, and the progress fraction stays within [0, 1].        *)
EXTENDS JobManagerProofs

USE ConstantsAssumption

\* The facts of RInv the steps below rely on.
LEMMA RInvFacts ==
  ASSUME RInv
  PROVE  /\ TypeOK /\ WorkerOwnsJob /\ WaitingItemsPending
BY DEF RInv, IInv

-----------------------------------------------------------------------------
(* A completed or failed record has its transcode_finished_at set.         *)

\* Only the worker's finish sets completed or failed, and it adds the job
\* to finished in the same step; nothing removes a job from finished.
LEMMA DoneStep ==
  ASSUME RInv, DoneIsFinished, [Next]_vars
  PROVE  DoneIsFinished'
<1>1. TypeOK /\ WaitingItemsPending
  BY RInvFacts
<1>2. CASE \E j \in Jobs : Submit(j) \/ Cancel(j)
  BY <1>1, <1>2 DEF Submit, Cancel, DoneIsFinished, TypeOK, Terminal
<1>3. CASE WorkerDequeue
  <2>1. PICK j \in Jobs : j = Head(queue)
    BY <1>1, <1>3 DEF WorkerDequeue, TypeOK
  <2>2. status[j] \in {"queued", "cancelled"}
    BY <1>1, <1>3, <2>1 DEF WorkerDequeue, TypeOK, QueuedItems,
                            WaitingItemsPending
  <2>3. QED
    BY <1>1, <1>3, <2>1, <2>2 DEF WorkerDequeue, DoneIsFinished, TypeOK
<1>4. CASE WorkerFinish
  BY <1>1, <1>4 DEF WorkerFinish, DoneIsFinished, TypeOK
<1>5. CASE \/ \E j \in Jobs : SubmitResume(j)
           \/ Purge \/ Tick \/ EngineProbe \/ \E t \in Media : EngineProgress(t)
           \/ EngineSucceed \/ EngineFail
           \/ CallbackSucceed \/ CallbackFail \/ CallbackBackoff
           \/ Stop \/ Halted \/ UNCHANGED vars
  <2>1. UNCHANGED <<status, finished>>
    BY <1>5 DEF SubmitResume, Purge, Tick, EngineProbe, EngineProgress,
                EngineSucceed, EngineFail, CallbackSucceed, CallbackFail,
                CallbackBackoff, Stop, Halted, vars
  <2>2. QED
    BY <2>1 DEF DoneIsFinished
<1>6. QED
  BY <1>2, <1>3, <1>4, <1>5 DEF Next

-----------------------------------------------------------------------------
(* The files in work_dir.                                                  *)

\* With the executor thread idle, the work-file property says each file
\* belongs to a failed or cancelled record.
LEMMA IdleEngineFiles ==
  ASSUME WorkFileOnlyAfterFailure, engine.phase = "off"
  PROVE  \A k \in workFiles : status[k] \in {"failed", "cancelled"}
BY DEF WorkFileOnlyAfterFailure

\* A step that changes none of the files, the statuses, the engine or the
\* worker's job keeps both work-file conjuncts.
LEMMA WorkQuiet ==
  ASSUME SucceededRunMoved, WorkFileOnlyAfterFailure,
         UNCHANGED <<workFiles, status, engine, worker>>
  PROVE  SucceededRunMoved' /\ WorkFileOnlyAfterFailure'
BY DEF SucceededRunMoved, WorkFileOnlyAfterFailure

\* Every step keeps the two work-file conjuncts: a file is added only for
\* the job the engine runs, a successful run removes its own, and the
\* worker's finish turns the job of a leftover file failed.
LEMMA WorkStep ==
  ASSUME RInv, SucceededRunMoved, WorkFileOnlyAfterFailure, [Next]_vars
  PROVE  SucceededRunMoved' /\ WorkFileOnlyAfterFailure'
<1>1. TypeOK /\ WorkerOwnsJob /\ WaitingItemsPending
  BY RInvFacts
<1> USE DEF SucceededRunMoved, WorkFileOnlyAfterFailure
<1>2. CASE \E j \in Jobs : Submit(j)
  <2>1. PICK j \in Jobs : Submit(j)
    BY <1>2
  <2>2. j \notin workFiles
    BY <1>1, <2>1 DEF Submit, WorkerOwnsJob, TypeOK
  <2>3. QED
    BY <1>1, <2>1, <2>2 DEF Submit, TypeOK
<1>3. CASE \E j \in Jobs : Cancel(j)
  BY <1>1, <1>3 DEF Cancel, TypeOK
<1>4. CASE WorkerDequeue
  <2>1. PICK j \in Jobs : j = Head(queue)
    BY <1>1, <1>4 DEF WorkerDequeue, TypeOK
  <2>2. status[j] \in {"queued", "cancelled"}
    BY <1>1, <1>4, <2>1 DEF WorkerDequeue, TypeOK, QueuedItems,
                            WaitingItemsPending
  <2>3. engine.phase = "off"
    BY <1>1, <1>4 DEF WorkerDequeue, WorkerOwnsJob
  <2>4. \A k \in workFiles : status[k] \in {"failed", "cancelled"}
    BY <2>3, IdleEngineFiles
  <2>5. CASE status[j] = "cancelled"
    BY <1>4, <2>1, <2>5, WorkQuiet DEF WorkerDequeue
  <2>6. CASE status[j] # "cancelled"
    <3>1. /\ status' = [status EXCEPT ![j] = "processing"]
          /\ engine'.phase = "start"
          /\ worker'.job = j
          /\ workFiles' = workFiles
      BY <1>1, <1>4, <2>1, <2>6 DEF WorkerDequeue, TypeOK, WorkerStates,
                                    EngineStates
    <3>2. j \notin workFiles
      BY <2>2, <2>4, <2>6
    <3>3. QED
      BY <1>1, <2>4, <3>1, <3>2 DEF TypeOK
  <2>7. QED
    BY <2>5, <2>6
<1>5. CASE EngineProbe
  <2>1. /\ engine.phase = "start"
        /\ engine'.phase # "off"
        /\ engine'.phase = "done" => ~engine'.ok
        /\ UNCHANGED <<workFiles, status, worker>>
    <3>1. engine \in EngineStates
      BY <1>1 DEF TypeOK
    <3>2. /\ engine.phase = "start"
          /\ UNCHANGED <<workFiles, status, worker>>
      BY <1>5 DEF EngineProbe
    <3>3. \/ engine' = [engine EXCEPT !.phase = "done", !.ok = FALSE]
          \/ engine'.phase = "running"
      BY <1>5 DEF EngineProbe
    <3>4. QED
      BY <3>1, <3>2, <3>3 DEF EngineStates
  <2>2. QED
    BY <2>1
<1>6. CASE \E t \in Media : EngineProgress(t)
  <2>1. /\ engine.phase = "running" /\ engine'.phase = "running"
        /\ workFiles' = workFiles \cup {worker.job}
        /\ UNCHANGED <<status, worker>>
    BY <1>6 DEF EngineProgress
  <2>2. QED
    BY <2>1
<1>7. CASE EngineSucceed
  <2>1. /\ engine.phase = "running" /\ engine'.phase = "done"
        /\ workFiles' = workFiles \ {worker.job}
        /\ UNCHANGED <<status, worker>>
    BY <1>7 DEF EngineSucceed
  <2>2. QED
    BY <2>1
<1>8. CASE EngineFail
  <2>1. /\ engine.phase = "running"
        /\ engine'.phase \in {"running", "done"}
        /\ engine'.phase = "done" => ~engine'.ok
        /\ workFiles' \subseteq workFiles \cup {worker.job}
        /\ UNCHANGED <<status, worker>>
    <3>1. engine \in EngineStates
      BY <1>1 DEF TypeOK
    <3>2. CASE engine.mode = "hw"
      BY <1>8, <3>1, <3>2 DEF EngineFail, EngineStates
    <3>3. CASE engine.mode # "hw"
      BY <1>8, <3>1, <3>3 DEF EngineFail, EngineStates
    <3>4. QED
      BY <3>2, <3>3
  <2>2. QED
    BY <2>1
<1>9. CASE WorkerFinish
  <2>1. PICK j \in Jobs : j = worker.job
    BY <1>1, <1>9 DEF WorkerFinish, WorkerOwnsJob
  <2>2. /\ engine'.phase = "off"
        /\ status' = [status EXCEPT ![j] = IF engine.ok THEN "completed"
                                                         ELSE "failed"]
        /\ workFiles' = workFiles
    BY <1>9, <2>1 DEF WorkerFinish
  <2>3. engine.ok => j \notin workFiles
    BY <1>9, <2>1 DEF WorkerFinish
  <2>4. \A k \in workFiles \ {j} : status[k] \in {"failed", "cancelled"}
    BY <2>1
  <2>5. QED
    BY <1>1, <2>2, <2>3, <2>4 DEF TypeOK
<1>10. CASE CallbackSucceed \/ CallbackBackoff
  <2>1. engine.phase = "off"
    BY <1>1, <1>10 DEF CallbackSucceed, CallbackBackoff, WorkerOwnsJob
  <2>2. UNCHANGED <<workFiles, status, engine>>
    BY <1>10 DEF CallbackSucceed, CallbackBackoff
  <2>3. QED
    BY <2>1, <2>2, IdleEngineFiles
<1>11. CASE Stop
  <2>1. /\ worker'.job = worker.job
        /\ UNCHANGED <<workFiles, status, engine>>
    BY <1>1, <1>11 DEF Stop, TypeOK, WorkerStates
  <2>2. QED
    BY <2>1
<1>12. CASE \/ \E j \in Jobs : SubmitResume(j)
            \/ Purge \/ Tick \/ CallbackFail \/ Halted \/ UNCHANGED vars
  <2>1. CASE \E j \in Jobs : SubmitResume(j)
    BY <2>1, WorkQuiet DEF SubmitResume
  <2>2. CASE Purge
    BY <2>2, WorkQuiet DEF Purge
  <2>5. CASE Tick
    BY <2>5, WorkQuiet DEF Tick
  <2>6. CASE CallbackFail
    BY <2>6, WorkQuiet DEF CallbackFail
  <2>3. CASE Halted \/ UNCHANGED vars
    BY <2>3, WorkQuiet DEF Halted, vars
  <2>4. QED
    BY <1>12, <2>1, <2>2, <2>3, <2>5, <2>6
<1>13. QED
  BY <1>2, <1>3, <1>4, <1>5, <1>6, <1>7, <1>8, <1>9, <1>10, <1>11, <1>12
  DEF Next

-----------------------------------------------------------------------------
(* The theorems.                                                            *)

\* WInv holds initially and is kept by every step: RInv by the lemmas of
\* JobManagerProofs, the finished times and the work-file conjuncts by
\* DoneStep and WorkStep.
THEOREM WInvInvariant == Spec => []WInv
<1>1. Init => WInv
  <2>1. SUFFICES ASSUME Init PROVE WInv
    OBVIOUS
  <2>2. RInv
    BY <2>1, InitIInv, RefineInit DEF RInv
  <2>3. DoneIsFinished /\ SucceededRunMoved /\ WorkFileOnlyAfterFailure
    BY <2>1 DEF Init, DoneIsFinished, SucceededRunMoved,
                WorkFileOnlyAfterFailure
  <2>4. QED
    BY <2>2, <2>3 DEF WInv
<1>2. WInv /\ [Next]_vars => WInv'
  <2>1. SUFFICES ASSUME WInv, [Next]_vars PROVE WInv'
    OBVIOUS
  <2>2. RInv /\ DoneIsFinished /\ SucceededRunMoved /\ WorkFileOnlyAfterFailure
    BY <2>1 DEF WInv
  <2>3. RInv'
    BY <2>1, <2>2, NextIInv, RefineNext DEF RInv
  <2>4. QED
    BY <2>1, <2>2, <2>3, DoneStep, WorkStep DEF WInv
<1>3. QED
  BY <1>1, <1>2, PTL DEF Spec

\* Spec section 8 for every value of the constants: a completed or failed
\* job never shows an ETA, because both branches of the worker set
\* transcode_finished_at (the except branch by its backfill) before the
\* status.
THEOREM EtaClearedWhenDoneInvariant == Spec => []EtaClearedWhenDone
<1>1. WInv => EtaClearedWhenDone
  BY DEF WInv, DoneIsFinished, EtaClearedWhenDone, EtaDefined
<1>2. QED
  BY <1>1, WInvInvariant, PTL

\* For every value of the constants: a file left in work_dir belongs to the
\* transcode the executor thread runs or has just ended, or to a failed or
\* cancelled job, never to a completed one; shutil.move takes a successful
\* run's file away before the worker resumes.
THEOREM WorkFileOnlyAfterFailureInvariant == Spec => []WorkFileOnlyAfterFailure
<1>1. WInv => WorkFileOnlyAfterFailure
  BY DEF WInv
<1>2. QED
  BY <1>1, WInvInvariant, PTL

=============================================================================
