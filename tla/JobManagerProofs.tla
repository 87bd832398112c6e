-------------------------- MODULE JobManagerProofs --------------------------
(* Proofs about JobManager, for every value of the constants allowed by   *)
(* ConstantsAssumption: the inductive invariant IInv (hence type           *)
(* correctness, OutputIffCompleted and CompletedOutputOnDisk), its         *)
(* strengthening RInv, the refinement of the abstract lifecycle            *)
(* JobLifecycle, and CallbackMatchesStatus.                                *)
EXTENDS JobManager, TLAPS

USE ConstantsAssumption

\* The elements of a sequence.
LEMMA AppendElems ==
  ASSUME NEW S, NEW s \in Seq(S), NEW x \in S
  PROVE  /\ Append(s, x) \in Seq(S)
         /\ {Append(s, x)[i] : i \in DOMAIN Append(s, x)}
              = {s[i] : i \in DOMAIN s} \cup {x}
         /\ NoRepeats(s) /\ x \notin {s[i] : i \in DOMAIN s}
              => NoRepeats(Append(s, x))
<1>1. Append(s, x) \in Seq(S)
  OBVIOUS
<1>2. {Append(s, x)[i] : i \in DOMAIN Append(s, x)}
        = {s[i] : i \in DOMAIN s} \cup {x}
  <2>1. ASSUME NEW i \in DOMAIN Append(s, x)
        PROVE  Append(s, x)[i] \in {s[k] : k \in DOMAIN s} \cup {x}
    <3>1. CASE i \in DOMAIN s
      BY <3>1
    <3>2. CASE i = Len(s) + 1
      BY <3>2
    <3>3. QED
      BY <3>1, <3>2
  <2>2. ASSUME NEW i \in DOMAIN s
        PROVE  s[i] \in {Append(s, x)[k] : k \in DOMAIN Append(s, x)}
    <3>1. i \in DOMAIN Append(s, x) /\ Append(s, x)[i] = s[i]
      OBVIOUS
    <3>2. QED
      BY <3>1
  <2>3. x \in {Append(s, x)[k] : k \in DOMAIN Append(s, x)}
    <3>1. Len(s) + 1 \in DOMAIN Append(s, x) /\ Append(s, x)[Len(s) + 1] = x
      OBVIOUS
    <3>2. QED
      BY <3>1
  <2>4. QED
    BY <2>1, <2>2, <2>3
<1>3. NoRepeats(s) /\ x \notin {s[i] : i \in DOMAIN s}
        => NoRepeats(Append(s, x))
  BY DEF NoRepeats
<1>4. QED
  BY <1>1, <1>2, <1>3

\* Removing the head of a sequence without repeats.
LEMMA TailElems ==
  ASSUME NEW S, NEW s \in Seq(S), s # <<>>
  PROVE  /\ Tail(s) \in Seq(S)
         /\ Head(s) \in S
         /\ {s[i] : i \in DOMAIN s}
              = {Tail(s)[i] : i \in DOMAIN Tail(s)} \cup {Head(s)}
         /\ NoRepeats(s) => /\ NoRepeats(Tail(s))
                            /\ Head(s) \notin {Tail(s)[i] : i \in DOMAIN Tail(s)}
<1>1. Tail(s) \in Seq(S) /\ Head(s) \in S
  OBVIOUS
<1>2. {s[i] : i \in DOMAIN s}
        = {Tail(s)[i] : i \in DOMAIN Tail(s)} \cup {Head(s)}
  <2>1. ASSUME NEW i \in DOMAIN s
        PROVE  s[i] \in {Tail(s)[k] : k \in DOMAIN Tail(s)} \cup {Head(s)}
    <3>1. CASE i = 1
      BY <3>1
    <3>2. CASE i > 1
      <4>1. i - 1 \in DOMAIN Tail(s) /\ Tail(s)[i - 1] = s[i]
        BY <3>2
      <4>2. QED
        BY <4>1
    <3>3. QED
      BY <3>1, <3>2
  <2>2. ASSUME NEW i \in DOMAIN Tail(s)
        PROVE  Tail(s)[i] \in {s[k] : k \in DOMAIN s}
    <3>1. i + 1 \in DOMAIN s /\ Tail(s)[i] = s[i + 1]
      OBVIOUS
    <3>2. QED
      BY <3>1
  <2>3. Head(s) \in {s[k] : k \in DOMAIN s}
    <3>1. 1 \in DOMAIN s /\ Head(s) = s[1]
      OBVIOUS
    <3>2. QED
      BY <3>1
  <2>4. QED
    BY <2>1, <2>2, <2>3
<1>3. NoRepeats(s) => NoRepeats(Tail(s))
  BY DEF NoRepeats
<1>4. NoRepeats(s) => Head(s) \notin {Tail(s)[i] : i \in DOMAIN Tail(s)}
  BY DEF NoRepeats
<1>5. QED
  BY <1>1, <1>2, <1>3, <1>4

\* The initial state satisfies the inductive invariant.
LEMMA InitIInv == Init => IInv
<1> SUFFICES ASSUME Init PROVE IInv
  OBVIOUS
<1>1. TypeOK
  <2>1. worker \in WorkerStates /\ engine \in EngineStates
    BY DEF Init, WorkerStates, EngineStates, Modes, Media
  <2>2. stopped \in BOOLEAN
    BY DEF Init
  <2>3. QED
    BY <2>1, <2>2 DEF Init, TypeOK, Time, Status, Terminal, Media
<1>2. WorkerOwnsJob
  BY DEF Init, WorkerOwnsJob
<1>3. WaitingItemsPending
  BY DEF Init, WaitingItemsPending, QueuedItems, NoRepeats
<1>4. EngineOutputMoved /\ OutputIffCompleted /\ CompletedOutputOnDisk
  BY DEF Init, EngineOutputMoved, OutputIffCompleted, CompletedOutputOnDisk
<1>5. QED
  BY <1>1, <1>2, <1>3, <1>4 DEF IInv

\* submit_job preserves the inductive invariant.
LEMMA SubmitIInv ==
  ASSUME IInv, NEW j \in Jobs, Submit(j)
  PROVE  IInv'
<1>1. TypeOK /\ WorkerOwnsJob /\ WaitingItemsPending /\ EngineOutputMoved
      /\ OutputIffCompleted /\ CompletedOutputOnDisk
  BY DEF IInv
<1>2. /\ status' = [status EXCEPT ![j] = "queued"]
      /\ records' = records \cup {j}
      /\ updated' = [updated EXCEPT ![j] = now]
      /\ srcFiles' = srcFiles \cup {j}
      /\ \E cb \in BOOLEAN : hasCallback' = [hasCallback EXCEPT ![j] = cb]
      /\ created' = Append(created, j)
      /\ UNCHANGED <<now, started, finished, outPath, duration, processed,
                     workFiles, outFiles, worker, engine, delivered, dequeued, stopped>>
      /\ status[j] = "none"
  BY DEF Submit
<1>3. j \notin QueuedItems \cup putters /\ j \notin outPath
  BY <1>1, <1>2 DEF WaitingItemsPending, OutputIffCompleted
<1>4. worker.phase = "engine" => worker.job # j
  BY <1>1, <1>2 DEF WorkerOwnsJob
<1>5. /\ QueuedItems' \subseteq QueuedItems \cup {j}
      /\ putters' \subseteq putters \cup {j}
      /\ queue' \in Seq(Jobs)
      /\ NoRepeats(queue')
      /\ QueuedItems' \cap putters' = {}
      /\ j \in QueuedItems' \cup putters'
  <2>1. CASE Len(queue) < MaxQueue
    <3>1. queue' = Append(queue, j) /\ putters' = putters
      BY <2>1 DEF Submit
    <3>2. /\ Append(queue, j) \in Seq(Jobs)
          /\ {Append(queue, j)[i] : i \in DOMAIN Append(queue, j)}
               = {queue[i] : i \in DOMAIN queue} \cup {j}
          /\ NoRepeats(queue) /\ j \notin {queue[i] : i \in DOMAIN queue}
               => NoRepeats(Append(queue, j))
      BY <1>1, AppendElems DEF TypeOK
    <3>3. QueuedItems' = QueuedItems \cup {j}
      BY <3>1, <3>2 DEF QueuedItems
    <3>4. QED
      BY <1>1, <1>3, <3>1, <3>2, <3>3 DEF WaitingItemsPending, QueuedItems
  <2>2. CASE ~(Len(queue) < MaxQueue)
    <3>1. queue' = queue /\ putters' = putters \cup {j}
      BY <2>2 DEF Submit
    <3>2. QueuedItems' = QueuedItems
      BY <3>1 DEF QueuedItems
    <3>3. QED
      BY <1>1, <1>3, <3>1, <3>2 DEF WaitingItemsPending, TypeOK
  <2>3. QED
    BY <2>1, <2>2
<1>6. TypeOK'
  <2>1. Append(created, j) \in Seq(Jobs)
    BY <1>1, AppendElems DEF TypeOK
  <2>2. QED
    BY <1>1, <1>2, <1>5, <2>1 DEF TypeOK, Status
<1>7. WorkerOwnsJob'
  BY <1>1, <1>2, <1>4, <1>5 DEF WorkerOwnsJob
<1>8. WaitingItemsPending'
  <2>1. QueuedItems \cup putters \subseteq Jobs
    BY <1>1 DEF TypeOK, QueuedItems
  <2>2. ASSUME NEW k \in QueuedItems' \cup putters'
        PROVE  status'[k] \in {"queued", "cancelled"}
    BY <1>1, <1>2, <1>5, <2>1 DEF WaitingItemsPending, TypeOK
  <2>3. QED
    BY <1>5, <2>2 DEF WaitingItemsPending
<1>9. EngineOutputMoved' /\ OutputIffCompleted' /\ CompletedOutputOnDisk'
  BY <1>1, <1>2, <1>3 DEF TypeOK, EngineOutputMoved, OutputIffCompleted,
                          CompletedOutputOnDisk
<1>10. QED
  BY <1>6, <1>7, <1>8, <1>9 DEF IInv

\* A suspended queue.put that resumes preserves the inductive invariant.
LEMMA SubmitResumeIInv ==
  ASSUME IInv, NEW j \in Jobs, SubmitResume(j)
  PROVE  IInv'
<1>1. TypeOK /\ WorkerOwnsJob /\ WaitingItemsPending /\ EngineOutputMoved
      /\ OutputIffCompleted /\ CompletedOutputOnDisk
  BY DEF IInv
<1>2. /\ queue' = Append(queue, j)
      /\ putters' = putters \ {j}
      /\ j \in putters
      /\ UNCHANGED <<now, records, status, updated, hasCallback, started,
                     finished, outPath, duration, processed, srcFiles,
                     workFiles, outFiles, worker, engine, delivered, created,
                     dequeued, stopped>>
  BY DEF SubmitResume
<1>3. j \notin QueuedItems
  BY <1>1, <1>2 DEF WaitingItemsPending
<1>4. /\ Append(queue, j) \in Seq(Jobs)
      /\ {Append(queue, j)[i] : i \in DOMAIN Append(queue, j)}
           = {queue[i] : i \in DOMAIN queue} \cup {j}
      /\ NoRepeats(queue) /\ j \notin {queue[i] : i \in DOMAIN queue}
           => NoRepeats(Append(queue, j))
  BY <1>1, AppendElems DEF TypeOK
<1>5. QueuedItems' = QueuedItems \cup {j} /\ NoRepeats(queue')
  BY <1>1, <1>2, <1>3, <1>4 DEF QueuedItems, WaitingItemsPending
<1>6. QueuedItems' \cup putters' = QueuedItems \cup putters
  BY <1>2, <1>5
<1>7. TypeOK'
  BY <1>1, <1>2, <1>4 DEF TypeOK
<1>8. WorkerOwnsJob'
  BY <1>1, <1>2, <1>6 DEF WorkerOwnsJob
<1>9. WaitingItemsPending'
  BY <1>1, <1>2, <1>3, <1>5, <1>6 DEF WaitingItemsPending
<1>10. EngineOutputMoved' /\ OutputIffCompleted' /\ CompletedOutputOnDisk'
  BY <1>1, <1>2 DEF EngineOutputMoved, OutputIffCompleted,
                    CompletedOutputOnDisk
<1>11. QED
  BY <1>7, <1>8, <1>9, <1>10 DEF IInv

\* cancel_job preserves the inductive invariant: the record it cancels is
\* not completed, so it has no output path.
LEMMA CancelIInv ==
  ASSUME IInv, NEW j \in Jobs, Cancel(j)
  PROVE  IInv'
<1>1. TypeOK /\ WorkerOwnsJob /\ WaitingItemsPending /\ EngineOutputMoved
      /\ OutputIffCompleted /\ CompletedOutputOnDisk
  BY DEF IInv
<1>2. /\ status' = [status EXCEPT ![j] = "cancelled"]
      /\ updated' = [updated EXCEPT ![j] = now]
      /\ status[j] \notin Terminal
      /\ UNCHANGED <<now, records, hasCallback, started, finished, outPath,
                     duration, processed, queue, putters, srcFiles, workFiles,
                     outFiles, worker, engine, delivered, created, dequeued, stopped>>
  BY DEF Cancel
<1>3. j \notin outPath
  BY <1>1, <1>2 DEF OutputIffCompleted, Terminal
<1>4. QueuedItems' = QueuedItems /\ QueuedItems \cup putters \subseteq Jobs
  BY <1>1, <1>2 DEF QueuedItems, TypeOK
<1>5. TypeOK'
  BY <1>1, <1>2 DEF TypeOK, Status, Terminal
<1>6. WorkerOwnsJob'
  BY <1>1, <1>2, <1>4 DEF WorkerOwnsJob, TypeOK
<1>7. WaitingItemsPending'
  BY <1>1, <1>2, <1>4 DEF WaitingItemsPending, TypeOK
<1>8. EngineOutputMoved' /\ OutputIffCompleted' /\ CompletedOutputOnDisk'
  BY <1>1, <1>2, <1>3 DEF TypeOK, EngineOutputMoved, OutputIffCompleted,
                          CompletedOutputOnDisk
<1>9. QED
  BY <1>5, <1>6, <1>7, <1>8 DEF IInv

\* purge_expired_jobs preserves the inductive invariant: it deletes an
\* output file only together with the record.
LEMMA PurgeIInv ==
  ASSUME IInv, Purge
  PROVE  IInv'
<1>1. TypeOK /\ WorkerOwnsJob /\ WaitingItemsPending /\ EngineOutputMoved
      /\ OutputIffCompleted /\ CompletedOutputOnDisk
  BY DEF IInv
<1>2. /\ ~stopped
      /\ records' = records \ Expired
      /\ srcFiles' = srcFiles \ Expired
      /\ outFiles' = outFiles \ (Expired \cap outPath)
      /\ UNCHANGED <<now, status, updated, hasCallback, started, finished,
                     outPath, duration, processed, queue, putters, workFiles,
                     worker, engine, delivered, created, dequeued, stopped>>
  BY DEF Purge
<1>3. Expired \subseteq records
  BY DEF Expired
<1>4. QueuedItems' = QueuedItems
  BY <1>2 DEF QueuedItems
<1>5. EngineOutputMoved'
  <2>1. engine.phase = "done" /\ engine.ok => worker.job \notin outPath
    BY <1>1 DEF WorkerOwnsJob, OutputIffCompleted, TypeOK, EngineStates,
                WorkerStates
  <2>2. QED
    BY <1>1, <1>2, <2>1 DEF EngineOutputMoved
<1>6. QED
  BY <1>1, <1>2, <1>3, <1>4, <1>5 DEF IInv, TypeOK, WorkerOwnsJob,
     WaitingItemsPending, OutputIffCompleted, CompletedOutputOnDisk

\* The clock preserves the inductive invariant.
LEMMA TickIInv ==
  ASSUME IInv, Tick
  PROVE  IInv'
<1>1. now' = now + 1 /\ now < MaxTime
  BY DEF Tick
<1>2. QueuedItems' = QueuedItems
  BY DEF Tick, QueuedItems
<1>3. QED
  BY <1>1, <1>2 DEF Tick, IInv, TypeOK, Time, WorkerOwnsJob,
     WaitingItemsPending, EngineOutputMoved, OutputIffCompleted,
     CompletedOutputOnDisk

\* The worker's dequeue preserves the inductive invariant: the head WorkItem
\* appears nowhere else, so the worker's job is in no queue.
LEMMA WorkerDequeueIInv ==
  ASSUME IInv, WorkerDequeue
  PROVE  IInv'
<1> DEFINE j == Head(queue)
           rest == {Tail(queue)[i] : i \in DOMAIN Tail(queue)}
<1>1. TypeOK /\ WorkerOwnsJob /\ WaitingItemsPending /\ EngineOutputMoved
      /\ OutputIffCompleted /\ CompletedOutputOnDisk
  BY DEF IInv
<1>2. /\ worker.phase = "idle"
      /\ queue # <<>>
      /\ queue' = Tail(queue)
      /\ dequeued' = Append(dequeued, j)
      /\ UNCHANGED <<now, records, hasCallback, finished, outPath, duration,
                     processed, putters, srcFiles, workFiles, outFiles,
                     delivered, created, stopped>>
  BY DEF WorkerDequeue
<1>3. /\ Tail(queue) \in Seq(Jobs)
      /\ j \in Jobs
      /\ QueuedItems = rest \cup {j}
      /\ NoRepeats(Tail(queue))
      /\ j \notin rest
  <2>1. /\ Tail(queue) \in Seq(Jobs)
        /\ Head(queue) \in Jobs
        /\ {queue[i] : i \in DOMAIN queue}
             = {Tail(queue)[i] : i \in DOMAIN Tail(queue)} \cup {Head(queue)}
        /\ NoRepeats(queue) =>
             /\ NoRepeats(Tail(queue))
             /\ Head(queue) \notin {Tail(queue)[i] : i \in DOMAIN Tail(queue)}
    <3>1. queue \in Seq(Jobs) /\ queue # <<>>
      BY <1>1, <1>2 DEF TypeOK
    <3>2. QED
      BY <3>1, TailElems
  <2>2. QED
    BY <1>1, <2>1 DEF QueuedItems, WaitingItemsPending
<1>4. QueuedItems' = rest
  BY <1>2 DEF QueuedItems
<1>5. /\ status[j] \in {"queued", "cancelled"}
      /\ j \notin putters
      /\ j \notin outPath
  BY <1>1, <1>3 DEF WaitingItemsPending, OutputIffCompleted
<1>6. engine.phase = "off"
  BY <1>1, <1>2 DEF WorkerOwnsJob
<1>7. Append(dequeued, j) \in Seq(Jobs)
  BY <1>1, <1>3, AppendElems DEF TypeOK
<1>8. CASE status[j] = "cancelled"
  <2>1. UNCHANGED <<status, updated, started, worker, engine>>
    BY <1>8 DEF WorkerDequeue
  <2>2. QED
    BY <1>1, <1>2, <1>3, <1>4, <1>6, <1>7, <2>1 DEF IInv, TypeOK,
       WorkerOwnsJob, WaitingItemsPending, EngineOutputMoved,
       OutputIffCompleted, CompletedOutputOnDisk
<1>9. CASE status[j] # "cancelled"
  <2>1. /\ status' = [status EXCEPT ![j] = "processing"]
        /\ updated' = [updated EXCEPT ![j] = now]
        /\ started' = started \cup {j}
        /\ worker' = [worker EXCEPT !.phase = "engine", !.job = j]
        /\ engine' = [engine EXCEPT !.phase = "start"]
    BY <1>9 DEF WorkerDequeue
  <2>2. TypeOK'
    BY <1>1, <1>2, <1>3, <1>7, <2>1 DEF TypeOK, WorkerStates, EngineStates,
       Status
  <2>3. WorkerOwnsJob'
    BY <1>1, <1>2, <1>3, <1>4, <1>5, <2>1 DEF WorkerOwnsJob, TypeOK
  <2>4. WaitingItemsPending'
    <3>1. QueuedItems \cup putters \subseteq Jobs
      BY <1>1 DEF TypeOK, QueuedItems
    <3>2. QED
      BY <1>1, <1>2, <1>3, <1>4, <1>5, <2>1, <3>1 DEF WaitingItemsPending,
         TypeOK
  <2>5. EngineOutputMoved' /\ OutputIffCompleted' /\ CompletedOutputOnDisk'
    BY <1>1, <1>2, <1>3, <1>5, <2>1 DEF EngineOutputMoved,
       OutputIffCompleted, CompletedOutputOnDisk, TypeOK
  <2>6. QED
    BY <2>2, <2>3, <2>4, <2>5 DEF IInv
<1>10. QED
  BY <1>8, <1>9

\* The probe step of the executor thread preserves the inductive invariant.
LEMMA EngineProbeIInv ==
  ASSUME IInv, EngineProbe
  PROVE  IInv'
<1>1. TypeOK /\ WorkerOwnsJob /\ WaitingItemsPending /\ EngineOutputMoved
      /\ OutputIffCompleted /\ CompletedOutputOnDisk
  BY DEF IInv
<1>2. /\ engine.phase = "start"
      /\ UNCHANGED <<now, records, status, updated, hasCallback, started,
                     finished, outPath, processed, queue, putters, srcFiles,
                     workFiles, outFiles, worker, delivered, created, dequeued, stopped>>
  BY DEF EngineProbe
<1>3. worker.job \in Jobs
  BY <1>1, <1>2 DEF WorkerOwnsJob
<1>4. QueuedItems' = QueuedItems
  BY <1>2 DEF QueuedItems
<1>5. /\ duration' \in [Jobs -> Media \cup {NoValue}]
      /\ engine' \in EngineStates
      /\ engine'.phase # "off"
      /\ engine'.phase = "done" => ~engine'.ok
  <2>1. CASE /\ engine' = [engine EXCEPT !.phase = "done", !.ok = FALSE]
             /\ UNCHANGED duration
    BY <1>1, <2>1 DEF TypeOK, EngineStates
  <2>2. CASE \E d \in {NoValue} \cup Media, m \in Modes, c \in 1..2 :
               /\ m # "hw" => c = 1
               /\ duration' = [duration EXCEPT ![worker.job] = d]
               /\ engine' = [phase |-> "running", mode |-> m, cands |-> c,
                             last |-> NoValue, ok |-> FALSE]
    BY <1>1, <1>3, <2>2 DEF TypeOK, EngineStates
  <2>3. QED
    BY <1>2, <2>1, <2>2 DEF EngineProbe
<1>6. QED
  BY <1>1, <1>2, <1>3, <1>4, <1>5 DEF IInv, TypeOK, WorkerOwnsJob,
     WaitingItemsPending, EngineOutputMoved, OutputIffCompleted,
     CompletedOutputOnDisk

\* A progress report of ffmpeg preserves the inductive invariant.
LEMMA EngineProgressIInv ==
  ASSUME IInv, NEW t \in Media, EngineProgress(t)
  PROVE  IInv'
<1>1. TypeOK /\ WorkerOwnsJob /\ WaitingItemsPending /\ EngineOutputMoved
      /\ OutputIffCompleted /\ CompletedOutputOnDisk
  BY DEF IInv
<1>2. /\ engine.phase = "running"
      /\ processed' = [processed EXCEPT ![worker.job] = t]
      /\ updated' = [updated EXCEPT ![worker.job] = now]
      /\ workFiles' = workFiles \cup {worker.job}
      /\ engine' = [engine EXCEPT !.last = t]
      /\ UNCHANGED <<now, records, status, hasCallback, started, finished,
                     outPath, duration, queue, putters, srcFiles, outFiles,
                     worker, delivered, created, dequeued, stopped>>
  BY DEF EngineProgress
<1>3. worker.job \in Jobs
  BY <1>1, <1>2 DEF WorkerOwnsJob
<1>4. QueuedItems' = QueuedItems
  BY <1>2 DEF QueuedItems
<1>5. TypeOK'
  BY <1>1, <1>2, <1>3 DEF TypeOK, EngineStates
<1>6. QED
  BY <1>1, <1>2, <1>3, <1>4, <1>5 DEF IInv, WorkerOwnsJob,
     WaitingItemsPending, EngineOutputMoved, OutputIffCompleted,
     CompletedOutputOnDisk

\* A successful ffmpeg run moves the output file before the engine is done.
LEMMA EngineSucceedIInv ==
  ASSUME IInv, EngineSucceed
  PROVE  IInv'
<1>1. TypeOK /\ WorkerOwnsJob /\ WaitingItemsPending /\ EngineOutputMoved
      /\ OutputIffCompleted /\ CompletedOutputOnDisk
  BY DEF IInv
<1>2. /\ engine.phase = "running"
      /\ outFiles' = outFiles \cup {worker.job}
      /\ workFiles' = workFiles \ {worker.job}
      /\ processed' = [processed EXCEPT ![worker.job] =
                         IF duration[worker.job] # NoValue
                           THEN duration[worker.job] ELSE @]
      /\ engine' = [engine EXCEPT !.phase = "done", !.ok = TRUE]
      /\ UNCHANGED <<now, records, status, updated, hasCallback, started,
                     finished, outPath, duration, queue, putters, srcFiles,
                     worker, delivered, created, dequeued, stopped>>
  BY DEF EngineSucceed
<1>3. worker.job \in Jobs
  BY <1>1, <1>2 DEF WorkerOwnsJob
<1>4. QueuedItems' = QueuedItems
  BY <1>2 DEF QueuedItems
<1>5. TypeOK'
  BY <1>1, <1>2, <1>3 DEF TypeOK, EngineStates
<1>6. QED
  BY <1>1, <1>2, <1>3, <1>4, <1>5 DEF IInv, WorkerOwnsJob,
     WaitingItemsPending, EngineOutputMoved, OutputIffCompleted,
     CompletedOutputOnDisk

\* A failed ffmpeg run, retried or not, preserves the inductive invariant.
LEMMA EngineFailIInv ==
  ASSUME IInv, EngineFail
  PROVE  IInv'
<1>1. TypeOK /\ WorkerOwnsJob /\ WaitingItemsPending /\ EngineOutputMoved
      /\ OutputIffCompleted /\ CompletedOutputOnDisk
  BY DEF IInv
<1>2. /\ engine.phase = "running"
      /\ UNCHANGED <<now, records, status, updated, hasCallback, started,
                     finished, outPath, duration, processed, queue, putters,
                     srcFiles, outFiles, worker, delivered, created, dequeued, stopped>>
  BY DEF EngineFail
<1>3. worker.job \in Jobs
  BY <1>1, <1>2 DEF WorkerOwnsJob
<1>4. QueuedItems' = QueuedItems
  BY <1>2 DEF QueuedItems
<1>5. /\ workFiles' \subseteq Jobs
      /\ engine' \in EngineStates
      /\ engine'.phase # "off"
      /\ engine'.phase = "done" => ~engine'.ok
  <2>1. CASE engine.mode = "hw" /\ engine.cands > 1
    <3>1. engine' = [engine EXCEPT !.cands = @ - 1, !.last = NoValue]
          /\ workFiles' = workFiles \ {worker.job}
      BY <2>1 DEF EngineFail
    <3>2. engine.cands - 1 \in 0..2
      BY <1>1, <2>1 DEF TypeOK, EngineStates
    <3>3. QED
      BY <1>1, <1>2, <3>1, <3>2 DEF TypeOK, EngineStates
  <2>2. CASE engine.mode = "hw" /\ ~(engine.cands > 1)
    <3>1. engine' = [engine EXCEPT !.phase = "done", !.ok = FALSE]
          /\ workFiles' = workFiles \ {worker.job}
      BY <2>2 DEF EngineFail
    <3>2. QED
      BY <1>1, <3>1 DEF TypeOK, EngineStates
  <2>3. CASE engine.mode # "hw"
    <3>1. engine' = [engine EXCEPT !.phase = "done", !.ok = FALSE]
          /\ workFiles' \subseteq workFiles \cup {worker.job}
      BY <2>3 DEF EngineFail
    <3>2. QED
      BY <1>1, <1>3, <3>1 DEF TypeOK, EngineStates
  <2>4. QED
    BY <2>1, <2>2, <2>3
<1>6. QED
  BY <1>1, <1>2, <1>3, <1>4, <1>5 DEF IInv, TypeOK, WorkerOwnsJob,
     WaitingItemsPending, EngineOutputMoved, OutputIffCompleted,
     CompletedOutputOnDisk

\* What _fire_callback leaves behind: the worker idle or dispatching for the
\* finished job, and at most that job's payload recorded.
LEMMA AfterFinishEffect ==
  ASSUME TypeOK, NEW j \in Jobs, NEW st \in Status, AfterFinish(j, st)
  PROVE  /\ worker' \in WorkerStates
         /\ worker'.phase \in {"idle", "callback"}
         /\ worker'.phase = "callback" => worker'.job = j
         /\ delivered' \in [Jobs -> Status \cup {NoValue}]
         /\ \A k \in Jobs \ {j} : delivered'[k] = delivered[k]
         /\ delivered'[j] \in {delivered[j], st}
<1>1. 1 \in 0..MaxAttempts /\ 0 \in 0..MaxAttempts
  BY ConstantsAssumption
<1>2. CASE hasCallback[j]
  BY <1>1, <1>2 DEF AfterFinish, TypeOK, WorkerStates
<1>3. CASE ~hasCallback[j]
  BY <1>1, <1>3 DEF AfterFinish, TypeOK, WorkerStates
<1>4. QED
  BY <1>2, <1>3

\* The worker's return from the executor preserves the inductive invariant:
\* a completed status comes with an output file the engine has moved, and a
\* failed one with no output path.
LEMMA WorkerFinishIInv ==
  ASSUME IInv, WorkerFinish
  PROVE  IInv'
<1> DEFINE j == worker.job
<1>1. TypeOK /\ WorkerOwnsJob /\ WaitingItemsPending /\ EngineOutputMoved
      /\ OutputIffCompleted /\ CompletedOutputOnDisk
  BY DEF IInv
<1>2. /\ worker.phase = "engine"
      /\ engine.phase = "done"
      /\ finished' = finished \cup {j}
      /\ updated' = [updated EXCEPT ![j] = now]
      /\ engine' = [engine EXCEPT !.phase = "off"]
      /\ UNCHANGED <<now, records, hasCallback, started, duration, processed,
                     queue, putters, srcFiles, workFiles, outFiles, created,
                     dequeued, stopped>>
  BY DEF WorkerFinish
<1>3. /\ j \in Jobs
      /\ status[j] \in {"processing", "cancelled"}
      /\ j \notin QueuedItems \cup putters
      /\ j \notin outPath
  BY <1>1, <1>2 DEF WorkerOwnsJob, OutputIffCompleted
<1>4. QueuedItems' = QueuedItems
  BY <1>2 DEF QueuedItems
<1>5. CASE engine.ok
  <2>1. /\ outPath' = outPath \cup {j}
        /\ status' = [status EXCEPT ![j] = "completed"]
        /\ AfterFinish(j, "completed")
    BY <1>5 DEF WorkerFinish
  <2>2. j \in outFiles
    BY <1>1, <1>2, <1>5 DEF EngineOutputMoved
  <2>3. "completed" \in Status
    BY DEF Status, Terminal
  <2>4. /\ worker' \in WorkerStates
        /\ worker'.phase \in {"idle", "callback"}
        /\ worker'.phase = "callback" => worker'.job = j
        /\ delivered' \in [Jobs -> Status \cup {NoValue}]
    BY <1>1, <1>3, <2>1, <2>3, AfterFinishEffect
  <2>5. TypeOK'
    BY <1>1, <1>2, <1>3, <2>1, <2>3, <2>4 DEF TypeOK, EngineStates
  <2>6. QED
    BY <1>1, <1>2, <1>3, <1>4, <2>1, <2>2, <2>4, <2>5 DEF IInv, TypeOK,
       WorkerOwnsJob, WaitingItemsPending, EngineOutputMoved,
       OutputIffCompleted, CompletedOutputOnDisk
<1>6. CASE ~engine.ok
  <2>1. /\ status' = [status EXCEPT ![j] = "failed"]
        /\ UNCHANGED outPath
        /\ AfterFinish(j, "failed")
    BY <1>6 DEF WorkerFinish
  <2>3. "failed" \in Status
    BY DEF Status, Terminal
  <2>4. /\ worker' \in WorkerStates
        /\ worker'.phase \in {"idle", "callback"}
        /\ worker'.phase = "callback" => worker'.job = j
        /\ delivered' \in [Jobs -> Status \cup {NoValue}]
    BY <1>1, <1>3, <2>1, <2>3, AfterFinishEffect
  <2>5. TypeOK'
    BY <1>1, <1>2, <1>3, <2>1, <2>3, <2>4 DEF TypeOK, EngineStates
  <2>6. QED
    BY <1>1, <1>2, <1>3, <1>4, <2>1, <2>4, <2>5 DEF IInv, TypeOK,
       WorkerOwnsJob, WaitingItemsPending, EngineOutputMoved,
       OutputIffCompleted, CompletedOutputOnDisk
<1>7. QED
  BY <1>5, <1>6

\* A callback attempt, answered or failed, and the end of a backoff sleep
\* preserve the inductive invariant: they change only the worker's phase
\* and attempt counter, with the engine off.
LEMMA CallbackIInv ==
  ASSUME IInv, CallbackSucceed \/ CallbackFail \/ CallbackBackoff
  PROVE  IInv'
<1>1. TypeOK /\ WorkerOwnsJob /\ WaitingItemsPending /\ EngineOutputMoved
      /\ OutputIffCompleted /\ CompletedOutputOnDisk
  BY DEF IInv
<1>2. /\ worker.phase \in {"callback", "backoff"}
      /\ UNCHANGED <<now, records, status, updated, hasCallback, started,
                     finished, outPath, duration, processed, queue, putters,
                     srcFiles, workFiles, outFiles, engine, delivered, created,
                     dequeued, stopped>>
  BY DEF CallbackSucceed, CallbackFail, CallbackBackoff
<1>3. engine.phase = "off" /\ worker.job \in Jobs /\ ~stopped
  BY <1>1, <1>2 DEF WorkerOwnsJob
<1>4. QueuedItems' = QueuedItems
  BY <1>2 DEF QueuedItems
<1>5. /\ worker' \in WorkerStates
      /\ worker'.phase \in {"idle", "callback", "backoff"}
      /\ worker'.phase \in {"callback", "backoff"} => worker'.job \in Jobs
  <2>1. 0 \in 0..MaxAttempts
    BY ConstantsAssumption
  <2>2. CASE CallbackSucceed
    BY <2>1, <2>2 DEF CallbackSucceed, WorkerStates
  <2>3. CASE CallbackFail
    BY <1>1, <1>3, <2>3 DEF CallbackFail, TypeOK, WorkerStates
  <2>4. CASE CallbackBackoff /\ worker.attempt < MaxAttempts
    <3>1. worker' = [worker EXCEPT !.phase = "callback", !.attempt = @ + 1]
      BY <2>4 DEF CallbackBackoff
    <3>2. worker.attempt + 1 \in 0..MaxAttempts
      BY <1>1, <2>4 DEF TypeOK, WorkerStates
    <3>3. QED
      BY <1>1, <1>3, <3>1, <3>2 DEF TypeOK, WorkerStates
  <2>5. CASE CallbackBackoff /\ ~(worker.attempt < MaxAttempts)
    BY <2>1, <2>5 DEF CallbackBackoff, WorkerStates
  <2>6. QED
    BY <2>2, <2>3, <2>4, <2>5
<1>6. QED
  BY <1>1, <1>2, <1>3, <1>4, <1>5 DEF IInv, TypeOK, WorkerOwnsJob,
     WaitingItemsPending, EngineOutputMoved, OutputIffCompleted,
     CompletedOutputOnDisk

\* stop() preserves the inductive invariant: the worker task ends where it
\* was suspended, and the executor thread keeps the job it was running.
LEMMA StopIInv ==
  ASSUME IInv, Stop
  PROVE  IInv'
<1>1. TypeOK /\ WorkerOwnsJob /\ WaitingItemsPending /\ EngineOutputMoved
      /\ OutputIffCompleted /\ CompletedOutputOnDisk
  BY DEF IInv
<1>2. /\ ~stopped
      /\ stopped' = TRUE
      /\ worker' = [worker EXCEPT !.phase = "stopped"]
      /\ UNCHANGED <<now, records, status, updated, hasCallback, started,
                     finished, outPath, duration, processed, queue, putters,
                     srcFiles, workFiles, outFiles, engine, delivered, created,
                     dequeued>>
  BY DEF Stop
<1>3. QueuedItems' = QueuedItems
  BY <1>2 DEF QueuedItems
<1>4. TypeOK'
  BY <1>1, <1>2 DEF TypeOK, WorkerStates
<1>5. WorkerOwnsJob'
  BY <1>1, <1>2, <1>3 DEF WorkerOwnsJob, TypeOK, WorkerStates
<1>6. QED
  BY <1>1, <1>2, <1>3, <1>4, <1>5 DEF IInv, WaitingItemsPending,
     EngineOutputMoved, OutputIffCompleted, CompletedOutputOnDisk

\* A stuttering step leaves every variable, and so the invariant, unchanged.
LEMMA StutterIInv ==
  ASSUME IInv, UNCHANGED vars
  PROVE  IInv'
<1>1. QueuedItems' = QueuedItems
  BY DEF vars, QueuedItems
<1>2. QED
  BY <1>1 DEF vars, IInv, TypeOK, WorkerOwnsJob, WaitingItemsPending,
     EngineOutputMoved, OutputIffCompleted, CompletedOutputOnDisk, NoRepeats

\* Every step of the job manager, the worker, the executor thread and the
\* callback dispatcher preserves the inductive invariant.
LEMMA NextIInv == IInv /\ [Next]_vars => IInv'
<1> SUFFICES ASSUME IInv, [Next]_vars PROVE IInv'
  OBVIOUS
<1>1. CASE \E j \in Jobs : Submit(j) \/ SubmitResume(j) \/ Cancel(j)
  BY <1>1, SubmitIInv, SubmitResumeIInv, CancelIInv
<1>2. CASE \E t \in Media : EngineProgress(t)
  BY <1>2, EngineProgressIInv
<1>3. CASE CallbackSucceed \/ CallbackFail \/ CallbackBackoff
  BY <1>3, CallbackIInv
<1>4. CASE Halted
  BY <1>4, StutterIInv DEF Halted
<1>5. QED
  BY <1>1, <1>2, <1>3, <1>4, PurgeIInv, TickIInv, WorkerDequeueIInv,
     EngineProbeIInv, EngineSucceedIInv, EngineFailIInv, WorkerFinishIInv,
     StopIInv, StutterIInv DEF Next

\* The conjunction IInv is an invariant of the job manager: it holds
\* initially and every step preserves it.
THEOREM IInvInvariant == Spec => []IInv
BY InitIInv, NextIInv, PTL DEF Spec

\* Type correctness: every variable of the job store, the queue, the worker
\* and the executor thread keeps its type in every reachable state.
THEOREM TypeCorrect == Spec => []TypeOK
<1>1. IInv => TypeOK
  BY DEF IInv
<1>2. QED
  BY IInvInvariant, <1>1, PTL

\* Spec section 3 for every number of jobs, queue size and bound: a job has
\* an output path exactly when its status is completed, whatever cancel_job,
\* the worker and the engine thread do in between.
THEOREM OutputIffCompletedInvariant == Spec => []OutputIffCompleted
<1>1. IInv => OutputIffCompleted
  BY DEF IInv
<1>2. QED
  BY IInvInvariant, <1>1, PTL

\* A completed job that is still listed has its output file in output_dir:
\* the engine moves the file before the worker marks the job completed.
THEOREM CompletedOutputOnDiskInvariant == Spec => []CompletedOutputOnDisk
<1>1. IInv => CompletedOutputOnDisk
  BY DEF IInv
<1>2. QED
  BY IInvInvariant, <1>1, PTL

-----------------------------------------------------------------------------
(* The refinement of JobLifecycle.  RInv adds to IInv that a processing    *)
(* record is the executor thread's job and that a listed record has been   *)
(* submitted; under it each step of JobManager maps to a step of the       *)
(* abstract lifecycle or to a stutter.                                     *)

\* The abstract status function of the refinement mapping.
AbsMap == [k \in Jobs |-> AbsStatus(k)]

\* A step that keeps every status label, every output path, and who owns
\* the engine, changes no abstract status and keeps the strengthening.
LEMMA QuietStep ==
  ASSUME ProcessingOwned, RecordsAccepted,
         status' = status, records' \subseteq records, outPath' = outPath,
         \/ engine.phase = "off" /\ engine'.phase = "off"
         \/ /\ engine.phase # "off" /\ engine'.phase # "off"
            /\ worker'.job = worker.job
  PROVE  /\ ProcessingOwned' /\ RecordsAccepted'
         /\ UNCHANGED Abs!vars
<1>1. ProcessingOwned' /\ RecordsAccepted'
  BY DEF ProcessingOwned, RecordsAccepted
<1>2. \A k \in Jobs : AbsStatus(k)' = AbsStatus(k)
  BY DEF AbsStatus
<1>3. AbsMap' = AbsMap
  BY <1>2 DEF AbsMap
<1>4. QED
  BY <1>1, <1>3 DEF Abs!vars, AbsMap

\* The mapped status of j changes to b and no other one changes.
LEMMA AbsUpdate ==
  ASSUME NEW j \in Jobs, NEW b,
         AbsStatus(j)' = b,
         \A k \in Jobs \ {j} : AbsStatus(k)' = AbsStatus(k)
  PROVE  AbsMap' = [AbsMap EXCEPT ![j] = b]
BY DEF AbsMap

\* The initial state maps to the initial state of the lifecycle.
LEMMA RefineInit == Init => Abs!Init /\ ProcessingOwned /\ RecordsAccepted
BY DEF Init, Abs!Init, AbsStatus, ProcessingOwned, RecordsAccepted

\* submit_job accepts the job: the abstract Accept step.
LEMMA RefineSubmit ==
  ASSUME IInv, ProcessingOwned, RecordsAccepted, NEW j \in Jobs, Submit(j)
  PROVE  /\ ProcessingOwned' /\ RecordsAccepted'
         /\ Abs!Accept(j)
<1>1. /\ status[j] = "none"
      /\ status' = [status EXCEPT ![j] = "queued"]
      /\ records' = records \cup {j}
      /\ UNCHANGED <<outPath, worker, engine>>
  BY DEF Submit
<1>2. status \in [Jobs -> Status \cup {"none"}]
  BY DEF IInv, TypeOK
<1>3. /\ AbsStatus(j) = "none"
      /\ AbsStatus(j)' = "queued"
      /\ \A k \in Jobs \ {j} : AbsStatus(k)' = AbsStatus(k)
  BY <1>1, <1>2 DEF AbsStatus
<1>4. AbsMap' = [AbsMap EXCEPT ![j] = "queued"] /\ AbsMap[j] = "none"
  BY <1>3, AbsUpdate DEF AbsMap
<1>5. ProcessingOwned' /\ RecordsAccepted'
  BY <1>1, <1>2 DEF ProcessingOwned, RecordsAccepted
<1>6. QED
  BY <1>1, <1>4, <1>5 DEF Abs!Accept, AbsMap

\* cancel_job: a queued job is cancelled (the abstract CancelQueued step);
\* the label put on the running job is hidden by the mapping (a stutter).
LEMMA RefineCancel ==
  ASSUME IInv, ProcessingOwned, RecordsAccepted, NEW j \in Jobs, Cancel(j)
  PROVE  /\ ProcessingOwned' /\ RecordsAccepted'
         /\ Abs!CancelQueued(j) \/ UNCHANGED Abs!vars
<1>1. /\ j \in records
      /\ status[j] \notin Terminal
      /\ status' = [status EXCEPT ![j] = "cancelled"]
      /\ UNCHANGED <<records, outPath, worker, engine>>
  BY DEF Cancel
<1>2. /\ status \in [Jobs -> Status \cup {"none"}]
      /\ engine.phase # "off" =>
           status[worker.job] \in {"processing", "cancelled"}
  BY DEF IInv, TypeOK, WorkerOwnsJob
<1>3. status[j] \in {"queued", "processing"}
  BY <1>1, <1>2 DEF RecordsAccepted, Status, Terminal
<1>4. ProcessingOwned' /\ RecordsAccepted'
  BY <1>1, <1>2 DEF ProcessingOwned, RecordsAccepted
<1>5. \A k \in Jobs \ {j} : AbsStatus(k)' = AbsStatus(k)
  BY <1>1, <1>2 DEF AbsStatus
<1>6. CASE status[j] = "queued"
  <2>1. ~(engine.phase # "off" /\ worker.job = j)
    BY <1>2, <1>6
  <2>2. AbsStatus(j) = "queued" /\ AbsStatus(j)' = "cancelled"
    BY <1>1, <1>2, <1>6, <2>1 DEF AbsStatus
  <2>3. AbsMap' = [AbsMap EXCEPT ![j] = "cancelled"] /\ AbsMap[j] = "queued"
    BY <1>5, <2>2, AbsUpdate DEF AbsMap
  <2>4. QED
    BY <1>1, <1>4, <2>3 DEF Abs!CancelQueued, AbsMap
<1>7. CASE status[j] = "processing"
  <2>1. engine.phase # "off" /\ worker.job = j
    BY <1>7 DEF ProcessingOwned
  <2>2. AbsStatus(j)' = AbsStatus(j)
    BY <1>1, <1>2, <1>7, <2>1 DEF AbsStatus
  <2>3. AbsMap' = AbsMap
    BY <1>5, <2>2 DEF AbsMap
  <2>4. QED
    BY <1>1, <1>4, <2>3 DEF Abs!vars, AbsMap
<1>8. QED
  BY <1>3, <1>6, <1>7

\* The worker's dequeue: a queued job starts (the abstract Start step); a
\* cancelled WorkItem is dropped without a visible change.
LEMMA RefineDequeue ==
  ASSUME IInv, ProcessingOwned, RecordsAccepted, WorkerDequeue
  PROVE  /\ ProcessingOwned' /\ RecordsAccepted'
         /\ (\E k \in Jobs : Abs!Start(k)) \/ UNCHANGED Abs!vars
<1>1. /\ worker.phase = "idle"
      /\ queue # <<>>
      /\ UNCHANGED <<records, outPath>>
  BY DEF WorkerDequeue
<1>2. /\ status \in [Jobs -> Status \cup {"none"}]
      /\ worker \in WorkerStates
      /\ engine \in EngineStates
      /\ queue \in Seq(Jobs)
  BY DEF IInv, TypeOK
<1>3. engine.phase = "off"
  BY <1>1 DEF IInv, WorkerOwnsJob
<1>4. PICK j \in Jobs : j = Head(queue)
  BY <1>1, <1>2
<1>5. j \in Jobs /\ j \in QueuedItems
  BY <1>4, <1>1, <1>2 DEF QueuedItems
<1>6. status[j] \in {"queued", "cancelled"}
  BY <1>5 DEF IInv, WaitingItemsPending
<1>7. CASE status[j] = "cancelled"
  <2>1. UNCHANGED <<status, worker, engine>>
    BY <1>4, <1>7 DEF WorkerDequeue
  <2>2. QED
    BY <1>1, <1>3, <2>1, QuietStep
<1>8. CASE status[j] # "cancelled"
  <2>1. /\ status' = [status EXCEPT ![j] = "processing"]
        /\ worker' = [worker EXCEPT !.phase = "engine", !.job = j]
        /\ engine' = [engine EXCEPT !.phase = "start"]
    BY <1>4, <1>8 DEF WorkerDequeue
  <2>2. status[j] = "queued"
    BY <1>6, <1>8
  <2>3. worker'.job = j /\ engine'.phase = "start"
    BY <1>2, <2>1 DEF WorkerStates, EngineStates
  <2>4. AbsStatus(j) = "queued" /\ AbsStatus(j)' = "processing"
    BY <1>2, <1>5, <2>1, <2>2, <2>3 DEF AbsStatus
  <2>5. \A k \in Jobs \ {j} : AbsStatus(k)' = AbsStatus(k)
    BY <1>2, <1>3, <2>1, <2>3 DEF AbsStatus
  <2>6. AbsMap' = [AbsMap EXCEPT ![j] = "processing"] /\ AbsMap[j] = "queued"
    BY <1>5, <2>4, <2>5, AbsUpdate DEF AbsMap
  <2>7. ProcessingOwned'
    BY <1>2, <1>3, <1>5, <2>1, <2>3 DEF ProcessingOwned
  <2>8. RecordsAccepted'
    BY <1>1, <1>2, <1>5, <2>1 DEF RecordsAccepted
  <2>9. Abs!Start(j)
    BY <1>1, <2>6 DEF Abs!Start, AbsMap
  <2>10. QED
    BY <1>5, <2>7, <2>8, <2>9
<1>9. QED
  BY <1>7, <1>8

\* The worker records the engine's outcome: the abstract Complete step,
\* with the output path, or Fail, without it.
LEMMA RefineFinish ==
  ASSUME IInv, ProcessingOwned, RecordsAccepted, WorkerFinish
  PROVE  /\ ProcessingOwned' /\ RecordsAccepted'
         /\ \E k \in Jobs : Abs!Complete(k) \/ Abs!Fail(k)
<1>1. /\ worker.phase = "engine"
      /\ engine.phase = "done"
      /\ engine' = [engine EXCEPT !.phase = "off"]
      /\ UNCHANGED records
  BY DEF WorkerFinish
<1>2. PICK j \in Jobs : j = worker.job
  BY <1>1 DEF IInv, WorkerOwnsJob
<1>3. j \in Jobs /\ status[j] \in {"processing", "cancelled"}
  BY <1>2, <1>1 DEF IInv, WorkerOwnsJob
<1>4. status \in [Jobs -> Status \cup {"none"}] /\ engine \in EngineStates
  BY DEF IInv, TypeOK
<1>5. engine'.phase = "off"
  BY <1>1, <1>4 DEF EngineStates
<1>6. AbsMap[j] = "processing"
  BY <1>2, <1>1, <1>3 DEF AbsStatus, AbsMap
<1>7. ASSUME NEW st \in {"completed", "failed"},
             status' = [status EXCEPT ![j] = st]
      PROVE  /\ AbsMap' = [AbsMap EXCEPT ![j] = st]
             /\ ProcessingOwned' /\ RecordsAccepted'
  <2>1. AbsStatus(j)' = st
    BY <1>3, <1>4, <1>5, <1>7 DEF AbsStatus
  <2>2. \A k \in Jobs \ {j} : AbsStatus(k)' = AbsStatus(k)
    BY <1>2, <1>4, <1>5, <1>7 DEF AbsStatus
  <2>3. AbsMap' = [AbsMap EXCEPT ![j] = st]
    BY <1>3, <2>1, <2>2, AbsUpdate
  <2>4. ProcessingOwned'
    BY <1>2, <1>3, <1>4, <1>5, <1>7 DEF ProcessingOwned
  <2>5. RecordsAccepted'
    BY <1>1, <1>3, <1>4, <1>7 DEF RecordsAccepted
  <2>6. QED
    BY <2>3, <2>4, <2>5
<1>8. CASE engine.ok
  <2>1. status' = [status EXCEPT ![j] = "completed"] /\ outPath' = outPath \cup {j}
    BY <1>2, <1>8 DEF WorkerFinish
  <2>2. Abs!Complete(j)
    BY <1>6, <1>7, <2>1 DEF Abs!Complete, AbsMap
  <2>3. QED
    BY <1>3, <1>7, <2>1, <2>2
<1>9. CASE ~engine.ok
  <2>1. status' = [status EXCEPT ![j] = "failed"] /\ outPath' = outPath
    BY <1>2, <1>9 DEF WorkerFinish
  <2>2. Abs!Fail(j)
    BY <1>6, <1>7, <2>1 DEF Abs!Fail, AbsMap
  <2>3. QED
    BY <1>3, <1>7, <2>1, <2>2
<1>10. QED
  BY <1>8, <1>9

\* The other steps change no status label and no output path: a resumed
\* put, purge, the clock, the executor thread (which keeps the engine and
\* its job), the callback dispatch (with the engine off) and stop().
LEMMA RefineQuiet ==
  ASSUME IInv, ProcessingOwned, RecordsAccepted,
         \/ \E j \in Jobs : SubmitResume(j)
         \/ Purge \/ Tick \/ EngineProbe \/ \E t \in Media : EngineProgress(t)
         \/ EngineSucceed \/ EngineFail
         \/ CallbackSucceed \/ CallbackFail \/ CallbackBackoff
         \/ Stop \/ UNCHANGED vars
  PROVE  /\ ProcessingOwned' /\ RecordsAccepted'
         /\ UNCHANGED Abs!vars
<1>1. worker \in WorkerStates /\ engine \in EngineStates
  BY DEF IInv, TypeOK
<1>2. CASE \/ \E j \in Jobs : SubmitResume(j)
           \/ Tick \/ UNCHANGED vars
  <2>1. UNCHANGED <<status, records, outPath, worker, engine>>
    BY <1>2 DEF SubmitResume, Tick, vars
  <2>2. QED
    BY <2>1, QuietStep
<1>3. CASE Purge
  <2>1. /\ UNCHANGED <<status, outPath, worker, engine>>
        /\ records' \subseteq records
    BY <1>3 DEF Purge
  <2>2. QED
    BY <2>1, QuietStep
<1>4. CASE EngineProbe
  <2>1. UNCHANGED <<status, records, outPath, worker>> /\ engine.phase = "start"
    BY <1>4 DEF EngineProbe
  <2>2. \/ engine' = [engine EXCEPT !.phase = "done", !.ok = FALSE]
        \/ engine'.phase = "running"
    BY <1>4 DEF EngineProbe
  <2>3. engine'.phase # "off"
    BY <1>1, <2>2 DEF EngineStates
  <2>4. QED
    BY <2>1, <2>3, QuietStep
<1>5. CASE \E t \in Media : EngineProgress(t)
  <2>1. /\ UNCHANGED <<status, records, outPath, worker>>
        /\ engine.phase = "running"
        /\ engine'.phase = "running"
    BY <1>1, <1>5 DEF EngineProgress, EngineStates
  <2>2. QED
    BY <2>1, QuietStep
<1>6. CASE EngineSucceed
  <2>1. /\ UNCHANGED <<status, records, outPath, worker>>
        /\ engine.phase = "running"
        /\ engine'.phase = "done"
    BY <1>1, <1>6 DEF EngineSucceed, EngineStates
  <2>2. QED
    BY <2>1, QuietStep
<1>7. CASE EngineFail
  <2>1. /\ UNCHANGED <<status, records, outPath, worker>>
        /\ engine.phase = "running"
        /\ engine'.phase \in {"done", "running"}
    BY <1>1, <1>7 DEF EngineFail, EngineStates
  <2>2. QED
    BY <2>1, QuietStep
<1>8. CASE CallbackSucceed \/ CallbackFail \/ CallbackBackoff
  <2>1. /\ UNCHANGED <<status, records, outPath, engine>>
        /\ worker.phase \in {"callback", "backoff"}
    BY <1>8 DEF CallbackSucceed, CallbackFail, CallbackBackoff
  <2>2. engine.phase = "off"
    BY <2>1 DEF IInv, WorkerOwnsJob
  <2>3. QED
    BY <2>1, <2>2, QuietStep
<1>9. CASE Stop
  <2>1. /\ UNCHANGED <<status, records, outPath, engine>>
        /\ worker'.job = worker.job
    BY <1>1, <1>9 DEF Stop, WorkerStates
  <2>2. QED
    BY <2>1, QuietStep
<1>10. QED
  BY <1>2, <1>3, <1>4, <1>5, <1>6, <1>7, <1>8, <1>9

\* Every step keeps the strengthening and maps to a lifecycle step or to a
\* stutter.
LEMMA RefineNext ==
  ASSUME RInv, [Next]_vars
  PROVE  /\ ProcessingOwned' /\ RecordsAccepted'
         /\ [Abs!Next]_Abs!vars
<1>1. IInv /\ ProcessingOwned /\ RecordsAccepted
  BY DEF RInv
<1>2. CASE \E j \in Jobs : Submit(j)
  BY <1>1, <1>2, RefineSubmit DEF Abs!Next
<1>3. CASE \E j \in Jobs : Cancel(j)
  BY <1>1, <1>3, RefineCancel DEF Abs!Next
<1>4. CASE WorkerDequeue
  BY <1>1, <1>4, RefineDequeue DEF Abs!Next
<1>5. CASE WorkerFinish
  BY <1>1, <1>5, RefineFinish DEF Abs!Next
<1>6. CASE Halted
  BY <1>1, <1>6, RefineQuiet DEF Halted
<1>7. QED
  BY <1>1, <1>2, <1>3, <1>4, <1>5, <1>6, RefineQuiet DEF Next

\* RInv is an invariant of the job manager.
THEOREM RInvInvariant == Spec => []RInv
<1>1. Init => RInv
  BY InitIInv, RefineInit DEF RInv
<1>2. RInv /\ [Next]_vars => RInv'
  BY NextIInv, RefineNext DEF RInv
<1>3. QED
  BY <1>1, <1>2, PTL DEF Spec

\* Spec sections 3, 4.1 and 5 for every number of jobs, queue size and
\* bound: JobManager, with its worker, executor thread, callback dispatch,
\* purge and stop(), implements the abstract job lifecycle JobLifecycle
\* under the mapping that reads a running job's "cancelled" label as
\* processing.
THEOREM Refinement == Spec => LifecycleRefinement
<1>1. Init => Abs!Init
  BY RefineInit
<1>2. RInv /\ [Next]_vars => [Abs!Next]_Abs!vars
  BY RefineNext
<1>3. QED
  BY <1>1, <1>2, RInvInvariant, PTL DEF Spec, LifecycleRefinement, Abs!Spec

-----------------------------------------------------------------------------
(* Properties of single steps and of the callback payload.                 *)

\* Every step keeps the payload of a job equal to its final status: a job
\* with a payload is completed or failed, hence in no queue, not the
\* engine's job and no longer cancellable.
LEMMA CallbackStep ==
  ASSUME RInv, CallbackMatchesStatus, [Next]_vars
  PROVE  CallbackMatchesStatus'
<1>1. /\ TypeOK /\ WorkerOwnsJob /\ WaitingItemsPending
  BY DEF RInv, IInv
<1>2. \A k \in Jobs : delivered[k] # NoValue =>
                        status[k] \in {"completed", "failed"}
  BY DEF CallbackMatchesStatus
<1>3. CASE \E j \in Jobs : Submit(j) \/ Cancel(j)
  BY <1>1, <1>2, <1>3 DEF Submit, Cancel, CallbackMatchesStatus, TypeOK,
                          Terminal
<1>4. CASE WorkerDequeue
  <2>1. PICK j \in Jobs : j = Head(queue)
    BY <1>1, <1>4 DEF WorkerDequeue, TypeOK
  <2>2. j \in QueuedItems
    BY <1>1, <1>4, <2>1 DEF WorkerDequeue, TypeOK, QueuedItems
  <2>3. status[j] \in {"queued", "cancelled"}
    BY <1>1, <2>2 DEF WaitingItemsPending
  <2>4. QED
    BY <1>1, <1>2, <1>4, <2>1, <2>3 DEF WorkerDequeue, CallbackMatchesStatus,
                                        TypeOK
<1>5. CASE WorkerFinish
  <2>1. PICK j \in Jobs : j = worker.job
    BY <1>1, <1>5 DEF WorkerFinish, WorkerOwnsJob
  <2>2. status[j] \in {"processing", "cancelled"} /\ delivered[j] = NoValue
    BY <1>1, <1>2, <1>5, <2>1 DEF WorkerFinish, WorkerOwnsJob
  <2>3. PICK st \in {"completed", "failed"} :
          /\ status' = [status EXCEPT ![j] = st]
          /\ AfterFinish(j, st)
    BY <1>5, <2>1 DEF WorkerFinish
  <2>4. /\ \A k \in Jobs \ {j} : delivered'[k] = delivered[k]
        /\ delivered'[j] \in {delivered[j], st}
    BY <1>1, <2>3, AfterFinishEffect DEF Status, Terminal
  <2>5. QED
    BY <1>1, <2>2, <2>3, <2>4 DEF CallbackMatchesStatus, TypeOK
<1>6. CASE \/ \E j \in Jobs : SubmitResume(j)
           \/ Purge \/ Tick \/ EngineProbe \/ \E t \in Media : EngineProgress(t)
           \/ EngineSucceed \/ EngineFail
           \/ CallbackSucceed \/ CallbackFail \/ CallbackBackoff
           \/ Stop \/ Halted \/ UNCHANGED vars
  <2>1. UNCHANGED <<status, delivered>>
    BY <1>6 DEF SubmitResume, Purge, Tick, EngineProbe, EngineProgress,
                EngineSucceed, EngineFail, CallbackSucceed, CallbackFail,
                CallbackBackoff, Stop, Halted, vars
  <2>2. QED
    BY <2>1 DEF CallbackMatchesStatus
<1>7. QED
  BY <1>3, <1>4, <1>5, <1>6 DEF Next

\* Spec section 4.3 for every value of the constants: the callback payload
\* carries the job's final status, completed or failed, and no later step
\* (cancel_job included) changes the status it reported.
THEOREM CallbackMatchesStatusInvariant == Spec => []CallbackMatchesStatus
<1>1. Init => CallbackMatchesStatus
  BY DEF Init, CallbackMatchesStatus
<1>2. RInv /\ CallbackMatchesStatus /\ [Next]_vars => CallbackMatchesStatus'
  BY CallbackStep
<1>3. QED
  BY <1>1, <1>2, RInvInvariant, PTL DEF Spec
=============================================================================
