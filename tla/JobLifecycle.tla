---------------------------- MODULE JobLifecycle ----------------------------
(* What the job manager promises about one job's life (spec sections 3 and *)
(* 4.1, JobStatus in models.py): a job is accepted as queued, is started   *)
(* at most once, ends completed (with an output), failed or cancelled, and *)
(* a terminal status never changes.  Cancelling a job that is already      *)
(* processing does not stop it: it "completes naturally" (spec section 5), *)
(* so at this level only a queued job can be cancelled.  JobManager        *)
(* implements this specification under a refinement mapping.               *)
CONSTANT Jobs

VARIABLES
  status,   \* the lifecycle status of each job ("none": not yet accepted)
  output    \* the jobs that have an output file to download

vars == <<status, output>>

Terminal == {"completed", "failed", "cancelled"}

Init ==
  /\ status = [j \in Jobs |-> "none"]
  /\ output = {}

\* submit_job accepts the job and queues it.
Accept(j) ==
  /\ status[j] = "none"
  /\ status' = [status EXCEPT ![j] = "queued"]
  /\ UNCHANGED output

\* The single worker takes the job from the queue.
Start(j) ==
  /\ status[j] = "queued"
  /\ status' = [status EXCEPT ![j] = "processing"]
  /\ UNCHANGED output

\* The transcode succeeds: the job is completed and its output available.
Complete(j) ==
  /\ status[j] = "processing"
  /\ status' = [status EXCEPT ![j] = "completed"]
  /\ output' = output \cup {j}

\* The transcode fails: no output.
Fail(j) ==
  /\ status[j] = "processing"
  /\ status' = [status EXCEPT ![j] = "failed"]
  /\ UNCHANGED output

\* A client cancels a job still waiting in the queue.
CancelQueued(j) ==
  /\ status[j] = "queued"
  /\ status' = [status EXCEPT ![j] = "cancelled"]
  /\ UNCHANGED output

Next ==
  \E j \in Jobs :
    \/ Accept(j)
    \/ Start(j)
    \/ Complete(j)
    \/ Fail(j)
    \/ CancelQueued(j)

Spec == Init /\ [][Next]_vars

=============================================================================
