---------------------------- MODULE MCJobManager ----------------------------
(* Model-checking instance of JobManager: three job ids, a queue of one     *)
(* WorkItem, so that submit_job suspends in queue.put, a retention short    *)
(* enough for purge_expired_jobs to reach queued and processing records.    *)
EXTENDS JobManager, TLC

\* Job ids are interchangeable model values.
JobSymmetry == Permutations(Jobs)

=============================================================================
