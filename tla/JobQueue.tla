------------------------------ MODULE JobQueue ------------------------------
(***************************************************************************)
(* The PostgreSQL-backed job queue of the pipeline (app/job_queue.py and   *)
(* the job_queue table of app/models.py).  A row is inserted "pending",    *)
(* claimed "picked" by a poll, and closed "done" or "failed"; closed rows  *)
(* stay as history until a sweep prunes them or the episode is deleted.    *)
(***************************************************************************)
EXTENDS Naturals

CONSTANTS
    Episode,        \* the episode rows that may exist
    NoEpisode,      \* the episode of no row
    MaxJobs         \* bound: job rows inserted in one behaviour

ASSUME EpisodeAssumption == NoEpisode \notin Episode
ASSUME MaxJobsAssumption == MaxJobs \in Nat

VARIABLES
    jobs,           \* the job_queue table, by id
    lastId          \* the id sequence: the last id handed out

JobId == 1 .. MaxJobs

Task == {"download", "transcribe", "diarize", "chunk", "embed", "infer", "archive"}

\* Lower is claimed first: an episode under way is finished before a new one starts.
Priority == [archive |-> 0, infer |-> 1, embed |-> 2, chunk |-> 3,
             diarize |-> 4, transcribe |-> 5, download |-> 6]

\* The job each handler enqueues when it hands its episode on.
NextTask == [download |-> "transcribe", transcribe |-> "diarize", diarize |-> "chunk",
             chunk |-> "embed", embed |-> "infer", infer |-> "archive"]

\* due: retry_at is NULL or has passed.
JobRow == [ep : Episode, task : Task, status : {"pending", "picked", "done", "failed"},
           due : BOOLEAN]
NoJob == [ep |-> NoEpisode, task |-> "none", status |-> "none", due |-> FALSE]

QueueInit == jobs = [j \in JobId |-> NoJob] /\ lastId = 0

-----------------------------------------------------------------------------
JobsOf(e) == {j \in JobId : jobs[j].ep = e}
PendingJobs(e) == {j \in JobsOf(e) : jobs[j].status = "pending"}
PickedJobs(e) == {j \in JobsOf(e) : jobs[j].status = "picked"}

\* The queue still owes work to e.
Active(e) == PendingJobs(e) \cup PickedJobs(e) # {}

\* job_queue.enqueue: insert and commit, together with whatever the session holds.
Enqueue(e, task, due) ==
    /\ lastId < MaxJobs
    /\ lastId' = lastId + 1
    /\ jobs' = [jobs EXCEPT ![lastId + 1] =
                   [ep |-> e, task |-> task, status |-> "pending", due |-> due]]

Ready(j) == jobs[j].status = "pending" /\ jobs[j].due

\* A variant the checks must reject: first come, first served.
ForemostOfAll(j) == Ready(j) /\ \A k \in JobId : Ready(k) => j <= k

\* j is the row the ORDER BY of poll returns: best stage first, oldest within a stage.
\* Ids and created_at grow together.
Foremost(j) ==
    /\ Ready(j)
    /\ \A k \in JobId : Ready(k) =>
          \/ Priority[jobs[j].task] < Priority[jobs[k].task]
          \/ Priority[jobs[j].task] = Priority[jobs[k].task] /\ j <= k

\* complete, fail, and the status write of poll.
SetJob(j, status) == jobs' = [jobs EXCEPT ![j].status = status]

\* retry_at of a backed-off row passes.
BackoffElapses(j) ==
    /\ jobs[j].status = "pending"
    /\ ~jobs[j].due
    /\ jobs' = [jobs EXCEPT ![j].due = TRUE]

\* A failed row is superseded by a later success of the same task.
SupersededBy(d, f) ==
    /\ jobs[d].ep = jobs[f].ep
    /\ jobs[d].task = jobs[f].task
    /\ jobs[d].status = "done"
    /\ d > f
=============================================================================
