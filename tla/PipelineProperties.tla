------------------------ MODULE PipelineProperties ------------------------
(***************************************************************************)
(* What the episode pipeline must never do, what it must do in the end,    *)
(* and what the repository says of it that its code does not keep.         *)
(***************************************************************************)
EXTENDS Pipeline

\* Every variable holds a value of its kind.
TypeOK ==
    /\ jobs \in [JobId -> JobRow \cup {NoJob}]
    /\ lastId \in 0 .. MaxJobs
    /\ ep \in [Episode -> EpisodeRow]
    /\ rawFiles \subseteq Episode
    /\ arcFiles \subseteq Episode
    /\ worker \in Worker
    /\ api \in [Episode -> {"none", "enqueue", "delete"}]
    /\ alert \in [Episode -> {"none", "due", "sent", "lost"}]
    /\ wiped \subseteq Episode
    /\ crashes \in 0 .. MaxCrashes
    /\ manual \in 0 .. MaxManual

-----------------------------------------------------------------------------
(* Invariants.                                                             *)

\* _handle_task_exception: automatic retries stay within retry_max, and a transient error
\* ends an episode only when every one of them has been spent.
RetryBudget ==
    \A e \in Episode :
        /\ ep[e].retries <= RetryMax
        /\ ep[e].status = "failed" /\ ep[e].err = "TRANSIENT_NETWORK"
              => ep[e].retries = RetryMax

\* A recorded audio path names a file that is on disk, through every interleaving of the
\* archive step, crashes, re-downloads and retries; only a delete request in progress can
\* have removed it (archive.py verifies "done" before it unlinks the raw file, and keeps
\* a source that is the archive file itself).
AudioBacked ==
    \A e \in Episode : e \notin wiped /\ ep[e].audio # "none" => HasFile(e, ep[e].audio)

\* A finished episode can be read and played: it has its transcript and, where audio is
\* archived, its row points at the archived file.
DonePlayable ==
    \A e \in Episode :
        ep[e].status = "done" =>
            /\ ep[e].segs
            /\ ArchiveAudio /\ e \notin wiped => ep[e].audio = "archive"

\* Wherever the worker or an API request dies, an episode left in a mid-pipeline status
\* still has an open job, so it is the zombie sweep that finds it: the stranded sweep is
\* needed for rows left by older code only.
NeverStranded ==
    \A e \in Episode : ep[e].status \in Mid => Active(e)

AnnouncingFor(e) == worker.pc = "alert" /\ worker.ep = e

\* mark_failed on behalf of the zombie sweep, which holds no claim of its own.
Sweeping == worker.pc = "alert" /\ worker.then = "idle"

\* What a failure that must be announced leaves behind until it is announced: the worker
\* inside mark_failed, or an open claim for the zombie sweep to reap.
Remembered(e) == AnnouncingFor(e) \/ PickedJobs(e) # {}

\* A failure that must be announced and has not been is remembered, through every retry
\* and death of a worker that runs a job, and goes unannounced in three ways only: with its
\* episode, replaced by a later failure of that episode, or lost in the one window the code
\* leaves open, a death inside the zombie sweep's own mark_failed, whose claim is closed
\* and whose "failed" is committed before it emits (cleanup.py:69-82, helpers.py:24-40).
NoSilentFailure ==
    [][\A e \in Episode :
          /\ alert'[e] = "due" => Remembered(e)'
          /\ alert[e] = "due" /\ alert'[e] # "due" =>
                \/ ~Exists(e)'
                \/ AnnouncingFor(e)' /\ alert'[e] # "lost"
                \/ AnnouncingFor(e) /\ (alert'[e] = "lost" => Sweeping)
      ]_vars

\* The worker's claim; between jobs, and in a sweep, it holds none.
Claim == IF worker.pc = "idle" \/ Sweeping THEN {} ELSE {worker.job}
OpenClaims == {j \in JobId : jobs[j].status = "picked"}

\* Every path through a handler closes the job it claimed: a row stays "picked" with
\* nobody working on it only if its worker died.
LeakedClaims == Cardinality(OpenClaims \ Claim) <= crashes

\* The places from which e can go on: its pending jobs, a request about to add one, and
\* the worker until it has handed e on.
Driven(e) == worker.ep = e /\ worker.pc \in InHandler \cup {"raised", "requeue"}
Pipelines(e) ==
    Cardinality(PendingJobs(e)) + (IF api[e] = "enqueue" THEN 1 ELSE 0)
        + (IF Driven(e) THEN 1 ELSE 0)

\* Automatic retries, both sweeps and crashes never fork an episode: it is processed by
\* more than one chain of jobs only if a user retried it while one was under way.
PipelinesBounded == \A e \in Episode : Exists(e) => Pipelines(e) <= 1 + manual

-----------------------------------------------------------------------------
(* Without crashes and manual retries.                                     *)

\* TASK_PRIORITY: an episode of a feed that is under way, and met no transient error, is
\* finished before the worker starts another one.
OneInFlight ==
    \A e, f \in Episode :
        /\ ep[e].status \in Mid /\ ep[f].status \in Mid
        /\ ep[e].retries = 0 /\ ep[f].retries = 0
        /\ ep[e].kind # "upload" /\ ep[f].kind # "upload"
        => e = f

\* A stage starts its computation only on what the stages before it left: transcribe and
\* diarize on a recorded audio file, every stage from diarize on with segments in the
\* database, and infer on diarized ones only.
StageInputs ==
    worker.pc = "work" /\ Exists(worker.ep) =>
        /\ worker.task \in {"transcribe", "diarize"} => Here.audio # "none"
        /\ worker.task \notin {"download", "transcribe"} => Here.segs
        /\ worker.task = "infer" => Here.diar

\* EpisodeLifecycle's stage of an episode under way is the task of its newest open job: after a handoff
\* that is the next stage's job, though the claim of the last one is not closed yet.
NewestTask(e) ==
    LET open == PendingJobs(e) \cup PickedJobs(e)
    IN  jobs[CHOOSE j \in open : \A k \in open : k <= j].task

StageOf(e) ==
    CASE ep[e].status \in Terminal \cup {"absent", "deleted"} -> ep[e].status
      [] Exists(e) /\ ep[e].status \notin Terminal /\ Active(e) -> NewestTask(e)
      [] ep[e].status = "pending" /\ ~Active(e) -> "entered"
      [] Stranded(e) -> "stranded"

Life == INSTANCE EpisodeLifecycle
            WITH stage <- [e \in Episode |-> StageOf(e)],
                 tries <- [e \in Episode |-> ep[e].retries],
                 deaths <- crashes

\* Queue, worker, handlers and sweeps together carry each episode through the abstract
\* lifecycle: no stage skipped, repeated without spending a retry, or left for another
\* one than the next, and no exception to that but through a death.
LifecycleImplemented == Life!LifeSpec

-----------------------------------------------------------------------------
(* Under FairSpec.                                                         *)

Settled(e) == ep[e].status \in Terminal \cup {"deleted"}

\* Once an episode has a job, or sits in a mid-pipeline status without one, the worker
\* brings it to a terminal status, whatever fails and wherever the worker dies.
Settles == \A e \in Episode : (Active(e) \/ Stranded(e)) ~> Settled(e)

\* A failure that must be announced is announced in the end, or was recorded as lost, or
\* the episode is gone.
AlertsFlushed == \A e \in Episode : alert[e] = "due" ~> alert[e] # "due"

-----------------------------------------------------------------------------
(* What the repository says and its code does not keep.                    *)

\* tasks/cleanup.py: "say a SIGKILL between db.commit() and job_queue.enqueue -- this
\* sweep notices it": an episode whose transcribe committed "diarizing" and died before
\* the enqueue is re-enqueued, not failed.
SigkillIsSwept ==
    [][\A e \in Episode :
          /\ ep[e].status = "diarizing"
          /\ {j \in JobsOf(e) : jobs[j].task = "diarize"} = {}
          /\ worker.pc = "idle"
          => ep'[e].status # "failed"]_vars

\* worker.py: "Otherwise the episode is marked failed and the standard failure
\* notification fires".
TerminalFailureNotified ==
    \A e \in Episode :
        ep[e].status = "failed" /\ worker.pc = "idle" => alert[e] \in {"sent", "lost"}

\* docs/guide/08-queue.md: an episode that is not done or failed and has no active job is
\* stuck, and "the worker also sweeps for stranded episodes periodically and re-enqueues
\* them".
StuckIsSwept ==
    \A e \in Episode :
        Exists(e) /\ ep[e].status \notin Terminal /\ ~Active(e)
            ~> Active(e) \/ Settled(e)

\* tasks/helpers.py: "done" is one of the "statuses an episode can rest in permanently":
\* only a manual retry or a deletion takes an episode out of it.
DoneRests ==
    [][\A e \in Episode :
          ep[e].status = "done" /\ manual' = manual
              => ep'[e].status \in {"done", "deleted"}]_vars
=============================================================================
