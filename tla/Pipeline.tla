------------------------------ MODULE Pipeline ------------------------------
(***************************************************************************)
(* The episode pipeline: the single worker that claims jobs and runs the   *)
(* seven stage handlers, the API requests that create, retry and delete    *)
(* episodes beside it, and the worker's periodic sweeps.  A step of the    *)
(* model is what one database commit or one file operation makes visible,  *)
(* so a crash or an API request can fall between any two of them.          *)
(***************************************************************************)
EXTENDS JobQueue, FiniteSets

CONSTANTS
    RetryMax,       \* episodes.retry_max: automatic retries per episode
    ArchiveAudio,   \* settings.archive_audio
    Inference,      \* settings.inference_enabled
    Faults,         \* bound: the classes of exception handlers raise in this model
    Kinds,          \* bound: the ways episodes enter in this model
    Stragglers,     \* the mid-pipeline statuses a row may hold, with no job, at start
    MaxCrashes,     \* bound: deaths of the worker or of an API request
    MaxManual       \* bound: accepted manual retries

ASSUME RetryAssumption == RetryMax \in Nat
ASSUME SettingAssumption == ArchiveAudio \in BOOLEAN /\ Inference \in BOOLEAN
ASSUME FaultAssumption ==
    Faults \subseteq {"TRANSIENT_NETWORK", "HTTP_ACCESS", "OOM", "SYSTEM_ERROR"}
ASSUME KindAssumption == Kinds \subseteq {"feed", "url", "upload"}
ASSUME StragglerAssumption ==
    Stragglers \subseteq {"downloading", "transcribing", "diarizing", "chunking",
                          "embedding", "inferring", "archiving"}
ASSUME BoundAssumption == MaxCrashes \in Nat /\ MaxManual \in Nat

VARIABLES
    ep,             \* the episodes table
    rawFiles,       \* episodes with a file in /data/audio/raw
    arcFiles,       \* episodes with a file in /data/audio/archive
    worker,         \* the worker process: where it is in the job it holds
    api,            \* per episode, the second half of a request still to run
    alert,          \* per episode, the notification owed for its last failure
    wiped,          \* episodes whose files a delete request has removed
    crashes, manual \* deaths and accepted manual retries so far

files == <<rawFiles, arcFiles>>
budget == <<crashes, manual>>
vars == <<jobs, lastId, ep, files, worker, api, alert, wiped, budget>>

-----------------------------------------------------------------------------
\* episodes.status; "downloading:NN" is "downloading".  "absent" and "deleted" are no row.
Terminal == {"done", "failed", "no_speech"}
StatusOf == [download |-> "downloading", transcribe |-> "transcribing",
             diarize |-> "diarizing", chunk |-> "chunking", embed |-> "embedding",
             infer |-> "inferring", archive |-> "archiving"]
Mid == {StatusOf[t] : t \in Task}
Status == Mid \cup Terminal \cup {"absent", "pending", "deleted"}

ErrorClass == {"TRANSIENT_NETWORK", "HTTP_ACCESS", "DISK_FULL", "OOM", "SYSTEM_ERROR",
               "MANUAL_UPLOAD_FILE_MISSING", "NO_SPEECH"}
\* helpers.mark_failed: the classes announced whatever the retry count.
AlwaysAnnounced == {"DISK_FULL", "OOM", "SYSTEM_ERROR"}
\* api/queue.py: the classes a manual retry is refused for.
NonRetryable == {"DISK_FULL", "OOM", "MANUAL_UPLOAD_FILE_MISSING", "NO_SPEECH"}
RetryableStatuses == {"done", "failed", "pending"}
\* transcribe.py: the statuses its idempotency guard takes for "already transcribed".
AlreadyTranscribed == {"diarizing", "inferring", "archiving", "done"}

AudioPath == {"none", "raw", "archive"}
EpisodeRow == [status : Status, kind : {"none", "feed", "url", "upload"},
               retries : 0 .. RetryMax, err : ErrorClass \cup {"none"},
               audio : AudioPath, segs : BOOLEAN, diar : BOOLEAN]

\* A row nothing has gone wrong with yet.
Row(status, kind, audio, segs) ==
    [status |-> status, kind |-> kind, retries |-> 0, err |-> "none",
     audio |-> audio, segs |-> segs, diar |-> FALSE]
NoRow(status) == Row(status, "none", "none", FALSE)
NewRow(kind) == Row("pending", kind, IF kind = "upload" THEN "raw" ELSE "none", FALSE)
\* A row left mid-pipeline by a worker from before the in-loop retry existed.
StragglerRow(s) == Row(s, "feed", IF s = "downloading" THEN "none" ELSE "raw",
                       s \notin {"downloading", "transcribing"})

Exists(e) == ep[e].status \notin {"absent", "deleted"}

\* Where the worker is: "idle" between jobs; "begin", "work", "file", "handoff" and
\* "verify" inside a handler; "finish" when it returned; "raised", "requeue", "drop"
\* inside _handle_task_exception; "alert" inside mark_failed, after its commit.
InHandler == {"begin", "work", "file", "handoff", "verify"}
WorkerPC == InHandler \cup {"idle", "finish", "raised", "requeue", "drop", "alert"}
Worker == [pc : WorkerPC, job : JobId \cup {0}, ep : Episode \cup {NoEpisode},
           task : Task \cup {"none"}, class : ErrorClass \cup {"none"},
           then : {"idle", "finish", "drop"}, src : AudioPath, kept : BOOLEAN]
Idle == [pc |-> "idle", job |-> 0, ep |-> NoEpisode, task |-> "none", class |-> "none",
         then |-> "idle", src |-> "none", kept |-> FALSE]

Goto(pc) == worker' = [worker EXCEPT !.pc = pc]
Raise(class) == worker' = [worker EXCEPT !.pc = "raised", !.class = class]
At(task, pc) == worker.task = task /\ worker.pc = pc /\ Exists(worker.ep)

Here == ep[worker.ep]
\* The file audio_local_path names is on disk.
HasFile(e, path) == (path = "raw" /\ e \in rawFiles) \/ (path = "archive" /\ e \in arcFiles)

-----------------------------------------------------------------------------
(* Claiming a job, and the two ways a handler run ends without an exception. *)

Poll(j) ==
    /\ worker.pc = "idle"
    /\ Foremost(j)
    /\ SetJob(j, "picked")
    /\ worker' = [Idle EXCEPT !.pc = "begin", !.job = j, !.ep = jobs[j].ep,
                              !.task = jobs[j].task]
    /\ UNCHANGED <<lastId, ep, files, api, alert, wiped, budget>>

\* A variant the checks must reject: an inference with nothing to do returns early.
HandoffUnlessSkipped ==
    /\ worker.pc = "handoff" /\ Exists(worker.ep)
    /\ IF worker.task = "infer" /\ ~Here.diar
       THEN UNCHANGED <<jobs, lastId>> ELSE Enqueue(worker.ep, NextTask[worker.task], TRUE)
    /\ Goto("finish")
    /\ UNCHANGED <<ep, files, api, alert, wiped, budget>>

\* The last line of every handler but archive's: enqueue the next stage.
Handoff ==
    /\ worker.pc = "handoff"
    /\ Exists(worker.ep)
    /\ Enqueue(worker.ep, NextTask[worker.task], TRUE)
    /\ Goto("finish")
    /\ UNCHANGED <<ep, files, api, alert, wiped, budget>>

\* job_queue.complete
Complete ==
    /\ worker.pc = "finish"
    /\ Exists(worker.ep)
    /\ SetJob(worker.job, "done")
    /\ worker' = Idle
    /\ UNCHANGED <<lastId, ep, files, api, alert, wiped, budget>>

-----------------------------------------------------------------------------
(* mark_failed: commit the failure, then announce it if the class or the   *)
(* spent retry budget says so.                                             *)

MustAnnounce(e, class) == class \in AlwaysAnnounced \/ ep[e].retries >= RetryMax

MarkFailed(e, class, then) ==
    /\ ep' = [ep EXCEPT ![e].status = "failed", ![e].err = class]
    /\ alert' = [alert EXCEPT ![e] = IF MustAnnounce(e, class) THEN "due" ELSE "none"]
    /\ worker' = [worker EXCEPT !.pc = "alert", !.ep = e, !.class = class, !.then = then]

Announce ==
    /\ worker.pc = "alert"
    /\ Exists(worker.ep)
    /\ alert' = [alert EXCEPT ![worker.ep] =
                    IF MustAnnounce(worker.ep, worker.class) THEN "sent" ELSE "none"]
    /\ worker' = IF worker.then = "idle" THEN Idle
                 ELSE [worker EXCEPT !.pc = worker.then, !.class = "none", !.then = "idle"]
    /\ UNCHANGED <<jobs, lastId, ep, files, api, wiped, budget>>

-----------------------------------------------------------------------------
(* The handlers.  "begin" reads the row and commits the stage's status,    *)
(* "work" is the long computation and ends with the commit of its result.  *)

BeginDownload ==
    /\ At("download", "begin")
    /\ IF Here.kind = "upload"
       THEN MarkFailed(worker.ep, "MANUAL_UPLOAD_FILE_MISSING", "finish")
       ELSE /\ ep' = [ep EXCEPT ![worker.ep].status = "downloading"]
            /\ Goto("work")
            /\ UNCHANGED alert
    /\ UNCHANGED <<jobs, lastId, files, api, wiped, budget>>

\* The response arrives and the file is opened; the row is not looked at again until
\* the download has ended, so this happens to a deleted episode as well.
OpenFile ==
    /\ worker.task = "download" /\ worker.pc = "work"
    /\ rawFiles' = rawFiles \cup {worker.ep}
    /\ Goto("file")
    /\ UNCHANGED <<jobs, lastId, ep, arcFiles, api, alert, wiped, budget>>

\* Before the file is opened, or in the middle of writing it.
DownloadDiskFull ==
    /\ At("download", "work") \/ At("download", "file")
    /\ MarkFailed(worker.ep, "DISK_FULL", "finish")
    /\ UNCHANGED <<jobs, lastId, files, api, wiped, budget>>

SaveDownload ==
    /\ At("download", "file")
    /\ ep' = [ep EXCEPT ![worker.ep].audio = "raw"]
    /\ Goto("handoff")
    /\ UNCHANGED <<jobs, lastId, files, api, alert, wiped, budget>>

BeginTranscribe ==
    /\ At("transcribe", "begin")
    /\ \/ /\ Here.audio = "none"
          /\ Raise("SYSTEM_ERROR")
          /\ UNCHANGED ep
       \/ /\ Here.audio # "none"
          /\ Here.status \in AlreadyTranscribed
          /\ Goto("finish")
          /\ UNCHANGED ep
       \/ /\ Here.audio # "none"
          /\ Here.status \notin AlreadyTranscribed
          /\ ep' = [ep EXCEPT ![worker.ep].status = "transcribing"]
          /\ Goto("work")
    /\ UNCHANGED <<jobs, lastId, files, api, alert, wiped, budget>>

\* Replace the segments; or find no speech, which ends the episode.
Transcribe ==
    /\ At("transcribe", "work")
    /\ HasFile(worker.ep, Here.audio)
    /\ \/ /\ ep' = [ep EXCEPT ![worker.ep].status = "diarizing", ![worker.ep].segs = TRUE]
          /\ Goto("handoff")
       \/ /\ ep' = [ep EXCEPT ![worker.ep].status = "no_speech", ![worker.ep].segs = FALSE,
                              ![worker.ep].err = "NO_SPEECH"]
          /\ Goto("finish")
    /\ UNCHANGED <<jobs, lastId, files, api, alert, wiped, budget>>

BeginDiarize ==
    /\ At("diarize", "begin")
    /\ IF Here.audio = "none" THEN Raise("SYSTEM_ERROR") ELSE Goto("work")
    /\ UNCHANGED <<jobs, lastId, ep, files, api, alert, wiped, budget>>

\* pyannote's failure is recorded and the pipeline goes on without speakers.
Diarize ==
    /\ At("diarize", "work")
    /\ \E ok \in BOOLEAN :
          /\ ok => HasFile(worker.ep, Here.audio)
          /\ ep' = [ep EXCEPT ![worker.ep].diar = ok]
    /\ Goto("handoff")
    /\ UNCHANGED <<jobs, lastId, files, api, alert, wiped, budget>>

\* A variant the checks must reject: inference does not look at has_diarization.
BeginStageRegardless ==
    /\ worker.task \in {"chunk", "embed", "infer", "archive"}
    /\ At(worker.task, "begin")
    /\ ep' = [ep EXCEPT ![worker.ep].status = StatusOf[worker.task]]
    /\ worker' = [worker EXCEPT !.pc = "work", !.src = Here.audio]
    /\ UNCHANGED <<jobs, lastId, files, api, alert, wiped, budget>>

\* chunk, embed, infer and archive open with their status; infer may have nothing to do.
BeginStage ==
    /\ worker.task \in {"chunk", "embed", "infer", "archive"}
    /\ At(worker.task, "begin")
    /\ \/ /\ worker.task = "infer"
          /\ ~Inference \/ ~Here.diar
          /\ Goto("handoff")
          /\ UNCHANGED ep
       \/ /\ worker.task = "infer" => Inference /\ Here.diar
          /\ ep' = [ep EXCEPT ![worker.ep].status = StatusOf[worker.task]]
          /\ worker' = [worker EXCEPT !.pc = "work",
                          !.src = IF worker.task = "archive" THEN Here.audio ELSE "none"]
    /\ UNCHANGED <<jobs, lastId, files, api, alert, wiped, budget>>

\* chunk, embed and infer commit rows of their own tables; chunk and infer swallow
\* their failures, so the stage is handed on either way.
StageWork ==
    /\ \E t \in {"chunk", "embed", "infer"} : At(t, "work")
    /\ Goto("handoff")
    /\ UNCHANGED <<jobs, lastId, ep, files, api, alert, wiped, budget>>

-----------------------------------------------------------------------------
(* archive: compress, commit "done", read the row back, delete the raw file. *)

\* A variant the checks must reject: an archive file is not compressed again, nor kept.
CompressRawOnly ==
    /\ worker.task = "archive" /\ worker.pc = "work"
    /\ LET kept == ArchiveAudio /\ worker.src = "raw" /\ worker.ep \in rawFiles
       IN  /\ worker' = [worker EXCEPT !.pc = "file", !.kept = kept]
           /\ arcFiles' = IF kept THEN arcFiles \cup {worker.ep} ELSE arcFiles
    /\ UNCHANGED <<jobs, lastId, ep, rawFiles, api, alert, wiped, budget>>

\* ffmpeg does not look at the row, so it runs for a deleted episode as well.  An
\* archive re-run on its own output keeps it.
Compress ==
    /\ worker.task = "archive" /\ worker.pc = "work"
    /\ \/ /\ ArchiveAudio /\ HasFile(worker.ep, worker.src)
          /\ arcFiles' = arcFiles \cup {worker.ep}
          /\ worker' = [worker EXCEPT !.pc = "file", !.kept = TRUE]
       \/ /\ ~(ArchiveAudio /\ HasFile(worker.ep, worker.src))
          /\ worker' = [worker EXCEPT !.pc = "file", !.kept = FALSE]
          /\ UNCHANGED arcFiles
    /\ UNCHANGED <<jobs, lastId, ep, rawFiles, api, alert, wiped, budget>>

ArchiveDiskFull ==
    /\ At("archive", "work")
    /\ ArchiveAudio /\ HasFile(worker.ep, worker.src)
    /\ MarkFailed(worker.ep, "DISK_FULL", "finish")
    /\ UNCHANGED <<jobs, lastId, files, api, wiped, budget>>

CommitDone ==
    /\ At("archive", "file")
    /\ \/ /\ Here.segs
          /\ ep' = [ep EXCEPT ![worker.ep].status = "done",
                              ![worker.ep].audio = IF worker.kept THEN "archive" ELSE "none"]
          /\ Goto("verify")
       \/ /\ ~Here.segs
          /\ ep' = [ep EXCEPT ![worker.ep].status = "no_speech",
                              ![worker.ep].err = "NO_SPEECH"]
          /\ Goto("finish")
    /\ UNCHANGED <<jobs, lastId, files, api, alert, wiped, budget>>

\* A variant the checks must reject: the source is deleted even where it is the archive.
UnlinkAnySource ==
    /\ At("archive", "verify")
    /\ rawFiles' = IF worker.src = "raw" THEN rawFiles \ {worker.ep} ELSE rawFiles
    /\ arcFiles' = IF worker.src = "archive" THEN arcFiles \ {worker.ep} ELSE arcFiles
    /\ Goto("finish")
    /\ UNCHANGED <<jobs, lastId, ep, api, alert, wiped, budget>>

\* The read-back guards the deletion; the source stays when it is the archive file itself.
VerifyAndUnlink ==
    /\ At("archive", "verify")
    /\ IF Here.status = "done"
       THEN /\ rawFiles' = IF worker.src = "raw" THEN rawFiles \ {worker.ep} ELSE rawFiles
            /\ arcFiles' = IF worker.src = "archive" /\ ~worker.kept
                           THEN arcFiles \ {worker.ep} ELSE arcFiles
            /\ Goto("finish")
       ELSE Raise("SYSTEM_ERROR") /\ UNCHANGED files
    /\ UNCHANGED <<jobs, lastId, ep, api, alert, wiped, budget>>

-----------------------------------------------------------------------------
(* Exceptions out of a handler: worker._handle_task_exception.             *)

\* A handler may raise anywhere, a refused request only where one is made; transcription
\* without its audio file must raise.
HandlerRaises ==
    /\ worker.pc \in InHandler
    /\ Exists(worker.ep)
    /\ \/ \E class \in Faults :
             /\ class = "HTTP_ACCESS" => At("download", "work")
             /\ Raise(class)
       \/ /\ At("transcribe", "work")
          /\ ~HasFile(worker.ep, Here.audio)
          /\ Raise("SYSTEM_ERROR")
    /\ UNCHANGED <<jobs, lastId, ep, files, api, alert, wiped, budget>>

Transient(class) == class = "TRANSIENT_NETWORK"

\* Variants the checks must reject: one retry too many, and one too few.
RetriesPastBudget(class) == Transient(class) /\ Here.retries <= RetryMax
RetriesShortOfBudget(class) == Transient(class) /\ Here.retries + 1 < RetryMax

RetriesLeft(class) == Transient(class) /\ Here.retries < RetryMax

HandleException ==
    /\ worker.pc = "raised"
    /\ Exists(worker.ep)
    /\ \/ /\ Here.status = "failed"
          /\ worker' = [worker EXCEPT !.pc = "drop", !.class = "none"]
          /\ UNCHANGED <<ep, alert>>
       \/ /\ Here.status # "failed"
          /\ RetriesLeft(worker.class)
          /\ ep' = [ep EXCEPT ![worker.ep].status = "pending",
                              ![worker.ep].retries = @ + 1,
                              ![worker.ep].err = worker.class]
          /\ worker' = [worker EXCEPT !.pc = "requeue", !.class = "none"]
          /\ UNCHANGED alert
       \/ /\ Here.status # "failed"
          /\ ~RetriesLeft(worker.class)
          /\ MarkFailed(worker.ep, worker.class, "drop")
    /\ UNCHANGED <<jobs, lastId, files, api, wiped, budget>>

\* A variant the checks must reject: a retry starts the episode over.
RequeueFromScratch ==
    /\ worker.pc = "requeue" /\ Exists(worker.ep)
    /\ Enqueue(worker.ep, "download", FALSE)
    /\ Goto("drop")
    /\ UNCHANGED <<ep, files, api, alert, wiped, budget>>

\* The same task again, after its backoff.
Requeue ==
    /\ worker.pc = "requeue"
    /\ Exists(worker.ep)
    /\ Enqueue(worker.ep, worker.task, FALSE)
    /\ Goto("drop")
    /\ UNCHANGED <<ep, files, api, alert, wiped, budget>>

\* A variant the checks must reject: the row of a failed attempt is left as it is.
FailJobForgotten ==
    /\ worker.pc = "drop" /\ Exists(worker.ep)
    /\ worker' = Idle
    /\ UNCHANGED <<jobs, lastId, ep, files, api, alert, wiped, budget>>

\* job_queue.fail
FailJob ==
    /\ worker.pc = "drop"
    /\ Exists(worker.ep)
    /\ SetJob(worker.job, "failed")
    /\ worker' = Idle
    /\ UNCHANGED <<lastId, ep, files, api, alert, wiped, budget>>

\* The row went away under the worker: every write raises, and there is nothing to record.
EpisodeVanished ==
    /\ worker.pc # "idle"
    /\ ~Exists(worker.ep)
    /\ worker' = Idle
    /\ UNCHANGED <<jobs, lastId, ep, files, api, alert, wiped, budget>>

\* SIGKILL, OOM kill, container restart, or an error that escapes to the worker loop:
\* the claim stays "picked".  Dying inside the zombie sweep loses its announcement.
Crash ==
    /\ worker.pc # "idle"
    /\ crashes < MaxCrashes
    /\ crashes' = crashes + 1
    /\ worker' = Idle
    /\ alert' = IF worker.pc = "alert" /\ worker.then = "idle" /\ alert[worker.ep] = "due"
                THEN [alert EXCEPT ![worker.ep] = "lost"] ELSE alert
    /\ UNCHANGED <<jobs, lastId, ep, files, api, wiped, manual>>

-----------------------------------------------------------------------------
(* The worker's periodic sweeps, run between jobs.                         *)

\* Variants the checks must reject: a sweep that writes the rows without mark_failed,
\* one that spares episodes which are no longer running, and one that re-queues.
ReapQuietly(j) ==
    /\ worker.pc = "idle" /\ jobs[j].status = "picked"
    /\ SetJob(j, "failed")
    /\ ep' = [ep EXCEPT ![jobs[j].ep].status = "failed", ![jobs[j].ep].err = "SYSTEM_ERROR"]
    /\ alert' = [alert EXCEPT ![jobs[j].ep] = "due"]
    /\ UNCHANGED <<lastId, files, worker, api, wiped, budget>>
ReapRunningOnly(j) ==
    /\ worker.pc = "idle" /\ jobs[j].status = "picked"
    /\ ep[jobs[j].ep].status \in Mid
    /\ SetJob(j, "failed")
    /\ MarkFailed(jobs[j].ep, "SYSTEM_ERROR", "idle")
    /\ UNCHANGED <<lastId, files, api, wiped, budget>>
ReapRequeues(j) ==
    /\ worker.pc = "idle" /\ jobs[j].status = "picked"
    /\ SetJob(j, "pending")
    /\ UNCHANGED <<lastId, ep, files, worker, api, alert, wiped, budget>>

\* cleanup_zombie_jobs on one row: any claim still open between jobs may have outlived
\* its timeout.  One commit fails both rows, then the failure is announced.
ReapZombie(j) ==
    /\ worker.pc = "idle"
    /\ jobs[j].status = "picked"
    /\ SetJob(j, "failed")
    /\ MarkFailed(jobs[j].ep, "SYSTEM_ERROR", "idle")
    /\ UNCHANGED <<lastId, files, api, wiped, budget>>

Stranded(e) == ep[e].status \in Mid /\ ~Active(e)

\* A variant the checks must reject: the status is reset and no job added.
SweepWithoutJob(e) ==
    /\ worker.pc = "idle" /\ Stranded(e)
    /\ ep' = [ep EXCEPT ![e].status = "pending"]
    /\ UNCHANGED <<jobs, lastId, files, worker, api, alert, wiped, budget>>

\* recover_stranded_episodes on one row; the status and the job are one commit.
Sweep(e) ==
    /\ worker.pc = "idle"
    /\ Stranded(e)
    /\ \E t \in Task :
          /\ StatusOf[t] = ep[e].status
          /\ Enqueue(e, t, TRUE)
    /\ ep' = [ep EXCEPT ![e].status = "pending"]
    /\ UNCHANGED <<files, worker, api, alert, wiped, budget>>

\* A failed row of a done episode was picked before processed_at: a later failure
\* would have taken the episode out of "done".
Superseded(f) ==
    /\ jobs[f].status = "failed"
    /\ (\E d \in JobId : SupersededBy(d, f)) \/ ep[jobs[f].ep].status = "done"

Prune ==
    /\ worker.pc = "idle"
    /\ \E f \in JobId : Superseded(f)
    /\ jobs' = [j \in JobId |-> IF Superseded(j) THEN NoJob ELSE jobs[j]]
    /\ UNCHANGED <<lastId, ep, files, worker, api, alert, wiped, budget>>

-----------------------------------------------------------------------------
(* API requests and feed polls, concurrent with the worker.  Bound: one    *)
(* request in flight per episode.                                          *)

\* ingest_feed commits the row and its first job together.
IngestFeed(e) ==
    /\ ep[e].status = "absent" /\ "feed" \in Kinds
    /\ ep' = [ep EXCEPT ![e] = NewRow("feed")]
    /\ Enqueue(e, "download", TRUE)
    /\ UNCHANGED <<files, worker, api, alert, wiped, budget>>

\* ingest_manual and upload_audio commit the row first; an upload has saved its file.
IngestByHand(e, kind) ==
    /\ ep[e].status = "absent" /\ kind \in Kinds
    /\ ep' = [ep EXCEPT ![e] = NewRow(kind)]
    /\ rawFiles' = IF kind = "upload" THEN rawFiles \cup {e} ELSE rawFiles
    /\ api' = [api EXCEPT ![e] = "enqueue"]
    /\ UNCHANGED <<jobs, lastId, arcFiles, worker, alert, wiped, budget>>

RetryAccepted(e) ==
    /\ Exists(e)
    /\ ep[e].err \notin NonRetryable
    /\ ep[e].status \in RetryableStatuses \/ ~Active(e)

RetryJob(e) ==
    /\ api[e] = "none" /\ manual < MaxManual
    /\ RetryAccepted(e)
    /\ ep' = [ep EXCEPT ![e].status = "pending", ![e].err = "none", ![e].retries = 0,
                        ![e].diar = FALSE]
    /\ api' = [api EXCEPT ![e] = "enqueue"]
    /\ manual' = manual + 1
    /\ UNCHANGED <<jobs, lastId, files, worker, alert, wiped, crashes>>

IsManualUpload(e) == ep[e].kind = "upload" /\ HasFile(e, ep[e].audio)

\* enqueue_episode_ingest: an upload with its file starts at transcribe.
EnqueueIngest(e) ==
    /\ api[e] = "enqueue"
    /\ Exists(e)
    /\ Enqueue(e, IF IsManualUpload(e) THEN "transcribe" ELSE "download", TRUE)
    /\ api' = [api EXCEPT ![e] = "none"]
    /\ UNCHANGED <<ep, files, worker, alert, wiped, budget>>

\* delete_episode removes the files, then the row; the row's jobs go by cascade.
DeleteFiles(e) ==
    /\ api[e] = "none"
    /\ Exists(e) /\ ep[e].kind \in {"url", "upload"}
    /\ rawFiles' = rawFiles \ {e} /\ arcFiles' = arcFiles \ {e}
    /\ wiped' = wiped \cup {e}
    /\ api' = [api EXCEPT ![e] = "delete"]
    /\ UNCHANGED <<jobs, lastId, ep, worker, alert, budget>>

DeleteRow(e) ==
    /\ api[e] = "delete"
    /\ ep' = [ep EXCEPT ![e] = NoRow("deleted")]
    /\ jobs' = [j \in JobId |-> IF jobs[j].ep = e THEN NoJob ELSE jobs[j]]
    /\ alert' = [alert EXCEPT ![e] = "none"]
    /\ api' = [api EXCEPT ![e] = "none"]
    /\ UNCHANGED <<lastId, files, worker, wiped, budget>>

\* The API process dies, or the database refuses the second commit.
RequestDies(e) ==
    /\ api[e] # "none" /\ crashes < MaxCrashes
    /\ crashes' = crashes + 1
    /\ api' = [api EXCEPT ![e] = "none"]
    /\ UNCHANGED <<jobs, lastId, ep, files, worker, alert, wiped, manual>>

RetryDue(j) ==
    /\ BackoffElapses(j)
    /\ UNCHANGED <<lastId, ep, files, worker, api, alert, wiped, budget>>

-----------------------------------------------------------------------------
Init ==
    /\ QueueInit
    /\ ep \in [Episode -> {NoRow("absent")} \cup {StragglerRow(s) : s \in Stragglers}]
    /\ rawFiles = {e \in Episode : ep[e].audio = "raw"}
    /\ arcFiles = {}
    /\ worker = Idle
    /\ api = [e \in Episode |-> "none"]
    /\ alert = [e \in Episode |-> "none"]
    /\ wiped = {}
    /\ crashes = 0 /\ manual = 0

Handle ==
    \/ BeginDownload \/ OpenFile \/ DownloadDiskFull \/ SaveDownload
    \/ BeginTranscribe \/ Transcribe
    \/ BeginDiarize \/ Diarize
    \/ BeginStage \/ StageWork
    \/ Compress \/ ArchiveDiskFull \/ CommitDone \/ VerifyAndUnlink
    \/ Handoff \/ Complete \/ Announce
    \/ HandlerRaises \/ HandleException \/ Requeue \/ FailJob \/ EpisodeVanished

Sweeps == Prune \/ (\E j \in JobId : ReapZombie(j)) \/ (\E e \in Episode : Sweep(e))

Requests(e) ==
    \/ IngestFeed(e)
    \/ \E kind \in {"url", "upload"} : IngestByHand(e, kind)
    \/ RetryJob(e) \/ EnqueueIngest(e)
    \/ DeleteFiles(e) \/ DeleteRow(e)
    \/ RequestDies(e)

Next ==
    \/ \E j \in JobId : Poll(j) \/ RetryDue(j)
    \/ Handle
    \/ Crash
    \/ Sweeps
    \/ \E e \in Episode : Requests(e)

Spec == Init /\ [][Next]_vars

\* The worker loop keeps running (it is restarted after a crash, and MaxCrashes bounds
\* those), its sweeps come round, backoffs elapse and API requests are not suspended
\* for ever.  Nothing obliges a user to add, retry or delete an episode.
Fairness ==
    /\ WF_vars(Handle \/ \E j \in JobId : Poll(j))
    /\ \A j \in JobId : WF_vars(RetryDue(j)) /\ WF_vars(ReapZombie(j))
    /\ \A e \in Episode : WF_vars(Sweep(e)) /\ WF_vars(EnqueueIngest(e) \/ DeleteRow(e))

FairSpec == Spec /\ Fairness
=============================================================================
