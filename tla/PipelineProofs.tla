--------------------------- MODULE PipelineProofs ---------------------------
(***************************************************************************)
(* Safety of the episode pipeline, proved for every number of episodes,    *)
(* jobs, retries, crashes and manual retries.                              *)
(***************************************************************************)
EXTENDS PipelineProperties, TLAPS

Holding == worker.pc # "idle" /\ ~Sweeping

\* Ids beyond the sequence are free, and a job's episode exists.
JobsOwned ==
    \A j \in JobId :
        /\ j > lastId => jobs[j] = NoJob
        /\ jobs[j].ep \in Episode => Exists(jobs[j].ep)

\* What the worker knows of the job it holds: the row is its claim for as long as the
\* episode exists, and no stage follows archive.
ClaimHeld ==
    /\ worker.pc = "alert" => worker.ep \in Episode
    /\ worker.pc # "alert" => worker.then = "idle"
    /\ worker.pc = "handoff" => worker.task # "archive"
    /\ Holding =>
          /\ worker.job \in JobId /\ worker.ep \in Episode /\ worker.task \in Task
          /\ ep[worker.ep].status # "absent"
          /\ Exists(worker.ep) => /\ jobs[worker.job].ep = worker.ep
                                  /\ jobs[worker.job].status = "picked"

Inv == TypeOK /\ JobsOwned /\ ClaimHeld

USE DEF JobId, Holding, Sweeping

LEMMA NoJobTyped == NoJob.ep \notin Episode /\ NoJob.status \notin {"pending", "picked"}
BY EpisodeAssumption DEF NoJob

LEMMA MidStatus ==
    /\ Mid = {"downloading", "transcribing", "diarizing", "chunking", "embedding",
               "inferring", "archiving"}
    /\ \A t \in Task : StatusOf[t] \in Mid
<1>1. Mid = {StatusOf["download"], StatusOf["transcribe"], StatusOf["diarize"],
             StatusOf["chunk"], StatusOf["embed"], StatusOf["infer"], StatusOf["archive"]}
  BY DEF Mid, Task
<1>2. QED
  BY <1>1 DEF StatusOf, Mid

LEMMA FreshRow ==
    ASSUME NEW s \in Status, NEW k \in {"none", "feed", "url", "upload"},
           NEW a \in AudioPath, NEW b \in BOOLEAN
    PROVE  Row(s, k, a, b) \in EpisodeRow
BY RetryAssumption DEF Row, EpisodeRow

LEMMA RowsTyped ==
    /\ \A s \in Status : NoRow(s) \in EpisodeRow
    /\ \A k \in {"feed", "url", "upload"} : NewRow(k) \in EpisodeRow
    /\ \A s \in Stragglers : StragglerRow(s) \in EpisodeRow
<1>1. \A s \in Status : NoRow(s) \in EpisodeRow
  BY FreshRow DEF NoRow, AudioPath
<1>2. \A k \in {"feed", "url", "upload"} : NewRow(k) \in EpisodeRow
  BY FreshRow DEF NewRow, AudioPath, Status
<1>3. \A s \in Stragglers : StragglerRow(s) \in EpisodeRow
  BY FreshRow, StragglerAssumption, MidStatus DEF StragglerRow, AudioPath, Status
<1>4. QED
  BY <1>1, <1>2, <1>3

LEMMA IdleTyped == Idle \in Worker
BY DEF Idle, Worker, WorkerPC, InHandler, AudioPath

LEMMA InitInv == Init => Inv
<1> SUFFICES ASSUME Init PROVE Inv
  OBVIOUS
<1>1. jobs \in [JobId -> JobRow \cup {NoJob}] /\ lastId \in 0 .. MaxJobs
  BY MaxJobsAssumption DEF Init, QueueInit
<1>2. ep \in [Episode -> EpisodeRow]
  <2>1. NoRow("absent") \in EpisodeRow
    BY RowsTyped DEF Status
  <2>2. QED
    BY <2>1, RowsTyped DEF Init
<1>3. worker = Idle /\ worker \in Worker
  BY IdleTyped DEF Init
<1>4. crashes \in 0 .. MaxCrashes /\ manual \in 0 .. MaxManual
  BY BoundAssumption DEF Init
<1>5. TypeOK
  BY <1>1, <1>2, <1>3, <1>4 DEF Init, TypeOK
<1>6. ClaimHeld
  BY <1>3 DEF ClaimHeld, Idle
<1>7. JobsOwned
  BY NoJobTyped DEF JobsOwned, Init, QueueInit
<1>8. QED
  BY <1>5, <1>6, <1>7 DEF Inv

LEMMA TypeEnqueue ==
    ASSUME jobs \in [JobId -> JobRow \cup {NoJob}], lastId \in 0 .. MaxJobs,
           NEW e \in Episode, NEW t \in Task, NEW d \in BOOLEAN, Enqueue(e, t, d)
    PROVE  /\ jobs' \in [JobId -> JobRow \cup {NoJob}]
           /\ lastId' \in 0 .. MaxJobs
           /\ \A j \in JobId : j # lastId' => jobs'[j] = jobs[j]
           /\ lastId' \in JobId
           /\ jobs'[lastId'] = [ep |-> e, task |-> t, status |-> "pending", due |-> d]
BY MaxJobsAssumption DEF Enqueue, JobRow

-----------------------------------------------------------------------------
(* Type correctness, one variable at a time.                               *)

EpType == ep \in [Episode -> EpisodeRow]

\* The updates of an episode row that the actions are made of.
LEMMA SetStatus ==
    ASSUME EpType, NEW e \in Episode, NEW s \in Status
    PROVE  [ep EXCEPT ![e].status = s] \in [Episode -> EpisodeRow]
BY DEF EpType, EpisodeRow

LEMMA SetError ==
    ASSUME EpType, NEW e \in Episode, NEW s \in Status, NEW c \in ErrorClass \cup {"none"}
    PROVE  [ep EXCEPT ![e].status = s, ![e].err = c] \in [Episode -> EpisodeRow]
BY DEF EpType, EpisodeRow

LEMMA SetAudio ==
    ASSUME EpType, NEW e \in Episode, NEW a \in AudioPath
    PROVE  [ep EXCEPT ![e].audio = a] \in [Episode -> EpisodeRow]
BY DEF EpType, EpisodeRow

LEMMA SetDone ==
    ASSUME EpType, NEW e \in Episode, NEW s \in Status, NEW a \in AudioPath
    PROVE  [ep EXCEPT ![e].status = s, ![e].audio = a] \in [Episode -> EpisodeRow]
BY DEF EpType, EpisodeRow

LEMMA SetDiar ==
    ASSUME EpType, NEW e \in Episode, NEW b \in BOOLEAN
    PROVE  [ep EXCEPT ![e].diar = b] \in [Episode -> EpisodeRow]
BY DEF EpType, EpisodeRow

LEMMA ResetRow ==
    ASSUME NEW r \in EpisodeRow, "pending" \in Status
    PROVE  [r EXCEPT !.status = "pending", !.err = "none", !.retries = 0, !.diar = FALSE]
               \in EpisodeRow
<1>1. 0 \in 0 .. RetryMax
  BY RetryAssumption
<1>2. QED
  BY <1>1 DEF EpisodeRow

LEMMA StatusTyped ==
    /\ {"absent", "pending", "deleted", "done", "failed", "no_speech"} \subseteq Status
    /\ {"downloading", "transcribing", "diarizing"} \subseteq Status
    /\ \A t \in Task : StatusOf[t] \in Status
BY MidStatus DEF Status, Terminal

LEMMA MarkFailedEp ==
    ASSUME EpType, NEW e \in Episode, NEW c \in ErrorClass \cup {"none"}, NEW t, MarkFailed(e, c, t)
    PROVE  EpType'
<1>1. ep' = [ep EXCEPT ![e].status = "failed", ![e].err = c]
  BY DEF MarkFailed
<1>2. QED
  BY <1>1, SetError, StatusTyped DEF EpType

\* What the type invariant says of the worker.
LEMMA WorkerFields ==
    ASSUME Inv
    PROVE  /\ worker.pc \in WorkerPC
           /\ worker.src \in AudioPath
           /\ worker.kept \in BOOLEAN
           /\ worker.class \in ErrorClass \cup {"none"}
           /\ worker.pc \in InHandler \cup {"finish", "raised", "requeue", "drop"} =>
                 worker.job \in JobId /\ worker.ep \in Episode /\ worker.task \in Task
<1>1. worker \in Worker
  BY DEF Inv, TypeOK
<1>2. worker.pc \in InHandler \cup {"finish", "raised", "requeue", "drop"} => Holding
  BY DEF InHandler
<1>3. QED
  BY <1>1, <1>2 DEF Worker, Inv, ClaimHeld

LEMMA EpStep == ASSUME Inv, [Next]_vars PROVE EpType'
<1> EpType
  BY DEF Inv, TypeOK, EpType
<1>1. CASE BeginDownload
  <2>1. worker.ep \in Episode
    BY <1>1, WorkerFields DEF BeginDownload, At, InHandler
  <2>2. CASE MarkFailed(worker.ep, "MANUAL_UPLOAD_FILE_MISSING", "finish")
    BY <2>1, <2>2, MarkFailedEp DEF ErrorClass
  <2>3. CASE ep' = [ep EXCEPT ![worker.ep].status = "downloading"]
    BY <2>1, <2>3, SetStatus, StatusTyped DEF EpType
  <2>4. QED
    BY <1>1, <2>2, <2>3 DEF BeginDownload
<1>2. CASE DownloadDiskFull
  BY <1>2, WorkerFields, MarkFailedEp DEF DownloadDiskFull, At, InHandler, ErrorClass
<1>3. CASE SaveDownload
  BY <1>3, WorkerFields, SetAudio DEF SaveDownload, At, InHandler, AudioPath, EpType
<1>4. CASE BeginTranscribe
  <2>1. worker.ep \in Episode
    BY <1>4, WorkerFields DEF BeginTranscribe, At, InHandler
  <2>2. UNCHANGED ep \/ ep' = [ep EXCEPT ![worker.ep].status = "transcribing"]
    BY <1>4 DEF BeginTranscribe
  <2>3. CASE UNCHANGED ep
    BY <2>3 DEF EpType
  <2>4. CASE ep' = [ep EXCEPT ![worker.ep].status = "transcribing"]
    BY <2>1, <2>4, SetStatus, StatusTyped DEF EpType
  <2>5. QED
    BY <2>2, <2>3, <2>4
<1>5. CASE Transcribe
  BY <1>5, WorkerFields, StatusTyped
     DEF Transcribe, At, InHandler, EpType, EpisodeRow, ErrorClass
<1>6. CASE Diarize
  <2>1. worker.ep \in Episode
    BY <1>6, WorkerFields DEF Diarize, At, InHandler
  <2>2. PICK ok \in BOOLEAN : ep' = [ep EXCEPT ![worker.ep].diar = ok]
    BY <1>6 DEF Diarize
  <2>3. QED
    BY <2>1, <2>2, SetDiar DEF EpType
<1>7. CASE BeginStage
  <2>1. worker.ep \in Episode /\ worker.task \in Task
    BY <1>7, WorkerFields DEF BeginStage, At, InHandler
  <2>2. UNCHANGED ep \/ ep' = [ep EXCEPT ![worker.ep].status = StatusOf[worker.task]]
    BY <1>7 DEF BeginStage
  <2>3. CASE UNCHANGED ep
    BY <2>3 DEF EpType
  <2>4. CASE ep' = [ep EXCEPT ![worker.ep].status = StatusOf[worker.task]]
    BY <2>1, <2>4, SetStatus, StatusTyped DEF EpType
  <2>5. QED
    BY <2>2, <2>3, <2>4
<1>8. CASE ArchiveDiskFull
  BY <1>8, WorkerFields, MarkFailedEp DEF ArchiveDiskFull, At, InHandler, ErrorClass
<1>9. CASE CommitDone
  <2> DEFINE a == IF worker.kept THEN "archive" ELSE "none"
  <2>1. worker.ep \in Episode /\ a \in AudioPath
    BY <1>9, WorkerFields DEF CommitDone, At, InHandler, AudioPath
  <2> HIDE DEF a
  <2>2. CASE ep' = [ep EXCEPT ![worker.ep].status = "done", ![worker.ep].audio = a]
    BY <2>1, <2>2, SetDone, StatusTyped DEF EpType
  <2>3. CASE ep' = [ep EXCEPT ![worker.ep].status = "no_speech",
                              ![worker.ep].err = "NO_SPEECH"]
    BY <2>1, <2>3, SetError, StatusTyped DEF EpType, ErrorClass
  <2>4. QED
    BY <1>9, <2>2, <2>3 DEF CommitDone, a
<1>10. CASE HandleException
  <2>1. worker.ep \in Episode
    BY <1>10, WorkerFields DEF HandleException
  <2>2. CASE UNCHANGED ep
    BY <2>2 DEF EpType
  <2>3. CASE MarkFailed(worker.ep, worker.class, "drop")
    BY <2>1, <2>3, MarkFailedEp, WorkerFields DEF ErrorClass
  <2>4. CASE /\ RetriesLeft(worker.class)
             /\ ep' = [ep EXCEPT ![worker.ep].status = "pending",
                                 ![worker.ep].retries = @ + 1,
                                 ![worker.ep].err = worker.class]
    BY <2>1, <2>4, StatusTyped, WorkerFields, RetryAssumption
       DEF EpType, EpisodeRow, RetriesLeft, Here
  <2>5. QED
    BY <1>10, <2>2, <2>3, <2>4 DEF HandleException
<1>11. ASSUME NEW j \in JobId, ReapZombie(j) PROVE EpType'
  <2>1. jobs[j].ep \in Episode
    BY <1>11, NoJobTyped DEF ReapZombie, Inv, TypeOK, JobRow
  <2>2. QED
    BY <1>11, <2>1, MarkFailedEp DEF ReapZombie, ErrorClass
<1>12. ASSUME NEW e \in Episode, Sweep(e) PROVE EpType'
  BY <1>12, SetStatus, StatusTyped DEF Sweep, EpType
<1>13. ASSUME NEW e \in Episode, IngestFeed(e) PROVE EpType'
  BY <1>13, RowsTyped DEF IngestFeed, EpType
<1>14. ASSUME NEW e \in Episode, NEW k \in {"url", "upload"}, IngestByHand(e, k) PROVE EpType'
  BY <1>14, RowsTyped DEF IngestByHand, EpType
<1>15. ASSUME NEW e \in Episode, RetryJob(e) PROVE EpType'
  <2> DEFINE r == [ep[e] EXCEPT !.status = "pending", !.err = "none", !.retries = 0,
                                !.diar = FALSE]
  <2>1. ep' = [ep EXCEPT ![e] = r]
    BY <1>15 DEF RetryJob
  <2>2. ep[e] \in EpisodeRow
    BY DEF EpType
  <2>3. r \in EpisodeRow
    BY <2>2, StatusTyped, ResetRow
  <2> HIDE DEF r
  <2>4. QED
    BY <2>1, <2>3 DEF EpType
<1>16. ASSUME NEW e \in Episode, DeleteRow(e) PROVE EpType'
  BY <1>16, RowsTyped, StatusTyped DEF DeleteRow, EpType
<1>17. CASE UNCHANGED ep
  BY <1>17 DEF EpType
<1>18. QED
  BY <1>1, <1>2, <1>3, <1>4, <1>5, <1>6, <1>7, <1>8, <1>9, <1>10, <1>11, <1>12, <1>13,
     <1>14, <1>15, <1>16, <1>17
     DEF vars, Next, Handle, Sweeps, Requests, Poll, RetryDue, OpenFile, BeginDiarize,
         StageWork, Compress, VerifyAndUnlink, Handoff, Complete, Announce, HandlerRaises,
         Requeue, FailJob, EpisodeVanished, Crash, Prune, EnqueueIngest, DeleteFiles,
         RequestDies

\* The updates of the worker that the actions are made of.
LEMMA SetPC ==
    ASSUME worker \in Worker, NEW pc \in WorkerPC
    PROVE  [worker EXCEPT !.pc = pc] \in Worker
BY DEF Worker

LEMMA SetClass ==
    ASSUME worker \in Worker, NEW pc \in WorkerPC, NEW c \in ErrorClass \cup {"none"}
    PROVE  [worker EXCEPT !.pc = pc, !.class = c] \in Worker
BY DEF Worker

LEMMA SetAlert ==
    ASSUME worker \in Worker, NEW pc \in WorkerPC, NEW e \in Episode,
           NEW c \in ErrorClass \cup {"none"}, NEW t \in {"idle", "finish", "drop"}
    PROVE  [worker EXCEPT !.pc = pc, !.ep = e, !.class = c, !.then = t] \in Worker
BY DEF Worker

LEMMA SetSource ==
    ASSUME worker \in Worker, NEW pc \in WorkerPC, NEW a \in AudioPath
    PROVE  [worker EXCEPT !.pc = pc, !.src = a] \in Worker
BY DEF Worker

LEMMA SetKept ==
    ASSUME worker \in Worker, NEW pc \in WorkerPC, NEW b \in BOOLEAN
    PROVE  [worker EXCEPT !.pc = pc, !.kept = b] \in Worker
BY DEF Worker

LEMMA PCs ==
    WorkerPC = {"begin", "work", "file", "handoff", "verify", "idle", "finish", "raised",
                "requeue", "drop", "alert"}
BY DEF WorkerPC, InHandler

LEMMA MarkFailedWorker ==
    ASSUME worker \in Worker, NEW e \in Episode, NEW c \in ErrorClass \cup {"none"},
           NEW t \in {"idle", "finish", "drop"}, MarkFailed(e, c, t)
    PROVE  worker' \in Worker
BY SetAlert, PCs DEF MarkFailed

LEMMA PickedRow ==
    ASSUME Inv, NEW j \in JobId, jobs[j].status \in {"pending", "picked"}
    PROVE  jobs[j] \in JobRow /\ jobs[j].ep \in Episode /\ jobs[j].task \in Task
BY NoJobTyped DEF Inv, TypeOK, JobRow

LEMMA WorkerStep == ASSUME Inv, [Next]_vars PROVE worker' \in Worker
<1> worker \in Worker
  BY DEF Inv, TypeOK
<1>1. ASSUME NEW j \in JobId, Poll(j) PROVE worker' \in Worker
  <2>1. jobs[j].ep \in Episode /\ jobs[j].task \in Task
    BY <1>1, PickedRow DEF Poll, Foremost, Ready
  <2>2. worker' = [Idle EXCEPT !.pc = "begin", !.job = j, !.ep = jobs[j].ep,
                               !.task = jobs[j].task]
    BY <1>1 DEF Poll
  <2>3. QED
    BY <2>1, <2>2, IdleTyped, PCs DEF Worker
<1>2. CASE \E pc \in WorkerPC : Goto(pc)
  BY <1>2, SetPC DEF Goto
<1>3. CASE \E pc \in WorkerPC, c \in ErrorClass \cup {"none"} :
               worker' = [worker EXCEPT !.pc = pc, !.class = c]
  BY <1>3, SetClass
<1>4. CASE worker' = Idle
  BY <1>4, IdleTyped
<1>5. CASE UNCHANGED worker
  BY <1>5
<1>6. CASE BeginDownload
  BY <1>6, <1>2, MarkFailedWorker, WorkerFields, PCs
     DEF BeginDownload, At, InHandler, ErrorClass
<1>7. CASE DownloadDiskFull
  BY <1>7, WorkerFields, MarkFailedWorker DEF DownloadDiskFull, At, InHandler, ErrorClass
<1>8. CASE BeginTranscribe
  BY <1>8, <1>2, <1>3, PCs DEF BeginTranscribe, Raise, ErrorClass
<1>9. CASE Transcribe
  BY <1>9, <1>2, PCs DEF Transcribe
<1>10. CASE BeginDiarize
  BY <1>10, <1>2, <1>3, PCs DEF BeginDiarize, Raise, ErrorClass
<1>11. CASE BeginStage
  <2>1. CASE Goto("handoff")
    BY <2>1, <1>2, PCs
  <2>2. CASE worker' = [worker EXCEPT !.pc = "work",
                          !.src = IF worker.task = "archive" THEN Here.audio ELSE "none"]
    <3>1. ep[worker.ep] \in EpisodeRow
      BY <1>11, WorkerFields DEF BeginStage, At, InHandler, Inv, TypeOK
    <3>2. (IF worker.task = "archive" THEN Here.audio ELSE "none") \in AudioPath
      BY <3>1 DEF Here, EpisodeRow, AudioPath
    <3>3. QED
      BY <2>2, <3>2, SetSource, PCs
  <2>3. QED
    BY <1>11, <2>1, <2>2 DEF BeginStage
<1>12. CASE Compress
  BY <1>12, SetKept, PCs DEF Compress
<1>13. CASE ArchiveDiskFull
  BY <1>13, WorkerFields, MarkFailedWorker DEF ArchiveDiskFull, At, InHandler, ErrorClass
<1>14. CASE CommitDone
  BY <1>14, <1>2, PCs DEF CommitDone
<1>15. CASE VerifyAndUnlink
  BY <1>15, <1>2, <1>3, PCs DEF VerifyAndUnlink, Raise, ErrorClass
<1>16. CASE Announce
  <2>1. worker.then \in {"idle", "finish", "drop"} /\ worker.ep \in Episode
    BY <1>16 DEF Announce, Worker, Inv, ClaimHeld
  <2>2. CASE worker.then # "idle"
    BY <1>16, <2>1, <2>2, PCs DEF Announce, Worker
  <2>3. QED
    BY <1>16, <1>4, <2>2 DEF Announce
<1>17. CASE HandlerRaises
  BY <1>17, <1>3, FaultAssumption, PCs DEF HandlerRaises, Raise, ErrorClass
<1>18. CASE HandleException
  <2>1. CASE MarkFailed(worker.ep, worker.class, "drop")
    BY <1>18, <2>1, WorkerFields, MarkFailedWorker DEF HandleException
  <2>2. QED
    BY <1>18, <1>3, <2>1, PCs DEF HandleException
<1>19. ASSUME NEW j \in JobId, ReapZombie(j) PROVE worker' \in Worker
  BY <1>19, PickedRow, MarkFailedWorker DEF ReapZombie, ErrorClass
<1>20. QED
  BY <1>1, <1>2, <1>4, <1>5, <1>6, <1>7, <1>8, <1>9, <1>10, <1>11, <1>12, <1>13, <1>14,
     <1>15, <1>16, <1>17, <1>18, <1>19, PCs
     DEF vars, Next, Handle, Sweeps, Requests, RetryDue, OpenFile, SaveDownload, Diarize,
         StageWork, Handoff, Complete, Requeue, FailJob, EpisodeVanished, Crash, Sweep,
         Prune, IngestFeed, IngestByHand, RetryJob, EnqueueIngest, DeleteFiles, DeleteRow,
         RequestDies

JobsType == jobs \in [JobId -> JobRow \cup {NoJob}] /\ lastId \in 0 .. MaxJobs

\* Closing, claiming or reaping a row that is not free.
LEMMA TypeSetJob ==
    ASSUME JobsType, NEW j \in JobId, jobs[j] \in JobRow,
           NEW s \in {"pending", "picked", "done", "failed"}, SetJob(j, s),
           UNCHANGED lastId
    PROVE  JobsType'
<1>1. [jobs[j] EXCEPT !.status = s] \in JobRow
  BY DEF JobRow
<1>2. jobs' = [jobs EXCEPT ![j] = [jobs[j] EXCEPT !.status = s]]
  BY DEF SetJob
<1>3. QED
  BY <1>1, <1>2 DEF JobsType

LEMMA HeldRow ==
    ASSUME Inv, Holding, Exists(worker.ep)
    PROVE  /\ worker.job \in JobId
           /\ jobs[worker.job] \in JobRow
           /\ jobs[worker.job].status = "picked"
           /\ jobs[worker.job].ep = worker.ep
<1>1. worker.job \in JobId /\ jobs[worker.job].status = "picked"
      /\ jobs[worker.job].ep = worker.ep
  BY DEF Inv, ClaimHeld
<1>2. QED
  BY <1>1, PickedRow

LEMMA JobsStep == ASSUME Inv, [Next]_vars PROVE JobsType'
<1> JobsType
  BY DEF Inv, TypeOK, JobsType
<1>1. ASSUME NEW j \in JobId, Poll(j) PROVE JobsType'
  BY <1>1, PickedRow, TypeSetJob DEF Poll, Foremost, Ready
<1>2. ASSUME NEW e \in Episode, NEW t \in Task, NEW d \in BOOLEAN, Enqueue(e, t, d)
      PROVE  JobsType'
  BY <1>2, TypeEnqueue DEF JobsType
<1>3. CASE Handoff
  <2>1. worker.ep \in Episode /\ worker.task \in Task \ {"archive"}
    BY <1>3, WorkerFields DEF Handoff, InHandler, Inv, ClaimHeld
  <2>2. NextTask[worker.task] \in Task
    BY <2>1 DEF NextTask, Task
  <2>3. QED
    BY <1>3, <1>2, <2>1, <2>2 DEF Handoff
<1>4. CASE Complete
  BY <1>4, HeldRow, TypeSetJob DEF Complete
<1>5. CASE Requeue
  BY <1>5, <1>2, WorkerFields DEF Requeue
<1>6. CASE FailJob
  BY <1>6, HeldRow, TypeSetJob DEF FailJob
<1>7. ASSUME NEW j \in JobId, RetryDue(j) PROVE JobsType'
  <2>1. jobs[j] \in JobRow
    BY <1>7, PickedRow DEF RetryDue, BackoffElapses
  <2>2. [jobs[j] EXCEPT !.due = TRUE] \in JobRow
    BY <2>1 DEF JobRow
  <2>3. jobs' = [jobs EXCEPT ![j] = [jobs[j] EXCEPT !.due = TRUE]]
    BY <1>7 DEF RetryDue, BackoffElapses
  <2>4. QED
    BY <1>7, <2>2, <2>3 DEF RetryDue, JobsType
<1>8. ASSUME NEW j \in JobId, ReapZombie(j) PROVE JobsType'
  BY <1>8, PickedRow, TypeSetJob DEF ReapZombie
<1>9. ASSUME NEW e \in Episode, Sweep(e) PROVE JobsType'
  BY <1>9, <1>2 DEF Sweep
<1>10. CASE Prune
  BY <1>10 DEF Prune, JobsType
<1>11. ASSUME NEW e \in Episode, IngestFeed(e) PROVE JobsType'
  BY <1>11, <1>2 DEF IngestFeed, Task
<1>12. ASSUME NEW e \in Episode, EnqueueIngest(e) PROVE JobsType'
  BY <1>12, <1>2 DEF EnqueueIngest, Task
<1>13. ASSUME NEW e \in Episode, DeleteRow(e) PROVE JobsType'
  BY <1>13 DEF DeleteRow, JobsType
<1>14. CASE UNCHANGED <<jobs, lastId>>
  BY <1>14 DEF JobsType
<1>15. QED
  BY <1>1, <1>3, <1>4, <1>5, <1>6, <1>7, <1>8, <1>9, <1>10, <1>11, <1>12, <1>13, <1>14
     DEF vars, Next, Handle, Sweeps, Requests, BeginDownload, DownloadDiskFull, OpenFile,
         SaveDownload, BeginTranscribe, Transcribe, BeginDiarize, Diarize, BeginStage,
         StageWork, Compress, ArchiveDiskFull, CommitDone, VerifyAndUnlink, Announce,
         HandlerRaises, HandleException, EpisodeVanished, Crash, IngestByHand, RetryJob,
         DeleteFiles, RequestDies

FilesType == rawFiles \subseteq Episode /\ arcFiles \subseteq Episode /\ wiped \subseteq Episode

LEMMA FilesStep == ASSUME Inv, [Next]_vars PROVE FilesType'
<1> FilesType
  BY DEF Inv, TypeOK, FilesType
<1>1. CASE OpenFile
  BY <1>1, WorkerFields DEF OpenFile, InHandler, FilesType
<1>2. CASE Compress
  BY <1>2, WorkerFields DEF Compress, InHandler, FilesType
<1>3. CASE VerifyAndUnlink
  BY <1>3 DEF VerifyAndUnlink, files, FilesType
<1>4. ASSUME NEW e \in Episode, NEW k \in {"url", "upload"}, IngestByHand(e, k)
      PROVE  FilesType'
  BY <1>4 DEF IngestByHand, FilesType
<1>5. ASSUME NEW e \in Episode, DeleteFiles(e) PROVE FilesType'
  BY <1>5 DEF DeleteFiles, FilesType
<1>6. CASE UNCHANGED <<files, wiped>>
  BY <1>6 DEF files, FilesType
<1>7. QED
  BY <1>1, <1>2, <1>3, <1>4, <1>5, <1>6
     DEF vars, Next, Handle, Sweeps, Requests, Poll, RetryDue, BeginDownload,
         DownloadDiskFull, SaveDownload, BeginTranscribe, Transcribe, BeginDiarize,
         Diarize, BeginStage, StageWork, ArchiveDiskFull, CommitDone, Announce, Handoff,
         Complete, HandlerRaises, HandleException, Requeue, FailJob, EpisodeVanished,
         Crash, ReapZombie, Sweep, Prune, IngestFeed, RetryJob, EnqueueIngest, DeleteRow,
         RequestDies

AlertType == alert \in [Episode -> {"none", "due", "sent", "lost"}]

LEMMA AlertStep == ASSUME Inv, [Next]_vars PROVE AlertType'
<1> AlertType
  BY DEF Inv, TypeOK, AlertType
<1>1. ASSUME NEW e \in Episode, NEW c, NEW t, MarkFailed(e, c, t) PROVE AlertType'
  BY <1>1 DEF MarkFailed, AlertType
<1>2. CASE BeginDownload
  BY <1>1, <1>2, WorkerFields DEF BeginDownload, At, InHandler, AlertType
<1>3. CASE DownloadDiskFull
  BY <1>1, <1>3, WorkerFields DEF DownloadDiskFull, At, InHandler
<1>4. CASE ArchiveDiskFull
  BY <1>1, <1>4, WorkerFields DEF ArchiveDiskFull, At, InHandler
<1>5. CASE HandleException
  BY <1>1, <1>5, WorkerFields DEF HandleException, AlertType
<1>6. ASSUME NEW j \in JobId, ReapZombie(j) PROVE AlertType'
  BY <1>1, <1>6, PickedRow DEF ReapZombie
<1>7. CASE Announce
  BY <1>7 DEF Announce, AlertType
<1>8. CASE Crash
  BY <1>8 DEF Crash, AlertType
<1>9. ASSUME NEW e \in Episode, DeleteRow(e) PROVE AlertType'
  BY <1>9 DEF DeleteRow, AlertType
<1>10. CASE UNCHANGED alert
  BY <1>10 DEF AlertType
<1>11. QED
  BY <1>2, <1>3, <1>4, <1>5, <1>6, <1>7, <1>8, <1>9, <1>10
     DEF vars, Next, Handle, Sweeps, Requests, Poll, RetryDue, OpenFile, SaveDownload,
         BeginTranscribe, Transcribe, BeginDiarize, Diarize, BeginStage, StageWork,
         Compress, CommitDone, VerifyAndUnlink, Handoff, Complete, HandlerRaises, Requeue,
         FailJob, EpisodeVanished, Sweep, Prune, IngestFeed, IngestByHand, RetryJob,
         EnqueueIngest, DeleteFiles, RequestDies

RequestsType ==
    /\ api \in [Episode -> {"none", "enqueue", "delete"}]
    /\ crashes \in 0 .. MaxCrashes /\ manual \in 0 .. MaxManual

LEMMA RequestsStep == ASSUME Inv, [Next]_vars PROVE RequestsType'
<1> RequestsType
  BY DEF Inv, TypeOK, RequestsType
<1> MaxCrashes \in Nat /\ MaxManual \in Nat
  BY BoundAssumption
<1>1. CASE Crash
  BY <1>1 DEF Crash, RequestsType
<1>2. ASSUME NEW e \in Episode, RetryJob(e) PROVE RequestsType'
  BY <1>2 DEF RetryJob, RequestsType
<1>3. ASSUME NEW e \in Episode, RequestDies(e) PROVE RequestsType'
  BY <1>3 DEF RequestDies, RequestsType
<1>4. ASSUME NEW e \in Episode, NEW s \in {"none", "enqueue", "delete"},
             api' = [api EXCEPT ![e] = s], UNCHANGED budget
      PROVE  RequestsType'
  BY <1>4 DEF budget, RequestsType
<1>5. CASE UNCHANGED <<api, budget>>
  BY <1>5 DEF budget, RequestsType
<1>6. QED
  BY <1>1, <1>2, <1>3, <1>4, <1>5
     DEF vars, Next, Handle, Sweeps, Requests, Poll, RetryDue, BeginDownload, OpenFile,
         DownloadDiskFull, SaveDownload, BeginTranscribe, Transcribe, BeginDiarize,
         Diarize, BeginStage, StageWork, Compress, ArchiveDiskFull, CommitDone,
         VerifyAndUnlink, Announce, Handoff, Complete, HandlerRaises, HandleException,
         Requeue, FailJob, EpisodeVanished, ReapZombie, Sweep, Prune, IngestFeed,
         IngestByHand, EnqueueIngest, DeleteFiles, DeleteRow

LEMMA TypeStep == ASSUME Inv, [Next]_vars PROVE TypeOK'
BY EpStep, WorkerStep, JobsStep, FilesStep, AlertStep, RequestsStep
   DEF TypeOK, EpType, JobsType, FilesType, AlertType, RequestsType

-----------------------------------------------------------------------------
(* Rows of episodes and jobs come and go in order.                         *)

Living == Status \ {"absent", "deleted"}

\* The status of e changes only while the row exists, as it is entered or as it is deleted.
RowMoves(e) ==
    \/ ep'[e].status = ep[e].status
    \/ Exists(e) /\ ep'[e].status \in Living
    \/ ep[e].status = "absent" /\ ep'[e].status \in Living
    \/ DeleteRow(e)

LEMMA LivingStatus ==
    /\ Living = Mid \cup {"pending", "done", "failed", "no_speech"}
    /\ \A e : Exists(e) <=> ep[e].status \notin {"absent", "deleted"}
BY MidStatus DEF Living, Status, Terminal, Exists

LEMMA MarkFailedMoves ==
    ASSUME Inv, NEW x \in Episode, Exists(x), NEW c, NEW t, MarkFailed(x, c, t),
           NEW e \in Episode
    PROVE  RowMoves(e)
<1>1. ep \in [Episode -> EpisodeRow]
  BY DEF Inv, TypeOK
<1>2. ep' = [ep EXCEPT ![x].status = "failed", ![x].err = c]
  BY DEF MarkFailed
<1>3. QED
  BY <1>1, <1>2, LivingStatus DEF RowMoves, EpisodeRow

LEMMA RowStep == ASSUME Inv, [Next]_vars, NEW e \in Episode PROVE RowMoves(e)
<1> EpType
  BY DEF Inv, TypeOK, EpType
<1>1. CASE BeginDownload
  BY <1>1, WorkerFields, MarkFailedMoves, LivingStatus, MidStatus
     DEF EpType, BeginDownload, At, InHandler, RowMoves, EpisodeRow
<1>2. CASE DownloadDiskFull
  BY <1>2, WorkerFields, MarkFailedMoves DEF DownloadDiskFull, At, InHandler
<1>3. CASE SaveDownload
  BY <1>3 DEF EpType, SaveDownload, RowMoves, EpisodeRow
<1>4. CASE BeginTranscribe
  BY <1>4, LivingStatus, MidStatus DEF EpType, BeginTranscribe, At, RowMoves, EpisodeRow
<1>5. CASE Transcribe
  BY <1>5, LivingStatus, MidStatus DEF EpType, Transcribe, At, RowMoves, EpisodeRow
<1>6. CASE Diarize
  BY <1>6 DEF EpType, Diarize, RowMoves, EpisodeRow
<1>7. CASE BeginStage
  <2>1. worker.ep \in Episode /\ worker.task \in Task /\ Exists(worker.ep)
    BY <1>7, WorkerFields DEF BeginStage, At, InHandler
  <2>2. UNCHANGED ep \/ ep' = [ep EXCEPT ![worker.ep].status = StatusOf[worker.task]]
    BY <1>7 DEF BeginStage
  <2>3. StatusOf[worker.task] \in Living
    BY <2>1, LivingStatus, MidStatus
  <2>4. QED
    BY <2>1, <2>2, <2>3 DEF EpType, RowMoves, EpisodeRow
<1>8. CASE ArchiveDiskFull
  BY <1>8, WorkerFields, MarkFailedMoves DEF ArchiveDiskFull, At, InHandler
<1>9. CASE CommitDone
  BY <1>9, LivingStatus DEF EpType, CommitDone, At, RowMoves, EpisodeRow
<1>10. CASE HandleException
  <2>1. worker.ep \in Episode /\ Exists(worker.ep)
    BY <1>10, WorkerFields DEF HandleException
  <2>2. CASE MarkFailed(worker.ep, worker.class, "drop")
    BY <2>1, <2>2, MarkFailedMoves
  <2>3. CASE ep' = [ep EXCEPT ![worker.ep].status = "pending",
                              ![worker.ep].retries = @ + 1,
                              ![worker.ep].err = worker.class]
    BY <2>1, <2>3, LivingStatus DEF EpType, RowMoves, EpisodeRow
  <2>4. QED
    BY <1>10, <2>2, <2>3 DEF HandleException, RowMoves
<1>11. ASSUME NEW j \in JobId, ReapZombie(j) PROVE RowMoves(e)
  <2>1. jobs[j].ep \in Episode /\ Exists(jobs[j].ep)
    BY <1>11, PickedRow DEF ReapZombie, Inv, JobsOwned
  <2>2. QED
    BY <1>11, <2>1, MarkFailedMoves DEF ReapZombie
<1>12. ASSUME NEW x \in Episode, Sweep(x) PROVE RowMoves(e)
  BY <1>12, LivingStatus, MidStatus DEF EpType, Sweep, Stranded, RowMoves, EpisodeRow
<1>13. ASSUME NEW x \in Episode, IngestFeed(x) PROVE RowMoves(e)
  BY <1>13, LivingStatus DEF EpType, IngestFeed, NewRow, Row, RowMoves, EpisodeRow
<1>14. ASSUME NEW x \in Episode, NEW k \in {"url", "upload"}, IngestByHand(x, k)
       PROVE  RowMoves(e)
  BY <1>14, LivingStatus DEF EpType, IngestByHand, NewRow, Row, RowMoves, EpisodeRow
<1>15. ASSUME NEW x \in Episode, RetryJob(x) PROVE RowMoves(e)
  BY <1>15, LivingStatus DEF EpType, RetryJob, RetryAccepted, RowMoves, EpisodeRow
<1>16. ASSUME NEW x \in Episode, DeleteRow(x) PROVE RowMoves(e)
  <2>1. CASE x = e
    BY <1>16, <2>1 DEF RowMoves
  <2>2. CASE x # e
    BY <1>16, <2>2 DEF DeleteRow, RowMoves, EpType
  <2>3. QED
    BY <2>1, <2>2
<1>17. CASE UNCHANGED ep
  BY <1>17 DEF RowMoves
<1>18. CASE Handle
  BY <1>1, <1>2, <1>3, <1>4, <1>5, <1>6, <1>7, <1>8, <1>9, <1>10, <1>17, <1>18
     DEF Handle, OpenFile, BeginDiarize, StageWork, Compress, VerifyAndUnlink, Handoff,
         Complete, Announce, HandlerRaises, Requeue, FailJob, EpisodeVanished
<1>19. CASE Sweeps
  BY <1>11, <1>12, <1>17, <1>19 DEF Sweeps, Prune
<1>20. ASSUME NEW x \in Episode, Requests(x) PROVE RowMoves(e)
  BY <1>13, <1>14, <1>15, <1>16, <1>17, <1>20
     DEF Requests, EnqueueIngest, DeleteFiles, RequestDies
<1>21. ASSUME NEW j \in JobId, Poll(j) \/ RetryDue(j) PROVE RowMoves(e)
  BY <1>17, <1>21 DEF Poll, RetryDue
<1>22. CASE Crash
  BY <1>17, <1>22 DEF Crash
<1>23. QED
  BY <1>17, <1>18, <1>19, <1>20, <1>21, <1>22 DEF vars, Next

\* A row that exists goes only by DeleteRow, and one that is gone stays gone.
LEMMA ExistsStep ==
    ASSUME Inv, [Next]_vars, NEW e \in Episode
    PROVE  /\ Exists(e) => Exists(e)' \/ DeleteRow(e)
           /\ ep[e].status # "absent" => ep'[e].status # "absent"
           /\ ep[e].status # "absent" /\ Exists(e)' => Exists(e)
<1>1. CASE DeleteRow(e)
  BY <1>1 DEF DeleteRow, NoRow, Row, Exists, Inv, TypeOK
<1>2. CASE ~DeleteRow(e)
  BY <1>2, RowStep DEF RowMoves, Living, Exists
<1>3. QED
  BY <1>1, <1>2

\* The rows of the queue after a step: old ones, or one more of an episode that exists.
LEMMA OwnedStep == ASSUME Inv, [Next]_vars PROVE JobsOwned'
<1> JobsType
  BY DEF Inv, TypeOK, JobsType
<1> JobsOwned
  BY DEF Inv
<1> DEFINE OldRows == /\ lastId' = lastId
                      /\ \A j \in JobId :
                            \/ jobs'[j] = NoJob
                            \/ jobs[j] # NoJob /\ jobs'[j].ep = jobs[j].ep
                      /\ \A e \in Episode : ~DeleteRow(e)
<1>1. CASE OldRows
  <2> SUFFICES ASSUME NEW j \in JobId
               PROVE  /\ j > lastId' => jobs'[j] = NoJob
                      /\ (jobs[j].ep \in Episode => Exists(jobs[j].ep))'
    BY DEF JobsOwned
  <2>1. CASE jobs'[j] = NoJob
    BY <2>1, NoJobTyped
  <2>2. CASE jobs[j] # NoJob /\ jobs'[j].ep = jobs[j].ep
    BY <1>1, <2>2, ExistsStep DEF JobsOwned
  <2>3. QED
    BY <1>1, <2>1, <2>2
<1> HIDE DEF OldRows
<1>2. ASSUME NEW e \in Episode, DeleteRow(e) PROVE JobsOwned'
  <2>1. lastId' = lastId /\ jobs' = [j \in JobId |-> IF jobs[j].ep = e THEN NoJob ELSE jobs[j]]
    BY <1>2 DEF DeleteRow
  <2>2. ep' = [ep EXCEPT ![e] = NoRow("deleted")]
    BY <1>2 DEF DeleteRow
  <2>3. QED
    <3> SUFFICES ASSUME NEW j \in JobId
                 PROVE  /\ j > lastId' => jobs'[j] = NoJob
                        /\ (jobs[j].ep \in Episode => Exists(jobs[j].ep))'
      BY DEF JobsOwned
    <3>1. CASE jobs[j].ep = e
      BY <2>1, <3>1, NoJobTyped
    <3>2. CASE jobs[j].ep # e
      <4>1. jobs'[j] = jobs[j]
        BY <2>1, <3>2
      <4>2. jobs[j].ep \in Episode => ep'[jobs[j].ep] = ep[jobs[j].ep]
        BY <2>2, <3>2 DEF Inv, TypeOK
      <4>3. QED
        BY <2>1, <4>1, <4>2 DEF JobsOwned, Exists
    <3>3. QED
      BY <3>1, <3>2
<1>3. CASE \A e \in Episode : ~DeleteRow(e)
  <2>1. ASSUME NEW e \in Episode, Exists(e) PROVE Exists(e)'
    BY <1>3, <2>1, ExistsStep
  <2>2. ASSUME NEW e \in Episode, NEW t \in Task, NEW d \in BOOLEAN, Enqueue(e, t, d),
               Exists(e)'
        PROVE  JobsOwned'
    <3> DEFINE n == lastId + 1
    <3>1. Enqueue(e, t, d)
      BY <2>2
    <3>2. /\ \A j \in JobId : j # lastId' => jobs'[j] = jobs[j]
          /\ lastId' \in JobId
          /\ jobs'[lastId'] = [ep |-> e, task |-> t, status |-> "pending", due |-> d]
      BY <3>1, TypeEnqueue DEF JobsType
    <3>3. lastId' = n /\ lastId \in Nat
      BY <3>1 DEF Enqueue, JobsType
    <3>4. jobs'[n].ep = e
      BY <3>2, <3>3
    <3>5. SUFFICES ASSUME NEW j \in JobId
                   PROVE  /\ j > lastId' => jobs'[j] = NoJob
                          /\ (jobs[j].ep \in Episode => Exists(jobs[j].ep))'
      BY DEF JobsOwned
    <3>6. CASE j = n
      BY <2>2, <3>3, <3>4, <3>6
    <3>7. CASE j # n
      BY <2>1, <3>2, <3>3, <3>7 DEF JobsOwned
    <3>8. QED
      BY <3>6, <3>7
  <2>3. ASSUME NEW j \in JobId, NEW s, SetJob(j, s), jobs[j].ep \in Episode,
               UNCHANGED lastId
        PROVE  JobsOwned'
    <3>1. jobs' = [jobs EXCEPT ![j].status = s]
      BY <2>3 DEF SetJob
    <3>2. jobs[j] # NoJob
      BY <2>3, NoJobTyped
    <3>3. OldRows
      BY <1>3, <2>3, <3>1, <3>2 DEF OldRows, JobsType, JobRow, NoJob
    <3>4. QED
      BY <1>1, <3>3
  <2>4. CASE UNCHANGED <<jobs, lastId>>
    BY <1>1, <1>3, <2>4 DEF OldRows
  <2>5. CASE Handle
    <3>1. CASE Handoff \/ Requeue
      <4>1. worker.ep \in Episode /\ Exists(worker.ep) /\ worker.task \in Task
        BY <3>1, WorkerFields DEF Handoff, Requeue, InHandler
      <4>2. \E t \in Task, d \in BOOLEAN : Enqueue(worker.ep, t, d)
        <5>1. Handoff => NextTask[worker.task] \in Task
          BY <4>1 DEF Handoff, Inv, ClaimHeld, NextTask, Task
        <5>2. QED
          BY <3>1, <4>1, <5>1 DEF Handoff, Requeue
      <4>3. QED
        BY <2>1, <2>2, <4>1, <4>2
    <3>2. CASE Complete \/ FailJob
      BY <2>3, <3>2, HeldRow, WorkerFields DEF Complete, FailJob
    <3>3. QED
      BY <2>4, <2>5, <3>1, <3>2
         DEF Handle, BeginDownload, DownloadDiskFull, OpenFile, SaveDownload,
             BeginTranscribe, Transcribe, BeginDiarize, Diarize, BeginStage, StageWork,
             Compress, ArchiveDiskFull, CommitDone, VerifyAndUnlink, Announce,
             HandlerRaises, HandleException, EpisodeVanished
  <2>6. ASSUME NEW j \in JobId, Poll(j) PROVE JobsOwned'
    BY <2>3, <2>6, PickedRow DEF Poll, Foremost, Ready
  <2>7. ASSUME NEW j \in JobId, RetryDue(j) PROVE JobsOwned'
    <3>1. jobs' = [jobs EXCEPT ![j].due = TRUE] /\ jobs[j].ep \in Episode
      BY <2>7, PickedRow DEF RetryDue, BackoffElapses
    <3>2. jobs[j] # NoJob
      BY <3>1, NoJobTyped
    <3>3. OldRows
      BY <1>3, <2>7, <3>1, <3>2 DEF OldRows, JobsType, JobRow, NoJob, RetryDue
    <3>4. QED
      BY <1>1, <3>3
  <2>8. ASSUME NEW j \in JobId, ReapZombie(j) PROVE JobsOwned'
    BY <2>3, <2>8, PickedRow DEF ReapZombie
  <2>9. ASSUME NEW e \in Episode, Sweep(e) PROVE JobsOwned'
    <3>1. Exists(e)
      BY <2>9, LivingStatus, MidStatus DEF Sweep, Stranded
    <3>2. QED
      BY <2>1, <2>2, <2>9, <3>1 DEF Sweep
  <2>10. CASE Prune
    <3>1. OldRows
      BY <1>3, <2>10 DEF Prune, OldRows
    <3>2. QED
      BY <1>1, <3>1
  <2>11. ASSUME NEW e \in Episode, IngestFeed(e) PROVE JobsOwned'
    <3>1. Exists(e)'
      <4>1. ep'[e] = NewRow("feed")
        <5>1. ep' = [ep EXCEPT ![e] = NewRow("feed")]
          BY <2>11 DEF IngestFeed
        <5>2. ep \in [Episode -> EpisodeRow]
          BY DEF Inv, TypeOK
        <5>3. QED
          BY <5>1, <5>2
      <4>2. QED
        BY <4>1 DEF NewRow, Row, Exists
    <3>2. QED
      BY <2>2, <2>11, <3>1 DEF IngestFeed, Task
  <2>12. ASSUME NEW e \in Episode, EnqueueIngest(e) PROVE JobsOwned'
    BY <2>1, <2>2, <2>12 DEF EnqueueIngest, Task
  <2>13. CASE Sweeps
    BY <2>8, <2>9, <2>10, <2>13 DEF Sweeps
  <2>14. ASSUME NEW e \in Episode, Requests(e) PROVE JobsOwned'
    BY <1>3, <2>4, <2>11, <2>12, <2>14
       DEF Requests, IngestByHand, RetryJob, DeleteFiles, RequestDies
  <2>15. CASE Crash
    BY <2>4, <2>15 DEF Crash
  <2>16. QED
    BY <2>4, <2>5, <2>6, <2>7, <2>13, <2>14, <2>15 DEF vars, Next
<1>4. QED
  BY <1>2, <1>3

-----------------------------------------------------------------------------
(* The worker's claim.                                                     *)

\* No step but the one that lets go of the claim touches its row while the episode exists.
LEMMA ClaimKept ==
    ASSUME Inv, [Next]_vars, Holding, worker'.pc # "idle",
           ep'[worker.ep].status \notin {"absent", "deleted"}
    PROVE  /\ jobs'[worker.job].ep = worker.ep
           /\ jobs'[worker.job].status = "picked"
<1> DEFINE w == worker.job
           Kept == jobs'[w].ep = worker.ep /\ jobs'[w].status = "picked"
<1>1. w \in JobId /\ worker.ep \in Episode /\ Exists(worker.ep) /\ worker.pc # "idle"
  BY ExistsStep DEF Inv, ClaimHeld, Exists
<1>2. jobs[w] \in JobRow /\ jobs[w].status = "picked" /\ jobs[w].ep = worker.ep
  BY <1>1, HeldRow
<1>3. CASE jobs'[w] = jobs[w]
  BY <1>2, <1>3
<1>4. ASSUME NEW e \in Episode, NEW t \in Task, NEW d \in BOOLEAN, Enqueue(e, t, d)
      PROVE  Kept
  <2>1. JobsType /\ JobsOwned
    BY DEF Inv, TypeOK, JobsType
  <2>2. lastId' = lastId + 1 /\ lastId \in Nat
    BY <1>4, <2>1 DEF Enqueue, JobsType
  <2>3. w # lastId'
    BY <1>1, <1>2, <2>1, <2>2, NoJobTyped DEF JobsOwned
  <2>4. Enqueue(e, t, d)
    BY <1>4
  <2>5. jobs'[w] = jobs[w]
    BY <1>1, <2>1, <2>3, <2>4, TypeEnqueue DEF JobsType
  <2>6. QED
    BY <1>3, <2>5
<1>5. CASE Handle
  <2>1. CASE Handoff \/ Requeue
    <3>1. \E t \in Task, d \in BOOLEAN : Enqueue(worker.ep, t, d)
      <4>1. worker.task \in Task
        BY <2>1, WorkerFields DEF Handoff, Requeue, InHandler
      <4>2. Handoff => NextTask[worker.task] \in Task
        BY <4>1 DEF Handoff, Inv, ClaimHeld, NextTask, Task
      <4>3. QED
        BY <2>1, <4>1, <4>2 DEF Handoff, Requeue
    <3>2. QED
      BY <1>1, <1>4, <3>1
  <2>2. CASE UNCHANGED jobs
    BY <1>3, <2>2
  <2>3. CASE Complete \/ FailJob
    BY <2>3 DEF Complete, FailJob, Idle
  <2>4. QED
    BY <1>5, <2>1, <2>2, <2>3
       DEF Handle, BeginDownload, DownloadDiskFull, OpenFile, SaveDownload,
           BeginTranscribe, Transcribe, BeginDiarize, Diarize, BeginStage, StageWork,
           Compress, ArchiveDiskFull, CommitDone, VerifyAndUnlink, Announce,
           HandlerRaises, HandleException, EpisodeVanished
<1>6. ASSUME NEW j \in JobId, Poll(j) PROVE Kept
  BY <1>1, <1>6 DEF Poll
<1>7. ASSUME NEW j \in JobId, RetryDue(j) PROVE Kept
  <2>1. jobs[j].status = "pending" /\ jobs' = [jobs EXCEPT ![j].due = TRUE]
    BY <1>7 DEF RetryDue, BackoffElapses
  <2>2. jobs \in [JobId -> JobRow \cup {NoJob}]
    BY DEF Inv, TypeOK
  <2>3. jobs'[w] = jobs[w]
    BY <1>1, <1>2, <2>1, <2>2
  <2>4. QED
    BY <1>3, <2>3
<1>8. CASE Sweeps
  BY <1>1, <1>8 DEF Sweeps, Prune, ReapZombie, Sweep
<1>9. ASSUME NEW e \in Episode, DeleteRow(e) PROVE Kept
  <2>1. ep' = [ep EXCEPT ![e] = NoRow("deleted")]
        /\ jobs' = [j \in JobId |-> IF jobs[j].ep = e THEN NoJob ELSE jobs[j]]
    BY <1>9 DEF DeleteRow
  <2>2. ep \in [Episode -> EpisodeRow]
    BY DEF Inv, TypeOK
  <2>3. e # worker.ep
    <3>1. NoRow("deleted").status = "deleted"
      BY DEF NoRow, Row
    <3>2. QED
      BY <2>1, <2>2, <3>1
  <2>4. QED
    BY <1>1, <1>2, <2>1, <2>3
<1>10. ASSUME NEW e \in Episode, Requests(e) PROVE Kept
  <2>1. CASE UNCHANGED jobs
    BY <1>3, <2>1
  <2>2. CASE IngestFeed(e)
    BY <1>4, <2>2 DEF IngestFeed, Task
  <2>3. CASE EnqueueIngest(e)
    BY <1>4, <2>3 DEF EnqueueIngest, Task
  <2>4. QED
    BY <1>9, <1>10, <2>1, <2>2, <2>3
       DEF Requests, IngestByHand, RetryJob, DeleteFiles, RequestDies
<1>11. CASE UNCHANGED jobs
  BY <1>3, <1>11
<1>12. QED
  BY <1>5, <1>6, <1>7, <1>8, <1>10, <1>11 DEF vars, Next, Crash

SameJob ==
    worker'.job = worker.job /\ worker'.ep = worker.ep /\ worker'.task = worker.task

\* A step inside a job, to a place that is not mark_failed.
LEMMA MoveOn ==
    ASSUME Inv, [Next]_vars, Holding, SameJob, worker'.then = "idle",
           worker'.pc \notin {"alert", "idle"},
           worker'.pc = "handoff" => worker.task # "archive"
    PROVE  ClaimHeld'
<1>1. worker.job \in JobId /\ worker.ep \in Episode /\ worker.task \in Task
      /\ ep'[worker.ep].status # "absent"
  BY ExistsStep DEF Inv, ClaimHeld
<1>2. QED
  BY <1>1, ClaimKept DEF ClaimHeld, SameJob, Exists

\* A step of the job into mark_failed, or one that stays there.
LEMMA FailOwn ==
    ASSUME Inv, [Next]_vars, Holding, SameJob, worker'.pc = "alert"
    PROVE  ClaimHeld'
<1>1. worker.job \in JobId /\ worker.ep \in Episode /\ worker.task \in Task
      /\ ep'[worker.ep].status # "absent"
  BY ExistsStep DEF Inv, ClaimHeld
<1>2. QED
  BY <1>1, ClaimKept DEF ClaimHeld, SameJob, Exists

LEMMA MarkFailedClaim ==
    ASSUME Inv, [Next]_vars, Holding, NEW c, NEW t, MarkFailed(worker.ep, c, t)
    PROVE  ClaimHeld'
<1>1. worker \in Worker
  BY DEF Inv, TypeOK
<1>2. worker' = [worker EXCEPT !.pc = "alert", !.ep = worker.ep, !.class = c, !.then = t]
  BY DEF MarkFailed
<1>3. SameJob /\ worker'.pc = "alert"
  BY <1>1, <1>2 DEF SameJob, Worker
<1>4. QED
  BY <1>3, FailOwn

\* The other steps of a handler change only these fields of the worker.
LEMMA GotoClaim ==
    ASSUME Inv, [Next]_vars, worker.pc \notin {"alert", "idle"}, NEW pc, Goto(pc),
           pc \notin {"alert", "idle"}, pc = "handoff" => worker.task # "archive"
    PROVE  ClaimHeld'
<1>1. worker \in Worker /\ worker.then = "idle" /\ Holding
  BY DEF Inv, TypeOK, ClaimHeld
<1>2. SameJob /\ worker'.pc = pc /\ worker'.then = "idle"
  BY <1>1 DEF SameJob, Worker, Goto
<1>3. QED
  BY <1>1, <1>2, MoveOn

LEMMA UpdateClaim ==
    ASSUME Inv, [Next]_vars, worker.pc \notin {"alert", "idle"},
           SameJob, worker'.then = worker.then,
           worker'.pc \notin {"alert", "idle", "handoff"}
    PROVE  ClaimHeld'
BY MoveOn DEF Inv, ClaimHeld

LEMMA ClaimStep == ASSUME Inv, [Next]_vars PROVE ClaimHeld'
<1>0. worker \in Worker
  BY DEF Inv, TypeOK
<1>1. CASE worker' = Idle
  BY <1>1 DEF Idle, ClaimHeld
<1>2. CASE UNCHANGED worker
  <2>1. CASE Holding
    <3>1. CASE worker.pc = "alert"
      BY <1>2, <2>1, <3>1, FailOwn DEF SameJob
    <3>2. CASE worker.pc # "alert"
      BY <1>2, <2>1, <3>2, MoveOn DEF SameJob, Inv, ClaimHeld
    <3>3. QED
      BY <3>1, <3>2
  <2>2. CASE ~Holding
    BY <1>2, <2>2 DEF Inv, ClaimHeld
  <2>3. QED
    BY <2>1, <2>2
<1>3. ASSUME NEW pc \in {"work", "file", "verify", "finish"}, Goto(pc),
             worker.pc \notin {"alert", "idle"}
      PROVE  ClaimHeld'
  BY <1>3, GotoClaim
<1>4. ASSUME Goto("handoff"), worker.pc \notin {"alert", "idle"}, worker.task # "archive"
      PROVE  ClaimHeld'
  BY <1>4, GotoClaim
<1>5. ASSUME NEW c, Raise(c), worker.pc \notin {"alert", "idle"}
      PROVE  ClaimHeld'
  <2>1. SameJob /\ worker'.pc = "raised" /\ worker'.then = worker.then
    BY <1>0, <1>5 DEF Raise, SameJob, Worker
  <2>2. QED
    BY <1>5, <2>1, UpdateClaim
<1>6. CASE BeginDownload
  BY <1>3, <1>6, MarkFailedClaim DEF BeginDownload, At
<1>7. CASE OpenFile \/ StageWork \/ SaveDownload
  BY <1>3, <1>4, <1>7 DEF OpenFile, StageWork, SaveDownload, At
<1>8. CASE DownloadDiskFull \/ ArchiveDiskFull
  BY <1>8, MarkFailedClaim DEF DownloadDiskFull, ArchiveDiskFull, At
<1>9. CASE BeginTranscribe
  BY <1>3, <1>5, <1>9 DEF BeginTranscribe, At
<1>10. CASE Transcribe
  BY <1>3, <1>4, <1>10 DEF Transcribe, At
<1>11. CASE BeginDiarize \/ Diarize
  BY <1>3, <1>4, <1>5, <1>11 DEF BeginDiarize, Diarize, At
<1>12. CASE BeginStage
  <2>1. worker.pc = "begin"
    BY <1>12 DEF BeginStage, At
  <2>2. CASE Goto("handoff") /\ worker.task = "infer"
    BY <1>4, <2>1, <2>2
  <2>3. CASE SameJob /\ worker'.pc = "work" /\ worker'.then = worker.then
    BY <2>1, <2>3, UpdateClaim
  <2>4. QED
    BY <1>0, <1>12, <2>2, <2>3 DEF BeginStage, SameJob, Worker
<1>13. CASE Compress
  <2>1. SameJob /\ worker'.pc = "file" /\ worker'.then = worker.then
    BY <1>0, <1>13 DEF Compress, SameJob, Worker
  <2>2. worker.pc = "work"
    BY <1>13 DEF Compress
  <2>3. QED
    BY <2>1, <2>2, UpdateClaim
<1>14. CASE CommitDone
  BY <1>3, <1>14 DEF CommitDone, At
<1>15. CASE VerifyAndUnlink
  BY <1>3, <1>5, <1>15 DEF VerifyAndUnlink, At
<1>16. CASE Handoff
  BY <1>3, <1>16 DEF Handoff
<1>17. CASE Announce
  <2>1. CASE worker.then = "idle"
    BY <1>1, <1>17, <2>1 DEF Announce
  <2>2. CASE worker.then # "idle"
    <3>1. worker' = [worker EXCEPT !.pc = worker.then, !.class = "none", !.then = "idle"]
      BY <1>17, <2>2 DEF Announce
    <3>2. worker \in Worker /\ worker.pc = "alert" /\ Holding
      BY <1>17, <2>2 DEF Announce, Inv, TypeOK
    <3>3. SameJob /\ worker'.pc \in {"finish", "drop"} /\ worker'.then = "idle"
      BY <2>2, <3>1, <3>2 DEF SameJob, Worker
    <3>4. QED
      BY <3>2, <3>3, MoveOn
  <2>3. QED
    BY <2>1, <2>2
<1>18. CASE HandlerRaises
  BY <1>5, <1>18 DEF HandlerRaises, InHandler
<1>19. CASE HandleException
  <2>1. worker.pc = "raised"
    BY <1>19 DEF HandleException
  <2>2. CASE SameJob /\ worker'.pc \in {"drop", "requeue"} /\ worker'.then = worker.then
    BY <2>1, <2>2, UpdateClaim
  <2>3. CASE MarkFailed(worker.ep, worker.class, "drop")
    BY <2>1, <2>3, MarkFailedClaim
  <2>4. QED
    BY <1>0, <1>19, <2>2, <2>3 DEF HandleException, SameJob, Worker
<1>20. CASE Requeue
  <2>1. worker.pc = "requeue" /\ Goto("drop")
    BY <1>20 DEF Requeue
  <2>2. QED
    BY <2>1, GotoClaim
<1>21. CASE Complete \/ FailJob \/ EpisodeVanished \/ Crash
  BY <1>1, <1>21 DEF Complete, FailJob, EpisodeVanished, Crash
<1>22. ASSUME NEW j \in JobId, Poll(j) PROVE ClaimHeld'
  <2>1. jobs[j] \in JobRow /\ jobs[j].ep \in Episode /\ jobs[j].task \in Task
        /\ Exists(jobs[j].ep)
    BY <1>22, PickedRow DEF Poll, Foremost, Ready, Inv, JobsOwned
  <2>2. worker' = [Idle EXCEPT !.pc = "begin", !.job = j, !.ep = jobs[j].ep,
                               !.task = jobs[j].task]
        /\ jobs' = [jobs EXCEPT ![j].status = "picked"] /\ UNCHANGED ep
    BY <1>22 DEF Poll, SetJob
  <2>3. /\ worker'.pc = "begin" /\ worker'.job = j /\ worker'.ep = jobs[j].ep
        /\ worker'.task = jobs[j].task /\ worker'.then = "idle"
    BY <2>2 DEF Idle
  <2>4. jobs'[j].ep = jobs[j].ep /\ jobs'[j].status = "picked"
    BY <2>1, <2>2 DEF Inv, TypeOK, JobRow
  <2>5. ep'[worker'.ep].status # "absent"
    BY <2>1, <2>2, <2>3 DEF Exists
  <2>6. QED
    BY <2>1, <2>3, <2>4, <2>5 DEF ClaimHeld
<1>23. ASSUME NEW j \in JobId, ReapZombie(j) PROVE ClaimHeld'
  <2>1. jobs[j].ep \in Episode
    BY <1>23, PickedRow DEF ReapZombie
  <2>2. worker' = [worker EXCEPT !.pc = "alert", !.ep = jobs[j].ep,
                                 !.class = "SYSTEM_ERROR", !.then = "idle"]
    BY <1>23 DEF ReapZombie, MarkFailed
  <2>3. worker'.pc = "alert" /\ worker'.ep = jobs[j].ep /\ worker'.then = "idle"
    BY <2>2 DEF Inv, TypeOK, Worker
  <2>4. QED
    BY <2>1, <2>3 DEF ClaimHeld
<1>24. CASE Handle
  BY <1>6, <1>7, <1>8, <1>9, <1>10, <1>11, <1>12, <1>13, <1>14, <1>15, <1>16, <1>17,
     <1>18, <1>19, <1>20, <1>21, <1>24 DEF Handle
<1>25. CASE Sweeps
  BY <1>2, <1>23, <1>25 DEF Sweeps, Prune, Sweep
<1>26. ASSUME NEW e \in Episode, Requests(e) PROVE ClaimHeld'
  BY <1>2, <1>26
     DEF Requests, IngestFeed, IngestByHand, RetryJob, EnqueueIngest, DeleteFiles,
         DeleteRow, RequestDies
<1>27. ASSUME NEW j \in JobId, RetryDue(j) PROVE ClaimHeld'
  BY <1>2, <1>27 DEF RetryDue
<1>28. QED
  BY <1>2, <1>21, <1>22, <1>24, <1>25, <1>26, <1>27 DEF vars, Next

LEMMA InvStep == Inv /\ [Next]_vars => Inv'
BY TypeStep, OwnedStep, ClaimStep DEF Inv

\* Every behaviour is type-correct.
THEOREM TypeCorrect == Spec => []TypeOK
<1>1. Spec => []Inv
  BY InitInv, InvStep, PTL DEF Spec
<1>2. Inv => TypeOK
  BY DEF Inv
<1>3. QED
  BY <1>1, <1>2, PTL
=============================================================================
