--------------------------- MODULE PipelineChains ---------------------------
(***************************************************************************)
(* The jobs of an episode as chains: who will take it on, how many chains  *)
(* of jobs it has, what they find when they run, and the lifecycle they    *)
(* carry it through.  A step of the system is seen here from one episode:  *)
(* its row, its open jobs, its request, and the worker if it is on it.     *)
(***************************************************************************)
EXTENDS PipelineSafety, FiniteSetTheorems

USE DEF Holding, Sweeping

-----------------------------------------------------------------------------
(* The open jobs of an episode.                                            *)

OpenJobs(e) == PendingJobs(e) \cup PickedJobs(e)

SameTasks(e) ==
    \A j \in OpenJobs(e) : jobs'[j].task = jobs[j].task /\ (jobs[j].due => jobs'[j].due)

SameQueue(e) ==
    PendingJobs(e)' = PendingJobs(e) /\ PickedJobs(e)' = PickedJobs(e) /\ SameTasks(e)

\* One more pending job, the newest of all.
Added(e, t, due) ==
    /\ PendingJobs(e)' = PendingJobs(e) \cup {lastId'}
    /\ PickedJobs(e)' = PickedJobs(e)
    /\ lastId' \in JobId /\ \A j \in OpenJobs(e) : j < lastId'
    /\ jobs'[lastId'].task = t /\ jobs'[lastId'].due = due
    /\ SameTasks(e)

Claimed(e, j) ==
    /\ j \in PendingJobs(e)
    /\ PendingJobs(e)' = PendingJobs(e) \ {j}
    /\ PickedJobs(e)' = PickedJobs(e) \cup {j}
    /\ SameTasks(e)

Closed(e, j) ==
    /\ j \in PickedJobs(e)
    /\ PendingJobs(e)' = PendingJobs(e)
    /\ PickedJobs(e)' = PickedJobs(e) \ {j}
    /\ SameTasks(e)

LEMMA Queued == Inv => JobsType /\ JobsOwned /\ lastId \in Nat
BY DEF Inv, TypeOK, JobsType

\* A job with an episode has an id the sequence has handed out.
LEMMA OldIds ==
    ASSUME Inv, NEW j \in JobId, jobs[j].ep \in Episode
    PROVE  j <= lastId
<1>1. jobs[j] # NoJob
  BY NoJobTyped
<1>2. QED
  BY <1>1, Queued DEF JobsOwned, JobId

LEMMA EnqueueAdds ==
    ASSUME Inv, NEW x \in Episode, NEW t \in Task, NEW d \in BOOLEAN, Enqueue(x, t, d),
           NEW e \in Episode
    PROVE  IF e = x THEN Added(e, t, d) ELSE SameQueue(e)
<1> USE DEF JobId
<1>1. /\ \A j \in JobId : j # lastId' => jobs'[j] = jobs[j]
      /\ lastId' \in JobId
      /\ jobs'[lastId'] = [ep |-> x, task |-> t, status |-> "pending", due |-> d]
  BY Queued, TypeEnqueue DEF JobsType
<1>2. lastId' = lastId + 1 /\ lastId \in Nat
  BY Queued DEF Enqueue
<1>3. \A j \in JobsOf(e) : j \in JobId /\ j < lastId' /\ jobs'[j] = jobs[j]
  BY <1>1, <1>2, OldIds DEF JobsOf
<1>4. /\ jobs'[lastId'].ep = x /\ jobs'[lastId'].status = "pending"
      /\ jobs'[lastId'].task = t /\ jobs'[lastId'].due = d
  BY <1>1
<1>5. \A j \in JobId : j # lastId' => (j \in JobsOf(e)' <=> j \in JobsOf(e))
  BY <1>1 DEF JobsOf
<1>6. SameTasks(e)
  BY <1>3 DEF SameTasks, OpenJobs, PendingJobs, PickedJobs
<1>7. PickedJobs(e)' = PickedJobs(e)
  BY <1>1, <1>3, <1>4, <1>5 DEF PickedJobs, JobsOf
<1>8. PendingJobs(e)' = IF e = x THEN PendingJobs(e) \cup {lastId'} ELSE PendingJobs(e)
  BY <1>1, <1>3, <1>4, <1>5 DEF PendingJobs, JobsOf
<1>9. \A j \in OpenJobs(e) : j < lastId'
  BY <1>3 DEF OpenJobs, PendingJobs, PickedJobs
<1>10. QED
  BY <1>1, <1>4, <1>6, <1>7, <1>8, <1>9 DEF Added, SameQueue

\* The status of one row changes, to one that is not "pending".
LEMMA SetJobMoves ==
    ASSUME Inv, NEW j \in JobId, NEW s, SetJob(j, s), s # "pending", jobs[j].ep \in Episode,
           NEW e \in Episode
    PROVE  /\ PendingJobs(e)' = PendingJobs(e) \ {j}
           /\ PickedJobs(e)' = IF s = "picked" /\ jobs[j].ep = e THEN PickedJobs(e) \cup {j}
                                                 ELSE PickedJobs(e) \ {j}
           /\ SameTasks(e)
<1>1. jobs[j] \in JobRow /\ \A k \in JobId : k # j => jobs'[k] = jobs[k]
  BY Queued, NoJobTyped DEF SetJob, JobsType
<1>2. /\ jobs'[j].ep = jobs[j].ep /\ jobs'[j].status = s
      /\ jobs'[j].task = jobs[j].task /\ jobs'[j].due = jobs[j].due
  BY <1>1, Queued DEF SetJob, JobsType, JobRow
<1>3. SameTasks(e)
  BY <1>1, <1>2 DEF SameTasks, OpenJobs, PendingJobs, PickedJobs, JobsOf
<1>4. PendingJobs(e)' = PendingJobs(e) \ {j}
  BY <1>1, <1>2 DEF PendingJobs, JobsOf
<1>5. PickedJobs(e)' = IF s = "picked" /\ jobs[j].ep = e THEN PickedJobs(e) \cup {j}
                       ELSE PickedJobs(e) \ {j}
  BY <1>1, <1>2 DEF PickedJobs, JobsOf
<1>6. QED
  BY <1>3, <1>4, <1>5

\* A step that leaves the episode and the status of its open rows.
LEMMA KeptQueue ==
    ASSUME NEW e \in Episode,
           \A j \in JobId :
              \/ jobs'[j].ep = jobs[j].ep /\ jobs'[j].status = jobs[j].status
                 /\ jobs'[j].task = jobs[j].task /\ (jobs[j].due => jobs'[j].due)
              \/ jobs'[j].status \notin {"pending", "picked"}
                 /\ (jobs[j].status \notin {"pending", "picked"} \/ jobs[j].ep # e)
    PROVE  SameQueue(e)
BY DEF SameQueue, SameTasks, OpenJobs, PendingJobs, PickedJobs, JobsOf

-----------------------------------------------------------------------------
(* One step, seen from one episode.                                        *)

\* The worker holds a job of e.
OnIt(e) == Holding /\ worker.ep = e

\* The worker goes on with the job it holds.
To(pc) ==
    /\ worker'.pc = pc /\ worker'.then = "idle"
    /\ worker'.ep = worker.ep /\ worker'.task = worker.task /\ worker'.job = worker.job

SameRow(e) == ep'[e] = ep[e]
Wrote(e, status) == ep'[e] = [ep[e] EXCEPT !.status = status]

\* What a handler commits between two of its places, per place.
FromBegin(e) ==
    /\ worker.pc = "begin"
    /\ \/ /\ worker.task # "diarize" /\ To("work") /\ Wrote(e, StatusOf[worker.task])
          /\ worker.task = "transcribe" =>
                ep[e].audio # "none" /\ ep[e].status \notin AlreadyTranscribed
          /\ worker.task = "infer" => ep[e].diar
       \/ worker.task = "diarize" /\ ep[e].audio # "none" /\ To("work") /\ SameRow(e)
       \/ /\ worker.task = "transcribe" /\ ep[e].status \in AlreadyTranscribed
          /\ To("finish") /\ SameRow(e)
       \/ worker.task = "infer" /\ To("handoff") /\ SameRow(e)

FromWork(e) ==
    /\ worker.pc = "work"
    /\ \/ worker.task \in {"download", "archive"} /\ To("file") /\ SameRow(e)
       \/ /\ worker.task = "transcribe" /\ To("handoff")
          /\ ep'[e] = [ep[e] EXCEPT !.status = "diarizing", !.segs = TRUE]
       \/ /\ worker.task = "transcribe" /\ To("finish")
          /\ ep'[e] = [ep[e] EXCEPT !.status = "no_speech", !.segs = FALSE, !.err = "NO_SPEECH"]
       \/ /\ worker.task = "diarize" /\ To("handoff")
          /\ \E ok \in BOOLEAN : ep'[e] = [ep[e] EXCEPT !.diar = ok]
       \/ worker.task \in {"chunk", "embed", "infer"} /\ To("handoff") /\ SameRow(e)

FromFile(e) ==
    /\ worker.pc = "file"
    /\ \/ /\ worker.task = "download" /\ To("handoff")
          /\ ep'[e] = [ep[e] EXCEPT !.audio = "raw"]
       \/ /\ worker.task = "archive" /\ ep[e].segs /\ To("verify")
          /\ \E a \in AudioPath : ep'[e] = [ep[e] EXCEPT !.status = "done", !.audio = a]
       \/ /\ worker.task = "archive" /\ ~ep[e].segs /\ To("finish")
          /\ ep'[e] = [ep[e] EXCEPT !.status = "no_speech", !.err = "NO_SPEECH"]

\* mark_failed: from a handler, or for an exception with no retry left.
Fails(e) ==
    /\ worker.pc \in {"begin", "work", "file", "raised"}
    /\ worker.pc \in {"begin", "work", "file"} => worker.task \in {"download", "archive"}
    /\ \E c : ep'[e] = [ep[e] EXCEPT !.status = "failed", !.err = c]
    /\ worker'.pc = "alert" /\ worker'.then # "idle"
    /\ worker'.ep = worker.ep /\ worker'.task = worker.task /\ worker'.job = worker.job

FromRaised(e) ==
    /\ worker.pc = "raised"
    /\ \/ ep[e].status = "failed" /\ To("drop") /\ SameRow(e)
       \/ /\ ep[e].status # "failed" /\ ep[e].retries < RetryMax /\ To("requeue")
          /\ \E c : ep'[e] = [ep[e] EXCEPT !.status = "pending", !.retries = @ + 1, !.err = c]

\* The job is handed on, given up or closed, or the failure announced.
Passes(e) ==
    /\ SameRow(e)
    /\ \/ /\ worker.pc = "handoff" /\ worker.task # "archive" /\ To("finish")
          /\ Added(e, NextTask[worker.task], TRUE)
       \/ worker.pc = "requeue" /\ To("drop") /\ Added(e, worker.task, FALSE)
       \/ worker.pc \in {"finish", "drop"} /\ worker' = Idle /\ Closed(e, worker.job)
       \/ /\ SameQueue(e)
          /\ \/ worker.pc = "alert" /\ worker'.pc \in {"finish", "drop"} /\ To(worker'.pc)
             \/ /\ worker.task = "archive" /\ worker.pc = "verify" /\ To("finish")
                /\ ep[e].status = "done"
             \/ worker.pc \in InHandler /\ To("raised")

WorkStep(e) ==
    /\ OnIt(e) /\ Exists(e)
    /\ \/ FromBegin(e) /\ SameQueue(e)
       \/ FromWork(e) /\ SameQueue(e)
       \/ FromFile(e) /\ SameQueue(e)
       \/ FromRaised(e) /\ SameQueue(e)
       \/ Fails(e) /\ SameQueue(e)
       \/ Passes(e)
    /\ UNCHANGED <<api, budget>>

\* The other steps that concern e.
Polled(e, j) ==
    /\ worker.pc = "idle" /\ Foremost(j) /\ Claimed(e, j) /\ SameRow(e)
    /\ worker' = [Idle EXCEPT !.pc = "begin", !.job = j, !.ep = e, !.task = jobs[j].task]
    /\ UNCHANGED <<api, budget>>
WorkerDies(e) ==
    /\ OnIt(e) /\ worker' = Idle /\ SameRow(e) /\ SameQueue(e)
    /\ crashes' = crashes + 1 /\ UNCHANGED <<api, manual>>
Reaped(e, j) ==
    /\ worker.pc = "idle" /\ worker'.pc = "alert" /\ worker'.then = "idle"
    /\ Closed(e, j) /\ Exists(e)
    /\ \E c : ep'[e] = [ep[e] EXCEPT !.status = "failed", !.err = c]
    /\ UNCHANGED <<api, budget>>
Swept(e) ==
    /\ Stranded(e) /\ worker.pc = "idle" /\ Wrote(e, "pending")
    /\ \E t \in Task : StatusOf[t] = ep[e].status /\ Added(e, t, TRUE)
    /\ UNCHANGED <<worker, api, budget>>
Fed(e) ==
    /\ ep[e].status = "absent" /\ ep'[e] = NewRow("feed") /\ Added(e, "download", TRUE)
    /\ UNCHANGED <<worker, api, budget>>
Submitted(e, kind) ==
    /\ ep[e].status = "absent" /\ ep'[e] = NewRow(kind) /\ SameQueue(e)
    /\ api' = [api EXCEPT ![e] = "enqueue"] /\ UNCHANGED <<worker, budget>>
Retried(e) ==
    /\ api[e] = "none" /\ Exists(e) /\ SameQueue(e)
    /\ ep'[e] = [ep[e] EXCEPT !.status = "pending", !.err = "none", !.retries = 0, !.diar = FALSE]
    /\ api' = [api EXCEPT ![e] = "enqueue"]
    /\ manual < MaxManual /\ manual' = manual + 1 /\ UNCHANGED <<worker, crashes>>
Ingested(e) ==
    /\ api[e] = "enqueue" /\ Exists(e) /\ SameRow(e)
    /\ \E t \in {"download", "transcribe"} :
          Added(e, t, TRUE) /\ (t = "transcribe" => ep[e].kind = "upload")
    /\ api' = [api EXCEPT ![e] = "none"] /\ UNCHANGED <<worker, budget>>
Deleting(e) ==
    /\ api[e] = "none" /\ Exists(e) /\ SameRow(e) /\ SameQueue(e)
    /\ api' = [api EXCEPT ![e] = "delete"] /\ UNCHANGED <<worker, budget>>
Deleted(e) ==
    /\ api[e] = "delete" /\ ep'[e] = NoRow("deleted")
    /\ PendingJobs(e)' = {} /\ PickedJobs(e)' = {}
    /\ api' = [api EXCEPT ![e] = "none"] /\ UNCHANGED <<worker, budget>>
Abandoned(e) ==
    /\ api[e] # "none" /\ SameRow(e) /\ SameQueue(e)
    /\ api' = [api EXCEPT ![e] = "none"] /\ crashes' = crashes + 1 /\ UNCHANGED <<worker, manual>>

\* A step that does not concern e.
Away(e) ==
    /\ SameRow(e) /\ SameQueue(e) /\ api'[e] = api[e]
    /\ worker' = worker \/ (~OnIt(e) /\ ~OnIt(e)')
    /\ crashes' >= crashes /\ manual' >= manual
\* The worker has not noticed yet that e is gone.
Vanished(e) ==
    /\ OnIt(e) /\ ~Exists(e) /\ ~Exists(e)' /\ SameQueue(e)
    /\ SameRow(e) /\ UNCHANGED <<api, budget>>
    /\ worker' = Idle \/ (worker'.ep = e /\ worker'.job = worker.job)

RequestStep(e) ==
    \/ Fed(e) \/ \E k \in {"url", "upload"} : Submitted(e, k)
    \/ Retried(e) \/ Ingested(e) \/ Deleting(e) \/ Deleted(e) \/ Abandoned(e)

SeenFrom(e) ==
    \/ Away(e) \/ Vanished(e)
    \/ WorkStep(e)
    \/ \E j \in JobId : Polled(e, j) \/ Reaped(e, j)
    \/ WorkerDies(e) \/ Swept(e)
    \/ RequestStep(e)

LEMMA ToOf ==
    ASSUME worker \in Worker, worker.pc \notin {"alert", "idle"}, worker.then = "idle",
           NEW pc, Goto(pc)
    PROVE  To(pc)
BY DEF Goto, To, Worker

LEMMA RaiseTo ==
    ASSUME worker \in Worker, worker.then = "idle", NEW c, Raise(c)
    PROVE  To("raised")
BY DEF Raise, To, Worker

LEMMA Quiet ==
    ASSUME UNCHANGED jobs, NEW e
    PROVE  SameQueue(e)
BY DEF SameQueue, SameTasks, PendingJobs, PickedJobs, JobsOf

LEMMA MarkFailedFails ==
    ASSUME Inv, NEW e \in Episode, worker.ep = e, NEW c, NEW t, t # "idle",
           MarkFailed(e, c, t),
           worker.pc \in {"begin", "work", "file", "raised"},
           worker.pc # "raised" => worker.task \in {"download", "archive"}
    PROVE  Fails(e)
<1>1. worker \in Worker /\ EpType
  BY DEF Inv, TypeOK, EpType
<1>2. ep'[e] = [ep[e] EXCEPT !.status = "failed", !.err = c]
  BY <1>1 DEF MarkFailed, EpType
<1>3. /\ worker'.pc = "alert" /\ worker'.then = t /\ worker'.ep = e
      /\ worker'.task = worker.task /\ worker'.job = worker.job
  BY <1>1 DEF MarkFailed, Worker
<1>4. QED
  BY <1>2, <1>3 DEF Fails

\* A step of a handler on an episode that exists.
LEMMA HandleHere ==
    ASSUME Inv, Handle, NEW e \in Episode, OnIt(e), Exists(e)
    PROVE  WorkStep(e)
<1> worker \in Worker /\ EpType /\ worker.ep = e /\ Here = ep[e]
  BY DEF Inv, TypeOK, EpType, OnIt, Here
<1>1. worker.pc # "alert" => worker.then = "idle"
  BY DEF Inv, ClaimHeld
<1>2. worker.job \in JobId /\ worker.task \in Task
  BY DEF Inv, ClaimHeld, OnIt
<1> DEFINE Calm == UNCHANGED <<jobs, api, budget>>
<1>3. ASSUME Calm, FromBegin(e) \/ FromWork(e) \/ FromFile(e) \/ FromRaised(e) \/ Fails(e)
      PROVE  WorkStep(e)
  <2>1. SameQueue(e)
    BY <1>3, Quiet
  <2>2. QED
    BY <1>3, <2>1 DEF WorkStep
<1>4. ASSUME NEW pc, Goto(pc), worker.pc \notin {"alert", "idle"} PROVE To(pc)
  BY <1>1, <1>4, ToOf
<1>5. ASSUME NEW c, Raise(c), worker.pc \in InHandler, Calm, SameRow(e) PROVE WorkStep(e)
  <2>1. To("raised") /\ SameQueue(e)
    BY <1>1, <1>5, RaiseTo, Quiet DEF InHandler
  <2>2. QED
    BY <1>5, <2>1 DEF WorkStep, Passes
<1>6. CASE BeginDownload
  <2>1. worker.task = "download" /\ worker.pc = "begin" /\ Calm
    BY <1>6 DEF BeginDownload, At
  <2>2. CASE MarkFailed(e, "MANUAL_UPLOAD_FILE_MISSING", "finish")
    BY <1>3, <2>1, <2>2, MarkFailedFails
  <2>3. CASE ep' = [ep EXCEPT ![e].status = "downloading"] /\ Goto("work")
    <3>1. Wrote(e, StatusOf[worker.task])
      BY <2>1, <2>3 DEF EpType, Wrote, StatusOf
    <3>2. FromBegin(e)
      BY <1>4, <2>1, <2>3, <3>1 DEF FromBegin
    <3>3. QED
      BY <1>3, <2>1, <3>2
  <2>4. QED
    BY <1>6, <2>2, <2>3 DEF BeginDownload
<1>7. CASE OpenFile
  BY <1>3, <1>4, <1>7 DEF OpenFile, FromWork, SameRow
<1>8. CASE DownloadDiskFull
  BY <1>3, <1>8, MarkFailedFails DEF DownloadDiskFull, At
<1>9. CASE SaveDownload
  <2>1. ep'[e] = [ep[e] EXCEPT !.audio = "raw"]
    BY <1>9 DEF SaveDownload, EpType
  <2>2. QED
    BY <1>3, <1>4, <1>9, <2>1 DEF SaveDownload, At, FromFile
<1>10. CASE BeginTranscribe
  <2>1. worker.task = "transcribe" /\ worker.pc = "begin" /\ Calm
    BY <1>10 DEF BeginTranscribe, At
  <2>2. CASE Raise("SYSTEM_ERROR") /\ UNCHANGED ep
    BY <1>5, <2>1, <2>2 DEF InHandler, SameRow
  <2>3. CASE ep[e].status \in AlreadyTranscribed /\ Goto("finish") /\ UNCHANGED ep
    BY <1>3, <1>4, <2>1, <2>3 DEF FromBegin, SameRow
  <2>4. CASE /\ ep[e].audio # "none" /\ ep[e].status \notin AlreadyTranscribed
             /\ ep' = [ep EXCEPT ![e].status = "transcribing"] /\ Goto("work")
    <3>1. Wrote(e, StatusOf[worker.task])
      BY <2>1, <2>4 DEF EpType, Wrote, StatusOf
    <3>2. FromBegin(e)
      BY <1>4, <2>1, <2>4, <3>1 DEF FromBegin
    <3>3. QED
      BY <1>3, <2>1, <3>2
  <2>5. QED
    BY <1>10, <2>2, <2>3, <2>4 DEF BeginTranscribe
<1>11. CASE Transcribe
  <2>1. worker.task = "transcribe" /\ worker.pc = "work" /\ Calm
    BY <1>11 DEF Transcribe, At
  <2>2. CASE /\ ep' = [ep EXCEPT ![e].status = "diarizing", ![e].segs = TRUE]
             /\ Goto("handoff")
    <3>1. ep'[e] = [ep[e] EXCEPT !.status = "diarizing", !.segs = TRUE]
      BY <2>2 DEF EpType
    <3>2. QED
      BY <1>3, <1>4, <2>1, <2>2, <3>1 DEF FromWork
  <2>3. CASE /\ ep' = [ep EXCEPT ![e].status = "no_speech", ![e].segs = FALSE,
                                 ![e].err = "NO_SPEECH"]
             /\ Goto("finish")
    <3>1. ep'[e] = [ep[e] EXCEPT !.status = "no_speech", !.segs = FALSE, !.err = "NO_SPEECH"]
      BY <2>3 DEF EpType
    <3>2. QED
      BY <1>3, <1>4, <2>1, <2>3, <3>1 DEF FromWork
  <2>4. QED
    BY <1>11, <2>2, <2>3 DEF Transcribe
<1>12. CASE BeginDiarize
  <2>1. worker.task = "diarize" /\ worker.pc = "begin" /\ Calm /\ SameRow(e)
    BY <1>12 DEF BeginDiarize, At, SameRow
  <2>2. QED
    BY <1>3, <1>4, <1>5, <1>12, <2>1 DEF BeginDiarize, FromBegin, InHandler
<1>13. CASE Diarize
  <2>1. PICK ok \in BOOLEAN : ep' = [ep EXCEPT ![e].diar = ok]
    BY <1>13 DEF Diarize
  <2>2. ep'[e] = [ep[e] EXCEPT !.diar = ok]
    BY <2>1 DEF EpType
  <2>3. QED
    BY <1>3, <1>4, <1>13, <2>2 DEF Diarize, At, FromWork
<1>14. CASE BeginStage
  <2>1. worker.task \in {"chunk", "embed", "infer", "archive"} /\ worker.pc = "begin" /\ Calm
    BY <1>14 DEF BeginStage, At
  <2>2. CASE worker.task = "infer" /\ Goto("handoff") /\ UNCHANGED ep
    BY <1>3, <1>4, <2>1, <2>2 DEF FromBegin, SameRow
  <2>3. CASE /\ worker.task = "infer" => ep[e].diar
             /\ ep' = [ep EXCEPT ![e].status = StatusOf[worker.task]]
             /\ worker' = [worker EXCEPT !.pc = "work",
                             !.src = IF worker.task = "archive" THEN Here.audio ELSE "none"]
    <3>1. Wrote(e, StatusOf[worker.task])
      BY <2>3 DEF EpType, Wrote
    <3>2. To("work")
      BY <1>1, <2>1, <2>3 DEF To, Worker
    <3>3. FromBegin(e)
      BY <2>1, <2>3, <3>1, <3>2 DEF FromBegin
    <3>4. QED
      BY <1>3, <2>1, <3>3
  <2>4. QED
    BY <1>14, <2>2, <2>3 DEF BeginStage
<1>15. CASE StageWork
  BY <1>3, <1>4, <1>15 DEF StageWork, At, FromWork, SameRow
<1>16. CASE Compress
  <2>1. worker.task = "archive" /\ worker.pc = "work" /\ Calm /\ SameRow(e)
    BY <1>16 DEF Compress, SameRow
  <2>2. To("file")
    BY <1>1, <1>16, <2>1 DEF Compress, To, Worker
  <2>3. QED
    BY <1>3, <2>1, <2>2 DEF FromWork
<1>17. CASE ArchiveDiskFull
  BY <1>3, <1>17, MarkFailedFails DEF ArchiveDiskFull, At
<1>18. CASE CommitDone
  <2> DEFINE a == IF worker.kept THEN "archive" ELSE "none"
  <2>1. worker.task = "archive" /\ worker.pc = "file" /\ Calm /\ a \in AudioPath
    BY <1>18 DEF CommitDone, At, AudioPath
  <2> HIDE DEF a
  <2>2. CASE /\ ep[e].segs /\ Goto("verify")
             /\ ep' = [ep EXCEPT ![e].status = "done", ![e].audio = a]
    <3>1. ep'[e] = [ep[e] EXCEPT !.status = "done", !.audio = a]
      BY <2>2 DEF EpType
    <3>2. QED
      BY <1>3, <1>4, <2>1, <2>2, <3>1 DEF FromFile
  <2>3. CASE /\ ~ep[e].segs /\ Goto("finish")
             /\ ep' = [ep EXCEPT ![e].status = "no_speech", ![e].err = "NO_SPEECH"]
    <3>1. ep'[e] = [ep[e] EXCEPT !.status = "no_speech", !.err = "NO_SPEECH"]
      BY <2>3 DEF EpType
    <3>2. QED
      BY <1>3, <1>4, <2>1, <2>3, <3>1 DEF FromFile
  <2>4. QED
    BY <1>18, <2>2, <2>3 DEF CommitDone, a
<1>19. CASE VerifyAndUnlink
  <2>1. worker.task = "archive" /\ worker.pc = "verify" /\ Calm /\ SameRow(e) /\ SameQueue(e)
    BY <1>19, Quiet DEF VerifyAndUnlink, At, SameRow
  <2>2. CASE ep[e].status = "done" /\ Goto("finish")
    BY <1>4, <2>1, <2>2 DEF WorkStep, Passes
  <2>3. CASE Raise("SYSTEM_ERROR")
    BY <1>5, <2>1, <2>3 DEF InHandler
  <2>4. QED
    BY <1>19, <2>2, <2>3 DEF VerifyAndUnlink
<1>20. CASE Handoff
  <2>1. worker.task # "archive" /\ worker.pc = "handoff"
    BY <1>20 DEF Handoff, Inv, ClaimHeld
  <2>2. NextTask[worker.task] \in Task
    BY <1>2, <2>1 DEF NextTask, Task
  <2>3. Added(e, NextTask[worker.task], TRUE)
    BY <1>20, <2>2, EnqueueAdds DEF Handoff
  <2>4. QED
    BY <1>4, <1>20, <2>1, <2>3 DEF Handoff, WorkStep, Passes, SameRow
<1>21. CASE Requeue
  <2>1. Added(e, worker.task, FALSE)
    BY <1>2, <1>21, EnqueueAdds DEF Requeue
  <2>2. QED
    BY <1>4, <1>21, <2>1 DEF Requeue, WorkStep, Passes, SameRow
<1>22. CASE Complete \/ FailJob
  <2>1. worker.job \in PickedJobs(e) /\ jobs[worker.job].ep = e
    BY <1>2 DEF Inv, ClaimHeld, OnIt, PickedJobs, JobsOf
  <2>2. \E s \in {"done", "failed"} : SetJob(worker.job, s)
    BY <1>22 DEF Complete, FailJob
  <2>3. Closed(e, worker.job)
    <3>1. worker.job \notin PendingJobs(e)
      BY <2>1 DEF PickedJobs, PendingJobs
    <3>2. QED
      BY <1>2, <2>1, <2>2, <3>1, SetJobMoves DEF Closed
  <2>4. QED
    BY <1>22, <2>3 DEF Complete, FailJob, WorkStep, Passes, SameRow
<1>23. CASE Announce
  <2>1. worker.pc = "alert" /\ worker.then # "idle" /\ Calm /\ SameRow(e) /\ SameQueue(e)
    BY <1>23, Quiet DEF Announce, OnIt, SameRow
  <2>2. worker' = [worker EXCEPT !.pc = worker.then, !.class = "none", !.then = "idle"]
    BY <1>23, <2>1 DEF Announce
  <2>3. worker'.pc \in {"finish", "drop"} /\ To(worker'.pc)
    BY <2>1, <2>2 DEF To, Worker
  <2>4. QED
    BY <2>1, <2>3 DEF WorkStep, Passes
<1>24. CASE HandlerRaises
  BY <1>5, <1>24 DEF HandlerRaises, SameRow
<1>25. CASE HandleException
  <2>1. worker.pc = "raised" /\ Calm
    BY <1>25 DEF HandleException
  <2>2. CASE /\ ep[e].status = "failed" /\ UNCHANGED ep
             /\ worker' = [worker EXCEPT !.pc = "drop", !.class = "none"]
    <3>1. To("drop")
      BY <1>1, <2>1, <2>2 DEF To, Worker
    <3>2. QED
      BY <1>3, <2>1, <2>2, <3>1 DEF FromRaised, SameRow
  <2>3. CASE /\ ep[e].status # "failed" /\ RetriesLeft(worker.class)
             /\ ep' = [ep EXCEPT ![e].status = "pending", ![e].retries = @ + 1,
                                 ![e].err = worker.class]
             /\ worker' = [worker EXCEPT !.pc = "requeue", !.class = "none"]
    <3>1. To("requeue")
      BY <1>1, <2>1, <2>3 DEF To, Worker
    <3>2. ep'[e] = [ep[e] EXCEPT !.status = "pending", !.retries = @ + 1, !.err = worker.class]
      BY <2>3 DEF EpType
    <3>3. QED
      BY <1>3, <2>1, <2>3, <3>1, <3>2 DEF FromRaised, RetriesLeft
  <2>4. CASE MarkFailed(e, worker.class, "drop")
    BY <1>3, <2>1, <2>4, MarkFailedFails
  <2>5. QED
    BY <1>25, <2>2, <2>3, <2>4 DEF HandleException
<1>26. CASE EpisodeVanished
  BY <1>26 DEF EpisodeVanished
<1>27. QED
  BY <1>6, <1>7, <1>8, <1>9, <1>10, <1>11, <1>12, <1>13, <1>14, <1>15, <1>16, <1>17,
     <1>18, <1>19, <1>20, <1>21, <1>22, <1>23, <1>24, <1>25, <1>26 DEF Handle

\* A step of a handler on another episode, or on one that is gone.
LEMMA HandleElsewhere ==
    ASSUME Inv, Handle, NEW e \in Episode, ~(OnIt(e) /\ Exists(e))
    PROVE  Away(e) \/ Vanished(e)
<1> worker \in Worker /\ EpType /\ crashes \in Nat /\ manual \in Nat
  BY DEF Inv, TypeOK, EpType
<1>1. UNCHANGED <<api, budget>>
  BY DEF Handle, BeginDownload, OpenFile, DownloadDiskFull, SaveDownload, BeginTranscribe,
         Transcribe, BeginDiarize, Diarize, BeginStage, StageWork, Compress,
         ArchiveDiskFull, CommitDone, VerifyAndUnlink, Handoff, Complete, Announce,
         HandlerRaises, HandleException, Requeue, FailJob, EpisodeVanished
<1>2. worker' = Idle \/ Keeps
  BY HandlerKeeps
<1>7. Holding => worker' = Idle \/ worker'.ep = worker.ep
  BY DEF Handle, At, Goto, Raise, MarkFailed, Worker, BeginDownload, OpenFile,
         DownloadDiskFull, SaveDownload, BeginTranscribe, Transcribe, BeginDiarize,
         Diarize, BeginStage, StageWork, Compress, ArchiveDiskFull, CommitDone,
         VerifyAndUnlink, Handoff, Complete, Announce, HandlerRaises, HandleException,
         Requeue, FailJob, EpisodeVanished
<1>3. CASE OnIt(e)
  <2>1. worker.ep = e /\ ~Exists(e)
    BY <1>3 DEF OnIt
  <2>2. UNCHANGED <<jobs, ep>>
    BY <2>1
       DEF Handle, At, BeginDownload, OpenFile, DownloadDiskFull, SaveDownload,
           BeginTranscribe, Transcribe, BeginDiarize, Diarize, BeginStage, StageWork,
           Compress, ArchiveDiskFull, CommitDone, VerifyAndUnlink, Handoff, Complete,
           Announce, HandlerRaises, HandleException, Requeue, FailJob, EpisodeVanished
  <2>3. SameQueue(e) /\ SameRow(e) /\ ~Exists(e)'
    BY <2>1, <2>2, Quiet DEF SameRow, Exists
  <2>4. worker' = Idle \/ (worker'.ep = e /\ worker'.job = worker.job)
    BY <1>2, <1>3, <1>7, <2>1 DEF Keeps, OnIt
  <2>5. QED
    BY <1>1, <1>3, <2>1, <2>3, <2>4 DEF Vanished
<1>4. CASE ~OnIt(e) /\ Holding
  <2>1. worker.ep # e /\ worker.ep \in Episode /\ worker.task \in Task /\ worker.job \in JobId
    BY <1>4 DEF OnIt, Inv, ClaimHeld
  <2>2. SameRow(e)
    BY <2>1
       DEF Handle, SameRow, EpType, MarkFailed, BeginDownload, OpenFile, DownloadDiskFull,
           SaveDownload, BeginTranscribe, Transcribe, BeginDiarize, Diarize, BeginStage,
           StageWork, Compress, ArchiveDiskFull, CommitDone, VerifyAndUnlink, Handoff,
           Complete, Announce, HandlerRaises, HandleException, Requeue, FailJob,
           EpisodeVanished
  <2>3. worker' = Idle \/ worker'.ep = worker.ep
    BY <1>4, <1>7
  <2>4. SameQueue(e)
    <3>1. CASE Handoff \/ Requeue
      <4>1. \E t \in Task, d \in BOOLEAN : Enqueue(worker.ep, t, d)
        <5>1. Handoff => NextTask[worker.task] \in Task
          BY <2>1 DEF Handoff, Inv, ClaimHeld, NextTask, Task
        <5>2. QED
          BY <2>1, <3>1, <5>1 DEF Handoff, Requeue
      <4>2. QED
        BY <2>1, <4>1, EnqueueAdds
    <3>2. CASE Complete \/ FailJob
      <4>1. \E s \in {"done", "failed"} : SetJob(worker.job, s)
        BY <3>2 DEF Complete, FailJob
      <4>2. jobs[worker.job].ep = worker.ep
        BY <1>4, <3>2 DEF Complete, FailJob, Inv, ClaimHeld
      <4>3. worker.job \notin PendingJobs(e) /\ worker.job \notin PickedJobs(e)
        BY <2>1, <4>2 DEF PendingJobs, PickedJobs, JobsOf
      <4>4. QED
        BY <2>1, <4>1, <4>2, <4>3, SetJobMoves DEF SameQueue
    <3>3. CASE UNCHANGED jobs
      BY <3>3, Quiet
    <3>4. QED
      BY <3>1, <3>2, <3>3
         DEF Handle, BeginDownload, DownloadDiskFull, OpenFile, SaveDownload,
             BeginTranscribe, Transcribe, BeginDiarize, Diarize, BeginStage, StageWork,
             Compress, ArchiveDiskFull, CommitDone, VerifyAndUnlink, Announce,
             HandlerRaises, HandleException, EpisodeVanished
  <2>5. ~OnIt(e)'
    BY <2>1, <2>3 DEF OnIt, Idle
  <2>6. QED
    BY <1>1, <1>4, <2>2, <2>4, <2>5 DEF Away, budget
<1>5. CASE ~Holding
  <2>1. Announce \/ EpisodeVanished
    BY <1>5
       DEF Handle, At, InHandler, BeginDownload, OpenFile, DownloadDiskFull, SaveDownload,
           BeginTranscribe, Transcribe, BeginDiarize, Diarize, BeginStage, StageWork,
           Compress, ArchiveDiskFull, CommitDone, VerifyAndUnlink, Handoff, Complete,
           HandlerRaises, HandleException, Requeue, FailJob
  <2>2. worker' = Idle /\ UNCHANGED <<jobs, ep>>
    BY <1>5, <2>1 DEF Announce, EpisodeVanished
  <2>3. SameQueue(e) /\ SameRow(e) /\ ~OnIt(e)'
    BY <2>2, Quiet DEF SameRow, OnIt, Idle
  <2>4. QED
    BY <1>1, <1>5, <2>3 DEF Away, OnIt, budget
<1>6. QED
  BY <1>3, <1>4, <1>5

\* The zombie sweep on one row, and the stranded sweep on one episode.
LEMMA ReapSeen ==
    ASSUME Inv, NEW j \in JobId, ReapZombie(j), NEW e \in Episode
    PROVE  IF e = jobs[j].ep THEN Reaped(e, j) ELSE Away(e)
<1> worker \in Worker /\ EpType /\ crashes \in Nat /\ manual \in Nat
  BY DEF Inv, TypeOK, EpType
<1>1. jobs[j].ep \in Episode /\ Exists(jobs[j].ep) /\ jobs[j].status = "picked"
  BY PickedRow DEF ReapZombie, Inv, JobsOwned
<1>2. /\ worker.pc = "idle" /\ UNCHANGED <<api, budget>> /\ SetJob(j, "failed")
      /\ ep' = [ep EXCEPT ![jobs[j].ep].status = "failed",
                          ![jobs[j].ep].err = "SYSTEM_ERROR"]
  BY DEF ReapZombie, MarkFailed
<1>3. worker'.pc = "alert" /\ worker'.then = "idle"
  BY DEF ReapZombie, MarkFailed, Worker
<1>4. /\ PendingJobs(e)' = PendingJobs(e) \ {j} /\ j \notin PendingJobs(e)
      /\ PickedJobs(e)' = PickedJobs(e) \ {j} /\ SameTasks(e)
  BY <1>1, <1>2, SetJobMoves DEF PendingJobs
<1>5. CASE jobs[j].ep = e
  <2>1. ep'[e] = [ep[e] EXCEPT !.status = "failed", !.err = "SYSTEM_ERROR"]
    BY <1>2, <1>5 DEF EpType
  <2>2. j \in PickedJobs(e)
    BY <1>1, <1>5 DEF PickedJobs, JobsOf
  <2>3. QED
    <3>1. Closed(e, j)
      BY <1>4, <2>2 DEF Closed
    <3>2. \E c : ep'[e] = [ep[e] EXCEPT !.status = "failed", !.err = c]
      BY <2>1
    <3>3. Exists(e)
      BY <1>1, <1>5
    <3>4. Reaped(e, j)
      BY <1>2, <1>3, <3>1, <3>2, <3>3 DEF Reaped
    <3>5. QED
      BY <1>5, <3>4
<1>6. CASE jobs[j].ep # e
  <2>1. SameRow(e)
    BY <1>1, <1>2, <1>6 DEF SameRow, EpType
  <2>2. j \notin PickedJobs(e)
    BY <1>6 DEF PickedJobs, JobsOf
  <2>3. QED
    BY <1>2, <1>3, <1>4, <1>6, <2>1, <2>2 DEF Away, OnIt, SameQueue, budget
<1>7. QED
  BY <1>5, <1>6

LEMMA StrandedSeen ==
    ASSUME Inv, NEW x \in Episode, Sweep(x), NEW e \in Episode
    PROVE  IF e = x THEN Swept(e) ELSE Away(e)
<1> EpType /\ crashes \in Nat /\ manual \in Nat
  BY DEF Inv, TypeOK, EpType
<1>1. PICK t \in Task : StatusOf[t] = ep[x].status /\ Enqueue(x, t, TRUE)
  BY DEF Sweep
<1>2. IF e = x THEN Added(e, t, TRUE) ELSE SameQueue(e)
  BY <1>1, EnqueueAdds
<1>3. ep' = [ep EXCEPT ![x].status = "pending"] /\ worker.pc = "idle" /\ Stranded(x)
      /\ UNCHANGED <<worker, api, budget>>
  BY DEF Sweep
<1>4. CASE e = x
  <2>1. Wrote(e, "pending")
    BY <1>3, <1>4 DEF Wrote, EpType
  <2>2. QED
    BY <1>1, <1>2, <1>3, <1>4, <2>1 DEF Swept
<1>5. CASE e # x
  BY <1>2, <1>3, <1>5 DEF Away, SameRow, EpType, budget
<1>6. QED
  BY <1>4, <1>5

LEMMA SweepSeen ==
    ASSUME Inv, Sweeps, NEW e \in Episode
    PROVE  Away(e) \/ Swept(e) \/ \E j \in JobId : Reaped(e, j)
<1> worker \in Worker /\ EpType /\ crashes \in Nat /\ manual \in Nat
  BY DEF Inv, TypeOK, EpType
<1>1. CASE Prune
  <2>1. SameQueue(e)
    <3>1. \A j \in JobId : \/ jobs'[j] = jobs[j]
                           \/ jobs'[j] = NoJob /\ jobs[j].status = "failed"
      BY <1>1 DEF Prune, Superseded
    <3>2. QED
      BY <3>1, NoJobTyped, KeptQueue
  <2>2. QED
    BY <1>1, <2>1 DEF Prune, Away, SameRow, budget
<1>2. QED
  BY <1>1, ReapSeen, StrandedSeen DEF Sweeps

LEMMA RequestSeen ==
    ASSUME Inv, NEW x \in Episode, Requests(x), NEW e \in Episode
    PROVE  Away(e) \/ (e = x /\ RequestStep(e))
<1> EpType /\ crashes \in Nat /\ manual \in Nat
    /\ api \in [Episode -> {"none", "enqueue", "delete"}]
  BY DEF Inv, TypeOK, EpType
<1>1. UNCHANGED jobs => SameQueue(e)
  BY Quiet
<1>2. CASE IngestFeed(x)
  <2>1. IF e = x THEN Added(e, "download", TRUE) ELSE SameQueue(e)
    BY <1>2, EnqueueAdds DEF IngestFeed, Task
  <2>2. /\ ep[x].status = "absent" /\ ep' = [ep EXCEPT ![x] = NewRow("feed")]
        /\ UNCHANGED <<worker, api, budget>>
    BY <1>2 DEF IngestFeed
  <2> HIDE DEF NewRow
  <2>3. CASE e = x
    BY <2>1, <2>2, <2>3 DEF RequestStep, Fed, EpType
  <2>4. CASE e # x
    BY <2>1, <2>2, <2>4 DEF Away, SameRow, EpType, budget
  <2>5. QED
    BY <2>3, <2>4
<1>3. ASSUME NEW k \in {"url", "upload"}, IngestByHand(x, k)
      PROVE  Away(e) \/ (e = x /\ RequestStep(e))
  <2>1. /\ ep[x].status = "absent" /\ ep' = [ep EXCEPT ![x] = NewRow(k)]
        /\ api' = [api EXCEPT ![x] = "enqueue"] /\ UNCHANGED <<jobs, worker, budget>>
    BY <1>3 DEF IngestByHand
  <2> HIDE DEF NewRow
  <2>2. CASE e = x
    BY <1>1, <2>1, <2>2 DEF RequestStep, Submitted, EpType
  <2>3. CASE e # x
    BY <1>1, <2>1, <2>3 DEF Away, SameRow, EpType, budget
  <2>4. QED
    BY <2>2, <2>3
<1>4. CASE RetryJob(x)
  <2>1. /\ api[x] = "none" /\ Exists(x) /\ manual < MaxManual
        /\ ep' = [ep EXCEPT ![x].status = "pending", ![x].err = "none", ![x].retries = 0,
                            ![x].diar = FALSE]
        /\ api' = [api EXCEPT ![x] = "enqueue"] /\ manual' = manual + 1
        /\ UNCHANGED <<jobs, worker, crashes>>
    BY <1>4 DEF RetryJob, RetryAccepted
  <2>2. CASE e = x
    <3>1. ep'[e] = [ep[e] EXCEPT !.status = "pending", !.err = "none", !.retries = 0,
                                 !.diar = FALSE]
      BY <2>1, <2>2 DEF EpType
    <3>2. QED
      BY <1>1, <2>1, <2>2, <3>1 DEF RequestStep, Retried
  <2>3. CASE e # x
    BY <1>1, <2>1, <2>3 DEF Away, SameRow, EpType
  <2>4. QED
    BY <2>2, <2>3
<1>5. CASE EnqueueIngest(x)
  <2>1. PICK t \in {"download", "transcribe"} :
           Enqueue(x, t, TRUE) /\ (t = "transcribe" => ep[x].kind = "upload")
    BY <1>5 DEF EnqueueIngest, IsManualUpload
  <2>2. IF e = x THEN Added(e, t, TRUE) ELSE SameQueue(e)
    BY <2>1, EnqueueAdds DEF Task
  <2>3. api[x] = "enqueue" /\ Exists(x) /\ api' = [api EXCEPT ![x] = "none"]
        /\ UNCHANGED <<ep, worker, budget>>
    BY <1>5 DEF EnqueueIngest
  <2>4. CASE e = x
    BY <2>1, <2>2, <2>3, <2>4 DEF RequestStep, Ingested, SameRow
  <2>5. CASE e # x
    BY <2>2, <2>3, <2>5 DEF Away, SameRow, budget
  <2>6. QED
    BY <2>4, <2>5
<1>6. CASE DeleteFiles(x)
  <2>1. /\ api[x] = "none" /\ Exists(x) /\ api' = [api EXCEPT ![x] = "delete"]
        /\ UNCHANGED <<jobs, ep, worker, budget>>
    BY <1>6 DEF DeleteFiles
  <2>2. CASE e = x
    BY <1>1, <2>1, <2>2 DEF RequestStep, Deleting, SameRow
  <2>3. CASE e # x
    BY <1>1, <2>1, <2>3 DEF Away, SameRow, budget
  <2>4. QED
    BY <2>2, <2>3
<1>7. CASE DeleteRow(x)
  <2>1. /\ api[x] = "delete" /\ ep' = [ep EXCEPT ![x] = NoRow("deleted")]
        /\ jobs' = [j \in JobId |-> IF jobs[j].ep = x THEN NoJob ELSE jobs[j]]
        /\ api' = [api EXCEPT ![x] = "none"] /\ UNCHANGED <<worker, budget>>
    BY <1>7 DEF DeleteRow
  <2> HIDE DEF NoRow
  <2>2. CASE e = x
    <3>1. \A j \in JobId : jobs'[j].ep # e
      BY <2>1, <2>2, NoJobTyped
    <3>2. PendingJobs(e)' = {} /\ PickedJobs(e)' = {}
      BY <3>1 DEF PendingJobs, PickedJobs, JobsOf
    <3>3. QED
      BY <2>1, <2>2, <3>2 DEF RequestStep, Deleted, EpType
  <2>3. CASE e # x
    <3>1. \A j \in JobId : \/ jobs'[j] = jobs[j]
                           \/ jobs'[j] = NoJob /\ jobs[j].ep # e
      BY <2>1, <2>3
    <3>2. SameQueue(e)
      BY <3>1, NoJobTyped, KeptQueue
    <3>3. QED
      BY <2>1, <2>3, <3>2 DEF Away, SameRow, EpType, budget
  <2>4. QED
    BY <2>2, <2>3
<1>8. CASE RequestDies(x)
  <2>1. /\ api[x] # "none" /\ api' = [api EXCEPT ![x] = "none"] /\ crashes' = crashes + 1
        /\ UNCHANGED <<jobs, ep, worker, manual>>
    BY <1>8 DEF RequestDies
  <2>2. CASE e = x
    BY <1>1, <2>1, <2>2 DEF RequestStep, Abandoned, SameRow
  <2>3. CASE e # x
    BY <1>1, <2>1, <2>3 DEF Away, SameRow
  <2>4. QED
    BY <2>2, <2>3
<1>9. QED
  BY <1>2, <1>3, <1>4, <1>5, <1>6, <1>7, <1>8 DEF Requests

LEMMA QueueSeen ==
    ASSUME Inv, NEW k \in JobId, Poll(k) \/ RetryDue(k), NEW e \in Episode
    PROVE  Away(e) \/ Polled(e, k)
<1> crashes \in Nat /\ manual \in Nat
  BY DEF Inv, TypeOK
<1>1. CASE Poll(k)
  <2>1. jobs[k].ep \in Episode /\ jobs[k].status = "pending"
    BY <1>1, PickedRow DEF Poll, Foremost, Ready
  <2>2. /\ worker.pc = "idle" /\ Foremost(k) /\ SetJob(k, "picked")
        /\ worker' = [Idle EXCEPT !.pc = "begin", !.job = k, !.ep = jobs[k].ep,
                                  !.task = jobs[k].task]
        /\ UNCHANGED <<ep, api, budget>>
    BY <1>1 DEF Poll
  <2>3. /\ PendingJobs(e)' = PendingJobs(e) \ {k} /\ SameTasks(e)
        /\ PickedJobs(e)' = IF jobs[k].ep = e THEN PickedJobs(e) \cup {k}
                            ELSE PickedJobs(e) \ {k}
    BY <2>1, <2>2, SetJobMoves
  <2>4. CASE jobs[k].ep = e
    <3>1. k \in PendingJobs(e)
      BY <2>1, <2>4 DEF PendingJobs, JobsOf
    <3>2. QED
      BY <2>2, <2>3, <2>4, <3>1 DEF Polled, Claimed, SameRow
  <2>5. CASE jobs[k].ep # e
    <3>1. k \notin PendingJobs(e) /\ k \notin PickedJobs(e)
      BY <2>5 DEF PendingJobs, PickedJobs, JobsOf
    <3>2. worker'.ep = jobs[k].ep
      BY <2>2 DEF Idle
    <3>3. QED
      BY <2>2, <2>3, <2>5, <3>1, <3>2 DEF Away, OnIt, SameRow, SameQueue, budget
  <2>6. QED
    BY <2>4, <2>5
<1>2. CASE RetryDue(k)
  <2>1. /\ jobs[k].status = "pending" /\ jobs' = [jobs EXCEPT ![k].due = TRUE]
        /\ UNCHANGED <<ep, worker, api, budget>>
    BY <1>2 DEF RetryDue, BackoffElapses
  <2>2. jobs[k] \in JobRow
    BY <2>1, PickedRow
  <2>3. \A j \in JobId : /\ jobs'[j].ep = jobs[j].ep /\ jobs'[j].status = jobs[j].status
                         /\ jobs'[j].task = jobs[j].task /\ (jobs[j].due => jobs'[j].due)
    BY <2>1, <2>2, Queued DEF JobsType, JobRow
  <2>4. SameQueue(e)
    BY <2>3, KeptQueue
  <2>5. QED
    BY <2>1, <2>4 DEF Away, SameRow, budget
<1>3. QED
  BY <1>1, <1>2

LEMMA SeenStep ==
    ASSUME Inv, [Next]_vars, NEW e \in Episode
    PROVE  SeenFrom(e)
<1> crashes \in Nat /\ manual \in Nat
  BY DEF Inv, TypeOK
<1>1. CASE Handle
  BY <1>1, HandleHere, HandleElsewhere DEF SeenFrom
<1>2. CASE Crash
  <2>1. worker' = Idle /\ SameRow(e) /\ SameQueue(e) /\ crashes' = crashes + 1
        /\ UNCHANGED <<api, manual>>
    BY <1>2, Quiet DEF Crash, SameRow
  <2>2. ~OnIt(e)'
    BY <2>1 DEF OnIt, Idle
  <2>3. QED
    BY <2>1, <2>2 DEF SeenFrom, WorkerDies, Away
<1>3. CASE UNCHANGED vars
  BY <1>3, Quiet DEF vars, budget, SeenFrom, Away, SameRow
<1>4. QED
  BY <1>1, <1>2, <1>3, SweepSeen, RequestSeen, QueueSeen DEF Next, SeenFrom

\* A step concerns one episode at most.
LEMMA OthersAway ==
    ASSUME Inv, [Next]_vars, NEW e \in Episode, NEW f \in Episode, e # f
    PROVE  Away(e) \/ Away(f)
<1> crashes \in Nat /\ manual \in Nat
  BY DEF Inv, TypeOK
<1>1. ~OnIt(e) \/ ~OnIt(f)
  BY DEF OnIt
<1>2. CASE Handle
  BY <1>1, <1>2, HandleElsewhere DEF Vanished
<1>3. CASE Crash
  <2>1. ASSUME NEW x \in Episode, ~OnIt(x) PROVE Away(x)
    <3>1. worker' = Idle /\ SameRow(x) /\ SameQueue(x) /\ crashes' = crashes + 1
          /\ UNCHANGED <<api, manual>>
      BY <1>3, Quiet DEF Crash, SameRow
    <3>2. ~OnIt(x)'
      BY <3>1 DEF OnIt, Idle
    <3>3. QED
      BY <2>1, <3>1, <3>2 DEF Away
  <2>2. QED
    BY <1>1, <2>1
<1>4. CASE UNCHANGED vars
  BY <1>4, Quiet DEF vars, budget, Away, SameRow
<1>5. CASE Sweeps
  <2>1. CASE Prune
    <3>1. worker.pc = "idle" /\ UNCHANGED <<ep, worker>>
      BY <2>1 DEF Prune
    <3>2. ~(\E j \in JobId : Reaped(e, j))
      BY <3>1 DEF Reaped
    <3>3. ~Swept(e)
      <4>1. ep[e].status = "pending" => ~Stranded(e)
        BY MidStatus DEF Stranded
      <4>2. Wrote(e, "pending") => ep'[e].status = "pending"
        BY DEF Wrote, Inv, TypeOK, EpisodeRow
      <4>3. QED
        BY <3>1, <4>1, <4>2 DEF Swept
    <3>4. QED
      BY <1>5, <3>2, <3>3, SweepSeen
  <2>2. QED
    BY <1>5, <2>1, ReapSeen, StrandedSeen DEF Sweeps
<1>6. ASSUME NEW k \in JobId, Poll(k) \/ RetryDue(k) PROVE Away(e) \/ Away(f)
  BY <1>6, QueueSeen DEF Polled, Claimed, PendingJobs, JobsOf
<1>7. QED
  BY <1>2, <1>3, <1>4, <1>5, <1>6, RequestSeen DEF Next

-----------------------------------------------------------------------------
(* Claims and deaths.                                                      *)

\* A handler's step ends with its job closed, or goes on with the same job.
LEMMA WorkGoesOn ==
    ASSUME NEW e \in Episode, WorkStep(e)
    PROVE  \/ worker' = Idle /\ Closed(e, worker.job)
           \/ OnIt(e)' /\ worker'.job = worker.job /\ worker'.task = worker.task
              /\ PickedJobs(e)' = PickedJobs(e)
<1>1. worker.pc # "idle" /\ worker.ep = e
  BY DEF WorkStep, OnIt
<1>2. ASSUME NEW pc, To(pc), pc \notin {"idle", "alert"}
      PROVE  OnIt(e)' /\ worker'.job = worker.job /\ worker'.task = worker.task
  BY <1>1, <1>2 DEF To, OnIt
<1>3. CASE Fails(e) /\ SameQueue(e)
  BY <1>1, <1>3 DEF Fails, OnIt, SameQueue
<1>4. CASE (FromBegin(e) \/ FromWork(e) \/ FromFile(e) \/ FromRaised(e)) /\ SameQueue(e)
  BY <1>2, <1>4 DEF FromBegin, FromWork, FromFile, FromRaised, SameQueue
<1>5. CASE Passes(e)
  <2>1. CASE worker' = Idle /\ Closed(e, worker.job)
    BY <2>1
  <2>2. CASE \E pc : To(pc) /\ pc \notin {"idle", "alert"} /\ PickedJobs(e)' = PickedJobs(e)
    BY <1>2, <2>2
  <2>3. QED
    BY <1>5, <2>1, <2>2 DEF Passes, Added, SameQueue
<1>6. QED
  BY <1>3, <1>4, <1>5 DEF WorkStep

\* No row but that of its own episode is the open claim of a worker.
OwnClaim == Holding /\ jobs[worker.job].status = "picked" => jobs[worker.job].ep = worker.ep

\* The open claim of an episode is an old one, or the poll's.
LEMMA ClaimsSeen ==
    ASSUME NEW e \in Episode, SeenFrom(e), NEW j \in PickedJobs(e)'
    PROVE  j \in PickedJobs(e) \/ Polled(e, j)
<1>1. WorkStep(e) => PickedJobs(e)' \subseteq PickedJobs(e)
  BY WorkGoesOn DEF Closed
<1>2. ASSUME NEW k \in JobId, Polled(e, k)
      PROVE  j \in PickedJobs(e) \/ Polled(e, j)
  BY <1>2 DEF Polled, Claimed
<1>3. QED
  BY <1>1, <1>2 DEF SeenFrom, Away, Vanished, Reaped, Closed, WorkerDies, Swept, RequestStep,
                    Fed, Submitted, Retried, Ingested, Deleting, Deleted, Abandoned, Added,
                    SameQueue

\* How the worker comes to hold a job of e.
LEMMA HeldSeen ==
    ASSUME NEW e \in Episode, SeenFrom(e), OnIt(e)'
    PROVE  \/ \E k \in JobId : Polled(e, k)
           \/ OnIt(e) /\ worker'.job = worker.job
<1>1. worker' # Idle
  BY DEF OnIt, Idle
<1>2. CASE UNCHANGED worker
  BY <1>2 DEF OnIt
<1>3. WorkStep(e) => OnIt(e) /\ worker'.job = worker.job
  BY <1>1, WorkGoesOn DEF WorkStep
<1>4. QED
  BY <1>1, <1>2, <1>3
     DEF SeenFrom, Away, Vanished, Reaped, WorkerDies, Swept, RequestStep, OnIt,
         Fed, Submitted, Retried, Ingested, Deleting, Deleted, Abandoned

LEMMA OwnClaimStep ==
    ASSUME Inv, Inv', OwnClaim, [Next]_vars
    PROVE  OwnClaim'
<1> SUFFICES ASSUME Holding', jobs'[worker'.job].status = "picked"
             PROVE  jobs'[worker'.job].ep = worker'.ep
  BY DEF OwnClaim
<1>a. PICK e \in Episode, j \in JobId : worker'.ep = e /\ worker'.job = j
  BY DEF Inv, ClaimHeld
<1>b. PICK f \in Episode : jobs'[j].ep = f
  BY <1>a, NoJobTyped DEF Inv, TypeOK, JobRow
<1>1. OnIt(e)'
  BY <1>a DEF OnIt
<1>2. j \in PickedJobs(f)'
  BY <1>a, <1>b DEF PickedJobs, JobsOf
<1>3. SeenFrom(e) /\ SeenFrom(f)
  BY <1>1, <1>2, SeenStep
<1>4. CASE Polled(f, j)
  BY <1>4, <1>a, <1>b DEF Polled, Idle
<1>5. CASE \E k \in JobId : Polled(e, k)
  <2>1. PICK k \in JobId : Polled(e, k)
    BY <1>5
  <2>2. j = k
    BY <1>a, <2>1 DEF Polled, Idle
  <2>3. k \in PickedJobs(e)'
    BY <2>1 DEF Polled, Claimed
  <2>4. QED
    BY <1>a, <2>2, <2>3 DEF PickedJobs, JobsOf
<1>6. CASE OnIt(e) /\ j = worker.job /\ j \in PickedJobs(f)
  <2>1. e = f
    BY <1>6 DEF OnIt, OwnClaim, PickedJobs, JobsOf
  <2>2. QED
    BY <1>a, <1>b, <2>1
<1>7. j \in PickedJobs(f) \/ Polled(f, j)
  BY <1>2, <1>3, ClaimsSeen
<1>8. (\E k \in JobId : Polled(e, k)) \/ (OnIt(e) /\ worker'.job = worker.job)
  BY <1>1, <1>3, HeldSeen
<1>9. QED
  BY <1>a, <1>4, <1>5, <1>6, <1>7, <1>8

\* A claim loses its worker only by the death of that worker.
LEMMA ClaimsLeft ==
    ASSUME Inv, Inv', OwnClaim, [Next]_vars, NEW j \in (OpenClaims \ Claim)'
    PROVE  \/ j \in OpenClaims \ Claim
           \/ j = worker.job /\ crashes' = crashes + 1
<1>1. j \in JobId /\ jobs'[j].status = "picked" /\ j \notin Claim'
  BY DEF OpenClaims
<1>a. PICK e \in Episode : jobs'[j].ep = e
  BY <1>1, NoJobTyped DEF Inv, TypeOK, JobRow
<1>2. j \in PickedJobs(e)'
  BY <1>1, <1>a DEF PickedJobs, JobsOf
<1>3. SeenFrom(e)
  BY <1>2, SeenStep
<1>4. ~Polled(e, j)
  BY <1>1 DEF Polled, Idle, Claim
<1>5. j \in PickedJobs(e)
  BY <1>2, <1>3, <1>4, ClaimsSeen
<1>6. jobs[j].ep = e /\ jobs[j].status = "picked" /\ Exists(e)
  BY <1>1, <1>2, <1>5 DEF PickedJobs, JobsOf, Inv, JobsOwned
<1>7. CASE j \in Claim
  <2>1. Holding /\ j = worker.job /\ OnIt(e)
    BY <1>6, <1>7 DEF Claim, OwnClaim, OnIt
  <2>2. ~(Holding' /\ worker'.job = j)
    BY <1>1 DEF Claim
  <2>3. worker' # worker
    BY <2>1, <2>2
  <2>4. worker.pc # "idle"
    BY <2>1
  <2>5. ASSUME WorkStep(e) PROVE FALSE
    <3>1. CASE worker' = Idle /\ Closed(e, worker.job)
      BY <1>2, <2>1, <3>1 DEF Closed
    <3>2. CASE OnIt(e)' /\ worker'.job = worker.job
      BY <2>1, <2>2, <3>2 DEF OnIt
    <3>3. QED
      BY <2>5, <3>1, <3>2, WorkGoesOn
  <2>6. WorkerDies(e)
    BY <1>3, <1>6, <2>1, <2>3, <2>4, <2>5
       DEF SeenFrom, Away, Vanished, Polled, Reaped, Swept, RequestStep,
           Fed, Submitted, Retried, Ingested, Deleting, Deleted, Abandoned
  <2>7. QED
    BY <2>1, <2>6 DEF WorkerDies
<1>8. QED
  BY <1>1, <1>6, <1>7 DEF OpenClaims

LEMMA CrashesStep ==
    ASSUME Inv, [Next]_vars
    PROVE  UNCHANGED crashes \/ crashes' = crashes + 1
BY DEF Next, vars, budget, RetryDue, Poll, Handle, BeginDownload, OpenFile,
       DownloadDiskFull, SaveDownload, BeginTranscribe, Transcribe, BeginDiarize, Diarize,
       BeginStage, StageWork, Compress, ArchiveDiskFull, CommitDone, VerifyAndUnlink,
       Handoff, Complete, Announce, HandlerRaises, HandleException, Requeue, FailJob,
       EpisodeVanished, Crash, Sweeps, Prune, ReapZombie, Sweep, Requests, IngestFeed,
       IngestByHand, RetryJob, EnqueueIngest, DeleteFiles, DeleteRow, RequestDies

LEMMA CrashesGrow == ASSUME Inv, [Next]_vars PROVE crashes' >= crashes
<1>1. crashes \in Nat
  BY DEF Inv, TypeOK
<1>2. QED
  BY <1>1, CrashesStep

LEMMA LeakedStep ==
    ASSUME Inv, Inv', OwnClaim, LeakedClaims, [Next]_vars
    PROVE  LeakedClaims'
<1> DEFINE left == OpenClaims \ Claim
<1>1. IsFiniteSet(JobId) /\ left \in SUBSET JobId /\ left' \in SUBSET JobId
  BY FS_Interval, MaxJobsAssumption DEF OpenClaims, JobId
<1>2. IsFiniteSet(left) /\ IsFiniteSet(left') /\ crashes \in Nat /\ crashes' \in Nat
  BY <1>1, FS_Subset DEF Inv, TypeOK
<1>3. Cardinality(left) \in Nat /\ Cardinality(left') \in Nat
  BY <1>2, FS_CardinalityType
<1>4. Cardinality(left) <= crashes
  BY DEF LeakedClaims
<1>5. CASE left' \subseteq left
  <2>1. Cardinality(left') <= Cardinality(left)
    BY <1>2, <1>5, FS_Subset
  <2>2. QED
    BY <1>2, <1>3, <1>4, <2>1, CrashesGrow DEF LeakedClaims
<1>6. CASE ~(left' \subseteq left)
  <2>1. left' \subseteq left \cup {worker.job} /\ crashes' = crashes + 1
    BY <1>6, ClaimsLeft
  <2>2. IsFiniteSet(left \cup {worker.job})
        /\ Cardinality(left \cup {worker.job}) <= Cardinality(left) + 1
    BY <1>2, <1>3, FS_AddElement
  <2>3. Cardinality(left') <= Cardinality(left \cup {worker.job})
    BY <2>1, <2>2, FS_Subset
  <2>4. Cardinality(left \cup {worker.job}) \in Nat
    BY <2>2, FS_CardinalityType
  <2>5. QED
    BY <1>2, <1>3, <1>4, <2>1, <2>2, <2>3, <2>4 DEF LeakedClaims
<1>7. QED
  BY <1>5, <1>6

LEMMA ClaimsInvariant == Spec => [](Inv /\ OwnClaim /\ LeakedClaims)
<1>1. Init => OwnClaim /\ LeakedClaims
  <2>1. ASSUME Init PROVE OwnClaim /\ LeakedClaims
    <3>1. worker.pc = "idle" /\ crashes = 0
      BY <2>1 DEF Init, Idle
    <3>2. OpenClaims \ Claim = {}
      BY <2>1, NoJobTyped DEF Init, QueueInit, OpenClaims
    <3>3. QED
      BY <3>1, <3>2, FS_EmptySet DEF OwnClaim, LeakedClaims
  <2>2. QED
    BY <2>1
<1>2. Inv /\ OwnClaim /\ LeakedClaims /\ [Next]_vars
         => Inv' /\ OwnClaim' /\ LeakedClaims'
  BY InvStep, OwnClaimStep, LeakedStep
<1>3. QED
  BY InitInv, <1>1, <1>2, PTL DEF Spec

\* LeakedClaims, for every number of jobs and crashes: every path through a handler closes
\* the job it claimed, and only the death of its worker leaves a claim open.
THEOREM ClaimsClosed == Spec => []LeakedClaims
BY ClaimsInvariant, PTL

-----------------------------------------------------------------------------
(* Who carries an episode on.                                              *)

\* The claims of e that its worker does not hold.
Left(e) == IF OnIt(e) THEN PickedJobs(e) \ {worker.job} ELSE PickedJobs(e)

\* A pending job of e that its handler will not take for done already.
Coming(e) ==
    \E j \in PendingJobs(e) :
        ep[e].status \in AlreadyTranscribed => jobs[j].task # "transcribe"

\* A handler that will hand e on or put it to rest.
Moving(e) ==
    /\ Driven(e) /\ worker.pc # "requeue"
    /\ ep[e].status \in AlreadyTranscribed =>
          /\ worker.task = "transcribe" => worker.pc # "begin"
          /\ worker.task = "download" => worker.pc \notin {"work", "file", "handoff"}

Carried(e) == Left(e) # {} \/ Coming(e) \/ Moving(e)

\* An episode under way is carried on.
Owed(e) == ep[e].status \in Mid => Carried(e)

\* A row that has no job from the start, and that no request will touch.
Stray(e) == Stranded(e) /\ api[e] # "enqueue"

OwedOrStray == \A e \in Episode : Owed(e) \/ Stray(e)

LEMMA CarriedActive ==
    ASSUME Inv, NEW e \in Episode, Exists(e), Carried(e)
    PROVE  Active(e)
<1>1. OnIt(e) => worker.job \in PickedJobs(e)
  BY DEF Inv, ClaimHeld, OnIt, PickedJobs, JobsOf
<1>2. Driven(e) => OnIt(e)
  BY DEF Driven, OnIt, InHandler
<1>3. QED
  BY <1>1, <1>2 DEF Carried, Left, Coming, Moving, Active

\* The statuses the stages write.
LEMMA StageStatus ==
    /\ StatusOf["download"] = "downloading" /\ StatusOf["transcribe"] = "transcribing"
    /\ StatusOf["diarize"] = "diarizing" /\ StatusOf["chunk"] = "chunking"
    /\ StatusOf["embed"] = "embedding" /\ StatusOf["infer"] = "inferring"
    /\ StatusOf["archive"] = "archiving"
    /\ NextTask["download"] = "transcribe" /\ NextTask["transcribe"] = "diarize"
    /\ NextTask["diarize"] = "chunk" /\ NextTask["chunk"] = "embed"
    /\ NextTask["embed"] = "infer" /\ NextTask["infer"] = "archive"
BY DEF StatusOf, NextTask, Task

LEMMA MidExists == \A e : ep[e].status \in Mid => Exists(e) /\ ep[e].status # "pending"
BY MidStatus DEF Exists

\* What carries e on still does, unless it was its worker.
LEMMA StillCarried ==
    ASSUME NEW e \in Episode, Owed(e), ep'[e].status = ep[e].status,
           Left(e) \subseteq Left(e)', PendingJobs(e) \subseteq PendingJobs(e)', SameTasks(e),
           Moving(e) => Carried(e)'
    PROVE  Owed(e)'
<1>1. Coming(e) => Coming(e)'
  BY DEF Coming, SameTasks, OpenJobs
<1>2. QED
  BY <1>1 DEF Owed, Carried

LEMMA WorkOwed ==
    ASSUME Inv, NEW e \in Episode, WorkStep(e), Owed(e)
    PROVE  Owed(e)'
<1> ep[e] \in EpisodeRow /\ OnIt(e) /\ worker.ep = e /\ worker.task \in Task
  BY DEF Inv, TypeOK, WorkStep, OnIt, ClaimHeld
<1>1. Left(e)' = Left(e)
  BY WorkGoesOn DEF Left, OnIt, Idle, Closed
<1>2. ASSUME Moving(e)' PROVE Owed(e)'
  BY <1>2 DEF Owed, Carried
<1>3. ASSUME ep'[e].status = ep[e].status, SameQueue(e), Moving(e) => Moving(e)'
      PROVE  Owed(e)'
  BY <1>1, <1>3, StillCarried DEF SameQueue, Carried
<1>4. ASSUME NEW pc, To(pc), pc \in InHandler \cup {"raised"} PROVE Driven(e)'
  BY <1>4 DEF To, Driven
<1>5. CASE FromBegin(e) /\ SameQueue(e)
  <2>1. CASE /\ worker.task # "diarize" /\ To("work") /\ Wrote(e, StatusOf[worker.task])
    <3>1. ep'[e].status = StatusOf[worker.task]
      BY <2>1 DEF Wrote, EpisodeRow
    <3>2. worker'.pc = "work" /\ worker'.task = worker.task /\ Driven(e)'
      BY <1>4, <2>1 DEF To, InHandler
    <3>3. worker.task = "download" => ep'[e].status \notin AlreadyTranscribed
      BY <3>1, StageStatus DEF AlreadyTranscribed
    <3>4. QED
      BY <1>2, <3>2, <3>3 DEF Moving
  <2>2. CASE worker.task = "diarize" /\ To("work") /\ SameRow(e)
    BY <1>2, <1>4, <2>2 DEF Moving, To, InHandler
  <2>3. CASE /\ worker.task = "transcribe" /\ ep[e].status \in AlreadyTranscribed
             /\ SameRow(e)
    <3>1. ~Moving(e)
      BY <1>5, <2>3 DEF FromBegin, Moving
    <3>2. QED
      BY <1>3, <1>5, <2>3, <3>1 DEF SameRow
  <2>4. CASE worker.task = "infer" /\ To("handoff") /\ SameRow(e)
    BY <1>2, <1>4, <2>4 DEF Moving, To, InHandler
  <2>5. QED
    BY <1>5, <2>1, <2>2, <2>3, <2>4 DEF FromBegin
<1>6. CASE FromWork(e) /\ SameQueue(e)
  <2>1. CASE worker.task \in {"download", "archive"} /\ To("file") /\ SameRow(e)
    <3>1. Moving(e) => Moving(e)'
      BY <1>4, <1>6, <2>1 DEF FromWork, Moving, To, SameRow, InHandler
    <3>2. QED
      BY <1>3, <1>6, <2>1, <3>1 DEF SameRow
  <2>2. CASE worker.task \notin {"download", "archive"} /\ To("handoff")
    BY <1>2, <1>4, <2>2 DEF Moving, To, InHandler
  <2>3. CASE ep'[e] = [ep[e] EXCEPT !.status = "no_speech", !.segs = FALSE, !.err = "NO_SPEECH"]
    BY <2>3, MidStatus DEF Owed, EpisodeRow
  <2>4. QED
    BY <1>6, <2>1, <2>2, <2>3 DEF FromWork
<1>7. CASE FromFile(e) /\ SameQueue(e)
  <2>1. CASE worker.task = "download" /\ To("handoff") /\ ep'[e] = [ep[e] EXCEPT !.audio = "raw"]
    <3>1. ep'[e].status = ep[e].status
      BY <2>1 DEF EpisodeRow
    <3>2. Moving(e) => Moving(e)'
      BY <1>4, <1>7, <2>1, <3>1 DEF FromFile, Moving, To, InHandler
    <3>3. QED
      BY <1>3, <1>7, <3>1, <3>2
  <2>2. CASE worker.task = "archive"
    <3>1. ep'[e].status \in {"done", "no_speech"}
      BY <1>7, <2>2 DEF FromFile, EpisodeRow
    <3>2. QED
      BY <3>1, MidStatus DEF Owed
  <2>3. QED
    BY <1>7, <2>1, <2>2 DEF FromFile
<1>8. CASE FromRaised(e) \/ Fails(e)
  <2>1. ep'[e].status \in {"failed", "pending"}
    BY <1>8 DEF FromRaised, Fails, SameRow, EpisodeRow
  <2>2. QED
    BY <2>1, MidStatus DEF Owed
<1>9. CASE Passes(e)
  <2> SameRow(e) /\ ep'[e].status = ep[e].status
    BY <1>9 DEF Passes, SameRow
  <2>1. CASE /\ worker.pc = "handoff" /\ worker.task # "archive"
             /\ Added(e, NextTask[worker.task], TRUE)
    <3>1. NextTask[worker.task] = "transcribe" => worker.task = "download"
      BY <2>1, StageStatus DEF Task
    <3>2. Moving(e) => Coming(e)'
      BY <2>1, <3>1 DEF Moving, Coming, Added
    <3>3. QED
      BY <1>1, <2>1, <3>2, StillCarried DEF Added, Carried
  <2>2. CASE worker.pc = "requeue" /\ Added(e, worker.task, FALSE)
    BY <1>1, <2>2, StillCarried DEF Added, Moving
  <2>3. CASE worker.pc \in {"finish", "drop"} /\ Closed(e, worker.job)
    BY <1>1, <2>3, StillCarried DEF Closed, Moving, Driven, InHandler
  <2>4. CASE worker.pc = "alert" /\ SameQueue(e)
    BY <1>3, <2>4 DEF Moving, Driven, InHandler
  <2>5. CASE ep[e].status = "done"
    BY <2>5, MidStatus DEF Owed
  <2>6. CASE To("raised")
    BY <1>2, <1>4, <2>6 DEF Moving, To
  <2>7. QED
    BY <1>9, <2>1, <2>2, <2>3, <2>4, <2>5, <2>6 DEF Passes
<1>10. QED
  BY <1>5, <1>6, <1>7, <1>8, <1>9 DEF WorkStep

LEMMA PolledOwed ==
    ASSUME NEW e \in Episode, NEW j \in JobId, Polled(e, j), Owed(e)
    PROVE  Owed(e)'
<1>1. /\ worker'.pc = "begin" /\ worker'.job = j /\ worker'.ep = e
      /\ worker'.task = jobs[j].task
  BY DEF Polled, Idle
<1>2. OnIt(e)' /\ Driven(e)' /\ ~OnIt(e) /\ ~Driven(e)
  BY <1>1 DEF OnIt, Driven, InHandler, Polled
<1>3. /\ ep'[e].status = ep[e].status /\ j \in PendingJobs(e) /\ SameTasks(e)
      /\ PendingJobs(e)' = PendingJobs(e) \ {j} /\ PickedJobs(e)' = PickedJobs(e) \cup {j}
  BY DEF Polled, Claimed, SameRow
<1>4. j \notin PickedJobs(e)
  BY <1>3 DEF PendingJobs, PickedJobs
<1>5. Left(e) \subseteq Left(e)'
  BY <1>1, <1>2, <1>3, <1>4 DEF Left
<1>6. Coming(e) => Coming(e)' \/ Moving(e)'
  BY <1>1, <1>2, <1>3 DEF Coming, Moving, SameTasks, OpenJobs
<1>7. ~Moving(e)
  BY <1>2 DEF Moving
<1>8. QED
  BY <1>3, <1>5, <1>6, <1>7 DEF Owed, Carried

\* The status the other writers of the row leave.
LEMMA ResetStatus ==
    ASSUME NEW e \in Episode, ep[e] \in EpisodeRow
    PROVE  /\ Swept(e) \/ Fed(e) \/ Retried(e) => ep'[e].status = "pending"
           /\ \A k : Submitted(e, k) => ep'[e].status = "pending"
           /\ \A j : Reaped(e, j) => ep'[e].status = "failed"
           /\ Deleted(e) => ep'[e].status = "deleted"
<1>1. Swept(e) => ep'[e].status = "pending"
  BY DEF Swept, Wrote, EpisodeRow
<1>2. Fed(e) => ep'[e].status = "pending"
  BY DEF Fed, NewRow, Row
<1>3. Retried(e) => ep'[e].status = "pending"
  BY DEF Retried, EpisodeRow
<1>4. \A k : Submitted(e, k) => ep'[e].status = "pending"
  BY DEF Submitted, NewRow, Row
<1>5. \A j : Reaped(e, j) => ep'[e].status = "failed"
  BY DEF Reaped, EpisodeRow
<1>6. Deleted(e) => ep'[e].status = "deleted"
  BY DEF Deleted, NoRow, Row
<1>7. QED
  BY <1>1, <1>2, <1>3, <1>4, <1>5, <1>6

LEMMA OwedStep ==
    ASSUME Inv, NEW e \in Episode, SeenFrom(e), Owed(e)
    PROVE  Owed(e)'
<1> ep[e] \in EpisodeRow
  BY DEF Inv, TypeOK
<1>1. CASE Away(e)
  <2>1. ep'[e] = ep[e] /\ SameQueue(e)
    BY <1>1 DEF Away, SameRow
  <2>2. CASE worker' = worker
    BY <2>1, <2>2, StillCarried DEF Left, OnIt, Moving, Driven, Carried, SameQueue
  <2>3. CASE ~OnIt(e) /\ ~OnIt(e)'
    <3>1. ~Driven(e)
      BY <2>3 DEF OnIt, Driven, InHandler
    <3>2. QED
      BY <2>1, <2>3, <3>1, StillCarried DEF Left, Moving, SameQueue
  <2>4. QED
    BY <1>1, <2>2, <2>3 DEF Away
<1>2. CASE Vanished(e)
  BY <1>2, MidExists DEF Vanished, SameRow, Owed
<1>3. CASE WorkerDies(e)
  <2>1. /\ ep'[e] = ep[e] /\ SameQueue(e) /\ worker'.pc = "idle" /\ OnIt(e)
    BY <1>3 DEF WorkerDies, SameRow, Idle
  <2>2. ~OnIt(e)'
    BY <2>1 DEF OnIt
  <2>3. Exists(e) => worker.job \in PickedJobs(e)
    BY <2>1 DEF OnIt, Inv, ClaimHeld, PickedJobs, JobsOf
  <2>4. Left(e) \subseteq Left(e)' /\ (Exists(e) => Carried(e)')
    BY <2>1, <2>2, <2>3 DEF Left, SameQueue, Carried
  <2>5. QED
    BY <2>1, <2>4, MidExists DEF Owed
<1>4. CASE Ingested(e) \/ Deleting(e) \/ Abandoned(e)
  <2>1. /\ ep'[e] = ep[e] /\ worker' = worker /\ PendingJobs(e) \subseteq PendingJobs(e)'
        /\ PickedJobs(e)' = PickedJobs(e) /\ SameTasks(e)
    BY <1>4 DEF Ingested, Deleting, Abandoned, SameRow, SameQueue, Added
  <2>2. QED
    BY <2>1, StillCarried DEF Left, OnIt, Moving, Driven, Carried
<1>5. CASE Swept(e) \/ Fed(e) \/ Retried(e) \/ Deleted(e)
           \/ (\E j \in JobId : Reaped(e, j)) \/ (\E k \in {"url", "upload"} : Submitted(e, k))
  <2>1. ep'[e].status \in {"pending", "failed", "deleted"}
    BY <1>5, ResetStatus
  <2>2. QED
    BY <2>1, MidStatus DEF Owed
<1>6. QED
  BY <1>1, <1>2, <1>3, <1>4, <1>5, WorkOwed, PolledOwed DEF SeenFrom, RequestStep

LEMMA StrayStep ==
    ASSUME Inv, NEW e \in Episode, SeenFrom(e), Stray(e)
    PROVE  Owed(e)' \/ Stray(e)'
<1> ep[e] \in EpisodeRow /\ api \in [Episode -> {"none", "enqueue", "delete"}]
  BY DEF Inv, TypeOK
<1>1. /\ PendingJobs(e) = {} /\ PickedJobs(e) = {} /\ Exists(e) /\ ep[e].status \in Mid
      /\ api[e] # "enqueue"
  BY MidExists DEF Stray, Stranded, Active
<1>2. ~OnIt(e)
  BY <1>1 DEF OnIt, Inv, ClaimHeld, PickedJobs, JobsOf
<1>3. CASE Away(e) \/ Deleting(e) \/ Abandoned(e)
  <2>1. SameRow(e) /\ SameQueue(e) /\ api'[e] # "enqueue"
    BY <1>1, <1>3 DEF Away, Deleting, Abandoned
  <2>2. QED
    BY <1>1, <2>1 DEF Stray, Stranded, Active, SameRow, SameQueue
<1>4. CASE Swept(e) \/ Retried(e) \/ Deleted(e)
  <2>1. ep'[e].status \in {"pending", "deleted"}
    BY <1>4, ResetStatus
  <2>2. QED
    BY <2>1, MidStatus DEF Owed
<1>5. ~(\E j \in JobId : Polled(e, j) \/ Reaped(e, j))
  BY <1>1 DEF Polled, Claimed, Reaped, Closed
<1>6. QED
  BY <1>1, <1>2, <1>3, <1>4, <1>5, MidStatus
     DEF SeenFrom, RequestStep, Vanished, WorkStep, WorkerDies, Fed, Submitted, Ingested

LEMMA OwedInit ==
    ASSUME Init
    PROVE  OwedOrStray /\ (Stragglers = {} => \A e \in Episode : Owed(e))
<1>1. \A e \in Episode : ~Active(e) /\ api[e] = "none"
  BY NoJobTyped DEF Init, QueueInit, Active, PendingJobs, PickedJobs, JobsOf
<1>2. OwedOrStray
  BY <1>1 DEF OwedOrStray, Owed, Stray, Stranded
<1>3. ASSUME NEW e \in Episode, Stragglers = {} PROVE ep[e].status = "absent"
  BY <1>3 DEF Init, NoRow, Row
<1>4. QED
  BY <1>2, <1>3, MidStatus DEF Owed

LEMMA OwedOrStrayStep == Inv /\ OwedOrStray /\ [Next]_vars => OwedOrStray'
BY SeenStep, OwedStep, StrayStep DEF OwedOrStray

\* NeverStranded, for every number of episodes, jobs, crashes and retries, provided no row
\* is mid-pipeline without a job at the start: wherever the worker or a request dies, an
\* episode under way has an open job.
THEOREM NoneStranded ==
    ASSUME Stragglers = {}
    PROVE  Spec => []NeverStranded
<1> DEFINE AllOwed == \A e \in Episode : Owed(e)
<1>1. Init => Inv /\ AllOwed
  BY InitInv, OwedInit
<1>2. Inv /\ AllOwed /\ [Next]_vars => Inv' /\ AllOwed'
  BY InvStep, SeenStep, OwedStep
<1>3. Inv /\ AllOwed => NeverStranded
  BY MidExists, CarriedActive DEF NeverStranded, Owed
<1>4. QED
  BY <1>1, <1>2, <1>3, PTL DEF Spec

\* No step strands an episode: a row the stranded sweep finds has been there, without a
\* job, since the start.
THEOREM StrandedFromTheStart ==
    Spec => [][\A e \in Episode : Stranded(e)' => Stranded(e)]_vars
<1> DEFINE OwedActive == \A e \in Episode : Owed(e) => ~Stranded(e)
<1>1. Init => OwedOrStray
  BY OwedInit
<1>a. Inv => OwedActive
  BY MidExists, CarriedActive DEF Stranded, Owed
<1>b. Inv' => OwedActive'
  BY <1>a, PTL
<1>2. ASSUME Inv, OwedOrStray, [Next]_vars, NEW e \in Episode, Stranded(e)'
      PROVE  Stranded(e)
  <2>1. ~Owed(e)'
    BY <1>b, <1>2, InvStep
  <2>2. QED
    BY <1>2, <2>1, SeenStep, OwedStep DEF OwedOrStray, Stray
<1>3. Inv /\ OwedOrStray /\ [Next]_vars
         => [\A e \in Episode : Stranded(e)' => Stranded(e)]_vars
  BY <1>2
<1>4. QED
  BY InitInv, InvStep, OwedOrStrayStep, <1>1, <1>3, PTL DEF Spec

-----------------------------------------------------------------------------
(* How many chains of jobs an episode has.                                 *)

\* Requests are made of rows that exist.
Asked == \A e \in Episode : ~Exists(e) => api[e] = "none"

LEMMA AskedStep ==
    ASSUME Inv, Asked, [Next]_vars
    PROVE  Asked'
<1> api \in [Episode -> {"none", "enqueue", "delete"}] /\ EpType
  BY DEF Inv, TypeOK, EpType
<1>1. ASSUME NEW e \in Episode PROVE ~Exists(e)' => api'[e] = "none"
  <2> ep[e] \in EpisodeRow /\ ep'[e] \in EpisodeRow
    BY EpStep DEF EpType
  <2>1. SeenFrom(e)
    BY SeenStep
  <2>2. CASE Away(e) \/ Vanished(e) \/ WorkerDies(e) \/ \E j \in JobId : Polled(e, j)
    <3>1. ep'[e] = ep[e] /\ api'[e] = api[e]
      BY <2>2 DEF Away, Vanished, WorkerDies, Polled, SameRow
    <3>2. QED
      BY <3>1 DEF Asked, Exists
  <2>3. CASE Swept(e) \/ Fed(e) \/ Retried(e) \/ (\E j \in JobId : Reaped(e, j))
             \/ (\E k \in {"url", "upload"} : Submitted(e, k))
    BY <2>3, ResetStatus DEF Exists
  <2>4. CASE Ingested(e) \/ Deleting(e) \/ Abandoned(e) \/ Deleted(e)
    <3>1. api'[e] = "none" \/ (Exists(e) /\ ep'[e] = ep[e])
      BY <2>4 DEF Ingested, Deleting, Abandoned, Deleted, SameRow
    <3>2. QED
      BY <3>1 DEF Exists
  <2>5. CASE WorkStep(e)
    <3>1. ep'[e].status = "absent" \/ ep'[e].status = "deleted" => api'[e] = "none"
      <4>1. RowMoves(e)
        BY RowStep
      <4>2. ~DeleteRow(e) \/ api'[e] = "none"
        BY DEF DeleteRow
      <4>3. QED
        BY <2>5, <4>1, <4>2, LivingStatus DEF RowMoves, WorkStep, Exists, Living
    <3>2. QED
      BY <3>1 DEF Exists
  <2>6. QED
    BY <2>1, <2>2, <2>3, <2>4, <2>5 DEF SeenFrom, RequestStep
<1>2. QED
  BY <1>1 DEF Asked

\* A row that does not exist has no open job.
LEMMA JoblessRow ==
    ASSUME Inv, NEW e \in Episode, ~Exists(e)
    PROVE  PendingJobs(e) = {} /\ PickedJobs(e) = {}
BY DEF Inv, JobsOwned, PendingJobs, PickedJobs, JobsOf

LEMMA PendingCount ==
    ASSUME NEW e \in Episode
    PROVE  /\ IsFiniteSet(PendingJobs(e)) /\ Cardinality(PendingJobs(e)) \in Nat
           /\ Cardinality(PendingJobs(e)) = 0 <=> PendingJobs(e) = {}
<1>1. IsFiniteSet(JobId) /\ PendingJobs(e) \in SUBSET JobId
  BY FS_Interval, MaxJobsAssumption DEF JobId, PendingJobs, JobsOf
<1>2. IsFiniteSet(PendingJobs(e))
  BY <1>1, FS_Subset
<1>3. QED
  BY <1>2, FS_CardinalityType, FS_EmptySet

LEMMA AddedCount ==
    ASSUME NEW e \in Episode, NEW t, NEW d, Added(e, t, d)
    PROVE  Cardinality(PendingJobs(e)') = Cardinality(PendingJobs(e)) + 1
<1>1. lastId' \notin PendingJobs(e) /\ PendingJobs(e)' = PendingJobs(e) \cup {lastId'}
  <2>1. \A j \in PendingJobs(e) : j \in Nat /\ j < lastId'
    BY DEF Added, OpenJobs, PendingJobs, JobsOf, JobId
  <2>2. QED
    BY <2>1 DEF Added
<1>2. QED
  BY <1>1, PendingCount, FS_AddElement

LEMMA ClaimedCount ==
    ASSUME NEW e \in Episode, NEW j, Claimed(e, j)
    PROVE  Cardinality(PendingJobs(e)') = Cardinality(PendingJobs(e)) - 1
BY PendingCount, FS_RemoveElement DEF Claimed

\* A handler's step hands its chain on or ends it.
LEMMA WorkCount ==
    ASSUME Inv, NEW e \in Episode, WorkStep(e)
    PROVE  \/ PendingJobs(e)' = PendingJobs(e) /\ (Driven(e)' => Driven(e))
           \/ /\ Cardinality(PendingJobs(e)') = Cardinality(PendingJobs(e)) + 1
              /\ Driven(e) /\ ~Driven(e)'
<1>1. worker.ep = e
  BY DEF WorkStep, OnIt
<1>2. ASSUME NEW pc, To(pc), pc \in {"finish", "drop"} PROVE ~Driven(e)'
  BY <1>2 DEF To, Driven, InHandler
<1>3. CASE (FromBegin(e) \/ FromWork(e) \/ FromFile(e) \/ FromRaised(e) \/ Fails(e))
           /\ SameQueue(e)
  BY <1>1, <1>3 DEF FromBegin, FromWork, FromFile, FromRaised, Fails, SameQueue, Driven,
                    InHandler
<1>4. CASE Passes(e)
  <2>1. CASE /\ worker.pc = "handoff" /\ To("finish")
             /\ Added(e, NextTask[worker.task], TRUE)
    BY <1>1, <1>2, <2>1, AddedCount DEF Driven, InHandler
  <2>2. CASE worker.pc = "requeue" /\ To("drop") /\ Added(e, worker.task, FALSE)
    BY <1>1, <1>2, <2>2, AddedCount DEF Driven, InHandler
  <2>3. CASE worker' = Idle /\ Closed(e, worker.job)
    BY <2>3 DEF Closed, Driven, Idle, InHandler
  <2>4. CASE SameQueue(e) /\ (Driven(e)' => Driven(e))
    BY <2>4 DEF SameQueue
  <2>5. CASE SameQueue(e) /\ worker.pc \in InHandler
    BY <1>1, <2>5 DEF SameQueue, Driven
  <2>6. QED
    BY <1>2, <1>4, <2>1, <2>2, <2>3, <2>4, <2>5 DEF Passes, InHandler
<1>5. QED
  BY <1>3, <1>4 DEF WorkStep

LEMMA PipelinesStep ==
    ASSUME Inv, OwedOrStray, Asked, NEW e \in Episode, SeenFrom(e),
           Exists(e) => Pipelines(e) <= 1 + manual, manual' \in Nat
    PROVE  Exists(e)' => Pipelines(e)' <= 1 + manual'
<1> SUFFICES ASSUME Exists(e)'
             PROVE  Pipelines(e)' <= 1 + manual'
  OBVIOUS
<1> DEFINE n == Cardinality(PendingJobs(e))
<1> /\ n \in Nat /\ (n = 0 <=> PendingJobs(e) = {}) /\ ep[e] \in EpisodeRow
    /\ manual \in Nat /\ api \in [Episode -> {"none", "enqueue", "delete"}]
  BY PendingCount DEF Inv, TypeOK
<1>1. /\ Pipelines(e) = n + (IF api[e] = "enqueue" THEN 1 ELSE 0)
                          + (IF Driven(e) THEN 1 ELSE 0)
      /\ Pipelines(e)' = Cardinality(PendingJobs(e)')
                            + (IF api'[e] = "enqueue" THEN 1 ELSE 0)
                            + (IF Driven(e)' THEN 1 ELSE 0)
  BY DEF Pipelines
<1> HIDE DEF n
<1>2. Driven(e) => OnIt(e)
  BY DEF Driven, OnIt, InHandler
<1>3. UNCHANGED worker => (Driven(e)' <=> Driven(e))
  BY DEF Driven
<1>4. CASE Away(e)
  <2>1. /\ Cardinality(PendingJobs(e)') = n /\ api'[e] = api[e] /\ Exists(e)
        /\ (Driven(e)' <=> Driven(e)) /\ manual' >= manual
    BY <1>3, <1>4 DEF Away, SameRow, SameQueue, Exists, Driven, OnIt, InHandler, n
  <2>2. Pipelines(e)' = Pipelines(e) /\ Pipelines(e) \in Nat
    BY <1>1, <2>1
  <2>3. QED
    BY <2>1, <2>2
<1>5. CASE WorkStep(e)
  <2>1. Exists(e) /\ api'[e] = api[e] /\ manual' = manual
    BY <1>5 DEF WorkStep, budget
  <2>2. QED
    BY <1>1, <1>5, <2>1, WorkCount DEF n
<1>6. ASSUME NEW j \in JobId, Polled(e, j) PROVE Pipelines(e)' <= 1 + manual'
  <2>1. /\ Cardinality(PendingJobs(e)') = n - 1 /\ Exists(e) /\ api'[e] = api[e]
        /\ manual' = manual /\ ~Driven(e)
    BY <1>6, ClaimedCount DEF Polled, SameRow, Exists, budget, Driven, InHandler, n
  <2>2. QED
    BY <1>1, <2>1
<1>7. ASSUME NEW j \in JobId, Reaped(e, j) PROVE Pipelines(e)' <= 1 + manual'
  <2>1. /\ Cardinality(PendingJobs(e)') = n /\ Exists(e) /\ api'[e] = api[e]
        /\ manual' = manual /\ ~Driven(e)'
    BY <1>7 DEF Reaped, Closed, budget, Driven, InHandler, n
  <2>2. QED
    BY <1>1, <2>1
<1>8. CASE WorkerDies(e)
  <2>1. /\ Cardinality(PendingJobs(e)') = n /\ Exists(e) /\ api'[e] = api[e]
        /\ manual' = manual /\ ~Driven(e)'
    BY <1>8 DEF WorkerDies, SameQueue, SameRow, Exists, Driven, Idle, InHandler, n
  <2>2. QED
    BY <1>1, <2>1
<1>9. CASE Swept(e)
  <2>1. n = 0 /\ ~Driven(e) /\ Cardinality(PendingJobs(e)') = n + 1
    BY <1>9, AddedCount DEF Swept, Stranded, Active, Driven, InHandler, n
  <2>2. api[e] # "enqueue"
    <3>1. Exists(e) /\ ~Active(e) /\ ep[e].status \in Mid
      BY <1>9, MidExists DEF Swept, Stranded
    <3>2. QED
      BY <3>1, CarriedActive DEF OwedOrStray, Owed, Stray
  <2>3. QED
    BY <1>1, <1>3, <1>9, <2>1, <2>2 DEF Swept, budget
<1>10. CASE Fed(e) \/ \E k \in {"url", "upload"} : Submitted(e, k)
  <2>1. ep[e].status = "absent" /\ n = 0 /\ api[e] = "none" /\ ~Driven(e)
    BY <1>2, <1>10, JoblessRow DEF Fed, Submitted, Exists, Asked, n, OnIt, Inv, ClaimHeld
  <2>2. CASE Fed(e)
    <3>1. /\ Cardinality(PendingJobs(e)') = n + 1 /\ manual' = manual /\ UNCHANGED worker
          /\ api'[e] = api[e]
      BY <2>2, AddedCount DEF Fed, budget, n
    <3>2. QED
      BY <1>1, <1>3, <2>1, <3>1
  <2>3. CASE \E k \in {"url", "upload"} : Submitted(e, k)
    BY <1>1, <1>3, <2>1, <2>3 DEF Submitted, SameQueue, budget, n
  <2>4. QED
    BY <1>10, <2>2, <2>3
<1>11. CASE Retried(e)
  BY <1>1, <1>3, <1>11 DEF Retried, SameQueue, n
<1>12. CASE Ingested(e)
  <2>1. /\ Cardinality(PendingJobs(e)') = n + 1 /\ manual' = manual /\ UNCHANGED worker
        /\ api[e] = "enqueue" /\ api'[e] = "none" /\ Exists(e)
    BY <1>12, AddedCount DEF Ingested, budget, n
  <2>2. QED
    BY <1>1, <1>3, <2>1
<1>13. CASE Deleting(e) \/ Abandoned(e)
  <2>1. /\ Exists(e) /\ PendingJobs(e)' = PendingJobs(e) /\ manual' = manual
        /\ api'[e] # "enqueue" /\ UNCHANGED worker
    BY <1>13 DEF Deleting, Abandoned, SameQueue, SameRow, Exists, budget
  <2>2. QED
    BY <1>1, <1>3, <2>1 DEF n
<1>14. CASE Deleted(e) \/ Vanished(e)
  BY <1>14, ResetStatus DEF Vanished, Exists
<1>15. QED
  BY <1>4, <1>5, <1>6, <1>7, <1>8, <1>9, <1>10, <1>11, <1>12, <1>13, <1>14
     DEF SeenFrom, RequestStep

Chains == OwnClaim /\ LeakedClaims /\ OwedOrStray /\ Asked /\ PipelinesBounded

LEMMA ChainsStep == Inv /\ Chains /\ [Next]_vars => Inv' /\ Chains'
<1>1. Inv /\ PipelinesBounded /\ OwedOrStray /\ Asked /\ [Next]_vars => PipelinesBounded'
  <2>1. Inv' => manual' \in Nat
    BY DEF Inv, TypeOK
  <2>2. QED
    BY <2>1, InvStep, SeenStep, PipelinesStep DEF PipelinesBounded
<1>2. QED
  BY <1>1, InvStep, OwnClaimStep, LeakedStep, OwedOrStrayStep, AskedStep DEF Chains

LEMMA ChainsInit == Init => Inv /\ Chains
<1>1. ASSUME Init PROVE Chains
  <2>1. /\ worker = Idle /\ crashes = 0 /\ manual = 0
        /\ \A e \in Episode : api[e] = "none" /\ PendingJobs(e) = {}
    BY <1>1, NoJobTyped DEF Init, QueueInit, PendingJobs, JobsOf
  <2>2. OpenClaims = {} /\ worker.pc = "idle"
    BY <1>1, <2>1, NoJobTyped DEF Init, QueueInit, OpenClaims, Idle
  <2>3. OwnClaim /\ LeakedClaims
    <3>1. OpenClaims \ Claim = {}
      BY <2>2
    <3>2. QED
      BY <2>1, <2>2, <3>1, FS_EmptySet DEF OwnClaim, LeakedClaims
  <2>4. Asked
    BY <2>1 DEF Asked
  <2>5. PipelinesBounded
    BY <2>1, <2>2, FS_EmptySet DEF PipelinesBounded, Pipelines, Driven, InHandler
  <2>6. QED
    BY <1>1, <2>3, <2>4, <2>5, OwedInit DEF Chains
<1>2. QED
  BY <1>1, InitInv

\* The chains of jobs, in every reachable state.
LEMMA ChainsInvariant == Spec => [](Inv /\ Chains)
BY ChainsInit, ChainsStep, PTL DEF Spec

\* PipelinesBounded, for every number of episodes, jobs, crashes and manual retries:
\* automatic retries, both sweeps and crashes never fork an episode.
THEOREM NeverForked == Spec => []PipelinesBounded
<1>1. Chains => PipelinesBounded
  BY DEF Chains
<1>2. QED
  BY ChainsInvariant, <1>1, PTL

-----------------------------------------------------------------------------
(* One chain: without manual retries.                                      *)

LEMMA OneChain ==
    ASSUME MaxManual = 0, Inv, PipelinesBounded, NEW e \in Episode, Exists(e)
    PROVE  /\ Driven(e) => PendingJobs(e) = {} /\ api[e] # "enqueue"
           /\ api[e] = "enqueue" => PendingJobs(e) = {}
           /\ \A p, q \in PendingJobs(e) : p = q
<1> DEFINE n == Cardinality(PendingJobs(e))
<1>1. /\ n \in Nat /\ (n = 0 <=> PendingJobs(e) = {}) /\ manual = 0
      /\ n = 1 => \A p, q \in PendingJobs(e) : p = q
  <2>1. n = 1 => \E x : PendingJobs(e) = {x}
    BY PendingCount, FS_Singleton
  <2>2. QED
    BY <2>1, PendingCount DEF Inv, TypeOK
<1>2. n + (IF api[e] = "enqueue" THEN 1 ELSE 0) + (IF Driven(e) THEN 1 ELSE 0) <= 1
  BY <1>1 DEF PipelinesBounded, Pipelines
<1> HIDE DEF n
<1>3. QED
  BY <1>1, <1>2

-----------------------------------------------------------------------------
(* What a stage finds when it starts.                                      *)

\* The stages that work on segments.
Late == Task \ {"download", "transcribe"}

JobsReady(e) == \A j \in PendingJobs(e) : jobs[j].task \in Late => ep[e].segs
RowReady(e) == ep[e].status \in Mid \ {"downloading", "transcribing"} => ep[e].segs
RunReady(e) ==
    Driven(e) /\ (worker.task \in Late \/ (worker.task = "transcribe" /\ worker.pc = "handoff"))
        => ep[e].segs
WorkReady(e) ==
    OnIt(e) /\ worker.pc = "work" =>
        /\ worker.task \in {"transcribe", "diarize"} => ep[e].audio # "none"
        /\ worker.task = "infer" => ep[e].diar

InputsOf(e) == JobsReady(e) /\ RowReady(e) /\ RunReady(e) /\ WorkReady(e)
InputsHeld == \A e \in Episode : Exists(e) => InputsOf(e)

LEMMA LateTasks ==
    /\ Late = {"diarize", "chunk", "embed", "infer", "archive"}
    /\ \A t \in Task : StatusOf[t] \in Mid \ {"downloading", "transcribing"} => t \in Late
    /\ \A t \in Task : NextTask[t] \in Late /\ t # "archive" => t \in Late \/ t = "transcribe"
    /\ \A t \in Late : StatusOf[t] \notin {"downloading", "transcribing"}
BY StageStatus DEF Late, Task

\* Where the worker stands after a step of the handler.
LEMMA ToWhere ==
    ASSUME NEW e \in Episode, worker.ep = e, NEW pc, To(pc)
    PROVE  /\ Driven(e)' => pc \in InHandler \cup {"raised", "requeue"}
           /\ worker'.task = worker.task /\ worker'.pc = pc
BY DEF To, Driven

LEMMA WorkInputs ==
    ASSUME MaxManual = 0, Inv, PipelinesBounded, NEW e \in Episode, WorkStep(e), InputsOf(e)
    PROVE  InputsOf(e)'
<1> /\ ep[e] \in EpisodeRow /\ OnIt(e) /\ worker.ep = e /\ worker.task \in Task /\ Exists(e)
    /\ worker.pc = "handoff" => worker.task # "archive"
  BY DEF Inv, TypeOK, WorkStep, OnIt, ClaimHeld
<1> USE DEF InputsOf
<1>1. CASE FromBegin(e) /\ SameQueue(e)
  <2> /\ worker.pc = "begin" /\ Driven(e) /\ (worker.task \in Late => ep[e].segs)
    BY <1>1 DEF FromBegin, Driven, InHandler, RunReady
  <2>1. CASE /\ worker.task # "diarize" /\ To("work") /\ Wrote(e, StatusOf[worker.task])
             /\ worker.task = "transcribe" => ep[e].audio # "none"
             /\ worker.task = "infer" => ep[e].diar
    <3>1. /\ ep'[e].status = StatusOf[worker.task] /\ ep'[e].segs = ep[e].segs
          /\ ep'[e].audio = ep[e].audio /\ ep'[e].diar = ep[e].diar
      BY <2>1 DEF Wrote, EpisodeRow
    <3>2. JobsReady(e)'
      BY <1>1, <3>1 DEF JobsReady, SameQueue, SameTasks, OpenJobs
    <3>3. RowReady(e)'
      BY <3>1, LateTasks DEF RowReady
    <3>4. RunReady(e)' /\ WorkReady(e)'
      BY <2>1, <3>1, ToWhere DEF RunReady, WorkReady
    <3>5. QED
      BY <3>2, <3>3, <3>4
  <2>2. CASE /\ SameRow(e)
             /\ \/ worker.task = "diarize" /\ ep[e].audio # "none" /\ To("work")
                \/ worker.task = "transcribe" /\ To("finish")
                \/ worker.task = "infer" /\ To("handoff")
    <3>1. JobsReady(e)' /\ RowReady(e)'
      BY <1>1, <2>2 DEF JobsReady, RowReady, SameQueue, SameTasks, OpenJobs, SameRow
    <3>2. RunReady(e)' /\ WorkReady(e)'
      BY <2>2, ToWhere, LateTasks DEF RunReady, WorkReady, SameRow, InHandler
    <3>3. QED
      BY <3>1, <3>2
  <2>3. QED
    BY <1>1, <2>1, <2>2 DEF FromBegin
<1>2. CASE FromWork(e) /\ SameQueue(e)
  <2> /\ worker.pc = "work" /\ Driven(e) /\ (worker.task \in Late => ep[e].segs)
    BY <1>2 DEF FromWork, Driven, InHandler, RunReady
  <2>1. CASE worker.task = "transcribe" /\ To("handoff")
             /\ ep'[e] = [ep[e] EXCEPT !.status = "diarizing", !.segs = TRUE]
    <3>1. ep'[e].segs /\ worker'.pc = "handoff"
      BY <2>1 DEF EpisodeRow, To
    <3>2. QED
      BY <3>1 DEF JobsReady, RowReady, RunReady, WorkReady
  <2>2. CASE worker.task = "transcribe" /\ To("finish")
             /\ ep'[e] = [ep[e] EXCEPT !.status = "no_speech", !.segs = FALSE, !.err = "NO_SPEECH"]
    <3>1. PendingJobs(e)' = {}
      BY <1>2, OneChain DEF SameQueue
    <3>2. ep'[e].status \notin Mid
      BY <2>2, MidStatus DEF EpisodeRow
    <3>3. QED
      BY <2>2, <3>1, <3>2, ToWhere DEF JobsReady, RowReady, RunReady, WorkReady, InHandler
  <2>3. CASE /\ ep'[e].status = ep[e].status /\ ep'[e].segs = ep[e].segs
             /\ worker.task # "transcribe" /\ (To("file") \/ To("handoff"))
    <3>1. JobsReady(e)' /\ RowReady(e)'
      BY <1>2, <2>3 DEF JobsReady, RowReady, SameQueue, SameTasks, OpenJobs
    <3>2. RunReady(e)' /\ WorkReady(e)'
      BY <2>3, ToWhere DEF RunReady, WorkReady
    <3>3. QED
      BY <3>1, <3>2
  <2>4. QED
    BY <1>2, <2>1, <2>2, <2>3 DEF FromWork, SameRow, EpisodeRow
<1>3. CASE FromFile(e) /\ SameQueue(e)
  <2> /\ worker.pc = "file" /\ Driven(e) /\ (worker.task \in Late => ep[e].segs)
    BY <1>3 DEF FromFile, Driven, InHandler, RunReady
  <2>1. ep'[e].segs = ep[e].segs /\ (ep'[e].status \in Mid => ep'[e].status = ep[e].status)
    <3>1. CASE ep'[e] = [ep[e] EXCEPT !.audio = "raw"]
      BY <3>1 DEF EpisodeRow
    <3>2. CASE \E a \in AudioPath : ep'[e] = [ep[e] EXCEPT !.status = "done", !.audio = a]
      <4>1. PICK a \in AudioPath : ep'[e] = [ep[e] EXCEPT !.status = "done", !.audio = a]
        BY <3>2
      <4>2. ep'[e].segs = ep[e].segs /\ ep'[e].status = "done"
        BY <4>1 DEF EpisodeRow
      <4>3. QED
        BY <4>2, MidStatus
    <3>3. CASE ep'[e] = [ep[e] EXCEPT !.status = "no_speech", !.err = "NO_SPEECH"]
      <4>1. ep'[e].segs = ep[e].segs /\ ep'[e].status = "no_speech"
        BY <3>3 DEF EpisodeRow
      <4>2. QED
        BY <4>1, MidStatus
    <3>4. QED
      BY <1>3, <3>1, <3>2, <3>3 DEF FromFile
  <2>2. worker'.task = worker.task /\ worker.task # "transcribe" /\ worker'.pc # "work"
    BY <1>3 DEF FromFile, To
  <2>3. JobsReady(e)' /\ RowReady(e)'
    BY <1>3, <2>1 DEF JobsReady, RowReady, SameQueue, SameTasks, OpenJobs
  <2>4. RunReady(e)' /\ WorkReady(e)'
    BY <2>1, <2>2 DEF RunReady, WorkReady
  <2>5. QED
    BY <2>3, <2>4
<1>4. CASE (FromRaised(e) \/ Fails(e)) /\ SameQueue(e)
  <2>1. ep'[e].segs = ep[e].segs /\ ep'[e].status \notin Mid
    <3>1. ep'[e].status \in {"failed", "pending"}
      BY <1>4 DEF FromRaised, Fails, SameRow, EpisodeRow
    <3>2. ep'[e].segs = ep[e].segs
      BY <1>4 DEF FromRaised, Fails, SameRow, EpisodeRow
    <3>3. QED
      BY <3>1, <3>2, MidStatus
  <2>2. /\ worker'.task = worker.task /\ worker'.pc \in {"drop", "requeue", "alert"}
        /\ Driven(e)' => Driven(e)
    BY <1>4 DEF FromRaised, Fails, To, Driven, InHandler
  <2>3. JobsReady(e)' /\ RowReady(e)'
    BY <1>4, <2>1 DEF JobsReady, RowReady, SameQueue, SameTasks, OpenJobs
  <2>4. RunReady(e)' /\ WorkReady(e)'
    BY <2>1, <2>2 DEF RunReady, WorkReady
  <2>5. QED
    BY <2>3, <2>4
<1>5. CASE Passes(e)
  <2> SameRow(e)
    BY <1>5 DEF Passes
  <2>1. RowReady(e)'
    BY DEF RowReady, SameRow
  <2>2. RunReady(e)' /\ WorkReady(e)'
    <3>1. CASE worker' = Idle
      BY <3>1 DEF Idle, Driven, InHandler, RunReady, WorkReady, Late
    <3>2. CASE To("finish") \/ To("drop")
      BY <3>2 DEF To, Driven, InHandler, RunReady, WorkReady
    <3>3. CASE worker.pc \in InHandler /\ To("raised")
      <4>1. Driven(e)
        BY <3>3 DEF Driven
      <4>2. QED
        BY <3>3, <4>1 DEF To, RunReady, WorkReady, SameRow
    <3>4. QED
      BY <1>5, <3>1, <3>2, <3>3 DEF Passes, To
  <2>3. JobsReady(e)'
    <3>1. CASE worker.pc = "handoff" /\ Added(e, NextTask[worker.task], TRUE)
      <4>1. Driven(e)
        BY <3>1 DEF Driven, InHandler
      <4>2. NextTask[worker.task] \in Late => ep[e].segs
        <5>1. worker.task # "archive" /\ worker.task \in Task
          BY <3>1
        <5>2. NextTask[worker.task] \in Late
                 => worker.task \in Late \/ worker.task = "transcribe"
          BY <5>1, LateTasks
        <5>3. QED
          BY <3>1, <4>1, <5>2 DEF RunReady
      <4>3. QED
        BY <3>1, <4>2 DEF JobsReady, Added, SameTasks, OpenJobs, SameRow
    <3>2. CASE worker.pc = "requeue" /\ Added(e, worker.task, FALSE)
      <4>1. worker.task \in Late => ep[e].segs
        BY <3>2 DEF RunReady, Driven
      <4>2. QED
        BY <3>2, <4>1 DEF JobsReady, Added, SameTasks, OpenJobs, SameRow
    <3>3. CASE PendingJobs(e)' = PendingJobs(e) /\ SameTasks(e)
      BY <3>3 DEF JobsReady, SameTasks, OpenJobs, SameRow
    <3>4. QED
      BY <1>5, <3>1, <3>2, <3>3 DEF Passes, SameQueue, Closed
  <2>4. QED
    BY <2>1, <2>2, <2>3
<1>6. QED
  BY <1>1, <1>2, <1>3, <1>4, <1>5 DEF WorkStep

LEMMA NotRetried == ASSUME MaxManual = 0, Inv, NEW e \in Episode PROVE ~Retried(e)
BY DEF Inv, TypeOK, Retried

LEMMA InputsStep ==
    ASSUME MaxManual = 0, Inv, PipelinesBounded, NEW e \in Episode, SeenFrom(e),
           Exists(e) => InputsOf(e)
    PROVE  Exists(e)' => InputsOf(e)'
<1> SUFFICES ASSUME Exists(e)' PROVE InputsOf(e)'
  OBVIOUS
<1> ep[e] \in EpisodeRow /\ worker \in Worker
  BY DEF Inv, TypeOK
<1> USE DEF InputsOf
<1>1. ~OnIt(e)' => RunReady(e)' /\ WorkReady(e)'
  BY DEF RunReady, WorkReady, OnIt, Driven, InHandler
<1>2. ASSUME worker' = worker, SameRow(e), Exists(e) PROVE RunReady(e)' /\ WorkReady(e)'
  BY <1>2 DEF RunReady, WorkReady, OnIt, Driven, SameRow
<1>3. ASSUME ep'[e].segs = ep[e].segs, Exists(e), PendingJobs(e)' = PendingJobs(e), SameTasks(e)
      PROVE  JobsReady(e)'
  BY <1>3 DEF JobsReady, SameTasks, OpenJobs
<1>4. SameRow(e) => Exists(e) /\ ep'[e].segs = ep[e].segs
                    /\ (Exists(e) /\ RowReady(e) => RowReady(e)')
  BY DEF SameRow, RowReady, Exists
<1>5. CASE Away(e)
  BY <1>1, <1>2, <1>3, <1>4, <1>5 DEF Away, SameQueue
<1>6. ASSUME NEW j \in JobId, Polled(e, j) PROVE InputsOf(e)'
  <2>1. /\ worker'.pc = "begin" /\ worker'.task = jobs[j].task /\ j \in PendingJobs(e)
        /\ PendingJobs(e)' \subseteq PendingJobs(e) /\ SameTasks(e) /\ SameRow(e)
    BY <1>6 DEF Polled, Claimed, Idle
  <2>2. JobsReady(e)'
    BY <1>4, <2>1 DEF JobsReady, SameTasks, OpenJobs
  <2>3. RunReady(e)' /\ WorkReady(e)'
    BY <1>4, <2>1 DEF JobsReady, RunReady, WorkReady
  <2>4. QED
    BY <1>4, <2>1, <2>2, <2>3
<1>7. CASE WorkerDies(e)
  <2>1. ~OnIt(e)'
    BY <1>7 DEF WorkerDies, OnIt, Idle
  <2>2. QED
    BY <1>1, <1>3, <1>4, <1>7, <2>1 DEF WorkerDies, SameQueue
<1>8. ASSUME NEW j \in JobId, Reaped(e, j) PROVE InputsOf(e)'
  <2>1. ep'[e].status = "failed" /\ ep'[e].segs = ep[e].segs /\ Exists(e)
    BY <1>8 DEF Reaped, EpisodeRow
  <2>2. ~OnIt(e)' /\ PendingJobs(e)' = PendingJobs(e) /\ SameTasks(e)
    BY <1>8 DEF Reaped, OnIt, Closed
  <2>3. QED
    BY <1>1, <1>3, <2>1, <2>2, MidStatus DEF RowReady
<1>9. CASE Swept(e)
  <2>1. PICK t \in Task : StatusOf[t] = ep[e].status /\ Added(e, t, TRUE)
    BY <1>9 DEF Swept
  <2>2. ep'[e].status = "pending" /\ ep'[e].segs = ep[e].segs
    BY <1>9 DEF Swept, Wrote, EpisodeRow
  <2>3. ~OnIt(e)' /\ Exists(e) /\ ep[e].status \in Mid
    BY <1>9, MidExists DEF Swept, OnIt, Stranded
  <2>4. t \in Late => ep[e].segs
    BY <2>1, <2>3, LateTasks DEF RowReady
  <2>5. JobsReady(e)'
    BY <2>1, <2>2, <2>3, <2>4 DEF JobsReady, Added, SameTasks, OpenJobs
  <2>6. QED
    BY <1>1, <2>2, <2>3, <2>5, MidStatus DEF RowReady
<1>10. CASE Fed(e) \/ \E k \in {"url", "upload"} : Submitted(e, k)
  <2>1. PendingJobs(e) = {} /\ ~OnIt(e) /\ worker' = worker
    BY <1>10, JoblessRow DEF Fed, Submitted, Exists, OnIt, Inv, ClaimHeld
  <2>2. \A j \in PendingJobs(e)' : jobs'[j].task = "download"
    BY <1>10, <2>1 DEF Fed, Submitted, Added, SameQueue
  <2>3. ep'[e].status \notin Mid
    BY <1>10, ResetStatus, MidStatus
  <2>4. QED
    BY <1>1, <2>1, <2>2, <2>3 DEF JobsReady, RowReady, OnIt, Late
<1>11. CASE Ingested(e)
  <2>1. PICK t \in {"download", "transcribe"} : Added(e, t, TRUE)
    BY <1>11 DEF Ingested
  <2>2. JobsReady(e)'
    BY <1>4, <1>11, <2>1 DEF Ingested, JobsReady, Added, SameTasks, OpenJobs, Late
  <2>3. QED
    BY <1>2, <1>4, <1>11, <2>2 DEF Ingested
<1>12. CASE Deleting(e) \/ Abandoned(e)
  BY <1>2, <1>3, <1>4, <1>12 DEF Deleting, Abandoned, SameQueue
<1>13. CASE Deleted(e) \/ Vanished(e)
  BY <1>13, ResetStatus DEF Vanished, Exists
<1>14. CASE WorkStep(e)
  BY <1>14, WorkInputs DEF WorkStep
<1>15. QED
  BY <1>5, <1>6, <1>7, <1>8, <1>9, <1>10, <1>11, <1>12, <1>13, <1>14, NotRetried
     DEF SeenFrom, RequestStep

LEMMA InputsInit == ASSUME Init PROVE InputsHeld
<1>1. ASSUME NEW e \in Episode PROVE InputsOf(e)
  <2>1. PendingJobs(e) = {} /\ worker.pc = "idle"
    BY NoJobTyped DEF Init, QueueInit, PendingJobs, JobsOf, Idle
  <2>2. ep[e] = NoRow("absent") \/ \E s \in Stragglers : ep[e] = StragglerRow(s)
    BY DEF Init
  <2>3. RowReady(e)
    <3>1. CASE ep[e] = NoRow("absent")
      BY <3>1, MidStatus DEF RowReady, NoRow, Row
    <3>2. ASSUME NEW s \in Stragglers, ep[e] = StragglerRow(s) PROVE RowReady(e)
      <4>1. ep[e].status = s /\ ep[e].segs = (s \notin {"downloading", "transcribing"})
        BY <3>2 DEF StragglerRow, Row
      <4>2. QED
        BY <4>1 DEF RowReady
    <3>3. QED
      BY <2>2, <3>1, <3>2
  <2>4. QED
    BY <2>1, <2>3 DEF InputsOf, JobsReady, RunReady, WorkReady, OnIt, Driven, InHandler
<1>2. QED
  BY <1>1 DEF InputsHeld

LEMMA InputsHeldStep ==
    ASSUME MaxManual = 0, Inv, Chains, InputsHeld, [Next]_vars
    PROVE  InputsHeld'
BY SeenStep, InputsStep DEF InputsHeld, Chains

\* StageInputs, for every number of episodes, jobs and crashes, without manual retries: a
\* stage starts its computation only on what the stages before it left.
THEOREM InputsReady ==
    ASSUME MaxManual = 0
    PROVE  Spec => []StageInputs
<1>1. Init => Inv /\ Chains /\ InputsHeld
  BY ChainsInit, InputsInit
<1>2. Inv /\ Chains /\ InputsHeld /\ [Next]_vars => Inv' /\ Chains' /\ InputsHeld'
  BY ChainsStep, InputsHeldStep
<1>3. Inv /\ InputsHeld => StageInputs
  <2> SUFFICES ASSUME Inv, InputsHeld, worker.pc = "work", Exists(worker.ep)
               PROVE  /\ worker.task \in {"transcribe", "diarize"} => Here.audio # "none"
                      /\ worker.task \notin {"download", "transcribe"} => Here.segs
                      /\ worker.task = "infer" => Here.diar
    BY DEF StageInputs
  <2>1. PICK e \in Episode : worker.ep = e
    BY WorkerFields DEF InHandler
  <2>2. worker.task \in Task /\ OnIt(e) /\ Driven(e) /\ InputsOf(e) /\ Here = ep[e]
    BY <2>1, WorkerFields DEF InHandler, OnIt, Driven, InputsHeld, Here
  <2>3. QED
    BY <2>2 DEF InputsOf, RunReady, WorkReady, Late
<1>4. QED
  BY <1>1, <1>2, <1>3, PTL DEF Spec

-----------------------------------------------------------------------------
(* The course of an episode: its claims, its job and its status agree.     *)

\* Claims are older than what is pending, and the worker's is the last of them.
InOrder(e) ==
    /\ \A q \in PickedJobs(e), p \in PendingJobs(e) : q < p
    /\ Driven(e) => \A q \in PickedJobs(e) : q <= worker.job
    /\ OnIt(e) => jobs[worker.job].task = worker.task

\* What a handler's step does to the jobs of its episode.
LEMMA WorkQueue ==
    ASSUME Inv, NEW e \in Episode, WorkStep(e)
    PROVE  \/ SameQueue(e) /\ (Driven(e)' => Driven(e))
           \/ \E t, d : Added(e, t, d) /\ ~Driven(e)'
           \/ worker' = Idle /\ Closed(e, worker.job)
<1>1. worker.ep = e
  BY DEF WorkStep, OnIt
<1>2. CASE (FromBegin(e) \/ FromWork(e) \/ FromFile(e) \/ FromRaised(e) \/ Fails(e))
           /\ SameQueue(e)
  BY <1>1, <1>2 DEF FromBegin, FromWork, FromFile, FromRaised, Fails, Driven, InHandler
<1>3. CASE Passes(e)
  <2>1. To("finish") \/ To("drop") => ~Driven(e)'
    BY DEF To, Driven, InHandler
  <2>2. CASE SameQueue(e) /\ worker.pc = "alert" /\ worker'.pc \in {"finish", "drop"}
    BY <2>2 DEF Driven, InHandler
  <2>3. CASE SameQueue(e) /\ worker.pc \in InHandler
    BY <1>1, <2>3 DEF Driven
  <2>4. QED
    BY <1>3, <2>1, <2>2, <2>3 DEF Passes, InHandler
<1>4. QED
  BY <1>2, <1>3 DEF WorkStep

LEMMA OrderStep ==
    ASSUME MaxManual = 0, Inv, PipelinesBounded, NEW e \in Episode, SeenFrom(e),
           Exists(e) => InOrder(e)
    PROVE  Exists(e)' => InOrder(e)'
<1> SUFFICES ASSUME Exists(e)' PROVE InOrder(e)'
  OBVIOUS
<1> ep[e] \in EpisodeRow /\ PendingJobs(e) \subseteq Nat /\ PickedJobs(e) \subseteq Nat
  BY DEF Inv, TypeOK, PendingJobs, PickedJobs, JobsOf, JobId
<1>1. OnIt(e) /\ Exists(e) => worker.job \in PickedJobs(e)
  BY DEF OnIt, Inv, ClaimHeld, PickedJobs, JobsOf
<1>2. ~OnIt(e)' => ~Driven(e)'
  BY DEF OnIt, Driven, InHandler
<1>3. ASSUME SameQueue(e), Exists(e), ~OnIt(e)' \/ worker' = worker
      PROVE  InOrder(e)'
  <2>1. CASE ~OnIt(e)'
    BY <1>2, <1>3, <2>1 DEF InOrder, SameQueue
  <2>2. CASE worker' = worker
    <3>1. OnIt(e) => jobs'[worker.job].task = jobs[worker.job].task
      BY <1>1, <1>3 DEF SameQueue, SameTasks, OpenJobs
    <3>2. QED
      BY <1>3, <2>2, <3>1 DEF InOrder, SameQueue, OnIt, Driven
  <2>3. QED
    BY <1>3, <2>1, <2>2
<1>4. CASE Away(e)
  <2>1. Exists(e)
    BY <1>4 DEF Away, SameRow, Exists
  <2>2. QED
    BY <1>3, <1>4, <2>1 DEF Away
<1>5. CASE WorkStep(e)
  <2> Exists(e) /\ OnIt(e)
    BY <1>5 DEF WorkStep
  <2>1. CASE worker' = Idle /\ Closed(e, worker.job)
    <3>1. ~OnIt(e)'
      BY <2>1 DEF Idle, OnIt
    <3>2. QED
      BY <1>2, <2>1, <3>1 DEF InOrder, Closed
  <2>2. CASE OnIt(e)' /\ worker'.job = worker.job /\ worker'.task = worker.task
             /\ PickedJobs(e)' = PickedJobs(e) /\ SameTasks(e)
    <3>1. jobs'[worker'.job].task = worker'.task
      BY <1>1, <2>2 DEF InOrder, SameTasks, OpenJobs
    <3>2. Driven(e)' /\ Driven(e) => \A q \in PickedJobs(e)' : q <= worker'.job
      BY <2>2 DEF InOrder
    <3>3. CASE SameQueue(e) /\ (Driven(e)' => Driven(e))
      BY <3>1, <3>2, <3>3 DEF InOrder, SameQueue
    <3>4. CASE \E t, d : Added(e, t, d) /\ ~Driven(e)'
      <4>1. \A q \in PickedJobs(e), p \in PendingJobs(e)' : q < p
        BY <3>4 DEF InOrder, Added, OpenJobs
      <4>2. QED
        BY <2>2, <3>1, <3>4, <4>1 DEF InOrder
    <3>5. QED
      BY <1>5, <2>1, <3>3, <3>4, WorkQueue
  <2>3. SameTasks(e)
    BY <1>5, WorkQueue DEF SameQueue, Added, Closed
  <2>4. QED
    BY <1>5, <2>1, <2>2, <2>3, WorkGoesOn
<1>6. ASSUME NEW j \in JobId, Polled(e, j) PROVE InOrder(e)'
  <2>1. /\ worker'.job = j /\ worker'.task = jobs[j].task
        /\ j \in PendingJobs(e) /\ PickedJobs(e)' = PickedJobs(e) \cup {j}
        /\ PendingJobs(e)' = PendingJobs(e) \ {j} /\ SameTasks(e) /\ Exists(e)
    BY <1>6 DEF Polled, Claimed, Idle, SameRow, Exists
  <2>2. PendingJobs(e)' = {}
    BY <2>1, OneChain
  <2>3. jobs'[j].task = jobs[j].task
    BY <2>1 DEF SameTasks, OpenJobs
  <2>4. \A q \in PickedJobs(e)' : q <= j
    BY <2>1 DEF InOrder
  <2>5. QED
    BY <2>1, <2>2, <2>3, <2>4 DEF InOrder
<1>7. CASE WorkerDies(e)
  <2>1. ~OnIt(e)' /\ Exists(e) /\ SameQueue(e)
    BY <1>7 DEF WorkerDies, OnIt, Idle, SameRow, Exists
  <2>2. QED
    BY <1>3, <2>1
<1>8. ASSUME NEW j \in JobId, Reaped(e, j) PROVE InOrder(e)'
  <2>1. ~OnIt(e)' /\ Exists(e) /\ PendingJobs(e)' = PendingJobs(e)
        /\ PickedJobs(e)' \subseteq PickedJobs(e)
    BY <1>8 DEF Reaped, Closed, OnIt
  <2>2. QED
    BY <1>2, <2>1 DEF InOrder
<1>9. CASE Swept(e) \/ Fed(e) \/ \E k \in {"url", "upload"} : Submitted(e, k)
  <2>1. PickedJobs(e)' = {} /\ ~OnIt(e)'
    <3>1. CASE Swept(e)
      BY <3>1 DEF Swept, Stranded, Active, OnIt, Added
    <3>2. CASE Fed(e) \/ \E k \in {"url", "upload"} : Submitted(e, k)
      BY <3>2, JoblessRow DEF Fed, Submitted, Exists, OnIt, Inv, ClaimHeld, Added, SameQueue
    <3>3. QED
      BY <1>9, <3>1, <3>2
  <2>2. QED
    BY <1>2, <2>1 DEF InOrder
<1>10. CASE Ingested(e)
  <2>1. PICK t : Added(e, t, TRUE)
    BY <1>10 DEF Ingested
  <2>2. worker' = worker /\ Exists(e)
    BY <1>10 DEF Ingested
  <2>3. OnIt(e) => jobs'[worker.job].task = jobs[worker.job].task
    BY <1>1, <2>1, <2>2 DEF Added, SameTasks, OpenJobs
  <2>4. \A q \in PickedJobs(e), p \in PendingJobs(e)' : q < p
    BY <2>1, <2>2 DEF InOrder, Added, OpenJobs
  <2>5. PickedJobs(e)' = PickedJobs(e)
    BY <2>1 DEF Added
  <2>6. QED
    BY <2>2, <2>3, <2>4, <2>5 DEF InOrder, OnIt, Driven
<1>11. CASE Deleting(e) \/ Abandoned(e)
  <2>1. worker' = worker /\ SameQueue(e) /\ Exists(e)
    BY <1>11 DEF Deleting, Abandoned, SameRow, Exists
  <2>2. QED
    BY <1>3, <2>1
<1>12. CASE Deleted(e) \/ Vanished(e)
  BY <1>12, ResetStatus DEF Vanished, Exists
<1>13. QED
  BY <1>4, <1>5, <1>6, <1>7, <1>8, <1>9, <1>10, <1>11, <1>12, NotRetried
     DEF SeenFrom, RequestStep

\* A request adds a job to an episode that has just entered.
EntersOnce(e) == api[e] = "enqueue" => ep[e].status = "pending" /\ ~Active(e)
\* An episode at rest has no job to come, but for archive after its commit.
AtRest(e) ==
    ep[e].status \in {"done", "no_speech"} =>
        /\ PendingJobs(e) = {}
        /\ Driven(e) => /\ ep[e].status = "done" /\ worker.task = "archive"
                        /\ worker.pc \in {"verify", "raised"}
\* A failed episode goes on only if a claim of it was reaped meanwhile.
FailedStops(e) == ep[e].status = "failed" /\ (PendingJobs(e) # {} \/ Driven(e)) => crashes > 0
UnderWork(e) ==
    OnIt(e) =>
        /\ worker.pc \in {"work", "file"} /\ worker.task # "diarize" => ep[e].status \in Mid
        /\ worker.pc = "requeue" => ep[e].status = "pending"
        /\ worker.pc \in {"finish", "drop", "alert"}
              => ep[e].status \in Terminal \/ PendingJobs(e) # {}
\* What transcribe takes for done already is past transcribe.
PastTranscribe(e) ==
    ep[e].status \in AlreadyTranscribed =>
        /\ \A j \in PendingJobs(e) : jobs[j].task \notin {"download", "transcribe"}
        /\ Driven(e) => /\ worker.task # "download"
                        /\ worker.task = "transcribe" => worker.pc \in {"handoff", "raised"}

CourseOf(e) ==
    EntersOnce(e) /\ AtRest(e) /\ FailedStops(e) /\ UnderWork(e) /\ PastTranscribe(e)

\* Statuses that bind nothing.
LEMMA PendingCourse ==
    ASSUME NEW e \in Episode, ep[e].status \in {"pending", "chunking", "downloading", "transcribing"}
    PROVE  AtRest(e) /\ FailedStops(e) /\ PastTranscribe(e)
BY DEF AtRest, FailedStops, PastTranscribe, AlreadyTranscribed

LEMMA WorkCourse ==
    ASSUME MaxManual = 0, Inv, PipelinesBounded, NEW e \in Episode, WorkStep(e), CourseOf(e)
    PROVE  CourseOf(e)'
<1> /\ ep[e] \in EpisodeRow /\ OnIt(e) /\ worker.ep = e /\ worker.task \in Task /\ Exists(e)
    /\ worker.pc = "handoff" => worker.task # "archive"
  BY DEF Inv, TypeOK, WorkStep, OnIt, ClaimHeld
<1> USE DEF CourseOf
<1>1. EntersOnce(e)'
  <2>1. worker.job \in PickedJobs(e)
    BY DEF OnIt, Inv, ClaimHeld, PickedJobs, JobsOf
  <2>2. api'[e] = api[e]
    BY DEF WorkStep
  <2>3. QED
    BY <2>1, <2>2 DEF EntersOnce, Active
<1>2. Driven(e) => PendingJobs(e) = {}
  BY OneChain
<1>3. crashes' = crashes
  BY DEF WorkStep, budget
<1>4. CASE FromBegin(e) /\ SameQueue(e)
  <2> worker.pc = "begin" /\ Driven(e) /\ PendingJobs(e)' = {}
    BY <1>2, <1>4 DEF FromBegin, Driven, InHandler, SameQueue
  <2>1. CASE /\ worker.task # "diarize" /\ To("work") /\ Wrote(e, StatusOf[worker.task])
    <3>1. /\ ep'[e].status = StatusOf[worker.task] /\ worker'.task = worker.task
          /\ worker'.pc = "work"
      BY <2>1 DEF Wrote, EpisodeRow, To
    <3>2. ep'[e].status \in Mid
      BY <3>1, MidStatus
    <3>3. AtRest(e)' /\ FailedStops(e)'
      BY <3>2, MidStatus DEF AtRest, FailedStops
    <3>4. UnderWork(e)'
      BY <3>1, <3>2 DEF UnderWork
    <3>5. worker.task \in {"download", "transcribe"} => ep'[e].status \notin AlreadyTranscribed
      BY <3>1, StageStatus DEF AlreadyTranscribed
    <3>6. PastTranscribe(e)'
      BY <3>1, <3>5 DEF PastTranscribe
    <3>7. QED
      BY <1>1, <3>3, <3>4, <3>6
  <2>2. CASE /\ SameRow(e) /\ worker'.task = worker.task
             /\ \/ worker.task = "diarize" /\ worker'.pc = "work"
                \/ worker.task = "infer" /\ worker'.pc = "handoff"
    <3>1. AtRest(e)' /\ FailedStops(e)'
      BY <1>3, <2>2 DEF AtRest, FailedStops, SameRow
    <3>2. UnderWork(e)' /\ PastTranscribe(e)'
      BY <2>2 DEF UnderWork, PastTranscribe
    <3>3. QED
      BY <1>1, <3>1, <3>2
  <2>3. ~(worker.task = "transcribe" /\ ep[e].status \in AlreadyTranscribed)
    BY DEF PastTranscribe
  <2>4. QED
    BY <1>4, <2>1, <2>2, <2>3 DEF FromBegin, To
<1>5. CASE FromWork(e) /\ SameQueue(e)
  <2> worker.pc = "work" /\ Driven(e) /\ PendingJobs(e)' = {}
    BY <1>2, <1>5 DEF FromWork, Driven, InHandler, SameQueue
  <2>1. CASE worker.task = "transcribe" /\ To("handoff")
             /\ ep'[e] = [ep[e] EXCEPT !.status = "diarizing", !.segs = TRUE]
    <3>1. ep'[e].status = "diarizing" /\ worker'.pc = "handoff" /\ worker'.task = "transcribe"
      BY <2>1 DEF EpisodeRow, To
    <3>2. QED
      BY <1>1, <3>1 DEF AtRest, FailedStops, UnderWork, PastTranscribe
  <2>2. CASE worker.task = "transcribe" /\ To("finish")
             /\ ep'[e] = [ep[e] EXCEPT !.status = "no_speech", !.segs = FALSE, !.err = "NO_SPEECH"]
    <3>1. ep'[e].status = "no_speech" /\ worker'.pc = "finish"
      BY <2>2 DEF EpisodeRow, To
    <3>2. ~Driven(e)'
      BY <3>1 DEF Driven, InHandler
    <3>3. QED
      BY <1>1, <3>1, <3>2
         DEF AtRest, FailedStops, UnderWork, PastTranscribe, Terminal, AlreadyTranscribed
  <2>3. CASE /\ ep'[e].status = ep[e].status /\ worker'.task = worker.task
             /\ worker.task # "transcribe"
             /\ \/ worker.task # "diarize" /\ worker'.pc = "file"
                \/ worker.task # "download" /\ worker'.pc = "handoff"
    <3>1. AtRest(e)' /\ FailedStops(e)'
      BY <1>3, <2>3 DEF AtRest, FailedStops
    <3>2. UnderWork(e)' /\ PastTranscribe(e)'
      BY <2>3 DEF UnderWork, PastTranscribe
    <3>3. QED
      BY <1>1, <3>1, <3>2
  <2>4. QED
    BY <1>5, <2>1, <2>2, <2>3 DEF FromWork, SameRow, EpisodeRow, To
<1>6. CASE FromFile(e) /\ SameQueue(e)
  <2> worker.pc = "file" /\ Driven(e) /\ PendingJobs(e)' = {}
    BY <1>2, <1>6 DEF FromFile, Driven, InHandler, SameQueue
  <2>1. CASE worker.task = "download" /\ To("handoff") /\ ep'[e] = [ep[e] EXCEPT !.audio = "raw"]
    <3>1. ep'[e].status = ep[e].status /\ worker'.pc = "handoff" /\ worker'.task = "download"
      BY <2>1 DEF EpisodeRow, To
    <3>2. AtRest(e)' /\ FailedStops(e)'
      BY <1>3, <2>1, <3>1 DEF AtRest, FailedStops
    <3>3. UnderWork(e)' /\ PastTranscribe(e)'
      BY <2>1, <3>1 DEF UnderWork, PastTranscribe
    <3>4. QED
      BY <1>1, <3>2, <3>3
  <2>2. CASE worker.task = "archive" /\ To("verify") /\ ep'[e].status = "done"
    BY <1>1, <2>2 DEF To, AtRest, FailedStops, UnderWork, PastTranscribe
  <2>3. CASE worker.task = "archive" /\ To("finish") /\ ep'[e].status = "no_speech"
    <3>1. ~Driven(e)'
      BY <2>3 DEF Driven, InHandler, To
    <3>2. QED
      BY <1>1, <2>3, <3>1
         DEF AtRest, FailedStops, UnderWork, PastTranscribe, Terminal, AlreadyTranscribed, To
  <2>4. QED
    BY <1>6, <2>1, <2>2, <2>3 DEF FromFile, EpisodeRow
<1>7. CASE FromRaised(e) /\ SameQueue(e)
  <2> worker.pc = "raised" /\ Driven(e) /\ PendingJobs(e)' = {}
    BY <1>2, <1>7 DEF FromRaised, Driven, SameQueue
  <2>1. CASE ep'[e].status = "failed" /\ worker'.pc = "drop"
    BY <1>1, <2>1 DEF AtRest, FailedStops, UnderWork, PastTranscribe, Terminal,
                      AlreadyTranscribed, Driven, InHandler
  <2>2. CASE ep'[e].status = "pending" /\ worker'.pc = "requeue"
    BY <1>1, <2>2 DEF AtRest, FailedStops, UnderWork, PastTranscribe, AlreadyTranscribed
  <2>3. QED
    BY <1>7, <2>1, <2>2 DEF FromRaised, SameRow, EpisodeRow, To
<1>8. CASE Fails(e) /\ SameQueue(e)
  <2>1. ep'[e].status = "failed" /\ worker'.pc = "alert"
    BY <1>8 DEF Fails, EpisodeRow
  <2>2. Driven(e) /\ PendingJobs(e)' = {} /\ ~Driven(e)'
    BY <1>2, <1>8, <2>1 DEF Fails, Driven, InHandler, SameQueue
  <2>3. QED
    BY <1>1, <2>1, <2>2 DEF AtRest, FailedStops, UnderWork, PastTranscribe, Terminal,
                            AlreadyTranscribed
<1>9. CASE Passes(e)
  <2> ep'[e] = ep[e]
    BY <1>9 DEF Passes, SameRow
  <2>1. CASE worker.pc = "handoff" /\ To("finish") /\ Added(e, NextTask[worker.task], TRUE)
    <3>1. Driven(e) /\ ~Driven(e)' /\ PendingJobs(e)' # {} /\ worker'.pc = "finish"
      BY <2>1 DEF Driven, InHandler, To, Added
    <3>2. ep[e].status \notin {"done", "no_speech"}
      BY <2>1, <3>1 DEF AtRest
    <3>3. NextTask[worker.task] \in {"download", "transcribe"} => worker.task = "download"
      BY <2>1, StageStatus DEF Task
    <3>4. PastTranscribe(e)'
      BY <2>1, <3>1, <3>3 DEF PastTranscribe, Added, SameTasks, OpenJobs
    <3>5. QED
      BY <1>1, <1>3, <3>1, <3>2, <3>4 DEF AtRest, FailedStops, UnderWork
  <2>2. CASE worker.pc = "requeue" /\ To("drop") /\ Added(e, worker.task, FALSE)
    <3>1. PendingJobs(e)' # {} /\ worker'.pc = "drop" /\ ep[e].status = "pending"
      BY <2>2 DEF To, Added, UnderWork
    <3>2. QED
      BY <1>1, <3>1 DEF AtRest, FailedStops, UnderWork, PastTranscribe, AlreadyTranscribed
  <2>3. CASE worker' = Idle /\ Closed(e, worker.job)
    <3>1. PendingJobs(e)' = PendingJobs(e) /\ SameTasks(e) /\ ~Driven(e)' /\ ~OnIt(e)'
      BY <2>3 DEF Closed, Idle, Driven, InHandler, OnIt
    <3>2. QED
      BY <1>1, <1>3, <3>1
         DEF AtRest, FailedStops, UnderWork, PastTranscribe, SameTasks, OpenJobs
  <2>4. CASE SameQueue(e) /\ worker'.pc \in {"finish", "drop"}
             /\ (worker.pc = "alert" \/ ep[e].status = "done")
    <3>1. /\ PendingJobs(e)' = PendingJobs(e) /\ SameTasks(e) /\ ~Driven(e)'
          /\ ep[e].status \in Terminal \/ PendingJobs(e) # {}
      BY <2>4 DEF SameQueue, Driven, InHandler, UnderWork, Terminal
    <3>2. QED
      BY <1>1, <1>3, <2>4, <3>1
         DEF AtRest, FailedStops, UnderWork, PastTranscribe, SameTasks, OpenJobs
  <2>5. CASE SameQueue(e) /\ worker.pc \in InHandler /\ To("raised")
    <3>1. /\ PendingJobs(e)' = PendingJobs(e) /\ SameTasks(e) /\ Driven(e)
          /\ worker'.pc = "raised" /\ worker'.task = worker.task
      BY <2>5 DEF SameQueue, Driven, To
    <3>2. AtRest(e)' /\ FailedStops(e)' /\ UnderWork(e)'
      BY <1>3, <3>1 DEF AtRest, FailedStops, UnderWork
    <3>3. PastTranscribe(e)'
      BY <1>2, <3>1 DEF PastTranscribe
    <3>4. QED
      BY <1>1, <3>2, <3>3
  <2>6. QED
    BY <1>9, <2>1, <2>2, <2>3, <2>4, <2>5 DEF Passes, To
<1>10. QED
  BY <1>4, <1>5, <1>6, <1>7, <1>8, <1>9 DEF WorkStep

\* A claim that is open between jobs has been left by a death.
LEMMA ReapedAfterDeath ==
    ASSUME Inv, LeakedClaims, NEW e \in Episode, NEW j \in JobId, Reaped(e, j)
    PROVE  crashes > 0
<1>1. j \in OpenClaims \ Claim
  BY DEF Reaped, Closed, PickedJobs, JobsOf, OpenClaims, Claim
<1>2. IsFiniteSet(JobId) /\ OpenClaims \ Claim \in SUBSET JobId
  BY FS_Interval, MaxJobsAssumption DEF OpenClaims, JobId
<1>3. IsFiniteSet(OpenClaims \ Claim)
  BY <1>2, FS_Subset
<1>4. Cardinality(OpenClaims \ Claim) \in Nat /\ Cardinality(OpenClaims \ Claim) # 0
  BY <1>1, <1>3, FS_CardinalityType, FS_EmptySet
<1>5. QED
  BY <1>4 DEF LeakedClaims, Inv, TypeOK

LEMMA CourseStep ==
    ASSUME MaxManual = 0, Inv, Chains, Inv', NEW e \in Episode, SeenFrom(e),
           Exists(e) => CourseOf(e)
    PROVE  Exists(e)' => CourseOf(e)'
<1> SUFFICES ASSUME Exists(e)' PROVE CourseOf(e)'
  OBVIOUS
<1> /\ ep[e] \in EpisodeRow /\ crashes \in Nat /\ crashes' \in Nat
    /\ api \in [Episode -> {"none", "enqueue", "delete"}]
  BY DEF Inv, TypeOK
<1> PipelinesBounded /\ Asked /\ LeakedClaims
  BY DEF Chains
<1> USE DEF CourseOf
<1>1. OnIt(e) /\ Exists(e) => worker.job \in PickedJobs(e)
  BY DEF OnIt, Inv, ClaimHeld, PickedJobs, JobsOf
<1>2. ~OnIt(e)' => ~Driven(e)' /\ UnderWork(e)'
  BY DEF OnIt, Driven, InHandler, UnderWork
<1>3. ASSUME SameRow(e), SameQueue(e), ~OnIt(e)' \/ worker' = worker, crashes' >= crashes,
             api'[e] = "enqueue" => api[e] = "enqueue"
      PROVE  CourseOf(e)'
  <2>1. Exists(e) /\ ep'[e].status = ep[e].status /\ SameTasks(e)
        /\ PendingJobs(e)' = PendingJobs(e) /\ PickedJobs(e)' = PickedJobs(e)
    BY <1>3 DEF SameRow, Exists, SameQueue
  <2>2. EntersOnce(e)'
    BY <1>3, <2>1 DEF EntersOnce, Active
  <2>3. \A j \in PendingJobs(e) : jobs'[j].task = jobs[j].task
    BY <2>1 DEF SameTasks, OpenJobs
  <2>4. CASE ~OnIt(e)'
    <3>1. AtRest(e)' /\ FailedStops(e)'
      BY <1>2, <1>3, <2>1, <2>4 DEF AtRest, FailedStops
    <3>2. PastTranscribe(e)'
      BY <1>2, <2>1, <2>3, <2>4 DEF PastTranscribe
    <3>3. QED
      BY <1>2, <2>2, <2>4, <3>1, <3>2
  <2>5. CASE worker' = worker
    <3>1. Driven(e)' = Driven(e) /\ OnIt(e)' = OnIt(e)
      BY <2>5 DEF Driven, OnIt
    <3>2. AtRest(e)' /\ FailedStops(e)'
      BY <1>3, <2>1, <2>5, <3>1 DEF AtRest, FailedStops
    <3>3. UnderWork(e)'
      BY <2>1, <2>5, <3>1 DEF UnderWork
    <3>4. PastTranscribe(e)'
      BY <2>1, <2>3, <2>5, <3>1 DEF PastTranscribe
    <3>5. QED
      BY <2>2, <3>2, <3>3, <3>4
  <2>6. QED
    BY <1>3, <2>4, <2>5
<1>4. ASSUME ep'[e].status = "pending", ~OnIt(e)', api'[e] = "enqueue" => ~Active(e)'
      PROVE  CourseOf(e)'
  BY <1>2, <1>4 DEF EntersOnce, AtRest, FailedStops, PastTranscribe, AlreadyTranscribed
<1>5. CASE Away(e)
  BY <1>3, <1>5 DEF Away
<1>6. CASE WorkStep(e)
  BY <1>6, WorkCourse DEF WorkStep
<1>7. ASSUME NEW j \in JobId, Polled(e, j) PROVE CourseOf(e)'
  <2>1. /\ worker'.pc = "begin" /\ worker'.task = jobs[j].task /\ j \in PendingJobs(e)
        /\ PendingJobs(e)' = PendingJobs(e) \ {j} /\ ep'[e] = ep[e] /\ Exists(e)
        /\ api' = api /\ crashes' = crashes
    BY <1>7 DEF Polled, Claimed, Idle, SameRow, Exists, budget
  <2>2. PendingJobs(e)' = {} /\ api'[e] # "enqueue"
    BY <2>1, OneChain
  <2>3. EntersOnce(e)' /\ AtRest(e)' /\ FailedStops(e)' /\ UnderWork(e)'
    BY <2>1, <2>2 DEF EntersOnce, AtRest, FailedStops, UnderWork
  <2>4. PastTranscribe(e)'
    BY <2>1, <2>2 DEF PastTranscribe
  <2>5. QED
    BY <2>3, <2>4
<1>8. CASE WorkerDies(e)
  <2>1. ~OnIt(e)' /\ crashes' >= crashes
    BY <1>8 DEF WorkerDies, OnIt, Idle
  <2>2. QED
    BY <1>3, <1>8, <2>1 DEF WorkerDies
<1>9. ASSUME NEW j \in JobId, Reaped(e, j) PROVE CourseOf(e)'
  <2>1. ep'[e].status = "failed"
    BY <1>9, ResetStatus
  <2>2. ~OnIt(e)' /\ Active(e) /\ Exists(e) /\ api' = api /\ crashes' = crashes
    BY <1>9 DEF Reaped, OnIt, Active, Closed, budget
  <2>3. crashes > 0
    BY <1>9, ReapedAfterDeath
  <2>4. EntersOnce(e)'
    BY <2>2 DEF EntersOnce
  <2>5. QED
    BY <1>2, <2>1, <2>2, <2>3, <2>4 DEF AtRest, FailedStops, PastTranscribe, AlreadyTranscribed
<1>10. CASE Swept(e)
  <2>1. ep'[e].status = "pending" /\ ~OnIt(e)' /\ api' = api
    BY <1>10, ResetStatus DEF Swept, OnIt
  <2>2. Exists(e) /\ ep[e].status # "pending"
    BY <1>10, MidExists DEF Swept, Stranded
  <2>3. QED
    BY <1>4, <2>1, <2>2 DEF EntersOnce
<1>11. CASE Fed(e) \/ \E k \in {"url", "upload"} : Submitted(e, k)
  <2>1. ep'[e].status = "pending" /\ ~Exists(e) /\ worker' = worker
    BY <1>11, ResetStatus DEF Fed, Submitted, Exists
  <2>2. PendingJobs(e) = {} /\ PickedJobs(e) = {} /\ ~OnIt(e)' /\ api[e] = "none"
    BY <1>11, <2>1, JoblessRow DEF Fed, Submitted, OnIt, Inv, ClaimHeld, Asked
  <2>3. api'[e] = "enqueue" => ~Active(e)'
    BY <1>11, <2>2 DEF Fed, Submitted, SameQueue, Active
  <2>4. QED
    BY <1>4, <2>1, <2>2, <2>3
<1>12. CASE Ingested(e)
  <2>1. ep'[e] = ep[e] /\ api'[e] = "none" /\ ep[e].status = "pending" /\ ~Active(e)
    BY <1>12 DEF Ingested, SameRow, EntersOnce
  <2>2. ~OnIt(e)'
    BY <1>1, <1>12, <2>1 DEF Ingested, Active, OnIt
  <2>3. QED
    BY <1>4, <2>1, <2>2
<1>13. CASE Deleting(e) \/ Abandoned(e)
  <2>1. SameRow(e) /\ SameQueue(e) /\ worker' = worker /\ crashes' >= crashes
        /\ api'[e] # "enqueue"
    BY <1>13 DEF Deleting, Abandoned, budget
  <2>2. QED
    BY <1>3, <2>1
<1>14. CASE Deleted(e) \/ Vanished(e)
  BY <1>14, ResetStatus DEF Vanished, Exists
<1>15. QED
  BY <1>5, <1>6, <1>7, <1>8, <1>9, <1>10, <1>11, <1>12, <1>13, <1>14, NotRetried
     DEF SeenFrom, RequestStep

-----------------------------------------------------------------------------
(* The stage of EpisodeLifecycle an episode is in.                         *)

Newest(e, j) == j \in OpenJobs(e) /\ \A k \in OpenJobs(e) : k <= j

\* A set of job ids has a greatest one.
LEMMA GreatestId ==
    ASSUME NEW S, S \subseteq JobId, S # {}
    PROVE  \E j \in S : \A k \in S : k <= j
<1> DEFINE above(x) == {k \in S : x < k}
           T == {above(x) : x \in S}
<1>1. IsFiniteSet(JobId)
  BY FS_Interval, MaxJobsAssumption DEF JobId
<1>2. \A x \in S : IsFiniteSet(above(x)) /\ above(x) \subseteq JobId
  BY <1>1, FS_Subset
<1>3. T \subseteq FiniteSubsetsOf(JobId) /\ T # {}
  BY <1>2 DEF FiniteSubsetsOf
<1>4. PICK U \in T : \A V \in T : <<V, U>> \notin StrictSubsetOrdering(JobId)
  <2>1. IsWellFoundedOn(StrictSubsetOrdering(JobId), FiniteSubsetsOf(JobId))
    BY FS_StrictSubsetOrderingWellFounded
  <2> HIDE DEF T
  <2>2. QED
    BY <1>3, <2>1, WFMin
<1>5. PICK x \in S : U = above(x)
  BY <1>4
<1>6. ASSUME NEW k \in S, x < k PROVE FALSE
  <2>1. \A y \in above(k) : y \in above(x)
    BY <1>6 DEF JobId
  <2>2. k \in above(x) /\ k \notin above(k)
    BY <1>6 DEF JobId
  <2>3. above(k) \in T /\ above(k) \subseteq JobId /\ U \subseteq JobId
    BY <1>2, <1>5, <1>6
  <2> HIDE DEF above
  <2>4. above(k) # U /\ above(k) \subseteq U
    BY <1>5, <2>1, <2>2
  <2>5. <<above(k), U>> \in StrictSubsetOrdering(JobId)
    BY <2>3, <2>4 DEF StrictSubsetOrdering
  <2>6. QED
    BY <1>4, <2>3, <2>5
<1>7. \A k \in S : k <= x
  BY <1>6 DEF JobId
<1>8. QED
  BY <1>7

HasNewest == \A e \in Episode : Active(e) => \E j \in JobId : Newest(e, j)
LEMMA NewestExists == HasNewest
<1>1. \A e \in Episode : OpenJobs(e) \subseteq JobId
  BY DEF OpenJobs, PendingJobs, PickedJobs, JobsOf
<1>2. QED
  BY <1>1, GreatestId DEF HasNewest, Active, Newest, OpenJobs

\* StageOf, by the case it is in.
StagesNamed ==
    \A e \in Episode :
        /\ ep[e].status \in Terminal \cup {"absent", "deleted"} => StageOf(e) = ep[e].status
        /\ Exists(e) /\ ep[e].status \notin Terminal
              => \A j \in JobId : Newest(e, j) => StageOf(e) = jobs[j].task
        /\ ep[e].status = "pending" /\ ~Active(e) => StageOf(e) = "entered"
        /\ Stranded(e) => StageOf(e) = "stranded"

LEMMA StageNames == StagesNamed
<1> SUFFICES ASSUME NEW e \in Episode
             PROVE  /\ ep[e].status \in Terminal \cup {"absent", "deleted"}
                          => StageOf(e) = ep[e].status
                    /\ Exists(e) /\ ep[e].status \notin Terminal
                          => \A j \in JobId : Newest(e, j) => StageOf(e) = jobs[j].task
                    /\ ep[e].status = "pending" /\ ~Active(e) => StageOf(e) = "entered"
                    /\ Stranded(e) => StageOf(e) = "stranded"
  BY DEF StagesNamed
<1> DEFINE settled == ep[e].status \in Terminal \cup {"absent", "deleted"}
           running == Exists(e) /\ ep[e].status \notin Terminal /\ Active(e)
           entered == ep[e].status = "pending" /\ ~Active(e)
           name == NewestTask(e)
<1>1. /\ settled => ~running /\ ~entered /\ ~Stranded(e)
      /\ running => ~entered /\ ~Stranded(e)
      /\ entered => ~Stranded(e)
  BY MidStatus DEF Terminal, Exists, Stranded
<1>2. StageOf(e) = CASE settled -> ep[e].status
                     [] running -> name
                     [] entered -> "entered"
                     [] Stranded(e) -> "stranded"
  BY DEF StageOf
<1>3. ASSUME NEW j \in JobId, Newest(e, j) PROVE Active(e) /\ name = jobs[j].task
  <2> DEFINE open == PendingJobs(e) \cup PickedJobs(e)
             top == CHOOSE i \in open : \A k \in open : k <= i
  <2>1. j \in open /\ (\A k \in open : k <= j) /\ open \subseteq JobId
    BY <1>3 DEF Newest, OpenJobs, PendingJobs, PickedJobs, JobsOf
  <2> HIDE DEF open
  <2>2. top \in open /\ \A k \in open : k <= top
    BY <2>1
  <2>3. top \in JobId /\ top <= j /\ j <= top
    BY <2>1, <2>2
  <2> HIDE DEF top
  <2>4. top = j
    BY <2>3 DEF JobId
  <2>5. name = jobs[top].task
    BY DEF NewestTask, top, open
  <2>6. QED
    BY <2>1, <2>4, <2>5 DEF Active, open
<1> HIDE DEF settled, running, entered, name
<1>4. settled => StageOf(e) = ep[e].status
  BY <1>1, <1>2
<1>5. running => StageOf(e) = name
  BY <1>1, <1>2
<1>6. entered => StageOf(e) = "entered"
  BY <1>1, <1>2
<1>7. Stranded(e) => StageOf(e) = "stranded"
  BY <1>1, <1>2
<1>8. QED
  BY <1>3, <1>4, <1>5, <1>6, <1>7 DEF settled, running, entered

LEMMA NextNames == StagesNamed' /\ HasNewest'
BY StageNames, NewestExists, PTL

\* An episode with the same status and the same open jobs is in the same stage.
LEMMA SameStage ==
    ASSUME Inv, NEW e \in Episode, ep'[e].status = ep[e].status,
           OpenJobs(e)' = OpenJobs(e), SameTasks(e)
    PROVE  StageOf(e)' = StageOf(e)
<1>1. ep[e].status \in Status
  BY DEF Inv, TypeOK, EpisodeRow
<1>2. CASE ep[e].status \in Terminal \cup {"absent", "deleted"}
  BY <1>2, StageNames, NextNames DEF StagesNamed
<1>3. CASE Exists(e) /\ ep[e].status \notin Terminal /\ Active(e)
  <2>1. PICK j \in JobId : Newest(e, j)
    BY <1>3, NewestExists DEF HasNewest
  <2>2. StageOf(e) = jobs[j].task
    BY <1>3, <2>1, StageNames DEF StagesNamed
  <2>3. Newest(e, j)' /\ Exists(e)' /\ jobs'[j].task = jobs[j].task
    BY <1>3, <2>1 DEF Newest, Exists, SameTasks
  <2>4. StageOf(e)' = jobs'[j].task
    BY <1>3, <2>3, NextNames DEF StagesNamed
  <2>5. QED
    BY <2>2, <2>3, <2>4
<1>4. Active(e)' = Active(e)
  BY DEF Active, OpenJobs
<1>5. CASE ep[e].status = "pending" /\ ~Active(e)
  BY <1>4, <1>5, StageNames, NextNames DEF StagesNamed
<1>6. CASE Stranded(e)
  <2>1. Stranded(e)'
    BY <1>4, <1>6 DEF Stranded
  <2>2. QED
    BY <1>6, <2>1, StageNames, NextNames DEF StagesNamed
<1>7. QED
  BY <1>1, <1>2, <1>3, <1>5, <1>6 DEF Status, Exists, Stranded

\* The stage of an episode that exists.
LEMMA StageKinds ==
    ASSUME Inv, NEW e \in Episode, Exists(e)
    PROVE  /\ StageOf(e) \notin {"absent", "deleted"}
           /\ Active(e) /\ ep[e].status \notin Terminal => StageOf(e) \in Task
<1>1. ep[e].status \in Status
  BY DEF Inv, TypeOK, EpisodeRow
<1>2. CASE Active(e) /\ ep[e].status \notin Terminal
  <2>1. PICK j \in JobId : Newest(e, j)
    BY <1>2, NewestExists DEF HasNewest
  <2>2. jobs[j] \in JobRow
    BY <2>1, NoJobTyped DEF Newest, OpenJobs, PendingJobs, PickedJobs, JobsOf, Inv, TypeOK
  <2>3. StageOf(e) = jobs[j].task
    BY <1>2, <2>1, StageNames DEF StagesNamed
  <2>4. QED
    BY <2>2, <2>3 DEF JobRow, Task
<1>3. CASE ep[e].status \in Terminal
  BY <1>3, StageNames DEF StagesNamed, Terminal
<1>4. CASE ~Active(e) /\ ep[e].status \notin Terminal
  <2>1. ep[e].status = "pending" \/ Stranded(e)
    BY <1>1, <1>4 DEF Status, Exists, Stranded
  <2>2. StageOf(e) \in {"entered", "stranded"}
    BY <1>4, <2>1, StageNames DEF StagesNamed
  <2>3. QED
    BY <1>4, <2>2
<1>5. QED
  BY <1>2, <1>3, <1>4

-----------------------------------------------------------------------------
(* A step of the pipeline is a step of EpisodeLifecycle.                   *)

SameLife(e) == StageOf(e)' = StageOf(e) /\ ep'[e].retries = ep[e].retries
Proceeds(e) ==
    StageOf(e)' \in Life!MayFollow[StageOf(e)] /\ ep'[e].retries = ep[e].retries
Repeats(e) ==
    /\ StageOf(e) \in Task \cup {"done"} /\ ep[e].retries < RetryMax
    /\ StageOf(e)' = (IF StageOf(e) = "done" THEN "archive" ELSE StageOf(e))
    /\ ep'[e].retries = ep[e].retries + 1
Deletes(e) ==
    StageOf(e) \notin {"absent", "deleted"} /\ StageOf(e)' = "deleted" /\ ep'[e].retries = 0
Suffers(e) ==
    /\ crashes > 0 /\ ep'[e].retries = ep[e].retries
    /\ \/ StageOf(e) = "no_speech" /\ StageOf(e)' = "failed"
       \/ StageOf(e) = "failed" /\ StageOf(e)' \in Task

\* What a step is in the life of e.
LifeStep(e) ==
    \/ SameLife(e)
    \/ UNCHANGED crashes /\ (Proceeds(e) \/ Repeats(e) \/ Deletes(e) \/ Suffers(e))

LEMMA Follows ==
    /\ Life!MayFollow["absent"] = {"entered", "download"}
    /\ Life!MayFollow["entered"] = {"download", "transcribe"}
    /\ Life!MayFollow["stranded"] = Task
    /\ Life!MayFollow["done"] = {"failed"}
    /\ \A t \in Task : "failed" \in Life!MayFollow[t]
    /\ \A t \in Task \ {"archive"} : NextTask[t] \in Life!MayFollow[t]
    /\ "no_speech" \in Life!MayFollow["transcribe"] /\ "done" \in Life!MayFollow["archive"]
BY StageStatus DEF Life!MayFollow, Life!Stages, Task

\* The job the worker is driving is the newest.
LEMMA DrivenStage ==
    ASSUME MaxManual = 0, Inv, PipelinesBounded, NEW e \in Episode, Exists(e), InOrder(e),
           Driven(e)
    PROVE  /\ worker.job \in JobId /\ Newest(e, worker.job) /\ PendingJobs(e) = {}
           /\ jobs[worker.job].task = worker.task /\ worker.task \in Task
           /\ ep[e].status \notin Terminal => StageOf(e) = worker.task
<1>1. OnIt(e)
  BY DEF Driven, OnIt, InHandler
<1>2. worker.job \in JobId /\ worker.task \in Task /\ worker.job \in PickedJobs(e)
  BY <1>1 DEF OnIt, Inv, ClaimHeld, PickedJobs, JobsOf
<1>3. PendingJobs(e) = {}
  BY OneChain
<1>4. Newest(e, worker.job) /\ jobs[worker.job].task = worker.task
  BY <1>1, <1>2, <1>3 DEF InOrder, Newest, OpenJobs
<1>5. QED
  BY <1>2, <1>3, <1>4, StageNames DEF StagesNamed

\* After a step that leaves the queue alone, it still is.
LEMMA DrivenNext ==
    ASSUME MaxManual = 0, Inv, PipelinesBounded, NEW e \in Episode, Exists(e), InOrder(e),
           Driven(e), SameQueue(e), Exists(e)', ep'[e].status \notin Terminal
    PROVE  StageOf(e)' = worker.task
<1>1. /\ worker.job \in JobId /\ Newest(e, worker.job)
      /\ jobs[worker.job].task = worker.task
  BY DrivenStage
<1>2. PICK j \in JobId : j = worker.job
  BY <1>1
<1>3. Newest(e, j)' /\ jobs'[j].task = worker.task
  BY <1>1, <1>2 DEF Newest, OpenJobs, SameQueue, SameTasks
<1>4. QED
  BY <1>3, NextNames DEF StagesNamed

\* An added job is the newest.
LEMMA AddedStage ==
    ASSUME NEW e \in Episode, NEW t, NEW d, Added(e, t, d), Exists(e)',
           ep'[e].status \notin Terminal
    PROVE  StageOf(e)' = t
<1>1. PICK j \in JobId : j = lastId'
  BY DEF Added
<1>2. OpenJobs(e)' = OpenJobs(e) \cup {j} /\ jobs'[j].task = t /\ \A k \in OpenJobs(e) : k < j
  BY <1>1 DEF Added, OpenJobs
<1>3. OpenJobs(e) \subseteq JobId
  BY DEF OpenJobs, PendingJobs, PickedJobs, JobsOf
<1>4. Newest(e, j)'
  BY <1>2, <1>3 DEF Newest, JobId
<1>5. QED
  BY <1>2, <1>4, NextNames DEF StagesNamed

\* The stage of an episode in a status of its own.
LEMMA SettledNext ==
    ASSUME NEW e \in Episode, ep'[e].status \in Terminal \cup {"absent", "deleted"}
    PROVE  StageOf(e)' = ep'[e].status
BY NextNames DEF StagesNamed

LEMMA SettledNow ==
    ASSUME NEW e \in Episode, ep[e].status \in Terminal \cup {"absent", "deleted"}
    PROVE  StageOf(e) = ep[e].status
BY StageNames DEF StagesNamed

\* An episode that is failed, by its handler or by the zombie sweep.
LEMMA FailedLife ==
    ASSUME Inv, NEW e \in Episode, Exists(e), Active(e), ep'[e].status = "failed",
           ep'[e].retries = ep[e].retries, UNCHANGED crashes,
           ep[e].status = "no_speech" => crashes > 0
    PROVE  LifeStep(e)
<1>1. StageOf(e)' = "failed"
  BY SettledNext DEF Terminal
<1>2. CASE ep[e].status = "failed"
  BY <1>1, <1>2, SettledNow DEF Terminal, LifeStep, SameLife
<1>3. CASE ep[e].status = "no_speech"
  BY <1>1, <1>3, SettledNow DEF Terminal, LifeStep, Suffers
<1>4. CASE ep[e].status = "done"
  BY <1>1, <1>4, SettledNow, Follows DEF Terminal, LifeStep, Proceeds
<1>5. CASE ep[e].status \notin Terminal
  BY <1>1, <1>5, StageKinds, Follows DEF LifeStep, Proceeds
<1>6. QED
  BY <1>2, <1>3, <1>4, <1>5 DEF Terminal

LEMMA WorkLife ==
    ASSUME MaxManual = 0, Inv, PipelinesBounded, NEW e \in Episode, WorkStep(e),
           InputsOf(e), InOrder(e), CourseOf(e), Exists(e)'
    PROVE  LifeStep(e)
<1> /\ ep[e] \in EpisodeRow /\ OnIt(e) /\ worker.ep = e /\ worker.task \in Task /\ Exists(e)
    /\ worker.job \in PickedJobs(e) /\ Active(e) /\ crashes' = crashes
  BY DEF Inv, TypeOK, WorkStep, OnIt, ClaimHeld, PickedJobs, JobsOf, Active, budget
<1>1. ASSUME ep'[e].status = ep[e].status, ep'[e].retries = ep[e].retries, SameQueue(e)
      PROVE  LifeStep(e)
  BY <1>1, SameStage DEF LifeStep, SameLife, SameQueue, OpenJobs
<1>2. Driven(e) => /\ ep[e].status # "no_speech"
                   /\ ep[e].status = "done" => /\ worker.task = "archive"
                                               /\ worker.pc \in {"verify", "raised"}
                   /\ ep[e].status = "failed" => crashes > 0
                   /\ ep[e].status \notin Terminal => StageOf(e) = worker.task
  BY DrivenStage DEF CourseOf, AtRest, FailedStops
<1>3. CASE FromBegin(e) /\ SameQueue(e)
  <2>1. Driven(e) /\ worker.pc = "begin"
    BY <1>3 DEF FromBegin, Driven, InHandler
  <2>2. CASE Wrote(e, StatusOf[worker.task])
    <3>1. ep'[e].status \in Mid /\ ep'[e].retries = ep[e].retries
      BY <2>2, MidStatus DEF Wrote, EpisodeRow
    <3>2. StageOf(e)' = worker.task
      BY <1>3, <2>1, <3>1, DrivenNext, MidStatus DEF Terminal
    <3>3. CASE ep[e].status = "failed"
      BY <1>2, <2>1, <3>1, <3>2, <3>3, SettledNow DEF Terminal, LifeStep, Suffers
    <3>4. CASE ep[e].status # "failed"
      BY <1>2, <2>1, <3>1, <3>2, <3>4 DEF Terminal, LifeStep, SameLife
    <3>5. QED
      BY <3>3, <3>4
  <2>3. CASE SameRow(e)
    BY <1>1, <1>3, <2>3 DEF SameRow
  <2>4. QED
    BY <1>3, <2>2, <2>3 DEF FromBegin
<1>4. CASE FromWork(e) /\ SameQueue(e)
  <2>1. Driven(e) /\ worker.pc = "work"
    BY <1>4 DEF FromWork, Driven, InHandler
  <2>2. CASE /\ worker.task = "transcribe"
             /\ ep'[e] = [ep[e] EXCEPT !.status = "diarizing", !.segs = TRUE]
    <3>1. ep'[e].status = "diarizing" /\ ep'[e].retries = ep[e].retries
      BY <2>2 DEF EpisodeRow
    <3>2. ep[e].status \notin Terminal
      BY <2>1, <2>2, MidStatus DEF CourseOf, UnderWork, Terminal
    <3>3. StageOf(e)' = worker.task
      BY <1>4, <2>1, <3>1, DrivenNext DEF Terminal
    <3>4. QED
      BY <1>2, <2>1, <3>1, <3>2, <3>3 DEF LifeStep, SameLife
  <2>3. CASE /\ worker.task = "transcribe"
             /\ ep'[e] = [ep[e] EXCEPT !.status = "no_speech", !.segs = FALSE, !.err = "NO_SPEECH"]
    <3>1. ep'[e].status = "no_speech" /\ ep'[e].retries = ep[e].retries
      BY <2>3 DEF EpisodeRow
    <3>2. ep[e].status \notin Terminal
      BY <2>1, <2>3, MidStatus DEF CourseOf, UnderWork, Terminal
    <3>3. StageOf(e)' = "no_speech"
      BY <3>1, SettledNext DEF Terminal
    <3>4. QED
      BY <1>2, <2>1, <2>3, <3>1, <3>2, <3>3, Follows DEF LifeStep, Proceeds
  <2>4. CASE ep'[e].status = ep[e].status /\ ep'[e].retries = ep[e].retries
    BY <1>1, <1>4, <2>4
  <2>5. QED
    BY <1>4, <2>2, <2>3, <2>4 DEF FromWork, SameRow, EpisodeRow
<1>5. CASE FromFile(e) /\ SameQueue(e)
  <2>1. Driven(e) /\ worker.pc = "file"
    BY <1>5 DEF FromFile, Driven, InHandler
  <2>2. CASE worker.task = "download" /\ ep'[e] = [ep[e] EXCEPT !.audio = "raw"]
    <3>1. ep'[e].status = ep[e].status /\ ep'[e].retries = ep[e].retries
      BY <2>2 DEF EpisodeRow
    <3>2. QED
      BY <1>1, <1>5, <3>1
  <2>3. CASE /\ worker.task = "archive"
             /\ \E a \in AudioPath : ep'[e] = [ep[e] EXCEPT !.status = "done", !.audio = a]
    <3>1. ep'[e].status = "done" /\ ep'[e].retries = ep[e].retries
      BY <2>3 DEF EpisodeRow
    <3>2. ep[e].status \notin Terminal
      BY <2>1, <2>3, MidStatus DEF CourseOf, UnderWork, Terminal
    <3>3. StageOf(e)' = "done"
      BY <3>1, SettledNext DEF Terminal
    <3>4. QED
      BY <1>2, <2>1, <2>3, <3>1, <3>2, <3>3, Follows DEF LifeStep, Proceeds
  <2>4. worker.task = "archive" => ep[e].segs
    BY <2>1 DEF InputsOf, RunReady, Late
  <2>5. QED
    BY <1>5, <2>2, <2>3, <2>4 DEF FromFile
<1>6. CASE FromRaised(e) /\ SameQueue(e)
  <2>1. Driven(e) /\ worker.pc = "raised"
    BY <1>6 DEF FromRaised, Driven
  <2>2. CASE SameRow(e)
    BY <1>1, <1>6, <2>2 DEF SameRow
  <2>3. CASE /\ ep[e].status # "failed" /\ ep[e].retries < RetryMax
             /\ \E c : ep'[e] = [ep[e] EXCEPT !.status = "pending", !.retries = @ + 1, !.err = c]
    <3>1. ep'[e].status = "pending" /\ ep'[e].retries = ep[e].retries + 1
      BY <2>3 DEF EpisodeRow
    <3>2. StageOf(e)' = worker.task
      BY <1>6, <2>1, <3>1, DrivenNext DEF Terminal
    <3>3. CASE ep[e].status = "done"
      BY <1>2, <2>1, <2>3, <3>1, <3>2, <3>3, SettledNow DEF Terminal, LifeStep, Repeats
    <3>4. CASE ep[e].status \notin Terminal
      BY <1>2, <2>1, <2>3, <3>1, <3>2, <3>4 DEF LifeStep, Repeats, Task
    <3>5. QED
      BY <1>2, <2>1, <2>3, <3>3, <3>4 DEF Terminal
  <2>4. QED
    BY <1>6, <2>2, <2>3 DEF FromRaised
<1>7. CASE Fails(e) /\ SameQueue(e)
  <2>1. Driven(e)
    BY <1>7 DEF Fails, Driven, InHandler
  <2>2. ep'[e].status = "failed" /\ ep'[e].retries = ep[e].retries
    BY <1>7 DEF Fails, EpisodeRow
  <2>3. QED
    BY <1>2, <2>1, <2>2, FailedLife
<1>8. CASE Passes(e)
  <2> ep'[e] = ep[e]
    BY <1>8 DEF Passes, SameRow
  <2>1. ep[e].status \in Terminal => LifeStep(e)
    BY SettledNow, SettledNext DEF LifeStep, SameLife
  <2>2. CASE /\ worker.pc = "handoff" /\ worker.task # "archive"
             /\ Added(e, NextTask[worker.task], TRUE)
    <3>1. Driven(e)
      BY <2>2 DEF Driven, InHandler
    <3>2. ASSUME ep[e].status \notin Terminal PROVE LifeStep(e)
      <4>1. StageOf(e)' = NextTask[worker.task]
        BY <2>2, <3>2, AddedStage
      <4>2. QED
        BY <1>2, <2>2, <3>1, <3>2, <4>1, Follows DEF LifeStep, Proceeds
    <3>3. QED
      BY <2>1, <3>2
  <2>3. CASE worker.pc = "requeue" /\ Added(e, worker.task, FALSE)
    <3>1. Driven(e)
      BY <2>3 DEF Driven
    <3>2. ASSUME ep[e].status \notin Terminal PROVE LifeStep(e)
      <4>1. StageOf(e)' = worker.task
        BY <2>3, <3>2, AddedStage
      <4>2. QED
        BY <1>2, <3>1, <3>2, <4>1 DEF LifeStep, SameLife
    <3>3. QED
      BY <2>1, <3>2
  <2>4. CASE worker.pc \in {"finish", "drop"} /\ Closed(e, worker.job)
    <3>1. ASSUME ep[e].status \notin Terminal PROVE LifeStep(e)
      <4>1. PICK p \in PendingJobs(e) : p \in JobId
        BY <2>4, <3>1 DEF CourseOf, UnderWork, PendingJobs, JobsOf
      <4>2. \A q \in PendingJobs(e) : q = p
        BY <4>1, OneChain
      <4>3. Newest(e, p)
        <5>1. \A q \in PickedJobs(e) : q < p /\ q \in Nat
          BY <4>1 DEF InOrder, PickedJobs, JobsOf, JobId
        <5>2. QED
          BY <4>1, <4>2, <5>1 DEF Newest, OpenJobs, JobId
      <4>4. OpenJobs(e)' \subseteq OpenJobs(e) /\ p \in OpenJobs(e)'
        BY <2>4, <4>1 DEF OpenJobs, Closed
      <4>5. Newest(e, p)' /\ jobs'[p].task = jobs[p].task
        BY <2>4, <4>3, <4>4 DEF Newest, Closed, SameTasks
      <4>6. QED
        BY <3>1, <4>1, <4>3, <4>5, StageNames, NextNames
           DEF StagesNamed, LifeStep, SameLife, Exists
    <3>2. QED
      BY <2>1, <3>1
  <2>5. CASE SameQueue(e)
    BY <1>1, <2>5
  <2>6. QED
    BY <1>8, <2>2, <2>3, <2>4, <2>5 DEF Passes
<1>9. QED
  BY <1>3, <1>4, <1>5, <1>6, <1>7, <1>8 DEF WorkStep

LEMMA WorkExists ==
    ASSUME Inv, NEW e \in Episode, WorkStep(e)
    PROVE  Exists(e)'
<1> ep[e] \in EpisodeRow /\ Exists(e) /\ worker.task \in Task
  BY DEF Inv, TypeOK, WorkStep, OnIt, ClaimHeld
<1>1. SameRow(e) => Exists(e)'
  BY DEF SameRow, Exists
<1>2. FromBegin(e) => Exists(e)'
  <2>1. Wrote(e, StatusOf[worker.task]) => ep'[e].status \in Mid
    BY MidStatus DEF Wrote, EpisodeRow
  <2>2. QED
    BY <1>1, <2>1, MidStatus DEF FromBegin, Exists
<1>3. FromWork(e) => Exists(e)'
  <2>1. FromWork(e) => SameRow(e) \/ ep'[e].status \in {"diarizing", "no_speech", ep[e].status}
    BY DEF FromWork, EpisodeRow
  <2>2. QED
    BY <1>1, <2>1 DEF Exists
<1>4. FromFile(e) => Exists(e)'
  <2>1. FromFile(e) => ep'[e].status \in {"done", "no_speech", ep[e].status}
    BY DEF FromFile, EpisodeRow
  <2>2. QED
    BY <2>1 DEF Exists
<1>5. FromRaised(e) \/ Fails(e) => Exists(e)'
  <2>1. FromRaised(e) \/ Fails(e) => SameRow(e) \/ ep'[e].status \in {"pending", "failed"}
    BY DEF FromRaised, Fails, EpisodeRow
  <2>2. QED
    BY <1>1, <2>1 DEF Exists
<1>6. QED
  BY <1>1, <1>2, <1>3, <1>4, <1>5 DEF WorkStep, Passes

\* What binds an episode that exists, and one that does not.
Course ==
    \A e \in Episode :
        IF Exists(e) THEN InOrder(e) /\ CourseOf(e) ELSE ep[e].retries = 0

LEMMA LifeSeen ==
    ASSUME MaxManual = 0, Inv, Chains, InputsHeld, Course, Inv',
           NEW e \in Episode, SeenFrom(e)
    PROVE  LifeStep(e)
<1> /\ ep[e] \in EpisodeRow /\ ep'[e] \in EpisodeRow
    /\ api \in [Episode -> {"none", "enqueue", "delete"}]
  BY DEF Inv, TypeOK
<1> PipelinesBounded /\ Asked /\ LeakedClaims
  BY DEF Chains
<1>1. Exists(e) => InOrder(e) /\ CourseOf(e) /\ InputsOf(e)
  BY DEF Course, InputsHeld
<1>2. ASSUME SameRow(e), OpenJobs(e)' = OpenJobs(e), SameTasks(e) PROVE LifeStep(e)
  BY <1>2, SameStage DEF LifeStep, SameLife, SameRow
<1>3. CASE Away(e) \/ Vanished(e) \/ WorkerDies(e) \/ Deleting(e) \/ Abandoned(e)
  <2>1. SameRow(e) /\ OpenJobs(e)' = OpenJobs(e) /\ SameTasks(e)
    BY <1>3 DEF Away, Vanished, WorkerDies, Deleting, Abandoned, SameQueue, OpenJobs
  <2>2. QED
    BY <1>2, <2>1
<1>4. ASSUME NEW j \in JobId, Polled(e, j) PROVE LifeStep(e)
  <2>1. SameRow(e) /\ OpenJobs(e)' = OpenJobs(e) /\ SameTasks(e)
    BY <1>4 DEF Polled, Claimed, OpenJobs
  <2>2. QED
    BY <1>2, <2>1
<1>5. ASSUME NEW j \in JobId, Reaped(e, j) PROVE LifeStep(e)
  <2>1. ep'[e].status = "failed" /\ ep'[e].retries = ep[e].retries
    BY <1>5 DEF Reaped, EpisodeRow
  <2>2. Exists(e) /\ Active(e) /\ UNCHANGED crashes
    BY <1>5 DEF Reaped, Closed, Active, budget
  <2>3. crashes > 0
    BY <1>5, ReapedAfterDeath
  <2>4. QED
    BY <2>1, <2>2, <2>3, FailedLife
<1>6. CASE Swept(e)
  <2>1. ep'[e].status = "pending" /\ ep'[e].retries = ep[e].retries /\ UNCHANGED crashes
    BY <1>6 DEF Swept, Wrote, EpisodeRow, budget
  <2>2. PICK t \in Task : Added(e, t, TRUE)
    BY <1>6 DEF Swept
  <2>3. StageOf(e) = "stranded"
    BY <1>6, StageNames DEF Swept, StagesNamed
  <2>4. StageOf(e)' = t
    BY <2>1, <2>2, AddedStage DEF Exists, Terminal
  <2>5. QED
    BY <2>1, <2>3, <2>4, Follows DEF LifeStep, Proceeds
<1>7. CASE Fed(e)
  <2>1. ep'[e].status = "pending" /\ ep'[e].retries = 0 /\ UNCHANGED crashes
        /\ Added(e, "download", TRUE)
    <3>1. ep'[e] = NewRow("feed") /\ UNCHANGED crashes /\ Added(e, "download", TRUE)
      BY <1>7 DEF Fed, budget
    <3>2. NewRow("feed").status = "pending" /\ NewRow("feed").retries = 0
      BY DEF NewRow, Row
    <3>3. QED
      BY <3>1, <3>2
  <2>2. StageOf(e) = "absent" /\ ep[e].retries = 0
    <3>1. ep[e].status = "absent" /\ ~Exists(e)
      BY <1>7 DEF Fed, Exists
    <3>2. QED
      BY <3>1, SettledNow DEF Course
  <2>3. StageOf(e)' = "download"
    BY <2>1, AddedStage DEF Exists, Terminal
  <2>4. QED
    BY <2>1, <2>2, <2>3, Follows DEF LifeStep, Proceeds
<1>8. ASSUME NEW k \in {"url", "upload"}, Submitted(e, k) PROVE LifeStep(e)
  <2>1. ep'[e].status = "pending" /\ ep'[e].retries = 0 /\ UNCHANGED crashes /\ SameQueue(e)
    BY <1>8 DEF Submitted, NewRow, Row, budget
  <2>2. ep[e].status = "absent" /\ ~Exists(e)
    BY <1>8 DEF Submitted, Exists
  <2>3. StageOf(e) = "absent" /\ ep[e].retries = 0
    BY <2>2, SettledNow DEF Course
  <2>4. ~Active(e)'
    BY <2>1, <2>2, JoblessRow DEF Active, SameQueue
  <2>5. StageOf(e)' = "entered"
    BY <2>1, <2>4, NextNames DEF StagesNamed
  <2>6. QED
    BY <2>1, <2>3, <2>5, Follows DEF LifeStep, Proceeds
<1>9. CASE Ingested(e)
  <2>1. ep'[e] = ep[e] /\ api[e] = "enqueue" /\ Exists(e) /\ UNCHANGED crashes
    BY <1>9 DEF Ingested, SameRow, budget
  <2>2. PICK t \in {"download", "transcribe"} : Added(e, t, TRUE)
    BY <1>9 DEF Ingested
  <2>3. ep[e].status = "pending" /\ ~Active(e)
    BY <1>1, <2>1 DEF CourseOf, EntersOnce
  <2>4. StageOf(e) = "entered"
    BY <2>3, StageNames DEF StagesNamed
  <2>5. StageOf(e)' = t
    BY <2>1, <2>2, <2>3, AddedStage DEF Exists, Terminal
  <2>6. QED
    BY <2>1, <2>2, <2>4, <2>5, Follows DEF LifeStep, Proceeds
<1>10. CASE Deleted(e)
  <2>1. ep'[e].status = "deleted" /\ ep'[e].retries = 0 /\ UNCHANGED crashes
        /\ api[e] = "delete"
    BY <1>10 DEF Deleted, NoRow, Row, budget
  <2>2. Exists(e)
    BY <2>1 DEF Asked
  <2>3. StageOf(e) \notin {"absent", "deleted"}
    BY <2>2, StageKinds
  <2>4. StageOf(e)' = "deleted"
    BY <2>1, SettledNext
  <2>5. QED
    BY <2>1, <2>3, <2>4 DEF LifeStep, Deletes
<1>11. CASE WorkStep(e)
  <2>1. Exists(e)
    BY <1>11 DEF WorkStep
  <2>2. Exists(e)'
    BY <1>11, WorkExists
  <2>3. QED
    BY <1>1, <1>11, <2>1, <2>2, WorkLife
<1>12. QED
  BY <1>3, <1>4, <1>5, <1>6, <1>7, <1>8, <1>9, <1>10, <1>11, NotRetried
     DEF SeenFrom, RequestStep

LEMMA CourseHolds ==
    ASSUME MaxManual = 0, Inv, Chains, Course, Inv', [Next]_vars
    PROVE  Course'
<1> SUFFICES ASSUME NEW e \in Episode
             PROVE  IF Exists(e)' THEN InOrder(e)' /\ CourseOf(e)' ELSE ep'[e].retries = 0
  BY DEF Course
<1> /\ ep[e] \in EpisodeRow /\ PipelinesBounded /\ SeenFrom(e)
    /\ Exists(e) => InOrder(e) /\ CourseOf(e)
    /\ ~Exists(e) => ep[e].retries = 0
  BY SeenStep DEF Inv, TypeOK, Chains, Course
<1>1. CASE Exists(e)'
  BY <1>1, OrderStep, CourseStep
<1>2. CASE ~Exists(e)'
  <2>1. SameRow(e) => ep'[e].retries = 0
    BY <1>2 DEF SameRow, Exists
  <2>2. Deleted(e) => ep'[e].retries = 0
    BY DEF Deleted, NoRow, Row
  <2>3. ~(Swept(e) \/ Fed(e) \/ (\E j \in JobId : Reaped(e, j))
            \/ \E k \in {"url", "upload"} : Submitted(e, k))
    BY <1>2, ResetStatus DEF Exists
  <2>4. ~WorkStep(e) /\ ~Retried(e)
    BY <1>2, WorkExists, NotRetried
  <2>5. (\E j \in JobId : Polled(e, j)) => SameRow(e)
    BY DEF Polled
  <2>6. Away(e) \/ Vanished(e) \/ WorkerDies(e) \/ Ingested(e) \/ Deleting(e) \/ Abandoned(e)
           => SameRow(e)
    BY DEF Away, Vanished, WorkerDies, Ingested, Deleting, Abandoned
  <2>7. QED
    BY <1>2, <2>1, <2>2, <2>3, <2>4, <2>5, <2>6 DEF SeenFrom, RequestStep
<1>3. QED
  BY <1>1, <1>2

LEMMA CourseInit == ASSUME Init PROVE Course
<1> SUFFICES ASSUME NEW e \in Episode
             PROVE  IF Exists(e) THEN InOrder(e) /\ CourseOf(e) ELSE ep[e].retries = 0
  BY DEF Course
<1>1. /\ PendingJobs(e) = {} /\ PickedJobs(e) = {} /\ worker.pc = "idle" /\ api[e] = "none"
  BY NoJobTyped DEF Init, QueueInit, PendingJobs, PickedJobs, JobsOf, Idle
<1>2. InOrder(e) /\ CourseOf(e)
  BY <1>1 DEF InOrder, CourseOf, EntersOnce, AtRest, FailedStops, UnderWork, PastTranscribe,
              OnIt, Driven, InHandler
<1>3. ep[e].retries = 0
  BY DEF Init, NoRow, StragglerRow, Row
<1>4. QED
  BY <1>2, <1>3

\* Seen from all episodes at once, the step is one of EpisodeLifecycle.
LEMMA LifeMoves ==
    ASSUME MaxManual = 0, Inv, Chains, InputsHeld, Course, Inv', [Next]_vars
    PROVE  [Life!LifeNext]_<<[e \in Episode |-> StageOf(e)],
                             [e \in Episode |-> ep[e].retries], crashes>>
<1> DEFINE stage == [e \in Episode |-> StageOf(e)]
           tries == [e \in Episode |-> ep[e].retries]
<1>1. \A e \in Episode : LifeStep(e)
  BY SeenStep, LifeSeen
<1>2. \A e \in Episode : ep[e] \in EpisodeRow
  BY DEF Inv, TypeOK
<1>3. stage' = [e \in Episode |-> StageOf(e)'] /\ tries' = [e \in Episode |-> ep'[e].retries]
  OBVIOUS
<1>4. CASE \A e \in Episode : SameLife(e)
  <2>1. stage' = stage /\ tries' = tries
    BY <1>3, <1>4 DEF SameLife
  <2>2. crashes' = crashes \/ crashes' = crashes + 1
    BY CrashesStep
  <2>3. QED
    BY <2>1, <2>2 DEF Life!LifeNext, Life!Die
<1>5. ASSUME NEW e \in Episode, ~SameLife(e) PROVE Life!LifeNext
  <2>1. \A f \in Episode : f # e => SameLife(f)
    <3>1. ASSUME NEW f \in Episode, f # e PROVE SameLife(f)
      <4>1. ASSUME NEW x \in Episode, Away(x) PROVE SameLife(x)
        BY <4>1, SameStage DEF Away, SameRow, SameLife, SameQueue, OpenJobs
      <4>2. QED
        BY <1>5, <3>1, <4>1, OthersAway
    <3>2. QED
      BY <3>1
  <2>2. /\ stage' = [stage EXCEPT ![e] = StageOf(e)']
        /\ tries' = [tries EXCEPT ![e] = ep'[e].retries]
        /\ stage[e] = StageOf(e) /\ tries[e] = ep[e].retries
    <3>1. stage' = [stage EXCEPT ![e] = StageOf(e)']
      BY <1>3, <2>1 DEF SameLife
    <3>2. tries' = [tries EXCEPT ![e] = ep'[e].retries]
      BY <1>3, <2>1 DEF SameLife
    <3>3. QED
      BY <3>1, <3>2
  <2>3. crashes' = crashes /\ (Proceeds(e) \/ Repeats(e) \/ Deletes(e) \/ Suffers(e))
    BY <1>1, <1>5 DEF LifeStep
  <2>4. ep'[e].retries = ep[e].retries => tries' = tries
    BY <1>3, <2>1 DEF SameLife
  <2>5. CASE Proceeds(e)
    <3>1. Life!Proceed(e)
      BY <2>2, <2>3, <2>4, <2>5 DEF Proceeds, Life!Proceed
    <3>2. QED
      BY <3>1 DEF Life!LifeNext
  <2>6. CASE Repeats(e)
    <3>1. Life!Repeat(e)
      BY <2>2, <2>3, <2>6 DEF Repeats, Life!Repeat, Life!Stages, Task
    <3>2. QED
      BY <3>1 DEF Life!LifeNext
  <2>7. CASE Deletes(e)
    <3>1. Life!Delete(e)
      BY <2>2, <2>3, <2>7 DEF Deletes, Life!Delete
    <3>2. QED
      BY <3>1 DEF Life!LifeNext
  <2>8. CASE Suffers(e)
    <3>1. Life!Aftermath(e)
      BY <2>2, <2>3, <2>4, <2>8 DEF Suffers, Life!Aftermath, Life!Stages, Task
    <3>2. QED
      BY <3>1 DEF Life!LifeNext
  <2>9. QED
    BY <2>3, <2>5, <2>6, <2>7, <2>8
<1>6. QED
  BY <1>4, <1>5

LEMMA LifeStarts == ASSUME Init PROVE Life!LifeInit
<1>1. \A e \in Episode : ep[e].retries = 0 /\ StageOf(e) \in {"absent", "stranded"}
  <2>1. ASSUME NEW e \in Episode PROVE ep[e].retries = 0 /\ StageOf(e) \in {"absent", "stranded"}
    <3>1. ep[e] = NoRow("absent") \/ \E s \in Stragglers : ep[e] = StragglerRow(s)
      BY DEF Init
    <3>2. ep[e].retries = 0 /\ (ep[e].status = "absent" \/ ep[e].status \in Stragglers)
      <4>1. NoRow("absent").retries = 0 /\ NoRow("absent").status = "absent"
        BY DEF NoRow, Row
      <4>2. \A s : StragglerRow(s).retries = 0 /\ StragglerRow(s).status = s
        BY DEF StragglerRow, Row
      <4>3. QED
        BY <3>1, <4>1, <4>2
    <3>3. ~Active(e)
      BY NoJobTyped DEF Init, QueueInit, Active, PendingJobs, PickedJobs, JobsOf
    <3>4. Stragglers \subseteq Mid
      BY StragglerAssumption, MidStatus
    <3>5. QED
      BY <3>2, <3>3, <3>4, StageNames DEF StagesNamed, Stranded
  <2>2. QED
    BY <2>1
<1>2. crashes = 0
  BY DEF Init
<1>3. QED
  BY <1>1, <1>2 DEF Life!LifeInit

\* LifecycleImplemented, for every number of episodes, jobs and crashes, without manual
\* retries: queue, worker, handlers, sweeps and requests together carry each episode
\* through the abstract lifecycle, no stage skipped or repeated without spending a retry.
THEOREM PipelineRefinesLifecycle ==
    ASSUME MaxManual = 0
    PROVE  Spec => LifecycleImplemented
<1> DEFINE Bound == Inv /\ Chains /\ InputsHeld /\ Course
<1>1. Init => Bound /\ Life!LifeInit
  BY ChainsInit, InputsInit, CourseInit, LifeStarts
<1>2. Bound /\ [Next]_vars => Bound'
  BY ChainsStep, InputsHeldStep, CourseHolds
<1>3. Bound /\ [Next]_vars
         => [Life!LifeNext]_<<[e \in Episode |-> StageOf(e)],
                              [e \in Episode |-> ep[e].retries], crashes>>
  BY InvStep, LifeMoves
<1>4. QED
  BY <1>1, <1>2, <1>3, PTL DEF Spec, LifecycleImplemented, Life!LifeSpec

-----------------------------------------------------------------------------
(* One episode at a time: without crashes, manual retries and stragglers.  *)

\* e met no error yet and was not uploaded.
Fresh(e) == Exists(e) /\ ep[e].retries = 0 /\ ep[e].kind # "upload"
Live(e) == Fresh(e) /\ ep[e].status \in Mid

\* What has not started starts with its download.
Unstarted(e) ==
    Fresh(e) /\ ep[e].status = "pending" =>
        /\ \A j \in PendingJobs(e) : jobs[j].task = "download"
        /\ Driven(e) => worker.task = "download" /\ worker.pc \in {"begin", "raised"}

\* What is under way goes on at once: the poll prefers its job to any download.
Preferred(e) ==
    Live(e) => \/ Driven(e)
               \/ \E j \in PendingJobs(e) : jobs[j].due /\ jobs[j].task # "download"

\* A download is claimed only when nothing is under way.
Alone(g) ==
    OnIt(g) /\ Exists(g) /\ worker.task = "download" /\ worker.pc = "begin"
        => \A e \in Episode : ~Live(e)

\* The setting of this part, and what is known in it.
Deathless ==
    /\ MaxCrashes = 0 /\ MaxManual = 0
    /\ Inv /\ Inv' /\ Chains /\ InputsHeld /\ Course /\ \A e \in Episode : Owed(e)

LEMMA NoDeaths ==
    ASSUME Deathless, NEW e \in Episode
    PROVE  /\ crashes = 0 /\ crashes' = 0 /\ ~WorkerDies(e) /\ ~Abandoned(e) /\ ~Retried(e)
           /\ ~Swept(e) /\ \A j \in JobId : ~Reaped(e, j)
<1>1. crashes = 0 /\ crashes' = 0
  BY DEF Deathless, Inv, TypeOK
<1>2. ~WorkerDies(e) /\ ~Abandoned(e)
  BY <1>1 DEF WorkerDies, Abandoned
<1>3. ~Stranded(e)
  BY MidExists, CarriedActive DEF Deathless, Owed, Stranded
<1>4. ASSUME NEW j \in JobId PROVE ~Reaped(e, j)
  <2>1. Inv /\ LeakedClaims
    BY DEF Deathless, Chains
  <2>2. Reaped(e, j) => crashes > 0
    BY <2>1, ReapedAfterDeath
  <2>3. QED
    BY <1>1, <2>2
<1>5. ~Retried(e)
  BY NotRetried DEF Deathless
<1>6. QED
  BY <1>1, <1>2, <1>3, <1>4, <1>5 DEF Swept

\* How an episode comes under way.
LEMMA NewlyLive ==
    ASSUME Deathless, NEW e \in Episode, SeenFrom(e), Unstarted(e), ~Live(e), Live(e)'
    PROVE  /\ OnIt(e) /\ Exists(e) /\ worker.task = "download" /\ worker.pc = "begin"
           /\ worker'.pc = "work"
<1> ep[e] \in EpisodeRow
  BY DEF Deathless, Inv, TypeOK
<1>1. ~SameRow(e)
  BY DEF SameRow, Live, Fresh, Exists
<1>2. ep'[e].status \notin {"pending", "failed", "deleted", "done", "no_speech"}
  BY MidStatus DEF Live
<1>3. WorkStep(e)
  <2>1. ~(\E j \in JobId : Polled(e, j) \/ Reaped(e, j))
    BY <1>1, NoDeaths DEF Polled
  <2>2. ~Fed(e) /\ ~Deleted(e) /\ ~(\E k \in {"url", "upload"} : Submitted(e, k))
    BY <1>2, ResetStatus
  <2>3. ~Away(e) /\ ~Vanished(e) /\ ~Ingested(e) /\ ~Deleting(e)
    BY <1>1 DEF Away, Vanished, Ingested, Deleting
  <2>4. QED
    BY <2>1, <2>2, <2>3, NoDeaths DEF SeenFrom, RequestStep
<1>4. OnIt(e) /\ worker.ep = e /\ Exists(e) /\ CourseOf(e) /\ crashes = 0
  BY <1>3, NoDeaths DEF WorkStep, OnIt, Deathless, Course
<1>5. ASSUME ep'[e].kind = ep[e].kind, ep'[e].retries = ep[e].retries
      PROVE  Fresh(e) /\ ep[e].status \notin Mid
  BY <1>4, <1>5 DEF Live, Fresh
<1>6. CASE FromBegin(e)
  <2>1. To("work") /\ Wrote(e, StatusOf[worker.task]) /\ worker.pc = "begin"
    BY <1>1, <1>6 DEF FromBegin
  <2>2. ep'[e].kind = ep[e].kind /\ ep'[e].retries = ep[e].retries
    BY <2>1 DEF Wrote, EpisodeRow
  <2>3. Driven(e)
    BY <1>4, <2>1 DEF Driven, InHandler
  <2>4. ep[e].status \notin Terminal
    BY <1>4, <2>1, <2>3 DEF CourseOf, AtRest, FailedStops, Terminal
  <2>5. ep[e].status = "pending"
    BY <1>4, <1>5, <2>2, <2>4 DEF EpisodeRow, Status, Exists
  <2>6. worker.task = "download"
    BY <1>5, <2>2, <2>3, <2>5 DEF Unstarted
  <2>7. QED
    BY <1>4, <2>1, <2>6 DEF To
<1>7. CASE FromWork(e)
  <2>1. ep'[e].kind = ep[e].kind /\ ep'[e].retries = ep[e].retries
    BY <1>7 DEF FromWork, SameRow, EpisodeRow
  <2>2. ep'[e].status = ep[e].status \/ (ep[e].status \in Mid)
    <3>1. worker.pc = "work" /\ worker.task = "transcribe" => ep[e].status \in Mid
      BY <1>4 DEF CourseOf, UnderWork
    <3>2. QED
      BY <1>7, <3>1 DEF FromWork, SameRow, EpisodeRow
  <2>3. QED
    BY <1>5, <2>1, <2>2 DEF Live
<1>8. CASE FromFile(e)
  <2>1. ep'[e].status \in {"done", "no_speech"} \/ ep'[e] = [ep[e] EXCEPT !.audio = "raw"]
    BY <1>8 DEF FromFile, EpisodeRow
  <2>2. ep'[e] = [ep[e] EXCEPT !.audio = "raw"]
    BY <1>2, <2>1
  <2>3. /\ ep'[e].kind = ep[e].kind /\ ep'[e].retries = ep[e].retries
        /\ ep'[e].status = ep[e].status
    BY <2>2 DEF EpisodeRow
  <2>4. QED
    BY <1>5, <2>3 DEF Live
<1>9. ~FromRaised(e) /\ ~Fails(e)
  <2>1. FromRaised(e) \/ Fails(e) => SameRow(e) \/ ep'[e].status \in {"pending", "failed"}
    BY DEF FromRaised, Fails, EpisodeRow
  <2>2. QED
    BY <1>1, <1>2, <2>1
<1>10. QED
  BY <1>1, <1>3, <1>6, <1>7, <1>8, <1>9 DEF WorkStep, Passes

LEMMA UnstartedStep ==
    ASSUME Deathless, NEW e \in Episode, SeenFrom(e), Unstarted(e)
    PROVE  Unstarted(e)'
<1> SUFFICES ASSUME Fresh(e)', ep'[e].status = "pending"
             PROVE  /\ \A j \in PendingJobs(e)' : jobs'[j].task = "download"
                    /\ Driven(e)' => /\ worker'.task = "download"
                                     /\ worker'.pc \in {"begin", "raised"}
  BY DEF Unstarted
<1> /\ ep[e] \in EpisodeRow /\ Inv /\ MaxManual = 0 /\ PipelinesBounded
    /\ (Exists(e) => CourseOf(e))
  BY DEF Deathless, Chains, Course, Inv, TypeOK
<1>1. SameRow(e) => Fresh(e) /\ ep[e].status = "pending" /\ Exists(e)
  BY DEF SameRow, Fresh, Exists
<1>2. ~OnIt(e)' => ~Driven(e)'
  BY DEF OnIt, Driven, InHandler
<1>3. ASSUME SameRow(e), PendingJobs(e)' = PendingJobs(e), SameTasks(e)
      PROVE  \A j \in PendingJobs(e)' : jobs'[j].task = "download"
  BY <1>1, <1>3 DEF Unstarted, SameTasks, OpenJobs
<1>4. CASE Away(e) \/ Deleting(e)
  <2>1. SameRow(e) /\ SameQueue(e) /\ (worker' = worker \/ ~OnIt(e)')
    BY <1>4 DEF Away, Deleting
  <2>2. worker' = worker => Driven(e)' = Driven(e)
    BY DEF Driven
  <2>3. QED
    BY <1>1, <1>2, <1>3, <2>1, <2>2 DEF SameQueue, Unstarted
<1>5. ASSUME NEW j \in JobId, Polled(e, j)
      PROVE  /\ \A k \in PendingJobs(e)' : jobs'[k].task = "download"
             /\ worker'.task = "download" /\ worker'.pc = "begin"
  <2>1. /\ worker'.pc = "begin" /\ worker'.task = jobs[j].task /\ j \in PendingJobs(e)
        /\ PendingJobs(e)' = PendingJobs(e) \ {j} /\ SameRow(e)
    BY <1>5 DEF Polled, Claimed, Idle
  <2>2. PendingJobs(e)' = {}
    BY <1>1, <2>1, OneChain
  <2>3. QED
    BY <1>1, <2>1, <2>2 DEF Unstarted
<1>6. CASE Fed(e) \/ \E k \in {"url", "upload"} : Submitted(e, k)
  <2>1. PendingJobs(e) = {} /\ ~OnIt(e)'
    BY <1>6, JoblessRow DEF Fed, Submitted, Exists, OnIt, Inv, ClaimHeld
  <2>2. \A j \in PendingJobs(e)' : jobs'[j].task = "download"
    BY <1>6, <2>1 DEF Fed, Submitted, Added, SameQueue
  <2>3. QED
    BY <1>2, <2>1, <2>2
<1>7. CASE Ingested(e)
  <2>1. SameRow(e) /\ worker' = worker /\ api[e] = "enqueue"
    BY <1>7 DEF Ingested
  <2>2. PendingJobs(e) = {} /\ PickedJobs(e) = {}
    BY <1>1, <2>1 DEF CourseOf, EntersOnce, Active
  <2>3. ~OnIt(e)'
    BY <1>1, <2>1, <2>2 DEF OnIt, Inv, ClaimHeld, PickedJobs, JobsOf
  <2>4. ep[e].kind # "upload"
    BY <1>1, <2>1 DEF Fresh
  <2>5. Added(e, "download", TRUE)
    BY <1>7, <2>4 DEF Ingested
  <2>6. QED
    BY <1>2, <2>2, <2>3, <2>5 DEF Added
<1>8. CASE WorkStep(e)
  <2> worker.ep = e /\ OnIt(e) /\ worker.task \in Task
    BY <1>8 DEF WorkStep, OnIt, Inv, ClaimHeld
  <2>1. SameRow(e) /\ Driven(e) => worker.task = "download" /\ worker.pc \in {"begin", "raised"}
    BY <1>1 DEF Unstarted
  <2>2. ~(FromBegin(e) /\ SameQueue(e))
    <3>1. ASSUME Wrote(e, StatusOf[worker.task]) PROVE FALSE
      BY <3>1, MidStatus DEF Wrote, EpisodeRow
    <3>2. FromBegin(e) => Driven(e)
      BY DEF FromBegin, Driven, InHandler
    <3>3. QED
      BY <2>1, <3>1, <3>2 DEF FromBegin
  <2>3. ASSUME FromWork(e) \/ FromFile(e) PROVE FALSE
    <3>1. Driven(e) /\ worker.pc \in {"work", "file"}
      BY <2>3 DEF FromWork, FromFile, Driven, InHandler
    <3>2. /\ ep'[e].status = ep[e].status /\ ep'[e].kind = ep[e].kind
          /\ ep'[e].retries = ep[e].retries
      BY <2>3 DEF FromWork, FromFile, SameRow, EpisodeRow
    <3>3. Fresh(e) /\ ep[e].status = "pending"
      BY <3>2 DEF Fresh, Exists
    <3>4. QED
      BY <3>1, <3>3 DEF Unstarted
  <2>4. ASSUME FromRaised(e) \/ Fails(e) PROVE FALSE
    <3>1. FromRaised(e) \/ Fails(e)
             => ep'[e].status = "failed" \/ ep'[e].retries = ep[e].retries + 1
      BY DEF FromRaised, Fails, SameRow, EpisodeRow
    <3>2. ep'[e].retries # ep[e].retries + 1
      BY RetryAssumption DEF Fresh, EpisodeRow
    <3>3. QED
      BY <2>4, <3>1, <3>2
  <2>5. ASSUME Passes(e)
        PROVE  /\ \A j \in PendingJobs(e)' : jobs'[j].task = "download"
               /\ Driven(e)' => worker'.task = "download" /\ worker'.pc \in {"begin", "raised"}
    <3>1. SameRow(e) /\ worker.pc \notin {"handoff", "requeue", "verify"}
      BY <2>1, <2>5 DEF Passes, Driven, InHandler
    <3>2. CASE worker.pc \in {"finish", "drop"} /\ worker' = Idle /\ Closed(e, worker.job)
      BY <1>3, <3>1, <3>2 DEF Closed, Idle, Driven, InHandler
    <3>3. CASE SameQueue(e) /\ worker'.pc \in {"finish", "drop"}
      BY <1>3, <3>1, <3>3 DEF SameQueue, Driven, InHandler
    <3>4. CASE SameQueue(e) /\ worker.pc \in InHandler /\ To("raised")
      <4>1. worker.task = "download" /\ worker'.task = "download" /\ worker'.pc = "raised"
        BY <2>1, <3>1, <3>4 DEF Driven, To
      <4>2. QED
        BY <1>3, <3>1, <3>4, <4>1 DEF SameQueue
    <3>5. QED
      BY <2>5, <3>1, <3>2, <3>3, <3>4 DEF Passes
  <2>6. QED
    BY <1>8, <2>2, <2>3, <2>4, <2>5 DEF WorkStep
<1>9. ~Vanished(e) /\ ~Deleted(e)
  BY ResetStatus DEF Vanished, Fresh
<1>10. QED
  BY <1>4, <1>5, <1>6, <1>7, <1>8, <1>9, NoDeaths DEF SeenFrom, RequestStep

LEMMA PreferredStep ==
    ASSUME Deathless, NEW e \in Episode, SeenFrom(e), Unstarted(e), Preferred(e)
    PROVE  Preferred(e)'
<1> SUFFICES ASSUME Live(e)'
             PROVE  \/ Driven(e)'
                    \/ \E j \in PendingJobs(e)' : jobs'[j].due /\ jobs'[j].task # "download"
  BY DEF Preferred
<1> ep[e] \in EpisodeRow /\ Inv /\ (Exists(e) => CourseOf(e))
  BY DEF Deathless, Course, Inv, TypeOK
<1> DEFINE Handy == \E j \in PendingJobs(e) : jobs[j].due /\ jobs[j].task # "download"
           HandyNext == \E j \in PendingJobs(e)' : jobs'[j].due /\ jobs'[j].task # "download"
<1>1. SameRow(e) => Live(e)
  BY DEF SameRow, Live, Fresh, Exists
<1>2. ASSUME Handy, PendingJobs(e)' = PendingJobs(e), SameTasks(e) PROVE HandyNext
  BY <1>2 DEF SameTasks, OpenJobs
<1>3. ep'[e].status \notin {"pending", "failed", "deleted", "done", "no_speech"}
  BY MidStatus DEF Live
<1>4. CASE Away(e) \/ Deleting(e)
  <2>1. SameRow(e) /\ SameQueue(e) /\ (worker' = worker \/ ~OnIt(e))
    BY <1>4 DEF Away, Deleting
  <2>2. worker' = worker => Driven(e)' = Driven(e)
    BY DEF Driven
  <2>3. ~OnIt(e) => ~Driven(e)
    BY DEF OnIt, Driven, InHandler
  <2>4. QED
    BY <1>1, <1>2, <2>1, <2>2, <2>3 DEF SameQueue, Preferred
<1>5. ASSUME NEW j \in JobId, Polled(e, j) PROVE Driven(e)'
  BY <1>5 DEF Polled, Idle, Driven, InHandler
<1>6. ~Ingested(e)
  BY <1>1, MidStatus DEF Ingested, CourseOf, EntersOnce, Live
<1>7. ~Vanished(e)
  BY DEF Vanished, Live, Fresh
<1>8. ~Deleted(e) /\ ~Fed(e) /\ ~(\E k \in {"url", "upload"} : Submitted(e, k))
  BY <1>3, ResetStatus
<1>9. CASE WorkStep(e)
  <2> worker.ep = e /\ OnIt(e) /\ worker.task \in Task /\ CourseOf(e)
    BY <1>9 DEF WorkStep, OnIt, Inv, ClaimHeld
  <2>1. ASSUME NEW pc, To(pc), pc \in InHandler \cup {"raised"} PROVE Driven(e)'
    BY <2>1 DEF To, Driven
  <2>2. CASE FromBegin(e)
    <3>1. Driven(e) /\ worker.pc = "begin"
      BY <2>2 DEF FromBegin, Driven, InHandler
    <3>2. ~(worker.task = "transcribe" /\ ep[e].status \in AlreadyTranscribed)
      BY <3>1 DEF CourseOf, PastTranscribe
    <3>3. To("work") \/ To("handoff")
      BY <2>2, <3>2 DEF FromBegin
    <3>4. QED
      BY <2>1, <3>3 DEF InHandler
  <2>3. CASE FromWork(e)
    <3>1. ep'[e] # [ep[e] EXCEPT !.status = "no_speech", !.segs = FALSE, !.err = "NO_SPEECH"]
      BY <1>3 DEF EpisodeRow
    <3>2. To("file") \/ To("handoff")
      BY <2>3, <3>1 DEF FromWork
    <3>3. QED
      BY <2>1, <3>2 DEF InHandler
  <2>4. CASE FromFile(e)
    <3>1. worker.task # "archive"
      BY <1>3, <2>4 DEF FromFile, EpisodeRow
    <3>2. To("handoff")
      BY <2>4, <3>1 DEF FromFile
    <3>3. QED
      BY <2>1, <3>2 DEF InHandler
  <2>5. ~FromRaised(e) /\ ~Fails(e)
    BY <1>3 DEF FromRaised, Fails, SameRow, EpisodeRow
  <2>6. CASE Passes(e)
    <3>1. SameRow(e) /\ Live(e) /\ ep[e].status \in Mid
      BY <1>1, <2>6 DEF Passes, Live
    <3>2. CASE worker.pc = "handoff" /\ worker.task # "archive"
               /\ Added(e, NextTask[worker.task], TRUE)
      <4>1. NextTask[worker.task] # "download"
        BY <3>2, StageStatus DEF Task
      <4>2. QED
        BY <3>2, <4>1 DEF Added
    <3>3. worker.pc # "requeue" /\ ep[e].status # "done"
      BY <3>1, MidStatus DEF CourseOf, UnderWork
    <3>4. CASE worker.pc \in {"finish", "drop"} /\ Closed(e, worker.job)
      BY <1>2, <3>1, <3>4 DEF Preferred, Driven, InHandler, Closed
    <3>5. CASE worker.pc = "alert" /\ SameQueue(e)
      BY <1>2, <3>1, <3>5 DEF Preferred, Driven, InHandler, SameQueue
    <3>6. CASE To("raised")
      BY <2>1, <3>6
    <3>7. QED
      BY <2>6, <3>2, <3>3, <3>4, <3>5, <3>6 DEF Passes
  <2>7. QED
    BY <1>9, <2>2, <2>3, <2>4, <2>5, <2>6 DEF WorkStep
<1>10. QED
  BY <1>4, <1>5, <1>6, <1>7, <1>8, <1>9, NoDeaths DEF SeenFrom, RequestStep

\* While an episode is under way and the worker idle, no download is claimed.
LEMMA NotClaimed ==
    ASSUME Deathless, NEW e \in Episode, Live(e), Preferred(e), worker.pc = "idle",
           NEW k \in JobId, Foremost(k)
    PROVE  jobs[k].task # "download"
<1>1. ~Driven(e)
  BY DEF Driven, InHandler
<1>2. PICK j \in PendingJobs(e) : jobs[j].due /\ jobs[j].task # "download"
  BY <1>1 DEF Preferred
<1>3. j \in JobId /\ Ready(j) /\ jobs[j].task \in Task
  BY <1>2, NoJobTyped DEF PendingJobs, JobsOf, Ready, Deathless, Inv, TypeOK, JobRow
<1>4. Priority[jobs[j].task] < 6 /\ Priority["download"] = 6 /\ Priority[jobs[j].task] \in Nat
  BY <1>2, <1>3 DEF Priority, Task
<1>5. \/ Priority[jobs[k].task] < Priority[jobs[j].task]
      \/ Priority[jobs[k].task] = Priority[jobs[j].task]
  BY <1>3 DEF Foremost
<1>6. QED
  BY <1>4, <1>5

LEMMA AloneStep ==
    ASSUME Deathless, [Next]_vars, \A e \in Episode : Unstarted(e) /\ Preferred(e),
           \A g \in Episode : Alone(g), NEW g \in Episode
    PROVE  Alone(g)'
<1> SUFFICES ASSUME OnIt(g)', Exists(g)', worker'.task = "download", worker'.pc = "begin",
                    NEW e \in Episode, Live(e)'
             PROVE  FALSE
  BY DEF Alone
<1> Inv /\ SeenFrom(g) /\ SeenFrom(e)
  BY SeenStep DEF Deathless
<1>1. Live(e)
  <2>1. ASSUME ~Live(e) PROVE FALSE
    <3>1. worker'.pc = "work"
      BY <2>1, NewlyLive
    <3>2. QED
      BY <3>1
  <2>2. QED
    BY <2>1
<1>2. CASE \E k \in JobId : Polled(g, k)
  <2>1. PICK k \in JobId : Polled(g, k)
    BY <1>2
  <2>2. worker.pc = "idle" /\ Foremost(k) /\ jobs[k].task = "download"
    BY <2>1 DEF Polled, Idle
  <2>3. QED
    BY <1>1, <2>2, NotClaimed
<1>3. CASE OnIt(g) /\ worker'.job = worker.job
  <2>1. ~WorkStep(g)
    BY DEF WorkStep, FromBegin, FromWork, FromFile, FromRaised, Fails, Passes, To, Idle
  <2>2. CASE worker' = worker
    <3>1. Exists(g)
      <4>1. ep[g].status = "absent" \/ ep[g].status = "deleted" => ~Fed(g) \/ ~OnIt(g)
        BY DEF Fed, OnIt, Inv, ClaimHeld, Exists
      <4>2. ASSUME ~Exists(g) PROVE SameRow(g) \/ Fed(g) \/ Deleted(g)
                                    \/ \E k \in {"url", "upload"} : Submitted(g, k)
        <5>1. ~(Swept(g) \/ Retried(g) \/ WorkStep(g)) /\ ~(\E j \in JobId : Reaped(g, j))
          BY <4>2, NoDeaths, <2>1
        <5>2. (\E j \in JobId : Polled(g, j)) => SameRow(g)
          BY DEF Polled
        <5>3. QED
          BY <5>1, <5>2 DEF SeenFrom, RequestStep, Away, Vanished, WorkerDies, Ingested,
                            Deleting, Abandoned
      <4>3. SameRow(g) => Exists(g)
        BY DEF SameRow, Exists
      <4>4. ~Deleted(g)
        BY ResetStatus DEF Exists, Deathless, Inv, TypeOK
      <4>5. Fed(g) \/ (\E k \in {"url", "upload"} : Submitted(g, k)) => ~OnIt(g)
        BY JoblessRow DEF Fed, Submitted, Exists, OnIt, Inv, ClaimHeld
      <4>6. QED
        BY <1>3, <4>2, <4>3, <4>4, <4>5
    <3>2. QED
      BY <1>1, <1>3, <2>2, <3>1 DEF Alone
  <2>3. worker' = worker
    <3>1. OnIt(g) /\ worker.pc # "idle"
      BY <1>3 DEF OnIt
    <3>2. ~Vanished(g) /\ ~WorkerDies(g)
      BY NoDeaths DEF Vanished
    <3>3. ~(\E j \in JobId : Polled(g, j) \/ Reaped(g, j))
      BY <3>1 DEF Polled, Reaped
    <3>4. QED
      BY <2>1, <3>1, <3>2, <3>3
         DEF SeenFrom, RequestStep, Away, Swept, Fed, Submitted, Retried, Ingested, Deleting,
             Deleted, Abandoned
  <2>4. QED
    BY <2>2, <2>3
<1>4. QED
  BY <1>2, <1>3, HeldSeen

LEMMA OneStep ==
    ASSUME Deathless, [Next]_vars, \A e \in Episode : Unstarted(e) /\ Preferred(e) /\ Alone(e),
           OneInFlight, NEW e \in Episode, NEW f \in Episode, Live(e)', Live(f)', Away(f)
    PROVE  e = f
<1>1. SeenFrom(e)
  BY SeenStep DEF Deathless
<1>2. Live(f)
  BY DEF Away, SameRow, Live, Fresh, Exists
<1>3. CASE Live(e)
  BY <1>2, <1>3 DEF OneInFlight, Live, Fresh
<1>4. CASE ~Live(e)
  BY <1>1, <1>2, <1>4, NewlyLive DEF Alone
<1>5. QED
  BY <1>3, <1>4

\* OneInFlight, for every number of episodes and jobs, without crashes, manual retries and
\* rows stranded at the start: an episode of a feed that is under way, and met no transient
\* error, is finished before the worker starts another one.
THEOREM OneAtATime ==
    ASSUME MaxCrashes = 0, MaxManual = 0, Stragglers = {}
    PROVE  Spec => []OneInFlight
<1> DEFINE Bound == Inv /\ Chains /\ InputsHeld /\ Course /\ \A e \in Episode : Owed(e)
           Turn == \A e \in Episode : Unstarted(e) /\ Preferred(e) /\ Alone(e)
<1>1. Init => Bound
  BY ChainsInit, InputsInit, CourseInit, OwedInit
<1>2. Init => Turn /\ OneInFlight
  <2>1. ASSUME Init, NEW e \in Episode PROVE ~Live(e) /\ ep[e].status = "absent"
    <3>1. ep[e] = NoRow("absent") /\ NoRow("absent").status = "absent"
      BY <2>1 DEF Init, NoRow, Row
    <3>2. QED
      BY <3>1 DEF Live, Fresh, Exists
  <2>2. ASSUME Init PROVE Turn
    BY <2>1, <2>2 DEF Unstarted, Preferred, Alone
  <2>3. ASSUME Init PROVE OneInFlight
    BY <2>1, <2>3, MidStatus DEF OneInFlight
  <2>4. QED
    BY <2>2, <2>3
<1>3. Bound /\ [Next]_vars => Bound'
  BY ChainsStep, InputsHeldStep, CourseHolds, SeenStep, OwedStep
<1>4. Bound /\ Turn /\ OneInFlight /\ [Next]_vars => Turn' /\ OneInFlight'
  <2> SUFFICES ASSUME Bound, Turn, OneInFlight, [Next]_vars
               PROVE  Turn' /\ OneInFlight'
    OBVIOUS
  <2>1. Deathless
    BY InvStep DEF Deathless
  <2>2. ASSUME NEW e \in Episode PROVE Unstarted(e)' /\ Preferred(e)' /\ Alone(e)'
    BY <2>1, SeenStep, UnstartedStep, PreferredStep, AloneStep
  <2>3. ASSUME NEW e \in Episode, NEW f \in Episode, Live(e)', Live(f)'
        PROVE  e = f
    BY <2>1, <2>3, OneStep, OthersAway
  <2>4. \A e \in Episode : ep'[e].status \in Mid => Exists(e)'
    BY MidStatus DEF Exists
  <2>5. OneInFlight'
    BY <2>3, <2>4 DEF OneInFlight, Live, Fresh
  <2>6. QED
    BY <2>2, <2>5
<1>5. QED
  BY <1>1, <1>2, <1>3, <1>4, PTL DEF Spec

=============================================================================
