--------------------------- MODULE PipelineSafety ---------------------------
(***************************************************************************)
(* The safety properties of the pipeline as theorems: each from an         *)
(* invariant that adds to Inv what the property rests on.                  *)
(***************************************************************************)
EXTENDS PipelineProofs

USE DEF JobId, Holding, Sweeping

-----------------------------------------------------------------------------
(* The retry budget.                                                       *)

Spent(r) == r.status = "failed" /\ r.err = "TRANSIENT_NETWORK" => r.retries = RetryMax
AllSpent == \A e \in Episode : Spent(ep[e])

LEMMA MarkFailedSpent ==
    ASSUME EpType, AllSpent, NEW x \in Episode, NEW c, NEW t, MarkFailed(x, c, t),
           c = "TRANSIENT_NETWORK" => ep[x].retries = RetryMax
    PROVE  AllSpent'
<1>1. ep' = [ep EXCEPT ![x].status = "failed", ![x].err = c]
  BY DEF MarkFailed
<1>2. QED
  BY <1>1 DEF EpType, EpisodeRow, AllSpent, Spent

LEMMA SpentStep == ASSUME Inv, AllSpent, [Next]_vars PROVE AllSpent'
<1> EpType
  BY DEF Inv, TypeOK, EpType
<1>1. CASE BeginDownload
  <2>1. worker.ep \in Episode
    BY <1>1, WorkerFields DEF BeginDownload, At, InHandler
  <2>2. CASE MarkFailed(worker.ep, "MANUAL_UPLOAD_FILE_MISSING", "finish")
    BY <2>1, <2>2, MarkFailedSpent
  <2>3. CASE ep' = [ep EXCEPT ![worker.ep].status = "downloading"]
    BY <2>1, <2>3 DEF EpType, EpisodeRow, AllSpent, Spent
  <2>4. QED
    BY <1>1, <2>2, <2>3 DEF BeginDownload
<1>2. CASE DownloadDiskFull
  BY <1>2, WorkerFields, MarkFailedSpent DEF DownloadDiskFull, At, InHandler
<1>3. CASE SaveDownload
  BY <1>3 DEF SaveDownload, EpType, EpisodeRow, AllSpent, Spent
<1>4. CASE BeginTranscribe
  BY <1>4 DEF BeginTranscribe, EpType, EpisodeRow, AllSpent, Spent
<1>5. CASE Transcribe
  BY <1>5 DEF Transcribe, EpType, EpisodeRow, AllSpent, Spent
<1>6. CASE Diarize
  BY <1>6 DEF Diarize, EpType, EpisodeRow, AllSpent, Spent
<1>7. CASE BeginStage
  <2>1. worker.task \in Task
    BY <1>7, WorkerFields DEF BeginStage, At, InHandler
  <2>2. StatusOf[worker.task] # "failed"
    BY <2>1 DEF StatusOf, Task
  <2>3. UNCHANGED ep \/ ep' = [ep EXCEPT ![worker.ep].status = StatusOf[worker.task]]
    BY <1>7 DEF BeginStage
  <2>4. QED
    BY <2>2, <2>3 DEF EpType, EpisodeRow, AllSpent, Spent
<1>8. CASE ArchiveDiskFull
  BY <1>8, WorkerFields, MarkFailedSpent DEF ArchiveDiskFull, At, InHandler
<1>9. CASE CommitDone
  BY <1>9 DEF CommitDone, EpType, EpisodeRow, AllSpent, Spent
<1>10. CASE HandleException
  <2>1. worker.ep \in Episode
    BY <1>10, WorkerFields DEF HandleException
  <2>2. CASE ~RetriesLeft(worker.class) /\ MarkFailed(worker.ep, worker.class, "drop")
    <3>1. worker.class = "TRANSIENT_NETWORK" => ep[worker.ep].retries = RetryMax
      BY <2>1, <2>2, RetryAssumption
         DEF RetriesLeft, Transient, Here, EpType, EpisodeRow
    <3>2. QED
      BY <2>1, <2>2, <3>1, MarkFailedSpent
  <2>3. CASE ep' = [ep EXCEPT ![worker.ep].status = "pending",
                              ![worker.ep].retries = @ + 1,
                              ![worker.ep].err = worker.class]
    BY <2>1, <2>3 DEF EpType, EpisodeRow, AllSpent, Spent
  <2>4. CASE UNCHANGED ep
    BY <2>4 DEF AllSpent
  <2>5. QED
    BY <1>10, <2>2, <2>3, <2>4 DEF HandleException
<1>11. ASSUME NEW j \in JobId, ReapZombie(j) PROVE AllSpent'
  BY <1>11, PickedRow, MarkFailedSpent DEF ReapZombie
<1>12. ASSUME NEW e \in Episode, Sweep(e) PROVE AllSpent'
  BY <1>12 DEF Sweep, EpType, EpisodeRow, AllSpent, Spent
<1>13. ASSUME NEW e \in Episode, NEW r, r.status # "failed", ep' = [ep EXCEPT ![e] = r]
       PROVE  AllSpent'
  BY <1>13 DEF EpType, AllSpent, Spent
<1>14. ASSUME NEW e \in Episode, Requests(e) PROVE AllSpent'
  <2>1. CASE IngestFeed(e)
    BY <1>13, <2>1 DEF IngestFeed, NewRow, Row
  <2>2. ASSUME NEW k \in {"url", "upload"}, IngestByHand(e, k) PROVE AllSpent'
    BY <1>13, <2>2 DEF IngestByHand, NewRow, Row
  <2>3. CASE RetryJob(e)
    BY <2>3 DEF RetryJob, EpType, EpisodeRow, AllSpent, Spent
  <2>4. CASE DeleteRow(e)
    BY <1>13, <2>4 DEF DeleteRow, NoRow, Row
  <2>5. CASE UNCHANGED ep
    BY <2>5 DEF AllSpent
  <2>6. QED
    BY <1>14, <2>1, <2>2, <2>3, <2>4, <2>5
       DEF Requests, EnqueueIngest, DeleteFiles, RequestDies
<1>15. CASE UNCHANGED ep
  BY <1>15 DEF AllSpent
<1>16. CASE Handle
  BY <1>1, <1>2, <1>3, <1>4, <1>5, <1>6, <1>7, <1>8, <1>9, <1>10, <1>15, <1>16
     DEF Handle, OpenFile, BeginDiarize, StageWork, Compress, VerifyAndUnlink, Handoff,
         Complete, Announce, HandlerRaises, Requeue, FailJob, EpisodeVanished
<1>17. CASE Sweeps
  BY <1>11, <1>12, <1>15, <1>17 DEF Sweeps, Prune
<1>18. ASSUME NEW j \in JobId, Poll(j) \/ RetryDue(j) PROVE AllSpent'
  BY <1>15, <1>18 DEF Poll, RetryDue
<1>19. CASE Crash
  BY <1>15, <1>19 DEF Crash
<1>20. QED
  BY <1>14, <1>15, <1>16, <1>17, <1>18, <1>19 DEF vars, Next

\* RetryBudget, for every number of episodes and every retry_max: automatic retries stay
\* within it, and a transient error ends an episode only when all of them are spent.
THEOREM RetriesWithinBudget == Spec => []RetryBudget
<1>1. Init => AllSpent
  <2>1. NoRow("absent").status = "absent" /\ \A s \in Stragglers : StragglerRow(s).status = s
    BY DEF NoRow, StragglerRow, Row
  <2>2. "absent" # "failed" /\ "failed" \notin Stragglers
    BY StragglerAssumption
  <2> HIDE DEF NoRow, StragglerRow
  <2>3. ASSUME Init, NEW e \in Episode PROVE ep[e].status # "failed"
    BY <2>1, <2>2, <2>3 DEF Init
  <2>4. QED
    BY <2>3 DEF AllSpent, Spent
<1>2. Inv /\ AllSpent /\ [Next]_vars => Inv' /\ AllSpent'
  BY InvStep, SpentStep
<1>3. ASSUME Inv, AllSpent PROVE RetryBudget
  <2>1. ASSUME NEW e \in Episode PROVE ep[e].retries <= RetryMax
    <3>1. ep[e] \in EpisodeRow
      BY <1>3 DEF Inv, TypeOK
    <3>2. QED
      BY <3>1, RetryAssumption DEF EpisodeRow
  <2>2. QED
    BY <1>3, <2>1 DEF AllSpent, Spent, RetryBudget
<1>4. QED
  BY InitInv, <1>1, <1>2, <1>3, PTL DEF Spec

-----------------------------------------------------------------------------
(* Failures that must be announced.                                        *)

\* Claims of e that a dead worker left behind.
Unclaimed(e) == {j \in JobId \ Claim : jobs[j].ep = e /\ jobs[j].status = "picked"}

AlertOwed ==
    \A e \in Episode :
        /\ alert[e] = "due" => AnnouncingFor(e) \/ Unclaimed(e) # {}
        /\ ~Exists(e) => alert[e] = "none"

\* A step of the worker inside a job keeps to that job.
Keeps == worker'.job = worker.job /\ Holding

LEMMA MarkFailedKeeps ==
    ASSUME worker \in Worker, Holding, NEW c, NEW t, MarkFailed(worker.ep, c, t)
    PROVE  Keeps
BY DEF MarkFailed, Worker, Keeps

LEMMA HandlerKeeps ==
    ASSUME Inv, Handle
    PROVE  worker' = Idle \/ Keeps
<1>0. worker \in Worker
  BY DEF Inv, TypeOK
<1>1. ASSUME NEW pc, Goto(pc), worker.pc \notin {"alert", "idle"} PROVE Keeps
  BY <1>0, <1>1 DEF Goto, Worker, Keeps
<1>2. ASSUME NEW c, Raise(c), worker.pc \notin {"alert", "idle"} PROVE Keeps
  BY <1>0, <1>2 DEF Raise, Worker, Keeps
<1>3. CASE BeginDownload
  BY <1>0, <1>1, <1>3, MarkFailedKeeps DEF BeginDownload, At
<1>4. CASE DownloadDiskFull \/ ArchiveDiskFull
  BY <1>0, <1>4, MarkFailedKeeps DEF DownloadDiskFull, ArchiveDiskFull, At
<1>5. CASE OpenFile \/ SaveDownload \/ StageWork \/ Handoff \/ Requeue
  BY <1>1, <1>5 DEF OpenFile, SaveDownload, StageWork, Handoff, Requeue, At
<1>6. CASE BeginTranscribe \/ Transcribe
  BY <1>1, <1>2, <1>6 DEF BeginTranscribe, Transcribe, At
<1>7. CASE BeginDiarize \/ Diarize
  BY <1>1, <1>2, <1>7 DEF BeginDiarize, Diarize, At
<1>8. CASE BeginStage
  BY <1>0, <1>1, <1>8 DEF BeginStage, At, Worker, Keeps
<1>9. CASE Compress
  BY <1>0, <1>9 DEF Compress, Worker, Keeps
<1>10. CASE CommitDone \/ VerifyAndUnlink
  BY <1>1, <1>2, <1>10 DEF CommitDone, VerifyAndUnlink, At
<1>11. CASE Announce
  BY <1>0, <1>11 DEF Announce, Worker, Keeps
<1>12. CASE HandlerRaises
  BY <1>2, <1>12 DEF HandlerRaises, InHandler
<1>13. CASE HandleException
  <2>1. worker.pc = "raised"
    BY <1>13 DEF HandleException
  <2>2. CASE MarkFailed(worker.ep, worker.class, "drop")
    BY <1>0, <2>1, <2>2, MarkFailedKeeps
  <2>3. QED
    BY <1>0, <1>13, <2>1, <2>2 DEF HandleException, Worker, Keeps
<1>14. CASE Complete \/ FailJob \/ EpisodeVanished
  BY <1>14 DEF Complete, FailJob, EpisodeVanished
<1>15. QED
  BY <1>3, <1>4, <1>5, <1>6, <1>7, <1>8, <1>9, <1>10, <1>11, <1>12, <1>13, <1>14 DEF Handle

\* The worker claims pending rows only.
LEMMA ClaimMoves ==
    ASSUME Inv, [Next]_vars, NEW j \in Claim'
    PROVE  j \in Claim \/ jobs[j].status = "pending"
<1>0. worker \in Worker
  BY DEF Inv, TypeOK
<1>1. worker' # Idle
  BY DEF Claim, Idle
<1>2. CASE Handle
  BY <1>1, <1>2, HandlerKeeps DEF Keeps, Claim
<1>3. CASE UNCHANGED worker
  BY <1>3 DEF Claim
<1>4. ASSUME NEW k \in JobId, Poll(k) PROVE jobs[j].status = "pending"
  <2>1. worker' = [Idle EXCEPT !.pc = "begin", !.job = k, !.ep = jobs[k].ep,
                               !.task = jobs[k].task]
    BY <1>4 DEF Poll
  <2>2. worker'.job = k
    BY <2>1 DEF Idle
  <2>3. jobs[k].status = "pending"
    BY <1>4 DEF Poll, Foremost, Ready
  <2>4. QED
    BY <2>2, <2>3 DEF Claim
<1>5. CASE Sweeps
  <2>1. ASSUME NEW k \in JobId, ReapZombie(k) PROVE FALSE
    BY <1>0, <2>1 DEF ReapZombie, MarkFailed, Worker, Claim
  <2>2. QED
    BY <1>3, <1>5, <2>1 DEF Sweeps, Prune, Sweep
<1>6. ASSUME NEW e \in Episode, Requests(e) PROVE UNCHANGED worker
  BY <1>6 DEF Requests, IngestFeed, IngestByHand, RetryJob, EnqueueIngest, DeleteFiles,
              DeleteRow, RequestDies
<1>7. QED
  BY <1>1, <1>2, <1>3, <1>4, <1>5, <1>6 DEF vars, Next, RetryDue, Crash

\* The row of a dead worker's claim is touched by the zombie sweep and a deletion only.
LEMMA UnclaimedRow ==
    ASSUME Inv, [Next]_vars, NEW e \in Episode, NEW j \in Unclaimed(e), ~DeleteRow(e)
    PROVE  jobs'[j] = jobs[j] \/ ReapZombie(j)
<1>1. j \in JobId /\ j \notin Claim /\ jobs[j].ep = e /\ jobs[j].status = "picked"
  BY DEF Unclaimed
<1>2. JobsType /\ JobsOwned
  BY DEF Inv, TypeOK, JobsType
<1>3. ASSUME NEW x \in Episode, NEW t \in Task, NEW d \in BOOLEAN, Enqueue(x, t, d)
      PROVE  jobs'[j] = jobs[j]
  <2>1. Enqueue(x, t, d)
    BY <1>3
  <2>2. lastId' = lastId + 1 /\ lastId \in Nat
    BY <1>2, <2>1 DEF Enqueue, JobsType
  <2>3. j # lastId'
    BY <1>1, <1>2, <2>2, NoJobTyped DEF JobsOwned
  <2>4. QED
    BY <1>1, <1>2, <2>1, <2>3, TypeEnqueue DEF JobsType
<1>4. ASSUME NEW k \in JobId, NEW s, SetJob(k, s), k # j PROVE jobs'[j] = jobs[j]
  BY <1>1, <1>2, <1>4 DEF SetJob, JobsType
<1>5. CASE Handle
  <2>1. CASE Handoff \/ Requeue
    <3>1. worker.ep \in Episode /\ worker.task \in Task
      BY <2>1, WorkerFields DEF Handoff, Requeue, InHandler
    <3>2. Handoff => NextTask[worker.task] \in Task
      BY <3>1 DEF Handoff, Inv, ClaimHeld, NextTask, Task
    <3>3. QED
      BY <1>3, <2>1, <3>1, <3>2 DEF Handoff, Requeue
  <2>2. CASE Complete \/ FailJob
    <3>1. worker.job \in JobId /\ worker.pc \in {"finish", "drop"}
      BY <2>2, WorkerFields DEF Complete, FailJob
    <3>2. worker.job # j
      BY <1>1, <3>1 DEF Claim
    <3>3. QED
      BY <1>4, <2>2, <3>1, <3>2 DEF Complete, FailJob
  <2>3. QED
    BY <1>5, <2>1, <2>2
       DEF Handle, BeginDownload, DownloadDiskFull, OpenFile, SaveDownload,
           BeginTranscribe, Transcribe, BeginDiarize, Diarize, BeginStage, StageWork,
           Compress, ArchiveDiskFull, CommitDone, VerifyAndUnlink, Announce,
           HandlerRaises, HandleException, EpisodeVanished
<1>6. ASSUME NEW k \in JobId, Poll(k) PROVE jobs'[j] = jobs[j]
  BY <1>1, <1>4, <1>6 DEF Poll, Foremost, Ready
<1>7. ASSUME NEW k \in JobId, RetryDue(k) PROVE jobs'[j] = jobs[j]
  BY <1>1, <1>2, <1>7 DEF RetryDue, BackoffElapses, JobsType
<1>8. CASE Sweeps
  <2>1. ASSUME NEW k \in JobId, ReapZombie(k) PROVE jobs'[j] = jobs[j] \/ ReapZombie(j)
    BY <1>4, <2>1 DEF ReapZombie
  <2>2. ASSUME NEW x \in Episode, Sweep(x) PROVE jobs'[j] = jobs[j]
    BY <1>3, <2>2 DEF Sweep
  <2>3. CASE Prune
    BY <1>1, <2>3 DEF Prune, Superseded
  <2>4. QED
    BY <1>8, <2>1, <2>2, <2>3 DEF Sweeps
<1>9. ASSUME NEW x \in Episode, Requests(x) PROVE jobs'[j] = jobs[j]
  <2>1. CASE IngestFeed(x)
    BY <1>3, <2>1 DEF IngestFeed, Task
  <2>2. CASE EnqueueIngest(x)
    BY <1>3, <2>2 DEF EnqueueIngest, Task
  <2>3. CASE DeleteRow(x)
    BY <1>1, <2>3 DEF DeleteRow
  <2>4. QED
    BY <1>9, <2>1, <2>2, <2>3
       DEF Requests, IngestByHand, RetryJob, DeleteFiles, RequestDies
<1>10. QED
  BY <1>5, <1>6, <1>7, <1>8, <1>9 DEF vars, Next, Crash

LEMMA UnclaimedStep ==
    ASSUME Inv, [Next]_vars, NEW e \in Episode, NEW j \in Unclaimed(e), ~DeleteRow(e)
    PROVE  j \in Unclaimed(e)' \/ ReapZombie(j)
<1>1. j \in JobId /\ j \notin Claim /\ jobs[j].ep = e /\ jobs[j].status = "picked"
  BY DEF Unclaimed
<1>2. j \notin Claim'
  BY <1>1, ClaimMoves
<1>3. QED
  BY <1>1, <1>2, UnclaimedRow DEF Unclaimed

\* What mark_failed leaves behind for the episode, and for the others.
LEMMA MarkFailedOwes ==
    ASSUME Inv, NEW x \in Episode, NEW c, NEW t, MarkFailed(x, c, t), NEW e \in Episode
    PROVE  IF e = x THEN AnnouncingFor(e)' /\ alert'[e] # "lost" ELSE alert'[e] = alert[e]
<1>1. worker \in Worker /\ alert \in [Episode -> {"none", "due", "sent", "lost"}]
  BY DEF Inv, TypeOK
<1>2. worker' = [worker EXCEPT !.pc = "alert", !.ep = x, !.class = c, !.then = t]
  BY DEF MarkFailed
<1>3. worker'.pc = "alert" /\ worker'.ep = x
  BY <1>1, <1>2 DEF Worker
<1>4. IF e = x THEN alert'[e] # "lost" ELSE alert'[e] = alert[e]
  BY <1>1 DEF MarkFailed
<1>5. QED
  BY <1>3, <1>4 DEF AnnouncingFor

\* alert[e] changes as mark_failed has it, when it is announced, with the death of the sweep
\* that is about to announce it, or with its episode.
LEMMA AlertMoves ==
    ASSUME Inv, [Next]_vars, NEW e \in Episode
    PROVE  \/ alert'[e] = alert[e]
           \/ Exists(e) /\ Exists(e)' /\ AnnouncingFor(e)' /\ alert'[e] # "lost"
           \/ Exists(e) /\ Exists(e)' /\ AnnouncingFor(e) /\ alert'[e] \in {"none", "sent"}
           \/ alert[e] = "due" /\ alert'[e] = "lost" /\ AnnouncingFor(e) /\ Sweeping
           \/ DeleteRow(e) /\ alert'[e] = "none"
<1>1. alert \in [Episode -> {"none", "due", "sent", "lost"}] /\ ep \in [Episode -> EpisodeRow]
  BY DEF Inv, TypeOK
<1> DEFINE Failing == /\ Exists(e) /\ Exists(e)'
                      /\ AnnouncingFor(e)' /\ alert'[e] # "lost"
<1>2. ASSUME NEW x \in Episode, Exists(x), NEW c, NEW t, MarkFailed(x, c, t)
      PROVE  alert'[e] = alert[e] \/ Failing
  <2>1. ep' = [ep EXCEPT ![x].status = "failed", ![x].err = c]
    BY <1>2 DEF MarkFailed
  <2>2. ep'[x].status = "failed"
    BY <1>1, <2>1 DEF EpisodeRow
  <2>3. QED
    BY <1>2, <2>2, MarkFailedOwes DEF Exists
<1>3. CASE BeginDownload
  BY <1>2, <1>3, WorkerFields DEF BeginDownload, At, InHandler
<1>4. CASE DownloadDiskFull \/ ArchiveDiskFull
  BY <1>2, <1>4, WorkerFields DEF DownloadDiskFull, ArchiveDiskFull, At, InHandler
<1>5. CASE HandleException
  BY <1>2, <1>5, WorkerFields DEF HandleException
<1>6. ASSUME NEW j \in JobId, ReapZombie(j) PROVE alert'[e] = alert[e] \/ Failing
  BY <1>2, <1>6, PickedRow DEF ReapZombie, Inv, JobsOwned
<1> HIDE DEF Failing
<1>7. CASE Announce
  <2>1. CASE worker.ep = e
    BY <1>1, <1>7, <2>1 DEF Announce, AnnouncingFor, Exists
  <2>2. CASE worker.ep # e
    BY <1>1, <1>7, <2>2 DEF Announce
  <2>3. QED
    BY <2>1, <2>2
<1>8. CASE Crash
  <2>1. CASE alert'[e] = alert[e]
    BY <2>1
  <2>2. CASE alert'[e] # alert[e]
    BY <1>1, <1>8, <2>2 DEF Crash, AnnouncingFor, Sweeping
  <2>3. QED
    BY <2>1, <2>2
<1>9. ASSUME NEW x \in Episode, DeleteRow(x)
      PROVE  alert'[e] = alert[e] \/ (DeleteRow(e) /\ alert'[e] = "none")
  <2>1. alert' = [alert EXCEPT ![x] = "none"]
    BY <1>9 DEF DeleteRow
  <2>2. QED
    BY <1>1, <1>9, <2>1
<1>10. CASE UNCHANGED alert
  BY <1>10
<1>11. CASE Handle
  BY <1>3, <1>4, <1>5, <1>7, <1>10, <1>11
     DEF Handle, OpenFile, SaveDownload, BeginTranscribe, Transcribe, BeginDiarize, Diarize,
         BeginStage, StageWork, Compress, CommitDone, VerifyAndUnlink, Handoff, Complete,
         HandlerRaises, Requeue, FailJob, EpisodeVanished, Failing
<1>12. CASE Sweeps
  BY <1>6, <1>10, <1>12 DEF Sweeps, Sweep, Prune, Failing
<1>13. ASSUME NEW x \in Episode, Requests(x)
       PROVE  alert'[e] = alert[e] \/ (DeleteRow(e) /\ alert'[e] = "none")
  BY <1>9, <1>13
     DEF Requests, IngestFeed, IngestByHand, RetryJob, EnqueueIngest, DeleteFiles,
         RequestDies
<1>14. QED
  BY <1>8, <1>10, <1>11, <1>12, <1>13 DEF vars, Next, Poll, RetryDue

\* Out of mark_failed the worker goes by announcing, by dying, or with its episode.
LEMMA AlertLeft ==
    ASSUME Inv, [Next]_vars, worker.pc = "alert"
    PROVE  UNCHANGED worker \/ Announce \/ Crash \/ EpisodeVanished
<1>1. CASE Handle
  BY <1>1
     DEF Handle, BeginDownload, DownloadDiskFull, OpenFile, SaveDownload, BeginTranscribe,
         Transcribe, BeginDiarize, Diarize, BeginStage, StageWork, Compress,
         ArchiveDiskFull, CommitDone, VerifyAndUnlink, Handoff, Complete, HandlerRaises,
         HandleException, Requeue, FailJob, At, InHandler
<1>2. CASE Sweeps
  BY <1>2 DEF Sweeps, Prune, ReapZombie, Sweep
<1>3. ASSUME NEW e \in Episode, Requests(e) PROVE UNCHANGED worker
  BY <1>3 DEF Requests, IngestFeed, IngestByHand, RetryJob, EnqueueIngest, DeleteFiles,
              DeleteRow, RequestDies
<1>4. ASSUME NEW j \in JobId, Poll(j) \/ RetryDue(j) PROVE UNCHANGED worker
  BY <1>4 DEF Poll, RetryDue
<1>5. QED
  BY <1>1, <1>2, <1>3, <1>4 DEF vars, Next

LEMMA AlertOwedStep == ASSUME Inv, AlertOwed, [Next]_vars PROVE AlertOwed'
<1>1. ASSUME NEW e \in Episode, ~Exists(e)' PROVE alert'[e] = "none"
  <2>1. CASE DeleteRow(e)
    BY <2>1 DEF DeleteRow, Inv, TypeOK
  <2>2. CASE ~DeleteRow(e)
    <3>1. ~Exists(e)
      BY <1>1, <2>2, ExistsStep
    <3>2. alert[e] = "none"
      BY <3>1 DEF AlertOwed
    <3>3. QED
      BY <2>2, <3>1, <3>2, AlertMoves
  <2>3. QED
    BY <2>1, <2>2
<1>2. ASSUME NEW e \in Episode, alert'[e] = "due"
      PROVE  AnnouncingFor(e)' \/ Unclaimed(e)' # {}
  <2>1. ~DeleteRow(e)
    BY <1>2 DEF DeleteRow, Inv, TypeOK
  <2>2. alert[e] = "due" \/ AnnouncingFor(e)'
    BY <1>2, <2>1, AlertMoves
  <2>3. ASSUME NEW j \in Unclaimed(e) PROVE AnnouncingFor(e)' \/ Unclaimed(e)' # {}
    <3>1. CASE ReapZombie(j)
      <4>1. jobs[j].ep = e /\ j \in JobId
        BY DEF Unclaimed
      <4>2. QED
        BY <3>1, <4>1, MarkFailedOwes DEF ReapZombie
    <3>2. QED
      BY <2>1, <2>3, <3>1, UnclaimedStep
  <2>4. ASSUME AnnouncingFor(e), alert[e] = "due"
        PROVE  AnnouncingFor(e)' \/ Unclaimed(e)' # {}
    <3>0. worker.pc = "alert" /\ worker.ep = e /\ Exists(e)
      BY <2>4 DEF AnnouncingFor, AlertOwed
    <3>1. CASE UNCHANGED worker
      BY <3>0, <3>1 DEF AnnouncingFor
    <3>2. CASE Announce
      BY <1>2, <3>0, <3>2 DEF Announce, Inv, TypeOK
    <3>3. CASE EpisodeVanished
      BY <3>0, <3>3 DEF EpisodeVanished
    <3>4. CASE Crash
      <4>1. worker.then # "idle"
        BY <1>2, <2>4, <3>0, <3>4 DEF Crash, Inv, TypeOK
      <4>2. worker.job \in JobId /\ jobs[worker.job].ep = e
            /\ jobs[worker.job].status = "picked"
        BY <3>0, <4>1, HeldRow
      <4>3. UNCHANGED jobs /\ worker'.pc = "idle"
        BY <3>4 DEF Crash, Idle
      <4>4. worker.job \in Unclaimed(e)'
        BY <4>2, <4>3 DEF Unclaimed, Claim
      <4>5. QED
        BY <4>4
    <3>5. QED
      BY <3>0, <3>1, <3>2, <3>3, <3>4, AlertLeft
  <2>5. QED
    BY <2>2, <2>3, <2>4 DEF AlertOwed
<1>3. QED
  BY <1>1, <1>2 DEF AlertOwed

\* An announcement that is owed no more was made, replaced, lost by the sweep or deleted.
LEMMA AlertReleased ==
    ASSUME Inv, [Next]_vars, NEW e \in Episode, alert[e] = "due", alert'[e] # "due"
    PROVE  \/ ~Exists(e)'
           \/ AnnouncingFor(e)' /\ alert'[e] # "lost"
           \/ AnnouncingFor(e) /\ (alert'[e] = "lost" => Sweeping)
<1>1. ASSUME DeleteRow(e) PROVE ~Exists(e)'
  BY <1>1 DEF DeleteRow, NoRow, Row, Exists, Inv, TypeOK
<1>2. QED
  BY <1>1, AlertMoves

\* NoSilentFailure, for every number of episodes, jobs, retries and deaths: a failure that
\* must be announced is being announced or has an open claim through which the zombie sweep
\* will, unless it goes with its episode or with a sweep that dies between its commit and
\* its emit.
THEOREM FailuresRemembered == Spec => NoSilentFailure
<1>1. Init => AlertOwed
  <2>1. ASSUME Init, NEW e \in Episode PROVE alert[e] = "none"
    BY <2>1 DEF Init
  <2>2. QED
    BY <2>1 DEF AlertOwed
<1>2. Inv /\ AlertOwed /\ [Next]_vars => Inv' /\ AlertOwed'
  BY InvStep, AlertOwedStep
<1> DEFINE Released(e) == \/ ~Exists(e)'
                          \/ AnnouncingFor(e)' /\ alert'[e] # "lost"
                          \/ AnnouncingFor(e) /\ (alert'[e] = "lost" => Sweeping)
           Step == \A e \in Episode :
                      /\ alert'[e] = "due" => Remembered(e)'
                      /\ alert[e] = "due" /\ alert'[e] # "due" => Released(e)
<1>3. Inv /\ AlertOwed /\ AlertOwed' /\ [Next]_vars => [Step]_vars
  <2>1. ASSUME NEW e \in Episode, AlertOwed', alert'[e] = "due" PROVE Remembered(e)'
    BY <2>1 DEF AlertOwed, Remembered, Unclaimed, PickedJobs, JobsOf
  <2>2. QED
    BY <2>1, AlertReleased
<1>4. QED
  BY InitInv, <1>1, <1>2, <1>3, PTL DEF Spec, NoSilentFailure

-----------------------------------------------------------------------------
(* Audio files and the rows that name them.                                *)

\* A row and its files, of an episode whose files no delete request has removed.
MediaRow(e) ==
    /\ ep[e].status = "done" => ep[e].segs
    /\ e \notin wiped =>
          /\ ep[e].audio # "none" => HasFile(e, ep[e].audio)
          /\ ArchiveAudio /\ ep[e].segs => ep[e].audio # "none"
          /\ ArchiveAudio /\ ep[e].status = "done" => ep[e].audio = "archive"

\* What the worker relies on between a file operation and the row that records it.
MediaWorker ==
    worker.ep \in Episode \ wiped /\ Exists(worker.ep) =>
        /\ worker.task = "download" /\ worker.pc = "file" => worker.ep \in rawFiles
        /\ worker.task = "download" /\ worker.pc \in {"work", "file"} => Here.status # "done"
        /\ worker.task = "archive" /\ worker.pc = "work" /\ ArchiveAudio /\ Here.segs
              => HasFile(worker.ep, worker.src)
        /\ worker.task = "archive" /\ worker.pc = "file" =>
              /\ worker.kept => worker.ep \in arcFiles
              /\ ArchiveAudio /\ Here.segs => worker.kept
        /\ worker.task = "archive" /\ worker.pc = "verify" =>
              Here.audio = IF worker.kept THEN "archive" ELSE "none"

MediaRows == \A e \in Episode : MediaRow(e)
Media == MediaRows /\ MediaWorker

\* Most steps leave an episode's files and what its row says of them alone.
Untouched(e) ==
    /\ ep'[e].audio = ep[e].audio /\ ep'[e].segs = ep[e].segs
    /\ ep'[e].status = "done" => ep[e].status = "done"
    /\ e \in rawFiles => e \in rawFiles' \cup wiped'
    /\ e \in arcFiles => e \in arcFiles' \cup wiped'
    /\ e \in wiped => e \in wiped'

LEMMA UntouchedRow ==
    ASSUME NEW e \in Episode, MediaRow(e), Untouched(e)
    PROVE  MediaRow(e)'
BY DEF MediaRow, Untouched, HasFile

LEMMA UntouchedFiles ==
    ASSUME NEW e, ep'[e].audio = ep[e].audio, ep'[e].segs = ep[e].segs,
           ep'[e].status = "done" => ep[e].status = "done",
           UNCHANGED <<files, wiped>>
    PROVE  Untouched(e)
BY DEF Untouched, files

\* The row of the episode that mark_failed is called for.
LEMMA MarkFailedUntouched ==
    ASSUME EpType, NEW x \in Episode, NEW c, NEW t, MarkFailed(x, c, t), NEW e \in Episode,
           UNCHANGED <<files, wiped>>
    PROVE  Untouched(e)
<1>1. ep' = [ep EXCEPT ![x].status = "failed", ![x].err = c]
  BY DEF MarkFailed
<1>2. QED
  BY <1>1, UntouchedFiles DEF EpType, EpisodeRow

LEMMA StatusUntouched ==
    ASSUME EpType, NEW x \in Episode, NEW s, s # "done",
           ep' = [ep EXCEPT ![x].status = s], NEW e \in Episode, UNCHANGED <<files, wiped>>
    PROVE  Untouched(e)
BY UntouchedFiles DEF EpType, EpisodeRow

LEMMA SameUntouched ==
    ASSUME NEW e, UNCHANGED <<ep, files, wiped>>
    PROVE  Untouched(e)
BY UntouchedFiles

\* The steps that move files or change what a row says of them.
MediaMoves ==
    \/ SaveDownload \/ Transcribe \/ CommitDone \/ VerifyAndUnlink
    \/ \E e \in Episode : \/ IngestFeed(e) \/ DeleteRow(e)
                          \/ \E k \in {"url", "upload"} : IngestByHand(e, k)

LEMMA UntouchedStep ==
    ASSUME Inv, [Next]_vars, ~MediaMoves, NEW e \in Episode
    PROVE  Untouched(e)
<1> EpType
  BY DEF Inv, TypeOK, EpType
<1>1. CASE BeginDownload
  <2>1. worker.ep \in Episode /\ UNCHANGED <<files, wiped>>
    BY <1>1, WorkerFields DEF BeginDownload, At, InHandler
  <2>2. QED
    BY <1>1, <2>1, MarkFailedUntouched, StatusUntouched DEF BeginDownload
<1>2. CASE OpenFile
  <2>1. UNCHANGED <<ep, arcFiles, wiped>> /\ rawFiles \subseteq rawFiles'
    BY <1>2 DEF OpenFile
  <2>2. QED
    BY <2>1 DEF Untouched
<1>3. CASE DownloadDiskFull
  <2>1. worker.ep \in Episode /\ UNCHANGED <<files, wiped>>
    BY <1>3, WorkerFields DEF DownloadDiskFull, At, InHandler
  <2>2. QED
    BY <1>3, <2>1, MarkFailedUntouched DEF DownloadDiskFull
<1>4. CASE BeginTranscribe
  <2>1. worker.ep \in Episode /\ UNCHANGED <<files, wiped>>
    BY <1>4, WorkerFields DEF BeginTranscribe, At, InHandler
  <2>2. UNCHANGED ep \/ ep' = [ep EXCEPT ![worker.ep].status = "transcribing"]
    BY <1>4 DEF BeginTranscribe
  <2>3. QED
    BY <2>1, <2>2, StatusUntouched, SameUntouched
<1>5. CASE Diarize
  <2>1. worker.ep \in Episode /\ UNCHANGED <<files, wiped>>
    BY <1>5, WorkerFields DEF Diarize, At, InHandler
  <2>2. PICK ok \in BOOLEAN : ep' = [ep EXCEPT ![worker.ep].diar = ok]
    BY <1>5 DEF Diarize
  <2>3. QED
    BY <2>1, <2>2, UntouchedFiles DEF EpType, EpisodeRow
<1>6. CASE BeginStage
  <2>1. worker.ep \in Episode /\ worker.task \in Task /\ UNCHANGED <<files, wiped>>
    BY <1>6, WorkerFields DEF BeginStage, At, InHandler
  <2>2. UNCHANGED ep \/ ep' = [ep EXCEPT ![worker.ep].status = StatusOf[worker.task]]
    BY <1>6 DEF BeginStage
  <2>3. StatusOf[worker.task] # "done"
    BY <2>1 DEF StatusOf, Task
  <2>4. QED
    BY <2>1, <2>2, <2>3, StatusUntouched, SameUntouched
<1>7. CASE Compress
  <2>1. UNCHANGED <<ep, rawFiles, wiped>> /\ arcFiles \subseteq arcFiles'
    BY <1>7 DEF Compress
  <2>2. QED
    BY <2>1 DEF Untouched
<1>8. CASE ArchiveDiskFull
  <2>1. worker.ep \in Episode /\ UNCHANGED <<files, wiped>>
    BY <1>8, WorkerFields DEF ArchiveDiskFull, At, InHandler
  <2>2. QED
    BY <1>8, <2>1, MarkFailedUntouched DEF ArchiveDiskFull
<1>9. CASE HandleException
  <2>1. worker.ep \in Episode /\ UNCHANGED <<files, wiped>>
    BY <1>9, WorkerFields DEF HandleException
  <2>2. CASE UNCHANGED ep
    BY <2>1, <2>2, SameUntouched
  <2>3. CASE MarkFailed(worker.ep, worker.class, "drop")
    BY <2>1, <2>3, MarkFailedUntouched
  <2>4. CASE ep' = [ep EXCEPT ![worker.ep].status = "pending",
                              ![worker.ep].retries = @ + 1,
                              ![worker.ep].err = worker.class]
    BY <2>1, <2>4, UntouchedFiles DEF EpType, EpisodeRow
  <2>5. QED
    BY <1>9, <2>2, <2>3, <2>4 DEF HandleException
<1>10. ASSUME NEW j \in JobId, ReapZombie(j) PROVE Untouched(e)
  <2>1. jobs[j].ep \in Episode /\ UNCHANGED <<files, wiped>>
    BY <1>10, PickedRow DEF ReapZombie
  <2>2. QED
    BY <1>10, <2>1, MarkFailedUntouched DEF ReapZombie
<1>11. ASSUME NEW x \in Episode, Sweep(x) PROVE Untouched(e)
  BY <1>11, StatusUntouched DEF Sweep
<1>12. ASSUME NEW x \in Episode, RetryJob(x) PROVE Untouched(e)
  BY <1>12, UntouchedFiles DEF RetryJob, EpType, EpisodeRow
<1>13. ASSUME NEW x \in Episode, DeleteFiles(x) PROVE Untouched(e)
  BY <1>13 DEF DeleteFiles, Untouched
<1>14. CASE UNCHANGED <<ep, files, wiped>>
  BY <1>14, SameUntouched
<1>15. CASE Handle
  BY <1>1, <1>2, <1>3, <1>4, <1>5, <1>6, <1>7, <1>8, <1>9, <1>14, <1>15
     DEF Handle, MediaMoves, BeginDiarize, StageWork, Handoff, Complete, Announce,
         HandlerRaises, Requeue, FailJob, EpisodeVanished
<1>16. CASE Sweeps
  BY <1>10, <1>11, <1>14, <1>16 DEF Sweeps, Prune
<1>17. ASSUME NEW x \in Episode, Requests(x) PROVE Untouched(e)
  BY <1>12, <1>13, <1>14, <1>17 DEF Requests, MediaMoves, EnqueueIngest, RequestDies
<1>18. ASSUME NEW j \in JobId, Poll(j) \/ RetryDue(j) PROVE Untouched(e)
  BY <1>14, <1>18 DEF Poll, RetryDue
<1>19. CASE Crash
  BY <1>14, <1>19 DEF Crash
<1>20. QED
  BY <1>14, <1>15, <1>16, <1>17, <1>18, <1>19 DEF vars, Next

LEMMA MediaRowsStep == ASSUME Inv, Media, [Next]_vars PROVE MediaRows'
<1> EpType /\ MediaRows /\ MediaWorker
  BY DEF Inv, TypeOK, EpType, Media
<1>1. CASE ~MediaMoves
  BY <1>1, UntouchedStep, UntouchedRow DEF MediaRows
<1>2. ASSUME NEW x \in Episode, NEW r, ep' = [ep EXCEPT ![x] = r], UNCHANGED wiped,
             \A y \in Episode : y \in rawFiles => y \in rawFiles',
             \A y \in Episode : y \in arcFiles => y \in arcFiles',
             MediaRow(x)'
      PROVE  MediaRows'
  <2>1. ASSUME NEW y \in Episode, y # x PROVE Untouched(y)
    BY <1>2, <2>1 DEF EpType, Untouched
  <2>2. QED
    BY <1>2, <2>1, UntouchedRow DEF MediaRows
<1>3. CASE SaveDownload
  <2>1. PICK e \in Episode :
          e = worker.ep /\ Exists(e) /\ worker.task = "download" /\ worker.pc = "file"
    BY <1>3, WorkerFields DEF SaveDownload, At, InHandler
  <2> DEFINE r == [ep[e] EXCEPT !.audio = "raw"]
  <2>2. ep' = [ep EXCEPT ![e] = r] /\ UNCHANGED <<files, wiped>>
    BY <1>3, <2>1 DEF SaveDownload
  <2>3. /\ ep'[e].audio = "raw" /\ ep'[e].status = ep[e].status /\ ep'[e].segs = ep[e].segs
    BY <2>1, <2>2 DEF EpType, EpisodeRow
  <2>4. MediaRow(e)
    BY <2>1 DEF MediaRows
  <2>5. e \notin wiped => e \in rawFiles /\ ep[e].status # "done"
    BY <2>1 DEF MediaWorker, Here
  <2>6. MediaRow(e)'
    BY <2>2, <2>3, <2>4, <2>5 DEF MediaRow, HasFile, files
  <2> HIDE DEF r
  <2>7. QED
    BY <1>2, <2>1, <2>2, <2>6 DEF files
<1>4. CASE Transcribe
  <2>1. PICK e \in Episode : e = worker.ep /\ Exists(e) /\ HasFile(e, ep[e].audio)
    BY <1>4, WorkerFields DEF Transcribe, At, InHandler, Here
  <2>2. UNCHANGED <<files, wiped>>
    BY <1>4 DEF Transcribe
  <2>3. /\ ep'[e].audio = ep[e].audio /\ ep'[e].status # "done"
        /\ \A y \in Episode : y # e => ep'[y] = ep[y]
    BY <1>4, <2>1 DEF Transcribe, EpType, EpisodeRow
  <2>4. MediaRow(e)'
    BY <2>1, <2>2, <2>3 DEF MediaRow, HasFile, files
  <2>5. ASSUME NEW y \in Episode, y # e PROVE MediaRow(y)'
    BY <2>2, <2>3, <2>5, UntouchedFiles, UntouchedRow DEF MediaRows
  <2>6. QED
    BY <2>4, <2>5 DEF MediaRows
<1>5. CASE CommitDone
  <2>1. PICK e \in Episode :
          e = worker.ep /\ Exists(e) /\ worker.task = "archive" /\ worker.pc = "file"
    BY <1>5, WorkerFields DEF CommitDone, At, InHandler
  <2>2. UNCHANGED <<files, wiped>>
    BY <1>5 DEF CommitDone
  <2>3. \A y \in Episode : y # e => ep'[y] = ep[y]
    BY <1>5, <2>1 DEF CommitDone, EpType
  <2>4. ASSUME ep[e].segs,
               ep' = [ep EXCEPT ![e].status = "done",
                                ![e].audio = IF worker.kept THEN "archive" ELSE "none"]
        PROVE  MediaRow(e)'
    <3>1. /\ ep'[e].segs
          /\ ep'[e].audio = IF worker.kept THEN "archive" ELSE "none"
      BY <2>1, <2>4 DEF EpType, EpisodeRow
    <3>2. e \notin wiped => /\ worker.kept => e \in arcFiles
                            /\ ArchiveAudio => worker.kept
      BY <2>1, <2>4 DEF MediaWorker, Here
    <3>3. e \notin wiped' =>
             /\ ep'[e].audio # "none" => ep'[e].audio = "archive" /\ e \in arcFiles'
             /\ ArchiveAudio => ep'[e].audio = "archive"
      BY <2>2, <3>1, <3>2 DEF files
    <3>4. QED
      BY <3>1, <3>3 DEF MediaRow, HasFile
  <2>5. ASSUME ep' = [ep EXCEPT ![e].status = "no_speech", ![e].err = "NO_SPEECH"]
        PROVE  MediaRow(e)'
    <3>1. Untouched(e)
      BY <2>1, <2>2, <2>5, UntouchedFiles DEF EpType, EpisodeRow
    <3>2. QED
      BY <2>1, <3>1, UntouchedRow DEF MediaRows
  <2>6. MediaRow(e)'
    BY <1>5, <2>1, <2>4, <2>5 DEF CommitDone, Here
  <2>7. ASSUME NEW y \in Episode, y # e PROVE MediaRow(y)'
    BY <2>2, <2>3, <2>7, UntouchedFiles, UntouchedRow DEF MediaRows
  <2>8. QED
    BY <2>6, <2>7 DEF MediaRows
<1>6. CASE VerifyAndUnlink
  <2>1. PICK e \in Episode :
          e = worker.ep /\ Exists(e) /\ worker.task = "archive" /\ worker.pc = "verify"
    BY <1>6, WorkerFields DEF VerifyAndUnlink, At, InHandler
  <2>2. UNCHANGED <<ep, wiped>>
    BY <1>6 DEF VerifyAndUnlink
  <2>3. \A y \in Episode : y # e =>
          /\ y \in rawFiles => y \in rawFiles'
          /\ y \in arcFiles => y \in arcFiles'
    BY <1>6, <2>1 DEF VerifyAndUnlink, files
  <2>4. e \notin wiped => ep[e].audio = IF worker.kept THEN "archive" ELSE "none"
    BY <2>1 DEF MediaWorker, Here
  <2>5. worker.kept /\ e \in arcFiles => e \in arcFiles'
    BY <1>6, <2>1 DEF VerifyAndUnlink, files
  <2>6. MediaRow(e)
    BY <2>1 DEF MediaRows
  <2>7. MediaRow(e)'
    BY <2>2, <2>4, <2>5, <2>6 DEF MediaRow, HasFile
  <2>8. ASSUME NEW y \in Episode, y # e PROVE MediaRow(y)'
    BY <2>2, <2>3, <2>8, UntouchedRow DEF MediaRows, Untouched
  <2>9. QED
    BY <2>7, <2>8 DEF MediaRows
<1>7. ASSUME NEW x \in Episode, IngestFeed(x) PROVE MediaRows'
  <2>1. ep' = [ep EXCEPT ![x] = NewRow("feed")] /\ UNCHANGED <<files, wiped>>
    BY <1>7 DEF IngestFeed
  <2>2. ep'[x] = NewRow("feed")
    BY <2>1 DEF EpType
  <2>3. MediaRow(x)'
    BY <2>2 DEF MediaRow, NewRow, Row
  <2>4. QED
    BY <1>2, <2>1, <2>3 DEF files
<1>8. ASSUME NEW x \in Episode, NEW k \in {"url", "upload"}, IngestByHand(x, k)
      PROVE  MediaRows'
  <2>1. /\ ep' = [ep EXCEPT ![x] = NewRow(k)] /\ UNCHANGED <<arcFiles, wiped>>
        /\ rawFiles' = IF k = "upload" THEN rawFiles \cup {x} ELSE rawFiles
    BY <1>8 DEF IngestByHand
  <2>2. ep'[x] = NewRow(k)
    BY <2>1 DEF EpType
  <2>3. MediaRow(x)'
    BY <2>1, <2>2 DEF MediaRow, NewRow, Row, HasFile
  <2>4. QED
    BY <1>2, <2>1, <2>3
<1>9. ASSUME NEW x \in Episode, DeleteRow(x) PROVE MediaRows'
  <2>1. ep' = [ep EXCEPT ![x] = NoRow("deleted")] /\ UNCHANGED <<files, wiped>>
    BY <1>9 DEF DeleteRow
  <2>2. ep'[x] = NoRow("deleted")
    BY <2>1 DEF EpType
  <2>3. MediaRow(x)'
    BY <2>2 DEF MediaRow, NoRow, Row
  <2>4. QED
    BY <1>2, <2>1, <2>3 DEF files
<1>10. QED
  BY <1>1, <1>3, <1>4, <1>5, <1>6, <1>7, <1>8, <1>9 DEF MediaMoves

\* Nobody but the worker disturbs what it relies on.
LEMMA MediaWorkerKept ==
    ASSUME Inv, MediaWorker, UNCHANGED worker, worker.pc \in {"work", "file", "verify"},
           Exists(worker.ep), Untouched(worker.ep)
    PROVE  MediaWorker'
BY DEF MediaWorker, Untouched, HasFile, Here, Exists

LEMMA MediaWorkerStep == ASSUME Inv, Media, [Next]_vars PROVE MediaWorker'
<1> EpType /\ MediaRows /\ MediaWorker /\ worker \in Worker
  BY DEF Inv, TypeOK, EpType, Media
<1>1. CASE worker'.pc \notin {"work", "file", "verify"}
  BY <1>1 DEF MediaWorker
<1>2. ASSUME UNCHANGED worker, worker'.pc \in {"work", "file", "verify"},
             ~SaveDownload, ~Transcribe, ~CommitDone, ~VerifyAndUnlink
      PROVE  MediaWorker'
  <2>1. PICK e \in Episode : e = worker.ep /\ ep[e].status # "absent"
    BY <1>2 DEF Inv, ClaimHeld
  <2>2. CASE ~Exists(e)'
    BY <1>2, <2>1, <2>2 DEF MediaWorker, Exists
  <2>3. CASE Exists(e)'
    <3>1. Exists(e)
      BY <2>1, <2>3, ExistsStep
    <3>2. CASE ~MediaMoves
      BY <1>2, <2>1, <3>1, <3>2, UntouchedStep, MediaWorkerKept
    <3>3. ASSUME NEW x \in Episode, NEW r, r.status = "deleted" \/ ep[x].status = "absent",
                 ep' = [ep EXCEPT ![x] = r], UNCHANGED <<arcFiles, wiped>>,
                 rawFiles \subseteq rawFiles'
          PROVE  MediaWorker'
      <4>1. x # e
        BY <2>1, <2>3, <3>3 DEF Exists, EpType
      <4>2. Untouched(e)
        BY <2>1, <3>3, <4>1 DEF EpType, Untouched
      <4>3. QED
        BY <1>2, <2>1, <3>1, <4>2, MediaWorkerKept
    <3>4. ASSUME NEW x \in Episode, IngestFeed(x) PROVE MediaWorker'
      BY <3>3, <3>4 DEF IngestFeed, files
    <3>5. ASSUME NEW x \in Episode, NEW k \in {"url", "upload"}, IngestByHand(x, k)
          PROVE  MediaWorker'
      BY <3>3, <3>5 DEF IngestByHand
    <3>6. ASSUME NEW x \in Episode, DeleteRow(x) PROVE MediaWorker'
      <4>1. NoRow("deleted").status = "deleted"
        BY DEF NoRow, Row
      <4>2. ep' = [ep EXCEPT ![x] = NoRow("deleted")] /\ UNCHANGED <<files, wiped>>
        BY <3>6 DEF DeleteRow
      <4> HIDE DEF NoRow
      <4>3. QED
        BY <3>3, <4>1, <4>2 DEF files
    <3>7. QED
      BY <1>2, <3>2, <3>4, <3>5, <3>6 DEF MediaMoves
  <2>4. QED
    BY <2>2, <2>3
<1>3. ASSUME NEW pc, Goto(pc)
      PROVE  SameJob /\ worker'.pc = pc /\ worker'.kept = worker.kept
  BY <1>3 DEF Goto, Worker, SameJob
<1>4. ASSUME NEW pc, Goto(pc), pc \notin {"work", "file", "verify"} PROVE MediaWorker'
  BY <1>1, <1>3, <1>4
<1>5. ASSUME NEW c, Raise(c) PROVE MediaWorker'
  BY <1>1, <1>5 DEF Raise, Worker
<1>6. ASSUME NEW x, NEW c, NEW t, MarkFailed(x, c, t) PROVE MediaWorker'
  BY <1>1, <1>6 DEF MarkFailed, Worker
<1>7. CASE BeginDownload
  <2>1. worker.ep \in Episode /\ worker.task = "download"
    BY <1>7, WorkerFields DEF BeginDownload, At, InHandler
  <2>2. CASE ep' = [ep EXCEPT ![worker.ep].status = "downloading"] /\ Goto("work")
    <3>1. SameJob /\ worker'.pc = "work"
      BY <1>3, <2>2
    <3>2. ep'[worker.ep].status = "downloading"
      BY <2>1, <2>2 DEF EpType, EpisodeRow
    <3>3. QED
      BY <2>1, <3>1, <3>2 DEF MediaWorker, Here, SameJob
  <2>3. QED
    BY <1>6, <1>7, <2>2 DEF BeginDownload
<1>8. CASE OpenFile
  <2>1. worker.task = "download" /\ worker.pc = "work" /\ worker.ep \in rawFiles'
        /\ UNCHANGED <<ep, wiped>> /\ Goto("file")
    BY <1>8 DEF OpenFile
  <2>2. SameJob /\ worker'.pc = "file"
    BY <1>3, <2>1
  <2>3. QED
    BY <2>1, <2>2 DEF MediaWorker, Here, SameJob, Exists
<1>9. CASE BeginTranscribe \/ BeginDiarize
  <2>1. worker.task \in {"transcribe", "diarize"}
    BY <1>9 DEF BeginTranscribe, BeginDiarize, At
  <2>2. CASE Goto("work")
    <3>1. SameJob
      BY <1>3, <2>2
    <3>2. QED
      BY <2>1, <3>1 DEF MediaWorker, SameJob
  <2>3. QED
    BY <1>4, <1>5, <1>9, <2>2 DEF BeginTranscribe, BeginDiarize
<1>10. CASE BeginStage
  <2> DEFINE e == worker.ep
  <2>1. e \in Episode /\ worker.task \notin {"download"} /\ UNCHANGED <<files, wiped>>
    BY <1>10, WorkerFields DEF BeginStage, At, InHandler
  <2>2. CASE /\ ep' = [ep EXCEPT ![e].status = StatusOf[worker.task]]
             /\ worker' = [worker EXCEPT !.pc = "work",
                             !.src = IF worker.task = "archive" THEN Here.audio ELSE "none"]
    <3>1. SameJob /\ worker'.pc = "work" /\ (worker.task = "archive" => worker'.src = ep[e].audio)
      BY <2>2 DEF Worker, SameJob, Here
    <3>2. ep'[e].segs = ep[e].segs
      BY <2>1, <2>2 DEF EpType, EpisodeRow
    <3>3. e \notin wiped /\ ArchiveAudio /\ ep[e].segs => HasFile(e, ep[e].audio)
      BY <2>1 DEF MediaRows, MediaRow
    <3>4. QED
      BY <2>1, <3>1, <3>2, <3>3 DEF MediaWorker, Here, SameJob, HasFile, files
  <2>3. QED
    BY <1>4, <1>10, <2>2 DEF BeginStage
<1>11. CASE Compress
  <2> DEFINE e == worker.ep
  <2>1. worker.task = "archive" /\ worker.pc = "work" /\ UNCHANGED <<ep, wiped>>
    BY <1>11 DEF Compress
  <2>2. SameJob /\ worker'.pc = "file"
    BY <1>11 DEF Compress, Worker, SameJob
  <2>3. \/ e \in arcFiles' /\ worker'.kept = TRUE
        \/ ~(ArchiveAudio /\ HasFile(e, worker.src)) /\ worker'.kept = FALSE
    BY <1>11 DEF Compress, Worker
  <2>4. QED
    BY <2>1, <2>2, <2>3 DEF MediaWorker, Here, SameJob, Exists
<1>12. CASE CommitDone
  <2> DEFINE e == worker.ep
  <2>1. e \in Episode /\ worker.task = "archive"
    BY <1>12, WorkerFields DEF CommitDone, At, InHandler
  <2>2. CASE /\ ep' = [ep EXCEPT ![e].status = "done",
                                 ![e].audio = IF worker.kept THEN "archive" ELSE "none"]
             /\ Goto("verify")
    <3>1. ep'[e].audio = IF worker.kept THEN "archive" ELSE "none"
      BY <2>1, <2>2 DEF EpType, EpisodeRow
    <3>2. SameJob /\ worker'.pc = "verify" /\ worker'.kept = worker.kept
      BY <1>3, <2>2
    <3>3. QED
      BY <2>1, <3>1, <3>2 DEF MediaWorker, Here, SameJob
  <2>3. QED
    BY <1>4, <1>12, <2>2 DEF CommitDone
<1>13. CASE Handle
  <2>1. CASE worker' = Idle
    BY <1>1, <2>1 DEF Idle
  <2>2. CASE SaveDownload \/ Transcribe \/ Diarize \/ StageWork \/ Handoff \/ Requeue
    BY <1>4, <2>2 DEF SaveDownload, Transcribe, Diarize, StageWork, Handoff, Requeue
  <2>3. CASE VerifyAndUnlink \/ HandlerRaises
    BY <1>4, <1>5, <2>3 DEF VerifyAndUnlink, HandlerRaises
  <2>4. CASE DownloadDiskFull \/ ArchiveDiskFull
    BY <1>6, <2>4 DEF DownloadDiskFull, ArchiveDiskFull
  <2>5. CASE HandleException
    <3>1. CASE worker'.pc \in {"drop", "requeue"}
      BY <1>1, <3>1
    <3>2. CASE MarkFailed(worker.ep, worker.class, "drop")
      BY <1>6, <3>2
    <3>3. QED
      BY <2>5, <3>1, <3>2 DEF HandleException, Worker
  <2>6. CASE Announce
    <3>1. worker.then \in {"idle", "finish", "drop"}
      BY DEF Worker
    <3>2. worker' = Idle \/ worker'.pc \in {"finish", "drop"}
      BY <2>6, <3>1 DEF Announce, Worker
    <3>3. QED
      BY <1>1, <2>1, <3>2
  <2>7. QED
    BY <1>7, <1>8, <1>9, <1>10, <1>11, <1>12, <1>13, <2>1, <2>2, <2>3, <2>4, <2>5, <2>6
       DEF Handle, Complete, FailJob, EpisodeVanished
<1>14. CASE Sweeps
  <2>1. worker.pc = "idle"
    BY <1>14 DEF Sweeps, Prune, ReapZombie, Sweep
  <2>2. UNCHANGED worker \/ \E j \in JobId : MarkFailed(jobs[j].ep, "SYSTEM_ERROR", "idle")
    BY <1>14 DEF Sweeps, Prune, ReapZombie, Sweep
  <2>3. QED
    BY <1>1, <1>6, <2>1, <2>2
<1>15. ASSUME UNCHANGED worker, ~Handle PROVE MediaWorker'
  BY <1>1, <1>2, <1>15 DEF Handle
<1>16. ASSUME NEW x \in Episode, Requests(x) PROVE UNCHANGED worker
  BY <1>16 DEF Requests, IngestFeed, IngestByHand, RetryJob, EnqueueIngest, DeleteFiles,
               DeleteRow, RequestDies
<1>17. ASSUME NEW j \in JobId, Poll(j) PROVE MediaWorker'
  <2>1. worker' = [Idle EXCEPT !.pc = "begin", !.job = j, !.ep = jobs[j].ep,
                               !.task = jobs[j].task]
    BY <1>17 DEF Poll
  <2>2. QED
    BY <1>1, <2>1 DEF Idle
<1>18. CASE Crash
  BY <1>1, <1>18 DEF Crash, Idle
<1>19. QED
  BY <1>13, <1>14, <1>15, <1>16, <1>17, <1>18 DEF vars, Next, RetryDue

LEMMA MediaInit == Init => Media
<1> SUFFICES ASSUME Init PROVE Media
  OBVIOUS
<1>1. MediaWorker
  BY DEF Init, Idle, MediaWorker
<1>2. ASSUME NEW e \in Episode PROVE MediaRow(e)
  <2>1. CASE ep[e] = NoRow("absent")
    BY <2>1 DEF MediaRow, NoRow, Row
  <2>2. ASSUME NEW s \in Stragglers, ep[e] = StragglerRow(s) PROVE MediaRow(e)
    <3>1. /\ ep[e].status = s
          /\ ep[e].audio = IF s = "downloading" THEN "none" ELSE "raw"
          /\ ep[e].segs = (s \notin {"downloading", "transcribing"})
      BY <2>2 DEF StragglerRow, Row
    <3>2. s # "done"
      BY StragglerAssumption
    <3>3. ep[e].audio = "raw" => e \in rawFiles
      BY DEF Init
    <3>4. QED
      BY <3>1, <3>2, <3>3 DEF MediaRow, HasFile
  <2>3. QED
    BY <2>1, <2>2 DEF Init
<1>3. QED
  BY <1>1, <1>2 DEF Media, MediaRows

LEMMA MediaInvariant == Spec => []Media
<1>1. Inv /\ Media /\ [Next]_vars => Inv' /\ Media'
  BY InvStep, MediaRowsStep, MediaWorkerStep DEF Media
<1>2. QED
  BY InitInv, MediaInit, <1>1, PTL DEF Spec

\* AudioBacked, for every number of episodes: a recorded audio path names a file.
THEOREM AudioOnDisk == Spec => []AudioBacked
<1>1. Media => AudioBacked
  BY DEF Media, MediaRows, MediaRow, AudioBacked
<1>2. QED
  BY MediaInvariant, <1>1, PTL

\* DonePlayable, for every number of episodes: done means a transcript and, where audio is
\* archived, a row that points at the archive.
THEOREM DoneIsPlayable == Spec => []DonePlayable
<1>1. Media => DonePlayable
  BY DEF Media, MediaRows, MediaRow, DonePlayable
<1>2. QED
  BY MediaInvariant, <1>1, PTL
=============================================================================
