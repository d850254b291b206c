----------------------------- MODULE QueuePage -----------------------------
(***************************************************************************)
(* The dashboard of the queue: the snapshot that the server takes, the     *)
(* polls that bring it, and the view that filters it.                      *)
(*                                                                         *)
(* A snapshot is read bucket by bucket, each by a statement of its own, so *)
(* the pipeline may move an episode between two of them.  The pipeline     *)
(* itself (module Pipeline) is the environment here.  An episode that has  *)
(* just ended may still have a picked job.                                 *)
(***************************************************************************)
EXTENDS Site

CONSTANTS
    Episodes,
    Stages,         \* the stages of an episode in flight, which are also its tasks
    DoneLimit,      \* how many finished episodes a snapshot lists
    MaxPolls,       \* bounds the polls
    MaxSteps,       \* bounds the steps of the pipeline
    MaxFilters      \* bounds the clicks

ASSUME QueueAssumption ==
    /\ IsFiniteSet(Episodes)
    /\ None \notin Stages
    /\ Stages \cap {"pending", "done", "failed", "no_speech", "stuck"} = {}
    /\ {DoneLimit, MaxPolls, MaxSteps, MaxFilters} \subseteq Nat

VARIABLES
    episodes,   \* the rows of the database, with their jobs
    polls,      \* the snapshots being read or on their way
    polled,
    queue,      \* the snapshot that the page shows
    view,       \* the filter, the search, and whether the finished episodes are shown
    retries,    \* the retries on their way
    steps,
    filters

queueVars == <<episodes, polls, polled, queue, view, retries, steps, filters>>

Terminal == {"done", "failed", "no_speech"}
Bar == Stages \cup {"pending", "done", "failed", "stuck"}

-----------------------------------------------------------------------------
\* The pipeline.  An error is final when no retry can help.

Row(status, waiting, picked, final) ==
    [status |-> status, waiting |-> waiting, picked |-> picked, final |-> final]

Possible ==
    {Row(s, waiting, picked, FALSE) : s \in Stages \cup {"pending"}, waiting \in BOOLEAN,
                                      picked \in Stages \cup {None}}
    \cup {Row("done", FALSE, picked, FALSE) : picked \in Stages \cup {None}}
    \cup {Row("no_speech", FALSE, picked, TRUE) : picked \in Stages \cup {None}}
    \cup {Row("failed", FALSE, picked, final) : picked \in Stages \cup {None}, final \in BOOLEAN}

\* A waiting job is picked; a picked one starts its stage, hands over, ends or leaves.
Moved(row) ==
    CASE row.picked = None ->
            {[row EXCEPT !.waiting = FALSE, !.picked = s] : s \in IF row.waiting THEN Stages ELSE {}}
      [] row.picked # None /\ row.status \in Terminal -> {[row EXCEPT !.picked = None]}
      [] OTHER -> {[row EXCEPT !.status = row.picked], [row EXCEPT !.picked = None, !.waiting = TRUE]}
                  \cup {[row EXCEPT !.status = "done"]}
                  \cup {[row EXCEPT !.status = "no_speech", !.final = TRUE]}
                  \cup {[row EXCEPT !.status = "failed", !.final = f] : f \in BOOLEAN}

Dirty == polls' = {[poll EXCEPT !.clean = @ /\ poll.todo = << >>] : poll \in polls}

PipelineStep(e) ==
    /\ steps < MaxSteps /\ steps' = steps + 1
    /\ \E row \in Moved(episodes[e]) \ {episodes[e]} : episodes' = [episodes EXCEPT ![e] = row]
    /\ Dirty
    /\ UNCHANGED <<polled, queue, view, retries, filters>>

-----------------------------------------------------------------------------
\* The snapshot.

\* Mutant: an episode without speech is in no bucket.
InBucketMostly(bucket, row) ==
    CASE bucket = "active" -> row.picked # None
      [] bucket = "pending" -> row.waiting /\ row.picked = None /\ row.status \notin Terminal
      [] bucket \in {"done", "count"} -> row.status = "done"
      [] bucket = "stuck" -> row.status \notin Terminal /\ ~row.waiting /\ row.picked = None
      [] OTHER -> row.status = bucket

InBucket(bucket, row) ==
    CASE bucket = "active" -> row.picked # None
      [] bucket = "pending" -> row.waiting /\ row.picked = None /\ row.status \notin Terminal
      [] bucket \in {"done", "count"} -> row.status \in {"done", "no_speech"}
      [] bucket = "stuck" -> row.status \notin Terminal /\ ~row.waiting /\ row.picked = None
      [] OTHER -> row.status = bucket

ShownStatus(bucket, row) ==
    CASE bucket = "active" -> row.picked
      [] bucket \in {"pending", "stuck"} -> bucket
      [] OTHER -> row.status

Bucket(bucket) ==
    LET members == {e \in Episodes : InBucket(bucket, episodes[e])}
    IN {[episode |-> e, bucket |-> bucket, status |-> ShownStatus(bucket, episodes[e]),
         final |-> episodes[e].final] : e \in members}

\* The newest finished episodes; which those are is left open.
Listings(bucket) ==
    IF bucket = "done" /\ Cardinality(Bucket("done")) > DoneLimit
    THEN {rows \in SUBSET Bucket("done") : Cardinality(rows) = DoneLimit}
    ELSE {Bucket(bucket)}

NewPoll == [id |-> polled + 1, todo |-> <<"active", "pending", "failed", "done", "stuck", "count">>,
            rows |-> {}, done |-> 0, clean |-> TRUE]
NoQueue == [rows |-> {}, done |-> 0, clean |-> FALSE]

Poll ==
    /\ polled < MaxPolls
    /\ polls' = polls \cup {NewPoll} /\ polled' = polled + 1
    /\ UNCHANGED <<episodes, queue, view, retries, steps, filters>>

ReadBucket(poll) ==
    /\ poll.todo # << >>
    /\ \E rows \in Listings(Head(poll.todo)) :
         polls' = (polls \ {poll}) \cup
            {IF Head(poll.todo) = "count"
             THEN [poll EXCEPT !.todo = Tail(@), !.done = Cardinality(rows)]
             ELSE [poll EXCEPT !.todo = Tail(@), !.rows = @ \cup rows]}
    /\ UNCHANGED <<episodes, polled, queue, view, retries, steps, filters>>

\* Whichever arrives last is shown.
AnswerPoll(poll) ==
    /\ poll.todo = << >>
    /\ polls' = polls \ {poll}
    /\ queue' = [rows |-> poll.rows, done |-> poll.done, clean |-> poll.clean]
    /\ UNCHANGED <<episodes, polled, view, retries, steps, filters>>

LosePoll(poll) ==
    /\ polls' = polls \ {poll}
    /\ UNCHANGED <<episodes, polled, queue, view, retries, steps, filters>>

-----------------------------------------------------------------------------
\* The view: what the bar counts and which rows a filter leaves.

Counts(stage) ==
    IF stage = "done" THEN queue.done
    ELSE Cardinality({row \in queue.rows : row.bucket # "done" /\ row.status = stage})

\* Mutant: the stage "done" finds only what is called so.
MatchesStageByName(row, stage) == stage = None \/ row.status = stage
MatchesStage(row, stage) ==
    \/ stage = None \/ row.status = stage
    \/ stage = "done" /\ row.status = "no_speech"

Matching(stage, found) ==
    {row \in queue.rows : row.episode \in found /\ MatchesStage(row, stage)}

ShowsDone == view.showDone \/ view.filter = "done"
Rows == {row \in Matching(view.filter, view.found) : row.bucket # "done" \/ ShowsDone}

Filtering == queue # NoQueue /\ filters < MaxFilters /\ filters' = filters + 1

\* A segment of the bar, or the stage of a row.
FilterStage(stage) ==
    /\ Filtering
    /\ view' = [view EXCEPT !.filter = IF @ = stage THEN None ELSE stage]
    /\ UNCHANGED <<episodes, polls, polled, queue, retries, steps>>

FilterText(found) ==
    /\ Filtering
    /\ view' = [view EXCEPT !.found = found]
    /\ UNCHANGED <<episodes, polls, polled, queue, retries, steps>>

ToggleDone ==
    /\ Filtering
    /\ queue.done > 0
    /\ view' = [view EXCEPT !.showDone = ~ShowsDone,
                            !.filter = IF @ = "done" THEN None ELSE @]
    /\ UNCHANGED <<episodes, polls, polled, queue, retries, steps>>

\* The button is in the opened row of a failed episode only.
RetryRow(row) ==
    /\ Filtering
    /\ row.status = "failed" /\ ~row.final
    /\ retries' = retries \cup {row.episode}
    /\ UNCHANGED <<episodes, polls, polled, queue, view, steps>>

RetryAccepted(row) ==
    ~row.final /\ (row.status \in {"done", "failed", "pending"} \/ (~row.waiting /\ row.picked = None))

LandRetry(e) ==
    /\ retries' = retries \ {e}
    /\ IF RetryAccepted(episodes[e])
       THEN episodes' = [episodes EXCEPT ![e].status = "pending", ![e].waiting = TRUE] /\ Dirty
       ELSE UNCHANGED <<episodes, polls>>
    /\ UNCHANGED <<polled, queue, view, steps, filters>>

LoseRetry(e) ==
    /\ retries' = retries \ {e}
    /\ UNCHANGED <<episodes, polls, polled, queue, view, steps, filters>>

QueueInit ==
    /\ episodes \in [Episodes -> Possible]
    /\ polls = {} /\ polled = 0 /\ queue = NoQueue
    /\ view = [filter |-> None, found |-> Episodes, showDone |-> FALSE]
    /\ retries = {} /\ steps = 0 /\ filters = 0

QueueNext ==
    \/ \E e \in Episodes : PipelineStep(e) \/ FilterText({e})
    \/ Poll
    \/ \E poll \in polls : ReadBucket(poll) \/ AnswerPoll(poll) \/ LosePoll(poll)
    \/ \E stage \in Bar : FilterStage(stage)
    \/ ToggleDone
    \/ \E row \in Rows : RetryRow(row)
    \/ \E e \in retries : LandRetry(e) \/ LoseRetry(e)
=============================================================================
