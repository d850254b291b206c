# Podlog, specified in TLA+

Podlog subscribes to podcast feeds, downloads episodes, transcribes and diarizes
them, and makes them searchable. This directory specifies the two parts of it in
which the order of events decides:

* **the pipeline**, which has to survive crashes, retries and concurrent requests: the
  job queue in PostgreSQL, the worker, the seven stage handlers, the recovery sweeps
  and the API requests that change episodes beside them;
* **the pages of the web application**, which work with answers that come late, out of
  order or not at all: speakers, settings, conversations, feeds,
  search, queue and player, each with the server routes and the database rows behind it.

Paths below are relative to `apps/pipeline/app` unless they start with `apps/`, `docs/`
or `web/`, which stands for `apps/web/src`.

## The system

| Component | State | Operations | Interacts with |
|---|---|---|---|
| Job queue (`job_queue.py`, `models.Job`) | rows of `job_queue`: episode, task, status, `retry_at` | enqueue, poll, complete, fail, prune | worker, handlers, API, sweeps |
| Worker (`worker.py`, `task_registry.py`) | one process; the job it holds | poll loop, failure classification, automatic retry, periodic tasks | queue, handlers |
| Stage handlers (`tasks/`) | `episodes.status`, paths, flags; audio and transcript files | download, transcribe, diarize, chunk, embed, infer, archive | queue (each enqueues the next), files |
| Failure helpers (`tasks/helpers.py`) | `error_class`, terminal statuses | `mark_failed`, `mark_no_speech` | event bus |
| Recovery sweeps (`tasks/cleanup.py`) | none of their own | zombie jobs, stranded episodes, pruning, missing turns | queue, episodes |
| Episode API (`api/episodes.py`, `api/queue.py`, `services/pipeline_commands.py`) | episode rows, uploaded files | ingest by URL, upload, retry, delete | queue; concurrent with the worker |
| Feeds (`api/feeds.py`, `tasks/ingest.py`, `services/rss.py`) | `feeds`, new episode rows | add, poll, update, delete; full, test and selective mode | queue |
| Speakers (`tasks/infer.py`, `services/inference*.py`, `services/speaker_turns.py`, web routes `speakers`, `speakers/merge`) | `speaker_names`, segment labels, turns, cache of confirmed names | infer, confirm, merge, dismiss, reset, rebuild turns | the web routes write the same rows |
| Speaker panel (`web/components/TranscriptSection.tsx`, `SpeakerPanel.tsx`, `MergeBar.tsx`) | a copy of the segments, cards, merge mode | name, give a role, merge, dismiss, filter | the speaker routes |
| Settings page (`web/components/NotificationSettings.tsx`, `PromptsSection.tsx`, `BackupsSection.tsx`, `UnsavedChanges.tsx`) | a form with two tabs, drafts of prompts, a draft of the retention | edit, save one, save all, discard, leave | settings, prompts and backups routes |
| Conversations (`web/app/ask`, `EpisodeChat.tsx`, `DocsAskBubble.tsx`, the `ask` proxies) | exchanges, the stream being read, the model, browser storage | ask, read frames, abort, clear, minimise, leave, export | RAG service |
| Feeds page (`web/app/feeds`, `AddEpisodesDialog.tsx`, `useFeedActions.ts`) | cached list, two dialogs with a picker | preview, add, pick, post, change or delete a feed | feed routes |
| Search page (`web/app/search`, `SpeakerFilter.tsx`, `page-state.ts`) | query, address, filters, cached answers, totals in refs | type, submit, filter, page, go back, revisit | search routes |
| Queue dashboard (`services/queue_snapshot.py`, `web/components/QueueStatus.tsx`, `web/lib/queueStatus.ts`) | a snapshot read in six statements; filter | poll, filter, retry | job queue |
| Audio player (`web/components/AudioPlayer*.tsx`) | context, bar, one audio element | open, toggle, seek, mute, close | pages that open recordings |
| Digest (`services/digest.py`) | event log, last-sent time | log an event, send when due, mark sent | event bus, channels |
| Pipeline alerts (`services/pipeline_alerts.py`) | which alerts are raised | failure streak per stage, stalled queue, recovery | queue, channels |
| Event bus and channels (`services/events.py`, `notification*.py`) | subscribers | emit; handler errors are swallowed | helpers, digest |
| Chunking, alignment (`services/chunking.py`, `alignment.py`) | none | pure functions | chunk and diarize |
| Embedding provenance, backfill (`services/embed_provenance.py`, `tasks/backfill_chunks.py`) | the adopted model, missing chunks | check, adopt, backfill | embed, API |
| Backups (`apps/backup/backup.sh`) | dumps and audio snapshots | run, prune by retention | database, files |
| Telegram bot (`services/telegram_bot.py`) | update offset, busy flag | poll, answer, back off | queue snapshot, RAG |
| Rendering, migrations, model services | | lists and cards; schema; external models | |

What makes each of them correct:

* **Queue and worker.** A claimed row is closed on every path; an episode is never
  left without a job that could move it on; stage priority finishes one episode
  before the next.
* **Handlers.** Stages run in order and on what the stages before them left; a path
  in the database names a file on disk; `done` means readable and playable.
* **Failure handling.** Retries stay within their budget and repeat the stage that
  failed; a failure that must be announced is announced.
* **Sweeps.** What a crash leaves behind comes to rest, and what is at rest stays
  there.
* **Episode API.** A request never forks, strands or resurrects an episode by itself.
* **Speakers.** A name a user confirmed survives inference and is flagged when the
  labels were numbered anew; no name belongs to a label nobody speaks under; the page
  shows what is stored once its requests are answered.
* **Settings.** Nothing is stored that was not entered in its own field, nor what was not
  unsaved when Save was pressed; no draft
  is lost to another save; what is not listed as unsaved is what the server has.
* **Conversations.** Answers do not mix; an answer that looks finished is whole; a
  question without an answer never lends itself to another's; the input is blocked only
  while something is read.
* **Feeds page.** A picker is that of its own dialog and keeps what is picked; the list
  settles on what the server has.
* **Search page.** The address, the form, the totals and the options agree.
* **Queue dashboard.** Every episode is shown and counted where a click finds it.
* **Player.** What sounds is what the bar names.
* **Feed polling.** One row per GUID; the test-mode limit holds; a poll and a deletion
  do not leave orphans.
* **Digest and alerts.** No event is dropped and none is reported twice except after
  a crash; an alert follows each edge once.
* **Backups.** A failed dump never counts as a good one when old dumps are pruned.

Hard behaviours of the pipeline: a crash can fall between any two commits; an API
request can fall between any two steps of a handler; a claim outlives the process that
took it; two chains of jobs can run for one episode after a manual retry; files and rows
are not changed together. Of the pages: a handler works with what it captured when it
was called; a request outlives the dialog or the page that sent it; answers overtake
each other, are refused or lost; a stream breaks in the middle of a frame; the user goes
on all the while.

## Modules

The pipeline:

* `JobQueue` -- the queue table and its operations. `jobs` is the table by id,
  `lastId` the sequence; `Foremost` is the `ORDER BY` of `poll`.
* `Pipeline` -- extends it with the episodes, the files, the worker and the API. One
  action is what one database commit or one file operation makes visible.
* `PipelineProperties` -- type invariant, invariants, action properties, liveness, and
  the statements of the repository that its code does not keep.
* `EpisodeLifecycle` -- the abstract specification: an episode without queue, worker
  and files. It goes through the stages in order and comes to rest; a transient error
  repeats its stage at the price of a retry; anything else takes a death.
  `PipelineProperties` refines it (`Life`, `LifecycleImplemented`): the stage of an
  episode under way is the task of its newest open job.
* `MCPipeline` -- the instance TLC checks, with the symmetry of the episodes.
* `PipelineProofs` (types), `PipelineSafety` (failures, files), `PipelineChains` (jobs,
  inputs, the refinement) -- theorems about `Pipeline`.

The web application:

* `SpeakerNames` -- the rows of one episode and their three writers: the web routes, the
  stages that rebuild the segments, and inference, cut at its reads and its commit.
* `SpeakerPanel` -- extends it with the open episode page and the requests under way.
  `SpeakerProperties` states what they keep together, `MCSpeakers` is the instance,
  `SpeakerProofs` holds the theorems.
* `Settings`, `SettingsProperties`, `MCSettings`, `SettingsProofs` (what is stored, whose
  turn it is), `SettingsSafety` (what is shown and dropped) -- the Settings page with what
  the server stores.
* `Conversations`, `ConversationProperties`, `MCConversations`, `ConversationProofs` -- the
  Ask page, the chat of an episode and the bubble of the documentation. They are one
  component in three variants: `page` says which.
* `FeedsPage`, `SearchPage`, `QueuePage`, `Player` -- a page each, `Site` what they share,
  `Library` their choice: they keep no state in common, so a behaviour of `Library` stays
  on the page it began with. `LibraryProperties` states what they keep, `MCLibrary` is the
  instance, `LibraryProofs` holds the theorems.

How the state corresponds to the code:

| Model | Code |
|---|---|
| `ep[e].status` | `episodes.status`; `downloading:NN` is `downloading`; `absent` and `deleted` are no row |
| `ep[e].kind` | `feed_id` set; `audio_url` by hand; `local://` upload |
| `ep[e].retries`, `err`, `audio`, `diar` | `retry_count`, `error_class`, `audio_local_path`, `has_diarization` |
| `ep[e].segs` | the episode has rows in `segments` |
| `rawFiles`, `arcFiles` | files under `audio_raw_dir`, `audio_archive_dir` |
| `worker.pc` | the place in `main`, a handler, `_handle_task_exception` or `mark_failed` |
| `worker.src`, `kept` | the locals `raw_path` and `archived_path is not None` of `archive_episode` |
| `api[e]` | a request between its two commits, or between the files and the row |
| `jobs[j].due` | `retry_at` is null or past |
| `rows`, `segs`, `turns`, `cache` | `speaker_names`, `segments.speaker_label`, `speaker_turns`, `feed_speaker_cache` |
| `infer` | what `infer_speakers` read before it writes |
| `view`, `card`, `merge`, `busy` (`SpeakerPanel`) | state of `TranscriptSection`, `SpeakerCard`, `SpeakerPanel`, `UnmatchedNames` |
| `net` (`SpeakerPanel`, `Settings`) | requests under way, with what their handler captured; `live` is false once the page is gone |
| `form`, `prompts`, `backups` (`Settings`) | state of `NotificationSettings`, `PromptsSection`, `BackupsSection` with `RetentionEditor` |
| `next` | what the bar's `saveAll` has still to call, entries of the render in which it was pressed |
| `view`, `stream` (`Conversations`) | state of the component; the fetch it reads, by the last frame sent |
| `local`, `session`, `setting` | `podlog-ask-model`, `podlog-ask-page-state`, `rag_local_model` |
| `add`, `more`, `previews`, `loads`, `posting`, `acts` | the two dialogs of the feeds page and the requests they and the buttons sent |
| `form`, `url`, `pending`, `cache`, `totals`, `flights` (`SearchPage`) | the page's state, the address, its replacement under way, the query cache, the refs of each visit, the searches under way |
| `polls`, `queue` (`QueuePage`) | snapshots being read, and the one the page shows |
| `player`, `audio`, `bar` | `AudioPlayerContext`, the audio element, `AudioPlayer` |

History variables say what a property has to except, or what it is measured against:
`alert`, `wiped`, `crashes` and `manual` (what is owed for the last failure, whose files a
delete request removed, two counters); `edited`, `crossed`, `spoken`, `astray` (labels a user
touched; a merge during inference; the labels before inference gave every run a slot of its
own; something the page cannot know); `entered`, `submitted`, `droppable` (what an edit left
in a field; what was unsaved when Save was pressed; the drafts that may go); `due`, `splits`
(tokens that reached the page; frames lost); `lost` and `clean`. `index` counts the changes of
what a search finds.

The handlers are cut at their commits. "begin" reads the row and commits the stage's
status, "work" is the long computation up to the commit of its result, "file" lies
between a file operation and the row that records it, "verify" is archive's read-back,
"handoff" enqueues the next stage, "finish" closes the claim. `OpenFile` and
`Compress` do not look at the row, so they happen to an episode deleted meanwhile as
well; every write to a deleted row raises (`EpisodeVanished`).

Abstractions of the pipeline, and why they are sound here:

* Time is left out. A backed-off job becomes due at some moment; a claim still open
  between two jobs may have outlived its timeout. There is one worker, so an open claim
  between jobs belongs to nobody.
* A sweep over many rows is one step per row, with its query and write together; the
  steps of other processes between rows are kept.
* `retry_job`'s read and first commit are one step; the second commit is another.
* One API request is in flight per episode.
* chunk, embed and infer write rows of their own that no other modelled step reads.
* The event bus swallows handler errors, so announcing is one step.
* Feed deletion and a graceful SIGTERM are not modelled.

In the web modules a request has three steps: it is sent with what its handler captured,
the server serves or refuses it, and the page takes the answer. Any of them may be
interleaved with any step of the user, the pipeline and other requests; an answer may be
lost after the server has acted. Their abstractions:

* A name is an honorific and a base, a setting a set of atoms, an answer a sequence of
  numbered tokens, a search a number of hits: what the properties tell apart. The first
  matters because the cache of confirmed names drops honorifics.
* A route is one transaction and one step; inference, which reads long before it commits,
  and the queue snapshot, which has a statement for each bucket, are cut.
* A frame of a stream is sent and handled in one step, and may be lost to a split between
  two chunks. What is sent to a reader that was aborted is seen by nobody and is dropped.
* The Settings page's `saveAll` starts its next entry before the browser handles another
  event (`Next` gives `BarStart` precedence), as the awaits between them do.
* Text that is being typed is an edit when it is complete; in the search page, when it is
  submitted.
* Which labels the segments get is a choice (`Episodes`): any labels, with gaps between
  them or none on a segment, as `alignment.py` leaves them when it gives the words of a
  minor speaker to another (`_absorb_minor_speakers`) or finds no overlap
  (`assign_speakers`). Only the segments listed in `Again` may be at inference when a
  behaviour begins; that a label with a guess has no gap below it then is what inference
  itself establishes.
* An edit of a text field replaces it, empties it, or changes one part of what the input
  shows. The input of a secret shows its mask, and that can be edited, too (`EditInPlace`).
* In the queue page the pipeline is the environment, by the rows it can leave.
* The audio element is external and modelled by how the code uses it.

## Runs

| Run | Asks | Bounds |
|---|---|---|
| `pipeline_recovery` | Does everything come to rest, within the retry budget, with its failures announced and no claim leaked, wherever the worker and the API die? Does the system implement `EpisodeLifecycle`? | 1 episode (feed, upload or straggler), 2 deaths, 1 automatic retry, transient errors anywhere |
| `pipeline_retry` | Do files, rows and jobs stay consistent when a user retries or deletes at any moment? | 1 episode (URL or upload), 1 manual retry, 1 death |
| `pipeline_stages` | Does stage priority finish one episode before the next, and does each stage find its inputs? | 2 feed episodes, 1 retry each, no death |
| `speaker_panel` | Do confirmed names survive, are carried ones flagged, are there no phantoms, and does the page follow, while the episode is processed again and requests fail and overtake each other? | 3 segments of one or two speakers, or with a gap below the only label and a segment without one; 1 name, 1 name carried over, 2 requests or rebuilds, an editor for one label |
| `settings_page` | Is nothing stored that was not entered and submitted, no draft lost, no control blocked, and is what is not listed as unsaved stored? | a secret, a list and a model setting, 2 prompts, 3 retentions, 2 edits, 2 requests, each of which may be a Save that sends several |
| `conversations` | Do answers stay apart and whole, errors stay, histories pair, models stay offered and defaults unstored? | 2 questions, 2 tokens, 2 lost frames, 2 visits, 1 choice of a model, history of 3, a retired model |
| `library` | Do pickers, totals, pages, options, lists, counts and the sound belong to what is on the page? | 2 feeds with 2 episodes and 3 clicks; 2 queries, 2 page sizes, 3 moves, 2 visits, 1 fault (a failure, a stale answer or a change of the index); 2 episodes in the queue, 1 poll, 1 step, 1 filter; 2 recordings, 3 openings |
| `sigkill_not_swept`, `failure_not_notified`, `stuck_not_swept`, `done_not_final`, `picked_from_own_feed` | Five statements of the repository, each refuted; see below | the smallest instance that shows it |

Why the bounds are enough. In the pipeline, `MaxJobs` is never reached in the first two
runs (an invariant `lastId < MaxJobs` holds there), so it cuts nothing off. In
`pipeline_stages` it cuts the longest behaviours: 13 rows hold both episodes up to their
last stages and a retry of either. Two deaths let a second crash fall into the recovery
from the first; one retry is enough to reach and to exhaust the budget; one manual retry
is enough for two chains of jobs on one episode. Episodes interact only through the
worker's choice of the next job, which `pipeline_stages` covers with two. The fault
classes enter by their treatment: one that is retried, one that is refused
(`HTTP_ACCESS`), the ones that always fail; `DISK_FULL` and `SYSTEM_ERROR` also arise
from the handlers themselves.

In the web runs the bounds let each pair of operations overlap: two requests of the user,
each served, refused or lost, in any order, beside one run of the background (a rebuild
with inference, a poll with a step of the pipeline). Two edits let one come before Save
and one after it. Two visits let an answer of the first arrive in the second, two clicks
on dialogs the answer of one in the other, and a third sends what the second picked.
Two lost frames are what it takes to lose both the error and the end of a stream.
What two requests cannot show is left out and said here: merges of three labels at once,
and three overlapping saves. The theorems below have no such bound.

`CHECK_DEADLOCK FALSE` in every run: the pipeline is at rest when its queue is empty, and a
page when its bounds are used up. The invariants hold at every state on the way there.

Fairness (`FairSpec`): the worker loop goes on (weak fairness on its steps and on
`Poll` together), each backoff elapses, each claim left open and each stranded episode
is met by its sweep (`PERIODIC_TASKS` run on every turn of the loop once their interval
has passed, also after an error), and an API request that has begun goes on. Weak
fairness is enough: while such a step is possible nothing but the worker's own work
keeps disabling it, and that work is finite for each episode. It assumes that a dead
worker is started again; `docker-compose.yml` gives the worker no `restart:` policy, so
after a crash of the process, rather than an error the loop catches, that is the
operator's part. No user is obliged to do anything.

The web runs state safety only. A user owes nothing, and an answer may never come: the
requests modelled there set no timeout that would end the wait for one.

### What the runs show

The properties of the passing runs hold, with what their comments except. Where the code
falls short of what one would like to say, the property names the case:

* `NoSilentFailure` -- a failure that must be announced is announced, unless the worker dies
  inside the zombie sweep's own `mark_failed`: its claim is closed and `failed` committed by
  then (`tasks/cleanup.py:69-82`), and no later sweep finds it. No other death loses one.
* `ConfirmedStays` -- the text of a confirmed name changes only by a request of the user's, or
  by the commit of an inference that read the row before it was confirmed. That overwrites
  it and leaves the flag, against `docs/guide/06-speakers.md:29`.
* `NoPhantoms` -- no label without segments gets an inferred name, but for a merge meanwhile
  and for an episode whose every run is short. There `write_speaker_names` keeps the guesses
  whose number is among the labels the segments had (`inference_db.py:246-272`), while the
  segments get slots: with labels 0 and 2 a name goes to a label nobody speaks under.
* `StoredIsEntered` -- what is stored in a setting is what an edit left in that field. A save
  sends the edits and not the form, so an untouched mask is never stored; but the input of a
  secret is filled with the mask, and an edit in place, even one typed and deleted again,
  sends it: `notification_settings.py:202-204` stores it unchecked.
* `PageInRange` -- a page that is asked for is one that the same search had, under the same
  filters and page size. The index may have shrunk since, between two pages or before a
  visit that restores the old page (`search/page.tsx:58-60`): then there are no results and
  no pager to go back with (`search/page.tsx:352-371`).
* `ListSettled` -- the list follows the server unless its last read failed or the answer to a
  change was lost; the list then stays as it was until the next read.
* `DraftsKept` -- see *Settings* below for the text that a second save lets go.

TLC refutes each of the first five without its exception. Five statements of the repository
do not hold:

1. `SigkillIsSwept` -- `tasks/cleanup.py:180` says the stranded sweep finds an episode
   whose worker was killed between a commit and an enqueue. The dead worker's claim is
   still open and counts as an active job, so the sweep passes over the episode; the
   zombie sweep *fails* it after its timeout. `NeverStranded` shows the converse: no
   crash of the present code leaves anything for the stranded sweep.
2. `TerminalFailureNotified` -- `worker.py:116` says a terminal failure is notified.
   `mark_failed` emits only for three classes or a spent budget, so `HTTP_ACCESS`
   fails silently on the first attempt.
3. `StuckIsSwept` -- `docs/guide/08-queue.md:61-66` says stuck episodes are swept up. A
   `pending` episode without a job, left by an API request that died between its two
   commits, is excluded from the sweep.
4. `DoneRests` -- `tasks/helpers.py:49` says `done` is a resting status. A worker that
   dies between archive's commit of `done` and the close of its claim makes the zombie
   sweep fail a finished episode.
5. `PickedFromOwnFeed` -- the comment at `web/app/feeds/page.tsx:44` says that dropping
   late previews keeps the episodes of one feed from being posted to another. The address
   stays editable while its preview loads (`_components/AddFeedStep1.tsx:58`), so the
   episodes picked from the preview of address A are posted with address B.

### Statements beside the runs

These are stated in the modules and refuted by TLC within a few steps, but have no run of
their own. Each can be checked by naming it as an invariant of the run in parentheses.

* `TurnsDerived` (`speaker_panel`) -- `models.py:172` has the turns "derived entirely
  from" the segments and `tasks/chunk.py:24` has them built when those are final.
  Inference and merges relabel segments afterwards, and the turns keep labels nobody has.
* `FilterShowsSegments` (`speaker_panel`) -- `TranscriptSection.tsx:84` switches an active
  filter that was merged away to its target. The handler of a merge compares the filter of
  the render that sent it: merge mode can be left and a filter set while the merge is under
  way, and that filter then shows nothing.
* `SlotsDisjoint` (`speaker_panel`) -- `inference_db.py:231` numbers guests within the
  slots of real speakers so that no second pending row meets a row of role `other`. When no
  run is long enough there are no real slots; names then go by position, `other` rows start
  at the same first slot, and the commit fails.
* `CountedEditsShown` (`settings_page`) -- `NotificationSettings.tsx:136` lays the other
  tab's edits back over an answer "or they would vanish from the form while still being
  counted as unsaved". It lays back the edits of the moment of the call: what is typed into
  the other tab while the save is under way does vanish.

Noticed while reading, and not made into runs: `RETRY_MAX` (`config.py:51`,
`docs/configuration.md:39`) is read by nothing, the column default of
`episodes.retry_max` is what counts; `docs/episode-lifecycle.md:27` still lists
`HTTP_ACCESS` among the retried classes; a `DISK_FULL` failure tells the user to "Free
space and retry" (`tasks/download.py:105`) and the API refuses that retry.

Noticed in the web application:

* Speakers. A role clicked on an unnamed speaker stores `SPEAKER_NN` as a confirmed name,
  and one clicked beside a pending rename sends the old name. The page's `handleMerged`
  does not copy the target's role and `handleRoleChanged` leaves the badge "Inferred"
  until a reload, which is why `PageFollows` compares labels, names and review marks only.
  It excepts the mark of a speaker without a name, because of a case the attempt to prove
  it brought up: inference reads the rows, the user confirms the name of a label that
  inference will make an `other` row, the commit empties that name and leaves it
  confirmed, and the next rebuild flags the row. A reload shows a nameless speaker marked
  for review; `handleMerged` copies from a segment with a name (`TranscriptSection.tsx:90`),
  finds none, and leaves the mark off what is merged into it.
  A merge between the rebuild and inference's commit lets inference write a row for the
  label that was merged away (`NoPhantoms` excepts it).
* Settings. An edit of the tab that is being saved is dropped with the others of that tab
  when the answer arrives. `PromptsSection` has one `busyKey`: a second save unblocks the
  first prompt's text, the end of the first unblocks the second's, and what is typed into
  either then is dropped (`DraftsKept` excepts both; the second came up in an attempt to
  prove it, and takes three edits, one more than the run has). The
  list read again after a deletion resets an unsaved retention. Two tabs that save the
  settings at the same time overwrite each other's JSON (`notification_settings.py:187`).
* Conversations. `currentEvent` is declared for each chunk, so a frame split between two
  loses its event (`EpisodeChat.tsx:176`, `ask/page.tsx:216`, `DocsAskBubble.tsx:119`); the
  proxy swallows an upstream error and leaves the stream open (`ask/route.ts:43`), which
  blocks the input until Clear. The Ask page does not abort when it is left. A late answer
  of the settings replaces a model the user has just picked, and stores it.
* Feeds. The success of a request closes whichever dialog is open by then; `deleteFeed` ignores
  `resp.ok`; a list that could not be read again is shown as it was; the button of the earlier
  of two pending rows is enabled again.
* Search. A second page that is answered after another search took over the ref is cached
  with no total. An aborted load of the speakers clears `loading` while its successor runs,
  so that speakers of the old sources can be picked (`docs/guide/04-search.md:45`). A page that
  a smaller index no longer has shows "no results" (`search/page.tsx:352-371`).
* Queue. The six statements of a snapshot run under `READ COMMITTED`: an episode that
  moves between them is missing or shown twice until the next poll. Polls have no guard of
  their order. Retry is offered for failed rows only, although stuck ones count as
  retryable.
* Player. The button shows "playing" after the end, after a rejected `play()` and after a
  replay from the same place; opening an episode without a file resets the mute icon while
  the element stays muted.

## Proofs

The theorems hold for every set of episodes, fields, prompts, feeds, queries, sources and
models and every value of the bounds. They use the named assumptions on the constants, and no
other, save for the hypotheses of four theorems, which the table names; they hold in the runs
that check the same properties. In the pipeline: `NoEpisode` is no episode, the counters are
naturals, and `Faults` and `Stragglers` are among the classes and statuses the code knows
(`KindAssumption` and `SettingAssumption` are needed by none). In the web modules: the default
model is offered and not retired, the page sizes are positive, searches have a number of hits,
secrets are text fields, the fields of the two tabs are different, and the segments have labels
or none. Nothing is assumed of which labels those are, of what is typed, or of how the index
changes.

| Theorem | States | Rests on |
|---|---|---|
| `PipelineProofs!TypeCorrect` | `[]TypeOK` | `Inv` |
| `PipelineSafety!RetriesWithinBudget` | `[]RetryBudget` | `Inv`, `AllSpent` |
| `PipelineSafety!FailuresRemembered` | `NoSilentFailure` | `Inv`, `AlertOwed` |
| `PipelineSafety!AudioOnDisk` | `[]AudioBacked` | `Inv`, `Media` |
| `PipelineSafety!DoneIsPlayable` | `[]DonePlayable` | `Inv`, `Media` |
| `PipelineChains!ClaimsClosed` | `[]LeakedClaims` | `Inv`, `OwnClaim` |
| `PipelineChains!NoneStranded` (`Stragglers = {}`) | `[]NeverStranded` | `Inv`, `Owed` |
| `PipelineChains!StrandedFromTheStart` | `[][\A e : Stranded(e)' => Stranded(e)]_vars` | `Inv`, `OwedOrStray` |
| `PipelineChains!NeverForked` | `[]PipelinesBounded` | `Inv`, `Chains` |
| `PipelineChains!InputsReady` (`MaxManual = 0`) | `[]StageInputs` | `Inv`, `Chains`, `InputsHeld` |
| `PipelineChains!PipelineRefinesLifecycle` (`MaxManual = 0`) | `LifecycleImplemented` | those and `Course` |
| `PipelineChains!OneAtATime` (`MaxManual = 0`, `MaxCrashes = 0`, `Stragglers = {}`) | `[]OneInFlight` | those, `Unstarted`, `Preferred`, `Alone` |
| `SpeakerProofs!ConfirmedKept` | `ConfirmedStays` | `NamesInv` |
| `SpeakerProofs!CarriedFlagged` | `[]CarriedNamesFlagged` | `NamesInv` |
| `SpeakerProofs!ControlsReleased` | `[]BlockedByRequest` | `PanelInv` |
| `SpeakerProofs!NamesHaveSegments` | `[]NoPhantoms` | `NamesInv`, `PhantomsInv` |
| `SpeakerProofs!PageShowsRows` | `[]PageFollows` | `PanelInv`, `FollowInv` |
| `SettingsProofs!StoredWasEntered` | `[]StoredIsEntered` | `SettingsInv` |
| `SettingsProofs!OnlySubmittedStored` | `NeverHalfFinished` | `SettingsInv` |
| `SettingsProofs!SavesUnderWay` | `[]SavingHasRequest` | `SavingInv` |
| `SettingsProofs!TurnsTaken` | saves take turns, in the bar's order; nothing reaches a page that was left | `SettingsInv`, `SavingInv`, `TurnsInv` |
| `SettingsSafety!UnlistedStored` | `[]UnlistedIsStored` | those and `ShowsInv` |
| `SettingsSafety!DraftsStayed` | `DraftsKept` | those and `DraftsInv` |
| `ConversationProofs!AnswersOwn`, `AnswersWhole` | `[]AnswersOwnQuestion`; every answer has what reached it, or failed | `TypeInv`, `Paired` |
| `ConversationProofs!BlockedWhenReading`, `ErrorsKept` | `[]BlockedWhileReading`, `ErrorKept` | `TypeInv`, `Steady` |
| `ConversationProofs!ModelsOffered`, `OnlyChosenStored` | `[]ModelOffered`, `StoredIsChosen` | `TypeInv`, `Remembered` |
| `ConversationProofs!HistoryInPairs` | `[]HistoryPaired` | `TypeInv`, `FlattenClosed` |
| `ConversationProofs!FinishedWhole` | `[]FinishedIsWhole` | `TypeInv`, `Steady`, `Paired`, `Uncut` |
| `LibraryProofs!SearchesAddress`, `TotalsOfOwnSearch`, `PageExists`, `OptionsOfSources` | `[]UrlAgrees`, `[]TotalsTrue`, `[]PageInRange`, `[]FreshOptions` | `SearchInv` |
| `LibraryProofs!PickerOfOwnDialog`, `HiddenPicksKept` | `[]PreviewOfThisDialog`, `HiddenKept` | `FeedsInv` |
| `LibraryProofs!ListFollows` | `[]ListSettled` | `ListInv` |
| `LibraryProofs!SoundMatchesBar` | `[]PlaysWhatItShows` | `PlayerInv` |
| `LibraryProofs!NoneHidden`, `SegmentsCount` | `[]EveryEpisodeShown`, `[]BarMatchesRows` | `QueueInv` |

### The pipeline

**Inv** is `TypeOK /\ JobsOwned /\ ClaimHeld`. `TypeOK` alone is not inductive: closing
the claimed job keeps the table typed only if that row is a job, and a row could go
under the worker. `ClaimHeld` says that while the worker's episode exists, its claim is
a `picked` row of that episode, and that no handoff follows archive. To keep it, no
other step may write the claimed row: an insertion must take a free id (`JobsOwned`:
ids beyond the sequence are free), the sweeps run only between jobs, pruning takes
closed rows, and a deletion takes the episode with its rows (`JobsOwned`: a job's
episode exists). Types are proved one variable at a time (`EpStep`, `WorkerStep`,
`JobsStep`, ...), then `RowStep` (how a status can change), `OwnedStep`, `ClaimKept` and
`ClaimStep`, each with one case per action.

**AllSpent** drops nothing but the bound on the counter, which is part of the type: the
second half of `RetryBudget` is inductive given `Inv`, because a failure with a
transient class is recorded in one place, where the budget is spent.

**AlertOwed** strengthens `NoSilentFailure`. The open claim through which a failure will
be announced must be one no living worker holds (`Unclaimed`), or the worker could close
it silently; it must be kept whatever the episode's status becomes, as a user may retry
a failed episode in between; and a deleted episode is owed nothing. `UnclaimedRow` shows
that such a row is touched only by the zombie sweep, which announces, and by the
deletion of the episode. `ClaimMoves` shows that a worker never takes one. The case that
matters is a death inside `mark_failed`: there `ClaimHeld` provides the row, save for the
sweep's own `mark_failed`, which works on a claim it has closed. That this is the only
death to lose an announcement is the second half of the property (`AlertReleased`).

**Media** joins what a row says of its files (`MediaRow`) with what the worker relies on
between a file operation and the commit that records it (`MediaWorker`): a file it has
just written is there, the source archive reads is the one the row named, and at the
read-back the row names the archive or nothing. Most steps leave both alone
(`Untouched`, `UntouchedStep`); the seven that do not have a case each.

`PipelineChains` looks at each step from one episode e. `SeenStep` sorts the steps of the
whole system into what e can see of them (`SeenFrom`): a step of its own handler, the
poll's claim, a death, either sweep, a request, or a step that leaves e's row and open
jobs as they are; and no step concerns two episodes (`OthersAway`). Most results below are
then an induction over these cases for one e.

* *Claims.* `LeakedClaims` counts: the open claims that the worker does not hold grow only
  by its death, which `crashes` counts too. A claim is left in no other way because each
  handler's step either closes its job or keeps it (`WorkGoesOn`), and a row it keeps is of
  its own episode (`OwnClaim`).
* *Nobody stranded.* `Owed` says who carries e on while it is under way (`Carried`): a
  claim that a dead worker left (the zombie sweep will fail e), a job to come, or a
  handler on the move. `NeverStranded` alone is not inductive: the open job may be the one
  the worker is about to close, or a `transcribe` job that its handler will take for done.
  Episodes that start stranded satisfy the weaker `Stray`, and only the sweep ends that.
* *No fork.* The chains of e are its pending jobs, a request between its commits and a
  handler that has yet to hand on. Each step that starts one ends one, or counts in
  `manual`; a sweep enqueues only where `Owed` shows that there was none.
* *Inputs.* `InputsHeld` says of every pending job, row status, and place of the worker
  that the segments it will need are there, and of the worker at work that the audio is.
  A manual retry starts a second chain beside an older one, and what one chain left the
  other may take away: hence `MaxManual = 0`.
* *Refinement.* `Course` says in which order the claims and jobs of e stand (`InOrder`: the
  newest open job is the one the worker holds or the one that will come next) and how the
  status, the worker's place and the pending jobs agree. It gives `StageOf`, which is a
  `CHOOSE` of the newest job, by cases (`DrivenStage` and the lemmas beside it; that there
  is a newest job is by well-foundedness of the ids, `GreatestId`). `LifeSeen` maps each
  case of `SeenFrom` to a step of the lifecycle for e or to none, and `LifeStep` for all
  e together gives the abstract next-state relation.
* *One at a time.* `Unstarted` says that what has not started starts with a download,
  `Preferred` that what is under way has a due job that the poll takes before any download,
  and `Alone` that a download is claimed only when nothing is under way.

The hypotheses are no convenience. A manual retry forks an episode, by design; a death
leaves claims whose episode a sweep fails later while another is under way; a row
that starts stranded is stranded. TLC checked `Course`, `Owed` and the rest as invariants
over 0.5 million states with deaths and stragglers and 1.3 million with manual retries
before they were proved.

### The web application

**NamesInv** adds to `CarriedNamesFlagged` that requests and rows are records of their
shapes. The work is in the one row-writing operation of each writer: `PutKeeps` (a user's
name, which is confirmed and counts as edited), the merge, the dismissal, the reset that
flags, and inference's write. A name is put only with a request of that label and name that
this step serves (`Asked`), which is why a change of text is the user's. Inference leaves out
the rows it read as confirmed; of a row confirmed since, the session writes the columns that
differ from what was read: the flag is not among them, the name is, and such a row was read
unconfirmed. So what inference holds is unconstrained in the proof. **PanelInv**
ties each control that is blocked to a request of its own label and kind; an answer may
release only its own control, so the cards' labels and the request's have to be carried
through its three steps.

**PhantomsInv** follows the labels from diarization to inference's commit: as long as no
merge crossed, the segments are those the diarizer gave (`FreshSegments`); a guess that is
there meanwhile is one of labels without gaps, as inference leaves them (`RowsBefore`); and
what inference will write are slots for labelled segments, with names on those slots or,
where no slot is real, on labels the segments had (`SlotsFound`). The slots are numbers, so
the proof has to count: positions fall into runs of one speaker (each position in exactly
one, `OneRun` and `SomeRun`), a set ordered by a measure is numbered from 0 without a gap
(`Ranked`), so the n slots are 0 to n-1 (`SlotsFilled`), and n is at least the number of
labels found. If those have no gaps they are all among the slots: an old guess keeps its
segments. A guess for a slot is a guess for a label somebody speaks under.

**FollowInv** says what the page shows while requests are under way. A request is carried
out in one step and heard of in another; in between, a segment whose label was merged away
may still carry it (`Moving`), and one whose label was renamed is compared with the name
in the request rather than the row (`InPlace`). Any other segment fits its row (`Fits`).
That this survives every order of answers rests on what the page allows at once: one
request that names a given label, one merge (`OneEach`); where it allows more, `astray` is
set. A role is sent with the name the page shows, so serving it does not change the name
(`NamesAgree`); the target of a merge is shown until the merge is heard of (`TargetShown`),
because a label leaves the page only as a source of a merge.

**SettingsInv** follows what was unsaved when Save was pressed to the row it ends in: `form`'s
edits were entered in their fields (`FormOK`), the entries the bar has left carry edits that
were submitted (`RestOK`), so do the requests (`NetOK`) and what they leave for the bar to do
after them, and nothing was submitted that was not entered. `RestOK` is a property of a
sequence whose elements are closures of an earlier render; that is why edits made meanwhile
cannot get into a save. `submitted` only grows (`MoreSubmitted`), so what was promised once
holds. **SavingInv** names, for each control that shows it is saving, the request that will
release it: a request of its kind, or one that reads again what a save changed, for the same
owner.

**TurnsInv** is what the next two stand on. One save of a tab and one save of all prompts are
under way at most; what the bar has still to save (`next`, or the rest that a request carries)
is in the order N, I, P, B and comes after what is being saved (`Queue`, `Place`); each entry
of a tab is a part of what that tab has unsaved (`Entered`), because only its own save clears
it and Discard waits (`SavingIsListed`). That the order holds from the start is a fact about
`Listed`, four lists of one name or none put together (`JoinedInOrder`, `ListedIs`).

**ShowsInv** says, as long as `astray` is not set, of everything the page shows that it is
what the server has, or that the answer which will correct it is under way: the save that was
served for the form (`Saves`), the request or the load after it for a prompt (`Carries`), the
answer or the load after it for the backups (`Retains`, `Drops`). Every answer under way tells
what the server has now (`Fresh`): another change between would have set `astray`. The delicate
part is the form: the answer to a save of one tab has the other tab's edits of the time Save was
pressed laid over it. `OverOK` says that each of them is unsaved still or stored, for the
requests and for the entries that wait.

**DraftsInv** holds whether or not requests overlap. Of each request about prompts it says
what the load that ends it may drop. For a saveAll, every prompt it has stored has the draft
that was stored, or none (`Kept`), and the one being stored and those still to come have the
draft that is sent (`Now`): nothing can be typed meanwhile. For a prompt's own save or reset
the same holds while that prompt is the busy one (`Meant`). A second save takes that away, and
so does the end of a save whose prompt is busy no more; both put all texts of the prompt they
unblock into `droppable`, so it is `Spent`. Two of them about one prompt need that as well,
because the end of either unblocks the other. The theorem says that nothing outside `droppable`
is dropped, not that all of it was stored: of a prompt unblocked this way any text may go.

**Paired** joins the exchanges on the page and in the session with the counters: questions
are numbered upwards and tokens belong to the last (`AllMade`), the question that streams
is not that of an earlier exchange or of the session (`Apart`), and it is not given up
(`Counting`). `AnswersOwnQuestion` by itself is not inductive, because it does not say
whose tokens are to come. **Steady** relates the phase of the stream to the status of the
page by the number of frames lost: none lost, and an error or an end is on the page; one
lost may leave it connecting over an error; it takes two to leave it blocked over silence.
**Remembered** says that where no offered model is stored, the page and the session hold
the default: this is what keeps the default from being stored on the way through a visit.
**Uncut** says, with no frame lost, that what is shown as finished was not cut and that nothing
but the end is left of its stream; the export is made of the exchanges `Pair` lets through.

The history and the export are concatenations of a list of lists (`FlattenSeq`), which the
library defines by a recursive function. Two facts are proved about it by induction and the
rest of it is not opened: a function with that recursion exists (`FlattenDefined`), and what it
gives stays in every set that holds its parts and is closed under concatenation
(`FlattenClosed`). The induction is over a set of numbers (`Induct`: were one missing, the
least one missing would have no predecessor), which needs no operator as a parameter.
`HistoryPaired` is then about a set of message lists, `Dialogs`, that is closed under
concatenation, and about cutting the history off at its limit.

**SearchInv** says of each search under way that its count key is that of its own entry
(`FlightsOK`) and of each ref that its total is one that its key's search has had (`TotalsOK`),
whatever the index was then (`Found`, which only grows: `FoundStays`), for the refs
of all visits, because an answer uses those of the visit it was asked in. `UrlOK` needs the
replacement of the address that has not landed. `OptionsOK` needs that a load that a newer
one replaces is aborted: the only load left is that of the sources chosen.

**FeedsInv** numbers dialogs by clicks: a request carries the number of its dialog, which is
not later than the last click, so a dialog opened after it has another number; a picker exists
only when its own request was answered. The two dialogs are guarded differently (`AddOK` by the
identity of the last request, `MoreOK` by a flag of each load), and so are their parts of the
invariant. **ListInv** says that the list, or the read that will replace it, is what the server
has, unless an answer was lost, the read failed, or an answer is to come that has the list read
again (`Owing`): every change owes such an answer from when it is made, and the read it starts
replaces an older one. **PlayerInv** says that the element has the source of the player, and
that nothing plays without one. **QueueInv** says of a snapshot that is being read undisturbed
that what it found so far is what the statements already run give on one state of the database,
namely the present one until the last statement has run. The theorems then need that each row
is in one bucket, and that counting the rows of a bucket is counting its episodes.

### Only model-checked

The liveness properties `Settles` and `AlertsFlushed` of the pipeline: liveness under
fairness is beyond the proof system, as is `ENABLED`. Every other property of a passing run is
a theorem, some of them under the hypotheses that the table names, which those runs meet.

## Not modelled, and why

The components without a module are listed in `PROJECT.json`. Out of TLC's reach are the
models themselves (whisper, pyannote, spaCy, LLM answers), whose results and failures the
modules take as nondeterministic, and rendering. Of the modelled components are left out:

* a graceful SIGTERM and the worker's startup; feed deletion beside a running poll;
* the chunks that inference relabels, and which names it finds;
* the embedding corpus card, the LAN card and the hardware view, which only read;
* manual ingestion and the upload form of the feeds page, each one request;
* the ranking and the SQL of the search: `Hits` gives any number for each state of the
  index, and the index changes at any moment; the speakers of a choice of sources
  (`SpeakersOf`) do not; retrieval for answers;
* the count of episodes that the list of feeds shows with each;
* an error after `enqueue` has committed: `db.refresh` may raise then
  (`job_queue.py:35-36`), the worker would requeue the stage, and the episode would have two
  jobs. `HandlerRaises` has no such case;
* throughput figures of the queue dashboard.

## Plan

Done: `JobQueue`, `Pipeline`, `EpisodeLifecycle`; `SpeakerNames`, `SpeakerPanel`;
`Settings`; `Conversations`; `FeedsPage`, `SearchPage`, `QueuePage`, `Player` and their
composition `Library`; the theorems above.

Left, in order of importance:

1. `FeedIngest`: polls of one feed by the periodic task and the API, test mode, pause
   and deletion. Bounds: 2 polls, 3 GUIDs, limit 2.
2. `Digest`, with `PipelineAlerts`: event log, due time, send and mark on two channels,
   a crash between them; edges of the alerts. Abstractly, each event is reported at
   least once while a channel works, and at most once without a crash.
3. `EmbedProvenance`: adoption by two processes, backfill against the chunk stage.
4. `Chunking`, `Alignment`: as functions, against a reference definition over
   sequences of up to 4 segments; lemmas on their operators.
5. `Backup`: retention and failed steps.
6. `TelegramBot`: offset, busy flag, backoff.

Theorems still worth proving: the results with `MaxManual = 0` for episodes that were never
retried by hand, while others are.
