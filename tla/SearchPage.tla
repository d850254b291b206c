----------------------------- MODULE SearchPage -----------------------------
(***************************************************************************)
(* The search page: the query and its address, the filters, the pages of   *)
(* the results and the totals that are counted once and remembered.        *)
(*                                                                         *)
(* An answer is kept for its query, filters, view, page and page size.     *)
(* Only the first page counts the results; later pages leave the count out *)
(* when the totals that a ref remembers are those of the same search, and  *)
(* take the total from the ref when they arrive.  A visit has refs of its  *)
(* own, which the answers it asked for still use after it ended.           *)
(*                                                                         *)
(* Episodes come and go while the page is used, and what a search finds    *)
(* changes with them: from page to page, and from visit to visit.          *)
(*                                                                         *)
(* What is typed is chosen when it is submitted.  The session's snapshot   *)
(* is saved at every change: while the page is closed it is "form".        *)
(***************************************************************************)
EXTENDS Site

CONSTANTS
    Queries,
    Sources,            \* the feeds, and the manual uploads
    Speakers,
    Sizes,              \* the page sizes
    DefaultSize,
    Hits(_, _, _, _, _),    \* how many results, after so many changes of the index, a view
                            \* has for a query, sources and a speaker
    SpeakersOf(_),      \* the speakers whom the filter offers for some sources
    MaxMoves,           \* bounds the changes of the form
    MaxVisits,          \* bounds the visits of the page
    MaxFaults           \* bounds the requests that fail, the answers that go stale and
                        \* the changes of the index

ASSUME SearchAssumption ==
    /\ None \notin Queries \cup Speakers
    /\ Sizes \subseteq Nat \ {0} /\ DefaultSize \in Sizes
    /\ {MaxMoves, MaxFaults} \subseteq Nat /\ MaxVisits \in Nat \ {0}

VARIABLES
    form,           \* what is searched, and how it is shown
    url,            \* the query of the address
    pending,        \* the replacement of the address that has not landed
    index,          \* how often the index has changed
    cache,          \* the answers that are kept
    flights,        \* the searches under way
    totals,         \* the refs of each visit
    visit,          \* the number of the visit
    open,           \* the page is open
    options,        \* the speakers of the filter
    optionReads,    \* the loads of the speakers, by their sources
    moves,
    faults

searchVars == <<form, url, pending, index, cache, flights, totals, visit, open, options, optionReads,
                moves, faults>>
addressVars == <<url, pending>>
answerVars == <<index, cache, totals>>
visitVars == <<visit, open>>
optionVars == <<options, optionReads>>

Views == {"grouped", "flat"}
Settled == "settled"
NoTotal == [key |-> << >>, total |-> -1]

\* (the page settles on queries of its own; searches have results or none)
ASSUME QueryAssumption == Settled \notin Queries
ASSUME HitsAssumption ==
    \A n \in 0 .. MaxFaults, v \in Views, q \in Queries \cup {None}, sources \in SUBSET Sources,
       s \in Speakers \cup {None} : Hits(n, v, q, sources, s) \in Nat

\* What a search has found until now, over the changes of the index.
Found(v, q, sources, s) == {Hits(n, v, q, sources, s) : n \in 0 .. index}

Pages(total, size) == (total + size - 1) \div size

\* An answer is kept per entry.  Totals are kept per count key.
\* Mutant: the speaker is forgotten in the key of the totals.
CountKeyOfAnySpeaker(f) == <<f.submitted, f.sources, f.size>>
CountKey(f) == <<f.submitted, f.sources, f.speaker, f.size>>
Entry(f) == [submitted |-> f.submitted, sources |-> f.sources, speaker |-> f.speaker,
             size |-> f.size, view |-> f.view, page |-> f.page]

CanSkipCount(entry, key, refs) == entry.page > 1 /\ refs[entry.view].key = key

-----------------------------------------------------------------------------
\* What the page asks for when it comes to show a form.

Fresh(f) == \E answer \in cache : answer.entry = Entry(f) /\ answer.fresh
Fetching(f) == \E flight \in flights : flight.entry = Entry(f)

AskedBy(f, number) ==
    IF f.submitted = None \/ Fresh(f) \/ Fetching(f) THEN flights
    ELSE flights \cup {[entry |-> Entry(f), key |-> CountKey(f), visit |-> number, tries |-> 1,
                        skip |-> CanSkipCount(Entry(f), CountKey(f), totals[number])]}

Show(f) ==
    /\ form' = f
    /\ flights' = IF Entry(f) = Entry(form) THEN flights ELSE AskedBy(f, visit)

Move == open /\ moves < MaxMoves /\ moves' = moves + 1 /\ UNCHANGED faults
Fault == faults < MaxFaults /\ faults' = faults + 1 /\ UNCHANGED moves
Calm == UNCHANGED <<moves, faults>>

\* The results, with their toolbar and their pagination, are hidden while they load.
Shown == {answer \in cache : answer.entry = Entry(form) /\ ~Fetching(form)}
TotalPages == IF Shown = {} THEN 0
              ELSE Pages((CHOOSE answer \in Shown : TRUE).total, form.size)

-----------------------------------------------------------------------------
\* The query and the address.

\* Mutant: an empty query leaves the address alone.
SubmitKeepingAddress(q) ==
    /\ Move
    /\ Show([form EXCEPT !.submitted = q, !.page = 1])
    /\ pending' = IF q = None THEN pending ELSE q
    /\ UNCHANGED <<url, answerVars, visitVars, optionVars>>

Submit(q) ==
    /\ Move
    /\ Show([form EXCEPT !.submitted = q, !.page = 1])
    /\ pending' = q
    /\ UNCHANGED <<url, answerVars, visitVars, optionVars>>

Clear ==
    /\ Move
    /\ Show([form EXCEPT !.submitted = None, !.page = 1, !.speaker = None])
    /\ pending' = None
    /\ UNCHANGED <<url, answerVars, visitVars, optionVars>>

\* The effect on the parameters of the address: an empty query is ignored.
Arrive(q) ==
    /\ url' = q
    /\ pending' = Settled
    /\ IF q \notin {None, form.submitted} /\ q # url
       THEN Show([form EXCEPT !.submitted = q, !.page = 1])
       ELSE UNCHANGED <<form, flights>>

UrlLands ==
    /\ open /\ pending # Settled
    /\ Arrive(pending)
    /\ UNCHANGED <<answerVars, visitVars, optionVars>>
    /\ Calm

\* A link, or Back and Forward, to another address of the page.
Follow(q) ==
    /\ Move
    /\ q # url
    /\ Arrive(q)
    /\ UNCHANGED <<answerVars, visitVars, optionVars>>

-----------------------------------------------------------------------------
\* The speaker filter.  The load that a new one replaces is aborted; that it ended takes
\* the loading state away from the new one.

NoOptions == [names |-> {}, loading |-> TRUE, error |-> FALSE]

\* Mutant: the older load goes on.
ReloadBesides(sources) ==
    /\ options' = [options EXCEPT !.loading = TRUE, !.error = FALSE]
    /\ optionReads' = optionReads \cup {sources}

Reload(sources) ==
    /\ options' = [options EXCEPT !.loading = optionReads = {}, !.error = FALSE]
    /\ optionReads' = {sources}

AnswerOptions(sources) ==
    /\ optionReads' = optionReads \ {sources}
    /\ options' = [options EXCEPT !.names = SpeakersOf(sources), !.loading = FALSE]
    /\ UNCHANGED <<form, flights, addressVars, answerVars, visitVars>>
    /\ Calm

FailOptions(sources) ==
    /\ Fault
    /\ optionReads' = optionReads \ {sources}
    /\ options' = [names |-> {}, loading |-> FALSE, error |-> TRUE]
    /\ UNCHANGED <<form, flights, addressVars, answerVars, visitVars>>

RetryOptions ==
    /\ open /\ options.error /\ ~options.loading
    /\ Reload(form.sources)
    /\ UNCHANGED <<form, flights, addressVars, answerVars, visitVars>>
    /\ Calm

SetSpeaker(s) ==
    /\ Move
    /\ s = None \/ (s \in options.names /\ ~options.loading /\ ~options.error)
    /\ Show([form EXCEPT !.speaker = s, !.page = 1])
    /\ UNCHANGED <<addressVars, answerVars, visitVars, optionVars>>

-----------------------------------------------------------------------------
\* The sources, the view, the page size and the page.

SourceChoices == {{}} \cup {IF s \in form.sources THEN form.sources \ {s}
                            ELSE form.sources \cup {s} : s \in Sources}

\* Mutant: the page stays where it was.
SetSourceOnPage(chosen) ==
    /\ Move
    /\ Show([form EXCEPT !.sources = chosen, !.speaker = None])
    /\ IF chosen = form.sources THEN UNCHANGED optionVars ELSE Reload(chosen)
    /\ UNCHANGED <<addressVars, answerVars, visitVars>>

SetSource(chosen) ==
    /\ Move
    /\ Show([form EXCEPT !.sources = chosen, !.speaker = None, !.page = 1])
    /\ IF chosen = form.sources THEN UNCHANGED optionVars ELSE Reload(chosen)
    /\ UNCHANGED <<addressVars, answerVars, visitVars>>

SetView(v) ==
    /\ Move
    /\ form.submitted # None /\ ~Fetching(form)
    /\ Show([form EXCEPT !.view = v, !.page = 1])
    /\ UNCHANGED <<addressVars, answerVars, visitVars, optionVars>>

SetSize(n) ==
    /\ Move
    /\ form.submitted # None /\ ~Fetching(form)
    /\ Show([form EXCEPT !.size = n, !.page = 1])
    /\ UNCHANGED <<addressVars, answerVars, visitVars, optionVars>>

\* Previous and Next, which are shown when there are several pages.
SetPage(p) ==
    /\ Move
    /\ TotalPages > 1
    /\ \/ form.page # 1 /\ p = form.page - 1
       \/ form.page # TotalPages
          /\ p = IF form.page + 1 < TotalPages THEN form.page + 1 ELSE TotalPages
    /\ Show([form EXCEPT !.page = p])
    /\ UNCHANGED <<addressVars, answerVars, visitVars, optionVars>>

-----------------------------------------------------------------------------
\* The searches.

Answer(flight) ==
    LET entry == flight.entry
        known == totals[flight.visit][entry.view]
        hits == Hits(index, entry.view, entry.submitted, entry.sources, entry.speaker)
        total == IF ~flight.skip THEN hits ELSE IF known.key = flight.key THEN known.total ELSE -1
    IN /\ flights' = flights \ {flight}
       /\ cache' = {answer \in cache : answer.entry # entry}
                   \cup {[entry |-> entry, total |-> total, fresh |-> TRUE]}
       /\ totals' = IF flight.skip THEN totals
                    ELSE [totals EXCEPT ![flight.visit][entry.view] =
                             [key |-> flight.key, total |-> hits]]
       /\ UNCHANGED <<form, index, addressVars, visitVars, optionVars>>
       /\ Calm

\* A search that fails is tried once more.
Fail(flight) ==
    /\ Fault
    /\ flights' = (flights \ {flight}) \cup
          {[flight EXCEPT !.tries = 2,
                          !.skip = CanSkipCount(flight.entry, flight.key, totals[flight.visit])]
             : again \in {1} \cap {flight.tries}}
    /\ UNCHANGED <<form, addressVars, answerVars, visitVars, optionVars>>

\* Answers go stale; the page asks again when the window gets the focus.
Expire(answer) ==
    /\ Fault
    /\ answer.fresh
    /\ cache' = (cache \ {answer}) \cup {[answer EXCEPT !.fresh = FALSE]}
    /\ UNCHANGED <<form, flights, addressVars, index, totals, visitVars, optionVars>>

\* Episodes are indexed, deleted or renamed.
ChangeIndex ==
    /\ Fault
    /\ index' = index + 1
    /\ UNCHANGED <<form, flights, addressVars, cache, totals, visitVars, optionVars>>

Focus ==
    /\ open
    /\ flights' = AskedBy(form, visit)
    /\ flights' # flights
    /\ UNCHANGED <<form, addressVars, answerVars, visitVars, optionVars>>
    /\ Calm

-----------------------------------------------------------------------------
\* Visits.

Leave ==
    /\ open
    /\ open' = FALSE
    /\ url' = None /\ pending' = Settled
    /\ options' = NoOptions /\ optionReads' = {}
    /\ UNCHANGED <<form, flights, answerVars, visit>>
    /\ Calm

Mount(q) ==
    /\ ~open /\ visit < MaxVisits
    /\ open' = TRUE /\ visit' = visit + 1
    /\ url' = q /\ pending' = Settled
    /\ form' = IF q = None THEN form ELSE [form EXCEPT !.submitted = q, !.page = 1]
    /\ flights' = AskedBy(form', visit')
    /\ optionReads' = {form.sources}
    /\ UNCHANGED <<answerVars, options>>
    /\ Calm

SearchInit ==
    /\ form = [submitted |-> None, sources |-> {}, speaker |-> None, page |-> 1,
               size |-> DefaultSize, view |-> "grouped"]
    /\ url = None /\ pending = Settled
    /\ index = 0 /\ cache = {} /\ flights = {}
    /\ totals = [number \in 1 .. MaxVisits |-> [v \in Views |-> NoTotal]]
    /\ visit = 0 /\ open = FALSE
    /\ options = NoOptions /\ optionReads = {}
    /\ moves = 0 /\ faults = 0

SearchNext ==
    \/ \E q \in Queries \cup {None} : Submit(q) \/ Follow(q) \/ Mount(q)
    \/ Clear \/ UrlLands \/ Leave \/ Focus
    \/ \E s \in Speakers \cup {None} : SetSpeaker(s)
    \/ \E chosen \in SourceChoices : SetSource(chosen)
    \/ \E v \in Views : SetView(v)
    \/ \E n \in Sizes : SetSize(n)
    \/ \E p \in 1 .. TotalPages : SetPage(p)
    \/ \E sources \in optionReads : AnswerOptions(sources) \/ FailOptions(sources)
    \/ RetryOptions
    \/ \E flight \in flights : Answer(flight) \/ Fail(flight)
    \/ \E answer \in cache : Expire(answer)
    \/ ChangeIndex
=============================================================================
