-------------------------- MODULE LibraryProperties --------------------------
(***************************************************************************)
(* What the pages of the library promise.                                  *)
(***************************************************************************)
EXTENDS Library

\* The picker shows the episodes that its own dialog asked for.  A preview whose dialog was
\* closed, or that a newer preview replaced, never lands in the dialog that is open by then
\* (feeds/page.tsx previewRequest, the cancelled flag of AddEpisodesDialog).
PreviewOfThisDialog ==
    /\ add.picker # NoPicker => add.picker.dialog = add.dialog
    /\ more.picker # NoPicker => more.picker.of = more.feed /\ more.picker.dialog = more.dialog

Hidden(picker) == picker.picked \ picker.shown
SamePicker(old, new) == old # NoPicker /\ old.dialog = new.dialog

\* What was picked and is filtered out of sight stays picked, whatever is clicked, as long
\* as the picker lives; and the episodes that the feed has already stay locked.
HiddenKept ==
    [][/\ SamePicker(add.picker, add'.picker) => Hidden(add.picker) \subseteq add'.picker.picked
       /\ SamePicker(more.picker, more'.picker) =>
             Hidden(more.picker) \cup more.picker.existing \subseteq more'.picker.picked]_feedVars

\* Once every request was answered and the last read of the list has succeeded, the list is
\* what the server has, its modes and pauses, in whatever order changes and reads overlapped;
\* unless the answer to a change was lost.  A read that fails (fetchFeeds throws, api.ts:6-9)
\* leaves the list behind the server, with nothing under way, until the next one.
ListSettled ==
    posting = NotPosting /\ morePosts = {} /\ acts = {} /\ reading = NotReading =>
        lost \/ listed = Listing

\* The comment in feeds/page.tsx says that dropping late responses keeps the episodes of
\* one feed from being posted to another: the episodes posted with an address are those of
\* the feed at that address.
PickedFromOwnFeed == posting # NotPosting => posting.guids \subseteq Guids(posting.url)

\* A remembered total is never that of another search: an answer that left the count out
\* has a total of its own search, as the index is or was, or none.
TotalsTrue ==
    \A answer \in cache :
        LET e == answer.entry
        IN answer.total \in {-1} \cup Found(e.view, e.submitted, e.sources, e.speaker)

\* A page beyond the first is asked for only where the very search, with the filters, the
\* view and the page size of the form, has had that page: no page number survives a change
\* of the filters or comes from another search's total.  The index may have shrunk since
\* (a deletion between two pages, or before a visit restores the snapshot): then the page
\* has no results and no pagination that leads back (search/page.tsx:352-371).
PageInRange ==
    form.page > 1 =>
        \E total \in Found(form.view, form.submitted, form.sources, form.speaker) :
            form.page <= Pages(total, form.size)

\* When the address has settled on a query, the page searches for that query: after typing,
\* clearing, links, Back, and a visit that restores the session's snapshot.
UrlAgrees == open /\ pending = Settled /\ url # None => form.submitted = url

\* Once the speakers have loaded they are those of the sources that are selected now, not
\* of a selection whose load ended late.
FreshOptions ==
    open /\ optionReads = {} /\ ~options.error => options.names = SpeakersOf(form.sources)

\* What sounds is the recording that the bar names: nothing goes on playing behind an
\* episode without audio or a closed player.
PlaysWhatItShows == ~audio.paused => player.src # None /\ audio.src = player.src

\* A segment of the bar counts the rows that clicking it shows, when no episode moved while
\* the snapshot was read and the finished ones are not cut off.
BarMatchesRows ==
    queue.clean =>
        \A stage \in Bar : (stage = "done" => queue.done <= DoneLimit) =>
            Counts(stage) = Cardinality(Matching(stage, Episodes))

\* Every episode is in a bucket of such a snapshot, whatever its status and jobs.
EveryEpisodeShown ==
    queue.clean /\ queue.done <= DoneLimit =>
        \A e \in Episodes : \E row \in queue.rows : row.episode = e
=============================================================================
