----------------------------- MODULE FeedsPage -----------------------------
(***************************************************************************)
(* The page of the feeds: the list with its buttons, the dialog that adds  *)
(* a feed and the dialog that adds episodes to a selective feed.           *)
(*                                                                         *)
(* A preview, a list of known episodes and the answer to a change arrive   *)
(* whenever they like, possibly after the dialog that asked was closed     *)
(* and another was opened.  Clicks are numbered; the number of the click   *)
(* that opened a dialog or sent a request names it.                        *)
(*                                                                         *)
(* A feed stands for its id and for its address.                           *)
(***************************************************************************)
EXTENDS Site

CONSTANTS
    Feeds,
    MaxEpisodes,    \* how many episodes a feed has
    MaxClicks       \* bounds the openings of dialogs and the requests

ASSUME FeedsAssumption == None \notin Feeds /\ {MaxEpisodes, MaxClicks} \subseteq Nat

VARIABLES
    stored,     \* the feeds of the server: mode, pause and known episodes
    listed,     \* the list of the page
    reading,    \* the refetch of the list: None, Sent, the list that was read, or failed
    add,        \* the dialog "Add feed"
    previews,   \* the previews that were asked for
    posting,    \* the feed that is being added
    more,       \* the dialog "Add episodes"
    loads,      \* the loads of such dialogs
    morePosts,  \* the episodes that are being added
    acts,       \* the requests of the buttons of the list
    latest,     \* the last request of each kind
    clicks,
    lost        \* history: the answer to a change was lost

feedVars == <<stored, listed, reading, add, previews, posting, more, loads, morePosts,
              acts, latest, clicks, lost>>
addVars == <<add, previews, posting>>
moreVars == <<more, loads, morePosts>>
listVars == <<listed, reading>>
actVars == <<acts, latest>>

Modes == {"test", "selective", "full"}
Guids(f) == {f} \X (1 .. MaxEpisodes)
Sent == "sent"

-----------------------------------------------------------------------------
\* The server.

Feed(mode, guids) == [mode |-> mode, paused |-> FALSE, guids |-> guids]
Absent == Feed(None, {})
Known(f) == stored[f].mode # None
Listing == [f \in Feeds |-> [mode |-> stored[f].mode, paused |-> stored[f].paused]]

\* POST /api/feeds: what is stored afterwards; the same as before if it refuses.
\* Episodes that the feed does not have make the first ingestion fail.
AddFeed(f, mode, guids) ==
    LET old == stored[f]
        first == CASE mode = "full" -> Guids(f)
                   [] mode = "test" -> {<<f, 1>>}
                   [] OTHER -> IF guids \subseteq Guids(f) THEN guids ELSE {}
    IN IF old = Absent
       THEN IF mode = "selective" /\ guids = {} THEN old ELSE Feed(mode, first)
       ELSE IF mode = "full" /\ old.mode # "full"
            THEN [old EXCEPT !.mode = "full", !.guids = IF old.paused THEN @ ELSE Guids(f)]
            ELSE old

\* POST /api/feeds/{id}/episodes.
AddEpisodes(f, guids) ==
    IF stored[f].mode = "selective" /\ guids \subseteq Guids(f)
    THEN [stored[f] EXCEPT !.guids = @ \cup guids]
    ELSE stored[f]

\* PATCH, DELETE and poll.
UpdateFeed(act) ==
    LET old == stored[act.feed]
    IN IF act.kind = "poll" \/ (old = Absent /\ act.kind # "promote") THEN old
       ELSE CASE act.kind = "promote" -> AddFeed(act.feed, "full", {})
              [] act.kind = "convert" -> [old EXCEPT !.mode = "selective", !.paused = FALSE]
              [] act.kind = "pause" -> IF old.mode = "selective" THEN old
                                       ELSE [old EXCEPT !.paused = act.to]
              [] act.kind = "delete" -> Absent

\* A promotion of a feed that is gone adds it again.
Accepted(act) ==
    \/ act.kind = "delete"
    \/ Known(act.feed) /\ act.kind \in {"convert", "pause"}
    \/ act.kind = "promote" /\ UpdateFeed(act) # stored[act.feed]
    \/ act.kind = "poll" /\ stored[act.feed].mode \in {"test", "full"} /\ ~stored[act.feed].paused

-----------------------------------------------------------------------------
\* The list.  Invalidating it drops a read that is under way and starts another; a read
\* that fails, and fails again, leaves the list as it is until the next.

NotReading == [phase |-> None, rows |-> << >>]
Invalidate == reading' = [phase |-> Sent, rows |-> << >>]

ReadList ==
    /\ reading.phase = Sent
    /\ reading' = [phase |-> "read", rows |-> Listing]
    /\ UNCHANGED <<stored, listed, addVars, moreVars, actVars, clicks, lost>>

AnswerList ==
    /\ reading.phase = "read"
    /\ listed' = reading.rows
    /\ reading' = NotReading
    /\ UNCHANGED <<stored, addVars, moreVars, actVars, clicks, lost>>

FailList ==
    /\ reading.phase \in {Sent, "read"}
    /\ reading' = [phase |-> "failed", rows |-> << >>]
    /\ UNCHANGED <<stored, listed, addVars, moreVars, actVars, clicks, lost>>

\* The window gets the focus, and the list is stale or its last read failed.
RefocusList ==
    /\ reading.phase \in {None, "failed"}
    /\ Invalidate
    /\ UNCHANGED <<stored, listed, addVars, moreVars, actVars, clicks, lost>>

-----------------------------------------------------------------------------
\* The picker of episodes, which both dialogs show.

NoPicker == [of |-> None, dialog |-> 0, existing |-> {}, picked |-> {}, shown |-> {}]
Picker(f, dialog, existing) ==
    [of |-> f, dialog |-> dialog, existing |-> existing, picked |-> existing, shown |-> Guids(f)]

Click == clicks < MaxClicks /\ clicks' = clicks + 1

Toggled(picker, g) ==
    IF g \in picker.existing THEN picker
    ELSE IF g \in picker.picked THEN [picker EXCEPT !.picked = @ \ {g}]
    ELSE [picker EXCEPT !.picked = @ \cup {g}]

\* Mutant: the button takes the hidden episodes along.
AllToggledHidden(picker) ==
    LET scope == Guids(picker.of) \ picker.existing
    IN IF scope \subseteq picker.picked THEN [picker EXCEPT !.picked = @ \ scope]
       ELSE [picker EXCEPT !.picked = @ \cup scope]

AllToggled(picker) ==
    LET scope == picker.shown \ picker.existing
    IN IF scope \subseteq picker.picked THEN [picker EXCEPT !.picked = @ \ scope]
       ELSE [picker EXCEPT !.picked = @ \cup scope]

-----------------------------------------------------------------------------
\* The dialog "Add feed".  A preview loads while a request is set; the step of the
\* episodes is shown while there is a picker.

ClosedAdd == [open |-> FALSE, dialog |-> 0, url |-> None, mode |-> "test", error |-> FALSE,
              request |-> 0, picker |-> NoPicker]

NotPosting == [url |-> None, mode |-> None, phase |-> None, guids |-> {}]

OpenAdd ==
    /\ ~add.open /\ more.feed = None
    /\ Click
    /\ add' = [add EXCEPT !.open = TRUE, !.dialog = clicks']
    /\ UNCHANGED <<stored, listVars, previews, posting, moreVars, actVars, lost>>

CancelAdd ==
    /\ add.open
    /\ add' = ClosedAdd
    /\ UNCHANGED <<stored, listVars, previews, posting, moreVars, actVars, clicks, lost>>

\* The address and the mode stay editable while a preview loads.
EditAdd(f, mode) ==
    /\ add.open /\ add.picker = NoPicker
    /\ add' = [add EXCEPT !.url = f, !.mode = mode]
    /\ add' # add
    /\ UNCHANGED <<stored, listVars, previews, posting, moreVars, actVars, clicks, lost>>

\* handleAddOrPreview, the first step in selective mode.
AskPreview ==
    /\ add.open /\ add.picker = NoPicker /\ add.mode = "selective" /\ add.url # None
    /\ posting = NotPosting /\ add.request = 0
    /\ Click
    /\ add' = [add EXCEPT !.error = FALSE, !.request = clicks']
    /\ previews' = previews \cup {[id |-> clicks', url |-> add.url, dialog |-> add.dialog]}
    /\ UNCHANGED <<stored, listVars, posting, moreVars, actVars, lost>>

\* Mutant: whatever arrives is shown.
AnswerAnyPreview(p) ==
    /\ previews' = previews \ {p}
    /\ add' = [add EXCEPT !.request = 0, !.picker = Picker(p.url, p.dialog, {})]
    /\ UNCHANGED <<stored, listVars, posting, moreVars, actVars, clicks, lost>>

AnswerPreview(p) ==
    /\ previews' = previews \ {p}
    /\ add' = IF add.request = p.id
              THEN [add EXCEPT !.request = 0, !.picker = Picker(p.url, p.dialog, {})]
              ELSE add
    /\ UNCHANGED <<stored, listVars, posting, moreVars, actVars, clicks, lost>>

FailPreview(p) ==
    /\ previews' = previews \ {p}
    /\ add' = IF add.request = p.id THEN [add EXCEPT !.request = 0, !.error = TRUE] ELSE add
    /\ UNCHANGED <<stored, listVars, posting, moreVars, actVars, clicks, lost>>

BackToUrl ==
    /\ add.picker # NoPicker
    /\ add' = [add EXCEPT !.picker = NoPicker, !.error = FALSE]
    /\ UNCHANGED <<stored, listVars, previews, posting, moreVars, actVars, clicks, lost>>

\* handleAddOrPreview otherwise.  The mutation outlives the dialog.
SubmitFeed ==
    /\ add.open /\ posting = NotPosting
    /\ IF add.picker = NoPicker
       THEN add.mode # "selective" /\ add.url # None /\ add.request = 0
       ELSE add.picker.picked # {}
    /\ Click
    /\ add' = [add EXCEPT !.error = FALSE]
    /\ posting' = [url |-> add.url, mode |-> add.mode, phase |-> Sent,
                   guids |-> IF add.mode = "selective" THEN add.picker.picked ELSE {}]
    /\ UNCHANGED <<stored, listVars, previews, moreVars, actVars, lost>>

StoreFeed ==
    /\ posting.phase = Sent
    /\ LET result == AddFeed(posting.url, posting.mode, posting.guids)
       IN /\ stored' = [stored EXCEPT ![posting.url] = result]
          /\ posting' = [posting EXCEPT !.phase =
                            IF result # stored[posting.url] THEN "added" ELSE "refused"]
    /\ UNCHANGED <<listVars, add, previews, moreVars, actVars, clicks, lost>>

\* A success resets the dialog, whichever it is by now.
AnswerFeed ==
    /\ posting.phase \in {"added", "refused"}
    /\ posting' = NotPosting
    /\ IF posting.phase = "added"
       THEN add' = ClosedAdd /\ Invalidate
       ELSE add' = [add EXCEPT !.error = TRUE] /\ UNCHANGED reading
    /\ UNCHANGED <<stored, listed, previews, moreVars, actVars, clicks, lost>>

LoseFeed ==
    /\ posting # NotPosting
    /\ posting' = NotPosting
    /\ add' = [add EXCEPT !.error = TRUE]
    /\ lost' = TRUE
    /\ UNCHANGED <<stored, listVars, previews, moreVars, actVars, clicks>>

-----------------------------------------------------------------------------
\* The dialog "Add episodes".  Its body lives as long as the dialog is open for a feed.

ClosedMore == [feed |-> None, dialog |-> 0, loading |-> FALSE, error |-> FALSE,
               pending |-> FALSE, picker |-> NoPicker]

OpenMore(f) ==
    /\ more.feed = None /\ ~add.open
    /\ listed[f].mode = "selective"
    /\ Click
    /\ more' = [ClosedMore EXCEPT !.feed = f, !.dialog = clicks', !.loading = TRUE]
    /\ loads' = loads \cup {[dialog |-> clicks', feed |-> f]}
    /\ UNCHANGED <<stored, listVars, addVars, morePosts, actVars, lost>>

CloseMore ==
    /\ more.feed # None
    /\ more' = ClosedMore
    /\ UNCHANGED <<stored, listVars, addVars, loads, morePosts, actVars, clicks, lost>>

\* Both answers are in: the preview, and the episodes known at that time.
AnswerLoads(l) ==
    /\ Known(l.feed)
    /\ loads' = loads \ {l}
    /\ more' = IF more.dialog = l.dialog
               THEN [more EXCEPT !.loading = FALSE,
                                 !.picker = Picker(l.feed, l.dialog, stored[l.feed].guids)]
               ELSE more
    /\ UNCHANGED <<stored, listVars, addVars, morePosts, actVars, clicks, lost>>

FailLoads(l) ==
    /\ loads' = loads \ {l}
    /\ more' = IF more.dialog = l.dialog THEN [more EXCEPT !.loading = FALSE, !.error = TRUE]
               ELSE more
    /\ UNCHANGED <<stored, listVars, addVars, morePosts, actVars, clicks, lost>>

SubmitEpisodes ==
    /\ more.picker # NoPicker /\ ~more.pending
    /\ more.picker.picked \ more.picker.existing # {}
    /\ Click
    /\ more' = [more EXCEPT !.error = FALSE, !.pending = TRUE]
    /\ morePosts' = morePosts \cup
          {[dialog |-> more.dialog, feed |-> more.feed, phase |-> Sent,
            guids |-> more.picker.picked \ more.picker.existing]}
    /\ UNCHANGED <<stored, listVars, addVars, loads, actVars, lost>>

StoreEpisodes(p) ==
    /\ p.phase = Sent
    /\ LET result == AddEpisodes(p.feed, p.guids)
           accepted == stored[p.feed].mode = "selective" /\ p.guids \subseteq result.guids
       IN /\ stored' = [stored EXCEPT ![p.feed] = result]
          /\ morePosts' = (morePosts \ {p}) \cup
                {[p EXCEPT !.phase = IF accepted THEN "added" ELSE "refused"]}
    /\ UNCHANGED <<listVars, addVars, more, loads, actVars, clicks, lost>>

\* A success closes the dialog, whichever feed it is open for by now.
AnswerEpisodes(p) ==
    /\ p.phase # Sent
    /\ morePosts' = morePosts \ {p}
    /\ IF p.phase = "added"
       THEN more' = ClosedMore /\ Invalidate
       ELSE /\ more' = IF more.dialog = p.dialog
                       THEN [more EXCEPT !.error = TRUE, !.pending = FALSE] ELSE more
            /\ UNCHANGED reading
    /\ UNCHANGED <<stored, listed, addVars, loads, actVars, clicks, lost>>

\* The clicks in either picker.
InPickers(Change(_)) ==
    \/ add.picker # NoPicker /\ add' = [add EXCEPT !.picker = Change(@)] /\ UNCHANGED more
    \/ more.picker # NoPicker /\ more' = [more EXCEPT !.picker = Change(@)] /\ UNCHANGED add

Pick(g) ==
    /\ InPickers(LAMBDA picker : IF g \in picker.shown THEN Toggled(picker, g) ELSE picker)
    /\ UNCHANGED <<stored, listVars, previews, posting, loads, morePosts, actVars, clicks, lost>>

PickAll ==
    /\ InPickers(AllToggled)
    /\ UNCHANGED <<stored, listVars, previews, posting, loads, morePosts, actVars, clicks, lost>>

Filter(shown) ==
    /\ InPickers(LAMBDA picker : [picker EXCEPT !.shown = shown \cap Guids(picker.of)])
    /\ UNCHANGED <<stored, listVars, previews, posting, loads, morePosts, actVars, clicks, lost>>

-----------------------------------------------------------------------------
\* The buttons of a feed.  They are those of the mode that the list shows, and the button
\* of the last request of its kind is disabled.

Kinds == {"promote", "poll", "pause", "convert", "delete"}
Pending(kind, f) == \E act \in acts : act.id = latest[kind] /\ act.feed = f
Offers(kind, f) ==
    LET row == listed[f]
    IN /\ row.mode # None
       /\ CASE kind = "promote" -> row.mode # "full"
            [] kind = "poll" -> row.mode # "selective" /\ ~row.paused /\ ~Pending(kind, f)
            [] kind \in {"pause", "convert"} -> row.mode # "selective" /\ ~Pending(kind, f)
            [] kind = "delete" -> TRUE

Act(kind, f) ==
    /\ ~add.open /\ more.feed = None
    /\ Offers(kind, f)
    /\ Click
    /\ acts' = acts \cup {[id |-> clicks', kind |-> kind, feed |-> f, phase |-> Sent,
                           to |-> kind = "pause" /\ ~listed[f].paused]}
    /\ latest' = [latest EXCEPT ![kind] = clicks']
    /\ UNCHANGED <<stored, listVars, addVars, moreVars, lost>>

StoreAct(act) ==
    /\ act.phase = Sent
    /\ stored' = [stored EXCEPT ![act.feed] = UpdateFeed(act)]
    /\ acts' = (acts \ {act}) \cup
          {[act EXCEPT !.phase = IF Accepted(act) THEN "done" ELSE "refused"]}
    /\ UNCHANGED <<listVars, addVars, moreVars, latest, clicks, lost>>

\* Mutant: a deletion is not followed by a read of the list.
AnswerActMostly(act) ==
    /\ act.phase # Sent
    /\ acts' = acts \ {act}
    /\ IF act.phase = "done" /\ act.kind # "delete" THEN Invalidate ELSE UNCHANGED reading
    /\ UNCHANGED <<stored, listed, addVars, moreVars, latest, clicks, lost>>

AnswerAct(act) ==
    /\ act.phase # Sent
    /\ acts' = acts \ {act}
    /\ IF act.phase = "done" THEN Invalidate ELSE UNCHANGED reading
    /\ UNCHANGED <<stored, listed, addVars, moreVars, latest, clicks, lost>>

LoseAct(act) ==
    /\ acts' = acts \ {act}
    /\ lost' = TRUE
    /\ UNCHANGED <<stored, listVars, addVars, moreVars, latest, clicks>>

-----------------------------------------------------------------------------
\* One feed is known at first, and the page shows it.

NoAct == [kind \in Kinds |-> 0]

FeedsInit ==
    /\ \E known \in Feeds \cup {None}, mode \in {"test", "selective"} :
         stored = [f \in Feeds |-> IF f = known THEN Feed(mode, {<<f, 1>>}) ELSE Absent]
    /\ listed = Listing /\ reading = NotReading
    /\ add = ClosedAdd /\ previews = {} /\ posting = NotPosting
    /\ more = ClosedMore /\ loads = {} /\ morePosts = {}
    /\ acts = {} /\ latest = NoAct
    /\ clicks = 0 /\ lost = FALSE

FeedsNext ==
    \/ OpenAdd \/ CancelAdd \/ AskPreview \/ BackToUrl \/ SubmitFeed
    \/ StoreFeed \/ AnswerFeed \/ LoseFeed
    \/ \E f \in Feeds, mode \in Modes : EditAdd(f, mode)
    \/ \E p \in previews : AnswerPreview(p) \/ FailPreview(p)
    \/ \E f \in Feeds : OpenMore(f)
    \/ CloseMore \/ SubmitEpisodes
    \/ \E l \in loads : AnswerLoads(l) \/ FailLoads(l)
    \/ \E p \in morePosts : StoreEpisodes(p) \/ AnswerEpisodes(p)
    \/ \E f \in Feeds : \E g \in Guids(f) : Pick(g)
    \/ \E f \in Feeds : \E shown \in {Guids(f), {<<f, 1>>}} : Filter(shown)
    \/ PickAll
    \/ \E kind \in Kinds, f \in Feeds : Act(kind, f)
    \/ \E act \in acts : StoreAct(act) \/ AnswerAct(act) \/ LoseAct(act)
    \/ ReadList \/ AnswerList \/ FailList \/ RefocusList
=============================================================================
