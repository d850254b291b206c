---------------------------- MODULE SpeakerPanel ----------------------------
(***************************************************************************)
(* The transcript section of one open episode page: the browser's copy of  *)
(* the segments, the speaker cards, merge mode, and the requests under     *)
(* way.  TranscriptSection.tsx holds the copy, SpeakerPanel.tsx and        *)
(* MergeBar.tsx the controls.                                              *)
(*                                                                         *)
(* A request is sent, served (or refused) and answered in three steps, so  *)
(* several can be under way and overtake each other.  What a handler       *)
(* captured when it was called is part of the request.                     *)
(***************************************************************************)
EXTENDS SpeakerNames

CONSTANTS
    Cards,          \* the labels whose card is used
    Buttons,        \* the role buttons used, of host, guest and other
    MaxRequests,    \* requests of the user and rebuilds together
    MaxEditors      \* cards edited at once

ASSUME PanelAssumption ==
    /\ Cards \subseteq Label /\ Buttons \subseteq Role
    /\ MaxRequests \in Nat /\ MaxEditors \in Nat

None == -2                           \* activeSpeaker or busy is null

VARIABLES
    view,       \* TranscriptSection: segments, unmatched names, active speaker
    card,       \* SpeakerCard, by label: editing, saving, savingRole
    merge,      \* SpeakerPanel: merge mode, and whether a merge is under way
    busy,       \* UnmatchedNames: the label being dismissed
    net,        \* requests under way
    sent,       \* how many requests were sent
    astray      \* history: something the page cannot know of happened to the rows

panelVars == <<view, card, merge, busy, net, sent, astray>>
vars == <<nameVars, panelVars>>

-----------------------------------------------------------------------------
\* What the page reads and shows.

\* getSegments: the left join of segments with speaker_names.
GetSegments ==
    [i \in Position |->
        IF segs[i] \in DOMAIN rows
        THEN [label |-> segs[i], name |-> rows[segs[i]].name,
              inferred |-> rows[segs[i]].inferred, confirmed |-> rows[segs[i]].confirmed,
              role |-> rows[segs[i]].role, review |-> rows[segs[i]].review]
        ELSE [label |-> segs[i], name |-> Blank, inferred |-> FALSE, confirmed |-> FALSE,
              role |-> NoRole, review |-> FALSE]]

\* getUnmatchedSpeakerNames.
GetUnmatched == {l \in DOMAIN rows \ LabelsIn(segs) : rows[l].confirmed}

Shown(n) == IF n = Blank THEN OwnLabel ELSE n

\* deriveSpeakers: one speaker for each label, put together from its segments.
DeriveSpeakers(s) ==
    LET of(l) == {i \in Position : s[i].label = l}
        named(l) == {i \in of(l) : s[i].name # Blank}
        roles(l) == {i \in of(l) : s[i].role # NoRole}
        last(S) == CHOOSE i \in S : \A j \in S : j <= i
        first(S) == CHOOSE i \in S : \A j \in S : i <= j
    IN  [l \in {s[i].label : i \in Position} \ {NoLabel} |->
            [name |-> IF named(l) = {} THEN OwnLabel ELSE s[last(named(l))].name,
             confirmed |-> \E i \in of(l) : s[i].confirmed,
             inferred |-> /\ \E i \in of(l) : s[i].inferred
                          /\ ~\E i \in of(l) : s[i].confirmed,
             role |-> IF roles(l) = {} THEN NoRole ELSE s[first(roles(l))].role,
             review |-> \E i \in of(l) : s[i].review]]

Speakers == DeriveSpeakers(view.segs)
AwaitsConfirmation(l) ==
    (Speakers[l].inferred /\ ~Speakers[l].confirmed) \/ Speakers[l].review

\* TranscriptView shows the segments of the active speaker, in groups of consecutive
\* ones; with a filter on, what stood between them is not there to part them.
Transcript ==
    IF view.active = None THEN Position ELSE {i \in Position : view.segs[i].label = view.active}
Groups ==
    LET group(a, b) ==
            /\ a <= b
            /\ \A i \in Transcript \cap a .. b : view.segs[i].label = view.segs[a].label
            /\ \A i \in Transcript \cap {a - 1, b + 1} : view.segs[i].label # view.segs[a].label
    IN  {g \in Transcript \X Transcript : group(g[1], g[2])}

IdleCard == [editing |-> FALSE, saving |-> FALSE, savingRole |-> FALSE]
NoMerge == [mode |-> FALSE, merging |-> FALSE]

\* The page is loaded, or loaded again: the server renders the rows of the moment and
\* no handler of the old page is left.
LoadPage ==
    /\ view' = [segs |-> GetSegments, unmatched |-> GetUnmatched, active |-> None]
    /\ card' = [l \in Label |-> IdleCard]
    /\ merge' = NoMerge
    /\ busy' = None

Reload ==
    /\ net # {} \/ astray
    /\ LoadPage
    /\ net' = {[q EXCEPT !.live = FALSE] : q \in {r \in net : r.state = "sent"}}
    /\ astray' = (net' # {})
    /\ UNCHANGED <<nameVars, sent>>

-----------------------------------------------------------------------------
\* Requests.

\* (the id only tells equal requests apart)
FreeId == CHOOSE i \in 0 .. MaxRequests : (\A q \in net : q.id # i) /\ \A j \in 0 .. i - 1 : \E q \in net : q.id = j

Request(kind, l, n, r, sources, active) ==
    [id |-> FreeId, kind |-> kind, label |-> l, name |-> n, role |-> r, sources |-> sources,
     active |-> active, state |-> "sent", live |-> TRUE]

Send(q) ==
    /\ sent + rebuilds < MaxRequests
    /\ sent' = sent + 1
    /\ net' = net \cup {q}
    /\ UNCHANGED nameVars

UnderWay(kinds) == {q \in net : q.kind \in kinds}

-----------------------------------------------------------------------------
\* A speaker's card.

Card(l) == \E i \in Position : view.segs[i].label = l
CardIdle(l) == l \in Cards /\ Card(l) /\ ~merge.mode /\ ~card[l].editing

Edit(l) ==
    /\ CardIdle(l)
    /\ Cardinality({k \in Label : card[k].editing}) < MaxEditors
    /\ card' = [card EXCEPT ![l].editing = TRUE]
    /\ UNCHANGED <<nameVars, view, merge, busy, net, sent, astray>>

\* Cancel and Escape.  Cancel works while the name is being saved, too.
CancelEdit(l) ==
    /\ Card(l) /\ card[l].editing
    /\ card' = [card EXCEPT ![l].editing = FALSE]
    /\ UNCHANGED <<nameVars, view, merge, busy, net, sent, astray>>

\* persistDisplayName.
PersistName(l, n) ==
    /\ card' = [card EXCEPT ![l].saving = TRUE]
    /\ Send(Request("name", l, n, NoRole, {}, None))
    /\ astray' = (astray \/ \E q \in UnderWay({"role"}) : q.label = l)
    /\ UNCHANGED <<view, merge, busy>>

\* save: nothing is sent for a blank name, or one that is neither new nor in doubt.
SaveNothing(l, n) == n = Blank \/ (n = Speakers[l].name /\ ~AwaitsConfirmation(l))
Save(l, n) ==
    /\ Card(l) /\ card[l].editing /\ ~card[l].saving
    /\ ~SaveNothing(l, n)
    /\ PersistName(l, n)

ConfirmInferredName(l) ==
    /\ CardIdle(l) /\ AwaitsConfirmation(l) /\ ~card[l].saving
    /\ PersistName(l, Speakers[l].name)

\* persistRole sends the name the card shows along with the role.
PersistRole(l, r) ==
    /\ CardIdle(l) /\ ~card[l].savingRole
    /\ card' = [card EXCEPT ![l].savingRole = TRUE]
    /\ Send(Request("role", l, Speakers[l].name,
                    IF Speakers[l].role = r THEN NoRole ELSE r, {}, None))
    /\ astray' = (astray \/ \E q \in UnderWay({"name"}) : q.label = l)
    /\ UNCHANGED <<view, merge, busy>>

FilterSpeaker(l) ==
    /\ CardIdle(l)
    /\ view' = [view EXCEPT !.active = IF @ = l THEN None ELSE l]
    /\ UNCHANGED <<nameVars, card, merge, busy, net, sent, astray>>

ShowAll ==
    /\ view.active # None /\ ~merge.mode /\ \E k \in Label : Card(k)
    /\ view' = [view EXCEPT !.active = None]
    /\ UNCHANGED <<nameVars, card, merge, busy, net, sent, astray>>

-----------------------------------------------------------------------------
\* Merge mode.

MergeLocal(m) ==
    /\ merge' = m
    /\ UNCHANGED <<nameVars, view, card, busy, net, sent, astray>>

\* The button that enters merge mode and leaves it is shown for two speakers or more.
EnterMergeMode ==
    /\ ~merge.mode /\ Cardinality({l \in Label : Card(l)}) >= 2
    /\ MergeLocal([merge EXCEPT !.mode = TRUE])

ExitMergeMode ==
    /\ merge.mode
    /\ Cardinality({l \in Label : Card(l)}) >= 2
    /\ MergeLocal(NoMerge)

\* handleMerge.  MergeBar appears for two selected speakers or more, and its Merge button
\* is off while merging.  The selection is made of shown cards and nothing else reads it,
\* so it is chosen when Merge is pressed.
HandleMerge(sources, target) ==
    /\ merge.mode /\ ~merge.merging
    /\ target \notin sources /\ sources # {}
    /\ \A k \in sources \cup {target} : Card(k)
    /\ merge' = [merge EXCEPT !.merging = TRUE]
    /\ Send(Request("merge", target, Blank, NoRole, sources, view.active))
    /\ astray' = (astray \/ UnderWay({"merge"}) # {})
    /\ UNCHANGED <<view, card, busy>>

Dismiss(l) ==
    /\ l \in view.unmatched /\ busy # l /\ \E k \in Label : Card(k)
    /\ busy' = l
    /\ Send(Request("dismiss", l, Blank, NoRole, {}, None))
    /\ UNCHANGED <<view, card, merge, astray>>

-----------------------------------------------------------------------------
\* The server's part of a request.

Served(q, outcome) == net' = (net \ {q}) \cup (IF q.live THEN {[q EXCEPT !.state = outcome]} ELSE {})

\* Handlers that do what they were asked to.
Perform(q) ==
    CASE q.kind = "name"    -> PutName(q.label, q.name, FALSE, NoRole)
      [] q.kind = "role"    -> PutName(q.label, q.name, TRUE, q.role)
      [] q.kind = "merge"   -> MergeLabels(q.sources, q.label)
      [] q.kind = "dismiss" -> DropName(q.label)

Serve(q) ==
    /\ q.state = "sent"
    /\ Perform(q)
    /\ Served(q, "ok")
    /\ astray' = (astray \/ ~q.live)
    /\ UNCHANGED <<pipeVars, view, card, merge, busy, sent>>

\* 400, 409 or 500: the transaction is rolled back.  A request that never arrives
\* ends the same way for the page.
Refuse(q) ==
    /\ q.state = "sent"
    /\ Served(q, "refused")
    /\ UNCHANGED <<nameVars, view, card, merge, busy, sent, astray>>

\* The answer of a request that was carried out is lost.
LoseAnswer(q) ==
    /\ q.state = "ok"
    /\ net' = (net \ {q}) \cup {[q EXCEPT !.state = "refused"]}
    /\ astray' = TRUE
    /\ UNCHANGED <<nameVars, view, card, merge, busy, sent>>

-----------------------------------------------------------------------------
\* The page's part of an answer.

Relabelled(l, f(_)) ==
    [view EXCEPT !.segs = [i \in Position |-> IF @[i].label = l THEN f(@[i]) ELSE @[i]]]

\* Mutant: a failed save leaves the card as it is.
AnswerNameIfSaved(q) ==
    LET renamed(s) == [s EXCEPT !.name = q.name, !.inferred = FALSE,
                                !.confirmed = TRUE, !.review = FALSE]
    IN  /\ view' = IF q.state = "ok" THEN Relabelled(q.label, renamed) ELSE view
        /\ card' = IF q.state = "ok"
                   THEN [card EXCEPT ![q.label].editing = FALSE, ![q.label].saving = FALSE]
                   ELSE card
        /\ UNCHANGED <<merge, busy>>

\* handleRenamed; on failure the card goes back to the old name.
AnswerName(q) ==
    LET renamed(s) == [s EXCEPT !.name = q.name, !.inferred = FALSE,
                                !.confirmed = TRUE, !.review = FALSE]
    IN  /\ view' = IF q.state = "ok" THEN Relabelled(q.label, renamed) ELSE view
        /\ card' = [card EXCEPT ![q.label].editing = FALSE, ![q.label].saving = FALSE]
        /\ UNCHANGED <<merge, busy>>

\* handleRoleChanged.
AnswerRole(q) ==
    LET changed(s) == [s EXCEPT !.role = q.role, !.review = FALSE]
    IN  /\ view' = IF q.state = "ok" THEN Relabelled(q.label, changed) ELSE view
        /\ card' = [card EXCEPT ![q.label].savingRole = FALSE]
        /\ UNCHANGED <<merge, busy>>

\* Mutant: the merged segments keep the names they had.
AnswerMergeLabelOnly(q) ==
    IF q.state = "ok"
    THEN /\ view' = [view EXCEPT
                !.segs = [i \in Position |->
                            IF @[i].label \in q.sources THEN [@[i] EXCEPT !.label = q.label] ELSE @[i]],
                !.active = IF q.active \in q.sources THEN q.label ELSE @]
         /\ merge' = NoMerge
         /\ UNCHANGED <<card, busy>>
    ELSE /\ merge' = [merge EXCEPT !.merging = FALSE]
         /\ UNCHANGED <<view, card, busy>>

\* handleMerged, as the page knew the active speaker when Merge was pressed, then
\* exitMergeMode.  A card without a speaker any more is gone.
AnswerMerge(q) ==
    LET named == {i \in Position : view.segs[i].label = q.label /\ view.segs[i].name # Blank}
        from == view.segs[CHOOSE i \in named : \A j \in named : i <= j]
        moved(s) ==
            IF named = {}
            THEN [s EXCEPT !.label = q.label, !.name = Blank, !.inferred = FALSE,
                           !.confirmed = FALSE, !.review = FALSE]
            ELSE [s EXCEPT !.label = q.label, !.name = from.name, !.inferred = from.inferred,
                           !.confirmed = from.confirmed, !.review = from.review]
    IN  IF q.state = "ok"
        THEN /\ view' = [view EXCEPT
                    !.segs = [i \in Position |->
                                IF @[i].label \in q.sources THEN moved(@[i]) ELSE @[i]],
                    !.active = IF q.active \in q.sources THEN q.label ELSE @]
             /\ merge' = NoMerge
             /\ card' = [l \in Label |->
                            IF \E i \in Position : view'.segs[i].label = l
                            THEN card[l] ELSE IdleCard]
             /\ UNCHANGED busy
        ELSE /\ merge' = [merge EXCEPT !.merging = FALSE]
             /\ UNCHANGED <<view, card, busy>>

\* dismiss: the name disappears only once the server has dropped it.
AnswerDismiss(q) ==
    /\ view' = IF q.state = "ok" THEN [view EXCEPT !.unmatched = @ \ {q.label}] ELSE view
    /\ busy' = None
    /\ UNCHANGED <<card, merge>>

Answer(q) ==
    /\ q.state # "sent"
    /\ net' = net \ {q}
    /\ CASE q.kind = "name"    -> AnswerName(q)
         [] q.kind = "role"    -> AnswerRole(q)
         [] q.kind = "merge"   -> AnswerMerge(q)
         [] q.kind = "dismiss" -> AnswerDismiss(q)
    /\ UNCHANGED <<nameVars, sent, astray>>

-----------------------------------------------------------------------------
PanelInit ==
    /\ Init
    /\ view = [segs |-> GetSegments, unmatched |-> GetUnmatched, active |-> None]
    /\ card = [l \in Label |-> IdleCard]
    /\ merge = NoMerge
    /\ busy = None
    /\ net = {}
    /\ sent = 0
    /\ astray = FALSE

\* What the pipeline writes reaches the page only when it is loaded again.
PipelineStep ==
    /\ Pipeline
    /\ rebuilds' + sent <= MaxRequests
    /\ astray' = (astray \/ <<segs', rows'>> # <<segs, rows>>)
    /\ UNCHANGED <<view, card, merge, busy, net, sent>>

User ==
    \/ \E l \in Label :
          \/ Edit(l) \/ CancelEdit(l) \/ ConfirmInferredName(l) \/ FilterSpeaker(l)
          \/ Dismiss(l)
          \/ \E sources \in SUBSET Label : HandleMerge(sources, l)
          \/ \E n \in Name \ {OwnLabel} : Save(l, n)
          \/ \E r \in Buttons : PersistRole(l, r)
    \/ ShowAll \/ EnterMergeMode \/ ExitMergeMode \/ Reload

Network == \E q \in net : Serve(q) \/ Refuse(q) \/ LoseAnswer(q) \/ Answer(q)

Next == User \/ Network \/ PipelineStep
Spec == PanelInit /\ [][Next]_vars
=============================================================================
