-------------------------- MODULE SpeakerProperties --------------------------
(***************************************************************************)
(* What the speakers of an episode must keep, whatever the user, the       *)
(* requests under way and the pipeline do at the same time.                *)
(***************************************************************************)
EXTENDS SpeakerPanel

\* A request of the user's that this step serves gives the label this name.
Renamed(l) ==
    \E q \in net \ net' : /\ q.kind \in {"name", "role"} /\ q.state = "sent"
                          /\ q.label = l /\ q.name = rows'[l].name
\* The row was not confirmed yet when inference, about to commit, read it.
ReadUnconfirmed(l) == stage = "write" /\ l \in DOMAIN infer.base /\ ~infer.base[l].confirmed

\* A name the user confirmed stays confirmed and as it is until the user gives another:
\* only a merge that takes its label away, or its dismissal once no segment carries the
\* label, removes the row (inference_db.py: user-confirmed rows are not overwritten;
\* speakers/route.ts).  Excepted is a name confirmed after inference read its row: the
\* commit of inference writes the guess over it and leaves it confirmed.
ConfirmedStays ==
    [][\A l \in DOMAIN rows : rows[l].confirmed =>
            \/ /\ l \in DOMAIN rows' /\ rows'[l].confirmed
               /\ rows'[l].name = rows[l].name \/ Renamed(l) \/ ReadUnconfirmed(l)
            \/ l \notin LabelsIn(segs) /\ segs' = segs
            \/ l \in LabelsIn(segs) \ LabelsIn(segs')]_vars

\* After the segments were rebuilt, a confirmed name that no user touched since is
\* flagged for review, up to and after inference (#1133).
CarriedNamesFlagged ==
    \A l \in DOMAIN rows : rows[l].confirmed /\ l \notin edited => rows[l].review

\* No inferred name belongs to a label nobody speaks under (#703), unless a merge came
\* between the rebuilding of the segments and the end of inference.  Excepted are the names
\* of an episode in which every run is short: they are kept by the labels the segments
\* had, while the segments get slots (inference_db.py:246, #703, against its docstring).
NoPhantoms ==
    ~crossed => \A l \in DOMAIN rows : rows[l].confirmed \/ l \in LabelsIn(segs) \cup spoken

\* With no request under way, the page shows the labels, names and review marks that a
\* reload would show: every answer is applied to all segments it concerns.  Excepted is
\* what the page cannot know: lost answers, the pipeline, overlapping changes; and the
\* review mark of a speaker without a name, which segments merged into it do not get
\* (TranscriptSection.tsx:90 copies from a segment that has a name).
PageFollows ==
    net = {} /\ ~astray =>
        \A i \in Position :
            /\ view.segs[i].label = GetSegments[i].label
            /\ Shown(view.segs[i].name) = Shown(GetSegments[i].name)
            /\ GetSegments[i].name # Blank => view.segs[i].review = GetSegments[i].review

\* No control stays blocked: a spinner turns only while its own request is under way,
\* whether that was answered, refused or lost, and whatever was cancelled meanwhile.
BlockedByRequest ==
    LET pending(kind, l) == \E q \in net : q.live /\ q.kind = kind /\ q.label = l
    IN  /\ \A l \in Label : /\ card[l].saving => pending("name", l)
                            /\ card[l].savingRole => pending("role", l)
                            /\ busy = l => pending("dismiss", l)
        /\ merge.merging => \E l \in Label : pending("merge", l)

-----------------------------------------------------------------------------
\* tasks/chunk.py:24 has the turns built when the "segments are final", and
\* models.py:172 has them "Derived entirely from" the segments.  The statement: an
\* episode at rest has the turns its segments give.
TurnsDerived == stage = "idle" => turns = TurnsOf(segs)

\* TranscriptSection.tsx:84 says that if the active filter is one of the merged-away
\* speakers it switches to the target.  The statement: an active filter has segments.
FilterShowsSegments ==
    view.active # None /\ ~astray => Transcript # {}

\* inference_db.py:231 says that guests are numbered within the slots of real speakers,
\* so that no second pending row meets a role='other' row (#972).  The statement:
\* without a web request in between, inference does not fail on its own rows.
SlotsDisjoint == stage = "write" => ~Collides
=============================================================================
