---------------------------- MODULE SpeakerProofs ----------------------------
(***************************************************************************)
(* The speakers for every number of segments and labels, every set of      *)
(* names and roles, and any number of requests and rebuilds: confirmed     *)
(* names stay, carried names are flagged, no control of the panel stays    *)
(* blocked, inferred names have segments, and the page follows the rows.   *)
(***************************************************************************)
EXTENDS SpeakerProperties, FiniteSetTheorems, TLAPS

Kinds == {"name", "role", "merge", "dismiss"}

\* Rows and requests are records; only the fields that decide are typed.
RowShaped(r) ==
    /\ DOMAIN r = {"name", "inferred", "confirmed", "role", "review"}
    /\ r.confirmed \in BOOLEAN /\ r.review \in BOOLEAN
RowsShaped == \A l \in DOMAIN rows : RowShaped(rows[l])

RequestShaped(q) ==
    /\ DOMAIN q = {"id", "kind", "label", "name", "role", "sources", "active", "state", "live"}
    /\ q.kind \in Kinds /\ q.label \in Label /\ q.live \in BOOLEAN
NetShaped == \A q \in net : RequestShaped(q)

PanelShaped ==
    /\ card \in [Label -> [editing : BOOLEAN, saving : BOOLEAN, savingRole : BOOLEAN]]
    /\ merge \in [mode : BOOLEAN, merging : BOOLEAN]

\* A request of the open page is under way.
Pending(kind, l) == \E q \in net : q.live /\ q.kind = kind /\ q.label = l

-----------------------------------------------------------------------------
(* The requests under way.                                                 *)

\* The state of a request is all that changes before its answer.
LEMMA Restated ==
    ASSUME NEW q, RequestShaped(q), NEW w, NEW p, p = [q EXCEPT !.state = w]
    PROVE  RequestShaped(p) /\ p.live = q.live /\ p.kind = q.kind /\ p.label = q.label
BY DEF RequestShaped

\* Nor does losing its page do more to it.
LEMMA Orphaned ==
    ASSUME NEW q, RequestShaped(q), NEW p, p = [q EXCEPT !.live = FALSE]
    PROVE  RequestShaped(p)
BY DEF RequestShaped

\* A new request is a live one.
LEMMA Requested ==
    ASSUME NEW k \in Kinds, NEW l \in Label, NEW n, NEW r, NEW s, NEW a
    PROVE  LET q == Request(k, l, n, r, s, a)
           IN  RequestShaped(q) /\ q.live /\ q.kind = k /\ q.label = l
BY DEF Request, RequestShaped

\* The steps that send a request, and what they send.
Sends(k, l) == \E n, r, s, a : Send(Request(k, l, n, r, s, a))

\* A step that sends a request adds it to those under way and touches no row.
LEMMA Sent ==
    ASSUME NetShaped, NEW k \in Kinds, NEW l \in Label, Sends(k, l)
    PROVE  /\ NetShaped' /\ Pending(k, l)'
           /\ \A j, m : Pending(j, m) => Pending(j, m)'
           /\ UNCHANGED nameVars
<1>1. PICK n, r, s, a : Send(Request(k, l, n, r, s, a))
  BY DEF Sends
<1>2. PICK q : q = Request(k, l, n, r, s, a)
  OBVIOUS
<1>3. RequestShaped(q) /\ q.live /\ q.kind = k /\ q.label = l
  BY <1>2, Requested
<1>4. net' = net \cup {q} /\ UNCHANGED nameVars
  BY <1>1, <1>2 DEF Send
<1>5. QED
  BY <1>3, <1>4 DEF NetShaped, Pending

\* A request that was served or refused is still under way, unless its page is gone.
LEMMA OnTheWay ==
    ASSUME NetShaped, NEW q \in net, NEW w, Served(q, w)
    PROVE  NetShaped' /\ \A k, l : Pending(k, l) => Pending(k, l)'
<1>1. PICK p : p = [q EXCEPT !.state = w]
  OBVIOUS
<1>2. RequestShaped(q) /\ RequestShaped(p) /\ p.live = q.live /\ p.kind = q.kind /\ p.label = q.label
  BY <1>1, Restated DEF NetShaped
<1>3. net' = (net \ {q}) \cup (IF q.live THEN {p} ELSE {})
  BY <1>1 DEF Served
<1>4. QED
  BY <1>2, <1>3 DEF NetShaped, Pending

-----------------------------------------------------------------------------
(* The steps there are.                                                    *)

\* What the user does with the panel, request or not.
LEMMA UserCases ==
    ASSUME User
    PROVE  \/ \E l \in Label :
                 \/ Edit(l) \/ CancelEdit(l) \/ FilterSpeaker(l) \/ Dismiss(l)
                 \/ \E n : CardIdle(l) /\ PersistName(l, n)
                 \/ \E n : card[l].editing /\ PersistName(l, n)
                 \/ \E r : PersistRole(l, r)
                 \/ \E s : HandleMerge(s, l)
           \/ ShowAll \/ EnterMergeMode \/ ExitMergeMode \/ Reload
BY DEF User, ConfirmInferredName, Save

\* The user changes no row; that is up to the server.
LEMMA UserNames == ASSUME NetShaped, User PROVE NetShaped' /\ UNCHANGED nameVars
<1>1. ASSUME NEW l \in Label, Edit(l) \/ CancelEdit(l) \/ FilterSpeaker(l)
      PROVE  NetShaped' /\ UNCHANGED nameVars
  BY <1>1 DEF Edit, CancelEdit, FilterSpeaker, NetShaped
<1>2. ASSUME NEW l \in Label,
             \/ Dismiss(l) \/ \E n : PersistName(l, n) \/ \E r : PersistRole(l, r)
             \/ \E s : HandleMerge(s, l)
      PROVE  NetShaped' /\ UNCHANGED nameVars
  <2>1. \E k \in Kinds : Sends(k, l)
    BY <1>2 DEF Dismiss, PersistName, PersistRole, HandleMerge, Sends, Kinds
  <2>2. QED
    BY <2>1, Sent
<1>3. CASE ShowAll \/ EnterMergeMode \/ ExitMergeMode
  BY <1>3 DEF ShowAll, EnterMergeMode, ExitMergeMode, MergeLocal, NetShaped
<1>4. CASE Reload
  <2>1. UNCHANGED nameVars /\ net' \subseteq {[q EXCEPT !.live = FALSE] : q \in net}
    BY <1>4 DEF Reload
  <2>2. NetShaped'
    BY <2>1, Orphaned DEF NetShaped
  <2>3. QED
    BY <2>1, <2>2
<1>5. QED
  BY <1>1, <1>2, <1>3, <1>4, UserCases

\* A request of the user's asks for this name, and this step serves it.
Asked(l, n) ==
    \E q \in net \ net' : /\ q.kind \in {"name", "role"} /\ q.state = "sent"
                          /\ q.label = l /\ q.name = n

\* The transactions of the server.
Transaction ==
    \/ \E l, n, b, r : PutName(l, n, b, r) /\ Asked(l, n)
    \/ \E s, l : MergeLabels(s, l)
    \/ \E l : DropName(l)

\* Of what the network does, only a transaction of the server touches the rows.
LEMMA NetworkNames ==
    ASSUME NetShaped, Network
    PROVE  /\ NetShaped'
           /\ UNCHANGED nameVars \/ (Transaction /\ UNCHANGED pipeVars)
<1> PICK q \in net : Serve(q) \/ Refuse(q) \/ LoseAnswer(q) \/ Answer(q)
  BY DEF Network
<1>k. RequestShaped(q) /\ q.kind \in Kinds
  BY DEF NetShaped, RequestShaped
<1>1. CASE Serve(q)
  <2>1. Served(q, "ok") /\ Perform(q) /\ UNCHANGED pipeVars
    BY <1>1 DEF Serve
  <2>2. q \in net \ net' /\ q.state = "sent"
    <3>1. PICK p : p = [q EXCEPT !.state = "ok"]
      OBVIOUS
    <3>2. q.state = "sent" /\ p.state = "ok"
      BY <1>1, <1>k, <3>1 DEF Serve, RequestShaped
    <3>3. net' = (net \ {q}) \cup (IF q.live THEN {p} ELSE {})
      BY <2>1, <3>1 DEF Served
    <3>4. QED
      BY <3>2, <3>3
  <2>a. q.kind \in {"name", "role"} => Asked(q.label, q.name)
    BY <2>2 DEF Asked
  <2> HIDE DEF Asked
  <2>t. Transaction
    <3>1. CASE q.kind = "name"
      BY <2>1, <2>a, <3>1 DEF Perform, Transaction
    <3>2. CASE q.kind = "role"
      BY <2>1, <2>a, <3>2 DEF Perform, Transaction
    <3>3. CASE q.kind \in {"merge", "dismiss"}
      BY <2>1, <3>3 DEF Perform, Transaction
    <3>4. QED
      BY <1>k, <3>1, <3>2, <3>3 DEF Kinds
  <2>3. QED
    BY <2>1, <2>t, OnTheWay
<1>2. CASE Refuse(q)
  BY <1>2, OnTheWay DEF Refuse
<1>3. CASE LoseAnswer(q)
  <2>1. PICK p : p = [q EXCEPT !.state = "refused"]
    OBVIOUS
  <2>2. RequestShaped(p)
    BY <1>k, <2>1, Restated
  <2>3. net' = (net \ {q}) \cup {p} /\ UNCHANGED nameVars
    BY <1>3, <2>1 DEF LoseAnswer
  <2>4. QED
    BY <2>2, <2>3 DEF NetShaped
<1>4. CASE Answer(q)
  BY <1>4 DEF Answer, NetShaped
<1>5. QED
  BY <1>1, <1>2, <1>3, <1>4

-----------------------------------------------------------------------------
(* The rows.                                                               *)

\* Names that were carried over are flagged, and the rows are rows.
NamesInv == NetShaped /\ RowsShaped /\ CarriedNamesFlagged

\* What a step does to confirmed names.
Keeps ==
    \A l \in DOMAIN rows : rows[l].confirmed =>
        \/ /\ l \in DOMAIN rows' /\ rows'[l].confirmed
           /\ rows'[l].name = rows[l].name \/ Renamed(l) \/ ReadUnconfirmed(l)
        \/ l \notin LabelsIn(segs) /\ segs' = segs
        \/ l \in LabelsIn(segs) \ LabelsIn(segs')

\* A name the user gives is confirmed, and the label counts as edited.
LEMMA PutKeeps ==
    ASSUME RowsShaped, CarriedNamesFlagged, NEW l, NEW n, NEW b, NEW r,
           PutName(l, n, b, r), Asked(l, n)
    PROVE  RowsShaped' /\ CarriedNamesFlagged' /\ Keeps
<1>1. PICK o : rows' = Put(rows, l, [name |-> n, inferred |-> FALSE, confirmed |-> TRUE,
                                     review |-> FALSE, role |-> o])
  BY DEF PutName
<1>2. PICK new : new = [name |-> n, inferred |-> FALSE, confirmed |-> TRUE, role |-> o,
                        review |-> FALSE]
  OBVIOUS
<1>3. /\ DOMAIN rows' = DOMAIN rows \cup {l}
      /\ rows'[l] = new
      /\ \A k \in DOMAIN rows \ {l} : rows'[k] = rows[k]
  BY <1>1, <1>2 DEF Put
<1>4. RowShaped(new) /\ new.confirmed /\ new.name = n
  BY <1>2 DEF RowShaped
<1>5. edited' = edited \cup {l}
  BY DEF PutName
<1>6. RowsShaped'
  BY <1>3, <1>4 DEF RowsShaped
<1>7. CarriedNamesFlagged'
  BY <1>3, <1>5 DEF CarriedNamesFlagged
<1>r. Renamed(l)
  BY <1>3, <1>4 DEF Asked, Renamed
<1>8. Keeps
  BY <1>3, <1>4, <1>r DEF Keeps
<1>9. QED
  BY <1>6, <1>7, <1>8

\* A merge takes the labels of the rows it drops out of the segments.
LEMMA MergeKeeps ==
    ASSUME RowsShaped, CarriedNamesFlagged, NEW s, NEW t, MergeLabels(s, t)
    PROVE  RowsShaped' /\ CarriedNamesFlagged' /\ Keeps
<1>1. /\ s \cup {t} \subseteq LabelsIn(segs) /\ t \notin s
      /\ segs' = [i \in Position |-> IF segs[i] \in s THEN t ELSE segs[i]]
      /\ rows' = [k \in DOMAIN rows \ s |-> rows[k]] /\ edited' = edited
  BY DEF MergeLabels, Mergeable, ValidMerge, Without
<1>2. \A l \in s : l \in LabelsIn(segs) \ LabelsIn(segs')
  BY <1>1 DEF LabelsIn
<1>3. RowsShaped' /\ CarriedNamesFlagged'
  BY <1>1 DEF RowsShaped, CarriedNamesFlagged
<1>4. Keeps
  BY <1>1, <1>2 DEF Keeps
<1>5. QED
  BY <1>3, <1>4

\* A name is dismissed only when no segment has its label.
LEMMA DropKeeps ==
    ASSUME RowsShaped, CarriedNamesFlagged, NEW t, DropName(t)
    PROVE  RowsShaped' /\ CarriedNamesFlagged' /\ Keeps
<1>1. /\ t \notin LabelsIn(segs) /\ UNCHANGED <<segs, edited>>
      /\ rows' = [k \in DOMAIN rows \ {t} |-> rows[k]]
  BY DEF DropName, Dismissible, Without, history
<1>2. RowsShaped' /\ CarriedNamesFlagged'
  BY <1>1 DEF RowsShaped, CarriedNamesFlagged
<1>3. Keeps
  BY <1>1 DEF Keeps
<1>4. QED
  BY <1>2, <1>3

\* The segments are rebuilt: guesses go, confirmed names are flagged.
LEMMA ResetKeeps ==
    ASSUME RowsShaped, rows' = Reset(rows), edited' = {}
    PROVE  RowsShaped' /\ CarriedNamesFlagged' /\ Keeps
<1>1. /\ DOMAIN rows' = {k \in DOMAIN rows : rows[k].confirmed}
      /\ \A l \in DOMAIN rows' : rows'[l] = [rows[l] EXCEPT !.review = TRUE]
  BY DEF Reset
<1>2. ASSUME NEW l \in DOMAIN rows'
      PROVE  /\ RowShaped(rows'[l]) /\ rows'[l].review
             /\ rows'[l].confirmed = rows[l].confirmed /\ rows'[l].name = rows[l].name
  <2>1. RowShaped(rows[l]) /\ rows'[l] = [rows[l] EXCEPT !.review = TRUE]
    BY <1>1 DEF RowsShaped
  <2>2. QED
    BY <2>1 DEF RowShaped
<1>3. RowsShaped' /\ CarriedNamesFlagged'
  BY <1>2 DEF RowsShaped, CarriedNamesFlagged
<1>4. Keeps
  BY <1>1, <1>2 DEF Keeps
<1>5. QED
  BY <1>3, <1>4

\* A row that inference changes keeps what the user decided.
LEMMA InferredKeeps ==
    ASSUME RowsShaped, NEW l \in Inserted \cup Updated, ~Overtaken
    PROVE  /\ RowShaped(InferredRow(l))
           /\ l \in DOMAIN rows =>
                 /\ rows[l].confirmed => InferredRow(l).confirmed
                 /\ InferredRow(l).review = rows[l].review
                 /\ l \in DOMAIN infer.base /\ ~infer.base[l].confirmed
           /\ InferredRow(l).confirmed => l \in DOMAIN rows /\ rows[l].confirmed
<1>1. CASE l \in Inserted
  <2>1. l \notin DOMAIN rows
    BY <1>1 DEF Overtaken
  <2>2. PICK n, o : InferredRow(l) = [name |-> n, inferred |-> TRUE, confirmed |-> FALSE,
                                      role |-> o, review |-> FALSE]
    BY <1>1 DEF InferredRow
  <2>3. RowShaped(InferredRow(l)) /\ ~InferredRow(l).confirmed
    BY <2>2 DEF RowShaped
  <2>4. QED
    BY <2>1, <2>3
<1>2. CASE l \notin Inserted
  <2>1. l \in Updated /\ l \in DOMAIN rows
    BY <1>2 DEF Overtaken
  <2>2. l \in DOMAIN infer.base /\ ~infer.base[l].confirmed
    BY <2>1 DEF Updated, NamedRows, OtherRows, Writable
  <2>3. PICK m, j, d, p :
          /\ d = (rows[l].confirmed /\ ~infer.base[l].confirmed)
          /\ InferredRow(l) = [rows[l] EXCEPT !.name = m, !.inferred = j, !.confirmed = d, !.role = p]
    BY <1>2 DEF InferredRow
  <2>4. RowShaped(rows[l]) /\ d = rows[l].confirmed
    BY <2>1, <2>2, <2>3 DEF RowsShaped, RowShaped
  <2>5. QED
    BY <2>1, <2>2, <2>3, <2>4 DEF RowShaped
<1>3. QED
  BY <1>1, <1>2

\* The commit of inference, against rows that may have changed since it read them.
LEMMA CommitKeeps ==
    ASSUME RowsShaped, CarriedNamesFlagged, InferCommit
    PROVE  RowsShaped' /\ CarriedNamesFlagged' /\ Keeps
<1>1. /\ DOMAIN rows' = DOMAIN rows \cup Inserted
      /\ \A l \in DOMAIN rows' :
            rows'[l] = IF l \in Inserted \cup Updated THEN InferredRow(l) ELSE rows[l]
      /\ edited' = edited /\ ~Overtaken /\ stage = "write"
  BY DEF InferCommit, history
<1>2. \A l \in Inserted \cup Updated :
        /\ RowShaped(InferredRow(l))
        /\ l \in DOMAIN rows => /\ rows[l].confirmed => InferredRow(l).confirmed
                                /\ InferredRow(l).review = rows[l].review
                                /\ l \in DOMAIN infer.base /\ ~infer.base[l].confirmed
        /\ InferredRow(l).confirmed => l \in DOMAIN rows /\ rows[l].confirmed
  BY <1>1, InferredKeeps
<1> HIDE DEF Inserted, Updated, InferredRow
<1>3. RowsShaped'
  BY <1>1, <1>2 DEF RowsShaped
<1>4. CarriedNamesFlagged'
  BY <1>1, <1>2 DEF CarriedNamesFlagged
<1>5. Keeps
  BY <1>1, <1>2 DEF Keeps, ReadUnconfirmed
<1>6. QED
  BY <1>3, <1>4, <1>5

\* Every step of the pipeline keeps the rows in order.
LEMMA PipelineKeeps ==
    ASSUME RowsShaped, CarriedNamesFlagged, Pipeline
    PROVE  RowsShaped' /\ CarriedNamesFlagged' /\ Keeps
<1>1. CASE rows' = Reset(rows) /\ edited' = {}
  BY <1>1, ResetKeeps
<1>2. CASE InferCommit
  BY <1>2, CommitKeeps
<1>3. CASE rows' = rows /\ edited' = edited
  BY <1>3 DEF RowsShaped, CarriedNamesFlagged, Keeps
<1>4. CASE Transcribe \/ Diarize \/ DiarizeFails
  BY <1>1, <1>3, <1>4 DEF Transcribe, Diarize, DiarizeFails
<1>5. CASE DiarizeAgain \/ Chunk \/ InferLoad \/ InferRead \/ InferFails
  BY <1>3, <1>5 DEF DiarizeAgain, Chunk, InferLoad, InferRead, InferFails, dbVars, history
<1>6. QED
  BY <1>2, <1>4, <1>5 DEF Pipeline

\* The rows an episode starts with are in order.
LEMMA NamesInit == PanelInit => NamesInv
<1> SUFFICES ASSUME PanelInit PROVE NamesInv
  OBVIOUS
<1>1. NetShaped
  BY DEF PanelInit, NetShaped
<1>2. \A l \in DOMAIN rows : rows[l] \in Guessed \cup Confirmed
  <2>1. CASE rows \in [LabelsIn(segs) -> Guessed] \/ rows \in [Carried -> Confirmed]
    BY <2>1
  <2>2. CASE rows = << >>
    BY <2>2
  <2>3. QED
    BY <2>1, <2>2 DEF PanelInit, Init
<1>3. RowsShaped
  BY <1>2 DEF RowsShaped, RowShaped, Guessed, Confirmed
<1>4. CarriedNamesFlagged
  BY <1>2 DEF CarriedNamesFlagged, Guessed, Confirmed
<1>5. QED
  BY <1>1, <1>3, <1>4 DEF NamesInv

\* Every step keeps the rows in order and the confirmed names.
LEMMA NamesStep == ASSUME NamesInv, [Next]_vars PROVE NamesInv' /\ (Keeps \/ UNCHANGED vars)
<1>u. ASSUME UNCHANGED nameVars PROVE RowsShaped' /\ CarriedNamesFlagged' /\ Keeps
  <2>1. rows' = rows /\ edited' = edited
    BY <1>u DEF nameVars, dbVars, history
  <2>2. QED
    BY <2>1 DEF NamesInv, RowsShaped, CarriedNamesFlagged, Keeps
<1>1. CASE User
  BY <1>1, <1>u, UserNames DEF NamesInv
<1>2. CASE Network
  <2>1. NetShaped' /\ (UNCHANGED nameVars \/ Transaction)
    BY <1>2, NetworkNames DEF NamesInv
  <2>2. CASE Transaction
    BY <2>1, <2>2, PutKeeps, MergeKeeps, DropKeeps DEF Transaction, NamesInv
  <2>3. QED
    BY <2>1, <2>2, <1>u DEF NamesInv
<1>3. CASE PipelineStep
  <2>1. Pipeline /\ net' = net
    BY <1>3 DEF PipelineStep
  <2>2. NetShaped'
    BY <2>1 DEF NamesInv, NetShaped
  <2>3. QED
    BY <2>1, <2>2, PipelineKeeps DEF NamesInv
<1>4. CASE UNCHANGED vars
  <2>1. UNCHANGED nameVars /\ net' = net
    BY <1>4 DEF vars, panelVars
  <2>2. QED
    BY <1>4, <2>1, <1>u DEF NamesInv, NetShaped
<1>5. QED
  BY <1>1, <1>2, <1>3, <1>4 DEF Next

\* A name that was carried over to rebuilt segments stays flagged until a user touches it,
\* through merges, dismissals and an inference cut into its reads and its commit
\* (inference_db.py: reset_speaker_names_for_new_segments, write_speaker_names).
THEOREM CarriedFlagged == Spec => []CarriedNamesFlagged
<1>1. NamesInv => CarriedNamesFlagged
  BY DEF NamesInv
<1>2. QED
  BY <1>1, NamesInit, NamesStep, PTL DEF Spec

\* A confirmed name is lost only to a merge that takes its label away or a dismissal once
\* no segment has the label, and changed only by a request of the user's that this very
\* step serves, or by the commit of an inference that read its row before it was confirmed
\* (inference_db.py: write_speaker_names; speakers/route.ts).
THEOREM ConfirmedKept == Spec => ConfirmedStays
<1>1. NamesInv /\ [Next]_vars => [Keeps]_vars
  BY NamesStep
<1>2. [Keeps]_vars <=> [\A l \in DOMAIN rows : rows[l].confirmed =>
            \/ /\ l \in DOMAIN rows' /\ rows'[l].confirmed
               /\ rows'[l].name = rows[l].name \/ Renamed(l) \/ ReadUnconfirmed(l)
            \/ l \notin LabelsIn(segs) /\ segs' = segs
            \/ l \in LabelsIn(segs) \ LabelsIn(segs')]_vars
  BY DEF Keeps
<1>3. QED
  BY <1>1, <1>2, NamesInit, NamesStep, PTL DEF Spec, ConfirmedStays
-----------------------------------------------------------------------------
(* The controls of the panel.                                              *)

Blocked ==
    /\ \A l \in Label : /\ card[l].saving => Pending("name", l)
                        /\ card[l].savingRole => Pending("role", l)
                        /\ busy = l => Pending("dismiss", l)
    /\ merge.merging => \E l \in Label : Pending("merge", l)

PanelInv == NetShaped /\ PanelShaped /\ Blocked

\* The invariant below is the property the runs check.
LEMMA SameBlocked == Blocked <=> BlockedByRequest
BY DEF Blocked, BlockedByRequest, Pending

\* Controls that are no more blocked than before, with no request less.
LEMMA NotMoreBlocked ==
    ASSUME Blocked, busy' = busy \/ busy' = None,
           \A l \in Label : /\ card'[l].saving => card[l].saving
                            /\ card'[l].savingRole => card[l].savingRole,
           merge'.merging => merge.merging,
           \A k, l : Pending(k, l) => Pending(k, l)'
    PROVE  Blocked'
<1>1. None \notin Label
  BY SizeAssumption DEF None, Label
<1>2. QED
  BY <1>1 DEF Blocked


\* A control that sends a request is blocked by that very request.
LEMMA SendBlocks ==
    ASSUME PanelInv, NEW l \in Label,
           Dismiss(l) \/ (\E n : PersistName(l, n)) \/ (\E r : PersistRole(l, r)) \/ (\E s : HandleMerge(s, l))
    PROVE  PanelShaped' /\ Blocked'
<1>p. NetShaped /\ PanelShaped /\ Blocked
  BY DEF PanelInv
<1>1. ASSUME NEW n, PersistName(l, n) PROVE PanelShaped' /\ Blocked'
  <2>1. /\ card' = [card EXCEPT ![l].saving = TRUE] /\ UNCHANGED <<merge, busy>>
        /\ Sends("name", l)
    BY <1>1 DEF PersistName, Sends
  <2>2. /\ Pending("name", l)'
        /\ \A j, m : Pending(j, m) => Pending(j, m)'
    BY <1>p, <2>1, Sent DEF Kinds
  <2>3. \A k \in Label : /\ k # l => card'[k] = card[k]
                         /\ card'[k].savingRole = card[k].savingRole
    BY <1>p, <2>1 DEF PanelShaped
  <2>4. Blocked'
    BY <1>p, <2>1, <2>2, <2>3 DEF Blocked
  <2>5. PanelShaped'
    BY <1>p, <2>1 DEF PanelShaped
  <2>6. QED
    BY <2>4, <2>5
<1>2. ASSUME NEW r, PersistRole(l, r) PROVE PanelShaped' /\ Blocked'
  <2>1. /\ card' = [card EXCEPT ![l].savingRole = TRUE] /\ UNCHANGED <<merge, busy>>
        /\ Sends("role", l)
    BY <1>2 DEF PersistRole, Sends
  <2>2. /\ Pending("role", l)'
        /\ \A j, m : Pending(j, m) => Pending(j, m)'
    BY <1>p, <2>1, Sent DEF Kinds
  <2>3. \A k \in Label : /\ k # l => card'[k] = card[k]
                         /\ card'[k].saving = card[k].saving
    BY <1>p, <2>1 DEF PanelShaped
  <2>4. Blocked'
    BY <1>p, <2>1, <2>2, <2>3 DEF Blocked
  <2>5. PanelShaped'
    BY <1>p, <2>1 DEF PanelShaped
  <2>6. QED
    BY <2>4, <2>5
<1>3. ASSUME NEW s, HandleMerge(s, l) PROVE PanelShaped' /\ Blocked'
  <2>1. /\ merge' = [merge EXCEPT !.merging = TRUE] /\ UNCHANGED <<card, busy>>
        /\ Sends("merge", l)
    BY <1>3 DEF HandleMerge, Sends
  <2>2. /\ Pending("merge", l)'
        /\ \A j, m : Pending(j, m) => Pending(j, m)'
    BY <1>p, <2>1, Sent DEF Kinds
  <2>3. Blocked'
    BY <1>p, <2>1, <2>2 DEF Blocked
  <2>4. PanelShaped'
    BY <1>p, <2>1 DEF PanelShaped
  <2>5. QED
    BY <2>3, <2>4
<1>4. CASE Dismiss(l)
  <2>1. busy' = l /\ UNCHANGED <<card, merge>> /\ Sends("dismiss", l)
    BY <1>4 DEF Dismiss, Sends
  <2>2. /\ Pending("dismiss", l)'
        /\ \A j, m : Pending(j, m) => Pending(j, m)'
    BY <1>p, <2>1, Sent DEF Kinds
  <2>3. Blocked'
    BY <1>p, <2>1, <2>2 DEF Blocked
  <2>4. PanelShaped'
    BY <1>p, <2>1 DEF PanelShaped
  <2>5. QED
    BY <2>3, <2>4
<1>5. QED
  BY <1>1, <1>2, <1>3, <1>4

\* Whatever the user does, no control is blocked without a request.
LEMMA UserBlocks == ASSUME PanelInv, User PROVE PanelShaped' /\ Blocked'
<1>p. NetShaped /\ PanelShaped /\ Blocked
  BY DEF PanelInv
<1>1. ASSUME NEW l \in Label, Edit(l) \/ CancelEdit(l) \/ FilterSpeaker(l)
      PROVE  PanelShaped' /\ Blocked'
  <2>1. /\ \/ card' = [card EXCEPT ![l].editing = TRUE]
           \/ card' = [card EXCEPT ![l].editing = FALSE]
           \/ card' = card
        /\ UNCHANGED <<merge, busy, net>>
    BY <1>1 DEF Edit, CancelEdit, FilterSpeaker
  <2>2. /\ card' \in [Label -> [editing : BOOLEAN, saving : BOOLEAN, savingRole : BOOLEAN]]
        /\ \A k \in Label : card'[k].saving = card[k].saving /\ card'[k].savingRole = card[k].savingRole
    <3>1. CASE card' = [card EXCEPT ![l].editing = TRUE]
      BY <1>p, <3>1 DEF PanelShaped
    <3>2. CASE card' = [card EXCEPT ![l].editing = FALSE]
      BY <1>p, <3>2 DEF PanelShaped
    <3>3. CASE card' = card
      BY <1>p, <3>3 DEF PanelShaped
    <3>4. QED
      BY <2>1, <3>1, <3>2, <3>3
  <2>3. \A j, m : Pending(j, m) => Pending(j, m)'
    BY <2>1 DEF Pending
  <2>4. Blocked'
    BY <1>p, <2>1, <2>2, <2>3, NotMoreBlocked
  <2>5. QED
    BY <1>p, <2>1, <2>2, <2>4 DEF PanelShaped
<1>2. ASSUME NEW l \in Label,
             \/ Dismiss(l) \/ (\E n : PersistName(l, n)) \/ (\E r : PersistRole(l, r))
             \/ \E s : HandleMerge(s, l)
      PROVE  PanelShaped' /\ Blocked'
  BY <1>2, SendBlocks
<1>3. CASE ShowAll \/ EnterMergeMode \/ ExitMergeMode
  <2>1. /\ merge' \in {merge, [merge EXCEPT !.mode = TRUE], NoMerge}
        /\ UNCHANGED <<card, busy, net>>
    BY <1>3 DEF ShowAll, EnterMergeMode, ExitMergeMode, MergeLocal
  <2>2. merge' \in [mode : BOOLEAN, merging : BOOLEAN] /\ (merge'.merging => merge.merging)
    <3>1. CASE merge' = merge
      BY <1>p, <3>1 DEF PanelShaped
    <3>2. CASE merge' = [merge EXCEPT !.mode = TRUE]
      BY <1>p, <3>2 DEF PanelShaped
    <3>3. CASE merge' = NoMerge
      BY <3>3 DEF NoMerge
    <3>4. QED
      BY <2>1, <3>1, <3>2, <3>3
  <2>3. \A j, m : Pending(j, m) => Pending(j, m)'
    BY <2>1 DEF Pending
  <2>4. Blocked'
    BY <1>p, <2>1, <2>2, <2>3, NotMoreBlocked
  <2>5. QED
    BY <1>p, <2>1, <2>2, <2>4 DEF PanelShaped
<1>4. CASE Reload
  <2>1. card' = [l \in Label |-> IdleCard] /\ merge' = NoMerge /\ busy' = None
    BY <1>4 DEF Reload, LoadPage
  <2>2. None \notin Label
    BY SizeAssumption DEF None, Label
  <2>3. Blocked'
    BY <2>1, <2>2 DEF Blocked, IdleCard, NoMerge
  <2>4. PanelShaped'
    BY <2>1 DEF PanelShaped, IdleCard, NoMerge
  <2>5. QED
    BY <2>3, <2>4
<1>5. QED
  BY <1>1, <1>2, <1>3, <1>4, UserCases

\* An answer releases the control that waited for it, whatever it says.
LEMMA AnswerReleases ==
    ASSUME PanelInv, NEW q \in net, Answer(q)
    PROVE  PanelShaped' /\ Blocked'
<1>p. NetShaped /\ PanelShaped /\ Blocked
  BY DEF PanelInv
<1>q. q.label \in Label /\ q.kind \in Kinds
  BY <1>p DEF NetShaped, RequestShaped
<1>n. \A k, l : Pending(k, l) /\ <<k, l>> # <<q.kind, q.label>> => Pending(k, l)'
  BY DEF Answer, Pending
<1>1. CASE q.kind = "name"
  <2>1. /\ card' = [card EXCEPT ![q.label].editing = FALSE, ![q.label].saving = FALSE]
        /\ UNCHANGED <<merge, busy>>
    BY <1>1 DEF Answer, AnswerName
  <2>2. \A k \in Label : /\ k # q.label => card'[k] = card[k]
                         /\ card'[k].savingRole = card[k].savingRole
    BY <1>p, <2>1 DEF PanelShaped
  <2>3. ~card'[q.label].saving
    BY <1>p, <1>q, <2>1 DEF PanelShaped
  <2>4. Blocked'
    BY <1>p, <1>n, <1>1, <2>1, <2>2, <2>3 DEF Blocked
  <2>5. PanelShaped'
    BY <1>p, <2>1 DEF PanelShaped
  <2>6. QED
    BY <2>4, <2>5
<1>2. CASE q.kind = "role"
  <2>1. /\ card' = [card EXCEPT ![q.label].savingRole = FALSE]
        /\ UNCHANGED <<merge, busy>>
    BY <1>2 DEF Answer, AnswerRole
  <2>2. \A k \in Label : /\ k # q.label => card'[k] = card[k]
                         /\ card'[k].saving = card[k].saving
    BY <1>p, <2>1 DEF PanelShaped
  <2>3. ~card'[q.label].savingRole
    BY <1>p, <1>q, <2>1 DEF PanelShaped
  <2>4. Blocked'
    BY <1>p, <1>n, <1>2, <2>1, <2>2, <2>3 DEF Blocked
  <2>5. PanelShaped'
    BY <1>p, <2>1 DEF PanelShaped
  <2>6. QED
    BY <2>4, <2>5
<1>3. CASE q.kind = "merge"
  <2>1. /\ merge' = NoMerge \/ merge' = [merge EXCEPT !.merging = FALSE]
        /\ busy' = busy
        /\ card' = card \/ \E S \in SUBSET Label : card' = [l \in Label |-> IF l \in S THEN card[l] ELSE IdleCard]
    <3>1. AnswerMerge(q)
      BY <1>3 DEF Answer
    <3>2. CASE q.state = "ok"
      <4>1. /\ merge' = NoMerge /\ busy' = busy
            /\ card' = [l \in Label |-> IF \E i \in Position : view'.segs[i].label = l
                                        THEN card[l] ELSE IdleCard]
        BY <3>1, <3>2 DEF AnswerMerge
      <4>2. PICK S : S = {l \in Label : \E i \in Position : view'.segs[i].label = l}
        OBVIOUS
      <4>3. S \in SUBSET Label /\ card' = [l \in Label |-> IF l \in S THEN card[l] ELSE IdleCard]
        BY <4>1, <4>2
      <4>4. QED
        BY <4>1, <4>3
    <3>3. CASE q.state # "ok"
      BY <3>1, <3>3 DEF AnswerMerge
    <3>4. QED
      BY <3>2, <3>3
  <2>2. /\ merge' \in [mode : BOOLEAN, merging : BOOLEAN] /\ ~merge'.merging
    <3>1. CASE merge' = NoMerge
      BY <3>1 DEF NoMerge
    <3>2. CASE merge' = [merge EXCEPT !.merging = FALSE]
      BY <1>p, <3>2 DEF PanelShaped
    <3>3. QED
      BY <2>1, <3>1, <3>2
  <2>3. /\ card' \in [Label -> [editing : BOOLEAN, saving : BOOLEAN, savingRole : BOOLEAN]]
        /\ \A k \in Label : /\ card'[k].saving => card[k].saving
                            /\ card'[k].savingRole => card[k].savingRole
    <3>1. CASE card' = card
      BY <1>p, <3>1 DEF PanelShaped
    <3>2. ASSUME NEW S \in SUBSET Label,
                 card' = [l \in Label |-> IF l \in S THEN card[l] ELSE IdleCard]
          PROVE  /\ card' \in [Label -> [editing : BOOLEAN, saving : BOOLEAN, savingRole : BOOLEAN]]
                 /\ \A k \in Label : /\ card'[k].saving => card[k].saving
                                     /\ card'[k].savingRole => card[k].savingRole
      <4>1. \A k \in Label : card'[k] = card[k] \/ card'[k] = IdleCard
        BY <3>2
      <4>2. /\ IdleCard \in [editing : BOOLEAN, saving : BOOLEAN, savingRole : BOOLEAN]
            /\ ~IdleCard.saving /\ ~IdleCard.savingRole
        BY DEF IdleCard
      <4>3. card' \in [Label -> [editing : BOOLEAN, saving : BOOLEAN, savingRole : BOOLEAN]]
        BY <1>p, <3>2, <4>2 DEF PanelShaped
      <4>4. QED
        BY <4>1, <4>2, <4>3
    <3>3. QED
      BY <2>1, <3>1, <3>2
  <2>4. Blocked'
    BY <1>p, <1>n, <1>3, <2>1, <2>2, <2>3 DEF Blocked
  <2>5. QED
    BY <2>2, <2>3, <2>4 DEF PanelShaped
<1>4. CASE q.kind = "dismiss"
  <2>1. busy' = None /\ UNCHANGED <<card, merge>>
    BY <1>4 DEF Answer, AnswerDismiss
  <2>2. None \notin Label
    BY SizeAssumption DEF None, Label
  <2>3. Blocked'
    BY <1>p, <1>n, <1>4, <2>1, <2>2 DEF Blocked
  <2>4. QED
    BY <1>p, <2>1, <2>3 DEF PanelShaped
<1>5. QED
  BY <1>q, <1>1, <1>2, <1>3, <1>4 DEF Kinds

\* Whatever the network does, no control is blocked without a request.
LEMMA NetworkBlocks == ASSUME PanelInv, Network PROVE PanelShaped' /\ Blocked'
<1>p. NetShaped /\ PanelShaped /\ Blocked
  BY DEF PanelInv
<1> PICK q \in net : Serve(q) \/ Refuse(q) \/ LoseAnswer(q) \/ Answer(q)
  BY DEF Network
<1>1. CASE Serve(q) \/ Refuse(q) \/ LoseAnswer(q)
  <2>1. UNCHANGED <<card, merge, busy>>
    BY <1>1 DEF Serve, Refuse, LoseAnswer
  <2>2. \A j, m : Pending(j, m) => Pending(j, m)'
    <3>1. CASE Serve(q) \/ Refuse(q)
      <4>1. Served(q, "ok") \/ Served(q, "refused")
        BY <3>1 DEF Serve, Refuse
      <4>2. QED
        BY <1>p, <4>1, OnTheWay
    <3>2. CASE LoseAnswer(q)
      <4>1. PICK p : p = [q EXCEPT !.state = "refused"]
        OBVIOUS
      <4>2. p.live = q.live /\ p.kind = q.kind /\ p.label = q.label
        BY <1>p, <4>1, Restated DEF NetShaped
      <4>3. net' = (net \ {q}) \cup {p}
        BY <3>2, <4>1 DEF LoseAnswer
      <4>4. QED
        BY <4>2, <4>3 DEF Pending
    <3>3. QED
      BY <1>1, <3>1, <3>2
  <2>3. Blocked'
    BY <1>p, <2>1, <2>2, NotMoreBlocked
  <2>4. QED
    BY <1>p, <2>1, <2>3 DEF PanelShaped
<1>2. CASE Answer(q)
  BY <1>2, AnswerReleases
<1>3. QED
  BY <1>1, <1>2

\* Every step keeps the panel in order.
LEMMA PanelStep == ASSUME PanelInv, [Next]_vars PROVE PanelInv'
<1>1. CASE User
  BY <1>1, UserNames, UserBlocks DEF PanelInv
<1>2. CASE Network
  BY <1>2, NetworkNames, NetworkBlocks DEF PanelInv
<1>3. CASE PipelineStep \/ UNCHANGED vars
  <2>1. UNCHANGED <<card, merge, busy, net>>
    BY <1>3 DEF PipelineStep, vars, panelVars
  <2>2. QED
    BY <2>1 DEF PanelInv, NetShaped, PanelShaped, Blocked, Pending
<1>4. QED
  BY <1>1, <1>2, <1>3 DEF Next

\* A page that was just loaded is in order.
LEMMA PanelStart == PanelInit => PanelInv
<1> SUFFICES ASSUME PanelInit PROVE PanelInv
  OBVIOUS
<1>1. card = [l \in Label |-> IdleCard] /\ merge = NoMerge /\ busy = None /\ net = {}
  BY DEF PanelInit
<1>2. None \notin Label
  BY SizeAssumption DEF None, Label
<1>3. QED
  BY <1>1, <1>2 DEF PanelInv, NetShaped, PanelShaped, Blocked, IdleCard, NoMerge

\* A spinner of the panel turns only while its own request is under way, whatever was
\* answered, refused, lost or cancelled meanwhile (the finally blocks of
\* persistDisplayName, persistRole, handleMerge and dismiss in SpeakerPanel.tsx).
THEOREM ControlsReleased == Spec => []BlockedByRequest
<1>1. PanelInv => BlockedByRequest
  BY SameBlocked DEF PanelInv
<1>2. QED
  BY <1>1, PanelStart, PanelStep, PTL DEF Spec

-----------------------------------------------------------------------------
(* Counting.                                                               *)

\* A finite set has a member that a measure puts highest.
LEMMA Highest ==
    ASSUME NEW S, IsFiniteSet(S), S # {}, NEW f \in [S -> Int]
    PROVE  \E l \in S : \A k \in S : f[k] <= f[l]
<1> DEFINE above(x) == {k \in S : f[x] < f[k]}
           T == {above(x) : x \in S}
<1>1. T \subseteq FiniteSubsetsOf(S) /\ T # {}
  <2>1. \A x \in S : IsFiniteSet(above(x)) /\ above(x) \subseteq S
    BY FS_Subset
  <2>2. \A x \in S : above(x) \in FiniteSubsetsOf(S)
    <3> HIDE DEF above
    <3>1. QED
      BY <2>1 DEF FiniteSubsetsOf
  <2> HIDE DEF above
  <2>3. QED
    BY <2>2
<1>2. PICK U \in T : \A V \in T : <<V, U>> \notin StrictSubsetOrdering(S)
  <2>1. IsWellFoundedOn(StrictSubsetOrdering(S), FiniteSubsetsOf(S))
    BY FS_StrictSubsetOrderingWellFounded
  <2> HIDE DEF T
  <2>2. QED
    BY <1>1, <2>1, WFMin
<1>3. PICK x \in S : U = above(x)
  BY <1>2
<1>4. ASSUME NEW k \in S, f[x] < f[k] PROVE FALSE
  <2>1. \A y \in above(k) : y \in above(x)
    BY <1>4
  <2>2. k \in above(x) /\ k \notin above(k)
    BY <1>4
  <2>3. above(k) \in T /\ above(k) \subseteq S /\ U \subseteq S
    BY <1>3
  <2>4. <<above(k), U>> \in StrictSubsetOrdering(S)
    BY <1>3, <2>1, <2>2, <2>3 DEF StrictSubsetOrdering
  <2>5. QED
    BY <1>2, <2>3, <2>4
<1>5. QED
  BY <1>4

\* A finite set of numbers has a greatest and a least.
LEMMA Extremes ==
    ASSUME NEW S, S \subseteq Int, IsFiniteSet(S), S # {}
    PROVE  /\ \E l \in S : \A k \in S : k <= l
           /\ \E l \in S : \A k \in S : l <= k
<1>1. \E l \in S : \A k \in S : k <= l
  <2>1. PICK f : f = [k \in S |-> k]
    OBVIOUS
  <2>2. f \in [S -> Int] /\ \A k \in S : f[k] = k
    BY <2>1
  <2>3. PICK l \in S : \A k \in S : f[k] <= f[l]
    BY <2>2, Highest
  <2>4. QED
    BY <2>2, <2>3
<1>2. \E l \in S : \A k \in S : l <= k
  <2>1. PICK f : f = [k \in S |-> 0 - k]
    OBVIOUS
  <2>2. f \in [S -> Int] /\ \A k \in S : f[k] = 0 - k
    BY <2>1
  <2>3. PICK l \in S : \A k \in S : f[k] <= f[l]
    BY <2>2, Highest
  <2>4. \A k \in S : l <= k
    <3>1. TAKE k \in S
    <3>2. 0 - k <= 0 - l /\ k \in Int /\ l \in Int
      BY <2>2, <2>3
    <3>3. QED
      BY <3>2
  <2>5. QED
    BY <2>4
<1>3. QED
  BY <1>1, <1>2

\* A set ordered by a measure is numbered from zero without gaps.
Ranks(S, f) == {Cardinality({k \in S : f[k] < f[l]}) : l \in S}

\* The rank of a label among those found.
LEMMA Ranked ==
    ASSUME NEW S, IsFiniteSet(S), NEW f \in [S -> Int],
           \A k, l \in S : f[k] = f[l] => k = l
    PROVE  Ranks(S, f) = 0 .. Cardinality(S) - 1
<1> DEFINE below(l) == {k \in S : f[k] < f[l]}
           rank(l) == Cardinality(below(l))
<1>1. Ranks(S, f) = {rank(l) : l \in S}
  BY DEF Ranks
<1>2. \A l \in S : IsFiniteSet(below(l)) /\ below(l) \subseteq S
  BY FS_Subset
<1>c. Cardinality(S) \in Nat
  BY FS_CardinalityType
<1>3. ASSUME NEW l \in S PROVE rank(l) \in 0 .. Cardinality(S) - 1
  <2>1. IsFiniteSet(S \ {l}) /\ Cardinality(S \ {l}) = Cardinality(S) - 1
    BY FS_RemoveElement
  <2>2. below(l) \subseteq S \ {l}
    OBVIOUS
  <2>3. rank(l) <= Cardinality(S) - 1
    BY <2>1, <2>2, FS_Subset
  <2>4. rank(l) \in Nat
    BY <1>2, FS_CardinalityType
  <2>5. QED
    BY <2>3, <2>4, <1>c
\* The member just below has the number just below.
<1>4. ASSUME NEW l \in S, rank(l) # 0 PROVE rank(l) - 1 \in Ranks(S, f)
  <2>1. below(l) # {}
    BY <1>4, FS_EmptySet
  <2>2. PICK x \in below(l) : \A k \in below(l) : f[k] <= f[x]
    <3>1. [k \in below(l) |-> f[k]] \in [below(l) -> Int]
      OBVIOUS
    <3>2. QED
      BY <1>2, <2>1, <3>1, Highest
  <2>3. below(x) = below(l) \ {x}
    BY <2>2
  <2>4. rank(x) = rank(l) - 1
    BY <1>2, <2>2, <2>3, FS_RemoveElement
  <2>x. x \in S
    BY <2>2
  <2> HIDE DEF rank
  <2>5. QED
    BY <1>1, <2>x, <2>4
\* The highest has the last number.
<1>5. ASSUME S # {} PROVE Cardinality(S) - 1 \in Ranks(S, f)
  <2>1. PICK x \in S : \A k \in S : f[k] <= f[x]
    BY <1>5, Highest
  <2>2. below(x) = S \ {x}
    BY <2>1
  <2>3. rank(x) = Cardinality(S) - 1
    BY <2>1, <2>2, FS_RemoveElement
  <2> HIDE DEF rank
  <2>4. QED
    BY <1>1, <2>1, <2>3
<1> DEFINE missing == {m \in 0 .. Cardinality(S) - 1 : m \notin Ranks(S, f)}
<1>6. ASSUME missing # {} PROVE FALSE
  <2>1. missing \subseteq Int /\ IsFiniteSet(missing) /\ Cardinality(S) > 0
    <3>1. IsFiniteSet(0 .. Cardinality(S) - 1)
      BY <1>c, FS_Interval
    <3>2. QED
      BY <1>6, <1>c, <3>1, FS_Subset
  <2>2. PICK m \in missing : \A k \in missing : k <= m
    <3> HIDE DEF missing
    <3>1. QED
      BY <1>6, <2>1, Extremes
  <2>3. S # {}
    BY <2>1, FS_EmptySet
  <2>4. m # Cardinality(S) - 1
    BY <1>5, <2>3
  <2>5. m + 1 \in 0 .. Cardinality(S) - 1 /\ m + 1 \in Ranks(S, f)
    BY <1>c, <2>2, <2>4
  <2>6. PICK l \in S : rank(l) = m + 1
    BY <1>1, <2>5
  <2>7. m \in Ranks(S, f)
    <3>1. rank(l) # 0 /\ rank(l) - 1 = m
      BY <2>6
    <3>2. QED
      BY <1>4, <3>1
  <2>8. QED
    BY <2>7
<1>7. \A m \in Ranks(S, f) : m \in 0 .. Cardinality(S) - 1
  <2> HIDE DEF rank
  <2>1. QED
    BY <1>1, <1>3
<1>8. QED
  BY <1>6, <1>7

-----------------------------------------------------------------------------
(* Runs.                                                                   *)

\* A run, as its definition says.
LEMMA RunShape ==
    ASSUME NEW s, NEW gaps, NEW r \in Runs(s, gaps)
    PROVE  /\ r[1] \in Position /\ r[2] \in Position /\ r = <<r[1], r[2]>>
           /\ r[1] <= r[2]
           /\ \A i \in r[1] .. r[2] : s[i] = s[r[1]]
           /\ \A i \in r[1] + 1 .. r[2] : i \notin gaps
           /\ r[1] = 1 \/ s[r[1] - 1] # s[r[1]] \/ r[1] \in gaps
           /\ r[2] = N \/ s[r[2] + 1] # s[r[1]] \/ r[2] + 1 \in gaps
BY DEF Runs

\* A position is in no two runs.
LEMMA OneRun ==
    ASSUME NEW s, NEW gaps, NEW r \in Runs(s, gaps), NEW q \in Runs(s, gaps),
           NEW i \in Position, i \in r[1] .. r[2], i \in q[1] .. q[2]
    PROVE  r = q
<1>1. ASSUME NEW u \in Runs(s, gaps), NEW v \in Runs(s, gaps), i \in u[1] .. u[2], i \in v[1] .. v[2],
             u[1] < v[1]
      PROVE  FALSE
  <2>1. /\ u[1] \in 1 .. N /\ u[2] \in 1 .. N /\ v[1] \in 1 .. N /\ v[2] \in 1 .. N
        /\ \A j \in u[1] .. u[2] : s[j] = s[u[1]]
        /\ \A j \in u[1] + 1 .. u[2] : j \notin gaps
        /\ v[1] = 1 \/ s[v[1] - 1] # s[v[1]] \/ v[1] \in gaps
    BY RunShape DEF Position
  <2>2. v[1] \in u[1] + 1 .. u[2] /\ v[1] - 1 \in u[1] .. u[2] /\ v[1] \in u[1] .. u[2]
    BY <1>1, <2>1, SizeAssumption
  <2>3. s[v[1] - 1] = s[u[1]] /\ s[v[1]] = s[u[1]] /\ v[1] \notin gaps /\ v[1] # 1
    BY <1>1, <2>1, <2>2, SizeAssumption
  <2>4. QED
    BY <2>1, <2>3
<1>2. ASSUME NEW u \in Runs(s, gaps), NEW v \in Runs(s, gaps), i \in u[1] .. u[2], i \in v[1] .. v[2],
             u[1] = v[1], u[2] < v[2]
      PROVE  FALSE
  <2>1. /\ u[1] \in 1 .. N /\ u[2] \in 1 .. N /\ v[1] \in 1 .. N /\ v[2] \in 1 .. N
        /\ \A j \in v[1] .. v[2] : s[j] = s[v[1]]
        /\ \A j \in v[1] + 1 .. v[2] : j \notin gaps
        /\ u[2] = N \/ s[u[2] + 1] # s[u[1]] \/ u[2] + 1 \in gaps
    BY RunShape DEF Position
  <2>2. u[2] + 1 \in v[1] + 1 .. v[2] /\ u[2] + 1 \in v[1] .. v[2] /\ u[2] # N
    BY <1>2, <2>1, SizeAssumption
  <2>3. s[u[2] + 1] = s[v[1]] /\ u[2] + 1 \notin gaps
    BY <2>1, <2>2
  <2>4. QED
    BY <1>2, <2>1, <2>2, <2>3
<1>3. /\ r[1] \in 1 .. N /\ r[2] \in 1 .. N /\ q[1] \in 1 .. N /\ q[2] \in 1 .. N
      /\ r = <<r[1], r[2]>> /\ q = <<q[1], q[2]>>
  BY RunShape DEF Position
<1>4. r[1] = q[1]
  BY <1>1, <1>3, SizeAssumption
<1>5. r[2] = q[2]
  BY <1>2, <1>3, <1>4, SizeAssumption
<1>6. QED
  BY <1>3, <1>4, <1>5

\* Every position is in a run.
LEMMA SomeRun ==
    ASSUME NEW s, NEW gaps, NEW i \in Position
    PROVE  \E r \in Runs(s, gaps) : i \in r[1] .. r[2]
<1> DEFINE starts == {a \in 1 .. i : /\ \A j \in a .. i : s[j] = s[i]
                                     /\ \A j \in a + 1 .. i : j \notin gaps}
           ends == {b \in i .. N : /\ \A j \in i .. b : s[j] = s[i]
                                   /\ \A j \in i + 1 .. b : j \notin gaps}
<1>n. N \in Nat /\ i \in 1 .. N
  BY SizeAssumption DEF Position
<1>1. i \in starts /\ i \in ends
  BY <1>n
<1>f. IsFiniteSet(starts) /\ IsFiniteSet(ends)
  <2>1. IsFiniteSet(1 .. i) /\ IsFiniteSet(i .. N)
    BY <1>n, FS_Interval
  <2>2. QED
    BY <2>1, FS_Subset
<1>2. PICK a \in starts : \A k \in starts : a <= k
  <2>1. starts \subseteq Int
    BY <1>n
  <2> HIDE DEF starts
  <2>2. QED
    BY <1>1, <1>f, <2>1, Extremes
<1>3. PICK b \in ends : \A k \in ends : k <= b
  <2>1. ends \subseteq Int
    BY <1>n
  <2> HIDE DEF ends
  <2>2. QED
    BY <1>1, <1>f, <2>1, Extremes
<1>4. a \in 1 .. i /\ b \in i .. N /\ s[a] = s[i]
  BY <1>n, <1>2, <1>3
<1>5. \A j \in a .. b : s[j] = s[a]
  BY <1>n, <1>2, <1>3, <1>4
<1>6. \A j \in a + 1 .. b : j \notin gaps
  BY <1>n, <1>2, <1>3, <1>4
<1>7. a = 1 \/ s[a - 1] # s[a] \/ a \in gaps
  <2>1. SUFFICES ASSUME a # 1, s[a - 1] = s[a], a \notin gaps PROVE FALSE
    OBVIOUS
  <2>2. a - 1 \in 1 .. i
    BY <1>n, <1>4, <2>1
  <2>3. \A j \in a - 1 .. i : s[j] = s[i]
    BY <1>n, <1>2, <1>4, <2>1
  <2>4. \A j \in (a - 1) + 1 .. i : j \notin gaps
    BY <1>n, <1>2, <1>4, <2>1
  <2>5. QED
    BY <1>n, <1>2, <1>4, <2>2, <2>3, <2>4
<1>8. b = N \/ s[b + 1] # s[a] \/ b + 1 \in gaps
  <2>1. SUFFICES ASSUME b # N, s[b + 1] = s[a], b + 1 \notin gaps PROVE FALSE
    OBVIOUS
  <2>2. b + 1 \in i .. N
    BY <1>n, <1>4, <2>1
  <2>3. \A j \in i .. b + 1 : s[j] = s[i]
    BY <1>n, <1>3, <1>4, <2>1
  <2>4. \A j \in i + 1 .. b + 1 : j \notin gaps
    BY <1>n, <1>3, <1>4, <2>1
  <2>5. QED
    BY <1>n, <1>3, <1>4, <2>2, <2>3, <2>4
<1>9. <<a, b>> \in Runs(s, gaps)
  <2>1. <<a, b>> \in Position \X Position /\ a <= b
    BY <1>n, <1>4 DEF Position
  <2>2. QED
    BY <1>5, <1>6, <1>7, <1>8, <2>1 DEF Runs
<1>10. i \in a .. b
  BY <1>n, <1>4
<1>11. QED
  BY <1>9, <1>10

-----------------------------------------------------------------------------
(* The slots of assign_speaker_slots.                                      *)

\* What a function gives for the members of a finite set is finite, and no more.
LEMMA Images ==
    ASSUME NEW S, IsFiniteSet(S), NEW f, DOMAIN f = S
    PROVE  LET T == {f[x] : x \in S}
           IN  IsFiniteSet(T) /\ Cardinality(T) <= Cardinality(S)
<1> DEFINE T == {f[x] : x \in S}
<1>1. PICK g : g = [x \in S |-> f[x]]
  OBVIOUS
<1>2. g \in Surjection(S, T)
  BY <1>1 DEF Surjection
<1> HIDE DEF T
<1>3. QED
  BY <1>2, FS_Surjection DEF T

\* Slots are numbered from zero, the real ones first; every slot is the label of a segment,
\* and there are at least as many as there were labels.
LEMMA SlotsFilled ==
    ASSUME NEW s \in [Position -> Label \cup {NoLabel}], NEW gaps,
           NEW short \in SUBSET {r \in Runs(s, gaps) : s[r[1]] # NoLabel},
           NEW slots, slots = Slots(s, gaps, short)
    PROVE  /\ \A i \in Position : slots.labels[i] = NoLabel <=> s[i] = NoLabel
           /\ slots.real \cup slots.others \subseteq LabelsIn(slots.labels)
           /\ \E k, m \in Nat : /\ slots.real = 0 .. k - 1
                                /\ slots.others = k .. k + m - 1
                                /\ Cardinality(LabelsIn(s)) <= k + m
<1> DEFINE runs == {r \in Runs(s, gaps) : s[r[1]] # NoLabel}
           real == {s[r[1]] : r \in runs \ short}
           first(l) == CHOOSE i \in Position : s[i] = l /\ \A j \in 1 .. i - 1 : s[j] # l
           slotOfLabel(l) == Cardinality({k \in real : first(k) < first(l)})
           slotOfRun(r) == Cardinality(real) + Cardinality({q \in short : q[1] < r[1]})
           runOf(i) == CHOOSE r \in runs : i \in r[1] .. r[2]
           label(i) == IF s[i] = NoLabel THEN NoLabel
                       ELSE IF runOf(i) \in short THEN slotOfRun(runOf(i)) ELSE slotOfLabel(s[i])
<1>1. slots = [labels |-> [i \in Position |-> label(i)],
               real |-> {slotOfLabel(l) : l \in real},
               others |-> {slotOfRun(r) : r \in short}]
  BY DEF Slots
<1>2. /\ slots.labels = [i \in Position |-> label(i)]
      /\ slots.real = {slotOfLabel(l) : l \in real}
      /\ slots.others = {slotOfRun(r) : r \in short}
  <2> HIDE DEF label, slotOfLabel, slotOfRun, real
  <2>1. QED
    BY <1>1
<1>n. N \in Nat /\ Position = 1 .. N /\ NoLabel \notin Label /\ Label \subseteq Nat
  BY SizeAssumption DEF Position, Label, NoLabel
<1>3. runs \subseteq Runs(s, gaps) /\ short \subseteq runs
  OBVIOUS
<1>l. \A i \in Position : s[i] # NoLabel => \E r \in runs : i \in r[1] .. r[2]
  <2>1. SUFFICES ASSUME NEW i \in Position, s[i] # NoLabel PROVE \E r \in runs : i \in r[1] .. r[2]
    OBVIOUS
  <2>2. PICK r \in Runs(s, gaps) : i \in r[1] .. r[2]
    BY SomeRun
  <2>3. s[i] = s[r[1]]
    BY <2>2, RunShape
  <2>4. QED
    BY <2>1, <2>2, <2>3
<1>4. \A r \in runs : \A i \in r[1] .. r[2] : i \in Position /\ s[i] = s[r[1]] /\ runOf(i) = r
  <2>1. TAKE r \in runs
  <2>2. TAKE i \in r[1] .. r[2]
  <2>3. i \in Position /\ s[i] = s[r[1]]
    BY <1>n, <1>3, RunShape
  <2>4. runOf(i) \in runs /\ i \in runOf(i)[1] .. runOf(i)[2]
    BY <2>2
  <2>5. QED
    BY <1>3, <2>3, <2>4, OneRun
<1>5. \A r \in runs : r[1] \in Position /\ r[1] \in r[1] .. r[2] /\ r = <<r[1], r[2]>>
  BY <1>n, <1>3, RunShape
<1> HIDE DEF runOf
<1>f. IsFiniteSet(short) /\ IsFiniteSet(real)
  <2>1. IsFiniteSet(Position \X Position)
    <3>1. IsFiniteSet(Position)
      BY <1>n, FS_Interval
    <3>2. QED
      BY <3>1, FS_Product
  <2>2. runs \subseteq Position \X Position
    BY DEF Runs
  <2>3. IsFiniteSet(runs) /\ IsFiniteSet(runs \ short)
    BY <2>1, <2>2, FS_Subset
  <2>4. IsFiniteSet(short)
    BY <1>3, <2>3, FS_Subset
  <2>5. IsFiniteSet(real)
    <3>1. PICK f : f = [r \in runs \ short |-> s[r[1]]]
      OBVIOUS
    <3>2. DOMAIN f = runs \ short /\ real = {f[r] : r \in runs \ short}
      BY <3>1
    <3> HIDE DEF real, runs
    <3>3. QED
      BY <2>3, <3>2, Images
  <2>6. QED
    BY <2>4, <2>5
<1>c. Cardinality(short) \in Nat /\ Cardinality(real) \in Nat
  BY <1>f, FS_CardinalityType
\* The first position of a label.
<1>6. \A l \in real : first(l) \in Position /\ s[first(l)] = l
  <2>1. TAKE l \in real
  <2> DEFINE of == {i \in Position : s[i] = l}
  <2>2. of \subseteq Int /\ of # {}
    BY <1>n, <1>5
  <2>3. IsFiniteSet(of)
    BY <1>n, FS_Interval, FS_Subset
  <2>4. PICK a \in of : \A i \in of : a <= i
    BY <2>2, <2>3, Extremes
  <2>5. \A j \in 1 .. a - 1 : s[j] # l
    BY <1>n, <2>4
  <2>6. QED
    BY <2>4, <2>5
<1>7. slots.real = 0 .. Cardinality(real) - 1
  <2>1. PICK f : f = [l \in real |-> first(l)]
    OBVIOUS
  <2> DEFINE count(l) == Cardinality({k \in real : f[k] < f[l]})
  <2> HIDE DEF first, real
  <2>2. f \in [real -> Int] /\ \A k, l \in real : f[k] = f[l] => k = l
    BY <1>n, <1>6, <2>1
  <2>3. \A l \in real : slotOfLabel(l) = count(l)
    <3>1. TAKE l \in real
    <3>2. {k \in real : first(k) < first(l)} = {k \in real : f[k] < f[l]}
      BY <2>1
    <3>3. QED
      BY <3>2
  <2>4. Ranks(real, f) = {count(l) : l \in real}
    BY DEF Ranks
  <2> HIDE DEF slotOfLabel, count
  <2>5. slots.real = Ranks(real, f)
    BY <1>2, <2>3, <2>4
  <2>6. QED
    BY <1>f, <2>2, <2>5, Ranked
<1>8. slots.others = Cardinality(real) .. Cardinality(real) + Cardinality(short) - 1
  <2>1. PICK f : f = [r \in short |-> r[1]]
    OBVIOUS
  <2>2. f \in [short -> Int] /\ \A k, l \in short : f[k] = f[l] => k = l
    <3>1. \A r \in short : r[1] \in Position /\ r[1] \in r[1] .. r[2] /\ runOf(r[1]) = r
      BY <1>3, <1>4, <1>5
    <3>2. QED
      BY <1>n, <2>1, <3>1
  <2> DEFINE count(r) == Cardinality({q \in short : f[q] < f[r]})
  <2> HIDE DEF real
  <2>3. \A r \in short : slotOfRun(r) = Cardinality(real) + count(r)
    <3>1. TAKE r \in short
    <3>2. {q \in short : q[1] < r[1]} = {q \in short : f[q] < f[r]}
      BY <2>1
    <3>3. QED
      BY <3>2
  <2>4. Ranks(short, f) = 0 .. Cardinality(short) - 1
    BY <1>f, <2>2, Ranked
  <2>r. Ranks(short, f) = {count(r) : r \in short}
    BY DEF Ranks
  <2> HIDE DEF slotOfRun, count
  <2>5. slots.others = {Cardinality(real) + x : x \in Ranks(short, f)}
    BY <1>2, <2>3, <2>r
  <2>6. \A y \in Cardinality(real) .. Cardinality(real) + Cardinality(short) - 1 :
            y - Cardinality(real) \in Ranks(short, f) /\ y = Cardinality(real) + (y - Cardinality(real))
    BY <1>c, <2>4
  <2>7. \A x \in Ranks(short, f) :
            Cardinality(real) + x \in Cardinality(real) .. Cardinality(real) + Cardinality(short) - 1
    BY <1>c, <2>4
  <2> HIDE DEF Ranks
  <2>8. QED
    BY <2>5, <2>6, <2>7
<1> HIDE DEF slotOfLabel, slotOfRun, first
\* Every slot labels the segments of its run.
<1>9. \A i \in Position : s[i] # NoLabel => slots.labels[i] \in Nat
  <2>1. TAKE i \in Position
  <2>2. HAVE s[i] # NoLabel
  <2>3. PICK r \in runs : i \in r[1] .. r[2]
    BY <1>l, <2>2
  <2>4. runOf(i) = r /\ s[i] = s[r[1]]
    BY <1>4, <2>3
  <2>5. CASE r \in short
    <3>1. slots.labels[i] = slotOfRun(r)
      BY <1>2, <2>2, <2>4, <2>5
    <3>2. slots.labels[i] \in slots.others
      BY <1>2, <2>5, <3>1
    <3>3. QED
      BY <1>c, <1>8, <3>2
  <2>6. CASE r \notin short
    <3>1. slots.labels[i] = slotOfLabel(s[i])
      BY <1>2, <2>2, <2>4, <2>6
    <3>2. s[i] \in real
      BY <2>4, <2>6
    <3>3. slots.labels[i] \in slots.real
      BY <1>2, <3>1, <3>2
    <3>4. QED
      BY <1>c, <1>7, <3>3
  <2>7. QED
    BY <2>5, <2>6
<1>10. \A x \in slots.others : \E i \in Position : slots.labels[i] = x
  <2>1. TAKE x \in slots.others
  <2>2. PICK r \in short : x = slotOfRun(r)
    BY <1>2
  <2>3. r[1] \in Position /\ runOf(r[1]) = r /\ s[r[1]] # NoLabel
    BY <1>3, <1>4, <1>5
  <2>4. slots.labels[r[1]] = slotOfRun(r)
    BY <1>2, <2>2, <2>3
  <2>5. QED
    BY <2>2, <2>3, <2>4
<1>11. \A x \in slots.real : \E i \in Position : slots.labels[i] = x
  <2>1. TAKE x \in slots.real
  <2>2. PICK l \in real : x = slotOfLabel(l)
    BY <1>2
  <2>3. PICK r \in runs \ short : l = s[r[1]]
    BY <2>2
  <2>4. r[1] \in Position /\ runOf(r[1]) = r /\ s[r[1]] # NoLabel
    BY <1>4, <1>5, <2>3
  <2>5. slots.labels[r[1]] = slotOfLabel(l)
    BY <1>2, <2>3, <2>4
  <2>6. QED
    BY <2>2, <2>4, <2>5
\* Every label keeps its slot or has a short run.
<1>12. Cardinality(LabelsIn(s)) <= Cardinality(real) + Cardinality(short)
  <2> DEFINE rest == {s[r[1]] : r \in short}
  <2>1. IsFiniteSet(rest) /\ Cardinality(rest) <= Cardinality(short)
    <3>1. PICK f : f = [r \in short |-> s[r[1]]]
      OBVIOUS
    <3>2. DOMAIN f = short /\ rest = {f[r] : r \in short}
      BY <3>1
    <3> HIDE DEF rest
    <3>3. QED
      BY <1>f, <3>2, Images
  <2>2. LabelsIn(s) \subseteq real \cup rest
    <3>1. SUFFICES ASSUME NEW i \in Position, s[i] # NoLabel PROVE s[i] \in real \cup rest
      BY DEF LabelsIn
    <3>2. PICK r \in runs : i \in r[1] .. r[2]
      BY <1>l, <3>1
    <3>3. s[i] = s[r[1]]
      BY <1>4, <3>2
    <3>4. QED
      BY <3>2, <3>3
  <2> HIDE DEF rest, real
  <2>3. IsFiniteSet(real \cup rest)
        /\ Cardinality(real \cup rest) = Cardinality(real) + Cardinality(rest) - Cardinality(real \cap rest)
    BY <1>f, <2>1, FS_Union
  <2>4. IsFiniteSet(real \cap rest)
    BY <1>f, FS_Intersection
  <2>5. Cardinality(real \cap rest) \in Nat /\ Cardinality(rest) \in Nat /\ Cardinality(real \cup rest) \in Nat
    BY <2>1, <2>3, <2>4, FS_CardinalityType
  <2>6. Cardinality(LabelsIn(s)) <= Cardinality(real \cup rest) /\ Cardinality(LabelsIn(s)) \in Nat
    BY <2>2, <2>3, FS_Subset, FS_CardinalityType
  <2>7. QED
    BY <1>c, <2>1, <2>3, <2>5, <2>6
<1>13. slots.real \cup slots.others \subseteq LabelsIn(slots.labels)
  <2>1. slots.real \cup slots.others \subseteq Nat
    <3> HIDE DEF real
    <3>1. \A x \in slots.real : x \in Nat
      BY <1>c, <1>7
    <3>2. \A x \in slots.others : x \in Nat
      BY <1>c, <1>8
    <3>3. QED
      BY <3>1, <3>2
  <2>2. QED
    BY <1>10, <1>11, <2>1 DEF LabelsIn, NoLabel
<1>14. \A i \in Position : slots.labels[i] = NoLabel <=> s[i] = NoLabel
  <2>1. TAKE i \in Position
  <2>2. CASE s[i] = NoLabel
    BY <1>2, <2>2
  <2>3. CASE s[i] # NoLabel
    BY <1>9, <2>3 DEF NoLabel
  <2>4. QED
    BY <2>2, <2>3
<1> HIDE DEF real
<1>15. QED
  BY <1>c, <1>7, <1>8, <1>12, <1>13, <1>14

-----------------------------------------------------------------------------
(* Inferred names have segments.                                           *)

\* From diarization to the end of inference the segments have the labels it gave them.
FreshSegments == stage \in {"chunk", "infer", "read", "write"} => segs \in Episodes

\* A guess that is there while the episode is processed is older than that, and then its
\* label is one of labels without gaps, as inference leaves them.
RowsBefore ==
    stage # "idle" =>
        \A l \in DOMAIN rows : rows[l].confirmed \/ (NoGaps(segs) /\ l \in LabelsIn(segs))

\* What inference holds: a slot for every label, and names on slots only, or on the labels
\* the segments had when no slot is real.  Labels without gaps are all among the slots.
SlotsFound ==
    /\ infer.old = segs
    /\ \A p \in Position : infer.new[p] = NoLabel <=> segs[p] = NoLabel
    /\ infer.others \subseteq LabelsIn(infer.new)
    /\ DOMAIN infer.named \subseteq LabelsIn(infer.new) \cup spoken
    /\ NoGaps(segs) => LabelsIn(segs) \subseteq LabelsIn(infer.new)

PhantomsInv ==
    /\ FreshSegments \/ crossed
    /\ RowsBefore \/ crossed
    /\ stage \in {"read", "write"} => SlotsFound \/ crossed
    /\ NoPhantoms

\* The first so many of the numbers from zero, zero aside, are the numbers from one.
LEMMA FirstGuests ==
    ASSUME NEW k \in Nat, NEW g \in 0 .. Cardinality((0 .. k - 1) \ {0})
    PROVE  1 .. g \subseteq 0 .. k - 1
<1>1. (0 .. k - 1) \ {0} = 1 .. k - 1
  OBVIOUS
<1>2. Cardinality(1 .. k - 1) = IF 1 > k - 1 THEN 0 ELSE k - 1
  BY FS_Interval
<1>3. Cardinality((0 .. k - 1) \ {0}) = IF 1 > k - 1 THEN 0 ELSE k - 1
  BY <1>1, <1>2
<1>4. QED
  BY <1>3

\* What inference holds after it read the segments.
LEMMA LoadFinds ==
    ASSUME segs \in Episodes, InferLoad
    PROVE  SlotsFound'
<1> DEFINE guessed(slots) ==
           /\ spoken' = IF slots.real = {} THEN LabelsIn(segs) ELSE {}
           /\ LET open == IF slots.real # {} THEN slots.real ELSE Label
              IN  \E host \in {{}, {0} \cap open}, guests \in 0 .. Cardinality(open \ {0}) :
                  \E names \in [host \cup (1 .. guests) -> Guesses] :
                     infer' = [old |-> segs, new |-> slots.labels, others |-> slots.others,
                               named |-> IF slots.real # {} THEN names
                                         ELSE [l \in DOMAIN names \cap LabelsIn(segs) |-> names[l]],
                               base |-> << >>]
<1>1. PICK gaps : \E short \in SUBSET {r \in Runs(segs, gaps) : segs[r[1]] # NoLabel} :
                     guessed(Slots(segs, gaps, short))
  BY DEF InferLoad
<1>s. PICK short \in SUBSET {r \in Runs(segs, gaps) : segs[r[1]] # NoLabel} :
              guessed(Slots(segs, gaps, short))
  BY <1>1
<1>2. PICK slots : slots = Slots(segs, gaps, short) /\ guessed(slots)
  BY <1>s
<1> DEFINE open == IF slots.real # {} THEN slots.real ELSE Label
<1>3. PICK host \in {{}, {0} \cap open}, guests \in 0 .. Cardinality(open \ {0}) :
              \E names \in [host \cup (1 .. guests) -> Guesses] :
                 infer' = [old |-> segs, new |-> slots.labels, others |-> slots.others,
                           named |-> IF slots.real # {} THEN names
                                     ELSE [l \in DOMAIN names \cap LabelsIn(segs) |-> names[l]],
                           base |-> << >>]
  BY <1>2
<1>4. PICK names, named :
          /\ names \in [host \cup (1 .. guests) -> Guesses]
          /\ named = IF slots.real # {} THEN names
                     ELSE [l \in DOMAIN names \cap LabelsIn(segs) |-> names[l]]
          /\ infer' = [old |-> segs, new |-> slots.labels, others |-> slots.others,
                       named |-> named, base |-> << >>]
  BY <1>3
<1>5. segs \in [Position -> Label \cup {NoLabel}] /\ segs' = segs
  BY StartAssumption DEF InferLoad, dbVars
<1>6. /\ \A i \in Position : slots.labels[i] = NoLabel <=> segs[i] = NoLabel
      /\ slots.real \cup slots.others \subseteq LabelsIn(slots.labels)
      /\ \E k, m \in Nat : /\ slots.real = 0 .. k - 1
                           /\ slots.others = k .. k + m - 1
                           /\ Cardinality(LabelsIn(segs)) <= k + m
  <2>1. segs \in [Position -> Label \cup {NoLabel}] /\ short \in SUBSET {r \in Runs(segs, gaps) : segs[r[1]] # NoLabel}
        /\ slots = Slots(segs, gaps, short)
    BY <1>2, <1>5
  <2> HIDE DEF guessed
  <2>2. QED
    BY <2>1, SlotsFilled
<1>7. PICK k \in Nat, m \in Nat : /\ slots.real = 0 .. k - 1
                                  /\ slots.others = k .. k + m - 1
                                  /\ Cardinality(LabelsIn(segs)) <= k + m
  BY <1>6
<1>8. IsFiniteSet(LabelsIn(segs))
  <2>1. IsFiniteSet(Label)
    BY SizeAssumption, FS_Interval DEF Label
  <2>2. LabelsIn(segs) \subseteq Label
    BY <1>5 DEF LabelsIn
  <2>3. QED
    BY <2>1, <2>2, FS_Subset
\* If labels have no gaps, the slots, as many or more, are all of them.
<1>9. NoGaps(segs) => LabelsIn(segs) \subseteq LabelsIn(slots.labels)
  <2>1. SUFFICES ASSUME NoGaps(segs), NEW l \in LabelsIn(segs) PROVE l \in LabelsIn(slots.labels)
    OBVIOUS
  <2>2. l \in Nat
    BY <1>5, SizeAssumption DEF LabelsIn, Label
  <2>3. 0 .. l \subseteq LabelsIn(segs)
    BY <2>1 DEF NoGaps
  <2>4. Cardinality(0 .. l) = l + 1
    BY <2>2, FS_Interval
  <2>5. l + 1 <= k + m
    <3>1. Cardinality(0 .. l) <= Cardinality(LabelsIn(segs))
      BY <1>8, <2>3, FS_Subset
    <3>2. Cardinality(LabelsIn(segs)) \in Nat
      BY <1>8, FS_CardinalityType
    <3>3. QED
      BY <1>7, <2>2, <2>4, <3>1, <3>2
  <2>6. l \in slots.real \cup slots.others
    BY <1>7, <2>2, <2>5
  <2>7. QED
    BY <1>6, <2>6
<1>10. DOMAIN named \subseteq LabelsIn(slots.labels) \cup spoken'
  <2>1. CASE slots.real = {}
    BY <1>2, <1>4, <2>1
  <2>2. CASE slots.real # {}
    <3>1. named = names /\ open = 0 .. k - 1
      BY <1>4, <1>7, <2>2
    <3>2. host \subseteq 0 .. k - 1 /\ 1 .. guests \subseteq 0 .. k - 1
      BY <3>1, FirstGuests
    <3>3. QED
      BY <1>4, <1>6, <1>7, <3>1, <3>2
  <2>3. QED
    BY <2>1, <2>2
<1>11. /\ infer'.old = segs /\ infer'.new = slots.labels
       /\ infer'.others = slots.others /\ infer'.named = named
  BY <1>4
<1> HIDE DEF guessed
<1>12. QED
  BY <1>5, <1>6, <1>9, <1>10, <1>11 DEF SlotsFound

\* The commit relabels the segments and puts names on the new labels only.
LEMMA CommitNoPhantoms ==
    ASSUME RowsShaped, RowsBefore, SlotsFound, InferCommit
    PROVE  NoPhantoms'
<1>1. /\ DOMAIN rows' = DOMAIN rows \cup Inserted
      /\ \A l \in DOMAIN rows' :
            rows'[l] = IF l \in Inserted \cup Updated THEN InferredRow(l) ELSE rows[l]
      /\ ~Overtaken
      /\ segs' = [i \in Position |->
                    IF infer.new[i] \notin {NoLabel, infer.old[i]} THEN infer.new[i] ELSE segs[i]]
      /\ stage = "write" /\ spoken' = spoken
  BY DEF InferCommit, history
<1>2. \A i \in Position : segs'[i] = infer.new[i]
  BY <1>1 DEF SlotsFound
<1>3. LabelsIn(segs') = LabelsIn(infer.new)
  BY <1>2 DEF LabelsIn
<1>4. \A l \in Inserted \cup Updated : InferredRow(l).confirmed \/ l \notin DOMAIN rows \/ ~rows[l].confirmed
  BY <1>1, InferredKeeps
<1>5. Inserted \subseteq DOMAIN infer.named \cup infer.others
  BY DEF Inserted, NamedRows, OtherRows, Writable
<1> HIDE DEF Inserted, Updated, InferredRow
<1>6. ASSUME NEW l \in DOMAIN rows', ~rows'[l].confirmed PROVE l \in LabelsIn(infer.new) \cup spoken
  <2>1. CASE l \in Inserted
    BY <1>5, <2>1 DEF SlotsFound
  <2>2. CASE l \notin Inserted
    <3>1. l \in DOMAIN rows /\ ~rows[l].confirmed
      BY <1>1, <1>4, <1>6, <2>2
    <3>2. QED
      BY <1>1, <3>1 DEF RowsBefore, SlotsFound
  <2>3. QED
    BY <2>1, <2>2
<1>7. QED
  BY <1>1, <1>3, <1>6 DEF NoPhantoms

\* No transaction of the server takes the segments from a guess.
LEMMA TransactionNoPhantoms ==
    ASSUME PhantomsInv, Transaction, UNCHANGED pipeVars
    PROVE  PhantomsInv'
<1>1. stage' = stage /\ infer' = infer
  BY DEF pipeVars
<1>2. CASE \E l, n, b, r : PutName(l, n, b, r) /\ Asked(l, n)
  <2>1. PICK l, n, b, r : PutName(l, n, b, r)
    BY <1>2
  <2>2. PICK row : rows' = Put(rows, l, row) /\ row.confirmed
    BY <2>1 DEF PutName
  <2>3. /\ DOMAIN rows' = DOMAIN rows \cup {l} /\ rows'[l] = row
        /\ \A k \in DOMAIN rows \ {l} : rows'[k] = rows[k]
    BY <2>2 DEF Put
  <2>4. segs' = segs /\ crossed' = crossed /\ spoken' = spoken
    BY <2>1 DEF PutName
  <2>5. NoPhantoms' /\ (RowsBefore => RowsBefore')
    BY <1>1, <2>2, <2>3, <2>4 DEF PhantomsInv, NoPhantoms, RowsBefore
  <2>6. QED
    BY <1>1, <2>4, <2>5 DEF PhantomsInv, FreshSegments, SlotsFound
<1>3. CASE \E s, l : MergeLabels(s, l)
  <2>1. PICK s, l : MergeLabels(s, l)
    BY <1>3
  <2>2. /\ s \cup {l} \subseteq LabelsIn(segs) /\ l \notin s
        /\ segs' = [i \in Position |-> IF segs[i] \in s THEN l ELSE segs[i]]
        /\ rows' = [k \in DOMAIN rows \ s |-> rows[k]]
        /\ crossed' = (crossed \/ stage # "idle") /\ spoken' = spoken
    BY <2>1 DEF MergeLabels, Mergeable, ValidMerge, Without
  <2>3. LabelsIn(segs) \ s \subseteq LabelsIn(segs')
    BY <2>2 DEF LabelsIn
  <2>4. NoPhantoms'
    BY <2>2, <2>3 DEF PhantomsInv, NoPhantoms
  <2>5. ~crossed' => stage' = "idle"
    BY <1>1, <2>2
  <2>6. QED
    BY <2>4, <2>5 DEF PhantomsInv, FreshSegments, RowsBefore
<1>4. CASE \E l : DropName(l)
  <2>1. PICK l : DropName(l)
    BY <1>4
  <2>2. rows' = [k \in DOMAIN rows \ {l} |-> rows[k]] /\ UNCHANGED <<segs, crossed, spoken>>
    BY <2>1 DEF DropName, Without, history
  <2>3. NoPhantoms' /\ (RowsBefore => RowsBefore')
    BY <1>1, <2>2 DEF PhantomsInv, NoPhantoms, RowsBefore
  <2>4. QED
    BY <1>1, <2>2, <2>3 DEF PhantomsInv, FreshSegments, SlotsFound
<1>5. QED
  BY <1>2, <1>3, <1>4 DEF Transaction

\* Nor does a step of the pipeline.
LEMMA PipelineNoPhantoms ==
    ASSUME RowsShaped, PhantomsInv, Pipeline
    PROVE  PhantomsInv'
<1>r. ASSUME rows' = Reset(rows) PROVE NoPhantoms' /\ RowsBefore'
  <2>1. \A l \in DOMAIN rows' : rows'[l].confirmed
    <3>1. TAKE l \in DOMAIN rows'
    <3>2. l \in DOMAIN rows /\ rows[l].confirmed /\ rows'[l] = [rows[l] EXCEPT !.review = TRUE]
      BY <1>r DEF Reset
    <3>3. QED
      BY <3>2 DEF RowsShaped, RowShaped
  <2>2. QED
    BY <2>1 DEF NoPhantoms, RowsBefore
<1>1. CASE Transcribe
  <2>1. rows' = Reset(rows) /\ stage' = "diarize"
    BY <1>1 DEF Transcribe
  <2>2. QED
    BY <1>r, <2>1 DEF PhantomsInv, FreshSegments
<1>2. CASE Diarize
  <2>1. rows' = Reset(rows) /\ stage' = "chunk" /\ segs' \in Episodes
    BY <1>2 DEF Diarize
  <2>2. QED
    BY <1>r, <2>1 DEF PhantomsInv, FreshSegments
<1>3. CASE DiarizeFails
  <2>1. stage = "diarize" /\ stage' = "plain" /\ UNCHANGED <<segs, crossed, spoken>>
    BY <1>3 DEF DiarizeFails
  <2>2. NoPhantoms' /\ (RowsBefore => RowsBefore')
    <3>1. CASE rows' = rows
      BY <2>1, <3>1 DEF PhantomsInv, NoPhantoms, RowsBefore
    <3>2. CASE rows' = Reset(rows)
      BY <1>r, <3>2
    <3>3. QED
      BY <1>3, <3>1, <3>2 DEF DiarizeFails
  <2>3. QED
    BY <2>1, <2>2 DEF PhantomsInv, FreshSegments
<1>4. CASE DiarizeAgain \/ Chunk
  <2>1. /\ stage \in {"chunk", "plain"} /\ stage' \in {"diarize", "infer", "idle"}
        /\ stage' = "infer" => stage = "chunk"
        /\ UNCHANGED <<segs, rows, crossed, spoken>>
    BY <1>4 DEF DiarizeAgain, Chunk, dbVars, history
  <2>2. NoPhantoms' /\ (RowsBefore => RowsBefore') /\ (FreshSegments => FreshSegments')
    BY <2>1 DEF PhantomsInv, NoPhantoms, RowsBefore, FreshSegments
  <2>3. QED
    BY <2>1, <2>2 DEF PhantomsInv
<1>5. CASE InferLoad
  <2>1. stage = "infer" /\ stage' = "read" /\ UNCHANGED <<segs, rows, crossed>>
    BY <1>5 DEF InferLoad, dbVars
  <2>2. FreshSegments => SlotsFound'
    BY <1>5, <2>1, LoadFinds DEF FreshSegments
  <2>3. RowsBefore => RowsBefore' /\ NoPhantoms'
    BY <2>1 DEF RowsBefore, NoPhantoms
  <2>4. (FreshSegments => FreshSegments') /\ (crossed => NoPhantoms')
    BY <2>1 DEF FreshSegments, NoPhantoms
  <2>5. QED
    BY <2>1, <2>2, <2>3, <2>4 DEF PhantomsInv
<1>6. CASE InferRead
  <2>1. stage = "read" /\ stage' = "write" /\ UNCHANGED <<segs, rows, crossed, spoken>>
        /\ infer' = [infer EXCEPT !.base = rows]
    BY <1>6 DEF InferRead, dbVars, history
  <2>2. infer'.old = infer.old /\ infer'.new = infer.new /\ infer'.named = infer.named
        /\ infer'.others = infer.others
    BY <2>1
  <2>3. SlotsFound => SlotsFound'
    BY <2>1, <2>2 DEF SlotsFound
  <2>4. NoPhantoms' /\ (RowsBefore => RowsBefore') /\ (FreshSegments => FreshSegments')
    BY <2>1 DEF PhantomsInv, NoPhantoms, RowsBefore, FreshSegments
  <2>5. QED
    BY <2>1, <2>3, <2>4 DEF PhantomsInv
<1>7. CASE InferCommit
  <2>1. stage = "write" /\ stage' = "idle" /\ crossed' = crossed
    BY <1>7 DEF InferCommit, history
  <2>2. NoPhantoms'
    <3>1. CASE crossed
      BY <2>1, <3>1 DEF NoPhantoms
    <3>2. CASE ~crossed
      BY <1>7, <2>1, <3>2, CommitNoPhantoms DEF PhantomsInv
    <3>3. QED
      BY <3>1, <3>2
  <2>3. QED
    BY <2>1, <2>2 DEF PhantomsInv, FreshSegments, RowsBefore
<1>8. CASE InferFails
  <2>1. stage \in {"read", "write"} /\ stage' = "idle" /\ UNCHANGED <<segs, rows, crossed>>
    BY <1>8 DEF InferFails, dbVars
  <2>2. NoPhantoms'
    BY <2>1 DEF PhantomsInv, RowsBefore, NoPhantoms
  <2>3. QED
    BY <2>1, <2>2 DEF PhantomsInv, FreshSegments, RowsBefore
<1>9. QED
  BY <1>1, <1>2, <1>3, <1>4, <1>5, <1>6, <1>7, <1>8 DEF Pipeline

\* Every step keeps it.
LEMMA PhantomsStep == ASSUME NamesInv, PhantomsInv, [Next]_vars PROVE PhantomsInv'
<1>u. ASSUME UNCHANGED nameVars PROVE PhantomsInv'
  <2>1. UNCHANGED <<segs, rows, stage, infer, crossed, spoken>>
    BY <1>u DEF nameVars, dbVars, pipeVars, history
  <2>2. NoPhantoms' /\ (RowsBefore => RowsBefore')
    BY <2>1 DEF PhantomsInv, NoPhantoms, RowsBefore
  <2>3. (FreshSegments => FreshSegments') /\ (SlotsFound => SlotsFound')
    BY <2>1 DEF FreshSegments, SlotsFound
  <2>4. QED
    BY <2>1, <2>2, <2>3 DEF PhantomsInv
<1>1. CASE User
  BY <1>1, <1>u, UserNames DEF NamesInv
<1>2. CASE Network
  BY <1>2, <1>u, NetworkNames, TransactionNoPhantoms DEF NamesInv
<1>3. CASE PipelineStep
  BY <1>3, PipelineNoPhantoms DEF PipelineStep, NamesInv
<1>4. CASE UNCHANGED vars
  BY <1>4, <1>u DEF vars
<1>5. QED
  BY <1>1, <1>2, <1>3, <1>4 DEF Next

\* The first page has it.
LEMMA PhantomsInit == PanelInit => PhantomsInv
<1> SUFFICES ASSUME PanelInit PROVE PhantomsInv
  OBVIOUS
<1>1. /\ segs \in Episodes /\ stage \in {"idle", "infer"}
      /\ \/ rows = << >>
         \/ rows \in [Carried -> Confirmed]
         \/ (stage = "idle" \/ NoGaps(segs)) /\ rows \in [LabelsIn(segs) -> Guessed]
  BY DEF PanelInit, Init
<1>2. \A l \in DOMAIN rows :
        rows[l].confirmed \/ ((stage = "idle" \/ NoGaps(segs)) /\ l \in LabelsIn(segs))
  <2>1. CASE rows \in [Carried -> Confirmed]
    BY <2>1 DEF Confirmed
  <2>2. CASE (stage = "idle" \/ NoGaps(segs)) /\ rows \in [LabelsIn(segs) -> Guessed]
    BY <2>2
  <2>3. CASE rows = << >>
    BY <2>3
  <2>4. QED
    BY <1>1, <2>1, <2>2, <2>3
<1>3. QED
  BY <1>1, <1>2 DEF PhantomsInv, FreshSegments, RowsBefore, NoPhantoms

\* No inferred name belongs to a label nobody speaks under, whatever runs are short, however
\* the labels are renumbered, with gaps between them or segments without one, and
\* whichever names are saved or dismissed meanwhile (services/inference.py:
\* assign_speaker_slots; inference_db.py: write_speaker_names).  The exceptions are a merge
\* between the rebuild and the end of inference, and an episode whose every run is short:
\* its names may be on the labels the segments had.
THEOREM NamesHaveSegments == Spec => []NoPhantoms
<1>1. PhantomsInv => NoPhantoms
  BY DEF PhantomsInv
<1>2. QED
  BY <1>1, NamesInit, NamesStep, PhantomsInit, PhantomsStep, PTL DEF Spec

-----------------------------------------------------------------------------
(* The page follows the rows.                                              *)

Naming == {"name", "role"}

\* Requests that were carried out and not answered yet.
Done(kinds) == {q \in net : q.state = "ok" /\ q.kind \in kinds}
\* Labels that are gone from the segments and not yet from the page.
Moving == UNION {q.sources : q \in Done({"merge"})}

\* What a reload would show for a label.
NameIn(l) == IF l \in DOMAIN rows THEN rows[l].name ELSE Blank
ReviewIn(l) == IF l \in DOMAIN rows THEN rows[l].review ELSE FALSE

\* A shown segment fits a name and a review mark; the page may not know that a label was
\* saved as its own name, nor the mark of a label without a name.
Fits(v, n, b) ==
    \/ v.name # Blank /\ n = v.name /\ v.review = b
    \/ v.name = Blank /\ n = Blank
    \/ v.name = Blank /\ n = OwnLabel /\ b = FALSE /\ v.review = FALSE

Says(a, n) == a = n \/ (a = Blank /\ n = OwnLabel)

\* One request that names a label at a time, and one merge.
OneEach ==
    \A p, q \in net :
        /\ p.kind \in Naming /\ q.kind \in Naming /\ p.label = q.label => p = q
        /\ p.kind = "merge" /\ q.kind = "merge" => p = q

\* The card of a label that is being named says so, as long as it is shown.
CardsHeld ==
    \A q \in net : /\ q.kind = "name" => card[q.label].saving \/ ~Card(q.label)
                   /\ q.kind = "role" => card[q.label].savingRole \/ ~Card(q.label)

\* A role comes with the name the page shows.
NamesAgree ==
    \A q \in net :
        /\ q.kind \in Naming => q.name # Blank
        /\ q.kind = "role" => \A i \in Position : view.segs[i].label = q.label =>
                                                    Says(view.segs[i].name, q.name)

\* The page still shows the target of a merge it has yet to hear of.
TargetShown == \A q \in Done({"merge"}) : Card(q.label) /\ q.label \notin q.sources

\* A speaker has one name.
OneName ==
    \A i, j \in Position :
        view.segs[i].label = view.segs[j].label => view.segs[i].name = view.segs[j].name

\* A segment on the page has the label and the row it should have, up to the requests
\* it has yet to hear of.
InPlace(i) ==
    LET v == view.segs[i]
        named == {q \in Done(Naming) : q.label = v.label}
    IN  /\ v.label \in Moving => \E q \in Done({"merge"}) : segs[i] = q.label
        /\ v.label \notin Moving =>
              /\ segs[i] = v.label
              /\ \A q \in named : NameIn(v.label) = q.name /\ ReviewIn(v.label) = FALSE
              /\ named = {} => Fits(v, NameIn(v.label), ReviewIn(v.label))

Following ==
    /\ \A q \in net : q.live
    /\ OneEach /\ CardsHeld /\ NamesAgree /\ TargetShown /\ OneName
    /\ \A i \in Position : InPlace(i)

SegmentFields == {"label", "name", "inferred", "confirmed", "role", "review"}
ViewShaped ==
    /\ DOMAIN view = {"segs", "unmatched", "active"}
    /\ DOMAIN view.segs = Position
    /\ \A i \in Position : DOMAIN view.segs[i] = SegmentFields

FollowInv == ViewShaped /\ (~astray => Following)

\* What the join gives for a segment.
LEMMA Joined ==
    ASSUME NEW i \in Position
    PROVE  /\ DOMAIN GetSegments = Position
           /\ DOMAIN GetSegments[i] = SegmentFields
           /\ GetSegments[i].label = segs[i]
           /\ GetSegments[i].name = NameIn(segs[i])
           /\ GetSegments[i].review = ReviewIn(segs[i])
BY DEF GetSegments, NameIn, ReviewIn, SegmentFields

\* A page that was just loaded follows.
LEMMA LoadedFollows ==
    ASSUME NEW s, s = GetSegments
    PROVE  /\ DOMAIN s = Position
           /\ \A i \in Position : /\ DOMAIN s[i] = SegmentFields
                                  /\ s[i].label = segs[i]
                                  /\ Fits(s[i], NameIn(segs[i]), ReviewIn(segs[i]))
           /\ \A i, j \in Position : s[i].label = s[j].label => s[i].name = s[j].name
<1>1. DOMAIN s = Position
  BY DEF GetSegments
<1>2. \A i \in Position : /\ DOMAIN s[i] = SegmentFields
                          /\ s[i].label = segs[i]
                          /\ s[i].name = NameIn(segs[i])
                          /\ s[i].review = ReviewIn(segs[i])
  BY Joined
<1>3. QED
  BY <1>1, <1>2 DEF Fits

\* With no request under way, that is all there is to follow.
LEMMA QuietFollows ==
    ASSUME net = {}, \A i \in Position : /\ view.segs[i].label = segs[i]
                                         /\ Fits(view.segs[i], NameIn(segs[i]), ReviewIn(segs[i])),
           OneName
    PROVE  Following
<1>1. Moving = {} /\ \A K : Done(K) = {}
  BY DEF Moving, Done
<1>2. \A i \in Position : InPlace(i)
  BY <1>1 DEF InPlace
<1>3. QED
  BY <1>1, <1>2 DEF Following, OneEach, CardsHeld, NamesAgree, TargetShown

\* Nothing moves while the rows, the page and the requests that were carried out stay.
LEMMA SameFollowing ==
    ASSUME Following, UNCHANGED <<segs, rows>>, view'.segs = view.segs,
           \A q : q.state = "ok" => (q \in net <=> q \in net')
    PROVE  TargetShown' /\ OneName' /\ \A i \in Position : InPlace(i)'
<1>1. \A K : Done(K)' = Done(K)
  BY DEF Done
<1>2. Moving' = Moving
  BY <1>1 DEF Moving
<1>3. \A l : NameIn(l)' = NameIn(l) /\ ReviewIn(l)' = ReviewIn(l) /\ Card(l)' = Card(l)
  BY DEF NameIn, ReviewIn, Card
<1>4. TargetShown' /\ OneName'
  BY <1>1, <1>3 DEF Following, TargetShown, OneName
<1>5. ASSUME NEW i \in Position PROVE InPlace(i)'
  <2>1. InPlace(i)
    BY DEF Following
  <2>2. QED
    BY <1>1, <1>2, <1>3, <2>1 DEF InPlace, Fits
<1>6. QED
  BY <1>4, <1>5

\* A request that is sent.
LEMMA SendFollows ==
    ASSUME Following, NEW q, net' = net \cup {q}, UNCHANGED nameVars, view' = view,
           q.state = "sent", q.live,
           q.kind \in Naming => /\ q.name # Blank
                                /\ \A p \in net : p.kind \in Naming => p.label # q.label,
           q.kind = "merge" => \A p \in net : p.kind # "merge",
           q.kind = "role" => \A i \in Position : view.segs[i].label = q.label =>
                                                    Says(view.segs[i].name, q.name),
           q.kind = "name" => card'[q.label].saving,
           q.kind = "role" => card'[q.label].savingRole,
           \A l \in Label : /\ card[l].saving => card'[l].saving
                            /\ card[l].savingRole => card'[l].savingRole,
           \A p \in net : p.label \in Label
    PROVE  Following'
<1>1. UNCHANGED <<segs, rows>>
  BY DEF nameVars, dbVars
<1>2. TargetShown' /\ OneName' /\ \A i \in Position : InPlace(i)'
  BY <1>1, SameFollowing
<1>o. OneEach /\ CardsHeld /\ NamesAgree
  BY DEF Following
<1>3. OneEach'
  <2>1. SUFFICES ASSUME NEW a \in net', NEW b \in net'
                 PROVE  /\ a.kind \in Naming /\ b.kind \in Naming /\ a.label = b.label => a = b
                        /\ a.kind = "merge" /\ b.kind = "merge" => a = b
    BY DEF OneEach
  <2>2. CASE a \in net /\ b \in net
    BY <1>o, <2>2 DEF OneEach
  <2>3. CASE a = q \/ b = q
    BY <2>3
  <2>4. QED
    BY <2>2, <2>3
<1>4. CardsHeld'
  <2>1. SUFFICES ASSUME NEW a \in net'
                 PROVE  /\ a.kind = "name" => card'[a.label].saving \/ ~Card(a.label)'
                        /\ a.kind = "role" => card'[a.label].savingRole \/ ~Card(a.label)'
    BY DEF CardsHeld
  <2>2. Card(a.label)' = Card(a.label)
    BY DEF Card
  <2>3. CASE a \in net
    BY <1>o, <2>2, <2>3 DEF CardsHeld
  <2>4. CASE a = q
    BY <2>4
  <2>5. QED
    BY <2>3, <2>4
<1>5. NamesAgree'
  <2>1. SUFFICES ASSUME NEW a \in net'
                 PROVE  /\ a.kind \in Naming => a.name # Blank
                        /\ a.kind = "role" => \A i \in Position : view'.segs[i].label = a.label =>
                                                                  Says(view'.segs[i].name, a.name)
    BY DEF NamesAgree
  <2>2. CASE a \in net
    BY <1>o, <2>2 DEF NamesAgree
  <2>3. CASE a = q
    BY <2>3
  <2>4. QED
    BY <2>2, <2>3
<1>6. QED
  BY <1>2, <1>3, <1>4, <1>5 DEF Following

\* A request that the server carried out or refused, as far as the page goes.
LEMMA ServedFollows ==
    ASSUME Following, NEW q \in net, NEW p,
           p.live = q.live, p.kind = q.kind, p.label = q.label, p.name = q.name,
           net' = (net \ {q}) \cup {p}, UNCHANGED <<view, card>>
    PROVE  /\ \A r \in net' : r.live
           /\ OneEach' /\ CardsHeld' /\ NamesAgree' /\ OneName'
<1>o. OneEach /\ CardsHeld /\ NamesAgree /\ OneName /\ \A r \in net : r.live
  BY DEF Following
\* Whatever is under way now was before, as far as these facts go.
<1>w. \A r \in net' : \E x \in net :
          /\ r.kind = x.kind /\ r.label = x.label /\ r.name = x.name
          /\ x = q => r = p
          /\ x # q => r = x
  <2>1. TAKE r \in net'
  <2>2. CASE r = p
    BY <2>2
  <2>3. CASE r # p
    <3>1. r \in net /\ r # q
      BY <2>3
    <3>2. QED
      BY <3>1
  <2>4. QED
    BY <2>2, <2>3
<1>l. \A r \in net' : r.live
  BY <1>o
<1>2. OneEach'
  <2>1. SUFFICES ASSUME NEW a \in net', NEW b \in net'
                 PROVE  /\ a.kind \in Naming /\ b.kind \in Naming /\ a.label = b.label => a = b
                        /\ a.kind = "merge" /\ b.kind = "merge" => a = b
    BY DEF OneEach
  <2>2. PICK x \in net : a.kind = x.kind /\ a.label = x.label /\ (x = q => a = p) /\ (x # q => a = x)
    BY <1>w
  <2>3. PICK y \in net : b.kind = y.kind /\ b.label = y.label /\ (y = q => b = p) /\ (y # q => b = y)
    BY <1>w
  <2>4. /\ x.kind \in Naming /\ y.kind \in Naming /\ x.label = y.label => x = y
        /\ x.kind = "merge" /\ y.kind = "merge" => x = y
    BY <1>o DEF OneEach
  <2>5. x = y => a = b
    BY <2>2, <2>3
  <2>6. QED
    BY <2>2, <2>3, <2>4, <2>5
<1>3. CardsHeld'
  <2>1. SUFFICES ASSUME NEW a \in net'
                 PROVE  /\ a.kind = "name" => card'[a.label].saving \/ ~Card(a.label)'
                        /\ a.kind = "role" => card'[a.label].savingRole \/ ~Card(a.label)'
    BY DEF CardsHeld
  <2>2. Card(a.label)' = Card(a.label) /\ card' = card
    BY DEF Card
  <2>3. PICK x \in net : a.kind = x.kind /\ a.label = x.label
    BY <1>w
  <2>4. /\ x.kind = "name" => card[x.label].saving \/ ~Card(x.label)
        /\ x.kind = "role" => card[x.label].savingRole \/ ~Card(x.label)
    BY <1>o DEF CardsHeld
  <2>5. QED
    BY <2>2, <2>3, <2>4
<1>4. NamesAgree'
  <2>1. SUFFICES ASSUME NEW a \in net'
                 PROVE  /\ a.kind \in Naming => a.name # Blank
                        /\ a.kind = "role" => \A i \in Position : view'.segs[i].label = a.label =>
                                                                  Says(view'.segs[i].name, a.name)
    BY DEF NamesAgree
  <2>2. PICK x \in net : a.kind = x.kind /\ a.label = x.label /\ a.name = x.name
    BY <1>w
  <2>3. /\ x.kind \in Naming => x.name # Blank
        /\ x.kind = "role" => \A i \in Position : view.segs[i].label = x.label =>
                                                  Says(view.segs[i].name, x.name)
    BY <1>o DEF NamesAgree
  <2>4. QED
    BY <2>2, <2>3
<1>5. OneName'
  BY <1>o DEF OneName
<1>6. QED
  BY <1>l, <1>2, <1>3, <1>4, <1>5

-----------------------------------------------------------------------------
(* Requests carried out by the server.                                     *)

\* A name or a role reached the rows: the page is to hear of it.
LEMMA NamingFollows ==
    ASSUME Following, NEW q \in net, q.state = "sent", q.kind \in Naming,
           NEW p, p.state = "ok", p.live = q.live, p.kind = q.kind, p.label = q.label, p.name = q.name,
           net' = (net \ {q}) \cup {p}, UNCHANGED <<view, card, segs>>,
           NEW row, rows' = Put(rows, q.label, row), row.name = q.name, row.review = FALSE
    PROVE  Following'
<1>1. (\A r \in net' : r.live) /\ OneEach' /\ CardsHeld' /\ NamesAgree' /\ OneName'
  BY ServedFollows
<1>2. Done({"merge"})' = Done({"merge"}) /\ Done(Naming)' = Done(Naming) \cup {p}
  BY DEF Done, Naming
<1>3. Moving' = Moving
  BY <1>2 DEF Moving
<1>4. /\ NameIn(q.label)' = q.name /\ ReviewIn(q.label)' = FALSE
      /\ \A l : l # q.label => NameIn(l)' = NameIn(l) /\ ReviewIn(l)' = ReviewIn(l)
  BY DEF Put, NameIn, ReviewIn
<1>5. TargetShown'
  BY <1>2 DEF Following, TargetShown, Card
<1>6. ASSUME NEW i \in Position PROVE InPlace(i)'
  <2> DEFINE l == view.segs[i].label
  <2>1. InPlace(i)
    BY DEF Following
  <2>2. l \in Moving => \E r \in Done({"merge"}) : segs[i] = r.label
    BY <2>1 DEF InPlace
  <2>3. CASE l = q.label
    <3>1. \A r \in Done(Naming)' : r.label = l => r = p
      <4>1. OneEach' /\ p \in net' /\ p.label = l /\ p.kind \in Naming
        BY <1>1, <2>3
      <4>2. QED
        BY <4>1 DEF OneEach, Done
    <3>2. p \in Done(Naming)'
      BY <1>2
    <3>3. l \notin Moving => segs[i] = l
      BY <2>1 DEF InPlace
    <3>4. QED
      BY <1>2, <1>3, <1>4, <2>2, <2>3, <3>1, <3>2, <3>3 DEF InPlace
  <2>4. CASE l # q.label
    <3>1. {r \in Done(Naming)' : r.label = l} = {r \in Done(Naming) : r.label = l}
      BY <1>2, <2>4
    <3>2. NameIn(l)' = NameIn(l) /\ ReviewIn(l)' = ReviewIn(l)
      BY <1>4, <2>4
    <3>3. l \notin Moving =>
              /\ segs[i] = l
              /\ \A r \in Done(Naming) : r.label = l => NameIn(l) = r.name /\ ReviewIn(l) = FALSE
              /\ {r \in Done(Naming) : r.label = l} = {} => Fits(view.segs[i], NameIn(l), ReviewIn(l))
      BY <2>1 DEF InPlace
    <3>4. l \notin Moving' =>
              /\ segs'[i] = l
              /\ \A r \in Done(Naming)' : r.label = l => NameIn(l)' = r.name /\ ReviewIn(l)' = FALSE
              /\ {r \in Done(Naming)' : r.label = l} = {} => Fits(view.segs[i], NameIn(l)', ReviewIn(l)')
      <4>1. \A r \in Done(Naming)' : r.label = l => r \in Done(Naming)
        BY <3>1
      <4>2. QED
        BY <1>3, <3>1, <3>2, <3>3, <4>1
    <3>5. QED
      BY <1>2, <1>3, <2>2, <3>4 DEF InPlace, Fits
  <2>5. QED
    BY <2>3, <2>4
<1>7. QED
  BY <1>1, <1>5, <1>6 DEF Following

\* A merge reached the segments: the page is to hear of it.
LEMMA MergingFollows ==
    ASSUME Following, NEW q \in net, q.state = "sent", q.kind = "merge",
           NEW p, p.state = "ok", p.live = q.live, p.kind = q.kind, p.label = q.label, p.name = q.name,
           p.sources = q.sources,
           net' = (net \ {q}) \cup {p}, UNCHANGED <<view, card>>,
           q.sources \cup {q.label} \subseteq LabelsIn(segs), q.label \notin q.sources,
           segs' = [i \in Position |-> IF segs[i] \in q.sources THEN q.label ELSE segs[i]],
           rows' = Without(rows, q.sources)
    PROVE  Following'
<1>1. (\A r \in net' : r.live) /\ OneEach' /\ CardsHeld' /\ NamesAgree' /\ OneName'
  BY ServedFollows
<1>2. Done({"merge"}) = {} /\ Done({"merge"})' = {p}
  <2>1. \A r \in net : r.kind = "merge" => r = q
    BY DEF Following, OneEach
  <2>2. QED
    BY <2>1 DEF Done
<1>3. Moving = {} /\ Moving' = q.sources
  BY <1>2 DEF Moving
<1>4. Done(Naming)' = Done(Naming)
  BY DEF Done, Naming
<1>5. \A i \in Position : view.segs[i].label = segs[i]
  BY <1>3 DEF Following, InPlace
<1>6. TargetShown'
  <2>1. \E i \in Position : view.segs[i].label = q.label
    BY <1>5 DEF LabelsIn
  <2>2. QED
    BY <1>2, <2>1 DEF TargetShown, Card
<1>7. \A l : l \notin q.sources => NameIn(l)' = NameIn(l) /\ ReviewIn(l)' = ReviewIn(l)
  BY DEF Without, NameIn, ReviewIn
<1>8. ASSUME NEW i \in Position PROVE InPlace(i)'
  <2>1. InPlace(i)
    BY DEF Following
  <2>2. CASE segs[i] \in q.sources
    <3>1. view.segs[i].label \in Moving' /\ segs'[i] = p.label /\ p \in Done({"merge"})'
      BY <1>2, <1>3, <1>5, <2>2
    <3>2. QED
      BY <3>1 DEF InPlace
  <2>3. CASE segs[i] \notin q.sources
    <3>1. segs'[i] = segs[i] /\ view.segs[i].label \notin Moving' /\ view.segs[i].label \notin Moving
      BY <1>3, <1>5, <2>3
    <3>2. LET l == view.segs[i].label IN NameIn(l)' = NameIn(l) /\ ReviewIn(l)' = ReviewIn(l)
      BY <1>5, <1>7, <2>3
    <3>3. QED
      BY <1>4, <2>1, <3>1, <3>2 DEF InPlace, Fits
  <2>4. QED
    BY <2>2, <2>3
<1>9. QED
  BY <1>1, <1>6, <1>8 DEF Following

\* The row of a label that no segment has is gone.
LEMMA DismissingFollows ==
    ASSUME Following, NEW q \in net, q.state = "sent", q.kind = "dismiss", q.label \in Label,
           NEW p, p.state = "ok", p.live = q.live, p.kind = q.kind, p.label = q.label, p.name = q.name,
           net' = (net \ {q}) \cup {p}, UNCHANGED <<view, card, segs>>,
           q.label \notin LabelsIn(segs), rows' = Without(rows, {q.label})
    PROVE  Following'
<1>1. (\A r \in net' : r.live) /\ OneEach' /\ CardsHeld' /\ NamesAgree' /\ OneName'
  BY ServedFollows
<1>2. Done({"merge"})' = Done({"merge"}) /\ Done(Naming)' = Done(Naming)
  BY DEF Done, Naming
<1>3. Moving' = Moving
  BY <1>2 DEF Moving
<1>4. \A l : l # q.label => NameIn(l)' = NameIn(l) /\ ReviewIn(l)' = ReviewIn(l)
  BY DEF Without, NameIn, ReviewIn
<1>5. TargetShown'
  BY <1>2 DEF Following, TargetShown, Card
<1>6. ASSUME NEW i \in Position PROVE InPlace(i)'
  <2>1. InPlace(i)
    BY DEF Following
  <2>2. segs[i] # q.label
    BY SizeAssumption DEF LabelsIn, Label, NoLabel
  <2>3. CASE view.segs[i].label \in Moving
    BY <1>2, <1>3, <2>1, <2>3 DEF InPlace
  <2>4. CASE view.segs[i].label \notin Moving
    <3>1. view.segs[i].label = segs[i]
      BY <2>1, <2>4 DEF InPlace
    <3>2. LET l == view.segs[i].label IN NameIn(l)' = NameIn(l) /\ ReviewIn(l)' = ReviewIn(l)
      BY <1>4, <2>2, <3>1
    <3>3. QED
      BY <1>2, <1>3, <2>1, <2>4, <3>2 DEF InPlace, Fits
  <2>5. QED
    BY <2>3, <2>4
<1>7. QED
  BY <1>1, <1>5, <1>6 DEF Following

\* What the server does with a request.
LEMMA ServeFollows ==
    ASSUME NetShaped, Following, NEW q \in net, Serve(q) \/ Refuse(q)
    PROVE  Following'
<1>w. PICK w : w = IF Serve(q) THEN "ok" ELSE "refused"
  OBVIOUS
<1>1. RequestShaped(q) /\ q.live
  BY DEF NetShaped, Following
<1>2. PICK p : p = [q EXCEPT !.state = w]
  OBVIOUS
<1>3. /\ p.state = w /\ p.live = q.live /\ p.kind = q.kind /\ p.label = q.label
      /\ p.name = q.name /\ p.role = q.role /\ p.sources = q.sources
  BY <1>1, <1>2 DEF RequestShaped
<1>4. q.state = "sent" /\ UNCHANGED <<view, card>>
  BY DEF Serve, Refuse
<1>5. net' = (net \ {q}) \cup {p}
  BY <1>1, <1>w, <1>2 DEF Serve, Refuse, Served
<1>k. q.kind \in Kinds /\ q.label \in Label
  BY <1>1 DEF RequestShaped
<1>6. CASE Serve(q)
  <2>1. Perform(q) /\ p.state = "ok"
    BY <1>w, <1>3, <1>6 DEF Serve
  <2>2. CASE q.kind \in Naming
    <3>1. PICK b, o : PutName(q.label, q.name, b, o)
      BY <2>1, <2>2 DEF Perform, Naming
    <3>2. PICK row : rows' = Put(rows, q.label, row) /\ row.name = q.name /\ row.review = FALSE
      BY <3>1 DEF PutName
    <3>3. segs' = segs
      BY <3>1 DEF PutName
    <3>4. QED
      BY <1>3, <1>4, <1>5, <2>1, <2>2, <3>2, <3>3, NamingFollows
  <2>3. CASE q.kind = "merge"
    <3>1. MergeLabels(q.sources, q.label)
      BY <2>1, <2>3 DEF Perform
    <3>2. /\ q.sources \cup {q.label} \subseteq LabelsIn(segs) /\ q.label \notin q.sources
          /\ segs' = [i \in Position |-> IF segs[i] \in q.sources THEN q.label ELSE segs[i]]
          /\ rows' = Without(rows, q.sources)
      BY <3>1 DEF MergeLabels, Mergeable, ValidMerge
    <3>3. QED
      BY <1>3, <1>4, <1>5, <2>1, <2>3, <3>2, MergingFollows
  <2>4. CASE q.kind = "dismiss"
    <3>1. DropName(q.label)
      BY <2>1, <2>4 DEF Perform
    <3>2. q.label \notin LabelsIn(segs) /\ rows' = Without(rows, {q.label}) /\ segs' = segs
      BY <3>1 DEF DropName, Dismissible
    <3>3. QED
      BY <1>k, <1>3, <1>4, <1>5, <2>1, <2>4, <3>2, DismissingFollows
  <2>5. QED
    BY <1>k, <2>2, <2>3, <2>4 DEF Kinds, Naming
<1>7. CASE ~Serve(q)
  <2>1. p.state = "refused" /\ UNCHANGED <<segs, rows>>
    BY <1>w, <1>3, <1>7 DEF Refuse, nameVars, dbVars
  <2>2. \A r : r.state = "ok" => (r \in net <=> r \in net')
    BY <1>4, <1>5, <2>1
  <2>3. TargetShown' /\ OneName' /\ \A i \in Position : InPlace(i)'
    BY <1>4, <2>1, <2>2, SameFollowing
  <2>4. (\A r \in net' : r.live) /\ OneEach' /\ CardsHeld' /\ NamesAgree'
    BY <1>3, <1>4, <1>5, ServedFollows
  <2>5. QED
    BY <2>3, <2>4 DEF Following
<1>8. QED
  BY <1>6, <1>7

-----------------------------------------------------------------------------
(* Answers heard by the page.                                              *)

\* Fewer requests, and the same page.
LEMMA ForgetFollows ==
    ASSUME Following, NEW q \in net, net' = net \ {q},
           \A i \in Position : view'.segs[i].label = view.segs[i].label,
           \A r \in net : r.label \in Label,
           \A l \in Label : (q.kind \in Naming /\ q.label = l) \/ (card'[l].saving = card[l].saving /\ card'[l].savingRole = card[l].savingRole)
    PROVE  (\A r \in net' : r.live) /\ OneEach' /\ CardsHeld'
<1>o. OneEach /\ CardsHeld /\ \A r \in net : r.live
  BY DEF Following
<1>1. OneEach'
  BY <1>o DEF OneEach
<1>2. \A l : Card(l)' <=> Card(l)
  BY DEF Card
<1>3. ASSUME NEW r \in net'
      PROVE  /\ r.kind = "name" => card'[r.label].saving \/ ~Card(r.label)'
             /\ r.kind = "role" => card'[r.label].savingRole \/ ~Card(r.label)'
  <2>1. r \in net /\ r # q
    OBVIOUS
  <2>2. r.kind \in Naming => ~(q.kind \in Naming /\ q.label = r.label)
    BY <1>o, <2>1 DEF OneEach
  <2>3. r.kind \in Naming => card'[r.label].saving = card[r.label].saving /\ card'[r.label].savingRole = card[r.label].savingRole
    BY <2>2
  <2>4. /\ r.kind = "name" => card[r.label].saving \/ ~Card(r.label)
        /\ r.kind = "role" => card[r.label].savingRole \/ ~Card(r.label)
    BY <1>o, <2>1 DEF CardsHeld
  <2>5. QED
    BY <1>2, <2>3, <2>4 DEF Naming
<1>4. CardsHeld'
  BY <1>3 DEF CardsHeld
<1>5. QED
  BY <1>o, <1>1, <1>4

\* The page hears of a name or a role: it shows what is in the row.
LEMMA NamingHeard ==
    ASSUME Following, NEW q \in net, q.state = "ok", q.kind \in Naming, net' = net \ {q},
           UNCHANGED <<segs, rows>>,
           \A i \in Position :
               /\ view'.segs[i].label = view.segs[i].label
               /\ view.segs[i].label # q.label => view'.segs[i] = view.segs[i]
               /\ view.segs[i].label = q.label => /\ view'.segs[i].review = FALSE
                                                  /\ Says(view'.segs[i].name, q.name),
           \/ \A i \in Position : view.segs[i].label = q.label => view'.segs[i].name = q.name
           \/ \A i \in Position : view'.segs[i].name = view.segs[i].name,
           \A r \in net : r.label \in Label,
           \A l \in Label : l # q.label => card'[l].saving = card[l].saving /\ card'[l].savingRole = card[l].savingRole
    PROVE  Following'
<1>o. OneEach /\ NamesAgree /\ TargetShown /\ OneName /\ \A i \in Position : InPlace(i)
  BY DEF Following
<1>1. (\A r \in net' : r.live) /\ OneEach' /\ CardsHeld'
  BY ForgetFollows
<1>2. OneName'
  <2>1. SUFFICES ASSUME NEW i \in Position, NEW j \in Position, view'.segs[i].label = view'.segs[j].label
                 PROVE  view'.segs[i].name = view'.segs[j].name
    BY DEF OneName
  <2>2. view.segs[i].label = view.segs[j].label /\ view.segs[i].name = view.segs[j].name
    BY <1>o, <2>1 DEF OneName
  <2>3. QED
    BY <2>2
<1>3. ASSUME NEW r \in net'
      PROVE  /\ r.kind \in Naming => r.name # Blank
             /\ r.kind = "role" => \A i \in Position : view'.segs[i].label = r.label =>
                                                         Says(view'.segs[i].name, r.name)
  <2>1. r \in net /\ r # q
    OBVIOUS
  <2>2. r.kind \in Naming => r.label # q.label
    BY <1>o, <2>1 DEF OneEach
  <2>3. /\ r.kind \in Naming => r.name # Blank
        /\ r.kind = "role" => \A i \in Position : view.segs[i].label = r.label =>
                                                    Says(view.segs[i].name, r.name)
    BY <1>o, <2>1 DEF NamesAgree
  <2>4. QED
    BY <2>2, <2>3 DEF Naming
<1>4. NamesAgree'
  BY <1>3 DEF NamesAgree
<1>5. Done({"merge"})' = Done({"merge"}) /\ Done(Naming)' = Done(Naming) \ {q}
  BY DEF Done, Naming
<1>6. Moving' = Moving
  BY <1>5 DEF Moving
<1>7. TargetShown'
  BY <1>o, <1>5 DEF TargetShown, Card
<1>8. \A l : NameIn(l)' = NameIn(l) /\ ReviewIn(l)' = ReviewIn(l)
  BY DEF NameIn, ReviewIn
<1>9. ASSUME NEW i \in Position PROVE InPlace(i)'
  <2> DEFINE l == view.segs[i].label
  <2>1. InPlace(i) /\ view'.segs[i].label = l
    BY <1>o
  <2>2. CASE l \in Moving
    <3>1. \E r \in Done({"merge"})' : segs'[i] = r.label
      BY <1>5, <2>1, <2>2 DEF InPlace
    <3>2. QED
      BY <1>6, <2>1, <2>2, <3>1 DEF InPlace
  <2>3. CASE l \notin Moving /\ l = q.label
    <3>1. q \in Done(Naming)
      BY DEF Done
    <3>2. segs[i] = l /\ NameIn(l) = q.name /\ ReviewIn(l) = FALSE
      BY <2>1, <2>3, <3>1 DEF InPlace
    <3>3. \A r \in Done(Naming)' : r.label # l
      <4>1. \A r \in Done(Naming) : r.label = l => r = q
        BY <1>o, <2>3 DEF OneEach, Done
      <4>2. QED
        BY <1>5, <4>1
    <3>4. q.name # Blank
      BY <1>o DEF NamesAgree
    <3>5. Fits(view'.segs[i], NameIn(l)', ReviewIn(l)')
      <4>1. NameIn(l)' = q.name /\ ReviewIn(l)' = FALSE
        BY <1>8, <3>2
      <4>2. view'.segs[i].review = FALSE /\ Says(view'.segs[i].name, q.name)
        BY <2>3
      <4>3. QED
        BY <3>4, <4>1, <4>2 DEF Fits, Says
    <3>6. view'.segs[i].label \notin Moving'
      BY <1>6, <2>1, <2>3
    <3>7. QED
      BY <2>1, <3>2, <3>3, <3>5, <3>6 DEF InPlace, Fits
  <2>4. CASE l \notin Moving /\ l # q.label
    <3>1. view'.segs[i] = view.segs[i]
      BY <2>4
    <3>2. {r \in Done(Naming)' : r.label = l} = {r \in Done(Naming) : r.label = l}
      BY <1>5, <2>4
    <3>3. /\ segs[i] = l
          /\ \A r \in Done(Naming) : r.label = l => NameIn(l) = r.name /\ ReviewIn(l) = FALSE
          /\ {r \in Done(Naming) : r.label = l} = {} => Fits(view.segs[i], NameIn(l), ReviewIn(l))
      BY <2>1, <2>4 DEF InPlace
    <3>4. /\ segs'[i] = l
          /\ \A r \in Done(Naming)' : r.label = l => NameIn(l)' = r.name /\ ReviewIn(l)' = FALSE
          /\ {r \in Done(Naming)' : r.label = l} = {} => Fits(view'.segs[i], NameIn(l)', ReviewIn(l)')
      BY <1>5, <1>8, <3>1, <3>2, <3>3
    <3>5. QED
      BY <1>6, <2>1, <2>4, <3>4 DEF InPlace, Fits
  <2>5. QED
    BY <2>2, <2>3, <2>4
<1>10. QED
  BY <1>1, <1>2, <1>4, <1>7, <1>9 DEF Following

\* The merged segments show one name, that of the target if it has one.
Merged(q) ==
    \E n, b :
        /\ \A i \in Position :
             IF view.segs[i].label \in q.sources
             THEN /\ view'.segs[i].label = q.label /\ view'.segs[i].name = n
                  /\ view'.segs[i].review = b
             ELSE view'.segs[i] = view.segs[i]
        /\ \/ /\ \A i \in Position : view.segs[i].label = q.label => view.segs[i].name = Blank
              /\ n = Blank /\ b = FALSE
           \/ /\ n # Blank
              /\ \E i \in Position : /\ view.segs[i].label = q.label
                                     /\ n = view.segs[i].name /\ b = view.segs[i].review

\* The page hears of a merge: the segments get the label, and the name it shows for it.
LEMMA MergingHeard ==
    ASSUME Following, NEW q \in net, q.state = "ok", q.kind = "merge", net' = net \ {q},
           UNCHANGED <<segs, rows>>,
           Merged(q),
           \A r \in net : r.label \in Label,
           \A l \in Label : Card(l)' => card'[l] = card[l]
    PROVE  Following'
<1>n. PICK n, b :
          /\ \A i \in Position :
               IF view.segs[i].label \in q.sources
               THEN /\ view'.segs[i].label = q.label /\ view'.segs[i].name = n
                    /\ view'.segs[i].review = b
               ELSE view'.segs[i] = view.segs[i]
          /\ \/ /\ \A i \in Position : view.segs[i].label = q.label => view.segs[i].name = Blank
                /\ n = Blank /\ b = FALSE
             \/ /\ n # Blank
                /\ \E i \in Position : /\ view.segs[i].label = q.label
                                       /\ n = view.segs[i].name /\ b = view.segs[i].review
  BY DEF Merged
<1>o. OneEach /\ CardsHeld /\ NamesAgree /\ TargetShown /\ OneName /\ \A i \in Position : InPlace(i)
  BY DEF Following
<1>m. Done({"merge"}) = {q} /\ Done({"merge"})' = {} /\ Done(Naming)' = Done(Naming)
  <2>1. \A r \in net : r.kind = "merge" => r = q
    BY <1>o DEF OneEach
  <2>2. QED
    BY <2>1 DEF Done, Naming
<1>s. Moving = q.sources /\ Moving' = {}
  BY <1>m DEF Moving
\* A segment the page shows for the target already.
<1>t. PICK t \in Position : view.segs[t].label = q.label /\ (n # Blank => n = view.segs[t].name /\ b = view.segs[t].review)
  BY <1>n, <1>o, <1>m DEF TargetShown, Card
<1>u. q.label \notin q.sources /\ n = view.segs[t].name
      /\ \A i \in Position : view.segs[i].label = q.label => view.segs[i].name = n
  <2>1. q.label \notin q.sources
    BY <1>o, <1>m DEF TargetShown
  <2>2. n = view.segs[t].name
    BY <1>n, <1>t
  <2>3. QED
    BY <1>o, <1>t, <2>1, <2>2 DEF OneName
<1>1. (\A r \in net' : r.live) /\ OneEach'
  BY <1>o DEF Following, OneEach
<1>2. \A l : Card(l)' => Card(l)
  BY <1>n, <1>t DEF Card
<1>3. CardsHeld'
  <2>1. SUFFICES ASSUME NEW r \in net'
        PROVE  /\ r.kind = "name" => card'[r.label].saving \/ ~Card(r.label)'
               /\ r.kind = "role" => card'[r.label].savingRole \/ ~Card(r.label)'
    BY DEF CardsHeld
  <2>2. /\ r.kind = "name" => card[r.label].saving \/ ~Card(r.label)
        /\ r.kind = "role" => card[r.label].savingRole \/ ~Card(r.label)
    BY <1>o DEF CardsHeld
  <2>3. Card(r.label)' => card'[r.label] = card[r.label] /\ Card(r.label)
    BY <1>2
  <2>4. QED
    BY <2>2, <2>3
\* What any segment shows now, a segment with that label showed before.
<1>4. ASSUME NEW i \in Position
      PROVE  \E j \in Position : /\ view.segs[j].label = view'.segs[i].label
                                 /\ view.segs[j].name = view'.segs[i].name
  <2>1. CASE view.segs[i].label \in q.sources
    BY <1>n, <1>t, <1>u, <2>1
  <2>2. CASE view.segs[i].label \notin q.sources
    BY <1>n, <2>2
  <2>3. QED
    BY <2>1, <2>2
<1>5. OneName'
  <2>1. SUFFICES ASSUME NEW i \in Position, NEW j \in Position, view'.segs[i].label = view'.segs[j].label
                 PROVE  view'.segs[i].name = view'.segs[j].name
    BY DEF OneName
  <2>2. PICK x \in Position : view.segs[x].label = view'.segs[i].label /\ view.segs[x].name = view'.segs[i].name
    BY <1>4
  <2>3. PICK y \in Position : view.segs[y].label = view'.segs[j].label /\ view.segs[y].name = view'.segs[j].name
    BY <1>4
  <2>4. QED
    BY <1>o, <2>1, <2>2, <2>3 DEF OneName
<1>6. NamesAgree'
  <2>1. SUFFICES ASSUME NEW r \in net'
                 PROVE  /\ r.kind \in Naming => r.name # Blank
                        /\ r.kind = "role" => \A i \in Position : view'.segs[i].label = r.label =>
                                                                    Says(view'.segs[i].name, r.name)
    BY DEF NamesAgree
  <2>2. /\ r.kind \in Naming => r.name # Blank
        /\ r.kind = "role" => \A i \in Position : view.segs[i].label = r.label =>
                                                    Says(view.segs[i].name, r.name)
    BY <1>o DEF NamesAgree
  <2>3. ASSUME NEW i \in Position, r.kind = "role", view'.segs[i].label = r.label
        PROVE  Says(view'.segs[i].name, r.name)
    <3>1. PICK j \in Position : view.segs[j].label = view'.segs[i].label /\ view.segs[j].name = view'.segs[i].name
      BY <1>4
    <3>2. QED
      BY <2>2, <2>3, <3>1
  <2>4. QED
    BY <2>2, <2>3
<1>7. TargetShown'
  BY <1>m DEF TargetShown
<1>8. \A l : NameIn(l)' = NameIn(l) /\ ReviewIn(l)' = ReviewIn(l)
  BY DEF NameIn, ReviewIn
<1>9. ASSUME NEW i \in Position PROVE InPlace(i)'
  <2>1. CASE view.segs[i].label \in q.sources
    <3>1. segs[i] = q.label
      BY <1>o, <1>m, <1>s, <2>1 DEF InPlace
    <3>2. /\ view'.segs[i].label = q.label /\ view'.segs[i].name = n /\ view'.segs[i].review = b
      BY <1>n, <2>1
    <3>3. /\ \A r \in {x \in Done(Naming) : x.label = q.label} : NameIn(q.label) = r.name /\ ReviewIn(q.label) = FALSE
          /\ {x \in Done(Naming) : x.label = q.label} = {} => Fits(view.segs[t], NameIn(q.label), ReviewIn(q.label))
      BY <1>o, <1>s, <1>t, <1>u DEF InPlace
    <3>4. Fits(view.segs[t], NameIn(q.label), ReviewIn(q.label)) => Fits(view'.segs[i], NameIn(q.label), ReviewIn(q.label))
      BY <1>n, <1>t, <1>u, <3>2 DEF Fits
    <3>5. /\ \A r \in {x \in Done(Naming) : x.label = q.label} : NameIn(q.label)' = r.name /\ ReviewIn(q.label)' = FALSE
          /\ {x \in Done(Naming) : x.label = q.label} = {} => Fits(view'.segs[i], NameIn(q.label)', ReviewIn(q.label)')
      BY <1>8, <3>3, <3>4
    <3>6. QED
      BY <1>m, <1>s, <3>1, <3>2, <3>5 DEF InPlace, Fits
  <2>2. CASE view.segs[i].label \notin q.sources
    <3> DEFINE l == view.segs[i].label
    <3>1. view'.segs[i] = view.segs[i]
      BY <1>n, <2>2
    <3>2. /\ segs[i] = l
          /\ \A r \in {x \in Done(Naming) : x.label = l} : NameIn(l) = r.name /\ ReviewIn(l) = FALSE
          /\ {x \in Done(Naming) : x.label = l} = {} => Fits(view.segs[i], NameIn(l), ReviewIn(l))
      BY <1>o, <1>s, <2>2 DEF InPlace
    <3>3. /\ \A r \in {x \in Done(Naming) : x.label = l} : NameIn(l)' = r.name /\ ReviewIn(l)' = FALSE
          /\ {x \in Done(Naming) : x.label = l} = {} => Fits(view'.segs[i], NameIn(l)', ReviewIn(l)')
      BY <1>8, <3>1, <3>2
    <3>4. QED
      BY <1>m, <1>s, <3>1, <3>2, <3>3 DEF InPlace, Fits
  <2>3. QED
    BY <2>1, <2>2
<1>10. QED
  BY <1>1, <1>3, <1>5, <1>6, <1>7, <1>9 DEF Following

\* A shown segment with other fields is one still.
LEMMA RestatedSegment ==
    ASSUME NEW s, DOMAIN s = SegmentFields, NEW l, NEW n, NEW j, NEW c, NEW b, NEW r
    PROVE  /\ LET t == [s EXCEPT !.name = n, !.inferred = j, !.confirmed = c, !.review = b]
              IN  DOMAIN t = SegmentFields /\ t.label = s.label /\ t.name = n /\ t.review = b
           /\ LET t == [s EXCEPT !.role = r, !.review = b]
              IN  DOMAIN t = SegmentFields /\ t.label = s.label /\ t.name = s.name /\ t.review = b
           /\ LET t == [s EXCEPT !.label = l, !.name = n, !.inferred = j, !.confirmed = c, !.review = b]
              IN  DOMAIN t = SegmentFields /\ t.label = l /\ t.name = n /\ t.review = b
BY DEF SegmentFields

\* A page with other segments is one still.
LEMMA RestatedView ==
    ASSUME ViewShaped, NEW a, NEW s, DOMAIN s = Position,
           \A i \in Position : DOMAIN s[i] = SegmentFields,
           view' = [view EXCEPT !.segs = s] \/ view' = [view EXCEPT !.segs = s, !.active = a]
    PROVE  ViewShaped' /\ view'.segs = s
<1>1. DOMAIN view = {"segs", "unmatched", "active"}
  BY DEF ViewShaped
<1>2. DOMAIN view' = {"segs", "unmatched", "active"} /\ view'.segs = s
  BY <1>1
<1>3. QED
  BY <1>2 DEF ViewShaped

\* What the page becomes when it hears of a name or a role.
LEMMA NamingShown ==
    ASSUME ViewShaped, NEW q, q.state = "ok",
           (q.kind = "name" /\ AnswerName(q)) \/ (q.kind = "role" /\ AnswerRole(q))
    PROVE  /\ ViewShaped'
           /\ \A i \in Position :
                /\ view'.segs[i].label = view.segs[i].label
                /\ view.segs[i].label # q.label => view'.segs[i] = view.segs[i]
                /\ view.segs[i].label = q.label =>
                      /\ view'.segs[i].review = FALSE
                      /\ q.kind = "name" => view'.segs[i].name = q.name
                /\ q.kind = "role" => view'.segs[i].name = view.segs[i].name
<1> DEFINE renamed(s) == [s EXCEPT !.name = q.name, !.inferred = FALSE,
                                   !.confirmed = TRUE, !.review = FALSE]
           changed(s) == [s EXCEPT !.role = q.role, !.review = FALSE]
<1>d. \A i \in Position : DOMAIN view.segs[i] = SegmentFields
  BY DEF ViewShaped
<1>1. CASE q.kind = "name"
  <2>1. PICK s : s = [i \in Position |-> IF view.segs[i].label = q.label THEN renamed(view.segs[i])
                                         ELSE view.segs[i]]
    OBVIOUS
  <2>2. view' = [view EXCEPT !.segs = s]
    BY <1>1, <2>1 DEF AnswerName, Relabelled
  <2>3. \A i \in Position : /\ DOMAIN renamed(view.segs[i]) = SegmentFields
                            /\ renamed(view.segs[i]).label = view.segs[i].label
                            /\ renamed(view.segs[i]).name = q.name
                            /\ renamed(view.segs[i]).review = FALSE
    BY <1>d, RestatedSegment
  <2> HIDE DEF renamed
  <2>4. /\ DOMAIN s = Position
        /\ \A i \in Position : DOMAIN s[i] = SegmentFields
    BY <1>d, <2>1, <2>3
  <2>5. ViewShaped' /\ view'.segs = s
    BY <2>2, <2>4, RestatedView
  <2>6. QED
    BY <1>1, <2>1, <2>3, <2>5
<1>2. CASE q.kind = "role"
  <2>1. PICK s : s = [i \in Position |-> IF view.segs[i].label = q.label THEN changed(view.segs[i])
                                         ELSE view.segs[i]]
    OBVIOUS
  <2>2. view' = [view EXCEPT !.segs = s]
    BY <1>2, <2>1 DEF AnswerRole, Relabelled
  <2>3. \A i \in Position : /\ DOMAIN changed(view.segs[i]) = SegmentFields
                            /\ changed(view.segs[i]).label = view.segs[i].label
                            /\ changed(view.segs[i]).name = view.segs[i].name
                            /\ changed(view.segs[i]).review = FALSE
    BY <1>d, RestatedSegment
  <2> HIDE DEF changed
  <2>4. /\ DOMAIN s = Position
        /\ \A i \in Position : DOMAIN s[i] = SegmentFields
    BY <1>d, <2>1, <2>3
  <2>5. ViewShaped' /\ view'.segs = s
    BY <2>2, <2>4, RestatedView
  <2>6. QED
    BY <1>2, <2>1, <2>3, <2>5
<1>3. QED
  BY <1>1, <1>2

\* What the page becomes when it hears of a merge.
LEMMA MergingShown ==
    ASSUME ViewShaped, NEW q, q.state = "ok", AnswerMerge(q)
    PROVE  /\ ViewShaped'
           /\ Merged(q)
<1> DEFINE named == {i \in Position : view.segs[i].label = q.label /\ view.segs[i].name # Blank}
           least == CHOOSE i \in named : \A j \in named : i <= j
           from == view.segs[least]
           moved(s) ==
              IF named = {}
              THEN [s EXCEPT !.label = q.label, !.name = Blank, !.inferred = FALSE,
                             !.confirmed = FALSE, !.review = FALSE]
              ELSE [s EXCEPT !.label = q.label, !.name = from.name, !.inferred = from.inferred,
                             !.confirmed = from.confirmed, !.review = from.review]
           n == IF named = {} THEN Blank ELSE from.name
           b == IF named = {} THEN FALSE ELSE from.review
<1>d. \A i \in Position : DOMAIN view.segs[i] = SegmentFields
  BY DEF ViewShaped
<1>1. PICK s : s = [i \in Position |-> IF view.segs[i].label \in q.sources THEN moved(view.segs[i])
                                       ELSE view.segs[i]]
  OBVIOUS
<1>2. \E a : view' = [view EXCEPT !.segs = s, !.active = a]
  BY <1>1 DEF AnswerMerge
<1>3. named # {} => least \in named
  <2>1. SUFFICES ASSUME named # {} PROVE \E i \in named : \A j \in named : i <= j
    OBVIOUS
  <2>2. IsFiniteSet(Position)
    BY SizeAssumption, FS_Interval DEF Position
  <2>3. named \subseteq Int /\ IsFiniteSet(named)
    BY <2>2, SizeAssumption, FS_Subset DEF Position
  <2> HIDE DEF named
  <2>4. QED
    BY <2>1, <2>3, Extremes
<1>4. \A i \in Position : /\ DOMAIN moved(view.segs[i]) = SegmentFields
                          /\ moved(view.segs[i]).label = q.label
                          /\ moved(view.segs[i]).name = n
                          /\ moved(view.segs[i]).review = b
  <2> HIDE DEF named, least
  <2>1. QED
    BY <1>d, RestatedSegment
<1>5. \/ /\ \A i \in Position : view.segs[i].label = q.label => view.segs[i].name = Blank
         /\ n = Blank /\ b = FALSE
      \/ /\ n # Blank
         /\ \E i \in Position : /\ view.segs[i].label = q.label
                                /\ n = view.segs[i].name /\ b = view.segs[i].review
  <2>1. CASE named = {}
    BY <2>1
  <2>2. CASE named # {}
    <3>1. least \in named /\ n = view.segs[least].name /\ b = view.segs[least].review
      BY <1>3, <2>2
    <3> HIDE DEF least, n, b
    <3>2. QED
      BY <3>1
  <2>3. QED
    BY <2>1, <2>2
<1> HIDE DEF moved, n, b
<1>6. /\ DOMAIN s = Position
      /\ \A i \in Position : DOMAIN s[i] = SegmentFields
  BY <1>d, <1>1, <1>4
<1>7. ViewShaped' /\ view'.segs = s
  BY <1>2, <1>6, RestatedView
<1>8. QED
  BY <1>1, <1>4, <1>5, <1>7 DEF Merged

\* The page hears of a request.
LEMMA AnswerFollows ==
    ASSUME NetShaped, PanelShaped, ViewShaped, NEW q \in net, Answer(q)
    PROVE  ViewShaped' /\ (Following => Following')
<1>1. /\ net' = net \ {q} /\ q.state # "sent" /\ UNCHANGED <<segs, rows>>
      /\ q.kind = "name" => AnswerName(q)
      /\ q.kind = "role" => AnswerRole(q)
      /\ q.kind = "merge" => AnswerMerge(q)
      /\ q.kind = "dismiss" => AnswerDismiss(q)
  BY DEF Answer, nameVars, dbVars
<1>2. q.kind \in Kinds /\ q.label \in Label /\ \A r \in net : r.label \in Label
  BY DEF NetShaped, RequestShaped
<1>c. card \in [Label -> [editing : BOOLEAN, saving : BOOLEAN, savingRole : BOOLEAN]]
  BY DEF PanelShaped
\* What becomes of the cards.
<1>3. \A l \in Label : \/ q.kind \in Naming /\ q.label = l
                       \/ q.kind = "merge" /\ q.state = "ok"
                       \/ card'[l].saving = card[l].saving /\ card'[l].savingRole = card[l].savingRole
  <2>1. CASE q.kind = "name"
    BY <1>1, <1>2, <1>c, <2>1 DEF AnswerName, Naming
  <2>2. CASE q.kind = "role"
    BY <1>1, <1>2, <1>c, <2>2 DEF AnswerRole, Naming
  <2>3. CASE q.kind = "merge"
    BY <1>1, <2>3 DEF AnswerMerge
  <2>4. CASE q.kind = "dismiss"
    BY <1>1, <2>4 DEF AnswerDismiss
  <2>5. QED
    BY <1>2, <2>1, <2>2, <2>3, <2>4 DEF Kinds
<1>4. CASE q.kind \in Naming /\ q.state = "ok"
  <2>1. /\ ViewShaped'
        /\ \A i \in Position :
                /\ view'.segs[i].label = view.segs[i].label
                /\ view.segs[i].label # q.label => view'.segs[i] = view.segs[i]
                /\ view.segs[i].label = q.label =>
                      /\ view'.segs[i].review = FALSE
                      /\ q.kind = "name" => view'.segs[i].name = q.name
                /\ q.kind = "role" => view'.segs[i].name = view.segs[i].name
    BY <1>1, <1>4, NamingShown DEF Naming
  <2>2. ASSUME Following PROVE Following'
    <3>1. q.kind = "role" => \A i \in Position : view.segs[i].label = q.label => Says(view.segs[i].name, q.name)
      BY <2>2 DEF Following, NamesAgree
    <3>2. \A i \in Position :
               /\ view'.segs[i].label = view.segs[i].label
               /\ view.segs[i].label # q.label => view'.segs[i] = view.segs[i]
               /\ view.segs[i].label = q.label => /\ view'.segs[i].review = FALSE
                                                  /\ Says(view'.segs[i].name, q.name)
      BY <1>4, <2>1, <3>1 DEF Says, Naming
    <3>3. \/ \A i \in Position : view.segs[i].label = q.label => view'.segs[i].name = q.name
          \/ \A i \in Position : view'.segs[i].name = view.segs[i].name
      BY <1>4, <2>1 DEF Naming
    <3>4. \A l \in Label : l # q.label => card'[l].saving = card[l].saving /\ card'[l].savingRole = card[l].savingRole
      BY <1>3, <1>4 DEF Naming
    <3>5. QED
      BY <1>1, <1>2, <1>4, <2>2, <3>2, <3>3, <3>4, NamingHeard
  <2>3. QED
    BY <2>1, <2>2
<1>5. CASE q.kind = "merge" /\ q.state = "ok"
  <2>1. AnswerMerge(q)
    BY <1>1, <1>5
  <2>2. ViewShaped'
    BY <1>5, <2>1, MergingShown
  <2>3. Merged(q)
    BY <1>5, <2>1, MergingShown
  <2>4. \A l \in Label : Card(l)' => card'[l] = card[l]
    BY <1>5, <2>1 DEF AnswerMerge, Card
  <2>5. ASSUME Following PROVE Following'
    <3>1. net' = net \ {q} /\ UNCHANGED <<segs, rows>> /\ q.kind = "merge" /\ q.state = "ok"
      BY <1>1, <1>5
    <3>2. QED
      BY <1>2, <2>3, <2>4, <2>5, <3>1, MergingHeard
  <2>6. QED
    BY <2>2, <2>5
<1>6. CASE q.state # "ok" \/ q.kind = "dismiss"
  <2>1. view' = view \/ \E u : view' = [view EXCEPT !.unmatched = u]
    <3>1. CASE q.kind = "name"
      BY <1>1, <1>6, <3>1 DEF AnswerName
    <3>2. CASE q.kind = "role"
      BY <1>1, <1>6, <3>2 DEF AnswerRole
    <3>3. CASE q.kind = "merge"
      BY <1>1, <1>6, <3>3 DEF AnswerMerge
    <3>4. CASE q.kind = "dismiss"
      BY <1>1, <1>6, <3>4 DEF AnswerDismiss
    <3>5. QED
      BY <1>2, <3>1, <3>2, <3>3, <3>4 DEF Kinds
  <2>2. ViewShaped' /\ view'.segs = view.segs
    BY <2>1 DEF ViewShaped
  <2>3. ASSUME Following PROVE Following'
    <3>1. (\A r \in net' : r.live) /\ OneEach' /\ CardsHeld'
      <4>1. \A l \in Label : \/ q.kind \in Naming /\ q.label = l
                             \/ card'[l].saving = card[l].saving /\ card'[l].savingRole = card[l].savingRole
        BY <1>3, <1>6
      <4>2. QED
        BY <1>1, <1>2, <2>2, <2>3, <4>1, ForgetFollows
    <3>2. NamesAgree'
      BY <1>1, <2>2, <2>3 DEF Following, NamesAgree
    <3>3. CASE q.state # "ok"
      <4>1. \A r : r.state = "ok" => (r \in net <=> r \in net')
        BY <1>1, <3>3
      <4>2. QED
        BY <1>1, <2>2, <2>3, <3>1, <3>2, <4>1, SameFollowing DEF Following
    <3>4. CASE q.kind = "dismiss"
      <4>1. Done({"merge"})' = Done({"merge"}) /\ Done(Naming)' = Done(Naming)
        BY <1>1, <3>4 DEF Done, Naming
      <4>2. Moving' = Moving
        BY <4>1 DEF Moving
      <4>3. \A l : NameIn(l)' = NameIn(l) /\ ReviewIn(l)' = ReviewIn(l) /\ Card(l)' = Card(l)
        BY <1>1, <2>2 DEF NameIn, ReviewIn, Card
      <4>4. TargetShown' /\ OneName'
        BY <2>2, <2>3, <4>1, <4>3 DEF Following, TargetShown, OneName
      <4>5. ASSUME NEW i \in Position PROVE InPlace(i)'
        <5>1. InPlace(i)
          BY <2>3 DEF Following
        <5>2. QED
          BY <1>1, <2>2, <4>1, <4>2, <4>3, <5>1 DEF InPlace, Fits
      <4>6. QED
        BY <3>1, <3>2, <4>4, <4>5 DEF Following
    <3>5. QED
      BY <1>6, <3>3, <3>4
  <2>4. QED
    BY <2>2, <2>3
<1>7. QED
  BY <1>2, <1>4, <1>5, <1>6 DEF Kinds, Naming

-----------------------------------------------------------------------------

\* The name a card shows is that of its segments.
LEMMA CardName ==
    ASSUME OneName, NEW l \in Label, Card(l)
    PROVE  /\ Speakers[l].name # Blank
           /\ \A i \in Position : view.segs[i].label = l => Says(view.segs[i].name, Speakers[l].name)
<1> DEFINE named == {i \in {j \in Position : view.segs[j].label = l} : view.segs[i].name # Blank}
           last == CHOOSE i \in named : \A j \in named : j <= i
<1>1. Speakers[l].name = IF named = {} THEN OwnLabel ELSE view.segs[last].name
  <2>1. l \in {view.segs[i].label : i \in Position} \ {NoLabel}
    BY SizeAssumption DEF Card, Label, NoLabel
  <2>2. QED
    BY <2>1 DEF Speakers, DeriveSpeakers
<1>2. named # {} => last \in named
  <2>1. SUFFICES ASSUME named # {} PROVE \E i \in named : \A j \in named : j <= i
    OBVIOUS
  <2>2. IsFiniteSet(Position)
    BY SizeAssumption, FS_Interval DEF Position
  <2>3. named \subseteq Int /\ IsFiniteSet(named)
    BY <2>2, SizeAssumption, FS_Subset DEF Position
  <2> HIDE DEF named
  <2>4. QED
    BY <2>1, <2>3, Extremes
<1>3. OwnLabel # Blank
  BY DEF OwnLabel, Blank, NameOf
<1> HIDE DEF last
<1>4. CASE named = {}
  BY <1>1, <1>3, <1>4 DEF Says
<1>5. CASE named # {}
  <2>1. last \in Position /\ view.segs[last].label = l /\ view.segs[last].name # Blank
    BY <1>2, <1>5
  <2>2. Speakers[l].name = view.segs[last].name
    BY <1>1, <1>5
  <2>3. QED
    BY <2>1, <2>2 DEF OneName, Says
<1>6. QED
  BY <1>4, <1>5

-----------------------------------------------------------------------------
(* Requests sent, and the page loaded again.                               *)

\* A step of the page alone.
LEMMA LocalFollows ==
    ASSUME Following, NetShaped, UNCHANGED nameVars, net' = net, view'.segs = view.segs,
           \A l \in Label : card'[l].saving = card[l].saving /\ card'[l].savingRole = card[l].savingRole
    PROVE  Following'
<1>1. UNCHANGED <<segs, rows>>
  BY DEF nameVars, dbVars
<1>2. TargetShown' /\ OneName' /\ \A i \in Position : InPlace(i)'
  BY <1>1, SameFollowing
<1>3. CardsHeld'
  <2>1. \A l : Card(l)' = Card(l)
    BY DEF Card
  <2>2. QED
    BY <2>1 DEF Following, CardsHeld, NetShaped, RequestShaped
<1>4. NamesAgree'
  BY DEF Following, NamesAgree
<1>5. OneEach'
  BY DEF Following, OneEach
<1>6. QED
  BY <1>2, <1>3, <1>4, <1>5 DEF Following

\* What a request is when it is sent.
LEMMA NewRequest ==
    ASSUME NEW k, NEW l, NEW n, NEW r, NEW s, NEW a, NEW q, q = Request(k, l, n, r, s, a)
    PROVE  q.kind = k /\ q.label = l /\ q.name = n /\ q.state = "sent" /\ q.live
BY DEF Request

\* A name is sent.
LEMMA NameSentFollows ==
    ASSUME NetShaped, PanelShaped, ~astray', ~astray => Following, NEW l \in Label, NEW n,
           PersistName(l, n), Card(l), ~card[l].saving, n # Blank
    PROVE  Following'
<1>1. PICK q : q = Request("name", l, n, NoRole, {}, None)
  OBVIOUS
<1>2. q.kind = "name" /\ q.label = l /\ q.name = n /\ q.state = "sent" /\ q.live
  BY <1>1, NewRequest
<1>3. net' = net \cup {q} /\ UNCHANGED nameVars
  BY <1>1 DEF PersistName, Send
<1>4. /\ ~astray /\ view' = view /\ \A p \in net : p.kind = "role" => p.label # l
  BY DEF PersistName, UnderWay
<1>5. Following
  BY <1>4
<1>6. /\ card'[l].saving
      /\ \A k \in Label : /\ card[k].saving => card'[k].saving
                          /\ card[k].savingRole => card'[k].savingRole
  BY DEF PersistName, PanelShaped
<1>7. \A p \in net : p.kind \in Naming => p.label # l
  BY <1>4, <1>5 DEF Following, CardsHeld, Naming
<1>8. \A p \in net : p.label \in Label
  BY DEF NetShaped, RequestShaped
<1>9. QED
  BY <1>2, <1>3, <1>4, <1>5, <1>6, <1>7, <1>8, SendFollows DEF Naming

\* A role is sent, with the name of the card.
LEMMA RoleSentFollows ==
    ASSUME NetShaped, PanelShaped, ~astray', ~astray => Following, NEW l \in Label, NEW r,
           PersistRole(l, r)
    PROVE  Following'
<1>0. PICK o : o = IF Speakers[l].role = r THEN NoRole ELSE r
  OBVIOUS
<1>1. PICK q : q = Request("role", l, Speakers[l].name, o, {}, None)
  OBVIOUS
<1>2. q.kind = "role" /\ q.label = l /\ q.name = Speakers[l].name /\ q.state = "sent" /\ q.live
  BY <1>1, NewRequest
<1>3. net' = net \cup {q} /\ UNCHANGED nameVars /\ Card(l) /\ ~card[l].savingRole
  BY <1>0, <1>1 DEF PersistRole, Send, CardIdle
<1>4. /\ ~astray /\ view' = view /\ \A p \in net : p.kind = "name" => p.label # l
  BY DEF PersistRole, UnderWay
<1>5. Following
  BY <1>4
<1>6. /\ card'[l].savingRole
      /\ \A k \in Label : /\ card[k].saving => card'[k].saving
                          /\ card[k].savingRole => card'[k].savingRole
  BY DEF PersistRole, PanelShaped
<1>7. \A p \in net : p.kind \in Naming => p.label # l
  BY <1>3, <1>4, <1>5 DEF Following, CardsHeld, Naming
<1>8. \A p \in net : p.label \in Label
  BY DEF NetShaped, RequestShaped
<1>9. /\ q.name # Blank
      /\ \A i \in Position : view.segs[i].label = l => Says(view.segs[i].name, q.name)
  BY <1>2, <1>3, <1>5, CardName DEF Following
<1>10. QED
  BY <1>2, <1>3, <1>4, <1>5, <1>6, <1>7, <1>8, <1>9, SendFollows DEF Naming

\* A merge or a dismissal is sent.
LEMMA OtherSentFollows ==
    ASSUME NetShaped, ~astray', ~astray => Following, NEW l \in Label,
           Dismiss(l) \/ \E s : HandleMerge(s, l)
    PROVE  Following'
<1>0. \E k \in {"merge", "dismiss"} : \E s, a :
          /\ Send(Request(k, l, Blank, NoRole, s, a))
          /\ k = "merge" => \A p \in net : p.kind # "merge"
  <2>1. CASE Dismiss(l)
    BY <2>1 DEF Dismiss
  <2>2. CASE \E s : HandleMerge(s, l)
    <3>1. PICK s : HandleMerge(s, l)
      BY <2>2
    <3>2. UnderWay({"merge"}) = {}
      BY <3>1 DEF HandleMerge
    <3>3. Send(Request("merge", l, Blank, NoRole, s, view.active))
      BY <3>1 DEF HandleMerge
    <3>4. QED
      BY <3>2, <3>3 DEF UnderWay
  <2>3. QED
    BY <2>1, <2>2
<1>1. PICK k \in {"merge", "dismiss"} : \E s, a :
          /\ Send(Request(k, l, Blank, NoRole, s, a))
          /\ k = "merge" => \A p \in net : p.kind # "merge"
  BY <1>0
<1>s. PICK s, a : /\ Send(Request(k, l, Blank, NoRole, s, a))
                  /\ k = "merge" => \A p \in net : p.kind # "merge"
  BY <1>1
<1>2. PICK q : q = Request(k, l, Blank, NoRole, s, a)
  OBVIOUS
<1>3. q.kind = k /\ q.label = l /\ q.state = "sent" /\ q.live
  BY <1>2, NewRequest
<1>4. net' = net \cup {q} /\ UNCHANGED nameVars /\ UNCHANGED <<view, card>> /\ ~astray
  <2>1. net' = net \cup {q} /\ UNCHANGED nameVars
    BY <1>s, <1>2 DEF Send
  <2>2. UNCHANGED <<view, card>> /\ ~astray
    <3>1. CASE Dismiss(l)
      BY <3>1 DEF Dismiss
    <3>2. CASE \E x : HandleMerge(x, l)
      <4>1. PICK x : HandleMerge(x, l)
        BY <3>2
      <4>2. UNCHANGED <<view, card>> /\ astray' = (astray \/ UnderWay({"merge"}) # {})
        BY <4>1 DEF HandleMerge
      <4>3. QED
        BY <4>2
    <3>3. QED
      BY <3>1, <3>2
  <2>3. QED
    BY <2>1, <2>2
<1>5. q.kind \notin Naming /\ q.kind # "name" /\ q.kind # "role" /\ Following
  BY <1>3, <1>4 DEF Naming
<1>8. \A p \in net : p.label \in Label
  BY DEF NetShaped, RequestShaped
<1>9. QED
  BY <1>s, <1>3, <1>4, <1>5, <1>8, SendFollows

\* The page is loaded again.
LEMMA ReloadFollows ==
    ASSUME Reload
    PROVE  ViewShaped' /\ (~astray' => Following')
<1>1. view' = [segs |-> GetSegments, unmatched |-> GetUnmatched, active |-> None]
      /\ UNCHANGED <<segs, rows>> /\ astray' = (net' # {})
  BY DEF Reload, LoadPage, nameVars, dbVars
<1>2. PICK s : s = GetSegments
  OBVIOUS
<1>3. /\ DOMAIN s = Position
      /\ \A i \in Position : /\ DOMAIN s[i] = SegmentFields
                             /\ s[i].label = segs[i]
                             /\ Fits(s[i], NameIn(segs[i]), ReviewIn(segs[i]))
      /\ \A i, j \in Position : s[i].label = s[j].label => s[i].name = s[j].name
  BY <1>2, LoadedFollows
<1>4. view'.segs = s /\ DOMAIN view' = {"segs", "unmatched", "active"}
  BY <1>1, <1>2
<1>5. ViewShaped'
  BY <1>3, <1>4 DEF ViewShaped
<1>6. ASSUME ~astray' PROVE Following'
  <2>1. net' = {}
    BY <1>1, <1>6
  <2>2. \A l : NameIn(l)' = NameIn(l) /\ ReviewIn(l)' = ReviewIn(l)
    BY <1>1 DEF NameIn, ReviewIn
  <2>3. \A i \in Position : /\ view'.segs[i].label = segs'[i]
                            /\ Fits(view'.segs[i], NameIn(segs[i])', ReviewIn(segs[i])')
    <3>1. TAKE i \in Position
    <3>2. segs' = segs
      BY <1>1
    <3>3. QED
      BY <1>3, <1>4, <2>2, <3>2 DEF Fits
  <2>4. OneName'
    BY <1>3, <1>4 DEF OneName
  <2>5. (net = {})' /\ (\A i \in Position : /\ view.segs[i].label = segs[i]
                                            /\ Fits(view.segs[i], NameIn(segs[i]), ReviewIn(segs[i])))'
    BY <2>1, <2>3, <1>1 DEF Fits
  <2>6. QED
    BY <2>4, <2>5, QuietFollows, PTL
<1>7. QED
  BY <1>5, <1>6

-----------------------------------------------------------------------------
(* Every step.                                                             *)

\* The steps of the user that send nothing.
LEMMA PageFollowsLocally ==
    ASSUME FollowInv, NetShaped, PanelShaped, NEW l \in Label,
           \/ Edit(l) \/ CancelEdit(l) \/ FilterSpeaker(l)
           \/ ShowAll \/ EnterMergeMode \/ ExitMergeMode
    PROVE  FollowInv'
<1>1. UNCHANGED nameVars /\ net' = net /\ astray' = astray
  BY DEF Edit, CancelEdit, FilterSpeaker, ShowAll, EnterMergeMode, ExitMergeMode, MergeLocal
<1>2. view'.segs = view.segs /\ DOMAIN view' = DOMAIN view
  BY DEF FollowInv, ViewShaped, Edit, CancelEdit, FilterSpeaker, ShowAll, EnterMergeMode,
         ExitMergeMode, MergeLocal
<1>3. \A k \in Label : card'[k].saving = card[k].saving /\ card'[k].savingRole = card[k].savingRole
  BY DEF PanelShaped, Edit, CancelEdit, FilterSpeaker, ShowAll, EnterMergeMode,
         ExitMergeMode, MergeLocal
<1>4. ViewShaped'
  BY <1>2 DEF FollowInv, ViewShaped
<1>5. Following => Following'
  BY <1>1, <1>2, <1>3, LocalFollows
<1>6. QED
  BY <1>1, <1>4, <1>5 DEF FollowInv

\* What the user does keeps it.
LEMMA UserFollows == ASSUME FollowInv, NetShaped, PanelShaped, User PROVE FollowInv'
<1>1. CASE \E l \in Label : Edit(l) \/ CancelEdit(l) \/ FilterSpeaker(l)
  BY <1>1, PageFollowsLocally
<1>2. CASE ShowAll \/ EnterMergeMode \/ ExitMergeMode
  <2>1. 0 \in Label
    BY SizeAssumption DEF Label
  <2>2. QED
    BY <1>2, <2>1, PageFollowsLocally
<1>3. CASE Reload
  BY <1>3, ReloadFollows DEF FollowInv
<1>4. ASSUME NEW l \in Label, ConfirmInferredName(l) PROVE FollowInv'
  <2>1. PersistName(l, Speakers[l].name) /\ Card(l) /\ ~card[l].saving
    BY <1>4 DEF ConfirmInferredName, CardIdle
  <2>2. view' = view /\ (astray => astray')
    BY <2>1 DEF PersistName
  <2>3. ASSUME ~astray' PROVE Following'
    <3>1. Following
      BY <2>2, <2>3 DEF FollowInv
    <3>2. Speakers[l].name # Blank
      BY <2>1, <3>1, CardName DEF Following
    <3>3. QED
      BY <2>1, <2>3, <3>1, <3>2, NameSentFollows
  <2>4. QED
    BY <2>2, <2>3 DEF FollowInv, ViewShaped
<1>5. ASSUME NEW l \in Label, NEW n, Save(l, n) PROVE FollowInv'
  <2>1. PersistName(l, n) /\ Card(l) /\ ~card[l].saving /\ n # Blank
    BY <1>5 DEF Save, SaveNothing
  <2>2. view' = view /\ (astray => astray')
    BY <2>1 DEF PersistName
  <2>3. ASSUME ~astray' PROVE Following'
    <3>1. Following
      BY <2>2, <2>3 DEF FollowInv
    <3>2. QED
      BY <2>1, <2>3, <3>1, NameSentFollows
  <2>4. QED
    BY <2>2, <2>3 DEF FollowInv, ViewShaped
<1>6. ASSUME NEW l \in Label, NEW r, PersistRole(l, r) PROVE FollowInv'
  <2>1. view' = view /\ (astray => astray')
    BY <1>6 DEF PersistRole
  <2>2. ASSUME ~astray' PROVE Following'
    <3>1. Following
      BY <2>1, <2>2 DEF FollowInv
    <3>2. QED
      BY <1>6, <2>2, <3>1, RoleSentFollows
  <2>3. QED
    BY <2>1, <2>2 DEF FollowInv, ViewShaped
<1>7. ASSUME NEW l \in Label, Dismiss(l) \/ \E s : HandleMerge(s, l) PROVE FollowInv'
  <2>1. view' = view /\ (astray => astray')
    <3>1. CASE Dismiss(l)
      BY <3>1 DEF Dismiss
    <3>2. CASE \E s : HandleMerge(s, l)
      BY <3>2 DEF HandleMerge
    <3>3. QED
      BY <1>7, <3>1, <3>2
  <2>2. ASSUME ~astray' PROVE Following'
    <3>1. Following
      BY <2>1, <2>2 DEF FollowInv
    <3>2. QED
      BY <1>7, <2>2, <3>1, OtherSentFollows
  <2>3. QED
    BY <2>1, <2>2 DEF FollowInv, ViewShaped
<1>8. CASE \E l \in Label :
            \/ Edit(l) \/ CancelEdit(l) \/ ConfirmInferredName(l) \/ FilterSpeaker(l)
            \/ Dismiss(l)
            \/ \E sources \in SUBSET Label : HandleMerge(sources, l)
            \/ \E n \in Name \ {OwnLabel} : Save(l, n)
            \/ \E r \in Buttons : PersistRole(l, r)
  <2>1. PICK l \in Label :
            \/ Edit(l) \/ CancelEdit(l) \/ ConfirmInferredName(l) \/ FilterSpeaker(l)
            \/ Dismiss(l)
            \/ \E sources \in SUBSET Label : HandleMerge(sources, l)
            \/ \E n \in Name \ {OwnLabel} : Save(l, n)
            \/ \E r \in Buttons : PersistRole(l, r)
    BY <1>8
  <2>2. CASE \E sources \in SUBSET Label : HandleMerge(sources, l)
    BY <2>2, <1>7
  <2>3. CASE \E n \in Name \ {OwnLabel} : Save(l, n)
    BY <2>3, <1>5
  <2>4. CASE \E r \in Buttons : PersistRole(l, r)
    BY <2>4, <1>6
  <2>5. QED
    BY <2>1, <2>2, <2>3, <2>4, <1>1, <1>4, <1>7
<1>9. QED
  BY <1>2, <1>3, <1>8 DEF User

\* So does what the server does, and what the page hears.
LEMMA NetworkFollows == ASSUME FollowInv, NetShaped, PanelShaped, Network PROVE FollowInv'
<1>1. PICK q \in net : Serve(q) \/ Refuse(q) \/ LoseAnswer(q) \/ Answer(q)
  BY DEF Network
<1>2. CASE Serve(q) \/ Refuse(q)
  <2>1. view' = view /\ (astray => astray')
    <3>1. CASE Serve(q)
      BY <3>1 DEF Serve
    <3>2. CASE Refuse(q)
      BY <3>2 DEF Refuse
    <3>3. QED
      BY <1>2, <3>1, <3>2
  <2>2. Following => Following'
    BY <1>2, ServeFollows
  <2>3. QED
    BY <2>1, <2>2 DEF FollowInv, ViewShaped
<1>3. CASE LoseAnswer(q)
  BY <1>3 DEF LoseAnswer, FollowInv, ViewShaped
<1>4. CASE Answer(q)
  <2>1. astray' = astray
    BY <1>4 DEF Answer
  <2>2. ViewShaped
    BY DEF FollowInv
  <2>3. ViewShaped' /\ (Following => Following')
    BY <1>4, <2>2, AnswerFollows
  <2>4. QED
    BY <2>1, <2>3 DEF FollowInv
<1>5. QED
  BY <1>1, <1>2, <1>3, <1>4

\* A step that leaves the page, its requests and the rows alone.
LEMMA ElsewhereFollows ==
    ASSUME FollowInv, UNCHANGED <<view, card, net>>, astray => astray',
           ~astray' => UNCHANGED <<segs, rows>>
    PROVE  FollowInv'
<1>1. ViewShaped'
  BY DEF FollowInv, ViewShaped
<1>2. ASSUME ~astray' PROVE Following'
  <2>1. Following /\ UNCHANGED <<segs, rows>>
    BY <1>2 DEF FollowInv
  <2>2. TargetShown' /\ OneName' /\ \A i \in Position : InPlace(i)'
    BY <2>1, SameFollowing
  <2>3. \A l : Card(l)' = Card(l)
    BY DEF Card
  <2>4. CardsHeld'
    BY <2>1, <2>3 DEF Following, CardsHeld
  <2>5. NamesAgree' /\ OneEach' /\ (\A q \in net : q.live)'
    BY <2>1 DEF Following, NamesAgree, OneEach
  <2>6. QED
    BY <2>2, <2>4, <2>5 DEF Following
<1>3. QED
  BY <1>1, <1>2 DEF FollowInv

\* So does every step.
LEMMA FollowStep == ASSUME FollowInv, NetShaped, PanelShaped, [Next]_vars PROVE FollowInv'
<1>1. CASE User
  BY <1>1, UserFollows
<1>2. CASE Network
  BY <1>2, NetworkFollows
<1>3. CASE PipelineStep
  <2>1. UNCHANGED <<view, card, net>> /\ astray' = (astray \/ <<segs', rows'>> # <<segs, rows>>)
    BY <1>3 DEF PipelineStep
  <2>2. QED
    BY <2>1, ElsewhereFollows
<1>4. CASE UNCHANGED vars
  <2>1. UNCHANGED <<view, card, net, astray, segs, rows>>
    BY <1>4 DEF vars, panelVars, nameVars, dbVars
  <2>2. QED
    BY <2>1, ElsewhereFollows
<1>5. QED
  BY <1>1, <1>2, <1>3, <1>4 DEF Next

\* The first page follows the rows.
LEMMA FollowStart == PanelInit => FollowInv
<1> SUFFICES ASSUME PanelInit PROVE FollowInv
  OBVIOUS
<1>1. view = [segs |-> GetSegments, unmatched |-> GetUnmatched, active |-> None] /\ net = {}
  BY DEF PanelInit
<1>2. PICK s : s = GetSegments
  OBVIOUS
<1>3. /\ DOMAIN s = Position
      /\ \A i \in Position : /\ DOMAIN s[i] = SegmentFields
                             /\ s[i].label = segs[i]
                             /\ Fits(s[i], NameIn(segs[i]), ReviewIn(segs[i]))
      /\ \A i, j \in Position : s[i].label = s[j].label => s[i].name = s[j].name
  BY <1>2, LoadedFollows
<1>4. view.segs = s /\ DOMAIN view = {"segs", "unmatched", "active"}
  BY <1>1, <1>2
<1>5. ViewShaped /\ OneName
  BY <1>3, <1>4 DEF ViewShaped, OneName
<1>6. QED
  BY <1>1, <1>3, <1>4, <1>5, QuietFollows DEF FollowInv

\* With every request answered, what the page shows is what a reload would show.
LEMMA FollowSuffices == FollowInv => PageFollows
<1> SUFFICES ASSUME FollowInv, net = {}, ~astray, NEW i \in Position
             PROVE  /\ view.segs[i].label = GetSegments[i].label
                    /\ Shown(view.segs[i].name) = Shown(GetSegments[i].name)
                    /\ GetSegments[i].name # Blank => view.segs[i].review = GetSegments[i].review
  BY DEF PageFollows
<1>1. Moving = {} /\ \A K : Done(K) = {}
  BY DEF Moving, Done
<1>2. InPlace(i)
  BY DEF FollowInv, Following
<1>3. /\ segs[i] = view.segs[i].label
      /\ Fits(view.segs[i], NameIn(segs[i]), ReviewIn(segs[i]))
  BY <1>1, <1>2 DEF InPlace
<1>4. QED
  BY <1>3, Joined DEF Fits, Shown

\* With no request under way, and nothing done that the page cannot know of, the page shows
\* the labels, the names and the review marks that a reload would show, whatever requests
\* overtook each other before (TranscriptSection.tsx: handleRenamed, handleRoleChanged,
\* handleMerged; speakers/route.ts).
THEOREM PageShowsRows == Spec => []PageFollows
<1>1. PanelInit => PanelInv /\ FollowInv
  BY PanelStart, FollowStart
<1>2. PanelInv /\ FollowInv /\ [Next]_vars => PanelInv' /\ FollowInv'
  BY PanelStep, FollowStep DEF PanelInv
<1>3. FollowInv => PageFollows
  BY FollowSuffices
<1>4. QED
  BY <1>1, <1>2, <1>3, PTL DEF Spec
=============================================================================
