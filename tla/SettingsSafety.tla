--------------------------- MODULE SettingsSafety ---------------------------
(***************************************************************************)
(* What the Settings page shows and drops, for every set of fields,        *)
(* prompts and backups and any number of edits and requests.  Two          *)
(* invariants, each on top of the turns of SettingsProofs:                 *)
(*   ShowsInv   what is shown and not unsaved is stored, or will be shown  *)
(*              when the answer under way has come,                        *)
(*   DraftsInv  what a load under way may drop of a prompt's drafts.       *)
(***************************************************************************)
EXTENDS SettingsProofs, NaturalsInduction, WellFoundedInduction

-----------------------------------------------------------------------------
(* What the page shows.  As long as no request overlapped another and no   *)
(* answer was lost, what the page shows and does not count as unsaved is   *)
(* what the server has, or the answer that says so is under way.           *)

\* The server's answer for one setting.
Resp(f, v) == IF f \in Sensitive THEN Masked ELSE IF v = Empty THEN FromEnv ELSE v

\* An answer tells what the server has.
Fresh(q) ==
    /\ q.kind \in {"N", "I", "getSettings"} => q.settings = Respond(db.settings)
    /\ q.kind \in {"N", "I"} => \A f \in DOMAIN q.patch : db.settings[f] = q.patch[f]
    /\ q.kind = "getPrompts" => q.prompts = db.prompts
    /\ q.kind = "getBackups" =>
         q.backups.retention = db.retention /\ q.backups.dumps = db.dumps
    /\ q.kind = "putRetention" => q.retention = db.retention

\* A request of the page, the answer to it if there is one.
Whole(q) ==
    /\ q.live /\ q.state \in {"sent", "ok", "refused", "lost"}
    /\ q.kind = "putRetention" => "retention" \in DOMAIN q
    /\ q.kind = "getPrompts" => "settled" \in DOMAIN q
    /\ q.kind \in {"getPrompts", "getBackups"} => q.state \in {"sent", "ok"}
    /\ q.kind = "putPrompt" /\ q.state = "lost" => q.done = {}
    /\ q.state = "ok" => Fresh(q)
NetShows == \A q \in net : Whole(q)

\* Edits of a tab that are unsaved still, or stored.
Known(d, now) == \A f \in DOMAIN d : f \in DOMAIN now \/ Resp(f, d[f]) = Resp(f, db.settings[f])
Other(id) == IF id = "N" THEN form.dirtyI ELSE form.dirtyN
Theirs(e) == IF e.id = "N" THEN e.dirtyI ELSE e.dirtyN
OverOK ==
    /\ \A q \in net : IsSave(q) => Known(q.over, Other(q.kind))
    /\ \A i \in DOMAIN next : next[i].id \in {"N", "I"} => Known(Theirs(next[i]), Other(next[i].id))

\* The form.
Saves(q) == IsSave(q) /\ q.state = "ok"
FormShows ==
    form.state = "ready" =>
        /\ Field \subseteq DOMAIN form.shown
        /\ form.saved = Respond(db.settings) \/ \E q \in net : Saves(q)
        /\ \A f \in Field : \/ f \in DOMAIN form.dirtyN \/ f \in DOMAIN form.dirtyI
                            \/ Resp(f, form.shown[f]) = Resp(f, form.saved[f])

\* The prompts.
Carries(q, k) ==
    \/ q.kind \in {"putPrompt", "resetPrompt"} /\ q.state = "ok" /\ q.key = k
    \/ q.kind = "putPrompt" /\ k \in q.done
    \/ q.kind = "getPrompts" /\ k \in q.settled
PromptsShow ==
    prompts.list # NoPrompts =>
        /\ prompts.list = [k \in Key |-> prompts.list[k]]
        /\ \A k \in Key : prompts.list[k] = db.prompts[k] \/ \E q \in net : Carries(q, k)

\* The backups.
Retains(q) == q.kind = "putRetention" /\ q.state = "ok"
Drops(q) == \/ q.kind = "deleteDump" /\ q.state = "ok"
            \/ q.kind = "getBackups" /\ q.owner = "delete"
BackupsShow ==
    backups.state = "ready" =>
        /\ backups.retention = db.retention \/ \E q \in net : Retains(q)
        /\ backups.dumps = db.dumps \/ \E q \in net : Drops(q)

Shows == NetShows /\ OverOK /\ FormShows /\ PromptsShow /\ BackupsShow
ShowsInv == /\ db.prompts = [k \in Key |-> db.prompts[k]]
            /\ ~astray => Shows

\* The server answers what was stored with what it would answer.
LEMMA RespondIs ==
    /\ \A s, f : f \in Field => Respond(s)[f] = Resp(f, s[f])
    /\ \A f, v : Resp(f, Resp(f, v)) = Resp(f, v)
    /\ \A s : Field \subseteq DOMAIN Respond(s)
<1>1. \A s, f : f \in Field => Respond(s)[f] = Resp(f, s[f])
  BY DEF Respond, Resp
<1>2. FromEnv # Empty
  BY DEF FromEnv, Empty
<1>3. \A f, v : Resp(f, Resp(f, v)) = Resp(f, v)
  BY <1>2 DEF Resp
<1>4. \A s : Field \subseteq DOMAIN Respond(s)
  BY DEF Respond
<1>5. QED
  BY <1>1, <1>3, <1>4

-----------------------------------------------------------------------------
(* What stays.                                                             *)

\* Requests that are whole stay so, others come whole.
LEMMA NetStays ==
    ASSUME NetShows, db' = db, NEW N, \A p \in N : Whole(p), net' \subseteq net \cup N
    PROVE  NetShows'
<1>1. ASSUME NEW p, Whole(p) PROVE Whole(p)'
  BY <1>1 DEF Whole, Fresh
<1>2. QED
  BY <1>1 DEF NetShows

\* What is sent is whole.
LEMMA SentWhole ==
    ASSUME NEW p, NEW kind, NEW rest, Sent(p, kind, rest),
           kind = "putRetention" => "retention" \in DOMAIN p,
           kind = "getPrompts" => "settled" \in DOMAIN p
    PROVE  Whole(p) /\ ~Saves(p) /\ ~Retains(p)
BY DEF Whole, Sent, Saves, Retains

\* The edits that an entry or a save laid aside.
LEMMA KnownStays ==
    ASSUME NEW d, NEW now, NEW later, Known(d, now), DOMAIN now \subseteq DOMAIN later, db'.settings = db.settings
    PROVE  Known(d, later)'
BY DEF Known

LEMMA OverStays ==
    ASSUME OverOK, db'.settings = db.settings,
           next' = << >> \/ \A i \in DOMAIN next' : next'[i].id \notin {"N", "I"},
           DOMAIN form.dirtyN \subseteq DOMAIN form'.dirtyN, DOMAIN form.dirtyI \subseteq DOMAIN form'.dirtyI,
           \A q \in net' : IsSave(q) => \E p \in net : IsSave(p) /\ p.kind = q.kind /\ p.over = q.over
    PROVE  OverOK'
<1>1. ASSUME NEW q \in net', IsSave(q) PROVE Known(q.over, Other(q.kind))'
  <2>1. PICK p \in net : IsSave(p) /\ p.kind = q.kind /\ p.over = q.over
    BY <1>1
  <2>2. Known(q.over, Other(q.kind))
    BY <2>1 DEF OverOK
  <2>3. DOMAIN Other(q.kind) \subseteq DOMAIN Other(q.kind)'
    BY DEF Other
  <2>4. QED
    BY <2>2, <2>3 DEF Known
<1>2. QED
  BY <1>1 DEF OverOK

\* What is shown stays.
FormSame ==
    /\ form'.state = form.state /\ form'.shown = form.shown /\ form'.saved = form.saved
    /\ form'.dirtyN = form.dirtyN /\ form'.dirtyI = form.dirtyI
BackupsSame ==
    /\ backups'.state = backups.state /\ backups'.retention = backups.retention
    /\ backups'.dumps = backups.dumps

LEMMA FormStays ==
    ASSUME FormShows, db'.settings = db.settings, FormSame,
           \A q \in net : Saves(q) => \E p \in net' : Saves(p)
    PROVE  FormShows'
<1>1. Respond(db.settings)' = Respond(db.settings)
  BY DEF Respond
<1>2. QED
  BY <1>1 DEF FormShows, FormSame

LEMMA PromptsStay ==
    ASSUME PromptsShow, db'.prompts = db.prompts, prompts'.list = prompts.list,
           \A q \in net, k \in Key : Carries(q, k) => \E p \in net' : Carries(p, k)
    PROVE  PromptsShow'
BY DEF PromptsShow

LEMMA BackupsStay ==
    ASSUME BackupsShow, db'.retention = db.retention, db'.dumps = db.dumps,
           BackupsSame,
           \A q \in net : Retains(q) => \E p \in net' : Retains(p),
           \A q \in net : Drops(q) => \E p \in net' : Drops(p)
    PROVE  BackupsShow'
BY DEF BackupsShow, BackupsSame

\* Requests are sent, the page shows what it did.
LEMMA SendsShow ==
    ASSUME Shows, db' = db, next' = << >>, FormSame, BackupsSame,
           prompts'.list = prompts.list, NEW N, \A p \in N : Whole(p) /\ ~IsSave(p), net' = net \cup N
    PROVE  Shows'
<1>1. NetShows'
  BY NetStays DEF Shows
<1>2. OverOK'
  BY OverStays DEF Shows, FormSame
<1>3. FormShows'
  BY FormStays DEF Shows
<1>4. PromptsShow'
  BY PromptsStay DEF Shows
<1>5. BackupsShow'
  BY BackupsStay DEF Shows
<1>6. QED
  BY <1>1, <1>2, <1>3, <1>4, <1>5 DEF Shows

-----------------------------------------------------------------------------
(* The user's steps.                                                       *)

\* One request is sent, or none.
LEMMA SendsOneShow ==
    ASSUME Shows, db' = db, next' = << >>, FormSame, BackupsSame, prompts'.list = prompts.list,
           NEW p, Whole(p), ~IsSave(p), net' = net \cup {p}
    PROVE  Shows'
<1>1. PICK N : N = {p}
  OBVIOUS
<1>2. net' = net \cup N /\ \A r \in N : Whole(r) /\ ~IsSave(r)
  BY <1>1
<1>3. QED
  BY <1>2, SendsShow

LEMMA SendsNoneShow ==
    ASSUME Shows, db' = db, next' = << >>, FormSame, BackupsSame, prompts'.list = prompts.list,
           net' = net
    PROVE  Shows'
<1>1. PICK N : N = {}
  OBVIOUS
<1>2. net' = net \cup N /\ \A r \in N : Whole(r) /\ ~IsSave(r)
  BY <1>1
<1>3. QED
  BY <1>2, SendsShow

\* What the handlers send is whole.
LEMMA WholeSent ==
    ASSUME NEW kind, kind \notin {"N", "I", "putRetention", "getPrompts"}, NEW args,
           Common \cap DOMAIN args = {}, NEW rest, NEW p, p = Request(kind, args, rest)
    PROVE  Whole(p) /\ ~IsSave(p)
<1>1. Sent(p, kind, rest)
  BY SentIs
<1>2. Whole(p)
  BY <1>1, SentWhole
<1>3. QED
  BY <1>1, <1>2 DEF IsSave, Sent

LEMMA WholeLoad ==
    ASSUME NEW settled, NEW owner, NEW rest, NEW p, p = Load(settled, owner, rest)
    PROVE  Whole(p) /\ ~IsSave(p)
<1>1. IsLoad(p, settled, owner, rest)
  BY LoadIs
<1>2. Whole(p)
  BY <1>1, SentWhole DEF IsLoad
<1>3. QED
  BY <1>1, <1>2 DEF IsLoad, IsSave, Sent

LEMMA WholePut ==
    ASSUME NEW k, NEW text, NEW todo, NEW done, NEW owner, NEW rest, NEW p,
           IsPut(p, k, text, todo, done, owner, rest)
    PROVE  Whole(p) /\ ~IsSave(p)
<1>1. Whole(p)
  BY SentWhole DEF IsPut
<1>2. QED
  BY <1>1 DEF IsPut, IsSave, Sent

LEMMA WholeRetention ==
    ASSUME NEW r, NEW rest, NEW p, p = Request("putRetention", [retention |-> r], rest)
    PROVE  Whole(p) /\ ~IsSave(p)
<1>1. PICK args : args = [retention |-> r]
  OBVIOUS
<1>2. DOMAIN args = {"retention"}
  BY <1>1
<1>3. Common \cap DOMAIN args = {}
  BY <1>2 DEF Common
<1>4. PICK q : q = Request("putRetention", args, rest)
  OBVIOUS
<1>5. Sent(q, "putRetention", rest) /\ "retention" \in DOMAIN q
  BY <1>2, <1>3, <1>4, SentIs, NewShape
<1>6. Whole(q) /\ ~IsSave(q)
  BY <1>5, SentWhole DEF IsSave, Sent
<1>7. QED
  BY <1>1, <1>4, <1>6

\* Opening the page.
LEMMA OpenShows == ASSUME TurnsInv, Shows, Idle, Open PROVE Shows'
<1>1. form' = NoForm /\ next' = << >> /\ UNCHANGED <<db, prompts, backups>> /\ form.state = "left"
  BY DEF Open, Idle
<1>2. PICK p : p = Request("getSettings", << >>, << >>)
  OBVIOUS
<1>3. net' = net \cup {p}
  BY <1>2 DEF Open
<1>4. Whole(p) /\ ~IsSave(p)
  <2>1. Common \cap DOMAIN << >> = {}
    OBVIOUS
  <2>2. QED
    BY <1>2, <2>1, WholeSent
<1>5. PICK N : N = {p}
  OBVIOUS
<1>6. NetShows'
  BY <1>1, <1>3, <1>4, <1>5, NetStays DEF Shows
<1>7. FormShows' /\ PromptsShow' /\ BackupsShow'
  <2>1. FormShows'
    BY <1>1 DEF FormShows, NoForm
  <2>2. PromptsShow'
    BY <1>1, <1>3, PromptsStay DEF Shows
  <2>3. BackupsShow'
    BY <1>1, <1>3, BackupsStay DEF Shows, BackupsSame
  <2>4. QED
    BY <2>1, <2>2, <2>3
<1>8. OverOK'
  <2>1. \A q \in net' : ~IsSave(q)
    BY <1>1, <1>3, <1>4 DEF TurnsInv, Away, IsSave
  <2>2. QED
    BY <1>1, <2>1 DEF OverOK
<1>9. QED
  BY <1>6, <1>7, <1>8 DEF Shows

\* Leaving it.
LEMMA LeaveShows ==
    ASSUME TurnsInv, SavingInv, Idle, NEW how, NEW yes, Leave(how, yes), ~astray' PROVE Shows'
<1>1. /\ net' = {} /\ next' = << >> /\ form'.state = "left"
      /\ prompts'.list = NoPrompts /\ backups'.state = "loading"
  BY DEF Leave, NoForm, NoSection, NoBackups, Idle
<1>2. QED
  BY <1>1 DEF Shows, NetShows, OverOK, FormShows, PromptsShow, BackupsShow

\* A change of a field is an unsaved one.
LEMMA ChangeShows ==
    ASSUME TurnsInv, SavingInv, Shows, Idle, NEW f \in Field, NEW v, HandleChange(f, v)
    PROVE  Shows'
<1>1. form.state = "ready" /\ net' = net /\ next' = << >> /\ UNCHANGED <<db, prompts, backups>>
  BY DEF HandleChange, Ready, Idle
<1>2. {"state", "shown", "saved", "dirtyN", "dirtyI"} \subseteq DOMAIN form
  BY Fields DEF SavingInv, FormFields
<1>3. PICK s : s = [form.shown EXCEPT ![f] = v]
  OBVIOUS
<1>4. DOMAIN s = DOMAIN form.shown /\ \A g \in Field : g # f => s[g] = form.shown[g]
  BY <1>3
<1>5. Edits(form.dirtyN, NotificationFields) /\ Edits(form.dirtyI, ModelFields)
  BY DEF TurnsInv, TabsOK
<1>6. /\ form'.state = "ready" /\ form'.saved = form.saved /\ form'.shown = s
      /\ \/ DOMAIN form'.dirtyI = {f} \cup DOMAIN form.dirtyI /\ form'.dirtyN = form.dirtyN
         \/ DOMAIN form'.dirtyN = {f} \cup DOMAIN form.dirtyN /\ form'.dirtyI = form.dirtyI
  <2>1. CASE f \in ModelFields
    <3>1. PICK e : e = With(form.dirtyI, f, v)
      OBVIOUS
    <3>2. form' = [form EXCEPT !.shown = s, !.dirtyI = e]
      BY <1>2, <1>3, <2>1, <3>1 DEF HandleChange, With
    <3>3. DOMAIN e = {f} \cup DOMAIN form.dirtyI
      <4>1. f \in ModelFields /\ Edits(form.dirtyI, ModelFields)
        BY <1>5, <2>1
      <4>2. QED
        BY <3>1, <4>1, OneMoreEdit
    <3>4. form'.dirtyI = e /\ form'.dirtyN = form.dirtyN /\ form'.state = "ready" /\ form'.saved = form.saved
          /\ form'.shown = s
      BY <1>1, <1>2, <3>2
    <3>5. QED
      BY <3>3, <3>4
  <2>2. CASE f \notin ModelFields
    <3>1. PICK e : e = With(form.dirtyN, f, v)
      OBVIOUS
    <3>2. form' = [form EXCEPT !.shown = s, !.dirtyN = e]
      BY <1>2, <1>3, <2>2, <3>1 DEF HandleChange, With
    <3>3. DOMAIN e = {f} \cup DOMAIN form.dirtyN
      <4>1. f \in NotificationFields /\ Edits(form.dirtyN, NotificationFields)
        BY <1>5, <2>2 DEF Field
      <4>2. QED
        BY <3>1, <4>1, OneMoreEdit
    <3>4. form'.dirtyN = e /\ form'.dirtyI = form.dirtyI /\ form'.state = "ready" /\ form'.saved = form.saved
          /\ form'.shown = s
      BY <1>1, <1>2, <3>2
    <3>5. QED
      BY <3>3, <3>4
  <2>3. QED
    BY <2>1, <2>2
<1>7. FormShows'
  <2>1. Field \subseteq DOMAIN form'.shown
    BY <1>1, <1>4, <1>6 DEF Shows, FormShows
  <2>2. form'.saved = Respond(db.settings)' \/ \E q \in net' : Saves(q)
    BY <1>1, <1>6 DEF Shows, FormShows, Respond
  <2>3. ASSUME NEW g \in Field, g \notin DOMAIN form'.dirtyN, g \notin DOMAIN form'.dirtyI
        PROVE Resp(g, form'.shown[g]) = Resp(g, form'.saved[g])
    <3>1. g # f /\ g \notin DOMAIN form.dirtyN /\ g \notin DOMAIN form.dirtyI
      BY <1>6, <2>3
    <3>2. Resp(g, form.shown[g]) = Resp(g, form.saved[g])
      BY <1>1, <3>1 DEF Shows, FormShows
    <3>3. QED
      BY <1>4, <1>6, <3>1, <3>2
  <2>4. QED
    BY <2>1, <2>2, <2>3 DEF FormShows
<1>8. PICK N : N = {}
  OBVIOUS
<1>9. NetShows'
  BY <1>1, <1>8, NetStays DEF Shows
<1>10. OverOK'
  BY <1>1, <1>6, OverStays DEF Shows
<1>11. PromptsShow'
  BY <1>1, PromptsStay DEF Shows
<1>12. BackupsShow'
  BY <1>1, BackupsStay DEF Shows, BackupsSame
<1>13. QED
  BY <1>7, <1>9, <1>10, <1>11, <1>12 DEF Shows

LEMMA EditSettingsShows == ASSUME TurnsInv, SavingInv, Shows, Idle, EditSettings PROVE Shows'
<1>1. ASSUME NEW f \in Field, NEW v, HandleChange(f, v) PROVE Shows'
  BY <1>1, ChangeShows
<1>2. CASE SendTest
  <2>1. /\ form' = [form EXCEPT !.testing = TRUE] /\ next' = << >>
        /\ UNCHANGED <<db, prompts, backups>>
    BY <1>2 DEF SendTest, Idle
  <2>2. {"state", "shown", "saved", "dirtyN", "dirtyI"} \subseteq DOMAIN form
    BY Fields DEF SavingInv, FormFields
  <2>3. FormSame /\ BackupsSame
    BY <2>1, <2>2 DEF FormSame, BackupsSame
  <2>4. PICK p : p = Request("test", << >>, << >>)
    OBVIOUS
  <2>5. Whole(p) /\ ~IsSave(p)
    <3>1. Common \cap DOMAIN << >> = {}
      OBVIOUS
    <3>2. QED
      BY <2>4, <3>1, WholeSent
  <2>6. net' = net \cup {p}
    BY <1>2, <2>4 DEF SendTest
  <2>7. QED
    BY <2>1, <2>3, <2>5, <2>6, SendsOneShow
<1>3. TextFields \cup ListFields \cup ModelFields = Field
  BY DEF Field, NotificationFields
<1>4. QED
  BY <1>1, <1>2, <1>3 DEF EditSettings, TypeText, EditInPlace, AddEmail, RemoveEmail, PickModel

\* The form is as it was.
LEMMA SameShown == (form' = form => FormSame) /\ (backups' = backups => BackupsSame)
BY DEF FormSame, BackupsSame

LEMMA EditPromptsShows == ASSUME TurnsInv, SavingInv, Shows, Idle, EditPrompts PROVE Shows'
<1>1. PICK k \in Key : SavePrompt(k) \/ ResetPrompt(k) \/ \E t \in Atom \cup {Blank} : TypePrompt(k, t)
  BY DEF EditPrompts
<1>2. {"list", "drafts", "busy", "all"} \subseteq DOMAIN prompts
  BY Fields DEF SavingInv, PromptFields
<1>3. next' = << >> /\ FormSame /\ BackupsSame /\ db' = db
  BY <1>1, SameShown DEF SavePrompt, ResetPrompt, TypePrompt, Idle
<1>4. prompts'.list = prompts.list
  <2>1. \/ prompts' = [prompts EXCEPT !.busy = k]
        \/ \E d : prompts' = [prompts EXCEPT !.drafts = d]
    BY <1>1 DEF SavePrompt, ResetPrompt, TypePrompt
  <2>2. QED
    BY <1>2, <2>1
<1>5. CASE SavePrompt(k)
  <2>1. PICK p : p = Request("putPrompt", [key |-> k, text |-> prompts.drafts[k], todo |-> << >>, done |-> {},
                                           owner |-> "one"], << >>)
    OBVIOUS
  <2>2. IsPut(p, k, prompts.drafts[k], << >>, {}, "one", << >>)
    BY <2>1, PutIs
  <2>3. Whole(p) /\ ~IsSave(p)
    BY <2>2, WholePut
  <2>4. net' = net \cup {p}
    BY <1>5, <2>1 DEF SavePrompt
  <2>5. QED
    BY <1>3, <1>4, <2>3, <2>4, SendsOneShow
<1>6. CASE ResetPrompt(k)
  <2>1. PICK args : args = [key |-> k, owner |-> "one"]
    OBVIOUS
  <2>2. PICK p : p = Request("resetPrompt", args, << >>)
    OBVIOUS
  <2>3. Whole(p) /\ ~IsSave(p)
    <3>1. DOMAIN args = {"key", "owner"}
      BY <2>1
    <3>2. Common \cap DOMAIN args = {}
      BY <3>1 DEF Common
    <3>3. QED
      BY <2>2, <3>2, WholeSent
  <2>4. net' = net \cup {p}
    BY <1>6, <2>1, <2>2 DEF ResetPrompt
  <2>5. QED
    BY <1>3, <1>4, <2>3, <2>4, SendsOneShow
<1>7. CASE \E t \in Atom \cup {Blank} : TypePrompt(k, t)
  BY <1>3, <1>4, <1>7, SendsNoneShow DEF TypePrompt
<1>8. QED
  BY <1>1, <1>5, <1>6, <1>7

LEMMA EditBackupsShows == ASSUME TurnsInv, SavingInv, Shows, Idle, EditBackups PROVE Shows'
<1>1. next' = << >> /\ FormSame /\ prompts' = prompts /\ db' = db
  BY SameShown
  DEF EditBackups, TypeRetention, SaveRetention, CancelDelete, ConfirmDelete, RequestDelete, PutRetention, Idle
<1>2. {"state", "retention", "dumps", "draft", "saving", "pending", "deleting"} \subseteq DOMAIN backups
  BY Fields DEF SavingInv, BackupFields
<1>3. BackupsSame
  <2>1. \/ \E r : backups' = [backups EXCEPT !.draft = r]
        \/ backups' = [backups EXCEPT !.saving = TRUE]
        \/ \E d : backups' = [backups EXCEPT !.pending = d]
        \/ backups' = [backups EXCEPT !.deleting = TRUE]
    BY DEF EditBackups, TypeRetention, SaveRetention, CancelDelete, ConfirmDelete, RequestDelete, PutRetention
  <2>2. QED
    BY <1>2, <2>1 DEF BackupsSame
<1>4. CASE UNCHANGED net
  BY <1>1, <1>3, <1>4, SendsNoneShow
<1>5. CASE SaveRetention
  <2>1. PICK p : p = Request("putRetention", [retention |-> backups.draft], << >>)
    OBVIOUS
  <2>2. Whole(p) /\ ~IsSave(p)
    BY <2>1, WholeRetention
  <2>3. net' = net \cup {p}
    BY <1>5, <2>1 DEF SaveRetention, PutRetention
  <2>4. QED
    BY <1>1, <1>3, <2>2, <2>3, SendsOneShow
<1>6. CASE ConfirmDelete
  <2>1. PICK args : args = [dump |-> backups.pending]
    OBVIOUS
  <2>2. PICK p : p = Request("deleteDump", args, << >>)
    OBVIOUS
  <2>3. Whole(p) /\ ~IsSave(p)
    <3>1. DOMAIN args = {"dump"}
      BY <2>1
    <3>2. Common \cap DOMAIN args = {}
      BY <3>1 DEF Common
    <3>3. QED
      BY <2>2, <3>2, WholeSent
  <2>4. net' = net \cup {p}
    BY <1>6, <2>1, <2>2 DEF ConfirmDelete
  <2>5. QED
    BY <1>1, <1>3, <2>3, <2>4, SendsOneShow
<1>7. QED
  BY <1>4, <1>5, <1>6 DEF EditBackups, TypeRetention, CancelDelete, RequestDelete

LEMMA RetryLoadShows == ASSUME TurnsInv, SavingInv, Shows, Idle, RetryLoad PROVE Shows'
<1>1. PICK p : p = Load({}, "retry", << >>)
  OBVIOUS
<1>2. Whole(p) /\ ~IsSave(p)
  BY <1>1, WholeLoad
<1>3. next' = << >> /\ FormSame /\ BackupsSame /\ prompts' = prompts /\ db' = db /\ net' = net \cup {p}
  BY <1>1, SameShown DEF RetryLoad, Idle
<1>4. QED
  BY <1>2, <1>3, SendsOneShow

-----------------------------------------------------------------------------
(* The bar.                                                                *)

LEMMA BarSaveShows == ASSUME TurnsInv, SavingInv, Shows, Idle, BarSave PROVE Shows'
<1>1. /\ UNCHANGED <<db, form, prompts, backups, net>>
      /\ next' = [i \in DOMAIN Listed |->
                    [id |-> Listed[i], dirtyN |-> form.dirtyN, dirtyI |-> form.dirtyI]]
  BY DEF BarSave
<1>2. \A i \in DOMAIN next' : next'[i].dirtyN = form.dirtyN /\ next'[i].dirtyI = form.dirtyI
  BY <1>1
<1>3. PICK N : N = {}
  OBVIOUS
<1>4. NetShows'
  BY <1>1, <1>3, NetStays DEF Shows
<1>5. FormShows'
  BY <1>1, FormStays, SameShown DEF Shows
<1>6. PromptsShow'
  BY <1>1, PromptsStay DEF Shows
<1>7. BackupsShow'
  BY <1>1, BackupsStay, SameShown DEF Shows
<1>8. OverOK'
  <2>1. \A d, now : Known(d, now) => Known(d, now)'
    BY <1>1 DEF Known
  <2>2. \A id : Other(id)' = Other(id)
    BY <1>1 DEF Other
  <2>3. ASSUME NEW q \in net', IsSave(q) PROVE Known(q.over, Other(q.kind))'
    BY <1>1, <2>1, <2>2, <2>3 DEF Shows, OverOK
  <2>4. ASSUME NEW i \in DOMAIN next' PROVE Known(Theirs(next[i]), Other(next[i].id))'
    BY <1>1, <1>2 DEF Known, Theirs, Other
  <2>5. QED
    BY <2>3, <2>4 DEF OverOK
<1>9. QED
  BY <1>4, <1>5, <1>6, <1>7, <1>8 DEF Shows

LEMMA BarDiscardShows == ASSUME TurnsInv, SavingInv, Shows, Idle, BarDiscard PROVE Shows'
<1>1. db' = db /\ net' = net /\ next' = << >>
  BY DEF BarDiscard, Idle
<1>2. \A q \in net : ~IsSave(q)
  BY SavingIsListed DEF BarDiscard
<1>3. {"state", "shown", "saved", "dirtyN", "dirtyI", "saving", "testing"} \subseteq DOMAIN form
  BY Fields DEF SavingInv, FormFields
<1>4. PICK dirty : dirty = DOMAIN form.dirtyN \cup DOMAIN form.dirtyI
  OBVIOUS
<1>5. PICK s : s = [f \in Field |-> IF f \in dirty THEN form.saved[f] ELSE form.shown[f]]
  OBVIOUS
<1>6. form' = [[form EXCEPT !.shown = s] EXCEPT !.dirtyN = << >>, !.dirtyI = << >>]
  BY <1>4, <1>5 DEF BarDiscard, Revert
<1>7. form'.state = form.state /\ form'.saved = form.saved /\ form'.shown = s
  BY <1>3, <1>6
<1>8. PICK N : N = {}
  OBVIOUS
<1>9. NetShows'
  BY <1>1, <1>8, NetStays DEF Shows
<1>10. OverOK'
  BY <1>1, <1>2 DEF OverOK
<1>11. FormShows'
  <2>1. SUFFICES ASSUME form.state = "ready" PROVE FormShows'
    BY <1>7 DEF FormShows
  <2>2. Field \subseteq DOMAIN form'.shown
    BY <1>5, <1>7
  <2>3. form'.saved = Respond(db.settings)' \/ \E q \in net' : Saves(q)
    BY <1>1, <1>7, <2>1 DEF Shows, FormShows, Respond
  <2>4. ASSUME NEW g \in Field PROVE Resp(g, form'.shown[g]) = Resp(g, form'.saved[g])
    <3>1. CASE g \in dirty
      BY <1>5, <1>7, <3>1
    <3>2. CASE g \notin dirty
      <4>1. Resp(g, form.shown[g]) = Resp(g, form.saved[g])
        BY <1>4, <2>1, <3>2 DEF Shows, FormShows
      <4>2. QED
        BY <1>5, <1>7, <3>2, <4>1
    <3>3. QED
      BY <3>1, <3>2
  <2>5. QED
    BY <2>2, <2>3, <2>4 DEF FormShows
<1>12. PromptsShow'
  <2>1. {"list", "drafts", "busy", "all"} \subseteq DOMAIN prompts
    BY Fields DEF SavingInv, PromptFields
  <2>2. prompts'.list = prompts.list
    BY <2>1 DEF BarDiscard
  <2>3. QED
    BY <1>1, <2>2, PromptsStay DEF Shows
<1>13. BackupsShow'
  <2>1. {"state", "retention", "dumps", "draft", "saving", "pending", "deleting"} \subseteq DOMAIN backups
    BY Fields DEF SavingInv, BackupFields
  <2>2. BackupsSame
    BY <2>1 DEF BarDiscard, BackupsSame
  <2>3. QED
    BY <1>1, <2>2, BackupsStay DEF Shows
<1>14. QED
  BY <1>9, <1>10, <1>11, <1>12, <1>13 DEF Shows

\* The entry of a tab: it goes with what the other tab had unsaved when Save was pressed.
LEMMA SaveSettingsShows ==
    ASSUME SettingsInv, SavingInv, TurnsInv, Shows, next # << >>, NEW kind \in {"N", "I"},
           NEW e, NEW rest, e = Head(next), rest = Tail(next), e.id = kind,
           SaveSettings(kind, Mine(e), Theirs(e), rest), UNCHANGED <<db, prompts, backups>>
    PROVE  Shows'
<1>1. Entered(e) /\ Waits(next, {"N", "I", "P"})
  BY HeadTail
<1>2. Mine(e) # << >>
  BY <1>1 DEF Entered
<1>3. PICK args : args = [patch |-> Mine(e), over |-> Theirs(e)]
  OBVIOUS
<1>4. DOMAIN args = {"patch", "over"} /\ args.over = Theirs(e)
  BY <1>3
<1>5. PICK p : p = Request(kind, args, rest)
  OBVIOUS
<1>6. net' = net \cup {p} /\ next' = << >> /\ form' = [form EXCEPT !.saving = @ \cup {kind}]
  BY <1>2, <1>3, <1>5 DEF SaveSettings
<1>7. Sent(p, kind, rest) /\ DOMAIN args \subseteq DOMAIN p /\ \A x \in DOMAIN args : p[x] = args[x]
  <2>1. Common \cap DOMAIN args = {}
    BY <1>4 DEF Common
  <2>2. DOMAIN args \subseteq DOMAIN p /\ \A x \in DOMAIN args : p[x] = args[x]
    BY <1>5, <2>1, NewShape
  <2>3. Sent(p, kind, rest)
    BY <1>5, <2>1, SentIs
  <2>4. QED
    BY <2>2, <2>3
<1>8. p.over = Theirs(e) /\ p.kind = kind /\ Whole(p)
  <2>1. p.over = Theirs(e)
    BY <1>4, <1>7
  <2>2. Whole(p)
    BY <1>7, SentWhole
  <2>3. QED
    BY <1>7, <2>1, <2>2 DEF Sent
<1>9. FormSame
  <2>1. {"state", "shown", "saved", "dirtyN", "dirtyI", "saving", "testing"} \subseteq DOMAIN form
    BY Fields DEF SavingInv, FormFields
  <2>2. QED
    BY <1>6, <2>1 DEF FormSame
<1>10. PICK N : N = {p}
  OBVIOUS
<1>11. NetShows'
  BY <1>6, <1>8, <1>10, NetStays DEF Shows
<1>12. OverOK'
  <2>1. \A q \in net : ~IsSave(q)
    BY <1>1 DEF TurnsInv
  <2>2. Known(Theirs(e), Other(kind))
    <3>1. 1 \in DOMAIN next /\ e = next[1]
      <4>1. PICK S : next \in Seq(S)
        BY DEF SettingsInv, RestOK
      <4>2. QED
        BY <4>1
    <3>2. QED
      BY <3>1 DEF Shows, OverOK
  <2>3. Known(Theirs(e), Other(kind))'
    BY <1>9, <2>2 DEF Known, Other, FormSame, Theirs
  <2>4. QED
    BY <1>6, <1>8, <2>1, <2>3 DEF OverOK
<1>13. FormShows'
  BY <1>6, <1>9, FormStays DEF Shows
<1>14. PromptsShow'
  BY <1>6, PromptsStay DEF Shows
<1>15. BackupsShow'
  BY <1>6, BackupsStay, SameShown DEF Shows
<1>16. QED
  BY <1>11, <1>12, <1>13, <1>14, <1>15 DEF Shows

\* The entry of the prompts.
LEMMA SaveAllShows ==
    ASSUME SettingsInv, SavingInv, TurnsInv, Shows, next # << >>, NEW e, NEW rest, e = Head(next),
           rest = Tail(next), e.id = "P", SaveAllPrompts(rest), UNCHANGED <<db, form, backups>>
    PROVE  Shows'
<1>1. Queue(rest, 3) /\ Waits(next, {"P"}) /\ Waits(next, {"N", "I", "P"})
  BY HeadTail DEF Rank
<1>2. CASE next' = rest /\ UNCHANGED <<prompts, net>>
  <2>1. PICK N : N = {}
    OBVIOUS
  <2>2. NetShows'
    BY <1>2, <2>1, NetStays DEF Shows
  <2>3. OverOK'
    <3>1. \A q \in net : ~IsSave(q)
      BY <1>1 DEF TurnsInv
    <3>2. \A i \in DOMAIN rest : rest[i].id \notin {"N", "I"}
      BY <1>1 DEF Queue, Rank
    <3>3. QED
      BY <1>2, <3>1, <3>2 DEF OverOK
  <2>4. FormShows'
    BY <1>2, FormStays, SameShown DEF Shows
  <2>5. PromptsShow'
    BY <1>2, PromptsStay DEF Shows
  <2>6. BackupsShow'
    BY <1>2, BackupsStay, SameShown DEF Shows
  <2>7. QED
    BY <2>2, <2>3, <2>4, <2>5, <2>6 DEF Shows
<1>3. CASE next' # rest \/ ~UNCHANGED <<prompts, net>>
  <2>1. PICK p : p = IF EditedIn(prompts) = {} THEN Load({}, "all", rest) ELSE PutNext(EditedIn(prompts), {}, rest)
    OBVIOUS
  <2>2. net' = net \cup {p} /\ prompts' = [prompts EXCEPT !.all = TRUE] /\ next' = << >>
    BY <1>3, <2>1 DEF SaveAllPrompts
  <2>3. Whole(p) /\ ~IsSave(p)
    <3>1. CASE EditedIn(prompts) = {}
      BY <2>1, <3>1, WholeLoad
    <3>2. CASE EditedIn(prompts) # {}
      <4>1. PICK k, text, todo : p = Request("putPrompt", [key |-> k, text |-> text, todo |-> todo, done |-> {},
                                                         owner |-> "all"], rest)
        BY <2>1, <3>2 DEF PutNext
      <4>2. IsPut(p, k, text, todo, {}, "all", rest)
        BY <4>1, PutIs
      <4>3. QED
        BY <4>2, WholePut
    <3>3. QED
      BY <3>1, <3>2
  <2>4. prompts'.list = prompts.list
    BY <2>2, Fields DEF SavingInv, PromptFields
  <2>5. QED
    BY <2>2, <2>3, <2>4, SendsOneShow, SameShown
<1>4. QED
  BY <1>2, <1>3

LEMMA BarStartShows == ASSUME SettingsInv, SavingInv, TurnsInv, Shows, BarStart PROVE Shows'
<1>1. next # << >> /\ db' = db
  BY DEF BarStart, Idle
<1>2. PICK e, rest : e = Head(next) /\ rest = Tail(next)
  OBVIOUS
<1>3. CASE e.id = "N" /\ SaveSettings("N", e.dirtyN, e.dirtyI, rest) /\ UNCHANGED <<prompts, backups>>
  BY <1>1, <1>2, <1>3, SaveSettingsShows DEF Mine, Theirs
<1>4. CASE e.id = "I" /\ SaveSettings("I", e.dirtyI, e.dirtyN, rest) /\ UNCHANGED <<prompts, backups>>
  BY <1>1, <1>2, <1>4, SaveSettingsShows DEF Mine, Theirs
<1>5. CASE e.id = "P" /\ SaveAllPrompts(rest) /\ UNCHANGED <<form, backups>>
  BY <1>1, <1>2, <1>5, SaveAllShows
<1>6. CASE e.id = "B" /\ PutRetention(rest) /\ next' = << >> /\ UNCHANGED <<form, prompts>>
  <2>1. PICK p : p = Request("putRetention", [retention |-> backups.draft], rest)
    OBVIOUS
  <2>2. Whole(p) /\ ~IsSave(p)
    BY <2>1, WholeRetention
  <2>3. net' = net \cup {p} /\ backups' = [backups EXCEPT !.saving = TRUE]
    BY <1>6, <2>1 DEF PutRetention
  <2>4. BackupsSame
    BY <2>3, Fields DEF SavingInv, BackupFields, BackupsSame
  <2>5. QED
    BY <1>1, <1>6, <2>2, <2>3, <2>4, SendsOneShow, SameShown
<1>7. QED
  BY <1>2, <1>3, <1>4, <1>5, <1>6 DEF BarStart

-----------------------------------------------------------------------------
(* The server.                                                             *)

\* p is q, further on.
Alike(p, q) ==
    /\ p.kind = q.kind /\ p.live = q.live
    /\ q.kind = "putPrompt" => p.key = q.key /\ p.done = q.done
    /\ q.kind = "resetPrompt" => p.key = q.key
    /\ q.kind = "getPrompts" => "settled" \in DOMAIN p /\ p.settled = q.settled
    /\ q.kind = "getBackups" => p.owner = q.owner
    /\ q.kind = "putRetention" => "retention" \in DOMAIN p /\ p.retention = q.retention
    /\ IsSave(q) => p.patch = q.patch /\ p.over = q.over

LEMMA ServedAlike ==
    ASSUME SavingInv, TurnsInv, NetShows, NEW q \in net, NEW s, NEW result,
           DOMAIN result \subseteq {"settings", "prompts", "backups"}, Served(q, s, result)
    PROVE  \E p : /\ net' = (net \ {q}) \cup {p} /\ p.state = s /\ Alike(p, q)
                  /\ \A x \in DOMAIN result : p[x] = result[x]
<1>1. Shape(q) /\ Whole(q) /\ q.live
  BY DEF SavingInv, NetShows, Whole
<1>2. PICK p : /\ net' = (net \ {q}) \cup {p}
               /\ DOMAIN q \subseteq DOMAIN p /\ p.state = s
               /\ \A x \in DOMAIN q \ ({"state"} \cup DOMAIN result) : p[x] = q[x]
               /\ \A x \in DOMAIN result : p[x] = result[x]
  BY <1>1, ServedIs DEF Shape
<1>3. \A x \in DOMAIN q : x \notin {"state", "settings", "prompts", "backups"} => p[x] = q[x]
  BY <1>2
<1>4. p.kind = q.kind /\ p.live = q.live
  BY <1>1, <1>3 DEF Shape, Common
<1>5. /\ q.kind = "putPrompt" => p.key = q.key /\ p.done = q.done
      /\ q.kind = "resetPrompt" => p.key = q.key
      /\ q.kind = "getBackups" => p.owner = q.owner
  BY <1>1, <1>3 DEF Shape
<1>6. /\ q.kind = "getPrompts" => "settled" \in DOMAIN p /\ p.settled = q.settled
      /\ q.kind = "putRetention" => "retention" \in DOMAIN p /\ p.retention = q.retention
  BY <1>1, <1>2, <1>3 DEF Whole
<1>7. IsSave(q) => p.patch = q.patch /\ p.over = q.over
  <2>1. IsSave(q) => {"patch", "over"} \subseteq DOMAIN q
    BY DEF TurnsInv, SaveOK
  <2>2. QED
    BY <1>3, <2>1
<1>8. Alike(p, q)
  BY <1>4, <1>5, <1>6, <1>7 DEF Alike
<1>9. QED
  BY <1>2, <1>8

\* What the server changes, the answer tells; other answers that are under way are as good
\* as before only when it changes nothing.
LEMMA AnswersShow ==
    ASSUME TurnsInv, Shows, Idle, UNCHANGED <<form, prompts, backups, next>>, NEW q \in net, NEW p,
           net' = (net \ {q}) \cup {p}, Alike(p, q), Whole(p)',
           q.state = "ok" => p.state = "ok",
           db' = db \/ \A r \in net \ {q} : r.state # "ok",
           IsSave(q) => \A f \in DOMAIN q.over : db'.settings[f] = db.settings[f],
           db'.settings = db.settings \/ Saves(p),
           \A k \in Key : db'.prompts[k] = db.prompts[k] \/ Carries(p, k),
           db'.retention = db.retention \/ Retains(p),
           db'.dumps = db.dumps \/ Drops(p)
    PROVE  Shows'
<1>1. NetShows'
  <2>1. ASSUME NEW r \in net \ {q} PROVE Whole(r)'
    <3>1. Whole(r)
      BY DEF Shows, NetShows
    <3>2. QED
      BY <3>1 DEF Whole, Fresh
  <2>2. QED
    BY <2>1 DEF NetShows
<1>2. IsSave(p) <=> IsSave(q)
  BY DEF Alike, IsSave
<1>3. OverOK'
  <2>1. ASSUME NEW r \in net', IsSave(r) PROVE Known(r.over, Other(r.kind))'
    <3>1. CASE r = p
      <4>1. IsSave(q) /\ r.kind = q.kind /\ r.over = q.over
        BY <1>2, <2>1, <3>1 DEF Alike
      <4>2. Known(q.over, Other(q.kind))
        BY <4>1 DEF Shows, OverOK
      <4>3. QED
        BY <4>1, <4>2 DEF Known, Other
    <3>2. CASE r # p
      <4>1. r \in net /\ r # q
        BY <3>2
      <4>2. ~IsSave(q)
        BY <2>1, <4>1 DEF TurnsInv
      <4>3. db'.settings = db.settings
        BY <1>2, <4>2 DEF Saves
      <4>4. Known(r.over, Other(r.kind))
        BY <2>1, <4>1 DEF Shows, OverOK
      <4>5. QED
        BY <4>3, <4>4 DEF Known, Other
    <3>3. QED
      BY <3>1, <3>2
  <2>2. QED
    BY <2>1 DEF OverOK, Idle
<1>4. FormShows'
  <2>1. (\E r \in net : Saves(r)) => \E r \in net' : Saves(r)
    <3>1. Saves(q) => Saves(p)
      BY <1>2 DEF Saves
    <3>2. QED
      BY <3>1
  <2>2. db'.settings = db.settings => Respond(db.settings)' = Respond(db.settings)
    BY DEF Respond
  <2>3. QED
    BY <2>1, <2>2 DEF Shows, FormShows
<1>5. PromptsShow'
  <2>1. ASSUME NEW k, Carries(q, k) PROVE Carries(p, k)
    BY <2>1 DEF Carries, Alike
  <2>2. ASSUME NEW k \in Key, \E r \in net : Carries(r, k) PROVE \E r \in net' : Carries(r, k)
    BY <2>1, <2>2
  <2>3. QED
    BY <2>2 DEF Shows, PromptsShow
<1>6. BackupsShow'
  <2>1. (Retains(q) => Retains(p)) /\ (Drops(q) => Drops(p))
    BY DEF Retains, Drops, Alike
  <2>2. QED
    BY <2>1 DEF Shows, BackupsShow
<1>7. QED
  BY <1>1, <1>3, <1>4, <1>5, <1>6 DEF Shows

\* The server does what it was asked to.
LEMMA ServeShows ==
    ASSUME SettingsInv, SavingInv, TurnsInv, Shows, Idle, NEW q \in net, Serve(q), ~astray'
    PROVE  Shows'
<1>1. /\ UNCHANGED <<form, prompts, backups, next>> /\ q.state = "sent"
      /\ db' = db \/ \A r \in net \ {q} : r.state # "ok"
  BY DEF Serve
<1>2. {"settings", "prompts", "retention", "dumps"} \subseteq DOMAIN db /\ Field \subseteq DOMAIN db.settings
  BY DEF SettingsInv, DbOK
<1>3. NetShows /\ Whole(q) /\ q.live
  BY DEF Shows, NetShows, Whole
<1>4. ASSUME NEW p, Alike(p, q), p.state = "ok", Fresh(p)'
      PROVE  Whole(p)'
  BY <1>3, <1>4 DEF Whole, Alike
<1>5. ASSUME NEW p, net' = (net \ {q}) \cup {p}, Alike(p, q), p.state = "ok", Fresh(p)', db' = db PROVE Shows'
  <2>1. Whole(p)'
    BY <1>4, <1>5
  <2>2. QED
    BY <1>1, <1>5, <2>1, AnswersShow
<1>6. CASE q.kind = "getSettings" /\ Served(q, "ok", [settings |-> Respond(db.settings)]) /\ db' = db
  <2>1. PICK result : result = [settings |-> Respond(db.settings)]
    OBVIOUS
  <2>2. DOMAIN result = {"settings"} /\ result.settings = Respond(db.settings)
    BY <2>1
  <2>3. PICK p : /\ net' = (net \ {q}) \cup {p} /\ p.state = "ok" /\ Alike(p, q)
                 /\ \A x \in DOMAIN result : p[x] = result[x]
    <3>1. Served(q, "ok", result) /\ DOMAIN result \subseteq {"settings", "prompts", "backups"}
      BY <1>6, <2>1, <2>2
    <3>2. QED
      BY <1>3, <3>1, ServedAlike
  <2>4. p.kind = "getSettings" /\ p.settings = Respond(db.settings)
    BY <1>6, <2>2, <2>3 DEF Alike
  <2>5. Fresh(p)'
    BY <1>6, <2>4 DEF Fresh, Respond
  <2>6. QED
    BY <1>5, <1>6, <2>3, <2>5
<1>7. CASE q.kind = "test" /\ Served(q, "ok", << >>) /\ db' = db
  <2>1. DOMAIN << >> \subseteq {"settings", "prompts", "backups"}
    OBVIOUS
  <2>2. PICK p : net' = (net \ {q}) \cup {p} /\ p.state = "ok" /\ Alike(p, q)
    BY <1>3, <1>7, <2>1, ServedAlike
  <2>3. Fresh(p)'
    BY <1>7, <2>2 DEF Fresh, Alike
  <2>4. QED
    BY <1>5, <1>7, <2>2, <2>3
<1>8. CASE q.kind = "getPrompts" /\ Served(q, "ok", [prompts |-> db.prompts]) /\ db' = db
  <2>1. PICK result : result = [prompts |-> db.prompts]
    OBVIOUS
  <2>2. DOMAIN result = {"prompts"} /\ result.prompts = db.prompts
    BY <2>1
  <2>3. PICK p : /\ net' = (net \ {q}) \cup {p} /\ p.state = "ok" /\ Alike(p, q)
                 /\ \A x \in DOMAIN result : p[x] = result[x]
    <3>1. Served(q, "ok", result) /\ DOMAIN result \subseteq {"settings", "prompts", "backups"}
      BY <1>8, <2>1, <2>2
    <3>2. QED
      BY <1>3, <3>1, ServedAlike
  <2>4. p.kind = "getPrompts" /\ p.prompts = db.prompts
    BY <1>8, <2>2, <2>3 DEF Alike
  <2>5. Fresh(p)'
    BY <1>8, <2>4 DEF Fresh
  <2>6. QED
    BY <1>5, <1>8, <2>3, <2>5
<1>9. CASE /\ q.kind = "getBackups" /\ db' = db
           /\ Served(q, "ok", [backups |-> [retention |-> db.retention, dumps |-> db.dumps]])
  <2>1. PICK b : b = [retention |-> db.retention, dumps |-> db.dumps]
    OBVIOUS
  <2>2. PICK result : result = [backups |-> b]
    OBVIOUS
  <2>3. DOMAIN result = {"backups"} /\ result.backups = b
    BY <2>2
  <2>4. PICK p : /\ net' = (net \ {q}) \cup {p} /\ p.state = "ok" /\ Alike(p, q)
                 /\ \A x \in DOMAIN result : p[x] = result[x]
    <3>1. Served(q, "ok", result) /\ DOMAIN result \subseteq {"settings", "prompts", "backups"}
      BY <1>9, <2>1, <2>2, <2>3
    <3>2. QED
      BY <1>3, <3>1, ServedAlike
  <2>5. p.kind = "getBackups" /\ p.backups = b
    BY <1>9, <2>3, <2>4 DEF Alike
  <2>6. b.retention = db.retention /\ b.dumps = db.dumps
    BY <2>1
  <2>7. Fresh(p)'
    BY <1>9, <2>5, <2>6 DEF Fresh
  <2>8. QED
    BY <1>5, <1>9, <2>4, <2>7
<1>10. CASE /\ q.kind \in {"N", "I"} /\ db' = [db EXCEPT !.settings = Merge(@, q.patch)]
            /\ Served(q, "ok", [settings |-> Respond(db'.settings)])
  <2>1. PICK t : t = Merge(db.settings, q.patch)
    OBVIOUS
  <2>2. /\ db'.settings = t /\ db'.prompts = db.prompts /\ db'.retention = db.retention /\ db'.dumps = db.dumps
    BY <1>2, <1>10, <2>1
  <2>3. IsSave(q) /\ SaveOK(q)
    BY <1>3, <1>10 DEF IsSave, TurnsInv
  <2>4. /\ \A f \in DOMAIN q.patch : t[f] = q.patch[f]
        /\ \A f \in DOMAIN db.settings : f \notin DOMAIN q.patch => t[f] = db.settings[f]
    BY <2>1 DEF Merge, Over
  <2>5. \A f \in DOMAIN q.over : f \in Field /\ f \notin DOMAIN q.patch
    BY <1>10, <2>3, SettingsAssumption DEF SaveOK, Field, NotificationFields
  <2>6. \A f \in DOMAIN q.over : db'.settings[f] = db.settings[f]
    BY <1>2, <2>2, <2>4, <2>5
  <2>7. PICK r : r = Respond(t)
    OBVIOUS
  <2>8. PICK result : result = [settings |-> r]
    OBVIOUS
  <2>9. DOMAIN result = {"settings"} /\ result.settings = r
    BY <2>8
  <2>10. PICK p : /\ net' = (net \ {q}) \cup {p} /\ p.state = "ok" /\ Alike(p, q)
                  /\ \A x \in DOMAIN result : p[x] = result[x]
    <3>1. Served(q, "ok", result) /\ DOMAIN result \subseteq {"settings", "prompts", "backups"}
      BY <1>10, <2>2, <2>7, <2>8, <2>9
    <3>2. QED
      BY <1>3, <3>1, ServedAlike
  <2>11. p.kind = q.kind /\ p.settings = r /\ p.patch = q.patch /\ p.live
    BY <1>3, <2>3, <2>9, <2>10 DEF Alike
  <2>12. Respond(db.settings)' = r
    BY <2>2, <2>7 DEF Respond
  <2>13. Fresh(p)'
    BY <1>10, <2>2, <2>4, <2>11, <2>12 DEF Fresh
  <2>14. Whole(p)' /\ Saves(p)
    BY <1>4, <1>10, <2>10, <2>11, <2>13 DEF Saves, IsSave
  <2>15. QED
    BY <1>1, <2>2, <2>6, <2>10, <2>14, AnswersShow
<1>11. CASE /\ q.kind \in {"putPrompt", "resetPrompt"} /\ Served(q, "ok", << >>)
            /\ db' = [db EXCEPT !.prompts[q.key] = IF q.kind = "putPrompt" THEN q.text ELSE Default]
  <2>1. PICK t : t = [db.prompts EXCEPT ![q.key] = IF q.kind = "putPrompt" THEN q.text ELSE Default]
    OBVIOUS
  <2>2. db' = [db EXCEPT !.prompts = t]
    BY <1>11, <2>1
  <2>3. /\ db'.settings = db.settings /\ db'.prompts = t /\ db'.retention = db.retention /\ db'.dumps = db.dumps
    BY <1>2, <2>2
  <2>4. \A k : k # q.key => t[k] = db.prompts[k]
    BY <2>1
  <2>5. DOMAIN << >> \subseteq {"settings", "prompts", "backups"}
    OBVIOUS
  <2>6. PICK p : net' = (net \ {q}) \cup {p} /\ p.state = "ok" /\ Alike(p, q)
    BY <1>3, <1>11, <2>5, ServedAlike
  <2>7. Carries(p, q.key) /\ ~IsSave(q)
    BY <1>11, <2>6 DEF Carries, Alike, IsSave
  <2>8. Whole(p)'
    <3>1. Fresh(p)'
      BY <1>11, <2>6 DEF Fresh, Alike
    <3>2. QED
      BY <1>4, <2>6, <3>1
  <2>9. \A k \in Key : db'.prompts[k] = db.prompts[k] \/ Carries(p, k)
    BY <2>3, <2>4, <2>7
  <2>10. QED
    BY <1>1, <2>3, <2>6, <2>7, <2>8, <2>9, AnswersShow
<1>12. CASE /\ q.kind = "putRetention" /\ Served(q, "ok", << >>)
            /\ db' = [db EXCEPT !.retention = q.retention]
  <2>1. /\ db'.settings = db.settings /\ db'.prompts = db.prompts /\ db'.retention = q.retention
        /\ db'.dumps = db.dumps
    BY <1>2, <1>12
  <2>2. DOMAIN << >> \subseteq {"settings", "prompts", "backups"}
    OBVIOUS
  <2>3. PICK p : net' = (net \ {q}) \cup {p} /\ p.state = "ok" /\ Alike(p, q)
    BY <1>3, <1>12, <2>2, ServedAlike
  <2>4. p.kind = "putRetention" /\ p.retention = q.retention /\ Retains(p) /\ ~IsSave(q)
    BY <1>12, <2>3 DEF Alike, Retains, IsSave
  <2>5. Whole(p)'
    <3>1. Fresh(p)'
      BY <2>1, <2>4 DEF Fresh
    <3>2. QED
      BY <1>4, <2>3, <3>1
  <2>6. QED
    BY <1>1, <2>1, <2>3, <2>4, <2>5, AnswersShow
<1>13. CASE /\ q.kind = "deleteDump" /\ Served(q, "ok", << >>)
            /\ db' = [db EXCEPT !.dumps = @ \ {q.dump}]
  <2>1. /\ db'.settings = db.settings /\ db'.prompts = db.prompts /\ db'.retention = db.retention
    BY <1>2, <1>13
  <2>2. DOMAIN << >> \subseteq {"settings", "prompts", "backups"}
    OBVIOUS
  <2>3. PICK p : net' = (net \ {q}) \cup {p} /\ p.state = "ok" /\ Alike(p, q)
    BY <1>3, <1>13, <2>2, ServedAlike
  <2>4. p.kind = "deleteDump" /\ Drops(p) /\ ~IsSave(q)
    BY <1>13, <2>3 DEF Alike, Drops, IsSave
  <2>5. Whole(p)'
    <3>1. Fresh(p)'
      BY <2>4 DEF Fresh
    <3>2. QED
      BY <1>4, <2>3, <3>1
  <2>6. QED
    BY <1>1, <2>1, <2>3, <2>4, <2>5, AnswersShow
<1>14. QED
  BY <1>6, <1>7, <1>8, <1>9, <1>10, <1>11, <1>12, <1>13 DEF Serve

\* A request fails, or what it did is not heard of.
LEMMA FailShows ==
    ASSUME SavingInv, TurnsInv, Shows, Idle, NEW q \in net, NEW s, Fail(q, s), ~astray'
    PROVE  Shows'
<1>1. NetShows /\ Whole(q) /\ q.live
  BY DEF Shows, NetShows, Whole
<1>2. /\ UNCHANGED <<db, form, prompts, backups, next>> /\ s \in {"refused", "lost"} /\ q.state = "sent"
      /\ Served(q, s, << >>) /\ q.kind \notin {"getPrompts", "getBackups"}
      /\ s = "lost" /\ q.kind = "putPrompt" => q.done = {}
  BY <1>1 DEF Fail
<1>3. DOMAIN << >> \subseteq {"settings", "prompts", "backups"}
  OBVIOUS
<1>4. PICK p : net' = (net \ {q}) \cup {p} /\ p.state = s /\ Alike(p, q)
  BY <1>1, <1>2, <1>3, ServedAlike
<1>5. Whole(p)'
  BY <1>1, <1>2, <1>4 DEF Whole, Alike
<1>6. QED
  BY <1>2, <1>4, <1>5, AnswersShow

-----------------------------------------------------------------------------
(* Answers.                                                                *)

\* After the prompts and the backups, no tab is saved.
LEMMA RestShows ==
    ASSUME TurnsInv, NEW q \in net, q.live, ~IsSave(q)
    PROVE  \A i \in DOMAIN q.rest : q.rest[i].id \notin {"N", "I"}
<1>1. Queue(q.rest, Place(q.kind))
  BY DEF TurnsInv
<1>2. Place(q.kind) \in {3, 4}
  BY DEF IsSave, Place
<1>3. QED
  BY <1>1, <1>2 DEF Queue, Rank

\* A request that saves no tab is answered, others may follow it.
LEMMA GoesShow ==
    ASSUME TurnsInv, Shows, db' = db, FormSame, NEW q \in net, ~IsSave(q),
           NEW N, \A p \in N : Whole(p) /\ ~IsSave(p), net' = (net \ {q}) \cup N,
           next' = << >> \/ next' = q.rest, PromptsShow', BackupsShow'
    PROVE  Shows'
<1>1. q.live
  BY DEF Shows, NetShows, Whole
<1>2. NetShows'
  BY NetStays DEF Shows
<1>3. next' = << >> \/ \A i \in DOMAIN next' : next'[i].id \notin {"N", "I"}
  BY <1>1, RestShows
<1>4. OverOK'
  BY <1>3, OverStays DEF Shows, FormSame
<1>5. FormShows'
  <2>1. \A r \in net : Saves(r) => r \in net'
    BY DEF Saves
  <2>2. QED
    BY <2>1, FormStays DEF Shows
<1>6. QED
  BY <1>2, <1>4, <1>5 DEF Shows

\* The first load of the settings.
LEMMA AnswerSettingsShows ==
    ASSUME SavingInv, TurnsInv, Shows, Idle, NEW q \in net, q.kind = "getSettings", q.state # "sent",
           AnswerSettings(q), db' = db
    PROVE  Shows'
<1>1. UNCHANGED <<prompts, backups, next>> /\ next' = << >> /\ ~IsSave(q) /\ Whole(q)
  BY DEF AnswerSettings, Idle, IsSave, Shows, NetShows
<1>2. {"state", "shown", "saved", "dirtyN", "dirtyI", "saving", "testing"} \subseteq DOMAIN form
  BY Fields DEF SavingInv, FormFields
<1>3. PICK N : net' = (net \ {q}) \cup N /\ \A p \in N : Whole(p) /\ ~IsSave(p)
  <2>1. CASE q.state = "ok"
    <3>1. PICK a : a = Load({}, "mount", << >>)
      OBVIOUS
    <3>2. Whole(a) /\ ~IsSave(a)
      BY <3>1, WholeLoad
    <3>3. PICK args : args = [owner |-> "mount"]
      OBVIOUS
    <3>4. PICK b : b = Request("getBackups", args, << >>)
      OBVIOUS
    <3>5. Whole(b) /\ ~IsSave(b)
      <4>1. DOMAIN args = {"owner"}
        BY <3>3
      <4>2. Common \cap DOMAIN args = {}
        BY <4>1 DEF Common
      <4>3. QED
        BY <3>4, <4>2, WholeSent
    <3>6. PICK N : N = {a, b}
      OBVIOUS
    <3>7. net' = (net \ {q}) \cup N
      BY <2>1, <3>1, <3>3, <3>4, <3>6 DEF AnswerSettings
    <3>8. \A p \in N : Whole(p) /\ ~IsSave(p)
      BY <3>2, <3>5, <3>6
    <3>9. QED
      BY <3>7, <3>8
  <2>2. CASE q.state # "ok"
    <3>1. PICK N : N = {}
      OBVIOUS
    <3>2. net' = (net \ {q}) \cup N
      BY <2>2, <3>1 DEF AnswerSettings
    <3>3. \A p \in N : Whole(p) /\ ~IsSave(p)
      BY <3>1
    <3>4. QED
      BY <3>2, <3>3
  <2>3. QED
    BY <2>1, <2>2
<1>4. NetShows'
  BY <1>3, NetStays DEF Shows
<1>5. PromptsShow'
  <2>1. \A k : ~Carries(q, k)
    BY DEF Carries
  <2>2. QED
    BY <1>1, <1>3, <2>1, PromptsStay DEF Shows
<1>6. BackupsShow'
  <2>1. ~Retains(q) /\ ~Drops(q)
    BY DEF Retains, Drops
  <2>2. QED
    BY <1>1, <1>3, <2>1, BackupsStay, SameShown DEF Shows
<1>7. CASE q.state = "ok"
  <2>1. form' = [form EXCEPT !.state = "ready", !.shown = q.settings, !.saved = q.settings]
    BY <1>7 DEF AnswerSettings
  <2>2. /\ form'.state = "ready" /\ form'.shown = q.settings /\ form'.saved = q.settings
        /\ form'.dirtyN = form.dirtyN /\ form'.dirtyI = form.dirtyI
    BY <1>2, <2>1
  <2>3. q.settings = Respond(db.settings)
    BY <1>1, <1>7 DEF Whole, Fresh
  <2>4. Respond(db.settings)' = Respond(db.settings)
    BY DEF Respond
  <2>5. FormShows'
    BY <2>2, <2>3, <2>4, RespondIs DEF FormShows
  <2>6. OverOK'
    BY <1>1, <1>3, <2>2, OverStays DEF Shows
  <2>7. QED
    BY <1>4, <1>5, <1>6, <2>5, <2>6 DEF Shows
<1>8. CASE q.state # "ok"
  <2>1. PICK st : st = IF q.state = "refused" THEN "broken" ELSE form.state
    OBVIOUS
  <2>2. form' = [form EXCEPT !.state = st]
    BY <1>8, <2>1 DEF AnswerSettings
  <2>3. /\ form'.state = st /\ form'.shown = form.shown /\ form'.saved = form.saved
        /\ form'.dirtyN = form.dirtyN /\ form'.dirtyI = form.dirtyI
    BY <1>2, <2>2
  <2>4. FormShows'
    <3>1. CASE st = "broken"
      BY <2>3, <3>1 DEF FormShows
    <3>2. CASE st = form.state
      <4>1. FormSame
        BY <2>3, <3>2 DEF FormSame
      <4>2. \A r \in net : Saves(r) => r \in net'
        BY <1>1, <1>3 DEF Saves
      <4>3. QED
        BY <4>1, <4>2, FormStays DEF Shows
    <3>3. QED
      BY <2>1, <3>1, <3>2
  <2>5. OverOK'
    BY <1>1, <1>3, <2>3, OverStays DEF Shows
  <2>6. QED
    BY <1>4, <1>5, <1>6, <2>4, <2>5 DEF Shows
<1>9. QED
  BY <1>7, <1>8

\* A save of a tab: the other tab's edits are laid back over the answer.
LEMMA AnswerSaveShows ==
    ASSUME SettingsInv, SavingInv, TurnsInv, Shows, Idle, NEW q \in net, q.kind \in {"N", "I"},
           q.state # "sent", AnswerSave(q), db' = db
    PROVE  Shows'
<1>1. /\ UNCHANGED <<prompts, backups>> /\ next' = q.rest /\ net' = net \ {q} /\ Whole(q)
      /\ IsSave(q) /\ SaveOK(q)
  BY DEF AnswerSave, IsSave, Shows, NetShows, Whole, TurnsInv
<1>2. {"state", "shown", "saved", "dirtyN", "dirtyI", "saving", "testing"} \subseteq DOMAIN form
  BY Fields DEF SavingInv, FormFields
<1>3. \A r \in net' : ~IsSave(r)
  BY <1>1 DEF TurnsInv
<1>4. NetShows'
  <2>1. PICK N : N = {}
    OBVIOUS
  <2>2. QED
    BY <1>1, <2>1, NetStays DEF Shows
<1>5. PromptsShow'
  <2>1. \A k : ~Carries(q, k)
    BY DEF Carries
  <2>2. QED
    BY <1>1, <2>1, PromptsStay DEF Shows
<1>6. BackupsShow'
  <2>1. ~Retains(q) /\ ~Drops(q)
    BY DEF Retains, Drops
  <2>2. QED
    BY <1>1, <2>1, BackupsStay, SameShown DEF Shows
<1>7. Known(q.over, Other(q.kind))
  BY <1>1 DEF Shows, OverOK
<1>8. PICK saving : saving = form.saving \ {q.kind}
  OBVIOUS
<1>9. CASE q.state # "ok"
  <2>1. form' = [form EXCEPT !.saving = saving]
    BY <1>8, <1>9 DEF AnswerSave
  <2>2. FormSame
    BY <1>2, <2>1 DEF FormSame
  <2>3. FormShows'
    <3>1. \A r \in net : Saves(r) => r \in net'
      BY <1>1, <1>9 DEF Saves
    <3>2. QED
      BY <2>2, <3>1, FormStays DEF Shows
  <2>4. ASSUME NEW i \in DOMAIN q.rest, q.rest[i].id \in {"N", "I"}
        PROVE  Known(Theirs(q.rest[i]), Other(q.rest[i].id))'
    <3>1. q.kind = "N" /\ q.rest[i].id = "I"
      BY <1>1, <2>4 DEF TurnsInv, IsSave, Queue, Place, Rank
    <3>2. q.rest[i].dirtyN = q.patch /\ DOMAIN q.patch \subseteq DOMAIN form.dirtyN
      BY <1>1, <3>1 DEF SaveOK, Dirty
    <3>3. QED
      BY <2>2, <3>1, <3>2 DEF Known, Theirs, Other, FormSame
  <2>5. OverOK'
    BY <1>1, <1>3, <2>4 DEF OverOK
  <2>6. QED
    BY <1>4, <1>5, <1>6, <2>3, <2>5 DEF Shows
<1>10. CASE q.state = "ok"
  <2>1. PICK shown, dn, di : /\ shown = Over(q.over, q.settings)
                             /\ dn = (IF q.kind = "N" THEN << >> ELSE form.dirtyN)
                             /\ di = (IF q.kind = "I" THEN << >> ELSE form.dirtyI)
    OBVIOUS
  <2>2. form' = [form EXCEPT !.saving = saving, !.shown = shown, !.saved = q.settings,
                             !.dirtyN = dn, !.dirtyI = di]
    BY <1>8, <1>10, <2>1 DEF AnswerSave
  <2>3. /\ form'.state = form.state /\ form'.shown = shown /\ form'.saved = q.settings
        /\ form'.dirtyN = dn /\ form'.dirtyI = di
    BY <1>2, <2>2
  <2>4. Fresh(q) /\ q.settings = Respond(db.settings)
    BY <1>1, <1>10 DEF Whole, Fresh
  <2>5. shown = [f \in DOMAIN q.over \cup DOMAIN q.settings |->
                    IF f \in DOMAIN q.over THEN q.over[f] ELSE q.settings[f]]
    BY <2>1 DEF Over
  <2>6. FormShows'
    <3>1. Field \subseteq DOMAIN shown
      BY <2>4, <2>5, RespondIs
    <3>2. form'.saved = Respond(db.settings)'
      BY <2>3, <2>4 DEF Respond
    <3>3. ASSUME NEW f \in Field, f \notin DOMAIN dn, f \notin DOMAIN di
          PROVE  Resp(f, shown[f]) = Resp(f, q.settings[f])
      <4>1. CASE f \in DOMAIN q.over
        <5>1. shown[f] = q.over[f]
          BY <2>5, <4>1
        <5>2. f \notin DOMAIN Other(q.kind)
          BY <1>1, <2>1, <3>3 DEF Other
        <5>3. Resp(f, q.over[f]) = Resp(f, db.settings[f])
          BY <1>7, <4>1, <5>2 DEF Known
        <5>4. q.settings[f] = Resp(f, db.settings[f])
          BY <2>4, RespondIs
        <5>5. Resp(f, Resp(f, db.settings[f])) = Resp(f, db.settings[f])
          BY RespondIs
        <5>6. QED
          BY <5>1, <5>3, <5>4, <5>5
      <4>2. CASE f \notin DOMAIN q.over
        BY <2>4, <2>5, <4>2, RespondIs
      <4>3. QED
        BY <4>1, <4>2
    <3>4. QED
      BY <2>3, <3>1, <3>2, <3>3 DEF FormShows
  <2>7. ASSUME NEW i \in DOMAIN q.rest, q.rest[i].id \in {"N", "I"}
        PROVE  Known(Theirs(q.rest[i]), Other(q.rest[i].id))'
    <3>1. q.kind = "N" /\ q.rest[i].id = "I"
      BY <1>1, <2>7 DEF TurnsInv, IsSave, Queue, Place, Rank
    <3>2. q.rest[i].dirtyN = q.patch
      BY <1>1, <3>1 DEF SaveOK
    <3>3. \A f \in DOMAIN q.patch : db.settings[f] = q.patch[f]
      BY <2>4, <3>1 DEF Fresh
    <3>4. QED
      BY <3>1, <3>2, <3>3 DEF Known, Theirs
  <2>8. OverOK'
    BY <1>1, <1>3, <2>7 DEF OverOK
  <2>9. QED
    BY <1>4, <1>5, <1>6, <2>6, <2>8 DEF Shows
<1>11. QED
  BY <1>9, <1>10

\* The end of a save leaves what is listed.
LEMMA FinishList ==
    ASSUME NEW p, DOMAIN NoSection \subseteq DOMAIN p, NEW owner
    PROVE  Finish(p, owner).list = p.list
<1>1. PICK b, a : /\ b = IF owner = "one" THEN NoKey ELSE p.busy
                  /\ a = IF owner = "all" THEN FALSE ELSE p.all
  OBVIOUS
<1>2. Finish(p, owner) = [p EXCEPT !.busy = b, !.all = a]
  BY <1>1, Fields DEF Finish
<1>3. QED
  BY <1>2, Fields

\* One request follows, or none.
LEMMA GoesOneShow ==
    ASSUME TurnsInv, Shows, db' = db, FormSame, NEW q \in net, ~IsSave(q), NEW p, Whole(p), ~IsSave(p),
           net' = (net \ {q}) \cup {p}, next' = << >> \/ next' = q.rest, PromptsShow', BackupsShow'
    PROVE  Shows'
<1>1. PICK N : N = {p}
  OBVIOUS
<1>2. net' = (net \ {q}) \cup N /\ \A r \in N : Whole(r) /\ ~IsSave(r)
  BY <1>1
<1>3. QED
  BY <1>2, GoesShow

LEMMA GoesNoneShow ==
    ASSUME TurnsInv, Shows, db' = db, FormSame, NEW q \in net, ~IsSave(q),
           net' = net \ {q}, next' = << >> \/ next' = q.rest, PromptsShow', BackupsShow'
    PROVE  Shows'
<1>1. PICK N : N = {}
  OBVIOUS
<1>2. net' = (net \ {q}) \cup N /\ \A r \in N : Whole(r) /\ ~IsSave(r)
  BY <1>1
<1>3. QED
  BY <1>2, GoesShow

LEMMA AnswerTestShows ==
    ASSUME SavingInv, TurnsInv, Shows, Idle, NEW q \in net, q.kind = "test", AnswerTest(q), db' = db
    PROVE  Shows'
<1>1. UNCHANGED <<prompts, backups>> /\ next' = << >> /\ net' = net \ {q} /\ ~IsSave(q)
  BY DEF AnswerTest, Idle, IsSave
<1>2. FormSame
  <2>1. form' = [form EXCEPT !.testing = FALSE]
    BY DEF AnswerTest
  <2>2. QED
    BY <2>1, Fields DEF SavingInv, FormFields, FormSame
<1>3. (\A k : ~Carries(q, k)) /\ ~Retains(q) /\ ~Drops(q)
  BY DEF Carries, Retains, Drops
<1>4. PromptsShow'
  BY <1>1, <1>3, PromptsStay DEF Shows
<1>5. BackupsShow'
  BY <1>1, <1>3, BackupsStay, SameShown DEF Shows
<1>6. QED
  BY <1>1, <1>2, <1>4, <1>5, GoesNoneShow

LEMMA AnswerLoadShows ==
    ASSUME SavingInv, TurnsInv, Shows, Idle, db.prompts = [k \in Key |-> db.prompts[k]],
           NEW q \in net, q.kind = "getPrompts", q.state # "sent", AnswerLoad(q), db' = db
    PROVE  Shows'
<1>1. /\ UNCHANGED <<form, backups>> /\ next' = q.rest /\ net' = net \ {q} /\ ~IsSave(q)
      /\ Whole(q) /\ q.state = "ok"
  BY DEF AnswerLoad, IsSave, Shows, NetShows, Whole
<1>2. DOMAIN NoSection \subseteq DOMAIN prompts
  BY DEF SavingInv, PromptFields
<1>3. PICK d : d = [k \in DOMAIN prompts.drafts \ q.settled |-> prompts.drafts[k]]
  OBVIOUS
<1>4. PICK loaded : loaded = [prompts EXCEPT !.list = q.prompts, !.drafts = d]
  OBVIOUS
<1>5. DOMAIN NoSection \subseteq DOMAIN loaded /\ loaded.list = q.prompts
  BY <1>2, <1>4, Fields
<1>6. prompts' = Finish(loaded, q.owner)
  BY <1>1, <1>3, <1>4 DEF AnswerLoad
<1>7. prompts'.list = db.prompts
  BY <1>1, <1>5, <1>6, FinishList DEF Whole, Fresh
<1>8. PromptsShow'
  BY <1>7 DEF PromptsShow
<1>9. BackupsShow'
  <2>1. ~Retains(q) /\ ~Drops(q)
    BY DEF Retains, Drops
  <2>2. QED
    BY <1>1, <2>1, BackupsStay, SameShown DEF Shows
<1>10. QED
  BY <1>1, <1>8, <1>9, SameShown, GoesNoneShow

\* What a save carries, its reload carries on.
LEMMA AnswerPutShows ==
    ASSUME SavingInv, TurnsInv, Shows, Idle, NEW q \in net, q.kind = "putPrompt", q.state # "sent",
           AnswerPut(q), db' = db
    PROVE  Shows'
<1>1. UNCHANGED <<form, backups>> /\ ~IsSave(q) /\ Whole(q) /\ Shape(q) /\ next = << >>
  BY DEF AnswerPut, IsSave, Shows, NetShows, SavingInv, Idle
<1>2. ~Retains(q) /\ ~Drops(q)
  BY DEF Retains, Drops
<1>3. PICK done : done = q.done \cup {q.key}
  OBVIOUS
<1>4. \A k : Carries(q, k) => k \in q.done \/ (q.state = "ok" /\ k = q.key)
  BY DEF Carries
<1>5. ASSUME net' = (net \ {q}) \cup {NextPut(q, done)}, UNCHANGED <<prompts, next>> PROVE Shows'
  <2>1. PICK k, text, todo : NextPut(q, done) = [q EXCEPT !.key = k, !.text = text, !.done = done,
                                                         !.state = "sent", !.todo = todo]
    BY DEF NextPut
  <2>2. PICK p : p = NextPut(q, done)
    OBVIOUS
  <2>3. p.kind = "putPrompt" /\ p.live = q.live /\ p.done = done /\ p.state = "sent"
    BY <1>1, <2>1, <2>2 DEF Shape, Common
  <2>4. Whole(p) /\ ~IsSave(p)
    BY <1>1, <2>3 DEF Whole, IsSave
  <2>5. \A j : Carries(q, j) => Carries(p, j)
    BY <1>3, <1>4, <2>3 DEF Carries
  <2>6. net' = (net \ {q}) \cup {p}
    BY <1>5, <2>2
  <2>7. PromptsShow'
    BY <1>5, <2>5, <2>6, PromptsStay DEF Shows
  <2>8. BackupsShow'
    BY <1>1, <1>2, <2>6, BackupsStay, SameShown DEF Shows
  <2>9. QED
    BY <1>1, <1>5, <2>4, <2>6, <2>7, <2>8, SameShown, GoesOneShow
<1>6. ASSUME NEW settled, net' = (net \ {q}) \cup {Load(settled, q.owner, q.rest)}, UNCHANGED <<prompts, next>>,
             \A k : Carries(q, k) => k \in settled
      PROVE  Shows'
  <2>1. PICK p : p = Load(settled, q.owner, q.rest)
    OBVIOUS
  <2>2. IsLoad(p, settled, q.owner, q.rest)
    BY <2>1, LoadIs
  <2>3. Whole(p) /\ ~IsSave(p)
    BY <2>1, WholeLoad
  <2>4. \A k : Carries(q, k) => Carries(p, k)
    BY <1>6, <2>2 DEF Carries, IsLoad, Sent
  <2>5. net' = (net \ {q}) \cup {p}
    BY <1>6, <2>1
  <2>6. PromptsShow'
    BY <1>6, <2>4, <2>5, PromptsStay DEF Shows
  <2>7. BackupsShow'
    BY <1>1, <1>2, <2>5, BackupsStay, SameShown DEF Shows
  <2>8. QED
    BY <1>1, <1>6, <2>3, <2>5, <2>6, <2>7, SameShown, GoesOneShow
<1>7. ASSUME net' = net \ {q}, prompts' = Finish(prompts, q.owner), next' = q.rest, \A k : ~Carries(q, k)
      PROVE  Shows'
  <2>1. prompts'.list = prompts.list
    BY <1>7, FinishList DEF SavingInv, PromptFields
  <2>2. PromptsShow'
    BY <1>7, <2>1, PromptsStay DEF Shows
  <2>3. BackupsShow'
    BY <1>1, <1>2, <1>7, BackupsStay, SameShown DEF Shows
  <2>4. QED
    BY <1>1, <1>7, <2>2, <2>3, SameShown, GoesNoneShow
<1>8. PICK reload : reload = IF q.state = "ok" THEN done ELSE IF q.state = "refused" THEN q.done ELSE {}
  OBVIOUS
<1>9. \A k : Carries(q, k) => k \in reload
  <2>1. q.state \notin {"ok", "refused"} => q.done = {}
    BY <1>1 DEF Whole
  <2>2. QED
    BY <1>3, <1>4, <1>8, <2>1
<1>10. \/ net' = (net \ {q}) \cup {NextPut(q, done)} /\ UNCHANGED <<prompts, next>>
       \/ net' = (net \ {q}) \cup {Load(reload, q.owner, q.rest)} /\ UNCHANGED <<prompts, next>>
       \/ /\ reload = {} /\ net' = net \ {q} /\ prompts' = Finish(prompts, q.owner) /\ next' = q.rest
  BY <1>3, <1>8 DEF AnswerPut
<1>11. QED
  BY <1>5, <1>6, <1>7, <1>9, <1>10

LEMMA AnswerResetShows ==
    ASSUME SavingInv, TurnsInv, Shows, Idle, NEW q \in net, q.kind = "resetPrompt", q.state # "sent",
           AnswerReset(q), db' = db
    PROVE  Shows'
<1>1. UNCHANGED <<form, backups>> /\ ~IsSave(q) /\ next' = << >>
  BY DEF AnswerReset, IsSave, Idle
<1>2. ~Retains(q) /\ ~Drops(q)
  BY DEF Retains, Drops
<1>3. CASE q.state = "ok"
  <2>1. PICK p : p = Load({q.key}, "one", << >>)
    OBVIOUS
  <2>2. IsLoad(p, {q.key}, "one", << >>)
    BY <2>1, LoadIs
  <2>3. Whole(p) /\ ~IsSave(p)
    BY <2>1, WholeLoad
  <2>4. \A k : Carries(q, k) => Carries(p, k)
    BY <2>2 DEF Carries, IsLoad, Sent
  <2>5. net' = (net \ {q}) \cup {p} /\ prompts' = prompts
    BY <1>3, <2>1 DEF AnswerReset
  <2>6. PromptsShow'
    BY <2>4, <2>5, PromptsStay DEF Shows
  <2>7. BackupsShow'
    BY <1>1, <1>2, <2>5, BackupsStay, SameShown DEF Shows
  <2>8. QED
    BY <1>1, <2>3, <2>5, <2>6, <2>7, SameShown, GoesOneShow
<1>4. CASE q.state # "ok"
  <2>1. net' = net \ {q} /\ prompts' = Finish(prompts, "one") /\ \A k : ~Carries(q, k)
    BY <1>4 DEF AnswerReset, Carries
  <2>2. prompts'.list = prompts.list
    BY <2>1, FinishList DEF SavingInv, PromptFields
  <2>3. PromptsShow'
    BY <2>1, <2>2, PromptsStay DEF Shows
  <2>4. BackupsShow'
    BY <1>1, <1>2, <2>1, BackupsStay, SameShown DEF Shows
  <2>5. QED
    BY <1>1, <2>1, <2>3, <2>4, SameShown, GoesNoneShow
<1>5. QED
  BY <1>3, <1>4

\* The backups: a stored retention is taken over, a deletion loads them again.
LEMMA BackupAnswersShow ==
    ASSUME SavingInv, TurnsInv, Shows, Idle, NEW q \in net, q.state # "sent", db' = db,
           \/ q.kind = "getBackups" /\ AnswerBackups(q)
           \/ q.kind = "putRetention" /\ AnswerRetention(q)
           \/ q.kind = "deleteDump" /\ AnswerDelete(q)
    PROVE  Shows'
<1>1. /\ UNCHANGED <<form, prompts>> /\ ~IsSave(q) /\ (next' = << >> \/ next' = q.rest) /\ Whole(q)
      /\ \A k : ~Carries(q, k)
  BY DEF AnswerBackups, AnswerRetention, AnswerDelete, IsSave, Idle, Shows, NetShows, Carries
<1>2. {"state", "retention", "dumps", "draft", "saving", "pending", "deleting"} \subseteq DOMAIN backups
  BY Fields DEF SavingInv, BackupFields
<1>3. CASE q.kind = "getBackups" /\ AnswerBackups(q)
  <2>1. q.state = "ok" /\ q.backups.retention = db.retention /\ q.backups.dumps = db.dumps
    BY <1>1, <1>3 DEF Whole, Fresh
  <2>2. PICK deleting : deleting = IF q.owner = "delete" THEN FALSE ELSE backups.deleting
    OBVIOUS
  <2>3. PICK b : b = q.backups
    OBVIOUS
  <2>4. backups' = [backups EXCEPT !.state = "ready", !.retention = b.retention,
                                   !.dumps = b.dumps, !.draft = b.retention, !.deleting = deleting]
    BY <1>3, <2>1, <2>2, <2>3 DEF AnswerBackups
  <2>5. backups'.retention = db.retention /\ backups'.dumps = db.dumps
    BY <1>2, <2>1, <2>3, <2>4
  <2>6. BackupsShow'
    BY <2>5 DEF BackupsShow
  <2>7. net' = net \ {q}
    BY <1>3 DEF AnswerBackups
  <2>8. PromptsShow'
    BY <1>1, <2>7, PromptsStay DEF Shows
  <2>9. QED
    BY <1>1, <2>6, <2>7, <2>8, SameShown, GoesNoneShow
<1>4. CASE q.kind = "putRetention" /\ AnswerRetention(q)
  <2>1. net' = net \ {q} /\ ~Drops(q)
    BY <1>4 DEF AnswerRetention, Drops
  <2>2. BackupsShow'
    <3>1. CASE q.state = "ok"
      <4>1. PICK r : r = q.retention
        OBVIOUS
      <4>2. backups' = [backups EXCEPT !.retention = r, !.draft = r, !.saving = FALSE]
        BY <1>4, <3>1, <4>1 DEF AnswerRetention
      <4>3. backups'.retention = r /\ backups'.state = backups.state /\ backups'.dumps = backups.dumps
        BY <1>2, <4>2
      <4>4. r = db.retention
        BY <1>1, <1>4, <3>1, <4>1 DEF Whole, Fresh
      <4>5. (\E p \in net : Drops(p)) => \E p \in net' : Drops(p)
        BY <2>1
      <4>6. QED
        BY <4>3, <4>4, <4>5 DEF Shows, BackupsShow
    <3>2. CASE q.state # "ok"
      <4>1. backups' = [backups EXCEPT !.saving = FALSE] /\ ~Retains(q)
        BY <1>4, <3>2 DEF AnswerRetention, Retains
      <4>2. BackupsSame
        BY <1>2, <4>1 DEF BackupsSame
      <4>3. QED
        BY <2>1, <4>1, <4>2, BackupsStay DEF Shows
    <3>3. QED
      BY <3>1, <3>2
  <2>3. PromptsShow'
    BY <1>1, <2>1, PromptsStay DEF Shows
  <2>4. QED
    BY <1>1, <2>1, <2>2, <2>3, SameShown, GoesNoneShow
<1>5. CASE q.kind = "deleteDump" /\ AnswerDelete(q)
  <2>1. ~Retains(q)
    BY <1>5 DEF Retains
  <2>2. BackupsSame
    <3>1. backups' = [backups EXCEPT !.pending = NoDump] \/ backups' = [backups EXCEPT !.deleting = FALSE]
      BY <1>5 DEF AnswerDelete
    <3>2. QED
      BY <1>2, <3>1 DEF BackupsSame
  <2>3. CASE q.state = "ok"
    <3>1. PICK args : args = [owner |-> "delete"]
      OBVIOUS
    <3>2. DOMAIN args = {"owner"} /\ args.owner = "delete"
      BY <3>1
    <3>3. PICK p : p = Request("getBackups", args, << >>)
      OBVIOUS
    <3>4. Common \cap DOMAIN args = {}
      BY <3>2 DEF Common
    <3>5. Whole(p) /\ ~IsSave(p)
      BY <3>3, <3>4, WholeSent
    <3>6. Drops(p)
      BY <3>2, <3>3, <3>4, NewShape DEF Drops
    <3>7. net' = (net \ {q}) \cup {p}
      BY <1>5, <2>3, <3>1, <3>3 DEF AnswerDelete
    <3>8. BackupsShow'
      BY <2>1, <2>2, <3>6, <3>7, BackupsStay DEF Shows
    <3>9. PromptsShow'
      BY <1>1, <3>7, PromptsStay DEF Shows
    <3>10. QED
      BY <1>1, <3>5, <3>7, <3>8, <3>9, SameShown, GoesOneShow
  <2>4. CASE q.state # "ok"
    <3>1. net' = net \ {q} /\ ~Drops(q)
      BY <1>5, <2>4 DEF AnswerDelete, Drops
    <3>2. BackupsShow'
      BY <2>1, <2>2, <3>1, BackupsStay DEF Shows
    <3>3. PromptsShow'
      BY <1>1, <3>1, PromptsStay DEF Shows
    <3>4. QED
      BY <1>1, <3>1, <3>2, <3>3, SameShown, GoesNoneShow
  <2>5. QED
    BY <2>3, <2>4
<1>6. QED
  BY <1>3, <1>4, <1>5

\* There is a text for every prompt.
LEMMA PromptsKept ==
    ASSUME SettingsInv, [Next]_vars, db.prompts = [k \in Key |-> db.prompts[k]]
    PROVE  db'.prompts = [k \in Key |-> db'.prompts[k]]
<1>1. CASE db' = db
  BY <1>1
<1>2. CASE \E q \in net : Serve(q) /\ db' # db
  <2>1. PICK q \in net : Serve(q) /\ db' # db
    BY <1>2
  <2>2. \/ \E s : db' = [db EXCEPT !.settings = s]
        \/ \E t : db' = [db EXCEPT !.prompts[q.key] = t]
        \/ \E r : db' = [db EXCEPT !.retention = r]
        \/ \E d : db' = [db EXCEPT !.dumps = d]
    BY <2>1 DEF Serve
  <2>3. {"settings", "prompts", "retention", "dumps"} \subseteq DOMAIN db
    BY DEF SettingsInv, DbOK
  <2>4. db'.prompts = db.prompts \/ \E t : db'.prompts = [db.prompts EXCEPT ![q.key] = t]
    BY <2>2, <2>3
  <2>5. \A t : [db.prompts EXCEPT ![q.key] = t] = [k \in Key |-> [db.prompts EXCEPT ![q.key] = t][k]]
    OBVIOUS
  <2>6. QED
    BY <2>4, <2>5
<1>3. db' = db \/ \E q \in net : Serve(q)
  BY DEF Next, User, Network, vars, Open, EditSettings, EditPrompts, EditBackups, BarSave, BarDiscard, RetryLoad,
     Leave, TypeText, EditInPlace, AddEmail, RemoveEmail, PickModel, HandleChange, SendTest, SavePrompt, ResetPrompt,
     TypePrompt, TypeRetention, SaveRetention, CancelDelete, ConfirmDelete, RequestDelete, BarStart, Answer, Fail
<1>4. QED
  BY <1>1, <1>2, <1>3

\* Requests that overlap are not forgotten before the page is left.
LEMMA AstrayStays ==
    ASSUME [Next]_vars, astray, ~astray' PROVE Idle /\ \E how, yes : Leave(how, yes)
BY DEF Next, User, Network, vars, history, Open, EditSettings, EditPrompts, EditBackups, BarSave, BarDiscard, RetryLoad,
   TypeText, EditInPlace, AddEmail, RemoveEmail, PickModel, HandleChange, SendTest, SavePrompt, ResetPrompt, Serve,
   TypePrompt, TypeRetention, SaveRetention, CancelDelete, ConfirmDelete, RequestDelete, BarStart, Answer, Fail

\* Every step keeps what the page shows.
LEMMA ShowsStep == ASSUME SettingsInv, SavingInv, TurnsInv, ShowsInv, [Next]_vars PROVE ShowsInv'
<1>1. db'.prompts = [k \in Key |-> db'.prompts[k]]
  BY PromptsKept DEF ShowsInv
<1>2. SUFFICES ASSUME ~astray' PROVE Shows'
  BY <1>1 DEF ShowsInv
<1>3. CASE \E how, yes : Idle /\ Leave(how, yes)
  BY <1>2, <1>3, LeaveShows
<1>4. CASE ~\E how, yes : Idle /\ Leave(how, yes)
  <2>1. Shows /\ db.prompts = [k \in Key |-> db.prompts[k]]
    BY <1>2, <1>4, AstrayStays DEF ShowsInv
  <2>2. CASE UNCHANGED vars
    BY <2>1, <2>2
    DEF vars, Shows, NetShows, Whole, Fresh, OverOK, Known, Other, Theirs, FormShows, PromptsShow, BackupsShow,
        Respond
  <2>3. CASE BarStart
    BY <2>1, <2>3, BarStartShows
  <2>4. CASE Idle /\ User
    BY <1>4, <2>1, <2>4, OpenShows, EditSettingsShows, EditPromptsShows, EditBackupsShows, BarSaveShows,
       BarDiscardShows, RetryLoadShows DEF User
  <2>5. CASE Idle /\ Network
    <3>1. PICK q \in net : Serve(q) \/ Answer(q) \/ \E s \in {"refused", "lost"} : Fail(q, s)
      BY <2>5 DEF Network
    <3>2. CASE Serve(q)
      BY <1>2, <2>1, <2>5, <3>2, ServeShows
    <3>3. CASE \E s \in {"refused", "lost"} : Fail(q, s)
      BY <1>2, <2>1, <2>5, <3>3, FailShows
    <3>4. CASE Answer(q)
      <4>1. db' = db /\ q.state # "sent"
        BY <3>4 DEF Answer
      <4>2. \/ q.kind = "getSettings"  /\ AnswerSettings(q)
            \/ q.kind \in {"N", "I"}   /\ AnswerSave(q)
            \/ q.kind = "test"         /\ AnswerTest(q)
            \/ q.kind = "getPrompts"   /\ AnswerLoad(q)
            \/ q.kind = "putPrompt"    /\ AnswerPut(q)
            \/ q.kind = "resetPrompt"  /\ AnswerReset(q)
            \/ q.kind = "getBackups"   /\ AnswerBackups(q)
            \/ q.kind = "putRetention" /\ AnswerRetention(q)
            \/ q.kind = "deleteDump"   /\ AnswerDelete(q)
        BY <3>4 DEF Answer
      <4>3. QED
        BY <2>1, <2>5, <4>1, <4>2, AnswerSettingsShows, AnswerSaveShows, AnswerTestShows, AnswerLoadShows,
           AnswerPutShows, AnswerResetShows, BackupAnswersShow
    <3>5. QED
      BY <3>1, <3>2, <3>3, <3>4
  <2>6. QED
    BY <2>2, <2>3, <2>4, <2>5 DEF Next
<1>5. QED
  BY <1>3, <1>4

LEMMA ShowsStart == Init => ShowsInv
<1>1. SUFFICES ASSUME Init PROVE ShowsInv
  OBVIOUS
<1>2. PICK p : p = [k \in Key |-> Default]
  OBVIOUS
<1>3. db.prompts = p
  BY <1>1, <1>2 DEF Init
<1>4. db.prompts = [k \in Key |-> db.prompts[k]]
  BY <1>2, <1>3
<1>5. net = {} /\ next = << >> /\ form.state = "left" /\ prompts.list = NoPrompts /\ backups.state = "loading"
  BY <1>1 DEF Init, NoForm, NoSection, NoBackups
<1>6. QED
  BY <1>4, <1>5 DEF ShowsInv, Shows, NetShows, OverOK, FormShows, PromptsShow, BackupsShow

\* With nothing unsaved and nothing under way, what is shown is stored.
LEMMA ShownIsStored == SettingsInv /\ TurnsInv /\ ShowsInv => UnlistedIsStored
<1>1. SUFFICES ASSUME SettingsInv, TurnsInv, ShowsInv, form.state = "ready", net = {}, Idle, ~AnyUnsaved, ~astray
               PROVE  /\ Respond(form.shown) = Respond(db.settings)
                      /\ prompts.list # NoPrompts => prompts.list = db.prompts
                      /\ backups.state = "ready" =>
                            backups.draft = db.retention /\ backups.dumps = db.dumps
  BY DEF UnlistedIsStored
<1>2. Shows /\ db.prompts = [k \in Key |-> db.prompts[k]]
  BY <1>1 DEF ShowsInv
<1>3. form.dirtyN = << >> /\ form.dirtyI = << >> /\ ~RetentionDirty
  <2>1. \A x : ~Among(x, Listed)
    BY <1>1 DEF AnyUnsaved, Among
  <2>2. QED
    BY <2>1, ListedIs
<1>4. \A f \in Field : Resp(f, form.shown[f]) = Resp(f, db.settings[f])
  <2>1. form.saved = Respond(db.settings) /\ \A f \in Field : Resp(f, form.shown[f]) = Resp(f, form.saved[f])
    BY <1>1, <1>2, <1>3 DEF Shows, FormShows
  <2>2. QED
    BY <2>1, RespondIs
<1>5. Respond(form.shown) = Respond(db.settings)
  BY <1>4 DEF Respond, Resp
<1>6. prompts.list # NoPrompts => prompts.list = db.prompts
  BY <1>1, <1>2 DEF Shows, PromptsShow
<1>7. backups.state = "ready" => backups.draft = db.retention /\ backups.dumps = db.dumps
  BY <1>1, <1>2, <1>3 DEF Shows, BackupsShow, RetentionDirty
<1>8. QED
  BY <1>5, <1>6, <1>7

\* What the bar does not list is stored, so that leaving without a question loses nothing
\* (useUnsavedChanges and confirmLeave), for every set of settings, prompts and backups.
THEOREM UnlistedStored == Spec => []UnlistedIsStored
<1>1. SettingsInv /\ SavingInv /\ TurnsInv /\ ShowsInv /\ [Next]_vars => ShowsInv'
  BY ShowsStep
<1>2. SettingsInv /\ SavingInv /\ TurnsInv /\ ShowsInv => UnlistedIsStored
  BY ShownIsStored
<1>3. QED
  BY TurnsTaken, ShowsStart, <1>1, <1>2, PTL DEF Spec

-----------------------------------------------------------------------------
(* Drafts of prompts.  A load drops the drafts that it settles; what it    *)
(* settles was stored as it was typed, unless the start or the end of      *)
(* another prompt's save unblocked the text meanwhile.                     *)

PromptKinds == {"putPrompt", "resetPrompt", "getPrompts"}
IsOne(q) == q.live /\ q.kind \in PromptKinds /\ q.owner = "one"

\* Whatever is typed for k may be dropped; what is typed now may be; it is t that is typed.
Spent(k) == Texts({k}) \subseteq droppable
Kept(k) == k \in DOMAIN prompts.drafts => <<k, prompts.drafts[k]>> \in droppable
Now(k, t) == k \in DOMAIN prompts.drafts => prompts.drafts[k] = t

DraftsOK == \A k \in DOMAIN prompts.drafts : k \in Key /\ prompts.drafts[k] \in Atom \cup {Blank}

\* The save or the reset of one prompt, and the load after it.
Meant(q, k) ==
    \/ Spent(k)
    \/ /\ prompts.busy = k
       /\ q.kind = "putPrompt" => Now(k, q.text) /\ (q.state = "ok" => <<k, q.text>> \in droppable)
       /\ q.kind = "resetPrompt" => q.state # "ok"
       /\ q.kind = "getPrompts" => Kept(k)
OneOK(q) ==
    /\ \E k \in Key : Settling(q) = {k} /\ Meant(q, k)
    /\ q.kind = "putPrompt" => q.todo = << >> /\ q.done = {}

\* What saveAll stores, and the load after it.
AllOK(q) ==
    /\ q.kind = "getPrompts" => \A k \in q.settled : Kept(k)
    /\ q.kind = "putPrompt" =>
         /\ \A k \in q.done : Kept(k)
         /\ Now(q.key, q.text) /\ (q.state = "ok" => <<q.key, q.text>> \in droppable)
         /\ DOMAIN q.todo \subseteq Key /\ (q.todo # << >> => DOMAIN q.todo # {})
         /\ \A k \in DOMAIN q.todo : Now(k, q.todo[k])

PartOK(q) ==
    /\ q.live /\ q.kind = "getPrompts" =>
         "settled" \in DOMAIN q /\ (q.owner \notin {"one", "all"} => q.settled = {})
    /\ IsOne(q) => OneOK(q)
    /\ IsAll(q) => AllOK(q)

DraftsInv ==
    /\ DraftsOK
    /\ \A q \in net : PartOK(q)
    /\ \A p, q \in net : IsOne(p) /\ IsOne(q) /\ p # q =>
         \A k \in Settling(p) \cap Settling(q) : Spent(k)

\* A draft is what it was, or gone.
Firm(k) == k \in DOMAIN prompts'.drafts => k \in DOMAIN prompts.drafts /\ prompts'.drafts[k] = prompts.drafts[k]

\* The prompts of a request are settled or as they were.
Unmoved(q) == \A k \in Settling(q) : \/ Texts({k}) \subseteq droppable'
                                     \/ Firm(k) /\ (prompts.busy = k => prompts'.busy = k)

\* What the requests but one stand for is as it was; p is of another prompt than those, or
\* of a prompt that is settled.
OthersStay(q) ==
    \A r \in net \ {q} : (IsOne(r) => Unmoved(r)) /\ (IsAll(r) => \A k : Firm(k))
Apart(p, q) ==
    \A r \in net \ {q} : IsOne(p) /\ IsOne(r) =>
        \A k \in Settling(p) \cap Settling(r) : Texts({k}) \subseteq droppable'

\* A request that is no save of a prompt and settles none.
Inert(p) ==
    /\ ~IsOne(p) /\ ~IsAll(p)
    /\ p.kind = "getPrompts" => "settled" \in DOMAIN p /\ p.settled = {}

LEMMA SettlingStays == \A q : Settling(q)' = Settling(q)
BY DEF Settling

LEMMA TextsStay == \A K : Texts(K)' = Texts(K)
BY DEF Texts

LEMMA OneStays ==
    ASSUME NEW q, OneOK(q), Unmoved(q), droppable \subseteq droppable'
    PROVE  OneOK(q)'
<1>1. PICK k \in Key : Settling(q) = {k} /\ Meant(q, k)
  BY DEF OneOK
<1>2. \/ Texts({k}) \subseteq droppable'
      \/ Firm(k) /\ (prompts.busy = k => prompts'.busy = k)
  BY <1>1 DEF Unmoved
<1>3. Meant(q, k)'
  <2>1. CASE Texts({k}) \subseteq droppable'
    BY <2>1, TextsStay DEF Meant, Spent
  <2>2. CASE Spent(k)
    BY <2>2, TextsStay DEF Meant, Spent
  <2>3. CASE ~Spent(k) /\ Firm(k) /\ (prompts.busy = k => prompts'.busy = k)
    BY <1>1, <2>3 DEF Meant, Firm, Now, Kept
  <2>4. QED
    BY <1>2, <2>1, <2>2, <2>3
<1>4. q.kind = "putPrompt" => q.todo = << >> /\ q.done = {}
  BY DEF OneOK
<1>5. QED
  BY <1>1, <1>3, <1>4, SettlingStays DEF OneOK

LEMMA AllStays ==
    ASSUME NEW q, AllOK(q), \A k : Firm(k), droppable \subseteq droppable'
    PROVE  AllOK(q)'
<1>1. ASSUME NEW k, Kept(k) PROVE Kept(k)'
  BY <1>1 DEF Kept, Firm
<1>2. ASSUME NEW k, NEW t, Now(k, t) PROVE Now(k, t)'
  BY <1>2 DEF Now, Firm
<1>3. QED
  BY <1>1, <1>2 DEF AllOK

\* A request makes room for others: at most one of them saves a prompt.
LEMMA DraftsGo ==
    ASSUME DraftsInv, droppable \subseteq droppable', DraftsOK', NEW q, NEW p, NEW N, \A n \in N : Inert(n),
           net' \subseteq ((net \ {q}) \cup {p}) \cup N,
           OthersStay(q), PartOK(p)', Apart(p, q)
    PROVE  DraftsInv'
<1>1. ASSUME NEW r \in net' PROVE PartOK(r)'
  <2>1. CASE r = p
    BY <2>1
  <2>2. CASE r \in N
    BY <2>2 DEF Inert, PartOK
  <2>3. CASE r \in net \ {q}
    <3>1. PartOK(r)
      BY <2>3 DEF DraftsInv
    <3>2. IsOne(r) => OneOK(r)'
      BY <2>3, <3>1, OneStays DEF PartOK, OthersStay
    <3>3. IsAll(r) => AllOK(r)'
      BY <2>3, <3>1, AllStays DEF PartOK, OthersStay
    <3>4. QED
      BY <3>1, <3>2, <3>3 DEF PartOK
  <2>4. QED
    BY <2>1, <2>2, <2>3
<1>2. ASSUME NEW r \in net', NEW s \in net', IsOne(r), IsOne(s), r # s, NEW k \in Settling(r) \cap Settling(s)
      PROVE  Texts({k}) \subseteq droppable'
  <2>1. \A n \in net' : IsOne(n) => n = p \/ n \in net \ {q}
    BY DEF Inert
  <2>2. CASE r = p \/ s = p
    BY <1>2, <2>1, <2>2 DEF Apart
  <2>3. CASE r \in net \ {q} /\ s \in net \ {q}
    <3>1. Spent(k)
      BY <1>2, <2>3 DEF DraftsInv
    <3>2. QED
      BY <3>1 DEF Spent
  <2>4. QED
    BY <1>2, <2>1, <2>2, <2>3
<1>3. \A r, s \in net' : IsOne(r) /\ IsOne(s) /\ r # s =>
        \A k \in (Settling(r) \cap Settling(s))' : Spent(k)'
  BY <1>2, SettlingStays, TextsStay DEF Spent
<1>4. QED
  BY <1>1, <1>3 DEF DraftsInv

\* Nobody sends anything but what is inert.
LEMMA DraftsCalm ==
    ASSUME DraftsInv, droppable \subseteq droppable', DraftsOK', NEW q, NEW N, \A n \in N : Inert(n),
           net' \subseteq (net \ {q}) \cup N,
           OthersStay(q)
    PROVE  DraftsInv'
<1>1. PICK p : p = [live |-> FALSE]
  OBVIOUS
<1>2. ~p.live
  BY <1>1
<1>3. ~IsOne(p) /\ PartOK(p)'
  BY <1>2 DEF IsOne, IsAll, PartOK
<1>4. net' \subseteq ((net \ {q}) \cup {p}) \cup N
  OBVIOUS
<1>5. Apart(p, q)
  BY <1>3 DEF Apart
<1>6. QED
  BY <1>3, <1>4, <1>5, DraftsGo

\* The drafts as they were.
LEMMA DraftsSame ==
    ASSUME prompts'.drafts = prompts.drafts
    PROVE  /\ \A k : Firm(k)
           /\ prompts'.busy = prompts.busy => \A r : Unmoved(r)
           /\ DraftsOK => DraftsOK'
BY DEF Firm, Unmoved, DraftsOK

\* Inert requests come, others go, what the rest stand for is as it was.
Steady == \A r \in net : (IsOne(r) => Unmoved(r)) /\ (IsAll(r) => \A k : Firm(k))

LEMMA DraftsAside ==
    ASSUME DraftsInv, droppable \subseteq droppable', DraftsOK', Steady, NEW N, \A n \in N : Inert(n),
           net' \subseteq net \cup N
    PROVE  DraftsInv'
<1>1. PICK q : q = [live |-> FALSE]
  OBVIOUS
<1>2. ~q.live
  BY <1>1
<1>3. OthersStay(q)
  BY DEF OthersStay, Steady
<1>4. CASE q \notin net
  BY <1>3, <1>4, DraftsCalm
<1>5. CASE q \in net
  <2>1. net' \subseteq ((net \ {q}) \cup {q}) \cup N
    OBVIOUS
  <2>2. ~IsOne(q) /\ PartOK(q)'
    BY <1>2 DEF IsOne, IsAll, PartOK
  <2>3. Apart(q, q)
    BY <2>2 DEF Apart
  <2>4. QED
    BY <1>3, <2>1, <2>2, <2>3, DraftsGo
<1>6. QED
  BY <1>4, <1>5

\* The requests of the other handlers, and the loads that settle nothing.
LEMMA InertSent ==
    ASSUME NEW kind, kind \notin PromptKinds, NEW args, Common \cap DOMAIN args = {}, NEW rest,
           NEW p, p = Request(kind, args, rest)
    PROVE  Inert(p)
<1>1. p.kind = kind
  BY NewShape
<1>2. QED
  BY <1>1 DEF Inert, IsOne, IsAll, PromptKinds

LEMMA InertLoad ==
    ASSUME NEW owner, owner \notin {"one", "all"}, NEW rest, NEW p, p = Load({}, owner, rest)
    PROVE  Inert(p)
<1>1. IsLoad(p, {}, owner, rest)
  BY LoadIs
<1>2. QED
  BY <1>1 DEF Inert, IsOne, IsAll, IsLoad

LEMMA InertComes ==
    ASSUME DraftsInv, droppable' = droppable, prompts' = prompts, \A n \in net' : n \in net \/ Inert(n)
    PROVE  DraftsInv'
<1>1. PICK N : N = {n \in net' : Inert(n)}
  OBVIOUS
<1>2. net' \subseteq net \cup N /\ \A n \in N : Inert(n)
  BY <1>1
<1>3. DraftsOK' /\ Steady
  BY DraftsSame DEF DraftsInv, Steady
<1>4. QED
  BY <1>2, <1>3, DraftsAside

\* The page, the settings form and the backups.
LEMMA AsideDrafts ==
    ASSUME DraftsInv, Open \/ EditSettings \/ EditBackups \/ BarSave \/ RetryLoad
    PROVE  DraftsInv'
<1>1. prompts' = prompts /\ droppable' = droppable
  BY DEF Open, EditSettings, TypeText, EditInPlace, AddEmail, RemoveEmail, PickModel, HandleChange, SendTest, EditBackups,
     TypeRetention, SaveRetention, CancelDelete, ConfirmDelete, RequestDelete, BarSave, RetryLoad, history
<1>2. PICK none, ret, dump : none = << >> /\ ret = [retention |-> backups.draft] /\ dump = [dump |-> backups.pending]
  OBVIOUS
<1>3. /\ Common \cap DOMAIN none = {} /\ Common \cap DOMAIN ret = {} /\ Common \cap DOMAIN dump = {}
  <2>1. DOMAIN none = {} /\ DOMAIN ret = {"retention"} /\ DOMAIN dump = {"dump"}
    BY <1>2
  <2>2. QED
    BY <2>1 DEF Common
<1>4. \/ net' = net
      \/ net' = net \cup {Request("getSettings", none, << >>)}
      \/ net' = net \cup {Request("test", none, << >>)}
      \/ net' = net \cup {Request("putRetention", ret, << >>)}
      \/ net' = net \cup {Request("deleteDump", dump, << >>)}
      \/ net' = net \cup {Load({}, "retry", << >>)}
  BY <1>2 DEF Open, EditSettings, TypeText, EditInPlace, AddEmail, RemoveEmail, PickModel, HandleChange, SendTest, EditBackups,
     TypeRetention, SaveRetention, CancelDelete, ConfirmDelete, RequestDelete, BarSave, RetryLoad, PutRetention
<1>5. \A p : \/ p = Request("getSettings", none, << >>)
             \/ p = Request("test", none, << >>)
             \/ p = Request("putRetention", ret, << >>)
             \/ p = Request("deleteDump", dump, << >>)
             \/ p = Load({}, "retry", << >>)
             => Inert(p)
  <2>1. \A p : p = Request("getSettings", none, << >>) \/ p = Request("test", none, << >>) => Inert(p)
    BY <1>3, InertSent DEF PromptKinds
  <2>2. \A p : p = Request("putRetention", ret, << >>) => Inert(p)
    BY <1>3, InertSent DEF PromptKinds
  <2>3. \A p : p = Request("deleteDump", dump, << >>) => Inert(p)
    BY <1>3, InertSent DEF PromptKinds
  <2>4. \A p : p = Load({}, "retry", << >>) => Inert(p)
    BY InertLoad
  <2>5. QED
    BY <2>1, <2>2, <2>3, <2>4
<1>6. \A n \in net' : n \in net \/ Inert(n)
  BY <1>4, <1>5
<1>7. QED
  BY <1>1, <1>6, InertComes

\* Leaving the page: what is under way is not its any more.
LEMMA LeaveDrafts ==
    ASSUME TurnsInv', NEW how, NEW yes, Leave(how, yes) PROVE DraftsInv'
<1>1. prompts'.drafts = NoDraft /\ \A q \in net' : ~q.live
  BY DEF Leave, NoForm, NoSection, TurnsInv, Away
<1>2. QED
  BY <1>1 DEF DraftsInv, DraftsOK, PartOK, IsOne, IsAll, NoDraft

\* Discard drops every draft.
LEMMA BarDiscardDrafts == ASSUME DraftsInv, SavingInv, BarDiscard PROVE DraftsInv'
<1>1. {"list", "drafts", "busy", "all"} \subseteq DOMAIN prompts
  BY Fields DEF SavingInv, PromptFields
<1>2. prompts'.drafts \in {prompts.drafts, NoDraft} /\ prompts'.busy = prompts.busy
  BY <1>1 DEF BarDiscard
<1>3. net' = net /\ droppable' = droppable
  BY DEF BarDiscard, history
<1>4. (\A k : Firm(k)) /\ DraftsOK'
  BY <1>2 DEF Firm, DraftsInv, DraftsOK, NoDraft
<1>5. Steady
  BY <1>2, <1>4 DEF Steady, Unmoved
<1>6. PICK N : N = {}
  OBVIOUS
<1>7. net' \subseteq net \cup N /\ (\A n \in N : Inert(n)) /\ droppable \subseteq droppable'
  BY <1>3, <1>6
<1>8. QED
  BY <1>4, <1>5, <1>7, DraftsAside

-----------------------------------------------------------------------------
(* Prompts that are typed, saved and reset.                                *)

\* While a prompt can be typed, nothing is under way for all of them; what is under way for
\* it is done with.
LEMMA NotBusy ==
    ASSUME TurnsInv, DraftsInv, NEW k, ~PromptBusy(k)
    PROVE  /\ \A r \in net : ~IsAll(r)
           /\ \A r \in net : IsOne(r) => \E j \in Key : Settling(r) = {j} /\ Meant(r, j) /\ (j = k => Spent(k))
<1>1. prompts.busy # k /\ ~prompts.all
  BY DEF PromptBusy
<1>2. \A r \in net : ~IsAll(r)
  BY <1>1 DEF TurnsInv
<1>3. ASSUME NEW r \in net, IsOne(r)
      PROVE  \E j \in Key : Settling(r) = {j} /\ Meant(r, j) /\ (j = k => Spent(k))
  <2>1. PICK j \in Key : Settling(r) = {j} /\ Meant(r, j)
    BY <1>3 DEF DraftsInv, PartOK, OneOK
  <2>2. j = k => Spent(k)
    BY <1>1, <2>1 DEF Meant
  <2>3. QED
    BY <2>1, <2>2
<1>4. QED
  BY <1>2, <1>3

LEMMA TypeDrafts ==
    ASSUME TurnsInv, SavingInv, DraftsInv, NEW k \in Key, NEW t \in Atom \cup {Blank}, TypePrompt(k, t)
    PROVE  DraftsInv'
<1>1. {"list", "drafts", "busy", "all"} \subseteq DOMAIN prompts
  BY Fields DEF SavingInv, PromptFields
<1>2. PICK one : one = [x \in {k} |-> t]
  OBVIOUS
<1>3. PICK d : d = Over(one, prompts.drafts)
  OBVIOUS
<1>4. /\ DOMAIN d = {k} \cup DOMAIN prompts.drafts
      /\ \A x \in DOMAIN d : d[x] = IF x = k THEN t ELSE prompts.drafts[x]
  BY <1>2, <1>3 DEF Over
<1>5. prompts' = [prompts EXCEPT !.drafts = d] /\ net' = net /\ droppable' = droppable /\ ~PromptBusy(k)
  BY <1>2, <1>3 DEF TypePrompt, history
<1>6. prompts'.drafts = d /\ prompts'.busy = prompts.busy
  BY <1>1, <1>5
<1>7. DraftsOK'
  <2>1. DraftsOK
    BY DEF DraftsInv
  <2>2. QED
    BY <1>4, <1>6, <2>1 DEF DraftsOK
<1>8. \A j : j # k => Firm(j)
  BY <1>4, <1>6 DEF Firm
<1>9. Steady
  <2>1. ASSUME NEW r \in net, IsOne(r) PROVE Unmoved(r)
    <3>1. PICK j \in Key : Settling(r) = {j} /\ (j = k => Spent(k))
      BY <1>5, <2>1, NotBusy
    <3>2. QED
      BY <1>5, <1>6, <1>8, <3>1 DEF Unmoved, Spent
  <2>2. \A r \in net : ~IsAll(r)
    BY <1>5, NotBusy
  <2>3. QED
    BY <2>1, <2>2 DEF Steady
<1>10. PICK N : N = {}
  OBVIOUS
<1>11. net' \subseteq net \cup N /\ (\A n \in N : Inert(n)) /\ droppable \subseteq droppable'
  BY <1>5, <1>10
<1>12. QED
  BY <1>7, <1>9, <1>11, DraftsAside

\* A prompt's own buttons.
LEMMA OneComes ==
    ASSUME TurnsInv, DraftsInv, NEW k \in Key, ~PromptBusy(k), NEW p, IsOne(p), Settling(p) = {k},
           PartOK(p)', net' = net \cup {p}, droppable' = droppable \cup Texts({prompts.busy}),
           prompts'.drafts = prompts.drafts, prompts'.busy = k
    PROVE  DraftsInv'
<1>1. DraftsOK' /\ \A j : Firm(j)
  BY DraftsSame DEF DraftsInv
<1>2. ASSUME NEW r \in net \ {p}, IsOne(r) PROVE Unmoved(r)
  <2>1. PICK j \in Key : Settling(r) = {j} /\ Meant(r, j)
    BY <1>2, NotBusy
  <2>2. Spent(j) => Texts({j}) \subseteq droppable'
    BY DEF Spent
  <2>3. prompts.busy = j => Texts({j}) \subseteq droppable'
    OBVIOUS
  <2>4. QED
    BY <2>1, <2>2, <2>3 DEF Unmoved, Meant
<1>3. OthersStay(p)
  BY <1>1, <1>2 DEF OthersStay
<1>4. ASSUME NEW r \in net \ {p}, IsOne(r), NEW j \in Settling(p) \cap Settling(r) PROVE Texts({j}) \subseteq droppable'
  <2>1. Spent(k)
    BY <1>4, NotBusy
  <2>2. j = k
    BY <1>4
  <2>3. QED
    BY <2>1, <2>2 DEF Spent
<1>5. Apart(p, p)
  BY <1>4 DEF Apart
<1>6. PICK N : N = {}
  OBVIOUS
<1>7. /\ net' \subseteq ((net \ {p}) \cup {p}) \cup N /\ (\A n \in N : Inert(n)) /\ droppable \subseteq droppable'
  BY <1>6
<1>8. QED
  BY <1>1, <1>3, <1>5, <1>7, DraftsGo

LEMMA SavePromptDrafts ==
    ASSUME TurnsInv, SavingInv, DraftsInv, NEW k \in Key, SavePrompt(k) PROVE DraftsInv'
<1>1. {"list", "drafts", "busy", "all"} \subseteq DOMAIN prompts
  BY Fields DEF SavingInv, PromptFields
<1>2. PICK p : p = Request("putPrompt", [key |-> k, text |-> prompts.drafts[k], todo |-> << >>, done |-> {},
                                         owner |-> "one"], << >>)
  OBVIOUS
<1>3. IsPut(p, k, prompts.drafts[k], << >>, {}, "one", << >>)
  BY <1>2, PutIs
<1>4. /\ ~PromptBusy(k) /\ prompts' = [prompts EXCEPT !.busy = k]
      /\ net' = net \cup {p} /\ droppable' = droppable \cup Texts({prompts.busy})
  BY <1>2 DEF SavePrompt
<1>5. prompts'.drafts = prompts.drafts /\ prompts'.busy = k
  BY <1>1, <1>4
<1>6. /\ p.kind = "putPrompt" /\ p.live /\ p.state = "sent" /\ p.key = k /\ p.text = prompts.drafts[k]
      /\ p.todo = << >> /\ p.done = {} /\ p.owner = "one"
  BY <1>3 DEF IsPut, Sent
<1>7. IsOne(p) /\ ~IsAll(p) /\ Settling(p) = {k}
  BY <1>6 DEF IsOne, IsAll, Settling, PromptKinds
<1>8. Meant(p, k)'
  BY <1>5, <1>6 DEF Meant, Now
<1>9. PartOK(p)'
  BY <1>6, <1>7, <1>8, SettlingStays DEF PartOK, OneOK
<1>10. QED
  BY <1>4, <1>5, <1>7, <1>9, OneComes

LEMMA ResetIs ==
    ASSUME NEW k, NEW q, q = Request("resetPrompt", [key |-> k, owner |-> "one"], << >>)
    PROVE  Sent(q, "resetPrompt", << >>) /\ q.key = k /\ q.owner = "one"
<1>1. PICK args : args = [key |-> k, owner |-> "one"]
  OBVIOUS
<1>2. DOMAIN args = {"key", "owner"} /\ args.key = k /\ args.owner = "one"
  BY <1>1
<1>3. PICK r : r = Request("resetPrompt", args, << >>)
  OBVIOUS
<1>4. Common \cap DOMAIN args = {}
  BY <1>2 DEF Common
<1>5. Sent(r, "resetPrompt", << >>)
  BY <1>3, <1>4, SentIs
<1>6. \A x \in DOMAIN args : r[x] = args[x]
  BY <1>3, <1>4, NewShape
<1>7. QED
  BY <1>1, <1>2, <1>3, <1>5, <1>6

LEMMA ResetPromptDrafts ==
    ASSUME TurnsInv, SavingInv, DraftsInv, NEW k \in Key, ResetPrompt(k) PROVE DraftsInv'
<1>1. {"list", "drafts", "busy", "all"} \subseteq DOMAIN prompts
  BY Fields DEF SavingInv, PromptFields
<1>2. PICK p : p = Request("resetPrompt", [key |-> k, owner |-> "one"], << >>)
  OBVIOUS
<1>3. p.kind = "resetPrompt" /\ p.live /\ p.state = "sent" /\ p.key = k /\ p.owner = "one"
  BY <1>2, ResetIs DEF Sent
<1>4. /\ ~PromptBusy(k) /\ prompts' = [prompts EXCEPT !.busy = k]
      /\ net' = net \cup {p} /\ droppable' = droppable \cup Texts({prompts.busy})
  BY <1>2 DEF ResetPrompt
<1>5. prompts'.drafts = prompts.drafts /\ prompts'.busy = k
  BY <1>1, <1>4
<1>6. IsOne(p) /\ ~IsAll(p) /\ Settling(p) = {k}
  BY <1>3 DEF IsOne, IsAll, Settling, PromptKinds
<1>7. Meant(p, k)'
  BY <1>3, <1>5 DEF Meant
<1>8. PartOK(p)'
  BY <1>3, <1>6, <1>7, SettlingStays DEF PartOK, OneOK
<1>9. QED
  BY <1>4, <1>5, <1>6, <1>8, OneComes

LEMMA EditPromptsDrafts ==
    ASSUME TurnsInv, SavingInv, DraftsInv, EditPrompts PROVE DraftsInv'
BY TypeDrafts, SavePromptDrafts, ResetPromptDrafts DEF EditPrompts

\* The bar saves all of them.
LEMMA AllComes ==
    ASSUME DraftsInv, NEW p, IsAll(p), PartOK(p)', net' = net \cup {p}, droppable' = droppable,
           prompts'.drafts = prompts.drafts, prompts'.busy = prompts.busy
    PROVE  DraftsInv'
<1>1. DraftsOK' /\ (\A k : Firm(k)) /\ \A r : Unmoved(r)
  BY DraftsSame DEF DraftsInv
<1>2. OthersStay(p)
  BY <1>1 DEF OthersStay
<1>3. ~IsOne(p)
  BY DEF IsAll, IsOne
<1>4. Apart(p, p)
  BY <1>3 DEF Apart
<1>5. PICK N : N = {}
  OBVIOUS
<1>6. net' \subseteq ((net \ {p}) \cup {p}) \cup N /\ (\A n \in N : Inert(n)) /\ droppable \subseteq droppable'
  BY <1>5
<1>7. QED
  BY <1>1, <1>2, <1>4, <1>6, DraftsGo

\* An entry that is not there is no entry.
LEMMA NoTodo == ASSUME NEW K, NEW f, f = [k \in K |-> prompts.drafts[k]] PROVE f # << >> => DOMAIN f # {}
<1>1. SUFFICES ASSUME DOMAIN f = {} PROVE f = << >>
  OBVIOUS
<1>2. DOMAIN << >> = {}
  OBVIOUS
<1>3. QED
  BY <1>1, <1>2

LEMMA SaveAllDrafts ==
    ASSUME SavingInv, DraftsInv, NEW rest, SaveAllPrompts(rest), droppable' = droppable
    PROVE  DraftsInv'
<1>1. {"list", "drafts", "busy", "all"} \subseteq DOMAIN prompts
  BY Fields DEF SavingInv, PromptFields
<1>2. CASE UNCHANGED <<prompts, net>>
  BY <1>2, InertComes
<1>3. CASE ~UNCHANGED <<prompts, net>>
  <2>1. PICK edited : edited = EditedIn(prompts)
    OBVIOUS
  <2>2. PICK p : p = IF edited = {} THEN Load({}, "all", rest) ELSE PutNext(edited, {}, rest)
    OBVIOUS
  <2>3. net' = net \cup {p} /\ prompts' = [prompts EXCEPT !.all = TRUE]
    BY <1>3, <2>1, <2>2 DEF SaveAllPrompts
  <2>4. prompts'.drafts = prompts.drafts /\ prompts'.busy = prompts.busy
    BY <1>1, <2>3
  <2>5. IsAll(p) /\ PartOK(p)'
    <3>1. CASE edited = {}
      <4>1. IsLoad(p, {}, "all", rest)
        BY <2>2, <3>1, LoadIs
      <4>2. p.kind = "getPrompts" /\ p.live /\ p.owner = "all" /\ p.settled = {} /\ "settled" \in DOMAIN p
        BY <4>1 DEF IsLoad, Sent
      <4>3. QED
        BY <4>2 DEF IsAll, PartOK, IsOne, AllOK
    <3>2. CASE edited # {}
      <4>1. PICK k : k = First(edited)
        OBVIOUS
      <4>2. PICK todo : todo = [j \in edited \ {k} |-> prompts.drafts[j]]
        OBVIOUS
      <4>3. p = Request("putPrompt", [key |-> k, text |-> prompts.drafts[k], todo |-> todo, done |-> {},
                                      owner |-> "all"], rest)
        BY <2>2, <3>2, <4>1, <4>2 DEF PutNext
      <4>4. IsPut(p, k, prompts.drafts[k], todo, {}, "all", rest)
        BY <4>3, PutIs
      <4>5. /\ p.kind = "putPrompt" /\ p.live /\ p.state = "sent" /\ p.key = k /\ p.text = prompts.drafts[k]
            /\ p.todo = todo /\ p.done = {} /\ p.owner = "all"
        BY <4>4 DEF IsPut, Sent
      <4>6. DOMAIN todo \subseteq Key
        BY <2>1, <4>2 DEF EditedIn, DraftsInv, DraftsOK
      <4>7. todo # << >> => DOMAIN todo # {}
        BY <4>2, NoTodo
      <4>8. \A j \in DOMAIN todo : Now(j, todo[j])'
        BY <2>4, <4>2 DEF Now
      <4>9. Now(p.key, p.text)'
        BY <2>4, <4>5 DEF Now
      <4>10. AllOK(p)'
        BY <4>5, <4>6, <4>7, <4>8, <4>9 DEF AllOK
      <4>11. QED
        BY <4>5, <4>10 DEF IsAll, PartOK, IsOne
    <3>3. QED
      BY <3>1, <3>2
  <2>6. QED
    BY <2>3, <2>4, <2>5, AllComes
<1>4. QED
  BY <1>2, <1>3

LEMMA SaveSettingsDrafts ==
    ASSUME DraftsInv, NEW kind \in {"N", "I"}, NEW patch, NEW over, NEW rest,
           SaveSettings(kind, patch, over, rest), prompts' = prompts, droppable' = droppable
    PROVE  DraftsInv'
<1>1. CASE net' = net
  BY <1>1, InertComes
<1>2. CASE net' # net
  <2>1. PICK args : args = [patch |-> patch, over |-> over]
    OBVIOUS
  <2>2. PICK p : p = Request(kind, args, rest)
    OBVIOUS
  <2>3. net' = net \cup {p}
    BY <1>2, <2>1, <2>2 DEF SaveSettings
  <2>4. DOMAIN args = {"patch", "over"}
    BY <2>1
  <2>5. Common \cap DOMAIN args = {} /\ kind \notin PromptKinds
    BY <2>4 DEF Common, PromptKinds
  <2>6. Inert(p)
    BY <2>2, <2>5, InertSent
  <2>7. QED
    BY <2>3, <2>6, InertComes
<1>3. QED
  BY <1>1, <1>2

LEMMA BarStartDrafts == ASSUME SavingInv, DraftsInv, BarStart PROVE DraftsInv'
<1>1. droppable' = droppable
  BY DEF BarStart, history
<1>2. PICK e, rest : e = Head(next) /\ rest = Tail(next)
  OBVIOUS
<1>3. CASE SaveSettings("N", e.dirtyN, e.dirtyI, rest) /\ prompts' = prompts
  BY <1>1, <1>3, SaveSettingsDrafts
<1>4. CASE SaveSettings("I", e.dirtyI, e.dirtyN, rest) /\ prompts' = prompts
  BY <1>1, <1>4, SaveSettingsDrafts
<1>5. CASE SaveAllPrompts(rest)
  BY <1>1, <1>5, SaveAllDrafts
<1>6. CASE PutRetention(rest) /\ prompts' = prompts
  <2>1. PICK args : args = [retention |-> backups.draft]
    OBVIOUS
  <2>2. PICK p : p = Request("putRetention", args, rest)
    OBVIOUS
  <2>3. DOMAIN args = {"retention"}
    BY <2>1
  <2>4. Common \cap DOMAIN args = {} /\ "putRetention" \notin PromptKinds
    BY <2>3 DEF Common, PromptKinds
  <2>5. Inert(p)
    BY <2>2, <2>4, InertSent
  <2>6. net' = net \cup {p}
    BY <1>6, <2>1, <2>2 DEF PutRetention
  <2>7. QED
    BY <1>1, <1>6, <2>5, <2>6, InertComes
<1>7. QED
  BY <1>2, <1>3, <1>4, <1>5, <1>6 DEF BarStart

-----------------------------------------------------------------------------
(* The server, and the answers of the other handlers.                      *)

\* A served request is meant for what it was meant for.
LEMMA ServedMeant ==
    ASSUME DraftsInv, prompts' = prompts, droppable \subseteq droppable', NEW q \in net, NEW p,
           p.kind = q.kind, p.live = q.live, p.state # "sent",
           q.kind \in PromptKinds => p.owner = q.owner,
           q.kind \in {"putPrompt", "resetPrompt"} => p.key = q.key,
           q.kind = "putPrompt" => p.text = q.text /\ p.todo = q.todo /\ p.done = q.done,
           q.kind = "getPrompts" => "settled" \in DOMAIN p /\ p.settled = q.settled,
           p.state = "ok" /\ q.kind = "putPrompt" => <<q.key, q.text>> \in droppable',
           p.state = "ok" /\ q.kind = "resetPrompt" => Texts({q.key}) \subseteq droppable'
    PROVE  PartOK(p)' /\ (IsOne(p) => IsOne(q) /\ Settling(p) = Settling(q))
<1>1. PartOK(q)
  BY DEF DraftsInv
<1>2. /\ IsOne(p) => IsOne(q) /\ Settling(p) = Settling(q)
      /\ IsAll(p) => IsAll(q)
  BY DEF IsOne, IsAll, Settling, PromptKinds
<1>3. ASSUME NEW k, Kept(k) PROVE Kept(k)'
  BY <1>3 DEF Kept
<1>4. ASSUME NEW k, NEW t, Now(k, t) PROVE Now(k, t)'
  BY <1>4 DEF Now
<1>5. ASSUME IsOne(p) PROVE OneOK(p)'
  <2>1. OneOK(q)
    BY <1>1, <1>2, <1>5 DEF PartOK
  <2>2. PICK k \in Key : Settling(q) = {k} /\ Meant(q, k)
    BY <2>1 DEF OneOK
  <2>3. Meant(p, k)'
    <3>1. CASE Texts({k}) \subseteq droppable'
      BY <3>1, TextsStay DEF Meant, Spent
    <3>2. CASE Spent(k)
      BY <3>2, TextsStay DEF Meant, Spent
    <3>3. CASE ~Spent(k) /\ ~(Texts({k}) \subseteq droppable')
      <4>1. /\ prompts'.busy = k
            /\ q.kind = "putPrompt" => Now(k, q.text)
            /\ q.kind = "getPrompts" => Kept(k)
        BY <2>2, <3>3 DEF Meant
      <4>2. q.kind \in {"putPrompt", "resetPrompt"} => q.key = k
        BY <2>2 DEF Settling
      <4>3. p.kind = "putPrompt" => Now(k, p.text)' /\ (p.state = "ok" => <<k, p.text>> \in droppable')
        BY <1>4, <4>1, <4>2
      <4>4. p.kind = "resetPrompt" => p.state # "ok"
        BY <3>3, <4>2
      <4>5. p.kind = "getPrompts" => Kept(k)'
        BY <1>3, <4>1
      <4>6. QED
        BY <4>1, <4>3, <4>4, <4>5 DEF Meant
    <3>4. QED
      BY <3>1, <3>2, <3>3
  <2>4. Settling(p)' = {k}
    BY <1>2, <1>5, <2>2, SettlingStays
  <2>5. p.kind = "putPrompt" => p.todo = << >> /\ p.done = {}
    BY <2>1 DEF OneOK
  <2>6. QED
    BY <2>3, <2>4, <2>5 DEF OneOK
<1>6. ASSUME IsAll(p) PROVE AllOK(p)'
  <2>1. AllOK(q) /\ q.kind \in PromptKinds
    BY <1>1, <1>2, <1>6 DEF PartOK, IsAll, PromptKinds
  <2>2. p.kind = "getPrompts" => \A k \in p.settled : Kept(k)'
    BY <1>3, <2>1 DEF AllOK
  <2>3. p.kind = "putPrompt" =>
           /\ \A k \in p.done : Kept(k)'
           /\ Now(p.key, p.text)' /\ (p.state = "ok" => <<p.key, p.text>> \in droppable')
    BY <1>3, <1>4, <2>1 DEF AllOK
  <2>4. p.kind = "putPrompt" =>
           /\ DOMAIN p.todo \subseteq Key /\ (p.todo # << >> => DOMAIN p.todo # {})
           /\ \A k \in DOMAIN p.todo : Now(k, p.todo[k])'
    BY <1>4, <2>1 DEF AllOK
  <2>5. QED
    BY <2>2, <2>3, <2>4 DEF AllOK
<1>7. p.live /\ p.kind = "getPrompts" =>
        "settled" \in DOMAIN p /\ (p.owner \notin {"one", "all"} => p.settled = {})
  BY <1>1 DEF PartOK, PromptKinds
<1>8. QED
  BY <1>2, <1>5, <1>6, <1>7 DEF PartOK, IsOne, IsAll

LEMMA ServedDrafts ==
    ASSUME SavingInv, DraftsInv, prompts' = prompts, droppable \subseteq droppable', NEW q \in net, NEW s, s # "sent",
           NEW result, DOMAIN result \subseteq {"settings", "prompts", "backups"}, Served(q, s, result),
           q.live /\ s = "ok" /\ q.kind = "putPrompt" => <<q.key, q.text>> \in droppable',
           q.live /\ s = "ok" /\ q.kind = "resetPrompt" => Texts({q.key}) \subseteq droppable'
    PROVE  DraftsInv'
<1>1. DraftsOK' /\ OthersStay(q)
  BY DraftsSame DEF DraftsInv, OthersStay
<1>2. PICK N : N = {}
  OBVIOUS
<1>3. \A n \in N : Inert(n)
  BY <1>2
<1>4. CASE ~q.live
  <2>1. net' \subseteq (net \ {q}) \cup N
    BY <1>4 DEF Served
  <2>2. QED
    BY <1>1, <1>3, <2>1, DraftsCalm
<1>5. CASE q.live
  <2>1. Shape(q) /\ PartOK(q)
    BY DEF SavingInv, DraftsInv
  <2>2. PICK p : /\ net' = (net \ {q}) \cup {p}
                 /\ DOMAIN q \subseteq DOMAIN p /\ p.state = s
                 /\ \A x \in DOMAIN q \ ({"state"} \cup DOMAIN result) : p[x] = q[x]
    BY <1>5, <2>1, ServedIs DEF Shape
  <2>3. \A x \in DOMAIN q : x \notin {"state", "settings", "prompts", "backups"} => p[x] = q[x]
    BY <2>2
  <2>4. p.kind = q.kind /\ p.live = q.live
    BY <2>1, <2>3 DEF Shape, Common
  <2>5. /\ q.kind \in PromptKinds => p.owner = q.owner
        /\ q.kind \in {"putPrompt", "resetPrompt"} => p.key = q.key
        /\ q.kind = "putPrompt" => p.text = q.text /\ p.todo = q.todo /\ p.done = q.done
    BY <2>1, <2>3 DEF Shape, PromptKinds
  <2>6. q.kind = "getPrompts" => "settled" \in DOMAIN p /\ p.settled = q.settled
    BY <1>5, <2>1, <2>2, <2>3 DEF PartOK
  <2>7. PartOK(p)' /\ (IsOne(p) => IsOne(q) /\ Settling(p) = Settling(q))
    BY <1>5, <2>2, <2>4, <2>5, <2>6, ServedMeant
  <2>8. Apart(p, q)
    <3>1. ASSUME NEW r \in net \ {q}, IsOne(p), IsOne(r), NEW k \in Settling(p) \cap Settling(r)
          PROVE  Texts({k}) \subseteq droppable'
      <4>1. Spent(k)
        BY <2>7, <3>1 DEF DraftsInv
      <4>2. QED
        BY <4>1 DEF Spent
    <3>2. QED
      BY <3>1 DEF Apart
  <2>9. net' \subseteq ((net \ {q}) \cup {p}) \cup N
    BY <2>2
  <2>10. QED
    BY <1>1, <1>3, <2>7, <2>8, <2>9, DraftsGo
<1>6. QED
  BY <1>4, <1>5

LEMMA ServeDrafts == ASSUME SavingInv, DraftsInv, NEW q \in net, Serve(q) PROVE DraftsInv'
<1>1. prompts' = prompts /\ droppable \subseteq droppable'
  BY DEF Serve
<1>2. \E result : DOMAIN result \subseteq {"settings", "prompts", "backups"} /\ Served(q, "ok", result)
  <2>1. PICK settings : settings = [settings |-> Respond(db.settings)]
    OBVIOUS
  <2>2. PICK settings2 : settings2 = [settings |-> Respond(db'.settings)]
    OBVIOUS
  <2>3. PICK list : list = [prompts |-> db.prompts]
    OBVIOUS
  <2>4. PICK dumps : dumps = [backups |-> [retention |-> db.retention, dumps |-> db.dumps]]
    OBVIOUS
  <2>5. PICK none : none = << >>
    OBVIOUS
  <2>6. /\ DOMAIN settings = {"settings"} /\ DOMAIN settings2 = {"settings"} /\ DOMAIN list = {"prompts"}
        /\ DOMAIN dumps = {"backups"} /\ DOMAIN none = {}
    BY <2>1, <2>2, <2>3, <2>4, <2>5
  <2>7. \/ Served(q, "ok", settings) \/ Served(q, "ok", settings2) \/ Served(q, "ok", list)
        \/ Served(q, "ok", dumps) \/ Served(q, "ok", none)
    BY <2>1, <2>2, <2>3, <2>4, <2>5 DEF Serve
  <2>8. QED
    BY <2>6, <2>7
<1>3. /\ q.live /\ q.kind = "putPrompt" => <<q.key, q.text>> \in droppable'
      /\ q.live /\ q.kind = "resetPrompt" => Texts({q.key}) \subseteq droppable'
  BY DEF Serve
<1>4. QED
  BY <1>1, <1>2, <1>3, ServedDrafts

LEMMA FailDrafts ==
    ASSUME SavingInv, DraftsInv, NEW q \in net, NEW s \in {"refused", "lost"}, Fail(q, s) PROVE DraftsInv'
<1>1. prompts' = prompts /\ droppable \subseteq droppable' /\ Served(q, s, << >>) /\ s # "sent" /\ s # "ok"
  BY DEF Fail
<1>2. DOMAIN << >> \subseteq {"settings", "prompts", "backups"}
  OBVIOUS
<1>3. QED
  BY <1>1, <1>2, ServedDrafts

\* What an answer adds to the texts that may be dropped.
Released(q) == droppable' = droppable \cup IF prompts'.busy = prompts.busy THEN {} ELSE Texts({prompts.busy} \ Settling(q))

LEMMA SettingsAsideDrafts ==
    ASSUME DraftsInv, NEW q \in net, Released(q),
           \/ q.kind = "getSettings" /\ AnswerSettings(q)
           \/ q.kind \in {"N", "I"} /\ AnswerSave(q)
           \/ q.kind = "test" /\ AnswerTest(q)
           \/ q.kind = "getBackups" /\ AnswerBackups(q)
           \/ q.kind = "putRetention" /\ AnswerRetention(q)
           \/ q.kind = "deleteDump" /\ AnswerDelete(q)
    PROVE  DraftsInv'
<1>1. prompts' = prompts
  BY DEF AnswerSettings, AnswerSave, AnswerTest, AnswerBackups, AnswerRetention, AnswerDelete
<1>2. droppable' = droppable
  BY <1>1 DEF Released
<1>3. PICK mount, delete : mount = [owner |-> "mount"] /\ delete = [owner |-> "delete"]
  OBVIOUS
<1>4. DOMAIN mount = {"owner"} /\ DOMAIN delete = {"owner"}
  BY <1>3
<1>5. Common \cap DOMAIN mount = {} /\ Common \cap DOMAIN delete = {} /\ "getBackups" \notin PromptKinds
  BY <1>4 DEF Common, PromptKinds
<1>6. \/ net' = net \ {q}
      \/ net' = (net \ {q}) \cup {Load({}, "mount", << >>), Request("getBackups", mount, << >>)}
      \/ net' = (net \ {q}) \cup {Request("getBackups", delete, << >>)}
  BY <1>3 DEF AnswerSettings, AnswerSave, AnswerTest, AnswerBackups, AnswerRetention, AnswerDelete
<1>7. \A p : p = Load({}, "mount", << >>) => Inert(p)
  BY InertLoad
<1>8. \A p : p = Request("getBackups", mount, << >>) \/ p = Request("getBackups", delete, << >>) => Inert(p)
  BY <1>5, InertSent
<1>9. \A n \in net' : n \in net \/ Inert(n)
  BY <1>6, <1>7, <1>8
<1>10. QED
  BY <1>1, <1>2, <1>9, InertComes

-----------------------------------------------------------------------------
(* The answers of the prompts.                                             *)

LEMMA FinishKeeps ==
    ASSUME NEW p, DOMAIN NoSection \subseteq DOMAIN p, NEW owner
    PROVE  /\ Finish(p, owner).drafts = p.drafts
           /\ Finish(p, owner).busy = IF owner = "one" THEN NoKey ELSE p.busy
<1>1. PICK b, a : /\ b = IF owner = "one" THEN NoKey ELSE p.busy
                  /\ a = IF owner = "all" THEN FALSE ELSE p.all
  OBVIOUS
<1>2. Finish(p, owner) = [p EXCEPT !.busy = b, !.all = a]
  BY <1>1, Fields DEF Finish
<1>3. QED
  BY <1>1, <1>2, Fields

\* Nothing follows.
LEMMA LastDrafts ==
    ASSUME DraftsInv, NEW q \in net, net' = net \ {q}, Released(q), DraftsOK', \A k : Firm(k),
           \/ prompts'.busy = prompts.busy
           \/ prompts'.busy = NoKey /\ IsOne(q)
    PROVE  DraftsInv'
<1>1. droppable \subseteq droppable'
  BY DEF Released
<1>2. ASSUME NEW r \in net \ {q}, IsOne(r) PROVE Unmoved(r)
  <2>1. PICK j \in Key : Settling(r) = {j} /\ Meant(r, j)
    BY <1>2 DEF DraftsInv, PartOK, OneOK
  <2>2. CASE Spent(j)
    BY <1>1, <2>1, <2>2 DEF Unmoved, Spent
  <2>3. CASE prompts'.busy = prompts.busy
    BY <2>1, <2>3 DEF Unmoved
  <2>4. CASE ~Spent(j) /\ prompts'.busy # prompts.busy
    <3>1. prompts.busy = j /\ prompts'.busy # prompts.busy /\ IsOne(q)
      BY <2>1, <2>4 DEF Meant
    <3>2. j \notin Settling(q)
      BY <1>2, <2>1, <2>4, <3>1 DEF DraftsInv
    <3>3. {prompts.busy} \ Settling(q) = {j}
      BY <3>1, <3>2
    <3>4. Texts({j}) \subseteq droppable'
      BY <3>1, <3>3 DEF Released
    <3>5. QED
      BY <2>1, <3>4 DEF Unmoved
  <2>5. QED
    BY <2>2, <2>3, <2>4
<1>3. OthersStay(q)
  BY <1>2 DEF OthersStay
<1>4. PICK N : N = {}
  OBVIOUS
<1>5. net' \subseteq (net \ {q}) \cup N /\ \A n \in N : Inert(n)
  BY <1>4
<1>6. QED
  BY <1>1, <1>3, <1>5, DraftsCalm

\* A request follows.
LEMMA FollowDrafts ==
    ASSUME DraftsInv, NEW q \in net, NEW p, net' = (net \ {q}) \cup {p}, Released(q), prompts' = prompts,
           PartOK(p)', IsOne(p) => IsOne(q) /\ Settling(p) = Settling(q)
    PROVE  DraftsInv'
<1>1. droppable' = droppable
  BY DEF Released
<1>2. DraftsOK' /\ OthersStay(q)
  BY DraftsSame DEF DraftsInv, OthersStay
<1>3. Apart(p, q)
  <2>1. ASSUME NEW r \in net \ {q}, IsOne(p), IsOne(r), NEW k \in Settling(p) \cap Settling(r)
        PROVE  Texts({k}) \subseteq droppable'
    <3>1. Spent(k)
      BY <2>1 DEF DraftsInv
    <3>2. QED
      BY <1>1, <3>1 DEF Spent
  <2>2. QED
    BY <2>1 DEF Apart
<1>4. PICK N : N = {}
  OBVIOUS
<1>5. net' \subseteq ((net \ {q}) \cup {p}) \cup N /\ (\A n \in N : Inert(n)) /\ droppable \subseteq droppable'
  BY <1>1, <1>4
<1>6. QED
  BY <1>2, <1>3, <1>5, DraftsGo

\* The first prompt of a list is one of the list.
LEMMA FirstIs == ASSUME NEW K, K \subseteq Key, K # {} PROVE First(K) \in K
<1>1. \E k \in K : \A j \in K : k <= j
  <2>1. K \subseteq Nat
    BY SettingsAssumption DEF Key
  <2>2. PICK R : R = OpToRel(<, Nat)
    OBVIOUS
  <2>3. IsWellFoundedOn(R, Nat)
    BY <2>2, NatLessThanWellFounded
  <2>4. PICK x \in K : \A y \in K : ~(<<y, x>> \in R)
    BY <2>1, <2>3, WFMin
  <2>5. ASSUME NEW j \in K PROVE x <= j
    <3>1. j \in Nat /\ x \in Nat /\ ~(j < x)
      BY <2>1, <2>2, <2>4 DEF OpToRel
    <3>2. QED
      BY <3>1
  <2>6. QED
    BY <2>5
<1>2. QED
  BY <1>1 DEF First

\* The load after a save that was answered.
LEMMA ReloadDrafts ==
    ASSUME SavingInv, DraftsInv, NEW q \in net, q.live, q.kind = "putPrompt", NEW K, K # {},
           K = IF q.state = "ok" THEN q.done \cup {q.key} ELSE IF q.state = "refused" THEN q.done ELSE {},
           net' = (net \ {q}) \cup {Load(K, q.owner, q.rest)}, prompts' = prompts, Released(q)
    PROVE  DraftsInv'
<1>1. droppable' = droppable
  BY DEF Released
<1>2. PICK p : p = Load(K, q.owner, q.rest)
  OBVIOUS
<1>3. IsLoad(p, K, q.owner, q.rest)
  BY <1>2, LoadIs
<1>4. p.kind = "getPrompts" /\ p.live /\ p.owner = q.owner /\ p.settled = K /\ "settled" \in DOMAIN p
  BY <1>3 DEF IsLoad, Sent
<1>5. PartOK(q) /\ q.owner \in {"one", "all"}
  BY DEF DraftsInv, SavingInv, Shape
<1>6. ASSUME NEW k, Kept(k) PROVE Kept(k)'
  BY <1>1, <1>6 DEF Kept
<1>7. CASE q.owner = "one"
  <2>1. IsOne(q) /\ OneOK(q)
    BY <1>5, <1>7 DEF IsOne, PromptKinds, PartOK
  <2>2. PICK k \in Key : Settling(q) = {k} /\ Meant(q, k)
    BY <2>1 DEF OneOK
  <2>3. q.key = k /\ q.done = {}
    BY <2>1, <2>2 DEF Settling, OneOK
  <2>4. q.state = "ok" /\ K = {k}
    BY <2>3
  <2>5. Spent(k) \/ (prompts.busy = k /\ Kept(k))
    BY <2>2, <2>3, <2>4 DEF Meant, Now, Kept
  <2>6. Meant(p, k)'
    <3>1. CASE Spent(k)
      BY <1>1, <3>1, TextsStay DEF Meant, Spent
    <3>2. CASE prompts.busy = k /\ Kept(k)
      BY <1>4, <1>6, <3>2 DEF Meant
    <3>3. QED
      BY <2>5, <3>1, <3>2
  <2>7. IsOne(p) /\ ~IsAll(p) /\ Settling(p) = {k}
    BY <1>4, <1>7, <2>4 DEF IsOne, IsAll, PromptKinds, Settling
  <2>8. PartOK(p)'
    BY <1>4, <1>7, <2>6, <2>7, SettlingStays DEF PartOK, OneOK
  <2>9. QED
    BY <1>2, <2>1, <2>2, <2>7, <2>8, FollowDrafts
<1>8. CASE q.owner = "all"
  <2>1. AllOK(q)
    BY <1>5, <1>8 DEF IsAll, PartOK
  <2>2. ASSUME NEW k \in K PROVE Kept(k)
    <3>1. \A j \in q.done : Kept(j)
      BY <2>1 DEF AllOK
    <3>2. q.state = "ok" => Kept(q.key)
      BY <2>1 DEF AllOK, Now, Kept
    <3>3. QED
      BY <2>2, <3>1, <3>2
  <2>3. AllOK(p)'
    BY <1>4, <1>6, <2>2 DEF AllOK
  <2>4. ~IsOne(p)
    BY <1>4, <1>8 DEF IsOne
  <2>5. PartOK(p)'
    BY <1>4, <1>8, <2>3, <2>4 DEF PartOK
  <2>6. QED
    BY <1>2, <2>4, <2>5, FollowDrafts
<1>9. QED
  BY <1>5, <1>7, <1>8

\* The next save of saveAll.
LEMMA NextPutDrafts ==
    ASSUME SavingInv, DraftsInv, NEW q \in net, q.live, q.kind = "putPrompt", q.owner = "all", q.state = "ok",
           q.todo # << >>, net' = (net \ {q}) \cup {NextPut(q, q.done \cup {q.key})},
           prompts' = prompts, Released(q)
    PROVE  DraftsInv'
<1>1. droppable' = droppable
  BY DEF Released
<1>2. Shape(q) /\ AllOK(q)
  <2>1. PartOK(q)
    BY DEF DraftsInv
  <2>2. QED
    BY <2>1 DEF SavingInv, PartOK, IsAll
<1>3. PICK k : k = First(DOMAIN q.todo)
  OBVIOUS
<1>4. k \in DOMAIN q.todo /\ DOMAIN q.todo \subseteq Key
  BY <1>2, <1>3, FirstIs DEF AllOK
<1>5. PICK text, todo, done : /\ text = q.todo[k] /\ todo = [j \in DOMAIN q.todo \ {k} |-> q.todo[j]]
                              /\ done = q.done \cup {q.key}
  OBVIOUS
<1>6. PICK p : p = NextPut(q, done)
  OBVIOUS
<1>7. p = [q EXCEPT !.key = k, !.text = text, !.done = done, !.state = "sent", !.todo = todo]
  BY <1>3, <1>5, <1>6 DEF NextPut
<1>8. /\ p.kind = "putPrompt" /\ p.live /\ p.owner = "all" /\ p.state = "sent"
      /\ p.key = k /\ p.text = text /\ p.done = done /\ p.todo = todo
  BY <1>2, <1>7 DEF Shape, Common
<1>9. ASSUME NEW j, Kept(j) PROVE Kept(j)'
  BY <1>1, <1>9 DEF Kept
<1>10. ASSUME NEW j, NEW t, Now(j, t) PROVE Now(j, t)'
  BY <1>10 DEF Now
<1>11. ASSUME NEW j \in done PROVE Kept(j)
  <2>1. \A i \in q.done : Kept(i)
    BY <1>2 DEF AllOK
  <2>2. Kept(q.key)
    BY <1>2 DEF AllOK, Now, Kept
  <2>3. QED
    BY <1>5, <1>11, <2>1, <2>2
<1>12. \A j \in DOMAIN q.todo : Now(j, q.todo[j])
  BY <1>2 DEF AllOK
<1>13. /\ DOMAIN todo = DOMAIN q.todo \ {k} /\ \A j \in DOMAIN todo : todo[j] = q.todo[j]
       /\ todo # << >> => DOMAIN todo # {}
  <2>1. DOMAIN todo = DOMAIN q.todo \ {k} /\ \A j \in DOMAIN todo : todo[j] = q.todo[j]
    BY <1>5
  <2>2. DOMAIN todo = {} => todo = << >>
    BY <1>5
  <2>3. QED
    BY <2>1, <2>2
<1>14. AllOK(p)'
  <2>1. \A j \in done : Kept(j)'
    BY <1>9, <1>11
  <2>2. Now(k, text)'
    BY <1>4, <1>5, <1>10, <1>12
  <2>3. \A j \in DOMAIN todo : Now(j, todo[j])'
    BY <1>10, <1>12, <1>13
  <2>4. DOMAIN todo \subseteq Key
    BY <1>4, <1>13
  <2>5. QED
    BY <1>8, <1>13, <2>1, <2>2, <2>3, <2>4 DEF AllOK
<1>15. ~IsOne(p) /\ PartOK(p)'
  BY <1>8, <1>14 DEF IsOne, PartOK
<1>16. QED
  BY <1>5, <1>6, <1>15, FollowDrafts

\* The end of it.
LEMMA EndDrafts ==
    ASSUME SavingInv, DraftsInv, NEW q \in net, q.live, q.kind \in {"putPrompt", "resetPrompt"},
           net' = net \ {q}, prompts' = Finish(prompts, q.owner), Released(q)
    PROVE  DraftsInv'
<1>1. DOMAIN NoSection \subseteq DOMAIN prompts
  BY DEF SavingInv, PromptFields
<1>2. prompts'.drafts = prompts.drafts /\ prompts'.busy = IF q.owner = "one" THEN NoKey ELSE prompts.busy
  BY <1>1, FinishKeeps
<1>3. DraftsOK' /\ \A k : Firm(k)
  BY <1>2, DraftsSame DEF DraftsInv
<1>4. q.owner = "one" => IsOne(q)
  BY DEF IsOne, PromptKinds
<1>5. QED
  BY <1>2, <1>3, <1>4, LastDrafts

LEMMA AnswerPutDrafts ==
    ASSUME SavingInv, DraftsInv, NEW q \in net, q.live, q.kind = "putPrompt", AnswerPut(q), Released(q)
    PROVE  DraftsInv'
<1>1. PICK K : K = IF q.state = "ok" THEN q.done \cup {q.key} ELSE IF q.state = "refused" THEN q.done ELSE {}
  OBVIOUS
<1>2. \/ /\ q.state = "ok" /\ q.owner = "all" /\ q.todo # << >>
         /\ net' = (net \ {q}) \cup {NextPut(q, q.done \cup {q.key})} /\ prompts' = prompts
      \/ K # {} /\ net' = (net \ {q}) \cup {Load(K, q.owner, q.rest)} /\ prompts' = prompts
      \/ net' = net \ {q} /\ prompts' = Finish(prompts, q.owner)
  BY <1>1 DEF AnswerPut
<1>3. QED
  BY <1>1, <1>2, NextPutDrafts, ReloadDrafts, EndDrafts

LEMMA AnswerResetDrafts ==
    ASSUME SavingInv, DraftsInv, NEW q \in net, q.live, q.kind = "resetPrompt", AnswerReset(q), Released(q)
    PROVE  DraftsInv'
<1>1. q.owner = "one" /\ PartOK(q)
  BY DEF SavingInv, Shape, DraftsInv
<1>2. CASE q.state # "ok"
  BY <1>1, <1>2, EndDrafts DEF AnswerReset
<1>3. CASE q.state = "ok"
  <2>1. IsOne(q) /\ OneOK(q)
    BY <1>1 DEF IsOne, PromptKinds, PartOK
  <2>2. PICK k \in Key : Settling(q) = {k} /\ Meant(q, k)
    BY <2>1 DEF OneOK
  <2>3. q.key = k /\ Spent(k)
    BY <1>3, <2>2 DEF Settling, Meant
  <2>4. PICK p : p = Load({q.key}, "one", << >>)
    OBVIOUS
  <2>5. IsLoad(p, {q.key}, "one", << >>)
    BY <2>4, LoadIs
  <2>6. p.kind = "getPrompts" /\ p.live /\ p.owner = "one" /\ p.settled = {k} /\ "settled" \in DOMAIN p
    BY <2>3, <2>5 DEF IsLoad, Sent
  <2>7. net' = (net \ {q}) \cup {p} /\ prompts' = prompts
    BY <1>3, <2>4 DEF AnswerReset
  <2>8. Spent(k)'
    BY <2>3, TextsStay DEF Spent, Released
  <2>9. IsOne(p) /\ ~IsAll(p) /\ Settling(p) = {k}
    BY <2>6 DEF IsOne, IsAll, PromptKinds, Settling
  <2>10. PartOK(p)'
    BY <2>6, <2>8, <2>9, SettlingStays DEF PartOK, OneOK, Meant
  <2>11. QED
    BY <2>1, <2>2, <2>7, <2>9, <2>10, FollowDrafts
<1>4. QED
  BY <1>2, <1>3

\* A load drops what it settles.
LEMMA LoadIsOf ==
    ASSUME SavingInv, NEW q, AnswerLoad(q)
    PROVE  /\ net' = net \ {q}
           /\ prompts'.busy = IF q.owner = "one" THEN NoKey ELSE prompts.busy
           /\ \/ prompts'.drafts = prompts.drafts
              \/ q.state = "ok" /\ prompts'.drafts = [k \in DOMAIN prompts.drafts \ q.settled |-> prompts.drafts[k]]
<1>1. DOMAIN NoSection \subseteq DOMAIN prompts
  BY DEF SavingInv, PromptFields
<1>2. PICK d : d = [k \in DOMAIN prompts.drafts \ q.settled |-> prompts.drafts[k]]
  OBVIOUS
<1>3. PICK loaded : /\ prompts' = Finish(loaded, q.owner)
                    /\ \/ loaded = prompts
                       \/ q.state = "ok" /\ loaded = [prompts EXCEPT !.list = q.prompts, !.drafts = d]
  BY <1>2 DEF AnswerLoad
<1>4. /\ DOMAIN NoSection \subseteq DOMAIN loaded /\ loaded.busy = prompts.busy
      /\ loaded.drafts = prompts.drafts \/ (q.state = "ok" /\ loaded.drafts = d)
  BY <1>1, <1>3, Fields
<1>5. prompts'.drafts = loaded.drafts /\ prompts'.busy = IF q.owner = "one" THEN NoKey ELSE loaded.busy
  BY <1>3, <1>4, FinishKeeps
<1>6. net' = net \ {q}
  BY DEF AnswerLoad
<1>7. QED
  BY <1>2, <1>4, <1>5, <1>6

LEMMA AnswerLoadDrafts ==
    ASSUME SavingInv, DraftsInv, NEW q \in net, q.live, q.kind = "getPrompts", AnswerLoad(q), Released(q)
    PROVE  DraftsInv'
<1>1. /\ net' = net \ {q}
      /\ prompts'.busy = IF q.owner = "one" THEN NoKey ELSE prompts.busy
      /\ \/ prompts'.drafts = prompts.drafts
         \/ prompts'.drafts = [k \in DOMAIN prompts.drafts \ q.settled |-> prompts.drafts[k]]
  BY LoadIsOf
<1>2. (\A k : Firm(k)) /\ DraftsOK'
  BY <1>1 DEF Firm, DraftsInv, DraftsOK
<1>3. q.owner = "one" => IsOne(q)
  BY DEF IsOne, PromptKinds
<1>4. QED
  BY <1>1, <1>2, <1>3, LastDrafts

-----------------------------------------------------------------------------
(* Every step.                                                             *)

LEMMA DraftsStep ==
    ASSUME SavingInv, TurnsInv, TurnsInv', DraftsInv, [Next]_vars PROVE DraftsInv'
<1>1. CASE UNCHANGED vars
  BY <1>1, InertComes DEF vars
<1>2. CASE BarStart
  BY <1>2, BarStartDrafts
<1>3. CASE User
  <2>1. CASE \E how \in {"link", "back"}, yes \in BOOLEAN : Leave(how, yes)
    BY <2>1, LeaveDrafts
  <2>2. QED
    BY <1>3, <2>1, AsideDrafts, EditPromptsDrafts, BarDiscardDrafts DEF User
<1>4. ASSUME NEW q \in net, Answer(q) PROVE DraftsInv'
  <2>1. q.live /\ Released(q)
    BY <1>4 DEF Answer, TurnsInv, Released
  <2>2. QED
    BY <1>4, <2>1, SettingsAsideDrafts, AnswerPutDrafts, AnswerResetDrafts, AnswerLoadDrafts DEF Answer
<1>5. CASE Network
  BY <1>4, <1>5, ServeDrafts, FailDrafts DEF Network
<1>6. QED
  BY <1>1, <1>2, <1>3, <1>5 DEF Next

LEMMA DraftsStart == Init => DraftsInv
<1>1. SUFFICES ASSUME Init PROVE DraftsInv
  OBVIOUS
<1>2. prompts.drafts = << >> /\ net = {}
  BY <1>1 DEF Init, NoSection, NoDraft
<1>3. QED
  BY <1>2 DEF DraftsInv, DraftsOK

\* What a load drops was stored.
LEMMA LoadDrops ==
    ASSUME SavingInv, DraftsInv, NEW q \in net, q.live, q.kind = "getPrompts", AnswerLoad(q),
           NEW k \in DOMAIN prompts.drafts \ DOMAIN prompts'.drafts
    PROVE  <<k, prompts.drafts[k]>> \in droppable
<1>1. k \in q.settled
  <2>1. \/ prompts'.drafts = prompts.drafts
        \/ prompts'.drafts = [j \in DOMAIN prompts.drafts \ q.settled |-> prompts.drafts[j]]
    BY LoadIsOf
  <2>2. QED
    BY <2>1
<1>2. Spent(k) => <<k, prompts.drafts[k]>> \in droppable
  <2>1. k \in Key /\ prompts.drafts[k] \in Atom \cup {Blank}
    BY DEF DraftsInv, DraftsOK
  <2>2. <<k, prompts.drafts[k]>> \in Texts({k})
    BY <2>1 DEF Texts
  <2>3. QED
    BY <2>2 DEF Spent
<1>3. Kept(k) => <<k, prompts.drafts[k]>> \in droppable
  BY DEF Kept
<1>4. PartOK(q)
  BY DEF DraftsInv
<1>5. CASE q.owner = "one"
  <2>1. OneOK(q)
    BY <1>4, <1>5 DEF PartOK, IsOne, PromptKinds
  <2>2. Meant(q, k)
    BY <1>1, <2>1 DEF OneOK, Settling
  <2>3. QED
    BY <1>2, <1>3, <2>2 DEF Meant
<1>6. CASE q.owner = "all"
  BY <1>1, <1>3, <1>4, <1>6 DEF PartOK, IsAll, AllOK
<1>7. CASE q.owner \notin {"one", "all"}
  BY <1>1, <1>4, <1>7 DEF PartOK
<1>8. QED
  BY <1>5, <1>6, <1>7

\* Nothing else drops a draft, but Discard and leaving.
Undropped == DOMAIN prompts.drafts \subseteq DOMAIN prompts'.drafts

LEMMA EditDrops == ASSUME SavingInv, EditPrompts PROVE Undropped
<1>1. DOMAIN NoSection \subseteq DOMAIN prompts
  BY DEF SavingInv, PromptFields
<1>2. ASSUME NEW k, NEW t, TypePrompt(k, t) PROVE Undropped
  <2>1. PICK one : one = [x \in {k} |-> t]
    OBVIOUS
  <2>2. PICK d : d = Over(one, prompts.drafts)
    OBVIOUS
  <2>3. prompts' = [prompts EXCEPT !.drafts = d] /\ DOMAIN prompts.drafts \subseteq DOMAIN d
    BY <1>2, <2>1, <2>2 DEF TypePrompt, Over
  <2>4. QED
    BY <1>1, <2>3, Fields DEF Undropped
<1>3. ASSUME NEW k, SavePrompt(k) \/ ResetPrompt(k) PROVE Undropped
  <2>1. prompts' = [prompts EXCEPT !.busy = k]
    BY <1>3 DEF SavePrompt, ResetPrompt
  <2>2. QED
    BY <1>1, <2>1, Fields DEF Undropped
<1>4. QED
  BY <1>2, <1>3 DEF EditPrompts

LEMMA BarStartDrops == ASSUME SavingInv, BarStart PROVE Undropped
<1>1. DOMAIN NoSection \subseteq DOMAIN prompts
  BY DEF SavingInv, PromptFields
<1>2. prompts' = prompts \/ prompts' = [prompts EXCEPT !.all = TRUE]
  BY DEF BarStart, SaveAllPrompts
<1>3. QED
  BY <1>1, <1>2, Fields DEF Undropped

LEMMA AnswerDrops == ASSUME SavingInv, NEW q \in net, Answer(q), q.kind # "getPrompts" PROVE Undropped
<1>1. DOMAIN NoSection \subseteq DOMAIN prompts
  BY DEF SavingInv, PromptFields
<1>2. prompts' = prompts \/ \E owner : prompts' = Finish(prompts, owner)
  BY DEF Answer, AnswerSettings, AnswerSave, AnswerTest, AnswerPut, AnswerReset, AnswerBackups, AnswerRetention,
         AnswerDelete
<1>3. QED
  BY <1>1, <1>2, FinishKeeps DEF Undropped

LEMMA KeepsDrafts ==
    ASSUME SavingInv, TurnsInv, DraftsInv, [Next]_vars
    PROVE  [\A k \in DOMAIN prompts.drafts \ DOMAIN prompts'.drafts :
                <<k, prompts.drafts[k]>> \in droppable \/ BarDiscard \/ form'.state = "left"]_vars
<1>1. CASE UNCHANGED vars
  BY <1>1
<1>2. CASE Undropped
  BY <1>2 DEF Undropped
<1>3. CASE BarDiscard
  BY <1>3
<1>4. ASSUME NEW how, NEW yes, Leave(how, yes) PROVE form'.state = "left"
  BY <1>4 DEF Leave, NoForm
<1>5. CASE Open \/ EditSettings \/ EditBackups \/ BarSave \/ RetryLoad
  <2>1. prompts' = prompts
    BY <1>5 DEF Open, EditSettings, TypeText, EditInPlace, AddEmail, RemoveEmail, PickModel, HandleChange, SendTest, EditBackups,
       TypeRetention, SaveRetention, CancelDelete, ConfirmDelete, RequestDelete, BarSave, RetryLoad
  <2>2. QED
    BY <1>2, <2>1 DEF Undropped
<1>6. ASSUME NEW q \in net, Serve(q) \/ \E s \in {"refused", "lost"} : Fail(q, s) PROVE Undropped
  BY <1>6 DEF Serve, Fail, Undropped
<1>7. ASSUME NEW q \in net, Answer(q), q.kind = "getPrompts", NEW k \in DOMAIN prompts.drafts \ DOMAIN prompts'.drafts
      PROVE  <<k, prompts.drafts[k]>> \in droppable
  <2>1. q.live /\ AnswerLoad(q)
    BY <1>7 DEF Answer, TurnsInv
  <2>2. QED
    BY <1>7, <2>1, LoadDrops
<1>8. CASE User
  BY <1>2, <1>3, <1>4, <1>5, <1>8, EditDrops DEF User
<1>9. CASE Network
  <2>1. PICK q \in net : Serve(q) \/ Answer(q) \/ \E s \in {"refused", "lost"} : Fail(q, s)
    BY <1>9 DEF Network
  <2>2. CASE Answer(q)
    BY <1>2, <1>7, <2>2, AnswerDrops
  <2>3. CASE Serve(q) \/ \E s \in {"refused", "lost"} : Fail(q, s)
    BY <1>2, <1>6, <2>3
  <2>4. QED
    BY <2>1, <2>2, <2>3
<1>10. QED
  BY <1>1, <1>2, <1>8, <1>9, BarStartDrops DEF Next

\* A draft of a prompt is dropped only when that text was stored, or by the prompt's reset, by
\* Discard or by leaving; never because another prompt was saved.
THEOREM DraftsStayed == Spec => DraftsKept
<1>1. SavingInv /\ TurnsInv /\ TurnsInv' /\ DraftsInv /\ [Next]_vars => DraftsInv'
  BY DraftsStep
<1>2. SavingInv /\ TurnsInv /\ DraftsInv /\ [Next]_vars =>
        [\A k \in DOMAIN prompts.drafts \ DOMAIN prompts'.drafts :
            <<k, prompts.drafts[k]>> \in droppable \/ BarDiscard \/ form'.state = "left"]_vars
  BY KeepsDrafts
<1>3. QED
  BY TurnsTaken, DraftsStart, <1>1, <1>2, PTL DEF Spec, DraftsKept
=============================================================================
