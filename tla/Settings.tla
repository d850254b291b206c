------------------------------ MODULE Settings ------------------------------
(***************************************************************************)
(* The Settings page: the settings form with its Notifications and         *)
(* Inference tabs, the prompts, the backups, and the bar that saves or     *)
(* discards what is unsaved in all of them.                                *)
(*                                                                         *)
(* A request is sent, served and answered in three steps.  What the        *)
(* asynchronous function that sent it still has to do is part of it: a     *)
(* handler works with what it captured when it was called, not with what   *)
(* the form has become.  What the bar has left to save is carried along    *)
(* the same way, and started before the browser does anything else.        *)
(***************************************************************************)
EXTENDS Integers, Sequences

CONSTANTS
    TextFields, ListFields,   \* settings of the Notifications tab
    ModelFields,              \* settings of the Inference tab
    Sensitive,                \* fields the server never shows in full
    Atom,                     \* what can be typed into a field or a prompt
    Keys,                     \* prompts 1 .. Keys
    Retentions,               \* retentions that can be typed: <<daily, weekly, monthly>>
    Dumps,                    \* the backups there are
    MaxEdits,                 \* bound on edits and dialogs opened
    MaxRequests,              \* bound on the user's requests
    MaxOpenings               \* bound on how often the page is opened

NotificationFields == TextFields \cup ListFields
Field == NotificationFields \cup ModelFields
Key == 1 .. Keys

ASSUME SettingsAssumption ==
    /\ TextFields \cap ListFields = {} /\ NotificationFields \cap ModelFields = {}
    /\ Sensitive \subseteq TextFields
    /\ Retentions \subseteq [1 .. 3 -> Nat] /\ Retentions # {}
    /\ {Keys, MaxEdits, MaxRequests, MaxOpenings} \subseteq Nat

\* f where it is defined, g elsewhere.
Over(f, g) == [x \in DOMAIN f \cup DOMAIN g |-> IF x \in DOMAIN f THEN f[x] ELSE g[x]]

\* The value of a setting is a set: the addresses of a list, the parts of a text otherwise.
Empty == {}
FromEnv == {"env"}         \* the default of the environment
Masked == {"***"}
NoDraft == << >>
Default == "default"       \* a prompt without an override
Blank == "blank"
NoPrompts == << >>
NoKey == 0
NoDump == "none"

VARIABLES
    db,         \* what the server has stored
    form,       \* NotificationSettings: the form, what the server confirmed, what is dirty
    prompts,    \* PromptsSection
    backups,    \* BackupsSection and its RetentionEditor
    net,        \* requests under way
    next,       \* what the bar has still to save, when it is its turn
    edits, sent, opened,
    entered,    \* history: what edits left in the settings, as <<field, value>>
    submitted,  \* history: settings that were unsaved when Save was pressed
    droppable,  \* history: the drafts that may be dropped, as <<prompt, text>>
    astray      \* history: requests overlapped or answers were lost

vars == <<db, form, prompts, backups, net, next, edits, sent, opened, entered, submitted,
          droppable, astray>>
counts == <<edits, sent, opened>>
history == <<entered, submitted, droppable, astray>>

-----------------------------------------------------------------------------
\* The server.

\* get_notification_settings and mask_sensitive: an emptied field falls back to the
\* environment; secrets come back masked.
Respond(s) ==
    [f \in Field |-> IF f \in Sensitive THEN Masked
                     ELSE IF s[f] = Empty THEN FromEnv ELSE s[f]]

\* save_notification_settings: a partial update, merged into what is stored.
Merge(s, patch) == Over(patch, s)

\* The rule of backup_settings._validate, which RetentionEditor mirrors.
Invalid(r) == r[1] = 0 /\ (r[2] > 0 \/ r[3] > 0)

-----------------------------------------------------------------------------
\* Requests.

FreeId ==
    CHOOSE i \in 0 .. 20 :
        /\ \A q \in net : q.id # i
        /\ \A j \in 0 .. i - 1 : \E q \in net : q.id = j

\* A request with the arguments args, and rest for the bar to save after it.
Request(kind, args, rest) ==
    Over(args, [id |-> FreeId, kind |-> kind, rest |-> rest, state |-> "sent", live |-> TRUE])

Under(kinds) == {q \in net : q.live /\ q.kind \in kinds}
Idle == next = << >>

\* The user's requests are counted.
Ask == sent < MaxRequests /\ sent' = sent + 1
Touch == edits < MaxEdits /\ edits' = edits + 1

-----------------------------------------------------------------------------
\* Opening and leaving the page.

NoForm == [state |-> "loading", shown |-> << >>, saved |-> << >>,
           dirtyN |-> << >>, dirtyI |-> << >>, saving |-> {}, testing |-> FALSE]
NoSection == [list |-> NoPrompts, drafts |-> NoDraft, busy |-> NoKey, all |-> FALSE]
NoBackups == [state |-> "loading", retention |-> << >>, dumps |-> {}, draft |-> << >>,
              saving |-> FALSE, pending |-> NoDump, deleting |-> FALSE]

\* Every handler of the page that was left is gone; what it sent is still served.
Orphaned == {[q EXCEPT !.live = FALSE] : q \in {p \in net : p.state = "sent"}}

Open ==
    /\ form.state = "left"
    /\ opened < MaxOpenings
    /\ opened' = opened + 1
    /\ form' = NoForm
    /\ net' = net \cup {Request("getSettings", << >>, << >>)}
    /\ UNCHANGED <<db, prompts, backups, next, edits, sent, history>>

\* What the bar lists: the drafts of the sections are reported by useUnsavedChanges.
EditedIn(p) == {k \in DOMAIN p.drafts : p.list # NoPrompts /\ p.drafts[k] # p.list[k]}
RetentionDirty == backups.state = "ready" /\ backups.draft # backups.retention
Listed ==
    (IF form.dirtyN # << >> THEN <<"N">> ELSE << >>)
    \o (IF form.dirtyI # << >> THEN <<"I">> ELSE << >>)
    \o (IF EditedIn(prompts) # {} THEN <<"P">> ELSE << >>)
    \o (IF RetentionDirty THEN <<"B">> ELSE << >>)
AnyUnsaved == Listed # << >>

\* useLeaveWarning and confirmLeave: a link, a keyboard shortcut, a reload or closing
\* (one of them here) asks while anything is unsaved.  The back button does not.
LeavingAsks(how) == how # "back" /\ AnyUnsaved

Leave(how, confirmed) ==
    /\ form.state # "left"
    /\ LeavingAsks(how) => confirmed
    /\ form' = [NoForm EXCEPT !.state = "left"]
    /\ prompts' = NoSection
    /\ backups' = NoBackups
    /\ net' = Orphaned
    /\ droppable' = {}
    /\ astray' = (net' # {})
    /\ UNCHANGED <<db, next, counts, entered, submitted>>

-----------------------------------------------------------------------------
\* The settings form.

Ready == form.state = "ready"

\* Mutant: the whole tab becomes dirty.
ChangeWholeForm(f, v) ==
    /\ Ready
    /\ Touch
    /\ form' = IF f \in ModelFields
               THEN [form EXCEPT !.shown[f] = v, !.dirtyI = Over([x \in {f} |-> v], @)]
               ELSE [form EXCEPT !.shown[f] = v, !.dirtyN = Over([x \in {f} |-> v], form.shown)]
    /\ entered' = entered \cup {<<f, v>>}
    /\ UNCHANGED <<db, prompts, backups, net, next, sent, opened, submitted, droppable, astray>>

\* handleChange.
HandleChange(f, v) ==
    /\ Ready
    /\ Touch
    /\ form' = IF f \in ModelFields
               THEN [form EXCEPT !.shown[f] = v, !.dirtyI = Over([x \in {f} |-> v], @)]
               ELSE [form EXCEPT !.shown[f] = v, !.dirtyN = Over([x \in {f} |-> v], @)]
    /\ entered' = entered \cup {<<f, v>>}
    /\ UNCHANGED <<db, prompts, backups, net, next, sent, opened, submitted, droppable, astray>>

\* A text input of the Telegram, the SMTP or the General card.
TypeText(f, v) == Ready /\ f \in TextFields /\ v # form.shown[f] /\ HandleChange(f, v)

\* The input holds what the form shows, of a secret its mask: an edit in place leaves
\* the rest of it there.
EditInPlace(f, a) ==
    Ready /\ \E v \in {form.shown[f] \cup {a}, form.shown[f] \ {a}} : TypeText(f, v)

\* EmailTagInput: addEmail and removeEmail.
AddEmail(f, a) == Ready /\ f \in ListFields /\ a \notin form.shown[f] /\
    HandleChange(f, form.shown[f] \cup {a})
RemoveEmail(f, a) == Ready /\ f \in ListFields /\ a \in form.shown[f] /\
    HandleChange(f, form.shown[f] \ {a})

\* The model picker of a pipeline step whose model is a setting.
PickModel(f, v) == Ready /\ f \in ModelFields /\ v # form.shown[f] /\ HandleChange(f, v)

\* handleTest: only a configured channel can be tested.
SendTest ==
    /\ Ready /\ ~form.testing
    /\ Ask
    /\ form' = [form EXCEPT !.testing = TRUE]
    /\ net' = net \cup {Request("test", << >>, << >>)}
    /\ UNCHANGED <<db, prompts, backups, next, edits, opened, history>>

\* Mutant: the form is sent instead of what was typed.
SaveWholeForm(kind, patch, over, rest) ==
    IF patch = << >> THEN /\ next' = rest
                          /\ UNCHANGED <<form, net>>
    ELSE /\ form' = [form EXCEPT !.saving = @ \cup {kind}]
         /\ net' = net \cup {Request(kind, [patch |-> form.shown, over |-> over], rest)}
         /\ next' = << >>

\* handleSaveNotifications and handleSaveInference send what was dirty when they were
\* called, and remember the other tab's edits of that moment.
SaveSettings(kind, patch, over, rest) ==
    IF patch = << >> THEN /\ next' = rest
                          /\ UNCHANGED <<form, net>>
    ELSE /\ form' = [form EXCEPT !.saving = @ \cup {kind}]
         /\ net' = net \cup {Request(kind, [patch |-> patch, over |-> over], rest)}
         /\ next' = << >>

\* revert and the clearing of the dirty fields.
Revert(fields) == [form EXCEPT !.shown = [f \in Field |-> IF f \in fields THEN form.saved[f] ELSE @[f]]]

-----------------------------------------------------------------------------
\* Prompts.

PromptBusy(k) == prompts.busy = k \/ prompts.all

\* One prompt is busy at a time: a second save or reset unblocks the first one's text, and
\* the end of the first one unblocks the second's, while it is under way.  What is typed
\* then is dropped when that is answered.
Texts(K) == (K \cap Key) \X (Atom \cup {Blank, Default})

TypePrompt(k, t) ==
    /\ prompts.list # NoPrompts /\ ~PromptBusy(k)
    /\ Touch
    /\ prompts' = [prompts EXCEPT !.drafts = Over([x \in {k} |-> t], @)]
    /\ UNCHANGED <<db, form, backups, net, next, sent, opened, history>>

\* save: one prompt's own button.
SavePrompt(k) ==
    /\ k \in EditedIn(prompts) /\ ~PromptBusy(k) /\ prompts.drafts[k] # Blank
    /\ Ask
    /\ droppable' = droppable \cup Texts({prompts.busy})
    /\ prompts' = [prompts EXCEPT !.busy = k]
    /\ net' = net \cup {Request("putPrompt",
                                [key |-> k, text |-> prompts.drafts[k], todo |-> << >>, done |-> {},
                                 owner |-> "one"], << >>)}
    /\ UNCHANGED <<db, form, backups, next, edits, opened, entered, submitted, astray>>

ResetPrompt(k) ==
    /\ prompts.list # NoPrompts /\ ~PromptBusy(k) /\ prompts.list[k] # Default
    /\ Ask
    /\ droppable' = droppable \cup Texts({prompts.busy})
    /\ prompts' = [prompts EXCEPT !.busy = k]
    /\ net' = net \cup {Request("resetPrompt", [key |-> k, owner |-> "one"], << >>)}
    /\ UNCHANGED <<db, form, backups, next, edits, opened, entered, submitted, astray>>

\* saveAll: one PUT after another, in the order of the list.
First(K) == CHOOSE k \in K : \A j \in K : k <= j
PutNext(todo, done, rest) ==
    Request("putPrompt", [key |-> First(todo), text |-> prompts.drafts[First(todo)],
                          todo |-> [k \in todo \ {First(todo)} |-> prompts.drafts[k]],
                          done |-> done, owner |-> "all"], rest)
Load(settled, owner, rest) ==
    Request("getPrompts", [settled |-> settled, owner |-> owner], rest)

SaveAllPrompts(rest) ==
    LET edited == EditedIn(prompts)
    IN  IF \E k \in edited : prompts.drafts[k] = Blank
        THEN /\ next' = rest
             /\ UNCHANGED <<prompts, net>>
        ELSE /\ prompts' = [prompts EXCEPT !.all = TRUE]
             /\ net' = net \cup {IF edited = {} THEN Load({}, "all", rest)
                                 ELSE PutNext(edited, {}, rest)}
             /\ next' = << >>

-----------------------------------------------------------------------------
\* Backups.

Mounted == backups.state = "ready"

TypeRetention(r) ==
    /\ Mounted /\ ~backups.saving /\ r # backups.draft
    /\ Touch
    /\ backups' = [backups EXCEPT !.draft = r]
    /\ UNCHANGED <<db, form, prompts, net, next, sent, opened, history>>

\* RetentionEditor.save.
PutRetention(rest) ==
    /\ backups' = [backups EXCEPT !.saving = TRUE]
    /\ net' = net \cup {Request("putRetention", [retention |-> backups.draft], rest)}

SaveRetention ==
    /\ RetentionDirty /\ ~Invalid(backups.draft) /\ ~backups.saving
    /\ Ask
    /\ PutRetention(<< >>)
    /\ UNCHANGED <<db, form, prompts, next, edits, opened, history>>

\* The dialog that asks before a backup is deleted.  The backups are listed only while
\* some retention keeps them coming.
RequestDelete(d) ==
    /\ Mounted /\ d \in backups.dumps /\ backups.pending = NoDump
    /\ \E i \in 1 .. 3 : backups.retention[i] > 0
    /\ Touch
    /\ backups' = [backups EXCEPT !.pending = d]
    /\ UNCHANGED <<db, form, prompts, net, next, sent, opened, history>>

CancelDelete ==
    /\ backups.pending # NoDump /\ ~backups.deleting
    /\ backups' = [backups EXCEPT !.pending = NoDump]
    /\ UNCHANGED <<db, form, prompts, net, next, counts, history>>

ConfirmDelete ==
    /\ backups.pending # NoDump /\ ~backups.deleting
    /\ Ask
    /\ backups' = [backups EXCEPT !.deleting = TRUE]
    /\ net' = net \cup {Request("deleteDump", [dump |-> backups.pending], << >>)}
    /\ UNCHANGED <<db, form, prompts, next, edits, opened, history>>

-----------------------------------------------------------------------------
\* The bar.

SavingOf(e) ==
    CASE e = "N" -> "N" \in form.saving
      [] e = "I" -> "I" \in form.saving
      [] e = "P" -> prompts.all \/ prompts.busy # NoKey
      [] e = "B" -> backups.saving
BarSaving == \E i \in DOMAIN Listed : SavingOf(Listed[i])
BarBlocked == RetentionDirty /\ Invalid(backups.draft)

\* saveAll goes through the entries of the render in which it was pressed.  Those of the
\* settings form are closures of that render; the sections are reached through a ref and
\* save what they hold when their turn comes.
BarSave ==
    /\ AnyUnsaved /\ ~BarSaving /\ ~BarBlocked
    /\ Ask
    /\ next' = [i \in DOMAIN Listed |->
                    [id |-> Listed[i], dirtyN |-> form.dirtyN, dirtyI |-> form.dirtyI]]
    /\ submitted' = submitted \cup {<<f, form.dirtyN[f]>> : f \in DOMAIN form.dirtyN}
                              \cup {<<f, form.dirtyI[f]>> : f \in DOMAIN form.dirtyI}
    /\ UNCHANGED <<db, form, prompts, backups, net, edits, opened, entered, droppable, astray>>

BarDiscard ==
    /\ AnyUnsaved /\ ~BarSaving
    /\ form' = [Revert(DOMAIN form.dirtyN \cup DOMAIN form.dirtyI)
                    EXCEPT !.dirtyN = << >>, !.dirtyI = << >>]
    /\ prompts' = IF EditedIn(prompts) # {} THEN [prompts EXCEPT !.drafts = NoDraft] ELSE prompts
    /\ backups' = IF RetentionDirty THEN [backups EXCEPT !.draft = backups.retention] ELSE backups
    /\ UNCHANGED <<db, net, next, counts, history>>

\* The next entry's turn.
BarStart ==
    /\ ~Idle
    /\ LET e == Head(next)
           rest == Tail(next)
       IN  \/ /\ e.id = "N"
              /\ SaveSettings("N", e.dirtyN, e.dirtyI, rest)
              /\ UNCHANGED <<prompts, backups>>
           \/ /\ e.id = "I"
              /\ SaveSettings("I", e.dirtyI, e.dirtyN, rest)
              /\ UNCHANGED <<prompts, backups>>
           \/ /\ e.id = "P"
              /\ SaveAllPrompts(rest)
              /\ UNCHANGED <<form, backups>>
           \/ /\ e.id = "B"
              /\ PutRetention(rest)
              /\ next' = << >>
              /\ UNCHANGED <<form, prompts>>
    /\ UNCHANGED <<db, counts, history>>

-----------------------------------------------------------------------------
\* The server's part of a request.

Served(q, s, result) ==
    net' = (net \ {q}) \cup (IF q.live THEN {Over(result, [q EXCEPT !.state = s])} ELSE {})

\* The handler did what it was asked to; the proxy routes pass the answer on.
Serve(q) ==
    /\ q.state = "sent"
    /\ \/ /\ q.kind = "getSettings"
          /\ Served(q, "ok", [settings |-> Respond(db.settings)])
          /\ UNCHANGED <<db, droppable>>
       \/ /\ q.kind \in {"N", "I"}
          /\ db' = [db EXCEPT !.settings = Merge(@, q.patch)]
          /\ Served(q, "ok", [settings |-> Respond(db'.settings)])
          /\ UNCHANGED droppable
       \/ /\ q.kind = "test"
          /\ Served(q, "ok", << >>)
          /\ UNCHANGED <<db, droppable>>
       \/ /\ q.kind = "getPrompts"
          /\ Served(q, "ok", [prompts |-> db.prompts])
          /\ UNCHANGED <<db, droppable>>
       \/ /\ q.kind \in {"putPrompt", "resetPrompt"}
          /\ db' = [db EXCEPT !.prompts[q.key] = IF q.kind = "putPrompt" THEN q.text ELSE Default]
          /\ Served(q, "ok", << >>)
          /\ droppable' = IF ~q.live THEN droppable
                          ELSE droppable \cup IF q.kind = "putPrompt" THEN {<<q.key, q.text>>}
                                              ELSE Texts({q.key})
       \/ /\ q.kind = "getBackups"
          /\ Served(q, "ok", [backups |-> [retention |-> db.retention, dumps |-> db.dumps]])
          /\ UNCHANGED <<db, droppable>>
       \/ /\ q.kind = "putRetention"
          /\ ~Invalid(q.retention)
          /\ db' = [db EXCEPT !.retention = q.retention]
          /\ Served(q, "ok", << >>)
          /\ UNCHANGED droppable
       \/ /\ q.kind = "deleteDump"
          /\ q.dump \in db.dumps
          /\ db' = [db EXCEPT !.dumps = @ \ {q.dump}]
          /\ Served(q, "ok", << >>)
          /\ UNCHANGED droppable
    /\ astray' = (astray \/ ~q.live \/ \E p \in net \ {q} : p.state = "ok" /\ db' # db)
    /\ UNCHANGED <<form, prompts, backups, next, counts, entered, submitted>>

\* An error answer, or none at all; the outcome of a request that was served can be
\* lost, too.
Fail(q, s) ==
    /\ s \in {"refused", "lost"}
    /\ q.state = "sent" \/ (q.state = "ok" /\ s = "lost")
    /\ Served(q, s, << >>)
    /\ astray' = (astray \/ q.state = "ok"
                   \/ (q.live /\ q.kind \in {"getPrompts", "getBackups"})
                   \/ (s = "lost" /\ q.kind = "putPrompt" /\ q.done # {}))
    /\ UNCHANGED <<db, form, prompts, backups, next, counts, entered, submitted, droppable>>

-----------------------------------------------------------------------------
\* The page's part of an answer.

\* A load that failed, or came back in another shape, leaves no form to edit.  The
\* sections are mounted with the form, and load what they show.
AnswerSettings(q) ==
    IF q.state = "ok"
    THEN /\ form' = [form EXCEPT !.state = "ready", !.shown = q.settings, !.saved = q.settings]
         /\ net' = (net \ {q}) \cup {Load({}, "mount", << >>),
                                    Request("getBackups", [owner |-> "mount"], << >>)}
         /\ UNCHANGED <<prompts, backups, next>>
    ELSE /\ form' = [form EXCEPT !.state = IF q.state = "refused" THEN "broken" ELSE @]
         /\ net' = net \ {q}
         /\ UNCHANGED <<prompts, backups, next>>

AnswerSave(q) ==
    /\ form' = IF q.state # "ok" THEN [form EXCEPT !.saving = @ \ {q.kind}]
               ELSE [form EXCEPT !.saving = @ \ {q.kind},
                                 !.shown = Over(q.over, q.settings), !.saved = q.settings,
                                 !.dirtyN = IF q.kind = "N" THEN << >> ELSE @,
                                 !.dirtyI = IF q.kind = "I" THEN << >> ELSE @]
    /\ net' = net \ {q}
    /\ next' = q.rest
    /\ UNCHANGED <<prompts, backups>>

AnswerTest(q) ==
    /\ form' = [form EXCEPT !.testing = FALSE]
    /\ net' = net \ {q}
    /\ UNCHANGED <<prompts, backups, next>>

\* Mutant: saveAll ends without saying so.
FinishOne(p, owner) == [p EXCEPT !.busy = IF owner = "one" THEN NoKey ELSE @]

\* The end of save, reset and saveAll.
Finish(p, owner) ==
    [p EXCEPT !.busy = IF owner = "one" THEN NoKey ELSE @, !.all = IF owner = "all" THEN FALSE ELSE @]

\* saveAll's next PUT.
NextPut(q, done) ==
    LET k == First(DOMAIN q.todo)
    IN  [q EXCEPT !.key = k, !.text = q.todo[k], !.done = done, !.state = "sent",
                  !.todo = [j \in DOMAIN q.todo \ {k} |-> q.todo[j]]]

\* What was stored is loaded again; of a saveAll that an error answer stopped, what was
\* stored before it.
AnswerPut(q) ==
    LET done == q.done \cup {q.key}
        goOn == q.state = "ok" /\ q.owner = "all" /\ q.todo # << >>
        reload == IF q.state = "ok" THEN done ELSE IF q.state = "refused" THEN q.done ELSE {}
    IN  /\ \/ /\ goOn
              /\ net' = (net \ {q}) \cup {NextPut(q, done)}
              /\ UNCHANGED <<prompts, next>>
           \/ /\ ~goOn /\ reload # {}
              /\ net' = (net \ {q}) \cup {Load(reload, q.owner, q.rest)}
              /\ UNCHANGED <<prompts, next>>
           \/ /\ ~goOn /\ reload = {}
              /\ net' = net \ {q}
              /\ prompts' = Finish(prompts, q.owner)
              /\ next' = q.rest
        /\ UNCHANGED <<form, backups>>

AnswerReset(q) ==
    /\ \/ /\ q.state = "ok"
          /\ net' = (net \ {q}) \cup {Load({q.key}, "one", << >>)}
          /\ UNCHANGED prompts
       \/ /\ q.state # "ok"
          /\ net' = net \ {q}
          /\ prompts' = Finish(prompts, "one")
    /\ UNCHANGED <<form, backups, next>>

\* Mutant: a load drops every draft.
LoadAfresh(q) ==
    /\ prompts' = IF q.state # "ok" THEN Finish(prompts, q.owner)
                  ELSE Finish([prompts EXCEPT !.list = q.prompts, !.drafts = NoDraft], q.owner)
    /\ net' = net \ {q}
    /\ next' = q.rest
    /\ UNCHANGED <<form, backups>>

\* load: only the settled drafts are dropped.
AnswerLoad(q) ==
    LET loaded == IF q.state # "ok" THEN prompts
                  ELSE [prompts EXCEPT
                            !.list = q.prompts,
                            !.drafts = [k \in DOMAIN @ \ q.settled |-> @[k]]]
    IN  /\ prompts' = Finish(loaded, q.owner)
        /\ net' = net \ {q}
        /\ next' = q.rest
        /\ UNCHANGED <<form, backups>>

\* The button shown when nothing could be loaded.
RetryLoad ==
    /\ Ready /\ prompts.list = NoPrompts /\ Under({"getPrompts"}) = {}
    /\ Ask
    /\ net' = net \cup {Load({}, "retry", << >>)}
    /\ UNCHANGED <<db, form, prompts, backups, next, edits, opened, history>>

\* The first load takes an error answer for a backups directory that is not mounted; a
\* later one ignores it.  New data resets the draft.
AnswerBackups(q) ==
    /\ backups' =
         CASE q.state = "ok" ->
                [backups EXCEPT !.state = "ready", !.retention = q.backups.retention,
                                !.dumps = q.backups.dumps, !.draft = q.backups.retention,
                                !.deleting = IF q.owner = "delete" THEN FALSE ELSE @]
           [] q.state # "ok" /\ q.owner = "mount" -> [backups EXCEPT !.state = "unreachable"]
           [] OTHER -> [backups EXCEPT !.deleting = FALSE]
    /\ net' = net \ {q}
    /\ UNCHANGED <<form, prompts, next>>

\* Mutant: a stored retention is not taken over.
AnswerRetentionQuietly(q) ==
    /\ backups' = [backups EXCEPT !.saving = FALSE,
                                  !.draft = IF q.state = "ok" THEN backups.retention ELSE @]
    /\ net' = net \ {q}
    /\ next' = q.rest
    /\ UNCHANGED <<form, prompts>>

\* applyRetention.
AnswerRetention(q) ==
    /\ backups' = IF q.state = "ok"
                  THEN [backups EXCEPT !.retention = q.retention, !.draft = q.retention,
                                       !.saving = FALSE]
                  ELSE [backups EXCEPT !.saving = FALSE]
    /\ net' = net \ {q}
    /\ next' = q.rest
    /\ UNCHANGED <<form, prompts>>

AnswerDelete(q) ==
    /\ \/ /\ q.state = "ok"
          /\ backups' = [backups EXCEPT !.pending = NoDump]
          /\ net' = (net \ {q}) \cup {Request("getBackups", [owner |-> "delete"], << >>)}
       \/ /\ q.state # "ok"
          /\ backups' = [backups EXCEPT !.deleting = FALSE]
          /\ net' = net \ {q}
    /\ UNCHANGED <<form, prompts, next>>

\* The prompts whose save or reset an answer is of.
Settling(q) == IF q.kind = "getPrompts" THEN q.settled ELSE {q.key}

Answer(q) ==
    /\ q.state # "sent"
    /\ \/ q.kind = "getSettings"  /\ AnswerSettings(q)
       \/ q.kind \in {"N", "I"}   /\ AnswerSave(q)
       \/ q.kind = "test"         /\ AnswerTest(q)
       \/ q.kind = "getPrompts"   /\ AnswerLoad(q)
       \/ q.kind = "putPrompt"    /\ AnswerPut(q)
       \/ q.kind = "resetPrompt"  /\ AnswerReset(q)
       \/ q.kind = "getBackups"   /\ AnswerBackups(q)
       \/ q.kind = "putRetention" /\ AnswerRetention(q)
       \/ q.kind = "deleteDump"   /\ AnswerDelete(q)
    /\ droppable' = droppable \cup IF prompts'.busy = prompts.busy THEN {}
                                   ELSE Texts({prompts.busy} \ Settling(q))
    /\ UNCHANGED <<db, counts, entered, submitted, astray>>

-----------------------------------------------------------------------------
Init ==
    /\ db = [settings |-> [f \in Field |-> FromEnv], prompts |-> [k \in Key |-> Default],
             retention |-> CHOOSE r \in Retentions : ~Invalid(r), dumps |-> Dumps]
    /\ form = [NoForm EXCEPT !.state = "left"]
    /\ prompts = NoSection
    /\ backups = NoBackups
    /\ net = {}
    /\ next = << >>
    /\ edits = 0 /\ sent = 0 /\ opened = 0
    /\ entered = {} /\ submitted = {} /\ droppable = {} /\ astray = FALSE

EditSettings ==
    \/ \E f \in TextFields : \/ TypeText(f, Empty)
                            \/ \E a \in Atom : TypeText(f, {a}) \/ EditInPlace(f, a)
    \/ \E f \in ListFields, a \in Atom : AddEmail(f, a) \/ RemoveEmail(f, a)
    \/ \E f \in ModelFields, a \in Atom : PickModel(f, {a})
    \/ SendTest

EditPrompts ==
    \E k \in Key :
        \/ SavePrompt(k) \/ ResetPrompt(k)
        \/ \E t \in Atom \cup {Blank} : TypePrompt(k, t)

EditBackups ==
    \/ \E r \in Retentions : TypeRetention(r)
    \/ SaveRetention \/ CancelDelete \/ ConfirmDelete
    \/ \E d \in Dumps : RequestDelete(d)

User ==
    \/ Open \/ EditSettings \/ EditPrompts \/ EditBackups
    \/ BarSave \/ BarDiscard \/ RetryLoad
    \/ \E how \in {"link", "back"}, yes \in BOOLEAN : Leave(how, yes)

Network ==
    \E q \in net : Serve(q) \/ Answer(q) \/ \E s \in {"refused", "lost"} : Fail(q, s)

\* The bar goes on before the next event.
Next == BarStart \/ (Idle /\ (User \/ Network))
Spec == Init /\ [][Next]_vars
=============================================================================
