--------------------------- MODULE SettingsProofs ---------------------------
(***************************************************************************)
(* The Settings page for every set of fields, prompts and backups and any  *)
(* number of edits and requests: what it stores was unsaved when Save was  *)
(* pressed and is what an edit of that field left in it; no control says   *)
(* it is saving when no request is under way; and the saves of the bar     *)
(* take turns.                                                             *)
(***************************************************************************)
EXTENDS SettingsProperties, SequenceTheorems, TLAPS

\* Values that an edit left in their fields; edits that were submitted.
Typed(d) == \A f \in DOMAIN d : <<f, d[f]>> \in entered
Submitted(d) == \A f \in DOMAIN d : <<f, d[f]>> \in submitted

\* What the bar still has to save was submitted.
EntryOK(e) == Submitted(e.dirtyN) /\ Submitted(e.dirtyI)
RestOK(r) == \E S : r \in Seq(S) /\ \A e \in S : EntryOK(e)

\* So was what a request stores.
RequestOK(q) ==
    /\ {"kind", "rest", "state", "live"} \subseteq DOMAIN q
    /\ q.kind \in {"N", "I"} => "patch" \in DOMAIN q /\ Submitted(q.patch)
    /\ RestOK(q.rest)
NetOK == \A q \in net : RequestOK(q)

FormOK ==
    /\ DOMAIN form = {"state", "shown", "saved", "dirtyN", "dirtyI", "saving", "testing"}
    /\ Typed(form.dirtyN) /\ Typed(form.dirtyI)

DbOK ==
    /\ DOMAIN db = {"settings", "prompts", "retention", "dumps"}
    /\ Field \subseteq DOMAIN db.settings
    /\ StoredIsEntered

SettingsInv ==
    /\ DbOK /\ FormOK /\ NetOK /\ RestOK(next)
    /\ submitted \subseteq entered

\* What a step stores.
StoresSubmitted ==
    \A f \in Field : db'.settings[f] # db.settings[f] => <<f, db'.settings[f]>> \in submitted

-----------------------------------------------------------------------------
(* Requests.                                                               *)

\* More is submitted, never less.
LEMMA MoreSubmitted ==
    ASSUME submitted \subseteq submitted'
    PROVE  /\ \A d : Submitted(d) => Submitted(d)'
           /\ \A r : RestOK(r) => RestOK(r)'
           /\ \A q : RequestOK(q) => RequestOK(q)'
<1>1. ASSUME NEW d, Submitted(d) PROVE Submitted(d)'
  BY <1>1 DEF Submitted
<1>2. ASSUME NEW e, EntryOK(e) PROVE EntryOK(e)'
  BY <1>1, <1>2 DEF EntryOK
<1>3. ASSUME NEW r, RestOK(r) PROVE RestOK(r)'
  BY <1>2, <1>3 DEF RestOK
<1>4. ASSUME NEW q, RequestOK(q) PROVE RequestOK(q)'
  BY <1>1, <1>3, <1>4 DEF RequestOK
<1>5. QED
  BY <1>1, <1>3, <1>4

\* Nothing left to save.
LEMMA NothingLeft == RestOK(<< >>)
<1>1. PICK S : S = {}
  OBVIOUS
<1>2. << >> \in Seq(S) /\ \A e \in S : EntryOK(e)
  BY <1>1
<1>3. QED
  BY <1>2 DEF RestOK

\* The fields of a request that its arguments do not name.
LEMMA NewRequest ==
    ASSUME NEW kind, NEW args, NEW rest, {"kind", "rest", "state", "live"} \cap DOMAIN args = {},
           RestOK(rest), kind \in {"N", "I"} => "patch" \in DOMAIN args /\ Submitted(args.patch)
    PROVE  RequestOK(Request(kind, args, rest))
<1>1. PICK id : Request(kind, args, rest) =
                  Over(args, [id |-> id, kind |-> kind, rest |-> rest, state |-> "sent", live |-> TRUE])
  BY DEF Request
<1>2. PICK plain : plain = [id |-> id, kind |-> kind, rest |-> rest, state |-> "sent", live |-> TRUE]
  OBVIOUS
<1>3. /\ DOMAIN plain = {"id", "kind", "rest", "state", "live"}
      /\ plain.kind = kind /\ plain.rest = rest
  BY <1>2
<1>4. PICK q : q = Over(args, plain)
  OBVIOUS
<1>5. /\ DOMAIN q = DOMAIN args \cup DOMAIN plain
      /\ \A x \in DOMAIN q : q[x] = IF x \in DOMAIN args THEN args[x] ELSE plain[x]
  BY <1>4 DEF Over
<1>6. /\ {"kind", "rest", "state", "live"} \subseteq DOMAIN q
      /\ q.kind = kind /\ q.rest = rest
      /\ "patch" \in DOMAIN args => "patch" \in DOMAIN q /\ q.patch = args.patch
  BY <1>3, <1>5
<1>7. RequestOK(q)
  BY <1>6 DEF RequestOK
<1>8. QED
  BY <1>1, <1>2, <1>4, <1>7

\* A request that stores no settings.
LEMMA OtherRequest ==
    ASSUME NEW kind, kind \notin {"N", "I"}, NEW args, NEW rest,
           {"kind", "rest", "state", "live"} \cap DOMAIN args = {}, RestOK(rest)
    PROVE  RequestOK(Request(kind, args, rest))
BY NewRequest

\* A load of the prompts.
LEMMA NewLoad ==
    ASSUME NEW settled, NEW owner, NEW rest, RestOK(rest) PROVE RequestOK(Load(settled, owner, rest))
<1>1. PICK args : args = [settled |-> settled, owner |-> owner]
  OBVIOUS
<1>2. DOMAIN args = {"settled", "owner"}
  BY <1>1
<1>3. RequestOK(Request("getPrompts", args, rest))
  BY <1>2, OtherRequest
<1>4. QED
  BY <1>1, <1>3 DEF Load

\* A save of a prompt.
LEMMA NewPut ==
    ASSUME NEW k, NEW text, NEW todo, NEW done, NEW owner, NEW rest, RestOK(rest)
    PROVE  RequestOK(Request("putPrompt", [key |-> k, text |-> text, todo |-> todo, done |-> done,
                                           owner |-> owner], rest))
<1>1. PICK args : args = [key |-> k, text |-> text, todo |-> todo, done |-> done, owner |-> owner]
  OBVIOUS
<1>2. DOMAIN args = {"key", "text", "todo", "done", "owner"}
  BY <1>1
<1>3. RequestOK(Request("putPrompt", args, rest))
  BY <1>2, OtherRequest
<1>4. QED
  BY <1>1, <1>3

\* The requests without a patch that the handlers send.
LEMMA NewOther ==
    ASSUME NEW x, NEW y
    PROVE  /\ RequestOK(Request("getSettings", << >>, << >>))
           /\ RequestOK(Request("test", << >>, << >>))
           /\ RequestOK(Request("resetPrompt", [key |-> x, owner |-> y], << >>))
           /\ RequestOK(Request("getBackups", [owner |-> x], << >>))
           /\ RequestOK(Request("deleteDump", [dump |-> x], << >>))
<1>1. DOMAIN << >> = {}
  OBVIOUS
<1>2. PICK a : a = [key |-> x, owner |-> y]
  OBVIOUS
<1>3. PICK b : b = [owner |-> x]
  OBVIOUS
<1>4. PICK c : c = [dump |-> x]
  OBVIOUS
<1>5. DOMAIN a = {"key", "owner"} /\ DOMAIN b = {"owner"} /\ DOMAIN c = {"dump"}
  BY <1>2, <1>3, <1>4
<1>6. RequestOK(Request("getSettings", << >>, << >>)) /\ RequestOK(Request("test", << >>, << >>))
  BY <1>1, NothingLeft, OtherRequest
<1>7. /\ RequestOK(Request("resetPrompt", a, << >>)) /\ RequestOK(Request("getBackups", b, << >>))
      /\ RequestOK(Request("deleteDump", c, << >>))
  BY <1>5, NothingLeft, OtherRequest
<1>8. QED
  BY <1>2, <1>3, <1>4, <1>6, <1>7

\* A save of the retention.
LEMMA NewRetention ==
    ASSUME NEW r, NEW rest, RestOK(rest)
    PROVE  RequestOK(Request("putRetention", [retention |-> r], rest))
<1>1. PICK args : args = [retention |-> r]
  OBVIOUS
<1>2. DOMAIN args = {"retention"}
  BY <1>1
<1>3. RequestOK(Request("putRetention", args, rest))
  BY <1>2, OtherRequest
<1>4. QED
  BY <1>1, <1>3

\* What the server adds to a request is its state and its result.
LEMMA ServedOK ==
    ASSUME NetOK, NEW q \in net, NEW s, NEW result,
           {"kind", "rest", "state", "live", "patch"} \cap DOMAIN result = {}, Served(q, s, result)
    PROVE  \A p \in net' : RequestOK(p)
<1>1. PICK base : base = [q EXCEPT !.state = s]
  OBVIOUS
<1>2. /\ {"kind", "rest", "state", "live"} \subseteq DOMAIN q /\ RestOK(q.rest)
      /\ q.kind \in {"N", "I"} => "patch" \in DOMAIN q /\ Submitted(q.patch)
  BY DEF NetOK, RequestOK
<1>3. /\ DOMAIN base = DOMAIN q /\ base.kind = q.kind /\ base.rest = q.rest
      /\ "patch" \in DOMAIN q => base.patch = q.patch
  BY <1>1, <1>2
<1>4. PICK p : p = Over(result, base)
  OBVIOUS
<1>5. /\ DOMAIN p = DOMAIN result \cup DOMAIN base
      /\ \A x \in DOMAIN p : p[x] = IF x \in DOMAIN result THEN result[x] ELSE base[x]
  BY <1>4 DEF Over
<1>6. /\ {"kind", "rest", "state", "live"} \subseteq DOMAIN p /\ p.kind = q.kind /\ p.rest = q.rest
      /\ "patch" \in DOMAIN q => "patch" \in DOMAIN p /\ p.patch = q.patch
  BY <1>2, <1>3, <1>5
<1>7. RequestOK(p)
  BY <1>2, <1>6 DEF RequestOK
<1>8. net' \subseteq net \cup {p}
  BY <1>1, <1>4 DEF Served
<1>9. QED
  BY <1>7, <1>8 DEF NetOK

\* A request whose page is gone.
LEMMA OrphanedOK ==
    ASSUME NEW q, RequestOK(q), NEW p, p = [q EXCEPT !.live = FALSE] PROVE RequestOK(p)
<1>1. /\ DOMAIN p = DOMAIN q /\ p.kind = q.kind /\ p.rest = q.rest
      /\ "patch" \in DOMAIN q => p.patch = q.patch
  BY DEF RequestOK
<1>2. QED
  BY <1>1 DEF RequestOK

-----------------------------------------------------------------------------
(* Edits.                                                                  *)

\* One more edit.
LEMMA OneMore ==
    ASSUME NEW d, Typed(d), NEW f, NEW v, entered' = entered \cup {<<f, v>>}
    PROVE  Typed(Over([x \in {f} |-> v], d))'
<1>1. PICK one : one = [x \in {f} |-> v]
  OBVIOUS
<1>2. DOMAIN one = {f} /\ one[f] = v
  BY <1>1
<1>3. PICK e : e = Over(one, d)
  OBVIOUS
<1>4. /\ DOMAIN e = {f} \cup DOMAIN d
      /\ \A x \in DOMAIN e : e[x] = IF x \in {f} THEN one[x] ELSE d[x]
  BY <1>2, <1>3 DEF Over
<1>5. \A x \in DOMAIN e : <<x, e[x]>> \in entered'
  BY <1>2, <1>4 DEF Typed
<1>6. QED
  BY <1>1, <1>3, <1>5 DEF Typed

\* No edits.
LEMMA NoEdits == Typed(<< >>) /\ Submitted(<< >>)
BY DEF Typed, Submitted

\* A change of a field.
LEMMA ChangeKeeps ==
    ASSUME FormOK, NEW f, NEW v, HandleChange(f, v)
    PROVE  FormOK'
<1>0. entered' = entered \cup {<<f, v>>}
  BY DEF HandleChange
<1>1. PICK d : d = IF f \in ModelFields THEN Over([x \in {f} |-> v], form.dirtyI)
                   ELSE Over([x \in {f} |-> v], form.dirtyN)
  OBVIOUS
<1>2. \A x \in DOMAIN d : <<x, d[x]>> \in entered'
  BY <1>0, <1>1, OneMore DEF FormOK, Typed
<1>3. CASE f \in ModelFields
  <2>1. PICK s : form' = [form EXCEPT !.shown = s, !.dirtyI = d]
    BY <1>1, <1>3 DEF HandleChange
  <2>2. QED
    BY <1>0, <1>2, <2>1 DEF FormOK, Typed
<1>4. CASE f \notin ModelFields
  <2>1. PICK s : form' = [form EXCEPT !.shown = s, !.dirtyN = d]
    BY <1>1, <1>4 DEF HandleChange
  <2>2. QED
    BY <1>0, <1>2, <2>1 DEF FormOK, Typed
<1>5. QED
  BY <1>3, <1>4

\* Anything else that happens to the form, with the edits kept or dropped.
LEMMA FormKeeps ==
    ASSUME FormOK, entered \subseteq entered', DOMAIN form' = DOMAIN form,
           form'.dirtyN = form.dirtyN \/ form'.dirtyN = << >>,
           form'.dirtyI = form.dirtyI \/ form'.dirtyI = << >>
    PROVE  FormOK'
BY DEF FormOK, Typed

\* A page just opened or left.
LEMMA FreshForm == ASSUME form' = NoForm \/ form' = [NoForm EXCEPT !.state = "left"] PROVE FormOK'
BY DEF FormOK, NoForm, Typed

-----------------------------------------------------------------------------
(* Steps.                                                                  *)

Keeps == SettingsInv' /\ StoresSubmitted

\* A step that stores no settings and submits none.
LEMMA Quiet ==
    ASSUME SettingsInv, db'.settings = db.settings, DOMAIN db' = DOMAIN db, submitted' = submitted,
           entered \subseteq entered', FormOK', \A q \in net' : RequestOK(q), RestOK(next')
    PROVE  Keeps
<1>1. /\ \A r : RestOK(r) => RestOK(r)'
      /\ \A q : RequestOK(q) => RequestOK(q)'
  BY MoreSubmitted
<1>2. NetOK' /\ RestOK(next)'
  BY <1>1 DEF NetOK
<1>3. DbOK'
  BY DEF SettingsInv, DbOK, StoredIsEntered
<1>4. QED
  BY <1>2, <1>3 DEF Keeps, SettingsInv, StoresSubmitted

\* A step that sends at most one request, and keeps or drops the edits.
LEMMA SendsOne ==
    ASSUME SettingsInv, UNCHANGED <<db, entered, submitted>>, FormOK', RestOK(next'),
           NEW r, RequestOK(r), net' \subseteq net \cup {r}
    PROVE  Keeps
<1>1. \A q \in net' : RequestOK(q)
  BY DEF SettingsInv, NetOK
<1>2. QED
  BY <1>1, Quiet

\* A step that sends none.
LEMMA SendsNone ==
    ASSUME SettingsInv, UNCHANGED <<db, entered, submitted>>, FormOK', RestOK(next'), net' \subseteq net
    PROVE  Keeps
<1>1. \A q \in net' : RequestOK(q)
  BY DEF SettingsInv, NetOK
<1>2. QED
  BY <1>1, Quiet

\* The parts of the invariant that hold before a step.
LEMMA Holds == ASSUME SettingsInv PROVE FormOK /\ NetOK /\ RestOK(next) /\ (form' = form /\ entered' = entered => FormOK')
BY DEF SettingsInv, FormOK, Typed

\* Opening and leaving the page.
LEMMA OpenKeeps == ASSUME SettingsInv, Open PROVE Keeps
<1>1. FormOK' /\ RestOK(next')
  BY FreshForm, Holds DEF Open
<1>2. QED
  BY <1>1, NewOther, SendsOne DEF Open, history

\* Leaving the page, with its requests still under way.
LEMMA LeaveKeeps == ASSUME SettingsInv, NEW how, NEW yes, Leave(how, yes) PROVE Keeps
<1>1. FormOK' /\ RestOK(next') /\ UNCHANGED <<db, entered, submitted>>
  BY FreshForm, Holds DEF Leave
<1>2. ASSUME NEW p \in net' PROVE RequestOK(p)
  <2>1. PICK q \in net : p = [q EXCEPT !.live = FALSE]
    BY <1>2 DEF Leave, Orphaned
  <2>2. QED
    BY <2>1, Holds, OrphanedOK DEF NetOK
<1>3. QED
  BY <1>1, <1>2, Quiet

\* The settings form.
LEMMA ChangeStep == ASSUME SettingsInv, NEW f, NEW v, HandleChange(f, v) PROVE Keeps
<1>1. FormOK' /\ entered \subseteq entered'
  BY ChangeKeeps, Holds DEF HandleChange
<1>2. UNCHANGED <<db, net, next, submitted>>
  BY DEF HandleChange
<1>3. QED
  BY <1>1, <1>2, Holds, Quiet DEF NetOK

\* Typing into the form, picking a model, testing a channel.
LEMMA EditSettingsKeeps == ASSUME SettingsInv, EditSettings PROVE Keeps
<1>1. CASE \E f \in TextFields : \/ TypeText(f, Empty)
                                 \/ \E a \in Atom : TypeText(f, {a}) \/ EditInPlace(f, a)
  <2>1. PICK f, v : HandleChange(f, v)
    BY <1>1 DEF TypeText, EditInPlace
  <2>2. QED
    BY <2>1, ChangeStep
<1>2. CASE \E f \in ListFields, a \in Atom : AddEmail(f, a) \/ RemoveEmail(f, a)
  <2>1. PICK f, v : HandleChange(f, v)
    BY <1>2 DEF AddEmail, RemoveEmail
  <2>2. QED
    BY <2>1, ChangeStep
<1>3. CASE \E f \in ModelFields, a \in Atom : PickModel(f, {a})
  <2>1. PICK f, v : HandleChange(f, v)
    BY <1>3 DEF PickModel
  <2>2. QED
    BY <2>1, ChangeStep
<1>4. CASE SendTest
  <2>1. form' = [form EXCEPT !.testing = TRUE] /\ entered' = entered
    BY <1>4 DEF SendTest, history
  <2>2. FormOK'
    BY <2>1, FormKeeps, Holds DEF FormOK
  <2>3. QED
    BY <1>4, <2>2, Holds, NewOther, SendsOne DEF SendTest, history
<1>5. QED
  BY <1>1, <1>2, <1>3, <1>4 DEF EditSettings

\* The prompts.
LEMMA EditPromptsKeeps == ASSUME SettingsInv, EditPrompts PROVE Keeps
<1>1. PICK k \in Key : SavePrompt(k) \/ ResetPrompt(k) \/ \E t \in Atom \cup {Blank} : TypePrompt(k, t)
  BY DEF EditPrompts
<1>2. CASE SavePrompt(k)
  BY <1>2, Holds, NothingLeft, NewPut, SendsOne DEF SavePrompt
<1>3. CASE ResetPrompt(k)
  BY <1>3, Holds, NewOther, SendsOne DEF ResetPrompt
<1>4. CASE \E t \in Atom \cup {Blank} : TypePrompt(k, t)
  BY <1>4, Holds, SendsNone DEF TypePrompt, history
<1>5. QED
  BY <1>1, <1>2, <1>3, <1>4

\* The backups.
LEMMA EditBackupsKeeps == ASSUME SettingsInv, EditBackups PROVE Keeps
<1>1. CASE \E r \in Retentions : TypeRetention(r)
  BY <1>1, Holds, SendsNone DEF TypeRetention, history
<1>2. CASE SaveRetention
  BY <1>2, Holds, NothingLeft, NewRetention, SendsOne DEF SaveRetention, PutRetention, history
<1>3. CASE CancelDelete
  BY <1>3, Holds, SendsNone DEF CancelDelete, history
<1>4. CASE ConfirmDelete
  BY <1>4, Holds, NewOther, SendsOne DEF ConfirmDelete, history
<1>5. CASE \E d \in Dumps : RequestDelete(d)
  BY <1>5, Holds, SendsNone DEF RequestDelete, history
<1>6. QED
  BY <1>1, <1>2, <1>3, <1>4, <1>5 DEF EditBackups

\* The button shown when no prompts could be loaded.
LEMMA RetryLoadKeeps == ASSUME SettingsInv, RetryLoad PROVE Keeps
BY Holds, NothingLeft, NewLoad, SendsOne DEF RetryLoad, history

-----------------------------------------------------------------------------
(* The bar.                                                                *)

\* A list of one.
LEMMA ListOfOne == \A T : << >> \in Seq(T) /\ \A x \in T : <<x>> \in Seq(T)
OBVIOUS

\* The bar lists the tabs and the sections.
LEMMA ListsNames == Listed \in Seq({"N", "I", "P", "B"})
<1> DEFINE E == {"N", "I", "P", "B"}
<1>1. /\ << >> \in Seq(E) /\ <<"N">> \in Seq(E) /\ <<"I">> \in Seq(E)
      /\ <<"P">> \in Seq(E) /\ <<"B">> \in Seq(E)
  <2>1. "N" \in E /\ "I" \in E /\ "P" \in E /\ "B" \in E
    OBVIOUS
  <2>2. QED
    BY <2>1, ListOfOne, Zenon
<1>2. PICK a : a = IF form.dirtyN # << >> THEN <<"N">> ELSE << >>
  OBVIOUS
<1>3. PICK b : b = IF form.dirtyI # << >> THEN <<"I">> ELSE << >>
  OBVIOUS
<1>4. PICK c : c = IF EditedIn(prompts) # {} THEN <<"P">> ELSE << >>
  OBVIOUS
<1>5. PICK d : d = IF RetentionDirty THEN <<"B">> ELSE << >>
  OBVIOUS
<1>6. a \in Seq(E) /\ b \in Seq(E) /\ c \in Seq(E) /\ d \in Seq(E)
  <2>1. /\ a \in {<<"N">>, << >>} /\ b \in {<<"I">>, << >>}
        /\ c \in {<<"P">>, << >>} /\ d \in {<<"B">>, << >>}
    BY <1>2, <1>3, <1>4, <1>5, Zenon
  <2>2. QED
    BY <1>1, <2>1
<1>7. a \o b \o c \o d \in Seq(E)
  BY <1>6
<1>8. QED
  BY <1>2, <1>3, <1>4, <1>5, <1>7 DEF Listed

\* What is unsaved is submitted, and an edit left it in its field.
LEMMA BarSaveKeeps == ASSUME SettingsInv, BarSave PROVE Keeps
<1> DEFINE S == {[id |-> x, dirtyN |-> form.dirtyN, dirtyI |-> form.dirtyI] : x \in {"N", "I", "P", "B"}}
<1>1. /\ submitted \subseteq submitted'
      /\ \A f \in DOMAIN form.dirtyN : <<f, form.dirtyN[f]>> \in submitted'
      /\ \A f \in DOMAIN form.dirtyI : <<f, form.dirtyI[f]>> \in submitted'
  BY DEF BarSave
<1>2. UNCHANGED <<db, form, net, entered>>
  BY DEF BarSave
<1>3. RestOK(next)'
  <2>1. PICK n \in Nat : DOMAIN Listed = 1 .. n /\ \A i \in 1 .. n : Listed[i] \in {"N", "I", "P", "B"}
    BY ListsNames
  <2>2. next' = [i \in 1 .. n |-> [id |-> Listed[i], dirtyN |-> form.dirtyN, dirtyI |-> form.dirtyI]]
    BY <2>1 DEF BarSave
  <2>3. \A i \in 1 .. n : [id |-> Listed[i], dirtyN |-> form.dirtyN, dirtyI |-> form.dirtyI] \in S
    BY <2>1
  <2>4. next' \in Seq(S)
    <3>1. PICK T : T = S
      OBVIOUS
    <3>2. next' \in [1 .. n -> T]
      BY <2>2, <2>3, <3>1
    <3>3. QED
      BY <3>1, <3>2, SeqDef
  <2>5. Submitted(form.dirtyN)' /\ Submitted(form.dirtyI)'
    BY <1>1, <1>2 DEF Submitted
  <2>6. ASSUME NEW e \in S PROVE EntryOK(e)'
    <3>1. e.dirtyN = form.dirtyN /\ e.dirtyI = form.dirtyI
      OBVIOUS
    <3>2. QED
      BY <2>5, <3>1, <1>2 DEF EntryOK
  <2>7. QED
    BY <2>4, <2>6 DEF RestOK
<1>4. NetOK'
  BY <1>1, <1>2, Holds, MoreSubmitted DEF NetOK
<1>5. submitted' \subseteq entered
  <2>1. submitted' = submitted \cup {<<f, form.dirtyN[f]>> : f \in DOMAIN form.dirtyN}
                              \cup {<<f, form.dirtyI[f]>> : f \in DOMAIN form.dirtyI}
    BY DEF BarSave
  <2>2. QED
    BY <2>1 DEF SettingsInv, FormOK, Typed
<1>6. DbOK' /\ FormOK' /\ StoresSubmitted
  BY <1>2, Holds DEF SettingsInv, DbOK, StoredIsEntered, StoresSubmitted
<1>7. QED
  BY <1>2, <1>3, <1>4, <1>5, <1>6 DEF Keeps, SettingsInv

\* Discarding drops edits.
LEMMA BarDiscardKeeps == ASSUME SettingsInv, BarDiscard PROVE Keeps
<1>1. PICK s : /\ form' = [[form EXCEPT !.shown = s] EXCEPT !.dirtyN = << >>, !.dirtyI = << >>]
               /\ entered' = entered
  BY DEF BarDiscard, Revert, history
<1>2. FormOK'
  BY <1>1, FormKeeps, Holds DEF FormOK
<1>3. QED
  BY <1>2, Holds, SendsNone DEF BarDiscard, history

\* The settings form's entry sends what was submitted.
LEMMA SaveSettingsKeeps ==
    ASSUME SettingsInv, UNCHANGED <<db, entered, submitted>>, NEW kind \in {"N", "I"}, NEW patch, NEW over, NEW rest,
           Submitted(patch), RestOK(rest), SaveSettings(kind, patch, over, rest)
    PROVE  Keeps
<1>1. CASE patch = << >>
  BY <1>1, Holds, SendsNone DEF SaveSettings
<1>2. CASE patch # << >>
  <2>1. form' = [form EXCEPT !.saving = @ \cup {kind}]
    BY <1>2 DEF SaveSettings
  <2>2. FormOK'
    BY <2>1, FormKeeps, Holds DEF FormOK
  <2>3. PICK args : args = [patch |-> patch, over |-> over]
    OBVIOUS
  <2>4. DOMAIN args = {"patch", "over"} /\ args.patch = patch
    BY <2>3
  <2>5. RequestOK(Request(kind, args, rest))
    BY <2>4, NewRequest
  <2>6. net' = net \cup {Request(kind, args, rest)} /\ next' = << >>
    BY <1>2, <2>3 DEF SaveSettings
  <2>7. QED
    BY <2>2, <2>5, <2>6, NothingLeft, SendsOne
<1>3. QED
  BY <1>1, <1>2

\* The bar's next entry saves what was submitted.
LEMMA BarStartKeeps == ASSUME SettingsInv, BarStart PROVE Keeps
<1>1. PICK e, rest : e = Head(next) /\ rest = Tail(next)
  OBVIOUS
<1>2. EntryOK(e) /\ RestOK(rest)
  <2>1. PICK S : next \in Seq(S) /\ \A x \in S : EntryOK(x)
    BY Holds DEF RestOK
  <2>2. next # << >>
    BY DEF BarStart, Idle
  <2>3. Head(next) \in S /\ Tail(next) \in Seq(S)
    BY <2>1, <2>2
  <2>4. QED
    BY <1>1, <2>1, <2>3 DEF RestOK
<1>3. UNCHANGED <<db, entered, submitted>>
  BY DEF BarStart, history
<1>4. CASE SaveSettings("N", e.dirtyN, e.dirtyI, rest)
  BY <1>2, <1>3, <1>4, SaveSettingsKeeps DEF EntryOK
<1>5. CASE SaveSettings("I", e.dirtyI, e.dirtyN, rest)
  BY <1>2, <1>3, <1>5, SaveSettingsKeeps DEF EntryOK
<1>6. CASE SaveAllPrompts(rest) /\ form' = form
  <2>1. \/ net' = net /\ next' = rest
        \/ net' = net \cup {Load({}, "all", rest)} /\ next' = << >>
        \/ net' = net \cup {PutNext(EditedIn(prompts), {}, rest)} /\ next' = << >>
    BY <1>6 DEF SaveAllPrompts
  <2>2. RequestOK(Load({}, "all", rest)) /\ RequestOK(PutNext(EditedIn(prompts), {}, rest))
    BY <1>2, NewLoad, NewPut DEF PutNext
  <2>3. QED
    BY <1>2, <1>3, <1>6, <2>1, <2>2, Holds, NothingLeft, SendsNone, SendsOne
<1>7. CASE PutRetention(rest) /\ next' = << >> /\ form' = form
  BY <1>2, <1>3, <1>7, Holds, NothingLeft, NewRetention, SendsOne DEF PutRetention
<1>8. QED
  BY <1>1, <1>4, <1>5, <1>6, <1>7 DEF BarStart

-----------------------------------------------------------------------------
(* The server and its answers.                                             *)

\* Serving a request that stores no settings.
LEMMA ServeOther ==
    ASSUME SettingsInv, NEW q \in net, NEW s, NEW result,
           {"kind", "rest", "state", "live", "patch"} \cap DOMAIN result = {}, Served(q, s, result),
           db'.settings = db.settings, DOMAIN db' = DOMAIN db, UNCHANGED <<form, next, entered, submitted>>
    PROVE  Keeps
BY Holds, ServedOK, Quiet

\* A save stores its patch, which was submitted.
LEMMA ServeSave ==
    ASSUME SettingsInv, NEW q \in net, q.kind \in {"N", "I"},
           db' = [db EXCEPT !.settings = Merge(@, q.patch)],
           Served(q, "ok", [settings |-> Respond(db'.settings)]), UNCHANGED <<form, next, entered, submitted>>
    PROVE  Keeps
<1>1. Submitted(q.patch)
  BY Holds DEF NetOK, RequestOK
<1>2. PICK s : s = Over(q.patch, db.settings)
  OBVIOUS
<1>3. /\ DOMAIN s = DOMAIN q.patch \cup DOMAIN db.settings
      /\ \A x \in DOMAIN s : s[x] = IF x \in DOMAIN q.patch THEN q.patch[x] ELSE db.settings[x]
  BY <1>2 DEF Over
<1>4. db' = [db EXCEPT !.settings = s]
  BY <1>2 DEF Merge
<1>5. DOMAIN db' = DOMAIN db /\ db'.settings = s
  BY <1>4 DEF SettingsInv, DbOK
<1>6. Field \subseteq DOMAIN db.settings /\ Sensitive \subseteq Field
  BY SettingsAssumption DEF SettingsInv, DbOK, Field, NotificationFields
<1>7. ASSUME NEW f \in Field, s[f] # db.settings[f] PROVE <<f, s[f]>> \in submitted
  BY <1>1, <1>3, <1>6, <1>7 DEF Submitted
<1>8. \A f \in Field : s[f] # FromEnv => <<f, s[f]>> \in entered
  BY <1>6, <1>7 DEF SettingsInv, DbOK, StoredIsEntered
<1>9. StoresSubmitted
  BY <1>5, <1>7 DEF StoresSubmitted
<1>10. DbOK'
  BY <1>3, <1>5, <1>8 DEF SettingsInv, DbOK, StoredIsEntered
<1>11. NetOK'
  <2>1. PICK r : r = [settings |-> Respond(db'.settings)]
    OBVIOUS
  <2>2. DOMAIN r = {"settings"}
    BY <2>1
  <2>3. \A p \in net' : RequestOK(p)
    BY <2>1, <2>2, Holds, ServedOK
  <2>4. QED
    BY <2>3, MoreSubmitted DEF NetOK
<1>12. FormOK' /\ RestOK(next)' /\ (submitted \subseteq entered)'
  BY Holds, MoreSubmitted DEF SettingsInv
<1>13. QED
  BY <1>9, <1>10, <1>11, <1>12 DEF Keeps, SettingsInv

\* The server's part of a request.
LEMMA ServeKeeps == ASSUME SettingsInv, NEW q \in net, Serve(q) PROVE Keeps
<1>1. UNCHANGED <<form, next, entered, submitted>>
  BY DEF Serve
<1>2. DOMAIN db = {"settings", "prompts", "retention", "dumps"}
  BY DEF SettingsInv, DbOK
<1>3. CASE q.kind \in {"N", "I"}
  BY <1>1, <1>3, ServeSave DEF Serve
<1>4. CASE q.kind \notin {"N", "I"}
  <2>1. PICK result :
           /\ Served(q, "ok", result)
           /\ \/ result = << >>
              \/ \E s : result = [settings |-> s]
              \/ \E p : result = [prompts |-> p]
              \/ \E b : result = [backups |-> b]
    BY <1>4 DEF Serve
  <2>2. {"kind", "rest", "state", "live", "patch"} \cap DOMAIN result = {}
    BY <2>1
  <2>3. \/ db' = db
        \/ \E p : db' = [db EXCEPT !.prompts = p]
        \/ \E r : db' = [db EXCEPT !.retention = r]
        \/ \E d : db' = [db EXCEPT !.dumps = d]
    BY <1>4 DEF Serve
  <2>4. db'.settings = db.settings /\ DOMAIN db' = DOMAIN db
    BY <1>2, <2>3
  <2>5. QED
    BY <1>1, <2>1, <2>2, <2>4, ServeOther
<1>5. QED
  BY <1>3, <1>4

\* A request that is refused or lost stores nothing.
LEMMA FailKeeps == ASSUME SettingsInv, NEW q \in net, NEW s, Fail(q, s) PROVE Keeps
<1>1. Served(q, s, << >>) /\ UNCHANGED <<db, form, next, entered, submitted>> /\ DOMAIN << >> = {}
  BY DEF Fail
<1>2. QED
  BY <1>1, ServeOther

\* An answer.
LEMMA AnswerKeeps == ASSUME SettingsInv, NEW q \in net, Answer(q) PROVE Keeps
<1>1. UNCHANGED <<db, entered, submitted>>
  BY DEF Answer, history
<1>2. RestOK(next) /\ RestOK(q.rest) /\ RequestOK(q) /\ RestOK(<< >>)
  BY Holds, NothingLeft DEF NetOK, RequestOK
<1>3. CASE AnswerSettings(q)
  <2>1. CASE q.state = "ok"
    <3>1. form' = [form EXCEPT !.state = "ready", !.shown = q.settings, !.saved = q.settings]
      BY <1>3, <2>1 DEF AnswerSettings
    <3>2. FormOK'
      BY <1>1, <3>1, FormKeeps, Holds DEF FormOK
    <3>3. /\ net' = (net \ {q}) \cup {Load({}, "mount", << >>),
                                      Request("getBackups", [owner |-> "mount"], << >>)}
          /\ next' = next
      BY <1>3, <2>1 DEF AnswerSettings
    <3>4. /\ RequestOK(Load({}, "mount", << >>))
          /\ RequestOK(Request("getBackups", [owner |-> "mount"], << >>))
      BY <1>2, NewLoad, NewOther
    <3>5. \A p \in net' : RequestOK(p)
      BY <3>3, <3>4, Holds DEF NetOK
    <3>6. QED
      BY <1>1, <1>2, <3>2, <3>3, <3>5, Quiet
  <2>2. CASE q.state # "ok"
    <3>1. PICK s : form' = [form EXCEPT !.state = s]
      BY <1>3, <2>2 DEF AnswerSettings
    <3>2. FormOK'
      BY <1>1, <3>1, FormKeeps, Holds DEF FormOK
    <3>3. QED
      BY <1>1, <1>2, <1>3, <2>2, <3>2, SendsNone DEF AnswerSettings
  <2>3. QED
    BY <2>1, <2>2
<1>4. CASE AnswerSave(q)
  <2>1. CASE q.state # "ok"
    <3>1. form' = [form EXCEPT !.saving = @ \ {q.kind}]
      BY <1>4, <2>1 DEF AnswerSave
    <3>2. FormOK'
      BY <1>1, <3>1, FormKeeps, Holds DEF FormOK
    <3>3. QED
      BY <1>1, <1>2, <1>4, <3>2, SendsNone DEF AnswerSave
  <2>2. CASE q.state = "ok"
    <3>1. PICK n, i : /\ n = IF q.kind = "N" THEN << >> ELSE form.dirtyN
                      /\ i = IF q.kind = "I" THEN << >> ELSE form.dirtyI
      OBVIOUS
    <3>2. PICK s, v : form' = [form EXCEPT !.saving = v, !.shown = s, !.saved = q.settings,
                                           !.dirtyN = n, !.dirtyI = i]
      BY <1>4, <2>2, <3>1 DEF AnswerSave
    <3>3. (n = form.dirtyN \/ n = << >>) /\ (i = form.dirtyI \/ i = << >>)
      BY <3>1
    <3>4. DOMAIN form' = DOMAIN form /\ form'.dirtyN = n /\ form'.dirtyI = i
      BY <3>2, Holds DEF FormOK
    <3>5. FormOK'
      BY <1>1, <3>3, <3>4, FormKeeps, Holds
    <3>6. QED
      BY <1>1, <1>2, <1>4, <3>5, SendsNone DEF AnswerSave
  <2>3. QED
    BY <2>1, <2>2
<1>5. CASE AnswerTest(q)
  <2>1. form' = [form EXCEPT !.testing = FALSE]
    BY <1>5 DEF AnswerTest
  <2>2. FormOK'
    BY <1>1, <2>1, FormKeeps, Holds DEF FormOK
  <2>3. QED
    BY <1>1, <1>2, <1>5, <2>2, SendsNone DEF AnswerTest
<1>6. CASE AnswerLoad(q)
  BY <1>1, <1>2, <1>6, Holds, SendsNone DEF AnswerLoad
<1>7. CASE q.kind = "putPrompt" /\ AnswerPut(q)
  <2>1. /\ form' = form
        /\ \/ net' = net \ {q} /\ next' = q.rest
           \/ next' = next /\ \E x : net' = (net \ {q}) \cup {Load(x, q.owner, q.rest)}
           \/ next' = next /\ \E d : net' = (net \ {q}) \cup {NextPut(q, d)}
    BY <1>7 DEF AnswerPut
  <2>2. CASE net' = net \ {q} /\ next' = q.rest
    BY <1>1, <1>2, <2>1, <2>2, Holds, SendsNone
  <2>3. CASE next' = next /\ \E x : net' = (net \ {q}) \cup {Load(x, q.owner, q.rest)}
    BY <1>1, <1>2, <2>1, <2>3, Holds, NewLoad, SendsOne
  <2>4. CASE next' = next /\ \E d : net' = (net \ {q}) \cup {NextPut(q, d)}
    <3>1. PICK d : net' = (net \ {q}) \cup {NextPut(q, d)}
      BY <2>4
    <3>2. PICK k, t, l : NextPut(q, d) = [q EXCEPT !.key = k, !.text = t, !.done = d,
                                                  !.state = "sent", !.todo = l]
      BY DEF NextPut
    <3>3. PICK p : p = NextPut(q, d)
      OBVIOUS
    <3>4. DOMAIN p = DOMAIN q /\ p.kind = q.kind /\ p.rest = q.rest
      BY <1>2, <3>2, <3>3 DEF RequestOK
    <3>5. RequestOK(p)
      BY <1>2, <1>7, <3>4 DEF RequestOK
    <3>6. QED
      BY <1>1, <1>2, <2>1, <2>4, <3>1, <3>3, <3>5, Holds, SendsOne
  <2>5. QED
    BY <2>1, <2>2, <2>3, <2>4
<1>8. CASE AnswerReset(q)
  <2>1. CASE q.state = "ok"
    BY <1>1, <1>2, <1>8, <2>1, Holds, NewLoad, SendsOne DEF AnswerReset
  <2>2. CASE q.state # "ok"
    BY <1>1, <1>2, <1>8, <2>2, Holds, SendsNone DEF AnswerReset
  <2>3. QED
    BY <2>1, <2>2
<1>9. CASE AnswerBackups(q)
  BY <1>1, <1>2, <1>9, Holds, SendsNone DEF AnswerBackups
<1>10. CASE AnswerRetention(q)
  BY <1>1, <1>2, <1>10, Holds, SendsNone DEF AnswerRetention
<1>11. CASE AnswerDelete(q)
  <2>1. CASE q.state = "ok"
    BY <1>1, <1>2, <1>11, <2>1, Holds, NewOther, SendsOne DEF AnswerDelete
  <2>2. CASE q.state # "ok"
    BY <1>1, <1>2, <1>11, <2>2, Holds, SendsNone DEF AnswerDelete
  <2>3. QED
    BY <2>1, <2>2
<1>12. QED
  BY <1>3, <1>4, <1>5, <1>6, <1>7, <1>8, <1>9, <1>10, <1>11 DEF Answer

-----------------------------------------------------------------------------
(* The theorems.                                                           *)

\* The invariant holds at the start.
LEMMA InitHolds == Init => SettingsInv
<1>1. SUFFICES ASSUME Init PROVE SettingsInv
  OBVIOUS
<1>2. FormOK
  <2>1. form = [NoForm EXCEPT !.state = "left"]
    BY <1>1 DEF Init
  <2>2. QED
    BY <2>1, NoEdits DEF FormOK, NoForm
<1>3. DbOK
  <2>1. PICK s : s = [f \in Field |-> FromEnv]
    OBVIOUS
  <2>2. PICK p, r, d : db = [settings |-> s, prompts |-> p, retention |-> r, dumps |-> d]
    BY <1>1, <2>1 DEF Init
  <2>3. DOMAIN s = Field /\ \A f \in Field : s[f] = FromEnv
    BY <2>1
  <2>4. QED
    BY <2>2, <2>3 DEF DbOK, StoredIsEntered
<1>4. NetOK /\ RestOK(next) /\ submitted \subseteq entered
  BY <1>1, NothingLeft DEF Init, NetOK
<1>5. QED
  BY <1>2, <1>3, <1>4 DEF SettingsInv

\* Every step keeps the invariant and stores only what was submitted.
LEMMA StepKeeps == SettingsInv /\ [Next]_vars => Keeps
<1>1. SUFFICES ASSUME SettingsInv, [Next]_vars PROVE Keeps
  OBVIOUS
<1>2. CASE User
  <2>1. CASE \E how \in {"link", "back"}, yes \in BOOLEAN : Leave(how, yes)
    BY <1>1, <2>1, LeaveKeeps
  <2>2. QED
    BY <1>1, <1>2, <2>1, OpenKeeps, EditSettingsKeeps, EditPromptsKeeps, EditBackupsKeeps,
       BarSaveKeeps, BarDiscardKeeps, RetryLoadKeeps DEF User
<1>3. CASE Network
  BY <1>1, <1>3, ServeKeeps, AnswerKeeps, FailKeeps DEF Network
<1>4. CASE BarStart
  BY <1>1, <1>4, BarStartKeeps
<1>5. CASE UNCHANGED vars
  BY <1>1, <1>5, Holds, SendsNone DEF vars, history
<1>6. QED
  BY <1>1, <1>2, <1>3, <1>4, <1>5 DEF Next

\* Every reachable state keeps the invariant.
THEOREM SettingsInvariant == Spec => []SettingsInv
<1>1. SettingsInv /\ [Next]_vars => SettingsInv'
  BY StepKeeps DEF Keeps
<1>2. QED
  BY InitHolds, <1>1, PTL DEF Spec

\* What is stored of a field an edit of that field left in it: never another field's value,
\* nor the mask of a secret that was not edited.
THEOREM StoredWasEntered == Spec => []StoredIsEntered
<1>1. SettingsInv => StoredIsEntered
  BY DEF SettingsInv, DbOK
<1>2. QED
  BY SettingsInvariant, <1>1, PTL

\* What is stored was unsaved when Save was pressed: nothing typed later goes with it.
THEOREM OnlySubmittedStored == Spec => NeverHalfFinished
<1>1. SettingsInv /\ [Next]_vars =>
        [\A f \in Field : db'.settings[f] # db.settings[f] => <<f, db'.settings[f]>> \in submitted]_vars
  BY StepKeeps DEF Keeps, StoresSubmitted
<1>2. QED
  BY SettingsInvariant, <1>1, PTL DEF Spec, NeverHalfFinished

-----------------------------------------------------------------------------
(* Controls that say they are saving.                                      *)

\* A live request of a kind; one of the prompts and the backups with an owner.
Asking == {"putPrompt", "resetPrompt", "getPrompts", "getBackups"}
Has(kind) == \E q \in net : q.live /\ q.kind = kind
Owned(o) == \E q \in net : q.live /\ q.kind \in Asking /\ "owner" \in DOMAIN q /\ q.owner = o

Common == {"id", "kind", "rest", "state", "live"}
Shape(q) ==
    /\ Common \subseteq DOMAIN q
    /\ q.kind = "putPrompt" =>
         {"key", "text", "todo", "done", "owner"} \subseteq DOMAIN q /\ q.owner \in {"one", "all"}
    /\ q.kind = "resetPrompt" => {"key", "owner"} \subseteq DOMAIN q /\ q.owner = "one"
    /\ q.kind = "getPrompts" => "owner" \in DOMAIN q /\ q.owner \in {"one", "all", "mount", "retry"}
    /\ q.kind = "getBackups" => "owner" \in DOMAIN q /\ q.owner \in {"mount", "delete"}

FormFields == DOMAIN NoForm \subseteq DOMAIN form
PromptFields == DOMAIN NoSection \subseteq DOMAIN prompts
BackupFields == DOMAIN NoBackups \subseteq DOMAIN backups

OfForm == /\ form.saving \subseteq {"N", "I"}
          /\ \A kind \in form.saving : Has(kind)
          /\ form.testing => Has("test")
OfPrompts == /\ prompts.busy # NoKey => Owned("one")
             /\ prompts.all => Owned("all")
OfBackups == /\ backups.saving => Has("putRetention")
             /\ backups.deleting => Has("deleteDump") \/ Owned("delete")

SavingInv ==
    /\ \A q \in net : Shape(q)
    /\ FormFields /\ PromptFields /\ BackupFields
    /\ OfForm /\ OfPrompts /\ OfBackups

\* What was under way still is.
Stays == /\ \A kind : Has(kind) => Has(kind)'
         /\ \A o : Owned(o) => Owned(o)'

\* The property, in these words.
LEMMA SavingMeans == SavingInv => SavingHasRequest
<1>1. \A kind : Has(kind) => Under({kind}) # {}
  BY DEF Has, Under
<1>2. \A o : Owned(o) => \E q \in Under(Asking) : "owner" \in DOMAIN q /\ q.owner = o
  BY DEF Owned, Under
<1>3. QED
  BY <1>1, <1>2 DEF SavingInv, OfForm, OfPrompts, OfBackups, SavingHasRequest, Asking

\* What a new request consists of.
LEMMA NewShape ==
    ASSUME NEW kind, NEW args, NEW rest, Common \cap DOMAIN args = {},
           NEW q, q = Request(kind, args, rest)
    PROVE  /\ Common \subseteq DOMAIN q /\ DOMAIN args \subseteq DOMAIN q
           /\ q.kind = kind /\ q.live
           /\ \A x \in DOMAIN args : q[x] = args[x]
<1>1. PICK id : q = Over(args, [id |-> id, kind |-> kind, rest |-> rest, state |-> "sent", live |-> TRUE])
  BY DEF Request
<1>2. PICK plain : plain = [id |-> id, kind |-> kind, rest |-> rest, state |-> "sent", live |-> TRUE]
  OBVIOUS
<1>3. DOMAIN plain = Common /\ plain.kind = kind /\ plain.live = TRUE
  BY <1>2 DEF Common
<1>4. q = [x \in DOMAIN args \cup DOMAIN plain |-> IF x \in DOMAIN args THEN args[x] ELSE plain[x]]
  BY <1>1, <1>2 DEF Over
<1>5. /\ DOMAIN q = DOMAIN args \cup Common
      /\ \A x \in DOMAIN q : q[x] = IF x \in DOMAIN args THEN args[x] ELSE plain[x]
  BY <1>3, <1>4
<1>6. "kind" \notin DOMAIN args /\ "live" \notin DOMAIN args /\ {"kind", "live"} \subseteq Common
  BY DEF Common
<1>7. QED
  BY <1>3, <1>5, <1>6

\* A request without an owner.
LEMMA PlainSent ==
    ASSUME NEW kind, kind \notin Asking, NEW args, NEW rest, Common \cap DOMAIN args = {}
    PROVE  LET q == Request(kind, args, rest) IN Shape(q) /\ q.live /\ q.kind = kind
<1>1. PICK q : q = Request(kind, args, rest)
  OBVIOUS
<1>2. Common \subseteq DOMAIN q /\ q.kind = kind /\ q.live
  BY <1>1, NewShape
<1>3. QED
  BY <1>1, <1>2 DEF Shape, Asking

\* A load of the prompts.
LEMMA LoadSent ==
    ASSUME NEW settled, NEW owner \in {"one", "all", "mount", "retry"}, NEW rest
    PROVE  LET q == Load(settled, owner, rest)
           IN Shape(q) /\ q.live /\ q.kind = "getPrompts" /\ "owner" \in DOMAIN q /\ q.owner = owner
<1>1. PICK args : args = [settled |-> settled, owner |-> owner]
  OBVIOUS
<1>2. DOMAIN args = {"settled", "owner"} /\ args.owner = owner
  BY <1>1
<1>3. PICK q : q = Request("getPrompts", args, rest)
  OBVIOUS
<1>4. /\ Common \subseteq DOMAIN q /\ DOMAIN args \subseteq DOMAIN q /\ q.kind = "getPrompts" /\ q.live
      /\ \A x \in DOMAIN args : q[x] = args[x]
  <2>1. Common \cap DOMAIN args = {}
    BY <1>2 DEF Common
  <2>2. QED
    BY <1>3, <2>1, NewShape
<1>5. Shape(q) /\ "owner" \in DOMAIN q /\ q.owner = owner
  BY <1>2, <1>4 DEF Shape
<1>6. q = Load(settled, owner, rest)
  BY <1>1, <1>3 DEF Load
<1>7. QED
  BY <1>4, <1>5, <1>6

\* A save of a prompt.
LEMMA PutSent ==
    ASSUME NEW args, DOMAIN args = {"key", "text", "todo", "done", "owner"},
           args.owner \in {"one", "all"}, NEW rest, NEW q, q = Request("putPrompt", args, rest)
    PROVE  /\ Shape(q) /\ q.live /\ q.kind = "putPrompt"
           /\ "owner" \in DOMAIN q /\ q.owner = args.owner
<1>1. /\ Common \subseteq DOMAIN q /\ DOMAIN args \subseteq DOMAIN q /\ q.kind = "putPrompt" /\ q.live
      /\ \A x \in DOMAIN args : q[x] = args[x]
  <2>1. Common \cap DOMAIN args = {}
    BY DEF Common
  <2>2. QED
    BY <2>1, NewShape
<1>2. Shape(q) /\ "owner" \in DOMAIN q /\ q.owner = args.owner
  BY <1>1 DEF Shape
<1>3. QED
  BY <1>1, <1>2

\* A reset of a prompt.
LEMMA ResetSent ==
    ASSUME NEW k, NEW rest
    PROVE  LET q == Request("resetPrompt", [key |-> k, owner |-> "one"], rest)
           IN Shape(q) /\ q.live /\ q.kind = "resetPrompt" /\ "owner" \in DOMAIN q /\ q.owner = "one"
<1>1. PICK args : args = [key |-> k, owner |-> "one"]
  OBVIOUS
<1>2. DOMAIN args = {"key", "owner"} /\ args.owner = "one"
  BY <1>1
<1>3. PICK q : q = Request("resetPrompt", args, rest)
  OBVIOUS
<1>4. /\ Common \subseteq DOMAIN q /\ DOMAIN args \subseteq DOMAIN q /\ q.kind = "resetPrompt" /\ q.live
      /\ \A x \in DOMAIN args : q[x] = args[x]
  <2>1. Common \cap DOMAIN args = {}
    BY <1>2 DEF Common
  <2>2. QED
    BY <1>3, <2>1, NewShape
<1>5. Shape(q) /\ "owner" \in DOMAIN q /\ q.owner = "one"
  BY <1>2, <1>4 DEF Shape
<1>6. QED
  BY <1>1, <1>3, <1>4, <1>5

\* A load of the backups.
LEMMA BackupsSent ==
    ASSUME NEW owner \in {"mount", "delete"}, NEW rest
    PROVE  LET q == Request("getBackups", [owner |-> owner], rest)
           IN Shape(q) /\ q.live /\ q.kind = "getBackups" /\ "owner" \in DOMAIN q /\ q.owner = owner
<1>1. PICK args : args = [owner |-> owner]
  OBVIOUS
<1>2. DOMAIN args = {"owner"} /\ args.owner = owner
  BY <1>1
<1>3. PICK q : q = Request("getBackups", args, rest)
  OBVIOUS
<1>4. /\ Common \subseteq DOMAIN q /\ DOMAIN args \subseteq DOMAIN q /\ q.kind = "getBackups" /\ q.live
      /\ \A x \in DOMAIN args : q[x] = args[x]
  <2>1. Common \cap DOMAIN args = {}
    BY <1>2 DEF Common
  <2>2. QED
    BY <1>3, <2>1, NewShape
<1>5. Shape(q) /\ "owner" \in DOMAIN q /\ q.owner = owner
  BY <1>2, <1>4 DEF Shape
<1>6. QED
  BY <1>1, <1>3, <1>4, <1>5

-----------------------------------------------------------------------------
(* Requests that come, change and go.                                      *)

\* Sending leaves what is under way.
LEMMA SentStays == ASSUME net \subseteq net' PROVE Stays
BY DEF Stays, Has, Owned

\* p is q, further on.
Follows(p, q) ==
    /\ DOMAIN q \subseteq DOMAIN p /\ p.kind = q.kind /\ p.live = q.live
    /\ "owner" \in DOMAIN q => p.owner = q.owner

\* A request that goes on keeps its shape and what it stands for.
LEMMA FollowedStays ==
    ASSUME NEW q \in net, Shape(q), NEW p, Follows(p, q), net' = (net \ {q}) \cup {p}
    PROVE  Shape(p) /\ Stays
<1>1. Shape(p)
  BY DEF Follows, Shape, Common
<1>2. QED
  BY <1>1 DEF Stays, Has, Owned, Follows

\* A request that is gone is missed by its own kind and owner only.
LEMMA GoneStays ==
    ASSUME NEW q \in net, net \ {q} \subseteq net'
    PROVE  /\ \A kind : kind # q.kind => (Has(kind) => Has(kind)')
           /\ \A o : ~(q.live /\ q.kind \in Asking /\ "owner" \in DOMAIN q /\ q.owner = o)
                        => (Owned(o) => Owned(o)')
BY DEF Has, Owned

\* The server's part: a request goes on, or its page is gone.
LEMMA ServedStays ==
    ASSUME SavingInv, NEW q \in net, NEW s, NEW result,
           DOMAIN result \subseteq {"settings", "prompts", "backups"}, Served(q, s, result)
    PROVE  (\A p \in net' : Shape(p)) /\ Stays
<1>1. Shape(q) /\ \A p \in net : Shape(p)
  BY DEF SavingInv
<1>2. CASE q.live
  <2>1. PICK base : base = [q EXCEPT !.state = s]
    OBVIOUS
  <2>2. DOMAIN base = DOMAIN q /\ \A x \in DOMAIN q : x # "state" => base[x] = q[x]
    BY <2>1
  <2>3. PICK p : p = Over(result, base)
    OBVIOUS
  <2>4. p = [x \in DOMAIN result \cup DOMAIN base |-> IF x \in DOMAIN result THEN result[x] ELSE base[x]]
    BY <2>3 DEF Over
  <2>5. /\ DOMAIN p = DOMAIN result \cup DOMAIN q
        /\ \A x \in DOMAIN p : p[x] = IF x \in DOMAIN result THEN result[x] ELSE base[x]
    BY <2>2, <2>4
  <2>6. Follows(p, q)
    <3>1. {"kind", "live"} \subseteq DOMAIN q
      BY <1>1 DEF Shape, Common
    <3>2. {"kind", "live", "owner"} \cap DOMAIN result = {}
      OBVIOUS
    <3>3. QED
      BY <2>2, <2>5, <3>1, <3>2 DEF Follows
  <2>7. net' = (net \ {q}) \cup {p}
    BY <1>2, <2>1, <2>3 DEF Served
  <2>8. QED
    BY <1>1, <2>6, <2>7, FollowedStays
<1>3. CASE ~q.live
  <2>1. net' = net \ {q}
    BY <1>3 DEF Served
  <2>2. QED
    BY <1>1, <1>3, <2>1 DEF Stays, Has, Owned
<1>4. QED
  BY <1>2, <1>3

-----------------------------------------------------------------------------
(* Steps.                                                                  *)

\* A section whose controls are not set is as good as before.
LEMMA Calm ==
    ASSUME SavingInv, Stays
    PROVE  /\ FormFields' /\ form'.saving \subseteq form.saving /\ (form'.testing => form.testing)
                => OfForm'
           /\ PromptFields' /\ (prompts'.busy = prompts.busy \/ prompts'.busy = NoKey)
              /\ (prompts'.all => prompts.all) => OfPrompts'
           /\ BackupFields' /\ (backups'.saving => backups.saving)
              /\ (backups'.deleting => backups.deleting) => OfBackups'
BY DEF SavingInv, Stays, OfForm, OfPrompts, OfBackups

\* A section that is left alone.
LEMMA Alone ==
    ASSUME SavingInv, Stays
    PROVE  /\ form' = form => FormFields' /\ OfForm'
           /\ prompts' = prompts => PromptFields' /\ OfPrompts'
           /\ backups' = backups => BackupFields' /\ OfBackups'
<1>1. /\ form' = form => FormFields'
      /\ prompts' = prompts => PromptFields'
      /\ backups' = backups => BackupFields'
  BY DEF SavingInv, FormFields, PromptFields, BackupFields
<1>2. QED
  BY <1>1, Calm

\* The fields there are.
LEMMA Fields ==
    /\ DOMAIN NoForm = {"state", "shown", "saved", "dirtyN", "dirtyI", "saving", "testing"}
    /\ DOMAIN NoSection = {"list", "drafts", "busy", "all"}
    /\ DOMAIN NoBackups = {"state", "retention", "dumps", "draft", "saving", "pending", "deleting"}
BY DEF NoForm, NoSection, NoBackups

\* A step that sends at most one request, well shaped.
LEMMA SendsShaped ==
    ASSUME SavingInv, NEW r, Shape(r), net' = net \/ net' = net \cup {r}
    PROVE  Stays /\ \A p \in net' : Shape(p)
BY SentStays DEF SavingInv

\* Opening the page, and leaving it: no control says anything yet.
LEMMA OpenLeaveSaving ==
    ASSUME SavingInv, Open \/ \E how, yes : Leave(how, yes)
    PROVE  SavingInv'
<1>1. CASE Open
  <2>1. PICK r : r = Request("getSettings", << >>, << >>)
    OBVIOUS
  <2>2. Shape(r)
    <3>1. Common \cap DOMAIN << >> = {}
      OBVIOUS
    <3>2. QED
      BY <2>1, <3>1, PlainSent DEF Asking
  <2>3. net' = net \cup {r} /\ form' = NoForm /\ UNCHANGED <<prompts, backups>>
    BY <1>1, <2>1 DEF Open
  <2>4. Stays /\ \A p \in net' : Shape(p)
    BY <2>2, <2>3, SendsShaped
  <2>5. FormFields' /\ OfForm'
    BY <2>3 DEF FormFields, OfForm, NoForm
  <2>6. QED
    BY <2>3, <2>4, <2>5, Alone DEF SavingInv
<1>2. ASSUME NEW how, NEW yes, Leave(how, yes) PROVE SavingInv'
  <2>1. /\ form' = [NoForm EXCEPT !.state = "left"] /\ prompts' = NoSection /\ backups' = NoBackups
        /\ net' = Orphaned
    BY <1>2 DEF Leave
  <2>2. FormFields' /\ OfForm' /\ PromptFields' /\ OfPrompts' /\ BackupFields' /\ OfBackups'
    BY <2>1
    DEF FormFields, OfForm, PromptFields, OfPrompts, BackupFields, OfBackups, NoForm, NoSection, NoBackups
  <2>3. ASSUME NEW p \in net' PROVE Shape(p)
    <3>1. PICK q \in net : p = [q EXCEPT !.live = FALSE]
      BY <2>1, <2>3 DEF Orphaned
    <3>2. Shape(q)
      BY DEF SavingInv
    <3>3. DOMAIN p = DOMAIN q /\ \A x \in DOMAIN q : x # "live" => p[x] = q[x]
      BY <3>1
    <3>4. QED
      BY <3>2, <3>3 DEF Shape, Common
  <2>4. QED
    BY <2>2, <2>3 DEF SavingInv
<1>3. QED
  BY <1>1, <1>2

\* A change of the form leaves its controls alone.
LEMMA ChangeSaving ==
    ASSUME SavingInv, NEW f, NEW v, HandleChange(f, v)
    PROVE  SavingInv'
<1>1. PICK s, d : form' = [form EXCEPT !.shown = s, !.dirtyI = d] \/ form' = [form EXCEPT !.shown = s, !.dirtyN = d]
  BY DEF HandleChange
<1>2. FormFields
  BY DEF SavingInv
<1>3. FormFields' /\ form'.saving = form.saving /\ form'.testing = form.testing
  BY <1>1, <1>2, Fields DEF FormFields
<1>4. UNCHANGED <<net, prompts, backups>>
  BY DEF HandleChange
<1>5. Stays
  BY <1>4, SentStays
<1>6. OfForm'
  BY <1>3, <1>5, Calm
<1>7. QED
  BY <1>3, <1>4, <1>5, <1>6, Alone DEF SavingInv

\* The settings form.
LEMMA EditSettingsSaving == ASSUME SavingInv, EditSettings PROVE SavingInv'
<1>1. CASE SendTest
  <2>1. PICK r : r = Request("test", << >>, << >>)
    OBVIOUS
  <2>2. Shape(r) /\ r.live /\ r.kind = "test"
    <3>1. Common \cap DOMAIN << >> = {}
      OBVIOUS
    <3>2. QED
      BY <2>1, <3>1, PlainSent DEF Asking
  <2>3. /\ net' = net \cup {r} /\ form' = [form EXCEPT !.testing = TRUE]
        /\ UNCHANGED <<prompts, backups>>
    BY <1>1, <2>1 DEF SendTest
  <2>4. Stays /\ \A p \in net' : Shape(p)
    BY <2>2, <2>3, SendsShaped
  <2>5. FormFields' /\ form'.saving = form.saving
    BY <2>3, Fields DEF FormFields, SavingInv
  <2>6. Has("test")'
    BY <2>2, <2>3 DEF Has
  <2>7. OfForm'
    BY <2>4, <2>5, <2>6 DEF SavingInv, OfForm, Stays
  <2>8. QED
    BY <2>3, <2>4, <2>5, <2>7, Alone DEF SavingInv
<1>2. QED
  BY <1>1, ChangeSaving DEF EditSettings, TypeText, EditInPlace, AddEmail, RemoveEmail, PickModel

\* A prompt is busy from its request on.
LEMMA EditPromptsSaving == ASSUME SavingInv, EditPrompts PROVE SavingInv'
<1>1. ASSUME NEW k \in Key, NEW t, TypePrompt(k, t) PROVE SavingInv'
  <2>1. PICK d : prompts' = [prompts EXCEPT !.drafts = d]
    BY <1>1 DEF TypePrompt
  <2>2. UNCHANGED <<net, form, backups>>
    BY <1>1 DEF TypePrompt
  <2>3. PromptFields' /\ prompts'.busy = prompts.busy /\ prompts'.all = prompts.all
    BY <2>1, Fields DEF SavingInv, PromptFields
  <2>4. Stays
    BY <2>2, SentStays
  <2>5. QED
    BY <2>2, <2>3, <2>4, Calm, Alone DEF SavingInv
<1>2. ASSUME NEW k \in Key, NEW r, Shape(r), r.live, r.kind \in Asking, "owner" \in DOMAIN r, r.owner = "one",
             net' = net \cup {r}, prompts' = [prompts EXCEPT !.busy = k], UNCHANGED <<form, backups>>
      PROVE SavingInv'
  <2>1. Stays /\ \A p \in net' : Shape(p)
    BY <1>2, SendsShaped
  <2>2. PromptFields' /\ prompts'.all = prompts.all
    BY <1>2, Fields DEF SavingInv, PromptFields
  <2>3. Owned("one")'
    BY <1>2 DEF Owned
  <2>4. OfPrompts'
    BY <2>1, <2>2, <2>3 DEF SavingInv, OfPrompts, Stays
  <2>5. QED
    BY <1>2, <2>1, <2>2, <2>4, Alone DEF SavingInv
<1>3. ASSUME NEW k \in Key, SavePrompt(k) PROVE SavingInv'
  <2>1. PICK args : args = [key |-> k, text |-> prompts.drafts[k], todo |-> << >>, done |-> {},
                            owner |-> "one"]
    OBVIOUS
  <2>2. DOMAIN args = {"key", "text", "todo", "done", "owner"} /\ args.owner = "one"
    BY <2>1
  <2>3. PICK r : r = Request("putPrompt", args, << >>)
    OBVIOUS
  <2>4. Shape(r) /\ r.live /\ r.kind \in Asking /\ "owner" \in DOMAIN r /\ r.owner = "one"
    BY <2>2, <2>3, PutSent DEF Asking
  <2>5. net' = net \cup {r} /\ prompts' = [prompts EXCEPT !.busy = k] /\ UNCHANGED <<form, backups>>
    BY <1>3, <2>1, <2>3 DEF SavePrompt
  <2>6. QED
    BY <1>2, <2>4, <2>5
<1>4. ASSUME NEW k \in Key, ResetPrompt(k) PROVE SavingInv'
  <2>1. PICK r : r = Request("resetPrompt", [key |-> k, owner |-> "one"], << >>)
    OBVIOUS
  <2>2. Shape(r) /\ r.live /\ r.kind \in Asking /\ "owner" \in DOMAIN r /\ r.owner = "one"
    BY <2>1, ResetSent DEF Asking
  <2>3. net' = net \cup {r} /\ prompts' = [prompts EXCEPT !.busy = k] /\ UNCHANGED <<form, backups>>
    BY <1>4, <2>1 DEF ResetPrompt
  <2>4. QED
    BY <1>2, <2>2, <2>3
<1>5. QED
  BY <1>1, <1>3, <1>4 DEF EditPrompts

\* The retention is saved by the editor's button and by the bar.
LEMMA RetentionSaving ==
    ASSUME SavingInv, NEW rest, PutRetention(rest), UNCHANGED <<form, prompts>>
    PROVE  SavingInv'
<1>1. PICK args : args = [retention |-> backups.draft]
  OBVIOUS
<1>2. PICK r : r = Request("putRetention", args, rest)
  OBVIOUS
<1>3. Shape(r) /\ r.live /\ r.kind = "putRetention"
  <2>1. DOMAIN args = {"retention"}
    BY <1>1
  <2>2. Common \cap DOMAIN args = {}
    BY <2>1 DEF Common
  <2>3. QED
    BY <1>2, <2>2, PlainSent DEF Asking
<1>4. net' = net \cup {r} /\ backups' = [backups EXCEPT !.saving = TRUE]
  BY <1>1, <1>2 DEF PutRetention
<1>5. Stays /\ \A p \in net' : Shape(p)
  BY <1>3, <1>4, SendsShaped
<1>6. BackupFields' /\ backups'.deleting = backups.deleting
  BY <1>4, Fields DEF SavingInv, BackupFields
<1>7. Has("putRetention")'
  BY <1>3, <1>4 DEF Has
<1>8. OfBackups'
  BY <1>5, <1>6, <1>7 DEF SavingInv, OfBackups, Stays
<1>9. QED
  BY <1>5, <1>6, <1>8, Alone DEF SavingInv

\* The backups.
LEMMA EditBackupsSaving == ASSUME SavingInv, EditBackups PROVE SavingInv'
<1>1. ASSUME NEW b, backups' = [backups EXCEPT !.draft = b] \/ backups' = [backups EXCEPT !.pending = b],
             UNCHANGED <<form, prompts, net>>
      PROVE SavingInv'
  <2>1. BackupFields' /\ backups'.saving = backups.saving /\ backups'.deleting = backups.deleting
    BY <1>1, Fields DEF SavingInv, BackupFields
  <2>2. Stays
    BY <1>1, SentStays
  <2>3. QED
    BY <1>1, <2>1, <2>2, Calm, Alone DEF SavingInv
<1>2. CASE ConfirmDelete
  <2>1. PICK args : args = [dump |-> backups.pending]
    OBVIOUS
  <2>2. PICK r : r = Request("deleteDump", args, << >>)
    OBVIOUS
  <2>3. Shape(r) /\ r.live /\ r.kind = "deleteDump"
    <3>1. DOMAIN args = {"dump"}
      BY <2>1
    <3>2. Common \cap DOMAIN args = {}
      BY <3>1 DEF Common
    <3>3. QED
      BY <2>2, <3>2, PlainSent DEF Asking
  <2>4. /\ net' = net \cup {r} /\ backups' = [backups EXCEPT !.deleting = TRUE]
        /\ UNCHANGED <<form, prompts>>
    BY <1>2, <2>1, <2>2 DEF ConfirmDelete
  <2>5. Stays /\ \A p \in net' : Shape(p)
    BY <2>3, <2>4, SendsShaped
  <2>6. BackupFields' /\ backups'.saving = backups.saving
    BY <2>4, Fields DEF SavingInv, BackupFields
  <2>7. Has("deleteDump")'
    BY <2>3, <2>4 DEF Has
  <2>8. OfBackups'
    BY <2>5, <2>6, <2>7 DEF SavingInv, OfBackups, Stays
  <2>9. QED
    BY <2>4, <2>5, <2>6, <2>8, Alone DEF SavingInv
<1>3. CASE SaveRetention
  BY <1>3, RetentionSaving DEF SaveRetention
<1>4. QED
  BY <1>1, <1>2, <1>3 DEF EditBackups, TypeRetention, CancelDelete, RequestDelete

\* The load that is tried again.
LEMMA RetryLoadSaving == ASSUME SavingInv, RetryLoad PROVE SavingInv'
<1>1. PICK r : r = Load({}, "retry", << >>)
  OBVIOUS
<1>2. Shape(r)
  BY <1>1, LoadSent
<1>3. net' = net \cup {r} /\ UNCHANGED <<form, prompts, backups>>
  BY <1>1 DEF RetryLoad
<1>4. QED
  BY <1>2, <1>3, SendsShaped, Alone DEF SavingInv

\* Discarding changes what is shown, not what is under way.
LEMMA BarDiscardSaving == ASSUME SavingInv, BarDiscard PROVE SavingInv'
<1>1. UNCHANGED net
  BY DEF BarDiscard
<1>2. Stays
  BY <1>1, SentStays
<1>3. FormFields' /\ form'.saving = form.saving /\ form'.testing = form.testing
  <2>1. PICK shown : form' = [[form EXCEPT !.shown = shown] EXCEPT !.dirtyN = << >>, !.dirtyI = << >>]
    BY DEF BarDiscard, Revert
  <2>2. QED
    BY <2>1, Fields DEF SavingInv, FormFields
<1>4. PromptFields' /\ prompts'.busy = prompts.busy /\ prompts'.all = prompts.all
  <2>1. prompts' = prompts \/ prompts' = [prompts EXCEPT !.drafts = NoDraft]
    BY DEF BarDiscard
  <2>2. QED
    BY <2>1, Fields DEF SavingInv, PromptFields
<1>5. BackupFields' /\ backups'.saving = backups.saving /\ backups'.deleting = backups.deleting
  <2>1. backups' = backups \/ backups' = [backups EXCEPT !.draft = backups.retention]
    BY DEF BarDiscard
  <2>2. QED
    BY <2>1, Fields DEF SavingInv, BackupFields
<1>6. OfForm' /\ OfPrompts' /\ OfBackups'
  BY <1>2, <1>3, <1>4, <1>5, Calm
<1>7. QED
  BY <1>1, <1>3, <1>4, <1>5, <1>6 DEF SavingInv

\* A save of the settings says so in the form.
LEMMA SaveSettingsSaving ==
    ASSUME SavingInv, NEW kind \in {"N", "I"}, NEW patch, NEW over, NEW rest,
           SaveSettings(kind, patch, over, rest), UNCHANGED <<prompts, backups>>
    PROVE  SavingInv'
<1>1. CASE patch = << >>
  <2>1. UNCHANGED <<form, net>>
    BY <1>1 DEF SaveSettings
  <2>2. Stays
    BY <2>1, SentStays
  <2>3. QED
    BY <2>1, <2>2, Alone DEF SavingInv
<1>2. CASE patch # << >>
  <2>1. PICK args : args = [patch |-> patch, over |-> over]
    OBVIOUS
  <2>2. PICK r : r = Request(kind, args, rest)
    OBVIOUS
  <2>3. Shape(r) /\ r.live /\ r.kind = kind
    <3>1. DOMAIN args = {"patch", "over"}
      BY <2>1
    <3>2. Common \cap DOMAIN args = {}
      BY <3>1 DEF Common
    <3>3. QED
      BY <2>2, <3>2, PlainSent DEF Asking
  <2>4. net' = net \cup {r} /\ form' = [form EXCEPT !.saving = @ \cup {kind}]
    BY <1>2, <2>1, <2>2 DEF SaveSettings
  <2>5. Stays /\ \A p \in net' : Shape(p)
    BY <2>3, <2>4, SendsShaped
  <2>6. FormFields' /\ form'.saving = form.saving \cup {kind} /\ form'.testing = form.testing
    BY <2>4, Fields DEF SavingInv, FormFields
  <2>7. Has(kind)'
    BY <2>3, <2>4 DEF Has
  <2>8. OfForm'
    BY <2>5, <2>6, <2>7 DEF SavingInv, OfForm, Stays
  <2>9. QED
    BY <2>5, <2>6, <2>8, Alone DEF SavingInv
<1>3. QED
  BY <1>1, <1>2

\* Saving all prompts is under way until its last request is answered.
LEMMA SaveAllSaving ==
    ASSUME SavingInv, NEW rest, SaveAllPrompts(rest), UNCHANGED <<form, backups>>
    PROVE  SavingInv'
<1>1. CASE UNCHANGED <<prompts, net>>
  <2>1. Stays
    BY <1>1, SentStays
  <2>2. QED
    BY <1>1, <2>1, Alone DEF SavingInv
<1>2. CASE ~UNCHANGED <<prompts, net>>
  <2>1. PICK r : r = IF EditedIn(prompts) = {} THEN Load({}, "all", rest) ELSE PutNext(EditedIn(prompts), {}, rest)
    OBVIOUS
  <2>2. net' = net \cup {r} /\ prompts' = [prompts EXCEPT !.all = TRUE]
    BY <1>2, <2>1 DEF SaveAllPrompts
  <2>3. Shape(r) /\ r.live /\ r.kind \in Asking /\ "owner" \in DOMAIN r /\ r.owner = "all"
    <3>1. CASE EditedIn(prompts) = {}
      BY <2>1, <3>1, LoadSent DEF Asking
    <3>2. CASE EditedIn(prompts) # {}
      <4> DEFINE todo == EditedIn(prompts)
                 k == First(todo)
                 others == [j \in todo \ {k} |-> prompts.drafts[j]]
      <4>1. PICK args : args = [key |-> k, text |-> prompts.drafts[k], todo |-> others, done |-> {},
                                owner |-> "all"]
        OBVIOUS
      <4>2. r = Request("putPrompt", args, rest)
        BY <2>1, <3>2, <4>1 DEF PutNext
      <4>3. DOMAIN args = {"key", "text", "todo", "done", "owner"} /\ args.owner = "all"
        BY <4>1
      <4>4. QED
        BY <4>2, <4>3, PutSent DEF Asking
    <3>3. QED
      BY <3>1, <3>2
  <2>4. Stays /\ \A p \in net' : Shape(p)
    BY <2>2, <2>3, SendsShaped
  <2>5. PromptFields' /\ prompts'.busy = prompts.busy
    BY <2>2, Fields DEF SavingInv, PromptFields
  <2>6. Owned("all")'
    BY <2>2, <2>3 DEF Owned
  <2>7. OfPrompts'
    BY <2>4, <2>5, <2>6 DEF SavingInv, OfPrompts, Stays
  <2>8. QED
    BY <2>4, <2>5, <2>7, Alone DEF SavingInv
<1>3. QED
  BY <1>1, <1>2

\* The bar's next entry.
LEMMA BarStartSaving == ASSUME SavingInv, BarStart PROVE SavingInv'
<1>1. PICK e, rest :
        \/ SaveSettings("N", e.dirtyN, e.dirtyI, rest) /\ UNCHANGED <<prompts, backups>>
        \/ SaveSettings("I", e.dirtyI, e.dirtyN, rest) /\ UNCHANGED <<prompts, backups>>
        \/ SaveAllPrompts(rest) /\ UNCHANGED <<form, backups>>
        \/ PutRetention(rest) /\ UNCHANGED <<form, prompts>>
  BY DEF BarStart
<1>2. QED
  BY <1>1, SaveSettingsSaving, SaveAllSaving, RetentionSaving

\* The server and the network.
LEMMA ServeSaving ==
    ASSUME SavingInv, NEW q \in net, Serve(q) \/ \E s : Fail(q, s)
    PROVE  SavingInv'
<1>1. UNCHANGED <<form, prompts, backups>>
  BY DEF Serve, Fail
<1>2. PICK s, result : DOMAIN result \subseteq {"settings", "prompts", "backups"} /\ Served(q, s, result)
  <2>1. /\ \A x : DOMAIN [settings |-> x] = {"settings"} /\ DOMAIN [prompts |-> x] = {"prompts"}
                  /\ DOMAIN [backups |-> x] = {"backups"}
        /\ DOMAIN << >> = {}
    OBVIOUS
  <2>2. \A s : Fail(q, s) => Served(q, s, << >>)
    BY DEF Fail
  <2>3. Serve(q) => \/ \E x : Served(q, "ok", [settings |-> x])
                    \/ \E x : Served(q, "ok", [prompts |-> x])
                    \/ \E x : Served(q, "ok", [backups |-> x])
                    \/ Served(q, "ok", << >>)
    BY DEF Serve
  <2>4. QED
    BY <2>1, <2>2, <2>3
<1>3. (\A p \in net' : Shape(p)) /\ Stays
  BY <1>2, ServedStays
<1>4. QED
  BY <1>1, <1>3, Alone DEF SavingInv

\* Whom a request keeps waiting.
MeantFor(q, o) == q.kind \in Asking /\ "owner" \in DOMAIN q /\ q.owner = o

\* When a request is gone, the controls it kept waiting have to be released.
LEMMA GoneCalm ==
    ASSUME SavingInv, NEW q \in net, net \ {q} \subseteq net'
    PROVE  /\ FormFields' /\ form'.saving \subseteq form.saving \ {q.kind}
              /\ (form'.testing => form.testing /\ q.kind # "test") => OfForm'
           /\ PromptFields' /\ (prompts'.busy # NoKey => prompts'.busy = prompts.busy /\ ~MeantFor(q, "one"))
              /\ (prompts'.all => prompts.all /\ ~MeantFor(q, "all")) => OfPrompts'
           /\ BackupFields' /\ (backups'.saving => backups.saving /\ q.kind # "putRetention")
              /\ (backups'.deleting =>
                     backups.deleting /\ q.kind # "deleteDump" /\ ~MeantFor(q, "delete")) => OfBackups'
<1>1. /\ \A kind : kind # q.kind => (Has(kind) => Has(kind)')
      /\ \A o : ~MeantFor(q, o) => (Owned(o) => Owned(o)')
  BY GoneStays DEF MeantFor
<1>2. QED
  BY <1>1 DEF SavingInv, OfForm, OfPrompts, OfBackups

\* A section that the request has nothing to do with.
LEMMA GoneAlone ==
    ASSUME SavingInv, NEW q \in net, net \ {q} \subseteq net'
    PROVE  /\ form' = form /\ q.kind \notin {"N", "I", "test"} => FormFields' /\ OfForm'
           /\ prompts' = prompts /\ ~MeantFor(q, "one") /\ ~MeantFor(q, "all")
                => PromptFields' /\ OfPrompts'
           /\ backups' = backups /\ q.kind \notin {"putRetention", "deleteDump"} /\ ~MeantFor(q, "delete")
                => BackupFields' /\ OfBackups'
<1>1. /\ form' = form => FormFields'
      /\ prompts' = prompts => PromptFields'
      /\ backups' = backups => BackupFields'
  BY DEF SavingInv, FormFields, PromptFields, BackupFields
<1>2. q.kind \notin {"N", "I"} => form.saving \subseteq form.saving \ {q.kind}
  BY DEF SavingInv, OfForm
<1>3. QED
  BY <1>1, <1>2, GoneCalm

\* A request for the prompts may be followed by another of the same owner.
LEMMA HandedOn ==
    ASSUME SavingInv, NEW q \in net, q.kind \in Asking, "owner" \in DOMAIN q,
           NEW p, Shape(p), p.live \/ p.live = q.live, p.kind \in Asking, "owner" \in DOMAIN p, p.owner = q.owner,
           net' = (net \ {q}) \cup {p}, UNCHANGED <<form, prompts, backups>>
    PROVE  SavingInv'
<1>1. \A r \in net' : Shape(r)
  BY DEF SavingInv
<1>2. \A o : Owned(o) => Owned(o)'
  BY DEF Owned
<1>3. \A kind : kind \notin Asking => (Has(kind) => Has(kind)')
  BY DEF Has
<1>4. {"N", "I", "test", "putRetention", "deleteDump"} \cap Asking = {}
  BY DEF Asking
<1>5. OfForm' /\ OfPrompts' /\ OfBackups'
  BY <1>2, <1>3, <1>4 DEF SavingInv, OfForm, OfPrompts, OfBackups
<1>6. QED
  BY <1>1, <1>5 DEF SavingInv, FormFields, PromptFields, BackupFields

\* The end of a save releases the control of its owner.
LEMMA FinishReleases ==
    ASSUME NEW p, DOMAIN NoSection \subseteq DOMAIN p, NEW owner
    PROVE  /\ DOMAIN NoSection \subseteq DOMAIN Finish(p, owner)
           /\ Finish(p, owner).busy # NoKey => Finish(p, owner).busy = p.busy /\ owner # "one"
           /\ Finish(p, owner).all => p.all /\ owner # "all"
<1>1. PICK b, a : /\ b = IF owner = "one" THEN NoKey ELSE p.busy
                  /\ a = IF owner = "all" THEN FALSE ELSE p.all
  OBVIOUS
<1>2. Finish(p, owner) = [p EXCEPT !.busy = b, !.all = a]
  BY <1>1, Fields DEF Finish
<1>3. {"busy", "all"} \subseteq DOMAIN p
  BY Fields
<1>4. DOMAIN Finish(p, owner) = DOMAIN p /\ Finish(p, owner).busy = b /\ Finish(p, owner).all = a
  BY <1>2, <1>3
<1>5. QED
  BY <1>1, <1>4

\* A request for the prompts that ends here.
LEMMA PromptsEnd ==
    ASSUME SavingInv, NEW q \in net, q.kind \in {"putPrompt", "resetPrompt", "getPrompts"},
           NEW p, DOMAIN NoSection \subseteq DOMAIN p, p.busy = prompts.busy, p.all = prompts.all,
           prompts' = Finish(p, q.owner), net' = net \ {q}, UNCHANGED <<form, backups>>
    PROVE  SavingInv'
<1>1. Shape(q) /\ \A r \in net' : Shape(r)
  BY DEF SavingInv
<1>2. /\ PromptFields' /\ (prompts'.busy # NoKey => prompts'.busy = prompts.busy /\ q.owner # "one")
      /\ (prompts'.all => prompts.all /\ q.owner # "all")
  BY FinishReleases DEF PromptFields
<1>3. OfPrompts'
  BY <1>2, GoneCalm DEF MeantFor
<1>4. q.owner # "delete" /\ q.kind \notin {"N", "I", "test", "putRetention", "deleteDump"}
  BY <1>1 DEF Shape
<1>5. FormFields' /\ OfForm' /\ BackupFields' /\ OfBackups'
  BY <1>4, GoneAlone DEF MeantFor
<1>6. QED
  BY <1>1, <1>2, <1>3, <1>5 DEF SavingInv

\* Answers of the settings routes.
LEMMA FormAnswerSaving ==
    ASSUME SavingInv, NEW q \in net,
           \/ q.kind = "getSettings" /\ AnswerSettings(q)
           \/ q.kind \in {"N", "I"} /\ AnswerSave(q)
           \/ q.kind = "test" /\ AnswerTest(q)
    PROVE  SavingInv'
<1>1. ~MeantFor(q, "one") /\ ~MeantFor(q, "all") /\ ~MeantFor(q, "delete")
  BY DEF MeantFor, Asking
<1>2. UNCHANGED <<prompts, backups>>
  BY DEF AnswerSettings, AnswerSave, AnswerTest
<1>3. net \ {q} \subseteq net' /\ \A p \in net' : Shape(p)
  <2>1. CASE net' = net \ {q}
    BY <2>1 DEF SavingInv
  <2>2. PICK a, b : a = Load({}, "mount", << >>) /\ b = Request("getBackups", [owner |-> "mount"], << >>)
    OBVIOUS
  <2>3. Shape(a) /\ Shape(b)
    BY <2>2, LoadSent, BackupsSent
  <2>4. CASE net' = (net \ {q}) \cup {a, b}
    BY <2>3, <2>4 DEF SavingInv
  <2>5. QED
    BY <2>1, <2>2, <2>4 DEF AnswerSettings, AnswerSave, AnswerTest
<1>4. PromptFields' /\ OfPrompts' /\ BackupFields' /\ OfBackups'
  BY <1>1, <1>2, <1>3, GoneAlone
<1>5. FormFields' /\ form'.saving \subseteq form.saving \ {q.kind} /\ (form'.testing => form.testing /\ q.kind # "test")
  <2>1. CASE q.kind = "getSettings" /\ AnswerSettings(q)
    <3>1. PICK st : st = IF q.state = "refused" THEN "broken" ELSE form.state
      OBVIOUS
    <3>4. {"state", "shown", "saved", "saving", "testing"} \subseteq DOMAIN form
      BY Fields DEF SavingInv, FormFields
    <3>5. \/ form' = [form EXCEPT !.state = "ready", !.shown = q.settings, !.saved = q.settings]
          \/ form' = [form EXCEPT !.state = st]
      BY <2>1, <3>1, <3>4 DEF AnswerSettings
    <3>6. DOMAIN form' = DOMAIN form /\ form'.saving = form.saving /\ form'.testing = form.testing
      BY <3>4, <3>5
    <3>2. FormFields' /\ form'.saving = form.saving /\ form'.testing = form.testing
      BY <3>6 DEF SavingInv, FormFields
    <3>3. QED
      BY <2>1, <3>2 DEF SavingInv, OfForm
  <2>2. CASE q.kind \in {"N", "I"} /\ AnswerSave(q)
    <3>1. PICK saving : saving = form.saving \ {q.kind}
      OBVIOUS
    <3>4. ASSUME q.state # "ok"
          PROVE FormFields' /\ form'.saving = form.saving \ {q.kind} /\ form'.testing = form.testing
      <4>1. form' = [form EXCEPT !.saving = saving]
        BY <2>2, <3>1, <3>4 DEF AnswerSave
      <4>2. QED
        BY <3>1, <4>1, Fields DEF SavingInv, FormFields
    <3>5. ASSUME q.state = "ok"
          PROVE FormFields' /\ form'.saving = form.saving \ {q.kind} /\ form'.testing = form.testing
      <4>1. PICK shown, dn, di : /\ shown = Over(q.over, q.settings)
                                 /\ dn = (IF q.kind = "N" THEN << >> ELSE form.dirtyN)
                                 /\ di = (IF q.kind = "I" THEN << >> ELSE form.dirtyI)
        OBVIOUS
      <4>2. {"saving", "shown", "saved", "dirtyN", "dirtyI", "testing"} \subseteq DOMAIN form
        BY Fields DEF SavingInv, FormFields
      <4>3. form' = [form EXCEPT !.saving = saving, !.shown = shown, !.saved = q.settings,
                                 !.dirtyN = dn, !.dirtyI = di]
        BY <2>2, <3>1, <3>5, <4>1, <4>2 DEF AnswerSave
      <4>4. DOMAIN form' = DOMAIN form /\ form'.saving = saving /\ form'.testing = form.testing
        BY <4>2, <4>3
      <4>5. QED
        BY <3>1, <4>4 DEF SavingInv, FormFields
    <3>2. FormFields' /\ form'.saving = form.saving \ {q.kind} /\ form'.testing = form.testing
      BY <3>4, <3>5
    <3>3. QED
      BY <2>2, <3>2
  <2>3. CASE q.kind = "test" /\ AnswerTest(q)
    <3>1. form' = [form EXCEPT !.testing = FALSE]
      BY <2>3 DEF AnswerTest
    <3>2. FormFields' /\ form'.saving = form.saving /\ form'.testing = FALSE
      BY <3>1, Fields DEF SavingInv, FormFields
    <3>3. QED
      BY <2>3, <3>2 DEF SavingInv, OfForm
  <2>4. QED
    BY <2>1, <2>2, <2>3
<1>6. OfForm'
  BY <1>3, <1>5, GoneCalm
<1>7. QED
  BY <1>3, <1>4, <1>5, <1>6 DEF SavingInv

\* Answers of the prompts routes.
LEMMA PromptAnswerSaving ==
    ASSUME SavingInv, NEW q \in net,
           \/ q.kind = "getPrompts" /\ AnswerLoad(q)
           \/ q.kind = "putPrompt" /\ AnswerPut(q)
           \/ q.kind = "resetPrompt" /\ AnswerReset(q)
    PROVE  SavingInv'
<1>. Shape(q) /\ DOMAIN NoSection \subseteq DOMAIN prompts
  BY DEF SavingInv, PromptFields
<1>1. CASE q.kind = "getPrompts" /\ AnswerLoad(q)
  <2>1. PICK loaded : /\ prompts' = Finish(loaded, q.owner)
                      /\ \/ loaded = prompts
                         \/ \E l, d : loaded = [prompts EXCEPT !.list = l, !.drafts = d]
    BY <1>1 DEF AnswerLoad
  <2>2. DOMAIN NoSection \subseteq DOMAIN loaded /\ loaded.busy = prompts.busy /\ loaded.all = prompts.all
    BY <2>1, Fields
  <2>3. net' = net \ {q} /\ UNCHANGED <<form, backups>>
    BY <1>1 DEF AnswerLoad
  <2>4. QED
    BY <1>1, <2>1, <2>2, <2>3, PromptsEnd
<1>2. CASE q.kind = "putPrompt" /\ AnswerPut(q)
  <2>. q.kind \in Asking /\ "owner" \in DOMAIN q /\ q.owner \in {"one", "all"} /\ UNCHANGED <<form, backups>>
    BY <1>2 DEF Shape, Asking, AnswerPut
  <2>1. ASSUME NEW done, net' = (net \ {q}) \cup {NextPut(q, done)}, UNCHANGED prompts PROVE SavingInv'
    <3>1. PICK k, text, todo : NextPut(q, done) = [q EXCEPT !.key = k, !.text = text, !.done = done,
                                                           !.state = "sent", !.todo = todo]
      BY DEF NextPut
    <3>2. PICK p : p = NextPut(q, done)
      OBVIOUS
    <3>3. Follows(p, q)
      BY <3>1, <3>2 DEF Follows, Shape, Common
    <3>4. Shape(p)
      BY <3>3 DEF Follows, Shape, Common
    <3>5. QED
      BY <2>1, <3>2, <3>3, <3>4, HandedOn DEF Follows
  <2>2. ASSUME NEW settled, net' = (net \ {q}) \cup {Load(settled, q.owner, q.rest)}, UNCHANGED prompts
        PROVE SavingInv'
    <3>1. PICK p : p = Load(settled, q.owner, q.rest)
      OBVIOUS
    <3>2. Shape(p) /\ p.live /\ p.kind \in Asking /\ "owner" \in DOMAIN p /\ p.owner = q.owner
      BY <3>1, LoadSent DEF Asking
    <3>3. QED
      BY <2>2, <3>1, <3>2, HandedOn
  <2>3. ASSUME net' = net \ {q}, prompts' = Finish(prompts, q.owner) PROVE SavingInv'
    BY <1>2, <2>3, PromptsEnd
  <2>4. QED
    BY <1>2, <2>1, <2>2, <2>3 DEF AnswerPut
<1>3. CASE q.kind = "resetPrompt" /\ AnswerReset(q)
  <2>. q.owner = "one" /\ UNCHANGED <<form, backups>>
    BY <1>3 DEF Shape, AnswerReset
  <2>1. CASE q.state = "ok"
    <3>1. PICK p : p = Load({q.key}, "one", << >>)
      OBVIOUS
    <3>2. net' = (net \ {q}) \cup {p} /\ UNCHANGED prompts
      BY <1>3, <2>1, <3>1 DEF AnswerReset
    <3>3. Shape(p) /\ p.live /\ p.kind \in Asking /\ "owner" \in DOMAIN p /\ p.owner = "one"
      BY <3>1, LoadSent DEF Asking
    <3>4. q.kind \in Asking /\ "owner" \in DOMAIN q
      BY <1>3 DEF Shape, Asking
    <3>5. QED
      BY <3>2, <3>3, <3>4, HandedOn
  <2>2. CASE q.state # "ok"
    <3>1. net' = net \ {q} /\ prompts' = Finish(prompts, q.owner)
      BY <1>3, <2>2 DEF AnswerReset
    <3>2. QED
      BY <1>3, <3>1, PromptsEnd
  <2>3. QED
    BY <2>1, <2>2
<1>4. QED
  BY <1>1, <1>2, <1>3

\* Answers of the backups routes.
LEMMA BackupAnswerSaving ==
    ASSUME SavingInv, NEW q \in net,
           \/ q.kind = "getBackups" /\ AnswerBackups(q)
           \/ q.kind = "putRetention" /\ AnswerRetention(q)
           \/ q.kind = "deleteDump" /\ AnswerDelete(q)
    PROVE  SavingInv'
<1>. /\ Shape(q) /\ DOMAIN NoBackups \subseteq DOMAIN backups
     /\ {"state", "retention", "dumps", "draft", "saving", "pending", "deleting"} \subseteq DOMAIN backups
  BY Fields DEF SavingInv, BackupFields
<1>1. ~MeantFor(q, "one") /\ ~MeantFor(q, "all") /\ q.kind \notin {"N", "I", "test"}
  BY DEF MeantFor, Asking, Shape
<1>2. UNCHANGED <<form, prompts>>
  BY DEF AnswerBackups, AnswerRetention, AnswerDelete
<1>3. net \ {q} \subseteq net' /\ \A p \in net' : Shape(p)
  <2>1. PICK b : b = Request("getBackups", [owner |-> "delete"], << >>)
    OBVIOUS
  <2>2. Shape(b)
    BY <2>1, BackupsSent
  <2>3. net' = net \ {q} \/ net' = (net \ {q}) \cup {b}
    BY <2>1 DEF AnswerBackups, AnswerRetention, AnswerDelete
  <2>4. QED
    BY <2>2, <2>3 DEF SavingInv
<1>4. FormFields' /\ OfForm' /\ PromptFields' /\ OfPrompts'
  BY <1>1, <1>2, <1>3, GoneAlone
<1>5. BackupFields' /\ OfBackups'
  <2>1. CASE q.kind = "getBackups" /\ AnswerBackups(q)
    <3>1. q.owner \in {"mount", "delete"}
      BY <2>1 DEF Shape
    <3>2. DOMAIN backups' = DOMAIN backups /\ backups'.saving = backups.saving
          /\ (backups'.deleting => backups.deleting /\ q.owner # "delete")
      <4>1. CASE q.state = "ok"
        <5>1. PICK del : del = IF q.owner = "delete" THEN FALSE ELSE backups.deleting
          OBVIOUS
        <5>2. backups' = [backups EXCEPT !.state = "ready", !.retention = q.backups.retention,
                                !.dumps = q.backups.dumps, !.draft = q.backups.retention, !.deleting = del]
          BY <2>1, <4>1, <5>1 DEF AnswerBackups
        <5>3. QED
          BY <5>1, <5>2
      <4>2. CASE q.state # "ok" /\ q.owner = "mount"
        <5>1. backups' = [backups EXCEPT !.state = "unreachable"]
          BY <2>1, <4>2 DEF AnswerBackups
        <5>2. QED
          BY <4>2, <5>1
      <4>3. CASE q.state # "ok" /\ q.owner # "mount"
        <5>1. backups' = [backups EXCEPT !.deleting = FALSE]
          BY <2>1, <4>3 DEF AnswerBackups
        <5>2. QED
          BY <5>1
      <4>4. QED
        BY <4>1, <4>2, <4>3
    <3>3. BackupFields'
      BY <3>2 DEF BackupFields
    <3>4. QED
      BY <1>3, <2>1, <3>2, <3>3, GoneCalm DEF MeantFor
  <2>2. CASE q.kind = "putRetention" /\ AnswerRetention(q)
    <3>1. \/ backups' = [backups EXCEPT !.retention = q.retention, !.draft = q.retention, !.saving = FALSE]
          \/ backups' = [backups EXCEPT !.saving = FALSE]
      BY <2>2 DEF AnswerRetention
    <3>2. DOMAIN backups' = DOMAIN backups /\ ~backups'.saving /\ backups'.deleting = backups.deleting
      BY <3>1
    <3>3. QED
      BY <1>3, <2>2, <3>2, GoneCalm DEF BackupFields, MeantFor, Asking
  <2>3. CASE q.kind = "deleteDump" /\ AnswerDelete(q)
    <3>1. CASE q.state = "ok"
      <4>1. PICK b : b = Request("getBackups", [owner |-> "delete"], << >>)
        OBVIOUS
      <4>2. b.live /\ b.kind \in Asking /\ "owner" \in DOMAIN b /\ b.owner = "delete"
        BY <4>1, BackupsSent DEF Asking
      <4>3. net' = (net \ {q}) \cup {b} /\ backups' = [backups EXCEPT !.pending = NoDump]
        BY <2>3, <3>1, <4>1 DEF AnswerDelete
      <4>4. Owned("delete")'
        BY <4>2, <4>3 DEF Owned
      <4>5. BackupFields' /\ backups'.saving = backups.saving
        BY <4>3 DEF BackupFields
      <4>6. Has("putRetention") => Has("putRetention")'
        BY <1>3, <2>3, GoneStays
      <4>7. QED
        BY <4>4, <4>5, <4>6 DEF SavingInv, OfBackups
    <3>2. CASE q.state # "ok"
      <4>1. backups' = [backups EXCEPT !.deleting = FALSE]
        BY <2>3, <3>2 DEF AnswerDelete
      <4>2. BackupFields' /\ backups'.saving = backups.saving /\ ~backups'.deleting
        BY <4>1 DEF BackupFields
      <4>3. QED
        BY <1>3, <2>3, <4>2, GoneCalm
    <3>3. QED
      BY <3>1, <3>2
  <2>4. QED
    BY <2>1, <2>2, <2>3
<1>6. QED
  BY <1>3, <1>4, <1>5 DEF SavingInv

\* Every step keeps what the controls wait for.
LEMMA SavingStep == ASSUME SavingInv, [Next]_vars PROVE SavingInv'
<1>1. CASE BarSave \/ UNCHANGED vars
  <2>1. UNCHANGED <<net, form, prompts, backups>>
    BY <1>1 DEF BarSave, vars
  <2>2. Stays
    BY <2>1, SentStays
  <2>3. QED
    BY <2>1, <2>2, Alone DEF SavingInv
<1>2. ASSUME NEW q \in net, Answer(q) PROVE SavingInv'
  BY <1>2, FormAnswerSaving, PromptAnswerSaving, BackupAnswerSaving DEF Answer
<1>3. CASE User
  <2>1. CASE \E how \in {"link", "back"}, yes \in BOOLEAN : Leave(how, yes)
    BY <2>1, OpenLeaveSaving
  <2>2. QED
    BY <1>1, <1>3, <2>1, OpenLeaveSaving, EditSettingsSaving, EditPromptsSaving, EditBackupsSaving,
       BarDiscardSaving, RetryLoadSaving DEF User
<1>4. CASE Network
  BY <1>2, <1>4, ServeSaving DEF Network
<1>5. QED
  BY <1>1, <1>3, <1>4, BarStartSaving DEF Next

\* No control says that it is saving without a request under way, however saves, failures
\* and loads interleave, for every set of fields and prompts and any number of requests
\* (PromptsSection.tsx busyKey and busyAll; NotificationSettings.tsx; BackupsSection.tsx).
THEOREM SavesUnderWay == Spec => []SavingHasRequest
<1>1. Init => SavingInv
  <2>1. SUFFICES ASSUME Init PROVE SavingInv
    OBVIOUS
  <2>2. /\ form = [NoForm EXCEPT !.state = "left"] /\ prompts = NoSection /\ backups = NoBackups
        /\ net = {}
    BY <2>1 DEF Init
  <2>3. QED
    BY <2>2
    DEF SavingInv, FormFields, OfForm, PromptFields, OfPrompts, BackupFields, OfBackups, NoForm,
        NoSection, NoBackups
<1>2. SavingInv /\ [Next]_vars => SavingInv'
  BY SavingStep
<1>3. QED
  BY <1>1, <1>2, SavingMeans, PTL DEF Spec

-----------------------------------------------------------------------------
(* Whose turn it is.  The bar saves tab after tab and section after        *)
(* section, in one order; while it is at it, or another save is under way, *)
(* Save and Discard wait.                                                  *)

Rank(id) == IF id = "N" THEN 1 ELSE IF id = "I" THEN 2 ELSE IF id = "P" THEN 3 ELSE 4
Place(kind) == IF kind \in {"N", "I"} THEN Rank(kind)
               ELSE IF kind \in {"putPrompt", "getPrompts"} THEN 3 ELSE 4

IsSave(q) == q.live /\ q.kind \in {"N", "I"}
IsAll(q) == q.live /\ q.kind \in {"putPrompt", "getPrompts"} /\ q.owner = "all"

\* The unsaved edits of a tab, and of an entry of the bar.
Edits(d, fields) == (d # << >> => DOMAIN d # {}) /\ DOMAIN d \subseteq fields
TabsOK == Edits(form.dirtyN, NotificationFields) /\ Edits(form.dirtyI, ModelFields)
Dirty(id) == IF id = "N" THEN form.dirtyN ELSE form.dirtyI
Mine(e) == IF e.id = "N" THEN e.dirtyN ELSE e.dirtyI

\* What waits after a place, in order, with nothing to save twice.
Queue(r, place) ==
    /\ \A i \in DOMAIN r : r[i].id \in {"N", "I", "P", "B"} /\ Rank(r[i].id) > place
    /\ \A i, j \in DOMAIN r : i < j => Rank(r[i].id) < Rank(r[j].id)
Waits(r, ids) == \E i \in DOMAIN r : r[i].id \in ids

\* What an entry of a tab has to save is still unsaved.
Entered(e) ==
    e.id \in {"N", "I"} =>
        /\ DOMAIN e.dirtyN \subseteq NotificationFields /\ DOMAIN e.dirtyI \subseteq ModelFields
        /\ DOMAIN Mine(e) # {} /\ DOMAIN Mine(e) \subseteq DOMAIN Dirty(e.id)
EntriesOK(r) == \A i \in DOMAIN r : Entered(r[i])

\* A save of a tab.
SaveOK(q) ==
    /\ {"patch", "over"} \subseteq DOMAIN q
    /\ q.kind \in form.saving
    /\ DOMAIN q.patch # {} /\ DOMAIN q.patch \subseteq DOMAIN Dirty(q.kind)
    /\ DOMAIN q.patch \subseteq IF q.kind = "N" THEN NotificationFields ELSE ModelFields
    /\ DOMAIN q.over \subseteq IF q.kind = "N" THEN ModelFields ELSE NotificationFields
    /\ EntriesOK(q.rest)
    /\ q.kind = "N" => \A i \in DOMAIN q.rest : q.rest[i].dirtyN = q.patch
    /\ Waits(q.rest, {"P"}) => \A p \in net : ~IsAll(p)

\* A page that was left has nothing, and nothing reaches it.
LeftForm == [NoForm EXCEPT !.state = "left"]
Away ==
    form.state = "left" =>
        /\ form = LeftForm /\ prompts = NoSection /\ backups = NoBackups /\ next = << >>
        /\ \A q \in net : ~q.live

TurnsInv ==
    /\ Away
    /\ \A q \in net : q.state # "sent" => q.live
    /\ TabsOK
    /\ Queue(next, 0) /\ EntriesOK(next)
    /\ \A i, j \in DOMAIN next : next[i].id = "N" => next[j].dirtyN = next[i].dirtyN
    /\ \A q \in net : q.live => Queue(q.rest, Place(q.kind))
    /\ \A q \in net : IsSave(q) => SaveOK(q)
    /\ \A p, q \in net : IsSave(p) /\ IsSave(q) => p = q
    /\ \A p, q \in net : IsAll(p) /\ IsAll(q) => p = q
    /\ \A q \in net : IsAll(q) => prompts.all
    /\ Waits(next, {"N", "I", "P"}) => \A q \in net : ~IsSave(q)
    /\ Waits(next, {"P"}) => \A q \in net : ~IsAll(q)

-----------------------------------------------------------------------------
(* Requests.                                                               *)

\* What a request consists of when it is sent.
Sent(q, kind, rest) ==
    /\ Common \subseteq DOMAIN q
    /\ q.kind = kind /\ q.live /\ q.state = "sent" /\ q.rest = rest
IsLoad(q, settled, owner, rest) ==
    /\ Sent(q, "getPrompts", rest)
    /\ {"settled", "owner"} \subseteq DOMAIN q /\ q.settled = settled /\ q.owner = owner
IsPut(q, k, text, todo, done, owner, rest) ==
    /\ Sent(q, "putPrompt", rest)
    /\ {"key", "text", "todo", "done", "owner"} \subseteq DOMAIN q
    /\ q.key = k /\ q.text = text /\ q.todo = todo /\ q.done = done /\ q.owner = owner

LEMMA SentIs ==
    ASSUME NEW kind, NEW args, NEW rest, Common \cap DOMAIN args = {},
           NEW q, q = Request(kind, args, rest)
    PROVE  Sent(q, kind, rest)
<1>1. PICK id : q = Over(args, [id |-> id, kind |-> kind, rest |-> rest, state |-> "sent", live |-> TRUE])
  BY DEF Request
<1>2. PICK plain : plain = [id |-> id, kind |-> kind, rest |-> rest, state |-> "sent", live |-> TRUE]
  OBVIOUS
<1>3. /\ DOMAIN plain = Common /\ plain.kind = kind /\ plain.live = TRUE
      /\ plain.state = "sent" /\ plain.rest = rest
  BY <1>2 DEF Common
<1>4. q = [x \in DOMAIN args \cup DOMAIN plain |-> IF x \in DOMAIN args THEN args[x] ELSE plain[x]]
  BY <1>1, <1>2 DEF Over
<1>5. /\ DOMAIN q = DOMAIN args \cup Common
      /\ \A x \in DOMAIN q : q[x] = IF x \in DOMAIN args THEN args[x] ELSE plain[x]
  BY <1>3, <1>4
<1>6. {"kind", "live", "state", "rest"} \subseteq Common
  BY DEF Common
<1>7. QED
  BY <1>3, <1>5, <1>6 DEF Sent

\* A load of the prompts.
LEMMA LoadIs ==
    ASSUME NEW settled, NEW owner, NEW rest, NEW q, q = Load(settled, owner, rest)
    PROVE  IsLoad(q, settled, owner, rest)
<1>1. PICK args : args = [settled |-> settled, owner |-> owner]
  OBVIOUS
<1>2. DOMAIN args = {"settled", "owner"} /\ args.settled = settled /\ args.owner = owner
  BY <1>1
<1>3. PICK r : r = Request("getPrompts", args, rest)
  OBVIOUS
<1>4. Sent(r, "getPrompts", rest) /\ DOMAIN args \subseteq DOMAIN r /\ \A x \in DOMAIN args : r[x] = args[x]
  <2>1. Common \cap DOMAIN args = {}
    BY <1>2 DEF Common
  <2>2. DOMAIN args \subseteq DOMAIN r /\ \A x \in DOMAIN args : r[x] = args[x]
    BY <1>3, <2>1, NewShape
  <2>3. Sent(r, "getPrompts", rest)
    BY <1>3, <2>1, SentIs
  <2>4. QED
    BY <2>2, <2>3
<1>5. q = r
  BY <1>1, <1>3 DEF Load
<1>6. QED
  BY <1>2, <1>4, <1>5 DEF IsLoad

\* A save of a prompt.
LEMMA PutIs ==
    ASSUME NEW k, NEW text, NEW todo, NEW done, NEW owner, NEW rest, NEW q,
           q = Request("putPrompt", [key |-> k, text |-> text, todo |-> todo, done |-> done,
                                     owner |-> owner], rest)
    PROVE  IsPut(q, k, text, todo, done, owner, rest)
<1>1. PICK args : args = [key |-> k, text |-> text, todo |-> todo, done |-> done, owner |-> owner]
  OBVIOUS
<1>2. /\ DOMAIN args = {"key", "text", "todo", "done", "owner"}
      /\ args.key = k /\ args.text = text /\ args.todo = todo /\ args.done = done /\ args.owner = owner
  BY <1>1
<1>3. PICK r : r = Request("putPrompt", args, rest)
  OBVIOUS
<1>4. Sent(r, "putPrompt", rest) /\ DOMAIN args \subseteq DOMAIN r /\ \A x \in DOMAIN args : r[x] = args[x]
  <2>1. Common \cap DOMAIN args = {}
    BY <1>2 DEF Common
  <2>2. DOMAIN args \subseteq DOMAIN r /\ \A x \in DOMAIN args : r[x] = args[x]
    BY <1>3, <2>1, NewShape
  <2>3. Sent(r, "putPrompt", rest)
    BY <1>3, <2>1, SentIs
  <2>4. QED
    BY <2>2, <2>3
<1>5. q = r
  BY <1>1, <1>3
<1>6. QED
  BY <1>2, <1>4, <1>5 DEF IsPut

\* What the server adds to a request of an open page is its state and a result; that of a
\* page that was left is gone.
LEMMA ServedIs ==
    ASSUME NEW q, Common \subseteq DOMAIN q, NEW s, NEW result,
           DOMAIN result \subseteq {"settings", "prompts", "backups"}, Served(q, s, result)
    PROVE  /\ ~q.live => net' = net \ {q}
           /\ q.live => \E p : /\ net' = (net \ {q}) \cup {p}
                               /\ DOMAIN q \subseteq DOMAIN p /\ p.state = s
                               /\ \A x \in DOMAIN q \ ({"state"} \cup DOMAIN result) : p[x] = q[x]
                               /\ \A x \in DOMAIN result : p[x] = result[x]
<1>1. CASE q.live
  <2>1. PICK base : base = [q EXCEPT !.state = s]
    OBVIOUS
  <2>2. /\ DOMAIN base = DOMAIN q /\ base.state = s
        /\ \A x \in DOMAIN q : x # "state" => base[x] = q[x]
    BY <2>1 DEF Common
  <2>3. PICK p : p = Over(result, base)
    OBVIOUS
  <2>4. p = [x \in DOMAIN result \cup DOMAIN base |-> IF x \in DOMAIN result THEN result[x] ELSE base[x]]
    BY <2>3 DEF Over
  <2>5. /\ DOMAIN p = DOMAIN result \cup DOMAIN q
        /\ \A x \in DOMAIN p : p[x] = IF x \in DOMAIN result THEN result[x] ELSE base[x]
    BY <2>2, <2>4
  <2>6. net' = (net \ {q}) \cup {p}
    BY <1>1, <2>1, <2>3 DEF Served
  <2>7. "state" \in DOMAIN q /\ "state" \notin DOMAIN result
    BY DEF Common
  <2>8. /\ DOMAIN q \subseteq DOMAIN p /\ p.state = s
        /\ \A x \in DOMAIN q \ ({"state"} \cup DOMAIN result) : p[x] = q[x]
        /\ \A x \in DOMAIN result : p[x] = result[x]
    BY <2>2, <2>5, <2>7
  <2>9. QED
    BY <1>1, <2>6, <2>8
<1>2. CASE ~q.live
  BY <1>2 DEF Served
<1>3. QED
  BY <1>1, <1>2

\* Rests.
LEMMA NoQueue == \A place : Queue(<< >>, place) /\ EntriesOK(<< >>)
BY DEF Queue, EntriesOK

-----------------------------------------------------------------------------
(* Steps that leave the turns as they are.                                 *)

\* A request that saves no tab and is no part of a saveAll.
Minor(p) == /\ p.live /\ ~IsSave(p) /\ ~IsAll(p) /\ Queue(p.rest, Place(p.kind))

\* The tabs only become dirtier.
Grows == /\ DOMAIN form.dirtyN \subseteq DOMAIN form'.dirtyN
         /\ DOMAIN form.dirtyI \subseteq DOMAIN form'.dirtyI
         /\ form.saving \subseteq form'.saving
         /\ form'.state # "left"

\* Entries stay entered.
LEMMA StayEntered ==
    ASSUME DOMAIN form.dirtyN \subseteq DOMAIN form'.dirtyN,
           DOMAIN form.dirtyI \subseteq DOMAIN form'.dirtyI
    PROVE  \A r : EntriesOK(r) => EntriesOK(r)'
<1>1. ASSUME NEW e, Entered(e) PROVE Entered(e)'
  BY <1>1 DEF Entered, Dirty
<1>2. QED
  BY <1>1 DEF EntriesOK

\* Saves stay as good as they were, when no saveAll begins.
LEMMA StaySaves ==
    ASSUME NEW q, SaveOK(q), q.kind \in {"N", "I"}, Grows, \A p \in net' : IsAll(p) => p \in net
    PROVE  SaveOK(q)'
<1>1. \A r : EntriesOK(r) => EntriesOK(r)'
  BY StayEntered DEF Grows
<1>2. DOMAIN Dirty(q.kind) \subseteq DOMAIN Dirty(q.kind)'
  BY DEF Grows, Dirty
<1>3. q.kind \in form'.saving /\ EntriesOK(q.rest)'
  BY <1>1 DEF SaveOK, Grows
<1>4. Waits(q.rest, {"P"}) => \A p \in net' : ~IsAll(p)
  BY DEF SaveOK
<1>5. DOMAIN q.patch \subseteq DOMAIN Dirty(q.kind)'
  BY <1>2 DEF SaveOK
<1>6. QED
  BY <1>3, <1>4, <1>5 DEF SaveOK

\* Requests that are minor come, others go.
LEMMA Adds ==
    ASSUME TurnsInv, next' = << >>, Grows, TabsOK', prompts.all => prompts'.all,
           NEW N, \A p \in N : Minor(p) /\ (p.state = "sent"), net' \subseteq net \cup N
    PROVE  TurnsInv'
<1>1. \A p \in net' : IsSave(p) \/ IsAll(p) => p \in net
  BY DEF Minor
<1>2. Away'
  BY DEF Grows, Away
<1>3. \A q \in net' : /\ q.state # "sent" => q.live
                      /\ q.live => Queue(q.rest, Place(q.kind))
  BY DEF TurnsInv, Minor
<1>4. \A q \in net' : IsSave(q) => SaveOK(q)'
  BY <1>1, StaySaves DEF TurnsInv, IsSave
<1>5. /\ \A p, q \in net' : IsSave(p) /\ IsSave(q) => p = q
      /\ \A p, q \in net' : IsAll(p) /\ IsAll(q) => p = q
      /\ \A q \in net' : IsAll(q) => prompts'.all
  BY <1>1 DEF TurnsInv
<1>6. Queue(next', 0) /\ EntriesOK(next)' /\ \A ids : ~Waits(next', ids)
  BY DEF Queue, EntriesOK, Waits
<1>7. \A i, j \in DOMAIN next' : next'[i].id = "N" => next'[j].dirtyN = next'[i].dirtyN
  OBVIOUS
<1>8. QED
  BY <1>2, <1>3, <1>4, <1>5, <1>6, <1>7 DEF TurnsInv

\* A request goes on, as what it was.
LEMMA Moves ==
    ASSUME TurnsInv, UNCHANGED <<form, next>>, prompts.all => prompts'.all,
           NEW q \in net, NEW p, net' \subseteq (net \ {q}) \cup {p},
           form.state = "left" => ~p.live /\ UNCHANGED <<prompts, backups>>,
           p.state # "sent" => p.live, p.live => Queue(p.rest, Place(p.kind)),
           IsSave(p) => /\ IsSave(q) /\ p.kind = q.kind /\ p.patch = q.patch /\ p.over = q.over
                        /\ p.rest = q.rest /\ {"patch", "over"} \subseteq DOMAIN p,
           IsAll(p) => IsAll(q)
    PROVE  TurnsInv'
<1>1. Away'
  BY DEF TurnsInv, Away
<1>2. \A r \in net' : /\ r.state # "sent" => r.live
                      /\ r.live => Queue(r.rest, Place(r.kind))
  BY DEF TurnsInv
<1>3. \A r \in net' : IsAll(r) => \E o \in net : IsAll(o)
  OBVIOUS
<1>4. \A e : EntriesOK(e) => EntriesOK(e)'
  BY StayEntered
<1>5. ASSUME NEW r \in net', IsSave(r) PROVE SaveOK(r)'
  <2>1. PICK o \in net : /\ IsSave(o) /\ r.kind = o.kind /\ r.patch = o.patch /\ r.over = o.over
                         /\ r.rest = o.rest /\ {"patch", "over"} \subseteq DOMAIN r
    <3>1. CASE r = p
      BY <1>5, <3>1
    <3>2. CASE r # p
      BY <1>5, <3>2 DEF TurnsInv, SaveOK
    <3>3. QED
      BY <3>1, <3>2
  <2>2. SaveOK(o)
    BY <2>1 DEF TurnsInv
  <2>3. Waits(r.rest, {"P"}) => \A m \in net' : ~IsAll(m)
    BY <1>3, <2>1, <2>2 DEF SaveOK
  <2>4. EntriesOK(r.rest)'
    BY <1>4, <2>1, <2>2 DEF SaveOK
  <2>5. QED
    BY <2>1, <2>2, <2>3, <2>4 DEF SaveOK, Dirty
<1>6. /\ \A m, r \in net' : IsSave(m) /\ IsSave(r) => m = r
      /\ \A m, r \in net' : IsAll(m) /\ IsAll(r) => m = r
      /\ \A r \in net' : IsAll(r) => prompts'.all
  BY DEF TurnsInv
<1>7. \A ids : (\A r \in net : ~IsSave(r)) => \A r \in net' : ~IsSave(r)
  OBVIOUS
<1>8. /\ TabsOK' /\ Queue(next', 0) /\ EntriesOK(next)'
      /\ \A i, j \in DOMAIN next' : next'[i].id = "N" => next'[j].dirtyN = next'[i].dirtyN
  BY <1>4 DEF TurnsInv, TabsOK
<1>9. /\ Waits(next', {"N", "I", "P"}) => \A r \in net' : ~IsSave(r)
      /\ Waits(next', {"P"}) => \A r \in net' : ~IsAll(r)
  BY <1>3, <1>7 DEF TurnsInv
<1>10. QED
  BY <1>1, <1>2, <1>5, <1>6, <1>8, <1>9 DEF TurnsInv

\* A request is answered, and the bar goes on with what it left.
LEMMA Ends ==
    ASSUME TurnsInv, NEW q \in net, q.live, net' = net \ {q}, next' = q.rest,
           form'.state # "left", TabsOK',
           IsAll(q) \/ (prompts.all => prompts'.all),
           IsSave(q) \/ UNCHANGED form,
           q.kind = "N" => form'.dirtyI = form.dirtyI
    PROVE  TurnsInv'
<1>1. Away'
  BY DEF Away
<1>2. \A r \in net' : /\ r.state # "sent" => r.live
                      /\ r.live => Queue(r.rest, Place(r.kind))
  BY DEF TurnsInv
<1>3. Queue(q.rest, Place(q.kind)) /\ Place(q.kind) \in 1 .. 4
  BY DEF TurnsInv, Place, Rank
<1>4. /\ \A m, r \in net' : IsSave(m) /\ IsSave(r) => m = r
      /\ \A m, r \in net' : IsAll(m) /\ IsAll(r) => m = r
  BY DEF TurnsInv
<1>5. \A r \in net' : IsAll(r) => prompts'.all
  BY DEF TurnsInv
<1>6. ASSUME NEW r \in net', IsSave(r) PROVE SaveOK(r)'
  <2>1. ~IsSave(q)
    BY <1>6 DEF TurnsInv
  <2>2. SaveOK(r) /\ UNCHANGED form
    BY <1>6, <2>1 DEF TurnsInv
  <2>3. Waits(r.rest, {"P"}) => \A m \in net' : ~IsAll(m)
    BY <2>2 DEF SaveOK
  <2>4. EntriesOK(r.rest)'
    BY <2>2, StayEntered DEF SaveOK
  <2>5. QED
    BY <2>2, <2>3, <2>4 DEF SaveOK, Dirty
<1>7. Queue(next', 0) /\ \A i \in DOMAIN next' : next'[i].id # "N" /\ Rank(next'[i].id) > Place(q.kind)
  BY <1>3 DEF Queue, Rank
<1>8. \A i, j \in DOMAIN next' : next'[i].id = "N" => next'[j].dirtyN = next'[i].dirtyN
  BY <1>7
<1>9. EntriesOK(next)'
  <2>1. CASE IsSave(q)
    <3>1. EntriesOK(q.rest)
      BY <2>1 DEF TurnsInv, SaveOK
    <3>2. ASSUME NEW i \in DOMAIN q.rest PROVE Entered(q.rest[i])'
      <4>1. Entered(q.rest[i])
        BY <3>1 DEF EntriesOK
      <4>2. q.rest[i].id = "I" => q.kind = "N"
        BY <1>7, <2>1 DEF IsSave, Place, Rank
      <4>3. q.rest[i].id # "N"
        BY <1>7
      <4>4. QED
        BY <4>1, <4>2, <4>3 DEF Entered, Dirty, Mine
    <3>3. QED
      BY <3>2 DEF EntriesOK
  <2>2. CASE ~IsSave(q)
    <3>1. Place(q.kind) \in {3, 4}
      BY <2>2 DEF Place, IsSave
    <3>2. \A i \in DOMAIN next' : next'[i].id \notin {"N", "I"}
      BY <1>7, <3>1 DEF Rank
    <3>3. QED
      BY <3>2 DEF EntriesOK, Entered
  <2>3. QED
    BY <2>1, <2>2
<1>10. Waits(next', {"N", "I", "P"}) => \A r \in net' : ~IsSave(r)
  <2>1. SUFFICES ASSUME Waits(next', {"N", "I", "P"}) PROVE IsSave(q)
    BY DEF TurnsInv
  <2>2. PICK i \in DOMAIN next' : next'[i].id \in {"N", "I", "P"}
    BY <2>1 DEF Waits
  <2>3. Place(q.kind) < 3
    BY <1>3, <1>7, <2>2 DEF Rank
  <2>4. QED
    BY <2>3 DEF Place, Rank, IsSave
<1>11. Waits(next', {"P"}) => \A r \in net' : ~IsAll(r)
  <2>1. SUFFICES ASSUME Waits(next', {"P"}) PROVE \A r \in net' : ~IsAll(r)
    OBVIOUS
  <2>2. Waits(next', {"N", "I", "P"})
    BY <2>1 DEF Waits
  <2>3. PICK i \in DOMAIN next' : next'[i].id \in {"N", "I", "P"}
    BY <2>2 DEF Waits
  <2>4. Place(q.kind) < 3
    BY <1>3, <1>7, <2>3 DEF Rank
  <2>5. IsSave(q)
    BY <2>4 DEF Place, Rank, IsSave
  <2>6. QED
    BY <2>1, <2>5 DEF TurnsInv, SaveOK
<1>12. QED
  BY <1>1, <1>2, <1>4, <1>5, <1>6, <1>7, <1>8, <1>9, <1>10, <1>11 DEF TurnsInv

-----------------------------------------------------------------------------
(* What the bar lists.                                                     *)

\* In the order of the tabs and the sections, after lo and up to hi.
InOrder(s, lo, hi) ==
    /\ \A i \in DOMAIN s : lo < Rank(s[i]) /\ Rank(s[i]) <= hi
    /\ \A i, j \in DOMAIN s : i < j => Rank(s[i]) < Rank(s[j])
Among(x, s) == \E i \in DOMAIN s : s[i] = x

\* Lists that follow one another.
LEMMA Joined ==
    ASSUME NEW E, NEW s \in Seq(E), NEW t \in Seq(E)
    PROVE  /\ s \o t \in Seq(E)
           /\ \A i \in DOMAIN (s \o t) : \/ i \in DOMAIN s /\ (s \o t)[i] = s[i]
                                         \/ /\ i > Len(s) /\ i - Len(s) \in DOMAIN t
                                            /\ (s \o t)[i] = t[i - Len(s)]
           /\ \A x : Among(x, s \o t) <=> Among(x, s) \/ Among(x, t)
<1>1. PICK m, n \in Nat : /\ DOMAIN s = 1 .. m /\ Len(s) = m /\ DOMAIN t = 1 .. n /\ Len(t) = n
  OBVIOUS
<1>2. /\ s \o t \in Seq(E) /\ DOMAIN (s \o t) = 1 .. m + n
      /\ \A i \in 1 .. m + n : (s \o t)[i] = IF i <= m THEN s[i] ELSE t[i - m]
  BY <1>1
<1>3. PICK u : u = s \o t
  OBVIOUS
<1>4. /\ DOMAIN u = 1 .. m + n
      /\ \A i \in 1 .. m : u[i] = s[i]
      /\ \A i \in m + 1 .. m + n : u[i] = t[i - m] /\ i - m \in 1 .. n
      /\ \A i \in 1 .. n : u[i + m] = t[i] /\ i + m \in 1 .. m + n
  <2>1. \A i \in 1 .. m : i \in 1 .. m + n /\ i <= m
    OBVIOUS
  <2>2. \A i \in m + 1 .. m + n : i \in 1 .. m + n /\ ~(i <= m) /\ i - m \in 1 .. n
    BY <1>1
  <2>3. \A i \in 1 .. n : i + m \in 1 .. m + n /\ ~(i + m <= m) /\ (i + m) - m = i
    BY <1>1
  <2>4. QED
    BY <1>2, <1>3, <2>1, <2>2, <2>3
<1>5. \A i \in DOMAIN u : i \in 1 .. m \/ i \in m + 1 .. m + n
  BY <1>1, <1>4
<1>6. \A i \in DOMAIN u : \/ i \in DOMAIN s /\ u[i] = s[i]
                          \/ i > Len(s) /\ i - Len(s) \in DOMAIN t /\ u[i] = t[i - Len(s)]
  BY <1>1, <1>4, <1>5
<1>7. ASSUME NEW x PROVE Among(x, u) <=> Among(x, s) \/ Among(x, t)
  <2>1. Among(x, u) => Among(x, s) \/ Among(x, t)
    BY <1>6 DEF Among
  <2>2. \A i \in DOMAIN s : i \in DOMAIN u /\ u[i] = s[i]
    BY <1>1, <1>4
  <2>3. \A i \in DOMAIN t : i + m \in DOMAIN u /\ u[i + m] = t[i]
    BY <1>1, <1>4
  <2>4. Among(x, s) => Among(x, u)
    BY <2>2 DEF Among
  <2>5. Among(x, t) => Among(x, u)
    BY <2>3 DEF Among
  <2>6. QED
    BY <2>1, <2>4, <2>5
<1>8. QED
  BY <1>2, <1>3, <1>6, <1>7

\* In order.
LEMMA JoinedInOrder ==
    ASSUME NEW E, NEW s \in Seq(E), NEW t \in Seq(E), NEW lo \in Nat, NEW mid \in Nat, NEW hi \in Nat,
           lo <= mid, mid <= hi, InOrder(s, lo, mid), InOrder(t, mid, hi)
    PROVE  InOrder(s \o t, lo, hi)
<1>1. PICK u : u = s \o t
  OBVIOUS
<1>2. /\ \A i \in DOMAIN u : \/ i \in DOMAIN s /\ u[i] = s[i]
                             \/ i > Len(s) /\ i - Len(s) \in DOMAIN t /\ u[i] = t[i - Len(s)]
      /\ u \in Seq(E)
  BY <1>1, Joined
<1>3. DOMAIN u \subseteq Nat /\ Len(s) \in Nat /\ DOMAIN s = 1 .. Len(s) /\ DOMAIN t \subseteq Nat
  BY <1>2
<1>4. \A x : Rank(x) \in 1 .. 4
  BY DEF Rank
<1>5. \A i \in DOMAIN u : lo < Rank(u[i]) /\ Rank(u[i]) <= hi
  <2>1. ASSUME NEW i \in DOMAIN u PROVE lo < Rank(u[i]) /\ Rank(u[i]) <= hi
    <3>1. CASE i \in DOMAIN s /\ u[i] = s[i]
      <4>1. lo < Rank(u[i]) /\ Rank(u[i]) <= mid
        BY <3>1 DEF InOrder
      <4>2. QED
        BY <1>4, <4>1
    <3>2. CASE i - Len(s) \in DOMAIN t /\ u[i] = t[i - Len(s)]
      <4>1. mid < Rank(u[i]) /\ Rank(u[i]) <= hi
        BY <3>2 DEF InOrder
      <4>2. QED
        BY <1>4, <4>1
    <3>3. QED
      BY <1>2, <3>1, <3>2
  <2>2. QED
    BY <2>1
<1>6. ASSUME NEW i \in DOMAIN u, NEW j \in DOMAIN u, i < j PROVE Rank(u[i]) < Rank(u[j])
  <2>1. CASE j \in DOMAIN s /\ u[j] = s[j]
    <3>1. i \in DOMAIN s /\ u[i] = s[i]
      BY <1>2, <1>3, <1>6, <2>1
    <3>2. QED
      BY <1>6, <2>1, <3>1 DEF InOrder
  <2>2. CASE j > Len(s) /\ j - Len(s) \in DOMAIN t /\ u[j] = t[j - Len(s)]
    <3>1. CASE i \in DOMAIN s /\ u[i] = s[i]
      BY <1>4, <2>2, <3>1 DEF InOrder
    <3>2. CASE i > Len(s) /\ i - Len(s) \in DOMAIN t /\ u[i] = t[i - Len(s)]
      <4>1. i - Len(s) < j - Len(s)
        BY <1>3, <1>6
      <4>2. QED
        BY <2>2, <3>2, <4>1 DEF InOrder
    <3>3. QED
      BY <1>2, <3>1, <3>2
  <2>3. QED
    BY <1>2, <2>1, <2>2
<1>7. QED
  BY <1>1, <1>5, <1>6 DEF InOrder

\* A list of at most one.
LEMMA OneInOrder ==
    ASSUME NEW x \in {"N", "I", "P", "B"}, NEW s, s = <<x>> \/ s = << >>
    PROVE  /\ s \in Seq({"N", "I", "P", "B"}) /\ InOrder(s, Rank(x) - 1, Rank(x))
           /\ \A y : Among(y, s) <=> s = <<x>> /\ y = x
<1>1. CASE s = <<x>>
  <2>1. DOMAIN s = {1} /\ s[1] = x
    BY <1>1
  <2>2. s \in Seq({"N", "I", "P", "B"})
    BY <1>1, ListOfOne
  <2>3. InOrder(s, Rank(x) - 1, Rank(x))
    BY <2>1 DEF InOrder, Rank
  <2>4. QED
    BY <1>1, <2>1, <2>2, <2>3 DEF Among
<1>2. CASE s = << >>
  BY <1>2 DEF InOrder, Among
<1>3. QED
  BY <1>1, <1>2

\* The bar lists what is unsaved, in order.
LEMMA ListedIs ==
    /\ Listed \in Seq({"N", "I", "P", "B"}) /\ InOrder(Listed, 0, 4)
    /\ \A x : Among(x, Listed) <=> \/ x = "N" /\ form.dirtyN # << >>
                                   \/ x = "I" /\ form.dirtyI # << >>
                                   \/ x = "P" /\ EditedIn(prompts) # {}
                                   \/ x = "B" /\ RetentionDirty
<1> DEFINE E == {"N", "I", "P", "B"}
<1>1. PICK a : a = IF form.dirtyN # << >> THEN <<"N">> ELSE << >>
  OBVIOUS
<1>2. PICK b : b = IF form.dirtyI # << >> THEN <<"I">> ELSE << >>
  OBVIOUS
<1>3. PICK c : c = IF EditedIn(prompts) # {} THEN <<"P">> ELSE << >>
  OBVIOUS
<1>4. PICK d : d = IF RetentionDirty THEN <<"B">> ELSE << >>
  OBVIOUS
<1>5. /\ Rank("N") = 1 /\ Rank("I") = 2 /\ Rank("P") = 3 /\ Rank("B") = 4
  BY DEF Rank
<1>6. a \in Seq(E) /\ InOrder(a, 0, 1) /\ \A y : Among(y, a) <=> form.dirtyN # << >> /\ y = "N"
  <2>1. a = <<"N">> \/ a = << >>
    BY <1>1
  <2>2. a = <<"N">> <=> form.dirtyN # << >>
    BY <1>1
  <2>3. a \in Seq(E) /\ InOrder(a, Rank("N") - 1, Rank("N")) /\ \A y : Among(y, a) <=> a = <<"N">> /\ y = "N"
    BY <2>1, OneInOrder
  <2>4. QED
    BY <1>5, <2>2, <2>3
<1>7. b \in Seq(E) /\ InOrder(b, 1, 2) /\ \A y : Among(y, b) <=> form.dirtyI # << >> /\ y = "I"
  <2>1. b = <<"I">> \/ b = << >>
    BY <1>2
  <2>2. b = <<"I">> <=> form.dirtyI # << >>
    BY <1>2
  <2>3. b \in Seq(E) /\ InOrder(b, Rank("I") - 1, Rank("I")) /\ \A y : Among(y, b) <=> b = <<"I">> /\ y = "I"
    BY <2>1, OneInOrder
  <2>4. QED
    BY <1>5, <2>2, <2>3
<1>8. c \in Seq(E) /\ InOrder(c, 2, 3) /\ \A y : Among(y, c) <=> EditedIn(prompts) # {} /\ y = "P"
  <2>1. c = <<"P">> \/ c = << >>
    BY <1>3
  <2>2. c = <<"P">> <=> EditedIn(prompts) # {}
    BY <1>3
  <2>3. c \in Seq(E) /\ InOrder(c, Rank("P") - 1, Rank("P")) /\ \A y : Among(y, c) <=> c = <<"P">> /\ y = "P"
    BY <2>1, OneInOrder
  <2>4. QED
    BY <1>5, <2>2, <2>3
<1>9. d \in Seq(E) /\ InOrder(d, 3, 4) /\ \A y : Among(y, d) <=> RetentionDirty /\ y = "B"
  <2>1. d = <<"B">> \/ d = << >>
    BY <1>4
  <2>2. d = <<"B">> <=> RetentionDirty
    BY <1>4
  <2>3. d \in Seq(E) /\ InOrder(d, Rank("B") - 1, Rank("B")) /\ \A y : Among(y, d) <=> d = <<"B">> /\ y = "B"
    BY <2>1, OneInOrder
  <2>4. QED
    BY <1>5, <2>2, <2>3
<1>10. /\ a \o b \in Seq(E) /\ InOrder(a \o b, 0, 2)
       /\ \A x : Among(x, a \o b) <=> Among(x, a) \/ Among(x, b)
  <2>1. a \in Seq(E) /\ b \in Seq(E) /\ InOrder(a, 0, 1) /\ InOrder(b, 1, 2)
    BY <1>6, <1>7
  <2>2. a \o b \in Seq(E) /\ \A x : Among(x, a \o b) <=> Among(x, a) \/ Among(x, b)
    BY <2>1, Joined
  <2>3. InOrder(a \o b, 0, 2)
    BY <2>1, JoinedInOrder
  <2>4. QED
    BY <2>2, <2>3
<1>11. PICK ab : ab = a \o b
  OBVIOUS
<1>12. /\ ab \o c \in Seq(E) /\ InOrder(ab \o c, 0, 3)
       /\ \A x : Among(x, ab \o c) <=> Among(x, ab) \/ Among(x, c)
  <2>1. ab \in Seq(E) /\ c \in Seq(E) /\ InOrder(ab, 0, 2) /\ InOrder(c, 2, 3)
    BY <1>8, <1>10, <1>11
  <2>2. ab \o c \in Seq(E) /\ \A x : Among(x, ab \o c) <=> Among(x, ab) \/ Among(x, c)
    BY <2>1, Joined
  <2>3. InOrder(ab \o c, 0, 3)
    BY <2>1, JoinedInOrder
  <2>4. QED
    BY <2>2, <2>3
<1>13. PICK abc : abc = ab \o c
  OBVIOUS
<1>14. /\ abc \o d \in Seq(E) /\ InOrder(abc \o d, 0, 4)
       /\ \A x : Among(x, abc \o d) <=> Among(x, abc) \/ Among(x, d)
  <2>1. abc \in Seq(E) /\ d \in Seq(E) /\ InOrder(abc, 0, 3) /\ InOrder(d, 3, 4)
    BY <1>9, <1>12, <1>13
  <2>2. abc \o d \in Seq(E) /\ \A x : Among(x, abc \o d) <=> Among(x, abc) \/ Among(x, d)
    BY <2>1, Joined
  <2>3. InOrder(abc \o d, 0, 4)
    BY <2>1, JoinedInOrder
  <2>4. QED
    BY <2>2, <2>3
<1>15. Listed = abc \o d
  BY <1>1, <1>2, <1>3, <1>4, <1>11, <1>13 DEF Listed
<1>16. \A x : Among(x, abc \o d) <=> Among(x, a) \/ Among(x, b) \/ Among(x, c) \/ Among(x, d)
  BY <1>10, <1>11, <1>12, <1>13, <1>14
<1>17. \A x : Among(x, Listed) <=> \/ x = "N" /\ form.dirtyN # << >>
                                   \/ x = "I" /\ form.dirtyI # << >>
                                   \/ x = "P" /\ EditedIn(prompts) # {}
                                   \/ x = "B" /\ RetentionDirty
  <2>1. ASSUME NEW x
        PROVE  Among(x, Listed) <=> \/ x = "N" /\ form.dirtyN # << >>
                                    \/ x = "I" /\ form.dirtyI # << >>
                                    \/ x = "P" /\ EditedIn(prompts) # {}
                                    \/ x = "B" /\ RetentionDirty
    <3>1. Among(x, Listed) <=> Among(x, a) \/ Among(x, b) \/ Among(x, c) \/ Among(x, d)
      BY <1>15, <1>16
    <3>2. Among(x, a) <=> form.dirtyN # << >> /\ x = "N"
      BY <1>6
    <3>3. Among(x, b) <=> form.dirtyI # << >> /\ x = "I"
      BY <1>7
    <3>4. Among(x, c) <=> EditedIn(prompts) # {} /\ x = "P"
      BY <1>8
    <3>5. Among(x, d) <=> RetentionDirty /\ x = "B"
      BY <1>9
    <3>6. QED
      BY <3>1, <3>2, <3>3, <3>4, <3>5
  <2>2. QED
    BY <2>1
<1>18. QED
  BY <1>14, <1>15, <1>17

-----------------------------------------------------------------------------
(* The user's steps.                                                       *)

\* Who does something is on the page.
LEMMA Here ==
    ASSUME TurnsInv, SavingInv
    PROVE  /\ prompts.list # NoPrompts => form.state # "left"
           /\ backups.state = "ready" => form.state # "left"
           /\ backups.pending # NoDump => form.state # "left"
           /\ \A q \in net : q.live => form.state # "left"
           /\ next # << >> => form.state # "left"
           /\ AnyUnsaved => form.state # "left"
<1>1. SUFFICES ASSUME form.state = "left"
               PROVE  /\ prompts.list = NoPrompts /\ backups.state # "ready" /\ backups.pending = NoDump
                      /\ (\A q \in net : ~q.live) /\ next = << >> /\ ~AnyUnsaved
  OBVIOUS
<1>2. form = LeftForm /\ prompts = NoSection /\ backups = NoBackups
      /\ (\A q \in net : ~q.live) /\ next = << >>
  BY <1>1 DEF TurnsInv, Away
<1>3. prompts.list = NoPrompts /\ backups.state = "loading" /\ backups.pending = NoDump
  BY <1>2 DEF NoSection, NoBackups
<1>4. form.dirtyN = << >> /\ form.dirtyI = << >>
  BY <1>2 DEF LeftForm, NoForm
<1>5. EditedIn(prompts) = {} /\ ~RetentionDirty
  BY <1>3 DEF EditedIn, RetentionDirty
<1>6. Listed = << >> \o << >> \o << >> \o << >>
  BY <1>4, <1>5 DEF Listed
<1>7. << >> \o << >> = << >>
  OBVIOUS
<1>8. ~AnyUnsaved
  BY <1>6, <1>7 DEF AnyUnsaved
<1>9. QED
  BY <1>2, <1>3, <1>8

\* The tabs as they were.
LEMMA SameTabs ==
    ASSUME TurnsInv
    PROVE  /\ form' = form => TabsOK'
           /\ form'.dirtyN = form.dirtyN /\ form'.dirtyI = form.dirtyI => TabsOK'
BY DEF TurnsInv, TabsOK

\* Nothing is sent, the form is as it was.
LEMMA AddsNone ==
    ASSUME TurnsInv, next' = << >>, form' = form, form.state # "left", prompts.all => prompts'.all,
           net' \subseteq net
    PROVE  TurnsInv'
<1>1. Grows /\ TabsOK'
  BY SameTabs DEF Grows
<1>2. PICK N : N = {}
  OBVIOUS
<1>3. net' \subseteq net \cup N /\ \A p \in N : Minor(p) /\ (p.state = "sent")
  BY <1>2
<1>4. QED
  BY <1>1, <1>3, Adds

\* One minor request is sent.
LEMMA AddsOne ==
    ASSUME TurnsInv, next' = << >>, form' = form, form.state # "left", prompts.all => prompts'.all,
           NEW p, Minor(p), p.state = "sent", net' \subseteq net \cup {p}
    PROVE  TurnsInv'
<1>1. Grows /\ TabsOK'
  BY SameTabs DEF Grows
<1>2. PICK N : N = {p}
  OBVIOUS
<1>3. net' \subseteq net \cup N /\ \A r \in N : Minor(r) /\ (r.state = "sent")
  BY <1>2
<1>4. QED
  BY <1>1, <1>3, Adds

\* The minor requests that the handlers send.
LEMMA MinorSent ==
    ASSUME NEW kind, kind \notin {"N", "I", "putPrompt", "getPrompts"}, NEW args,
           Common \cap DOMAIN args = {}, NEW rest, Queue(rest, 4), NEW p, p = Request(kind, args, rest)
    PROVE  Minor(p) /\ (p.state = "sent")
<1>1. Sent(p, kind, rest)
  BY SentIs
<1>2. Place(kind) = 4
  BY DEF Place
<1>3. QED
  BY <1>1, <1>2 DEF Minor, IsSave, IsAll, Sent

\* A load that is no part of a saveAll.
LEMMA MinorLoad ==
    ASSUME NEW settled, NEW owner, owner # "all", NEW p, p = Load(settled, owner, << >>)
    PROVE  Minor(p) /\ (p.state = "sent")
<1>1. IsLoad(p, settled, owner, << >>)
  BY LoadIs
<1>2. QED
  BY <1>1, NoQueue DEF Minor, IsSave, IsAll, IsLoad, Sent

\* Opening the page.
LEMMA OpenTurns == ASSUME TurnsInv, SavingInv, Idle, Open PROVE TurnsInv'
<1>1. form = LeftForm /\ prompts' = prompts /\ form' = NoForm /\ next' = << >>
  BY DEF Open, TurnsInv, Away, Idle
<1>2. /\ form.dirtyN = << >> /\ form.dirtyI = << >> /\ form.saving = {}
      /\ form'.dirtyN = << >> /\ form'.dirtyI = << >> /\ form'.saving = {} /\ form'.state = "loading"
  BY <1>1 DEF LeftForm, NoForm
<1>3. Grows /\ TabsOK'
  BY <1>2, SameTabs DEF Grows
<1>4. PICK p : p = Request("getSettings", << >>, << >>)
  OBVIOUS
<1>5. Minor(p) /\ (p.state = "sent")
  <2>1. Common \cap DOMAIN << >> = {} /\ Queue(<< >>, 4)
    BY NoQueue
  <2>2. QED
    BY <1>4, <2>1, MinorSent
<1>6. PICK N : N = {p}
  OBVIOUS
<1>7. net' \subseteq net \cup N /\ \A r \in N : Minor(r) /\ (r.state = "sent")
  BY <1>4, <1>5, <1>6 DEF Open
<1>8. QED
  BY <1>1, <1>3, <1>7, Adds

\* Leaving it.
LEMMA LeaveTurns == ASSUME TurnsInv, SavingInv, Idle, NEW how, NEW yes, Leave(how, yes) PROVE TurnsInv'
<1>1. /\ form' = LeftForm /\ prompts' = NoSection /\ backups' = NoBackups /\ next' = << >> /\ net' = Orphaned
  BY DEF Leave, LeftForm, Idle
<1>2. \A q \in net' : ~q.live /\ q.state = "sent"
  <2>1. ASSUME NEW q \in net' PROVE ~q.live /\ q.state = "sent"
    <3>1. PICK p \in net : p.state = "sent" /\ q = [p EXCEPT !.live = FALSE]
      BY <1>1, <2>1 DEF Orphaned
    <3>2. {"live", "state"} \subseteq DOMAIN p
      BY DEF SavingInv, Shape, Common
    <3>3. QED
      BY <3>1, <3>2
  <2>2. QED
    BY <2>1
<1>3. form'.dirtyN = << >> /\ form'.dirtyI = << >>
  BY <1>1 DEF LeftForm, NoForm
<1>4. TabsOK'
  BY <1>3 DEF TabsOK, Edits
<1>5. Away'
  BY <1>1, <1>2 DEF Away
<1>6. Queue(next', 0) /\ EntriesOK(next)' /\ \A ids : ~Waits(next', ids)
  BY <1>1 DEF Queue, EntriesOK, Waits
<1>7. \A i, j \in DOMAIN next' : next'[i].id = "N" => next'[j].dirtyN = next'[i].dirtyN
  BY <1>1
<1>8. QED
  BY <1>2, <1>4, <1>5, <1>6, <1>7 DEF TurnsInv, IsSave, IsAll

\* One more edit.
With(d, f, v) == Over([x \in {f} |-> v], d)
LEMMA OneMoreEdit ==
    ASSUME NEW d, NEW fields, Edits(d, fields), NEW f \in fields, NEW v
    PROVE  Edits(With(d, f, v), fields) /\ DOMAIN With(d, f, v) = {f} \cup DOMAIN d
<1>1. PICK one : one = [x \in {f} |-> v]
  OBVIOUS
<1>2. DOMAIN one = {f}
  BY <1>1
<1>3. PICK e : e = Over(one, d)
  OBVIOUS
<1>4. e = [x \in {f} \cup DOMAIN d |-> IF x \in {f} THEN one[x] ELSE d[x]]
  BY <1>2, <1>3 DEF Over
<1>5. Edits(e, fields) /\ DOMAIN e = {f} \cup DOMAIN d
  BY <1>4 DEF Edits
<1>6. With(d, f, v) = e
  BY <1>1, <1>3 DEF With
<1>7. QED
  BY <1>5, <1>6

\* A change of a field.
LEMMA ChangeTurns ==
    ASSUME TurnsInv, SavingInv, Idle, NEW f \in Field, NEW v, HandleChange(f, v)
    PROVE  TurnsInv'
<1>1. form.state = "ready" /\ net' = net /\ next' = << >> /\ prompts' = prompts
  BY DEF HandleChange, Ready, Idle
<1>2. {"state", "shown", "saved", "dirtyN", "dirtyI", "saving", "testing"} \subseteq DOMAIN form
  BY Fields DEF SavingInv, FormFields
<1>3. Edits(form.dirtyN, NotificationFields) /\ Edits(form.dirtyI, ModelFields)
  BY DEF TurnsInv, TabsOK
<1>4. Grows /\ TabsOK'
  <2>1. CASE f \in ModelFields
    <3>1. PICK e : e = With(form.dirtyI, f, v)
      OBVIOUS
    <3>2. PICK s : form' = [form EXCEPT !.shown = s, !.dirtyI = e]
      BY <2>1, <3>1 DEF HandleChange, With
    <3>3. Edits(e, ModelFields) /\ DOMAIN e = {f} \cup DOMAIN form.dirtyI
      <4>1. f \in ModelFields /\ Edits(form.dirtyI, ModelFields)
        BY <1>3, <2>1
      <4>2. QED
        BY <3>1, <4>1, OneMoreEdit
    <3>4. form'.dirtyI = e /\ form'.dirtyN = form.dirtyN /\ form'.state = "ready" /\ form'.saving = form.saving
      BY <1>1, <1>2, <3>2
    <3>5. QED
      BY <1>3, <3>3, <3>4 DEF Grows, TabsOK
  <2>2. CASE f \notin ModelFields
    <3>1. PICK e : e = With(form.dirtyN, f, v)
      OBVIOUS
    <3>2. PICK s : form' = [form EXCEPT !.shown = s, !.dirtyN = e]
      BY <2>2, <3>1 DEF HandleChange, With
    <3>3. Edits(e, NotificationFields) /\ DOMAIN e = {f} \cup DOMAIN form.dirtyN
      <4>1. f \in NotificationFields /\ Edits(form.dirtyN, NotificationFields)
        BY <1>3, <2>2 DEF Field
      <4>2. QED
        BY <3>1, <4>1, OneMoreEdit
    <3>4. form'.dirtyN = e /\ form'.dirtyI = form.dirtyI /\ form'.state = "ready" /\ form'.saving = form.saving
      BY <1>1, <1>2, <3>2
    <3>5. QED
      BY <1>3, <3>3, <3>4 DEF Grows, TabsOK
  <2>3. QED
    BY <2>1, <2>2
<1>5. PICK N : N = {}
  OBVIOUS
<1>6. net' \subseteq net \cup N /\ \A r \in N : Minor(r) /\ (r.state = "sent")
  BY <1>1, <1>5
<1>7. QED
  BY <1>1, <1>4, <1>6, Adds

\* The settings form.
LEMMA EditSettingsTurns == ASSUME TurnsInv, SavingInv, Idle, EditSettings PROVE TurnsInv'
<1>1. ASSUME NEW f \in Field, NEW v, HandleChange(f, v) PROVE TurnsInv'
  BY <1>1, ChangeTurns
<1>2. CASE SendTest
  <2>1. form' = [form EXCEPT !.testing = TRUE] /\ form.state = "ready" /\ next' = << >> /\ prompts' = prompts
    BY <1>2 DEF SendTest, Ready, Idle
  <2>2. {"state", "shown", "saved", "dirtyN", "dirtyI", "saving", "testing"} \subseteq DOMAIN form
    BY Fields DEF SavingInv, FormFields
  <2>3. form'.dirtyN = form.dirtyN /\ form'.dirtyI = form.dirtyI /\ form'.saving = form.saving /\ form'.state = "ready"
    BY <2>1, <2>2
  <2>4. Grows /\ TabsOK'
    BY <2>3, SameTabs DEF Grows
  <2>5. PICK p : p = Request("test", << >>, << >>)
    OBVIOUS
  <2>6. Minor(p) /\ (p.state = "sent")
    <3>1. Common \cap DOMAIN << >> = {} /\ Queue(<< >>, 4)
      BY NoQueue
    <3>2. QED
      BY <2>5, <3>1, MinorSent
  <2>7. PICK N : N = {p}
    OBVIOUS
  <2>8. net' \subseteq net \cup N /\ \A r \in N : Minor(r) /\ (r.state = "sent")
    BY <1>2, <2>5, <2>6, <2>7 DEF SendTest
  <2>9. QED
    BY <2>1, <2>4, <2>8, Adds
<1>3. TextFields \cup ListFields \cup ModelFields = Field
  BY DEF Field, NotificationFields
<1>4. QED
  BY <1>1, <1>2, <1>3 DEF EditSettings, TypeText, EditInPlace, AddEmail, RemoveEmail, PickModel

\* The prompts.
LEMMA EditPromptsTurns == ASSUME TurnsInv, SavingInv, Idle, EditPrompts PROVE TurnsInv'
<1>1. PICK k \in Key : SavePrompt(k) \/ ResetPrompt(k) \/ \E t \in Atom \cup {Blank} : TypePrompt(k, t)
  BY DEF EditPrompts
<1>2. {"list", "drafts", "busy", "all"} \subseteq DOMAIN prompts
  BY Fields DEF SavingInv, PromptFields
<1>3. next' = << >> /\ form' = form /\ prompts.list # NoPrompts
  BY <1>1 DEF SavePrompt, ResetPrompt, TypePrompt, EditedIn, Idle
<1>4. form.state # "left"
  BY <1>3, Here
<1>5. prompts'.all = prompts.all
  <2>1. \/ prompts' = [prompts EXCEPT !.busy = k]
        \/ \E d : prompts' = [prompts EXCEPT !.drafts = d]
    BY <1>1 DEF SavePrompt, ResetPrompt, TypePrompt
  <2>2. QED
    BY <1>2, <2>1
<1>6. CASE SavePrompt(k)
  <2>1. PICK p : p = Request("putPrompt", [key |-> k, text |-> prompts.drafts[k], todo |-> << >>, done |-> {},
                                           owner |-> "one"], << >>)
    OBVIOUS
  <2>2. IsPut(p, k, prompts.drafts[k], << >>, {}, "one", << >>)
    BY <2>1, PutIs
  <2>3. Minor(p) /\ (p.state = "sent")
    BY <2>2, NoQueue DEF Minor, IsSave, IsAll, IsPut, Sent
  <2>4. net' \subseteq net \cup {p}
    BY <1>6, <2>1 DEF SavePrompt
  <2>5. QED
    BY <1>3, <1>4, <1>5, <2>3, <2>4, AddsOne
<1>7. CASE ResetPrompt(k)
  <2>1. PICK args : args = [key |-> k, owner |-> "one"]
    OBVIOUS
  <2>2. PICK p : p = Request("resetPrompt", args, << >>)
    OBVIOUS
  <2>3. Minor(p) /\ (p.state = "sent")
    <3>1. DOMAIN args = {"key", "owner"}
      BY <2>1
    <3>2. Common \cap DOMAIN args = {} /\ Queue(<< >>, 4)
      BY <3>1, NoQueue DEF Common
    <3>3. QED
      BY <2>2, <3>2, MinorSent
  <2>4. net' \subseteq net \cup {p}
    BY <1>7, <2>1, <2>2 DEF ResetPrompt
  <2>5. QED
    BY <1>3, <1>4, <1>5, <2>3, <2>4, AddsOne
<1>8. CASE \E t \in Atom \cup {Blank} : TypePrompt(k, t)
  BY <1>3, <1>4, <1>5, <1>8, AddsNone DEF TypePrompt
<1>9. QED
  BY <1>1, <1>6, <1>7, <1>8

\* The backups.
LEMMA EditBackupsTurns == ASSUME TurnsInv, SavingInv, Idle, EditBackups PROVE TurnsInv'
<1>1. next' = << >> /\ form' = form /\ prompts' = prompts
  BY DEF EditBackups, TypeRetention, SaveRetention, CancelDelete, ConfirmDelete, RequestDelete, PutRetention, Idle
<1>2. form.state # "left"
  BY Here DEF EditBackups, TypeRetention, SaveRetention, CancelDelete, ConfirmDelete, RequestDelete, Mounted,
     RetentionDirty
<1>3. CASE UNCHANGED net
  BY <1>1, <1>2, <1>3, AddsNone
<1>4. CASE SaveRetention
  <2>1. PICK args : args = [retention |-> backups.draft]
    OBVIOUS
  <2>2. PICK p : p = Request("putRetention", args, << >>)
    OBVIOUS
  <2>3. Minor(p) /\ (p.state = "sent")
    <3>1. DOMAIN args = {"retention"}
      BY <2>1
    <3>2. Common \cap DOMAIN args = {} /\ Queue(<< >>, 4)
      BY <3>1, NoQueue DEF Common
    <3>3. QED
      BY <2>2, <3>2, MinorSent
  <2>4. net' \subseteq net \cup {p}
    BY <1>4, <2>1, <2>2 DEF SaveRetention, PutRetention
  <2>5. QED
    BY <1>1, <1>2, <2>3, <2>4, AddsOne
<1>5. CASE ConfirmDelete
  <2>1. PICK args : args = [dump |-> backups.pending]
    OBVIOUS
  <2>2. PICK p : p = Request("deleteDump", args, << >>)
    OBVIOUS
  <2>3. Minor(p) /\ (p.state = "sent")
    <3>1. DOMAIN args = {"dump"}
      BY <2>1
    <3>2. Common \cap DOMAIN args = {} /\ Queue(<< >>, 4)
      BY <3>1, NoQueue DEF Common
    <3>3. QED
      BY <2>2, <3>2, MinorSent
  <2>4. net' \subseteq net \cup {p}
    BY <1>5, <2>1, <2>2 DEF ConfirmDelete
  <2>5. QED
    BY <1>1, <1>2, <2>3, <2>4, AddsOne
<1>6. QED
  BY <1>3, <1>4, <1>5 DEF EditBackups, TypeRetention, CancelDelete, RequestDelete

\* Loading the prompts again.
LEMMA RetryLoadTurns == ASSUME TurnsInv, SavingInv, Idle, RetryLoad PROVE TurnsInv'
<1>1. PICK p : p = Load({}, "retry", << >>)
  OBVIOUS
<1>2. Minor(p) /\ (p.state = "sent")
  BY <1>1, MinorLoad
<1>3. next' = << >> /\ form' = form /\ prompts' = prompts /\ form.state # "left" /\ net' \subseteq net \cup {p}
  BY <1>1 DEF RetryLoad, Ready, Idle
<1>4. QED
  BY <1>2, <1>3, AddsOne

-----------------------------------------------------------------------------
(* The bar's steps.                                                        *)

\* A tab that is saved is listed, so the bar says that it is saving.
LEMMA SavingIsListed ==
    ASSUME TurnsInv, SavingInv, ~BarSaving
    PROVE  /\ \A q \in net : ~IsSave(q)
           /\ EditedIn(prompts) # {} => ~prompts.all /\ \A q \in net : ~IsAll(q)
<1>1. \A x : Among(x, Listed) => ~SavingOf(x)
  BY DEF BarSaving, Among
<1>2. ASSUME NEW q \in net, IsSave(q) PROVE FALSE
  <2>1. q.kind \in form.saving /\ DOMAIN q.patch # {} /\ DOMAIN q.patch \subseteq DOMAIN Dirty(q.kind)
    BY <1>2 DEF TurnsInv, SaveOK
  <2>2. \/ q.kind = "N" /\ form.dirtyN # << >>
        \/ q.kind = "I" /\ form.dirtyI # << >>
    <3>1. DOMAIN Dirty(q.kind) # {}
      BY <2>1
    <3>2. DOMAIN << >> = {}
      OBVIOUS
    <3>3. QED
      BY <1>2, <3>1, <3>2 DEF Dirty, IsSave
  <2>3. Among(q.kind, Listed)
    BY <2>2, ListedIs
  <2>4. SavingOf(q.kind)
    BY <2>1, <2>2 DEF SavingOf
  <2>5. QED
    BY <1>1, <2>3, <2>4
<1>3. ASSUME EditedIn(prompts) # {} PROVE ~prompts.all
  <2>1. Among("P", Listed)
    BY <1>3, ListedIs
  <2>2. QED
    BY <1>1, <2>1 DEF SavingOf
<1>4. QED
  BY <1>2, <1>3 DEF TurnsInv

\* What the bar has to save is what is unsaved, in its order.
LEMMA BarSaveTurns == ASSUME TurnsInv, SavingInv, Idle, BarSave PROVE TurnsInv'
<1>1. /\ UNCHANGED <<form, prompts, backups, net>> /\ form.state # "left"
      /\ next' = [i \in DOMAIN Listed |->
                    [id |-> Listed[i], dirtyN |-> form.dirtyN, dirtyI |-> form.dirtyI]]
  BY Here DEF BarSave
<1>2. /\ DOMAIN next' = DOMAIN Listed
      /\ \A i \in DOMAIN next' : /\ next'[i].id = Listed[i] /\ Among(next'[i].id, Listed)
                                 /\ next'[i].dirtyN = form.dirtyN /\ next'[i].dirtyI = form.dirtyI
  BY <1>1 DEF Among
<1>3. Queue(next', 0)
  <2>1. Listed \in Seq({"N", "I", "P", "B"}) /\ InOrder(Listed, 0, 4)
    BY ListedIs
  <2>2. \A i \in DOMAIN next' : next'[i].id \in {"N", "I", "P", "B"} /\ Rank(next'[i].id) > 0
    BY <1>2, ListedIs DEF Rank
  <2>3. \A i, j \in DOMAIN next' : i < j => Rank(next'[i].id) < Rank(next'[j].id)
    BY <1>2, <2>1 DEF InOrder
  <2>4. QED
    BY <2>2, <2>3 DEF Queue
<1>4. EntriesOK(next)'
  <2>1. ASSUME NEW i \in DOMAIN next' PROVE Entered(next[i])'
    <3>1. PICK e : e = next'[i]
      OBVIOUS
    <3>2. e.dirtyN = form.dirtyN /\ e.dirtyI = form.dirtyI /\ Among(e.id, Listed)
      BY <1>2, <3>1
    <3>3. Edits(form.dirtyN, NotificationFields) /\ Edits(form.dirtyI, ModelFields)
      BY DEF TurnsInv, TabsOK
    <3>4. e.id \in {"N", "I"} => Dirty(e.id) # << >>
      BY <3>2, ListedIs DEF Dirty
    <3>5. e.id \in {"N", "I"} => DOMAIN Dirty(e.id) # {}
      BY <3>3, <3>4 DEF Edits, Dirty
    <3>6. e.id \in {"N", "I"} => Mine(e) = Dirty(e.id)
      BY <3>2 DEF Mine, Dirty
    <3>7. Entered(e)
      BY <3>2, <3>3, <3>5, <3>6 DEF Entered, Edits
    <3>8. Entered(e)'
      BY <1>1, <3>7 DEF Entered, Dirty
    <3>9. QED
      BY <3>1, <3>8 DEF Entered, Mine
  <2>2. QED
    BY <2>1 DEF EntriesOK
<1>5. (\A q \in net' : ~IsSave(q)) /\ (Waits(next', {"P"}) => \A q \in net' : ~IsAll(q))
  <2>1. ~BarSaving
    BY DEF BarSave
  <2>2. Waits(next', {"P"}) => EditedIn(prompts) # {}
    BY <1>2, ListedIs DEF Waits
  <2>3. QED
    BY <1>1, <2>1, <2>2, SavingIsListed
<1>6. \A i, j \in DOMAIN next' : next'[i].id = "N" => next'[j].dirtyN = next'[i].dirtyN
  BY <1>2
<1>7. Away' /\ TabsOK'
  BY <1>1, SameTabs DEF Away
<1>8. /\ \A q \in net' : q.state # "sent" => q.live
      /\ \A q \in net' : q.live => Queue(q.rest, Place(q.kind))
      /\ \A p, q \in net' : IsAll(p) /\ IsAll(q) => p = q
      /\ \A q \in net' : IsAll(q) => prompts'.all
  BY <1>1 DEF TurnsInv
<1>9. QED
  BY <1>3, <1>4, <1>5, <1>6, <1>7, <1>8 DEF TurnsInv

\* Nothing is discarded while it is saved.
LEMMA BarDiscardTurns == ASSUME TurnsInv, SavingInv, Idle, BarDiscard PROVE TurnsInv'
<1>1. net' = net /\ next' = << >> /\ form.state # "left"
  BY Here DEF BarDiscard, Idle
<1>2. \A q \in net : ~IsSave(q)
  BY SavingIsListed DEF BarDiscard
<1>3. {"state", "shown", "saved", "dirtyN", "dirtyI", "saving", "testing"} \subseteq DOMAIN form
  BY Fields DEF SavingInv, FormFields
<1>4. PICK s : form' = [[form EXCEPT !.shown = s] EXCEPT !.dirtyN = << >>, !.dirtyI = << >>]
  BY DEF BarDiscard, Revert
<1>5. form'.state = form.state /\ form'.dirtyN = << >> /\ form'.dirtyI = << >>
  BY <1>3, <1>4
<1>6. TabsOK'
  BY <1>5 DEF TabsOK, Edits
<1>7. prompts'.all = prompts.all
  <2>1. prompts' = prompts \/ prompts' = [prompts EXCEPT !.drafts = NoDraft]
    BY DEF BarDiscard
  <2>2. "all" \in DOMAIN prompts
    BY Fields DEF SavingInv, PromptFields
  <2>3. QED
    BY <2>1, <2>2
<1>8. Away'
  BY <1>1, <1>5 DEF Away
<1>9. Queue(next', 0) /\ EntriesOK(next)' /\ \A ids : ~Waits(next', ids)
  BY <1>1 DEF Queue, EntriesOK, Waits
<1>10. \A i, j \in DOMAIN next' : next'[i].id = "N" => next'[j].dirtyN = next'[i].dirtyN
  BY <1>1
<1>11. /\ \A q \in net' : q.state # "sent" => q.live
       /\ \A q \in net' : q.live => Queue(q.rest, Place(q.kind))
       /\ \A q \in net' : ~IsSave(q)
       /\ \A p, q \in net' : IsAll(p) /\ IsAll(q) => p = q
       /\ \A q \in net' : IsAll(q) => prompts'.all
  BY <1>1, <1>2, <1>7 DEF TurnsInv
<1>12. QED
  BY <1>6, <1>8, <1>9, <1>10, <1>11 DEF TurnsInv

\* The next entry, and what waits after it.
LEMMA HeadTail ==
    ASSUME SettingsInv, TurnsInv, next # << >>
    PROVE  LET e == Head(next)
               rest == Tail(next)
           IN  /\ e.id \in {"N", "I", "P", "B"} /\ Entered(e)
               /\ Queue(rest, Rank(e.id)) /\ EntriesOK(rest)
               /\ \A ids : Waits(rest, ids) => Waits(next, ids)
               /\ \A ids : e.id \in ids => Waits(next, ids)
               /\ e.id = "N" => \A i \in DOMAIN rest : rest[i].dirtyN = e.dirtyN
               /\ \A i, j \in DOMAIN rest : rest[i].id = "N" => rest[j].dirtyN = rest[i].dirtyN
<1>1. PICK e, rest : e = Head(next) /\ rest = Tail(next)
  OBVIOUS
<1>2. /\ 1 \in DOMAIN next /\ e = next[1]
      /\ \A i \in DOMAIN rest : i \in Nat /\ i + 1 \in DOMAIN next /\ rest[i] = next[i + 1] /\ i + 1 > 1
  <2>1. PICK S : next \in Seq(S)
    BY Holds DEF RestOK
  <2>2. QED
    BY <1>1, <2>1
<1>3. \A i, j \in DOMAIN rest : i < j => i + 1 < j + 1
  BY <1>2
<1>4. e.id \in {"N", "I", "P", "B"} /\ Entered(e)
  BY <1>2 DEF TurnsInv, Queue, EntriesOK
<1>5. Queue(rest, Rank(e.id))
  <2>1. \A i \in DOMAIN rest : rest[i].id \in {"N", "I", "P", "B"} /\ Rank(rest[i].id) > Rank(e.id)
    BY <1>2 DEF TurnsInv, Queue, Rank
  <2>2. \A i, j \in DOMAIN rest : i < j => Rank(rest[i].id) < Rank(rest[j].id)
    BY <1>2, <1>3 DEF TurnsInv, Queue
  <2>3. QED
    BY <2>1, <2>2 DEF Queue
<1>6. EntriesOK(rest)
  BY <1>2 DEF TurnsInv, EntriesOK
<1>7. /\ \A ids : Waits(rest, ids) => Waits(next, ids)
      /\ \A ids : e.id \in ids => Waits(next, ids)
  BY <1>2 DEF Waits
<1>8. /\ e.id = "N" => \A i \in DOMAIN rest : rest[i].dirtyN = e.dirtyN
      /\ \A i, j \in DOMAIN rest : rest[i].id = "N" => rest[j].dirtyN = rest[i].dirtyN
  BY <1>2 DEF TurnsInv
<1>9. QED
  BY <1>1, <1>4, <1>5, <1>6, <1>7, <1>8

\* The entry of a tab.
LEMMA SaveSettingsTurns ==
    ASSUME SettingsInv, SavingInv, TurnsInv, next # << >>, NEW kind \in {"N", "I"}, NEW over,
           NEW e, NEW rest, e = Head(next), rest = Tail(next), e.id = kind,
           over = (IF kind = "N" THEN e.dirtyI ELSE e.dirtyN),
           SaveSettings(kind, Mine(e), over, rest), prompts' = prompts
    PROVE  TurnsInv'
<1>1. /\ Entered(e) /\ Queue(rest, Rank(kind)) /\ EntriesOK(rest)
      /\ kind = "N" => \A i \in DOMAIN rest : rest[i].dirtyN = e.dirtyN
      /\ Waits(rest, {"P"}) => Waits(next, {"P"})
      /\ Waits(next, {"N", "I", "P"})
  BY HeadTail
<1>2. form.state # "left" /\ form.saving \subseteq {"N", "I"}
  BY Here DEF SavingInv, OfForm
<1>3. /\ DOMAIN e.dirtyN \subseteq NotificationFields /\ DOMAIN e.dirtyI \subseteq ModelFields
      /\ DOMAIN Mine(e) # {} /\ DOMAIN Mine(e) \subseteq DOMAIN Dirty(kind)
  BY <1>1 DEF Entered
<1>4. Mine(e) # << >>
  BY <1>3
<1>5. PICK args : args = [patch |-> Mine(e), over |-> over]
  OBVIOUS
<1>6. DOMAIN args = {"patch", "over"} /\ args.patch = Mine(e) /\ args.over = over
  BY <1>5
<1>7. PICK p : p = Request(kind, args, rest)
  OBVIOUS
<1>8. net' = net \cup {p} /\ next' = << >> /\ form' = [form EXCEPT !.saving = @ \cup {kind}]
  BY <1>4, <1>5, <1>7 DEF SaveSettings
<1>9. Common \cap DOMAIN args = {}
  BY <1>6 DEF Common
<1>10. p.kind = kind /\ p.live /\ p.state = "sent" /\ p.rest = rest
  <2>1. Sent(p, kind, rest)
    BY <1>7, <1>9, SentIs
  <2>2. QED
    BY <2>1 DEF Sent
<1>11. DOMAIN args \subseteq DOMAIN p /\ \A x \in DOMAIN args : p[x] = args[x]
  BY <1>7, <1>9, NewShape
<1>12. p.patch = Mine(e) /\ p.over = over /\ {"patch", "over"} \subseteq DOMAIN p
  BY <1>6, <1>11
<1>13. /\ form'.saving = form.saving \cup {kind} /\ form'.dirtyN = form.dirtyN /\ form'.dirtyI = form.dirtyI
       /\ form'.state = form.state
  BY <1>8, Fields DEF SavingInv, FormFields
<1>14. Grows /\ TabsOK'
  BY <1>2, <1>13, SameTabs DEF Grows
<1>15. (\A q \in net : ~IsSave(q)) /\ (Waits(next, {"P"}) => \A q \in net : ~IsAll(q)) /\ ~IsAll(p) /\ IsSave(p)
  BY <1>1, <1>10 DEF TurnsInv, IsAll, IsSave
<1>16. SaveOK(p)'
  <2>1. EntriesOK(p.rest)'
    BY <1>1, <1>10, <1>14, StayEntered DEF Grows
  <2>2. DOMAIN Dirty(kind)' = DOMAIN Dirty(kind)
    BY <1>13 DEF Dirty
  <2>3. Waits(p.rest, {"P"}) => \A q \in net' : ~IsAll(q)
    BY <1>1, <1>8, <1>10, <1>15
  <2>4. /\ DOMAIN p.patch \subseteq IF kind = "N" THEN NotificationFields ELSE ModelFields
        /\ DOMAIN p.over \subseteq IF kind = "N" THEN ModelFields ELSE NotificationFields
    BY <1>3, <1>12 DEF Mine
  <2>5. kind = "N" => \A i \in DOMAIN p.rest : p.rest[i].dirtyN = p.patch
    BY <1>1, <1>10, <1>12 DEF Mine
  <2>6. kind \in form'.saving
    BY <1>13
  <2>7. DOMAIN p.patch # {} /\ DOMAIN p.patch \subseteq DOMAIN Dirty(kind)'
    BY <1>3, <1>12, <2>2
  <2>8. QED
    BY <1>10, <1>12, <2>1, <2>3, <2>4, <2>5, <2>6, <2>7 DEF SaveOK
<1>17. Away'
  BY <1>2, <1>13 DEF Away
<1>18. Place(kind) = Rank(kind)
  BY DEF Place
<1>19. /\ \A q \in net' : q.state # "sent" => q.live
       /\ \A q \in net' : q.live => Queue(q.rest, Place(q.kind))
  BY <1>1, <1>8, <1>10, <1>18 DEF TurnsInv
<1>20. /\ \A q \in net' : IsSave(q) => SaveOK(q)'
       /\ \A q, r \in net' : IsSave(q) /\ IsSave(r) => q = r
  BY <1>8, <1>15, <1>16
<1>21. /\ \A q, r \in net' : IsAll(q) /\ IsAll(r) => q = r
       /\ \A q \in net' : IsAll(q) => prompts'.all
  BY <1>8, <1>15 DEF TurnsInv
<1>22. Queue(next', 0) /\ EntriesOK(next)' /\ \A ids : ~Waits(next', ids)
  BY <1>8 DEF Queue, EntriesOK, Waits
<1>23. \A i, j \in DOMAIN next' : next'[i].id = "N" => next'[j].dirtyN = next'[i].dirtyN
  BY <1>8
<1>24. QED
  BY <1>14, <1>17, <1>19, <1>20, <1>21, <1>22, <1>23 DEF TurnsInv

\* The entry of the prompts.
LEMMA SaveAllTurns ==
    ASSUME SettingsInv, SavingInv, TurnsInv, next # << >>, NEW e, NEW rest, e = Head(next),
           rest = Tail(next), e.id = "P", SaveAllPrompts(rest), form' = form
    PROVE  TurnsInv'
<1>1. /\ Queue(rest, 3) /\ EntriesOK(rest) /\ (\A ids : Waits(rest, ids) => Waits(next, ids))
      /\ Waits(next, {"N", "I", "P"}) /\ Waits(next, {"P"})
      /\ \A i, j \in DOMAIN rest : rest[i].id = "N" => rest[j].dirtyN = rest[i].dirtyN
  BY HeadTail DEF Rank
<1>2. form.state # "left"
  BY Here
<1>3. (\A q \in net : ~IsSave(q)) /\ (\A q \in net : ~IsAll(q))
  BY <1>1 DEF TurnsInv
<1>4. CASE next' = rest /\ UNCHANGED <<prompts, net>>
  <2>1. Queue(rest, 0)
    BY <1>1 DEF Queue, Rank
  <2>2. EntriesOK(next)'
    BY <1>1, <1>4, StayEntered
  <2>3. /\ \A q \in net' : q.state # "sent" => q.live
        /\ \A q \in net' : q.live => Queue(q.rest, Place(q.kind))
    BY <1>4 DEF TurnsInv
  <2>4. Away' /\ TabsOK'
    BY <1>2, SameTabs DEF Away
  <2>5. QED
    BY <1>1, <1>3, <1>4, <2>1, <2>2, <2>3, <2>4 DEF TurnsInv
<1>5. CASE next' # rest \/ ~UNCHANGED <<prompts, net>>
  <2>1. PICK p : p = IF EditedIn(prompts) = {} THEN Load({}, "all", rest) ELSE PutNext(EditedIn(prompts), {}, rest)
    OBVIOUS
  <2>2. net' = net \cup {p} /\ prompts' = [prompts EXCEPT !.all = TRUE] /\ next' = << >>
    BY <1>5, <2>1 DEF SaveAllPrompts
  <2>3. p.live /\ p.state = "sent" /\ p.rest = rest /\ p.kind \in {"putPrompt", "getPrompts"} /\ p.owner = "all"
    <3>1. CASE EditedIn(prompts) = {}
      <4>1. IsLoad(p, {}, "all", rest)
        BY <2>1, <3>1, LoadIs
      <4>2. QED
        BY <4>1 DEF IsLoad, Sent
    <3>2. CASE EditedIn(prompts) # {}
      <4>1. PICK k, text, todo : p = Request("putPrompt", [key |-> k, text |-> text, todo |-> todo, done |-> {},
                                                         owner |-> "all"], rest)
        BY <2>1, <3>2 DEF PutNext
      <4>2. IsPut(p, k, text, todo, {}, "all", rest)
        BY <4>1, PutIs
      <4>3. QED
        BY <4>2 DEF IsPut, Sent
    <3>3. QED
      BY <3>1, <3>2
  <2>4. prompts'.all
    BY <2>2, Fields DEF SavingInv, PromptFields
  <2>5. ~IsSave(p) /\ Place(p.kind) = 3
    BY <2>3 DEF IsSave, Place
  <2>6. /\ \A q \in net' : q.state # "sent" => q.live
        /\ \A q \in net' : q.live => Queue(q.rest, Place(q.kind))
    BY <1>1, <2>2, <2>3, <2>5 DEF TurnsInv
  <2>7. Away' /\ TabsOK'
    BY <1>2, SameTabs DEF Away
  <2>8. /\ \A q \in net' : ~IsSave(q)
        /\ \A q, r \in net' : IsAll(q) /\ IsAll(r) => q = r
    BY <1>3, <2>2, <2>5
  <2>9. Queue(next', 0) /\ EntriesOK(next)' /\ \A ids : ~Waits(next', ids)
    BY <2>2 DEF Queue, EntriesOK, Waits
  <2>10. \A i, j \in DOMAIN next' : next'[i].id = "N" => next'[j].dirtyN = next'[i].dirtyN
    BY <2>2
  <2>11. QED
    BY <2>4, <2>6, <2>7, <2>8, <2>9, <2>10 DEF TurnsInv
<1>6. QED
  BY <1>4, <1>5

\* The bar's next entry.
LEMMA BarStartTurns == ASSUME SettingsInv, SavingInv, TurnsInv, BarStart PROVE TurnsInv'
<1>1. next # << >>
  BY DEF BarStart, Idle
<1>2. PICK e, rest : e = Head(next) /\ rest = Tail(next)
  OBVIOUS
<1>3. CASE e.id = "N" /\ SaveSettings("N", e.dirtyN, e.dirtyI, rest) /\ UNCHANGED prompts
  BY <1>1, <1>2, <1>3, SaveSettingsTurns DEF Mine
<1>4. CASE e.id = "I" /\ SaveSettings("I", e.dirtyI, e.dirtyN, rest) /\ UNCHANGED prompts
  BY <1>1, <1>2, <1>4, SaveSettingsTurns DEF Mine
<1>5. CASE e.id = "P" /\ SaveAllPrompts(rest) /\ UNCHANGED form
  BY <1>1, <1>2, <1>5, SaveAllTurns
<1>6. CASE e.id = "B" /\ PutRetention(rest) /\ next' = << >> /\ UNCHANGED <<form, prompts>>
  <2>1. PICK args : args = [retention |-> backups.draft]
    OBVIOUS
  <2>2. PICK p : p = Request("putRetention", args, rest)
    OBVIOUS
  <2>3. Minor(p) /\ (p.state = "sent")
    <3>1. DOMAIN args = {"retention"}
      BY <2>1
    <3>2. Common \cap DOMAIN args = {}
      BY <3>1 DEF Common
    <3>3. Queue(rest, 4)
      BY <1>1, <1>2, <1>6, HeadTail DEF Rank
    <3>4. QED
      BY <2>2, <3>2, <3>3, MinorSent
  <2>4. net' \subseteq net \cup {p}
    BY <1>6, <2>1, <2>2 DEF PutRetention
  <2>5. form.state # "left"
    BY <1>1, Here
  <2>6. QED
    BY <1>6, <2>3, <2>4, <2>5, AddsOne
<1>7. QED
  BY <1>2, <1>3, <1>4, <1>5, <1>6 DEF BarStart

-----------------------------------------------------------------------------
(* The server, and the page's part of an answer.                           *)

\* What the server adds.
LEMMA ServedBy ==
    ASSUME NEW q, Serve(q) \/ \E s : Fail(q, s)
    PROVE  \E s, result : DOMAIN result \subseteq {"settings", "prompts", "backups"} /\ Served(q, s, result)
<1>1. /\ \A x : DOMAIN [settings |-> x] = {"settings"} /\ DOMAIN [prompts |-> x] = {"prompts"}
                /\ DOMAIN [backups |-> x] = {"backups"}
      /\ DOMAIN << >> = {}
  OBVIOUS
<1>2. \A s : Fail(q, s) => Served(q, s, << >>)
  BY DEF Fail
<1>3. Serve(q) => \/ \E x : Served(q, "ok", [settings |-> x])
                  \/ \E x : Served(q, "ok", [prompts |-> x])
                  \/ \E x : Served(q, "ok", [backups |-> x])
                  \/ Served(q, "ok", << >>)
  BY DEF Serve
<1>4. QED
  BY <1>1, <1>2, <1>3

\* The server and the network.
LEMMA ServeTurns ==
    ASSUME TurnsInv, SavingInv, NEW q \in net, Serve(q) \/ \E s : Fail(q, s) PROVE TurnsInv'
<1>1. UNCHANGED <<form, prompts, backups, next>>
  BY DEF Serve, Fail
<1>2. PICK s, result : DOMAIN result \subseteq {"settings", "prompts", "backups"} /\ Served(q, s, result)
  BY ServedBy
<1>3. Shape(q) /\ Common \subseteq DOMAIN q /\ (q.state # "sent" => q.live) /\ (q.live => Queue(q.rest, Place(q.kind)))
  BY DEF SavingInv, Shape, TurnsInv
<1>4. CASE ~q.live
  <2>1. net' = net \ {q}
    BY <1>2, <1>4 DEF Served
  <2>2. net' \subseteq (net \ {q}) \cup {q} /\ ~IsSave(q) /\ ~IsAll(q)
    BY <1>4, <2>1 DEF IsSave, IsAll
  <2>3. QED
    BY <1>1, <1>3, <1>4, <2>2, Moves
<1>5. CASE q.live
  <2>1. PICK p : /\ net' = (net \ {q}) \cup {p}
                 /\ DOMAIN q \subseteq DOMAIN p
                 /\ \A x \in DOMAIN q \ ({"state"} \cup DOMAIN result) : p[x] = q[x]
    BY <1>2, <1>3, <1>5, ServedIs
  <2>2. \A x \in DOMAIN q : x \notin {"state", "settings", "prompts", "backups"} => p[x] = q[x]
    BY <1>2, <2>1
  <2>3. p.kind = q.kind /\ p.live /\ p.rest = q.rest
    BY <1>3, <1>5, <2>2 DEF Common
  <2>4. IsSave(q) => /\ p.patch = q.patch /\ p.over = q.over /\ {"patch", "over"} \subseteq DOMAIN p
    <3>1. IsSave(q) => {"patch", "over"} \subseteq DOMAIN q
      BY DEF TurnsInv, SaveOK
    <3>2. QED
      BY <2>1, <2>2, <3>1
  <2>5. IsSave(p) => IsSave(q)
    BY <1>5, <2>3 DEF IsSave
  <2>6. IsAll(p) => IsAll(q)
    <3>1. q.kind \in {"putPrompt", "getPrompts"} => "owner" \in DOMAIN q
      BY <1>3 DEF Shape
    <3>2. q.kind \in {"putPrompt", "getPrompts"} => p.owner = q.owner
      BY <2>2, <3>1
    <3>3. QED
      BY <1>5, <2>3, <3>2 DEF IsAll
  <2>7. form.state # "left"
    BY <1>5, Here
  <2>8. net' \subseteq (net \ {q}) \cup {p}
    BY <2>1
  <2>9. QED
    BY <1>1, <1>3, <1>5, <2>3, <2>4, <2>5, <2>6, <2>7, <2>8, Moves
<1>6. QED
  BY <1>4, <1>5

\* What Finish does to the section.
LEMMA FinishAll ==
    ASSUME NEW p, DOMAIN NoSection \subseteq DOMAIN p, NEW owner
    PROVE  owner # "all" => Finish(p, owner).all = p.all
<1>1. PICK b, a : /\ b = IF owner = "one" THEN NoKey ELSE p.busy
                  /\ a = IF owner = "all" THEN FALSE ELSE p.all
  OBVIOUS
<1>2. Finish(p, owner) = [p EXCEPT !.busy = b, !.all = a]
  BY <1>1, Fields DEF Finish
<1>3. QED
  BY <1>1, <1>2, Fields

\* Answers of the settings routes.
LEMMA FormAnswerTurns ==
    ASSUME TurnsInv, SavingInv, Idle, NEW q \in net, q.live,
           \/ q.kind = "getSettings" /\ AnswerSettings(q)
           \/ q.kind \in {"N", "I"} /\ AnswerSave(q)
           \/ q.kind = "test" /\ AnswerTest(q)
    PROVE  TurnsInv'
<1>1. {"state", "shown", "saved", "dirtyN", "dirtyI", "saving", "testing"} \subseteq DOMAIN form
  BY Fields DEF SavingInv, FormFields
<1>2. prompts' = prompts /\ form.state # "left" /\ next = << >>
  BY Here DEF AnswerSettings, AnswerSave, AnswerTest, Idle
<1>3. ASSUME form'.dirtyN = form.dirtyN, form'.dirtyI = form.dirtyI, form'.saving = form.saving,
             form'.state # "left", next' = << >>,
             NEW N, net' \subseteq net \cup N, \A p \in N : Minor(p) /\ (p.state = "sent")
      PROVE  TurnsInv'
  <2>1. Grows /\ TabsOK'
    BY <1>3, SameTabs DEF Grows
  <2>2. QED
    BY <1>2, <1>3, <2>1, Adds
<1>4. CASE q.kind = "getSettings" /\ AnswerSettings(q) /\ q.state = "ok"
  <2>1. form' = [form EXCEPT !.state = "ready", !.shown = q.settings, !.saved = q.settings] /\ next' = next
    BY <1>4 DEF AnswerSettings
  <2>2. form'.dirtyN = form.dirtyN /\ form'.dirtyI = form.dirtyI /\ form'.saving = form.saving /\ form'.state = "ready"
    BY <1>1, <2>1
  <2>3. PICK a : a = Load({}, "mount", << >>)
    OBVIOUS
  <2>4. Minor(a) /\ (a.state = "sent")
    BY <2>3, MinorLoad
  <2>5. PICK args : args = [owner |-> "mount"]
    OBVIOUS
  <2>6. PICK b : b = Request("getBackups", args, << >>)
    OBVIOUS
  <2>7. Minor(b) /\ (b.state = "sent")
    <3>1. DOMAIN args = {"owner"}
      BY <2>5
    <3>2. Common \cap DOMAIN args = {} /\ Queue(<< >>, 4)
      BY <3>1, NoQueue DEF Common
    <3>3. QED
      BY <2>6, <3>2, MinorSent
  <2>8. PICK N : N = {a, b}
    OBVIOUS
  <2>9. net' \subseteq net \cup N
    BY <1>4, <2>3, <2>5, <2>6, <2>8 DEF AnswerSettings
  <2>10. \A p \in N : Minor(p) /\ (p.state = "sent")
    BY <2>4, <2>7, <2>8
  <2>11. QED
    BY <1>2, <1>3, <2>1, <2>2, <2>9, <2>10
<1>5. CASE q.kind = "getSettings" /\ AnswerSettings(q) /\ q.state # "ok"
  <2>1. PICK st : st = IF q.state = "refused" THEN "broken" ELSE form.state
    OBVIOUS
  <2>2. form' = [form EXCEPT !.state = st] /\ next' = next /\ net' = net \ {q}
    BY <1>1, <1>5, <2>1 DEF AnswerSettings
  <2>3. form'.dirtyN = form.dirtyN /\ form'.dirtyI = form.dirtyI /\ form'.saving = form.saving /\ form'.state = st
    BY <1>1, <2>2
  <2>4. st # "left"
    BY <1>2, <2>1
  <2>5. PICK N : N = {}
    OBVIOUS
  <2>6. QED
    BY <1>2, <1>3, <2>2, <2>3, <2>4, <2>5
<1>6. CASE q.kind = "test" /\ AnswerTest(q)
  <2>1. form' = [form EXCEPT !.testing = FALSE] /\ next' = next /\ net' = net \ {q}
    BY <1>6 DEF AnswerTest
  <2>2. form'.dirtyN = form.dirtyN /\ form'.dirtyI = form.dirtyI /\ form'.saving = form.saving /\ form'.state = form.state
    BY <1>1, <2>1
  <2>3. PICK N : N = {}
    OBVIOUS
  <2>4. form'.state # "left" /\ next' = << >> /\ net' \subseteq net \cup N /\ \A p \in N : Minor(p) /\ (p.state = "sent")
    BY <1>2, <2>1, <2>2, <2>3
  <2>5. QED
    BY <1>3, <2>2, <2>4
<1>7. CASE q.kind \in {"N", "I"} /\ AnswerSave(q)
  <2>1. PICK saving : saving = form.saving \ {q.kind}
    OBVIOUS
  <2>2. PICK shown, dn, di : /\ shown = Over(q.over, q.settings)
                             /\ dn = (IF q.kind = "N" THEN << >> ELSE form.dirtyN)
                             /\ di = (IF q.kind = "I" THEN << >> ELSE form.dirtyI)
    OBVIOUS
  <2>3. \/ form' = [form EXCEPT !.saving = saving]
        \/ form' = [form EXCEPT !.saving = saving, !.shown = shown, !.saved = q.settings,
                                !.dirtyN = dn, !.dirtyI = di]
    BY <1>1, <1>7, <2>1, <2>2 DEF AnswerSave
  <2>4. /\ form'.state = form.state
        /\ form'.dirtyN = form.dirtyN \/ form'.dirtyN = dn
        /\ form'.dirtyI = form.dirtyI \/ form'.dirtyI = di
    BY <1>1, <2>3
  <2>5. TabsOK'
    BY <2>2, <2>4 DEF TurnsInv, TabsOK, Edits
  <2>6. q.kind = "N" => form'.dirtyI = form.dirtyI
    BY <2>2, <2>4
  <2>7. IsSave(q) /\ net' = net \ {q} /\ next' = q.rest
    BY <1>7 DEF IsSave, AnswerSave
  <2>8. QED
    BY <1>2, <2>4, <2>5, <2>6, <2>7, Ends
<1>8. QED
  BY <1>4, <1>5, <1>6, <1>7

\* Answers of the prompts routes.
LEMMA PromptAnswerTurns ==
    ASSUME TurnsInv, SavingInv, Idle, NEW q \in net, q.live,
           \/ q.kind = "getPrompts" /\ AnswerLoad(q)
           \/ q.kind = "putPrompt" /\ AnswerPut(q)
           \/ q.kind = "resetPrompt" /\ AnswerReset(q)
    PROVE  TurnsInv'
<1>. Shape(q) /\ DOMAIN NoSection \subseteq DOMAIN prompts /\ form.state # "left" /\ form' = form /\ next = << >>
     /\ Queue(q.rest, Place(q.kind))
  BY Here DEF SavingInv, PromptFields, AnswerLoad, AnswerPut, AnswerReset, Idle, TurnsInv
<1>1. ASSUME NEW p, DOMAIN NoSection \subseteq DOMAIN p, p.all = prompts.all, prompts' = Finish(p, q.owner),
             net' = net \ {q}, next' = q.rest, q.kind \in {"getPrompts", "putPrompt"}
      PROVE  TurnsInv'
  <2>1. IsAll(q) \/ prompts'.all = prompts.all
    BY <1>1, FinishAll DEF IsAll
  <2>2. TabsOK' /\ ~(q.kind = "N")
    BY <1>1, SameTabs
  <2>3. QED
    BY <1>1, <2>1, <2>2, Ends
<1>2. CASE q.kind = "getPrompts" /\ AnswerLoad(q)
  <2>1. PICK loaded : /\ prompts' = Finish(loaded, q.owner)
                      /\ \/ loaded = prompts
                         \/ \E l, d : loaded = [prompts EXCEPT !.list = l, !.drafts = d]
    BY <1>2 DEF AnswerLoad
  <2>2. DOMAIN NoSection \subseteq DOMAIN loaded /\ loaded.all = prompts.all
    BY <2>1, Fields
  <2>3. QED
    BY <1>1, <1>2, <2>1, <2>2 DEF AnswerLoad
<1>3. CASE q.kind = "putPrompt" /\ AnswerPut(q)
  <2>1. ASSUME NEW done, net' = (net \ {q}) \cup {NextPut(q, done)}, UNCHANGED <<prompts, next>> PROVE TurnsInv'
    <3>1. PICK k, text, todo : NextPut(q, done) = [q EXCEPT !.key = k, !.text = text, !.done = done,
                                                           !.state = "sent", !.todo = todo]
      BY DEF NextPut
    <3>2. PICK p : p = NextPut(q, done)
      OBVIOUS
    <3>3. p.kind = q.kind /\ p.live /\ p.owner = q.owner /\ p.rest = q.rest /\ p.state = "sent"
      BY <1>3, <3>1, <3>2 DEF Shape, Common
    <3>4. ~IsSave(p) /\ (IsAll(p) => IsAll(q))
      BY <1>3, <3>3 DEF IsSave, IsAll
    <3>5. net' \subseteq (net \ {q}) \cup {p}
      BY <2>1, <3>2
    <3>6. QED
      BY <2>1, <3>3, <3>4, <3>5, Moves
  <2>2. ASSUME NEW settled, net' = (net \ {q}) \cup {Load(settled, q.owner, q.rest)}, UNCHANGED <<prompts, next>>
        PROVE TurnsInv'
    <3>1. PICK p : p = Load(settled, q.owner, q.rest)
      OBVIOUS
    <3>2. IsLoad(p, settled, q.owner, q.rest)
      BY <3>1, LoadIs
    <3>3. p.kind = "getPrompts" /\ p.live /\ p.owner = q.owner /\ p.rest = q.rest /\ p.state = "sent"
      BY <3>2 DEF IsLoad, Sent
    <3>4. ~IsSave(p) /\ (IsAll(p) => IsAll(q)) /\ Place(p.kind) = Place(q.kind)
      BY <1>3, <3>3 DEF IsSave, IsAll, Place
    <3>5. net' \subseteq (net \ {q}) \cup {p}
      BY <2>2, <3>1
    <3>6. QED
      BY <2>2, <3>3, <3>4, <3>5, Moves
  <2>3. ASSUME net' = net \ {q}, prompts' = Finish(prompts, q.owner), next' = q.rest PROVE TurnsInv'
    BY <1>1, <1>3, <2>3
  <2>4. QED
    BY <1>3, <2>1, <2>2, <2>3 DEF AnswerPut
<1>4. CASE q.kind = "resetPrompt" /\ AnswerReset(q)
  <2>1. CASE q.state = "ok"
    <3>1. PICK p : p = Load({q.key}, "one", << >>)
      OBVIOUS
    <3>2. Minor(p) /\ (p.state = "sent")
      BY <3>1, MinorLoad
    <3>3. net' \subseteq net \cup {p} /\ prompts' = prompts /\ next' = << >>
      BY <1>4, <2>1, <3>1 DEF AnswerReset
    <3>4. QED
      BY <3>2, <3>3, AddsOne
  <2>2. CASE q.state # "ok"
    <3>1. net' \subseteq net /\ prompts' = Finish(prompts, "one") /\ next' = << >>
      BY <1>4, <2>2 DEF AnswerReset
    <3>2. prompts'.all = prompts.all
      BY <3>1, FinishAll
    <3>3. QED
      BY <3>1, <3>2, AddsNone
  <2>3. QED
    BY <2>1, <2>2
<1>5. QED
  BY <1>2, <1>3, <1>4

\* Answers of the backups routes.
LEMMA BackupAnswerTurns ==
    ASSUME TurnsInv, SavingInv, Idle, NEW q \in net, q.live,
           \/ q.kind = "getBackups" /\ AnswerBackups(q)
           \/ q.kind = "putRetention" /\ AnswerRetention(q)
           \/ q.kind = "deleteDump" /\ AnswerDelete(q)
    PROVE  TurnsInv'
<1>1. form.state # "left" /\ form' = form /\ prompts' = prompts /\ next = << >>
  BY Here DEF AnswerBackups, AnswerRetention, AnswerDelete, Idle
<1>2. CASE q.kind = "putRetention" /\ AnswerRetention(q)
  <2>1. net' = net \ {q} /\ next' = q.rest /\ ~(q.kind = "N")
    BY <1>2 DEF AnswerRetention
  <2>2. QED
    BY <1>1, <2>1, Ends, SameTabs
<1>3. CASE net' = net \ {q} /\ next' = next
  BY <1>1, <1>3, AddsNone
<1>4. CASE q.kind = "deleteDump" /\ AnswerDelete(q) /\ q.state = "ok"
  <2>1. PICK args : args = [owner |-> "delete"]
    OBVIOUS
  <2>2. PICK p : p = Request("getBackups", args, << >>)
    OBVIOUS
  <2>3. Minor(p) /\ (p.state = "sent")
    <3>1. DOMAIN args = {"owner"}
      BY <2>1
    <3>2. Common \cap DOMAIN args = {} /\ Queue(<< >>, 4)
      BY <3>1, NoQueue DEF Common
    <3>3. QED
      BY <2>2, <3>2, MinorSent
  <2>4. net' \subseteq net \cup {p} /\ next' = << >>
    BY <1>1, <1>4, <2>1, <2>2 DEF AnswerDelete
  <2>5. QED
    BY <1>1, <2>3, <2>4, AddsOne
<1>5. QED
  BY <1>2, <1>3, <1>4 DEF AnswerBackups, AnswerDelete

\* Every step keeps the turns.
LEMMA TurnsStep == ASSUME SettingsInv, SavingInv, TurnsInv, [Next]_vars PROVE TurnsInv'
<1>1. CASE UNCHANGED vars
  BY <1>1 DEF vars, TurnsInv, Away, TabsOK, EntriesOK, Entered, Dirty, SaveOK
<1>2. ASSUME NEW q \in net, Idle, Answer(q) PROVE TurnsInv'
  <2>1. q.live
    BY <1>2 DEF Answer, TurnsInv
  <2>2. QED
    BY <1>2, <2>1, FormAnswerTurns, PromptAnswerTurns, BackupAnswerTurns DEF Answer
<1>3. CASE Idle /\ User
  <2>1. CASE \E how \in {"link", "back"}, yes \in BOOLEAN : Leave(how, yes)
    BY <1>3, <2>1, LeaveTurns
  <2>2. QED
    BY <1>3, <2>1, OpenTurns, EditSettingsTurns, EditPromptsTurns, EditBackupsTurns,
       BarSaveTurns, BarDiscardTurns, RetryLoadTurns DEF User
<1>4. CASE Idle /\ Network
  BY <1>2, <1>4, ServeTurns DEF Network
<1>5. QED
  BY <1>1, <1>3, <1>4, BarStartTurns DEF Next

\* At the start.
LEMMA TurnsStart == Init => TurnsInv
<1>1. SUFFICES ASSUME Init PROVE TurnsInv
  OBVIOUS
<1>2. form = LeftForm /\ prompts = NoSection /\ backups = NoBackups /\ net = {} /\ next = << >>
  BY <1>1 DEF Init, LeftForm
<1>3. form.dirtyN = << >> /\ form.dirtyI = << >>
  BY <1>2 DEF LeftForm, NoForm
<1>4. QED
  BY <1>2, <1>3, NoQueue DEF TurnsInv, Away, TabsOK, Edits, Waits

\* The start, for the saving controls.
LEMMA SavingStart == Init => SavingInv
<1>1. SUFFICES ASSUME Init PROVE SavingInv
  OBVIOUS
<1>2. /\ form = [NoForm EXCEPT !.state = "left"] /\ prompts = NoSection /\ backups = NoBackups
      /\ net = {}
  BY <1>1 DEF Init
<1>3. QED
  BY <1>2
  DEF SavingInv, FormFields, OfForm, PromptFields, OfPrompts, BackupFields, OfBackups, NoForm,
      NoSection, NoBackups

\* The page saves in turns.
THEOREM TurnsTaken == Spec => [](SettingsInv /\ SavingInv /\ TurnsInv)
<1>1. SettingsInv /\ SavingInv /\ TurnsInv /\ [Next]_vars => (SettingsInv /\ SavingInv /\ TurnsInv)'
  BY StepKeeps, SavingStep, TurnsStep DEF Keeps
<1>2. QED
  BY InitHolds, SavingStart, TurnsStart, <1>1, PTL DEF Spec
=============================================================================
