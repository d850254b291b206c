------------------------- MODULE SettingsProperties -------------------------
(***************************************************************************)
(* What the Settings page must keep while requests are under way, fail and *)
(* overlap, and the user goes on editing.                                  *)
(***************************************************************************)
EXTENDS Settings

\* What is stored of a setting is what an edit of that very field left in it, however
\* saves, reloads and answers overlap: a save sends what was edited, not what the form
\* shows, so the mask a secret is shown as (notification_settings.mask_sensitive) is not
\* stored in its place.  Excepted is a mask the user's own edit of that input kept, in
\* part or, typed and deleted again, as a whole: it is stored as the secret, unchecked.
StoredIsEntered ==
    \A f \in Field : db.settings[f] # FromEnv => <<f, db.settings[f]>> \in entered

\* A setting typed after Save was pressed is not stored by that Save: nothing is stored
\* half-finished (UnsavedChanges.tsx: why there is a bar and no auto-save).
NeverHalfFinished ==
    [][\A f \in Field : db'.settings[f] # db.settings[f] => <<f, db'.settings[f]>> \in submitted]_vars

\* What the bar does not list is stored: with nothing unsaved and no request under way,
\* the page shows what the server has.  It is what makes leaving without a question
\* safe.  Excepted is what the page cannot know: lost answers, overlapping requests,
\* and a refresh that failed.
UnlistedIsStored ==
    form.state = "ready" /\ net = {} /\ Idle /\ ~AnyUnsaved /\ ~astray =>
        /\ Respond(form.shown) = Respond(db.settings)
        /\ prompts.list # NoPrompts => prompts.list = db.prompts
        /\ backups.state = "ready" =>
              backups.draft = db.retention /\ backups.dumps = db.dumps

\* A prompt's draft is dropped when that very text was stored, by the prompt's reset, by
\* Discard or by leaving, never because another prompt was saved (#1069).  Excepted is
\* the text that the start or the end of another prompt's save unblocked while its own
\* save was under way.
DraftsKept ==
    [][\A k \in DOMAIN prompts.drafts \ DOMAIN prompts'.drafts :
            <<k, prompts.drafts[k]>> \in droppable \/ BarDiscard \/ form'.state = "left"]_vars

\* No control stays disabled: what says it is saving has a request under way, however
\* saves, failures and loads interleave.
SavingHasRequest ==
    LET owned(o) == \E q \in Under({"putPrompt", "resetPrompt", "getPrompts", "getBackups"}) :
                        "owner" \in DOMAIN q /\ q.owner = o
    IN  /\ \A kind \in form.saving : Under({kind}) # {}
        /\ form.testing => Under({"test"}) # {}
        /\ prompts.busy # NoKey => owned("one")
        /\ prompts.all => owned("all")
        /\ backups.saving => Under({"putRetention"}) # {}
        /\ backups.deleting => Under({"deleteDump"}) # {} \/ owned("delete")

-----------------------------------------------------------------------------
\* NotificationSettings.tsx:136 says that the other tab's unsaved edits are laid back over
\* the answer of a save, "or they would vanish from the form while still being counted as
\* unsaved".  The statement: what is counted as unsaved is what the form shows.
CountedEditsShown ==
    form.state = "ready" =>
        /\ \A f \in DOMAIN form.dirtyN : form.shown[f] = form.dirtyN[f]
        /\ \A f \in DOMAIN form.dirtyI : form.shown[f] = form.dirtyI[f]
=============================================================================
