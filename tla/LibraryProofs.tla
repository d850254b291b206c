---------------------------- MODULE LibraryProofs ----------------------------
(***************************************************************************)
(* The audio player, the dialogs of the feeds page, the search page and    *)
(* the queue page, for every set of recordings, feeds, queries, sources,   *)
(* speakers and episodes and any number of clicks and visits: what sounds  *)
(* is what the bar names; a picker is that of its own dialog, and what was *)
(* picked and is out of sight stays picked; the list of feeds follows the  *)
(* server; the search page shows what its address says; the queue page     *)
(* shows every episode and counts what it shows.                           *)
(***************************************************************************)
EXTENDS LibraryProperties, FiniteSetTheorems, TLAPS

-----------------------------------------------------------------------------
(* The player.                                                             *)

PlayerType == player \in [episode : Recordings \cup {None}, src : Recordings \cup {None},
                          start : Times, isPlaying : BOOLEAN]
AudioType == audio \in [there : BOOLEAN, src : Recordings \cup {None}, ready : BOOLEAN,
                        paused : BOOLEAN, muted : BOOLEAN, time : Times]
BarType == bar \in [time : Times, length : {0, Length}, collapsed : BOOLEAN,
                    muted : BOOLEAN, failed : BOOLEAN]

\* The element has the source of the player, and nothing plays without one.
SameSource == audio.src = player.src /\ (audio.src = None => audio.paused)

PlayerInv == PlayerType /\ AudioType /\ BarType /\ SameSource

\* The invariant holds at the start.
LEMMA PlayerInvInit == ASSUME PlayerInit PROVE PlayerInv
BY PlayerAssumption
DEF PlayerInit, PlayerInv, PlayerType, AudioType, BarType, SameSource, ClosedPlayer, NoAudio,
    NewBar, Times

\* A new bar has the type of a bar.
LEMMA NewBarTyped ==
    NewBar \in [time : Times, length : {0, Length}, collapsed : BOOLEAN, muted : BOOLEAN,
                failed : BOOLEAN]
BY PlayerAssumption DEF NewBar, Times

\* Opening an episode loads its source, or leaves the one that is the same.
LEMMA OpenKeeps ==
    ASSUME PlayerInv, NEW r \in Recordings, NEW file \in BOOLEAN, NEW start \in Times,
           PlayEpisode(r, file, start)
    PROVE  PlayerInv'
<1> DEFINE next == [episode |-> r, src |-> IF file THEN r ELSE None, start |-> start,
                    isPlaying |-> file]
<1>1. player' = next /\ Open(player')
  BY DEF PlayEpisode
<1>2. PlayerType'
  BY <1>1 DEF PlayerType
<1>3. CASE Changes(player')
  <2>1. audio' = [audio EXCEPT !.there = TRUE, !.src = player'.src, !.ready = FALSE,
                               !.paused = TRUE, !.time = 0]
    BY <1>1, <1>3 DEF Open, Loaded
  <2>2. 0 \in Times
    BY PlayerAssumption DEF Times
  <2>3. player'.src \in Recordings \cup {None}
    BY <1>2 DEF PlayerType
  <2>4. AudioType' /\ SameSource'
    BY <2>1, <2>2, <2>3 DEF PlayerInv, AudioType, SameSource
  <2>5. bar' = NewBar \/ bar' = [bar EXCEPT !.failed = FALSE]
    BY <1>1, <1>3 DEF Open
  <2>6. BarType'
    BY <2>5, NewBarTyped DEF PlayerInv, BarType
  <2>7. QED
    BY <1>2, <2>4, <2>6 DEF PlayerInv
<1>4. CASE ~Changes(player')
  <2>1. audio' = [audio EXCEPT !.there = TRUE] /\ bar' = bar
    BY <1>1, <1>4 DEF Open
  <2>2. player'.src = player.src
    BY <1>4 DEF Changes
  <2>3. QED
    BY <1>2, <2>1, <2>2 DEF PlayerInv, AudioType, BarType, SameSource
<1>5. QED
  BY <1>3, <1>4

\* Every step of the player keeps the invariant.
LEMMA PlayerStep == ASSUME PlayerInv, PlayerNext PROVE PlayerInv'
<1> USE PlayerAssumption
<1>1. ASSUME NEW r \in Recordings, NEW file \in BOOLEAN, NEW start \in Times,
             PlayEpisode(r, file, start)
      PROVE  PlayerInv'
  BY <1>1, OpenKeeps
<1>2. CASE TogglePlayPause
  BY <1>2 DEF TogglePlayPause, PlayerInv, PlayerType, AudioType, BarType, SameSource
<1>3. CASE ClosePlayer
  <2>1. player' = ClosedPlayer /\ audio' = NoAudio
        /\ (bar' = bar \/ bar' = [NewBar EXCEPT !.failed = bar.failed])
    BY <1>3 DEF ClosePlayer
  <2>2. PlayerType' /\ AudioType' /\ SameSource'
    BY <2>1 DEF PlayerType, AudioType, SameSource, ClosedPlayer, NoAudio, Times
  <2>3. BarType'
    BY <2>1, NewBarTyped DEF PlayerInv, BarType
  <2>4. QED
    BY <2>2, <2>3 DEF PlayerInv
<1>4. CASE ToggleMute
  BY <1>4 DEF ToggleMute, PlayerInv, PlayerType, AudioType, BarType, SameSource
<1>5. CASE Collapse
  BY <1>5 DEF Collapse, PlayerInv, PlayerType, AudioType, BarType, SameSource
<1>6. CASE LoadedMetadata
  <2> DEFINE time == IF player.start > 0 THEN player.start ELSE audio.time
  <2>1. time \in Times
    BY DEF PlayerInv, PlayerType, AudioType
  <2>2. PICK refused \in BOOLEAN :
            audio' = [audio EXCEPT !.ready = TRUE, !.time = time, !.paused = @ /\ refused]
    BY <1>6 DEF LoadedMetadata
  <2>3. bar' = [bar EXCEPT !.time = time, !.length = Length]
        /\ player' = player /\ audio.src # None
    BY <1>6 DEF LoadedMetadata
  <2> HIDE DEF time
  <2>4. AudioType' /\ SameSource'
    BY <2>1, <2>2, <2>3 DEF PlayerInv, AudioType, SameSource
  <2>5. PlayerType' /\ BarType'
    BY <2>1, <2>3 DEF PlayerInv, PlayerType, BarType
  <2>6. QED
    BY <2>4, <2>5 DEF PlayerInv
<1>7. CASE TimePasses
  <2>1. audio.time + 1 \in Times
    BY <1>7 DEF TimePasses, PlayerInv, AudioType, Times
  <2>2. QED
    BY <1>7, <2>1 DEF TimePasses, PlayerInv, PlayerType, AudioType, BarType, SameSource
<1>8. CASE AudioFails
  BY <1>8 DEF AudioFails, PlayerInv, PlayerType, AudioType, BarType, SameSource
<1>9. ASSUME NEW time \in Times, SeekTo(time) PROVE PlayerInv'
  BY <1>9 DEF SeekTo, PlayerInv, PlayerType, AudioType, BarType, SameSource
<1>10. ASSUME NEW seconds \in {-1, 1}, Skip(seconds) PROVE PlayerInv'
  <2> DEFINE ahead == audio.time + seconds
             time == IF ahead < 0 THEN 0 ELSE IF ahead > bar.length THEN bar.length ELSE ahead
  <2>1. time \in Times
    <3>1. audio.time \in Nat /\ bar.length \in {0, Length}
      BY DEF PlayerInv, AudioType, BarType, Times
    <3>2. QED
      BY <3>1 DEF Times
  <2>2. /\ audio' = [audio EXCEPT !.time = time] /\ bar' = [bar EXCEPT !.time = time]
        /\ player' = player
    BY <1>10 DEF Skip
  <2> HIDE DEF time
  <2>3. QED
    BY <2>1, <2>2 DEF PlayerInv, PlayerType, AudioType, BarType, SameSource
<1>11. QED
  BY <1>1, <1>2, <1>3, <1>4, <1>5, <1>6, <1>7, <1>8, <1>9, <1>10 DEF PlayerNext

\* No other page touches the player.
LEMMA OtherPages == ASSUME PlayerInv, playerVars' = playerVars PROVE PlayerInv'
BY DEF PlayerInv, PlayerType, AudioType, BarType, SameSource, playerVars

\* The invariant of the player holds for every behaviour of the library.
THEOREM PlayerInvariant == LibrarySpec => []PlayerInv
<1>1. LibraryInit => PlayerInv
  BY PlayerInvInit DEF LibraryInit
<1>2. ASSUME PlayerInv, [LibraryNext]_libraryVars PROVE PlayerInv'
  <2>1. OnPlayer => PlayerInv'
    BY <1>2, PlayerStep DEF OnPlayer
  <2>2. ~OnPlayer => playerVars' = playerVars
    BY <1>2 DEF LibraryNext, libraryVars, OnFeeds, OnSearch, OnQueue
  <2>3. QED
    BY <1>2, <2>1, <2>2, OtherPages
<1>3. QED
  BY <1>1, <1>2, PTL DEF LibrarySpec

\* What sounds is the recording that the bar names (AudioPlayer.tsx: the effects on the
\* source of the element), whatever is opened, closed, seeked and answered in between.
THEOREM SoundMatchesBar == LibrarySpec => []PlaysWhatItShows
<1>1. PlayerInv => PlaysWhatItShows
  BY DEF PlayerInv, AudioType, SameSource, PlaysWhatItShows
<1>2. QED
  BY <1>1, PlayerInvariant, PTL

-----------------------------------------------------------------------------
(* The feeds page.                                                         *)

PickerShape(p) == DOMAIN p = {"of", "dialog", "existing", "picked", "shown"}

\* The dialog "Add feed": a request of it is a preview that it waits for, and a picker
\* comes with the answer.
AddOK ==
    /\ DOMAIN add = {"open", "dialog", "url", "mode", "error", "request", "picker"}
    /\ PickerShape(add.picker)
    /\ add.picker # NoPicker => add.picker.dialog = add.dialog /\ add.open /\ add.request = 0
    /\ add.open => add.dialog \in 1 .. clicks
    /\ ~add.open => add.request = 0 /\ add.dialog = 0
PreviewsOK ==
    \A p \in previews : p.id \in 1 .. clicks /\ (p.id = add.request => p.dialog = add.dialog)

\* The dialog "Add episodes": it has one load, and the picker comes with its answer.
MoreOK ==
    /\ DOMAIN more = {"feed", "dialog", "loading", "error", "pending", "picker"}
    /\ PickerShape(more.picker)
    /\ more.picker # NoPicker =>
          /\ more.picker.of = more.feed /\ more.picker.dialog = more.dialog
          /\ more.dialog # 0
          /\ more.picker.existing \subseteq more.picker.picked
    /\ more.dialog \in 0 .. clicks
LoadsOK ==
    /\ \A l \in loads : l.dialog \in 1 .. clicks
    /\ \A l \in loads : l.dialog = more.dialog => l.feed = more.feed /\ more.picker = NoPicker
    /\ \A l, m \in loads : l.dialog = m.dialog => l = m

FeedsInv == clicks \in Nat /\ AddOK /\ PreviewsOK /\ MoreOK /\ LoadsOK

\* What no step takes away from the pickers.
Kept ==
    /\ SamePicker(add.picker, add'.picker) => Hidden(add.picker) \subseteq add'.picker.picked
    /\ SamePicker(more.picker, more'.picker) =>
          Hidden(more.picker) \cup more.picker.existing \subseteq more'.picker.picked

-----------------------------------------------------------------------------
(* Pickers.                                                                *)

\* A new picker has its episodes picked from the start.
LEMMA NewPicker ==
    ASSUME NEW f, NEW d, NEW existing
    PROVE  LET p == Picker(f, d, existing)
           IN  PickerShape(p) /\ p.of = f /\ p.dialog = d /\ p.existing = existing /\ p.picked = existing
BY DEF Picker, PickerShape

\* A closed dialog has no picker.
LEMMA NoPickerShape == PickerShape(NoPicker) /\ NoPicker.dialog = 0
BY DEF NoPicker, PickerShape

\* What clicks and filters do to a picker.
SameOwner(p, q) == PickerShape(q) /\ q.of = p.of /\ q.dialog = p.dialog /\ q.existing = p.existing
KeepsHidden(p, q) ==
    /\ SameOwner(p, q) /\ Hidden(p) \subseteq q.picked
    /\ p.existing \subseteq p.picked => p.existing \subseteq q.picked

\* A click on an episode in sight.
LEMMA ToggledKeeps ==
    ASSUME NEW p, PickerShape(p), NEW g, g \in p.shown PROVE KeepsHidden(p, Toggled(p, g))
<1>1. CASE g \in p.existing
  BY <1>1 DEF Toggled, KeepsHidden, SameOwner, Hidden
<1>2. CASE g \notin p.existing
  <2>1. PICK q : q = Toggled(p, g)
    OBVIOUS
  <2>2. q = [p EXCEPT !.picked = @ \ {g}] \/ q = [p EXCEPT !.picked = @ \cup {g}]
    BY <1>2, <2>1 DEF Toggled
  <2>3. SameOwner(p, q) /\ (q.picked = p.picked \ {g} \/ q.picked = p.picked \cup {g})
    <3>1. CASE q = [p EXCEPT !.picked = @ \ {g}]
      BY <3>1 DEF PickerShape, SameOwner
    <3>2. CASE q = [p EXCEPT !.picked = @ \cup {g}]
      BY <3>2 DEF PickerShape, SameOwner
    <3>3. QED
      BY <2>2, <3>1, <3>2
  <2>4. Hidden(p) \subseteq q.picked
    BY <2>3 DEF Hidden
  <2>5. p.existing \subseteq p.picked => p.existing \subseteq q.picked
    BY <1>2, <2>3
  <2>6. KeepsHidden(p, q)
    BY <2>3, <2>4, <2>5 DEF KeepsHidden
  <2>7. QED
    BY <2>1, <2>6
<1>3. QED
  BY <1>1, <1>2

\* The button for all episodes in sight.
LEMMA AllToggledKeeps ==
    ASSUME NEW p, PickerShape(p) PROVE KeepsHidden(p, AllToggled(p))
<1>1. PICK scope : scope = p.shown \ p.existing
  OBVIOUS
<1>2. PICK q : q = AllToggled(p)
  OBVIOUS
<1>3. q = [p EXCEPT !.picked = @ \ scope] \/ q = [p EXCEPT !.picked = @ \cup scope]
  BY <1>1, <1>2 DEF AllToggled
<1>4. SameOwner(p, q) /\ (q.picked = p.picked \ scope \/ q.picked = p.picked \cup scope)
  <2>1. CASE q = [p EXCEPT !.picked = @ \ scope]
    BY <2>1 DEF PickerShape, SameOwner
  <2>2. CASE q = [p EXCEPT !.picked = @ \cup scope]
    BY <2>2 DEF PickerShape, SameOwner
  <2>3. QED
    BY <1>3, <2>1, <2>2
<1>5. Hidden(p) \subseteq q.picked
  BY <1>1, <1>4 DEF Hidden
<1>6. p.existing \subseteq p.picked => p.existing \subseteq q.picked
  BY <1>1, <1>4
<1>7. KeepsHidden(p, q)
  BY <1>4, <1>5, <1>6 DEF KeepsHidden
<1>8. QED
  BY <1>2, <1>7

\* A filter, by the title or the date of the episodes.
LEMMA PickerFilterKeeps ==
    ASSUME NEW p, PickerShape(p), NEW s, NEW q, q = [p EXCEPT !.shown = s] PROVE KeepsHidden(p, q)
<1>1. SameOwner(p, q) /\ q.picked = p.picked
  BY DEF PickerShape, SameOwner
<1>2. QED
  BY <1>1 DEF KeepsHidden, Hidden

\* A picker that stays as it is.
LEMMA SameKeeps ==
    ASSUME NEW p, PickerShape(p) PROVE KeepsHidden(p, p)
BY DEF KeepsHidden, SameOwner, Hidden

-----------------------------------------------------------------------------
(* Steps.                                                                  *)

\* The rest of the page leaves the dialogs alone.
LEMMA DialogsUntouched ==
    ASSUME FeedsInv, UNCHANGED <<add, previews, more, loads>>, clicks' \in Nat, clicks' >= clicks
    PROVE  FeedsInv' /\ Kept
<1>1. AddOK' /\ PreviewsOK' /\ MoreOK' /\ LoadsOK'
  BY DEF FeedsInv, AddOK, PreviewsOK, MoreOK, LoadsOK
<1>2. Hidden(add.picker) \subseteq add'.picker.picked
  BY DEF Hidden
<1>3. more.picker # NoPicker => Hidden(more.picker) \cup more.picker.existing \subseteq more'.picker.picked
  BY DEF FeedsInv, MoreOK, Hidden
<1>4. QED
  BY <1>1, <1>2, <1>3 DEF FeedsInv, Kept, SamePicker

\* Steps of the dialog "Add feed" only.
LEMMA MoreUntouched ==
    ASSUME FeedsInv, UNCHANGED <<more, loads>>, clicks' \in Nat, clicks' >= clicks
    PROVE  /\ MoreOK' /\ LoadsOK'
           /\ SamePicker(more.picker, more'.picker) =>
                 Hidden(more.picker) \cup more.picker.existing \subseteq more'.picker.picked
BY DEF FeedsInv, MoreOK, LoadsOK, Hidden, SamePicker

\* Steps of the dialog "Add episodes" only.
LEMMA AddUntouched ==
    ASSUME FeedsInv, UNCHANGED <<add, previews>>, clicks' \in Nat, clicks' >= clicks
    PROVE  /\ AddOK' /\ PreviewsOK'
           /\ SamePicker(add.picker, add'.picker) => Hidden(add.picker) \subseteq add'.picker.picked
BY DEF FeedsInv, AddOK, PreviewsOK, Hidden

\* A dialog that keeps its picker, or loses it.
LEMMA AddPickerStays ==
    ASSUME AddOK, add'.picker = add.picker \/ add'.picker = NoPicker
    PROVE  SamePicker(add.picker, add'.picker) => Hidden(add.picker) \subseteq add'.picker.picked
<1>1. CASE add'.picker = add.picker
  BY <1>1 DEF Hidden
<1>2. CASE add'.picker = NoPicker
  BY <1>2, NoPickerShape DEF AddOK, SamePicker
<1>3. QED
  BY <1>1, <1>2

\* A dialog that is open only loses what it has.
LEMMA AddSteps ==
    ASSUME FeedsInv,
           \/ OpenAdd \/ CancelAdd \/ AskPreview \/ BackToUrl \/ SubmitFeed \/ AnswerFeed \/ LoseFeed
           \/ \E f, mode : EditAdd(f, mode)
           \/ \E p \in previews : AnswerPreview(p) \/ FailPreview(p)
    PROVE  FeedsInv' /\ Kept
<1>f. clicks \in Nat /\ AddOK /\ PreviewsOK
  BY DEF FeedsInv
<1>d. clicks' = clicks \/ clicks' = clicks + 1
  BY DEF OpenAdd, CancelAdd, AskPreview, BackToUrl, SubmitFeed, AnswerFeed, LoseFeed, EditAdd,
         AnswerPreview, FailPreview, Click
<1>c. clicks' \in Nat /\ clicks' >= clicks
  BY <1>f, <1>d
<1>m. UNCHANGED <<more, loads>>
  BY DEF OpenAdd, CancelAdd, AskPreview, BackToUrl, SubmitFeed, AnswerFeed, LoseFeed, EditAdd,
         AnswerPreview, FailPreview, moreVars
<1>p. SUFFICES AddOK' /\ PreviewsOK'
               /\ (SamePicker(add.picker, add'.picker) => Hidden(add.picker) \subseteq add'.picker.picked)
  BY <1>c, <1>m, MoreUntouched DEF FeedsInv, Kept
<1>1. CASE OpenAdd
  <2>1. /\ ~add.open /\ clicks' = clicks + 1 /\ previews' = previews
        /\ add' = [add EXCEPT !.open = TRUE, !.dialog = clicks']
    BY <1>1 DEF OpenAdd, Click
  <2>2. /\ DOMAIN add' = DOMAIN add /\ add'.open /\ add'.dialog = clicks'
        /\ add'.picker = add.picker /\ add'.request = add.request
    BY <1>f, <2>1 DEF AddOK
  <2>3. AddOK' /\ PreviewsOK'
    BY <1>f, <2>1, <2>2 DEF AddOK, PreviewsOK
  <2>4. QED
    BY <1>f, <2>2, <2>3, AddPickerStays
<1>2. CASE CancelAdd \/ (AnswerFeed /\ posting.phase = "added")
  <2>1. add' = ClosedAdd /\ previews' = previews /\ clicks' = clicks
    BY <1>2 DEF CancelAdd, AnswerFeed
  <2>2. AddOK' /\ PreviewsOK'
    BY <1>f, <2>1, NoPickerShape DEF AddOK, PreviewsOK, ClosedAdd
  <2>3. add'.picker = NoPicker
    BY <2>1 DEF ClosedAdd
  <2>4. QED
    BY <1>f, <2>2, <2>3, AddPickerStays
<1>3. CASE SubmitFeed \/ (AnswerFeed /\ posting.phase # "added") \/ LoseFeed \/ (\E f, mode : EditAdd(f, mode))
  <2>1. /\ previews' = previews
        /\ DOMAIN add' = DOMAIN add /\ add'.open = add.open /\ add'.dialog = add.dialog
        /\ add'.picker = add.picker /\ add'.request = add.request
    <3>1. CASE SubmitFeed
      BY <1>f, <3>1 DEF SubmitFeed, AddOK
    <3>2. CASE AnswerFeed /\ posting.phase # "added"
      BY <1>f, <3>2 DEF AnswerFeed, AddOK
    <3>3. CASE LoseFeed
      BY <1>f, <3>3 DEF LoseFeed, AddOK
    <3>4. ASSUME NEW f, NEW mode, EditAdd(f, mode)
          PROVE  /\ previews' = previews
                 /\ DOMAIN add' = DOMAIN add /\ add'.open = add.open /\ add'.dialog = add.dialog
                 /\ add'.picker = add.picker /\ add'.request = add.request
      BY <1>f, <3>4 DEF EditAdd, AddOK
    <3>5. QED
      BY <1>3, <3>1, <3>2, <3>3, <3>4
  <2>2. AddOK' /\ PreviewsOK'
    BY <1>f, <1>c, <2>1 DEF AddOK, PreviewsOK
  <2>3. QED
    BY <1>f, <2>1, <2>2, AddPickerStays
<1>4. CASE AskPreview
  <2>1. /\ add.open /\ add.picker = NoPicker /\ clicks' = clicks + 1
        /\ add' = [add EXCEPT !.error = FALSE, !.request = clicks']
        /\ previews' = previews \cup {[id |-> clicks', url |-> add.url, dialog |-> add.dialog]}
    BY <1>4 DEF AskPreview, Click
  <2>2. /\ DOMAIN add' = DOMAIN add /\ add'.open = add.open /\ add'.dialog = add.dialog
        /\ add'.picker = add.picker /\ add'.request = clicks'
    BY <1>f, <2>1 DEF AddOK
  <2>3. PICK new : new = [id |-> clicks', url |-> add.url, dialog |-> add.dialog]
    OBVIOUS
  <2>4. new.id = clicks' /\ new.dialog = add.dialog /\ previews' = previews \cup {new}
    BY <2>1, <2>3
  <2>5. AddOK'
    BY <1>f, <2>1, <2>2 DEF AddOK
  <2>6. PreviewsOK'
    BY <1>f, <2>1, <2>2, <2>4 DEF PreviewsOK
  <2>7. QED
    BY <1>f, <2>2, <2>5, <2>6, AddPickerStays
<1>5. CASE BackToUrl
  <2>1. /\ previews' = previews /\ clicks' = clicks
        /\ add' = [add EXCEPT !.picker = NoPicker, !.error = FALSE]
    BY <1>5 DEF BackToUrl
  <2>2. /\ DOMAIN add' = DOMAIN add /\ add'.open = add.open /\ add'.dialog = add.dialog
        /\ add'.picker = NoPicker /\ add'.request = add.request
    BY <1>f, <2>1 DEF AddOK
  <2>3. AddOK' /\ PreviewsOK'
    BY <1>f, <2>1, <2>2, NoPickerShape DEF AddOK, PreviewsOK
  <2>4. QED
    BY <1>f, <2>2, <2>3, AddPickerStays
<1>6. ASSUME NEW p \in previews, AnswerPreview(p), add.request = p.id
      PROVE  AddOK' /\ PreviewsOK'
             /\ (SamePicker(add.picker, add'.picker) => Hidden(add.picker) \subseteq add'.picker.picked)
  <2>1. PICK new : new = Picker(p.url, p.dialog, {})
    OBVIOUS
  <2>2. /\ previews' = previews \ {p} /\ clicks' = clicks
        /\ add' = [add EXCEPT !.request = 0, !.picker = new]
    BY <1>6, <2>1 DEF AnswerPreview
  <2>3. PickerShape(new) /\ new.dialog = p.dialog
    BY <2>1, NewPicker
  <2>4. p.dialog = add.dialog /\ add.request # 0
    BY <1>f, <1>6 DEF PreviewsOK
  <2>5. add.open /\ add.picker = NoPicker
    BY <1>f, <2>4 DEF AddOK
  <2>6. /\ DOMAIN add' = DOMAIN add /\ add'.open = add.open /\ add'.dialog = add.dialog
        /\ add'.picker = new /\ add'.request = 0
    BY <1>f, <2>2 DEF AddOK
  <2>7. AddOK'
    BY <1>f, <2>2, <2>3, <2>4, <2>5, <2>6 DEF AddOK
  <2>8. PreviewsOK'
    BY <1>f, <2>2, <2>6 DEF PreviewsOK
  <2>9. QED
    BY <2>5, <2>7, <2>8 DEF SamePicker
<1>7. ASSUME NEW p \in previews, (AnswerPreview(p) /\ add.request # p.id) \/ FailPreview(p)
      PROVE  AddOK' /\ PreviewsOK'
             /\ (SamePicker(add.picker, add'.picker) => Hidden(add.picker) \subseteq add'.picker.picked)
  <2>1. /\ previews' = previews \ {p} /\ clicks' = clicks
        /\ add' = add \/ add' = [add EXCEPT !.request = 0, !.error = TRUE]
    BY <1>7 DEF AnswerPreview, FailPreview
  <2>2. /\ DOMAIN add' = DOMAIN add /\ add'.open = add.open /\ add'.dialog = add.dialog
        /\ add'.picker = add.picker /\ add'.request \in {0, add.request}
    <3>1. CASE add' = add
      BY <3>1
    <3>2. CASE add' = [add EXCEPT !.request = 0, !.error = TRUE]
      BY <1>f, <3>2 DEF AddOK
    <3>3. QED
      BY <2>1, <3>1, <3>2
  <2>3. AddOK' /\ PreviewsOK'
    BY <1>f, <2>1, <2>2 DEF AddOK, PreviewsOK
  <2>4. QED
    BY <1>f, <2>2, <2>3, AddPickerStays
<1>8. QED
  BY <1>1, <1>2, <1>3, <1>4, <1>5, <1>6, <1>7

\* Steps of the dialog "Add episodes".
LEMMA MoreSteps ==
    ASSUME FeedsInv,
           \/ \E f \in Feeds : OpenMore(f)
           \/ CloseMore \/ SubmitEpisodes
           \/ \E l \in loads : AnswerLoads(l) \/ FailLoads(l)
           \/ \E p \in morePosts : AnswerEpisodes(p)
    PROVE  FeedsInv' /\ Kept
<1>f. clicks \in Nat /\ MoreOK /\ LoadsOK
  BY DEF FeedsInv
<1>d. clicks' = clicks \/ clicks' = clicks + 1
  BY DEF OpenMore, CloseMore, SubmitEpisodes, AnswerLoads, FailLoads, AnswerEpisodes, Click
<1>c. clicks' \in Nat /\ clicks' >= clicks
  BY <1>f, <1>d
<1>m. UNCHANGED <<add, previews>>
  BY DEF OpenMore, CloseMore, SubmitEpisodes, AnswerLoads, FailLoads, AnswerEpisodes, addVars
<1> DEFINE Same == SamePicker(more.picker, more'.picker) =>
                     Hidden(more.picker) \cup more.picker.existing \subseteq more'.picker.picked
<1>p. SUFFICES MoreOK' /\ LoadsOK' /\ Same
  BY <1>c, <1>m, AddUntouched DEF FeedsInv, Kept
<1>s. ASSUME more'.picker = more.picker \/ more'.picker = NoPicker PROVE Same
  <2>1. CASE more'.picker = more.picker
    BY <1>f, <2>1 DEF MoreOK, Hidden, SamePicker
  <2>2. CASE more'.picker = NoPicker
    BY <1>f, <2>2, NoPickerShape DEF MoreOK, SamePicker
  <2>3. QED
    BY <1>s, <2>1, <2>2
<1> HIDE DEF Same
<1>1. ASSUME NEW f, OpenMore(f) PROVE MoreOK' /\ LoadsOK' /\ Same
  <2>1. /\ clicks' = clicks + 1
        /\ more' = [ClosedMore EXCEPT !.feed = f, !.dialog = clicks', !.loading = TRUE]
        /\ loads' = loads \cup {[dialog |-> clicks', feed |-> f]}
    BY <1>1 DEF OpenMore, Click
  <2>2. /\ DOMAIN more' = DOMAIN ClosedMore /\ more'.feed = f /\ more'.dialog = clicks'
        /\ more'.picker = NoPicker
    BY <2>1 DEF ClosedMore
  <2>3. PICK new : new = [dialog |-> clicks', feed |-> f]
    OBVIOUS
  <2>4. new.dialog = clicks' /\ new.feed = f /\ loads' = loads \cup {new}
    BY <2>1, <2>3
  <2>5. DOMAIN ClosedMore = {"feed", "dialog", "loading", "error", "pending", "picker"}
    BY DEF ClosedMore
  <2>6. MoreOK'
    BY <1>f, <2>1, <2>2, <2>5, NoPickerShape DEF MoreOK
  <2>7. LoadsOK'
    BY <1>f, <2>1, <2>2, <2>4 DEF LoadsOK
  <2>8. QED
    BY <1>s, <2>2, <2>6, <2>7
<1>2. CASE CloseMore \/ \E p \in morePosts : AnswerEpisodes(p) /\ p.phase = "added"
  <2>1. more' = ClosedMore /\ loads' = loads /\ clicks' = clicks
    BY <1>2 DEF CloseMore, AnswerEpisodes
  <2>2. /\ DOMAIN more' = {"feed", "dialog", "loading", "error", "pending", "picker"}
        /\ more'.dialog = 0 /\ more'.picker = NoPicker
    BY <2>1 DEF ClosedMore
  <2>3. MoreOK' /\ LoadsOK'
    BY <1>f, <2>1, <2>2, NoPickerShape DEF MoreOK, LoadsOK
  <2>4. QED
    BY <1>s, <2>2, <2>3
<1>3. CASE SubmitEpisodes \/ \E p \in morePosts : AnswerEpisodes(p) /\ p.phase # "added"
  <2>1. /\ loads' = loads
        /\ \/ more' = more
           \/ more' = [more EXCEPT !.error = FALSE, !.pending = TRUE]
           \/ more' = [more EXCEPT !.error = TRUE, !.pending = FALSE]
    BY <1>3 DEF SubmitEpisodes, AnswerEpisodes
  <2>2. /\ DOMAIN more' = DOMAIN more /\ more'.feed = more.feed /\ more'.dialog = more.dialog
        /\ more'.picker = more.picker
    <3>1. CASE more' = more
      BY <3>1
    <3>2. CASE more' = [more EXCEPT !.error = FALSE, !.pending = TRUE]
      BY <1>f, <3>2 DEF MoreOK
    <3>3. CASE more' = [more EXCEPT !.error = TRUE, !.pending = FALSE]
      BY <1>f, <3>3 DEF MoreOK
    <3>4. QED
      BY <2>1, <3>1, <3>2, <3>3
  <2>3. MoreOK' /\ LoadsOK'
    BY <1>f, <1>c, <2>1, <2>2 DEF MoreOK, LoadsOK
  <2>4. QED
    BY <1>s, <2>2, <2>3
<1>4. ASSUME NEW l \in loads, AnswerLoads(l), more.dialog = l.dialog PROVE MoreOK' /\ LoadsOK' /\ Same
  <2>1. PICK new : new = Picker(l.feed, l.dialog, stored[l.feed].guids)
    OBVIOUS
  <2>2. /\ loads' = loads \ {l} /\ clicks' = clicks
        /\ more' = [more EXCEPT !.loading = FALSE, !.picker = new]
    BY <1>4, <2>1 DEF AnswerLoads
  <2>3. PickerShape(new) /\ new.of = l.feed /\ new.dialog = l.dialog /\ new.existing = new.picked
    BY <2>1, NewPicker
  <2>4. l.feed = more.feed /\ more.picker = NoPicker /\ l.dialog # 0
    BY <1>f, <1>4 DEF LoadsOK
  <2>5. /\ DOMAIN more' = DOMAIN more /\ more'.feed = more.feed /\ more'.dialog = more.dialog
        /\ more'.picker = new
    BY <1>f, <2>2 DEF MoreOK
  <2>6. MoreOK'
    BY <1>4, <1>f, <2>2, <2>3, <2>4, <2>5 DEF MoreOK
  <2>7. \A m \in loads' : m.dialog # more.dialog
    BY <1>4, <1>f, <2>2 DEF LoadsOK
  <2>8. LoadsOK'
    BY <1>f, <2>2, <2>5, <2>7 DEF LoadsOK
  <2>9. Same
    BY <2>4 DEF Same, SamePicker
  <2>10. QED
    BY <2>6, <2>8, <2>9
<1>5. ASSUME NEW l \in loads, (AnswerLoads(l) /\ more.dialog # l.dialog) \/ FailLoads(l)
      PROVE  MoreOK' /\ LoadsOK' /\ Same
  <2>1. /\ loads' = loads \ {l} /\ clicks' = clicks
        /\ more' = more \/ more' = [more EXCEPT !.loading = FALSE, !.error = TRUE]
    BY <1>5 DEF AnswerLoads, FailLoads
  <2>2. /\ DOMAIN more' = DOMAIN more /\ more'.feed = more.feed /\ more'.dialog = more.dialog
        /\ more'.picker = more.picker
    <3>1. CASE more' = more
      BY <3>1
    <3>2. CASE more' = [more EXCEPT !.loading = FALSE, !.error = TRUE]
      BY <1>f, <3>2 DEF MoreOK
    <3>3. QED
      BY <2>1, <3>1, <3>2
  <2>3. MoreOK' /\ LoadsOK'
    BY <1>f, <2>1, <2>2 DEF MoreOK, LoadsOK
  <2>4. QED
    BY <1>s, <2>2, <2>3
<1>6. QED
  BY <1>1, <1>2, <1>3, <1>4, <1>5

\* A click in a picker, and the dialog around it.
LEMMA PickedKeeps ==
    ASSUME FeedsInv, UNCHANGED <<previews, loads, clicks>>,
           NEW p, NEW q, KeepsHidden(p, q),
           \/ p = add.picker /\ p # NoPicker /\ add' = [add EXCEPT !.picker = q] /\ more' = more
           \/ p = more.picker /\ p # NoPicker /\ more' = [more EXCEPT !.picker = q] /\ add' = add
    PROVE  FeedsInv' /\ Kept
<1>f. clicks \in Nat /\ AddOK /\ PreviewsOK /\ MoreOK /\ LoadsOK
  BY DEF FeedsInv
<1>q. /\ PickerShape(q) /\ q.of = p.of /\ q.dialog = p.dialog /\ q.existing = p.existing
      /\ Hidden(p) \subseteq q.picked /\ (p.existing \subseteq p.picked => p.existing \subseteq q.picked)
  BY DEF KeepsHidden, SameOwner
<1>1. CASE p = add.picker /\ p # NoPicker /\ add' = [add EXCEPT !.picker = q] /\ more' = more
  <2>1. /\ DOMAIN add' = DOMAIN add /\ add'.open = add.open /\ add'.dialog = add.dialog
        /\ add'.picker = q /\ add'.request = add.request
    BY <1>f, <1>1 DEF AddOK
  <2>2. AddOK' /\ PreviewsOK'
    BY <1>f, <1>q, <1>1, <2>1 DEF AddOK, PreviewsOK
  <2>3. /\ MoreOK' /\ LoadsOK'
        /\ SamePicker(more.picker, more'.picker) =>
              Hidden(more.picker) \cup more.picker.existing \subseteq more'.picker.picked
    BY <1>f, <1>1, MoreUntouched
  <2>4. QED
    BY <1>f, <1>q, <1>1, <2>1, <2>2, <2>3 DEF FeedsInv, Kept
<1>2. CASE p = more.picker /\ p # NoPicker /\ more' = [more EXCEPT !.picker = q] /\ add' = add
  <2>1. /\ DOMAIN more' = DOMAIN more /\ more'.feed = more.feed /\ more'.dialog = more.dialog
        /\ more'.picker = q
    BY <1>f, <1>2 DEF MoreOK
  <2>2. MoreOK' /\ LoadsOK'
    BY <1>f, <1>q, <1>2, <2>1 DEF MoreOK, LoadsOK
  <2>3. Hidden(more.picker) \cup more.picker.existing \subseteq more'.picker.picked
    BY <1>f, <1>q, <1>2, <2>1 DEF MoreOK
  <2>4. /\ AddOK' /\ PreviewsOK'
        /\ SamePicker(add.picker, add'.picker) => Hidden(add.picker) \subseteq add'.picker.picked
    BY <1>f, <1>2, AddUntouched
  <2>5. QED
    BY <1>f, <2>2, <2>3, <2>4 DEF FeedsInv, Kept
<1>3. QED
  BY <1>1, <1>2

\* Clicks on episodes in sight, on the button for all, and on the filters.
LEMMA PickSteps ==
    ASSUME FeedsInv, (\E g : Pick(g)) \/ PickAll \/ (\E shown : Filter(shown))
    PROVE  FeedsInv' /\ Kept
<1>f. PickerShape(add.picker) /\ PickerShape(more.picker)
  BY DEF FeedsInv, AddOK, MoreOK
<1>1. UNCHANGED <<previews, loads, clicks>>
  BY DEF Pick, PickAll, Filter
<1>2. \E p, q : /\ KeepsHidden(p, q)
                /\ \/ p = add.picker /\ p # NoPicker /\ add' = [add EXCEPT !.picker = q] /\ more' = more
                   \/ p = more.picker /\ p # NoPicker /\ more' = [more EXCEPT !.picker = q] /\ add' = add
  <2>1. ASSUME NEW g, Pick(g)
        PROVE  \E p, q : /\ KeepsHidden(p, q)
                         /\ \/ p = add.picker /\ p # NoPicker /\ add' = [add EXCEPT !.picker = q] /\ more' = more
                            \/ p = more.picker /\ p # NoPicker /\ more' = [more EXCEPT !.picker = q] /\ add' = add
    <3> DEFINE Change(p) == IF g \in p.shown THEN Toggled(p, g) ELSE p
    <3>1. ASSUME NEW p, PickerShape(p) PROVE KeepsHidden(p, Change(p))
      BY <3>1, ToggledKeeps, SameKeeps
    <3>2. \/ add.picker # NoPicker /\ add' = [add EXCEPT !.picker = Change(add.picker)] /\ more' = more
          \/ more.picker # NoPicker /\ more' = [more EXCEPT !.picker = Change(more.picker)] /\ add' = add
      BY <2>1 DEF Pick, InPickers
    <3> HIDE DEF Change
    <3>3. QED
      BY <1>f, <3>1, <3>2
  <2>2. ASSUME PickAll
        PROVE  \E p, q : /\ KeepsHidden(p, q)
                         /\ \/ p = add.picker /\ p # NoPicker /\ add' = [add EXCEPT !.picker = q] /\ more' = more
                            \/ p = more.picker /\ p # NoPicker /\ more' = [more EXCEPT !.picker = q] /\ add' = add
    <3>1. \/ add.picker # NoPicker /\ add' = [add EXCEPT !.picker = AllToggled(add.picker)] /\ more' = more
          \/ more.picker # NoPicker /\ more' = [more EXCEPT !.picker = AllToggled(more.picker)] /\ add' = add
      BY <2>2 DEF PickAll, InPickers
    <3>2. QED
      BY <1>f, <3>1, AllToggledKeeps
  <2>3. ASSUME NEW s, Filter(s)
        PROVE  \E p, q : /\ KeepsHidden(p, q)
                         /\ \/ p = add.picker /\ p # NoPicker /\ add' = [add EXCEPT !.picker = q] /\ more' = more
                            \/ p = more.picker /\ p # NoPicker /\ more' = [more EXCEPT !.picker = q] /\ add' = add
    <3> DEFINE Change(p) == [p EXCEPT !.shown = s \cap Guids(p.of)]
    <3>1. ASSUME NEW p, PickerShape(p) PROVE KeepsHidden(p, Change(p))
      BY <3>1, PickerFilterKeeps
    <3>2. \/ add.picker # NoPicker /\ add' = [add EXCEPT !.picker = Change(add.picker)] /\ more' = more
          \/ more.picker # NoPicker /\ more' = [more EXCEPT !.picker = Change(more.picker)] /\ add' = add
      BY <2>3 DEF Filter, InPickers
    <3> HIDE DEF Change
    <3>3. QED
      BY <1>f, <3>1, <3>2
  <2>4. QED
    BY <2>1, <2>2, <2>3
<1>3. QED
  BY <1>1, <1>2, PickedKeeps

\* Every step of the feeds page keeps the invariant and the picks.
LEMMA FeedsStep == ASSUME FeedsInv, FeedsNext PROVE FeedsInv' /\ Kept
<1>1. ASSUME \/ StoreFeed \/ ReadList \/ AnswerList \/ FailList \/ RefocusList
             \/ \E p \in morePosts : StoreEpisodes(p)
             \/ \E kind \in Kinds, f \in Feeds : Act(kind, f)
             \/ \E act \in acts : StoreAct(act) \/ AnswerAct(act) \/ LoseAct(act)
      PROVE  FeedsInv' /\ Kept
  <2>1. UNCHANGED <<add, previews, more, loads>>
    BY <1>1 DEF StoreFeed, ReadList, AnswerList, FailList, RefocusList, StoreEpisodes, Act, StoreAct, AnswerAct, LoseAct,
                addVars, moreVars
  <2>2. clicks' = clicks \/ clicks' = clicks + 1
    BY <1>1 DEF StoreFeed, ReadList, AnswerList, FailList, RefocusList, StoreEpisodes, Act, StoreAct, AnswerAct, LoseAct, Click
  <2>3. clicks' \in Nat /\ clicks' >= clicks
    BY <2>2 DEF FeedsInv
  <2>4. QED
    BY <2>1, <2>3, DialogsUntouched
<1>2. QED
  BY <1>1, AddSteps, MoreSteps, PickSteps DEF FeedsNext

\* Both dialogs are closed at first.
LEMMA FeedsStart == ASSUME FeedsInit PROVE FeedsInv
<1>1. add = ClosedAdd /\ previews = {} /\ more = ClosedMore /\ loads = {} /\ clicks = 0
  BY DEF FeedsInit
<1>2. QED
  BY <1>1, NoPickerShape DEF FeedsInv, AddOK, PreviewsOK, MoreOK, LoadsOK, ClosedAdd, ClosedMore

\* The other pages, and no step at all.
LEMMA FeedsUntouched == ASSUME FeedsInv, feedVars' = feedVars PROVE FeedsInv' /\ Kept
<1>1. UNCHANGED <<add, previews, more, loads, clicks>>
  BY DEF feedVars
<1>2. QED
  BY <1>1, DialogsUntouched DEF FeedsInv

\* Every step of the library keeps the invariant and the picks.
LEMMA FeedsLibraryStep == ASSUME FeedsInv, [LibraryNext]_libraryVars PROVE FeedsInv' /\ Kept
<1>1. OnFeeds => FeedsInv' /\ Kept
  BY FeedsStep DEF OnFeeds
<1>2. ~OnFeeds => feedVars' = feedVars
  BY DEF LibraryNext, libraryVars, OnSearch, OnPlayer, OnQueue
<1>3. QED
  BY <1>1, <1>2, FeedsUntouched

\* The picker shows the episodes its own dialog asked for, whatever was closed, opened
\* again and answered late (feeds/page.tsx: previewRequest; AddEpisodesDialog.tsx: the
\* cancelled flag).
THEOREM PickerOfOwnDialog == LibrarySpec => []PreviewOfThisDialog
<1>1. LibraryInit => FeedsInv
  BY FeedsStart DEF LibraryInit
<1>2. FeedsInv => PreviewOfThisDialog
  BY DEF FeedsInv, AddOK, MoreOK, PreviewOfThisDialog
<1>3. QED
  BY <1>1, <1>2, FeedsLibraryStep, PTL DEF LibrarySpec

\* What was picked and is filtered out of sight stays picked, and so do the episodes the
\* feed has already (EpisodePicker.tsx: toggle and toggleAll go by the episodes in sight).
THEOREM HiddenPicksKept == LibrarySpec => HiddenKept
<1>1. LibraryInit => FeedsInv
  BY FeedsStart DEF LibraryInit
<1>2. FeedsInv /\ [LibraryNext]_libraryVars => [Kept]_feedVars
  BY FeedsLibraryStep
<1>3. [Kept]_feedVars <=>
        [/\ SamePicker(add.picker, add'.picker) => Hidden(add.picker) \subseteq add'.picker.picked
         /\ SamePicker(more.picker, more'.picker) =>
              Hidden(more.picker) \cup more.picker.existing \subseteq more'.picker.picked]_feedVars
  BY DEF Kept
<1>4. QED
  BY <1>1, <1>2, <1>3, FeedsLibraryStep, PTL DEF LibrarySpec, HiddenKept

-----------------------------------------------------------------------------
(* The list of the feeds.                                                  *)

\* What the server stores of a feed, and the requests that change it.
FeedShape(feed) ==
    /\ DOMAIN feed = {"mode", "paused", "guids"}
    /\ feed.mode \in Modes \cup {None} /\ (feed.mode = None => feed = Absent)
StoredOK == DOMAIN stored = Feeds /\ \A f \in Feeds : FeedShape(stored[f])
ChangesOK ==
    /\ {"mode", "picker"} \subseteq DOMAIN add /\ add.mode \in Modes
    /\ DOMAIN posting = {"url", "mode", "phase", "guids"}
    /\ posting.phase = Sent => posting.mode \in Modes
    /\ \A act \in acts : DOMAIN act = {"id", "kind", "feed", "phase", "to"} /\ act.kind \in Kinds

\* A change was made whose answer will have the list read again.
Owing == posting.phase = "added" \/ \E act \in acts : act.phase = "done"

\* The list, or the read that is to replace it, is what the server has unless such an
\* answer is to come.
ListInv ==
    /\ StoredOK /\ ChangesOK
    /\ reading.phase = None => lost \/ Owing \/ listed = Listing
    /\ reading.phase = "read" => lost \/ Owing \/ reading.rows = Listing

\* Adding a feed again leaves it, or changes its mode.
LEMMA AddFeedShape ==
    ASSUME NEW f, FeedShape(stored[f]), NEW mode \in Modes, NEW guids
    PROVE  FeedShape(AddFeed(f, mode, guids))
<1>1. None \notin Modes
  BY DEF Modes, None
<1>2. \A g : \A m \in Modes : FeedShape(Feed(m, g))
  BY <1>1 DEF FeedShape, Feed
<1>3. CASE AddFeed(f, mode, guids) = stored[f] \/ \E g : AddFeed(f, mode, guids) = Feed(mode, g)
  BY <1>2, <1>3
<1>4. ASSUME NEW g, AddFeed(f, mode, guids) = [stored[f] EXCEPT !.mode = "full", !.guids = g]
      PROVE  FeedShape(AddFeed(f, mode, guids))
  <2>1. PICK new : new = [stored[f] EXCEPT !.mode = "full", !.guids = g]
    OBVIOUS
  <2>2. DOMAIN new = {"mode", "paused", "guids"} /\ new.mode = "full"
    BY <2>1 DEF FeedShape
  <2>3. FeedShape(new)
    BY <1>1, <2>2 DEF FeedShape, Modes
  <2>4. QED
    BY <1>4, <2>1, <2>3
<1>5. QED
  BY <1>3, <1>4 DEF AddFeed

\* A request of a button that is not accepted changes nothing.
LEMMA UpdateShape ==
    ASSUME StoredOK, NEW act, act.kind \in Kinds, act.feed \in Feeds
    PROVE  /\ FeedShape(UpdateFeed(act))
           /\ ~Accepted(act) => UpdateFeed(act) = stored[act.feed]
<1> DEFINE old == stored[act.feed]
<1>1. FeedShape(old) /\ FeedShape(Absent) /\ None \notin Modes /\ "selective" \in Modes /\ "full" \in Modes
  BY DEF StoredOK, FeedShape, Absent, Feed, Modes, None
<1>2. CASE act.kind = "promote"
  <2>1. UpdateFeed(act) = AddFeed(act.feed, "full", {})
    BY <1>2 DEF UpdateFeed
  <2>2. QED
    BY <1>1, <1>2, <2>1, AddFeedShape DEF Accepted
<1>3. CASE act.kind = "poll"
  BY <1>1, <1>3 DEF UpdateFeed
<1>4. CASE act.kind = "delete"
  <2>1. UpdateFeed(act) = Absent
    BY <1>4 DEF UpdateFeed
  <2>2. QED
    BY <1>1, <1>4, <2>1 DEF Accepted
<1>5. CASE act.kind \in {"convert", "pause"}
  <2>1. CASE old = Absent
    <3>1. UpdateFeed(act) = old
      BY <1>5, <2>1 DEF UpdateFeed
    <3>2. QED
      BY <1>1, <3>1
  <2>2. CASE old # Absent
    <3>1. Accepted(act)
      BY <1>1, <1>5, <2>2 DEF Accepted, Known, FeedShape
    <3>2. \/ UpdateFeed(act) = old
          \/ UpdateFeed(act) = [old EXCEPT !.mode = "selective", !.paused = FALSE]
          \/ UpdateFeed(act) = [old EXCEPT !.paused = act.to]
      BY <1>5, <2>2 DEF UpdateFeed
    <3>3. PICK new : new = UpdateFeed(act)
      OBVIOUS
    <3>4. DOMAIN new = {"mode", "paused", "guids"} /\ new.mode \in {old.mode, "selective"}
      BY <1>1, <3>2, <3>3 DEF FeedShape
    <3>5. old.mode # None
      BY <1>1, <2>2 DEF FeedShape
    <3>6. FeedShape(new)
      BY <1>1, <3>4, <3>5 DEF FeedShape
    <3>7. QED
      BY <3>1, <3>3, <3>6
  <2>3. QED
    BY <2>1, <2>2
<1>6. QED
  BY <1>2, <1>3, <1>4, <1>5 DEF Kinds

\* The server stores a change of one feed.
LEMMA OneStored ==
    ASSUME StoredOK, NEW f, NEW new, f \in Feeds => FeedShape(new), stored' = [stored EXCEPT ![f] = new]
    PROVE  /\ StoredOK'
           /\ f \in Feeds => stored'[f] = new
           /\ (f \in Feeds => new.mode = stored[f].mode /\ new.paused = stored[f].paused)
                => Listing' = Listing
<1>1. DOMAIN stored' = Feeds /\ \A g \in Feeds : stored'[g] = IF g = f THEN new ELSE stored[g]
  BY DEF StoredOK
<1>2. StoredOK'
  BY <1>1 DEF StoredOK, FeedShape
<1>3. QED
  BY <1>1, <1>2 DEF Listing

\* Nothing of this changes.
LEMMA ListUntouched ==
    ASSUME ListInv, UNCHANGED <<stored, listed, reading, posting, acts, lost>>,
           {"mode", "picker"} \subseteq DOMAIN add', add'.mode \in Modes
    PROVE  ListInv'
<1>1. StoredOK' /\ Listing' = Listing /\ Owing' = Owing
  BY DEF ListInv, StoredOK, Listing, Owing
<1>2. ChangesOK'
  BY DEF ListInv, ChangesOK
<1>3. QED
  BY <1>1, <1>2 DEF ListInv

\* A request that is added leaves what is owing.
LEMMA ListStep == ASSUME ListInv, FeedsNext PROVE ListInv'
<1>a. StoredOK /\ ChangesOK /\ {"mode", "picker"} \subseteq DOMAIN add /\ add.mode \in Modes
  BY DEF ListInv, ChangesOK
<1>1. CASE CancelAdd
  <2>1. {"mode", "picker"} \subseteq DOMAIN add' /\ add'.mode \in Modes
    BY <1>1 DEF CancelAdd, ClosedAdd, Modes
  <2>2. QED
    BY <1>1, <2>1, ListUntouched DEF CancelAdd, listVars, actVars
<1>2. ASSUME NEW f, NEW mode \in Modes, EditAdd(f, mode) PROVE ListInv'
  <2>1. add' = [add EXCEPT !.url = f, !.mode = mode]
    BY <1>2 DEF EditAdd
  <2>2. {"mode", "picker"} \subseteq DOMAIN add' /\ add'.mode \in Modes
    BY <1>a, <2>1
  <2>3. QED
    BY <1>2, <2>2, ListUntouched DEF EditAdd, listVars, actVars
<1>3. ASSUME NEW x, DOMAIN add' = DOMAIN add /\ add'.mode = add.mode,
             UNCHANGED <<stored, listed, reading, posting, acts, lost>> PROVE ListInv'
  BY <1>a, <1>3, ListUntouched
<1>4. CASE OpenAdd \/ AskPreview \/ BackToUrl \/ \E p \in previews : AnswerPreview(p) \/ FailPreview(p)
  <2>1. UNCHANGED <<stored, listed, reading, posting, acts, lost>>
    BY <1>4 DEF OpenAdd, AskPreview, BackToUrl, AnswerPreview, FailPreview, listVars, actVars
  <2>2. \/ add' = add
        \/ \E d : add' = [add EXCEPT !.open = TRUE, !.dialog = d]
        \/ \E r : add' = [add EXCEPT !.error = FALSE, !.request = r]
        \/ add' = [add EXCEPT !.picker = NoPicker, !.error = FALSE]
        \/ \E p : add' = [add EXCEPT !.request = 0, !.picker = p]
        \/ add' = [add EXCEPT !.request = 0, !.error = TRUE]
    BY <1>4 DEF OpenAdd, AskPreview, BackToUrl, AnswerPreview, FailPreview
  <2>3. DOMAIN add' = DOMAIN add /\ add'.mode = add.mode
    BY <1>a, <2>2
  <2>4. QED
    BY <1>3, <2>1, <2>3
<1>5. CASE \/ \E f \in Feeds : OpenMore(f)
           \/ CloseMore \/ SubmitEpisodes
           \/ \E l \in loads : AnswerLoads(l) \/ FailLoads(l)
  BY <1>3, <1>5 DEF OpenMore, CloseMore, SubmitEpisodes, AnswerLoads, FailLoads, listVars, addVars, actVars
<1>6. CASE \/ \E f \in Feeds : \E g \in Guids(f) : Pick(g)
           \/ \E f \in Feeds : \E shown \in {Guids(f), {<<f, 1>>}} : Filter(shown)
           \/ PickAll
  <2>1. UNCHANGED <<stored, listed, reading, posting, acts, lost>>
    BY <1>6 DEF Pick, Filter, PickAll, listVars, actVars
  <2>2. add' = add \/ \E p : add' = [add EXCEPT !.picker = p]
    BY <1>6 DEF Pick, Filter, PickAll, InPickers
  <2>3. DOMAIN add' = DOMAIN add /\ add'.mode = add.mode
    BY <1>a, <2>2
  <2>4. QED
    BY <1>3, <2>1, <2>3
<1>7. CASE SubmitFeed
  <2>1. /\ add' = [add EXCEPT !.error = FALSE] /\ posting = NotPosting
        /\ UNCHANGED <<stored, listed, reading, acts, lost>>
    BY <1>7 DEF SubmitFeed, listVars, actVars
  <2>2. PICK guids : posting' = [url |-> add.url, mode |-> add.mode, phase |-> Sent, guids |-> guids]
    BY <1>7 DEF SubmitFeed
  <2>3. /\ DOMAIN posting' = {"url", "mode", "phase", "guids"} /\ posting'.mode = add.mode
        /\ posting'.phase # "added" /\ posting.phase # "added"
        /\ DOMAIN add' = DOMAIN add /\ add'.mode = add.mode
    BY <2>1, <2>2 DEF Sent, NotPosting, None
  <2>4. ChangesOK' /\ (Owing => Owing') /\ StoredOK' /\ Listing' = Listing
    BY <1>a, <2>1, <2>3 DEF ChangesOK, Owing, StoredOK, Listing
  <2>5. QED
    BY <2>1, <2>4 DEF ListInv
<1>8. CASE StoreFeed
  <2>1. PICK result : result = AddFeed(posting.url, posting.mode, posting.guids)
    OBVIOUS
  <2>2. PICK phase : phase = IF result # stored[posting.url] THEN "added" ELSE "refused"
    OBVIOUS
  <2>3. /\ stored' = [stored EXCEPT ![posting.url] = result]
        /\ posting' = [posting EXCEPT !.phase = phase] /\ posting.phase = Sent
        /\ UNCHANGED <<listed, reading, add, acts, lost>>
    BY <1>8, <2>1, <2>2 DEF StoreFeed, listVars, actVars
  <2>4. posting.url \in Feeds => FeedShape(result)
    BY <1>a, <2>1, <2>3, AddFeedShape DEF StoredOK, ChangesOK
  <2>5. StoredOK' /\ (result = stored[posting.url] => Listing' = Listing)
    BY <1>a, <2>3, <2>4, OneStored
  <2>6. DOMAIN posting' = DOMAIN posting /\ posting'.phase = phase /\ phase # Sent
    BY <1>a, <2>2, <2>3 DEF ChangesOK, Sent
  <2>7. ChangesOK'
    BY <1>a, <2>3, <2>6 DEF ChangesOK
  <2>8. (Owing => Owing') /\ (result # stored[posting.url] => Owing')
    BY <2>2, <2>3, <2>6 DEF Owing, Sent
  <2>9. QED
    BY <2>3, <2>5, <2>7, <2>8 DEF ListInv
<1>9. CASE AnswerFeed
  <2>1. UNCHANGED <<stored, listed, acts, lost>> /\ posting' = NotPosting
    BY <1>9 DEF AnswerFeed, actVars
  <2>2. CASE posting.phase = "added"
    <3>1. add' = ClosedAdd /\ reading' = [phase |-> Sent, rows |-> << >>]
      BY <1>9, <2>2 DEF AnswerFeed, Invalidate
    <3>2. reading'.phase \notin {None, "read"}
      BY <3>1 DEF Sent, None
    <3>3. ChangesOK' /\ StoredOK'
      BY <1>a, <2>1, <3>1 DEF ChangesOK, StoredOK, ClosedAdd, Modes, NotPosting, Sent, None
    <3>4. QED
      BY <3>2, <3>3 DEF ListInv
  <2>3. CASE posting.phase # "added"
    <3>1. add' = [add EXCEPT !.error = TRUE] /\ reading' = reading
      BY <1>9, <2>3 DEF AnswerFeed
    <3>2. ChangesOK' /\ StoredOK' /\ Listing' = Listing
      BY <1>a, <2>1, <3>1 DEF ChangesOK, StoredOK, Listing, NotPosting, Sent, None
    <3>3. Owing => Owing'
      BY <2>1, <2>3 DEF Owing
    <3>4. QED
      BY <2>1, <3>1, <3>2, <3>3 DEF ListInv
  <2>4. QED
    BY <2>2, <2>3
<1>10. CASE LoseFeed
  <2>1. /\ UNCHANGED <<stored, acts>> /\ posting' = NotPosting /\ lost'
        /\ add' = [add EXCEPT !.error = TRUE]
    BY <1>10 DEF LoseFeed, actVars
  <2>2. ChangesOK' /\ StoredOK'
    BY <1>a, <2>1 DEF ChangesOK, StoredOK, NotPosting, Sent, None
  <2>3. QED
    BY <2>1, <2>2 DEF ListInv
<1>11. ASSUME NEW p \in morePosts, StoreEpisodes(p) PROVE ListInv'
  <2>1. PICK result : result = AddEpisodes(p.feed, p.guids)
    OBVIOUS
  <2>2. stored' = [stored EXCEPT ![p.feed] = result] /\ UNCHANGED <<listed, reading, add, posting, acts, lost>>
    BY <1>11, <2>1 DEF StoreEpisodes, listVars, addVars, actVars
  <2>3. p.feed \in Feeds => /\ FeedShape(result) /\ result.mode = stored[p.feed].mode
                            /\ result.paused = stored[p.feed].paused
    <3>1. SUFFICES ASSUME p.feed \in Feeds
                   PROVE  /\ FeedShape(result) /\ result.mode = stored[p.feed].mode
                          /\ result.paused = stored[p.feed].paused
      OBVIOUS
    <3>2. FeedShape(stored[p.feed])
      BY <1>a, <3>1 DEF StoredOK
    <3>3. CASE result = stored[p.feed]
      BY <3>2, <3>3
    <3>4. CASE result # stored[p.feed]
      <4>1. /\ stored[p.feed].mode = "selective"
            /\ \E g : result = [stored[p.feed] EXCEPT !.guids = g]
        BY <2>1, <3>4 DEF AddEpisodes
      <4>2. /\ DOMAIN result = {"mode", "paused", "guids"} /\ result.mode = stored[p.feed].mode
            /\ result.paused = stored[p.feed].paused
        BY <3>2, <4>1 DEF FeedShape
      <4>3. QED
        BY <4>1, <4>2 DEF FeedShape, Modes, None
    <3>5. QED
      BY <3>3, <3>4
  <2>4. StoredOK' /\ Listing' = Listing
    BY <1>a, <2>2, <2>3, OneStored
  <2>5. ChangesOK' /\ Owing' = Owing
    BY <1>a, <2>2 DEF ChangesOK, Owing
  <2>6. QED
    BY <2>2, <2>4, <2>5 DEF ListInv
<1>12. ASSUME NEW p \in morePosts, AnswerEpisodes(p) PROVE ListInv'
  <2>1. UNCHANGED <<stored, listed, add, posting, acts, lost>>
    BY <1>12 DEF AnswerEpisodes, addVars, actVars
  <2>2. reading' = reading \/ reading'.phase = Sent
    BY <1>12 DEF AnswerEpisodes, Invalidate
  <2>3. CASE reading' = reading
    BY <1>a, <2>1, <2>3, ListUntouched
  <2>4. CASE reading'.phase = Sent
    <3>1. reading'.phase \notin {None, "read"} /\ StoredOK' /\ ChangesOK'
      BY <1>a, <2>1, <2>4 DEF Sent, None, StoredOK, ChangesOK
    <3>2. QED
      BY <3>1 DEF ListInv
  <2>5. QED
    BY <2>2, <2>3, <2>4
<1>13. ASSUME NEW kind \in Kinds, NEW f \in Feeds, Act(kind, f) PROVE ListInv'
  <2>1. PICK id, to : /\ acts' = acts \cup {[id |-> id, kind |-> kind, feed |-> f, phase |-> Sent, to |-> to]}
                      /\ UNCHANGED <<stored, listed, reading, add, posting, lost>>
    BY <1>13 DEF Act, listVars, addVars
  <2>2. ChangesOK' /\ StoredOK' /\ Listing' = Listing
    BY <1>a, <2>1 DEF ChangesOK, StoredOK, Listing
  <2>3. Owing => Owing'
    BY <2>1 DEF Owing
  <2>4. QED
    BY <2>1, <2>2, <2>3 DEF ListInv
<1>14. ASSUME NEW act \in acts, StoreAct(act) PROVE ListInv'
  <2>1. DOMAIN act = {"id", "kind", "feed", "phase", "to"} /\ act.kind \in Kinds
    BY <1>a DEF ChangesOK
  <2>2. PICK new, phase : new = UpdateFeed(act) /\ phase = IF Accepted(act) THEN "done" ELSE "refused"
    OBVIOUS
  <2>3. PICK later : later = [act EXCEPT !.phase = phase]
    OBVIOUS
  <2>4. /\ stored' = [stored EXCEPT ![act.feed] = new] /\ acts' = (acts \ {act}) \cup {later}
        /\ act.phase = Sent /\ UNCHANGED <<listed, reading, add, posting, lost>>
    BY <1>14, <2>2, <2>3 DEF StoreAct, listVars, addVars
  <2>5. /\ DOMAIN later = {"id", "kind", "feed", "phase", "to"} /\ later.kind = act.kind
        /\ later.phase = phase
    BY <2>1, <2>3
  <2>6. act.feed \in Feeds => FeedShape(new) /\ (~Accepted(act) => new = stored[act.feed])
    BY <1>a, <2>1, <2>2, UpdateShape
  <2>7. StoredOK' /\ (~Accepted(act) => Listing' = Listing)
    BY <1>a, <2>4, <2>6, OneStored
  <2>8. ChangesOK'
    BY <1>a, <2>1, <2>4, <2>5 DEF ChangesOK
  <2>9. (Owing => Owing') /\ (Accepted(act) => Owing')
    BY <2>2, <2>4, <2>5 DEF Owing, Sent
  <2>10. QED
    BY <2>4, <2>7, <2>8, <2>9 DEF ListInv
<1>15. ASSUME NEW act \in acts, AnswerAct(act) PROVE ListInv'
  <2>1. acts' = acts \ {act} /\ UNCHANGED <<stored, listed, add, posting, lost>>
    BY <1>15 DEF AnswerAct, addVars
  <2>2. StoredOK' /\ ChangesOK' /\ Listing' = Listing
    BY <1>a, <2>1 DEF StoredOK, ChangesOK, Listing
  <2>3. CASE act.phase = "done"
    <3>1. reading'.phase \notin {None, "read"}
      BY <1>15, <2>3 DEF AnswerAct, Invalidate, Sent, None
    <3>2. QED
      BY <2>2, <3>1 DEF ListInv
  <2>4. CASE act.phase # "done"
    <3>1. reading' = reading
      BY <1>15, <2>4 DEF AnswerAct
    <3>2. Owing => Owing'
      BY <2>1, <2>4 DEF Owing
    <3>3. QED
      BY <2>1, <2>2, <3>1, <3>2 DEF ListInv
  <2>5. QED
    BY <2>3, <2>4
<1>16. ASSUME NEW act \in acts, LoseAct(act) PROVE ListInv'
  <2>1. acts' = acts \ {act} /\ lost' /\ UNCHANGED <<stored, add, posting>>
    BY <1>16 DEF LoseAct, addVars
  <2>2. StoredOK' /\ ChangesOK'
    BY <1>a, <2>1 DEF StoredOK, ChangesOK
  <2>3. QED
    BY <2>1, <2>2 DEF ListInv
<1>17. CASE ReadList \/ AnswerList \/ FailList \/ RefocusList
  <2>1. UNCHANGED <<stored, add, posting, acts, lost>>
    BY <1>17 DEF ReadList, AnswerList, FailList, RefocusList, addVars, actVars
  <2>2. StoredOK' /\ ChangesOK' /\ Listing' = Listing /\ Owing' = Owing
    BY <1>a, <2>1 DEF StoredOK, ChangesOK, Listing, Owing
  <2>3. CASE ReadList
    <3>1. reading'.phase = "read" /\ reading'.rows = Listing
      BY <2>3 DEF ReadList
    <3>2. QED
      BY <2>2, <3>1 DEF ListInv, None
  <2>4. CASE AnswerList
    <3>1. reading.phase = "read" /\ listed' = reading.rows /\ reading'.phase = None
      BY <2>4 DEF AnswerList, NotReading
    <3>2. QED
      BY <2>1, <2>2, <3>1 DEF ListInv, None
  <2>5. CASE FailList \/ RefocusList
    <3>1. reading'.phase \notin {None, "read"}
      BY <2>5 DEF FailList, RefocusList, Invalidate, Sent, None
    <3>2. QED
      BY <2>2, <3>1 DEF ListInv
  <2>6. QED
    BY <1>17, <2>3, <2>4, <2>5
<1>18. QED
  BY <1>1, <1>2, <1>4, <1>5, <1>6, <1>7, <1>8, <1>9, <1>10, <1>11, <1>12, <1>13, <1>14, <1>15, <1>16,
     <1>17 DEF FeedsNext

\* The page starts with the list.
LEMMA ListStart == ASSUME FeedsInit PROVE ListInv
<1>1. PICK known \in Feeds \cup {None}, mode \in {"test", "selective"} :
          stored = [f \in Feeds |-> IF f = known THEN Feed(mode, {<<f, 1>>}) ELSE Absent]
  BY DEF FeedsInit
<1>2. \A g : \A m \in Modes \cup {None} : FeedShape(Feed(m, g)) \/ m = None
  BY DEF FeedShape, Feed, Modes
<1>3. FeedShape(Absent)
  BY DEF FeedShape, Absent, Feed, Modes
<1>4. StoredOK
  BY <1>1, <1>2, <1>3 DEF StoredOK, Modes, None
<1>5. /\ listed = Listing /\ reading = NotReading /\ add = ClosedAdd
      /\ posting = NotPosting /\ acts = {}
  BY DEF FeedsInit
<1>6. ChangesOK
  BY <1>5 DEF ChangesOK, ClosedAdd, NotPosting, Modes, Sent, None
<1>7. QED
  BY <1>4, <1>5, <1>6 DEF ListInv, NotReading, None

\* The list is what the server has when nothing is under way and its last read succeeded, in
\* whatever order changes and reads overlapped and whichever dialog an answer closed, for
\* every set of feeds and any number of requests, unless the answer to a change was lost
\* (feeds/page.tsx: each mutation's onSuccess invalidates the query of the feeds).
THEOREM ListFollows == LibrarySpec => []ListSettled
<1>1. LibraryInit => ListInv
  BY ListStart DEF LibraryInit
<1>2. ListInv /\ [LibraryNext]_libraryVars => ListInv'
  <2>1. SUFFICES ASSUME ListInv, [LibraryNext]_libraryVars PROVE ListInv'
    OBVIOUS
  <2>2. CASE OnFeeds
    BY <2>1, <2>2, ListStep DEF OnFeeds
  <2>3. CASE ~OnFeeds
    <3>1. feedVars' = feedVars
      BY <2>1, <2>3 DEF LibraryNext, libraryVars, OnSearch, OnPlayer, OnQueue
    <3>2. QED
      BY <2>1, <3>1, ListUntouched DEF feedVars, ListInv, ChangesOK
  <2>4. QED
    BY <2>2, <2>3
<1>3. ListInv => ListSettled
  BY DEF ListInv, ListSettled, Owing, NotPosting, NotReading, None
<1>4. QED
  BY <1>1, <1>2, <1>3, PTL DEF LibrarySpec

-----------------------------------------------------------------------------
(* The search page: it searches for what its address says, remembered      *)
(* totals are those of their own searches, a page asked for is one that    *)
(* the search had, and the speakers offered are those of the sources.      *)

FormOK(f) ==
    /\ DOMAIN f = {"submitted", "sources", "speaker", "page", "size", "view"}
    /\ f.submitted \in Queries \cup {None} /\ f.sources \in SUBSET Sources
    /\ f.speaker \in Speakers \cup {None}
    /\ f.page \in Nat \ {0} /\ f.size \in Sizes /\ f.view \in Views

PageOK(f) ==
    f.page > 1 => \E total \in Found(f.view, f.submitted, f.sources, f.speaker) :
                      f.page <= Pages(total, f.size)

IndexOK == faults \in 0 .. MaxFaults /\ index \in 0 .. faults
VisitOK == visit \in 0 .. MaxVisits /\ (open => visit # 0)

\* A search under way counts for the key of its own entry.
FlightOK(flight) ==
    /\ DOMAIN flight = {"entry", "key", "visit", "tries", "skip"}
    /\ flight.visit \in 1 .. MaxVisits
    /\ flight.entry.view \in Views
    /\ flight.key = CountKey(flight.entry)
FlightsOK == \A flight \in flights : FlightOK(flight)

\* The ref of a view holds the total of the search its key names.
RefOK(ref, v) == ref.total = -1 \/ ref.total \in Found(v, ref.key[1], ref.key[2], ref.key[3])
TotalsOK ==
    /\ DOMAIN totals = 1 .. MaxVisits
    /\ \A n \in 1 .. MaxVisits :
          DOMAIN totals[n] = Views /\ \A v \in Views : RefOK(totals[n][v], v)

AnswerOK(answer) ==
    /\ DOMAIN answer = {"entry", "total", "fresh"}
    /\ LET e == answer.entry
       IN  answer.total \in {-1} \cup Found(e.view, e.submitted, e.sources, e.speaker)
CacheOK == \A answer \in cache : AnswerOK(answer)

\* The form runs ahead of the address, never behind it.
UrlOK ==
    open => /\ pending # Settled => form.submitted = pending
            /\ pending = Settled /\ url # None => form.submitted = url

\* The only load that is not aborted is that of the selected sources.
OptionsOK ==
    /\ open => optionReads \subseteq {form.sources}
    /\ open /\ optionReads = {} /\ ~options.error => options.names = SpeakersOf(form.sources)
    /\ ~open => optionReads = {}
    /\ DOMAIN options = {"names", "loading", "error"}

SearchRest ==
    /\ FormOK(form) /\ PageOK(form)
    /\ VisitOK /\ FlightsOK /\ TotalsOK /\ CacheOK
    /\ UrlOK /\ OptionsOK
SearchInv == IndexOK /\ SearchRest

-----------------------------------------------------------------------------
(* Pages.                                                                  *)

\* The number of pages is a number, and no results have at most one page.
LEMMA PagesNumber ==
    ASSUME NEW total \in Int, NEW size \in Nat \ {0}
    PROVE  Pages(total, size) \in Int /\ (total = -1 => Pages(total, size) <= 1)
<1>1. Pages(total, size) \in Int
  BY DEF Pages
<1>2. ASSUME total = -1 PROVE Pages(total, size) <= 1
  <2>1. size - 2 \in Int /\ size - 2 < size * 1
    OBVIOUS
  <2>2. Pages(total, size) = (size - 2) \div size
    BY <1>2 DEF Pages
  <2>3. size * ((size - 2) \div size) <= size - 2
    OBVIOUS
  <2>4. QED
    BY <1>1, <2>1, <2>2, <2>3
<1>3. QED
  BY <1>1, <1>2

\* Whatever a form's search has found is a number of results.
LEMMA FoundNumbers ==
    ASSUME IndexOK, NEW f, FormOK(f)
    PROVE  Found(f.view, f.submitted, f.sources, f.speaker) \subseteq Nat
<1>1. 0 .. index \subseteq 0 .. MaxFaults
  BY SearchAssumption DEF IndexOK
<1>2. ASSUME NEW n \in 0 .. index PROVE Hits(n, f.view, f.submitted, f.sources, f.speaker) \in Nat
  BY <1>1, HitsAssumption DEF FormOK
<1>3. QED
  BY <1>2 DEF Found

\* What a search finds now it has found.
LEMMA FindsNow ==
    ASSUME IndexOK, NEW v, NEW q, NEW sources, NEW s
    PROVE  Hits(index, v, q, sources, s) \in Found(v, q, sources, s)
BY DEF Found, IndexOK

\* What has been found stays found.
LEMMA FoundStays ==
    ASSUME index' = index \/ (IndexOK /\ index' = index + 1),
           NEW v, NEW q, NEW sources, NEW s
    PROVE  Found(v, q, sources, s) \subseteq Found(v, q, sources, s)'
<1>1. 0 .. index \subseteq 0 .. index'
  BY DEF IndexOK
<1>2. QED
  BY <1>1 DEF Found

\* The pagination goes by the answer that is shown, which is that of the form.
LEMMA PageTurned ==
    ASSUME SearchInv, NEW p, SetPage(p)
    PROVE  p \in Nat \ {0} /\ PageOK([form EXCEPT !.page = p])
<1> DEFINE found == Found(form.view, form.submitted, form.sources, form.speaker)
<1>f. FormOK(form) /\ PageOK(form) /\ CacheOK /\ IndexOK
  BY DEF SearchInv, SearchRest
<1>s. form.size \in Nat \ {0} /\ form.page \in Nat \ {0}
  BY <1>f, SearchAssumption DEF FormOK
<1>h. found \subseteq Nat
  BY <1>f, FoundNumbers
<1>1. Shown # {} /\ TotalPages > 1
  BY <1>s DEF SetPage, TotalPages
<1>2. PICK answer \in Shown : TotalPages = Pages(answer.total, form.size)
  BY <1>1 DEF TotalPages
<1>3. answer \in cache /\ answer.entry = Entry(form)
  BY DEF Shown
<1>4. answer.total \in {-1} \cup found
  <2>1. answer.total \in {-1} \cup Found(Entry(form).view, Entry(form).submitted,
                                         Entry(form).sources, Entry(form).speaker)
    BY <1>f, <1>3 DEF CacheOK, AnswerOK
  <2>2. QED
    BY <2>1 DEF Entry
<1> HIDE DEF found
<1>5. answer.total \in found
  BY <1>1, <1>2, <1>4, <1>s, <1>h, PagesNumber
<1>6. answer.total \in Nat /\ TotalPages \in Int
  <2>1. answer.total \in Nat
    BY <1>5, <1>h
  <2>2. QED
    BY <1>2, <1>s, <2>1, PagesNumber
<1>7. PICK had \in found : form.page > 1 => form.page <= Pages(had, form.size)
  BY <1>5, <1>f DEF PageOK, found
<1>8. /\ p \in Nat \ {0}
      /\ p > 1 => \E total \in found : p <= Pages(total, form.size)
  <2>1. Pages(had, form.size) \in Int
    BY <1>7, <1>s, <1>h, PagesNumber
  <2>2. CASE form.page # 1 /\ p = form.page - 1
    <3>1. p \in Nat \ {0} /\ p <= Pages(had, form.size)
      BY <1>7, <1>s, <2>1, <2>2
    <3>2. QED
      BY <1>7, <3>1
  <2>3. CASE form.page # TotalPages
             /\ p = IF form.page + 1 < TotalPages THEN form.page + 1 ELSE TotalPages
    <3>1. p \in Nat \ {0} /\ p <= Pages(answer.total, form.size)
      BY <1>1, <1>2, <1>6, <1>s, <2>3
    <3>2. QED
      BY <1>5, <3>1
  <2>4. QED
    BY <2>2, <2>3 DEF SetPage
<1>9. PICK f : f = [form EXCEPT !.page = p]
  OBVIOUS
<1>10. /\ f.page = p /\ f.view = form.view /\ f.submitted = form.submitted
       /\ f.sources = form.sources /\ f.speaker = form.speaker /\ f.size = form.size
  BY <1>f, <1>9 DEF FormOK
<1>11. PageOK(f)
  BY <1>8, <1>10 DEF PageOK, found
<1>12. QED
  BY <1>8, <1>9, <1>11

-----------------------------------------------------------------------------
(* Searches.                                                               *)

\* A search that a form asks for is one of its own.
LEMMA Asked ==
    ASSUME FlightsOK, NEW f, FormOK(f), NEW n \in 1 .. MaxVisits,
           NEW after, after = flights \/ after = AskedBy(f, n)
    PROVE  \A flight \in after : FlightOK(flight)
<1>1. PICK skip : AskedBy(f, n) \subseteq flights \cup
          {[entry |-> Entry(f), key |-> CountKey(f), visit |-> n, tries |-> 1, skip |-> skip]}
  BY DEF AskedBy
<1>2. PICK new : new = [entry |-> Entry(f), key |-> CountKey(f), visit |-> n, tries |-> 1,
                        skip |-> skip]
  OBVIOUS
<1>3. Entry(f).view \in Views /\ CountKey(Entry(f)) = CountKey(f)
  BY DEF Entry, CountKey, FormOK
<1>4. FlightOK(new)
  BY <1>2, <1>3 DEF FlightOK
<1>5. QED
  BY <1>1, <1>2, <1>4 DEF FlightsOK

\* What a change of the form leaves in order.
LEMMA ShowKeeps ==
    ASSUME SearchInv, open, NEW f, FormOK(f), PageOK(f), Show(f), UNCHANGED <<answerVars, visitVars>>
    PROVE  /\ FormOK(form') /\ PageOK(form)' /\ VisitOK' /\ FlightsOK' /\ TotalsOK' /\ CacheOK'
           /\ form' = f /\ open' = open
<1>1. form' = f /\ (flights' = flights \/ flights' = AskedBy(f, visit))
  BY DEF Show
<1>2. visit \in 1 .. MaxVisits /\ FlightsOK
  BY SearchAssumption DEF SearchInv, SearchRest, VisitOK
<1>3. FlightsOK'
  BY <1>1, <1>2, Asked DEF FlightsOK
<1>4. VisitOK' /\ TotalsOK' /\ CacheOK' /\ PageOK(f)' /\ open' = open
  BY DEF SearchInv, SearchRest, VisitOK, TotalsOK, CacheOK, RefOK, AnswerOK, PageOK, Found, answerVars, visitVars
<1>5. QED
  BY <1>1, <1>3, <1>4

\* A form that goes to its first page.
LEMMA FirstPage ==
    ASSUME NEW f, f.page = 1 PROVE PageOK(f)
BY DEF PageOK

-----------------------------------------------------------------------------
(* Steps.                                                                  *)

\* What typing and clearing, and an address that lands or is followed, do to the form.
LEMMA NewQuery ==
    ASSUME SearchInv, NEW q \in Queries \cup {None}, NEW f,
           f = [form EXCEPT !.submitted = q, !.page = 1]
    PROVE  FormOK(f) /\ PageOK(f) /\ f.submitted = q /\ f.sources = form.sources
<1>1. FormOK(f) /\ f.page = 1 /\ f.submitted = q /\ f.sources = form.sources
  BY DEF SearchInv, SearchRest, FormOK
<1>2. QED
  BY <1>1, FirstPage

\* The options depend on the sources only.
LEMMA OptionsKept ==
    ASSUME OptionsOK, form'.sources = form.sources, open' = open, UNCHANGED optionVars
    PROVE  OptionsOK'
BY DEF OptionsOK, optionVars

\* The address depends on the query only.
LEMMA UrlKept ==
    ASSUME UrlOK, form'.submitted = form.submitted, open' = open, UNCHANGED addressVars
    PROVE  UrlOK'
BY DEF UrlOK, addressVars

\* A query that is submitted is searched before its address lands.
LEMMA SubmitKeeps == ASSUME SearchInv, NEW q \in Queries \cup {None}, Submit(q) PROVE SearchRest'
<1>1. PICK f : f = [form EXCEPT !.submitted = q, !.page = 1]
  OBVIOUS
<1>2. open /\ Show(f) /\ pending' = q /\ UNCHANGED <<answerVars, visitVars, optionVars>>
  BY <1>1 DEF Submit, Move
<1>3. FormOK(f) /\ PageOK(f) /\ f.submitted = q /\ f.sources = form.sources
  BY <1>1, NewQuery
<1>4. /\ FormOK(form') /\ PageOK(form)' /\ VisitOK' /\ FlightsOK' /\ TotalsOK' /\ CacheOK'
      /\ form' = f /\ open' = open
  BY <1>2, <1>3, ShowKeeps
<1>5. q # Settled
  BY QueryAssumption DEF Settled, None
<1>6. UrlOK'
  BY <1>2, <1>3, <1>4, <1>5 DEF UrlOK
<1>7. OptionsOK'
  BY <1>2, <1>3, <1>4, OptionsKept DEF SearchInv, SearchRest
<1>8. QED
  BY <1>4, <1>6, <1>7 DEF SearchInv, SearchRest

\* Clearing takes the query off the form and off the address.
LEMMA ClearKeeps == ASSUME SearchInv, Clear PROVE SearchRest'
<1>1. PICK f : f = [form EXCEPT !.submitted = None, !.page = 1, !.speaker = None]
  OBVIOUS
<1>2. open /\ Show(f) /\ pending' = None /\ UNCHANGED <<answerVars, visitVars, optionVars>>
  BY <1>1 DEF Clear, Move
<1>3. FormOK(f) /\ f.page = 1 /\ f.submitted = None /\ f.sources = form.sources
  BY <1>1 DEF SearchInv, SearchRest, FormOK
<1>4. /\ FormOK(form') /\ PageOK(form)' /\ VisitOK' /\ FlightsOK' /\ TotalsOK' /\ CacheOK'
      /\ form' = f /\ open' = open
  BY <1>2, <1>3, FirstPage, ShowKeeps
<1>5. UrlOK'
  BY <1>2, <1>3, <1>4 DEF UrlOK, Settled, None
<1>6. OptionsOK'
  BY <1>2, <1>3, <1>4, OptionsKept DEF SearchInv, SearchRest
<1>7. QED
  BY <1>4, <1>5, <1>6 DEF SearchInv, SearchRest

\* An address that lands is that of the form, or becomes it.
LEMMA ArriveKeeps ==
    ASSUME SearchInv, open, NEW q \in Queries \cup {None}, Arrive(q),
           q # url \/ q = form.submitted,
           UNCHANGED <<answerVars, visitVars, optionVars>>
    PROVE  SearchRest'
<1>1. url' = q /\ pending' = Settled
  BY DEF Arrive
<1>2. CASE q \notin {None, form.submitted} /\ q # url
  <2>1. PICK f : f = [form EXCEPT !.submitted = q, !.page = 1]
    OBVIOUS
  <2>2. Show(f)
    BY <1>2, <2>1 DEF Arrive
  <2>3. FormOK(f) /\ PageOK(f) /\ f.submitted = q /\ f.sources = form.sources
    BY <2>1, NewQuery
  <2>4. /\ FormOK(form') /\ PageOK(form)' /\ VisitOK' /\ FlightsOK' /\ TotalsOK' /\ CacheOK'
        /\ form' = f /\ open' = open
    BY <2>2, <2>3, ShowKeeps
  <2>5. UrlOK'
    BY <1>1, <2>3, <2>4 DEF UrlOK
  <2>6. OptionsOK'
    BY <2>3, <2>4, OptionsKept DEF SearchInv, SearchRest
  <2>7. QED
    BY <2>4, <2>5, <2>6 DEF SearchInv, SearchRest
<1>3. CASE ~(q \notin {None, form.submitted} /\ q # url)
  <2>1. UNCHANGED <<form, flights>>
    BY <1>3 DEF Arrive
  <2>2. UrlOK'
    BY <1>1, <1>3, <2>1 DEF UrlOK
  <2>3. QED
    BY <2>1, <2>2
    DEF SearchInv, SearchRest, OptionsOK, FormOK, PageOK, VisitOK, FlightsOK, TotalsOK, RefOK,
        CacheOK, AnswerOK, Found, answerVars, visitVars, optionVars
<1>4. QED
  BY <1>2, <1>3

\* The speaker, the view, the page size and the page.
LEMMA FilterKeeps ==
    ASSUME SearchInv,
           \/ \E s \in Speakers \cup {None} : SetSpeaker(s)
           \/ \E v \in Views : SetView(v)
           \/ \E n \in Sizes : SetSize(n)
           \/ \E p \in 1 .. TotalPages : SetPage(p)
    PROVE  SearchRest'
<1>f. FormOK(form)
  BY DEF SearchInv, SearchRest
<1>1. ASSUME NEW f, FormOK(f), PageOK(f), f.submitted = form.submitted, f.sources = form.sources,
             open, Show(f), UNCHANGED <<addressVars, answerVars, visitVars, optionVars>>
      PROVE  SearchRest'
  <2>1. /\ FormOK(form') /\ PageOK(form)' /\ VisitOK' /\ FlightsOK' /\ TotalsOK' /\ CacheOK'
        /\ form' = f /\ open' = open
    BY <1>1, ShowKeeps
  <2>2. UrlOK'
    BY <1>1, <2>1, UrlKept DEF SearchInv, SearchRest
  <2>3. OptionsOK'
    BY <1>1, <2>1, OptionsKept DEF SearchInv, SearchRest
  <2>4. QED
    BY <2>1, <2>2, <2>3 DEF SearchInv, SearchRest
<1>2. ASSUME NEW s \in Speakers \cup {None}, SetSpeaker(s) PROVE SearchRest'
  <2>1. PICK f : f = [form EXCEPT !.speaker = s, !.page = 1]
    OBVIOUS
  <2>2. FormOK(f) /\ f.page = 1 /\ f.submitted = form.submitted /\ f.sources = form.sources
    BY <1>f, <2>1 DEF FormOK
  <2>3. open /\ Show(f) /\ UNCHANGED <<addressVars, answerVars, visitVars, optionVars>>
    BY <1>2, <2>1 DEF SetSpeaker, Move
  <2>4. QED
    BY <1>1, <2>2, <2>3, FirstPage
<1>3. ASSUME NEW v \in Views, SetView(v) PROVE SearchRest'
  <2>1. PICK f : f = [form EXCEPT !.view = v, !.page = 1]
    OBVIOUS
  <2>2. FormOK(f) /\ f.page = 1 /\ f.submitted = form.submitted /\ f.sources = form.sources
    BY <1>f, <2>1 DEF FormOK
  <2>3. open /\ Show(f) /\ UNCHANGED <<addressVars, answerVars, visitVars, optionVars>>
    BY <1>3, <2>1 DEF SetView, Move
  <2>4. QED
    BY <1>1, <2>2, <2>3, FirstPage
<1>4. ASSUME NEW n \in Sizes, SetSize(n) PROVE SearchRest'
  <2>1. PICK f : f = [form EXCEPT !.size = n, !.page = 1]
    OBVIOUS
  <2>2. FormOK(f) /\ f.page = 1 /\ f.submitted = form.submitted /\ f.sources = form.sources
    BY <1>f, <2>1 DEF FormOK
  <2>3. open /\ Show(f) /\ UNCHANGED <<addressVars, answerVars, visitVars, optionVars>>
    BY <1>4, <2>1 DEF SetSize, Move
  <2>4. QED
    BY <1>1, <2>2, <2>3, FirstPage
<1>5. ASSUME NEW p, SetPage(p) PROVE SearchRest'
  <2>1. PICK f : f = [form EXCEPT !.page = p]
    OBVIOUS
  <2>2. p \in Nat \ {0} /\ PageOK(f)
    BY <1>5, <2>1, PageTurned
  <2>3. FormOK(f) /\ f.submitted = form.submitted /\ f.sources = form.sources
    BY <1>f, <2>1, <2>2 DEF FormOK
  <2>4. open /\ Show(f) /\ UNCHANGED <<addressVars, answerVars, visitVars, optionVars>>
    BY <1>5, <2>1 DEF SetPage, Move
  <2>5. QED
    BY <1>1, <2>2, <2>3, <2>4
<1>6. QED
  BY <1>2, <1>3, <1>4, <1>5

\* Other sources start a load of their speakers.
LEMMA SourceKeeps == ASSUME SearchInv, NEW chosen \in SourceChoices, SetSource(chosen) PROVE SearchRest'
<1>f. FormOK(form) /\ OptionsOK
  BY DEF SearchInv, SearchRest
<1>1. PICK f : f = [form EXCEPT !.sources = chosen, !.speaker = None, !.page = 1]
  OBVIOUS
<1>2. chosen \in SUBSET Sources
  BY <1>f DEF SourceChoices, FormOK
<1>3. FormOK(f) /\ f.page = 1 /\ f.submitted = form.submitted /\ f.sources = chosen
  BY <1>f, <1>1, <1>2 DEF FormOK
<1>4. open /\ Show(f) /\ UNCHANGED <<addressVars, answerVars, visitVars>>
  BY <1>1 DEF SetSource, Move
<1>5. /\ FormOK(form') /\ PageOK(form)' /\ VisitOK' /\ FlightsOK' /\ TotalsOK' /\ CacheOK'
      /\ form' = f /\ open' = open
  BY <1>3, <1>4, FirstPage, ShowKeeps
<1>6. UrlOK'
  BY <1>3, <1>4, <1>5, UrlKept DEF SearchInv, SearchRest
<1>7. OptionsOK'
  <2>1. CASE chosen = form.sources
    <3>1. UNCHANGED optionVars
      BY <2>1 DEF SetSource
    <3>2. QED
      BY <1>f, <1>3, <1>5, <2>1, <3>1, OptionsKept
  <2>2. CASE chosen # form.sources
    <3>1. Reload(chosen)
      BY <2>2 DEF SetSource
    <3>2. optionReads' = {chosen} /\ DOMAIN options' = DOMAIN options
      BY <3>1 DEF Reload
    <3>3. QED
      BY <1>f, <1>3, <1>4, <1>5, <3>2 DEF OptionsOK
  <2>3. QED
    BY <2>1, <2>2
<1>8. QED
  BY <1>5, <1>6, <1>7 DEF SearchInv, SearchRest

\* The loads of the speakers.
LEMMA LoadKeeps ==
    ASSUME SearchInv,
           \/ \E sources \in optionReads : AnswerOptions(sources) \/ FailOptions(sources)
           \/ RetryOptions
    PROVE  SearchRest'
<1>f. OptionsOK
  BY DEF SearchInv, SearchRest
<1>1. UNCHANGED <<form, flights, addressVars, answerVars, visitVars>>
  BY DEF AnswerOptions, FailOptions, RetryOptions
<1>2. OptionsOK'
  <2>1. ASSUME NEW sources \in optionReads, AnswerOptions(sources) PROVE OptionsOK'
    <3>1. optionReads' = optionReads \ {sources} /\ sources = form.sources /\ open
      BY <1>f, <2>1 DEF AnswerOptions, OptionsOK
    <3>2. options'.names = SpeakersOf(sources) /\ DOMAIN options' = DOMAIN options
      BY <1>f, <2>1 DEF AnswerOptions, OptionsOK
    <3>3. QED
      BY <1>f, <1>1, <3>1, <3>2 DEF OptionsOK, visitVars
  <2>2. ASSUME NEW sources \in optionReads, FailOptions(sources) PROVE OptionsOK'
    <3>1. optionReads' = optionReads \ {sources} /\ open
      BY <1>f, <2>2 DEF FailOptions, OptionsOK
    <3>2. options'.error /\ DOMAIN options' = {"names", "loading", "error"}
      BY <2>2 DEF FailOptions
    <3>3. QED
      BY <1>f, <1>1, <3>1, <3>2 DEF OptionsOK, visitVars
  <2>3. CASE RetryOptions
    <3>1. open /\ optionReads' = {form.sources} /\ DOMAIN options' = DOMAIN options
      BY <2>3 DEF RetryOptions, Reload
    <3>2. QED
      BY <1>f, <1>1, <3>1 DEF OptionsOK, visitVars
  <2>4. QED
    BY <2>1, <2>2, <2>3
<1>3. QED
  BY <1>1, <1>2
  DEF SearchInv, SearchRest, FormOK, PageOK, VisitOK, FlightsOK, TotalsOK, RefOK, CacheOK,
      AnswerOK, Found, UrlOK, answerVars, visitVars, addressVars

\* An answer has the total it counted, or that of a search with the same key.
LEMMA AnswerKeeps == ASSUME SearchInv, NEW flight \in flights, Answer(flight) PROVE SearchRest'
<1>f. FlightsOK /\ TotalsOK /\ CacheOK /\ FlightOK(flight)
  BY DEF SearchInv, SearchRest, FlightsOK
<1> DEFINE entry == flight.entry
           known == totals[flight.visit][entry.view]
           hits == Hits(index, entry.view, entry.submitted, entry.sources, entry.speaker)
           found == Found(entry.view, entry.submitted, entry.sources, entry.speaker)
<1>h. hits \in found
  BY FindsNow DEF SearchInv, SearchRest
<1>1. /\ flight.key[1] = entry.submitted /\ flight.key[2] = entry.sources
      /\ flight.key[3] = entry.speaker
  BY <1>f DEF FlightOK, CountKey
<1>2. flight.visit \in 1 .. MaxVisits /\ entry.view \in Views
  BY <1>f DEF FlightOK
<1>3. PICK total :
        /\ total = IF ~flight.skip THEN hits ELSE IF known.key = flight.key THEN known.total ELSE -1
        /\ cache' = {answer \in cache : answer.entry # entry}
                    \cup {[entry |-> entry, total |-> total, fresh |-> TRUE]}
  BY DEF Answer
<1>4. total \in {-1} \cup found
  BY <1>f, <1>h, <1>1, <1>2, <1>3 DEF TotalsOK, RefOK
<1>i. index' = index
  BY DEF Answer
<1>5. CacheOK'
  <2>1. PICK new : new = [entry |-> entry, total |-> total, fresh |-> TRUE]
    OBVIOUS
  <2>2. AnswerOK(new)
    BY <1>4, <2>1 DEF AnswerOK
  <2>3. \A answer \in cache' : answer \in cache \/ answer = new
    BY <1>3, <2>1
  <2>4. \A answer \in cache' : AnswerOK(answer)
    BY <1>f, <2>2, <2>3 DEF CacheOK
  <2>5. QED
    BY <1>i, <2>4 DEF CacheOK, AnswerOK, Found
<1>6. TotalsOK'
  <2>1. CASE totals' = totals
    BY <1>f, <1>i, <2>1 DEF TotalsOK, RefOK, Found
  <2>2. CASE totals' = [totals EXCEPT ![flight.visit][entry.view] = [key |-> flight.key, total |-> hits]]
    <3>1. PICK ref : ref = [key |-> flight.key, total |-> hits]
      OBVIOUS
    <3>2. RefOK(ref, entry.view)
      BY <1>1, <1>h, <3>1 DEF RefOK
    <3>3. totals' = [totals EXCEPT ![flight.visit] = [totals[flight.visit] EXCEPT ![entry.view] = ref]]
      BY <2>2, <3>1
    <3>4. PICK refs : refs = [totals[flight.visit] EXCEPT ![entry.view] = ref]
      OBVIOUS
    <3>5. DOMAIN refs = Views /\ \A v \in Views : RefOK(refs[v], v)
      BY <1>f, <1>2, <3>2, <3>4 DEF TotalsOK
    <3>6. totals' = [totals EXCEPT ![flight.visit] = refs]
      BY <3>3, <3>4
    <3>7. /\ DOMAIN totals' = 1 .. MaxVisits
          /\ \A n \in 1 .. MaxVisits : /\ DOMAIN totals'[n] = Views
                                       /\ \A v \in Views : RefOK(totals'[n][v], v)
      BY <1>f, <1>2, <3>5, <3>6 DEF TotalsOK
    <3>8. QED
      BY <1>i, <3>7 DEF TotalsOK, RefOK, Found
  <2>3. QED
    BY <2>1, <2>2 DEF Answer
<1>7. flights' = flights \ {flight} /\ UNCHANGED <<form, index, addressVars, visitVars, optionVars>>
  BY DEF Answer
<1>8. FlightsOK'
  BY <1>f, <1>7 DEF FlightsOK
<1>9. OptionsOK' /\ UrlOK' /\ VisitOK' /\ FormOK(form') /\ PageOK(form)'
  BY <1>7 DEF SearchInv, SearchRest, OptionsOK, UrlOK, VisitOK, FormOK, PageOK, Found, addressVars, visitVars,
              optionVars
<1>10. QED
  BY <1>5, <1>6, <1>8, <1>9 DEF SearchInv, SearchRest

\* A search that is tried again, answers that go stale, and the window's focus.
LEMMA RetryKeeps ==
    ASSUME SearchInv,
           (\E flight \in flights : Fail(flight)) \/ (\E answer \in cache : Expire(answer)) \/ Focus
    PROVE  SearchRest'
<1>f. FlightsOK /\ CacheOK /\ FormOK(form) /\ VisitOK
  BY DEF SearchInv, SearchRest
<1>1. UNCHANGED <<form, index, addressVars, totals, visitVars, optionVars>>
  BY DEF Fail, Expire, Focus, answerVars
<1>2. FlightsOK' /\ CacheOK'
  <2>1. ASSUME NEW flight \in flights, Fail(flight) PROVE FlightsOK' /\ CacheOK'
    <3>1. PICK again : again = [flight EXCEPT !.tries = 2,
                                  !.skip = CanSkipCount(flight.entry, flight.key, totals[flight.visit])]
      OBVIOUS
    <3>2. flights' \subseteq flights \cup {again} /\ cache' = cache
      BY <2>1, <3>1 DEF Fail, answerVars
    <3>3. FlightOK(again)
      BY <1>f, <3>1 DEF FlightsOK, FlightOK
    <3>4. QED
      BY <1>f, <1>1, <3>2, <3>3 DEF FlightsOK, CacheOK, AnswerOK, Found
  <2>2. ASSUME NEW answer \in cache, Expire(answer) PROVE FlightsOK' /\ CacheOK'
    <3>1. PICK stale : stale = [answer EXCEPT !.fresh = FALSE]
      OBVIOUS
    <3>2. cache' = (cache \ {answer}) \cup {stale} /\ flights' = flights
      BY <2>2, <3>1 DEF Expire
    <3>3. AnswerOK(stale)
      BY <1>f, <3>1 DEF CacheOK, AnswerOK
    <3>4. \A a \in cache' : AnswerOK(a)
      BY <1>f, <3>2, <3>3 DEF CacheOK
    <3>5. QED
      BY <1>f, <1>1, <3>2, <3>4 DEF FlightsOK, CacheOK, AnswerOK, Found
  <2>3. CASE Focus
    <3>1. open /\ flights' = AskedBy(form, visit) /\ cache' = cache
      BY <2>3 DEF Focus, answerVars
    <3>2. visit \in 1 .. MaxVisits
      BY <1>f, <3>1, SearchAssumption DEF VisitOK
    <3>3. FlightsOK'
      BY <1>f, <3>1, <3>2, Asked DEF FlightsOK
    <3>4. QED
      BY <1>f, <1>1, <3>1, <3>3 DEF CacheOK, AnswerOK, Found
  <2>4. QED
    BY <2>1, <2>2, <2>3
<1>3. OptionsOK' /\ UrlOK' /\ VisitOK' /\ FormOK(form') /\ PageOK(form)' /\ TotalsOK'
  BY <1>1
  DEF SearchInv, SearchRest, OptionsOK, UrlOK, VisitOK, FormOK, PageOK, TotalsOK, RefOK, Found,
      addressVars, visitVars, optionVars
<1>4. QED
  BY <1>2, <1>3 DEF SearchInv, SearchRest

\* The page is left and visited again, with refs and options of its own.
LEMMA VisitKeeps ==
    ASSUME SearchInv, Leave \/ \E q \in Queries \cup {None} : Mount(q) PROVE SearchRest'
<1>f. FlightsOK /\ FormOK(form) /\ PageOK(form) /\ VisitOK /\ OptionsOK
  BY DEF SearchInv, SearchRest
<1>1. CASE Leave
  <2>1. /\ ~open' /\ optionReads' = {} /\ options' = NoOptions
        /\ UNCHANGED <<form, flights, index, cache, totals, visit>>
    BY <1>1 DEF Leave, answerVars
  <2>2. OptionsOK' /\ UrlOK' /\ VisitOK'
    BY <1>f, <2>1 DEF OptionsOK, UrlOK, VisitOK, NoOptions
  <2>3. QED
    BY <2>1, <2>2 DEF SearchInv, SearchRest, FormOK, PageOK, FlightsOK, TotalsOK, RefOK, CacheOK,
                      AnswerOK, Found
<1>2. ASSUME NEW q \in Queries \cup {None}, Mount(q) PROVE SearchRest'
  <2>1. PICK f : f = IF q = None THEN form ELSE [form EXCEPT !.submitted = q, !.page = 1]
    OBVIOUS
  <2>2. /\ open' /\ visit' = visit + 1 /\ visit < MaxVisits /\ url' = q /\ pending' = Settled
        /\ form' = f /\ flights' = AskedBy(f, visit') /\ optionReads' = {form.sources}
        /\ UNCHANGED <<index, cache, totals, options>>
    BY <1>2, <2>1 DEF Mount, answerVars
  <2>3. FormOK(f) /\ PageOK(f) /\ f.sources = form.sources /\ (q # None => f.submitted = q)
    <3>1. CASE q = None
      BY <1>f, <2>1, <3>1
    <3>2. CASE q # None
      BY <2>1, <3>2, NewQuery
    <3>3. QED
      BY <3>1, <3>2
  <2>4. visit' \in 1 .. MaxVisits
    BY <1>f, <2>2, SearchAssumption DEF VisitOK
  <2>5. FlightsOK'
    BY <1>f, <2>2, <2>3, <2>4, Asked DEF FlightsOK
  <2>6. VisitOK'
    BY <2>4, SearchAssumption DEF VisitOK
  <2>7. OptionsOK' /\ UrlOK'
    BY <1>f, <2>2, <2>3 DEF OptionsOK, UrlOK
  <2>8. TotalsOK' /\ CacheOK' /\ PageOK(f)'
    BY <2>2, <2>3 DEF SearchInv, SearchRest, TotalsOK, RefOK, CacheOK, AnswerOK, PageOK, Found
  <2>9. QED
    BY <2>2, <2>3, <2>5, <2>6, <2>7, <2>8 DEF SearchInv, SearchRest
<1>3. QED
  BY <1>1, <1>2

\* What was found stays found when the index changes.
LEMMA IndexKeeps == ASSUME SearchInv, ChangeIndex PROVE SearchRest'
<1>f. PageOK(form) /\ TotalsOK /\ CacheOK /\ IndexOK
  BY DEF SearchInv, SearchRest
<1>1. /\ index' = index + 1
      /\ UNCHANGED <<form, flights, addressVars, cache, totals, visitVars, optionVars>>
  BY DEF ChangeIndex
<1>2. \A v, q, sources, s : Found(v, q, sources, s) \subseteq Found(v, q, sources, s)'
  BY <1>f, <1>1, FoundStays
<1>3. PageOK(form)'
  BY <1>f, <1>1, <1>2 DEF PageOK
<1>4. TotalsOK'
  BY <1>f, <1>1, <1>2 DEF TotalsOK, RefOK
<1>5. CacheOK'
  BY <1>f, <1>1, <1>2 DEF CacheOK, AnswerOK
<1>6. FormOK(form)' /\ VisitOK' /\ FlightsOK' /\ UrlOK' /\ OptionsOK'
  BY <1>1 DEF SearchInv, SearchRest, FormOK, VisitOK, FlightsOK, UrlOK, OptionsOK, addressVars,
              visitVars, optionVars
<1>7. QED
  BY <1>1, <1>3, <1>4, <1>5, <1>6 DEF SearchRest

\* A change of the index is one of the faults.
LEMMA IndexCounted == ASSUME IndexOK, SearchNext PROVE IndexOK'
<1>1. \/ index' = index /\ faults' = faults
      \/ index' \in {index, index + 1} /\ faults < MaxFaults /\ faults' = faults + 1
  BY DEF SearchNext, Submit, Follow, Mount, Clear, UrlLands, Leave, Focus, SetSpeaker, SetSource,
         SetView, SetSize, SetPage, AnswerOptions, FailOptions, RetryOptions, Answer, Fail, Expire,
         ChangeIndex, Move, Fault, Calm, answerVars
<1>2. QED
  BY <1>1, SearchAssumption DEF IndexOK

\* Every step of the search page keeps the invariant.
LEMMA SearchStep == ASSUME SearchInv, SearchNext PROVE SearchInv'
<1>1. ASSUME NEW q \in Queries \cup {None}, Follow(q) PROVE SearchRest'
  <2>1. open /\ q # url /\ Arrive(q) /\ UNCHANGED <<answerVars, visitVars, optionVars>>
    BY <1>1 DEF Follow, Move
  <2>2. QED
    BY <2>1, ArriveKeeps
<1>2. ASSUME UrlLands PROVE SearchRest'
  <2>1. open /\ Arrive(pending) /\ UNCHANGED <<answerVars, visitVars, optionVars>>
    BY <1>2 DEF UrlLands
  <2>2. pending = form.submitted /\ pending \in Queries \cup {None}
    BY <1>2 DEF UrlLands, SearchInv, SearchRest, UrlOK, FormOK
  <2>3. QED
    BY <2>1, <2>2, ArriveKeeps
<1>3. QED
  BY <1>1, <1>2, SubmitKeeps, ClearKeeps, FilterKeeps, SourceKeeps, LoadKeeps, AnswerKeeps,
     RetryKeeps, VisitKeeps, IndexKeeps, IndexCounted
  DEF SearchNext, SearchInv

\* The invariant holds before the first visit.
LEMMA SearchStart == ASSUME SearchInit PROVE SearchInv
<1>1. FormOK(form) /\ PageOK(form)
  BY SearchAssumption DEF SearchInit, FormOK, PageOK, Views
<1>2. VisitOK /\ FlightsOK /\ CacheOK
  BY SearchAssumption DEF SearchInit, VisitOK, FlightsOK, CacheOK
<1>3. TotalsOK
  BY DEF SearchInit, TotalsOK, RefOK, NoTotal
<1>i. IndexOK
  BY SearchAssumption DEF SearchInit, IndexOK
<1>4. UrlOK /\ OptionsOK
  BY DEF SearchInit, UrlOK, OptionsOK, NoOptions
<1>5. QED
  BY <1>1, <1>2, <1>3, <1>4, <1>i DEF SearchInv, SearchRest

\* No other page touches the search.
LEMMA SearchUntouched == ASSUME SearchInv, searchVars' = searchVars PROVE SearchInv'
<1>1. UNCHANGED <<form, url, pending, index, cache, flights, totals, visit, open, options,
                  optionReads, faults>>
  BY DEF searchVars
<1>2. QED
  BY <1>1
  DEF SearchInv, SearchRest, IndexOK, FormOK, PageOK, VisitOK, FlightsOK, TotalsOK, RefOK, CacheOK,
      AnswerOK, Found, UrlOK, OptionsOK

\* The invariant of the search page holds for every behaviour of the library.
THEOREM SearchInvariant == LibrarySpec => []SearchInv
<1>1. LibraryInit => SearchInv
  BY SearchStart DEF LibraryInit
<1>2. ASSUME SearchInv, [LibraryNext]_libraryVars PROVE SearchInv'
  <2>1. OnSearch => SearchInv'
    BY <1>2, SearchStep DEF OnSearch
  <2>2. ~OnSearch => searchVars' = searchVars
    BY <1>2 DEF LibraryNext, libraryVars, OnFeeds, OnPlayer, OnQueue
  <2>3. QED
    BY <1>2, <2>1, <2>2, SearchUntouched
<1>3. QED
  BY <1>1, <1>2, PTL DEF LibrarySpec

\* When the address has settled on a query, the page searches for that query
\* (search/page.tsx: the effects that write and read the parameter q).
THEOREM SearchesAddress == LibrarySpec => []UrlAgrees
<1>1. SearchInv => UrlAgrees
  BY DEF SearchInv, SearchRest, UrlOK, UrlAgrees
<1>2. QED
  BY <1>1, SearchInvariant, PTL

\* A remembered total is one of its own search, or none, whichever answers overtake each
\* other and however the index changes (search/page.tsx: the totals refs and skip_count).
THEOREM TotalsOfOwnSearch == LibrarySpec => []TotalsTrue
<1>1. SearchInv => TotalsTrue
  BY DEF SearchInv, SearchRest, CacheOK, AnswerOK, TotalsTrue
<1>2. QED
  BY <1>1, SearchInvariant, PTL

\* A page beyond the first is one that the search had under an index it has seen, whichever
\* answers, counted or not, the page numbers came from, for every such history of the index
\* (search/page.tsx: every filter returns to page one).
THEOREM PageExists == LibrarySpec => []PageInRange
<1>1. SearchInv => PageInRange
  BY DEF SearchInv, SearchRest, PageOK, PageInRange
<1>2. QED
  BY <1>1, SearchInvariant, PTL

\* The speakers offered are those of the sources selected now (SpeakerFilter.tsx: a load
\* that a new one replaces is aborted).
THEOREM OptionsOfSources == LibrarySpec => []FreshOptions
<1>1. SearchInv => FreshOptions
  BY DEF SearchInv, SearchRest, OptionsOK, FreshOptions
<1>2. QED
  BY <1>1, SearchInvariant, PTL

-----------------------------------------------------------------------------
(* The queue page.  A snapshot during which no episode moved is that of    *)
(* one state of the database; eps stands for that state.                   *)

Phase == Stages \cup {"pending", "done", "failed", "no_speech"}
RowSort == [status : Phase, waiting : BOOLEAN, picked : Stages \cup {None}, final : BOOLEAN]

Lists == {"active", "pending", "failed", "done", "stuck"}
Buckets == Lists \cup {"count"}
QueueEntry == [episode : Episodes, bucket : Buckets, status : Phase \cup {"stuck"}, final : BOOLEAN]

\* How many statements are left when a bucket's turn comes, its own among them.
Rank == [b \in Buckets |->
    CASE b = "active" -> 6 [] b = "pending" -> 5 [] b = "failed" -> 4
      [] b = "done" -> 3 [] b = "stuck" -> 2 [] OTHER -> 1]

\* The bucket as it was in a given state of the database.
Of(eps, bucket) ==
    {[episode |-> e, bucket |-> bucket, status |-> ShownStatus(bucket, eps[e]),
      final |-> eps[e].final] : e \in {x \in Episodes : InBucket(bucket, eps[x])}}

\* Rows and count of a snapshot of eps with that many statements left.
SnapshotOf(eps, left, found, done) ==
    /\ \A row \in found : row.bucket \in Lists /\ row \in Of(eps, row.bucket)
    /\ \A b \in Lists \ {"done"} : left < Rank[b] => Of(eps, b) \subseteq found
    /\ left < Rank["done"] /\ Cardinality(Of(eps, "done")) <= DoneLimit => Of(eps, "done") \subseteq found
    /\ left < Rank["count"] => done = Cardinality(Of(eps, "count"))

\* The statements left are in their order.
Ordered(todo) == \A i \in 1 .. Len(todo) : Rank[todo[i]] = Len(todo) - i + 1

\* A clean snapshot is of one state; if it is still being read, of the present one.
PollOK(poll) ==
    /\ Ordered(poll.todo)
    /\ poll.clean => \E eps \in [Episodes -> RowSort] :
            /\ poll.todo # << >> => eps = episodes
            /\ SnapshotOf(eps, Len(poll.todo), poll.rows, poll.done)

PollType == [id : Nat, todo : Seq(Buckets), rows : SUBSET QueueEntry, done : Nat, clean : BOOLEAN]

ShownOK == queue.clean => \E eps \in [Episodes -> RowSort] : SnapshotOf(eps, 0, queue.rows, queue.done)

QueueInv ==
    /\ episodes \in [Episodes -> RowSort]
    /\ polls \in SUBSET PollType /\ polled \in Nat
    /\ \A poll \in polls : PollOK(poll)
    /\ ShownOK

\* A move of the pipeline leaves rows of the sort they are.
LEMMA MovedSort == ASSUME NEW row \in RowSort, NEW r \in Moved(row) PROVE r \in RowSort
<1>1. CASE row.picked = None
  <2>1. Moved(row) = {[row EXCEPT !.waiting = FALSE, !.picked = s] :
                          s \in IF row.waiting THEN Stages ELSE {}}
    BY <1>1, Zenon DEF Moved
  <2>2. PICK s \in IF row.waiting THEN Stages ELSE {} : r = [row EXCEPT !.waiting = FALSE, !.picked = s]
    BY <2>1, Zenon
  <2>3. s \in Stages
    BY <2>2
  <2>4. QED
    BY <2>2, <2>3 DEF RowSort
<1>2. CASE row.picked # None /\ row.status \in Terminal
  <2>1. r = [row EXCEPT !.picked = None]
    BY <1>2 DEF Moved
  <2>2. QED
    BY <2>1 DEF RowSort
<1>3. CASE row.picked # None /\ row.status \notin Terminal
  <2>. row.picked \in Phase /\ {"done", "no_speech", "failed"} \subseteq Phase
    BY <1>3 DEF RowSort, Phase
  <2>1. ASSUME NEW status \in Phase PROVE [row EXCEPT !.status = status] \in RowSort
    BY DEF RowSort
  <2>2. \A f \in BOOLEAN : [row EXCEPT !.status = "failed", !.final = f] \in RowSort
    BY DEF RowSort
  <2>3. [row EXCEPT !.picked = None, !.waiting = TRUE] \in RowSort
    BY DEF RowSort
  <2>4. [row EXCEPT !.status = "no_speech", !.final = TRUE] \in RowSort
    BY DEF RowSort
  <2>5. r \in {[row EXCEPT !.status = row.picked], [row EXCEPT !.picked = None, !.waiting = TRUE]}
              \cup {[row EXCEPT !.status = "done"]}
              \cup {[row EXCEPT !.status = "no_speech", !.final = TRUE]}
              \cup {[row EXCEPT !.status = "failed", !.final = f] : f \in BOOLEAN}
    BY <1>3, Zenon DEF Moved
  <2>6. QED
    BY <2>1, <2>2, <2>3, <2>4, <2>5
<1>4. QED
  BY <1>1, <1>2, <1>3

\* The rows that a database can start with are of that sort.
LEMMA PossibleSort == ASSUME NEW r \in Possible PROVE r \in RowSort
<1>1. ASSUME NEW s \in Phase, NEW w \in BOOLEAN, NEW p \in Stages \cup {None}, NEW f \in BOOLEAN
      PROVE Row(s, w, p, f) \in RowSort
  BY <1>1 DEF Row, RowSort
<1>2. PICK s \in Phase, w \in BOOLEAN, p \in Stages \cup {None}, f \in BOOLEAN : r = Row(s, w, p, f)
  <2>1. CASE r \in {Row(s, waiting, picked, FALSE) : s \in Stages \cup {"pending"}, waiting \in BOOLEAN,
                                                    picked \in Stages \cup {None}}
    <3>1. \E s \in Stages \cup {"pending"}, waiting \in BOOLEAN, picked \in Stages \cup {None} :
              r = Row(s, waiting, picked, FALSE)
      BY <2>1 DEF Row
    <3>2. QED
      BY <3>1 DEF Phase
  <2>2. CASE r \in {Row("done", FALSE, picked, FALSE) : picked \in Stages \cup {None}}
    BY <2>2 DEF Phase
  <2>3. CASE r \in {Row("no_speech", FALSE, picked, TRUE) : picked \in Stages \cup {None}}
    BY <2>3 DEF Phase
  <2>4. CASE r \in {Row("failed", FALSE, picked, final) : picked \in Stages \cup {None}, final \in BOOLEAN}
    <3>1. \E picked \in Stages \cup {None}, final \in BOOLEAN : r = Row("failed", FALSE, picked, final)
      BY <2>4 DEF Row
    <3>2. QED
      BY <3>1 DEF Phase
  <2>5. QED
    BY <2>1, <2>2, <2>3, <2>4 DEF Possible, Row
<1>3. QED
  BY <1>1, <1>2

\* An entry of a bucket is one of the page's rows.
LEMMA EntryOf ==
    ASSUME NEW eps \in [Episodes -> RowSort], NEW b \in Buckets
    PROVE Of(eps, b) \subseteq QueueEntry
<1>1. SUFFICES ASSUME NEW e \in Episodes, InBucket(b, eps[e])
               PROVE [episode |-> e, bucket |-> b, status |-> ShownStatus(b, eps[e]),
                      final |-> eps[e].final] \in QueueEntry
  BY DEF Of
<1>2. eps[e] \in RowSort
  OBVIOUS
<1>3. ShownStatus(b, eps[e]) \in Phase \cup {"stuck"}
  BY <1>1, <1>2 DEF ShownStatus, InBucket, RowSort, Phase, Buckets, Lists
<1>4. QED
  BY <1>2, <1>3 DEF QueueEntry, RowSort

\* A bucket has as many entries as episodes.
LEMMA CountOf ==
    ASSUME NEW eps \in [Episodes -> RowSort], NEW b
    PROVE /\ IsFiniteSet(Of(eps, b)) /\ Cardinality(Of(eps, b)) \in Nat
          /\ Cardinality(Of(eps, b)) = Cardinality({x \in Episodes : InBucket(b, eps[x])})
<1> DEFINE members == {x \in Episodes : InBucket(b, eps[x])}
           entry(e) == [episode |-> e, bucket |-> b, status |-> ShownStatus(b, eps[e]),
                        final |-> eps[e].final]
           f == [e \in members |-> entry(e)]
<1>1. IsFiniteSet(members)
  BY FS_Subset, QueueAssumption
<1>2. Of(eps, b) = {entry(e) : e \in members}
  BY DEF Of
<1>3. f \in Bijection(members, Of(eps, b))
  <2>1. f \in [members -> Of(eps, b)]
    BY <1>2
  <2>2. \A c, d \in members : f[c] = f[d] => c = d
    <3>1. \A c \in members : f[c].episode = c
      OBVIOUS
    <3>2. QED
      BY <3>1
  <2>3. \A y \in Of(eps, b) : \E c \in members : f[c] = y
    BY <1>2
  <2>4. QED
    BY <2>1, <2>2, <2>3 DEF Bijection, Injection, Surjection, IsInjective
<1> HIDE DEF f, members
<1>4. IsFiniteSet(Of(eps, b)) /\ Cardinality(Of(eps, b)) = Cardinality(members)
  BY <1>1, <1>3, FS_Bijection DEF ExistsBijection
<1>5. QED
  BY <1>4, FS_CardinalityType DEF members

\* What a database shows as done is what it counts as done.
LEMMA DoneCounted ==
    ASSUME NEW eps \in [Episodes -> RowSort]
    PROVE Cardinality(Of(eps, "done")) = Cardinality(Of(eps, "count"))
<1>1. {x \in Episodes : InBucket("done", eps[x])} = {x \in Episodes : InBucket("count", eps[x])}
  BY DEF InBucket
<1>2. QED
  BY <1>1, CountOf

\* An answer that is read from the present state extends a snapshot of it by one bucket.
LEMMA ReadKeeps ==
    ASSUME QueueInv, NEW poll \in polls, ReadBucket(poll)
    PROVE QueueInv'
<1> USE DEF QueueInv
<1> DEFINE b == Head(poll.todo)
           next(rows) == IF b = "count"
                         THEN [poll EXCEPT !.todo = Tail(@), !.done = Cardinality(rows)]
                         ELSE [poll EXCEPT !.todo = Tail(@), !.rows = @ \cup rows]
<1>1. PICK rows \in Listings(b) : polls' = (polls \ {poll}) \cup {next(rows)}
  BY DEF ReadBucket
<1>2. UNCHANGED <<episodes, polled, queue>>
  BY DEF ReadBucket
<1>3. /\ poll \in PollType /\ poll.todo \in Seq(Buckets) /\ poll.todo # << >> /\ PollOK(poll)
      /\ Len(poll.todo) \in Nat \ {0}
  BY DEF ReadBucket, PollType
<1>4. /\ b \in Buckets /\ Tail(poll.todo) \in Seq(Buckets)
      /\ Len(Tail(poll.todo)) = Len(poll.todo) - 1 /\ b = poll.todo[1]
      /\ \A i \in 1 .. Len(poll.todo) - 1 : Tail(poll.todo)[i] = poll.todo[i + 1]
  BY <1>3
<1>5. Rank[b] = Len(poll.todo) /\ Ordered(Tail(poll.todo))
  <2>1. Rank[b] = Len(poll.todo)
    BY <1>3, <1>4 DEF PollOK, Ordered
  <2>2. ASSUME NEW i \in 1 .. Len(Tail(poll.todo))
        PROVE Rank[Tail(poll.todo)[i]] = Len(Tail(poll.todo)) - i + 1
    <3>1. i + 1 \in 1 .. Len(poll.todo) /\ Tail(poll.todo)[i] = poll.todo[i + 1]
      BY <1>3, <1>4, <2>2
    <3>2. Rank[poll.todo[i + 1]] = Len(poll.todo) - (i + 1) + 1
      BY <1>3, <3>1 DEF PollOK, Ordered
    <3>3. QED
      BY <1>3, <1>4, <2>2, <3>1, <3>2
  <2>3. QED
    BY <2>1, <2>2 DEF Ordered
<1>6. /\ Bucket(b) = Of(episodes, b) /\ rows \subseteq Of(episodes, b)
      /\ b # "done" => rows = Of(episodes, b)
      /\ Cardinality(Of(episodes, "done")) <= DoneLimit => rows = Of(episodes, b)
      /\ Cardinality(rows) \in Nat
  <2>1. Bucket(b) = Of(episodes, b) /\ Bucket("done") = Of(episodes, "done")
    BY DEF Bucket, Of
  <2>2. Cardinality(Of(episodes, b)) \in Nat /\ Cardinality(Of(episodes, "done")) \in Nat
    BY CountOf
  <2>3. CASE b = "done" /\ Cardinality(Bucket("done")) > DoneLimit
    <3>1. rows \in {rs \in SUBSET Bucket("done") : Cardinality(rs) = DoneLimit}
      BY <2>3 DEF Listings
    <3>2. DoneLimit \in Nat
      BY QueueAssumption
    <3>3. QED
      BY <2>1, <2>2, <2>3, <3>1, <3>2
  <2>4. CASE ~(b = "done" /\ Cardinality(Bucket("done")) > DoneLimit)
    <3>1. rows = Bucket(b)
      BY <2>4 DEF Listings
    <3>2. QED
      BY <2>1, <2>2, <3>1
  <2>5. QED
    BY <2>3, <2>4
<1>7. rows \subseteq QueueEntry
  BY <1>4, <1>6, EntryOf
<1>8. next(rows) \in PollType
  BY <1>3, <1>4, <1>6, <1>7 DEF PollType
<1>9. PollOK(next(rows))'
  <2>1. next(rows).todo = Tail(poll.todo) /\ next(rows).clean = poll.clean
    BY <1>3 DEF PollType
  <2>2. /\ b = "count" => next(rows).rows = poll.rows /\ next(rows).done = Cardinality(rows)
        /\ b # "count" => next(rows).rows = poll.rows \cup rows /\ next(rows).done = poll.done
    BY <1>3 DEF PollType
  <2> HIDE DEF next
  <2>3. ASSUME poll.clean
        PROVE SnapshotOf(episodes, Len(Tail(poll.todo)), next(rows).rows, next(rows).done)
    <3>1. SnapshotOf(episodes, Len(poll.todo), poll.rows, poll.done)
      BY <1>3, <2>3 DEF PollOK
    <3>2. \A c \in Buckets : Rank[c] \in 1 .. 6 /\ (Rank[c] = Rank[b] => c = b)
      BY <1>4 DEF Rank, Buckets, Lists
    <3>3. \A c \in Buckets : Len(Tail(poll.todo)) < Rank[c] => c = b \/ Len(poll.todo) < Rank[c]
      BY <1>3, <1>4, <1>5, <3>2
    <3>4. \A row \in next(rows).rows : row.bucket \in Lists /\ row \in Of(episodes, row.bucket)
      <4>1. \A row \in poll.rows : row.bucket \in Lists /\ row \in Of(episodes, row.bucket)
        BY <3>1 DEF SnapshotOf
      <4>2. \A row \in rows : row \in Of(episodes, b) /\ row.bucket = b
        BY <1>6 DEF Of
      <4>3. b # "count" => b \in Lists
        BY <1>4 DEF Buckets
      <4>4. QED
        BY <2>2, <4>1, <4>2, <4>3
    <3>5. \A c \in Lists \ {"done"} : Len(Tail(poll.todo)) < Rank[c] => Of(episodes, c) \subseteq next(rows).rows
      <4>1. ASSUME NEW c \in Lists \ {"done"}, Len(Tail(poll.todo)) < Rank[c]
            PROVE Of(episodes, c) \subseteq next(rows).rows
        <5>1. CASE c = b
          BY <1>6, <2>2, <5>1 DEF Lists
        <5>2. CASE Len(poll.todo) < Rank[c]
          BY <2>2, <3>1, <5>2 DEF SnapshotOf
        <5>3. QED
          BY <3>3, <4>1, <5>1, <5>2 DEF Buckets
      <4>2. QED
        BY <4>1
    <3>6. ASSUME Len(Tail(poll.todo)) < Rank["done"], Cardinality(Of(episodes, "done")) <= DoneLimit
          PROVE Of(episodes, "done") \subseteq next(rows).rows
      <4>1. CASE b = "done"
        BY <1>6, <2>2, <3>6, <4>1
      <4>2. CASE Len(poll.todo) < Rank["done"]
        BY <2>2, <3>1, <3>6, <4>2 DEF SnapshotOf
      <4>3. QED
        BY <3>3, <3>6, <4>1, <4>2 DEF Buckets, Lists
    <3>7. ASSUME Len(Tail(poll.todo)) < Rank["count"]
          PROVE next(rows).done = Cardinality(Of(episodes, "count"))
      <4>1. CASE b = "count"
        BY <1>6, <2>2, <4>1
      <4>2. CASE b # "count"
        BY <2>2, <3>1, <3>3, <3>7, <4>2 DEF SnapshotOf, Buckets
      <4>3. QED
        BY <4>1, <4>2
    <3>8. QED
      BY <3>4, <3>5, <3>6, <3>7 DEF SnapshotOf
  <2>4. QED
    BY <1>2, <1>5, <2>1, <2>3 DEF PollOK
<1>10. QED
  <2>1. polls' \in SUBSET PollType /\ \A p \in polls' : PollOK(p)'
    <3>1. \A p \in polls : PollOK(p)'
      BY <1>2 DEF PollOK
    <3>2. QED
      BY <1>1, <1>8, <1>9, <3>1
  <2>2. ShownOK'
    BY <1>2 DEF ShownOK
  <2>3. QED
    BY <1>2, <2>1, <2>2

\* What moves an episode spoils the polls that are not read to their end, and no others.
LEMMA MoveKeeps ==
    ASSUME QueueInv, Dirty, episodes' \in [Episodes -> RowSort], UNCHANGED <<polled, queue>>
    PROVE QueueInv'
<1> USE DEF QueueInv
<1>1. ASSUME NEW p \in polls' PROVE p \in PollType /\ PollOK(p)'
  <2>1. PICK poll \in polls : p = [poll EXCEPT !.clean = @ /\ poll.todo = << >>]
    BY <1>1 DEF Dirty
  <2>2. poll \in PollType /\ PollOK(poll)
    OBVIOUS
  <2>3. /\ p.todo = poll.todo /\ p.rows = poll.rows /\ p.done = poll.done
        /\ p.clean = (poll.clean /\ poll.todo = << >>) /\ p \in PollType
    BY <2>1, <2>2 DEF PollType
  <2>4. QED
    BY <2>2, <2>3 DEF PollOK
<1>2. ShownOK'
  BY DEF ShownOK
<1>3. QED
  BY <1>1, <1>2

\* A new snapshot has everything left to read; one that is answered is shown.
LEMMA PollSteps ==
    ASSUME QueueInv, Poll \/ \E poll \in polls : AnswerPoll(poll) \/ LosePoll(poll)
    PROVE QueueInv'
<1> USE DEF QueueInv
<1>1. CASE Poll
  <2> DEFINE order == <<"active", "pending", "failed", "done", "stuck", "count">>
  <2>1. polls' = polls \cup {NewPoll} /\ polled' = polled + 1 /\ UNCHANGED <<episodes, queue>>
    BY <1>1 DEF Poll
  <2>2. order \in Seq(Buckets) /\ Len(order) = 6 /\ Ordered(order)
    <3>1. order \in Seq(Buckets) /\ Len(order) = 6
      BY DEF Buckets, Lists
    <3>2. Ordered(order)
      BY DEF Ordered, Rank, Buckets, Lists
    <3>3. QED
      BY <3>1, <3>2
  <2>3. NewPoll.todo = order /\ NewPoll.rows = {} /\ NewPoll.done = 0 /\ NewPoll \in PollType
    BY <2>2 DEF NewPoll, PollType
  <2> HIDE DEF order
  <2>4. SnapshotOf(episodes, 6, {}, 0)
    BY DEF SnapshotOf, Rank, Buckets, Lists
  <2>5. PollOK(NewPoll)
    BY <2>2, <2>3, <2>4 DEF PollOK
  <2>6. \A p \in polls' : PollOK(p)'
    BY <2>1, <2>5 DEF PollOK
  <2>7. ShownOK'
    BY <2>1 DEF ShownOK
  <2>8. QED
    BY <2>1, <2>3, <2>6, <2>7
<1>2. ASSUME NEW poll \in polls, AnswerPoll(poll) PROVE QueueInv'
  <2>1. /\ polls' = polls \ {poll} /\ UNCHANGED <<episodes, polled>> /\ poll.todo = << >>
        /\ queue' = [rows |-> poll.rows, done |-> poll.done, clean |-> poll.clean]
    BY <1>2 DEF AnswerPoll
  <2>2. ShownOK'
    BY <2>1 DEF ShownOK, PollOK
  <2>3. \A p \in polls' : PollOK(p)'
    BY <2>1 DEF PollOK
  <2>4. QED
    BY <2>1, <2>2, <2>3
<1>3. ASSUME NEW poll \in polls, LosePoll(poll) PROVE QueueInv'
  BY <1>3 DEF LosePoll, PollOK, ShownOK
<1>4. QED
  BY <1>1, <1>2, <1>3

\* The pipeline and the server that takes a retry move an episode, if at all.
LEMMA EpisodeSteps ==
    ASSUME QueueInv, (\E e \in Episodes : PipelineStep(e)) \/ (\E e \in retries : LandRetry(e))
    PROVE QueueInv'
<1> USE DEF QueueInv
<1>1. ASSUME NEW e \in Episodes, PipelineStep(e) PROVE QueueInv'
  <2>1. PICK row \in Moved(episodes[e]) : episodes' = [episodes EXCEPT ![e] = row]
    BY <1>1 DEF PipelineStep
  <2>2. episodes' \in [Episodes -> RowSort]
    BY <2>1, MovedSort
  <2>3. QED
    BY <1>1, <2>2, MoveKeeps DEF PipelineStep
<1>2. ASSUME NEW e \in retries, LandRetry(e) PROVE QueueInv'
  <2>1. CASE RetryAccepted(episodes[e])
    <3>1. /\ episodes' = [episodes EXCEPT ![e].status = "pending", ![e].waiting = TRUE]
          /\ Dirty /\ UNCHANGED <<polled, queue>>
      BY <1>2, <2>1 DEF LandRetry
    <3>2. \A row \in RowSort : [[row EXCEPT !.status = "pending"] EXCEPT !.waiting = TRUE] \in RowSort
      BY DEF RowSort, Phase
    <3>3. episodes' \in [Episodes -> RowSort]
      BY <3>1, <3>2
    <3>4. QED
      BY <3>1, <3>3, MoveKeeps
  <2>2. CASE ~RetryAccepted(episodes[e])
    <3>1. UNCHANGED <<episodes, polls, polled, queue>>
      BY <1>2, <2>2 DEF LandRetry
    <3>2. QED
      BY <3>1 DEF PollOK, ShownOK
  <2>3. QED
    BY <2>1, <2>2
<1>3. QED
  BY <1>1, <1>2

\* Clicks and other pages leave rows, polls and what is shown alone.
LEMMA ViewSteps ==
    ASSUME QueueInv, UNCHANGED <<episodes, polls, polled, queue>>
    PROVE QueueInv'
BY DEF QueueInv, PollOK, ShownOK

\* Every step of the queue page keeps the invariant.
LEMMA QueueStep == ASSUME QueueInv, QueueNext PROVE QueueInv'
<1>1. ASSUME \/ \E e \in Episodes : FilterText({e})
             \/ \E stage \in Bar : FilterStage(stage)
             \/ ToggleDone \/ \E row \in Rows : RetryRow(row)
             \/ \E e \in retries : LoseRetry(e)
      PROVE UNCHANGED <<episodes, polls, polled, queue>>
  BY <1>1 DEF FilterText, FilterStage, ToggleDone, RetryRow, LoseRetry
<1>2. QED
  BY <1>1, ViewSteps, EpisodeSteps, PollSteps, ReadKeeps DEF QueueNext

\* The invariant of the queue page holds for every behaviour of the library.
THEOREM QueueInvariant == LibrarySpec => []QueueInv
<1>1. LibraryInit => QueueInv
  <2>1. SUFFICES ASSUME QueueInit PROVE QueueInv
    BY DEF LibraryInit
  <2>2. episodes \in [Episodes -> RowSort] /\ polls = {} /\ polled = 0 /\ queue.clean = FALSE
    BY <2>1, PossibleSort DEF QueueInit, NoQueue
  <2>3. QED
    BY <2>2 DEF QueueInv, ShownOK
<1>2. ASSUME QueueInv, [LibraryNext]_libraryVars PROVE QueueInv'
  <2>1. OnQueue => QueueInv'
    BY <1>2, QueueStep DEF OnQueue
  <2>2. ~OnQueue => queueVars' = queueVars
    BY <1>2 DEF LibraryNext, libraryVars, OnFeeds, OnPlayer, OnSearch
  <2>3. queueVars' = queueVars => UNCHANGED <<episodes, polls, polled, queue>>
    BY DEF queueVars
  <2>4. QED
    BY <1>2, <2>1, <2>2, <2>3, ViewSteps
<1>3. QED
  BY <1>1, <1>2, PTL DEF LibrarySpec

\* Every episode is in some bucket of what is shown, when no episode moved while it was
\* read and the finished ones fit (queue_snapshot.py: the conditions of its statements
\* leave no status and no state of a job out).
THEOREM NoneHidden == LibrarySpec => []EveryEpisodeShown
<1>1. ASSUME QueueInv, queue.clean, queue.done <= DoneLimit, NEW e \in Episodes
      PROVE \E row \in queue.rows : row.episode = e
  <2>1. PICK eps \in [Episodes -> RowSort] : SnapshotOf(eps, 0, queue.rows, queue.done)
    BY <1>1 DEF QueueInv, ShownOK
  <2>2. \A b \in Lists : Of(eps, b) \subseteq queue.rows
    <3>1. \A b \in Buckets : 0 < Rank[b]
      BY DEF Rank, Buckets, Lists
    <3>2. Cardinality(Of(eps, "done")) <= DoneLimit
      BY <1>1, <2>1, <3>1, DoneCounted DEF SnapshotOf, Buckets
    <3>3. QED
      BY <2>1, <3>1, <3>2 DEF SnapshotOf, Buckets, Lists
  <2>3. PICK b \in Lists : InBucket(b, eps[e])
    <3>1. eps[e] \in RowSort
      OBVIOUS
    <3>2. CASE eps[e].picked # None
      BY <3>2 DEF InBucket, Lists
    <3>3. CASE eps[e].picked = None /\ eps[e].status \in {"done", "no_speech"}
      BY <3>3 DEF InBucket, Lists
    <3>4. CASE eps[e].picked = None /\ eps[e].status = "failed"
      BY <3>4 DEF InBucket, Lists
    <3>5. CASE eps[e].picked = None /\ eps[e].status \notin Terminal /\ eps[e].waiting
      BY <3>5 DEF InBucket, Lists
    <3>6. CASE eps[e].picked = None /\ eps[e].status \notin Terminal /\ ~eps[e].waiting
      BY <3>6 DEF InBucket, Lists
    <3>7. QED
      BY <3>1, <3>2, <3>3, <3>4, <3>5, <3>6 DEF RowSort, Terminal
  <2>4. [episode |-> e, bucket |-> b, status |-> ShownStatus(b, eps[e]), final |-> eps[e].final]
            \in Of(eps, b)
    BY <2>3 DEF Of
  <2>5. QED
    BY <2>2, <2>4
<1>2. QueueInv => EveryEpisodeShown
  BY <1>1 DEF EveryEpisodeShown
<1>3. QED
  BY <1>2, QueueInvariant, PTL

\* A segment of the bar counts the rows that clicking it shows, when no episode moved while
\* the snapshot was read (queueStatus.ts matchesStage; QueueStatus.tsx stageCounts; the
\* count of the finished ones comes from a statement of its own).
THEOREM SegmentsCount == LibrarySpec => []BarMatchesRows
<1>1. ASSUME QueueInv, queue.clean, NEW stage \in Bar, stage = "done" => queue.done <= DoneLimit
      PROVE Counts(stage) = Cardinality(Matching(stage, Episodes))
  <2>1. PICK eps \in [Episodes -> RowSort] : SnapshotOf(eps, 0, queue.rows, queue.done)
    BY <1>1 DEF QueueInv, ShownOK
  <2>2. \A row \in queue.rows : row.bucket \in Lists /\ row \in Of(eps, row.bucket)
    BY <2>1 DEF SnapshotOf
  <2>3. \A row \in queue.rows :
            /\ row.episode \in Episodes /\ row.bucket \in Lists
            /\ row.bucket = "done" <=> row.status \in {"done", "no_speech"}
    <3>1. SUFFICES ASSUME NEW row \in queue.rows
                   PROVE /\ row.episode \in Episodes /\ row.bucket \in Lists
                         /\ row.bucket = "done" <=> row.status \in {"done", "no_speech"}
      OBVIOUS
    <3>2. PICK e \in Episodes : /\ InBucket(row.bucket, eps[e]) /\ row.episode = e
                                /\ row.status = ShownStatus(row.bucket, eps[e])
      BY <2>2 DEF Of
    <3>3. row.bucket \in Lists /\ eps[e] \in RowSort
      BY <2>2
    <3>4. CASE row.bucket = "active"
      BY <3>2, <3>3, <3>4, QueueAssumption DEF InBucket, ShownStatus, RowSort
    <3>5. CASE row.bucket \in {"pending", "stuck", "failed"}
      BY <3>2, <3>3, <3>5 DEF InBucket, ShownStatus
    <3>6. CASE row.bucket = "done"
      BY <3>2, <3>3, <3>6 DEF InBucket, ShownStatus
    <3>7. QED
      BY <3>2, <3>3, <3>4, <3>5, <3>6 DEF Lists
  <2>4. stage # None /\ stage # "no_speech"
    BY QueueAssumption DEF Bar, None
  <2>5. CASE stage = "done"
    <3>1. \A b \in Buckets : 0 < Rank[b]
      BY DEF Rank, Buckets, Lists
    <3>2. queue.done = Cardinality(Of(eps, "done")) /\ Of(eps, "done") \subseteq queue.rows
      BY <1>1, <2>1, <2>5, <3>1, DoneCounted DEF SnapshotOf, Buckets, Lists
    <3>3. \A row \in Of(eps, "done") : row.bucket = "done"
      BY DEF Of
    <3>4. Matching(stage, Episodes) = Of(eps, "done")
      <4>1. Matching(stage, Episodes) = {row \in queue.rows : row.bucket = "done"}
        BY <2>3, <2>4, <2>5 DEF Matching, MatchesStage
      <4>2. QED
        BY <2>2, <3>2, <3>3, <4>1
    <3>5. QED
      BY <2>5, <3>2, <3>4 DEF Counts
  <2>6. CASE stage # "done"
    <3>1. Matching(stage, Episodes) = {row \in queue.rows : row.bucket # "done" /\ row.status = stage}
      BY <2>3, <2>4, <2>6 DEF Matching, MatchesStage
    <3>2. QED
      BY <2>6, <3>1 DEF Counts
  <2>7. QED
    BY <2>5, <2>6
<1>2. QueueInv => BarMatchesRows
  BY <1>1 DEF BarMatchesRows
<1>3. QED
  BY <1>2, QueueInvariant, PTL
=============================================================================
