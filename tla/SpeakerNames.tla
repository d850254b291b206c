---------------------------- MODULE SpeakerNames ----------------------------
(***************************************************************************)
(* The speakers of one episode in the database: the label of each segment, *)
(* the rows of speaker_names, the materialised turns and the feed's cache  *)
(* of confirmed names.  Three writers share them: the web routes           *)
(* /api/episodes/[id]/speakers and .../merge, the stages that rebuild the  *)
(* segments when an episode is processed again, and the inference stage.   *)
(*                                                                         *)
(* A web request is one transaction and one step here.  Inference is three *)
(* steps, because it reads segments and rows long before its commit.       *)
(***************************************************************************)
EXTENDS Integers, FiniteSets

CONSTANTS
    N,              \* the number of segments of the episode
    Labels,         \* bound on the speaker labels
    Person,         \* names that can be given, honorifics aside
    Episodes,       \* the label sequences diarization may give
    Again,          \* those of them that may be about to be inferred at the start
    Pauses,         \* segments that may come after a long pause
    Carried,        \* labels that may have a confirmed name from an earlier processing
    MaxRebuilds     \* how often the episode is processed again

Position == 1 .. N
Label == 0 .. Labels - 1                 \* SPEAKER_00, SPEAKER_01, ...
NoLabel == -1                            \* speaker_label IS NULL

\* A segment may be left without a label, and the labels with gaps: a speaker of a few
\* words may have them given to another.
ASSUME SizeAssumption ==
    /\ {N, Labels, MaxRebuilds} \subseteq Nat /\ 0 < N /\ N <= Labels
    /\ Pauses \subseteq 2 .. N /\ Carried \subseteq Label
ASSUME StartAssumption ==
    Again \subseteq Episodes /\ Episodes \subseteq [Position -> Label \cup {NoLabel}]

\* A display name: with or without an honorific before it.  Blank stands for no
\* name at all (null, or the empty name of a role='other' row); OwnLabel is the
\* label itself used as a name.
NameOf(titled, base) == [titled |-> titled, base |-> base]
Blank == NameOf(FALSE, "")
OwnLabel == NameOf(FALSE, "SPEAKER_NN")
Name == {NameOf(t, b) : t \in BOOLEAN, b \in Person} \cup {OwnLabel}

Guesses == {NameOf(FALSE, b) : b \in Person}     \* what inference comes up with

\* "Dr. Jane Smith" and "Jane Smith" are one person to the cache.
normalizeName(n) == NameOf(FALSE, n.base)

Role == {"host", "guest", "other"}
NoRole == "none"

Row == [name: Name \cup {Blank}, inferred: BOOLEAN, confirmed: BOOLEAN,
        role: Role \cup {NoRole}, review: BOOLEAN]

VARIABLES
    segs,       \* segs[i]: the label of segment i, in order of time
    rows,       \* speaker_names: a function on the labels that have a row
    turns,      \* speaker_turns
    cache,      \* feed_speaker_cache: how often each <<label, name>> was confirmed
    stage,      \* the pipeline stage the episode is in, "idle" when in none
    infer,      \* what the inference handler holds in memory
    rebuilds,   \* how often the segments were rebuilt
    edited,     \* history: labels named by a user since the segments were rebuilt
    crossed,    \* history: a merge came between that rebuild and the end of inference
    spoken      \* history: the labels before inference gave out slots, if none is real

dbVars == <<segs, rows, turns, cache>>
pipeVars == <<stage, infer, rebuilds>>
history == <<edited, crossed, spoken>>
nameVars == <<dbVars, pipeVars, history>>

-----------------------------------------------------------------------------
\* Operators on the rows and the segments.

Put(f, l, r) == [k \in DOMAIN f \cup {l} |-> IF k = l THEN r ELSE f[k]]
Without(f, L) == [k \in DOMAIN f \ L |-> f[k]]
LabelsIn(s) == {s[i] : i \in Position} \ {NoLabel}
NoGaps(s) == \A l \in LabelsIn(s) : 0 .. l \subseteq LabelsIn(s)

\* Maximal stretches of consecutive segments with one label; cut also before the
\* positions in gaps.
Runs(s, gaps) ==
    LET run(a, b) ==
            /\ a <= b
            /\ \A i \in a .. b : s[i] = s[a]
            /\ \A i \in a + 1 .. b : i \notin gaps
            /\ a = 1 \/ s[a - 1] # s[a] \/ a \in gaps
            /\ b = N \/ s[b + 1] # s[a] \/ b + 1 \in gaps
    IN  {r \in Position \X Position : run(r[1], r[2])}

\* rebuild_speaker_turns: the turns that follow from the segments.
TurnsOf(s) == {[from |-> r[1], to |-> r[2], label |-> s[r[1]]] : r \in Runs(s, {})}

-----------------------------------------------------------------------------
\* The web routes.  Each is one transaction.

\* PUT /speakers: the name is the user's now; the role is written only if it was
\* sent.  The same transaction counts the name in the feed's cache.
PutName(l, n, roleSent, r) ==
    /\ rows' = Put(rows, l,
            [name |-> n, inferred |-> FALSE, confirmed |-> TRUE, review |-> FALSE,
             role |-> IF roleSent THEN r
                      ELSE IF l \in DOMAIN rows THEN rows[l].role ELSE NoRole])
    /\ LET key == <<l, normalizeName(n)>>
       IN  cache' = Put(cache, key, IF key \in DOMAIN cache THEN cache[key] + 1 ELSE 1)
    /\ edited' = edited \cup {l}
    /\ UNCHANGED <<segs, turns, crossed, spoken>>

\* DELETE /speakers: refused while a segment uses the label.
Dismissible(l) == l \in DOMAIN rows /\ l \notin LabelsIn(segs)

DropName(l) ==
    /\ Dismissible(l)
    /\ rows' = Without(rows, {l})
    /\ UNCHANGED <<segs, turns, cache, history>>

\* validateMergeRequest.
ValidMerge(sources, target) == sources # {} /\ target \notin sources

\* POST /speakers/merge: all labels must still be there.
Mergeable(sources, target) ==
    /\ ValidMerge(sources, target)
    /\ sources \cup {target} \subseteq LabelsIn(segs)

\* Mutant: the rows of the merged labels stay.
MergeKeepingRows(sources, target) ==
    /\ Mergeable(sources, target)
    /\ segs' = [i \in Position |-> IF segs[i] \in sources THEN target ELSE segs[i]]
    /\ turns' = TurnsOf(segs')
    /\ crossed' = (crossed \/ stage # "idle")
    /\ UNCHANGED <<rows, cache, edited, spoken>>

MergeLabels(sources, target) ==
    /\ Mergeable(sources, target)
    /\ segs' = [i \in Position |-> IF segs[i] \in sources THEN target ELSE segs[i]]
    /\ rows' = Without(rows, sources)
    /\ turns' = TurnsOf(segs')
    /\ crossed' = (crossed \/ stage # "idle")
    /\ UNCHANGED <<cache, edited, spoken>>

-----------------------------------------------------------------------------
\* Processing the episode again.

\* Mutant: the names are carried over without a flag.
ResetUnflagged(f) == [l \in {k \in DOMAIN f : f[k].confirmed} |-> f[l]]

\* reset_speaker_names_for_new_segments: guesses go, confirmed names are flagged.
Reset(f) ==
    [l \in {k \in DOMAIN f : f[k].confirmed} |-> [f[l] EXCEPT !.review = TRUE]]

Transcribe ==
    /\ stage = "idle"
    /\ rebuilds < MaxRebuilds
    /\ rebuilds' = rebuilds + 1
    /\ rows' = Reset(rows)
    /\ segs' = [i \in Position |-> NoLabel]
    /\ edited' = {}
    /\ crossed' = FALSE
    /\ spoken' = {}
    /\ stage' = "diarize"
    /\ UNCHANGED <<turns, cache, infer>>

\* pyannote decides the labels.
Diarize ==
    /\ stage = "diarize"
    /\ segs' \in Episodes
    /\ rows' = Reset(rows)
    /\ edited' = {}
    /\ crossed' = FALSE
    /\ spoken' = {}
    /\ stage' = "chunk"
    /\ UNCHANGED <<turns, cache, infer, rebuilds>>

\* The failure is not fatal: the segments stay as they are, and with them the names, or,
\* when it came after their reset, what that left of them.
DiarizeFails ==
    /\ stage = "diarize"
    /\ \/ UNCHANGED <<rows, edited>>
       \/ rows' = Reset(rows) /\ edited' = {}
    /\ stage' = "plain"
    /\ UNCHANGED <<segs, turns, cache, infer, rebuilds, crossed, spoken>>

\* Diarization is retried alone, after a death before the next job was there.
DiarizeAgain ==
    /\ stage \in {"chunk", "plain"}
    /\ stage' = "diarize"
    /\ UNCHANGED <<dbVars, infer, rebuilds, history>>

\* chunk_episode rebuilds the turns; inference is skipped without diarization.
Chunk ==
    /\ stage \in {"chunk", "plain"}
    /\ turns' = TurnsOf(segs)
    /\ stage' = IF stage = "chunk" THEN "infer" ELSE "idle"
    /\ UNCHANGED <<segs, rows, cache, infer, rebuilds, history>>

-----------------------------------------------------------------------------
\* Inference.

\* assign_speaker_slots: a label with a run that is not short is real and keeps one
\* slot, numbered by first appearance; every short run of a label without such a
\* run, and every isolated short run, gets a slot of its own after them.  How long
\* runs last is data: which of them are split off is a parameter.
Slots(s, gaps, short) ==
    LET runs == {r \in Runs(s, gaps) : s[r[1]] # NoLabel}
        real == {s[r[1]] : r \in runs \ short}
        first(l) == CHOOSE i \in Position : s[i] = l /\ \A j \in 1 .. i - 1 : s[j] # l
        slotOfLabel(l) == Cardinality({k \in real : first(k) < first(l)})
        slotOfRun(r) == Cardinality(real) + Cardinality({q \in short : q[1] < r[1]})
    IN  [labels |-> [i \in Position |->
                        IF s[i] = NoLabel THEN NoLabel
                        ELSE LET run == CHOOSE r \in runs : i \in r[1] .. r[2]
                             IN  IF run \in short THEN slotOfRun(run)
                                 ELSE slotOfLabel(s[i])],
         real   |-> {slotOfLabel(l) : l \in real},
         others |-> {slotOfRun(r) : r \in short}]

\* What the handler holds.  old and new: the labels it read and will write; real and
\* others: the slots; named: the names classified, by slot; base: the rows it read.
NoInference == [old |-> [i \in Position |-> NoLabel], new |-> [i \in Position |-> NoLabel],
                named |-> << >>, others |-> {}, base |-> << >>]

\* infer_speakers up to write_speaker_names.  The classified names fill the real slots
\* in order; without one they are numbered by position, and those kept whose number is
\* among the labels the segments still have in the database.
InferLoad ==
    /\ stage = "infer"
    /\ \E gaps \in SUBSET Pauses :
       \E short \in SUBSET {r \in Runs(segs, gaps) : segs[r[1]] # NoLabel} :
          LET slots == Slots(segs, gaps, short)
              open == IF slots.real # {} THEN slots.real ELSE Label
          IN  /\ \E host \in {{}, {0} \cap open}, guests \in 0 .. Cardinality(open \ {0}) :
                 \E names \in [host \cup (1 .. guests) -> Guesses] :
                    infer' = [old |-> segs, new |-> slots.labels, others |-> slots.others,
                              named |-> IF slots.real # {} THEN names
                                        ELSE [l \in DOMAIN names \cap LabelsIn(segs) |-> names[l]],
                              base |-> << >>]
              /\ spoken' = IF slots.real = {} THEN LabelsIn(segs) ELSE {}
    /\ stage' = "read"
    /\ UNCHANGED <<dbVars, rebuilds, edited, crossed>>

\* write_speaker_names and _write_other_rows look up the rows they are about to write
\* (the session does not flush between them).
InferRead ==
    /\ stage = "read"
    /\ infer' = [infer EXCEPT !.base = rows]
    /\ stage' = "write"
    /\ UNCHANGED <<dbVars, rebuilds, history>>

\* Mutant: confirmed rows are written like any other.
WritableAll(L) == L

\* Rows the user confirmed are left out; the read rows decide that.
Writable(L) == {l \in L : l \in DOMAIN infer.base => ~infer.base[l].confirmed}
NamedRows == Writable(DOMAIN infer.named)
OtherRows == Writable(infer.others)
Inserted == (NamedRows \cup OtherRows) \ DOMAIN infer.base
Guess(l) == IF l \in OtherRows THEN Blank ELSE infer.named[l]
Updated ==
    {l \in (NamedRows \cup OtherRows) \cap DOMAIN infer.base :
        \/ Guess(l) # infer.base[l].name
        \/ l \in OtherRows /\ infer.base[l].role # "other"}

\* The flush violates a constraint, or misses its row: two pending rows for one label,
\* a row inserted meanwhile, a row deleted meanwhile.
Collides == NamedRows \cap OtherRows \cap Inserted # {}
Overtaken == Inserted \cap DOMAIN rows # {} \/ ~(Updated \subseteq DOMAIN rows)

\* Only the columns that differ from what was read are written.
InferredRow(l) ==
    IF l \in Inserted
    THEN [name |-> Guess(l), inferred |-> TRUE, confirmed |-> FALSE, review |-> FALSE,
          role |-> IF l \in OtherRows THEN "other" ELSE NoRole]
    ELSE [rows[l] EXCEPT
            !.name = IF Guess(l) # infer.base[l].name THEN Guess(l) ELSE @,
            !.inferred = @ \/ ~infer.base[l].inferred,
            !.confirmed = @ /\ ~infer.base[l].confirmed,
            !.role = IF l \in OtherRows /\ infer.base[l].role # "other" THEN "other" ELSE @]

InferCommit ==
    /\ stage = "write"
    /\ ~Collides /\ ~Overtaken
    /\ rows' = [l \in DOMAIN rows \cup Inserted |->
                    IF l \in Inserted \cup Updated THEN InferredRow(l) ELSE rows[l]]
    /\ segs' = [i \in Position |->
                    IF infer.new[i] \notin {NoLabel, infer.old[i]} THEN infer.new[i] ELSE segs[i]]
    /\ infer' = NoInference
    /\ stage' = "idle"
    /\ UNCHANGED <<turns, cache, rebuilds, history>>

\* The failure is soft: everything is rolled back and the episode goes on.
InferFails ==
    /\ stage \in {"read", "write"}
    /\ stage = "write" => Collides \/ Overtaken
    /\ infer' = NoInference
    /\ stage' = "idle"
    /\ spoken' = {}
    /\ UNCHANGED <<dbVars, rebuilds, edited, crossed>>

-----------------------------------------------------------------------------
\* An episode as the pipeline left it, inferred or about to be, or with the confirmed
\* names of an earlier processing only.  One to be inferred again has slots for labels.
Guessed == [name: Guesses, inferred: {TRUE}, confirmed: {FALSE}, role: {NoRole}, review: {FALSE}]
Confirmed == [name: Guesses, inferred: {FALSE}, confirmed: {TRUE}, role: {NoRole}, review: {TRUE}]

Init ==
    /\ segs \in Episodes
    /\ stage \in {"idle"} \cup (IF segs \in Again THEN {"infer"} ELSE {})
    /\ \/ rows = << >>
       \/ rows \in [Carried -> Confirmed]
       \/ (stage = "idle" \/ NoGaps(segs)) /\ rows \in [LabelsIn(segs) -> Guessed]
    /\ turns = TurnsOf(segs)
    /\ cache = [k \in {<<l, rows[l].name>> : l \in {k \in DOMAIN rows : rows[k].confirmed}} |-> 1]
    /\ infer = NoInference
    /\ rebuilds = 0
    /\ edited = {}
    /\ crossed = FALSE
    /\ spoken = {}

Pipeline ==
    \/ Transcribe \/ Diarize \/ DiarizeFails \/ DiarizeAgain \/ Chunk
    \/ InferLoad \/ InferRead \/ InferCommit \/ InferFails
=============================================================================
