--------------------------- MODULE Conversations ---------------------------
(***************************************************************************)
(* The three places that put a question to the language model: the Ask     *)
(* page, the chat of an episode, and the bubble of the documentation.      *)
(*                                                                         *)
(* An answer is a stream of frames: sources, tokens, error, done.  The     *)
(* page that asked may meanwhile be cleared, minimised or left.  A frame   *)
(* is sent and handled in one step; what is sent to a reader that was      *)
(* aborted is seen by nobody, and so is what is sent to a page that was    *)
(* left: those streams are dropped from the model.                         *)
(*                                                                         *)
(* The model of a question is the user's choice, remembered in the         *)
(* browser, or the choice of the settings.  The Ask page also remembers    *)
(* what it showed.                                                         *)
(***************************************************************************)
EXTENDS Integers, Sequences, FiniteSets, SequencesExt

CONSTANTS
    Offered,        \* the models of the list
    Retired,        \* models of earlier lists, which may still be stored
    DefaultModel,
    MaxHistory,     \* how many messages go along with a question
    Episodes,       \* whether the episode has a chat at all: {"episode"} or {}
    MaxQuestions, MaxTokens, MaxSplits, MaxVisits, MaxPicks  \* bounds

Pages == {"ask", "docs"} \cup Episodes
None == "none"
Question == 1 .. MaxQuestions

ASSUME ConversationsAssumption ==
    /\ DefaultModel \in Offered /\ Offered \cap Retired = {} /\ None \notin Offered \cup Retired
    /\ Episodes \subseteq {"episode"}
    /\ {MaxHistory, MaxQuestions, MaxTokens, MaxSplits, MaxVisits, MaxPicks} \subseteq Nat

VARIABLES
    page,       \* the page that is open, or None
    view,       \* the state of its component
    stream,     \* the stream that the component reads, or Silence
    local,      \* localStorage: podlog-ask-model
    session,    \* sessionStorage: podlog-ask-page-state
    setting,    \* rag_local_model of the server
    asked, visits, picks,   \* how many questions, visits and choices of a model there were
    splits,     \* how many frames were lost to a split
    due         \* history: how many tokens reached the page for a question, or Cut

vars == <<page, view, stream, local, session, setting, asked, visits, picks, splits, due>>
counts == <<visits, picks>>
history == <<splits, due>>

-----------------------------------------------------------------------------
\* What a page shows.  A question and its answer are added together, and only the last
\* answer grows.  The Ask page holds one of them, a chat all.

Cut == -1      \* the answer failed or was given up
Silence == [phase |-> "none", q |-> 0]
NoView == [status |-> "idle", exchanges |-> << >>, model |-> None, preferred |-> FALSE,
           asking |-> FALSE, open |-> FALSE]
Exchange(q) == [q |-> q, tokens |-> << >>, sources |-> FALSE]

IsChat == page \in {"episode", "docs"}
Processing == view.status \in {"connecting", "streaming"}
Settled == IF page = "ask" THEN "done" ELSE "idle"

\* Mutant: the filter takes the questions instead of the empty answers.
AnswersOnly(e) == IF e.tokens = << >> THEN <<[role |-> "user", q |-> e.q]>>
                  ELSE <<[role |-> "assistant", q |-> e.q]>>

\* The messages of a chat that count as history: those with some content.
Message(role, q) == [role |-> role, q |-> q]
Messages(e) == <<Message("user", e.q)>> \o
               (IF e.tokens = << >> THEN << >> ELSE <<Message("assistant", e.q)>>)
Completed(exchanges) == FlattenSeq([i \in DOMAIN exchanges |-> Messages(exchanges[i])])
LastOf(s, n) == IF Len(s) > n THEN SubSeq(s, Len(s) - n + 1, Len(s)) ELSE s
PriorHistory == IF IsChat THEN LastOf(Completed(view.exchanges), MaxHistory) ELSE << >>

\* pairMessages: the export of a chat has the questions that got an answer.
Pair(e) == IF e.tokens = << >> THEN << >> ELSE <<e>>
Exported == FlattenSeq([i \in DOMAIN view.exchanges |-> Pair(view.exchanges[i])])
CanExport == page = "episode" /\ view.open /\ Exported # << >> /\ ~Processing

-----------------------------------------------------------------------------
\* The model.

IsOffered(m) == m \in Offered
StoredAsIs == IF local = None THEN DefaultModel ELSE local  \* mutant: not checked
StoredModel == IF IsOffered(local) THEN local ELSE DefaultModel

\* Every change of the model but the one of the first render is stored.
SetModel(m) ==
    /\ view' = [view EXCEPT !.model = m, !.asking = FALSE]
    /\ local' = IF m # view.model THEN m ELSE local

\* The settings are read while the page is already in use.
AnswerSettings ==
    /\ view.asking
    /\ IF ~view.preferred /\ (page = "ask" \/ IsOffered(setting))
       THEN SetModel(IF IsOffered(setting) THEN setting ELSE StoredModel)
       ELSE /\ view' = [view EXCEPT !.asking = FALSE]
            /\ UNCHANGED local
    /\ UNCHANGED <<page, stream, setting, asked, counts, history>>

LoseSettings ==
    /\ view.asking
    /\ view' = [view EXCEPT !.asking = FALSE]
    /\ UNCHANGED <<page, stream, local, setting, asked, counts, history>>

\* The select of the chat is disabled while an answer streams, that of the Ask page not.
PickModel(m) ==
    /\ page = "ask" \/ (page = "episode" /\ view.open /\ ~Processing)
    /\ m # view.model
    /\ picks < MaxPicks
    /\ picks' = picks + 1
    /\ view' = [view EXCEPT !.model = m]
    /\ local' = m
    /\ UNCHANGED <<page, stream, setting, asked, visits, history>>

\* The settings change, to any name.
ChangeSetting(m) ==
    /\ m # setting
    /\ picks < MaxPicks
    /\ picks' = picks + 1
    /\ setting' = m
    /\ UNCHANGED <<page, view, stream, local, asked, visits, history>>

-----------------------------------------------------------------------------
\* Visiting and leaving.

\* The effect that saves the Ask page after each render.
Snapshot(v) ==
    [exchanges |-> v.exchanges, model |-> v.model,
     status |-> IF v.status \in {"connecting", "streaming"} THEN "idle" ELSE v.status]
NoSnapshot == [exchanges |-> << >>, model |-> None, status |-> "idle"]

\* Mutant: the default is stored when the chat first renders.
MountStoring(p) ==
    /\ view' = IF p = "ask"
               THEN [NoView EXCEPT !.exchanges = session.exchanges,
                                   !.status = IF session.status \in {"done", "error"}
                                              THEN session.status ELSE "idle",
                                   !.model = IF IsOffered(session.model) THEN session.model
                                             ELSE StoredModel,
                                   !.preferred = IsOffered(local), !.asking = TRUE]
               ELSE [NoView EXCEPT !.model = StoredModel, !.preferred = IsOffered(local),
                                   !.asking = (p = "episode" /\ ~IsOffered(local))]
    /\ local' = StoredModel

\* The state a component starts with.
Mount(p) ==
    /\ view' = IF p = "ask"
               THEN [NoView EXCEPT !.exchanges = session.exchanges,
                                   !.status = IF session.status \in {"done", "error"}
                                              THEN session.status ELSE "idle",
                                   !.model = IF IsOffered(session.model) THEN session.model
                                             ELSE StoredModel,
                                   !.preferred = IsOffered(local), !.asking = TRUE]
               ELSE [NoView EXCEPT !.model = StoredModel, !.preferred = IsOffered(local),
                                   !.asking = (p = "episode" /\ ~IsOffered(local))]
    /\ UNCHANGED local

\* An answer whose done frame did not come yet is given up with its stream.
GiveUp == due' = IF stream.phase \in {"none", "finished"} THEN due ELSE [due EXCEPT ![stream.q] = Cut]

\* A chat aborts what it reads when it is unmounted.
Visit(p) ==
    /\ page # p
    /\ visits < MaxVisits
    /\ visits' = visits + 1
    /\ page' = p
    /\ Mount(p)
    /\ stream' = Silence
    /\ GiveUp
    /\ UNCHANGED <<setting, asked, picks, splits>>

\* The button that opens a chat, and the one that minimises it; what streams goes on.
OpenChat ==
    /\ IsChat /\ ~view.open
    /\ view' = [view EXCEPT !.open = TRUE]
    /\ UNCHANGED <<page, stream, local, setting, asked, counts, history>>

\* Mutant: minimising aborts what streams.
MinimiseAborting ==
    /\ IsChat /\ view.open
    /\ view' = [view EXCEPT !.open = FALSE]
    /\ stream' = Silence
    /\ UNCHANGED <<page, local, setting, asked, counts, history>>

Minimise ==
    /\ IsChat /\ view.open
    /\ view' = [view EXCEPT !.open = FALSE]
    /\ UNCHANGED <<page, stream, local, setting, asked, counts, history>>

-----------------------------------------------------------------------------
\* Asking.

\* handleSubmit up to its first await.  The input is disabled while an answer streams;
\* what else is under way is aborted: its reader throws an AbortError and writes no more.
Submit ==
    /\ page = "ask" \/ (IsChat /\ view.open)
    /\ ~Processing
    /\ asked < MaxQuestions
    /\ LET q == asked + 1
       IN  /\ asked' = q
           /\ view' = [view EXCEPT !.status = "connecting",
                                   !.exchanges = IF IsChat THEN Append(@, Exchange(q))
                                                 ELSE <<Exchange(q)>>]
           /\ stream' = [phase |-> "asked", q |-> q]
    /\ GiveUp
    /\ UNCHANGED <<page, local, setting, counts, splits>>

\* Mutant: what is under way is not aborted.
ClearOnly ==
    /\ page = "ask" /\ view.exchanges # << >>
    /\ view' = [view EXCEPT !.status = "idle", !.exchanges = << >>]
    /\ UNCHANGED <<page, stream, local, setting, asked, counts, history>>

\* handleClear of the Ask page, offered while the input holds a question, which it does
\* while an answer streams.
Clear ==
    /\ page = "ask" /\ view.exchanges # << >>
    /\ view' = [view EXCEPT !.status = "idle", !.exchanges = << >>]
    /\ stream' = Silence
    /\ GiveUp
    /\ UNCHANGED <<page, local, setting, asked, counts, splits>>

-----------------------------------------------------------------------------
\* The stream.  The pipeline sends sources and tokens, or an error, and then done.

\* Mutant: done settles every answer.
AfterDone(status) == Settled

\* An error is not settled by the done that follows it.
OnDone(status) == IF status = "error" THEN "error" ELSE Settled

\* Mutant: a stream that broke ends like one that was closed.
OnDropQuietly(status) == IF status = "streaming" THEN Settled ELSE status

\* The catch of handleSubmit.
OnDrop(status) == "error"

\* Sources and tokens belong to the answer that is last on the page.
Latest == IF view.exchanges = << >> THEN Exchange(0) ELSE view.exchanges[Len(view.exchanges)]
Grown(e) ==
    [view EXCEPT !.status = "streaming",
                 !.exchanges = SubSeq(@, 1, Len(@) - 1) \o <<e>>]

\* A frame reaches the page whole.  One that is split after its event line is lost: the
\* event's name does not outlive the chunk it came in.
Frame(phase, handled) ==
    /\ stream' = [stream EXCEPT !.phase = phase]
    /\ UNCHANGED <<page, local, setting, asked, counts>>
    /\ \/ view' = handled /\ UNCHANGED splits
       \/ /\ splits < MaxSplits
          /\ splits' = splits + 1
          /\ UNCHANGED view

\* The web server answers with a stream.
Connect ==
    /\ stream.phase = "asked"
    /\ stream' = [stream EXCEPT !.phase = "open"]
    /\ UNCHANGED <<page, view, local, setting, asked, counts, history>>

SendSources ==
    /\ stream.phase = "open"
    /\ Frame("tokens", Grown([Latest EXCEPT !.sources = TRUE]))
    /\ UNCHANGED due

SendToken ==
    /\ stream.phase = "tokens" /\ due[stream.q] < MaxTokens
    /\ LET n == due[stream.q] + 1
       IN  /\ Frame("tokens", Grown([Latest EXCEPT !.tokens = Append(@, <<stream.q, n>>)]))
           /\ due' = IF splits' = splits THEN [due EXCEPT ![stream.q] = n] ELSE due

\* No model, no excerpts or sections, or an exception while the answer is generated.
SendError ==
    /\ stream.phase \in {"open", "tokens"}
    /\ Frame("failed", [view EXCEPT !.status = "error"])
    /\ GiveUp

SendDone ==
    /\ stream.phase \in {"tokens", "failed"}
    /\ Frame("finished", [view EXCEPT !.status = OnDone(@)])
    /\ UNCHANGED due

\* The end of the loop.
Close ==
    /\ stream.phase = "finished"
    /\ stream' = Silence
    /\ view' = [view EXCEPT !.status = IF @ = "streaming" THEN Settled ELSE @]
    /\ UNCHANGED <<page, local, setting, asked, counts, history>>

\* An error answer, or a connection that broke; the documentation's route passes on
\* that the pipeline broke.
Drop ==
    /\ stream # Silence
    /\ stream' = Silence
    /\ view' = [view EXCEPT !.status = OnDrop(@)]
    /\ GiveUp
    /\ UNCHANGED <<page, local, setting, asked, counts, splits>>

\* The route of the other two swallows it, and leaves the stream to the page open.
Hang ==
    /\ stream.phase \in {"open", "tokens", "failed"} /\ page # "docs"
    /\ stream' = [stream EXCEPT !.phase = "hung"]
    /\ GiveUp
    /\ UNCHANGED <<page, view, local, setting, asked, counts, splits>>

-----------------------------------------------------------------------------
Init ==
    /\ page = None
    /\ view = NoView
    /\ stream = Silence
    /\ local \in Offered \cup Retired \cup {None}
    /\ session = NoSnapshot
    /\ setting \in Offered \cup Retired
    /\ asked = 0 /\ visits = 0 /\ picks = 0 /\ splits = 0
    /\ due = [q \in Question |-> 0]

User ==
    \/ \E p \in Pages : Visit(p)
    \/ OpenChat \/ Minimise \/ Submit \/ Clear
    \/ \E m \in Offered : PickModel(m)

Network ==
    \/ AnswerSettings \/ LoseSettings
    \/ \E m \in Offered \cup Retired : ChangeSetting(m)
    \/ Connect \/ SendSources \/ SendToken \/ SendError \/ SendDone \/ Close \/ Drop \/ Hang

Next ==
    /\ User \/ Network
    /\ session' = IF page' = "ask" THEN Snapshot(view') ELSE session

Spec == Init /\ [][Next]_vars
=============================================================================
