----------------------- MODULE ConversationProperties -----------------------
(***************************************************************************)
(* What a conversation keeps while answers stream, fail and are given up.  *)
(***************************************************************************)
EXTENDS Conversations

\* Every token shown under a question was generated for it, in the order it was sent:
\* an answer that was given up never runs into the next one (handleSubmit's abort).
AnswersOwnQuestion ==
    \A i \in DOMAIN view.exchanges :
        LET e == view.exchanges[i]
        IN  \A j \in DOMAIN e.tokens :
                /\ e.tokens[j][1] = e.q
                /\ \A k \in 1 .. j - 1 : e.tokens[k][2] < e.tokens[j][2]

\* An answer shown as finished, or exported, has every token that reached the page,
\* unless it failed or was given up.  What failed is not shown as finished, but for the
\* answers a page that was left shows again and an error whose frame was lost.
FinishedIsWhole ==
    LET whole(e) == due[e.q] \in {Cut, Len(e.tokens)}
    IN  /\ ~Processing /\ view.status # "error" =>
              \A i \in DOMAIN view.exchanges : whole(view.exchanges[i])
        /\ CanExport => \A i \in DOMAIN Exported : whole(Exported[i])
        /\ view.status = Settled /\ view.exchanges # << >> /\ splits = 0 =>
              due[Latest.q] # Cut

\* An error stays on the page until the next question, Clear or leaving: what comes
\* after it in the stream does not replace it by an answer that looks finished.
ErrorKept ==
    [][view.status = "error" /\ page' = page => view'.status = "error" \/ Submit \/ Clear]_vars

\* The input is blocked while the page reads a stream, and only then; an error or done
\* frame unblocks it before the stream is closed.  Two split frames can leave it blocked.
BlockedWhileReading ==
    /\ Processing => stream # Silence \/ splits > 1
    /\ stream # Silence /\ ~Processing => stream.phase \in {"failed", "finished", "hung"}

\* In the history that goes along with a question, an answer follows its own question:
\* what failed without an answer never lends its question to the answer of another.
HistoryPaired ==
    \A i \in 2 .. Len(PriorHistory) :
        PriorHistory[i].role = "assistant" =>
            PriorHistory[i - 1] = [role |-> "user", q |-> PriorHistory[i].q]

\* The model a question would be asked with is one of the list, whatever an earlier
\* version stored or the settings hold (#608).
ModelOffered == page \in {"ask", "episode"} => view.model \in Offered

\* A model that neither the user nor the settings chose is never stored, where it would
\* hide the choice of the settings on every later visit (#637).
StoredIsChosen ==
    [][local' # local => local' = setting \/ \E m \in Offered : PickModel(m)]_vars
=============================================================================
