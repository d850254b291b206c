------------------------- MODULE ConversationProofs -------------------------
(***************************************************************************)
(* What conversations keep, for every list of models, every number of      *)
(* questions, tokens, visits and lost frames.  Four invariants, each on    *)
(* top of the types:                                                       *)
(*   Steady     what a phase of the stream says about the status,          *)
(*   Remembered which models the page and the session may hold,            *)
(*   Paired     whose tokens an exchange holds, and how many,              *)
(*   Uncut      which answers may be shown as finished.                    *)
(* The history and the export are put together with a recursive function;  *)
(* that it stays in a set closed under concatenation is proved by          *)
(* induction, from the least element of a set of numbers.                  *)
(***************************************************************************)
EXTENDS ConversationProperties, SequenceTheorems, NaturalsInduction, WellFoundedInduction, TLAPS

Phase == {"none", "asked", "open", "tokens", "failed", "finished", "hung"}
Status == {"idle", "connecting", "streaming", "done", "error"}
ExchangeType == [q : Question, tokens : Seq(Question \X Nat), sources : BOOLEAN]

ViewType == view \in [status : Status, exchanges : Seq(ExchangeType),
                      model : Offered \cup {None}, preferred : BOOLEAN, asking : BOOLEAN,
                      open : BOOLEAN]
StreamType == stream \in [phase : Phase, q : Question \cup {0}]
SessionType == session \in [exchanges : Seq(ExchangeType), model : Offered \cup {None},
                            status : {"idle", "done", "error"}]
ModelType == /\ page \in Pages \cup {None}
             /\ local \in Offered \cup Retired \cup {None}
             /\ setting \in Offered \cup Retired
CountType == asked \in Nat /\ splits \in Nat /\ due \in [Question -> Nat \cup {Cut}]

\* What streams is the answer to the last question of the page.
LastQuestion == view.exchanges[Len(view.exchanges)].q
Reading ==
    /\ stream # Silence => stream.phase # "none" /\ stream.q \in Question
                           /\ view.exchanges # << >> /\ LastQuestion = stream.q
    /\ page = None => view = NoView /\ stream = Silence

TypeInv == ViewType /\ StreamType /\ SessionType /\ ModelType /\ CountType /\ Reading

USE ConversationsAssumption DEF Pages, Question, Phase, Status, None, Cut

-----------------------------------------------------------------------------
(* Sequences.                                                              *)

\* Replacing the last element.
LEMMA ReplaceLast ==
    ASSUME NEW S, NEW s \in Seq(S), s # << >>, NEW e \in S, NEW t,
           t = SubSeq(s, 1, Len(s) - 1) \o <<e>>
    PROVE  /\ t \in Seq(S) /\ Len(t) = Len(s) /\ t[Len(s)] = e
           /\ \A i \in 1 .. Len(s) - 1 : t[i] = s[i]
<1> DEFINE n == Len(s)
           u == SubSeq(s, 1, n - 1)
<1>1. n \in Nat \ {0}
  BY EmptySeq
<1>2. \A i \in 1 .. n - 1 : s[i] \in S
  BY <1>1, ElementOfSeq
<1>3. u \in Seq(S) /\ Len(u) = n - 1 /\ \A i \in 1 .. n - 1 : u[i] = s[i]
  <2>1. 1 \in Int /\ n - 1 \in Int
    BY <1>1
  <2>2. /\ u \in Seq(S)
        /\ Len(u) = IF 1 <= n - 1 THEN (n - 1) - 1 + 1 ELSE 0
        /\ \A i \in 1 .. (n - 1) - 1 + 1 : u[i] = s[1 + i - 1]
    BY <1>2, <2>1, SubSeqProperties
  <2>3. QED
    BY <1>1, <2>2
<1>4. <<e>> \in Seq(S) /\ Len(<<e>>) = 1 /\ <<e>>[1] = e
  OBVIOUS
<1> HIDE DEF u
<1>5. /\ t \in Seq(S)
      /\ Len(t) = Len(u) + 1
      /\ \A i \in 1 .. Len(u) + 1 : t[i] = IF i <= Len(u) THEN u[i] ELSE <<e>>[i - Len(u)]
  <2>1. t = u \o <<e>>
    BY DEF u
  <2>2. QED
    BY <1>3, <1>4, <2>1, ConcatProperties
<1>6. QED
  BY <1>1, <1>3, <1>4, <1>5

-----------------------------------------------------------------------------
(* Types.                                                                  *)

\* What is stored, or the default in its place, is of the list.
LEMMA OfferedDefault == StoredModel \in Offered
BY DEF StoredModel, IsOffered

\* A new exchange has the type of an exchange.
LEMMA FreshExchange == ASSUME NEW q \in Question PROVE Exchange(q) \in ExchangeType
BY EmptySeq DEF Exchange, ExchangeType

\* The page a component opens with.
LEMMA MountTyped == ASSUME TypeInv, NEW p \in Pages, Mount(p) PROVE ViewType' /\ local' = local
<1>1. local' = local
  BY DEF Mount
<1>2. StoredModel \in Offered \cup {None} /\ << >> \in Seq(ExchangeType)
  BY OfferedDefault
<1>3. CASE p = "ask"
  <2>1. PICK m \in Offered \cup {None}, st \in Status :
            view' = [NoView EXCEPT !.exchanges = session.exchanges, !.status = st, !.model = m,
                                   !.preferred = IsOffered(local), !.asking = TRUE]
    BY <1>2, <1>3 DEF Mount, TypeInv, SessionType, IsOffered
  <2>2. session.exchanges \in Seq(ExchangeType) /\ IsOffered(local) \in BOOLEAN
    BY DEF TypeInv, SessionType, IsOffered
  <2>3. QED
    BY <1>1, <2>1, <2>2 DEF ViewType, NoView
<1>4. CASE p # "ask"
  <2>1. view' = [NoView EXCEPT !.model = StoredModel, !.preferred = IsOffered(local),
                               !.asking = (p = "episode" /\ ~IsOffered(local))]
    BY <1>4 DEF Mount
  <2>2. IsOffered(local) \in BOOLEAN
    BY DEF IsOffered
  <2>3. QED
    BY <1>1, <1>2, <2>1, <2>2 DEF ViewType, NoView
<1>5. QED
  BY <1>3, <1>4

\* While something streams there is a last exchange, and it is of that question.
LEMMA LatestIsLast ==
    ASSUME TypeInv, stream # Silence
    PROVE  /\ Latest = view.exchanges[Len(view.exchanges)]
           /\ Latest \in ExchangeType /\ Latest.q = stream.q
           /\ view.exchanges \in Seq(ExchangeType) /\ view.exchanges # << >>
<1>1. view.exchanges \in Seq(ExchangeType) /\ view.exchanges # << >>
  BY DEF TypeInv, ViewType, Reading
<1>2. Latest = view.exchanges[Len(view.exchanges)]
  BY <1>1 DEF Latest
<1>3. Len(view.exchanges) \in 1 .. Len(view.exchanges)
  BY <1>1, EmptySeq
<1>4. QED
  BY <1>1, <1>2, <1>3, ElementOfSeq DEF TypeInv, Reading, LastQuestion

\* The last answer grows, and nothing else changes.
LEMMA GrownLast ==
    ASSUME TypeInv, stream # Silence, NEW e \in ExchangeType, e.q = stream.q, view' = Grown(e)
    PROVE  /\ ViewType'
           /\ view'.status = "streaming" /\ view'.model = view.model
           /\ Len(view'.exchanges) = Len(view.exchanges) /\ view'.exchanges # << >>
           /\ view'.exchanges[Len(view'.exchanges)] = e
           /\ \A i \in 1 .. Len(view.exchanges) - 1 : view'.exchanges[i] = view.exchanges[i]
<1> DEFINE s == view.exchanges
<1>t. PICK t : t = SubSeq(s, 1, Len(s) - 1) \o <<e>>
  OBVIOUS
<1>1. s \in Seq(ExchangeType) /\ s # << >>
  BY LatestIsLast
<1>2. /\ t \in Seq(ExchangeType) /\ Len(t) = Len(s) /\ t[Len(s)] = e
      /\ \A i \in 1 .. Len(s) - 1 : t[i] = s[i]
  <2> HIDE DEF s
  <2>1. QED
    BY <1>t, <1>1, ReplaceLast
<1>3. view' = [view EXCEPT !.status = "streaming", !.exchanges = t]
  BY <1>t DEF Grown
<1>4. t # << >>
  BY <1>1, <1>2, EmptySeq
<1>5. view'.status = "streaming" /\ view'.exchanges = t /\ view'.model = view.model /\ ViewType'
  BY <1>2, <1>3 DEF TypeInv, ViewType
<1>6. QED
  BY <1>2, <1>4, <1>5

\* A question is put at the end of a chat, or alone on the Ask page.
LEMMA SubmitShape ==
    ASSUME TypeInv, Submit
    PROVE  /\ asked + 1 \in Question /\ asked' = asked + 1
           /\ stream' = [phase |-> "asked", q |-> asked + 1]
           /\ ViewType' /\ view'.status = "connecting" /\ view'.model = view.model
           /\ view'.exchanges # << >>
           /\ view'.exchanges[Len(view'.exchanges)] = Exchange(asked + 1)
           /\ \A i \in 1 .. Len(view'.exchanges) :
                 \/ view'.exchanges[i] = Exchange(asked + 1)
                 \/ \E j \in 1 .. Len(view.exchanges) : view'.exchanges[i] = view.exchanges[j]
<1> DEFINE q == asked + 1
<1>1. q \in Question /\ asked' = q /\ stream' = [phase |-> "asked", q |-> q]
  BY DEF Submit, TypeInv, CountType
<1>2. Exchange(q) \in ExchangeType
  BY <1>1, FreshExchange
<1>3. view.exchanges \in Seq(ExchangeType)
  BY DEF TypeInv, ViewType
<1>4. PICK t : /\ t = IF IsChat THEN Append(view.exchanges, Exchange(q)) ELSE <<Exchange(q)>>
               /\ view' = [view EXCEPT !.status = "connecting", !.exchanges = t]
  BY DEF Submit
<1>5. /\ t \in Seq(ExchangeType) /\ t # << >> /\ t[Len(t)] = Exchange(q)
      /\ \A i \in 1 .. Len(t) :
            t[i] = Exchange(q) \/ \E j \in 1 .. Len(view.exchanges) : t[i] = view.exchanges[j]
  <2>1. CASE IsChat
    BY <1>2, <1>3, <1>4, <2>1, AppendProperties
  <2>2. CASE ~IsChat
    <3>1. t = <<Exchange(q)>>
      BY <1>4, <2>2
    <3>2. QED
      BY <1>2, <3>1
  <2>3. QED
    BY <2>1, <2>2
<1>6. ViewType' /\ view'.status = "connecting" /\ view'.exchanges = t /\ view'.model = view.model
  BY <1>4, <1>5 DEF TypeInv, ViewType
<1>7. QED
  BY <1>1, <1>5, <1>6

\* Giving up marks the answer of the stream.
LEMMA GiveUpTyped == ASSUME TypeInv, GiveUp PROVE due' \in [Question -> Nat \cup {Cut}]
<1>1. stream.phase \notin {"none", "finished"} => stream.q \in Question
  BY DEF TypeInv, Reading, Silence
<1>2. QED
  BY <1>1 DEF GiveUp, TypeInv, CountType

\* A frame moves the stream on; the page handles it or loses it.
LEMMA FrameTyped ==
    ASSUME TypeInv, stream # Silence, NEW phase \in Phase \ {"none"}, NEW handled,
           Frame(phase, handled),
           view' = handled => ViewType' /\ view'.exchanges # << >> /\ LastQuestion' = stream.q,
           due' \in [Question -> Nat \cup {Cut}]
    PROVE  ViewType' /\ StreamType' /\ ModelType' /\ CountType' /\ Reading'
<1>1. stream' = [stream EXCEPT !.phase = phase] /\ page' = page /\ local' = local
      /\ setting' = setting /\ asked' = asked
  BY DEF Frame
<1>2. /\ ViewType' /\ view'.exchanges # << >> /\ LastQuestion' = stream.q
      /\ splits' \in Nat
  <2>1. CASE view' = handled /\ splits' = splits
    BY <2>1 DEF TypeInv, CountType
  <2>2. CASE view' = view /\ splits' = splits + 1
    BY <2>2 DEF TypeInv, ViewType, CountType, Reading, LastQuestion
  <2>3. QED
    BY <2>1, <2>2 DEF Frame
<1>3. StreamType' /\ stream'.q = stream.q /\ stream'.phase = phase
  BY <1>1 DEF TypeInv, StreamType
<1>4. page # None /\ stream.q \in Question
  BY DEF TypeInv, Reading
<1>5. Reading'
  BY <1>1, <1>2, <1>3, <1>4 DEF Reading
<1>6. QED
  BY <1>1, <1>2, <1>3, <1>5 DEF TypeInv, ModelType, CountType

\* Silence has the type of a stream.
LEMMA SilenceTyped == Silence \in [phase : Phase, q : Question \cup {0}]
BY DEF Silence

\* Without a page there is nothing shown and nothing read.
LEMMA NoFrame == ASSUME TypeInv, page = None PROVE view = NoView /\ stream = Silence
BY DEF TypeInv, Reading

\* The types hold at the start.
LEMMA TypeInit == Init => TypeInv
BY SilenceTyped, EmptySeq
DEF Init, TypeInv, ViewType, StreamType, SessionType, ModelType, CountType, Reading, NoView,
    NoSnapshot

\* What every step but the session's effect preserves.
Kept == ViewType /\ StreamType /\ ModelType /\ CountType /\ Reading

\* Steps that leave the exchanges and the stream alone.
LEMMA LocalStep ==
    ASSUME TypeInv, ViewType', view'.exchanges = view.exchanges,
           UNCHANGED <<page, stream, asked, splits, due>>,
           local' \in Offered \cup Retired \cup {None}, setting' \in Offered \cup Retired,
           page # None
    PROVE  Kept'
BY DEF TypeInv, Kept, ViewType, StreamType, ModelType, CountType, Reading, LastQuestion

\* Every step of the user keeps the types.
LEMMA UserKept == ASSUME TypeInv, User PROVE Kept'
<1>1. ASSUME NEW p \in Pages, Visit(p) PROVE Kept'
  <2>1. ViewType' /\ local' = local
    BY <1>1, MountTyped DEF Visit
  <2>2. due' \in [Question -> Nat \cup {Cut}]
    BY <1>1, GiveUpTyped DEF Visit
  <2>3. page' = p /\ p # None /\ stream' = Silence /\ UNCHANGED <<setting, asked, splits>>
    BY <1>1 DEF Visit
  <2>4. QED
    BY <2>1, <2>2, <2>3, SilenceTyped
    DEF Kept, TypeInv, ViewType, StreamType, ModelType, CountType, Reading
<1>2. CASE OpenChat
  <2>1. ViewType' /\ view'.exchanges = view.exchanges
    BY <1>2 DEF OpenChat, TypeInv, ViewType
  <2>2. UNCHANGED <<page, stream, asked, splits, due>> /\ UNCHANGED <<local, setting>> /\ page # None
    BY <1>2 DEF OpenChat, IsChat, counts, history
  <2>3. QED
    BY <2>1, <2>2, LocalStep DEF TypeInv, ModelType
<1>3. CASE Minimise
  <2>1. ViewType' /\ view'.exchanges = view.exchanges
    BY <1>3 DEF Minimise, TypeInv, ViewType
  <2>2. UNCHANGED <<page, stream, asked, splits, due>> /\ UNCHANGED <<local, setting>> /\ page # None
    BY <1>3 DEF Minimise, IsChat, counts, history
  <2>3. QED
    BY <2>1, <2>2, LocalStep DEF TypeInv, ModelType
<1>4. CASE Submit
  <2>1. due' \in [Question -> Nat \cup {Cut}]
    BY <1>4, GiveUpTyped DEF Submit
  <2>2. UNCHANGED <<page, local, setting, splits>> /\ page # None
    BY <1>4 DEF Submit, IsChat
  <2>3. asked' \in Nat /\ Exchange(asked + 1).q = asked + 1
    BY <1>4, SubmitShape DEF TypeInv, CountType, Exchange
  <2>4. StreamType' /\ stream'.phase = "asked" /\ stream'.q = asked + 1 /\ asked + 1 \in Question
    BY <1>4, SubmitShape DEF StreamType
  <2>5. Reading'
    BY <1>4, <2>2, <2>3, <2>4, SubmitShape DEF Reading, LastQuestion
  <2>6. QED
    BY <1>4, <2>1, <2>2, <2>3, <2>4, <2>5, SubmitShape DEF Kept, TypeInv, ModelType, CountType
<1>5. CASE Clear
  <2>1. due' \in [Question -> Nat \cup {Cut}]
    BY <1>5, GiveUpTyped DEF Clear
  <2>2. ViewType'
    BY <1>5, EmptySeq DEF Clear, TypeInv, ViewType
  <2>3. UNCHANGED <<page, local, setting, asked, splits>> /\ page # None /\ stream' = Silence
    BY <1>5 DEF Clear
  <2>4. QED
    BY <2>1, <2>2, <2>3, SilenceTyped DEF Kept, TypeInv, StreamType, ModelType, CountType, Reading
<1>6. ASSUME NEW m \in Offered, PickModel(m) PROVE Kept'
  <2>1. ViewType' /\ view'.exchanges = view.exchanges
    BY <1>6 DEF PickModel, TypeInv, ViewType
  <2>2. UNCHANGED <<page, stream, asked, splits, due>> /\ local' = m /\ setting' = setting
        /\ page # None
    BY <1>6 DEF PickModel, history
  <2>3. QED
    BY <2>1, <2>2, LocalStep DEF TypeInv, ModelType
<1>7. QED
  BY <1>1, <1>2, <1>3, <1>4, <1>5, <1>6 DEF User

\* Every step of the network keeps the types.
LEMMA NetworkKept == ASSUME TypeInv, Network PROVE Kept'
<1>1. CASE AnswerSettings
  <2>1. page # None
    BY <1>1, NoFrame DEF AnswerSettings, NoView
  <2>2. ASSUME NEW m \in Offered, SetModel(m) PROVE
            ViewType' /\ view'.exchanges = view.exchanges
            /\ local' \in Offered \cup Retired \cup {None}
    BY <2>2 DEF SetModel, TypeInv, ViewType, ModelType
  <2>3. \/ UNCHANGED local /\ view' = [view EXCEPT !.asking = FALSE]
        \/ \E m \in Offered : SetModel(m)
    BY <1>1, OfferedDefault DEF AnswerSettings, IsOffered
  <2>4. ViewType' /\ view'.exchanges = view.exchanges
        /\ local' \in Offered \cup Retired \cup {None}
    BY <2>2, <2>3 DEF TypeInv, ViewType, ModelType
  <2>5. UNCHANGED <<page, stream, asked, splits, due>> /\ setting' = setting
    BY <1>1 DEF AnswerSettings, history
  <2>6. QED
    BY <2>1, <2>4, <2>5, LocalStep DEF TypeInv, ModelType
<1>2. CASE LoseSettings
  <2>1. ViewType' /\ view'.exchanges = view.exchanges
    BY <1>2 DEF LoseSettings, TypeInv, ViewType
  <2>2. UNCHANGED <<page, stream, asked, splits, due>> /\ UNCHANGED <<local, setting>>
    BY <1>2 DEF LoseSettings, counts, history
  <2>3. page # None
    BY <1>2, NoFrame DEF LoseSettings, NoView
  <2>4. QED
    BY <2>1, <2>2, <2>3, LocalStep DEF TypeInv, ModelType
<1>3. ASSUME NEW m \in Offered \cup Retired, ChangeSetting(m) PROVE Kept'
  <2>1. UNCHANGED <<page, view, stream, local, asked, splits, due>> /\ setting' = m
    BY <1>3 DEF ChangeSetting, history
  <2>2. ViewType' /\ StreamType' /\ CountType' /\ Reading'
    BY <2>1 DEF TypeInv, ViewType, StreamType, CountType, Reading, LastQuestion
  <2>3. QED
    BY <2>1, <2>2 DEF Kept, TypeInv, ModelType
<1>4. CASE Connect
  <2>1. stream # Silence /\ page # None
    BY <1>4, NoFrame DEF Connect, Silence
  <2>2. StreamType' /\ stream'.q = stream.q /\ stream'.phase = "open"
    BY <1>4 DEF Connect, TypeInv, StreamType
  <2>3. UNCHANGED <<page, view, local, setting, asked, splits, due>>
    BY <1>4 DEF Connect, history
  <2>4. ViewType' /\ ModelType' /\ CountType'
    BY <2>3 DEF TypeInv, ViewType, ModelType, CountType
  <2>5. Reading'
    BY <2>1, <2>2, <2>3 DEF TypeInv, Reading, LastQuestion
  <2>6. QED
    BY <2>2, <2>4, <2>5 DEF Kept
<1>5. CASE SendSources
  <2>1. stream # Silence
    BY <1>5 DEF SendSources, Silence
  <2>2. PICK e : e = [Latest EXCEPT !.sources = TRUE]
    OBVIOUS
  <2>3. e \in ExchangeType /\ e.q = stream.q
    BY <2>1, <2>2, LatestIsLast DEF ExchangeType
  <2>4. Frame("tokens", Grown(e)) /\ due' = due
    BY <1>5, <2>2 DEF SendSources
  <2>5. view' = Grown(e) => ViewType' /\ view'.exchanges # << >> /\ LastQuestion' = stream.q
    BY <2>1, <2>3, GrownLast DEF LastQuestion
  <2>6. due' \in [Question -> Nat \cup {Cut}]
    BY <2>4 DEF TypeInv, CountType
  <2>7. QED
    BY <2>1, <2>4, <2>5, <2>6, FrameTyped DEF Kept
<1>6. CASE SendToken
  <2>1. stream # Silence /\ stream.q \in Question
    BY <1>6 DEF SendToken, Silence, TypeInv, Reading
  <2>2. PICK n : n = due[stream.q] + 1
    OBVIOUS
  <2>3. n \in Nat
    BY <2>1, <2>2 DEF TypeInv, CountType
  <2>4. PICK e : e = [Latest EXCEPT !.tokens = Append(@, <<stream.q, n>>)]
    OBVIOUS
  <2>5. e \in ExchangeType /\ e.q = stream.q
    BY <2>1, <2>3, <2>4, LatestIsLast, AppendProperties DEF ExchangeType
  <2>6. Frame("tokens", Grown(e))
        /\ due' = IF splits' = splits THEN [due EXCEPT ![stream.q] = n] ELSE due
    BY <1>6, <2>2, <2>4 DEF SendToken
  <2>7. view' = Grown(e) => ViewType' /\ view'.exchanges # << >> /\ LastQuestion' = stream.q
    BY <2>1, <2>5, GrownLast DEF LastQuestion
  <2>8. due' \in [Question -> Nat \cup {Cut}]
    BY <2>3, <2>6 DEF TypeInv, CountType
  <2>9. QED
    BY <2>1, <2>6, <2>7, <2>8, FrameTyped DEF Kept
<1>7. CASE SendError
  <2>1. stream # Silence
    BY <1>7 DEF SendError, Silence
  <2>2. PICK v : v = [view EXCEPT !.status = "error"]
    OBVIOUS
  <2>3. Frame("failed", v)
    BY <1>7, <2>2 DEF SendError
  <2>4. view' = v => ViewType' /\ view'.exchanges # << >> /\ LastQuestion' = stream.q
    BY <2>1, <2>2 DEF TypeInv, ViewType, Reading, LastQuestion
  <2>5. due' \in [Question -> Nat \cup {Cut}]
    BY <1>7, GiveUpTyped DEF SendError
  <2>6. QED
    BY <2>1, <2>3, <2>4, <2>5, FrameTyped DEF Kept
<1>8. CASE SendDone
  <2>1. stream # Silence
    BY <1>8 DEF SendDone, Silence
  <2>2. PICK v : v = [view EXCEPT !.status = OnDone(@)]
    OBVIOUS
  <2>3. Frame("finished", v) /\ due' = due
    BY <1>8, <2>2 DEF SendDone
  <2>4. view' = v => ViewType' /\ view'.exchanges # << >> /\ LastQuestion' = stream.q
    BY <2>1, <2>2 DEF TypeInv, ViewType, Reading, LastQuestion, OnDone, Settled
  <2>5. due' \in [Question -> Nat \cup {Cut}]
    BY <2>3 DEF TypeInv, CountType
  <2>6. QED
    BY <2>1, <2>3, <2>4, <2>5, FrameTyped DEF Kept
<1>9. CASE Close
  <2>1. ViewType'
    BY <1>9 DEF Close, TypeInv, ViewType, Settled
  <2>2. stream' = Silence /\ UNCHANGED <<page, local, setting, asked, splits, due>>
    BY <1>9 DEF Close, history
  <2>3. page # None
    BY <1>9, NoFrame DEF Close, Silence
  <2>4. QED
    BY <2>1, <2>2, <2>3, SilenceTyped DEF Kept, TypeInv, StreamType, ModelType, CountType, Reading
<1>10. CASE Drop
  <2>1. ViewType'
    BY <1>10 DEF Drop, TypeInv, ViewType, OnDrop
  <2>2. due' \in [Question -> Nat \cup {Cut}]
    BY <1>10, GiveUpTyped DEF Drop
  <2>3. page # None /\ stream' = Silence /\ UNCHANGED <<page, local, setting, asked, splits>>
    BY <1>10, NoFrame DEF Drop
  <2>4. QED
    BY <2>1, <2>2, <2>3, SilenceTyped
    DEF Kept, TypeInv, StreamType, ModelType, CountType, Reading
<1>11. CASE Hang
  <2>1. due' \in [Question -> Nat \cup {Cut}]
    BY <1>11, GiveUpTyped DEF Hang
  <2>2. stream # Silence /\ page # None
    BY <1>11, NoFrame DEF Hang, Silence
  <2>3. StreamType' /\ stream'.q = stream.q /\ stream'.phase = "hung"
    BY <1>11 DEF Hang, TypeInv, StreamType
  <2>4. QED
    BY <1>11, <2>1, <2>2, <2>3
    DEF Hang, Kept, TypeInv, ViewType, ModelType, CountType, Reading, LastQuestion
<1>12. QED
  BY <1>1, <1>2, <1>3, <1>4, <1>5, <1>6, <1>7, <1>8, <1>9, <1>10, <1>11 DEF Network

\* Every step keeps the types.
LEMMA TypeStep == ASSUME TypeInv, [Next]_vars PROVE TypeInv'
<1>1. CASE Next
  <2>1. Kept'
    BY <1>1, UserKept, NetworkKept DEF Next
  <2>2. SessionType'
    BY <1>1, <2>1 DEF Next, Kept, TypeInv, ViewType, SessionType, Snapshot
  <2>3. QED
    BY <2>1, <2>2 DEF Kept, TypeInv
<1>2. CASE UNCHANGED vars
  BY <1>2 DEF vars, TypeInv, ViewType, StreamType, SessionType, ModelType, CountType, Reading,
              LastQuestion
<1>3. QED
  BY <1>1, <1>2

\* The types are invariant, for every list of models and every bound: what streams is
\* always the answer to the last question on the page.
THEOREM TypesKept == Spec => []TypeInv
<1>1. QED
  BY TypeInit, TypeStep, PTL DEF Spec

-----------------------------------------------------------------------------
(* The shape of the steps.                                                 *)

\* The user's and the settings' steps that leave the conversation alone.
Aside ==
    \/ OpenChat \/ Minimise \/ AnswerSettings \/ LoseSettings
    \/ \E m \in Offered : PickModel(m)
    \/ \E m \in Offered \cup Retired : ChangeSetting(m)

\* They change neither the status nor the exchanges nor the stream.
LEMMA AsideShape ==
    ASSUME TypeInv, Aside
    PROVE  /\ view'.status = view.status /\ view'.exchanges = view.exchanges
           /\ UNCHANGED <<page, stream, asked, splits, due>>
<1>1. CASE OpenChat
  BY <1>1 DEF OpenChat, TypeInv, ViewType, counts, history
<1>2. CASE Minimise
  BY <1>2 DEF Minimise, TypeInv, ViewType, counts, history
<1>3. CASE AnswerSettings
  <2>1. UNCHANGED <<page, stream, asked, splits, due>>
    BY <1>3 DEF AnswerSettings, history
  <2>2. \/ view' = [view EXCEPT !.asking = FALSE]
        \/ \E m : view' = [view EXCEPT !.model = m, !.asking = FALSE]
    BY <1>3 DEF AnswerSettings, SetModel
  <2>3. QED
    BY <2>1, <2>2 DEF TypeInv, ViewType
<1>4. CASE LoseSettings
  BY <1>4 DEF LoseSettings, TypeInv, ViewType, counts, history
<1>5. CASE \E m \in Offered : PickModel(m)
  BY <1>5 DEF PickModel, TypeInv, ViewType, history
<1>6. CASE \E m \in Offered \cup Retired : ChangeSetting(m)
  BY <1>6 DEF ChangeSetting, history
<1>7. QED
  BY <1>1, <1>2, <1>3, <1>4, <1>5, <1>6 DEF Aside

\* A frame moves the stream on, and is handled or lost.
LEMMA FrameShape ==
    ASSUME TypeInv, stream # Silence, NEW phase, NEW handled, Frame(phase, handled)
    PROVE  /\ stream' = [phase |-> phase, q |-> stream.q] /\ UNCHANGED <<page, asked>>
           /\ \/ view' = handled /\ splits' = splits
              \/ view' = view /\ splits' = splits + 1
BY DEF Frame, TypeInv, StreamType

\* What the page shows of the answer after a frame with sources or a token.
Growth(e) ==
    /\ view'.status = "streaming"
    /\ Len(view'.exchanges) = Len(view.exchanges)
    /\ view'.exchanges[Len(view.exchanges)] = e
    /\ \A i \in 1 .. Len(view.exchanges) - 1 : view'.exchanges[i] = view.exchanges[i]

\* The sources reach the answer that is last on the page, or are lost.
LEMMA SourcesShape ==
    ASSUME TypeInv, SendSources
    PROVE  /\ stream # Silence /\ stream.phase = "open"
           /\ stream' = [phase |-> "tokens", q |-> stream.q] /\ UNCHANGED <<page, asked, due>>
           /\ \/ splits' = splits /\ Growth([Latest EXCEPT !.sources = TRUE])
              \/ view' = view /\ splits' = splits + 1
<1>1. stream # Silence /\ stream.phase = "open" /\ due' = due
  BY DEF SendSources, Silence
<1>2. PICK e : e = [Latest EXCEPT !.sources = TRUE]
  OBVIOUS
<1>3. e \in ExchangeType /\ e.q = stream.q
  BY <1>1, <1>2, LatestIsLast DEF ExchangeType
<1>4. Frame("tokens", Grown(e))
  BY <1>2 DEF SendSources
<1>5. view' = Grown(e) => Growth(e)
  BY <1>1, <1>3, GrownLast DEF Growth
<1>6. QED
  BY <1>1, <1>2, <1>4, <1>5, FrameShape

\* A token reaches that answer and is counted, or is lost and is not.
LEMMA TokenShape ==
    ASSUME TypeInv, SendToken
    PROVE  /\ stream # Silence /\ stream.phase = "tokens"
           /\ stream' = [phase |-> "tokens", q |-> stream.q] /\ UNCHANGED <<page, asked>>
           /\ \/ /\ splits' = splits
                 /\ due' = [due EXCEPT ![stream.q] = due[stream.q] + 1]
                 /\ Growth([Latest EXCEPT
                              !.tokens = Append(@, <<stream.q, due[stream.q] + 1>>)])
              \/ view' = view /\ splits' = splits + 1 /\ due' = due
<1>1. stream # Silence /\ stream.phase = "tokens" /\ stream.q \in Question
  BY DEF SendToken, Silence, TypeInv, Reading
<1>2. PICK n : n = due[stream.q] + 1
  OBVIOUS
<1>3. n \in Nat /\ splits \in Nat
  BY <1>1, <1>2 DEF TypeInv, CountType
<1>4. PICK e : e = [Latest EXCEPT !.tokens = Append(@, <<stream.q, n>>)]
  OBVIOUS
<1>5. e \in ExchangeType /\ e.q = stream.q
  BY <1>1, <1>3, <1>4, LatestIsLast, AppendProperties DEF ExchangeType
<1>6. Frame("tokens", Grown(e))
      /\ due' = IF splits' = splits THEN [due EXCEPT ![stream.q] = n] ELSE due
  BY <1>2, <1>4 DEF SendToken
<1>7. view' = Grown(e) => Growth(e)
  BY <1>1, <1>5, GrownLast DEF Growth
<1>8. QED
  BY <1>1, <1>2, <1>3, <1>4, <1>6, <1>7, FrameShape

\* An error shows, or is lost; the answer is cut.
LEMMA ErrorShape ==
    ASSUME TypeInv, SendError
    PROVE  /\ stream # Silence /\ stream.phase \in {"open", "tokens"}
           /\ stream' = [phase |-> "failed", q |-> stream.q] /\ UNCHANGED <<page, asked>>
           /\ GiveUp /\ view'.exchanges = view.exchanges
           /\ \/ view'.status = "error" /\ splits' = splits
              \/ view' = view /\ splits' = splits + 1
<1>1. stream # Silence /\ stream.phase \in {"open", "tokens"} /\ GiveUp
  BY DEF SendError, Silence
<1>2. PICK v : v = [view EXCEPT !.status = "error"]
  OBVIOUS
<1>3. v.status = "error" /\ v.exchanges = view.exchanges
  BY <1>2 DEF TypeInv, ViewType
<1>4. Frame("failed", v)
  BY <1>2 DEF SendError
<1>5. QED
  BY <1>1, <1>3, <1>4, FrameShape

\* A done frame settles what is not an error, or is lost.
LEMMA DoneShape ==
    ASSUME TypeInv, SendDone
    PROVE  /\ stream # Silence /\ stream.phase \in {"tokens", "failed"}
           /\ stream' = [phase |-> "finished", q |-> stream.q]
           /\ UNCHANGED <<page, asked, due>> /\ view'.exchanges = view.exchanges
           /\ \/ view'.status = OnDone(view.status) /\ splits' = splits
              \/ view' = view /\ splits' = splits + 1
<1>1. stream # Silence /\ stream.phase \in {"tokens", "failed"} /\ due' = due
  BY DEF SendDone, Silence
<1>2. PICK v : v = [view EXCEPT !.status = OnDone(@)]
  OBVIOUS
<1>3. v.status = OnDone(view.status) /\ v.exchanges = view.exchanges
  BY <1>2 DEF TypeInv, ViewType
<1>4. Frame("finished", v)
  BY <1>2 DEF SendDone
<1>5. QED
  BY <1>1, <1>3, <1>4, FrameShape

\* The steps that silence the stream, or leave it without an end.
LEMMA EndShape ==
    ASSUME TypeInv
    PROVE  /\ Close => /\ stream.phase = "finished" /\ stream' = Silence
                       /\ view'.status = IF view.status = "streaming" THEN Settled ELSE view.status
                       /\ view'.exchanges = view.exchanges
                       /\ UNCHANGED <<page, asked, splits, due>>
           /\ Drop => /\ stream' = Silence /\ view'.status = "error"
                      /\ view'.exchanges = view.exchanges
                      /\ GiveUp /\ UNCHANGED <<page, asked, splits>>
           /\ Hang => /\ stream.phase \in {"open", "tokens", "failed"} /\ stream # Silence
                      /\ stream' = [phase |-> "hung", q |-> stream.q]
                      /\ GiveUp /\ UNCHANGED <<page, view, asked, splits>>
           /\ Connect => /\ stream.phase = "asked" /\ stream # Silence
                         /\ stream' = [phase |-> "open", q |-> stream.q]
                         /\ UNCHANGED <<page, view, asked, splits, due>>
           /\ Clear => /\ stream' = Silence /\ view'.status = "idle" /\ view'.exchanges = << >>
                       /\ page = "ask" /\ GiveUp /\ UNCHANGED <<page, asked, splits>>
<1>1. ASSUME Close
      PROVE  /\ stream.phase = "finished" /\ stream' = Silence
             /\ view'.status = IF view.status = "streaming" THEN Settled ELSE view.status
             /\ view'.exchanges = view.exchanges
             /\ UNCHANGED <<page, asked, splits, due>>
  BY <1>1 DEF Close, TypeInv, ViewType, history
<1>2. ASSUME Drop
      PROVE  /\ stream' = Silence /\ view'.status = "error"
             /\ view'.exchanges = view.exchanges
             /\ GiveUp /\ UNCHANGED <<page, asked, splits>>
  BY <1>2 DEF Drop, OnDrop, TypeInv, ViewType
<1>3. ASSUME Hang
      PROVE  /\ stream.phase \in {"open", "tokens", "failed"} /\ stream # Silence
             /\ stream' = [phase |-> "hung", q |-> stream.q]
             /\ GiveUp /\ UNCHANGED <<page, view, asked, splits>>
  BY <1>3 DEF Hang, TypeInv, StreamType, Silence
<1>4. ASSUME Connect
      PROVE  /\ stream.phase = "asked" /\ stream # Silence
             /\ stream' = [phase |-> "open", q |-> stream.q]
             /\ UNCHANGED <<page, view, asked, splits, due>>
  BY <1>4 DEF Connect, TypeInv, StreamType, Silence, history
<1>5. ASSUME Clear
      PROVE  /\ stream' = Silence /\ view'.status = "idle" /\ view'.exchanges = << >>
             /\ page = "ask" /\ GiveUp /\ UNCHANGED <<page, asked, splits>>
  BY <1>5 DEF Clear, TypeInv, ViewType
<1>6. QED
  BY <1>1, <1>2, <1>3, <1>4, <1>5

\* A page starts with what the session kept, or with nothing.
LEMMA VisitShape ==
    ASSUME TypeInv, NEW p \in Pages, Visit(p)
    PROVE  /\ stream' = Silence /\ page' = p /\ page # p /\ GiveUp /\ UNCHANGED <<asked, splits>>
           /\ view'.status \in {"idle", "done", "error"}
           /\ view'.exchanges = IF p = "ask" THEN session.exchanges ELSE << >>
<1>1. stream' = Silence /\ page' = p /\ page # p /\ GiveUp /\ UNCHANGED <<asked, splits>>
      /\ Mount(p)
  BY DEF Visit
<1>2. CASE p = "ask"
  <2>1. PICK st, m, b : /\ view' = [NoView EXCEPT !.exchanges = session.exchanges, !.status = st,
                                                  !.model = m, !.preferred = b, !.asking = TRUE]
                        /\ st \in {"idle", "done", "error"}
    BY <1>1, <1>2 DEF Mount
  <2>2. QED
    BY <1>1, <1>2, <2>1 DEF NoView
<1>3. CASE p # "ask"
  <2>1. PICK m, b, c : view' = [NoView EXCEPT !.model = m, !.preferred = b, !.asking = c]
    BY <1>1, <1>3 DEF Mount
  <2>2. QED
    BY <1>1, <1>3, <2>1 DEF NoView
<1>4. QED
  BY <1>2, <1>3

\* The steps there are.
LEMMA StepCases ==
    ASSUME Next
    PROVE  \/ Aside \/ Submit \/ Clear \/ (\E p \in Pages : Visit(p))
           \/ Connect \/ SendSources \/ SendToken \/ SendError \/ SendDone
           \/ Close \/ Drop \/ Hang
BY DEF Next, User, Network, Aside

-----------------------------------------------------------------------------
(* The phase of the stream and the status of the page.                     *)

\* While the page is still due an answer it says so; an error or a done frame that was
\* not lost is on the page.
Steady ==
    /\ stream.phase \in {"asked", "open", "tokens"} => Processing
    /\ stream.phase = "none" => view.status # "streaming"
    /\ view.status = "connecting" /\ stream.phase \in {"tokens", "failed"} => splits >= 1
    /\ view.status = "connecting" /\ stream.phase \in {"none", "finished"} => splits >= 2
    /\ stream.phase = "failed" /\ splits = 0 => view.status = "error"
    /\ stream.phase = "finished" /\ splits = 0 => view.status \in {Settled, "error"}

\* Steady holds at the start.
LEMMA SteadyInit == Init => Steady
BY DEF Init, Steady, NoView, Silence

\* Every step keeps Steady.
LEMMA SteadyStep == ASSUME TypeInv, Steady, [Next]_vars PROVE Steady'
<1>s. /\ splits \in Nat /\ view.status \in Status /\ stream.phase \in Phase
      /\ stream # Silence => stream.phase # "none"
      /\ Silence.phase = "none"
  BY DEF TypeInv, ViewType, StreamType, CountType, Reading, Silence
<1>1. CASE Aside
  <2>1. /\ view'.status = view.status
        /\ UNCHANGED <<page, stream, splits>>
    BY <1>1, AsideShape
  <2>2. QED
    BY <2>1 DEF Steady, Processing, Settled
<1>2. CASE Submit
  <2>1. stream'.phase = "asked" /\ view'.status = "connecting"
    BY <1>2, SubmitShape
  <2>2. QED
    BY <2>1 DEF Steady, Processing
<1>3. CASE Clear
  <2>1. stream'.phase = "none" /\ view'.status = "idle"
    BY <1>s, <1>3, EndShape
  <2>2. QED
    BY <2>1 DEF Steady, Processing
<1>4. CASE \E p \in Pages : Visit(p)
  <2>1. stream'.phase = "none" /\ view'.status \in {"idle", "done", "error"}
    BY <1>s, <1>4, VisitShape
  <2>2. QED
    BY <2>1 DEF Steady, Processing
<1>5. CASE Connect
  <2>1. stream.phase = "asked" /\ stream'.phase = "open" /\ view' = view
    BY <1>5, EndShape
  <2>2. QED
    BY <2>1 DEF Steady, Processing
<1>6. CASE SendSources
  <2>1. /\ stream.phase = "open" /\ stream'.phase = "tokens"
        /\ view'.status = "streaming" \/ (view' = view /\ splits' = splits + 1)
    BY <1>6, SourcesShape DEF Growth
  <2>2. QED
    BY <1>s, <2>1 DEF Steady, Processing
<1>7. CASE SendToken
  <2>1. /\ stream.phase = "tokens" /\ stream'.phase = "tokens"
        /\ view'.status = "streaming" \/ (view' = view /\ splits' = splits + 1)
    BY <1>7, TokenShape DEF Growth
  <2>2. QED
    BY <1>s, <2>1 DEF Steady, Processing
<1>8. CASE SendError
  <2>1. /\ stream'.phase = "failed"
        /\ view'.status = "error" \/ splits' = splits + 1
    BY <1>8, ErrorShape
  <2>2. QED
    BY <1>s, <2>1 DEF Steady, Processing
<1>9. CASE SendDone
  <2>1. /\ stream.phase \in {"tokens", "failed"} /\ stream'.phase = "finished" /\ page' = page
        /\ \/ view'.status = OnDone(view.status) /\ splits' = splits
           \/ view' = view /\ splits' = splits + 1
    BY <1>9, DoneShape
  <2>2. CASE view'.status = OnDone(view.status)
    BY <1>s, <2>1, <2>2 DEF Steady, Processing, OnDone, Settled
  <2>3. CASE view' = view /\ splits' = splits + 1
    BY <1>s, <2>1, <2>3 DEF Steady, Processing
  <2>4. QED
    BY <2>1, <2>2, <2>3
<1>10. CASE Close
  <2>1. /\ stream.phase = "finished" /\ stream'.phase = "none" /\ splits' = splits
        /\ view'.status = IF view.status = "streaming" THEN Settled ELSE view.status
    BY <1>s, <1>10, EndShape
  <2>2. QED
    BY <1>s, <2>1 DEF Steady, Processing, Settled
<1>11. CASE Drop
  <2>1. stream'.phase = "none" /\ view'.status = "error"
    BY <1>s, <1>11, EndShape
  <2>2. QED
    BY <2>1 DEF Steady, Processing
<1>12. CASE Hang
  <2>1. stream'.phase = "hung"
    BY <1>12, EndShape
  <2>2. QED
    BY <2>1 DEF Steady, Processing
<1>13. CASE UNCHANGED vars
  BY <1>13 DEF vars, Steady, Processing, Settled
<1>14. QED
  BY <1>1, <1>2, <1>3, <1>4, <1>5, <1>6, <1>7, <1>8, <1>9, <1>10, <1>11, <1>12, <1>13, StepCases

\* The input is blocked while the page reads a stream, and only then; it takes two lost
\* frames to leave it blocked (EpisodeChat.tsx: the disabled input).
THEOREM BlockedWhenReading == Spec => []BlockedWhileReading
<1>1. TypeInv /\ Steady => BlockedWhileReading
  <2> SUFFICES ASSUME TypeInv, Steady PROVE BlockedWhileReading
    OBVIOUS
  <2>1. /\ splits \in Nat /\ stream.phase \in Phase
        /\ stream = Silence => stream.phase = "none"
        /\ stream # Silence => stream.phase # "none"
    BY DEF TypeInv, StreamType, CountType, Reading, Silence
  <2>2. QED
    BY <2>1 DEF Steady, BlockedWhileReading, Processing
<1>2. QED
  BY <1>1, TypeInit, TypeStep, SteadyInit, SteadyStep, PTL DEF Spec

\* What follows an error in its stream never makes it look like an answer
\* (EpisodeChat.tsx: done leaves an error alone).
THEOREM ErrorsKept == Spec => ErrorKept
<1>1. TypeInv /\ Steady /\ [Next]_vars =>
        [view.status = "error" /\ page' = page => view'.status = "error" \/ Submit \/ Clear]_vars
  <2> SUFFICES ASSUME TypeInv, Steady, Next, view.status = "error", page' = page
               PROVE  view'.status = "error" \/ Submit \/ Clear
    BY DEF vars
  <2>1. stream.phase \notin {"asked", "open", "tokens"}
    BY DEF Steady, Processing
  <2>2. CASE Aside
    BY <2>2, AsideShape
  <2>3. ~ \E p \in Pages : Visit(p)
    BY VisitShape
  <2>4. ~Connect /\ ~SendSources /\ ~SendToken
    BY <2>1, EndShape, SourcesShape, TokenShape
  <2>5. CASE SendError
    BY <2>5, ErrorShape
  <2>6. CASE SendDone
    BY <2>6, DoneShape DEF OnDone
  <2>7. CASE Close \/ Drop \/ Hang
    BY <2>7, EndShape
  <2>8. QED
    BY <2>2, <2>3, <2>4, <2>5, <2>6, <2>7, StepCases
<1>2. QED
  BY <1>1, TypeInit, TypeStep, SteadyInit, SteadyStep, PTL DEF Spec, ErrorKept

-----------------------------------------------------------------------------
(* The model.                                                              *)

\* A page that is open holds a model of the list; where no such model is stored in the
\* browser, the page and the session hold the default.
Remembered ==
    /\ page # None => view.model \in Offered
    /\ local \notin Offered =>
          view.model \in {DefaultModel, None} /\ session.model \in {DefaultModel, None}

\* Asking and streaming leave the model alone.
LEMMA ModelKept ==
    ASSUME TypeInv,
           Submit \/ Clear \/ Connect \/ SendSources \/ SendToken \/ SendError \/ SendDone
              \/ Close \/ Drop \/ Hang
    PROVE  view'.model = view.model /\ UNCHANGED <<page, local>>
<1>f. ASSUME NEW phase, NEW handled, handled.model = view.model, Frame(phase, handled)
      PROVE  view'.model = view.model /\ UNCHANGED <<page, local>>
  BY <1>f DEF Frame
<1>g. ASSUME NEW e PROVE Grown(e).model = view.model
  BY DEF Grown, TypeInv, ViewType
<1>1. CASE Submit
  BY <1>1, SubmitShape DEF Submit
<1>2. CASE SendSources
  BY <1>2, <1>f, <1>g DEF SendSources
<1>3. CASE SendToken
  <2>1. \E e : Frame("tokens", Grown(e))
    BY <1>3 DEF SendToken
  <2>2. QED
    BY <2>1, <1>f, <1>g
<1>4. CASE SendError
  <2>1. PICK v : v = [view EXCEPT !.status = "error"]
    OBVIOUS
  <2>2. Frame("failed", v) /\ v.model = view.model
    BY <1>4, <2>1 DEF SendError, TypeInv, ViewType
  <2>3. QED
    BY <2>2, <1>f
<1>5. CASE SendDone
  <2>1. PICK v : v = [view EXCEPT !.status = OnDone(@)]
    OBVIOUS
  <2>2. Frame("finished", v) /\ v.model = view.model
    BY <1>5, <2>1 DEF SendDone, TypeInv, ViewType
  <2>3. QED
    BY <2>2, <1>f
<1>6. CASE Clear \/ Connect \/ Close \/ Drop \/ Hang
  BY <1>6 DEF Clear, Connect, Close, Drop, Hang, TypeInv, ViewType
<1>7. QED
  BY <1>1, <1>2, <1>3, <1>4, <1>5, <1>6

\* A step of the settings changes the model only to one that is chosen or the default.
LEMMA SettingsShape ==
    ASSUME TypeInv, Remembered, AnswerSettings
    PROVE  /\ page' = page /\ page # None
           /\ \/ view'.model = view.model /\ local' = local
              \/ view'.model = setting /\ local' = setting /\ setting \in Offered
              \/ view'.model = local /\ local' = local /\ local \in Offered
<1>1. page' = page /\ page # None
  BY NoFrame DEF AnswerSettings, NoView
<1>2. CASE view' = [view EXCEPT !.asking = FALSE] /\ local' = local
  BY <1>1, <1>2 DEF TypeInv, ViewType
<1>3. CASE SetModel(IF IsOffered(setting) THEN setting ELSE StoredModel)
  <2>1. PICK m : /\ m = IF IsOffered(setting) THEN setting ELSE StoredModel
                 /\ view' = [view EXCEPT !.model = m, !.asking = FALSE]
                 /\ local' = IF m # view.model THEN m ELSE local
    BY <1>3 DEF SetModel
  <2>2. view'.model = m
    BY <2>1 DEF TypeInv, ViewType
  <2>3. CASE IsOffered(setting)
    BY <1>1, <2>1, <2>2, <2>3 DEF IsOffered
  <2>4. CASE ~IsOffered(setting) /\ IsOffered(local)
    BY <1>1, <2>1, <2>2, <2>4 DEF IsOffered, StoredModel
  <2>5. CASE ~IsOffered(setting) /\ ~IsOffered(local)
    <3>1. view.model = DefaultModel
      BY <1>1, <2>5 DEF Remembered, IsOffered
    <3>2. QED
      BY <1>1, <2>1, <2>2, <2>5, <3>1 DEF StoredModel
  <2>6. QED
    BY <2>3, <2>4, <2>5
<1>4. QED
  BY <1>2, <1>3 DEF AnswerSettings

\* A page starts with a model of the list, and with the default where none is stored.
LEMMA VisitModel ==
    ASSUME TypeInv, Remembered, NEW p \in Pages, Visit(p)
    PROVE  /\ local' = local /\ view'.model \in Offered
           /\ local \notin Offered => view'.model = DefaultModel
<1>1. Mount(p) /\ local' = local
  BY DEF Visit, Mount
<1>2. StoredModel \in Offered /\ (local \notin Offered => StoredModel = DefaultModel)
  BY DEF StoredModel, IsOffered
<1>3. CASE p = "ask"
  <2>1. PICK m, st, b : /\ m = IF IsOffered(session.model) THEN session.model ELSE StoredModel
                        /\ view' = [NoView EXCEPT !.exchanges = session.exchanges, !.status = st,
                                                  !.model = m, !.preferred = b, !.asking = TRUE]
    BY <1>1, <1>3 DEF Mount
  <2>2. view'.model = m
    BY <2>1 DEF NoView
  <2>3. QED
    BY <1>1, <1>2, <2>1, <2>2 DEF Remembered, IsOffered
<1>4. CASE p # "ask"
  <2>1. PICK b, c : view' = [NoView EXCEPT !.model = StoredModel, !.preferred = b, !.asking = c]
    BY <1>1, <1>4 DEF Mount
  <2>2. QED
    BY <1>1, <1>2, <2>1 DEF NoView
<1>5. QED
  BY <1>3, <1>4

\* Remembered holds at the start.
LEMMA RememberedInit == Init => Remembered
BY DEF Init, Remembered, NoView, NoSnapshot

\* Every step keeps Remembered.
LEMMA RememberedStep == ASSUME TypeInv, Remembered, [Next]_vars PROVE Remembered'
<1>n. CASE Next
  <2>s. session'.model \in {view'.model, session.model}
    BY <1>n DEF Next, Snapshot
  <2>0. ASSUME view'.model = view.model, local' = local, page' = page PROVE Remembered'
    BY <2>s, <2>0 DEF Remembered
  <2>1. CASE Submit \/ Clear \/ Connect \/ SendSources \/ SendToken \/ SendError \/ SendDone
               \/ Close \/ Drop \/ Hang
    BY <2>1, <2>0, ModelKept
  <2>2. CASE \E p \in Pages : Visit(p)
    <3>1. /\ local' = local /\ view'.model \in Offered
          /\ local \notin Offered => view'.model = DefaultModel
      BY <2>2, VisitModel
    <3>2. QED
      BY <2>s, <3>1 DEF Remembered
  <2>3. CASE \E m \in Offered : PickModel(m)
    <3>1. local' \in Offered /\ view'.model \in Offered
      BY <2>3 DEF PickModel, TypeInv, ViewType
    <3>2. QED
      BY <3>1 DEF Remembered
  <2>4. CASE AnswerSettings
    <3>1. /\ page' = page /\ page # None
          /\ \/ view'.model = view.model /\ local' = local
             \/ view'.model = setting /\ local' = setting /\ setting \in Offered
             \/ view'.model = local /\ local' = local /\ local \in Offered
      BY <2>4, SettingsShape
    <3>2. QED
      BY <2>s, <3>1 DEF Remembered
  <2>5. CASE OpenChat \/ Minimise \/ LoseSettings \/ \E m \in Offered \cup Retired : ChangeSetting(m)
    <3>1. view'.model = view.model /\ local' = local /\ page' = page
      BY <2>5 DEF OpenChat, Minimise, LoseSettings, ChangeSetting, TypeInv, ViewType
    <3>2. QED
      BY <3>1, <2>0
  <2>6. QED
    BY <1>n, <2>1, <2>2, <2>3, <2>4, <2>5, StepCases DEF Aside
<1>u. CASE UNCHANGED vars
  BY <1>u DEF vars, Remembered
<1>2. QED
  BY <1>n, <1>u

\* The model a question would be asked with is one of the list, whatever an earlier
\* version stored or the settings hold (rag-models.ts: isRagModel).
THEOREM ModelsOffered == Spec => []ModelOffered
<1>1. Remembered => ModelOffered
  BY DEF Remembered, ModelOffered
<1>2. QED
  BY <1>1, TypeInit, TypeStep, RememberedInit, RememberedStep, PTL DEF Spec

\* A model that neither the user nor the settings chose is never stored
\* (ask/page.tsx: the effect that skips the first render).
THEOREM OnlyChosenStored == Spec => StoredIsChosen
<1>1. TypeInv /\ Remembered /\ [Next]_vars =>
        [local' # local => local' = setting \/ \E m \in Offered : PickModel(m)]_vars
  <2> SUFFICES ASSUME TypeInv, Remembered, Next, local' # local
               PROVE  local' = setting \/ \E m \in Offered : PickModel(m)
    BY DEF vars
  <2>1. CASE AnswerSettings
    BY <2>1, SettingsShape
  <2>2. CASE \E p \in Pages : Visit(p)
    BY <2>2, VisitModel
  <2>3. ~(OpenChat \/ Minimise \/ LoseSettings \/ \E m \in Offered \cup Retired : ChangeSetting(m))
    BY DEF OpenChat, Minimise, LoseSettings, ChangeSetting
  <2>4. QED
    BY <2>1, <2>2, <2>3, ModelKept, StepCases DEF Aside
<1>2. QED
  BY <1>1, TypeInit, TypeStep, RememberedInit, RememberedStep, PTL DEF Spec, StoredIsChosen

-----------------------------------------------------------------------------
(* Questions and their tokens.                                             *)

\* With n questions asked and d tokens due: an exchange holds the first tokens of its own
\* question, and all that reached the page unless the answer was cut.
Made(e, n, d) ==
    /\ e.q <= n
    /\ \A j \in 1 .. Len(e.tokens) : e.tokens[j] = <<e.q, j>>
    /\ d[e.q] \in {Cut, Len(e.tokens)}
AllMade(s, n, d) == \A i \in 1 .. Len(s) : Made(s[i], n, d)

\* No other exchange, shown or stored for later, is of the question that streams.
Apart ==
    stream # Silence =>
        /\ \A i \in 1 .. Len(view.exchanges) - 1 : view.exchanges[i].q # stream.q
        /\ page # "ask" =>
              \A i \in 1 .. Len(session.exchanges) : session.exchanges[i].q # stream.q
Counting ==
    /\ stream.phase \in {"asked", "open", "tokens"} => due[stream.q] # Cut
    /\ \A q \in Question : q > asked => due[q] = 0
Saved == page = "ask" => session.exchanges = view.exchanges

Paired ==
    /\ AllMade(view.exchanges, asked, due)
    /\ AllMade(session.exchanges, asked, due)
    /\ Apart /\ Counting /\ Saved

\* Only the question that streams may be cut.
CutsOnly ==
    \A q \in Question :
        due'[q] = due[q] \/ (due'[q] = Cut /\ stream # Silence /\ q = stream.q)

\* Giving up cuts the answer that streams and no other.
LEMMA GiveUpCuts == ASSUME TypeInv, GiveUp PROVE CutsOnly
BY DEF GiveUp, CutsOnly, TypeInv, CountType, Silence

\* What is cut stays as it is.
LEMMA MadeStays ==
    ASSUME NEW s \in Seq(ExchangeType), NEW n \in Nat, NEW m \in Nat, n <= m, NEW d, NEW f,
           AllMade(s, n, d),
           \A i \in 1 .. Len(s) : f[s[i].q] \in {d[s[i].q], Cut}
    PROVE  AllMade(s, m, f)
<1> SUFFICES ASSUME NEW i \in 1 .. Len(s) PROVE Made(s[i], m, f)
  BY DEF AllMade
<1>1. s[i] \in ExchangeType /\ Made(s[i], n, d) /\ f[s[i].q] \in {d[s[i].q], Cut}
  BY ElementOfSeq DEF AllMade
<1>2. PICK e : e = s[i]
  OBVIOUS
<1>3. e.q \in Nat /\ Made(e, n, d) /\ f[e.q] \in {d[e.q], Cut}
  BY <1>1, <1>2 DEF ExchangeType
<1>4. Made(e, m, f)
  <2>1. e.q <= n /\ e.q <= m
    BY <1>3 DEF Made
  <2>2. \A j \in 1 .. Len(e.tokens) : e.tokens[j] = <<e.q, j>>
    BY <1>3 DEF Made
  <2>3. f[e.q] \in {Cut, Len(e.tokens)}
    BY <1>3 DEF Made
  <2>4. QED
    BY <2>1, <2>2, <2>3 DEF Made
<1>5. QED
  BY <1>2, <1>4

\* The exchanges are of questions that were asked.
LEMMA QuestionsAsked ==
    ASSUME TypeInv, NEW s \in Seq(ExchangeType), NEW d, AllMade(s, asked, d)
    PROVE  \A i \in 1 .. Len(s) : s[i].q \in Question /\ s[i].q <= asked
<1> TAKE i \in 1 .. Len(s)
<1>1. s[i] \in ExchangeType /\ Made(s[i], asked, d)
  BY ElementOfSeq DEF AllMade
<1>2. QED
  BY <1>1 DEF Made, ExchangeType

\* The question that streams was asked.
LEMMA StreamAsked ==
    ASSUME TypeInv, Paired, stream # Silence PROVE stream.q \in Question /\ stream.q <= asked
<1>1. /\ view.exchanges \in Seq(ExchangeType) /\ view.exchanges # << >>
      /\ view.exchanges[Len(view.exchanges)].q = stream.q /\ stream.q \in Question
  BY LatestIsLast DEF TypeInv, Reading
<1>2. Len(view.exchanges) \in 1 .. Len(view.exchanges)
  BY <1>1, EmptySeq
<1>3. QED
  BY <1>1, <1>2, QuestionsAsked DEF Paired

\* The session's effect.
LEMMA SessionShape ==
    ASSUME Next
    PROVE  session'.exchanges = IF page' = "ask" THEN view'.exchanges ELSE session.exchanges
BY DEF Next, Snapshot

\* Steps that leave the exchanges alone.
LEMMA CarryOn ==
    ASSUME TypeInv, TypeInv', Paired, Next, CutsOnly,
           view'.exchanges = view.exchanges, UNCHANGED <<page, asked>>,
           stream' = Silence \/ (stream # Silence /\ stream'.q = stream.q),
           stream'.phase \in {"asked", "open", "tokens"} => due'[stream'.q] # Cut
    PROVE  Paired'
<1>1. view.exchanges \in Seq(ExchangeType) /\ session.exchanges \in Seq(ExchangeType) /\ asked \in Nat
  BY DEF TypeInv, ViewType, SessionType, CountType
<1>2. /\ \A i \in 1 .. Len(view.exchanges) : view.exchanges[i].q \in Question
      /\ \A i \in 1 .. Len(session.exchanges) : session.exchanges[i].q \in Question
  BY <1>1, QuestionsAsked DEF Paired
<1>3. \A q \in Question : due'[q] \in {due[q], Cut}
  BY DEF CutsOnly
<1>4. AllMade(view.exchanges, asked, due') /\ AllMade(session.exchanges, asked, due')
  <2>1. /\ AllMade(view.exchanges, asked, due) /\ AllMade(session.exchanges, asked, due)
        /\ asked <= asked
    BY <1>1 DEF Paired
  <2>2. \A i \in 1 .. Len(view.exchanges) :
            due'[view.exchanges[i].q] \in {due[view.exchanges[i].q], Cut}
    BY <1>2, <1>3
  <2>3. \A i \in 1 .. Len(session.exchanges) :
            due'[session.exchanges[i].q] \in {due[session.exchanges[i].q], Cut}
    BY <1>2, <1>3
  <2>4. AllMade(view.exchanges, asked, due')
    BY <1>1, <2>1, <2>2, MadeStays
  <2>5. AllMade(session.exchanges, asked, due')
    BY <1>1, <2>1, <2>3, MadeStays
  <2>6. QED
    BY <2>4, <2>5
<1>5. session'.exchanges = IF page = "ask" THEN view.exchanges ELSE session.exchanges
  BY SessionShape
<1>6. AllMade(view.exchanges, asked, due)' /\ AllMade(session.exchanges, asked, due)' /\ Saved'
  BY <1>4, <1>5 DEF Saved
<1>7. Apart'
  BY <1>5 DEF Paired, Apart
<1>8. \A q \in Question : q > asked => due'[q] = due[q]
  BY <1>1, StreamAsked DEF CutsOnly
<1>9. Counting'
  BY <1>8 DEF Paired, Counting
<1>10. QED
  BY <1>6, <1>7, <1>9 DEF Paired

\* Steps that make the last answer grow.
LEMMA GrowOn ==
    ASSUME TypeInv, TypeInv', Paired, Next, stream # Silence, NEW e \in ExchangeType, Growth(e),
           e.q = stream.q, Made(e, asked, due'),
           \A q \in Question : q # stream.q => due'[q] = due[q],
           UNCHANGED <<page, asked>>, stream' # Silence, stream'.q = stream.q, due'[stream.q] # Cut
    PROVE  Paired'
<1>1. view.exchanges \in Seq(ExchangeType) /\ session.exchanges \in Seq(ExchangeType)
      /\ view.exchanges # << >> /\ asked \in Nat
  BY LatestIsLast DEF TypeInv, ViewType, SessionType, CountType
<1>2. Len(view.exchanges) \in Nat \ {0} /\ Len(session.exchanges) \in Nat
  BY <1>1, EmptySeq
<1>3. /\ \A i \in 1 .. Len(view.exchanges) : view.exchanges[i].q \in Question
      /\ \A i \in 1 .. Len(session.exchanges) : session.exchanges[i].q \in Question
  BY <1>1, QuestionsAsked DEF Paired
<1>4. \A i \in 1 .. Len(view.exchanges) - 1 : Made(view.exchanges[i], asked, due')
  <2> TAKE i \in 1 .. Len(view.exchanges) - 1
  <2>1. i \in 1 .. Len(view.exchanges)
    BY <1>2
  <2>2. due'[view.exchanges[i].q] = due[view.exchanges[i].q]
    BY <1>3, <2>1 DEF Paired, Apart
  <2>3. Made(view.exchanges[i], asked, due)
    BY <2>1 DEF Paired, AllMade
  <2>4. QED
    BY <2>2, <2>3 DEF Made
<1>5. \A i \in 1 .. Len(view'.exchanges) : Made(view'.exchanges[i], asked, due')
  <2> TAKE i \in 1 .. Len(view'.exchanges)
  <2>1. CASE i = Len(view.exchanges)
    BY <2>1 DEF Growth
  <2>2. CASE i # Len(view.exchanges)
    <3>1. i \in 1 .. Len(view.exchanges) - 1 /\ view'.exchanges[i] = view.exchanges[i]
      BY <1>2, <2>2 DEF Growth
    <3>2. QED
      BY <1>4, <3>1
  <2>3. QED
    BY <2>1, <2>2
<1>6. session'.exchanges = IF page = "ask" THEN view'.exchanges ELSE session.exchanges
  BY SessionShape
<1>7. page # "ask" => AllMade(session.exchanges, asked, due')
  <2> SUFFICES ASSUME page # "ask", NEW i \in 1 .. Len(session.exchanges)
               PROVE  Made(session.exchanges[i], asked, due')
    BY DEF AllMade
  <2>1. due'[session.exchanges[i].q] = due[session.exchanges[i].q]
    BY <1>3 DEF Paired, Apart
  <2>2. Made(session.exchanges[i], asked, due)
    BY DEF Paired, AllMade
  <2>3. QED
    BY <2>1, <2>2 DEF Made
<1>8. AllMade(view.exchanges, asked, due)'
  BY <1>5 DEF AllMade
<1>9. AllMade(session.exchanges, asked, due)' /\ Saved'
  BY <1>6, <1>7, <1>8 DEF Saved
<1>10. Apart'
  BY <1>6 DEF Paired, Apart, Growth
<1>11. Counting'
  <2>1. \A q \in Question : q > asked => due'[q] = due[q]
    BY <1>1, StreamAsked, SMTT(30)
  <2>2. QED
    BY <2>1, SMTT(30) DEF Paired, Counting
<1>12. QED
  BY <1>8, <1>9, <1>10, <1>11 DEF Paired

\* A new question comes last, and no other exchange is of it.
LEMMA SubmitPaired == ASSUME TypeInv, TypeInv', Paired, Next, Submit PROVE Paired'
<1>q. PICK q : q = asked + 1
  OBVIOUS
<1>1. /\ q \in Question /\ asked' = q /\ stream' = [phase |-> "asked", q |-> q]
      /\ asked \in Nat /\ GiveUp /\ page' = page
      /\ view.exchanges \in Seq(ExchangeType) /\ session.exchanges \in Seq(ExchangeType)
  BY <1>q, SubmitShape DEF Submit, TypeInv, ViewType, SessionType, CountType
<1>2. PICK t : /\ t = IF IsChat THEN Append(view.exchanges, Exchange(q)) ELSE <<Exchange(q)>>
               /\ view' = [view EXCEPT !.status = "connecting", !.exchanges = t]
  BY <1>q DEF Submit
<1>3. view'.exchanges = t
  BY <1>2 DEF TypeInv, ViewType
<1>4. Exchange(q) \in ExchangeType
  BY <1>1, FreshExchange
<1>5. /\ Len(t) \in Nat \ {0} /\ t[Len(t)] = Exchange(q)
      /\ \A i \in 1 .. Len(t) - 1 : i \in 1 .. Len(view.exchanges) /\ t[i] = view.exchanges[i]
  <2>1. CASE IsChat
    BY <1>1, <1>2, <1>4, <2>1, AppendProperties
  <2>2. CASE ~IsChat
    <3>1. t = <<Exchange(q)>>
      BY <1>2, <2>2
    <3>2. QED
      BY <1>4, <3>1
  <2>3. QED
    BY <2>1, <2>2
<1>6. CutsOnly
  BY <1>1, GiveUpCuts
<1>7. due'[q] = 0
  <2>1. stream # Silence => stream.q # q
    BY <1>q, <1>1, StreamAsked
  <2>2. due[q] = 0
    BY <1>q, <1>1 DEF Paired, Counting
  <2>3. QED
    BY <1>1, <1>6, <2>1, <2>2 DEF CutsOnly
<1>8. Made(Exchange(q), q, due')
  BY <1>1, <1>7, EmptySeq DEF Made, Exchange
<1>9. /\ \A i \in 1 .. Len(view.exchanges) :
            view.exchanges[i].q \in Question /\ view.exchanges[i].q <= asked
      /\ \A i \in 1 .. Len(session.exchanges) :
            session.exchanges[i].q \in Question /\ session.exchanges[i].q <= asked
  BY <1>1, QuestionsAsked DEF Paired
<1>10. AllMade(view.exchanges, q, due') /\ AllMade(session.exchanges, q, due')
  <2>1. q \in Nat /\ asked <= q /\ \A k \in Question : due'[k] \in {due[k], Cut}
    BY <1>q, <1>1, <1>6 DEF CutsOnly
  <2>2. AllMade(view.exchanges, asked, due) /\ AllMade(session.exchanges, asked, due)
    BY DEF Paired
  <2>3. \A i \in 1 .. Len(view.exchanges) :
            due'[view.exchanges[i].q] \in {due[view.exchanges[i].q], Cut}
    BY <1>9, <2>1
  <2>4. \A i \in 1 .. Len(session.exchanges) :
            due'[session.exchanges[i].q] \in {due[session.exchanges[i].q], Cut}
    BY <1>9, <2>1
  <2>5. AllMade(view.exchanges, q, due')
    BY <1>1, <2>1, <2>2, <2>3, MadeStays
  <2>6. AllMade(session.exchanges, q, due')
    BY <1>1, <2>1, <2>2, <2>4, MadeStays
  <2>7. QED
    BY <2>5, <2>6
<1>11. AllMade(t, q, due')
  <2> SUFFICES ASSUME NEW i \in 1 .. Len(t) PROVE Made(t[i], q, due')
    BY DEF AllMade
  <2>1. CASE i = Len(t)
    BY <1>5, <1>8, <2>1
  <2>2. CASE i # Len(t)
    <3>1. i \in 1 .. Len(t) - 1
      BY <1>5, <2>2
    <3>2. QED
      BY <1>5, <1>10, <3>1 DEF AllMade
  <2>3. QED
    BY <2>1, <2>2
<1>12. session'.exchanges = IF page = "ask" THEN t ELSE session.exchanges
  BY <1>1, <1>3, SessionShape
<1>13. /\ AllMade(view.exchanges, asked, due)' /\ AllMade(session.exchanges, asked, due)'
       /\ Saved'
  BY <1>1, <1>3, <1>10, <1>11, <1>12 DEF Saved
<1>14. Apart'
  <2>1. \A i \in 1 .. Len(t) - 1 : t[i].q # q
    <3> TAKE i \in 1 .. Len(t) - 1
    <3>1. i \in 1 .. Len(view.exchanges) /\ t[i] = view.exchanges[i]
      BY <1>5
    <3>2. view.exchanges[i].q \in Nat /\ view.exchanges[i].q <= asked
      BY <1>9, <3>1
    <3>3. QED
      BY <1>q, <1>1, <3>1, <3>2
  <2>2. \A i \in 1 .. Len(session.exchanges) : session.exchanges[i].q # q
    BY <1>q, <1>1, <1>9
  <2>3. QED
    BY <1>1, <1>3, <1>12, <2>1, <2>2 DEF Apart
<1>15. Counting'
  <2>1. \A k \in Question : k > q => due'[k] = 0
    <3> TAKE k \in Question
    <3>1. CASE k > q
      <4>1. k > asked /\ (stream # Silence => stream.q # k)
        BY <1>q, <1>1, <3>1, StreamAsked
      <4>2. QED
        BY <1>6, <4>1 DEF CutsOnly, Paired, Counting
    <3>2. QED
      BY <3>1
  <2>2. QED
    BY <1>1, <1>7, <2>1 DEF Counting
<1>16. QED
  BY <1>13, <1>14, <1>15 DEF Paired

\* A page that is opened shows what the session kept, or nothing.
LEMMA VisitPaired ==
    ASSUME TypeInv, TypeInv', Paired, Next, NEW p \in Pages, Visit(p) PROVE Paired'
<1>1. /\ stream' = Silence /\ page' = p /\ UNCHANGED asked /\ CutsOnly
      /\ view'.exchanges = IF p = "ask" THEN session.exchanges ELSE << >>
  BY VisitShape, GiveUpCuts
<1>2. session.exchanges \in Seq(ExchangeType) /\ asked \in Nat
  BY DEF TypeInv, SessionType, CountType
<1>3. \A i \in 1 .. Len(session.exchanges) : session.exchanges[i].q \in Question
  BY <1>2, QuestionsAsked DEF Paired
<1>4. AllMade(session.exchanges, asked, due')
  <2>1. \A k \in Question : due'[k] \in {due[k], Cut}
    BY <1>1 DEF CutsOnly
  <2>2. \A i \in 1 .. Len(session.exchanges) :
            due'[session.exchanges[i].q] \in {due[session.exchanges[i].q], Cut}
    BY <1>3, <2>1
  <2>3. AllMade(session.exchanges, asked, due) /\ asked <= asked
    BY <1>2 DEF Paired
  <2>4. QED
    BY <1>2, <2>2, <2>3, MadeStays
<1>5. AllMade(<< >>, asked, due')
  BY DEF AllMade
<1>6. session'.exchanges = session.exchanges \/ (p = "ask" /\ session'.exchanges = view'.exchanges)
  BY <1>1, SessionShape
<1>7. AllMade(view.exchanges, asked, due)' /\ AllMade(session.exchanges, asked, due)'
  BY <1>1, <1>4, <1>5, <1>6
<1>8. Saved'
  BY <1>1, SessionShape DEF Saved
<1>9. Apart' /\ Counting'
  <2>1. \A k \in Question : k > asked => due'[k] = due[k]
    BY <1>1, <1>2, StreamAsked DEF CutsOnly
  <2>2. QED
    BY <1>1, <2>1 DEF Paired, Apart, Counting, Silence
<1>10. QED
  BY <1>7, <1>8, <1>9 DEF Paired

\* Clear leaves nothing.
LEMMA ClearPaired == ASSUME TypeInv, TypeInv', Paired, Next, Clear PROVE Paired'
<1>1. /\ stream' = Silence /\ page' = "ask" /\ UNCHANGED asked /\ CutsOnly
      /\ view'.exchanges = << >>
  BY EndShape, GiveUpCuts
<1>2. session'.exchanges = << >>
  BY <1>1, SessionShape
<1>3. AllMade(<< >>, asked, due')
  BY DEF AllMade
<1>4. \A k \in Question : k > asked => due'[k] = due[k]
  BY <1>1, StreamAsked DEF CutsOnly, TypeInv, CountType
<1>5. Apart' /\ Counting' /\ Saved'
  BY <1>1, <1>2, <1>4 DEF Paired, Apart, Counting, Saved, Silence
<1>6. QED
  BY <1>1, <1>2, <1>3, <1>5 DEF Paired

\* The last exchange is well made.
LEMMA LatestMade ==
    ASSUME TypeInv, Paired, stream # Silence PROVE Made(Latest, asked, due)
<1>1. /\ Latest = view.exchanges[Len(view.exchanges)]
      /\ view.exchanges \in Seq(ExchangeType) /\ view.exchanges # << >>
  BY LatestIsLast
<1>2. Len(view.exchanges) \in 1 .. Len(view.exchanges)
  BY <1>1, EmptySeq
<1>3. QED
  BY <1>1, <1>2 DEF Paired, AllMade

\* Sources keep the exchanges apart.
LEMMA SourcesPaired == ASSUME TypeInv, TypeInv', Paired, Next, SendSources PROVE Paired'
<1>1. /\ stream # Silence /\ stream.phase = "open" /\ UNCHANGED <<page, asked, due>>
      /\ stream' = [phase |-> "tokens", q |-> stream.q] /\ stream' # Silence
      /\ due[stream.q] # Cut
  BY SourcesShape DEF Paired, Counting, Silence
<1>2. CASE Growth([Latest EXCEPT !.sources = TRUE])
  <2>1. PICK e : e = [Latest EXCEPT !.sources = TRUE]
    OBVIOUS
  <2>2. e \in ExchangeType /\ e.q = stream.q /\ e.q = Latest.q /\ e.tokens = Latest.tokens
    BY <1>1, <2>1, LatestIsLast DEF ExchangeType
  <2>3. Made(e, asked, due')
    BY <1>1, <2>2, LatestMade DEF Made
  <2>4. QED
    BY <1>1, <1>2, <2>1, <2>2, <2>3, GrowOn
<1>3. CASE view' = view
  BY <1>1, <1>3, CarryOn DEF CutsOnly
<1>4. QED
  BY <1>2, <1>3, SourcesShape

\* The next token of the question that streams is the next of its exchange.
LEMMA TokenPaired == ASSUME TypeInv, TypeInv', Paired, Next, SendToken PROVE Paired'
<1>1. /\ stream # Silence /\ stream.phase = "tokens" /\ UNCHANGED <<page, asked>>
      /\ stream' = [phase |-> "tokens", q |-> stream.q] /\ stream' # Silence
      /\ due[stream.q] # Cut
  BY TokenShape DEF Paired, Counting, Silence
<1>2. stream.q \in Question /\ due \in [Question -> Nat \cup {Cut}] /\ due[stream.q] \in Nat
  BY <1>1 DEF TypeInv, Reading, CountType
<1>3. PICK n : n = due[stream.q] + 1
  OBVIOUS
<1>4. CASE /\ due' = [due EXCEPT ![stream.q] = n]
           /\ Growth([Latest EXCEPT !.tokens = Append(@, <<stream.q, n>>)])
  <2>1. PICK e : e = [Latest EXCEPT !.tokens = Append(@, <<stream.q, n>>)]
    OBVIOUS
  <2>2. /\ Latest \in ExchangeType /\ Latest.q = stream.q /\ n \in Nat
        /\ Latest.tokens \in Seq(Question \X Nat)
    <3>1. Latest \in ExchangeType /\ Latest.q = stream.q
      BY <1>1, LatestIsLast
    <3>2. n \in Nat
      BY <1>2, <1>3
    <3>3. Latest.tokens \in Seq(Question \X Nat)
      BY <3>1 DEF ExchangeType
    <3>4. QED
      BY <3>1, <3>2, <3>3
  <2>3. /\ e.tokens = Append(Latest.tokens, <<stream.q, n>>) /\ e.q = stream.q
        /\ e.sources = Latest.sources
        /\ e = [Latest EXCEPT !.tokens = Append(Latest.tokens, <<stream.q, n>>)]
    BY <2>1, <2>2 DEF ExchangeType
  <2>4. /\ e.tokens \in Seq(Question \X Nat) /\ Len(e.tokens) = Len(Latest.tokens) + 1
        /\ e.tokens[Len(e.tokens)] = <<stream.q, n>>
        /\ \A j \in 1 .. Len(Latest.tokens) : e.tokens[j] = Latest.tokens[j]
    BY <1>2, <2>2, <2>3, AppendProperties
  <2>5. e \in ExchangeType
    BY <2>2, <2>3, <2>4 DEF ExchangeType
  <2>6. Made(Latest, asked, due)
    BY <1>1, LatestMade
  <2>7. Len(Latest.tokens) = due[stream.q] /\ Len(Latest.tokens) \in Nat
    BY <1>1, <2>2, <2>6 DEF Made
  <2>8. due'[stream.q] = n
    BY <1>2, <1>4
  <2>9. Made(e, asked, due')
    <3>1. e.q <= asked
      BY <2>2, <2>3, <2>6 DEF Made
    <3>2. Len(e.tokens) = n
      BY <1>3, <2>4, <2>7
    <3>3. \A j \in 1 .. Len(Latest.tokens) : e.tokens[j] = <<e.q, j>>
      BY <2>2, <2>3, <2>4, <2>6 DEF Made
    <3>4. e.tokens[n] = <<e.q, n>>
      BY <2>3, <2>4, <3>2
    <3>5. \A j \in 1 .. Len(e.tokens) : j = n \/ j \in 1 .. Len(Latest.tokens)
      BY <2>4, <2>7, <3>2, SMTT(30)
    <3>6. due'[e.q] = Len(e.tokens)
      BY <2>3, <2>8, <3>2
    <3>7. QED
      BY <3>1, <3>3, <3>4, <3>5, <3>6 DEF Made
  <2>10. /\ \A q \in Question : q # stream.q => due'[q] = due[q]
         /\ due'[stream.q] # Cut
    BY <1>2, <1>3, <1>4, <2>8
  <2>11. QED
    BY <1>1, <1>4, <2>1, <2>3, <2>5, <2>9, <2>10, GrowOn
<1>5. CASE view' = view /\ due' = due
  BY <1>1, <1>5, CarryOn DEF CutsOnly
<1>6. QED
  BY <1>3, <1>4, <1>5, TokenShape

\* Paired holds at the start.
LEMMA PairedInit == Init => Paired
<1> SUFFICES ASSUME Init PROVE Paired
  OBVIOUS
<1>1. view.exchanges = << >> /\ session.exchanges = << >>
  BY DEF Init, NoView, NoSnapshot
<1>2. AllMade(view.exchanges, asked, due) /\ AllMade(session.exchanges, asked, due)
  BY <1>1 DEF AllMade
<1>3. Apart /\ Counting /\ Saved
  BY <1>1 DEF Init, Apart, Counting, Saved, Silence
<1>4. QED
  BY <1>2, <1>3 DEF Paired

\* Every step keeps Paired.
LEMMA PairedStep == ASSUME TypeInv, TypeInv', Paired, [Next]_vars PROVE Paired'
<1>n. CASE Next
  <2>1. CASE Submit
    BY <1>n, <2>1, SubmitPaired
  <2>2. CASE Clear
    BY <1>n, <2>2, ClearPaired
  <2>3. CASE \E p \in Pages : Visit(p)
    BY <1>n, <2>3, VisitPaired
  <2>4. CASE SendSources
    BY <1>n, <2>4, SourcesPaired
  <2>5. CASE SendToken
    BY <1>n, <2>5, TokenPaired
  <2>6. CASE Aside
    <3>1. /\ view'.exchanges = view.exchanges
          /\ UNCHANGED <<page, stream, asked, splits, due>>
      BY <2>6, AsideShape
    <3>2. stream = Silence => stream' = Silence
      BY <3>1
    <3>3. QED
      BY <1>n, <3>1, <3>2, CarryOn DEF CutsOnly, Paired, Counting
  <2>7. CASE Connect
    <3>1. /\ view' = view /\ UNCHANGED <<page, asked, due>> /\ stream # Silence
          /\ stream' = [phase |-> "open", q |-> stream.q] /\ stream.phase = "asked"
      BY <2>7, EndShape
    <3>2. QED
      BY <1>n, <3>1, CarryOn DEF CutsOnly, Paired, Counting
  <2>8. CASE SendError
    <3>1. /\ view'.exchanges = view.exchanges /\ UNCHANGED <<page, asked>> /\ stream # Silence
          /\ stream' = [phase |-> "failed", q |-> stream.q] /\ CutsOnly
      BY <2>8, ErrorShape, GiveUpCuts
    <3>2. QED
      BY <1>n, <3>1, CarryOn
  <2>9. CASE SendDone
    <3>1. /\ view'.exchanges = view.exchanges /\ UNCHANGED <<page, asked, due>>
          /\ stream # Silence /\ stream' = [phase |-> "finished", q |-> stream.q]
      BY <2>9, DoneShape
    <3>2. QED
      BY <1>n, <3>1, CarryOn DEF CutsOnly
  <2>10. CASE Close
    <3>1. /\ view'.exchanges = view.exchanges /\ UNCHANGED <<page, asked, due>>
          /\ stream' = Silence
      BY <2>10, EndShape
    <3>2. QED
      BY <1>n, <3>1, CarryOn DEF CutsOnly, Silence
  <2>11. CASE Drop
    <3>1. /\ view'.exchanges = view.exchanges /\ UNCHANGED <<page, asked>>
          /\ stream' = Silence /\ CutsOnly
      BY <2>11, EndShape, GiveUpCuts
    <3>2. QED
      BY <1>n, <3>1, CarryOn DEF Silence
  <2>12. CASE Hang
    <3>1. /\ view' = view /\ UNCHANGED <<page, asked>> /\ stream # Silence
          /\ stream' = [phase |-> "hung", q |-> stream.q] /\ CutsOnly
      BY <2>12, EndShape, GiveUpCuts
    <3>2. QED
      BY <1>n, <3>1, CarryOn
  <2>13. QED
    BY <1>n, <2>1, <2>2, <2>3, <2>4, <2>5, <2>6, <2>7, <2>8, <2>9, <2>10, <2>11, <2>12, StepCases
<1>u. CASE UNCHANGED vars
  BY <1>u DEF vars, Paired, AllMade, Apart, Counting, Saved
<1>2. QED
  BY <1>n, <1>u

\* Every token shown under a question was generated for it, in the order it was sent,
\* however questions are asked, given up and left (EpisodeChat.tsx: handleSubmit's abort).
THEOREM AnswersOwn == Spec => []AnswersOwnQuestion
<1>1. TypeInv /\ Paired => AnswersOwnQuestion
  <2> SUFFICES ASSUME TypeInv, Paired, NEW i \in DOMAIN view.exchanges
               PROVE  LET e == view.exchanges[i]
                      IN  \A j \in DOMAIN e.tokens :
                              /\ e.tokens[j][1] = e.q
                              /\ \A k \in 1 .. j - 1 : e.tokens[k][2] < e.tokens[j][2]
    BY DEF AnswersOwnQuestion
  <2>1. view.exchanges \in Seq(ExchangeType)
    BY DEF TypeInv, ViewType
  <2>2. PICK e : e = view.exchanges[i]
    OBVIOUS
  <2>3. e \in ExchangeType /\ Made(e, asked, due)
    BY <2>1, <2>2, ElementOfSeq DEF Paired, AllMade
  <2>4. DOMAIN e.tokens = 1 .. Len(e.tokens) /\ Len(e.tokens) \in Nat
    BY <2>3 DEF ExchangeType
  <2>5. \A j \in 1 .. Len(e.tokens) : e.tokens[j][1] = e.q /\ e.tokens[j][2] = j
    BY <2>3 DEF Made
  <2>6. ASSUME NEW j \in 1 .. Len(e.tokens), NEW k \in 1 .. j - 1
        PROVE  e.tokens[k][2] < e.tokens[j][2]
    <3>1. k \in 1 .. Len(e.tokens) /\ k < j
      BY <2>4
    <3>2. QED
      BY <2>5, <3>1
  <2>7. QED
    BY <2>2, <2>4, <2>5, <2>6
<1>2. QED
  BY <1>1, TypeInit, TypeStep, PairedInit, PairedStep, PTL DEF Spec

\* An answer on the page has every token that reached it, unless it failed or was given
\* up: no frame that was handled is missing, whatever was rendered, saved and restored.
THEOREM AnswersWhole ==
    Spec => [](\A i \in 1 .. Len(view.exchanges) :
                  due[view.exchanges[i].q] \in {Cut, Len(view.exchanges[i].tokens)})
<1>1. Paired => \A i \in 1 .. Len(view.exchanges) :
                    due[view.exchanges[i].q] \in {Cut, Len(view.exchanges[i].tokens)}
  BY DEF Paired, AllMade, Made
<1>2. QED
  BY <1>1, TypeInit, TypeStep, PairedInit, PairedStep, PTL DEF Spec

-----------------------------------------------------------------------------
(* Sequences put together of parts.                                        *)

\* A set of numbers that has 0 and every successor has every number: otherwise the least
\* number outside of it has no predecessor.
LEMMA Induct ==
    ASSUME NEW T, T \subseteq Nat, 0 \in T, \A n \in T : n + 1 \in T PROVE Nat \subseteq T
<1> DEFINE R == OpToRel(<, Nat)
           M == Nat \ T
<1>1. SUFFICES ASSUME M # {} PROVE FALSE
  OBVIOUS
<1>2. PICK x \in M : \A y \in M : ~(<<y, x>> \in R)
  <2> HIDE DEF R
  <2>1. IsWellFoundedOn(R, Nat)
    BY NatLessThanWellFounded DEF R
  <2>2. M \subseteq Nat
    OBVIOUS
  <2> HIDE DEF M
  <2>3. QED
    BY <1>1, <2>1, <2>2, WFMin
<1>3. x # 0 /\ x - 1 \in Nat /\ x - 1 \notin T
  OBVIOUS
<1>4. x - 1 \in M /\ x - 1 < x
  BY <1>3
<1>5. <<x - 1, x>> \in R
  BY <1>3, <1>4 DEF OpToRel
<1>6. QED
  BY <1>2, <1>4, <1>5

\* What the recursion of FlattenSeq says of the first n parts of s.
Flattens(f, s, n) == f = [i \in 1 .. n |-> IF i = 1 THEN s[i] ELSE f[i - 1] \o s[i]]

\* Some function meets that recursion, so the one that is chosen does.
LEMMA FlattenDefined == ASSUME NEW s, NEW n \in Nat PROVE \E f : Flattens(f, s, n)
<1> DEFINE T == {m \in Nat : \E f : Flattens(f, s, m)}
<1>1. 0 \in T
  <2>1. Flattens(<< >>, s, 0)
    BY DEF Flattens
  <2>2. QED
    BY <2>1
<1>2. ASSUME NEW m \in T PROVE m + 1 \in T
  <2>1. m \in Nat
    OBVIOUS
  <2>2. PICK f : Flattens(f, s, m)
    OBVIOUS
  <2>3. PICK x : x = IF m + 1 = 1 THEN s[m + 1] ELSE f[m] \o s[m + 1]
    OBVIOUS
  <2>4. PICK g : g = [i \in 1 .. m + 1 |-> IF i = m + 1 THEN x ELSE f[i]]
    OBVIOUS
  <2>5. \A i \in 1 .. m : f[i] = IF i = 1 THEN s[i] ELSE f[i - 1] \o s[i]
    BY <2>2 DEF Flattens
  <2>6. \A i \in 1 .. m : g[i] = f[i] /\ g[m + 1] = x
    BY <2>1, <2>4
  <2>7. \A i \in 1 .. m + 1 : g[i] = IF i = 1 THEN s[i] ELSE g[i - 1] \o s[i]
    <3> TAKE i \in 1 .. m + 1
    <3>1. CASE i = m + 1
      <4>1. CASE m = 0
        BY <2>1, <2>3, <2>4, <3>1, <4>1
      <4>2. CASE m # 0
        <5>1. m \in 1 .. m /\ i # 1 /\ i - 1 = m
          BY <2>1, <3>1, <4>2
        <5>2. g[i] = f[m] \o s[i] /\ g[i - 1] = f[m]
          BY <2>1, <2>3, <2>4, <2>6, <3>1, <5>1
        <5>3. QED
          BY <5>1, <5>2
      <4>3. QED
        BY <4>1, <4>2
    <3>2. CASE i # m + 1
      <4>1. i \in 1 .. m /\ (i # 1 => i - 1 \in 1 .. m)
        BY <2>1, <3>2
      <4>2. QED
        BY <2>5, <2>6, <4>1
    <3>3. QED
      BY <3>1, <3>2
  <2>8. Flattens(g, s, m + 1)
    BY <2>4, <2>7 DEF Flattens
  <2>9. QED
    BY <2>1, <2>8
<1> HIDE DEF T
<1>3. T \subseteq Nat
  BY DEF T
<1>4. Nat \subseteq T
  BY <1>1, <1>2, <1>3, Induct
<1>5. QED
  BY <1>4 DEF T

\* Flattening parts of C stays in C, when C is closed under concatenation.
LEMMA FlattenClosed ==
    ASSUME NEW C, << >> \in C, \A a, b \in C : a \o b \in C, NEW n \in Nat, NEW s \in [1 .. n -> C]
    PROVE  FlattenSeq(s) \in C
<1>1. s \in Seq(C) /\ Len(s) = n
  OBVIOUS
<1>2. CASE n = 0
  <2>1. s = << >>
    BY <1>1, <1>2
  <2>2. QED
    BY <1>1, <1>2, <2>1 DEF FlattenSeq
<1>3. CASE n # 0
  <2> DEFINE f == CHOOSE f : Flattens(f, s, n)
             T == {m \in Nat : m <= n /\ m # 0 => f[m] \in C}
  <2>1. Flattens(f, s, n)
    BY FlattenDefined
  <2>2. FlattenSeq(s) = f[n]
    BY <1>1, <1>3 DEF FlattenSeq, Flattens
  <2> HIDE DEF f
  <2>3. 0 \in T
    OBVIOUS
  <2>4. ASSUME NEW m \in T PROVE m + 1 \in T
    <3>1. SUFFICES ASSUME m + 1 <= n PROVE f[m + 1] \in C
      OBVIOUS
    <3>2. m \in Nat /\ m + 1 \in 1 .. n /\ s[m + 1] \in C
      BY <3>1
    <3>3. f[m + 1] = IF m + 1 = 1 THEN s[m + 1] ELSE f[m] \o s[m + 1]
      <4>1. \A i \in 1 .. n : f[i] = IF i = 1 THEN s[i] ELSE f[i - 1] \o s[i]
        BY <2>1 DEF Flattens
      <4>2. f[m + 1] = IF m + 1 = 1 THEN s[m + 1] ELSE f[m + 1 - 1] \o s[m + 1]
        BY <3>2, <4>1
      <4>3. m + 1 - 1 = m
        BY <3>2
      <4>4. QED
        BY <4>2, <4>3
    <3>4. CASE m = 0
      BY <3>2, <3>3, <3>4
    <3>5. CASE m # 0
      <4>1. f[m] \in C
        BY <3>1, <3>2, <3>5
      <4>2. m + 1 # 1
        BY <3>2, <3>5
      <4>3. f[m + 1] = f[m] \o s[m + 1]
        BY <3>3, <4>2
      <4>4. QED
        BY <3>2, <4>1, <4>3
    <3>6. QED
      BY <3>4, <3>5
  <2> HIDE DEF T
  <2>5. T \subseteq Nat
    BY DEF T
  <2>6. Nat \subseteq T
    BY <2>3, <2>4, <2>5, Induct
  <2>7. QED
    BY <1>3, <2>2, <2>6 DEF T
<1>4. QED
  BY <1>2, <1>3

-----------------------------------------------------------------------------
(* The history that goes along with a question.                            *)

MessageType == [role : {"user", "assistant"}, q : Question]

\* Messages in which every answer comes right after its question.
Dialogs == {t \in Seq(MessageType) :
              \A i \in 1 .. Len(t) :
                  t[i].role = "assistant" => i >= 2 /\ t[i - 1] = Message("user", t[i].q)}

\* One dialog after the other is a dialog.
LEMMA DialogsJoin == ASSUME NEW a \in Dialogs, NEW b \in Dialogs PROVE a \o b \in Dialogs
<1>1. /\ a \in Seq(MessageType) /\ Len(a) \in Nat
      /\ b \in Seq(MessageType) /\ Len(b) \in Nat
  BY DEF Dialogs
<1>2. PICK t : t = a \o b
  OBVIOUS
<1>3. /\ t \in Seq(MessageType) /\ Len(t) = Len(a) + Len(b)
      /\ \A i \in 1 .. Len(a) + Len(b) : t[i] = IF i <= Len(a) THEN a[i] ELSE b[i - Len(a)]
  BY <1>1, <1>2, ConcatProperties
<1>4. ASSUME NEW i \in 1 .. Len(t), t[i].role = "assistant"
      PROVE  i >= 2 /\ t[i - 1] = Message("user", t[i].q)
  <2>1. CASE i <= Len(a)
    <3>1. i \in 1 .. Len(a) /\ t[i] = a[i]
      BY <1>1, <1>3, <2>1
    <3>2. i >= 2 /\ a[i - 1] = Message("user", a[i].q)
      BY <1>4, <3>1 DEF Dialogs
    <3>3. i - 1 \in 1 .. Len(a) /\ t[i - 1] = a[i - 1]
      BY <1>1, <1>3, <3>1, <3>2
    <3>4. QED
      BY <3>1, <3>2, <3>3
  <2>2. CASE i > Len(a)
    <3>1. PICK j : j = i - Len(a)
      OBVIOUS
    <3>2. j \in 1 .. Len(b) /\ t[i] = b[j]
      BY <1>1, <1>3, <2>2, <3>1, SMTT(30)
    <3>3. j >= 2 /\ b[j - 1] = Message("user", b[j].q)
      BY <1>4, <3>2 DEF Dialogs
    <3>4. i - 1 \in 1 .. Len(a) + Len(b) /\ i - 1 > Len(a) /\ i - 1 - Len(a) = j - 1
      BY <1>1, <1>3, <3>1, <3>3
    <3>5. t[i - 1] = b[j - 1]
      BY <1>1, <1>3, <3>4, SMTT(30)
    <3>6. QED
      BY <1>1, <3>1, <3>2, <3>3, <3>5
  <2>3. QED
    BY <1>1, <1>3, <2>1, <2>2
<1>5. QED
  BY <1>2, <1>3, <1>4 DEF Dialogs

\* The messages of one exchange are a dialog, with and without an answer.
LEMMA MessagesDialog == ASSUME NEW e \in ExchangeType PROVE Messages(e) \in Dialogs
<1>1. PICK u, a : u = Message("user", e.q) /\ a = Message("assistant", e.q)
  OBVIOUS
<1>2. u \in MessageType /\ a \in MessageType /\ u.role = "user" /\ a.q = e.q
  BY <1>1 DEF MessageType, Message, ExchangeType
<1>3. Messages(e) = <<u>> \/ Messages(e) = <<u, a>>
  <2>1. Messages(e) = <<u>> \o IF e.tokens = << >> THEN << >> ELSE <<a>>
    BY <1>1 DEF Messages
  <2>2. <<u>> \in Seq(MessageType) /\ <<a>> \in Seq(MessageType) /\ <<u, a>> \in Seq(MessageType)
    BY <1>2
  <2>3. <<u>> \o << >> = <<u>>
    BY <2>2, ConcatEmptySeq
  <2>4. PICK t : t = <<u>> \o <<a>>
    OBVIOUS
  <2>5. t \in Seq(MessageType) /\ Len(t) = 2 /\ t[1] = u /\ t[2] = a
    BY <2>2, <2>4, ConcatProperties
  <2>6. t = <<u, a>>
    BY <2>5
  <2>7. QED
    BY <2>1, <2>3, <2>4, <2>6
<1>4. <<u>> \in Dialogs
  BY <1>2 DEF Dialogs
<1>5. <<u, a>> \in Dialogs
  BY <1>1, <1>2 DEF Dialogs
<1>6. QED
  BY <1>3, <1>4, <1>5

\* The messages of a chat are a dialog.
LEMMA CompletedDialog ==
    ASSUME NEW s \in Seq(ExchangeType) PROVE Completed(s) \in Dialogs
<1>1. Len(s) \in Nat /\ DOMAIN s = 1 .. Len(s) /\ \A i \in 1 .. Len(s) : s[i] \in ExchangeType
  BY ElementOfSeq
<1>2. PICK m : m = [i \in DOMAIN s |-> Messages(s[i])]
  OBVIOUS
<1>3. m \in [1 .. Len(s) -> Dialogs]
  BY <1>1, <1>2, MessagesDialog
<1>4. << >> \in Dialogs
  BY DEF Dialogs
<1>5. FlattenSeq(m) \in Dialogs
  BY <1>1, <1>3, <1>4, DialogsJoin, FlattenClosed
<1>6. QED
  BY <1>2, <1>5 DEF Completed

\* Cutting the history off may part an answer from its question only at the very start.
LEMMA LastOfDialog ==
    ASSUME NEW t \in Dialogs, NEW n \in Nat, NEW s, s = LastOf(t, n)
    PROVE  \A i \in 2 .. Len(s) : s[i].role = "assistant" => s[i - 1] = Message("user", s[i].q)
<1>1. t \in Seq(MessageType) /\ Len(t) \in Nat
  BY DEF Dialogs
<1>2. CASE Len(t) <= n
  <2>1. s = t
    BY <1>1, <1>2 DEF LastOf
  <2>2. QED
    BY <1>1, <2>1 DEF Dialogs
<1>3. CASE Len(t) > n
  <2>1. PICK m : m = Len(t) - n
    OBVIOUS
  <2>2. m \in Nat /\ m + 1 \in Int /\ Len(t) \in Int
    BY <1>1, <1>3, <2>1
  <2>3. s = SubSeq(t, m + 1, Len(t))
    BY <1>3, <2>1 DEF LastOf
  <2>4. \A i \in m + 1 .. Len(t) : t[i] \in MessageType
    BY <1>1, <2>2, ElementOfSeq
  <2>5. /\ Len(s) = IF m + 1 <= Len(t) THEN Len(t) - (m + 1) + 1 ELSE 0
        /\ \A i \in 1 .. Len(t) - (m + 1) + 1 : s[i] = t[m + 1 + i - 1]
    BY <2>2, <2>3, <2>4, SubSeqProperties
  <2>6. Len(s) = n /\ \A i \in 1 .. n : s[i] = t[m + i]
    BY <1>1, <1>3, <2>1, <2>5
  <2>7. ASSUME NEW i \in 2 .. Len(s), s[i].role = "assistant"
        PROVE  s[i - 1] = Message("user", s[i].q)
    <3>1. s[i] = t[m + i] /\ s[i - 1] = t[m + (i - 1)] /\ m + i \in 1 .. Len(t)
      <4>1. i \in 1 .. n /\ i - 1 \in 1 .. n /\ m + n = Len(t)
        BY <1>1, <2>1, <2>6
      <4>2. QED
        BY <1>1, <2>2, <2>6, <4>1
    <3>2. PICK k : k = m + i
      OBVIOUS
    <3>3. k \in 1 .. Len(t) /\ t[k].role = "assistant"
      BY <2>7, <3>1, <3>2
    <3>4. t[k - 1] = Message("user", t[k].q)
      BY <3>3 DEF Dialogs
    <3>5. k - 1 = m + (i - 1)
      BY <2>2, <3>2
    <3>6. QED
      BY <3>1, <3>2, <3>4, <3>5
  <2>8. QED
    BY <2>7
<1>4. QED
  BY <1>1, <1>2, <1>3

\* In the history that goes along with a question, an answer follows its own question,
\* however many exchanges failed and however many are left out (DocsAskBubble.tsx: the
\* history of completed messages).
THEOREM HistoryInPairs == Spec => []HistoryPaired
<1>1. TypeInv => HistoryPaired
  <2> SUFFICES ASSUME TypeInv PROVE HistoryPaired
    OBVIOUS
  <2>1. CASE IsChat
    <3>1. Completed(view.exchanges) \in Dialogs
      BY CompletedDialog DEF TypeInv, ViewType
    <3>2. MaxHistory \in Nat
      OBVIOUS
    <3>3. PICK s : s = LastOf(Completed(view.exchanges), MaxHistory)
      OBVIOUS
    <3>4. \A i \in 2 .. Len(s) : s[i].role = "assistant" => s[i - 1] = Message("user", s[i].q)
      BY <3>1, <3>2, <3>3, LastOfDialog
    <3>5. PriorHistory = s
      BY <2>1, <3>3 DEF PriorHistory
    <3>6. QED
      BY <3>4, <3>5 DEF HistoryPaired, Message
  <2>2. CASE ~IsChat
    <3>1. PriorHistory = << >>
      BY <2>2 DEF PriorHistory
    <3>2. QED
      BY <3>1 DEF HistoryPaired
  <2>3. QED
    BY <2>1, <2>2
<1>2. QED
  BY <1>1, TypeInit, TypeStep, PTL DEF Spec

-----------------------------------------------------------------------------
(* Answers that are shown as finished.                                     *)

\* The question of the last exchange.
LastAsked(s) == s[Len(s)].q

\* With no frame lost, what is shown as finished, or kept to be shown so again, was not
\* cut, and nothing is left of its stream but the end.
Uncut ==
    /\ splits = 0 /\ view.status = Settled /\ view.exchanges # << >> =>
          due[LastAsked(view.exchanges)] # Cut /\ stream.phase \in {"none", "finished"}
    /\ splits = 0 /\ session.status = "done" /\ session.exchanges # << >> =>
          due[LastAsked(session.exchanges)] # Cut
    /\ page = "ask" => session.status = Snapshot(view).status

\* The status the session keeps, by its effect.
LEMMA SessionStatus ==
    ASSUME Next
    PROVE  session'.status = IF page' = "ask" THEN Snapshot(view').status ELSE session.status
BY DEF Next, Snapshot

\* A status that is kept as done is done.
LEMMA SnapshotDone == ASSUME NEW v, Snapshot(v).status = "done" PROVE v.status = "done"
BY DEF Snapshot

\* The last exchange is of a question.
LEMMA LastOfQuestions ==
    ASSUME NEW s \in Seq(ExchangeType), s # << >>
    PROVE  LastAsked(s) \in Question /\ Len(s) \in 1 .. Len(s)
<1>1. Len(s) \in 1 .. Len(s)
  BY EmptySeq
<1>2. s[Len(s)] \in ExchangeType
  BY <1>1, ElementOfSeq
<1>3. QED
  BY <1>1, <1>2 DEF LastAsked, ExchangeType

\* A step keeps Uncut when the page does, and when it touches the answer of the stream at
\* most, and nothing of what the Ask page showed as finished when it is left.
LEMMA UncutStays ==
    ASSUME TypeInv, Paired, Uncut, Next,
           splits' = 0 => splits = 0,
           \A q \in Question : due'[q] = due[q] \/ (stream # Silence /\ q = stream.q),
           page = "ask" /\ page' # "ask" /\ splits = 0 /\ view.status = "done"
              /\ view.exchanges # << >> => due' = due,
           splits' = 0 /\ view'.status = Settled' /\ view'.exchanges # << >> =>
              due'[LastAsked(view'.exchanges)] # Cut /\ stream'.phase \in {"none", "finished"}
    PROVE  Uncut'
<1>1. page' = "ask" => session'.status = Snapshot(view').status /\ session'.exchanges = view'.exchanges
  BY SessionStatus, SessionShape
<1>2. ASSUME splits' = 0, session'.status = "done", session'.exchanges # << >>
      PROVE  due'[LastAsked(session'.exchanges)] # Cut
  <2>1. CASE page' = "ask"
    <3>1. view'.status = "done" /\ Settled' = "done" /\ session'.exchanges = view'.exchanges
      BY <1>1, <1>2, <2>1, SnapshotDone DEF Settled
    <3>2. QED
      BY <1>2, <3>1
  <2>2. CASE page' # "ask"
    <3>1. session'.exchanges = session.exchanges /\ session.status = "done" /\ splits = 0
          /\ session.exchanges \in Seq(ExchangeType) /\ session.exchanges # << >>
      BY <1>2, <2>2, SessionStatus, SessionShape DEF TypeInv, SessionType
    <3>2. due[LastAsked(session.exchanges)] # Cut
      BY <3>1 DEF Uncut
    <3>3. CASE page = "ask"
      <4>1. view.status = "done" /\ view.exchanges = session.exchanges
        BY <3>1, <3>3, SnapshotDone DEF Uncut, Paired, Saved
      <4>2. QED
        BY <2>2, <3>1, <3>2, <3>3, <4>1
    <3>4. CASE page # "ask"
      <4>1. LastAsked(session.exchanges) \in Question
            /\ Len(session.exchanges) \in 1 .. Len(session.exchanges)
        BY <3>1, LastOfQuestions
      <4>2. stream # Silence => LastAsked(session.exchanges) # stream.q
        BY <3>4, <4>1 DEF Paired, Apart, LastAsked
      <4>3. QED
        BY <3>1, <3>2, <4>1, <4>2
    <3>5. QED
      BY <3>3, <3>4
  <2>3. QED
    BY <2>1, <2>2
<1>3. QED
  BY <1>1, <1>2 DEF Uncut

\* The history starts with nothing to cut.
LEMMA UncutInit == Init => Uncut
BY DEF Init, Uncut, NoView, NoSnapshot

\* Opening a page does not cut what it shows as finished.
LEMMA VisitUncut ==
    ASSUME TypeInv, Paired, Steady, Uncut, Next, NEW p \in Pages, Visit(p) PROVE Uncut'
<1>1. /\ stream' = Silence /\ page' = p /\ page # p /\ GiveUp /\ CutsOnly
      /\ UNCHANGED <<asked, splits>>
      /\ view'.exchanges = IF p = "ask" THEN session.exchanges ELSE << >>
  BY VisitShape, GiveUpCuts
<1>2. ASSUME splits' = 0, view'.status = Settled', view'.exchanges # << >>
      PROVE  due'[LastAsked(view'.exchanges)] # Cut /\ stream'.phase \in {"none", "finished"}
  <2>1. p = "ask" /\ view'.exchanges = session.exchanges /\ Settled' = "done"
    BY <1>1, <1>2 DEF Settled
  <2>2. session.status = "done"
    <3>1. PICK st, m, b :
             /\ view' = [NoView EXCEPT !.exchanges = session.exchanges, !.status = st,
                                       !.model = m, !.preferred = b, !.asking = TRUE]
             /\ st = IF session.status \in {"done", "error"} THEN session.status ELSE "idle"
      BY <2>1 DEF Visit, Mount
    <3>2. view'.status = st
      BY <3>1 DEF NoView
    <3>3. QED
      BY <1>2, <2>1, <3>1, <3>2
  <2>3. session.exchanges \in Seq(ExchangeType) /\ session.exchanges # << >>
    BY <1>2, <2>1 DEF TypeInv, SessionType
  <2>4. LastAsked(session.exchanges) \in Question
        /\ Len(session.exchanges) \in 1 .. Len(session.exchanges)
    BY <2>3, LastOfQuestions
  <2>5. stream # Silence => LastAsked(session.exchanges) # stream.q
    BY <1>1, <2>1, <2>4 DEF Paired, Apart, LastAsked
  <2>6. due'[LastAsked(session.exchanges)] = due[LastAsked(session.exchanges)]
    BY <1>1, <2>4, <2>5 DEF CutsOnly
  <2>7. due[LastAsked(session.exchanges)] # Cut
    BY <1>1, <1>2, <2>2, <2>3 DEF Uncut
  <2>8. QED
    BY <1>1, <2>1, <2>6, <2>7 DEF Silence
<1>3. page = "ask" /\ splits = 0 /\ view.status = "done" /\ view.exchanges # << >> => due' = due
  BY <1>1 DEF Uncut, Settled, GiveUp
<1>4. \A q \in Question : due'[q] = due[q] \/ (stream # Silence /\ q = stream.q)
  BY <1>1 DEF CutsOnly
<1>5. splits' = 0 => splits = 0
  BY <1>1
<1>6. QED
  BY <1>2, <1>3, <1>4, <1>5, UncutStays

\* Every step keeps Uncut.
LEMMA UncutStep == ASSUME TypeInv, Steady, Paired, Uncut, [Next]_vars PROVE Uncut'
<1>s. splits \in Nat /\ Silence.phase = "none" /\ (stream # Silence => stream.q \in Question)
      /\ due \in [Question -> Nat \cup {Cut}]
  BY DEF TypeInv, CountType, Silence, Reading
<1>n. CASE Next
  <2>k. ASSUME page' = page, splits' = 0 => splits = 0,
               \A q \in Question : due'[q] = due[q] \/ (stream # Silence /\ q = stream.q),
               splits' = 0 /\ view'.status = Settled' /\ view'.exchanges # << >> =>
                  due'[LastAsked(view'.exchanges)] # Cut
                  /\ stream'.phase \in {"none", "finished"}
        PROVE  Uncut'
    BY <1>n, <2>k, UncutStays
  <2>1. CASE Aside
    <3>1. /\ view'.status = view.status /\ view'.exchanges = view.exchanges
          /\ UNCHANGED <<page, stream, asked, splits, due>>
      BY <2>1, AsideShape
    <3>2. QED
      BY <2>k, <3>1 DEF Uncut, Settled
  <2>2. CASE Submit
    <3>1. /\ view'.status = "connecting" /\ GiveUp /\ CutsOnly /\ page' = page /\ splits' = splits
      BY <2>2, SubmitShape, GiveUpCuts DEF Submit
    <3>2. QED
      BY <2>k, <3>1 DEF Settled, CutsOnly
  <2>3. CASE Clear
    <3>1. view'.exchanges = << >> /\ CutsOnly /\ page' = page /\ splits' = splits
      BY <2>3, EndShape, GiveUpCuts
    <3>2. QED
      BY <2>k, <3>1 DEF CutsOnly
  <2>4. CASE \E p \in Pages : Visit(p)
    BY <1>n, <2>4, VisitUncut
  <2>5. CASE Connect
    <3>1. /\ stream.phase = "asked" /\ UNCHANGED <<page, view, asked, splits, due>>
      BY <2>5, EndShape
    <3>2. view'.status # Settled'
      BY <3>1 DEF Steady, Processing, Settled
    <3>3. QED
      BY <2>k, <3>1, <3>2
  <2>6. CASE SendSources
    <3>1. /\ UNCHANGED <<page, due>>
          /\ (splits' = splits /\ view'.status = "streaming") \/ splits' = splits + 1
      BY <2>6, SourcesShape DEF Growth
    <3>2. splits' = 0 => splits = 0 /\ view'.status # Settled'
      BY <1>s, <3>1 DEF Settled
    <3>3. QED
      BY <2>k, <3>1, <3>2
  <2>7. CASE SendToken
    <3>1. /\ page' = page /\ stream # Silence
          /\ (splits' = splits /\ view'.status = "streaming") \/ splits' = splits + 1
          /\ due' = [due EXCEPT ![stream.q] = due[stream.q] + 1] \/ due' = due
      BY <2>7, TokenShape DEF Growth
    <3>2. splits' = 0 => splits = 0 /\ view'.status # Settled'
      BY <1>s, <3>1 DEF Settled
    <3>3. \A q \in Question : due'[q] = due[q] \/ (stream # Silence /\ q = stream.q)
      BY <1>s, <3>1
    <3>4. QED
      BY <2>k, <3>1, <3>2, <3>3
  <2>8. CASE SendError
    <3>1. /\ page' = page /\ CutsOnly
          /\ (splits' = splits /\ view'.status = "error") \/ splits' = splits + 1
      BY <2>8, ErrorShape, GiveUpCuts
    <3>2. splits' = 0 => splits = 0 /\ view'.status # Settled'
      BY <1>s, <3>1 DEF Settled
    <3>3. QED
      BY <2>k, <3>1, <3>2 DEF CutsOnly
  <2>9. CASE SendDone
    <3>1. /\ stream # Silence /\ stream.phase \in {"tokens", "failed"}
          /\ stream'.phase = "finished"
          /\ UNCHANGED <<page, due>> /\ view'.exchanges = view.exchanges
          /\ (splits' = splits /\ view'.status = OnDone(view.status)) \/ splits' = splits + 1
      BY <2>9, DoneShape
    <3>2. ASSUME splits' = 0, view'.status = Settled', view'.exchanges # << >>
          PROVE  due'[LastAsked(view'.exchanges)] # Cut
      <4>1. splits = 0 /\ view'.status = OnDone(view.status)
        BY <1>s, <3>1, <3>2
      <4>2. stream.phase = "tokens"
        BY <3>1, <3>2, <4>1 DEF Steady, OnDone, Settled
      <4>3. LastAsked(view.exchanges) = stream.q
        BY <3>1 DEF TypeInv, Reading, LastQuestion, LastAsked
      <4>4. QED
        BY <3>1, <4>2, <4>3 DEF Paired, Counting
    <3>3. splits' = 0 => splits = 0
      BY <1>s, <3>1
    <3>4. QED
      BY <2>k, <3>1, <3>2, <3>3
  <2>10. CASE Close
    <3>1. /\ stream.phase = "finished" /\ stream' = Silence
          /\ view'.status = IF view.status = "streaming" THEN Settled ELSE view.status
          /\ view'.exchanges = view.exchanges
          /\ UNCHANGED <<page, asked, splits, due>>
      BY <2>10, EndShape
    <3>2. splits' = 0 => view'.status = view.status
      BY <3>1 DEF Steady, Settled
    <3>3. QED
      BY <1>s, <2>k, <3>1, <3>2 DEF Uncut, Settled
  <2>11. CASE Drop
    <3>1. view'.status = "error" /\ CutsOnly /\ page' = page /\ splits' = splits
      BY <2>11, EndShape, GiveUpCuts
    <3>2. QED
      BY <2>k, <3>1 DEF Settled, CutsOnly
  <2>12. CASE Hang
    <3>1. /\ stream.phase \in {"open", "tokens", "failed"} /\ CutsOnly
          /\ UNCHANGED <<page, view, splits>>
      BY <2>12, EndShape, GiveUpCuts
    <3>2. splits' = 0 => view'.status # Settled'
      BY <3>1 DEF Steady, Processing, Settled
    <3>3. QED
      BY <2>k, <3>1, <3>2 DEF CutsOnly
  <2>13. QED
    BY <1>n, <2>1, <2>2, <2>3, <2>4, <2>5, <2>6, <2>7, <2>8, <2>9, <2>10, <2>11, <2>12, StepCases
<1>u. CASE UNCHANGED vars
  BY <1>u DEF vars, Uncut, Settled, Snapshot
<1>2. QED
  BY <1>n, <1>u

\* The exchanges that have every token that reached the page, unless they were cut.
Wholes == {t \in Seq(ExchangeType) : \A i \in 1 .. Len(t) : due[t[i].q] \in {Cut, Len(t[i].tokens)}}

\* What is exported of whole exchanges is whole.
LEMMA ExportedWhole ==
    ASSUME view.exchanges \in Wholes PROVE Exported \in Wholes
<1>1. PICK s : s = view.exchanges
  OBVIOUS
<1>2. s \in Seq(ExchangeType) /\ Len(s) \in Nat /\ DOMAIN s = 1 .. Len(s) /\ s \in Wholes
  BY <1>1 DEF Wholes
<1>3. << >> \in Wholes
  BY DEF Wholes
<1>4. ASSUME NEW i \in 1 .. Len(s) PROVE Pair(s[i]) \in Wholes
  <2>1. PICK e : e = s[i]
    OBVIOUS
  <2>2. e \in ExchangeType /\ due[e.q] \in {Cut, Len(e.tokens)}
    BY <1>2, <2>1, ElementOfSeq DEF Wholes
  <2>3. <<e>> \in Wholes
    BY <2>2 DEF Wholes
  <2>4. QED
    BY <1>3, <2>1, <2>3 DEF Pair
<1>5. ASSUME NEW a \in Wholes, NEW b \in Wholes PROVE a \o b \in Wholes
  <2>1. PICK t : t = a \o b
    OBVIOUS
  <2>2. /\ a \in Seq(ExchangeType) /\ Len(a) \in Nat
        /\ b \in Seq(ExchangeType) /\ Len(b) \in Nat
    BY DEF Wholes
  <2>3. /\ t \in Seq(ExchangeType) /\ Len(t) = Len(a) + Len(b)
        /\ \A i \in 1 .. Len(a) + Len(b) : t[i] = IF i <= Len(a) THEN a[i] ELSE b[i - Len(a)]
    BY <2>1, <2>2, ConcatProperties
  <2>4. ASSUME NEW i \in 1 .. Len(t) PROVE due[t[i].q] \in {Cut, Len(t[i].tokens)}
    <3>1. CASE i <= Len(a)
      <4>1. i \in 1 .. Len(a) /\ t[i] = a[i]
        BY <2>2, <2>3, <3>1
      <4>2. QED
        BY <4>1 DEF Wholes
    <3>2. CASE i > Len(a)
      <4>1. i - Len(a) \in 1 .. Len(b) /\ t[i] = b[i - Len(a)]
        BY <2>2, <2>3, <3>2
      <4>2. QED
        BY <4>1 DEF Wholes
    <3>3. QED
      BY <2>2, <2>3, <3>1, <3>2
  <2>5. QED
    BY <2>1, <2>3, <2>4 DEF Wholes
<1>6. PICK f : f = [i \in DOMAIN s |-> Pair(s[i])]
  OBVIOUS
<1>7. f \in [1 .. Len(s) -> Wholes]
  BY <1>2, <1>4, <1>6
<1>8. FlattenSeq(f) \in Wholes
  <2> HIDE DEF Wholes
  <2>1. QED
    BY <1>2, <1>3, <1>5, <1>7, FlattenClosed
<1>9. QED
  BY <1>1, <1>6, <1>8 DEF Exported

\* An answer shown as finished, or exported, has every token that reached the page unless
\* it failed or was given up, and what failed is not shown as finished, through renders,
\* visits and exports (ask/page.tsx: handleSubmit; EpisodeChatExports.ts: pairMessages).
THEOREM FinishedWhole == Spec => []FinishedIsWhole
<1>1. TypeInv /\ Paired /\ Uncut => FinishedIsWhole
  <2> SUFFICES ASSUME TypeInv, Paired, Uncut PROVE FinishedIsWhole
    OBVIOUS
  <2>1. view.exchanges \in Seq(ExchangeType) /\ DOMAIN view.exchanges = 1 .. Len(view.exchanges)
    BY DEF TypeInv, ViewType
  <2>2. \A i \in 1 .. Len(view.exchanges) :
            due[view.exchanges[i].q] \in {Cut, Len(view.exchanges[i].tokens)}
    BY DEF Paired, AllMade, Made
  <2>3. Exported \in Wholes
    BY <2>1, <2>2, ExportedWhole DEF Wholes
  <2>4. \A i \in DOMAIN Exported : due[Exported[i].q] \in {Cut, Len(Exported[i].tokens)}
    BY <2>3 DEF Wholes
  <2>5. view.exchanges # << >> => Latest.q = LastAsked(view.exchanges)
    BY DEF Latest, LastAsked
  <2>6. view.status = Settled /\ view.exchanges # << >> /\ splits = 0 => due[Latest.q] # Cut
    BY <2>5 DEF Uncut
  <2>7. QED
    BY <2>1, <2>2, <2>4, <2>6 DEF FinishedIsWhole
<1>2. QED
  BY <1>1, TypeInit, TypeStep, SteadyInit, SteadyStep, PairedInit, PairedStep, UncutInit, UncutStep,
     PTL DEF Spec
=============================================================================
