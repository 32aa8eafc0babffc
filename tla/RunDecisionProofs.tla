---------------------------- MODULE RunDecisionProofs ----------------------------
(***************************************************************************)
(* What the two halves of a Run's decision promise, proved for every value *)
(* of their constants: ResearchLoop for any number of horizons, resources  *)
(* and revisions, PositionSizing for any assets, forecasts, quotes, policy *)
(* and risk model.                                                         *)
(***************************************************************************)
EXTENDS ResearchLoop, PositionSizing, SumTheorems

------------------------------------------------------------------------------
(***************************************************************************)
(* The rows of a submission.                                               *)
(***************************************************************************)
\* The first row is one of the rows.
LEMMA FirstIsRow ==
  ASSUME ResearchLoopAssumption, NEW rows \in SUBSET (Horizons \X Resources), rows # {}
  PROVE  First(rows) \in rows
<1>1. Horizons \subseteq Nat /\ Resources \subseteq Nat
  BY DEF ResearchLoopAssumption
<1> DEFINE H == {row[1] : row \in rows}
<1>2. PICK h \in H : \A g \in H : h <= g
  <2>1. H \in SUBSET Nat /\ H # {}
    BY <1>1
  <2> HIDE DEF H
  <2> QED
    BY <2>1, HasLeast
<1> DEFINE Of == {row \in rows : row[1] = h}
           R == {row[2] : row \in Of}
<1>3. PICK r \in R : \A q \in R : r <= q
  <2>1. R \in SUBSET Nat /\ R # {}
    BY <1>1, <1>2
  <2> HIDE DEF R
  <2> QED
    BY <2>1, HasLeast
<1>4. PICK a \in rows : a[1] = h /\ a[2] = r
  BY <1>3
<1>5. \A b \in rows : Precedes(a, b)
  <2> SUFFICES ASSUME NEW b \in rows PROVE Precedes(a, b)
    OBVIOUS
  <2>1. b[1] \in Nat /\ h \in Nat /\ h <= b[1]
    BY <1>1, <1>2
  <2>2. CASE b[1] = h
    <3>1. r <= b[2]
      BY <1>3, <2>2
    <3> QED
      BY <1>4, <2>2, <3>1 DEF Precedes
  <2>3. CASE b[1] # h
    BY <1>4, <2>1, <2>3 DEF Precedes
  <2> QED
    BY <2>2, <2>3
<1> QED
  BY <1>4, <1>5 DEF First

------------------------------------------------------------------------------
(***************************************************************************)
(* The nodes of the graph.                                                 *)
(***************************************************************************)
Statuses == {"queued", "running", "succeeded", "skipped", "failed", "cancelled"}

\* The name of a node says which one it is.
LEMMA Names ==
  /\ \A h, r : /\ Role(Analyst(h, r)) = "analyst" /\ Horizon(Analyst(h, r)) = h
               /\ Round(Analyst(h, r)) = r
               /\ Role(Critic(h, r)) = "critic" /\ Horizon(Critic(h, r)) = h
               /\ Round(Critic(h, r)) = r
  /\ \A k : /\ Role(Synthesizer(k)) = "synthesizer" /\ Round(Synthesizer(k)) = k
            /\ Role(Reviewer(k)) = "reviewer" /\ Round(Reviewer(k)) = k
  /\ Role(Supplement) = "supplement" /\ Role(Decision) = "decision"
  BY DEF Role, Horizon, Round, Analyst, Critic, Synthesizer, Reviewer, Supplement,
         Decision

\* Each name above is that of a node.
LEMMA Members ==
  /\ \A h \in Horizons, r \in Rounds : Analyst(h, r) \in Nodes /\ Critic(h, r) \in Nodes
  /\ \A k \in Revisions : Synthesizer(k) \in Nodes /\ Reviewer(k) \in Nodes
  /\ Supplement \in Nodes /\ Decision \in Nodes
  BY DEF Nodes, Pairs, Rounds

\* And every node has one of these names.
LEMMA NodeKinds ==
  ASSUME NEW n \in Nodes
  PROVE  \/ \E h \in Horizons, r \in Rounds : n = Analyst(h, r)
         \/ \E h \in Horizons, r \in Rounds : n = Critic(h, r)
         \/ \E k \in Revisions : n = Synthesizer(k)
         \/ \E k \in Revisions : n = Reviewer(k)
         \/ n = Supplement
         \/ n = Decision
  BY DEF Nodes, Pairs, Rounds

------------------------------------------------------------------------------
(***************************************************************************)
(* Types.                                                                  *)
(***************************************************************************)
Answers == {"none", "facts", "nothing", "failed"}
Memories ==
  [pc : {"idle", "rows", "asking", "answered"}, todo : SUBSET (Horizons \X Resources),
   row : (Horizons \X Resources) \cup {<<0, 0>>}, answer : Answers,
   affected : SUBSET Horizons, evidence : SUBSET Resources]

Typed ==
  /\ st \in [Nodes -> Statuses]
  /\ out = [n \in Nodes |-> out[n]]
  /\ started \in SUBSET Resources
  /\ done \in [Resources -> [answer : Answers, att : Nat]]
  /\ live \in Memories
  /\ live.pc \in {"asking", "answered"} => live.row \in live.todo
  /\ live.pc = "answered" => live.answer # "none"
  /\ live.pc = "idle" <=> st[Supplement] # "running"
  /\ att \in Nat
  /\ asked \in [Resources -> Nat]

\* The nodes that call a model leave the supplement alone.
NodeMoves ==
  \E n \in Researchers : Skip(n) \/ Stop(n) \/ Research(n) \/ FailNode(n)

\* Closing leaves statuses, and only the node itself was running.
LEMMA ClosingType ==
  ASSUME Typed, NEW n \in Nodes
  PROVE  Closing(n) \in [Nodes -> Statuses]
  BY DEF Typed, Closing, Statuses

\* A step of a researcher keeps the types.
LEMMA NodeMovesTyped ==
  ASSUME Typed, NodeMoves
  PROVE  Typed'
<1>1. PICK n \in Researchers : Skip(n) \/ Stop(n) \/ Research(n) \/ FailNode(n)
  BY DEF NodeMoves
<1>2. n \in Nodes /\ n # Supplement /\ st[n] = "queued"
  BY <1>1 DEF Researchers, Skip, Stop, Research, FailNode, Ready
<1>3. UNCHANGED supplementVars
  BY <1>1 DEF Skip, Stop, Research, FailNode
<1>4. /\ st' \in [Nodes -> Statuses]
      /\ st'[Supplement] = "running" <=> st[Supplement] = "running"
      /\ out' = [m \in Nodes |-> out'[m]]
  <2>1. CASE Skip(n)
    BY <1>2, <2>1, Members DEF Skip, Typed, Statuses
  <2>2. CASE Stop(n) \/ Research(n)
    <3>1. PICK o : Publish(n, o)
      BY <2>2 DEF Stop, Research
    <3> QED
      BY <1>2, <3>1, Members DEF Publish, Typed, Statuses
  <2>3. CASE FailNode(n)
    BY <1>2, <2>3, Members, ClosingType DEF FailNode, Typed, Closing
  <2> QED
    BY <1>1, <2>1, <2>2, <2>3
<1> QED
  BY <1>3, <1>4 DEF Typed, supplementVars

\* The steps of the supplement and of the Decision.
SupplementMoves ==
  \/ StartSupplement \/ PassRow \/ StartRow \/ Acquire \/ Dispose
  \/ FinishSupplement \/ RefuseSupplement \/ PutOff \/ LoseSupplement
DecisionMoves == Decide \/ RefuseDecision

\* What the supplement has in memory before it starts.
LEMMA IdleIsMemory == Idle \in Memories /\ Idle.pc = "idle"
  BY DEF Idle, Memories, Answers

\* The row that is looked at is one of those still to do.
LEMMA RowIsToDo ==
  ASSUME ResearchLoopAssumption, Typed, live.todo # {}
  PROVE  /\ Row \in live.todo
         /\ Row \in Horizons \X Resources
         /\ Row[1] \in Horizons /\ Row[2] \in Resources
<1>1. live.todo \in SUBSET (Horizons \X Resources)
  BY DEF Typed, Memories
<1>2. Row \in live.todo
  BY <1>1, FirstIsRow DEF Row
<1> QED
  BY <1>1, <1>2

\* Settle takes a row off the list and nothing else but adds what it brought.
LEMMA SettleStep ==
  ASSUME Typed, NEW row \in Horizons \X Resources, NEW facts \in BOOLEAN, Settle(row, facts)
  PROVE  /\ live' \in Memories
         /\ live'.pc = "rows" /\ live'.todo = live.todo \ {row}
         /\ live'.affected = IF facts THEN live.affected \cup {row[1]} ELSE live.affected
         /\ live'.evidence = IF facts THEN live.evidence \cup {row[2]} ELSE live.evidence
<1>1. live \in Memories
  BY DEF Typed
<1>2. row[1] \in Horizons /\ row[2] \in Resources
  OBVIOUS
<1> DEFINE a == IF facts THEN live.affected \cup {row[1]} ELSE live.affected
           e == IF facts THEN live.evidence \cup {row[2]} ELSE live.evidence
           d == live.todo \ {row}
<1>3. a \in SUBSET Horizons /\ e \in SUBSET Resources
      /\ d \in SUBSET (Horizons \X Resources)
  BY <1>1, <1>2 DEF Memories
<1>4. live' = [live EXCEPT !.pc = "rows", !.answer = "none", !.row = <<0, 0>>,
                           !.todo = d, !.affected = a, !.evidence = e]
  BY DEF Settle
<1> HIDE DEF a, e, d
<1>5. live' \in Memories /\ live'.pc = "rows" /\ live'.todo = d
      /\ live'.affected = a /\ live'.evidence = e
  BY <1>1, <1>3, <1>4, Zenon DEF Memories, Answers
<1> QED
  BY <1>5 DEF a, e, d

\* A step of the supplement keeps the types, whatever a lost process
\* forgets.
LEMMA SupplementMovesTyped ==
  ASSUME ResearchLoopAssumption, Typed, SupplementMoves
  PROVE  Typed'
<1>1. CASE StartSupplement
  <2>1. [Idle EXCEPT !.pc = "rows", !.todo = Rows] \in Memories
    <3>1. Rows \in SUBSET (Horizons \X Resources)
      BY DEF Rows
    <3> HIDE DEF Rows
    <3> QED
      BY <3>1 DEF Idle, Memories, Answers
  <2>2. [Idle EXCEPT !.pc = "rows", !.todo = Rows].pc = "rows"
    BY DEF Idle
  <2>3. /\ live' \in Memories /\ live'.pc = "rows" /\ att' = att + 1
        /\ st' = [st EXCEPT ![Supplement] = "running"]
        /\ UNCHANGED <<out, started, done, asked>>
    BY <1>1, <2>1, <2>2 DEF StartSupplement
  <2> QED
    BY <2>3, Members DEF Typed, Statuses
<1>2. CASE PassRow
  <2>1. \E facts \in BOOLEAN : Settle(Row, facts)
    BY <1>2 DEF PassRow
  <2>2. live' \in Memories /\ live'.pc = "rows"
    BY <1>2, <2>1, RowIsToDo, SettleStep DEF PassRow
  <2> QED
    BY <1>2, <2>2 DEF Typed, PassRow
<1>3. CASE StartRow
  <2>1. Row \in live.todo /\ Row \in Horizons \X Resources /\ Row[2] \in Resources
    BY <1>3, RowIsToDo DEF StartRow
  <2> HIDE DEF Row
  <2>2. live' = [live EXCEPT !.pc = "asking", !.row = Row] /\ live.pc = "rows"
        /\ started' = started \cup {Row[2]} /\ UNCHANGED <<st, out, done, att, asked>>
    BY <1>3 DEF StartRow
  <2>3. live' \in Memories /\ live'.pc = "asking" /\ live'.row = Row /\ live'.todo = live.todo
    BY <2>1, <2>2 DEF Typed, Memories
  <2> QED
    BY <2>1, <2>2, <2>3 DEF Typed
<1>4. CASE Acquire
  <2>1. PICK answer \in {"facts", "nothing", "failed"} :
          live' = [live EXCEPT !.pc = "answered", !.answer = answer]
    BY <1>4 DEF Acquire
  <2>2. live' \in Memories /\ live'.pc = "answered" /\ live'.row = live.row
        /\ live'.todo = live.todo /\ live'.answer # "none"
    BY <2>1 DEF Typed, Memories, Answers
  <2>3. live.row[2] \in Resources
    BY <1>4 DEF Acquire, Typed, Memories
  <2>4. asked' \in [Resources -> Nat]
    BY <1>4, <2>3 DEF Acquire, Typed
  <2> QED
    BY <1>4, <2>2, <2>4 DEF Acquire, Typed
<1>5. CASE Dispose
  <2>1. live.row \in Horizons \X Resources /\ live.row[2] \in Resources
    BY <1>5 DEF Dispose, Typed, Memories
  <2>2. live' \in Memories /\ live'.pc = "rows"
    BY <1>5, <2>1, SettleStep DEF Dispose
  <2>3. live.answer \in Answers /\ att \in Nat
    BY DEF Typed, Memories
  <2>4. done' \in [Resources -> [answer : Answers, att : Nat]]
    BY <1>5, <2>1, <2>3 DEF Dispose, Typed
  <2> QED
    BY <1>5, <2>2, <2>4 DEF Dispose, Typed
<1>6. CASE FinishSupplement
  <2>1. live' = Idle /\ UNCHANGED <<started, done, att, asked>>
        /\ st' = [st EXCEPT ![Supplement] = "succeeded"]
    BY <1>6 DEF FinishSupplement, Publish
  <2>2. out' = [m \in Nodes |-> out'[m]]
    BY <1>6 DEF FinishSupplement, Publish, Typed
  <2> QED
    BY <2>1, <2>2, IdleIsMemory, Members DEF Typed, Statuses
<1>7. CASE PutOff
  BY <1>7, IdleIsMemory, Members DEF PutOff, Typed, Statuses
<1>8. CASE RefuseSupplement \/ LoseSupplement
  <2>1. live' = Idle /\ st' = Closing(Supplement) /\ UNCHANGED <<out, started, done, att, asked>>
    BY <1>8 DEF RefuseSupplement, LoseSupplement
  <2>2. st'[Supplement] = "failed"
    BY <2>1, Members DEF Closing
  <2> QED
    BY <2>1, <2>2, IdleIsMemory, ClosingType, Members DEF Typed
<1> QED
  BY <1>1, <1>2, <1>3, <1>4, <1>5, <1>6, <1>7, <1>8 DEF SupplementMoves

\* The decision keeps the types.
LEMMA DecisionMovesTyped ==
  ASSUME Typed, DecisionMoves
  PROVE  Typed'
<1>1. UNCHANGED <<out, supplementVars>>
  BY DEF DecisionMoves, Decide, RefuseDecision
<1>2. st[Decision] = "queued" /\ Decision # Supplement /\ Decision \in Nodes
  BY Names, Members DEF DecisionMoves, Decide, RefuseDecision, Ready
<1>3. st' \in [Nodes -> Statuses]
  BY ClosingType, <1>2 DEF DecisionMoves, Decide, RefuseDecision, Typed, Statuses
<1>4. st'[Supplement] = "running" <=> st[Supplement] = "running"
  BY <1>2, Members DEF DecisionMoves, Decide, RefuseDecision, Typed, Closing
<1> QED
  BY <1>1, <1>3, <1>4 DEF Typed, supplementVars

\* What a step is.
LEMMA NextMoves ==
  ASSUME [Next]_vars
  PROVE  NodeMoves \/ SupplementMoves \/ DecisionMoves \/ UNCHANGED vars
  BY DEF Next, NodeMoves, SupplementMoves, DecisionMoves

\* Every step keeps the types.
LEMMA NextTyped ==
  ASSUME ResearchLoopAssumption, Typed, [Next]_vars
  PROVE  Typed'
<1>1. CASE UNCHANGED vars
  BY <1>1 DEF vars, Typed
<1> QED
  BY <1>1, NextMoves, NodeMovesTyped, SupplementMovesTyped, DecisionMovesTyped

\* The types hold at first.
LEMMA InitTyped ==
  ASSUME Init
  PROVE  Typed
  BY IdleIsMemory, Members DEF Init, Typed, Statuses, Answers

\* Every variable has its type, in any Run.
THEOREM TypesHold == ResearchLoopAssumption => (Spec => []Typed)
<1> SUFFICES ASSUME ResearchLoopAssumption PROVE Spec => []Typed
  OBVIOUS
<1>1. Init => Typed
  BY InitTyped
<1>2. Typed /\ [Next]_vars => Typed'
  BY NextTyped
<1> QED
  BY <1>1, <1>2, PTL DEF Spec

------------------------------------------------------------------------------
(***************************************************************************)
(* One request for a resource.                                             *)
(***************************************************************************)
\* A resource is asked for between its durable start and its disposition, and
\* no start is made twice.
Asking ==
  /\ \A r \in Resources : asked[r] <= 1 /\ (asked[r] > 0 => r \in started)
  /\ live.pc = "asking" => live.row[2] \in started /\ asked[live.row[2]] = 0
  /\ Cardinality(started) <= MaxResources

\* No step opens a row twice, or asks for more resources than its budget
\* has.
LEMMA AskingKept ==
  ASSUME ResearchLoopAssumption, Typed, Asking, [Next]_vars
  PROVE  Asking'
<1>0. IsFiniteSet(Resources) /\ IsFiniteSet(started) /\ MaxResources \in Nat
  BY FS_Subset DEF ResearchLoopAssumption, Typed
<1>1. CASE UNCHANGED <<started, asked>> /\ live'.pc # "asking"
  BY <1>1 DEF Asking
<1>2. CASE UNCHANGED <<started, asked, live>>
  BY <1>2 DEF Asking
<1>3. CASE StartRow
  <2>1. Row \in live.todo /\ Row[2] \in Resources
    BY <1>3, RowIsToDo DEF StartRow
  <2> HIDE DEF Row
  <2>2. Row[2] \notin started /\ started' = started \cup {Row[2]} /\ UNCHANGED asked
        /\ Cardinality(started) < MaxResources
    <3>1. Cardinality(started) \in Nat
      BY <1>0, FS_CardinalityType
    <3> QED
      BY <1>0, <1>3, <3>1 DEF StartRow, InDoubt, Exhausted
  <2>3. live'.pc = "asking" /\ live'.row = Row
    BY <1>3 DEF StartRow, Typed, Memories
  <2>4. asked[Row[2]] = 0
    BY <2>1, <2>2 DEF Asking, Typed
  <2>5. Cardinality(started') = Cardinality(started) + 1
    BY <1>0, <2>2, FS_AddElement
  <2>6. Cardinality(started) \in Nat
    BY <1>0, FS_CardinalityType
  <2>7. Cardinality(started') <= MaxResources
    BY <1>0, <2>2, <2>5, <2>6
  <2> QED
    BY <2>2, <2>3, <2>4, <2>7 DEF Asking
<1>4. CASE Acquire
  <2>1. live.row[2] \in Resources /\ live.row[2] \in started /\ asked[live.row[2]] = 0
    BY <1>4 DEF Acquire, Asking, Typed, Memories
  <2>2. asked' = [asked EXCEPT ![live.row[2]] = @ + 1] /\ UNCHANGED started
    BY <1>4 DEF Acquire
  <2>3. live'.pc = "answered"
    BY <1>4 DEF Acquire, Typed, Memories
  <2> QED
    BY <2>1, <2>2, <2>3 DEF Asking, Typed
<1>5. CASE PassRow \/ Dispose
  <2>1. \E row \in Horizons \X Resources, facts \in BOOLEAN : Settle(row, facts)
    BY <1>5, RowIsToDo DEF PassRow, Dispose, Typed, Memories
  <2> QED
    BY <1>1, <1>5, <2>1, SettleStep DEF PassRow, Dispose
<1>6. CASE StartSupplement
  BY <1>1, <1>6 DEF StartSupplement, Idle
<1>7. CASE FinishSupplement \/ RefuseSupplement \/ PutOff \/ LoseSupplement
  BY <1>1, <1>7, IdleIsMemory DEF FinishSupplement, RefuseSupplement, PutOff, LoseSupplement
<1>8. CASE NodeMoves \/ DecisionMoves
  BY <1>2, <1>8 DEF NodeMoves, DecisionMoves, Skip, Stop, Research, FailNode, Decide,
                    RefuseDecision, supplementVars
<1>9. CASE UNCHANGED vars
  BY <1>2, <1>9 DEF vars
<1> QED
  BY <1>3, <1>4, <1>5, <1>6, <1>7, <1>8, <1>9, NextMoves DEF SupplementMoves

\* Nothing is open at first.
LEMMA AskingInitially ==
  ASSUME ResearchLoopAssumption, Init
  PROVE  Asking
  BY IdleIsMemory, FS_EmptySet DEF Init, Asking, ResearchLoopAssumption

\* A resource that was asked for was opened, and what was opened is in the
\* budget.
LEMMA AskingHolds ==
  ASSUME ResearchLoopAssumption, Typed, Asking
  PROVE  AskedOnce
<1>1. IsFiniteSet(started) /\ MaxResources \in Nat
  BY FS_Subset DEF ResearchLoopAssumption, Typed
<1> DEFINE A == {r \in Resources : asked[r] > 0}
<1>2. A \subseteq started
  BY DEF Asking
<1>3. IsFiniteSet(A) /\ Cardinality(A) <= Cardinality(started)
  <2> HIDE DEF A
  <2> QED
    BY <1>1, <1>2, FS_Subset
<1>4. Cardinality(A) \in Nat /\ Cardinality(started) \in Nat
  <2> HIDE DEF A
  <2> QED
    BY <1>1, <1>3, FS_CardinalityType
<1>5. Cardinality(A) <= MaxResources
  <2> HIDE DEF A
  <2> QED
    BY <1>1, <1>3, <1>4 DEF Asking
<1> QED
  BY <1>5 DEF AskedOnce, Asking

\* Over all attempts of the supplement, all horizons, crashes and lost run logs,
\* a resource is asked for at most once, and at most MaxResources of them are.
THEOREM AskedAtMostOnce == ResearchLoopAssumption => (Spec => []AskedOnce)
<1> SUFFICES ASSUME ResearchLoopAssumption PROVE Spec => []AskedOnce
  OBVIOUS
<1>1. Init => Typed /\ Asking
  BY InitTyped, AskingInitially
<1>2. Typed /\ Asking /\ [Next]_vars => (Typed /\ Asking)'
  BY NextTyped, AskingKept
<1>3. Typed /\ Asking => AskedOnce
  BY AskingHolds
<1> QED
  BY <1>1, <1>2, <1>3, PTL DEF Spec

------------------------------------------------------------------------------
(***************************************************************************)
(* What is settled before a node.                                          *)
(***************************************************************************)
Before(k) ==
  FirstRound \cup Pairs(1) \cup {Synthesizer(j) : j \in 0 .. k} \cup {Reviewer(j) : j \in 0 .. k}

\* The nodes before each kind of node.
LEMMA AncestorSets ==
  /\ \A h : /\ Ancestors(Analyst(h, 0)) = {}
            /\ Ancestors(Analyst(h, 1)) = FirstRound
            /\ Ancestors(Critic(h, 0)) = {Analyst(h, 0)}
            /\ Ancestors(Critic(h, 1)) = {Analyst(h, 1)} \cup FirstRound
  /\ Ancestors(Supplement) = Pairs(0)
  /\ \A k : /\ Ancestors(Synthesizer(k)) = Before(k - 1)
            /\ Ancestors(Reviewer(k)) = Before(k - 1) \cup {Synthesizer(k)}
  /\ Ancestors(Decision) = Before(MaxRevisions)
<1> HIDE DEF FirstRound
<1> QED
  BY Names DEF Ancestors, Before

\* And those it waits for.
LEMMA ParentSets ==
  /\ \A h : /\ Parents(Analyst(h, 1)) = {Supplement}
            /\ Parents(Critic(h, 0)) = {Analyst(h, 0)}
            /\ Parents(Critic(h, 1)) = {Analyst(h, 1), Supplement}
  /\ Parents(Supplement) = Pairs(0)
  /\ Parents(Synthesizer(0)) = Pairs(0) \cup Pairs(1)
  /\ \A k : k # 0 => Parents(Synthesizer(k)) = Pairs(0) \cup Pairs(1) \cup {Reviewer(k - 1)}
  /\ \A k : Parents(Reviewer(k)) = {Synthesizer(k)}
  /\ Parents(Decision) = {Reviewer(MaxRevisions)}
  BY Names DEF Parents

\* The layers are in the closure of the edges.
LEMMA Closure ==
  ASSUME ResearchLoopAssumption, NEW n \in Nodes, NEW p \in Ancestors(n)
  PROVE  p \in Parents(n) \/ \E q \in Parents(n) : p \in Ancestors(q)
<1> DEFINE Goal == p \in Parents(n) \/ \E q \in Parents(n) : p \in Ancestors(q)
<1>0. Horizons # {} /\ MaxRevisions \in Nat
  BY DEF ResearchLoopAssumption
<1>1. FirstRound = Pairs(0) \cup {Supplement}
  BY DEF FirstRound
<1>2. ASSUME NEW h \in Horizons, NEW r \in Rounds, n = Analyst(h, r)
      PROVE  Goal
  BY <1>1, <1>2, AncestorSets, ParentSets DEF Rounds
<1>3. ASSUME NEW h \in Horizons, NEW r \in Rounds, n = Critic(h, r)
      PROVE  Goal
  BY <1>1, <1>3, AncestorSets, ParentSets DEF Rounds
<1>4. ASSUME NEW k \in Revisions, n = Synthesizer(k)
      PROVE  Goal
  <2>1. CASE p \in FirstRound \cup Pairs(1)
    <3>1. PICK h \in Horizons : TRUE
      BY <1>0
    <3>2. Analyst(h, 1) \in Parents(n) /\ Pairs(0) \cup Pairs(1) \subseteq Parents(n)
      BY <1>4, ParentSets DEF Pairs, Revisions
    <3>3. Supplement \in Ancestors(Analyst(h, 1))
      BY <1>1, AncestorSets
    <3> QED
      BY <1>1, <2>1, <3>2, <3>3
  <2>2. CASE p \notin FirstRound \cup Pairs(1)
    <3>1. PICK j \in 0 .. (k - 1) : p = Synthesizer(j) \/ p = Reviewer(j)
      BY <1>4, <2>2, AncestorSets DEF Before
    <3>2. k # 0 /\ k \in Int
      BY <1>0, <3>1 DEF Revisions
    <3>3. Reviewer(k - 1) \in Parents(n)
      BY <1>4, <3>2, ParentSets
    <3>4. j = k - 1 \/ j \in 0 .. (k - 2)
      BY <3>1, <3>2
    <3>5. CASE j = k - 1
      BY <3>1, <3>3, <3>5, AncestorSets
    <3>6. CASE j \in 0 .. (k - 2)
      <4>1. (k - 1) - 1 = k - 2
        BY <3>2
      <4>2. p \in Before(k - 2)
        BY <3>1, <3>6 DEF Before
      <4>3. Before(k - 2) \subseteq Ancestors(Reviewer(k - 1))
        BY <4>1, AncestorSets
      <4> QED
        BY <3>3, <4>2, <4>3
    <3> QED
      BY <3>4, <3>5, <3>6
  <2> QED
    BY <2>1, <2>2
<1>5. ASSUME NEW k \in Revisions, n = Reviewer(k)
      PROVE  Goal
  BY <1>5, AncestorSets, ParentSets
<1>6. CASE n = Supplement
  BY <1>6, AncestorSets, ParentSets
<1>7. CASE n = Decision
  <2>1. Reviewer(MaxRevisions) \in Parents(n)
    BY <1>7, ParentSets
  <2>2. p = Reviewer(MaxRevisions) \/ p \in Ancestors(Reviewer(MaxRevisions))
    <3>1. CASE p \in FirstRound \cup Pairs(1)
      BY <3>1, AncestorSets DEF Before
    <3>2. CASE p \notin FirstRound \cup Pairs(1)
      <4>1. PICK j \in 0 .. MaxRevisions : p = Synthesizer(j) \/ p = Reviewer(j)
        BY <1>7, <3>2, AncestorSets DEF Before
      <4>2. j = MaxRevisions \/ j \in 0 .. (MaxRevisions - 1)
        BY <1>0, <4>1
      <4> QED
        BY <4>1, <4>2, AncestorSets DEF Before
    <3> QED
      BY <3>1, <3>2
  <2> QED
    BY <2>1, <2>2
<1> QED
  BY <1>2, <1>3, <1>4, <1>5, <1>6, <1>7, NodeKinds

\* Both lead to nodes only.
LEMMA ParentsAreNodes ==
  ASSUME ResearchLoopAssumption, NEW n \in Nodes, NEW p \in Parents(n)
  PROVE  p \in Nodes
<1>1. \A j \in Nat, k \in Revisions : j <= k => j \in Revisions
  BY DEF Revisions, ResearchLoopAssumption
<1>2. \A k \in Revisions : k = 0 \/ k - 1 \in Revisions
  BY DEF Revisions, ResearchLoopAssumption
<1>3. MaxRevisions \in Revisions
  BY DEF Revisions, ResearchLoopAssumption
<1>4. Pairs(0) \cup Pairs(1) \subseteq Nodes
  BY DEF Nodes
<1>5. \A h : Parents(Analyst(h, 0)) = {}
  BY Names DEF Parents
<1> QED
  BY <1>2, <1>3, <1>4, <1>5, NodeKinds, ParentSets, Members DEF Rounds

\* What a node reads are nodes of the workflow.
LEMMA AncestorsAreNodes ==
  ASSUME ResearchLoopAssumption, NEW n \in Nodes, NEW p \in Ancestors(n)
  PROVE  p \in Nodes
<1>1. \A k \in Revisions : \A j \in 0 .. k : j \in Revisions
  BY DEF Revisions, ResearchLoopAssumption
<1>2. \A k \in Revisions : \A j \in 0 .. (k - 1) : j \in Revisions
  BY DEF Revisions, ResearchLoopAssumption
<1>3. MaxRevisions \in Revisions
  BY DEF Revisions, ResearchLoopAssumption
<1>4. FirstRound \cup Pairs(1) \subseteq Nodes /\ Pairs(0) \subseteq Nodes
  BY DEF Nodes, FirstRound
<1>5. \A k \in Revisions : Before(k) \subseteq Nodes /\ Before(k - 1) \subseteq Nodes
  BY <1>1, <1>2, <1>4, Members DEF Before
<1> QED
  BY <1>3, <1>4, <1>5, NodeKinds, AncestorSets, Members DEF Rounds

Passed(n) == st[n] \in Settled \cup {"running"}

\* A node that is settled or at work has everything before it settled, and only
\* what is settled has an output.
Layered ==
  /\ \A n \in Nodes : st[n] \in Settled \cup {"running"} =>
       \A p \in Ancestors(n) : st[p] \in Settled
  /\ \A n \in Nodes : /\ st[n] = "running" => n = Supplement
                      /\ st[n] # "succeeded" => out[n] = Nothing

\* A step settles one node, or it leaves what is settled alone.
Settles(n) ==
  /\ Ready(n) \/ st[n] = "running"
  /\ st'[n] \in Settled /\ (st'[n] = "skipped" => out'[n] = out[n])
  /\ \A m \in Nodes : m # n => st'[m] = st[m] /\ out'[m] = out[m]

Stands ==
  /\ out' = out
  /\ \A m \in Nodes : /\ st'[m] \in Settled <=> st[m] \in Settled
                      /\ st[m] \in Settled => st'[m] = st[m]
                      /\ st'[m] = "running" => Passed(m) \/ (m = Supplement /\ Ready(m))

\* No step settles two nodes, or changes one that is settled.
LEMMA StepSettles ==
  ASSUME Typed, Layered, [Next]_vars
  PROVE  Stands \/ \E n \in Nodes : Settles(n)
<1>0. /\ st \in [Nodes -> Statuses]
      /\ out = [n \in Nodes |-> out[n]]
      /\ Supplement \in Nodes /\ Decision \in Nodes
  BY Members DEF Typed
<1>1. ASSUME NEW n \in Nodes, Ready(n) \/ st[n] = "running", NEW o, Publish(n, o)
      PROVE  Settles(n)
  BY <1>0, <1>1 DEF Publish, Settles, Settled
<1>2. ASSUME NEW n \in Nodes, st[n] \notin Settled, st' = Closing(n), out' = out
      PROVE  Stands
  <2>1. \A m \in Nodes : \/ st'[m] = st[m]
                         \/ st[m] \notin Settled /\ st'[m] \in {"failed", "cancelled"}
    BY <1>0, <1>2 DEF Closing, Settled
  <2> QED
    BY <1>2, <2>1 DEF Stands, Settled, Passed
<1>3. CASE UNCHANGED <<st, out>>
  BY <1>3 DEF Stands, Passed
<1>4. CASE NodeMoves
  <2>1. PICK n \in Researchers : Skip(n) \/ Stop(n) \/ Research(n) \/ FailNode(n)
    BY <1>4 DEF NodeMoves
  <2>2. n \in Nodes
    BY DEF Researchers
  <2>3. CASE Skip(n)
    BY <1>0, <2>2, <2>3 DEF Skip, Settles, Settled
  <2>4. CASE Stop(n) \/ Research(n)
    BY <1>1, <2>2, <2>4 DEF Stop, Research
  <2>5. CASE FailNode(n)
    BY <1>2, <2>2, <2>5 DEF FailNode, Ready, Settled
  <2> QED
    BY <2>1, <2>2, <2>3, <2>4, <2>5
<1>5. CASE StartSupplement
  BY <1>0, <1>5 DEF StartSupplement, Stands, Ready, Settled, Passed
<1>6. CASE PassRow \/ StartRow \/ Acquire \/ Dispose
  BY <1>3, <1>6 DEF PassRow, StartRow, Acquire, Dispose
<1>7. CASE FinishSupplement
  <2>1. st[Supplement] = "running"
    BY <1>7 DEF FinishSupplement, Typed
  <2> QED
    BY <1>0, <1>1, <1>7, <2>1 DEF FinishSupplement
<1>8. CASE PutOff
  <2>1. st[Supplement] = "running"
    BY <1>8 DEF PutOff, Typed
  <2> QED
    BY <1>0, <1>8, <2>1 DEF PutOff, Stands, Settled, Passed
<1>9. CASE RefuseSupplement \/ LoseSupplement
  <2>1. st[Supplement] = "running"
    BY <1>9 DEF RefuseSupplement, LoseSupplement, Typed
  <2> QED
    BY <1>0, <1>2, <1>9, <2>1 DEF RefuseSupplement, LoseSupplement, Settled
<1>10. CASE Decide
  BY <1>0, <1>10 DEF Decide, Settles, Settled
<1>11. CASE RefuseDecision
  BY <1>0, <1>2, <1>11 DEF RefuseDecision, Ready, Settled
<1>12. CASE UNCHANGED vars
  BY <1>3, <1>12 DEF vars
<1> QED
  BY <1>4, <1>5, <1>6, <1>7, <1>8, <1>9, <1>10, <1>11, <1>12, NextMoves
     DEF SupplementMoves, DecisionMoves

\* Everything before a node that is ready is settled.
LEMMA ReadyBehind ==
  ASSUME ResearchLoopAssumption, Layered, NEW n \in Nodes, Ready(n) \/ Passed(n),
         NEW p \in Ancestors(n)
  PROVE  st[p] \in Settled
<1>1. CASE Passed(n)
  BY <1>1 DEF Layered, Passed
<1>2. CASE Ready(n)
  <2>1. \A q \in Parents(n) : st[q] \in Settled
    BY <1>2 DEF Ready
  <2>2. \A q \in Parents(n) : q \in Nodes
    BY ParentsAreNodes
  <2> QED
    BY <2>1, <2>2, Closure DEF Layered
<1> QED
  BY <1>1, <1>2

\* No step settles a node before those it reads, or gives one an output
\* that failed.
LEMMA LayeredKept ==
  ASSUME ResearchLoopAssumption, Typed, Layered, [Next]_vars
  PROVE  Layered'
<1>1. \A n \in Nodes : \A p \in Ancestors(n) : p \in Nodes
  BY AncestorsAreNodes
<1>2. CASE Stands
  <2>1. ASSUME NEW n \in Nodes, st'[n] \in Settled \cup {"running"}, NEW p \in Ancestors(n)
        PROVE  st'[p] \in Settled
    <3>1. Ready(n) \/ Passed(n)
      BY <1>2, <2>1 DEF Stands, Passed
    <3>2. st[p] \in Settled
      BY <3>1, ReadyBehind
    <3> QED
      BY <1>1, <1>2, <3>2 DEF Stands
  <2>2. ASSUME NEW n \in Nodes
        PROVE  /\ st'[n] = "running" => n = Supplement
               /\ st'[n] # "succeeded" => out'[n] = Nothing
    BY <1>2 DEF Stands, Passed, Layered, Settled
  <2> QED
    BY <2>1, <2>2 DEF Layered
<1>3. ASSUME NEW m \in Nodes, Settles(m)
      PROVE  Layered'
  <2>1. ASSUME NEW n \in Nodes, st'[n] \in Settled \cup {"running"}, NEW p \in Ancestors(n)
        PROVE  st'[p] \in Settled
    <3>1. Ready(n) \/ Passed(n)
      BY <1>3, <2>1 DEF Settles, Passed
    <3>2. st[p] \in Settled
      BY <3>1, ReadyBehind
    <3> QED
      BY <1>1, <1>3, <3>2 DEF Settles
  <2>2. ASSUME NEW n \in Nodes
        PROVE  /\ st'[n] = "running" => n = Supplement
               /\ st'[n] # "succeeded" => out'[n] = Nothing
    BY <1>3 DEF Settles, Layered, Settled, Ready
  <2> QED
    BY <2>1, <2>2 DEF Layered
<1> QED
  BY <1>2, <1>3, StepSettles

\* Nothing is settled at first.
LEMMA LayeredInitially ==
  ASSUME Init
  PROVE  Layered
  BY DEF Init, Layered, Settled

------------------------------------------------------------------------------
(***************************************************************************)
(* The revisions.                                                          *)
(***************************************************************************)
\* What the nodes of an earlier revision are to a later one.
LEMMA BeforeHas ==
  ASSUME NEW j \in Nat, NEW k \in Int
  PROVE  /\ Synthesizer(j) \in Before(k) <=> j <= k
         /\ Reviewer(j) \in Before(k) <=> j <= k
<1>1. \A m \in FirstRound \cup Pairs(1) : Role(m) \notin {"synthesizer", "reviewer"}
  BY Names DEF FirstRound, Pairs
<1>2. j \in 0 .. k <=> j <= k
  OBVIOUS
<1> HIDE DEF FirstRound, Pairs
<1>3. Synthesizer(j) \in Before(k) <=> \E i \in 0 .. k : Synthesizer(j) = Synthesizer(i)
  BY <1>1, Names DEF Before
<1>4. Reviewer(j) \in Before(k) <=> \E i \in 0 .. k : Reviewer(j) = Reviewer(i)
  BY <1>1, Names DEF Before
<1> QED
  BY <1>2, <1>3, <1>4, Names

\* Revisions are the numbers up to their bound.
LEMMA Revisable ==
  ASSUME ResearchLoopAssumption
  PROVE  Revisions \subseteq Nat /\ MaxRevisions \in Revisions /\ 0 \in Revisions
         /\ MaxRevisions \in Nat /\ (\A k \in Revisions : k <= MaxRevisions)
  BY DEF ResearchLoopAssumption, Revisions

\* A node of a revision reads every earlier revision, and a review its proposal.
LEMMA ReadsEarlier ==
  ASSUME ResearchLoopAssumption, NEW j \in Revisions, NEW k \in Revisions
  PROVE  /\ Synthesizer(j) \in Ancestors(Synthesizer(k)) <=> j < k
         /\ Reviewer(j) \in Ancestors(Synthesizer(k)) <=> j < k
         /\ Synthesizer(j) \in Ancestors(Reviewer(k)) <=> j <= k
         /\ Reviewer(j) \in Ancestors(Reviewer(k)) <=> j < k
         /\ Synthesizer(j) \in Ancestors(Decision) /\ Reviewer(j) \in Ancestors(Decision)
<1>1. j \in Nat /\ k \in Nat /\ k - 1 \in Int /\ j <= MaxRevisions /\ MaxRevisions \in Int
  BY Revisable
<1>2. j <= k - 1 <=> j < k
  BY <1>1
<1>3. Synthesizer(j) = Synthesizer(k) <=> j = k
  BY Names
<1>4. Reviewer(j) # Synthesizer(k)
  BY Names
<1>5. j <= k <=> j < k \/ j = k
  BY <1>1
<1> QED
  BY <1>1, <1>2, <1>3, <1>4, <1>5, BeforeHas, AncestorSets

\* The nodes of revision k.
OfRevision(k) == {Synthesizer(k), Reviewer(k)}

\* The outputs of a revision are what their nodes submit.
Shaped ==
  \A k \in Revisions :
    /\ st[Synthesizer(k)] = "succeeded" => out[Synthesizer(k)].kind \in {"proposal", "stop"}
    /\ st[Reviewer(k)] = "succeeded" => out[Reviewer(k)].kind = "review"

\* Revision j ends the revisions.
Ends(j) ==
  \/ out[Reviewer(j)].kind = "review" /\ Accepted(j)
  \/ out[Synthesizer(j)].kind = "stop"

NothingAfter ==
  \A j, k \in Revisions :
    j < k /\ Ends(j) => out[Synthesizer(k)] = Nothing /\ out[Reviewer(k)] = Nothing

\* Where the revisions were stopped none was accepted.
StoppedUnaccepted ==
  \A j, k \in Revisions :
    out[Synthesizer(j)].kind = "stop" /\ out[Reviewer(k)].kind = "review" => ~Accepted(k)

\* The first proposal is never skipped, nor its review.
FirstReviewed ==
  st[Reviewer(0)] # "skipped" /\ out[Synthesizer(0)].kind # "stop"

DecidedAccepted ==
  decided # -1 => /\ st[Decision] = "succeeded" /\ decided \in Revisions
                  /\ out[Reviewer(decided)].kind = "review" /\ Accepted(decided)

RevisionsInv ==
  Shaped /\ NothingAfter /\ StoppedUnaccepted /\ FirstReviewed /\ DecidedAccepted

\* With the reviews in order nothing is proposed after one that accepts.
LEMMA AcceptedFollows ==
  ASSUME RevisionsInv
  PROVE  AcceptedIsFinal
  BY DEF RevisionsInv, NothingAfter, Ends, StoppedUnaccepted, DecidedAccepted,
         AcceptedIsFinal

\* Who writes the output of a revision, and when.
Writes(n) ==
  /\ Ready(n) /\ ~Over(n) /\ st'[n] = "succeeded"
  /\ \A m \in Nodes : m # n => out'[m] = out[m] /\ st'[m] = st[m]
  /\ \/ Stagnated(n) /\ out'[n] = [kind |-> "stop"]
     \/ /\ ~Stagnated(n) /\ ~Unaffected(n) /\ ~Unremarkable(n)
        /\ out'[n] \in Submissions(n)

\* The output of a researcher is only written by it, and with its success.
LEMMA WriterStep ==
  ASSUME Typed, Layered, [Next]_vars, NEW n \in Nodes, n # Supplement, n # Decision,
         out'[n] # out[n] \/ (st'[n] = "succeeded" /\ st[n] # "succeeded")
  PROVE  Writes(n)
<1>0. out = [m \in Nodes |-> out[m]] /\ st \in [Nodes -> Statuses]
  BY DEF Typed
<1>1. CASE NodeMoves
  <2>1. PICK m \in Researchers : Skip(m) \/ Stop(m) \/ Research(m) \/ FailNode(m)
    BY <1>1 DEF NodeMoves
  <2>2. m \in Nodes
    BY DEF Researchers
  <2>3. ~Skip(m) /\ ~FailNode(m)
    BY <1>0, <2>2 DEF Skip, FailNode, Closing
  <2>4. PICK o : Publish(m, o) /\ \/ Stop(m) /\ o = [kind |-> "stop"]
                                  \/ Research(m) /\ o \in Submissions(m)
    BY <2>1, <2>3 DEF Stop, Research
  <2>5. m = n
    BY <1>0, <2>4 DEF Publish
  <2>6. Ready(n) /\ ~Over(n)
    BY <2>4, <2>5 DEF Stop, Research
  <2>7. st'[n] = "succeeded" /\ out'[n] = o
        /\ \A q \in Nodes : q # n => out'[q] = out[q] /\ st'[q] = st[q]
    BY <1>0, <2>4, <2>5 DEF Publish
  <2> QED
    BY <2>4, <2>5, <2>6, <2>7 DEF Writes, Stop, Research
<1>2. CASE SupplementMoves
  <2>1. out'[n] = out[n]
    BY <1>0, <1>2 DEF SupplementMoves, StartSupplement, PassRow, StartRow, Acquire, Dispose,
         FinishSupplement, RefuseSupplement, PutOff, LoseSupplement, Publish
  <2>2. st'[n] = st[n] \/ st'[n] = Closing(Supplement)[n]
    BY <1>0, <1>2 DEF SupplementMoves, StartSupplement, PassRow, StartRow, Acquire, Dispose,
         FinishSupplement, RefuseSupplement, PutOff, LoseSupplement, Publish
  <2> QED
    BY <2>1, <2>2 DEF Closing
<1>3. CASE DecisionMoves
  BY <1>0, <1>3 DEF DecisionMoves, Decide, RefuseDecision, Closing
<1>4. CASE UNCHANGED vars
  BY <1>4 DEF vars
<1> QED
  BY <1>1, <1>2, <1>3, <1>4, NextMoves

\* Who is skipped.
LEMMA SkipStep ==
  ASSUME Typed, [Next]_vars, NEW n \in Nodes, st'[n] = "skipped", st[n] # "skipped"
  PROVE  Skip(n) /\ n \in Researchers
<1>0. st \in [Nodes -> Statuses]
  BY DEF Typed
<1>1. CASE NodeMoves
  <2>1. PICK m \in Researchers : Skip(m) \/ Stop(m) \/ Research(m) \/ FailNode(m)
    BY <1>1 DEF NodeMoves
  <2>2. ~FailNode(m)
    BY <1>0 DEF FailNode, Closing
  <2>3. ~Stop(m) /\ ~Research(m)
    BY <1>0 DEF Stop, Research, Publish
  <2> QED
    BY <1>0, <2>1, <2>2, <2>3 DEF Skip
<1>2. CASE SupplementMoves
  <2>1. \/ st'[n] = st[n] \/ st'[n] = Closing(Supplement)[n]
        \/ st'[n] \in {"running", "succeeded", "queued"}
    BY <1>0, <1>2 DEF SupplementMoves, StartSupplement, PassRow, StartRow, Acquire, Dispose,
         FinishSupplement, RefuseSupplement, PutOff, LoseSupplement, Publish
  <2> QED
    BY <2>1 DEF Closing
<1>3. CASE DecisionMoves
  BY <1>0, <1>3 DEF DecisionMoves, Decide, RefuseDecision, Closing
<1>4. CASE UNCHANGED vars
  BY <1>4 DEF vars
<1> QED
  BY <1>1, <1>2, <1>3, <1>4, NextMoves

\* What has an output has succeeded, and so is everything before it settled.
LEMMA OutputSettled ==
  ASSUME Layered, NEW n \in Nodes, out[n] # Nothing
  PROVE  st[n] = "succeeded" /\ \A p \in Ancestors(n) : st[p] \in Settled
  BY DEF Layered, Settled

\* The reviews that a node reads.
LEMMA ReviewsOf ==
  ASSUME ResearchLoopAssumption
  PROVE  /\ \A k \in Revisions : \A n \in OfRevision(k) :
              Reviews(n) = {j \in Revisions : st[Reviewer(j)] = "succeeded" /\ j < k}
         /\ Reviews(Decision) = {j \in Revisions : st[Reviewer(j)] = "succeeded"}
  BY ReadsEarlier DEF Reviews, Gives, OfRevision

\* The last of them.
LEMMA LastReview ==
  ASSUME ResearchLoopAssumption, NEW n, Reviews(n) # {}
  PROVE  /\ Max(Reviews(n)) \in Reviews(n) /\ Max(Reviews(n)) \in Revisions
         /\ \A j \in Reviews(n) : j <= Max(Reviews(n))
<1>1. Reviews(n) \in SUBSET (0 .. MaxRevisions) /\ MaxRevisions \in Nat
  BY DEF Reviews, Revisions, ResearchLoopAssumption
<1>2. Max(Reviews(n)) \in Reviews(n) /\ \A j \in Reviews(n) : j <= Max(Reviews(n))
  BY <1>1, MaxIsGreatest
<1> QED
  BY <1>1, <1>2 DEF Revisions

\* A revision that reads an accepted review, or a stop, is over.
LEMMA EndedIsOver ==
  ASSUME ResearchLoopAssumption, Layered, Shaped, NothingAfter,
         NEW j \in Revisions, NEW k \in Revisions, j < k, Ends(j), NEW n \in OfRevision(k)
  PROVE  Over(n)
<1>1. CASE out[Synthesizer(j)].kind = "stop"
  <2>1. out[Synthesizer(j)] # Nothing /\ Synthesizer(j) \in Nodes
    BY <1>1, Members DEF Nothing
  <2>2. st[Synthesizer(j)] = "succeeded"
    BY <2>1, OutputSettled
  <2>3. Synthesizer(j) \in Ancestors(n)
    BY ReadsEarlier, Revisable DEF OfRevision
  <2> QED
    BY <1>1, <2>2, <2>3 DEF Over, Stopped, Gives
<1>2. CASE out[Reviewer(j)].kind = "review" /\ Accepted(j)
  <2>1. out[Reviewer(j)] # Nothing /\ Reviewer(j) \in Nodes
    BY <1>2, Members DEF Nothing
  <2>2. st[Reviewer(j)] = "succeeded"
    BY <2>1, OutputSettled
  <2>3. j \in Reviews(n)
    BY <2>2, ReviewsOf
  <2> DEFINE l == Max(Reviews(n))
  <2>4. l \in Revisions /\ j <= l /\ l \in Reviews(n)
    BY <2>3, LastReview
  <2>5. st[Reviewer(l)] = "succeeded" /\ l < k
    BY <2>4, ReviewsOf
  <2>6. out[Reviewer(l)].kind = "review"
    BY <2>4, <2>5 DEF Shaped
  <2>7. ~ (j < l)
    BY <1>2, <2>4, <2>6 DEF NothingAfter, Ends, Nothing
  <2>8. j = l
    BY <2>4, <2>7, Revisable
  <2> QED
    BY <1>2, <2>3, <2>8 DEF Over
<1> QED
  BY <1>1, <1>2 DEF Ends

\* What the two nodes of a revision are to a step.
LEMMA RevisionNodes ==
  ASSUME NEW k \in Revisions
  PROVE  \A n \in OfRevision(k) : n \in Nodes /\ n # Supplement /\ n # Decision
  BY Members, Names DEF OfRevision

\* A Synthesizer goes on giving proposals and a Reviewer reviews.
LEMMA ShapedKept ==
  ASSUME ResearchLoopAssumption, Typed, Layered, Shaped, [Next]_vars
  PROVE  Shaped'
<1> SUFFICES ASSUME NEW k \in Revisions
             PROVE  /\ st'[Synthesizer(k)] = "succeeded" =>
                         out'[Synthesizer(k)].kind \in {"proposal", "stop"}
                    /\ st'[Reviewer(k)] = "succeeded" => out'[Reviewer(k)].kind = "review"
  BY DEF Shaped
<1>1. ASSUME NEW n \in OfRevision(k), st'[n] = "succeeded"
      PROVE  /\ n = Synthesizer(k) => out'[n].kind \in {"proposal", "stop"}
             /\ n = Reviewer(k) => out'[n].kind = "review"
  <2>0. n \in Nodes /\ n # Supplement /\ n # Decision
    BY RevisionNodes
  <2>1. CASE out'[n] = out[n] /\ st[n] = "succeeded"
    BY <2>1 DEF Shaped
  <2>2. CASE ~ (out'[n] = out[n] /\ st[n] = "succeeded")
    <3>1. Writes(n)
      BY <1>1, <2>0, <2>2, WriterStep
    <3>2. Submissions(Synthesizer(k)) = Proposals(Synthesizer(k))
          /\ Submissions(Reviewer(k)) = Assessments(Reviewer(k))
      BY Names DEF Submissions
    <3>3. ~Stagnated(Reviewer(k))
      BY Names DEF Stagnated
    <3>4. CASE n = Synthesizer(k)
      <4>1. Reviewer(k) # n
        BY <3>4, Names
      <4>2. out'[n] = [kind |-> "stop"] \/ out'[n] \in Proposals(n)
        BY <3>1, <3>2, <3>4 DEF Writes
      <4>3. \A o \in Proposals(n) : o.kind = "proposal"
        BY Zenon DEF Proposals
      <4> QED
        BY <4>1, <4>2, <4>3
    <3>5. CASE n = Reviewer(k)
      <4>1. out'[n] \in Assessments(n) /\ Synthesizer(k) # n
        BY <3>1, <3>2, <3>3, <3>5, Names DEF Writes
      <4> QED
        BY <3>5, <4>1 DEF Assessments
    <3> QED
      BY <3>4, <3>5 DEF OfRevision
  <2> QED
    BY <2>1, <2>2
<1> QED
  BY <1>1 DEF OfRevision

\* Once a later revision has an output, or the Decision is ready, a revision has
\* the output that it will keep.
LEMMA EarlierStands ==
  ASSUME ResearchLoopAssumption, Typed, Layered, [Next]_vars, NEW j \in Revisions,
         NEW n \in OfRevision(j), NEW m \in Nodes, n \in Ancestors(m), Passed(m) \/ Ready(m)
  PROVE  out'[n] = out[n]
<1>1. st[n] \in Settled
  BY ReadyBehind
<1>2. n \in Nodes /\ n # Supplement /\ n # Decision
  BY RevisionNodes
<1>3. ~Writes(n)
  BY <1>1 DEF Writes, Ready, Settled
<1> QED
  BY <1>2, <1>3, WriterStep

\* Accepted and Verdict look at one output.
LEMMA SameVerdict ==
  ASSUME NEW k \in Revisions, out'[Reviewer(k)] = out[Reviewer(k)]
  PROVE  Accepted(k)' <=> Accepted(k)
  BY DEF Accepted, Verdict

\* A review that ends the revisions leaves those after it without output.
LEMMA NothingAfterKept ==
  ASSUME ResearchLoopAssumption, Typed, Layered, Shaped, NothingAfter, [Next]_vars
  PROVE  NothingAfter'
<1> SUFFICES ASSUME NEW j \in Revisions, NEW k \in Revisions, j < k, Ends(j)',
                    NEW n \in OfRevision(k), out'[n] # Nothing
             PROVE  FALSE
  BY DEF NothingAfter, OfRevision
<1>0. n \in Nodes /\ n # Supplement /\ n # Decision
  BY RevisionNodes
<1>1. \A m \in OfRevision(j) : m \in Ancestors(n) /\ m # n
  BY ReadsEarlier, Revisable, Names DEF OfRevision
<1>2. Passed(n) \/ Ready(n)
  <2>1. CASE out'[n] = out[n]
    BY <1>0, <2>1, OutputSettled DEF Passed, Settled
  <2>2. CASE out'[n] # out[n]
    BY <1>0, <2>2, WriterStep DEF Writes
  <2> QED
    BY <2>1, <2>2
<1>3. \A m \in OfRevision(j) : out'[m] = out[m]
  BY <1>0, <1>1, <1>2, EarlierStands
<1>4. Ends(j)
  BY <1>3, SameVerdict DEF Ends, OfRevision
<1>5. out[n] = Nothing
  BY <1>4 DEF NothingAfter, OfRevision
<1>6. Writes(n)
  BY <1>0, <1>5, WriterStep
<1> QED
  BY <1>4, <1>6, EndedIsOver DEF Writes

\* A stop comes after an unaccepted review, the last there is.
LEMMA StoppedUnacceptedKept ==
  ASSUME ResearchLoopAssumption, Typed, Layered, Shaped, NothingAfter, StoppedUnaccepted,
         [Next]_vars
  PROVE  StoppedUnaccepted'
<1> SUFFICES ASSUME NEW j \in Revisions, NEW k \in Revisions,
                    out'[Synthesizer(j)].kind = "stop", out'[Reviewer(k)].kind = "review",
                    Accepted(k)'
             PROVE  FALSE
  BY DEF StoppedUnaccepted
<1> DEFINE s == Synthesizer(j)
           r == Reviewer(k)
<1>0. /\ s \in Nodes /\ s # Supplement /\ s # Decision
      /\ r \in Nodes /\ r # Supplement /\ r # Decision /\ s # r
  BY Members, Names
<1>1. CASE out'[s] = out[s] /\ out'[r] = out[r]
  BY <1>1, SameVerdict DEF StoppedUnaccepted
<1>2. CASE out'[s] # out[s]
  <2>1. Writes(s)
    BY <1>0, <1>2, WriterStep
  <2>2. out'[r] = out[r] /\ Accepted(k)
    BY <1>0, <2>1, SameVerdict DEF Writes
  <2>3. Stagnated(s)
    <3>1. Submissions(s) = Proposals(s)
      BY Names DEF Submissions
    <3>2. \A o \in Proposals(s) : o.kind = "proposal"
      BY Zenon DEF Proposals
    <3> QED
      BY <2>1, <3>1, <3>2 DEF Writes
  <2>4. st[r] = "succeeded"
    BY <1>0, <2>2, OutputSettled DEF Nothing
  <2>5. k < j
    <3>1. s \notin Ancestors(r)
      BY <1>0, <2>1, <2>4, ReadyBehind DEF Passed, Settled, Writes, Ready
    <3> QED
      BY <3>1, ReadsEarlier, Revisable
  <2>6. Ends(k)
    BY <2>2 DEF Ends
  <2>7. Over(s)
    BY <2>5, <2>6, EndedIsOver DEF OfRevision
  <2> QED
    BY <2>1, <2>7 DEF Writes
<1>3. CASE out'[r] # out[r]
  <2>1. Writes(r)
    BY <1>0, <1>3, WriterStep
  <2>2. out'[s] = out[s]
    BY <1>0, <2>1 DEF Writes
  <2>3. st[s] = "succeeded"
    BY <1>0, <2>2, OutputSettled DEF Nothing
  <2>4. r \notin Ancestors(s)
    BY <1>0, <2>1, <2>3, ReadyBehind DEF Passed, Settled, Writes, Ready
  <2>5. j <= k
    BY <2>4, ReadsEarlier, Revisable
  <2>6. s \in Ancestors(r)
    BY <2>5, ReadsEarlier
  <2>7. Over(r)
    BY <2>2, <2>3, <2>6 DEF Over, Stopped, Gives
  <2> QED
    BY <2>1, <2>7 DEF Writes
<1> QED
  BY <1>1, <1>2, <1>3

\* The first revision has nothing before it that could end the revisions.
LEMMA FirstReviewedKept ==
  ASSUME ResearchLoopAssumption, Typed, Layered, FirstReviewed, [Next]_vars
  PROVE  FirstReviewed'
<1> DEFINE s == Synthesizer(0)
           r == Reviewer(0)
<1>0. /\ s \in Nodes /\ s # Supplement /\ s # Decision
      /\ r \in Nodes /\ r # Supplement /\ r # Decision /\ 0 \in Revisions
      /\ s \in OfRevision(0) /\ r \in OfRevision(0)
  BY Members, Names, Revisable DEF OfRevision
<1>1. Reviews(s) = {} /\ Reviews(r) = {}
  BY <1>0, ReviewsOf, Revisable
<1>2. out'[s].kind # "stop"
  <2>1. CASE out'[s] = out[s]
    BY <2>1 DEF FirstReviewed
  <2>2. CASE out'[s] # out[s]
    <3>1. Writes(s)
      BY <1>0, <2>2, WriterStep
    <3>2. ~Stagnated(s)
      BY <1>1, FS_EmptySet DEF Stagnated
    <3>3. Submissions(s) = Proposals(s)
      BY Names DEF Submissions
    <3>4. \A o \in Proposals(s) : o.kind = "proposal"
      BY Zenon DEF Proposals
    <3> QED
      BY <3>1, <3>2, <3>3, <3>4 DEF Writes
  <2> QED
    BY <2>1, <2>2
<1>3. ~Over(r)
  <2>1. \A k \in Revisions : Synthesizer(k) \in Ancestors(r) => k = 0
    BY <1>0, ReadsEarlier, Revisable
  <2>2. ~Stopped(r)
    BY <2>1 DEF Stopped, Gives, FirstReviewed
  <2> QED
    BY <1>1, <2>2 DEF Over
<1>4. st'[r] # "skipped"
  <2> SUFFICES ASSUME st'[r] = "skipped" PROVE FALSE
    OBVIOUS
  <2>1. Skip(r)
    BY <1>0, SkipStep DEF FirstReviewed
  <2> QED
    BY <1>3, <2>1, Names DEF Skip, Unaffected, Unremarkable
<1> QED
  BY <1>2, <1>4 DEF FirstReviewed

\* What has succeeded, or was skipped, stays so.
LEMMA SettledStays ==
  ASSUME Typed, Layered, [Next]_vars, NEW n \in Nodes, st[n] \in Settled
  PROVE  st'[n] = st[n] /\ out'[n] = out[n]
<1>1. CASE Stands
  BY <1>1 DEF Stands
<1>2. ASSUME NEW m \in Nodes, Settles(m)
      PROVE  st'[n] = st[n] /\ out'[n] = out[n]
  BY <1>2 DEF Settles, Ready, Settled
<1> QED
  BY <1>1, <1>2, StepSettles

\* The Decision takes the last review, and there is one.
LEMMA DecidedAcceptedKept ==
  ASSUME ResearchLoopAssumption, Typed, Layered, Shaped, FirstReviewed, DecidedAccepted,
         [Next]_vars
  PROVE  DecidedAccepted'
<1>0. Decision \in Nodes
  BY Members
<1>1. CASE decided' = decided
  <2> SUFFICES ASSUME decided # -1
               PROVE  /\ st'[Decision] = "succeeded"
                      /\ out'[Reviewer(decided)].kind = "review" /\ Accepted(decided)'
    BY <1>1 DEF DecidedAccepted
  <2>1. st[Decision] = "succeeded" /\ decided \in Revisions
    BY DEF DecidedAccepted
  <2>2. st'[Decision] = "succeeded"
    BY <1>0, <2>1, SettledStays DEF Settled
  <2>3. out'[Reviewer(decided)] = out[Reviewer(decided)]
    BY <1>0, <2>1, EarlierStands, ReadsEarlier DEF OfRevision, Passed, Settled
  <2>4. Accepted(decided)' <=> Accepted(decided)
    BY <1>1, <2>1, <2>3, SameVerdict
  <2> QED
    BY <2>2, <2>3, <2>4 DEF DecidedAccepted
<1>2. CASE decided' # decided
  <2>1. Decide
    BY <1>2, NextMoves DEF NodeMoves, Skip, Stop, Research, FailNode, SupplementMoves,
         StartSupplement, PassRow, StartRow, Acquire, Dispose, FinishSupplement,
         RefuseSupplement, PutOff, LoseSupplement, DecisionMoves, RefuseDecision, vars
  <2>2. Ready(Decision) /\ st' = [st EXCEPT ![Decision] = "succeeded"] /\ out' = out
    BY <2>1 DEF Decide
  <2>3. 0 \in Revisions /\ Reviewer(0) \in Nodes
    BY Members, Revisable
  <2>4. st[Reviewer(0)] = "succeeded"
    BY <1>0, <2>2, <2>3, ReadyBehind, ReadsEarlier DEF FirstReviewed, Settled
  <2>5. Reviews(Decision) # {}
    BY <2>3, <2>4, ReviewsOf
  <2> DEFINE l == Max(Reviews(Decision))
  <2>6. l \in Revisions /\ st[Reviewer(l)] = "succeeded"
    BY <2>5, LastReview, ReviewsOf
  <2>7. Accepted(l) /\ decided' = l
    BY <2>1 DEF Decide
  <2>8. out[Reviewer(l)].kind = "review"
    BY <2>6 DEF Shaped
  <2>9. st'[Decision] = "succeeded"
    BY <1>0, <2>2 DEF Typed
  <2> HIDE DEF l
  <2>10. Accepted(decided)'
    BY <2>2, <2>7 DEF Accepted, Verdict
  <2> QED
    BY <2>2, <2>6, <2>7, <2>8, <2>9, <2>10 DEF DecidedAccepted
<1> QED
  BY <1>1, <1>2

\* Every step keeps the revisions in order.
LEMMA RevisionsKept ==
  ASSUME ResearchLoopAssumption, Typed, Layered, RevisionsInv, [Next]_vars
  PROVE  RevisionsInv'
  BY ShapedKept, NothingAfterKept, StoppedUnacceptedKept, FirstReviewedKept,
     DecidedAcceptedKept DEF RevisionsInv

\* There are no revisions at first.
LEMMA RevisionsInitially ==
  ASSUME ResearchLoopAssumption, Init
  PROVE  RevisionsInv
<1>1. \A k \in Revisions :
        /\ st[Synthesizer(k)] = "queued" /\ out[Synthesizer(k)] = Nothing
        /\ st[Reviewer(k)] = "queued" /\ out[Reviewer(k)] = Nothing
  BY Members DEF Init
<1>2. decided = -1 /\ 0 \in Revisions
  BY Revisable DEF Init
<1> QED
  BY <1>1, <1>2 DEF RevisionsInv, Shaped, NothingAfter, Ends, StoppedUnaccepted,
                    FirstReviewed, DecidedAccepted, Nothing

\* What is accepted ends the revisions: no later node writes a proposal or a
\* review, and the Decision takes the accepted proposal, in a graph of any number
\* of revisions.
THEOREM AcceptedEnds == ResearchLoopAssumption => (Spec => []AcceptedIsFinal)
<1> SUFFICES ASSUME ResearchLoopAssumption PROVE Spec => []AcceptedIsFinal
  OBVIOUS
<1> DEFINE Inv == Typed /\ Layered /\ RevisionsInv
<1>1. Init => Inv
  BY InitTyped, LayeredInitially, RevisionsInitially
<1>2. Inv /\ [Next]_vars => Inv'
  BY NextTyped, LayeredKept, RevisionsKept
<1>3. Inv => AcceptedIsFinal
  BY AcceptedFollows
<1> QED
  BY <1>1, <1>2, <1>3, PTL DEF Spec

------------------------------------------------------------------------------
(***************************************************************************)
(* The round of the supplement.                                            *)
(***************************************************************************)
AffectedBy(d, rows) ==
  {h \in Horizons : \E row \in rows : row[1] = h /\ d[row[2]].answer = "facts"}
EvidenceOf(d, rows) ==
  {r \in Resources : \E row \in rows : row[2] = r /\ d[row[2]].answer = "facts"}

\* What the attempt at work holds is what the rows it has passed have brought; a
\* row that it has passed is not asked for any more; and the round that is
\* published is that of all rows.
Collecting ==
  /\ st[Supplement] = "running" =>
       /\ live.todo \subseteq Rows
       /\ live.affected = AffectedBy(done, Rows \ live.todo)
       /\ live.evidence = EvidenceOf(done, Rows \ live.todo)
       /\ \A row \in Rows \ live.todo :
            Known(row[2]) \/ row[2] \in started \/ Exhausted(row[2])
       /\ live.pc \in {"asking", "answered"} =>
            /\ ~Known(live.row[2]) /\ live.row[2] \in started
            /\ \A row \in Rows : row[2] = live.row[2] => row \in live.todo
  /\ st[Supplement] = "succeeded" =>
       /\ out[Supplement].affected = AffectedBy(done, Rows)
       /\ out[Supplement].evidence = EvidenceOf(done, Rows)

\* From the supplement's start on, its rows are fixed.
LEMMA RowsStand ==
  ASSUME ResearchLoopAssumption, Typed, Layered, [Next]_vars,
         Passed(Supplement) \/ Ready(Supplement)
  PROVE  Rows' = Rows
<1>1. \A h \in Horizons : \A p \in {Analyst(h, 0), Critic(h, 0)} :
        p \in Ancestors(Supplement) /\ p \in Nodes
  BY AncestorSets, Members DEF Pairs, Rounds
<1>2. \A h \in Horizons : \A p \in {Analyst(h, 0), Critic(h, 0)} :
        st'[p] = st[p] /\ out'[p] = out[p]
  BY <1>1, ReadyBehind, SettledStays, Members
<1> QED
  BY <1>2 DEF Rows

\* Both look only at the answers for the rows in question.
LEMMA SameAnswers ==
  ASSUME NEW d, NEW e, NEW rows, \A row \in rows : e[row[2]].answer = d[row[2]].answer
  PROVE  AffectedBy(e, rows) = AffectedBy(d, rows) /\ EvidenceOf(e, rows) = EvidenceOf(d, rows)
  BY DEF AffectedBy, EvidenceOf

\* A further row adds its horizon and its resource, if it has facts.
LEMMA AddRow ==
  ASSUME NEW d, NEW rows, NEW row \in Horizons \X Resources
  PROVE  IF d[row[2]].answer = "facts"
         THEN /\ AffectedBy(d, rows \cup {row}) = AffectedBy(d, rows) \cup {row[1]}
              /\ EvidenceOf(d, rows \cup {row}) = EvidenceOf(d, rows) \cup {row[2]}
         ELSE /\ AffectedBy(d, rows \cup {row}) = AffectedBy(d, rows)
              /\ EvidenceOf(d, rows \cup {row}) = EvidenceOf(d, rows)
<1>1. row[1] \in Horizons /\ row[2] \in Resources
  OBVIOUS
<1> QED
  BY <1>1 DEF AffectedBy, EvidenceOf

\* Nothing has been brought by no rows.
LEMMA NoRows ==
  ASSUME NEW d
  PROVE  AffectedBy(d, {}) = {} /\ EvidenceOf(d, {}) = {}
  BY DEF AffectedBy, EvidenceOf

\* The steps that leave the round alone.
LEMMA CollectingStands ==
  ASSUME ResearchLoopAssumption, Typed, Layered, Collecting, [Next]_vars,
         UNCHANGED <<started, done, live>>, st'[Supplement] = st[Supplement],
         out'[Supplement] = out[Supplement]
  PROVE  Collecting'
<1>1. CASE Passed(Supplement)
  <2>1. Rows' = Rows
    BY <1>1, RowsStand
  <2> QED
    BY <2>1 DEF Collecting, Known, Exhausted
<1>2. CASE ~Passed(Supplement)
  BY <1>2 DEF Collecting, Passed, Settled
<1> QED
  BY <1>1, <1>2

\* A row is passed: what it has brought is added.
LEMMA CollectingSettles ==
  ASSUME ResearchLoopAssumption, Typed, Layered, Collecting, [Next]_vars,
         st[Supplement] = "running", st' = st, out' = out, UNCHANGED started,
         NEW row \in live.todo, NEW facts \in BOOLEAN, Settle(row, facts),
         facts <=> done'[row[2]].answer = "facts",
         \A other \in Rows \ live.todo : done'[other[2]] = done[other[2]],
         done'[row[2]].answer # "none" \/ row[2] \in started \/ Exhausted(row[2])
  PROVE  Collecting'
<1>1. live.todo \in SUBSET (Horizons \X Resources) /\ row \in Horizons \X Resources
  BY DEF Typed, Memories
<1>2. Rows' = Rows
  BY RowsStand DEF Passed
<1> DEFINE rows == Rows \ live.todo
<1>3. live'.pc = "rows" /\ live'.todo = live.todo \ {row}
      /\ live'.affected = (IF facts THEN live.affected \cup {row[1]} ELSE live.affected)
      /\ live'.evidence = (IF facts THEN live.evidence \cup {row[2]} ELSE live.evidence)
  BY <1>1, SettleStep
<1>4. live.todo \subseteq Rows /\ live.affected = AffectedBy(done, rows)
      /\ live.evidence = EvidenceOf(done, rows)
      /\ \A other \in rows : Known(other[2]) \/ other[2] \in started \/ Exhausted(other[2])
  BY DEF Collecting
<1>5. Rows' \ live'.todo = rows \cup {row}
  BY <1>2, <1>3, <1>4
<1>6. AffectedBy(done', rows) = AffectedBy(done, rows)
      /\ EvidenceOf(done', rows) = EvidenceOf(done, rows)
  BY SameAnswers
<1> HIDE DEF rows
<1>7. AffectedBy(done', rows \cup {row}) = live'.affected
      /\ EvidenceOf(done', rows \cup {row}) = live'.evidence
  <2>1. IF done'[row[2]].answer = "facts"
        THEN /\ AffectedBy(done', rows \cup {row}) = AffectedBy(done', rows) \cup {row[1]}
             /\ EvidenceOf(done', rows \cup {row}) = EvidenceOf(done', rows) \cup {row[2]}
        ELSE /\ AffectedBy(done', rows \cup {row}) = AffectedBy(done', rows)
             /\ EvidenceOf(done', rows \cup {row}) = EvidenceOf(done', rows)
    BY <1>1, AddRow, Zenon
  <2>2. AffectedBy(done', rows) = live.affected /\ EvidenceOf(done', rows) = live.evidence
    BY <1>4, <1>6
  <2>3. CASE facts
    BY <1>3, <2>1, <2>2, <2>3
  <2>4. CASE ~facts
    BY <1>3, <2>1, <2>2, <2>4
  <2> QED
    BY <2>3, <2>4
<1>8. \A other \in rows \cup {row} :
        Known(other[2])' \/ other[2] \in started' \/ Exhausted(other[2])'
  <2>1. \A other \in rows : done'[other[2]] = done[other[2]]
    BY DEF rows
  <2> QED
    BY <1>4, <2>1 DEF Known, Exhausted
<1>9. live'.todo \subseteq Rows'
  BY <1>2, <1>3, <1>4
<1> QED
  BY <1>3, <1>5, <1>7, <1>8, <1>9 DEF Collecting

\* A start is made only for a resource that no passed row is about.
LEMMA CollectingStarts ==
  ASSUME ResearchLoopAssumption, Typed, Layered, Collecting, [Next]_vars, StartRow
  PROVE  Collecting'
<1>1. st[Supplement] = "running" /\ UNCHANGED <<st, out, done>>
  BY DEF StartRow, Typed
<1>2. Row \in live.todo
  BY RowIsToDo DEF StartRow
<1>3. Rows' = Rows
  BY <1>1, RowsStand DEF Passed
<1>4. ~Known(Row[2]) /\ Row[2] \notin started /\ ~Exhausted(Row[2])
      /\ started' = started \cup {Row[2]}
  BY DEF StartRow, InDoubt
<1>5. live' = [live EXCEPT !.pc = "asking", !.row = Row]
  BY DEF StartRow
<1> HIDE DEF Row
<1>6. PICK x : x = Row
  OBVIOUS
<1>7. live'.pc = "asking" /\ live'.row = x /\ live'.todo = live.todo
      /\ live'.affected = live.affected /\ live'.evidence = live.evidence
  BY <1>5, <1>6 DEF Typed, Memories
<1>8. \A row \in Rows \ live.todo : Known(row[2]) \/ row[2] \in started
  BY <1>1, <1>4 DEF Collecting, Exhausted
<1>9. \A row \in Rows : row[2] = x[2] => row \in live.todo
  BY <1>4, <1>6, <1>8
<1>10. ~Known(x[2])' /\ x[2] \in started'
  BY <1>1, <1>4, <1>6 DEF Known
<1>11. \A row \in Rows \ live.todo : Known(row[2])' \/ row[2] \in started'
  BY <1>1, <1>4, <1>8 DEF Known
<1> QED
  BY <1>1, <1>3, <1>7, <1>9, <1>10, <1>11 DEF Collecting, Known

\* What the supplement has collected, in memory and in its output, stays
\* what its passed rows brought, over a crash and a put-off too.
LEMMA CollectingKept ==
  ASSUME ResearchLoopAssumption, Typed, Layered, Collecting, [Next]_vars
  PROVE  Collecting'
<1>0. out = [n \in Nodes |-> out[n]] /\ st \in [Nodes -> Statuses]
      /\ Supplement \in Nodes /\ Decision # Supplement
  BY Members, Names DEF Typed
<1>1. CASE NodeMoves
  <2>1. PICK m \in Researchers : Skip(m) \/ Stop(m) \/ Research(m) \/ FailNode(m)
    BY <1>1 DEF NodeMoves
  <2>2. m \in Nodes /\ m # Supplement
    BY DEF Researchers
  <2>3. UNCHANGED <<started, done, live>>
    BY <2>1 DEF Skip, Stop, Research, FailNode, supplementVars
  <2>4. CASE ~FailNode(m)
    <3>1. st'[Supplement] = st[Supplement] /\ out'[Supplement] = out[Supplement]
      BY <1>0, <2>1, <2>2, <2>4 DEF Skip, Stop, Research, Publish
    <3> QED
      BY <2>3, <3>1, CollectingStands
  <2>5. CASE FailNode(m)
    <3>1. out' = out /\ st'[Supplement] \in {st[Supplement], "cancelled"}
      BY <1>0, <2>2, <2>5 DEF FailNode, Closing
    <3>2. CASE st'[Supplement] = st[Supplement]
      BY <2>3, <3>1, <3>2, CollectingStands
    <3>3. CASE st'[Supplement] = "cancelled"
      BY <3>3 DEF Collecting
    <3> QED
      BY <3>1, <3>2, <3>3
  <2> QED
    BY <2>4, <2>5
<1>2. CASE DecisionMoves
  <2>1. UNCHANGED <<started, done, live, out>>
    BY <1>2 DEF DecisionMoves, Decide, RefuseDecision, supplementVars
  <2>2. st'[Supplement] \in {st[Supplement], "cancelled"}
    BY <1>0, <1>2 DEF DecisionMoves, Decide, RefuseDecision, Closing
  <2>3. CASE st'[Supplement] = st[Supplement]
    BY <2>1, <2>3, CollectingStands
  <2>4. CASE st'[Supplement] = "cancelled"
    BY <2>4 DEF Collecting
  <2> QED
    BY <2>2, <2>3, <2>4
<1>3. CASE UNCHANGED vars
  BY <1>3, CollectingStands DEF vars
<1>4. CASE StartSupplement
  <2>1. Ready(Supplement)
    BY <1>4 DEF StartSupplement
  <2>2. Rows' = Rows
    BY <2>1, RowsStand
  <2>3. live' = [Idle EXCEPT !.pc = "rows", !.todo = Rows]
    BY <1>4 DEF StartSupplement
  <2>4. live'.pc = "rows" /\ live'.todo = Rows /\ live'.affected = {} /\ live'.evidence = {}
    BY <2>3 DEF Idle
  <2>5. Rows' \ live'.todo = {}
    BY <2>2, <2>4
  <2>6. st'[Supplement] = "running"
    BY <1>0, <1>4 DEF StartSupplement
  <2> QED
    BY <2>2, <2>4, <2>5, <2>6, NoRows DEF Collecting
<1>5. CASE PassRow
  <2>1. st[Supplement] = "running" /\ UNCHANGED <<st, out, started, done>> /\ live.todo # {}
    BY <1>5 DEF PassRow, Typed
  <2>2. Row \in live.todo
    BY <2>1, RowIsToDo
  <2>3. PICK facts \in BOOLEAN : /\ Settle(Row, facts)
                                 /\ facts <=> done[Row[2]].answer = "facts"
                                 /\ Known(Row[2]) \/ Row[2] \in started \/ Exhausted(Row[2])
    BY <1>5 DEF PassRow, Known, InDoubt
  <2> HIDE DEF Row
  <2> QED
    BY <2>1, <2>2, <2>3, CollectingSettles DEF Known
<1>6. CASE StartRow
  BY <1>6, CollectingStarts
<1>7. CASE Acquire
  <2>1. st[Supplement] = "running" /\ UNCHANGED <<st, out, started, done>> /\ live.pc = "asking"
    BY <1>7 DEF Acquire, Typed
  <2>2. Rows' = Rows
    BY <2>1, RowsStand DEF Passed
  <2>3. live'.pc = "answered" /\ live'.row = live.row /\ live'.todo = live.todo
        /\ live'.affected = live.affected /\ live'.evidence = live.evidence
    BY <1>7 DEF Acquire, Typed, Memories
  <2> QED
    BY <2>1, <2>2, <2>3 DEF Collecting, Known, Exhausted
<1>8. CASE Dispose
  <2>1. st[Supplement] = "running" /\ UNCHANGED <<st, out, started>> /\ live.pc = "answered"
    BY <1>8 DEF Dispose, Typed
  <2>2. live.row \in live.todo /\ live.row[2] \in Resources /\ live.answer \in Answers \ {"none"}
    BY <2>1 DEF Typed, Memories
  <2>3. done' = [done EXCEPT ![live.row[2]] = [answer |-> live.answer, att |-> att]]
        /\ Settle(live.row, live.answer = "facts")
    BY <1>8 DEF Dispose
  <2>4. done'[live.row[2]].answer = live.answer
    BY <2>2, <2>3 DEF Typed
  <2>5. \A row \in Rows \ live.todo : done'[row[2]] = done[row[2]]
    <3>1. \A row \in Rows \ live.todo : row[2] # live.row[2]
      BY <2>1 DEF Collecting
    <3>2. \A row \in Rows : row[2] \in Resources
      BY DEF Rows
    <3> QED
      BY <2>3, <3>1, <3>2 DEF Typed
  <2> QED
    BY <2>1, <2>2, <2>3, <2>4, <2>5, CollectingSettles
<1>9. CASE FinishSupplement
  <2>1. st[Supplement] = "running" /\ live.todo = {} /\ UNCHANGED <<started, done>>
    BY <1>9 DEF FinishSupplement, Typed
  <2>2. Rows' = Rows
    BY <2>1, RowsStand DEF Passed
  <2>3. st'[Supplement] = "succeeded" /\ out'[Supplement].affected = live.affected
        /\ out'[Supplement].evidence = live.evidence
    BY <1>0, <1>9 DEF FinishSupplement, Publish
  <2>4. Rows \ live.todo = Rows
    BY <2>1
  <2> QED
    BY <2>1, <2>2, <2>3, <2>4 DEF Collecting
<1>10. CASE RefuseSupplement \/ PutOff \/ LoseSupplement
  <2>1. st'[Supplement] \in {"failed", "queued"}
    BY <1>0, <1>10 DEF RefuseSupplement, PutOff, LoseSupplement, Closing
  <2> QED
    BY <2>1 DEF Collecting
<1> QED
  BY <1>1, <1>2, <1>3, <1>4, <1>5, <1>6, <1>7, <1>8, <1>9, <1>10, NextMoves
     DEF SupplementMoves

------------------------------------------------------------------------------
(***************************************************************************)
(* The Claims and their Critiques.                                         *)
(***************************************************************************)
Notable(h, r) == out[Analyst(h, r)].notable

\* First Claims are never skipped, second ones exactly where the round brought
\* something; and a Claim has a Critique exactly when it is notable.
PairsInv ==
  /\ st[Supplement] # "skipped"
  /\ \A h \in Horizons :
       /\ st[Analyst(h, 0)] # "skipped"
       /\ st[Critic(h, 0)] = "succeeded" => Notable(h, 0)
       /\ st[Critic(h, 0)] = "skipped" => ~Notable(h, 0)
       /\ st[Analyst(h, 1)] = "succeeded" =>
            /\ h \in out[Supplement].affected
            /\ out[Analyst(h, 1)].facts = out[Supplement].evidence
       /\ st[Analyst(h, 1)] = "skipped" => h \notin out[Supplement].affected
       /\ st[Critic(h, 1)] = "succeeded" =>
            st[Analyst(h, 1)] = "succeeded" /\ Notable(h, 1)
       /\ st[Critic(h, 1)] = "skipped" /\ st[Analyst(h, 1)] = "succeeded" => ~Notable(h, 1)

\* What the nodes of a horizon read of each other.
LEMMA PairNodes ==
  ASSUME NEW h \in Horizons, NEW n \in {Analyst(h, 0), Analyst(h, 1), Critic(h, 0), Critic(h, 1)}
  PROVE  /\ n \in Nodes /\ n # Supplement /\ n # Decision
         /\ Role(n) \in {"analyst", "critic"} /\ Horizon(n) = h
         /\ \A k : Synthesizer(k) \notin Ancestors(n) /\ Reviewer(k) \notin Ancestors(n)
<1>1. \A m \in FirstRound : Role(m) \notin {"synthesizer", "reviewer"}
  BY Names DEF FirstRound, Pairs
<1>2. \A k : Synthesizer(k) \notin FirstRound /\ Reviewer(k) \notin FirstRound
  BY <1>1, Names
<1> QED
  BY <1>2, Names, Members, AncestorSets DEF Rounds

\* An Analyst or a Critic is never skipped for a review.
LEMMA PairsAreNotOver ==
  ASSUME NEW h \in Horizons, NEW n \in {Analyst(h, 0), Analyst(h, 1), Critic(h, 0), Critic(h, 1)}
  PROVE  ~Over(n) /\ ~Stagnated(n)
  BY PairNodes DEF Over, Stopped, Reviews, Gives, Stagnated

\* The Claim that counts for a node that reads the first one.
LEMMA SelectedIs ==
  ASSUME NEW h \in Horizons, NEW n, Analyst(h, 0) \in Ancestors(n),
         st[Analyst(h, 0)] = "succeeded"
  PROVE  Selected(n, h) =
           IF Analyst(h, 1) \in Ancestors(n) /\ st[Analyst(h, 1)] = "succeeded" THEN 1 ELSE 0
<1>1. 0 \in ClaimRounds(n, h) /\ ClaimRounds(n, h) \in SUBSET (0 .. 1)
  BY DEF ClaimRounds, Gives, Rounds
<1>2. /\ Max(ClaimRounds(n, h)) \in ClaimRounds(n, h)
      /\ \A y \in ClaimRounds(n, h) : y <= Max(ClaimRounds(n, h))
  BY <1>1, MaxIsGreatest
<1>3. 1 \in ClaimRounds(n, h) <=>
        Analyst(h, 1) \in Ancestors(n) /\ st[Analyst(h, 1)] = "succeeded"
  BY DEF ClaimRounds, Gives, Rounds
<1> QED
  BY <1>1, <1>2, <1>3 DEF Selected

\* A node that reads the round reads the one that was published.
LEMMA SupplementalIs ==
  ASSUME ResearchLoopAssumption, Layered, PairsInv, NEW n \in Nodes, Ready(n),
         Supplement \in Ancestors(n)
  PROVE  Supplemental(n) = out[Supplement] /\ st[Supplement] = "succeeded"
<1>1. st[Supplement] = "succeeded"
  BY ReadyBehind DEF PairsInv, Settled
<1> QED
  BY <1>1 DEF Supplemental, Gives

\* The first Claim is always made, and criticised exactly if it is notable.
LEMMA FirstPairKept ==
  ASSUME ResearchLoopAssumption, Typed, Layered, PairsInv, [Next]_vars, NEW h \in Horizons
  PROVE  /\ st'[Analyst(h, 0)] # "skipped"
         /\ st'[Critic(h, 0)] = "succeeded" => Notable(h, 0)'
         /\ st'[Critic(h, 0)] = "skipped" => ~Notable(h, 0)'
<1> DEFINE a == Analyst(h, 0)
           c == Critic(h, 0)
<1>0. /\ a \in Nodes /\ c \in Nodes /\ a \in Ancestors(c) /\ Analyst(h, 1) \notin Ancestors(c)
      /\ Round(a) = 0 /\ Round(c) = 0 /\ Role(a) = "analyst" /\ Role(c) = "critic" /\ a # c
      /\ c # Supplement /\ c # Decision /\ Horizon(c) = h
  BY PairNodes, Names, AncestorSets
<1>1. ~Over(a) /\ ~Over(c)
  BY PairsAreNotOver
<1>2. st'[a] # "skipped"
  <2> SUFFICES ASSUME st'[a] = "skipped" PROVE FALSE
    OBVIOUS
  <2>1. Skip(a)
    BY <1>0, SkipStep DEF PairsInv
  <2> QED
    BY <1>0, <1>1, <2>1 DEF Skip, Unaffected, Unremarkable
<1>3. CASE st[c] \in Settled
  <2>1. st'[c] = st[c] /\ st[a] \in Settled
    BY <1>0, <1>3, SettledStays, ReadyBehind DEF Passed
  <2>2. out'[a] = out[a]
    BY <1>0, <2>1, SettledStays
  <2> QED
    BY <1>2, <2>1, <2>2 DEF PairsInv, Notable
<1>4. ASSUME Ready(c)
      PROVE  /\ st[a] = "succeeded" /\ out'[a] = out[a]
             /\ Unremarkable(c) <=> ~Notable(h, 0)
  <2>1. st[a] = "succeeded"
    BY <1>0, <1>4, ReadyBehind DEF PairsInv, Settled
  <2>2. Selected(c, h) = 0
    BY <1>0, <2>1, SelectedIs
  <2>3. out'[a] = out[a]
    BY <1>0, <2>1, SettledStays DEF Settled
  <2> QED
    BY <1>0, <2>1, <2>2, <2>3 DEF Unremarkable, Notable
<1>5. CASE st[c] \notin Settled /\ st'[c] = "succeeded"
  <2>1. Writes(c) /\ ~Stagnated(c)
    BY <1>0, <1>5, WriterStep, PairsAreNotOver DEF Settled
  <2> QED
    BY <1>2, <1>4, <1>5, <2>1 DEF Writes, Notable
<1>6. CASE st[c] \notin Settled /\ st'[c] = "skipped"
  <2>1. Skip(c)
    BY <1>0, <1>6, SkipStep DEF Settled
  <2>2. Unremarkable(c) /\ Ready(c)
    BY <1>0, <1>1, <2>1 DEF Skip, Unaffected
  <2> QED
    BY <1>2, <1>4, <1>6, <2>2 DEF Notable
<1> QED
  BY <1>2, <1>3, <1>5, <1>6 DEF Settled

\* A horizon gets its second Claim exactly if new facts affect it, and that
\* Claim reads all of them.
LEMMA SecondClaimKept ==
  ASSUME ResearchLoopAssumption, Typed, Layered, PairsInv, [Next]_vars, NEW h \in Horizons
  PROVE  /\ st'[Analyst(h, 1)] = "succeeded" =>
              /\ h \in out'[Supplement].affected
              /\ out'[Analyst(h, 1)].facts = out'[Supplement].evidence
         /\ st'[Analyst(h, 1)] = "skipped" => h \notin out'[Supplement].affected
<1> DEFINE a == Analyst(h, 1)
<1>0. /\ a \in Nodes /\ Supplement \in Nodes /\ Supplement \in Ancestors(a)
      /\ Round(a) = 1 /\ Role(a) = "analyst" /\ a # Supplement /\ a # Decision /\ Horizon(a) = h
  BY PairNodes, Names, AncestorSets, Members DEF FirstRound
<1>1. ~Over(a) /\ ~Stagnated(a)
  BY PairsAreNotOver
<1>2. CASE st[a] \in Settled
  <2>1. st'[a] = st[a] /\ out'[a] = out[a] /\ st[Supplement] \in Settled
    BY <1>0, <1>2, SettledStays, ReadyBehind DEF Passed
  <2>2. out'[Supplement] = out[Supplement]
    BY <1>0, <2>1, SettledStays
  <2> QED
    BY <2>1, <2>2 DEF PairsInv
<1>3. ASSUME Ready(a)
      PROVE  /\ Supplemental(a) = out[Supplement] /\ out'[Supplement] = out[Supplement]
             /\ Unaffected(a) <=> h \notin out[Supplement].affected
             /\ ~Unremarkable(a)
  <2>1. Supplemental(a) = out[Supplement] /\ st[Supplement] = "succeeded"
    BY <1>0, <1>3, SupplementalIs
  <2>2. out'[Supplement] = out[Supplement]
    BY <1>0, <2>1, SettledStays DEF Settled
  <2> QED
    BY <1>0, <2>1, <2>2 DEF Unaffected, Unremarkable
<1>4. CASE st[a] \notin Settled /\ st'[a] = "succeeded"
  <2>1. Writes(a)
    BY <1>0, <1>4, WriterStep DEF Settled
  <2>2. out'[a] \in Claims(a) /\ ~Unaffected(a) /\ Ready(a)
    BY <1>0, <1>1, <2>1 DEF Writes, Submissions
  <2>3. \A o \in Claims(a) : o.facts = Supplemental(a).evidence
    BY DEF Claims
  <2> QED
    BY <1>3, <1>4, <2>2, <2>3
<1>5. CASE st[a] \notin Settled /\ st'[a] = "skipped"
  <2>1. Skip(a)
    BY <1>0, <1>5, SkipStep DEF Settled
  <2> QED
    BY <1>1, <1>3, <1>5, <2>1 DEF Skip
<1> QED
  BY <1>2, <1>4, <1>5 DEF Settled

\* A second Claim is criticised exactly if it is notable.
LEMMA SecondCritiqueKept ==
  ASSUME ResearchLoopAssumption, Typed, Layered, PairsInv, [Next]_vars, NEW h \in Horizons
  PROVE  /\ st'[Critic(h, 1)] = "succeeded" =>
              st'[Analyst(h, 1)] = "succeeded" /\ Notable(h, 1)'
         /\ st'[Critic(h, 1)] = "skipped" /\ st'[Analyst(h, 1)] = "succeeded" =>
              ~Notable(h, 1)'
<1> DEFINE a == Analyst(h, 1)
           b == Analyst(h, 0)
           c == Critic(h, 1)
<1>0. /\ a \in Nodes /\ b \in Nodes /\ c \in Nodes
      /\ Supplement \in Ancestors(c) /\ a \in Ancestors(c) /\ b \in Ancestors(c)
      /\ Round(c) = 1 /\ Role(c) = "critic" /\ Horizon(c) = h
      /\ c # Supplement /\ c # Decision
  BY PairNodes, Names, AncestorSets DEF FirstRound, Pairs
<1>1. ~Over(c) /\ ~Stagnated(c)
  BY PairsAreNotOver
<1>2. CASE st[c] \in Settled
  <2>1. st'[c] = st[c] /\ st[a] \in Settled
    BY <1>0, <1>2, SettledStays, ReadyBehind DEF Passed
  <2>2. st'[a] = st[a] /\ out'[a] = out[a]
    BY <1>0, <2>1, SettledStays
  <2> QED
    BY <2>1, <2>2 DEF PairsInv, Notable
<1>3. ASSUME Ready(c)
      PROVE  /\ st'[a] = st[a] /\ out'[a] = out[a] /\ st[a] \in Settled
             /\ Unaffected(c) <=> h \notin out[Supplement].affected
             /\ st[a] = "succeeded" => (Unremarkable(c) <=> ~Notable(h, 1))
  <2>1. st[a] \in Settled /\ st[b] = "succeeded"
    BY <1>0, <1>3, ReadyBehind DEF PairsInv, Settled
  <2>2. Supplemental(c) = out[Supplement]
    BY <1>0, <1>3, SupplementalIs
  <2>3. st[a] = "succeeded" => Selected(c, h) = 1
    BY <1>0, <2>1, SelectedIs
  <2>4. st'[a] = st[a] /\ out'[a] = out[a]
    BY <1>0, <2>1, SettledStays
  <2> QED
    BY <1>0, <2>1, <2>2, <2>3, <2>4 DEF Unaffected, Unremarkable, Notable
<1>4. CASE st[c] \notin Settled /\ st'[c] = "succeeded"
  <2>1. Writes(c)
    BY <1>0, <1>4, WriterStep DEF Settled
  <2>2. ~Unaffected(c) /\ ~Unremarkable(c) /\ Ready(c)
    BY <1>1, <2>1 DEF Writes
  <2>3. st[a] = "succeeded"
    BY <1>3, <2>2 DEF PairsInv, Settled
  <2> QED
    BY <1>3, <1>4, <2>2, <2>3 DEF Notable
<1>5. CASE st[c] \notin Settled /\ st'[c] = "skipped" /\ st'[a] = "succeeded"
  <2>1. Skip(c)
    BY <1>0, <1>5, SkipStep DEF Settled
  <2>2. Ready(c) /\ (Unaffected(c) \/ Unremarkable(c))
    BY <1>1, <2>1 DEF Skip
  <2>3. st[a] = "succeeded" /\ ~Unaffected(c)
    BY <1>3, <1>5, <2>2 DEF PairsInv
  <2> QED
    BY <1>3, <1>5, <2>2, <2>3 DEF Notable
<1> QED
  BY <1>2, <1>4, <1>5 DEF Settled

\* Every step keeps the Claims and their Critiques in step.
LEMMA PairsKept ==
  ASSUME ResearchLoopAssumption, Typed, Layered, PairsInv, [Next]_vars
  PROVE  PairsInv'
<1>1. st'[Supplement] # "skipped"
  BY SkipStep, Members DEF PairsInv, Researchers
<1> QED
  BY <1>1, FirstPairKept, SecondClaimKept, SecondCritiqueKept DEF PairsInv

------------------------------------------------------------------------------
(***************************************************************************)
(* The proposals.                                                          *)
(***************************************************************************)
\* A proposal builds on the later Claim of each horizon and counts a Critique
\* where there is one; a revision that is skipped comes after one that ended
\* them; and a review has a proposal to review.
ProposalsInv ==
  \A k \in Revisions :
    /\ out[Synthesizer(k)].kind = "proposal" =>
         \A h \in Horizons :
           LET r == IF st[Analyst(h, 1)] = "succeeded" THEN 1 ELSE 0
           IN  /\ out[Synthesizer(k)].claims[h] = r
               /\ h \in out[Synthesizer(k)].critiques <=> st[Critic(h, r)] = "succeeded"
    /\ st[Synthesizer(k)] = "skipped" => \E j \in Revisions : j < k /\ Ends(j)
    /\ st[Reviewer(k)] = "succeeded" => out[Synthesizer(k)].kind = "proposal"

\* What ends the revisions stays.
LEMMA EndsStays ==
  ASSUME ResearchLoopAssumption, Typed, Layered, [Next]_vars, NEW j \in Revisions, Ends(j)
  PROVE  Ends(j)'
<1>1. Synthesizer(j) \in Nodes /\ Reviewer(j) \in Nodes
  BY Members
<1>2. CASE out[Synthesizer(j)].kind = "stop"
  <2>1. st[Synthesizer(j)] \in Settled
    BY <1>1, <1>2, OutputSettled DEF Settled, Nothing
  <2> QED
    BY <1>1, <1>2, <2>1, SettledStays DEF Ends
<1>3. CASE out[Reviewer(j)].kind = "review" /\ Accepted(j)
  <2>1. st[Reviewer(j)] \in Settled
    BY <1>1, <1>3, OutputSettled DEF Settled, Nothing
  <2>2. out'[Reviewer(j)] = out[Reviewer(j)]
    BY <1>1, <2>1, SettledStays
  <2> QED
    BY <1>3, <2>2, SameVerdict DEF Ends
<1> QED
  BY <1>2, <1>3 DEF Ends

\* A revision that is over comes after one that ended them.
LEMMA OverIsEnded ==
  ASSUME ResearchLoopAssumption, Layered, Shaped, NEW k \in Revisions, Over(Synthesizer(k)),
         st[Synthesizer(k)] # "succeeded"
  PROVE  \E j \in Revisions : j < k /\ Ends(j)
<1> DEFINE n == Synthesizer(k)
<1>1. CASE Stopped(n)
  <2>1. PICK j \in Revisions : out[Synthesizer(j)].kind = "stop" /\ Gives(n, Synthesizer(j))
    BY <1>1 DEF Stopped
  <2>2. j < k
    BY <2>1, ReadsEarlier DEF Gives
  <2> QED
    BY <2>1, <2>2 DEF Ends
<1>2. CASE Reviews(n) # {} /\ Accepted(Max(Reviews(n)))
  <2> DEFINE l == Max(Reviews(n))
  <2>1. l \in Revisions /\ l \in Reviews(n)
    BY <1>2, LastReview
  <2>2. st[Reviewer(l)] = "succeeded" /\ l < k
    BY <2>1, ReviewsOf DEF OfRevision
  <2>3. out[Reviewer(l)].kind = "review" /\ Accepted(l)
    BY <1>2, <2>1, <2>2 DEF Shaped
  <2> HIDE DEF l
  <2> QED
    BY <2>1, <2>2, <2>3 DEF Ends
<1> QED
  BY <1>1, <1>2 DEF Over

\* A proposal names the Claim that counts for each horizon, and its
\* Critique.
LEMMA ProposalsKept ==
  ASSUME ResearchLoopAssumption, Typed, Layered, RevisionsInv, PairsInv, ProposalsInv,
         [Next]_vars
  PROVE  ProposalsInv'
<1> SUFFICES ASSUME NEW k \in Revisions
             PROVE  /\ out'[Synthesizer(k)].kind = "proposal" =>
                         \A h \in Horizons :
                           LET r == IF st'[Analyst(h, 1)] = "succeeded" THEN 1 ELSE 0
                           IN  /\ out'[Synthesizer(k)].claims[h] = r
                               /\ h \in out'[Synthesizer(k)].critiques
                                    <=> st'[Critic(h, r)] = "succeeded"
                    /\ st'[Synthesizer(k)] = "skipped" =>
                         \E j \in Revisions : j < k /\ Ends(j)'
                    /\ st'[Reviewer(k)] = "succeeded" =>
                         out'[Synthesizer(k)].kind = "proposal"
  BY DEF ProposalsInv
<1> DEFINE s == Synthesizer(k)
           v == Reviewer(k)
<1>0. /\ s \in Nodes /\ s # Supplement /\ s # Decision /\ s \in Ancestors(v)
      /\ v \in Nodes /\ v # Supplement /\ v # Decision
      /\ s \in OfRevision(k) /\ v \in OfRevision(k)
  BY Members, Names, ReadsEarlier, Revisable DEF OfRevision
<1>1. \A h \in Horizons : \A n \in {Analyst(h, 0), Analyst(h, 1), Critic(h, 0), Critic(h, 1)} :
        n \in Nodes /\ n \in Ancestors(s)
  <2>1. \A h \in Horizons : \A n \in {Analyst(h, 0), Analyst(h, 1), Critic(h, 0), Critic(h, 1)} :
          n \in Pairs(0) \cup Pairs(1)
    BY DEF Pairs
  <2> QED
    BY <2>1, PairNodes, AncestorSets DEF Before, FirstRound
<1>2. ASSUME Passed(s) \/ Ready(s), NEW h \in Horizons
      PROVE  \A n \in {Analyst(h, 0), Analyst(h, 1), Critic(h, 0), Critic(h, 1)} :
               st[n] \in Settled /\ st'[n] = st[n]
  BY <1>0, <1>1, <1>2, ReadyBehind, SettledStays
<1>3. CASE st[s] \in Settled
  <2>1. st'[s] = st[s] /\ out'[s] = out[s]
    BY <1>0, <1>3, SettledStays
  <2>2. ASSUME out[s].kind = "proposal", NEW h \in Horizons
        PROVE  LET r == IF st'[Analyst(h, 1)] = "succeeded" THEN 1 ELSE 0
               IN  /\ out'[s].claims[h] = r
                   /\ h \in out'[s].critiques <=> st'[Critic(h, r)] = "succeeded"
    BY <1>2, <1>3, <2>1, <2>2 DEF ProposalsInv, Passed
  <2>3. st[s] = "skipped" => \E j \in Revisions : j < k /\ Ends(j)'
    BY EndsStays DEF ProposalsInv
  <2>4. st'[v] = "succeeded" => out[s].kind = "proposal"
    <3>1. CASE st[v] = "succeeded"
      BY <3>1 DEF ProposalsInv
    <3>2. CASE st[v] # "succeeded" /\ st'[v] = "succeeded"
      <4>1. Writes(v)
        BY <1>0, <3>2, WriterStep
      <4>2. ~ \E j \in Revisions : j < k /\ Ends(j)
        BY <1>0, <4>1, EndedIsOver DEF Writes, RevisionsInv
      <4>3. st[s] = "succeeded"
        BY <1>3, <4>2 DEF ProposalsInv, Settled
      <4>4. out[s].kind # "stop"
        BY <1>0, <4>1, <4>3 DEF Writes, Over, Stopped, Gives
      <4> QED
        BY <4>3, <4>4 DEF RevisionsInv, Shaped
    <3> QED
      BY <3>1, <3>2
  <2> QED
    BY <2>1, <2>2, <2>3, <2>4
<1>4. CASE st[s] \notin Settled
  <2>1. out[s] = Nothing
    BY <1>0, <1>4 DEF Layered, Settled
  <2>2. ASSUME out'[s].kind = "proposal", NEW h \in Horizons
        PROVE  LET r == IF st'[Analyst(h, 1)] = "succeeded" THEN 1 ELSE 0
               IN  /\ out'[s].claims[h] = r
                   /\ h \in out'[s].critiques <=> st'[Critic(h, r)] = "succeeded"
    <3>1. Writes(s)
      BY <1>0, <2>1, <2>2, WriterStep DEF Nothing
    <3>2. Ready(s) /\ out'[s] \in Proposals(s)
      BY <2>2, <3>1, Names DEF Writes, Submissions
    <3>3. out'[s].claims = [g \in Horizons |-> Selected(s, g)]
          /\ out'[s].critiques = {g \in Horizons : Gives(s, Critic(g, Selected(s, g)))}
      BY <3>2, Zenon DEF Proposals
    <3>4. st[Analyst(h, 0)] = "succeeded"
      BY <1>2, <3>2 DEF PairsInv, Settled
    <3>5. Selected(s, h) = IF st[Analyst(h, 1)] = "succeeded" THEN 1 ELSE 0
      BY <1>1, <3>4, SelectedIs
    <3>6. \A r \in {0, 1} : Critic(h, r) \in Ancestors(s) /\ st'[Critic(h, r)] = st[Critic(h, r)]
      BY <1>1, <1>2, <3>2
    <3> QED
      BY <1>2, <3>2, <3>3, <3>5, <3>6 DEF Gives
  <2>3. st'[s] = "skipped" => \E j \in Revisions : j < k /\ Ends(j)'
    <3>1. CASE st'[s] = "skipped"
      <4>1. Skip(s)
        BY <1>0, <1>4, <3>1, SkipStep DEF Settled
      <4>2. Over(s)
        BY <4>1, Names DEF Skip, Unaffected, Unremarkable
      <4> QED
        BY <1>4, <4>2, OverIsEnded, EndsStays DEF RevisionsInv, Settled
    <3> QED
      BY <3>1
  <2>4. st'[v] # "succeeded"
    <3>1. ~Passed(v) /\ ~Ready(v)
      BY <1>0, <1>4, ReadyBehind
    <3>2. ~Writes(v)
      BY <3>1 DEF Writes
    <3> QED
      BY <1>0, <3>1, <3>2, WriterStep DEF Passed, Settled
  <2> QED
    BY <2>2, <2>3, <2>4
<1> QED
  BY <1>3, <1>4

\* Nothing is collected, claimed or proposed at first.
LEMMA ChainInitially ==
  ASSUME ResearchLoopAssumption, Init
  PROVE  Collecting /\ PairsInv /\ ProposalsInv
<1>1. \A n \in Nodes : st[n] = "queued" /\ out[n] = Nothing
  BY DEF Init
<1>2. Collecting
  BY <1>1, Members DEF Collecting
<1>3. PairsInv
  BY <1>1, PairNodes, Members DEF PairsInv
<1>4. ProposalsInv
  BY <1>1, Members DEF ProposalsInv, Nothing
<1> QED
  BY <1>2, <1>3, <1>4

\* The facts that a horizon's rows have brought.
LEMMA FactsAreAffected ==
  ASSUME NEW h \in Horizons
  PROVE  /\ FactsOf(h) = {} <=> h \notin AffectedBy(done, Rows)
         /\ FactsOf(h) \subseteq EvidenceOf(done, Rows)
<1>1. \A row \in Rows : row \in Horizons \X Resources
  BY DEF Rows
<1>2. \A row \in Rows : row = <<row[1], row[2]>> /\ row[2] \in Resources
  BY <1>1
<1>3. FactsOf(h) = {} => h \notin AffectedBy(done, Rows)
  <2> SUFFICES ASSUME h \in AffectedBy(done, Rows) PROVE FactsOf(h) # {}
    OBVIOUS
  <2>1. PICK row \in Rows : row[1] = h /\ done[row[2]].answer = "facts"
    BY DEF AffectedBy
  <2>2. row[2] \in FactsOf(h)
    BY <1>2, <2>1 DEF FactsOf
  <2> QED
    BY <2>2
<1>4. \A r \in FactsOf(h) : h \in AffectedBy(done, Rows) /\ r \in EvidenceOf(done, Rows)
  <2> SUFFICES ASSUME NEW r \in FactsOf(h)
               PROVE  h \in AffectedBy(done, Rows) /\ r \in EvidenceOf(done, Rows)
    OBVIOUS
  <2>1. <<h, r>> \in Rows /\ done[r].answer = "facts" /\ r \in Resources
    BY DEF FactsOf
  <2> QED
    BY <2>1 DEF AffectedBy, EvidenceOf
<1> QED
  BY <1>3, <1>4

\* The chain from the supplement's rows to the Claims of the decided
\* proposal.
LEMMA FactsFollow ==
  ASSUME ResearchLoopAssumption, Typed, Layered, RevisionsInv, Collecting, PairsInv,
         ProposalsInv
  PROVE  FactsReachDecision
<1> SUFFICES ASSUME decided # -1, NEW h \in Horizons
             PROVE  LET p == out[Synthesizer(decided)]
                    IN  /\ p.claims[h] = IF FactsOf(h) = {} THEN 0 ELSE 1
                        /\ FactsOf(h) \subseteq out[Analyst(h, p.claims[h])].facts
                        /\ h \in p.critiques <=> out[Analyst(h, p.claims[h])].notable
  BY DEF FactsReachDecision
<1> DEFINE p == out[Synthesizer(decided)]
           r == IF st[Analyst(h, 1)] = "succeeded" THEN 1 ELSE 0
<1>1. decided \in Revisions /\ st[Decision] = "succeeded"
      /\ out[Reviewer(decided)].kind = "review"
  BY DEF RevisionsInv, DecidedAccepted
<1>2. p.kind = "proposal"
  <2>1. st[Reviewer(decided)] = "succeeded"
    BY <1>1, Members, OutputSettled DEF Nothing
  <2> QED
    BY <1>1, <2>1 DEF ProposalsInv
<1>3. p.claims[h] = r /\ (h \in p.critiques <=> st[Critic(h, r)] = "succeeded")
  BY <1>1, <1>2 DEF ProposalsInv
<1>4. \A n \in FirstRound \cup Pairs(1) : st[n] \in Settled
  <2>1. Passed(Decision) /\ Decision \in Nodes
    BY <1>1, Members DEF Passed, Settled
  <2> QED
    BY <2>1, ReadyBehind, AncestorSets DEF Before
<1>5. /\ st[Supplement] \in Settled /\ st[Analyst(h, 1)] \in Settled
      /\ st[Critic(h, 0)] \in Settled /\ st[Critic(h, 1)] \in Settled
  BY <1>4 DEF FirstRound, Pairs
<1>6. st[Supplement] = "succeeded"
  BY <1>5 DEF PairsInv, Settled
<1>7. out[Supplement].affected = AffectedBy(done, Rows)
      /\ out[Supplement].evidence = EvidenceOf(done, Rows)
  BY <1>6 DEF Collecting
<1>8. FactsOf(h) = {} <=> h \notin out[Supplement].affected
  BY <1>7, FactsAreAffected
<1>9. CASE st[Analyst(h, 1)] = "succeeded"
  <2>1. r = 1 /\ h \in out[Supplement].affected
        /\ out[Analyst(h, 1)].facts = out[Supplement].evidence
    BY <1>9 DEF PairsInv
  <2>2. st[Critic(h, 1)] = "succeeded" <=> out[Analyst(h, 1)].notable
    BY <1>5, <1>9 DEF PairsInv, Notable, Settled
  <2>3. FactsOf(h) \subseteq out[Analyst(h, 1)].facts
    BY <1>7, <2>1, FactsAreAffected
  <2> HIDE DEF p, r
  <2> QED
    BY <1>3, <1>8, <2>1, <2>2, <2>3 DEF p
<1>10. CASE st[Analyst(h, 1)] = "skipped"
  <2>1. r = 0 /\ h \notin out[Supplement].affected
    BY <1>10 DEF PairsInv
  <2>2. st[Critic(h, 0)] = "succeeded" <=> out[Analyst(h, 0)].notable
    BY <1>5 DEF PairsInv, Notable, Settled
  <2>3. FactsOf(h) = {}
    BY <1>8, <2>1
  <2> HIDE DEF p, r
  <2> QED
    BY <1>3, <2>1, <2>2, <2>3 DEF p
<1> QED
  BY <1>5, <1>9, <1>10 DEF Settled

\* What is decided rests on the facts that the round has brought: every horizon
\* that got new ones decides by its refined Claim, which has read all of them,
\* and each notable Claim counts with the Critique of it; for any number of
\* horizons and resources, however often the supplement is put off or crashes.
THEOREM FactsAreDecided == ResearchLoopAssumption => (Spec => []FactsReachDecision)
<1> SUFFICES ASSUME ResearchLoopAssumption PROVE Spec => []FactsReachDecision
  OBVIOUS
<1> DEFINE Inv == Typed /\ Layered /\ RevisionsInv /\ Collecting /\ PairsInv /\ ProposalsInv
<1>1. Init => Inv
  BY InitTyped, LayeredInitially, RevisionsInitially, ChainInitially
<1>2. Inv /\ [Next]_vars => Inv'
  BY NextTyped, LayeredKept, RevisionsKept, CollectingKept, PairsKept, ProposalsKept
<1>3. Inv => FactsReachDecision
  BY FactsFollow
<1> QED
  BY <1>1, <1>2, <1>3, PTL DEF Spec
------------------------------------------------------------------------------
(***************************************************************************)
(* Arithmetic: products and integer division.                              *)
(***************************************************************************)
\* A product grows with its factors.
LEMMA Product ==
  ASSUME NEW a \in Int, NEW b \in Int, NEW c \in Nat, a <= b
  PROVE  a * c <= b * c /\ c * a <= c * b /\ a * c = c * a
<1>1. \E d \in Nat : b = a + d
  <2>1. b - a \in Nat /\ b = a + (b - a)
    OBVIOUS
  <2> QED
    BY <2>1
<1>2. PICK d \in Nat : b = a + d
  BY <1>1
<1>3. b * c = a * c + d * c /\ d * c \in Nat
  BY <1>2
<1> QED
  BY <1>2, <1>3

\* What a quotient is.
LEMMA Division ==
  ASSUME NEW x \in Int, NEW d \in Nat \ {0}
  PROVE  x \div d \in Int /\ d * (x \div d) <= x /\ x < d * (x \div d) + d
OBVIOUS

\* A quotient is at most what, times the divisor, is not passed.
LEMMA QuotientAtMost ==
  ASSUME NEW x \in Int, NEW y \in Int, NEW d \in Nat \ {0}, x < d * (y + 1)
  PROVE  x \div d <= y
<1>1. x \div d \in Int /\ d * (x \div d) <= x
  BY Division
<1>2. SUFFICES ASSUME x \div d >= y + 1 PROVE FALSE
  BY <1>1
<1>3. d * (y + 1) <= d * (x \div d)
  BY <1>1, <1>2, Product
<1> QED
  BY <1>1, <1>3

\* And at least what, times the divisor, is reached.
LEMMA QuotientAtLeast ==
  ASSUME NEW x \in Int, NEW y \in Int, NEW d \in Nat \ {0}, d * y <= x
  PROVE  y <= x \div d
<1>1. x \div d \in Int /\ x < d * (x \div d) + d
  BY Division
<1>2. SUFFICES ASSUME x \div d + 1 <= y PROVE FALSE
  BY <1>1
<1>3. d * (x \div d + 1) <= d * y
  BY <1>1, <1>2, Product
<1>4. d * (x \div d + 1) = d * (x \div d) + d
  BY <1>1
<1> QED
  BY <1>1, <1>3, <1>4
\* Rust's quotient of a dividend below the next multiple of the divisor.
LEMMA QuotientBelow ==
  ASSUME NEW x \in Int, NEW y \in Nat, NEW d \in Nat \ {0}, x < d * (y + 1)
  PROVE  Quotient(x, d) \in Int /\ Quotient(x, d) <= y
<1>1. CASE x >= 0
  <2>1. x \div d \in Int /\ x \div d <= y
    BY QuotientAtMost, Division
  <2> QED
    BY <1>1, <2>1 DEF Quotient
<1>2. CASE x < 0
  <2>1. -x \in Int /\ d * 0 <= -x
    BY <1>2
  <2>2. 0 <= (-x) \div d
    BY <2>1, QuotientAtLeast
  <2>3. (-x) \div d \in Int
    BY <2>1, Division
  <2> QED
    BY <1>2, <2>2, <2>3 DEF Quotient
<1> QED
  BY <1>1, <1>2

\* The quotient of integers is one.
LEMMA QuotientType ==
  ASSUME NEW x \in Int, NEW d \in Nat \ {0}
  PROVE  Quotient(x, d) \in Int
<1>1. -x \in Int /\ (-x) \div d \in Int /\ x \div d \in Int
  BY Division
<1> QED
  BY <1>1 DEF Quotient

\* A finite set of integers that is not empty has a least element, which Min is,
\* and a greatest one.
LEMMA Extremes ==
  ASSUME NEW S \in SUBSET Int, IsFiniteSet(S), S # {}
  PROVE  /\ Min(S) \in S /\ \A y \in S : Min(S) <= y
         /\ \E x \in S : \A y \in S : y <= x
<1> DEFINE Good == {T \in SUBSET S : T = {} \/ /\ \E x \in T : \A y \in T : x <= y
                                               /\ \E x \in T : \A y \in T : y <= x}
<1>1. {} \in Good
  OBVIOUS
<1>2. ASSUME NEW T \in SUBSET S, NEW x \in S \ T, T \in Good
      PROVE  T \cup {x} \in Good
  <2>1. CASE T = {}
    BY <2>1
  <2>2. CASE T # {}
    <3>1. PICK l \in T, g \in T : \A y \in T : l <= y /\ y <= g
      BY <1>2, <2>2
    <3>2. \E z \in T \cup {x} : \A y \in T \cup {x} : z <= y
      <4>1. CASE l <= x
        BY <3>1, <4>1
      <4>2. CASE x <= l
        <5>1. \A y \in T \cup {x} : x <= y
          BY <3>1, <4>2
        <5> QED
          BY <5>1
      <4> QED
        BY <4>1, <4>2
    <3>3. \E z \in T \cup {x} : \A y \in T \cup {x} : y <= z
      <4>1. CASE x <= g
        BY <3>1, <4>1
      <4>2. CASE g <= x
        <5>1. \A y \in T \cup {x} : y <= x
          BY <3>1, <4>2
        <5> QED
          BY <5>1
      <4> QED
        BY <4>1, <4>2
    <3> QED
      BY <3>2, <3>3
  <2> QED
    BY <2>1, <2>2
<1> HIDE DEF Good
<1>3. S \in Good
  BY <1>1, <1>2, SetInduction
<1>4. \E x \in S : \A y \in S : x <= y
  BY <1>3 DEF Good
<1>5. Min(S) \in S /\ \A y \in S : Min(S) <= y
  BY <1>4 DEF Min
<1> QED
  BY <1>3, <1>5 DEF Good

\* Every natural number has an integer root.
LEMMA RootType ==
  ASSUME NEW x \in Nat
  PROVE  Root(x) \in Nat
<1> DEFINE S == {r \in 0 .. x : r * r <= x}
<1>1. S \in SUBSET Int /\ IsFiniteSet(S) /\ S # {}
  <2>1. IsFiniteSet(0 .. x) /\ S \subseteq 0 .. x
    BY FS_Interval
  <2>2. 0 \in S
    OBVIOUS
  <2> QED
    BY <2>1, <2>2, FS_Subset
<1> HIDE DEF S
<1>2. PICK r \in S : \A y \in S : y <= r
  BY <1>1, Extremes
<1>3. r \in 0 .. x /\ r * r <= x
  BY DEF S
<1>4. (r + 1) * (r + 1) > x
  <2> SUFFICES ASSUME (r + 1) * (r + 1) <= x PROVE FALSE
    BY <1>3
  <2>1. r + 1 <= (r + 1) * (r + 1)
    <3>1. 1 <= r + 1 /\ r + 1 \in Nat /\ 1 \in Int
      BY <1>3
    <3>2. 1 * (r + 1) <= (r + 1) * (r + 1)
      BY <3>1, Product
    <3> QED
      BY <3>1, <3>2
  <2>2. r + 1 \in S
    BY <1>3, <2>1 DEF S
  <2> QED
    BY <1>2, <1>3, <2>2
<1>5. \E s \in 0 .. x : s * s <= x /\ (s + 1) * (s + 1) > x
  BY <1>3, <1>4
<1>6. Root(x) \in 0 .. x
  BY <1>5, Zenon DEF Root
<1> QED
  BY <1>6

------------------------------------------------------------------------------
(***************************************************************************)
(* The DecisionGate.                                                       *)
(***************************************************************************)
\* The assets, the horizons and the assets with a known risk are finite sets.
LEMMA FiniteSets ==
  ASSUME SizingAssumption
  PROVE  /\ IsFiniteSet(Asset) /\ IsFiniteSet(ForecastHorizons) /\ IsFiniteSet(DOMAIN Risk)
         /\ \A S : S \subseteq Asset \/ S \subseteq ForecastHorizons => IsFiniteSet(S)
         /\ Len(AssetOrder) \in Nat
         /\ \A i \in 1 .. Len(AssetOrder) : AssetOrder[i] \in Asset
         /\ \A i, j \in 1 .. Len(AssetOrder) : AssetOrder[i] = AssetOrder[j] => i = j
<1>0. AssetOrder \in Seq(Asset) /\ Cardinality(Asset) = Len(AssetOrder)
  BY DEF SizingAssumption
<1>1. Len(AssetOrder) \in Nat /\ DOMAIN Risk \subseteq Asset /\ IsFiniteSet(ForecastHorizons)
  BY DEF SizingAssumption
<1>2. IsFiniteSet(1 .. Len(AssetOrder))
  BY <1>1, FS_Interval
<1>3. AssetOrder \in Surjection(1 .. Len(AssetOrder), Asset)
  <2>1. AssetOrder \in [1 .. Len(AssetOrder) -> Asset]
    BY <1>0
  <2>2. \A a \in Asset : \E i \in 1 .. Len(AssetOrder) : AssetOrder[i] = a
    BY DEF Asset
  <2> QED
    BY <2>1, <2>2 DEF Surjection
<1>4. IsFiniteSet(Asset) /\ AssetOrder \in Injection(1 .. Len(AssetOrder), Asset)
  <2>1. ASSUME NEW n \in Nat PROVE Cardinality(1 .. n) = n
    BY FS_Interval
  <2>2. Cardinality(1 .. Len(AssetOrder)) = Len(AssetOrder)
    BY <1>1, <2>1
  <2> QED
    BY <1>0, <1>2, <1>3, <2>2, FS_Surjection
<1>5. \A S : S \subseteq Asset \/ S \subseteq ForecastHorizons => IsFiniteSet(S)
  BY <1>1, <1>4, FS_Subset
<1>6. \A i \in 1 .. Len(AssetOrder) : AssetOrder[i] \in Asset
  BY DEF Asset
<1>7. \A i, j \in 1 .. Len(AssetOrder) : AssetOrder[i] = AssetOrder[j] => i = j
  BY <1>4 DEF Injection, IsInjective
<1> QED
  BY <1>1, <1>4, <1>5, <1>6, <1>7

\* Weights that only assets with a known risk have.
Sound(w) == w \in [Asset -> Nat] /\ \A a \in Asset : w[a] > 0 => a \in DOMAIN Risk

\* What the sums over the weights are made of.
LEMMA MeasureTerms ==
  ASSUME SizingAssumption, NEW w, Sound(w), NEW m \in Linear
  PROVE  /\ Held(w) \subseteq DOMAIN Risk /\ Held(w) \subseteq Asset /\ IsFiniteSet(Held(w))
         /\ \A a \in Held(w) : w[a] \in Nat /\ Risk[a][m] \in Nat /\ w[a] * Risk[a][m] \in Nat
         /\ Total([a \in Held(w) |-> w[a] * Risk[a][m]], Held(w)) \in Nat
         /\ Measure(w, m) \in Int
<1>1. Held(w) \subseteq DOMAIN Risk /\ Held(w) \subseteq Asset
  BY DEF Held, Sound
<1>2. IsFiniteSet(Held(w))
  BY <1>1, FiniteSets
<1>3. \A a \in Held(w) : w[a] \in Nat /\ Risk[a][m] \in Nat
  BY <1>1 DEF Sound, SizingAssumption
<1>4. \A a \in Held(w) : w[a] * Risk[a][m] \in Nat
  BY <1>3
<1> DEFINE f == [a \in Held(w) |-> w[a] * Risk[a][m]]
<1>5. \A a \in Held(w) : f[a] \in Nat
  BY <1>4
<1>6. SumFunctionOnSet(f, Held(w)) \in Nat
  <2> HIDE DEF f
  <2> QED
    BY <1>2, <1>5, SumNat
<1>7. Scale \in Nat \ {0}
  BY DEF SizingAssumption
<1>8. SumFunctionOnSet(f, Held(w)) \div Scale \in Int
  <2> HIDE DEF f
  <2> QED
    BY <1>6, <1>7, Division
<1> QED
  BY <1>1, <1>2, <1>3, <1>4, <1>6, <1>8 DEF Total, Measure

\* Smaller weights have a smaller gross weight.
LEMMA GrossMonotone ==
  ASSUME SizingAssumption, NEW v \in [Asset -> Int], NEW w \in [Asset -> Int],
         \A a \in Asset : v[a] <= w[a]
  PROVE  Gross(v) \in Int /\ Gross(w) \in Int /\ Gross(v) <= Gross(w)
<1>1. IsFiniteSet(Asset)
  BY FiniteSets
<1>2. SumFunctionOnSet(v, Asset) \in Int /\ SumFunctionOnSet(w, Asset) \in Int
  BY <1>1, SumInt
<1>3. SumFunctionOnSet(v, Asset) <= SumFunctionOnSet(w, Asset)
  BY <1>1, SumMonotone
<1> QED
  BY <1>2, <1>3 DEF Gross, Total

\* Rust's quotient, times its divisor, does not exceed a bound of the dividend.
LEMMA QuotientTimes ==
  ASSUME NEW x \in Int, NEW z \in Nat, NEW d \in Nat \ {0}, x <= z
  PROVE  Quotient(x, d) \in Int /\ d * Quotient(x, d) <= z
<1>1. CASE x >= 0
  <2>1. x \div d \in Int /\ d * (x \div d) <= x
    BY Division
  <2>2. Quotient(x, d) = x \div d
    BY <1>1 DEF Quotient
  <2>3. d * (x \div d) <= z
    BY <2>1
  <2> QED
    BY <2>1, <2>2, <2>3
<1>2. CASE x < 0
  <2>1. x < d * (0 + 1)
    BY <1>2
  <2>2. Quotient(x, d) \in Int /\ Quotient(x, d) <= 0
    BY <2>1, QuotientBelow
  <2>3. d * Quotient(x, d) <= d * 0
    BY <2>2, Product
  <2> QED
    BY <2>2, <2>3
<1> QED
  BY <1>1, <1>2

\* The shares of some horizons.
LEMMA Shares ==
  ASSUME SizingAssumption, NEW H \in SUBSET ForecastHorizons
  PROVE  /\ IsFiniteSet(H) /\ Scale \in Nat \ {0}
         /\ \A h \in H : Policy.share[h] \in Nat
         /\ Total(Policy.share, H) \in Nat
<1>1. IsFiniteSet(H)
  BY FiniteSets
<1>2. \A h \in H : Policy.share[h] \in Nat
  BY DEF SizingAssumption
<1>3. SumFunctionOnSet(Policy.share, H) \in Nat
  BY <1>1, <1>2, SumNat
<1> QED
  BY <1>1, <1>2, <1>3 DEF Total, SizingAssumption

\* The terms of a mean, and what they add up to.
LEMMA MeanTerms ==
  ASSUME SizingAssumption, NEW H \in SUBSET ForecastHorizons, NEW f \in [H -> Int]
  PROVE  LET g == [h \in H |-> Quotient(f[h] * Policy.share[h], Scale)]
         IN  /\ \A h \in H : g[h] \in Int
             /\ SumFunctionOnSet(g, H) \in Int
<1> DEFINE g == [h \in H |-> Quotient(f[h] * Policy.share[h], Scale)]
<1>1. ASSUME NEW h \in H PROVE g[h] \in Int
  <2>1. f[h] * Policy.share[h] \in Int
    <3>1. f[h] \in Int /\ Policy.share[h] \in Nat
      BY Shares
    <3> QED
      BY <3>1
  <2> QED
    BY <2>1, Shares, QuotientType
<1> HIDE DEF g
<1>2. SumFunctionOnSet(g, H) \in Int
  BY <1>1, Shares, SumInt
<1> QED
  BY <1>1, <1>2 DEF g

\* A mean is an integer, and within a bound of what it is the mean of.
LEMMA MeanBelow ==
  ASSUME SizingAssumption, NEW H \in SUBSET ForecastHorizons, Total(Policy.share, H) > 0,
         NEW f \in [H -> Int]
  PROVE  /\ Mean(f, H) \in Int
         /\ \A y \in Nat : (\A h \in H : f[h] <= y) => Mean(f, H) <= y
<1> DEFINE g == [h \in H |-> Quotient(f[h] * Policy.share[h], Scale)]
           S == Total(Policy.share, H)
           N == SumFunctionOnSet(g, H)
<1>1. /\ IsFiniteSet(H) /\ Scale \in Nat \ {0} /\ S \in Nat \ {0}
      /\ \A h \in H : Policy.share[h] \in Nat
  BY Shares
<1>2. (\A h \in H : g[h] \in Int) /\ N \in Int
  BY MeanTerms
<1>3. Mean(f, H) = Quotient(N * Scale, S)
  BY DEF Mean, Total
<1>4. N * Scale \in Int
  BY <1>1, <1>2
<1>5. Mean(f, H) \in Int
  <2> HIDE DEF N, S
  <2> QED
    BY <1>1, <1>3, <1>4, QuotientType
<1>6. ASSUME NEW y \in Nat, \A h \in H : f[h] <= y
      PROVE  Mean(f, H) <= y
  <2> DEFINE lower == [h \in H |-> Scale * g[h]]
             upper == [h \in H |-> y * Policy.share[h]]
  <2>1. ASSUME NEW h \in H
        PROVE  lower[h] \in Int /\ upper[h] \in Int /\ lower[h] <= upper[h]
    <3>1. f[h] \in Int /\ f[h] <= y /\ Policy.share[h] \in Nat
      BY <1>1, <1>6
    <3>2. f[h] * Policy.share[h] <= y * Policy.share[h]
      BY <3>1, Product
    <3>3. f[h] * Policy.share[h] \in Int /\ y * Policy.share[h] \in Nat
          /\ y * Policy.share[h] \in Int
      BY <3>1
    <3>4. Scale * Quotient(f[h] * Policy.share[h], Scale) <= y * Policy.share[h]
      BY <1>1, <3>2, <3>3, QuotientTimes
    <3>5. lower[h] = Scale * Quotient(f[h] * Policy.share[h], Scale)
          /\ upper[h] = y * Policy.share[h]
      OBVIOUS
    <3>6. g[h] \in Int /\ Scale * g[h] \in Int
      BY <1>1, <1>2
    <3>7. lower[h] \in Int
      BY <3>6, Zenon
    <3> QED
      BY <3>3, <3>4, <3>5, <3>7, Zenon
  <2>2. \A h \in H : lower[h] = Scale * g[h] /\ upper[h] = y * Policy.share[h]
    OBVIOUS
  <2> HIDE DEF lower, upper, g
  <2>3. SumFunctionOnSet(lower, H) <= SumFunctionOnSet(upper, H)
    BY <1>1, <2>1, SumMonotone
  <2>4. SumFunctionOnSet(lower, H) = Scale * SumFunctionOnSet(g, H)
    BY <1>1, <1>2, <2>2, SumTimes
  <2>5. SumFunctionOnSet(upper, H) = y * SumFunctionOnSet(Policy.share, H)
    <3>1. \A h \in H : Policy.share[h] \in Int /\ upper[h] = y * Policy.share[h]
      BY <1>1, <2>2
    <3>2. y \in Int
      OBVIOUS
    <3> QED
      BY <1>1, <3>1, <3>2, SumTimes
  <2>6. Scale * N <= y * S
    BY <2>3, <2>4, <2>5 DEF Total
  <2> HIDE DEF N, S
  <2>7. N * Scale < S * (y + 1)
    <3>1. N * Scale = Scale * N /\ S * (y + 1) = y * S + S
      BY <1>1, <1>2
    <3>2. y * S \in Nat /\ Scale * N \in Int
      BY <1>1, <1>2
    <3> QED
      BY <1>1, <2>6, <3>1, <3>2
  <2>8. Quotient(N * Scale, S) <= y
    BY <1>1, <1>4, <2>7, QuotientBelow
  <2> QED
    BY <1>3, <2>8
<1> QED
  BY <1>5, <1>6

\* What Eligible lets through.
LEMMA EligibleTypes ==
  ASSUME SizingAssumption, NEW grid \in Grids, NEW a \in Eligible(grid)
  PROVE  /\ a \in DOMAIN Risk /\ a \in Asset /\ a \notin Conflicted(grid)
         /\ Edge(grid, a) \in Int /\ Alpha(grid, a) \in Int
         /\ Policy.minEdge <= Edge(grid, a)
         /\ Strength(grid, a) \in Nat
<1> DEFINE H == Counted(grid, a)
<1>1. /\ a \in DOMAIN Risk /\ a \notin Conflicted(grid) /\ Total(Policy.share, H) > 0
      /\ \A h \in H : Calibration(grid, a, h) # Missing
      /\ Edge(grid, a) >= Policy.minEdge
  BY DEF Eligible
<1>2. a \in Asset /\ H \in SUBSET ForecastHorizons /\ Scale \in Nat \ {0}
      /\ Policy.minEdge \in Nat /\ Risk[a].decay \in Nat
  BY <1>1 DEF SizingAssumption, Counted
<1>3. \A h \in H : Calibration(grid, a, h).p \in Nat /\ Calibration(grid, a, h).alpha \in Int
  BY <1>1, <1>2 DEF SizingAssumption
<1>4. Half \in Int
  BY <1>2, Division DEF Half
<1>5. [h \in H |-> Calibration(grid, a, h).p - Half] \in [H -> Int]
      /\ [h \in H |-> Calibration(grid, a, h).alpha] \in [H -> Int]
  BY <1>3, <1>4
<1> HIDE DEF H
<1>6. Mean([h \in H |-> Calibration(grid, a, h).p - Half], H) \in Int
  BY <1>1, <1>2, <1>5, MeanBelow
<1>7. Mean([h \in H |-> Calibration(grid, a, h).alpha], H) \in Int
  BY <1>1, <1>2, <1>5, MeanBelow
<1>8. Edge(grid, a) \in Int /\ Alpha(grid, a) \in Int
  BY <1>6, <1>7 DEF H, Edge, Alpha
<1>9. Strength(grid, a) \in Nat
  BY <1>2, <1>8 DEF Strength, Larger, Smaller
<1> QED
  BY <1>1, <1>2, <1>8, <1>9

\* The cap of an asset.
LEMMA CapType ==
  ASSUME SizingAssumption, NEW a \in DOMAIN Risk
  PROVE  Cap(a) \in Nat
<1> DEFINE v == (Policy.maxVolatility * Scale) \div Risk[a].vol
           b == (Policy.maxBeta * Scale) \div Risk[a].beta
<1>1. /\ Policy.maxVolatility \in Nat /\ Policy.maxBeta \in Nat /\ Scale \in Nat
      /\ Risk[a].vol \in Nat \ {0} /\ Risk[a].beta \in Nat \ {0}
      /\ Risk[a].capital \in Nat /\ Risk[a].liquidity \in Nat
  <2>1. Ceiling["beta"] \in Nat
    BY DEF SizingAssumption, Linear
  <2> QED
    BY <2>1 DEF SizingAssumption, Ceiling
<1>2. v \in Nat /\ b \in Nat
  <2>1. ASSUME NEW x \in Nat, NEW d \in Nat \ {0} PROVE (x * Scale) \div d \in Nat
    <3>1. x * Scale \in Nat /\ d * 0 <= x * Scale
      BY <1>1
    <3>2. (x * Scale) \div d \in Int /\ 0 <= (x * Scale) \div d
      BY <3>1, Division, QuotientAtLeast
    <3> QED
      BY <3>2
  <2> QED
    BY <1>1, <2>1
<1> DEFINE S == {v, b, Risk[a].capital, Risk[a].liquidity}
<1>3. Cap(a) = Min(S)
  BY DEF Cap
<1> HIDE DEF v, b
<1>4. S \in SUBSET Int /\ S \subseteq Nat /\ S # {}
  BY <1>1, <1>2
<1>5. IsFiniteSet(S)
  <2>1. IsFiniteSet({v}) /\ IsFiniteSet({b}) /\ IsFiniteSet({Risk[a].capital})
        /\ IsFiniteSet({Risk[a].liquidity})
    BY FS_Singleton
  <2>2. S = (({v} \cup {b}) \cup {Risk[a].capital}) \cup {Risk[a].liquidity}
    OBVIOUS
  <2> HIDE DEF S
  <2>3. IsFiniteSet({v} \cup {b})
    BY <2>1, FS_Union
  <2>4. IsFiniteSet(({v} \cup {b}) \cup {Risk[a].capital})
    BY <2>1, <2>3, FS_Union
  <2>5. IsFiniteSet((({v} \cup {b}) \cup {Risk[a].capital}) \cup {Risk[a].liquidity})
    BY <2>1, <2>4, FS_Union
  <2> QED
    BY <2>2, <2>5
<1> HIDE DEF S
<1>6. Min(S) \in S
  BY <1>4, <1>5, Extremes
<1> QED
  BY <1>3, <1>4, <1>6

\* The first weights.
LEMMA SizedSound ==
  ASSUME SizingAssumption, NEW grid \in Grids
  PROVE  Sound(Sized(grid))
<1> DEFINE w == Sized(grid)
<1>1. ASSUME NEW a \in Asset
      PROVE  w[a] \in Nat /\ (w[a] > 0 => a \in Eligible(grid))
  <2>1. CASE a \in Eligible(grid)
    <3>1. Cap(a) \in Nat /\ Strength(grid, a) \in Nat /\ Scale \in Nat \ {0}
      BY <2>1, CapType, EligibleTypes DEF SizingAssumption
    <3>2. Cap(a) * Strength(grid, a) \in Nat /\ Scale * 0 <= Cap(a) * Strength(grid, a)
      BY <3>1
    <3>3. (Cap(a) * Strength(grid, a)) \div Scale \in Int
          /\ 0 <= (Cap(a) * Strength(grid, a)) \div Scale
      BY <3>1, <3>2, Division, QuotientAtLeast
    <3>4. w[a] = (Cap(a) * Strength(grid, a)) \div Scale
      BY <2>1 DEF Sized
    <3> QED
      BY <2>1, <3>3, <3>4
  <2>2. CASE a \notin Eligible(grid)
    <3>1. w[a] = 0
      BY <2>2 DEF Sized
    <3> QED
      BY <3>1
  <2> QED
    BY <2>1, <2>2
<1>2. w = [a \in Asset |-> w[a]]
  BY DEF Sized
<1> HIDE DEF w
<1>3. w \in [Asset -> Nat]
  BY <1>1, <1>2
<1>4. \A a \in Asset : w[a] > 0 => a \in DOMAIN Risk
  BY <1>1, EligibleTypes
<1> QED
  BY <1>3, <1>4 DEF Sound, w

\* Scaled to the limit on gross weight.
LEMMA GrossHeld ==
  ASSUME SizingAssumption, NEW w, Sound(w)
  PROVE  Sound(WithinGross(w)) /\ Gross(WithinGross(w)) <= Policy.maxGross
<1> DEFINE G == Policy.maxGross
           S == Gross(w)
           v == WithinGross(w)
<1>1. G \in Nat /\ w \in [Asset -> Nat] /\ IsFiniteSet(Asset)
  BY FiniteSets DEF SizingAssumption, Sound
<1>2. S \in Nat
  BY <1>1, SumNat DEF Gross, Total
<1>3. CASE S <= G
  BY <1>3 DEF WithinGross
<1>4. CASE S > G
  <2>1. v = [a \in Asset |-> (w[a] * G) \div S]
    BY <1>4, <1>1, <1>2 DEF WithinGross
  <2>2. S \in Nat \ {0}
    BY <1>1, <1>2, <1>4
  <2> DEFINE down == [a \in Asset |-> S * v[a]]
             up == [a \in Asset |-> G * w[a]]
  <2> HIDE DEF v, S, G
  <2>3. ASSUME NEW a \in Asset
        PROVE  /\ v[a] \in Nat /\ (v[a] > 0 => w[a] > 0)
               /\ S * v[a] \in Int /\ G * w[a] \in Int /\ S * v[a] <= G * w[a]
    <3>1. w[a] \in Nat /\ w[a] * G \in Nat /\ w[a] * G = G * w[a] /\ S * 0 <= w[a] * G
      BY <1>1, <2>2
    <3>2. v[a] = (w[a] * G) \div S
      BY <2>1
    <3>3. v[a] \in Int /\ 0 <= v[a] /\ S * v[a] <= w[a] * G
      BY <2>2, <3>1, <3>2, Division, QuotientAtLeast
    <3>4. S * v[a] \in Int /\ G * w[a] \in Int
      BY <1>1, <2>2, <3>1, <3>3
    <3>5. w[a] = 0 => v[a] = 0
      <4>1. ASSUME w[a] = 0 PROVE S * v[a] <= 0
        BY <1>1, <3>1, <3>3, <4>1
      <4>2. ASSUME S * v[a] <= 0, v[a] >= 1 PROVE FALSE
        <5>1. S * 1 <= S * v[a]
          BY <2>2, <3>3, <4>2, Product
        <5> QED
          BY <2>2, <3>4, <4>2, <5>1
      <4> QED
        BY <3>3, <4>1, <4>2
    <3> QED
      BY <3>1, <3>3, <3>4, <3>5
  <2>4. Sound(v)
    <3>1. v \in [Asset -> Nat]
      BY <2>1, <2>3
    <3> QED
      BY <2>3, <3>1 DEF Sound
  <2>5. SumFunctionOnSet(v, Asset) \in Nat
    BY <1>1, <2>3, SumNat
  <2>6. SumFunctionOnSet(down, Asset) = S * SumFunctionOnSet(v, Asset)
    <3>1. \A a \in Asset : v[a] \in Int /\ down[a] = S * v[a]
      BY <2>3
    <3>2. S \in Int
      BY <2>2
    <3> HIDE DEF down
    <3> QED
      BY <1>1, <3>1, <3>2, SumTimes
  <2>7. SumFunctionOnSet(up, Asset) = G * SumFunctionOnSet(w, Asset)
    <3>1. \A a \in Asset : w[a] \in Int /\ up[a] = G * w[a]
      BY <1>1
    <3>2. G \in Int
      BY <1>1
    <3> HIDE DEF up
    <3> QED
      BY <1>1, <3>1, <3>2, SumTimes
  <2>8. SumFunctionOnSet(down, Asset) <= SumFunctionOnSet(up, Asset)
    <3>1. \A a \in Asset : down[a] \in Int /\ up[a] \in Int /\ down[a] <= up[a]
      BY <2>3
    <3> HIDE DEF down, up
    <3> QED
      BY <1>1, <3>1, SumMonotone
  <2>9. S * SumFunctionOnSet(v, Asset) <= G * S
    <3>1. S = SumFunctionOnSet(w, Asset)
      BY DEF S, Gross, Total
    <3> QED
      BY <2>6, <2>7, <2>8, <3>1
  <2>10. SumFunctionOnSet(v, Asset) <= G
    <3>1. SUFFICES ASSUME SumFunctionOnSet(v, Asset) >= G + 1 PROVE FALSE
      BY <1>1, <2>5
    <3>2. S * (G + 1) <= S * SumFunctionOnSet(v, Asset)
      BY <1>1, <2>2, <2>5, <3>1, Product
    <3>3. S * (G + 1) = G * S + S
      BY <1>1, <2>2
    <3>4. G * S \in Nat /\ S * SumFunctionOnSet(v, Asset) \in Nat
      BY <1>1, <2>2, <2>5
    <3> QED
      BY <2>2, <2>9, <3>2, <3>3, <3>4
  <2>11. Gross(v) <= Policy.maxGross
    BY <2>10 DEF Gross, Total, G
  <2> QED
    BY <2>4, <2>11 DEF v
<1> QED
  BY <1>1, <1>2, <1>3, <1>4

\* A variance is an integer.
LEMMA VarianceType ==
  ASSUME SizingAssumption, NEW w, Sound(w)
  PROVE  Variance(w) \in Int
<1> DEFINE P == Held(w) \X Held(w)
           f == [p \in P |-> Quotient(w[p[1]] * w[p[2]] * Covariance[p], Scale * Scale)]
<1>1. /\ Held(w) \subseteq DOMAIN Risk /\ Held(w) \subseteq Asset /\ IsFiniteSet(Held(w))
      /\ \A a \in Held(w) : w[a] \in Nat
  <2>1. Held(w) \subseteq DOMAIN Risk /\ Held(w) \subseteq Asset
    BY DEF Held, Sound
  <2> QED
    BY <2>1, FiniteSets DEF Sound
<1>2. IsFiniteSet(P)
  BY <1>1, FS_Product
<1>3. Scale * Scale \in Nat \ {0}
  <2>1. \A n \in Nat \ {0} : n * n \in Nat \ {0}
    <3>1. ASSUME NEW n \in Nat \ {0} PROVE n * n \in Nat \ {0}
      <4>1. n * 1 <= n * n
        BY Product
      <4> QED
        BY <4>1
    <3> QED
      BY <3>1
  <2> QED
    BY <2>1 DEF SizingAssumption
<1>4. ASSUME NEW p \in P PROVE f[p] \in Int
  <2>1. PICK a \in Held(w), b \in Held(w) : p = <<a, b>>
    OBVIOUS
  <2>2. p[1] = a /\ p[2] = b
    BY <2>1
  <2>3. Covariance[p] \in Int
    BY <1>1, <2>1 DEF SizingAssumption
  <2>4. w[p[1]] \in Nat /\ w[p[2]] \in Nat
    BY <1>1, <2>2
  <2>5. w[p[1]] * w[p[2]] * Covariance[p] \in Int
    BY <2>3, <2>4
  <2>6. Quotient(w[p[1]] * w[p[2]] * Covariance[p], Scale * Scale) \in Int
    BY <1>3, <2>5, QuotientType
  <2> QED
    BY <2>6
<1>5. SumFunctionOnSet(f, P) \in Int
  <2> HIDE DEF f, P
  <2> QED
    BY <1>2, <1>4, SumInt
<1> QED
  BY <1>5 DEF Variance, Total

\* A set of four is finite.
LEMMA FourFinite ==
  ASSUME NEW a, NEW b, NEW c, NEW d
  PROVE  IsFiniteSet({a, b, c, d})
<1>1. IsFiniteSet({a}) /\ IsFiniteSet({b}) /\ IsFiniteSet({c}) /\ IsFiniteSet({d})
  BY FS_Singleton
<1>2. {a, b, c, d} = (({a} \cup {b}) \cup {c}) \cup {d}
  OBVIOUS
<1>3. IsFiniteSet({a} \cup {b})
  BY <1>1, FS_Union
<1>4. IsFiniteSet(({a} \cup {b}) \cup {c})
  BY <1>1, <1>3, FS_Union
<1>5. IsFiniteSet((({a} \cup {b}) \cup {c}) \cup {d})
  BY <1>1, <1>4, FS_Union
<1> QED
  BY <1>2, <1>5

\* A limit over a measure that passes it is a fraction of Scale.
LEMMA Fraction ==
  ASSUME NEW limit \in Nat, NEW measured \in Int, measured > limit, NEW scale \in Nat \ {0}
  PROVE  /\ (limit * scale) \div measured \in Nat
         /\ (limit * scale) \div measured <= scale
         /\ ((limit * scale) \div measured) * measured <= limit * scale
<1> DEFINE q == (limit * scale) \div measured
<1>1. measured \in Nat \ {0} /\ limit * scale \in Nat
  OBVIOUS
<1>2. q \in Int /\ measured * q <= limit * scale
  BY <1>1, Division
<1>3. measured * 0 <= limit * scale
  BY <1>1
<1>4. 0 <= q
  BY <1>1, <1>3, QuotientAtLeast
<1>5. limit * scale <= measured * scale
  BY <1>1, Product
<1>6. limit * scale < measured * (scale + 1)
  <2>1. measured * (scale + 1) = measured * scale + measured /\ measured * scale \in Nat
    BY <1>1
  <2> QED
    BY <1>1, <1>5, <2>1
<1>7. q <= scale
  BY <1>1, <1>6, QuotientAtMost
<1> HIDE DEF q
<1>8. q \in Nat /\ q * measured = measured * q
  BY <1>1, <1>2, <1>4
<1>9. q * measured <= limit * scale
  BY <1>2, <1>8
<1> QED
  BY <1>7, <1>8, <1>9 DEF q

\* The factor of the worst of the four risks.
LEMMA FactorBounds ==
  ASSUME SizingAssumption, NEW w, Sound(w), Variance(w) >= 0
  PROVE  /\ RiskFactor(w) \in Nat /\ RiskFactor(w) <= Scale
         /\ \A m \in Linear : Measure(w, m) > Ceiling[m] =>
               RiskFactor(w) * Measure(w, m) <= Ceiling[m] * Scale
<1> DEFINE Q(m) == (Ceiling[m] * Scale) \div Measure(w, m)
           TooMuch == {n \in Linear : Measure(w, n) > Ceiling[n]}
           F == {VolatilityFactor(w)} \cup {Q(m) : m \in TooMuch}
<1>1. /\ Scale \in Nat \ {0} /\ Policy.maxVolatility \in Nat
      /\ \A m \in Linear : Ceiling[m] \in Nat /\ Measure(w, m) \in Int
  <2>1. \A m \in Linear : Measure(w, m) \in Int
    BY MeasureTerms
  <2> QED
    BY <2>1 DEF SizingAssumption
<1>2. Volatility(w) \in Nat
  <2>1. Variance(w) \in Nat
    BY VarianceType
  <2> QED
    BY <2>1, RootType DEF Volatility
<1>3. VolatilityFactor(w) \in Nat /\ VolatilityFactor(w) <= Scale
  <2>1. CASE Volatility(w) > Policy.maxVolatility
    <3>1. /\ (Policy.maxVolatility * Scale) \div Volatility(w) \in Nat
          /\ (Policy.maxVolatility * Scale) \div Volatility(w) <= Scale
      BY <1>1, <1>2, <2>1, Fraction
    <3> QED
      BY <2>1, <3>1 DEF VolatilityFactor
  <2>2. CASE ~(Volatility(w) > Policy.maxVolatility)
    <3>1. VolatilityFactor(w) = Scale
      BY <2>2 DEF VolatilityFactor
    <3> QED
      BY <1>1, <3>1
  <2> QED
    BY <2>1, <2>2
<1>4. ASSUME NEW m \in TooMuch
      PROVE  Q(m) \in Nat /\ Q(m) * Measure(w, m) <= Ceiling[m] * Scale
  BY <1>1, Fraction
<1>5. RiskFactor(w) = Min(F)
  BY DEF RiskFactor
<1>6. IsFiniteSet(F)
  <2>1. F \subseteq {VolatilityFactor(w), Q("beta"), Q("shortfall"), Q("gap")}
    BY DEF Linear
  <2>2. IsFiniteSet({VolatilityFactor(w), Q("beta"), Q("shortfall"), Q("gap")})
    BY FourFinite
  <2> HIDE DEF F, Q
  <2> QED
    BY <2>1, <2>2, FS_Subset
<1>7. F \subseteq Nat /\ VolatilityFactor(w) \in F /\ \A m \in TooMuch : Q(m) \in F
  BY <1>3, <1>4
<1> HIDE DEF F, Q
<1>8. Min(F) \in F /\ \A y \in F : Min(F) <= y
  <2>1. F \in SUBSET Int /\ F # {}
    BY <1>7
  <2> QED
    BY <1>6, <2>1, Extremes
<1>9. RiskFactor(w) \in Nat /\ RiskFactor(w) <= Scale
  <2>1. RiskFactor(w) \in Nat /\ RiskFactor(w) <= VolatilityFactor(w)
    BY <1>5, <1>7, <1>8
  <2>2. \A x, y, z \in Nat : x <= y /\ y <= z => x <= z
    OBVIOUS
  <2>3. Scale \in Nat
    BY <1>1
  <2> QED
    BY <1>3, <2>1, <2>2, <2>3, Zenon
<1>10. ASSUME NEW m \in Linear, Measure(w, m) > Ceiling[m]
       PROVE  RiskFactor(w) * Measure(w, m) <= Ceiling[m] * Scale
  <2>1. m \in TooMuch
    BY <1>10
  <2>2. Q(m) \in Nat /\ Q(m) * Measure(w, m) <= Ceiling[m] * Scale /\ RiskFactor(w) <= Q(m)
    BY <1>4, <1>5, <1>7, <1>8, <2>1
  <2>3. Measure(w, m) \in Nat /\ Ceiling[m] * Scale \in Nat
    BY <1>1, <1>10
  <2>4. RiskFactor(w) * Measure(w, m) <= Q(m) * Measure(w, m)
    BY <1>9, <2>2, <2>3, Product
  <2>5. RiskFactor(w) * Measure(w, m) \in Nat /\ Q(m) * Measure(w, m) \in Nat
    BY <1>9, <2>2, <2>3
  <2> QED
    BY <2>2, <2>3, <2>4, <2>5
<1> QED
  BY <1>9, <1>10

\* Smaller weights have smaller measures.
LEMMA MeasureMonotone ==
  ASSUME SizingAssumption, NEW v, Sound(v), NEW w, Sound(w), \A a \in Asset : v[a] <= w[a],
         NEW m \in Linear
  PROVE  /\ Total([a \in Held(v) |-> v[a] * Risk[a][m]], Held(v))
              <= Total([a \in Held(w) |-> w[a] * Risk[a][m]], Held(w))
         /\ Measure(v, m) <= Measure(w, m)
<1> DEFINE V == Held(v)
           W == Held(w)
           f == [a \in V |-> v[a] * Risk[a][m]]
           g == [a \in W |-> w[a] * Risk[a][m]]
<1>1. /\ V \subseteq W /\ IsFiniteSet(V) /\ IsFiniteSet(W)
      /\ \A a \in V : f[a] \in Nat
      /\ \A a \in W : g[a] \in Nat
      /\ SumFunctionOnSet(f, V) \in Nat /\ SumFunctionOnSet(g, W) \in Nat
      /\ Scale \in Nat \ {0}
  <2>1. V \subseteq W
    BY DEF Held, Sound
  <2>2. Scale \in Nat \ {0}
    BY DEF SizingAssumption
  <2> QED
    BY <2>1, <2>2, MeasureTerms DEF Total
<1>2. ASSUME NEW a \in V PROVE f[a] <= g[a]
  <2>1. a \in W /\ a \in Asset /\ v[a] \in Nat /\ w[a] \in Nat /\ Risk[a][m] \in Nat
        /\ v[a] <= w[a]
    BY <1>1, MeasureTerms
  <2>2. v[a] * Risk[a][m] <= w[a] * Risk[a][m]
    BY <2>1, Product
  <2> QED
    BY <2>1, <2>2
<1> HIDE DEF V, W, f, g
<1>3. SumFunctionOnSet(f, V) <= SumFunctionOnSet(g, V)
  <2>1. \A a \in V : f[a] \in Int /\ g[a] \in Int /\ f[a] <= g[a]
    BY <1>1, <1>2
  <2> QED
    BY <1>1, <2>1, SumMonotone
<1>4. SumFunctionOnSet(g, V) <= SumFunctionOnSet(g, W)
  BY <1>1, SumSubset
<1>5. SumFunctionOnSet(g, V) \in Nat
  <2>1. \A a \in V : g[a] \in Nat
    BY <1>1
  <2> QED
    BY <1>1, <2>1, SumNat
<1>6. SumFunctionOnSet(f, V) <= SumFunctionOnSet(g, W)
  BY <1>1, <1>3, <1>4, <1>5
<1>7. SumFunctionOnSet(f, V) \div Scale <= SumFunctionOnSet(g, W) \div Scale
  <2> DEFINE x == SumFunctionOnSet(f, V)
             y == SumFunctionOnSet(g, W)
  <2>1. x \in Nat /\ y \in Nat /\ x <= y
    BY <1>1, <1>6
  <2> HIDE DEF x, y
  <2>2. /\ x \div Scale \in Int /\ Scale * (x \div Scale) <= x
        /\ y \div Scale \in Int /\ y < Scale * (y \div Scale) + Scale
    BY <1>1, <2>1, Division
  <2>3. Scale * (x \div Scale) <= y
    BY <1>1, <2>1, <2>2
  <2>4. x \div Scale <= y \div Scale
    BY <1>1, <2>1, <2>2, <2>3, QuotientAtLeast
  <2> QED
    BY <2>4 DEF x, y
<1> QED
  BY <1>6, <1>7 DEF Total, Measure, V, W, f, g

\* What a scaled sum divides to, when its factor was chosen for the limit.
LEMMA ScaledBelow ==
  ASSUME NEW scale \in Nat \ {0}, NEW x \in Nat, NEW y \in Nat, NEW factor \in Nat,
         NEW limit \in Nat, factor <= scale, scale * y <= factor * x,
         factor * (x \div scale) <= limit * scale
  PROVE  y \div scale <= limit
<1> DEFINE q == x \div scale
<1>1. q \in Int /\ x < scale * q + scale
  BY Division
<1>2. factor * (x \div scale) = factor * q
  OBVIOUS
<1> HIDE DEF q
<1>3. x + 1 <= scale * q + scale
  BY <1>1
<1>4. factor * x <= factor * (scale * q + scale - 1)
  <2>1. x <= scale * q + scale - 1 /\ scale * q + scale - 1 \in Int
    BY <1>1
  <2> QED
    BY <2>1, Product
<1>5. factor * (scale * q + scale - 1) = scale * (factor * q) + factor * scale - factor
  BY <1>1
<1>6. scale * (factor * q) <= scale * (limit * scale)
  <2>1. factor * q \in Int /\ limit * scale \in Int /\ factor * q <= limit * scale
    BY <1>1, <1>2
  <2> QED
    BY <2>1, Product
<1>7. scale * y < scale * (scale * (limit + 1))
  <2>1. CASE factor = 0
    <3>1. scale * y <= 0
      BY <2>1
    <3>2. scale * (limit + 1) >= 1
      <4>1. scale * 1 <= scale * (limit + 1)
        BY Product
      <4> QED
        BY <4>1
    <3>3. scale * 1 <= scale * (scale * (limit + 1))
      <4>1. scale * (limit + 1) \in Int
        OBVIOUS
      <4> QED
        BY <3>2, <4>1, Product
    <3>4. scale * (scale * (limit + 1)) \in Int
      OBVIOUS
    <3> QED
      BY <3>1, <3>3, <3>4
  <2>2. CASE factor > 0
    <3>1. factor * scale <= scale * scale
      BY Product
    <3>2. scale * (scale * (limit + 1)) = scale * (limit * scale) + scale * scale
      OBVIOUS
    <3>3. /\ scale * y \in Int /\ factor * x \in Int /\ scale * (factor * q) \in Int
          /\ factor * scale \in Int /\ scale * (limit * scale) \in Int /\ scale * scale \in Int
      BY <1>1
    <3>4. factor * x <= scale * (factor * q) + factor * scale - factor
      BY <1>4, <1>5
    <3> QED
      BY <1>6, <2>2, <3>1, <3>2, <3>3, <3>4
  <2> QED
    BY <2>1, <2>2
<1>8. y < scale * (limit + 1)
  <2>1. SUFFICES ASSUME scale * (limit + 1) <= y PROVE FALSE
    OBVIOUS
  <2>2. scale * (limit + 1) \in Int
    OBVIOUS
  <2>3. scale * (scale * (limit + 1)) <= scale * y
    BY <2>1, <2>2, Product
  <2>4. scale * (scale * (limit + 1)) \in Int /\ scale * y \in Int
    OBVIOUS
  <2> QED
    BY <1>7, <2>3, <2>4
<1> QED
  BY <1>8, QuotientAtMost

\* A number scaled by a fraction.
LEMMA ScaledNumber ==
  ASSUME NEW n \in Nat, NEW f \in Nat, NEW d \in Nat \ {0}
  PROVE  /\ (n * f) \div d \in Nat /\ d * ((n * f) \div d) <= n * f
         /\ f <= d => (n * f) \div d <= n
<1> DEFINE x == n * f
<1>1. x \in Nat /\ d * 0 <= x
  OBVIOUS
<1>2. f <= d => x < d * (n + 1)
  <2>1. SUFFICES ASSUME f <= d PROVE x < d * (n + 1)
    OBVIOUS
  <2>2. x <= n * d
    BY <2>1, Product
  <2>3. d * (n + 1) = n * d + d /\ n * d \in Nat
    OBVIOUS
  <2> QED
    BY <1>1, <2>2, <2>3
<1> HIDE DEF x
<1>3. x \div d \in Int /\ 0 <= x \div d /\ d * (x \div d) <= x
  BY <1>1, Division, QuotientAtLeast
<1>4. f <= d => x \div d <= n
  BY <1>1, <1>2, QuotientAtMost
<1> QED
  BY <1>3, <1>4 DEF x

\* Scaled to the limits on risk.
LEMMA RiskHeld ==
  ASSUME SizingAssumption, NEW w, Sound(w), Gross(w) <= Policy.maxGross, Variance(w) >= 0
  PROVE  /\ Sound(WithinRisk(w)) /\ Gross(WithinRisk(w)) <= Policy.maxGross
         /\ \A m \in Linear : Measure(WithinRisk(w), m) <= Ceiling[m]
<1> DEFINE F == RiskFactor(w)
           v == WithinRisk(w)
<1>1. F \in Nat /\ F <= Scale /\ Scale \in Nat \ {0} /\ w \in [Asset -> Nat]
  BY FactorBounds DEF SizingAssumption, Sound
<1>2. v = [a \in Asset |-> (w[a] * F) \div Scale]
  BY DEF WithinRisk
<1>3. \A m \in Linear : Measure(w, m) > Ceiling[m] => F * Measure(w, m) <= Ceiling[m] * Scale
  BY FactorBounds
<1> HIDE DEF F, v
<1>4. ASSUME NEW a \in Asset
      PROVE  v[a] \in Nat /\ v[a] <= w[a] /\ Scale * v[a] <= w[a] * F
  <2>1. w[a] \in Nat /\ v[a] = (w[a] * F) \div Scale
    BY <1>1, <1>2
  <2>2. /\ (w[a] * F) \div Scale \in Nat /\ Scale * ((w[a] * F) \div Scale) <= w[a] * F
        /\ (w[a] * F) \div Scale <= w[a]
    BY <1>1, <2>1, ScaledNumber
  <2> QED
    BY <2>1, <2>2, Zenon
<1>5. v \in [Asset -> Nat]
  BY <1>2, <1>4
<1>6. Sound(v)
  <2>1. ASSUME NEW a \in Asset, v[a] > 0 PROVE a \in DOMAIN Risk
    <3>1. w[a] > 0
      BY <1>1, <1>4, <2>1
    <3> QED
      BY <3>1 DEF Sound
  <2> QED
    BY <1>5, <2>1 DEF Sound
<1>7. Gross(v) <= Policy.maxGross
  <2>1. v \in [Asset -> Int] /\ w \in [Asset -> Int] /\ \A a \in Asset : v[a] <= w[a]
    BY <1>1, <1>4, <1>5
  <2>2. Gross(v) \in Int /\ Gross(w) \in Int /\ Gross(v) <= Gross(w)
    BY <2>1, GrossMonotone
  <2>3. Policy.maxGross \in Nat
    BY DEF SizingAssumption
  <2> QED
    BY <2>2, <2>3
<1>8. ASSUME NEW m \in Linear PROVE Measure(v, m) <= Ceiling[m]
  <2> DEFINE V == Held(v)
             W == Held(w)
             f == [a \in V |-> v[a] * Risk[a][m]]
             g == [a \in W |-> w[a] * Risk[a][m]]
             x == SumFunctionOnSet(g, W)
             y == SumFunctionOnSet(f, V)
  <2>1. /\ V \subseteq Asset /\ W \subseteq Asset /\ IsFiniteSet(V) /\ IsFiniteSet(W)
        /\ \A a \in V : f[a] \in Nat /\ f[a] = v[a] * Risk[a][m] /\ Risk[a][m] \in Nat
        /\ \A a \in W : g[a] \in Nat /\ g[a] = w[a] * Risk[a][m]
        /\ x \in Nat /\ y \in Nat
        /\ Measure(w, m) = x \div Scale /\ Measure(v, m) = y \div Scale
        /\ Measure(w, m) \in Int /\ Measure(v, m) \in Int
    <3>1. Measure(w, m) = x \div Scale /\ Measure(v, m) = y \div Scale
      BY DEF Measure, Total
    <3> QED
      BY <1>6, <3>1, MeasureTerms DEF Total
  <2>2. V \subseteq W
    BY <1>1, <1>4 DEF Held
  <2>3. Ceiling[m] \in Nat
    BY DEF SizingAssumption
  <2> HIDE DEF V, W, f, g
  <2>4. CASE Measure(w, m) <= Ceiling[m]
    <3>1. Measure(v, m) <= Measure(w, m)
      BY <1>4, <1>6, MeasureMonotone
    <3> HIDE DEF x, y
    <3> QED
      BY <2>1, <2>3, <2>4, <3>1
  <2>5. CASE Measure(w, m) > Ceiling[m]
    <3> DEFINE down == [a \in V |-> Scale * f[a]]
               up == [a \in W |-> F * g[a]]
    <3>1. ASSUME NEW a \in V PROVE down[a] \in Int /\ up[a] \in Int /\ down[a] <= up[a]
      <4>1. a \in W /\ a \in Asset /\ v[a] \in Nat /\ w[a] \in Nat /\ Risk[a][m] \in Nat
        BY <1>1, <1>5, <2>1, <2>2
      <4>2. (Scale * v[a]) * Risk[a][m] <= (w[a] * F) * Risk[a][m]
        <5>1. Scale * v[a] \in Int /\ w[a] * F \in Int
          BY <1>1, <4>1
        <5> QED
          BY <1>4, <4>1, <5>1, Product
      <4>3. /\ (Scale * v[a]) * Risk[a][m] = Scale * (v[a] * Risk[a][m])
            /\ (w[a] * F) * Risk[a][m] = F * (w[a] * Risk[a][m])
            /\ Scale * (v[a] * Risk[a][m]) \in Int /\ F * (w[a] * Risk[a][m]) \in Int
        BY <1>1, <4>1
      <4>4. down[a] = Scale * (v[a] * Risk[a][m]) /\ up[a] = F * (w[a] * Risk[a][m])
        BY <2>1, <4>1
      <4> HIDE DEF down, up
      <4> QED
        BY <4>2, <4>3, <4>4
    <3>2. \A a \in W : up[a] = F * g[a] /\ up[a] \in Nat
      BY <1>1, <2>1
    <3>3. \A a \in V : down[a] = Scale * f[a]
      OBVIOUS
    <3> HIDE DEF down, up
    <3>4. SumFunctionOnSet(down, V) <= SumFunctionOnSet(up, V)
      BY <2>1, <3>1, SumMonotone
    <3>5. SumFunctionOnSet(up, V) <= SumFunctionOnSet(up, W)
      BY <2>1, <2>2, <3>2, SumSubset
    <3>6. SumFunctionOnSet(down, V) = Scale * y
      <4>1. \A a \in V : f[a] \in Int /\ down[a] = Scale * f[a]
        BY <2>1, <3>3
      <4> QED
        BY <1>1, <2>1, <4>1, SumTimes
    <3>7. SumFunctionOnSet(up, W) = F * x
      <4>1. \A a \in W : g[a] \in Int /\ up[a] = F * g[a]
        BY <2>1, <3>2
      <4>2. F \in Int
        BY <1>1
      <4> QED
        BY <2>1, <4>1, <4>2, SumTimes
    <3>8. SumFunctionOnSet(up, V) \in Int
      <4>1. \A a \in V : up[a] \in Int
        BY <3>1
      <4> QED
        BY <2>1, <4>1, SumInt
    <3> HIDE DEF x, y
    <3>9. Scale * y <= F * x
      <4>1. Scale * y \in Int /\ F * x \in Int
        BY <1>1, <2>1
      <4> QED
        BY <3>4, <3>5, <3>6, <3>7, <3>8, <4>1
    <3>10. F * (x \div Scale) <= Ceiling[m] * Scale
      BY <1>3, <2>1, <2>5
    <3>11. y \div Scale <= Ceiling[m]
      BY <1>1, <2>1, <2>3, <3>9, <3>10, ScaledBelow
    <3> QED
      BY <2>1, <3>11
  <2> HIDE DEF x, y
  <2> QED
    BY <2>1, <2>3, <2>4, <2>5
<1> QED
  BY <1>6, <1>7, <1>8 DEF v

\* No weights at all.
LEMMA NoWeights ==
  ASSUME SizingAssumption
  PROVE  LET w == [a \in Asset |-> 0]
         IN  /\ Sound(w) /\ Gross(w) <= Policy.maxGross
             /\ \A m \in Linear : Measure(w, m) <= Ceiling[m]
<1> DEFINE w == [a \in Asset |-> 0]
<1>1. w \in [Asset -> Nat] /\ \A a \in Asset : w[a] = 0
  OBVIOUS
<1>2. Policy.maxGross \in Nat /\ Scale \in Nat \ {0} /\ \A m \in Linear : Ceiling[m] \in Nat
  BY DEF SizingAssumption
<1> HIDE DEF w
<1>3. Sound(w) /\ Held(w) = {}
  BY <1>1 DEF Sound, Held
<1>4. SumFunctionOnSet(w, Asset) = 0
  <2>1. IsFiniteSet(Asset) /\ {} \in SUBSET Asset
    BY FiniteSets
  <2>2. \A a \in Asset : w[a] = IF a \in {} THEN 1 ELSE 0
    BY <1>1
  <2>3. SumFunctionOnSet(w, Asset) = Cardinality({})
    BY <2>1, <2>2, SumCounts
  <2> QED
    BY <2>3, FS_EmptySet
<1>5. ASSUME NEW m \in Linear PROVE Measure(w, m) = 0
  <2>1. Measure(w, m) = SumFunctionOnSet([a \in {} |-> w[a] * Risk[a][m]], {}) \div Scale
    BY <1>3 DEF Measure, Total
  <2>2. SumFunctionOnSet([a \in {} |-> w[a] * Risk[a][m]], {}) = 0
    BY SumEmpty
  <2>3. 0 \div Scale = 0
    BY <1>2
  <2> QED
    BY <2>1, <2>2, <2>3
<1> QED
  BY <1>2, <1>3, <1>4, <1>5 DEF Gross, Total, w

\* An asset that one horizon expects to fall is not eligible, unless the policy
\* asks for no edge at all.
LEMMA FallingNotEligible ==
  ASSUME SizingAssumption, Policy.minEdge > 0, NEW grid \in Grids, NEW a \in Asset,
         Bearish(grid, a) # {}
  PROVE  a \notin Eligible(grid)
<1> SUFFICES ASSUME a \in Eligible(grid) PROVE FALSE
  OBVIOUS
<1> DEFINE H == Counted(grid, a)
           f == [h \in H |-> Calibration(grid, a, h).p - Half]
<1>1. /\ a \notin Conflicted(grid) /\ Total(Policy.share, H) > 0
      /\ \A h \in H : Calibration(grid, a, h) # Missing
      /\ Edge(grid, a) >= Policy.minEdge
  BY DEF Eligible
<1>2. H \in SUBSET ForecastHorizons /\ Scale \in Nat \ {0} /\ Policy.minEdge \in Nat \ {0}
  BY DEF SizingAssumption, Counted
<1>3. Bullish(grid, a) = {}
  BY <1>1 DEF Conflicted
<1>4. Half \in Int
  BY <1>2, Division DEF Half
<1>5. ASSUME NEW h \in H
      PROVE  Calibration(grid, a, h).p \in Nat
             /\ ~(Calibration(grid, a, h).p >= Half + Policy.minEdge)
  BY <1>1, <1>2, <1>3 DEF SizingAssumption, Bullish
<1>6. \A h \in H : f[h] \in Int /\ f[h] <= Policy.minEdge - 1
  BY <1>2, <1>4, <1>5
<1>7. f \in [H -> Int]
  BY <1>4, <1>5
<1>8. Edge(grid, a) = Mean(f, H)
  BY DEF Edge
<1> HIDE DEF f, H
<1>9. Policy.minEdge - 1 \in Nat
  BY <1>2
<1>10. Mean(f, H) \in Int /\ Mean(f, H) <= Policy.minEdge - 1
  BY <1>1, <1>2, <1>6, <1>7, <1>9, MeanBelow
<1> QED
  BY <1>1, <1>2, <1>8, <1>10

\* Neither scaling makes a weight of nothing.
LEMMA StaysZero ==
  ASSUME SizingAssumption, NEW w, Sound(w), Variance(WithinGross(w)) >= 0,
         NEW a \in Asset, w[a] = 0
  PROVE  WithinRisk(WithinGross(w))[a] = 0
<1> DEFINE v == WithinGross(w)
<1>1. /\ Scale \in Nat \ {0} /\ Policy.maxGross \in Nat /\ w \in [Asset -> Nat]
      /\ IsFiniteSet(Asset)
  BY FiniteSets DEF SizingAssumption, Sound
<1>2. Sound(v) /\ RiskFactor(v) \in Nat
  BY GrossHeld, FactorBounds
<1>3. Gross(w) \in Nat
  BY <1>1, SumNat DEF Gross, Total
<1>4. \A d \in Nat \ {0}, f \in Nat : (0 * f) \div d = 0
  OBVIOUS
<1>5. v[a] = 0
  <2>1. CASE Gross(w) <= Policy.maxGross
    BY <2>1 DEF WithinGross
  <2>2. CASE Gross(w) > Policy.maxGross
    <3>1. v[a] = (w[a] * Policy.maxGross) \div Gross(w) /\ Gross(w) \in Nat \ {0}
      BY <1>1, <1>3, <2>2 DEF WithinGross
    <3> QED
      BY <1>1, <1>4, <3>1
  <2> QED
    BY <1>1, <1>3, <2>1, <2>2
<1>6. WithinRisk(v)[a] = (v[a] * RiskFactor(v)) \div Scale
  BY DEF WithinRisk
<1> HIDE DEF v
<1>7. WithinRisk(v)[a] = 0
  BY <1>1, <1>2, <1>4, <1>5, <1>6
<1> QED
  BY <1>7 DEF v

\* What every decision keeps to.
LEMMA DecisionHeld ==
  ASSUME SizingAssumption, NEW d \in Decisions
  PROVE  /\ d.is = "decided" /\ Sound(d.weights) /\ Gross(d.weights) <= Policy.maxGross
         /\ \A m \in Linear : Measure(d.weights, m) <= Ceiling[m]
         /\ d.against \subseteq Asset
         /\ Policy.minEdge > 0 => \A a \in d.against : d.weights[a] = 0
<1>1. CASE d \in {DecisionOf(grid, Policy.minConfidence - 1) : grid \in Grids}
  <2>1. PICK grid \in Grids : d = DecisionOf(grid, Policy.minConfidence - 1)
    BY <1>1
  <2>2. Policy.minConfidence \in Nat
    BY DEF SizingAssumption
  <2>3. Policy.minConfidence - 1 < Policy.minConfidence
    BY <2>2
  <2>4. Target(grid, Policy.minConfidence - 1) = [a \in Asset |-> 0]
    BY <2>3 DEF Target
  <2>5. d.is = "decided" /\ d.weights = [a \in Asset |-> 0] /\ d.against \subseteq Asset
    BY <2>1, <2>4 DEF DecisionOf
  <2> QED
    BY <2>5, NoWeights
<1>2. CASE d \in {DecisionOf(grid, Policy.minConfidence) : grid \in {g \in Grids : Decidable(g)}}
  <2>1. PICK grid \in Grids : Decidable(grid) /\ d = DecisionOf(grid, Policy.minConfidence)
    BY <1>2
  <2> DEFINE s == Sized(grid)
             v == WithinGross(s)
  <2>2. Policy.minConfidence \in Nat
    BY DEF SizingAssumption
  <2>3. Target(grid, Policy.minConfidence) = WithinRisk(v)
    BY <2>2 DEF Target
  <2>4. /\ d.is = "decided" /\ d.weights = WithinRisk(v)
        /\ d.against = {a \in Asset : Bearish(grid, a) # {}}
    BY <2>1, <2>3 DEF DecisionOf
  <2>5. Variance(v) >= 0
    BY <2>1 DEF Decidable
  <2>6. Sound(s)
    BY SizedSound
  <2>7. Sound(v) /\ Gross(v) <= Policy.maxGross
    BY <2>6, GrossHeld
  <2>8. ASSUME Policy.minEdge > 0, NEW a \in Asset, Bearish(grid, a) # {}
        PROVE  WithinRisk(v)[a] = 0
    <3>1. s[a] = 0
      BY <2>8, FallingNotEligible DEF Sized
    <3> QED
      BY <2>5, <2>6, <3>1, StaysZero
  <2> HIDE DEF v, s
  <2>9. /\ Sound(WithinRisk(v)) /\ Gross(WithinRisk(v)) <= Policy.maxGross
        /\ \A m \in Linear : Measure(WithinRisk(v), m) <= Ceiling[m]
    BY <2>5, <2>7, RiskHeld
  <2> QED
    BY <2>4, <2>8, <2>9
<1> QED
  BY <1>1, <1>2 DEF Decisions

------------------------------------------------------------------------------
(***************************************************************************)
(* The ExecutionGate: what the buys share.                                 *)
(***************************************************************************)
\* At most k assets of a set have fewer than k of the set before them.
LEMMA FirstFew ==
  ASSUME SizingAssumption, NEW S \in SUBSET Asset, NEW k \in Nat
  PROVE  Cardinality({a \in S : Cardinality({b \in S : Earlier(b, a)}) < k}) <= k
<1> DEFINE Rank(a) == Cardinality({b \in S : Earlier(b, a)})
           C == {a \in S : Rank(a) < k}
           P == {i \in 1 .. Len(AssetOrder) : AssetOrder[i] \in C}
<1>1. /\ IsFiniteSet(C) /\ C \subseteq S /\ IsFiniteSet(S)
      /\ \A a \in S : Rank(a) \in Nat
  <2>1. C \subseteq Asset /\ C \subseteq S
    OBVIOUS
  <2>2. ASSUME NEW a \in S PROVE Rank(a) \in Nat
    <3>1. {b \in S : Earlier(b, a)} \subseteq Asset
      OBVIOUS
    <3>2. IsFiniteSet({b \in S : Earlier(b, a)})
      BY <3>1, FiniteSets
    <3> QED
      BY <3>2, FS_CardinalityType
  <2> QED
    BY <2>1, <2>2, FiniteSets
<1>2. \A a \in C : a \in S /\ Rank(a) < k
  OBVIOUS
<1>3. CASE C = {}
  <2>1. Cardinality(C) = 0
    BY <1>3, FS_EmptySet
  <2> QED
    BY <2>1
<1>4. CASE C # {}
  <2>1. Len(AssetOrder) \in Nat /\ P \in SUBSET Int /\ IsFiniteSet(P)
    <3>1. Len(AssetOrder) \in Nat
      BY FiniteSets
    <3>2. IsFiniteSet(1 .. Len(AssetOrder))
      BY <3>1, FS_Interval
    <3>3. P \subseteq 1 .. Len(AssetOrder)
      OBVIOUS
    <3> HIDE DEF P
    <3>4. IsFiniteSet(P)
      BY <3>2, <3>3, FS_Subset
    <3> QED
      BY <3>1, <3>3, <3>4
  <2>2. \A a \in C : \E i \in P : AssetOrder[i] = a
    BY DEF Asset
  <2>3. P # {}
    BY <1>4, <2>2
  <2>4. \A i \in P : i \in 1 .. Len(AssetOrder) /\ AssetOrder[i] \in C
    OBVIOUS
  <2> HIDE DEF P, C
  <2>5. PICK i \in P : \A j \in P : j <= i
    BY <2>1, <2>3, Extremes
  <2> DEFINE l == AssetOrder[i]
             D == {b \in S : Earlier(b, l)}
  <2>6. l \in C
    BY <2>4
  <2>7. C \ {l} \subseteq D
    <3>1. SUFFICES ASSUME NEW b \in C, b # l PROVE b \in S /\ Earlier(b, l)
      OBVIOUS
    <3>2. PICK j \in P : AssetOrder[j] = b
      BY <2>2
    <3>3. j <= i /\ j # i /\ i \in Int /\ j \in Int
      BY <2>1, <2>5, <3>1, <3>2
    <3>4. j < i
      BY <3>3
    <3> QED
      BY <1>2, <2>4, <3>2, <3>4 DEF Earlier
  <2>8. D \subseteq S /\ Rank(l) = Cardinality(D)
    OBVIOUS
  <2> HIDE DEF D, Rank
  <2>9. IsFiniteSet(D)
    BY <1>1, <2>8, FS_Subset
  <2>10. Cardinality(C \ {l}) <= Cardinality(D)
    BY <2>7, <2>9, FS_Subset
  <2>11. Cardinality(C \ {l}) = Cardinality(C) - 1 /\ Cardinality(C) \in Nat
    BY <1>1, <2>6, FS_RemoveElement, FS_CardinalityType
  <2>12. Rank(l) \in Nat /\ Rank(l) < k
    BY <1>1, <1>2, <2>6
  <2>13. Cardinality(C) <= k
    BY <2>8, <2>10, <2>11, <2>12
  <2> QED
    BY <2>13 DEF C, Rank
<1> QED
  BY <1>3, <1>4

\* The proportional parts do not pass the limit that they are parts of.
LEMMA PartsFit ==
  ASSUME NEW B, IsFiniteSet(B), NEW want, \A a \in B : want[a] \in Nat \ {0},
         NEW limit \in Nat, SumFunctionOnSet(want, B) > limit
  PROVE  LET all == SumFunctionOnSet(want, B)
             part == [a \in B |-> (want[a] * limit) \div all]
         IN  /\ SumFunctionOnSet(part, B) \in Nat /\ SumFunctionOnSet(part, B) <= limit
             /\ \A a \in B : part[a] \in Nat /\ part[a] + 1 <= want[a]
<1> DEFINE all == SumFunctionOnSet(want, B)
           part == [a \in B |-> (want[a] * limit) \div all]
           down == [a \in B |-> all * part[a]]
           up == [a \in B |-> limit * want[a]]
<1>1. all \in Nat \ {0} /\ all > limit
  <2>1. \A a \in B : want[a] \in Nat
    OBVIOUS
  <2>2. SumFunctionOnSet(want, B) \in Nat
    BY <2>1, SumNat
  <2> QED
    BY <2>2
<1>2. all = SumFunctionOnSet(want, B)
  OBVIOUS
<1> HIDE DEF all
<1>3. ASSUME NEW a \in B
      PROVE  /\ part[a] \in Nat /\ part[a] + 1 <= want[a]
             /\ all * part[a] \in Nat /\ limit * want[a] \in Nat
             /\ all * part[a] <= limit * want[a]
  <2> DEFINE n == want[a]
             q == (n * limit) \div all
  <2>1. n \in Nat \ {0} /\ part[a] = q
    OBVIOUS
  <2> HIDE DEF n, part
  <2>2. q \in Nat /\ all * q <= n * limit
    BY <1>1, <2>1, ScaledNumber
  <2>3. q <= n - 1
    <3>1. n * (limit + 1) <= n * all
      BY <1>1, <2>1, Product
    <3>2. n * (limit + 1) = n * limit + n /\ n * all = all * n /\ n * limit \in Nat
          /\ n * all \in Nat
      BY <1>1, <2>1
    <3>3. n * limit < all * ((n - 1) + 1)
      BY <2>1, <3>1, <3>2
    <3>4. n - 1 \in Int /\ n * limit \in Int
      BY <2>1
    <3> QED
      BY <1>1, <3>3, <3>4, QuotientAtMost
  <2>4. all * q \in Nat /\ limit * n \in Nat /\ n * limit = limit * n
    BY <1>1, <2>1, <2>2
  <2> HIDE DEF q
  <2>5. q + 1 <= n
    BY <2>1, <2>2, <2>3
  <2> QED
    BY <2>1, <2>2, <2>4, <2>5 DEF n
<1>4. \A a \in B : down[a] = all * part[a] /\ up[a] = limit * want[a]
  OBVIOUS
<1> HIDE DEF part, down, up
<1>5. SumFunctionOnSet(part, B) \in Nat
  BY <1>3, SumNat
<1>6. SumFunctionOnSet(down, B) <= SumFunctionOnSet(up, B)
  <2>1. \A a \in B : down[a] \in Int /\ up[a] \in Int /\ down[a] <= up[a]
    BY <1>3, <1>4
  <2> QED
    BY <2>1, SumMonotone
<1>7. SumFunctionOnSet(down, B) = all * SumFunctionOnSet(part, B)
  <2>1. \A a \in B : part[a] \in Int /\ down[a] = all * part[a]
    BY <1>3, <1>4
  <2>2. all \in Int
    BY <1>1
  <2> QED
    BY <2>1, <2>2, SumTimes
<1>8. SumFunctionOnSet(up, B) = limit * all
  <2>1. \A a \in B : want[a] \in Int /\ up[a] = limit * want[a]
    BY <1>4
  <2>2. limit \in Int
    OBVIOUS
  <2> QED
    BY <1>2, <2>1, <2>2, SumTimes
<1>9. SumFunctionOnSet(part, B) <= limit
  <2> DEFINE s == SumFunctionOnSet(part, B)
  <2>1. s \in Nat /\ all * s <= limit * all
    BY <1>5, <1>6, <1>7, <1>8
  <2> HIDE DEF s
  <2>2. SUFFICES ASSUME limit + 1 <= s PROVE FALSE
    BY <2>1 DEF s
  <2>3. all * (limit + 1) <= all * s
    BY <1>1, <2>1, <2>2, Product
  <2>4. all * (limit + 1) = limit * all + all /\ limit * all \in Nat /\ all * s \in Nat
    BY <1>1, <2>1
  <2> QED
    BY <1>1, <2>1, <2>3, <2>4
<1> QED
  BY <1>3, <1>5, <1>9 DEF part, all

\* What each asset gets of a limit that the buys share.
LEMMA SharedHeld ==
  ASSUME SizingAssumption, NEW want \in [Asset -> Int], NEW limit \in Nat
  PROVE  LET n == Shared(want, limit)
             B == {a \in Asset : want[a] > 0}
         IN  /\ n \in [Asset -> Int]
             /\ \A a \in Asset : n[a] <= want[a]
             /\ \A a \in Asset \ B : n[a] = want[a]
             /\ \A a \in B : n[a] \in Nat
             /\ IsFiniteSet(B) /\ SumFunctionOnSet(n, B) <= limit
<1> DEFINE n == Shared(want, limit)
           B == {a \in Asset : want[a] > 0}
           all == SumFunctionOnSet(want, B)
           part == [a \in B |-> (want[a] * limit) \div all]
           left == limit - SumFunctionOnSet(part, B)
           Rank(a) == Cardinality({b \in B : Earlier(b, a)})
           extra == [a \in B |-> IF Rank(a) < left THEN 1 ELSE 0]
<1>1. IsFiniteSet(B) /\ B \subseteq Asset
  BY FiniteSets
<1>2. n = [a \in Asset |-> IF a \notin B \/ all <= limit THEN want[a]
                           ELSE IF Rank(a) < left THEN part[a] + 1 ELSE part[a]]
  BY DEF Shared, Total
<1>3. \A a \in B : want[a] \in Nat \ {0}
  OBVIOUS
<1>4. \A a \in Asset : want[a] \in Int
  OBVIOUS
<1>5. all > limit => /\ SumFunctionOnSet(part, B) \in Nat /\ SumFunctionOnSet(part, B) <= limit
                     /\ \A a \in B : part[a] \in Nat /\ part[a] + 1 <= want[a]
  BY <1>1, <1>3, PartsFit
<1>6. all > limit => Cardinality({a \in B : Rank(a) < left}) <= left
  <2>1. SUFFICES ASSUME all > limit PROVE Cardinality({a \in B : Rank(a) < left}) <= left
    OBVIOUS
  <2>2. left \in Nat /\ B \in SUBSET Asset
    BY <1>5, <2>1
  <2> HIDE DEF left, B
  <2> QED
    BY <2>2, FirstFew
<1>7. \A a \in B : extra[a] = IF Rank(a) < left THEN 1 ELSE 0
  OBVIOUS
<1>8. all \in Int
  <2>1. \A a \in B : want[a] \in Int
    OBVIOUS
  <2> HIDE DEF B
  <2> QED
    BY <1>1, <2>1, SumInt
<1>9. /\ \A a \in Asset \ B : n[a] = want[a]
      /\ all <= limit => \A a \in Asset : n[a] = want[a]
      /\ all > limit => \A a \in B : n[a] = part[a] + extra[a]
  <2>1. all > limit => ~(all <= limit)
    BY <1>8
  <2>2. all > limit => \A a \in B : part[a] \in Nat
    BY <1>5
  <2> HIDE DEF all, part, left, Rank, extra, B, n
  <2>3. ASSUME all > limit, NEW a \in B PROVE n[a] = part[a] + extra[a]
    <3>1. n[a] = IF Rank(a) < left THEN part[a] + 1 ELSE part[a]
      BY <1>1, <1>2, <2>1, <2>3
    <3>2. part[a] \in Nat
      BY <2>2, <2>3
    <3> QED
      BY <1>7, <3>1, <3>2
  <2> QED
    BY <1>1, <1>2, <2>3
<1>10. \A a \in B : extra[a] \in {0, 1}
  BY <1>7
<1>11. n = [a \in Asset |-> n[a]]
  BY <1>2
<1>12. left = limit - SumFunctionOnSet(part, B)
  OBVIOUS
<1>13. \A a \in Asset : a \in B <=> want[a] > 0
  OBVIOUS
<1> HIDE DEF all, part, left, Rank, extra, B, n
<1>14. ASSUME NEW a \in Asset
       PROVE  n[a] \in Int /\ n[a] <= want[a] /\ (a \in B => n[a] \in Nat)
  <2>1. CASE a \notin B \/ all <= limit
    <3>1. n[a] = want[a]
      BY <1>9, <2>1
    <3> QED
      BY <1>3, <1>4, <3>1
  <2>2. CASE a \in B /\ all > limit
    <3>1. n[a] = part[a] + extra[a] /\ extra[a] \in {0, 1} /\ part[a] \in Nat
          /\ part[a] + 1 <= want[a] /\ want[a] \in Nat
      BY <1>3, <1>5, <1>9, <1>10, <2>2
    <3> QED
      BY <3>1
  <2> QED
    BY <1>8, <2>1, <2>2
<1>15. SumFunctionOnSet(n, B) <= limit
  <2>1. CASE all <= limit
    <3>1. \A a \in B : n[a] \in Int /\ n[a] = want[a]
      BY <1>1, <1>9, <1>14, <2>1
    <3>2. SumFunctionOnSet(n, B) = SumFunctionOnSet(want, B)
      BY <1>1, <3>1, SumSame
    <3> QED
      BY <2>1, <3>2 DEF all
  <2>2. CASE all > limit
    <3>1. \A a \in B : part[a] \in Int /\ extra[a] \in Int /\ n[a] = part[a] + extra[a]
      BY <1>5, <1>9, <1>10, <2>2
    <3>2. SumFunctionOnSet(n, B) = SumFunctionOnSet(part, B) + SumFunctionOnSet(extra, B)
      BY <1>1, <3>1, SumPlus
    <3> DEFINE C == {a \in B : Rank(a) < left}
    <3>3. C \in SUBSET B /\ \A a \in B : extra[a] = IF a \in C THEN 1 ELSE 0
      BY <1>7
    <3>4. SumFunctionOnSet(extra, B) = Cardinality(C)
      <4> HIDE DEF C
      <4> QED
        BY <1>1, <3>3, SumCounts
    <3>5. Cardinality(C) <= left /\ Cardinality(C) \in Nat
      <4>1. IsFiniteSet(C)
        BY <1>1, <3>3, FS_Subset
      <4> QED
        BY <1>6, <2>2, <4>1, FS_CardinalityType
    <3>6. SumFunctionOnSet(part, B) \in Nat
      BY <1>5, <2>2
    <3> HIDE DEF C
    <3> QED
      BY <1>12, <3>2, <3>4, <3>5, <3>6
  <2> QED
    BY <1>8, <2>1, <2>2
<1>16. n \in [Asset -> Int]
  BY <1>11, <1>14
<1> QED
  BY <1>1, <1>9, <1>14, <1>15, <1>16 DEF n, B

------------------------------------------------------------------------------
(***************************************************************************)
(* The state, and what a plan is made of.                                  *)
(***************************************************************************)
IntentType == [asset : Asset, side : {"buy", "sell"}, limit : Nat, notional : Nat]
OrderType == [asset : Asset, side : {"buy", "sell"}, limit : Nat, quantity : Nat]
PlanType ==
    [is : {"sending", "sent"}, rest : SUBSET IntentType, notional : [Asset -> Int],
     weights : [Asset -> Nat], holding : [Asset -> Nat], quotes : QuoteSets,
     target : [Asset -> Int]]

SizingTyped ==
    /\ market \in QuoteSets
    /\ account.holding \in [Asset -> Nat] /\ account.cash \in Int
    /\ decision \in Decisions \cup {None}
    /\ plan \in {None, NoOrder} \cup PlanType
    /\ Planned => decision \in Decisions
    /\ orders \in SUBSET OrderType

\* The quotes that a market shows.
LEMMA QuoteTypes ==
  ASSUME SizingAssumption, NEW quotes \in QuoteSets, NEW a \in Asset
  PROVE  /\ quotes[a].bid \in Nat \ {0} /\ quotes[a].ask \in Nat \ {0} /\ quotes[a].last \in Nat
         /\ \A side \in {"buy", "sell"} : LimitPrice(side, quotes[a]) \in Nat
<1>1. /\ quotes[a].bid \in Nat \ {0} /\ quotes[a].ask \in Nat \ {0} /\ quotes[a].last \in Nat
      /\ Limits.bps \in Nat \ {0} /\ Limits.tick \in Nat \ {0}
      /\ Limits.protection \in 0 .. Limits.bps
  <2>1. quotes \in [Asset -> [bid : Nat \ {0}, ask : Nat \ {0}, last : Nat]]
    BY DEF SizingAssumption
  <2> QED
    BY <2>1 DEF SizingAssumption
<1>2. \A n, f \in Nat, d \in Nat \ {0} : (n * f) \div d \in Nat
  BY ScaledNumber
<1>3. \A x \in Nat : x \div Limits.tick \in Nat
  <2>1. ASSUME NEW x \in Nat PROVE x \div Limits.tick \in Nat
    <3>1. Limits.tick * 0 <= x /\ 0 \in Int /\ x \in Int
      BY <1>1
    <3>2. x \div Limits.tick \in Int /\ 0 <= x \div Limits.tick
      BY <1>1, <3>1, Division, QuotientAtLeast
    <3> QED
      BY <3>2
  <2> QED
    BY <2>1
<1>4. \A x, y \in Nat : x * y \in Nat /\ x + y \in Nat
  OBVIOUS
<1>5. LimitPrice("buy", quotes[a]) \in Nat
  <2> DEFINE raw == (quotes[a].ask * (Limits.bps + Limits.protection)) \div Limits.bps
  <2>1. quotes[a].ask \in Nat /\ Limits.bps + Limits.protection \in Nat
    BY <1>1
  <2>2. raw \in Nat
    BY <1>1, <1>2, <2>1
  <2>3. LimitPrice("buy", quotes[a]) = (raw \div Limits.tick) * Limits.tick
    BY DEF LimitPrice
  <2> HIDE DEF raw
  <2> QED
    BY <1>1, <1>3, <1>4, <2>2, <2>3
<1>6. LimitPrice("sell", quotes[a]) \in Nat
  <2> DEFINE raw == (quotes[a].bid * (Limits.bps - Limits.protection)) \div Limits.bps
  <2>1. quotes[a].bid \in Nat /\ Limits.bps - Limits.protection \in Nat
    BY <1>1
  <2>2. raw \in Nat
    BY <1>1, <1>2, <2>1
  <2>3. LimitPrice("sell", quotes[a]) = ((raw + Limits.tick - 1) \div Limits.tick) * Limits.tick
    BY DEF LimitPrice
  <2> HIDE DEF raw
  <2>4. raw + Limits.tick - 1 \in Nat
    BY <1>1, <2>2
  <2> QED
    BY <1>1, <1>3, <1>4, <2>3, <2>4
<1> QED
  BY <1>1, <1>5, <1>6

\* Value, equity and what is wanted of each asset.
LEMMA ValueTypes ==
  ASSUME SizingAssumption, SizingTyped, decision \in Decisions
  PROVE  /\ \A a \in Asset : Value(a) \in Nat /\ TargetValue(a) \in Int /\ Wanted(a) \in Int
         /\ Equity \in Int /\ BuyingPower \in Nat
         /\ Scale \in Nat \ {0} /\ decision.weights \in [Asset -> Nat]
<1>1. \A a \in Asset : Value(a) \in Nat
  <2>1. ASSUME NEW a \in Asset PROVE Value(a) \in Nat
    <3>1. account.holding[a] \in Nat /\ market[a].last \in Nat
      BY QuoteTypes DEF SizingTyped
    <3> QED
      BY <3>1 DEF Value
  <2> QED
    BY <2>1
<1>2. Scale \in Nat \ {0} /\ decision.weights \in [Asset -> Nat] /\ account.cash \in Int
      /\ Credit \in Nat
  BY DecisionHeld DEF SizingAssumption, Sound, SizingTyped
<1>3. Equity \in Int
  <2> DEFINE f == [a \in Asset |-> Value(a)]
  <2>1. \A a \in Asset : f[a] \in Int
    BY <1>1
  <2>2. IsFiniteSet(Asset)
    BY FiniteSets
  <2>3. Equity = account.cash + SumFunctionOnSet(f, Asset)
    BY DEF Equity, Total
  <2> HIDE DEF f
  <2>4. SumFunctionOnSet(f, Asset) \in Int
    BY <2>1, <2>2, SumInt
  <2> QED
    BY <1>2, <2>3, <2>4
<1>4. BuyingPower \in Nat
  BY <1>2 DEF BuyingPower, Larger
<1>5. ASSUME NEW a \in Asset PROVE TargetValue(a) \in Int
  <2>1. Equity * decision.weights[a] \in Int
    BY <1>2, <1>3
  <2> QED
    BY <1>2, <2>1, Division DEF TargetValue
<1>6. ASSUME NEW a \in Asset PROVE Wanted(a) \in Int
  BY <1>1, <1>5 DEF Wanted
<1> QED
  BY <1>1, <1>2, <1>3, <1>4, <1>5, <1>6

\* What the buys and sells of a plan amount to.
LEMMA NotionalsHeld ==
  ASSUME SizingAssumption, SizingTyped, decision \in Decisions, NEW approved \in Approvals
  PROVE  LET n == Notionals(approved)
             B == {a \in Asset : Wanted(a) > 0}
         IN  /\ n \in [Asset -> Int]
             /\ \A a \in Asset : n[a] <= Wanted(a)
             /\ \A a \in Asset \ B : n[a] = Wanted(a)
             /\ \A a \in B : n[a] \in Nat
             /\ IsFiniteSet(B) /\ SumFunctionOnSet(n, B) <= BuyingPower
<1> DEFINE want == [a \in Asset |-> Wanted(a)]
           limit == Smaller(approved, BuyingPower)
           B == {a \in Asset : Wanted(a) > 0}
           n == Shared(want, limit)
<1>1. want \in [Asset -> Int] /\ \A a \in Asset : want[a] = Wanted(a)
  BY ValueTypes
<1>2. limit \in Nat /\ limit <= BuyingPower /\ BuyingPower \in Nat
  <2>1. approved \in Nat /\ BuyingPower \in Nat
    BY ValueTypes DEF SizingAssumption
  <2> QED
    BY <2>1 DEF Smaller
<1>3. B = {a \in Asset : want[a] > 0}
  BY <1>1
<1>4. Notionals(approved) = n
  BY DEF Notionals
<1> HIDE DEF want, limit
<1>5. LET C == {a \in Asset : want[a] > 0}
      IN  /\ n \in [Asset -> Int]
          /\ \A a \in Asset : n[a] <= want[a]
          /\ \A a \in Asset \ C : n[a] = want[a]
          /\ \A a \in C : n[a] \in Nat
          /\ IsFiniteSet(C) /\ SumFunctionOnSet(n, C) <= limit
  BY <1>1, <1>2, SharedHeld
<1> HIDE DEF n, B
<1>6. /\ n \in [Asset -> Int]
      /\ \A a \in Asset : n[a] <= Wanted(a)
      /\ \A a \in Asset \ B : n[a] = Wanted(a)
      /\ \A a \in B : n[a] \in Nat
      /\ IsFiniteSet(B) /\ SumFunctionOnSet(n, B) <= limit
  BY <1>1, <1>3, <1>5
<1>7. SumFunctionOnSet(n, B) \in Int
  <2>1. \A a \in B : n[a] \in Int
    BY <1>6
  <2> QED
    BY <1>6, <2>1, SumInt
<1>8. SumFunctionOnSet(n, B) <= BuyingPower
  BY <1>2, <1>6, <1>7
<1> QED
  BY <1>4, <1>6, <1>8 DEF B

\* What a plan would hold is no more, in any asset, than what the decision says.
LEMMA AchievedBelow ==
  ASSUME SizingAssumption, SizingTyped, decision \in Decisions, NEW approved \in Approvals,
         Equity > 0
  PROVE  LET w == Achieved(Notionals(approved))
         IN  Sound(w) /\ \A a \in Asset : w[a] <= decision.weights[a]
<1> DEFINE n == Notionals(approved)
           w == Achieved(n)
           t == decision.weights
<1>1. /\ \A a \in Asset : Value(a) \in Nat /\ TargetValue(a) \in Int /\ Wanted(a) \in Int
      /\ Equity \in Nat \ {0} /\ Scale \in Nat \ {0} /\ t \in [Asset -> Nat]
  BY ValueTypes
<1>2. /\ n \in [Asset -> Int]
      /\ \A a \in Asset : n[a] <= Wanted(a)
      /\ \A a \in Asset : Wanted(a) > 0 => n[a] \in Nat
      /\ \A a \in Asset : ~(Wanted(a) > 0) => n[a] = Wanted(a)
  BY NotionalsHeld
<1>3. w = [a \in Asset |-> ((Value(a) + n[a]) * Scale) \div Equity]
  BY DEF Achieved
<1>4. \A a \in Asset : TargetValue(a) = (Equity * t[a]) \div Scale
                       /\ Wanted(a) = TargetValue(a) - Value(a)
  BY DEF TargetValue, Wanted
<1>5. \A a \in Asset : t[a] > 0 => a \in DOMAIN Risk
  BY DecisionHeld DEF Sound
<1> HIDE DEF n, w, t
<1>6. ASSUME NEW a \in Asset PROVE w[a] \in Nat /\ w[a] <= t[a]
  <2> DEFINE v == Value(a) + n[a]
             e == Equity * t[a]
             q == e \div Scale
  <2>1. t[a] \in Nat /\ e \in Nat /\ Scale * 0 <= e
    BY <1>1
  <2>2. TargetValue(a) = q
    BY <1>4
  <2>3. w[a] = (v * Scale) \div Equity
    BY <1>3
  <2> HIDE DEF e
  <2>4. q \in Int /\ 0 <= q /\ Scale * q <= e
    BY <1>1, <2>1, Division, QuotientAtLeast
  <2> HIDE DEF q
  <2>5. v \in Nat /\ v <= q
    <3>1. Value(a) \in Nat /\ n[a] \in Int /\ n[a] <= q - Value(a) /\ Wanted(a) = q - Value(a)
      BY <1>1, <1>2, <1>4, <2>2
    <3>2. CASE Wanted(a) > 0
      <4>1. n[a] \in Nat
        BY <1>2, <3>2
      <4> QED
        BY <2>4, <3>1, <4>1
    <3>3. CASE ~(Wanted(a) > 0)
      <4>1. n[a] = Wanted(a)
        BY <1>2, <3>3
      <4> QED
        BY <2>4, <3>1, <4>1
    <3> QED
      BY <3>2, <3>3
  <2> HIDE DEF v
  <2>6. w[a] \in Nat
    <3>1. (v * Scale) \div Equity \in Nat
      <4>1. Scale \in Nat
        BY <1>1
      <4> QED
        BY <1>1, <2>5, <4>1, ScaledNumber
    <3> QED
      BY <2>3, <3>1
  <2>7. v * Scale < Equity * (t[a] + 1)
    <3>1. v * Scale <= q * Scale
      BY <1>1, <2>4, <2>5, Product
    <3>2. q * Scale = Scale * q /\ v * Scale \in Int /\ q * Scale \in Int
      BY <1>1, <2>4, <2>5
    <3>3. Equity * (t[a] + 1) = Equity * t[a] + Equity /\ Equity * t[a] \in Int
      BY <1>1, <2>1
    <3>4. e = Equity * t[a]
      BY DEF e
    <3>5. v * Scale <= Equity * t[a]
      BY <2>4, <3>1, <3>2, <3>3, <3>4
    <3> QED
      BY <1>1, <3>2, <3>3, <3>5
  <2>8. w[a] <= t[a]
    <3>1. v * Scale \in Int /\ t[a] \in Int
      BY <1>1, <2>1, <2>5
    <3> QED
      BY <1>1, <2>3, <2>7, <3>1, QuotientAtMost
  <2> QED
    BY <2>6, <2>8
<1>7. w \in [Asset -> Nat]
  BY <1>3, <1>6
<1>8. \A a \in Asset : w[a] > 0 => a \in DOMAIN Risk
  <2>1. ASSUME NEW a \in Asset, w[a] > 0 PROVE t[a] > 0
    <3>1. w[a] \in Nat /\ w[a] <= t[a] /\ t[a] \in Nat
      BY <1>1, <1>6
    <3> QED
      BY <2>1, <3>1
  <2> QED
    BY <1>5, <2>1
<1> QED
  BY <1>6, <1>7, <1>8 DEF Sound, n, w, t

\* And so within the limits on gross weight, beta, shortfall and gap.
LEMMA AchievedHeld ==
  ASSUME SizingAssumption, SizingTyped, decision \in Decisions, NEW approved \in Approvals,
         Equity > 0
  PROVE  LET w == Achieved(Notionals(approved))
         IN  /\ w \in [Asset -> Nat] /\ Gross(w) <= Policy.maxGross
             /\ \A m \in Linear : Measure(w, m) <= Ceiling[m]
<1> DEFINE w == Achieved(Notionals(approved))
           t == decision.weights
<1>1. Sound(w) /\ \A a \in Asset : w[a] <= t[a]
  BY AchievedBelow
<1>2. /\ Sound(t) /\ Gross(t) <= Policy.maxGross
      /\ \A m \in Linear : Measure(t, m) <= Ceiling[m]
  BY DecisionHeld
<1> HIDE DEF w, t
<1>3. w \in [Asset -> Nat] /\ w \in [Asset -> Int] /\ t \in [Asset -> Int]
  BY <1>1, <1>2 DEF Sound
<1>4. Gross(w) \in Int /\ Gross(t) \in Int /\ Gross(w) <= Gross(t) /\ Policy.maxGross \in Nat
  BY <1>1, <1>3, GrossMonotone DEF SizingAssumption
<1>5. Gross(w) <= Policy.maxGross
  BY <1>2, <1>4
<1>6. ASSUME NEW m \in Linear PROVE Measure(w, m) <= Ceiling[m]
  <2>1. Measure(w, m) <= Measure(t, m)
    BY <1>1, <1>2, MeasureMonotone
  <2>2. Measure(w, m) \in Int /\ Measure(t, m) \in Int /\ Ceiling[m] \in Nat
    BY <1>1, <1>2, MeasureTerms DEF SizingAssumption
  <2> QED
    BY <1>2, <2>1, <2>2
<1> QED
  BY <1>3, <1>5, <1>6 DEF w

\* The intents of a plan: one for each asset, a buy for what it buys.
LEMMA IntentsOf ==
  ASSUME SizingAssumption, SizingTyped, NEW n \in [Asset -> Int]
  PROVE  /\ Intents(n) \in SUBSET IntentType
         /\ \A i, j \in Intents(n) : i.asset = j.asset => i = j
         /\ \A i \in Intents(n) :
               /\ i.side = "buy" <=> n[i.asset] > 0
               /\ n[i.asset] > 0 => /\ i.limit = LimitPrice("buy", market[i.asset])
                                    /\ i.notional = n[i.asset]
<1>1. ASSUME NEW a \in Asset
      PROVE  LET i == Intent(n, a)
             IN  /\ i \in IntentType /\ i.asset = a
                 /\ i.side = "buy" <=> n[a] > 0
                 /\ n[a] > 0 => i.limit = LimitPrice("buy", market[a]) /\ i.notional = n[a]
  <2>1. Side(n, a) \in {"buy", "sell"} /\ (Side(n, a) = "buy" <=> n[a] > 0)
    BY DEF Side
  <2>2. LimitPrice(Side(n, a), market[a]) \in Nat
    BY <2>1, QuoteTypes DEF SizingTyped
  <2>3. Larger(n[a], -n[a]) \in Nat /\ (n[a] > 0 => Larger(n[a], -n[a]) = n[a])
    BY DEF Larger
  <2> QED
    BY <2>1, <2>2, <2>3 DEF Intent, IntentType
<1>2. \A i \in Intents(n) : \E a \in Asset : i = Intent(n, a)
  BY DEF Intents
<1>3. ASSUME NEW i \in Intents(n)
      PROVE  /\ i \in IntentType /\ i.asset \in Asset /\ i = Intent(n, i.asset)
             /\ i.side = "buy" <=> n[i.asset] > 0
             /\ n[i.asset] > 0 => /\ i.limit = LimitPrice("buy", market[i.asset])
                                  /\ i.notional = n[i.asset]
  <2>1. PICK a \in Asset : i = Intent(n, a)
    BY <1>2
  <2>2. /\ i \in IntentType /\ i.asset = a
        /\ i.side = "buy" <=> n[a] > 0
        /\ n[a] > 0 => i.limit = LimitPrice("buy", market[a]) /\ i.notional = n[a]
    BY <1>1, <2>1
  <2> QED
    BY <2>1, <2>2
<1> QED
  BY <1>3

\* What the end of a dispatch leaves of a plan.
LEMMA DispatchedPlan ==
  ASSUME NEW p \in PlanType
  PROVE  LET d == [p EXCEPT !.is = "sent", !.rest = {}]
         IN  /\ d \in PlanType /\ d.is = "sent" /\ d.rest = {}
             /\ d.notional = p.notional /\ d.weights = p.weights /\ d.holding = p.holding
             /\ d.quotes = p.quotes /\ d.target = p.target
BY DEF PlanType

\* And what the removal of an intent leaves of it.
LEMMA PlanWithout ==
  ASSUME NEW p \in PlanType, NEW intents \in SUBSET IntentType
  PROVE  LET r == [p EXCEPT !.rest = intents]
         IN  /\ r \in PlanType /\ r.is = p.is /\ r.rest = intents
             /\ r.notional = p.notional /\ r.weights = p.weights /\ r.holding = p.holding
             /\ r.quotes = p.quotes /\ r.target = p.target
BY DEF PlanType

\* What an order is.
LEMMA OrderOf ==
  ASSUME NEW i \in IntentType, Quantity(i) # 0
  PROVE  /\ Order(i) \in OrderType /\ Order(i).asset = i.asset /\ Order(i).side = i.side
         /\ Order(i).limit = i.limit
         /\ Order(i).quantity * i.limit <= i.notional
<1>1. i.limit \in Nat \ {0} /\ i.notional \in Nat /\ i.asset \in Asset
      /\ i.side \in {"buy", "sell"} /\ Quantity(i) = i.notional \div i.limit
  BY DEF IntentType, Quantity
<1> DEFINE q == i.notional \div i.limit
<1>2. i.limit * 0 <= i.notional
  BY <1>1
<1>3. q \in Int /\ 0 <= q /\ i.limit * q <= i.notional
  BY <1>1, <1>2, Division, QuotientAtLeast
<1>4. Quantity(i) = q
  BY <1>1
<1> HIDE DEF q
<1>5. q \in Nat /\ q * i.limit <= i.notional
  BY <1>1, <1>3
<1>6. /\ Order(i).asset = i.asset /\ Order(i).side = i.side /\ Order(i).limit = i.limit
      /\ Order(i).quantity = q
  BY <1>4 DEF Order
<1>7. Order(i) \in OrderType
  BY <1>1, <1>4, <1>5 DEF Order, OrderType
<1> QED
  BY <1>5, <1>6, <1>7

------------------------------------------------------------------------------
(***************************************************************************)
(* The inductive invariant.                                                *)
(***************************************************************************)
\* One order for an asset, and none for an asset whose intent is not yet sent.
OneEach ==
    /\ \A o, p \in orders : o.asset = p.asset => o = p
    /\ Planned => /\ \A i, j \in plan.rest : i.asset = j.asset => i = j
                  /\ \A i \in plan.rest, o \in orders : i.asset # o.asset

\* The cash and the credit cover what every buy may still cost.
Covers(due) ==
    /\ due \in [Asset -> Nat]
    /\ SumFunctionOnSet(due, Asset) <= account.cash + Credit
    /\ \A o \in orders : o.side = "buy" => o.quantity * o.limit <= due[o.asset]
    /\ Planned => \A i \in plan.rest : i.side = "buy" => i.notional <= due[i.asset]
Covered == \E due : Covers(due)

\* What is bought of an asset, and may still be, costs no more than its notional.
BuyLimit(a) == LimitPrice("buy", plan.quotes[a])
More(a) == account.holding[a] - plan.holding[a]
AsDecided ==
    Planned => \A a \in Asset : plan.notional[a] > 0 =>
        /\ plan.holding[a] * plan.quotes[a].last + plan.notional[a] <= plan.target[a]
        /\ More(a) * BuyLimit(a) <= plan.notional[a]
        /\ \A i \in plan.rest : i.asset = a =>
              /\ i.limit = BuyLimit(a) /\ i.notional = plan.notional[a]
              /\ i.side = "buy" /\ More(a) = 0
        /\ \A o \in orders : o.asset = a =>
              o.side = "buy" /\ (More(a) + o.quantity) * BuyLimit(a) <= plan.notional[a]

KeptOff == Policy.minEdge > 0 => NoBuyAgainstAHorizon

SizingInv ==
    /\ SizingTyped /\ OneEach /\ Covered /\ AsDecided
    /\ PlannedRiskHeld /\ KeptOff

\* What a type gives of the fields.
LEMMA FieldTypes ==
  ASSUME SizingTyped
  PROVE  /\ \A o \in orders : /\ o.asset \in Asset /\ o.side \in {"buy", "sell"}
                              /\ o.limit \in Nat /\ o.quantity \in Nat
         /\ ~(None.is \in {"sending", "sent"}) /\ ~(NoOrder.is \in {"sending", "sent"})
         /\ Planned => /\ plan \in PlanType /\ plan.notional \in [Asset -> Int]
                       /\ plan.holding \in [Asset -> Nat] /\ plan.quotes \in QuoteSets
                       /\ plan.rest \in SUBSET IntentType
                       /\ \A i \in plan.rest : /\ i.asset \in Asset /\ i.side \in {"buy", "sell"}
                                               /\ i.limit \in Nat /\ i.notional \in Nat
<1>1. \A o \in orders : /\ o.asset \in Asset /\ o.side \in {"buy", "sell"}
                        /\ o.limit \in Nat /\ o.quantity \in Nat
  BY DEF SizingTyped, OrderType
<1>2. ~(None.is \in {"sending", "sent"}) /\ ~(NoOrder.is \in {"sending", "sent"})
  BY DEF None, NoOrder
<1>3. Planned => plan \in PlanType
  BY <1>2 DEF SizingTyped, Planned
<1>4. ASSUME Planned
      PROVE  /\ plan.notional \in [Asset -> Int]
             /\ plan.holding \in [Asset -> Nat] /\ plan.quotes \in QuoteSets
             /\ plan.rest \in SUBSET IntentType
  BY <1>3, <1>4 DEF PlanType
<1>5. \A i \in IntentType : /\ i.asset \in Asset /\ i.side \in {"buy", "sell"}
                            /\ i.limit \in Nat /\ i.notional \in Nat
  BY DEF IntentType
<1> QED
  BY <1>1, <1>2, <1>3, <1>4, <1>5

LEMMA SizingStart ==
  ASSUME SizingAssumption, SizingInit
  PROVE  SizingInv
<1>1. ~Planned
  BY DEF Planned, SizingInit, None
<1>2. account.holding = [a \in Asset |-> 0] /\ account.cash = OpeningCash
      /\ orders = {} /\ plan = None /\ decision = None /\ market \in QuoteSets
  BY DEF SizingInit
<1>3. OpeningCash \in Nat /\ Credit \in Nat
  BY DEF SizingAssumption
<1>4. SizingTyped
  BY <1>1, <1>2, <1>3 DEF SizingTyped
<1>5. Covered
  <2> DEFINE due == [a \in Asset |-> 0]
  <2>1. due \in [Asset -> Nat] /\ \A a \in Asset : due[a] = 0
    OBVIOUS
  <2> HIDE DEF due
  <2>2. SumFunctionOnSet(due, Asset) = 0
    <3>1. {} \in SUBSET Asset /\ IsFiniteSet(Asset)
      BY FiniteSets
    <3>2. \A a \in Asset : due[a] = IF a \in {} THEN 1 ELSE 0
      BY <2>1
    <3>3. SumFunctionOnSet(due, Asset) = Cardinality({})
      BY <3>1, <3>2, SumCounts
    <3> QED
      BY <3>3, FS_EmptySet
  <2>3. Covers(due)
    BY <1>1, <1>2, <1>3, <2>1, <2>2 DEF Covers
  <2> QED
    BY <2>3 DEF Covered
<1> QED
  BY <1>1, <1>2, <1>4, <1>5
  DEF SizingInv, OneEach, AsDecided, PlannedRiskHeld, KeptOff, NoBuyAgainstAHorizon

LEMMA TakeDecisionKeeps ==
  ASSUME SizingAssumption, SizingInv, TakeDecision
  PROVE  SizingInv'
<1>1. /\ decision' \in Decisions /\ plan' = None
      /\ market' = market /\ account' = account /\ orders' = orders
  BY DEF TakeDecision
<1>2. ~Planned'
  BY <1>1 DEF Planned, None
<1>3. SizingTyped'
  BY <1>1, <1>2 DEF SizingInv, SizingTyped
<1>4. Covered'
  BY <1>1, <1>2 DEF SizingInv, Covered, Covers
<1>5. OneEach'
  BY <1>1, <1>2 DEF SizingInv, OneEach
<1> QED
  BY <1>2, <1>3, <1>4, <1>5
  DEF SizingInv, AsDecided, PlannedRiskHeld, KeptOff, NoBuyAgainstAHorizon

LEMMA MoveKeeps ==
  ASSUME SizingAssumption, SizingInv, Move
  PROVE  SizingInv'
<1>1. /\ market' \in QuoteSets /\ plan' = plan /\ decision' = decision
      /\ account' = account /\ orders' = orders
  BY DEF Move
<1>2. Planned' <=> Planned
  BY <1>1 DEF Planned
<1>3. SizingTyped'
  BY <1>1, <1>2 DEF SizingInv, SizingTyped
<1>4. Covered'
  BY <1>1, <1>2 DEF SizingInv, Covered, Covers
<1>5. OneEach'
  BY <1>1, <1>2 DEF SizingInv, OneEach
<1>6. AsDecided'
  BY <1>1, <1>2 DEF SizingInv, AsDecided, More, BuyLimit
<1>7. PlannedRiskHeld' /\ KeptOff'
  BY <1>1, <1>2 DEF SizingInv, PlannedRiskHeld, KeptOff, NoBuyAgainstAHorizon
<1> QED
  BY <1>3, <1>4, <1>5, <1>6, <1>7 DEF SizingInv

\* The end of a dispatch, by its last order, by a zero quantity or by giving up.
LEMMA DispatchEndKeeps ==
  ASSUME SizingAssumption, SizingInv, Planned, plan' = Dispatched,
         UNCHANGED <<market, account, decision, orders>>
  PROVE  SizingInv'
<1>1. /\ market' = market /\ account' = account /\ decision' = decision /\ orders' = orders
      /\ plan \in PlanType
  BY FieldTypes DEF SizingInv
<1>2. /\ plan' \in PlanType /\ plan'.is = "sent" /\ plan'.rest = {}
      /\ plan'.notional = plan.notional /\ plan'.weights = plan.weights
      /\ plan'.holding = plan.holding /\ plan'.quotes = plan.quotes
      /\ plan'.target = plan.target
  <2>1. plan' = [plan EXCEPT !.is = "sent", !.rest = {}]
    BY DEF Dispatched
  <2> QED
    BY <1>1, <2>1, DispatchedPlan
<1>3. Planned'
  BY <1>2 DEF Planned
<1>4. SizingTyped'
  BY <1>1, <1>2 DEF SizingInv, SizingTyped
<1>5. Covered'
  BY <1>1, <1>2 DEF SizingInv, Covered, Covers
<1>6. OneEach'
  BY <1>1, <1>2 DEF SizingInv, OneEach
<1>7. AsDecided'
  BY <1>1, <1>2 DEF SizingInv, AsDecided, More, BuyLimit
<1>8. PlannedRiskHeld' /\ KeptOff'
  BY <1>1, <1>2 DEF SizingInv, PlannedRiskHeld, KeptOff, NoBuyAgainstAHorizon
<1> QED
  BY <1>4, <1>5, <1>6, <1>7, <1>8 DEF SizingInv

LEMMA GiveUpKeeps ==
  ASSUME SizingAssumption, SizingInv, GiveUp
  PROVE  SizingInv'
BY DispatchEndKeeps DEF GiveUp, Planned

LEMMA SendKeeps ==
  ASSUME SizingAssumption, SizingInv, Send
  PROVE  SizingInv'
<1>1. Planned /\ market' = market /\ account' = account /\ decision' = decision
  BY DEF Send, Planned
<1>2. CASE plan' = Dispatched /\ orders' = orders
  BY <1>1, <1>2, DispatchEndKeeps
<1>3. CASE \E intent \in plan.rest :
             /\ Quantity(intent) # 0
             /\ plan' = [plan EXCEPT !.rest = @ \ {intent}]
             /\ orders' = orders \cup {Order(intent)}
  <2>1. PICK s \in plan.rest : /\ Quantity(s) # 0
                               /\ plan' = [plan EXCEPT !.rest = plan.rest \ {s}]
                               /\ orders' = orders \cup {Order(s)}
    BY <1>3
  <2> DEFINE new == Order(s)
  <2>2. /\ plan \in PlanType /\ plan.rest \in SUBSET IntentType /\ s \in IntentType
        /\ s.asset \in Asset /\ s.limit \in Nat /\ s.notional \in Nat
    BY <1>1, FieldTypes DEF SizingInv
  <2>3. /\ plan' \in PlanType /\ plan'.is = plan.is /\ plan'.rest = plan.rest \ {s}
        /\ plan'.notional = plan.notional /\ plan'.weights = plan.weights
        /\ plan'.holding = plan.holding /\ plan'.quotes = plan.quotes
        /\ plan'.target = plan.target
    <3>1. plan.rest \ {s} \in SUBSET IntentType
      BY <2>2
    <3> QED
      BY <2>1, <2>2, <3>1, PlanWithout
  <2>4. Planned'
    BY <1>1, <2>3 DEF Planned
  <2>5. /\ new \in OrderType /\ new.asset = s.asset /\ new.side = s.side
        /\ new.limit = s.limit /\ new.quantity * s.limit <= s.notional
        /\ orders' = orders \cup {new}
    BY <2>1, <2>2, OrderOf
  <2> HIDE DEF new
  <2>6. SizingTyped'
    BY <1>1, <2>3, <2>4, <2>5 DEF SizingInv, SizingTyped
  <2>7. OneEach'
    <3>1. /\ \A o, p \in orders : o.asset = p.asset => o = p
          /\ \A i, j \in plan.rest : i.asset = j.asset => i = j
          /\ \A i \in plan.rest, o \in orders : i.asset # o.asset
      BY <1>1 DEF SizingInv, OneEach
    <3>2. \A o, p \in orders' : o.asset = p.asset => o = p
      BY <2>1, <2>5, <3>1
    <3>3. \A i, j \in plan'.rest : i.asset = j.asset => i = j
      BY <2>3, <3>1
    <3>4. \A i \in plan'.rest, o \in orders' : i.asset # o.asset
      BY <2>1, <2>3, <2>5, <3>1
    <3> QED
      BY <3>2, <3>3, <3>4 DEF OneEach
  <2>8. Covered'
    <3>1. PICK due : Covers(due)
      BY DEF SizingInv, Covered
    <3>2. /\ due \in [Asset -> Nat]
          /\ SumFunctionOnSet(due, Asset) <= account.cash + Credit
          /\ \A o \in orders : o.side = "buy" => o.quantity * o.limit <= due[o.asset]
          /\ \A i \in plan.rest : i.side = "buy" => i.notional <= due[i.asset]
      BY <1>1, <3>1 DEF Covers
    <3>3. new.side = "buy" => new.quantity * new.limit <= due[new.asset]
      <4>1. SUFFICES ASSUME new.side = "buy" PROVE new.quantity * new.limit <= due[new.asset]
        OBVIOUS
      <4>2. s.notional <= due[s.asset]
        BY <2>1, <2>5, <3>2, <4>1
      <4>3. new.quantity \in Nat /\ due[s.asset] \in Nat
        BY <2>2, <2>5, <3>2 DEF OrderType
      <4>4. new.quantity * s.limit \in Nat
        BY <2>2, <4>3
      <4> QED
        BY <2>2, <2>5, <4>2, <4>3, <4>4
    <3>4. \A o \in orders' : o.side = "buy" => o.quantity * o.limit <= due[o.asset]
      BY <2>5, <3>2, <3>3
    <3>5. \A i \in plan'.rest : i.side = "buy" => i.notional <= due[i.asset]
      BY <2>3, <3>2
    <3> QED
      BY <1>1, <3>2, <3>4, <3>5 DEF Covered, Covers
  <2>9. AsDecided'
    <3>1. SUFFICES ASSUME NEW a \in Asset, plan'.notional[a] > 0
          PROVE  /\ plan'.holding[a] * plan'.quotes[a].last + plan'.notional[a] <= plan'.target[a]
                 /\ More(a)' * BuyLimit(a)' <= plan'.notional[a]
                 /\ \A i \in plan'.rest : i.asset = a =>
                       /\ i.limit = BuyLimit(a)' /\ i.notional = plan'.notional[a]
                       /\ i.side = "buy" /\ More(a)' = 0
                 /\ \A o \in orders' : o.asset = a =>
                       o.side = "buy" /\ (More(a)' + o.quantity) * BuyLimit(a)' <= plan'.notional[a]
      BY DEF AsDecided
    <3>2. More(a)' = More(a) /\ BuyLimit(a)' = BuyLimit(a) /\ plan'.notional[a] = plan.notional[a]
      BY <1>1, <2>3 DEF More, BuyLimit
    <3>3. /\ plan.holding[a] * plan.quotes[a].last + plan.notional[a] <= plan.target[a]
          /\ More(a) * BuyLimit(a) <= plan.notional[a]
          /\ \A i \in plan.rest : i.asset = a =>
                /\ i.limit = BuyLimit(a) /\ i.notional = plan.notional[a]
                /\ i.side = "buy" /\ More(a) = 0
          /\ \A o \in orders : o.asset = a =>
                o.side = "buy" /\ (More(a) + o.quantity) * BuyLimit(a) <= plan.notional[a]
      BY <1>1, <3>1, <3>2 DEF SizingInv, AsDecided
    <3>4. new.asset = a =>
            new.side = "buy" /\ (More(a) + new.quantity) * BuyLimit(a) <= plan.notional[a]
      <4>1. SUFFICES ASSUME new.asset = a
            PROVE  new.side = "buy" /\ (More(a) + new.quantity) * BuyLimit(a) <= plan.notional[a]
        OBVIOUS
      <4>2. s.limit = BuyLimit(a) /\ s.notional = plan.notional[a] /\ s.side = "buy" /\ More(a) = 0
        BY <2>1, <2>5, <3>3, <4>1
      <4>3. new.quantity \in Nat
        BY <2>5 DEF OrderType
      <4>4. More(a) + new.quantity = new.quantity
        BY <4>2, <4>3
      <4> QED
        BY <2>5, <4>2, <4>4
    <3>5. \A o \in orders' : o.asset = a =>
            o.side = "buy" /\ (More(a) + o.quantity) * BuyLimit(a) <= plan.notional[a]
      BY <2>5, <3>3, <3>4
    <3> QED
      BY <2>3, <3>2, <3>3, <3>5
  <2>10. PlannedRiskHeld' /\ KeptOff'
    BY <1>1, <2>3 DEF SizingInv, PlannedRiskHeld, KeptOff, NoBuyAgainstAHorizon
  <2> QED
    BY <2>6, <2>7, <2>8, <2>9, <2>10 DEF SizingInv
<1> QED
  BY <1>2, <1>3 DEF Send

LEMMA EvaluateKeeps ==
  ASSUME SizingAssumption, SizingInv, NEW approved \in Approvals, Evaluate(approved)
  PROVE  SizingInv'
<1> DEFINE n == Notionals(approved)
           target == [a \in Asset |-> TargetValue(a)]
           B == {a \in Asset : Wanted(a) > 0}
<1>1. /\ market' = market /\ account' = account /\ decision' = decision /\ orders' = orders
      /\ decision \in Decisions /\ ~Planned /\ SizingTyped
  BY DEF Evaluate, SizingInv, SizingTyped, Planned, None
<1>2. CASE plan' = NoOrder
  <2>1. ~Planned'
    BY <1>2 DEF Planned, NoOrder
  <2>2. SizingTyped'
    BY <1>1, <1>2, <2>1 DEF SizingTyped
  <2>3. Covered' /\ OneEach'
    BY <1>1, <2>1 DEF SizingInv, Covered, Covers, OneEach
  <2> QED
    BY <2>1, <2>2, <2>3
    DEF SizingInv, AsDecided, PlannedRiskHeld, KeptOff, NoBuyAgainstAHorizon
<1>3. CASE /\ Acceptable(n)
           /\ plan' = [is |-> "sending", rest |-> Intents(n), notional |-> n,
                       weights |-> Achieved(n), holding |-> account.holding,
                       quotes |-> market, target |-> target]
  <2>1. /\ plan'.is = "sending" /\ plan'.rest = Intents(n) /\ plan'.notional = n
        /\ plan'.weights = Achieved(n) /\ plan'.holding = account.holding
        /\ plan'.quotes = market /\ plan'.target = target
        /\ plan' = [is |-> "sending", rest |-> Intents(n), notional |-> n,
                    weights |-> Achieved(n), holding |-> account.holding,
                    quotes |-> market, target |-> target]
    BY <1>3
  <2>2. orders = {} /\ Equity > 0 /\ Planned'
    BY <1>3, <2>1 DEF Acceptable, Planned
  <2>3. /\ n \in [Asset -> Int]
        /\ \A a \in Asset : n[a] <= Wanted(a)
        /\ \A a \in Asset \ B : n[a] = Wanted(a)
        /\ \A a \in B : n[a] \in Nat
        /\ IsFiniteSet(B) /\ SumFunctionOnSet(n, B) <= BuyingPower
    BY <1>1, NotionalsHeld
  <2>4. /\ \A a \in Asset : /\ Value(a) \in Nat /\ TargetValue(a) \in Int /\ Wanted(a) \in Int
                            /\ Wanted(a) = TargetValue(a) - Value(a)
                            /\ Value(a) = account.holding[a] * market[a].last
        /\ BuyingPower \in Nat
    BY <1>1, ValueTypes DEF Wanted, Value
  <2>5. target \in [Asset -> Int] /\ \A a \in Asset : target[a] = TargetValue(a)
    BY <2>4
  <2>6. /\ Achieved(n) \in [Asset -> Nat] /\ Gross(Achieved(n)) <= Policy.maxGross
        /\ \A m \in Linear : Measure(Achieved(n), m) <= Ceiling[m]
    BY <1>1, <2>2, AchievedHeld
  <2>7. \A a \in Asset : a \in B <=> Wanted(a) > 0
    OBVIOUS
  <2> HIDE DEF n, target, B
  <2>8. /\ Intents(n) \in SUBSET IntentType
        /\ \A i, j \in Intents(n) : i.asset = j.asset => i = j
        /\ \A i \in Intents(n) :
              /\ i.side = "buy" <=> n[i.asset] > 0
              /\ n[i.asset] > 0 => /\ i.limit = LimitPrice("buy", market[i.asset])
                                   /\ i.notional = n[i.asset]
    BY <1>1, <2>3, IntentsOf
  <2>9. \A i \in Intents(n) : i.asset \in Asset
    BY <2>8 DEF IntentType
  <2>10. SizingTyped'
    <3>1. account.holding \in [Asset -> Nat] /\ market \in QuoteSets
      BY <1>1 DEF SizingTyped
    <3>2. plan' \in PlanType
      BY <2>1, <2>3, <2>5, <2>6, <2>8, <3>1 DEF PlanType
    <3> QED
      BY <1>1, <3>2 DEF SizingTyped
  <2>11. OneEach'
    BY <1>1, <2>1, <2>2, <2>8 DEF OneEach
  <2>12. Covered'
    <3> DEFINE due == [a \in Asset |-> IF a \in B THEN n[a] ELSE 0]
    <3>1. /\ due \in [Asset -> Nat]
          /\ \A a \in B : due[a] \in Int /\ due[a] = n[a]
          /\ \A a \in Asset \ B : due[a] = 0
          /\ B \subseteq Asset
      BY <2>3 DEF B
    <3> HIDE DEF due
    <3>2. SumFunctionOnSet(due, Asset) = SumFunctionOnSet(due, B)
      <4>1. IsFiniteSet(Asset) /\ \A a \in Asset : due[a] \in Int
        BY <3>1, FiniteSets
      <4> QED
        BY <3>1, <4>1, SumPart
    <3>3. SumFunctionOnSet(due, B) = SumFunctionOnSet(n, B)
      BY <2>3, <3>1, SumSame
    <3>4. SumFunctionOnSet(due, Asset) <= account.cash + Credit
      <4>1. PICK old : Covers(old)
        BY DEF SizingInv, Covered
      <4>2. SumFunctionOnSet(old, Asset) \in Nat /\ SumFunctionOnSet(old, Asset) <= account.cash + Credit
        <5>1. old \in [Asset -> Nat] /\ SumFunctionOnSet(old, Asset) <= account.cash + Credit
          BY <4>1 DEF Covers
        <5> QED
          BY <5>1, FiniteSets, SumNat
      <4>3. account.cash \in Int /\ Credit \in Nat
        BY <1>1 DEF SizingTyped, SizingAssumption
      <4>4. BuyingPower = account.cash + Credit
        BY <4>2, <4>3 DEF BuyingPower, Larger
      <4> QED
        BY <2>3, <3>2, <3>3, <4>4
    <3>5. \A i \in Intents(n) : i.side = "buy" => i.notional <= due[i.asset]
      <4>1. ASSUME NEW i \in Intents(n), i.side = "buy" PROVE i.notional <= due[i.asset]
        <5>1. i.asset \in Asset /\ n[i.asset] > 0 /\ i.notional = n[i.asset]
          BY <2>8, <2>9, <4>1
        <5>2. i.asset \in B
          <6>1. n[i.asset] \in Int /\ n[i.asset] <= Wanted(i.asset) /\ Wanted(i.asset) \in Int
            BY <2>3, <2>4, <5>1
          <6> QED
            BY <2>7, <5>1, <6>1
        <5> QED
          BY <3>1, <5>1, <5>2
      <4> QED
        BY <4>1
    <3>6. PICK d : d = due
      OBVIOUS
    <3>7. /\ d \in [Asset -> Nat] /\ SumFunctionOnSet(d, Asset) <= account'.cash + Credit
          /\ \A o \in orders' : o.side = "buy" => o.quantity * o.limit <= d[o.asset]
          /\ \A i \in plan'.rest : i.side = "buy" => i.notional <= d[i.asset]
      BY <1>1, <2>1, <2>2, <3>1, <3>4, <3>5, <3>6
    <3>8. Covers(d)'
      BY <3>7 DEF Covers
    <3> QED
      BY <3>8 DEF Covered
  <2>13. AsDecided'
    <3>1. SUFFICES ASSUME NEW a \in Asset, plan'.notional[a] > 0
          PROVE  /\ plan'.holding[a] * plan'.quotes[a].last + plan'.notional[a] <= plan'.target[a]
                 /\ More(a)' * BuyLimit(a)' <= plan'.notional[a]
                 /\ \A i \in plan'.rest : i.asset = a =>
                       /\ i.limit = BuyLimit(a)' /\ i.notional = plan'.notional[a]
                       /\ i.side = "buy" /\ More(a)' = 0
                 /\ \A o \in orders' : o.asset = a =>
                       o.side = "buy" /\ (More(a)' + o.quantity) * BuyLimit(a)' <= plan'.notional[a]
      BY DEF AsDecided
    <3>2. n[a] \in Int /\ n[a] > 0 /\ n[a] <= Wanted(a)
      BY <2>1, <2>3, <3>1
    <3>3. account.holding[a] \in Nat /\ LimitPrice("buy", market[a]) \in Nat
      BY <1>1, QuoteTypes DEF SizingTyped
    <3>4. More(a)' = 0 /\ BuyLimit(a)' = LimitPrice("buy", market[a])
      BY <1>1, <2>1, <3>3 DEF More, BuyLimit
    <3>5. More(a)' * BuyLimit(a)' = 0
      BY <3>3, <3>4
    <3>6. plan'.holding[a] * plan'.quotes[a].last + plan'.notional[a] <= plan'.target[a]
      <4>1. Value(a) + n[a] <= TargetValue(a)
        BY <2>4, <3>2
      <4>2. Value(a) = plan'.holding[a] * plan'.quotes[a].last
        BY <2>1, <2>4
      <4> QED
        BY <2>1, <2>5, <4>1, <4>2
    <3>7. \A i \in plan'.rest : i.asset = a =>
             /\ i.limit = BuyLimit(a)' /\ i.notional = plan'.notional[a]
             /\ i.side = "buy" /\ More(a)' = 0
      BY <2>1, <2>8, <3>2, <3>4
    <3> QED
      BY <1>1, <2>1, <2>2, <3>2, <3>5, <3>6, <3>7
  <2>14. PlannedRiskHeld'
    BY <2>1, <2>6 DEF PlannedRiskHeld
  <2>15. KeptOff'
    <3>1. SUFFICES ASSUME Policy.minEdge > 0, NEW a \in decision.against
          PROVE  n[a] <= 0
      BY <1>1, <2>1 DEF KeptOff, NoBuyAgainstAHorizon
    <3>2. a \in Asset /\ decision.weights[a] = 0
      BY <1>1, <3>1, DecisionHeld
    <3>3. TargetValue(a) = 0
      <4>1. Equity \in Int /\ Scale \in Nat \ {0}
        BY <1>1, ValueTypes
      <4>2. (Equity * 0) \div Scale = 0
        BY <4>1
      <4> QED
        BY <3>2, <4>2 DEF TargetValue
    <3> QED
      BY <2>3, <2>4, <3>2, <3>3
  <2> QED
    BY <2>10, <2>11, <2>12, <2>13, <2>14, <2>15 DEF SizingInv
<1> QED
  BY <1>2, <1>3 DEF Evaluate

LEMMA FillKeeps ==
  ASSUME SizingAssumption, SizingInv, NEW o \in orders, NEW filled \in Fills(o),
         NEW price \in {o.limit, market[o.asset].last}, Fill(o, filled, price)
  PROVE  SizingInv'
<1>1. /\ market' = market /\ decision' = decision /\ plan' = plan
      /\ orders' = orders \ {o} /\ SizingTyped
      /\ o.asset \in Asset /\ o.side \in {"buy", "sell"} /\ o.limit \in Nat /\ o.quantity \in Nat
      /\ account.holding \in [Asset -> Nat] /\ account.cash \in Int /\ Credit \in Nat
  BY FieldTypes DEF Fill, SizingInv, SizingTyped, SizingAssumption
<1>2. filled \in Nat /\ filled <= o.quantity
  <2>1. o.quantity \div 2 \in Nat
    BY <1>1
  <2> QED
    BY <1>1, <2>1 DEF Fills, Fill
<1>3. price \in Nat
  BY <1>1, QuoteTypes DEF SizingTyped
<1> DEFINE signed == IF o.side = "buy" THEN filled ELSE -filled
           h == account.holding[o.asset]
<1>4. /\ account'.holding = [account.holding EXCEPT ![o.asset] = h + signed]
      /\ account'.cash = account.cash - signed * price
      /\ o.side = "buy" => price <= o.limit
      /\ o.side # "buy" => filled <= h
  BY DEF Fill
<1>5. /\ signed \in Int /\ h \in Nat /\ signed <= filled /\ h + signed \in Nat
      /\ (o.side = "buy" => signed = filled) /\ (o.side # "buy" => signed = -filled)
  BY <1>1, <1>2, <1>4
<1> HIDE DEF signed, h
<1>6. /\ account'.holding \in [Asset -> Nat] /\ account'.cash \in Int
      /\ account'.holding[o.asset] = h + signed
      /\ \A a \in Asset : a # o.asset => account'.holding[a] = account.holding[a]
  <2>1. signed * price \in Int
    BY <1>3, <1>5
  <2> QED
    BY <1>1, <1>4, <1>5, <2>1
<1>7. Planned' <=> Planned
  BY <1>1 DEF Planned
<1>8. SizingTyped'
  BY <1>1, <1>6, <1>7 DEF SizingTyped
<1>9. /\ \A p, q \in orders : p.asset = q.asset => p = q
      /\ Planned => /\ \A i, j \in plan.rest : i.asset = j.asset => i = j
                    /\ \A i \in plan.rest, p \in orders : i.asset # p.asset
  BY DEF SizingInv, OneEach
<1>10. OneEach'
  BY <1>1, <1>7, <1>9 DEF OneEach
<1>11. Covered'
  <2>1. PICK due : Covers(due)
    BY DEF SizingInv, Covered
  <2>2. /\ due \in [Asset -> Nat]
        /\ SumFunctionOnSet(due, Asset) <= account.cash + Credit
        /\ \A p \in orders : p.side = "buy" => p.quantity * p.limit <= due[p.asset]
        /\ Planned => \A i \in plan.rest : i.side = "buy" => i.notional <= due[i.asset]
    BY <2>1 DEF Covers
  <2>3. CASE o.side # "buy"
    <3>1. account.cash <= account'.cash
      <4>1. filled * price \in Nat /\ signed * price = -(filled * price)
        BY <1>2, <1>3, <1>5, <2>3
      <4> QED
        BY <1>1, <1>4, <4>1
    <3>2. SumFunctionOnSet(due, Asset) <= account'.cash + Credit
      <4>1. SumFunctionOnSet(due, Asset) \in Nat
        BY <2>2, FiniteSets, SumNat
      <4> QED
        BY <1>1, <1>6, <2>2, <3>1, <4>1
    <3>3. Covers(due)'
      BY <1>1, <1>7, <2>2, <3>2 DEF Covers
    <3> QED
      BY <3>3 DEF Covered
  <2>4. CASE o.side = "buy"
    <3> DEFINE left == [due EXCEPT ![o.asset] = 0]
               S == Asset \ {o.asset}
    <3>1. /\ left \in [Asset -> Nat] /\ left[o.asset] = 0
          /\ \A a \in Asset : a # o.asset => left[a] = due[a]
      BY <1>1, <2>2
    <3>2. IsFiniteSet(Asset) /\ IsFiniteSet(S)
      BY FiniteSets
    <3> HIDE DEF left
    <3>3. /\ SumFunctionOnSet(due, Asset) = due[o.asset] + SumFunctionOnSet(due, S)
          /\ SumFunctionOnSet(left, Asset) = left[o.asset] + SumFunctionOnSet(left, S)
      <4>1. \A a \in Asset : due[a] \in Int /\ left[a] \in Int
        BY <2>2, <3>1
      <4> QED
        BY <1>1, <3>2, <4>1, SumWithout
    <3>4. SumFunctionOnSet(due, S) = SumFunctionOnSet(left, S)
      <4>1. \A a \in S : due[a] \in Int /\ due[a] = left[a]
        BY <2>2, <3>1
      <4> HIDE DEF S
      <4> QED
        BY <3>2, <4>1, SumSame
    <3>5. SumFunctionOnSet(left, S) \in Nat /\ due[o.asset] \in Nat
      <4>1. \A a \in S : left[a] \in Nat
        BY <3>1
      <4> HIDE DEF S
      <4> QED
        BY <1>1, <2>2, <3>2, <4>1, SumNat
    <3>6. filled * price <= due[o.asset]
      <4>1. filled * price <= o.quantity * price
        BY <1>1, <1>2, <1>3, Product
      <4>2. o.quantity * price <= o.quantity * o.limit
        BY <1>1, <1>3, <1>4, <2>4, Product
      <4>3. o.quantity * o.limit <= due[o.asset]
        BY <2>2, <2>4
      <4>4. filled * price \in Nat /\ o.quantity * price \in Nat /\ o.quantity * o.limit \in Nat
        BY <1>1, <1>2, <1>3
      <4> QED
        BY <3>5, <4>1, <4>2, <4>3, <4>4
    <3>7. SumFunctionOnSet(left, Asset) <= account'.cash + Credit
      <4>1. account'.cash = account.cash - filled * price /\ filled * price \in Nat
        BY <1>2, <1>3, <1>4, <1>5, <2>4
      <4> QED
        BY <1>1, <2>2, <3>1, <3>3, <3>4, <3>5, <3>6, <4>1
    <3>8. \A p \in orders' : p.side = "buy" => p.quantity * p.limit <= left[p.asset]
      <4>1. \A p \in orders : p.asset \in Asset
        BY <1>1, FieldTypes
      <4> QED
        BY <1>1, <1>9, <2>2, <3>1, <4>1
    <3>9. Planned => \A i \in plan.rest : i.side = "buy" => i.notional <= left[i.asset]
      <4>1. Planned => \A i \in plan.rest : i.asset \in Asset
        BY <1>1, FieldTypes
      <4> QED
        BY <1>9, <2>2, <3>1, <4>1
    <3>10. PICK d : d = left
      OBVIOUS
    <3>11. Covers(d)'
      BY <1>1, <1>7, <3>1, <3>7, <3>8, <3>9, <3>10 DEF Covers
    <3> QED
      BY <3>11 DEF Covered
  <2> QED
    BY <2>3, <2>4
<1>12. AsDecided'
  <2>1. SUFFICES ASSUME Planned, NEW a \in Asset, plan.notional[a] > 0
        PROVE  /\ plan.holding[a] * plan.quotes[a].last + plan.notional[a] <= plan.target[a]
               /\ More(a)' * BuyLimit(a) <= plan.notional[a]
               /\ \A i \in plan.rest : i.asset = a =>
                     /\ i.limit = BuyLimit(a) /\ i.notional = plan.notional[a]
                     /\ i.side = "buy" /\ More(a)' = 0
               /\ \A p \in orders' : p.asset = a =>
                     p.side = "buy" /\ (More(a)' + p.quantity) * BuyLimit(a) <= plan.notional[a]
    BY <1>1, <1>7 DEF AsDecided, BuyLimit
  <2>2. /\ plan.holding[a] * plan.quotes[a].last + plan.notional[a] <= plan.target[a]
        /\ More(a) * BuyLimit(a) <= plan.notional[a]
        /\ \A i \in plan.rest : i.asset = a =>
              /\ i.limit = BuyLimit(a) /\ i.notional = plan.notional[a]
              /\ i.side = "buy" /\ More(a) = 0
        /\ \A p \in orders : p.asset = a =>
              p.side = "buy" /\ (More(a) + p.quantity) * BuyLimit(a) <= plan.notional[a]
    BY <2>1 DEF SizingInv, AsDecided
  <2>3. CASE a # o.asset
    <3>1. More(a)' = More(a)
      BY <1>1, <1>6, <2>3 DEF More
    <3> QED
      BY <1>1, <2>2, <3>1
  <2>4. CASE a = o.asset
    <3>1. o.side = "buy" /\ (More(a) + o.quantity) * BuyLimit(a) <= plan.notional[a]
      BY <2>2, <2>4
    <3>2. \A p \in orders' : p.asset # a
      BY <1>1, <1>9, <2>4
    <3>3. \A i \in plan.rest : i.asset # a
      BY <1>9, <2>1, <2>4
    <3>4. More(a)' * BuyLimit(a) <= plan.notional[a]
      <4>1. /\ plan.holding[a] \in Nat /\ plan.notional[a] \in Int /\ plan.quotes \in QuoteSets
            /\ account.holding[a] \in Nat
        BY <1>1, <2>1, FieldTypes
      <4>2. BuyLimit(a) \in Nat
        BY <4>1, QuoteTypes DEF BuyLimit
      <4>3. More(a) \in Int /\ More(a)' = More(a) + filled
        BY <1>1, <1>5, <1>6, <2>4, <3>1, <4>1 DEF More, h
      <4>4. (More(a) + filled) * BuyLimit(a) <= (More(a) + o.quantity) * BuyLimit(a)
        <5>1. More(a) + filled \in Int /\ More(a) + o.quantity \in Int
              /\ More(a) + filled <= More(a) + o.quantity
          BY <1>1, <1>2, <4>3
        <5> QED
          BY <4>2, <5>1, Product
      <4>5. /\ (More(a) + filled) * BuyLimit(a) \in Int
            /\ (More(a) + o.quantity) * BuyLimit(a) \in Int
        BY <1>1, <1>2, <4>2, <4>3
      <4> QED
        BY <3>1, <4>1, <4>3, <4>4, <4>5
    <3> QED
      BY <2>2, <3>2, <3>3, <3>4
  <2> QED
    BY <2>3, <2>4
<1>13. PlannedRiskHeld' /\ KeptOff'
  BY <1>1, <1>7 DEF SizingInv, PlannedRiskHeld, KeptOff, NoBuyAgainstAHorizon
<1> QED
  BY <1>8, <1>10, <1>11, <1>12, <1>13 DEF SizingInv

LEMMA SizingKept ==
  ASSUME SizingAssumption, SizingInv, [SizingNext]_sizingVars
  PROVE  SizingInv'
<1>1. CASE TakeDecision
  BY <1>1, TakeDecisionKeeps
<1>2. CASE \E approved \in Approvals : Evaluate(approved)
  BY <1>2, EvaluateKeeps
<1>3. CASE Send
  BY <1>3, SendKeeps
<1>4. CASE GiveUp
  BY <1>4, GiveUpKeeps
<1>5. CASE \E order \in orders : \E filled \in Fills(order) :
             \E price \in {order.limit, market[order.asset].last} : Fill(order, filled, price)
  BY <1>5, FillKeeps
<1>6. CASE Move
  BY <1>6, MoveKeeps
<1>7. CASE UNCHANGED sizingVars
  BY <1>7 DEF sizingVars, SizingInv, SizingTyped, OneEach, Covered, Covers, AsDecided, More,
              BuyLimit, PlannedRiskHeld, KeptOff, NoBuyAgainstAHorizon, Planned
<1> QED
  BY <1>1, <1>2, <1>3, <1>4, <1>5, <1>6, <1>7 DEF SizingNext

LEMMA SizingInvariance == SizingAssumption => (SizingSpec => []SizingInv)
<1> SUFFICES ASSUME SizingAssumption PROVE SizingSpec => []SizingInv
  OBVIOUS
<1>1. SizingInit => SizingInv
  BY SizingStart
<1>2. SizingInv /\ [SizingNext]_sizingVars => SizingInv'
  BY SizingKept
<1> QED
  BY <1>1, <1>2, PTL DEF SizingSpec

LEMMA CashCovered ==
  ASSUME SizingAssumption, SizingInv
  PROVE  NeverOverdrawn
<1>1. PICK due : due \in [Asset -> Nat] /\ SumFunctionOnSet(due, Asset) <= account.cash + Credit
  BY DEF SizingInv, Covered, Covers
<1>2. SumFunctionOnSet(due, Asset) \in Nat
  BY <1>1, FiniteSets, SumNat
<1>3. account.cash \in Int /\ Credit \in Nat
  BY DEF SizingInv, SizingTyped, SizingAssumption
<1> QED
  BY <1>1, <1>2, <1>3 DEF NeverOverdrawn

LEMMA BoughtBelow ==
  ASSUME SizingAssumption, SizingInv
  PROVE  BoughtWithinDecision
<1>1. SUFFICES ASSUME Planned, NEW a \in Asset, plan.notional[a] > 0
      PROVE  LET open == {o \in orders : o.asset = a /\ o.side = "buy"}
                 more == More(a) + Total([o \in open |-> o.quantity], open)
             IN  plan.holding[a] * plan.quotes[a].last + more * BuyLimit(a) <= plan.target[a]
  BY DEF BoughtWithinDecision, More, BuyLimit
<1> DEFINE open == {o \in orders : o.asset = a /\ o.side = "buy"}
           size == [o \in open |-> o.quantity]
           value == plan.holding[a] * plan.quotes[a].last
<1>2. /\ SizingTyped
      /\ \A o, p \in orders : o.asset = p.asset => o = p
      /\ value + plan.notional[a] <= plan.target[a]
      /\ More(a) * BuyLimit(a) <= plan.notional[a]
      /\ \A o \in orders : o.asset = a => (More(a) + o.quantity) * BuyLimit(a) <= plan.notional[a]
  BY <1>1 DEF SizingInv, OneEach, AsDecided
<1>3. /\ plan.holding[a] \in Nat /\ plan.notional[a] \in Int /\ plan.quotes \in QuoteSets
      /\ account.holding[a] \in Nat /\ plan.target[a] \in Int
  <2>1. plan \in PlanType
    BY <1>1, <1>2, FieldTypes
  <2> QED
    BY <1>1, <1>2, <2>1, FieldTypes DEF PlanType, SizingTyped
<1>4. BuyLimit(a) \in Nat /\ value \in Nat /\ More(a) \in Int
  <2>1. BuyLimit(a) \in Nat /\ plan.quotes[a].last \in Nat
    BY <1>3, QuoteTypes DEF BuyLimit
  <2> QED
    BY <1>3, <2>1 DEF More
<1>5. Total(size, open) \in Int /\ (More(a) + Total(size, open)) * BuyLimit(a) <= plan.notional[a]
  <2>1. CASE open = {}
    <3>1. SumFunctionOnSet(size, open) = 0
      BY <2>1, SumEmpty
    <3> HIDE DEF size, open
    <3> QED
      BY <1>2, <1>4, <3>1 DEF Total
  <2>2. CASE open # {}
    <3>1. PICK o \in orders : o.asset = a /\ o.side = "buy"
      BY <2>2
    <3>2. open = {o}
      BY <1>2, <3>1
    <3>3. o.quantity \in Nat
      BY <1>2, <3>1, FieldTypes
    <3>4. size[o] = o.quantity
      BY <3>2
    <3> HIDE DEF size, open
    <3>5. SumFunctionOnSet(size, {o}) = o.quantity
      BY <3>3, <3>4, SumOne
    <3> QED
      BY <1>2, <3>1, <3>2, <3>3, <3>5 DEF Total
  <2> QED
    BY <2>1, <2>2
<1> HIDE DEF value
<1>6. value + (More(a) + Total(size, open)) * BuyLimit(a) <= plan.target[a]
  <2> DEFINE cost == (More(a) + Total(size, open)) * BuyLimit(a)
  <2>1. cost \in Int /\ cost <= plan.notional[a]
    BY <1>4, <1>5
  <2> HIDE DEF cost
  <2>2. value + cost <= plan.target[a]
    BY <1>2, <1>3, <1>4, <2>1
  <2> QED
    BY <2>2 DEF cost
<1> QED
  BY <1>6 DEF value

\* The account is not drawn below its credit, in whatever order the sells and the
\* buys of the plans fill, in part, as a whole or not at all, and at whatever
\* price their limits allow; for any assets, quotes, forecasts and number of Runs.
THEOREM CashHolds == SizingAssumption => (SizingSpec => []NeverOverdrawn)
<1> SUFFICES ASSUME SizingAssumption PROVE SizingSpec => []NeverOverdrawn
  OBVIOUS
<1>1. SizingInv => NeverOverdrawn
  BY CashCovered
<1> QED
  BY <1>1, SizingInvariance, PTL

\* No asset is bought beyond the value that the decision gives it: what the plan
\* found, what it has bought since and what it still has open, at the buys' limits.
THEOREM BuysHold == SizingAssumption => (SizingSpec => []BoughtWithinDecision)
<1> SUFFICES ASSUME SizingAssumption PROVE SizingSpec => []BoughtWithinDecision
  OBVIOUS
<1>1. SizingInv => BoughtWithinDecision
  BY BoughtBelow
<1> QED
  BY <1>1, SizingInvariance, PTL

\* What an accepted plan would hold is within the limits on gross weight, beta,
\* shortfall and gap, for every policy, risk model and forecast that is valid: the
\* scalings, roundings and shared-out buys between them never add to a weight.
THEOREM RiskHolds == SizingAssumption => (SizingSpec => []PlannedRiskHeld)
<1> SUFFICES ASSUME SizingAssumption PROVE SizingSpec => []PlannedRiskHeld
  OBVIOUS
<1>1. SizingInv => PlannedRiskHeld
  BY DEF SizingInv
<1> QED
  BY <1>1, SizingInvariance, PTL

\* No plan buys an asset that a horizon of its decision expects to fall, under a
\* policy that asks for some edge.  One that asks for none, which is valid as well,
\* may buy it: a mean of small losses is cut to zero, and zero is enough then.
THEOREM NoBuyAgainst ==
  SizingAssumption /\ Policy.minEdge > 0 => (SizingSpec => []NoBuyAgainstAHorizon)
<1> SUFFICES ASSUME SizingAssumption, Policy.minEdge > 0
             PROVE  SizingSpec => []NoBuyAgainstAHorizon
  OBVIOUS
<1>1. SizingInv => NoBuyAgainstAHorizon
  BY DEF SizingInv, KeptOff
<1> QED
  BY <1>1, SizingInvariance, PTL
==============================================================================
