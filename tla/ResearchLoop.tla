---------------------------- MODULE ResearchLoop ----------------------------
(***************************************************************************)
(* The frozen research graph of one Run, from the first Claims to the      *)
(* Decision: an Analyst and a Critic per horizon, one supplemental round   *)
(* that all horizons share, a second Analyst and Critic per horizon that   *)
(* run only for new facts, and pairs of Synthesizer and ProposalReviewer   *)
(* that run until a proposal is accepted, the revisions are used up or two *)
(* rejections are the same.                                                *)
(*                                                                         *)
(* A node reads only outputs of settled nodes and publishes its own in one *)
(* transaction, so it is one step here; its model calls are the subject of *)
(* ResearchTurns.  The supplement writes as it goes, and a crash or a lost *)
(* run log may come between any two of its writes.                         *)
(***************************************************************************)
EXTENDS Integers, FiniteSetsExt

CONSTANTS Horizons,      \* 1 .. n for T1, T3, T5
          Resources,     \* governed resources, in the order of their names
          ClaimAsks, CritiqueAsks,  \* sets of resources that they may ask for
          MaxResources,  \* distinct resources of one supplemental round
          MaxRevisions,  \* revisions after the initial proposal
          Forecasts, Allocations,  \* the scopes that a review assesses
          Contents,      \* what a proposal can say about a scope
          Issues,        \* why a review can reject a scope
          MaxDeferrals   \* bound on how often the supplement is put off

ResearchLoopAssumption ==
  /\ Horizons \subseteq Nat /\ Resources \subseteq Nat
  /\ ClaimAsks \subseteq SUBSET Resources /\ CritiqueAsks \subseteq SUBSET Resources
  /\ Horizons # {} /\ IsFiniteSet(Horizons) /\ IsFiniteSet(Resources)
  /\ MaxResources \in Nat /\ MaxRevisions \in Nat /\ MaxDeferrals \in Nat
  /\ Forecasts \cap Allocations = {} /\ "accepted" \notin Issues

VARIABLES
  st,       \* the status of each node
  out,      \* the output of each succeeded node
  started,  \* resources with a durable start
  done,     \* the durable disposition of each resource and the attempt it is of
  live,     \* what the running attempt of the supplement holds in memory
  att,      \* the number of the supplement's last attempt
  asked,    \* how often each resource was asked for at its source
  decided   \* the revision the Decision took, or -1

vars == <<st, out, started, done, live, att, asked, decided>>

Rounds == {0, 1}
Revisions == 0 .. MaxRevisions
Scopes == Forecasts \cup Allocations

Analyst(h, r) == <<"analyst", h, r>>
Critic(h, r) == <<"critic", h, r>>
Supplement == <<"supplement", 0, 0>>
Synthesizer(k) == <<"synthesizer", 0, k>>
Reviewer(k) == <<"reviewer", 0, k>>
Decision == <<"decision", 0, 0>>

Pairs(r) == {Analyst(h, r) : h \in Horizons} \cup {Critic(h, r) : h \in Horizons}
Nodes ==
  Pairs(0) \cup Pairs(1) \cup {Supplement, Decision}
    \cup {Synthesizer(k) : k \in Revisions} \cup {Reviewer(k) : k \in Revisions}

Role(n) == n[1]
Horizon(n) == n[2]
Round(n) == n[3]

\* research_definition: the edges of the graph.
Parents(n) ==
  CASE Role(n) = "analyst" -> IF Round(n) = 0 THEN {} ELSE {Supplement}
    [] Role(n) = "critic" ->
         {Analyst(Horizon(n), Round(n))} \cup (IF Round(n) = 0 THEN {} ELSE {Supplement})
    [] Role(n) = "supplement" -> Pairs(0)
    [] Role(n) = "synthesizer" ->
         Pairs(0) \cup Pairs(1) \cup (IF Round(n) = 0 THEN {} ELSE {Reviewer(Round(n) - 1)})
    [] Role(n) = "reviewer" -> {Synthesizer(Round(n))}
    [] OTHER -> {Reviewer(MaxRevisions)}

\* The closure of the edges, layer by layer.
FirstRound == Pairs(0) \cup {Supplement}
Ancestors(n) ==
  CASE Role(n) \in {"analyst", "critic"} ->
         (IF Role(n) = "critic" THEN {Analyst(Horizon(n), Round(n))} ELSE {})
           \cup (IF Round(n) = 1 THEN FirstRound ELSE {})
    [] Role(n) = "supplement" -> Pairs(0)
    [] OTHER ->
         LET last == IF Role(n) = "decision" THEN MaxRevisions ELSE Round(n) - 1
         IN  FirstRound \cup Pairs(1) \cup {Synthesizer(k) : k \in 0 .. last}
               \cup {Reviewer(k) : k \in 0 .. last}
               \cup (IF Role(n) = "reviewer" THEN {Synthesizer(Round(n))} ELSE {})

LayersAreClosure ==
  \A n \in Nodes : Ancestors(n) = Parents(n) \cup UNION {Ancestors(p) : p \in Parents(n)}

Nothing == [kind |-> "none"]
Idle == [pc |-> "idle", todo |-> {}, row |-> <<0, 0>>, answer |-> "none",
         affected |-> {}, evidence |-> {}]
------------------------------------------------------------------------------
(***************************************************************************)
(* What a node reads.                                                      *)
(***************************************************************************)
\* Mutant: a skipped node hides what is before it.
GivesDirectly(n, p) ==
  /\ st[p] = "succeeded"
  /\ p \in Parents(n) \cup UNION {Parents(q) : q \in {x \in Parents(n) : st[x] = "succeeded"}}
\* ancestor_outputs: n reads the output of p.  A skipped node has none, but
\* those before it count.
Gives(n, p) == st[p] = "succeeded" /\ p \in Ancestors(n)

Stopped(n) == \E k \in Revisions : out[Synthesizer(k)].kind = "stop" /\ Gives(n, Synthesizer(k))
Reviews(n) == {k \in Revisions : Gives(n, Reviewer(k))}
Verdict(k) == out[Reviewer(k)].verdict
Content(k) == out[Synthesizer(k)].content
Accepted(k) == \A s \in Scopes : Verdict(k)[s] = "accepted"

\* proposal_revision_stagnated: the rejected scopes, why, and what they said.
Fingerprint(k) ==
  {<<s, Verdict(k)[s], Content(k)[s]>> : s \in {x \in Scopes : Verdict(k)[x] # "accepted"}}

Stagnated(n) ==
  /\ Role(n) = "synthesizer" /\ Cardinality(Reviews(n)) >= 2
  /\ LET last == Max(Reviews(n))
         previous == Max(Reviews(n) \ {last})
     IN  ~Accepted(last) /\ ~Accepted(previous) /\ Fingerprint(last) = Fingerprint(previous)

\* The round that the supplement has settled; nothing before it has.
Supplemental(n) ==
  IF Gives(n, Supplement) THEN out[Supplement]
  ELSE [kind |-> "round", affected |-> {}, evidence |-> {}]

\* Of two Claims about a horizon the later round counts.
ClaimRounds(n, h) == {r \in Rounds : Gives(n, Analyst(h, r))}
Selected(n, h) == Max(ClaimRounds(n, h))

Over(n) ==
  \/ Stopped(n)
  \/ Reviews(n) # {} /\ Accepted(Max(Reviews(n)))

\* Nothing new for the horizon, or nothing in its Claim to examine.
Unaffected(n) ==
  /\ Role(n) \in {"analyst", "critic"} /\ Round(n) = 1
  /\ Horizon(n) \notin Supplemental(n).affected
Unremarkable(n) ==
  /\ Role(n) = "critic"
  /\ ~out[Analyst(Horizon(n), Selected(n, Horizon(n)))].notable
------------------------------------------------------------------------------
(***************************************************************************)
(* The nodes that call a model: bounded_research.                          *)
(***************************************************************************)
Settled == {"succeeded", "skipped"}
Ready(n) == st[n] = "queued" /\ \A p \in Parents(n) : st[p] \in Settled

Publish(n, o) == st' = [st EXCEPT ![n] = "succeeded"] /\ out' = [out EXCEPT ![n] = o]

\* A lost Analyst takes the nodes behind it along, any other node the Run.
Closing(n) ==
  [m \in Nodes |->
     IF m = n THEN "failed"
     ELSE IF st[m] = "queued" /\ (Role(n) = "analyst" => n \in Ancestors(m)) THEN "cancelled"
     ELSE st[m]]

\* What the model of a node may submit.
Claims(n) ==
  [kind : {"claim"}, notable : BOOLEAN, facts : {Supplemental(n).evidence},
   asks : IF Round(n) = 0 THEN ClaimAsks ELSE {{}}]
Critiques(n) ==
  [kind : {"critique"}, asks : IF Round(n) = 0 THEN CritiqueAsks ELSE {{}}]

\* validate_proposal_revision: an accepted forecast stays as it is.
Keeps(n, content) ==
  \A s \in Forecasts :
    (Reviews(n) # {} /\ Verdict(Max(Reviews(n)))[s] = "accepted")
      => content[s] = Content(Max(Reviews(n)))[s]

Proposals(n) ==
  [kind : {"proposal"},
   content : {c \in [Scopes -> Contents] : Keeps(n, c)},
   claims : {[h \in Horizons |-> Selected(n, h)]},
   critiques : {{h \in Horizons : Gives(n, Critic(h, Selected(n, h)))}}]

\* A review assesses the proposal of its own revision.
Assessments(n) == [kind : {"review"}, verdict : [Scopes -> Issues \cup {"accepted"}]]

Submissions(n) ==
  CASE Role(n) = "analyst" -> Claims(n)
    [] Role(n) = "critic" -> Critiques(n)
    [] Role(n) = "synthesizer" -> Proposals(n)
    [] OTHER -> Assessments(n)

Researchers == Nodes \ {Supplement, Decision}
supplementVars == <<started, done, live, att, asked>>

Skip(n) ==
  /\ Ready(n)
  /\ Over(n) \/ (~Stagnated(n) /\ (Unaffected(n) \/ Unremarkable(n)))
  /\ st' = [st EXCEPT ![n] = "skipped"]
  /\ UNCHANGED <<out, decided, supplementVars>>

\* The revisions lead nowhere: a marker that is no proposal ends them.
Stop(n) ==
  /\ Ready(n) /\ ~Over(n) /\ Stagnated(n)
  /\ Publish(n, [kind |-> "stop"])
  /\ UNCHANGED <<decided, supplementVars>>

Research(n) ==
  /\ Ready(n)
  /\ ~(Over(n) \/ Stagnated(n) \/ Unaffected(n) \/ Unremarkable(n))
  /\ \E o \in Submissions(n) : Publish(n, o)
  /\ UNCHANGED <<decided, supplementVars>>

\* Its retries are used up, or they could not help.
FailNode(n) ==
  /\ Ready(n)
  /\ st' = Closing(n)
  /\ UNCHANGED <<out, decided, supplementVars>>
------------------------------------------------------------------------------
(***************************************************************************)
(* The supplement: shared_research_supplement.  Equal rows of an Analyst   *)
(* and its Critic are one row, since the second is settled like the first. *)
(***************************************************************************)
Rows ==
  {row \in Horizons \X Resources :
     \E p \in {Analyst(row[1], 0), Critic(row[1], 0)} :
       st[p] = "succeeded" /\ row[2] \in out[p].asks}

Precedes(a, b) == a[1] < b[1] \/ (a[1] = b[1] /\ a[2] <= b[2])
First(rows) == CHOOSE a \in rows : \A b \in rows : Precedes(a, b)

StartSupplement ==
  /\ Ready(Supplement)
  /\ st' = [st EXCEPT ![Supplement] = "running"]
  /\ att' = att + 1
  /\ live' = [Idle EXCEPT !.pc = "rows", !.todo = Rows]
  /\ UNCHANGED <<out, started, done, asked, decided>>

\* Mutant: only the horizon whose row asked the source is affected.
SettleOnce(row, facts) ==
  live' = [live EXCEPT !.pc = "rows", !.answer = "none", !.row = <<0, 0>>,
                       !.todo = @ \ {row},
                       !.affected = IF facts /\ row[2] \notin live.evidence
                                    THEN @ \cup {row[1]} ELSE @,
                       !.evidence = IF facts THEN @ \cup {row[2]} ELSE @]
\* A row with evidence, its own or that of an earlier row for the resource.
Settle(row, facts) ==
  live' = [live EXCEPT !.pc = "rows", !.answer = "none", !.row = <<0, 0>>,
                       !.todo = @ \ {row},
                       !.affected = IF facts THEN @ \cup {row[1]} ELSE @,
                       !.evidence = IF facts THEN @ \cup {row[2]} ELSE @]

Row == First(live.todo)
Known(r) == done[r].answer # "none"
InDoubt(r) == r \in started /\ ~Known(r)
Exhausted(r) == Cardinality(started) >= MaxResources

\* deduplicated, unknown_after_crash, budget_exhausted
PassRow ==
  /\ live.pc = "rows" /\ live.todo # {}
  /\ \/ Known(Row[2]) /\ Settle(Row, done[Row[2]].answer = "facts")
     \/ (InDoubt(Row[2]) \/ (~Known(Row[2]) /\ Exhausted(Row[2]))) /\ Settle(Row, FALSE)
  /\ UNCHANGED <<st, out, started, done, att, asked, decided>>

\* Mutant: the start is only noted when the answer is.
StartUnnoted ==
  /\ live.pc = "rows" /\ live.todo # {}
  /\ ~Known(Row[2]) /\ ~InDoubt(Row[2]) /\ ~Exhausted(Row[2])
  /\ live' = [live EXCEPT !.pc = "asking", !.row = Row]
  /\ UNCHANGED <<st, out, started, done, att, asked, decided>>
\* The start is durable before the source is asked.
StartRow ==
  /\ live.pc = "rows" /\ live.todo # {}
  /\ ~Known(Row[2]) /\ ~InDoubt(Row[2]) /\ ~Exhausted(Row[2])
  /\ started' = started \cup {Row[2]}
  /\ live' = [live EXCEPT !.pc = "asking", !.row = Row]
  /\ UNCHANGED <<st, out, done, att, asked, decided>>

Acquire ==
  /\ live.pc = "asking"
  /\ asked' = [asked EXCEPT ![live.row[2]] = @ + 1]
  /\ \E answer \in {"facts", "nothing", "failed"} :
       live' = [live EXCEPT !.pc = "answered", !.answer = answer]
  /\ UNCHANGED <<st, out, started, done, att, decided>>

Dispose ==
  /\ live.pc = "answered"
  /\ done' = [done EXCEPT ![live.row[2]] = [answer |-> live.answer, att |-> att]]
  /\ Settle(live.row, live.answer = "facts")
  /\ UNCHANGED <<st, out, started, att, asked, decided>>

\* Artifacts of another attempt are not this attempt's to publish.
Foreign == \E r \in live.evidence : done[r].att # att

FinishSupplement ==
  /\ live.pc = "rows" /\ live.todo = {} /\ ~Foreign
  /\ Publish(Supplement, [kind |-> "round", affected |-> live.affected,
                          evidence |-> live.evidence])
  /\ live' = Idle
  /\ UNCHANGED <<started, done, att, asked, decided>>

\* PermitOriginMismatch ends the worker pool, and with it every attempt; the
\* sweep finds this one expired and, with max_attempts 1, exhausted.
RefuseSupplement ==
  /\ live.pc = "rows" /\ live.todo = {} /\ Foreign
  /\ st' = Closing(Supplement)
  /\ live' = Idle
  /\ UNCHANGED <<out, started, done, att, asked, decided>>

\* The run log is lost: after a failed collection, or when the result is due.
PutOff ==
  /\ \/ live.pc = "answered" /\ live.answer = "failed"
     \/ live.pc = "rows" /\ live.todo = {}
  /\ att <= MaxDeferrals
  /\ st' = [st EXCEPT ![Supplement] = "queued"]
  /\ live' = Idle
  /\ UNCHANGED <<out, started, done, att, asked, decided>>

\* A crash, the wall time, or an error of the handler: there is no retry.
LoseSupplement ==
  /\ st[Supplement] = "running"
  /\ st' = Closing(Supplement)
  /\ live' = Idle
  /\ UNCHANGED <<out, started, done, att, asked, decided>>
------------------------------------------------------------------------------
(***************************************************************************)
(* The Decision: decision_gate with final_proposal_review.                 *)
(***************************************************************************)
Decide ==
  /\ Ready(Decision)
  /\ LET last == Max(Reviews(Decision))
     IN  /\ Accepted(last)
         /\ decided' = last
  /\ st' = [st EXCEPT ![Decision] = "succeeded"]
  /\ UNCHANGED <<out, supplementVars>>

\* No accepted review, or a gate of the Decision says no.
RefuseDecision ==
  /\ Ready(Decision)
  /\ st' = Closing(Decision)
  /\ UNCHANGED <<out, decided, supplementVars>>

Init ==
  /\ st = [n \in Nodes |-> "queued"]
  /\ out = [n \in Nodes |-> Nothing]
  /\ started = {} /\ live = Idle /\ att = 0
  /\ done = [r \in Resources |-> [answer |-> "none", att |-> 0]]
  /\ asked = [r \in Resources |-> 0]
  /\ decided = -1

Next ==
  \/ \E n \in Researchers : Skip(n) \/ Stop(n) \/ Research(n) \/ FailNode(n)
  \/ StartSupplement \/ PassRow \/ StartRow \/ Acquire \/ Dispose
  \/ FinishSupplement \/ RefuseSupplement \/ PutOff \/ LoseSupplement
  \/ Decide \/ RefuseDecision

Spec == Init /\ [][Next]_vars
------------------------------------------------------------------------------
(***************************************************************************)
(* Properties.                                                             *)
(***************************************************************************)
\* Over all attempts and all horizons the round asks for a resource at most
\* once and for at most MaxResources of them: a crash or a lost run log
\* between the durable start and the disposition costs the resource, never a
\* second request (research_supplement.rs, "started" before the I/O).
AskedOnce ==
  /\ \A r \in Resources : asked[r] <= 1
  /\ Cardinality({r \in Resources : asked[r] > 0}) <= MaxResources

\* After an accepted review, or after two equal rejections, no node writes a
\* proposal or a review any more, however many skipped nodes lie between; and
\* what the Decision takes is the accepted proposal, every scope of it.
AcceptedIsFinal ==
  /\ \A j, k \in Revisions :
       (j < k /\ \/ out[Reviewer(j)].kind = "review" /\ Accepted(j)
                 \/ out[Synthesizer(j)].kind = "stop")
         => out[Synthesizer(k)] = Nothing /\ out[Reviewer(k)] = Nothing
  /\ decided # -1 =>
       /\ out[Reviewer(decided)].kind = "review" /\ Accepted(decided)
       /\ \A k \in Revisions : out[Synthesizer(k)].kind # "stop"

\* The proposal that is decided rests, for each horizon, on the refined Claim
\* exactly when a resource that the horizon asked for brought new facts, no
\* matter which horizon's row asked the source; every refined Claim has read
\* all of them, and each examined Claim counts with the Critique of it and not
\* of its predecessor (bounded_research).
FactsOf(h) == {r \in Resources : <<h, r>> \in Rows /\ done[r].answer = "facts"}
FactsReachDecision ==
  decided # -1 =>
    LET p == out[Synthesizer(decided)]
    IN  \A h \in Horizons :
          /\ p.claims[h] = IF FactsOf(h) = {} THEN 0 ELSE 1
          /\ FactsOf(h) \subseteq out[Analyst(h, p.claims[h])].facts
          /\ h \in p.critiques <=> out[Analyst(h, p.claims[h])].notable
=============================================================================
