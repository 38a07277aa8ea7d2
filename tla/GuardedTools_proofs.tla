-------------------------- MODULE GuardedTools_proofs --------------------------
(***************************************************************************)
(* Proofs about what an adapter does with a call and with its output: about *)
(* GuardedTools, for every set of calls and every adapter that can be       *)
(* described by what it does with the answers of the platform, and about    *)
(* the Sanitizer of outputs, for every text and every list of matches.      *)
(***************************************************************************)
EXTENDS GuardedTools, Sanitizer, SequenceTheorems, TLAPS

\* What RunsAreCleared and RefusedNeverRuns say of one call.
RunOK(i) ==
  /\ i \in ran \/ pc[i] \in {"run", "scan"}
  /\ adapter[i].asks = "yes"
  /\ adapter[i].pending = "wait" \/ decision[i] # "PENDING"
  => Cleared(i) /\ (adapter[i].spends = "yes" => i \in spent)
RefusalOK(i) == outcome[i] \in Refusals => i \notin ran /\ pc[i] = "returned"

LEMMA GInvByCall ==
  GInv <=> GTypeOK /\ \A i \in Ids : CallOK(i) /\ RunOK(i) /\ RefusalOK(i)
BY DEF GInv, RunsAreCleared, RefusedNeverRuns, RunOK, RefusalOK

LEMMA GInvByCallNext ==
  GInv' <=> GTypeOK' /\ \A i \in Ids : CallOK(i)' /\ RunOK(i)' /\ RefusalOK(i)'
BY DEF GInv, RunsAreCleared, RefusedNeverRuns, RunOK, RefusalOK

\* A call that a step does not touch stays as it is.
LEMMA Untouched ==
  ASSUME NEW j \in Ids, CallOK(j), RunOK(j), RefusalOK(j),
         adapter'[j] = adapter[j], pc'[j] = pc[j], decision'[j] = decision[j],
         outcome'[j] = outcome[j], j \in spent' <=> j \in spent, j \in ran' <=> j \in ran,
         client'[j] = client[j], verdict'[j] = verdict[j]
  PROVE  CallOK(j)' /\ RunOK(j)' /\ RefusalOK(j)'
BY DEF CallOK, RunOK, RefusalOK, Cleared

-------------------------------------------------------------------------------
\* Where a step of one call leaves it: the others are untouched.
LEMMA OneCall ==
  ASSUME GInv, NEW i \in Ids, GTypeOK',
         \A j \in Ids \ {i} :
           /\ adapter'[j] = adapter[j] /\ pc'[j] = pc[j] /\ decision'[j] = decision[j]
           /\ outcome'[j] = outcome[j] /\ (j \in spent' <=> j \in spent) /\ (j \in ran' <=> j \in ran)
           /\ client'[j] = client[j] /\ verdict'[j] = verdict[j],
         CallOK(i)', RunOK(i)', RefusalOK(i)'
  PROVE  GInv'
<1>1. ASSUME NEW j \in Ids \ {i}
      PROVE  CallOK(j)' /\ RunOK(j)' /\ RefusalOK(j)'
  BY Untouched, GInvByCall
<1>2. QED BY <1>1, GInvByCallNext

LEMMA CallKeeps ==
  ASSUME GInv, NEW i \in Ids, NEW a \in Adapters, Call(i, a)
  PROVE  GInv'
<1>1. CallOK(i) /\ RunOK(i) /\ RefusalOK(i) /\ GTypeOK
  BY GInvByCall
<1> USE DEF Call, hvars
<1>2. GTypeOK'
  BY <1>1 DEF GTypeOK
<1>3. CallOK(i)' /\ RunOK(i)' /\ RefusalOK(i)'
  BY <1>1 DEF GTypeOK, CallOK, RunOK, RefusalOK, Cleared
<1>4. QED BY <1>1, <1>2, <1>3, OneCall DEF GTypeOK

LEMMA CallNodeKeeps ==
  ASSUME GInv, NEW calls \in SUBSET Ids, CallNode(calls)
  PROVE  GInv'
<1>1. GTypeOK /\ \A i \in Ids : CallOK(i) /\ RunOK(i) /\ RefusalOK(i)
  BY GInvByCall
<1> USE DEF CallNode, hvars
<1>2. GTypeOK'
  BY <1>1 DEF GTypeOK
<1>3. ASSUME NEW i \in calls
      PROVE  CallOK(i)' /\ RunOK(i)' /\ RefusalOK(i)'
  BY <1>1 DEF GTypeOK, CallOK, RunOK, RefusalOK, Cleared
<1>4. ASSUME NEW j \in Ids \ calls
      PROVE  CallOK(j)' /\ RunOK(j)' /\ RefusalOK(j)'
  BY <1>1, Untouched
<1>5. QED BY <1>2, <1>3, <1>4, GInvByCallNext

\* A call that has not run comes back to the agent.
LEMMA ReturnKeeps ==
  ASSUME GInv, NEW i \in Ids, pc[i] # "idle", GTypeOK', NEW what \in Outcomes, Return(i, what),
         \A j \in Ids \ {i} :
           /\ decision'[j] = decision[j] /\ client'[j] = client[j] /\ verdict'[j] = verdict[j]
           /\ (j \in spent' <=> j \in spent),
         client'[i] = "APPROVED" => verdict'[i] = "APPROVED",
         UNCHANGED <<adapter, ran>>, i \notin ran
  PROVE  GInv'
<1>1. GTypeOK /\ CallOK(i)
  BY GInvByCall
<1>2. pc' = [pc EXCEPT ![i] = "returned"] /\ outcome' = [outcome EXCEPT ![i] = what]
  BY DEF Return
<1>3. pc'[i] = "returned"
  BY <1>1, <1>2 DEF GTypeOK
<1>4. CallOK(i)' /\ RunOK(i)' /\ RefusalOK(i)'
  BY <1>1, <1>3 DEF CallOK, RunOK, RefusalOK
<1>5. QED BY <1>1, <1>2, <1>4, OneCall DEF GTypeOK

\* A call goes on where it may.
LEMMA GotoKeeps ==
  ASSUME GInv, NEW i \in Ids, pc[i] \in {"authorize", "wait", "spend"}, GTypeOK',
         NEW where \in {"wait", "spend", "run"}, Goto(i, where),
         \A j \in Ids \ {i} :
           /\ decision'[j] = decision[j] /\ client'[j] = client[j] /\ verdict'[j] = verdict[j]
           /\ (j \in spent' <=> j \in spent),
         client'[i] = "APPROVED" => verdict'[i] = "APPROVED",
         UNCHANGED <<adapter, ran>>,
         where = "wait" => decision'[i] = "PENDING",
         where # "wait" /\ (adapter[i].pending = "wait" \/ decision'[i] # "PENDING") => Cleared(i)',
         where = "run" /\ (adapter[i].pending = "wait" \/ decision'[i] # "PENDING")
           /\ adapter[i].spends = "yes" => i \in spent'
  PROVE  GInv'
<1>1. GTypeOK /\ CallOK(i) /\ RefusalOK(i)
  BY GInvByCall
<1>2. pc' = [pc EXCEPT ![i] = where] /\ outcome' = outcome
  BY DEF Goto
<1>3. pc'[i] = where
  BY <1>1, <1>2 DEF GTypeOK
<1>4. CallOK(i)'
  BY <1>1, <1>2, <1>3 DEF CallOK
<1>5. RunOK(i)'
  BY <1>1, <1>3 DEF CallOK, RunOK
<1>6. RefusalOK(i)'
  <2>1. outcome[i] \notin Refusals
    BY <1>1 DEF RefusalOK
  <2>2. QED BY <1>2, <2>1 DEF RefusalOK
<1>7. QED BY <1>1, <1>2, <1>4, <1>5, <1>6, OneCall DEF GTypeOK

-------------------------------------------------------------------------------
\* The type of what a call comes back with, and of where it goes.
LEMMA RefuseType ==
  ASSUME GTypeOK, NEW i \in Ids, NEW how, Refuse(i, how)
  PROVE  /\ \E what \in Refusals : Return(i, what)
         /\ pc' \in [Ids -> {"idle", "authorize", "wait", "spend", "run", "scan", "returned"}]
         /\ outcome' \in [Ids -> Outcomes \union {None}]
BY DEF GTypeOK, Refuse, Return, Refusals, Outcomes

LEMMA GotoType ==
  ASSUME GTypeOK, NEW i \in Ids, NEW where \in {"wait", "spend", "run", "scan"}, Goto(i, where)
  PROVE  /\ pc' \in [Ids -> {"idle", "authorize", "wait", "spend", "run", "scan", "returned"}]
         /\ outcome' \in [Ids -> Outcomes \union {None}]
BY DEF GTypeOK, Goto

LEMMA NotFoundKeeps ==
  ASSUME GInv, NEW i \in Ids, NotFound(i)
  PROVE  GInv'
<1>1. GTypeOK /\ CallOK(i) /\ pc[i] = "authorize"
  BY GInvByCall DEF NotFound
<1>2. GTypeOK'
  BY <1>1 DEF NotFound, Return, GTypeOK, hvars, Outcomes
<1>3. QED BY <1>1, <1>2, ReturnKeeps DEF NotFound, CallOK, hvars, Outcomes

LEMMA DecidedKeeps ==
  ASSUME GInv, NEW i \in Ids, Decided(i)
  PROVE  GInv'
<1>1. GTypeOK /\ CallOK(i) /\ pc[i] = "authorize" /\ UNCHANGED <<hvars, adapter, spent, ran, message>>
  BY GInvByCall DEF Decided
<1>2. PICK d \in {"PERMIT", "ESCALATE", "DENY"} :
        /\ decision' = [decision EXCEPT ![i] = d]
        /\ IF d = "DENY" THEN Refuse(i, adapter[i].denied) ELSE Passed(i)
  BY DEF Decided
<1>3. decision'[i] = d /\ \A j \in Ids \ {i} : decision'[j] = decision[j]
  BY <1>1, <1>2 DEF GTypeOK
<1>4. CASE d = "DENY"
  <2>1. Refuse(i, adapter[i].denied)
    BY <1>2, <1>4
  <2>2. GTypeOK'
    BY <1>1, <1>2, <2>1, RefuseType DEF GTypeOK, hvars
  <2>3. QED BY <1>1, <1>3, <2>1, <2>2, RefuseType, ReturnKeeps DEF CallOK, hvars, Outcomes
<1>5. CASE d # "DENY"
  <2>1. PICK where \in {"spend", "run"} :
          /\ Goto(i, where)
          /\ where = "run" => adapter[i].spends # "yes"
    BY <1>2, <1>5 DEF Passed
  <2>2. GTypeOK'
    BY <1>1, <1>2, <2>1, GotoType DEF GTypeOK, hvars
  <2>3. Cleared(i)'
    BY <1>3, <1>5, <1>2 DEF Cleared
  <2>4. QED BY <1>1, <1>3, <2>1, <2>2, <2>3, GotoKeeps DEF CallOK, hvars
<1>6. QED BY <1>4, <1>5

LEMMA AskType ==
  ASSUME GTypeOK, NEW i \in Ids, Ask(i)
  PROVE  /\ client' \in [Ids -> {"none", "waiting"} \union Verdicts]
         /\ client'[i] = "waiting"
         /\ \A j \in Ids \ {i} : client'[j] = client[j]
         /\ verdict' = verdict
BY DEF GTypeOK, Ask

LEMMA EscalatedKeeps ==
  ASSUME GInv, NEW i \in Ids, Escalated(i)
  PROVE  GInv'
<1>1. GTypeOK /\ CallOK(i) /\ pc[i] = "authorize" /\ UNCHANGED <<adapter, spent, ran, message>>
  BY GInvByCall DEF Escalated
<1>2. /\ client' \in [Ids -> {"none", "waiting"} \union Verdicts]
      /\ client'[i] = "waiting"
      /\ \A j \in Ids \ {i} : client'[j] = client[j]
      /\ verdict' = verdict
  BY <1>1, AskType DEF Escalated
<1>3. /\ decision' = [decision EXCEPT ![i] = "PENDING"]
      /\ decision'[i] = "PENDING" /\ \A j \in Ids \ {i} : decision'[j] = decision[j]
  BY <1>1 DEF Escalated, GTypeOK
<1>4. PICK where \in {"wait", "run"} : where = adapter[i].pending /\ Goto(i, where)
  BY <1>1, AdapterAssumption DEF Escalated, CallOK, Adapter
<1>5. GTypeOK'
  BY <1>1, <1>2, <1>3, <1>4, GotoType DEF GTypeOK
<1>6. QED BY <1>1, <1>2, <1>3, <1>4, <1>5, GotoKeeps

LEMMA AuthorizeFailsKeeps ==
  ASSUME GInv, NEW i \in Ids, AuthorizeFails(i)
  PROVE  GInv'
<1>1. GTypeOK /\ CallOK(i) /\ pc[i] = "authorize" /\ UNCHANGED <<adapter, spent, ran, message>>
  BY GInvByCall DEF AuthorizeFails
<1>2. /\ client' \in [Ids -> {"none", "waiting"} \union Verdicts]
      /\ client'[i] = "APPROVED" => verdict'[i] = "APPROVED"
      /\ \A j \in Ids \ {i} : client'[j] = client[j]
      /\ verdict' = verdict
  BY <1>1, AskType DEF AuthorizeFails, GTypeOK, CallOK, hvars
<1>3. /\ decision' = [decision EXCEPT ![i] = "DENY"]
      /\ \A j \in Ids \ {i} : decision'[j] = decision[j]
      /\ Refuse(i, adapter[i].lost)
  BY <1>1 DEF AuthorizeFails, GTypeOK
<1>4. GTypeOK'
  BY <1>1, <1>2, <1>3, RefuseType DEF GTypeOK
<1>5. QED BY <1>1, <1>2, <1>3, <1>4, RefuseType, ReturnKeeps DEF CallOK, Outcomes

LEMMA HumanAnsweredKeeps ==
  ASSUME GInv, NEW i \in Ids, HumanAnswered(i)
  PROVE  GInv'
<1>1. /\ GTypeOK /\ CallOK(i) /\ pc[i] = "wait" /\ client[i] \in Verdicts
      /\ UNCHANGED <<client, verdict, adapter, decision, spent, ran, message>>
  BY GInvByCall DEF HumanAnswered, hvars
<1>2. CASE client[i] = "APPROVED"
  <2>1. PICK where \in {"spend", "run"} :
          /\ Goto(i, where)
          /\ where = "run" => adapter[i].spends # "yes"
    BY <1>2 DEF HumanAnswered, Passed
  <2>2. GTypeOK'
    BY <1>1, <2>1, GotoType DEF GTypeOK
  <2>3. Cleared(i)'
    BY <1>1, <1>2 DEF Cleared, CallOK
  <2>4. QED BY <1>1, <2>1, <2>2, <2>3, GotoKeeps DEF CallOK
<1>3. CASE client[i] # "APPROVED"
  <2>1. Refuse(i, adapter[i].denied)
    BY <1>3 DEF HumanAnswered
  <2>2. GTypeOK'
    BY <1>1, <2>1, RefuseType DEF GTypeOK
  <2>3. QED BY <1>1, <2>1, <2>2, RefuseType, ReturnKeeps DEF CallOK, Outcomes
<1>4. QED BY <1>2, <1>3

LEMMA CheckBindingFailsKeeps ==
  ASSUME GInv, NEW i \in Ids, CheckBindingFails(i)
  PROVE  GInv'
<1>1. /\ GTypeOK /\ CallOK(i) /\ pc[i] = "spend" /\ Refuse(i, "raise")
      /\ UNCHANGED <<client, verdict, adapter, decision, spent, ran, message>>
  BY GInvByCall DEF CheckBindingFails, hvars
<1>2. GTypeOK'
  BY <1>1, RefuseType DEF GTypeOK
<1>3. QED BY <1>1, <1>2, RefuseType, ReturnKeeps DEF CallOK, Outcomes

LEMMA RedeemKeeps ==
  ASSUME GInv, NEW i \in Ids, Redeem(i)
  PROVE  GInv'
<1>1. /\ GTypeOK /\ CallOK(i) /\ pc[i] = "spend"
      /\ UNCHANGED <<client, verdict, adapter, decision, ran, message>>
  BY GInvByCall DEF Redeem, hvars
<1>2. spent' \in {spent, spent \union {i}}
  BY DEF Redeem
<1>3. spent' \subseteq Ids /\ \A j \in Ids \ {i} : j \in spent' <=> j \in spent
  BY <1>1, <1>2 DEF GTypeOK
<1>4. CASE Refuse(i, "raise")
  <2>1. GTypeOK'
    BY <1>1, <1>3, <1>4, RefuseType DEF GTypeOK
  <2>2. QED BY <1>1, <1>3, <1>4, <2>1, RefuseType, ReturnKeeps DEF CallOK, Outcomes
<1>5. CASE decision[i] # "PENDING" /\ i \in spent' /\ Goto(i, "run")
  <2>1. GTypeOK'
    BY <1>1, <1>3, <1>5, GotoType DEF GTypeOK
  <2>2. Cleared(i)'
    BY <1>1, <1>5 DEF CallOK, Cleared
  <2>3. QED BY <1>1, <1>3, <1>5, <2>1, <2>2, GotoKeeps DEF CallOK
<1>6. QED BY <1>4, <1>5 DEF Redeem

LEMMA RunToolKeeps ==
  ASSUME GInv, NEW i \in Ids, RunTool(i)
  PROVE  GInv'
<1>1. /\ GTypeOK /\ CallOK(i) /\ RunOK(i) /\ RefusalOK(i)
      /\ pc[i] = "run" /\ ran' = ran \union {i}
      /\ UNCHANGED <<client, verdict, adapter, decision, spent, message>>
  BY GInvByCall DEF RunTool, hvars
<1>2. /\ \A j \in Ids \ {i} : pc'[j] = pc[j] /\ outcome'[j] = outcome[j]
      /\ pc'[i] \in {"scan", "returned"}
      /\ outcome'[i] \notin Refusals
      /\ pc'[i] = "scan" => outcome'[i] = outcome[i]
      /\ pc' \in [Ids -> {"idle", "authorize", "wait", "spend", "run", "scan", "returned"}]
      /\ outcome' \in [Ids -> Outcomes \union {None}]
  BY <1>1 DEF RunTool, Return, Goto, GTypeOK, RefusalOK, Refusals, Outcomes
<1>3. GTypeOK'
  BY <1>1, <1>2 DEF GTypeOK
<1>4. CallOK(i)' /\ RefusalOK(i)'
  BY <1>1, <1>2 DEF CallOK, RefusalOK
<1>5. RunOK(i)'
  BY <1>1, <1>2 DEF RunOK, Cleared
<1>6. QED BY <1>1, <1>2, <1>3, <1>4, <1>5, OneCall

LEMMA ScanOutputKeeps ==
  ASSUME GInv, NEW i \in Ids, ScanOutput(i)
  PROVE  GInv'
<1>1. /\ GTypeOK /\ CallOK(i) /\ RunOK(i) /\ RefusalOK(i) /\ pc[i] = "scan"
      /\ UNCHANGED <<client, verdict, adapter, decision, spent, ran, message>>
  BY GInvByCall DEF ScanOutput, hvars
<1>2. /\ \A j \in Ids \ {i} : pc'[j] = pc[j] /\ outcome'[j] = outcome[j]
      /\ pc'[i] = "returned"
      /\ outcome'[i] \notin Refusals
      /\ pc' \in [Ids -> {"idle", "authorize", "wait", "spend", "run", "scan", "returned"}]
      /\ outcome' \in [Ids -> Outcomes \union {None}]
  BY <1>1 DEF ScanOutput, Return, GTypeOK, Refusals, Outcomes
<1>3. GTypeOK'
  BY <1>1, <1>2 DEF GTypeOK
<1>4. CallOK(i)' /\ RunOK(i)' /\ RefusalOK(i)'
  BY <1>1, <1>2 DEF CallOK, RunOK, RefusalOK, Cleared
<1>5. QED BY <1>1, <1>2, <1>3, <1>4, OneCall

LEMMA NodeReturnsKeeps ==
  ASSUME GInv, NodeReturns
  PROVE  GInv'
<1>1. UNCHANGED <<client, verdict, adapter, pc, decision, spent, ran, outcome>> /\ message' = {}
  BY DEF NodeReturns, hvars
<1>2. GTypeOK'
  BY <1>1 DEF GInv, GTypeOK
<1>3. QED BY <1>1, <1>2, Untouched, GInvByCall, GInvByCallNext

\* A decision that is settled, or heard of, unsettles no other: what was
\* approved stays approved, and a client hears of an approval only then.
LEMMA DecisionKeeps ==
  ASSUME GInv, NEW i \in Ids, Decision(i)
  PROVE  GInv'
<1>1. /\ GTypeOK /\ CallOK(i) /\ RunOK(i) /\ RefusalOK(i)
      /\ UNCHANGED <<adapter, pc, decision, spent, ran, outcome, message>>
  BY GInvByCall DEF Decision, gvars
<1>2. /\ client' \in [Ids -> {"none", "waiting"} \union Verdicts]
      /\ verdict' \in [Ids -> {"PENDING"} \union Verdicts]
      /\ \A j \in Ids \ {i} : client'[j] = client[j] /\ verdict'[j] = verdict[j]
      /\ verdict[i] = "APPROVED" => verdict'[i] = "APPROVED"
      /\ client'[i] = "APPROVED" => client[i] = "APPROVED" \/ verdict'[i] = "APPROVED"
  BY <1>1 DEF Decision, Hear, Decide, GTypeOK, Verdicts
<1>3. GTypeOK'
  BY <1>1, <1>2 DEF GTypeOK
<1>4. CallOK(i)' /\ RunOK(i)' /\ RefusalOK(i)'
  BY <1>1, <1>2 DEF CallOK, RunOK, RefusalOK, Cleared
<1>5. QED BY <1>1, <1>2, <1>3, <1>4, OneCall

-------------------------------------------------------------------------------
LEMMA GInvInit == GInit => GInv
<1> SUFFICES ASSUME GInit PROVE GInv
  OBVIOUS
<1> USE DEF GInit, HInit
<1>1. GTypeOK
  BY DEF GTypeOK
<1>2. None \notin Refusals
  BY OutcomeAssumption DEF Outcomes
<1>3. ASSUME NEW i \in Ids
      PROVE  CallOK(i) /\ RunOK(i) /\ RefusalOK(i)
  BY <1>2 DEF CallOK, RunOK, RefusalOK
<1>4. QED BY <1>1, <1>3, GInvByCall

LEMMA GInvStep ==
  ASSUME GInv, [GNext]_tvars
  PROVE  GInv'
<1>1. ASSUME NEW i \in Ids, CallStep(i)
      PROVE  GInv'
  BY <1>1, NotFoundKeeps, DecidedKeeps, EscalatedKeeps, AuthorizeFailsKeeps, HumanAnsweredKeeps,
     CheckBindingFailsKeeps, RedeemKeeps, RunToolKeeps, ScanOutputKeeps DEF CallStep
<1>2. CASE UNCHANGED tvars
  <2>1. UNCHANGED <<client, verdict, adapter, pc, decision, spent, ran, outcome, message>>
    BY <1>2 DEF tvars
  <2>2. GTypeOK'
    BY <2>1 DEF GInv, GTypeOK
  <2>3. QED BY <2>1, <2>2, Untouched, GInvByCall, GInvByCallNext
<1>3. QED BY <1>1, <1>2, CallKeeps, CallNodeKeeps, NodeReturnsKeeps, DecisionKeeps DEF GNext

LEMMA Invariance == GSpec => []GInv
<1>1. QED BY GInvInit, GInvStep, PTL DEF GSpec

\* Every reachable state of the adapters is well typed.
THEOREM TypeCorrect == GSpec => []GTypeOK
<1>1. GInv => GTypeOK
  BY DEF GInv
<1>2. QED BY <1>1, Invariance, PTL

\* Whatever the adapter, however many calls: what is run behind an adapter that
\* asks and waits for humans is permitted, escalated or approved, and behind guard spent.
THEOREM RunsCleared == GSpec => []RunsAreCleared
<1>1. GInv => RunsAreCleared
  BY DEF GInv
<1>2. QED BY <1>1, Invariance, PTL

\* A call the agent was told is refused has not run and never runs.
THEOREM RefusedStaysOut == GSpec => []RefusedNeverRuns
<1>1. GInv => RefusedNeverRuns
  BY DEF GInv
<1>2. QED BY <1>1, Invariance, PTL

-------------------------------------------------------------------------------
(* The sanitizer: spans that are resolved one match at a time.             *)

\* What the types say of matches and spans.
LEMMA SpanTyped ==
  ASSUME SpansOK
  PROVE  /\ \A k \in DOMAIN hits : /\ hits[k] \in Span /\ hits[k].from < hits[k].to
                                   /\ hits[k].from \in Nat /\ hits[k].to \in Nat
                                   /\ hits[k].to <= Length
                                   /\ hits[k].sev \in Severities /\ hits[k].sev \in Nat
         /\ \A k \in DOMAIN spans : /\ spans[k] \in Span /\ spans[k].from < spans[k].to
                                    /\ spans[k].from \in Nat /\ spans[k].to \in Nat
                                    /\ spans[k].to <= Length
                                    /\ spans[k].sev \in Severities /\ spans[k].sev \in Nat
<1>1. \A s \in Span : /\ s.from \in Nat /\ s.to \in Nat /\ s.to <= Length
                      /\ s.sev \in Severities /\ s.sev \in Nat
  BY LengthAssumption DEF Span, Severities
<1>2. \A k \in DOMAIN hits : hits[k] \in Span /\ hits[k].from < hits[k].to
  BY HitsAssumption DEF SpansOK
<1>3. \A k \in DOMAIN spans : spans[k] \in Span /\ spans[k].from < spans[k].to
  BY DEF SpansOK
<1>4. QED BY <1>1, <1>2, <1>3

\* Spans that are apart are in the order of the text.
LEMMA ApartOrder ==
  ASSUME SpansOK, Apart, NEW j \in DOMAIN spans, NEW k \in DOMAIN spans, j < k
  PROVE  spans[j].to <= spans[k].from /\ spans[j].from < spans[k].from /\ spans[j].to < spans[k].to
<1>1. spans[j].to <= spans[k].from
  BY DEF Apart
<1>2. QED BY <1>1, SpanTyped

\* A match apart from the last span becomes a span.
LEMMA AppendKeeps ==
  ASSUME SpansOK, Apart, \A i \in DOMAIN hits \ rest : BeginsInSpan(hits[i]),
         NEW k \in rest, First(k), ~ Overlaps(hits[k]),
         rest' = rest \ {k}, spans' = Append(spans, hits[k]), hits' = hits
  PROVE  SpansOK' /\ Apart' /\ \A i \in DOMAIN hits \ rest' : BeginsInSpan(hits[i])'
<1>1. k \in DOMAIN hits /\ rest \subseteq DOMAIN hits /\ hits \in Hits
  BY DEF SpansOK
<1>2. PICK h \in Span : /\ h = hits[k] /\ h.from < h.to /\ h.from \in Nat /\ h.to \in Nat
                        /\ h.sev \in Nat
  BY <1>1, SpanTyped
<1>3. PICK n \in Nat : n = Len(spans) /\ DOMAIN spans = 1 .. n
  BY DEF SpansOK
<1>4. /\ spans' \in Seq(Span) /\ DOMAIN spans' = 1 .. (n + 1) /\ spans'[n + 1] = h
      /\ \A j \in 1 .. n : spans'[j] = spans[j]
  BY <1>2, <1>3 DEF SpansOK
<1>5. \A j \in 1 .. (n + 1) : j \in 1 .. n \/ j = n + 1
  OBVIOUS
<1>6. \A j \in 1 .. n : spans[j].to <= h.from
  <2>1. SUFFICES ASSUME NEW j \in 1 .. n PROVE spans[j].to <= h.from
    OBVIOUS
  <2>2. n \in 1 .. n
    BY <2>1
  <2>3. spans[n].to <= h.from
    <3>1. spans # <<>> /\ Last(spans) = spans[n]
      BY <1>3, <2>2 DEF Last
    <3>2. ~ (h.from < spans[n].to)
      BY <1>2, <3>1 DEF Overlaps
    <3>3. spans[n].to \in Nat
      BY <1>3, <2>2, SpanTyped
    <3>4. QED BY <1>2, <3>2, <3>3
  <2>4. CASE j = n
    BY <2>3, <2>4
  <2>5. CASE j # n
    <3>1. spans[j].to < spans[n].to
      BY <1>3, <2>2, <2>5, ApartOrder
    <3>2. spans[j].to \in Nat /\ spans[n].to \in Nat
      BY <1>3, <2>2, SpanTyped
    <3>3. QED BY <1>2, <2>3, <3>1, <3>2
  <2>6. QED BY <2>4, <2>5
<1>7. Apart'
  <2>1. ASSUME NEW i \in 1 .. (n + 1), NEW j \in 1 .. (n + 1), i < j
        PROVE  spans'[i].to <= spans'[j].from
    <3>1. i \in 1 .. n
      BY <2>1
    <3>2. CASE j = n + 1
      BY <1>4, <1>6, <3>1, <3>2
    <3>3. CASE j # n + 1
      BY <1>3, <1>4, <1>5, <2>1, <3>1, <3>3 DEF Apart
    <3>4. QED BY <3>2, <3>3
  <2>2. QED BY <1>4, <2>1 DEF Apart
<1>8. SpansOK'
  <2>1. rest' \subseteq DOMAIN hits /\ k \in DOMAIN hits \ rest'
    BY <1>1
  <2>2. \A j \in 1 .. (n + 1) : spans'[j].from < spans'[j].to
    BY <1>2, <1>3, <1>4, <1>5 DEF SpansOK
  <2>3. \A j \in 1 .. (n + 1) : \E i \in DOMAIN hits \ rest' : spans'[j].sev = hits[i].sev
    <3>1. \A j \in 1 .. n : \E i \in DOMAIN hits \ rest' : spans[j].sev = hits[i].sev
      BY <1>3 DEF SpansOK
    <3>2. QED BY <1>2, <1>4, <1>5, <2>1, <3>1
  <2>4. \A j \in 1 .. (n + 1), i \in rest' : spans'[j].from <= hits[i].from
    <3>1. \A j \in 1 .. n, i \in rest : spans[j].from <= hits[i].from
      BY <1>3 DEF SpansOK
    <3>2. \A i \in rest : h.from <= hits[i].from
      <4>1. \A i \in rest : hits[i].from \in Nat
        BY <1>1, SpanTyped
      <4>2. QED BY <1>2, <4>1 DEF First
    <3>3. QED BY <1>4, <1>5, <3>1, <3>2
  <2>5. QED BY <1>1, <1>4, <2>1, <2>2, <2>3, <2>4 DEF SpansOK
<1>9. ASSUME NEW i \in DOMAIN hits \ rest'
      PROVE  BeginsInSpan(hits[i])'
  <2>1. CASE i = k
    <3>1. n + 1 \in 1 .. (n + 1) /\ h.from <= h.from /\ h.sev <= h.sev
      BY <1>2
    <3>2. QED BY <1>2, <1>4, <2>1, <3>1 DEF BeginsInSpan
  <2>2. CASE i # k
    <3>1. PICK j \in 1 .. n : /\ spans[j].from <= hits[i].from /\ hits[i].from < spans[j].to
                              /\ hits[i].sev <= spans[j].sev
      BY <1>3, <2>2 DEF BeginsInSpan
    <3>2. j \in 1 .. (n + 1)
      OBVIOUS
    <3>3. QED BY <1>4, <3>1, <3>2 DEF BeginsInSpan
  <2>3. QED BY <2>1, <2>2
<1>10. QED BY <1>7, <1>8, <1>9

\* A more severe match takes over the last span from where that began.
LEMMA ReplaceKeeps ==
  ASSUME SpansOK, Apart, \A i \in DOMAIN hits \ rest : BeginsInSpan(hits[i]),
         NEW k \in rest, First(k), Overlaps(hits[k]), hits[k].sev > Last(spans).sev,
         rest' = rest \ {k}, hits' = hits,
         spans' = [spans EXCEPT ![Len(spans)] = Replaced(@, hits[k])]
  PROVE  SpansOK' /\ Apart' /\ \A i \in DOMAIN hits \ rest' : BeginsInSpan(hits[i])'
<1>1. k \in DOMAIN hits /\ rest \subseteq DOMAIN hits /\ hits \in Hits
  BY DEF SpansOK
<1>2. PICK h \in Span : /\ h = hits[k] /\ h.from < h.to /\ h.from \in Nat /\ h.to \in Nat
                        /\ h.sev \in Nat
  BY <1>1, SpanTyped
<1>3. PICK n \in Nat : n = Len(spans) /\ DOMAIN spans = 1 .. n /\ n \in 1 .. n
  BY DEF SpansOK, Overlaps
<1>4. PICK o \in Span : /\ o = spans[n] /\ o.from < o.to /\ o.from \in Nat /\ o.to \in Nat
                        /\ o.sev \in Nat
  BY <1>3, SpanTyped
<1>5. o.from <= h.from /\ h.from < o.to /\ o.sev < h.sev
  <2>1. Last(spans) = o
    BY <1>3, <1>4 DEF Last
  <2>2. o.from <= h.from
    BY <1>2, <1>3, <1>4 DEF SpansOK
  <2>3. QED BY <1>2, <1>4, <2>1, <2>2 DEF Overlaps
<1>6. PICK s \in Span : /\ s = Replaced(o, h)
                        /\ s.from = o.from /\ s.sev = h.sev /\ s.to \in Nat
                        /\ o.to <= s.to /\ h.to <= s.to
  <2>1. Replaced(o, h) \in Span
    BY DEF Replaced, Larger, Span
  <2>2. /\ Replaced(o, h).from = o.from /\ Replaced(o, h).sev = h.sev
        /\ Replaced(o, h).to = Larger(o.to, h.to)
    BY DEF Replaced
  <2>3. Larger(o.to, h.to) \in Nat /\ o.to <= Larger(o.to, h.to) /\ h.to <= Larger(o.to, h.to)
    BY <1>2, <1>4 DEF Larger
  <2>4. QED BY <2>1, <2>2, <2>3
<1>7. spans' = [spans EXCEPT ![n] = s]
  BY <1>2, <1>3, <1>4, <1>6
<1>8. /\ spans' \in Seq(Span) /\ DOMAIN spans' = 1 .. n /\ spans'[n] = s
      /\ \A j \in 1 .. n : j # n => spans'[j] = spans[j]
  <2>1. spans' \in Seq(Span)
    BY <1>3, <1>7 DEF SpansOK
  <2>2. QED BY <1>3, <1>7, <2>1
<1>9. Apart'
  <2>1. ASSUME NEW i \in 1 .. n, NEW j \in 1 .. n, i < j
        PROVE  spans'[i].to <= spans'[j].from
    <3>1. spans[i].to <= spans[j].from
      BY <1>3, <2>1 DEF Apart
    <3>2. i # n
      BY <2>1
    <3>3. spans'[j].from = spans[j].from
      BY <1>4, <1>6, <1>8
    <3>4. QED BY <1>8, <3>1, <3>2, <3>3
  <2>2. QED BY <1>8, <2>1 DEF Apart
<1>10. SpansOK'
  <2>1. rest' \subseteq DOMAIN hits /\ k \in DOMAIN hits \ rest'
    BY <1>1
  <2>2. \A j \in 1 .. n : spans'[j].from < spans'[j].to
    <3>1. s.from < s.to
      BY <1>4, <1>6
    <3>2. QED BY <1>3, <1>8, <3>1 DEF SpansOK
  <2>3. \A j \in 1 .. n : \E i \in DOMAIN hits \ rest' : spans'[j].sev = hits[i].sev
    <3>1. \A j \in 1 .. n : \E i \in DOMAIN hits \ rest' : spans[j].sev = hits[i].sev
      BY <1>3 DEF SpansOK
    <3>2. QED BY <1>2, <1>6, <1>8, <2>1, <3>1
  <2>4. \A j \in 1 .. n, i \in rest' : spans'[j].from <= hits[i].from
    <3>1. \A j \in 1 .. n, i \in rest : spans[j].from <= hits[i].from
      BY <1>3 DEF SpansOK
    <3>2. \A j \in 1 .. n : spans'[j].from = spans[j].from
      BY <1>4, <1>6, <1>8
    <3>3. QED BY <3>1, <3>2
  <2>5. QED BY <1>1, <1>8, <2>1, <2>2, <2>3, <2>4 DEF SpansOK
<1>11. ASSUME NEW i \in DOMAIN hits \ rest'
       PROVE  BeginsInSpan(hits[i])'
  <2>1. CASE i = k
    <3>1. s.from <= h.from /\ h.from < s.to /\ h.sev <= s.sev
      BY <1>2, <1>4, <1>5, <1>6
    <3>2. QED BY <1>2, <1>3, <1>8, <2>1, <3>1 DEF BeginsInSpan
  <2>2. CASE i # k
    <3>1. PICK j \in 1 .. n : /\ spans[j].from <= hits[i].from /\ hits[i].from < spans[j].to
                              /\ hits[i].sev <= spans[j].sev
      BY <1>3, <2>2 DEF BeginsInSpan
    <3>2. CASE j # n
      BY <1>8, <3>1, <3>2 DEF BeginsInSpan
    <3>3. CASE j = n
      <4>1. hits[i].from \in Nat /\ hits[i].sev \in Nat
        BY SpanTyped
      <4>2. s.from <= hits[i].from /\ hits[i].from < s.to /\ hits[i].sev <= s.sev
        BY <1>2, <1>4, <1>5, <1>6, <3>1, <3>3, <4>1
      <4>3. QED BY <1>3, <1>8, <4>2 DEF BeginsInSpan
    <3>4. QED BY <3>2, <3>3
  <2>3. QED BY <2>1, <2>2
<1>12. QED BY <1>9, <1>10, <1>11

\* A match that is not more severe is dropped: the last span stands for it.
LEMMA DropKeeps ==
  ASSUME SpansOK, Apart, \A i \in DOMAIN hits \ rest : BeginsInSpan(hits[i]),
         NEW k \in rest, Overlaps(hits[k]), ~ (hits[k].sev > Last(spans).sev),
         rest' = rest \ {k}, spans' = spans, hits' = hits
  PROVE  SpansOK' /\ Apart' /\ \A i \in DOMAIN hits \ rest' : BeginsInSpan(hits[i])'
<1>1. PICK n \in Nat : n = Len(spans) /\ n \in DOMAIN spans /\ Last(spans) = spans[n]
  BY DEF SpansOK, Overlaps, Last
<1>2. /\ hits[k].from \in Nat /\ hits[k].sev \in Nat /\ spans[n].sev \in Nat
      /\ spans[n].from <= hits[k].from
  BY <1>1, SpanTyped DEF SpansOK
<1>3. BeginsInSpan(hits[k])
  BY <1>1, <1>2 DEF BeginsInSpan, Overlaps
<1>4. \A i \in DOMAIN hits \ rest' : BeginsInSpan(hits[i])'
  BY <1>3 DEF BeginsInSpan
<1>5. SpansOK' /\ Apart'
  BY DEF SpansOK, Apart
<1>6. QED BY <1>4, <1>5

-------------------------------------------------------------------------------
(* The sanitizer: spans that are cut from the last to the first.           *)

\* What one cut leaves: the cells before the span, its label, the cells after it.
CutOf(u, t, a, b, label) ==
  /\ u \in Seq(Int) /\ Len(u) = a + 1 + (Len(t) - b)
  /\ \A n \in 1 .. a : u[n] = t[n]
  /\ u[a + 1] = label
  /\ \A n \in b + 1 .. Len(t) : u[n - b + a + 1] = t[n]

LEMMA CutCells ==
  ASSUME NEW t \in Seq(Int), NEW a \in Nat, NEW b \in Nat, NEW label \in Int, a < b, b <= Len(t)
  PROVE  CutOf(Cut(t, a, b, label), t, a, b, label)
<1>0. PICK u : u = Cut(t, a, b, label)
  OBVIOUS
<1>1. PICK l \in Nat : l = Len(t) /\ \A n \in 1 .. l : t[n] \in Int
  BY LenProperties, ElementOfSeq
<1>2. PICK x \in Seq(Int) : x = SubSeq(t, 1, a) /\ Len(x) = a /\ \A n \in 1 .. a : x[n] = t[n]
  <2>1. \A n \in 1 .. a : t[n] \in Int
    BY <1>1
  <2>2. /\ SubSeq(t, 1, a) \in Seq(Int)
        /\ Len(SubSeq(t, 1, a)) = IF 1 <= a THEN a - 1 + 1 ELSE 0
        /\ \A n \in 1 .. a - 1 + 1 : SubSeq(t, 1, a)[n] = t[1 + n - 1]
    BY <2>1, SubSeqProperties
  <2>3. PICK x \in Seq(Int) : /\ x = SubSeq(t, 1, a)
                              /\ Len(x) = IF 1 <= a THEN a - 1 + 1 ELSE 0
                              /\ \A n \in 1 .. a - 1 + 1 : x[n] = t[1 + n - 1]
    BY <2>2
  <2>4. \A n \in 1 .. a : n \in 1 .. a - 1 + 1 /\ 1 + n - 1 = n
    OBVIOUS
  <2>5. \A n \in 1 .. a : x[n] = t[n]
    BY <2>3, <2>4
  <2>6. Len(x) = a
    BY <2>3
  <2>7. QED BY <2>3, <2>5, <2>6
<1>3. PICK y \in Seq(Int) : y = SubSeq(t, b + 1, l) /\ Len(y) = l - b
                            /\ \A n \in 1 .. (l - b) : y[n] = t[b + n]
  <2>1. \A n \in b + 1 .. l : t[n] \in Int
    BY <1>1
  <2>2. /\ SubSeq(t, b + 1, l) \in Seq(Int)
        /\ Len(SubSeq(t, b + 1, l)) = IF b + 1 <= l THEN l - (b + 1) + 1 ELSE 0
        /\ \A n \in 1 .. l - (b + 1) + 1 : SubSeq(t, b + 1, l)[n] = t[b + 1 + n - 1]
    <3>1. PICK c \in Int : c = b + 1
      OBVIOUS
    <3>2. \A n \in c .. l : t[n] \in Int
      BY <2>1, <3>1
    <3>3. /\ SubSeq(t, c, l) \in Seq(Int)
          /\ Len(SubSeq(t, c, l)) = IF c <= l THEN l - c + 1 ELSE 0
          /\ \A n \in 1 .. l - c + 1 : SubSeq(t, c, l)[n] = t[c + n - 1]
      BY <3>2, SubSeqProperties
    <3>4. QED BY <3>1, <3>3
  <2>3. PICK y \in Seq(Int) : /\ y = SubSeq(t, b + 1, l)
                              /\ Len(y) = IF b + 1 <= l THEN l - (b + 1) + 1 ELSE 0
                              /\ \A n \in 1 .. l - (b + 1) + 1 : y[n] = t[b + 1 + n - 1]
    BY <2>2
  <2>4. \A n \in 1 .. (l - b) : n \in 1 .. l - (b + 1) + 1 /\ b + 1 + n - 1 = b + n
    BY <1>1
  <2>5. \A n \in 1 .. (l - b) : y[n] = t[b + n]
    BY <2>3, <2>4
  <2>6. Len(y) = l - b
    BY <1>1, <2>3
  <2>7. QED BY <2>3, <2>5, <2>6
<1>4. Upto(t, a) = x
  <2>1. a < Len(t)
    BY <1>1
  <2>2. QED BY <1>2, <2>1 DEF Upto
<1>5. PICK v \in Seq(Int) : /\ v = x \o <<label>> /\ Len(v) = a + 1 /\ v[a + 1] = label
                            /\ \A n \in 1 .. a : v[n] = t[n]
  <2>1. PICK z \in Seq(Int) : z = <<label>> /\ Len(z) = 1 /\ z[1] = label
    <3>1. <<label>> \in Seq(Int) /\ Len(<<label>>) = 1 /\ <<label>>[1] = label
      OBVIOUS
    <3>2. QED BY <3>1
  <2>2. PICK v \in Seq(Int) : /\ v = x \o z /\ Len(v) = Len(x) + Len(z)
                              /\ \A n \in 1 .. Len(x) + Len(z) :
                                   v[n] = IF n <= Len(x) THEN x[n] ELSE z[n - Len(x)]
    <3>1. /\ x \o z \in Seq(Int)
          /\ Len(x \o z) = Len(x) + Len(z)
          /\ \A n \in 1 .. Len(x) + Len(z) :
               (x \o z)[n] = IF n <= Len(x) THEN x[n] ELSE z[n - Len(x)]
      BY ConcatProperties
    <3>2. QED BY <3>1
  <2>3. Len(v) = a + 1 /\ \A n \in 1 .. a + 1 : v[n] = IF n <= a THEN x[n] ELSE z[n - a]
    BY <1>2, <2>1, <2>2
  <2>4. v[a + 1] = label
    <3>1. a + 1 \in 1 .. a + 1 /\ ~ (a + 1 <= a) /\ a + 1 - a = 1
      OBVIOUS
    <3>2. QED BY <2>1, <2>3, <3>1
  <2>5. \A n \in 1 .. a : n \in 1 .. a + 1 /\ n <= a
    OBVIOUS
  <2>6. \A n \in 1 .. a : v[n] = t[n]
    BY <1>2, <2>3, <2>5
  <2>7. QED BY <2>1, <2>2, <2>3, <2>4, <2>6
<1>6. u = v \o y
  BY <1>0, <1>1, <1>3, <1>4, <1>5 DEF Cut
<1>7. /\ u \in Seq(Int) /\ Len(u) = Len(v) + Len(y)
      /\ \A n \in 1 .. Len(v) + Len(y) : u[n] = IF n <= Len(v) THEN v[n] ELSE y[n - Len(v)]
  <2>1. /\ v \o y \in Seq(Int)
        /\ Len(v \o y) = Len(v) + Len(y)
        /\ \A n \in 1 .. Len(v) + Len(y) :
             (v \o y)[n] = IF n <= Len(v) THEN v[n] ELSE y[n - Len(v)]
    BY ConcatProperties
  <2>2. QED BY <1>6, <2>1
<1>8. /\ Len(u) = a + 1 + (l - b)
      /\ \A n \in 1 .. a + 1 + (l - b) : u[n] = IF n <= a + 1 THEN v[n] ELSE y[n - (a + 1)]
  BY <1>1, <1>3, <1>5, <1>7
<1>9. \A n \in 1 .. (a + 1) : u[n] = v[n]
  <2>1. \A n \in 1 .. (a + 1) : n \in 1 .. a + 1 + (l - b) /\ n <= a + 1
    BY <1>1
  <2>2. QED BY <1>8, <2>1
<1>10. ASSUME NEW n \in b + 1 .. l
       PROVE  u[n - b + a + 1] = t[n]
  <2>1. PICK c \in Int : c = n - b + a + 1
    BY <1>1
  <2>2. /\ c \in 1 .. a + 1 + (l - b) /\ ~ (c <= a + 1) /\ c - (a + 1) = n - b
        /\ n - b \in 1 .. (l - b) /\ b + (n - b) = n
    BY <1>1, <2>1
  <2>3. u[c] = y[n - b]
    BY <1>8, <2>2
  <2>4. y[n - b] = t[n]
    BY <1>3, <2>2
  <2>5. QED BY <2>1, <2>3, <2>4
<1>11. a + 1 \in 1 .. (a + 1) /\ \A n \in 1 .. a : n \in 1 .. (a + 1)
  OBVIOUS
<1>12. QED BY <1>0, <1>1, <1>5, <1>7, <1>8, <1>9, <1>10, <1>11 DEF CutOf

\* The last span that is left is cut before the part where spans were cut.
LEMMA CutBeforeUncut ==
  ASSUME SpansOK, Apart, StageOK, TextOK, stage = "redact", left > 0
  PROVE  /\ left \in DOMAIN spans /\ spans[left].to <= Uncut
         /\ Uncut <= Len(text) /\ Uncut \in Nat
         /\ \A k \in left .. Len(spans) : k \in DOMAIN spans /\ spans[left].from <= spans[k].from
<1>1. PICK N \in Nat : N = Len(spans) /\ DOMAIN spans = 1 .. N
  BY DEF SpansOK
<1>2. left \in 1 .. N
  BY <1>1 DEF StageOK
<1>3. /\ spans[left].from \in Nat /\ spans[left].to \in Nat /\ spans[left].to <= Length
      /\ spans[left].from < spans[left].to
  BY <1>1, <1>2, SpanTyped
<1>4. spans[left].to <= Uncut /\ Uncut \in Nat
  <2>1. CASE left < N
    <3>1. left + 1 \in 1 .. N /\ left < left + 1
      BY <1>1, <1>2, <2>1
    <3>2. spans[left].to <= spans[left + 1].from
      BY <1>1, <1>2, <3>1 DEF Apart
    <3>3. spans[left + 1].from \in Nat
      BY <1>1, <3>1, SpanTyped
    <3>4. QED BY <1>1, <2>1, <3>2, <3>3 DEF Uncut
  <2>2. CASE ~ (left < N)
    BY <1>1, <1>3, <2>2, LengthAssumption DEF Uncut
  <2>3. QED BY <2>1, <2>2
<1>5. Uncut <= Len(text)
  BY DEF TextOK
<1>6. ASSUME NEW k \in left .. N
      PROVE  k \in 1 .. N /\ spans[left].from <= spans[k].from
  <2>1. k \in 1 .. N /\ (k = left \/ left < k)
    BY <1>2
  <2>2. CASE k = left
    BY <1>3, <2>1, <2>2
  <2>3. CASE left < k
    <3>1. spans[left].to <= spans[k].from
      BY <1>1, <1>2, <2>1, <2>3 DEF Apart
    <3>2. spans[k].from \in Nat
      BY <1>1, <2>1, SpanTyped
    <3>3. QED BY <1>3, <2>1, <3>1, <3>2
  <2>4. QED BY <2>1, <2>2, <2>3
<1>7. QED BY <1>1, <1>2, <1>4, <1>5, <1>6

\* A cut leaves the text redacted in place from the span on.
LEMMA CutKeeps ==
  ASSUME SpansOK, Apart, StageOK, TextOK, Redact
  PROVE  TextOK'
<1>1. PICK N \in Nat : N = Len(spans) /\ DOMAIN spans = 1 .. N
  BY DEF SpansOK
<1>2. PICK l \in 1 .. N : l = left
  BY <1>1 DEF StageOK, Redact
<1>3. PICK t \in Seq(Int) : t = text
  BY DEF TextOK
<1>4. PICK L \in Nat : L = Len(t) /\ DOMAIN t = 1 .. L
  BY LenProperties
<1>5. PICK a \in Nat : a = spans[l].from
  BY <1>1, SpanTyped
<1>6. PICK b \in Nat : b = spans[l].to
  BY <1>1, SpanTyped
<1>7. PICK c \in Nat : c = Uncut /\ b <= c /\ c <= L
  BY <1>2, <1>3, <1>4, <1>6, CutBeforeUncut DEF Redact
<1>8. a < b /\ b <= L
  BY <1>1, <1>4, <1>5, <1>6, <1>7, SpanTyped
<1>9. \A k \in l .. N : k \in 1 .. N /\ a <= spans[k].from
  BY <1>1, <1>2, <1>5, CutBeforeUncut DEF Redact
<1>10. \A n \in 1 .. L : t[n] \in Int /\ (t[n] > 0 \/ -t[n] \in 1 .. N)
  BY <1>1, <1>3, <1>4, ElementOfSeq DEF TextOK
<1>11. \A n \in 1 .. b : n \in 1 .. L /\ t[n] = n
  <2>1. \A n \in 1 .. c : t[n] = n
    BY <1>3, <1>7 DEF TextOK, Redact
  <2>2. QED BY <1>7, <1>8, <2>1
<1>12. \A p \in 1..Length :
         (\E n \in 1 .. L : t[n] = p) <=> ~ \E k \in l + 1 .. N : Within(p, k)
  BY <1>1, <1>2, <1>3, <1>4 DEF TextOK, Redact
<1>13. \A k \in l + 1 .. N : \E n \in 1 .. L : t[n] = -k
  BY <1>1, <1>2, <1>3, <1>4 DEF TextOK, Redact
<1>14. \A m, n \in 1 .. L : m < n => Place(t[m]) < Place(t[n])
  BY <1>3, <1>4 DEF TextOK, Redact
<1>15. PICK u \in Seq(Int) :
         /\ u = text' /\ Len(u) = a + 1 + (L - b)
         /\ \A n \in 1 .. a : u[n] = t[n]
         /\ u[a + 1] = -l
         /\ \A n \in b + 1 .. L : u[n - b + a + 1] = t[n]
  <2>1. text' = Cut(t, a, b, -l)
    BY <1>2, <1>3, <1>5, <1>6 DEF Redact
  <2>2. PICK label \in Int : label = -l
    OBVIOUS
  <2>3. a < b /\ b <= Len(t)
    BY <1>4, <1>8
  <2>4. CutOf(Cut(t, a, b, label), t, a, b, label)
    BY <2>3, CutCells
  <2>5. QED BY <1>4, <2>1, <2>2, <2>4 DEF CutOf
<1>16. PICK M \in Nat : M = a + 1 + (L - b) /\ DOMAIN u = 1 .. M
  BY <1>8, <1>15, LenProperties
<1>17. \A n \in 1 .. a : n \in 1 .. M /\ u[n] = n
  BY <1>8, <1>11, <1>15, <1>16
<1>18. a + 1 \in 1 .. M /\ u[a + 1] = -l
  BY <1>8, <1>15, <1>16
<1>19. \A n \in b + 1 .. L : n - b + a + 1 \in 1 .. M /\ u[n - b + a + 1] = t[n]
  BY <1>8, <1>15, <1>16
<1>20. \A n \in 1 .. M :
         \/ n \in 1 .. a /\ u[n] = n
         \/ n = a + 1 /\ u[n] = -l
         \/ \E m \in b + 1 .. L : n = m - b + a + 1 /\ u[n] = t[m]
  <2>1. SUFFICES ASSUME NEW n \in 1 .. M, ~ (n \in 1 .. a), n # a + 1
                 PROVE  \E m \in b + 1 .. L : n = m - b + a + 1 /\ u[n] = t[m]
    BY <1>17, <1>18
  <2>2. PICK m \in Int : m = n + b - a - 1
    OBVIOUS
  <2>3. m \in b + 1 .. L /\ n = m - b + a + 1
    BY <1>8, <1>16, <2>1, <2>2
  <2>4. QED BY <1>19, <2>3
<1>21. \A m \in b + 1 .. L : m \in 1 .. L
  OBVIOUS
<1>22. \A n \in 1 .. M : u[n] > 0 \/ -u[n] \in 1 .. N
  <2>1. SUFFICES ASSUME NEW n \in 1 .. M PROVE u[n] > 0 \/ -u[n] \in 1 .. N
    OBVIOUS
  <2>2. CASE n \in 1 .. a /\ u[n] = n
    BY <2>2
  <2>3. CASE n = a + 1 /\ u[n] = -l
    <3>1. -(-l) = l
      OBVIOUS
    <3>2. QED BY <2>3, <3>1
  <2>4. CASE \E m \in b + 1 .. L : n = m - b + a + 1 /\ u[n] = t[m]
    BY <1>10, <1>21, <2>4
  <2>5. QED BY <1>20, <2>2, <2>3, <2>4
<1>23. ASSUME NEW p \in 1..Length, NEW n \in 1 .. M, u[n] = p,
              NEW k \in l .. N, Within(p, k)
       PROVE  FALSE
  <2>1. p \in Nat /\ p > 0
    BY LengthAssumption
  <2>2. CASE n \in 1 .. a /\ u[n] = n
    <3>1. p <= a /\ a <= spans[k].from /\ spans[k].from < p
      BY <1>9, <1>23, <2>2 DEF Within
    <3>2. spans[k].from \in Nat
      BY <1>1, <1>9, SpanTyped
    <3>3. QED BY <2>1, <3>1, <3>2
  <2>3. CASE n = a + 1 /\ u[n] = -l
    BY <1>23, <2>1, <2>3
  <2>4. CASE \E m \in b + 1 .. L : n = m - b + a + 1 /\ u[n] = t[m]
    <3>1. PICK m \in b + 1 .. L : t[m] = p
      BY <1>23, <2>4
    <3>2. ~ \E j \in l + 1 .. N : Within(p, j)
      BY <1>12, <1>21, <3>1
    <3>3. k = l
      BY <1>23, <3>2
    <3>4. a < p /\ p <= b
      BY <1>5, <1>6, <1>23, <3>3 DEF Within
    <3>5. p \in 1 .. L /\ t[p] = p /\ p < m /\ m \in 1 .. L
      BY <1>11, <1>21, <2>1, <3>4
    <3>6. Place(t[p]) < Place(t[m])
      BY <1>14, <3>5
    <3>7. Place(p) = p
      BY <2>1 DEF Place
    <3>8. QED BY <2>1, <3>1, <3>5, <3>6, <3>7
  <2>5. QED BY <1>20, <2>2, <2>3, <2>4
<1>24. ASSUME NEW p \in 1..Length, ~ \E k \in l .. N : Within(p, k)
       PROVE  \E n \in 1 .. M : u[n] = p
  <2>1. p \in Nat /\ p > 0
    BY LengthAssumption
  <2>2. \A k \in l + 1 .. N : k \in l .. N
    OBVIOUS
  <2>3. PICK n \in 1 .. L : t[n] = p
    BY <1>12, <1>24, <2>2
  <2>4. CASE n \in 1 .. a
    <3>1. n \in 1 .. b
      BY <1>8, <2>4
    <3>2. QED BY <1>11, <1>17, <2>3, <2>4, <3>1
  <2>5. CASE n \in b + 1 .. L
    BY <1>19, <2>3, <2>5
  <2>6. CASE a < n /\ n <= b
    <3>1. n \in 1 .. b
      BY <2>6
    <3>2. p = n
      BY <1>11, <2>3, <3>1
    <3>3. Within(p, l) /\ l \in l .. N
      BY <1>5, <1>6, <2>6, <3>2 DEF Within
    <3>4. QED BY <1>24, <3>3
  <2>7. QED BY <2>4, <2>5, <2>6
<1>25. ASSUME NEW k \in l .. N
       PROVE  \E n \in 1 .. M : u[n] = -k
  <2>1. CASE k = l
    BY <1>18, <2>1
  <2>2. CASE k # l
    <3>1. k \in l + 1 .. N
      BY <2>2
    <3>2. PICK n \in 1 .. L : t[n] = -k
      BY <1>13, <3>1
    <3>3. ~ (n \in 1 .. b)
      BY <1>11, <3>2
    <3>4. n \in b + 1 .. L
      BY <3>3
    <3>5. QED BY <1>19, <3>2, <3>4
  <2>3. QED BY <2>1, <2>2
<1>26. /\ \A n \in 1 .. a : Place(n) = n
       /\ Place(-l) = b
       /\ \A m \in b + 1 .. L : b < Place(t[m]) /\ Place(t[m]) \in Int
  <2>1. \A n \in 1 .. a : Place(n) = n
    BY DEF Place
  <2>2. Place(-l) = b
    <3>1. ~ (-l > 0) /\ -(-l) = l
      OBVIOUS
    <3>2. QED BY <1>6, <3>1 DEF Place
  <2>3. ASSUME NEW m \in b + 1 .. L
        PROVE  b < Place(t[m])
    <3>1. b \in 1 .. L /\ t[b] = b /\ b < m /\ m \in 1 .. L
      BY <1>8, <1>11
    <3>2. Place(t[b]) < Place(t[m])
      BY <1>14, <3>1
    <3>3. Place(b) = b
      BY <1>8 DEF Place
    <3>4. QED BY <3>1, <3>2, <3>3
  <2>4. ASSUME NEW m \in b + 1 .. L
        PROVE  Place(t[m]) \in Int
    <3>1. t[m] \in Int /\ (t[m] > 0 \/ -t[m] \in 1 .. N)
      BY <1>10, <1>21
    <3>2. CASE t[m] > 0
      BY <3>1, <3>2 DEF Place
    <3>3. CASE ~ (t[m] > 0)
      <4>1. spans[-t[m]].to \in Nat
        BY <1>1, <3>1, <3>3, SpanTyped
      <4>2. QED BY <3>3, <4>1 DEF Place
    <3>4. QED BY <3>2, <3>3
  <2>5. QED BY <2>1, <2>2, <2>3, <2>4
<1>27. ASSUME NEW m \in 1 .. M, NEW n \in 1 .. M, m < n
       PROVE  Place(u[m]) < Place(u[n])
  <2>1. CASE m \in 1 .. a /\ u[m] = m
    <3>1. Place(u[m]) = m
      BY <1>26, <2>1
    <3>2. CASE n \in 1 .. a /\ u[n] = n
      BY <1>26, <1>27, <3>1, <3>2
    <3>3. CASE n = a + 1 /\ u[n] = -l
      BY <1>8, <1>26, <2>1, <3>1, <3>3
    <3>4. CASE \E j \in b + 1 .. L : n = j - b + a + 1 /\ u[n] = t[j]
      <4>1. Place(u[n]) \in Int /\ b < Place(u[n])
        BY <1>26, <3>4
      <4>2. QED BY <1>8, <2>1, <3>1, <4>1
    <3>5. QED BY <1>20, <3>2, <3>3, <3>4
  <2>2. CASE m = a + 1 /\ u[m] = -l
    <3>1. \E j \in b + 1 .. L : n = j - b + a + 1 /\ u[n] = t[j]
      BY <1>20, <1>27, <2>2
    <3>2. QED BY <1>26, <2>2, <3>1
  <2>3. CASE \E j \in b + 1 .. L : m = j - b + a + 1 /\ u[m] = t[j]
    <3>1. PICK i \in b + 1 .. L : m = i - b + a + 1 /\ u[m] = t[i]
      BY <2>3
    <3>2. m > a + 1
      BY <3>1
    <3>3. PICK j \in b + 1 .. L : n = j - b + a + 1 /\ u[n] = t[j]
      BY <1>20, <1>27, <3>2
    <3>4. i < j
      BY <1>27, <3>1, <3>3
    <3>5. i \in 1 .. L /\ j \in 1 .. L
      BY <1>21
    <3>6. QED BY <1>14, <3>1, <3>3, <3>4, <3>5
  <2>4. QED BY <1>20, <2>1, <2>2, <2>3
<1>28. /\ stage' = stage /\ stage = "redact" /\ spans' = spans /\ left' = l - 1
       /\ text' = u /\ left' + 1 = l /\ l - 1 < N
  BY <1>2, <1>15 DEF Redact
<1>29. Uncut' = a
  BY <1>1, <1>5, <1>28 DEF Uncut
<1>30. a <= Len(u)
  BY <1>8, <1>15
<1>31. \A p \in 1..Length :
         (\E n \in DOMAIN u : u[n] = p) <=> ~ \E k \in l .. N : Within(p, k)
  BY <1>16, <1>23, <1>24
<1>32. \A p \in 1..Length :
         (\E n \in DOMAIN text' : text'[n] = p)
           <=> ~ \E k \in left' + 1 .. Len(spans') : Within(p, k)'
  BY <1>1, <1>28, <1>31 DEF Within
<1>33. \A k \in left' + 1 .. Len(spans') : \E n \in DOMAIN text' : text'[n] = -k
  BY <1>1, <1>16, <1>25, <1>28
<1>34. \A m, n \in DOMAIN u : m < n => Place(u[m]) < Place(u[n])
  BY <1>16, <1>27
<1>35. \A m, n \in DOMAIN text' : m < n => Place(text[m])' < Place(text[n])'
  BY <1>28, <1>34 DEF Place
<1>36. \A n \in DOMAIN text' : text'[n] > 0 \/ -text'[n] \in DOMAIN spans'
  BY <1>1, <1>16, <1>22, <1>28
<1>37. text' \in Seq(Int) /\ Uncut' <= Len(text') /\ \A n \in 1 .. Uncut' : text'[n] = n
  BY <1>17, <1>28, <1>29, <1>30
<1>38. QED BY <1>28, <1>32, <1>33, <1>35, <1>36, <1>37 DEF TextOK

-------------------------------------------------------------------------------
(* The sanitizer: the invariant and what it says.                          *)

LEMMA SanInitially == Init => SanInv
<1>1. SUFFICES ASSUME Init PROVE SanInv
  OBVIOUS
<1>2. hits \in Hits /\ rest = DOMAIN hits /\ spans = <<>> /\ left = 0 /\ stage = "resolve"
  BY <1>1 DEF Init
<1>3. Len(spans) = 0 /\ DOMAIN spans = {} /\ spans \in Seq(Span) /\ DOMAIN hits \ rest = {}
  BY <1>2
<1>4. SpansOK
  BY <1>2, <1>3 DEF SpansOK
<1>5. StageOK
  BY <1>2, <1>3 DEF StageOK
<1>6. NoneUnderstated
  BY <1>2, <1>3 DEF NoneUnderstated, Apart
<1>7. TextOK
  <2>1. text = [k \in 1..Length |-> k]
    BY <1>1 DEF Init
  <2>2. \A k \in 1..Length : k \in Int
    BY LengthAssumption
  <2>3. text \in [1..Length -> Int] /\ DOMAIN text = 1..Length
    BY <2>1, <2>2
  <2>4. text \in Seq(Int)
    BY <2>3, LengthAssumption
  <2>5. \A n \in DOMAIN text : text[n] > 0
    BY <2>1, LengthAssumption
  <2>6. QED BY <1>2, <2>1, <2>4, <2>5 DEF TextOK
<1>8. QED BY <1>4, <1>5, <1>6, <1>7 DEF SanInv

LEMMA ResolveKeeps == SanInv /\ Resolve => SanInv'
<1>1. SUFFICES ASSUME SanInv, Resolve PROVE SanInv'
  OBVIOUS
<1>2. /\ SpansOK /\ Apart /\ StageOK /\ TextOK
      /\ \A i \in DOMAIN hits \ rest : BeginsInSpan(hits[i])
  BY <1>1 DEF SanInv, NoneUnderstated
<1>3. stage = "resolve" /\ stage' = stage /\ hits' = hits /\ left' = left /\ text' = text
  BY <1>1 DEF Resolve
<1>4. PICK k \in rest :
        /\ First(k) /\ rest' = rest \ {k}
        /\ spans' = IF ~ Overlaps(hits[k]) THEN Append(spans, hits[k])
                    ELSE IF hits[k].sev > Last(spans).sev
                    THEN [spans EXCEPT ![Len(spans)] = Replaced(@, hits[k])]
                    ELSE spans
  BY <1>1 DEF Resolve
<1>5. /\ SpansOK' /\ Apart' /\ \A i \in DOMAIN hits \ rest' : BeginsInSpan(hits[i])'
      /\ left \in 0 .. Len(spans')
  <2>1. PICK N \in Nat : N = Len(spans) /\ left \in 0 .. N
    BY <1>2 DEF SpansOK, StageOK
  <2>2. k \in DOMAIN hits /\ hits[k] \in Span
    BY <1>2, SpanTyped DEF SpansOK
  <2>3. CASE ~ Overlaps(hits[k])
    <3>1. spans' = Append(spans, hits[k])
      BY <1>4, <2>3
    <3>2. SpansOK' /\ Apart' /\ \A i \in DOMAIN hits \ rest' : BeginsInSpan(hits[i])'
      BY <1>2, <1>3, <1>4, <2>3, <3>1, AppendKeeps
    <3>3. Len(spans') = N + 1
      BY <1>2, <2>1, <2>2, <3>1 DEF SpansOK
    <3>4. QED BY <2>1, <3>2, <3>3
  <2>4. CASE Overlaps(hits[k]) /\ hits[k].sev > Last(spans).sev
    <3>1. spans' = [spans EXCEPT ![Len(spans)] = Replaced(@, hits[k])]
      BY <1>4, <2>4
    <3>2. SpansOK' /\ Apart' /\ \A i \in DOMAIN hits \ rest' : BeginsInSpan(hits[i])'
      BY <1>2, <1>3, <1>4, <2>4, <3>1, ReplaceKeeps
    <3>3. Len(spans') = N
      BY <1>2, <2>1, <3>1, <3>2 DEF SpansOK
    <3>4. QED BY <2>1, <3>2, <3>3
  <2>5. CASE Overlaps(hits[k]) /\ ~ (hits[k].sev > Last(spans).sev)
    <3>1. spans' = spans
      BY <1>4, <2>5
    <3>2. SpansOK' /\ Apart' /\ \A i \in DOMAIN hits \ rest' : BeginsInSpan(hits[i])'
      BY <1>2, <1>3, <1>4, <2>5, <3>1, DropKeeps
    <3>3. QED BY <2>1, <3>1, <3>2
  <2>6. QED BY <2>3, <2>4, <2>5
<1>6. StageOK'
  BY <1>3, <1>5 DEF StageOK
<1>7. NoneUnderstated'
  BY <1>3, <1>5 DEF NoneUnderstated
<1>8. TextOK'
  <2>1. text = [n \in 1..Length |-> n]
    BY <1>2, <1>3 DEF TextOK
  <2>2. \A n \in DOMAIN text : text[n] > 0
    BY <2>1, LengthAssumption
  <2>3. QED BY <1>2, <1>3, <2>1, <2>2 DEF TextOK
<1>9. QED BY <1>5, <1>6, <1>7, <1>8 DEF SanInv

LEMMA ResolvedKeeps == SanInv /\ Resolved => SanInv'
<1>1. SUFFICES ASSUME SanInv, Resolved PROVE SanInv'
  OBVIOUS
<1>2. SpansOK /\ StageOK /\ NoneUnderstated /\ TextOK
  BY <1>1 DEF SanInv
<1>3. /\ stage = "resolve" /\ rest = {} /\ stage' = "redact" /\ left' = Len(spans)
      /\ hits' = hits /\ rest' = rest /\ spans' = spans /\ text' = text
  BY <1>1 DEF Resolved
<1>4. Len(spans) \in Nat
  BY <1>2 DEF SpansOK
<1>5. SpansOK'
  BY <1>2, <1>3 DEF SpansOK
<1>6. StageOK'
  BY <1>3, <1>4 DEF StageOK
<1>7. NoneUnderstated'
  BY <1>2, <1>3 DEF NoneUnderstated, Apart, BeginsInSpan
<1>8. TextOK'
  <2>1. text = [n \in 1..Length |-> n]
    BY <1>2, <1>3 DEF TextOK
  <2>2. /\ DOMAIN text = 1..Length /\ Len(text) = Length
        /\ \A n \in 1..Length : text[n] = n /\ n > 0
    BY <2>1, LengthAssumption
  <2>3. Uncut' = Length
    BY <1>3, <1>4 DEF Uncut
  <2>4. text' \in Seq(Int) /\ \A n \in DOMAIN text' : text'[n] > 0
    BY <1>2, <1>3, <2>2 DEF TextOK
  <2>5. left' + 1 .. Len(spans') = {}
    BY <1>3, <1>4
  <2>6. \A p \in 1..Length :
          (\E n \in DOMAIN text' : text'[n] = p)
            <=> ~ \E k \in left' + 1 .. Len(spans') : Within(p, k)'
    BY <1>3, <2>2, <2>5
  <2>7. \A m, n \in DOMAIN text' : m < n => Place(text[m])' < Place(text[n])'
    BY <1>3, <2>2 DEF Place
  <2>8. Uncut' <= Len(text') /\ \A n \in 1 .. Uncut' : text'[n] = n
    BY <1>3, <2>2, <2>3, LengthAssumption
  <2>9. QED BY <1>3, <2>4, <2>5, <2>6, <2>7, <2>8 DEF TextOK
<1>9. QED BY <1>5, <1>6, <1>7, <1>8 DEF SanInv

LEMMA RedactKeeps == SanInv /\ Redact => SanInv'
<1>1. SUFFICES ASSUME SanInv, Redact PROVE SanInv'
  OBVIOUS
<1>2. SpansOK /\ StageOK /\ NoneUnderstated /\ TextOK /\ Apart
  BY <1>1 DEF SanInv, NoneUnderstated
<1>3. /\ stage = "redact" /\ stage' = stage /\ left > 0 /\ left' = left - 1
      /\ hits' = hits /\ rest' = rest /\ spans' = spans /\ alert' = alert
  BY <1>1 DEF Redact
<1>4. SpansOK'
  BY <1>2, <1>3 DEF SpansOK
<1>5. StageOK'
  <2>1. Len(spans) \in Nat
    BY <1>2 DEF SpansOK
  <2>2. QED BY <1>2, <1>3, <2>1 DEF StageOK
<1>6. NoneUnderstated'
  BY <1>2, <1>3 DEF NoneUnderstated, Apart, BeginsInSpan
<1>7. TextOK'
  BY <1>1, <1>2, CutKeeps
<1>8. QED BY <1>4, <1>5, <1>6, <1>7 DEF SanInv

LEMMA AnswerKeeps == SanInv /\ Answer => SanInv'
<1>1. SUFFICES ASSUME SanInv, Answer PROVE SanInv'
  OBVIOUS
<1>2. SpansOK /\ StageOK /\ NoneUnderstated /\ TextOK
  BY <1>1 DEF SanInv
<1>3. /\ stage = "redact" /\ stage' = "answered" /\ left = 0
      /\ alert' = IF \E k \in DOMAIN spans : spans[k].sev >= 3 THEN "yes" ELSE "no"
      /\ hits' = hits /\ rest' = rest /\ spans' = spans /\ left' = left /\ text' = text
  BY <1>1 DEF Answer
<1>4. rest = {}
  BY <1>2, <1>3 DEF StageOK
<1>5. (\E k \in DOMAIN spans : spans[k].sev >= 3) <=> (\E i \in DOMAIN hits : hits[i].sev >= 3)
  <2>1. ASSUME NEW k \in DOMAIN spans, spans[k].sev >= 3
        PROVE  \E i \in DOMAIN hits : hits[i].sev >= 3
    BY <1>2, <2>1 DEF SpansOK
  <2>2. ASSUME NEW i \in DOMAIN hits, hits[i].sev >= 3
        PROVE  \E k \in DOMAIN spans : spans[k].sev >= 3
    <3>1. PICK k \in DOMAIN spans : hits[i].sev <= spans[k].sev
      BY <1>2, <1>4 DEF NoneUnderstated, BeginsInSpan
    <3>2. hits[i].sev \in Nat /\ spans[k].sev \in Nat
      BY <1>2, SpanTyped
    <3>3. QED BY <2>2, <3>1, <3>2
  <2>3. QED BY <2>1, <2>2
<1>6. SpansOK'
  BY <1>2, <1>3 DEF SpansOK
<1>7. StageOK'
  BY <1>2, <1>3 DEF StageOK
<1>8. NoneUnderstated'
  <2>1. alert' = "yes" <=> \E i \in DOMAIN hits' : hits'[i].sev >= 3
    BY <1>3, <1>5
  <2>2. Apart' /\ \A i \in DOMAIN hits' \ rest' : BeginsInSpan(hits[i])'
    BY <1>2, <1>3 DEF NoneUnderstated, Apart, BeginsInSpan
  <2>3. QED BY <2>1, <2>2 DEF NoneUnderstated
<1>9. TextOK'
  BY <1>2, <1>3 DEF TextOK, Uncut, Within, Place
<1>10. QED BY <1>6, <1>7, <1>8, <1>9 DEF SanInv

LEMMA SanUnchanged == SanInv /\ UNCHANGED vars => SanInv'
BY DEF SanInv, SpansOK, StageOK, NoneUnderstated, TextOK, Apart, BeginsInSpan,
       Uncut, Within, Place, vars

LEMMA SanInvariance == Spec => []SanInv
<1>1. SanInv /\ [Next]_vars => SanInv'
  BY ResolveKeeps, ResolvedKeeps, RedactKeeps, AnswerKeeps, SanUnchanged DEF Next
<1>2. QED BY SanInitially, <1>1, PTL DEF Spec

\* Overlapping matches never lower the severity of a threat: every match begins in
\* a span _resolve_overlaps keeps that is at least as severe (its tail may stick
\* out, see FindingsRedacted), and the endpoint raises an alert exactly when one of
\* the matches calls for it.
THEOREM NoThreatUnderstated == Spec => []NoneUnderstated
<1>1. SanInv => NoneUnderstated
  BY DEF SanInv
<1>2. QED BY SanInvariance, <1>1, PTL

\* Cutting from the last span to the first leaves the text of the endpoint's
\* answer as it was outside the spans, with every span replaced by its label.
THEOREM TextRedactedInPlace == Spec => []RedactedInPlace
<1>1. ASSUME SanInv, stage = "answered"
      PROVE  RedactedInPlace
  <2>1. SpansOK /\ StageOK /\ TextOK
    BY <1>1 DEF SanInv
  <2>2. left = 0
    BY <1>1, <2>1 DEF StageOK
  <2>3. DOMAIN spans = 1 .. Len(spans)
    BY <2>1 DEF SpansOK
  <2>4. left + 1 .. Len(spans) = DOMAIN spans
    BY <2>2, <2>3
  <2>5. QED BY <1>1, <2>1, <2>4 DEF TextOK, RedactedInPlace
<1>2. SanInv => RedactedInPlace
  BY <1>1 DEF RedactedInPlace
<1>3. QED BY SanInvariance, <1>2, PTL
===============================================================================
