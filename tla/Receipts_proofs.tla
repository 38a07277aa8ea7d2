--------------------------- MODULE Receipts_proofs ---------------------------
(***************************************************************************)
(* Proofs about Receipts, for every number of receipts, callers, requests  *)
(* and every age limit.                                                    *)
(***************************************************************************)
EXTENDS Receipts, TLAPS

-------------------------------------------------------------------------------
(* Type correctness.                                                       *)

LEMMA AbandonType ==
  ASSUME NEW c \in Callers, TypeOK, Abandon(c)
  PROVE  caller' \in [Callers -> GuardedCall] /\ drifted' \in SUBSET Callers
BY DEF TypeOK, Abandon, GuardedCall

LEMMA ProceedType ==
  ASSUME NEW c \in Callers, TypeOK, NEW p \in {"bound", "cleared"}, Proceed(c, p)
  PROVE  caller' \in [Callers -> GuardedCall] /\ drifted' \in SUBSET Callers
<1>1. [caller[c] EXCEPT !.pc = p] \in GuardedCall
  BY DEF TypeOK, GuardedCall
<1>2. QED BY <1>1 DEF TypeOK, Proceed

LEMMA AnswerType ==
  ASSUME NEW r \in Requests, TypeOK, NEW o \in Outcomes
  PROVE  Answer(r, o) \in [Requests -> Redemption]
<1>1. [req[r] EXCEPT !.phase = "answered", !.outcome = o] \in Redemption
  BY DEF TypeOK, Redemption
<1>2. QED BY <1>1 DEF TypeOK, Answer

LEMMA ScreeningType ==
  ASSUME NEW q PROVE Screening(q) \in Outcomes
BY DEF Screening, Outcomes

LEMMA SeenType ==
  ASSUME NEW n \in Nonces, TypeOK, SeenDecision(n) \in {"PERMIT", "ESCALATE"}
  PROVE  SeenDecision(n) \in Decisions
BY DEF Decisions

LEMMA TypeStep ==
  ASSUME TypeOK, RequestOK, CallOK, [Next]_vars
  PROVE  TypeOK'
<1> USE NatAssumption, NoneAssumption
<1>1. ASSUME NEW n \in Nonces, NEW o \in Ops \union {None}, NEW d \in Decisions, Issue(n, o, d)
      PROVE  TypeOK'
  <2>1. [decision |-> d, op |-> o, at |-> now] \in Receipt
    BY DEF Receipt, TypeOK
  <2>2. QED BY <1>1, <2>1 DEF Issue, TypeOK
<1>2. ASSUME NEW n \in Nonces, NEW v \in {"APPROVED", "DENIED"}, HumanAnswers(n, v)
      PROVE  TypeOK'
  BY <1>2 DEF HumanAnswers, TypeOK
<1>3. ASSUME NEW c \in Callers, NEW n \in Nonces, NEW o \in Ops, Obtain(c, n, o)
      PROVE  TypeOK'
  <2>1. [pc |-> "holding", nonce |-> n, op |-> o, decision |-> SeenDecision(n),
         cur |-> None] \in GuardedCall
    BY <1>3, SeenType DEF GuardedCall, Obtain
  <2>2. QED BY <1>3, <2>1 DEF Obtain, TypeOK
<1>4. ASSUME NEW c \in Callers, CheckBinding(c)
      PROVE  TypeOK'
  <2>1. caller' \in [Callers -> GuardedCall] /\ drifted' \in SUBSET Callers
    BY <1>4, AbandonType, ProceedType DEF CheckBinding
  <2>2. QED BY <1>4, <2>1 DEF CheckBinding, TypeOK
<1>5. ASSUME NEW c \in Callers, NEW o \in Ops, ArgumentsChange(c, o)
      PROVE  TypeOK'
  <2>1. [caller[c] EXCEPT !.op = o] \in GuardedCall
    BY DEF TypeOK, GuardedCall
  <2>2. QED BY <1>5, <2>1 DEF ArgumentsChange, TypeOK
<1>6. ASSUME NEW c \in Callers, NEW r \in Requests, Present(c, r)
      PROVE  TypeOK'
  <2>1. [caller[c] EXCEPT !.pc = "redeeming", !.cur = r] \in GuardedCall
    BY DEF TypeOK, GuardedCall
  <2>2. [phase |-> "posted", nonce |-> caller[c].nonce,
         decision |-> caller[c].decision, since |-> 0, outcome |-> "NONE"]
        \in Redemption
    BY DEF TypeOK, GuardedCall, Redemption
  <2>3. caller' \in [Callers -> GuardedCall]
    BY <1>6, <2>1 DEF Present, TypeOK
  <2>4. QED BY <1>6, <2>2, <2>3 DEF Present, TypeOK
<1>7. ASSUME NEW c \in Callers, Deliver(c)
      PROVE  TypeOK'
  <2>1. caller' \in [Callers -> GuardedCall] /\ drifted' \in SUBSET Callers
    BY <1>7, AbandonType, ProceedType DEF Deliver
  <2>2. req' \in [Requests -> Redemption]
    <3>1. caller[c].cur \in Requests =>
            [req[caller[c].cur] EXCEPT !.phase = "closed"] \in Redemption
      BY DEF TypeOK, Redemption
    <3>2. QED BY <1>7, <3>1 DEF Deliver, TypeOK
  <2>3. QED BY <1>7, <2>1, <2>2 DEF Deliver, TypeOK
<1>8. ASSUME NEW c \in Callers, GiveUp(c) \/ Execute(c)
      PROVE  TypeOK'
  <2>1. caller' \in [Callers -> GuardedCall] /\ drifted' \in SUBSET Callers
    BY <1>8, AbandonType DEF GiveUp, Execute
  <2>2. executions' \in [Nonces -> Nat]
    BY <1>8 DEF GiveUp, Execute, TypeOK
  <2>3. QED BY <1>8, <2>1, <2>2 DEF GiveUp, Execute, TypeOK
<1>9. ASSUME NEW r \in Requests, Verify(r)
      PROVE  TypeOK'
  <2>1. [req[r] EXCEPT !.phase = "verified", !.since = now] \in Redemption
    BY DEF TypeOK, Redemption
  <2>2. req' \in [Requests -> Redemption]
    BY <1>9, <2>1, ScreeningType, AnswerType DEF Verify, TypeOK
  <2>3. QED BY <1>9, <2>2 DEF Verify, TypeOK
<1>10. ASSUME NEW r \in Requests, InsertRow(r) \/ LockTimeout(r)
       PROVE  TypeOK'
  <2>1. req' \in [Requests -> Redemption]
    BY <1>10, AnswerType DEF InsertRow, LockTimeout, Outcomes
  <2>2. rows' \in SUBSET Nonces
    <3>1. req[r].phase = "verified" => req[r].nonce \in Nonces
      BY DEF RequestOK
    <3>2. QED BY <1>10, <3>1 DEF InsertRow, LockTimeout, TypeOK
  <2>3. QED BY <1>10, <2>1, <2>2 DEF InsertRow, LockTimeout, TypeOK
<1>11. CASE Crash
  <2>1. \A r \in Requests : [req[r] EXCEPT !.phase = "closed"] \in Redemption
    BY DEF TypeOK, Redemption
  <2>2. QED BY <1>11, <2>1 DEF Crash, TypeOK
<1>12. CASE CleanupExpired
  BY <1>12 DEF CleanupExpired, TypeOK
<1>13. CASE Tick
  BY <1>13 DEF Tick, TypeOK
<1>14. CASE UNCHANGED vars
  BY <1>14 DEF vars, TypeOK
<1>15. QED
  BY <1>1, <1>2, <1>3, <1>4, <1>5, <1>6, <1>7, <1>8, <1>9, <1>10, <1>11,
     <1>12, <1>13, <1>14 DEF Next, Client, Server

-------------------------------------------------------------------------------
(* The inductive invariant.                                                *)

\* What the conjuncts about the store say depends on these values alone.
StoreOK == RefusalBurnsNothing /\ SpentRowsRemembered /\ AtMostOneSpend

LEMMA StoreFrame ==
  ASSUME StoreOK, UNCHANGED <<now, rows, receipt>>,
         \A r \in Requests : \A n \in Nonces : Won(r, n)' <=> Won(r, n),
         rows \in SUBSET Nonces
  PROVE  StoreOK'
BY DEF StoreOK, RefusalBurnsNothing, SpentRowsRemembered, AtMostOneSpend

\* The SDK's steps: what is said of the calls, one lemma per kind of step.
LEMMA AbandonCalls ==
  ASSUME IInv, NEW c \in Callers, Abandon(c), UNCHANGED <<receipt, req>>
  PROVE  CallOK' /\ RequestsNotShared'
<1>1. \A b \in Callers : b # c => caller'[b] = caller[b] /\ (b \in drifted' <=> b \in drifted)
  BY DEF Abandon, IInv, TypeOK
<1>2. caller'[c].pc = "idle"
  BY DEF Abandon, IInv, TypeOK
<1>3. CallOK'
  <2>1. CallerOK(c)'
    BY <1>2 DEF CallerOK
  <2>2. ASSUME NEW b \in Callers, b # c PROVE CallerOK(b)'
    BY <1>1, <2>2 DEF IInv, CallOK, CallerOK, Issued
  <2>3. QED BY <2>1, <2>2 DEF CallOK
<1>4. RequestsNotShared'
  BY <1>1, <1>2 DEF IInv, RequestsNotShared
<1>5. QED BY <1>3, <1>4

LEMMA ObtainStep ==
  ASSUME IInv, NEW c \in Callers, NEW n \in Nonces, NEW o \in Ops, Obtain(c, n, o)
  PROVE  RequestOK' /\ CallOK' /\ RequestsNotShared' /\ StoreOK' /\ ExecutedWasSpent'
<1>1. \A b \in Callers : b # c => caller'[b] = caller[b]
  BY DEF Obtain, IInv, TypeOK
<1>2. caller'[c].pc = "holding" /\ caller'[c].nonce = n /\ Issued(n)
  <2>1. caller'[c].pc = "holding" /\ caller'[c].nonce = n
    BY DEF Obtain, IInv, TypeOK
  <2>2. receipt[n].decision = "NONE" => SeenDecision(n) = "NONE"
    BY DEF SeenDecision
  <2>3. QED BY <2>1, <2>2 DEF Obtain, Issued
<1>3. CallOK'
  BY <1>1, <1>2 DEF IInv, CallOK, CallerOK, Issued, Obtain
<1>4. RequestsNotShared'
  BY <1>1, <1>2 DEF IInv, RequestsNotShared
<1>5. ExecutedWasSpent'
  BY <1>1, <1>2 DEF IInv, ExecutedWasSpent, Won, Obtain
<1>6. RequestOK'
  BY DEF IInv, RequestOK, Obtain, Issued
<1>7. StoreOK'
  BY StoreFrame DEF IInv, StoreOK, TypeOK, Won, Obtain
<1>8. QED BY <1>3, <1>4, <1>5, <1>6, <1>7

LEMMA CheckBindingStep ==
  ASSUME IInv, NEW c \in Callers, CheckBinding(c)
  PROVE  RequestOK' /\ CallOK' /\ RequestsNotShared' /\ StoreOK' /\ ExecutedWasSpent'
<1>1. RequestOK' /\ StoreOK'
  <2>1. RequestOK'
    BY DEF IInv, RequestOK, CheckBinding, Issued
  <2>2. StoreOK'
    BY StoreFrame DEF IInv, StoreOK, TypeOK, Won, CheckBinding
  <2>3. QED BY <2>1, <2>2
<1>2. CASE Abandon(c)
  <2>1. CallOK' /\ RequestsNotShared'
    BY <1>2, AbandonCalls DEF CheckBinding
  <2>2. \A b \in Callers : caller'[b].pc \in {"redeeming", "cleared"} => caller'[b] = caller[b]
    BY <1>2 DEF Abandon, IInv, TypeOK
  <2>3. ExecutedWasSpent'
    BY <2>2 DEF IInv, ExecutedWasSpent, Won, CheckBinding
  <2>4. QED BY <1>1, <2>1, <2>3
<1>3. CASE Proceed(c, "bound") /\ receipt[caller[c].nonce].op = caller[c].op
  <2>1. \A b \in Callers : b # c => caller'[b] = caller[b]
    BY <1>3 DEF Proceed, IInv, TypeOK
  <2>2. /\ caller'[c].pc = "bound"
        /\ caller'[c].nonce = caller[c].nonce
        /\ caller'[c].op = caller[c].op
    BY <1>3 DEF Proceed, IInv, TypeOK, GuardedCall
  <2>3. caller[c].pc # "idle"
    BY DEF CheckBinding
  <2>4. CallOK'
    BY <1>3, <2>1, <2>2, <2>3 DEF IInv, CallOK, CallerOK, Issued, CheckBinding, Proceed
  <2>5. RequestsNotShared'
    BY <2>1, <2>2 DEF IInv, RequestsNotShared
  <2>6. ExecutedWasSpent'
    BY <2>1, <2>2 DEF IInv, ExecutedWasSpent, Won, CheckBinding
  <2>7. QED BY <1>1, <2>4, <2>5, <2>6
<1>4. QED BY <1>2, <1>3 DEF CheckBinding

LEMMA ArgumentsChangeStep ==
  ASSUME IInv, NEW c \in Callers, NEW o \in Ops, ArgumentsChange(c, o)
  PROVE  RequestOK' /\ CallOK' /\ RequestsNotShared' /\ StoreOK' /\ ExecutedWasSpent'
<1>1. \A b \in Callers : /\ caller'[b].pc = caller[b].pc
                         /\ caller'[b].nonce = caller[b].nonce
                         /\ caller'[b].cur = caller[b].cur
                         /\ b # c => caller'[b].op = caller[b].op
  BY DEF ArgumentsChange, IInv, TypeOK, GuardedCall
<1>2. CallOK'
  BY <1>1 DEF IInv, CallOK, CallerOK, Issued, ArgumentsChange
<1>3. RequestsNotShared'
  BY <1>1 DEF IInv, RequestsNotShared
<1>4. ExecutedWasSpent'
  BY <1>1 DEF IInv, ExecutedWasSpent, Won, ArgumentsChange
<1>5. RequestOK'
  BY DEF IInv, RequestOK, ArgumentsChange, Issued
<1>6. StoreOK'
  BY StoreFrame DEF IInv, StoreOK, TypeOK, Won, ArgumentsChange
<1>7. QED BY <1>2, <1>3, <1>4, <1>5, <1>6

LEMMA PresentStep ==
  ASSUME IInv, NEW c \in Callers, NEW r \in Requests, Present(c, r)
  PROVE  RequestOK' /\ CallOK' /\ RequestsNotShared' /\ StoreOK' /\ ExecutedWasSpent'
<1>1. \A b \in Callers : b # c => caller'[b] = caller[b]
  BY DEF Present, IInv, TypeOK
<1>2. /\ caller'[c].pc = "redeeming" /\ caller'[c].cur = r
      /\ caller'[c].nonce = caller[c].nonce /\ caller'[c].op = caller[c].op
  BY DEF Present, IInv, TypeOK, GuardedCall
<1>3. \A q \in Requests : q # r => req'[q] = req[q]
  BY DEF Present, IInv, TypeOK
<1>4. /\ req'[r].phase = "posted" /\ req'[r].outcome = "NONE"
      /\ req'[r].nonce = caller[c].nonce /\ req[r].outcome = "NONE"
  BY DEF Present, IInv, TypeOK, RequestOK
<1>5. \A b \in Callers : caller[b].pc \in {"redeeming", "cleared"} => caller[b].cur # r
  BY DEF Present, IInv, CallOK, CallerOK
<1>6. caller[c].nonce \in Nonces /\ Issued(caller[c].nonce)
  BY DEF Present, IInv, CallOK, CallerOK
<1>7. \A q \in Requests : \A n \in Nonces : Won(q, n)' <=> Won(q, n)
  BY <1>3, <1>4 DEF Won
<1>8. RequestOK'
  BY <1>3, <1>4, <1>6 DEF IInv, RequestOK, Issued, Present
<1>9. CallOK'
  <2>1. ASSUME NEW b \in Callers, b # c PROVE CallerOK(b)'
    <3>1. caller'[b] = caller[b] /\ CallerOK(b)
      BY <1>1, <2>1 DEF IInv, CallOK
    <3>2. caller[b].pc \in {"redeeming", "cleared"} =>
            caller[b].cur \in Requests /\ req'[caller[b].cur] = req[caller[b].cur]
      BY <1>3, <1>5, <3>1 DEF CallerOK
    <3>3. QED BY <3>1, <3>2 DEF CallerOK, Issued, Present
  <2>2. CallerOK(c)'
    BY <1>2, <1>4, <1>6 DEF IInv, CallOK, CallerOK, Issued, Present
  <2>3. QED BY <2>1, <2>2 DEF CallOK
<1>10. RequestsNotShared'
  BY <1>1, <1>2, <1>5 DEF IInv, RequestsNotShared
<1>11. ExecutedWasSpent'
  <2> SUFFICES ASSUME NEW n \in Nonces, executions'[n] # 0
               PROVE  /\ \E q \in Requests : Won(q, n)'
                      /\ \A b \in Callers : caller'[b].pc \in {"redeeming", "cleared"} =>
                           ~ Won(caller[b].cur, n)'
    BY DEF ExecutedWasSpent, Won
  <2>1. /\ \E q \in Requests : Won(q, n)
        /\ \A b \in Callers : caller[b].pc \in {"redeeming", "cleared"} =>
             ~ Won(caller[b].cur, n)
    BY DEF Present, IInv, ExecutedWasSpent
  <2>2. ASSUME NEW b \in Callers, caller'[b].pc \in {"redeeming", "cleared"}
        PROVE  ~ Won(caller[b].cur, n)'
    <3>1. CASE b = c
      BY <1>2, <1>4, <3>1 DEF Won
    <3>2. CASE b # c
      <4>1. caller[b].cur \in Requests
        BY <1>1, <2>2, <3>2 DEF IInv, CallOK, CallerOK
      <4>2. QED BY <1>1, <1>3, <1>5, <2>1, <2>2, <3>2, <4>1 DEF Won
    <3>3. QED BY <3>1, <3>2
  <2>3. QED BY <1>7, <2>1, <2>2
<1>12. StoreOK'
  BY <1>7, StoreFrame DEF IInv, StoreOK, TypeOK, Present
<1>13. QED BY <1>8, <1>9, <1>10, <1>11, <1>12

LEMMA DeliverStep ==
  ASSUME IInv, NEW c \in Callers, Deliver(c)
  PROVE  RequestOK' /\ CallOK' /\ RequestsNotShared' /\ StoreOK' /\ ExecutedWasSpent'
<1> DEFINE r == caller[c].cur
<1>1. r \in Requests /\ req[r].phase = "answered" /\ req[r].nonce = caller[c].nonce
  BY DEF Deliver, IInv, CallOK, CallerOK
<1>2. /\ \A q \in Requests : q # r => req'[q] = req[q]
      /\ req'[r].phase = "closed" /\ req'[r].outcome = req[r].outcome
      /\ req'[r].nonce = req[r].nonce
  BY <1>1 DEF Deliver, IInv, TypeOK, Redemption
<1> HIDE DEF r
<1>3. \A q \in Requests : \A n \in Nonces : Won(q, n)' <=> Won(q, n)
  BY <1>2 DEF Won
<1>4. RequestOK'
  BY <1>1, <1>2 DEF IInv, RequestOK, Issued, Deliver
<1>5. StoreOK'
  BY <1>3, StoreFrame DEF IInv, StoreOK, TypeOK, Deliver
<1>6. ASSUME NEW b \in Callers, b # c PROVE caller'[b] = caller[b] /\ (b \in drifted' <=> b \in drifted)
  BY <1>6 DEF Deliver, Abandon, Proceed, IInv, TypeOK
<1>7. /\ caller'[c].pc \in {"idle", "cleared"}
      /\ caller'[c].pc = "cleared" =>
           /\ caller'[c].cur = r /\ caller'[c].nonce = caller[c].nonce
           /\ caller'[c].op = caller[c].op /\ req[r].outcome = "OK"
           /\ drifted' = drifted
  BY DEF Deliver, Abandon, Proceed, IInv, TypeOK, GuardedCall, r
<1>8. CallOK'
  <2>1. CallerOK(c)'
    <3>1. CASE caller'[c].pc = "idle"
      BY <3>1 DEF CallerOK
    <3>2. CASE caller'[c].pc = "cleared"
      <4>1. CallerOK(c) /\ caller[c].pc = "redeeming"
        BY DEF IInv, CallOK, Deliver
      <4>2. QED BY <1>1, <1>2, <1>7, <3>2, <4>1 DEF CallerOK, Issued, Deliver
    <3>3. QED BY <1>7, <3>1, <3>2
  <2>2. ASSUME NEW b \in Callers, b # c PROVE CallerOK(b)'
    <3>1. caller'[b] = caller[b] /\ (b \in drifted' <=> b \in drifted) /\ CallerOK(b)
      BY <1>6, <2>2 DEF IInv, CallOK
    <3>2. ASSUME caller[b].pc \in {"redeeming", "cleared"}
          PROVE  req'[caller[b].cur] = req[caller[b].cur]
      <4>1. caller[b].cur # r
        BY <2>2, <3>2 DEF IInv, RequestsNotShared, Deliver, r
      <4>2. QED BY <1>2, <3>1, <3>2, <4>1 DEF CallerOK
    <3>3. QED BY <3>1, <3>2 DEF CallerOK, Issued, Deliver
  <2>3. QED BY <2>1, <2>2 DEF CallOK
<1>9. /\ caller[c].pc = "redeeming"
      /\ \A b \in Callers : caller'[b].pc \in {"redeeming", "cleared"} =>
           caller[b].pc \in {"redeeming", "cleared"} /\ caller'[b].cur = caller[b].cur
  BY <1>6, <1>7 DEF Deliver, r
<1>10. RequestsNotShared'
  BY <1>9 DEF IInv, RequestsNotShared
<1>11. ExecutedWasSpent'
  <2>1. \A b \in Callers : caller[b].pc \in {"redeeming", "cleared"} => caller[b].cur \in Requests
    BY DEF IInv, CallOK, CallerOK
  <2>2. \A b \in Callers : caller'[b].pc \in {"redeeming", "cleared"} => caller'[b].cur \in Requests
    BY <1>9, <2>1
  <2>3. QED BY <1>2, <1>3, <1>9, <2>1, <2>2 DEF IInv, ExecutedWasSpent, Deliver, Won
<1>12. QED BY <1>4, <1>5, <1>8, <1>10, <1>11

LEMMA GiveUpStep ==
  ASSUME IInv, NEW c \in Callers, GiveUp(c)
  PROVE  RequestOK' /\ CallOK' /\ RequestsNotShared' /\ StoreOK' /\ ExecutedWasSpent'
<1>1. CallOK' /\ RequestsNotShared'
  BY AbandonCalls DEF GiveUp
<1>2. \A b \in Callers : caller'[b].pc \in {"redeeming", "cleared"} => caller'[b] = caller[b]
  BY DEF GiveUp, Abandon, IInv, TypeOK
<1>3. ExecutedWasSpent'
  BY <1>2 DEF IInv, ExecutedWasSpent, Won, GiveUp
<1>4. RequestOK'
  BY DEF IInv, RequestOK, GiveUp, Issued
<1>5. StoreOK'
  BY StoreFrame DEF IInv, StoreOK, TypeOK, Won, GiveUp
<1>6. QED BY <1>1, <1>3, <1>4, <1>5

LEMMA ExecuteStep ==
  ASSUME IInv, NEW c \in Callers, Execute(c)
  PROVE  RequestOK' /\ CallOK' /\ RequestsNotShared' /\ StoreOK' /\ ExecutedWasSpent'
<1>1. CallOK' /\ RequestsNotShared'
  BY AbandonCalls DEF Execute
<1>2. \A b \in Callers : caller'[b].pc \in {"redeeming", "cleared"} => b # c /\ caller'[b] = caller[b]
  BY DEF Execute, Abandon, IInv, TypeOK
<1>3. ExecutedWasSpent'
  <2>1. CallerOK(c) /\ caller[c].pc = "cleared"
    BY DEF Execute, IInv, CallOK
  <2>2. Won(caller[c].cur, caller[c].nonce) /\ caller[c].cur \in Requests /\ caller[c].nonce \in Nonces
    BY <2>1 DEF CallerOK, Won
  <2>3. ASSUME NEW b \in Callers, caller'[b].pc \in {"redeeming", "cleared"}
        PROVE  ~ Won(caller[b].cur, caller[c].nonce)
    <3>1. b # c /\ caller[b].pc \in {"redeeming", "cleared"}
      BY <1>2, <2>3
    <3>2. caller[b].cur \in Requests /\ caller[b].cur # caller[c].cur
      BY <2>1, <3>1 DEF IInv, CallOK, CallerOK, RequestsNotShared
    <3>3. QED BY <2>2, <3>2 DEF IInv, AtMostOneSpend
  <2>4. \A n \in Nonces : n # caller[c].nonce => executions'[n] = executions[n]
    BY DEF Execute, IInv, TypeOK
  <2>5. QED BY <1>2, <2>2, <2>3, <2>4 DEF IInv, ExecutedWasSpent, Execute, Won
<1>4. RequestOK'
  BY DEF IInv, RequestOK, Execute, Issued
<1>5. StoreOK'
  BY StoreFrame DEF IInv, StoreOK, TypeOK, Won, Execute
<1>6. QED BY <1>1, <1>3, <1>4, <1>5

\* The server's steps.
LEMMA IssueStep ==
  ASSUME IInv, NEW n \in Nonces, NEW o \in Ops \union {None}, NEW d \in Decisions, Issue(n, o, d)
  PROVE  RequestOK' /\ CallOK' /\ RequestsNotShared' /\ StoreOK' /\ ExecutedWasSpent'
<1>1. \A m \in Nonces : Issued(m) => receipt'[m] = receipt[m] /\ Issued(m)'
  BY DEF Issue, IInv, TypeOK, Issued
<1>2. RequestOK'
  BY <1>1 DEF IInv, RequestOK, Issue, TypeOK, Redemption
<1>3. CallOK'
  <2>1. ASSUME NEW c \in Callers PROVE CallerOK(c)'
    <3>1. CallerOK(c)
      BY DEF IInv, CallOK
    <3>2. QED BY <1>1, <3>1 DEF CallerOK, Issue
  <2>2. QED BY <2>1 DEF CallOK
<1>4. RequestsNotShared'
  BY DEF IInv, RequestsNotShared, Issue
<1>5. \A r \in Requests : \A m \in Nonces : /\ Won(r, m)' <=> Won(r, m)
                                            /\ Won(r, m) => receipt'[m] = receipt[m]
  BY <1>1 DEF Won, Issue, IInv, RequestOK
<1>6. StoreOK'
  BY <1>5 DEF IInv, StoreOK, TypeOK, RefusalBurnsNothing, SpentRowsRemembered,
              AtMostOneSpend, Issue
<1>7. ExecutedWasSpent'
  BY DEF IInv, ExecutedWasSpent, Won, Issue
<1>8. QED BY <1>2, <1>3, <1>4, <1>6, <1>7

\* A request that is answered without success.
LEMMA RefusedStep ==
  ASSUME IInv, NEW r \in Requests, req[r].phase \in {"posted", "verified"},
         req[r].outcome # "OK",
         \A q \in Requests : q # r => req'[q] = req[q],
         req'[r].nonce = req[r].nonce, req'[r].outcome # "OK", req'[r].phase # "free",
         UNCHANGED <<now, rows, receipt, caller, drifted, executions>>
  PROVE  CallOK' /\ RequestsNotShared' /\ StoreOK' /\ ExecutedWasSpent'
<1>1. \A q \in Requests : \A n \in Nonces : Won(q, n)' <=> Won(q, n)
  BY DEF Won
<1>2. StoreOK'
  BY <1>1, StoreFrame DEF IInv, StoreOK, TypeOK
<1>3. RequestsNotShared'
  BY DEF IInv, RequestsNotShared
<1>4. CallOK'
  <2>1. ASSUME NEW c \in Callers PROVE CallerOK(c)'
    <3>1. CallerOK(c)
      BY DEF IInv, CallOK
    <3>2. QED BY <3>1 DEF CallerOK, Issued
  <2>2. QED BY <2>1 DEF CallOK
<1>5. ExecutedWasSpent'
  BY <1>1 DEF IInv, CallOK, CallerOK, ExecutedWasSpent, Won
<1>6. QED BY <1>2, <1>3, <1>4, <1>5

LEMMA VerifyStep ==
  ASSUME IInv, NEW r \in Requests, Verify(r)
  PROVE  RequestOK' /\ CallOK' /\ RequestsNotShared' /\ StoreOK' /\ ExecutedWasSpent'
<1> USE NatAssumption
<1>1. /\ req[r].phase = "posted" /\ req[r].outcome = "NONE"
      /\ req[r].nonce \in Nonces /\ Issued(req[r].nonce)
  BY DEF Verify, IInv, RequestOK
<1>2. \A q \in Requests : q # r => req'[q] = req[q]
  BY DEF Verify, Answer, IInv, TypeOK
<1>3. CASE Screening(req[r]) = "OK"
  <2>1. /\ req'[r].phase = "verified" /\ req'[r].since = now
        /\ req'[r].nonce = req[r].nonce /\ req'[r].outcome = "NONE"
    BY <1>1, <1>3 DEF Verify, IInv, TypeOK, Redemption
  <2>2. /\ receipt[req[r].nonce].decision = "PERMIT"
        /\ now - receipt[req[r].nonce].at <= MaxAge
    BY <1>1, <1>3 DEF Screening, IInv, TypeOK, Receipt
  <2>3. now <= receipt[req[r].nonce].at + MaxAge
    BY <1>1, <2>2 DEF IInv, TypeOK, Receipt
  <2>4. RequestOK'
    BY <1>1, <1>2, <2>1, <2>2, <2>3 DEF IInv, RequestOK, Issued, Verify
  <2>5. QED BY <1>1, <1>2, <2>1, <2>4, RefusedStep DEF Verify
<1>4. CASE Screening(req[r]) # "OK"
  <2>1. /\ req'[r].phase = "answered" /\ req'[r].outcome = Screening(req[r])
        /\ req'[r].nonce = req[r].nonce
    BY <1>1, <1>4 DEF Verify, Answer, IInv, TypeOK, Redemption
  <2>2. RequestOK'
    BY <1>1, <1>2, <1>4, <2>1 DEF IInv, RequestOK, Issued, Verify
  <2>3. QED BY <1>1, <1>2, <1>4, <2>1, <2>2, RefusedStep DEF Verify
<1>5. QED BY <1>3, <1>4

LEMMA LockTimeoutStep ==
  ASSUME IInv, NEW r \in Requests, LockTimeout(r)
  PROVE  RequestOK' /\ CallOK' /\ RequestsNotShared' /\ StoreOK' /\ ExecutedWasSpent'
<1>1. req[r].phase = "verified" /\ req[r].outcome = "NONE"
  BY DEF LockTimeout, IInv, RequestOK
<1>2. \A q \in Requests : q # r => req'[q] = req[q]
  BY DEF LockTimeout, Answer, IInv, TypeOK
<1>3. /\ req'[r].phase = "answered" /\ req'[r].outcome = "LOCKED"
      /\ req'[r].nonce = req[r].nonce
  BY DEF LockTimeout, Answer, IInv, TypeOK, Redemption
<1>4. RequestOK'
  BY <1>1, <1>2, <1>3 DEF IInv, RequestOK, Issued, LockTimeout
<1>5. QED BY <1>1, <1>2, <1>3, <1>4, RefusedStep DEF LockTimeout

LEMMA InsertRowStep ==
  ASSUME RowsOutliveReceipts, IInv, NEW r \in Requests, InsertRow(r)
  PROVE  RequestOK' /\ CallOK' /\ RequestsNotShared' /\ StoreOK' /\ ExecutedWasSpent'
<1> USE NatAssumption
<1> DEFINE m == req[r].nonce
<1>1. /\ req[r].phase = "verified" /\ req[r].outcome = "NONE"
      /\ m \in Nonces /\ Issued(m)
      /\ receipt[m].decision = "PERMIT"
      /\ req[r].since <= receipt[m].at + MaxAge
      /\ now <= req[r].since + MaxHold
  BY DEF InsertRow, IInv, RequestOK
<1>2. \A q \in Requests : q # r => req'[q] = req[q]
  BY DEF InsertRow, Answer, IInv, TypeOK
<1>3. CASE m \in rows
  <2>1. /\ req'[r].phase = "answered" /\ req'[r].outcome = "RECEIPT_ALREADY_SPENT"
        /\ req'[r].nonce = m /\ rows' = rows
    BY <1>3 DEF InsertRow, Answer, IInv, TypeOK, Redemption
  <2>2. RequestOK'
    BY <1>1, <1>2, <2>1 DEF IInv, RequestOK, Issued, InsertRow
  <2>3. QED BY <1>1, <1>2, <2>1, <2>2, RefusedStep DEF InsertRow
<1>4. CASE m \notin rows
  <2>1. /\ req'[r].phase = "answered" /\ req'[r].outcome = "OK"
        /\ req'[r].nonce = m /\ rows' = rows \union {m}
    BY <1>4 DEF InsertRow, Answer, IInv, TypeOK, Redemption
  <2>2. \A q \in Requests : ~ Won(q, m)
    <3>1. SUFFICES ASSUME NEW q \in Requests, Won(q, m) PROVE FALSE
      OBVIOUS
    <3>2. receipt[m].at < now - Horizon
      BY <1>1, <1>4, <3>1 DEF IInv, SpentRowsRemembered
    <3>3. now \in Int /\ receipt[m].at \in Int /\ req[r].since \in Int
      BY <1>1 DEF IInv, TypeOK, Receipt, Redemption
    <3>4. QED BY <1>1, <3>2, <3>3 DEF RowsOutliveReceipts
  <2>3. \A q \in Requests : \A n \in Nonces :
          Won(q, n)' <=> Won(q, n) \/ (q = r /\ n = m)
    BY <1>1, <1>2, <2>1 DEF Won
  <2>4. RequestOK'
    BY <1>1, <1>2, <2>1 DEF IInv, RequestOK, Issued, InsertRow
  <2>5. StoreOK'
    <3>1. RefusalBurnsNothing'
      BY <1>1, <2>1, <2>3 DEF IInv, TypeOK, RefusalBurnsNothing, InsertRow
    <3>2. SpentRowsRemembered'
      BY <2>1, <2>3 DEF IInv, SpentRowsRemembered, InsertRow
    <3>3. AtMostOneSpend'
      BY <2>2, <2>3 DEF IInv, AtMostOneSpend
    <3>4. QED BY <3>1, <3>2, <3>3 DEF StoreOK
  <2>6. RequestsNotShared'
    BY DEF IInv, RequestsNotShared, InsertRow
  <2>7. CallOK'
    <3>1. ASSUME NEW c \in Callers PROVE CallerOK(c)'
      <4>1. CallerOK(c)
        BY DEF IInv, CallOK
      <4>2. QED BY <1>1, <1>2, <2>1, <4>1 DEF CallerOK, Issued, InsertRow
    <3>2. QED BY <3>1 DEF CallOK
  <2>8. ExecutedWasSpent'
    <3>1. \A n \in Nonces : executions[n] # 0 => n # m
      BY <2>2 DEF IInv, ExecutedWasSpent
    <3>2. \A c \in Callers : caller[c].pc \in {"redeeming", "cleared"} => caller[c].cur \in Requests
      BY DEF IInv, CallOK, CallerOK
    <3>3. QED BY <2>3, <3>1, <3>2 DEF IInv, ExecutedWasSpent, InsertRow, Won
  <2>9. QED BY <2>4, <2>5, <2>6, <2>7, <2>8
<1>5. QED BY <1>3, <1>4

LEMMA CrashStep ==
  ASSUME IInv, Crash
  PROVE  RequestOK' /\ CallOK' /\ RequestsNotShared' /\ StoreOK' /\ ExecutedWasSpent'
<1>1. \A q \in Requests :
        /\ req'[q].nonce = req[q].nonce /\ req'[q].outcome = req[q].outcome
        /\ req'[q].phase = req[q].phase \/ (req'[q].phase = "closed" /\ req[q].phase # "free")
        /\ req'[q].since = req[q].since
  BY DEF Crash, IInv, TypeOK, Redemption
<1>2. \A q \in Requests : \A n \in Nonces : Won(q, n)' <=> Won(q, n)
  BY <1>1 DEF Won
<1>3. RequestOK'
  BY <1>1 DEF IInv, RequestOK, Issued, Crash
<1>4. StoreOK'
  BY <1>2, StoreFrame DEF IInv, StoreOK, TypeOK, Crash
<1>5. RequestsNotShared'
  BY DEF IInv, RequestsNotShared, Crash
<1>6. CallOK'
  <2>1. ASSUME NEW c \in Callers PROVE CallerOK(c)'
    <3>1. CallerOK(c)
      BY DEF IInv, CallOK
    <3>2. QED BY <1>1, <3>1 DEF CallerOK, Issued, Crash
  <2>2. QED BY <2>1 DEF CallOK
<1>7. ExecutedWasSpent'
  <2>1. \A c \in Callers : caller[c].pc \in {"redeeming", "cleared"} => caller[c].cur \in Requests
    BY DEF IInv, CallOK, CallerOK
  <2>2. QED BY <1>2, <2>1 DEF IInv, ExecutedWasSpent, Crash, Won
<1>8. QED BY <1>3, <1>4, <1>5, <1>6, <1>7

LEMMA CleanupStep ==
  ASSUME IInv, CleanupExpired
  PROVE  RequestOK' /\ CallOK' /\ RequestsNotShared' /\ StoreOK' /\ ExecutedWasSpent'
<1> USE NatAssumption
<1>1. RequestOK' /\ RequestsNotShared' /\ ExecutedWasSpent'
  BY DEF CleanupExpired, IInv, RequestOK, Issued, RequestsNotShared, ExecutedWasSpent, Won
<1>2. CallOK'
  <2>1. ASSUME NEW c \in Callers PROVE CallerOK(c)'
    <3>1. CallerOK(c)
      BY DEF IInv, CallOK
    <3>2. QED BY <3>1 DEF CallerOK, Issued, CleanupExpired
  <2>2. QED BY <2>1 DEF CallOK
<1>3. \A n \in rows : n \in rows' \/ receipt[n].at < now - Horizon
  BY DEF CleanupExpired, IInv, TypeOK, Receipt
<1>4. SpentRowsRemembered'
  BY <1>3 DEF IInv, SpentRowsRemembered, CleanupExpired, Won
<1>5. RefusalBurnsNothing' /\ AtMostOneSpend'
  BY DEF IInv, RefusalBurnsNothing, AtMostOneSpend, CleanupExpired, Won
<1>6. QED BY <1>1, <1>2, <1>4, <1>5 DEF StoreOK

LEMMA TickStep ==
  ASSUME IInv, Tick
  PROVE  RequestOK' /\ CallOK' /\ RequestsNotShared' /\ StoreOK' /\ ExecutedWasSpent'
<1> USE NatAssumption
<1>1. RequestOK' /\ RequestsNotShared' /\ ExecutedWasSpent'
  BY DEF Tick, IInv, RequestOK, Issued, RequestsNotShared, ExecutedWasSpent, Won
<1>2. CallOK'
  <2>1. ASSUME NEW c \in Callers PROVE CallerOK(c)'
    <3>1. CallerOK(c)
      BY DEF IInv, CallOK
    <3>2. QED BY <3>1 DEF CallerOK, Issued, Tick
  <2>2. QED BY <2>1 DEF CallOK
<1>3. SpentRowsRemembered'
  <2>1. \A n \in Nonces : receipt[n].at \in Int
    BY DEF IInv, TypeOK, Receipt
  <2>2. QED BY <2>1 DEF IInv, TypeOK, SpentRowsRemembered, Tick, Won
<1>4. RefusalBurnsNothing' /\ AtMostOneSpend'
  BY DEF IInv, RefusalBurnsNothing, AtMostOneSpend, Tick, Won
<1>5. QED BY <1>1, <1>2, <1>3, <1>4 DEF StoreOK

LEMMA FrameStep ==
  ASSUME IInv, UNCHANGED <<now, receipt, rows, req, caller, drifted, executions>>
  PROVE  RequestOK' /\ CallOK' /\ RequestsNotShared' /\ StoreOK' /\ ExecutedWasSpent'
<1>1. RequestOK' /\ RequestsNotShared' /\ ExecutedWasSpent'
  BY DEF IInv, RequestOK, Issued, RequestsNotShared, ExecutedWasSpent, Won
<1>2. CallOK'
  BY DEF IInv, CallOK, CallerOK, Issued
<1>3. StoreOK'
  BY StoreFrame DEF IInv, StoreOK, TypeOK, Won
<1>4. QED BY <1>1, <1>2, <1>3

\* Every step preserves the inductive invariant.
LEMMA IInvStep ==
  ASSUME RowsOutliveReceipts, IInv, [Next]_vars
  PROVE  IInv'
<1>1. TypeOK'
  BY TypeStep DEF IInv
<1>2. RequestOK' /\ CallOK' /\ RequestsNotShared' /\ StoreOK' /\ ExecutedWasSpent'
  <2>1. ASSUME NEW c \in Callers, Client(c)
        PROVE  RequestOK' /\ CallOK' /\ RequestsNotShared' /\ StoreOK' /\ ExecutedWasSpent'
    BY <2>1, ObtainStep, CheckBindingStep, ArgumentsChangeStep, PresentStep,
       DeliverStep, GiveUpStep, ExecuteStep DEF Client
  <2>2. ASSUME NEW r \in Requests, Server(r)
        PROVE  RequestOK' /\ CallOK' /\ RequestsNotShared' /\ StoreOK' /\ ExecutedWasSpent'
    BY <2>2, VerifyStep, InsertRowStep, LockTimeoutStep DEF Server
  <2>3. ASSUME NEW n \in Nonces, NEW v \in {"APPROVED", "DENIED"}, HumanAnswers(n, v)
        PROVE  RequestOK' /\ CallOK' /\ RequestsNotShared' /\ StoreOK' /\ ExecutedWasSpent'
    BY <2>3, FrameStep DEF HumanAnswers
  <2>4. CASE UNCHANGED vars
    BY <2>4, FrameStep DEF vars
  <2>5. QED
    BY <2>1, <2>2, <2>3, <2>4, IssueStep, CrashStep, CleanupStep, TickStep DEF Next
<1>3. QED BY <1>1, <1>2 DEF IInv, StoreOK

LEMMA IInvInit == Init => IInv
<1> SUFFICES ASSUME Init PROVE IInv
  OBVIOUS
<1>1. TypeOK
  BY NatAssumption DEF Init, TypeOK, Decisions, Outcomes, Receipt, Redemption, GuardedCall
<1>2. RequestOK /\ RequestsNotShared /\ RefusalBurnsNothing /\ SpentRowsRemembered
      /\ AtMostOneSpend /\ ExecutedWasSpent
  BY DEF Init, RequestOK, RequestsNotShared, RefusalBurnsNothing,
         SpentRowsRemembered, AtMostOneSpend, ExecutedWasSpent, Won
<1>3. CallOK
  BY DEF Init, CallOK, CallerOK
<1>4. QED BY <1>1, <1>2, <1>3 DEF IInv

LEMMA IInvHolds == RowsOutliveReceipts => (Spec => []IInv)
<1> SUFFICES ASSUME RowsOutliveReceipts PROVE Spec => []IInv
  OBVIOUS
<1>1. IInv /\ [Next]_vars => IInv'
  BY IInvStep
<1>2. QED BY <1>1, IInvInit, PTL DEF Spec

-------------------------------------------------------------------------------
(* The results.                                                            *)

\* If rows outlive receipts by the longest wait for the lock, no two
\* redemptions of one receipt succeed (core/receipts/receipts.py: redeem,
\* cleanup_expired), for any number of callers, retries and crashes.
THEOREM SpendIsUnique == RowsOutliveReceipts => (Spec => []AtMostOneSpend)
<1> SUFFICES ASSUME RowsOutliveReceipts PROVE Spec => []AtMostOneSpend
  OBVIOUS
<1>1. IInv => AtMostOneSpend
  BY DEF IInv
<1>2. QED BY <1>1, IInvHolds, PTL

LEMMA CoverFromIInv ==
  ASSUME IInv PROVE DispatchIsCovered
<1> SUFFICES ASSUME NEW c \in Callers, caller[c].pc = "cleared"
             PROVE  LET n == caller[c].nonce IN
                    /\ receipt[n].decision = "PERMIT"
                    /\ receipt[n].op = caller[c].op \/ c \in drifted
                    /\ Won(caller[c].cur, n)
                    /\ executions[n] = 0
                    /\ \A b \in Callers :
                         caller[b].pc = "cleared" /\ caller[b].nonce = n => b = c
  BY DEF DispatchIsCovered
<1> DEFINE n == caller[c].nonce
<1>1. \A b \in Callers : caller[b].pc = "cleared" =>
        caller[b].cur \in Requests /\ caller[b].nonce \in Nonces
        /\ Won(caller[b].cur, caller[b].nonce)
  BY DEF IInv, CallOK, CallerOK, Won
<1>2. receipt[n].op = caller[c].op \/ c \in drifted
  BY DEF IInv, CallOK, CallerOK
<1>3. receipt[n].decision = "PERMIT"
  BY <1>1 DEF IInv, RequestOK, Won
<1>4. executions[n] = 0
  BY <1>1 DEF IInv, ExecutedWasSpent
<1>5. \A b \in Callers : caller[b].pc = "cleared" /\ caller[b].nonce = n => b = c
  BY <1>1 DEF IInv, AtMostOneSpend, RequestsNotShared
<1>6. QED BY <1>1, <1>2, <1>3, <1>4, <1>5

\* A guarded call that is about to run is covered by its own, unused, spent
\* PERMIT (agentgate/__init__.py: guard, check_binding, redeem).
THEOREM DispatchCovered == RowsOutliveReceipts => (Spec => []DispatchIsCovered)
<1> SUFFICES ASSUME RowsOutliveReceipts PROVE Spec => []DispatchIsCovered
  OBVIOUS
<1>1. IInv => DispatchIsCovered
  BY CoverFromIInv
<1>2. QED BY <1>1, IInvHolds, PTL

\* A refused presentation consumes nothing (receipts.py: "an unsigned guess can
\* never consume a nonce it did not hold").
THEOREM NothingBurned == RowsOutliveReceipts => (Spec => []RefusalBurnsNothing)
<1> SUFFICES ASSUME RowsOutliveReceipts PROVE Spec => []RefusalBurnsNothing
  OBVIOUS
<1>1. IInv => RefusalBurnsNothing
  BY DEF IInv
<1>2. QED BY <1>1, IInvHolds, PTL

\* Receipts is well typed.
THEOREM TypeCorrect == RowsOutliveReceipts => (Spec => []TypeOK)
<1> SUFFICES ASSUME RowsOutliveReceipts PROVE Spec => []TypeOK
  OBVIOUS
<1>1. IInv => TypeOK
  BY DEF IInv
<1>2. QED BY <1>1, IInvHolds, PTL

-------------------------------------------------------------------------------
(* Refinement of SpendOnce.                                                *)

LEMMA StatusFrame ==
  ASSUME \A n \in Nonces : receipt'[n].decision = receipt[n].decision,
         \A r \in Requests : \A n \in Nonces : Won(r, n)' <=> Won(r, n)
  PROVE  StatusMap' = StatusMap
<1>1. \A n \in Nonces : StatusOf(n)' = StatusOf(n)
  BY DEF StatusOf, Issued
<1>2. QED BY <1>1 DEF StatusMap

LEMMA InitRefines == Init => SO!SOInit
<1> SUFFICES ASSUME Init PROVE SO!SOInit
  OBVIOUS
<1>1. \A n \in Nonces : StatusOf(n) = "unissued"
  BY DEF Init, StatusOf, Issued
<1>2. StatusMap = [n \in Nonces |-> "unissued"]
  BY <1>1 DEF StatusMap
<1>3. QED BY <1>2 DEF SO!SOInit, Init

LEMMA IssueRefines ==
  ASSUME IInv, NEW n \in Nonces, NEW o \in Ops \union {None}, NEW d \in Decisions, Issue(n, o, d)
  PROVE  SO!Grant(n)
<1>1. \A m \in Nonces : m # n => receipt'[m] = receipt[m]
  BY DEF Issue, IInv, TypeOK
<1>2. receipt'[n].decision = d /\ d # "NONE" /\ ~ Issued(n)
  BY DEF Issue, IInv, TypeOK, Decisions
<1>3. \A r \in Requests : \A m \in Nonces : Won(r, m)' <=> Won(r, m)
  BY DEF Won, Issue
<1>4. \A r \in Requests : ~ Won(r, n)
  BY <1>2 DEF IInv, RequestOK, Won
<1>5. \A m \in Nonces : m # n => StatusOf(m)' = StatusOf(m)
  BY <1>1, <1>3 DEF StatusOf, Issued
<1>6. StatusOf(n) = "unissued" /\ StatusOf(n)' \in {"inert", "spendable"}
  BY <1>2, <1>3, <1>4 DEF StatusOf, Issued
<1>7. StatusMap' = [StatusMap EXCEPT ![n] = StatusOf(n)']
  BY <1>5 DEF StatusMap
<1>8. StatusMap[n] = "unissued" /\ executions' = executions
  BY <1>6 DEF StatusMap, Issue
<1>9. QED BY <1>6, <1>7, <1>8 DEF SO!Grant

LEMMA InsertRowRefines ==
  ASSUME RowsOutliveReceipts, IInv, NEW r \in Requests, InsertRow(r)
  PROVE  (\E n \in Nonces : SO!Spend(n)) \/ UNCHANGED <<StatusMap, executions>>
<1> USE NatAssumption
<1>0. PICK m \in Nonces : m = req[r].nonce
  BY DEF InsertRow, IInv, RequestOK
<1>1. /\ req[r].nonce = m
      /\ req[r].phase = "verified" /\ req[r].outcome = "NONE"
      /\ m \in Nonces /\ Issued(m)
      /\ receipt[m].decision = "PERMIT"
      /\ req[r].since <= receipt[m].at + MaxAge
      /\ now <= req[r].since + MaxHold
  BY <1>0 DEF InsertRow, IInv, RequestOK
<1>2. \A q \in Requests : q # r => req'[q] = req[q]
  BY DEF InsertRow, Answer, IInv, TypeOK
<1>3. executions' = executions /\ receipt' = receipt
  BY DEF InsertRow
<1>4. CASE m \in rows
  <2>0. req' = Answer(r, "RECEIPT_ALREADY_SPENT") /\ req \in [Requests -> Redemption]
    BY <1>0, <1>4 DEF InsertRow, IInv, TypeOK
  <2>1. req'[r].outcome = "RECEIPT_ALREADY_SPENT"
    BY <2>0 DEF Answer, Redemption
  <2>2. \A q \in Requests : \A n \in Nonces : Won(q, n)' <=> Won(q, n)
    BY <1>1, <1>2, <2>1 DEF Won
  <2>3. QED BY <1>3, <2>2, StatusFrame
<1>5. CASE m \notin rows
  <2>0. req' = Answer(r, "OK") /\ req \in [Requests -> Redemption]
    BY <1>0, <1>5 DEF InsertRow, IInv, TypeOK
  <2>1. req'[r].outcome = "OK" /\ req'[r].nonce = m
    BY <1>1, <2>0 DEF Answer, Redemption
  <2>2. \A q \in Requests : ~ Won(q, m)
    <3>1. SUFFICES ASSUME NEW q \in Requests, Won(q, m) PROVE FALSE
      OBVIOUS
    <3>2. receipt[m].at < now - Horizon
      BY <1>1, <1>5, <3>1 DEF IInv, SpentRowsRemembered
    <3>3. now \in Int /\ receipt[m].at \in Int /\ req[r].since \in Int
      BY <1>1 DEF IInv, TypeOK, Receipt, Redemption
    <3>4. QED BY <1>1, <3>2, <3>3 DEF RowsOutliveReceipts
  <2>3. \A q \in Requests : \A n \in Nonces :
          Won(q, n)' <=> Won(q, n) \/ (q = r /\ n = m)
    BY <1>1, <1>2, <2>1 DEF Won
  <2>4. \A n \in Nonces : n # m => StatusOf(n)' = StatusOf(n)
    BY <1>3, <2>3 DEF StatusOf, Issued
  <2>5. StatusOf(m) = "spendable" /\ StatusOf(m)' = "spent"
    BY <1>1, <1>3, <2>2, <2>3 DEF StatusOf, Issued
  <2>6. StatusMap' = [StatusMap EXCEPT ![m] = "spent"] /\ StatusMap[m] = "spendable"
    BY <1>1, <2>4, <2>5 DEF StatusMap
  <2>7. SO!Spend(m)
    BY <1>3, <2>6 DEF SO!Spend
  <2>8. QED BY <1>1, <2>7
<1>6. QED BY <1>4, <1>5

LEMMA ExecuteRefines ==
  ASSUME IInv, NEW c \in Callers, Execute(c)
  PROVE  \E n \in Nonces : SO!Execute(n)
<1> DEFINE n == caller[c].nonce
<1>1. n \in Nonces /\ Issued(n) /\ caller[c].cur \in Requests /\ Won(caller[c].cur, n)
  BY DEF IInv, CallOK, CallerOK, Won, Execute
<1>2. executions[n] = 0 /\ receipt[n].decision = "PERMIT"
  BY CoverFromIInv DEF DispatchIsCovered, Execute
<1>3. StatusMap[n] = "spent"
  BY <1>1, <1>2 DEF StatusMap, StatusOf
<1>4. StatusMap' = StatusMap
  BY StatusFrame DEF Execute, Won
<1>5. executions' = [executions EXCEPT ![n] = 1]
  BY <1>1, <1>2 DEF Execute, IInv, TypeOK
<1>6. SO!Execute(n)
  BY <1>2, <1>3, <1>4, <1>5 DEF SO!Execute
<1>7. QED BY <1>1, <1>6

\* A step that answers a request without success, or moves only its phase.
LEMMA QuietRefines ==
  ASSUME UNCHANGED <<receipt, executions>>,
         \A r \in Requests : \A n \in Nonces : Won(r, n)' <=> Won(r, n)
  PROVE  UNCHANGED <<StatusMap, executions>>
BY StatusFrame

LEMMA QuietSteps ==
  ASSUME IInv, NEW r \in Requests,
         Verify(r) \/ LockTimeout(r)
  PROVE  \A q \in Requests : \A n \in Nonces : Won(q, n)' <=> Won(q, n)
<1>1. req[r].phase \in {"posted", "verified"} /\ req[r].outcome = "NONE"
  BY DEF Verify, LockTimeout, IInv, RequestOK
<1>2. \A q \in Requests : q # r => req'[q] = req[q]
  BY DEF Verify, LockTimeout, Answer, IInv, TypeOK
<1>3. CASE Verify(r) /\ Screening(req[r]) = "OK"
  <2>1. req'[r].outcome = req[r].outcome
    BY <1>3 DEF Verify, IInv, TypeOK, Redemption
  <2>2. QED BY <1>1, <1>2, <2>1 DEF Won
<1>4. CASE Verify(r) /\ Screening(req[r]) # "OK"
  <2>1. req'[r].outcome = Screening(req[r])
    BY <1>4 DEF Verify, Answer, IInv, TypeOK, Redemption
  <2>2. QED BY <1>1, <1>2, <1>4, <2>1 DEF Won
<1>5. CASE LockTimeout(r)
  <2>1. req'[r].outcome = "LOCKED"
    BY <1>5 DEF LockTimeout, Answer, IInv, TypeOK, Redemption
  <2>2. QED BY <1>1, <1>2, <2>1 DEF Won
<1>6. QED BY <1>3, <1>4, <1>5

LEMMA ClientQuiet ==
  ASSUME IInv, NEW c \in Callers, Client(c), ~ Execute(c)
  PROVE  UNCHANGED <<StatusMap, executions>>
<1>1. UNCHANGED <<receipt, executions>>
  BY DEF Client, Obtain, CheckBinding, ArgumentsChange, Present, Deliver, GiveUp
<1>2. \A q \in Requests : \A n \in Nonces : Won(q, n)' <=> Won(q, n)
  <2>1. CASE UNCHANGED req
    BY <2>1 DEF Won
  <2>2. ASSUME NEW r \in Requests, Present(c, r)
        PROVE  \A q \in Requests : \A n \in Nonces : Won(q, n)' <=> Won(q, n)
    <3>1. req[r].outcome = "NONE" /\ req'[r].outcome = "NONE"
      BY <2>2 DEF Present, IInv, TypeOK, RequestOK
    <3>2. \A q \in Requests : q # r => req'[q] = req[q]
      BY <2>2 DEF Present, IInv, TypeOK
    <3>3. QED BY <3>1, <3>2 DEF Won
  <2>3. CASE Deliver(c)
    <3>1. caller[c].cur \in Requests
      BY <2>3 DEF Deliver, IInv, CallOK, CallerOK
    <3>2. \A q \in Requests : req'[q].outcome = req[q].outcome /\ req'[q].nonce = req[q].nonce
      BY <2>3, <3>1 DEF Deliver, IInv, TypeOK, Redemption
    <3>3. QED BY <3>2 DEF Won
  <2>4. QED
    BY <2>1, <2>2, <2>3 DEF Client, Obtain, CheckBinding, ArgumentsChange, GiveUp
<1>3. QED BY <1>1, <1>2, QuietRefines

LEMMA StepRefines ==
  ASSUME RowsOutliveReceipts, IInv, [Next]_vars
  PROVE  [SO!SONext]_<<StatusMap, executions>>
<1>1. ASSUME NEW n \in Nonces, NEW o \in Ops \union {None}, NEW d \in Decisions, Issue(n, o, d)
      PROVE  SO!SONext
  BY <1>1, IssueRefines DEF SO!SONext
<1>2. ASSUME NEW c \in Callers, Client(c)
      PROVE  SO!SONext \/ UNCHANGED <<StatusMap, executions>>
  BY <1>2, ClientQuiet, ExecuteRefines DEF SO!SONext
<1>3. ASSUME NEW r \in Requests, Server(r)
      PROVE  SO!SONext \/ UNCHANGED <<StatusMap, executions>>
  <2>1. CASE InsertRow(r)
    BY <2>1, InsertRowRefines DEF SO!SONext
  <2>2. CASE Verify(r) \/ LockTimeout(r)
    BY <2>2, QuietSteps, QuietRefines DEF Verify, LockTimeout
  <2>3. QED BY <1>3, <2>1, <2>2 DEF Server
<1>4. CASE Crash
  <2>1. \A q \in Requests : req'[q].outcome = req[q].outcome /\ req'[q].nonce = req[q].nonce
    BY <1>4 DEF Crash, IInv, TypeOK, Redemption
  <2>2. QED BY <1>4, <2>1, QuietRefines DEF Crash, Won
<1>5. ASSUME \/ \E n \in Nonces, v \in {"APPROVED", "DENIED"} : HumanAnswers(n, v)
             \/ CleanupExpired \/ Tick \/ UNCHANGED vars
      PROVE  UNCHANGED <<StatusMap, executions>>
  <2>1. UNCHANGED <<receipt, req, executions>>
    BY <1>5 DEF HumanAnswers, CleanupExpired, Tick, vars
  <2>2. QED BY <2>1, QuietRefines DEF Won
<1>6. QED BY <1>1, <1>2, <1>3, <1>4, <1>5 DEF Next

\* The two-step redemption of receipts.py, with its guard in the SDK, implements
\* "spend an authorization exactly once".
THEOREM Refinement == RowsOutliveReceipts => (Spec => ImplementsSpendOnce)
<1> SUFFICES ASSUME RowsOutliveReceipts PROVE Spec => ImplementsSpendOnce
  OBVIOUS
<1>1. IInv /\ [Next]_vars => [SO!SONext]_<<StatusMap, executions>>
  BY StepRefines
<1>2. QED
  BY <1>1, InitRefines, IInvHolds, PTL
     DEF Spec, ImplementsSpendOnce, SO!SOSpec, SO!svars
===============================================================================
