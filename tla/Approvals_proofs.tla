--------------------------- MODULE Approvals_proofs ---------------------------
(***************************************************************************)
(* Proofs about Approvals, for every set of decisions and every timeout.   *)
(* One lemma per action: it preserves the inductive invariant.             *)
(***************************************************************************)
EXTENDS Approvals, TLAPS

LEMMA CreatePendingStep ==
  ASSUME IInv, NEW i \in Ids, CreatePending(i)
  PROVE  IInv'
<1> USE DEF IInv, CreatePending, Verdicts
<1>1. TypeOK'
  BY TimeAssumption DEF TypeOK
<1>2. CallOK'
  BY DEF CallOK, TypeOK
<1>3. Undecided'
  BY DEF Undecided, TypeOK
<1>4. OneVerdict'
  BY DEF OneVerdict, Undecided, TypeOK
<1>5. PendingIsGuarded'
  BY DEF PendingIsGuarded, TypeOK
<1>6. QED BY <1>1, <1>2, <1>3, <1>4, <1>5

LEMMA CancelTimerStep ==
  ASSUME IInv, NEW i \in Ids, NEW answer \in Verdicts, CancelTimer(i, answer)
  PROVE  IInv'
<1> USE DEF IInv, CancelTimer, Verdicts
<1>1. TypeOK'
  BY DEF TypeOK
<1>2. CallOK' /\ Undecided' /\ OneVerdict'
  BY DEF CallOK, Undecided, OneVerdict, TypeOK
<1>3. PendingIsGuarded'
  BY DEF PendingIsGuarded, TypeOK
<1>4. QED BY <1>1, <1>2, <1>3

\* The first resolution is the verdict.
LEMMA SettleStep ==
  ASSUME TypeOK, Undecided, OneVerdict, NEW i \in Ids, status[i] = "PENDING",
         NEW answer \in Verdicts, Settle(i, answer), UNCHANGED <<created, row, client>>
  PROVE  /\ Undecided' /\ OneVerdict'
         /\ status' \in [Ids -> {"absent", "PENDING"} \union Verdicts]
         /\ verdict' \in [Ids -> {"PENDING"} \union Verdicts]
         /\ verdict'[i] = answer
<1> USE DEF Settle, Verdicts
<1>1. /\ verdict' = [verdict EXCEPT ![i] = answer]
      /\ status' = [status EXCEPT ![i] = answer]
  BY DEF Undecided, TypeOK
<1>2. Undecided'
  BY <1>1 DEF Undecided, TypeOK
<1>3. OneVerdict'
  BY <1>1 DEF OneVerdict, Undecided, TypeOK
<1>4. QED BY <1>1, <1>2, <1>3 DEF TypeOK

LEMMA ResolveStep ==
  ASSUME IInv, Resolve
  PROVE  IInv'
<1> USE DEF IInv, Resolve
<1>1. loop.id \in Ids /\ loop.answer \in Verdicts
  BY DEF CallOK
<1>2. CASE status[loop.id] = "PENDING"
  <2>1. Settle(loop.id, loop.answer) /\ loop' = [loop EXCEPT !.pc = "persisting"]
    BY <1>2
  <2>2. /\ Undecided' /\ OneVerdict'
        /\ status' \in [Ids -> {"absent", "PENDING"} \union Verdicts]
        /\ verdict' \in [Ids -> {"PENDING"} \union Verdicts]
        /\ verdict'[loop.id] = loop.answer
    BY <1>1, <1>2, <2>1, SettleStep
  <2>3. TypeOK'
    BY <2>1, <2>2 DEF TypeOK
  <2>4. CallOK'
    BY <1>1, <2>1, <2>2 DEF CallOK, TypeOK
  <2>5. PendingIsGuarded'
    BY <1>1, <2>1 DEF PendingIsGuarded, Settle, TypeOK, Verdicts
  <2>6. QED BY <2>2, <2>3, <2>4, <2>5
<1>3. CASE status[loop.id] # "PENDING"
  <2>1. TypeOK'
    BY <1>3, NoneAssumption DEF TypeOK, NoCall, Verdicts
  <2>2. CallOK' /\ Undecided' /\ OneVerdict'
    BY <1>3 DEF CallOK, Undecided, OneVerdict, NoCall
  <2>3. PendingIsGuarded'
    BY <1>3 DEF PendingIsGuarded
  <2>4. QED BY <2>1, <2>2, <2>3
<1>4. QED BY <1>2, <1>3

LEMMA PersistStep ==
  ASSUME IInv, Persist
  PROVE  IInv'
<1> USE DEF IInv, Persist, NoCall
<1>1. loop.id \in Ids /\ loop.answer \in Verdicts /\ verdict[loop.id] = loop.answer
  BY DEF CallOK
<1>2. /\ row' \in [Ids -> {"absent", "PENDING"} \union Verdicts]
      /\ \A i \in Ids : row'[i] = row[i] \/ (i = loop.id /\ row'[i] = loop.answer)
  BY <1>1 DEF TypeOK
<1>3. TypeOK'
  BY <1>2 DEF TypeOK
<1>4. CallOK' /\ Undecided'
  BY DEF CallOK, Undecided
<1>5. OneVerdict'
  BY <1>1, <1>2 DEF OneVerdict
<1>6. PendingIsGuarded'
  BY DEF PendingIsGuarded
<1>7. QED BY <1>3, <1>4, <1>5, <1>6

LEMMA CleanupStep ==
  ASSUME IInv, CleanupResolved
  PROVE  IInv'
<1> USE DEF IInv, CleanupResolved
<1>1. /\ status' \in [Ids -> {"absent", "PENDING"} \union Verdicts]
      /\ \A i \in Ids : status'[i] = status[i] \/ status'[i] = "absent"
  BY DEF TypeOK
<1>2. TypeOK'
  BY <1>1 DEF TypeOK
<1>3. CallOK' /\ Undecided' /\ PendingIsGuarded'
  BY <1>1 DEF CallOK, Undecided, PendingIsGuarded
<1>4. OneVerdict'
  BY <1>1 DEF OneVerdict, Verdicts
<1>5. QED BY <1>2, <1>3, <1>4

LEMMA TimerStep ==
  ASSUME IInv, NEW i \in Ids, Timer(i)
  PROVE  IInv'
<1> USE DEF IInv
<1>1. CASE TimerFires(i)
  <2>1. TypeOK'
    BY <1>1 DEF TimerFires, TypeOK
  <2>2. CallOK' /\ Undecided' /\ OneVerdict'
    BY <1>1 DEF TimerFires, CallOK, Undecided, OneVerdict
  <2>3. PendingIsGuarded'
    BY <1>1 DEF TimerFires, PendingIsGuarded, TypeOK
  <2>4. QED BY <2>1, <2>2, <2>3
<1>2. CASE AutoDeny(i) /\ status[i] = "PENDING"
  <2>1. Settle(i, "DENIED")
    BY <1>2 DEF AutoDeny
  <2>2. /\ Undecided' /\ OneVerdict'
        /\ status' \in [Ids -> {"absent", "PENDING"} \union Verdicts]
        /\ verdict' \in [Ids -> {"PENDING"} \union Verdicts]
    BY <1>2, <2>1, SettleStep DEF AutoDeny, Verdicts
  <2>3. TypeOK'
    BY <1>2, <2>2 DEF AutoDeny, TypeOK
  <2>4. CallOK'
    BY <1>2, <2>1 DEF AutoDeny, CallOK, Undecided, Settle, TypeOK, Verdicts
  <2>5. PendingIsGuarded'
    BY <1>2, <2>1 DEF AutoDeny, PendingIsGuarded, Settle, TypeOK
  <2>6. QED BY <2>2, <2>3, <2>4, <2>5
<1>3. CASE AutoDeny(i) /\ status[i] # "PENDING"
  <2>1. TypeOK'
    BY <1>3 DEF AutoDeny, TypeOK
  <2>2. CallOK' /\ Undecided' /\ OneVerdict'
    BY <1>3 DEF AutoDeny, CallOK, Undecided, OneVerdict
  <2>3. PendingIsGuarded'
    BY <1>3 DEF AutoDeny, PendingIsGuarded, TypeOK
  <2>4. QED BY <2>1, <2>2, <2>3
<1>4. QED BY <1>1, <1>2, <1>3 DEF Timer

LEMMA ClientStep ==
  ASSUME IInv, NEW i \in Ids, Client(i)
  PROVE  IInv'
<1> USE DEF IInv, Client, Poll, StopWaiting
<1>1. TypeOK'
  BY DEF TypeOK, Verdicts
<1>2. CallOK' /\ Undecided' /\ PendingIsGuarded'
  BY DEF CallOK, Undecided, PendingIsGuarded
<1>3. OneVerdict'
  BY DEF OneVerdict, TypeOK, Verdicts
<1>4. QED BY <1>1, <1>2, <1>3

LEMMA RestartStep ==
  ASSUME IInv, Restart
  PROVE  IInv'
<1> USE DEF IInv, Restart, NoCall, Verdicts
<1>1. TypeOK'
  BY DEF TypeOK
<1>2. CallOK' /\ Undecided' /\ PendingIsGuarded'
  BY DEF CallOK, Undecided, PendingIsGuarded
<1>3. OneVerdict'
  BY DEF OneVerdict
<1>4. QED BY <1>1, <1>2, <1>3

LEMMA QuietStep ==
  ASSUME IInv, Tick \/ UNCHANGED vars
  PROVE  IInv'
<1> USE DEF IInv, Tick, vars
<1>1. TypeOK'
  BY TimeAssumption DEF TypeOK
<1>2. CallOK' /\ Undecided' /\ OneVerdict' /\ PendingIsGuarded'
  BY DEF CallOK, Undecided, OneVerdict, PendingIsGuarded
<1>3. QED BY <1>1, <1>2

LEMMA IInvInit == Init => IInv
<1> SUFFICES ASSUME Init PROVE IInv
  OBVIOUS
<1> USE DEF Init, NoCall, Verdicts
<1>1. TypeOK
  BY DEF TypeOK
<1>2. CallOK /\ Undecided /\ OneVerdict /\ PendingIsGuarded
  BY DEF CallOK, Undecided, OneVerdict, PendingIsGuarded
<1>3. QED BY <1>1, <1>2 DEF IInv

LEMMA IInvStep == IInv /\ [Next]_vars => IInv'
<1> SUFFICES ASSUME IInv, [Next]_vars PROVE IInv'
  OBVIOUS
<1>1. CASE \E i \in Ids : CreatePending(i) \/ Timer(i) \/ Client(i)
  BY <1>1, CreatePendingStep, TimerStep, ClientStep
<1>2. CASE \E i \in Ids, answer \in Verdicts : CancelTimer(i, answer)
  BY <1>2, CancelTimerStep
<1>3. CASE Endpoint
  BY <1>3, ResolveStep, PersistStep DEF Endpoint
<1>4. CASE CleanupResolved \/ Restart
  BY <1>4, CleanupStep, RestartStep
<1>5. CASE Tick \/ UNCHANGED vars
  BY <1>5, QuietStep
<1>6. QED BY <1>1, <1>2, <1>3, <1>4, <1>5 DEF Next

LEMMA IInvHolds == Spec => []IInv
BY IInvInit, IInvStep, PTL DEF Spec

\* Every reachable state is well typed.
THEOREM TypeCorrect == Spec => []TypeOK
<1>1. IInv => TypeOK
  BY DEF IInv
<1>2. QED BY <1>1, IInvHolds, PTL

\* The store, the table and the agent never hold two different verdicts of a
\* decision, and only a human's approval lets the agent run.
THEOREM VerdictIsOne == Spec => []OneVerdict
<1>1. IInv => OneVerdict
  BY DEF IInv
<1>2. QED BY <1>1, IInvHolds, PTL

\* A pending decision has a timer or a call that will end it.
THEOREM PendingGuarded == Spec => []PendingIsGuarded
<1>1. IInv => PendingIsGuarded
  BY DEF IInv
<1>2. QED BY <1>1, IInvHolds, PTL

-------------------------------------------------------------------------------
(* Approvals implements HumanDecision: each step is one of its steps, or    *)
(* changes neither what a client has come to nor what a decision is.       *)

LEMMA ClientKnownStep ==
  ASSUME TypeOK, ClientKnown, [Next]_vars
  PROVE  ClientKnown'
<1> USE DEF ClientKnown, TypeOK, Verdicts
<1>1. CASE \E i \in Ids : CreatePending(i)
  <2>1. PICK i \in Ids : CreatePending(i)
    BY <1>1
  <2>2. /\ created' = [created EXCEPT ![i] = now] /\ now \in Nat
        /\ client' = [client EXCEPT ![i] = "waiting"]
    BY <2>1 DEF CreatePending
  <2>3. QED BY <2>2
<1>2. CASE \E i \in Ids : Client(i)
  BY <1>2 DEF Client, Poll, StopWaiting
<1>3. CASE \E i \in Ids : Timer(i)
  BY <1>3 DEF Timer, TimerFires, AutoDeny
<1>4. CASE \E i \in Ids, answer \in Verdicts : CancelTimer(i, answer)
  BY <1>4 DEF CancelTimer
<1>5. CASE Endpoint
  BY <1>5 DEF Endpoint, Resolve, Persist
<1>6. CASE CleanupResolved \/ Restart \/ Tick \/ UNCHANGED vars
  BY <1>6 DEF CleanupResolved, Restart, Tick, vars
<1>7. QED BY <1>1, <1>2, <1>3, <1>4, <1>5, <1>6 DEF Next

\* What Settle does to a pending decision is Decide.
LEMMA SettleIsDecide ==
  ASSUME IInv, ClientKnown, NEW i \in Ids, status[i] = "PENDING",
         NEW answer \in Verdicts, Settle(i, answer), client' = client
  PROVE  Promise!Decide(i, answer)
<1>1. client[i] # "none"
  BY DEF IInv, Undecided, ClientKnown
<1>2. verdict[i] = "PENDING"
  BY DEF IInv, Undecided
<1>3. verdict' = [verdict EXCEPT ![i] = answer]
  BY <1>2 DEF Settle, IInv, TypeOK
<1>4. QED BY <1>1, <1>2, <1>3 DEF Promise!Decide

LEMMA HumanDecisionStep ==
  ASSUME IInv, ClientKnown, [Next]_vars
  PROVE  [Promise!HNext]_(Promise!hvars)
<1> DEFINE Quiet == client' = client /\ verdict' = verdict
<1>1. CASE \E i \in Ids : CreatePending(i)
  <2>1. PICK i \in Ids : CreatePending(i)
    BY <1>1
  <2>2. client[i] = "none"
    BY <2>1 DEF CreatePending, ClientKnown
  <2>3. Promise!Ask(i)
    BY <2>1, <2>2 DEF CreatePending, Promise!Ask
  <2>4. QED BY <2>3 DEF Promise!HNext
<1>2. CASE \E i \in Ids : Client(i)
  <2>1. PICK i \in Ids : Client(i)
    BY <1>2
  <2>2. \E answer \in Verdicts :
          /\ answer \in {verdict[i], "DENIED"}
          /\ client' = [client EXCEPT ![i] = answer]
    <3>1. CASE Poll(i)
      BY <3>1 DEF Poll, IInv, OneVerdict
    <3>2. CASE StopWaiting(i)
      BY <3>2 DEF StopWaiting, Verdicts
    <3>3. QED BY <2>1, <3>1, <3>2 DEF Client
  <2>3. client[i] = "waiting" /\ verdict' = verdict
    BY <2>1 DEF Client, Poll, StopWaiting
  <2>4. Promise!Hear(i)
    BY <2>2, <2>3 DEF Promise!Hear, Promise!Verdicts, Verdicts
  <2>5. QED BY <2>4 DEF Promise!HNext
<1>3. CASE \E i \in Ids : Timer(i)
  <2>1. PICK i \in Ids : Timer(i)
    BY <1>3
  <2>2. CASE AutoDeny(i) /\ status[i] = "PENDING"
    <3>1. Settle(i, "DENIED") /\ client' = client /\ "DENIED" \in Verdicts
      BY <2>2 DEF AutoDeny, Verdicts
    <3>2. Promise!Decide(i, "DENIED")
      BY <2>2, <3>1, SettleIsDecide
    <3>3. QED BY <3>2 DEF Promise!HNext, Promise!Verdicts
  <2>3. CASE ~ (AutoDeny(i) /\ status[i] = "PENDING")
    <3>1. Quiet
      BY <2>1, <2>3 DEF Timer, TimerFires, AutoDeny
    <3>2. QED BY <3>1 DEF Promise!hvars
  <2>4. QED BY <2>2, <2>3
<1>4. CASE Resolve /\ status[loop.id] = "PENDING"
  <2>1. loop.id \in Ids /\ loop.answer \in Verdicts
    BY <1>4 DEF Resolve, IInv, CallOK
  <2>2. Settle(loop.id, loop.answer) /\ client' = client
    BY <1>4 DEF Resolve
  <2>3. Promise!Decide(loop.id, loop.answer)
    BY <1>4, <2>1, <2>2, SettleIsDecide
  <2>4. QED BY <2>1, <2>3 DEF Promise!HNext, Promise!Verdicts, Verdicts
<1>5. CASE Resolve /\ status[loop.id] # "PENDING"
  <2>1. Quiet
    BY <1>5 DEF Resolve
  <2>2. QED BY <2>1 DEF Promise!hvars
<1>6. CASE Persist \/ CleanupResolved \/ Restart \/ Tick \/ UNCHANGED vars
  <2>1. Quiet
    BY <1>6 DEF Persist, CleanupResolved, Restart, Tick, vars
  <2>2. QED BY <2>1 DEF Promise!hvars
<1>7. CASE \E i \in Ids, answer \in Verdicts : CancelTimer(i, answer)
  <2>1. Quiet
    BY <1>7 DEF CancelTimer
  <2>2. QED BY <2>1 DEF Promise!hvars
<1>8. QED BY <1>1, <1>2, <1>3, <1>4, <1>5, <1>6, <1>7 DEF Next, Endpoint

\* The safety of ImplementsHumanDecision: who waits for a decision sees one that
\* is settled at most once, and hears what it was settled to or a denial.
THEOREM KeepsPromise == Spec => Promise!HInit /\ [][Promise!HNext]_(Promise!hvars)
<1>1. Init => ClientKnown /\ Promise!HInit
  BY DEF Init, ClientKnown, Promise!HInit
<1>2. IInv /\ ClientKnown /\ [Next]_vars => ClientKnown'
  BY ClientKnownStep DEF IInv
<1>3. IInv /\ ClientKnown /\ [Next]_vars => [Promise!HNext]_(Promise!hvars)
  BY HumanDecisionStep
<1>4. QED BY <1>1, <1>2, <1>3, IInvInit, IInvStep, PTL DEF Spec
===============================================================================
