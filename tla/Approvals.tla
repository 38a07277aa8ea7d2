------------------------------- MODULE Approvals -------------------------------
(***************************************************************************)
(* Human approval of escalated decisions: core/platform/approvals.py, the  *)
(* table pending_approvals of core/platform/audit.py, the endpoints of     *)
(* server/main.py and the SDK that waits for the answer.                   *)
(*                                                                         *)
(* Endpoints run one at a time on the event loop.  The timer of each       *)
(* pending decision is a thread of its own: it can fire while an endpoint  *)
(* is between two steps, and cancelling it then has no effect.             *)
(***************************************************************************)
EXTENDS Integers

CONSTANTS
  Ids,            \* request_ids of escalated decisions
  None,           \* no decision
  Timeout,        \* TIMEOUT_SECONDS
  PendingTimeout, \* pending_timeout of the SDK
  MaxAge,         \* cleanup_resolved(max_age_seconds)
  MaxNow          \* bound on the clock

ASSUME TimeAssumption ==
  /\ Timeout \in Nat /\ PendingTimeout \in Nat /\ MaxAge \in Nat /\ MaxNow \in Nat
ASSUME NoneAssumption == None \notin Ids

VARIABLES
  now,      \* time.time()
  created,  \* created_at, -1: not escalated yet
  status,   \* approvals._store; "absent": no entry
  timer,    \* approvals._timers and their threads
  row,      \* pending_approvals.status; "absent": no row
  loop,     \* the endpoint call the event loop is in
  client,   \* what _wait_for_human has come to
  verdict   \* the first resolution of each decision

vars == <<now, created, status, timer, row, loop, client, verdict>>

Verdicts == {"APPROVED", "DENIED"}
NoCall == [pc |-> "idle", id |-> None, answer |-> "PENDING"]

Init ==
  /\ now = 0
  /\ created = [i \in Ids |-> -1]
  /\ status = [i \in Ids |-> "absent"]
  /\ timer = [i \in Ids |-> "none"]
  /\ row = [i \in Ids |-> "absent"]
  /\ loop = NoCall
  /\ client = [i \in Ids |-> "none"]
  /\ verdict = [i \in Ids |-> "PENDING"]

-------------------------------------------------------------------------------
(* Endpoints.                                                              *)

\* Mutant: the timer is never started.
CreatePendingUntimed(i) ==
  /\ loop.pc = "idle"
  /\ created[i] = -1
  /\ now + PendingTimeout <= MaxNow
  /\ created' = [created EXCEPT ![i] = now]
  /\ status' = [status EXCEPT ![i] = "PENDING"]
  /\ \E r \in {"PENDING", "absent"} : row' = [row EXCEPT ![i] = r]
  /\ client' = [client EXCEPT ![i] = "waiting"]
  /\ UNCHANGED <<now, timer, loop, verdict>>

\* create_pending, in one step of the event loop; a write that fails is ignored.
\* /authorize returns PENDING and the SDK begins to wait.
CreatePending(i) ==
  /\ loop.pc = "idle"
  /\ created[i] = -1
  /\ now + PendingTimeout <= MaxNow
  /\ created' = [created EXCEPT ![i] = now]
  /\ status' = [status EXCEPT ![i] = "PENDING"]
  /\ \E r \in {"PENDING", "absent"} : row' = [row EXCEPT ![i] = r]
  /\ timer' = [timer EXCEPT ![i] = "armed"]
  /\ client' = [client EXCEPT ![i] = "waiting"]
  /\ UNCHANGED <<now, loop, verdict>>

\* approve and deny: the timer is popped and cancelled first, without the lock.
CancelTimer(i, answer) ==
  /\ loop.pc = "idle"
  /\ created[i] # -1
  /\ loop' = [pc |-> "resolving", id |-> i, answer |-> answer]
  /\ timer' = [timer EXCEPT ![i] = IF @ = "armed" THEN "cancelled" ELSE @]
  /\ UNCHANGED <<now, created, status, row, client, verdict>>

Settle(i, answer) ==
  /\ status' = [status EXCEPT ![i] = answer]
  /\ verdict' = [verdict EXCEPT ![i] = IF @ = "PENDING" THEN answer ELSE @]

\* Under the lock: the answer of a decision that is still pending counts, any
\* other is a 404.
Resolve ==
  /\ loop.pc = "resolving"
  /\ IF status[loop.id] = "PENDING"
     THEN /\ Settle(loop.id, loop.answer)
          /\ loop' = [loop EXCEPT !.pc = "persisting"]
     ELSE /\ loop' = NoCall
          /\ UNCHANGED <<status, verdict>>
  /\ UNCHANGED <<now, created, timer, row, client>>

\* _persist_resolve: UPDATE, or an exception that is ignored.
Persist ==
  /\ loop.pc = "persisting"
  /\ \/ row' = [row EXCEPT ![loop.id] = IF @ = "absent" THEN @ ELSE loop.answer]
     \/ UNCHANGED row
  /\ loop' = NoCall
  /\ UNCHANGED <<now, created, status, timer, client, verdict>>

\* cleanup_resolved
CleanupResolved ==
  /\ loop.pc = "idle"
  /\ \E i \in Ids : status[i] \in Verdicts /\ created[i] < now - MaxAge
  /\ status' = [i \in Ids |->
       IF status[i] \in Verdicts /\ created[i] < now - MaxAge THEN "absent" ELSE status[i]]
  /\ UNCHANGED <<now, created, timer, row, loop, client, verdict>>

-------------------------------------------------------------------------------
(* The timer threads.                                                      *)

TimerFires(i) ==
  /\ timer[i] = "armed"
  /\ now >= created[i] + Timeout
  /\ timer' = [timer EXCEPT ![i] = "fired"]
  /\ UNCHANGED <<now, created, status, row, loop, client, verdict>>

\* Mutant: a decision that was resolved in the meantime is denied all the same.
AutoDenyUnchecked(i) ==
  /\ timer[i] = "fired"
  /\ timer' = [timer EXCEPT ![i] = "done"]
  /\ IF status[i] # "absent" THEN Settle(i, "DENIED")
     ELSE UNCHANGED <<status, verdict>>
  /\ UNCHANGED <<now, created, row, loop, client>>

\* _auto_deny, under the lock.  The row is not updated.
AutoDeny(i) ==
  /\ timer[i] = "fired"
  /\ timer' = [timer EXCEPT ![i] = "done"]
  /\ IF status[i] = "PENDING" THEN Settle(i, "DENIED")
     ELSE UNCHANGED <<status, verdict>>
  /\ UNCHANGED <<now, created, row, loop, client>>

-------------------------------------------------------------------------------
(* The SDK.                                                                *)

InTime(i) == now < created[i] + PendingTimeout

\* Mutant: whatever the server says ends the wait.
PollUnchecked(i) ==
  /\ client[i] = "waiting" /\ InTime(i)
  /\ loop.pc = "idle"
  /\ client' = [client EXCEPT ![i] = status[i]]
  /\ UNCHANGED <<now, created, status, timer, row, loop, verdict>>

\* GET /decisions/{id}: PENDING and 404 leave the SDK waiting.
Poll(i) ==
  /\ client[i] = "waiting" /\ InTime(i)
  /\ loop.pc = "idle"
  /\ status[i] \in Verdicts
  /\ client' = [client EXCEPT ![i] = status[i]]
  /\ UNCHANGED <<now, created, status, timer, row, loop, verdict>>

\* Mutant: the SDK polls until there is an answer.
KeepPolling(i) ==
  /\ client[i] = "waiting" /\ ~ InTime(i)
  /\ status[i] \in Verdicts
  /\ client' = [client EXCEPT ![i] = status[i]]
  /\ UNCHANGED <<now, created, status, timer, row, loop, verdict>>

\* "Timeout - auto-denied"
StopWaiting(i) ==
  /\ client[i] = "waiting" /\ ~ InTime(i)
  /\ client' = [client EXCEPT ![i] = "DENIED"]
  /\ UNCHANGED <<now, created, status, timer, row, loop, verdict>>

-------------------------------------------------------------------------------
\* The server restarts: store and timers are gone, nothing reloads the rows.
Restart ==
  /\ \E i \in Ids : status[i] # "absent"
  /\ status' = [i \in Ids |-> "absent"]
  /\ timer' = [i \in Ids |-> "none"]
  /\ loop' = NoCall
  /\ UNCHANGED <<now, created, row, client, verdict>>

Tick ==
  /\ now < MaxNow
  /\ now' = now + 1
  /\ UNCHANGED <<created, status, timer, row, loop, client, verdict>>

Endpoint == Resolve \/ Persist
Timer(i) == TimerFires(i) \/ AutoDeny(i)
Client(i) == Poll(i) \/ StopWaiting(i)

Next ==
  \/ \E i \in Ids : CreatePending(i) \/ Timer(i) \/ Client(i)
  \/ \E i \in Ids, answer \in Verdicts : CancelTimer(i, answer)
  \/ Endpoint
  \/ CleanupResolved
  \/ Restart
  \/ Tick

\* Time passes, a call on the event loop comes to its end, a timer thread that
\* is due runs, and the SDK keeps polling.  Nobody has to answer.
Spec ==
  /\ Init /\ [][Next]_vars
  /\ WF_vars(Tick) /\ WF_vars(Endpoint)
  /\ \A i \in Ids : WF_vars(Timer(i)) /\ WF_vars(Client(i))

-------------------------------------------------------------------------------
TypeOK ==
  /\ now \in Nat
  /\ created \in [Ids -> Nat \union {-1}]
  /\ status \in [Ids -> {"absent", "PENDING"} \union Verdicts]
  /\ timer \in [Ids -> {"none", "armed", "cancelled", "fired", "done"}]
  /\ row \in [Ids -> {"absent", "PENDING"} \union Verdicts]
  /\ loop \in [pc : {"idle", "resolving", "persisting"}, id : Ids \union {None},
               answer : {"PENDING"} \union Verdicts]
  /\ client \in [Ids -> {"none", "waiting"} \union Verdicts]
  /\ verdict \in [Ids -> {"PENDING"} \union Verdicts]

\* A decision has one verdict: a timer that fires while a human answers, or an
\* answer that comes after the timer, never leaves two different ones in the store,
\* the table and with the agent (the row of an automatic denial just stays PENDING),
\* and only the human's word lets the agent run.
OneVerdict ==
  \A i \in Ids :
    /\ status[i] \in Verdicts => status[i] = verdict[i]
    /\ row[i] \in Verdicts => row[i] = verdict[i]
    /\ client[i] = "APPROVED" => verdict[i] = "APPROVED"

\* A pending decision always has something that will end it: its timer, or the
\* call that cancelled the timer and is about to resolve it.
PendingIsGuarded ==
  \A i \in Ids : status[i] = "PENDING" =>
    timer[i] \in {"armed", "fired"} \/ (loop.pc = "resolving" /\ loop.id = i)

\* No decision stays pending for ever.
EventuallyResolved ==
  \A i \in Ids : status[i] = "PENDING" ~> status[i] # "PENDING"

\* Whatever the store, its timers, a restart or a failed write do, the one that
\* waits sees a decision that is settled at most once, hears what it was
\* settled to or a denial, and does not wait for ever.
Promise == INSTANCE HumanDecision
ImplementsHumanDecision == Promise!HSpec

-------------------------------------------------------------------------------
(* The inductive invariant behind the safety properties.                   *)

\* A call knows its decision, and what it is about to write is the verdict.
CallOK ==
  /\ loop.pc # "idle" => loop.id \in Ids /\ loop.answer \in Verdicts
  /\ loop.pc = "persisting" => verdict[loop.id] = loop.answer

\* Nobody has decided what is pending or not escalated yet.
Undecided ==
  \A i \in Ids :
    /\ created[i] = -1 => status[i] = "absent" /\ verdict[i] = "PENDING"
    /\ status[i] = "PENDING" => verdict[i] = "PENDING"

\* A client waits, or has waited, for exactly the decisions that were escalated.
ClientKnown == \A i \in Ids : client[i] = "none" <=> created[i] = -1

IInv == TypeOK /\ CallOK /\ Undecided /\ OneVerdict /\ PendingIsGuarded
===============================================================================
