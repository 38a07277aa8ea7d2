------------------------------- MODULE Receipts -------------------------------
(***************************************************************************)
(* The life of a receipt, from the verdict to the guarded call:            *)
(*                                                                         *)
(*   server/main.py            _stamp_response seals a verdict             *)
(*   agentgate/__init__.py     authorize, check_binding, redeem, guard     *)
(*   core/receipts/receipts.py redeem, cleanup_expired                     *)
(*   core/receipts/response_signing.py  verify_response                    *)
(*                                                                         *)
(* A receipt is data: any number of callers may hold the same one, present *)
(* it again after an answer that never came, and present it at the same    *)
(* time.  A redemption is two steps of a server request - the signature    *)
(* check reads the clock, the INSERT waits for the database lock - and     *)
(* between them other requests, the pruning of old rows, a crash and the   *)
(* clock all move.                                                         *)
(***************************************************************************)
EXTENDS Integers

CONSTANTS
  Nonces,      \* response_nonce values: one per receipt (a fresh uuid4 each)
  Ops,         \* operations, told apart by their action_ref
  Callers,     \* SDK call sites that run guarded operations
  Requests,    \* POST /receipts/redeem requests; each is sent at most once
  None,        \* no nonce, no operation, no request
  MaxAge,      \* RESPONSE_MAX_AGE_SECONDS
  MaxHold,     \* longest wait of the INSERT for the lock (sqlite3 timeout)
  Horizon,     \* cleanup_expired(max_age_seconds)
  MaxNow       \* bound on the clock

ASSUME NatAssumption ==
  MaxAge \in Nat /\ MaxHold \in Nat /\ Horizon \in Nat /\ MaxNow \in Nat
ASSUME NoneAssumption ==
  None \notin Nonces /\ None \notin Ops /\ None \notin Requests

VARIABLES
  now,         \* time.time(), in units of the configured ages
  receipt,     \* the sealed response of each nonce; decision "NONE": not issued
  human,       \* what a human answered to a PENDING verdict
  rows,        \* nonces in the table redeemed_receipts
  req,         \* redemption requests, as the server sees them
  caller,      \* guarded calls, as the SDK sees them
  drifted,     \* calls whose arguments changed after check_binding
  executions   \* how often the operation of a receipt was dispatched

vars == <<now, receipt, human, rows, req, caller, drifted, executions>>

Decisions == {"PERMIT", "DENY", "ESCALATE", "PENDING"}
Outcomes  == {"OK", "RECEIPT_NOT_PERMIT", "RESPONSE_EXPIRED",
              "SIGNATURE_MISMATCH", "RECEIPT_ALREADY_SPENT", "LOCKED"}

Init ==
  /\ now = 0
  /\ receipt = [n \in Nonces |-> [decision |-> "NONE", op |-> None, at |-> 0]]
  /\ human = [n \in Nonces |-> "NONE"]
  /\ rows = {}
  /\ req = [r \in Requests |-> [phase |-> "free", nonce |-> None,
              decision |-> "NONE", since |-> 0, outcome |-> "NONE"]]
  /\ caller = [c \in Callers |-> [pc |-> "idle", nonce |-> None, op |-> None,
                 decision |-> "NONE", cur |-> None]]
  /\ drifted = {}
  /\ executions = [n \in Nonces |-> 0]

Issued(n) == receipt[n].decision # "NONE"

-------------------------------------------------------------------------------
(* The server issues a verdict; a human answers the ones left pending.     *)

\* _stamp_response: the MAC covers nonce, decision, timestamp and action_ref, which
\* stays unset (None) for an operation that cannot be canonicalized.
Issue(n, o, d) ==
  /\ ~ Issued(n)
  /\ receipt' = [receipt EXCEPT ![n] = [decision |-> d, op |-> o, at |-> now]]
  /\ UNCHANGED <<now, human, rows, req, caller, drifted, executions>>

HumanAnswers(n, v) ==
  /\ receipt[n].decision = "PENDING"
  /\ human[n] = "NONE"
  /\ human' = [human EXCEPT ![n] = v]
  /\ UNCHANGED <<now, receipt, rows, req, caller, drifted, executions>>

-------------------------------------------------------------------------------
(* The SDK.                                                                *)

\* The decision a caller of authorize() sees: a resolved PENDING is rewritten.
SeenDecision(n) ==
  IF receipt[n].decision # "PENDING" THEN receipt[n].decision
  ELSE CASE human[n] = "APPROVED" -> "PERMIT"
         [] human[n] = "DENIED"   -> "DENY"
         [] human[n] = "NONE"     -> "PENDING"

\* authorize() returns (or its result, kept, is used again): DENY raises, and
\* PENDING blocks.  o is the operation about to run, which need not be the one
\* that was sent.
Obtain(c, n, o) ==
  /\ caller[c].pc = "idle"
  /\ SeenDecision(n) \in {"PERMIT", "ESCALATE"}
  /\ caller' = [caller EXCEPT ![c] = [pc |-> "holding", nonce |-> n, op |-> o,
                  decision |-> SeenDecision(n), cur |-> None]]
  /\ UNCHANGED <<now, receipt, human, rows, req, drifted, executions>>

\* A call that raised: AgentGateBindingError, AgentGateReceiptError, Unavailable.
Abandon(c) ==
  /\ caller' = [caller EXCEPT ![c] = [pc |-> "idle", nonce |-> None, op |-> None,
                  decision |-> "NONE", cur |-> None]]
  /\ drifted' = drifted \ {c}

\* The call goes on to its next step.
Proceed(c, p) ==
  /\ caller' = [caller EXCEPT ![c].pc = p]
  /\ UNCHANGED drifted

\* Mutant: the binding check is forgotten.
CheckBindingSkipped(c) ==
  /\ caller[c].pc = "holding"
  /\ Proceed(c, "bound")
  /\ UNCHANGED <<now, receipt, human, rows, req, executions>>

\* check_binding: recompute the action_ref of what is about to run; a receipt
\* without one covers nothing.
CheckBinding(c) ==
  /\ caller[c].pc = "holding"
  /\ IF receipt[caller[c].nonce].op = caller[c].op
     THEN Proceed(c, "bound")
     ELSE Abandon(c)
  /\ UNCHANGED <<now, receipt, human, rows, req, executions>>

\* Another thread of the agent changes a mutable argument of the call after
\* check_binding looked at it: the wrapper passes the same objects on.
ArgumentsChange(c, o) ==
  /\ caller[c].pc \in {"bound", "redeeming", "cleared"}
  /\ caller[c].op # o
  /\ caller' = [caller EXCEPT ![c].op = o]
  /\ drifted' = drifted \union {c}
  /\ UNCHANGED <<now, receipt, human, rows, req, executions>>

\* AgentGate.redeem posts the decision as the SDK holds it.
Present(c, r) ==
  /\ caller[c].pc = "bound"
  /\ req[r].phase = "free"
  /\ req' = [req EXCEPT ![r] = [phase |-> "posted", nonce |-> caller[c].nonce,
               decision |-> caller[c].decision, since |-> 0, outcome |-> "NONE"]]
  /\ caller' = [caller EXCEPT ![c].pc = "redeeming", ![c].cur = r]
  /\ UNCHANGED <<now, receipt, human, rows, drifted, executions>>

\* Mutant: the status code of the answer is not looked at.
DeliverUnchecked(c) ==
  /\ caller[c].pc = "redeeming"
  /\ req[caller[c].cur].phase = "answered"
  /\ req' = [req EXCEPT ![caller[c].cur].phase = "closed"]
  /\ Proceed(c, "cleared")
  /\ UNCHANGED <<now, receipt, human, rows, executions>>

\* 200 lets the call go on, anything else raises.
Deliver(c) ==
  /\ caller[c].pc = "redeeming"
  /\ req[caller[c].cur].phase = "answered"
  /\ req' = [req EXCEPT ![caller[c].cur].phase = "closed"]
  /\ IF req[caller[c].cur].outcome = "OK"
     THEN Proceed(c, "cleared")
     ELSE Abandon(c)
  /\ UNCHANGED <<now, receipt, human, rows, executions>>

\* httpx times out or the connection drops: AgentGateUnavailable.  The server
\* keeps working on the request; nobody will read its answer.
GiveUp(c) ==
  /\ caller[c].pc = "redeeming"
  /\ Abandon(c)
  /\ UNCHANGED <<now, receipt, human, rows, req, executions>>

\* guard: the wrapped function runs.
Execute(c) ==
  /\ caller[c].pc = "cleared"
  /\ executions' = [executions EXCEPT ![caller[c].nonce] = @ + 1]
  /\ Abandon(c)
  /\ UNCHANGED <<now, receipt, human, rows, req>>

-------------------------------------------------------------------------------
(* The server redeems.                                                     *)

\* Why redeem() refuses before it touches the store, "OK" if it does not.
\* Issuer and redeemer read one clock that does not go back, so the check for
\* receipts from the future never fires here.
Screening(q) ==
  IF q.decision # "PERMIT" THEN "RECEIPT_NOT_PERMIT"
  ELSE IF now - receipt[q.nonce].at > MaxAge THEN "RESPONSE_EXPIRED"
  ELSE IF q.decision # receipt[q.nonce].decision THEN "SIGNATURE_MISMATCH"
  ELSE "OK"

Answer(r, o) == [req EXCEPT ![r] = [@ EXCEPT !.phase = "answered", !.outcome = o]]

\* Mutant: the nonce is marked before the signature is checked.
VerifyAfterMark(r) ==
  /\ req[r].phase = "posted"
  /\ rows' = rows \union {req[r].nonce}
  /\ req' = IF Screening(req[r]) = "OK"
            THEN [req EXCEPT ![r] = [@ EXCEPT !.phase = "verified", !.since = now]]
            ELSE Answer(r, Screening(req[r]))
  /\ UNCHANGED <<now, receipt, human, caller, drifted, executions>>

Verify(r) ==
  /\ req[r].phase = "posted"
  /\ req' = IF Screening(req[r]) = "OK"
            THEN [req EXCEPT ![r] = [@ EXCEPT !.phase = "verified", !.since = now]]
            ELSE Answer(r, Screening(req[r]))
  /\ UNCHANGED <<now, receipt, human, rows, caller, drifted, executions>>

\* Mutant: INSERT OR REPLACE.
InsertOrReplace(r) ==
  /\ req[r].phase = "verified"
  /\ now <= req[r].since + MaxHold
  /\ req' = Answer(r, "OK")
  /\ rows' = rows \union {req[r].nonce}
  /\ UNCHANGED <<now, receipt, human, caller, drifted, executions>>

\* Mutant: request_id is written where the nonce belongs.
InsertSwappedColumns(r) ==
  /\ req[r].phase = "verified"
  /\ now <= req[r].since + MaxHold
  /\ req' = Answer(r, "OK")
  /\ rows' = rows \union {r}
  /\ UNCHANGED <<now, receipt, human, caller, drifted, executions>>

\* The PRIMARY KEY is the test and the mark.
InsertRow(r) ==
  /\ req[r].phase = "verified"
  /\ now <= req[r].since + MaxHold
  /\ IF req[r].nonce \in rows
     THEN /\ req' = Answer(r, "RECEIPT_ALREADY_SPENT")
          /\ UNCHANGED rows
     ELSE /\ req' = Answer(r, "OK")
          /\ rows' = rows \union {req[r].nonce}
  /\ UNCHANGED <<now, receipt, human, caller, drifted, executions>>

\* "database is locked" is no IntegrityError: the handler fails with a 500.
LockTimeout(r) ==
  /\ req[r].phase = "verified"
  /\ now > req[r].since + MaxHold
  /\ req' = Answer(r, "LOCKED")
  /\ UNCHANGED <<now, receipt, human, rows, caller, drifted, executions>>

\* The server process dies: rows are on disk, requests and their answers are not.
Crash ==
  /\ \E r \in Requests : req[r].phase \in {"posted", "verified"}
  /\ req' = [r \in Requests |->
               IF req[r].phase \in {"posted", "verified", "answered"}
               THEN [req[r] EXCEPT !.phase = "closed"] ELSE req[r]]
  /\ UNCHANGED <<now, receipt, human, rows, caller, drifted, executions>>

\* cleanup_expired: DELETE ... WHERE issued_at < now - horizon.
CleanupExpired ==
  /\ \E n \in rows : receipt[n].at < now - Horizon
  /\ rows' = {n \in rows : receipt[n].at >= now - Horizon}
  /\ UNCHANGED <<now, receipt, human, req, caller, drifted, executions>>

Tick ==
  /\ now < MaxNow
  /\ now' = now + 1
  /\ UNCHANGED <<receipt, human, rows, req, caller, drifted, executions>>

Server(r) == Verify(r) \/ InsertRow(r) \/ LockTimeout(r)

Client(c) ==
  \/ \E n \in Nonces, o \in Ops : Obtain(c, n, o)
  \/ CheckBinding(c)
  \/ \E o \in Ops : ArgumentsChange(c, o)
  \/ \E r \in Requests : Present(c, r)
  \/ Deliver(c)
  \/ GiveUp(c)
  \/ Execute(c)

Next ==
  \/ \E n \in Nonces, o \in Ops \union {None}, d \in Decisions : Issue(n, o, d)
  \/ \E n \in Nonces, v \in {"APPROVED", "DENIED"} : HumanAnswers(n, v)
  \/ \E c \in Callers : Client(c)
  \/ \E r \in Requests : Server(r)
  \/ Crash
  \/ CleanupExpired
  \/ Tick

Spec == Init /\ [][Next]_vars

-------------------------------------------------------------------------------
Receipt == [decision : Decisions \union {"NONE"}, op : Ops \union {None}, at : Nat]

Redemption ==
  [phase : {"free", "posted", "verified", "answered", "closed"},
   nonce : Nonces \union {None}, decision : Decisions \union {"NONE"},
   since : Nat, outcome : Outcomes \union {"NONE"}]

GuardedCall ==
  [pc : {"idle", "holding", "bound", "redeeming", "cleared"},
   nonce : Nonces \union {None}, op : Ops \union {None},
   decision : Decisions \union {"NONE"}, cur : Requests \union {None}]

TypeOK ==
  /\ now \in Nat
  /\ receipt \in [Nonces -> Receipt]
  /\ human \in [Nonces -> {"NONE", "APPROVED", "DENIED"}]
  /\ rows \in SUBSET Nonces
  /\ req \in [Requests -> Redemption]
  /\ caller \in [Callers -> GuardedCall]
  /\ drifted \in SUBSET Callers
  /\ executions \in [Nonces -> Nat]

\* The condition on the pruning horizon.  The default, Horizon = MaxAge, does
\* not meet it.
RowsOutliveReceipts == Horizon >= MaxAge + MaxHold

Won(r, n) == req[r].outcome = "OK" /\ req[r].nonce = n

\* Two redemptions of one receipt never both succeed, however they interleave
\* with each other, with crashes and with the pruning of old rows - provided
\* rows outlive the freshness window by the longest wait for the lock.
AtMostOneSpend ==
  \A n \in Nonces : \A r1, r2 \in Requests : Won(r1, n) /\ Won(r2, n) => r1 = r2

\* A call about to run holds the one success for a PERMIT of exactly the
\* operation it was bound to, nothing of that receipt ran before, and no other
\* call is cleared by it.  Only arguments that changed after check_binding
\* escape.
DispatchIsCovered ==
  \A c \in Callers : caller[c].pc = "cleared" =>
    LET n == caller[c].nonce IN
    /\ receipt[n].decision = "PERMIT"
    /\ receipt[n].op = caller[c].op \/ c \in drifted
    /\ Won(caller[c].cur, n)
    /\ executions[n] = 0
    /\ \A b \in Callers : caller[b].pc = "cleared" /\ caller[b].nonce = n => b = c

\* A refused presentation never consumes the receipt: a row is there only
\* because some request for that nonce succeeded.
RefusalBurnsNothing ==
  \A n \in rows : \E r \in Requests : Won(r, n)

-------------------------------------------------------------------------------
(* The inductive invariant behind them.                                    *)

RequestOK ==
  \A r \in Requests : LET q == req[r] IN
    /\ q.phase \in {"free", "posted", "verified"} => q.outcome = "NONE"
    /\ q.phase # "free" => q.nonce \in Nonces /\ Issued(q.nonce)
    /\ q.phase = "verified" =>
         /\ receipt[q.nonce].decision = "PERMIT"
         /\ q.since <= receipt[q.nonce].at + MaxAge
    /\ q.outcome = "OK" => receipt[q.nonce].decision = "PERMIT"

CallerOK(c) ==
  LET k == caller[c] IN
    /\ k.pc # "idle" => k.nonce \in Nonces /\ Issued(k.nonce)
    /\ k.pc \in {"bound", "redeeming", "cleared"} =>
         receipt[k.nonce].op = k.op \/ c \in drifted
    /\ k.pc \in {"redeeming", "cleared"} =>
         /\ k.cur \in Requests
         /\ req[k.cur].phase # "free"
         /\ req[k.cur].nonce = k.nonce
    /\ k.pc = "cleared" => req[k.cur].outcome = "OK"

CallOK == \A c \in Callers : CallerOK(c)

\* A request is somebody's only redemption in progress.
RequestsNotShared ==
  \A b, c \in Callers :
    /\ caller[b].pc \in {"redeeming", "cleared"}
    /\ caller[c].pc \in {"redeeming", "cleared"}
    /\ caller[b].cur = caller[c].cur
    => b = c

\* A spent receipt keeps its row for as long as it could be presented again.
SpentRowsRemembered ==
  \A n \in Nonces, r \in Requests :
    Won(r, n) => n \in rows \/ receipt[n].at < now - Horizon

\* An executed receipt was spent, by a request no call still waits for.
ExecutedWasSpent ==
  \A n \in Nonces : executions[n] # 0 =>
    /\ \E r \in Requests : Won(r, n)
    /\ \A c \in Callers :
         caller[c].pc \in {"redeeming", "cleared"} => ~ Won(caller[c].cur, n)

IInv ==
  /\ TypeOK
  /\ RequestOK
  /\ CallOK
  /\ RequestsNotShared
  /\ RefusalBurnsNothing
  /\ SpentRowsRemembered
  /\ AtMostOneSpend
  /\ ExecutedWasSpent

-------------------------------------------------------------------------------
(* Redemption as the abstract specification tells it.                      *)

StatusOf(n) ==
  IF ~ Issued(n) THEN "unissued"
  ELSE IF receipt[n].decision # "PERMIT" THEN "inert"
  ELSE IF \E r \in Requests : Won(r, n) THEN "spent"
  ELSE "spendable"

StatusMap == [n \in Nonces |-> StatusOf(n)]

SO == INSTANCE SpendOnce WITH
        Receipt <- Nonces, status <- StatusMap, executions <- executions

\* The two-step redemption implements "spend an authorization exactly once".
ImplementsSpendOnce == SO!SOSpec

\* A call a human approved is not turned away as a forgery.
ApprovalIsHonoured ==
  \A r \in Requests : req[r].outcome = "SIGNATURE_MISMATCH" =>
    human[req[r].nonce] # "APPROVED"

\* "Confirm the decision covers the operation about to run": what is run is what
\* check_binding hashed.  The code does not keep it: the redemption comes in between.
BoundIsRun ==
  \A c \in Callers : caller[c].pc = "cleared" => c \notin drifted
===============================================================================
