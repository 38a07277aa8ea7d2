------------------------------- MODULE Authorize -------------------------------
(***************************************************************************)
(* POST /authorize: the handler of server/main.py with its exits in their  *)
(* order, the flow labels of core/enforcement/labels.py it computes from   *)
(* the request history, the policy and the decision rule.                  *)
(*                                                                         *)
(* A handler is atomic between its awaits, and other requests of the same  *)
(* agent run there.  Every exit builds and seals the response, writes it   *)
(* to the trail (audit_log) and, for most exits, to request_history in the *)
(* same transaction, broadcasts and returns.  Detectors and scores are     *)
(* abstracted to what make_decision tells apart.                           *)
(***************************************************************************)
EXTENDS Integers, Sequences, FiniteSets, FiniteSetsExt

CONSTANTS
  Agents, Handlers,
  Operations,       \* what agents ask for
  Policies,         \* what operators may forbid or escalate
  DeclaresExternal, \* agents with processes_external_content
  NeedsApproval,    \* agents with requires_human_approval
  FailMode,         \* AGENTGATE_FAIL_MODE
  None,
  Window,           \* SESSION_WINDOW_SECONDS
  HistoryAge,       \* cleanup_old_history(max_age_seconds)
  ScanTTL,          \* _SCAN_TTL
  MaxRows,          \* bound on the trail
  MaxNow            \* bound on the clock

\* Confidentiality: PUBLIC, INTERNAL, CONFIDENTIAL, SECRET
Levels == 0..3

\* An action on a resource.  level: what a read exposes the agent to, or what
\* the least cleared destination of a send may receive; source: whether the
\* resource is a user-content channel; dest: whether the agent declared all of
\* the destinations at registration.
OperationType ==
  [kind : {"read", "send", "write"}, level : Levels,
   source : {"own", "external"}, dest : {"declared", "undeclared"}]

PolicyType == [effect : {"DENY", "ESCALATE"}, on : SUBSET (Agents \X Operations)]

ASSUME OperationsAssumption == Operations \subseteq OperationType
ASSUME PoliciesAssumption == Policies \subseteq PolicyType
ASSUME AgentsAssumption == DeclaresExternal \subseteq Agents /\ NeedsApproval \subseteq Agents
ASSUME ModeAssumption == FailMode \in {"closed", "open"}
ASSUME TimeAssumption ==
  /\ Window \in Nat /\ HistoryAge \in Nat /\ ScanTTL \in Nat
  /\ MaxRows \in Nat /\ MaxNow \in Nat

VARIABLES
  now,         \* time.time()
  registered,  \* _agents
  policies,    \* policies that are enforced now
  quarantined, \* agents for which quarantine.get_record answers
  scans,       \* _recent_scans: whether the last scan found something, and when
  trail,       \* audit_log
  history,     \* rows of the trail that are in request_history
  req,         \* the requests in progress
  exposed,     \* rows of what each agent was let do, in this registration
  barred       \* agents whose hard flag put them in a quarantine that lasts

records == <<trail, history, exposed>>
gate == <<now, registered, policies, quarantined, scans, barred>>
vars == <<now, registered, policies, quarantined, scans, trail, history, req, exposed, barred>>

Verdicts == {"PERMIT", "ESCALATE", "DENY", "PENDING"}
Exits == {"unknown", "quarantine", "policy", "injection", "pipeline", "failclosed"}
Contents == {"none", "clean", "suspicious", "injection"}
NoScan == [found |-> "nothing", at |-> 0]
NoLabels == [level |-> 0, integrity |-> "trusted"]
Idle ==
  [pc |-> "idle", agent |-> None, op |-> None, content |-> "none", risk |-> "low",
   labels |-> NoLabels, at |-> 0, row |-> 0, readAt |-> 0, saw |-> {}, wasBarred |-> "no"]

Init ==
  /\ now = 0
  /\ registered \in SUBSET Agents
  /\ policies = {}
  /\ quarantined = {}
  /\ scans = [a \in Agents |-> NoScan]
  /\ trail = <<>>
  /\ history = {}
  /\ req = [h \in Handlers |-> Idle]
  /\ exposed = [a \in Agents |-> {}]
  /\ barred = {}

-------------------------------------------------------------------------------
(* What the handler computes.                                              *)

\* check_policies: DENY beats ESCALATE.
PolicyEffect(a, op) ==
  LET effects == {p.effect : p \in {q \in policies : <<a, op>> \in q.on}}
  IN  IF "DENY" \in effects THEN "DENY"
      ELSE IF "ESCALATE" \in effects THEN "ESCALATE"
      ELSE "none"

\* Mutant: the scan is dated back by its lifetime.
ScanResultBackdated(level) ==
  IF level \in {"suspicious", "injection"}
  THEN [found |-> "something", at |-> now - ScanTTL] ELSE NoScan

\* "suspicious" and "injection" come with a score above one half, which is all
\* that is asked of it later.
ScanResult(level) ==
  IF level \in {"suspicious", "injection"} THEN [found |-> "something", at |-> now] ELSE NoScan

\* injection_risk: the last scan, unless it is old or found nothing.
Risk(a) ==
  IF scans[a].found = "something" /\ now - scans[a].at < ScanTTL THEN "high" ELSE "low"

\* Mutant: only what was permitted at once counts.
SessionOfPermits(a, t) ==
  {i \in history : trail[i].agent = a /\ trail[i].verdict = "PERMIT" /\ trail[i].at > t - Window}

\* get_agent_request_history, and of that the reads
Session(a, t) == {i \in history : trail[i].agent = a /\ trail[i].at > t - Window}
Reads(rows) == {i \in rows : trail[i].op.kind = "read"}

\* Mutant: only agents that declare external content are watched.
LabelsAsDeclared(a, rows, risk) ==
  [level |-> Max({0} \union {trail[i].op.level : i \in Reads(rows)}),
   integrity |->
     IF risk = "high" \/ a \in DeclaresExternal THEN "untrusted" ELSE "trusted"]

\* compute_flow_state on these rows
Labels(a, rows, risk) ==
  [level |-> Max({0} \union {trail[i].op.level : i \in Reads(rows)}),
   integrity |->
     IF \/ risk = "high"
        \/ \E i \in Reads(rows) : trail[i].op.source = "external"
        \/ a \in DeclaresExternal
     THEN "untrusted" ELSE "trusted"]

\* check_flow returns a flag
FlowViolated(labels, op) ==
  /\ op.kind = "send"
  /\ \/ labels.level > op.level
     \/ labels.integrity = "untrusted" /\ op.dest = "undeclared"

\* The flags of compute_trust by the strongest: one that make_decision always
\* denies and that also quarantines, one it always denies, one it denies on a
\* sensitive resource, any other.  EXFILTRATION_ACTION is raised by every send,
\* PRIOR_INJECTION_RISK by every risk.
Flags(op, risk) ==
  {"soft", "critical", "hard", "trigger"} \union
    (IF op.kind = "send" \/ risk = "high" THEN {} ELSE {"none"})

Sensitive(op) == op.kind = "send" \/ op.level >= 2

\* make_decision; score: at least the threshold, at least 0.6 of it, or less
MakeDecision(score, flags, op) ==
  IF flags \in {"hard", "trigger"} \/ (flags = "critical" /\ Sensitive(op)) THEN "DENY"
  ELSE IF score = "above" THEN (IF flags = "none" THEN "PERMIT" ELSE "ESCALATE")
  ELSE IF score = "near" THEN "ESCALATE"
  ELSE "DENY"

\* Mutant: the flow flags replace the flags of the detectors.
TripsUnlessFlow(flags, labels, op) == flags = "trigger" /\ ~ FlowViolated(labels, op)

\* should_quarantine_on_flags, of the flags of the detectors and the flow flags
Trips(flags, labels, op) == flags = "trigger"

-------------------------------------------------------------------------------
(* The ends of a request.                                                  *)

Entry(r, exit, verdict, at, claim) ==
  [agent |-> r.agent, op |-> r.op, verdict |-> verdict, at |-> at,
   exit |-> exit, claim |-> claim]

\* Mutant: only what is permitted at once enters the history.
ConcludeForPermits(h, r, exit, verdict, at, claim) ==
  LET row == Len(trail) + 1
  IN  \/ /\ trail' = Append(trail, Entry(r, exit, verdict, at, claim))
         /\ history' = IF verdict # "PERMIT" THEN history ELSE history \union {row}
         /\ exposed' = IF verdict = "DENY" THEN exposed
                       ELSE [exposed EXCEPT ![r.agent] = @ \union {row}]
         /\ req' = [req EXCEPT ![h] = [r EXCEPT !.pc = "logged", !.content = "none",
                                             !.risk = "low", !.labels = NoLabels,
                                             !.at = 0, !.row = row]]
      \/ /\ req' = [req EXCEPT ![h] = Idle]
         /\ UNCHANGED records

\* log_decision inserts into both tables in one transaction; the broadcast and
\* the answer follow.  What is not denied may run, at once or after a human has
\* approved it.  An exception (the lock is not free in time) is a 500.
Conclude(h, r, exit, verdict, at, claim) ==
  LET row == Len(trail) + 1
  IN  \/ /\ trail' = Append(trail, Entry(r, exit, verdict, at, claim))
         /\ history' = IF exit \in {"unknown", "failclosed"} THEN history
                       ELSE history \union {row}
         /\ exposed' = IF verdict = "DENY" THEN exposed
                       ELSE [exposed EXCEPT ![r.agent] = @ \union {row}]
         /\ req' = [req EXCEPT ![h] = [r EXCEPT !.pc = "logged", !.content = "none",
                                             !.risk = "low", !.labels = NoLabels,
                                             !.at = 0, !.row = row]]
      \/ /\ req' = [req EXCEPT ![h] = Idle]
         /\ UNCHANGED records

\* The broadcast is over and the answer leaves.
Answer(h) ==
  /\ req[h].pc = "logged"
  /\ req' = [req EXCEPT ![h] = Idle]
  /\ UNCHANGED records /\ UNCHANGED gate

-------------------------------------------------------------------------------
(* The handler, from await to await.                                       *)

Request(a, op, content) ==
  [pc |-> "posted", agent |-> a, op |-> op, content |-> content, risk |-> "low",
   labels |-> NoLabels, at |-> 0, row |-> 0, readAt |-> 0, saw |-> exposed[a],
   wasBarred |-> IF a \in barred THEN "yes" ELSE "no"]

\* Content that comes with the request is scanned.
Scanned(a, op) == a \in DeclaresExternal \/ op.source = "external"

\* The request arrives.  A wrong or revoked token is a 401 that leaves nothing
\* behind; content that is not scanned is as none.
Post(h, a, op, content) ==
  /\ req[h].pc = "idle"
  /\ content = "none" \/ Scanned(a, op)
  /\ Len(trail) + Cardinality({g \in Handlers : req[g].pc \notin {"idle", "logged"}}) < MaxRows
  /\ LET r == Request(a, op, content)
     IN  \/ /\ a \notin registered
            /\ Conclude(h, r, "unknown", "DENY", now, None)
         \/ /\ a \in registered
            /\ a \in quarantined
            /\ Conclude(h, r, "quarantine", "DENY", now, None)
         \/ /\ a \in registered
            /\ a \notin quarantined
            /\ PolicyEffect(a, op) # "none"
            /\ Conclude(h, r, "policy", PolicyEffect(a, op), now, None)
         \/ /\ a \in registered
            /\ a \notin quarantined
            /\ PolicyEffect(a, op) = "none"
            /\ req' = [req EXCEPT ![h] =
                 IF content # "none" THEN [r EXCEPT !.pc = "scanning"]
                 ELSE [r EXCEPT !.pc = "scoring", !.risk = Risk(a)]]
            /\ UNCHANGED records
  /\ UNCHANGED gate

\* The scan comes back from its thread.
RecordScan(h) ==
  /\ req[h].pc = "scanning"
  /\ scans' = [scans EXCEPT ![req[h].agent] = ScanResult(req[h].content)]
  /\ req' = [req EXCEPT ![h].pc = "scanned"]
  /\ UNCHANGED records /\ UNCHANGED <<now, registered, policies, quarantined, barred>>

\* After the broadcast; the risk is read from _recent_scans again.
UseScan(h) ==
  /\ req[h].pc = "scanned"
  /\ \/ /\ req[h].content = "injection"
        /\ Conclude(h, req[h], "injection", "DENY", now, None)
     \/ /\ req[h].content # "injection"
        /\ req' = [req EXCEPT ![h].pc = "scoring", ![h].content = "none",
                                ![h].risk = Risk(req[h].agent)]
        /\ UNCHANGED records
  /\ UNCHANGED gate

\* compute_trust is over, and compute_flow_state reads the history, in a thread.
ReadHistory(h) ==
  /\ req[h].pc = "scoring"
  /\ LET a == req[h].agent
     IN  req' = [req EXCEPT
           ![h].pc = "judging",
           ![h].labels = Labels(a, Session(a, now), req[h].risk),
           ![h].readAt = now]
  /\ UNCHANGED records /\ UNCHANGED gate

\* A DENY of the pipeline quarantines for a hard flag, or when record_deny says
\* it was one too many; then the record is saved before the answer is logged.
Refuse(h, r, flags) ==
  /\ barred' = IF flags = "trigger" THEN barred \union {r.agent} ELSE barred
  /\ \/ /\ quarantined' = quarantined \union {r.agent}
        /\ req' = [req EXCEPT ![h] = [r EXCEPT !.pc = "saving", !.at = now]]
        /\ UNCHANGED records
     \/ /\ ~ Trips(flags, r.labels, r.op)
        /\ Conclude(h, r, "pipeline", "DENY", now, r.labels)
        /\ UNCHANGED quarantined

\* Back on the event loop: check_flow, then make_decision.  An ESCALATE of an
\* agent that needs approval becomes a pending decision.
Decide(h) ==
  /\ req[h].pc = "judging"
  /\ \E score \in {"above", "near", "below"}, flags \in Flags(req[h].op, req[h].risk) :
       LET r == req[h]
           verdict == IF FlowViolated(r.labels, r.op) THEN "DENY"
                      ELSE MakeDecision(score, flags, r.op)
       IN  \/ verdict = "DENY" /\ Refuse(h, r, flags)
           \/ /\ verdict = "ESCALATE" /\ r.agent \in NeedsApproval
              /\ req' = [req EXCEPT ![h].pc = "asking"]
              /\ UNCHANGED records /\ UNCHANGED <<quarantined, barred>>
           \/ /\ verdict = "PERMIT" \/ (verdict = "ESCALATE" /\ r.agent \notin NeedsApproval)
              /\ Conclude(h, r, "pipeline", verdict, now, r.labels)
              /\ UNCHANGED <<quarantined, barred>>
  /\ UNCHANGED <<now, registered, policies, scans>>

\* save_quarantine and the broadcasts are over.  The response was sealed before.
Saved(h) ==
  /\ req[h].pc = "saving"
  /\ Conclude(h, req[h], "pipeline", "DENY", req[h].at, req[h].labels)
  /\ UNCHANGED gate

\* The pending decision was broadcast.
Asked(h) ==
  /\ req[h].pc = "asking"
  /\ Conclude(h, req[h], "pipeline", "PENDING", now, req[h].labels)
  /\ UNCHANGED gate

\* Something raises between compute_trust and make_decision: a DENY, unless the
\* server runs with AGENTGATE_FAIL_MODE=open.
PipelineRaises(h) ==
  /\ req[h].pc \in {"scoring", "judging"}
  /\ IF FailMode = "closed" THEN Conclude(h, req[h], "failclosed", "DENY", now, None)
     ELSE req' = [req EXCEPT ![h] = Idle] /\ UNCHANGED records
  /\ UNCHANGED gate

\* The scan or the save raises: nothing catches it, and the caller gets a 500.
Raises(h) ==
  /\ req[h].pc \in {"scanning", "saving"}
  /\ req' = [req EXCEPT ![h] = Idle]
  /\ UNCHANGED records /\ UNCHANGED gate

-------------------------------------------------------------------------------
(* Everybody else.                                                         *)

\* POST /scan
Scan(a, level) ==
  /\ a \in registered
  /\ scans' = [scans EXCEPT ![a] = ScanResult(level)]
  /\ UNCHANGED <<now, registered, policies, quarantined, trail, history, req, exposed, barred>>

Register(a) ==
  /\ a \notin registered
  /\ registered' = registered \union {a}
  /\ UNCHANGED <<now, policies, quarantined, scans, trail, history, req, exposed, barred>>

\* deregister_agent and delete_agent: the agent's history goes, and with it the
\* session, also that of requests in progress.
Deregister(a) ==
  /\ a \in registered
  /\ registered' = registered \ {a}
  /\ history' = {i \in history : trail[i].agent # a}
  /\ exposed' = [exposed EXCEPT ![a] = {}]
  /\ req' = [h \in Handlers |->
       IF req[h].agent = a THEN [req[h] EXCEPT !.saw = {}] ELSE req[h]]
  /\ UNCHANGED <<now, policies, quarantined, scans, trail, barred>>

\* add_policy, remove_policy, or the time window of a policy begins or ends
ChangePolicy(p) ==
  /\ policies' = IF p \in policies THEN policies \ {p} ELSE policies \union {p}
  /\ UNCHANGED <<now, registered, quarantined, scans, trail, history, req, exposed, barred>>

QuarantineAgent(a) ==
  /\ a \in registered /\ a \notin quarantined
  /\ quarantined' = quarantined \union {a}
  /\ UNCHANGED <<now, registered, policies, scans, trail, history, req, exposed, barred>>

\* A quarantine expires or is released.
QuarantineEnds(a) ==
  /\ a \in quarantined
  /\ quarantined' = quarantined \ {a}
  /\ barred' = barred \ {a}
  /\ req' = [h \in Handlers |->
       IF req[h].agent = a THEN [req[h] EXCEPT !.wasBarred = "no"] ELSE req[h]]
  /\ UNCHANGED <<now, registered, policies, scans, trail, history, exposed>>

\* cleanup_old_history
Recent == {i \in history : trail[i].at >= now - HistoryAge}

\* _periodic_cleanup: also old scans are evicted.
PeriodicCleanup ==
  /\ history' = Recent
  /\ scans' = [a \in Agents |-> IF now - scans[a].at > ScanTTL THEN NoScan ELSE scans[a]]
  /\ UNCHANGED <<now, registered, policies, quarantined, trail, req, exposed, barred>>

\* The server restarts: what is in memory is gone, a quarantine that was not
\* saved too, and lifespan prunes the history.
Restart ==
  /\ req' = [h \in Handlers |-> Idle]
  /\ scans' = [a \in Agents |-> NoScan]
  /\ \E kept \in SUBSET quarantined : quarantined' = kept /\ barred' = barred \cap kept
  /\ history' = Recent
  /\ UNCHANGED <<now, registered, policies, trail, exposed>>

Tick ==
  /\ now < MaxNow
  /\ now' = now + 1
  /\ UNCHANGED <<registered, policies, quarantined, scans, trail, history, req,
                 exposed, barred>>

Handler(h) ==
  \/ \E a \in Agents, op \in Operations, content \in Contents : Post(h, a, op, content)
  \/ RecordScan(h) \/ UseScan(h) \/ ReadHistory(h) \/ Decide(h)
  \/ Saved(h) \/ Asked(h) \/ PipelineRaises(h) \/ Raises(h) \/ Answer(h)

Operator(a) ==
  \/ Register(a) \/ Deregister(a)
  \/ QuarantineAgent(a) \/ QuarantineEnds(a)
  \/ \E level \in Contents \ {"none"} : Scan(a, level)

Next ==
  \/ \E h \in Handlers : Handler(h)
  \/ \E a \in Agents : Operator(a)
  \/ \E p \in Policies : ChangePolicy(p)
  \/ PeriodicCleanup \/ Restart \/ Tick

Spec == Init /\ [][Next]_vars

-------------------------------------------------------------------------------
RequestType ==
  [pc : {"idle", "scanning", "scanned", "scoring", "judging", "saving", "asking", "logged"},
   agent : Agents \union {None}, op : Operations \union {None}, content : Contents,
   risk : {"low", "high"}, labels : [level : Levels, integrity : {"trusted", "untrusted"}],
   at : Nat, row : Nat, readAt : Nat, saw : SUBSET Nat, wasBarred : {"yes", "no"}]

EntryType ==
  [agent : Agents, op : Operations, verdict : Verdicts, at : Nat, exit : Exits,
   claim : [level : Levels, integrity : {"trusted", "untrusted"}] \union {None}]

TypeOK ==
  /\ now \in Nat
  /\ registered \subseteq Agents
  /\ policies \subseteq Policies
  /\ quarantined \subseteq Agents
  /\ scans \in [Agents -> [found : {"nothing", "something"}, at : Nat]]
  /\ trail \in Seq(EntryType)
  /\ history \subseteq DOMAIN trail
  /\ req \in [Handlers -> RequestType]
  /\ exposed \in [Agents -> SUBSET DOMAIN trail]
  /\ barred \subseteq Agents

\* The reads that the flow state of a request must know of: what its agent was
\* let read before the request came, that the session window covers at time t.
KnownReads(r, t) == {i \in r.saw : trail[i].op.kind = "read" /\ trail[i].at > t - Window}

\* A send that was let through, whatever exit it took, but for one: a policy
\* that escalates answers before the flow is checked, see FlowViolationDenies.
LetThrough(r) ==
  /\ r.pc = "logged" /\ r.op.kind = "send"
  /\ trail[r.row].exit # "policy" /\ trail[r.row].verdict # "DENY"

\* Data does not flow below its level: unless a policy escalated it, a send is let
\* through only if its least cleared destination may receive everything the agent
\* had been let read before it asked and no more than HistoryAge ago, with other
\* requests of the agent in progress, whatever their verdicts were.
FlowsContained ==
  \A h \in Handlers : LetThrough(req[h]) =>
    \A i \in KnownReads(req[h], req[h].readAt) :
      trail[i].at >= req[h].readAt - HistoryAge => trail[i].op.level <= req[h].op.level

\* An agent that was let read a user-content channel no more than HistoryAge ago, or
\* declares that it consumes content it did not author, no longer chooses
\* destinations, unless a policy escalates its send.
DestinationsDeclared ==
  \A h \in Handlers : LetThrough(req[h]) =>
    \/ req[h].op.dest = "declared"
    \/ /\ req[h].agent \notin DeclaresExternal
       /\ \A i \in KnownReads(req[h], req[h].readAt) :
            trail[i].at >= req[h].readAt - HistoryAge => trail[i].op.source = "own"

\* What an agent was let do is not forgotten before HistoryAge, whichever
\* requests fail and whenever the cleanup or a restart comes.
HistoryRemembers ==
  \A a \in Agents : \A i \in exposed[a] :
    trail[i].agent = a /\ (trail[i].at >= now - HistoryAge => i \in history)

\* A hard flag stops the agent at once: whatever comes after the decision, and
\* before the quarantine has ended, is denied - also while the record is still
\* being saved and the refusal is not yet in the trail.
TriggerStops ==
  \A h \in Handlers :
    req[h].pc # "idle" /\ req[h].wasBarred = "yes" =>
      req[h].pc = "logged" /\ trail[req[h].row].verdict = "DENY"

-------------------------------------------------------------------------------
(* The inductive invariant that the proofs use.  t is the trail and e what the *)
(* agents were let do.                                                         *)

\* The reads whose labels count for a request: known before it came, within the
\* window, and not yet pruned when the history was read.
Counted(r, t) ==
  {i \in r.saw : /\ t[i].op.kind = "read"
                 /\ t[i].at > r.readAt - Window /\ t[i].at >= r.readAt - HistoryAge}

\* The labels were computed from all of them.
Covered(r, t) ==
  /\ \A i \in Counted(r, t) :
       /\ t[i].op.level <= r.labels.level
       /\ t[i].op.source = "external" => r.labels.integrity = "untrusted"
  /\ r.agent \in DeclaresExternal => r.labels.integrity = "untrusted"

\* What FlowsContained and DestinationsDeclared say of one send.
Contained(r, t) ==
  /\ \A i \in Counted(r, t) : t[i].op.level <= r.op.level
  /\ \/ r.op.dest = "declared"
     \/ /\ r.agent \notin DeclaresExternal
        /\ \A i \in Counted(r, t) : t[i].op.source = "own"

RequestOK(r, t, e) ==
  /\ r.pc # "idle" => r.agent \in Agents /\ r.op \in Operations /\ r.saw \subseteq e[r.agent]
  /\ r.pc = "idle" => r.saw = {}
  /\ r.pc \in {"judging", "asking"} => Covered(r, t)
  /\ r.pc = "asking" => ~ FlowViolated(r.labels, r.op)
  /\ r.pc # "logged" => r.wasBarred = "no"
  /\ r.pc = "logged" =>
       /\ r.row \in DOMAIN t
       /\ r.wasBarred = "yes" => t[r.row].verdict = "DENY"
       /\ t[r.row].exit # "policy" /\ t[r.row].verdict # "DENY" /\ r.op.kind = "send" =>
            Contained(r, t)

IInv ==
  /\ TypeOK
  /\ HistoryRemembers
  /\ barred \subseteq quarantined
  /\ \A h \in Handlers : RequestOK(req[h], trail, exposed)

-------------------------------------------------------------------------------
(* What documents and comments say and the code does not do.               *)

\* "The session's watermark is the join of the confidentiality of everything it
\* has read within the window (24 hours...)": cleanup_old_history deletes the
\* rows after an hour.
WatermarkCoversWindow ==
  \A h \in Handlers : req[h].pc = "judging" =>
    \A i \in KnownReads(req[h], req[h].readAt) : trail[i].op.level <= req[h].labels.level

\* "the flow claim inside a receipt can be recomputed by anyone holding the
\* trail": a read that was logged after the history was read and before the
\* decision stands above it in the trail and is not in its claim.
ClaimMatchesTrail ==
  \A i \in DOMAIN trail : trail[i].claim # None =>
    \A j \in 1..(i - 1) :
      /\ trail[j].agent = trail[i].agent /\ trail[j].op.kind = "read"
      /\ trail[j].verdict # "DENY"
      /\ trail[j].at > trail[i].at - Window
      => trail[j].op.level <= trail[i].claim.level

\* "A violation denies outright": a policy that escalates answers before the
\* flow is checked.
FlowViolationDenies ==
  \A h \in Handlers :
    req[h].pc = "logged" /\ req[h].op.kind = "send" /\ trail[req[h].row].verdict # "DENY" =>
      \A i \in KnownReads(req[h], trail[req[h].row].at) :
        trail[i].at >= trail[req[h].row].at - HistoryAge => trail[i].op.level <= req[h].op.level
===============================================================================
