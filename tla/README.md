# AgentGate: a verification project

AgentGate is a gate in front of AI agents: before an agent acts it asks
`POST /authorize`, the server answers PERMIT, DENY, ESCALATE or PENDING, seals
the answer and writes it to a tamper-evident log; just before the action runs
the SDK spends the sealed answer, the *receipt*, at `POST /receipts/redeem`.
This directory holds TLA+ models of the parts of the program where the order of
events matters, the TLC configurations that check them, and TLAPS proofs.

Paths below are relative to the repository root, as in `PROJECT.json`, whose
`map` names the source lines of every definition.

## 1. Inventory

One `uvicorn` worker (`run.py`) runs `server/main.py` on one event loop. A
handler is atomic between its `await`s; `asyncio.to_thread`, `threading.Timer`
and the audit writer are real threads. SQLite (WAL) is the only thing that
survives a restart.

| Component | State | Operations | Talks to | Hard parts | What makes it correct |
|---|---|---|---|---|---|
| Receipt redemption (`core/receipts/receipts.py`, `response_signing.py`, `agentgate/__init__.py`) | table `redeemed_receipts`; the sealed response the SDK holds | seal, check the binding, verify, insert, prune, dispatch | SDK over HTTP, SQLite | lost answers and retries, two presentations at once, pruning and freshness, crash between two steps, mutable arguments | spent at most once; what runs was spent and authorized; a refusal burns nothing |
| Audit log (`core/platform/audit.py`, `core/receipts/merkle.py`) | `audit_log`, `merkle_checkpoints`, write queue, writer thread | log, log through the queue, prune, verify, seal, prove | every handler, the hourly task | concurrent writers, full queue, lock timeouts, crash, retention, rowid reuse | one unbranched history; answered decisions are in it; batches partition it; proofs tell the truth |
| Quarantine and contagion (`core/detection/quarantine.py`, `contagion.py`) | records, deny windows, penalties in memory; `agent_quarantine` on disk | quarantine, extend, deny counting, release, propagate, clear, restore | `/authorize`, admin endpoints, hourly task | memory changes first and the table in a thread later, restarts, release against quarantine | durations bounded, ends only by release or time, releases hold, no missed trigger |
| Human approval (`core/platform/approvals.py`) | store and timers in memory; `pending_approvals` on disk | create, approve, deny, auto-deny, evict | `/authorize`, endpoints, SDK polling | timer thread against endpoint, restart, SDK deadline | one verdict; nothing pending for ever; `authorize()` returns |
| Authorization pipeline (`server/main.py`, `core/enforcement/fail_mode.py`) | `_recent_scans`, `_agents` | about ten exits of `/authorize` | all of the above | awaits between check and verdict, exceptions half-way | every exit seals and logs; a DENY source is never outvoted |
| Flow labels (`core/enforcement/labels.py`) | derived from `request_history` | compute the watermark, check a sink | audit log | concurrent requests of one agent, sliding window | data never flows below its level |
| Registry, delegation, tokens (`server/main.py`, `core/enforcement/delegation.py`, `core/platform/token.py`) | `_agents`, table `agents` | register, delegate, revoke, revoke chain, deregister, restore | `/authorize`, contagion | writes that fail half-way, restart, registration again under an old id | a child never exceeds an ancestor; ended tokens stay ended |
| MCP proxy, descriptor guard, argument scan (`server/mcp_proxy.py`, `core/detection/mcp_descriptor_guard.py`, `mcp_arg_scanner.py`) | tool baselines in memory | list, call, read | `/authorize`, MCP server | answers after a timeout, listings in flight together, restart | what was refused does not run; no tool changes before a listing with the change was refused |
| Framework integrations, async SDK (`src/integrations/`, `agentgate/__init__.py`) | none of their own | authorize, wait, redeem, run, scan, return | `/authorize`, `/decisions`, `/receipts/redeem`, `/scan`, the tools | ten adapters that treat PENDING and lost answers differently | what runs was cleared; what was reported refused never runs; every call returns |
| Dashboards, alerts, SIEM (`server/main.py`, `core/platform/alerts.py`) | list of connections; threads | connect, broadcast, remove, alert, ask, forward | every exit of `/authorize`, `/scan`, `/sanitize` | the list changes under a broadcast, stalled peers, shutdown | nobody is skipped without a cause; handlers end; every sink of an alert is tried |
| Output sanitizer (`core/detection/output_sanitizer.py`) | none | match, resolve overlaps, redact | `/sanitize` | overlapping matches, offsets | no severity lost, no cut shifts another |
| Trust engine, policy engine | baselines, table `policies` | score, decide, match | pipeline | thresholds and precedence | DENY beats ESCALATE; hard flags beat scores |
| Other detectors, explainer, reports, dashboard page, templates, simulator, demos, offline verifier, TypeScript SDK | none that matters here | text analysis, output | | | |

## 2. Plan

Order: first what an action's safety rests on (receipts), then the record of it
(audit), then the state the gate keeps about agents, then the gate itself.

1. `SpendOnce` (abstract), `Receipts`, `Receipts_proofs` - **done**
2. `MerkleTree`, `AuditTrail`, `AuditTrail_proofs` - **done**
3. `Quarantine`, `Quarantine_proofs` - **done**
4. `Approvals`, `Approvals_proofs` - **done**
5. `Authorize`, `Authorize_proofs`: the handler of `/authorize` with its exits in
   order, and the flow labels computed from the history the handlers write. One
   module, because the two are only hard together: a label is as good as the rows
   other requests have or have not logged - **done**
6. `Registry`, `Registry_proofs`: registration, delegation, revocation, restart - **done**
7. `McpProxy`, `McpProxy_proofs`: list, authorize, forward, scan - **done**
8. `HumanDecision` (abstract), implemented by `Approvals` and composed with the
   adapters in `GuardedTools`, `GuardedTools_proofs` - **done**
9. `Sanitizer` and `Notifications`, proved about in `GuardedTools_proofs` and
   `Registry_proofs` - **done**
10. Every safety property the passing runs check, as a theorem - **done**
11. Still worth doing: `AuditTrail` implementing "an append-only log of answered
   decisions".

How the modules compose: `Approvals` implements `HumanDecision`, and `GuardedTools`
extends `HumanDecision`, so what the adapters show rests on what the store promises
and not on how it keeps it. `Receipts` implements `SpendOnce`. `Authorize` uses what
`Quarantine`, `AuditTrail`, `Receipts` and `Approvals` model of a verdict's
consequences; `McpProxy`, `GuardedTools` and `Notifications` take its verdicts as any
of those it can give.

## 3. The modules and the code

### SpendOnce, Receipts

`SpendOnce` says what a receipt promises: it is granted, spent at most once, and
its operation runs at most once, after it was spent. `Receipts` is the code.

| Model | Code |
|---|---|
| `receipt` | the sealed response: `decision`, `response_nonce`, `action_ref` (as `op`), `timestamp` (as `at`). The MAC is what it covers, so a forged field shows as a difference from `receipt` |
| `rows` | `redeemed_receipts` |
| `req` | one `POST /receipts/redeem` each: `posted`, `verified` (signature and age were checked), `answered`, `closed` |
| `caller` | one guarded call each: `holding` (authorize returned), `bound` (check_binding passed), `redeeming`, `cleared` (about to run) |
| `drifted` | calls whose arguments changed after `check_binding`: the wrapper keeps the caller's own objects |
| `receipt.op` | `None`: `_stamp_response` could not canonicalize the operation and left `action_ref` unset (`main.py:146`) |
| `human` | the answer to a `PENDING` decision; `SeenDecision` is the rewriting in `authorize()` |

`Verify` and `InsertRow` are two steps. In one worker `redeem_receipt` runs them
without an `await`; the docstring of `receipts.py` claims atomicity for the
database, and several workers, or another process at the database, give the
interleavings of the model. `CleanupExpired` is `cleanup_expired`; nothing in the
server calls it today, only `tests/test_receipts.py:190`.

### MerkleTree, AuditTrail

| Model | Code |
|---|---|
| `log` | `audit_log`: rowid, entry and `entry_hash`. A hash is the sequence of entries it covers (HMAC is collision-free) |
| `lock`, `thread` | SQLite's write lock from `BEGIN IMMEDIATE` to `COMMIT`; `log_decision` in request threads and in `agentgate-audit-writer` |
| `queue` | `_audit_queue`; a full queue makes the caller write itself |
| `gone` | what `cleanup_old_audit_log` deleted |
| `checkpoints`, `sealed` | `merkle_checkpoints`; every entry that was ever a leaf |
| `late` | history: decisions written at a rowid at or below the last sealed one, which retention had freed |
| `prover` | one proof request: entry, then checkpoint, then range, three reads without a transaction |

`NextRowid` is SQLite's rule for a table without `AUTOINCREMENT`: the largest
rowid in use plus one, which is why rowids come back after retention.
`log_decision_queued` has no caller in the server now, but shutdown still flushes
its queue and tests use it, so it is modelled. `MerkleTree` has `merkle_root`,
`merkle_proof` and `verify_proof` as functions and folds.

### Quarantine

| Model | Code |
|---|---|
| `store`, `denies` | `quarantine._store` (`expires_at`, 0: none) and `_deny_windows` |
| `disk` | `agent_quarantine` |
| `contagion` | `contagion._store`: target and source; amount and TTL are abstracted (`PenaltyExpires` at any time) |
| `handler` | a request between its `await`s: `scoring`, `saving` (thread not started), `writing` (row copied), `announcing` (broadcast), `deleting`, `clearing` |
| `handler.holds` | whether the record object the thread will copy is still the one in the store: `quarantine()` extends the object in place, others replace it |
| `unsaved` | history: agents whose last `save_quarantine` raised |
| `overlapped`, `released`, `denied` | history: two handlers changed one agent at once; releases that ended; every deny that reached `record_deny` since the last clear |

`SaveFails` and `DeleteFails` are the branches where SQLite raises ("database is
locked"; `main.py:683`, `704`, `1089`): the caller gets a 500 and nothing is undone. After
the first the record is in memory and not in the table, so this process denies the
agent and the next one does not know of it; after the second the row stays, so a
restart brings the quarantine back. `Allow` is every exit that counts no deny: the
verdicts that let an agent act and the DENYs that return before `record_deny`.

### Approvals

| Model | Code |
|---|---|
| `status`, `timer` | `approvals._store`, `_timers` and the `threading.Timer` threads |
| `row` | `pending_approvals`; a failed write is ignored, as in the code |
| `loop` | the approve or deny call the event loop is in: cancel, resolve under the lock, persist |
| `client` | `_wait_for_human` of the SDK |
| `verdict` | history: the first resolution |

`HumanDecision` is what the one that waits may rely on: `Ask`, `Decide` at most once,
`Hear` what was decided or a denial, and the wait ends. `ImplementsHumanDecision`
maps `client` and `verdict` to themselves.

The automatic denial is not persisted and rows are never reloaded: both are as in
the code. What `_auto_deny` does after it released the lock
(`approvals.py:90-99`) asks for an event loop from a timer thread, which raises
and is ignored; it changes no state that is modelled.

### Authorize

| Model | Code |
|---|---|
| `trail`, `history` | `audit_log`; which of its rows are in `request_history` (`log_decision` writes both in one transaction) |
| `req` | one `POST /authorize` each, at an `await`: `scanning`, `scanned` (the broadcast), `scoring` (`compute_trust`, then `compute_flow_state` in threads), `judging` (back on the loop), `saving`, `asking`, `logged` (the last broadcast) |
| `req.labels`, `req.readAt` | `flow_state` and when it was computed |
| `scans`, `registered`, `quarantined`, `policies` | `_recent_scans`, `_agents`, what `get_record` answers, the policies whose window is open |
| operations | an action on a resource, by what the labels tell apart: read, send or write; the level of what is read or of the least cleared destination; whether it is a user-content channel; whether all destinations were declared |
| `exposed`, `saw`, `barred`, `wasBarred` | history: rows of what an agent was let do in this registration; those a request could know when it came; hard flags and whether one preceded the request |

`Post` is everything up to the first `await`. Scores and flags are any that the
detectors could give, by the strongest class `make_decision` and
`should_quarantine_on_flags` tell apart; every send has the flag
`EXFILTRATION_ACTION`, so it is never a plain PERMIT. A wrong or revoked token is a
401 that leaves no trace and is left out. `LetThrough` is a send that was not denied, whatever
exit it took, unless a policy escalated it. Denied reads raise the watermark like
permitted ones, as in the code. `Restart` keeps any subset of the quarantines: which
ones survive is the subject of `Quarantine`.

### Registry

| Model | Code |
|---|---|
| `agents`, `disk` | `_agents` and the table `agents`: delegator, depth, scope, token. `form` says whether the row holds a jti or, after `load_all_agents`, its hash |
| `issued` | JWTs the agent of an id was given; a token is the n-th of them |
| `job` | the `revoke_chain` under way: `walk` (the search), `revoke` (the second loop); anything may fail or the process may die between two agents |
| `dead` | history: tokens a 200 declared ended |
| `budget` | bounds: tokens to issue, writes to raise |

A handler runs to its last `await`, the broadcast, in one step, because `save_agent`
is synchronous; a write that raises leaves memory as it is (`Works`, `Fails`).
A pattern is a path (`exact`), a path with `/*` behind it (`tree`) or with `/?` (`one`);
`Fnmatch` says what `fnmatch` makes of them, and `Text` how they are written, because
`_pattern_covered_by` matches a child's pattern as if it were a path. Other wildcards are
left out. `Climb` is `get_chain`, a recursive function; `ChainAllows` is the check of
`score_delegation`. As in the code, a revoked parent (`token` is `None`) delegates
without a token (`main.py:405`, against the comment at `main.py:603`), and
`Delegate` reads the depth of the parent as it is now.

### McpProxy

| Model | Code |
|---|---|
| `pc`, `asked`, `answer` | a handler of `mcp_proxy` at an `await`: for `/authorize`, for the MCP server |
| `verdict` | what the platform decides, also after the proxy has given up on it |
| `sent`, `ran`, `reply` | a request on its way, carried out, answered; after a timeout it may still be carried out |
| `known` | `_descriptor_cache`: a text stands for its hash, and `Text` is what `_descriptor_text` joins: the descriptions of the tool and of its parameters, not the rest of the schema |
| `shown`, `alarmed` | history, for each client: what it last received of a tool, and what was refused since, to whom |

`IsPoisoned` looks at the joined text, as `_is_poisoned` does. `Remembered` stores
baselines before `Refused` decides, as in the code, and stops at an entry the scan
raises on. The order of `BadArguments` (after authorization, before the forward) and the
levels it looks at are those of the code.

### GuardedTools

Ten adapters, each a record of whether it asks at all, of what it does with an answer
that does not come, with DENY and PENDING, whether it redeems and whether it scans:
LangChain (sync and async), the LangGraph node, AutoGen, OpenAI Agents, the two
`agentgate_tool` decorators, the async SDK's `operation` and `guard`, and
`LangChainAsIs`: a LangChain tool with neither `func` nor `coroutine` is returned as it
is (`wrapper.py:236-237`) and runs without a question. `RunsAreCleared` is about the
adapters that ask, `EveryRunIsAsked` about all of them, and the code does not keep it.

| Model | Code |
|---|---|
| `pc`, `decision`, `outcome` | one tool call: `authorize`, `wait` (polling), `spend` (binding and redemption), `run`, `scan`, `returned` |
| `client`, `verdict` | `HumanDecision` |
| `spent` | receipts the platform recorded |
| `message` | the calls of one message, gathered by the LangGraph node |

`guard(redeem=False)` and `raise_on_deny=False` are left out: with the second the
caller asks for a denied action to run.

### Sanitizer

`Resolve` is one turn of `_resolve_overlaps`, `Redact` one of the loop that cuts from
right to left, `Upto` a Python slice. A text is a sequence of numbered cells and a
label is a negative number, so the redacted text shows what is left of what.

### Notifications

| Model | Code |
|---|---|
| `list`, `sock` | `ConnectionManager._connections` and the endpoint of each |
| `req` | a handler: the steps of its exit still to come (`Steps`), in the order of the code |
| `cast` | the `broadcast` it is in: `at` is the index of Python's list iterator, which reads the list as it is now; `owed` and `left` are history |
| `loop` | the handler that runs; it lets others run at an `await` only |
| `threads` | non-daemon threads of `fire_alert`, at the first or the second of their posts; daemons of `fire_siem_event` |

`Sent` includes the `ValueError` of removing a connection that is gone already, which
ends the handler in a 500. `fire_approval_request` posts without an `await`. `PostAlert` is
one `try` of `_send`, whatever comes of it: a post that raises is printed and lost
(`alerts.py:165`, `184`), so what `AlertsOutlive` says is that the second sink is tried before
the thread ends and that it ends, not that an alert arrives.

## 4. What the runs show

| Run | Shows | Bounds |
|---|---|---|
| `receipts` | spent at most once; a dispatch is covered by a spend of its own PERMIT and ran never before; refusals burn nothing; `Receipts` implements `SpendOnce` | one receipt, two callers, three requests, two operations, four instants |
| `receipts_approval` | a call a human approved is refused as `SIGNATURE_MISMATCH` (finding) | the same |
| `audit` | one history, intact logs verify, answered decisions recorded, batches partition the log but for rows written late, proofs speak true, a full queue drains | three decisions, two threads and the writer, queue 1, batch 2, retention 1, three instants |
| `quarantine` | ceiling, early end only by release (or by a restart after overlapping handlers or a save that raised), releases hold, no missed trigger | parent and child, two handlers, the child alone calls `/authorize`, threshold 2, window 1, ceiling 2, three instants |
| `approvals` | one verdict; nothing pends for ever; the store implements `HumanDecision` | two decisions, timeout 1, SDK timeout 2, four instants |
| `authorize` | sends no policy escalates are contained, destinations declared, history remembered, hard flags stop what follows | one agent, two requests, three operations, two rows, one escalating policy, window 2, two instants |
| `registry` | ended tokens stay ended; nobody gains over an ancestor; the search of `revoke_chain` advances | three agents, two scopes (one with `/*`; one with `/?` and an exact path), three paths, depth 2, four tokens, one write that fails |
| `mcp` | what was refused does not run; changes are refused to somebody before they are received | two clients, two tools, five listings, three results, eight requests, scan depth 2 |
| `guarded` | what runs behind an adapter that asks was cleared; refused calls never run; every call returns | two calls, ten adapters |
| `guarded_pending` | a tool runs while its decision is open (finding) | the same |
| `sanitizer` | no severity lost; redaction in place | every sequence of up to three matches on four cells |
| `notifications` | a live dashboard misses a message only by a removal; every request ends; alerts are tried at both sinks, also when the server stops | two handlers, two dashboards, room for one, four exits |

Why the bounds are enough. A receipt is independent of every other (rows, MAC and
binding are per nonce), so one receipt with three presentations by two callers
has every race: two at once, and a third after one was lost or pruned. Three log
entries are one full batch and a rest, or a chain with a row missing at its
front; a queue of one is full as soon as it is used. Two handlers are the
smallest number that can overlap, and a third adds nothing a restart or a second
round does not: handlers are reused. The clock is long enough for every window
to close and for one instant after it. `MCAuditTrail` checks the Merkle functions
by `ASSUME` for batches of up to nine leaves: every shape of an odd last node on
every layer up to depth four.

An agent is judged by its own history alone, so one agent with two requests has every
race of `/authorize`: a read and a send whose steps interleave. Two rows are a read
and the send it concerns. The operations are a SECRET read of a user-content channel,
a send that is cleared for SECRET and not declared, and one that is declared and
cleared for nothing. What these bounds leave out - two agents, agents that declare
external content or need no approval, policies that deny, fail mode `open` - the
theorems of section 5 cover, which hold for all values of the constants.

Three agents are the shortest chain with a middle, and the shortest cycle with a witness
outside it; four tokens register each and one again. Two requests of the proxy are two
clients with listings in flight, or a listing and a call; the five listings hold every
relation between two of them that `Refused` tells apart: same, changed, changed where
the guard does not look, poisoned, twice the same name, and one it raises on. Records,
rows and deny windows are per agent, and one agent reaches another by contagion only, so
one of the two has all races with `/authorize`; its parent is released, quarantined by
hand and reached by contagion, and does not call it (`Callers`). Of the exits of
`Notifications` the run takes one of each shape (`Exits`): with a broadcast before the
decision, with an approval request, plain, and of `/scan`. Calls of adapters share
nothing but their message, so two of them have every race. Three matches are one that
replaces another and is then overlapped itself. Two broadcasts over two connections
remove the same dead one twice and skip a live one; room for one connection lets the
list grow past its maximum.

`CHECK_DEADLOCK FALSE` is set where the bounded clock and the bounded supply of
decisions, calls or requests let a run end; `Quarantine`, `Authorize`, `Registry` and
`McpProxy` can always restart and are checked with deadlock detection on.

**Fairness.** `AuditTrail!FairSpec`: the writer thread takes what is queued, and a
thread in `log_decision` gets the lock or SQLite's timeout, then commits: no lock
is held across anything but a write. `Approvals!Spec`: the clock moves, an
endpoint call ends, a timer that is due runs, the SDK keeps polling. Nobody has to
answer, and the server may restart at any time. `HumanDecision!HSpec`: the wait of a
client ends, which `Approvals` is shown to implement. `GuardedTools!GSpec`: requests to
the platform end with their timeout, waits as `HumanDecision` promises, and the tools
return. `Notifications!Fairness`: the event loop gives each handler its turns,
`wait_for` ends a send after five seconds, posts end with their timeouts, and the
process is not killed. `Receipts`, `Quarantine`, `Authorize`, `Registry`, `McpProxy` and
`Sanitizer` are checked for safety and action properties only (`McpProxy` states the
timeouts of its awaits as fairness, and no property uses it).

**Findings** with a violation run, whose counterexample follows the code:

- *Approved calls cannot be redeemed* (`receipts_approval`). `authorize()` rewrites
  `PENDING` to `PERMIT` after the human's answer and `redeem()` posts that with the MAC
  over `PENDING`.
- *PENDING runs* (`guarded_pending`). The LangGraph node and the `agentgate_tool`
  decorators compare with DENY only.

**Divergences without a run of their own.** The property is stated in its module; TLC
refutes it when it is added to the module's configuration.

| Property | The code | What it contradicts |
|---|---|---|
| `AuditTrail!UntamperedVerifies` | `verify_chain` starts from `"genesis"`, which the oldest row left after retention does not follow | `audit.py:703` |
| `AuditTrail!UnsealedHasNoProof` | when retention empties the table new entries get rowids an old checkpoint covers, and a proof that cannot verify | `audit.py:437` |
| `AuditTrail!EveryRowIsSealable` | the same entries, below the last sealed rowid, are never sealed: `_merkle_pending` looks above it only. `BatchesPartition` exempts them (`late`) | `audit.py:349` ("entries not yet covered by a checkpoint") |
| `Receipts!BoundIsRun` | another thread may change a mutable argument between `check_binding` and the call | `agentgate/__init__.py:336` |
| `Quarantine!ActiveIsOnDisk` | the threads that save and delete reach `agent_quarantine` in another order than memory changed, and a save that raises leaves the record in memory alone; a restart then ends the quarantine. `QuarantineHolds` exempts both (`overlapped`, `unsaved`) | `quarantine.py:187` |
| `Authorize!WatermarkCoversWindow` | `cleanup_old_history` deletes rows older than an hour, hourly and at every start; the window is 24 hours | `docs/information-flow.md:56,60`, `labels.py:28` |
| `Authorize!ClaimMatchesTrail` | a read logged between the reading of the history and the decision stands above it in the trail and not in its claim | `labels.py:26,141` |
| `Authorize!FlowViolationDenies` | a policy that escalates returns before the flow check, and integrations run tools on ESCALATE | `docs/architecture.md:42,77` |
| `Registry!EveryRevocationEnds` | the search of `revoke_chain` keeps no visited set: on a cycle of `delegated_by` it never ends | `main.py:617` |
| `Registry!TokensSurviveRestart` | `load_all_agents` puts the hash of the jti where the handlers compare the jti | `token.py:5` |
| `Registry!RegistrationNarrows` | `_pattern_covered_by` matches a pattern as a path, so the `?` of a parent covers the `*` of a child, and a child is registered with more than its parent; the check of each request refuses what is too much (`NoGainOverAncestors`) | `delegation.py:4-6` |
| `McpProxy!EveryClientWarned` | the baseline is stored before the listing is refused, and it is one for all clients: who lists next receives the changed or poisoned tool, though it was never warned | `mcp_descriptor_guard.py:2-3` |
| `GuardedTools!EveryRunIsAsked` | a LangChain tool with neither `func` nor `coroutine` is not wrapped | `wrapper.py:2,197` |
| `GuardedTools!MessageAuthorizedFirst` | `asyncio.gather` lets one tool run before another call is authorized | `langgraph.py:13-16` |
| `Sanitizer!FindingsRedacted` | of two overlapping matches of one severity the second is dropped with its tail | `output_sanitizer.py:237` ("Returns sanitized text with threats redacted") |

Also met while modelling, without a property: the `decided` exit alone of those that
deny forwards to SIEM, against `alerts.py:303-308` ("Forward every authorization
decision"): `unknown`, `quarantine`, `failclosed` and `pending` do not; a post of an alert
that raises is lost (`alerts.py:165`, `184`); the row of an automatic denial stays
`PENDING`; the capacity of `/ws` is compared before the handshake
(`main.py:178`), so more than the maximum can be listed; `fire_approval_request` holds
the event loop for up to ten seconds (`alerts.py:401`); a registration whose answer is
lost leaves an agent whose token nobody holds, and every retry gets a 409.

`FlowsContained` and `DestinationsDeclared` are stated with these limits: reads from
before the request, no older than `HistoryAge`, and every send but those a policy
escalates. `NoMissedTrigger` counts the denies that reach `record_deny`, since the last
restart.

A divergence that has no run of its own: `receipts.py:157-159` calls the default
pruning horizon safe. The proof of `SpendIsUnique` needs
`RowsOutliveReceipts == Horizon >= MaxAge + MaxHold`; the default is
`Horizon = MaxAge`, and with it an insert that waited for the lock can succeed
after the first row was pruned. Nothing calls `cleanup_expired` today.

## 5. What is proved

All for every value of the constants, with no bound on agents, handlers,
threads, requests or time. The constants' assumptions are the named `ASSUME`s of
each module; TLC evaluates them in every run.

**Receipts_proofs.** All five assume `RowsOutliveReceipts`, because they share one
inductive invariant: `TypeCorrect`, `NothingBurned` (`RefusalBurnsNothing`),
`SpendIsUnique` (`AtMostOneSpend`), `DispatchCovered` (`DispatchIsCovered`) and
`Refinement` (`ImplementsSpendOnce`).
`AtMostOneSpend` is not inductive: an insert may find the row of an earlier win
pruned. `SpentRowsRemembered` says the row is there unless the receipt is older
than the horizon, and `RequestOK` that a verified request was fresh when it was
verified, so `MaxHold` later the row is still there. `RequestsNotShared` and
`ExecutedWasSpent` carry the win from the request to the one call that may run.

**AuditTrail_proofs.** `TypeCorrect`, `HistoryIsOne` (`OneHistory`),
`IntactLogVerifies` (`IntactVerifies`), `AnswersRecorded` (`AnsweredIsRecorded`).
They need each other and `WritersOK`: whoever holds the lock knows the hash of
the row that is *still* the last one. `RowidsBounded` makes the last row exist
(by well-founded induction on `Nat`, cited from the library, because finiteness
of the log alone says nothing of the maximum); a new row is above all others and
extends the history of each. Pruning keeps any subset of one history a history.

The Merkle tree: `MerkleProofSound`, `MerkleProofComplete` and `MerkleRootCommits` say of
`merkle_root`, `merkle_proof` and `verify_proof`, at every batch size, that any proof that
verifies is of a leaf of the batch, that the proof made for a leaf verifies, and that the
root commits to the entries and their order. The last needs the entries to be distinct,
as sealed rows are: an odd layer repeats its last node, so `<<a, b, c>>` and
`<<a, b, c, c>>` have one root. The layers of a tree are a recursive
function; what is said of all of them is proved by induction in the form of a set
(`SetInduction`: a set that has 0, and `n + 1` with each `n`, has every natural number),
after the function is shown to exist (`LayersExist`, `PositionsExist`, `PathExists`).

`BatchesArePartition` (`BatchesPartition`) and `ProofsTrue` (`ProofsSpeakTrue`) rest on
them and on `SealInv`. A rowid may be used again once the last row was pruned, so that
ranges do not overlap is not inductive by itself: `OnePlace` says an entry is in the
queue or with one thread, once; `WrittenOnce` that it has no row before it is written
and one afterwards; `RangesOK` that checkpoints go up; `RootsOK` that a root is that of
some batch of sealed entries, which holds for ever; `RangesIntact` that as long as
nothing was deleted it is that of the rows in its range *now*, which ends at a row;
`NoneSkipped` that what is not sealed lies above the last checkpoint, unless it was
written there late; `ProverOK` what a request for a proof may still believe of its
earlier reads.

**Quarantine_proofs.** `TypeCorrect`, `CeilingNeverExceeded` (`CeilingHolds`),
`QuarantineLasts` (the action property `QuarantineHolds`), `ReleaseIsFinal`
(`ReleaseHolds`), `TriggerNeverMissed` (`NoMissedTrigger`). `SavedOrSaving` is the
heart: of an agent no two handlers changed at once, at most one handler is at work; an
active quarantine is on disk, or that handler is about to write exactly it, or its save
raised (`unsaved`); one that deletes has nothing in memory to lose. `ReleasedIsClean`
says a released agent is alone until the next quarantine. `WindowIsSuffix` says the
window is the end of the list of all denies and the rest is old, from which the first of
any `Threshold` denies in a row is old when the last one comes.

**Approvals_proofs.** `TypeCorrect`, `VerdictIsOne` (`OneVerdict`),
`PendingGuarded` (`PendingIsGuarded`); the invariant adds what a call in progress
may know (`CallOK`) and that an undecided decision has no verdict anywhere
(`Undecided`).

**Authorize_proofs.** `TypeCorrect`, `FlowIsContained` (`FlowsContained`),
`DestinationsAreDeclared` (`DestinationsDeclared`), `HistoryRemembered`
(`HistoryRemembers`), `TriggerIsFinal` (`TriggerStops`). The first two speak of every
exit: that all but `pipeline` and `policy` deny is part of what `ConcludeStep` needs.
The invariant `IInv` adds `RequestOK`, what a request owes in each phase: `Covered` (its
labels are above every row it knew that had not been pruned when the history was read)
while they count, a passed flow check while it waits for the broadcast of a pending
decision, and `Contained` once it is logged. `ReadHistoryCovers` is the heart: such a
row is in `exposed`, hence by `HistoryRemembers` in `history`, hence in the session.
`ConcludeStep` is shared by every exit; `GrowthKeeps` says that rows other requests add
disturb nobody.

`KeepsPromise` (Approvals_proofs) is the safety half of `ImplementsHumanDecision`; its
`ClientKnown` says that a decision no client asked for is in nobody's store.

**Registry_proofs.** `DelegationNarrows` (the two scope checks agree, where the parent
has no pattern with `?`), `TypeCorrect`, `RevocationFinal` (`RevocationIsFinal`).
`RowsOK`: the token of a row is issued and not ended. `WalkOK` and `RevokeOK`: what the
search of `revoke_chain` has found is closed under delegation but for what is still
before it, and what the second loop left behind has no token, in memory and in the
table, so the 200 declares nothing that lives.

`NoGain` (`NoGainOverAncestors`) and `SearchNeverReturns` (`SearchAdvances`) rest on
`FamilyInv`. The check climbs with `get_chain`, the property looks at the set of all
ancestors, and chains can be closed (a deregistered id may come back as a child of its own
descendant) or broken. `DepthOK` says that a row with a parent is not at depth 0, where
the climb ends; `AncestorsClimbed` that what the climb meets contains every ancestor: a
climb of as many steps as there are agents has reached its end or met an agent twice,
and then what it met is closed under `delegated_by`. `IdsAssumption`, that the agents are
finitely many as in any dict, is needed for that. `FoundOK` says that the search reaches
an agent only from the one that delegated it and only below its root: it can come back
to its root alone, and only if that is on a closed chain. The whole handler up to its second
loop has no `await`, so nothing interleaves with the search.

`FewAreMissed` (the action property `MissedAtMostRemoved` of `Notifications`) is proved
here too, for any dashboards, handlers and broadcasts at once. `CastsInv`: a
connection is on the list once (`ListOK`), and of those a broadcast owes the message no
more are behind its index (`Behind`) than entries were removed under it (`CastOK`).
`BehindRemoval` is the heart: `Without` moves an entry forward by at most the number
of entries removed before it, so a removal puts that many of the owed behind the index,
and no more.

**GuardedTools_proofs.** `TypeCorrect`, `RunsCleared` (`RunsAreCleared`),
`RefusedStaysOut` (`RefusedNeverRuns`), for every set of adapters that can be described
as records of `Adapter`, not only the ten; `RunsAreCleared` is about those that ask.
`CallOK` says what is known of a call from where it is; calls are independent
(`Untouched`, `OneCall`), so each action is shown for its own call. An approval a client
heard is the verdict of the store.

The properties of `Sanitizer` are proved here too, for texts of any length and matches
of any number: `NoThreatUnderstated` (`NoneUnderstated`) and `TextRedactedInPlace`
(`RedactedInPlace`). In `SanInv`, `SpansOK` says that resolved spans are not empty and
none begins after a match still to come, which is what makes looking at the last one
enough; `TextOK` that before the last cut (`Uncut`) every character is where it was in
the original, so that the offsets of the spans to the left are still right, and that
after it nothing is lost but what the spans cover.

**McpProxy_proofs.** `TypeCorrect`, `RefusedStaysOut` (`RefusedNeverRuns`),
`ChangesAreAnnounced` (the action property `ChangesAnnounced`). `StageOK` says where a
request stands; `BaselineOK` that the baseline of a tool is, for each client, what it last
received or was refused to somebody since, or is clean and the client never had the
tool: a listing that passes agrees with the baseline of each tool it names, so what
differs from what a client has was refused.

**Only model-checked.** The liveness properties `FullQueueClears`, `EventuallyResolved`,
`EveryCallReturns`, `EveryRequestEnds`, `AlertsOutlive` (whose first conjunct, an action
property, TLC alone checks too) and the liveness half of `ImplementsHumanDecision`:
liveness under fairness, and the `ENABLED` in it, are out of the prover's reach. Every
other property of the passing runs is a theorem.

## 6. What is not modelled

- Cryptography: HMAC, SHA-256 and JWT signatures never collide and are never
  forged; keys never change. Request ids and nonces are fresh.
- Power loss: a commit is durable. With `synchronous=NORMAL` and WAL the last
  commits may be lost with the machine, though not with the process.
- Rows from before the chain (`entry_hash IS NULL`), statistics, exports and
  every other read of the database.
- In `Quarantine`, agents are registered all the time; reasons, triggers and the
  size of penalties are left out. In `Approvals`, broadcasts, and the entries of
  `_timers` that automatic denials leave behind.
- The SDK's default `pending_timeout` (95 s) against the server's 90 s is a pair
  of constants; the run keeps their order.
- Detection by text (patterns of injection and sanitizing, kill chains, drift,
  hammering), explanations, reports, the dashboard page, templates, the simulator and
  the demos: text processing and presentation. The offline verifier is stateless, and
  the TypeScript SDK follows the protocol of the Python one; see `components` in
  `PROJECT.json`.
- The behavioural contract (`trust_engine.py:208-256`): its limits are read from the
  history before concurrent requests have logged theirs, and only add flags.
- In `Registry`, the expiry of tokens, and the TTL a restart gives to rows without one.
  In `McpProxy`, the report to `/sanitize`. In `Notifications`, the contents of messages,
  the first two messages of a dashboard, and a process that is killed.
- In `Authorize`: contagion (it only changes scores), the 400 and 401 answers, and
  that a human may approve a pending send after the watermark has risen.
