------------------------------ MODULE AuditTrail ------------------------------
(***************************************************************************)
(* The audit log of core/platform/audit.py: the HMAC chain, the write      *)
(* queue and its background thread, retention, the Merkle checkpoints and  *)
(* the inclusion proofs served from them.                                  *)
(*                                                                         *)
(* Threads write decisions: /authorize writes before it answers, other     *)
(* callers go through the queue.  A write holds the database's write lock  *)
(* from BEGIN IMMEDIATE to COMMIT.  Reads take no lock, and a proof is     *)
(* three of them.                                                          *)
(*                                                                         *)
(* HMAC is taken as collision-free: an entry_hash is the sequence of the   *)
(* entries it covers, "genesis" the empty one.                             *)
(***************************************************************************)
EXTENDS Integers, Sequences, FiniteSets, MerkleTree

CONSTANTS
  Ids,         \* decisions; each has a fresh server-side request_id
  Threads,     \* callers of log_decision and log_decision_queued
  Writer,      \* the background thread agentgate-audit-writer
  None,        \* nobody, nothing
  QueueSize,   \* AGENTGATE_AUDIT_QUEUE_SIZE
  BatchSize,   \* AGENTGATE_MERKLE_BATCH_SIZE
  Retention,   \* AGENTGATE_AUDIT_RETENTION_DAYS
  MaxNow       \* bound on the clock

ASSUME SizeAssumption ==
  QueueSize \in Nat \ {0} /\ BatchSize \in Nat \ {0} /\ Retention \in Nat /\ MaxNow \in Nat
ASSUME NameAssumption ==
  Writer \notin Threads /\ None \notin Ids /\ None \notin Threads \union {Writer}

Writers == Threads \union {Writer}

VARIABLES
  now,         \* the clock
  built,       \* response.timestamp of each decision; -1: not decided yet
  thread,      \* what each writing thread does
  lock,        \* who holds the database's write lock
  log,         \* the table audit_log: rowid, id and entry_hash of each row
  gone,        \* decisions retention has deleted
  answered,    \* decisions /authorize has returned
  queue,       \* _audit_queue
  checkpoints, \* merkle_checkpoints, in batch_id order
  sealed,      \* decisions that were a leaf of some checkpoint
  late,        \* decisions written at a rowid that was sealed and freed before
  prover       \* one GET /audit/merkle/verify request

vars == <<now, built, thread, lock, log, gone, answered, queue, checkpoints,
          sealed, late, prover>>

Idle == [pc |-> "idle", id |-> None, prev |-> <<>>, gates |-> "no"]

\* In log_decision with entry i; gates: /authorize answers when it returns.
Logging(i, gates) == [pc |-> "logging", id |-> i, prev |-> <<>>, gates |-> gates]

NoProof == [pc |-> "idle", id |-> None, rowid |-> 0, batch |-> 0, result |-> "none"]

Init ==
  /\ now = 0
  /\ built = [i \in Ids |-> -1]
  /\ thread = [t \in Writers |-> Idle]
  /\ lock = None
  /\ log = {}
  /\ gone = {}
  /\ answered = {}
  /\ queue = <<>>
  /\ checkpoints = <<>>
  /\ sealed = {}
  /\ late = {}
  /\ prover = NoProof

Tables == <<log, gone, checkpoints, sealed, late>>

-------------------------------------------------------------------------------
(* Rows.                                                                   *)

Before(r, s) == r.rowid < s.rowid
Below(S, n) == {r \in S : r.rowid < n}
LastRow(S) == CHOOSE r \in S : \A s \in S : s.rowid <= r.rowid

\* Mutant: the predecessor is the row with the latest timestamp.
LastEntryHashByTime(S) ==
  IF S = {} THEN <<>>
  ELSE (CHOOSE r \in S : \A s \in S : built[s.id] <= built[r.id]).hash

\* _get_last_entry_hash: ORDER BY rowid DESC LIMIT 1, else "genesis".
LastEntryHash(S) == IF S = {} THEN <<>> ELSE LastRow(S).hash

\* SQLite gives a row without an explicit rowid the largest one in use plus one.
NextRowid(S) == IF S = {} THEN 1 ELSE LastRow(S).rowid + 1

\* verify_chain: rows in rowid order, starting from "genesis".
VerifyChain ==
  \A r \in log : r.hash = Append(LastEntryHash(Below(log, r.rowid)), r.id)

InRowidOrder(S) ==
  CHOOSE s \in [1 .. Cardinality(S) -> S] :
    \A i, j \in 1 .. Cardinality(S) : i < j => s[i].rowid < s[j].rowid

LeafHashes(S) == LET s == InRowidOrder(S)
                 IN  [i \in 1 .. Cardinality(S) |-> LeafHash(s[i].id)]

-------------------------------------------------------------------------------
(* Decisions come in.                                                      *)

Build(i) ==
  /\ built[i] = -1
  /\ built' = [built EXCEPT ![i] = now]

\* Mutant: /authorize queues its entry and answers.
DecideQueued(t, i) ==
  /\ thread[t].pc = "idle"
  /\ Build(i)
  /\ Len(queue) < QueueSize
  /\ queue' = Append(queue, i)
  /\ answered' = answered \union {i}
  /\ UNCHANGED <<now, thread, lock, Tables, prover>>

\* /authorize: the decision is built, then log_decision is called.
Decide(t, i) ==
  /\ thread[t].pc = "idle"
  /\ Build(i)
  /\ thread' = [thread EXCEPT ![t] = Logging(i, "yes")]
  /\ UNCHANGED <<now, lock, answered, queue, Tables, prover>>

\* Mutant: put_nowait on an unbounded queue.
LogQueuedUnbounded(t, i) ==
  /\ thread[t].pc = "idle"
  /\ Build(i)
  /\ queue' = Append(queue, i)
  /\ UNCHANGED <<now, thread, lock, answered, Tables, prover>>

\* log_decision_queued: enqueue, or write synchronously when the queue is full.
LogQueued(t, i) ==
  /\ thread[t].pc = "idle"
  /\ Build(i)
  /\ IF Len(queue) < QueueSize
     THEN /\ queue' = Append(queue, i)
          /\ UNCHANGED thread
     ELSE /\ thread' = [thread EXCEPT ![t] = Logging(i, "no")]
          /\ UNCHANGED queue
  /\ UNCHANGED <<now, lock, answered, Tables, prover>>

\* _audit_writer_loop: _audit_queue.get().
WriterTakes ==
  /\ thread[Writer].pc = "idle"
  /\ queue # <<>>
  /\ thread' = [thread EXCEPT ![Writer] = Logging(Head(queue), "no")]
  /\ queue' = Tail(queue)
  /\ UNCHANGED <<now, built, lock, answered, Tables, prover>>

-------------------------------------------------------------------------------
(* log_decision.                                                           *)

\* Mutant: the last hash is read before the write lock is taken.
BeginLogUnlocked(t) ==
  /\ thread[t].pc = "logging"
  /\ thread' = [thread EXCEPT ![t].pc = "locked", ![t].prev = LastEntryHash(log)]
  /\ UNCHANGED <<now, built, lock, answered, queue, Tables, prover>>

\* BEGIN IMMEDIATE, then the hash of the last entry.
BeginLog(t) ==
  /\ thread[t].pc = "logging"
  /\ lock = None
  /\ lock' = t
  /\ thread' = [thread EXCEPT ![t].pc = "locked", ![t].prev = LastEntryHash(log)]
  /\ UNCHANGED <<now, built, answered, queue, Tables, prover>>

\* The last rowid a checkpoint covers; 0: nothing is sealed.
SealedUpTo == IF checkpoints = <<>> THEN 0 ELSE checkpoints[Len(checkpoints)].to

\* INSERT and COMMIT; /authorize returns the decision.
CommitLog(t) ==
  /\ thread[t].pc = "locked"
  /\ log' = log \union {[rowid |-> NextRowid(log), id |-> thread[t].id,
                         hash |-> Append(thread[t].prev, thread[t].id)]}
  /\ late' = IF NextRowid(log) <= SealedUpTo THEN late \union {thread[t].id} ELSE late
  /\ answered' = IF thread[t].gates = "yes" THEN answered \union {thread[t].id} ELSE answered
  /\ lock' = None
  /\ thread' = [thread EXCEPT ![t] = Idle]
  /\ UNCHANGED <<now, built, gone, queue, checkpoints, sealed, prover>>

\* Mutant: the background thread ends when a write fails.
LockTimeoutKills(t) ==
  /\ thread[t].pc = "logging"
  /\ lock # None
  /\ thread' = [thread EXCEPT ![t] = IF t = Writer THEN [Idle EXCEPT !.pc = "dead"] ELSE Idle]
  /\ UNCHANGED <<now, built, lock, answered, queue, Tables, prover>>

\* "database is locked" after five seconds: /authorize fails with a 500, the
\* background thread reports the error and goes on to the next entry.
LockTimeout(t) ==
  /\ thread[t].pc = "logging"
  /\ lock # None
  /\ thread' = [thread EXCEPT ![t] = Idle]
  /\ UNCHANGED <<now, built, lock, answered, queue, Tables, prover>>

\* cleanup_old_audit_log: DELETE ... WHERE timestamp < cutoff.
Prune ==
  /\ lock = None
  /\ \E r \in log : built[r.id] < now - Retention
  /\ log' = {r \in log : built[r.id] >= now - Retention}
  /\ gone' = gone \union {r.id : r \in log \ log'}
  /\ UNCHANGED <<now, built, thread, lock, answered, queue, checkpoints, sealed, late, prover>>

-------------------------------------------------------------------------------
(* Merkle checkpoints.                                                     *)

\* Mutant: the row after the last sealed one is skipped.
PendingSkipping ==
  {r \in log : checkpoints # <<>> => r.rowid > checkpoints[Len(checkpoints)].to + 1}

\* _merkle_pending: rows above the last sealed rowid.
Pending ==
  {r \in log : checkpoints # <<>> => r.rowid > checkpoints[Len(checkpoints)].to}

\* pending[:MERKLE_BATCH_SIZE]
Batch(S) == {r \in S : Cardinality(Below(S, r.rowid)) < BatchSize}

\* seal_merkle_batch: a full batch, or with force whatever is pending.
Seal(force) ==
  /\ lock = None
  /\ LET batch == Batch(Pending) IN
     /\ batch # {}
     /\ ~ force => Cardinality(batch) = BatchSize
     /\ checkpoints' = Append(checkpoints,
          [from |-> (CHOOSE r \in batch : \A s \in batch : r.rowid <= s.rowid).rowid,
           to   |-> LastRow(batch).rowid,
           root |-> MerkleRoot(LeafHashes(batch))])
     /\ sealed' = sealed \union {r.id : r \in batch}
  /\ UNCHANGED <<now, built, thread, lock, log, gone, late, answered, queue, prover>>

Covering(n) ==
  {b \in 1 .. Len(checkpoints) : checkpoints[b].from <= n /\ n <= checkpoints[b].to}

\* Mutant: the end of the range is left out.
RangeRowsOpen(c) == {r \in log : c.from <= r.rowid /\ r.rowid < c.to}

RangeRows(c) == {r \in log : c.from <= r.rowid /\ r.rowid <= c.to}

\* get_merkle_proof, first read: the entry.
ProofFindsEntry(i) ==
  /\ prover.pc \in {"idle", "done"}
  /\ \E r \in log : r.id = i /\ prover' = [NoProof EXCEPT !.pc = "found", !.id = i, !.rowid = r.rowid]
  /\ UNCHANGED <<now, built, thread, lock, answered, queue, Tables>>

\* Second read: a checkpoint whose range holds the rowid; none: not sealed yet.
ProofFindsBatch ==
  /\ prover.pc = "found"
  /\ IF Covering(prover.rowid) = {}
     THEN prover' = [prover EXCEPT !.pc = "done"]
     ELSE \E b \in Covering(prover.rowid) :
            prover' = [prover EXCEPT !.pc = "batched", !.batch = b]
  /\ UNCHANGED <<now, built, thread, lock, answered, queue, Tables>>

\* Third read: the rows of the range, and the proof computed from them.
ProofAnswers ==
  /\ prover.pc = "batched"
  /\ LET c       == checkpoints[prover.batch]
         entries == InRowidOrder(RangeRows(c))
         at      == {k \in DOMAIN entries : entries[k].rowid = prover.rowid}
         leaves  == [k \in DOMAIN entries |-> LeafHash(entries[k].id)]
     IN  prover' = [prover EXCEPT !.pc = "done", !.result =
           IF at = {} THEN "error"
           ELSE IF VerifyProof(LeafHash(prover.id),
                               MerkleProof(leaves, CHOOSE k \in at : TRUE), c.root)
                THEN "valid" ELSE "invalid"]
  /\ UNCHANGED <<now, built, thread, lock, answered, queue, Tables>>

-------------------------------------------------------------------------------
\* The process dies and starts again: what was committed is on disk, an open
\* transaction is rolled back, the queue and every request are gone.
Crash ==
  /\ \/ queue # <<>>
     \/ \E t \in Writers : thread[t].pc # "idle"
  /\ thread' = [t \in Writers |-> Idle]
  /\ lock' = None
  /\ queue' = <<>>
  /\ prover' = NoProof
  /\ UNCHANGED <<now, built, answered, Tables>>

Tick ==
  /\ now < MaxNow
  /\ now' = now + 1
  /\ UNCHANGED <<built, thread, lock, answered, queue, Tables, prover>>

Log(t) == BeginLog(t) \/ CommitLog(t) \/ LockTimeout(t)

Next ==
  \/ \E t \in Threads, i \in Ids : Decide(t, i) \/ LogQueued(t, i)
  \/ WriterTakes
  \/ \E t \in Writers : Log(t)
  \/ Prune
  \/ \E force \in BOOLEAN : Seal(force)
  \/ \E i \in Ids : ProofFindsEntry(i)
  \/ ProofFindsBatch
  \/ ProofAnswers
  \/ Crash
  \/ Tick

Spec == Init /\ [][Next]_vars

\* The background thread runs whenever it can, and every thread inside
\* log_decision gets the lock or the timeout, then commits.
FairSpec ==
  /\ Spec
  /\ WF_vars(WriterTakes)
  /\ \A t \in Writers : WF_vars(Log(t))

-------------------------------------------------------------------------------
Row == [rowid : Nat \ {0}, id : Ids, hash : Seq(Ids)]

Writing ==
  [pc : {"idle", "logging", "locked"}, id : Ids \union {None},
   prev : Seq(Ids), gates : {"yes", "no"}]

Proving ==
  [pc : {"idle", "found", "batched", "done"}, id : Ids \union {None}, rowid : Nat,
   batch : Nat, result : {"none", "valid", "invalid", "error"}]

TypeOK ==
  /\ now \in Nat
  /\ built \in [Ids -> Nat \union {-1}]
  /\ thread \in [Writers -> Writing]
  /\ lock \in Writers \union {None}
  /\ log \in SUBSET Row
  /\ gone \in SUBSET Ids
  /\ answered \in SUBSET Ids
  /\ queue \in Seq(Ids) /\ Len(queue) <= QueueSize
  /\ \A b \in DOMAIN checkpoints :
       checkpoints[b].from \in Nat \ {0} /\ checkpoints[b].to \in Nat \ {0}
  /\ sealed \in SUBSET Ids
  /\ late \in SUBSET Ids
  /\ prover \in Proving

Extends(h, g) ==
  /\ Len(g) < Len(h)
  /\ \A k \in 1 .. Len(g) : h[k] = g[k]

\* The rows of the log are moments of a single history: a later row's hash
\* covers every earlier row's, whatever threads wrote them and whatever
\* retention removed in between.  A branch would be two rows with one
\* predecessor.
OneHistory ==
  /\ \A r \in log : r.hash # <<>> /\ r.hash[Len(r.hash)] = r.id
  /\ \A r, s \in log : r # s => r.rowid # s.rowid
  /\ \A r, s \in log : Before(r, s) => Extends(s.hash, r.hash)

\* A log nothing was removed from verifies: mixing queued and direct writes,
\* lock timeouts and crashes never make verify_chain report a violation.
IntactVerifies == gone = {} => VerifyChain

\* A decision that left /authorize is in the log, or was there until retention
\* took it: no crash and no timeout loses the record of an answered request.
AnsweredIsRecorded ==
  \A i \in answered : i \in gone \/ \E r \in log : r.id = i

\* The sealer leaves nothing out: a row that is not sealed lies above everything
\* that is - unless retention freed the end of the table and the row was written
\* there, below the last sealed rowid.  Those rows the code never seals.
NoneSkipped ==
  \A r \in log : r.id \in sealed \union late \/ r.rowid > SealedUpTo

\* The checkpoints partition the log up to the last sealed rowid: they do not
\* overlap, a row that was a leaf lies in one range, and no row is skipped.
BatchesPartition ==
  /\ \A r \in log : r.id \in sealed => Cardinality(Covering(r.rowid)) = 1
  /\ NoneSkipped

\* A proof reported valid is of an entry that was sealed, and no proof fails
\* while the log is as it was written - whatever is written or sealed between
\* the three reads.
ProofsSpeakTrue ==
  /\ prover.result = "valid" => prover.id \in sealed
  /\ prover.result \in {"invalid", "error"} => gone # {}

\* A full queue drains: the background thread outlives failed writes.
FullQueueClears ==
  Len(queue) = QueueSize ~> Len(queue) < QueueSize

-------------------------------------------------------------------------------
(* The inductive invariant behind them, but for what TLC cannot evaluate.  *)

\* A thread that is writing has an entry; the one that holds the lock knows the
\* hash of the row that is still the last one.
WritersOK ==
  \A t \in Writers :
    /\ thread[t].pc # "idle" => thread[t].id \in Ids
    /\ thread[t].pc = "locked" => lock = t /\ thread[t].prev = LastEntryHash(log)

IInv == TypeOK /\ WritersOK /\ OneHistory /\ IntactVerifies /\ AnsweredIsRecorded

(* The same for checkpoints and proofs.                                    *)

InQueue(i) == \E k \in DOMAIN queue : queue[k] = i
InThread(t, i) == thread[t].pc # "idle" /\ thread[t].id = i
InFlight(i) == InQueue(i) \/ \E t \in Writers : InThread(t, i)
InLog(i) == \E r \in log : r.id = i

\* An entry waits in one place, once.
OnePlace ==
  /\ \A i \in Ids, t, u \in Writers : InThread(t, i) /\ InThread(u, i) => t = u
  /\ \A j, k \in DOMAIN queue : queue[j] = queue[k] => j = k
  /\ \A i \in Ids, t \in Writers : ~ (InThread(t, i) /\ InQueue(i))

\* It has no row and no checkpoint before it is written, and one row afterwards.
WrittenOnce ==
  /\ \A i \in Ids : built[i] = -1 \/ InFlight(i) => ~ InLog(i) /\ i \notin sealed
  /\ \A i \in Ids : built[i] = -1 => ~ InFlight(i)
  /\ \A r, s \in log : r.id = s.id => r = s

\* Checkpoints cover consecutive ranges of rowids, and a row that was sealed is in
\* one of them.
RangesOK ==
  /\ \A b \in DOMAIN checkpoints : checkpoints[b].from <= checkpoints[b].to
  /\ \A b, c \in DOMAIN checkpoints : b < c => checkpoints[b].to < checkpoints[c].from
  /\ \A r \in log : r.id \in sealed => Covering(r.rowid) # {}

\* A root is that of a batch of sealed entries, of at most the batch size.
SealedRoot(root, S) ==
  \E n \in 1 .. BatchSize : \E s \in [1 .. n -> S] :
    root = MerkleRoot([k \in 1 .. n |-> LeafHash(s[k])])

RootsOK == \A b \in DOMAIN checkpoints : SealedRoot(checkpoints[b].root, sealed)

\* While nothing is deleted a root is that of the rows in its range, and the
\* range ends at a row, so that no later row falls into it.
RangesIntact ==
  gone = {} => \A b \in DOMAIN checkpoints :
    /\ checkpoints[b].root = MerkleRoot(LeafHashes(RangeRows(checkpoints[b])))
    /\ \E r \in log : r.rowid = checkpoints[b].to

\* What a request for a proof has read is still so.
ProverOK ==
  /\ prover.pc # "done" => prover.result = "none"
  /\ prover.pc \in {"found", "batched"} /\ gone = {} =>
       \E r \in log : r.rowid = prover.rowid /\ r.id = prover.id
  /\ prover.pc = "batched" => prover.batch \in Covering(prover.rowid)

SealInv ==
  /\ IsFiniteSet(log)
  /\ OnePlace /\ WrittenOnce
  /\ RangesOK /\ RootsOK /\ RangesIntact /\ NoneSkipped
  /\ ProverOK /\ ProofsSpeakTrue

-------------------------------------------------------------------------------
\* "Return whether the audit log is intact": nobody tampers with the log here,
\* so verification should never report a violation.
UntamperedVerifies == VerifyChain

\* Every row is sealed sooner or later.  The code does not keep it: retention
\* frees rowids at the end of the table, and _merkle_pending never looks below
\* the last sealed one again.
EveryRowIsSealable ==
  \A r \in log : r.id \in sealed \/ r.rowid > SealedUpTo

\* "Returns None if the entry is not found or not yet sealed."
UnsealedHasNoProof ==
  prover.result # "none" => prover.id \in sealed
===============================================================================
