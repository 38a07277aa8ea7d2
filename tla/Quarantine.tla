------------------------------ MODULE Quarantine ------------------------------
(***************************************************************************)
(* Quarantine and trust contagion:                                         *)
(*                                                                         *)
(*   core/detection/quarantine.py  the records in memory, the deny window  *)
(*   core/detection/contagion.py   penalties for delegation neighbours     *)
(*   core/platform/audit.py        the table agent_quarantine              *)
(*   server/main.py                the handlers that tie them together     *)
(*                                                                         *)
(* A handler changes memory at once, then awaits a thread that writes the  *)
(* table, then a broadcast, then touches contagion.  At every await other  *)
(* handlers run.  A restart keeps the table only.                          *)
(***************************************************************************)
EXTENDS Integers, Sequences, FiniteSets

CONSTANTS
  Agents,      \* registered agents
  Parent,      \* delegated_by
  Callers,     \* bound: the agents that call /authorize
  Handlers,    \* requests in progress
  None,        \* no agent
  Base,        \* QUARANTINE_BASE_SECONDS
  Extension,   \* QUARANTINE_EXTENSION_SECONDS
  Ceiling,     \* QUARANTINE_MAX_SECONDS
  Threshold,   \* CONSECUTIVE_DENY_THRESHOLD
  Window,      \* DENY_WINDOW_SECONDS
  MaxNow       \* bound on the clock

ASSUME DurationAssumption ==
  /\ Base \in Nat \ {0} /\ Extension \in Nat /\ Ceiling \in Nat /\ Base <= Ceiling
  /\ Threshold \in Nat \ {0} /\ Window \in Nat /\ MaxNow \in Nat
ASSUME CallersAssumption == Callers \subseteq Agents
ASSUME ParentAssumption == None \notin Agents /\ Parent \in [Agents -> Agents \union {None}]

VARIABLES
  now,         \* time.time()
  store,       \* quarantine._store: expires_at of each agent's record, 0: no record
  denies,      \* quarantine._deny_windows
  disk,        \* agent_quarantine: expires_at of each agent's row, 0: no row
  unsaved,     \* agents whose last save_quarantine raised, unless in overlapped
  contagion,   \* contagion._store: who is penalised because of whom
  handler,     \* what each request does
  overlapped,  \* agents two handlers changed at the same time since the start
  released,    \* agents whose last change was a release that ran to its end, alone
  denied       \* every deny recorded since the window was last cleared

vars == <<now, store, denies, disk, unsaved, contagion, handler, overlapped, released, denied>>

NoRequest == [pc |-> "idle", agent |-> None, until |-> 0, holds |-> "none"]

Init ==
  /\ now = 0
  /\ store = [a \in Agents |-> 0]
  /\ denies = [a \in Agents |-> <<>>]
  /\ disk = [a \in Agents |-> 0]
  /\ contagion = {}
  /\ handler = [h \in Handlers |-> NoRequest]
  /\ unsaved = {}
  /\ overlapped = {}
  /\ released = {}
  /\ denied = [a \in Agents |-> <<>>]

\* get_record: the record is there and time.time() < expires_at.
Active(a) == now < store[a]

Changing == {"saving", "writing", "announcing", "deleting", "clearing"}
Busy(a) == \E h \in Handlers : handler[h].agent = a /\ handler[h].pc \in Changing

\* A second handler starts to change agent a before a first one is done.
Overlap(a) == overlapped' = IF Busy(a) THEN overlapped \union {a} ELSE overlapped

Finish(h) == handler' = [handler EXCEPT ![h] = NoRequest]
Step(h, pc) == handler' = [handler EXCEPT ![h].pc = pc, ![h].until = 0]

\* Handlers that still refer to the record of agent a in the store keep the
\* object when it leaves the store.
Orphaned(a) ==
  [g \in Handlers |->
     IF handler[g].agent = a /\ handler[g].holds = "stored"
     THEN [handler[g] EXCEPT !.holds = "orphan"] ELSE handler[g]]

-------------------------------------------------------------------------------
(* quarantine().                                                           *)

Earlier(s, t) == IF s <= t THEN s ELSE t

\* Mutant: the extension is not capped.
NewExpiryUncapped(a, permanent) ==
  IF Active(a) THEN store[a] + Extension
  ELSE now + IF permanent THEN Ceiling ELSE Base

\* An active record is extended up to the ceiling, whatever permanent says.
NewExpiry(a, permanent) ==
  IF Active(a) THEN Earlier(store[a] + Extension, now + Ceiling)
  ELSE now + IF permanent THEN Ceiling ELSE Base

\* The handler goes on with the record; others that hold the same record see
\* its new expires_at, others that hold a replaced one keep the old object.
PutInQuarantine(h, a, permanent) ==
  LET until == NewExpiry(a, permanent) IN
  /\ store' = [store EXCEPT ![a] = until]
  /\ handler' = [g \in Handlers |->
       IF g = h
       THEN [pc |-> "saving", agent |-> a, until |-> until, holds |-> "stored"]
       ELSE IF handler[g].agent = a /\ handler[g].holds = "stored" /\ Active(a)
       THEN [handler[g] EXCEPT !.until = until]
       ELSE Orphaned(a)[g]]
  /\ released' = released \ {a}
  /\ unsaved' = unsaved \ {a}
  /\ Overlap(a)

\* POST /agents/{id}/quarantine
QuarantineManually(h, a, permanent) ==
  /\ handler[h].pc = "idle"
  /\ PutInQuarantine(h, a, permanent)
  /\ UNCHANGED <<now, denies, disk, contagion, denied>>

-------------------------------------------------------------------------------
(* /authorize.                                                             *)

\* The quarantine check; a quarantined agent is answered DENY at once.
Admit(h, a) ==
  /\ handler[h].pc = "idle"
  /\ ~ Active(a)
  /\ handler' = [handler EXCEPT ![h] = [NoRequest EXCEPT !.pc = "scoring", !.agent = a]]
  /\ UNCHANGED <<now, store, denies, disk, unsaved, contagion, overlapped, released, denied>>

\* An exit that counts no deny: PERMIT, ESCALATE, PENDING, and the DENYs that
\* return before record_deny (a policy's, an injection's, a failed check's).
Allow(h) ==
  /\ handler[h].pc = "scoring"
  /\ Finish(h)
  /\ UNCHANGED <<now, store, denies, disk, unsaved, contagion, overlapped, released, denied>>

\* DENY with a hard flag.
DenyHard(h) ==
  /\ handler[h].pc = "scoring"
  /\ PutInQuarantine(h, handler[h].agent, FALSE)
  /\ UNCHANGED <<now, denies, disk, contagion, denied>>

\* Mutant: a deny as old as the window is evicted already.
OldOffByOne(t) == now - t >= Window

Old(t) == now - t > Window

\* record_deny evicts from the left, up to the first deny that is not old; the
\* deny it has just appended never is.
Recent(times) ==
  LET first == CHOOSE i \in DOMAIN times :
                 ~ Old(times[i]) /\ \A j \in 1 .. i - 1 : Old(times[j])
  IN  SubSeq(times, first, Len(times))

\* Mutant: the window is kept when the threshold is crossed.
AfterDenyKept(times) == times

\* The window is cleared when the threshold is crossed: a fresh slate.
AfterDeny(times) == IF Len(times) >= Threshold THEN <<>> ELSE times

\* DENY without one: record_deny, and quarantine when the threshold is crossed.
DenySoft(h) ==
  /\ handler[h].pc = "scoring"
  /\ LET a     == handler[h].agent
         times == Recent(Append(denies[a], now))
     IN  /\ denies' = [denies EXCEPT ![a] = AfterDeny(times)]
         /\ IF Len(times) >= Threshold
            THEN /\ denied' = [denied EXCEPT ![a] = <<>>]
                 /\ PutInQuarantine(h, a, FALSE)
            ELSE /\ denied' = [denied EXCEPT ![a] = Append(@, now)]
                 /\ Finish(h)
                 /\ UNCHANGED <<store, unsaved, overlapped, released>>
  /\ UNCHANGED <<now, disk, contagion>>

-------------------------------------------------------------------------------
(* What follows a quarantine.                                              *)

\* save_quarantine in its thread: to_dict copies the record as it is now.
SaveReads(h) ==
  /\ handler[h].pc = "saving"
  /\ handler' = [handler EXCEPT ![h].pc = "writing", ![h].holds = "none"]
  /\ UNCHANGED <<now, store, denies, disk, unsaved, contagion, overlapped, released, denied>>

\* Mutant: only a new record is saved, not an extended one.
SaveWritesNewOnly(h) ==
  /\ handler[h].pc = "writing"
  /\ disk' = [disk EXCEPT ![handler[h].agent] =
                IF @ > now THEN @ ELSE handler[h].until]
  /\ Step(h, "announcing")
  /\ UNCHANGED <<now, store, denies, unsaved, contagion, overlapped, released, denied>>

\* INSERT OR REPLACE
SaveWrites(h) ==
  /\ handler[h].pc = "writing"
  /\ disk' = [disk EXCEPT ![handler[h].agent] = handler[h].until]
  /\ Step(h, "announcing")
  /\ UNCHANGED <<now, store, denies, unsaved, contagion, overlapped, released, denied>>

\* "database is locked": the request ends with a 500.  The record stays in memory
\* and is enforced; the row, if there is one, is the one of an earlier save.
SaveFails(h) ==
  /\ handler[h].pc = "writing"
  /\ unsaved' = unsaved \union ({handler[h].agent} \ overlapped)
  /\ Finish(h)
  /\ UNCHANGED <<now, store, denies, disk, contagion, overlapped, released, denied>>

Neighbours(a) == ({Parent[a]} \ {None}) \union {c \in Agents : Parent[c] = a}

\* propagate_quarantine, after the broadcast: one record per target and source.
Propagate(h) ==
  /\ handler[h].pc = "announcing"
  /\ contagion' = contagion \union
       {[target |-> t, source |-> handler[h].agent] : t \in Neighbours(handler[h].agent)}
  /\ Finish(h)
  /\ UNCHANGED <<now, store, denies, disk, unsaved, overlapped, released, denied>>

\* ConnectionManager.broadcast removes a dead connection that another broadcast
\* has removed already: ValueError, and the handler ends with a 500.
BroadcastRaises(h) ==
  /\ handler[h].pc = "announcing"
  /\ Finish(h)
  /\ UNCHANGED <<now, store, denies, disk, unsaved, contagion, overlapped, released, denied>>

-------------------------------------------------------------------------------
(* Release.                                                                *)

\* release(): the record, expired or not, and the deny window are dropped; with
\* no record the answer is 404, and the window is gone all the same.
Release(h, a) ==
  /\ handler[h].pc = "idle"
  /\ store' = [store EXCEPT ![a] = 0]
  /\ denies' = [denies EXCEPT ![a] = <<>>]
  /\ denied' = [denied EXCEPT ![a] = <<>>]
  /\ IF store[a] = 0
     THEN UNCHANGED <<handler, unsaved, overlapped>>
     ELSE /\ handler' = [Orphaned(a) EXCEPT ![h] =
                           [NoRequest EXCEPT !.pc = "deleting", !.agent = a]]
          /\ unsaved' = unsaved \ {a}
          /\ Overlap(a)
  /\ UNCHANGED <<now, disk, contagion, released>>

\* Mutant: the row is kept.
DeleteRowForgotten(h) ==
  /\ handler[h].pc = "deleting"
  /\ Step(h, "clearing")
  /\ UNCHANGED <<now, store, denies, disk, unsaved, contagion, overlapped, released, denied>>

\* delete_quarantine in its thread.
DeleteRow(h) ==
  /\ handler[h].pc = "deleting"
  /\ disk' = [disk EXCEPT ![handler[h].agent] = 0]
  /\ Step(h, "clearing")
  /\ UNCHANGED <<now, store, denies, unsaved, contagion, overlapped, released, denied>>

\* The table is locked: a 500.  The record has left memory, the row stays, and the
\* penalties the agent caused are not cleared.
DeleteFails(h) ==
  /\ handler[h].pc = "deleting"
  /\ Finish(h)
  /\ UNCHANGED <<now, store, denies, disk, unsaved, contagion, overlapped, released, denied>>

\* clear_contagion drops what the agent caused, and what it received.
Cleared(a) == {p \in contagion : p.source # a /\ p.target # a}

ClearAfterRelease(h) ==
  /\ handler[h].pc = "clearing"
  /\ contagion' = Cleared(handler[h].agent)
  /\ released' = IF Active(handler[h].agent) THEN released
                 ELSE released \union ({handler[h].agent} \ overlapped)
  /\ Finish(h)
  /\ UNCHANGED <<now, store, denies, disk, unsaved, overlapped, denied>>

\* POST /agents/{id}/contagion/clear
ClearManually(a) ==
  /\ contagion' = Cleared(a)
  /\ UNCHANGED <<now, store, denies, disk, unsaved, handler, overlapped, released, denied>>

-------------------------------------------------------------------------------
(* The background.                                                         *)

\* A penalty is past its TTL.  Nothing here depends on when: it may be any time
\* after it was given.
PenaltyExpires ==
  /\ \E p \in contagion : contagion' = contagion \ {p}
  /\ UNCHANGED <<now, store, denies, disk, unsaved, handler, overlapped, released, denied>>

\* get_all drops the records that have expired.
EvictExpired ==
  /\ \E a \in Agents : store[a] # 0 /\ ~ Active(a)
  /\ store' = [a \in Agents |-> IF Active(a) THEN store[a] ELSE 0]
  /\ handler' = [g \in Handlers |->
       IF handler[g].holds = "stored" /\ ~ Active(handler[g].agent)
       THEN [handler[g] EXCEPT !.holds = "orphan"] ELSE handler[g]]
  /\ UNCHANGED <<now, denies, disk, unsaved, contagion, overlapped, released, denied>>

LiveRows == [a \in Agents |-> IF disk[a] > now THEN disk[a] ELSE 0]

\* cleanup_expired_quarantines, hourly and at the start.
CleanupRows ==
  /\ disk # LiveRows
  /\ disk' = LiveRows
  /\ UNCHANGED <<now, store, denies, unsaved, contagion, handler, overlapped, released, denied>>

\* The process dies and starts again: load_from_persistence.
Restart ==
  /\ disk' = LiveRows
  /\ store' = LiveRows
  /\ denies' = [a \in Agents |-> <<>>]
  /\ denied' = [a \in Agents |-> <<>>]
  /\ contagion' = {}
  /\ handler' = [h \in Handlers |-> NoRequest]
  /\ overlapped' = {}
  /\ unsaved' = {}
  /\ released' = {a \in released : LiveRows[a] = 0}
  /\ UNCHANGED now

Tick ==
  /\ now < MaxNow
  /\ now' = now + 1
  /\ UNCHANGED <<store, denies, disk, unsaved, contagion, handler, overlapped, released, denied>>

Authorize(h) ==
  \/ \E a \in Callers : Admit(h, a)
  \/ Allow(h)
  \/ DenyHard(h)
  \/ DenySoft(h)

Follow(h) ==
  \/ SaveReads(h) \/ SaveWrites(h) \/ SaveFails(h)
  \/ Propagate(h) \/ BroadcastRaises(h)

Admin(h) ==
  \/ \E a \in Agents, permanent \in BOOLEAN : QuarantineManually(h, a, permanent)
  \/ \E a \in Agents : Release(h, a)
  \/ DeleteRow(h) \/ DeleteFails(h)
  \/ ClearAfterRelease(h)

Next ==
  \/ \E h \in Handlers : Authorize(h) \/ Follow(h) \/ Admin(h)
  \/ \E a \in Agents : ClearManually(a)
  \/ PenaltyExpires
  \/ EvictExpired
  \/ CleanupRows
  \/ Restart
  \/ Tick

Spec == Init /\ [][Next]_vars

-------------------------------------------------------------------------------
Request ==
  [pc : {"idle", "scoring"} \union Changing, agent : Agents \union {None},
   until : Nat, holds : {"none", "stored", "orphan"}]

TypeOK ==
  /\ now \in Nat
  /\ store \in [Agents -> Nat]
  /\ denies \in [Agents -> Seq(Nat)] /\ \A a \in Agents : Len(denies[a]) < Threshold
  /\ disk \in [Agents -> Nat]
  /\ contagion \in SUBSET [target : Agents, source : Agents]
  /\ handler \in [Handlers -> Request]
  /\ unsaved \in SUBSET Agents
  /\ overlapped \in SUBSET Agents
  /\ released \in SUBSET Agents
  /\ denied \in [Agents -> Seq(Nat)]

\* No sequence of violations, extensions, saves and restarts quarantines an
\* agent for longer than the ceiling from now, in memory or on disk.
CeilingHolds ==
  /\ \A a \in Agents : store[a] <= now + Ceiling /\ disk[a] <= now + Ceiling
  /\ \A h \in Handlers : handler[h].until <= now + Ceiling

\* An active quarantine ends early only by a release.  A restart keeps it whole
\* when the handlers of the agent are done, did not run into each other, and the
\* last save did not raise: a save that raised was answered 500, the agent stays
\* denied by this process, and the next one does not know of it.
QuarantineHolds ==
  [][\A a \in Agents : Active(a) /\ store'[a] < store[a] =>
       \/ \E h \in Handlers : Release(h, a)
       \/ Busy(a) \/ a \in overlapped \/ a \in unsaved]_vars

\* A release that ran to its end, and ran into no other handler, leaves no row
\* for a restart to bring back, no record and no penalty.
ReleaseHolds ==
  \A a \in released \ overlapped : ~ Busy(a) =>
    /\ store[a] = 0 /\ disk[a] = 0
    /\ \A p \in contagion : p.source # a

SpreadOut(times) ==
  \A i \in DOMAIN times : i + Threshold - 1 \in DOMAIN times =>
    times[i + Threshold - 1] - times[i] > Window

\* The incremental deny window agrees with the definition of the soft trigger:
\* Threshold denies within Window never go by without one.  It counts the denies
\* that reach record_deny, since the last restart.
NoMissedTrigger ==
  \A a \in Agents : SpreadOut(denied[a])

-------------------------------------------------------------------------------
(* The inductive invariant behind them.                                    *)

WorkHasAgent == \A h \in Handlers : handler[h].pc # "idle" => handler[h].agent \in Agents

\* As long as no two handlers changed the agent at the same time: a quarantine
\* is on disk, or its handler is about to write it there, or was told it could not.
SavedOrSaving ==
  \A a \in Agents \ overlapped :
    /\ \A g, h \in Handlers :
         handler[g].agent = a /\ handler[h].agent = a
         /\ handler[g].pc \in Changing /\ handler[h].pc \in Changing => g = h
    /\ \A h \in Handlers : handler[h].agent = a =>
         /\ handler[h].pc \in {"saving", "writing"} /\ Active(a) => handler[h].until = store[a]
         /\ handler[h].pc \in {"deleting", "clearing"} => store[a] = 0
         /\ handler[h].pc = "clearing" => disk[a] = 0
    /\ \/ Active(a) => disk[a] = store[a]
       \/ a \in unsaved
       \/ \E h \in Handlers : handler[h].agent = a /\ handler[h].pc \in {"saving", "writing"}

\* A released agent stays alone until it is quarantined again.
ReleasedIsClean ==
  \A a \in released \ overlapped :
    /\ ~ Busy(a) /\ store[a] = 0 /\ disk[a] = 0
    /\ \A p \in contagion : p.source # a

\* The window is the end of the list of denies; the rest is old.
RecentEnd(window, all) ==
  \E k \in 0 .. Len(all) :
    /\ Len(window) = Len(all) - k
    /\ \A j \in 1 .. Len(window) : window[j] = all[k + j]
    /\ \A j \in 1 .. k : Old(all[j])

WindowIsSuffix == \A a \in Agents : RecentEnd(denies[a], denied[a])

Held == WorkHasAgent /\ CeilingHolds /\ SavedOrSaving /\ ReleasedIsClean
Counted == WindowIsSuffix /\ NoMissedTrigger

IInv == TypeOK /\ Held /\ Counted

-------------------------------------------------------------------------------
\* "Restore active quarantines from SQLite on startup": once every handler is
\* done, an active quarantine is in the table.  The code does not keep it, after
\* two handlers that overlapped and after a save that raised.
ActiveIsOnDisk ==
  \A a \in Agents : Active(a) /\ ~ Busy(a) => now < disk[a]
===============================================================================
