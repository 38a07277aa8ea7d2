--------------------------- MODULE Quarantine_proofs ---------------------------
(***************************************************************************)
(* Proofs about Quarantine, for every set of agents, every delegation      *)
(* forest, any number of requests and all durations.                       *)
(***************************************************************************)
EXTENDS Quarantine, SequenceTheorems, WellFoundedInduction, TLAPS

-------------------------------------------------------------------------------
(* Records of requests.                                                    *)

LEMMA NoRequestIsTyped ==
  /\ NoRequest \in Request /\ NoRequest.pc = "idle"
  /\ NoRequest.agent = None /\ NoRequest.until = 0
BY DEF NoRequest, Request, Changing

\* A request in phase pc on agent a.
LEMMA RequestIsTyped ==
  ASSUME NEW pc \in {"idle", "scoring"} \union Changing, NEW a \in Agents
  PROVE  /\ [NoRequest EXCEPT !.pc = pc, !.agent = a] \in Request
         /\ [NoRequest EXCEPT !.pc = pc, !.agent = a].pc = pc
         /\ [NoRequest EXCEPT !.pc = pc, !.agent = a].agent = a
         /\ [NoRequest EXCEPT !.pc = pc, !.agent = a].until = 0
BY DEF NoRequest, Request

LEMMA StepIsTyped ==
  ASSUME NEW r \in Request, NEW pc \in Changing
  PROVE  \E w \in Request : /\ w = [r EXCEPT !.pc = pc, !.until = 0]
                            /\ w.pc = pc /\ w.until = 0 /\ w.agent = r.agent
<1>1. [r EXCEPT !.pc = pc] \in Request
  BY DEF Request
<1>2. PICK v \in Request : v = [r EXCEPT !.pc = pc]
  BY <1>1
<1>3. v.pc = pc /\ v.agent = r.agent
  BY <1>2 DEF Request
<1>4. [v EXCEPT !.until = 0] \in Request
  BY DEF Request
<1>5. PICK w \in Request : w = [v EXCEPT !.until = 0]
  BY <1>4
<1>6. w.until = 0 /\ w.pc = v.pc /\ w.agent = v.agent
  BY <1>5 DEF Request
<1>7. w = [r EXCEPT !.pc = pc, !.until = 0]
  BY <1>2, <1>5
<1>8. QED BY <1>3, <1>6, <1>7

LEMMA WritingIsTyped ==
  ASSUME NEW r \in Request
  PROVE  \E w \in Request : /\ w = [r EXCEPT !.pc = "writing", !.holds = "none"]
                            /\ w.pc = "writing" /\ w.until = r.until /\ w.agent = r.agent
<1>1. [r EXCEPT !.pc = "writing"] \in Request
  BY DEF Request, Changing
<1>2. PICK v \in Request : v = [r EXCEPT !.pc = "writing"]
  BY <1>1
<1>3. v.pc = "writing" /\ v.agent = r.agent /\ v.until = r.until
  BY <1>2 DEF Request
<1>4. [v EXCEPT !.holds = "none"] \in Request
  BY DEF Request
<1>5. PICK w \in Request : w = [v EXCEPT !.holds = "none"]
  BY <1>4
<1>6. w.until = v.until /\ w.pc = v.pc /\ w.agent = v.agent
  BY <1>5 DEF Request
<1>7. w = [r EXCEPT !.pc = "writing", !.holds = "none"]
  BY <1>2, <1>5
<1>8. QED BY <1>3, <1>6, <1>7

\* What one request does leaves the others as they are.
LEMMA OthersStay ==
  ASSUME handler \in [Handlers -> Request], NEW h \in Handlers, NEW w \in Request,
         handler' = [handler EXCEPT ![h] = w]
  PROVE  /\ handler' \in [Handlers -> Request] /\ handler'[h] = w
         /\ \A g \in Handlers : g # h => handler'[g] = handler[g]
OBVIOUS

LEMMA OrphanIsTyped ==
  ASSUME NEW r \in Request
  PROVE  /\ [r EXCEPT !.holds = "orphan"] \in Request
         /\ [r EXCEPT !.holds = "orphan"].pc = r.pc
         /\ [r EXCEPT !.holds = "orphan"].agent = r.agent
         /\ [r EXCEPT !.holds = "orphan"].until = r.until
BY DEF Request

LEMMA UntilIsTyped ==
  ASSUME NEW r \in Request, NEW u \in Nat
  PROVE  /\ [r EXCEPT !.until = u] \in Request
         /\ [r EXCEPT !.until = u].pc = r.pc
         /\ [r EXCEPT !.until = u].agent = r.agent
         /\ [r EXCEPT !.until = u].until = u
BY DEF Request

-------------------------------------------------------------------------------
(* quarantine().                                                           *)

\* The record changes as a whole: the new expiry is under the ceiling, the
\* request goes on with it, the others keep their phase and their agent.
LEMMA PutFacts ==
  ASSUME TypeOK, CeilingHolds, NEW h \in Handlers, NEW a \in Agents, NEW permanent \in BOOLEAN,
         PutInQuarantine(h, a, permanent)
  PROVE  \E u \in Nat :
           /\ u <= now + Ceiling
           /\ Active(a) => store[a] <= u
           /\ store' = [store EXCEPT ![a] = u]
           /\ handler' \in [Handlers -> Request]
           /\ handler'[h].pc = "saving" /\ handler'[h].agent = a /\ handler'[h].until = u
           /\ \A g \in Handlers : g # h =>
                /\ handler'[g].pc = handler[g].pc /\ handler'[g].agent = handler[g].agent
                /\ \/ handler'[g].until = handler[g].until
                   \/ handler'[g].until = u /\ handler[g].agent = a
<1>1. PICK u : u = NewExpiry(a, permanent)
  OBVIOUS
<1>2. now \in Nat /\ store[a] \in Nat /\ store[a] <= now + Ceiling
  BY DEF TypeOK, CeilingHolds
<1>3. u \in Nat /\ u <= now + Ceiling /\ (Active(a) => store[a] <= u)
  <2>1. now + Ceiling \in Nat /\ store[a] + Extension \in Nat /\ now + Base \in Nat
        /\ now + Base <= now + Ceiling /\ store[a] <= store[a] + Extension
    BY <1>2, DurationAssumption
  <2>2. CASE Active(a)
    <3>1. u = Earlier(store[a] + Extension, now + Ceiling)
      BY <1>1, <2>2 DEF NewExpiry
    <3>2. QED BY <1>2, <2>1, <3>1 DEF Earlier
  <2>3. CASE ~ Active(a)
    <3>1. u = now + Ceiling \/ u = now + Base
      BY <1>1, <2>3 DEF NewExpiry
    <3>2. QED BY <2>1, <2>3, <3>1
  <2>4. QED BY <2>2, <2>3
<1>4. store' = [store EXCEPT ![a] = u]
  BY <1>1 DEF PutInQuarantine
<1>5. PICK w \in Request : /\ w = [pc |-> "saving", agent |-> a, until |-> u, holds |-> "stored"]
                           /\ w.pc = "saving" /\ w.agent = a /\ w.until = u
  <2>1. [pc |-> "saving", agent |-> a, until |-> u, holds |-> "stored"] \in Request
    BY <1>3 DEF Request, Changing
  <2>2. QED BY <2>1
<1>6. handler' = [g \in Handlers |->
         IF g = h THEN w
         ELSE IF handler[g].agent = a /\ handler[g].holds = "stored" /\ Active(a)
         THEN [handler[g] EXCEPT !.until = u]
         ELSE Orphaned(a)[g]]
  BY <1>1, <1>5 DEF PutInQuarantine
<1>7. handler'[h] = w
  BY <1>6
<1>8. ASSUME NEW g \in Handlers, g # h
      PROVE  /\ handler'[g] \in Request
             /\ handler'[g].pc = handler[g].pc /\ handler'[g].agent = handler[g].agent
             /\ \/ handler'[g].until = handler[g].until
                \/ handler'[g].until = u /\ handler[g].agent = a
  <2>1. handler[g] \in Request
    BY DEF TypeOK
  <2>2. Orphaned(a)[g] = handler[g] \/ Orphaned(a)[g] = [handler[g] EXCEPT !.holds = "orphan"]
    BY DEF Orphaned
  <2>3. \/ handler'[g] = handler[g]
        \/ handler'[g] = [handler[g] EXCEPT !.holds = "orphan"]
        \/ handler'[g] = [handler[g] EXCEPT !.until = u] /\ handler[g].agent = a
    BY <1>6, <1>8, <2>2
  <2>4. CASE handler'[g] = handler[g]
    BY <2>1, <2>4
  <2>5. CASE handler'[g] = [handler[g] EXCEPT !.holds = "orphan"]
    BY <2>1, <2>5, OrphanIsTyped
  <2>6. CASE handler'[g] = [handler[g] EXCEPT !.until = u] /\ handler[g].agent = a
    <3>1. /\ [handler[g] EXCEPT !.until = u] \in Request
          /\ [handler[g] EXCEPT !.until = u].pc = handler[g].pc
          /\ [handler[g] EXCEPT !.until = u].agent = handler[g].agent
          /\ [handler[g] EXCEPT !.until = u].until = u
      BY <1>3, <2>1, UntilIsTyped
    <3>2. QED BY <2>6, <3>1, Zenon
  <2>7. QED BY <2>3, <2>4, <2>5, <2>6
<1>9. handler' \in [Handlers -> Request]
  BY <1>5, <1>6, <1>7, <1>8
<1>10. QED BY <1>3, <1>4, <1>5, <1>7, <1>8, <1>9

\* What quarantining an agent keeps, whoever does it.
LEMMA PutKeeps ==
  ASSUME TypeOK, Held, NEW h \in Handlers, NEW a \in Agents, NEW permanent \in BOOLEAN,
         handler[h].pc \in {"idle", "scoring"},
         PutInQuarantine(h, a, permanent), UNCHANGED <<now, disk, contagion>>
  PROVE  /\ store' \in [Agents -> Nat] /\ handler' \in [Handlers -> Request]
         /\ unsaved' \in SUBSET Agents
         /\ overlapped' \in SUBSET Agents /\ released' \in SUBSET Agents
         /\ Held'
<1>1. PICK u \in Nat :
        /\ u <= now + Ceiling
        /\ Active(a) => store[a] <= u
        /\ store' = [store EXCEPT ![a] = u]
        /\ handler' \in [Handlers -> Request]
        /\ handler'[h].pc = "saving" /\ handler'[h].agent = a /\ handler'[h].until = u
        /\ \A g \in Handlers : g # h =>
             /\ handler'[g].pc = handler[g].pc /\ handler'[g].agent = handler[g].agent
             /\ \/ handler'[g].until = handler[g].until
                \/ handler'[g].until = u /\ handler[g].agent = a
  <2>1. CeilingHolds
    BY DEF Held
  <2>2. QED BY <2>1, PutFacts
<1>2. now' = now /\ disk' = disk /\ contagion' = contagion /\ released' = released \ {a}
      /\ unsaved' = unsaved \ {a}
  BY DEF PutInQuarantine
<1>3. overlapped' = IF Busy(a) THEN overlapped \union {a} ELSE overlapped
  BY DEF PutInQuarantine, Overlap
<1>4. store'[a] = u /\ \A b \in Agents : b # a => store'[b] = store[b]
  BY <1>1 DEF TypeOK
<1>5. CeilingHolds'
  BY <1>1, <1>2, <1>4 DEF Held, CeilingHolds, TypeOK
<1>6. SavedOrSaving'
  <2>1. SUFFICES ASSUME NEW b \in Agents \ overlapped'
        PROVE  (/\ \A g, k \in Handlers :
                     handler[g].agent = b /\ handler[k].agent = b
                     /\ handler[g].pc \in Changing /\ handler[k].pc \in Changing => g = k
                /\ \A k \in Handlers : handler[k].agent = b =>
                     /\ handler[k].pc \in {"saving", "writing"} /\ Active(b) => handler[k].until = store[b]
                     /\ handler[k].pc \in {"deleting", "clearing"} => store[b] = 0
                     /\ handler[k].pc = "clearing" => disk[b] = 0
                /\ \/ Active(b) => disk[b] = store[b]
                   \/ b \in unsaved
                   \/ \E k \in Handlers : handler[k].agent = b /\ handler[k].pc \in {"saving", "writing"})'
    BY DEF SavedOrSaving
  <2>2. b \notin overlapped
    BY <1>3
  <2>3. CASE b = a
    <3>1. ~ Busy(a)
      BY <1>3, <2>1, <2>3
    <3>2. \A g \in Handlers : g # h => ~ (handler'[g].agent = b /\ handler'[g].pc \in Changing)
      BY <1>1, <2>3, <3>1 DEF Busy
    <3>3. \A g \in Handlers : handler'[g].agent = b /\ handler'[g].pc \in Changing => g = h
      BY <3>2
    <3>4. handler'[h].agent = b /\ handler'[h].pc = "saving" /\ handler'[h].until = store'[b]
      BY <1>1, <1>4, <2>3
    <3>5. {"saving", "writing", "deleting", "clearing"} \subseteq Changing
      BY DEF Changing
    <3>6. QED BY <3>3, <3>4, <3>5
  <2>4. CASE b # a
    <3>1. handler'[h].agent # b /\ store'[b] = store[b]
      BY <1>1, <1>4, <2>4
    <3>2. \A g \in Handlers : handler'[g].agent = b =>
            /\ handler[g].agent = b /\ handler'[g].pc = handler[g].pc
            /\ handler'[g].until = handler[g].until
      BY <1>1, <2>4, <3>1
    <3>3. \A g \in Handlers : g # h /\ handler[g].agent = b =>
            handler'[g].agent = b /\ handler'[g].pc = handler[g].pc
      BY <1>1
    <3>4. handler[h].pc \notin {"saving", "writing"}
      OBVIOUS
    <3>5. Active(b)' = Active(b)
      BY <1>2, <3>1 DEF Active
    <3>6. disk'[b] = disk[b] /\ (b \in unsaved => b \in unsaved')
      BY <1>2, <2>4
    <3>7. QED BY <2>2, <3>1, <3>2, <3>3, <3>4, <3>5, <3>6 DEF Held, SavedOrSaving
  <2>5. QED BY <2>3, <2>4
<1>7. ReleasedIsClean'
  <2>1. \A b \in Agents : b # a /\ ~ Busy(b) => ~ Busy(b)'
    BY <1>1 DEF Busy
  <2>2. released \subseteq Agents
    BY DEF TypeOK
  <2>3. QED BY <1>2, <1>3, <1>4, <2>1, <2>2 DEF Held, ReleasedIsClean
<1>8. /\ store' \in [Agents -> Nat] /\ unsaved' \in SUBSET Agents
      /\ overlapped' \in SUBSET Agents /\ released' \in SUBSET Agents
  BY <1>1, <1>2, <1>3 DEF TypeOK
<1>9. WorkHasAgent'
  BY <1>1 DEF Held, WorkHasAgent
<1>10. QED BY <1>1, <1>5, <1>6, <1>7, <1>8, <1>9 DEF Held

-------------------------------------------------------------------------------
(* The deny window.                                                        *)

\* Evicting from the left stops at the first deny that is not old.
LEMMA RecentKeepsEnd ==
  ASSUME NEW times \in Seq(Nat), times # <<>>, ~ Old(times[Len(times)])
  PROVE  \E f \in 1 .. Len(times) :
           /\ Recent(times) = SubSeq(times, f, Len(times))
           /\ \A j \in 1 .. f - 1 : Old(times[j])
<1> DEFINE T == {i \in 1 .. Len(times) : ~ Old(times[i])}
<1>1. T \subseteq Nat /\ Len(times) \in T
  OBVIOUS
<1>2. PICK m \in T : \A n \in T : ~ (<<n, m>> \in OpToRel(<, Nat))
  <2> HIDE DEF T
  <2>1. QED BY <1>1, NatLessThanWellFounded, WFMin
<1>3. m \in 1 .. Len(times) /\ ~ Old(times[m])
  OBVIOUS
<1>4. \A j \in 1 .. m - 1 : Old(times[j])
  <2>1. SUFFICES ASSUME NEW j \in 1 .. m - 1, ~ Old(times[j]) PROVE FALSE
    OBVIOUS
  <2>2. j \in T /\ j \in Nat /\ m \in Nat /\ j < m
    BY <1>3, <2>1
  <2>3. <<j, m>> \in OpToRel(<, Nat)
    BY <2>2 DEF OpToRel
  <2>4. QED BY <1>2, <2>2, <2>3
<1>5. PICK f \in DOMAIN times :
        /\ f = CHOOSE i \in DOMAIN times :
                 ~ Old(times[i]) /\ \A j \in 1 .. i - 1 : Old(times[j])
        /\ \A j \in 1 .. f - 1 : Old(times[j])
  <2>1. \E i \in DOMAIN times : ~ Old(times[i]) /\ \A j \in 1 .. i - 1 : Old(times[j])
    BY <1>3, <1>4
  <2>2. QED BY <2>1
<1>6. Recent(times) = SubSeq(times, f, Len(times))
  BY <1>5 DEF Recent
<1>7. DOMAIN times = 1 .. Len(times)
  OBVIOUS
<1>8. QED BY <1>5, <1>6, <1>7

LEMMA ShiftedIndex ==
  ASSUME NEW k \in Nat, NEW v \in Nat, NEW j \in 1 .. v + 1
  PROVE  \/ j = v + 1 /\ k + j = (k + v) + 1
         \/ j \in 1 .. v /\ k + j \in 1 .. k + v
OBVIOUS

LEMMA InnerIndex ==
  ASSUME NEW n \in Nat, NEW t \in Nat \ {0}, NEW i \in 1 .. n + 1,
         i + t - 1 \in 1 .. n + 1, i + t - 1 # n + 1
  PROVE  i \in 1 .. n /\ i + t - 1 \in 1 .. n
OBVIOUS

LEMMA AppendMakes ==
  ASSUME NEW s \in Seq(Nat), NEW e \in Nat
  PROVE  \E t \in Seq(Nat) : /\ t = Append(s, e) /\ Len(t) = Len(s) + 1
                             /\ t[Len(s) + 1] = e
                             /\ \A j \in 1 .. Len(s) : t[j] = s[j]
<1>1. Append(s, e) \in Seq(Nat)
  BY AppendProperties
<1>2. PICK t \in Seq(Nat) : t = Append(s, e)
  BY <1>1
<1>3. Len(t) = Len(s) + 1 /\ t[Len(s) + 1] = e /\ \A j \in 1 .. Len(s) : t[j] = s[j]
  BY <1>2, AppendProperties
<1>4. QED BY <1>2, <1>3

\* One more deny that does not cross the threshold: whatever the window lost is
\* old, so the first deny of any Threshold in a row is.
LEMMA WindowGrows ==
  ASSUME NEW window \in Seq(Nat), NEW all \in Seq(Nat), now \in Nat,
         RecentEnd(window, all), SpreadOut(all),
         ~ (Len(Recent(Append(window, now))) >= Threshold)
  PROVE  /\ Recent(Append(window, now)) \in Seq(Nat)
         /\ Len(Recent(Append(window, now))) < Threshold
         /\ RecentEnd(Recent(Append(window, now)), Append(all, now))
         /\ SpreadOut(Append(all, now))
<1>1. PICK k \in 0 .. Len(all) :
        /\ Len(window) = Len(all) - k
        /\ \A j \in 1 .. Len(window) : window[j] = all[k + j]
        /\ \A j \in 1 .. k : Old(all[j])
  BY DEF RecentEnd
<1>2. PICK times \in Seq(Nat) : /\ times = Append(window, now)
                               /\ Len(times) = Len(window) + 1
                               /\ times[Len(window) + 1] = now
                               /\ \A j \in 1 .. Len(window) : times[j] = window[j]
  BY AppendMakes
<1>3. PICK longer \in Seq(Nat) : /\ longer = Append(all, now)
                                /\ Len(longer) = Len(all) + 1
                                /\ longer[Len(all) + 1] = now
                                /\ \A j \in 1 .. Len(all) : longer[j] = all[j]
  BY AppendMakes
<1>4. ~ Old(now)
  BY DurationAssumption DEF Old
<1>5. PICK f \in 1 .. Len(times) :
        /\ Recent(times) = SubSeq(times, f, Len(times))
        /\ \A j \in 1 .. f - 1 : Old(times[j])
  <2>1. Len(window) \in Nat /\ Len(times) # 0
    BY <1>2
  <2>2. times # <<>>
    BY <2>1
  <2>3. ~ Old(times[Len(times)])
    BY <1>2, <1>4
  <2>4. QED BY <2>2, <2>3, RecentKeepsEnd
<1>6. PICK rest \in Seq(Nat) :
        /\ rest = Recent(times)
        /\ Len(rest) = Len(times) - f + 1
        /\ \A j \in 1 .. Len(rest) : rest[j] = times[f + j - 1]
  <2>1. SubSeq(times, f, Len(times)) \in Seq(Nat)
    OBVIOUS
  <2>2. Len(SubSeq(times, f, Len(times))) = Len(times) - f + 1
    OBVIOUS
  <2>3. \A j \in 1 .. Len(times) - f + 1 : SubSeq(times, f, Len(times))[j] = times[f + j - 1]
    OBVIOUS
  <2>4. QED BY <1>5, <2>1, <2>2, <2>3
<1>7. PICK m \in 0 .. Len(longer) : m = k + f - 1
  BY <1>1, <1>2, <1>3
<1>8. \A j \in 1 .. Len(times) : times[j] = longer[k + j]
  <2>1. SUFFICES ASSUME NEW j \in 1 .. Len(times) PROVE times[j] = longer[k + j]
    OBVIOUS
  <2>2. k \in Nat /\ Len(window) \in Nat /\ Len(all) = k + Len(window)
    BY <1>1
  <2>3. \/ j = Len(window) + 1 /\ k + j = Len(all) + 1
        \/ j \in 1 .. Len(window) /\ k + j \in 1 .. Len(all)
    <3>1. j \in 1 .. Len(window) + 1
      BY <1>2
    <3>2. QED BY <2>2, <3>1, ShiftedIndex, Zenon
  <2>4. CASE j = Len(window) + 1 /\ k + j = Len(all) + 1
    BY <1>2, <1>3, <2>4, Zenon
  <2>5. CASE j \in 1 .. Len(window) /\ k + j \in 1 .. Len(all)
    <3>1. times[j] = window[j] /\ window[j] = all[k + j] /\ longer[k + j] = all[k + j]
      BY <1>1, <1>2, <1>3, <2>5
    <3>2. QED BY <3>1
  <2>6. QED BY <2>3, <2>4, <2>5
<1>9. \A j \in 1 .. m : Old(longer[j])
  <2>1. SUFFICES ASSUME NEW j \in 1 .. m PROVE Old(longer[j])
    OBVIOUS
  <2>2. CASE j <= k
    BY <1>1, <1>3, <2>2
  <2>3. CASE j > k
    <3>1. PICK l \in 1 .. f - 1 : j = k + l
      <4>1. j - k \in 1 .. f - 1 /\ j = k + (j - k)
        BY <1>7, <2>3
      <4>2. QED BY <4>1
    <3>2. l \in 1 .. Len(times)
      BY <1>5
    <3>3. longer[j] = times[l]
      BY <1>8, <3>1, <3>2
    <3>4. QED BY <1>5, <3>1, <3>3
  <2>4. QED BY <2>2, <2>3
<1>10. Len(rest) = Len(longer) - m
  BY <1>1, <1>2, <1>3, <1>6, <1>7
<1>11. RecentEnd(rest, longer)
  <2>1. ASSUME NEW j \in 1 .. Len(rest) PROVE rest[j] = longer[m + j]
    <3>1. PICK l \in 1 .. Len(times) : l = f + j - 1
      BY <1>6
    <3>2. k + l = m + j
      BY <1>7, <3>1
    <3>3. QED BY <1>6, <1>8, <3>1, <3>2
  <2>2. QED BY <1>9, <1>10, <2>1 DEF RecentEnd
<1>12. Len(rest) < Threshold
  BY <1>2, <1>6, DurationAssumption
<1>13. SpreadOut(longer)
  <2>1. SUFFICES ASSUME NEW i \in DOMAIN longer, i + Threshold - 1 \in DOMAIN longer
        PROVE  longer[i + Threshold - 1] - longer[i] > Window
    BY DEF SpreadOut
  <2>2. CASE i + Threshold - 1 = Len(longer)
    <3>1. i \in 1 .. m
      BY <1>10, <1>12, <2>2, DurationAssumption
    <3>2. Old(longer[i])
      BY <1>9, <3>1
    <3>3. QED BY <1>3, <2>2, <3>2 DEF Old
  <2>3. CASE i + Threshold - 1 # Len(longer)
    <3>1. PICK n \in Nat : n = Len(all) /\ DOMAIN all = 1 .. n /\ DOMAIN longer = 1 .. n + 1
      BY <1>3
    <3>2. i \in 1 .. Len(all) /\ i + Threshold - 1 \in 1 .. Len(all)
      <4>1. i \in 1 .. n + 1 /\ i + Threshold - 1 \in 1 .. n + 1 /\ i + Threshold - 1 # n + 1
        BY <1>3, <2>1, <2>3, <3>1
      <4>2. i \in 1 .. n /\ i + Threshold - 1 \in 1 .. n
        BY <4>1, InnerIndex, DurationAssumption
      <4>3. QED BY <3>1, <4>2
    <3>3. longer[i] = all[i] /\ longer[i + Threshold - 1] = all[i + Threshold - 1]
      BY <1>3, <3>2
    <3>4. QED BY <3>1, <3>2, <3>3 DEF SpreadOut
  <2>4. QED BY <2>2, <2>3
<1>14. QED BY <1>2, <1>3, <1>6, <1>11, <1>12, <1>13

LEMMA LaterIsOlder ==
  ASSUME NEW n \in Nat, NEW m \in Nat, m = n \/ m = n + 1, NEW w \in Nat
  PROVE  \A t \in Nat : n - t > w => m - t > w
OBVIOUS

\* Denies that are old stay old.
LEMMA CountedStays ==
  ASSUME IInv, now' \in {now, now + 1}, UNCHANGED <<denies, denied>>
  PROVE  Counted'
<1>1. \A t \in Nat : Old(t) => Old(t)'
  <2>1. now \in Nat
    BY DEF IInv, TypeOK
  <2>2. PICK w \in Nat : w = Window
    BY DurationAssumption
  <2>3. PICK n \in Nat, m \in Nat : n = now /\ m = now' /\ (m = n \/ m = n + 1)
    BY <2>1
  <2>4. \A t \in Nat : n - t > w => m - t > w
    BY <2>3, LaterIsOlder
  <2>5. QED BY <2>2, <2>3, <2>4, Zenon DEF Old
<1>2. NoMissedTrigger'
  BY DEF IInv, Counted, NoMissedTrigger, SpreadOut
<1>3. ASSUME NEW a \in Agents PROVE RecentEnd(denies[a], denied[a])'
  <2>1. PICK k \in 0 .. Len(denied[a]) :
          /\ Len(denies[a]) = Len(denied[a]) - k
          /\ \A j \in 1 .. Len(denies[a]) : denies[a][j] = denied[a][k + j]
          /\ \A j \in 1 .. k : Old(denied[a][j])
    BY DEF IInv, Counted, WindowIsSuffix, RecentEnd
  <2>2. \A j \in 1 .. k : denied[a][j] \in Nat
    BY DEF IInv, TypeOK
  <2>3. \A j \in 1 .. k : Old(denied[a][j])'
    BY <1>1, <2>1, <2>2
  <2>4. QED BY <2>1, <2>3 DEF RecentEnd
<1>4. QED BY <1>2, <1>3 DEF Counted, WindowIsSuffix

LEMMA EmptyIsCounted == RecentEnd(<<>>, <<>>) /\ SpreadOut(<<>>)
BY DEF RecentEnd, SpreadOut

\* The window and the list of one agent change together.
LEMMA CountedChanges ==
  ASSUME IInv, NEW a \in Agents, NEW w \in Seq(Nat), NEW d \in Seq(Nat),
         UNCHANGED now,
         denies' = [denies EXCEPT ![a] = w], denied' = [denied EXCEPT ![a] = d],
         RecentEnd(w, d), SpreadOut(d), Len(w) < Threshold
  PROVE  /\ denies' \in [Agents -> Seq(Nat)] /\ denied' \in [Agents -> Seq(Nat)]
         /\ \A b \in Agents : Len(denies'[b]) < Threshold
         /\ Counted'
<1>1. denies \in [Agents -> Seq(Nat)] /\ denied \in [Agents -> Seq(Nat)]
      /\ \A b \in Agents : Len(denies[b]) < Threshold
  BY DEF IInv, TypeOK
<1>2. denies'[a] = w /\ denied'[a] = d
      /\ \A b \in Agents : b # a => denies'[b] = denies[b] /\ denied'[b] = denied[b]
  BY <1>1
<1>3. \A b \in Agents : RecentEnd(denies'[b], denied'[b]) /\ SpreadOut(denied'[b])
  BY <1>2 DEF IInv, Counted, WindowIsSuffix, NoMissedTrigger
<1>4. WindowIsSuffix'
  BY <1>3 DEF WindowIsSuffix, RecentEnd, Old
<1>5. NoMissedTrigger'
  BY <1>3 DEF NoMissedTrigger
<1>6. QED BY <1>1, <1>2, <1>4, <1>5 DEF Counted

-------------------------------------------------------------------------------
(* The actions.                                                            *)

LEMMA QuarantineManuallyKeeps ==
  ASSUME IInv, NEW h \in Handlers, NEW a \in Agents, NEW permanent \in BOOLEAN,
         QuarantineManually(h, a, permanent)
  PROVE  IInv'
<1>1. UNCHANGED <<now, denies, disk, contagion, denied>>
  BY DEF QuarantineManually
<1>2. /\ store' \in [Agents -> Nat] /\ handler' \in [Handlers -> Request]
      /\ unsaved' \in SUBSET Agents /\ overlapped' \in SUBSET Agents
      /\ released' \in SUBSET Agents /\ Held'
  BY <1>1, PutKeeps DEF QuarantineManually, IInv
<1>3. Counted'
  BY <1>1, CountedStays
<1>4. TypeOK'
  BY <1>1, <1>2 DEF IInv, TypeOK
<1>5. QED BY <1>2, <1>3, <1>4 DEF IInv

LEMMA DenyHardKeeps ==
  ASSUME IInv, NEW h \in Handlers, DenyHard(h)
  PROVE  IInv'
<1>1. UNCHANGED <<now, denies, disk, contagion, denied>>
  BY DEF DenyHard
<1>2. PICK a \in Agents : a = handler[h].agent
  BY DEF DenyHard, IInv, Held, WorkHasAgent
<1>3. PutInQuarantine(h, a, FALSE) /\ handler[h].pc \in {"idle", "scoring"}
  BY <1>2 DEF DenyHard
<1>4. /\ store' \in [Agents -> Nat] /\ handler' \in [Handlers -> Request]
      /\ unsaved' \in SUBSET Agents /\ overlapped' \in SUBSET Agents
      /\ released' \in SUBSET Agents /\ Held'
  BY <1>1, <1>3, PutKeeps DEF IInv
<1>5. Counted'
  BY <1>1, CountedStays
<1>6. TypeOK'
  BY <1>1, <1>4 DEF IInv, TypeOK
<1>7. QED BY <1>4, <1>5, <1>6 DEF IInv

\* A request that is not about to write the table may end, or start to score.
LEMMA MovesOut ==
  ASSUME TypeOK, Held, NEW h \in Handlers, NEW w \in Request,
         handler' = [handler EXCEPT ![h] = w],
         w.pc \notin Changing, w.until = 0, w.pc # "idle" => w.agent \in Agents,
         handler[h].pc \notin {"saving", "writing"},
         UNCHANGED <<now, store, disk, unsaved, overlapped>>
  PROVE  /\ handler' \in [Handlers -> Request]
         /\ WorkHasAgent' /\ CeilingHolds' /\ SavedOrSaving'
         /\ \A b \in Agents : Busy(b)' => Busy(b)
<1>1. /\ handler' \in [Handlers -> Request] /\ handler'[h] = w
      /\ \A g \in Handlers : g # h => handler'[g] = handler[g]
  BY OthersStay DEF TypeOK
<1>2. WorkHasAgent'
  BY <1>1 DEF Held, WorkHasAgent
<1>3. CeilingHolds'
  <2>1. now \in Nat
    BY DEF TypeOK
  <2>2. QED BY <1>1, <2>1, DurationAssumption DEF Held, CeilingHolds
<1>4. {"saving", "writing", "deleting", "clearing"} \subseteq Changing
  BY DEF Changing
<1>5. \A g \in Handlers : handler'[g].pc \in Changing => g # h
  BY <1>1
<1>6. SavedOrSaving'
  <2>1. \A b \in Agents : Active(b)' = Active(b)
    BY DEF Active
  <2>2. QED BY <1>1, <1>4, <1>5, <2>1 DEF Held, SavedOrSaving
<1>7. \A b \in Agents : Busy(b)' => Busy(b)
  BY <1>1, <1>5 DEF Busy
<1>8. QED BY <1>1, <1>2, <1>3, <1>6, <1>7

LEMMA AdmitKeeps ==
  ASSUME IInv, NEW h \in Handlers, NEW a \in Agents, Admit(h, a)
  PROVE  IInv'
<1>1. PICK w \in Request : /\ w = [NoRequest EXCEPT !.pc = "scoring", !.agent = a]
                           /\ w.pc = "scoring" /\ w.agent = a /\ w.until = 0
  <2>1. PICK pc \in {"idle", "scoring"} \union Changing : pc = "scoring"
    OBVIOUS
  <2>2. PICK w : w = [NoRequest EXCEPT !.pc = pc, !.agent = a]
    OBVIOUS
  <2>3. w \in Request /\ w.pc = pc /\ w.agent = a /\ w.until = 0
    BY <2>2, RequestIsTyped
  <2>4. QED BY <2>1, <2>2, <2>3
<1>2. UNCHANGED <<now, store, denies, disk, unsaved, contagion, overlapped, released, denied>>
      /\ handler' = [handler EXCEPT ![h] = w]
  BY <1>1 DEF Admit
<1>3. /\ handler' \in [Handlers -> Request]
      /\ WorkHasAgent' /\ CeilingHolds' /\ SavedOrSaving'
      /\ \A b \in Agents : Busy(b)' => Busy(b)
  <2>1. handler[h].pc \notin {"saving", "writing"} /\ w.pc \notin Changing
    BY <1>1 DEF Admit, Changing
  <2>2. QED BY <1>1, <1>2, <2>1, MovesOut DEF IInv
<1>4. TypeOK' /\ Counted'
  BY <1>2, <1>3, CountedStays DEF IInv, TypeOK
<1>5. ReleasedIsClean'
  BY <1>2, <1>3 DEF IInv, TypeOK, Held, ReleasedIsClean
<1>6. QED BY <1>3, <1>4, <1>5 DEF IInv, Held

\* A request ends without a change to the records or the table.
LEMMA FinishKeeps ==
  ASSUME IInv, NEW h \in Handlers, Finish(h),
         handler[h].pc \notin {"saving", "writing"},
         UNCHANGED <<now, store, disk, unsaved, overlapped>>
  PROVE  /\ handler' \in [Handlers -> Request]
         /\ WorkHasAgent' /\ CeilingHolds' /\ SavedOrSaving'
         /\ \A b \in Agents : Busy(b)' => Busy(b)
<1>1. PICK w \in Request : w = NoRequest /\ w.pc = "idle" /\ w.until = 0
  BY NoRequestIsTyped
<1>2. handler' = [handler EXCEPT ![h] = w]
  BY <1>1 DEF Finish
<1>3. w.pc \notin Changing
  BY <1>1 DEF Changing
<1>4. QED BY <1>1, <1>2, <1>3, MovesOut DEF IInv

LEMMA EndsQuietly ==
  ASSUME IInv, NEW h \in Handlers, Allow(h) \/ BroadcastRaises(h) \/ DeleteFails(h)
  PROVE  IInv'
<1>1. UNCHANGED <<now, store, denies, disk, unsaved, contagion, overlapped, released, denied>>
      /\ Finish(h) /\ handler[h].pc \notin {"saving", "writing"}
  BY DEF Allow, BroadcastRaises, DeleteFails
<1>2. /\ handler' \in [Handlers -> Request]
      /\ WorkHasAgent' /\ CeilingHolds' /\ SavedOrSaving'
      /\ \A b \in Agents : Busy(b)' => Busy(b)
  BY <1>1, FinishKeeps
<1>3. TypeOK' /\ Counted'
  BY <1>1, <1>2, CountedStays DEF IInv, TypeOK
<1>4. ReleasedIsClean'
  BY <1>1, <1>2 DEF IInv, TypeOK, Held, ReleasedIsClean
<1>5. QED BY <1>2, <1>3, <1>4 DEF IInv, Held

LEMMA PropagateKeeps ==
  ASSUME IInv, NEW h \in Handlers, Propagate(h)
  PROVE  IInv'
<1>1. UNCHANGED <<now, store, denies, disk, unsaved, overlapped, released, denied>>
      /\ Finish(h) /\ handler[h].pc = "announcing"
  BY DEF Propagate
<1>2. /\ handler' \in [Handlers -> Request]
      /\ WorkHasAgent' /\ CeilingHolds' /\ SavedOrSaving'
      /\ \A b \in Agents : Busy(b)' => Busy(b)
  BY <1>1, FinishKeeps
<1>3. PICK a \in Agents : a = handler[h].agent
  BY <1>1 DEF IInv, Held, WorkHasAgent
<1>4. contagion' = contagion \union {[target |-> t, source |-> a] : t \in Neighbours(a)}
  BY <1>3 DEF Propagate
<1>5. contagion' \in SUBSET [target : Agents, source : Agents]
  <2>1. Neighbours(a) \subseteq Agents
    BY ParentAssumption DEF Neighbours
  <2>2. QED BY <1>4, <2>1 DEF IInv, TypeOK
<1>6. TypeOK' /\ Counted'
  BY <1>1, <1>2, <1>5, CountedStays DEF IInv, TypeOK
<1>7. ReleasedIsClean'
  <2>1. Busy(a)
    BY <1>1, <1>3 DEF Busy, Changing
  <2>2. a \notin released \ overlapped
    BY <2>1 DEF IInv, Held, ReleasedIsClean
  <2>3. \A p \in contagion' : p \in contagion \/ p.source = a
    BY <1>4
  <2>4. released \subseteq Agents
    BY DEF IInv, TypeOK
  <2>5. QED BY <1>1, <1>2, <2>2, <2>3, <2>4 DEF IInv, Held, ReleasedIsClean
<1>8. QED BY <1>2, <1>6, <1>7 DEF IInv, Held

LEMMA DenySoftKeeps ==
  ASSUME IInv, NEW h \in Handlers, DenySoft(h)
  PROVE  IInv'
<1>1. PICK a \in Agents : a = handler[h].agent
  BY DEF DenySoft, IInv, Held, WorkHasAgent
<1>2. PICK window \in Seq(Nat), all \in Seq(Nat) : window = denies[a] /\ all = denied[a]
  BY DEF IInv, TypeOK
<1>3. PICK times : times = Recent(Append(window, now))
  OBVIOUS
<1>4. handler[h].pc = "scoring" /\ UNCHANGED <<now, disk, contagion>>
      /\ denies' = [denies EXCEPT ![a] = AfterDeny(times)]
  BY <1>1, <1>2, <1>3 DEF DenySoft
<1>5. CASE Len(times) >= Threshold
  <2>1. PutInQuarantine(h, a, FALSE) /\ denied' = [denied EXCEPT ![a] = <<>>]
    BY <1>1, <1>2, <1>3, <1>5 DEF DenySoft
  <2>2. denies' = [denies EXCEPT ![a] = <<>>]
    BY <1>4, <1>5 DEF AfterDeny
  <2>3. Len(<<>>) < Threshold /\ <<>> \in Seq(Nat)
    BY DurationAssumption
  <2>4. /\ denies' \in [Agents -> Seq(Nat)] /\ denied' \in [Agents -> Seq(Nat)]
        /\ \A b \in Agents : Len(denies'[b]) < Threshold
        /\ Counted'
    BY <1>4, <2>1, <2>2, <2>3, CountedChanges, EmptyIsCounted
  <2>5. /\ store' \in [Agents -> Nat] /\ handler' \in [Handlers -> Request]
        /\ unsaved' \in SUBSET Agents /\ overlapped' \in SUBSET Agents
        /\ released' \in SUBSET Agents /\ Held'
    BY <1>4, <2>1, PutKeeps DEF IInv
  <2>6. TypeOK'
    BY <1>4, <2>4, <2>5 DEF IInv, TypeOK
  <2>7. QED BY <2>4, <2>5, <2>6 DEF IInv
<1>6. CASE ~ (Len(times) >= Threshold)
  <2>1. Finish(h) /\ UNCHANGED <<store, unsaved, overlapped, released>>
        /\ denied' = [denied EXCEPT ![a] = Append(all, now)]
    BY <1>1, <1>2, <1>3, <1>6 DEF DenySoft
  <2>2. denies' = [denies EXCEPT ![a] = times]
    BY <1>4, <1>6 DEF AfterDeny
  <2>3. now \in Nat /\ RecentEnd(window, all) /\ SpreadOut(all)
    BY <1>2 DEF IInv, TypeOK, Counted, WindowIsSuffix, NoMissedTrigger
  <2>4. ~ (Len(Recent(Append(window, now))) >= Threshold)
    BY <1>3, <1>6
  <2>5. /\ times \in Seq(Nat) /\ RecentEnd(times, Append(all, now))
        /\ SpreadOut(Append(all, now)) /\ Len(times) < Threshold
    BY <1>3, <2>3, <2>4, WindowGrows
  <2>6. Append(all, now) \in Seq(Nat)
    BY <2>3
  <2>7. /\ denies' \in [Agents -> Seq(Nat)] /\ denied' \in [Agents -> Seq(Nat)]
        /\ \A b \in Agents : Len(denies'[b]) < Threshold
        /\ Counted'
    BY <1>4, <2>1, <2>2, <2>5, <2>6, CountedChanges
  <2>8. /\ handler' \in [Handlers -> Request]
        /\ WorkHasAgent' /\ CeilingHolds' /\ SavedOrSaving'
        /\ \A b \in Agents : Busy(b)' => Busy(b)
    BY <1>4, <2>1, FinishKeeps
  <2>9. TypeOK'
    BY <1>4, <2>1, <2>7, <2>8 DEF IInv, TypeOK
  <2>10. ReleasedIsClean'
    BY <1>4, <2>1, <2>8 DEF IInv, TypeOK, Held, ReleasedIsClean
  <2>11. QED BY <2>7, <2>8, <2>9, <2>10 DEF IInv, Held
<1>7. QED BY <1>5, <1>6

\* The copy the thread will write is the record as it is.
LEMMA SaveReadsKeeps ==
  ASSUME IInv, NEW h \in Handlers, SaveReads(h)
  PROVE  IInv'
<1>1. PICK w \in Request : /\ w = [handler[h] EXCEPT !.pc = "writing", !.holds = "none"]
                           /\ w.pc = "writing" /\ w.until = handler[h].until
                           /\ w.agent = handler[h].agent
  <2>1. PICK r \in Request : r = handler[h]
    BY DEF IInv, TypeOK
  <2>2. QED BY <2>1, WritingIsTyped
<1>2. UNCHANGED <<now, store, denies, disk, unsaved, contagion, overlapped, released, denied>>
      /\ handler[h].pc = "saving" /\ handler' = [handler EXCEPT ![h] = w]
  BY <1>1 DEF SaveReads, IInv, TypeOK
<1>3. /\ handler' \in [Handlers -> Request] /\ handler'[h] = w
      /\ \A g \in Handlers : g # h => handler'[g] = handler[g]
  BY <1>2, OthersStay DEF IInv, TypeOK
<1>4. \A g \in Handlers :
        /\ handler'[g].agent = handler[g].agent /\ handler'[g].until = handler[g].until
        /\ handler'[g].pc \in Changing <=> handler[g].pc \in Changing
        /\ handler'[g].pc \in {"saving", "writing"} <=> handler[g].pc \in {"saving", "writing"}
        /\ handler'[g].pc = "idle" <=> handler[g].pc = "idle"
        /\ handler'[g].pc = "deleting" <=> handler[g].pc = "deleting"
        /\ handler'[g].pc = "clearing" <=> handler[g].pc = "clearing"
  BY <1>1, <1>2, <1>3 DEF Changing
<1>5. WorkHasAgent' /\ CeilingHolds'
  BY <1>2, <1>4 DEF IInv, Held, WorkHasAgent, CeilingHolds
<1>6. SavedOrSaving'
  <2>1. \A b \in Agents : Active(b)' = Active(b)
    BY <1>2 DEF Active
  <2>2. QED BY <1>2, <1>4, <2>1 DEF IInv, Held, SavedOrSaving
<1>7. ReleasedIsClean'
  <2>1. \A b \in Agents : Busy(b)' => Busy(b)
    BY <1>4 DEF Busy
  <2>2. QED BY <1>2, <2>1 DEF IInv, TypeOK, Held, ReleasedIsClean
<1>8. TypeOK' /\ Counted'
  BY <1>2, <1>3, CountedStays DEF IInv, TypeOK
<1>9. QED BY <1>5, <1>6, <1>7, <1>8 DEF IInv, Held

\* The save that raises leaves the record, and the agent is known to be unsaved.
LEMMA SaveFailsKeeps ==
  ASSUME IInv, NEW h \in Handlers, SaveFails(h)
  PROVE  IInv'
<1>1. PICK w \in Request : w = NoRequest /\ w.pc = "idle" /\ w.until = 0
  BY NoRequestIsTyped
<1>2. PICK a \in Agents : a = handler[h].agent
  BY DEF SaveFails, IInv, Held, WorkHasAgent
<1>3. UNCHANGED <<now, store, denies, disk, contagion, overlapped, released, denied>>
      /\ handler[h].pc = "writing" /\ handler' = [handler EXCEPT ![h] = w]
      /\ unsaved' = unsaved \union ({a} \ overlapped)
  BY <1>1, <1>2 DEF SaveFails, Finish
<1>4. /\ handler' \in [Handlers -> Request] /\ handler'[h] = w
      /\ \A g \in Handlers : g # h => handler'[g] = handler[g]
  BY <1>3, OthersStay DEF IInv, TypeOK
<1>5. WorkHasAgent'
  BY <1>1, <1>4 DEF IInv, Held, WorkHasAgent
<1>6. CeilingHolds'
  <2>1. now \in Nat /\ now + Ceiling >= 0
    BY DurationAssumption DEF IInv, TypeOK
  <2>2. QED BY <1>1, <1>3, <1>4, <2>1 DEF IInv, Held, CeilingHolds
<1>7. \A g \in Handlers : handler'[g].pc \in Changing => g # h /\ handler'[g] = handler[g]
  BY <1>1, <1>4 DEF Changing
<1>8. SavedOrSaving'
  <2>1. SUFFICES ASSUME NEW b \in Agents \ overlapped'
        PROVE  (/\ \A g, k \in Handlers :
                     handler[g].agent = b /\ handler[k].agent = b
                     /\ handler[g].pc \in Changing /\ handler[k].pc \in Changing => g = k
                /\ \A k \in Handlers : handler[k].agent = b =>
                     /\ handler[k].pc \in {"saving", "writing"} /\ Active(b) => handler[k].until = store[b]
                     /\ handler[k].pc \in {"deleting", "clearing"} => store[b] = 0
                     /\ handler[k].pc = "clearing" => disk[b] = 0
                /\ \/ Active(b) => disk[b] = store[b]
                   \/ b \in unsaved
                   \/ \E k \in Handlers : handler[k].agent = b /\ handler[k].pc \in {"saving", "writing"})'
    BY DEF SavedOrSaving
  <2>2. b \in Agents \ overlapped
    BY <1>3
  <2>3. Active(b)' = Active(b)
    BY <1>3 DEF Active
  <2>4. {"saving", "writing", "deleting", "clearing"} \subseteq Changing
    BY DEF Changing
  <2>5. \/ b = a
        \/ \A k \in Handlers : handler[k].agent = b => k # h /\ handler'[k] = handler[k]
    BY <1>2, <1>4
  <2>6. \/ (Active(b) => disk[b] = store[b])'
        \/ b \in unsaved'
        \/ \E k \in Handlers : handler'[k].agent = b /\ handler'[k].pc \in {"saving", "writing"}
    BY <1>3, <2>2, <2>3, <2>5 DEF IInv, Held, SavedOrSaving
  <2>7. QED BY <1>3, <1>7, <2>2, <2>3, <2>4, <2>6 DEF IInv, Held, SavedOrSaving
<1>9. ReleasedIsClean'
  <2>1. \A b \in Agents : Busy(b)' => Busy(b)
    BY <1>7 DEF Busy
  <2>2. QED BY <1>3, <2>1 DEF IInv, TypeOK, Held, ReleasedIsClean
<1>10. TypeOK' /\ Counted'
  BY <1>3, <1>4, CountedStays DEF IInv, TypeOK
<1>11. QED BY <1>5, <1>6, <1>8, <1>9, <1>10 DEF IInv, Held

\* The two steps that write the table and go on: SaveWrites and DeleteRow.
LEMMA SaveWritesKeeps ==
  ASSUME IInv, NEW h \in Handlers, SaveWrites(h)
  PROVE  IInv'
<1>1. PICK w \in Request : /\ w = [handler[h] EXCEPT !.pc = "announcing", !.until = 0]
                           /\ w.pc = "announcing" /\ w.until = 0 /\ w.agent = handler[h].agent
  <2>1. PICK r \in Request, pc \in Changing : r = handler[h] /\ pc = "announcing"
    BY DEF IInv, TypeOK, Changing
  <2>2. QED BY <2>1, StepIsTyped
<1>2. PICK a \in Agents, u \in Nat : a = handler[h].agent /\ u = handler[h].until
  BY DEF SaveWrites, IInv, TypeOK, Request, Held, WorkHasAgent
<1>3. UNCHANGED <<now, store, denies, unsaved, contagion, overlapped, released, denied>>
      /\ handler[h].pc = "writing" /\ handler' = [handler EXCEPT ![h] = w]
      /\ disk' = [disk EXCEPT ![a] = u]
  BY <1>1, <1>2 DEF SaveWrites, Step, IInv, TypeOK
<1>4. /\ handler' \in [Handlers -> Request] /\ handler'[h] = w
      /\ \A g \in Handlers : g # h => handler'[g] = handler[g]
  BY <1>3, OthersStay DEF IInv, TypeOK
<1>5. disk' \in [Agents -> Nat] /\ disk'[a] = u /\ \A b \in Agents : b # a => disk'[b] = disk[b]
  BY <1>3 DEF IInv, TypeOK
<1>6. WorkHasAgent'
  BY <1>1, <1>2, <1>4 DEF IInv, Held, WorkHasAgent
<1>7. CeilingHolds'
  <2>1. now \in Nat /\ u <= now + Ceiling
    BY <1>2 DEF IInv, TypeOK, Held, CeilingHolds
  <2>2. QED BY <1>1, <1>3, <1>4, <1>5, <2>1, DurationAssumption DEF IInv, Held, CeilingHolds
<1>8. \A b \in Agents : Active(b)' = Active(b) /\ (Busy(b)' => Busy(b))
  BY <1>1, <1>3, <1>4 DEF Active, Busy, Changing
<1>9. SavedOrSaving'
  <2>1. SUFFICES ASSUME NEW b \in Agents \ overlapped'
        PROVE  (/\ \A g, k \in Handlers :
                     handler[g].agent = b /\ handler[k].agent = b
                     /\ handler[g].pc \in Changing /\ handler[k].pc \in Changing => g = k
                /\ \A k \in Handlers : handler[k].agent = b =>
                     /\ handler[k].pc \in {"saving", "writing"} /\ Active(b) => handler[k].until = store[b]
                     /\ handler[k].pc \in {"deleting", "clearing"} => store[b] = 0
                     /\ handler[k].pc = "clearing" => disk[b] = 0
                /\ \/ Active(b) => disk[b] = store[b]
                   \/ b \in unsaved
                   \/ \E k \in Handlers : handler[k].agent = b /\ handler[k].pc \in {"saving", "writing"})'
    BY DEF SavedOrSaving
  <2>2. b \in Agents \ overlapped
    BY <1>3
  <2>3. CASE b = a
    <3>1. \A g \in Handlers : handler[g].agent = b /\ handler[g].pc \in Changing => g = h
      BY <1>2, <1>3, <2>2, <2>3 DEF IInv, Held, SavedOrSaving, Changing
    <3>2. \A g \in Handlers : handler'[g].agent = b /\ handler'[g].pc \in Changing => g = h
      BY <1>4, <3>1
    <3>3. Active(b) => u = store[b]
      BY <1>2, <1>3, <2>2, <2>3 DEF IInv, Held, SavedOrSaving
    <3>4. {"saving", "writing", "deleting", "clearing"} \subseteq Changing
      BY DEF Changing
    <3>5. QED BY <1>1, <1>3, <1>4, <1>5, <1>8, <2>3, <3>2, <3>3, <3>4
  <2>4. CASE b # a
    <3>1. \A g \in Handlers : handler[g].agent = b \/ handler'[g].agent = b => g # h
      BY <1>1, <1>2, <1>4, <2>4
    <3>2. \A g \in Handlers : handler[g].agent = b \/ handler'[g].agent = b => handler'[g] = handler[g]
      BY <1>4, <3>1
    <3>3. QED BY <1>3, <1>5, <1>8, <2>2, <2>4, <3>2 DEF IInv, Held, SavedOrSaving
  <2>5. QED BY <2>3, <2>4
<1>10. ReleasedIsClean'
  <2>1. a \notin released \ overlapped
    <3>1. Busy(a)
      BY <1>2, <1>3 DEF Busy, Changing
    <3>2. QED BY <3>1 DEF IInv, Held, ReleasedIsClean
  <2>2. QED BY <1>3, <1>5, <1>8, <2>1 DEF IInv, TypeOK, Held, ReleasedIsClean
<1>11. TypeOK' /\ Counted'
  BY <1>3, <1>4, <1>5, CountedStays DEF IInv, TypeOK
<1>12. QED BY <1>6, <1>7, <1>9, <1>10, <1>11 DEF IInv, Held

LEMMA DeleteRowKeeps ==
  ASSUME IInv, NEW h \in Handlers, DeleteRow(h)
  PROVE  IInv'
<1>1. PICK w \in Request : /\ w = [handler[h] EXCEPT !.pc = "clearing", !.until = 0]
                           /\ w.pc = "clearing" /\ w.until = 0 /\ w.agent = handler[h].agent
  <2>1. PICK r \in Request, pc \in Changing : r = handler[h] /\ pc = "clearing"
    BY DEF IInv, TypeOK, Changing
  <2>2. QED BY <2>1, StepIsTyped
<1>2. PICK a \in Agents : a = handler[h].agent
  BY DEF DeleteRow, IInv, Held, WorkHasAgent
<1>3. UNCHANGED <<now, store, denies, unsaved, contagion, overlapped, released, denied>>
      /\ handler[h].pc = "deleting" /\ handler' = [handler EXCEPT ![h] = w]
      /\ disk' = [disk EXCEPT ![a] = 0]
  BY <1>1, <1>2 DEF DeleteRow, Step, IInv, TypeOK
<1>4. /\ handler' \in [Handlers -> Request] /\ handler'[h] = w
      /\ \A g \in Handlers : g # h => handler'[g] = handler[g]
  BY <1>3, OthersStay DEF IInv, TypeOK
<1>5. disk' \in [Agents -> Nat] /\ disk'[a] = 0 /\ \A b \in Agents : b # a => disk'[b] = disk[b]
  BY <1>3 DEF IInv, TypeOK
<1>6. WorkHasAgent'
  BY <1>1, <1>2, <1>4 DEF IInv, Held, WorkHasAgent
<1>7. CeilingHolds'
  <2>1. now \in Nat
    BY DEF IInv, TypeOK
  <2>2. QED BY <1>1, <1>3, <1>4, <1>5, <2>1, DurationAssumption DEF IInv, Held, CeilingHolds
<1>8. \A b \in Agents : Active(b)' = Active(b) /\ (Busy(b)' => Busy(b))
  BY <1>1, <1>3, <1>4 DEF Active, Busy, Changing
<1>9. \A g \in Handlers :
        /\ handler'[g].agent = handler[g].agent
        /\ handler'[g].pc \in Changing <=> handler[g].pc \in Changing
        /\ handler'[g].pc \in {"saving", "writing"} <=> handler[g].pc \in {"saving", "writing"}
        /\ handler'[g].pc \in {"deleting", "clearing"} <=> handler[g].pc \in {"deleting", "clearing"}
        /\ g # h => handler'[g] = handler[g]
  BY <1>1, <1>3, <1>4 DEF Changing
<1>10. SavedOrSaving'
  <2>1. SUFFICES ASSUME NEW b \in Agents \ overlapped'
        PROVE  (/\ \A g, k \in Handlers :
                     handler[g].agent = b /\ handler[k].agent = b
                     /\ handler[g].pc \in Changing /\ handler[k].pc \in Changing => g = k
                /\ \A k \in Handlers : handler[k].agent = b =>
                     /\ handler[k].pc \in {"saving", "writing"} /\ Active(b) => handler[k].until = store[b]
                     /\ handler[k].pc \in {"deleting", "clearing"} => store[b] = 0
                     /\ handler[k].pc = "clearing" => disk[b] = 0
                /\ \/ Active(b) => disk[b] = store[b]
                   \/ b \in unsaved
                   \/ \E k \in Handlers : handler[k].agent = b /\ handler[k].pc \in {"saving", "writing"})'
    BY DEF SavedOrSaving
  <2>2. b \in Agents \ overlapped
    BY <1>3
  <2>3. CASE b = a
    <3>1. store[b] = 0 /\ now \in Nat
      BY <1>2, <1>3, <2>2, <2>3 DEF IInv, Held, SavedOrSaving, TypeOK
    <3>2. ~ Active(b)'
      BY <1>3, <3>1 DEF Active
    <3>3. \A g, k \in Handlers :
            handler'[g].agent = b /\ handler'[k].agent = b
            /\ handler'[g].pc \in Changing /\ handler'[k].pc \in Changing => g = k
      BY <1>9, <2>2 DEF IInv, Held, SavedOrSaving
    <3>4. QED BY <1>3, <1>5, <2>3, <3>1, <3>2, <3>3
  <2>4. CASE b # a
    <3>1. \A g \in Handlers : handler[g].agent = b \/ handler'[g].agent = b => handler'[g] = handler[g]
      BY <1>2, <1>9, <2>4
    <3>2. QED BY <1>3, <1>5, <1>8, <2>2, <2>4, <3>1 DEF IInv, Held, SavedOrSaving
  <2>5. QED BY <2>3, <2>4
<1>11. ReleasedIsClean'
  BY <1>3, <1>5, <1>8 DEF IInv, TypeOK, Held, ReleasedIsClean
<1>12. TypeOK' /\ Counted'
  BY <1>3, <1>4, <1>5, CountedStays DEF IInv, TypeOK
<1>13. QED BY <1>6, <1>7, <1>10, <1>11, <1>12 DEF IInv, Held

\* The last step of a release: nothing of the quarantine is left.
LEMMA ClearAfterReleaseKeeps ==
  ASSUME IInv, NEW h \in Handlers, ClearAfterRelease(h)
  PROVE  IInv'
<1>1. UNCHANGED <<now, store, denies, disk, unsaved, overlapped, denied>>
      /\ Finish(h) /\ handler[h].pc = "clearing"
  BY DEF ClearAfterRelease
<1>2. /\ handler' \in [Handlers -> Request]
      /\ WorkHasAgent' /\ CeilingHolds' /\ SavedOrSaving'
      /\ \A b \in Agents : Busy(b)' => Busy(b)
  BY <1>1, FinishKeeps
<1>3. PICK a \in Agents : a = handler[h].agent
  BY <1>1 DEF IInv, Held, WorkHasAgent
<1>4. contagion' \subseteq contagion /\ \A p \in contagion' : p.source # a
  BY <1>3 DEF ClearAfterRelease, Cleared
<1>5. released' \subseteq released \union {a}
  BY <1>3 DEF ClearAfterRelease
<1>6. TypeOK' /\ Counted'
  BY <1>1, <1>2, <1>4, <1>5, CountedStays DEF IInv, TypeOK
<1>7. ReleasedIsClean'
  <2>1. a \notin overlapped => store[a] = 0 /\ disk[a] = 0 /\ ~ Busy(a)'
    <3>1. SUFFICES ASSUME a \notin overlapped PROVE store[a] = 0 /\ disk[a] = 0 /\ ~ Busy(a)'
      OBVIOUS
    <3>2. store[a] = 0 /\ disk[a] = 0
      BY <1>1, <1>3, <3>1 DEF IInv, Held, SavedOrSaving
    <3>3. \A g \in Handlers : handler[g].agent = a /\ handler[g].pc \in Changing => g = h
      BY <1>1, <1>3, <3>1 DEF IInv, Held, SavedOrSaving, Changing
    <3>4. /\ handler'[h].pc = "idle"
          /\ \A g \in Handlers : g # h => handler'[g] = handler[g]
      BY <1>1, NoRequestIsTyped DEF Finish, IInv, TypeOK
    <3>5. ~ Busy(a)'
      BY <3>3, <3>4 DEF Busy, Changing
    <3>6. QED BY <3>2, <3>5
  <2>2. released \subseteq Agents
    BY DEF IInv, TypeOK
  <2>3. QED BY <1>1, <1>2, <1>4, <1>5, <2>1, <2>2 DEF IInv, Held, ReleasedIsClean
<1>8. QED BY <1>2, <1>6, <1>7 DEF IInv, Held

LEMMA HeldStays ==
  ASSUME Held, UNCHANGED <<now, store, disk, unsaved, contagion, handler, overlapped, released>>
  PROVE  Held'
<1>1. WorkHasAgent' /\ CeilingHolds'
  BY DEF Held, WorkHasAgent, CeilingHolds
<1>2. SavedOrSaving'
  BY DEF Held, SavedOrSaving, Active
<1>3. ReleasedIsClean'
  BY DEF Held, ReleasedIsClean, Busy
<1>4. QED BY <1>1, <1>2, <1>3 DEF Held

\* A release leaves the other requests at work on the record object they hold.
LEMMA OrphansKeepWorking ==
  ASSUME handler \in [Handlers -> Request], NEW h \in Handlers, NEW a \in Agents,
         NEW w \in Request, handler' = [Orphaned(a) EXCEPT ![h] = w]
  PROVE  /\ handler' \in [Handlers -> Request] /\ handler'[h] = w
         /\ \A g \in Handlers : g # h =>
              /\ handler'[g].pc = handler[g].pc /\ handler'[g].agent = handler[g].agent
              /\ handler'[g].until = handler[g].until
<1>1. ASSUME NEW g \in Handlers
      PROVE  /\ Orphaned(a)[g] \in Request
             /\ Orphaned(a)[g].pc = handler[g].pc /\ Orphaned(a)[g].agent = handler[g].agent
             /\ Orphaned(a)[g].until = handler[g].until
  <2>1. PICK r \in Request : r = handler[g]
    OBVIOUS
  <2>2. Orphaned(a)[g] = r \/ Orphaned(a)[g] = [r EXCEPT !.holds = "orphan"]
    BY <2>1 DEF Orphaned
  <2>3. QED BY <2>1, <2>2, OrphanIsTyped
<1>2. Orphaned(a) \in [Handlers -> Request]
  BY <1>1 DEF Orphaned
<1>3. handler' \in [Handlers -> Request] /\ handler'[h] = w
      /\ \A g \in Handlers : g # h => handler'[g] = Orphaned(a)[g]
  BY <1>2
<1>4. QED BY <1>1, <1>3

LEMMA ReleaseKeeps ==
  ASSUME IInv, NEW h \in Handlers, NEW a \in Agents, Release(h, a)
  PROVE  IInv'
<1>1. UNCHANGED <<now, disk, contagion, released>> /\ handler[h].pc = "idle"
      /\ store' = [store EXCEPT ![a] = 0]
      /\ denies' = [denies EXCEPT ![a] = <<>>] /\ denied' = [denied EXCEPT ![a] = <<>>]
  BY DEF Release
<1>2. store' \in [Agents -> Nat] /\ store'[a] = 0 /\ now \in Nat
      /\ \A b \in Agents : b # a => store'[b] = store[b]
  BY <1>1 DEF IInv, TypeOK
<1>3. /\ denies' \in [Agents -> Seq(Nat)] /\ denied' \in [Agents -> Seq(Nat)]
      /\ \A b \in Agents : Len(denies'[b]) < Threshold
      /\ Counted'
  <2>1. Len(<<>>) < Threshold /\ <<>> \in Seq(Nat)
    BY DurationAssumption
  <2>2. QED BY <1>1, <2>1, CountedChanges, EmptyIsCounted
<1>4. CASE store[a] = 0
  <2>1. UNCHANGED <<handler, unsaved, overlapped>>
    BY <1>4 DEF Release
  <2>2. store' = store
    BY <1>1, <1>4 DEF IInv, TypeOK
  <2>3. Held'
    BY <1>1, <2>1, <2>2, HeldStays DEF IInv
  <2>4. TypeOK'
    BY <1>1, <1>2, <1>3, <2>1 DEF IInv, TypeOK
  <2>5. QED BY <1>3, <2>3, <2>4 DEF IInv
<1>5. CASE store[a] # 0
  <2>1. PICK w \in Request : /\ w = [NoRequest EXCEPT !.pc = "deleting", !.agent = a]
                             /\ w.pc = "deleting" /\ w.agent = a /\ w.until = 0
    <3>1. PICK pc \in {"idle", "scoring"} \union Changing : pc = "deleting"
      BY DEF Changing
    <3>2. PICK w : w = [NoRequest EXCEPT !.pc = pc, !.agent = a]
      OBVIOUS
    <3>3. w \in Request /\ w.pc = pc /\ w.agent = a /\ w.until = 0
      BY <3>2, RequestIsTyped
    <3>4. QED BY <3>1, <3>2, <3>3
  <2>2. handler' = [Orphaned(a) EXCEPT ![h] = w]
        /\ overlapped' = IF Busy(a) THEN overlapped \union {a} ELSE overlapped
    BY <1>5, <2>1 DEF Release, Overlap
  <2>0. unsaved' = unsaved \ {a}
    BY <1>5 DEF Release
  <2>3. /\ handler' \in [Handlers -> Request] /\ handler'[h] = w
        /\ \A g \in Handlers : g # h =>
             /\ handler'[g].pc = handler[g].pc /\ handler'[g].agent = handler[g].agent
             /\ handler'[g].until = handler[g].until
    BY <2>2, OrphansKeepWorking DEF IInv, TypeOK
  <2>4. WorkHasAgent'
    BY <2>1, <2>3 DEF IInv, Held, WorkHasAgent
  <2>5. CeilingHolds'
    <3>1. now + Ceiling >= 0
      BY <1>2, DurationAssumption
    <3>2. QED BY <1>1, <1>2, <2>1, <2>3, <3>1 DEF IInv, Held, CeilingHolds
  <2>6. SavedOrSaving'
    <3>1. SUFFICES ASSUME NEW b \in Agents \ overlapped'
          PROVE  (/\ \A g, k \in Handlers :
                       handler[g].agent = b /\ handler[k].agent = b
                       /\ handler[g].pc \in Changing /\ handler[k].pc \in Changing => g = k
                  /\ \A k \in Handlers : handler[k].agent = b =>
                       /\ handler[k].pc \in {"saving", "writing"} /\ Active(b) => handler[k].until = store[b]
                       /\ handler[k].pc \in {"deleting", "clearing"} => store[b] = 0
                       /\ handler[k].pc = "clearing" => disk[b] = 0
                  /\ \/ Active(b) => disk[b] = store[b]
                     \/ b \in unsaved
                   \/ b \in unsaved
                     \/ \E k \in Handlers : handler[k].agent = b /\ handler[k].pc \in {"saving", "writing"})'
      BY DEF SavedOrSaving
    <3>2. b \in Agents \ overlapped
      BY <2>2
    <3>3. CASE b = a
      <4>1. ~ Busy(a)
        BY <2>2, <3>1, <3>3
      <4>2. \A g \in Handlers : handler'[g].agent = b /\ handler'[g].pc \in Changing => g = h
        BY <2>3, <3>3, <4>1 DEF Busy
      <4>3. ~ Active(b)'
        BY <1>1, <1>2, <3>3 DEF Active
      <4>4. {"saving", "writing", "deleting", "clearing"} \subseteq Changing
        BY DEF Changing
      <4>5. QED BY <1>2, <2>1, <2>3, <3>3, <4>2, <4>3, <4>4
    <3>4. CASE b # a
      <4>1. handler'[h].agent # b /\ store'[b] = store[b]
        BY <1>2, <2>1, <2>3, <3>4
      <4>2. \A g \in Handlers : handler'[g].agent = b =>
              /\ handler[g].agent = b /\ handler'[g].pc = handler[g].pc
              /\ handler'[g].until = handler[g].until
        BY <2>3, <4>1
      <4>3. \A g \in Handlers : g # h /\ handler[g].agent = b =>
              handler'[g].agent = b /\ handler'[g].pc = handler[g].pc
        BY <2>3
      <4>4. handler[h].pc \notin {"saving", "writing"}
        BY <1>1
      <4>5. Active(b)' = Active(b)
        BY <1>1, <4>1 DEF Active
      <4>6. b \in unsaved => b \in unsaved'
        BY <2>0, <3>4
      <4>7. QED BY <1>1, <3>2, <4>1, <4>2, <4>3, <4>4, <4>5, <4>6 DEF IInv, Held, SavedOrSaving
    <3>5. QED BY <3>3, <3>4
  <2>7. ReleasedIsClean'
    <3>1. a \notin released \ overlapped
      BY <1>5 DEF IInv, Held, ReleasedIsClean
    <3>2. \A b \in Agents : b # a /\ ~ Busy(b) => ~ Busy(b)'
      BY <2>1, <2>3 DEF Busy
    <3>3. overlapped \subseteq overlapped' /\ released \subseteq Agents
      BY <2>2 DEF IInv, TypeOK
    <3>4. QED BY <1>1, <1>2, <3>1, <3>2, <3>3 DEF IInv, Held, ReleasedIsClean
  <2>8. TypeOK'
    <3>1. overlapped' \in SUBSET Agents /\ unsaved' \in SUBSET Agents
      BY <2>0, <2>2 DEF IInv, TypeOK
    <3>2. QED BY <1>1, <1>2, <1>3, <2>3, <3>1 DEF IInv, TypeOK
  <2>9. QED BY <1>3, <2>4, <2>5, <2>6, <2>7, <2>8 DEF IInv, Held
<1>6. QED BY <1>4, <1>5

-------------------------------------------------------------------------------
(* The background.                                                         *)

LEMMA TickKeeps ==
  ASSUME IInv, Tick
  PROVE  IInv'
<1>1. UNCHANGED <<store, denies, disk, unsaved, contagion, handler, overlapped, released, denied>>
      /\ now' = now + 1 /\ now \in Nat
  BY DEF Tick, IInv, TypeOK
<1>2. \A b \in Agents : store[b] \in Nat /\ (Active(b)' => Active(b))
  BY <1>1 DEF Active, IInv, TypeOK
<1>3. CeilingHolds'
  <2>1. PICK n \in Nat, m \in Nat : n = now + Ceiling /\ m = now' + Ceiling /\ n <= m
    BY <1>1, DurationAssumption
  <2>2. \A x \in Nat : x <= n => x <= m
    BY <2>1
  <2>3. /\ \A b \in Agents : store[b] \in Nat /\ disk[b] \in Nat
        /\ \A h \in Handlers : handler[h].until \in Nat
    BY DEF IInv, TypeOK, Request
  <2>4. /\ \A b \in Agents : store[b] <= n /\ disk[b] <= n
        /\ \A h \in Handlers : handler[h].until <= n
    BY <2>1 DEF IInv, Held, CeilingHolds
  <2>5. /\ \A b \in Agents : store[b] <= m /\ disk[b] <= m
        /\ \A h \in Handlers : handler[h].until <= m
    BY <2>2, <2>3, <2>4
  <2>6. QED BY <1>1, <2>1, <2>5 DEF CeilingHolds
<1>4. SavedOrSaving'
  BY <1>1, <1>2 DEF IInv, Held, SavedOrSaving
<1>5. ReleasedIsClean' /\ WorkHasAgent'
  BY <1>1 DEF IInv, Held, ReleasedIsClean, Busy, WorkHasAgent
<1>6. TypeOK' /\ Counted'
  <2>1. TypeOK'
    BY <1>1 DEF IInv, TypeOK
  <2>2. Counted'
    BY <1>1, CountedStays
  <2>3. QED BY <2>1, <2>2
<1>7. QED BY <1>3, <1>4, <1>5, <1>6 DEF IInv, Held

\* Less contagion is no harm to a release.
LEMMA ContagionKeeps ==
  ASSUME IInv, PenaltyExpires \/ \E a \in Agents : ClearManually(a)
  PROVE  IInv'
<1>1. UNCHANGED <<now, store, denies, disk, unsaved, handler, overlapped, released, denied>>
      /\ contagion' \subseteq contagion
  BY DEF PenaltyExpires, ClearManually, Cleared
<1>2. WorkHasAgent' /\ CeilingHolds' /\ SavedOrSaving'
  BY <1>1 DEF IInv, Held, WorkHasAgent, CeilingHolds, SavedOrSaving, Active
<1>3. ReleasedIsClean'
  BY <1>1 DEF IInv, Held, ReleasedIsClean, Busy
<1>4. TypeOK' /\ Counted'
  <2>1. TypeOK'
    BY <1>1 DEF IInv, TypeOK
  <2>2. Counted'
    BY <1>1, CountedStays
  <2>3. QED BY <2>1, <2>2
<1>5. QED BY <1>2, <1>3, <1>4 DEF IInv, Held

\* An expired record leaves memory; whoever holds the object goes on.
LEMMA EvictExpiredKeeps ==
  ASSUME IInv, EvictExpired
  PROVE  IInv'
<1>1. UNCHANGED <<now, denies, disk, unsaved, contagion, overlapped, released, denied>>
      /\ store' = [a \in Agents |-> IF Active(a) THEN store[a] ELSE 0]
      /\ now \in Nat /\ store \in [Agents -> Nat]
  BY DEF EvictExpired, IInv, TypeOK
<1>2. /\ store' \in [Agents -> Nat]
      /\ \A b \in Agents : store'[b] = store[b] \/ store'[b] = 0
      /\ \A b \in Agents : Active(b) => store'[b] = store[b]
  BY <1>1
<1>3. \A b \in Agents : Active(b)' => Active(b)
  BY <1>1, <1>2 DEF Active
<1>4. ASSUME NEW g \in Handlers
      PROVE  /\ handler'[g] \in Request
             /\ handler'[g].pc = handler[g].pc /\ handler'[g].agent = handler[g].agent
             /\ handler'[g].until = handler[g].until
  <2>1. PICK r \in Request : r = handler[g]
    BY DEF IInv, TypeOK
  <2>2. handler'[g] = r \/ handler'[g] = [r EXCEPT !.holds = "orphan"]
    BY <2>1 DEF EvictExpired
  <2>3. QED BY <2>1, <2>2, OrphanIsTyped
<1>5. handler' \in [Handlers -> Request]
  BY <1>4 DEF EvictExpired
<1>6. WorkHasAgent'
  BY <1>4 DEF IInv, Held, WorkHasAgent
<1>7. CeilingHolds'
  <2>1. now + Ceiling >= 0
    BY <1>1, DurationAssumption
  <2>2. QED BY <1>1, <1>2, <1>4, <2>1 DEF IInv, Held, CeilingHolds
<1>8. SavedOrSaving'
  BY <1>1, <1>2, <1>3, <1>4 DEF IInv, Held, SavedOrSaving
<1>9. ReleasedIsClean'
  <2>1. \A b \in Agents : Busy(b)' => Busy(b)
    BY <1>4 DEF Busy
  <2>2. released \subseteq Agents
    BY DEF IInv, TypeOK
  <2>3. QED BY <1>1, <1>2, <2>1, <2>2 DEF IInv, Held, ReleasedIsClean
<1>10. TypeOK' /\ Counted'
  BY <1>1, <1>2, <1>5, CountedStays DEF IInv, TypeOK
<1>11. QED BY <1>6, <1>7, <1>8, <1>9, <1>10 DEF IInv, Held

\* The rows that are left are the rows of active quarantines.
LEMMA LiveRowsAreRows ==
  ASSUME TypeOK
  PROVE  /\ LiveRows \in [Agents -> Nat]
         /\ \A a \in Agents : LiveRows[a] = disk[a] \/ LiveRows[a] = 0
         /\ \A a \in Agents : now < disk[a] => LiveRows[a] = disk[a]
         /\ \A a \in Agents : ~ (now < disk[a]) => LiveRows[a] = 0
<1>1. now \in Nat /\ disk \in [Agents -> Nat]
  BY DEF TypeOK
<1>2. QED BY <1>1 DEF LiveRows

LEMMA CleanupRowsKeeps ==
  ASSUME IInv, CleanupRows
  PROVE  IInv'
<1>1. UNCHANGED <<now, store, denies, unsaved, contagion, handler, overlapped, released, denied>>
      /\ disk' = LiveRows /\ now \in Nat
  BY DEF CleanupRows, IInv, TypeOK
<1>2. /\ disk' \in [Agents -> Nat]
      /\ \A a \in Agents : disk'[a] = disk[a] \/ disk'[a] = 0
      /\ \A a \in Agents : now < disk[a] => disk'[a] = disk[a]
  BY <1>1, LiveRowsAreRows DEF IInv
<1>3. WorkHasAgent'
  BY <1>1 DEF IInv, Held, WorkHasAgent
<1>4. CeilingHolds'
  <2>1. now + Ceiling >= 0
    BY <1>1, DurationAssumption
  <2>2. QED BY <1>1, <1>2, <2>1 DEF IInv, Held, CeilingHolds
<1>5. \A b \in Agents : Active(b) /\ disk[b] = store[b] => disk'[b] = store[b]
  BY <1>2 DEF Active
<1>6. SavedOrSaving'
  BY <1>1, <1>2, <1>5 DEF IInv, Held, SavedOrSaving, Active
<1>7. ReleasedIsClean'
  BY <1>1, <1>2 DEF IInv, TypeOK, Held, ReleasedIsClean, Busy
<1>8. TypeOK' /\ Counted'
  BY <1>1, <1>2, CountedStays DEF IInv, TypeOK
<1>9. QED BY <1>3, <1>4, <1>6, <1>7, <1>8 DEF IInv, Held

\* After a restart memory is what is on disk, and nobody is at work.
LEMMA RestartKeeps ==
  ASSUME IInv, Restart
  PROVE  IInv'
<1>1. /\ disk' = LiveRows /\ store' = LiveRows /\ contagion' = {} /\ overlapped' = {} /\ unsaved' = {}
      /\ now' = now /\ now \in Nat
      /\ released' = {a \in released : LiveRows[a] = 0}
      /\ denies' = [a \in Agents |-> <<>>] /\ denied' = [a \in Agents |-> <<>>]
  BY DEF Restart, IInv, TypeOK
<1>2. PICK w \in Request : w = NoRequest /\ w.pc = "idle" /\ w.until = 0 /\ w.agent = None
  BY NoRequestIsTyped
<1>3. handler' = [h \in Handlers |-> w]
  BY <1>2 DEF Restart
<1>4. handler' \in [Handlers -> Request]
      /\ \A h \in Handlers : handler'[h].pc = "idle" /\ handler'[h].until = 0
  BY <1>2, <1>3
<1>5. \A h \in Handlers : handler'[h].pc \notin Changing
  BY <1>4 DEF Changing
<1>6. LiveRows \in [Agents -> Nat]
      /\ \A a \in Agents : LiveRows[a] = disk[a] \/ LiveRows[a] = 0
  BY LiveRowsAreRows DEF IInv
<1>7. CeilingHolds'
  <2>1. now + Ceiling >= 0
    BY <1>1, DurationAssumption
  <2>2. QED BY <1>1, <1>4, <1>6, <2>1 DEF IInv, Held, CeilingHolds
<1>8. WorkHasAgent'
  BY <1>4 DEF WorkHasAgent
<1>9. SavedOrSaving'
  BY <1>1, <1>5 DEF SavedOrSaving, Changing
<1>10. ReleasedIsClean'
  BY <1>1, <1>5 DEF ReleasedIsClean, Busy
<1>11. Counted'
  BY <1>1, EmptyIsCounted
     DEF Counted, WindowIsSuffix, NoMissedTrigger, RecentEnd, SpreadOut
<1>12. TypeOK'
  <2>1. denies' \in [Agents -> Seq(Nat)] /\ denied' \in [Agents -> Seq(Nat)]
        /\ \A a \in Agents : Len(denies'[a]) < Threshold
    BY <1>1, DurationAssumption
  <2>2. released' \in SUBSET Agents
    BY <1>1 DEF IInv, TypeOK
  <2>3. QED BY <1>1, <1>4, <1>6, <2>1, <2>2 DEF TypeOK
<1>13. QED BY <1>7, <1>8, <1>9, <1>10, <1>11, <1>12 DEF IInv, Held

-------------------------------------------------------------------------------
(* The inductive invariant.                                                *)

LEMMA InitKeeps == Init => IInv
<1> SUFFICES ASSUME Init PROVE IInv
  OBVIOUS
<1>1. PICK w \in Request : w = NoRequest /\ w.pc = "idle" /\ w.until = 0 /\ w.agent = None
  BY NoRequestIsTyped
<1>2. handler = [h \in Handlers |-> w]
  BY <1>1 DEF Init
<1>3. handler \in [Handlers -> Request]
      /\ \A h \in Handlers : handler[h].pc = "idle" /\ handler[h].until = 0
  BY <1>1, <1>2
<1>4. \A h \in Handlers : handler[h].pc \notin Changing
  BY <1>3 DEF Changing
<1>5. WorkHasAgent /\ SavedOrSaving /\ ReleasedIsClean
  BY <1>3, <1>4 DEF Init, WorkHasAgent, SavedOrSaving, ReleasedIsClean, Changing
<1>6. CeilingHolds
  BY <1>3, DurationAssumption DEF Init, CeilingHolds
<1>7. Counted
  BY EmptyIsCounted DEF Init, Counted, WindowIsSuffix, NoMissedTrigger
<1>8. TypeOK
  <2>1. denies \in [Agents -> Seq(Nat)] /\ denied \in [Agents -> Seq(Nat)]
        /\ \A a \in Agents : Len(denies[a]) < Threshold
    BY DurationAssumption DEF Init
  <2>2. QED BY <1>3, <2>1 DEF Init, TypeOK
<1>9. QED BY <1>5, <1>6, <1>7, <1>8 DEF IInv, Held

LEMMA NextKeeps ==
  ASSUME IInv, [Next]_vars
  PROVE  IInv'
<1>1. ASSUME NEW h \in Handlers, Authorize(h)
      PROVE  IInv'
  BY <1>1, CallersAssumption, AdmitKeeps, EndsQuietly, DenyHardKeeps, DenySoftKeeps DEF Authorize
<1>2. ASSUME NEW h \in Handlers, Follow(h)
      PROVE  IInv'
  BY <1>2, SaveReadsKeeps, SaveWritesKeeps, SaveFailsKeeps, PropagateKeeps, EndsQuietly DEF Follow
<1>3. ASSUME NEW h \in Handlers, Admin(h)
      PROVE  IInv'
  BY <1>3, QuarantineManuallyKeeps, ReleaseKeeps, DeleteRowKeeps, EndsQuietly,
     ClearAfterReleaseKeeps DEF Admin
<1>4. CASE PenaltyExpires \/ \E a \in Agents : ClearManually(a)
  BY <1>4, ContagionKeeps
<1>5. CASE EvictExpired \/ CleanupRows \/ Restart \/ Tick
  BY <1>5, EvictExpiredKeeps, CleanupRowsKeeps, RestartKeeps, TickKeeps
<1>6. CASE UNCHANGED vars
  <2>1. Held'
    BY <1>6, HeldStays DEF IInv, vars
  <2>2. TypeOK' /\ Counted'
    BY <1>6, CountedStays DEF IInv, TypeOK, vars
  <2>3. QED BY <2>1, <2>2 DEF IInv
<1>7. QED BY <1>1, <1>2, <1>3, <1>4, <1>5, <1>6 DEF Next

LEMMA Invariant == Spec => []IInv
<1>1. IInv /\ [Next]_vars => IInv'
  BY NextKeeps
<1>2. QED BY InitKeeps, <1>1, PTL DEF Spec

-------------------------------------------------------------------------------
(* The theorems.                                                           *)

\* Every variable keeps its type, and the deny window of quarantine.py is always
\* below its threshold.
THEOREM TypeCorrect == Spec => []TypeOK
<1>1. IInv => TypeOK
  BY DEF IInv
<1>2. QED BY <1>1, Invariant, PTL

\* No quarantine, in memory, on disk or on its way there, lasts longer than
\* QUARANTINE_MAX_SECONDS from now.
THEOREM CeilingNeverExceeded == Spec => []CeilingHolds
<1>1. IInv => CeilingHolds
  BY DEF IInv, Held
<1>2. QED BY <1>1, Invariant, PTL

\* A release that ran to its end alone cannot be undone by a restart, a late
\* save or a late propagation.
THEOREM ReleaseIsFinal == Spec => []ReleaseHolds
<1>1. IInv => ReleaseHolds
  BY DEF IInv, Held, ReleasedIsClean, ReleaseHolds, TypeOK
<1>2. QED BY <1>1, Invariant, PTL

\* record_deny never lets Threshold denies within the window pass.
THEOREM TriggerNeverMissed == Spec => []NoMissedTrigger
<1>1. IInv => NoMissedTrigger
  BY DEF IInv, Counted
<1>2. QED BY <1>1, Invariant, PTL

\* A record is only ever replaced by one that ends later.
LEMMA PutExtends ==
  ASSUME IInv, NEW h \in Handlers, NEW b \in Agents, NEW permanent \in BOOLEAN,
         PutInQuarantine(h, b, permanent),
         NEW a \in Agents, Active(a)
  PROVE  ~ (store'[a] < store[a])
<1>1. PICK u \in Nat : (Active(b) => store[b] <= u) /\ store' = [store EXCEPT ![b] = u]
  <2>1. TypeOK /\ CeilingHolds
    BY DEF IInv, Held
  <2>2. QED BY <2>1, PutFacts
<1>2. store[a] \in Nat /\ store \in [Agents -> Nat]
  BY DEF IInv, TypeOK
<1>3. QED BY <1>1, <1>2

LEMMA StepHolds ==
  ASSUME IInv, Next, NEW a \in Agents, Active(a), ~ Busy(a), a \notin overlapped, a \notin unsaved,
         \A h \in Handlers : ~ Release(h, a)
  PROVE  ~ (store'[a] < store[a])
<1>1. store \in [Agents -> Nat] /\ store[a] \in Nat
  BY DEF IInv, TypeOK
<1>2. CASE store' = store
  BY <1>1, <1>2
<1>3. ASSUME NEW h \in Handlers, NEW b \in Agents, NEW permanent \in BOOLEAN,
             QuarantineManually(h, b, permanent)
      PROVE  ~ (store'[a] < store[a])
  BY <1>3, PutExtends DEF QuarantineManually
<1>4. ASSUME NEW h \in Handlers, DenyHard(h) \/ DenySoft(h)
      PROVE  store' = store \/ ~ (store'[a] < store[a])
  <2>1. PICK b \in Agents : b = handler[h].agent
    BY <1>4 DEF DenyHard, DenySoft, IInv, Held, WorkHasAgent
  <2>2. store' = store \/ PutInQuarantine(h, b, FALSE)
    BY <1>4, <2>1 DEF DenyHard, DenySoft
  <2>3. QED BY <2>2, PutExtends
<1>5. ASSUME NEW h \in Handlers, NEW b \in Agents, Release(h, b)
      PROVE  ~ (store'[a] < store[a])
  <2>1. b # a
    BY <1>5
  <2>2. store'[a] = store[a]
    BY <1>1, <1>5, <2>1 DEF Release
  <2>3. QED BY <1>1, <2>2
<1>6. CASE EvictExpired
  <2>1. store'[a] = store[a]
    BY <1>6 DEF EvictExpired
  <2>2. QED BY <1>1, <2>1
<1>7. CASE Restart
  <2>1. disk[a] = store[a]
    BY DEF IInv, Held, SavedOrSaving, Busy, Changing
  <2>2. store'[a] = store[a]
    BY <1>7, <2>1, LiveRowsAreRows DEF Restart, IInv, Active
  <2>3. QED BY <1>1, <2>2
<1>8. store' = store
      \/ (\E h \in Handlers, b \in Agents, permanent \in BOOLEAN : QuarantineManually(h, b, permanent))
      \/ (\E h \in Handlers : DenyHard(h) \/ DenySoft(h))
      \/ (\E h \in Handlers, b \in Agents : Release(h, b))
      \/ EvictExpired \/ Restart
  <2>1. ASSUME NEW h \in Handlers, Authorize(h)
        PROVE  store' = store \/ DenyHard(h) \/ DenySoft(h)
    BY <2>1 DEF Authorize, Admit, Allow
  <2>2. ASSUME NEW h \in Handlers, Follow(h)
        PROVE  store' = store
    BY <2>2 DEF Follow, SaveReads, SaveWrites, SaveFails, Propagate, BroadcastRaises
  <2>3. ASSUME NEW h \in Handlers, Admin(h)
        PROVE  \/ store' = store
               \/ \E b \in Agents, permanent \in BOOLEAN : QuarantineManually(h, b, permanent)
               \/ \E b \in Agents : Release(h, b)
    BY <2>3 DEF Admin, DeleteRow, DeleteFails, ClearAfterRelease
  <2>4. PenaltyExpires \/ (\E b \in Agents : ClearManually(b)) \/ CleanupRows \/ Tick
          => store' = store
    BY DEF PenaltyExpires, ClearManually, CleanupRows, Tick
  <2>5. QED BY <2>1, <2>2, <2>3, <2>4 DEF Next
<1>9. QED BY <1>2, <1>3, <1>4, <1>5, <1>6, <1>7, <1>8

\* An active quarantine ends early only by a release, also across a restart,
\* as long as its handler was done, no two handlers ran into each other, and the
\* last save_quarantine did not raise.
THEOREM QuarantineLasts == Spec => QuarantineHolds
<1>1. IInv /\ [Next]_vars =>
        [\A a \in Agents : Active(a) /\ store'[a] < store[a] =>
           \/ \E h \in Handlers : Release(h, a)
           \/ Busy(a) \/ a \in overlapped \/ a \in unsaved]_vars
  <2>1. ASSUME IInv, Next, NEW a \in Agents, Active(a), store'[a] < store[a]
        PROVE  (\E h \in Handlers : Release(h, a)) \/ Busy(a) \/ a \in overlapped \/ a \in unsaved
    BY <2>1, StepHolds
  <2>2. QED BY <2>1
<1>2. QED BY <1>1, Invariant, PTL DEF Spec, QuarantineHolds
===============================================================================
