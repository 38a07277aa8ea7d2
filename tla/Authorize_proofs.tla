--------------------------- MODULE Authorize_proofs ---------------------------
(***************************************************************************)
(* Proofs about Authorize, for all agents, operations and policies, any    *)
(* number of requests in progress, all durations and both fail modes.      *)
(***************************************************************************)
EXTENDS Authorize, SequenceTheorems, TLAPS

LabelType == [level : Levels, integrity : {"trusted", "untrusted"}]

-------------------------------------------------------------------------------
(* Labels.                                                                 *)

LEMMA MaxOfLevels ==
  ASSUME NEW S \in SUBSET Levels, S # {}
  PROVE  Max(S) \in S /\ \A x \in S : x <= Max(S)
<1>1. \E m \in S : \A y \in S : m >= y
  <2>1. CASE 3 \in S
    BY <2>1 DEF Levels
  <2>2. CASE 3 \notin S /\ 2 \in S
    BY <2>2 DEF Levels
  <2>3. CASE 3 \notin S /\ 2 \notin S /\ 1 \in S
    BY <2>3 DEF Levels
  <2>4. CASE 3 \notin S /\ 2 \notin S /\ 1 \notin S
    <3>1. \A y \in S : y = 0
      BY <2>4 DEF Levels
    <3>2. 0 \in S
      BY <3>1
    <3>3. QED BY <3>1, <3>2
  <2>5. QED BY <2>1, <2>2, <2>3, <2>4
<1>2. Max(S) \in S /\ \A y \in S : Max(S) >= y
  BY <1>1 DEF Max
<1>3. QED BY <1>2 DEF Levels

LEMMA EntryFacts ==
  ASSUME TypeOK, NEW i \in DOMAIN trail
  PROVE  /\ trail[i] \in EntryType
         /\ trail[i].op.level \in Levels /\ trail[i].at \in Nat
         /\ trail[i].op.source \in {"own", "external"}
         /\ i \in Nat
<1>1. trail[i] \in EntryType /\ i \in Nat
  BY DEF TypeOK
<1>2. trail[i].op \in OperationType /\ trail[i].at \in Nat
  BY <1>1, OperationsAssumption DEF EntryType
<1>3. QED BY <1>1, <1>2 DEF OperationType

\* compute_flow_state covers every read among its rows.
LEMMA LabelsCover ==
  ASSUME TypeOK, NEW a, NEW rows \in SUBSET DOMAIN trail, NEW risk
  PROVE  /\ Labels(a, rows, risk) \in LabelType
         /\ \A i \in Reads(rows) : /\ trail[i].op.level <= Labels(a, rows, risk).level
                                   /\ trail[i].op.source = "external" =>
                                        Labels(a, rows, risk).integrity = "untrusted"
         /\ a \in DeclaresExternal => Labels(a, rows, risk).integrity = "untrusted"
<1> DEFINE S == {0} \union {trail[i].op.level : i \in Reads(rows)}
<1>1. S \subseteq Levels /\ S # {}
  BY EntryFacts DEF Reads, Levels
<1>2. Max(S) \in Levels /\ \A x \in S : x <= Max(S)
  BY <1>1, MaxOfLevels
<1>3. Labels(a, rows, risk).level = Max(S)
  BY DEF Labels
<1>4. \A i \in Reads(rows) : trail[i].op.level \in S
  OBVIOUS
<1>5. \A i \in Reads(rows) : trail[i].op.level <= Labels(a, rows, risk).level
  BY <1>2, <1>3, <1>4
<1> HIDE DEF S
<1>6. Labels(a, rows, risk) = [level |-> Max(S), integrity |-> Labels(a, rows, risk).integrity]
  BY DEF Labels, S
<1>7. Labels(a, rows, risk).integrity \in {"trusted", "untrusted"}
  BY DEF Labels
<1>8. Labels(a, rows, risk) \in LabelType
  BY <1>2, <1>6, <1>7 DEF LabelType
<1>9. /\ \A i \in Reads(rows) : trail[i].op.source = "external" =>
           Labels(a, rows, risk).integrity = "untrusted"
      /\ a \in DeclaresExternal => Labels(a, rows, risk).integrity = "untrusted"
  BY DEF Labels
<1>10. QED BY <1>5, <1>8, <1>9

\* What the labels cover and the flow check lets pass is contained.
LEMMA CheckedIsContained ==
  ASSUME TypeOK, NEW r, r.op \in Operations, r.labels \in LabelType,
         r.saw \subseteq DOMAIN trail, r.op.kind = "send",
         Covered(r, trail), ~ FlowViolated(r.labels, r.op)
  PROVE  Contained(r, trail)
<1>1. r.op.level \in Levels /\ r.op.dest \in {"declared", "undeclared"}
  BY OperationsAssumption DEF OperationType
<1>2. r.labels.level <= r.op.level /\ (r.labels.integrity = "untrusted" => r.op.dest = "declared")
  BY <1>1 DEF FlowViolated, LabelType, Levels
<1>3. ASSUME NEW i \in Counted(r, trail)
      PROVE  /\ trail[i].op.level <= r.op.level
             /\ r.op.dest = "declared" \/ trail[i].op.source = "own"
  <2>1. i \in DOMAIN trail
    BY DEF Counted
  <2>2. trail[i].op.level \in Levels /\ trail[i].op.source \in {"own", "external"}
    BY <2>1, EntryFacts
  <2>3. /\ trail[i].op.level <= r.labels.level
        /\ trail[i].op.source = "external" => r.labels.integrity = "untrusted"
    BY DEF Covered
  <2>4. r.labels.level \in Levels
    BY DEF LabelType
  <2>5. QED BY <1>1, <1>2, <2>2, <2>3, <2>4 DEF Levels
<1>4. r.agent \in DeclaresExternal => r.op.dest = "declared"
  BY <1>2 DEF Covered
<1>5. QED BY <1>3, <1>4 DEF Contained

-------------------------------------------------------------------------------
(* Requests.                                                               *)

PostedType ==
  [pc : {"posted", "scanning", "scanned", "scoring", "judging", "saving", "asking"},
   agent : Agents, op : Operations, content : Contents,
   risk : {"low", "high"}, labels : LabelType,
   at : Nat, row : Nat, readAt : Nat, saw : SUBSET Nat, wasBarred : {"yes", "no"}]

LEMMA IdleIsOK ==
  /\ Idle \in RequestType
  /\ \A t, e : RequestOK(Idle, t, e)
<1>1. Idle \in RequestType
  BY DEF Idle, RequestType, NoLabels, Levels, Contents
<1>2. Idle.pc = "idle" /\ Idle.saw = {} /\ Idle.wasBarred = "no"
  BY DEF Idle
<1>3. QED BY <1>1, <1>2 DEF RequestOK

LEMMA NoLabelsAreLabels == NoLabels \in LabelType
BY DEF NoLabels, LabelType, Levels

\* The request after its row was logged.
LEMMA LoggedIsTyped ==
  ASSUME NEW r \in PostedType, NEW row \in Nat
  PROVE  \E w \in RequestType :
           /\ w = [r EXCEPT !.pc = "logged", !.content = "none", !.risk = "low",
                            !.labels = NoLabels, !.at = 0, !.row = row]
           /\ w.pc = "logged" /\ w.row = row
           /\ w.agent = r.agent /\ w.op = r.op /\ w.saw = r.saw
           /\ w.readAt = r.readAt /\ w.wasBarred = r.wasBarred
<1>1. PICK u \in RequestType : /\ u = [r EXCEPT !.pc = "logged", !.content = "none"]
                               /\ u.pc = "logged" /\ u.agent = r.agent /\ u.op = r.op
                               /\ u.saw = r.saw /\ u.readAt = r.readAt
                               /\ u.wasBarred = r.wasBarred
  <2>1. [r EXCEPT !.pc = "logged", !.content = "none"] \in RequestType
    BY DEF PostedType, RequestType, LabelType, Contents
  <2>2. QED BY <2>1 DEF PostedType
<1>2. PICK v \in RequestType : /\ v = [u EXCEPT !.risk = "low", !.labels = NoLabels]
                               /\ v.pc = "logged" /\ v.agent = r.agent /\ v.op = r.op
                               /\ v.saw = r.saw /\ v.readAt = r.readAt
                               /\ v.wasBarred = r.wasBarred
  <2>1. [u EXCEPT !.risk = "low", !.labels = NoLabels] \in RequestType
    BY NoLabelsAreLabels DEF RequestType, LabelType
  <2>2. QED BY <1>1, <2>1, ZenonT(60) DEF RequestType
<1>3. PICK w \in RequestType : /\ w = [v EXCEPT !.at = 0, !.row = row]
                               /\ w.pc = "logged" /\ w.agent = r.agent /\ w.op = r.op
                               /\ w.saw = r.saw /\ w.readAt = r.readAt
                               /\ w.wasBarred = r.wasBarred /\ w.row = row
  <2>1. [v EXCEPT !.at = 0, !.row = row] \in RequestType
    BY DEF RequestType
  <2>2. QED BY <1>2, <2>1, ZenonT(60) DEF RequestType
<1>4. w = [r EXCEPT !.pc = "logged", !.content = "none", !.risk = "low",
                    !.labels = NoLabels, !.at = 0, !.row = row]
  BY <1>1, <1>2, <1>3
<1>5. QED BY <1>3, <1>4

\* A request that is well formed remains so when the trail grows.
LEMMA GrowthKeeps ==
  ASSUME NEW r, NEW t, NEW e, NEW t2, NEW e2, RequestOK(r, t, e),
         e \in [Agents -> SUBSET DOMAIN t],
         \A i \in DOMAIN t : i \in DOMAIN t2 /\ t2[i] = t[i],
         \A a \in Agents : e[a] \subseteq e2[a]
  PROVE  RequestOK(r, t2, e2)
<1>1. r.saw \subseteq DOMAIN t
  BY DEF RequestOK
<1>2. \A i \in r.saw : t2[i] = t[i]
  BY <1>1
<1>3. Counted(r, t2) = Counted(r, t)
  BY <1>2 DEF Counted
<1>4. \A i \in Counted(r, t) : t2[i] = t[i]
  BY <1>2 DEF Counted
<1>5. Covered(r, t) => Covered(r, t2)
  BY <1>3, <1>4 DEF Covered
<1>6. Contained(r, t) => Contained(r, t2)
  BY <1>3, <1>4 DEF Contained
<1>7. r.pc # "idle" => r.saw \subseteq e2[r.agent]
  BY DEF RequestOK
<1>8. r.pc = "logged" => r.row \in DOMAIN t2 /\ t2[r.row] = t[r.row]
  BY DEF RequestOK
<1>9. QED BY <1>5, <1>6, <1>7, <1>8 DEF RequestOK

-------------------------------------------------------------------------------
(* The two halves of the invariant: what requests and records satisfy, and the *)
(* rest.                                                                       *)

RecordsOK ==
  /\ trail \in Seq(EntryType)
  /\ history \subseteq DOMAIN trail
  /\ req \in [Handlers -> RequestType]
  /\ exposed \in [Agents -> SUBSET DOMAIN trail]
  /\ HistoryRemembers
  /\ \A h \in Handlers : RequestOK(req[h], trail, exposed)

GateOK ==
  /\ now \in Nat
  /\ registered \subseteq Agents
  /\ policies \subseteq Policies
  /\ quarantined \subseteq Agents
  /\ scans \in [Agents -> [found : {"nothing", "something"}, at : Nat]]
  /\ barred \subseteq Agents
  /\ barred \subseteq quarantined

LEMMA Halves == IInv <=> RecordsOK /\ GateOK
BY DEF IInv, RecordsOK, GateOK, TypeOK

LEMMA HalvesNext == IInv' <=> RecordsOK' /\ GateOK'
BY DEF IInv, RecordsOK, GateOK, TypeOK, HistoryRemembers, RequestOK

\* A step that moves one request and touches no record.
LEMMA MoveStep ==
  ASSUME RecordsOK, NEW h \in Handlers, NEW w \in RequestType, RequestOK(w, trail, exposed),
         req' = [req EXCEPT ![h] = w], UNCHANGED records, now' = now
  PROVE  RecordsOK'
<1>1. req' \in [Handlers -> RequestType]
  BY DEF RecordsOK
<1>2. \A g \in Handlers : req'[g] = IF g = h THEN w ELSE req[g]
  BY DEF RecordsOK
<1>3. trail' = trail /\ history' = history /\ exposed' = exposed
  BY DEF records
<1>4. \A g \in Handlers : RequestOK(req'[g], trail', exposed')
  BY <1>2, <1>3 DEF RecordsOK
<1>5. HistoryRemembers'
  BY <1>3 DEF HistoryRemembers, RecordsOK
<1>6. QED BY <1>1, <1>3, <1>4, <1>5 DEF RecordsOK

\* A request ends with a row in the trail, or with an exception before it.
LEMMA ConcludeStep ==
  ASSUME RecordsOK, NEW h \in Handlers, NEW r \in PostedType, NEW exit \in Exits,
         NEW verdict \in Verdicts, NEW at \in Nat, NEW claim \in LabelType \union {None},
         r.saw \subseteq exposed[r.agent],
         exit \in {"unknown", "failclosed"} => verdict = "DENY",
         r.wasBarred = "yes" => verdict = "DENY",
         exit # "policy" /\ verdict # "DENY" /\ r.op.kind = "send" => Contained(r, trail),
         Conclude(h, r, exit, verdict, at, claim), now' = now
  PROVE  RecordsOK'
<1>1. CASE req' = [req EXCEPT ![h] = Idle] /\ UNCHANGED records
  BY <1>1, MoveStep, IdleIsOK
<1>2. ASSUME NEW row \in Nat, row = Len(trail) + 1,
             NEW en \in EntryType, en = Entry(r, exit, verdict, at, claim),
             NEW w \in RequestType,
             w.pc = "logged", w.row = row, w.agent = r.agent, w.op = r.op,
             w.saw = r.saw, w.readAt = r.readAt, w.wasBarred = r.wasBarred,
             trail' = Append(trail, en),
             history' = IF exit \in {"unknown", "failclosed"} THEN history
                        ELSE history \union {row},
             exposed' = IF verdict = "DENY" THEN exposed
                        ELSE [exposed EXCEPT ![r.agent] = @ \union {row}],
             req' = [req EXCEPT ![h] = w]
      PROVE  RecordsOK'
  <2>1. /\ trail' \in Seq(EntryType) /\ DOMAIN trail' = DOMAIN trail \union {row}
        /\ trail'[row] = en
        /\ \A i \in DOMAIN trail : i \in DOMAIN trail' /\ trail'[i] = trail[i]
        /\ row \notin DOMAIN trail
    BY <1>2 DEF RecordsOK
  <2>2. history' \subseteq DOMAIN trail'
    BY <1>2, <2>1 DEF RecordsOK
  <2>3. r.agent \in Agents /\ en.agent = r.agent /\ en.verdict = verdict /\ en.exit = exit
    BY <1>2 DEF PostedType, Entry
  <2>4. /\ exposed' \in [Agents -> SUBSET DOMAIN trail']
        /\ \A a \in Agents : exposed[a] \subseteq exposed'[a]
        /\ \A a \in Agents : exposed'[a] \subseteq exposed[a] \union {row}
        /\ \A a \in Agents : row \in exposed'[a] => a = r.agent /\ verdict # "DENY"
    BY <1>2, <2>1, <2>3 DEF RecordsOK
  <2>5. req' \in [Handlers -> RequestType] /\ req'[h] = w
        /\ \A g \in Handlers : g # h => req'[g] = req[g]
    BY <1>2 DEF RecordsOK
  <2>6. HistoryRemembers'
    <3>1. SUFFICES ASSUME NEW a \in Agents, NEW i \in exposed'[a]
                   PROVE  /\ trail'[i].agent = a
                          /\ trail'[i].at >= now - HistoryAge => i \in history'
      BY <1>2 DEF HistoryRemembers
    <3>2. CASE i = row
      BY <1>2, <2>1, <2>3, <2>4, <3>2
    <3>3. CASE i # row
      <4>1. i \in exposed[a] /\ i \in DOMAIN trail
        BY <2>4, <3>3 DEF RecordsOK
      <4>2. trail[i].agent = a /\ (trail[i].at >= now - HistoryAge => i \in history)
        BY <4>1 DEF RecordsOK, HistoryRemembers
      <4>3. history \subseteq history'
        BY <1>2
      <4>4. QED BY <2>1, <4>1, <4>2, <4>3
    <3>4. QED BY <3>2, <3>3
  <2>7. RequestOK(w, trail', exposed')
    <3>1. Contained(r, trail) => Contained(w, trail')
      <4>1. r.saw \subseteq DOMAIN trail
        BY <2>3 DEF RecordsOK
      <4>2. Counted(w, trail') = Counted(r, trail)
        BY <1>2, <2>1, <4>1 DEF Counted
      <4>3. \A i \in Counted(r, trail) : trail'[i] = trail[i]
        BY <2>1, <4>1 DEF Counted
      <4>4. QED BY <1>2, <4>2, <4>3 DEF Contained
    <3>2. w.agent \in Agents /\ w.op \in Operations /\ w.saw \subseteq exposed'[w.agent]
      BY <1>2, <2>3, <2>4 DEF PostedType
    <3>3. QED BY <1>2, <2>1, <2>3, <3>1, <3>2 DEF RequestOK
  <2>8. ASSUME NEW g \in Handlers
        PROVE  RequestOK(req'[g], trail', exposed')
    <3>1. CASE g = h
      BY <2>5, <2>7, <3>1
    <3>2. CASE g # h
      <4>1. RequestOK(req[g], trail, exposed)
        BY DEF RecordsOK
      <4>2. RequestOK(req[g], trail', exposed')
        BY <2>1, <2>4, <4>1, GrowthKeeps DEF RecordsOK
      <4>3. QED BY <2>5, <3>2, <4>2
    <3>3. QED BY <3>1, <3>2
  <2>9. QED BY <2>1, <2>2, <2>4, <2>5, <2>6, <2>8 DEF RecordsOK
<1>3. CASE ~ (req' = [req EXCEPT ![h] = Idle] /\ UNCHANGED records)
  <2>1. PICK row \in Nat : row = Len(trail) + 1
    BY DEF RecordsOK
  <2>2. Entry(r, exit, verdict, at, claim) \in EntryType
    BY DEF Entry, EntryType, PostedType, LabelType
  <2>3. PICK w \in RequestType :
           /\ w = [r EXCEPT !.pc = "logged", !.content = "none", !.risk = "low",
                            !.labels = NoLabels, !.at = 0, !.row = row]
           /\ w.pc = "logged" /\ w.row = row
           /\ w.agent = r.agent /\ w.op = r.op /\ w.saw = r.saw
           /\ w.readAt = r.readAt /\ w.wasBarred = r.wasBarred
    BY LoggedIsTyped
  <2>4. /\ trail' = Append(trail, Entry(r, exit, verdict, at, claim))
        /\ history' = IF exit \in {"unknown", "failclosed"} THEN history
                      ELSE history \union {row}
        /\ exposed' = IF verdict = "DENY" THEN exposed
                      ELSE [exposed EXCEPT ![r.agent] = @ \union {row}]
        /\ req' = [req EXCEPT ![h] = w]
    BY <1>3, <2>1, <2>3 DEF Conclude
  <2>5. QED BY <1>2, <2>1, <2>2, <2>3, <2>4
<1>4. QED BY <1>1, <1>3

-------------------------------------------------------------------------------
(* The handler.                                                            *)

LEMMA RequestInProgress ==
  ASSUME RecordsOK, NEW h \in Handlers,
         req[h].pc \in {"scanning", "scanned", "scoring", "judging", "saving", "asking"}
  PROVE  /\ req[h] \in PostedType /\ req[h] \in RequestType
         /\ req[h].saw \subseteq exposed[req[h].agent] /\ req[h].saw \subseteq DOMAIN trail
         /\ req[h].wasBarred = "no" /\ req[h].labels \in LabelType
<1>1. req[h] \in RequestType /\ RequestOK(req[h], trail, exposed)
  BY DEF RecordsOK
<1>2. /\ req[h].agent \in Agents /\ req[h].op \in Operations
      /\ req[h].saw \subseteq exposed[req[h].agent] /\ req[h].wasBarred = "no"
  BY <1>1 DEF RequestOK
<1>3. req[h] \in PostedType
  BY <1>1, <1>2 DEF RequestType, PostedType, LabelType
<1>4. QED BY <1>1, <1>2, <1>3 DEF RecordsOK, PostedType

\* A request in another phase is otherwise the same.
LEMMA PhaseIsTyped ==
  ASSUME NEW r \in PostedType,
         NEW pc \in {"scanning", "scanned", "scoring", "judging", "saving", "asking"}
  PROVE  \E w \in RequestType : /\ w = [r EXCEPT !.pc = pc]
                                /\ w.pc = pc /\ w.agent = r.agent /\ w.op = r.op
                                /\ w.saw = r.saw /\ w.readAt = r.readAt
                                /\ w.wasBarred = r.wasBarred /\ w.labels = r.labels
<1>1. [r EXCEPT !.pc = pc] \in RequestType
  BY DEF PostedType, RequestType, LabelType
<1>2. QED BY <1>1 DEF PostedType

LEMMA GateUnchanged ==
  ASSUME GateOK, UNCHANGED gate
  PROVE  GateOK' /\ now' = now
BY DEF GateOK, gate

LEMMA AnswerStep ==
  ASSUME IInv, NEW h \in Handlers, Answer(h)
  PROVE  IInv'
<1>1. RecordsOK'
  BY Halves, MoveStep, IdleIsOK DEF Answer, gate
<1>2. QED BY <1>1, Halves, HalvesNext, GateUnchanged DEF Answer

LEMMA RequestIsTyped ==
  ASSUME IInv, NEW a \in Agents, NEW op \in Operations, NEW content \in Contents
  PROVE  /\ Request(a, op, content) \in PostedType
         /\ Request(a, op, content).pc = "posted"
         /\ Request(a, op, content).agent = a /\ Request(a, op, content).op = op
         /\ Request(a, op, content).saw = exposed[a]
         /\ Request(a, op, content).wasBarred = "yes" => a \in quarantined
         /\ Request(a, op, content).wasBarred \in {"yes", "no"}
<1>1. exposed[a] \subseteq Nat
  BY Halves DEF RecordsOK
<1>2. barred \subseteq quarantined
  BY DEF IInv
<1>3. QED BY <1>1, <1>2, NoLabelsAreLabels DEF Request, PostedType

LEMMA PostStep ==
  ASSUME IInv, NEW h \in Handlers, NEW a \in Agents, NEW op \in Operations,
         NEW content \in Contents, Post(h, a, op, content)
  PROVE  IInv'
<1>1. PICK r \in PostedType :
        /\ r = Request(a, op, content) /\ r.agent = a /\ r.op = op /\ r.pc = "posted"
        /\ r.saw = exposed[a] /\ (r.wasBarred = "yes" => a \in quarantined)
        /\ r.wasBarred \in {"yes", "no"}
  BY RequestIsTyped
<1>2. RecordsOK /\ GateOK /\ GateOK' /\ now' = now /\ now \in Nat
  BY Halves, GateUnchanged DEF Post, GateOK
<1>3. CASE Conclude(h, r, "unknown", "DENY", now, None)
  BY <1>1, <1>2, <1>3, ConcludeStep, HalvesNext DEF Exits, Verdicts
<1>4. CASE Conclude(h, r, "quarantine", "DENY", now, None)
  BY <1>1, <1>2, <1>4, ConcludeStep, HalvesNext DEF Exits, Verdicts
<1>5. CASE /\ a \notin quarantined /\ PolicyEffect(a, op) # "none"
           /\ Conclude(h, r, "policy", PolicyEffect(a, op), now, None)
  <2>1. PolicyEffect(a, op) \in Verdicts
    BY <1>5 DEF PolicyEffect, Verdicts
  <2>2. RecordsOK'
    BY <1>1, <1>2, <1>5, <2>1, ConcludeStep DEF Exits
  <2>3. QED BY <1>2, <2>2, HalvesNext
<1>6. CASE /\ a \notin quarantined /\ UNCHANGED records
           /\ req' = [req EXCEPT ![h] =
                IF content # "none" THEN [r EXCEPT !.pc = "scanning"]
                ELSE [r EXCEPT !.pc = "scoring", !.risk = Risk(a)]]
  <2>1. PICK w \in RequestType :
          /\ w = IF content # "none" THEN [r EXCEPT !.pc = "scanning"]
                 ELSE [r EXCEPT !.pc = "scoring", !.risk = Risk(a)]
          /\ w.pc \in {"scanning", "scoring"} /\ w.agent = a /\ w.op = op
          /\ w.saw = r.saw /\ w.wasBarred = r.wasBarred
    <3>1. CASE content # "none"
      BY <1>1, <3>1, PhaseIsTyped
    <3>2. CASE content = "none"
      <4>1. PICK v \in RequestType : /\ v = [r EXCEPT !.pc = "scoring"]
                                     /\ v.pc = "scoring" /\ v.agent = a /\ v.op = op
                                     /\ v.saw = r.saw /\ v.wasBarred = r.wasBarred
        BY <1>1, PhaseIsTyped
      <4>2. [v EXCEPT !.risk = Risk(a)] \in RequestType
        BY DEF RequestType, Risk
      <4>3. [v EXCEPT !.risk = Risk(a)] = [r EXCEPT !.pc = "scoring", !.risk = Risk(a)]
        BY <4>1
      <4>4. QED BY <3>2, <4>1, <4>2, <4>3 DEF RequestType
    <3>3. QED BY <3>1, <3>2
  <2>2. RequestOK(w, trail, exposed)
    <3>1. w.wasBarred = "no" /\ w.saw \subseteq exposed[w.agent]
      BY <1>1, <1>6, <2>1
    <3>2. QED BY <2>1, <3>1 DEF RequestOK
  <2>3. RecordsOK'
    BY <1>2, <1>6, <2>1, <2>2, MoveStep
  <2>4. QED BY <1>2, <2>3, HalvesNext
<1>7. QED BY <1>1, <1>3, <1>4, <1>5, <1>6 DEF Post

LEMMA RecordScanStep ==
  ASSUME IInv, NEW h \in Handlers, RecordScan(h)
  PROVE  IInv'
<1>1. RecordsOK /\ GateOK
  BY Halves
<1>2. req[h] \in PostedType /\ req[h].saw \subseteq exposed[req[h].agent] /\ req[h].wasBarred = "no"
  BY <1>1, RequestInProgress DEF RecordScan
<1>3. PICK w \in RequestType : /\ w = [req[h] EXCEPT !.pc = "scanned"]
                               /\ w.pc = "scanned" /\ w.agent = req[h].agent
                               /\ w.op = req[h].op /\ w.saw = req[h].saw
                               /\ w.wasBarred = "no"
  BY <1>2, PhaseIsTyped
<1>4. RequestOK(w, trail, exposed)
  BY <1>2, <1>3 DEF RequestOK, PostedType
<1>5. req' = [req EXCEPT ![h] = w] /\ UNCHANGED records /\ now' = now
  BY <1>1, <1>3 DEF RecordScan, RecordsOK
<1>6. RecordsOK'
  BY <1>1, <1>4, <1>5, MoveStep
<1>7. ScanResult(req[h].content) \in [found : {"nothing", "something"}, at : Nat]
  BY <1>1 DEF ScanResult, NoScan, GateOK
<1>8. GateOK'
  BY <1>1, <1>7 DEF RecordScan, GateOK
<1>9. QED BY <1>6, <1>8, HalvesNext

LEMMA UseScanStep ==
  ASSUME IInv, NEW h \in Handlers, UseScan(h)
  PROVE  IInv'
<1>1. RecordsOK /\ GateOK /\ GateOK' /\ now' = now /\ now \in Nat
  BY Halves, GateUnchanged DEF UseScan, GateOK
<1>2. PICK r \in PostedType : /\ r = req[h] /\ r.saw \subseteq exposed[r.agent]
                              /\ r.wasBarred = "no"
  BY <1>1, RequestInProgress DEF UseScan
<1>3. CASE Conclude(h, r, "injection", "DENY", now, None)
  BY <1>1, <1>2, <1>3, ConcludeStep, HalvesNext DEF Exits, Verdicts
<1>4. CASE /\ req' = [req EXCEPT ![h].pc = "scoring", ![h].content = "none",
                                 ![h].risk = Risk(req[h].agent)]
           /\ UNCHANGED records
  <2>1. PICK v \in RequestType : /\ v = [r EXCEPT !.pc = "scoring"]
                                 /\ v.pc = "scoring" /\ v.agent = r.agent /\ v.op = r.op
                                 /\ v.saw = r.saw /\ v.wasBarred = r.wasBarred
    BY PhaseIsTyped
  <2>2. [v EXCEPT !.content = "none", !.risk = Risk(r.agent)] \in RequestType
    BY DEF RequestType, Risk, Contents
  <2>3. PICK w \in RequestType : /\ w = [v EXCEPT !.content = "none", !.risk = Risk(r.agent)]
                                 /\ w.pc = "scoring" /\ w.agent = r.agent /\ w.op = r.op
                                 /\ w.saw = r.saw /\ w.wasBarred = "no"
    BY <1>2, <2>1, <2>2, ZenonT(60) DEF RequestType
  <2>4. req' = [req EXCEPT ![h] = w]
    BY <1>1, <1>2, <1>4, <2>1, <2>3 DEF RecordsOK
  <2>5. RequestOK(w, trail, exposed)
    <3>1. r.agent \in Agents /\ r.op \in Operations
      BY DEF PostedType
    <3>2. w.saw \subseteq exposed[w.agent]
      BY <1>2, <2>3
    <3>3. QED BY <2>3, <3>1, <3>2 DEF RequestOK
  <2>6. RecordsOK'
    BY <1>1, <1>4, <2>4, <2>5, MoveStep
  <2>7. QED BY <1>1, <2>6, HalvesNext
<1>5. QED BY <1>2, <1>3, <1>4 DEF UseScan

\* The labels read from the history cover what the request knew of: no such row
\* was lost, since what an agent was let do is remembered for HistoryAge.
LEMMA ReadHistoryCovers ==
  ASSUME RecordsOK, GateOK, TypeOK, NEW h \in Handlers, NEW r, NEW a \in Agents,
         r.saw \subseteq exposed[a], r.agent = a, r.readAt = now,
         r.labels = Labels(a, Session(a, now), r.risk)
  PROVE  Covered(r, trail) /\ r.labels \in LabelType
<1>1. Session(a, now) \in SUBSET DOMAIN trail
  BY DEF Session, RecordsOK
<1>2. ASSUME NEW i \in Counted(r, trail)
      PROVE  i \in Reads(Session(a, now))
  <2>1. i \in exposed[a] /\ trail[i].at >= now - HistoryAge /\ trail[i].at > now - Window
        /\ trail[i].op.kind = "read"
    BY DEF Counted
  <2>2. trail[i].agent = a /\ i \in history
    BY <2>1 DEF RecordsOK, HistoryRemembers
  <2>3. QED BY <2>1, <2>2 DEF Session, Reads
<1>3. QED BY <1>1, <1>2, LabelsCover DEF Covered

LEMMA ReadHistoryStep ==
  ASSUME IInv, NEW h \in Handlers, ReadHistory(h)
  PROVE  IInv'
<1>1. RecordsOK /\ GateOK /\ GateOK' /\ now' = now /\ now \in Nat /\ TypeOK
  BY Halves, GateUnchanged DEF ReadHistory, GateOK, IInv
<1>2. PICK r \in PostedType : /\ r = req[h] /\ r.saw \subseteq exposed[r.agent]
                              /\ r.wasBarred = "no"
  BY <1>1, RequestInProgress DEF ReadHistory
<1>3. PICK l \in LabelType : l = Labels(r.agent, Session(r.agent, now), r.risk)
  <2>1. Session(r.agent, now) \in SUBSET DOMAIN trail
    BY <1>1 DEF Session, RecordsOK
  <2>2. QED BY <1>1, <2>1, LabelsCover
<1>4. PICK v \in RequestType : /\ v = [r EXCEPT !.pc = "judging"]
                               /\ v.pc = "judging" /\ v.agent = r.agent /\ v.op = r.op
                               /\ v.saw = r.saw /\ v.wasBarred = r.wasBarred
                               /\ v.risk = r.risk
  <2>1. PICK v \in RequestType : /\ v = [r EXCEPT !.pc = "judging"]
                                 /\ v.pc = "judging" /\ v.agent = r.agent /\ v.op = r.op
                                 /\ v.saw = r.saw /\ v.wasBarred = r.wasBarred
    BY PhaseIsTyped
  <2>2. v.risk = r.risk
    BY <2>1 DEF PostedType
  <2>3. QED BY <2>1, <2>2
<1>5. PICK w \in RequestType : /\ w = [v EXCEPT !.labels = l, !.readAt = now]
                               /\ w.pc = "judging" /\ w.agent = r.agent /\ w.op = r.op
                               /\ w.saw = r.saw /\ w.wasBarred = "no" /\ w.risk = r.risk
                               /\ w.labels = l /\ w.readAt = now
  <2>1. [v EXCEPT !.labels = l, !.readAt = now] \in RequestType
    BY <1>1 DEF RequestType, LabelType
  <2>2. QED BY <1>2, <1>4, <2>1, ZenonT(60) DEF RequestType
<1>6. req' = [req EXCEPT ![h] = w]
  BY <1>1, <1>2, <1>3, <1>4, <1>5 DEF RecordsOK, ReadHistory
<1>7. r.agent \in Agents /\ r.op \in Operations
  BY DEF PostedType
<1>8. Covered(w, trail)
  BY <1>1, <1>2, <1>3, <1>5, <1>7, ReadHistoryCovers
<1>9. RequestOK(w, trail, exposed)
  BY <1>2, <1>5, <1>7, <1>8 DEF RequestOK
<1>10. RecordsOK'
  BY <1>1, <1>6, <1>9, MoveStep DEF ReadHistory
<1>11. QED BY <1>1, <1>10, HalvesNext

\* A refusal: the labels no longer matter, for nothing is sent.
LEMMA RefuseStep ==
  ASSUME IInv, NEW h \in Handlers, NEW r \in PostedType, r = req[h],
         r.saw \subseteq exposed[r.agent], r.wasBarred = "no",
         NEW flags, Refuse(h, r, flags), UNCHANGED <<now, registered, policies, scans>>
  PROVE  IInv'
<1>1. RecordsOK /\ GateOK /\ now \in Nat /\ r.agent \in Agents /\ r.labels \in LabelType
  BY Halves DEF GateOK, PostedType
<1>2. CASE /\ quarantined' = quarantined \union {r.agent}
           /\ req' = [req EXCEPT ![h] = [r EXCEPT !.pc = "saving", !.at = now]]
           /\ UNCHANGED records
  <2>1. PICK v \in RequestType : /\ v = [r EXCEPT !.pc = "saving"]
                                 /\ v.pc = "saving" /\ v.agent = r.agent /\ v.op = r.op
                                 /\ v.saw = r.saw /\ v.wasBarred = r.wasBarred
    BY PhaseIsTyped
  <2>2. [v EXCEPT !.at = now] \in RequestType
    BY <1>1 DEF RequestType
  <2>3. PICK w \in RequestType : /\ w = [v EXCEPT !.at = now]
                                 /\ w.pc = "saving" /\ w.agent = r.agent /\ w.op = r.op
                                 /\ w.saw = r.saw /\ w.wasBarred = "no"
    BY <2>1, <2>2 DEF RequestType
  <2>4. req' = [req EXCEPT ![h] = w]
    BY <1>2, <2>1, <2>3
  <2>5. RequestOK(w, trail, exposed)
    <3>1. r.op \in Operations /\ w.saw \subseteq exposed[w.agent]
      BY <2>3 DEF PostedType
    <3>2. QED BY <1>1, <2>3, <3>1 DEF RequestOK
  <2>6. RecordsOK'
    BY <1>1, <1>2, <2>4, <2>5, MoveStep
  <2>7. GateOK'
    BY <1>1, <1>2 DEF Refuse, GateOK
  <2>8. QED BY <2>6, <2>7, HalvesNext
<1>3. CASE /\ ~ Trips(flags, r.labels, r.op)
           /\ Conclude(h, r, "pipeline", "DENY", now, r.labels)
           /\ UNCHANGED quarantined
  <2>1. RecordsOK'
    BY <1>1, <1>3, ConcludeStep DEF Exits, Verdicts
  <2>2. GateOK'
    BY <1>1, <1>3 DEF Refuse, GateOK, Trips
  <2>3. QED BY <2>1, <2>2, HalvesNext
<1>4. QED BY <1>2, <1>3 DEF Refuse

LEMMA DecideStep ==
  ASSUME IInv, NEW h \in Handlers, Decide(h)
  PROVE  IInv'
<1>1. RecordsOK /\ GateOK /\ TypeOK /\ now \in Nat /\ now' = now
  BY Halves DEF Decide, GateOK, IInv
<1>2. PICK r \in PostedType : /\ r = req[h] /\ r.saw \subseteq exposed[r.agent]
                              /\ r.wasBarred = "no" /\ r.labels \in LabelType
                              /\ r.saw \subseteq DOMAIN trail /\ r.pc = "judging"
  BY <1>1, RequestInProgress DEF Decide
<1>3. Covered(r, trail) /\ r.op \in Operations /\ r.agent \in Agents
  BY <1>1, <1>2 DEF RecordsOK, RequestOK, PostedType
<1>4. PICK score \in {"above", "near", "below"}, flags \in Flags(r.op, r.risk),
           verdict \in {"PERMIT", "ESCALATE", "DENY"} :
        /\ verdict = IF FlowViolated(r.labels, r.op) THEN "DENY"
                     ELSE MakeDecision(score, flags, r.op)
        /\ \/ verdict = "DENY" /\ Refuse(h, r, flags)
           \/ /\ verdict = "ESCALATE" /\ r.agent \in NeedsApproval
              /\ req' = [req EXCEPT ![h].pc = "asking"]
              /\ UNCHANGED records /\ UNCHANGED <<quarantined, barred>>
           \/ /\ verdict = "PERMIT" \/ (verdict = "ESCALATE" /\ r.agent \notin NeedsApproval)
              /\ Conclude(h, r, "pipeline", verdict, now, r.labels)
              /\ UNCHANGED <<quarantined, barred>>
  BY <1>2 DEF Decide, MakeDecision
<1>5. verdict # "DENY" => ~ FlowViolated(r.labels, r.op)
  BY <1>4
<1>6. CASE verdict = "DENY" /\ Refuse(h, r, flags)
  BY <1>2, <1>6, RefuseStep DEF Decide
<1>7. CASE /\ verdict = "ESCALATE" /\ req' = [req EXCEPT ![h].pc = "asking"]
           /\ UNCHANGED records /\ UNCHANGED <<quarantined, barred>>
  <2>1. PICK w \in RequestType : /\ w = [r EXCEPT !.pc = "asking"]
                                 /\ w.pc = "asking" /\ w.agent = r.agent /\ w.op = r.op
                                 /\ w.saw = r.saw /\ w.readAt = r.readAt
                                 /\ w.wasBarred = r.wasBarred /\ w.labels = r.labels
    BY PhaseIsTyped
  <2>2. Counted(w, trail) = Counted(r, trail)
    BY <2>1 DEF Counted
  <2>3. Covered(w, trail)
    BY <1>3, <2>1, <2>2 DEF Covered
  <2>4. ~ FlowViolated(w.labels, w.op)
    BY <1>5, <1>7, <2>1
  <2>5. RequestOK(w, trail, exposed)
    BY <1>2, <1>3, <2>1, <2>3, <2>4 DEF RequestOK
  <2>6. req' = [req EXCEPT ![h] = w]
    BY <1>1, <1>2, <1>7, <2>1 DEF RecordsOK
  <2>7. RecordsOK'
    BY <1>1, <1>7, <2>5, <2>6, MoveStep
  <2>8. GateOK'
    BY <1>1, <1>7 DEF Decide, GateOK
  <2>9. QED BY <2>7, <2>8, HalvesNext
<1>8. CASE /\ verdict # "DENY" /\ Conclude(h, r, "pipeline", verdict, now, r.labels)
           /\ UNCHANGED <<quarantined, barred>>
  <2>1. r.op.kind = "send" => Contained(r, trail)
    BY <1>1, <1>2, <1>3, <1>5, <1>8, CheckedIsContained
  <2>2. RecordsOK'
    BY <1>1, <1>2, <1>8, <2>1, ConcludeStep DEF Exits, Verdicts
  <2>3. GateOK'
    BY <1>1, <1>8 DEF Decide, GateOK
  <2>4. QED BY <2>2, <2>3, HalvesNext
<1>9. QED BY <1>4, <1>6, <1>7, <1>8

LEMMA SavedStep ==
  ASSUME IInv, NEW h \in Handlers, Saved(h)
  PROVE  IInv'
<1>1. RecordsOK /\ GateOK /\ GateOK' /\ now' = now
  BY Halves, GateUnchanged DEF Saved
<1>2. PICK r \in PostedType : /\ r = req[h] /\ r.saw \subseteq exposed[r.agent]
                              /\ r.wasBarred = "no" /\ r.labels \in LabelType
                              /\ r.at \in Nat
  BY <1>1, RequestInProgress DEF Saved, PostedType
<1>3. Conclude(h, r, "pipeline", "DENY", r.at, r.labels)
  BY <1>2 DEF Saved
<1>4. RecordsOK'
  BY <1>1, <1>2, <1>3, ConcludeStep DEF Exits, Verdicts
<1>5. QED BY <1>1, <1>4, HalvesNext

LEMMA AskedStep ==
  ASSUME IInv, NEW h \in Handlers, Asked(h)
  PROVE  IInv'
<1>1. RecordsOK /\ GateOK /\ GateOK' /\ TypeOK /\ now' = now /\ now \in Nat
  BY Halves, GateUnchanged DEF Asked, GateOK, IInv
<1>2. PICK r \in PostedType : /\ r = req[h] /\ r.saw \subseteq exposed[r.agent]
                              /\ r.wasBarred = "no" /\ r.labels \in LabelType
                              /\ r.saw \subseteq DOMAIN trail /\ r.pc = "asking"
  BY <1>1, RequestInProgress DEF Asked
<1>3. Covered(r, trail) /\ ~ FlowViolated(r.labels, r.op) /\ r.op \in Operations
  BY <1>1, <1>2 DEF RecordsOK, RequestOK, PostedType
<1>4. r.op.kind = "send" => Contained(r, trail)
  BY <1>1, <1>2, <1>3, CheckedIsContained
<1>5. Conclude(h, r, "pipeline", "PENDING", now, r.labels)
  BY <1>2 DEF Asked
<1>6. RecordsOK'
  BY <1>1, <1>2, <1>4, <1>5, ConcludeStep DEF Exits, Verdicts
<1>7. QED BY <1>1, <1>6, HalvesNext

LEMMA PipelineRaisesStep ==
  ASSUME IInv, NEW h \in Handlers, PipelineRaises(h)
  PROVE  IInv'
<1>1. RecordsOK /\ GateOK /\ GateOK' /\ now' = now /\ now \in Nat
  BY Halves, GateUnchanged DEF PipelineRaises, GateOK
<1>2. PICK r \in PostedType : /\ r = req[h] /\ r.saw \subseteq exposed[r.agent]
                              /\ r.wasBarred = "no"
  BY <1>1, RequestInProgress DEF PipelineRaises
<1>3. CASE Conclude(h, r, "failclosed", "DENY", now, None)
  BY <1>1, <1>2, <1>3, ConcludeStep, HalvesNext DEF Exits, Verdicts
<1>4. CASE req' = [req EXCEPT ![h] = Idle] /\ UNCHANGED records
  BY <1>1, <1>4, MoveStep, IdleIsOK, HalvesNext
<1>5. QED BY <1>2, <1>3, <1>4 DEF PipelineRaises

LEMMA RaisesStep ==
  ASSUME IInv, NEW h \in Handlers, Raises(h)
  PROVE  IInv'
<1>1. RecordsOK /\ GateOK /\ GateOK' /\ now' = now
  BY Halves, GateUnchanged DEF Raises
<1>2. QED BY <1>1, MoveStep, IdleIsOK, HalvesNext DEF Raises

-------------------------------------------------------------------------------
(* Everybody else.                                                         *)

\* Steps that touch neither records nor requests.
LEMMA ElsewhereStep ==
  ASSUME RecordsOK, UNCHANGED <<now, req>>, UNCHANGED records
  PROVE  RecordsOK'
<1>1. req' = req /\ now' = now /\ trail' = trail /\ history' = history /\ exposed' = exposed
  BY DEF records
<1>2. HistoryRemembers'
  BY <1>1 DEF HistoryRemembers, RecordsOK
<1>3. QED BY <1>1, <1>2 DEF RecordsOK

LEMMA ScanStep ==
  ASSUME IInv, NEW a \in Agents, NEW level, Scan(a, level)
  PROVE  IInv'
<1>1. RecordsOK'
  BY Halves, ElsewhereStep DEF Scan, records
<1>2. ScanResult(level) \in [found : {"nothing", "something"}, at : Nat]
  BY Halves DEF ScanResult, NoScan, GateOK
<1>3. GateOK'
  BY <1>2, Halves DEF Scan, GateOK
<1>4. QED BY <1>1, <1>3, HalvesNext

LEMMA RegisterStep ==
  ASSUME IInv, NEW a \in Agents, Register(a)
  PROVE  IInv'
<1>1. RecordsOK'
  BY Halves, ElsewhereStep DEF Register, records
<1>2. GateOK'
  BY Halves DEF Register, GateOK
<1>3. QED BY <1>1, <1>2, HalvesNext

LEMMA ChangePolicyStep ==
  ASSUME IInv, NEW p \in Policies, ChangePolicy(p)
  PROVE  IInv'
<1>1. RecordsOK'
  BY Halves, ElsewhereStep DEF ChangePolicy, records
<1>2. GateOK'
  BY Halves DEF ChangePolicy, GateOK
<1>3. QED BY <1>1, <1>2, HalvesNext

LEMMA QuarantineAgentStep ==
  ASSUME IInv, NEW a \in Agents, QuarantineAgent(a)
  PROVE  IInv'
<1>1. RecordsOK'
  BY Halves, ElsewhereStep DEF QuarantineAgent, records
<1>2. GateOK'
  BY Halves DEF QuarantineAgent, GateOK
<1>3. QED BY <1>1, <1>2, HalvesNext

\* Fewer things to remember, or to be barred for, never hurt a request.
LEMMA ForgottenIsOK ==
  ASSUME NEW r \in RequestType, NEW t, NEW e, NEW e2, RequestOK(r, t, e),
         \A a \in Agents : a # r.agent => e2[a] = e[a]
  PROVE  /\ [r EXCEPT !.saw = {}] \in RequestType
         /\ RequestOK([r EXCEPT !.saw = {}], t, e2)
<1>1. [r EXCEPT !.saw = {}] \in RequestType
  BY DEF RequestType
<1>2. PICK w \in RequestType : w = [r EXCEPT !.saw = {}]
  BY <1>1
<1>3. /\ w.saw = {} /\ w.pc = r.pc /\ w.agent = r.agent /\ w.op = r.op /\ w.labels = r.labels
      /\ w.row = r.row /\ w.wasBarred = r.wasBarred
  BY <1>2 DEF RequestType
<1>4. Counted(w, t) = {}
  BY <1>3 DEF Counted
<1>5. Covered(r, t) => Covered(w, t)
  BY <1>3, <1>4 DEF Covered
<1>6. Contained(r, t) => Contained(w, t)
  BY <1>3, <1>4 DEF Contained
<1>7. RequestOK(w, t, e2)
  BY <1>3, <1>5, <1>6 DEF RequestOK
<1>8. QED BY <1>1, <1>2, <1>7

LEMMA DeregisterStep ==
  ASSUME IInv, NEW a \in Agents, Deregister(a)
  PROVE  IInv'
<1>1. RecordsOK /\ GateOK
  BY Halves
<1>2. /\ trail' = trail /\ now' = now /\ history' = {i \in history : trail[i].agent # a}
      /\ exposed' \in [Agents -> SUBSET DOMAIN trail] /\ exposed'[a] = {}
      /\ \A b \in Agents : b # a => exposed'[b] = exposed[b]
  BY <1>1 DEF Deregister, RecordsOK
<1>3. ASSUME NEW h \in Handlers
      PROVE  req'[h] \in RequestType /\ RequestOK(req'[h], trail, exposed')
  <2>1. PICK r \in RequestType : r = req[h] /\ RequestOK(r, trail, exposed)
    BY <1>1 DEF RecordsOK
  <2>2. CASE r.agent = a
    <3>1. req'[h] = [r EXCEPT !.saw = {}]
      BY <2>1, <2>2 DEF Deregister
    <3>2. [r EXCEPT !.saw = {}] \in RequestType
          /\ RequestOK([r EXCEPT !.saw = {}], trail, exposed')
      BY <1>2, <2>1, <2>2, ForgottenIsOK
    <3>3. QED BY <3>1, <3>2
  <2>3. CASE r.agent # a
    <3>1. req'[h] = r
      BY <2>1, <2>3 DEF Deregister
    <3>2. RequestOK(r, trail, exposed')
      BY <1>2, <2>1, <2>3 DEF RequestOK
    <3>3. QED BY <3>1, <3>2
  <2>4. QED BY <2>2, <2>3
<1>4. req' \in [Handlers -> RequestType]
  BY <1>3 DEF Deregister
<1>5. HistoryRemembers'
  BY <1>1, <1>2 DEF HistoryRemembers, RecordsOK
<1>6. RecordsOK'
  BY <1>1, <1>2, <1>3, <1>4, <1>5 DEF RecordsOK
<1>7. GateOK'
  BY <1>1 DEF Deregister, GateOK
<1>8. QED BY <1>6, <1>7, HalvesNext

LEMMA UnbarredIsOK ==
  ASSUME NEW r \in RequestType, NEW t, NEW e, RequestOK(r, t, e)
  PROVE  /\ [r EXCEPT !.wasBarred = "no"] \in RequestType
         /\ RequestOK([r EXCEPT !.wasBarred = "no"], t, e)
<1>1. [r EXCEPT !.wasBarred = "no"] \in RequestType
  BY DEF RequestType
<1>2. PICK w \in RequestType : w = [r EXCEPT !.wasBarred = "no"]
  BY <1>1
<1>3. /\ w.saw = r.saw /\ w.pc = r.pc /\ w.agent = r.agent /\ w.op = r.op
      /\ w.labels = r.labels /\ w.row = r.row /\ w.readAt = r.readAt /\ w.wasBarred = "no"
  BY <1>2 DEF RequestType
<1>4. Counted(w, t) = Counted(r, t)
  BY <1>3 DEF Counted
<1>5. Covered(r, t) => Covered(w, t)
  BY <1>3, <1>4 DEF Covered
<1>6. Contained(r, t) => Contained(w, t)
  BY <1>3, <1>4 DEF Contained
<1>7. RequestOK(w, t, e)
  BY <1>3, <1>5, <1>6 DEF RequestOK
<1>8. QED BY <1>1, <1>2, <1>7

LEMMA QuarantineEndsStep ==
  ASSUME IInv, NEW a \in Agents, QuarantineEnds(a)
  PROVE  IInv'
<1>1. RecordsOK /\ GateOK
  BY Halves
<1>2. trail' = trail /\ now' = now /\ history' = history /\ exposed' = exposed
  BY DEF QuarantineEnds
<1>3. ASSUME NEW h \in Handlers
      PROVE  req'[h] \in RequestType /\ RequestOK(req'[h], trail, exposed)
  <2>1. PICK r \in RequestType : r = req[h] /\ RequestOK(r, trail, exposed)
    BY <1>1 DEF RecordsOK
  <2>2. req'[h] = [r EXCEPT !.wasBarred = "no"] \/ req'[h] = r
    BY <2>1 DEF QuarantineEnds
  <2>3. QED BY <2>1, <2>2, UnbarredIsOK
<1>4. req' \in [Handlers -> RequestType]
  BY <1>3 DEF QuarantineEnds
<1>5. HistoryRemembers'
  BY <1>1, <1>2 DEF HistoryRemembers, RecordsOK
<1>6. RecordsOK'
  BY <1>1, <1>2, <1>3, <1>4, <1>5 DEF RecordsOK
<1>7. GateOK'
  BY <1>1 DEF QuarantineEnds, GateOK
<1>8. QED BY <1>6, <1>7, HalvesNext

\* The cleanup keeps what is younger than HistoryAge.
LEMMA RecentRemembers ==
  ASSUME RecordsOK, history' = Recent, UNCHANGED <<now, trail, exposed>>
  PROVE  HistoryRemembers' /\ history' \subseteq DOMAIN trail
BY DEF RecordsOK, HistoryRemembers, Recent

LEMMA PeriodicCleanupStep ==
  ASSUME IInv, PeriodicCleanup
  PROVE  IInv'
<1>1. RecordsOK /\ GateOK
  BY Halves
<1>2. HistoryRemembers' /\ history' \subseteq DOMAIN trail
  BY <1>1, RecentRemembers DEF PeriodicCleanup
<1>3. RecordsOK'
  BY <1>1, <1>2 DEF RecordsOK, PeriodicCleanup
<1>4. NoScan \in [found : {"nothing", "something"}, at : Nat]
  BY DEF NoScan
<1>5. GateOK'
  BY <1>1, <1>4 DEF GateOK, PeriodicCleanup
<1>6. QED BY <1>3, <1>5, HalvesNext

LEMMA RestartStep ==
  ASSUME IInv, Restart
  PROVE  IInv'
<1>1. RecordsOK /\ GateOK
  BY Halves
<1>2. HistoryRemembers' /\ history' \subseteq DOMAIN trail
  BY <1>1, RecentRemembers DEF Restart
<1>3. req' \in [Handlers -> RequestType] /\ \A h \in Handlers : req'[h] = Idle
  BY IdleIsOK DEF Restart
<1>4. RecordsOK'
  BY <1>1, <1>2, <1>3, IdleIsOK DEF RecordsOK, Restart
<1>5. NoScan \in [found : {"nothing", "something"}, at : Nat]
  BY DEF NoScan
<1>6. GateOK'
  BY <1>1, <1>5 DEF GateOK, Restart
<1>7. QED BY <1>4, <1>6, HalvesNext

LEMMA TickStep ==
  ASSUME IInv, Tick
  PROVE  IInv'
<1>1. RecordsOK /\ GateOK
  BY Halves
<1>2. HistoryRemembers'
  <2>1. SUFFICES ASSUME NEW a \in Agents, NEW i \in exposed[a]
                 PROVE  /\ trail[i].agent = a
                        /\ trail[i].at >= (now + 1) - HistoryAge => i \in history
    BY DEF Tick, HistoryRemembers
  <2>2. i \in DOMAIN trail
    BY <1>1 DEF RecordsOK
  <2>3. trail[i].at \in Nat /\ now \in Nat
    BY <1>1, <2>2, EntryFacts DEF GateOK, IInv
  <2>4. trail[i].agent = a /\ (trail[i].at >= now - HistoryAge => i \in history)
    BY <1>1 DEF RecordsOK, HistoryRemembers
  <2>5. QED BY <2>3, <2>4, TimeAssumption
<1>3. RecordsOK'
  BY <1>1, <1>2 DEF RecordsOK, Tick
<1>4. GateOK'
  BY <1>1 DEF GateOK, Tick
<1>5. QED BY <1>3, <1>4, HalvesNext

-------------------------------------------------------------------------------
(* The theorems.                                                           *)

LEMMA InitIsOK ==
  ASSUME Init
  PROVE  IInv
<1>1. <<>> \in Seq(EntryType) /\ DOMAIN <<>> = {}
  OBVIOUS
<1>2. TypeOK
  BY <1>1, IdleIsOK DEF Init, TypeOK, NoScan
<1>3. HistoryRemembers
  BY DEF Init, HistoryRemembers
<1>4. \A h \in Handlers : RequestOK(req[h], trail, exposed)
  BY IdleIsOK DEF Init
<1>5. QED BY <1>2, <1>3, <1>4 DEF Init, IInv

LEMMA NextKeeps ==
  ASSUME IInv, [Next]_vars
  PROVE  IInv'
<1>1. CASE UNCHANGED vars
  <2>1. UNCHANGED <<now, req>> /\ UNCHANGED records /\ UNCHANGED gate
    BY <1>1 DEF vars, records, gate
  <2>2. QED BY <2>1, Halves, HalvesNext, ElsewhereStep, GateUnchanged
<1>2. ASSUME NEW h \in Handlers, Handler(h)
      PROVE  IInv'
  <2>1. CASE \E a \in Agents, op \in Operations, content \in Contents : Post(h, a, op, content)
    BY <2>1, PostStep
  <2>2. CASE RecordScan(h)
    BY <2>2, RecordScanStep
  <2>3. CASE UseScan(h)
    BY <2>3, UseScanStep
  <2>4. CASE ReadHistory(h)
    BY <2>4, ReadHistoryStep
  <2>5. CASE Decide(h)
    BY <2>5, DecideStep
  <2>6. CASE Saved(h)
    BY <2>6, SavedStep
  <2>7. CASE Asked(h)
    BY <2>7, AskedStep
  <2>8. CASE PipelineRaises(h)
    BY <2>8, PipelineRaisesStep
  <2>9. CASE Raises(h)
    BY <2>9, RaisesStep
  <2>10. CASE Answer(h)
    BY <2>10, AnswerStep
  <2>11. QED
    BY <1>2, <2>1, <2>2, <2>3, <2>4, <2>5, <2>6, <2>7, <2>8, <2>9, <2>10 DEF Handler
<1>3. ASSUME NEW a \in Agents, Operator(a)
      PROVE  IInv'
  BY <1>3, RegisterStep, DeregisterStep, QuarantineAgentStep, QuarantineEndsStep, ScanStep
     DEF Operator
<1>4. CASE \E p \in Policies : ChangePolicy(p)
  BY <1>4, ChangePolicyStep
<1>5. CASE PeriodicCleanup
  BY <1>5, PeriodicCleanupStep
<1>6. CASE Restart
  BY <1>6, RestartStep
<1>7. CASE Tick
  BY <1>7, TickStep
<1>8. QED BY <1>1, <1>2, <1>3, <1>4, <1>5, <1>6, <1>7 DEF Next

LEMMA Inductive == Spec => []IInv
BY InitIsOK, NextKeeps, PTL DEF Spec

\* Every reachable state of /authorize is well typed.
THEOREM TypeCorrect == Spec => []TypeOK
<1>1. IInv => TypeOK
  BY DEF IInv
<1>2. QED BY <1>1, Inductive, PTL

\* What log_decision recorded of an agent that was let do something is in
\* request_history for HistoryAge, whichever requests failed in between.
THEOREM HistoryRemembered == Spec => []HistoryRemembers
<1>1. IInv => HistoryRemembers
  BY DEF IInv
<1>2. QED BY <1>1, Inductive, PTL

\* A send that was let through, other than by a policy, is one of those RequestOK
\* speaks of.
LEMMA SendsAreContained ==
  ASSUME IInv, NEW h \in Handlers, LetThrough(req[h])
  PROVE  /\ Contained(req[h], trail)
         /\ \A i \in KnownReads(req[h], req[h].readAt) :
              trail[i].at >= req[h].readAt - HistoryAge =>
                i \in Counted(req[h], trail)
<1>1. RequestOK(req[h], trail, exposed)
  BY DEF IInv
<1>2. Contained(req[h], trail)
  BY <1>1 DEF RequestOK, LetThrough
<1>3. QED BY <1>2 DEF KnownReads, Counted

\* compute_flow_state and check_flow contain what an agent read: no send passes
\* below the level of what it had been let read before it asked and no more than
\* HistoryAge ago, unless a policy escalates it before check_flow is reached.
THEOREM FlowIsContained == Spec => []FlowsContained
<1>1. IInv => FlowsContained
  BY SendsAreContained DEF FlowsContained, Contained
<1>2. QED BY <1>1, Inductive, PTL

\* For HistoryAge after an agent was let read a user-content channel, and always if
\* it declares that it does, check_flow lets it send to declared destinations only.
THEOREM DestinationsAreDeclared == Spec => []DestinationsDeclared
<1>1. IInv => DestinationsDeclared
  BY SendsAreContained DEF DestinationsDeclared, Contained
<1>2. QED BY <1>1, Inductive, PTL

\* After a hard flag every later request of the agent is denied until its
\* quarantine ends, from the moment of the decision.
THEOREM TriggerIsFinal == Spec => []TriggerStops
<1>1. IInv => TriggerStops
  BY DEF IInv, RequestOK, TriggerStops
<1>2. QED BY <1>1, Inductive, PTL
===============================================================================
