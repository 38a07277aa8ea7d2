--------------------------- MODULE Registry_proofs ----------------------------
(***************************************************************************)
(* Proofs about what server/main.py keeps in memory of those who talk to it:*)
(* about Registry, for every set of agents and of scopes, every bound on    *)
(* depth, tokens and failing writes (the scopes are sets of patterns and    *)
(* actions; what they hold plays no part in revocation), and about          *)
(* Notifications, for any number of dashboards and handlers.                *)
(***************************************************************************)
EXTENDS Registry, Notifications, FiniteSetTheorems, SequenceTheorems, TLAPS

\* What a delegated agent may do, taken alone, the agent that delegated it may
\* do too, unless that one has a pattern with "?": of the others, validate_delegation
\* and the test of check_chain_scope agree on what a pattern covers.
THEOREM DelegationNarrows ==
  ASSUME NEW parent \in Scopes, NEW child \in Scopes, ValidDelegation(parent, child),
         \A p \in parent.resources : p.kind # "one",
         NEW action, NEW path \in Seq(STRING), Allows(child, action, path)
  PROVE  Allows(parent, action, path)
<1>1. action \in parent.actions
  BY DEF Allows, ValidDelegation
<1>2. PICK c \in child.resources : Matches(c, path)
  BY DEF Allows
<1>3. PICK p \in parent.resources : Covered(c, p)
  BY DEF ValidDelegation
<1>4. /\ p.base \in Seq(STRING) /\ c.base \in Seq(STRING)
      /\ p.kind \in {"exact", "tree"} /\ c.kind \in {"exact", "tree", "one"}
      /\ \A k \in DOMAIN p.base : p.base[k] \notin {"*", "?"}
  <2>1. p \in parent.resources /\ c \in child.resources /\ p.kind # "one"
    OBVIOUS
  <2>2. /\ p.kind \in {"exact", "tree", "one"} /\ p.base \in Seq(STRING)
        /\ \A k \in DOMAIN p.base : p.base[k] \notin {"*", "?"}
    BY <2>1, PatternAssumption, Zenon
  <2>3. c.kind \in {"exact", "tree", "one"} /\ c.base \in Seq(STRING)
    BY <2>1, PatternAssumption, Zenon
  <2>4. QED BY <2>1, <2>2, <2>3
<1>5. CASE c = p
  BY <1>1, <1>2, <1>5 DEF Allows
<1>6. CASE p.kind = "tree" /\ Under(p.base, c.base)
  <2>1. Under(c.base, path) \/ \E l \in Letters : path = Append(c.base, l)
    <3>1. CASE c.kind = "exact"
      <4>1. path = c.base
        BY <1>2, <3>1 DEF Matches, Fnmatch
      <4>2. QED BY <1>4, <4>1 DEF Under
    <3>2. CASE c.kind = "tree"
      BY <1>2, <3>2 DEF Matches, Fnmatch
    <3>3. CASE c.kind = "one"
      BY <1>2, <3>3 DEF Matches, Fnmatch
    <3>4. QED BY <1>4, <3>1, <3>2, <3>3
  <2>2. ASSUME NEW l \in Letters, path = Append(c.base, l)
        PROVE  Under(c.base, path)
    BY <1>4, <2>2 DEF Under
  <2>3. Under(p.base, path)
    BY <1>4, <1>6, <2>1, <2>2 DEF Under
  <2>4. QED BY <1>1, <1>6, <2>3 DEF Allows, Matches
<1>7. CASE Fnmatch(Text(c), p)
  <2>1. CASE c.kind = "exact"
    <3>1. Text(c) = c.base /\ path = c.base
      BY <1>2, <2>1 DEF Text, Matches, Fnmatch
    <3>2. QED BY <1>1, <1>7, <3>1 DEF Allows, Matches
  <2>2. ASSUME NEW mark \in {"*", "?"}, Text(c) = Append(c.base, mark)
        PROVE  p.kind = "tree" /\ Under(p.base, c.base)
    <3>1. p.kind # "exact"
      <4>1. SUFFICES ASSUME p.kind = "exact" PROVE FALSE
        OBVIOUS
      <4>2. Append(c.base, mark) = p.base
        BY <1>7, <2>2, <4>1 DEF Fnmatch
      <4>3. /\ Len(c.base) + 1 \in DOMAIN p.base
            /\ p.base[Len(c.base) + 1] = mark
        BY <1>4, <4>2
      <4>4. QED BY <1>4, <4>3
    <3>2. p.kind = "tree" /\ Under(p.base, Append(c.base, mark)) /\ Append(c.base, mark) # p.base
      BY <1>4, <1>7, <2>2, <3>1 DEF Fnmatch
    <3>3. Len(p.base) # Len(c.base) + 1
      <4>1. SUFFICES ASSUME Len(p.base) = Len(c.base) + 1 PROVE FALSE
        OBVIOUS
      <4>2. /\ Len(p.base) \in DOMAIN p.base
            /\ p.base[Len(p.base)] = mark
        BY <1>4, <3>2, <4>1 DEF Under
      <4>3. QED BY <1>4, <4>2
    <3>4. QED BY <1>4, <3>2, <3>3 DEF Under
  <2>3. QED BY <1>4, <1>6, <2>1, <2>2 DEF Text
<1>8. QED BY <1>3, <1>5, <1>6, <1>7 DEF Covered

-------------------------------------------------------------------------------
(* The way up from an agent.                                               *)

\* Induction over a set of numbers.
LEMMA SetInduction ==
  ASSUME NEW S, 0 \in S, \A n \in Nat : n \in S => n + 1 \in S
  PROVE  Nat \subseteq S
<1> SUFFICES ASSUME Nat \ S # {} PROVE FALSE
  OBVIOUS
<1>1. PICK m \in Nat \ S : \A n \in Nat \ S : ~ (<<n, m>> \in OpToRel(<, Nat))
  BY NatLessThanWellFounded, WFMin
<1>2. \A n \in Nat \ S : ~ (n < m)
  BY <1>1 DEF OpToRel
<1>3. m # 0 /\ m - 1 \in Nat /\ m - 1 < m
  OBVIOUS
<1>4. m - 1 \in S
  BY <1>2, <1>3
<1>5. QED BY <1>3, <1>4

\* The recursion of get_chain is well defined.
Walk(reg, i, m, f) ==
  f = [n \in 0..m |-> IF n = 0 THEN i ELSE Parent(reg, f[n - 1])]

LEMMA WalkExists ==
  ASSUME NEW reg, NEW i
  PROVE  \A m \in Nat : \E f : Walk(reg, i, m, f)
<1> DEFINE S == {m \in Nat : \E f : Walk(reg, i, m, f)}
<1>1. 0 \in S
  <2>1. Walk(reg, i, 0, [n \in 0..0 |-> i])
    BY DEF Walk
  <2>2. QED BY <2>1
<1>2. ASSUME NEW m \in Nat, m \in S
      PROVE  m + 1 \in S
  <2>1. PICK f : Walk(reg, i, m, f)
    BY <1>2
  <2>2. PICK g : g = [n \in 0..(m + 1) |-> IF n = m + 1 THEN Parent(reg, f[m]) ELSE f[n]]
    OBVIOUS
  <2>3. f = [n \in 0..m |-> IF n = 0 THEN i ELSE Parent(reg, f[n - 1])]
    BY <2>1 DEF Walk
  <2>4. ASSUME NEW n \in 0..(m + 1)
        PROVE  g[n] = IF n = 0 THEN i ELSE Parent(reg, g[n - 1])
    <3>1. CASE n = m + 1
      BY <2>2, <3>1
    <3>2. CASE n # m + 1
      BY <2>2, <2>3, <3>2
    <3>3. QED BY <3>1, <3>2
  <2>5. Walk(reg, i, m + 1, g)
    BY <2>2, <2>4 DEF Walk
  <2>6. QED BY <2>5
<1>3. Nat \subseteq S
  <2> HIDE DEF S
  <2>1. QED BY <1>1, <1>2, SetInduction
<1>4. QED BY <1>3

LEMMA ClimbIsWalk ==
  ASSUME NEW reg, NEW i
  PROVE  \E f : /\ Walk(reg, i, Cardinality(Ids), f)
               /\ Climb(reg, i) = {f[n] : n \in 0..Cardinality(Ids)} \ {None}
<1> DEFINE up == CHOOSE f :
      f = [n \in 0..Cardinality(Ids) |-> IF n = 0 THEN i ELSE Parent(reg, f[n - 1])]
<1>1. Cardinality(Ids) \in Nat
  BY IdsAssumption, FS_CardinalityType
<1>2. Walk(reg, i, Cardinality(Ids), up)
  <2>1. \E f : Walk(reg, i, Cardinality(Ids), f)
    BY <1>1, WalkExists
  <2>2. QED BY <2>1, Zenon DEF Walk
<1>3. Climb(reg, i) = {up[n] : n \in 0..Cardinality(Ids)} \ {None}
  BY DEF Climb
<1>4. QED BY <1>2, <1>3

LEMMA ParentTyped ==
  ASSUME NEW reg \in [Ids -> Row \union {None}], NEW i \in Ids \union {None}
  PROVE  Parent(reg, i) \in Ids \union {None}
BY DEF Parent, Row

\* The walk is among the agents, and once it has ended it does not go on.
LEMMA WalkTyped ==
  ASSUME NEW reg \in [Ids -> Row \union {None}], NEW i \in Ids, NEW m \in Nat,
         NEW f, Walk(reg, i, m, f)
  PROVE  /\ f[0] = i
         /\ \A n \in 0..m : n < m => f[n + 1] = Parent(reg, f[n])
         /\ \A n \in 0..m : f[n] \in Ids \union {None}
         /\ f[m] # None => \A n \in 0..m : f[n] # None
<1>1. f = [n \in 0..m |-> IF n = 0 THEN i ELSE Parent(reg, f[n - 1])]
  BY DEF Walk
<1>2. f[0] = i
  BY <1>1
<1>3. \A n \in 0..m : n < m => f[n + 1] = Parent(reg, f[n])
  <2>1. ASSUME NEW n \in 0..m, n < m
        PROVE  f[n + 1] = Parent(reg, f[n])
    <3>1. n + 1 \in 0..m /\ n + 1 # 0 /\ (n + 1) - 1 = n
      BY <2>1
    <3>2. QED BY <1>1, <3>1
  <2>2. QED BY <2>1
<1>4. \A n \in 0..m : f[n] \in Ids \union {None}
  <2> DEFINE S == {n \in Nat : n <= m => f[n] \in Ids \union {None}}
  <2>1. 0 \in S
    BY <1>2
  <2>2. \A n \in Nat : n \in S => n + 1 \in S
    BY <1>3, ParentTyped
  <2>3. Nat \subseteq S
    <3> HIDE DEF S
    <3>1. QED BY <2>1, <2>2, SetInduction
  <2>4. QED BY <2>3
<1>5. ASSUME NEW k \in 0..m, f[k] = None
      PROVE  f[m] = None
  <2> DEFINE S == {d \in Nat : k + d <= m => f[k + d] = None}
  <2>1. 0 \in S
    BY <1>5
  <2>2. ASSUME NEW d \in Nat, d \in S
        PROVE  d + 1 \in S
    <3>1. CASE k + (d + 1) <= m
      <4>1. k + d \in 0..m /\ k + d < m /\ f[k + d] = None
        BY <2>2, <3>1
      <4>2. f[(k + d) + 1] = Parent(reg, None)
        BY <1>3, <4>1
      <4>3. QED BY <4>2 DEF Parent
    <3>2. QED BY <3>1
  <2>3. Nat \subseteq S
    <3> HIDE DEF S
    <3>1. QED BY <2>1, <2>2, SetInduction
  <2>4. m - k \in S
    BY <2>3
  <2>5. QED BY <2>4
<1>6. QED BY <1>2, <1>3, <1>4, <1>5

\* As many steps as there are agents reach every agent above: a walk that is not
\* at its end by then has met an agent twice.
LEMMA ClimbClosed ==
  ASSUME NEW reg \in [Ids -> Row \union {None}], NEW i \in Ids
  PROVE  /\ Climb(reg, i) \subseteq Ids
         /\ Parent(reg, i) # None => Parent(reg, i) \in Climb(reg, i)
         /\ \A b \in Climb(reg, i) : Parent(reg, b) = None \/ Parent(reg, b) \in Climb(reg, i)
<1>1. PICK N \in Nat : N = Cardinality(Ids)
  BY IdsAssumption, FS_CardinalityType
<1>2. N > 0
  BY <1>1, IdsAssumption, FS_EmptySet
<1>3. PICK f : Walk(reg, i, N, f) /\ Climb(reg, i) = {f[n] : n \in 0..N} \ {None}
  <2>1. PICK f : /\ Walk(reg, i, Cardinality(Ids), f)
                 /\ Climb(reg, i) = {f[n] : n \in 0..Cardinality(Ids)} \ {None}
    BY ClimbIsWalk
  <2>2. QED BY <1>1, <2>1
<1>4. /\ f[0] = i
      /\ \A n \in 0..N : n < N => f[n + 1] = Parent(reg, f[n])
      /\ \A n \in 0..N : f[n] \in Ids \union {None}
      /\ f[N] # None => \A n \in 0..N : f[n] # None
  BY <1>3, WalkTyped
<1>5. ASSUME NEW n \in 0..N, n < N, Parent(reg, f[n]) # None
      PROVE  Parent(reg, f[n]) \in Climb(reg, i)
  BY <1>3, <1>4, <1>5
<1>6. ASSUME f[N] # None, Parent(reg, f[N]) # None
      PROVE  Parent(reg, f[N]) \in Climb(reg, i)
  <2>1. PICK x \in 0..N, y \in 0..N : x < y /\ f[x] = f[y]
    <3>1. IsFiniteSet(0..N) /\ Cardinality(0..N) = N + 1
      BY FS_Interval
    <3>2. PICK g \in [0..N -> Ids] : \A n \in 0..N : g[n] = f[n]
      <4>1. [n \in 0..N |-> f[n]] \in [0..N -> Ids]
        BY <1>4, <1>6
      <4>2. QED BY <4>1
    <3>3. PICK x \in 0..N, y \in 0..N : x # y /\ g[x] = g[y]
      <4>1. Cardinality(Ids) < Cardinality(0..N)
        BY <1>1, <3>1
      <4>2. QED BY <3>1, <3>2, <4>1, IdsAssumption, FS_PigeonHole
    <3>4. x < y \/ y < x
      BY <3>3
    <3>5. QED BY <3>2, <3>3, <3>4
  <2> DEFINE S == {n \in Nat : n <= N => \E k \in 0..N : k < y /\ f[n] = f[k]}
  <2>2. 0 \in S
    BY <2>1
  <2>3. ASSUME NEW n \in Nat, n \in S
        PROVE  n + 1 \in S
    <3>1. SUFFICES ASSUME n + 1 <= N
                   PROVE  \E k \in 0..N : k < y /\ f[n + 1] = f[k]
      OBVIOUS
    <3>2. PICK k \in 0..N : k < y /\ f[n] = f[k]
      BY <2>3, <3>1
    <3>3. f[n + 1] = f[k + 1]
      BY <1>4, <3>1, <3>2
    <3>4. CASE k + 1 = y
      BY <2>1, <3>3, <3>4
    <3>5. CASE k + 1 < y
      BY <3>3, <3>5
    <3>6. QED BY <3>2, <3>4, <3>5
  <2>4. Nat \subseteq S
    <3> HIDE DEF S
    <3>1. QED BY <2>2, <2>3, SetInduction
  <2>5. PICK k \in 0..N : k < y /\ f[N] = f[k]
    BY <2>4
  <2>6. QED BY <1>5, <1>6, <2>5
<1>7. Climb(reg, i) \subseteq Ids
  BY <1>3, <1>4
<1>8. ASSUME NEW b \in Climb(reg, i), Parent(reg, b) # None
      PROVE  Parent(reg, b) \in Climb(reg, i)
  <2>1. PICK n \in 0..N : b = f[n] /\ b # None
    BY <1>3
  <2>2. n < N \/ n = N
    OBVIOUS
  <2>3. QED BY <1>5, <1>6, <1>8, <2>1, <2>2
<1>9. Parent(reg, i) # None => Parent(reg, i) \in Climb(reg, i)
  BY <1>2, <1>4, <1>5
<1>10. QED BY <1>7, <1>8, <1>9

LEMMA AncestorsClimbed ==
  ASSUME NEW reg \in [Ids -> Row \union {None}], NEW i \in Present(reg),
         reg[i].parent # None
  PROVE  Ancestors(reg, i) \subseteq Climb(reg, i)
<1>1. i \in Ids /\ Parent(reg, i) = reg[i].parent
  BY NoneAssumption DEF Present, Parent
<1>2. /\ Climb(reg, i) \in SUBSET Ids
      /\ reg[i].parent \in Climb(reg, i)
      /\ \A b \in Climb(reg, i) : Parent(reg, b) = None \/ Parent(reg, b) \in Climb(reg, i)
  BY <1>1, ClimbClosed
<1>3. QED BY <1>2 DEF Ancestors

-------------------------------------------------------------------------------
\* A row without its token.
LEMMA TombstoneRow ==
  ASSUME TypeOK, NEW i \in Ids, agents[i] # None
  PROVE  /\ Tombstone(i) \in Row
         /\ Tombstone(i).token = NoToken
         /\ Tombstone(i).parent = agents[i].parent
BY DEF TypeOK, Tombstone, Row, NoToken

\* None is no row.
LEMMA HashedRow ==
  ASSUME NEW row \in Row \union {None}
  PROVE  /\ Hashed(row) \in Row \union {None}
         /\ Hashed(row) # None => row # None /\ Hashed(row).token = row.token
BY DEF Hashed, Row, NoToken

\* Revoking an agent does not change who was delegated by whom.
LEMMA SameFamily ==
  ASSUME TypeOK, NEW i \in Ids, agents[i] # None,
         agents' = [agents EXCEPT ![i] = Tombstone(i)], Tombstone(i) # None
  PROVE  /\ Present(agents') = Present(agents)
         /\ \A k \in Ids : Children(agents', k) = Children(agents, k)
BY TombstoneRow DEF TypeOK, Present, Children

LEMMA EnterStep ==
  ASSUME IInv, Idle, NEW i \in Ids, NEW row \in Row, row.token = issued[i] + 1,
         Enter(i, row)
  PROVE  IInv'
<1> USE DEF IInv, TypeOK
<1>1. /\ agents' = [agents EXCEPT ![i] = row]
      /\ disk' = [disk EXCEPT ![i] = row] \/ disk' = disk
      /\ issued' = [issued EXCEPT ![i] = @ + 1]
      /\ job' = job /\ dead' = dead
  BY DEF Enter
<1>2. TypeOK'
  <2>1. budget' \in [tokens : 0..MaxTokens, faults : 0..MaxFaults]
    BY BoundAssumption DEF Enter
  <2>2. QED BY <1>1, <2>1
<1>3. RowsOK'
  BY <1>1 DEF RowsOK, RowOK, NoToken
<1>4. WalkOK' /\ RevokeOK'
  BY <1>1 DEF Idle, WalkOK, RevokeOK
<1>5. QED BY <1>2, <1>3, <1>4

LEMMA FailsType ==
  ASSUME TypeOK, Works \/ Fails
  PROVE  budget' \in [tokens : 0..MaxTokens, faults : 0..MaxFaults]
BY BoundAssumption DEF TypeOK, Works, Fails

LEMMA DeregisterStep ==
  ASSUME IInv, NEW i \in Ids, Deregister(i)
  PROVE  IInv'
<1> USE DEF IInv, TypeOK
<1>1. /\ agents' = [agents EXCEPT ![i] = None]
      /\ \/ disk' = [disk EXCEPT ![i] = None] /\ dead' = Ended({i})
         \/ disk' = disk /\ dead' = dead
      /\ issued' = issued /\ job' = job /\ job.pc = "idle"
  BY DEF Deregister, Idle
<1>2. TypeOK'
  <2>1. budget' \in [tokens : 0..MaxTokens, faults : 0..MaxFaults]
    BY FailsType DEF Deregister
  <2>2. QED BY <1>1, <2>1 DEF Ended
<1>3. RowsOK'
  BY <1>1 DEF RowsOK, RowOK, Ended
<1>4. QED BY <1>1, <1>2, <1>3 DEF WalkOK, RevokeOK

LEMMA RevokeStep ==
  ASSUME IInv, NEW i \in Ids, Revoke(i)
  PROVE  IInv'
<1> USE DEF IInv, TypeOK
<1>1. PICK row \in Row :
        /\ row.token = NoToken
        /\ agents' = [agents EXCEPT ![i] = row]
        /\ \/ disk' = [disk EXCEPT ![i] = row] /\ dead' = Ended({i})
           \/ disk' = disk /\ dead' = dead
  BY TombstoneRow DEF Revoke
<1>2. issued' = issued /\ job' = job /\ job.pc = "idle"
  BY DEF Revoke, Idle
<1>3. TypeOK'
  <2>1. budget' \in [tokens : 0..MaxTokens, faults : 0..MaxFaults]
    BY FailsType DEF Revoke
  <2>2. QED BY <1>1, <1>2, <2>1 DEF Ended
<1>4. RowsOK'
  BY <1>1, <1>2 DEF RowsOK, RowOK, Ended
<1>5. QED BY <1>2, <1>3, <1>4 DEF WalkOK, RevokeOK

LEMMA RevokeChainStep ==
  ASSUME IInv, NEW i \in Ids, RevokeChain(i)
  PROVE  IInv'
<1> USE DEF IInv
<1>1. /\ job' = [pc |-> "walk", root |-> i, found |-> {}, todo |-> {i}]
      /\ agents[i] # None
      /\ UNCHANGED <<agents, disk, issued, dead, budget>>
  BY DEF RevokeChain
<1>2. TypeOK' /\ RowsOK'
  BY <1>1 DEF TypeOK, RowsOK
<1>3. WalkOK' /\ RevokeOK'
  BY <1>1 DEF WalkOK, RevokeOK, Present
<1>4. QED BY <1>2, <1>3

LEMMA CollectStep ==
  ASSUME IInv, Collect
  PROVE  IInv'
<1> USE DEF IInv
<1>1. PICK i \in job.todo :
        Walked(job.found \union {i}, (job.todo \ {i}) \union Children(agents, i))
  BY DEF Collect
<1>2. PICK found, todo :
        /\ found = job.found \union {i}
        /\ todo = (job.todo \ {i}) \union Children(agents, i)
  OBVIOUS
<1>3. /\ job.pc = "walk"
      /\ UNCHANGED <<agents, disk, issued, dead, budget>>
      /\ job' = IF todo = {} THEN [pc |-> "revoke", root |-> job.root, found |-> found, todo |-> found]
                ELSE [pc |-> "walk", root |-> job.root, found |-> found, todo |-> todo]
  BY <1>1, <1>2 DEF Collect, Walked
<1>4. /\ found \subseteq Ids /\ todo \subseteq Ids /\ job.root \in Ids \union {None}
      /\ found \union todo \subseteq Present(agents)
      /\ job.root \in found \union todo
  BY <1>1, <1>2, <1>3 DEF TypeOK, WalkOK, Children, Present
<1>5. \A k \in found : Children(agents, k) \subseteq found \union todo
  BY <1>1, <1>2, <1>3 DEF WalkOK
<1>6. TypeOK' /\ RowsOK'
  BY <1>3, <1>4 DEF TypeOK, RowsOK
<1>7. WalkOK' /\ RevokeOK'
  <2>1. CASE todo = {}
    BY <1>3, <1>4, <1>5, <2>1 DEF WalkOK, RevokeOK, Closed
  <2>2. CASE todo # {}
    BY <1>3, <1>4, <1>5, <2>2 DEF WalkOK, RevokeOK
  <2>3. QED BY <2>1, <2>2
<1>8. QED BY <1>6, <1>7

\* One turn of the second loop.  When it answers, everything below the root has
\* been found, and what has been found is without a token.
LEMMA RevokeOneStep ==
  ASSUME IInv, RevokeOne
  PROVE  IInv'
<1> USE DEF IInv
<1>1. PICK i \in job.todo :
        /\ agents' = [agents EXCEPT ![i] = Tombstone(i)]
        /\ \/ /\ Works
              /\ disk' = [disk EXCEPT ![i] = Tombstone(i)]
              /\ IF job.todo = {i}
                 THEN /\ job' = NoJob
                      /\ dead' = Ended(Below(agents, job.root))
                 ELSE /\ job' = [job EXCEPT !.todo = @ \ {i}]
                      /\ UNCHANGED dead
           \/ /\ Fails
              /\ job' = NoJob
              /\ UNCHANGED <<disk, dead>>
  BY DEF RevokeOne
<1>2. /\ issued' = issued /\ job.pc = "revoke"
      /\ i \in Ids /\ agents[i] # None
      /\ budget' \in [tokens : 0..MaxTokens, faults : 0..MaxFaults]
  BY <1>1, FailsType DEF RevokeOne, RevokeOK, TypeOK, Present
<1>3. PICK row \in Row : row = Tombstone(i) /\ row.token = NoToken
  BY <1>2, TombstoneRow
<1>4. agents' = [agents EXCEPT ![i] = row]
  BY <1>1, <1>3
<1>5. CASE Fails /\ job' = NoJob /\ UNCHANGED <<disk, dead>>
  <2>1. TypeOK'
    BY <1>2, <1>3, <1>4, <1>5 DEF TypeOK, NoJob
  <2>2. RowsOK'
    BY <1>2, <1>3, <1>4, <1>5 DEF TypeOK, RowsOK, RowOK
  <2>3. QED BY <1>5, <2>1, <2>2 DEF WalkOK, RevokeOK, NoJob
<1>6. CASE disk' = [disk EXCEPT ![i] = row] /\ job.todo = {i}
           /\ job' = NoJob /\ dead' = Ended(Below(agents, job.root))
  <2>1. \A k \in Below(agents, job.root) : k \in job.found
    BY <1>2 DEF Below, RevokeOK, TypeOK
  <2>2. TypeOK'
    BY <1>2, <1>3, <1>4, <1>6 DEF TypeOK, NoJob, Ended
  <2>3. \A k \in Below(agents, job.root) : Tombed(agents'[k]) /\ Tombed(disk'[k])
    BY <1>2, <1>3, <1>4, <1>6, <2>1 DEF RevokeOK, Tombed, TypeOK, Below
  <2>4. RowsOK'
    BY <1>2, <1>3, <1>4, <1>6, <2>3 DEF TypeOK, RowsOK, RowOK, Ended, Tombed
  <2>5. QED BY <1>6, <2>2, <2>4 DEF WalkOK, RevokeOK, NoJob
<1>7. CASE disk' = [disk EXCEPT ![i] = row] /\ job.todo # {i}
           /\ job' = [job EXCEPT !.todo = @ \ {i}] /\ dead' = dead
  <2>1. TypeOK'
    BY <1>2, <1>3, <1>4, <1>7 DEF TypeOK
  <2>2. RowsOK'
    BY <1>2, <1>3, <1>4, <1>7 DEF TypeOK, RowsOK, RowOK
  <2>3. /\ job'.pc = "revoke" /\ job'.root = job.root /\ job'.found = job.found
        /\ job'.todo = job.todo \ {i}
    BY <1>2, <1>7 DEF TypeOK
  <2>4. /\ Present(agents') = Present(agents)
        /\ \A k \in Ids : Children(agents', k) = Children(agents, k)
    BY <1>1, <1>2, <1>3, SameFamily, RowAssumption
  <2>5. RevokeOK'
    <3>1. job.found \subseteq Ids
      BY DEF TypeOK
    <3>2. Closed(agents', job.found)
      BY <1>2, <2>4, <3>1 DEF RevokeOK, Closed
    <3>3. \A k \in job.found \ (job.todo \ {i}) : Tombed(agents'[k]) /\ Tombed(disk'[k])
      BY <1>2, <1>3, <1>4, <1>7, <3>1 DEF RevokeOK, Tombed, TypeOK
    <3>4. QED BY <1>2, <2>3, <2>4, <3>2, <3>3 DEF RevokeOK
  <2>6. QED BY <2>1, <2>2, <2>3, <2>5 DEF WalkOK
<1>8. QED BY <1>1, <1>3, <1>5, <1>6, <1>7

LEMMA RestartStep ==
  ASSUME IInv, Restart
  PROVE  IInv'
<1> USE DEF IInv
<1>1. /\ disk' = [i \in Ids |-> Hashed(disk[i])]
      /\ agents' = disk'
      /\ job' = NoJob
      /\ UNCHANGED <<issued, dead, budget>>
  BY DEF Restart
<1>2. TypeOK'
  BY <1>1, HashedRow DEF TypeOK, NoJob
<1>3. RowsOK'
  BY <1>1, HashedRow DEF TypeOK, RowsOK, RowOK
<1>4. QED BY <1>1, <1>2, <1>3 DEF WalkOK, RevokeOK, NoJob

LEMMA Inductive == IInv /\ [Next]_vars => IInv'
<1> SUFFICES ASSUME IInv, [Next]_vars PROVE IInv'
  OBVIOUS
<1>1. ASSUME NEW i \in Ids, NEW s \in Scopes, Register(i, s) PROVE IInv'
  BY <1>1, EnterStep, BoundAssumption DEF Register, Row, IInv, TypeOK
<1>2. ASSUME NEW p \in Ids, NEW c \in Ids, NEW s \in Scopes, Delegate(p, c, s) PROVE IInv'
  <2>1. agents[p].depth + 1 \in 0..MaxDepth
    BY <1>2, BoundAssumption DEF Delegate, IInv, TypeOK, Row
  <2>2. QED BY <1>2, <2>1, EnterStep DEF Delegate, Row, IInv, TypeOK
<1>3. ASSUME NEW i \in Ids, Deregister(i) \/ Revoke(i) \/ RevokeChain(i) PROVE IInv'
  BY <1>3, DeregisterStep, RevokeStep, RevokeChainStep
<1>4. CASE Collect \/ RevokeOne \/ Restart
  BY <1>4, CollectStep, RevokeOneStep, RestartStep
<1>5. CASE UNCHANGED vars
  BY <1>5 DEF vars, IInv, TypeOK, RowsOK, WalkOK, RevokeOK
<1>6. QED BY <1>1, <1>2, <1>3, <1>4, <1>5 DEF Next

LEMMA InitIInv == Init => IInv
BY BoundAssumption DEF Init, IInv, TypeOK, RowsOK, RowOK, WalkOK, RevokeOK, NoJob

-------------------------------------------------------------------------------
(* Families: who was delegated by whom, and the search through them.       *)

LEMMA RowDeepKept ==
  /\ RowDeep(None)
  /\ \A row : RowDeep(row) => RowDeep(Hashed(row))
<1>1. ASSUME NEW row, RowDeep(row)
      PROVE  RowDeep(Hashed(row))
  <2>1. CASE row = None \/ row.token = NoToken
    BY <1>1, <2>1 DEF Hashed
  <2>2. CASE ~ (row = None \/ row.token = NoToken)
    BY <1>1, <2>2 DEF Hashed, RowDeep
  <2>3. QED BY <2>1, <2>2
<1>2. QED BY <1>1 DEF RowDeep

LEMMA TombstoneDeep ==
  ASSUME TypeOK, DepthOK, NEW i \in Ids, agents[i] # None
  PROVE  RowDeep(Tombstone(i))
BY DEF TypeOK, DepthOK, RowDeep, Tombstone, Row

\* One row changes, in memory and perhaps in the table.
LEMMA DepthOfOne ==
  ASSUME TypeOK, DepthOK, NEW i \in Ids, NEW row, RowDeep(row),
         agents' = [agents EXCEPT ![i] = row],
         disk' = [disk EXCEPT ![i] = row] \/ disk' = disk
  PROVE  DepthOK'
BY DEF TypeOK, DepthOK

LEMMA DepthStep ==
  ASSUME TypeOK, RevokeOK, DepthOK, [Next]_vars
  PROVE  DepthOK'
<1>1. ASSUME NEW i \in Ids, NEW s \in Scopes, Register(i, s)
      PROVE  DepthOK'
  <2>1. PICK row : /\ row = [parent |-> None, depth |-> 0, scope |-> s,
                             token |-> issued[i] + 1, form |-> "jti"]
                   /\ Enter(i, row)
    BY <1>1 DEF Register
  <2>2. RowDeep(row)
    BY <2>1 DEF RowDeep
  <2>3. QED BY <2>1, <2>2, DepthOfOne DEF Enter
<1>2. ASSUME NEW p \in Ids, NEW c \in Ids, NEW s \in Scopes, Delegate(p, c, s)
      PROVE  DepthOK'
  <2>1. PICK row : /\ row = [parent |-> p, depth |-> agents[p].depth + 1, scope |-> s,
                             token |-> issued[c] + 1, form |-> "jti"]
                   /\ Enter(c, row)
    BY <1>2 DEF Delegate
  <2>2. agents[p].depth \in Nat
    BY <1>2, BoundAssumption DEF Delegate, TypeOK, Row
  <2>3. RowDeep(row)
    BY <2>1, <2>2 DEF RowDeep
  <2>4. QED BY <2>1, <2>3, DepthOfOne DEF Enter
<1>3. ASSUME NEW i \in Ids, Deregister(i)
      PROVE  DepthOK'
  BY <1>3, RowDeepKept, DepthOfOne DEF Deregister
<1>4. ASSUME NEW i \in Ids, Revoke(i)
      PROVE  DepthOK'
  BY <1>4, TombstoneDeep, DepthOfOne DEF Revoke
<1>5. ASSUME NEW i \in Ids, RevokeChain(i)
      PROVE  DepthOK'
  BY <1>5 DEF RevokeChain, DepthOK
<1>6. CASE Collect
  BY <1>6 DEF Collect, DepthOK
<1>7. CASE RevokeOne
  <2>1. PICK i \in job.todo :
          /\ agents' = [agents EXCEPT ![i] = Tombstone(i)]
          /\ disk' = [disk EXCEPT ![i] = Tombstone(i)] \/ disk' = disk
    BY <1>7 DEF RevokeOne
  <2>2. i \in Ids /\ agents[i] # None
    BY <1>7, <2>1 DEF RevokeOne, RevokeOK, TypeOK, Present
  <2>3. QED BY <2>1, <2>2, TombstoneDeep, DepthOfOne
<1>8. CASE Restart
  BY <1>8, RowDeepKept DEF Restart, DepthOK
<1>9. CASE UNCHANGED vars
  BY <1>9 DEF vars, DepthOK
<1>10. QED
  BY <1>1, <1>2, <1>3, <1>4, <1>5, <1>6, <1>7, <1>8, <1>9 DEF Next

\* Up from an agent and up from the agents it delegated.
LEMMA ChildAbove ==
  ASSUME NEW reg, NEW i \in Present(reg), NEW c \in Children(reg, i)
  PROVE  /\ i \in Ancestors(reg, c)
         /\ reg[i].parent # None => Ancestors(reg, i) \subseteq Ancestors(reg, c)
<1>1. reg[c].parent = i /\ i \in Ids /\ reg[i] # None /\ i # None
  BY NoneAssumption DEF Children, Present
<1>2. i \in Ancestors(reg, c)
  BY <1>1 DEF Ancestors
<1>3. CASE reg[i].parent # None
  <2>1. Parent(reg, i) = reg[i].parent
    BY <1>1 DEF Parent
  <2>2. QED BY <1>1, <1>3, <2>1 DEF Ancestors
<1>4. QED BY <1>2, <1>3

\* A turn of the search, and every other step.
LEMMA SearchStep ==
  ASSUME IInv, FamilyInv, [Next]_vars
  PROVE  FoundOK' /\ SearchAdvances'
<1>1. CASE job.pc = "walk" /\ Collect
  <2>1. PICK i \in job.todo :
          Walked(job.found \union {i}, (job.todo \ {i}) \union Children(agents, i))
    BY <1>1 DEF Collect
  <2>2. PICK found, todo :
          /\ found = job.found \union {i}
          /\ todo = (job.todo \ {i}) \union Children(agents, i)
    OBVIOUS
  <2>3. /\ agents' = agents
        /\ job'.root = job.root
        /\ job'.pc = "walk" => job'.found = found /\ job'.todo = todo
    BY <1>1, <2>1, <2>2 DEF Collect, Walked
  <2>4. i \in Present(agents) /\ i \in Ids
    BY <1>1 DEF IInv, WalkOK, Present
  <2>5. ASSUME NEW c \in Children(agents, i)
        PROVE  /\ agents[c].parent = i
               /\ job.root \in Ancestors(agents, c)
    <3>1. agents[c].parent = i /\ i \in Ancestors(agents, c)
      BY <2>4, ChildAbove DEF Children
    <3>2. CASE i = job.root
      BY <3>1, <3>2
    <3>3. CASE i # job.root
      <4>1. agents[i].parent \in job.found /\ job.root \in Ancestors(agents, i)
        BY <1>1, <3>3 DEF FamilyInv, FoundOK
      <4>2. agents[i].parent # None
        BY <4>1, NoneAssumption DEF IInv, TypeOK
      <4>3. QED BY <2>4, <3>1, <4>1, <4>2, ChildAbove
    <3>4. QED BY <3>2, <3>3
  <2>6. \A k \in (found \union todo) \ {job.root} :
          agents[k].parent \in found /\ job.root \in Ancestors(agents, k)
    BY <1>1, <2>2, <2>5 DEF FamilyInv, FoundOK
  <2>7. FoundOK'
    <3> QED BY <2>3, <2>6 DEF FoundOK
  <2>8. ASSUME ~ OnCycle(agents, job.root)
        PROVE  found \intersect todo = {}
    <3>1. job.found \intersect job.todo = {}
      BY <1>1, <2>8 DEF FamilyInv, SearchAdvances
    <3>2. ASSUME NEW c \in Children(agents, i)
          PROVE  c \notin found
      <4>1. c \in Present(agents) /\ agents[c].parent = i /\ i # None
        BY <2>4, NoneAssumption DEF Children, Present
      <4>2. c # job.root
        BY <2>5, <2>8, <4>1 DEF OnCycle
      <4>3. c # i
        <5>1. SUFFICES ASSUME c = i PROVE FALSE
          OBVIOUS
        <5>2. \A b \in {i} : Parent(agents, b) \in {i}
          BY <4>1, <5>1 DEF Parent, Present
        <5>3. job.root \in {i}
          BY <2>4, <2>5, <4>1, <5>1, <5>2 DEF Ancestors
        <5>4. QED BY <4>2, <5>1, <5>3
      <4>4. c \notin job.found
        <5>1. SUFFICES ASSUME c \in job.found PROVE FALSE
          OBVIOUS
        <5>2. agents[c].parent \in job.found
          BY <1>1, <4>2, <5>1 DEF FamilyInv, FoundOK
        <5>3. QED BY <2>5, <3>1, <5>2
      <4>5. QED BY <2>2, <4>3, <4>4
    <3>3. QED BY <2>2, <3>1, <3>2
  <2>9. SearchAdvances'
    BY <2>3, <2>8 DEF SearchAdvances, OnCycle, Ancestors
  <2>10. QED BY <2>7, <2>9
<1>2. ASSUME NEW i \in Ids, RevokeChain(i)
      PROVE  FoundOK' /\ SearchAdvances'
  BY <1>2 DEF RevokeChain, FoundOK, SearchAdvances, OnCycle
<1>3. CASE job'.pc # "walk"
  BY <1>3 DEF FoundOK, SearchAdvances
<1>4. CASE UNCHANGED <<agents, job>>
  BY <1>4 DEF FamilyInv, FoundOK, SearchAdvances
<1>5. ASSUME [Next]_vars
      PROVE  \/ job.pc = "walk" /\ Collect
             \/ \E i \in Ids : RevokeChain(i)
             \/ job'.pc # "walk"
             \/ UNCHANGED <<agents, job>>
  <2>1. CASE Idle /\ UNCHANGED job
    BY <2>1 DEF Idle
  <2>2. ASSUME NEW i \in Ids, NEW s \in Scopes, Register(i, s)
        PROVE  Idle /\ UNCHANGED job
    BY <2>2 DEF Register, Enter
  <2>3. ASSUME NEW p \in Ids, NEW c \in Ids, NEW s \in Scopes, Delegate(p, c, s)
        PROVE  Idle /\ UNCHANGED job
    BY <2>3 DEF Delegate, Enter
  <2>4. ASSUME NEW i \in Ids, Deregister(i) \/ Revoke(i)
        PROVE  Idle /\ UNCHANGED job
    BY <2>4 DEF Deregister, Revoke
  <2>5. CASE Collect
    BY <2>5 DEF Collect
  <2>6. CASE RevokeOne
    BY <2>6 DEF RevokeOne, NoJob, IInv, TypeOK
  <2>7. CASE Restart
    BY <2>7 DEF Restart, NoJob
  <2>8. CASE UNCHANGED vars
    BY <2>8 DEF vars
  <2>9. QED BY <1>5, <2>1, <2>2, <2>3, <2>4, <2>5, <2>6, <2>7, <2>8 DEF Next
<1>6. QED BY <1>1, <1>2, <1>3, <1>4, <1>5

LEMMA FamilyStep == IInv /\ FamilyInv /\ [Next]_vars => FamilyInv'
BY DepthStep, SearchStep DEF IInv, FamilyInv

LEMMA InitFamily == Init => FamilyInv
BY DEF Init, NoJob, FamilyInv, DepthOK, RowDeep, FoundOK, SearchAdvances

THEOREM Invariance == Spec => []IInv
BY InitIInv, Inductive, PTL DEF Spec

THEOREM FamilyInvariance == Spec => []FamilyInv
BY InitFamily, FamilyStep, Invariance, PTL DEF Spec

\* The types of the registry's state, for any number of agents.
THEOREM TypeCorrect == Spec => []TypeOK
BY Invariance, PTL DEF IInv

\* A revocation or deregistration that was answered is final, whatever fails
\* and however often the server restarts.
THEOREM RevocationFinal == Spec => []RevocationIsFinal
<1>1. IInv => RevocationIsFinal
  BY DEF IInv, TypeOK, RowsOK, RowOK, NoToken, Row, RevocationIsFinal
<1>2. QED BY <1>1, Invariance, PTL

\* check_chain_scope lets no request through that an agent above would not be
\* let through with, and none below an agent that is gone: get_chain meets
\* every ancestor, on chains of any length and on closed ones.
THEOREM NoGain == Spec => []NoGainOverAncestors
<1>1. IInv /\ FamilyInv => NoGainOverAncestors
  <2> SUFFICES ASSUME IInv, FamilyInv,
                      NEW i \in Present(agents), NEW action \in Actions, NEW path \in Paths,
                      ChainAllows(agents, i, action, path), agents[i].parent # None,
                      NEW a \in Ancestors(agents, i) \ {i}
               PROVE  agents[a] # None /\ Allows(agents[a].scope, action, path)
    BY DEF NoGainOverAncestors
  <2>1. agents[i].depth > 0
    BY DEF FamilyInv, DepthOK, RowDeep, Present
  <2>2. a \in Climb(agents, i)
    BY AncestorsClimbed DEF IInv, TypeOK
  <2>3. QED BY <2>1, <2>2 DEF ChainAllows
<1>2. QED BY <1>1, Invariance, FamilyInvariance, PTL

\* The search of revoke_chain never comes to an agent twice, unless the agent to be
\* revoked is itself on a closed chain; for any number of agents.
THEOREM SearchNeverReturns == Spec => []SearchAdvances
<1>1. FamilyInv => SearchAdvances
  BY DEF FamilyInv
<1>2. QED BY <1>1, FamilyInvariance, PTL

-------------------------------------------------------------------------------
(* Dashboards: what is left of a list from which connections are removed.  *)

\* The recursion of Without is well defined.
KeptUpTo(conns, out, m, f) ==
  f = [n \in 0 .. m |->
         IF n = 0 THEN <<>>
         ELSE IF conns[n] \in out THEN f[n - 1] ELSE Append(f[n - 1], conns[n])]

LEMMA KeptExists ==
  ASSUME NEW conns, NEW out
  PROVE  \A m \in Nat : \E f : KeptUpTo(conns, out, m, f)
<1> DEFINE S == {m \in Nat : \E f : KeptUpTo(conns, out, m, f)}
<1>1. 0 \in S
  <2>1. KeptUpTo(conns, out, 0, [n \in 0 .. 0 |-> <<>>])
    BY DEF KeptUpTo
  <2>2. QED BY <2>1
<1>2. ASSUME NEW m \in Nat, m \in S
      PROVE  m + 1 \in S
  <2>1. PICK f : KeptUpTo(conns, out, m, f)
    BY <1>2
  <2>2. PICK last : last = IF conns[m + 1] \in out THEN f[m] ELSE Append(f[m], conns[m + 1])
    OBVIOUS
  <2>3. PICK g : g = [n \in 0 .. (m + 1) |-> IF n = m + 1 THEN last ELSE f[n]]
    OBVIOUS
  <2>4. f = [n \in 0 .. m |->
               IF n = 0 THEN <<>>
               ELSE IF conns[n] \in out THEN f[n - 1] ELSE Append(f[n - 1], conns[n])]
    BY <2>1 DEF KeptUpTo
  <2>5. ASSUME NEW n \in 0 .. (m + 1)
        PROVE  g[n] = IF n = 0 THEN <<>>
                      ELSE IF conns[n] \in out THEN g[n - 1] ELSE Append(g[n - 1], conns[n])
    <3>1. CASE n = m + 1
      BY <2>2, <2>3, <3>1
    <3>2. CASE n # m + 1
      <4>1. n \in 0 .. m /\ g[n] = f[n]
        BY <2>3, <3>2
      <4>2. CASE n = 0
        BY <2>4, <4>1, <4>2
      <4>3. CASE n # 0
        <5>1. n - 1 \in 0 .. m /\ n - 1 \in 0 .. (m + 1) /\ n - 1 # m + 1
          BY <3>2, <4>3
        <5>2. g[n - 1] = f[n - 1]
          BY <2>3, <5>1
        <5>3. f[n] = IF conns[n] \in out THEN f[n - 1] ELSE Append(f[n - 1], conns[n])
          BY <2>4, <4>1, <4>3
        <5>4. QED BY <4>1, <4>3, <5>2, <5>3
      <4>4. QED BY <4>2, <4>3
    <3>3. QED BY <3>1, <3>2
  <2>6. KeptUpTo(conns, out, m + 1, g)
    BY <2>3, <2>5 DEF KeptUpTo
  <2>7. QED BY <2>6
<1>3. Nat \subseteq S
  <2> HIDE DEF S
  <2>1. QED BY <1>1, <1>2, SetInduction
<1>4. QED BY <1>3

LEMMA WithoutIsKept ==
  ASSUME NEW conns, NEW out, Len(conns) \in Nat
  PROVE  \E f : KeptUpTo(conns, out, Len(conns), f) /\ Without(conns, out) = f[Len(conns)]
<1> DEFINE kept == CHOOSE f :
      f = [n \in 0 .. Len(conns) |->
             IF n = 0 THEN <<>>
             ELSE IF conns[n] \in out THEN f[n - 1] ELSE Append(f[n - 1], conns[n])]
<1>1. KeptUpTo(conns, out, Len(conns), kept)
  <2>1. \E f : KeptUpTo(conns, out, Len(conns), f)
    BY KeptExists
  <2>2. QED BY <2>1, Zenon DEF KeptUpTo
<1>2. Without(conns, out) = kept[Len(conns)]
  BY DEF Without
<1>3. QED BY <1>1, <1>2

\* What is known of the connections that are kept of the first n.
Gone(conns, out, n) == {conns[k] : k \in 1 .. n} \cap out
Moved(conns, n, s) ==
  \A j \in 1 .. Len(s) : \E k \in 1 .. n : j <= k /\ k - j <= n - Len(s) /\ s[j] = conns[k]
Once(s) == \A i, j \in 1 .. Len(s) : s[i] = s[j] => i = j
KeptOK(conns, out, n, s) ==
  /\ s \in Seq(Socks) /\ Len(s) <= n
  /\ IsFiniteSet(Gone(conns, out, n)) /\ n - Len(s) = Cardinality(Gone(conns, out, n))
  /\ Moved(conns, n, s) /\ Once(s)

LEMMA KeptStep ==
  ASSUME NEW conns \in Seq(Socks), NEW out, NEW n \in Nat, n + 1 <= Len(conns),
         \A j, k \in 1 .. Len(conns) : conns[j] = conns[k] => j = k,
         NEW s, KeptOK(conns, out, n, s),
         NEW t, t = IF conns[n + 1] \in out THEN s ELSE Append(s, conns[n + 1])
  PROVE  KeptOK(conns, out, n + 1, t)
<1>1. PICK c \in Socks : c = conns[n + 1]
  <2>1. n + 1 \in 1 .. Len(conns)
    OBVIOUS
  <2>2. QED BY <2>1, ElementOfSeq
<1>2. \A k \in 1 .. n : conns[k] # c
  <2>1. \A k \in 1 .. n : k \in 1 .. Len(conns) /\ n + 1 \in 1 .. Len(conns) /\ k # n + 1
    OBVIOUS
  <2>2. QED BY <1>1, <2>1
<1>3. PICK l \in Nat : l = Len(s) /\ l <= n
  BY DEF KeptOK
<1>4. s \in Seq(Socks)
  BY DEF KeptOK
<1>5. PICK G : G = Gone(conns, out, n) /\ IsFiniteSet(G) /\ n - l = Cardinality(G) /\ c \notin G
  BY <1>2, <1>3 DEF KeptOK, Gone
<1>6. \A j \in 1 .. l : \E k \in 1 .. n : j <= k /\ k - j <= n - l /\ s[j] = conns[k]
  BY <1>3 DEF KeptOK, Moved
<1>7. \A i, j \in 1 .. l : s[i] = s[j] => i = j
  BY <1>3 DEF KeptOK, Once
<1>8. \A k \in 1 .. n + 1 : k \in 1 .. n \/ k = n + 1
  OBVIOUS
<1>0. PICK p \in Nat : p = n + 1
  OBVIOUS
<1>9. CASE c \in out
  <2>1. t = s
    BY <1>0, <1>1, <1>9
  <2>2. Gone(conns, out, p) = G \union {c}
    BY <1>0, <1>1, <1>5, <1>8, <1>9 DEF Gone
  <2>3. IsFiniteSet(G \union {c}) /\ Cardinality(G \union {c}) = Cardinality(G) + 1
    BY <1>0, <1>5, FS_AddElement
  <2>4. \A j \in 1 .. l :
          \E k \in 1 .. p : j <= k /\ k - j <= p - l /\ s[j] = conns[k]
    <3>1. SUFFICES ASSUME NEW j \in 1 .. l
                   PROVE  \E k \in 1 .. p : j <= k /\ k - j <= p - l /\ s[j] = conns[k]
      OBVIOUS
    <3>2. PICK k \in 1 .. n : j <= k /\ k - j <= n - l /\ s[j] = conns[k]
      BY <1>0, <1>6
    <3>3. k \in 1 .. p /\ k - j <= p - l
      BY <1>0, <1>3, <3>2
    <3>4. QED BY <1>0, <3>2, <3>3
  <2>5. l <= p /\ p - l = Cardinality(G \union {c})
    BY <1>0, <1>3, <1>5, <2>3
  <2>6. t \in Seq(Socks) /\ Len(t) <= p
    BY <1>0, <1>3, <1>4, <2>1, <2>5
  <2>7. /\ IsFiniteSet(Gone(conns, out, p))
        /\ p - Len(t) = Cardinality(Gone(conns, out, p))
    BY <1>0, <1>3, <2>1, <2>2, <2>3, <2>5
  <2>8. Moved(conns, p, t)
    BY <1>0, <1>3, <2>1, <2>4 DEF Moved
  <2>9. Once(t)
    BY <1>0, <1>3, <1>7, <2>1 DEF Once
  <2>10. KeptOK(conns, out, p, t)
    BY <2>6, <2>7, <2>8, <2>9 DEF KeptOK
  <2>11. QED BY <1>0, <2>10
<1>10. CASE c \notin out
  <2>1. t = Append(s, c)
    BY <1>0, <1>1, <1>10
  <2>2. /\ t \in Seq(Socks) /\ Len(t) = l + 1 /\ t[l + 1] = c
        /\ \A j \in 1 .. l : t[j] = s[j]
    <3>1. /\ Append(s, c) \in Seq(Socks) /\ Len(Append(s, c)) = Len(s) + 1
          /\ \A j \in 1 .. Len(s) : Append(s, c)[j] = s[j]
          /\ Append(s, c)[Len(s) + 1] = c
      BY <1>0, <1>4, AppendProperties
    <3>2. QED BY <1>0, <1>3, <2>1, <3>1
  <2>3. Gone(conns, out, p) = G
    BY <1>0, <1>1, <1>5, <1>8, <1>10 DEF Gone
  <2>4. \A j \in 1 .. l + 1 : j \in 1 .. l \/ j = l + 1
    OBVIOUS
  <2>5. \A j \in 1 .. l + 1 :
          \E k \in 1 .. p : j <= k /\ k - j <= p - (l + 1) /\ t[j] = conns[k]
    <3>1. SUFFICES ASSUME NEW j \in 1 .. l + 1
                   PROVE  \E k \in 1 .. p : j <= k /\ k - j <= p - (l + 1) /\ t[j] = conns[k]
      OBVIOUS
    <3>2. CASE j \in 1 .. l
      <4>1. PICK k \in 1 .. n : j <= k /\ k - j <= n - l /\ s[j] = conns[k]
        BY <1>0, <1>6, <3>2
      <4>2. k \in 1 .. p /\ k - j <= p - (l + 1)
        BY <1>0, <1>3, <4>1
      <4>3. QED BY <1>0, <2>2, <3>2, <4>1, <4>2
    <3>3. CASE j = l + 1
      <4>1. p \in 1 .. p /\ j <= p /\ (p) - j <= p - (l + 1)
        BY <1>0, <1>3, <3>3
      <4>2. QED BY <1>0, <1>1, <2>2, <3>3, <4>1
    <3>4. QED BY <1>0, <2>4, <3>2, <3>3
  <2>6. \A j \in 1 .. l : t[j] # c
    <3>1. SUFFICES ASSUME NEW j \in 1 .. l PROVE t[j] # c
      OBVIOUS
    <3>2. PICK k \in 1 .. n : s[j] = conns[k]
      BY <1>0, <1>6
    <3>3. QED BY <1>0, <1>2, <2>2, <3>2
  <2>7. \A i, j \in 1 .. l + 1 : t[i] = t[j] => i = j
    BY <1>0, <1>7, <2>2, <2>4, <2>6
  <2>8. l + 1 <= p /\ p - (l + 1) = Cardinality(G)
    BY <1>0, <1>3, <1>5
  <2>9. t \in Seq(Socks) /\ Len(t) <= p
    BY <1>0, <2>2, <2>8
  <2>10. /\ IsFiniteSet(Gone(conns, out, p))
         /\ p - Len(t) = Cardinality(Gone(conns, out, p))
    BY <1>0, <1>5, <2>2, <2>3, <2>8
  <2>11. Moved(conns, p, t)
    BY <1>0, <2>2, <2>5 DEF Moved
  <2>12. Once(t)
    BY <1>0, <2>2, <2>7 DEF Once
  <2>13. KeptOK(conns, out, p, t)
    BY <2>9, <2>10, <2>11, <2>12 DEF KeptOK
  <2>14. QED BY <1>0, <2>13
<1>11. QED BY <1>0, <1>9, <1>10

\* A connection that is kept moves towards the front, by as many places as
\* connections were removed at most, and none of these twice.
LEMMA WithoutKeeps ==
  ASSUME NEW conns \in Seq(Socks), NEW out, IsFiniteSet(out),
         \A j, k \in 1 .. Len(conns) : conns[j] = conns[k] => j = k,
         NEW s, s = Without(conns, out)
  PROVE  KeptOK(conns, out, Len(conns), s) /\ Len(conns) - Len(s) <= Cardinality(out)
<1>1. PICK m \in Nat : m = Len(conns)
  BY LenProperties
<1>2. PICK f : KeptUpTo(conns, out, m, f) /\ Without(conns, out) = f[m]
  BY <1>1, WithoutIsKept
<1>3. \A n \in 0 .. m : f[n] = IF n = 0 THEN <<>>
        ELSE IF conns[n] \in out THEN f[n - 1] ELSE Append(f[n - 1], conns[n])
  BY <1>2 DEF KeptUpTo
<1> DEFINE S == {n \in Nat : n <= m => KeptOK(conns, out, n, f[n])}
<1>4. 0 \in S
  <2>1. f[0] = <<>>
    BY <1>3
  <2>2. Gone(conns, out, 0) = {}
    BY DEF Gone
  <2>3. <<>> \in Seq(Socks) /\ Len(<<>>) = 0
    OBVIOUS
  <2>4. IsFiniteSet({}) /\ Cardinality({}) = 0 - 0
    BY FS_EmptySet
  <2>5. KeptOK(conns, out, 0, <<>>)
    BY <2>2, <2>3, <2>4 DEF KeptOK, Moved, Once
  <2>6. QED BY <2>1, <2>5
<1>5. ASSUME NEW n \in Nat, n \in S
      PROVE  n + 1 \in S
  <2>1. SUFFICES ASSUME n + 1 <= m PROVE KeptOK(conns, out, n + 1, f[n + 1])
    OBVIOUS
  <2>2. KeptOK(conns, out, n, f[n])
    BY <1>5, <2>1
  <2>3. f[n + 1] = IF conns[n + 1] \in out THEN f[n] ELSE Append(f[n], conns[n + 1])
    <3>1. n + 1 \in 0 .. m /\ n + 1 # 0 /\ n + 1 - 1 = n
      BY <2>1
    <3>2. QED BY <1>3, <3>1
  <2>4. QED BY <1>1, <2>1, <2>2, <2>3, KeptStep
<1>6. Nat \subseteq S
  <2> HIDE DEF S
  <2>1. QED BY <1>4, <1>5, SetInduction
<1>7. KeptOK(conns, out, m, s)
  BY <1>2, <1>6
<1>8. Cardinality(Gone(conns, out, m)) <= Cardinality(out)
  <2>1. Gone(conns, out, m) \in SUBSET out
    BY DEF Gone
  <2>2. QED BY <2>1, FS_Subset
<1>9. m - Len(s) <= Cardinality(out)
  BY <1>7, <1>8 DEF KeptOK
<1>10. QED BY <1>1, <1>7, <1>9

-------------------------------------------------------------------------------
(* Dashboards: what a broadcast owes while the list changes under it.      *)

LEMMA ImageBound ==
  ASSUME NEW f, NEW lo \in Int, NEW hi \in Int, NEW T, T = {f[k] : k \in lo .. hi}
  PROVE  IsFiniteSet(T) /\ Cardinality(T) <= IF lo > hi THEN 0 ELSE hi - lo + 1
<1>1. PICK g : g = [k \in lo .. hi |-> f[k]]
  OBVIOUS
<1>2. PICK D : D = lo .. hi
  OBVIOUS
<1>3. g \in Surjection(D, T)
  BY <1>1, <1>2 DEF Surjection
<1>4. IsFiniteSet(D) /\ Cardinality(D) = IF lo > hi THEN 0 ELSE hi - lo + 1
  BY <1>2, FS_Interval
<1>5. IsFiniteSet(T) /\ Cardinality(T) <= Cardinality(D)
  BY <1>3, <1>4, FS_Surjection
<1>6. QED BY <1>4, <1>5

LEMMA BehindFinite ==
  ASSUME NEW conns \in Seq(Socks), NEW b
  PROVE  IsFiniteSet(Behind(conns, b)) /\ Cardinality(Behind(conns, b)) \in Nat
<1>1. PICK m \in Nat : m = Len(conns) /\ DOMAIN conns = 1 .. m
  BY LenProperties
<1>2. PICK T : T = {conns[k] : k \in 1 .. m}
  OBVIOUS
<1>3. IsFiniteSet(T)
  <2>1. PICK lo \in Int : lo = 1
    OBVIOUS
  <2>2. T = {conns[k] : k \in lo .. m} /\ m \in Int
    BY <1>2, <2>1
  <2>3. QED BY <2>2, ImageBound
<1>4. Behind(conns, b) \in SUBSET T
  BY <1>1, <1>2 DEF Behind
<1>5. IsFiniteSet(Behind(conns, b))
  BY <1>3, <1>4, FS_Subset
<1>6. QED BY <1>5, FS_CardinalityType

\* A broadcast that has not begun owes nobody behind it anything.
LEMMA BehindNone ==
  ASSUME NEW conns \in Seq(Socks), NEW b \in Casts, b.at = 0, NEW met, b.owed \subseteq met
  PROVE  CastOK(b, conns, met)
<1>1. DOMAIN conns = 1 .. Len(conns) /\ Len(conns) \in Nat
  BY LenProperties
<1>2. Behind(conns, b) = {}
  BY <1>1 DEF Behind
<1>3. Cardinality(Behind(conns, b)) = 0 /\ b.left \in Nat
  BY <1>2, FS_EmptySet DEF Casts
<1>4. QED BY <1>3 DEF CastOK

LEMMA NoCastTyped == NoCast \in Casts /\ NoCast.at = 0 /\ NoCast.owed = {} /\ NoCast.dead = <<>>
<1>1. <<>> \in Seq(Socks)
  OBVIOUS
<1>2. QED BY <1>1 DEF NoCast, Casts

\* A connection that joins is not one that was owed the message.
LEMMA BehindAppend ==
  ASSUME NEW conns \in Seq(Socks), NEW b, NEW met, NEW more, CastOK(b, conns, met),
         NEW s \in Socks, s \notin met, met \subseteq more
  PROVE  CastOK(b, Append(conns, s), more)
<1>1. PICK m \in Nat : m = Len(conns) /\ DOMAIN conns = 1 .. m
  BY LenProperties
<1>2. PICK l \in Seq(Socks) : /\ l = Append(conns, s) /\ Len(l) = m + 1 /\ l[m + 1] = s
                              /\ \A k \in 1 .. m : l[k] = conns[k]
  <2>1. /\ Append(conns, s) \in Seq(Socks) /\ Len(Append(conns, s)) = Len(conns) + 1
        /\ \A k \in 1 .. Len(conns) : Append(conns, s)[k] = conns[k]
        /\ Append(conns, s)[Len(conns) + 1] = s
    BY AppendProperties
  <2>2. QED BY <1>1, <2>1
<1>3. DOMAIN l = 1 .. m + 1
  BY <1>2, LenProperties
<1>4. \A k \in 1 .. m + 1 : k \in 1 .. m \/ k = m + 1
  OBVIOUS
<1>5. s \notin b.owed
  BY DEF CastOK
<1>6. \A k \in 1 .. m : k \in 1 .. m + 1
  OBVIOUS
<1>7. Behind(l, b) = Behind(conns, b)
  BY <1>1, <1>2, <1>3, <1>4, <1>5, <1>6 DEF Behind
<1>8. QED BY <1>2, <1>7 DEF CastOK

\* Whoever a turn passes is sent the message.
LEMMA BehindTurn ==
  ASSUME list \in Seq(Socks), NEW b, NEW met, CastOK(b, list, met), b.at < Len(list)
  PROVE  CastOK(Turn(b), list, met) /\ Turn(b).at = b.at + 1
<1>1. PICK m \in Nat : m = Len(list) /\ DOMAIN list = 1 .. m
  BY LenProperties
<1>2. PICK a \in Nat : a = b.at /\ b \in Casts
  BY DEF CastOK, Casts
<1>3. PICK s \in Socks : s = list[a + 1]
  <2>1. a + 1 \in 1 .. Len(list)
    BY <1>1, <1>2
  <2>2. QED BY <2>1, ElementOfSeq
<1>4. PICK c : c = [b EXCEPT !.at = @ + 1, !.to = s, !.owed = @ \ {s}]
  OBVIOUS
<1>5. Turn(b) = c
  BY <1>2, <1>3, <1>4 DEF Turn
<1>6. c \in Casts /\ c.at = a + 1 /\ c.to = s /\ c.owed = b.owed \ {s} /\ c.left = b.left
  <2>1. c.at = a + 1 /\ c.to = s /\ c.owed = b.owed \ {s} /\ c.dead = b.dead /\ c.left = b.left
    BY <1>2, <1>4 DEF Casts
  <2>2. b.owed \ {s} \in SUBSET Socks /\ a + 1 \in Nat
    BY <1>2 DEF Casts
  <2>3. c \in Casts
    BY <1>2, <1>4, <2>2 DEF Casts
  <2>4. QED BY <2>1, <2>3
<1>7. Behind(list, c) \in SUBSET Behind(list, b)
  <2>1. \A k \in 1 .. m : k <= a + 1 => k <= a \/ k = a + 1
    OBVIOUS
  <2>2. QED BY <1>1, <1>2, <1>3, <1>6, <2>1 DEF Behind
<1>8. Cardinality(Behind(list, c)) <= Cardinality(Behind(list, b))
  BY <1>7, BehindFinite, FS_Subset
<1>9. Cardinality(Behind(list, c)) <= c.left
  <2>1. Cardinality(Behind(list, c)) \in Nat /\ Cardinality(Behind(list, b)) \in Nat
    BY BehindFinite
  <2>2. b.left \in Nat /\ Cardinality(Behind(list, b)) <= b.left
    BY <1>2 DEF CastOK, Casts
  <2>3. QED BY <1>6, <1>8, <2>1, <2>2
<1>10. c.owed \subseteq met
  BY <1>6 DEF CastOK
<1>11. CastOK(c, list, met)
  BY <1>6, <1>9, <1>10 DEF CastOK
<1>12. QED BY <1>2, <1>5, <1>6, <1>11

\* Entries that are removed put as many connections behind, no more.
Nearer(conns, l, d) ==
  \A j \in 1 .. Len(l) : \E k \in 1 .. Len(conns) : j <= k /\ k - j <= d /\ l[j] = conns[k]

LEMMA BehindRemoval ==
  ASSUME NEW conns \in Seq(Socks), NEW l \in Seq(Socks), NEW d \in Nat,
         Nearer(conns, l, d), NEW n \in Nat, d <= n, NEW b, NEW met, CastOK(b, conns, met),
         NEW c, c = [b EXCEPT !.left = @ + n]
  PROVE  CastOK(c, l, met)
<1>1. PICK m \in Nat : m = Len(conns) /\ DOMAIN conns = 1 .. m
  BY LenProperties
<1>2. PICK a \in Nat : a = b.at /\ b \in Casts /\ b.left \in Nat
  BY DEF CastOK, Casts
<1>3. c \in Casts /\ c.at = a /\ c.to = b.to /\ c.owed = b.owed /\ c.left = b.left + n
  <2>1. c.at = a /\ c.to = b.to /\ c.owed = b.owed /\ c.left = b.left + n
    BY <1>2 DEF Casts
  <2>2. b.left + n \in Nat
    BY <1>2
  <2>3. c \in Casts
    BY <1>2, <2>2 DEF Casts
  <2>4. QED BY <2>1, <2>3
<1>4. DOMAIN l = 1 .. Len(l)
  BY LenProperties
<1>5. PICK T : T = {conns[k] : k \in a + 1 .. a + d}
  OBVIOUS
<1>6. IsFiniteSet(T) /\ Cardinality(T) <= d
  <2>1. PICK lo \in Int : lo = a + 1
    OBVIOUS
  <2>2. PICK hi \in Int : hi = a + d
    OBVIOUS
  <2>3. IsFiniteSet(T) /\ Cardinality(T) <= IF lo > hi THEN 0 ELSE hi - lo + 1
    BY <1>5, <2>1, <2>2, ImageBound
  <2>4. QED BY <2>1, <2>2, <2>3
<1>7. PICK A : A = Behind(conns, b) /\ IsFiniteSet(A) /\ Cardinality(A) \in Nat
  BY BehindFinite
<1>8. Behind(l, c) \in SUBSET (A \union T)
  <2>1. SUFFICES ASSUME NEW j \in 1 .. Len(l), j <= a, l[j] \in b.owed
                 PROVE  l[j] \in A \union T
    BY <1>3, <1>4 DEF Behind
  <2>2. PICK k \in 1 .. m : j <= k /\ k - j <= d /\ l[j] = conns[k]
    BY <1>1 DEF Nearer
  <2>3. CASE k <= a
    BY <1>1, <1>2, <1>7, <2>1, <2>2, <2>3 DEF Behind
  <2>4. CASE ~ (k <= a)
    <3>1. k \in a + 1 .. a + d
      BY <2>1, <2>2, <2>4
    <3>2. QED BY <1>5, <2>2, <3>1
  <2>5. QED BY <2>3, <2>4
<1>9. /\ IsFiniteSet(A \union T)
      /\ Cardinality(A \union T) = Cardinality(A) + Cardinality(T) - Cardinality(A \cap T)
  BY <1>6, <1>7, FS_Union
<1>10. /\ Cardinality(A \cap T) \in Nat /\ Cardinality(T) \in Nat
       /\ Cardinality(A \union T) \in Nat /\ Cardinality(Behind(l, c)) \in Nat
  <2>1. IsFiniteSet(A \cap T)
    BY <1>7, FS_Intersection
  <2>2. QED BY <1>6, <1>9, <2>1, FS_CardinalityType, BehindFinite
<1>11. Cardinality(Behind(l, c)) <= Cardinality(A \union T)
  BY <1>8, <1>9, FS_Subset
<1>12. Cardinality(A) <= b.left
  BY <1>7 DEF CastOK
<1>13. Cardinality(Behind(l, c)) <= c.left
  BY <1>2, <1>3, <1>6, <1>7, <1>9, <1>10, <1>11, <1>12
<1>14. QED BY <1>2, <1>3, <1>13 DEF CastOK

-------------------------------------------------------------------------------
(* Dashboards: the invariant of the broadcasts, step by step.              *)

LEMMA ListTyped ==
  ASSUME ListOK
  PROVE  /\ list \in Seq(Socks) /\ Len(list) \in Nat /\ DOMAIN list = 1 .. Len(list)
         /\ \A k \in 1 .. Len(list) : list[k] \in Met
         /\ \A j, k \in 1 .. Len(list) : list[j] = list[k] => j = k
<1>1. list \in Seq(Socks)
  BY DEF ListOK
<1>2. Len(list) \in Nat /\ DOMAIN list = 1 .. Len(list)
  BY <1>1, LenProperties
<1>3. \A k \in 1 .. Len(list) : list[k] \in Met
  BY <1>2 DEF ListOK, Listed, ToSet
<1>4. \A j, k \in 1 .. Len(list) : list[j] = list[k] => j = k
  BY <1>2 DEF ListOK
<1>5. QED BY <1>1, <1>2, <1>3, <1>4

\* Removing connections, with the broadcasts told of it.
LEMMA RemovalKeeps ==
  ASSUME CastsInv, NEW out, IsFiniteSet(out), NEW l, l = Without(list, out),
         NEW n \in Nat, Len(list) - Len(l) <= n
  PROVE  /\ l \in Seq(Socks) /\ ToSet(l) \subseteq Met
         /\ \A j, k \in DOMAIN l : l[j] = l[k] => j = k
         /\ Len(list) - Len(l) <= Cardinality(out)
         /\ \A r \in Reqs : CastOK(Shrunk(n)[r], l, Met)
         /\ \A r \in Reqs : cast[r].at > 0 => Shrunk(n)[r].at > 0
<1>1. ListOK /\ cast \in [Reqs -> Casts] /\ \A r \in Reqs : CastOK(cast[r], list, Met)
  BY DEF CastsInv
<1>2. PICK m \in Nat : m = Len(list) /\ \A j, k \in 1 .. m : list[j] = list[k] => j = k
  BY <1>1, ListTyped
<1>3. /\ l \in Seq(Socks) /\ Len(l) <= m
      /\ m - Len(l) <= Cardinality(out)
      /\ \A j \in 1 .. Len(l) : \E k \in 1 .. m :
           j <= k /\ k - j <= m - Len(l) /\ l[j] = list[k]
      /\ \A i, j \in 1 .. Len(l) : l[i] = l[j] => i = j
  <2>1. list \in Seq(Socks) /\ \A j, k \in 1 .. Len(list) : list[j] = list[k] => j = k
    BY <1>1, ListTyped
  <2>2. KeptOK(list, out, Len(list), l) /\ Len(list) - Len(l) <= Cardinality(out)
    BY <2>1, WithoutKeeps
  <2>3. QED BY <1>2, <2>2 DEF KeptOK, Moved, Once
<1>4. DOMAIN l = 1 .. Len(l) /\ Len(l) \in Nat
  BY <1>3, LenProperties
<1>5. ToSet(l) \subseteq Met
  <2>1. ASSUME NEW j \in 1 .. Len(l) PROVE l[j] \in Met
    <3>1. PICK k \in 1 .. m : l[j] = list[k]
      BY <1>3
    <3>2. QED BY <1>1, <1>2, <3>1, ListTyped
  <2>2. QED BY <1>4, <2>1 DEF ToSet
<1>6. PICK d \in Nat : d = m - Len(l) /\ d <= n
  <2>1. m - Len(l) \in Nat
    BY <1>3, <1>4
  <2>2. m - Len(l) <= n
    BY <1>2
  <2>3. QED BY <2>1, <2>2
<1>7. ASSUME NEW r \in Reqs
      PROVE  CastOK(Shrunk(n)[r], l, Met) /\ (cast[r].at > 0 => Shrunk(n)[r].at > 0)
  <2>1. PICK b \in Casts : b = cast[r] /\ CastOK(b, list, Met)
    BY <1>1
  <2>2. CASE b.at > 0
    <3>1. PICK c : c = [b EXCEPT !.left = @ + n]
      OBVIOUS
    <3>2. Shrunk(n)[r] = c
      BY <2>1, <2>2, <3>1 DEF Shrunk
    <3>3. c.at = b.at
      BY <3>1 DEF Casts
    <3>4. Nearer(list, l, d)
      BY <1>2, <1>3, <1>6 DEF Nearer
    <3>5. list \in Seq(Socks)
      BY <1>1, ListTyped
    <3>6. CastOK(c, l, Met)
      BY <1>3, <1>6, <2>1, <3>1, <3>4, <3>5, BehindRemoval
    <3>7. QED BY <2>2, <3>2, <3>3, <3>6
  <2>3. CASE ~ (b.at > 0)
    <3>1. Shrunk(n)[r] = b
      BY <2>1, <2>3 DEF Shrunk
    <3>2. b.at = 0 /\ b.owed \subseteq Met
      BY <2>1, <2>3 DEF Casts, CastOK
    <3>3. CastOK(b, l, Met)
      BY <1>3, <2>1, <3>2, BehindNone
    <3>4. QED BY <2>1, <2>3, <3>1, <3>3
  <2>4. QED BY <2>2, <2>3
<1>8. \A j, k \in DOMAIN l : l[j] = l[k] => j = k
  BY <1>3, <1>4
<1>9. QED BY <1>2, <1>3, <1>5, <1>7, <1>8

LEMMA NInitially == NInit => CastsInv
<1>1. SUFFICES ASSUME NInit PROVE CastsInv
  OBVIOUS
<1>2. list = <<>> /\ sock = [s \in Socks |-> "new"] /\ cast = [r \in Reqs |-> NoCast]
  BY <1>1 DEF NInit
<1>3. <<>> \in Seq(Socks) /\ DOMAIN <<>> = {}
  OBVIOUS
<1>4. Listed = {}
  BY <1>2, <1>3 DEF Listed, ToSet
<1>5. ListOK
  BY <1>2, <1>3, <1>4 DEF ListOK
<1>6. CastOK(NoCast, list, Met)
  <2>1. NoCast.owed \subseteq Met /\ NoCast.at = 0 /\ NoCast \in Casts /\ list \in Seq(Socks)
    BY <1>2, <1>3, NoCastTyped
  <2>2. QED BY <2>1, BehindNone
<1>7. cast \in [Reqs -> Casts] /\ \A r \in Reqs : cast[r] = NoCast
  BY <1>2, NoCastTyped
<1>8. QED BY <1>5, <1>6, <1>7 DEF CastsInv

\* Steps that leave the list and the broadcasts alone.
LEMMA SockStep ==
  ASSUME CastsInv, list' = list, cast' = cast,
         sock' \in [Socks -> {"new", "accepting", "open", "gone", "closed"}],
         Met \subseteq Met'
  PROVE  CastsInv'
<1>1. ListOK'
  BY DEF CastsInv, ListOK, Listed
<1>2. \A r \in Reqs : CastOK(cast[r], list, Met')
  BY DEF CastsInv, CastOK
<1>3. \A r \in Reqs : CastOK(cast[r], list, Met)'
  BY <1>2 DEF CastOK, Behind
<1>4. cast' \in [Reqs -> Casts]
  BY DEF CastsInv
<1>5. QED BY <1>1, <1>3, <1>4 DEF CastsInv

LEMMA SocketStep ==
  ASSUME CastsInv, NEW s \in Socks, Connect(s) \/ Leave(s) \/ Abandon(s)
  PROVE  CastsInv'
<1>1. /\ list' = list /\ cast' = cast
      /\ \E v \in {"accepting", "gone", "closed"} :
           /\ sock' = [sock EXCEPT ![s] = v]
           /\ sock[s] \in {"open", "gone", "closed"} => v # "accepting"
  BY DEF Connect, Leave, Abandon
<1>2. sock \in [Socks -> {"new", "accepting", "open", "gone", "closed"}]
  BY DEF CastsInv, ListOK
<1>3. sock' \in [Socks -> {"new", "accepting", "open", "gone", "closed"}] /\ Met \subseteq Met'
  BY <1>1, <1>2 DEF Met
<1>4. QED BY <1>1, <1>3, SockStep

LEMMA QuietStep ==
  ASSUME CastsInv, list' = list, cast' = cast, sock' = sock
  PROVE  CastsInv'
<1>1. sock' \in [Socks -> {"new", "accepting", "open", "gone", "closed"}] /\ Met \subseteq Met'
  BY DEF CastsInv, ListOK, Met
<1>2. QED BY <1>1, SockStep

LEMMA AcceptedStep ==
  ASSUME CastsInv, NEW s \in Socks, Accepted(s)
  PROVE  CastsInv'
<1>1. /\ sock[s] = "accepting" /\ sock' = [sock EXCEPT ![s] = "open"]
      /\ list' = Append(list, s) /\ cast' = cast
  BY DEF Accepted
<1>2. /\ ListOK /\ cast \in [Reqs -> Casts] /\ \A r \in Reqs : CastOK(cast[r], list, Met)
      /\ sock \in [Socks -> {"new", "accepting", "open", "gone", "closed"}]
  BY DEF CastsInv, ListOK
<1>3. s \notin Met /\ Met \subseteq Met' /\ s \in Met'
  BY <1>1, <1>2 DEF Met
<1>4. PICK m \in Nat : m = Len(list) /\ list \in Seq(Socks)
  BY <1>2, ListTyped
<1>5. PICK l \in Seq(Socks) : /\ l = list' /\ Len(l) = m + 1 /\ l[m + 1] = s
                              /\ \A k \in 1 .. m : l[k] = list[k]
  <2>1. /\ Append(list, s) \in Seq(Socks) /\ Len(Append(list, s)) = Len(list) + 1
        /\ \A k \in 1 .. Len(list) : Append(list, s)[k] = list[k]
        /\ Append(list, s)[Len(list) + 1] = s
    BY <1>4, AppendProperties
  <2>2. QED BY <1>1, <1>4, <2>1
<1>6. DOMAIN l = 1 .. m + 1 /\ \A k \in 1 .. m + 1 : k \in 1 .. m \/ k = m + 1
  BY <1>5, LenProperties
<1>7. /\ \A k \in 1 .. m : list[k] \in Met
      /\ \A j, k \in 1 .. m : list[j] = list[k] => j = k
  BY <1>2, <1>4, ListTyped
<1>8. \A j, k \in 1 .. m + 1 : l[j] = l[k] => j = k
  <2>1. \A k \in 1 .. m : l[k] \in Met
    BY <1>5, <1>7
  <2>2. QED BY <1>3, <1>5, <1>6, <1>7, <2>1
<1>9. Listed' \subseteq Met'
  BY <1>3, <1>5, <1>6, <1>7 DEF Listed, ToSet
<1>10. ListOK'
  <2>1. sock' \in [Socks -> {"new", "accepting", "open", "gone", "closed"}]
    BY <1>1, <1>2
  <2>2. \A j, k \in DOMAIN list' : list'[j] = list'[k] => j = k
    BY <1>5, <1>6, <1>8
  <2>3. QED BY <1>5, <1>9, <2>1, <2>2 DEF ListOK
<1>11. ASSUME NEW r \in Reqs
       PROVE  CastOK(cast[r], list, Met)'
  <2>1. PICK met : met = Met /\ s \notin met /\ met \subseteq Met'
    BY <1>3
  <2>2. PICK more : more = Met' /\ met \subseteq more
    BY <2>1
  <2>3. PICK b : b = cast[r] /\ CastOK(b, list, met)
    BY <1>2, <2>1
  <2>4. CastOK(b, Append(list, s), more)
    BY <1>4, <2>1, <2>2, <2>3, BehindAppend
  <2>5. CastOK(cast'[r], list', Met')
    BY <1>1, <2>2, <2>3, <2>4
  <2>6. QED BY <2>5 DEF CastOK, Behind
<1>12. QED BY <1>1, <1>2, <1>10, <1>11 DEF CastsInv

\* What MissedAtMostRemoved says of a step.
FewMissed ==
  \A r \in Reqs : cast[r].at > 0 /\ cast'[r].at = 0 => Cardinality(Missed(r)) <= cast[r].left

LEMMA DisconnectStep ==
  ASSUME CastsInv, NEW s \in Socks, Disconnect(s)
  PROVE  CastsInv' /\ FewMissed
<1>1. /\ sock[s] = "gone" /\ sock' = [sock EXCEPT ![s] = "closed"]
      /\ list' = Without(list, {s}) /\ cast' = Shrunk(Len(list) - Len(list'))
  BY DEF Disconnect
<1>2. /\ ListOK /\ sock \in [Socks -> {"new", "accepting", "open", "gone", "closed"}]
      /\ cast \in [Reqs -> Casts]
  BY DEF CastsInv, ListOK
<1>3. PICK l : l = list' /\ l = Without(list, {s})
  BY <1>1
<1>4. PICK m \in Nat : m = Len(list) /\ list \in Seq(Socks)
                       /\ \A j, k \in 1 .. Len(list) : list[j] = list[k] => j = k
  BY <1>2, ListTyped
<1>5. PICK out : out = {s} /\ IsFiniteSet(out) /\ l = Without(list, out)
  BY <1>3, FS_Singleton
<1>6. l \in Seq(Socks) /\ Len(l) <= Len(list)
  BY <1>4, <1>5, WithoutKeeps DEF KeptOK
<1>7. Len(l) \in Nat
  BY <1>6, LenProperties
<1>8. PICK n \in Nat : n = Len(list) - Len(l)
  BY <1>4, <1>6, <1>7
<1>9. /\ ToSet(l) \subseteq Met
      /\ \A j, k \in DOMAIN l : l[j] = l[k] => j = k
      /\ \A r \in Reqs : CastOK(Shrunk(n)[r], l, Met)
      /\ \A r \in Reqs : cast[r].at > 0 => Shrunk(n)[r].at > 0
  <2>1. Len(list) - Len(l) <= n
    BY <1>8
  <2>2. QED BY <1>5, <2>1, RemovalKeeps
<1>10. sock' \in [Socks -> {"new", "accepting", "open", "gone", "closed"}] /\ Met' = Met
  BY <1>1, <1>2 DEF Met
<1>11. cast' = Shrunk(n)
  BY <1>1, <1>3, <1>8
<1>12. ListOK'
  BY <1>3, <1>6, <1>9, <1>10 DEF ListOK, Listed
<1>13. \A r \in Reqs : CastOK(cast'[r], list', Met')
  BY <1>3, <1>9, <1>10, <1>11
<1>14. \A r \in Reqs : CastOK(cast[r], list, Met)'
  BY <1>13 DEF CastOK, Behind
<1>15. cast' \in [Reqs -> Casts]
  BY <1>9, <1>11 DEF Shrunk, CastOK
<1>16. FewMissed
  BY <1>9, <1>11 DEF FewMissed
<1>17. QED BY <1>12, <1>14, <1>15, <1>16 DEF CastsInv

\* The dead are removed at the end of a broadcast.
LEMMA SentKeeps ==
  ASSUME CastsInv, NEW r \in Reqs, NEW b, b.dead \in Seq(Socks), Sent(r, b), sock' = sock
  PROVE  CastsInv' /\ \A q \in Reqs : q # r /\ cast[q].at > 0 => cast'[q].at > 0
<1>1. PICK out : /\ out = {b.dead[k] : k \in Known(b.dead)}
                 /\ list' = Without(list, out)
                 /\ cast' = [Shrunk(Cardinality(out)) EXCEPT ![r] = NoCast]
  BY DEF Sent
<1>2. ListOK /\ cast \in [Reqs -> Casts]
  BY DEF CastsInv
<1>3. IsFiniteSet(out)
  <2>1. PICK m \in Nat : m = Len(b.dead) /\ DOMAIN b.dead = 1 .. m
    BY LenProperties
  <2>2. PICK failed : failed = b.dead
    OBVIOUS
  <2>3. PICK lo \in Int : lo = 1
    OBVIOUS
  <2>4. PICK T : T = {failed[k] : k \in lo .. m}
    OBVIOUS
  <2>5. m \in Int
    OBVIOUS
  <2>6. IsFiniteSet(T)
    BY <2>4, <2>5, ImageBound
  <2>7. out \in SUBSET T
    BY <1>1, <2>1, <2>2, <2>3, <2>4 DEF Known
  <2>8. QED BY <2>6, <2>7, FS_Subset
<1>4. PICK n \in Nat : n = Cardinality(out)
  BY <1>3, FS_CardinalityType
<1>5. PICK l : l = list' /\ l = Without(list, out)
  BY <1>1
<1>6. Len(list) - Len(l) <= Cardinality(out)
  <2>1. list \in Seq(Socks) /\ \A j, k \in 1 .. Len(list) : list[j] = list[k] => j = k
    BY <1>2, ListTyped
  <2>2. QED BY <1>3, <1>5, <2>1, WithoutKeeps
<1>7. /\ l \in Seq(Socks) /\ ToSet(l) \subseteq Met
      /\ \A j, k \in DOMAIN l : l[j] = l[k] => j = k
      /\ \A q \in Reqs : CastOK(Shrunk(n)[q], l, Met)
      /\ \A q \in Reqs : cast[q].at > 0 => Shrunk(n)[q].at > 0
  <2>1. Len(list) - Len(l) <= n
    BY <1>4, <1>6
  <2>2. QED BY <1>3, <1>5, <2>1, RemovalKeeps
<1>8. cast' = [Shrunk(n) EXCEPT ![r] = NoCast] /\ DOMAIN Shrunk(n) = Reqs
  BY <1>1, <1>4 DEF Shrunk
<1>9. \A q \in Reqs : cast'[q] = IF q = r THEN NoCast ELSE Shrunk(n)[q]
  BY <1>8
<1>10. CastOK(NoCast, l, Met)
  <2>1. NoCast.owed \subseteq Met /\ NoCast.at = 0 /\ NoCast \in Casts
    BY NoCastTyped
  <2>2. QED BY <1>7, <2>1, BehindNone
<1>11. Met' = Met
  BY DEF Met
<1>12. ListOK'
  BY <1>2, <1>5, <1>7, <1>11 DEF ListOK, Listed
<1>13. \A q \in Reqs : CastOK(cast'[q], list', Met')
  BY <1>5, <1>7, <1>9, <1>10, <1>11
<1>14. \A q \in Reqs : CastOK(cast[q], list, Met)'
  BY <1>13 DEF CastOK, Behind
<1>15. cast' \in [Reqs -> Casts]
  <2>1. \A q \in Reqs : cast'[q] \in Casts
    BY <1>13 DEF CastOK
  <2>2. cast' = [q \in Reqs |-> cast'[q]]
    BY <1>8
  <2>3. QED BY <2>1, <2>2
<1>16. QED BY <1>7, <1>9, <1>12, <1>14, <1>15 DEF CastsInv

\* One broadcast takes a turn; the list and the others stay as they are.
LEMMA TurnKeeps ==
  ASSUME CastsInv, NEW r \in Reqs, NEW b, CastOK(b, list, Met), b.at < Len(list),
         cast' = [cast EXCEPT ![r] = Turn(b)], list' = list, sock' = sock
  PROVE  CastsInv' /\ FewMissed
<1>1. ListOK /\ cast \in [Reqs -> Casts] /\ \A q \in Reqs : CastOK(cast[q], list, Met)
  BY DEF CastsInv
<1>2. CastOK(Turn(b), list, Met) /\ Turn(b).at = b.at + 1
  BY <1>1, ListTyped, BehindTurn
<1>3. \A q \in Reqs : cast'[q] = IF q = r THEN Turn(b) ELSE cast[q]
  BY <1>1
<1>4. Met' = Met
  BY DEF Met
<1>5. \A q \in Reqs : CastOK(cast'[q], list', Met')
  BY <1>1, <1>2, <1>3, <1>4
<1>6. \A q \in Reqs : CastOK(cast[q], list, Met)'
  BY <1>5 DEF CastOK, Behind
<1>7. ListOK'
  BY <1>1, <1>4 DEF ListOK, Listed
<1>8. cast' \in [Reqs -> Casts]
  BY <1>1, <1>2 DEF CastOK
<1>9. FewMissed
  <2>1. b.at \in Nat
    BY DEF CastOK, Casts
  <2>2. \A q \in Reqs : cast[q].at > 0 => cast'[q].at # 0
    <3>1. \A q \in Reqs : cast[q].at \in Nat
      BY <1>1 DEF Casts
    <3>2. QED BY <1>2, <1>3, <2>1, <3>1
  <2>3. QED BY <2>2 DEF FewMissed
<1>10. QED BY <1>6, <1>7, <1>8, <1>9 DEF CastsInv

LEMMA BroadcastStep ==
  ASSUME CastsInv, NEW r \in Reqs, Broadcast(r)
  PROVE  CastsInv' /\ FewMissed
<1>1. ListOK /\ cast \in [Reqs -> Casts] /\ \A q \in Reqs : CastOK(cast[q], list, Met)
  BY DEF CastsInv
<1>2. sock' = sock
  BY DEF Broadcast
<1>3. CASE list # <<>> /\ cast' = [cast EXCEPT ![r] = Turn([NoCast EXCEPT !.owed = Listed])]
           /\ list' = list
  <2>1. PICK b : b = [NoCast EXCEPT !.owed = Listed]
    OBVIOUS
  <2>2. Listed \subseteq Met /\ Met \subseteq Socks /\ list \in Seq(Socks)
    BY <1>1 DEF ListOK, Met
  <2>3. b \in Casts /\ b.at = 0 /\ b.owed = Listed
    BY <2>1, <2>2, NoCastTyped DEF Casts
  <2>4. CastOK(b, list, Met)
    BY <2>2, <2>3, BehindNone
  <2>5. b.at < Len(list)
    BY <1>3, <2>2, <2>3, EmptySeq
  <2>6. QED BY <1>2, <1>3, <2>1, <2>4, <2>5, TurnKeeps
<1>4. CASE list = <<>> /\ Sent(r, NoCast)
  <2>1. NoCast.dead \in Seq(Socks)
    BY NoCastTyped
  <2>2. CastsInv' /\ \A q \in Reqs : q # r /\ cast[q].at > 0 => cast'[q].at > 0
    BY <1>2, <1>4, <2>1, SentKeeps
  <2>3. Missed(r) = {}
    BY <1>4 DEF Missed, Listed, ToSet
  <2>4. Cardinality(Missed(r)) = 0 /\ cast[r].left \in Nat
    BY <1>1, <2>3, FS_EmptySet DEF Casts
  <2>5. FewMissed
    <3>1. \A q \in Reqs : cast'[q].at \in Nat
      BY <2>2 DEF CastsInv, Casts
    <3>2. QED BY <2>2, <2>4, <3>1 DEF FewMissed
  <2>6. QED BY <2>2, <2>5
<1>5. QED BY <1>3, <1>4 DEF Broadcast

LEMMA SendStep ==
  ASSUME CastsInv, NEW r \in Reqs, Send(r)
  PROVE  CastsInv' /\ FewMissed
<1>1. ListOK /\ cast \in [Reqs -> Casts] /\ \A q \in Reqs : CastOK(cast[q], list, Met)
  BY DEF CastsInv
<1>2. PICK failed \in BOOLEAN : \E b :
        /\ b = [cast[r] EXCEPT !.dead = IF failed THEN Append(@, cast[r].to) ELSE @]
        /\ cast[r].at > 0 /\ sock' = sock
        /\ \/ b.at < Len(list) /\ cast' = [cast EXCEPT ![r] = Turn(b)] /\ list' = list
           \/ b.at >= Len(list) /\ Sent(r, b)
  BY DEF Send, Outcomes
<1>3. PICK b :
        /\ b = [cast[r] EXCEPT !.dead = IF failed THEN Append(@, cast[r].to) ELSE @]
        /\ cast[r].at > 0 /\ sock' = sock
        /\ \/ b.at < Len(list) /\ cast' = [cast EXCEPT ![r] = Turn(b)] /\ list' = list
           \/ b.at >= Len(list) /\ Sent(r, b)
  BY <1>2
<1>4. cast[r] \in Casts /\ cast[r].to \in Socks /\ CastOK(cast[r], list, Met)
  BY <1>1, <1>3 DEF CastOK
<1>5. /\ b \in Casts /\ b.at = cast[r].at /\ b.to = cast[r].to /\ b.owed = cast[r].owed
      /\ b.left = cast[r].left /\ b.dead \in Seq(Socks)
  <2>1. PICK c \in Casts : c = cast[r]
    BY <1>4
  <2>2. PICK d \in Seq(Socks) : d = IF failed THEN Append(c.dead, c.to) ELSE c.dead
    <3>1. c.dead \in Seq(Socks) /\ c.to \in Socks
      BY <1>4, <2>1 DEF Casts
    <3>2. Append(c.dead, c.to) \in Seq(Socks)
      BY <3>1, AppendProperties
    <3>3. QED BY <3>1, <3>2
  <2>3. b = [c EXCEPT !.dead = d]
    BY <1>3, <2>1, <2>2
  <2>4. b \in Casts
    BY <2>3 DEF Casts
  <2>5. b.at = c.at /\ b.to = c.to /\ b.owed = c.owed /\ b.left = c.left /\ b.dead = d
    BY <2>3 DEF Casts
  <2>6. QED BY <2>1, <2>4, <2>5
<1>6. CASE b.at < Len(list) /\ cast' = [cast EXCEPT ![r] = Turn(b)] /\ list' = list
  <2>1. CastOK(b, list, Met)
    BY <1>4, <1>5 DEF CastOK, Behind
  <2>2. QED BY <1>3, <1>6, <2>1, TurnKeeps
<1>7. CASE b.at >= Len(list) /\ Sent(r, b)
  <2>1. CastsInv' /\ \A q \in Reqs : q # r /\ cast[q].at > 0 => cast'[q].at > 0
    BY <1>3, <1>5, <1>7, SentKeeps
  <2>2. Missed(r) \in SUBSET Behind(list, cast[r])
    <3>1. DOMAIN list = 1 .. Len(list) /\ Len(list) \in Nat
      BY <1>1, ListTyped
    <3>2. cast[r].at \in Nat /\ cast[r].at >= Len(list)
      BY <1>4, <1>5, <1>7 DEF Casts
    <3>3. \A k \in DOMAIN list : k <= cast[r].at
      BY <3>1, <3>2
    <3>4. QED BY <3>3 DEF Missed, Behind, Listed, ToSet
  <2>3. IsFiniteSet(Behind(list, cast[r])) /\ Cardinality(Behind(list, cast[r])) \in Nat
    BY <1>1, ListTyped, BehindFinite
  <2>4. /\ Cardinality(Missed(r)) <= Cardinality(Behind(list, cast[r]))
        /\ IsFiniteSet(Missed(r))
    BY <2>2, <2>3, FS_Subset
  <2>5. Cardinality(Missed(r)) \in Nat
    BY <2>4, FS_CardinalityType
  <2>6. Cardinality(Behind(list, cast[r])) <= cast[r].left /\ cast[r].left \in Nat
    BY <1>4 DEF CastOK, Casts
  <2>7. Cardinality(Missed(r)) <= cast[r].left
    BY <2>3, <2>4, <2>5, <2>6
  <2>8. FewMissed
    <3>1. \A q \in Reqs : cast'[q].at \in Nat
      BY <2>1 DEF CastsInv, Casts
    <3>2. QED BY <2>1, <2>7, <3>1 DEF FewMissed
  <2>9. QED BY <2>1, <2>8
<1>8. QED BY <1>3, <1>6, <1>7

\* Steps in which no broadcast ends.
LEMMA NoneEnds ==
  ASSUME CastsInv, cast' = cast
  PROVE  FewMissed
BY DEF FewMissed

LEMMA NStep ==
  ASSUME CastsInv, [NNext]_nvars
  PROVE  CastsInv' /\ FewMissed
<1>1. CASE \E s \in Socks : Connect(s) \/ Accepted(s) \/ Leave(s) \/ Disconnect(s) \/ Abandon(s)
  <2>1. PICK s \in Socks : Connect(s) \/ Accepted(s) \/ Leave(s) \/ Disconnect(s) \/ Abandon(s)
    BY <1>1
  <2>2. CASE Connect(s) \/ Leave(s) \/ Abandon(s)
    <3>1. cast' = cast
      BY <2>2 DEF Connect, Leave, Abandon
    <3>2. QED BY <2>2, <3>1, SocketStep, NoneEnds
  <2>3. CASE Accepted(s)
    <3>1. cast' = cast
      BY <2>3 DEF Accepted
    <3>2. QED BY <2>3, <3>1, AcceptedStep, NoneEnds
  <2>4. CASE Disconnect(s)
    BY <2>4, DisconnectStep
  <2>5. QED BY <2>1, <2>2, <2>3, <2>4
<1>2. CASE \E r \in Reqs : Broadcast(r) \/ Send(r)
  BY <1>2, BroadcastStep, SendStep
<1>3. CASE \/ \E r \in Reqs :
                \/ \E exit \in Exits : \E d \in Verdicts(exit) : Request(r, exit, d)
                \/ Log(r) \/ Fire(r) \/ Ask(r)
                \/ \E k \in Alerts : PostAlert(r, k)
                \/ \E k \in Daemons : PostSiem(r, k)
           \/ Stop \/ Exit \/ UNCHANGED nvars
  <2>1. list' = list /\ cast' = cast /\ sock' = sock
    BY <1>3 DEF Request, Log, Fire, Ask, PostAlert, PostSiem, Stop, Exit, nvars
  <2>2. QED BY <2>1, QuietStep, NoneEnds
<1>4. QED BY <1>1, <1>2, <1>3 DEF NNext, Handler

LEMMA NInvariance == NSpec => []CastsInv
<1>1. CastsInv /\ [NNext]_nvars => CastsInv'
  BY NStep
<1>2. QED BY NInitially, <1>1, PTL DEF NSpec

\* However the list of connections changes under a broadcast, it skips no more
\* live dashboards than entries were removed meanwhile, for any number of
\* dashboards, handlers and broadcasts at once.
THEOREM FewAreMissed == NSpec => MissedAtMostRemoved
<1>1. CastsInv /\ [NNext]_nvars => [FewMissed]_nvars
  BY NStep
<1>2. QED BY NInvariance, <1>1, PTL DEF NSpec, MissedAtMostRemoved, FewMissed
===============================================================================
