------------------------------- MODULE Registry --------------------------------
(***************************************************************************)
(* The agent registry: registration, delegation, revocation and restart.   *)
(* Endpoints of server/main.py, rows of core/platform/audit.py, scopes and  *)
(* chains of core/enforcement/delegation.py, tokens of                      *)
(* core/platform/token.py.                                                  *)
(*                                                                         *)
(* Every handler runs to its last await without giving up the event loop,  *)
(* and save_agent is synchronous: a handler is one step here, except        *)
(* revoke_chain, whose loops can fail or be cut short by a crash in the     *)
(* middle.  save_agent and delete_agent can raise: the caller gets a 500,   *)
(* what the handler did to memory before stays.                             *)
(*                                                                         *)
(* A token is its jti: the n-th that was issued to the agent of its sub     *)
(* claim.  A caller presents JWTs it was given.  Expiry, which only makes a *)
(* handler refuse, is left out.  A resource pattern is a path, taken alone  *)
(* ("exact"), with "/*" behind it ("tree") or with "/?" ("one"); other      *)
(* wildcards are left out.                                                 *)
(***************************************************************************)
EXTENDS Integers, Sequences, FiniteSets

CONSTANTS
  Ids,       \* agent ids
  None,      \* no agent, no parent
  Actions,   \* actions of requests
  Paths,     \* resources of requests, sequences of path segments
  Letters,   \* path segments of one character
  Scopes,    \* scopes agents register or are delegated with
  MaxDepth,  \* MAX_DELEGATION_DEPTH
  MaxTokens, \* bound: tokens issued
  MaxFaults  \* bound: writes that raise

ASSUME IdsAssumption == IsFiniteSet(Ids)
ASSUME NoneAssumption == None \notin Ids
ASSUME PatternAssumption ==
  \A s \in Scopes : \A p \in s.resources :
    /\ p.kind \in {"exact", "tree", "one"}
    /\ p.base \in Seq(STRING)
    /\ \A k \in DOMAIN p.base : p.base[k] \notin {"*", "?"}
ASSUME BoundAssumption == MaxDepth \in Nat /\ MaxTokens \in Nat /\ MaxFaults \in Nat

VARIABLES
  agents,  \* _agents
  disk,    \* the table agents
  issued,  \* the tokens issued to each id so far
  job,     \* the revoke_chain under way
  dead,    \* history: for each id, the tokens that a 200 has declared ended
  budget   \* for the bounds: tokens left to issue, writes left to raise

vars == <<agents, disk, issued, job, dead, budget>>

NoToken == 0
Row == [parent : Ids \union {None}, depth : 0..MaxDepth, scope : Scopes,
        token : Nat, form : {"jti", "hash"}]

ASSUME RowAssumption == None \notin Row

\* The JWTs the agent has been given.
JWTs(i) == 1..issued[i]

NoJob == [pc |-> "idle", root |-> None, found |-> {}, todo |-> {}]

Init ==
  /\ agents = [i \in Ids |-> None]
  /\ disk = [i \in Ids |-> None]
  /\ issued = [i \in Ids |-> 0]
  /\ job = NoJob
  /\ dead = [i \in Ids |-> 0]
  /\ budget = [tokens |-> MaxTokens, faults |-> MaxFaults]

-------------------------------------------------------------------------------
(* Scopes and chains.                                                      *)

Under(base, path) ==
  Len(base) <= Len(path) /\ \A k \in 1..Len(base) : path[k] = base[k]

\* A pattern as it is written, and fnmatch: "*" stands for what is below the path,
\* "?" for one character.
Text(pattern) ==
  CASE pattern.kind = "exact" -> pattern.base
    [] pattern.kind = "tree"  -> Append(pattern.base, "*")
    [] pattern.kind = "one"   -> Append(pattern.base, "?")
Fnmatch(text, pattern) ==
  CASE pattern.kind = "exact" -> text = pattern.base
    [] pattern.kind = "tree"  -> Under(pattern.base, text) /\ text # pattern.base
    [] pattern.kind = "one"   -> \E c \in Letters : text = Append(pattern.base, c)

\* _pattern_covered_by
Covered(child, parent) ==
  \/ child = parent
  \/ Fnmatch(Text(child), parent)
  \/ parent.kind = "tree" /\ Under(parent.base, child.base)

\* validate_delegation
ValidDelegation(parent, child) ==
  /\ \A c \in child.resources : \E p \in parent.resources : Covered(c, p)
  /\ child.actions \subseteq parent.actions

\* The test of check_chain_scope on one ancestor.
Matches(pattern, path) ==
  Fnmatch(path, pattern) \/ (pattern.kind = "tree" /\ Under(pattern.base, path))
Allows(scope, action, path) ==
  action \in scope.actions /\ \E p \in scope.resources : Matches(p, path)

\* get_chain: the agents met on the way up; the walk ends at an agent without a
\* parent, at one it has met, and at one that is missing.
Parent(reg, i) == IF i = None \/ reg[i] = None THEN None ELSE reg[i].parent
Climb(reg, i) ==
  LET up[n \in 0..Cardinality(Ids)] == IF n = 0 THEN i ELSE Parent(reg, up[n - 1])
  IN  {up[n] : n \in 0..Cardinality(Ids)} \ {None}

\* Mutant: only the immediate parent is asked.
ParentAllows(reg, i, action, path) ==
  reg[i].depth > 0 =>
    LET p == reg[i].parent IN reg[p] # None /\ Allows(reg[p].scope, action, path)

\* score_delegation: what does not deny a request outright; an orphan, a
\* broken chain and an ancestor out of scope do.
ChainAllows(reg, i, action, path) ==
  reg[i].depth > 0 =>
    \A a \in Climb(reg, i) \ {i} : reg[a] # None /\ Allows(reg[a].scope, action, path)

Children(reg, i) == {c \in Ids : reg[c] # None /\ reg[c].parent = i}
Present(reg) == {i \in Ids : reg[i] # None}

\* What revoke_chain promises to revoke: the least set with the root in it and,
\* with an agent, the agents that were delegated by it.
Closed(reg, S) == \A i \in S : Children(reg, i) \subseteq S
Below(reg, root) ==
  {i \in Ids : \A S \in SUBSET Ids : root \in S /\ Closed(reg, S) => i \in S}

\* The tokens the agents of S have had so far are at their end.
Ended(S) == [i \in Ids |-> IF i \in S THEN issued[i] ELSE dead[i]]

-------------------------------------------------------------------------------
(* Endpoints.                                                              *)

Idle == job.pc = "idle"

Works == UNCHANGED budget
Fails == budget.faults > 0 /\ budget' = [budget EXCEPT !.faults = @ - 1]

\* The row goes to memory and then, unless the write raises, to the table.
Enter(i, row) ==
  /\ agents' = [agents EXCEPT ![i] = row]
  /\ budget.tokens > 0
  /\ \/ /\ disk' = [disk EXCEPT ![i] = row]
        /\ budget' = [budget EXCEPT !.tokens = @ - 1]
     \/ /\ UNCHANGED disk
        /\ budget.faults > 0
        /\ budget' = [tokens |-> budget.tokens - 1, faults |-> budget.faults - 1]
  /\ issued' = [issued EXCEPT ![i] = @ + 1]
  /\ UNCHANGED <<job, dead>>

\* register_agent
Register(i, scope) ==
  /\ Idle
  /\ agents[i] = None
  /\ Enter(i, [parent |-> None, depth |-> 0, scope |-> scope,
               token |-> issued[i] + 1, form |-> "jti"])

\* authorize, sanitize: the JWT is of the token the row holds.  A row whose
\* token was hashed by load_all_agents matches no JWT.
Authenticates(i, j) == agents[i].token = j /\ agents[i].form = "jti"

\* Mutant: the depth of the chain is compared with > instead of >=.
DelegateTooDeep(p, c, scope) ==
  /\ Idle
  /\ agents[p] # None /\ p # c /\ agents[c] = None
  /\ agents[p].token = NoToken \/ \E j \in JWTs(p) : Authenticates(p, j)
  /\ agents[p].depth <= MaxDepth
  /\ ValidDelegation(agents[p].scope, scope)
  /\ Enter(c, [parent |-> p, depth |-> agents[p].depth + 1, scope |-> scope,
               token |-> issued[c] + 1, form |-> "jti"])

\* delegate_agent.  A parent without a token is not asked for one.
Delegate(p, c, scope) ==
  /\ Idle
  /\ agents[p] # None /\ p # c /\ agents[c] = None
  /\ agents[p].token = NoToken \/ \E j \in JWTs(p) : Authenticates(p, j)
  /\ agents[p].depth < MaxDepth
  /\ ValidDelegation(agents[p].scope, scope)
  /\ Enter(c, [parent |-> p, depth |-> agents[p].depth + 1, scope |-> scope,
               token |-> issued[c] + 1, form |-> "jti"])

\* Mutant: the row stays in the table.
DeregisterInMemory(i) ==
  /\ Idle
  /\ agents[i] # None
  /\ agents' = [agents EXCEPT ![i] = None]
  /\ dead' = Ended({i})
  /\ UNCHANGED <<disk, issued, job, budget>>

\* deregister_agent
Deregister(i) ==
  /\ Idle
  /\ agents[i] # None
  /\ agents' = [agents EXCEPT ![i] = None]
  /\ \/ /\ Works
        /\ disk' = [disk EXCEPT ![i] = None]
        /\ dead' = Ended({i})
     \/ Fails /\ UNCHANGED <<disk, dead>>
  /\ UNCHANGED <<issued, job>>

Tombstone(i) == [agents[i] EXCEPT !.token = NoToken]

\* revoke_agent
Revoke(i) ==
  /\ Idle
  /\ agents[i] # None
  /\ agents' = [agents EXCEPT ![i] = Tombstone(i)]
  /\ \/ /\ Works
        /\ disk' = [disk EXCEPT ![i] = Tombstone(i)]
        /\ dead' = Ended({i})
     \/ Fails /\ UNCHANGED <<disk, dead>>
  /\ UNCHANGED <<issued, job>>

\* revoke_agent_chain
RevokeChain(i) ==
  /\ Idle
  /\ agents[i] # None
  /\ job' = [pc |-> "walk", root |-> i, found |-> {}, todo |-> {i}]
  /\ UNCHANGED <<agents, disk, issued, dead, budget>>

\* The walk ends with an empty queue.
Walked(found, todo) ==
  job' = IF todo = {} THEN [pc |-> "revoke", root |-> job.root, found |-> found, todo |-> found]
         ELSE [pc |-> "walk", root |-> job.root, found |-> found, todo |-> todo]

\* Mutant: the children of the root are taken, not theirs.
CollectChildren ==
  /\ job.pc = "walk"
  /\ Walked({job.root} \union Children(agents, job.root), {})
  /\ UNCHANGED <<agents, disk, issued, dead, budget>>

\* Mutant: the agent that was looked at stays in the queue.
CollectAgain ==
  /\ job.pc = "walk"
  /\ \E i \in job.todo : Walked(job.found \union {i}, job.todo \union Children(agents, i))
  /\ UNCHANGED <<agents, disk, issued, dead, budget>>

\* One turn of the search; nothing remembers which agents it has seen.
Collect ==
  /\ job.pc = "walk"
  /\ \E i \in job.todo :
       Walked(job.found \union {i}, (job.todo \ {i}) \union Children(agents, i))
  /\ UNCHANGED <<agents, disk, issued, dead, budget>>

\* One turn of the second loop, an agent after the one that delegated it; the
\* write can raise, and after the last one the call answers.
RevokeOne ==
  /\ job.pc = "revoke"
  /\ \E i \in job.todo :
       /\ i = job.root \/ agents[i].parent \notin job.todo
       /\ agents' = [agents EXCEPT ![i] = Tombstone(i)]
       /\ \/ /\ Works
             /\ disk' = [disk EXCEPT ![i] = Tombstone(i)]
             /\ IF job.todo = {i}
                THEN /\ job' = NoJob
                     /\ dead' = Ended(Below(agents, job.root))
                ELSE /\ job' = [job EXCEPT !.todo = @ \ {i}]
                     /\ UNCHANGED dead
          \/ /\ Fails
             /\ job' = NoJob
             /\ UNCHANGED <<disk, dead>>
  /\ UNCHANGED issued

-------------------------------------------------------------------------------
\* load_all_agents: a stored jti is a UUID, and a UUID is taken for a token
\* from before hashing: it is hashed, in the table too.
Hashed(row) == IF row = None \/ row.token = NoToken THEN row ELSE [row EXCEPT !.form = "hash"]

Restart ==
  /\ disk' = [i \in Ids |-> Hashed(disk[i])]
  /\ agents' = disk'
  /\ job' = NoJob
  /\ UNCHANGED <<issued, dead, budget>>

Next ==
  \/ \E i \in Ids, s \in Scopes : Register(i, s)
  \/ \E p, c \in Ids, s \in Scopes : Delegate(p, c, s)
  \/ \E i \in Ids : Deregister(i) \/ Revoke(i) \/ RevokeChain(i)
  \/ Collect
  \/ RevokeOne
  \/ Restart

\* A handler that has begun is carried on.
Spec == Init /\ [][Next]_vars /\ WF_vars(Collect \/ RevokeOne)

-------------------------------------------------------------------------------
TypeOK ==
  /\ agents \in [Ids -> Row \union {None}]
  /\ disk \in [Ids -> Row \union {None}]
  /\ issued \in [Ids -> Nat]
  /\ job \in [pc : {"idle", "walk", "revoke"}, root : Ids \union {None},
              found : SUBSET Ids, todo : SUBSET Ids]
  /\ dead \in [Ids -> Nat]
  /\ budget \in [tokens : 0..MaxTokens, faults : 0..MaxFaults]

\* A revocation or deregistration that was answered with a 200 is final: none
\* of the tokens it ended, those of every descendant included for
\* revoke_chain, is that of a registered agent again, in memory or in the
\* table - whatever write failed before or after, whoever was registered
\* again under the same id, and across restarts.
RevocationIsFinal ==
  \A i \in Ids :
    /\ agents[i] # None => agents[i].token \notin 1..dead[i]
    /\ disk[i] # None => disk[i].token \notin 1..dead[i]

Ancestors(reg, i) ==
  {a \in Ids : \A S \in SUBSET Ids :
     /\ reg[i].parent \in S
     /\ \A b \in S : Parent(reg, b) = None \/ Parent(reg, b) \in S
     => a \in S}

\* A request that the delegation check lets through is within the scope of
\* every agent above the one that makes it, and all of them are registered:
\* after a parent left, came back under the same id with another scope, or was
\* delegated by its own former child.
NoGainOverAncestors ==
  \A i \in Present(agents) : agents[i].parent # None =>
    LET above == Ancestors(agents, i) \ {i} IN
    \A action \in Actions, path \in Paths : ChainAllows(agents, i, action, path) =>
      \A a \in above : agents[a] # None /\ Allows(agents[a].scope, action, path)

\* The chain from agent i upwards comes back to it.
OnCycle(reg, i) == reg[i].parent # None /\ i \in Ancestors(reg, i)

\* Unless the agent to be revoked is itself on a closed chain, the search of
\* revoke_chain never has an agent before it that it has been at, though nothing
\* remembers where it was: each turn takes it one agent nearer to its end.
SearchAdvances ==
  job.pc = "walk" /\ ~ OnCycle(agents, job.root) => job.found \intersect job.todo = {}

\* revoke_chain comes to an end.
EveryRevocationEnds == job.pc # "idle" ~> job.pc = "idle"

\* "a delegated agent can NEVER exceed the scope of its parent [...] Registration
\* time - POST /agents/delegate rejects invalid scope".  The code does not keep it:
\* a parent's "?" covers a child's "*".  NoGainOverAncestors holds all the same.
RegistrationNarrows ==
  \A c \in Present(agents) :
    LET p == agents[c].parent
    IN  p # None /\ ValidDelegation(agents[p].scope, agents[c].scope) =>
          \A action \in Actions, path \in Paths :
            Allows(agents[c].scope, action, path) => Allows(agents[p].scope, action, path)

\* A token that authenticates before a restart does so after it, provided the
\* row had reached the table.
TokensSurviveRestart ==
  [][Restart => \A i \in Ids : \A j \in JWTs(i) :
       agents[i] # None /\ agents[i] = disk[i] /\ Authenticates(i, j)
       => Authenticates(i, j)']_vars

-------------------------------------------------------------------------------
(* The inductive invariant behind RevocationIsFinal.                       *)

\* A row's token is one that was issued and has not been declared ended.
RowOK(row, d, n) == row # None => row.token = NoToken \/ row.token \in d + 1..n
RowsOK ==
  \A i \in Ids : /\ dead[i] <= issued[i]
                 /\ RowOK(agents[i], dead[i], issued[i])
                 /\ RowOK(disk[i], dead[i], issued[i])

\* What the search has found is closed up to what it still has before it; what
\* the second loop has left behind is without a token in memory and table.
Tombed(row) == row # None => row.token = NoToken
WalkOK ==
  job.pc = "walk" =>
    /\ job.root \in job.found \union job.todo
    /\ job.found \union job.todo \subseteq Present(agents)
    /\ \A i \in job.found : Children(agents, i) \subseteq job.found \union job.todo
RevokeOK ==
  job.pc = "revoke" =>
    /\ job.root \in job.found
    /\ job.found \subseteq Present(agents)
    /\ Closed(agents, job.found)
    /\ job.todo \subseteq job.found
    /\ \A i \in job.found \ job.todo : Tombed(agents[i]) /\ Tombed(disk[i])

IInv == TypeOK /\ RowsOK /\ WalkOK /\ RevokeOK

-------------------------------------------------------------------------------
(* ... behind NoGainOverAncestors and SearchAdvances.                      *)

\* A row that names a parent is not at the top of its chain.
RowDeep(row) == row # None => row.parent = None \/ row.depth > 0
DepthOK == \A i \in Ids : RowDeep(agents[i]) /\ RowDeep(disk[i])

\* The search comes to an agent from the one that delegated it, and so from the
\* root.
FoundOK ==
  job.pc = "walk" =>
    \A k \in (job.found \union job.todo) \ {job.root} :
      agents[k].parent \in job.found /\ job.root \in Ancestors(agents, k)

FamilyInv == DepthOK /\ FoundOK /\ SearchAdvances
===============================================================================
