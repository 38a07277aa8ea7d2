----------------------------- MODULE GuardedTools ------------------------------
(***************************************************************************)
(* Tool calls behind the platform: the adapters of src/integrations and    *)
(* the async SDK, composed with the pending decisions they wait for, as    *)
(* HumanDecision promises them and Approvals implements them.              *)
(*                                                                         *)
(* A call is made in a thread or task of its own; the calls of one message *)
(* of a LangGraph agent are gathered by its tool node.  Each call asks     *)
(* /authorize once, waits for a human where its adapter does, spends the   *)
(* receipt where its adapter does, runs the tool, has the output scanned,  *)
(* and returns to the agent.                                               *)
(***************************************************************************)
EXTENDS HumanDecision

CONSTANTS
  Adapters, \* adapters the calls are made through, of those below
  None      \* no adapter, no decision

VARIABLES
  adapter,  \* the adapter of each call
  pc,       \* where each call is
  decision, \* what /authorize answered
  spent,    \* calls whose receipt the platform has recorded as spent
  ran,      \* calls whose tool has been run
  outcome,  \* what the agent got
  message   \* the calls the tool node is gathering

tvars == <<client, verdict, adapter, pc, decision, spent, ran, outcome, message>>
gvars == <<adapter, pc, decision, spent, ran, outcome, message>>

-------------------------------------------------------------------------------
(* Whether the adapters ask, what they do with an answer that does not     *)
(* come, with DENY and with PENDING, whether they spend the receipt before *)
(* the tool runs, and whether they have the output of a read scanned.      *)

LangChain      == [asks |-> "yes", lost |-> "message", denied |-> "message", pending |-> "wait", spends |-> "no",  scans |-> "yes"]
LangChainAsync == [asks |-> "yes", lost |-> "message", denied |-> "message", pending |-> "wait", spends |-> "no",  scans |-> "yes"]
LangGraph      == [asks |-> "yes", lost |-> "message", denied |-> "message", pending |-> "run",  spends |-> "no",  scans |-> "yes"]
AutoGen        == [asks |-> "yes", lost |-> "raise",   denied |-> "message", pending |-> "wait", spends |-> "no",  scans |-> "yes"]
OpenAI         == [asks |-> "yes", lost |-> "raise",   denied |-> "raise",   pending |-> "wait", spends |-> "no",  scans |-> "yes"]
AutoGenTool    == [asks |-> "yes", lost |-> "raise",   denied |-> "raise",   pending |-> "run",  spends |-> "no",  scans |-> "no"]
OpenAITool     == [asks |-> "yes", lost |-> "raise",   denied |-> "raise",   pending |-> "run",  spends |-> "no",  scans |-> "no"]
AsyncGate      == [asks |-> "yes", lost |-> "raise",   denied |-> "raise",   pending |-> "wait", spends |-> "no",  scans |-> "no"]
AsyncGuard     == [asks |-> "yes", lost |-> "raise",   denied |-> "raise",   pending |-> "wait", spends |-> "yes", scans |-> "no"]

\* A LangChain tool that has neither func nor coroutine is returned as it is.
LangChainAsIs  == [asks |-> "no",  lost |-> "message", denied |-> "message", pending |-> "wait", spends |-> "no",  scans |-> "no"]

Adapter == [asks : {"yes", "no"}, lost : {"message", "raise"}, denied : {"message", "raise"},
            pending : {"wait", "run"}, spends : {"yes", "no"}, scans : {"yes", "no"}]
ASSUME AdapterAssumption == Adapters \subseteq Adapter /\ None \notin Adapter

Refusals == {"refused: message", "refused: raise"}
Outcomes == Refusals \union {"not found", "error", "output", "withheld"}
ASSUME OutcomeAssumption == None \notin Outcomes

GInit ==
  /\ HInit
  /\ adapter = [i \in Ids |-> None]
  /\ pc = [i \in Ids |-> "idle"]
  /\ decision = [i \in Ids |-> None]
  /\ spent = {}
  /\ ran = {}
  /\ outcome = [i \in Ids |-> None]
  /\ message = {}

-------------------------------------------------------------------------------
\* A call is made through an adapter of its own...
Call(i, a) ==
  /\ pc[i] = "idle" /\ a # LangGraph
  /\ adapter' = [adapter EXCEPT ![i] = a]
  /\ pc' = [pc EXCEPT ![i] = IF a.asks = "yes" THEN "authorize" ELSE "run"]
  /\ UNCHANGED <<hvars, decision, spent, ran, outcome, message>>

\* ... or with the others of its message: asyncio.gather starts them all.
CallNode(calls) ==
  /\ LangGraph \in Adapters
  /\ message = {} /\ calls # {}
  /\ \A i \in calls : pc[i] = "idle"
  /\ message' = calls
  /\ adapter' = [i \in Ids |-> IF i \in calls THEN LangGraph ELSE adapter[i]]
  /\ pc' = [i \in Ids |-> IF i \in calls THEN "authorize" ELSE pc[i]]
  /\ UNCHANGED <<hvars, decision, spent, ran, outcome>>

Return(i, what) ==
  /\ pc' = [pc EXCEPT ![i] = "returned"]
  /\ outcome' = [outcome EXCEPT ![i] = what]

Refuse(i, how) == Return(i, IF how = "raise" THEN "refused: raise" ELSE "refused: message")

Goto(i, where) == pc' = [pc EXCEPT ![i] = where] /\ UNCHANGED outcome

\* The tool node has no tool of the name: nobody is asked.
NotFound(i) ==
  /\ pc[i] = "authorize" /\ adapter[i] = LangGraph
  /\ Return(i, "not found")
  /\ UNCHANGED <<hvars, adapter, decision, spent, ran, message>>

\* Where a call goes on that may run.
Passed(i) == Goto(i, IF adapter[i].spends = "yes" THEN "spend" ELSE "run")

\* PERMIT and ESCALATE let the tool run, DENY does not.
Decided(i) ==
  /\ pc[i] = "authorize"
  /\ \E d \in {"PERMIT", "ESCALATE", "DENY"} :
       /\ decision' = [decision EXCEPT ![i] = d]
       /\ IF d = "DENY" THEN Refuse(i, adapter[i].denied) ELSE Passed(i)
  /\ UNCHANGED <<hvars, adapter, spent, ran, message>>

\* PENDING: the platform has stored the decision before it answers.
Escalated(i) ==
  /\ pc[i] = "authorize"
  /\ Ask(i)
  /\ decision' = [decision EXCEPT ![i] = "PENDING"]
  /\ Goto(i, adapter[i].pending)
  /\ UNCHANGED <<adapter, spent, ran, message>>

\* The request fails, is answered with an error or times out; the platform may
\* have stored a pending decision that nobody will hear of.
AuthorizeFails(i) ==
  /\ pc[i] = "authorize"
  /\ Ask(i) \/ UNCHANGED hvars
  /\ decision' = [decision EXCEPT ![i] = "DENY"]
  /\ Refuse(i, adapter[i].lost)
  /\ UNCHANGED <<adapter, spent, ran, message>>

\* Mutant: the refusal does not return from the wrapper.
HumanAnsweredNoReturn(i) ==
  /\ pc[i] = "wait" /\ client[i] \in Verdicts
  /\ IF client[i] = "APPROVED" THEN UNCHANGED outcome
     ELSE outcome' = [outcome EXCEPT ![i] = "refused: message"]
  /\ pc' = [pc EXCEPT ![i] = "run"]
  /\ UNCHANGED <<hvars, adapter, decision, spent, ran, message>>

\* The poll has come to an answer or to its deadline.
HumanAnswered(i) ==
  /\ pc[i] = "wait" /\ client[i] \in Verdicts
  /\ IF client[i] = "APPROVED" THEN Passed(i) ELSE Refuse(i, adapter[i].denied)
  /\ UNCHANGED <<hvars, adapter, decision, spent, ran, message>>

\* The arguments are not those of the decision.
CheckBindingFails(i) ==
  /\ pc[i] = "spend"
  /\ Refuse(i, "raise")
  /\ UNCHANGED <<hvars, adapter, decision, spent, ran, message>>

\* Mutant: a redemption that is not answered is taken for one that was.
RedeemUnanswered(i) ==
  /\ pc[i] = "spend" /\ i \notin spent
  /\ \/ decision[i] # "PENDING" /\ spent' = spent \union {i}
     \/ UNCHANGED spent
  /\ Goto(i, "run") \/ Refuse(i, "raise")
  /\ UNCHANGED <<hvars, adapter, decision, ran, message>>

\* redeem: a 200 after the platform has recorded it, or a refusal; either answer
\* may be lost.  What an approval turned into PERMIT is refused, for its
\* signature is one of PENDING.
Redeem(i) ==
  /\ pc[i] = "spend" /\ i \notin spent
  /\ \/ decision[i] # "PENDING" /\ spent' = spent \union {i} /\ (Goto(i, "run") \/ Refuse(i, "raise"))
     \/ UNCHANGED spent /\ Refuse(i, "raise")
  /\ UNCHANGED <<hvars, adapter, decision, ran, message>>

\* The tool is run; it may raise.  The output of a read by an agent that
\* processes external content goes to /scan.
RunTool(i) ==
  /\ pc[i] = "run"
  /\ ran' = ran \union {i}
  /\ \/ Return(i, "output")
     \/ Return(i, "error")
     \/ adapter[i].scans = "yes" /\ Goto(i, "scan")
  /\ UNCHANGED <<hvars, adapter, decision, spent, message>>

\* An injection is withheld.  Without an answer the output goes to the agent.
ScanOutput(i) ==
  /\ pc[i] = "scan"
  /\ \E level \in {"clean", "suspicious", "injection", "failed"} :
       Return(i, IF level = "injection" THEN "withheld" ELSE "output")
  /\ UNCHANGED <<hvars, adapter, decision, spent, ran, message>>

\* Mutant: an exception of one call takes the others with it.
NodeReturnsUnlessError ==
  /\ message # {}
  /\ \A i \in message : pc[i] = "returned" /\ outcome[i] # "error"
  /\ message' = {}
  /\ UNCHANGED <<hvars, adapter, pc, decision, spent, ran, outcome>>

\* gather returns when the last call has; the messages go to the agent.
NodeReturns ==
  /\ message # {}
  /\ \A i \in message : pc[i] = "returned"
  /\ message' = {}
  /\ UNCHANGED <<hvars, adapter, pc, decision, spent, ran, outcome>>

CallStep(i) ==
  \/ NotFound(i) \/ Decided(i) \/ Escalated(i) \/ AuthorizeFails(i)
  \/ HumanAnswered(i) \/ CheckBindingFails(i) \/ Redeem(i) \/ RunTool(i) \/ ScanOutput(i)

\* Timers, humans and the polling clients.
Decision(i) ==
  /\ Hear(i) \/ \E answer \in Verdicts : Decide(i, answer)
  /\ UNCHANGED gvars

GNext ==
  \/ \E i \in Ids : CallStep(i) \/ Decision(i) \/ \E a \in Adapters : Call(i, a)
  \/ \E calls \in SUBSET Ids : CallNode(calls)
  \/ NodeReturns

\* A request to the platform ends, with its timeout if need be, a wait ends as
\* HumanDecision promises, and so do the tools themselves.
GSpec ==
  /\ GInit /\ [][GNext]_tvars
  /\ \A i \in Ids : WF_tvars(CallStep(i)) /\ WF_tvars(Hear(i) /\ UNCHANGED gvars)
  /\ WF_tvars(NodeReturns)

-------------------------------------------------------------------------------
GTypeOK ==
  /\ client \in [Ids -> {"none", "waiting"} \union Verdicts]
  /\ verdict \in [Ids -> {"PENDING"} \union Verdicts]
  /\ adapter \in [Ids -> Adapters \union {None}]
  /\ pc \in [Ids -> {"idle", "authorize", "wait", "spend", "run", "scan", "returned"}]
  /\ decision \in [Ids -> {"PERMIT", "ESCALATE", "DENY", "PENDING", None}]
  /\ spent \subseteq Ids
  /\ ran \subseteq Ids
  /\ outcome \in [Ids -> Outcomes \union {None}]
  /\ message \subseteq Ids

\* A tool that is run behind an adapter that asks, or about to be, has an answer
\* of the platform behind it that lets it: PERMIT or ESCALATE, or for PENDING the approval the store came
\* to - not a timer that fired before the human, not a restart that forgot the
\* decision, not an approval that came after the wait.  Behind guard, the
\* receipt is on record as spent, whatever became of the answers.
Cleared(i) ==
  \/ decision[i] \in {"PERMIT", "ESCALATE"}
  \/ decision[i] = "PENDING" /\ verdict[i] = "APPROVED"
RunsAreCleared ==
  \A i \in Ids :
    /\ i \in ran \/ pc[i] \in {"run", "scan"}
    /\ adapter[i].asks = "yes"
    /\ adapter[i].pending = "wait" \/ decision[i] # "PENDING"
    => Cleared(i) /\ (adapter[i].spends = "yes" => i \in spent)

\* What the agent was told is so: a call that came back refused, by the
\* platform, by a human or because nobody could be asked, has not run and will
\* not run when the answer arrives after all.
RefusedNeverRuns ==
  \A i \in Ids : outcome[i] \in Refusals => i \notin ran /\ pc[i] = "returned"

\* Every call returns to the agent, those of a message together, though no
\* human ever answers and the platform restarts or cannot be reached.
EveryCallReturns ==
  \A i \in Ids : pc[i] # "idle" ~> pc[i] = "returned" /\ i \notin message

\* PENDING blocks until a human approves or denies, whatever the adapter.
PendingWaits ==
  \A i \in Ids : i \in ran /\ decision[i] = "PENDING" => Cleared(i)

\* "Wraps a LangChain BaseTool with AgentGate enforcement": every tool that is run
\* was asked for.  The code does not keep it of the tools returned as they are.
EveryRunIsAsked ==
  \A i \in Ids : i \in ran => decision[i] # None

\* All calls of a message are authorized before any of them executes.
MessageAuthorizedFirst ==
  message \intersect ran # {} =>
    \A i \in message : decision[i] # None \/ outcome[i] = "not found"

-------------------------------------------------------------------------------
(* The inductive invariant behind RunsAreCleared and RefusedNeverRuns: what *)
(* is known of a call from where it is.                                    *)

CallOK(i) ==
  /\ pc[i] \in {"idle", "authorize"} => decision[i] = None
  /\ pc[i] \in {"idle", "authorize", "wait", "spend", "run"} => i \notin ran
  /\ pc[i] # "idle" => adapter[i] \in Adapters
  /\ pc[i] # "returned" => outcome[i] = None
  /\ pc[i] = "wait" => decision[i] = "PENDING"
  /\ pc[i] = "spend" /\ (adapter[i].pending = "wait" \/ decision[i] # "PENDING") => Cleared(i)
  /\ client[i] = "APPROVED" => verdict[i] = "APPROVED"

GInv == GTypeOK /\ (\A i \in Ids : CallOK(i)) /\ RunsAreCleared /\ RefusedNeverRuns
===============================================================================
