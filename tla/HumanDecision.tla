----------------------------- MODULE HumanDecision -----------------------------
(***************************************************************************)
(* What an escalated decision promises to the one that waits for it: it is *)
(* settled at most once, by a human or by the lack of one, and the wait    *)
(* ends, with what it was settled to or with a denial.                     *)
(***************************************************************************)
CONSTANT Ids  \* request_ids of escalated decisions

VARIABLES
  client,   \* what each waiting client has come to
  verdict   \* what each decision was settled to

hvars == <<client, verdict>>

Verdicts == {"APPROVED", "DENIED"}

HInit ==
  /\ client = [i \in Ids |-> "none"]
  /\ verdict = [i \in Ids |-> "PENDING"]

Ask(i) ==
  /\ client[i] = "none"
  /\ client' = [client EXCEPT ![i] = "waiting"]
  /\ UNCHANGED verdict

Decide(i, answer) ==
  /\ client[i] # "none" /\ verdict[i] = "PENDING"
  /\ verdict' = [verdict EXCEPT ![i] = answer]
  /\ UNCHANGED client

Hear(i) ==
  /\ client[i] = "waiting"
  /\ \E answer \in Verdicts :
       /\ answer \in {verdict[i], "DENIED"}
       /\ client' = [client EXCEPT ![i] = answer]
  /\ UNCHANGED verdict

HNext == \E i \in Ids : Ask(i) \/ Hear(i) \/ \E answer \in Verdicts : Decide(i, answer)

HSpec == HInit /\ [][HNext]_hvars /\ \A i \in Ids : WF_hvars(Hear(i))
===============================================================================
