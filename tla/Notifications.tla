----------------------------- MODULE Notifications -----------------------------
(***************************************************************************)
(* How people learn of a decision: the dashboards connected to /ws (class  *)
(* ConnectionManager of server/main.py), the alerts, the requests for      *)
(* approval and the SIEM events of core/platform/alerts.py, from every     *)
(* exit of /authorize and from /scan and /sanitize.                        *)
(*                                                                         *)
(* A handler and the endpoint of a dashboard give up the event loop at     *)
(* their awaits; a request for approval is posted without giving it up.    *)
(* An alert and a SIEM event are posted by a thread each; the interpreter  *)
(* waits for the first kind when the server stops, not for the second.     *)
(***************************************************************************)
EXTENDS Integers, Sequences, FiniteSets, SequencesExt

CONSTANTS
  Reqs,     \* requests
  Socks,    \* connections of dashboards
  Nobody,   \* nobody
  MaxConns, \* _MAX_WS_CONNECTIONS
  AlertOn,  \* decisions of AGENTGATE_ALERT_ON_DENY and _ON_ESCALATE
  Exits     \* a bound: the exits that requests take, of those of Steps

ASSUME NobodyAssumption == Nobody \notin Reqs
ASSUME ConnsAssumption == MaxConns \in Nat
ASSUME AlertAssumption == AlertOn \subseteq {"DENY", "ESCALATE"}

VARIABLES
  list,   \* ConnectionManager._connections
  sock,   \* the endpoint of each connection
  req,    \* the handlers: steps to go
  cast,   \* the broadcast each handler is in
  loop,   \* the handler that runs: it gives up the event loop at an await only
  threads,\* the threads that post an alert or a SIEM event: request, kind, and the
           \* post they are at
  server  \* "up", "stopping", "stopped"

nvars == <<list, sock, req, cast, loop, threads, server>>

-------------------------------------------------------------------------------
\* scan_content_endpoint and sanitize_output_endpoint, with a finding: an alert
\* that no configuration of decisions switches off.
ScanSteps == <<{"broadcast"}, {"incident"}>>

\* What a handler does, in this order: log_decision, broadcast, then the threads
\* of fire_alert (of the decision, or of the quarantine it led to) and of
\* fire_siem_event; fire_approval_request.  A quarantine is broadcast, and what
\* it spread to.
Steps ==
  [unknown    |-> <<{"log"}, {"broadcast"}>>,
   quarantine |-> <<{"log"}, {"broadcast"}, {"alert"}>>,
   injection  |-> <<{"broadcast"}, {"log"}, {"broadcast"}, {"alert", "siem"}>>,
   failclosed |-> <<{"log"}, {"broadcast"}, {"alert"}>>,
   pending    |-> <<{"broadcast"}, {"ask"}, {"log"}>>,
   triggered  |-> <<{"broadcast"}, {"incident"}, {"log"}, {"broadcast"}, {"alert", "siem"}>>,
   spread     |-> <<{"broadcast"}, {"broadcast"}, {"incident"}, {"log"}, {"broadcast"}, {"alert", "siem"}>>,
   decided    |-> <<{"log"}, {"broadcast"}, {"alert", "siem"}>>,
   scan       |-> ScanSteps]

ASSUME ExitsAssumption == Exits \subseteq DOMAIN Steps

\* A policy decides DENY or ESCALATE, the score any of the three.
Verdicts(exit) ==
  CASE exit = "pending" -> {"PENDING"}
    [] exit = "decided" -> {"PERMIT", "ESCALATE", "DENY"}
    [] exit = "scan" -> {Nobody}
    [] OTHER            -> {"DENY"}

\* fire_alert returns at once on a decision that is not configured.
Script(exit, decision) ==
  [k \in DOMAIN Steps[exit] |-> Steps[exit][k] \ (IF decision \in AlertOn THEN {} ELSE {"alert"})]

\* Threads the interpreter waits for at its end, and those it does not.
Alerts == {"alert", "incident"}
Daemons == {"siem"}
NoCast == [at |-> 0, to |-> Nobody, owed |-> {}, dead |-> <<>>, left |-> 0]

NInit ==
  /\ list = <<>>
  /\ sock = [s \in Socks |-> "new"]
  /\ req = [r \in Reqs |-> [pc |-> "idle", todo |-> <<>>]]
  /\ cast = [r \in Reqs |-> NoCast]
  /\ loop = Nobody
  /\ threads = {}
  /\ server = "up"

Runs == server \in {"up", "stopping"}
Free == Runs /\ loop = Nobody
Listed == ToSet(list)

\* What list.remove of each of them leaves of the list.
Without(conns, out) ==
  LET kept[n \in 0 .. Len(conns)] ==
        IF n = 0 THEN <<>>
        ELSE IF conns[n] \in out THEN kept[n - 1] ELSE Append(kept[n - 1], conns[n])
  IN  kept[Len(conns)]

-------------------------------------------------------------------------------
(* Dashboards.                                                             *)

\* connect compares the number of connections before the handshake (a refused
\* peer, also for its origin or its key, changes nothing)...
Connect(s) ==
  /\ Free /\ server = "up"
  /\ sock[s] = "new"
  /\ Len(list) < MaxConns
  /\ sock' = [sock EXCEPT ![s] = "accepting"]
  /\ UNCHANGED <<list, req, cast, loop, threads, server>>

\* ... and the connection is added after it.
Accepted(s) ==
  /\ Free
  /\ sock[s] = "accepting"
  /\ sock' = [sock EXCEPT ![s] = "open"]
  /\ list' = Append(list, s)
  /\ UNCHANGED <<req, cast, loop, threads, server>>

\* The peer is gone; nobody has noticed yet.
Leave(s) ==
  /\ sock[s] = "open"
  /\ sock' = [sock EXCEPT ![s] = "gone"]
  /\ UNCHANGED <<list, req, cast, loop, threads, server>>

\* The broadcasts in progress, after n entries went from the list under them.
Shrunk(n) == [r \in Reqs |-> IF cast[r].at > 0 THEN [cast[r] EXCEPT !.left = @ + n] ELSE cast[r]]

\* receive_text raises WebSocketDisconnect: the connection is taken off the list.
Disconnect(s) ==
  /\ Free
  /\ sock[s] = "gone"
  /\ sock' = [sock EXCEPT ![s] = "closed"]
  /\ list' = Without(list, {s})
  /\ cast' = Shrunk(Len(list) - Len(list'))
  /\ UNCHANGED <<req, loop, threads, server>>

\* The endpoint ends with another exception (of its first two messages, say):
\* the connection stays on the list.
Abandon(s) ==
  /\ Free
  /\ sock[s] \in {"open", "gone"}
  /\ sock' = [sock EXCEPT ![s] = "closed"]
  /\ UNCHANGED <<list, req, cast, loop, threads, server>>

-------------------------------------------------------------------------------
(* Handlers.                                                               *)

Doing(r, step) == Runs /\ loop = r /\ Head(req[r].todo) = {step}

\* The next step, or the response.
Advance(r) ==
  IF Len(req[r].todo) = 1
  THEN req' = [req EXCEPT ![r] = [pc |-> "ended", todo |-> <<>>]] /\ loop' = Nobody
  ELSE req' = [req EXCEPT ![r].todo = Tail(@)] /\ loop' = r

\* The exception reaches the caller as a 500.
Fail(r) == req' = [req EXCEPT ![r] = [pc |-> "ended", todo |-> <<>>]] /\ loop' = Nobody

Request(r, exit, decision) ==
  /\ Free /\ server = "up"
  /\ req[r].pc = "idle"
  /\ decision \in Verdicts(exit)
  /\ req' = [req EXCEPT ![r] = [pc |-> "run", todo |-> Script(exit, decision)]]
  /\ loop' = r
  /\ UNCHANGED <<list, sock, cast, threads, server>>

\* log_decision raises when the database stays locked.
Log(r) ==
  /\ Doing(r, "log")
  /\ Advance(r) \/ Fail(r)
  /\ UNCHANGED <<list, sock, cast, threads, server>>

\* One turn of broadcast: the list is read at an index that counts the turns.
Turn(b) == LET s == list[b.at + 1] IN [b EXCEPT !.at = @ + 1, !.to = s, !.owed = @ \ {s}]

\* After the last turn the dead are removed; one that is not on the list any
\* more ends the removal with a ValueError.
Known(dead) == {k \in DOMAIN dead : \A j \in 1..k : dead[j] \in Listed}
Sent(r, b) ==
  LET out == {b.dead[k] : k \in Known(b.dead)}
  IN  /\ list' = Without(list, out)
      /\ cast' = [Shrunk(Cardinality(out)) EXCEPT ![r] = NoCast]
      /\ IF Known(b.dead) = DOMAIN b.dead THEN Advance(r) ELSE Fail(r)

Broadcast(r) ==
  /\ Doing(r, "broadcast")
  /\ \/ /\ list # <<>>
        /\ cast' = [cast EXCEPT ![r] = Turn([NoCast EXCEPT !.owed = Listed])]
        /\ loop' = Nobody
        /\ UNCHANGED <<list, req>>
     \/ list = <<>> /\ Sent(r, NoCast)
  /\ UNCHANGED <<sock, threads, server>>

\* Mutant: no timeout; a peer that went silently is waited for.
OutcomesUntimed(s) ==
  CASE sock[s] = "open" -> {FALSE} [] sock[s] = "gone" -> {} [] OTHER -> {TRUE}

\* What a send may turn out as, dead or not: within its five seconds a live
\* connection may take it, or be too slow.
Outcomes(s) == IF sock[s] = "open" THEN BOOLEAN ELSE {TRUE}

\* Mutant: a dead connection is removed on the spot.
SendRemoving(r) ==
  /\ Free /\ cast[r].at > 0
  /\ \E dead \in Outcomes(cast[r].to) :
       LET b == cast[r]
           rest == IF dead THEN Without(list, {b.to}) ELSE list
       IN  /\ list' = rest
           /\ IF b.at < Len(rest)
              THEN /\ cast' = [cast EXCEPT ![r] = LET s == rest[b.at + 1]
                                 IN [@ EXCEPT !.at = @ + 1, !.to = s, !.owed = @ \ {s}]]
                   /\ UNCHANGED <<req, loop>>
              ELSE cast' = [cast EXCEPT ![r] = NoCast] /\ Advance(r)
  /\ UNCHANGED <<sock, threads, server>>

\* The await of send_text ends; then the next turn, if the list is as long as
\* that now.
Send(r) ==
  /\ Free /\ cast[r].at > 0
  /\ \E dead \in Outcomes(cast[r].to) :
       LET b == [cast[r] EXCEPT !.dead = IF dead THEN Append(@, cast[r].to) ELSE @]
       IN  \/ b.at < Len(list) /\ cast' = [cast EXCEPT ![r] = Turn(b)] /\ UNCHANGED <<list, req, loop>>
           \/ b.at >= Len(list) /\ Sent(r, b)
  /\ UNCHANGED <<sock, threads, server>>

\* fire_alert, fire_siem_event: a thread each.
Fire(r) ==
  /\ Runs /\ loop = r
  /\ Head(req[r].todo) \subseteq Alerts \union Daemons
  /\ threads' = threads \union {<<r, k, "first">> : k \in Head(req[r].todo)}
  /\ Advance(r)
  /\ UNCHANGED <<list, sock, cast, server>>

\* fire_approval_request posts to ntfy.sh and waits for the answer, or for the
\* timeout, without an await: nothing else runs on the event loop meanwhile.
Ask(r) ==
  /\ Doing(r, "ask")
  /\ Advance(r)
  /\ UNCHANGED <<list, sock, cast, threads, server>>

-------------------------------------------------------------------------------
(* Threads and the process.                                                *)

\* _send: ntfy.sh, then the webhook.  What either post raises is caught: the
\* message is lost there, and the thread goes on.
PostAlert(r, k) ==
  /\ Runs
  /\ \/ /\ <<r, k, "first">> \in threads
        /\ threads' = (threads \ {<<r, k, "first">>}) \union {<<r, k, "second">>}
     \/ <<r, k, "second">> \in threads /\ threads' = threads \ {<<r, k, "second">>}
  /\ UNCHANGED <<list, sock, req, cast, loop, server>>

\* _send_siem: Splunk and Sentinel, in the same way; nothing waits for either.
PostSiem(r, k) ==
  /\ Runs /\ <<r, k, "first">> \in threads
  /\ threads' = threads \ {<<r, k, "first">>}
  /\ UNCHANGED <<list, sock, req, cast, loop, server>>

\* The server is told to stop: it takes no more requests.
Stop ==
  /\ server = "up"
  /\ server' = "stopping"
  /\ UNCHANGED <<list, sock, req, cast, loop, threads>>

\* What the thread of an alert is at.
Posting(r, k) == {post \in {"first", "second"} : <<r, k, post>> \in threads}

\* Mutant: the threads of alerts are daemons too.
WaitedForNone == TRUE

\* The interpreter waits for the threads of alerts; those of SIEM events are
\* daemons.
Waited == \A r \in Reqs, k \in Alerts : Posting(r, k) = {}

Exit ==
  /\ server = "stopping"
  /\ \A r \in Reqs : req[r].pc # "run"
  /\ Waited
  /\ server' = "stopped"
  /\ UNCHANGED <<list, sock, req, cast, loop, threads>>

Handler(r) ==
  Log(r) \/ Broadcast(r) \/ Send(r) \/ Fire(r) \/ Ask(r)

NNext ==
  \/ \E s \in Socks : Connect(s) \/ Accepted(s) \/ Leave(s) \/ Disconnect(s) \/ Abandon(s)
  \/ \E r \in Reqs :
       \/ \E exit \in Exits : \E d \in Verdicts(exit) : Request(r, exit, d)
       \/ Handler(r)
       \/ \E k \in Alerts : PostAlert(r, k)
       \/ \E k \in Daemons : PostSiem(r, k)
  \/ Stop \/ Exit

\* The event loop gives every handler its turns; a send ends with its timeout,
\* and so does a post, of a handler or of a thread; the process is not killed.
Fairness ==
  \A r \in Reqs : WF_nvars(Handler(r)) /\ WF_nvars(\E k \in Alerts : PostAlert(r, k))

NSpec == NInit /\ [][NNext]_nvars /\ Fairness

-------------------------------------------------------------------------------
(* Properties.                                                             *)

\* A dashboard that is on the list from the start of a broadcast to its end, and
\* is not sent the message, was skipped because an entry before it was removed
\* meanwhile: the broadcasts and the endpoints change the list that a broadcast
\* goes through, and each removal costs at most one live dashboard the message.
Missed(r) == cast[r].owed \cap Listed \cap ToSet(list')
MissedAtMostRemoved ==
  [][\A r \in Reqs : cast[r].at > 0 /\ cast'[r].at = 0 => Cardinality(Missed(r)) <= cast[r].left]_nvars

\* The inductive invariant behind it.  A connection is on the list once, and
\* never again after it was taken off; of those a broadcast owes the message, no
\* more are behind it than entries were removed under it.
Met == {s \in Socks : sock[s] \in {"open", "gone", "closed"}}
ListOK ==
  /\ sock \in [Socks -> {"new", "accepting", "open", "gone", "closed"}]
  /\ list \in Seq(Socks) /\ Listed \subseteq Met
  /\ \A j, k \in DOMAIN list : list[j] = list[k] => j = k
Casts == [at : Nat, to : Socks \union {Nobody}, owed : SUBSET Socks, dead : Seq(Socks), left : Nat]
Behind(conns, b) == {conns[k] : k \in {k \in DOMAIN conns : k <= b.at}} \cap b.owed
CastOK(b, conns, met) ==
  /\ b \in Casts
  /\ b.at > 0 => b.to \in Socks
  /\ b.owed \subseteq met
  /\ Cardinality(Behind(conns, b)) <= b.left
CastsInv ==
  /\ ListOK
  /\ cast \in [Reqs -> Casts]
  /\ \A r \in Reqs : CastOK(cast[r], list, Met)

\* Every request ends, in a response or a 500, though dashboards
\* stall, others close, and ntfy.sh does not answer.
EveryRequestEnds ==
  \A r \in Reqs : req[r].pc = "run" ~> req[r].pc = "ended"

\* The thread of an alert that was fired ends, and not before it has tried the
\* second sink - though the first post raises, though the request is long over,
\* and though the server is stopped meanwhile.  It does not say that the alert
\* arrives: a post that raises is swallowed and made no second time.
Posted(r, k) == "first" \in Posting(r, k) => Posting(r, k)' # {}
AlertsOutlive ==
  /\ [][\A r \in Reqs, k \in Alerts : Posted(r, k)]_nvars
  /\ \A r \in Reqs :
       (\E k \in Alerts : Posting(r, k) # {}) ~> (\A k \in Alerts : Posting(r, k) = {})
===============================================================================
