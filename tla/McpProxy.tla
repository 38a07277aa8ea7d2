-------------------------------- MODULE McpProxy -------------------------------
(***************************************************************************)
(* The MCP proxy between agents and an MCP server: server/mcp_proxy.py,     *)
(* the memory of tool descriptors of core/detection/mcp_descriptor_guard.py *)
(* and the argument scan of core/detection/mcp_arg_scanner.py.             *)
(*                                                                         *)
(* A request gives up the event loop while it awaits the platform and      *)
(* while it awaits the MCP server; between, its handler is one step.  Both *)
(* waits end with an answer, with a connection error or with the timeout   *)
(* of httpx, and what was sent can be carried out after the timeout.       *)
(*                                                                         *)
(* The texts of arguments, results and descriptors are the findings the    *)
(* patterns have in them.  The proxy is deployed with the core modules and *)
(* with MCP_UPSTREAM_URL set.                                              *)
(***************************************************************************)
EXTENDS Integers, Sequences, FiniteSets, FiniteSetsExt

CONSTANTS
  Reqs,      \* clients, or threads of clients: one request each at a time
  Names,     \* names of tools
  Texts,     \* texts of descriptions
  Descs,     \* descriptors of tools: [description, params, rest], the
             \* descriptions of the parameters a sequence, the rest of the schema
  Directives,\* the joined texts of descriptors an injection directive is found in
  Broken,    \* a descriptor on which the scan raises
  None,      \* nothing
  Listings,  \* replies to tools/list: sequences of [name, desc]
  Results,   \* replies to a call: sequences of [kind, found]
  Requests,  \* what is asked: [method, headers, args], the arguments a set of
             \* leaves [depth, found]
  ScanDepth  \* MAX_DEPTH

ASSUME DescAssumption ==
  /\ Directives \subseteq Seq(Texts)
  /\ Broken \notin Descs
  /\ \A d \in Descs : d.description \in Texts /\ d.params \in Seq(Texts)
  /\ None \notin {<<d.description>> \o d.params : d \in Descs}
ASSUME ListingAssumption ==
  \A list \in Listings :
    list \in Seq([name : Names, desc : Descs \union {Broken}])
ASSUME RequestAssumption ==
  /\ None \notin Requests
  /\ \A q \in Requests : q.method \in {"tools/call", "resources/read", "tools/list",
                                       "other", "no JSON", "no object"}

VARIABLES
  pc,       \* where each request is
  asked,    \* what each request is: its method, identity headers, arguments
  verdict,  \* decision of /authorize for each request, None: not come to yet
  sent,     \* requests on their way to the MCP server, or before it
  ran,      \* requests the MCP server has carried out
  reply,    \* its answers on their way back
  answer,   \* what the client was answered
  known,    \* _descriptor_cache of the upstream: a text stands for its hash
  shown,    \* history: the text of each tool each client last received
  alarmed   \* history: refusals since then, of which text and to which client

vars == <<pc, asked, verdict, sent, ran, reply, answer, known, shown, alarmed>>
history == <<shown, alarmed>>

Intercepted == {"tools/call", "resources/read"}
Decisions == {"PERMIT", "DENY", "ESCALATE", "PENDING"}

\* Errors, by their text: those before the request is forwarded...
Refusals == {"PARSE_ERROR", "IDENTITY", "UNREACHABLE", "DENY", "ESCALATE", "PENDING",
             "ARG_INJECTION"}
\* ... those after it, 200 and 500.
Answers == Refusals \union {"OK", "REDACTED", "NOT_JSON", "DESCRIPTOR_THREAT",
                            "POISONING", "SERVER_ERROR"}
ASSUME NoneAssumption == None \notin Answers \union Decisions

\* A reply: a result, a JSON-RPC error, or something that is not JSON.
Reply == [how : {"result"}, body : Listings \union Results \union {<<>>}]
         \union [how : {"error", "garbage"}, body : {<<>>}]
Bodies(method) ==
  CASE method = "tools/list"  -> Listings
    [] method \in Intercepted -> Results
    [] OTHER                  -> {<<>>}

Init ==
  /\ pc = [r \in Reqs |-> "idle"]
  /\ asked = [r \in Reqs |-> None]
  /\ verdict = [r \in Reqs |-> None]
  /\ sent = {}
  /\ ran = {}
  /\ reply = [r \in Reqs |-> None]
  /\ answer = [r \in Reqs |-> None]
  /\ known = [n \in Names |-> None]
  /\ shown = [c \in Reqs |-> [n \in Names |-> None]]
  /\ alarmed = [c \in Reqs |-> [n \in Names |-> {}]]

-------------------------------------------------------------------------------
(* The scans.                                                              *)

\* _extract_string_values goes down ScanDepth levels, the arguments being the
\* first; scan_arguments: the request is blocked on a critical or high finding.
BadArguments(args) ==
  \E leaf \in args : leaf.depth < ScanDepth /\ leaf.found \in {"critical", "high"}

\* _scan_tool_response: text items are scanned, poison blocks the result,
\* other findings are redacted.
Poison == {"INSTRUCTION_TAG", "IMPERATIVE_INJECT"}
TextItems(result) == {k \in DOMAIN result : result[k].kind = "text"}
HasPoison(result) == \E k \in TextItems(result) : result[k].found \intersect Poison # {}
Redactable(result) == \E k \in TextItems(result) : result[k].found # {}

\* _descriptor_text: the descriptions of a tool and of its parameters, joined.
\* What else is in the schema is neither searched nor remembered.
Text(d) == <<d.description>> \o d.params
Searched == {Text(d) : d \in Descs}

\* _is_poisoned: the patterns of the guard, on the joined text.
IsPoisoned(text) == text \in Directives

Named(list, n) == {k \in DOMAIN list : list[k].name = n}

\* scan_tool_descriptions: the entries up to one the scan raises on.
Scanned(list) ==
  {k \in DOMAIN list : \A j \in 1..k : list[j].desc # Broken}

\* Mutant: only the first entry is compared with what is remembered.
RefusedByFirst(list) ==
  \/ Scanned(list) # DOMAIN list
  \/ \E k \in Scanned(list) :
       \/ k = 1 /\ known[list[k].name] \notin {None, Text(list[k].desc)}
       \/ known[list[k].name] = None /\ IsPoisoned(Text(list[k].desc))

\* The scan refuses a listing when it raises, when a descriptor is not the one
\* remembered for its tool, or when a tool it did not know is poisoned.
Refused(list) ==
  \/ Scanned(list) # DOMAIN list
  \/ \E j, k \in Scanned(list) :
       list[j].name = list[k].name /\ Text(list[j].desc) # Text(list[k].desc)
  \/ \E k \in Scanned(list) :
       \/ known[list[k].name] \notin {None, Text(list[k].desc)}
       \/ known[list[k].name] = None /\ IsPoisoned(Text(list[k].desc))

\* The baselines are stored before the listing is refused.
Remembered(list) ==
  [n \in Names |->
     LET at == Named(list, n) \intersect Scanned(list)
     IN  IF at = {} THEN known[n] ELSE Text(list[Max(at)].desc)]

-------------------------------------------------------------------------------
(* The handler.                                                            *)

Finish(r, code) ==
  /\ pc' = [pc EXCEPT ![r] = "done"]
  /\ answer' = [answer EXCEPT ![r] = code]

Forward(r) ==
  /\ pc' = [pc EXCEPT ![r] = "upstream"]
  /\ sent' = sent \union {r}
  /\ answer' = [answer EXCEPT ![r] = None]

\* mcp_proxy up to its first await: a request without identity is refused, one
\* that is not intercepted is forwarded, one whose body or parameters are JSON but
\* no object makes the handler raise.  The next request of a client comes when
\* its last one is over.
Receive(r, q) ==
  /\ pc[r] \in {"idle", "done"} /\ r \notin sent
  /\ ran' = ran \ {r}
  /\ verdict' = [verdict EXCEPT ![r] = None]
  /\ asked' = [asked EXCEPT ![r] = q]
  /\ \/ /\ q.method = "no JSON"
        /\ Finish(r, "PARSE_ERROR")
        /\ UNCHANGED sent
     \/ /\ q.method = "no object"
        /\ Finish(r, "SERVER_ERROR")
        /\ UNCHANGED sent
     \/ /\ q.method \in {"tools/list", "other"}
        /\ Forward(r)
     \/ /\ q.method \in Intercepted /\ q.headers = "missing"
        /\ Finish(r, "IDENTITY")
        /\ UNCHANGED sent
     \/ /\ q.method \in Intercepted /\ q.headers = "both"
        /\ pc' = [pc EXCEPT ![r] = "authorize"]
        /\ answer' = [answer EXCEPT ![r] = None]
        /\ UNCHANGED sent
  /\ UNCHANGED <<reply, known, history>>

\* The platform decides, which may be after the proxy has given up.
Decide(r, d) ==
  /\ asked[r] # None /\ asked[r].method \in Intercepted /\ asked[r].headers = "both"
  /\ verdict[r] = None
  /\ verdict' = [verdict EXCEPT ![r] = d]
  /\ UNCHANGED <<pc, asked, sent, ran, reply, answer, known, history>>

\* Mutant: without the platform the request goes through.
AuthorizeFailsOpen(r) ==
  /\ pc[r] = "authorize"
  /\ Forward(r)
  /\ UNCHANGED <<asked, verdict, ran, reply, known, history>>

\* _authorize raises: the platform is not reached, or not in time.
AuthorizeFails(r) ==
  /\ pc[r] = "authorize"
  /\ Finish(r, "UNREACHABLE")
  /\ UNCHANGED <<asked, verdict, sent, ran, reply, known, history>>

\* After _authorize: only PERMIT goes on, and the arguments of a call are
\* scanned first.
Authorized(r) ==
  /\ pc[r] = "authorize"
  /\ verdict[r] # None
  /\ \/ /\ verdict[r] # "PERMIT"
        /\ Finish(r, verdict[r])
        /\ UNCHANGED sent
     \/ /\ verdict[r] = "PERMIT"
        /\ asked[r].method = "tools/call" /\ BadArguments(asked[r].args)
        /\ Finish(r, "ARG_INJECTION")
        /\ UNCHANGED sent
     \/ /\ verdict[r] = "PERMIT"
        /\ ~ (asked[r].method = "tools/call" /\ BadArguments(asked[r].args))
        /\ Forward(r)
  /\ UNCHANGED <<asked, verdict, ran, reply, known, history>>

\* The MCP server carries a request out and answers it.
Upstream(r, rep) ==
  /\ r \in sent
  /\ rep.how = "result" => rep.body \in Bodies(asked[r].method)
  /\ sent' = sent \ {r}
  /\ ran' = ran \union {r}
  /\ reply' = [reply EXCEPT ![r] = IF pc[r] = "upstream" THEN rep ELSE None]
  /\ UNCHANGED <<pc, asked, verdict, answer, known, history>>

\* _forward raises: the server is not reached or does not answer in time; the
\* exception is not caught.
ForwardFails(r) ==
  /\ pc[r] = "upstream"
  /\ Finish(r, "SERVER_ERROR")
  /\ \E lost \in SUBSET {r} : sent' = sent \ lost
  /\ reply' = [reply EXCEPT ![r] = None]
  /\ UNCHANGED <<asked, verdict, ran, known, history>>

\* For client c, text t of tool n takes the place of another one or has an
\* injection directive in it.
Alarming(c, n, t) ==
  t # shown[c][n] /\ (shown[c][n] # None \/ IsPoisoned(t))

\* The refusals that answering client r with an error adds, for client c and tool
\* n, to those of texts that are alarming for c.
Warnings(r, c, list, n) ==
  {[to |-> r, text |-> Text(list[k].desc)] :
     k \in {j \in Named(list, n) : list[j].desc # Broken /\ Alarming(c, n, Text(list[j].desc))}}

\* The descriptor guard on the reply to tools/list.
Guard(r, list) ==
  /\ known' = Remembered(list)
  /\ \/ /\ Refused(list)
        /\ Finish(r, "DESCRIPTOR_THREAT")
        /\ alarmed' = [c \in Reqs |-> [n \in Names |->
             alarmed[c][n] \union Warnings(r, c, list, n)]]
        /\ UNCHANGED shown
     \/ /\ ~ Refused(list)
        /\ Finish(r, "OK")
        /\ shown' = [c \in Reqs |-> [n \in Names |->
             IF c # r \/ Named(list, n) = {} THEN shown[c][n] ELSE Remembered(list)[n]]]
        /\ alarmed' = [c \in Reqs |-> [n \in Names |->
             IF c # r \/ Named(list, n) = {} THEN alarmed[c][n] ELSE {}]]

\* The scan of the reply to a call.
Sift(r, result) ==
  /\ Finish(r, IF HasPoison(result) THEN "POISONING"
               ELSE IF Redactable(result) THEN "REDACTED" ELSE "OK")
  /\ UNCHANGED <<known, history>>

\* mcp_proxy after _forward.
Replied(r) ==
  /\ pc[r] = "upstream"
  /\ reply[r] # None
  /\ \/ /\ reply[r].how # "result" \/ asked[r].method = "other"
        /\ Finish(r, IF reply[r].how = "garbage" THEN "NOT_JSON" ELSE "OK")
        /\ UNCHANGED <<known, history>>
     \/ reply[r].how = "result" /\ asked[r].method = "tools/list" /\ Guard(r, reply[r].body)
     \/ reply[r].how = "result" /\ asked[r].method \in Intercepted /\ Sift(r, reply[r].body)
  /\ reply' = [reply EXCEPT ![r] = None]
  /\ UNCHANGED <<asked, verdict, sent, ran>>

\* The proxy restarts: its memory is gone, and with it what clients were told.
Restart ==
  /\ pc' = [r \in Reqs |-> IF pc[r] \in {"authorize", "upstream"} THEN "done" ELSE pc[r]]
  /\ answer' = [r \in Reqs |-> IF pc'[r] = "done" /\ pc[r] # "done" THEN "SERVER_ERROR"
                               ELSE answer[r]]
  /\ known' = [n \in Names |-> None]
  /\ shown' = [c \in Reqs |-> [n \in Names |-> None]]
  /\ alarmed' = [c \in Reqs |-> [n \in Names |-> {}]]
  /\ reply' = [r \in Reqs |-> None]
  /\ UNCHANGED <<asked, verdict, sent, ran>>

Handler(r) == AuthorizeFails(r) \/ Authorized(r) \/ ForwardFails(r) \/ Replied(r)

Next ==
  \/ \E r \in Reqs :
       \/ \E q \in Requests : Receive(r, q)
       \/ \E d \in Decisions : Decide(r, d)
       \/ \E rep \in Reply : Upstream(r, rep)
       \/ Handler(r)
  \/ Restart

\* An await ends: with an answer or with its timeout.
Spec == Init /\ [][Next]_vars /\ \A r \in Reqs : WF_vars(Handler(r))

-------------------------------------------------------------------------------
TypeOK ==
  /\ pc \in [Reqs -> {"idle", "authorize", "upstream", "done"}]
  /\ asked \in [Reqs -> Requests \union {None}]
  /\ verdict \in [Reqs -> Decisions \union {None}]
  /\ sent \subseteq Reqs
  /\ ran \subseteq Reqs
  /\ reply \in [Reqs -> Reply \union {None}]
  /\ answer \in [Reqs -> Answers \union {None}]
  /\ known \in [Names -> Searched \union {None}]
  /\ shown \in [Reqs -> [Names -> Searched \union {None}]]
  /\ alarmed \in [Reqs -> [Names -> SUBSET [to : Reqs, text : Searched]]]

\* What the client was told: a request that was answered with a refusal is
\* never carried out, not even by a platform that decides late, a reply that
\* comes after the timeout or a proxy that restarts; and a call or read that is
\* carried out has a PERMIT of the platform and arguments the scan has passed.
RefusedNeverRuns ==
  \A r \in sent \union ran :
    /\ answer[r] \notin Refusals
    /\ asked[r].method \in Intercepted =>
         /\ asked[r].headers = "both" /\ verdict[r] = "PERMIT"
         /\ asked[r].method = "tools/call" => ~ BadArguments(asked[r].args)

ReceivedBy(r) ==
  {<<reply[r].body[k].name, Text(reply[r].body[k].desc)>> : k \in DOMAIN reply[r].body}

\* No tool changes under a client unnoticed: a description it receives in place of
\* another, or with an injection directive in it, was in a listing that was
\* refused - to it or to another client - since it last received the tool,
\* whatever listings were in flight together.
Announced ==
  \A r \in Reqs :
    /\ pc[r] = "upstream" /\ asked[r].method = "tools/list"
    /\ answer'[r] = "OK"
    => \A e \in ReceivedBy(r) : Alarming(r, e[1], e[2]) =>
         \E a \in alarmed[r][e[1]] : a.text = e[2]
ChangesAnnounced == [][Announced]_vars

-------------------------------------------------------------------------------
(* The inductive invariants behind RefusedNeverRuns and ChangesAnnounced.  *)

\* What is known of a request follows from where it is.
StageOK ==
  \A r \in Reqs :
    /\ pc[r] = "idle" => r \notin sent \union ran
    /\ pc[r] = "authorize" => r \notin sent \union ran
                              /\ asked[r].method \in Intercepted /\ asked[r].headers = "both"
    /\ pc[r] \in {"authorize", "upstream"} => answer[r] = None
    /\ pc[r] # "idle" => asked[r] \in Requests
    /\ reply[r] # None => pc[r] = "upstream"
                         /\ (reply[r].how = "result" => reply[r].body \in Bodies(asked[r].method))

\* The baseline of a tool is what a client last received, or was refused to
\* somebody since; or the client never received the tool, and it is clean.
BaselineOK ==
  \A r \in Reqs, n \in Names :
    /\ known[n] = None => shown[r][n] = None
    /\ known[n] # None =>
         \/ known[n] = shown[r][n]
         \/ \E a \in alarmed[r][n] : a.text = known[n]
         \/ shown[r][n] = None /\ ~ IsPoisoned(known[n])

IInv == TypeOK /\ StageOK /\ RefusedNeverRuns /\ BaselineOK

-------------------------------------------------------------------------------
\* "before descriptions reach the LLM's context window": it is the client that
\* receives the tool that was refused it before.  The code does not keep it: the
\* refusal of one client's listing is the new baseline for all.
EveryClientWarned ==
  [][\A r \in Reqs :
       /\ pc[r] = "upstream" /\ asked[r].method = "tools/list"
       /\ answer'[r] = "OK"
       => \A e \in ReceivedBy(r) : Alarming(r, e[1], e[2]) =>
            [to |-> r, text |-> e[2]] \in alarmed[r][e[1]]]_vars
===============================================================================
