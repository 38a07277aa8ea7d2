---------------------------- MODULE McpProxy_proofs ----------------------------
(***************************************************************************)
(* Proofs about McpProxy, for every number of requests and tools, and for   *)
(* every set of listings, results and requests.                            *)
(***************************************************************************)
EXTENDS McpProxy, WellFoundedInduction, TLAPS

\* What StageOK and RefusedNeverRuns say of one request.
Placed(r) ==
  /\ pc[r] = "idle" => r \notin sent \union ran
  /\ pc[r] = "authorize" => r \notin sent \union ran
                            /\ asked[r].method \in Intercepted /\ asked[r].headers = "both"
  /\ pc[r] \in {"authorize", "upstream"} => answer[r] = None
  /\ pc[r] # "idle" => asked[r] \in Requests
  /\ reply[r] # None => pc[r] = "upstream"
                        /\ (reply[r].how = "result" => reply[r].body \in Bodies(asked[r].method))
Admitted(r) ==
  r \in sent \union ran =>
    /\ answer[r] \notin Refusals
    /\ asked[r].method \in Intercepted =>
         /\ asked[r].headers = "both" /\ verdict[r] = "PERMIT"
         /\ asked[r].method = "tools/call" => ~ BadArguments(asked[r].args)

LEMMA IInvByRequest ==
  IInv <=> TypeOK /\ BaselineOK /\ \A r \in Reqs : Placed(r) /\ Admitted(r)
BY DEF IInv, TypeOK, StageOK, RefusedNeverRuns, Placed, Admitted

LEMMA IInvByRequestNext ==
  IInv' <=> TypeOK' /\ BaselineOK' /\ \A r \in Reqs : Placed(r)' /\ Admitted(r)'
BY DEF IInv, TypeOK, StageOK, RefusedNeverRuns, Placed, Admitted

\* A request that a step does not touch stays as it is.
LEMMA Untouched ==
  ASSUME NEW j \in Reqs, Placed(j), Admitted(j),
         pc'[j] = pc[j], asked'[j] = asked[j], verdict'[j] = verdict[j],
         reply'[j] = reply[j], answer'[j] = answer[j],
         j \in sent' <=> j \in sent, j \in ran' <=> j \in ran
  PROVE  Placed(j)' /\ Admitted(j)'
BY DEF Placed, Admitted

\* A step of one request.
LEMMA OneRequest ==
  ASSUME IInv, NEW r \in Reqs, TypeOK', BaselineOK',
         \A j \in Reqs \ {r} :
           /\ pc'[j] = pc[j] /\ asked'[j] = asked[j] /\ verdict'[j] = verdict[j]
           /\ reply'[j] = reply[j] /\ answer'[j] = answer[j]
           /\ (j \in sent' <=> j \in sent) /\ (j \in ran' <=> j \in ran),
         Placed(r)', Admitted(r)'
  PROVE  IInv'
<1>1. ASSUME NEW j \in Reqs \ {r}
      PROVE  Placed(j)' /\ Admitted(j)'
  BY Untouched, IInvByRequest
<1>2. QED BY <1>1, IInvByRequestNext

\* A step that leaves the memory of descriptors alone.
LEMMA BaselineKept ==
  ASSUME BaselineOK, UNCHANGED <<known, history>>
  PROVE  BaselineOK'
BY DEF BaselineOK, history

-------------------------------------------------------------------------------
(* The requests.                                                           *)

LEMMA ForwardKeeps ==
  ASSUME IInv, NEW r \in Reqs, Forward(r),
         \A j \in Reqs \ {r} :
           /\ asked'[j] = asked[j] /\ verdict'[j] = verdict[j]
           /\ (j \in ran' <=> j \in ran),
         asked' \in [Reqs -> Requests \union {None}], verdict' \in [Reqs -> Decisions \union {None}],
         ran' \subseteq Reqs, asked'[r] \in Requests, reply[r] = None,
         UNCHANGED <<reply, known, history>>,
         asked'[r].method \in Intercepted =>
           /\ asked'[r].headers = "both" /\ verdict'[r] = "PERMIT"
           /\ asked'[r].method = "tools/call" => ~ BadArguments(asked'[r].args)
  PROVE  IInv'
<1>1. TypeOK /\ BaselineOK
  BY IInvByRequest
<1>2. /\ pc' = [pc EXCEPT ![r] = "upstream"]
      /\ sent' = sent \union {r}
      /\ answer' = [answer EXCEPT ![r] = None]
  BY DEF Forward
<1>3. TypeOK'
  BY <1>1, <1>2 DEF TypeOK, history
<1>4. pc'[r] = "upstream" /\ answer'[r] = None /\ reply'[r] = None
  BY <1>1, <1>2 DEF TypeOK
<1>5. Placed(r)'
  BY <1>4 DEF Placed
<1>6. Admitted(r)'
  BY <1>4, NoneAssumption DEF Admitted, Answers
<1>7. QED BY <1>1, <1>2, <1>3, <1>5, <1>6, BaselineKept, OneRequest DEF TypeOK

\* A request that is not on its way is answered.
LEMMA FinishKeeps ==
  ASSUME IInv, NEW r \in Reqs, NEW code \in Answers, Finish(r, code),
         \A j \in Reqs \ {r} :
           /\ asked'[j] = asked[j] /\ verdict'[j] = verdict[j] /\ reply'[j] = reply[j]
           /\ (j \in sent' <=> j \in sent) /\ (j \in ran' <=> j \in ran),
         TypeOK', BaselineOK', asked'[r] \in Requests, reply'[r] = None,
         r \in sent' \union ran' =>
           /\ code \notin Refusals
           /\ r \in sent \union ran /\ asked'[r] = asked[r] /\ verdict'[r] = verdict[r]
  PROVE  IInv'
<1>1. TypeOK /\ Admitted(r)
  BY IInvByRequest
<1>2. /\ pc' = [pc EXCEPT ![r] = "done"]
      /\ answer' = [answer EXCEPT ![r] = code]
      /\ pc'[r] = "done" /\ answer'[r] = code
  BY <1>1 DEF Finish, TypeOK
<1>3. Placed(r)'
  BY <1>2 DEF Placed
<1>4. Admitted(r)'
  BY <1>1, <1>2 DEF Admitted
<1>5. QED BY <1>1, <1>2, <1>3, <1>4, OneRequest DEF TypeOK

\* The type of an answered request.
LEMMA FinishType ==
  ASSUME TypeOK, NEW r \in Reqs, NEW code \in Answers, Finish(r, code)
  PROVE  /\ pc' \in [Reqs -> {"idle", "authorize", "upstream", "done"}]
         /\ answer' \in [Reqs -> Answers \union {None}]
BY DEF TypeOK, Finish

LEMMA ReceiveKeeps ==
  ASSUME IInv, NEW r \in Reqs, NEW q \in Requests, Receive(r, q)
  PROVE  IInv'
<1>1. TypeOK /\ BaselineOK /\ Placed(r)
  BY IInvByRequest
<1>2. /\ pc[r] \in {"idle", "done"} /\ r \notin sent
      /\ ran' = ran \ {r}
      /\ verdict' = [verdict EXCEPT ![r] = None]
      /\ asked' = [asked EXCEPT ![r] = q]
      /\ UNCHANGED <<reply, known, history>>
  BY DEF Receive
<1>3. /\ asked'[r] = q /\ reply[r] = None
      /\ \A j \in Reqs \ {r} :
           /\ asked'[j] = asked[j] /\ verdict'[j] = verdict[j]
           /\ (j \in ran' <=> j \in ran)
      /\ asked' \in [Reqs -> Requests \union {None}]
      /\ verdict' \in [Reqs -> Decisions \union {None}]
      /\ ran' \subseteq Reqs /\ r \notin ran'
  BY <1>1, <1>2 DEF TypeOK, Placed
<1>4. BaselineOK'
  BY <1>1, <1>2, BaselineKept
<1>5. CASE q.method \in {"tools/list", "other"} /\ Forward(r)
  <2>1. q.method \notin Intercepted
    BY <1>5 DEF Intercepted
  <2>2. QED BY <1>1, <1>2, <1>3, <1>5, <2>1, ForwardKeeps
<1>6. ASSUME NEW code \in {"PARSE_ERROR", "IDENTITY", "SERVER_ERROR"}, Finish(r, code), UNCHANGED sent
      PROVE  IInv'
  <2>1. code \in Answers
    BY DEF Answers, Refusals
  <2>2. TypeOK'
    BY <1>1, <1>2, <1>3, <1>6, <2>1, FinishType DEF TypeOK, history
  <2>3. QED BY <1>2, <1>3, <1>4, <1>6, <2>1, <2>2, FinishKeeps
<1>7. CASE /\ q.method \in Intercepted /\ q.headers = "both"
           /\ pc' = [pc EXCEPT ![r] = "authorize"]
           /\ answer' = [answer EXCEPT ![r] = None]
           /\ UNCHANGED sent
  <2>1. TypeOK'
    BY <1>1, <1>2, <1>3, <1>7 DEF TypeOK, history
  <2>2. pc'[r] = "authorize" /\ answer'[r] = None
    BY <1>1, <1>7 DEF TypeOK
  <2>3. Placed(r)' /\ Admitted(r)'
    BY <1>2, <1>3, <1>7, <2>2 DEF Placed, Admitted
  <2>4. QED BY <1>1, <1>2, <1>3, <1>4, <1>7, <2>1, <2>3, OneRequest DEF TypeOK
<1>8. QED BY <1>5, <1>6, <1>7 DEF Receive

LEMMA DecideKeeps ==
  ASSUME IInv, NEW r \in Reqs, NEW d \in Decisions, Decide(r, d)
  PROVE  IInv'
<1>1. TypeOK /\ BaselineOK /\ Placed(r) /\ Admitted(r)
  BY IInvByRequest
<1>2. /\ asked[r].method \in Intercepted /\ verdict[r] = None
      /\ verdict' = [verdict EXCEPT ![r] = d]
      /\ UNCHANGED <<pc, asked, sent, ran, reply, answer, known, history>>
  BY DEF Decide
<1>3. TypeOK' /\ BaselineOK'
  BY <1>1, <1>2, BaselineKept DEF TypeOK, history
<1>4. r \notin sent \union ran
  BY <1>1, <1>2, NoneAssumption DEF Admitted, Decisions
<1>5. Placed(r)' /\ Admitted(r)'
  BY <1>1, <1>2, <1>4 DEF Placed, Admitted
<1>6. QED BY <1>1, <1>2, <1>3, <1>5, OneRequest DEF TypeOK

LEMMA AuthorizeFailsKeeps ==
  ASSUME IInv, NEW r \in Reqs, AuthorizeFails(r)
  PROVE  IInv'
<1>1. TypeOK /\ BaselineOK /\ Placed(r)
  BY IInvByRequest
<1>2. /\ pc[r] = "authorize" /\ Finish(r, "UNREACHABLE") /\ "UNREACHABLE" \in Answers
      /\ UNCHANGED <<asked, verdict, sent, ran, reply, known, history>>
  BY DEF AuthorizeFails, Answers, Refusals
<1>3. TypeOK' /\ BaselineOK'
  BY <1>1, <1>2, FinishType, BaselineKept DEF TypeOK, history
<1>4. QED BY <1>1, <1>2, <1>3, FinishKeeps DEF Placed

LEMMA AuthorizedKeeps ==
  ASSUME IInv, NEW r \in Reqs, Authorized(r)
  PROVE  IInv'
<1>1. TypeOK /\ BaselineOK /\ Placed(r)
  BY IInvByRequest
<1>2. /\ pc[r] = "authorize" /\ verdict[r] \in Decisions
      /\ UNCHANGED <<asked, verdict, ran, reply, known, history>>
  BY <1>1 DEF Authorized, TypeOK
<1>3. asked[r] \in Requests /\ reply[r] = None /\ r \notin sent \union ran
      /\ asked[r].headers = "both"
  BY <1>1, <1>2 DEF Placed
<1>4. ASSUME NEW code \in Refusals, Finish(r, code), UNCHANGED sent
      PROVE  IInv'
  <2>1. code \in Answers
    BY DEF Answers
  <2>2. TypeOK' /\ BaselineOK'
    BY <1>1, <1>2, <1>4, <2>1, FinishType, BaselineKept DEF TypeOK, history
  <2>3. QED BY <1>2, <1>3, <1>4, <2>1, <2>2, FinishKeeps
<1>5. CASE verdict[r] # "PERMIT" /\ Finish(r, verdict[r]) /\ UNCHANGED sent
  <2>1. verdict[r] \in Refusals
    BY <1>2, <1>5 DEF Decisions, Refusals
  <2>2. QED BY <1>4, <1>5, <2>1
<1>6. CASE Finish(r, "ARG_INJECTION") /\ UNCHANGED sent
  BY <1>4, <1>6 DEF Refusals
<1>7. CASE /\ verdict[r] = "PERMIT"
           /\ ~ (asked[r].method = "tools/call" /\ BadArguments(asked[r].args))
           /\ Forward(r)
  <2>1. /\ asked' = asked /\ verdict' = verdict /\ ran' = ran
        /\ asked' \in [Reqs -> Requests \union {None}]
        /\ verdict' \in [Reqs -> Decisions \union {None}]
        /\ ran' \subseteq Reqs
    BY <1>1, <1>2 DEF TypeOK
  <2>2. asked'[r].method = "tools/call" => ~ BadArguments(asked'[r].args)
    BY <1>7, <2>1
  <2>3. QED BY <1>2, <1>3, <1>7, <2>1, <2>2, ForwardKeeps
<1>8. QED BY <1>5, <1>6, <1>7 DEF Authorized

LEMMA UpstreamKeeps ==
  ASSUME IInv, NEW r \in Reqs, NEW rep \in Reply, Upstream(r, rep)
  PROVE  IInv'
<1>1. TypeOK /\ BaselineOK /\ Placed(r) /\ Admitted(r)
  BY IInvByRequest
<1>2. /\ r \in sent /\ sent' = sent \ {r} /\ ran' = ran \union {r}
      /\ rep.how = "result" => rep.body \in Bodies(asked[r].method)
      /\ UNCHANGED <<pc, asked, verdict, answer, known, history>>
  BY DEF Upstream
<1>3. /\ reply' \in [Reqs -> Reply \union {None}]
      /\ reply'[r] \in {rep, None}
      /\ reply'[r] = rep => pc[r] = "upstream" \/ rep = None
      /\ \A j \in Reqs \ {r} : reply'[j] = reply[j]
  BY <1>1 DEF Upstream, TypeOK
<1>4. TypeOK' /\ BaselineOK'
  BY <1>1, <1>2, <1>3, BaselineKept DEF TypeOK, history
<1>5. Placed(r)'
  BY <1>1, <1>2, <1>3 DEF Placed
<1>6. Admitted(r)'
  BY <1>1, <1>2 DEF Admitted
<1>7. QED BY <1>1, <1>2, <1>3, <1>4, <1>5, <1>6, OneRequest DEF TypeOK

LEMMA ForwardFailsKeeps ==
  ASSUME IInv, NEW r \in Reqs, ForwardFails(r)
  PROVE  IInv'
<1>1. TypeOK /\ BaselineOK /\ Placed(r)
  BY IInvByRequest
<1>2. /\ pc[r] = "upstream" /\ Finish(r, "SERVER_ERROR")
      /\ "SERVER_ERROR" \in Answers /\ "SERVER_ERROR" \notin Refusals
      /\ reply' = [reply EXCEPT ![r] = None]
      /\ UNCHANGED <<asked, verdict, ran, known, history>>
  BY DEF ForwardFails, Answers, Refusals
<1>3. PICK lost \in SUBSET {r} : sent' = sent \ lost
  BY DEF ForwardFails
<1>4. TypeOK' /\ BaselineOK'
  BY <1>1, <1>2, <1>3, FinishType, BaselineKept DEF TypeOK, history
<1>5. asked'[r] \in Requests /\ reply'[r] = None /\ \A j \in Reqs \ {r} : reply'[j] = reply[j]
  BY <1>1, <1>2 DEF Placed, TypeOK
<1>6. QED BY <1>2, <1>3, <1>4, <1>5, FinishKeeps

LEMMA RestartKeeps ==
  ASSUME IInv, Restart
  PROVE  IInv'
<1>1. TypeOK /\ \A r \in Reqs : Placed(r) /\ Admitted(r)
  BY IInvByRequest
<1>2. /\ pc' = [r \in Reqs |-> IF pc[r] \in {"authorize", "upstream"} THEN "done" ELSE pc[r]]
      /\ answer' = [r \in Reqs |-> IF pc'[r] = "done" /\ pc[r] # "done" THEN "SERVER_ERROR"
                                   ELSE answer[r]]
      /\ reply' = [r \in Reqs |-> None]
      /\ UNCHANGED <<asked, verdict, sent, ran>>
  BY DEF Restart
<1>3. /\ known' = [n \in Names |-> None]
      /\ shown' = [c \in Reqs |-> [n \in Names |-> None]]
      /\ alarmed' = [c \in Reqs |-> [n \in Names |-> {}]]
  BY DEF Restart
<1>4. TypeOK'
  <2>1. pc' \in [Reqs -> {"idle", "authorize", "upstream", "done"}]
    BY <1>1, <1>2 DEF TypeOK
  <2>2. answer' \in [Reqs -> Answers \union {None}]
    BY <1>1, <1>2 DEF TypeOK, Answers
  <2>3. QED BY <1>1, <1>2, <1>3, <2>1, <2>2 DEF TypeOK
<1>5. BaselineOK'
  BY <1>3 DEF BaselineOK
<1>6. ASSUME NEW r \in Reqs
      PROVE  Placed(r)' /\ Admitted(r)'
  <2>1. Placed(r)'
    BY <1>1, <1>2 DEF Placed, TypeOK
  <2>2. Admitted(r)'
    BY <1>1, <1>2 DEF Admitted, Refusals
  <2>3. QED BY <2>1, <2>2
<1>7. QED BY <1>4, <1>5, <1>6, IInvByRequestNext

-------------------------------------------------------------------------------
(* The guard.                                                              *)

LEMMA LeastNat ==
  ASSUME NEW T \in SUBSET Nat, T # {}
  PROVE  \E m \in T : \A n \in T : m <= n
<1>1. PICK m \in T : \A n \in T : ~ (<<n, m>> \in OpToRel(<, Nat))
  BY NatLessThanWellFounded, WFMin
<1>2. \A n \in T : ~ (n < m)
  BY <1>1 DEF OpToRel
<1>3. QED BY <1>2

\* The last of some positions of a list.
LEMMA LastPosition ==
  ASSUME NEW b \in Nat, NEW T \in SUBSET (1..b), T # {}
  PROVE  Max(T) \in T
<1> DEFINE D == {b - n : n \in T}
<1>1. D \in SUBSET Nat /\ D # {}
  <2>1. \A n \in T : b - n \in Nat
    OBVIOUS
  <2>2. QED BY <2>1, Zenon
<1>2. PICK d \in D : \A e \in D : d <= e
  <2> HIDE DEF D
  <2>1. QED BY <1>1, LeastNat
<1>3. PICK m \in T : d = b - m
  BY <1>2
<1>4. \A n \in T : b - m <= b - n
  BY <1>2, <1>3
<1>5. \A n \in T : m >= n
  BY <1>4
<1>6. QED BY <1>5 DEF Max

\* The text remembered for a tool is one of the listing, if the tool is in it.
LEMMA RememberedText ==
  ASSUME NEW list \in Listings, NEW n \in Names
  PROVE  \/ Named(list, n) \intersect Scanned(list) = {} /\ Remembered(list)[n] = known[n]
         \/ \E k \in Named(list, n) \intersect Scanned(list) :
              Remembered(list)[n] = Text(list[k].desc)
<1> DEFINE at == Named(list, n) \intersect Scanned(list)
<1>1. Remembered(list)[n] = IF at = {} THEN known[n] ELSE Text(list[Max(at)].desc)
  BY DEF Remembered
<1>2. PICK b \in Nat : DOMAIN list = 1..b
  BY ListingAssumption
<1>3. at \in SUBSET (1..b)
  BY <1>2 DEF Named
<1>4. at # {} => Max(at) \in at
  BY <1>2, <1>3, LastPosition
<1>5. QED BY <1>1, <1>4

LEMMA SequenceElement ==
  ASSUME NEW S, NEW list \in Seq(S), NEW k \in DOMAIN list
  PROVE  list[k] \in S
OBVIOUS

\* A descriptor that was scanned has a text.
LEMMA ScannedText ==
  ASSUME NEW list \in Listings, NEW k \in DOMAIN list
  PROVE  /\ list[k].name \in Names
         /\ list[k].desc # Broken => Text(list[k].desc) \in Searched /\ Text(list[k].desc) # None
         /\ k \in Scanned(list) => list[k].desc # Broken
<1>1. PICK b \in Nat : DOMAIN list = 1..b
  BY ListingAssumption
<1>2. list[k] \in [name : Names, desc : Descs \union {Broken}]
  <2>1. PICK entries : entries = [name : Names, desc : Descs \union {Broken}]
    OBVIOUS
  <2>2. list \in Seq(entries)
    BY <2>1, ListingAssumption
  <2>3. list[k] \in entries
    BY <2>2, SequenceElement
  <2>4. QED BY <2>1, <2>3
<1>3. list[k].desc # Broken => list[k].desc \in Descs
  BY <1>2
<1>4. \A d \in Descs : Text(d) \in Searched /\ Text(d) # None
  BY DescAssumption DEF Text, Searched
<1>5. k \in Scanned(list) => list[k].desc # Broken
  BY <1>1 DEF Scanned
<1>6. QED BY <1>2, <1>3, <1>4, <1>5

\* What a listing that is not refused says: its tools have one text each, the one
\* remembered if there was one, and none with a directive if there was not.
LEMMA PassedListing ==
  ASSUME NEW list \in Listings, ~ Refused(list)
  PROVE  \A k \in DOMAIN list :
           /\ list[k].name \in Names /\ Text(list[k].desc) \in Searched /\ Text(list[k].desc) # None
           /\ Remembered(list)[list[k].name] = Text(list[k].desc)
           /\ known[list[k].name] \in {None, Text(list[k].desc)}
           /\ known[list[k].name] = None => ~ IsPoisoned(Text(list[k].desc))
<1> SUFFICES ASSUME NEW k \in DOMAIN list
             PROVE  /\ list[k].name \in Names /\ Text(list[k].desc) \in Searched /\ Text(list[k].desc) # None
                    /\ Remembered(list)[list[k].name] = Text(list[k].desc)
                    /\ known[list[k].name] \in {None, Text(list[k].desc)}
                    /\ known[list[k].name] = None => ~ IsPoisoned(Text(list[k].desc))
  OBVIOUS
<1>1. /\ Scanned(list) = DOMAIN list
      /\ \A j \in Scanned(list) : list[j].name = list[k].name => Text(list[j].desc) = Text(list[k].desc)
      /\ known[list[k].name] \in {None, Text(list[k].desc)}
      /\ known[list[k].name] = None => ~ IsPoisoned(Text(list[k].desc))
  BY DEF Refused
<1>2. /\ list[k].name \in Names
      /\ Text(list[k].desc) \in Searched /\ Text(list[k].desc) # None
  BY <1>1, ScannedText
<1>3. k \in Named(list, list[k].name) \intersect Scanned(list)
  BY <1>1 DEF Named
<1>4. PICK j \in Named(list, list[k].name) \intersect Scanned(list) :
        Remembered(list)[list[k].name] = Text(list[j].desc)
  BY <1>2, <1>3, RememberedText
<1>5. Remembered(list)[list[k].name] = Text(list[k].desc)
  BY <1>1, <1>4 DEF Named
<1>6. QED BY <1>1, <1>2, <1>5

LEMMA RememberedType ==
  ASSUME TypeOK, NEW list \in Listings
  PROVE  Remembered(list) \in [Names -> Searched \union {None}]
<1>1. ASSUME NEW n \in Names
      PROVE  Remembered(list)[n] \in Searched \union {None}
  <2>1. CASE Remembered(list)[n] = known[n]
    BY <2>1 DEF TypeOK
  <2>2. ASSUME NEW k \in Named(list, n) \intersect Scanned(list),
               Remembered(list)[n] = Text(list[k].desc)
        PROVE  Remembered(list)[n] \in Searched
    BY <2>2, ScannedText DEF Named
  <2>3. QED BY <2>1, <2>2, RememberedText
<1>2. Remembered(list) = [n \in Names |-> Remembered(list)[n]]
  BY DEF Remembered
<1>3. QED BY <1>1, <1>2

\* What a client can hold of tools, and what was refused since.
Shown == [Reqs -> [Names -> Searched \union {None}]]
Refusal == [to : Reqs, text : Searched]
Alarms == [Reqs -> [Names -> SUBSET Refusal]]

LEMMA WarningsType ==
  ASSUME NEW r \in Reqs, NEW c \in Reqs, NEW n \in Names, NEW list \in Listings
  PROVE  Warnings(r, c, list, n) \in SUBSET Refusal
<1>1. \A k \in {j \in Named(list, n) : list[j].desc # Broken /\ Alarming(c, n, Text(list[j].desc))} :
        Text(list[k].desc) \in Searched
  BY ScannedText DEF Named
<1>2. QED BY <1>1 DEF Warnings, Refusal

\* A refused listing: where its texts are alarming for a client, they were refused,
\* and one of them is remembered.
LEMMA RefusedKeeps ==
  ASSUME TypeOK, BaselineOK, NEW r \in Reqs, NEW list \in Listings,
         known' = Remembered(list),
         alarmed' = [c \in Reqs |-> [n \in Names |->
           alarmed[c][n] \union Warnings(r, c, list, n)]],
         UNCHANGED shown
  PROVE  /\ known' \in [Names -> Searched \union {None}]
         /\ alarmed' \in Alarms
         /\ BaselineOK'
<1>1. known' \in [Names -> Searched \union {None}]
  BY RememberedType
<1>2. alarmed' \in Alarms
  <2>1. ASSUME NEW c \in Reqs
        PROVE  [n \in Names |-> alarmed[c][n] \union Warnings(r, c, list, n)]
                 \in [Names -> SUBSET Refusal]
    <3>1. \A n \in Names : alarmed[c][n] \in SUBSET Refusal
      BY DEF TypeOK, Refusal
    <3>2. \A n \in Names : Warnings(r, c, list, n) \in SUBSET Refusal
      BY WarningsType
    <3>3. QED BY <3>1, <3>2
  <2>2. QED BY <2>1 DEF Alarms
<1>3. ASSUME NEW c \in Reqs, NEW n \in Names
      PROVE  /\ known'[n] = None => shown'[c][n] = None
             /\ known'[n] # None =>
                  \/ known'[n] = shown'[c][n]
                  \/ \E a \in alarmed'[c][n] : a.text = known'[n]
                  \/ shown'[c][n] = None /\ ~ IsPoisoned(known'[n])
  <2>1. alarmed'[c][n] = alarmed[c][n] \union Warnings(r, c, list, n)
    OBVIOUS
  <2>2. CASE known'[n] = known[n]
    BY <2>1, <2>2 DEF BaselineOK
  <2>3. ASSUME NEW k \in Named(list, n) \intersect Scanned(list), known'[n] = Text(list[k].desc)
        PROVE  /\ known'[n] # None
               /\ \/ known'[n] = shown'[c][n]
                  \/ \E a \in alarmed'[c][n] : a.text = known'[n]
                  \/ shown'[c][n] = None /\ ~ IsPoisoned(known'[n])
    <3>1. k \in Named(list, n) /\ list[k].desc # Broken /\ Text(list[k].desc) # None
      BY ScannedText DEF Named
    <3>2. CASE Alarming(c, n, Text(list[k].desc))
      <4>1. [to |-> r, text |-> Text(list[k].desc)] \in Warnings(r, c, list, n)
        BY <3>1, <3>2 DEF Warnings
      <4>2. QED BY <2>1, <2>3, <3>1, <4>1
    <3>3. CASE ~ Alarming(c, n, Text(list[k].desc))
      BY <2>3, <3>1, <3>3 DEF Alarming
    <3>4. QED BY <3>2, <3>3
  <2>4. QED BY <2>2, <2>3, RememberedText
<1>4. QED BY <1>1, <1>2, <1>3 DEF BaselineOK

\* A listing that passes: its texts are remembered, and its client has them.
LEMMA PassedKeeps ==
  ASSUME TypeOK, BaselineOK, NEW r \in Reqs, NEW list \in Listings, ~ Refused(list),
         known' = Remembered(list),
         shown' = [c \in Reqs |-> [n \in Names |->
           IF c # r \/ Named(list, n) = {} THEN shown[c][n] ELSE Remembered(list)[n]]],
         alarmed' = [c \in Reqs |-> [n \in Names |->
           IF c # r \/ Named(list, n) = {} THEN alarmed[c][n] ELSE {}]]
  PROVE  /\ known' \in [Names -> Searched \union {None}]
         /\ shown' \in Shown
         /\ alarmed' \in Alarms
         /\ BaselineOK'
<1>1. known' \in [Names -> Searched \union {None}]
  BY RememberedType
<1>2. shown' \in Shown
  <2>1. ASSUME NEW c \in Reqs
        PROVE  [n \in Names |-> IF c # r \/ Named(list, n) = {} THEN shown[c][n]
                                ELSE Remembered(list)[n]] \in [Names -> Searched \union {None}]
    <3>1. \A n \in Names : shown[c][n] \in Searched \union {None}
      BY DEF TypeOK
    <3>2. \A n \in Names : Remembered(list)[n] \in Searched \union {None}
      BY <1>1
    <3>3. QED BY <3>1, <3>2
  <2>2. QED BY <2>1 DEF Shown
<1>3. alarmed' \in Alarms
  <2>1. ASSUME NEW c \in Reqs
        PROVE  [n \in Names |-> IF c # r \/ Named(list, n) = {} THEN alarmed[c][n] ELSE {}]
                 \in [Names -> SUBSET Refusal]
    <3>1. \A n \in Names : alarmed[c][n] \in SUBSET Refusal
      BY DEF TypeOK, Refusal
    <3>2. QED BY <3>1
  <2>2. QED BY <2>1 DEF Alarms
<1>4. ASSUME NEW c \in Reqs, NEW n \in Names
      PROVE  /\ known'[n] = None => shown'[c][n] = None
             /\ known'[n] # None =>
                  \/ known'[n] = shown'[c][n]
                  \/ \E a \in alarmed'[c][n] : a.text = known'[n]
                  \/ shown'[c][n] = None /\ ~ IsPoisoned(known'[n])
  <2>1. /\ known'[n] = Remembered(list)[n]
        /\ shown'[c][n] = IF c # r \/ Named(list, n) = {} THEN shown[c][n] ELSE Remembered(list)[n]
        /\ alarmed'[c][n] = IF c # r \/ Named(list, n) = {} THEN alarmed[c][n] ELSE {}
    OBVIOUS
  <2>2. CASE c = r /\ Named(list, n) # {}
    BY <2>1, <2>2
  <2>3. CASE ~ (c = r /\ Named(list, n) # {})
    <3>1. shown'[c][n] = shown[c][n] /\ alarmed'[c][n] = alarmed[c][n]
      BY <2>1, <2>3
    <3>2. CASE known'[n] = known[n]
      BY <3>1, <3>2 DEF BaselineOK
    <3>3. ASSUME NEW k \in Named(list, n) \intersect Scanned(list), known'[n] = Text(list[k].desc)
          PROVE  /\ known'[n] # None
                 /\ known[n] # None => known'[n] = known[n]
                 /\ known[n] = None => ~ IsPoisoned(known'[n])
      <4>1. k \in DOMAIN list /\ list[k].name = n
        BY DEF Named
      <4>2. QED BY <3>3, <4>1, PassedListing
    <3>4. QED BY <3>1, <3>2, <3>3, RememberedText DEF BaselineOK
  <2>4. QED BY <2>2, <2>3
<1>5. QED BY <1>1, <1>2, <1>3, <1>4 DEF BaselineOK

LEMMA RepliedKeeps ==
  ASSUME IInv, NEW r \in Reqs, Replied(r)
  PROVE  IInv'
<1>1. TypeOK /\ BaselineOK /\ Placed(r)
  BY IInvByRequest
<1>2. /\ pc[r] = "upstream" /\ reply[r] # None
      /\ reply' = [reply EXCEPT ![r] = None]
      /\ UNCHANGED <<asked, verdict, sent, ran>>
  BY DEF Replied
<1>3. /\ asked'[r] \in Requests /\ reply'[r] = None
      /\ \A j \in Reqs \ {r} : reply'[j] = reply[j]
      /\ reply' \in [Reqs -> Reply \union {None}]
  BY <1>1, <1>2 DEF Placed, TypeOK
<1>4. ASSUME NEW code \in Answers \ Refusals, Finish(r, code), BaselineOK',
             known' \in [Names -> Searched \union {None}],
             shown' \in Shown,
             alarmed' \in Alarms
      PROVE  IInv'
  <2>1. TypeOK'
    BY <1>1, <1>2, <1>3, <1>4, FinishType DEF TypeOK, Shown, Alarms, Refusal
  <2>2. QED BY <1>2, <1>3, <1>4, <2>1, FinishKeeps
<1>5. {"OK", "REDACTED", "NOT_JSON", "DESCRIPTOR_THREAT", "POISONING"} \subseteq Answers \ Refusals
  BY DEF Answers, Refusals
<1>6. ASSUME NEW code \in {"OK", "REDACTED", "NOT_JSON", "POISONING"}, Finish(r, code),
             UNCHANGED <<known, history>>
      PROVE  IInv'
  <2>1. /\ BaselineOK' /\ known' \in [Names -> Searched \union {None}]
        /\ shown' \in Shown
        /\ alarmed' \in Alarms
    BY <1>1, <1>6, BaselineKept DEF TypeOK, history, Shown, Alarms, Refusal
  <2>2. QED BY <1>4, <1>5, <1>6, <2>1
<1>7. CASE reply[r].how = "result" /\ asked[r].method = "tools/list" /\ Guard(r, reply[r].body)
  <2>1. PICK list \in Listings : list = reply[r].body
    <3>1. Bodies("tools/list") = Listings
      BY DEF Bodies, Intercepted
    <3>2. reply[r].body \in Bodies(asked[r].method)
      BY <1>1, <1>2, <1>7 DEF Placed
    <3>3. QED BY <1>7, <3>1, <3>2
  <2>2. CASE Refused(list)
    <3>1. Finish(r, "DESCRIPTOR_THREAT")
      BY <1>7, <2>1, <2>2 DEF Guard
    <3>2. /\ known' \in [Names -> Searched \union {None}]
          /\ alarmed' \in Alarms
          /\ BaselineOK' /\ UNCHANGED shown
      BY <1>1, <1>7, <2>1, <2>2, RefusedKeeps DEF Guard
    <3>3. QED BY <1>1, <1>4, <1>5, <3>1, <3>2 DEF TypeOK, Shown
  <2>3. CASE ~ Refused(list)
    <3>1. Finish(r, "OK")
      BY <1>7, <2>1, <2>3 DEF Guard
    <3>2. /\ known' \in [Names -> Searched \union {None}]
          /\ shown' \in Shown
          /\ alarmed' \in Alarms
          /\ BaselineOK'
      BY <1>1, <1>7, <2>1, <2>3, PassedKeeps DEF Guard
    <3>3. QED BY <1>4, <1>5, <3>1, <3>2
  <2>4. QED BY <2>2, <2>3
<1>8. CASE Sift(r, reply[r].body)
  BY <1>6, <1>8 DEF Sift
<1>9. QED BY <1>6, <1>7, <1>8 DEF Replied

-------------------------------------------------------------------------------
LEMMA IInvInit == Init => IInv
<1> SUFFICES ASSUME Init PROVE IInv
  OBVIOUS
<1>1. TypeOK
  BY DEF Init, TypeOK
<1>2. BaselineOK
  BY DEF Init, BaselineOK
<1>3. ASSUME NEW r \in Reqs
      PROVE  Placed(r) /\ Admitted(r)
  BY DEF Init, Placed, Admitted
<1>4. QED BY <1>1, <1>2, <1>3, IInvByRequest

LEMMA IInvStep ==
  ASSUME IInv, [Next]_vars
  PROVE  IInv'
<1>1. ASSUME NEW r \in Reqs, Handler(r)
      PROVE  IInv'
  BY <1>1, AuthorizeFailsKeeps, AuthorizedKeeps, ForwardFailsKeeps, RepliedKeeps DEF Handler
<1>2. CASE UNCHANGED vars
  <2>1. /\ UNCHANGED <<pc, asked, verdict, sent, ran, reply, answer, known, shown, alarmed>>
        /\ UNCHANGED <<known, history>>
    BY <1>2 DEF vars, history
  <2>2. TypeOK' /\ BaselineOK'
    BY <2>1, IInvByRequest, BaselineKept DEF TypeOK
  <2>3. QED BY <2>1, <2>2, Untouched, IInvByRequest, IInvByRequestNext
<1>3. QED BY <1>1, <1>2, ReceiveKeeps, DecideKeeps, UpstreamKeeps, RestartKeeps DEF Next

LEMMA Invariance == Spec => []IInv
<1>1. QED BY IInvInit, IInvStep, PTL DEF Spec

\* Every reachable state of the proxy is well typed.
THEOREM TypeCorrect == Spec => []TypeOK
<1>1. IInv => TypeOK
  BY DEF IInv
<1>2. QED BY <1>1, Invariance, PTL

\* What was refused is not carried out, and a call or read that is carried out
\* has a PERMIT and arguments the scan has passed.
THEOREM RefusedStaysOut == Spec => []RefusedNeverRuns
<1>1. IInv => RefusedNeverRuns
  BY DEF IInv
<1>2. QED BY <1>1, Invariance, PTL

\* The step that answers a listing tells its client nothing alarming that was not
\* refused.
LEMMA ListingAnnounced ==
  ASSUME IInv, Next, NEW r \in Reqs,
         pc[r] = "upstream", asked[r].method = "tools/list", answer'[r] = "OK",
         NEW k \in DOMAIN reply[r].body,
         Alarming(r, reply[r].body[k].name, Text(reply[r].body[k].desc))
  PROVE  \E a \in alarmed[r][reply[r].body[k].name] : a.text = Text(reply[r].body[k].desc)
<1>1. TypeOK /\ BaselineOK /\ Placed(r)
  BY IInvByRequest
<1>2. answer[r] = None /\ answer[r] # "OK"
  BY <1>1, NoneAssumption DEF Placed, Answers
<1>4. CASE Replied(r)
  <2>1. reply[r] \in Reply
    BY <1>1, <1>4 DEF Replied, TypeOK
  <2>2. reply[r].how = "result"
    <3>1. reply[r].how # "result" => reply[r].body = <<>>
      BY <2>1 DEF Reply
    <3>2. QED BY <3>1
  <2>3. Guard(r, reply[r].body)
    BY <1>4, <2>2 DEF Replied, Intercepted
  <2>4. PICK list \in Listings : list = reply[r].body
    <3>1. Bodies("tools/list") = Listings
      BY DEF Bodies, Intercepted
    <3>2. reply[r].body \in Bodies(asked[r].method)
      BY <1>1, <1>4, <2>2 DEF Placed, Replied
    <3>3. QED BY <3>1, <3>2
  <2>5. ~ Refused(list)
    BY <1>1, <2>3, <2>4 DEF Guard, Finish, TypeOK
  <2>6. /\ list[k].name \in Names /\ Text(list[k].desc) # None
        /\ known[list[k].name] \in {None, Text(list[k].desc)}
        /\ known[list[k].name] = None => ~ IsPoisoned(Text(list[k].desc))
    BY <2>4, <2>5, PassedListing
  <2>7. Alarming(r, list[k].name, Text(list[k].desc))
    BY <2>4
  <2>8. known[list[k].name] = Text(list[k].desc)
    BY <1>1, <2>6, <2>7 DEF BaselineOK, Alarming
  <2>9. \E a \in alarmed[r][list[k].name] : a.text = Text(list[k].desc)
    BY <1>1, <2>6, <2>7, <2>8 DEF BaselineOK, Alarming
  <2>10. QED BY <2>4, <2>9
<1>5. CASE ~ Replied(r)
  <2>1. answer'[r] # "OK"
    <3>1. ASSUME NEW j \in Reqs, NEW code, j # r, Finish(j, code)
          PROVE  answer'[r] = answer[r]
      BY <1>1, <3>1 DEF Finish, TypeOK
    <3>2. ASSUME NEW j \in Reqs, j # r, Forward(j)
          PROVE  answer'[r] = answer[r]
      BY <1>1, <3>2 DEF Forward, TypeOK
    <3>3. ASSUME NEW j \in Reqs, NEW q \in Requests, Receive(j, q)
          PROVE  answer'[r] = answer[r]
      <4>1. j # r
        BY <3>3 DEF Receive
      <4>2. CASE answer' = [answer EXCEPT ![j] = None]
        BY <1>1, <4>1, <4>2 DEF TypeOK
      <4>3. QED BY <3>1, <3>2, <3>3, <4>1, <4>2 DEF Receive
    <3>4. ASSUME NEW j \in Reqs, AuthorizeFails(j) \/ Authorized(j)
          PROVE  answer'[r] = answer[r]
      <4>1. j # r
        BY <3>4 DEF AuthorizeFails, Authorized
      <4>2. QED BY <3>1, <3>2, <3>4, <4>1 DEF AuthorizeFails, Authorized
    <3>5. ASSUME NEW j \in Reqs, ForwardFails(j)
          PROVE  answer'[r] # "OK"
      <4>1. CASE j = r
        BY <1>1, <3>5, <4>1 DEF ForwardFails, Finish, TypeOK
      <4>2. CASE j # r
        BY <1>2, <3>1, <3>5, <4>2 DEF ForwardFails
      <4>3. QED BY <4>1, <4>2
    <3>6. ASSUME NEW j \in Reqs, Replied(j)
          PROVE  answer'[r] = answer[r]
      <4>1. j # r
        BY <1>5, <3>6
      <4>2. \E code : Finish(j, code)
        BY <3>6 DEF Replied, Guard, Sift
      <4>3. QED BY <3>1, <4>1, <4>2
    <3>7. CASE Restart
      BY <1>1, <1>2, <3>7 DEF Restart, TypeOK
    <3>8. ASSUME NEW j \in Reqs,
                 (\E d \in Decisions : Decide(j, d)) \/ (\E rep \in Reply : Upstream(j, rep))
          PROVE  answer'[r] = answer[r]
      BY <3>8 DEF Decide, Upstream
    <3>9. QED BY <1>2, <3>3, <3>4, <3>5, <3>6, <3>7, <3>8 DEF Next, Handler
  <2>2. QED BY <2>1
<1>6. QED BY <1>4, <1>5

\* Clients receive no changed and no poisoned description that nobody was refused,
\* however many listings are in flight, whatever the servers answer.
THEOREM ChangesAreAnnounced == Spec => ChangesAnnounced
<1>1. IInv /\ [Next]_vars => [Announced]_vars
  <2>1. ASSUME IInv, Next
        PROVE  Announced
    <3> SUFFICES ASSUME NEW r \in Reqs,
                        pc[r] = "upstream", asked[r].method = "tools/list", answer'[r] = "OK",
                        NEW e \in ReceivedBy(r), Alarming(r, e[1], e[2])
                 PROVE  \E a \in alarmed[r][e[1]] : a.text = e[2]
      BY DEF Announced
    <3>1. PICK k \in DOMAIN reply[r].body :
            e = <<reply[r].body[k].name, Text(reply[r].body[k].desc)>>
      BY DEF ReceivedBy
    <3>2. QED BY <2>1, <3>1, ListingAnnounced
  <2>2. QED BY <2>1
<1>2. QED BY <1>1, Invariance, PTL DEF Spec, ChangesAnnounced
===============================================================================
