------------------------------ MODULE MCMcpProxy -------------------------------
EXTENDS McpProxy, TLC

CONSTANTS t1, t2, doc, lure

\* Clients are alike, and every property is of safety.
Clients == Permutations(Reqs)

\* A tool as it is first listed, one whose parameter has a directive in its
\* description, and one that differs in what the guard does not look at.
Tool(params, rest) == [description |-> doc, params |-> params, rest |-> rest]
plain == Tool(<<doc>>, "string")
poison == Tool(<<lure>>, "string")
altered == Tool(<<doc>>, "number")
MCDescs == {plain, poison, altered}
MCDirectives == {Text(poison)}

Entry(n, d) == [name |-> n, desc |-> d]
MCListings == {<<Entry(t1, altered)>>, <<Entry(t1, poison)>>,
               <<Entry(t2, plain), Entry(t1, poison)>>,
               <<Entry(t1, poison), Entry(t1, plain)>>, <<Entry(t1, poison), Entry(t2, Broken)>>}

Item(kind, found) == [kind |-> kind, found |-> found]
MCResults == {<<Item("text", {})>>,
              <<Item("text", {"PII"}), Item("text", {"INSTRUCTION_TAG"})>>,
              <<Item("image", {"IMPERATIVE_INJECT"}), Item("text", {"PII"})>>}

Leaf(depth, found) == [depth |-> depth, found |-> found]
Ask(method, headers, args) == [method |-> method, headers |-> headers, args |-> args]
MCRequests == {Ask("tools/call", "both", {Leaf(1, "medium"), Leaf(2, "critical")}),
               Ask("tools/call", "both", {Leaf(1, "high"), Leaf(1, "medium")}),
               Ask("resources/read", "both", {}), Ask("resources/read", "missing", {}),
               Ask("tools/list", "missing", {}), Ask("other", "missing", {}),
               Ask("no JSON", "missing", {}), Ask("no object", "both", {})}
===============================================================================
