------------------------------ MODULE MCAuthorize -----------------------------
(* One agent and two requests at a time: what an agent does is judged by its  *)
(* own history alone.  The operations are the least that differ in level,     *)
(* source and destinations.                                                   *)
EXTENDS Authorize, TLC

Op(kind, level, source, dest) == [kind |-> kind, level |-> level, source |-> source, dest |-> dest]

ReadTicket == Op("read", 3, "external", "declared")
SendOut == Op("send", 3, "own", "undeclared")
Reply == Op("send", 0, "own", "declared")
MCOperations == {ReadTicket, SendOut, Reply}

CONSTANTS a1, h1, h2
Symmetry == Permutations({h1, h2})

MCPolicies == {[effect |-> "ESCALATE", on |-> {<<a1, Reply>>}]}
===============================================================================
