------------------------------ MODULE MCRegistry -------------------------------
EXTENDS Registry, TLC

Tree(base) == [kind |-> "tree", base |-> base]
Exact(base) == [kind |-> "exact", base |-> base]
One(base) == [kind |-> "one", base |-> base]

MCPaths == {<<"docs", "a">>, <<"docs", "b", "a">>, <<"log">>}
MCLetters == {"a", "b", "*", "?"}

\* Each allows what the other does not; Wide passes for narrower than Single.
Wide == [resources |-> {Tree(<<"docs">>)}, actions |-> {"read"}]
Single == [resources |-> {One(<<"docs">>), Exact(<<"log">>)}, actions |-> {"read", "write"}]
MCScopes == {Wide, Single}
Symmetry == Permutations(Ids)
===============================================================================
