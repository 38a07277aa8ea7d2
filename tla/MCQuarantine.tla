----------------------------- MODULE MCQuarantine -----------------------------
EXTENDS Quarantine, TLC

CONSTANTS parent, child

\* One delegation: the child was created by the parent.
MCParent == (parent :> None) @@ (child :> parent)

Symmetry == Permutations(Handlers)
===============================================================================
