------------------------------ MODULE MCReceipts ------------------------------
(* One receipt, two callers and three redemption requests: the least in      *)
(* which a receipt is presented by two callers at once and presented again   *)
(* after an answer was lost.  Callers, requests and operations are           *)
(* interchangeable.                                                          *)
EXTENDS Receipts, TLC

Symmetry == Permutations(Callers) \union Permutations(Requests) \union Permutations(Ops)
===============================================================================
