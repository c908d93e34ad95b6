------------------------------- MODULE MCLedger -------------------------------
(* Ledger on small instances.                                                  *)

EXTENDS LedgerDelivery, TLC

\* Upload slots are alike, and so are the names storage makes up.
Symmetry == Permutations(Uploads) \cup Permutations(Aliases \ {Own})

\* Taint is permanent and every property exempts a tainted row, so past the first
\* taint of a lone file there is nothing left to check.
SomeRowUntainted == \E f \in Files : ~tainted[f]
====
