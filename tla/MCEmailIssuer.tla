--------------------------- MODULE MCEmailIssuer ---------------------------
(* Instances of EmailIssuer for TLC: the constants are in the cfgs.         *)
EXTENDS EmailIssuer, TLC

\* Goroutines are interchangeable, and so are addresses.
Symmetry == Permutations(Procs) \cup Permutations(Emails)
=============================================================================
