------------------------ MODULE MCTotalRateLimiter ------------------------
(* Instance of TotalRateLimiter for TLC: the constants are in the cfg.     *)
EXTENDS TotalRateLimiter, TLC

\* Goroutines are interchangeable, and so are addresses and IPs.
Symmetry == Permutations(Procs) \cup Permutations(Emails) \cup Permutations(IPs)
=============================================================================
