----------------------- MODULE MCInMemoryRateLimiter -----------------------
(* Instance of InMemoryRateLimiter, with the record of SlidingWindow, for  *)
(* TLC: the constants are in the cfg.                                      *)
EXTENDS SlidingWindow
=============================================================================
