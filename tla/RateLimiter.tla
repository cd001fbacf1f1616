---------------------------- MODULE RateLimiter ----------------------------
(***************************************************************************)
(* What core.RateLimiter promises of Allow and Reset, whichever backend    *)
(* stands behind it (backend/internal/core/rate_limiter.go).               *)
(*                                                                         *)
(* A key has a window from the first request recorded for it; the window   *)
(* stays open at least policy.Window, a request is admitted when at most   *)
(* policy.Limit requests have been recorded in it, and Reset forgets the   *)
(* window.  Time is discrete: one Elapse is one unit of policy.Window.     *)
(***************************************************************************)
EXTENDS Integers

CONSTANTS
    Keys,       \* limiter keys: "email:<address>" or "ip:<address>"
    Limit,      \* RateLimitingPolicy.Limit, any int of the configuration
    Window      \* RateLimitingPolicy.Window, in units of time, at least 1

VARIABLES
    used,       \* used[k]: requests recorded in k's window, 0 when none is open
    age,        \* age[k]: time since k's window opened, up to Window
    refused     \* the keys whose latest request was over the limit

vars == <<used, age, refused>>

TypeOK ==
    /\ used \in [Keys -> Nat]
    /\ age \in [Keys -> 0 .. Window]
    /\ refused \subseteq Keys

Init ==
    /\ used = [k \in Keys |-> 0]
    /\ age = [k \in Keys |-> 0]
    /\ refused = {}

\* Allow(key): the request is recorded first and judged with itself counted,
\* so it is within the limit when fewer than Limit came before it.
Request(k) ==
    /\ used' = [used EXCEPT ![k] = @ + 1]
    /\ age' = [age EXCEPT ![k] = IF used[k] = 0 THEN 0 ELSE @]
    /\ refused' = IF used[k] < Limit THEN refused \ {k} ELSE refused \cup {k}

\* Reset(key): the next request opens a fresh window.
Reset(k) ==
    /\ used' = [used EXCEPT ![k] = 0]
    /\ age' = [age EXCEPT ![k] = 0]
    /\ UNCHANGED refused

\* Mutation of Older: the age is not capped.
OlderUncapped(a) == a + 1

Older(a) == IF a < Window THEN a + 1 ELSE Window

\* The windows that may close when one more unit of time has passed.
Elapsed == {k \in Keys : used[k] > 0 /\ age[k] + 1 >= Window}

\* Time passes, and the windows of the keys in closing end.  A window never
\* ends early; this contract does not say how late it may end.
Elapse(closing) ==
    /\ closing \subseteq Elapsed
    /\ used' = [k \in Keys |-> IF k \in closing THEN 0 ELSE used[k]]
    /\ age' = [k \in Keys |-> IF used[k] = 0 \/ k \in closing THEN 0
                              ELSE Older(age[k])]
    /\ UNCHANGED refused

Next ==
    \/ \E k \in Keys : Request(k) \/ Reset(k)
    \/ \E closing \in SUBSET Keys : Elapse(closing)

Spec == Init /\ [][Next]_vars
=============================================================================
