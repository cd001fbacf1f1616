--------------------------- MODULE SlidingWindow ---------------------------
(***************************************************************************)
(* What the fixed windows of the in-memory limiter amount to for the owner *)
(* of a mailbox: how many requests are admitted in ANY stretch of time as  *)
(* long as a window, wherever it starts.  The limiter's own actions, with  *)
(* a record of what was admitted when.                                     *)
(***************************************************************************)
EXTENDS InMemoryRateLimiter

CONSTANTS
    Watched,    \* the keys a record is kept of
    MaxResets   \* bound of the model: resets of a watched key per unit of time

ASSUME SlidingAssumption == Watched \subseteq Keys /\ MaxResets \in Nat

VARIABLES
    admitted,   \* admitted[k][a]: requests of k admitted in the latest a + 1 units of time
    resets      \* resets[k][a]: resets of k in the latest a + 1 units of time

slidingVars == <<vars, admitted, resets>>

\* The stretches of time a record is kept of: the current unit alone, up to
\* the latest Window units.
Slots == 0 .. (Window - 1)

\* One more of what is recorded happens now, in every stretch up to now.
Counted(history, k) ==
    [history EXCEPT ![k] = [a \in Slots |-> history[k][a] + 1]]

\* A new unit of time, in which nothing has happened yet.
Shifted(history) ==
    [k \in Watched |-> [a \in Slots |-> IF a = 0 THEN 0 ELSE history[k][a - 1]]]

SlidingInit ==
    /\ Init
    /\ admitted = [k \in Watched |-> [a \in Slots |-> 0]]
    /\ resets = [k \in Watched |-> [a \in Slots |-> 0]]

CountedAllow(k) ==
    /\ Allow(k)
    /\ admitted' = IF k \in Watched \ refused'
                   THEN Counted(admitted, k) ELSE admitted
    /\ UNCHANGED resets

CountedReset(k) ==
    /\ k \in Watched => resets[k][0] < MaxResets
    /\ Reset(k)
    /\ resets' = IF k \in Watched THEN Counted(resets, k) ELSE resets
    /\ UNCHANGED admitted

CountedTick ==
    /\ Tick
    /\ admitted' = Shifted(admitted)
    /\ resets' = Shifted(resets)

SlidingNext ==
    \/ \E k \in Keys : CountedAllow(k) \/ CountedReset(k)
    \/ Janitor /\ UNCHANGED <<admitted, resets>>
    \/ CountedTick

SlidingSpec == SlidingInit /\ [][SlidingNext]_slidingVars /\ Fairness

(***************************************************************************)
(* Within a stretch of time no longer than a Window a key has at most      *)
(* 2 * Limit requests admitted (the end of one window and the whole of the *)
(* next), and Limit more for each reset: "allows N requests per window"    *)
(* (rate_limiter.go:110-113) is not N in every such stretch, and never     *)
(* worse than this.                                                        *)
(***************************************************************************)
SlidingBound ==
    \A k \in Watched, a \in Slots :
        admitted[k][a] > 0 => admitted[k][a] <= Limit * (2 + resets[k][a])
=============================================================================
