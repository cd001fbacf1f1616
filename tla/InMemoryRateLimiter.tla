------------------------ MODULE InMemoryRateLimiter ------------------------
(***************************************************************************)
(* The in-memory limiter of backend/internal/core/rate_limiter.go: a map   *)
(* of counters behind one mutex, and the janitor goroutine that evicts the *)
(* entries whose window has elapsed.  Allow, Reset and Cleanup hold the    *)
(* mutex from their first statement to their last, so each is one step.    *)
(*                                                                         *)
(* RateLimiterEntry.Expiry is only ever compared with the clock or         *)
(* subtracted from it, so an entry carries what is left of its window      *)
(* instead; left = 0 is "Expiry is not after now".                         *)
(***************************************************************************)
EXTENDS Integers

CONSTANTS
    Keys,       \* limiter keys
    Limit,      \* RateLimitingPolicy.Limit
    Window,     \* RateLimitingPolicy.Window, also the janitor's interval
    MaxCount    \* bound of the model: the count stops rising here

ASSUME InMemoryAssumption ==
    /\ Limit \in Int
    /\ Window \in Nat \ {0}
    /\ MaxCount \in Nat /\ MaxCount > 1 /\ MaxCount > Limit

VARIABLES
    memory,     \* memory[k]: the entry of k, or Absent
    refused,    \* the keys whose latest Allow answered false
    sinceTick,  \* time since the janitor's ticker last fired
    ticks       \* ticks waiting in the ticker's channel, which buffers one

vars == <<memory, refused, sinceTick, ticks>>

Entry == [count : Nat, left : 0 .. Window]

\* The map holds no entry for the key: a stored entry counts at least one
\* request, the one that created it.
Absent == [count |-> 0, left |-> 0]

TypeOK ==
    /\ memory \in [Keys -> Entry]
    /\ refused \subseteq Keys
    /\ sinceTick \in 0 .. (Window - 1)
    /\ ticks \in 0 .. 1

Init ==
    /\ memory = [k \in Keys |-> Absent]
    /\ refused = {}
    /\ sinceTick = 0
    /\ ticks = 0

\* Mutation of Exceeds: the N-th request is already refused.
ExceedsAtLimit(count) == count >= Limit

\* A request is refused once the window's count, itself included, passes Limit.
Exceeds(count) == count > Limit

\* Mutation of EntryFor: every request moves Expiry.
EntryForSliding(k) == [memory[k] EXCEPT !.left = Window]

\* Mutation of EntryFor: a window ends as soon as time passes.
EntryForEarly(k) ==
    IF memory[k].left < Window THEN [count |-> 0, left |-> Window] ELSE memory[k]

\* The entry a request is counted in: a fresh one when the key is new or its
\* window has elapsed, whether or not the janitor has been round.
EntryFor(k) ==
    IF memory[k].left = 0 THEN [count |-> 0, left |-> Window] ELSE memory[k]

\* entry.Count += 1.  No decision tells a count of MaxCount from a larger one.
Increment(count) == IF count < MaxCount THEN count + 1 ELSE MaxCount

Allow(k) ==
    LET entry == [EntryFor(k) EXCEPT !.count = Increment(@)]
    IN  /\ memory' = [memory EXCEPT ![k] = entry]
        /\ refused' = IF Exceeds(entry.count) THEN refused \cup {k}
                      ELSE refused \ {k}
        /\ UNCHANGED <<sinceTick, ticks>>

Reset(k) ==
    /\ memory' = [memory EXCEPT ![k] = Absent]
    /\ UNCHANGED <<refused, sinceTick, ticks>>

\* Mutation of Swept: blocked keys are kept, to stay blocked.
SweptUnlessBlocked ==
    [k \in Keys |-> IF memory[k].left = 0 /\ ~Exceeds(memory[k].count)
                    THEN Absent ELSE memory[k]]

\* The memory after Cleanup: entries whose window has elapsed are dropped.
Swept == [k \in Keys |-> IF memory[k].left = 0 THEN Absent ELSE memory[k]]

\* The janitor goroutine takes the pending tick and runs Cleanup.
Janitor ==
    /\ ticks = 1
    /\ memory' = Swept
    /\ ticks' = 0
    /\ UNCHANGED <<refused, sinceTick>>

\* Mutation of Remaining: an elapsed window goes on to count time.
RemainingUnfloored(left) == left - 1

Remaining(left) == IF left > 0 THEN left - 1 ELSE 0

\* One unit of time.  The ticker fires every Window (buildTotalLimiter starts
\* the janitor with the policy's window); a tick the janitor has not taken
\* yet absorbs the next one.
Tick ==
    /\ memory' = [k \in Keys |-> [memory[k] EXCEPT !.left = Remaining(@)]]
    /\ sinceTick' = IF sinceTick + 1 = Window THEN 0 ELSE sinceTick + 1
    /\ ticks' = IF sinceTick + 1 = Window THEN 1 ELSE ticks
    /\ UNCHANGED refused

Next ==
    \/ \E k \in Keys : Allow(k) \/ Reset(k)
    \/ Janitor
    \/ Tick

Spec == Init /\ [][Next]_vars

\* Time passes and the runtime schedules the janitor goroutine; nothing
\* obliges a client to send or an operator to reset.
Fairness == WF_vars(Tick) /\ WF_vars(Janitor)

FairSpec == Spec /\ Fairness

-----------------------------------------------------------------------------
(* Refinement of the contract.                                             *)

Live(k) == memory[k].left > 0

Contract == INSTANCE RateLimiter WITH
    used <- [k \in Keys |-> IF Live(k) THEN memory[k].count ELSE 0],
    age <- [k \in Keys |-> IF Live(k) THEN Window - memory[k].left ELSE 0]

(***************************************************************************)
(* The limiter implements the contract.  Allow starts a fresh window by    *)
(* itself, so a sweep of the janitor is a stuttering step of the contract: *)
(* no answer depends on whether it has run ("independent of whether the    *)
(* janitor has run yet", rate_limiter.go:150).                             *)
(***************************************************************************)
ImplementsRateLimiter == Contract!Spec

(***************************************************************************)
(* A lock-out is temporary: a key over the limit gets out of its window    *)
(* however often it keeps asking, because refused requests are counted but *)
(* do not move Expiry (rate_limiter.go:154-170).                           *)
(***************************************************************************)
BlockedIsTemporary ==
    \A k \in Keys : (Live(k) /\ Exceeds(memory[k].count)) ~> ~Live(k)

(***************************************************************************)
(* The map does not grow for good: an entry whose window has elapsed is    *)
(* evicted or taken over by a new window (the leak Cleanup is there for,   *)
(* rate_limiter.go:174-178).                                               *)
(***************************************************************************)
StaleEntriesEvicted ==
    \A k \in Keys :
        (memory[k].count > 0 /\ ~Live(k)) ~> (memory[k] = Absent \/ Live(k))
=============================================================================
