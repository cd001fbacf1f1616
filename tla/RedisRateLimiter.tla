-------------------------- MODULE RedisRateLimiter --------------------------
(***************************************************************************)
(* The Redis limiter of backend/internal/core/rate_limiter.go.  Allow is   *)
(* up to three commands, INCR, EXPIRE and TTL, and each is atomic only by  *)
(* itself: the requests of the other handler goroutines, Reset, the clock, *)
(* a failing command and a crash of the backend all come in between.       *)
(*                                                                         *)
(* The waiting time that TTL answers is left out: handleSendEmail drops it *)
(* (backend/internal/http/handlers.go:352).                                *)
(***************************************************************************)
EXTENDS Integers

CONSTANTS
    Procs,      \* goroutines that serve requests
    Keys,       \* limiter keys
    Limit,      \* RateLimitingPolicy.Limit
    Window,     \* RateLimitingPolicy.Window
    MaxCount,   \* bound of the model: the counter stops rising here
    MaxFaults   \* bound of the model: failed commands and crashes

ASSUME RedisAssumption ==
    /\ Limit \in Int
    /\ Window \in Nat \ {0}
    /\ MaxCount \in Nat /\ MaxCount > 1 /\ MaxCount > Limit
    /\ MaxFaults \in Nat

VARIABLES
    count,      \* count[k]: the counter in Redis, 0 when the key is absent
    ttl,        \* ttl[k]: what is left of the key's expiry, 0 when it has none
    pc,         \* pc[p]: the command p is about to issue, or "idle"
    key,        \* key[p]: the key p's request is limited by
    age,        \* history: time since k's counter was created, up to Window
    refused,    \* history: the keys whose latest request counted exceeds
    faults      \* failed commands and crashes so far

redis == <<count, ttl>>
history == <<age, refused>>
vars == <<count, ttl, pc, key, age, refused, faults>>

TypeOK ==
    /\ count \in [Keys -> Nat]
    /\ ttl \in [Keys -> 0 .. Window]
    /\ pc \in [Procs -> {"idle", "incr", "expire", "ttl"}]
    /\ key \in [Procs -> Keys]
    /\ age \in [Keys -> 0 .. Window]
    /\ refused \subseteq Keys
    /\ faults \in 0 .. MaxFaults

Init ==
    /\ count = [k \in Keys |-> 0]
    /\ ttl = [k \in Keys |-> 0]
    /\ pc = [p \in Procs |-> "idle"]
    /\ key \in [Procs -> Keys]
    /\ age = [k \in Keys |-> 0]
    /\ refused = {}
    /\ faults = 0

\* Mutation of Exceeds: the N-th request is already refused.
ExceedsAtLimit(n) == n >= Limit

\* A request is refused once the count INCR answers, itself included, passes
\* Limit.
Exceeds(n) == n > Limit

GoTo(p, step) == pc' = [pc EXCEPT ![p] = step]

Faulty == faults < MaxFaults /\ faults' = faults + 1

Start(p, k) ==
    /\ pc[p] = "idle"
    /\ GoTo(p, "incr")
    /\ key' = [key EXCEPT ![p] = k]
    /\ UNCHANGED <<redis, history, faults>>

\* What INCR answers.  No decision tells MaxCount from a larger count.
Increment(n) == IF n < MaxCount THEN n + 1 ELSE MaxCount

\* What INCR does in Redis: it creates a missing key, without an expiry, and
\* keeps the expiry of one that is there.
Count(k) ==
    /\ count' = [count EXCEPT ![k] = Increment(@)]
    /\ age' = [age EXCEPT ![k] = IF count[k] = 0 THEN 0 ELSE @]
    /\ refused' = IF Exceeds(Increment(count[k])) THEN refused \cup {k}
                  ELSE refused \ {k}
    /\ UNCHANGED ttl

\* Mutations of NextCommand: the new counter is looked for before INCR has
\* counted; every request within the window moves its end.
NextCommandFromZero(n) ==
    IF n = 0 THEN "expire" ELSE IF Exceeds(n) THEN "ttl" ELSE "idle"
NextCommandSliding(n) == "expire"

\* After INCR answered n: the request that created the counter sets its
\* expiry, one over the limit asks how long is left.
NextCommand(n) ==
    IF n = 1 THEN "expire" ELSE IF Exceeds(n) THEN "ttl" ELSE "idle"

Incr(p) ==
    /\ pc[p] = "incr"
    /\ Count(key[p])
    /\ GoTo(p, NextCommand(Increment(count[key[p]])))
    /\ UNCHANGED <<key, faults>>

\* INCR fails before Redis ran it: Allow returns the error.
IncrFails(p) ==
    /\ pc[p] = "incr"
    /\ Faulty
    /\ GoTo(p, "idle")
    /\ UNCHANGED <<redis, key, history>>

\* Redis ran INCR and the answer is lost: the client, whose retries are left
\* at their default (storage/redis.go:13-18), issues it again or gives up.
IncrAnswerLost(p) ==
    /\ pc[p] = "incr"
    /\ Faulty
    /\ Count(key[p])
    /\ \E step \in {"incr", "idle"} : GoTo(p, step)
    /\ UNCHANGED key

\* EXPIRE does nothing to a key that is gone.  The request that sets it had
\* count 1, which exceeds only a limit below 1.
Expire(p) ==
    /\ pc[p] = "expire"
    /\ ttl' = [ttl EXCEPT ![key[p]] = IF count[key[p]] > 0 THEN Window ELSE @]
    /\ GoTo(p, IF Exceeds(1) THEN "ttl" ELSE "idle")
    /\ UNCHANGED <<count, key, history, faults>>

\* EXPIRE fails: Allow returns the error and leaves the counter as it is.  (One
\* that Redis ran before the answer was lost leaves what Expire leaves.)
ExpireFails(p) ==
    /\ pc[p] = "expire"
    /\ Faulty
    /\ GoTo(p, "idle")
    /\ UNCHANGED <<redis, key, history>>

\* TTL answers or fails; the request is refused either way.
TimeToLive(p) ==
    /\ pc[p] = "ttl"
    /\ GoTo(p, "idle")
    /\ UNCHANGED <<redis, key, history, faults>>

\* Reset(key): one DEL; one that fails changes nothing.
Reset(k) ==
    /\ count' = [count EXCEPT ![k] = 0]
    /\ ttl' = [ttl EXCEPT ![k] = 0]
    /\ age' = [age EXCEPT ![k] = 0]
    /\ UNCHANGED <<pc, key, refused, faults>>

\* The backend goes down with all its requests; Redis stays up.
Crash ==
    /\ Faulty
    /\ pc' = [p \in Procs |-> "idle"]
    /\ UNCHANGED <<redis, key, history>>

\* Mutation of Remaining: a key without an expiry is counted down as well.
RemainingUnfloored(left) == left - 1

Remaining(left) == IF left > 0 THEN left - 1 ELSE 0

\* Redis drops a key whose expiry is reached.
Expiring == {k \in Keys : ttl[k] = 1}

Tick ==
    /\ count' = [k \in Keys |-> IF k \in Expiring THEN 0 ELSE count[k]]
    /\ ttl' = [k \in Keys |-> Remaining(ttl[k])]
    /\ age' = [k \in Keys |->
                  IF count[k] = 0 \/ k \in Expiring THEN 0
                  ELSE IF age[k] < Window THEN age[k] + 1 ELSE Window]
    /\ UNCHANGED <<pc, key, refused, faults>>

Proceed(p) == Incr(p) \/ Expire(p) \/ TimeToLive(p)

Fail(p) == IncrFails(p) \/ IncrAnswerLost(p) \/ ExpireFails(p)

Next ==
    \/ \E p \in Procs : Proceed(p) \/ Fail(p) \/ \E k \in Keys : Start(p, k)
    \/ \E k \in Keys : Reset(k)
    \/ Crash
    \/ Tick

Spec == Init /\ [][Next]_vars

\* Time passes and a request once begun is carried on: the Go scheduler runs
\* its goroutine and the client waits no longer than its timeouts.  Nothing is
\* assumed of Start, Reset and the faults.
Fairness == WF_vars(Tick) /\ \A p \in Procs : WF_vars(Proceed(p))

FairSpec == Spec /\ Fairness

-----------------------------------------------------------------------------

Contract == INSTANCE RateLimiter WITH used <- count

(***************************************************************************)
(* Redis keeps the contract of the limiter, whatever fails: a window never *)
(* closes before policy.Window has passed since its first request, not     *)
(* even when an EXPIRE is late or belongs to a window that Reset has ended,*)
(* and no request recorded is forgotten (rate_limiter.go:92-123).          *)
(***************************************************************************)
ImplementsRateLimiter == Contract!Spec

(***************************************************************************)
(* As long as no command fails, a counter without an expiry has a request  *)
(* under way that will set it (rate_limiter.go:101-108).  A Reset between  *)
(* INCR and EXPIRE and a request that finds the new counter do not leave a *)
(* counter that nobody expires.                                            *)
(***************************************************************************)
CounterGetsExpiry ==
    faults = 0 =>
        \A k \in Keys :
            count[k] > 0 /\ ttl[k] = 0 =>
                \E p \in Procs : pc[p] = "expire" /\ key[p] = k

(***************************************************************************)
(* As long as no command fails, a key over the limit gets out of its       *)
(* window (rate_limiter.go:101-122), whatever EXPIRE and Reset come in     *)
(* between.                                                                *)
(***************************************************************************)
LockOutNeedsFault ==
    \A k \in Keys : Exceeds(count[k]) ~> ~Exceeds(count[k]) \/ faults > 0

(***************************************************************************)
(* A lock-out is temporary: a key over the limit gets out of its window,   *)
(* "a policy of Limit=N allows N requests per window and blocks the        *)
(* (N+1)-th [...] both backends in agreement" (rate_limiter.go:110-113).   *)
(***************************************************************************)
BlockedIsTemporary ==
    \A k \in Keys : Exceeds(count[k]) ~> ~Exceeds(count[k])
=============================================================================
