---------------------- MODULE RedisRateLimiter_proofs ----------------------
(***************************************************************************)
(* Proofs about the Redis limiter, for any number of goroutines, keys and  *)
(* faults: its state is well typed, without faults every counter gets an   *)
(* expiry, and it implements the contract of RateLimiter.                  *)
(***************************************************************************)
EXTENDS RedisRateLimiter, TLAPS

LEMMA IncrementRange ==
    ASSUME NEW n \in 0 .. MaxCount
    PROVE  /\ Increment(n) \in 1 .. MaxCount
           /\ n < MaxCount => Increment(n) = n + 1
           /\ n = MaxCount => Increment(n) = n
  BY RedisAssumption DEF Increment

(***************************************************************************)
(* TypeOK lets a counter that is gone have an expiry left, and an expiry   *)
(* end before the window; neither happens, and the refinement rests on it. *)
(***************************************************************************)
Windows ==
    \A k \in Keys :
        /\ count[k] <= MaxCount
        /\ count[k] = 0 => ttl[k] = 0
        /\ ttl[k] > 0 => age[k] + ttl[k] >= Window
        /\ count[k] > 0 => (k \in refused <=> Exceeds(count[k]))

IInv == TypeOK /\ Windows /\ CounterGetsExpiry

LEMMA InitIInv == Init => IInv
  BY RedisAssumption DEF Init, IInv, TypeOK, Windows, CounterGetsExpiry

\* What INCR does to the counters, for Incr and IncrAnswerLost.
LEMMA CountEffect ==
    ASSUME TypeOK, Windows, NEW k \in Keys, Count(k)
    PROVE  /\ count' \in [Keys -> Nat]
           /\ age' \in [Keys -> 0 .. Window]
           /\ refused' \subseteq Keys
           /\ count'[k] \in 1 .. MaxCount
           /\ count[k] > 0 => count'[k] > 1
           /\ \A j \in Keys \ {k} : count'[j] = count[j]
           /\ Windows'
  <1> USE RedisAssumption
  <1>1. count[k] \in 0 .. MaxCount
    BY DEF TypeOK, Windows
  <1>2. /\ Increment(count[k]) \in 1 .. MaxCount
        /\ count[k] > 0 => Increment(count[k]) > 1
    BY <1>1, IncrementRange
  <1>3. /\ count' = [count EXCEPT ![k] = Increment(count[k])]
        /\ ttl' = ttl
        /\ age' = [age EXCEPT ![k] = IF count[k] = 0 THEN 0 ELSE @]
        /\ refused' = IF Exceeds(Increment(count[k])) THEN refused \cup {k}
                      ELSE refused \ {k}
    BY DEF Count
  <1>4. /\ count' \in [Keys -> Nat]
        /\ age' \in [Keys -> 0 .. Window]
        /\ refused' \subseteq Keys
    BY <1>2, <1>3 DEF TypeOK
  <1>5. Windows'
    BY <1>1, <1>2, <1>3 DEF TypeOK, Windows, Exceeds
  <1>6. QED
    BY <1>2, <1>3, <1>4, <1>5 DEF TypeOK

\* Without a fault so far, a counter without an expiry has its EXPIRE coming.
Covered(k) == \E p \in Procs : pc[p] = "expire" /\ key[p] = k

LEMMA IncrIInv ==
    ASSUME IInv, NEW p \in Procs, Incr(p)
    PROVE  IInv'
  <1> USE RedisAssumption
  <1>1. key[p] \in Keys /\ Count(key[p])
    BY DEF IInv, TypeOK, Incr
  <1>2. NextCommand(Increment(count[key[p]])) \in {"idle", "expire", "ttl"}
    BY DEF NextCommand
  <1>3. TypeOK'
    BY <1>1, <1>2, CountEffect DEF IInv, TypeOK, Incr, GoTo, Count
  <1>4. CounterGetsExpiry'
    <2> SUFFICES ASSUME faults' = 0, NEW k \in Keys, count'[k] > 0, ttl'[k] = 0
                 PROVE  Covered(k)'
      BY DEF CounterGetsExpiry, Covered
    <2>1. /\ ttl' = ttl /\ key' = key /\ faults' = faults
          /\ pc' = [pc EXCEPT ![p] = NextCommand(Increment(count[key[p]]))]
          /\ pc[p] = "incr"
      BY DEF Incr, Count, GoTo
    <2>2. CASE count[k] > 0
      <3>1. PICK q \in Procs : pc[q] = "expire" /\ key[q] = k
        BY <2>1, <2>2 DEF IInv, CounterGetsExpiry
      <3>2. QED
        BY <2>1, <3>1 DEF Covered, IInv, TypeOK
    <2>3. CASE count[k] = 0
      <3>1. k = key[p]
        BY <1>1, <2>3, CountEffect DEF IInv
      <3>2. NextCommand(Increment(count[k])) = "expire"
        BY <2>3 DEF Increment, NextCommand
      <3>3. QED
        BY <2>1, <3>1, <3>2 DEF Covered, IInv, TypeOK
    <2>4. QED
      BY <2>2, <2>3 DEF IInv, TypeOK
  <1>5. QED
    BY <1>1, <1>3, <1>4, CountEffect DEF IInv

LEMMA ExpireIInv ==
    ASSUME IInv, NEW p \in Procs, Expire(p)
    PROVE  IInv'
  <1> USE RedisAssumption
  <1>1. /\ pc[p] = "expire" /\ key[p] \in Keys
        /\ ttl' = [ttl EXCEPT ![key[p]] = IF count[key[p]] > 0 THEN Window ELSE @]
        /\ pc' = [pc EXCEPT ![p] = IF Exceeds(1) THEN "ttl" ELSE "idle"]
        /\ UNCHANGED <<count, key, age, refused, faults>>
    BY DEF Expire, GoTo, IInv, TypeOK, history
  <1>2. TypeOK'
    BY <1>1 DEF IInv, TypeOK
  <1>3. Windows'
    BY <1>1 DEF IInv, TypeOK, Windows, Exceeds
  <1>4. CounterGetsExpiry'
    <2> SUFFICES ASSUME faults = 0, NEW k \in Keys, count[k] > 0, ttl'[k] = 0
                 PROVE  Covered(k)'
      BY <1>1 DEF CounterGetsExpiry, Covered
    <2>1. k # key[p] /\ ttl[k] = 0
      BY <1>1 DEF IInv, TypeOK
    <2>2. PICK q \in Procs : pc[q] = "expire" /\ key[q] = k
      BY <2>1 DEF IInv, CounterGetsExpiry
    <2>3. QED
      BY <1>1, <2>1, <2>2 DEF Covered, IInv, TypeOK
  <1>5. QED
    BY <1>2, <1>3, <1>4 DEF IInv

LEMMA TickIInv ==
    ASSUME IInv, Tick
    PROVE  IInv'
  <1> USE RedisAssumption
  <1>1. \A k \in Keys :
            /\ count[k] \in Nat /\ ttl[k] \in 0 .. Window /\ age[k] \in 0 .. Window
            /\ count'[k] = IF ttl[k] = 1 THEN 0 ELSE count[k]
            /\ ttl'[k] = IF ttl[k] > 0 THEN ttl[k] - 1 ELSE 0
            /\ age'[k] = IF count[k] = 0 \/ ttl[k] = 1 THEN 0
                         ELSE IF age[k] < Window THEN age[k] + 1 ELSE Window
    BY DEF IInv, TypeOK, Tick, Expiring, Remaining
  <1>2. UNCHANGED <<pc, key, refused, faults>>
    BY DEF Tick
  <1>3. TypeOK'
    BY <1>1, <1>2 DEF IInv, TypeOK, Tick, Expiring, Remaining
  <1>4. Windows'
    BY <1>1, <1>2 DEF IInv, Windows, Exceeds
  <1>5. CounterGetsExpiry'
    BY <1>1, <1>2 DEF IInv, CounterGetsExpiry
  <1>6. QED
    BY <1>3, <1>4, <1>5 DEF IInv

LEMMA NextIInv == IInv /\ [Next]_vars => IInv'
  <1> SUFFICES ASSUME IInv, [Next]_vars
               PROVE  IInv'
    OBVIOUS
  <1> USE RedisAssumption
  <1>1. ASSUME NEW p \in Procs, NEW k \in Keys, Start(p, k)
        PROVE  IInv'
    BY <1>1 DEF Start, GoTo, redis, history, IInv, TypeOK, Windows, CounterGetsExpiry,
                Exceeds
  <1>2. ASSUME NEW p \in Procs, IncrAnswerLost(p)
        PROVE  IInv'
    <2>1. key[p] \in Keys /\ Count(key[p]) /\ faults' = faults + 1
      BY <1>2 DEF IncrAnswerLost, Faulty, IInv, TypeOK
    <2>2. TypeOK'
      <3>1. PICK step \in {"incr", "idle"} : pc' = [pc EXCEPT ![p] = step]
        BY <1>2 DEF IncrAnswerLost, GoTo
      <3>2. ttl' = ttl /\ key' = key /\ faults' \in 0 .. MaxFaults
        BY <1>2 DEF IncrAnswerLost, Count, Faulty, IInv, TypeOK
      <3>3. QED
        BY <2>1, <3>1, <3>2, CountEffect DEF IInv, TypeOK
    <2>3. QED
      BY <2>1, <2>2, CountEffect DEF IInv, TypeOK, CounterGetsExpiry
  <1>3. ASSUME NEW p \in Procs, IncrFails(p) \/ ExpireFails(p)
        PROVE  IInv'
    BY <1>3 DEF IncrFails, ExpireFails, Faulty, GoTo, redis, history,
                IInv, TypeOK, Windows, CounterGetsExpiry, Exceeds
  <1>4. ASSUME NEW p \in Procs, TimeToLive(p)
        PROVE  IInv'
    BY <1>4 DEF TimeToLive, GoTo, redis, history,
                IInv, TypeOK, Windows, CounterGetsExpiry, Exceeds
  <1>5. ASSUME NEW k \in Keys, Reset(k)
        PROVE  IInv'
    BY <1>5 DEF Reset, IInv, TypeOK, Windows, CounterGetsExpiry, Exceeds
  <1>6. CASE Crash
    BY <1>6 DEF Crash, Faulty, redis, history,
                IInv, TypeOK, Windows, CounterGetsExpiry, Exceeds
  <1>7. CASE UNCHANGED vars
    BY <1>7 DEF vars, IInv, TypeOK, Windows, CounterGetsExpiry, Exceeds
  <1>8. QED
    BY <1>1, <1>2, <1>3, <1>4, <1>5, <1>6, <1>7, IncrIInv, ExpireIInv, TickIInv
       DEF Next, Proceed, Fail

(***************************************************************************)
(* The state of the Redis limiter is well typed, for any policy and any    *)
(* number of goroutines and faults (rate_limiter.go:76-132).               *)
(***************************************************************************)
THEOREM TypeCorrect == Spec => []TypeOK
  <1>1. IInv => TypeOK
    BY DEF IInv
  <1>2. QED
    BY InitIInv, NextIInv, <1>1, PTL DEF Spec

(***************************************************************************)
(* Until a command fails, whoever created a counter is still on the way to *)
(* give it an expiry, whatever resets come in between                      *)
(* (rate_limiter.go:95-108, 125-132).                                      *)
(***************************************************************************)
THEOREM ExpiryGuaranteed == Spec => []CounterGetsExpiry
  <1>1. IInv => CounterGetsExpiry
    BY DEF IInv
  <1>2. QED
    BY InitIInv, NextIInv, <1>1, PTL DEF Spec

-----------------------------------------------------------------------------
(* Refinement: INCR is the request of the contract and the clock of Redis  *)
(* closes the windows; the other steps leave the contract's state alone.   *)

LEMMA InitRefines == Init => Contract!Init
  BY DEF Init, Contract!Init

LEMMA CountRefines ==
    ASSUME IInv, NEW k \in Keys, Count(k)
    PROVE  Contract!Next \/ UNCHANGED Contract!vars
  <1> USE RedisAssumption
  <1>1. count[k] \in 0 .. MaxCount
    BY DEF IInv, TypeOK, Windows
  <1>2. CASE count[k] < MaxCount
    <2>1. Increment(count[k]) = count[k] + 1
      BY <1>1, <1>2, IncrementRange
    <2>2. Contract!Request(k)
      BY <1>1, <2>1 DEF Count, Exceeds, Contract!Request
    <2>3. QED
      BY <2>2 DEF Contract!Next
  <1>3. CASE count[k] = MaxCount
    <2>1. Increment(count[k]) = count[k] /\ Exceeds(count[k])
      BY <1>3, IncrementRange DEF Exceeds
    <2>2. count' = count /\ age' = age
      BY <1>3, <2>1 DEF Count, IInv, TypeOK
    <2>3. refused' = refused
      BY <1>3, <2>1 DEF Count, IInv, Windows
    <2>4. QED
      BY <2>2, <2>3 DEF Contract!vars
  <1>4. QED
    BY <1>1, <1>2, <1>3

LEMMA TickRefines ==
    ASSUME IInv, Tick
    PROVE  Contract!Elapse(Expiring)
  <1>1. \A k \in Expiring : count[k] > 0 /\ age[k] + 1 >= Window
    BY DEF Expiring, IInv, TypeOK, Windows
  <1>2. Expiring \subseteq Contract!Elapsed
    BY <1>1 DEF Expiring, Contract!Elapsed
  <1>3. QED
    BY <1>2 DEF Tick, Contract!Elapse, Contract!Older

LEMMA NextRefines == IInv /\ [Next]_vars => [Contract!Next]_(Contract!vars)
  <1> SUFFICES ASSUME IInv, [Next]_vars
               PROVE  Contract!Next \/ UNCHANGED Contract!vars
    OBVIOUS
  <1>1. ASSUME NEW p \in Procs, Incr(p) \/ IncrAnswerLost(p)
        PROVE  Contract!Next \/ UNCHANGED Contract!vars
    <2>1. key[p] \in Keys /\ Count(key[p])
      BY <1>1 DEF Incr, IncrAnswerLost, IInv, TypeOK
    <2>2. QED
      BY <2>1, CountRefines
  <1>2. ASSUME NEW p \in Procs,
               \/ Expire(p) \/ TimeToLive(p) \/ IncrFails(p) \/ ExpireFails(p)
               \/ \E k \in Keys : Start(p, k)
        PROVE  UNCHANGED Contract!vars
    BY <1>2 DEF Expire, TimeToLive, IncrFails, ExpireFails, Start, redis, history,
                Contract!vars
  <1>3. ASSUME NEW k \in Keys, Reset(k)
        PROVE  Contract!Next
    BY <1>3 DEF Reset, Contract!Reset, Contract!Next
  <1>4. CASE Crash \/ UNCHANGED vars
    BY <1>4 DEF Crash, vars, redis, history, Contract!vars
  <1>5. CASE Tick
    <2>1. Expiring \in SUBSET Keys
      BY DEF Expiring
    <2>2. QED
      BY <1>5, <2>1, TickRefines DEF Contract!Next
  <1>6. QED
    BY <1>1, <1>2, <1>3, <1>4, <1>5 DEF Next, Proceed, Fail

(***************************************************************************)
(* The Redis limiter implements the contract whatever fails: a late or     *)
(* repeated command may count a request twice or lengthen a window, never  *)
(* admit one too many or close a window early (rate_limiter.go:92-132).    *)
(***************************************************************************)
THEOREM Refinement == Spec => ImplementsRateLimiter
  BY InitIInv, NextIInv, InitRefines, NextRefines, PTL
     DEF Spec, ImplementsRateLimiter, Contract!Spec
=============================================================================
