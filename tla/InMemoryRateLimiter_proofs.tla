--------------------- MODULE InMemoryRateLimiter_proofs ---------------------
(***************************************************************************)
(* Proofs about the in-memory limiter: its state is well typed, and it     *)
(* implements the contract of RateLimiter for every policy.                *)
(***************************************************************************)
EXTENDS SlidingWindow, TLAPS

(***************************************************************************)
(* TypeOK does not say that an entry with a window counts a request, nor   *)
(* that the latest answer is the one the count calls for; without the      *)
(* first a live entry could map to "no window", without the second a       *)
(* request beyond MaxCount could change the answer.                        *)
(***************************************************************************)
CountsAgree ==
    \A k \in Keys : Live(k) =>
        /\ memory[k].count \in 1 .. MaxCount
        /\ k \in refused <=> Exceeds(memory[k].count)

IInv == TypeOK /\ CountsAgree

\* EntryFor gives an entry whose window is open, with the count to go on from.
LEMMA EntryForOpen ==
    ASSUME IInv, NEW k \in Keys
    PROVE  /\ EntryFor(k) \in [count : 0 .. MaxCount, left : 1 .. Window]
           /\ Live(k) => EntryFor(k) = memory[k]
           /\ ~Live(k) => EntryFor(k) = [count |-> 0, left |-> Window]
  <1> USE InMemoryAssumption DEF IInv, TypeOK, Entry
  <1>1. memory[k] \in [count : Nat, left : 0 .. Window]
    OBVIOUS
  <1>2. CASE Live(k)
    BY <1>1, <1>2 DEF CountsAgree, Live, EntryFor
  <1>3. CASE ~Live(k)
    BY <1>1, <1>3 DEF Live, EntryFor
  <1>4. QED
    BY <1>2, <1>3

\* The count of a request is at least 1 and at most MaxCount.
LEMMA IncrementRange ==
    ASSUME NEW n \in 0 .. MaxCount
    PROVE  /\ Increment(n) \in 1 .. MaxCount
           /\ n < MaxCount => Increment(n) = n + 1
           /\ n = MaxCount => Increment(n) = n
  BY InMemoryAssumption DEF Increment

\* The memory and the answer after Allow(k).
LEMMA AllowEffect ==
    ASSUME IInv, NEW k \in Keys, Allow(k)
    PROVE  /\ memory' = [memory EXCEPT ![k] =
                            [count |-> Increment(EntryFor(k).count),
                             left |-> EntryFor(k).left]]
           /\ refused' = IF Exceeds(Increment(EntryFor(k).count))
                          THEN refused \cup {k} ELSE refused \ {k}
           /\ memory'[k].count = Increment(EntryFor(k).count)
           /\ memory'[k].left = EntryFor(k).left
           /\ \A j \in Keys \ {k} : memory'[j] = memory[j]
  <1>1. [EntryFor(k) EXCEPT !.count = Increment(@)]
            = [count |-> Increment(EntryFor(k).count), left |-> EntryFor(k).left]
    BY EntryForOpen
  <1>2. QED
    BY <1>1 DEF Allow, IInv, TypeOK, Entry

LEMMA InitIInv == Init => IInv
  BY InMemoryAssumption
     DEF Init, IInv, TypeOK, Entry, Absent, CountsAgree, Live

LEMMA NextIInv == IInv /\ [Next]_vars => IInv'
  <1> SUFFICES ASSUME IInv, [Next]_vars
               PROVE  IInv'
    OBVIOUS
  <1> USE InMemoryAssumption
  <1>1. ASSUME NEW k \in Keys, Allow(k)
        PROVE  IInv'
    <2>1. /\ Increment(EntryFor(k).count) \in 1 .. MaxCount
          /\ EntryFor(k).left \in 1 .. Window
      BY EntryForOpen, IncrementRange
    <2>2. TypeOK'
      <3>1. memory' \in [Keys -> Entry]
        BY <1>1, <2>1, AllowEffect DEF IInv, TypeOK, Entry
      <3>2. refused' \subseteq Keys
        BY <1>1, AllowEffect DEF IInv, TypeOK
      <3>3. UNCHANGED <<sinceTick, ticks>>
        BY <1>1 DEF Allow
      <3>4. QED
        BY <3>1, <3>2, <3>3 DEF IInv, TypeOK
    <2>3. CountsAgree'
      BY <1>1, <2>1, AllowEffect DEF IInv, TypeOK, Entry, CountsAgree, Live
    <2>4. QED
      BY <2>2, <2>3 DEF IInv
  <1>2. ASSUME NEW k \in Keys, Reset(k)
        PROVE  IInv'
    BY <1>2 DEF Reset, IInv, TypeOK, Entry, Absent, CountsAgree, Live
  <1>3. CASE Janitor
    BY <1>3 DEF Janitor, Swept, IInv, TypeOK, Entry, Absent, CountsAgree, Live
  <1>4. CASE Tick
    <2>1. \A k \in Keys : memory'[k] = [count |-> memory[k].count,
                                        left |-> Remaining(memory[k].left)]
      BY <1>4 DEF Tick, IInv, TypeOK, Entry
    <2>2. TypeOK'
      BY <1>4, <2>1 DEF Tick, Remaining, IInv, TypeOK, Entry
    <2>3. CountsAgree'
      BY <1>4, <2>1 DEF Tick, Remaining, IInv, TypeOK, Entry, CountsAgree, Live, Exceeds
    <2>4. QED
      BY <2>2, <2>3 DEF IInv
  <1>5. CASE UNCHANGED vars
    BY <1>5 DEF vars, IInv, TypeOK, CountsAgree, Live, Exceeds
  <1>6. QED
    BY <1>1, <1>2, <1>3, <1>4, <1>5 DEF Next

(***************************************************************************)
(* The state of the in-memory limiter is well typed, for any keys and any  *)
(* policy (rate_limiter.go:136-225).                                       *)
(***************************************************************************)
THEOREM TypeCorrect == Spec => []TypeOK
  <1>1. IInv => TypeOK
    BY DEF IInv
  <1>2. QED
    BY InitIInv, NextIInv, <1>1, PTL DEF Spec

-----------------------------------------------------------------------------
(* Refinement: every step of the limiter is a step of the contract or      *)
(* leaves the contract's state as it is.                                   *)

usedBar == [k \in Keys |-> IF Live(k) THEN memory[k].count ELSE 0]
ageBar == [k \in Keys |-> IF Live(k) THEN Window - memory[k].left ELSE 0]

LEMMA InitRefines == Init => Contract!Init
  BY DEF Init, Absent, Live, Contract!Init

\* A request is a request of the contract until the count stops rising.
LEMMA AllowRefines ==
    ASSUME IInv, NEW k \in Keys, Allow(k)
    PROVE  Contract!Request(k) \/ UNCHANGED Contract!vars
  <1> USE InMemoryAssumption
  <1> DEFINE n == EntryFor(k).count
  <1>1. /\ n \in 0 .. MaxCount
        /\ EntryFor(k).left \in 1 .. Window
    BY EntryForOpen
  <1>2. memory \in [Keys -> Entry] /\ refused \subseteq Keys
    BY DEF IInv, TypeOK
  <1>3. usedBar[k] = n /\ (usedBar[k] > 0 <=> Live(k))
    BY <1>2, EntryForOpen DEF usedBar, Live, Entry, IInv, CountsAgree
  <1>4. CASE n < MaxCount
    <2>1. usedBar' = [usedBar EXCEPT ![k] = @ + 1]
      <3>1. memory'[k].count = n + 1 /\ memory'[k].left > 0
        BY <1>1, <1>4, AllowEffect, IncrementRange
      <3>2. usedBar' = [j \in Keys |-> IF memory'[j].left > 0
                                       THEN memory'[j].count ELSE 0]
        BY DEF usedBar, Live
      <3>3. QED
        BY <1>3, <3>1, <3>2, AllowEffect DEF usedBar, Live
    <2>2. ageBar' = [ageBar EXCEPT ![k] = IF usedBar[k] = 0 THEN 0 ELSE @]
      <3>1. ageBar' = [j \in Keys |-> IF memory'[j].left > 0
                                      THEN Window - memory'[j].left ELSE 0]
        BY DEF ageBar, Live
      <3>2. memory'[k].left > 0 /\ Window - memory'[k].left
                = IF usedBar[k] = 0 THEN 0 ELSE ageBar[k]
        BY <1>1, <1>3, AllowEffect, EntryForOpen DEF ageBar
      <3>3. QED
        BY <3>1, <3>2, AllowEffect DEF ageBar, Live
    <2>3. refused' = IF usedBar[k] < Limit THEN refused \ {k} ELSE refused \cup {k}
      BY <1>1, <1>2, <1>3, <1>4, AllowEffect, IncrementRange DEF Exceeds
    <2>4. QED
      BY <2>1, <2>2, <2>3 DEF Contract!Request, usedBar, ageBar
  <1>5. CASE n = MaxCount
    <2>1. Live(k) /\ EntryFor(k) = memory[k]
      BY <1>3, <1>5, EntryForOpen
    <2>2. memory' = memory
      BY <1>2, <1>5, <2>1, AllowEffect, IncrementRange DEF Entry
    <2>3. refused' = refused
      <3>1. Exceeds(MaxCount) /\ Increment(n) = MaxCount
        BY <1>1, <1>5, IncrementRange DEF Exceeds
      <3>2. k \in refused
        BY <1>5, <2>1, <3>1 DEF IInv, CountsAgree
      <3>3. QED
        BY <3>1, <3>2, AllowEffect
    <2>4. QED
      BY <2>2, <2>3 DEF Contract!vars, Live
  <1>6. QED
    BY <1>1, <1>4, <1>5

\* Time passing is time passing, and closes the windows that are used up.
LEMMA TickRefines ==
    ASSUME IInv, Tick
    PROVE  \E closing \in SUBSET Keys : Contract!Elapse(closing)
  <1> USE InMemoryAssumption
  <1>0. PICK closing \in SUBSET Keys : closing = {k \in Keys : memory[k].left = 1}
    OBVIOUS
  <1>1. \A k \in Keys :
            /\ memory[k].count \in Nat /\ memory[k].left \in 0 .. Window
            /\ Live(k) => memory[k].count > 0
            /\ memory'[k].count = memory[k].count
            /\ memory'[k].left = Remaining(memory[k].left)
    BY DEF IInv, TypeOK, Entry, CountsAgree, Tick
  <1>2. closing \subseteq {k \in Keys : usedBar[k] > 0 /\ ageBar[k] + 1 >= Window}
    BY <1>0, <1>1 DEF usedBar, ageBar, Live
  <1>3. usedBar' = [k \in Keys |-> IF k \in closing THEN 0 ELSE usedBar[k]]
    BY <1>0, <1>1 DEF usedBar, Live, Remaining
  <1>4. ageBar' = [k \in Keys |->
                      IF usedBar[k] = 0 \/ k \in closing THEN 0
                      ELSE IF ageBar[k] < Window THEN ageBar[k] + 1 ELSE Window]
    BY <1>0, <1>1 DEF usedBar, ageBar, Live, Remaining
  <1>5. refused' = refused
    BY DEF Tick
  <1>6. Contract!Elapse(closing)
    BY <1>2, <1>3, <1>4, <1>5
       DEF Contract!Elapse, Contract!Elapsed, Contract!Older, usedBar, ageBar
  <1>7. QED
    BY <1>6

LEMMA NextRefines == IInv /\ [Next]_vars => [Contract!Next]_(Contract!vars)
  <1> SUFFICES ASSUME IInv, [Next]_vars
               PROVE  [Contract!Next]_(Contract!vars)
    OBVIOUS
  <1>1. ASSUME NEW k \in Keys, Allow(k)
        PROVE  Contract!Next \/ UNCHANGED Contract!vars
    BY <1>1, AllowRefines DEF Contract!Next
  <1>2. ASSUME NEW k \in Keys, Reset(k)
        PROVE  Contract!Reset(k)
    <2>1. /\ ~(memory'[k].left > 0)
          /\ \A j \in Keys \ {k} : memory'[j] = memory[j]
      BY <1>2 DEF Reset, Absent, IInv, TypeOK
    <2>2. usedBar' = [usedBar EXCEPT ![k] = 0]
      <3>1. usedBar' = [j \in Keys |-> IF memory'[j].left > 0
                                       THEN memory'[j].count ELSE 0]
        BY DEF usedBar, Live
      <3>2. QED
        BY <2>1, <3>1 DEF usedBar, Live
    <2>3. ageBar' = [ageBar EXCEPT ![k] = 0]
      <3>1. ageBar' = [j \in Keys |-> IF memory'[j].left > 0
                                      THEN Window - memory'[j].left ELSE 0]
        BY DEF ageBar, Live
      <3>2. QED
        BY <2>1, <3>1 DEF ageBar, Live
    <2>4. QED
      BY <1>2, <2>2, <2>3 DEF Reset, Contract!Reset, usedBar, ageBar
  <1>3. CASE Janitor
    BY <1>3 DEF Janitor, Swept, Absent, Contract!vars, Live, IInv, TypeOK, Entry
  <1>4. CASE Tick
    BY <1>4, TickRefines DEF Contract!Next
  <1>5. CASE UNCHANGED vars
    BY <1>5 DEF vars, Contract!vars, Live
  <1>6. QED
    BY <1>1, <1>2, <1>3, <1>4, <1>5 DEF Next, Contract!Next

(***************************************************************************)
(* The in-memory limiter implements the contract: what Allow answers never *)
(* depends on the janitor, no window closes early and every request is     *)
(* counted (rate_limiter.go:143-189).                                      *)
(***************************************************************************)
THEOREM Refinement == Spec => ImplementsRateLimiter
  BY InitIInv, NextIInv, InitRefines, NextRefines, PTL
     DEF Spec, ImplementsRateLimiter, Contract!Spec

-----------------------------------------------------------------------------
(* What a key can have admitted in a stretch of time.                      *)

\* What the open window of k would still admit.
Unused(k) == IF Live(k) /\ memory[k].count < Limit THEN Limit - memory[k].count ELSE 0

\* How many of the latest stretches lie within the open window of k; all of
\* them, Limit to spare, when none is open.
Covered(k) == IF Live(k) THEN Window - memory[k].left ELSE Window

RecordsTyped ==
    /\ admitted \in [Watched -> [Slots -> Nat]]
    /\ resets \in [Watched -> [Slots -> Nat]]

\* A stretch costs one Limit, another when it reaches back behind the open
\* window, and another for each reset; what the window still has to give is
\* paid for in advance.  A negative Limit admits nothing.
Budget ==
    \A k \in Watched, a \in Slots :
        IF Limit < 0 THEN admitted[k][a] = 0
        ELSE admitted[k][a] + Unused(k)
                <= Limit * ((IF a < Covered(k) THEN 1 ELSE 2) + resets[k][a])

SlidingInv == IInv /\ RecordsTyped /\ Budget

\* Paying for one more reset, or for a second window, adds one Limit.
LEMMA OneMoreLimit ==
    ASSUME NEW n \in Nat, Limit >= 0
    PROVE  /\ Limit * (1 + n) \in Nat
           /\ Limit * (2 + n) = Limit * (1 + n) + Limit
           /\ Limit * (1 + (n + 1)) = Limit * (1 + n) + Limit
           /\ Limit * (2 + (n + 1)) = Limit * (2 + n) + Limit
  BY InMemoryAssumption

\* The two sides of Budget, apart from the rest of the state.
LEMMA BudgetTyped ==
    ASSUME IInv, NEW k \in Keys
    PROVE  /\ Unused(k) \in Nat
           /\ Limit >= 0 => Unused(k) <= Limit
           /\ Covered(k) \in 0 .. Window
           /\ ~Live(k) => Unused(k) = 0 /\ Covered(k) = Window
  BY InMemoryAssumption DEF IInv, TypeOK, Entry, Unused, Covered, Live

LEMMA SlidingInitInv == SlidingInit => SlidingInv
  <1> SUFFICES ASSUME SlidingInit
               PROVE  SlidingInv
    OBVIOUS
  <1>1. IInv
    BY InitIInv DEF SlidingInit
  <1>2. RecordsTyped
    BY DEF SlidingInit, RecordsTyped
  <1>3. Budget
    <2> SUFFICES ASSUME NEW k \in Watched, NEW a \in Slots, Limit >= 0
                 PROVE  0 + Unused(k)
                            <= Limit * ((IF a < Covered(k) THEN 1 ELSE 2) + 0)
      BY InMemoryAssumption DEF Budget, SlidingInit
    <2>1. ~Live(k)
      BY SlidingAssumption DEF SlidingInit, Init, Absent, Live
    <2>2. Unused(k) = 0 /\ Covered(k) = Window /\ a < Window
      BY <1>1, <2>1, InMemoryAssumption, SlidingAssumption, BudgetTyped DEF Slots
    <2>3. QED
      BY <2>2, InMemoryAssumption
  <1>4. QED
    BY <1>1, <1>2, <1>3 DEF SlidingInv

\* Budget for a key whose window gives out one of what it had to give, or
\* nothing, and is as old as before or is opened now.
LEMMA AllowKeepsBudget ==
    ASSUME SlidingInv, IInv', NEW k \in Keys, CountedAllow(k)
    PROVE  Budget'
  <1> USE InMemoryAssumption, SlidingAssumption
  <1> SUFFICES ASSUME NEW j \in Watched, NEW a \in Slots
               PROVE  IF Limit < 0 THEN admitted'[j][a] = 0
                      ELSE admitted'[j][a] + Unused(j)'
                        <= Limit * ((IF a < Covered(j)' THEN 1 ELSE 2) + resets'[j][a])
    BY DEF Budget
  <1>1. /\ admitted[j][a] \in Nat /\ resets[j][a] \in Nat /\ a \in 0 .. (Window - 1)
        /\ IF Limit < 0 THEN admitted[j][a] = 0
           ELSE admitted[j][a] + Unused(j)
                    <= Limit * ((IF a < Covered(j) THEN 1 ELSE 2) + resets[j][a])
        /\ IInv /\ j \in Keys
    BY DEF SlidingInv, RecordsTyped, Budget, Slots
  <1>2. resets' = resets /\ Allow(k)
    BY DEF CountedAllow
  <1>3. CASE j # k
    <2>1. memory'[j] = memory[j]
      BY <1>1, <1>2, <1>3, AllowEffect
    <2>2. admitted'[j] = admitted[j]
      BY <1>3 DEF CountedAllow, Counted, SlidingInv, RecordsTyped
    <2>3. Unused(j)' = Unused(j) /\ Covered(j)' = Covered(j)
      BY <2>1 DEF Unused, Covered, Live
    <2>4. QED
      BY <1>1, <1>2, <2>2, <2>3
  <1>4. CASE j = k
    <2> DEFINE n == EntryFor(k).count
    <2>1. /\ n \in 0 .. MaxCount /\ EntryFor(k).left \in 1 .. Window
          /\ Live(k) => n = memory[k].count /\ EntryFor(k).left = memory[k].left
          /\ ~Live(k) => n = 0 /\ EntryFor(k).left = Window
      BY <1>1, EntryForOpen
    <2>2. /\ memory'[k].count = Increment(n) /\ memory'[k].left = EntryFor(k).left
          /\ k \in refused' <=> Increment(n) > Limit
      BY <1>1, <1>2, AllowEffect DEF Exceeds
    <2>3. Increment(n) = IF n < MaxCount THEN n + 1 ELSE MaxCount
      BY DEF Increment
    <2>4. Live(k)'
      BY <2>1, <2>2 DEF Live
    <2>5. Unused(k)' = IF Increment(n) < Limit THEN Limit - Increment(n) ELSE 0
      BY <2>2, <2>4 DEF Unused
    <2>6. Covered(k)' = IF Live(k) THEN Covered(k) ELSE 0
      BY <2>1, <2>2, <2>4 DEF Covered
    <2>7. admitted'[k][a] = IF n < Limit THEN admitted[k][a] + 1 ELSE admitted[k][a]
      BY <1>4, <2>1, <2>2, <2>3 DEF CountedAllow, Counted, SlidingInv, RecordsTyped
    <2>8. CASE Limit < 0
      BY <1>1, <1>4, <2>1, <2>7, <2>8
    <2>9. CASE Limit >= 0 /\ Live(k)
      <3>1. Unused(k) = IF n < Limit THEN Limit - n ELSE 0
        BY <2>1, <2>9 DEF Unused
      <3>2. admitted'[k][a] + Unused(k)' <= admitted[k][a] + Unused(k)
        BY <1>1, <1>4, <2>1, <2>3, <2>5, <2>7, <2>9, <3>1
      <3>3. admitted'[k][a] \in Nat /\ Unused(k)' \in Nat /\ Unused(k) \in Nat
        BY <1>1, <1>4, <2>1, <2>3, <2>5, <2>7, <2>9, <3>1
      <3>4. QED
        BY <1>1, <1>2, <1>4, <2>6, <2>9, <3>2, <3>3
    <2>10. CASE Limit >= 0 /\ ~Live(k)
      <3>1. /\ Covered(k)' = 0 /\ Unused(k) = 0 /\ Covered(k) = Window
        BY <1>1, <2>6, <2>10, BudgetTyped
      <3>2. admitted'[k][a] + Unused(k)' <= admitted[k][a] + Limit
        BY <1>1, <1>4, <2>1, <2>3, <2>5, <2>7, <2>10
      <3>3. admitted[k][a] <= Limit * (1 + resets[k][a])
        BY <1>1, <1>4, <2>10, <3>1
      <3>4. Limit * (2 + resets[k][a]) = Limit * (1 + resets[k][a]) + Limit
        BY <1>1, <1>4, <2>10, OneMoreLimit
      <3>5. /\ admitted'[k][a] \in Nat /\ Unused(k)' \in Nat
            /\ Limit * (1 + resets[k][a]) \in Nat
        BY <1>1, <1>4, <2>1, <2>3, <2>5, <2>7, <2>10, OneMoreLimit
      <3>6. admitted'[k][a] + Unused(k)' <= Limit * (2 + resets[k][a])
        BY <1>1, <1>4, <3>2, <3>3, <3>4, <3>5
      <3>7. QED
        BY <1>1, <1>2, <1>4, <2>10, <3>1, <3>6
    <2>11. QED
      BY <2>8, <2>9, <2>10
  <1>5. QED
    BY <1>3, <1>4

\* A reset closes the window, and pays for what it had given out.
LEMMA ResetKeepsBudget ==
    ASSUME SlidingInv, IInv', NEW k \in Keys, CountedReset(k)
    PROVE  Budget'
  <1> USE InMemoryAssumption, SlidingAssumption
  <1> SUFFICES ASSUME NEW j \in Watched, NEW a \in Slots
               PROVE  IF Limit < 0 THEN admitted'[j][a] = 0
                      ELSE admitted'[j][a] + Unused(j)'
                        <= Limit * ((IF a < Covered(j)' THEN 1 ELSE 2) + resets'[j][a])
    BY DEF Budget
  <1>1. /\ admitted[j][a] \in Nat /\ resets[j][a] \in Nat /\ a \in 0 .. (Window - 1)
        /\ IF Limit < 0 THEN admitted[j][a] = 0
           ELSE admitted[j][a] + Unused(j)
                    <= Limit * ((IF a < Covered(j) THEN 1 ELSE 2) + resets[j][a])
        /\ IInv /\ j \in Keys
    BY DEF SlidingInv, RecordsTyped, Budget, Slots
  <1>2. admitted' = admitted /\ Reset(k)
    BY DEF CountedReset
  <1>3. CASE j # k
    <2>1. memory'[j] = memory[j]
      BY <1>1, <1>2, <1>3 DEF Reset, IInv, TypeOK
    <2>2. resets'[j] = resets[j]
      BY <1>3 DEF CountedReset, Counted, SlidingInv, RecordsTyped
    <2>3. Unused(j)' = Unused(j) /\ Covered(j)' = Covered(j)
      BY <2>1 DEF Unused, Covered, Live
    <2>4. QED
      BY <1>1, <1>2, <2>2, <2>3
  <1>4. CASE j = k
    <2>1. ~Live(k)'
      BY <1>1, <1>2 DEF Reset, IInv, TypeOK, Absent, Live
    <2>2. Unused(k)' = 0 /\ Covered(k)' = Window
      BY <2>1 DEF Unused, Covered
    <2>3. resets'[k][a] = resets[k][a] + 1
      BY <1>4 DEF CountedReset, Counted, SlidingInv, RecordsTyped
    <2>4. CASE Limit >= 0
      <3>1. Unused(k) \in Nat
        BY <1>1, BudgetTyped
      <3>2. admitted[k][a] <= Limit * (2 + resets[k][a])
        <4>1. /\ Limit * (1 + resets[k][a]) \in Nat
              /\ Limit * (2 + resets[k][a]) = Limit * (1 + resets[k][a]) + Limit
          BY <1>1, <1>4, <2>4, OneMoreLimit
        <4>2. \/ admitted[k][a] + Unused(k) <= Limit * (1 + resets[k][a])
              \/ admitted[k][a] + Unused(k) <= Limit * (2 + resets[k][a])
          BY <1>1, <1>4, <2>4
        <4>3. QED
          BY <1>1, <1>4, <2>4, <3>1, <4>1, <4>2
      <3>3. Limit * (1 + resets'[k][a]) = Limit * (2 + resets[k][a])
        BY <1>1, <1>4, <2>3, <2>4, OneMoreLimit
      <3>4. QED
        BY <1>1, <1>2, <1>4, <2>2, <2>4, <3>2, <3>3
    <2>5. QED
      BY <1>1, <1>2, <1>4, <2>4
  <1>5. QED
    BY <1>3, <1>4

\* Time moves every stretch back by one, and the window with it.
LEMMA TickKeepsBudget ==
    ASSUME SlidingInv, IInv', CountedTick
    PROVE  Budget'
  <1> USE InMemoryAssumption, SlidingAssumption
  <1> SUFFICES ASSUME NEW j \in Watched, NEW a \in Slots
               PROVE  IF Limit < 0 THEN admitted'[j][a] = 0
                      ELSE admitted'[j][a] + Unused(j)'
                        <= Limit * ((IF a < Covered(j)' THEN 1 ELSE 2) + resets'[j][a])
    BY DEF Budget
  <1>1. IInv /\ IInv' /\ j \in Keys /\ a \in 0 .. (Window - 1)
    BY DEF SlidingInv, Slots
  <1>2. /\ memory[j].count \in Nat /\ memory[j].left \in 0 .. Window
        /\ memory'[j].count = memory[j].count
        /\ memory'[j].left = Remaining(memory[j].left)
    BY <1>1 DEF CountedTick, Tick, IInv, TypeOK, Entry
  <1>3. Unused(j) \in Nat /\ Unused(j)' <= Unused(j) /\ Unused(j)' \in Nat
    BY <1>2 DEF Unused, Live, Remaining
  <1>4. Covered(j)' = IF Covered(j) < Window THEN Covered(j) + 1 ELSE Window
    BY <1>2 DEF Covered, Live, Remaining
  <1>5. Covered(j) \in 0 .. Window /\ (Limit >= 0 => Unused(j)' <= Limit)
    BY <1>2 DEF Covered, Unused, Live
  <1>6. CASE a = 0
    <2>1. admitted'[j][a] = 0 /\ resets'[j][a] = 0
      BY <1>6 DEF CountedTick, Shifted
    <2>2. QED
      BY <1>3, <1>4, <1>5, <1>6, <2>1
  <1>7. CASE a > 0
    <2>1. a - 1 \in Slots
      BY <1>1, <1>7 DEF Slots
    <2>2. admitted'[j][a] = admitted[j][a - 1] /\ resets'[j][a] = resets[j][a - 1]
      BY <1>1, <1>7 DEF CountedTick, Shifted
    <2>3. /\ admitted[j][a - 1] \in Nat /\ resets[j][a - 1] \in Nat
          /\ IF Limit < 0 THEN admitted[j][a - 1] = 0
             ELSE admitted[j][a - 1] + Unused(j)
                <= Limit * ((IF a - 1 < Covered(j) THEN 1 ELSE 2) + resets[j][a - 1])
      BY <2>1 DEF SlidingInv, RecordsTyped, Budget
    <2>4. a < Covered(j)' <=> a - 1 < Covered(j)
      BY <1>1, <1>4, <1>5, <1>7
    <2>5. QED
      BY <1>3, <2>2, <2>3, <2>4
  <1>8. QED
    BY <1>1, <1>6, <1>7

\* A step with the record is a step of the limiter, and keeps the invariant.
LEMMA SlidingStep ==
    ASSUME SlidingInv, [SlidingNext]_slidingVars
    PROVE  [Next]_vars /\ SlidingInv'
  <1> USE InMemoryAssumption, SlidingAssumption
  <1>1. [Next]_vars
    BY DEF SlidingNext, slidingVars, CountedAllow, CountedReset, CountedTick, Next
  <1>2. IInv /\ IInv'
    BY <1>1, NextIInv DEF SlidingInv
  <1>3. ASSUME NEW k \in Keys, CountedAllow(k)
        PROVE  SlidingInv'
    <2>1. RecordsTyped'
      BY <1>3 DEF CountedAllow, Counted, SlidingInv, RecordsTyped
    <2>2. QED
      BY <1>2, <1>3, <2>1, AllowKeepsBudget DEF SlidingInv
  <1>4. ASSUME NEW k \in Keys, CountedReset(k)
        PROVE  SlidingInv'
    <2>1. RecordsTyped'
      BY <1>4 DEF CountedReset, Counted, SlidingInv, RecordsTyped
    <2>2. QED
      BY <1>2, <1>4, <2>1, ResetKeepsBudget DEF SlidingInv
  <1>5. CASE CountedTick
    <2>1. RecordsTyped'
      <3>1. \A a \in Slots \ {0} : a - 1 \in Slots
        BY DEF Slots
      <3>2. QED
        BY <1>5, <3>1 DEF CountedTick, Shifted, SlidingInv, RecordsTyped
    <2>2. QED
      <3>1. Budget'
        BY <1>2, <1>5, TickKeepsBudget
      <3>2. QED
        BY <1>1, <1>2, <2>1, <3>1 DEF SlidingInv
  <1>6. ASSUME UNCHANGED <<admitted, resets>>,
               \A k \in Keys : Unused(k)' = Unused(k) /\ Covered(k)' = Covered(k)
        PROVE  SlidingInv'
    BY <1>2, <1>6 DEF SlidingInv, RecordsTyped, Budget
  <1>7. CASE Janitor /\ UNCHANGED <<admitted, resets>>
    <2>1. \A k \in Keys :
            /\ memory[k].left > 0 => memory'[k] = memory[k]
            /\ ~(memory[k].left > 0) => ~(memory'[k].left > 0)
      BY <1>2, <1>7 DEF Janitor, Swept, Absent, IInv, TypeOK, Entry
    <2>2. \A k \in Keys : Unused(k)' = Unused(k) /\ Covered(k)' = Covered(k)
      BY <2>1 DEF Unused, Covered, Live
    <2>3. QED
      BY <1>1, <1>6, <1>7, <2>2
  <1>8. CASE UNCHANGED slidingVars
    BY <1>1, <1>6, <1>8 DEF slidingVars, vars, Unused, Covered, Live
  <1>9. QED
    BY <1>1, <1>3, <1>4, <1>5, <1>7, <1>8 DEF SlidingNext

LEMMA SlidingInvariant == SlidingSpec => []SlidingInv
  BY SlidingInitInv, SlidingStep, PTL DEF SlidingSpec

(***************************************************************************)
(* The record changes nothing about the limiter: its behaviours are those  *)
(* of the limiter, so what is proved of those holds of them.               *)
(***************************************************************************)
THEOREM RecordRefines == SlidingSpec => Spec
  <1>1. SlidingInit => Init
    BY DEF SlidingInit
  <1>2. QED
    BY <1>1, SlidingInvariant, SlidingStep, PTL DEF SlidingSpec, Spec

(***************************************************************************)
(* No stretch of time as long as a window sees more than twice the limit   *)
(* admitted, and the limit again for each reset, whatever the limit and    *)
(* the window (rate_limiter.go:143-172, 220-225).                          *)
(***************************************************************************)
THEOREM AdmissionsBounded == SlidingSpec => []SlidingBound
  <1>1. SlidingInv => SlidingBound
    <2> SUFFICES ASSUME SlidingInv, NEW k \in Watched, NEW a \in Slots,
                        admitted[k][a] > 0
                 PROVE  admitted[k][a] <= Limit * (2 + resets[k][a])
      BY DEF SlidingBound
    <2>1. /\ admitted[k][a] \in Nat /\ resets[k][a] \in Nat
          /\ IF Limit < 0 THEN admitted[k][a] = 0
             ELSE admitted[k][a] + Unused(k)
                    <= Limit * ((IF a < Covered(k) THEN 1 ELSE 2) + resets[k][a])
      BY DEF SlidingInv, RecordsTyped, Budget
    <2>2. Limit \in Nat /\ Unused(k) \in Nat
      BY <2>1, InMemoryAssumption, SlidingAssumption, BudgetTyped DEF SlidingInv
    <2>3. /\ Limit * (1 + resets[k][a]) \in Nat
          /\ Limit * (2 + resets[k][a]) = Limit * (1 + resets[k][a]) + Limit
      BY <2>1, <2>2, OneMoreLimit
    <2>4. \/ admitted[k][a] + Unused(k) <= Limit * (1 + resets[k][a])
          \/ admitted[k][a] + Unused(k) <= Limit * (2 + resets[k][a])
      BY <2>1, <2>2
    <2>5. QED
      BY <2>1, <2>2, <2>3, <2>4
  <1>2. QED
    BY <1>1, SlidingInvariant, PTL
=============================================================================
