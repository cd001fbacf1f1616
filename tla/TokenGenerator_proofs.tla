------------------------ MODULE TokenGenerator_proofs -----------------------
(***************************************************************************)
(* Proofs about TokenGenerator: its state stays well typed, every code has *)
(* two digits, and the shuffle is fair, for any length and any number of   *)
(* guaranteed digits.                                                      *)
(***************************************************************************)
EXTENDS TokenGenerator, WellFoundedInduction, TLAPS

(***************************************************************************)
(* TwoDigits before the code is done: what is drawn first are digits, two  *)
(* or more of them, and the shuffle moves characters without losing any.   *)
(***************************************************************************)
HasTwoDigits ==
    \E x, y \in DOMAIN token : x # y /\ token[x] = "digit" /\ token[y] = "digit"

DigitsFirst ==
    /\ drawing = "count" => token = <<>>
    /\ drawing = "digits" =>
           /\ numDigits >= MinDigits
           /\ \A x \in DOMAIN token : token[x] = "digit"
    /\ drawing \in {"rest", "shuffle", "done"} => HasTwoDigits

TokenInv == TokenTypeOK /\ DigitsFirst

-----------------------------------------------------------------------------
(* The invariant, draw by draw.                                            *)

(***************************************************************************)
(* The invariant holds before the first draw.                              *)
(***************************************************************************)
LEMMA InitTokenInv == TokenInit => TokenInv
BY TokenAssumption
   DEF TokenInit, TokenInv, TokenTypeOK, DigitsFirst, MinDigits, Positions, Unshuffled, Classes

(***************************************************************************)
(* Drawing the number of digits keeps it.                                  *)
(***************************************************************************)
LEMMA DrawCountInv == TokenInv /\ DrawCount => TokenInv'
BY TokenAssumption
   DEF TokenInv, TokenTypeOK, DigitsFirst, DrawCount, Counts, MinDigits

(***************************************************************************)
(* So does drawing a digit; what ends the loop is that there are enough.   *)
(***************************************************************************)
LEMMA DrawDigitInv == TokenInv /\ DrawDigit => TokenInv'
<1> SUFFICES ASSUME TokenInv, DrawDigit
             PROVE  TokenInv'
    OBVIOUS
<1> USE TokenAssumption DEF TokenInv, TokenTypeOK, MinDigits, Classes
<1>1. CASE Len(token) < numDigits
    <2>1. /\ token' = Append(token, "digit")
          /\ UNCHANGED <<drawing, numDigits, order, index, draws>>
        BY <1>1 DEF DrawDigit
    <2>2. TokenTypeOK'
        BY <1>1, <2>1 DEF DrawDigit
    <2>3. DigitsFirst'
        BY <1>1, <2>1 DEF DrawDigit, DigitsFirst
    <2> QED BY <2>2, <2>3
<1>2. CASE ~(Len(token) < numDigits)
    <2>1. /\ drawing = "digits" /\ drawing' = "rest"
          /\ UNCHANGED <<token, numDigits, order, index, draws>>
        BY <1>2 DEF DrawDigit
    <2>2. numDigits \in Nat /\ Len(token) \in Nat /\ numDigits >= 2 /\ Len(token) >= 2
        BY <1>2, <2>1 DEF DigitsFirst
    <2>3. 1 \in DOMAIN token /\ 2 \in DOMAIN token
        BY <2>2
    <2>4. token'[1] = "digit" /\ token'[2] = "digit"
        BY <2>1, <2>3 DEF DigitsFirst
    <2>5. DigitsFirst'
        BY <2>1, <2>3, <2>4 DEF DigitsFirst, HasTwoDigits
    <2> QED BY <2>1, <2>5
<1> QED BY <1>1, <1>2

(***************************************************************************)
(* So does drawing any character.                                          *)
(***************************************************************************)
LEMMA DrawAnyInv == TokenInv /\ DrawAny => TokenInv'
<1> SUFFICES ASSUME TokenInv, DrawAny
             PROVE  TokenInv'
    OBVIOUS
<1> USE TokenAssumption DEF TokenInv, TokenTypeOK
<1>1. PICK x \in DOMAIN token, y \in DOMAIN token :
          x # y /\ token[x] = "digit" /\ token[y] = "digit"
    BY DEF DrawAny, DigitsFirst, HasTwoDigits
<1>2. CASE Len(token) < Length
    <2>1. PICK c \in Classes : token' = Append(token, c)
        BY <1>2 DEF DrawAny
    <2>2. UNCHANGED <<drawing, numDigits, order, index, draws>> /\ drawing = "rest"
        BY <1>2 DEF DrawAny
    <2>3. TokenTypeOK'
        BY <1>2, <2>1, <2>2
    <2>4. /\ x \in DOMAIN token' /\ y \in DOMAIN token'
          /\ token'[x] = "digit" /\ token'[y] = "digit"
        BY <1>1, <2>1
    <2>5. HasTwoDigits'
        BY <1>1, <2>4 DEF HasTwoDigits
    <2> QED BY <2>2, <2>3, <2>5 DEF DigitsFirst
<1>3. CASE ~(Len(token) < Length)
    <2>1. drawing' = "shuffle" /\ UNCHANGED <<token, numDigits, order, index, draws>>
        BY <1>3 DEF DrawAny
    <2>2. TokenTypeOK'
        BY <1>3, <2>1
    <2>3. HasTwoDigits'
        BY <1>1, <2>1 DEF HasTwoDigits
    <2> QED BY <2>1, <2>2, <2>3 DEF DigitsFirst
<1> QED BY <1>2, <1>3

(***************************************************************************)
(* So does a swap of the shuffle, whose simultaneous assignment            *)
(* (token_gen.go:53) moves two characters and loses neither, and its end.  *)
(***************************************************************************)
LEMMA ShuffleInv == TokenInv /\ Shuffle => TokenInv'
<1> SUFFICES ASSUME TokenInv, Shuffle
             PROVE  TokenInv'
    OBVIOUS
<1>0. /\ token \in Seq(Classes) /\ Len(token) = Length /\ Length \in Nat
    BY TokenAssumption DEF TokenInv, TokenTypeOK, Shuffle
<1>1. /\ Length \in Nat /\ drawing = "shuffle" /\ index \in 1 .. Length
      /\ token \in [1 .. Length -> Classes] /\ token \in Seq(Classes) /\ Len(token) = Length
      /\ order \in [1 .. Length -> 1 .. Length]
      /\ draws \in [1 .. Length -> 0 .. Length]
      /\ numDigits \in 0 .. MaxDigits /\ numDigits' = numDigits
    <2>1. token \in [1 .. Length -> Classes]
        BY <1>0
    <2> QED BY <1>0, <2>1 DEF TokenInv, TokenTypeOK, Positions, Shuffle
<1>2. PICK x \in 1 .. Length, y \in 1 .. Length :
          x # y /\ token[x] = "digit" /\ token[y] = "digit"
    BY <1>1 DEF TokenInv, DigitsFirst, HasTwoDigits
<1>3. CASE index > 1
    <2>1. PICK j \in 1 .. index :
              /\ token' = Swapped(token, index, j)
              /\ order' = Swapped(order, index, j)
              /\ draws' = [draws EXCEPT ![index] = j]
        BY <1>3 DEF Shuffle, Drawable
    <2>2. drawing' = drawing /\ index' = index - 1
        BY <1>3 DEF Shuffle
    <2>3. j \in 1 .. Length
        BY <1>1
    <2>4. token' \in [1 .. Length -> Classes]
        <3>1. Swapped(token, index, j) \in [1 .. Length -> Classes]
            BY <1>1, <2>3 DEF Swapped
        <3> QED BY <2>1, <3>1
    <2>5. token' \in Seq(Classes) /\ Len(token') = Length
        BY <1>1, <2>4
    <2>6. order' \in [1 .. Length -> 1 .. Length]
        <3>1. Swapped(order, index, j) \in [1 .. Length -> 1 .. Length]
            BY <1>1, <2>3 DEF Swapped
        <3> QED BY <2>1, <3>1
    <2>7. draws' \in [1 .. Length -> 0 .. Length] /\ index' \in 1 .. Length
        <3>1. j \in 0 .. Length /\ index' \in 1 .. Length
            BY <1>1, <1>3, <2>2, <2>3
        <3> QED BY <1>1, <2>1, <3>1
    <2>8. TokenTypeOK'
        <3>1. drawing' = "shuffle" /\ numDigits' \in 0 .. MaxDigits /\ Len(token') <= Length
            BY <1>1, <2>2, <2>5
        <3>2. /\ order' \in [Positions -> Positions] /\ index' \in Positions
              /\ draws' \in [Positions -> 0 .. Length]
            BY <2>6, <2>7 DEF Positions
        <3> QED BY <2>5, <3>1, <3>2 DEF TokenTypeOK
    <2> DEFINE moved(z) == IF z = index THEN j ELSE IF z = j THEN index ELSE z
    <2>9. \E v, w \in 1 .. Length : v # w /\ token'[v] = "digit" /\ token'[w] = "digit"
        <3>1. /\ token'[index] = token[j] /\ token'[j] = token[index]
              /\ \A z \in (1 .. Length) \ {index, j} : token'[z] = token[z]
            BY <1>1, <2>1, <2>3 DEF Swapped
        <3>2. \A z \in 1 .. Length : moved(z) \in 1 .. Length /\ token'[moved(z)] = token[z]
            BY <1>1, <2>3, <3>1
        <3>3. moved(x) # moved(y)
            BY <1>2
        <3> HIDE DEF moved
        <3>4. /\ moved(x) \in 1 .. Length /\ moved(y) \in 1 .. Length
              /\ token'[moved(x)] = "digit" /\ token'[moved(y)] = "digit"
            BY <1>2, <3>2
        <3> QED BY <3>3, <3>4
    <2>10. HasTwoDigits'
        BY <2>4, <2>9 DEF HasTwoDigits
    <2> QED BY <1>1, <2>2, <2>8, <2>10 DEF TokenInv, DigitsFirst
<1>4. CASE ~(index > 1)
    <2>1. drawing' = "done" /\ UNCHANGED <<token, order, index, draws>>
        BY <1>4 DEF Shuffle
    <2>2. TokenTypeOK'
        BY <1>1, <2>1 DEF TokenTypeOK, Positions
    <2>3. HasTwoDigits'
        BY <1>1, <1>2, <2>1 DEF HasTwoDigits
    <2> QED BY <2>1, <2>2, <2>3 DEF TokenInv, DigitsFirst
<1> QED BY <1>3, <1>4

(***************************************************************************)
(* So does every step, a failing draw and a stutter included.              *)
(***************************************************************************)
LEMMA NextTokenInv == TokenInv /\ [TokenNext]_tokenVars => TokenInv'
<1> SUFFICES ASSUME TokenInv, [TokenNext]_tokenVars
             PROVE  TokenInv'
    OBVIOUS
<1>1. CASE DrawFails
    BY <1>1 DEF DrawFails, TokenInv, TokenTypeOK, DigitsFirst
<1>2. CASE UNCHANGED tokenVars
    BY <1>2 DEF tokenVars, TokenInv, TokenTypeOK, DigitsFirst, HasTwoDigits
<1> QED BY <1>1, <1>2, DrawCountInv, DrawDigitInv, DrawAnyInv, ShuffleInv DEF TokenNext

-----------------------------------------------------------------------------

(***************************************************************************)
(* The state of a draw stays well typed: no index of the loops is out of   *)
(* the array.                                                              *)
(***************************************************************************)
THEOREM TokenTypeCorrect == TokenSpec => []TokenTypeOK
<1>1. TokenInv => TokenTypeOK
    BY DEF TokenInv
<1> QED BY <1>1, InitTokenInv, NextTokenInv, PTL DEF TokenSpec

(***************************************************************************)
(* The invariant says so once the code is done.                            *)
(***************************************************************************)
LEMMA TwoDigitsWhenDone == TokenInv => TwoDigits
BY DEF TokenInv, TokenTypeOK, DigitsFirst, HasTwoDigits, TwoDigits, Positions

(***************************************************************************)
(* A code has two digits wherever the shuffle has put them                 *)
(* (token_gen.go:66-93), whatever the length of a code.                    *)
(***************************************************************************)
THEOREM DigitsGuaranteed == TokenSpec => []TwoDigits
BY InitTokenInv, NextTokenInv, TwoDigitsWhenDone, PTL DEF TokenSpec

-----------------------------------------------------------------------------
(* Induction over numbers, by the least counterexample.                    *)

\* A set of numbers that is not empty has a least one.
LEMMA LeastNumber ==
    ASSUME NEW T \in SUBSET Nat, T # {}
    PROVE  \E n \in T : \A m \in T : n <= m
<1>1. PICK n \in T : \A m \in T : ~ (<<m, n>> \in OpToRel(<, Nat))
    BY NatLessThanWellFounded, WFMin, Zenon
<1>2. \A m \in T : ~ (m < n)
    BY <1>1 DEF OpToRel
<1> QED BY <1>2

\* What holds at hi, and at every number below as soon as it holds at the next.
LEMMA Downward ==
    ASSUME NEW lo \in Nat, NEW hi \in Nat, NEW S, hi \in S,
           \A m \in lo .. (hi - 1) : m + 1 \in S => m \in S
    PROVE  \A m \in lo .. hi : m \in S
<1> SUFFICES ASSUME NEW m \in lo .. hi, m \notin S
             PROVE  FALSE
    OBVIOUS
<1> DEFINE T == {n \in Nat : hi - n \in lo .. hi /\ hi - n \notin S}
<1>1. hi - m \in T
    OBVIOUS
<1>2. PICK n \in T : \A k \in T : n <= k
    BY <1>1, LeastNumber
<1>3. /\ n \in Nat /\ hi - n \in lo .. hi /\ hi - n \notin S /\ n # 0
      /\ hi - n \in lo .. (hi - 1)
    BY <1>2
<1>4. n - 1 \notin T
    BY <1>2, <1>3
<1>5. (hi - n) + 1 \in S
    BY <1>3, <1>4
<1> QED BY <1>3, <1>5

-----------------------------------------------------------------------------
(* The shuffle as a function of its draws.                                 *)

\* The orders of the characters.
Perms == {s \in [Positions -> Positions] :
            /\ \A x, y \in Positions : s[x] = s[y] => x = y
            /\ \A z \in Positions : \E x \in Positions : s[x] = z}

\* A swap exchanges two places and leaves a permutation one.
LEMMA SwappedPerm ==
    ASSUME NEW s \in Perms, NEW i \in Positions, NEW j \in Positions
    PROVE  /\ Swapped(s, i, j) \in Perms
           /\ Swapped(s, i, j)[i] = s[j]
           /\ Swapped(s, i, j)[j] = s[i]
           /\ \A x \in Positions \ {i, j} : Swapped(s, i, j)[x] = s[x]
<1> DEFINE t == Swapped(s, i, j)
<1>1. s \in [Positions -> Positions]
    BY DEF Perms
<1>2. t \in [Positions -> Positions]
    BY <1>1 DEF Swapped
<1>3. t[i] = s[j] /\ t[j] = s[i] /\ \A x \in Positions \ {i, j} : t[x] = s[x]
    BY <1>1 DEF Swapped
<1> HIDE DEF t
<1>4. \A x, y \in Positions : t[x] = t[y] => x = y
    BY <1>3 DEF Perms
<1>5. ASSUME NEW z \in Positions
      PROVE  \E x \in Positions : t[x] = z
    <2>1. PICK x \in Positions : s[x] = z
        BY DEF Perms
    <2>2. t[IF x = i THEN j ELSE IF x = j THEN i ELSE x] = z
        BY <1>3, <2>1
    <2> QED BY <2>2
<1>6. t \in Perms
    BY <1>2, <1>4, <1>5 DEF Perms
<1> QED BY <1>3, <1>6 DEF t

\* g is the order after each draw of js, from the one for lo up.
Follows(g, js, lo) ==
    /\ g \in [lo .. (Length + 1) -> Perms]
    /\ g[Length + 1] = Unshuffled
    /\ \A i \in lo .. Length : g[i] = Swapped(g[i + 1], i, js[i])

\* The recursive function of Outcome exists, and is the only one of its kind.
LEMMA RecursionHolds ==
    ASSUME NEW js, NEW g, Follows(g, js, 2)
    PROVE  Outcome(js) = g[2]
<1> DEFINE S == 2 .. (Length + 1)
           body(f) == [i \in S |-> IF i > Length THEN Unshuffled
                                   ELSE Swapped(f[i + 1], i, js[i])]
           after == CHOOSE f : f = body(f)
<1>1. Outcome(js) = after[2]
    BY DEF Outcome
<1>2. g = body(g)
    BY TokenAssumption DEF Follows
<1>3. after = body(after)
    <2> HIDE DEF body
    <2> QED BY <1>2
<1> DEFINE same == {i \in S : after[i] = g[i]}
<1> HIDE DEF after
<1>4. Length \in Nat /\ Length >= 2 /\ 2 \in Nat /\ Length + 1 \in Nat
    BY TokenAssumption DEF MinDigits
<1>5. Length + 1 \in same
    BY <1>3, <1>4 DEF Follows
<1>6. \A m \in 2 .. ((Length + 1) - 1) : m + 1 \in same => m \in same
    <2> SUFFICES ASSUME NEW m \in 2 .. Length, m + 1 \in same
                 PROVE  after[m] = g[m]
        BY <1>4
    <2>1. after[m] = Swapped(after[m + 1], m, js[m])
        BY <1>3, <1>4
    <2>2. g[m] = Swapped(g[m + 1], m, js[m])
        BY DEF Follows
    <2> QED BY <2>1, <2>2
<1>7. \A m \in 2 .. (Length + 1) : m \in same
    <2> HIDE DEF same
    <2> QED BY <1>4, <1>5, <1>6, Downward
<1> QED BY <1>1, <1>4, <1>7

\* One more draw, the one for m, follows on.
LEMMA OneMoreDraw ==
    ASSUME NEW js, NEW g, NEW m \in 2 .. Length, Follows(g, js, m + 1),
           js[m] \in Positions
    PROVE  \E h : Follows(h, js, m) /\ h[m] = Swapped(g[m + 1], m, js[m])
<1> DEFINE first == Swapped(g[m + 1], m, js[m])
           h == [i \in m .. (Length + 1) |-> IF i = m THEN first ELSE g[i]]
<1>1. Length \in Nat /\ m \in Nat /\ m \in Positions
    BY TokenAssumption DEF Positions
<1>2. g[m + 1] \in Perms
    BY <1>1 DEF Follows
<1>3. first \in Perms
    BY <1>1, <1>2, SwappedPerm
<1>4. h[m] = first /\ \A i \in (m + 1) .. (Length + 1) : h[i] = g[i]
    <2> HIDE DEF first
    <2>1. m \in m .. (Length + 1)
        BY <1>1
    <2>2. \A i \in (m + 1) .. (Length + 1) : i \in m .. (Length + 1) /\ i # m
        BY <1>1
    <2> QED BY <2>1, <2>2
<1>5. h \in [m .. (Length + 1) -> Perms]
    <2> HIDE DEF first
    <2> QED BY <1>1, <1>3 DEF Follows
<1>6. h[Length + 1] = Unshuffled
    BY <1>1 DEF Follows
<1>7. \A i \in m .. Length : h[i] = Swapped(h[i + 1], i, js[i])
    <2> SUFFICES ASSUME NEW i \in m .. Length
                 PROVE  h[i] = Swapped(h[i + 1], i, js[i])
        OBVIOUS
    <2>1. h[i + 1] = g[i + 1]
        <3> HIDE DEF h
        <3>1. i + 1 \in (m + 1) .. (Length + 1)
            BY <1>1
        <3> QED BY <1>4, <3>1
    <2>2. CASE i = m
        BY <1>4, <2>1, <2>2
    <2>3. CASE i # m
        <3>1. i \in (m + 1) .. Length
            BY <1>1, <2>3
        <3>2. h[i] = g[i]
            <4> HIDE DEF h
            <4>1. i \in (m + 1) .. (Length + 1)
                BY <1>1, <3>1
            <4> QED BY <1>4, <4>1
        <3>3. g[i] = Swapped(g[i + 1], i, js[i])
            BY <3>1 DEF Follows
        <3> QED BY <2>1, <3>2, <3>3
    <2> QED BY <2>2, <2>3
<1> HIDE DEF h
<1>8. Follows(h, js, m) /\ h[m] = first
    BY <1>4, <1>5, <1>6, <1>7 DEF Follows
<1> QED BY <1>8

\* The order in which the characters were drawn is one of them.
LEMMA UnshuffledPerm == Unshuffled \in Perms
BY DEF Unshuffled, Perms

\* Before the first draw there is one order.
LEMMA NoDraw ==
    ASSUME NEW js
    PROVE  \E g : Follows(g, js, Length + 1) /\ g[Length + 1] = Unshuffled
<1> DEFINE g == [i \in (Length + 1) .. (Length + 1) |-> Unshuffled]
<1>1. Follows(g, js, Length + 1) /\ g[Length + 1] = Unshuffled
    BY UnshuffledPerm, TokenAssumption DEF Follows
<1> QED BY <1>1

\* Every sequence of draws has an outcome.
LEMMA EveryShuffleEnds ==
    ASSUME NEW js, \A m \in 2 .. Length : js[m] \in Positions
    PROVE  \E g : Follows(g, js, 2)
<1> DEFINE reached == {m \in 2 .. (Length + 1) : \E g : Follows(g, js, m)}
<1>1. Length \in Nat /\ Length >= 2 /\ 2 \in Nat /\ Length + 1 \in Nat
    BY TokenAssumption DEF MinDigits
<1>2. Length + 1 \in reached
    BY <1>1, NoDraw
<1>3. \A m \in 2 .. ((Length + 1) - 1) : m + 1 \in reached => m \in reached
    <2> SUFFICES ASSUME NEW m \in 2 .. Length, m + 1 \in reached
                 PROVE  \E g : Follows(g, js, m)
        BY <1>1
    <2>1. PICK g : Follows(g, js, m + 1)
        OBVIOUS
    <2>2. js[m] \in Positions
        OBVIOUS
    <2> QED BY <2>1, <2>2, OneMoreDraw
<1>4. 2 \in reached
    <2> HIDE DEF reached
    <2> QED BY <1>1, <1>2, <1>3, Downward
<1> QED BY <1>4

\* The order before the draw for i follows from the draws above i.
LEMMA SameDrawsSameOrder ==
    ASSUME NEW js, NEW ks, NEW g, NEW h, Follows(g, js, 2), Follows(h, ks, 2),
           NEW i \in 2 .. (Length + 1), \A m \in i .. Length : js[m] = ks[m]
    PROVE  g[i] = h[i]
<1> DEFINE same == {m \in i .. (Length + 1) : g[m] = h[m]}
<1>1. Length \in Nat /\ i \in Nat /\ Length + 1 \in Nat /\ i <= Length + 1
    BY TokenAssumption
<1>2. Length + 1 \in same
    BY <1>1 DEF Follows
<1>3. \A m \in i .. ((Length + 1) - 1) : m + 1 \in same => m \in same
    <2> SUFFICES ASSUME NEW m \in i .. Length, m + 1 \in same
                 PROVE  g[m] = h[m]
        BY <1>1
    <2>1. m \in 2 .. Length
        BY <1>1
    <2>2. g[m] = Swapped(g[m + 1], m, js[m]) /\ h[m] = Swapped(h[m + 1], m, ks[m])
        BY <2>1 DEF Follows
    <2> QED BY <2>2
<1>4. \A m \in i .. (Length + 1) : m \in same
    <2> HIDE DEF same
    <2> QED BY <1>1, <1>2, <1>3, Downward
<1> QED BY <1>1, <1>4

\* What the draw for i puts at i stays there: the later draws are for places
\* below i, and none of them is i.
LEMMA Settled ==
    ASSUME NEW js, NEW g, Follows(g, js, 2), NEW i \in 2 .. Length,
           \A m \in 2 .. Length : js[m] \in 1 .. m
    PROVE  g[2][i] = g[i + 1][js[i]]
<1> DEFINE kept == {m \in 2 .. i : g[m][i] = g[i + 1][js[i]]}
<1>1. Length \in Nat /\ i \in Nat /\ i \in Positions /\ 2 <= i /\ i <= Length
    BY TokenAssumption DEF Positions
<1>2. \A m \in 2 .. Length :
          /\ g[m] = Swapped(g[m + 1], m, js[m]) /\ g[m + 1] \in Perms
          /\ m \in Positions /\ js[m] \in Positions
    BY <1>1 DEF Follows, Positions
<1>3. i \in kept
    BY <1>1, <1>2, SwappedPerm
<1>4. \A m \in 2 .. (i - 1) : m + 1 \in kept => m \in kept
    <2> SUFFICES ASSUME NEW m \in 2 .. (i - 1), m + 1 \in kept
                 PROVE  g[m][i] = g[i + 1][js[i]]
        BY <1>1
    <2>1. m \in 2 .. Length /\ i # m /\ i # js[m]
        BY <1>1
    <2>2. /\ g[m] = Swapped(g[m + 1], m, js[m]) /\ g[m + 1] \in Perms
          /\ m \in Positions /\ js[m] \in Positions /\ i \in Positions \ {m, js[m]}
        BY <1>1, <1>2, <2>1
    <2>3. g[m][i] = g[m + 1][i]
        <3>1. ASSUME NEW s \in Perms, NEW j \in Positions, i \notin {m, j}
              PROVE  Swapped(s, m, j)[i] = s[i]
            BY <2>2, <3>1, SwappedPerm
        <3> QED BY <2>2, <3>1
    <2> QED BY <2>3
<1>5. \A m \in 2 .. i : m \in kept
    <2> HIDE DEF kept
    <2>1. 2 \in Nat
        OBVIOUS
    <2> QED BY <1>1, <1>3, <1>4, <2>1, Downward
<1> QED BY <1>1, <1>5

\* No two sequences of draws lead to the same order: look at the first draw
\* in which they differ.
LEMMA OrderTellsDraws ==
    ASSUME NEW js \in AllDraws, NEW ks \in AllDraws, NEW g, NEW h,
           Follows(g, js, 2), Follows(h, ks, 2), g[2] = h[2]
    PROVE  js = ks
<1>1. /\ Length \in Nat
      /\ js \in [Positions -> 0 .. Length] /\ ks \in [Positions -> 0 .. Length]
      /\ js[1] = ks[1]
      /\ \A m \in 2 .. Length : js[m] \in 1 .. m /\ ks[m] \in 1 .. m
    BY TokenAssumption DEF AllDraws, Drawable
<1>2. SUFFICES ASSUME NEW x \in 2 .. Length, js[x] # ks[x]
               PROVE  FALSE
    <2>1. \A x \in Positions : x = 1 \/ x \in 2 .. Length
        BY <1>1 DEF Positions
    <2> QED BY <1>1, <1>2, <2>1
<1>3. PICK i \in 2 .. Length :
          js[i] # ks[i] /\ \A m \in (i + 1) .. Length : js[m] = ks[m]
    <2> DEFINE T == {n \in Nat : Length - n \in 2 .. Length /\ js[Length - n] # ks[Length - n]}
    <2>1. Length - x \in T
        BY <1>1, <1>2
    <2>2. PICK n \in T : \A k \in T : n <= k
        <3>1. T \subseteq Nat
            OBVIOUS
        <3> HIDE DEF T
        <3> QED BY <2>1, <3>1, LeastNumber
    <2>3. Length - n \in 2 .. Length /\ js[Length - n] # ks[Length - n] /\ n \in Nat
        OBVIOUS
    <2>4. \A m \in ((Length - n) + 1) .. Length : js[m] = ks[m]
        <3> SUFFICES ASSUME NEW m \in ((Length - n) + 1) .. Length, js[m] # ks[m]
                     PROVE  FALSE
            OBVIOUS
        <3>1. Length - m \in T /\ Length - m < n
            BY <1>1, <2>3
        <3> QED BY <2>2, <3>1
    <2> QED BY <2>3, <2>4
<1>5. i \in Positions
    BY <1>1 DEF Positions
<1>7. i + 1 \in 2 .. (Length + 1)
    BY <1>1
<1>8. g[i + 1] = h[i + 1]
    BY <1>3, <1>7, SameDrawsSameOrder
<1>9. g[2][i] = g[i + 1][js[i]] /\ h[2][i] = h[i + 1][ks[i]]
    BY <1>1, <1>5, Settled
<1>10. g[i + 1] \in Perms
    BY <1>7 DEF Follows
<1>11. js[i] \in Positions /\ ks[i] \in Positions
    <2>1. i \in Nat /\ i <= Length /\ js[i] \in 1 .. i /\ ks[i] \in 1 .. i
        BY <1>1
    <2> QED BY <1>1, <2>1 DEF Positions
<1> QED BY <1>3, <1>8, <1>9, <1>10, <1>11 DEF Perms

-----------------------------------------------------------------------------
(* The shuffle draw by draw.                                               *)

(***************************************************************************)
(* The order is what the draws so far lead to, and each of them was within *)
(* its range; nothing is noted for the places still to be drawn for.       *)
(***************************************************************************)
ShuffledSoFar ==
    /\ drawing = "done" => index = 1
    /\ order \in Perms
    /\ \A x \in Positions : \/ x > index /\ draws[x] \in 1 .. x
                            \/ x <= index /\ draws[x] = 0
    /\ \E g : Follows(g, draws, index + 1) /\ g[index + 1] = order

(***************************************************************************)
(* It holds before the first draw.                                         *)
(***************************************************************************)
LEMMA InitShuffled == TokenInit => ShuffledSoFar
<1> SUFFICES ASSUME TokenInit
             PROVE  ShuffledSoFar
    OBVIOUS
<1>1. order \in Perms /\ drawing = "count" /\ index = Length /\ order = Unshuffled
    BY UnshuffledPerm DEF TokenInit
<1>2. \A x \in Positions : x <= index /\ draws[x] = 0
    BY TokenAssumption DEF TokenInit, Positions
<1>3. \E g : Follows(g, draws, index + 1) /\ g[index + 1] = order
    BY <1>1, NoDraw
<1> QED BY <1>1, <1>2, <1>3 DEF ShuffledSoFar

(***************************************************************************)
(* A swap of the shuffle adds its draw and its order.                      *)
(***************************************************************************)
LEMMA ShuffleStep == TokenInv /\ ShuffledSoFar /\ Shuffle => ShuffledSoFar'
<1> SUFFICES ASSUME TokenInv, ShuffledSoFar, Shuffle
             PROVE  ShuffledSoFar'
    OBVIOUS
<1>1. /\ Length \in Nat /\ index \in 1 .. Length /\ index \in Positions
      /\ draws \in [Positions -> 0 .. Length]
      /\ order \in Perms
      /\ \A x \in Positions : \/ x > index /\ draws[x] \in 1 .. x
                              \/ x <= index /\ draws[x] = 0
    BY TokenAssumption DEF TokenInv, TokenTypeOK, ShuffledSoFar, Positions
<1>2. PICK g : Follows(g, draws, index + 1) /\ g[index + 1] = order
    BY DEF ShuffledSoFar
<1>3. CASE index > 1
    <2>1. PICK j \in 1 .. index :
              order' = Swapped(order, index, j) /\ draws' = [draws EXCEPT ![index] = j]
        BY <1>3 DEF Shuffle, Drawable
    <2>2. drawing' = "shuffle" /\ index' = index - 1
        BY <1>3 DEF Shuffle
    <2>3. j \in Positions
        BY <1>1 DEF Positions
    <2>4. order' \in Perms
        BY <1>1, <2>1, <2>3, SwappedPerm
    <2>5. draws'[index] = j /\ \A x \in Positions \ {index} : draws'[x] = draws[x]
        BY <1>1, <2>1
    <2>6. \A x \in Positions : \/ x > index' /\ draws'[x] \in 1 .. x
                               \/ x <= index' /\ draws'[x] = 0
        <3> SUFFICES ASSUME NEW x \in Positions
                     PROVE  \/ x > index' /\ draws'[x] \in 1 .. x
                            \/ x <= index' /\ draws'[x] = 0
            OBVIOUS
        <3>1. x \in Nat /\ index \in Nat
            BY <1>1 DEF Positions
        <3>2. CASE x = index
            BY <2>2, <2>5, <3>1, <3>2
        <3>3. CASE x # index
            BY <1>1, <2>2, <2>5, <3>1, <3>3
        <3> QED BY <3>2, <3>3
    <2>7. Follows(g, draws', index + 1)
        <3>1. \A i \in (index + 1) .. Length : i \in Positions \ {index}
            BY <1>1 DEF Positions
        <3>2. \A i \in (index + 1) .. Length : draws'[i] = draws[i]
            BY <2>5, <3>1
        <3> QED BY <1>2, <3>2 DEF Follows
    <2>8. \E h : Follows(h, draws', index) /\ h[index] = order'
        <3>1. index \in 2 .. Length /\ draws'[index] \in Positions
            BY <1>1, <1>3, <2>3, <2>5
        <3>2. PICK h : /\ Follows(h, draws', index)
                       /\ h[index] = Swapped(g[index + 1], index, draws'[index])
            BY <2>7, <3>1, OneMoreDraw
        <3> QED BY <1>2, <2>1, <2>5, <3>2
    <2>9. index' + 1 = index
        BY <1>1, <2>2
    <2> QED BY <2>2, <2>4, <2>6, <2>8, <2>9 DEF ShuffledSoFar
<1>4. CASE ~(index > 1)
    <2>1. UNCHANGED <<order, index, draws>> /\ index = 1
        BY <1>1, <1>4 DEF Shuffle
    <2> QED BY <1>1, <1>2, <2>1 DEF ShuffledSoFar
<1> QED BY <1>3, <1>4

(***************************************************************************)
(* The other steps leave the order and the draws as they are.              *)
(***************************************************************************)
LEMMA NextShuffled ==
    TokenInv /\ ShuffledSoFar /\ [TokenNext]_tokenVars => ShuffledSoFar'
<1> SUFFICES ASSUME TokenInv, ShuffledSoFar, [TokenNext]_tokenVars
             PROVE  ShuffledSoFar'
    OBVIOUS
<1>1. \/ Shuffle
      \/ /\ drawing' = "done" => drawing = "done"
         /\ UNCHANGED <<order, index, draws>>
    BY DEF TokenNext, DrawCount, DrawDigit, DrawAny, DrawFails, tokenVars
<1>2. CASE UNCHANGED <<order, index, draws>> /\ (drawing' = "done" => drawing = "done")
    BY <1>2 DEF ShuffledSoFar
<1> QED BY <1>1, <1>2, ShuffleStep

(***************************************************************************)
(* When the last place is reached, the draws noted are the only sequence   *)
(* that leads to the order.                                                *)
(***************************************************************************)
LEMMA FairWhenDone == TokenInv /\ ShuffledSoFar => ShuffleIsFair
<1> SUFFICES ASSUME TokenInv, ShuffledSoFar, drawing = "done"
             PROVE  /\ {order[x] : x \in Positions} = Positions
                    /\ {js \in AllDraws : Outcome(js) = order} = {draws}
    BY DEF ShuffleIsFair
<1>1. /\ index = 1 /\ order \in Perms /\ draws \in [Positions -> 0 .. Length]
      /\ \A x \in Positions : \/ x > 1 /\ draws[x] \in 1 .. x
                              \/ x <= 1 /\ draws[x] = 0
    BY DEF TokenInv, TokenTypeOK, ShuffledSoFar
<1>2. PICK g : Follows(g, draws, 2) /\ g[2] = order
    <2>1. index + 1 = 2
        BY <1>1
    <2> QED BY <2>1 DEF ShuffledSoFar
<1>3. {order[x] : x \in Positions} = Positions
    BY <1>1 DEF Perms
<1>4. draws \in AllDraws
    <2>1. 1 \in Positions /\ \A m \in 2 .. Length : m \in Positions /\ m > 1
        BY TokenAssumption DEF Positions, MinDigits
    <2> QED BY <1>1, <2>1 DEF AllDraws, Drawable
<1>5. Outcome(draws) = order
    BY <1>2, RecursionHolds
<1>6. ASSUME NEW js \in AllDraws, Outcome(js) = order
      PROVE  js = draws
    <2>1. \A m \in 2 .. Length : js[m] \in Positions
        BY TokenAssumption DEF AllDraws, Drawable, Positions
    <2>2. PICK h : Follows(h, js, 2)
        BY <2>1, EveryShuffleEnds
    <2>3. h[2] = g[2]
        BY <1>2, <1>6, <2>2, RecursionHolds
    <2> QED BY <1>2, <1>4, <2>2, <2>3, OrderTellsDraws
<1> QED BY <1>3, <1>4, <1>5, <1>6

(***************************************************************************)
(* No order of the characters is likelier than another, whatever the       *)
(* length of a code: the order is a permutation, and of all sequences of   *)
(* draws only the one that was drawn leads to it (token_gen.go:46-57).     *)
(***************************************************************************)
THEOREM Fair == TokenSpec => []ShuffleIsFair
BY InitTokenInv, NextTokenInv, InitShuffled, NextShuffled, FairWhenDone, PTL DEF TokenSpec
=============================================================================
