--------------------------- MODULE TokenGenerator ---------------------------
(***************************************************************************)
(* GenerateToken of backend/internal/core/token_gen.go, draw by draw: how  *)
(* many digits are guaranteed, the digits, the other characters, and the   *)
(* shuffle.  Of a character the class is kept, and the place at which it   *)
(* was drawn.  A draw is a choice among the numbers crypto/rand may give,  *)
(* or fails.                                                               *)
(***************************************************************************)
EXTENDS Integers, Sequences

CONSTANTS
    Length,         \* characters of a code: 6
    MaxDigits       \* the most digits that are guaranteed: 5

MinDigits == 2

ASSUME TokenAssumption ==
    /\ Length \in Nat /\ MaxDigits \in Nat
    /\ MinDigits <= MaxDigits /\ MaxDigits < Length

VARIABLES
    drawing,        \* what is drawn next, or how it ended
    numDigits,      \* digits that are guaranteed
    token,          \* the characters so far, by class
    order,          \* order[x]: where the character now at x was drawn
    index,          \* the loop variable of cryptoShuffle
    draws           \* draws[x]: the number drawn for x in the shuffle, or 0

tokenVars == <<drawing, numDigits, token, order, index, draws>>

Positions == 1 .. Length
Classes == {"digit", "letter"}

TokenTypeOK ==
    /\ drawing \in {"count", "digits", "rest", "shuffle", "done", "failed"}
    /\ numDigits \in 0 .. MaxDigits
    /\ token \in Seq(Classes) /\ Len(token) <= Length
    /\ drawing \in {"shuffle", "done"} => Len(token) = Length
    /\ order \in [Positions -> Positions]
    /\ index \in Positions
    /\ draws \in [Positions -> 0 .. Length]

Unshuffled == [x \in Positions |-> x]

TokenInit ==
    /\ drawing = "count"
    /\ numDigits = 0
    /\ token = <<>>
    /\ order = Unshuffled
    /\ index = Length
    /\ draws = [x \in Positions |-> 0]

\* Mutation of Counts: one too many.
CountsOneMore == MinDigits .. (MaxDigits + 1)

Counts == MinDigits .. MaxDigits

DrawCount ==
    /\ drawing = "count"
    /\ numDigits' \in Counts
    /\ drawing' = "digits"
    /\ UNCHANGED <<token, order, index, draws>>

DrawDigit ==
    /\ drawing = "digits"
    /\ IF Len(token) < numDigits
       THEN token' = Append(token, "digit") /\ UNCHANGED drawing
       ELSE drawing' = "rest" /\ UNCHANGED token
    /\ UNCHANGED <<numDigits, order, index, draws>>

DrawAny ==
    /\ drawing = "rest"
    /\ IF Len(token) < Length
       THEN (\E c \in Classes : token' = Append(token, c)) /\ UNCHANGED drawing
       ELSE drawing' = "shuffle" /\ UNCHANGED token
    /\ UNCHANGED <<numDigits, order, index, draws>>

\* Mutation of Swapped: s[j] = s[i], and then s[i] = s[j] finds what was just
\* written.
SwappedInTurn(s, i, j) == [s EXCEPT ![j] = s[i]]

Swapped(s, i, j) == [s EXCEPT ![i] = s[j], ![j] = s[i]]

\* Mutation of Drawable: any place may be drawn.
DrawableAnywhere(i) == Positions

\* The places the character at i may be swapped with: itself and those before.
Drawable(i) == 1 .. i

Shuffle ==
    /\ drawing = "shuffle"
    /\ IF index > 1
       THEN /\ \E j \in Drawable(index) :
                   /\ token' = Swapped(token, index, j)
                   /\ order' = Swapped(order, index, j)
                   /\ draws' = [draws EXCEPT ![index] = j]
            /\ index' = index - 1
            /\ UNCHANGED drawing
       ELSE drawing' = "done" /\ UNCHANGED <<token, order, index, draws>>
    /\ UNCHANGED numDigits

\* crypto/rand fails.  In the shuffle a token comes back with the error, which
\* the send handler drops.
DrawFails ==
    /\ drawing \in {"count", "digits", "rest", "shuffle"}
    /\ drawing' = "failed"
    /\ UNCHANGED <<numDigits, token, order, index, draws>>

TokenNext == DrawCount \/ DrawDigit \/ DrawAny \/ Shuffle \/ DrawFails

TokenSpec == TokenInit /\ [][TokenNext]_tokenVars

-----------------------------------------------------------------------------

(***************************************************************************)
(* The code of a mail has two digits or more, wherever the shuffle puts    *)
(* them ("Anywhere between 2 and 6 digits", token_gen.go:66-93).           *)
(***************************************************************************)
TwoDigits ==
    drawing = "done" =>
        \E x, y \in Positions : x # y /\ token[x] = "digit" /\ token[y] = "digit"

\* The order that the draws of a shuffle lead to, from the last place down.
Outcome(js) ==
    LET after[i \in 2 .. (Length + 1)] ==
            IF i > Length THEN Unshuffled ELSE Swapped(after[i + 1], i, js[i])
    IN  after[2]

AllDraws == {js \in [Positions -> 0 .. Length] :
                 js[1] = 0 /\ \A i \in 2 .. Length : js[i] \in Drawable(i)}

(***************************************************************************)
(* No order of the characters is likelier than another: each is the        *)
(* outcome of exactly one sequence of draws, and there are as many orders  *)
(* as sequences ("Shuffle to avoid predictable digit positions",           *)
(* token_gen.go:46-57, 92-93).                                             *)
(***************************************************************************)
ShuffleIsFair ==
    drawing = "done" =>
        /\ {order[x] : x \in Positions} = Positions
        /\ {js \in AllDraws : Outcome(js) = order} = {draws}
=============================================================================
