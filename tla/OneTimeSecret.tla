--------------------------- MODULE OneTimeSecret ---------------------------
(***************************************************************************)
(* What the handlers promise of the secrets a mail carries, its code and   *)
(* its link token, whichever backend stores them                           *)
(* (backend/internal/http/handlers.go, backend/internal/core/              *)
(* token_storage.go).                                                      *)
(*                                                                         *)
(* A secret lives once.  Requests that present it while it lives are let   *)
(* in and answered a JWT each at most, and the first answer is its end:    *)
(* whoever comes later finds it gone.                                      *)
(***************************************************************************)
EXTENDS Integers

CONSTANTS
    Secrets,        \* the secrets that are ever drawn
    Requests        \* the requests that may be served at once

VARIABLES
    life,           \* life[s]: whether s is stored yet, still or no more
    holders,        \* holders[s]: the requests let in with s and not answered
    answers         \* answers[s]: JWTs answered on s

vars == <<life, holders, answers>>

Lives == {"unsent", "live", "gone"}

TypeOK ==
    /\ life \in [Secrets -> Lives]
    /\ holders \in [Secrets -> SUBSET Requests]
    /\ answers \in [Secrets -> Nat]

Init ==
    /\ life = [s \in Secrets |-> "unsent"]
    /\ holders = [s \in Secrets |-> {}]
    /\ answers = [s \in Secrets |-> 0]

Store(s) ==
    /\ life[s] = "unsent" /\ life'[s] = "live"
    /\ holders'[s] = holders[s] /\ answers'[s] = answers[s]

\* Request r presents s.
Present(s, r) ==
    /\ life[s] = "live" /\ life'[s] = "live"
    /\ holders'[s] = holders[s] \cup {r} /\ answers'[s] = answers[s]

\* Request r is answered, and s gone by then if it was not before.
Answer(s, r) ==
    /\ r \in holders[s] /\ life'[s] = "gone"
    /\ holders'[s] = holders[s] \ {r} /\ answers'[s] = answers[s] + 1

\* Without an answer s is replaced, expires or is removed, or never gets
\* stored; and requests with it fail.  Or nothing happens to s.
Lapse(s) ==
    /\ life'[s] \in {life[s], "gone"}
    /\ holders'[s] \subseteq holders[s] /\ answers'[s] = answers[s]

\* A step may be of several secrets: a new code replaces the old one, and a
\* code that is removed need not be the one that was presented.
Next ==
    /\ TypeOK'
    /\ \A s \in Secrets :
           Store(s) \/ Lapse(s) \/ \E r \in Requests : Present(s, r) \/ Answer(s, r)

Spec == Init /\ [][Next]_vars
=============================================================================
