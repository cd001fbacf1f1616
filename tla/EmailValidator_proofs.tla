------------------------ MODULE EmailValidator_proofs -----------------------
(***************************************************************************)
(* Proofs about EmailValidator: its state stays well typed, its verdict    *)
(* follows what the zone of the domain held, and the first page of the     *)
(* frontend never refuses what it would accept, for any labels and limits  *)
(* and any number of changes of the zone.                                  *)
(***************************************************************************)
EXTENDS EmailValidator, WellFoundedInduction, TLAPS

(***************************************************************************)
(* VerdictFollowsZone before the verdict: as long as no look-up has failed *)
(* the validation goes on, and when it looks for an address the domain has *)
(* not had a mail server all along.                                        *)
(***************************************************************************)
LookedUp ==
    /\ verdict \in {"mx", "ip", "error_email_unknown_domain"} => ~failed
    /\ verdict \in {"ip", "error_email_unknown_domain"} => "mx" \notin steady
    /\ verdict = "error_email_unknown_domain" => "ip" \notin steady
    /\ verdict = "parse" => ~failed
    /\ verdict = "valid" => seen # {} \/ failed

ValidatorInv == ValidatorTypeOK /\ zone \subseteq seen /\ LookedUp

(***************************************************************************)
(* The invariant holds before the text is parsed.                          *)
(***************************************************************************)
LEMMA InitValidatorInv == ValidatorInit => ValidatorInv
<1> SUFFICES ASSUME ValidatorInit
             PROVE  ValidatorInv
    OBVIOUS
<1>1. ValidatorTypeOK
    <2>1. /\ input \in Input /\ verdict \in Verdicts
          /\ zone \subseteq Records /\ steady \subseteq zone /\ seen \subseteq Records
        BY DEF ValidatorInit, Verdicts
    <2>2. failed \in BOOLEAN
        BY DEF ValidatorInit
    <2>3. zoneChanges \in 0 .. MaxZoneChanges
        BY ValidatorAssumption DEF ValidatorInit
    <2> QED BY <2>1, <2>2, <2>3 DEF ValidatorTypeOK
<1>2. zone \subseteq seen
    BY DEF ValidatorInit
<1>3. LookedUp
    BY DEF ValidatorInit, LookedUp
<1> QED BY <1>1, <1>2, <1>3 DEF ValidatorInv

(***************************************************************************)
(* Parsing, both look-ups and a change of the zone keep it.                *)
(***************************************************************************)
LEMMA NextValidatorInv == ValidatorInv /\ [ValidatorNext]_validatorVars => ValidatorInv'
<1> SUFFICES ASSUME ValidatorInv, [ValidatorNext]_validatorVars
             PROVE  ValidatorInv'
    OBVIOUS
<1>0. /\ input \in Input /\ verdict \in Verdicts
      /\ zone \subseteq Records /\ steady \subseteq zone /\ seen \subseteq Records
      /\ failed \in BOOLEAN /\ zoneChanges \in 0 .. MaxZoneChanges
      /\ zone \subseteq seen /\ LookedUp
    BY DEF ValidatorInv, ValidatorTypeOK
<1>1. CASE Parse
    <2>1. verdict' \in {"mx", "email_required", "error_email_format"}
        BY <1>1 DEF Parse, Refusal
    <2>2. verdict = "parse" /\ UNCHANGED <<input, zone, steady, seen, failed, zoneChanges>>
        BY <1>1 DEF Parse
    <2>3. ValidatorTypeOK'
        BY <1>0, <2>1, <2>2 DEF ValidatorTypeOK, Verdicts
    <2>4. LookedUp'
        BY <1>0, <2>1, <2>2 DEF LookedUp
    <2> QED BY <1>0, <2>2, <2>3, <2>4 DEF ValidatorInv
<1>2. CASE LookupMX \/ LookupIP
    <2>1. /\ verdict' \in Verdicts /\ failed' \in BOOLEAN
          /\ UNCHANGED <<input, zone, steady, seen, zoneChanges>>
        BY <1>0, <1>2 DEF LookupMX, LookupIP, LookUp, OnFailure, Verdicts
    <2>2. ValidatorTypeOK'
        BY <1>0, <2>1 DEF ValidatorTypeOK
    <2>3. \/ verdict' = "valid" /\ zone # {}
          \/ verdict' = "valid" /\ failed'
          \/ verdict = "mx" /\ verdict' = "ip" /\ "mx" \notin zone /\ UNCHANGED failed
          \/ /\ verdict = "ip" /\ verdict' = "error_email_unknown_domain"
             /\ "ip" \notin zone /\ UNCHANGED failed
        BY <1>2 DEF LookupMX, LookupIP, LookUp, OnFailure
    <2>4. LookedUp'
        <3>1. CASE verdict' = "valid"
            BY <1>0, <2>1, <2>3, <3>1 DEF LookedUp
        <3>2. CASE verdict' # "valid"
            BY <1>0, <2>1, <2>3, <3>2 DEF LookedUp
        <3> QED BY <3>1, <3>2
    <2> QED BY <1>0, <2>1, <2>2, <2>4 DEF ValidatorInv
<1>3. CASE ZoneChanges
    <2>1. zoneChanges' \in 0 .. MaxZoneChanges
        BY <1>0, <1>3, ValidatorAssumption DEF ZoneChanges
    <2>2. /\ zone' \subseteq Records /\ steady' = steady \cap zone' /\ seen' = seen \cup zone'
          /\ UNCHANGED <<input, verdict, failed>> /\ verdict \in {"mx", "ip"}
        BY <1>3 DEF ZoneChanges
    <2>3. ValidatorTypeOK'
        BY <1>0, <2>1, <2>2 DEF ValidatorTypeOK
    <2>4. LookedUp'
        BY <1>0, <2>2 DEF LookedUp
    <2> QED BY <2>2, <2>3, <2>4 DEF ValidatorInv
<1>4. CASE UNCHANGED validatorVars
    BY <1>4 DEF validatorVars, ValidatorInv, ValidatorTypeOK, LookedUp
<1> QED BY <1>1, <1>2, <1>3, <1>4 DEF ValidatorNext

-----------------------------------------------------------------------------

(***************************************************************************)
(* The state of a validation stays well typed.                             *)
(***************************************************************************)
THEOREM ValidatorTypeCorrect == ValidatorSpec => []ValidatorTypeOK
<1>1. ValidatorInv => ValidatorTypeOK
    BY DEF ValidatorInv
<1> QED BY <1>1, InitValidatorInv, NextValidatorInv, PTL DEF ValidatorSpec

(***************************************************************************)
(* The invariant says so once there is a verdict.                          *)
(***************************************************************************)
LEMMA VerdictOfLookUps == ValidatorInv => VerdictFollowsZone
BY DEF ValidatorInv, ValidatorTypeOK, LookedUp, VerdictFollowsZone, Records

(***************************************************************************)
(* No domain is refused for want of records that it had all along, or on   *)
(* a look-up that failed (email_validator.go:124-151).                     *)
(***************************************************************************)
THEOREM FollowsZone == ValidatorSpec => []VerdictFollowsZone
BY InitValidatorInv, NextValidatorInv, VerdictOfLookUps, PTL DEF ValidatorSpec

-----------------------------------------------------------------------------
(* Induction over numbers, by the least counterexample, and the sum that   *)
(* Joined takes of the lengths of the labels.                              *)

(***************************************************************************)
(* What holds at 0, and at every number after one at which it holds.       *)
(***************************************************************************)
LEMMA Upward ==
    ASSUME NEW hi \in Nat, NEW S, 0 \in S,
           \A m \in 0 .. (hi - 1) : m \in S => m + 1 \in S
    PROVE  \A m \in 0 .. hi : m \in S
<1> SUFFICES ASSUME NEW m \in 0 .. hi, m \notin S
             PROVE  FALSE
    OBVIOUS
<1> DEFINE T == {n \in 0 .. hi : n \notin S}
<1>1. PICK n \in T : \A k \in T : n <= k
    <2>1. m \in T /\ T \subseteq Nat
        OBVIOUS
    <2> HIDE DEF T
    <2>2. PICK n \in T : \A k \in T : ~ (<<k, n>> \in OpToRel(<, Nat))
        BY <2>1, NatLessThanWellFounded, WFMin, Zenon
    <2>3. \A k \in T : ~ (k < n)
        BY <2>1, <2>2 DEF OpToRel
    <2> QED BY <2>1, <2>3
<1>2. n \in 0 .. hi /\ n \notin S /\ n # 0 /\ n - 1 \in 0 .. (hi - 1)
    OBVIOUS
<1>3. n - 1 \notin T
    BY <1>1, <1>2
<1>4. (n - 1) + 1 \in S
    BY <1>2, <1>3
<1> QED BY <1>2, <1>4

\* The lengths of the first labels together, up to the k-th.
Sums(domain, sum, k) ==
    /\ sum \in [0 .. k -> Nat]
    /\ sum[0] = 0
    /\ \A i \in 1 .. k : sum[i] = sum[i - 1] + domain[i].length

(***************************************************************************)
(* There are such sums, up to any label.                                   *)
(***************************************************************************)
LEMMA SumsExist ==
    ASSUME NEW n \in Nat, NEW domain \in [1 .. n -> Labels]
    PROVE  \E sum : Sums(domain, sum, n)
<1> DEFINE summed == {k \in 0 .. n : \E sum : Sums(domain, sum, k)}
<1>1. 0 \in summed
    <2> DEFINE sum == [i \in 0 .. 0 |-> 0]
    <2>1. Sums(domain, sum, 0)
        BY DEF Sums
    <2> QED BY <2>1
<1>2. \A k \in 0 .. (n - 1) : k \in summed => k + 1 \in summed
    <2> SUFFICES ASSUME NEW k \in 0 .. (n - 1), NEW sum, Sums(domain, sum, k)
                 PROVE  \E more : Sums(domain, more, k + 1)
        OBVIOUS
    <2>1. k \in Nat /\ k + 1 \in 1 .. n /\ sum \in [0 .. k -> Nat]
        BY DEF Sums
    <2>2. sum[k] + domain[k + 1].length \in Nat
        BY <2>1, ValidatorAssumption DEF Label
    <2> DEFINE last == sum[k] + domain[k + 1].length
               more == [i \in 0 .. (k + 1) |-> IF i = k + 1 THEN last ELSE sum[i]]
    <2>3. more[k + 1] = last /\ \A i \in 0 .. k : more[i] = sum[i]
        <3> HIDE DEF last
        <3> QED BY <2>1
    <2>4. more \in [0 .. (k + 1) -> Nat]
        <3> HIDE DEF last
        <3>1. last \in Nat
            BY <2>2 DEF last
        <3> QED BY <2>1, <3>1
    <2> HIDE DEF more
    <2>5. \A i \in 1 .. (k + 1) : more[i] = more[i - 1] + domain[i].length
        <3> SUFFICES ASSUME NEW i \in 1 .. (k + 1)
                     PROVE  more[i] = more[i - 1] + domain[i].length
            OBVIOUS
        <3>1. CASE i = k + 1
            BY <2>1, <2>3, <3>1
        <3>2. CASE i # k + 1
            <4>1. i \in 1 .. k /\ i \in 0 .. k /\ i - 1 \in 0 .. k
                BY <2>1, <3>2
            <4> QED BY <2>3, <4>1 DEF Sums
        <3> QED BY <3>1, <3>2
    <2>6. Sums(domain, more, k + 1)
        BY <2>1, <2>3, <2>4, <2>5 DEF Sums
    <2> QED BY <2>6
<1>3. \A k \in 0 .. n : k \in summed
    <2> HIDE DEF summed
    <2> QED BY <1>1, <1>2, Upward
<1> QED BY <1>3

(***************************************************************************)
(* The recursive function of Joined is such a sum.                         *)
(***************************************************************************)
LEMMA JoinedBySums ==
    ASSUME NEW n \in Nat, NEW domain \in [1 .. n -> Labels], Len(domain) = n
    PROVE  \E sum : /\ Sums(domain, sum, n)
                    /\ \A a, b : Joined(domain, a, b) = sum[b] - sum[a - 1] + (b - a)
<1> DEFINE body(f) == [i \in 0 .. n |-> IF i = 0 THEN 0 ELSE f[i - 1] + domain[i].length]
           upTo == CHOOSE f : f = body(f)
<1>1. \A a, b : Joined(domain, a, b) = upTo[b] - upTo[a - 1] + (b - a)
    BY DEF Joined
<1>2. PICK sum : Sums(domain, sum, n)
    BY SumsExist
<1>3. sum = body(sum)
    BY <1>2 DEF Sums
<1>4. upTo = body(upTo)
    <2> HIDE DEF body
    <2> QED BY <1>3
<1> HIDE DEF upTo
<1> DEFINE same == {k \in 0 .. n : upTo[k] = sum[k]}
<1>5. 0 \in same
    BY <1>2, <1>4 DEF Sums
<1>6. \A k \in 0 .. (n - 1) : k \in same => k + 1 \in same
    <2> SUFFICES ASSUME NEW k \in 0 .. (n - 1), upTo[k] = sum[k]
                 PROVE  upTo[k + 1] = sum[k + 1]
        OBVIOUS
    <2>1. k + 1 \in 1 .. n /\ k + 1 \in 0 .. n /\ k + 1 # 0 /\ (k + 1) - 1 = k
        OBVIOUS
    <2>2. upTo[k + 1] = upTo[k] + domain[k + 1].length
        BY <1>4, <2>1
    <2>3. sum[k + 1] = sum[k] + domain[k + 1].length
        BY <1>2, <2>1 DEF Sums
    <2> QED BY <2>2, <2>3
<1>7. \A k \in 0 .. n : k \in same
    <2> HIDE DEF same
    <2> QED BY <1>5, <1>6, Upward
<1>8. upTo = sum
    <2>1. \A k \in 0 .. n : upTo[k] = sum[k]
        BY <1>7
    <2>2. upTo = [k \in 0 .. n |-> upTo[k]]
        BY <1>4
    <2>3. sum = [k \in 0 .. n |-> sum[k]]
        BY <1>2 DEF Sums
    <2> QED BY <2>1, <2>2, <2>3
<1> QED BY <1>1, <1>2, <1>8

(***************************************************************************)
(* The last dot of a domain the backend accepts is one the page asks for:  *)
(* a top-level domain has two characters, and something comes before it.   *)
(***************************************************************************)
LEMMA SyntaxSuitsPage ==
    ASSUME NEW text \in Input, IsValidDomainSyntax(text.domain), text.form # "spaced"
    PROVE  IsEmailValid(text)
<1> DEFINE domain == text.domain
<1>0. domain \in Domains /\ IsValidDomainSyntax(domain)
    BY DEF Input
<1> HIDE DEF domain
<1>1. PICK n \in 1 .. MaxLabels : domain \in [1 .. n -> Labels]
    BY <1>0 DEF Domains
<1>2. n \in Nat /\ Len(domain) = n /\ DOMAIN domain = 1 .. n
    BY <1>1, ValidatorAssumption
<1>3. /\ n >= 2 /\ domain[n].length >= 2
      /\ \A i \in 1 .. n : domain[i].length \in 1 .. MaxLabel
    BY <1>0, <1>2 DEF IsValidDomainSyntax, TopLevel
<1>4. PICK sum : /\ Sums(domain, sum, n)
                 /\ \A a, b : Joined(domain, a, b) = sum[b] - sum[a - 1] + (b - a)
    BY <1>1, <1>2, JoinedBySums
<1>5. domain[n].length \in Nat /\ domain[n - 1].length \in Nat /\ domain[n - 1].length >= 1
    BY <1>1, <1>2, <1>3, ValidatorAssumption DEF Label
<1>6. /\ sum[0] = 0 /\ sum[n - 2] \in Nat
      /\ sum[n - 1] = sum[n - 2] + domain[n - 1].length
      /\ sum[n] = sum[n - 1] + domain[n].length
    <2>1. n - 2 \in 0 .. n /\ n - 1 \in 1 .. n /\ n \in 1 .. n /\ (n - 1) - 1 = n - 2
        BY <1>2, <1>3
    <2> QED BY <1>4, <2>1 DEF Sums
<1>7. Joined(domain, 1, n - 1) >= 1
    <2>1. Joined(domain, 1, n - 1) = sum[n - 1] - sum[0] + ((n - 1) - 1)
        BY <1>4
    <2> QED BY <1>2, <1>3, <1>5, <1>6, <2>1
<1>8. Joined(domain, (n - 1) + 1, n) >= 2
    <2>1. (n - 1) + 1 = n /\ n - n = 0
        BY <1>2
    <2>2. Joined(domain, n, n) = sum[n] - sum[n - 1] + (n - n)
        BY <1>4
    <2> QED BY <1>3, <1>5, <1>6, <2>1, <2>2
<1>9. n - 1 \in 1 .. (Len(domain) - 1)
    BY <1>2, <1>3
<1> QED BY <1>2, <1>7, <1>8, <1>9 DEF IsEmailValid, domain

(***************************************************************************)
(* PageRefusesOnlySpaced before the look-ups: whoever gets as far as those *)
(* has a domain the backend takes for one.                                 *)
(***************************************************************************)
SyntaxChecked == verdict \in {"mx", "ip", "valid"} => IsValidDomainSyntax(input.domain)

(***************************************************************************)
(* It holds before the text is parsed.                                     *)
(***************************************************************************)
LEMMA InitSyntaxChecked == ValidatorInit => SyntaxChecked
BY DEF ValidatorInit, SyntaxChecked

(***************************************************************************)
(* Only Parse lets a text through to the look-ups.                         *)
(***************************************************************************)
LEMMA NextSyntaxChecked ==
    SyntaxChecked /\ [ValidatorNext]_validatorVars => SyntaxChecked'
<1> SUFFICES ASSUME SyntaxChecked, [ValidatorNext]_validatorVars
             PROVE  SyntaxChecked'
    OBVIOUS
<1>1. input' = input
    BY DEF ValidatorNext, Parse, LookupMX, LookupIP, LookUp, ZoneChanges, validatorVars
<1>2. CASE Parse
    BY <1>1, <1>2 DEF Parse, Refusal, SyntaxChecked
<1>3. CASE LookupMX \/ LookupIP
    BY <1>1, <1>3 DEF LookupMX, LookupIP, LookUp, SyntaxChecked
<1>4. CASE ZoneChanges \/ UNCHANGED validatorVars
    BY <1>1, <1>4 DEF ZoneChanges, validatorVars, SyntaxChecked
<1> QED BY <1>2, <1>3, <1>4 DEF ValidatorNext

(***************************************************************************)
(* With it the page holds back what it says and no more.                   *)
(***************************************************************************)
LEMMA PageFollowsSyntax == ValidatorInv /\ SyntaxChecked => PageRefusesOnlySpaced
<1> SUFFICES ASSUME ValidatorInv, SyntaxChecked, verdict \in {"mx", "ip", "valid"}
             PROVE  IsEmailValid(input) <=> input.form # "spaced"
    BY DEF PageRefusesOnlySpaced
<1>1. input \in Input /\ IsValidDomainSyntax(input.domain)
    BY DEF ValidatorInv, ValidatorTypeOK, SyntaxChecked
<1>2. input.form # "spaced" => IsEmailValid(input)
    BY <1>1, SyntaxSuitsPage
<1>3. IsEmailValid(input) => input.form # "spaced"
    BY DEF IsEmailValid
<1> QED BY <1>2, <1>3

(***************************************************************************)
(* Of what the backend accepts, the first page holds back exactly what has *)
(* white space or another @ around the address, however long the labels    *)
(* and however many they are (frontend/src/pages/Index.tsx:7-12,           *)
(* email_validator.go:81-120).                                             *)
(***************************************************************************)
THEOREM PageFollowsBackend == ValidatorSpec => []PageRefusesOnlySpaced
BY InitValidatorInv, NextValidatorInv, InitSyntaxChecked, NextSyntaxChecked,
   PageFollowsSyntax, PTL DEF ValidatorSpec
=============================================================================
