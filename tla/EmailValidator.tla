--------------------------- MODULE EmailValidator ---------------------------
(***************************************************************************)
(* ParseAndValidateEmailAddress of backend/internal/validators/            *)
(* email_validator.go: the checks of the text, then up to two DNS look-ups,*)
(* while the zone of the domain may change and look-ups may fail.  And the *)
(* regular expression with which the first page of the frontend judges the *)
(* same text before it is ever sent.                                       *)
(***************************************************************************)
EXTENDS Integers, Sequences

CONSTANTS
    Labels,         \* the labels of domains
    MaxLabels,      \* bound of the model: labels in a domain
    MaxLabel,       \* the longest label: 63
    MaxDomain,      \* the longest domain: 253
    MaxZoneChanges  \* bound of the model: changes of the zone

\* What decides about a label: its length, its characters, its ends.
Label == [length : Nat, chars : SUBSET {"letter", "digit", "hyphen", "other"},
          hyphenAtEnd : BOOLEAN]

ASSUME ValidatorAssumption ==
    /\ Labels \subseteq Label
    /\ MaxLabels \in Nat /\ MaxLabel \in Nat /\ MaxDomain \in Nat
    /\ MaxZoneChanges \in Nat

VARIABLES
    input,          \* the text to be validated
    verdict,        \* the step the validation is at, or what it answered
    zone,           \* the kinds of records the domain has
    steady, seen,   \* history: kinds it has had all along, and at some time
    failed,         \* history: a look-up failed
    zoneChanges     \* changes of the zone so far

validatorVars == <<input, verdict, zone, steady, seen, failed, zoneChanges>>

Records == {"mx", "ip"}

\* "special" has a quote or a square bracket, "malformed" is not RFC 5322.  What
\* parses is "bare", just local@domain, or "wrapped", as <local@domain> is, or
\* "spaced", with white space or another @ around it: "John Doe <...>", padding.
Addressed == {"bare", "wrapped", "spaced"}
Forms == {"empty", "special", "malformed"} \cup Addressed

Domains == UNION {[1 .. n -> Labels] : n \in 1 .. MaxLabels}

Input == [form : Forms, domain : Domains]

Verdicts == {"parse", "mx", "ip", "valid", "email_required",
             "error_email_format", "error_email_unknown_domain"}

ValidatorTypeOK ==
    /\ input \in Input
    /\ verdict \in Verdicts
    /\ zone \subseteq Records /\ steady \subseteq zone /\ seen \subseteq Records
    /\ failed \in BOOLEAN
    /\ zoneChanges \in 0 .. MaxZoneChanges

ValidatorInit ==
    /\ input \in Input
    /\ verdict = "parse"
    /\ zone \in SUBSET Records
    /\ steady = zone /\ seen = zone
    /\ failed = FALSE
    /\ zoneChanges = 0

\* The length of labels a to b with the dots between them.
Joined(domain, a, b) ==
    LET upTo[i \in 0 .. Len(domain)] ==
            IF i = 0 THEN 0 ELSE upTo[i - 1] + domain[i].length
    IN  upTo[b] - upTo[a - 1] + (b - a)

\* Mutation of TopLevel: a TLD may have a single character.
TopLevelOfAnyLength(label) == label.chars # {"digit"}

TopLevel(label) == label.length >= 2 /\ label.chars # {"digit"}

IsValidDomainSyntax(domain) ==
    /\ Len(domain) >= 2
    /\ Joined(domain, 1, Len(domain)) <= MaxDomain
    /\ \A i \in DOMAIN domain :
           /\ domain[i].length \in 1 .. MaxLabel
           /\ ~domain[i].hyphenAtEnd
           /\ "other" \notin domain[i].chars
    /\ TopLevel(domain[Len(domain)])

Refusal(text) ==
    IF text.form = "empty" THEN "email_required" ELSE "error_email_format"

Parse ==
    /\ verdict = "parse"
    /\ verdict' = IF input.form \in Addressed /\ IsValidDomainSyntax(input.domain)
                  THEN "mx" ELSE Refusal(input)
    /\ UNCHANGED <<input, zone, steady, seen, failed, zoneChanges>>

\* Mutation of OnFailure: a look-up that fails counts as one without records.
OnFailureClosed(next) == next

\* A transient failure fails open.
OnFailure(next) == "valid"

\* A look-up of one kind of record; next is what no records lead to.
LookUp(kind, next) ==
    /\ verdict = kind
    /\ \/ verdict' = (IF kind \in zone THEN "valid" ELSE next) /\ UNCHANGED failed
       \/ verdict' = OnFailure(next) /\ failed' = TRUE
    /\ UNCHANGED <<input, zone, steady, seen, zoneChanges>>

LookupMX == LookUp("mx", "ip")

LookupIP == LookUp("ip", "error_email_unknown_domain")

\* Records come and go while the domain is looked up.
ZoneChanges ==
    /\ verdict \in {"mx", "ip"}
    /\ zoneChanges < MaxZoneChanges
    /\ zoneChanges' = zoneChanges + 1
    /\ zone' \in SUBSET Records
    /\ steady' = steady \cap zone'
    /\ seen' = seen \cup zone'
    /\ UNCHANGED <<input, verdict, failed>>

ValidatorNext == Parse \/ LookupMX \/ LookupIP \/ ZoneChanges

ValidatorSpec == ValidatorInit /\ [][ValidatorNext]_validatorVars

-----------------------------------------------------------------------------

(***************************************************************************)
(* An address is refused for its domain only if every look-up was answered *)
(* and there is no record that has been there all along; it is accepted    *)
(* only if a record was seen or a look-up failed.  "Transient DNS failures *)
(* [...] fail open so legitimate users are never blocked"                  *)
(* (email_validator.go:124-151).                                           *)
(***************************************************************************)
VerdictFollowsZone ==
    /\ verdict = "error_email_unknown_domain" => steady = {} /\ ~failed
    /\ verdict = "valid" => seen # {} \/ failed

\* The expression of pages/Index.tsx, on a text that parses: no white space, one
\* @, and behind it a dot with one character or more before it and two or more
\* behind it, up to the end of the text; wrapped, the domain is not the end.
IsEmailValid(text) ==
    /\ text.form # "spaced"
    /\ \E k \in 1 .. (Len(text.domain) - 1) :
           /\ Joined(text.domain, 1, k) >= 1
           /\ \/ Joined(text.domain, k + 1, Len(text.domain)) >= 2
              \/ text.form = "wrapped"

(***************************************************************************)
(* Of what the backend accepts, the first page holds back the texts with   *)
(* white space or another @ around the address, "John Doe <...>" among     *)
(* them, which the backend promises to take (email_validator.go:30, and    *)
(* its test, lines 57-63), and nothing else: neither its length nor its    *)
(* top-level domain costs an address the page (Index.tsx:7-12,             *)
(* email_validator.go:81-120).                                             *)
(***************************************************************************)
PageRefusesOnlySpaced ==
    verdict \in {"mx", "ip", "valid"} => (IsEmailValid(input) <=> input.form # "spaced")
=============================================================================
