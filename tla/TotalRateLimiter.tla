------------------------- MODULE TotalRateLimiter -------------------------
(***************************************************************************)
(* The limiter of a send: a limiter of addresses and one of IPs, asked one *)
(* after the other (TotalRateLimiter, backend/internal/core/               *)
(* rate_limiter.go).  Both are taken by their contract, which either       *)
(* backend implements; the calls of other goroutines, the admin's resets,  *)
(* the clock and failing calls come in between the two.                    *)
(***************************************************************************)
EXTENDS Integers

CONSTANTS
    Procs,          \* goroutines that serve requests
    Emails, IPs,    \* normalised addresses, client IPs
    EmailLimit,     \* app.rate_limit_count["email"], 0 when it is missing
    IPLimit,        \* app.rate_limit_count["ip"]
    Window,         \* the 30 minutes of buildTotalLimiter
    MaxUsed,        \* bound of the model: requests recorded in one window
    MaxFaults       \* bound of the model: calls that fail

ASSUME TotalAssumption ==
    /\ EmailLimit \in Int /\ IPLimit \in Int
    /\ Window \in Nat \ {0}
    /\ MaxUsed \in Nat /\ MaxFaults \in Nat

VARIABLES
    emailUsed, emailAge, emailRefused,  \* the limiter of addresses
    ipUsed, ipAge, ipRefused,           \* the limiter of IPs
    call,       \* call[p]: the call of Allow that goroutine p is in
    mailsTo,    \* history: sends allowed to an address on its open window
    mailsFrom,  \* history: sends allowed to an IP on its open window
    faults      \* calls that failed so far

emailLimiter == <<emailUsed, emailAge, emailRefused>>
ipLimiter == <<ipUsed, ipAge, ipRefused>>
vars == <<emailLimiter, ipLimiter, call, mailsTo, mailsFrom, faults>>

Email == INSTANCE RateLimiter WITH
    Keys <- Emails, Limit <- EmailLimit,
    used <- emailUsed, age <- emailAge, refused <- emailRefused

IP == INSTANCE RateLimiter WITH
    Keys <- IPs, Limit <- IPLimit,
    used <- ipUsed, age <- ipAge, refused <- ipRefused

\* allowed is what the first limiter said, open whether the window in which
\* it counted the call is still open (history).
Call == [step : {"idle", "email", "ip"}, email : Emails, ip : IPs,
         allowed : BOOLEAN, open : BOOLEAN]

TypeOK ==
    /\ Email!TypeOK /\ IP!TypeOK
    /\ call \in [Procs -> Call]
    /\ mailsTo \in [Emails -> Nat]
    /\ mailsFrom \in [IPs -> Nat]
    /\ faults \in 0 .. MaxFaults

Init ==
    /\ Email!Init /\ IP!Init
    /\ call \in [Procs -> {c \in Call : c.step = "idle" /\ ~c.allowed /\ ~c.open}]
    /\ mailsTo = [e \in Emails |-> 0]
    /\ mailsFrom = [i \in IPs |-> 0]
    /\ faults = 0

At(p, step) == call[p].step = step

Ask(p, e, i) ==
    /\ At(p, "idle")
    /\ call' = [call EXCEPT ![p] = [step |-> "email", email |-> e, ip |-> i,
                                    allowed |-> FALSE, open |-> FALSE]]
    /\ UNCHANGED <<emailLimiter, ipLimiter, mailsTo, mailsFrom, faults>>

Return(p) ==
    call' = [call EXCEPT ![p].step = "idle", ![p].allowed = FALSE, ![p].open = FALSE]

CountEmail(e) == emailUsed[e] < MaxUsed /\ Email!Request(e)

CountIP(i) == ipUsed[i] < MaxUsed /\ IP!Request(i)

\* The first limiter answers.  The second is asked whatever it says.
AllowEmail(p) ==
    LET e == call[p].email
    IN  /\ At(p, "email")
        /\ CountEmail(e)
        /\ call' = [call EXCEPT ![p].step = "ip", ![p].open = TRUE,
                                ![p].allowed = e \notin emailRefused']
        /\ UNCHANGED <<ipLimiter, mailsTo, mailsFrom, faults>>

\* Mutation of Verdict: one limiter is enough.
VerdictOfEither(email, ip) == email \/ ip

Verdict(email, ip) == email /\ ip

\* The second limiter answers, and Allow with it.
AllowIP(p) ==
    LET c == call[p]
        allow == Verdict(c.allowed, c.ip \notin ipRefused')
    IN  /\ At(p, "ip")
        /\ CountIP(c.ip)
        /\ mailsTo' = [mailsTo EXCEPT ![c.email] = IF allow /\ c.open THEN @ + 1 ELSE @]
        /\ mailsFrom' = [mailsFrom EXCEPT ![c.ip] = IF allow THEN @ + 1 ELSE @]
        /\ Return(p)
        /\ UNCHANGED <<emailLimiter, faults>>

\* A call to a limiter fails: it has counted the request or not, and is
\* tried again by the Redis client or makes Allow refuse.
Fails(p) ==
    /\ faults < MaxFaults
    /\ faults' = faults + 1
    /\ \/ At(p, "email") /\ CountEmail(call[p].email) /\ UNCHANGED ipLimiter
       \/ At(p, "ip") /\ CountIP(call[p].ip) /\ UNCHANGED emailLimiter
       \/ ~At(p, "idle") /\ UNCHANGED <<emailLimiter, ipLimiter>>
    /\ Return(p) \/ UNCHANGED call
    /\ UNCHANGED <<mailsTo, mailsFrom>>

\* What is charged to windows that end is forgotten with them.
EmailWindowsEnd(ending) ==
    /\ mailsTo' = [e \in Emails |-> IF e \in ending THEN 0 ELSE mailsTo[e]]
    /\ call' = [p \in Procs |->
                   [call[p] EXCEPT !.open = @ /\ call[p].email \notin ending]]

\* Mutation of ResetLimiters: the reset clears the IPs as well.
ResetLimitersBoth(e) ==
    /\ Email!Reset(e)
    /\ ipUsed' = [i \in IPs |-> 0] /\ ipAge' = [i \in IPs |-> 0]
    /\ UNCHANGED ipRefused

ResetLimiters(e) == Email!Reset(e) /\ UNCHANGED ipLimiter

\* POST /api/admin/reset-rate-limit with the admin's token.
ResetEmail(e) ==
    /\ ResetLimiters(e)
    /\ EmailWindowsEnd({e})
    /\ UNCHANGED <<mailsFrom, faults>>

\* Time passes for both limiters.
Elapse(emails, ips) ==
    /\ Email!Elapse(emails) /\ IP!Elapse(ips)
    /\ EmailWindowsEnd(emails)
    /\ mailsFrom' = [i \in IPs |-> IF i \in ips THEN 0 ELSE mailsFrom[i]]
    /\ UNCHANGED faults

Next ==
    \/ \E p \in Procs, e \in Emails, i \in IPs : Ask(p, e, i)
    \/ \E p \in Procs : AllowEmail(p) \/ AllowIP(p) \/ Fails(p)
    \/ \E e \in Emails : ResetEmail(e)
    \/ \E emails \in SUBSET Emails, ips \in SUBSET IPs : Elapse(emails, ips)

Spec == Init /\ [][Next]_vars

-----------------------------------------------------------------------------

(***************************************************************************)
(* On one window of its limiter an address is sent at most EmailLimit      *)
(* mails, from however many IPs, although the send is allowed a step after *)
(* the limiter of the address has spoken (rate_limiter.go:51-64).          *)
(***************************************************************************)
MailsPerAddress == \A e \in Emails : mailsTo[e] > 0 => mailsTo[e] <= EmailLimit

(***************************************************************************)
(* On one window of its limiter an IP sends at most IPLimit mails, however *)
(* often the admin resets the addresses it sends to: "the per-IP limiter   *)
(* is left untouched" (rate_limiter.go:67-72).                             *)
(***************************************************************************)
MailsPerIP == \A i \in IPs : mailsFrom[i] > 0 => mailsFrom[i] <= IPLimit
=============================================================================
