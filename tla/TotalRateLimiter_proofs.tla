---------------------- MODULE TotalRateLimiter_proofs ----------------------
(***************************************************************************)
(* Proofs about the two limiters of a send, for any number of goroutines,  *)
(* addresses and IPs and any limits.                                       *)
(***************************************************************************)
EXTENDS TotalRateLimiter, FiniteSetTheorems, TLAPS

(***************************************************************************)
(* MailsPerIP with the window's count: what an IP was allowed was recorded *)
(* in its limiter before.                                                  *)
(***************************************************************************)
IPCharged ==
    \A i \in IPs : /\ mailsFrom[i] <= ipUsed[i]
                   /\ mailsFrom[i] > 0 => mailsFrom[i] <= IPLimit

IInv == TypeOK /\ IPCharged

LEMMA IInvMailsPerIP == IInv => MailsPerIP
  BY DEF IInv, IPCharged, MailsPerIP

LEMMA InitIInv == Init => IInv
  BY TotalAssumption
     DEF Init, IInv, IPCharged, TypeOK, Call, Email!Init, IP!Init, Email!TypeOK, IP!TypeOK

-----------------------------------------------------------------------------
(* Type correctness, one variable after the other.                         *)

LEMMA EmailTyped == TypeOK /\ [Next]_vars => Email!TypeOK'
  <1> SUFFICES ASSUME TypeOK, [Next]_vars
               PROVE  Email!TypeOK'
    OBVIOUS
  <1> USE TotalAssumption DEF TypeOK, Email!TypeOK
  <1>1. ASSUME NEW e \in Emails, CountEmail(e)
        PROVE  Email!TypeOK'
    BY <1>1 DEF CountEmail, Email!Request
  <1>2. ASSUME NEW e \in Emails, Email!Reset(e)
        PROVE  Email!TypeOK'
    BY <1>2 DEF Email!Reset
  <1>3. ASSUME NEW emails \in SUBSET Emails, Email!Elapse(emails)
        PROVE  Email!TypeOK'
    BY <1>3 DEF Email!Elapse, Email!Older
  <1>4. ASSUME UNCHANGED emailLimiter
        PROVE  Email!TypeOK'
    BY <1>4 DEF emailLimiter
  <1>5. \A p \in Procs : call[p].email \in Emails
    BY DEF Call
  <1> HIDE DEF TypeOK, Email!TypeOK
  <1>6. QED
    BY <1>1, <1>2, <1>3, <1>4, <1>5
       DEF Next, Ask, AllowEmail, AllowIP, Fails, ResetEmail, ResetLimiters, Elapse, vars

LEMMA IPTyped == TypeOK /\ [Next]_vars => IP!TypeOK'
  <1> SUFFICES ASSUME TypeOK, [Next]_vars
               PROVE  IP!TypeOK'
    OBVIOUS
  <1> USE TotalAssumption DEF TypeOK, IP!TypeOK
  <1>1. ASSUME NEW i \in IPs, CountIP(i)
        PROVE  IP!TypeOK'
    BY <1>1 DEF CountIP, IP!Request
  <1>2. ASSUME NEW ips \in SUBSET IPs, IP!Elapse(ips)
        PROVE  IP!TypeOK'
    BY <1>2 DEF IP!Elapse, IP!Older
  <1>3. ASSUME UNCHANGED ipLimiter
        PROVE  IP!TypeOK'
    BY <1>3 DEF ipLimiter
  <1>4. \A p \in Procs : call[p].ip \in IPs
    BY DEF Call
  <1> HIDE DEF TypeOK, IP!TypeOK
  <1>5. QED
    BY <1>1, <1>2, <1>3, <1>4
       DEF Next, Ask, AllowEmail, AllowIP, Fails, ResetEmail, ResetLimiters, Elapse, vars

LEMMA CallTyped == TypeOK /\ [Next]_vars => call' \in [Procs -> Call]
  <1> SUFFICES ASSUME TypeOK, [Next]_vars
               PROVE  call' \in [Procs -> Call]
    OBVIOUS
  <1>1. call \in [Procs -> Call]
    BY DEF TypeOK
  <1>2. ASSUME NEW p \in Procs, NEW e \in Emails, NEW i \in IPs, Ask(p, e, i)
        PROVE  call' \in [Procs -> Call]
    BY <1>1, <1>2 DEF Ask, Call
  <1>3. ASSUME NEW p \in Procs, AllowEmail(p)
        PROVE  call' \in [Procs -> Call]
    <2>1. PICK b \in BOOLEAN : b = (call[p].email \notin emailRefused')
      OBVIOUS
    <2>2. call' = [call EXCEPT ![p].step = "ip", ![p].open = TRUE, ![p].allowed = b]
      BY <1>3, <2>1 DEF AllowEmail
    <2>3. QED
      BY <1>1, <2>2 DEF Call
  <1>4. ASSUME NEW p \in Procs, Return(p)
        PROVE  call' \in [Procs -> Call]
    <2>1. call' = [call EXCEPT ![p] = [call[p] EXCEPT !.step = "idle", !.allowed = FALSE,
                                                      !.open = FALSE]]
      BY <1>1, <1>4 DEF Return, Call
    <2>2. call[p] \in Call
      BY <1>1
    <2>3. [call[p] EXCEPT !.step = "idle", !.allowed = FALSE, !.open = FALSE] \in Call
      BY <2>2 DEF Call
    <2>4. QED
      BY <1>1, <2>1, <2>3
  <1>5. ASSUME NEW ending, EmailWindowsEnd(ending)
        PROVE  call' \in [Procs -> Call]
    <2>1. ASSUME NEW p \in Procs
          PROVE  [call[p] EXCEPT !.open = @ /\ call[p].email \notin ending] \in Call
      <3>1. PICK b \in BOOLEAN : b = (call[p].open /\ call[p].email \notin ending)
        OBVIOUS
      <3>2. [call[p] EXCEPT !.open = b] \in Call
        BY <1>1 DEF Call
      <3>3. QED
        BY <3>1, <3>2
    <2>2. QED
      BY <1>5, <2>1 DEF EmailWindowsEnd
  <1>6. QED
    BY <1>1, <1>2, <1>3, <1>4, <1>5
       DEF Next, AllowIP, Fails, ResetEmail, Elapse, vars

LEMMA HistoryTyped ==
    TypeOK /\ [Next]_vars => /\ mailsTo' \in [Emails -> Nat]
                             /\ mailsFrom' \in [IPs -> Nat]
                             /\ faults' \in 0 .. MaxFaults
  <1> SUFFICES ASSUME TypeOK, [Next]_vars
               PROVE  /\ mailsTo' \in [Emails -> Nat]
                      /\ mailsFrom' \in [IPs -> Nat]
                      /\ faults' \in 0 .. MaxFaults
    OBVIOUS
  <1>1. /\ mailsTo \in [Emails -> Nat] /\ mailsFrom \in [IPs -> Nat]
        /\ faults \in 0 .. MaxFaults /\ MaxFaults \in Nat
    BY TotalAssumption DEF TypeOK
  <1>2. ASSUME NEW p \in Procs, AllowIP(p)
        PROVE  mailsTo' \in [Emails -> Nat] /\ mailsFrom' \in [IPs -> Nat] /\ faults' = faults
    <2>1. PICK e \in Emails, i \in IPs : e = call[p].email /\ i = call[p].ip
      BY DEF TypeOK, Call
    <2>2. mailsTo' = mailsTo \/ mailsTo' = [mailsTo EXCEPT ![e] = @ + 1]
      BY <1>1, <1>2, <2>1 DEF AllowIP
    <2>3. mailsFrom' = mailsFrom \/ mailsFrom' = [mailsFrom EXCEPT ![i] = @ + 1]
      BY <1>1, <1>2, <2>1 DEF AllowIP
    <2>4. faults' = faults
      BY <1>2 DEF AllowIP
    <2>5. QED
      BY <1>1, <2>2, <2>3, <2>4
  <1>3. ASSUME NEW p \in Procs, Fails(p)
        PROVE  UNCHANGED <<mailsTo, mailsFrom>> /\ faults' \in 0 .. MaxFaults
    BY <1>1, <1>3 DEF Fails
  <1>4. ASSUME NEW e \in Emails, ResetEmail(e)
        PROVE  mailsTo' \in [Emails -> Nat] /\ UNCHANGED <<mailsFrom, faults>>
    BY <1>1, <1>4 DEF ResetEmail, EmailWindowsEnd
  <1>5. ASSUME NEW emails \in SUBSET Emails, NEW ips \in SUBSET IPs, Elapse(emails, ips)
        PROVE  mailsTo' \in [Emails -> Nat] /\ mailsFrom' \in [IPs -> Nat] /\ faults' = faults
    BY <1>1, <1>5 DEF Elapse, EmailWindowsEnd
  <1>6. QED
    BY <1>1, <1>2, <1>3, <1>4, <1>5 DEF Next, Ask, AllowEmail, vars

LEMMA NextTypeOK == TypeOK /\ [Next]_vars => TypeOK'
  BY EmailTyped, IPTyped, CallTyped, HistoryTyped DEF TypeOK

(***************************************************************************)
(* The calls and the limiters stay well typed.                             *)
(***************************************************************************)
THEOREM TypeCorrect == Spec => []TypeOK
  <1>1. Init => TypeOK
    BY InitIInv DEF IInv
  <1>2. QED
    BY <1>1, NextTypeOK, PTL DEF Spec

-----------------------------------------------------------------------------

LEMMA NextIPCharged == IInv /\ [Next]_vars => IPCharged'
  <1> SUFFICES ASSUME IInv, [Next]_vars
               PROVE  IPCharged'
    OBVIOUS
  <1>1. /\ ipUsed \in [IPs -> Nat] /\ mailsFrom \in [IPs -> Nat]
        /\ IPCharged /\ IPLimit \in Int
    BY TotalAssumption DEF IInv, TypeOK, IP!TypeOK
  <1>2. ASSUME NEW i \in IPs, CountIP(i), mailsFrom' = mailsFrom
        PROVE  IPCharged'
    BY <1>1, <1>2 DEF IPCharged, CountIP, IP!Request
  <1>3. ASSUME NEW p \in Procs, AllowIP(p)
        PROVE  IPCharged'
    <2>1. PICK i \in IPs : i = call[p].ip
      BY DEF IInv, TypeOK, Call
    <2>2. ipUsed' = [ipUsed EXCEPT ![i] = @ + 1]
      BY <1>3, <2>1 DEF AllowIP, CountIP, IP!Request
    <2>3. mailsFrom' = mailsFrom \/ mailsFrom' = [mailsFrom EXCEPT ![i] = @ + 1]
      BY <1>1, <1>3, <2>1 DEF AllowIP
    <2>4. CASE i \in ipRefused'
      <3>1. mailsFrom' = mailsFrom
        BY <1>1, <1>3, <2>1, <2>4 DEF AllowIP, Verdict
      <3>2. QED
        BY <1>1, <2>2, <3>1 DEF IPCharged
    <2>5. CASE i \notin ipRefused'
      <3>1. ipUsed[i] < IPLimit
        BY <1>3, <2>1, <2>5 DEF AllowIP, CountIP, IP!Request
      <3>2. QED
        BY <1>1, <2>2, <2>3, <3>1 DEF IPCharged
    <2>6. QED
      BY <2>4, <2>5
  <1>4. ASSUME NEW emails, NEW ips \in SUBSET IPs, Elapse(emails, ips)
        PROVE  IPCharged'
    BY <1>1, <1>4 DEF IPCharged, Elapse, IP!Elapse
  <1>5. ASSUME UNCHANGED <<ipUsed, mailsFrom>>
        PROVE  IPCharged'
    BY <1>1, <1>5 DEF IPCharged
  <1>6. ASSUME NEW p \in Procs, Fails(p)
        PROVE  IPCharged'
    <2>1. call[p].ip \in IPs
      BY DEF IInv, TypeOK, Call
    <2>2. QED
      BY <1>2, <1>5, <1>6, <2>1 DEF Fails, ipLimiter
  <1>7. QED
    BY <1>3, <1>4, <1>5, <1>6
       DEF Next, Ask, AllowEmail, ResetEmail, ResetLimiters, ipLimiter, vars

(***************************************************************************)
(* An IP sends at most IPLimit mails on one window, however the calls, the *)
(* failures and the admin's resets are interleaved.                        *)
(***************************************************************************)
THEOREM BudgetOfIP == Spec => []MailsPerIP
  <1>1. IInv /\ [Next]_vars => IInv'
    BY NextTypeOK, NextIPCharged DEF IInv
  <1>2. QED
    BY <1>1, InitIInv, IInvMailsPerIP, PTL DEF Spec

-----------------------------------------------------------------------------

\* The calls the first limiter has allowed on the open window of e.
Pending(e) ==
    {p \in Procs : At(p, "ip") /\ call[p].email = e /\ call[p].allowed /\ call[p].open}

Charged(e) == mailsTo[e] + Cardinality(Pending(e))

(***************************************************************************)
(* MailsPerAddress before the second answer: what an address is sent and   *)
(* may yet be sent on a window was recorded in its limiter before.         *)
(***************************************************************************)
EmailCharged ==
    \A e \in Emails : /\ IsFiniteSet(Pending(e))
                      /\ Charged(e) <= emailUsed[e]
                      /\ Charged(e) > 0 => Charged(e) <= EmailLimit

\* No call is pending at first.
LEMMA InitEmailCharged == Init => EmailCharged
  <1> SUFFICES ASSUME Init, NEW e \in Emails
               PROVE  /\ IsFiniteSet(Pending(e))
                      /\ Charged(e) <= emailUsed[e]
                      /\ Charged(e) > 0 => Charged(e) <= EmailLimit
    BY DEF EmailCharged
  <1>1. \A p \in Procs : call[p].step = "idle"
    BY DEF Init
  <1>2. Pending(e) = {}
    BY <1>1 DEF Pending, At
  <1>3. mailsTo[e] = 0 /\ emailUsed[e] = 0
    BY DEF Init, Email!Init
  <1>4. QED
    BY <1>2, <1>3, FS_EmptySet DEF Charged

\* A call becomes pending with a request its limiter has recorded, and ends
\* with at most one mail.
LEMMA NextEmailCharged == TypeOK /\ EmailCharged /\ [Next]_vars => EmailCharged'
  <1> SUFFICES ASSUME TypeOK, EmailCharged, [Next]_vars, NEW e \in Emails
               PROVE  /\ IsFiniteSet(Pending(e)')
                      /\ Charged(e)' <= emailUsed'[e]
                      /\ Charged(e)' > 0 => Charged(e)' <= EmailLimit
    BY DEF EmailCharged
  <1> DEFINE Kept == /\ IsFiniteSet(Pending(e)')
                     /\ Charged(e)' <= emailUsed'[e]
                     /\ Charged(e)' > 0 => Charged(e)' <= EmailLimit
  <1>1. /\ call \in [Procs -> Call] /\ \A p \in Procs : call[p].email \in Emails
        /\ mailsTo \in [Emails -> Nat] /\ emailUsed \in [Emails -> Nat] /\ EmailLimit \in Int
    BY TotalAssumption DEF TypeOK, Email!TypeOK, Call
  <1>2. /\ IsFiniteSet(Pending(e)) /\ Cardinality(Pending(e)) \in Nat
        /\ mailsTo[e] + Cardinality(Pending(e)) <= emailUsed[e]
        /\ mailsTo[e] + Cardinality(Pending(e)) > 0 =>
               mailsTo[e] + Cardinality(Pending(e)) <= EmailLimit
    BY FS_CardinalityType DEF EmailCharged, Charged
  <1>3. mailsTo' \in [Emails -> Nat] /\ emailUsed' \in [Emails -> Nat]
    BY HistoryTyped, EmailTyped DEF Email!TypeOK
  <1>a. ASSUME Pending(e)' \subseteq Pending(e), mailsTo'[e] = mailsTo[e],
               emailUsed'[e] >= emailUsed[e]
        PROVE  Kept
    <2>1. IsFiniteSet(Pending(e)') /\ Cardinality(Pending(e)') <= Cardinality(Pending(e))
      BY <1>2, <1>a, FS_Subset
    <2>2. Cardinality(Pending(e)') \in Nat
      BY <2>1, FS_CardinalityType
    <2>3. Charged(e)' = mailsTo'[e] + Cardinality(Pending(e)')
      BY DEF Charged
    <2>4. QED
      BY <1>1, <1>2, <1>3, <1>a, <2>1, <2>2, <2>3
  <1>b. ASSUME NEW emails, EmailWindowsEnd(emails), e \in emails
        PROVE  Kept
    <2>1. Pending(e)' = {}
      <3>1. ASSUME NEW p \in Procs, call'[p].email = e, call'[p].open
            PROVE  FALSE
        <4>1. call'[p] = [call[p] EXCEPT !.open = @ /\ call[p].email \notin emails]
          BY <3>1, <1>b DEF EmailWindowsEnd
        <4>2. call[p] \in Call
          BY <1>1
        <4>3. call'[p].email = call[p].email
          BY <4>1, <4>2 DEF Call
        <4>4. call'[p].open = (call[p].open /\ call[p].email \notin emails)
          BY <4>1, <4>2 DEF Call
        <4>5. QED
          BY <1>b, <3>1, <4>3, <4>4
      <3>2. QED
        BY <3>1 DEF Pending
    <2>2. mailsTo'[e] = 0
      BY <1>b DEF EmailWindowsEnd
    <2>3. Charged(e)' = mailsTo'[e] + Cardinality(Pending(e)')
      BY DEF Charged
    <2>4. QED
      BY <1>3, <2>1, <2>2, <2>3, FS_EmptySet
  <1>c. ASSUME NEW emails, EmailWindowsEnd(emails), e \notin emails, emailUsed'[e] = emailUsed[e]
        PROVE  Kept
    <2>1. Pending(e)' \subseteq Pending(e)
      <3>1. ASSUME NEW p \in Procs
            PROVE  /\ call'[p].email = call[p].email /\ call'[p].step = call[p].step
                   /\ call'[p].allowed = call[p].allowed
                   /\ call'[p].open => call[p].open
        <4>1. call'[p] = [call[p] EXCEPT !.open = @ /\ call[p].email \notin emails]
          BY <1>c DEF EmailWindowsEnd
        <4>2. call[p] \in Call
          BY <1>1
        <4>3. /\ call'[p].email = call[p].email /\ call'[p].step = call[p].step
              /\ call'[p].allowed = call[p].allowed
          BY <4>1, <4>2 DEF Call
        <4>4. call'[p].open = (call[p].open /\ call[p].email \notin emails)
          BY <4>1, <4>2 DEF Call
        <4>5. QED
          BY <4>3, <4>4
      <3>2. QED
        BY <3>1 DEF Pending, At
    <2>2. mailsTo'[e] = mailsTo[e]
      BY <1>c DEF EmailWindowsEnd
    <2>3. QED
      BY <1>1, <1>a, <1>c, <2>1, <2>2
  <1>d. ASSUME NEW p \in Procs, \A q \in Procs \ {p} : call'[q] = call[q],
               call'[p].step # "ip" \/ call'[p] = call[p]
        PROVE  Pending(e)' \subseteq Pending(e)
    BY <1>d DEF Pending, At
  <1>e. ASSUME NEW p \in Procs, Return(p)
        PROVE  /\ \A q \in Procs \ {p} : call'[q] = call[q]
               /\ call'[p].step = "idle"
    BY <1>1, <1>e DEF Return, Call
  <1>f. ASSUME NEW f \in Emails, CountEmail(f)
        PROVE  emailUsed'[e] >= emailUsed[e]
    BY <1>1, <1>f DEF CountEmail, Email!Request
  <1>4. ASSUME NEW p \in Procs, NEW f \in Emails, NEW i \in IPs, Ask(p, f, i)
        PROVE  Kept
    <2>1. /\ \A q \in Procs \ {p} : call'[q] = call[q]
          /\ call'[p].step = "email"
      BY <1>1, <1>4 DEF Ask
    <2>2. Pending(e)' \subseteq Pending(e)
      BY <1>d, <2>1
    <2>3. mailsTo' = mailsTo /\ emailUsed' = emailUsed
      BY <1>4 DEF Ask, emailLimiter
    <2>4. QED
      BY <1>1, <1>a, <2>2, <2>3
  <1>5. ASSUME NEW p \in Procs, AllowEmail(p)
        PROVE  Kept
    <2> DEFINE f == call[p].email
    <2>1. /\ f \in Emails /\ call[p].step = "email" /\ mailsTo' = mailsTo
          /\ CountEmail(f)
          /\ \A q \in Procs \ {p} : call'[q] = call[q]
      BY <1>1, <1>5 DEF AllowEmail, At
    <2>2. call'[p].email = f /\ call'[p].allowed = (f \notin emailRefused')
      BY <1>1, <1>5 DEF AllowEmail, Call
    <2>3. Pending(e)' \subseteq Pending(e) \cup {p} /\ p \notin Pending(e)
      BY <2>1 DEF Pending, At
    <2>4. CASE p \notin Pending(e)'
      BY <1>a, <1>f, <2>1, <2>3, <2>4
    <2>5. CASE p \in Pending(e)'
      <3>1. f = e /\ e \notin emailRefused'
        BY <2>2, <2>5 DEF Pending
      <3>2. emailUsed'[e] = emailUsed[e] + 1 /\ emailUsed[e] < EmailLimit
        BY <1>1, <2>1, <3>1 DEF CountEmail, Email!Request
      <3>3. /\ IsFiniteSet(Pending(e) \cup {p})
            /\ Cardinality(Pending(e) \cup {p}) = Cardinality(Pending(e)) + 1
        BY <1>2, <2>3, FS_AddElement
      <3>4. /\ IsFiniteSet(Pending(e)')
            /\ Cardinality(Pending(e)') <= Cardinality(Pending(e)) + 1
        BY <2>3, <3>3, FS_Subset
      <3>5. Cardinality(Pending(e)') \in Nat
        BY <3>4, FS_CardinalityType
      <3>6. Charged(e)' = mailsTo[e] + Cardinality(Pending(e)')
        BY <2>1 DEF Charged
      <3>7. QED
        BY <1>1, <1>2, <3>2, <3>4, <3>5, <3>6
    <2>6. QED
      BY <2>4, <2>5
  <1>6. ASSUME NEW p \in Procs, AllowIP(p)
        PROVE  Kept
    <2> DEFINE mailed == /\ call[p].email = e
                         /\ Verdict(call[p].allowed, call[p].ip \notin ipRefused')
                         /\ call[p].open
    <2>1. /\ call[p].step = "ip" /\ Return(p) /\ emailUsed' = emailUsed
          /\ mailsTo'[e] = IF mailed THEN mailsTo[e] + 1 ELSE mailsTo[e]
      BY <1>1, <1>6 DEF AllowIP, At, emailLimiter
    <2>2. Pending(e)' \subseteq Pending(e) \ {p}
      BY <1>e, <2>1 DEF Pending, At
    <2>3. CASE ~mailed
      BY <1>1, <1>a, <2>1, <2>2, <2>3
    <2>4. CASE mailed
      <3>1. p \in Pending(e)
        BY <2>1, <2>4 DEF Pending, At, Verdict
      <3>2. /\ IsFiniteSet(Pending(e) \ {p})
            /\ Cardinality(Pending(e) \ {p}) = Cardinality(Pending(e)) - 1
        BY <1>2, <3>1, FS_RemoveElement
      <3>3. /\ IsFiniteSet(Pending(e)')
            /\ Cardinality(Pending(e)') <= Cardinality(Pending(e)) - 1
        BY <2>2, <3>2, FS_Subset
      <3>4. Cardinality(Pending(e)') \in Nat
        BY <3>3, FS_CardinalityType
      <3>5. Charged(e)' = mailsTo[e] + 1 + Cardinality(Pending(e)')
        BY <2>1, <2>4 DEF Charged
      <3>6. QED
        BY <1>1, <1>2, <2>1, <3>3, <3>4, <3>5
    <2>5. QED
      BY <2>3, <2>4
  <1>7. ASSUME NEW p \in Procs, Fails(p)
        PROVE  Kept
    <2>1. Pending(e)' \subseteq Pending(e)
      <3>1. Return(p) \/ call' = call
        BY <1>7 DEF Fails
      <3>2. QED
        BY <1>d, <1>e, <3>1
    <2>2. mailsTo' = mailsTo
      BY <1>7 DEF Fails
    <2>3. emailUsed'[e] >= emailUsed[e]
      <3>1. CountEmail(call[p].email) \/ emailUsed' = emailUsed
        BY <1>7 DEF Fails, emailLimiter
      <3>2. QED
        BY <1>1, <1>f, <3>1
    <2>4. QED
      BY <1>a, <2>1, <2>2, <2>3
  <1>8. ASSUME NEW f \in Emails, ResetEmail(f)
        PROVE  Kept
    <2>1. EmailWindowsEnd({f}) /\ emailUsed' = [emailUsed EXCEPT ![f] = 0]
      BY <1>8 DEF ResetEmail, ResetLimiters, Email!Reset
    <2>2. QED
      BY <1>1, <1>b, <1>c, <2>1
  <1>9. ASSUME NEW emails \in SUBSET Emails, NEW ips \in SUBSET IPs, Elapse(emails, ips)
        PROVE  Kept
    <2>1. /\ EmailWindowsEnd(emails)
          /\ e \notin emails => emailUsed'[e] = emailUsed[e]
      BY <1>9 DEF Elapse, Email!Elapse
    <2>2. QED
      BY <1>b, <1>c, <2>1
  <1>10. ASSUME UNCHANGED vars
         PROVE  Kept
    <2>1. call' = call /\ mailsTo' = mailsTo /\ emailUsed' = emailUsed
      BY <1>10 DEF vars, emailLimiter
    <2>2. Pending(e)' \subseteq Pending(e)
      BY <2>1 DEF Pending, At
    <2>3. QED
      BY <1>1, <1>a, <2>1, <2>2
  <1>11. QED
    BY <1>4, <1>5, <1>6, <1>7, <1>8, <1>9, <1>10 DEF Next

(***************************************************************************)
(* An address is sent at most EmailLimit mails on one window, from however *)
(* many IPs, although each is allowed a step after it was counted.         *)
(***************************************************************************)
THEOREM BudgetOfAddress == Spec => []MailsPerAddress
  <1>1. ASSUME TypeOK, EmailCharged
        PROVE  MailsPerAddress
    <2>1. ASSUME NEW e \in Emails, mailsTo[e] > 0
          PROVE  mailsTo[e] <= EmailLimit
      <3>1. mailsTo[e] \in Nat /\ Cardinality(Pending(e)) \in Nat /\ EmailLimit \in Int
        BY <1>1, TotalAssumption, FS_CardinalityType DEF TypeOK, EmailCharged
      <3>2. mailsTo[e] + Cardinality(Pending(e)) > 0 =>
                mailsTo[e] + Cardinality(Pending(e)) <= EmailLimit
        BY <1>1 DEF EmailCharged, Charged
      <3>3. QED
        BY <2>1, <3>1, <3>2
    <2>2. QED
      BY <2>1 DEF MailsPerAddress
  <1>2. Init => TypeOK
    BY InitIInv DEF IInv
  <1>3. QED
    BY <1>1, <1>2, NextTypeOK, InitEmailCharged, NextEmailCharged, PTL DEF Spec
=============================================================================
