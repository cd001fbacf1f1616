------------------------- MODULE EmailIssuer_proofs -------------------------
(***************************************************************************)
(* Proofs about the handlers, for any number of goroutines, addresses,     *)
(* sends and setbacks, on either backend.                                  *)
(***************************************************************************)
EXTENDS EmailIssuer, FiniteSetTheorems, TLAPS

(***************************************************************************)
(* TypeOK in three parts.  It needs LinksBegun: that a link token in the   *)
(* storage belongs to a send that has begun, for it becomes the ref of the *)
(* request that follows it.                                                *)
(***************************************************************************)
ReqOK ==
    /\ req \in [Procs -> Request]
    /\ \A p \in Procs : req[p].step # "idle" =>
           req[p].email \in Emails /\ req[p].ref \in 1 .. sends

LinksBegun == \A n \in Sends : linkTokenMap[n] # NoEmail => n <= sends

StoreOK == StorageTypeOK /\ LinksBegun

HistoryOK ==
    /\ sends \in 0 .. MaxSends
    /\ owner \in [Sends -> Emails \cup {NoEmail}]
    /\ mailed \subseteq 1 .. sends
    /\ codeJwts \in [Emails -> [Sends -> Nat]]
    /\ linkJwts \in [Emails -> [Sends -> Nat]]
    /\ stores \in [Emails -> Nat]
    /\ redemptions \in [Emails -> Nat]
    /\ setbacks \in 0 .. MaxSetbacks

TInv == ReqOK /\ StoreOK /\ HistoryOK

\* Counting one more in a function, or in a function of functions.
LEMMA CountUp ==
    ASSUME NEW S, NEW f \in [S -> Nat], NEW x \in S
    PROVE  [f EXCEPT ![x] = @ + 1] \in [S -> Nat]
  OBVIOUS

LEMMA CountUpAt ==
    ASSUME NEW S, NEW T, NEW f \in [S -> [T -> Nat]], NEW x \in S, NEW y \in T
    PROVE  [f EXCEPT ![x][y] = @ + 1] \in [S -> [T -> Nat]]
  <1>1. [f[x] EXCEPT ![y] = @ + 1] \in [T -> Nat]
    BY CountUp
  <1>2. QED
    BY <1>1

LEMMA TInvTypeOK == TInv => TypeOK
  BY DEF TInv, TypeOK, ReqOK, StoreOK, HistoryOK

LEMMA InitTInv == Init => TInv
  BY StorageAssumption, IssuerAssumption
     DEF Init, StorageInit, TInv, ReqOK, StoreOK, HistoryOK, StorageTypeOK, LinksBegun,
         Sends, Request, Idle, Steps, SendSteps

\* A request under way keeps its address and its ref.
LEMMA GoToReq ==
    ASSUME TInv, NEW p \in Procs, NEW step \in Steps \ {"idle"},
           req[p].step # "idle", GoTo(p, step), sends' = sends
    PROVE  ReqOK'
  <1>1. req \in [Procs -> Request] /\ req' = [req EXCEPT ![p].step = step]
    BY DEF GoTo, TInv, ReqOK
  <1>2. [req[p] EXCEPT !.step = step] \in Request
    BY <1>1 DEF Request
  <1>3. \A q \in Procs : req'[q].email = req[q].email /\ req'[q].ref = req[q].ref
    BY <1>1 DEF Request
  <1>4. \A q \in Procs : req'[q].step # "idle" => req[q].step # "idle"
    BY <1>1 DEF Request
  <1>5. QED
    BY <1>1, <1>2, <1>3, <1>4 DEF TInv, ReqOK

LEMMA BeginReq ==
    ASSUME TInv, NEW p \in Procs, NEW step \in Steps, NEW e \in Emails,
           NEW n \in 1 .. sends', Begin(p, step, e, n),
           sends' \in 0 .. MaxSends, sends' >= sends
    PROVE  ReqOK'
  <1>1. n \in 0 .. MaxSends /\ \A m \in 1 .. sends : m \in 1 .. sends'
    BY StorageAssumption DEF TInv, HistoryOK
  <1>2. QED
    BY <1>1 DEF Begin, TInv, ReqOK, Request

LEMMA FinishReq ==
    ASSUME TInv, NEW p \in Procs, Finish(p), sends' = sends
    PROVE  ReqOK'
  <1>1. Idle \in Request /\ Idle.step = "idle"
    BY StorageAssumption DEF Idle, Request, Steps
  <1>2. QED
    BY <1>1 DEF Finish, TInv, ReqOK

LEMMA NextReqOK == TInv /\ [Next]_vars => ReqOK'
  <1> SUFFICES ASSUME TInv, [Next]_vars
               PROVE  ReqOK'
    OBVIOUS
  <1> USE StorageAssumption DEF At
  <1>1. ASSUME NEW p \in Procs, NEW e \in Emails, SendEmail(p, e)
        PROVE  ReqOK'
    <2>1. sends' = sends + 1 /\ sends' \in 1 .. MaxSends /\ sends' \in 1 .. sends'
      BY <1>1 DEF SendEmail, TInv, HistoryOK
    <2>2. Begin(p, "store", e, sends') /\ "store" \in Steps /\ sends' >= sends
      BY <1>1, <2>1 DEF SendEmail, Steps, SendSteps, TInv, HistoryOK
    <2>3. QED
      BY <2>1, <2>2, BeginReq
  <1>2. ASSUME NEW p \in Procs, NEW e \in Emails, NEW n \in Sends,
               VerifyEmail(p, e, n)
        PROVE  ReqOK'
    <2>1. sends' = sends /\ sends' >= sends /\ sends' \in 0 .. MaxSends
          /\ n \in 1 .. sends'
      BY <1>2 DEF VerifyEmail, Sends, TInv, HistoryOK
    <2>2. Begin(p, "redeem", e, n) /\ "redeem" \in Steps
      BY <1>2 DEF VerifyEmail, Steps
    <2>3. QED
      BY <2>1, <2>2, BeginReq
  <1>3. ASSUME NEW p \in Procs, NEW n \in Sends, VerifyLink(p, n)
        PROVE  ReqOK'
    <2>1. linkTokenMap[n] \in Emails /\ n <= sends
      BY <1>3 DEF VerifyLink, LinkKnown, TInv, StoreOK, StorageTypeOK, LinksBegun
    <2>2. sends' = sends /\ sends' >= sends /\ sends' \in 0 .. MaxSends
          /\ n \in 1 .. sends'
      BY <1>3, <2>1 DEF VerifyLink, Sends, TInv, HistoryOK
    <2>3. Begin(p, "burnLink", linkTokenMap[n], n) /\ "burnLink" \in Steps
      BY <1>3 DEF VerifyLink, Steps
    <2>4. QED
      BY <2>1, <2>2, <2>3, BeginReq
  <1>4. ASSUME NEW p \in Procs,
               \/ StoreCode(p) \/ StoreLink(p) \/ LimiterAllows(p)
               \/ BurnLink(p) \/ BurnLinkFails(p)
        PROVE  ReqOK'
    <2>1. /\ req[p].step # "idle" /\ sends' = sends
          /\ \E step \in Steps \ {"idle"} : GoTo(p, step)
      BY <1>4 DEF StoreCode, StoreLink, LimiterAllows, BurnLink, BurnLinkFails,
                  Steps, SendSteps
    <2>2. QED
      BY <2>1, GoToReq
  <1>5. ASSUME NEW p \in Procs,
               \/ StoreCodeFails(p) \/ StoreLinkFails(p) \/ SendRefused(p)
               \/ Mail(p) \/ MailFails(p) \/ Redeem(p) \/ RedeemFails(p)
               \/ SignLink(p) \/ SignFails(p)
        PROVE  ReqOK'
    <2>1. Finish(p) /\ sends' = sends
      BY <1>5 DEF StoreCodeFails, StoreLinkFails, SendRefused, Mail, MailFails,
                  Redeem, RedeemFails, SignLink, SignFails
    <2>2. QED
      BY <2>1, FinishReq
  <1>6. CASE Crash
    <2>1. Idle \in Request /\ Idle.step = "idle"
      BY DEF Idle, Request, Steps
    <2>2. QED
      BY <1>6, <2>1 DEF Crash, ReqOK
  <1>7. CASE Expiry \/ UNCHANGED vars \/ \E e \in Emails : VerifyDone(e)
    BY <1>7 DEF Expiry, VerifyDone, vars, TInv, ReqOK
  <1>8. QED
    BY <1>1, <1>2, <1>3, <1>4, <1>5, <1>6, <1>7 DEF Next, SendNext, VerifyNext

LEMMA NextStoreOK == TInv /\ [Next]_vars => StoreOK'
  <1> SUFFICES ASSUME TInv, [Next]_vars
               PROVE  StoreOK'
    OBVIOUS
  <1> USE StorageAssumption
          DEF TInv, StoreOK, StorageTypeOK, LinksBegun, Sends, storage, At
  <1>1. ASSUME NEW p \in Procs, StoreCode(p) \/ StoreCodeFails(p)
        PROVE  StoreOK'
    <2>1. req[p].email \in Emails /\ req[p].ref \in 0 .. MaxSends
      BY <1>1 DEF StoreCode, StoreCodeFails, ReqOK, HistoryOK
    <2>2. /\ \/ tokenMap' = [tokenMap EXCEPT ![req[p].email] = req[p].ref]
             \/ tokenMap' = tokenMap
          /\ linkTokenMap' = linkTokenMap /\ sends' = sends
      BY <1>1 DEF StoreCode, StoreCodeFails, CodeStored, StoreToken
    <2>3. tokenMap \in [Emails -> 0 .. MaxSends]
      OBVIOUS
    <2>4. tokenMap' \in [Emails -> 0 .. MaxSends]
      <3> HIDE DEF TInv
      <3>1. QED
        BY <2>1, <2>2, <2>3
    <2>5. QED
      BY <2>2, <2>4
  <1>2. ASSUME NEW p \in Procs, StoreLink(p) \/ StoreLinkFails(p)
        PROVE  StoreOK'
    <2>1. req[p].email \in Emails /\ req[p].ref \in 1 .. sends
      BY <1>2 DEF StoreLink, StoreLinkFails, ReqOK
    <2>2. /\ \/ linkTokenMap' = [linkTokenMap EXCEPT ![req[p].ref] = req[p].email]
             \/ linkTokenMap' = linkTokenMap
          /\ tokenMap' = tokenMap /\ sends' = sends
      BY <1>2 DEF StoreLink, StoreLinkFails, StoreLinkToken
    <2>3. linkTokenMap' \in [Sends -> Emails \cup {NoEmail}]
      BY <2>1, <2>2
    <2>4. LinksBegun'
      BY <2>1, <2>2 DEF HistoryOK
    <2>5. QED
      BY <2>2, <2>3, <2>4
  <1>3. ASSUME NEW e \in Emails, RemoveToken(e), UNCHANGED <<linkTokenMap, sends>>
        PROVE  StoreOK'
    BY <1>3 DEF RemoveToken
  <1>4. ASSUME NEW n \in Sends, RemoveLinkToken(n), UNCHANGED <<tokenMap, sends>>
        PROVE  StoreOK'
    BY <1>4 DEF RemoveLinkToken
  <1>5. ASSUME UNCHANGED <<tokenMap, linkTokenMap>>, sends' \in {sends, sends + 1}
        PROVE  StoreOK'
    BY <1>5 DEF HistoryOK
  <1>6. ASSUME NEW p \in Procs, Redeem(p) \/ RedeemFails(p)
        PROVE  StoreOK'
    <2>1. req[p].email \in Emails
      BY <1>6 DEF Redeem, RedeemFails, ReqOK
    <2>2. /\ RemoveToken(req[p].email) \/ tokenMap' = tokenMap
          /\ linkTokenMap' = linkTokenMap /\ sends' = sends
      BY <1>6 DEF Redeem, RedeemFails, SpendCode
    <2>3. QED
      BY <1>3, <1>5, <2>1, <2>2
  <1>7. ASSUME NEW p \in Procs, BurnLink(p) \/ BurnLinkFails(p)
        PROVE  StoreOK'
    <2>1. req[p].ref \in Sends
      BY <1>7 DEF BurnLink, BurnLinkFails, ReqOK, HistoryOK
    <2>2. /\ RemoveLinkToken(req[p].ref) \/ linkTokenMap' = linkTokenMap
          /\ tokenMap' = tokenMap /\ sends' = sends
      BY <1>7 DEF BurnLink, BurnLinkFails, Burn
    <2>3. QED
      BY <1>4, <1>5, <2>1, <2>2
  <1>8. ASSUME NEW p \in Procs,
               \/ \E e \in Emails : SendEmail(p, e)
               \/ \E e \in Emails, n \in Sends : VerifyEmail(p, e, n)
               \/ \E n \in Sends : VerifyLink(p, n)
               \/ LimiterAllows(p) \/ SendRefused(p) \/ Mail(p) \/ MailFails(p)
               \/ SignLink(p) \/ SignFails(p)
        PROVE  StoreOK'
    <2>1. UNCHANGED <<tokenMap, linkTokenMap>> /\ sends' \in {sends, sends + 1}
      BY <1>8 DEF SendEmail, VerifyEmail, VerifyLink, LimiterAllows, SendRefused,
                  Mail, MailFails, SignLink, SignFails
    <2>2. QED
      BY <1>5, <2>1
  <1>9. CASE Crash
    BY <1>9 DEF Crash, StorageAfterCrash
  <1>10. CASE Expiry
    BY <1>3, <1>4, <1>10 DEF Expiry, CodeExpires, LinkExpires
  <1>11. CASE UNCHANGED vars
    BY <1>5, <1>11 DEF vars
  <1>12. ASSUME NEW e \in Emails, VerifyDone(e)
         PROVE  StoreOK'
    BY <1>3, <1>12 DEF VerifyDone
  <1>13. QED
    BY <1>1, <1>2, <1>6, <1>7, <1>8, <1>9, <1>10, <1>11, <1>12
       DEF Next, SendNext, VerifyNext

LEMMA NextHistoryOK == TInv /\ [Next]_vars => HistoryOK'
  <1> SUFFICES ASSUME TInv, [Next]_vars
               PROVE  HistoryOK'
    OBVIOUS
  <1> USE StorageAssumption, IssuerAssumption DEF TInv, HistoryOK, Sends, answers, At
  <1>1. ASSUME NEW p \in Procs, NEW e \in Emails, SendEmail(p, e)
        PROVE  HistoryOK'
    <2>1. sends' = sends + 1 /\ sends' \in 1 .. MaxSends /\ mailed \subseteq 1 .. sends'
      BY <1>1 DEF SendEmail
    <2>2. /\ owner' = [owner EXCEPT ![sends'] = e]
          /\ UNCHANGED <<mailed, codeJwts, linkJwts, stores, redemptions, setbacks>>
      BY <1>1 DEF SendEmail
    <2>3. owner' \in [Sends -> Emails \cup {NoEmail}]
      <3> HIDE DEF TInv, HistoryOK
      <3>1. owner \in [Sends -> Emails \cup {NoEmail}]
        BY DEF TInv, HistoryOK
      <3>2. QED
        BY <2>2, <3>1
    <2>4. QED
      BY <2>1, <2>2, <2>3
  <1>2. ASSUME NEW p \in Procs, StoreCode(p) \/ StoreCodeFails(p)
        PROVE  HistoryOK'
    <2>1. req[p].email \in Emails
      BY <1>2 DEF StoreCode, StoreCodeFails, ReqOK
    <2>2. /\ \/ stores' = stores
             \/ stores' = [stores EXCEPT ![req[p].email] = @ + 1]
          /\ setbacks' \in 0 .. MaxSetbacks
          /\ UNCHANGED <<sends, owner, mailed, codeJwts, linkJwts, redemptions>>
      BY <1>2 DEF StoreCode, StoreCodeFails, CodeStored, StorageFails, Setback
    <2>3. stores' \in [Emails -> Nat]
      <3>1. stores \in [Emails -> Nat]
        OBVIOUS
      <3>2. [stores EXCEPT ![req[p].email] = @ + 1] \in [Emails -> Nat]
        BY <2>1, <3>1, CountUp
      <3>3. QED
        BY <2>2, <3>1, <3>2
    <2>4. QED
      BY <2>2, <2>3
  <1>3. ASSUME NEW p \in Procs, Mail(p) \/ MailFails(p)
        PROVE  HistoryOK'
    <2>1. req[p].ref \in 1 .. sends
      BY <1>3 DEF Mail, MailFails, ReqOK
    <2>2. /\ mailed' \in {mailed, mailed \cup {req[p].ref}}
          /\ setbacks' \in 0 .. MaxSetbacks
          /\ UNCHANGED <<sends, owner, codeJwts, linkJwts, stores, redemptions>>
      BY <1>3 DEF Mail, MailFails, Letter, Setback
    <2>3. QED
      BY <2>1, <2>2
  <1>4. ASSUME NEW p \in Procs, Redeem(p)
        PROVE  HistoryOK'
    <2>1. req[p].email \in Emails /\ req[p].ref \in Sends
      BY <1>4 DEF Redeem, ReqOK
    <2>2. /\ \/ codeJwts' = codeJwts
             \/ codeJwts' = [codeJwts EXCEPT ![req[p].email][req[p].ref] = @ + 1]
          /\ \/ redemptions' = redemptions
             \/ redemptions' = [redemptions EXCEPT ![req[p].email] = @ + 1]
          /\ UNCHANGED <<sends, owner, mailed, linkJwts, stores, setbacks>>
      BY <1>4 DEF Redeem
    <2>3. codeJwts' \in [Emails -> [Sends -> Nat]]
      <3>1. codeJwts \in [Emails -> [Sends -> Nat]]
        OBVIOUS
      <3> HIDE DEF TInv, HistoryOK, Sends
      <3>2. [codeJwts EXCEPT ![req[p].email][req[p].ref] = @ + 1]
                \in [Emails -> [Sends -> Nat]]
        BY <2>1, <3>1, CountUpAt
      <3>3. QED
        BY <2>2, <3>1, <3>2
    <2>4. redemptions' \in [Emails -> Nat]
      <3>1. redemptions \in [Emails -> Nat]
        OBVIOUS
      <3>2. [redemptions EXCEPT ![req[p].email] = @ + 1] \in [Emails -> Nat]
        BY <2>1, <3>1, CountUp
      <3>3. QED
        BY <2>2, <3>1, <3>2
    <2>5. QED
      BY <2>2, <2>3, <2>4
  <1>5. ASSUME NEW p \in Procs, SignLink(p)
        PROVE  HistoryOK'
    <2>1. req[p].email \in Emails /\ req[p].ref \in Sends
      BY <1>5 DEF SignLink, ReqOK
    <2>2. /\ linkJwts' = [linkJwts EXCEPT ![req[p].email][req[p].ref] = @ + 1]
          /\ UNCHANGED <<sends, owner, mailed, codeJwts, redemptions, stores, setbacks>>
      BY <1>5 DEF SignLink
    <2>3. linkJwts' \in [Emails -> [Sends -> Nat]]
      <3>1. linkJwts \in [Emails -> [Sends -> Nat]]
        OBVIOUS
      <3> HIDE DEF TInv, HistoryOK, Sends
      <3>2. [linkJwts EXCEPT ![req[p].email][req[p].ref] = @ + 1]
                \in [Emails -> [Sends -> Nat]]
        BY <2>1, <3>1, CountUpAt
      <3>3. QED
        BY <2>2, <3>1, <3>2
    <2>4. QED
      BY <2>2, <2>3
  <1>6. ASSUME UNCHANGED <<sends, owner, mailed, codeJwts, linkJwts, stores, redemptions>>,
               setbacks' \in {setbacks} \cup 0 .. MaxSetbacks
        PROVE  HistoryOK'
    BY <1>6
  <1>7. ASSUME NEW p \in Procs,
               \/ \E e \in Emails, n \in Sends : VerifyEmail(p, e, n)
               \/ \E n \in Sends : VerifyLink(p, n)
               \/ StoreLink(p) \/ StoreLinkFails(p)
               \/ LimiterAllows(p) \/ SendRefused(p)
               \/ RedeemFails(p) \/ BurnLink(p) \/ BurnLinkFails(p) \/ SignFails(p)
        PROVE  HistoryOK'
    BY <1>6, <1>7
       DEF VerifyEmail, VerifyLink, StoreLink, StoreLinkFails, LimiterAllows,
           SendRefused, RedeemFails, BurnLink, BurnLinkFails, SignFails,
           StorageFails, Setback
  <1>8. CASE Crash \/ Expiry \/ UNCHANGED vars \/ \E e \in Emails : VerifyDone(e)
    BY <1>6, <1>8 DEF Crash, Setback, Expiry, vars, VerifyDone
  <1>9. QED
    BY <1>1, <1>2, <1>3, <1>4, <1>5, <1>7, <1>8 DEF Next, SendNext, VerifyNext

LEMMA NextTInv == TInv /\ [Next]_vars => TInv'
  BY NextReqOK, NextStoreOK, NextHistoryOK DEF TInv

(***************************************************************************)
(* The state of the handlers is well typed, on either backend.             *)
(***************************************************************************)
THEOREM TypeCorrect == Spec => []TypeOK
  BY InitTInv, NextTInv, TInvTypeOK, PTL DEF Spec

-----------------------------------------------------------------------------
(* The invariants behind the properties.                                   *)

CodeUnused(n) ==
    /\ \A e \in Emails : tokenMap[e] # n /\ codeJwts[e][n] = 0
    /\ \A p \in Procs : req[p].step = "redeem" => req[p].ref # n

(***************************************************************************)
(* Nothing refers to a code before its send has stored it.                 *)
(***************************************************************************)
CodesUnused ==
    /\ \A n \in Sends : n > sends => CodeUnused(n)
    /\ \A p \in Procs : req[p].step = "store" => CodeUnused(req[p].ref)

\* Two requests never send the same code.
SendsApart ==
    \A p, q \in Procs :
        /\ p # q
        /\ req[p].step \in {"store", "storeLink"}
        /\ req[q].step \in {"store", "storeLink"}
        => req[p].ref # req[q].ref

(***************************************************************************)
(* CodeJwtsBounded with the code that is stored counted as one JWT to come.*)
(***************************************************************************)
Budget ==
    Backend = "inmemory" =>
        \A e \in Emails :
            redemptions[e] + (IF tokenMap[e] = 0 THEN 0 ELSE 1) <= stores[e]

IInv ==
    /\ TInv
    /\ CodesUnused /\ SendsApart
    /\ RedeemedCodeStaysDead
    /\ Budget

\* The steps that leave both the storage and the answers alone, and the calls
\* to the storage that fail.
Quiet(p) ==
    \/ \E e \in Emails : SendEmail(p, e)
    \/ LimiterAllows(p) \/ SendRefused(p) \/ Mail(p) \/ MailFails(p)
    \/ \E e \in Emails, n \in Sends : VerifyEmail(p, e, n)
    \/ \E n \in Sends : VerifyLink(p, n)
    \/ SignFails(p)

Fails(p) ==
    StoreCodeFails(p) \/ StoreLinkFails(p) \/ RedeemFails(p) \/ BurnLinkFails(p)

LEMMA StepKinds ==
    ASSUME [Next]_vars
    PROVE  \/ \E p \in Procs :
                  \/ StoreCode(p) \/ Redeem(p) \/ Fails(p)
                  \/ Quiet(p) \/ StoreLink(p) \/ BurnLink(p) \/ SignLink(p)
           \/ Crash
           \/ UNCHANGED vars \/ Expiry
           \/ \E e \in Emails : VerifyDone(e)
  BY DEF Next, SendNext, VerifyNext, Quiet, Fails

LEMMA InitIInv == Init => IInv
  <1> SUFFICES ASSUME Init
               PROVE  IInv
    OBVIOUS
  <1>1. TInv
    BY InitTInv
  <1>2. /\ \A p \in Procs : req[p].step = "idle"
        /\ \A e \in Emails : /\ tokenMap[e] = 0 /\ stores[e] = 0 /\ redemptions[e] = 0
                             /\ \A n \in Sends : codeJwts[e][n] = 0
    BY DEF Init, StorageInit, Idle
  <1>3. CodesUnused /\ SendsApart
    BY <1>2 DEF CodesUnused, SendsApart, CodeUnused, Sends
  <1>4. RedeemedCodeStaysDead /\ Budget
    BY <1>2 DEF RedeemedCodeStaysDead, Budget
  <1>5. QED
    BY <1>1, <1>3, <1>4 DEF IInv

\* How a request moves: on with the same address and ref, to a new request, or
\* out of the way.
LEMMA GoToMoves ==
    ASSUME TInv, NEW p \in Procs, NEW step, GoTo(p, step)
    PROVE  /\ req'[p].step = step
           /\ req'[p].email = req[p].email /\ req'[p].ref = req[p].ref
           /\ \A q \in Procs \ {p} : req'[q] = req[q]
  BY DEF GoTo, TInv, ReqOK, Request

LEMMA BeginMoves ==
    ASSUME TInv, NEW p \in Procs, NEW step, NEW e, NEW n, Begin(p, step, e, n)
    PROVE  /\ req'[p].step = step /\ req'[p].email = e /\ req'[p].ref = n
           /\ \A q \in Procs \ {p} : req'[q] = req[q]
  BY DEF Begin, TInv, ReqOK

LEMMA FinishMoves ==
    ASSUME TInv, NEW p \in Procs, Finish(p)
    PROVE  /\ req'[p].step = "idle"
           /\ \A q \in Procs \ {p} : req'[q] = req[q]
  BY DEF Finish, Idle, TInv, ReqOK

LEMMA ReqTyped ==
    ASSUME TInv, NEW p \in Procs, req[p].step # "idle"
    PROVE  /\ req[p].email \in Emails
           /\ req[p].ref \in Sends /\ req[p].ref \in 1 .. sends /\ req[p].ref # 0
  <1>1. req[p].email \in Emails /\ req[p].ref \in 1 .. sends
    BY DEF TInv, ReqOK
  <1>2. sends \in 0 .. MaxSends
    BY DEF TInv, HistoryOK
  <1>3. QED
    BY <1>1, <1>2, StorageAssumption DEF Sends

LEMMA NextBudget == TInv /\ Budget /\ [Next]_vars => Budget'
  <1> SUFFICES ASSUME TInv, Budget, [Next]_vars, Backend = "inmemory", NEW e \in Emails
               PROVE  (redemptions[e] + (IF tokenMap[e] = 0 THEN 0 ELSE 1) <= stores[e])'
    BY DEF Budget
  <1> DEFINE Goal == (redemptions[e] + (IF tokenMap[e] = 0 THEN 0 ELSE 1) <= stores[e])'
  <1>0. /\ redemptions[e] + (IF tokenMap[e] = 0 THEN 0 ELSE 1) <= stores[e]
        /\ redemptions[e] \in Nat /\ stores[e] \in Nat /\ tokenMap[e] \in Nat
        /\ redemptions \in [Emails -> Nat] /\ stores \in [Emails -> Nat]
        /\ tokenMap \in [Emails -> 0 .. MaxSends]
    BY StorageAssumption DEF Budget, TInv, HistoryOK, StoreOK, StorageTypeOK
  <1>1. ASSUME NEW p \in Procs, StoreCode(p)
        PROVE  Goal
    BY <1>0, <1>1 DEF StoreCode, CodeStored, StoreToken, answers
  <1>2. ASSUME NEW p \in Procs, Redeem(p)
        PROVE  Goal
    BY <1>0, <1>2 DEF Redeem, RemoveTokenOK, SpendCode, RemoveToken
  <1>3. ASSUME NEW f \in Emails, RemoveToken(f), UNCHANGED <<redemptions, stores>>
        PROVE  Goal
    BY <1>0, <1>3 DEF RemoveToken
  <1>4. ASSUME UNCHANGED <<tokenMap, redemptions, stores>>
        PROVE  Goal
    BY <1>0, <1>4
  <1>5. ASSUME NEW p \in Procs, Fails(p)
        PROVE  Goal
    BY <1>4, <1>5
       DEF Fails, StoreCodeFails, StoreLinkFails, RedeemFails, BurnLinkFails, StorageFails
  <1>6. ASSUME NEW p \in Procs, Quiet(p) \/ StoreLink(p) \/ BurnLink(p) \/ SignLink(p)
        PROVE  Goal
    BY <1>4, <1>6
       DEF Quiet, SendEmail, LimiterAllows, SendRefused, Mail, MailFails, VerifyEmail,
           VerifyLink, SignFails, StoreLink, BurnLink, Burn, SignLink, storage, answers
  <1>7. CASE Crash
    BY <1>0, <1>7 DEF Crash, StorageAfterCrash, answers
  <1>8. CASE UNCHANGED vars \/ Expiry
    BY <1>4, <1>8 DEF vars, Expiry, CodeExpires, LinkExpires, storage, answers
  <1>9. ASSUME NEW f \in Emails, VerifyDone(f)
        PROVE  Goal
    BY <1>3, <1>9 DEF VerifyDone, answers
  <1>10. QED
    BY <1>1, <1>2, <1>5, <1>6, <1>7, <1>8, <1>9, StepKinds

LEMMA NextDead ==
    TInv /\ CodesUnused /\ RedeemedCodeStaysDead /\ [Next]_vars
        => RedeemedCodeStaysDead'
  <1> SUFFICES ASSUME TInv, CodesUnused, RedeemedCodeStaysDead, [Next]_vars,
                      NEW e \in Emails, NEW n \in Sends, codeJwts'[e][n] > 0
               PROVE  tokenMap'[e] # n
    BY DEF RedeemedCodeStaysDead
  <1>0. /\ codeJwts[e][n] > 0 => tokenMap[e] # n
        /\ codeJwts \in [Emails -> [Sends -> Nat]]
        /\ tokenMap \in [Emails -> 0 .. MaxSends]
        /\ n # 0
    BY StorageAssumption
       DEF RedeemedCodeStaysDead, TInv, HistoryOK, StoreOK, StorageTypeOK, Sends
  <1>1. ASSUME NEW p \in Procs, req[p].step = "store", CodeStored(p),
               UNCHANGED codeJwts
        PROVE  tokenMap'[e] # n
    <2>1. codeJwts[e][req[p].ref] = 0 /\ req[p].ref \in Sends
      <3>1. CodeUnused(req[p].ref)
        BY <1>1 DEF CodesUnused
      <3>2. QED
        BY <1>1, <3>1, ReqTyped DEF CodeUnused
    <2>2. tokenMap' = [tokenMap EXCEPT ![req[p].email] = req[p].ref]
      BY <1>1 DEF CodeStored, StoreToken
    <2>3. QED
      BY <1>0, <1>1, <2>1, <2>2
  <1>2. ASSUME NEW f \in Emails, RemoveToken(f), UNCHANGED codeJwts
        PROVE  tokenMap'[e] # n
    BY <1>0, <1>2 DEF RemoveToken
  <1>3. ASSUME UNCHANGED <<tokenMap, codeJwts>>
        PROVE  tokenMap'[e] # n
    BY <1>0, <1>3
  <1>4. ASSUME NEW p \in Procs, Redeem(p)
        PROVE  tokenMap'[e] # n
    <2>1. req[p].email \in Emails /\ req[p].ref \in Sends
      BY <1>4, ReqTyped DEF Redeem, At
    <2>2. CASE RemoveTokenOK(req[p].email)
      <3>1. /\ codeJwts' = [codeJwts EXCEPT ![req[p].email][req[p].ref] = @ + 1]
            /\ tokenMap' = [tokenMap EXCEPT ![req[p].email] = 0]
        BY <1>4, <2>2 DEF Redeem, SpendCode, RemoveToken
      <3>2. QED
        BY <1>0, <2>1, <3>1
    <2>3. CASE ~RemoveTokenOK(req[p].email)
      BY <1>3, <1>4, <2>3 DEF Redeem
    <2>4. QED
      BY <2>2, <2>3
  <1>5. ASSUME NEW p \in Procs, StoreCode(p)
        PROVE  tokenMap'[e] # n
    BY <1>1, <1>5 DEF StoreCode, At, answers
  <1>6. ASSUME NEW p \in Procs, Fails(p)
        PROVE  tokenMap'[e] # n
    <2>1. CASE StoreCodeFails(p)
      BY <1>1, <1>3, <2>1 DEF StoreCodeFails, At, answers
    <2>2. CASE RedeemFails(p)
      BY <1>2, <1>3, <2>2 DEF RedeemFails, At, answers, TInv, ReqOK
    <2>3. CASE StoreLinkFails(p) \/ BurnLinkFails(p)
      BY <1>3, <2>3 DEF StoreLinkFails, BurnLinkFails, answers
    <2>4. QED
      BY <1>6, <2>1, <2>2, <2>3 DEF Fails
  <1>7. ASSUME NEW p \in Procs, Quiet(p) \/ StoreLink(p) \/ BurnLink(p) \/ SignLink(p)
        PROVE  tokenMap'[e] # n
    BY <1>3, <1>7
       DEF Quiet, SendEmail, LimiterAllows, SendRefused, Mail, MailFails, VerifyEmail,
           VerifyLink, SignFails, StoreLink, BurnLink, Burn, SignLink, storage, answers
  <1>8. CASE Crash
    BY <1>0, <1>3, <1>8 DEF Crash, StorageAfterCrash, storage, answers
  <1>9. CASE UNCHANGED vars \/ Expiry
    BY <1>2, <1>3, <1>9 DEF vars, Expiry, CodeExpires, LinkExpires, storage, answers
  <1>10. ASSUME NEW f \in Emails, VerifyDone(f)
         PROVE  tokenMap'[e] # n
    BY <1>2, <1>10 DEF VerifyDone, answers
  <1>11. QED
    BY <1>4, <1>5, <1>6, <1>7, <1>8, <1>9, <1>10, StepKinds

LEMMA SendsGrow == TInv /\ [Next]_vars => sends' >= sends
  <1> SUFFICES ASSUME TInv, [Next]_vars
               PROVE  sends' = sends \/ sends' = sends + 1
    BY DEF TInv, HistoryOK
  <1>1. QED
    BY StepKinds
       DEF Quiet, Fails, StoreCode, Redeem, StoreCodeFails, StoreLinkFails, RedeemFails,
           BurnLinkFails, SendEmail, LimiterAllows, SendRefused, Mail, MailFails,
           VerifyEmail, VerifyLink, SignFails, StoreLink, BurnLink, SignLink, Crash,
           vars, Expiry, VerifyDone

\* A request that comes to store a code is a new send, and one that comes to
\* store a link has stored its code.
LEMMA NewStoring ==
    ASSUME TInv, [Next]_vars, NEW p \in Procs, req'[p] # req[p],
           req'[p].step \in {"store", "storeLink"}
    PROVE  (\E e \in Emails : SendEmail(p, e)) \/ StoreCode(p)
  <1> DEFINE Storing == {"store", "storeLink"}
             Goal == (\E e \in Emails : SendEmail(p, e)) \/ StoreCode(p)
  <1>1. ASSUME NEW q \in Procs, (\E e \in Emails : SendEmail(q, e)) \/ StoreCode(q)
        PROVE  Goal
    <2>1. \A r \in Procs \ {q} : req'[r] = req[r]
      BY <1>1, BeginMoves, GoToMoves DEF SendEmail, StoreCode
    <2>2. QED
      BY <1>1, <2>1
  <1>2. ASSUME NEW q \in Procs, NEW step, step \notin Storing, GoTo(q, step)
        PROVE  FALSE
    BY <1>2, GoToMoves
  <1>3. ASSUME NEW q \in Procs, NEW step, NEW e, NEW n, step \notin Storing,
               Begin(q, step, e, n)
        PROVE  FALSE
    BY <1>3, BeginMoves
  <1>4. ASSUME NEW q \in Procs, Finish(q)
        PROVE  FALSE
    BY <1>4, FinishMoves
  <1>5. ~Crash /\ ~UNCHANGED req
    BY DEF Crash, Idle
  <1>6. ASSUME NEW q \in Procs,
               StoreLink(q) \/ LimiterAllows(q) \/ BurnLink(q) \/ BurnLinkFails(q)
        PROVE  FALSE
    BY <1>2, <1>6 DEF StoreLink, LimiterAllows, BurnLink, BurnLinkFails
  <1>7. ASSUME NEW q \in Procs,
               \/ \E e \in Emails, n \in Sends : VerifyEmail(q, e, n)
               \/ \E n \in Sends : VerifyLink(q, n)
        PROVE  FALSE
    BY <1>3, <1>7 DEF VerifyEmail, VerifyLink
  <1>8. ASSUME NEW q \in Procs,
               \/ StoreCodeFails(q) \/ StoreLinkFails(q) \/ RedeemFails(q)
               \/ SendRefused(q) \/ Mail(q) \/ MailFails(q) \/ SignFails(q)
               \/ Redeem(q) \/ SignLink(q)
        PROVE  FALSE
    BY <1>4, <1>8
       DEF StoreCodeFails, StoreLinkFails, RedeemFails, SendRefused, Mail, MailFails,
           SignFails, Redeem, SignLink
  <1>9. ~(UNCHANGED vars \/ Expiry \/ \E e \in Emails : VerifyDone(e))
    BY <1>5 DEF vars, Expiry, VerifyDone
  <1>10. QED
    BY <1>1, <1>5, <1>6, <1>7, <1>8, <1>9, StepKinds DEF Quiet, Fails

\* In particular, one that comes to store a code is a new send.
LEMMA NewSend ==
    ASSUME TInv, [Next]_vars, NEW p \in Procs, req'[p] # req[p], req'[p].step = "store"
    PROVE  \E e \in Emails : SendEmail(p, e)
  <1>1. ~StoreCode(p)
    BY GoToMoves DEF StoreCode
  <1>2. QED
    BY <1>1, NewStoring

LEMMA NextSendsApart == TInv /\ SendsApart /\ [Next]_vars => SendsApart'
  <1> SUFFICES ASSUME TInv, SendsApart, [Next]_vars
               PROVE  SendsApart'
    OBVIOUS
  <1> USE DEF SendsApart, At
  <1>1. ASSUME NEW p \in Procs, NEW e \in Emails, SendEmail(p, e)
        PROVE  SendsApart'
    <2>1. /\ req'[p].ref = sends + 1
          /\ \A q \in Procs \ {p} : req'[q] = req[q]
      BY <1>1, BeginMoves DEF SendEmail
    <2>2. \A q \in Procs : req[q].step # "idle" => req[q].ref \in 1 .. sends
      BY DEF TInv, ReqOK
    <2>3. QED
      BY <2>1, <2>2 DEF TInv, HistoryOK
  <1>2. ASSUME NEW p \in Procs, StoreCode(p)
        PROVE  SendsApart'
    BY <1>2, GoToMoves DEF StoreCode
  <1>3. ASSUME NEW p \in Procs, req'[p].step \notin {"store", "storeLink"},
               \A q \in Procs \ {p} : req'[q] = req[q]
        PROVE  SendsApart'
    BY <1>3
  <1>4. ASSUME NEW p \in Procs,
               \/ StoreLink(p) \/ LimiterAllows(p) \/ BurnLink(p) \/ BurnLinkFails(p)
        PROVE  SendsApart'
    BY <1>3, <1>4, GoToMoves DEF StoreLink, LimiterAllows, BurnLink, BurnLinkFails
  <1>5. ASSUME NEW p \in Procs,
               \/ \E e \in Emails, n \in Sends : VerifyEmail(p, e, n)
               \/ \E n \in Sends : VerifyLink(p, n)
        PROVE  SendsApart'
    BY <1>3, <1>5, BeginMoves DEF VerifyEmail, VerifyLink
  <1>6. ASSUME NEW p \in Procs,
               \/ StoreCodeFails(p) \/ StoreLinkFails(p) \/ RedeemFails(p)
               \/ SendRefused(p) \/ Mail(p) \/ MailFails(p) \/ SignFails(p)
               \/ Redeem(p) \/ SignLink(p)
        PROVE  SendsApart'
    BY <1>3, <1>6, FinishMoves
       DEF StoreCodeFails, StoreLinkFails, RedeemFails, SendRefused, Mail, MailFails,
           SignFails, Redeem, SignLink
  <1>7. CASE Crash
    BY <1>7 DEF Crash, Idle
  <1>8. CASE UNCHANGED vars \/ Expiry \/ \E e \in Emails : VerifyDone(e)
    BY <1>8 DEF vars, Expiry, VerifyDone
  <1>9. QED
    BY <1>1, <1>2, <1>4, <1>5, <1>6, <1>7, <1>8, StepKinds DEF Quiet, Fails

\* A code is unused until StoreCode, and only a verification that found it in
\* the storage holds it afterwards.
LEMMA CodeStaysUnused ==
    ASSUME TInv, [Next]_vars, NEW n \in Sends, CodeUnused(n),
           \A p \in Procs : req[p].step = "store" /\ req[p].ref = n => req'[p] = req[p]
    PROVE  CodeUnused(n)'
  <1> USE DEF CodeUnused, At
  <1>0. /\ tokenMap \in [Emails -> 0 .. MaxSends]
        /\ codeJwts \in [Emails -> [Sends -> Nat]]
        /\ n # 0
    BY DEF TInv, StoreOK, StorageTypeOK, HistoryOK, Sends
  <1>1. ASSUME NEW p \in Procs, NEW e \in Emails, NEW m \in Sends, VerifyEmail(p, e, m)
        PROVE  CodeUnused(n)'
    BY <1>1, BeginMoves DEF VerifyEmail, CodeMatches, storage, answers
  <1>2. ASSUME UNCHANGED <<tokenMap, codeJwts>>,
               \A q \in Procs : req'[q].step = "redeem" => req[q] = req'[q]
        PROVE  CodeUnused(n)'
    BY <1>2
  <1>3. ASSUME NEW e \in Emails, RemoveToken(e), UNCHANGED codeJwts,
               \A q \in Procs : req'[q].step = "redeem" => req[q] = req'[q]
        PROVE  CodeUnused(n)'
    BY <1>0, <1>3 DEF RemoveToken
  <1>4. ASSUME NEW p \in Procs, StoreCode(p) \/ StoreCodeFails(p)
        PROVE  CodeUnused(n)'
    <2>1. req'[p].step \in {"storeLink", "idle"} /\ \A q \in Procs \ {p} : req'[q] = req[q]
      BY <1>4, GoToMoves, FinishMoves DEF StoreCode, StoreCodeFails
    <2>2. req[p].step = "store" /\ req[p].ref # n
      BY <1>4, <2>1 DEF StoreCode, StoreCodeFails
    <2>3. /\ \/ tokenMap' = [tokenMap EXCEPT ![req[p].email] = req[p].ref]
             \/ tokenMap' = tokenMap
          /\ codeJwts' = codeJwts
      BY <1>4 DEF StoreCode, StoreCodeFails, CodeStored, StoreToken, answers
    <2>4. QED
      BY <1>0, <2>1, <2>2, <2>3
  <1>5. ASSUME NEW p \in Procs, Redeem(p) \/ RedeemFails(p)
        PROVE  CodeUnused(n)'
    <2>1. req'[p].step = "idle" /\ \A q \in Procs \ {p} : req'[q] = req[q]
      BY <1>5, FinishMoves DEF Redeem, RedeemFails
    <2>2. req[p].email \in Emails /\ req[p].ref \in Sends /\ req[p].ref # n
      BY <1>5, ReqTyped DEF Redeem, RedeemFails
    <2>3. /\ \/ tokenMap' = [tokenMap EXCEPT ![req[p].email] = 0]
             \/ tokenMap' = tokenMap
          /\ \/ codeJwts' = [codeJwts EXCEPT ![req[p].email][req[p].ref] = @ + 1]
             \/ codeJwts' = codeJwts
      BY <1>5 DEF Redeem, RedeemFails, SpendCode, RemoveToken, answers
    <2>4. \A e \in Emails : tokenMap'[e] # n
      BY <1>0, <2>2, <2>3
    <2>5. \A e \in Emails : codeJwts'[e][n] = 0
      BY <1>0, <2>2, <2>3
    <2>6. \A q \in Procs : req'[q].step = "redeem" => req'[q].ref # n
      BY <2>1
    <2>7. QED
      BY <2>4, <2>5, <2>6
  <1>6. ASSUME NEW p \in Procs,
               StoreLink(p) \/ LimiterAllows(p) \/ BurnLink(p) \/ BurnLinkFails(p)
        PROVE  CodeUnused(n)'
    <2>1. \A q \in Procs : req'[q].step = "redeem" => req[q] = req'[q]
      BY <1>6, GoToMoves DEF StoreLink, LimiterAllows, BurnLink, BurnLinkFails
    <2>2. UNCHANGED <<tokenMap, codeJwts>>
      BY <1>6 DEF StoreLink, LimiterAllows, BurnLink, BurnLinkFails, Burn,
                  storage, answers
    <2>3. QED
      BY <1>2, <2>1, <2>2
  <1>7. ASSUME NEW p \in Procs,
               \/ \E e \in Emails : SendEmail(p, e)
               \/ \E m \in Sends : VerifyLink(p, m)
        PROVE  CodeUnused(n)'
    <2>1. \A q \in Procs : req'[q].step = "redeem" => req[q] = req'[q]
      BY <1>7, BeginMoves DEF SendEmail, VerifyLink
    <2>2. UNCHANGED <<tokenMap, codeJwts>>
      BY <1>7 DEF SendEmail, VerifyLink, storage, answers
    <2>3. QED
      BY <1>2, <2>1, <2>2
  <1>8. ASSUME NEW p \in Procs,
               \/ SendRefused(p) \/ Mail(p) \/ MailFails(p) \/ SignFails(p)
               \/ StoreLinkFails(p) \/ SignLink(p)
        PROVE  CodeUnused(n)'
    <2>1. \A q \in Procs : req'[q].step = "redeem" => req[q] = req'[q]
      BY <1>8, FinishMoves
         DEF SendRefused, Mail, MailFails, SignFails, StoreLinkFails, SignLink
    <2>2. UNCHANGED <<tokenMap, codeJwts>>
      BY <1>8 DEF SendRefused, Mail, MailFails, SignFails, StoreLinkFails, SignLink,
                  storage, answers
    <2>3. QED
      BY <1>2, <2>1, <2>2
  <1>9. CASE Crash
    BY <1>0, <1>9 DEF Crash, StorageAfterCrash, Idle, storage, answers
  <1>10. CASE UNCHANGED vars \/ Expiry
    BY <1>2, <1>3, <1>10 DEF vars, Expiry, CodeExpires, LinkExpires, storage, answers
  <1>11. ASSUME NEW e \in Emails, VerifyDone(e)
         PROVE  CodeUnused(n)'
    BY <1>3, <1>11 DEF VerifyDone, answers
  <1>12. QED
    BY <1>1, <1>4, <1>5, <1>6, <1>7, <1>8, <1>9, <1>10, <1>11, StepKinds
       DEF Quiet, Fails

LEMMA NextCodesUnused ==
    TInv /\ CodesUnused /\ SendsApart /\ [Next]_vars => CodesUnused'
  <1> SUFFICES ASSUME TInv, CodesUnused, SendsApart, [Next]_vars
               PROVE  CodesUnused'
    OBVIOUS
  <1>1. ASSUME NEW n \in Sends, n > sends'
        PROVE  CodeUnused(n)'
    <2>1. n > sends
      <3>1. sends \in Nat /\ sends' \in Nat /\ sends' >= sends
        BY SendsGrow, NextHistoryOK, StorageAssumption DEF TInv, HistoryOK
      <3>2. QED
        BY <1>1, <3>1 DEF Sends
    <2>2. CodeUnused(n)
      BY <2>1 DEF CodesUnused
    <2>3. ASSUME NEW p \in Procs, req[p].step = "store", req[p].ref = n
          PROVE  FALSE
      <3>1. req[p].ref \in 1 .. sends /\ sends \in Nat
        BY <2>3, ReqTyped, StorageAssumption DEF TInv, HistoryOK
      <3>2. QED
        BY <2>1, <2>3, <3>1
    <2>4. QED
      BY <2>2, <2>3, CodeStaysUnused
  <1>2. ASSUME NEW p \in Procs, req'[p].step = "store",
               NEW n \in Sends, n = req'[p].ref
        PROVE  CodeUnused(n)'
    <2>1. CASE req'[p] = req[p]
      <3>1. CodeUnused(n)
        BY <1>2, <2>1 DEF CodesUnused
      <3>2. \A q \in Procs : req[q].step = "store" /\ req[q].ref = n => q = p
        BY <1>2, <2>1 DEF SendsApart
      <3>3. QED
        BY <2>1, <3>1, <3>2, CodeStaysUnused
    <2>2. CASE req'[p] # req[p]
      <3>1. PICK e \in Emails : SendEmail(p, e)
        BY <1>2, <2>2, NewSend
      <3>2. n = sends + 1 /\ sends \in Nat
        BY <1>2, <3>1, BeginMoves, StorageAssumption DEF SendEmail, TInv, HistoryOK
      <3>3. CodeUnused(n)
        BY <3>2 DEF CodesUnused
      <3>4. ASSUME NEW q \in Procs, req[q].step = "store", req[q].ref = n
            PROVE  FALSE
        BY <3>2, <3>4, ReqTyped
      <3>5. QED
        BY <3>3, <3>4, CodeStaysUnused
    <2>3. QED
      BY <2>1, <2>2
  <1>3. \A p \in Procs : req'[p].step = "store" => req'[p].ref \in Sends
    BY NextReqOK, NextHistoryOK, StorageAssumption DEF ReqOK, HistoryOK, Sends
  <1>4. QED
    BY <1>1, <1>2, <1>3 DEF CodesUnused, CodeUnused

LEMMA NextIInv == IInv /\ [Next]_vars => IInv'
  BY NextTInv, NextCodesUnused, NextSendsApart, NextDead, NextBudget DEF IInv

(***************************************************************************)
(* A code that was redeemed is never in the storage again, however many    *)
(* requests are interleaved, fail or crash on the way (handlers.go:194-201).*)
(***************************************************************************)
THEOREM RedeemedForGood == Spec => []RedeemedCodeStaysDead
  <1>1. IInv => RedeemedCodeStaysDead
    BY DEF IInv
  <1>2. QED
    BY <1>1, InitIInv, NextIInv, PTL DEF Spec

(***************************************************************************)
(* In memory, redemptions never outnumber the codes stored for the address *)
(* (token_storage.go:128-138).                                             *)
(***************************************************************************)
THEOREM JwtsBounded == Spec => []CodeJwtsBounded
  <1>1. IInv => CodeJwtsBounded
    <2> SUFFICES ASSUME IInv, Backend = "inmemory", NEW e \in Emails
                 PROVE  redemptions[e] <= stores[e]
      BY DEF CodeJwtsBounded
    <2>1. /\ redemptions[e] + (IF tokenMap[e] = 0 THEN 0 ELSE 1) <= stores[e]
          /\ redemptions[e] \in Nat /\ stores[e] \in Nat
      BY DEF IInv, Budget, TInv, HistoryOK
    <2>2. QED
      BY <2>1
  <1>2. QED
    BY <1>1, InitIInv, NextIInv, PTL DEF Spec

-----------------------------------------------------------------------------
(* Whose code and link it is.                                              *)

(***************************************************************************)
(* JwtNamesOwner before the answer: what is stored for an address, and what*)
(* a request under way holds for it, is of a send for that address.  A send*)
(* that has not begun has no owner, so owners never change.                *)
(***************************************************************************)
Owners ==
    /\ \A n \in Sends : n > sends => owner[n] = NoEmail
    /\ \A e \in Emails : tokenMap[e] # 0 => owner[tokenMap[e]] = e
    /\ \A n \in Sends : linkTokenMap[n] # NoEmail => owner[n] = linkTokenMap[n]
    /\ \A p \in Procs : req[p].step # "idle" => owner[req[p].ref] = req[p].email
    /\ JwtNamesOwner

\* At first there is nothing to own.
LEMMA InitOwners == Init => Owners
BY StorageAssumption DEF Init, StorageInit, Owners, JwtNamesOwner, Idle, Sends

\* Every step leaves what is stored, held and answered with its owner.
LEMMA NextOwners == TInv /\ Owners /\ [Next]_vars => Owners'
  <1> SUFFICES ASSUME TInv, Owners, [Next]_vars
               PROVE  Owners'
    OBVIOUS
  <1> USE DEF At
  <1>0. /\ tokenMap \in [Emails -> 0 .. MaxSends] /\ 0 \notin Sends
        /\ \A e \in Emails : tokenMap[e] # 0 => tokenMap[e] \in Sends
        /\ linkTokenMap \in [Sends -> Emails \cup {NoEmail}]
        /\ codeJwts \in [Emails -> [Sends -> Nat]]
        /\ linkJwts \in [Emails -> [Sends -> Nat]]
        /\ owner \in [Sends -> Emails \cup {NoEmail}]
        /\ NoEmail \notin Emails
    BY StorageAssumption DEF TInv, StoreOK, StorageTypeOK, HistoryOK, Sends
  <1>1. ASSUME NEW p \in Procs, NEW e \in Emails, SendEmail(p, e)
        PROVE  Owners'
    <2>1. /\ sends' = sends + 1 /\ sends' \in Sends
          /\ owner' = [owner EXCEPT ![sends'] = e]
          /\ UNCHANGED <<tokenMap, linkTokenMap, codeJwts, linkJwts>>
      BY <1>1, StorageAssumption
         DEF SendEmail, TInv, HistoryOK, Sends, storage, answers
    <2>2. \A n \in Sends : owner[n] # NoEmail => owner'[n] = owner[n]
      <3>1. owner[sends'] = NoEmail
        BY <2>1 DEF Owners, TInv, HistoryOK
      <3> QED BY <1>0, <2>1, <3>1
    <2>3. owner'[sends'] = e
      BY <1>0, <2>1
    <2>4. /\ req'[p].ref = sends' /\ req'[p].email = e
          /\ \A q \in Procs \ {p} : req'[q] = req[q]
      BY <1>1, BeginMoves DEF SendEmail
    <2>5. \A n \in Sends : n > sends' => owner'[n] = NoEmail
      BY <1>0, <2>1 DEF Owners, TInv, HistoryOK, Sends
    <2>6. \A f \in Emails : tokenMap'[f] # 0 => owner'[tokenMap'[f]] = f
      BY <1>0, <2>1, <2>2 DEF Owners
    <2>7. \A n \in Sends : linkTokenMap'[n] # NoEmail => owner'[n] = linkTokenMap'[n]
      BY <1>0, <2>1, <2>2 DEF Owners
    <2>8. \A q \in Procs : req'[q].step # "idle" => owner'[req'[q].ref] = req'[q].email
      <3>1. \A q \in Procs \ {p} : req[q].step # "idle" =>
                req[q].ref \in Sends /\ owner[req[q].ref] # NoEmail
        BY <1>0, ReqTyped DEF Owners
      <3> QED BY <2>2, <2>3, <2>4, <3>1 DEF Owners
    <2>9. JwtNamesOwner'
      BY <1>0, <2>1, <2>2 DEF Owners, JwtNamesOwner
    <2> QED BY <2>5, <2>6, <2>7, <2>8, <2>9 DEF Owners
  <1>2. ASSUME UNCHANGED <<sends, owner>>,
               \A e \in Emails : tokenMap'[e] # 0 => owner[tokenMap'[e]] = e,
               \A n \in Sends : linkTokenMap'[n] # NoEmail => owner[n] = linkTokenMap'[n],
               \A p \in Procs : req'[p].step # "idle" => owner[req'[p].ref] = req'[p].email,
               JwtNamesOwner'
        PROVE  Owners'
    BY <1>2 DEF Owners
  <1>3. ASSUME UNCHANGED <<sends, owner, codeJwts, linkJwts>>,
               \A e \in Emails : tokenMap'[e] \in {0, tokenMap[e]},
               \A n \in Sends : linkTokenMap'[n] \in {NoEmail, linkTokenMap[n]},
               \A p \in Procs : req'[p].step # "idle" => owner[req'[p].ref] = req'[p].email
        PROVE  Owners'
    <2>1. JwtNamesOwner'
      BY <1>3 DEF JwtNamesOwner, Owners
    <2> QED BY <1>2, <1>3, <2>1 DEF Owners
  \* What the requests hold after a step.
  <1>4. ASSUME NEW p \in Procs, NEW step, GoTo(p, step), req[p].step # "idle"
        PROVE  \A q \in Procs : req'[q].step # "idle" => owner[req'[q].ref] = req'[q].email
    BY <1>4, GoToMoves DEF Owners
  <1>5. ASSUME NEW p \in Procs, Finish(p)
        PROVE  \A q \in Procs : req'[q].step # "idle" => owner[req'[q].ref] = req'[q].email
    BY <1>5, FinishMoves DEF Owners
  <1>6. ASSUME NEW p \in Procs, NEW step, NEW e, NEW n, Begin(p, step, e, n), owner[n] = e
        PROVE  \A q \in Procs : req'[q].step # "idle" => owner[req'[q].ref] = req'[q].email
    BY <1>6, BeginMoves DEF Owners
  <1>7. ASSUME NEW p \in Procs, StoreCode(p) \/ StoreCodeFails(p)
        PROVE  Owners'
    <2>1. /\ req[p].step # "idle" /\ req[p].email \in Emails
          /\ owner[req[p].ref] = req[p].email
      BY <1>7, ReqTyped DEF StoreCode, StoreCodeFails, Owners
    <2>2. /\ \/ tokenMap' = [tokenMap EXCEPT ![req[p].email] = req[p].ref]
             \/ tokenMap' = tokenMap
          /\ UNCHANGED <<linkTokenMap, sends, owner, codeJwts, linkJwts>>
      BY <1>7 DEF StoreCode, StoreCodeFails, CodeStored, StoreToken, answers
    <2>3. \A e \in Emails : tokenMap'[e] # 0 => owner[tokenMap'[e]] = e
      BY <1>0, <2>1, <2>2 DEF Owners
    <2>4. \A q \in Procs : req'[q].step # "idle" => owner[req'[q].ref] = req'[q].email
      BY <1>4, <1>5, <1>7, <2>1 DEF StoreCode, StoreCodeFails
    <2>5. JwtNamesOwner'
      BY <2>2 DEF Owners, JwtNamesOwner
    <2> QED BY <1>2, <2>2, <2>3, <2>4, <2>5 DEF Owners
  <1>8. ASSUME NEW p \in Procs, StoreLink(p) \/ StoreLinkFails(p)
        PROVE  Owners'
    <2>1. /\ req[p].step # "idle" /\ req[p].ref \in Sends
          /\ owner[req[p].ref] = req[p].email
      BY <1>8, ReqTyped DEF StoreLink, StoreLinkFails, Owners
    <2>2. /\ \/ linkTokenMap' = [linkTokenMap EXCEPT ![req[p].ref] = req[p].email]
             \/ linkTokenMap' = linkTokenMap
          /\ UNCHANGED <<tokenMap, sends, owner, codeJwts, linkJwts>>
      BY <1>8 DEF StoreLink, StoreLinkFails, StoreLinkToken, answers
    <2>3. \A n \in Sends : linkTokenMap'[n] # NoEmail => owner[n] = linkTokenMap'[n]
      BY <1>0, <2>1, <2>2 DEF Owners
    <2>4. \A q \in Procs : req'[q].step # "idle" => owner[req'[q].ref] = req'[q].email
      BY <1>4, <1>5, <1>8, <2>1 DEF StoreLink, StoreLinkFails
    <2>5. JwtNamesOwner'
      BY <2>2 DEF Owners, JwtNamesOwner
    <2> QED BY <1>2, <2>2, <2>3, <2>4, <2>5 DEF Owners
  <1>9. ASSUME NEW p \in Procs, NEW e \in Emails, NEW n \in Sends, VerifyEmail(p, e, n)
        PROVE  Owners'
    <2>1. owner[n] = e
      BY <1>0, <1>9 DEF VerifyEmail, CodeMatches, Owners
    <2>2. Begin(p, "redeem", e, n) /\ UNCHANGED <<tokenMap, linkTokenMap, sends, owner, codeJwts, linkJwts>>
      BY <1>9 DEF VerifyEmail, storage, answers
    <2> QED BY <1>3, <1>6, <2>1, <2>2
  <1>10. ASSUME NEW p \in Procs, NEW n \in Sends, VerifyLink(p, n)
         PROVE  Owners'
    <2>1. owner[n] = linkTokenMap[n]
      BY <1>0, <1>10 DEF VerifyLink, LinkKnown, Owners
    <2>2. /\ Begin(p, "burnLink", linkTokenMap[n], n)
          /\ UNCHANGED <<tokenMap, linkTokenMap, sends, owner, codeJwts, linkJwts>>
      BY <1>10 DEF VerifyLink, storage, answers
    <2> QED BY <1>3, <1>6, <2>1, <2>2
  <1>11. ASSUME NEW p \in Procs, Redeem(p)
         PROVE  Owners'
    <2>1. /\ req[p].email \in Emails /\ req[p].ref \in Sends
          /\ owner[req[p].ref] = req[p].email
      BY <1>11, ReqTyped DEF Redeem, Owners
    <2>2. /\ \/ tokenMap' = [tokenMap EXCEPT ![req[p].email] = 0]
             \/ tokenMap' = tokenMap
          /\ \/ codeJwts' = [codeJwts EXCEPT ![req[p].email][req[p].ref] = @ + 1]
             \/ codeJwts' = codeJwts
          /\ Finish(p)
          /\ UNCHANGED <<linkTokenMap, sends, owner, linkJwts>>
      BY <1>11 DEF Redeem, SpendCode, RemoveToken
    <2>3. JwtNamesOwner'
      <3>1. \A e \in Emails, n \in Sends : codeJwts'[e][n] > 0 =>
                codeJwts[e][n] > 0 \/ (e = req[p].email /\ n = req[p].ref)
        BY <1>0, <2>1, <2>2
      <3> QED BY <2>1, <2>2, <3>1 DEF Owners, JwtNamesOwner
    <2>4. \A e \in Emails : tokenMap'[e] # 0 => owner[tokenMap'[e]] = e
      BY <1>0, <2>2 DEF Owners
    <2> QED BY <1>2, <1>5, <2>2, <2>3, <2>4 DEF Owners
  <1>12. ASSUME NEW p \in Procs, SignLink(p)
         PROVE  Owners'
    <2>1. /\ req[p].email \in Emails /\ req[p].ref \in Sends
          /\ owner[req[p].ref] = req[p].email
      BY <1>12, ReqTyped DEF SignLink, Owners
    <2>2. /\ linkJwts' = [linkJwts EXCEPT ![req[p].email][req[p].ref] = @ + 1]
          /\ Finish(p)
          /\ UNCHANGED <<tokenMap, linkTokenMap, sends, owner, codeJwts>>
      BY <1>12 DEF SignLink, storage
    <2>3. JwtNamesOwner'
      <3>1. \A e \in Emails, n \in Sends : linkJwts'[e][n] > 0 =>
                linkJwts[e][n] > 0 \/ (e = req[p].email /\ n = req[p].ref)
        BY <1>0, <2>1, <2>2
      <3> QED BY <2>1, <2>2, <3>1 DEF Owners, JwtNamesOwner
    <2> QED BY <1>2, <1>5, <2>2, <2>3 DEF Owners
  <1>13. ASSUME NEW p \in Procs,
                LimiterAllows(p) \/ SendRefused(p) \/ Mail(p) \/ MailFails(p) \/ SignFails(p)
         PROVE  Owners'
    <2>1. /\ UNCHANGED <<tokenMap, linkTokenMap, sends, owner, codeJwts, linkJwts>>
          /\ Finish(p) \/ (GoTo(p, "mail") /\ req[p].step # "idle")
      BY <1>13 DEF LimiterAllows, SendRefused, Mail, MailFails, SignFails, storage, answers
    <2> QED BY <1>3, <1>4, <1>5, <2>1
  <1>14. ASSUME NEW p \in Procs, RedeemFails(p)
         PROVE  Owners'
    <2>1. /\ RemoveToken(req[p].email) \/ tokenMap' = tokenMap
          /\ Finish(p)
          /\ UNCHANGED <<linkTokenMap, sends, owner, codeJwts, linkJwts>>
      BY <1>14 DEF RedeemFails, answers
    <2>2. \A e \in Emails : tokenMap'[e] \in {0, tokenMap[e]}
      BY <1>0, <2>1 DEF RemoveToken
    <2> QED BY <1>3, <1>5, <2>1, <2>2
  <1>15. ASSUME NEW p \in Procs, BurnLink(p) \/ BurnLinkFails(p)
         PROVE  Owners'
    <2>1. /\ RemoveLinkToken(req[p].ref) \/ linkTokenMap' = linkTokenMap
          /\ GoTo(p, "signLink") /\ req[p].step # "idle"
          /\ UNCHANGED <<tokenMap, sends, owner, codeJwts, linkJwts>>
      BY <1>15 DEF BurnLink, BurnLinkFails, Burn, answers
    <2>2. \A n \in Sends : linkTokenMap'[n] \in {NoEmail, linkTokenMap[n]}
      BY <1>0, <2>1 DEF RemoveLinkToken
    <2> QED BY <1>3, <1>4, <2>1, <2>2
  <1>16. CASE Crash
    <2>1. /\ \A e \in Emails : tokenMap'[e] \in {0, tokenMap[e]}
          /\ \A n \in Sends : linkTokenMap'[n] \in {NoEmail, linkTokenMap[n]}
          /\ \A q \in Procs : req'[q].step = "idle"
          /\ UNCHANGED <<sends, owner, codeJwts, linkJwts>>
      BY <1>16 DEF Crash, StorageAfterCrash, storage, answers, Idle
    <2> QED BY <1>3, <2>1
  <1>17. CASE UNCHANGED vars \/ Expiry \/ \E e \in Emails : VerifyDone(e)
    <2>1. /\ \A e \in Emails : tokenMap'[e] \in {0, tokenMap[e]}
          /\ \A n \in Sends : linkTokenMap'[n] \in {NoEmail, linkTokenMap[n]}
          /\ UNCHANGED <<req, sends, owner, codeJwts, linkJwts>>
      BY <1>0, <1>17
         DEF vars, Expiry, CodeExpires, LinkExpires, VerifyDone, RemoveToken,
             RemoveLinkToken, storage, answers
    <2>2. \A p \in Procs : req'[p].step # "idle" => owner[req'[p].ref] = req'[p].email
      BY <2>1 DEF Owners
    <2> QED BY <1>3, <2>1, <2>2
  <1>18. QED
    BY <1>1, <1>7, <1>8, <1>9, <1>10, <1>11, <1>12, <1>13, <1>14, <1>15, <1>16, <1>17,
       StepKinds
       DEF Quiet, Fails

(***************************************************************************)
(* A JWT names the owner of the code or the link it was answered on        *)
(* (handlers.go:171-188, 232-260), whatever is interleaved with it.        *)
(***************************************************************************)
THEOREM JwtIsForOwner == Spec => []JwtNamesOwner
  <1>1. Owners => JwtNamesOwner
    BY DEF Owners
  <1>2. QED
    BY <1>1, InitTInv, NextTInv, InitOwners, NextOwners, PTL DEF Spec

-----------------------------------------------------------------------------
(* Without setbacks.                                                       *)

LinkUnused(n) ==
    /\ linkTokenMap[n] = NoEmail
    /\ \A e \in Emails : linkJwts[e][n] = 0
    /\ \A p \in Procs : req[p].step \in {"burnLink", "signLink"} => req[p].ref # n

(***************************************************************************)
(* AnsweredLinkIsDead before the answer: nothing refers to a link before   *)
(* its send has stored it, and the request that answers it has removed it. *)
(***************************************************************************)
LinksUsedUp ==
    setbacks = 0 =>
        /\ \A p \in Procs : req[p].step \in {"store", "storeLink"} => LinkUnused(req[p].ref)
        /\ \A p \in Procs : req[p].step = "signLink" => linkTokenMap[req[p].ref] = NoEmail
        /\ AnsweredLinkIsDead

SInv == IInv /\ Owners /\ LinksUsedUp /\ LiveCodeIsMailed

\* The invariant of the properties below holds at first.
LEMMA InitSInv == Init => SInv
  <1> SUFFICES ASSUME Init
               PROVE  SInv
    OBVIOUS
  <1>1. /\ \A p \in Procs : req[p].step = "idle"
        /\ \A e \in Emails : tokenMap[e] = 0 /\ \A n \in Sends : linkJwts[e][n] = 0
    BY DEF Init, StorageInit, Idle
  <1>2. LinksUsedUp /\ LiveCodeIsMailed
    BY <1>1 DEF LinksUsedUp, LiveCodeIsMailed, AnsweredLinkIsDead
  <1>3. QED
    BY <1>2, InitIInv, InitOwners DEF SInv

\* The steps that are possible as long as there is no setback.
Smooth ==
    \/ \E p \in Procs :
           \/ \E e \in Emails : SendEmail(p, e)
           \/ StoreCode(p) \/ StoreLink(p) \/ LimiterAllows(p) \/ Mail(p)
           \/ \E e \in Emails, n \in Sends : VerifyEmail(p, e, n)
           \/ Redeem(p)
           \/ \E n \in Sends : VerifyLink(p, n)
           \/ BurnLink(p) \/ SignLink(p)
    \/ UNCHANGED vars \/ Expiry
    \/ \E e \in Emails : VerifyDone(e)

\* A state without setbacks is reached by the other steps alone.
LEMMA SmoothSteps ==
    ASSUME TInv, [Next]_vars, setbacks' = 0
    PROVE  setbacks = 0 /\ Smooth
  <1>1. setbacks \in Nat
    BY IssuerAssumption DEF TInv, HistoryOK
  <1>2. ASSUME NEW kind, Setback(kind)
        PROVE  FALSE
    BY <1>1, <1>2 DEF Setback
  <1>3. ~Crash
    BY <1>2 DEF Crash
  <1>4. ASSUME NEW p \in Procs,
               Fails(p) \/ SendRefused(p) \/ MailFails(p) \/ SignFails(p)
        PROVE  FALSE
    BY <1>2, <1>4
       DEF Fails, StoreCodeFails, StoreLinkFails, RedeemFails, BurnLinkFails, StorageFails,
           SendRefused, MailFails, SignFails
  <1>5. ASSUME NEW p \in Procs,
               StoreCode(p) \/ Redeem(p) \/ StoreLink(p) \/ BurnLink(p) \/ SignLink(p)
        PROVE  Smooth
    BY <1>5 DEF Smooth
  <1>6. ASSUME NEW p \in Procs, Quiet(p)
        PROVE  Smooth
    BY <1>4, <1>6 DEF Smooth, Quiet
  <1>7. ASSUME UNCHANGED vars \/ Expiry \/ \E e \in Emails : VerifyDone(e)
        PROVE  Smooth
    BY <1>7 DEF Smooth
  <1>8. Smooth
    BY <1>3, <1>4, <1>5, <1>6, <1>7, StepKinds
  <1>9. setbacks' = setbacks
    BY <1>8
       DEF Smooth, SendEmail, StoreCode, StoreLink, LimiterAllows, Mail, VerifyEmail, Redeem,
           VerifyLink, BurnLink, SignLink, vars, Expiry, VerifyDone
  <1>10. QED
    BY <1>8, <1>9

\* A code that is stored is on its way, until it is mailed or replaced.
LEMMA NextLiveCode == TInv /\ LiveCodeIsMailed /\ [Next]_vars => LiveCodeIsMailed'
  <1> DEFINE Underway(p, n) == req[p].step \in {"storeLink", "limit", "mail"} /\ req[p].ref = n
             NowUnderway(p, n) == req'[p].step \in {"storeLink", "limit", "mail"} /\ req'[p].ref = n
  <1> SUFFICES ASSUME TInv, LiveCodeIsMailed, [Next]_vars, setbacks' = 0,
                      NEW e \in Emails, tokenMap'[e] # 0
               PROVE  tokenMap'[e] \in mailed' \/ \E p \in Procs : NowUnderway(p, tokenMap'[e])
    BY DEF LiveCodeIsMailed
  <1> DEFINE Goal == tokenMap'[e] \in mailed' \/ \E p \in Procs : NowUnderway(p, tokenMap'[e])
  <1> USE DEF At
  <1>0. /\ tokenMap \in [Emails -> 0 .. MaxSends]
        /\ tokenMap[e] # 0 =>
               tokenMap[e] \in mailed \/ \E p \in Procs : Underway(p, tokenMap[e])
    BY SmoothSteps DEF TInv, StoreOK, StorageTypeOK, LiveCodeIsMailed
  <1>1. ASSUME tokenMap'[e] \in {0, tokenMap[e]}, mailed \subseteq mailed',
               \A p \in Procs, n \in Sends : Underway(p, n) => NowUnderway(p, n) \/ n \in mailed'
        PROVE  Goal
    <2>1. tokenMap'[e] = tokenMap[e] /\ tokenMap[e] \in Sends
      BY <1>0, <1>1, StorageAssumption DEF Sends
    <2> QED BY <1>0, <1>1, <2>1
  <1>2. ASSUME NEW p \in Procs, StoreCode(p)
        PROVE  Goal
    <2>1. /\ req[p].step = "store" /\ req'[p].step = "storeLink" /\ req'[p].ref = req[p].ref
          /\ \A q \in Procs \ {p} : req'[q] = req[q]
          /\ mailed' = mailed
          /\ tokenMap' = [tokenMap EXCEPT ![req[p].email] = req[p].ref]
      BY <1>2, GoToMoves DEF StoreCode, CodeStored, StoreToken
    <2>2. CASE req[p].email = e
      <3>1. tokenMap'[e] = req'[p].ref
        BY <1>0, <2>1, <2>2
      <3> QED BY <2>1, <3>1
    <2>3. CASE req[p].email # e
      <3>1. tokenMap'[e] = tokenMap[e]
        BY <1>0, <2>1, <2>3
      <3>2. \A q \in Procs, n \in Sends : Underway(q, n) => NowUnderway(q, n)
        BY <2>1
      <3> QED BY <1>1, <2>1, <3>1, <3>2
    <2> QED BY <2>2, <2>3
  <1>3. ASSUME NEW p \in Procs, Mail(p)
        PROVE  Goal
    <2>1. /\ req[p].step = "mail" /\ mailed' = mailed \cup {req[p].ref} /\ tokenMap' = tokenMap
          /\ \A q \in Procs \ {p} : req'[q] = req[q]
      BY <1>3, FinishMoves DEF Mail, Letter, storage
    <2>2. \A q \in Procs, n \in Sends : Underway(q, n) => NowUnderway(q, n) \/ n \in mailed'
      BY <2>1
    <2> QED BY <1>1, <2>1, <2>2
  <1>4. ASSUME NEW p \in Procs, StoreLink(p) \/ LimiterAllows(p)
        PROVE  Goal
    <2>1. /\ req'[p].step \in {"limit", "mail"} /\ req'[p].ref = req[p].ref
          /\ \A q \in Procs \ {p} : req'[q] = req[q]
          /\ mailed' = mailed /\ tokenMap' = tokenMap
      BY <1>4, GoToMoves DEF StoreLink, LimiterAllows, storage
    <2>2. \A q \in Procs, n \in Sends : Underway(q, n) => NowUnderway(q, n)
      BY <2>1
    <2> QED BY <1>1, <2>1, <2>2
  <1>5. ASSUME NEW p \in Procs,
               \/ \E f \in Emails : SendEmail(p, f)
               \/ \E f \in Emails, n \in Sends : VerifyEmail(p, f, n)
               \/ \E n \in Sends : VerifyLink(p, n)
               \/ Redeem(p) \/ BurnLink(p) \/ SignLink(p)
        PROVE  Goal
    <2>1. /\ req[p].step \in {"idle", "redeem", "burnLink", "signLink"}
          /\ \A q \in Procs \ {p} : req'[q] = req[q]
      BY <1>5, BeginMoves, GoToMoves, FinishMoves
         DEF SendEmail, VerifyEmail, VerifyLink, Redeem, BurnLink, SignLink
    <2>2. mailed' = mailed /\ tokenMap'[e] \in {0, tokenMap[e]}
      BY <1>0, <1>5
         DEF SendEmail, VerifyEmail, VerifyLink, Redeem, BurnLink, Burn, SignLink, SpendCode,
             RemoveToken, storage
    <2>3. \A q \in Procs, n \in Sends : Underway(q, n) => NowUnderway(q, n)
      BY <2>1
    <2> QED BY <1>1, <2>2, <2>3
  <1>6. CASE UNCHANGED vars \/ Expiry \/ \E f \in Emails : VerifyDone(f)
    <2>1. mailed' = mailed /\ req' = req /\ tokenMap'[e] \in {0, tokenMap[e]}
      BY <1>0, <1>6
         DEF vars, Expiry, CodeExpires, LinkExpires, VerifyDone, RemoveToken, storage
    <2>2. \A q \in Procs, n \in Sends : Underway(q, n) => NowUnderway(q, n)
      BY <2>1
    <2> QED BY <1>1, <2>1, <2>2
  <1>7. QED
    BY <1>2, <1>3, <1>4, <1>5, <1>6, SmoothSteps DEF Smooth

\* A link is used once it is stored, and removed before it is answered.
LEMMA NextLinksUsedUp ==
    TInv /\ SendsApart /\ Owners /\ LinksUsedUp /\ [Next]_vars => LinksUsedUp'
  <1> SUFFICES ASSUME TInv, SendsApart, Owners, LinksUsedUp, [Next]_vars, setbacks' = 0
               PROVE  LinksUsedUp'
    BY DEF LinksUsedUp
  <1> DEFINE StillUnused(n) ==
                 /\ linkTokenMap'[n] = NoEmail
                 /\ \A e \in Emails : linkJwts'[e][n] = 0
                 /\ \A p \in Procs : req'[p].step \in {"burnLink", "signLink"} => req'[p].ref # n
  <1> USE DEF At
  <1>0. /\ setbacks = 0
        /\ linkTokenMap \in [Sends -> Emails \cup {NoEmail}]
        /\ linkJwts \in [Emails -> [Sends -> Nat]]
        /\ NoEmail \notin Emails
    BY SmoothSteps, StorageAssumption DEF TInv, StoreOK, StorageTypeOK, HistoryOK
  <1>a. /\ \A p \in Procs : req[p].step \in {"store", "storeLink"} => LinkUnused(req[p].ref)
        /\ \A p \in Procs : req[p].step = "signLink" => linkTokenMap[req[p].ref] = NoEmail
        /\ \A e \in Emails, n \in Sends : linkJwts[e][n] > 0 => linkTokenMap[n] = NoEmail
    BY <1>0 DEF LinksUsedUp, AnsweredLinkIsDead
  <1>b. ASSUME \A p \in Procs : req'[p].step \in {"store", "storeLink"} => StillUnused(req'[p].ref),
               \A p \in Procs : req'[p].step = "signLink" => linkTokenMap'[req'[p].ref] = NoEmail,
               \A e \in Emails, n \in Sends : linkJwts'[e][n] > 0 => linkTokenMap'[n] = NoEmail
        PROVE  LinksUsedUp'
    BY <1>b DEF LinksUsedUp, AnsweredLinkIsDead, LinkUnused
  <1>1. ASSUME NEW p \in Procs, NEW e \in Emails, SendEmail(p, e)
        PROVE  LinksUsedUp'
    <2>1. /\ req'[p].step = "store" /\ req'[p].ref = sends + 1
          /\ \A q \in Procs \ {p} : req'[q] = req[q]
          /\ UNCHANGED <<linkTokenMap, linkJwts>>
          /\ sends + 1 \in Sends /\ sends \in Nat
      <3>1. sends + 1 \in Sends /\ sends \in Nat
        BY <1>1, StorageAssumption DEF SendEmail, TInv, HistoryOK, Sends
      <3>2. sends' = sends + 1 /\ Begin(p, "store", e, sends')
            /\ UNCHANGED <<linkTokenMap, linkJwts>>
        BY <1>1 DEF SendEmail, storage, answers
      <3>3. QED
        BY <3>1, <3>2, BeginMoves
    <2>2. LinkUnused(sends + 1)
      <3>1. linkTokenMap[sends + 1] = NoEmail
        BY <2>1 DEF TInv, StoreOK, LinksBegun
      <3>2. owner[sends + 1] = NoEmail
        BY <2>1 DEF Owners
      <3>3. ASSUME NEW f \in Emails
            PROVE  linkJwts[f][sends + 1] = 0
        <4>1. linkJwts[f][sends + 1] \in Nat
          BY <1>0, <2>1
        <4>2. ~(linkJwts[f][sends + 1] > 0)
          BY <1>0, <2>1, <3>2 DEF Owners, JwtNamesOwner
        <4> QED BY <4>1, <4>2
      <3>4. \A q \in Procs : req[q].step # "idle" => req[q].ref # sends + 1
        BY <2>1, ReqTyped
      <3> QED BY <3>1, <3>3, <3>4 DEF LinkUnused
    <2>3. \A n \in Sends : LinkUnused(n) => StillUnused(n)
      BY <2>1 DEF LinkUnused
    <2>4. \A q \in Procs : req'[q].step \in {"store", "storeLink"} => StillUnused(req'[q].ref)
      <3>1. \A q \in Procs : req[q].step # "idle" => req[q].ref \in Sends
        BY ReqTyped
      <3> QED BY <1>a, <2>1, <2>2, <2>3, <3>1
    <2> QED BY <1>a, <1>b, <2>1, <2>4
  \* A step after which no more requests are at the steps that matter.
  <1>2. ASSUME \A n \in Sends : linkTokenMap'[n] \in {NoEmail, linkTokenMap[n]},
               linkJwts' = linkJwts,
               \A q \in Procs : \/ req'[q] = req[q]
                                \/ req'[q].step \notin {"store", "storeLink", "burnLink", "signLink"}
        PROVE  LinksUsedUp'
    <2>1. \A n \in Sends : LinkUnused(n) => StillUnused(n)
      BY <1>2 DEF LinkUnused
    <2>2. \A q \in Procs : req[q].step # "idle" => req[q].ref \in Sends
      BY ReqTyped
    <2> QED BY <1>a, <1>b, <1>2, <2>1, <2>2
  <1>3. ASSUME NEW p \in Procs, StoreCode(p)
        PROVE  LinksUsedUp'
    <2>1. /\ req[p].step = "store" /\ req'[p].step = "storeLink" /\ req'[p].ref = req[p].ref
          /\ \A q \in Procs \ {p} : req'[q] = req[q]
          /\ UNCHANGED <<linkTokenMap, linkJwts>>
      BY <1>3, GoToMoves DEF StoreCode, answers
    <2>2. \A n \in Sends : LinkUnused(n) => StillUnused(n)
      BY <2>1 DEF LinkUnused
    <2>3. \A q \in Procs : req[q].step # "idle" => req[q].ref \in Sends
      BY ReqTyped
    <2> QED BY <1>a, <1>b, <2>1, <2>2, <2>3
  <1>4. ASSUME NEW p \in Procs, StoreLink(p)
        PROVE  LinksUsedUp'
    <2>1. /\ req[p].step = "storeLink" /\ req'[p].step = "limit"
          /\ \A q \in Procs \ {p} : req'[q] = req[q]
          /\ linkTokenMap' = [linkTokenMap EXCEPT ![req[p].ref] = req[p].email]
          /\ linkJwts' = linkJwts
      BY <1>4, GoToMoves DEF StoreLink, StoreLinkToken, answers
    <2>2. LinkUnused(req[p].ref) /\ req[p].ref \in Sends
      BY <1>a, <2>1, ReqTyped
    <2>3. \A n \in Sends : n # req[p].ref => linkTokenMap'[n] = linkTokenMap[n]
      BY <1>0, <2>1
    <2>4. ASSUME NEW q \in Procs, req'[q].step \in {"store", "storeLink"}
          PROVE  StillUnused(req'[q].ref)
      <3>1. q # p /\ req'[q] = req[q] /\ req[q].ref \in Sends /\ req[q].ref # req[p].ref
        BY <2>1, <2>4, ReqTyped DEF SendsApart
      <3>2. LinkUnused(req[q].ref)
        BY <1>a, <2>4, <3>1
      <3> QED BY <2>1, <2>3, <3>1, <3>2 DEF LinkUnused
    <2>5. ASSUME NEW q \in Procs, req'[q].step = "signLink"
          PROVE  linkTokenMap'[req'[q].ref] = NoEmail
      <3>1. q # p /\ req'[q] = req[q] /\ req[q].ref \in Sends /\ req[q].ref # req[p].ref
        BY <2>1, <2>2, <2>5, ReqTyped DEF LinkUnused
      <3> QED BY <1>a, <2>3, <2>5, <3>1
    <2>6. ASSUME NEW e \in Emails, NEW n \in Sends, linkJwts'[e][n] > 0
          PROVE  linkTokenMap'[n] = NoEmail
      <3>1. n # req[p].ref
        BY <2>1, <2>2, <2>6 DEF LinkUnused
      <3> QED BY <1>a, <2>1, <2>3, <2>6, <3>1
    <2> QED BY <1>b, <2>4, <2>5, <2>6
  <1>5. ASSUME NEW p \in Procs, NEW n \in Sends, VerifyLink(p, n)
        PROVE  LinksUsedUp'
    <2>1. /\ linkTokenMap[n] # NoEmail
          /\ req'[p].step = "burnLink" /\ req'[p].ref = n
          /\ \A q \in Procs \ {p} : req'[q] = req[q]
          /\ UNCHANGED <<linkTokenMap, linkJwts>>
      BY <1>5, BeginMoves DEF VerifyLink, LinkKnown, storage, answers
    <2>2. \A m \in Sends : LinkUnused(m) => StillUnused(m)
      BY <2>1 DEF LinkUnused
    <2>3. \A q \in Procs : req[q].step # "idle" => req[q].ref \in Sends
      BY ReqTyped
    <2> QED BY <1>a, <1>b, <2>1, <2>2, <2>3
  <1>6. ASSUME NEW p \in Procs, BurnLink(p)
        PROVE  LinksUsedUp'
    <2>1. /\ req[p].step = "burnLink" /\ req'[p].step = "signLink" /\ req'[p].ref = req[p].ref
          /\ \A q \in Procs \ {p} : req'[q] = req[q]
          /\ linkTokenMap' = [linkTokenMap EXCEPT ![req[p].ref] = NoEmail]
          /\ linkJwts' = linkJwts
      BY <1>6, GoToMoves DEF BurnLink, Burn, RemoveLinkToken, answers
    <2>2. \A q \in Procs : req[q].step # "idle" => req[q].ref \in Sends
      BY ReqTyped
    <2>3. \A n \in Sends : linkTokenMap'[n] \in {NoEmail, linkTokenMap[n]}
      BY <1>0, <2>1
    <2>4. linkTokenMap'[req[p].ref] = NoEmail
      BY <1>0, <2>1, <2>2
    <2>5. \A m \in Sends : LinkUnused(m) => StillUnused(m)
      BY <2>1, <2>3 DEF LinkUnused
    <2> QED BY <1>a, <1>b, <2>1, <2>2, <2>3, <2>4, <2>5
  <1>7. ASSUME NEW p \in Procs, SignLink(p)
        PROVE  LinksUsedUp'
    <2>1. /\ req[p].step = "signLink" /\ req'[p].step = "idle"
          /\ \A q \in Procs \ {p} : req'[q] = req[q]
          /\ linkJwts' = [linkJwts EXCEPT ![req[p].email][req[p].ref] = @ + 1]
          /\ linkTokenMap' = linkTokenMap
      BY <1>7, FinishMoves DEF SignLink, storage
    <2>2. req[p].email \in Emails /\ \A q \in Procs : req[q].step # "idle" => req[q].ref \in Sends
      BY <2>1, ReqTyped
    <2>3. \A e \in Emails, n \in Sends :
              linkJwts'[e][n] = linkJwts[e][n] \/ n = req[p].ref
      BY <1>0, <2>1, <2>2
    <2>4. \A n \in Sends : LinkUnused(n) => StillUnused(n)
      BY <2>1, <2>3 DEF LinkUnused
    <2>5. \A e \in Emails, n \in Sends : linkJwts'[e][n] > 0 => linkTokenMap'[n] = NoEmail
      BY <1>a, <2>1, <2>3
    <2> QED BY <1>a, <1>b, <2>1, <2>2, <2>4, <2>5
  <1>8. ASSUME NEW p \in Procs,
               \/ \E e \in Emails, n \in Sends : VerifyEmail(p, e, n)
               \/ LimiterAllows(p) \/ Mail(p) \/ Redeem(p)
        PROVE  LinksUsedUp'
    <2>1. /\ req'[p].step \in {"redeem", "mail", "idle"}
          /\ \A q \in Procs \ {p} : req'[q] = req[q]
          /\ UNCHANGED <<linkTokenMap, linkJwts>>
      BY <1>8, BeginMoves, GoToMoves, FinishMoves
         DEF VerifyEmail, LimiterAllows, Mail, Redeem, storage, answers
    <2> QED BY <1>2, <2>1
  <1>9. CASE UNCHANGED vars \/ Expiry \/ \E e \in Emails : VerifyDone(e)
    <2>1. /\ \A n \in Sends : linkTokenMap'[n] \in {NoEmail, linkTokenMap[n]}
          /\ UNCHANGED <<req, linkJwts>>
      BY <1>0, <1>9
         DEF vars, Expiry, CodeExpires, LinkExpires, VerifyDone, RemoveLinkToken,
             storage, answers
    <2> QED BY <1>2, <2>1
  <1>10. QED
    BY <1>1, <1>3, <1>4, <1>5, <1>6, <1>7, <1>8, <1>9, SmoothSteps DEF Smooth

\* Every step keeps the invariant.
LEMMA NextSInv == SInv /\ [Next]_vars => SInv'
  <1> SUFFICES ASSUME SInv, [Next]_vars
               PROVE  SInv'
    OBVIOUS
  <1>1. IInv' /\ TInv /\ SendsApart
    BY NextIInv DEF SInv, IInv
  <1>2. Owners' /\ LinksUsedUp' /\ LiveCodeIsMailed'
    BY <1>1, NextOwners, NextLinksUsedUp, NextLiveCode DEF SInv
  <1>3. QED
    BY <1>1, <1>2 DEF SInv

(***************************************************************************)
(* A link that was answered leads nowhere any more, as long as its removal *)
(* does not fail (handlers.go:238-244).                                    *)
(***************************************************************************)
THEOREM AnsweredForGood == Spec => []AnsweredLinkIsDead
  <1>1. SInv => AnsweredLinkIsDead
    BY DEF SInv, LinksUsedUp, AnsweredLinkIsDead
  <1>2. QED
    BY <1>1, InitSInv, NextSInv, PTL DEF Spec

(***************************************************************************)
(* Without a setback the code that counts is one its owner is sent         *)
(* (handlers.go:313-359), however the sends for an address interleave.     *)
(***************************************************************************)
THEOREM LiveCodeReachesOwner == Spec => []LiveCodeIsMailed
  <1>1. SInv => LiveCodeIsMailed
    BY DEF SInv
  <1>2. QED
    BY <1>1, InitSInv, NextSInv, PTL DEF Spec
-----------------------------------------------------------------------------
(* What a step does to the secrets, and to the requests that hold them.    *)

\* Requests come to hold a code by VerifyEmail and answer it by Redeem.
LEMMA CodeRequests ==
    ASSUME TInv, [Next]_vars
    PROVE  \/ \E p \in Procs, e \in Emails, n \in Sends : VerifyEmail(p, e, n)
           \/ \E p \in Procs : Redeem(p)
           \/ /\ codeJwts' = codeJwts
              /\ \A q \in Procs : req'[q].step = "redeem" => req'[q] = req[q]
  <1> DEFINE Others == /\ codeJwts' = codeJwts
                       /\ \A q \in Procs : req'[q].step = "redeem" => req'[q] = req[q]
  <1>1. ASSUME NEW p \in Procs, NEW step, step # "redeem", codeJwts' = codeJwts,
               GoTo(p, step) \/ Finish(p) \/ \E e, n : Begin(p, step, e, n)
        PROVE  Others
    BY <1>1, GoToMoves, FinishMoves, BeginMoves
  <1>2. ASSUME NEW p \in Procs,
               \/ \E e \in Emails : SendEmail(p, e)
               \/ \E n \in Sends : VerifyLink(p, n)
               \/ StoreCode(p) \/ StoreLink(p) \/ LimiterAllows(p)
               \/ BurnLink(p) \/ BurnLinkFails(p)
        PROVE  Others
    <2>1. /\ codeJwts' = codeJwts
          /\ \E step : /\ step # "redeem"
                       /\ GoTo(p, step) \/ \E e, n : Begin(p, step, e, n)
      BY <1>2 DEF SendEmail, VerifyLink, StoreCode, StoreLink, LimiterAllows, BurnLink,
                  BurnLinkFails, answers
    <2>2. QED
      BY <1>1, <2>1
  <1>3. ASSUME NEW p \in Procs,
               \/ StoreCodeFails(p) \/ StoreLinkFails(p) \/ RedeemFails(p)
               \/ SendRefused(p) \/ Mail(p) \/ MailFails(p) \/ SignLink(p) \/ SignFails(p)
        PROVE  Others
    <2>1. codeJwts' = codeJwts /\ Finish(p)
      BY <1>3 DEF StoreCodeFails, StoreLinkFails, RedeemFails, SendRefused, Mail, MailFails,
                  SignLink, SignFails, answers
    <2>2. QED
      BY <1>1, <2>1
  <1>4. ASSUME Crash
        PROVE  Others
    BY <1>4 DEF Crash, Idle, answers
  <1>5. ASSUME UNCHANGED vars \/ Expiry \/ \E e \in Emails : VerifyDone(e)
        PROVE  Others
    BY <1>5 DEF vars, Expiry, VerifyDone, answers
  <1> HIDE DEF Others
  <1>6. \/ \E p \in Procs, e \in Emails, n \in Sends : VerifyEmail(p, e, n)
        \/ \E p \in Procs : Redeem(p)
        \/ Others
    BY <1>2, <1>3, <1>4, <1>5, StepKinds DEF Quiet, Fails
  <1>7. QED
    BY <1>6 DEF Others

\* Requests come to hold a link by VerifyLink, go on when they have removed it
\* or not, and answer it by SignLink.
LEMMA LinkRequests ==
    ASSUME TInv, [Next]_vars
    PROVE  \/ \E p \in Procs, n \in Sends : VerifyLink(p, n)
           \/ \E p \in Procs : BurnLink(p) \/ BurnLinkFails(p) \/ SignLink(p)
           \/ /\ linkJwts' = linkJwts
              /\ \A q \in Procs : req'[q].step \in {"burnLink", "signLink"} => req'[q] = req[q]
  <1> DEFINE Linked == {"burnLink", "signLink"}
             Others == /\ linkJwts' = linkJwts
                       /\ \A q \in Procs : req'[q].step \in Linked => req'[q] = req[q]
  <1>1. ASSUME NEW p \in Procs, NEW step, step \notin Linked, linkJwts' = linkJwts,
               GoTo(p, step) \/ Finish(p) \/ \E e, n : Begin(p, step, e, n)
        PROVE  Others
    BY <1>1, GoToMoves, FinishMoves, BeginMoves
  <1>2. ASSUME NEW p \in Procs,
               \/ \E e \in Emails : SendEmail(p, e)
               \/ \E e \in Emails, n \in Sends : VerifyEmail(p, e, n)
               \/ StoreCode(p) \/ StoreLink(p) \/ LimiterAllows(p)
        PROVE  Others
    <2>1. /\ linkJwts' = linkJwts
          /\ \E step : /\ step \notin Linked
                       /\ GoTo(p, step) \/ \E e, n : Begin(p, step, e, n)
      BY <1>2 DEF SendEmail, VerifyEmail, StoreCode, StoreLink, LimiterAllows, answers
    <2>2. QED
      BY <1>1, <2>1
  <1>3. ASSUME NEW p \in Procs,
               \/ StoreCodeFails(p) \/ StoreLinkFails(p) \/ Redeem(p) \/ RedeemFails(p)
               \/ SendRefused(p) \/ Mail(p) \/ MailFails(p) \/ SignFails(p)
        PROVE  Others
    <2>1. linkJwts' = linkJwts /\ Finish(p)
      BY <1>3 DEF StoreCodeFails, StoreLinkFails, Redeem, RedeemFails, SendRefused, Mail,
                  MailFails, SignFails, answers
    <2>2. "idle" \notin Linked
      OBVIOUS
    <2>3. QED
      BY <1>1, <2>1, <2>2
  <1>4. ASSUME Crash
        PROVE  Others
    BY <1>4 DEF Crash, Idle, answers
  <1>5. ASSUME UNCHANGED vars \/ Expiry \/ \E e \in Emails : VerifyDone(e)
        PROVE  Others
    BY <1>5 DEF vars, Expiry, VerifyDone, answers
  <1> HIDE DEF Others
  <1>6. \/ \E p \in Procs, n \in Sends : VerifyLink(p, n)
        \/ \E p \in Procs : BurnLink(p) \/ BurnLinkFails(p) \/ SignLink(p)
        \/ Others
    BY <1>2, <1>3, <1>4, <1>5, StepKinds DEF Quiet, Fails
  <1>7. QED
    BY <1>6 DEF Others

-----------------------------------------------------------------------------
(* How often a code or a link can be used.                                 *)

Holding(p, steps, e, n) == req[p].step \in steps /\ req[p].email = e /\ req[p].ref = n

\* The requests that have found the code, or the link, and are not done with it.
CodeHolders(e, n) == {p \in Procs : Holding(p, {"redeem"}, e, n)}

LinkHolders(e, n) == {p \in Procs : Holding(p, {"burnLink", "signLink"}, e, n)}

(***************************************************************************)
(* The JWTs answered on one code or link and those that may still come of  *)
(* it are no more than the goroutines: a request joins the holders only    *)
(* before the first answer, and leaves them with at most one JWT.          *)
(***************************************************************************)
FewCodeHolders ==
    \A e \in Emails, n \in Sends :
        codeJwts[e][n] + Cardinality(CodeHolders(e, n)) <= Cardinality(Procs)

FewLinkHolders ==
    setbacks = 0 =>
        \A e \in Emails, n \in Sends :
            linkJwts[e][n] + Cardinality(LinkHolders(e, n)) <= Cardinality(Procs)

\* What the cardinalities of sets of goroutines need.
LEMMA SomeProcs ==
    ASSUME IsFiniteSet(Procs), NEW S \in SUBSET Procs
    PROVE  /\ IsFiniteSet(S)
           /\ Cardinality(S) \in Nat /\ Cardinality(Procs) \in Nat
           /\ Cardinality(S) <= Cardinality(Procs)
           /\ \A T \in SUBSET S : Cardinality(T) <= Cardinality(S)
           /\ \A p \in S : Cardinality(S \ {p}) = Cardinality(S) - 1
  <1>1. IsFiniteSet(S) /\ Cardinality(S) <= Cardinality(Procs)
    BY FS_Subset
  <1>2. Cardinality(S) \in Nat /\ Cardinality(Procs) \in Nat
    BY <1>1, FS_CardinalityType
  <1>3. \A T \in SUBSET S : Cardinality(T) <= Cardinality(S)
    BY <1>1, FS_Subset
  <1>4. \A p \in S : Cardinality(S \ {p}) = Cardinality(S) - 1
    BY <1>1, FS_RemoveElement
  <1>5. QED
    BY <1>1, <1>2, <1>3, <1>4

\* A request that finds the code finds it unanswered; one that answers lets go.
LEMMA NextFewCodeHolders ==
    ASSUME IsFiniteSet(Procs), TInv, RedeemedCodeStaysDead, FewCodeHolders, [Next]_vars
    PROVE  FewCodeHolders'
  <1> SUFFICES ASSUME NEW e \in Emails, NEW n \in Sends
               PROVE  codeJwts'[e][n] + Cardinality(CodeHolders(e, n)') <= Cardinality(Procs)
    BY DEF FewCodeHolders
  <1> DEFINE Goal == codeJwts'[e][n] + Cardinality(CodeHolders(e, n)') <= Cardinality(Procs)
             H == CodeHolders(e, n)
             H1 == CodeHolders(e, n)'
  <1> USE DEF At
  <1>0. /\ H \subseteq Procs /\ H1 \subseteq Procs
        /\ codeJwts \in [Emails -> [Sends -> Nat]] /\ codeJwts[e][n] \in Nat
        /\ codeJwts[e][n] + Cardinality(H) <= Cardinality(Procs)
    BY DEF CodeHolders, TInv, HistoryOK, FewCodeHolders
  <1>1. /\ Cardinality(H) \in Nat /\ Cardinality(H1) \in Nat /\ Cardinality(Procs) \in Nat
        /\ Cardinality(H1) <= Cardinality(Procs)
        /\ H1 \subseteq H => Cardinality(H1) <= Cardinality(H)
        /\ \A p \in H : Cardinality(H \ {p}) = Cardinality(H) - 1
    <2> HIDE DEF H, H1
    <2>1. QED
      BY <1>0, SomeProcs
  <1>2. ASSUME codeJwts' = codeJwts,
               \A q \in Procs : req'[q].step = "redeem" => req'[q] = req[q]
        PROVE  Goal
    <2>1. H1 \subseteq H
      BY <1>2 DEF CodeHolders, Holding
    <2> HIDE DEF H
    <2>2. QED
      BY <1>0, <1>1, <1>2, <2>1
  <1>3. ASSUME NEW p \in Procs, NEW f \in Emails, NEW m \in Sends, VerifyEmail(p, f, m)
        PROVE  Goal
    <2>1. /\ codeJwts' = codeJwts /\ tokenMap[f] = m
          /\ req'[p].email = f /\ req'[p].ref = m
          /\ \A q \in Procs \ {p} : req'[q] = req[q]
      BY <1>3, BeginMoves DEF VerifyEmail, CodeMatches, answers
    <2>2. CASE f = e /\ m = n
      <3>1. codeJwts[e][n] = 0
        BY <1>0, <2>1, <2>2 DEF RedeemedCodeStaysDead
      <3> HIDE DEF H
      <3>2. QED
        BY <1>1, <2>1, <3>1
    <2>3. CASE ~(f = e /\ m = n)
      <3>1. H1 \subseteq H
        BY <2>1, <2>3 DEF CodeHolders, Holding
      <3> HIDE DEF H
      <3>2. QED
        BY <1>0, <1>1, <2>1, <3>1
    <2>4. QED
      BY <2>2, <2>3
  <1>4. ASSUME NEW p \in Procs, Redeem(p)
        PROVE  Goal
    <2>1. /\ req[p].step = "redeem" /\ req[p].email \in Emails /\ req[p].ref \in Sends
          /\ req'[p].step = "idle"
          /\ \A q \in Procs \ {p} : req'[q] = req[q]
      BY <1>4, ReqTyped, FinishMoves DEF Redeem
    <2>2. \/ codeJwts' = codeJwts
          \/ codeJwts' = [codeJwts EXCEPT ![req[p].email][req[p].ref] = @ + 1]
      BY <1>4 DEF Redeem
    <2>3. CASE p \in H
      <3>1. H1 = H \ {p}
        BY <2>1 DEF CodeHolders, Holding
      <3>2. codeJwts'[e][n] \in {codeJwts[e][n], codeJwts[e][n] + 1}
        BY <1>0, <2>1, <2>2
      <3> HIDE DEF H
      <3>3. QED
        BY <1>0, <1>1, <2>3, <3>1, <3>2
    <2>4. CASE p \notin H
      <3>1. H1 \subseteq H
        BY <2>1 DEF CodeHolders, Holding
      <3>2. codeJwts'[e][n] = codeJwts[e][n]
        BY <1>0, <2>1, <2>2, <2>4 DEF CodeHolders, Holding
      <3> HIDE DEF H
      <3>3. QED
        BY <1>0, <1>1, <3>1, <3>2
    <2>5. QED
      BY <2>3, <2>4
  <1>5. QED
    BY <1>2, <1>3, <1>4, CodeRequests

\* The same for links, which are answered after they were removed.
LEMMA NextFewLinkHolders ==
    ASSUME IsFiniteSet(Procs), TInv, LinksUsedUp, FewLinkHolders, [Next]_vars
    PROVE  FewLinkHolders'
  <1> SUFFICES ASSUME setbacks' = 0, NEW e \in Emails, NEW n \in Sends
               PROVE  linkJwts'[e][n] + Cardinality(LinkHolders(e, n)') <= Cardinality(Procs)
    BY DEF FewLinkHolders
  <1> DEFINE Goal == linkJwts'[e][n] + Cardinality(LinkHolders(e, n)') <= Cardinality(Procs)
             Linked == {"burnLink", "signLink"}
             H == LinkHolders(e, n)
             H1 == LinkHolders(e, n)'
  <1> USE DEF At
  <1>0. /\ H \subseteq Procs /\ H1 \subseteq Procs
        /\ linkJwts \in [Emails -> [Sends -> Nat]] /\ linkJwts[e][n] \in Nat
        /\ linkJwts[e][n] + Cardinality(H) <= Cardinality(Procs)
        /\ linkJwts[e][n] > 0 => linkTokenMap[n] = NoEmail
    <2>1. setbacks = 0
      BY SmoothSteps
    <2>2. QED
      BY <2>1 DEF LinkHolders, TInv, HistoryOK, FewLinkHolders, LinksUsedUp, AnsweredLinkIsDead
  <1>1. /\ Cardinality(H) \in Nat /\ Cardinality(H1) \in Nat /\ Cardinality(Procs) \in Nat
        /\ Cardinality(H1) <= Cardinality(Procs)
        /\ H1 \subseteq H => Cardinality(H1) <= Cardinality(H)
        /\ \A p \in H : Cardinality(H \ {p}) = Cardinality(H) - 1
    <2> HIDE DEF H, H1
    <2>1. QED
      BY <1>0, SomeProcs
  <1>2. ASSUME linkJwts' = linkJwts,
               \A q \in Procs : req'[q].step \in Linked =>
                   /\ req[q].step \in Linked
                   /\ req'[q].email = req[q].email /\ req'[q].ref = req[q].ref
        PROVE  Goal
    <2>1. H1 \subseteq H
      BY <1>2 DEF LinkHolders, Holding
    <2> HIDE DEF H
    <2>2. QED
      BY <1>0, <1>1, <1>2, <2>1
  <1>3. ASSUME NEW p \in Procs, NEW m \in Sends, VerifyLink(p, m)
        PROVE  Goal
    <2>1. /\ linkJwts' = linkJwts /\ linkTokenMap[m] # NoEmail
          /\ req'[p].ref = m
          /\ \A q \in Procs \ {p} : req'[q] = req[q]
      BY <1>3, BeginMoves DEF VerifyLink, LinkKnown, answers
    <2>2. CASE m = n
      <3>1. linkJwts[e][n] = 0
        BY <1>0, <2>1, <2>2
      <3> HIDE DEF H
      <3>2. QED
        BY <1>1, <2>1, <3>1
    <2>3. CASE m # n
      <3>1. H1 \subseteq H
        BY <2>1, <2>3 DEF LinkHolders, Holding
      <3> HIDE DEF H
      <3>2. QED
        BY <1>0, <1>1, <2>1, <3>1
    <2>4. QED
      BY <2>2, <2>3
  <1>4. ASSUME NEW p \in Procs, SignLink(p)
        PROVE  Goal
    <2>1. /\ req[p].step = "signLink" /\ req[p].email \in Emails /\ req[p].ref \in Sends
          /\ req'[p].step = "idle"
          /\ \A q \in Procs \ {p} : req'[q] = req[q]
          /\ linkJwts' = [linkJwts EXCEPT ![req[p].email][req[p].ref] = @ + 1]
      BY <1>4, ReqTyped, FinishMoves DEF SignLink
    <2>2. CASE p \in H
      <3>1. H1 = H \ {p}
        BY <2>1 DEF LinkHolders, Holding
      <3>2. linkJwts'[e][n] \in {linkJwts[e][n], linkJwts[e][n] + 1}
        BY <1>0, <2>1
      <3> HIDE DEF H
      <3>3. QED
        BY <1>0, <1>1, <2>2, <3>1, <3>2
    <2>3. CASE p \notin H
      <3>1. H1 \subseteq H
        BY <2>1 DEF LinkHolders, Holding
      <3>2. linkJwts'[e][n] = linkJwts[e][n]
        BY <1>0, <2>1, <2>3 DEF LinkHolders, Holding
      <3> HIDE DEF H
      <3>3. QED
        BY <1>0, <1>1, <3>1, <3>2
    <2>4. QED
      BY <2>2, <2>3
  <1>5. ASSUME NEW p \in Procs, BurnLink(p) \/ BurnLinkFails(p)
        PROVE  Goal
    <2>1. /\ linkJwts' = linkJwts /\ req[p].step = "burnLink"
          /\ req'[p].email = req[p].email /\ req'[p].ref = req[p].ref
          /\ \A q \in Procs \ {p} : req'[q] = req[q]
      BY <1>5, GoToMoves DEF BurnLink, BurnLinkFails, answers
    <2>2. QED
      BY <1>2, <2>1
  <1>6. QED
    BY <1>2, <1>3, <1>4, <1>5, LinkRequests

\* At first nobody holds anything.
LEMMA InitFewHolders ==
    ASSUME IsFiniteSet(Procs), Init
    PROVE  FewCodeHolders /\ FewLinkHolders
  <1>1. \A p \in Procs : req[p].step = "idle"
    BY DEF Init, Idle
  <1>2. \A e \in Emails, n \in Sends : CodeHolders(e, n) = {} /\ LinkHolders(e, n) = {}
    BY <1>1 DEF CodeHolders, LinkHolders, Holding
  <1>3. Cardinality({}) = 0 /\ Cardinality(Procs) \in Nat
    BY FS_EmptySet, FS_CardinalityType
  <1>4. \A e \in Emails, n \in Sends : codeJwts[e][n] = 0 /\ linkJwts[e][n] = 0
    BY DEF Init
  <1>5. ASSUME NEW e \in Emails, NEW n \in Sends
        PROVE  /\ codeJwts[e][n] + Cardinality(CodeHolders(e, n)) <= Cardinality(Procs)
               /\ linkJwts[e][n] + Cardinality(LinkHolders(e, n)) <= Cardinality(Procs)
    <2>1. Cardinality(CodeHolders(e, n)) = 0 /\ Cardinality(LinkHolders(e, n)) = 0
      BY <1>2, <1>3
    <2>2. QED
      BY <1>3, <1>4, <2>1
  <1>6. QED
    BY <1>5 DEF FewCodeHolders, FewLinkHolders

(***************************************************************************)
(* Served one request at a time, every code is single-use, and as long as  *)
(* nothing fails every link is, as the comments at handlers.go:194-197 and *)
(* 238-241 say: the ways to use one twice take two requests under way      *)
(* together, or a setback.                                                 *)
(***************************************************************************)
THEOREM OneAtATime ==
    ASSUME IsFiniteSet(Procs), Cardinality(Procs) = 1
    PROVE  Spec => [](CodeSingleUse /\ (setbacks = 0 => LinkSingleUse))
  <1> DEFINE HInv == SInv /\ FewCodeHolders /\ FewLinkHolders
             Once == CodeSingleUse /\ (setbacks = 0 => LinkSingleUse)
  <1>1. Init => HInv
    BY InitSInv, InitFewHolders
  <1>2. HInv /\ [Next]_vars => HInv'
    <2>1. HInv => TInv /\ RedeemedCodeStaysDead /\ LinksUsedUp
      BY DEF SInv, IInv
    <2>2. QED
      BY <2>1, NextSInv, NextFewCodeHolders, NextFewLinkHolders
  <1>3. HInv => Once
    <2> SUFFICES ASSUME HInv, NEW e \in Emails, NEW n \in Sends
                 PROVE  /\ codeJwts[e][n] <= 1
                        /\ setbacks = 0 => linkJwts[e][n] <= 1
      BY DEF CodeSingleUse, LinkSingleUse
    <2>1. CodeHolders(e, n) \subseteq Procs /\ LinkHolders(e, n) \subseteq Procs
      BY DEF CodeHolders, LinkHolders
    <2>2. Cardinality(CodeHolders(e, n)) \in Nat /\ Cardinality(LinkHolders(e, n)) \in Nat
      BY <2>1, SomeProcs
    <2>3. codeJwts[e][n] \in Nat /\ linkJwts[e][n] \in Nat
      BY DEF SInv, IInv, TInv, HistoryOK
    <2>4. QED
      BY <2>2, <2>3 DEF FewCodeHolders, FewLinkHolders
  <1> HIDE DEF HInv, Once
  <1>4. Spec => []Once
    BY <1>1, <1>2, <1>3, PTL DEF Spec
  <1>5. QED
    BY <1>4 DEF Once

-----------------------------------------------------------------------------
(* Codes and links as one-time secrets.                                    *)

\* What the mapping of Codes, and that of Links, says of send n.
CodeLife(n) ==
    IF Unsent(n, {"store"}) THEN "unsent"
    ELSE IF \E e \in Emails : tokenMap[e] = n THEN "live" ELSE "gone"

LinkLife(n) ==
    IF Unsent(n, {"store", "storeLink"}) THEN "unsent"
    ELSE IF linkTokenMap[n] # NoEmail THEN "live" ELSE "gone"

\* The storage cannot fail: it is the maps, or Redis without such a setback.
StorageWorks == Backend = "inmemory" \/ "storage" \notin Setbacks

(***************************************************************************)
(* LinksUsedUp with every other setback: nothing refers to a link before   *)
(* its send has stored it, and where the storage works a request comes to  *)
(* its answer with the link removed.                                       *)
(***************************************************************************)
LinksUnused ==
    /\ \A n \in Sends : n > sends => LinkUnused(n)
    /\ \A p \in Procs : req[p].step \in {"store", "storeLink"} => LinkUnused(req[p].ref)

LinksBurnt ==
    StorageWorks =>
        \A p \in Procs : req[p].step = "signLink" => linkTokenMap[req[p].ref] = NoEmail

SecretInv == IInv /\ Owners /\ LinksUnused /\ LinksBurnt

\* The code of an address is removed, or replaced by that of a send that is at
\* the step that stores it.
LEMMA TokenMapMoves ==
    ASSUME TInv, [Next]_vars, NEW e \in Emails
    PROVE  \/ tokenMap'[e] \in {0, tokenMap[e]}
           \/ \E p \in Procs : /\ req[p].step = "store" /\ req'[p] # req[p]
                               /\ tokenMap'[e] = req[p].ref
  <1> DEFINE Goal == \/ tokenMap'[e] \in {0, tokenMap[e]}
                     \/ \E p \in Procs : /\ req[p].step = "store" /\ req'[p] # req[p]
                                         /\ tokenMap'[e] = req[p].ref
  <1> USE DEF At
  <1>0. tokenMap \in [Emails -> 0 .. MaxSends]
    BY DEF TInv, StoreOK, StorageTypeOK
  <1>1. ASSUME NEW p \in Procs, StoreCode(p) \/ StoreCodeFails(p)
        PROVE  Goal
    <2>1. req[p].step = "store" /\ req'[p].step \in {"storeLink", "idle"}
      BY <1>1, GoToMoves, FinishMoves DEF StoreCode, StoreCodeFails
    <2>2. tokenMap' = tokenMap \/ tokenMap' = [tokenMap EXCEPT ![req[p].email] = req[p].ref]
      BY <1>1 DEF StoreCode, StoreCodeFails, CodeStored, StoreToken
    <2>3. tokenMap'[e] = tokenMap[e] \/ tokenMap'[e] = req[p].ref
      BY <1>0, <2>2
    <2>4. QED
      BY <2>1, <2>3
  <1>2. ASSUME NEW f, RemoveToken(f) \/ UNCHANGED tokenMap
        PROVE  Goal
    BY <1>0, <1>2 DEF RemoveToken
  <1>3. ASSUME NEW p \in Procs,
               \/ Redeem(p) \/ RedeemFails(p) \/ StoreLinkFails(p) \/ BurnLinkFails(p)
               \/ Quiet(p) \/ StoreLink(p) \/ BurnLink(p) \/ SignLink(p)
        PROVE  Goal
    BY <1>2, <1>3
       DEF Redeem, SpendCode, RedeemFails, StoreLinkFails, BurnLinkFails, Quiet, SendEmail,
           LimiterAllows, SendRefused, Mail, MailFails, VerifyEmail, VerifyLink, SignFails,
           StoreLink, BurnLink, Burn, SignLink, storage
  <1>4. ASSUME Crash
        PROVE  Goal
    BY <1>4 DEF Crash, StorageAfterCrash, storage
  <1>5. ASSUME UNCHANGED vars \/ Expiry \/ \E f \in Emails : VerifyDone(f)
        PROVE  Goal
    BY <1>2, <1>5 DEF vars, Expiry, CodeExpires, LinkExpires, VerifyDone, storage
  <1> HIDE DEF Goal
  <1>6. Goal
    BY <1>1, <1>3, <1>4, <1>5, StepKinds DEF Fails
  <1>7. QED
    BY <1>6 DEF Goal

\* A link is removed, or stored by the send it is of.
LEMMA LinkTokenMapMoves ==
    ASSUME TInv, [Next]_vars, NEW n \in Sends
    PROVE  \/ linkTokenMap'[n] \in {NoEmail, linkTokenMap[n]}
           \/ \E p \in Procs : req[p].step = "storeLink" /\ req'[p] # req[p] /\ req[p].ref = n
  <1> DEFINE Goal ==
          \/ linkTokenMap'[n] \in {NoEmail, linkTokenMap[n]}
          \/ \E p \in Procs : req[p].step = "storeLink" /\ req'[p] # req[p] /\ req[p].ref = n
  <1> USE DEF At
  <1>0. linkTokenMap \in [Sends -> Emails \cup {NoEmail}]
    BY DEF TInv, StoreOK, StorageTypeOK
  <1>1. ASSUME NEW p \in Procs, StoreLink(p) \/ StoreLinkFails(p)
        PROVE  Goal
    <2>1. req[p].step = "storeLink" /\ req'[p].step \in {"limit", "idle"}
      BY <1>1, GoToMoves, FinishMoves DEF StoreLink, StoreLinkFails
    <2>2. \/ linkTokenMap' = linkTokenMap
          \/ linkTokenMap' = [linkTokenMap EXCEPT ![req[p].ref] = req[p].email]
      BY <1>1 DEF StoreLink, StoreLinkFails, StoreLinkToken
    <2>3. linkTokenMap'[n] = linkTokenMap[n] \/ req[p].ref = n
      BY <1>0, <2>2
    <2>4. QED
      BY <2>1, <2>3
  <1>2. ASSUME NEW m, RemoveLinkToken(m) \/ UNCHANGED linkTokenMap
        PROVE  Goal
    BY <1>0, <1>2 DEF RemoveLinkToken
  <1>3. ASSUME NEW p \in Procs,
               \/ StoreCode(p) \/ StoreCodeFails(p) \/ Redeem(p) \/ RedeemFails(p)
               \/ Quiet(p) \/ BurnLink(p) \/ BurnLinkFails(p) \/ SignLink(p)
        PROVE  Goal
    BY <1>2, <1>3
       DEF StoreCode, StoreCodeFails, Redeem, RedeemFails, BurnLinkFails, Quiet, SendEmail,
           LimiterAllows, SendRefused, Mail, MailFails, VerifyEmail, VerifyLink, SignFails,
           BurnLink, Burn, SignLink, storage
  <1>4. ASSUME Crash
        PROVE  Goal
    BY <1>4 DEF Crash, StorageAfterCrash, storage
  <1>5. ASSUME UNCHANGED vars \/ Expiry \/ \E f \in Emails : VerifyDone(f)
        PROVE  Goal
    BY <1>2, <1>5 DEF vars, Expiry, CodeExpires, LinkExpires, VerifyDone, storage
  <1> HIDE DEF Goal
  <1>6. Goal
    BY <1>1, <1>3, <1>4, <1>5, StepKinds DEF Fails
  <1>7. QED
    BY <1>6 DEF Goal

\* A link is unused until StoreLink, and only a request that found it in the
\* storage holds it afterwards.
LEMMA LinkStaysUnused ==
    ASSUME TInv, [Next]_vars, NEW n \in Sends, LinkUnused(n),
           \A p \in Procs : req[p].step = "storeLink" /\ req[p].ref = n => req'[p] = req[p]
    PROVE  LinkUnused(n)'
  <1> USE DEF LinkUnused, At
  <1>1. linkTokenMap'[n] = NoEmail
    BY LinkTokenMapMoves
  <1>2. ASSUME \A e \in Emails : linkJwts'[e][n] = linkJwts[e][n],
               \A q \in Procs : req'[q].step \in {"burnLink", "signLink"} =>
                   \/ /\ req[q].step \in {"burnLink", "signLink"}
                      /\ req'[q].ref = req[q].ref
                   \/ req'[q].ref # n
        PROVE  LinkUnused(n)'
    BY <1>1, <1>2
  <1>3. ASSUME NEW p \in Procs, NEW m \in Sends, VerifyLink(p, m)
        PROVE  LinkUnused(n)'
    BY <1>2, <1>3, BeginMoves DEF VerifyLink, LinkKnown, answers
  <1>4. ASSUME NEW p \in Procs, BurnLink(p) \/ BurnLinkFails(p)
        PROVE  LinkUnused(n)'
    <2>1. /\ req[p].step = "burnLink" /\ req'[p].ref = req[p].ref
          /\ \A q \in Procs \ {p} : req'[q] = req[q]
          /\ linkJwts' = linkJwts
      BY <1>4, GoToMoves DEF BurnLink, BurnLinkFails, answers
    <2>2. QED
      BY <1>2, <2>1
  <1>5. ASSUME NEW p \in Procs, SignLink(p)
        PROVE  LinkUnused(n)'
    <2>1. /\ req[p].ref # n /\ req'[p].step = "idle"
          /\ \A q \in Procs \ {p} : req'[q] = req[q]
          /\ linkJwts' = [linkJwts EXCEPT ![req[p].email][req[p].ref] = @ + 1]
      BY <1>5, FinishMoves DEF SignLink
    <2>2. linkJwts \in [Emails -> [Sends -> Nat]] /\ req[p].email \in Emails
      BY <1>5, ReqTyped DEF SignLink, TInv, HistoryOK
    <2>3. \A e \in Emails : linkJwts'[e][n] = linkJwts[e][n]
      BY <2>1, <2>2
    <2>4. QED
      BY <1>2, <2>1, <2>3
  <1>6. QED
    BY <1>2, <1>3, <1>4, <1>5, LinkRequests

\* A send's link is unused when the send begins and until it is stored.
LEMMA NextLinksUnused ==
    TInv /\ SendsApart /\ LinksUnused /\ [Next]_vars => LinksUnused'
  <1> SUFFICES ASSUME TInv, SendsApart, LinksUnused, [Next]_vars
               PROVE  LinksUnused'
    OBVIOUS
  <1>0. sends \in Nat /\ sends' \in Nat /\ sends' >= sends
    BY SendsGrow, NextHistoryOK, StorageAssumption DEF TInv, HistoryOK
  <1>1. ASSUME NEW n \in Sends, n > sends
        PROVE  LinkUnused(n)'
    <2>1. LinkUnused(n)
      BY <1>1 DEF LinksUnused
    <2>2. ASSUME NEW q \in Procs, req[q].step = "storeLink", req[q].ref = n
          PROVE  FALSE
      <3>1. req[q].ref \in 1 .. sends
        BY <2>2, ReqTyped
      <3>2. QED
        BY <1>0, <1>1, <2>2, <3>1
    <2>3. QED
      BY <2>1, <2>2, LinkStaysUnused
  <1>2. ASSUME NEW n \in Sends, n > sends'
        PROVE  LinkUnused(n)'
    <2>1. n > sends
      BY <1>0, <1>2 DEF Sends
    <2>2. QED
      BY <1>1, <2>1
  <1>3. ASSUME NEW p \in Procs, req'[p].step \in {"store", "storeLink"},
               NEW n \in Sends, n = req'[p].ref
        PROVE  LinkUnused(n)'
    <2>1. CASE req'[p] = req[p]
      <3>1. LinkUnused(n)
        BY <1>3, <2>1 DEF LinksUnused
      <3>2. \A q \in Procs : req[q].step = "storeLink" /\ req[q].ref = n => q = p
        BY <1>3, <2>1 DEF SendsApart
      <3>3. QED
        BY <2>1, <3>1, <3>2, LinkStaysUnused
    <2>2. CASE \E e \in Emails : SendEmail(p, e)
      <3>1. n = sends + 1
        BY <1>3, <2>2, BeginMoves DEF SendEmail
      <3>2. QED
        BY <1>0, <1>1, <3>1
    <2>3. CASE StoreCode(p)
      <3>1. req[p].step = "store" /\ req[p].ref = n
        BY <1>3, <2>3, GoToMoves DEF StoreCode, At
      <3>2. LinkUnused(n)
        BY <3>1 DEF LinksUnused
      <3>3. \A q \in Procs : ~(req[q].step = "storeLink" /\ req[q].ref = n)
        BY <3>1 DEF SendsApart
      <3>4. QED
        BY <3>2, <3>3, LinkStaysUnused
    <2>4. QED
      BY <1>3, <2>1, <2>2, <2>3, NewStoring
  <1>4. \A p \in Procs : req'[p].step \in {"store", "storeLink"} => req'[p].ref \in Sends
    BY NextReqOK, NextHistoryOK, StorageAssumption DEF ReqOK, HistoryOK, Sends
  <1>5. QED
    BY <1>2, <1>3, <1>4 DEF LinksUnused, LinkUnused

\* Where the storage works, a request signs when it has removed the link.
LEMMA NextLinksBurnt ==
    TInv /\ LinksUnused /\ LinksBurnt /\ [Next]_vars => LinksBurnt'
  <1> SUFFICES ASSUME TInv, LinksUnused, LinksBurnt, [Next]_vars, StorageWorks,
                      NEW q \in Procs, req'[q].step = "signLink"
               PROVE  linkTokenMap'[req'[q].ref] = NoEmail
    BY DEF LinksBurnt, StorageWorks
  <1> USE DEF At
  <1>1. CASE req'[q] = req[q]
    <2>1. linkTokenMap[req[q].ref] = NoEmail /\ req[q].ref \in Sends
      BY <1>1, ReqTyped DEF LinksBurnt
    <2>2. \A p \in Procs : req[p].step = "storeLink" => req[p].ref # req[q].ref
      BY <1>1 DEF LinksUnused, LinkUnused
    <2>3. QED
      BY <1>1, <2>1, <2>2, LinkTokenMapMoves
  <1>2. ASSUME NEW p \in Procs, BurnLink(p)
        PROVE  linkTokenMap'[req'[q].ref] = NoEmail
    <2>1. CASE q = p
      <3>1. req'[p].ref = req[p].ref /\ req[p].ref \in Sends
        BY <1>2, GoToMoves, ReqTyped DEF BurnLink
      <3>2. linkTokenMap' = [linkTokenMap EXCEPT ![req[p].ref] = NoEmail]
        BY <1>2 DEF BurnLink, Burn, RemoveLinkToken
      <3>3. QED
        BY <2>1, <3>1, <3>2 DEF TInv, StoreOK, StorageTypeOK
    <2>2. CASE q # p
      BY <1>1, <1>2, <2>2, GoToMoves DEF BurnLink
    <2>3. QED
      BY <2>1, <2>2
  <1>3. ASSUME NEW p \in Procs, BurnLinkFails(p)
        PROVE  FALSE
    BY <1>3, StorageAssumption DEF BurnLinkFails, StorageFails, Setback, StorageWorks
  <1>4. ASSUME NEW p \in Procs, SignLink(p) \/ \E n \in Sends : VerifyLink(p, n)
        PROVE  req'[q] = req[q]
    BY <1>4, FinishMoves, BeginMoves DEF SignLink, VerifyLink
  <1>5. QED
    BY <1>1, <1>2, <1>3, <1>4, LinkRequests

\* The invariant of the two refinements.
LEMMA InitSecretInv == Init => SecretInv
  <1> SUFFICES ASSUME Init
               PROVE  SecretInv
    OBVIOUS
  <1>1. /\ \A p \in Procs : req[p].step = "idle"
        /\ \A n \in Sends : /\ linkTokenMap[n] = NoEmail
                            /\ \A e \in Emails : linkJwts[e][n] = 0
    BY DEF Init, StorageInit, Idle
  <1>2. LinksUnused /\ LinksBurnt
    BY <1>1 DEF LinksUnused, LinksBurnt, LinkUnused
  <1>3. QED
    BY <1>2, InitIInv, InitOwners DEF SecretInv

LEMMA NextSecretInv == SecretInv /\ [Next]_vars => SecretInv'
  BY NextIInv, NextOwners, NextLinksUnused, NextLinksBurnt DEF SecretInv, IInv
\* Where the owner of a send changes, it had none, and no JWT is answered.
LEMMA OwnerMoves ==
    ASSUME TInv, Owners, [Next]_vars, NEW n \in Sends
    PROVE  \/ owner'[n] = owner[n]
           \/ /\ owner[n] = NoEmail /\ owner'[n] \in Emails
              /\ codeJwts' = codeJwts /\ linkJwts' = linkJwts
  <1>1. ASSUME NEW p \in Procs, NEW e \in Emails, SendEmail(p, e)
        PROVE  \/ owner'[n] = owner[n]
               \/ /\ owner[n] = NoEmail /\ owner'[n] \in Emails
                  /\ codeJwts' = codeJwts /\ linkJwts' = linkJwts
    <2>1. /\ owner' = [owner EXCEPT ![sends + 1] = e]
          /\ codeJwts' = codeJwts /\ linkJwts' = linkJwts
      BY <1>1 DEF SendEmail, answers
    <2>2. n = sends + 1 => owner[n] = NoEmail
      BY StorageAssumption DEF Owners, TInv, HistoryOK
    <2>3. owner \in [Sends -> Emails \cup {NoEmail}]
      BY DEF TInv, HistoryOK
    <2>4. QED
      BY <2>1, <2>2, <2>3
  <1>2. (\E p \in Procs, e \in Emails : SendEmail(p, e)) \/ owner' = owner
    BY StepKinds
       DEF StoreCode, Redeem, Fails, StoreCodeFails, StoreLinkFails, RedeemFails, BurnLinkFails,
           Quiet, LimiterAllows, SendRefused, Mail, MailFails, VerifyEmail, VerifyLink,
           SignFails, StoreLink, BurnLink, SignLink, Crash, vars, Expiry, VerifyDone
  <1>3. QED
    BY <1>1, <1>2

\* The count of answers stands still where no JWT is answered on the send.
LEMMA AnswersKept ==
    ASSUME TInv, Owners, [Next]_vars, NEW n \in Sends
    PROVE  /\ (\A e \in Emails : codeJwts'[e][n] = codeJwts[e][n]) =>
                  AnswersOf(codeJwts, n)' = AnswersOf(codeJwts, n)
           /\ (\A e \in Emails : linkJwts'[e][n] = linkJwts[e][n]) =>
                  AnswersOf(linkJwts, n)' = AnswersOf(linkJwts, n)
  <1>0. /\ owner[n] \in Emails \cup {NoEmail} /\ NoEmail \notin Emails
        /\ \A e \in Emails : codeJwts[e][n] \in Nat /\ linkJwts[e][n] \in Nat
    BY StorageAssumption DEF TInv, HistoryOK
  <1>1. CASE owner'[n] = owner[n]
    BY <1>0, <1>1 DEF AnswersOf
  <1>2. CASE owner[n] = NoEmail /\ owner'[n] \in Emails
    <2>1. \A e \in Emails : codeJwts[e][n] = 0 /\ linkJwts[e][n] = 0
      BY <1>0, <1>2 DEF Owners, JwtNamesOwner
    <2>2. QED
      BY <1>0, <1>2, <2>1 DEF AnswersOf
  <1>3. QED
    BY <1>1, <1>2, OwnerMoves

\* A code goes from unsent to live and to gone, and never back.
LEMMA CodeLifeMoves ==
    ASSUME SecretInv, [Next]_vars, NEW n \in Sends
    PROVE  \/ CodeLife(n)' \in {CodeLife(n), "gone"}
           \/ CodeLife(n) = "unsent" /\ CodeLife(n)' = "live"
  <1>0. TInv /\ CodesUnused /\ sends \in Nat /\ sends' \in Nat /\ sends' >= sends
    BY SendsGrow, NextHistoryOK, StorageAssumption DEF SecretInv, IInv, TInv, HistoryOK
  <1>1. ASSUME ~Unsent(n, {"store"})
        PROVE  ~Unsent(n, {"store"})'
    <2>1. ~(n > sends')
      BY <1>0, <1>1 DEF Unsent, Sends
    <2>2. ASSUME NEW p \in Procs, req'[p].step = "store", req'[p].ref = n
          PROVE  FALSE
      <3>1. req'[p] # req[p]
        BY <1>1, <2>2 DEF Unsent
      <3>2. PICK e \in Emails : SendEmail(p, e)
        BY <1>0, <2>2, <3>1, NewSend
      <3>3. n = sends + 1
        BY <1>0, <2>2, <3>2, BeginMoves DEF SendEmail
      <3>4. QED
        BY <1>0, <1>1, <3>3 DEF Unsent
    <2>3. QED
      BY <2>1, <2>2 DEF Unsent
  <1>2. ASSUME ~Unsent(n, {"store"}), NEW e \in Emails, tokenMap'[e] = n
        PROVE  tokenMap[e] = n
    <2>1. n # 0
      BY DEF Sends
    <2>2. \A p \in Procs : req[p].step = "store" => req[p].ref # n
      BY <1>2 DEF Unsent
    <2>3. QED
      BY <1>0, <1>2, <2>1, <2>2, TokenMapMoves
  <1>3. QED
    BY <1>1, <1>2 DEF CodeLife

\* Every step is one of the promise to each code.
LEMMA CodeSteps ==
    ASSUME SecretInv, [Next]_vars, NEW n \in Sends,
           NEW life, life = CodeLife(n), NEW life1, life1 = CodeLife(n)',
           NEW held, held = Holders(n, {"redeem"}),
           NEW held1, held1 = Holders(n, {"redeem"})',
           NEW jwts, jwts = AnswersOf(codeJwts, n),
           NEW jwts1, jwts1 = AnswersOf(codeJwts, n)'
    PROVE  \/ life = "unsent" /\ life1 = "live" /\ held1 = held /\ jwts1 = jwts
           \/ life1 \in {life, "gone"} /\ held1 \subseteq held /\ jwts1 = jwts
           \/ \E r \in Procs :
                  \/ life = "live" /\ life1 = "live" /\ held1 = held \cup {r} /\ jwts1 = jwts
                  \/ r \in held /\ life1 = "gone" /\ held1 = held \ {r} /\ jwts1 = jwts + 1
  <1> DEFINE Goal ==
          \/ life = "unsent" /\ life1 = "live" /\ held1 = held /\ jwts1 = jwts
          \/ life1 \in {life, "gone"} /\ held1 \subseteq held /\ jwts1 = jwts
          \/ \E r \in Procs :
                 \/ life = "live" /\ life1 = "live" /\ held1 = held \cup {r} /\ jwts1 = jwts
                 \/ r \in held /\ life1 = "gone" /\ held1 = held \ {r} /\ jwts1 = jwts + 1
  <1> USE DEF At
  <1>0. /\ TInv /\ CodesUnused /\ Owners
        /\ codeJwts \in [Emails -> [Sends -> Nat]]
        /\ tokenMap \in [Emails -> 0 .. MaxSends]
        /\ n # 0
    BY DEF SecretInv, IInv, TInv, HistoryOK, StoreOK, StorageTypeOK, Sends
  <1>a. life1 \in {life, "gone"} \/ (life = "unsent" /\ life1 = "live")
    BY CodeLifeMoves
  <1>b. Unsent(n, {"store"}) => CodeUnused(n)
    BY <1>0 DEF Unsent, CodesUnused
  <1>c. life = "unsent" => held = {}
    BY <1>b DEF CodeLife, CodeUnused, Holders
  <1>1. ASSUME held1 \subseteq held, \A e \in Emails : codeJwts'[e][n] = codeJwts[e][n]
        PROVE  Goal
    <2>1. jwts1 = jwts
      BY <1>0, <1>1, AnswersKept
    <2>2. QED
      BY <1>1, <1>a, <1>c, <2>1
  <1>2. ASSUME NEW p \in Procs, NEW e \in Emails, NEW m \in Sends, VerifyEmail(p, e, m)
        PROVE  Goal
    <2>1. /\ codeJwts' = codeJwts /\ tokenMap[e] = m /\ tokenMap' = tokenMap
          /\ req'[p].step = "redeem" /\ req'[p].ref = m
          /\ req[p].step = "idle"
          /\ \A q \in Procs \ {p} : req'[q] = req[q]
      BY <1>0, <1>2, BeginMoves DEF VerifyEmail, CodeMatches, answers, storage
    <2>2. CASE m = n
      <3>1. ~Unsent(n, {"store"})
        BY <1>b, <2>1, <2>2 DEF CodeUnused
      <3>2. life = "live"
        BY <2>1, <2>2, <3>1 DEF CodeLife
      <3>3. \A f \in Emails : tokenMap'[f] = tokenMap[f]
        BY <2>1
      <3>4. life1 = "live"
        <4>1. life1 # "unsent"
          BY <1>a, <3>2
        <4>2. QED
          BY <2>1, <2>2, <4>1 DEF CodeLife
      <3>5. held1 = held \cup {p}
        BY <2>1, <2>2 DEF Holders
      <3>6. jwts1 = jwts
        BY <1>0, <2>1, AnswersKept
      <3>7. QED
        BY <3>2, <3>4, <3>5, <3>6
    <2>3. CASE m # n
      <3>1. held1 \subseteq held
        BY <2>1, <2>3 DEF Holders
      <3>2. QED
        BY <1>1, <2>1, <3>1
    <2>4. QED
      BY <2>2, <2>3
  <1>3. ASSUME NEW p \in Procs, Redeem(p)
        PROVE  Goal
    <2> DEFINE e == req[p].email
    <2>1. /\ req[p].step = "redeem" /\ e \in Emails /\ req[p].ref \in Sends
          /\ owner[req[p].ref] = e /\ owner' = owner
          /\ req'[p].step = "idle"
          /\ \A q \in Procs \ {p} : req'[q] = req[q]
      BY <1>0, <1>3, ReqTyped, FinishMoves DEF Redeem, Owners
    <2>2. held1 \subseteq held
      BY <2>1 DEF Holders
    <2>3. CASE RemoveTokenOK(e) /\ req[p].ref = n
      <3>1. /\ codeJwts' = [codeJwts EXCEPT ![e][n] = @ + 1]
            /\ tokenMap' = [tokenMap EXCEPT ![e] = 0]
        BY <1>3, <2>3 DEF Redeem, SpendCode, RemoveToken
      <3>2. p \in held /\ held1 = held \ {p}
        BY <2>1, <2>3 DEF Holders
      <3>3. jwts1 = jwts + 1
        BY <1>0, <2>1, <2>3, <3>1, StorageAssumption DEF AnswersOf
      <3>4. life # "unsent"
        BY <1>c, <3>2
      <3>5. ASSUME NEW f \in Emails, tokenMap'[f] = n
            PROVE  FALSE
        <4>1. f # e /\ tokenMap[f] = n
          BY <1>0, <2>1, <3>1, <3>5
        <4>2. QED
          BY <1>0, <2>1, <2>3, <4>1 DEF Owners
      <3>6. life1 # "live"
        BY <3>5 DEF CodeLife
      <3>7. life1 = "gone"
        <4>1. life \in {"unsent", "live", "gone"}
          BY DEF CodeLife
        <4>2. QED
          BY <1>a, <3>4, <3>6, <4>1
      <3>8. QED
        BY <3>2, <3>3, <3>7
    <2>4. CASE ~(RemoveTokenOK(e) /\ req[p].ref = n)
      <3>1. \/ codeJwts' = codeJwts
            \/ req[p].ref # n /\ codeJwts' = [codeJwts EXCEPT ![e][req[p].ref] = @ + 1]
        BY <1>3, <2>4 DEF Redeem
      <3>2. \A f \in Emails : codeJwts'[f][n] = codeJwts[f][n]
        BY <1>0, <2>1, <3>1
      <3>3. QED
        BY <1>1, <2>2, <3>2
    <2>5. QED
      BY <2>3, <2>4
  <1>4. ASSUME codeJwts' = codeJwts,
               \A q \in Procs : req'[q].step = "redeem" => req'[q] = req[q]
        PROVE  Goal
    <2>1. held1 \subseteq held
      BY <1>4 DEF Holders
    <2>2. QED
      BY <1>1, <1>4, <2>1
  <1> HIDE DEF Goal
  <1>5. Goal
    BY <1>0, <1>2, <1>3, <1>4, CodeRequests
  <1>6. QED
    BY <1>5 DEF Goal
\* The same way of a link, whether its removal works or not.
LEMMA LinkLifeMoves ==
    ASSUME SecretInv, [Next]_vars, NEW n \in Sends
    PROVE  \/ LinkLife(n)' \in {LinkLife(n), "gone"}
           \/ LinkLife(n) = "unsent" /\ LinkLife(n)' = "live"
  <1> DEFINE Storing == {"store", "storeLink"}
  <1>0. TInv /\ sends \in Nat /\ sends' \in Nat /\ sends' >= sends
    BY SendsGrow, NextHistoryOK, StorageAssumption DEF SecretInv, IInv, TInv, HistoryOK
  <1>1. ASSUME ~Unsent(n, Storing)
        PROVE  ~Unsent(n, Storing)'
    <2>1. ~(n > sends')
      BY <1>0, <1>1 DEF Unsent, Sends
    <2>2. ASSUME NEW p \in Procs, req'[p].step \in Storing, req'[p].ref = n
          PROVE  FALSE
      <3>1. req'[p] # req[p]
        BY <1>1, <2>2 DEF Unsent
      <3>2. CASE \E e \in Emails : SendEmail(p, e)
        <4>1. n = sends + 1
          BY <1>0, <2>2, <3>2, BeginMoves DEF SendEmail
        <4>2. QED
          BY <1>0, <1>1, <4>1 DEF Unsent
      <3>3. CASE StoreCode(p)
        BY <1>0, <1>1, <2>2, <3>3, GoToMoves DEF StoreCode, At, Unsent
      <3>4. QED
        BY <1>0, <2>2, <3>1, <3>2, <3>3, NewStoring
    <2>3. QED
      BY <2>1, <2>2 DEF Unsent
  <1>2. ASSUME ~Unsent(n, Storing), linkTokenMap[n] = NoEmail
        PROVE  linkTokenMap'[n] = NoEmail
    <2>1. \A p \in Procs : req[p].step = "storeLink" => req[p].ref # n
      BY <1>2 DEF Unsent
    <2>2. QED
      BY <1>0, <1>2, <2>1, LinkTokenMapMoves
  <1>3. QED
    BY <1>1, <1>2 DEF LinkLife

\* Where the storage works, every step is one of the promise to each link.
LEMMA LinkSteps ==
    ASSUME SecretInv, [Next]_vars, StorageWorks, NEW n \in Sends,
           NEW life, life = LinkLife(n), NEW life1, life1 = LinkLife(n)',
           NEW held, held = Holders(n, {"burnLink", "signLink"}),
           NEW held1, held1 = Holders(n, {"burnLink", "signLink"})',
           NEW jwts, jwts = AnswersOf(linkJwts, n),
           NEW jwts1, jwts1 = AnswersOf(linkJwts, n)'
    PROVE  \/ life = "unsent" /\ life1 = "live" /\ held1 = held /\ jwts1 = jwts
           \/ life1 \in {life, "gone"} /\ held1 \subseteq held /\ jwts1 = jwts
           \/ \E r \in Procs :
                  \/ life = "live" /\ life1 = "live" /\ held1 = held \cup {r} /\ jwts1 = jwts
                  \/ r \in held /\ life1 = "gone" /\ held1 = held \ {r} /\ jwts1 = jwts + 1
  <1> DEFINE Goal ==
          \/ life = "unsent" /\ life1 = "live" /\ held1 = held /\ jwts1 = jwts
          \/ life1 \in {life, "gone"} /\ held1 \subseteq held /\ jwts1 = jwts
          \/ \E r \in Procs :
                 \/ life = "live" /\ life1 = "live" /\ held1 = held \cup {r} /\ jwts1 = jwts
                 \/ r \in held /\ life1 = "gone" /\ held1 = held \ {r} /\ jwts1 = jwts + 1
  <1> USE DEF At
  <1>0. /\ TInv /\ LinksUnused /\ LinksBurnt /\ Owners
        /\ linkJwts \in [Emails -> [Sends -> Nat]]
        /\ linkTokenMap \in [Sends -> Emails \cup {NoEmail}]
    BY DEF SecretInv, IInv, TInv, HistoryOK, StoreOK, StorageTypeOK
  <1>a. life1 \in {life, "gone"} \/ (life = "unsent" /\ life1 = "live")
    BY LinkLifeMoves
  <1>b. Unsent(n, {"store", "storeLink"}) => LinkUnused(n)
    BY <1>0 DEF Unsent, LinksUnused
  <1>c. life = "unsent" => held = {}
    BY <1>b DEF LinkLife, LinkUnused, Holders
  <1>1. ASSUME held1 \subseteq held, \A e \in Emails : linkJwts'[e][n] = linkJwts[e][n]
        PROVE  Goal
    <2>1. jwts1 = jwts
      BY <1>0, <1>1, AnswersKept
    <2>2. QED
      BY <1>1, <1>a, <1>c, <2>1
  <1>2. ASSUME NEW p \in Procs, NEW m \in Sends, VerifyLink(p, m)
        PROVE  Goal
    <2>1. /\ linkJwts' = linkJwts /\ linkTokenMap[m] # NoEmail /\ linkTokenMap' = linkTokenMap
          /\ req'[p].step = "burnLink" /\ req'[p].ref = m
          /\ req[p].step = "idle"
          /\ \A q \in Procs \ {p} : req'[q] = req[q]
      BY <1>0, <1>2, BeginMoves DEF VerifyLink, LinkKnown, answers, storage
    <2>2. CASE m = n
      <3>1. ~Unsent(n, {"store", "storeLink"})
        BY <1>b, <2>1, <2>2 DEF LinkUnused
      <3>2. life = "live"
        BY <2>1, <2>2, <3>1 DEF LinkLife
      <3>3. life1 = "live"
        <4>1. life1 # "unsent"
          BY <1>a, <3>2
        <4>2. linkTokenMap'[n] # NoEmail
          BY <2>1, <2>2
        <4>3. QED
          BY <4>1, <4>2 DEF LinkLife
      <3>4. held1 = held \cup {p}
        BY <2>1, <2>2 DEF Holders
      <3>5. jwts1 = jwts
        BY <1>0, <2>1, AnswersKept
      <3>6. QED
        BY <3>2, <3>3, <3>4, <3>5
    <2>3. CASE m # n
      <3>1. held1 \subseteq held
        BY <2>1, <2>3 DEF Holders
      <3>2. QED
        BY <1>1, <2>1, <3>1
    <2>4. QED
      BY <2>2, <2>3
  <1>3. ASSUME NEW p \in Procs, SignLink(p)
        PROVE  Goal
    <2> DEFINE e == req[p].email
    <2>1. /\ req[p].step = "signLink" /\ e \in Emails /\ req[p].ref \in Sends
          /\ owner[req[p].ref] = e /\ owner' = owner
          /\ linkTokenMap' = linkTokenMap
          /\ linkJwts' = [linkJwts EXCEPT ![e][req[p].ref] = @ + 1]
          /\ req'[p].step = "idle"
          /\ \A q \in Procs \ {p} : req'[q] = req[q]
      BY <1>0, <1>3, ReqTyped, FinishMoves DEF SignLink, Owners, storage
    <2>2. CASE req[p].ref = n
      <3>1. p \in held /\ held1 = held \ {p}
        BY <2>1, <2>2 DEF Holders
      <3>2. jwts1 = jwts + 1
        BY <1>0, <2>1, <2>2, StorageAssumption DEF AnswersOf
      <3>3. life # "unsent"
        BY <1>c, <3>1
      <3>4. linkTokenMap[n] = NoEmail
        BY <1>0, <2>1, <2>2 DEF LinksBurnt
      <3>5. life1 = "gone"
        <4>1. linkTokenMap'[n] = NoEmail
          BY <2>1, <3>4
        <4>2. life = "gone" /\ life1 # "live"
          BY <3>3, <3>4, <4>1 DEF LinkLife
        <4>3. QED
          BY <1>a, <4>2
      <3>6. QED
        BY <3>1, <3>2, <3>5
    <2>3. CASE req[p].ref # n
      <3>1. held1 \subseteq held
        BY <2>1 DEF Holders
      <3>2. \A f \in Emails : linkJwts'[f][n] = linkJwts[f][n]
        BY <1>0, <2>1, <2>3
      <3>3. QED
        BY <1>1, <3>1, <3>2
    <2>4. QED
      BY <2>2, <2>3
  <1>4. ASSUME NEW p \in Procs, BurnLink(p) \/ BurnLinkFails(p)
        PROVE  Goal
    <2>1. /\ req[p].step = "burnLink" /\ req'[p].ref = req[p].ref
          /\ \A q \in Procs \ {p} : req'[q] = req[q]
          /\ linkJwts' = linkJwts
      BY <1>0, <1>4, GoToMoves DEF BurnLink, BurnLinkFails, answers
    <2>2. held1 \subseteq held
      BY <2>1 DEF Holders
    <2>3. QED
      BY <1>1, <2>1, <2>2
  <1>5. ASSUME linkJwts' = linkJwts,
               \A q \in Procs : req'[q].step \in {"burnLink", "signLink"} => req'[q] = req[q]
        PROVE  Goal
    <2>1. held1 \subseteq held
      BY <1>5 DEF Holders
    <2>2. QED
      BY <1>1, <1>5, <2>1
  <1> HIDE DEF Goal
  <1>6. Goal
    BY <1>0, <1>2, <1>3, <1>4, <1>5, LinkRequests
  <1>7. QED
    BY <1>6 DEF Goal

\* The mapped variables are well typed.
LEMMA MappingTyped == TInv => Codes!TypeOK /\ Links!TypeOK
  <1> SUFFICES ASSUME TInv
               PROVE  Codes!TypeOK /\ Links!TypeOK
    OBVIOUS
  <1>1. \A n \in Sends : AnswersOf(codeJwts, n) \in Nat /\ AnswersOf(linkJwts, n) \in Nat
    BY DEF AnswersOf, TInv, HistoryOK
  <1>2. \A n \in Sends : \A steps : Holders(n, steps) \in SUBSET Procs
    BY DEF Holders
  <1>3. QED
    BY <1>1, <1>2 DEF Codes!TypeOK, Links!TypeOK, Codes!Lives, Links!Lives

\* At first every secret is unsent.
LEMMA InitSecrets == Init => Codes!Init /\ Links!Init
  <1> SUFFICES ASSUME Init
               PROVE  Codes!Init /\ Links!Init
    OBVIOUS
  <1>1. \A p \in Procs : req[p].step = "idle"
    BY DEF Init, Idle
  <1>2. \A n \in Sends : n > sends /\ owner[n] = NoEmail
    BY StorageAssumption DEF Init, Sends
  <1>3. /\ \A n \in Sends : \A steps : Unsent(n, steps)
        /\ \A n \in Sends : /\ Holders(n, {"redeem"}) = {}
                            /\ Holders(n, {"burnLink", "signLink"}) = {}
                            /\ AnswersOf(codeJwts, n) = 0 /\ AnswersOf(linkJwts, n) = 0
    BY <1>1, <1>2 DEF Unsent, Holders, AnswersOf
  <1>4. QED
    BY <1>3 DEF Codes!Init, Links!Init

\* Every step of the handlers is a step of the promise about codes.
LEMMA NextCodes ==
    ASSUME SecretInv, [Next]_vars
    PROVE  Codes!Next
  <1>1. Codes!TypeOK'
    <2>1. TInv'
      BY NextTInv DEF SecretInv, IInv
    <2>2. TInv' => Codes!TypeOK'
      BY MappingTyped, PTL
    <2>3. QED
      BY <2>1, <2>2
  <1>2. ASSUME NEW n \in Sends
        PROVE  \/ Codes!Store(n) \/ Codes!Lapse(n)
               \/ \E r \in Procs : Codes!Present(n, r) \/ Codes!Answer(n, r)
    BY CodeSteps DEF Codes!Store, Codes!Lapse, Codes!Present, Codes!Answer, CodeLife
  <1>3. QED
    BY <1>1, <1>2 DEF Codes!Next

\* And, where the storage works, of that about links.
LEMMA NextLinks ==
    ASSUME SecretInv, [Next]_vars, StorageWorks
    PROVE  Links!Next
  <1>1. Links!TypeOK'
    <2>1. TInv'
      BY NextTInv DEF SecretInv, IInv
    <2>2. TInv' => Links!TypeOK'
      BY MappingTyped, PTL
    <2>3. QED
      BY <2>1, <2>2
  <1>2. ASSUME NEW n \in Sends
        PROVE  \/ Links!Store(n) \/ Links!Lapse(n)
               \/ \E r \in Procs : Links!Present(n, r) \/ Links!Answer(n, r)
    BY LinkSteps DEF Links!Store, Links!Lapse, Links!Present, Links!Answer, LinkLife
  <1>3. QED
    BY <1>1, <1>2 DEF Links!Next

(***************************************************************************)
(* The handlers keep the promise about codes, for any number of requests   *)
(* in any interleaving, on either backend and whatever fails               *)
(* (handlers.go:171-199).                                                  *)
(***************************************************************************)
THEOREM CodesRefine == Spec => CodesAreOneTime
  <1>1. SecretInv /\ [Next]_vars => [Codes!Next]_(Codes!vars)
    BY NextCodes
  <1>2. QED
    BY <1>1, InitSecrets, InitSecretInv, NextSecretInv, PTL
       DEF Spec, CodesAreOneTime, Codes!Spec

(***************************************************************************)
(* They keep it about links where RemoveLinkToken cannot fail, whatever    *)
(* else does (handlers.go:232-260).                                        *)
(***************************************************************************)
THEOREM LinksRefine ==
    ASSUME Backend = "inmemory" \/ "storage" \notin Setbacks
    PROVE  Spec => LinksAreOneTime
  <1>1. SecretInv /\ [Next]_vars => [Links!Next]_(Links!vars)
    BY NextLinks DEF StorageWorks
  <1>2. QED
    BY <1>1, InitSecrets, InitSecretInv, NextSecretInv, PTL
       DEF Spec, LinksAreOneTime, Links!Spec
=============================================================================
