---------------------------- MODULE EmailIssuer ----------------------------
(***************************************************************************)
(* The handlers of backend/internal/http/handlers.go around the token      *)
(* storage: send, verify a code, verify a link, done.  Each request runs   *)
(* in a goroutine of its own, and its calls to the storage, the limiter,   *)
(* the signer and the mail server are separate steps, so the requests of   *)
(* all goroutines interleave between them.                                 *)
(*                                                                         *)
(* Requests that the input checks refuse change nothing and are left out.  *)
(* What the limiter decides is a choice here (Setback "refuse"); how it    *)
(* decides is in RateLimiter and the modules that implement it.            *)
(***************************************************************************)
EXTENDS TokenStorage

CONSTANTS
    Procs,          \* goroutines that serve requests
    Setbacks,       \* the kinds of setback that may happen
    MaxSetbacks     \* bound of the model: setbacks

SetbackKinds == {"storage", "refuse", "mail", "sign", "crash"}

ASSUME IssuerAssumption == Setbacks \subseteq SetbackKinds /\ MaxSetbacks \in Nat

VARIABLES
    sends,          \* sends begun so far; they number the codes
    owner,          \* owner[n]: the address send n is for
    req,            \* req[p]: the request goroutine p serves
    mailed,         \* sends whose mail has been handed to the mail server
    codeJwts,       \* codeJwts[e][n]: JWTs for e answered on the code of send n
    linkJwts,       \* linkJwts[e][n]: the same on the link of send n
    stores,         \* stores[e]: codes stored for e
    redemptions,    \* redemptions[e]: JWTs for e answered on a code
    setbacks        \* setbacks so far

answers == <<codeJwts, linkJwts, redemptions>>
vars == <<storage, sends, owner, req, mailed, answers, stores, setbacks>>

SendSteps == {"store", "storeLink", "limit", "mail"}
Steps == SendSteps \cup {"idle", "redeem", "burnLink", "signLink"}

Request == [step : Steps, email : Emails \cup {NoEmail}, ref : 0 .. MaxSends]

Idle == [step |-> "idle", email |-> NoEmail, ref |-> 0]

TypeOK ==
    /\ StorageTypeOK
    /\ sends \in 0 .. MaxSends
    /\ owner \in [Sends -> Emails \cup {NoEmail}]
    /\ req \in [Procs -> Request]
    /\ \A p \in Procs : req[p].step # "idle" =>
           req[p].email \in Emails /\ req[p].ref \in 1 .. sends
    /\ mailed \subseteq 1 .. sends
    /\ codeJwts \in [Emails -> [Sends -> Nat]]
    /\ linkJwts \in [Emails -> [Sends -> Nat]]
    /\ stores \in [Emails -> Nat]
    /\ redemptions \in [Emails -> Nat]
    /\ setbacks \in 0 .. MaxSetbacks

Init ==
    /\ StorageInit
    /\ sends = 0
    /\ owner = [n \in Sends |-> NoEmail]
    /\ req = [p \in Procs |-> Idle]
    /\ mailed = {}
    /\ codeJwts = [e \in Emails |-> [n \in Sends |-> 0]]
    /\ linkJwts = [e \in Emails |-> [n \in Sends |-> 0]]
    /\ stores = [e \in Emails |-> 0]
    /\ redemptions = [e \in Emails |-> 0]
    /\ setbacks = 0

At(p, step) == req[p].step = step

GoTo(p, step) == req' = [req EXCEPT ![p].step = step]

Begin(p, step, e, n) ==
    req' = [req EXCEPT ![p] = [step |-> step, email |-> e, ref |-> n]]

Finish(p) == req' = [req EXCEPT ![p] = Idle]

Setback(kind) ==
    /\ kind \in Setbacks
    /\ setbacks < MaxSetbacks
    /\ setbacks' = setbacks + 1

\* A call to the storage fails, and may have been carried out all the same.
\* The in-memory methods fail only by what they find (RemoveTokenOK).
StorageFails == Backend = "redis" /\ Setback("storage")

-----------------------------------------------------------------------------
(* POST /api/send                                                          *)

\* The address is valid and GenerateToken has drawn a code.
SendEmail(p, e) ==
    /\ At(p, "idle")
    /\ sends < MaxSends
    /\ sends' = sends + 1
    /\ owner' = [owner EXCEPT ![sends'] = e]
    /\ Begin(p, "store", e, sends')
    /\ UNCHANGED <<storage, mailed, answers, stores, setbacks>>

CodeStored(p) ==
    /\ StoreToken(req[p].email, req[p].ref)
    /\ stores' = [stores EXCEPT ![req[p].email] = @ + 1]

StoreCode(p) ==
    /\ At(p, "store")
    /\ CodeStored(p)
    /\ GoTo(p, "storeLink")
    /\ UNCHANGED <<linkTokenMap, sends, owner, mailed, answers, setbacks>>

StoreCodeFails(p) ==
    /\ At(p, "store")
    /\ StorageFails
    /\ CodeStored(p) \/ UNCHANGED <<tokenMap, stores>>
    /\ Finish(p)
    /\ UNCHANGED <<linkTokenMap, sends, owner, mailed, answers>>

StoreLink(p) ==
    /\ At(p, "storeLink")
    /\ StoreLinkToken(req[p].ref, req[p].email)
    /\ GoTo(p, "limit")
    /\ UNCHANGED <<tokenMap, sends, owner, mailed, answers, stores, setbacks>>

StoreLinkFails(p) ==
    /\ At(p, "storeLink")
    /\ StorageFails
    /\ StoreLinkToken(req[p].ref, req[p].email) \/ UNCHANGED linkTokenMap
    /\ Finish(p)
    /\ UNCHANGED <<tokenMap, sends, owner, mailed, answers, stores>>

LimiterAllows(p) ==
    /\ At(p, "limit")
    /\ GoTo(p, "mail")
    /\ UNCHANGED <<storage, sends, owner, mailed, answers, stores, setbacks>>

\* 429, or the template did not render: code and link token are stored.  Or
\* no link token could be drawn, and only the code is.
SendRefused(p) ==
    /\ At(p, "limit") \/ At(p, "storeLink")
    /\ Setback("refuse")
    /\ Finish(p)
    /\ UNCHANGED <<storage, sends, owner, mailed, answers, stores>>

\* Mutation of Letter: the code is kept in a field that requests share.
LetterShared(p) == sends

\* The send whose code and link the mail of this request carries.
Letter(p) == req[p].ref

Mail(p) ==
    /\ At(p, "mail")
    /\ mailed' = mailed \cup {Letter(p)}
    /\ Finish(p)
    /\ UNCHANGED <<storage, sends, owner, answers, stores, setbacks>>

MailFails(p) ==
    /\ At(p, "mail")
    /\ Setback("mail")
    /\ mailed' \in {mailed, mailed \cup {Letter(p)}}
    /\ Finish(p)
    /\ UNCHANGED <<storage, sends, owner, answers, stores>>

-----------------------------------------------------------------------------
(* POST /api/verify                                                        *)

\* Mutation of CodeMatches: any stored code will do.
CodeIsThere(e, n) == tokenMap[e] # 0

\* RetrieveToken answers the code presented.
CodeMatches(e, n) == tokenMap[e] = n

\* The client presents the code of send n for address e.
VerifyEmail(p, e, n) ==
    /\ At(p, "idle")
    /\ n <= sends
    /\ CodeMatches(e, n)
    /\ Begin(p, "redeem", e, n)
    /\ UNCHANGED <<storage, sends, owner, mailed, answers, stores, setbacks>>

\* Mutation of SpendCode: the code is left for /api/done to remove.
SpendCodeLater(e) == UNCHANGED tokenMap

SpendCode(e) == RemoveToken(e)

\* The JWT, made before, is answered when RemoveToken returns no error.
Redeem(p) ==
    LET e == req[p].email
    IN  /\ At(p, "redeem")
        /\ IF RemoveTokenOK(e)
           THEN /\ SpendCode(e)
                /\ codeJwts' = [codeJwts EXCEPT ![e][req[p].ref] = @ + 1]
                /\ redemptions' = [redemptions EXCEPT ![e] = @ + 1]
           ELSE UNCHANGED <<tokenMap, codeJwts, redemptions>>
        /\ Finish(p)
        /\ UNCHANGED <<linkTokenMap, sends, owner, mailed, linkJwts, stores, setbacks>>

RedeemFails(p) ==
    /\ At(p, "redeem")
    /\ StorageFails
    /\ RemoveToken(req[p].email) \/ UNCHANGED tokenMap
    /\ Finish(p)
    /\ UNCHANGED <<linkTokenMap, sends, owner, mailed, answers, stores>>

-----------------------------------------------------------------------------
(* POST /api/verify-link                                                   *)

\* Mutation of LinkKnown: the error of the storage is not looked at.
LinkKnownOrNot(n) == TRUE

LinkKnown(n) == linkTokenMap[n] # NoEmail

\* The client follows the link of send n, and the storage knows it.
VerifyLink(p, n) ==
    /\ At(p, "idle")
    /\ LinkKnown(n)
    /\ Begin(p, "burnLink", linkTokenMap[n], n)
    /\ UNCHANGED <<storage, sends, owner, mailed, answers, stores, setbacks>>

\* Mutation of Burn: the link is left for later, like the code of a link.
BurnLater(n) == UNCHANGED storage

Burn(n) == RemoveLinkToken(n) /\ UNCHANGED tokenMap

\* The result is only logged: a link token that has gone meanwhile is as good.
BurnLink(p) ==
    /\ At(p, "burnLink")
    /\ Burn(req[p].ref)
    /\ GoTo(p, "signLink")
    /\ UNCHANGED <<sends, owner, mailed, answers, stores, setbacks>>

BurnLinkFails(p) ==
    /\ At(p, "burnLink")
    /\ StorageFails
    /\ RemoveLinkToken(req[p].ref) \/ UNCHANGED linkTokenMap
    /\ GoTo(p, "signLink")
    /\ UNCHANGED <<tokenMap, sends, owner, mailed, answers, stores>>

SignLink(p) ==
    /\ At(p, "signLink")
    /\ linkJwts' = [linkJwts EXCEPT ![req[p].email][req[p].ref] = @ + 1]
    /\ Finish(p)
    /\ UNCHANGED <<storage, sends, owner, mailed, codeJwts, redemptions, stores, setbacks>>

\* The key cannot be read, signing fails or, for a link, the address no longer
\* passes validation: the request ends before it reaches RemoveToken, but
\* after RemoveLinkToken.
SignFails(p) ==
    /\ At(p, "redeem") \/ At(p, "signLink")
    /\ Setback("sign")
    /\ Finish(p)
    /\ UNCHANGED <<storage, sends, owner, mailed, answers, stores>>

-----------------------------------------------------------------------------

\* /api/done: one RemoveToken, by address.
VerifyDone(e) ==
    /\ RemoveToken(e)
    /\ UNCHANGED <<linkTokenMap, sends, owner, req, mailed, answers, stores, setbacks>>

\* The backend goes down with the requests it serves.
Crash ==
    /\ Setback("crash")
    /\ req' = [p \in Procs |-> Idle]
    /\ StorageAfterCrash
    /\ UNCHANGED <<sends, owner, mailed, answers, stores>>

Expiry ==
    /\ (\E e \in Emails : CodeExpires(e)) \/ (\E n \in Sends : LinkExpires(n))
    /\ UNCHANGED <<sends, owner, req, mailed, answers, stores, setbacks>>

SendNext(p) ==
    \/ \E e \in Emails : SendEmail(p, e)
    \/ StoreCode(p) \/ StoreCodeFails(p)
    \/ StoreLink(p) \/ StoreLinkFails(p)
    \/ LimiterAllows(p) \/ SendRefused(p)
    \/ Mail(p) \/ MailFails(p)

VerifyNext(p) ==
    \/ \E e \in Emails, n \in Sends : VerifyEmail(p, e, n)
    \/ Redeem(p) \/ RedeemFails(p)
    \/ \E n \in Sends : VerifyLink(p, n)
    \/ BurnLink(p) \/ BurnLinkFails(p)
    \/ SignLink(p) \/ SignFails(p)

Next ==
    \/ \E p \in Procs : SendNext(p) \/ VerifyNext(p)
    \/ \E e \in Emails : VerifyDone(e)
    \/ Crash
    \/ Expiry

Spec == Init /\ [][Next]_vars

-----------------------------------------------------------------------------

\* Send n has not come to the step that stores its code, or its link.
Unsent(n, steps) == n > sends \/ \E p \in Procs : req[p].step \in steps /\ req[p].ref = n

Holders(n, steps) == {p \in Procs : req[p].step \in steps /\ req[p].ref = n}

\* JWTs for the address that send n is for.
AnswersOf(jwts, n) == IF owner[n] = NoEmail THEN 0 ELSE jwts[owner[n]][n]

Codes == INSTANCE OneTimeSecret WITH
    Secrets <- Sends, Requests <- Procs,
    life <- [n \in Sends |-> IF Unsent(n, {"store"}) THEN "unsent"
                             ELSE IF \E e \in Emails : tokenMap[e] = n THEN "live" ELSE "gone"],
    holders <- [n \in Sends |-> Holders(n, {"redeem"})],
    answers <- [n \in Sends |-> AnswersOf(codeJwts, n)]

Links == INSTANCE OneTimeSecret WITH
    Secrets <- Sends, Requests <- Procs,
    life <- [n \in Sends |-> IF Unsent(n, {"store", "storeLink"}) THEN "unsent"
                             ELSE IF linkTokenMap[n] # NoEmail THEN "live" ELSE "gone"],
    holders <- [n \in Sends |-> Holders(n, {"burnLink", "signLink"})],
    answers <- [n \in Sends |-> AnswersOf(linkJwts, n)]

(***************************************************************************)
(* The codes are one-time secrets, on either backend and whatever fails:   *)
(* what is let in with a code is let in before its first JWT               *)
(* (handlers.go:171-199).                                                  *)
(***************************************************************************)
CodesAreOneTime == Codes!Spec

(***************************************************************************)
(* So are the links where RemoveLinkToken cannot fail, although the JWT    *)
(* comes steps after it (handlers.go:232-260); on Redis it can, and the    *)
(* link then lives on.                                                     *)
(***************************************************************************)
LinksAreOneTime == Links!Spec

(***************************************************************************)
(* A JWT names the address the code or the link was made for, whatever     *)
(* other requests stored between the look-up and the answer                *)
(* (handlers.go:171-188, 232-260).                                         *)
(***************************************************************************)
JwtNamesOwner ==
    \A e \in Emails, n \in Sends :
        codeJwts[e][n] > 0 \/ linkJwts[e][n] > 0 => owner[n] = e

(***************************************************************************)
(* A code that was redeemed is not in the storage again: no request that   *)
(* begins after the answer can redeem it once more (handlers.go:194-201).  *)
(* It holds on both backends and survives every setback.                   *)
(***************************************************************************)
RedeemedCodeStaysDead ==
    \A e \in Emails, n \in Sends : codeJwts[e][n] > 0 => tokenMap[e] # n

(***************************************************************************)
(* The same for links, as long as RemoveLinkToken does not fail            *)
(* (handlers.go:238-244).                                                  *)
(***************************************************************************)
AnsweredLinkIsDead ==
    setbacks = 0 =>
        \A e \in Emails, n \in Sends :
            linkJwts[e][n] > 0 => linkTokenMap[n] = NoEmail

(***************************************************************************)
(* In memory, an address is never given more JWTs on codes than codes were *)
(* stored for it, however the verifications race: RemoveToken of a code    *)
(* that is gone is an error (token_storage.go:46-48, 128-138).             *)
(***************************************************************************)
CodeJwtsBounded ==
    Backend = "inmemory" => \A e \in Emails : redemptions[e] <= stores[e]

(***************************************************************************)
(* As long as no send is refused and nothing fails, the code stored for an *)
(* address is one its owner has in a mail or is about to get, although it  *)
(* is stored well before the mail goes out (handlers.go:313-359).          *)
(***************************************************************************)
LiveCodeIsMailed ==
    setbacks = 0 =>
        \A e \in Emails : tokenMap[e] # 0 =>
            \/ tokenMap[e] \in mailed
            \/ \E p \in Procs : /\ req[p].step \in {"storeLink", "limit", "mail"}
                                /\ req[p].ref = tokenMap[e]

(***************************************************************************)
(* "The verification code is single-use: once it has been successfully     *)
(* redeemed [...] it cannot be used again" (handlers.go:194-197).          *)
(***************************************************************************)
CodeSingleUse ==
    \A e \in Emails, n \in Sends : codeJwts[e][n] <= 1

(***************************************************************************)
(* "Invalidate the link token immediately so the verification link is      *)
(* single-use and cannot be replayed" (handlers.go:238-241).               *)
(***************************************************************************)
LinkSingleUse ==
    \A e \in Emails, n \in Sends : linkJwts[e][n] <= 1
=============================================================================
