--------------------------- MODULE Frontend_proofs ---------------------------
(***************************************************************************)
(* Proofs about the pages: their state stays well typed, a verified link   *)
(* leaves no error, and which fetches the backend leaves unanswered, for   *)
(* any number of tabs, addresses and fetches.                              *)
(***************************************************************************)
EXTENDS Frontend, TLAPS

\* The fetches of a tab that are under way.
Of(t) == {f \in fetches : f.tab = t}

(***************************************************************************)
(* TypeOK with what it rests on: only a link that was mailed is verified,  *)
(* and a verification that went well has learnt the address.               *)
(***************************************************************************)
LinksBegun == \A n \in Sends : linkTokenMap[n] # NoEmail => n <= sends

LinkFetches ==
    \A f \in fetches : f.api = "verify-link" =>
        f.ref \in Sends /\ (f.phase = "ok" => f.email \in Emails)

TInv == TypeOK /\ LinksBegun /\ LinkFetches

(***************************************************************************)
(* NoSpuriousError over time, for a tab r and its fetches F: a closed tab  *)
(* is untouched; a tab that shows a link has begun nothing before, begins  *)
(* one fetch, and ends it by a popup or by an error.                       *)
(***************************************************************************)
LinkTab(r, F) ==
    /\ r.page = "enroll" /\ r.typed = 0
    /\ \A f \in F : f.api \in {"verify-link", "popup", "done"}
    /\ \A f, g \in F : f = g
    /\ ~r.started => F = {} /\ r.issued = 0 /\ r.popups = {} /\ r.alert = "none"
    /\ r.alert = "verify" => F = {} /\ r.issued = 0
    /\ r.issued > 0 => \A f \in F : f.api = "done"

Orderly(r, F) ==
    /\ r.page = "closed" => r = Blank /\ F = {}
    /\ r.hash # 0 => LinkTab(r, F)

TabsInv == \A t \in Tabs : Orderly(tab[t], Of(t))

-----------------------------------------------------------------------------
(* Types.                                                                  *)

\* The record of a tab that shows a page anew.
LEMMA MountedTyped ==
    ASSUME TypeOK, NEW t \in Tabs, NEW page \in Pages
    PROVE  /\ Mounted(t, page) \in Tab
           /\ Mounted(t, page).page = page
           /\ Mounted(t, page).hash = 0
           /\ Mounted(t, page).typed = 0
           /\ ~Mounted(t, page).started
           /\ Mounted(t, page).alert = "none"
           /\ Mounted(t, page).issued = tab[t].issued
           /\ Mounted(t, page).popups = tab[t].popups
<1> DEFINE since == IF page = "enroll" THEN fetched ELSE 0
           r == [page |-> page, email |-> tab[t].email, typed |-> 0, hash |-> 0,
                 started |-> FALSE, alert |-> "none", since |-> since,
                 popups |-> tab[t].popups, issued |-> tab[t].issued, missed |-> FALSE]
<1>0. tab[t] \in Tab /\ fetched \in Nat /\ 0 \in 0 .. MaxSends
    BY StorageAssumption DEF TypeOK
<1>1. /\ tab[t].email \in Emails \cup {NoEmail} /\ tab[t].popups \in SUBSET Nat
      /\ tab[t].issued \in Nat
    BY <1>0 DEF Tab
<1>2. since \in Nat
    BY <1>0
<1> HIDE DEF since
<1>3. Mounted(t, page) = r
    <2>1. Mounted(t, page) = [Blank EXCEPT !.page = page, !.email = tab[t].email, !.since = since,
                                           !.popups = tab[t].popups, !.issued = tab[t].issued]
        BY DEF Mounted, since
    <2> QED BY <2>1 DEF Blank
<1>4. r \in Tab
    BY <1>0, <1>1, <1>2 DEF Tab
<1> QED BY <1>3, <1>4

\* The record of a tab with a banner.
LEMMA AlertedTyped ==
    ASSUME TypeOK, NEW t \in Tabs, NEW n, NEW about \in {"verify", "popup"}
    PROVE  /\ Alerted(t, n, about) \in Tab
           /\ Alerted(t, n, about).alert \in {tab[t].alert, about}
           /\ Alerted(t, n, about).page = tab[t].page
           /\ Alerted(t, n, about).hash = tab[t].hash
           /\ Alerted(t, n, about).typed = tab[t].typed
           /\ Alerted(t, n, about).started = tab[t].started
           /\ Alerted(t, n, about).issued = tab[t].issued
           /\ Alerted(t, n, about).popups = tab[t].popups
<1>1. tab[t] \in Tab
    BY DEF TypeOK
<1> QED BY <1>1 DEF Alerted, Tab

\* What a fetch becomes keeps the types of the fetches.
LEMMA BecomesTyped ==
    ASSUME TypeOK, LinkFetches, NEW f \in fetches, NEW g \in Fetch, Becomes(f, g),
           g.api # "verify-link" => g.email \in Emails,
           g.api = "verify-link" => g.ref \in Sends /\ (g.phase = "ok" => g.email \in Emails)
    PROVE  /\ fetches' \subseteq Fetch
           /\ \A h \in fetches' : h.api # "verify-link" => h.email \in Emails
           /\ LinkFetches'
BY DEF TypeOK, LinkFetches, Becomes

\* The same for a fetch that is begun.
LEMMA RequestTyped ==
    ASSUME TypeOK, LinkFetches, NEW t \in Tabs, NEW e \in Emails \cup {NoEmail},
           NEW n \in 0 .. MaxSends, NEW api \in {"send", "verify", "verify-link"},
           Request(t, api, e, n),
           api # "verify-link" => e \in Emails, api = "verify-link" => n \in Sends
    PROVE  /\ fetches' \subseteq Fetch
           /\ \A h \in fetches' : h.api # "verify-link" => h.email \in Emails
           /\ LinkFetches'
           /\ fetched' \in Nat
<1> DEFINE g == [id |-> fetched, tab |-> t, api |-> api, email |-> e, ref |-> n, phase |-> "sent"]
<1>1. g \in Fetch
    BY DEF TypeOK, Fetch
<1>2. fetches' = fetches \cup {g} /\ fetched' = fetched + 1
    BY DEF Request
<1> QED BY <1>1, <1>2 DEF TypeOK, LinkFetches

\* The types hold initially.
LEMMA InitTInv == Init => TInv
<1> SUFFICES ASSUME Init
             PROVE  TInv
    OBVIOUS
<1> USE DEF Init
<1>1. Blank \in Tab
    BY StorageAssumption DEF Blank, Tab, Pages
<1>2. tab \in [Tabs -> Tab]
    BY <1>1
<1>3. StorageTypeOK
    BY StorageAssumption DEF StorageInit, StorageTypeOK
<1>4. LinksBegun
    BY DEF StorageInit, LinksBegun
<1>5. sends \in 0 .. MaxSends
    BY StorageAssumption
<1>6. fetches = {} /\ fetched \in Nat /\ mailed = {} /\ followed = {}
    OBVIOUS
<1>7. LinkFetches
    BY <1>6 DEF LinkFetches
<1> QED BY <1>2, <1>3, <1>4, <1>5, <1>6, <1>7 DEF TInv, TypeOK

\* What the browser changes, well typed.
BrowserOK ==
    /\ tab' \in [Tabs -> Tab]
    /\ fetches' \subseteq Fetch
    /\ \A f \in fetches' : f.api # "verify-link" => f.email \in Emails
    /\ fetched' \in Nat
    /\ LinkFetches'

\* What the user does keeps the types.
LEMMA UserActsTyped ==
    ASSUME TInv, NEW t \in Tabs, UserActs(t)
    PROVE  BrowserOK
<1>0. TypeOK /\ LinkFetches /\ tab[t] \in Tab
    BY DEF TInv, TypeOK
<1>a. ASSUME NEW r \in Tab, tab' = [tab EXCEPT ![t] = r], UNCHANGED <<fetches, fetched>>
      PROVE  BrowserOK
    BY <1>0, <1>a DEF BrowserOK, TypeOK, LinkFetches
<1>b. ASSUME NEW page \in Pages, Show(t, page), UNCHANGED <<fetches, fetched>>
      PROVE  BrowserOK
    BY <1>0, <1>a, <1>b, MountedTyped DEF Show
<1>1. ASSUME NEW page \in Pages, Open(t, page)
      PROVE  BrowserOK
    BY <1>1, <1>b DEF Open
<1>2. ASSUME NEW n \in Sends, OpenLink(t, n)
      PROVE  BrowserOK
    <2>1. [Mounted(t, "enroll") EXCEPT !.hash = n] \in Tab
        <3>1. Mounted(t, "enroll") \in Tab /\ n \in 0 .. MaxSends
            BY <1>0, MountedTyped, StorageAssumption DEF Pages, Sends
        <3> QED BY <3>1 DEF Tab
    <2> QED BY <1>2, <1>a, <2>1 DEF OpenLink
<1>3. ASSUME NEW e \in Emails, SubmitAddress(t, e)
      PROVE  BrowserOK
    <2>1. [Mounted(t, "validate") EXCEPT !.email = e] \in Tab
        <3>1. Mounted(t, "validate") \in Tab
            BY <1>0, MountedTyped DEF Pages
        <3> QED BY <3>1 DEF Tab
    <2> QED BY <1>3, <1>a, <2>1 DEF SubmitAddress
<1>4. ASSUME Back(t)
      PROVE  BrowserOK
    BY <1>4, <1>b DEF Back, Pages
<1>5. ASSUME Confirm(t)
      PROVE  BrowserOK
    <2>1. CASE tab[t].email = NoEmail
        BY <1>5, <1>b, <2>1 DEF Confirm, Pages
    <2>2. CASE tab[t].email # NoEmail
        <3>1. Request(t, "send", tab[t].email, 0) /\ UNCHANGED tab
            BY <1>5, <2>2 DEF Confirm
        <3>2. tab[t].email \in Emails /\ 0 \in 0 .. MaxSends
            BY <1>0, <2>2, StorageAssumption DEF Tab
        <3>3. /\ fetches' \subseteq Fetch
              /\ \A h \in fetches' : h.api # "verify-link" => h.email \in Emails
              /\ LinkFetches'
              /\ fetched' \in Nat
            BY <1>0, <3>1, <3>2, RequestTyped
        <3> QED BY <1>0, <3>1, <3>3 DEF BrowserOK, TypeOK
    <2> QED BY <2>1, <2>2
<1>6. ASSUME NEW n \in Sends, TypeCode(t, n)
      PROVE  BrowserOK
    <2>1. [tab[t] EXCEPT !.typed = n] \in Tab
        <3>1. n \in 0 .. MaxSends
            BY StorageAssumption DEF Sends
        <3> QED BY <1>0, <3>1 DEF Tab
    <2>2. tab' = [tab EXCEPT ![t] = [tab[t] EXCEPT !.typed = n]] /\ UNCHANGED <<fetches, fetched>>
        BY <1>6 DEF TypeCode
    <2> QED BY <1>a, <2>1, <2>2
<1>7. ASSUME SubmitCode(t)
      PROVE  BrowserOK
    <2>1. CASE ~CanVerify(t)
        BY <1>7, <1>b, <2>1 DEF SubmitCode, Pages
    <2>2. CASE CanVerify(t)
        <3>1. /\ Request(t, "verify", tab[t].email, tab[t].typed)
              /\ tab' = [tab EXCEPT ![t] = [tab[t] EXCEPT !.alert = "none"]]
            BY <1>7, <2>2 DEF SubmitCode
        <3>2. tab[t].email \in Emails /\ tab[t].typed \in 0 .. MaxSends
            BY <1>0, <2>2 DEF Tab, CanVerify
        <3>3. /\ fetches' \subseteq Fetch
              /\ \A h \in fetches' : h.api # "verify-link" => h.email \in Emails
              /\ LinkFetches'
              /\ fetched' \in Nat
            BY <1>0, <3>1, <3>2, RequestTyped
        <3>4. [tab[t] EXCEPT !.alert = "none"] \in Tab
            BY <1>0 DEF Tab
        <3>5. tab' \in [Tabs -> Tab]
            BY <1>0, <3>1, <3>4 DEF TypeOK
        <3> QED BY <3>3, <3>5 DEF BrowserOK
    <2> QED BY <2>1, <2>2
<1>8. ASSUME PopupEnds(t)
      PROVE  BrowserOK
    <2>0. PICK n \in tab[t].popups : \E after \in {Mounted(t, "done"), Alerted(t, n, "popup")} :
              tab' = [tab EXCEPT ![t] = [after EXCEPT !.popups = @ \ {n}]]
        BY <1>8 DEF PopupEnds
    <2>1. PICK after \in {Mounted(t, "done"), Alerted(t, n, "popup")} :
              tab' = [tab EXCEPT ![t] = [after EXCEPT !.popups = @ \ {n}]]
        BY <2>0
    <2>2. after \in Tab
        BY <1>0, MountedTyped, AlertedTyped DEF Pages
    <2>3. [after EXCEPT !.popups = @ \ {n}] \in Tab
        BY <2>2 DEF Tab
    <2> QED BY <1>8, <1>a, <2>1, <2>3 DEF PopupEnds
<1> QED BY <1>1, <1>2, <1>3, <1>4, <1>5, <1>6, <1>7, <1>8 DEF UserActs

\* The effect of a link keeps them.
LEMMA LinkEffectTyped ==
    ASSUME TInv, NEW t \in Tabs, LinkEffect(t)
    PROVE  BrowserOK
<1>0. TypeOK /\ LinkFetches /\ tab[t] \in Tab
    BY DEF TInv, TypeOK
<1>1. /\ Request(t, "verify-link", NoEmail, tab[t].hash)
      /\ tab' = [tab EXCEPT ![t] = [tab[t] EXCEPT !.started = TRUE]]
      /\ tab[t].hash # 0
    BY DEF LinkEffect
<1>2. tab[t].hash \in Sends /\ tab[t].hash \in 0 .. MaxSends
    BY <1>0, <1>1, StorageAssumption DEF Tab, Sends
<1>3. /\ fetches' \subseteq Fetch
      /\ \A h \in fetches' : h.api # "verify-link" => h.email \in Emails
      /\ LinkFetches'
      /\ fetched' \in Nat
    BY <1>0, <1>1, <1>2, RequestTyped
<1>4. [tab[t] EXCEPT !.started = TRUE] \in Tab
    BY <1>0 DEF Tab
<1>5. tab' \in [Tabs -> Tab]
    BY <1>0, <1>1, <1>4 DEF TypeOK
<1> QED BY <1>3, <1>5 DEF BrowserOK

\* An answer keeps them.
LEMMA AnsweredTyped ==
    ASSUME TInv, NEW f \in fetches, Answered(f)
    PROVE  BrowserOK
<1>0. /\ TypeOK /\ LinkFetches /\ f \in Fetch /\ f.tab \in Tabs /\ f.id \in Nat
      /\ tab[f.tab] \in Tab /\ fetched' = fetched
    BY DEF TInv, TypeOK, Fetch, Answered
<1>a. ASSUME fetches' = fetches \ {f}, tab' \in [Tabs -> Tab]
      PROVE  BrowserOK
    BY <1>0, <1>a DEF BrowserOK, TypeOK, LinkFetches
<1>b. ASSUME NEW r \in Tab, tab' = [tab EXCEPT ![f.tab] = r]
      PROVE  tab' \in [Tabs -> Tab]
    BY <1>0, <1>b DEF TypeOK
<1>1. ASSUME SendAnswered(f)
      PROVE  BrowserOK
    <2>1. [tab[f.tab] EXCEPT !.hash = 0] \in Tab
        BY <1>0, StorageAssumption DEF Tab
    <2>2. Mounted(f.tab, "enroll") \in Tab
        BY <1>0, MountedTyped DEF Pages
    <2>3. \/ tab' = [tab EXCEPT ![f.tab] = [tab[f.tab] EXCEPT !.hash = 0]]
          \/ tab' = [tab EXCEPT ![f.tab] = Mounted(f.tab, "enroll")]
          \/ tab' = tab
        BY <1>1 DEF SendAnswered
    <2>4. tab' \in [Tabs -> Tab]
        BY <1>0, <1>b, <2>1, <2>2, <2>3 DEF TypeOK
    <2> QED BY <1>1, <1>a, <2>4 DEF SendAnswered
<1>c. ASSUME NEW api \in {"popup", "done"}, tab' \in [Tabs -> Tab], f.email \in Emails,
             Becomes(f, [f EXCEPT !.api = api, !.phase = "sent"])
      PROVE  BrowserOK
    <2> DEFINE g == [f EXCEPT !.api = api, !.phase = "sent"]
    <2>1. g \in Fetch /\ g.api = api /\ g.email = f.email
        BY <1>0 DEF Fetch
    <2>2. Becomes(f, g)
        BY <1>c
    <2> HIDE DEF g
    <2>3. /\ fetches' \subseteq Fetch
          /\ \A h \in fetches' : h.api # "verify-link" => h.email \in Emails
          /\ LinkFetches'
        BY <1>0, <1>c, <2>1, <2>2, BecomesTyped
    <2> QED BY <1>0, <1>c, <2>3 DEF BrowserOK, TypeOK
<1>2. ASSUME IssuanceStarted(f)
      PROVE  BrowserOK
    <2> DEFINE learnt == IF f.api = "verify" THEN tab[f.tab].email ELSE f.email
               r == [tab[f.tab] EXCEPT !.email = learnt]
    <2>1. tab' = [tab EXCEPT ![f.tab] = r]
        BY <1>2 DEF IssuanceStarted
    <2>2. learnt \in Emails \cup {NoEmail}
        BY <1>0 DEF Tab, Fetch
    <2>3. r \in Tab
        <3> HIDE DEF learnt
        <3> QED BY <1>0, <2>2 DEF Tab
    <2>4. f.email \in Emails
        BY <1>0, <1>2 DEF IssuanceStarted, TypeOK, LinkFetches
    <2> HIDE DEF r
    <2>5. tab' \in [Tabs -> Tab]
        BY <1>b, <2>1, <2>3
    <2> QED BY <1>2, <1>c, <2>4, <2>5 DEF IssuanceStarted
<1>6. ASSUME PopupLoaded(f)
      PROVE  BrowserOK
    <2> DEFINE r == [tab[f.tab] EXCEPT !.popups = @ \cup {f.id}, !.issued = @ + 1]
    <2>1. tab' = [tab EXCEPT ![f.tab] = r]
        BY <1>6 DEF PopupLoaded
    <2>2. tab[f.tab].popups \cup {f.id} \in SUBSET Nat /\ tab[f.tab].issued + 1 \in Nat
        BY <1>0 DEF Tab
    <2>3. [tab[f.tab] EXCEPT !.popups = tab[f.tab].popups \cup {f.id}] \in Tab
        BY <1>0, <2>2 DEF Tab
    <2>4. r = [[tab[f.tab] EXCEPT !.popups = tab[f.tab].popups \cup {f.id}]
                   EXCEPT !.issued = tab[f.tab].issued + 1]
        BY <1>0 DEF Tab
    <2>5. r \in Tab
        BY <2>2, <2>3, <2>4 DEF Tab
    <2>6. f.email \in Emails
        BY <1>0, <1>6 DEF PopupLoaded, TypeOK
    <2> HIDE DEF r
    <2>7. tab' \in [Tabs -> Tab]
        BY <1>b, <2>1, <2>5
    <2> QED BY <1>6, <1>c, <2>6, <2>7 DEF PopupLoaded, CleanUp
<1>7. ASSUME PopupLost(f)
      PROVE  BrowserOK
    <2>1. [tab[f.tab] EXCEPT !.missed = TRUE] \in Tab
        BY <1>0 DEF Tab
    <2>2. tab' = [tab EXCEPT ![f.tab] = [tab[f.tab] EXCEPT !.missed = TRUE]]
        BY <1>7 DEF PopupLost
    <2>3. f.email \in Emails
        BY <1>0, <1>7 DEF PopupLost, TypeOK
    <2>4. tab' \in [Tabs -> Tab]
        BY <1>b, <2>1, <2>2
    <2> QED BY <1>7, <1>c, <2>3, <2>4 DEF PopupLost, CleanUp
<1>3. ASSUME VerifyRefused(f)
      PROVE  BrowserOK
    BY <1>0, <1>3, <1>a, <1>b, AlertedTyped DEF VerifyRefused
<1>4. ASSUME VerifyLost(f)
      PROVE  BrowserOK
    BY <1>0, <1>4, <1>a, <1>b, MountedTyped DEF VerifyLost, Caught, Show, Pages
<1>5. ASSUME DoneAnswered(f)
      PROVE  BrowserOK
    BY <1>0, <1>5, <1>a DEF DoneAnswered, TypeOK
<1> QED BY <1>1, <1>2, <1>3, <1>4, <1>5, <1>6, <1>7 DEF Answered

\* A route takes every fetch but the clean-up and the popup's code.
LEMMA Unrouted ==
    ASSUME TypeOK, NEW f \in fetches, ~Reaches(f, f.api)
    PROVE  f.api \in {"popup", "done"}
<1>1. f \in Fetch
    BY DEF TypeOK
<1>2. f.api \in {"send", "verify", "verify-link", "popup", "done"}
    BY <1>1 DEF Fetch
<1>3. <<"POST", "send">> \in Routes /\ <<"POST", "verify">> \in Routes
      /\ <<"POST", "verify-link">> \in Routes
    BY DEF Routes
<1> QED BY <1>2, <1>3 DEF Reaches

\* The static files answer, refuse or panic.
LEMMA StaticTyped ==
    ASSUME NEW api, NEW stat \in Stats
    PROVE  /\ StaticAnswer(api, stat) \in {"ok", "error", "lost"}
           /\ StaticAnswer(api, stat) = "lost" <=> stat = "error"
<1>1. stat \in {"absent", "directory", "file", "error"}
    BY FrontendAssumption
<1> QED BY <1>1 DEF StaticAnswer

\* What a fetch becomes that only comes to another phase.
LEMMA PhaseTyped ==
    ASSUME TypeOK, LinkFetches, NEW f \in fetches, NEW p \in {"ok", "error", "lost"},
           Becomes(f, [f EXCEPT !.phase = p]),
           f.api = "verify-link" => p # "ok"
    PROVE  /\ fetches' \subseteq Fetch
           /\ \A h \in fetches' : h.api # "verify-link" => h.email \in Emails
           /\ LinkFetches'
<1> DEFINE g == [f EXCEPT !.phase = p]
<1>1. f \in Fetch
    BY DEF TypeOK
<1>2. g \in Fetch /\ g.api = f.api /\ g.email = f.email /\ g.ref = f.ref /\ g.phase = p
    BY <1>1 DEF Fetch
<1>3. /\ g.api # "verify-link" => g.email \in Emails
      /\ g.api = "verify-link" => g.ref \in Sends /\ (g.phase = "ok" => g.email \in Emails)
    BY <1>2 DEF TypeOK, LinkFetches
<1>4. Becomes(f, g)
    OBVIOUS
<1> HIDE DEF g
<1> QED BY <1>2, <1>3, <1>4, BecomesTyped

\* What the backend does keeps them.
LEMMA ServeTyped ==
    ASSUME TInv, NEW f \in fetches, Serve(f)
    PROVE  TInv'
<1>0. /\ TypeOK /\ LinkFetches /\ LinksBegun /\ f \in Fetch
      /\ sends \in 0 .. MaxSends /\ MaxSends \in Nat
      /\ f.phase = "sent" /\ tab' = tab /\ fetched' = fetched
    BY StorageAssumption DEF TInv, TypeOK, Serve
<1>a. ASSUME fetches' \subseteq Fetch,
             \A h \in fetches' : h.api # "verify-link" => h.email \in Emails,
             LinkFetches', LinksBegun', StorageTypeOK',
             sends' \in 0 .. MaxSends, mailed' \subseteq 1 .. sends', followed' \subseteq 1 .. sends'
      PROVE  TInv'
    BY <1>0, <1>a DEF TInv, TypeOK
<1>b. ASSUME UNCHANGED <<storage, sends, history>>
      PROVE  /\ LinksBegun' /\ StorageTypeOK' /\ sends' \in 0 .. MaxSends
             /\ mailed' \subseteq 1 .. sends' /\ followed' \subseteq 1 .. sends'
    BY <1>0, <1>b DEF storage, history, LinksBegun, TypeOK, StorageTypeOK
<1>1. ASSUME ServeSend(f)
      PROVE  TInv'
    <2>1. /\ f.api = "send" /\ f.email \in Emails /\ sends' = sends + 1 /\ sends < MaxSends
          /\ tokenMap' = [tokenMap EXCEPT ![f.email] = sends']
          /\ linkTokenMap' = [linkTokenMap EXCEPT ![sends'] = f.email]
          /\ followed' = followed
          /\ mailed' = mailed \/ mailed' = mailed \cup {sends'}
        BY <1>0, <1>1 DEF ServeSend, Reaches, StoreToken, StoreLinkToken, TypeOK
    <2>2. sends' \in 1 .. MaxSends /\ sends' \in 0 .. MaxSends /\ sends' \in Sends
        BY <1>0, <2>1 DEF Sends
    <2>3. StorageTypeOK'
        BY <1>0, <2>1, <2>2 DEF TypeOK, StorageTypeOK
    <2>4. LinksBegun'
        BY <1>0, <2>1, <2>2 DEF LinksBegun, TypeOK, StorageTypeOK, Sends
    <2>5. mailed' \subseteq 1 .. sends' /\ followed' \subseteq 1 .. sends'
        <3>1. 1 .. sends \subseteq 1 .. sends' /\ sends' \in 1 .. sends'
            BY <1>0, <2>1
        <3>2. mailed \subseteq 1 .. sends' /\ followed \subseteq 1 .. sends'
            BY <1>0, <3>1 DEF TypeOK
        <3> QED BY <2>1, <3>1, <3>2
    <2>6. /\ fetches' \subseteq Fetch
          /\ \A h \in fetches' : h.api # "verify-link" => h.email \in Emails
          /\ LinkFetches'
        BY <1>0, <1>1, <2>1, PhaseTyped DEF ServeSend
    <2> QED BY <1>a, <2>2, <2>3, <2>4, <2>5, <2>6
<1>2. ASSUME ServeVerify(f)
      PROVE  TInv'
    <2>1. /\ f.api = "verify" /\ f.email \in Emails
          /\ tokenMap' = [tokenMap EXCEPT ![f.email] = 0]
          /\ linkTokenMap' = linkTokenMap /\ sends' = sends
          /\ mailed' = mailed /\ followed' = followed
          /\ Becomes(f, [f EXCEPT !.phase = "ok"])
        BY <1>0, <1>2 DEF ServeVerify, Reaches, RemoveToken, TypeOK, history
    <2>2. StorageTypeOK'
        BY <1>0, <2>1 DEF TypeOK, StorageTypeOK
    <2>3. LinksBegun'
        BY <1>0, <2>1 DEF LinksBegun
    <2>4. /\ fetches' \subseteq Fetch
          /\ \A h \in fetches' : h.api # "verify-link" => h.email \in Emails
          /\ LinkFetches'
        BY <1>0, <2>1, PhaseTyped
    <2> QED BY <1>0, <1>a, <2>1, <2>2, <2>3, <2>4 DEF TypeOK
<1>3. ASSUME ServeVerifyLink(f)
      PROVE  TInv'
    <2> DEFINE e == linkTokenMap[f.ref]
    <2>1. /\ f.api = "verify-link" /\ f.ref \in Sends /\ e # NoEmail
          /\ linkTokenMap' = [linkTokenMap EXCEPT ![f.ref] = NoEmail]
          /\ tokenMap' = tokenMap /\ sends' = sends /\ mailed' = mailed
          /\ followed' = followed \/ followed' = followed \cup {f.ref}
        BY <1>0, <1>3 DEF ServeVerifyLink, Reaches, RemoveLinkToken, LinkFetches
    <2>2. e \in Emails /\ f.ref \in 1 .. sends
        BY <1>0, <2>1 DEF TypeOK, StorageTypeOK, LinksBegun, Sends
    <2>3. StorageTypeOK'
        BY <1>0, <2>1 DEF TypeOK, StorageTypeOK
    <2>4. LinksBegun'
        BY <1>0, <2>1 DEF LinksBegun, TypeOK, StorageTypeOK
    <2>5. /\ fetches' \subseteq Fetch
          /\ \A h \in fetches' : h.api # "verify-link" => h.email \in Emails
          /\ LinkFetches'
        <3>1. CASE Becomes(f, [f EXCEPT !.phase = "error"])
            BY <1>0, <3>1, PhaseTyped
        <3>2. CASE Becomes(f, [f EXCEPT !.phase = "ok", !.email = e])
            <4> DEFINE g == [f EXCEPT !.phase = "ok", !.email = e]
            <4> HIDE DEF e
            <4>1. /\ g \in Fetch /\ g.api = "verify-link" /\ g.ref = f.ref
                  /\ g.email \in Emails
                BY <1>0, <2>1, <2>2 DEF Fetch
            <4>2. Becomes(f, g)
                BY <3>2
            <4> HIDE DEF g
            <4> QED BY <1>0, <2>1, <4>1, <4>2, BecomesTyped
        <3> QED BY <1>3, <3>1, <3>2 DEF ServeVerifyLink
    <2>6. followed' \subseteq 1 .. sends'
        <3> HIDE DEF e
        <3> QED BY <1>0, <2>1, <2>2 DEF TypeOK
    <2> QED BY <1>0, <1>a, <2>1, <2>3, <2>4, <2>5, <2>6 DEF TypeOK
<1>4. ASSUME ServeRefused(f)
      PROVE  TInv'
    BY <1>0, <1>4, <1>a, <1>b, PhaseTyped DEF ServeRefused
<1>5. ASSUME ServeStatic(f)
      PROVE  TInv'
    <2>1. PICK p \in {"ok", "error", "lost"} : Becomes(f, [f EXCEPT !.phase = p])
        BY <1>5, StaticTyped DEF ServeStatic
    <2>2. f.api \in {"popup", "done"}
        BY <1>0, <1>5, Unrouted DEF ServeStatic
    <2>3. /\ fetches' \subseteq Fetch
          /\ \A h \in fetches' : h.api # "verify-link" => h.email \in Emails
          /\ LinkFetches'
        BY <1>0, <2>1, <2>2, PhaseTyped
    <2> QED BY <1>5, <1>a, <1>b, <2>3 DEF ServeStatic
<1> QED BY <1>1, <1>2, <1>3, <1>4, <1>5 DEF Serve

\* Every step keeps the types.
LEMMA NextTInv == TInv /\ [Next]_vars => TInv'
<1> SUFFICES ASSUME TInv, [Next]_vars
             PROVE  TInv'
    OBVIOUS
<1>a. ASSUME BrowserOK, UNCHANGED <<storage, sends, history>>
      PROVE  TInv'
    BY <1>a DEF BrowserOK, storage, history, TInv, TypeOK, LinksBegun, StorageTypeOK
<1>1. ASSUME NEW t \in Tabs, UserActs(t), UNCHANGED <<storage, sends, history>>
      PROVE  TInv'
    BY <1>1, <1>a, UserActsTyped
<1>2. ASSUME NEW t \in Tabs, LinkEffect(t), UNCHANGED <<storage, sends, history>>
      PROVE  TInv'
    BY <1>2, <1>a, LinkEffectTyped
<1>3. ASSUME NEW f \in fetches, Answered(f), UNCHANGED <<storage, sends, history>>
      PROVE  TInv'
    BY <1>3, <1>a, AnsweredTyped
<1>4. ASSUME NEW f \in fetches, Lost(f), UNCHANGED <<storage, sends, history>>
      PROVE  TInv'
    <2>1. /\ fetches' \subseteq Fetch
          /\ \A h \in fetches' : h.api # "verify-link" => h.email \in Emails
          /\ LinkFetches'
        BY <1>4, PhaseTyped DEF TInv, Lost
    <2> QED BY <1>4, <1>a, <2>1 DEF BrowserOK, Lost, TInv, TypeOK
<1>5. ASSUME NEW f \in fetches, Serve(f)
      PROVE  TInv'
    BY <1>5, ServeTyped
<1>6. ASSUME Expires
      PROVE  TInv'
    <2>1. /\ UNCHANGED <<sends, tab, fetches, fetched, mailed, followed>>
          /\ StorageTypeOK' /\ LinksBegun'
        BY <1>6, StorageAssumption
           DEF Expires, CodeExpires, LinkExpires, RemoveToken, RemoveLinkToken, browser, history,
               TInv, TypeOK, StorageTypeOK, LinksBegun
    <2> QED BY <2>1 DEF TInv, TypeOK, LinkFetches
<1>7. ASSUME UNCHANGED vars
      PROVE  TInv'
    BY <1>7 DEF vars, storage, browser, history, TInv, TypeOK, StorageTypeOK, LinksBegun, LinkFetches
<1> QED BY <1>1, <1>2, <1>3, <1>4, <1>5, <1>6, <1>7 DEF Next

(***************************************************************************)
(* The state of the pages and of the backend stays well typed.             *)
(***************************************************************************)
THEOREM TypeCorrect == Spec => []TypeOK
<1>1. TInv => TypeOK
    BY DEF TInv
<1> QED BY <1>1, InitTInv, NextTInv, PTL DEF Spec

-----------------------------------------------------------------------------
(* A verified link leaves no error.                                        *)

\* The tabs are orderly initially.
LEMMA InitTabsInv == Init => TabsInv
BY DEF Init, TabsInv, Orderly, Of, Blank

\* A page without a link is orderly, whatever is on it and under way.
LEMMA PlainOrderly ==
    ASSUME NEW r, NEW F, r.page # "closed", r.hash = 0
    PROVE  Orderly(r, F)
BY DEF Orderly

\* A step disturbs one tab.
LEMMA OneTab ==
    ASSUME TabsInv, NEW t \in Tabs,
           \A u \in Tabs \ {t} : tab'[u] = tab[u] /\ Of(u)' = Of(u),
           Orderly(tab'[t], Of(t)')
    PROVE  TabsInv'
BY DEF TabsInv

\* So does a step that only opens or changes a page without a link.
LEMMA PlainStep ==
    ASSUME TInv, TabsInv, NEW t \in Tabs, NEW r, tab' = [tab EXCEPT ![t] = r],
           \A u \in Tabs \ {t} : Of(u)' = Of(u),
           r.page # "closed", r.hash = 0
    PROVE  TabsInv'
<1>1. tab'[t] = r /\ \A u \in Tabs \ {t} : tab'[u] = tab[u]
    BY DEF TInv, TypeOK
<1> QED BY <1>1, PlainOrderly, OneTab

\* What the user does keeps the tabs orderly.
LEMMA UserActsTabs ==
    ASSUME TInv, TabsInv, NEW t \in Tabs, UserActs(t)
    PROVE  TabsInv'
<1>0. TypeOK /\ tab[t] \in Tab /\ Orderly(tab[t], Of(t))
    BY DEF TInv, TypeOK, TabsInv
<1>a. ASSUME UNCHANGED <<fetches, fetched>>
      PROVE  \A u \in Tabs : Of(u)' = Of(u)
    BY <1>a DEF Of
<1>b. ASSUME NEW page \in Pages \ {"closed"}, Show(t, page), UNCHANGED <<fetches, fetched>>
      PROVE  TabsInv'
    <2>1. Mounted(t, page).page # "closed" /\ Mounted(t, page).hash = 0
        BY <1>0, MountedTyped
    <2>2. tab' = [tab EXCEPT ![t] = Mounted(t, page)]
        BY <1>b DEF Show
    <2>3. \A u \in Tabs \ {t} : Of(u)' = Of(u)
        BY <1>a, <1>b
    <2> QED BY <2>1, <2>2, <2>3, PlainStep
<1>c. ASSUME NEW api, NEW e, NEW n, Request(t, api, e, n)
      PROVE  \A u \in Tabs \ {t} : Of(u)' = Of(u)
    BY <1>c DEF Request, Of
<1>1. ASSUME NEW page \in Pages \ {"closed"}, Open(t, page)
      PROVE  TabsInv'
    BY <1>1, <1>b DEF Open
<1>2. ASSUME NEW n \in Sends, OpenLink(t, n)
      PROVE  TabsInv'
    <2>1. tab[t] = Blank /\ Of(t) = {}
        BY <1>0, <1>2 DEF OpenLink, On, Orderly
    <2> DEFINE m == Mounted(t, "enroll")
               r == [m EXCEPT !.hash = n]
    <2>2. /\ m \in Tab /\ m.page = "enroll" /\ m.typed = 0 /\ ~m.started
          /\ m.alert = "none" /\ m.issued = 0 /\ m.popups = {}
        BY <1>0, <2>1, MountedTyped DEF Pages, Blank
    <2>3. tab' = [tab EXCEPT ![t] = r]
        BY <1>2 DEF OpenLink
    <2> HIDE DEF m
    <2>4. /\ r.page = "enroll" /\ r.typed = 0 /\ ~r.started
          /\ r.alert = "none" /\ r.issued = 0 /\ r.popups = {}
        BY <2>2 DEF Tab
    <2> HIDE DEF r
    <2>5. Orderly(r, {})
        BY <2>4 DEF Orderly, LinkTab
    <2>6. tab'[t] = r /\ \A u \in Tabs \ {t} : tab'[u] = tab[u]
        BY <2>3 DEF TInv, TypeOK
    <2> QED BY <1>2, <1>a, <2>1, <2>5, <2>6, OneTab DEF OpenLink
<1>3. ASSUME NEW e \in Emails, SubmitAddress(t, e)
      PROVE  TabsInv'
    <2> DEFINE m == Mounted(t, "validate")
               r == [m EXCEPT !.email = e]
    <2>1. m \in Tab /\ m.page = "validate" /\ m.hash = 0
        BY <1>0, MountedTyped DEF Pages
    <2>2. tab' = [tab EXCEPT ![t] = r]
        BY <1>3 DEF SubmitAddress
    <2> HIDE DEF m
    <2>3. r.page = "validate" /\ r.hash = 0
        BY <2>1 DEF Tab
    <2> HIDE DEF r
    <2> QED BY <1>3, <1>a, <2>2, <2>3, PlainStep DEF SubmitAddress
<1>4. ASSUME Back(t)
      PROVE  TabsInv'
    BY <1>4, <1>b DEF Back, Pages
<1>5. ASSUME Confirm(t)
      PROVE  TabsInv'
    <2>1. CASE tab[t].email = NoEmail
        BY <1>5, <1>b, <2>1 DEF Confirm, Pages
    <2>2. CASE tab[t].email # NoEmail
        <3>1. Request(t, "send", tab[t].email, 0) /\ tab' = tab
            BY <1>5, <2>2 DEF Confirm
        <3>2. tab[t].page = "validate" /\ tab[t].hash = 0
            BY <1>0, <1>5 DEF Confirm, On, Orderly, LinkTab
        <3> QED BY <1>c, <3>1, <3>2, PlainOrderly, OneTab
    <2> QED BY <2>1, <2>2
<1>6. ASSUME NEW n \in Sends, TypeCode(t, n)
      PROVE  TabsInv'
    <2> DEFINE r == [tab[t] EXCEPT !.typed = n]
    <2>1. tab' = [tab EXCEPT ![t] = r]
        BY <1>6 DEF TypeCode
    <2>2. r.page = "enroll" /\ r.hash = 0
        BY <1>0, <1>6 DEF TypeCode, On, Tab
    <2> HIDE DEF r
    <2> QED BY <1>6, <1>a, <2>1, <2>2, PlainStep DEF TypeCode
<1>7. ASSUME SubmitCode(t)
      PROVE  TabsInv'
    <2>1. CASE ~CanVerify(t)
        BY <1>7, <1>b, <2>1 DEF SubmitCode, Pages
    <2>2. CASE CanVerify(t)
        <3> DEFINE r == [tab[t] EXCEPT !.alert = "none"]
        <3>1. Request(t, "verify", tab[t].email, tab[t].typed) /\ tab' = [tab EXCEPT ![t] = r]
            BY <1>7, <2>2 DEF SubmitCode
        <3>2. tab[t].page = "enroll" /\ tab[t].hash = 0
            BY <1>0, <1>7, <2>2 DEF SubmitCode, CanVerify, On, Orderly, LinkTab
        <3>3. r.page = "enroll" /\ r.hash = 0
            BY <1>0, <3>2 DEF Tab
        <3> HIDE DEF r
        <3> QED BY <1>c, <3>1, <3>3, PlainStep
    <2> QED BY <2>1, <2>2
<1>8. ASSUME PopupEnds(t)
      PROVE  TabsInv'
    <2>0. PICK n \in tab[t].popups : \E after \in {Mounted(t, "done"), Alerted(t, n, "popup")} :
              tab' = [tab EXCEPT ![t] = [after EXCEPT !.popups = @ \ {n}]]
        BY <1>8 DEF PopupEnds
    <2>1. PICK after \in {Mounted(t, "done"), Alerted(t, n, "popup")} :
              tab' = [tab EXCEPT ![t] = [after EXCEPT !.popups = @ \ {n}]]
        BY <2>0
    <2> DEFINE r == [after EXCEPT !.popups = @ \ {n}]
    <2>2. tab' = [tab EXCEPT ![t] = r]
        BY <2>1
    <2>3. \A u \in Tabs : Of(u)' = Of(u)
        BY <1>8, <1>a DEF PopupEnds
    <2>4. CASE after = Mounted(t, "done")
        <3>1. after \in Tab /\ after.page = "done" /\ after.hash = 0
            BY <1>0, <2>4, MountedTyped DEF Pages
        <3>2. r.page = "done" /\ r.hash = 0
            BY <3>1 DEF Tab
        <3> HIDE DEF r
        <3> QED BY <2>2, <2>3, <3>2, PlainStep
    <2>5. CASE after = Alerted(t, n, "popup")
        <3>1. /\ after \in Tab /\ after.page = tab[t].page /\ after.hash = tab[t].hash
              /\ after.typed = tab[t].typed /\ after.started = tab[t].started
              /\ after.issued = tab[t].issued /\ after.alert \in {tab[t].alert, "popup"}
            BY <1>0, <2>5, AlertedTyped
        <3>2. /\ r.page = tab[t].page /\ r.hash = tab[t].hash
              /\ r.typed = tab[t].typed /\ r.started = tab[t].started
              /\ r.issued = tab[t].issued /\ r.alert \in {tab[t].alert, "popup"}
            BY <3>1 DEF Tab
        <3>3. tab[t].page # "closed"
            BY <1>0, <2>0 DEF Orderly, Blank
        <3>4. tab[t].hash # 0 => tab[t].started
            BY <1>0, <2>0 DEF Orderly, LinkTab
        <3> HIDE DEF r
        <3>5. Orderly(r, Of(t))
            BY <1>0, <3>2, <3>3, <3>4 DEF Orderly, LinkTab
        <3>6. tab'[t] = r /\ \A u \in Tabs \ {t} : tab'[u] = tab[u]
            BY <2>2 DEF TInv, TypeOK
        <3> QED BY <2>3, <3>5, <3>6, OneTab
    <2> QED BY <2>4, <2>5
<1> QED BY <1>1, <1>2, <1>3, <1>4, <1>5, <1>6, <1>7, <1>8 DEF UserActs

\* The effect of a link begins the one fetch of its tab.
LEMMA LinkEffectTabs ==
    ASSUME TInv, TabsInv, NEW t \in Tabs, LinkEffect(t)
    PROVE  TabsInv'
<1>0. tab[t] \in Tab /\ Orderly(tab[t], Of(t))
    BY DEF TInv, TypeOK, TabsInv
<1> DEFINE r == [tab[t] EXCEPT !.started = TRUE]
           g == [id |-> fetched, tab |-> t, api |-> "verify-link",
                 email |-> NoEmail, ref |-> tab[t].hash, phase |-> "sent"]
<1>1. /\ tab[t].hash # 0 /\ ~tab[t].started
      /\ tab' = [tab EXCEPT ![t] = r]
      /\ fetches' = fetches \cup {g}
    BY DEF LinkEffect, FirstRun, Request
<1>2. Of(t) = {} /\ LinkTab(tab[t], {})
    BY <1>0, <1>1 DEF Orderly, LinkTab
<1>3. /\ r.page = "enroll" /\ r.typed = 0 /\ r.started
      /\ r.alert = "none" /\ r.issued = 0
    BY <1>0, <1>1, <1>2 DEF LinkTab, Tab
<1>4. g.tab = t /\ g.api = "verify-link"
    OBVIOUS
<1> HIDE DEF r, g
<1>5. Of(t)' = {g} /\ \A u \in Tabs \ {t} : Of(u)' = Of(u)
    BY <1>1, <1>2, <1>4 DEF Of
<1>6. Orderly(r, {g})
    BY <1>3, <1>4 DEF Orderly, LinkTab
<1>7. tab'[t] = r /\ \A u \in Tabs \ {t} : tab'[u] = tab[u]
    BY <1>1 DEF TInv, TypeOK
<1> QED BY <1>5, <1>6, <1>7, OneTab

\* An answer ends the one fetch, by a popup or by an error.
LEMMA AnsweredTabs ==
    ASSUME TInv, TabsInv, NEW f \in fetches, Answered(f)
    PROVE  TabsInv'
<1> DEFINE t == f.tab
<1>0. /\ TypeOK /\ f \in Fetch /\ t \in Tabs /\ tab[t] \in Tab
      /\ f \in Of(t) /\ Orderly(tab[t], Of(t))
    BY DEF TInv, TypeOK, TabsInv, Fetch, Of
<1>1. /\ tab[t].page # "closed"
      /\ tab[t].hash # 0 => /\ Of(t) = {f} /\ LinkTab(tab[t], {f})
                            /\ f.api \in {"verify-link", "popup", "done"}
                            /\ tab[t].started /\ tab[t].alert # "verify"
    BY <1>0 DEF Orderly, LinkTab
<1>a. ASSUME fetches' = fetches \ {f}
      PROVE  Of(t)' = Of(t) \ {f} /\ \A u \in Tabs \ {t} : Of(u)' = Of(u)
    BY <1>a DEF Of
<1> HIDE DEF t
<1>2. ASSUME SendAnswered(f)
      PROVE  TabsInv'
    <2>1. tab[t].hash = 0 /\ fetches' = fetches \ {f}
        BY <1>1, <1>2 DEF SendAnswered
    <2>2. CASE tab' = [tab EXCEPT ![t] = [tab[t] EXCEPT !.hash = 0]]
        <3> DEFINE r == [tab[t] EXCEPT !.hash = 0]
        <3>1. r.page # "closed" /\ r.hash = 0
            BY <1>0, <1>1 DEF Tab
        <3>2. tab' = [tab EXCEPT ![t] = r]
            BY <2>2
        <3> HIDE DEF r
        <3> QED BY <1>0, <1>a, <2>1, <3>1, <3>2, PlainStep
    <2>3. CASE tab' = [tab EXCEPT ![t] = Mounted(t, "enroll")]
        BY <1>0, <1>a, <2>1, <2>3, MountedTyped, PlainStep DEF Pages
    <2>4. CASE tab' = tab
        BY <1>0, <1>1, <1>a, <2>1, <2>4, PlainOrderly, OneTab
    <2> QED BY <1>2, <2>2, <2>3, <2>4 DEF SendAnswered, t
<1>b. ASSUME NEW api \in {"popup", "done"}, NEW r,
             Becomes(f, [f EXCEPT !.api = api, !.phase = "sent"]),
             tab' = [tab EXCEPT ![t] = r],
             r.page = tab[t].page, r.hash = tab[t].hash, r.typed = tab[t].typed,
             r.started = tab[t].started, r.alert = tab[t].alert,
             tab[t].hash # 0 /\ r.issued > 0 => api = "done"
      PROVE  TabsInv'
    <2> DEFINE g == [f EXCEPT !.api = api, !.phase = "sent"]
    <2>1. g.tab = t /\ g.api = api
        BY <1>0 DEF Fetch, t
    <2>2. fetches' = (fetches \ {f}) \cup {g}
        BY <1>b DEF Becomes
    <2> HIDE DEF g
    <2>3. Of(t)' = (Of(t) \ {f}) \cup {g} /\ \A u \in Tabs \ {t} : Of(u)' = Of(u)
        BY <2>1, <2>2 DEF Of, t
    <2>4. ASSUME tab[t].hash # 0
          PROVE  LinkTab(r, Of(t)')
        <3>1. Of(t)' = {g}
            BY <1>1, <2>3, <2>4
        <3>2. LinkTab(r, {g})
            BY <1>1, <1>b, <2>1, <2>4 DEF LinkTab
        <3> QED BY <3>1, <3>2
    <2>5. Orderly(r, Of(t)')
        BY <1>1, <1>b, <2>4 DEF Orderly
    <2>6. tab'[t] = r /\ \A u \in Tabs \ {t} : tab'[u] = tab[u]
        BY <1>0, <1>b DEF TypeOK
    <2> QED BY <1>0, <2>3, <2>5, <2>6, OneTab
<1>3. ASSUME IssuanceStarted(f)
      PROVE  TabsInv'
    <2> DEFINE learnt == IF f.api = "verify" THEN tab[t].email ELSE f.email
               r == [tab[t] EXCEPT !.email = learnt]
    <2>1. tab' = [tab EXCEPT ![t] = r] /\ f.api # "done"
        BY <1>3 DEF IssuanceStarted, t
    <2>2. /\ r.page = tab[t].page /\ r.hash = tab[t].hash /\ r.typed = tab[t].typed
          /\ r.started = tab[t].started /\ r.alert = tab[t].alert /\ r.issued = tab[t].issued
        <3> HIDE DEF learnt
        <3> QED BY <1>0 DEF Tab
    <2> HIDE DEF r
    <2>3. ~(tab[t].hash # 0 /\ r.issued > 0)
        BY <1>1, <2>1, <2>2 DEF LinkTab
    <2>4. Becomes(f, [f EXCEPT !.api = "popup", !.phase = "sent"])
        BY <1>3 DEF IssuanceStarted
    <2> QED BY <1>b, <2>1, <2>2, <2>3, <2>4
<1>7. ASSUME PopupLoaded(f)
      PROVE  TabsInv'
    <2> DEFINE r == [tab[t] EXCEPT !.popups = @ \cup {f.id}, !.issued = @ + 1]
    <2>1. /\ tab' = [tab EXCEPT ![t] = r]
          /\ Becomes(f, [f EXCEPT !.api = "done", !.phase = "sent"])
        BY <1>7 DEF PopupLoaded, CleanUp, t
    <2>2. /\ r.page = tab[t].page /\ r.hash = tab[t].hash /\ r.typed = tab[t].typed
          /\ r.started = tab[t].started /\ r.alert = tab[t].alert
        BY <1>0 DEF Tab
    <2> HIDE DEF r
    <2> QED BY <1>b, <2>1, <2>2
<1>8. ASSUME PopupLost(f)
      PROVE  TabsInv'
    <2> DEFINE r == [tab[t] EXCEPT !.missed = TRUE]
    <2>1. /\ tab' = [tab EXCEPT ![t] = r]
          /\ Becomes(f, [f EXCEPT !.api = "done", !.phase = "sent"])
        BY <1>8 DEF PopupLost, CleanUp, t
    <2>2. /\ r.page = tab[t].page /\ r.hash = tab[t].hash /\ r.typed = tab[t].typed
          /\ r.started = tab[t].started /\ r.alert = tab[t].alert
        BY <1>0 DEF Tab
    <2> HIDE DEF r
    <2> QED BY <1>b, <2>1, <2>2
<1>4. ASSUME VerifyRefused(f)
      PROVE  TabsInv'
    <2> DEFINE r == Alerted(t, f.id, "verify")
    <2>1. /\ tab' = [tab EXCEPT ![t] = r] /\ fetches' = fetches \ {f}
          /\ f.api # "done"
        BY <1>4 DEF VerifyRefused, t
    <2>2. /\ r.page = tab[t].page /\ r.hash = tab[t].hash /\ r.typed = tab[t].typed
          /\ r.started = tab[t].started /\ r.issued = tab[t].issued
          /\ r.popups = tab[t].popups
        BY <1>0, AlertedTyped
    <2> HIDE DEF r
    <2>3. ASSUME tab[t].hash # 0
          PROVE  LinkTab(r, {}) /\ Of(t)' = {}
        <3>1. tab[t].issued \in Nat /\ ~(tab[t].issued > 0)
            BY <1>0, <1>1, <2>1, <2>3 DEF LinkTab, Tab
        <3> QED BY <1>1, <1>a, <2>1, <2>2, <2>3, <3>1 DEF LinkTab
    <2>4. Orderly(r, Of(t)')
        BY <1>1, <2>2, <2>3 DEF Orderly
    <2>5. tab'[t] = r /\ \A u \in Tabs \ {t} : tab'[u] = tab[u]
        BY <1>0, <2>1 DEF TypeOK
    <2> QED BY <1>0, <1>a, <2>1, <2>4, <2>5, OneTab
<1>5. ASSUME VerifyLost(f)
      PROVE  TabsInv'
    <2>1. tab' = [tab EXCEPT ![t] = Mounted(t, "error")] /\ fetches' = fetches \ {f}
        BY <1>5 DEF VerifyLost, Caught, Show, t
    <2> QED BY <1>0, <1>a, <2>1, MountedTyped, PlainStep DEF Pages
<1>6. ASSUME DoneAnswered(f)
      PROVE  TabsInv'
    <2>1. tab' = tab /\ fetches' = fetches \ {f}
        BY <1>6 DEF DoneAnswered
    <2>2. tab[t].hash # 0 => LinkTab(tab[t], Of(t)')
        BY <1>1, <1>a, <2>1 DEF LinkTab
    <2>3. Orderly(tab'[t], Of(t)')
        BY <1>1, <2>1, <2>2 DEF Orderly
    <2> QED BY <1>0, <1>a, <2>1, <2>3, OneTab
<1> QED BY <1>2, <1>3, <1>4, <1>5, <1>6, <1>7, <1>8 DEF Answered

\* A fetch that comes to another phase is still the fetch of its tab.
LEMMA BecomesTabs ==
    ASSUME TInv, TabsInv, tab' = tab, NEW f \in fetches, NEW g, Becomes(f, g),
           g.tab = f.tab, g.api = f.api
    PROVE  TabsInv'
<1> DEFINE t == f.tab
<1>0. f \in Fetch /\ t \in Tabs /\ f \in Of(t) /\ Orderly(tab[t], Of(t))
    BY DEF TInv, TypeOK, TabsInv, Fetch, Of
<1>1. Of(t)' = (Of(t) \ {f}) \cup {g} /\ \A u \in Tabs \ {t} : Of(u)' = Of(u)
    BY DEF Becomes, Of
<1>2. ASSUME tab[t].hash # 0
      PROVE  LinkTab(tab[t], Of(t)')
    <2>1. LinkTab(tab[t], Of(t)) /\ Of(t) = {f}
        BY <1>0, <1>2 DEF Orderly, LinkTab
    <2>2. Of(t)' = {g}
        BY <1>1, <2>1
    <2>3. LinkTab(tab[t], {g})
        BY <2>1 DEF LinkTab
    <2> QED BY <2>2, <2>3
<1>3. Orderly(tab'[t], Of(t)')
    BY <1>0, <1>2 DEF Orderly
<1> QED BY <1>0, <1>1, <1>3, OneTab

\* The backend and the network change the phase of a fetch and no tab.
LEMMA ServeTabs ==
    ASSUME TInv, TabsInv, NEW f \in fetches, Serve(f) \/ Lost(f)
    PROVE  TabsInv'
<1>0. f \in Fetch /\ tab' = tab
    BY DEF TInv, TypeOK, Serve, Lost
<1>a. ASSUME NEW p, Becomes(f, [f EXCEPT !.phase = p])
      PROVE  TabsInv'
    <2>1. [f EXCEPT !.phase = p].tab = f.tab /\ [f EXCEPT !.phase = p].api = f.api
        BY <1>0 DEF Fetch
    <2> QED BY <1>0, <1>a, <2>1, BecomesTabs
<1>1. CASE \E e : Becomes(f, [f EXCEPT !.phase = "ok", !.email = e])
    <2>1. PICK e : Becomes(f, [f EXCEPT !.phase = "ok", !.email = e])
        BY <1>1
    <2> DEFINE g == [f EXCEPT !.phase = "ok", !.email = e]
    <2>2. g.tab = f.tab /\ g.api = f.api /\ Becomes(f, g)
        BY <1>0, <2>1 DEF Fetch
    <2> HIDE DEF g
    <2> QED BY <1>0, <2>2, BecomesTabs
<1>2. CASE \E p : Becomes(f, [f EXCEPT !.phase = p])
    BY <1>2, <1>a
<1>3. \/ \E e : Becomes(f, [f EXCEPT !.phase = "ok", !.email = e])
      \/ \E p : Becomes(f, [f EXCEPT !.phase = p])
    <2>1. CASE ServeVerifyLink(f)
        BY <2>1 DEF ServeVerifyLink
    <2>2. CASE ServeStatic(f)
        BY <2>2 DEF ServeStatic
    <2>3. CASE ServeSend(f) \/ ServeVerify(f) \/ ServeRefused(f) \/ Lost(f)
        BY <2>3 DEF ServeSend, ServeVerify, ServeRefused, Lost
    <2> QED BY <2>1, <2>2, <2>3 DEF Serve
<1> QED BY <1>1, <1>2, <1>3

\* Every step keeps the tabs orderly.
LEMMA NextTabsInv == TInv /\ TabsInv /\ [Next]_vars => TabsInv'
<1> SUFFICES ASSUME TInv, TabsInv, [Next]_vars
             PROVE  TabsInv'
    OBVIOUS
<1>1. ASSUME UNCHANGED <<tab, fetches>>
      PROVE  TabsInv'
    BY <1>1 DEF TabsInv, Of
<1>2. CASE Expires \/ UNCHANGED vars
    BY <1>1, <1>2 DEF Expires, browser, vars
<1> QED BY <1>2, UserActsTabs, LinkEffectTabs, AnsweredTabs, ServeTabs DEF Next

(***************************************************************************)
(* No tab shows both the popup of a link and an error of its verification, *)
(* however often the effect of the page runs and whatever gets lost.       *)
(***************************************************************************)
THEOREM NoErrorBesidePopup == Spec => []NoSpuriousError
<1>1. ASSUME TInv, TabsInv
      PROVE  NoSpuriousError
    <2> SUFFICES ASSUME NEW t \in Tabs, tab[t].hash # 0, tab[t].issued > 0,
                        tab[t].alert = "verify"
                 PROVE  FALSE
        BY DEF NoSpuriousError
    <2>1. tab[t].issued = 0
        BY <1>1 DEF TabsInv, Orderly, LinkTab
    <2> QED BY <2>1
<1> QED BY <1>1, InitTInv, NextTInv, InitTabsInv, NextTabsInv, PTL DEF Spec
-----------------------------------------------------------------------------
(* Which fetches go unanswered.                                            *)

(***************************************************************************)
(* EveryFetchAnswered but for its exception: on a network that loses       *)
(* nothing, what is lost is the popup's code or a clean-up, and its path   *)
(* could not be read.                                                      *)
(***************************************************************************)
LostByStat ==
    ~MayLose =>
        \A f \in fetches : f.phase = "lost" => f.api \in {"popup", "done"} /\ "error" \in Stats

\* What a fetch becomes is lost only where that is said.
LEMMA BecomesLost ==
    ASSUME LostByStat, NEW f \in fetches, NEW g, Becomes(f, g), g.phase # "lost"
    PROVE  LostByStat'
BY DEF LostByStat, Becomes

\* The pages lose nothing: they begin fetches, and end those answered.
LEMMA BrowserLosesNothing ==
    ASSUME TypeOK, LostByStat,
           \/ \E t \in Tabs : UserActs(t) \/ LinkEffect(t)
           \/ \E f \in fetches : Answered(f)
    PROVE  LostByStat'
<1>1. ASSUME NEW t, NEW api, NEW e, NEW n, Request(t, api, e, n)
      PROVE  LostByStat'
    BY <1>1 DEF Request, LostByStat
<1>2. ASSUME fetches' \subseteq fetches
      PROVE  LostByStat'
    BY <1>2 DEF LostByStat
<1>3. ASSUME NEW t \in Tabs, UserActs(t)
      PROVE  LostByStat'
    BY <1>1, <1>2, <1>3
       DEF UserActs, Open, OpenLink, TypeCode, SubmitAddress, Back, Confirm, SubmitCode, PopupEnds
<1>4. ASSUME NEW t \in Tabs, LinkEffect(t)
      PROVE  LostByStat'
    BY <1>1, <1>4 DEF LinkEffect
<1>5. ASSUME NEW f \in fetches, Answered(f)
      PROVE  LostByStat'
    <2>1. ASSUME NEW api, Becomes(f, [f EXCEPT !.api = api, !.phase = "sent"])
          PROVE  LostByStat'
        <3> DEFINE g == [f EXCEPT !.api = api, !.phase = "sent"]
        <3>1. f \in Fetch
            BY DEF TypeOK
        <3>2. g.phase = "sent" /\ Becomes(f, g)
            BY <2>1, <3>1 DEF Fetch
        <3> HIDE DEF g
        <3> QED BY <3>2, BecomesLost
    <2>3. CASE IssuanceStarted(f) \/ PopupLoaded(f) \/ PopupLost(f)
        BY <2>1, <2>3 DEF IssuanceStarted, PopupLoaded, PopupLost, CleanUp
    <2>2. CASE SendAnswered(f) \/ DoneAnswered(f) \/ VerifyRefused(f) \/ VerifyLost(f)
        BY <1>2, <2>2 DEF SendAnswered, DoneAnswered, VerifyRefused, VerifyLost
    <2> QED BY <1>5, <2>2, <2>3 DEF Answered
<1> QED BY <1>3, <1>4, <1>5

\* The backend loses a fetch only where os.Stat fails on its path.
LEMMA BackendLosesByStat ==
    ASSUME TypeOK, LostByStat, NEW f \in fetches, Serve(f)
    PROVE  LostByStat'
<1>0. f \in Fetch
    BY DEF TypeOK
<1>1. ASSUME NEW p \in {"ok", "error"}, Becomes(f, [f EXCEPT !.phase = p])
      PROVE  LostByStat'
    <2>1. [f EXCEPT !.phase = p].phase = p
        BY <1>0 DEF Fetch
    <2> QED BY <1>1, <2>1, BecomesLost
<1>2. ASSUME ServeVerifyLink(f)
      PROVE  LostByStat'
    <2> DEFINE g == [f EXCEPT !.phase = "ok", !.email = linkTokenMap[f.ref]]
    <2>1. g.phase = "ok"
        BY <1>0 DEF Fetch
    <2>2. Becomes(f, g) \/ Becomes(f, [f EXCEPT !.phase = "error"])
        BY <1>2 DEF ServeVerifyLink
    <2> HIDE DEF g
    <2> QED BY <1>1, <2>1, <2>2, BecomesLost
<1>3. ASSUME ServeStatic(f)
      PROVE  LostByStat'
    <2>1. f.api \in {"popup", "done"}
        BY <1>3, Unrouted DEF ServeStatic
    <2>2. PICK stat \in Stats : Becomes(f, [f EXCEPT !.phase = StaticAnswer(f.api, stat)])
        BY <1>3 DEF ServeStatic
    <2>3. CASE stat = "error"
        <3> DEFINE g == [f EXCEPT !.phase = StaticAnswer(f.api, stat)]
        <3>1. g.api = f.api
            BY <1>0 DEF Fetch
        <3>2. Becomes(f, g) /\ "error" \in Stats
            BY <2>2, <2>3
        <3> HIDE DEF g
        <3> QED BY <2>1, <3>1, <3>2 DEF LostByStat, Becomes
    <2>4. CASE stat # "error"
        <3>1. StaticAnswer(f.api, stat) \in {"ok", "error"}
            BY <2>4, StaticTyped
        <3> QED BY <1>1, <2>2, <3>1
    <2> QED BY <2>3, <2>4
<1>4. ASSUME ServeSend(f) \/ ServeVerify(f) \/ ServeRefused(f)
      PROVE  LostByStat'
    BY <1>1, <1>4 DEF ServeSend, ServeVerify, ServeRefused
<1> QED BY <1>2, <1>3, <1>4 DEF Serve

\* Every step leaves the exception the only one.
LEMMA NextLostByStat == TypeOK /\ LostByStat /\ [Next]_vars => LostByStat'
<1> SUFFICES ASSUME TypeOK, LostByStat, [Next]_vars
             PROVE  LostByStat'
    OBVIOUS
<1>1. CASE Expires \/ UNCHANGED vars
    BY <1>1 DEF Expires, vars, browser, LostByStat
<1>2. CASE \E f \in fetches : Lost(f)
    BY <1>2 DEF Lost, LostByStat
<1> QED BY <1>1, <1>2, BrowserLosesNothing, BackendLosesByStat DEF Next

(***************************************************************************)
(* The panic on a path that cannot be read (handlers.go:37-47) is the only *)
(* way in which the backend leaves a fetch unanswered, and the popup's     *)
(* code and the clean-up the only fetches it happens to: one is a file,    *)
(* and no route takes the POST of the other.                               *)
(***************************************************************************)
THEOREM OnlyStatLoses == Spec => []LostByStat
<1>1. Init => LostByStat
    BY DEF Init, LostByStat
<1> QED BY <1>1, TypeCorrect, NextLostByStat, PTL DEF Spec

(***************************************************************************)
(* Where every path can be read or is absent, every fetch gets an answer,  *)
(* as the comment at handlers.go:45-46 wants it.                           *)
(***************************************************************************)
THEOREM AnsweredWhenReadable ==
    ASSUME "error" \notin Stats
    PROVE  Spec => []EveryFetchAnswered
<1>1. LostByStat => EveryFetchAnswered
    BY DEF LostByStat, EveryFetchAnswered
<1> QED BY <1>1, OnlyStatLoses, PTL
=============================================================================
