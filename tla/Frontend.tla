----------------------------- MODULE Frontend -----------------------------
(***************************************************************************)
(* The pages of frontend/src in the tabs of one user's browser, and the    *)
(* routes of backend/internal/http/api.go that their fetches reach.  A     *)
(* fetch is sent, served and answered in steps of its own; the user goes   *)
(* on clicking meanwhile, and any fetch may be lost.                       *)
(*                                                                         *)
(* A handler is one step here: how the steps of several interleave is the  *)
(* business of EmailIssuer.                                                *)
(***************************************************************************)
EXTENDS TokenStorage, FiniteSets

CONSTANTS
    Tabs,           \* tabs of the browser
    MayLose,        \* whether fetches get lost
    Stats,          \* what os.Stat may say of a path below the static files
    MaxFetches      \* bound of the model: fetches that clicks lead to

ASSUME FrontendAssumption ==
    /\ MayLose \in BOOLEAN /\ MaxFetches \in Nat
    /\ Stats \subseteq {"absent", "directory", "file", "error"}

VARIABLES
    sends,          \* sends served so far; they number the codes and links
    mailed,         \* sends whose mail went out
    tab,            \* tab[t]: what is open in tab t
    fetches,        \* the fetches under way
    fetched,        \* fetches begun so far
    followed        \* history: sends whose link was answered with a JWT

browser == <<tab, fetches, fetched>>
history == <<mailed, followed>>
vars == <<storage, sends, browser, history>>

Pages == {"closed", "index", "validate", "enroll", "error", "done"}

\* email is the context of the app, hash the link token of the location,
\* alert what an error banner is about.  The enroll page that is open was
\* mounted when since fetches had been begun; popups are named by the fetch
\* whose JWT they hand over.  missed is history: the page that is open was to
\* show a popup whose code did not come.
Tab == [page : Pages, email : Emails \cup {NoEmail}, typed : 0 .. MaxSends,
        hash : 0 .. MaxSends, started : BOOLEAN,
        alert : {"none", "verify", "popup"}, since : Nat,
        popups : SUBSET Nat, issued : Nat, missed : BOOLEAN]

\* ref is the code or link token sent along; phase how far the fetch has come.
\* "popup" is the import of the popup's code, the others are calls of /api.
Fetch == [id : Nat, tab : Tabs, api : {"send", "verify", "verify-link", "popup", "done"},
          email : Emails \cup {NoEmail}, ref : 0 .. MaxSends,
          phase : {"sent", "ok", "error", "lost"}]

TypeOK ==
    /\ StorageTypeOK
    /\ sends \in 0 .. MaxSends
    /\ mailed \subseteq 1 .. sends
    /\ tab \in [Tabs -> Tab]
    /\ fetches \subseteq Fetch
    /\ \A f \in fetches : f.api # "verify-link" => f.email \in Emails
    /\ fetched \in Nat
    /\ followed \subseteq 1 .. sends

Blank == [page |-> "closed", email |-> NoEmail, typed |-> 0, hash |-> 0,
          started |-> FALSE, alert |-> "none",
          since |-> 0, popups |-> {}, issued |-> 0, missed |-> FALSE]

Init ==
    /\ StorageInit
    /\ sends = 0
    /\ mailed = {} /\ followed = {}
    /\ tab = [t \in Tabs |-> Blank]
    /\ fetches = {} /\ fetched = 0

On(t, page) == tab[t].page = page

\* A page that is left loses its state; the context and the popups stay.
Mounted(t, page) ==
    [Blank EXCEPT !.page = page, !.email = tab[t].email,
                  !.since = IF page = "enroll" THEN fetched ELSE 0,
                  !.popups = tab[t].popups, !.issued = tab[t].issued]

Show(t, page) == tab' = [tab EXCEPT ![t] = Mounted(t, page)]

\* An error banner appears, if the page that began fetch n is still mounted.
Alerted(t, n, about) ==
    [tab[t] EXCEPT !.alert = IF On(t, "enroll") /\ n >= tab[t].since THEN about ELSE @]

Request(t, api, e, n) ==
    /\ fetches' = fetches \cup {[id |-> fetched, tab |-> t, api |-> api,
                                 email |-> e, ref |-> n, phase |-> "sent"]}
    /\ fetched' = fetched + 1

Becomes(f, g) == fetches' = (fetches \ {f}) \cup {g}

-----------------------------------------------------------------------------
(* What the user does.                                                     *)

\* The user enters a URL of the site, any page of it.
Open(t, page) ==
    /\ On(t, "closed")
    /\ Show(t, page)
    /\ UNCHANGED <<fetches, fetched>>

\* The user opens the link of a mail.
OpenLink(t, n) ==
    /\ On(t, "closed")
    /\ n \in mailed
    /\ tab' = [tab EXCEPT ![t] = [Mounted(t, "enroll") EXCEPT !.hash = n]]
    /\ UNCHANGED <<fetches, fetched>>

\* Index: an address is typed and submitted; one that is not valid stays there.
SubmitAddress(t, e) ==
    /\ On(t, "index")
    /\ tab' = [tab EXCEPT ![t] = [Mounted(t, "validate") EXCEPT !.email = e]]
    /\ UNCHANGED <<fetches, fetched>>

Back(t) ==
    /\ \/ On(t, "validate") /\ Show(t, "index")
       \/ On(t, "enroll") /\ tab[t].hash = 0 /\ Show(t, "validate")
       \/ On(t, "error") /\ Show(t, "index")
       \/ On(t, "done") /\ Show(t, "index")
    /\ UNCHANGED <<fetches, fetched>>

\* Validate: the button stays enabled while the mail is being sent.
Confirm(t) ==
    /\ On(t, "validate")
    /\ IF tab[t].email = NoEmail
       THEN Show(t, "error") /\ UNCHANGED <<fetches, fetched>>
       ELSE /\ fetched < MaxFetches
            /\ Request(t, "send", tab[t].email, 0)
            /\ UNCHANGED tab

\* Enroll: the code of a mail is typed in.
TypeCode(t, n) ==
    /\ On(t, "enroll") /\ tab[t].hash = 0
    /\ n \in mailed
    /\ tab' = [tab EXCEPT ![t].typed = n]
    /\ UNCHANGED <<fetches, fetched>>

\* Mutation of CanVerify: the address is taken to be there.
CanVerifyAnyway(t) == tab[t].typed # 0

CanVerify(t) == tab[t].typed # 0 /\ tab[t].email # NoEmail

\* The button is there on the page of a link as well, where nothing is typed.
SubmitCode(t) ==
    /\ On(t, "enroll")
    /\ IF CanVerify(t)
       THEN /\ fetched < MaxFetches
            /\ Request(t, "verify", tab[t].email, tab[t].typed)
            /\ tab' = [tab EXCEPT ![t].alert = "none"]
       ELSE Show(t, "error") /\ UNCHANGED <<fetches, fetched>>

\* The Yivi popup succeeds, or is cancelled or fails.
PopupEnds(t) ==
    /\ \E n \in tab[t].popups : \E after \in {Mounted(t, "done"), Alerted(t, n, "popup")} :
           tab' = [tab EXCEPT ![t] = [after EXCEPT !.popups = @ \ {n}]]
    /\ UNCHANGED <<fetches, fetched>>

UserActs(t) ==
    \/ \E page \in Pages \ {"closed"} : Open(t, page)
    \/ \E n \in Sends : OpenLink(t, n) \/ TypeCode(t, n)
    \/ \E e \in Emails : SubmitAddress(t, e)
    \/ Back(t) \/ Confirm(t) \/ SubmitCode(t) \/ PopupEnds(t)

-----------------------------------------------------------------------------
(* What the pages do by themselves.                                        *)

\* Mutation of FirstRun: the effect has no memory of having run.
FirstRunForgotten(t) == TRUE

FirstRun(t) == ~tab[t].started

\* The effect of a link runs when the page is mounted and again when the
\* language, and with it t, changes.  It has no bound but its own.
LinkEffect(t) ==
    /\ On(t, "enroll") /\ tab[t].hash # 0
    /\ FirstRun(t)
    /\ fetched < MaxFetches + Cardinality(Tabs)
    /\ Request(t, "verify-link", NoEmail, tab[t].hash)
    /\ tab' = [tab EXCEPT ![t].started = TRUE]

\* The answer of a send opens the enroll page, whatever page is open by then;
\* an error only shows a banner, and a lost fetch is an exception nobody catches.
SendAnswered(f) ==
    /\ f.api = "send"
    /\ IF f.phase = "ok"
       THEN tab' = [tab EXCEPT ![f.tab] =
                       IF On(f.tab, "enroll")
                       THEN [@ EXCEPT !.hash = 0] ELSE Mounted(f.tab, "enroll")]
       ELSE UNCHANGED tab
    /\ fetches' = fetches \ {f}

\* startIssuance, first half: the address is learnt, and the popup's code is
\* imported, which nobody awaits.
IssuanceStarted(f) ==
    /\ f.api \in {"verify", "verify-link"}
    /\ f.phase = "ok"
    /\ tab' = [tab EXCEPT ![f.tab].email = IF f.api = "verify" THEN @ ELSE f.email]
    /\ Becomes(f, [f EXCEPT !.api = "popup", !.phase = "sent"])

\* The "finally" of the import: it waits neither for the popup's result nor to
\* know that there is a popup.
CleanUp(f) == Becomes(f, [f EXCEPT !.api = "done", !.phase = "sent"])

\* The code comes, and the popup opens.
PopupLoaded(f) ==
    /\ f.api = "popup" /\ f.phase = "ok"
    /\ tab' = [tab EXCEPT ![f.tab].popups = @ \cup {f.id}, ![f.tab].issued = @ + 1]
    /\ CleanUp(f)

\* It does not come, or is no module: nobody catches the rejected import, and
\* the page goes on showing what it showed.
PopupLost(f) ==
    /\ f.api = "popup" /\ f.phase \in {"error", "lost"}
    /\ tab' = [tab EXCEPT ![f.tab].missed = TRUE]
    /\ CleanUp(f)

VerifyRefused(f) ==
    /\ f.api \in {"verify", "verify-link"}
    /\ f.phase = "error"
    /\ tab' = [tab EXCEPT ![f.tab] = Alerted(f.tab, f.id, "verify")]
    /\ fetches' = fetches \ {f}

\* Mutation of Caught: the exception of the fetch is not caught.
CaughtNowhere(t) == UNCHANGED tab

Caught(t) == Show(t, "error")

VerifyLost(f) ==
    /\ f.api \in {"verify", "verify-link"}
    /\ f.phase = "lost"
    /\ Caught(f.tab)
    /\ fetches' = fetches \ {f}

DoneAnswered(f) ==
    /\ f.api = "done"
    /\ fetches' = fetches \ {f}
    /\ UNCHANGED tab

Answered(f) ==
    /\ f.phase # "sent"
    /\ \/ SendAnswered(f) \/ DoneAnswered(f)
       \/ IssuanceStarted(f) \/ VerifyRefused(f) \/ VerifyLost(f)
       \/ PopupLoaded(f) \/ PopupLost(f)
    /\ UNCHANGED fetched

-----------------------------------------------------------------------------
(* What the backend does.                                                  *)

Routes == {<<"POST", "send">>, <<"POST", "verify">>, <<"POST", "verify-link">>,
           <<"GET", "done">>}

\* Every call of the pages is a POST.  What no route takes, the popup's code
\* among it, goes to the handler of the static files.
Reaches(f, api) == f.api = api /\ <<"POST", api>> \in Routes

\* The send goes out or, its code and link stored, is refused or fails.
ServeSend(f) ==
    /\ Reaches(f, "send")
    /\ sends < MaxSends
    /\ sends' = sends + 1
    /\ StoreToken(f.email, sends') /\ StoreLinkToken(sends', f.email)
    /\ \/ mailed' = mailed \cup {sends'} /\ Becomes(f, [f EXCEPT !.phase = "ok"])
       \/ UNCHANGED mailed /\ Becomes(f, [f EXCEPT !.phase = "error"])
    /\ UNCHANGED followed

ServeVerify(f) ==
    /\ Reaches(f, "verify")
    /\ tokenMap[f.email] = f.ref
    /\ RemoveToken(f.email)
    /\ Becomes(f, [f EXCEPT !.phase = "ok"])
    /\ UNCHANGED <<linkTokenMap, sends, history>>

\* The link is used up even if no JWT comes of it.
ServeVerifyLink(f) ==
    LET e == linkTokenMap[f.ref]
    IN  /\ Reaches(f, "verify-link")
        /\ e # NoEmail
        /\ RemoveLinkToken(f.ref)
        /\ \/ /\ followed' = followed \cup {f.ref}
              /\ Becomes(f, [f EXCEPT !.phase = "ok", !.email = e])
           \/ UNCHANGED followed /\ Becomes(f, [f EXCEPT !.phase = "error"])
        /\ UNCHANGED <<tokenMap, sends, mailed>>

\* Whatever the handler, a check fails before anything is changed.
ServeRefused(f) ==
    /\ Reaches(f, f.api)
    /\ Becomes(f, [f EXCEPT !.phase = "error"])
    /\ UNCHANGED <<storage, sends, history>>

\* index.html for what is absent or a directory, or else the file; but HTML is
\* no module to import.  With an error other than "does not exist" there is no
\* FileInfo: asking it IsDir panics before the error is looked at, and net/http
\* recovers by closing the connection.
StaticAnswer(api, stat) ==
    CASE stat = "error"                                    -> "lost"
      [] stat \in {"absent", "directory"} /\ api = "popup" -> "error"
      [] stat \in {"absent", "directory"} /\ api # "popup" -> "ok"
      [] stat = "file"                                     -> "ok"

ServeStatic(f) ==
    /\ ~Reaches(f, f.api)
    /\ \E stat \in Stats : Becomes(f, [f EXCEPT !.phase = StaticAnswer(f.api, stat)])
    /\ UNCHANGED <<storage, sends, history>>

Serve(f) ==
    /\ f.phase = "sent"
    /\ \/ ServeSend(f) \/ ServeVerify(f) \/ ServeVerifyLink(f)
       \/ ServeRefused(f) \/ ServeStatic(f)
    /\ UNCHANGED <<tab, fetched>>

\* The request or its answer is lost.
Lost(f) ==
    /\ MayLose
    /\ f.phase # "lost"
    /\ Becomes(f, [f EXCEPT !.phase = "lost"])
    /\ UNCHANGED <<tab, fetched>>

Expires ==
    /\ (\E e \in Emails : CodeExpires(e)) \/ (\E n \in Sends : LinkExpires(n))
    /\ UNCHANGED <<sends, browser, history>>

Next ==
    \/ /\ \/ \E t \in Tabs : UserActs(t) \/ LinkEffect(t)
          \/ \E f \in fetches : Answered(f) \/ Lost(f)
       /\ UNCHANGED <<storage, sends, history>>
    \/ \E f \in fetches : Serve(f)
    \/ Expires

Spec == Init /\ [][Next]_vars

\* The browser runs its effects and callbacks, and a fetch comes to an end.
Fairness ==
    /\ \A t \in Tabs : WF_vars(LinkEffect(t) /\ UNCHANGED <<storage, sends, history>>)
    /\ WF_vars(\E f \in fetches : Serve(f))
    /\ WF_vars((\E f \in fetches : Answered(f)) /\ UNCHANGED <<storage, sends, history>>)

FairSpec == Spec /\ Fairness

-----------------------------------------------------------------------------

(***************************************************************************)
(* A link that was verified in a tab leaves no error of its verification   *)
(* there, although the effect runs again and the link is used up by then   *)
(* ("a second run [...] would [...] show a spurious error banner next to   *)
(* the launched Yivi popup", pages/Enroll.tsx:25-28).                      *)
(***************************************************************************)
NoSpuriousError ==
    \A t \in Tabs : tab[t].hash # 0 /\ tab[t].issued > 0 => tab[t].alert # "verify"

(***************************************************************************)
(* Who opens a link gets to the popup, to a message or to the error page,  *)
(* even if the fetch is lost (pages/Enroll.tsx:125-150, 164-189), with one *)
(* exception: where the code of the popup does not come, the link is used  *)
(* up and the page shows nothing (lines 41-79 have no catch).              *)
(***************************************************************************)
LinkSettles ==
    \A t \in Tabs :
        tab[t].hash # 0 ~>
            \/ tab[t].issued > 0 \/ tab[t].alert # "none" \/ ~On(t, "enroll")
            \/ tab[t].missed

(***************************************************************************)
(* "if we got an error (that wasn't that the file doesn't exist) stating   *)
(* the file, return a 500 internal server error and stop"                  *)
(* (backend/internal/http/handlers.go:45-46): on a network that loses      *)
(* nothing every fetch gets an answer, be it an error.                     *)
(***************************************************************************)
EveryFetchAnswered == ~MayLose => \A f \in fetches : f.phase # "lost"

(***************************************************************************)
(* "so the frontend can finish issuance and clean up the code"             *)
(* (backend/internal/http/handlers.go:215-216): when every fetch has come  *)
(* to its end, a mail whose link was verified has no code in the storage   *)
(* any more.                                                               *)
(***************************************************************************)
CodeCleanedUp ==
    fetches = {} /\ (\E t \in Tabs : tab[t].issued > 0) =>
        \A e \in Emails : tokenMap[e] \notin followed
=============================================================================
