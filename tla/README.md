# A TLA+ model of the Yivi e-mail issuer

The e-mail issuer proves that somebody owns an e-mail address. It mails a
verification code and a verification link to the address (`POST /api/send`),
and whoever presents the code (`/api/verify`) or follows the link
(`/api/verify-link`) gets a JWT with which the Yivi server issues a credential
for that address. What makes it correct is mostly about *order*: requests run
in goroutines of their own and share a token storage and two rate limiters,
either in memory or in Redis, and each call to them is a step at which other
requests, expiries, failures and crashes come in.

Paths below are relative to `src/backend/internal` unless they start with
`frontend/`.

## 1. Inventory

| Component | State | Operations | Talks to |
|---|---|---|---|
| Rate limiter contract (`core/rate_limiter.go:14-29`) | per key: requests in the current window, when it ends | `Allow`, `Reset` | implemented twice |
| In-memory limiter (`:136-234`) | a map of entries behind a mutex; a janitor goroutine with a ticker | `Allow`, `Reset`, `Cleanup`, `StartJanitor` | the clock |
| Redis limiter (`:76-132`) | a counter with an expiry per key, in Redis | `Allow` (INCR, EXPIRE, TTL), `Reset` (DEL) | Redis |
| Total limiter (`:35-72`, `http/server.go:13-54`) | an e-mail limiter and an IP limiter | `Allow`, `ResetEmail` | both limiters |
| Token storage (`core/token_storage.go`) | code by address, address by link token; 24 h expiry in Redis, none in memory | store, retrieve, remove, twice | Redis or two maps |
| Token generator (`core/token_gen.go`) | none between calls; a token half drawn during one | `GenerateToken`, `GenerateLinkToken` | `crypto/rand` |
| HTTP handlers (`http/handlers.go`) | none between requests; local variables during one | send, verify, verify-link, done, reset-rate-limit, health, static files | storage, limiter, validator, JWT creator, mailer |
| Client address (`http/handlers.go:374-433`, `config/config.go:164-193`) | the trusted networks | `clientIP` | - |
| Router, JSON (`http/api.go`) | the routes | dispatch | handlers |
| E-mail validator (`validators/email_validator.go`) | none between calls | parse, normalise, DNS check | DNS |
| Mailer and templates (`mail/`) | none | render, send | SMTP server |
| JWT creator (`issue/issuance.go`) | none (reads the key file at every call) | `CreateJwt` | file system |
| Redis clients (`storage/redis.go`) | a connection pool, default retries | connect | Redis |
| Configuration, start-up (`config/config.go`, `http/server.go`, `cmd/main.go`) | the configuration | load, validate, wire | file system |
| Frontend (`frontend/src`) | the address, the code typed, messages, the page | index, validate, enroll, done | the router |

Hard behaviours, and what must hold:

* **Limiters.** A key is refused exactly from the (Limit+1)-th request of a
  window, on both backends, whether or not the janitor has run, and however
  INCR, EXPIRE, Reset and the clock interleave. A refusal ends with the window.
  Stale entries go.
* **Storage and handlers.** A code or a link gives one JWT, for the address it
  was made for, and is dead afterwards; overlapping verifications, a new send
  in between, late removals, failing commands and a restart do not change that.
  The code that is stored is one that its owner is mailed.
* **Server.** A process that listens has checked its key, its backends and its
  proxies, and asks the limiter about the client a request really comes from.
  DNS that fails or changes never costs the owner of a working address the mail.
  A code has two digits or more, in an order that nothing makes likelier.
* **Frontend and router.** What the pages call is what the router serves, the
  clean-up of `/api/done` happens, and a link is followed once.

`PROJECT.json` lists every component with what is modelled of it, and every
hazard at its line.

## 2. Modules

| Module | Models | Uses |
|---|---|---|
| `RateLimiter` | what `Allow` and `Reset` promise: the abstract specification of both limiters | - |
| `InMemoryRateLimiter` | the in-memory limiter with its janitor | `INSTANCE RateLimiter` |
| `SlidingWindow` | the in-memory limiter with a record of what was admitted when | extends `InMemoryRateLimiter` |
| `RedisRateLimiter` | the Redis limiter, one action per command | `INSTANCE RateLimiter` |
| `TotalRateLimiter` | the limiter of a send: one limiter asked after the other, the admin's reset | `INSTANCE RateLimiter` twice |
| `TokenStorage` | both token stores, as operators on two maps | - |
| `OneTimeSecret` | what the handlers promise of a code or a link: the abstract specification of both | - |
| `EmailIssuer` | the handlers send, verify, verify-link and done, one action per call | extends `TokenStorage`, `INSTANCE OneTimeSecret` twice |
| `Frontend` | the pages in the tabs of a browser, their fetches, and the router | extends `TokenStorage` |
| `ClientAddress` | whose request it is, through proxies and with any headers | - |
| `Startup` | from `main` to `ListenAndServe`, then the requests of `ClientAddress` | extends `ClientAddress` |
| `EmailValidator` | the validation of an address while its zone changes; the check of the first page | - |
| `TokenGenerator` | a code, draw by draw | - |
| `*_proofs` | theorems and proofs about the module they extend | TLAPS |
| `MC*` | the instances for TLC | |

**RateLimiter.** `used[k]` counts the requests recorded in the window of key
`k`, `age[k]` is how long it has been open, and `refused` holds the keys whose
latest request was over the limit. `Request(k)` is `Allow`, `Reset(k)` is
`Reset`, `Elapse(closing)` is time passing. A window may close late, never
early: the contract is what Redis and the map have in common.

**InMemoryRateLimiter.** An entry holds `count` and `left`, what is left until
`Expiry`. `Allow`, `Reset` and `Cleanup` hold the mutex from start to end and are
one action each. `ticks` is the channel of the janitor's ticker, which buffers
one tick; the janitor goroutine takes it some time later. The contract's
variables are computed from `memory` (`Contract`). `SlidingWindow` runs the same
actions and keeps, for some keys, how many requests were admitted and how many
resets made in the last unit of time, the last two, ... the last `Window`.

**RedisRateLimiter.** `pc[p]` is the command goroutine `p` is about to issue.
`Incr`, `Expire` and `TimeToLive` are the commands of `Allow`; `IncrFails` and
`ExpireFails` are commands that fail, `IncrAnswerLost` one that Redis ran without
the client learning it (go-redis retries by default: `storage/redis.go:13-18`
leaves the option alone), `Crash` the end of the backend with all its
requests. `age` and `refused` are history variables.

**TotalRateLimiter.** `call[p]` is the call of `TotalRateLimiter.Allow` that
goroutine `p` is in. `Ask` begins it, `AllowEmail` and `AllowIP` are the answers
of the two limiters (each an action of the contract), `Fails` is a call to one
that fails, counted or not, and is tried again or ends the request.
`ResetEmail` is the admin's reset, `Elapse` time passing. `mailsTo` and
`mailsFrom` are history: the sends that were allowed, charged to the window in
which the limiter counted them.

**Frontend.** `tab[t]` is the page that is open in a tab with the state of its
React components; `fetches` holds the fetches under way. The user's actions
(`Open`, `OpenLink`, `SubmitAddress`, `Confirm`, `TypeCode`, `SubmitCode`,
`Back`, `PopupEnds`), the effect of a link (`LinkEffect`) and the callbacks of
the fetches (`SendAnswered`, `IssuanceStarted`, `PopupLoaded`, `PopupLost`,
`VerifyRefused`, `VerifyLost`, `DoneAnswered`) follow the pages; `Serve` is the
backend, one step per handler, and `Routes` says which handler a fetch reaches. A
callback of a page that is no longer mounted shows nothing, but does navigate.
The popup is a part of the site that is imported only when a verification has
succeeded, by a fetch of its own, "popup", that nobody awaits and whose failure
nobody catches; the clean-up follows whether or not it came. `ServeStatic` is the
handler of the static files: the popup's code comes from it, and a fetch goes
there that no route takes. `Stats` says what `os.Stat` may find.

**TokenStorage, EmailIssuer.** A code and a link token are named by the number of
the send that drew them. `req[p]` is the request goroutine `p` serves: the call
it is about to make, the address, and the send. The actions follow the
handlers call by call:

| Handler | Actions |
|---|---|
| `handleSendEmail` | `SendEmail` (validated, code drawn), `StoreCode`, `StoreLink`, `LimiterAllows` or `SendRefused` (429, no link token, or a template that does not render), `Mail` or `MailFails` |
| `handleVerifyEmail` | `VerifyEmail` (retrieved and compared), `Redeem` (removed, answered), `RedeemFails`, `SignFails` |
| `handleVerifyLink` | `VerifyLink` (address looked up), `BurnLink`, `BurnLinkFails`, `SignLink`, `SignFails` |
| `handleVerifyDone` | `VerifyDone` |
| - | `Expiry` (Redis drops an entry), `Crash` (the backend restarts) |

A request that an input check refuses changes nothing and is left out. A `...Fails`
action is a call that returns an error; on Redis it may have been carried out
all the same. `codeJwts`, `linkJwts`, `mailed`, `owner`, `stores` and
`redemptions` are history variables: what was answered and mailed, for whom.

**OneTimeSecret.** A secret is stored once, lives, and is gone; requests that
present it while it lives are let in, and each is answered a JWT or not, the
first of which ends the secret's life. That is less than the comments of the
handlers want (one JWT), and what they keep. A secret is the number of a send;
`EmailIssuer` maps its own state twice:

| `OneTimeSecret` | `Codes` | `Links` |
|---|---|---|
| `life` "unsent" | the send has not reached `StoreCode` | nor `StoreLink` |
| `life` "live" | the code is in `tokenMap` | the link is in `linkTokenMap` |
| `holders` | requests at `Redeem` | requests at `BurnLink` or `SignLink` |
| `answers` | the `codeJwts` of its owner | the `linkJwts` of its owner |

Both JWT and removal of a code are one call of `Redeem`; a link is removed one
call or more before its JWT, with other requests in between.

**ClientAddress, Startup.** `stage` is how far the process has come, `config` the
file it reads. `LoadFromFile`, `BuildTotalLimiter`, `BuildTokenStorage`,
`NewAPI` and `ListenAndServe` follow `main` and `NewServer`, and each but
`NewAPI` may end the process (`log.Fatal`). `KeyReplaced` and `RedisChanges` are
what happens around it meanwhile. When it listens, requests come one at a time:
a client outside the trusted networks sends one with any headers
(`SendRequest`), trusted proxies pass it on (`Forward`), the send handler asks
for its address (`Identify`, `ClientIP`). The first of them sets
CF-Connecting-IP, as Cloudflare does, removes it, or passes on what the client
wrote, as an ingress does that does not know the header; `FirstProxies` says
which of the three there may be.

**EmailValidator.** A label of a domain is its length, the kinds of its
characters and whether it ends in a hyphen; the text around the domain is one of
six `Forms`, three of which parse: a bare address, one in angle
brackets, and one with white space or another @ around it, such as a name. `Parse` is all that happens before the first look-up, `LookupMX`
and `LookupIP` are the look-ups, either of which may fail, and `ZoneChanges` may
come before each. `steady`, `seen` and `failed` are history.
`IsEmailValid` is the regular expression of `frontend/src/pages/Index.tsx`.

**TokenGenerator.** `token` holds the class of each character, `order` the place
it was drawn at, and `draws` the numbers the shuffle drew. `DrawCount`,
`DrawDigit`, `DrawAny` and `Shuffle` are the draws, `DrawFails` one that fails.

## 3. What the runs check

Every property says in its comment which lines it is about.

| Run | Instance | Shows |
|---|---|---|
| `inmemory_limiter` | 2 keys, one of them watched, Limit 2, Window 3, 1 reset per unit of time | implements the contract; a block ends; stale entries are evicted; `SlidingBound`: at most 2 * Limit admitted in any stretch of one window, and Limit more for each reset |
| `redis_limiter` | 2 goroutines, 2 keys, Limit 1, Window 2, 1 fault | implements the contract whatever fails; without faults every counter gets its expiry and a block ends (`LockOutNeedsFault`) |
| `issuer_redis` | 2 goroutines, 2 addresses, 2 sends, 1 setback of any kind | `JwtNamesOwner`, `RedeemedCodeStaysDead`, `AnsweredLinkIsDead`, `LiveCodeIsMailed`; `CodesAreOneTime`: the codes implement `OneTimeSecret`, so only requests let in before the first JWT of a code may get another |
| `issuer_inmemory` | the same in memory, 3 sends | `RedeemedCodeStaysDead`, `CodeJwtsBounded`; `LinksAreOneTime`: the links implement `OneTimeSecret` |
| `total_limiter` | 2 goroutines, 1 address, 2 IPs, limits 2 and 1, Window 2, 1 fault | `MailsPerAddress`, `MailsPerIP`: two limiters asked in two steps never let more through than either limit |
| `frontend` | 2 tabs, 1 address, 1 send, 2 fetches and the links', any of them lost | `NoSpuriousError`: the link effect does not disturb itself; `LinkSettles`: who opens a link is not left with a page that says nothing, unless the popup's code was lost; the files of the site are there, absent or cannot be read |
| `server_parts` | 2 proxies and 2 other addresses, 1 text that is no address, 2 forged entries, 3 hops, 19 configurations, 1 change; 9 labels, domains of up to 3 of them; codes of 5 characters with up to 4 sure digits | `ChainNamesClient`: unless CF-Connecting-IP decides, the limiter is asked about the real client; `ListensAsConfigured`; `VerdictFollowsZone`; `PageRefusesOnlySpaced`: what the first page holds back of what the backend accepts; `TwoDigits`, `ShuffleIsFair` |

Five runs end in a counterexample, because the program does something else than
a comment or a text of the repository says:

| Run | The code |
|---|---|
| `redis_limiter_lockout` | one failed EXPIRE (or a lost answer, or a crash) leaves a counter without an expiry; past the limit the key is refused for good |
| `code_reuse_redis` | two overlapping verifications of one code both answer a JWT: DEL of a missing key is no error |
| `link_reuse` | two overlapping requests with one link token both answer a JWT |
| `forged_header` | CF-Connecting-IP counts on every connection from a trusted proxy; where that proxy passes on a header it does not know, the client chooses the address the IP limiter is asked about |
| `clean_up` | the pages POST to `/api/done`, whose route takes GET only: the code of a mail whose link was followed is never removed |

In memory a code can be redeemed twice as well: a send between two overlapping
verifications stores a new code, which the second one removes while it answers
for the old one. `CodeSingleUse` fails there in the same way; what does hold in
memory is `CodeJwtsBounded`, and on either backend `CodesAreOneTime`: every
JWT beyond the first goes to a request that was let in before it.

Three more things the model shows about the code are not runs of their own,
since the repository promises nothing else about them, or a theorem says it
already:

* When the popup's code is lost after the link was verified, the link is used up
  and the page goes on showing what it showed: no popup, no message, no other
  page. `LinkSettles` names this case (`missed`) as its only exception.
* A path that `os.Stat` fails on makes the handler of the static files panic
  (`fi` is nil at `http/handlers.go:38`, before the error is looked at), where the
  comment on lines 45-46 announces a 500. The fetch then gets no answer
  (`StaticAnswer`); `OnlyStatLoses` and `AnsweredWhenReadable` say that nothing
  else loses one.
* The first page holds back addresses with white space or another @ around
  them, which the backend would trim or parse (`validators/email_validator.go:30`
  and the tests of `email_validator_test.go:57-63`): `John Doe <john@example.com>`
  cannot be typed there. `PageRefusesOnlySpaced` says that it holds back no other
  address that the backend accepts, and accepts none of these.

**Bounds.** Counters are bounded by what no decision can tell apart: `MaxCount`
is above `Limit`, and a count that reaches it stays there. Two goroutines are
enough for one request to come between any two steps of another; two addresses
for one to be mistaken for the other; with two sends an address has an old and a
new code, with three the in-memory run can replace a code twice. One fault or
setback reaches every state a single failure leads to; `setbacks = 0` in a
property names the ones that hold only without. Window 2 or 3 separates the
first unit of time in a window from its last. Limits of 2 and 1 make the two limiters of a send
disagree in either direction. Two tabs let a code be typed in one while the
link of the same mail is followed in the other; two fetches are a send and one
verification, or two sends. Addresses, IPs and goroutines are interchangeable,
so the two issuer runs and `total_limiter` use symmetry (they check invariants
and steps, no liveness, and none tells one of them from another). In `server_parts` three modules that share no state stand side by side: a
behaviour is one of the server, of a validation or of a token. Two trusted
proxies let a request pass one twice and let the networks trust one and not the
other; two forged entries can frame a proxy's address or an unparsable text. The
labels lie on either side of every limit, with 4 characters for 63 and 9 for
253; a domain of three is the shortest in which the page's expression can split
at two places. Five characters make 120 orders, each of which the shuffle must
reach by one sequence of draws. These machines end, so the run does not look for
deadlock. `forged_header` is the same instance, so its client has the three
kinds of first proxy that `ChainNamesClient` is checked with. `clean_up` takes
the network and the files to be in order, so that only the route can lose the
clean-up.

**Fairness.** The limiters' liveness assumes that time passes, that the runtime
schedules the janitor goroutine and carries on a request it has begun. Nothing
is assumed of clients, operators or faults. `frontend` assumes that the browser
runs the effects and callbacks of its pages and that a fetch comes to an end,
be it lost; nothing is assumed of the user.

## 4. What is proved

Every theorem holds for all values of the constants that satisfy the named
assumptions (`InMemoryAssumption`, `SlidingAssumption`, `RedisAssumption`,
`TotalAssumption`, `StorageAssumption`, `IssuerAssumption`,
`FrontendAssumption`, `AddressAssumption`, `StartupAssumption`,
`ValidatorAssumption`, `TokenAssumption`), which only say what kind of value
each constant is, that `MaxCount` is above `Limit` and 1, that an address is no
junk text, and that some character of a code is not a sure digit.
`InstanceAssumption` is of `MCServer`: its addresses are its proxies and the
others. Four theorems have a hypothesis of their own, named where they are
listed: a process serves one request at a time (`OneAtATime`); link tokens can
be removed (`LinksRefine`); every path can be read or is absent
(`AnsweredWhenReadable`); no first proxy passes CF-Connecting-IP on
(`ClientIsReal`).

* `InMemoryRateLimiter_proofs`: `TypeCorrect`, and `Refinement`: the limiter
  implements `RateLimiter`. The type invariant is inductive by itself; every
  action is shown to be a step of the contract or a stutter, `Janitor` the
  latter. `AdmissionsBounded` proves `SlidingBound` from `SlidingInv`: a stretch
  of time pays one `Limit` for the open window, another when it reaches back
  behind that window, and another for each reset, and what the window still has
  to give is paid for in advance (`Budget`). `RecordRefines`: the record that
  takes changes nothing about the limiter.
* `RedisRateLimiter_proofs`: `TypeCorrect`; `ExpiryGuaranteed`, which is
  inductive with the type invariant; and `Refinement`, for which the invariant
  also says that a counter's expiry never comes before its window is over
  (`Window <= ttl + age`), whichever request's EXPIRE set it.
* `TotalRateLimiter_proofs`: `TypeCorrect`, and `BudgetOfIP` proves `MailsPerIP`:
  what an IP was allowed never exceeds what its limiter recorded (`IPCharged`),
  since the second limiter counts in the step that allows. `BudgetOfAddress`
  proves `MailsPerAddress`: the first limiter counts a step earlier, so the
  invariant (`EmailCharged`) charges an address with its mails and with the calls
  its limiter has allowed and the other not yet (`Pending`).
* `EmailIssuer_proofs`: `TypeCorrect` needs that a link token in the storage
  belongs to a send that has begun (`LinksBegun`). `RedeemedForGood` proves
  `RedeemedCodeStaysDead`: it is preserved because a code is unused until
  `StoreCode` stores it (`CodesUnused`: not in the storage, not answered, not
  held by a verification), which in turn needs that no two requests send the
  same code (`SendsApart`). `JwtsBounded` proves `CodeJwtsBounded`: `Budget`
  counts the code that is stored as one JWT to come.
  `JwtIsForOwner` proves `JwtNamesOwner` from `Owners`: whatever carries the
  number of a send (a code or link in the storage, a request, a JWT) carries
  the address it was drawn for. `AnsweredForGood` proves `AnsweredLinkIsDead`
  from `LinksUsedUp`: a link is unused until `StoreLink` stores it, and a request
  that will answer for it has removed it (`LinkUnused`). `LiveCodeReachesOwner`
  proves `LiveCodeIsMailed`, which without setbacks is inductive with the types.
  `OneAtATime`: with one goroutine `CodeSingleUse` holds whatever fails, and
  `LinkSingleUse` as long as nothing does, so their counterexamples need two. The
  JWTs of a secret and the requests that hold it are together no more than there
  are goroutines (`FewCodeHolders`, `FewLinkHolders`), since a request joins the
  holders only while nothing was answered and leaves them with one JWT at most.
  `CodesRefine` proves `CodesAreOneTime` on either backend with every setback;
  `LinksRefine` proves `LinksAreOneTime` where removing a link cannot fail, in
  memory or with no "storage" among the setbacks. Every step of the handlers is,
  for each secret, one action of `OneTimeSecret` or none: a send replaces one code
  by another, a removal by address may take a code that was not presented, and a
  crash ends all in memory. `SecretInv` is what that needs: the owners, that
  a secret is unused before it is stored, and that a request which comes to the
  JWT of a link has removed it (`LinksBurnt`).
* `Frontend_proofs`: `TypeCorrect` needs that a link in the storage belongs to a
  send that was served and that a verification of a link that went well has
  learnt its address. `NoErrorBesidePopup` proves `NoSpuriousError` from
  `TabsInv`: a closed tab is untouched, so a tab that shows a link has begun no
  fetch before the effect, begins one, and ends it by an error or with the
  popup's code, which a popup may come of; after that only the clean-up is under
  way. `OnlyStatLoses`: where the
  network loses nothing, a fetch without an answer is the popup's code or a
  clean-up, and its path cannot be read (`LostByStat`); so `AnsweredWhenReadable`
  proves `EveryFetchAnswered` where "error" is not among `Stats`: the panic of the
  static file handler is the only way to lose one.
* `Server_proofs`: `ServerTypeCorrect`; `ChainLeadsToClient` proves
  `ChainNamesClient` whatever the first proxies do: once the request is on a
  trusted connection, the sender is in X-Forwarded-For with nothing but trusted
  proxies to its right (`Traceable`). `ClientIsReal` proves `RealClient` under the
  hypothesis that no first proxy passes CF-Connecting-IP on; the header then names
  the sender or is not there (`Unforged`). `forged_header` shows that the hypothesis is
  needed, and nothing in the code or the configuration checks it.
  `ConfiguredAsChecked` proves `ListensAsConfigured`:
  what `validate` has checked stays true from stage to stage, except for the key
  file. `SideBySide` puts the server, the validator and the generator together
  as `MCServer` does: all that `server_parts` checks, its `TypeOK` included.
* `TokenGenerator_proofs`: `TokenTypeCorrect`, and `DigitsGuaranteed` proves
  `TwoDigits`: from `DrawCount` on the number of sure digits is 2 or more, what
  is drawn first are digits, and a swap moves two digits to two
  places. `Fair` proves `ShuffleIsFair` for codes of any length: the order is a
  permutation that follows from the draws (`ShuffledSoFar`), and two sequences
  of draws that lead to one order agree, since swaps can be undone from the last
  one back.
* `EmailValidator_proofs`: `ValidatorTypeCorrect`, and `FollowsZone` proves
  `VerdictFollowsZone`: an MX record that was there all along has been found
  before the second look-up begins. `PageFollowsBackend` proves
  `PageRefusesOnlySpaced`: the last dot of a domain the backend accepts is one the
  page's expression asks for, with something before it and two characters or
  more after it (`SyntaxSuitsPage`), however many labels come before, so only
  what is around the address can make the page refuse it.

The prover has no induction over numbers to offer. Where a proof needs one (the
lengths of the labels, added up; the places of a shuffle) it takes the least
counterexample, which exists because the library proves that `Nat` is
well-founded.

Model-checked only: what takes fairness, which is out of the prover's reach.
These are `BlockedIsTemporary` and `StaleEntriesEvicted` of the in-memory
limiter, `LockOutNeedsFault` of the Redis limiter, and `LinkSettles`. Of the five
properties that a run violates, three are theorems where a hypothesis rules the
counterexample out: `CodeSingleUse`, `LinkSingleUse` and `RealClient`.

## 5. What is abstracted, what is left out

* Time is discrete, and the clock of the process and of Redis are not compared.
  The waiting time that `Allow` returns is dropped by its only caller and left
  out.
* Codes of two sends are taken to differ. Two random codes of six characters can
  coincide; the older mail then simply goes on working.
* Redis is its documented behaviour (INCR, EXPIRE, TTL, SET with expiry, GET,
  DEL); a failover that loses writes is not modelled.
* What the limiter answers to a send is a free choice in `EmailIssuer`; the
  limiter modules say when.
* In `Frontend` a handler is one step; the interleavings of their steps are
  `EmailIssuer`'s. The browser's own back button and reload, and a change of
  language in the middle of a page, are left out, except that the effect of a
  link may run at any time. The popup's code is fetched for each popup, where a
  browser would fetch it once for a tab.
* A trusted proxy appends the address it was called from to X-Forwarded-For, and
  `ChainNamesClient` rests on that, as `clientIP` does; what the first one does
  with CF-Connecting-IP is open. X-Forwarded-For comes in one line, of which `clientIP` reads the
  first.
* The flaws of a configuration are the checks of `validate`, one by one; a field
  nothing checks (`rate_limit_count`, `base_url`, the templates) is left out.
  `Startup` builds what the other modules take as given: the limiters with
  their `Limit`, the storage with its `Backend`.
* `crypto/rand` may give any number in range; that it gives each with the same
  probability is not in the model, and `ShuffleIsFair` counts sequences of draws.
* Wording, logging, rendering, the contents of the JWT and the configuration
  file are data no property is about.

**Not modelled.** The health check and the admin token, which change nothing;
RFC 5322 parsing, JSON, DNS, JWT signing and SMTP, which are libraries' (the
handlers are told only whether they fail); `StaticTokenGenerator`, for tests;
the validator's cost: how long a look-up takes is not bounded by the code, and
no property is about it. The frontend's languages, texts, styling and bootstrap
(`i18n.ts`, `App.css`, `main.tsx`) carry no state but the address of the page.

## 6. Order in which it was built, and what could follow

The limiters and their contract, the total limiter, the storage and the
handlers, the pages and the router; then the start of the server, the client's
address, the validator and the token generator; the proofs alongside, at last
those about every secret and every stretch of time. What could
follow, in this order:

1. The send handler composed with `TotalRateLimiter` in the place of the free
   choice of `EmailIssuer`: what a refused or failed send costs.
2. The pages composed with the handlers step by step: that the owner of a mail
   can go on after a failure.
