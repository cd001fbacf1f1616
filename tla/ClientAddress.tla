--------------------------- MODULE ClientAddress ---------------------------
(***************************************************************************)
(* Whose request it is: clientIP of backend/internal/http/handlers.go, on  *)
(* a request that reaches the server directly or through proxies.  The     *)
(* client writes what it likes into the headers; a proxy of the trusted    *)
(* networks appends the address it was called from to X-Forwarded-For.     *)
(* CF-Connecting-IP is one proxy's: Cloudflare sets it, another removes it *)
(* or, knowing nothing of it, passes on what the client wrote.             *)
(***************************************************************************)
EXTENDS Integers, Sequences

CONSTANTS
    Addresses,      \* IP addresses
    Junk,           \* texts in a header that do not parse as an address
    None,           \* no header, no request, no answer
    FirstProxies,   \* what the first proxy may make of CF-Connecting-IP
    MaxForged,      \* bound of the model: entries a client writes
    MaxHops         \* bound of the model: proxies a request passes

ASSUME AddressAssumption ==
    /\ Addresses \cap Junk = {}
    /\ None \notin Addresses \cup Junk
    /\ FirstProxies \in (SUBSET {"sets", "removes", "passes"}) \ {{}}
    /\ MaxForged \in Nat /\ MaxHops \in Nat

VARIABLES
    trusted,        \* addresses in the networks of API.trustedProxies
    sender,         \* the client that sent the request (history)
    peer,           \* the other end of the connection it is on: RemoteAddr
    forwarded,      \* X-Forwarded-For, split at its commas
    connecting,     \* CF-Connecting-IP
    hops,           \* proxies passed so far (history)
    ip              \* what clientIP answered

request == <<sender, peer, forwarded, connecting, hops, ip>>
addressVars == <<trusted, request>>

Texts == Addresses \cup Junk

AddressTypeOK ==
    /\ trusted \subseteq Addresses
    /\ sender \in Addresses \cup {None}
    /\ peer \in Addresses \cup {None}
    /\ forwarded \in Seq(Texts)
    /\ connecting \in Texts \cup {None}
    /\ hops \in 0 .. MaxHops
    /\ ip \in Addresses \cup {None}

NoRequest ==
    /\ sender = None /\ peer = None
    /\ forwarded = <<>> /\ connecting = None
    /\ hops = 0 /\ ip = None

\* What a client may write into X-Forwarded-For.
Forgeries == UNION {[1 .. n -> Texts] : n \in 0 .. MaxForged}

\* A client outside the trusted networks sends a request, to a proxy or to us.
SendRequest(c) ==
    /\ peer = None
    /\ c \in Addresses \ trusted
    /\ sender' = c /\ peer' = c
    /\ forwarded' \in Forgeries
    /\ connecting' \in Texts \cup {None}
    /\ UNCHANGED <<trusted, hops, ip>>

\* What CF-Connecting-IP is behind the first proxy of ours.
Treated(proxy) ==
    CASE proxy = "sets" -> peer [] proxy = "removes" -> None [] proxy = "passes" -> connecting

\* A proxy passes the request on.  The first proxy of ours may also start
\* X-Forwarded-For afresh.
Forward(p) ==
    /\ peer # None /\ ip = None
    /\ p \in trusted
    /\ hops < MaxHops
    /\ hops' = hops + 1
    /\ IF peer \in trusted
       THEN /\ forwarded' = Append(forwarded, peer)
            /\ UNCHANGED connecting
       ELSE /\ forwarded' \in {Append(forwarded, peer), <<peer>>}
            /\ \E proxy \in FirstProxies : connecting' = Treated(proxy)
    /\ peer' = p
    /\ UNCHANGED <<trusted, sender, ip>>

\* An entry of the header that parses and is not one of our proxies.
Candidates == {i \in DOMAIN forwarded : forwarded[i] \in Addresses \ trusted}

\* Mutation of Nearest: the header is read from the left.
NearestFromLeft ==
    CHOOSE i \in Candidates : \A j \in Candidates : i <= j

\* The header is read from the right.
Nearest == CHOOSE i \in Candidates : \A j \in Candidates : j <= i

\* The headers count only on a connection from a trusted proxy.
ClientIP ==
    CASE peer \notin trusted                              -> peer
      [] peer \in trusted /\ connecting \in Addresses     -> connecting
      [] peer \in trusted /\ connecting \notin Addresses
                          /\ Candidates # {}              -> forwarded[Nearest]
      [] peer \in trusted /\ connecting \notin Addresses
                          /\ Candidates = {}              -> peer

\* The request is served: the send handler asks for its client.
Identify ==
    /\ peer # None /\ ip = None
    /\ ip' = ClientIP
    /\ UNCHANGED <<trusted, sender, peer, forwarded, connecting, hops>>

\* The request is answered, and another may come.
Answer ==
    /\ ip # None
    /\ sender' = None /\ peer' = None
    /\ forwarded' = <<>> /\ connecting' = None
    /\ hops' = 0 /\ ip' = None
    /\ UNCHANGED trusted

AddressNext ==
    \/ \E c \in Addresses : SendRequest(c)
    \/ \E p \in trusted : Forward(p)
    \/ Identify \/ Answer

-----------------------------------------------------------------------------

(***************************************************************************)
(* Where CF-Connecting-IP does not decide, the IP limiter is asked about   *)
(* the client that sent the request, whatever it wrote into                *)
(* X-Forwarded-For and however many trusted proxies passed the request on  *)
(* (handlers.go:401-419).                                                  *)
(***************************************************************************)
ChainNamesClient ==
    ip # None /\ ~(peer \in trusted /\ connecting \in Addresses) => ip = sender

(***************************************************************************)
(* "Proxy-supplied headers (X-Forwarded-For, CF-Connecting-IP) can be set  *)
(* to any value by an HTTP client, so trusting them unconditionally lets a *)
(* caller spoof their IP [...]  We therefore only consult those headers    *)
(* when the immediate peer [...] is a configured trusted proxy", and       *)
(* "CF-Connecting-IP holds the single originating client IP set by         *)
(* Cloudflare" (handlers.go:376-380, 394): the address the limiter is      *)
(* asked about is the client's.                                            *)
(***************************************************************************)
RealClient == ip # None => ip = sender
=============================================================================
