---------------------------- MODULE TokenStorage ----------------------------
(***************************************************************************)
(* The two token stores of backend/internal/core/token_storage.go: the     *)
(* verification code stored under an e-mail address, and the address that  *)
(* a link token leads back to.  Every method is one Redis command or one   *)
(* critical section of the mutex, so it is one step of its caller; the     *)
(* callers are in EmailIssuer.                                             *)
(*                                                                         *)
(* Each send draws a fresh code and a fresh link token, and the model names *)
(* both by the number of the send: two sends never draw the same.  For the *)
(* 32 random bytes of a link token that is so; two six-character codes can *)
(* coincide, and the old one then simply goes on working.                  *)
(***************************************************************************)
EXTENDS Integers

CONSTANTS
    Emails,     \* normalised e-mail addresses
    NoEmail,    \* no address
    MaxSends,   \* bound of the model: sends
    Backend     \* app.storage_type: "redis" (with or without sentinel) or
                \* "inmemory"

ASSUME StorageAssumption ==
    /\ NoEmail \notin Emails
    /\ MaxSends \in Nat
    /\ Backend \in {"redis", "inmemory"}

VARIABLES
    tokenMap,       \* tokenMap[e]: the send whose code is stored for e, or 0
    linkTokenMap    \* linkTokenMap[n]: the address of link token n, or NoEmail

storage == <<tokenMap, linkTokenMap>>

Sends == 1 .. MaxSends

StorageTypeOK ==
    /\ tokenMap \in [Emails -> 0 .. MaxSends]
    /\ linkTokenMap \in [Sends -> Emails \cup {NoEmail}]

StorageInit ==
    /\ tokenMap = [e \in Emails |-> 0]
    /\ linkTokenMap = [n \in Sends |-> NoEmail]

\* Storing overwrites: an address has one code, that of its latest send.
StoreToken(e, n) == tokenMap' = [tokenMap EXCEPT ![e] = n]

StoreLinkToken(n, e) == linkTokenMap' = [linkTokenMap EXCEPT ![n] = e]

\* Deletes whatever code is stored for e: the caller names the address, not
\* the code it has compared.
RemoveToken(e) == tokenMap' = [tokenMap EXCEPT ![e] = 0]

\* Mutation of RemoveTokenOK: the map does not notice either.
RemoveTokenAlwaysOK(e) == TRUE

\* RemoveToken returns no error.  DEL answers how many keys it deleted and
\* .Err() drops that, so only the map notices that nothing was there.
RemoveTokenOK(e) == Backend = "redis" \/ tokenMap[e] # 0

\* RemoveLinkToken.  Its caller ignores the error.
RemoveLinkToken(n) == linkTokenMap' = [linkTokenMap EXCEPT ![n] = NoEmail]

\* Redis drops an entry Timeout (24h) after it was stored; the maps keep
\* theirs for as long as the process lives.
CodeExpires(e) ==
    /\ Backend = "redis"
    /\ tokenMap[e] # 0
    /\ RemoveToken(e)
    /\ UNCHANGED linkTokenMap

LinkExpires(n) ==
    /\ Backend = "redis"
    /\ linkTokenMap[n] # NoEmail
    /\ RemoveLinkToken(n)
    /\ UNCHANGED tokenMap

\* What a restart of the backend leaves: the maps are memory of the process.
StorageAfterCrash ==
    IF Backend = "redis"
    THEN UNCHANGED storage
    ELSE /\ tokenMap' = [e \in Emails |-> 0]
         /\ linkTokenMap' = [n \in Sends |-> NoEmail]
=============================================================================
