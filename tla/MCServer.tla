------------------------------ MODULE MCServer ------------------------------
(***************************************************************************)
(* Startup with ClientAddress, EmailValidator and TokenGenerator for TLC.  *)
(* They share no state: a behaviour is one of the server, of a validation  *)
(* or of a token, and leaves the rest as it is.                            *)
(***************************************************************************)
EXTENDS Startup, EmailValidator, TokenGenerator

CONSTANTS Proxies, Others       \* the addresses, by what they are here

VARIABLE part

mcVars == <<part, startupVars, validatorVars, tokenVars>>

MCAddresses == Proxies \cup Others

-----------------------------------------------------------------------------
(* Configurations: a sound one, and what differs from it in one respect.   *)

Network(addresses) == [kind |-> "network", network |-> addresses]
NoNetwork(kind) == [kind |-> kind, network |-> {}]

SoundConfig == [flaws |-> {}, proxies |-> {Network(Proxies)}, tls |-> "off",
                storageType |-> "inmemory"]

SetsOfProxies ==
    {{}, {NoNetwork("blank")}, {NoNetwork("malformed"), Network(Proxies)},
     {NoNetwork("blank"), Network(Proxies)}} \cup {{Network({p}) : p \in Proxies}}

Configs ==
    {SoundConfig}
      \cup {[SoundConfig EXCEPT !.flaws = {f}] : f \in Flaws}
      \cup {[SoundConfig EXCEPT !.tls = t] : t \in {"ok", "bad"}}
      \cup {[SoundConfig EXCEPT !.proxies = s] : s \in SetsOfProxies}
      \cup {[SoundConfig EXCEPT !.storageType = t] :
                t \in {"redis", "redis_sentinel", "other"}}

-----------------------------------------------------------------------------
(* Labels on either side of every check; the longest here has 4 characters.*)

PlainLabel(n) == [length |-> n, chars |-> {"letter"}, hyphenAtEnd |-> FALSE]

MCLabels ==
    {PlainLabel(n) : n \in 1 .. 5}
      \cup {[PlainLabel(2) EXCEPT !.chars = {"digit"}],
            [PlainLabel(3) EXCEPT !.chars = {"letter", "digit", "hyphen"}],
            [PlainLabel(2) EXCEPT !.chars = {"letter", "hyphen"}, !.hyphenAtEnd = TRUE],
            [PlainLabel(2) EXCEPT !.chars = {"letter", "other"}]}

PlainDomain == [i \in 1 .. 2 |-> PlainLabel(2)]

\* The instance: what the cfg gives the constants.
ASSUME InstanceAssumption ==
    /\ Addresses = MCAddresses /\ Proxies # {}
    /\ PlainLabel(2) \in Labels /\ MaxLabels >= 2

-----------------------------------------------------------------------------

Server == StartupInit(Configs)
NoServer ==
    /\ config = SoundConfig /\ keyFile = "rsa" /\ redisUp = TRUE
    /\ StartupInit({SoundConfig})

NoValidation ==
    /\ input = [form |-> "bare", domain |-> PlainDomain] /\ zone = {}
    /\ ValidatorInit

Init ==
    \/ part = "server" /\ Server /\ NoValidation /\ TokenInit
    \/ part = "validator" /\ ValidatorInit /\ NoServer /\ TokenInit
    \/ part = "generator" /\ TokenInit /\ NoServer /\ NoValidation

Next ==
    /\ UNCHANGED part
    /\ \/ part = "server" /\ ServerNext /\ UNCHANGED <<validatorVars, tokenVars>>
       \/ part = "validator" /\ ValidatorNext /\ UNCHANGED <<startupVars, tokenVars>>
       \/ part = "generator" /\ TokenNext /\ UNCHANGED <<startupVars, validatorVars>>

Spec == Init /\ [][Next]_mcVars

\* The state of every part has its type.
TypeOK == StartupTypeOK /\ ValidatorTypeOK /\ TokenTypeOK
=============================================================================
