---------------------------- MODULE Server_proofs ---------------------------
(***************************************************************************)
(* Proofs about Startup and ClientAddress: the state stays well typed, a   *)
(* server that listens is the one that was configured, and X-Forwarded-For *)
(* leads to the client of a request, for any addresses, any headers a      *)
(* client writes and any number of proxies; so does CF-Connecting-IP if no *)
(* proxy passes on what the client wrote there.  And, with the proofs      *)
(* about validation and codes, about the parts of MCServer side by side.   *)
(***************************************************************************)
EXTENDS MCServer, EmailValidator_proofs, TokenGenerator_proofs, TLAPS

(***************************************************************************)
(* ChainNamesClient before the answer: a request that came over our        *)
(* proxies carries the address of its sender in X-Forwarded-For, with      *)
(* nothing but proxies behind it.                                          *)
(***************************************************************************)
Recorded ==
    \E m \in DOMAIN forwarded :
        /\ forwarded[m] = sender
        /\ \A j \in DOMAIN forwarded : j > m => forwarded[j] \in trusted

Traceable ==
    /\ peer = None => ip = None
    /\ peer # None =>
           /\ sender \in Addresses \ trusted
           /\ peer = sender \/ (peer \in trusted /\ Recorded)
    /\ ChainNamesClient

\* And RealClient, where the first proxy does not pass CF-Connecting-IP on.
Unforged ==
    "passes" \notin FirstProxies =>
        /\ peer \in trusted => connecting \in {sender, None}
        /\ RealClient

AddressInv == AddressTypeOK /\ Traceable /\ Unforged

\* ListensAsConfigured before the server listens.
Checked ==
    /\ stage \in {"limiter", "storage", "api", "listen", "listening"} =>
           /\ keyKept => keyFile = "rsa"
           /\ ProxiesParse
    /\ stage \in {"listen", "listening"} => trusted = Networks
    /\ stage \notin {"listening", "exited"} => peer = None /\ ip = None

ServerInv == StartupTypeOK /\ Checked /\ Traceable /\ Unforged

-----------------------------------------------------------------------------
(* A request and its client.                                               *)

(***************************************************************************)
(* clientIP finds the sender of every request that is traceable, unless a  *)
(* trusted proxy hands over another address in CF-Connecting-IP.           *)
(***************************************************************************)
LEMMA ClientIPIsSender ==
    ASSUME AddressInv, peer # None,
           peer \in trusted /\ connecting \in Addresses => connecting = sender
    PROVE  ClientIP = sender
<1> USE AddressAssumption DEF AddressInv, AddressTypeOK, Traceable
<1>1. CASE peer = sender
    BY <1>1 DEF ClientIP
<1>2. CASE peer # sender /\ connecting = sender
    BY <1>2 DEF ClientIP
<1>3. CASE peer # sender /\ connecting # sender
    <2>1. peer \in trusted /\ connecting \notin Addresses
        BY <1>3
    <2>2. PICK m \in DOMAIN forwarded :
              /\ forwarded[m] = sender
              /\ \A j \in DOMAIN forwarded : j > m => forwarded[j] \in trusted
        BY <1>3 DEF Recorded
    <2>3. DOMAIN forwarded \subseteq Int
        OBVIOUS
    <2>4. m \in Candidates /\ \A j \in Candidates : j <= m
        BY <2>2, <2>3 DEF Candidates
    <2>5. \A i \in Candidates : (\A j \in Candidates : j <= i) => i = m
        BY <2>3, <2>4 DEF Candidates
    <2>6. Nearest = m
        BY <2>4, <2>5 DEF Nearest
    <2> QED BY <2>1, <2>2, <2>4, <2>6 DEF ClientIP
<1> QED BY <1>1, <1>2, <1>3

(***************************************************************************)
(* And in any case an address.                                             *)
(***************************************************************************)
LEMMA ClientIPTyped ==
    ASSUME AddressInv, peer # None
    PROVE  ClientIP \in Addresses
<1>1. CASE peer \in trusted /\ connecting \in Addresses
    BY <1>1 DEF ClientIP
<1>2. CASE ~(peer \in trusted /\ connecting \in Addresses)
    BY <1>2, ClientIPIsSender DEF AddressInv, Traceable
<1> QED BY <1>1, <1>2

(***************************************************************************)
(* A proxy that passes a request on leaves it traceable.                   *)
(***************************************************************************)
LEMMA ForwardTraceable ==
    ASSUME AddressInv, NEW p \in trusted, Forward(p)
    PROVE  AddressInv'
<1> USE AddressAssumption DEF AddressTypeOK, Texts
<1>1. /\ peer \in Addresses /\ ip = None /\ sender \in Addresses \ trusted
      /\ peer = sender \/ (peer \in trusted /\ Recorded)
      /\ peer' = p /\ p \in trusted /\ p # None
      /\ UNCHANGED <<trusted, sender, ip>>
    BY DEF AddressInv, Traceable, Forward
<1>2. forwarded \in Seq(Texts) /\ connecting \in Texts \cup {None}
    BY DEF AddressInv
<1>3. /\ forwarded' \in Seq(Texts)
      /\ Recorded'
    <2>1. CASE peer \in trusted
        <3>1. forwarded' = Append(forwarded, peer)
            BY <2>1 DEF Forward
        <3>2. PICK m \in DOMAIN forwarded :
                  /\ forwarded[m] = sender
                  /\ \A j \in DOMAIN forwarded : j > m => forwarded[j] \in trusted
            BY <1>1, <2>1 DEF Recorded
        <3>3. /\ m \in DOMAIN forwarded'
              /\ forwarded'[m] = sender'
              /\ \A j \in DOMAIN forwarded' : j > m => forwarded'[j] \in trusted'
            BY <1>1, <1>2, <2>1, <3>1, <3>2
        <3>4. Recorded'
            BY <3>3 DEF Recorded
        <3> QED BY <1>1, <1>2, <3>1, <3>4
    <2>2. CASE peer \notin trusted
        <3>1. peer = sender
            BY <1>1, <2>2
        <3>2. CASE forwarded' = Append(forwarded, peer)
            <4>1. /\ Len(forwarded) + 1 \in DOMAIN forwarded'
                  /\ forwarded'[Len(forwarded) + 1] = sender'
                  /\ \A j \in DOMAIN forwarded' : ~(j > Len(forwarded) + 1)
                BY <1>1, <1>2, <3>1, <3>2
            <4>2. Recorded'
                BY <4>1 DEF Recorded
            <4> QED BY <1>1, <1>2, <3>2, <4>2
        <3>3. CASE forwarded' = <<peer>>
            <4>1. /\ 1 \in DOMAIN forwarded'
                  /\ forwarded'[1] = sender'
                  /\ \A j \in DOMAIN forwarded' : ~(j > 1)
                BY <1>1, <3>1, <3>3
            <4>2. Recorded'
                BY <4>1 DEF Recorded
            <4>3. forwarded' \in Seq(Texts)
                BY <1>1, <3>3
            <4> QED BY <4>2, <4>3
        <3> QED BY <2>2, <3>2, <3>3 DEF Forward
    <2> QED BY <2>1, <2>2
<1>4. /\ connecting' \in Texts \cup {None}
      /\ "passes" \notin FirstProxies => connecting' \in {sender, None}
    <2>1. CASE peer \in trusted
        <3>1. connecting' = connecting
            BY <2>1 DEF Forward
        <3> QED BY <1>2, <2>1, <3>1 DEF AddressInv, Unforged
    <2>2. CASE peer \notin trusted
        <3>1. PICK proxy \in FirstProxies : connecting' = Treated(proxy)
            BY <2>2 DEF Forward
        <3>2. proxy \in {"sets", "removes", "passes"}
            OBVIOUS
        <3>3. peer = sender
            BY <1>1, <2>2
        <3> QED BY <1>1, <1>2, <3>1, <3>2, <3>3 DEF Treated
    <2> QED BY <2>1, <2>2
<1>5. hops' \in 0 .. MaxHops
    BY DEF AddressInv, Forward
<1>6. AddressTypeOK'
    BY <1>1, <1>3, <1>4, <1>5 DEF AddressInv
<1>7. Traceable'
    BY <1>1, <1>3 DEF Traceable, ChainNamesClient
<1>8. Unforged'
    BY <1>1, <1>4 DEF Unforged, RealClient
<1> QED BY <1>6, <1>7, <1>8 DEF AddressInv

(***************************************************************************)
(* Every step of a request keeps it well typed and traceable.              *)
(***************************************************************************)
LEMMA AddressNextInv ==
    ASSUME AddressInv, AddressNext
    PROVE  AddressInv' /\ trusted' = trusted
<1> USE AddressAssumption
<1>1. ASSUME NEW c \in Addresses, SendRequest(c)
      PROVE  AddressInv' /\ trusted' = trusted
    <2>1. forwarded' \in Seq(Texts)
        BY <1>1 DEF SendRequest, Forgeries
    <2>2. AddressTypeOK' /\ Traceable' /\ trusted' = trusted
        BY <1>1, <2>1
           DEF SendRequest, AddressInv, AddressTypeOK, Traceable, ChainNamesClient
    <2>3. Unforged'
        BY <1>1 DEF SendRequest, AddressInv, Traceable, Unforged, RealClient
    <2> QED BY <2>2, <2>3 DEF AddressInv
<1>2. ASSUME NEW p \in trusted, Forward(p)
      PROVE  AddressInv' /\ trusted' = trusted
    BY <1>2, ForwardTraceable DEF Forward
<1>3. ASSUME Identify
      PROVE  AddressInv' /\ trusted' = trusted
    <2>1. peer # None /\ ip' = ClientIP
        BY <1>3 DEF Identify
    <2>2. UNCHANGED <<trusted, sender, peer, forwarded, connecting, hops>>
        BY <1>3 DEF Identify
    <2>3. AddressTypeOK'
        BY <2>1, <2>2, ClientIPTyped DEF AddressInv, AddressTypeOK
    <2>4. ChainNamesClient'
        BY <2>1, <2>2, ClientIPIsSender DEF ChainNamesClient
    <2>5. Traceable'
        BY <2>1, <2>2, <2>4 DEF AddressInv, Traceable, Recorded
    <2>6. "passes" \notin FirstProxies => ip' = sender
        BY <2>1, ClientIPIsSender DEF AddressInv, Unforged
    <2>7. Unforged'
        BY <2>2, <2>6 DEF AddressInv, Unforged, RealClient
    <2> QED BY <2>2, <2>3, <2>5, <2>7 DEF AddressInv
<1>4. ASSUME Answer
      PROVE  AddressInv' /\ trusted' = trusted
    BY <1>4 DEF Answer, AddressInv, AddressTypeOK, Traceable, ChainNamesClient,
                Unforged, RealClient
<1> QED BY <1>1, <1>2, <1>3, <1>4 DEF AddressNext

(***************************************************************************)
(* What a request is is kept by a step that leaves it and the trusted      *)
(* networks alone.                                                         *)
(***************************************************************************)
LEMMA AddressKept ==
    ASSUME AddressInv, UNCHANGED addressVars
    PROVE  AddressInv'
BY DEF AddressInv, AddressTypeOK, Traceable, Unforged, ChainNamesClient, RealClient, Recorded,
       addressVars, request

-----------------------------------------------------------------------------
(* The start of the process.                                               *)

(***************************************************************************)
(* What the configured proxies come to is a set of addresses.              *)
(***************************************************************************)
LEMMA NetworksTyped ==
    ASSUME config \in Config
    PROVE  Networks \subseteq Addresses
<1>1. \A e \in config.proxies : e.network \subseteq Addresses
    <2>1. config.proxies \subseteq Entry
        BY DEF Config
    <2>2. \A e \in Entry : e.network \subseteq Addresses
        BY DEF Entry
    <2> QED BY <2>1, <2>2
<1> QED BY <1>1 DEF Networks

(***************************************************************************)
(* The invariant holds when the process starts.                            *)
(***************************************************************************)
LEMMA InitServerInv == StartupInit(Config) => ServerInv
<1> SUFFICES ASSUME StartupInit(Config)
             PROVE  ServerInv
    OBVIOUS
<1> USE AddressAssumption, StartupAssumption DEF StartupInit, NoRequest
<1>1. forwarded \in Seq(Texts)
    OBVIOUS
<1>2. StartupTypeOK
    BY <1>1 DEF StartupTypeOK, AddressTypeOK, Stages
<1> QED BY <1>2 DEF ServerInv, Checked, Traceable, Unforged, ChainNamesClient, RealClient

(***************************************************************************)
(* The steps of the process, and those around it, keep it.                 *)
(***************************************************************************)
LEMMA StartupNextInv ==
    ASSUME ServerInv, StartupNext
    PROVE  ServerInv'
<1> USE StartupAssumption
<1>0. AddressInv
    BY DEF ServerInv, StartupTypeOK, AddressInv
<1>1. ASSUME LoadFromFile
      PROVE  ServerInv'
    <2>1. AddressInv'
        BY <1>0, <1>1, AddressKept DEF LoadFromFile
    <2> QED BY <1>1, <2>1
            DEF LoadFromFile, Proceed, Validates, ServerInv, StartupTypeOK, AddressInv, Stages,
                Checked, ProxiesParse, environment, addressVars, request
<1>2. ASSUME BuildTotalLimiter \/ BuildTokenStorage \/ ListenAndServe
      PROVE  ServerInv'
    <2>1. UNCHANGED addressVars /\ AddressInv'
        BY <1>0, <1>2, AddressKept DEF BuildTotalLimiter, BuildTokenStorage, ListenAndServe
    <2>2. UNCHANGED <<config, environment, keyKept>>
        BY <1>2 DEF BuildTotalLimiter, BuildTokenStorage, ListenAndServe
    <2>3. \/ stage = "limiter" /\ stage' \in {"storage", "exited"}
          \/ stage = "storage" /\ stage' \in {"api", "exited"}
          \/ stage \in {"listen", "listening"} /\ stage' \in {"listening", "exited"}
        BY <1>2 DEF BuildTotalLimiter, BuildTokenStorage, ListenAndServe, Proceed
    <2> QED BY <2>1, <2>2, <2>3
            DEF ServerInv, StartupTypeOK, AddressInv, Stages, Checked, ProxiesParse, Networks,
                environment, addressVars, request
<1>3. ASSUME NewAPI
      PROVE  ServerInv'
    <2>1. ProxiesParse /\ trusted' = Networks /\ peer = None /\ ip = None
        BY <1>3 DEF NewAPI, ServerInv, Checked
    <2>2. trusted' \subseteq Addresses
        BY <2>1, NetworksTyped DEF ServerInv, StartupTypeOK
    <2>3. UNCHANGED <<config, environment, keyKept, request>> /\ stage' = "listen"
        BY <1>3 DEF NewAPI
    <2>4. StartupTypeOK'
        BY <2>2, <2>3 DEF ServerInv, StartupTypeOK, AddressTypeOK, Stages, environment, request
    <2>5. Traceable' /\ Unforged'
        BY <2>1, <2>2, <2>3, AddressAssumption
           DEF ServerInv, Traceable, Unforged, ChainNamesClient, RealClient, request
    <2>6. Checked'
        BY <1>3, <2>1, <2>3
           DEF NewAPI, ServerInv, Checked, ProxiesParse, Networks, environment, request
    <2> QED BY <2>4, <2>5, <2>6 DEF ServerInv
<1>4. ASSUME KeyReplaced \/ RedisChanges
      PROVE  ServerInv'
    <2>1. UNCHANGED addressVars /\ AddressInv'
        BY <1>0, <1>4, AddressKept DEF KeyReplaced, RedisChanges
    <2>2. /\ UNCHANGED <<stage, config>>
          /\ keyFile' \in {"rsa", "other"} /\ redisUp' \in BOOLEAN /\ keyKept' \in BOOLEAN
          /\ changes' \in 0 .. MaxChanges
          /\ keyKept' => keyKept /\ keyFile' = keyFile
        <3>1. /\ keyFile \in {"rsa", "other"} /\ redisUp \in BOOLEAN /\ keyKept \in BOOLEAN
              /\ changes \in 0 .. MaxChanges
            BY DEF ServerInv, StartupTypeOK
        <3>2. CASE KeyReplaced
            <4>1. changes' \in 0 .. MaxChanges
                BY <3>1, <3>2 DEF KeyReplaced
            <4>2. keyKept' = FALSE /\ keyFile' \in {"rsa", "other"} \ {keyFile}
                BY <3>2 DEF KeyReplaced
            <4>3. UNCHANGED <<stage, config, redisUp>>
                BY <3>2 DEF KeyReplaced
            <4> QED BY <3>1, <4>1, <4>2, <4>3
        <3>3. CASE RedisChanges
            BY <3>1, <3>3 DEF RedisChanges
        <3> QED BY <1>4, <3>2, <3>3
    <2>3. StartupTypeOK' /\ Traceable' /\ Unforged'
        BY <2>1, <2>2 DEF ServerInv, StartupTypeOK, AddressInv
    <2>4. Checked'
        BY <2>1, <2>2
           DEF ServerInv, Checked, ProxiesParse, Networks, addressVars, request
    <2> QED BY <2>3, <2>4 DEF ServerInv
<1> QED BY <1>1, <1>2, <1>3, <1>4 DEF StartupNext

(***************************************************************************)
(* So does every step of a server, and a stutter.                          *)
(***************************************************************************)
LEMMA ServerNextInv == ServerInv /\ [ServerNext]_startupVars => ServerInv'
<1> SUFFICES ASSUME ServerInv, [ServerNext]_startupVars
             PROVE  ServerInv'
    OBVIOUS
<1>0. AddressInv
    BY DEF ServerInv, StartupTypeOK, AddressInv
<1>1. CASE StartupNext
    BY <1>1, StartupNextInv
<1>2. CASE /\ stage = "listening" /\ AddressNext
           /\ UNCHANGED <<stage, config, environment, keyKept>>
    <2>1. AddressInv' /\ trusted' = trusted
        BY <1>0, <1>2, AddressNextInv
    <2> QED BY <1>2, <2>1
            DEF ServerInv, StartupTypeOK, AddressInv, Checked, ProxiesParse, Networks, environment
<1>3. CASE UNCHANGED startupVars
    <2>1. AddressInv'
        BY <1>0, <1>3, AddressKept DEF startupVars
    <2> QED BY <1>3, <2>1
            DEF ServerInv, StartupTypeOK, AddressInv, Checked, ProxiesParse, Networks,
                startupVars, environment, addressVars, request
<1> QED BY <1>1, <1>2, <1>3 DEF ServerNext

-----------------------------------------------------------------------------

(***************************************************************************)
(* The process and the request it serves stay well typed.                  *)
(***************************************************************************)
THEOREM ServerTypeCorrect == ServerSpec => []StartupTypeOK
<1>1. ServerInv => StartupTypeOK
    BY DEF ServerInv
<1> QED BY <1>1, InitServerInv, ServerNextInv, PTL DEF ServerSpec

(***************************************************************************)
(* X-Forwarded-For leads the IP limiter to the client that sent the        *)
(* request (handlers.go:401-419), whatever the client wrote into it.       *)
(***************************************************************************)
THEOREM ChainLeadsToClient == ServerSpec => []ChainNamesClient
<1>1. ServerInv => ChainNamesClient
    BY DEF ServerInv, Traceable
<1> QED BY <1>1, InitServerInv, ServerNextInv, PTL DEF ServerSpec

(***************************************************************************)
(* Where every first proxy sets or removes CF-Connecting-IP, the IP        *)
(* limiter is always asked about the client that sent the request          *)
(* (handlers.go:374-433): forged_header needs one that passes it on.       *)
(***************************************************************************)
THEOREM ClientIsReal ==
    ASSUME "passes" \notin FirstProxies
    PROVE  ServerSpec => []RealClient
<1>1. ServerInv => RealClient
    BY DEF ServerInv, Unforged
<1> QED BY <1>1, InitServerInv, ServerNextInv, PTL DEF ServerSpec

(***************************************************************************)
(* A server listens with a usable key and the configured proxies           *)
(* (config.go:116-162, api.go:28-36).                                      *)
(***************************************************************************)
THEOREM ConfiguredAsChecked == ServerSpec => []ListensAsConfigured
<1>1. ServerInv => ListensAsConfigured
    BY DEF ServerInv, Checked, ListensAsConfigured
<1> QED BY <1>1, InitServerInv, ServerNextInv, PTL DEF ServerSpec

-----------------------------------------------------------------------------
(* The parts of MCServer side by side.                                     *)

PartsInv == ServerInv /\ ValidatorInv /\ SyntaxChecked /\ TokenInv /\ ShuffledSoFar

(***************************************************************************)
(* The configurations of MCServer are configurations.                      *)
(***************************************************************************)
LEMMA ConfigsTyped == Configs \subseteq Config
<1> DEFINE Kinds == {"inmemory", "memory", "redis", "redis_sentinel", "other"}
<1>1. SetsOfProxies \cup {{Network(Proxies)}} \subseteq SUBSET Entry
    <2>1. \A k \in {"blank", "malformed"} : NoNetwork(k) \in Entry
        BY DEF NoNetwork, Entry
    <2>2. \A s \in SUBSET Proxies : s # {} => Network(s) \in Entry
        <3> SUFFICES ASSUME NEW s \in SUBSET Proxies, s # {}
                     PROVE  Network(s) \in Entry
            OBVIOUS
        <3>1. s \in (SUBSET Addresses) \ {{}}
            <4>1. s \in SUBSET Addresses
                BY InstanceAssumption DEF MCAddresses
            <4> QED BY <4>1, Zenon
        <3>2. [kind |-> "network", network |-> s]
                  \in [kind : {"network"}, network : (SUBSET Addresses) \ {{}}]
            BY <3>1
        <3> QED BY <3>2 DEF Network, Entry
    <2>3. Proxies \in SUBSET Proxies /\ Proxies # {}
        BY InstanceAssumption
    <2>4. \A p \in Proxies : {p} \in SUBSET Proxies /\ {p} # {}
        OBVIOUS
    <2> QED BY <2>1, <2>2, <2>3, <2>4 DEF SetsOfProxies
<1>2. \A f \in SUBSET Flaws, s \in SUBSET Entry, t \in {"off", "ok", "bad"}, k \in Kinds :
          [flaws |-> f, proxies |-> s, tls |-> t, storageType |-> k] \in Config
    BY DEF Config
<1>3. SoundConfig = [flaws |-> {}, proxies |-> {Network(Proxies)}, tls |-> "off",
                     storageType |-> "inmemory"]
    BY DEF SoundConfig
<1>4. {Network(Proxies)} \in SUBSET Entry /\ {} \in SUBSET Flaws
    BY <1>1
<1>5. SoundConfig \in Config
    BY <1>2, <1>3, <1>4
<1>6. \A f \in Flaws : [SoundConfig EXCEPT !.flaws = {f}] \in Config
    BY <1>5 DEF Config
<1>7. \A t \in {"ok", "bad"} : [SoundConfig EXCEPT !.tls = t] \in Config
    BY <1>5 DEF Config
<1>8. \A s \in SetsOfProxies : [SoundConfig EXCEPT !.proxies = s] \in Config
    BY <1>1, <1>5 DEF Config
<1>9. \A k \in {"redis", "redis_sentinel", "other"} :
          [SoundConfig EXCEPT !.storageType = k] \in Config
    BY <1>5 DEF Config
<1> QED BY <1>5, <1>6, <1>7, <1>8, <1>9 DEF Configs

(***************************************************************************)
(* Whichever part runs, the others rest in one of their initial states.    *)
(***************************************************************************)
LEMMA InitParts == Init => StartupInit(Config) /\ ValidatorInit /\ TokenInit
<1> SUFFICES ASSUME Init
             PROVE  StartupInit(Config) /\ ValidatorInit /\ TokenInit
    OBVIOUS
<1>1. SoundConfig \in Configs
    BY DEF Configs
<1>2. Server \/ NoServer => StartupInit(Config)
    BY <1>1, ConfigsTyped DEF Server, NoServer, StartupInit
<1>3. NoValidation => ValidatorInit
    BY DEF NoValidation
<1> QED BY <1>2, <1>3 DEF Init

(***************************************************************************)
(* A step of one part keeps the invariants of all.                         *)
(***************************************************************************)
LEMMA NextParts == PartsInv /\ [Next]_mcVars => PartsInv'
<1> SUFFICES ASSUME PartsInv, [Next]_mcVars
             PROVE  PartsInv'
    OBVIOUS
<1>1. /\ [ServerNext]_startupVars
      /\ [ValidatorNext]_validatorVars
      /\ [TokenNext]_tokenVars
    BY DEF Next, mcVars
<1> QED BY <1>1, ServerNextInv, NextValidatorInv, NextSyntaxChecked, NextTokenInv, NextShuffled
        DEF PartsInv

(***************************************************************************)
(* What holds of the parts holds of them side by side: in MCServer no part *)
(* disturbs another, for any proxies, labels, lengths and bounds.          *)
(***************************************************************************)
THEOREM SideBySide ==
    Spec => [](/\ TypeOK
               /\ ChainNamesClient /\ ListensAsConfigured
               /\ VerdictFollowsZone /\ PageRefusesOnlySpaced
               /\ TwoDigits /\ ShuffleIsFair)
<1>1. Init => PartsInv
    BY InitParts, InitServerInv, InitValidatorInv, InitSyntaxChecked, InitTokenInv, InitShuffled
       DEF PartsInv
<1>2. PartsInv => /\ TypeOK
                  /\ ChainNamesClient /\ ListensAsConfigured
    BY DEF PartsInv, ServerInv, Checked, Traceable, ListensAsConfigured,
           ValidatorInv, TokenInv, TypeOK
<1>3. PartsInv => /\ VerdictFollowsZone /\ PageRefusesOnlySpaced
                  /\ TwoDigits /\ ShuffleIsFair
    BY VerdictOfLookUps, PageFollowsSyntax, TwoDigitsWhenDone, FairWhenDone DEF PartsInv
<1> QED BY <1>1, <1>2, <1>3, NextParts, PTL DEF Spec
=============================================================================
