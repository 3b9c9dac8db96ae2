------------------------- MODULE Credentials_proofs -------------------------
(***************************************************************************)
(* What CredentialsMC checks of the life of a bearer token, proved of each *)
(* of its parts for every value of the constants.                          *)
(***************************************************************************)
EXTENDS CredentialsMC, TLAPS

(* The server that runs calls for its bearer.                              *)

\* A server is what its deployment says; a call past the guard was let in for
\* a reason; one that ran was permitted.
Guarded ==
    /\ deployment \in Deployments
    /\ server # None =>
         /\ Bridge!Startable(deployment)
         /\ server = [guarded |-> deployment.guard # "none", anonymous |-> ~deployment.exposed,
                      posture |-> Bridge!Posture(deployment), blocks |-> Bridge!Blocks(deployment)]
    /\ posted.at # "idle" => server # None
    /\ posted.claims # None => posted.claims = posted.token
    /\ posted.at = "checking" => posted.token # None
    /\ posted.at \in {"accepted", "ran"} =>
         \/ ~server.guarded
         \/ posted.token = None /\ server.anonymous
         \/ posted.token # None /\ posted.claims = posted.token
    /\ posted.at = "ran" => Bridge!Permits(posted) /\ ~(server.blocks /\ posted.private)

Posted == [at : {"idle", "accepted", "refused", "checking", "denied", "blocked", "ran"},
           token : Bearers \cup {None}, way : DOMAIN Bridge!Ways \cup {None},
           op : Bridge!Ops \cup {None}, private : BOOLEAN,
           claims : Bearers \cup {None}]

LEMMA GuardedStep == posted \in Posted /\ Guarded /\ [Bridge!Next]_Bridge!vars => (posted \in Posted /\ Guarded)'
<1> SUFFICES ASSUME posted \in Posted, Guarded, [Bridge!Next]_Bridge!vars
             PROVE  (posted \in Posted /\ Guarded)'
  OBVIOUS
<1> USE DEF Posted, Guarded
<1>1. CASE Bridge!Start
  BY <1>1 DEF Bridge!Start, Bridge!Permits, Bridge!Scoped, Bridge!OfTheServer
<1>2. ASSUME NEW bearer \in Bearers \cup {None}, NEW way \in DOMAIN Bridge!Ways, NEW op \in Bridge!Ops,
             NEW private \in BOOLEAN, Bridge!Post(bearer, way, op, private)
      PROVE  (posted \in Posted /\ Guarded)'
  <2>1. /\ server # None /\ UNCHANGED <<deployment, server>>
        /\ posted' = [at |-> IF ~server.guarded \/ (bearer = None /\ server.anonymous)
                             THEN "accepted"
                             ELSE IF bearer = None THEN "refused" ELSE "checking",
                      token |-> bearer, way |-> way, op |-> op, private |-> private,
                      claims |-> None]
    BY ONLY <1>2 DEF Bridge!Post
  <2>2. posted' \in Posted
    BY ONLY <2>1, bearer \in Bearers \cup {None}, way \in DOMAIN Bridge!Ways, op \in Bridge!Ops,
            private \in BOOLEAN DEF Posted
  <2>3. /\ posted'.at \in {"accepted", "refused", "checking"}
        /\ posted'.at = "checking" => posted'.token # None
        /\ posted'.at = "accepted" => ~server.guarded \/ (posted'.token = None /\ server.anonymous)
        /\ posted'.claims = None
    BY ONLY <2>1
  <2>4. Guarded'
    BY ONLY Guarded, <2>1, <2>3 DEF Guarded
  <2> QED BY ONLY <2>2, <2>4
<1>3. CASE Bridge!Validated
  BY <1>3 DEF Bridge!Validated
<1>4. CASE Bridge!Run
  BY <1>4 DEF Bridge!Run, Bridge!Permits, Bridge!Scoped, Bridge!OfTheServer
<1>5. CASE Bridge!Over
  BY <1>5 DEF Bridge!Over, Bridge!Idle
<1>6. CASE UNCHANGED Bridge!vars
  BY <1>6 DEF Bridge!vars, Bridge!Permits, Bridge!Scoped, Bridge!OfTheServer
<1> QED BY <1>1, <1>2, <1>3, <1>4, <1>5, <1>6 DEF Bridge!Next

\* A call that reaches a device passed the guard with its own token and is within the
\* posture the operator chose; a tool, resource or prompt is run for its caller, and
\* what the server does for itself only within that posture (serve_http).
THEOREM ServedForCaller == Bridge!Spec => []ServedForItsCaller
<1>1. Bridge!Init => posted \in Posted /\ Guarded
  BY DEF Bridge!Init, Bridge!Idle, Posted, Guarded
<1>2. posted \in Posted /\ Guarded => ServedForItsCaller
  <2> SUFFICES ASSUME posted \in Posted, Guarded, posted.at = "ran"
               PROVE  ServedForItsCaller
    BY DEF ServedForItsCaller, Bridge!ServedForItsCaller
  <2> USE DEF Guarded, Posted, Bridge!Posture
  <2>1. Bridge!Startable(deployment) /\ server # None /\ Bridge!Permits(posted)
    OBVIOUS
  <2>2. /\ server.guarded = (deployment.guard # "none") /\ server.anonymous = ~deployment.exposed
        /\ server.posture = Bridge!Posture(deployment) /\ server.blocks = Bridge!Blocks(deployment)
    BY <2>1
  <2>3. deployment.guard # "none" /\ (deployment.exposed \/ posted.token # None) =>
            posted.claims = posted.token /\ posted.token # None
    BY <2>2
  <2>4. deployment.exposed /\ deployment.requireAuth => posted.claims # None
    BY <2>1, <2>3 DEF Bridge!Startable
  <2>5. server.posture # "none" => posted.op \in Bridge!Presets[server.posture]
    BY <2>1 DEF Bridge!Permits
  <2>6. /\ deployment.policy # "none" => posted.op \in Bridge!Presets[deployment.policy]
        /\ deployment.agent /\ deployment.policy = "none" => posted.op \in Bridge!Presets["readonly"]
    BY <2>2, <2>5
  <2>7. deployment.agent /\ posted.claims # None /\ Bridge!IsItsOwn(posted) =>
            Agent \in RolesOf[posted.claims]
    BY <2>1, <2>2 DEF Bridge!Permits, Bridge!Scoped, Bridge!OfTheServer, Bridge!IsItsOwn
  <2>8. deployment.exposed /\ posted.private => deployment.block = "off"
    BY <2>2, CredentialsAssumption DEF Bridge!Blocks, Bridge!ServingAssumption
  <2> QED BY <2>3, <2>4, <2>6, <2>7, <2>8 DEF ServedForItsCaller, Bridge!ServedForItsCaller
<1> QED BY <1>1, <1>2, GuardedStep, PTL DEF Bridge!Spec

------------------------------------------------------------------------------
(* Whose token a request carries.                                          *)

Minted == [secret : {Entra!SecretOf(t) : t \in DOMAIN Fleet},
           scope : {ScopeOf[Entra!SchemeOf(t)] : t \in DOMAIN Fleet}, expires : Int]

Asked == [at : {"idle", "minting", "sent"}, thing : DOMAIN Fleet \cup {None},
          scheme : {Entra!SchemeOf(t) : t \in DOMAIN Fleet} \cup {None},
          token : Minted \cup {None}, since : Nat]

\* Every cached token was minted for its key; a request that waits for a token is
\* its Thing's.
CachedByOwner ==
    /\ clock \in Nat
    /\ asked \in [Calls -> Asked]
    /\ \A t \in DOMAIN Fleet : Entra!Key(t) \in DOMAIN tokens =>
          /\ tokens[Entra!Key(t)] \in Minted
          /\ tokens[Entra!Key(t)].secret = Entra!SecretOf(t)
          /\ tokens[Entra!Key(t)].scope = ScopeOf[Entra!SchemeOf(t)]
    /\ \A c \in Calls : asked[c].at = "minting" =>
          asked[c].thing \in DOMAIN Fleet /\ asked[c].scheme = Entra!SchemeOf(asked[c].thing)

LEMMA CachedByOwnerStep ==
    CachedByOwner /\ Entra!CarriesItsOwners /\ [Entra!Next]_Entra!vars =>
        CachedByOwner' /\ Entra!CarriesItsOwners'
<1> SUFFICES ASSUME CachedByOwner, Entra!CarriesItsOwners, [Entra!Next]_Entra!vars
             PROVE  CachedByOwner' /\ Entra!CarriesItsOwners'
  OBVIOUS
<1> USE CredentialsAssumption DEF CachedByOwner, Entra!CarriesItsOwners, Entra!TokensAssumption
<1>1. ASSUME NEW c \in Calls, NEW t \in DOMAIN Fleet, Entra!Resolve(c, t)
      PROVE  CachedByOwner' /\ Entra!CarriesItsOwners'
  <2> DEFINE r == [Entra!Idle EXCEPT !.thing = t, !.scheme = Entra!SchemeOf(t), !.since = clock]
  <2>1. CASE r.scheme = None
    <3>1. asked' = [asked EXCEPT ![c] = [r EXCEPT !.at = "sent"]]
      BY <1>1, <2>1 DEF Entra!Resolve, Entra!Enter
    <3> QED BY <1>1, <3>1 DEF Entra!Resolve, Entra!Idle, Asked
  <2>2. CASE r.scheme # None /\ Entra!Hit(Entra!Key(t))
    <3> DEFINE hit == tokens[Entra!Key(t)]
    <3>1. asked' = [asked EXCEPT ![c] = [r EXCEPT !.at = "sent", !.token = hit]]
      BY <1>1, <2>2 DEF Entra!Resolve, Entra!Enter
    <3>2. hit \in Minted /\ hit.secret = Entra!SecretOf(t) /\ hit.scope = ScopeOf[Entra!SchemeOf(t)]
      BY <2>2 DEF Entra!Hit
    <3>3. hit.expires > clock + Margin
      BY <2>2, <3>2 DEF Entra!Hit, Minted
    <3> HIDE DEF hit
    <3> QED BY <1>1, <3>1, <3>2, <3>3 DEF Entra!Resolve, Entra!Idle, Asked
  <2>3. CASE r.scheme # None /\ ~Entra!Hit(Entra!Key(t))
    <3>1. asked' = [asked EXCEPT ![c] = [r EXCEPT !.at = "minting"]]
      BY <1>1, <2>3 DEF Entra!Resolve, Entra!Enter
    <3> QED BY <1>1, <3>1 DEF Entra!Resolve, Entra!Idle, Asked
  <2> QED BY <2>1, <2>2, <2>3
<1>2. ASSUME NEW c \in Calls, Entra!Mint(c) PROVE CachedByOwner' /\ Entra!CarriesItsOwners'
  <2> DEFINE t == asked[c].thing
             minted == [secret |-> Entra!SecretOf(t), scope |-> ScopeOf[asked[c].scheme],
                       expires |-> clock + Lifetime]
  <2>1. t \in DOMAIN Fleet /\ asked[c].scheme = Entra!SchemeOf(t) /\ clock' = clock
    BY <1>2 DEF Entra!Mint
  <2>2. tokens' = [k \in DOMAIN tokens \cup {Entra!Key(t)} |->
                      IF k = Entra!Key(t) THEN minted ELSE tokens[k]]
    BY <1>2 DEF Entra!Mint
  <2>3. asked' = [asked EXCEPT ![c] = [asked[c] EXCEPT !.at = "sent", !.token = minted, !.since = clock]]
    BY <1>2 DEF Entra!Mint, Entra!Enter
  <2>4. minted \in Minted /\ minted.expires > clock + Margin
    BY <2>1 DEF Minted
  <2>5. \A u \in DOMAIN Fleet : Entra!Key(u) = Entra!Key(t) => u = t
    BY DEF Entra!Key
  <2>6. CachedByOwner'
    <3>1. \A u \in DOMAIN Fleet : Entra!Key(u) \in DOMAIN tokens' =>
             tokens'[Entra!Key(u)] = IF u = t THEN minted ELSE tokens[Entra!Key(u)]
      BY <2>2, <2>5
    <3>2. \A u \in DOMAIN Fleet : u # t /\ Entra!Key(u) \in DOMAIN tokens' => Entra!Key(u) \in DOMAIN tokens
      BY <2>2, <2>5
    <3>3. minted.secret = Entra!SecretOf(t) /\ minted.scope = ScopeOf[Entra!SchemeOf(t)]
      BY <2>1
    <3> HIDE DEF minted
    <3>4. \A u \in DOMAIN Fleet : Entra!Key(u) \in DOMAIN tokens' =>
             /\ tokens'[Entra!Key(u)] \in Minted
             /\ tokens'[Entra!Key(u)].secret = Entra!SecretOf(u)
             /\ tokens'[Entra!Key(u)].scope = ScopeOf[Entra!SchemeOf(u)]
      BY <2>4, <3>1, <3>2, <3>3
    <3>5. asked' \in [Calls -> Asked]
      <4>1. asked[c] \in Asked /\ minted \in Minted
        BY <2>4
      <4>2. [asked[c] EXCEPT !.at = "sent", !.token = minted, !.since = clock] \in Asked
        BY <4>1 DEF Asked
      <4> QED BY <2>3, <4>2
    <3>6. ASSUME NEW d \in Calls, asked'[d].at = "minting"
          PROVE  asked'[d].thing \in DOMAIN Fleet /\ asked'[d].scheme = Entra!SchemeOf(asked'[d].thing)
      BY <2>3, <3>6
    <3> QED BY <2>1, <3>4, <3>5, <3>6
  <2>7. Entra!CarriesItsOwners'
    BY <2>1, <2>3, <2>4 DEF Asked
  <2> QED BY <2>6, <2>7
<1>3. ASSUME NEW c \in Calls, Entra!MintFails(c) \/ Entra!Over(c)
      PROVE  CachedByOwner' /\ Entra!CarriesItsOwners'
  BY <1>3 DEF Entra!MintFails, Entra!Over, Entra!Enter, Entra!Idle, Asked
<1>4. CASE Entra!Tick
  BY <1>4 DEF Entra!Tick
<1>5. CASE UNCHANGED Entra!vars
  BY <1>5 DEF Entra!vars
<1> QED BY <1>1, <1>2, <1>3, <1>4, <1>5 DEF Entra!Next

------------------------------------------------------------------------------
(* Where a request goes.                                                   *)

Kinds == {"request", "stream", "transfer"}
Requested == [at : {"idle", "sending", "sent"}, kind : Kinds \cup {None}, host : Pool!Hosts \cup {None},
              via : Nat \cup Calls \cup {None}, attempt : Nat, reached : Addresses \cup {None}]

PoolType ==
    /\ made \in Nat /\ pool \in 0 .. made
    /\ open \subseteq (1 .. made) \cup Calls
    /\ request \in [Calls -> Requested]
    /\ pins \in [Pool!Clients -> [Pool!Hosts -> Addresses \cup {None}]]
    /\ links \in [Pool!Clients -> [Pool!Hosts -> SUBSET Addresses]]
    /\ checked \in [Pool!Hosts -> SUBSET (Addresses \ Private)]
    /\ unpinned \in [Pool!Clients -> SUBSET Pool!Hosts]

\* A request goes through a pooled client or its own, a pooled one is never opened
\* twice, and all but a transfer have a pin for their host while their client is open.
OnItsClient(c) ==
    /\ request[c].at = "idle" => request[c].reached = None
    /\ request[c].at # "idle" =>
          /\ request[c].via = c \/ request[c].via \in 1 .. made
          /\ request[c].via \in Pool!Clients /\ request[c].host \in Pool!Hosts
          /\ request[c].kind # "transfer" /\ request[c].via \in open =>
                pins[request[c].via][request[c].host] # None

\* A pin is an address that was checked, and a connection goes to one too, or its
\* client carried a transfer to the host with no pin.
ToChecked(k, h) ==
    /\ pins[k][h] # None => pins[k][h] \in checked[h]
    /\ h \notin unpinned[k] => links[k][h] \subseteq checked[h]

Pinned ==
    /\ \A c \in Calls : OnItsClient(c)
    /\ \A k \in Pool!Clients, h \in Pool!Hosts : ToChecked(k, h)

\* The clients a request may take, and what taking one does to the others in use.
LEMMA ClientTaken ==
    ASSUME PoolType, Pinned, NEW c \in Calls, NEW k \in Pool!Clients, k \in {c, Pool!Pooled},
           Pool!Takes(k), request[c].at = "idle", open' \subseteq open \cup {k}
    PROVE  /\ made' \in Nat /\ made <= made' /\ pool' \in 0 .. made'
           /\ k = c \/ k \in 1 .. made'
           /\ open' \subseteq (1 .. made') \cup Calls
           /\ \A d \in Calls \ {c} : request[d].at # "idle" /\ request[d].via \in open' =>
                  request[d].via \in open
<1>1. Calls \cap Nat = {} /\ MaxClients \in Nat
  BY CredentialsAssumption DEF Pool!PoolAssumption
<1>2. made \in Nat /\ pool \in 0 .. made /\ open \subseteq (1 .. made) \cup Calls
  BY DEF PoolType
<1>3. CASE k = c
  <2>1. pool' = pool /\ made' = made
    BY <1>3 DEF Pool!Takes
  <2>2. \A d \in Calls \ {c} : request[d].at # "idle" => request[d].via # k
    BY <1>1, <1>2, <1>3 DEF Pinned, OnItsClient
  <2>3. made' \in Nat /\ made <= made' /\ pool' \in 0 .. made'
    BY <1>2, <2>1
  <2>4. open' \subseteq (1 .. made') \cup Calls
    BY <1>2, <1>3, <2>1
  <2> QED BY <1>3, <2>2, <2>3, <2>4
<1>4. CASE k # c
  <2>1. k = Pool!Pooled /\ k \notin Calls /\ k \in 1 .. made + 1 /\ (k \in 1 .. made => k \in open)
    BY <1>1, <1>2, <1>4 DEF Pool!Pooled, Pool!Clients
  <2>2. pool' = k /\ made' = IF k > made THEN k ELSE made
    BY <2>1 DEF Pool!Takes
  <2>3. \A d \in Calls \ {c} : request[d].at # "idle" /\ request[d].via = k => k \in open
    BY <1>1, <1>2, <2>1 DEF Pinned, OnItsClient
  <2>4. made' \in Nat /\ made <= made' /\ pool' \in 0 .. made' /\ k \in 1 .. made'
    BY <1>2, <2>1, <2>2
  <2>5. 1 .. made \subseteq 1 .. made'
    BY <1>2, <2>4
  <2>6. open' \subseteq (1 .. made') \cup Calls
    BY <1>2, <2>4, <2>5
  <2> QED BY <2>1, <2>3, <2>4, <2>6
<1> QED BY <1>3, <1>4

\* A request begins: nobody else's is touched, and a pin that is set was checked.
LEMMA RequestBegins ==
    ASSUME PoolType, Pinned, Pool!DialsWhatWasChecked,
           NEW c \in Calls, NEW k \in Pool!Clients, NEW host \in Pool!Hosts, NEW kind \in Kinds,
           k \in {c, Pool!Pooled}, Pool!Takes(k), request[c].at = "idle",
           open' \subseteq open \cup {k}, UNCHANGED <<links, unpinned>>,
           request' = [request EXCEPT ![c] = Pool!Sent(kind, host, k)],
           pins' \in [Pool!Clients -> [Pool!Hosts -> Addresses \cup {None}]],
           checked' \in [Pool!Hosts -> SUBSET (Addresses \ Private)],
           \A h \in Pool!Hosts : checked[h] \subseteq checked'[h],
           \A l \in Pool!Clients, h \in Pool!Hosts :
               pins'[l][h] = pins[l][h] \/ pins'[l][h] \in checked'[h] \ {None},
           kind # "transfer" => pins'[k][host] # None
    PROVE  PoolType' /\ Pinned' /\ Pool!DialsWhatWasChecked'
<1> DEFINE r == Pool!Sent(kind, host, k)
<1>1. /\ made' \in Nat /\ made <= made' /\ pool' \in 0 .. made'
      /\ k = c \/ k \in 1 .. made'
      /\ open' \subseteq (1 .. made') \cup Calls
      /\ \A d \in Calls \ {c} : request[d].at # "idle" /\ request[d].via \in open' =>
             request[d].via \in open
  BY ONLY PoolType, Pinned, c \in Calls, k \in Pool!Clients, k \in {c, Pool!Pooled}, Pool!Takes(k),
          request[c].at = "idle", open' \subseteq open \cup {k}, ClientTaken
<1>2. r = [at |-> "sending", kind |-> kind, host |-> host, via |-> k, attempt |-> 0, reached |-> None]
  BY DEF Pool!Sent
<1> HIDE DEF r
<1>3. r \in Requested
  <2>1. k \in Nat \cup Calls
    BY CredentialsAssumption DEF Pool!PoolAssumption, Pool!Clients
  <2> QED BY <1>2, <2>1 DEF Requested
<1>4. /\ request' \in [Calls -> Requested] /\ request'[c] = r
      /\ \A d \in Calls \ {c} : request'[d] = request[d]
  BY <1>3 DEF r, PoolType
<1>5. PoolType'
  BY <1>1, <1>4 DEF PoolType
<1>6. \A l \in Pool!Clients, h \in Pool!Hosts : ToChecked(l, h)'
  BY DEF Pinned, ToChecked
<1>7. ASSUME NEW d \in Calls PROVE OnItsClient(d)'
  <2>1. CASE d = c
    BY <1>1, <1>2, <1>4, <2>1 DEF OnItsClient
  <2>2. CASE d # c
    <3>1. OnItsClient(d) /\ request'[d] = request[d]
      BY <1>4, <2>2 DEF Pinned
    <3>2. 1 .. made \subseteq 1 .. made'
      BY <1>1 DEF PoolType
    <3>3. request[d].at # "idle" /\ request[d].kind # "transfer" /\ request[d].via \in open' =>
              pins'[request[d].via][request[d].host] # None
      BY <1>1, <2>2, <3>1 DEF OnItsClient
    <3> QED BY <3>1, <3>2, <3>3 DEF OnItsClient
  <2> QED BY <2>1, <2>2
<1>8. ASSUME NEW d \in Calls, request'[d].reached # None, request'[d].host \notin unpinned'[request'[d].via]
      PROVE  request'[d].reached \in checked'[request'[d].host]
  <2>1. d # c /\ request'[d] = request[d]
    BY <1>2, <1>4, <1>8
  <2>2. request[d].reached \in checked[request[d].host] /\ request[d].host \in Pool!Hosts
    BY <1>8, <2>1 DEF Pool!DialsWhatWasChecked, Pinned, OnItsClient
  <2> QED BY <2>1, <2>2
<1> QED BY <1>5, <1>6, <1>7, <1>8 DEF Pinned, Pool!DialsWhatWasChecked

LEMMA PoolStep ==
    PoolType /\ Pinned /\ Pool!DialsWhatWasChecked /\ [Pool!Next]_Pool!vars =>
        PoolType' /\ Pinned' /\ Pool!DialsWhatWasChecked'
<1> SUFFICES ASSUME PoolType, Pinned, Pool!DialsWhatWasChecked, [Pool!Next]_Pool!vars
             PROVE  PoolType' /\ Pinned' /\ Pool!DialsWhatWasChecked'
  OBVIOUS
<1>a. /\ Private \subseteq Addresses /\ Certified \subseteq DOMAIN HostOf
      /\ Calls \cap Nat = {} /\ MaxClients \in Nat /\ None \notin Addresses
  BY CredentialsAssumption DEF Pool!PoolAssumption
<1>b. /\ request \in [Calls -> Requested] /\ \A d \in Calls : OnItsClient(d)
      /\ \A l \in Pool!Clients, h \in Pool!Hosts : ToChecked(l, h)
  BY DEF PoolType, Pinned
<1>1. ASSUME NEW c \in Calls, NEW t \in DOMAIN HostOf, NEW kind \in {"request", "stream"},
             Pool!Send(c, t, kind)
      PROVE  PoolType' /\ Pinned' /\ Pool!DialsWhatWasChecked'
  <2>1. PICK k \in Pool!Clients, host \in Pool!Hosts :
            /\ k \in {c, Pool!Pooled} /\ Pool!Takes(k) /\ request[c].at = "idle"
            /\ open' \subseteq open \cup {k} /\ UNCHANGED <<links, closing, unpinned>>
            /\ \/ UNCHANGED <<request, pins, checked>>
               \/ \E answer \in SUBSET Addresses :
                    /\ Pool!Allowed(answer)
                    /\ request' = [request EXCEPT ![c] = Pool!Sent(kind, host, k)]
                    /\ \E a \in answer : pins' = [pins EXCEPT ![k][host] = a]
                    /\ checked' = [checked EXCEPT ![host] = @ \cup answer]
    <3> DEFINE h == HostOf[t]
               l == IF t \in Certified \/ kind = "stream" THEN c ELSE Pool!Pooled
    <3>1. /\ request[c].at = "idle" /\ l \in Pool!Clients /\ Pool!Takes(l)
          /\ h \in Pool!Hosts /\ l \in {c, Pool!Pooled} /\ UNCHANGED <<links, closing, unpinned>>
      BY <1>1 DEF Pool!Send, Pool!Hosts
    <3>2. PICK answer \in SUBSET Addresses :
            \/ /\ Pool!Allowed(answer)
               /\ request' = [request EXCEPT ![c] = Pool!Sent(kind, h, l)]
               /\ Pool!Pin(l, h, answer) /\ open' = open \cup {l}
               /\ checked' = [checked EXCEPT ![h] = @ \cup answer]
            \/ /\ open' \in {open, open \cup {l}}
               /\ UNCHANGED <<request, pins, checked>>
      BY <1>1 DEF Pool!Send
    <3> HIDE DEF h, l
    <3>3. open' \subseteq open \cup {l}
      BY <3>2
    <3>4. \/ UNCHANGED <<request, pins, checked>>
          \/ \E found \in SUBSET Addresses :
                /\ Pool!Allowed(found)
                /\ request' = [request EXCEPT ![c] = Pool!Sent(kind, h, l)]
                /\ \E a \in found : pins' = [pins EXCEPT ![l][h] = a]
                /\ checked' = [checked EXCEPT ![h] = @ \cup found]
      BY <3>2 DEF Pool!Pin
    <3> QED BY <3>1, <3>3, <3>4
  <2>2. CASE UNCHANGED <<request, pins, checked>>
    <3>1. /\ made' \in Nat /\ made <= made' /\ pool' \in 0 .. made'
          /\ open' \subseteq (1 .. made') \cup Calls
          /\ \A d \in Calls \ {c} : request[d].at # "idle" /\ request[d].via \in open' =>
                 request[d].via \in open
      BY <2>1, ClientTaken
    <3>2. PoolType'
      BY <2>1, <2>2, <3>1 DEF PoolType
    <3>3. ASSUME NEW d \in Calls PROVE OnItsClient(d)'
      BY <1>b, <2>1, <2>2, <3>1 DEF OnItsClient, PoolType
    <3>4. \A l \in Pool!Clients, h \in Pool!Hosts : ToChecked(l, h)'
      BY <1>b, <2>1, <2>2 DEF ToChecked
    <3> QED BY <2>1, <2>2, <3>2, <3>3, <3>4 DEF Pinned, Pool!DialsWhatWasChecked
  <2>3. ASSUME NEW answer \in SUBSET Addresses, Pool!Allowed(answer), NEW a \in answer,
               request' = [request EXCEPT ![c] = Pool!Sent(kind, host, k)],
               pins' = [pins EXCEPT ![k][host] = a], checked' = [checked EXCEPT ![host] = @ \cup answer]
        PROVE  PoolType' /\ Pinned' /\ Pool!DialsWhatWasChecked'
    <3>1. answer \subseteq Addresses \ Private /\ a # None /\ a \in Addresses
      BY <1>a, <2>3 DEF Pool!Allowed
    <3>2. checked' \in [Pool!Hosts -> SUBSET (Addresses \ Private)]
      BY <2>3, <3>1 DEF PoolType
    <3>3. (\A h \in Pool!Hosts : checked[h] \subseteq checked'[h]) /\ a \in checked'[host]
      BY <2>3 DEF PoolType
    <3>4. pins' \in [Pool!Clients -> [Pool!Hosts -> Addresses \cup {None}]] /\ pins'[k][host] = a
      BY <2>3, <3>1 DEF PoolType
    <3>5. \A l \in Pool!Clients, h \in Pool!Hosts :
              pins'[l][h] = pins[l][h] \/ pins'[l][h] \in checked'[h] \ {None}
      BY <2>3, <3>1, <3>3 DEF PoolType
    <3> QED BY <2>1, <2>3, <3>1, <3>2, <3>3, <3>4, <3>5, RequestBegins DEF Kinds
  <2> QED BY <2>1, <2>2, <2>3
<1>2. ASSUME NEW c \in Calls, NEW t \in DOMAIN HostOf, Pool!Follow(c, t)
      PROVE  PoolType' /\ Pinned' /\ Pool!DialsWhatWasChecked'
  <2>1. PICK k \in Pool!Clients, host \in Pool!Hosts, answer \in SUBSET (Addresses \ Private) :
            /\ k \in {c, Pool!Pooled} /\ Pool!Takes(k) /\ request[c].at = "idle"
            /\ open' \subseteq open \cup {k} /\ UNCHANGED <<pins, links, closing, unpinned>>
            /\ request' = [request EXCEPT ![c] = Pool!Sent("transfer", host, k)]
            /\ checked' = [checked EXCEPT ![host] = @ \cup answer]
    BY <1>2 DEF Pool!Follow, Pool!Hosts
  <2>2. /\ checked' \in [Pool!Hosts -> SUBSET (Addresses \ Private)]
        /\ \A h \in Pool!Hosts : checked[h] \subseteq checked'[h]
    BY <2>1 DEF PoolType
  <2>3. pins' \in [Pool!Clients -> [Pool!Hosts -> Addresses \cup {None}]] /\ "transfer" \in Kinds
    BY <2>1 DEF PoolType, Kinds
  <2> QED BY <2>1, <2>2, <2>3, RequestBegins
\* What a connection leads to: a pin or a kept connection was checked, or the client is
\* known to have carried a transfer with no pin.
<1>3. ASSUME NEW c \in Calls, Pool!Connect(c)
      PROVE  PoolType' /\ Pinned' /\ Pool!DialsWhatWasChecked'
  <2> DEFINE r == request[c]
             k == r.via
             h == r.host
  <2>1. /\ r.at = "sending" /\ k \in open /\ UNCHANGED <<made, pool, open, pins, closing, checked>>
        /\ unpinned' = IF r.kind = "transfer" /\ pins[k][h] = None
                       THEN [unpinned EXCEPT ![k] = @ \cup {h}] ELSE unpinned
    BY <1>3 DEF Pool!Connect
  <2>2. k \in Pool!Clients /\ h \in Pool!Hosts /\ (r.kind # "transfer" => pins[k][h] # None)
    BY <1>b, <2>1 DEF OnItsClient
  <2>3. PICK a \in links[k][h] \cup (IF pins[k][h] = None THEN Addresses ELSE {pins[k][h]}) :
            /\ links' = [links EXCEPT ![k][h] = @ \cup {a}]
            /\ request' = [request EXCEPT ![c] = [r EXCEPT !.at = "sent", !.reached = a]]
    BY <1>3 DEF Pool!Connect
  <2>4. a \in Addresses /\ r \in Requested
    BY <1>b, <2>2, <2>3 DEF PoolType
  <2>5. /\ unpinned' \in [Pool!Clients -> SUBSET Pool!Hosts]
        /\ \A l \in Pool!Clients : unpinned[l] \subseteq unpinned'[l]
        /\ pins[k][h] = None => h \in unpinned'[k]
    BY <2>1, <2>2 DEF PoolType
  <2>6. h \notin unpinned'[k] => a \in checked[h]
    BY <1>b, <2>2, <2>3, <2>5 DEF ToChecked
  <2> DEFINE q == [r EXCEPT !.at = "sent", !.reached = a]
  <2>7. q \in Requested /\ q.at = "sent" /\ q.reached = a /\ q.via = k /\ q.host = h /\ q.kind = r.kind
    BY <2>4 DEF Requested
  <2>8. /\ request' \in [Calls -> Requested] /\ request'[c] = q
        /\ \A d \in Calls \ {c} : request'[d] = request[d]
    BY <1>b, <2>3, <2>7
  <2>9. /\ links' \in [Pool!Clients -> [Pool!Hosts -> SUBSET Addresses]]
        /\ \A l \in Pool!Clients, g \in Pool!Hosts :
              links'[l][g] = IF l = k /\ g = h THEN links[k][h] \cup {a} ELSE links[l][g]
    BY <2>2, <2>3, <2>4 DEF PoolType
  <2> HIDE DEF r, k, h, q
  <2>10. PoolType'
    BY <2>1, <2>5, <2>8, <2>9 DEF PoolType
  <2>11. ASSUME NEW d \in Calls PROVE OnItsClient(d)'
    BY <1>b, <2>1, <2>2, <2>7, <2>8 DEF OnItsClient, r, k, h
  <2>12. ASSUME NEW l \in Pool!Clients, NEW g \in Pool!Hosts PROVE ToChecked(l, g)'
    BY <1>b, <2>1, <2>5, <2>6, <2>9 DEF ToChecked
  <2>13. ASSUME NEW d \in Calls, request'[d].reached # None,
                request'[d].host \notin unpinned'[request'[d].via]
         PROVE  request'[d].reached \in checked'[request'[d].host]
    <3>1. CASE d = c
      BY <2>1, <2>6, <2>7, <2>8, <2>13, <3>1
    <3>2. CASE d # c
      <4>1. request'[d] = request[d] /\ request[d].via \in Pool!Clients
        BY <1>b, <2>8, <2>13, <3>2 DEF OnItsClient
      <4> QED BY <2>1, <2>5, <2>13, <4>1 DEF Pool!DialsWhatWasChecked
    <3> QED BY <3>1, <3>2
  <2> QED BY <2>10, <2>11, <2>12, <2>13 DEF Pinned, Pool!DialsWhatWasChecked
<1>4. ASSUME NEW c \in Calls, Pool!Retry(c)
      PROVE  PoolType' /\ Pinned' /\ Pool!DialsWhatWasChecked'
  <2> DEFINE q == [request[c] EXCEPT !.at = "sending", !.attempt = @ + 1]
  <2>1. /\ request' = [request EXCEPT ![c] = q] /\ request[c].at = "sent"
        /\ UNCHANGED <<made, pool, open, pins, links, closing, checked, unpinned>>
    BY <1>4 DEF Pool!Retry
  <2>2. /\ q \in Requested /\ q.at = "sending" /\ q.via = request[c].via /\ q.host = request[c].host
        /\ q.reached = request[c].reached /\ q.kind = request[c].kind
    <3>1. request[c] \in Requested /\ request[c].attempt + 1 \in Nat
      BY <1>b DEF Requested
    <3> QED BY <3>1 DEF Requested
  <2> HIDE DEF q
  <2>3. /\ request' \in [Calls -> Requested] /\ request'[c] = q
        /\ \A d \in Calls \ {c} : request'[d] = request[d]
    BY <1>b, <2>1, <2>2
  <2>4. PoolType'
    BY <2>1, <2>3 DEF PoolType
  <2>5. ASSUME NEW d \in Calls PROVE OnItsClient(d)'
    BY <1>b, <2>1, <2>2, <2>3 DEF OnItsClient
  <2>6. ASSUME NEW l \in Pool!Clients, NEW g \in Pool!Hosts PROVE ToChecked(l, g)'
    BY <1>b, <2>1 DEF ToChecked
  <2>7. Pool!DialsWhatWasChecked'
    BY <2>1, <2>2, <2>3 DEF Pool!DialsWhatWasChecked
  <2> QED BY <2>4, <2>5, <2>6, <2>7 DEF Pinned
<1>5. ASSUME NEW c \in Calls, Pool!Ends(c)
      PROVE  PoolType' /\ Pinned' /\ Pool!DialsWhatWasChecked'
  <2>1. /\ request' = [request EXCEPT ![c] = Pool!Idle] /\ open' = open \ {c}
        /\ pins' = [pins EXCEPT ![c] = Pool!NoPins] /\ links' = [links EXCEPT ![c] = Pool!NoLinks]
        /\ unpinned' = [unpinned EXCEPT ![c] = {}] /\ UNCHANGED <<made, pool, closing, checked>>
    BY <1>5 DEF Pool!Ends, Pool!Over
  <2>2. Pool!Idle \in Requested /\ Pool!Idle.at = "idle" /\ Pool!Idle.reached = None
    BY DEF Pool!Idle, Requested
  <2>3. /\ request' \in [Calls -> Requested] /\ request'[c] = Pool!Idle
        /\ \A d \in Calls \ {c} : request'[d] = request[d]
    BY <1>b, <2>1, <2>2
  <2>4. c \in Pool!Clients
    BY DEF Pool!Clients
  <2>5. /\ pins' \in [Pool!Clients -> [Pool!Hosts -> Addresses \cup {None}]]
        /\ links' \in [Pool!Clients -> [Pool!Hosts -> SUBSET Addresses]]
        /\ unpinned' \in [Pool!Clients -> SUBSET Pool!Hosts]
        /\ \A l \in Pool!Clients \ {c} :
              pins'[l] = pins[l] /\ links'[l] = links[l] /\ unpinned'[l] = unpinned[l]
        /\ pins'[c] = Pool!NoPins /\ links'[c] = Pool!NoLinks
    BY <2>1, <2>4 DEF PoolType, Pool!NoPins, Pool!NoLinks
  <2>6. PoolType'
    BY <2>1, <2>3, <2>5 DEF PoolType
  \* Another request does not go through this one's client.
  <2>7. \A d \in Calls \ {c} : request[d].at # "idle" => request[d].via # c
    BY <1>a, <1>b DEF OnItsClient, PoolType
  <2>8. ASSUME NEW d \in Calls PROVE OnItsClient(d)'
    BY <1>b, <2>1, <2>2, <2>3, <2>5, <2>7 DEF OnItsClient
  <2>9. ASSUME NEW l \in Pool!Clients, NEW g \in Pool!Hosts PROVE ToChecked(l, g)'
    BY <1>b, <2>1, <2>5 DEF ToChecked, Pool!NoPins, Pool!NoLinks
  <2>10. Pool!DialsWhatWasChecked'
    BY <1>b, <2>1, <2>2, <2>3, <2>5, <2>7 DEF Pool!DialsWhatWasChecked, OnItsClient
  <2> QED BY <2>6, <2>8, <2>9, <2>10 DEF Pinned
<1>6. CASE Pool!Close
  <2>1. /\ pool \in open /\ open' = open \ {pool} /\ UNCHANGED <<request, made, pool, checked, unpinned>>
        /\ pins' = [pins EXCEPT ![pool] = Pool!NoPins] /\ links' = [links EXCEPT ![pool] = Pool!NoLinks]
    BY <1>6 DEF Pool!Close
  <2>2. /\ pins' \in [Pool!Clients -> [Pool!Hosts -> Addresses \cup {None}]]
        /\ links' \in [Pool!Clients -> [Pool!Hosts -> SUBSET Addresses]]
        /\ \A l \in Pool!Clients : \/ l # pool /\ pins'[l] = pins[l] /\ links'[l] = links[l]
                                   \/ l = pool /\ pins'[l] = Pool!NoPins /\ links'[l] = Pool!NoLinks
    BY <2>1 DEF PoolType, Pool!NoPins, Pool!NoLinks
  <2>3. PoolType'
    BY <2>1, <2>2 DEF PoolType
  <2>4. ASSUME NEW d \in Calls PROVE OnItsClient(d)'
    BY <1>b, <2>1, <2>2 DEF OnItsClient
  <2>5. ASSUME NEW l \in Pool!Clients, NEW g \in Pool!Hosts PROVE ToChecked(l, g)'
    BY <1>b, <2>1, <2>2 DEF ToChecked, Pool!NoPins, Pool!NoLinks
  <2> QED BY <2>1, <2>3, <2>4, <2>5 DEF Pinned, Pool!DialsWhatWasChecked
<1>7. CASE Pool!Closed \/ UNCHANGED Pool!vars
  <2>1. /\ UNCHANGED <<request, made, open, pins, links, checked, unpinned>>
        /\ pool' = 0 \/ pool' = pool
    BY <1>7 DEF Pool!Closed, Pool!vars
  <2> QED BY <2>1 DEF PoolType, Pinned, OnItsClient, ToChecked, Pool!DialsWhatWasChecked
<1> QED BY <1>1, <1>2, <1>3, <1>4, <1>5, <1>6, <1>7 DEF Pool!Next

\* A request carries its own Thing's token, minted with its own secret for its
\* scheme's scope, and its connection goes to an address that passed the check for
\* its own host, unless its client carried a transfer there with no pin
\* (EntraBearerAuth.get_token, resolve_and_pin).
THEOREM RequestsGoAsTheirOwners == Entra!Spec /\ Pool!Spec => []GoesOutAsItsOwners
<1> USE CredentialsAssumption DEF Entra!TokensAssumption, Pool!PoolAssumption
<1>1. Entra!Init => CachedByOwner /\ Entra!CarriesItsOwners
  BY DEF Entra!Init, Entra!Idle, CachedByOwner, Asked, Entra!CarriesItsOwners
<1>2. Pool!Init => PoolType /\ Pinned /\ Pool!DialsWhatWasChecked
  BY DEF Pool!Init, Pool!Idle, Pool!NoPins, Pool!NoLinks, PoolType, Pinned, OnItsClient, ToChecked,
         Requested, Pool!DialsWhatWasChecked
<1>3. Entra!CarriesItsOwners /\ Pool!DialsWhatWasChecked => GoesOutAsItsOwners
  BY DEF GoesOutAsItsOwners
<1> QED BY <1>1, <1>2, <1>3, CachedByOwnerStep, PoolStep, PTL DEF Entra!Spec, Pool!Spec

------------------------------------------------------------------------------
(* The keys a gateway verifies tokens with.                                *)

Validated == [at : {"new", "fetch", "forced", "refused", "accepted"}, kid : Keys \cup {NoKid},
              key : Keys \cup {Forged}, got : SUBSET Keys, since : Nat, done : Int]

\* How long ago a key of this set may have been withdrawn.
Lapsed(keys, since) == \A k \in keys : retired[k] # Never => retired[k] >= since

\* An answer under way was given since its fetch began, and a token was accepted
\* with a key that was withdrawn since, or not long before.
Timely(r) ==
    /\ r.at \in {"fetch", "forced"} =>
         r.since <= now /\ now <= r.since + Timeout /\ Lapsed(r.got, r.since)
    /\ r.at = "accepted" =>
         /\ r.key \in Keys /\ r.done <= now
         /\ retired[r.key] # Never => r.done - retired[r.key] < Ttl + Timeout

KeysInTime ==
    /\ now \in Nat /\ published \subseteq Keys /\ jwks \subseteq Keys
    /\ fetchedAt \in Int /\ fetchedAt <= now /\ retired \in [Keys -> Int]
    /\ \A k \in Keys : /\ retired[k] # Never => 0 <= retired[k] /\ retired[k] <= now
                       /\ k \in published => retired[k] = Never
    /\ Lapsed(jwks, fetchedAt - Timeout)
    /\ token \in [Tokens -> Validated] /\ \A t \in Tokens : Timely(token[t])

LEMMA FreshIsValid == /\ Fresh \in Validated /\ Refused \in Validated /\ Never \in Int
                      /\ Fresh.at = "new" /\ Refused.at = "refused" /\ Fresh.got = NoKeys
<1>1. Never \in Int
  BY SigningKeysAssumption DEF Never
<1> QED BY <1>1 DEF Fresh, Refused, Validated, NoKeys

\* What decoding makes of a token, with a set none of whose keys lapsed too long ago.
LEMMA DecodedInTime ==
    ASSUME now \in Nat, retired \in [Keys -> Int], NEW r \in Validated, NEW keys \in SUBSET Keys,
           \A k \in keys : retired[k] # Never => now - retired[k] < Ttl + Timeout
    PROVE  Decoded(r, keys) \in Validated /\ Timely(Decoded(r, keys))
<1> USE SigningKeysAssumption, FreshIsValid DEF Timely
<1>1. CASE r.key \in Matching(keys, r.kid)
  <2>1. Decoded(r, keys) = [at |-> "accepted", kid |-> NoKid, key |-> r.key, got |-> {},
                            since |-> 0, done |-> now]
    BY <1>1 DEF Decoded, Refused, Fresh, NoKeys
  <2>2. r.key \in keys
    BY <1>1 DEF Matching
  <2> QED BY <2>1, <2>2 DEF Validated
<1>2. CASE r.key \notin Matching(keys, r.kid)
  BY <1>2 DEF Decoded
<1> QED BY <1>1, <1>2

\* The same of what follows a key set: the token is decoded, refused or waits again.
LEMMA VerifiedInTime ==
    ASSUME now \in Nat, retired \in [Keys -> Int], token \in [Tokens -> Validated],
           NEW t \in Tokens, NEW r \in Validated, NEW keys \in SUBSET Keys, r.got = NoKeys,
           \A k \in keys : retired[k] # Never => now - retired[k] < Ttl + Timeout,
           Verify(t, r, keys)
    PROVE  \E q \in Validated : Timely(q) /\ token' = [token EXCEPT ![t] = q]
<1>1. CASE token' = [token EXCEPT ![t] = Decoded(r, keys)]
  BY <1>1, DecodedInTime
<1>2. CASE token' = [token EXCEPT ![t] = Refused]
  BY <1>2, FreshIsValid DEF Timely
<1>3. CASE token' = [token EXCEPT ![t] = [r EXCEPT !.at = "forced", !.since = now]]
  <2> DEFINE q == [r EXCEPT !.at = "forced", !.since = now]
  <2>1. q \in Validated
    BY DEF Validated
  <2>2. q.at = "forced" /\ q.since = now /\ q.got = NoKeys
    BY DEF Validated
  <2> HIDE DEF q
  <2>3. Timely(q)
    BY <2>2, SigningKeysAssumption DEF Timely, Lapsed, NoKeys
  <2> QED BY <1>3, <2>1, <2>3 DEF q
<1> QED BY <1>1, <1>2, <1>3 DEF Verify

LEMMA KeysStep == KeysInTime /\ [Next]_vars => KeysInTime'
<1> SUFFICES ASSUME KeysInTime, [Next]_vars PROVE KeysInTime'
  OBVIOUS
<1> USE SigningKeysAssumption DEF KeysInTime
<1>0. ASSUME NEW t \in Tokens, NEW q \in Validated, token' = [token EXCEPT ![t] = q],
             Timely(q), UNCHANGED <<now, retired>>
      PROVE  token' \in [Tokens -> Validated] /\ \A u \in Tokens : Timely(token[u])'
  BY <1>0 DEF Timely, Lapsed
<1>1. ASSUME NEW t \in Tokens, NEW kid \in Keys \cup {NoKid}, NEW key \in Keys \cup {Forged},
             Present(t, kid, key)
      PROVE  KeysInTime'
  <2> DEFINE r == [Fresh EXCEPT !.kid = kid, !.key = key, !.since = now]
  <2>1. r \in Validated /\ r.got = NoKeys
    BY FreshIsValid DEF Validated
  <2>2. UNCHANGED <<now, published, retired, jwks, fetchedAt>>
    BY <1>1 DEF Present
  <2>3. \E q \in Validated : Timely(q) /\ token' = [token EXCEPT ![t] = q]
    <3>1. CASE CacheIsFresh
      <4>1. Verify(t, r, jwks)
        BY <1>1, <3>1 DEF Present
      <4>2. \A k \in jwks : retired[k] # Never => now - retired[k] < Ttl + Timeout
        BY <3>1 DEF CacheIsFresh, Lapsed
      <4> QED BY <2>1, <4>1, <4>2, VerifiedInTime
    <3>2. CASE ~CacheIsFresh
      <4> DEFINE q == [r EXCEPT !.at = "fetch"]
      <4>1. token' = [token EXCEPT ![t] = q]
        BY <1>1, <3>2 DEF Present
      <4>2. q \in Validated
        BY <2>1 DEF Validated
      <4>3. q.at = "fetch" /\ q.since = now /\ q.got = NoKeys
        BY FreshIsValid DEF Validated
      <4> HIDE DEF q
      <4>4. Timely(q)
        BY <4>3 DEF Timely, Lapsed, NoKeys
      <4> QED BY <4>1, <4>2, <4>4
    <3> QED BY <3>1, <3>2
  <2> QED BY <2>2, <2>3, <1>0 DEF Lapsed
<1>2. ASSUME NEW t \in Tokens, Answers(t) PROVE KeysInTime'
  <2> DEFINE q == [token[t] EXCEPT !.got = published]
  <2>1. token' = [token EXCEPT ![t] = q] /\ UNCHANGED <<now, published, retired, jwks, fetchedAt>>
    BY <1>2 DEF Answers
  <2>2. q \in Validated /\ q.at = token[t].at /\ q.since = token[t].since /\ q.got = published
    BY DEF Validated
  <2> HIDE DEF q
  <2>3. Timely(q)
    BY <1>2, <2>2 DEF Answers, Fetching, Timely, Lapsed
  <2> QED BY <2>1, <2>2, <2>3, <1>0 DEF Lapsed
<1>3. ASSUME NEW t \in Tokens, Arrives(t) PROVE KeysInTime'
  <2> DEFINE r == [token[t] EXCEPT !.got = NoKeys]
             keys == token[t].got
  <2>1. r \in Validated /\ keys \in SUBSET Keys /\ r.got = NoKeys /\ r.at = token[t].at
    BY DEF Validated, NoKeys
  <2>2. jwks' = keys /\ fetchedAt' = now /\ UNCHANGED <<now, published, retired>>
    BY <1>3 DEF Arrives
  <2>3. Lapsed(keys, now - Timeout)
    BY <1>3 DEF Arrives, Fetching, Timely, Lapsed, Validated
  <2>4. \A k \in keys : retired[k] # Never => now - retired[k] < Ttl + Timeout
    BY <2>1, <2>3 DEF Lapsed
  <2>5. \/ token' = [token EXCEPT ![t] = Decoded(r, keys)]
        \/ Verify(t, r, keys)
    BY <1>3 DEF Arrives
  <2> HIDE DEF r, keys
  <2>6. \E q \in Validated : Timely(q) /\ token' = [token EXCEPT ![t] = q]
    BY <2>1, <2>4, <2>5, DecodedInTime, VerifiedInTime
  <2>7. Lapsed(jwks, fetchedAt - Timeout)'
    BY <2>2, <2>3 DEF Lapsed
  <2>8. token' \in [Tokens -> Validated] /\ \A u \in Tokens : Timely(token[u])'
    BY <2>2, <2>6, <1>0
  <2> QED BY <2>1, <2>2, <2>7, <2>8
<1>4. ASSUME NEW t \in Tokens, FetchFails(t) PROVE KeysInTime'
  <2>1. Refused \in Validated /\ Timely(Refused)
    BY FreshIsValid DEF Timely
  <2> QED BY <1>4, <2>1, <1>0 DEF FetchFails, Lapsed
<1>5. ASSUME NEW k \in Keys, Publish(k) PROVE KeysInTime'
  BY <1>5 DEF Publish, Timely, Lapsed
<1>6. ASSUME NEW k \in Keys, Withdraw(k) PROVE KeysInTime'
  <2>1. retired' = [retired EXCEPT ![k] = now] /\ published' = published \ {k}
        /\ UNCHANGED <<now, jwks, fetchedAt, token>>
    BY <1>6 DEF Withdraw
  <2>2. \A t \in Tokens : Timely(token[t])'
    BY <2>1 DEF Timely, Lapsed, Validated
  <2> QED BY <2>1, <2>2 DEF Lapsed, Never
<1>7. CASE Tick
  <2>1. \A t \in Tokens : Timely(token[t])'
    BY <1>7 DEF Tick, Fetching, Timely, Lapsed, Validated
  <2> QED BY <1>7, <2>1 DEF Tick, Lapsed
<1>8. CASE UNCHANGED vars
  BY <1>8 DEF vars, Timely, Lapsed
<1> QED BY <1>1, <1>2, <1>3, <1>4, <1>5, <1>6, <1>7, <1>8 DEF Next

\* No token has been verified at first, and no key withdrawn.
LEMMA KeysInit == Init => KeysInTime
BY SigningKeysAssumption DEF Init, Fresh, KeysInTime, Timely, Lapsed, Validated, Never, NoKeys

\* A key the provider has withdrawn verifies tokens no longer than the cache may be
\* old plus the time one answer was under way, in whatever order overlapping fetches
\* come back (JwtGatewayGuard._signing_key).
THEOREM WithdrawnKeysLapse == Spec => []RetiredKeysLapse
<1>2. KeysInTime => RetiredKeysLapse
  BY DEF KeysInTime, Timely, RetiredKeysLapse
<1> QED BY <1>2, KeysInit, KeysStep, PTL DEF Spec

------------------------------------------------------------------------------
(* The refresh token a client keeps.                                       *)

Called == [at : {"idle", "asking", "consent", "connected", "sent", "answered"},
           owner : Client!Owners \cup {""}, refresh : Nat, rotated : Nat,
           method : {"", "basic", "post"}, since : Nat]

\* Tokens are numbered in the order they are issued; one that was rotated in is with
\* a call of its Thing's, whose answer is not yet stored.
TokensNumbered ==
    /\ now \in Nat /\ issued \in Nat
    /\ store \in [Things -> 0 .. issued] /\ live \in [Things -> SUBSET (1 .. issued)]
    /\ call \in [Calls -> Called]
    /\ \A c \in Calls :
          /\ call[c].refresh <= issued /\ call[c].rotated <= issued
          /\ call[c].at \in {"asking", "consent", "connected"} => call[c].owner \in Things
          /\ call[c].rotated # 0 => call[c].at = "answered" /\ call[c].owner \in Things

\* A token that is on its way is honoured, and nobody else has it: neither the store
\* nor another call can be showing it to the provider, which would rotate it away.
OneHolder ==
    \A c \in Calls : call[c].rotated # 0 =>
        /\ call[c].rotated \in live[call[c].owner] /\ store[call[c].owner] # call[c].rotated
        /\ \A d \in Calls \ {c} : call[d].owner = call[c].owner =>
              call[d].refresh # call[c].rotated /\ call[d].rotated # call[c].rotated

Kept == TokensNumbered /\ OneHolder /\ Client!StoreIsLive

LEMMA KeptStep == Kept /\ [Client!Next]_Client!vars => Kept'
<1> SUFFICES ASSUME Kept, [Client!Next]_Client!vars PROVE Kept'
  OBVIOUS
<1> USE DEF Client!HasToken, Client!NoToken
<1>a. TokensNumbered /\ OneHolder /\ Client!StoreIsLive
  BY DEF Kept
<1>b. /\ call \in [Calls -> Called] /\ issued \in Nat
      /\ \A c \in Calls : call[c].refresh \in 0 .. issued /\ call[c].rotated \in 0 .. issued
  <2>1. \A c \in Calls : call[c] \in Called
    BY <1>a DEF TokensNumbered
  <2>2. \A c \in Calls : call[c].refresh \in Nat /\ call[c].rotated \in Nat
    BY <2>1 DEF Called
  <2> QED BY <1>a, <2>2 DEF TokensNumbered
<1>0. Client!Idle \in Called /\ Client!Idle.at = "idle" /\ Client!Idle.refresh = 0 /\ Client!Idle.rotated = 0
  BY DEF Client!Idle, Called
\* A call that carries no token of its own, and shows at most the stored one.
<1>1. ASSUME NEW c \in Calls, NEW q \in Called, call' = [call EXCEPT ![c] = q],
             call[c].rotated = 0, q.rotated = 0,
             \/ q.refresh = 0
             \/ q.owner \in Things /\ q.refresh = store[q.owner]
             \/ q.refresh = call[c].refresh /\ q.owner = call[c].owner,
             q.at \in {"asking", "consent", "connected"} => q.owner \in Things,
             UNCHANGED <<now, issued, store, live, lost>>
      PROVE  Kept'
  <2>1. TokensNumbered'
    BY <1>a, <1>1 DEF TokensNumbered
  <2>2. OneHolder'
    BY <1>a, <1>1 DEF TokensNumbered, OneHolder
  <2>3. Client!StoreIsLive'
    BY <1>a, <1>1 DEF Client!StoreIsLive, TokensNumbered
  <2> QED BY <2>1, <2>2, <2>3 DEF Kept
<1>2. ASSUME NEW c \in Calls, NEW o \in Client!Owners, Client!ResolveWith(c, o),
             call[c].rotated = 0, UNCHANGED <<now, issued, store, live, lost>>
      PROVE  Kept'
  <2>1. CASE call' = [call EXCEPT ![c] = Client!Idle]
    BY <1>0, <1>1, <1>2, <2>1
  <2>2. CASE o \in Things /\ call' = [call EXCEPT ![c] =
                [Client!Idle EXCEPT !.at = "sent", !.owner = o, !.refresh = store[o], !.since = now]]
    <3> DEFINE q == [Client!Idle EXCEPT !.at = "sent", !.owner = o, !.refresh = store[o], !.since = now]
    <3>1. store[o] \in Nat /\ now \in Nat
      BY <1>a, <2>2 DEF TokensNumbered
    <3>2. q \in Called
      BY <1>0, <3>1 DEF Called
    <3>3. q.at = "sent" /\ q.owner = o /\ q.refresh = store[o] /\ q.rotated = 0
      BY DEF Client!Idle
    <3> HIDE DEF q
    <3> QED BY <1>1, <1>2, <2>2, <3>2, <3>3 DEF q
  <2>3. ASSUME NEW m \in {"basic", "post"}, call' = [call EXCEPT ![c] =
                [Client!Idle EXCEPT !.at = "sent", !.owner = o, !.since = now, !.method = m]]
        PROVE  Kept'
    <3> DEFINE q == [Client!Idle EXCEPT !.at = "sent", !.owner = o, !.since = now, !.method = m]
    <3>1. now \in Nat
      BY <1>a DEF TokensNumbered
    <3>2. q \in Called
      BY <1>0, <3>1 DEF Called
    <3>3. q.at = "sent" /\ q.refresh = 0 /\ q.rotated = 0
      BY DEF Client!Idle
    <3> HIDE DEF q
    <3> QED BY <1>1, <1>2, <2>3, <3>2, <3>3 DEF q
  <2> QED BY <1>2, <2>1, <2>2, <2>3 DEF Client!ResolveWith
<1>3. ASSUME NEW c \in Calls, NEW o \in Client!Owners, Client!Begin(c, o) PROVE Kept'
  <2>1. call[c].rotated = 0 /\ UNCHANGED <<now, issued, store, live, lost>>
    BY <1>a, <1>3 DEF Client!Begin, TokensNumbered
  <2>2. CASE Client!ResolveWith(c, o)
    BY <1>2, <2>1, <2>2
  <2>3. CASE o \in Things /\ call' = [call EXCEPT ![c] = [Client!Idle EXCEPT !.at = "asking", !.owner = o]]
    <3> DEFINE q == [Client!Idle EXCEPT !.at = "asking", !.owner = o]
    <3>1. q \in Called /\ q.owner = o /\ q.refresh = 0 /\ q.rotated = 0
      BY <1>0 DEF Called
    <3> HIDE DEF q
    <3> QED BY <1>1, <2>1, <2>3, <3>1 DEF q
  <2> QED BY <1>3, <2>2, <2>3 DEF Client!Begin
<1>4. ASSUME NEW c \in Calls, Client!NotAccepted(c) \/ Client!Accepted(c) \/ Client!ConsentFails(c)
      PROVE Kept'
  <2>1. /\ call[c].rotated = 0 /\ UNCHANGED <<now, issued, store, live, lost>>
        /\ call[c].at \in {"asking", "consent"} /\ call[c].owner \in Things
    BY <1>a, <1>4 DEF Client!NotAccepted, Client!Accepted, Client!ConsentFails, TokensNumbered
  <2>2. CASE call' = [call EXCEPT ![c] = Client!Idle]
    BY <1>0, <1>1, <2>1, <2>2
  <2>3. CASE call' = [call EXCEPT ![c].at = "consent"]
    <3> DEFINE q == [call[c] EXCEPT !.at = "consent"]
    <3>1. call[c] \in Called
      BY <1>a DEF TokensNumbered
    <3>2. /\ q \in Called /\ q.owner = call[c].owner /\ q.refresh = call[c].refresh
          /\ q.rotated = call[c].rotated
      BY <3>1 DEF Called
    <3>3. call' = [call EXCEPT ![c] = q]
      BY <2>3
    <3> HIDE DEF q
    <3> QED BY <1>1, <2>1, <3>2, <3>3
  <2> QED BY <1>4, <2>2, <2>3 DEF Client!NotAccepted, Client!Accepted, Client!ConsentFails
\* A new token is stored: every other one has a smaller number.
<1>5. ASSUME NEW o \in Things, Client!Consent(o), lost' = lost \ {o}, now' = now,
             \/ call' = call
             \/ \E c \in Calls : call[c].at = "consent" /\ call' = [call EXCEPT ![c].at = "connected"]
      PROVE  Kept'
  <2>1. /\ issued' = issued + 1 /\ live' = [live EXCEPT ![o] = @ \cup {issued + 1}]
        /\ store' = [store EXCEPT ![o] = issued + 1]
    BY <1>5 DEF Client!Consent
  <2>2. /\ call' \in [Calls -> Called]
        /\ \A c \in Calls :
              /\ call'[c].owner = call[c].owner /\ call'[c].refresh = call[c].refresh
              /\ call'[c].rotated = call[c].rotated
              /\ call'[c].at = call[c].at \/ (call[c].at = "consent" /\ call'[c].at = "connected")
    <3>1. CASE call' = call
      BY <1>a, <3>1 DEF TokensNumbered
    <3>2. ASSUME NEW c \in Calls, call[c].at = "consent", call' = [call EXCEPT ![c].at = "connected"]
          PROVE  /\ call' \in [Calls -> Called]
                 /\ \A d \in Calls : d # c => call'[d] = call[d]
                 /\ call'[c].owner = call[c].owner /\ call'[c].refresh = call[c].refresh
                 /\ call'[c].rotated = call[c].rotated /\ call'[c].at = "connected"
      <4>1. call[c] \in Called /\ call \in [Calls -> Called]
        BY <1>a DEF TokensNumbered
      <4> DEFINE q == [call[c] EXCEPT !.at = "connected"]
      <4>2. /\ q \in Called /\ q.owner = call[c].owner /\ q.refresh = call[c].refresh
            /\ q.rotated = call[c].rotated /\ q.at = "connected"
        BY <4>1 DEF Called
      <4>3. call' = [call EXCEPT ![c] = q]
        BY <3>2
      <4> HIDE DEF q
      <4> QED BY <4>1, <4>2, <4>3
    <3> QED BY <1>5, <3>1, <3>2
  <2>3. TokensNumbered'
    <3>1. /\ issued' \in Nat /\ store' \in [Things -> 0 .. issued']
          /\ live' \in [Things -> SUBSET (1 .. issued')]
      BY <1>a, <2>1 DEF TokensNumbered
    <3>2. \A c \in Calls : call'[c].refresh <= issued' /\ call'[c].rotated <= issued'
      BY <1>b, <2>1, <2>2
    <3> QED BY <1>a, <1>5, <2>1, <2>2, <3>1, <3>2 DEF TokensNumbered
  <2>4. OneHolder'
    BY <1>a, <2>1, <2>2 DEF TokensNumbered, OneHolder
  <2>5. Client!StoreIsLive'
    BY <1>a, <1>5, <2>1, <2>2 DEF TokensNumbered, Client!StoreIsLive
  <2> QED BY <2>3, <2>4, <2>5 DEF Kept
<1>6. ASSUME NEW c \in Calls, Client!Resolve(c) PROVE Kept'
  <2>1. call[c].rotated = 0 /\ call[c].owner \in Client!Owners
    BY <1>a, <1>6 DEF Client!Resolve, TokensNumbered, Client!Owners
  <2> QED BY <1>2, <1>6, <2>1 DEF Client!Resolve
\* The provider drops the token it was shown, which nobody else carries.
<1>7. ASSUME NEW c \in Calls, Client!Mints(c) PROVE Kept'
  <2> DEFINE o == call[c].owner
  <2>1. /\ call[c].at = "sent" /\ call[c].rotated = 0 /\ call[c] \in Called
        /\ UNCHANGED <<now, store, lost>>
    BY <1>a, <1>7 DEF Client!Mints, TokensNumbered
  <2>2. CASE call' = [call EXCEPT ![c].at = "answered"] /\ UNCHANGED <<live, issued>>
    <3> DEFINE q == [call[c] EXCEPT !.at = "answered"]
    <3>1. /\ q \in Called /\ q.owner = o /\ q.refresh = call[c].refresh
          /\ q.rotated = 0 /\ q.at = "answered"
      BY <2>1 DEF Called
    <3>2. call' = [call EXCEPT ![c] = q]
      BY <2>2
    <3> HIDE DEF q
    <3> QED BY <1>1, <2>1, <2>2, <3>1, <3>2
  <2>3. CASE /\ o \in Things /\ issued' = issued + 1
             /\ live' = [live EXCEPT ![o] = (@ \ {call[c].refresh}) \cup {issued + 1}]
             /\ call' = [call EXCEPT ![c].at = "answered", ![c].rotated = issued + 1]
    <3>1. issued + 1 \in Nat
      BY <1>a DEF TokensNumbered
    <3>2. call' \in [Calls -> Called]
      <4>1. [call[c] EXCEPT !.at = "answered", !.rotated = issued + 1] \in Called
        BY <2>1, <3>1 DEF Called
      <4>2. call' = [call EXCEPT ![c] = [call[c] EXCEPT !.at = "answered", !.rotated = issued + 1]]
        BY <2>3
      <4> QED BY <1>a, <4>1, <4>2 DEF TokensNumbered
    <3>3. /\ call'[c].at = "answered" /\ call'[c].rotated = issued + 1 /\ call'[c].owner = o
          /\ call'[c].refresh = call[c].refresh
          /\ \A d \in Calls \ {c} : call'[d] = call[d]
      BY <1>a, <2>1, <2>3 DEF TokensNumbered, Called
    <3>4. TokensNumbered'
      <4>1. /\ issued' \in Nat /\ store' \in [Things -> 0 .. issued']
            /\ live' \in [Things -> SUBSET (1 .. issued')]
        BY <1>a, <2>1, <2>3 DEF TokensNumbered
      <4>2. \A d \in Calls : call'[d].refresh <= issued' /\ call'[d].rotated <= issued'
        BY <1>b, <2>1, <2>3, <3>3
      <4> QED BY <1>a, <2>1, <2>3, <3>2, <3>3, <4>1, <4>2 DEF TokensNumbered
    <3>5. OneHolder'
      BY <1>a, <2>1, <2>3, <3>3 DEF TokensNumbered, OneHolder
    <3>6. Client!StoreIsLive'
      BY <1>a, <2>1, <2>3, <3>3 DEF TokensNumbered, Client!StoreIsLive
    <3> QED BY <3>4, <3>5, <3>6 DEF Kept
  <2> QED BY <1>7, <2>2, <2>3 DEF Client!Mints
<1>8. ASSUME NEW c \in Calls, Client!TriesNext(c) PROVE Kept'
  <2> DEFINE q == [call[c] EXCEPT !.method = "post", !.since = now]
  <2>1. /\ call[c].rotated = 0 /\ call[c].at = "sent" /\ call[c] \in Called /\ now \in Nat
        /\ UNCHANGED <<now, issued, store, live, lost>>
    BY <1>a, <1>8 DEF Client!TriesNext, TokensNumbered
  <2>2. call' = [call EXCEPT ![c] = q]
    BY <1>8 DEF Client!TriesNext
  <2>3. /\ q \in Called /\ q.owner = call[c].owner /\ q.refresh = call[c].refresh
        /\ q.rotated = 0 /\ q.at = "sent"
    BY <2>1 DEF Called
  <2> HIDE DEF q
  <2> QED BY <1>1, <2>1, <2>2, <2>3
<1>9. ASSUME NEW c \in Calls, Client!Answer(c) PROVE Kept'
  <2>1. /\ call' = [call EXCEPT ![c] = Client!Idle] /\ UNCHANGED <<now, live, issued, lost>>
        /\ store' = IF call[c].rotated # 0 THEN [store EXCEPT ![call[c].owner] = call[c].rotated]
                    ELSE store
    BY <1>9 DEF Client!Answer
  <2>2. CASE call[c].rotated = 0
    BY <1>0, <1>1, <2>1, <2>2
  <2>3. CASE call[c].rotated # 0
    <3>1. TokensNumbered'
      <4>1. call' \in [Calls -> Called] /\ \A d \in Calls : call'[d] \in {call[d], Client!Idle}
        BY <1>a, <1>0, <2>1 DEF TokensNumbered
      <4>2. call[c].owner \in Things /\ call[c].rotated \in 0 .. issued
        BY <1>a, <1>b, <2>3 DEF TokensNumbered
      <4>3. store' \in [Things -> 0 .. issued']
        BY <1>a, <2>1, <4>2 DEF TokensNumbered
      <4> QED BY <1>a, <1>0, <2>1, <4>1, <4>3 DEF TokensNumbered
    <3>2. OneHolder'
      BY <1>a, <1>0, <2>1, <2>3 DEF TokensNumbered, OneHolder
    <3>3. Client!StoreIsLive'
      BY <1>a, <1>0, <2>1, <2>3 DEF TokensNumbered, OneHolder, Client!StoreIsLive
    <3> QED BY <3>1, <3>2, <3>3 DEF Kept
  <2> QED BY <2>2, <2>3
<1>10. ASSUME NEW c \in Calls, Client!Fails(c) PROVE Kept'
  <2>1. /\ call' = [call EXCEPT ![c] = Client!Idle] /\ UNCHANGED <<now, store, live, issued>>
        /\ lost' = IF call[c].rotated # 0 THEN lost \cup {call[c].owner} ELSE lost
    BY <1>10 DEF Client!Fails
  <2>2. TokensNumbered' /\ OneHolder'
    BY <1>a, <1>0, <2>1 DEF TokensNumbered, OneHolder
  <2>3. Client!StoreIsLive'
    BY <1>a, <1>0, <2>1 DEF TokensNumbered, Client!StoreIsLive
  <2> QED BY <2>2, <2>3 DEF Kept
<1>11. CASE Client!Restart
  <2>1. /\ call' = [c \in Calls |-> Client!Idle] /\ UNCHANGED <<now, store, live, issued>>
        /\ lost' = lost \cup {o \in Things : \E c \in Calls :
                /\ call[c].owner = o /\ call[c].at = "answered" /\ call[c].rotated # 0}
    BY <1>11 DEF Client!Restart
  <2>2. TokensNumbered' /\ OneHolder'
    BY <1>a, <1>0, <2>1 DEF TokensNumbered, OneHolder
  <2>3. Client!StoreIsLive'
    BY <1>a, <2>1 DEF Client!StoreIsLive
  <2> QED BY <2>2, <2>3 DEF Kept
<1>12. CASE Client!Tick
  BY <1>a, <1>12 DEF Kept, Client!Tick, TokensNumbered, OneHolder, Client!StoreIsLive
<1>13. CASE UNCHANGED Client!vars
  BY <1>a, <1>13 DEF Kept, Client!vars, TokensNumbered, OneHolder, Client!StoreIsLive
<1>14. ASSUME NEW o \in Things, Client!Login(o) PROVE Kept'
  BY <1>5, <1>14 DEF Client!Login
<1>15. ASSUME NEW c \in Calls, Client!BridgeLogin(c) PROVE Kept'
  BY <1>a, <1>5, <1>15 DEF Client!BridgeLogin, TokensNumbered
<1> QED BY <1>3, <1>4, <1>6, <1>7, <1>8, <1>9, <1>10, <1>11, <1>12, <1>13, <1>14, <1>15
        DEF Client!Next

\* Nobody holds a token at first.
LEMMA KeptInit == Client!Init => Kept
<1> SUFFICES ASSUME Client!Init PROVE Kept
  OBVIOUS
<1>1. Client!Idle \in Called /\ Client!Idle.at = "idle" /\ Client!Idle.refresh = 0 /\ Client!Idle.rotated = 0
  BY DEF Client!Idle, Called, Client!NoToken
<1>2. TokensNumbered
  BY <1>1 DEF Client!Init, TokensNumbered, Client!NoToken
<1>3. OneHolder /\ Client!StoreIsLive
  BY <1>1 DEF Client!Init, OneHolder, Client!StoreIsLive, Client!HasToken, Client!NoToken
<1> QED BY <1>2, <1>3 DEF Kept

\* One consent is enough: unless an answer was lost between the provider and the
\* store, the stored refresh token is one the provider honours whenever no rotated one
\* is on its way (OAuth2CodeFlow.resolve, FileTokenStore).
THEOREM OneConsentIsEnough == Client!Spec => []StoreIsLive
<1>2. Kept => StoreIsLive
  BY DEF Kept, StoreIsLive
<1> QED BY <1>2, KeptInit, KeptStep, PTL DEF Client!Spec

------------------------------------------------------------------------------
(* The parts together.                                                     *)

\* A behaviour of all is a behaviour of each part that has state of its own alone.
LEMMA EachPartAsItself == PartsSpec => Entra!Spec /\ Pool!Spec /\ Bridge!Spec
<1>1. PartsInit => Entra!Init /\ Pool!Init /\ Bridge!Init
  BY DEF PartsInit, OneDeployment
<1>2. [PartsNext]_<<part, vars, clientVars, tokenVars, poolVars, serverVars>> =>
          [Entra!Next]_(Entra!vars) /\ [Pool!Next]_(Pool!vars) /\ [Bridge!Next]_(Bridge!vars)
  <2>1. /\ UNCHANGED tokenVars => UNCHANGED Entra!vars
        /\ UNCHANGED poolVars => UNCHANGED Pool!vars
        /\ UNCHANGED serverVars => UNCHANGED Bridge!vars
    BY DEF tokenVars, poolVars, serverVars, Entra!vars, Pool!vars, Bridge!vars
  <2>2. PartsNext =>
            \/ UNCHANGED <<tokenVars, poolVars, serverVars>>
            \/ Entra!Next /\ UNCHANGED <<poolVars, serverVars>>
            \/ Pool!Next /\ UNCHANGED <<tokenVars, serverVars>>
            \/ Bridge!Next /\ UNCHANGED <<tokenVars, poolVars>>
    BY DEF PartsNext
  <2> QED BY <2>1, <2>2
<1> QED BY <1>1, <1>2, PTL DEF PartsSpec, Entra!Spec, Pool!Spec, Bridge!Spec

\* Keys and refresh tokens share a clock: who does not run has not begun.
OneClock ==
    /\ IF part = "gateway" THEN KeysInTime ELSE token = [t \in Tokens |-> Fresh]
    /\ IF part = "client" THEN Kept ELSE StoreIsLive

\* The clock of one is nothing to the other.
LEMMA ClockStep ==
    ASSUME OneClock, [PartsNext]_<<part, vars, clientVars, tokenVars, poolVars, serverVars>>
    PROVE  OneClock'
<1>1. /\ UNCHANGED <<now, gatewayVars>> => UNCHANGED vars
      /\ UNCHANGED vars => UNCHANGED now /\ UNCHANGED gatewayVars
      /\ UNCHANGED <<now, clientVars>> => UNCHANGED Client!vars
      /\ UNCHANGED gatewayVars => UNCHANGED token
  BY DEF vars, gatewayVars, clientVars, Client!vars
<1>2. UNCHANGED clientVars /\ StoreIsLive => StoreIsLive'
  BY DEF clientVars, StoreIsLive, Client!StoreIsLive, Client!HasToken
<1>3. part' = part
  BY DEF PartsNext
<1>4. CASE part = "gateway"
  <2>1. [Next]_vars /\ UNCHANGED clientVars
    BY <1>1, <1>4 DEF PartsNext
  <2>2. KeysInTime'
    BY <1>4, <2>1, KeysStep DEF OneClock
  <2> QED BY <1>2, <1>3, <1>4, <2>1, <2>2 DEF OneClock
<1>5. CASE part = "client"
  <2>1. [Client!Next]_(Client!vars) /\ UNCHANGED gatewayVars
    BY <1>1, <1>5 DEF PartsNext
  <2>2. Kept'
    BY <1>5, <2>1, KeptStep DEF OneClock
  <2> QED BY <1>1, <1>3, <1>5, <2>1, <2>2 DEF OneClock
<1>6. CASE part \notin {"gateway", "client"}
  <2>1. UNCHANGED gatewayVars /\ UNCHANGED clientVars
    BY <1>1, <1>6 DEF PartsNext
  <2> QED BY <1>1, <1>2, <1>3, <1>6, <2>1 DEF OneClock
<1> QED BY <1>4, <1>5, <1>6

\* The life of a credential from end to end, whichever of its parts is at work: a
\* withdrawn key lapses, one consent is enough, a request goes out as its owner's
\* and to a checked address but for what transfers leave, and a served call runs within
\* the posture, for its caller where its caller decides.
THEOREM CredentialsKeepTheirWord ==
    PartsSpec => /\ []RetiredKeysLapse /\ []StoreIsLive
                 /\ []GoesOutAsItsOwners /\ []ServedForItsCaller
<1>1. PartsInit => OneClock
  <2>1. Init => KeysInTime /\ token = [t \in Tokens |-> Fresh]
    BY KeysInit DEF Init
  <2>2. Client!Init => Kept /\ StoreIsLive
    BY KeptInit DEF Kept, StoreIsLive
  <2> QED BY <2>1, <2>2 DEF PartsInit, OneClock
<1>2. OneClock => RetiredKeysLapse /\ StoreIsLive
  <2>1. KeysInTime => RetiredKeysLapse
    BY DEF KeysInTime, Timely, RetiredKeysLapse
  <2>2. token = [t \in Tokens |-> Fresh] => RetiredKeysLapse
    BY DEF Fresh, RetiredKeysLapse
  <2>3. Kept => StoreIsLive
    BY DEF Kept, StoreIsLive
  <2> QED BY <2>1, <2>2, <2>3 DEF OneClock
<1>3. PartsSpec => []OneClock
  BY <1>1, ClockStep, PTL DEF PartsSpec
<1>4. PartsSpec => []RetiredKeysLapse /\ []StoreIsLive
  BY <1>2, <1>3, PTL
<1> QED BY <1>4, EachPartAsItself, RequestsGoAsTheirOwners, ServedForCaller
=============================================================================
