---------------------------- MODULE CredentialsMC ----------------------------
(* The life of a bearer token: a client that obtains it, the requests that  *)
(* carry it and where they go, a server that runs calls for its bearer, and *)
(* a gateway that verifies it.  They share no state, and a behaviour is of  *)
(* one.                                                                     *)
EXTENDS SigningKeys, TLC

CONSTANTS
    Calls, Things, Services, Margin, MaxTokens, MaxRestarts,
    Fleet, Bound, ScopeOf, Secrets, Lifetime, MaxClock,
    Addresses, Private, HostOf, Certified, Retries, MaxClients, None,
    Deployments, Bearers, RolesOf, Agent

VARIABLES
    part, store, live, cache, method, call, issued, restarts, lost,
    clock, tokens, asked,
    request, made, pool, open, pins, links, closing, checked, unpinned,
    deployment, server, posted

clientVars  == <<store, live, cache, method, call, issued, restarts, lost>>
tokenVars   == <<clock, tokens, asked>>
poolVars    == <<request, made, pool, open, pins, links, closing, checked, unpinned>>
serverVars  == <<deployment, server, posted>>
gatewayVars == <<published, retired, jwks, fetchedAt, forcedAt, token>>

Client   == INSTANCE RefreshTokens
Entra    == INSTANCE EntraTokens WITH request <- asked
Pool     == INSTANCE HttpPool
Bridge   == INSTANCE McpServing WITH request <- posted

ASSUME CredentialsAssumption ==
    /\ Things \cap Services = {} /\ Timeout <= Margin /\ Margin < Ttl
    /\ Entra!TokensAssumption /\ Pool!PoolAssumption /\ Bridge!ServingAssumption

OneDeployment == deployment = (CHOOSE d \in Deployments : TRUE) /\ Bridge!Init

PartsInit ==
    /\ Init /\ Client!Init /\ Entra!Init /\ Pool!Init
    /\ \/ part \in {"client", "tokens", "requests", "gateway"} /\ OneDeployment
       \/ part = "server" /\ Bridge!Init

PartsNext ==
    /\ part' = part
    /\ \/ part = "gateway" /\ Next /\ UNCHANGED <<clientVars, tokenVars, poolVars, serverVars>>
       \/ part = "client" /\ Client!Next /\ UNCHANGED <<gatewayVars, tokenVars, poolVars, serverVars>>
       \/ part = "tokens" /\ Entra!Next /\ UNCHANGED <<now, gatewayVars, clientVars, poolVars, serverVars>>
       \/ part = "requests" /\ Pool!Next /\ UNCHANGED <<now, gatewayVars, clientVars, tokenVars, serverVars>>
       \/ part = "server" /\ Bridge!Next /\ UNCHANGED <<now, gatewayVars, clientVars, tokenVars, poolVars>>

PartsSpec == PartsInit /\ [][PartsNext]_<<part, vars, clientVars, tokenVars, poolVars, serverVars>>

Symmetry == Permutations(Tokens) \cup Permutations(Keys) \cup Permutations(Calls)

\* Two Things that share a scheme and have a secret each, and one that is not bound;
\* the requests of one go out with a certificate.
SomeFleet ==
    [t \in {"lamp", "camera", "door"} |->
        [active |-> IF t = "lamp" THEN "graph" ELSE "vault",
         form |-> IF t = "door" THEN "graph" ELSE None]]
TwoBound == {"lamp", "door"}
TwoScopes == [s \in {"graph", "vault"} |-> s]
OneSecret == [t \in {"lamp"} |-> "lamp's"]
TwoHosts == [t \in {"lamp", "camera", "door"} |-> IF t = "door" THEN "h2" ELSE "h1"]

\* The client keeps a refresh token its provider honours.
StoreIsLive == Client!StoreIsLive

\* Where and as whom a server may be started, with and without each variable.
SomeDeployments ==
    [exposed : BOOLEAN, guard : {"none", "complete", "incomplete"}, requireAuth : BOOLEAN,
     policy : {"none", "readonly", "full", "unknown"}, agent : BOOLEAN,
     block : {"unset", "off", "on"}, verbs : BOOLEAN]
TwoRoles == [b \in Bearers |-> IF b = "mine" THEN {Agent} ELSE {"visitor"}]

\* A request carries its own Thing's token, and goes to an address that was checked
\* for its host, unless its client carried a transfer there with no pin.
GoesOutAsItsOwners == Entra!CarriesItsOwners /\ Pool!DialsWhatWasChecked

\* A call over HTTP that reaches a device passed the guard and is within the posture; a
\* tool, resource or prompt is run for the caller whose token came with it.
ServedForItsCaller == Bridge!ServedForItsCaller
=============================================================================
