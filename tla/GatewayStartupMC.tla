-------------------------- MODULE GatewayStartupMC --------------------------
(* One gateway's start, and the address plan of a bus of gateways.  They   *)
(* share no state, and a behaviour is of one.                              *)
EXTENDS GatewayStartup

CONSTANTS Fleets, Deployments, Callers, Listed, Policies, Requests, MaxRegrants

VARIABLES part, serves, guarded, grants, loaded, request, regrants

busVars == <<serves, guarded, grants, loaded, request, regrants>>

Bus == INSTANCE GatewayBus WITH Things <- Fleets

ASSUME BusAssumption == Bus!BusAssumption

AnyOf(S) == CHOOSE x \in S : TRUE
Quiet == serves = AnyOf(Deployments) /\ guarded = TRUE /\ grants = [c \in Callers |-> {}] /\ Bus!Init

PartsInit ==
    \/ part = "startup" /\ Init /\ Quiet
    \/ part = "bus" /\ Init /\ Bus!Init

PartsNext ==
    /\ part' = part
    /\ \/ part = "startup" /\ Next /\ UNCHANGED busVars
       \/ part = "bus" /\ Bus!Next /\ UNCHANGED vars

PartsSpec == PartsInit /\ [][PartsNext]_<<part, vars, busVars>> /\ Fairness

\* The broker stops the requests the grants do not cover, and no other.
GrantsAreExact == Bus!GrantsAreExact

\* A request of a projected form is served once, as what it was projected for.
ServedAsProjected == Bus!ServedAsProjected

(* Two Things, so that one of them is served before the other: a request   *)
(* topic each, and an event that an unguarded gateway mirrors.             *)

Pump  == [name |-> "pump",  topics |-> <<"stop">>, events |-> <<>>]
Valve == [name |-> "valve", topics |-> <<"open">>, events |-> <<"leak">>]
Fleet == <<Pump, Valve>>

(* Two Things with an affordance name in common, on one gateway or two.    *)

Mixer == [id |-> "urn:mixer", slug |-> "mixer",
          affs |-> [run |-> {"invokeaction"}, leak |-> {"subscribeevent"},
                    speed |-> {"readproperty", "writeproperty", "observeproperty"}]]
Lamp  == [id |-> "urn:lamp", slug |-> "lamp",
          affs |-> [run |-> {"invokeaction"}, speed |-> {"writeproperty"}]]
TwoThings == {Mixer, Lamp}
TwoDeployments ==
    {[g \in {"gw1", "gw2"} |-> IF g = "gw1" THEN {Mixer} ELSE {Lamp}], [g \in {"gw1"} |-> TwoThings]}

OfMixer(name, op) == <<"urn:mixer", name, op>>
FourPolicies ==
    {{}, {OfMixer("*", "*")}, {OfMixer("run", "invokeaction"), <<"urn:lamp", "speed", "*">>},
     {OfMixer("*", "readproperty"), OfMixer("leak", "subscribeevent"), OfMixer("speed", "observeproperty")}}
=============================================================================
