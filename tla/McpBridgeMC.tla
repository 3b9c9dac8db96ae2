----------------------------- MODULE McpBridgeMC -----------------------------
(* The parts of a bridge: a relayed event resource, the background         *)
(* subscriptions, the gated calls and the tool surface.  They share no     *)
(* state, and a behaviour is of one.                                       *)
EXTENDS McpRelay

CONSTANTS Subs, MaxMessages,
          Requests, Callers, Server, Tools, Gated, Dialog, GatewayMode, TTL, MaxTime, MaxRegrants, NoTool,
          Descriptions, Fleets, Calls, MaxAdds

VARIABLES part,
          subs, running, stopped, arrived, rings, ended, received, reported,
          status, caller, tool, runsAs, confirms, redeemed, created, pending, granted, permitted, accepted,
          now, regrants,
          things, vocabulary, security, gateway, mediaTools, connected, call, adds

subVars == <<subs, running, stopped, arrived, rings, ended, received, reported>>
approvalVars == <<status, caller, tool, runsAs, confirms, redeemed, created, pending, granted,
                  permitted, accepted, now, regrants>>
surfaceVars == <<things, vocabulary, security, gateway, mediaTools, connected, call, adds>>

Background == INSTANCE McpBackgroundSubs WITH
    task <- running, cancelled <- stopped, inbox <- arrived, ring <- rings,
    emitted <- received, taken <- reported, MaxValues <- MaxMessages

Approvals == INSTANCE McpApprovals
Surface == INSTANCE ToolSurface

ASSUME BridgeAssumption == Approvals!ApprovalsAssumption /\ Surface!SurfaceAssumption

PartsInit ==
    /\ part \in {"relay", "subs", "approvals", "surface"}
    /\ Init /\ Background!Init /\ Approvals!Init /\ Surface!Init
    /\ part # "approvals" => granted = {}
    /\ part # "surface" => gateway = <<>> /\ things = CHOOSE fleet \in Fleets : TRUE

PartsNext ==
    /\ part' = part
    /\ \/ part = "relay" /\ Next /\ UNCHANGED <<subVars, approvalVars, surfaceVars>>
       \/ part = "subs" /\ Background!Next /\ UNCHANGED <<vars, approvalVars, surfaceVars>>
       \/ part = "approvals" /\ Approvals!Next /\ UNCHANGED <<vars, subVars, surfaceVars>>
       \/ part = "surface" /\ Surface!Next /\ UNCHANGED <<vars, subVars, approvalVars>>

PartsSpec ==
    /\ PartsInit /\ [][PartsNext]_<<part, vars, subVars, approvalVars, surfaceVars>>
    /\ Fairness /\ Background!Fairness

\* No reader of either buffer is missing a value it was not told of.
NoGapAnywhere == NoSilentGap /\ Background!NoSilentGap

\* Every value of a relayed event is passed on, and the task of a stopped background
\* subscription ends.
PumpsKeepUp == ValuesAreRelayed /\ Background!StoppedEnds

\* A gated tool runs only for a call whose own user said yes, a parked call once and
\* as it was parked, and nobody is asked about what the policy denies.
RunsOnItsOwnApproval ==
    /\ Approvals!GatedNeedsConsent /\ Approvals!OneRunPerApproval
    /\ Approvals!DeniedNeverPrompts

\* A listed tool of an unchanged Thing reaches what was listed.
ListedReachesItself == Surface!ListedReachesItself

\* What is permitted and how it is signed follow the fleet as it is described now.
FollowsTheFleet == Surface!FollowsTheFleet

\* A tool of a Thing that needs a sign-in is not sent without one.
SignedInBeforeSent == Surface!SignedInBeforeSent

(* Three Things, one with two descriptions, one with the slug of another. *)

Aff(kind, forms) ==
    [kind |-> kind, forms |-> forms, long |-> FALSE, media |-> FALSE, readOnly |-> FALSE, writeOnly |-> FALSE]
Stream(kind, forms) == [Aff(kind, forms) EXCEPT !.media = TRUE]
Run(forms) == [Aff("action", forms) EXCEPT !.long = TRUE]

Speed == <<"speed">>
PumpV1 == [id |-> "pump1", slug |-> "pump", scheme |-> "code", affs |->
    [n \in {<<"run">>, Speed, <<"cam">>, <<"valve", "set">>} |->
        CASE n = Speed -> Aff("property", {{}, {"readproperty"}})
          [] n = <<"run">> -> Run({{}})
          [] n = <<"cam">> -> [Aff("property", {{"readproperty"}}) EXCEPT !.readOnly = TRUE]
          [] OTHER -> Aff("action", {{}})]]
PumpV2 == [id |-> "pump1", slug |-> "pump", scheme |-> "basic", affs |->
    [n \in {<<"run">>, Speed, <<"cam">>} |->
        CASE n = Speed -> Aff("property", {{"readproperty", "writeproperty"}})
          [] n = <<"run">> -> Run({{"invokeaction", "cancelaction"}})
          [] OTHER -> Stream("property", {{"observeproperty"}})]]
Lamp == [id |-> "lamp", slug |-> "lamp", scheme |-> "code", affs |->
    [n \in {<<"on">>, <<"view">>} |->
        IF n = <<"on">> THEN Aff("property", {{}}) ELSE Stream("event", {{}})]]
OtherPump == [id |-> "pump2", slug |-> "pump", scheme |-> "code", affs |->
    [n \in {<<"run">>} |-> Aff("action", {{}})]]

FourDescriptions == {PumpV1, PumpV2, Lamp, OtherPump}
ThreeFleets == {<<PumpV1, Lamp>>, <<PumpV2>>, <<Lamp>>}
=============================================================================
