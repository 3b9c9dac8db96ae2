-------------------------- MODULE GatewayRequestsMC -------------------------
(* Requests for one action and one stream.  Three requests for the stream  *)
(* by two callers, each with any token either could present, for the       *)
(* safety of the mirrors; two requests of one caller for either, for what  *)
(* must happen in the end.                                                 *)
EXTENDS GatewayRequests, TLC

CONSTANTS r1, r2, r3, alice, bob, stopPump, readings

TwoRequests   == {r1, r2}
ThreeRequests == {r1, r2, r3}
TwoCallers    == {alice, bob}
OneCaller     == {alice}
PumpCalls     == {<<stopPump, "invoke">>}
PumpStreams   == {<<readings, "subscribe">>}
Nothing       == {}
Symmetry      == Permutations(Requests) \cup Permutations(Callers)
=============================================================================
