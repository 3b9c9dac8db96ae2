------------------------------ MODULE ToolCalls ------------------------------
(* The way of one call's arguments, next to the calls of an imported        *)
(* document, under names that a client's own calls leave free.              *)
EXTENDS ImportedCalls

CONSTANTS Actions, Arguments, Members, Scalars, Depth

VARIABLES action, args, phase, payload, request

argumentVars == <<action, args, phase, payload, request>>

Tool == INSTANCE ToolArguments

ASSUME ArgumentsAssumption == Tool!ArgumentsAssumption

\* What a tool is offered with is not refused.
OfferedIsAccepted == Tool!OfferedIsAccepted

\* What is accepted is valid under the whole description.
AcceptedIsDeclared == Tool!AcceptedIsDeclared
=============================================================================
