---------------------------- MODULE ToolArguments ----------------------------
(***************************************************************************)
(* The way of a call's arguments, from the parameters a tool is offered    *)
(* with to the request its transport gets: the action's input schema is    *)
(* projected without what the description declares const, the arguments    *)
(* are filled with const and default values, checked, and split into the   *)
(* variables of the form's href and the body.  JSON values are tagged      *)
(* tuples; the constraints on a scalar (enum, bounds, lengths, pattern)    *)
(* are the set of values they allow.  What the code does at every depth is  *)
(* a function of the depth that is left: below is the same function for    *)
(* the schemas and values one level down.                                  *)
(***************************************************************************)
EXTENDS Naturals, Sequences

CONSTANTS
    Actions,    \* what is called: [input, vars, how], how it is dispatched
    Arguments,  \* the JSON values a caller may pass
    Members,    \* of properties and variables
    Scalars,    \* the JSON values that have no parts
    Depth,      \* how many levels a schema or a value has at most
    Nothing     \* a term a schema does not have, a value an object lacks

VARIABLES action, args, phase, payload, request

vars == <<action, args, phase, payload, request>>

Types == {"object", "array", "string", "number", "integer", "boolean", "null"}

Optional(S) == {Nothing} \cup S

\* JSON values and schemas, by how many levels they have.
ValuesOver(V) == Scalars \cup ({"object"} \X [Members -> Optional(V)]) \cup ({"array"} \X Seq(V))
Values[d \in 0..Depth] == IF d = 0 THEN {} ELSE ValuesOver(Values[d - 1])

SchemasOver(S, V) ==
    [types : SUBSET Types, const : Optional(V), default : Optional(V), allowed : Optional(SUBSET Scalars),
     required : SUBSET Members, props : [Members -> Optional(S)], items : Optional(S)]
Schemas[d \in 0..Depth] == IF d = 0 THEN {} ELSE SchemasOver(Schemas[d - 1], Values[d])

Blank == [n \in Members |-> Nothing]
Named(fields) == {n \in Members : fields[n] # Nothing}

Kind(v) == v[1]
Obj(fields) == <<"object", fields>>
Arr(items) == <<"array", items>>
Fields(v) == IF Kind(v) = "object" THEN v[2] ELSE Blank
Items(v) == IF Kind(v) = "array" THEN v[2] ELSE <<>>

\* A schema that says no more than the types a value may have, {} for any.
OfTypes(types) ==
    [types |-> types, const |-> Nothing, default |-> Nothing, allowed |-> Nothing,
     required |-> {}, props |-> Blank, items |-> Nothing]

Const(s) == s.const # Nothing

(***************************************************************************)
(* What the caller is offered.                                             *)
(***************************************************************************)

Wrapped(s) == s.types # {"object"} /\ s.props = Blank

\* The input as an object schema: a scalar or array goes under one key.
Wrap(s) ==
    IF Wrapped(s) THEN [OfTypes({"object"}) EXCEPT !.props["value"] = s, !.required = {"value"}]
    ELSE s

WithoutConst(s, below) ==
    LET kept == {n \in Named(s.props) : ~Const(s.props[n])}
    IN  IF Const(s) THEN OfTypes({"object"})
        ELSE [s EXCEPT
            !.props = [n \in Members |-> IF n \in kept THEN below[s.props[n]] ELSE Nothing],
            !.required = IF s.props = Blank THEN @ ELSE @ \cap kept,
            !.items = IF @ = Nothing THEN @ ELSE IF Const(@) THEN @ ELSE below[@]]

Offered[d \in 0..Depth] ==
    IF d = 0 THEN <<>> ELSE [s \in Schemas[d] |-> WithoutConst(s, Offered[d - 1])]

\* With the variables the form's href names, unless an input has the name.
Parameters(a) ==
    LET base == Offered[Depth][Wrap(a.input)]
    IN  [base EXCEPT
            !.props = [n \in Members |-> IF n \in a.vars \ Named(@) THEN OfTypes({"string"}) ELSE @[n]],
            !.required = @ \cup a.vars]

(***************************************************************************)
(* What is filled in, and what is refused.                                 *)
(***************************************************************************)

\* Mutant: a const is filled in only where the caller left it out.
FillOmitted(s, value, below) ==
    LET v == IF value # Nothing THEN value ELSE IF Const(s) THEN s.const ELSE s.default
    IN  IF v = Nothing THEN Nothing
        ELSE IF Kind(v) = "object"
        THEN Obj([n \in Members |-> IF s.props[n] = Nothing THEN Fields(v)[n] ELSE below[s.props[n]][Fields(v)[n]]])
        ELSE IF Kind(v) = "array" /\ s.items # Nothing
        THEN Arr([i \in DOMAIN Items(v) |-> below[s.items][Items(v)[i]]])
        ELSE v

\* Every const set and every absent default filled, through objects and items.
Fill(s, value, below) ==
    LET v == IF value # Nothing THEN value ELSE s.default
    IN  IF Const(s) THEN s.const
        ELSE IF v = Nothing THEN Nothing
        ELSE IF Kind(v) = "object"
        THEN Obj([n \in Members |-> IF s.props[n] = Nothing THEN Fields(v)[n] ELSE below[s.props[n]][Fields(v)[n]]])
        ELSE IF Kind(v) = "array" /\ s.items # Nothing
        THEN Arr([i \in DOMAIN Items(v) |-> below[s.items][Items(v)[i]]])
        ELSE v

Filled[d \in 0..Depth] ==
    IF d = 0 THEN <<>>
    ELSE [s \in Schemas[d] |-> [v \in Optional(Values[d]) |-> Fill(s, v, Filled[d - 1])]]

At(n, paths) == {<<n>> \o p : p \in paths}

\* Mutant: the check does not look into the items of an array.
OuterMismatches(s, v, below) ==
    IF s.types # {} /\ Kind(v) \notin s.types THEN {<<>>}
    ELSE {<<>> : x \in {y \in {s.const} : y # Nothing /\ v # y}}
         \cup {<<>> : x \in {y \in {s.allowed} : y # Nothing /\ v \notin y}}
         \cup {<<n>> : n \in IF Kind(v) = "object" THEN s.required \ Named(Fields(v)) ELSE {}}
         \cup (UNION {At(n, below[s.props[n]][Fields(v)[n]]) : n \in Named(s.props) \cap Named(Fields(v))})

\* Where the value does not match; a wrong type ends the look there.
Mismatches(s, v, below) ==
    IF s.types # {} /\ Kind(v) \notin s.types THEN {<<>>}
    ELSE {<<>> : x \in {y \in {s.const} : y # Nothing /\ v # y}}
         \cup {<<>> : x \in {y \in {s.allowed} : y # Nothing /\ v \notin y}}
         \cup {<<n>> : n \in IF Kind(v) = "object" THEN s.required \ Named(Fields(v)) ELSE {}}
         \cup (UNION {At(n, below[s.props[n]][Fields(v)[n]]) : n \in Named(s.props) \cap Named(Fields(v))})
         \cup (UNION {At(i, below[s.items][Items(v)[i]]) : i \in IF s.items = Nothing THEN {} ELSE DOMAIN Items(v)})

Errors[d \in 0..Depth] ==
    IF d = 0 THEN <<>>
    ELSE [s \in Schemas[d] |-> [v \in Values[d] |-> Mismatches(s, v, Errors[d - 1])]]

(***************************************************************************)
(* The descriptions and the arguments: no deeper than Depth, and a value    *)
(* that is not an object leaves room for its wrapper.                      *)
(***************************************************************************)

ArgumentsAssumption ==
    /\ Depth \in Nat /\ Depth > 1
    /\ "value" \in Members
    /\ \A v \in Scalars : Kind(v) \notin {"object", "array"}
    /\ \A d \in 0..Depth : Nothing \notin Values[d] \cup Schemas[d]
    /\ \A a \in Actions : Wrap(a.input) \in Schemas[Depth] /\ a.vars \subseteq Members
    /\ \A v \in Arguments : v \in IF Kind(v) = "object" THEN Values[Depth] ELSE Values[Depth - 1]

(***************************************************************************)
(* The call.                                                               *)
(***************************************************************************)

Init ==
    /\ action \in Actions /\ args \in Arguments
    /\ phase = "asked" /\ payload = Nothing /\ request = Nothing

\* A scalar that comes bare, from a gateway's wire, is wrapped as a model's is.
Given(a, v) == IF Wrapped(a.input) /\ Kind(v) # "object" THEN Obj([Blank EXCEPT !["value"] = v]) ELSE v

FillIn ==
    /\ phase = "asked" /\ phase' = "filled"
    /\ payload' = Filled[Depth][Wrap(action.input)][Given(action, args)]
    /\ UNCHANGED <<action, args, request>>

Check ==
    /\ phase = "filled"
    /\ phase' = IF Errors[Depth][Wrap(action.input)][payload] = {} THEN "accepted" ELSE "refused"
    /\ UNCHANGED <<action, args, payload, request>>

\* WoTForm.fill: the variables found leave the body.
Split(v) ==
    LET used == action.vars \cap Named(Fields(v))
    IN  [filled |-> used,
         body |-> IF Kind(v) # "object" THEN v
                  ELSE Obj([n \in Members |-> IF n \in used THEN Nothing ELSE Fields(v)[n]])]

\* Only a plain invoke unwraps the input, a chain or a long-running start does not.
Bare(v) == IF Wrapped(action.input) /\ action.how = "plain" THEN Fields(v)["value"] ELSE v

Dispatch ==
    /\ phase = "accepted" /\ phase' = "sent"
    /\ request' = Split(Bare(payload))
    /\ UNCHANGED <<action, args, payload>>

Next == FillIn \/ Check \/ Dispatch

Spec == Init /\ [][Next]_vars

(***************************************************************************)
(* Properties, against what a schema means.                                *)
(***************************************************************************)

\* What a schema says of a value, without its parts.
IsOf(s, v) ==
    /\ s.types = {} \/ Kind(v) \in s.types
    /\ s.const = Nothing \/ s.const = v
    /\ s.allowed = Nothing \/ v \in s.allowed
    /\ Kind(v) = "object" => s.required \subseteq Named(Fields(v))

IsValid(s, v, below) ==
    /\ IsOf(s, v)
    /\ \A n \in Named(s.props) \cap Named(Fields(v)) : below[s.props[n]][Fields(v)[n]]
    /\ s.items # Nothing => \A i \in DOMAIN Items(v) : below[s.items][Items(v)[i]]

Valid[d \in 0..Depth] ==
    IF d = 0 THEN <<>>
    ELSE [s \in Schemas[d] |-> [v \in Values[d] |-> IsValid(s, v, Valid[d - 1])]]

\* A description that its own values can satisfy: what it declares const, and a
\* default once it is filled, are valid; and it describes what it requires, for a
\* name that has no property of its own is required by the check and not offered.
IsConsistent(s, valid, filled, below) ==
    /\ Const(s) => valid[s][s.const]
    /\ filled[s][Nothing] # Nothing => valid[s][filled[s][Nothing]]
    /\ s.props = Blank \/ s.required \subseteq Named(s.props)
    /\ \A n \in Named(s.props) : below[s.props[n]]
    /\ s.items = Nothing \/ below[s.items]

Consistent[d \in 0..Depth] ==
    IF d = 0 THEN <<>>
    ELSE [s \in Schemas[d] |-> IsConsistent(s, Valid[d], Filled[d], Consistent[d - 1])]

\* w is v but for what s declares: its const values, and what v leaves out.
IsKept(s, v, w, below) ==
    IF Const(s) THEN w = s.const
    ELSE \/ w = v
         \/ /\ Kind(v) = "object" /\ Kind(w) = "object"
            /\ \A n \in Members :
                 IF s.props[n] = Nothing THEN Fields(w)[n] = Fields(v)[n]
                 ELSE Fields(v)[n] # Nothing =>
                          Fields(w)[n] # Nothing /\ below[s.props[n]][Fields(v)[n]][Fields(w)[n]]
         \/ /\ Kind(v) = "array" /\ Kind(w) = "array" /\ s.items # Nothing
            /\ DOMAIN Items(w) = DOMAIN Items(v)
            /\ \A i \in DOMAIN Items(v) : below[s.items][Items(v)[i]][Items(w)[i]]

Keeps[d \in 0..Depth] ==
    IF d = 0 THEN <<>>
    ELSE [s \in Schemas[d] |-> [v \in Values[d] |-> [w \in Values[d] |-> IsKept(s, v, w, Keeps[d - 1])]]]

\* "Each property whose schema declares const is set to that value, and each
\* property the invocation omits whose schema declares default is set to its
\* default" (docs/MAPPING.md): arguments that follow the parameters a tool is
\* offered with are not refused.
OfferedIsAccepted ==
    phase = "refused" /\ Consistent[Depth][Wrap(action.input)] => ~Valid[Depth][Parameters(action)][args]

\* "A mismatch is not sent" (docs/MAPPING.md): what goes on to the policy, the
\* approver and the device is valid under the description's whole input schema,
\* at every depth, and it is what the caller said but for what that declares.
AcceptedIsDeclared ==
    phase \in {"accepted", "sent"} =>
        /\ Valid[Depth][Wrap(action.input)][payload]
        /\ Keeps[Depth][Wrap(action.input)][Given(action, args)][payload]

\* "A scalar/array input still wraps under SCALAR_INPUT_KEY, and its uriVariables
\* sit alongside that key" (_project_action_params), and "unwrap it here so the
\* transport receives the bare value the TD declared, not the envelope"
\* (_dispatch_action): the request has every variable it was called with, and a
\* wrapped input's own value for a body.
ArrivesAsDeclared ==
    phase = "sent" /\ Valid[Depth][Parameters(action)][args] =>
        /\ request.filled = action.vars
        /\ Wrapped(action.input) => request.body = Fields(payload)["value"]
=============================================================================
