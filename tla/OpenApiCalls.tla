---------------------------- MODULE OpenApiCalls ----------------------------
(***************************************************************************)
(* An operation of an OpenAPI document, compiled into an action with an    *)
(* HTTP form (openapi.py), and the request a call of that action becomes:  *)
(* which argument goes where, and the security schemes it is sent with.    *)
(***************************************************************************)
EXTENDS Integers, Sequences, SequencesExt

CONSTANTS
    Specs,      \* [op, schemes, known, security]: one operation and what surrounds it
    Absent      \* a security requirement that is not there

VARIABLES spec, action, args, request

vars == <<spec, action, args, request>>

NoSec == "nosec_sc"

\* What is absent is not a set of schemes, and a requirement is a sequence.
DocumentsAssumption ==
    \A s \in Specs :
        /\ \A schemes \in SUBSET (s.schemes \cup {NoSec}) : schemes # Absent
        /\ \A security \in {s.security, s.op.security} \ {Absent} : security \in Seq(ToSet(security))

(* Security: a requirement is a sequence of alternatives, each a set of schemes. *)

\* The places of the alternatives that name a scheme, and the first of these.
Groups(security) == {i \in DOMAIN security : security[i] # {}}
First(security) == security[Min(Groups(security))]

\* The schemes of the document that have a counterpart in a description.
Defs(s) == s.schemes \cap s.known

\* Every scheme when the document requires none in particular.
Active(s) ==
    IF s.security = Absent \/ Groups(s.security) = {} THEN Defs(s)
    ELSE First(s.security) \cap Defs(s)

\* Mutant: an operation with an empty requirement inherits the document's.
OpSecurityInherits(s) ==
    IF s.op.security = Absent \/ Groups(s.op.security) = {} THEN Absent
    ELSE First(s.op.security) \cap Defs(s)

\* An operation's own schemes, {} when it needs none, Absent when it inherits.
OpSecurity(s) ==
    IF s.op.security = Absent THEN Absent
    ELSE IF Groups(s.op.security) = {} THEN {}
    ELSE First(s.op.security) \cap Defs(s)

FormSecurity(s) ==
    IF OpSecurity(s) \in {Absent, Active(s)} THEN Absent
    ELSE IF OpSecurity(s) = {} THEN {NoSec} ELSE OpSecurity(s)

(* Input: parameters [name, in, required], and the fields of a body. *)

Parameters(op, places) == {p \in op.params : p.in \in places}
Names(params) == {p.name : p \in params}

\* The representative request body: a structured one gives its fields, another is
\* one argument that carries the bytes.
BodyFields(op) ==
    IF op.body = "none" THEN {} ELSE IF op.body = "binary" THEN {"body"} ELSE op.fields

Required(op) ==
    Names({p \in Parameters(op, {"path", "query"}) : p.required \/ p.in = "path"})
    \cup (IF op.body = "structured" THEN op.needed ELSE BodyFields(op))

Compiled(s) ==
    [method   |-> s.op.method,
     vars     |-> s.op.vars,
     binary   |-> s.op.body = "binary",
     input    |-> Names(Parameters(s.op, {"path", "query"})) \cup BodyFields(s.op),
     required |-> Required(s.op),
     security |-> FormSecurity(s),
     thing    |-> IF Defs(s) = {} THEN {NoSec} ELSE Active(s)]

-----------------------------------------------------------------------------
Init ==
    /\ spec \in Specs /\ action = Absent /\ args = {} /\ request = Absent

Import ==
    /\ action = Absent /\ action' = Compiled(spec)
    /\ UNCHANGED <<spec, args, request>>

\* A structured body carries every argument, a binary one the bytes alone.
Body(a, rest) == IF a.binary THEN rest \cap {"body"} ELSE rest

\* The variables of the href are filled; the rest is the query of a GET and the
\* body of any other method.
Placed(a, names) ==
    LET rest == names \ a.vars
    IN  [path  |-> names \cap a.vars,
         query |-> IF a.method = "GET" THEN rest ELSE {},
         body  |-> IF a.method = "GET" THEN {} ELSE Body(a, rest)]

\* A form's security replaces the Thing's; a scheme without material sends nothing.
Presented(a) == (IF a.security = Absent THEN a.thing ELSE a.security) \ {NoSec}

\* Arguments that lack a required one are refused.
Call ==
    /\ action # Absent /\ request = Absent
    /\ args' \in {names \in SUBSET action.input : action.required \subseteq names}
    /\ request' = [placed |-> Placed(action, args'), schemes |-> Presented(action)]
    /\ UNCHANGED <<spec, action>>

Next == Import \/ Call
Spec == Init /\ [][Next]_vars

-----------------------------------------------------------------------------
Op == spec.op

\* A requirement is met by all the schemes of one of its alternatives; one that
\* is empty asks for none.
Requirement == IF Op.security # Absent THEN Op.security ELSE spec.security

Meets(schemes) ==
    Requirement \in {Absent, <<>>} \/ \E g \in ToSet(Requirement) : g \subseteq schemes

\* The client knows the schemes of the alternative it takes, and none of them has the
\* name it uses for none; the variables of the path are the operation's own path
\* parameters; an argument has one place, which the method decides.  An operation
\* beyond that is not one it can call.
IsWithinReach ==
    /\ NoSec \notin spec.schemes
    /\ Op.vars = Names(Parameters(Op, {"path"}))
    /\ Op.vars \cap (Names(Parameters(Op, {"query"})) \cup BodyFields(Op)) = {}
    /\ Requirement # Absent => \A g \in ToSet(Requirement) : g \subseteq Defs(spec)
    /\ Op.method = "GET" => Op.body = "none"
    /\ Op.method # "GET" => Parameters(Op, {"query"}) = {}

\* "so a ThingClient drives the Thing with no server in between ... so the TD
\* authenticates the same way the API does" (openapi.py): a request puts every
\* argument where the document has it, leaves no variable of the path open, and is
\* sent with the schemes of an alternative, none when the operation says none.
CallFitsTheSpec ==
    request # Absent /\ IsWithinReach =>
        /\ request.placed.path = Op.vars
        /\ request.placed.query = args \cap Names(Parameters(Op, {"query"}))
        /\ request.placed.body = args \cap BodyFields(Op)
        /\ Meets(request.schemes)
        /\ (Op.security # Absent /\ ToSet(Op.security) \subseteq {{}}) => request.schemes = {}
=============================================================================
