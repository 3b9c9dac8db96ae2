------------------------- MODULE ThingClientCallsMC -------------------------
(* A client's concurrent calls, the way of the arguments of one call, and  *)
(* the calls of an imported document.  They share no state, and a behaviour *)
(* is of one.                                                              *)
EXTENDS ThingClientCalls, ToolCalls

CONSTANTS c1, c2

VARIABLE part

OneCall == action = (CHOOSE a \in Actions : TRUE) /\ args = Tool!Obj(Tool!Blank) /\ Tool!Init
OneFleet == td = (CHOOSE pairs \in Descriptions : TRUE) /\ grants = (CHOOSE gs \in Policies : TRUE) /\ Init
OneDocument == spec = (CHOOSE s \in Specs : TRUE) /\ Api!Init

PartsInit ==
    \/ part = "calls" /\ OneCall /\ OneDocument /\ Init
    \/ part = "arguments" /\ OneFleet /\ OneDocument /\ Tool!Init
    \/ part = "document" /\ OneFleet /\ OneCall /\ Api!Init

PartsNext ==
    /\ part' = part
    /\ \/ part = "calls" /\ Next /\ UNCHANGED <<argumentVars, documentVars>>
       \/ part = "arguments" /\ Tool!Next /\ UNCHANGED <<vars, documentVars>>
       \/ part = "document" /\ Api!Next /\ UNCHANGED <<vars, argumentVars>>

PartsSpec ==
    /\ PartsInit /\ [][PartsNext]_<<part, vars, argumentVars, documentVars>>
    /\ \A c \in Calls : WF_vars(Steps(c))

\* Every variable and a wrapped input's own value reach the transport.
ArrivesAsDeclared == Tool!ArrivesAsDeclared

(* The operations of one Thing in two descriptions, and two policies. *)

Ask1(kind, aff, arg) == [kind |-> kind, aff |-> aff, arg |-> arg]
AllRequests ==
    {Ask1("call", "move", "low"), Ask1("call", "move", "high"), Ask1("call", "move", "wrong"),
     Ask1("start", "move", "low"), Ask1("query", "move", NoArg),
     Ask1("cancel", "move", NoArg), Ask1("set", "speed", "high"), Ask1("verify", "speed", NoArg),
     Ask1("read_all", "speed", NoArg), Ask1("save", "feed", NoArg), Ask1("publish", "move", NoArg)}

Full == {<<"move", "invokeaction">>, <<"move", "queryaction">>, <<"move", "cancelaction">>,
         <<"speed", "readproperty">>, <<"speed", "writeproperty">>, <<"door", "readproperty">>,
         <<"feed", "subscribeevent">>}
NoCancel == Full \ {<<"move", "cancelaction">>, <<"move", "queryaction">>, <<"door", "readproperty">>}
TwoDescriptions == {Full, NoCancel}

G(aff, op, limit) == [aff |-> aff, op |-> op, limit |-> limit]
Everything == {G("*", "*", Unlimited)}
Bounded == {G("move", "*", {"low"}), G("move", "cancelaction", Unlimited),
            G("speed", "readproperty", Unlimited), G("*", "subscribeevent", Unlimited)}
TwoPolicies == {Everything, Bounded}
Affordances == {"move", "speed", "door", "feed"}

(* Schemas of objects and arrays two deep, and values that do and do not fit them. *)

Json == INSTANCE ToolArguments WITH Actions <- {}, Arguments <- {}
Num(n) == <<"number", n>>
Text == <<"string", "text">>
Only(n, x) == [Json!Blank EXCEPT ![n] = x]
Both(x, y) == [Json!Blank EXCEPT !["a"] = x, !["b"] = y]
A(v) == Json!Obj(Only("a", v))
List(v) == Json!Arr(<<v>>)
Empty == Json!Obj(Json!Blank)
Object(props) == [Json!OfTypes({"object"}) EXCEPT !.props = props]
Req(s, names) == [s EXCEPT !.required = names]

Number == Json!OfTypes({"number"})
Leaves == {Json!OfTypes({}), Json!OfTypes({"string"}), [Number EXCEPT !.allowed = {Num(1)}],
           [Number EXCEPT !.const = Num(1)], [Number EXCEPT !.default = Num(1)]}
Inner == {Req(Object(Only("a", s)), names) : s \in Leaves, names \in {{}, {"a"}}}
Lists == {[Json!OfTypes({"array"}) EXCEPT !.items = s] : s \in Inner \cup Leaves}
Deep == Leaves \cup Inner \cup Lists \cup {[s EXCEPT !.default = Empty] : s \in Inner}
Outer == {Req(Object(Only("a", s)), names) : s \in Deep, names \in {{}, {"a"}, {"b"}}}
         \cup {Req(Object(Both(s, t)), {"a", "b"}) : s \in Lists, t \in Leaves}
         \cup {[Json!OfTypes({"object"}) EXCEPT !.const = A(Num(1))]}

Action(inputs, names, how) == {[input |-> s, vars |-> names, how |-> how] : s \in inputs}
SomeActions ==
    Action(Outer \cup Leaves \cup Lists, {}, "plain")
    \cup UNION {Action(Inner \cup Leaves, names, how) : names \in {{"id"}, {"a"}}, how \in {"plain", "long"}}

SomeMembers == {"a", "b", "id", "value"}
V0 == {Num(0), Num(1), Text}
VA == {Empty} \cup {A(v) : v \in V0}
V1 == V0 \cup VA \cup {Json!Arr(<<>>)} \cup {List(v) : v \in V0 \cup VA} \cup {Json!Arr(<<Num(1), Num(0)>>)}
SomeArguments ==
    V0 \cup {List(Num(1)), Empty}
    \cup {Json!Obj(Only(k, v)) : k \in {"a", "value"}, v \in V1}
    \cup {Json!Obj([Only(k, v) EXCEPT !["id"] = Text]) : k \in {"a", "value"}, v \in V0 \cup {A(Num(1))}}
    \cup {Json!Obj(Both(v, w)) : v \in V1, w \in V0}

(* Operations with every placement of parameters, and documents that require  *)
(* schemes of theirs together, in turn, optionally, or not at all.            *)

Param(name, in, required) == [name |-> name, in |-> in, required |-> required]
Params == {Param("id", "path", FALSE), Param("limit", "query", TRUE), Param("etag", "header", TRUE)}
Securities == {Nothing, <<>>, <<{}>>, <<{"key"}>>, <<{"key", "oauth"}>>, <<{}, {"oauth"}>>, <<{"oidc"}, {"key"}>>}

SomeSpecs ==
    {[op |-> [method |-> m, params |-> ps, vars |-> IF Param("id", "path", FALSE) \in ps THEN {"id"} ELSE {},
              body |-> b, fields |-> {"title", "note"}, needed |-> {"title"}, security |-> o],
      schemes |-> ss, known |-> {"key", "oauth"}, security |-> g]
        : m \in {"GET", "POST"}, ps \in SUBSET Params, b \in {"none", "structured", "binary"},
          o \in Securities, g \in Securities, ss \in {{}, {"key", "oauth", "oidc"}}}
=============================================================================
