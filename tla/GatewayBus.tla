----------------------------- MODULE GatewayBus -----------------------------
(***************************************************************************)
(* The address plan of an MQTT gateway, which four places must agree on:   *)
(* the forms a gateway projects for a Thing, the topics it routes, the     *)
(* rules compiled for the broker, and the operation it runs for a topic.   *)
(* A caller sends a request to a projected form; the broker lets it pass,  *)
(* by rules that may be older than the policy, and the gateway decides.    *)
(* A topic is the sequence of its levels below the gateway's prefix.       *)
(***************************************************************************)
EXTENDS Naturals, Sequences

CONSTANTS
    Things,         \* [id, slug, affs], an affordance's set of operations by its name
    Deployments,    \* the Things each gateway's login serves: functions of logins
    Callers,        \* broker logins of callers
    Listed,         \* the callers whose grants are compiled into rules
    Policies,       \* what a grant source may hold for a caller
    Requests,
    MaxRegrants

Some == "+"     \* the wildcard of one topic level
Every == "*"      \* the wildcard of a grant

\* An id and a slug are one Thing's, and a Thing is served by one gateway; no slug and
\* no affordance has the wildcard for its name, and a grant is of a Thing there is.
BusAssumption ==
    /\ \A t, u \in Things : t.slug = u.slug \/ t.id = u.id => t = u
    /\ \A t \in Things : t.slug # Some /\ Some \notin DOMAIN t.affs
    /\ \A held \in Policies : \A g \in held : g[2] # Some /\ \E t \in Things : t.id = g[1]
    /\ Listed \subseteq Callers
    /\ \A deployed \in Deployments :
         /\ DOMAIN deployed \cap Callers = {} /\ UNION {deployed[g] : g \in DOMAIN deployed} = Things
         /\ \A g, h \in DOMAIN deployed : deployed[g] \cap deployed[h] # {} => g = h

VARIABLES
    serves,     \* the deployment
    guarded,    \* the gateways have a guard
    grants,     \* what each caller is granted now
    loaded,     \* the grants the broker's rules were compiled from
    request, regrants

vars == <<serves, guarded, grants, loaded, request, regrants>>

Gateways == DOMAIN serves
Alone == Gateways = {CHOOSE g \in Gateways : TRUE}

Invoke == "invokeaction"
Subscribe == "subscribeevent"
Observe == "observeproperty"
Word == [readproperty |-> "read", writeproperty |-> "write", observeproperty |-> "observe"]
Carried == DOMAIN Word \cup {Invoke, Subscribe}

\* The levels of a request for one operation, between the Thing and the sender.
Kind(op, name) ==
    CASE op = Invoke -> <<"actions", name>>
      [] op = Subscribe -> <<"events", name, "subscribe">>
      [] OTHER -> <<"props", name, Word[op]>>

Matches(filter, topic) ==
    Len(filter) = Len(topic) /\ \A i \in DOMAIN filter : filter[i] \in {Some, topic[i]}

(***************************************************************************)
(* The gateway's two views of a Thing.                                     *)
(***************************************************************************)

Operations == UNION {UNION {{<<t, n, op>> : op \in t.affs[n]} : n \in DOMAIN t.affs} : t \in Things}

Open(op, name) ==
    <<CASE op = Invoke -> "actions" [] op = Subscribe -> "events" [] OTHER -> "props", name>>

\* The topic a projected form has a caller send its request on, {} for an operation
\* the bus does not carry and for an open event, which is read where it is mirrored.
\* A guarded stream's form names the stream of its request.
Form(t, name, op, user) ==
    IF op \notin Carried \/ (op = Observe /\ ~guarded) THEN {}
    ELSE IF guarded THEN {<<t.slug>> \o Kind(op, name) \o <<user>>}
    ELSE {<<t.slug>> \o Open(op, name) : x \in {op} \ {Subscribe}}

Route(filter, t, name, op) == [filter |-> filter, thing |-> t, aff |-> name, op |-> op]

\* An open property has one topic for both of its operations, and an open event
\* is mirrored with no request.
Routes(g) ==
    {Route(IF guarded THEN <<x[1].slug>> \o Kind(x[3], x[2]) \o <<Some>> ELSE <<x[1].slug>> \o Open(x[3], x[2]),
           x[1], x[2], IF guarded \/ x[3] = Invoke THEN x[3] ELSE "writeproperty")
        : x \in {y \in Operations : y[1] \in serves[g] /\ y[3] \in Carried /\ (guarded \/ y[3] # Subscribe)}}

(***************************************************************************)
(* The broker's rules.                                                     *)
(***************************************************************************)

Requested == {Kind(op, Some) : op \in Carried}
Streamed == {Kind(Observe, Some), Kind(Subscribe, Some)}
Published == {<<"events", Some>>, <<"td">>}
Rules(access, filters) == {<<access, filter>> : filter \in filters}

Serving(slugs) ==
    UNION {Rules("read", {<<slug>> \o kind \o <<Some>> : kind \in Requested})
           \cup Rules("write", {<<slug>> \o kind \o <<Some, "reply">> : kind \in Requested})
           \cup Rules("write", {<<slug>> \o kind \o <<Some, "stream">> : kind \in Streamed})
           \cup Rules("write", {<<slug>> \o kind : kind \in Published}) : slug \in slugs}

Level(name) == IF name = Every THEN Some ELSE name
SlugOf(id) == (CHOOSE t \in Things : t.id = id).slug

\* What one grant lets a caller send and hear of one operation.
GrantRules(user, g, op) ==
    LET topic == <<SlugOf(g[1])>> \o Kind(op, Level(g[2])) \o <<user>>
    IN  {<<"write", topic>>, <<"read", topic \o <<"reply">>>>}
        \cup IF op \in {Subscribe, Observe} THEN {<<"read", topic \o <<"stream">>>>} ELSE {}

\* Mutant: a wildcard operation stands for the request operations alone.
GrantedNoStreams(user, held) ==
    UNION {UNION {GrantRules(user, g, op)
              : op \in {o \in Carried : g[3] = o \/ (g[3] = Every /\ o \notin {Subscribe, Observe})}} : g \in held}

Granted(user, held) ==
    UNION {UNION {GrantRules(user, g, op) : op \in {o \in Carried : g[3] \in {Every, o}}} : g \in held}

Ungranted(user) ==
    Rules("write", {<<Some>> \o kind \o <<user>> : kind \in Requested})
    \cup Rules("read", {<<Some>> \o kind \o <<user, "reply">> : kind \in Requested})
    \cup Rules("read", {<<Some>> \o kind \o <<user, "stream">> : kind \in Streamed})

AclOf(user) ==
    IF user \in Gateways THEN Serving(IF Alone THEN {Some} ELSE {t.slug : t \in serves[user]})
    ELSE (IF user \in Listed THEN Granted(user, loaded[user]) ELSE Ungranted(user))
         \cup Rules("read", {<<Some>> \o kind : kind \in Published})

\* The rules are for a guarded bus; an open one has none.
Lets(user, access, topic) ==
    ~guarded \/ \E rule \in AclOf(user) : rule[1] = access /\ Matches(rule[2], topic)

(***************************************************************************)
(* A request.                                                              *)
(***************************************************************************)

Covering(held, id, name, op) == {g \in held : g[1] = id /\ g[2] \in {Every, name} /\ g[3] \in {Every, op}}

Idle == [phase |-> "idle"]

Init ==
    /\ serves \in Deployments /\ guarded \in BOOLEAN
    /\ grants \in [Callers -> Policies] /\ loaded = grants
    /\ request = [r \in Requests |-> Idle] /\ regrants = 0

\* The client fills its User Name in; a write carries its value, a read nothing.
Send(r, user, t, name, op) ==
    /\ request[r].phase = "idle"
    /\ \E topic \in Form(t, name, op, user) :
         request' = [request EXCEPT ![r] =
             [phase |-> IF Lets(user, "write", topic) THEN "sent" ELSE "stopped",
              by |-> user, thing |-> t, aff |-> name, op |-> op, topic |-> topic,
              rules |-> loaded[user], under |-> loaded[user], served |-> {}, heard |-> FALSE]]
    /\ UNCHANGED <<serves, guarded, grants, loaded, regrants>>

\* The gateways that get the message, each with the route it finds.
Taking(req) ==
    UNION {{[by |-> g, route |-> route] : route \in
              {x \in Routes(g) : Matches(x.filter, req.topic) /\ Lets(g, "read", req.topic)}} : g \in Gateways}

\* Mutant: an open property's topic is always a write.
RunsAsRouted(route, req) == route.op

\* A write without a value on an open topic is a read.
Runs(route, req) ==
    IF route.op = "writeproperty" /\ req.op # "writeproperty" /\ ~guarded THEN "readproperty" ELSE route.op

\* dispatch and authorize: the gateway's own policy decides on the Thing of the slug.
Decides(req, route) ==
    IF guarded => Covering(grants[req.by], route.thing.id, route.aff, Runs(route, req)) # {} THEN "ran" ELSE "denied"

Handle(r) ==
    LET req == request[r] IN
    /\ req.phase = "sent"
    /\ request' = [request EXCEPT
           ![r].phase = "handled",
           ![r].served = {[gateway |-> taking.by, thing |-> taking.route.thing, aff |-> taking.route.aff,
                           op |-> Runs(taking.route, req), outcome |-> Decides(req, taking.route)] : taking \in Taking(req)}]
    /\ UNCHANGED <<serves, guarded, grants, loaded, regrants>>

\* The reply, and the stream a permitted subscriber was promised.
Back(req, done) ==
    {req.topic \o <<"reply">>}
    \cup {req.topic \o <<"stream">> : x \in {y \in {done} : y.op \in {Subscribe, Observe} /\ y.outcome = "ran"}}

Answer(r) ==
    LET req == request[r] IN
    /\ req.phase = "handled"
    /\ request' = [request EXCEPT
           ![r].phase = "answered", ![r].under = loaded[req.by],
           ![r].heard = \A done \in req.served : \A topic \in Back(req, done) :
                           Lets(done.gateway, "write", topic) /\ Lets(req.by, "read", topic)]
    /\ UNCHANGED <<serves, guarded, grants, loaded, regrants>>

\* The grants change; the file is written and the broker reloaded later.
Regrant(user, held) ==
    /\ regrants < MaxRegrants /\ regrants' = regrants + 1
    /\ grants' = [grants EXCEPT ![user] = held]
    /\ UNCHANGED <<serves, guarded, loaded, request>>

Reload == loaded' = grants /\ loaded # grants /\ UNCHANGED <<serves, guarded, grants, request, regrants>>

Next ==
    \/ \E r \in Requests :
          \/ \E user \in Callers, x \in Operations : Send(r, user, x[1], x[2], x[3])
          \/ Handle(r) \/ Answer(r)
    \/ \E user \in Callers, held \in Policies : Regrant(user, held)
    \/ Reload

Spec == Init /\ [][Next]_vars

(***************************************************************************)
(* Properties.                                                             *)
(***************************************************************************)

\* "the caller may send exactly those requests, so the broker refuses any other
\* before the gateway sees it" (mosquitto.py): of the requests a projected form can
\* make, the rules stop those, and only those, that the grants they were compiled
\* from do not cover as the policy reads them.
GrantsAreExact ==
    \A r \in Requests : LET req == request[r] IN
        req.phase # "idle" /\ guarded /\ req.by \in Listed =>
            (req.phase = "stopped" <=> Covering(req.rules, req.thing.id, req.aff, req.op) = {})

\* A request the broker let pass reaches the one gateway that serves its Thing, runs
\* there as the operation its form was projected for or is denied by the policy of
\* that moment, and its answer, with the stream it was promised, gets back to its
\* sender and passes the rules on the way, if they are then those it was sent under.
ServedAsProjected ==
    \A r \in Requests : LET req == request[r] IN
        req.phase = "answered" =>
            /\ \E g \in Gateways : req.thing \in serves[g] /\ \E outcome \in {"ran", "denied"} :
                 req.served = {[gateway |-> g, thing |-> req.thing, aff |-> req.aff, op |-> req.op, outcome |-> outcome]}
            /\ req.rules = req.under => req.heard
=============================================================================
