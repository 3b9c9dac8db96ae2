----------------------------- MODULE McpServing -----------------------------
(***************************************************************************)
(* The bridge behind streamable HTTP (thingctx-mcp --http): what a server  *)
(* started from an environment is, and as whom each call posted to it is   *)
(* run.  The guard's verdict on a token is SigningKeys', which calls are   *)
(* parked and which of them approve releases is McpApprovals'.             *)
(***************************************************************************)
EXTENDS Naturals

CONSTANTS
    Deployments,    \* [exposed, guard, requireAuth, policy, agent, block, verbs]: the
                    \* bind host and the THINGCTX_ variables, "none" and "unset" for absent
    Bearers,        \* the bearer tokens callers have
    RolesOf,        \* [Bearers -> the roles its claims name]
    Agent,          \* THINGCTX_IDENTITY, a subject and its only role
    None

ServingAssumption ==
    /\ None \notin Bearers /\ DOMAIN RolesOf = Bearers
    /\ \A d \in Deployments : d.block \in {"unset", "off", "on"}

VARIABLES deployment, server, request

vars == <<deployment, server, request>>

\* What a decision is about; to observe is observeproperty or subscribeevent.
Ops == {"readproperty", "writeproperty", "invokeaction", "safeaction", "observe"}
Presets == [full |-> Ops, readonly |-> {"readproperty", "safeaction", "observe"}]

\* The ways a posted call reaches a device, each with its operations: a tool by its
\* name, a gateway verb, a resource or resource template that is read, a prompt, a
\* stream (snapshot, start_subscription, a relayed resource), a parked call approved.
Ways == [tool |-> Ops \ {"observe"}, verb |-> Ops \ {"observe"},
         resource |-> {"readproperty", "safeaction"}, prompt |-> {"invokeaction", "safeaction"},
         stream |-> {"observe", "invokeaction", "safeaction"},
         replay |-> {"writeproperty", "invokeaction", "safeaction"}]

Idle == [at |-> "idle", token |-> None, way |-> None, op |-> None, private |-> FALSE, claims |-> None]

Init == deployment \in Deployments /\ server = None /\ request = Idle

(* Starting. *)

\* Without a policy an agent with a name reads only; with neither nothing is decided.
Posture(d) == IF d.policy = "none" /\ d.agent THEN "readonly" ELSE d.policy

\* A guard that is not known, or lacks a variable of its own, is an error; so is
\* none, on a host beyond loopback, when authentication is required; so is a policy
\* without a preset.
Startable(d) ==
    /\ d.guard \in {"none", "complete"}
    /\ ~(d.exposed /\ d.guard = "none" /\ d.requireAuth)
    /\ Posture(d) \in {"none"} \cup DOMAIN Presets

\* Beyond loopback private addresses are blocked unless the operator chose.
Blocks(d) == d.block = "on" \/ (d.exposed /\ d.block = "unset")

Start ==
    /\ server = None /\ Startable(deployment)
    /\ server' = [guarded |-> deployment.guard # "none", anonymous |-> ~deployment.exposed,
                  posture |-> Posture(deployment), blocks |-> Blocks(deployment)]
    /\ UNCHANGED <<deployment, request>>

(* A call. *)

\* The app sees every POST: a token is put to the guard, one that is missing passes
\* only where anonymous calls do.  The verbs are gateway mode's.
Post(token, way, op, private) ==
    /\ server # None /\ request.at = "idle"
    /\ op \in Ways[way] /\ (way = "verb" => deployment.verbs)
    /\ request' =
          [at |-> IF ~server.guarded \/ (token = None /\ server.anonymous) THEN "accepted"
                  ELSE IF token = None THEN "refused" ELSE "checking",
           token |-> token, way |-> way, op |-> op, private |-> private, claims |-> None]
    /\ UNCHANGED <<deployment, server>>

\* The guard raises, or returns the token's claims for the rest of this request.
Validated ==
    /\ request.at = "checking"
    /\ \/ request' = [request EXCEPT !.at = "accepted", !.claims = request.token]
       \/ request' = [request EXCEPT !.at = "refused"]
    /\ UNCHANGED <<deployment, server>>

\* Mutant: every call runs as the server.
ScopedToServer(r) == IF deployment.agent THEN {Agent} ELSE {}

\* Verbs run on the projection of the server's client, streams are opened with it, and
\* a call that was approved is run on a clone of it.
OfTheServer(r) == r.way \in {"verb", "stream", "replay"}

\* The roles a call is decided for: those of the request's claims, or the server's own
\* where no claims came with it or its client is used.
Scoped(r) ==
    IF r.claims = None \/ OfTheServer(r)
    THEN IF deployment.agent THEN {Agent} ELSE {}
    ELSE RolesOf[r.claims]

\* A named agent's role holds the preset; without a name everyone does.
Permits(r) ==
    \/ server.posture = "none"
    \/ r.op \in Presets[server.posture] /\ (deployment.agent => Agent \in Scoped(r))

Run ==
    /\ request.at = "accepted"
    /\ request' = [request EXCEPT !.at =
           IF ~Permits(request) THEN "denied"
           ELSE IF server.blocks /\ request.private THEN "blocked" ELSE "ran"]
    /\ UNCHANGED <<deployment, server>>

Over ==
    /\ request.at \in {"ran", "denied", "blocked", "refused"} /\ request' = Idle
    /\ UNCHANGED <<deployment, server>>

Next ==
    \/ Start
    \/ \E token \in Bearers \cup {None}, way \in DOMAIN Ways, op \in Ops, private \in BOOLEAN :
           Post(token, way, op, private)
    \/ Validated \/ Run \/ Over

Spec == Init /\ [][Next]_vars

-----------------------------------------------------------------------------
\* What is decided for its caller: tools by their names, in either mode, resources that
\* are read, prompts.
IsItsOwn(r) == r.way \in {"tool", "resource", "prompt"}

\* Of "validate each request's bearer token and authorize every bridged call against
\* THAT caller" (serve_http), what holds.  A call that reaches a device came, where a
\* guard is configured and either the host is exposed or it brought a token, with claims
\* the guard took from its own token; where authentication is required and the host
\* exposed there is no other; and it is within the posture.  With a named agent, a tool,
\* resource or prompt runs only for a caller that has the agent's role (a verb, a stream
\* and an approved call run for the server, whoever posted them).  And what a binding
\* that checks addresses is asked to reach at a private one, on an exposed host, it
\* reaches only by the operator's choice.
ServedForItsCaller ==
    request.at = "ran" =>
        /\ deployment.guard # "none" /\ (deployment.exposed \/ request.token # None) =>
               request.claims = request.token /\ request.token # None
        /\ deployment.exposed /\ deployment.requireAuth => request.claims # None
        /\ deployment.policy # "none" => request.op \in Presets[deployment.policy]
        /\ deployment.agent /\ deployment.policy = "none" => request.op \in Presets["readonly"]
        /\ deployment.agent /\ request.claims # None /\ IsItsOwn(request) => Agent \in RolesOf[request.claims]
        /\ deployment.exposed /\ request.private => deployment.block = "off"
=============================================================================
