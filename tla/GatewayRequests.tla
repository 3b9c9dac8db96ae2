--------------------------- MODULE GatewayRequests --------------------------
(***************************************************************************)
(* The requests of a guarded MQTT gateway: MqttGatewayBinding._handle and  *)
(* _handle_subscribe, the engine's dispatch and authorize, the client's    *)
(* decide-approve-call order, and the tasks that mirror a stream to one    *)
(* caller (_start_caller_mirror over runtime.subscribe and                 *)
(* _authorized_stream).                                                    *)
(*                                                                         *)
(* Every request is a coroutine on one event loop.  A step below is what   *)
(* the loop runs between two awaits, so whatever another request, the      *)
(* policy, the clock or a stop does can fall between any two steps.        *)
(***************************************************************************)
EXTENDS Naturals, FiniteSets

CONSTANTS
    Requests,       \* the inbound messages; also names the mirror each starts
    Callers,        \* MQTT User Names, and the subjects of the tokens
    Calls,          \* <<affordance, op>> whose op is invoke, read or write
    Streams,        \* <<affordance, op>> whose op is subscribe or observe
    NoToken,        \* what an absent, forged or foreign token authenticates
    NoMessage,
    MaxStops,       \* bound: how often the gateway is stopped
    MaxGrants       \* bound: how often the policy gives a right back

ASSUME RequestsAssumption ==
    /\ NoToken \notin Callers /\ NoMessage \notin Callers
    /\ Calls \cap Streams = {}
    /\ MaxStops \in Nat /\ MaxGrants \in Nat

Targets == Calls \cup Streams

\* The topic's last level names the sender, which the broker binds to the login
\* that published.  The token is anyone's.  Only a call's payload matters.
Message ==
    {m \in [sender : Callers, token : Callers \cup {NoToken}, target : Targets,
            wellformed : BOOLEAN] : m.target \in Streams => m.wellformed}

NoRight == <<NoMessage, NoMessage>>
Rights  == Callers \X Targets

ASSUME NoMessageAssumption == NoMessage \notin Message

VARIABLES
    serving,    \* the routes are registered
    stops, regrants,
    grants,     \* what the grant source gives now
    expired,    \* the callers whose token's exp has passed
    msg,        \* what each request's message says
    phase,      \* where each request's handler is
    reply,      \* what was published to <topic>/reply
    acted,      \* the requests for which the fleet was touched
    mirror,     \* where the mirror task each request started is
    streams,    \* _streams: the newest mirror of each stream topic
    tasks,      \* _event_tasks: every mirror a stop cancels
    sinceRevoke,    \* values each mirror published since its right was revoked
    sinceExpiry     \* values each mirror published since its token expired

gateway  == <<serving, stops>>
policy   == <<grants, expired, regrants>>
handlers == <<msg, phase, reply, acted>>
mirroring == <<mirror, streams, tasks, sinceRevoke, sinceExpiry>>
vars == <<gateway, policy, handlers, mirroring>>

\* Decisions are about the subject of the request's token.
Right(r)   == <<msg[r].token, msg[r].target>>
Granted(r) == Right(r) \in grants
Expired(r) == msg[r].token \in expired
Lapsed(r)  == ~Granted(r) \/ Expired(r)

\* The key of _streams: <request topic>/stream, which names the sender.
Stream(r) == <<msg[r].sender, msg[r].target>>
SameStream(r, s) == Stream(r) = Stream(s)

Live == {r \in Requests : mirror[r] \in {"opening", "waiting", "checking", "cleared"}}

Ended == {"ignored", "answered", "died"}

Init ==
    /\ serving = FALSE /\ stops = 0 /\ regrants = 0
    /\ grants \in SUBSET Rights /\ expired = {}
    /\ msg = [r \in Requests |-> NoMessage]
    /\ phase = [r \in Requests |-> "unsent"]
    /\ reply = [r \in Requests |-> "none"]
    /\ acted = {}
    /\ mirror = [r \in Requests |-> "none"]
    /\ streams = {} /\ tasks = {}
    /\ sinceRevoke = [r \in Requests |-> 0]
    /\ sinceExpiry = [r \in Requests |-> 0]

------------------------------------------------------------------------------
(* The gateway's life.  GatewayStartup has the detail of a start.          *)

Start ==
    /\ ~serving /\ serving' = TRUE
    /\ UNCHANGED <<stops, policy, handlers, mirroring>>

\* _stop_serving: cancel every event task, forget them and the routes.  A task
\* that is cancelled runs no further step of its own.
\* Mutant: the tables are forgotten but no task is cancelled.
StopForgets ==
    /\ serving /\ stops < MaxStops
    /\ serving' = FALSE /\ stops' = stops + 1
    /\ streams' = {} /\ tasks' = {}
    /\ UNCHANGED <<policy, handlers, mirror, sinceRevoke, sinceExpiry>>

Stop ==
    /\ serving /\ stops < MaxStops
    /\ serving' = FALSE /\ stops' = stops + 1
    /\ mirror' = [r \in Requests |->
                    IF r \in tasks \cap Live THEN "cancelled" ELSE mirror[r]]
    /\ streams' = {} /\ tasks' = {}
    /\ UNCHANGED <<policy, handlers, sinceRevoke, sinceExpiry>>

(* The policy and the clock.                                               *)

Revoke(right) ==
    /\ right \in grants /\ grants' = grants \ {right}
    /\ UNCHANGED <<gateway, expired, regrants, handlers, mirroring>>

Grant(right) ==
    /\ right \notin grants /\ regrants < MaxGrants
    /\ grants' = grants \cup {right} /\ regrants' = regrants + 1
    /\ sinceRevoke' = [r \in Requests |->
                        IF msg[r] # NoMessage /\ Right(r) = right THEN 0 ELSE sinceRevoke[r]]
    /\ UNCHANGED <<gateway, expired, handlers, mirror, streams, tasks, sinceExpiry>>

Expire(caller) ==
    /\ caller \notin expired /\ expired' = expired \cup {caller}
    /\ UNCHANGED <<gateway, grants, regrants, handlers, mirroring>>

------------------------------------------------------------------------------
(* A request's handler.                                                    *)

Goto(r, p) == phase' = [phase EXCEPT ![r] = p]
Answer(r, kind) ==
    /\ Goto(r, "answered")
    /\ reply' = [reply EXCEPT ![r] = kind]

\* paho's thread hands _handle to the loop.
Receive(r, m) ==
    /\ serving /\ phase[r] = "unsent"
    /\ msg' = [msg EXCEPT ![r] = m]
    /\ Goto(r, "queued")
    /\ UNCHANGED <<gateway, policy, reply, acted, mirroring>>

\* _handle up to its first await: no route, no answer.
Route(r) ==
    /\ phase[r] = "queued"
    /\ Goto(r, IF serving THEN "authenticating" ELSE "ignored")
    /\ UNCHANGED <<gateway, policy, msg, reply, acted, mirroring>>

\* Mutant: any valid token will do, whoever sends it.
AnyValidToken(r) == msg[r].token \in Callers \ expired

\* authenticate, then _issued_to: the token must name the topic's sender.
IssuedTo(r) == msg[r].token = msg[r].sender /\ msg[r].token \notin expired

\* Mutant: a caller who is known is a caller who may.
KnownIsAllowed(r) ==
    /\ phase[r] = "authenticating"
    /\ IF ~IssuedTo(r) THEN Answer(r, "denied")
       ELSE /\ Goto(r, "permitted")
            /\ UNCHANGED reply
    /\ UNCHANGED <<gateway, policy, msg, acted, mirroring>>

Authenticate(r) ==
    /\ phase[r] = "authenticating"
    /\ IF ~IssuedTo(r) THEN Answer(r, "denied")
       ELSE /\ Goto(r, "deciding")
            /\ UNCHANGED reply
    /\ UNCHANGED <<gateway, policy, msg, acted, mirroring>>

\* A write with no value, or an input the TD's schema does not allow.
RejectPayload(r) ==
    /\ phase[r] = "deciding" /\ ~msg[r].wellformed
    /\ Answer(r, "error")
    /\ UNCHANGED <<gateway, policy, msg, acted, mirroring>>

\* Mutants: the handler goes on after its denial is sent; a subscribe is not decided.
DecideGoesOn(r) ==
    /\ phase[r] = "deciding" /\ msg[r].wellformed
    /\ Goto(r, "permitted")
    /\ reply' = IF Granted(r) THEN reply ELSE [reply EXCEPT ![r] = "denied"]
    /\ UNCHANGED <<gateway, policy, msg, acted, mirroring>>

\* The policy decision point answers on the grants of this moment; the handler
\* resumes later.  For a stream this is engine.authorize.
Decide(r) ==
    /\ phase[r] = "deciding" /\ msg[r].wellformed
    /\ IF Granted(r) THEN Goto(r, "permitted") /\ UNCHANGED reply
       ELSE Answer(r, "denied")
    /\ UNCHANGED <<gateway, policy, msg, acted, mirroring>>

\* The approve gate refuses a permitted call.
Block(r) ==
    /\ phase[r] = "permitted" /\ msg[r].target \in Calls
    /\ Answer(r, "blocked")
    /\ UNCHANGED <<gateway, policy, msg, acted, mirroring>>

\* The native call begins.
Call(r) ==
    /\ phase[r] = "permitted" /\ msg[r].target \in Calls
    /\ acted' = acted \cup {r}
    /\ Goto(r, "calling")
    /\ UNCHANGED <<gateway, policy, msg, reply, mirroring>>

CallReturns(r) ==
    /\ phase[r] = "calling"
    /\ Answer(r, "result")
    /\ UNCHANGED <<gateway, policy, msg, acted, mirroring>>

\* A TransportError the TD declares no response for is re-raised: dispatch
\* turns only a denial into a result, so the handler dies where it stands.
CallRaises(r) ==
    /\ phase[r] = "calling"
    /\ Goto(r, "died")
    /\ UNCHANGED <<gateway, policy, msg, reply, acted, mirroring>>

\* Mutant: the mirror before keeps running beside the new one.
StartAnotherMirror(r) ==
    /\ phase[r] = "permitted" /\ msg[r].target \in Streams
    /\ mirror' = [mirror EXCEPT ![r] = "opening"]
    /\ streams' = streams \cup {r} /\ tasks' = tasks \cup {r}
    /\ acted' = acted \cup {r}
    /\ Answer(r, "subscribed")
    /\ UNCHANGED <<gateway, policy, msg, sinceRevoke, sinceExpiry>>

\* _start_caller_mirror: the newest mirror of a stream topic replaces, and
\* cancels, the one before; then the reply names the stream.
StartMirror(r) ==
    /\ phase[r] = "permitted" /\ msg[r].target \in Streams
    /\ LET previous == {s \in streams : SameStream(r, s)}
       IN  /\ mirror' = [s \in Requests |->
                            IF s = r THEN "opening"
                            ELSE IF s \in previous \cap Live THEN "cancelled"
                            ELSE mirror[s]]
           /\ streams' = (streams \ previous) \cup {r}
           /\ tasks' = (tasks \ previous) \cup {r}
    /\ acted' = acted \cup {r}
    /\ Answer(r, "subscribed")
    /\ UNCHANGED <<gateway, policy, msg, sinceRevoke, sinceExpiry>>

------------------------------------------------------------------------------
(* A mirror task.                                                          *)

MirrorTo(r, s) == mirror' = [mirror EXCEPT ![r] = s]
KeepRest == UNCHANGED <<gateway, policy, handlers, streams, tasks>>

\* client.subscribe on the caller's own guarded client: decided again.
MirrorOpen(r) ==
    /\ mirror[r] = "opening"
    /\ MirrorTo(r, IF Granted(r) THEN "waiting" ELSE "ended")
    /\ KeepRest /\ UNCHANGED <<sinceRevoke, sinceExpiry>>

\* Mutants: an expired token costs the value and not the stream; the decision is
\* not taken again.
MirrorSkipsExpired(r) ==
    /\ mirror[r] = "waiting"
    /\ MirrorTo(r, IF Expired(r) THEN "waiting" ELSE "checking")
    /\ KeepRest /\ UNCHANGED <<sinceRevoke, sinceExpiry>>

MirrorCheckOnce(r) ==
    /\ mirror[r] = "checking"
    /\ MirrorTo(r, "cleared")
    /\ KeepRest /\ UNCHANGED <<sinceRevoke, sinceExpiry>>

\* _authorized_stream takes the next value: the token's clock first,
MirrorValue(r) ==
    /\ mirror[r] = "waiting"
    /\ MirrorTo(r, IF Expired(r) THEN "ended" ELSE "checking")
    /\ KeepRest /\ UNCHANGED <<sinceRevoke, sinceExpiry>>

\* then the decision on this value,
MirrorCheck(r) ==
    /\ mirror[r] = "checking"
    /\ MirrorTo(r, IF Granted(r) THEN "cleared" ELSE "ended")
    /\ KeepRest /\ UNCHANGED <<sinceRevoke, sinceExpiry>>

\* and the value is published to the caller's stream topic.
MirrorPublish(r) ==
    /\ mirror[r] = "cleared"
    /\ MirrorTo(r, "waiting")
    /\ sinceRevoke' = [sinceRevoke EXCEPT ![r] = IF Granted(r) THEN 0 ELSE @ + 1]
    /\ sinceExpiry' = [sinceExpiry EXCEPT ![r] = IF Expired(r) THEN @ + 1 ELSE 0]
    /\ KeepRest

\* The source ends or fails.  The task is done and stays in both tables.
MirrorEnds(r) ==
    /\ mirror[r] \in {"opening", "waiting"}
    /\ MirrorTo(r, "ended")
    /\ KeepRest /\ UNCHANGED <<sinceRevoke, sinceExpiry>>

------------------------------------------------------------------------------
Handle(r) ==
    \/ Route(r) \/ Authenticate(r) \/ RejectPayload(r) \/ Decide(r)
    \/ Block(r) \/ Call(r) \/ CallReturns(r) \/ CallRaises(r) \/ StartMirror(r)

RunMirror(r) == MirrorOpen(r) \/ MirrorValue(r) \/ MirrorCheck(r) \/ MirrorPublish(r)

Next ==
    \/ Start \/ Stop
    \/ \E right \in Rights : Revoke(right) \/ Grant(right)
    \/ \E caller \in Callers : Expire(caller)
    \/ \E r \in Requests :
         \/ \E m \in Message : Receive(r, m)
         \/ Handle(r) \/ RunMirror(r) \/ MirrorEnds(r)

Spec == Init /\ [][Next]_vars

\* The loop runs every ready coroutine, a policy decision and a native call end
\* (bindings bound them with a timeout), and a stream's source keeps producing.
Fairness == \A r \in Requests : WF_vars(Handle(r)) /\ WF_vars(RunMirror(r))

FairSpec == Spec /\ Fairness

------------------------------------------------------------------------------
TypeOK ==
    /\ serving \in BOOLEAN /\ stops \in 0..MaxStops /\ regrants \in 0..MaxGrants
    /\ grants \subseteq Rights /\ expired \subseteq Callers
    /\ msg \in [Requests -> Message \cup {NoMessage}]
    /\ phase \in [Requests -> {"unsent", "queued", "authenticating", "deciding",
                               "permitted", "calling"} \cup Ended]
    /\ reply \in [Requests -> {"none", "denied", "error", "blocked", "result",
                               "subscribed"}]
    /\ acted \subseteq Requests
    /\ mirror \in [Requests -> {"none", "opening", "waiting", "checking", "cleared",
                                "ended", "cancelled"}]
    /\ streams \subseteq tasks /\ tasks \subseteq Requests
    /\ sinceRevoke \in [Requests -> Nat] /\ sinceExpiry \in [Requests -> Nat]
    /\ \A r \in Requests : msg[r] = NoMessage <=> phase[r] = "unsent"

\* A request touches the fleet, or opens a stream, only when its token was issued
\* to the User Name its topic ends in (_issued_to).
ActsForItsSender ==
    \A r \in acted : msg[r] # NoMessage /\ msg[r].token = msg[r].sender

\* What a caller is told is what happened: "denied", "blocked" and "error" mean
\* the fleet was not touched, "result" and "subscribed" that it was.
ReplyTellsTheTruth ==
    \A r \in Requests :
        /\ reply[r] \in {"denied", "blocked", "error"} => r \notin acted
        /\ reply[r] \in {"result", "subscribed"} => r \in acted

\* A stream topic has at most one live mirror, or each event is delivered twice
\* (_start_caller_mirror).
OneMirrorPerStream == \A r, s \in Live : SameStream(r, s) => r = s

\* A live mirror is one the next stop cancels, and the one a repeated request
\* replaces.
LiveMirrorsAreRegistered == Live \subseteq streams

\* "A lapse cuts the stream forward": once the right is revoked, or the token
\* has expired, at most the value already cleared is delivered.
CutAfterLapse == \A r \in Requests : sinceRevoke[r] <= 1 /\ sinceExpiry[r] <= 1

\* A stream whose right lapses ends, unless the right is given back: its source
\* produces, and the next value finds the lapse.
LapsedStreamsEnd ==
    \A r \in Requests : (r \in Live /\ Lapsed(r)) ~> (r \notin Live \/ ~Lapsed(r))

------------------------------------------------------------------------------
(* What all of this amounts to for the fleet's owner.                      *)

Claim == [r \in Requests |-> IF msg[r] = NoMessage THEN NoRight ELSE Stream(r)]

Status == [r \in Requests |->
            IF r \in acted THEN "acted"
            ELSE IF phase[r] = "unsent" THEN "none"
            ELSE IF phase[r] \in Ended THEN "over"
            ELSE IF phase[r] = "permitted" THEN "permitted"
            ELSE "asked"]

Service == INSTANCE AuthorizedService WITH
                granted <- grants, claim <- Claim, status <- Status

\* The fleet is touched only for a right its sender held at one moment of the
\* request: the detailed gateway implements the abstract service.
ImplementsService == Service!ServiceSpec
=============================================================================
