---------------------------- MODULE MqttConsumer ----------------------------
(***************************************************************************)
(* The MQTT binding as a client: requests answered on <topic>/reply, reads *)
(* of a retained value, one-way publishes, and subscriptions.  Every call  *)
(* has a connection of its own.  The paho network thread takes packets and *)
(* posts callbacks; the event loop runs them later.  The broker drops      *)
(* connections, acknowledges late or never, and the device comes and goes. *)
(***************************************************************************)
EXTENDS Naturals, Sequences, FiniteSets

CONSTANTS
    Calls,
    Kinds,          \* what each call may be: "request", "read", "retained", "fire", "stream"
    Echoes,         \* the responder copies the Correlation Data back
    Attempts,       \* of each call: connect_retries + 1
    MaxDrops        \* connections lost

VARIABLES
    call,           \* the coroutine: kind, phase, connect attempt, future, callbacks posted to the loop
    net,            \* the paho client and its session at the broker
    inbox,          \* the calls whose request is at the device
    ran,            \* the calls the device carried out, once or more
    registered,     \* self._subscriptions
    closer          \* aclose: its phase, what it has still to shut, what was open when it began

vars == <<call, net, inbox, ran, registered, closer>>
device == <<inbox, ran>>
binding == <<registered, closer>>

Down == [up |-> FALSE, sub |-> FALSE, sent |-> <<>>, msg |-> "none", ack |-> "none",
         taken |-> FALSE, connacks |-> {}, drops |-> 0]

Init ==
    /\ call = [c \in Calls |-> [kind |-> "fire", phase |-> "idle", attempt |-> 1, fut |-> "pending",
                                of |-> c, posted |-> <<>>]]
    /\ net = [c \in Calls |-> Down]
    /\ inbox = {} /\ ran = {}
    /\ registered = {} /\ closer = [phase |-> "idle", todo |-> {}, open |-> {}]

Is(c, kinds) == call[c].kind \in kinds
At(c, phase) == call[c].phase = phase
Goto(c, phase) == call' = [call EXCEPT ![c].phase = phase]

Asks(c) == Is(c, {"request", "read"})
Listens(c) == Is(c, {"request", "read", "retained", "stream"})
OpenStreams == {c \in Calls : Is(c, {"stream"}) /\ call[c].phase \in {"open", "reading", "dropped"}}

Ended(c, fut) ==
    /\ call' = [call EXCEPT ![c].phase = "ended", ![c].attempt = 1, ![c].fut = fut, ![c].posted = <<>>]
    /\ net' = [net EXCEPT ![c] = [Down EXCEPT !.msg = net[c].msg, !.drops = net[c].drops]]

(***************************************************************************)
(* Connecting.                                                             *)
(***************************************************************************)

\* A topic that names its sender is refused before anything is sent when the
\* connection has no usable User Name.
Begin(c) ==
    /\ At(c, "idle")
    /\ \E k \in Kinds[c] :
        \/ call' = [call EXCEPT ![c].kind = k, ![c].phase = "connecting"]
        \/ call' = [call EXCEPT ![c].kind = k, ![c].phase = "ended", ![c].fut = "error"]
    /\ UNCHANGED <<net, device, binding>>

\* The packets a (re)connection starts with: on_connect subscribes before paho
\* sends what is not acknowledged yet.
FirstPackets(c) ==
    (IF Listens(c) THEN <<"SUBSCRIBE">> ELSE <<>>)
        \o (IF net[c].msg = "unacked" THEN <<"PUBLISH">> ELSE <<>>)

\* CONNACK, on the network thread: also one that comes after the attempt gave up.
Connack(c) ==
    /\ call[c].phase \in {"connecting", "shutting"} /\ ~net[c].up
    /\ net' = [net EXCEPT ![c].up = TRUE, ![c].sent = FirstPackets(c),
                          ![c].connacks = @ \cup {call[c].attempt}]
    /\ UNCHANGED <<call, device, binding>>

\* The event of this attempt, not of an abandoned one.
Heard(c) == call[c].attempt \in net[c].connacks

Established(c) ==
    /\ At(c, "connecting") /\ Heard(c)
    /\ Goto(c, IF Is(c, {"stream"}) THEN "open" ELSE IF Is(c, {"retained"}) THEN "waiting" ELSE "connected")
    /\ registered' = IF Is(c, {"stream"}) THEN registered \cup {c} ELSE registered
    /\ net' = [net EXCEPT ![c].connacks = {}]
    /\ UNCHANGED <<device, closer>>

AttemptTimesOut(c) ==
    /\ At(c, "connecting") /\ Goto(c, "shutting")
    /\ UNCHANGED <<net, device, binding>>

\* _shutdown of the attempt has joined the network thread: back off and retry,
\* or give up.
AttemptEnds(c) ==
    /\ At(c, "shutting")
    /\ IF call[c].attempt < Attempts[c]
       THEN /\ call' = [call EXCEPT ![c].phase = "connecting", ![c].attempt = @ + 1]
            /\ net' = [net EXCEPT ![c] = [Down EXCEPT !.connacks = net[c].connacks]]
       ELSE Ended(c, "error")
    /\ UNCHANGED <<device, binding>>

\* The bound on Drop.
Others(c) == Cardinality({d \in Calls \ {c} : net[d].drops > 0})

Drop(c) ==
    /\ net[c].up /\ net[c].drops + Others(c) < MaxDrops /\ call[c].phase # "shutting"
    /\ net' = [net EXCEPT ![c] = [@ EXCEPT !.up = FALSE, !.sub = FALSE, !.sent = <<>>,
                                           !.ack = "none", !.taken = FALSE, !.drops = net[c].drops + 1]]
    /\ UNCHANGED <<call, device, binding>>

Reconnect(c) ==
    /\ ~net[c].up /\ net[c].drops > 0
    /\ call[c].phase \in {"connected", "storing", "waiting", "open", "reading", "dropped"}
    /\ ~(c \in closer.open /\ c \notin closer.todo)
    /\ net' = [net EXCEPT ![c].up = TRUE, ![c].sent = FirstPackets(c)]
    /\ UNCHANGED <<call, device, binding>>

(***************************************************************************)
(* The request, at the client, the broker and the device.                  *)
(***************************************************************************)

Publish(c) ==
    /\ At(c, "connected")
    /\ Goto(c, IF Is(c, {"read"}) THEN "waiting" ELSE "storing")
    /\ net' = [net EXCEPT ![c].msg = "unacked",
                          ![c].sent = IF net[c].up THEN Append(@, "PUBLISH") ELSE @]
    /\ UNCHANGED <<device, binding>>

\* The network thread hands a value to the loop unless the future is done.
Post(cs, c, what) ==
    [d \in Calls |-> IF d \in cs /\ call[d].fut = "pending"
                     THEN [call[d] EXCEPT !.posted = Append(@, [what |-> what, of |-> c])] ELSE call[d]]

\* The broker takes packets in order.  A subscription to a retained topic is
\* answered with its value, if there is one.
BrokerTakes(c) ==
    /\ net[c].up /\ net[c].sent # <<>> /\ Len(call[c].posted) < 2
    /\ \/ /\ Head(net[c].sent) = "SUBSCRIBE"
          /\ net' = [net EXCEPT ![c].sub = TRUE, ![c].sent = Tail(@)]
          /\ \/ call' = call
             \/ Is(c, {"retained"}) /\ call' = Post({c}, c, "value")
          /\ UNCHANGED inbox
       \/ /\ Head(net[c].sent) = "PUBLISH"
          /\ \E reason \in {"stored", "unserved", "refused"} :
              /\ net' = [net EXCEPT ![c].ack = reason, ![c].sent = Tail(@), ![c].taken = reason = "stored"]
              /\ inbox' = IF reason = "stored" THEN inbox \cup {c} ELSE inbox
          /\ UNCHANGED call
    /\ UNCHANGED <<ran, binding>>

\* PUBACK: no matching subscriber, or a refusal, fails an awaited answer at once.
Puback(c) ==
    /\ net[c].up /\ net[c].ack # "none" /\ Len(call[c].posted) < 2
    /\ net' = [net EXCEPT ![c].msg = IF net[c].ack = "refused" THEN "refused" ELSE "acked", ![c].ack = "none"]
    /\ call' = IF Asks(c) /\ net[c].ack # "stored"
               THEN [call EXCEPT ![c].posted = Append(@, [what |-> net[c].ack, of |-> c])] ELSE call
    /\ UNCHANGED <<device, binding>>

\* Mutant: any reply on the topic is taken.
AnswersAny(d, c) == d \in Calls /\ c \in Calls

\* The correlation a reply carries is the caller's, or there is none.
Answers(d, c) == ~Echoes \/ d = c

\* The device carries a request out, if it ever does, and publishes its reply on the topic that
\* every call on the same affordance listens to.
DeviceRuns(c) ==
    /\ c \in inbox /\ inbox' = inbox \ {c} /\ ran' = ran \cup {c}
    /\ LET hear == {d \in Calls : /\ net[d].up /\ net[d].sub /\ call[d].kind = call[c].kind
                                  /\ Answers(d, c)}
       IN  call' = IF Asks(c) THEN Post(hear, c, "value") ELSE call
    /\ UNCHANGED <<net, binding>>

\* A callback on the loop: the first outcome counts, a second one is an
\* InvalidStateError nobody sees.
Callback(c) ==
    /\ call[c].posted # <<>>
    /\ LET p == Head(call[c].posted)
       IN  call' = [call EXCEPT ![c].posted = Tail(@),
                                ![c].fut = IF @ = "pending" THEN p.what ELSE @,
                                ![c].of = IF call[c].fut = "pending" THEN p.of ELSE @]
    /\ UNCHANGED <<net, device, binding>>

(***************************************************************************)
(* The end of a call.                                                      *)
(***************************************************************************)

\* wait_for_publish returns when the broker has acknowledged, and when its
\* timeout has passed.
PublishAwaited(c) ==
    /\ At(c, "storing")
    /\ IF Is(c, {"fire"}) THEN Ended(c, "ok") ELSE Goto(c, "waiting") /\ UNCHANGED net
    /\ UNCHANGED <<device, binding>>

\* Mutant: the answer is awaited without a deadline once the request is stored.
GetsAnswerOnly(c) ==
    /\ At(c, "waiting") /\ (call[c].fut # "pending" \/ net[c].msg # "acked")
    /\ Ended(c, IF call[c].fut = "pending" THEN "timeout" ELSE call[c].fut)
    /\ UNCHANGED <<device, binding>>

GetsAnswer(c) ==
    /\ At(c, "waiting")
    /\ Ended(c, IF call[c].fut = "pending" THEN "timeout" ELSE call[c].fut)
    /\ UNCHANGED <<device, binding>>

Cancelled(c) ==
    /\ call[c].phase \in {"connecting", "shutting", "connected", "storing", "waiting"}
    /\ Ended(c, "error")
    /\ UNCHANGED <<device, binding>>

(***************************************************************************)
(* Streams, and aclose.                                                    *)
(***************************************************************************)

\* The consumer iterates the stream, or lets go of it without a single read:
\* a generator that never started runs no finally.
ReadStream(c) == At(c, "open") /\ Goto(c, "reading") /\ UNCHANGED <<net, device, binding>>
DropStream(c) == At(c, "open") /\ Goto(c, "dropped") /\ UNCHANGED <<net, device, binding>>

CloseStream(c) ==
    /\ At(c, "reading") /\ Ended(c, "ok")
    /\ registered' = registered \ {c}
    /\ UNCHANGED <<device, closer>>

\* aclose: every subscription in the list it copied, then clear.
BeginClose ==
    /\ closer.phase = "idle"
    /\ closer' = [phase |-> "closing", todo |-> registered, open |-> OpenStreams]
    /\ UNCHANGED <<call, net, device, registered>>

ShutOne ==
    /\ \E c \in closer.todo :
        /\ net' = [net EXCEPT ![c] = [Down EXCEPT !.drops = net[c].drops]]
        /\ closer' = [closer EXCEPT !.todo = @ \ {c}]
    /\ UNCHANGED <<call, device, registered>>

EndClose ==
    /\ closer.phase = "closing" /\ closer.todo = {}
    /\ closer' = [closer EXCEPT !.phase = "closed"]
    /\ registered' = {}
    /\ UNCHANGED <<call, net, device>>

-----------------------------------------------------------------------------

Coroutine(c) ==
    \/ Established(c) \/ AttemptTimesOut(c) \/ AttemptEnds(c) \/ Publish(c)
    \/ PublishAwaited(c) \/ GetsAnswer(c)

Next ==
    \/ \E c \in Calls :
        \/ Begin(c) \/ Coroutine(c) \/ Cancelled(c) \/ Connack(c) \/ Drop(c) \/ Reconnect(c)
        \/ BrokerTakes(c) \/ Puback(c) \/ DeviceRuns(c) \/ Callback(c)
        \/ ReadStream(c) \/ DropStream(c) \/ CloseStream(c)
    \/ BeginClose \/ ShutOne \/ EndClose

Spec == Init /\ [][Next]_vars

\* Every wait of a coroutine has a timeout, and the loop runs what is ready.
\* Nothing is assumed of the broker and the device.
Fairness == \A c \in Calls : WF_vars(Coroutine(c))

-----------------------------------------------------------------------------

\* Whatever the broker, the device and the network do, a call that began
\* comes back to its caller.
CallsEnd == \A c \in Calls :
    (At(c, "connecting") /\ ~Is(c, {"stream"})) ~> At(c, "ended")

\* docs/BINDINGS.md: a one-way action "returns {"ok": true} once the broker
\* acknowledges the publish at QoS 1 or more".
OkIsAcknowledged == \A c \in Calls :
    Is(c, {"fire"}) /\ call[c].fut = "ok" => net[c].msg = "acked"

\* An answer is the answer to this very call, and a call ends once.
Outcome(c) ==
    IF At(c, "idle") THEN "idle"
    ELSE IF ~At(c, "ended") THEN "open"
    ELSE IF call[c].fut = "ok" \/ (Is(c, {"retained"}) /\ call[c].fut = "value") THEN "sent"
    ELSE IF call[c].fut # "value" THEN "error"
    ELSE IF call[c].of = c THEN "answer" ELSE "foreign"

Abstract == INSTANCE DeviceCall WITH
    outcome <- [c \in Calls |-> Outcome(c)]

\* Calls in flight on one topic each get their own answer, if the responder
\* copies the correlation: the binding is a DeviceCall.
ImplementsDeviceCall == Abstract!Spec
=============================================================================
