--------------------------- MODULE GatewayStartup ---------------------------
(***************************************************************************)
(* The startup handshake of the MQTT gateway and the life of its           *)
(* connection: MqttGatewayBinding.serve, the _Startup record it waits on,  *)
(* _on_reconnect and _stop_serving.                                        *)
(*                                                                         *)
(* Two threads act.  The event loop runs serve and the callbacks posted to *)
(* it; paho's network thread exchanges packets with the broker, reconnects *)
(* when the connection is lost, and calls whatever on_connect and          *)
(* on_subscribe hold at that moment.  The broker and the network are the   *)
(* environment: they accept or refuse, and they may lose the connection at *)
(* any time, with everything in flight on it.                              *)
(***************************************************************************)
EXTENDS Integers, Sequences, FiniteSets, SequencesExt

CONSTANTS
    Things,         \* the fleet, in order: [name, topics, events]
    MaxStarts,      \* bound: how often the gateway is started
    MaxLosses,      \* bound: how often a connection is lost
    MaxRefusals     \* bound: how often the broker refuses a CONNECT

IsSequence(s) == s \in Seq(ToSet(s))

ThingsOk ==
    /\ IsSequence(Things)
    /\ \A i \in DOMAIN Things :
        /\ DOMAIN Things[i] = {"name", "topics", "events"}
        /\ IsSequence(Things[i].topics) /\ IsSequence(Things[i].events)
        /\ IsInjective(Things[i].topics)
        /\ \A j \in DOMAIN Things :
            i # j => ToSet(Things[i].topics) \cap ToSet(Things[j].topics) = {}

ASSUME StartupAssumption ==
    /\ ThingsOk
    /\ MaxStarts \in Nat /\ MaxLosses \in Nat /\ MaxRefusals \in Nat

Names  == {Things[i].name : i \in DOMAIN Things}
Topics == UNION {ToSet(Things[i].topics) : i \in DOMAIN Things}

VARIABLES
    pc,         \* where serve is: the coroutine on the event loop
    todo,       \* what is left of the _serve_thing loop
    routes,     \* _routes: the topics an inbound message is looked up in
    mirrors,    \* _event_tasks: the events a task is mirroring
    startup,    \* the _Startup record of the latest start
    loopq,      \* callbacks posted by call_soon_threadsafe, in order
    hook,       \* what paho.on_connect holds: "startup" or "reconnect"
    link,       \* the connection, as the network thread sees it
    out,        \* packets sent and not yet taken by the broker
    acks,       \* SUBACKs on their way back
    subs,       \* the broker's subscriptions of this session
    answered,   \* the topics the broker has answered in this session
    tds,        \* the Things whose TD the broker took in this session
    first,      \* the connection is the one serve itself opened
    welcomed,   \* which callback got this session's CONNACK
    starts, losses, refusals

client  == <<pc, todo, routes, mirrors, startup, hook, starts>>
session == <<out, acks, subs, answered, tds>>
vars    == <<client, loopq, link, session, first, welcomed, losses, refusals>>

------------------------------------------------------------------------------
(* What serve has to send, and the record it waits on.                     *)

Subscribe(topic) == [kind |-> "subscribe", name |-> topic]
Mirror(event)    == [kind |-> "mirror",    name |-> event]
Retain(name)     == [kind |-> "retain",    name |-> name]

Each(Op(_), seq) == [i \in DOMAIN seq |-> Op(seq[i])]

ServeThing(thing) ==
    Each(Subscribe, thing.topics) \o Each(Mirror, thing.events) \o <<Retain(thing.name)>>

ServeAgainTopicsOnly == Each(Subscribe, SetToSeq(routes))

\* What _on_reconnect sends: every route again, then every TD.
ServeAgain == Each(Subscribe, SetToSeq(routes)) \o Each(LAMBDA t : Retain(t.name), Things)

Fresh == [connected |-> FALSE, pending |-> {}, unsent |-> FALSE,
          refused |-> FALSE, done |-> FALSE]

Refuse(s) == [s EXCEPT !.refused = TRUE, !.done = TRUE]

Settle(s) == IF s.connected /\ s.pending = {} THEN [s EXCEPT !.done = TRUE] ELSE s

Sent(s, topic, ok) ==
    IF ok THEN [s EXCEPT !.pending = @ \cup {topic}] ELSE [s EXCEPT !.unsent = TRUE]

\* Mutant: the CONNACK alone ends the wait.
ConnackIsEnough(s, ok) ==
    IF ~ok \/ s.unsent THEN Refuse(s) ELSE [s EXCEPT !.connected = TRUE, !.done = TRUE]

Connack(s, ok) ==
    IF ~ok \/ s.unsent THEN Refuse(s) ELSE Settle([s EXCEPT !.connected = TRUE])

Suback(s, topic, ok) ==
    LET popped == [s EXCEPT !.pending = @ \ {topic}]
    IN  Settle(IF ~ok /\ topic \in s.pending THEN Refuse(popped) ELSE popped)

\* Packets are lost with the connection, and with them the session.
NewSession ==
    /\ out' = <<>> /\ acks' = <<>>
    /\ subs' = {} /\ answered' = {} /\ tds' = {}

------------------------------------------------------------------------------
Init ==
    /\ pc = "off" /\ todo = <<>> /\ routes = {} /\ mirrors = {}
    /\ startup = Fresh /\ loopq = <<>> /\ hook = "startup" /\ link = "none"
    /\ out = <<>> /\ acks = <<>> /\ subs = {} /\ answered = {} /\ tds = {}
    /\ first = FALSE /\ welcomed = "nobody"
    /\ starts = 0 /\ losses = 0 /\ refusals = 0

(* The event loop: serve.                                                  *)

\* A new _Startup and a new paho client; its connect runs off the loop.
Start ==
    /\ pc = "off" /\ starts < MaxStarts
    /\ pc' = "connecting" /\ startup' = Fresh /\ hook' = "startup"
    /\ starts' = starts + 1
    /\ UNCHANGED <<todo, routes, mirrors, loopq, link, session, first, welcomed,
                   losses, refusals>>

\* connect opened the connection and loop_start began the network thread.
Connected ==
    /\ pc = "connecting"
    /\ pc' = "subscribing" /\ link' = "opening"
    /\ todo' = FlattenSeq(Each(ServeThing, Things))
    /\ first' = TRUE /\ welcomed' = "nobody" /\ NewSession
    /\ UNCHANGED <<routes, mirrors, startup, loopq, hook, starts, losses, refusals>>

\* The broker cannot be reached, or start is cancelled while it connects.
ConnectFailed ==
    /\ pc = "connecting"
    /\ pc' = "off"
    /\ UNCHANGED <<todo, routes, mirrors, startup, loopq, hook, link, session,
                   first, welcomed, starts, losses, refusals>>

\* _subscribe: routed first, then handed to paho, which may have no connection.
ServeTopic ==
    /\ pc = "subscribing" /\ todo # <<>> /\ Head(todo).kind = "subscribe"
    /\ LET topic == Head(todo).name
           open  == link \in {"opening", "up"}
       IN  /\ routes' = routes \cup {topic}
           /\ startup' = Sent(startup, topic, open)
           /\ out' = IF open THEN Append(out, Head(todo)) ELSE out
    /\ todo' = Tail(todo)
    /\ UNCHANGED <<pc, mirrors, hook, starts, loopq, link, acks, subs, answered,
                   tds, first, welcomed, losses, refusals>>

ServeEvent ==
    /\ pc = "subscribing" /\ todo # <<>> /\ Head(todo).kind = "mirror"
    /\ mirrors' = mirrors \cup {Head(todo).name}
    /\ todo' = Tail(todo)
    /\ UNCHANGED <<pc, routes, startup, hook, starts, loopq, link, session,
                   first, welcomed, losses, refusals>>

RetainTd ==
    /\ pc = "subscribing" /\ todo # <<>> /\ Head(todo).kind = "retain"
    /\ out' = IF link \in {"opening", "up"} THEN Append(out, Head(todo)) ELSE out
    /\ todo' = Tail(todo)
    /\ UNCHANGED <<pc, routes, mirrors, startup, hook, starts, loopq, link, acks,
                   subs, answered, tds, first, welcomed, losses, refusals>>

Wait ==
    /\ pc = "subscribing" /\ todo = <<>>
    /\ pc' = "waiting"
    /\ UNCHANGED <<todo, routes, mirrors, startup, hook, starts, loopq, link,
                   session, first, welcomed, losses, refusals>>

\* The synchronous half of _stop_serving, up to its wait for the network thread.
StopServing == pc' = "stopping" /\ routes' = {} /\ mirrors' = {}

\* serve returns: the event is set, no refusal is recorded.
Served ==
    /\ pc = "waiting" /\ startup.done /\ ~startup.refused
    /\ pc' = "serving" /\ hook' = "reconnect"
    /\ UNCHANGED <<todo, routes, mirrors, startup, starts, loopq, link, session,
                   first, welcomed, losses, refusals>>

Refused ==
    /\ pc = "waiting" /\ startup.done /\ startup.refused
    /\ StopServing /\ hook' = "reconnect"
    /\ UNCHANGED <<todo, startup, starts, loopq, link, session, first, welcomed,
                   losses, refusals>>

\* wait_for gives up; the timer may win over an event that was just set.
TimedOut ==
    /\ pc = "waiting"
    /\ StopServing /\ startup' = Refuse(startup) /\ hook' = "reconnect"
    /\ UNCHANGED <<todo, starts, loopq, link, session, first, welcomed, losses,
                   refusals>>

\* Cancelled: the callbacks are swapped only after _stop_serving has finished.
Cancelled ==
    /\ pc = "waiting"
    /\ StopServing
    /\ UNCHANGED <<todo, startup, hook, starts, loopq, link, session, first,
                   welcomed, losses, refusals>>

Aclose ==
    /\ pc = "serving"
    /\ StopServing
    /\ UNCHANGED <<todo, startup, hook, starts, loopq, link, session, first,
                   welcomed, losses, refusals>>

\* loop_stop has joined the network thread, and the connection is closed.
Stopped ==
    /\ pc = "stopping"
    /\ pc' = "off" /\ link' = "none" /\ hook' = "reconnect" /\ NewSession
    /\ UNCHANGED <<todo, routes, mirrors, startup, starts, loopq, first, welcomed,
                   losses, refusals>>

\* A posted callback runs, between two steps of serve that await.  One posted
\* for an earlier start reaches that start's own record, which nobody reads.
RunCallback ==
    /\ pc # "subscribing" /\ loopq # <<>>
    /\ LET call == Head(loopq)
       IN  startup' = IF call.start # starts THEN startup
                      ELSE IF call.kind = "connack" THEN Connack(startup, call.ok)
                      ELSE Suback(startup, call.topic, call.ok)
    /\ loopq' = Tail(loopq)
    /\ UNCHANGED <<pc, todo, routes, mirrors, hook, starts, link, session, first,
                   welcomed, losses, refusals>>

------------------------------------------------------------------------------
(* The network thread and the broker.                                      *)

Post(call) == loopq' = Append(loopq, call)

\* The broker accepts: on_connect posts to the start, or serves again.
Accepted ==
    /\ link = "opening"
    /\ link' = "up" /\ welcomed' = hook
    /\ IF hook = "startup"
       THEN /\ Post([kind |-> "connack", start |-> starts, ok |-> TRUE])
            /\ UNCHANGED out
       ELSE /\ out' = out \o ServeAgain
            /\ UNCHANGED loopq
    /\ UNCHANGED <<client, acks, subs, answered, tds, first, losses, refusals>>

RefusedConnect ==
    /\ link = "opening" /\ refusals < MaxRefusals
    /\ link' = "down" /\ refusals' = refusals + 1 /\ NewSession
    /\ IF hook = "startup"
       THEN Post([kind |-> "connack", start |-> starts, ok |-> FALSE])
       ELSE UNCHANGED loopq
    /\ UNCHANGED <<client, first, welcomed, losses>>

\* The broker takes the next packet; it may refuse a subscription.
TakeSubscribe(ok) ==
    /\ link = "up" /\ out # <<>> /\ Head(out).kind = "subscribe"
    /\ LET topic == Head(out).name
       IN  /\ answered' = answered \cup {topic}
           /\ subs' = IF ok THEN subs \cup {topic} ELSE subs
           /\ acks' = Append(acks, [topic |-> topic, ok |-> ok])
    /\ out' = Tail(out)
    /\ UNCHANGED <<client, loopq, link, tds, first, welcomed, losses, refusals>>

TakeTd ==
    /\ link = "up" /\ out # <<>> /\ Head(out).kind = "retain"
    /\ tds' = tds \cup {Head(out).name} /\ out' = Tail(out)
    /\ UNCHANGED <<client, loopq, link, acks, subs, answered, first, welcomed,
                   losses, refusals>>

\* A SUBACK arrives; once serve is over, on_subscribe is None and it is ignored.
TakeSuback ==
    /\ link = "up" /\ acks # <<>>
    /\ IF hook = "startup"
       THEN Post([kind |-> "suback", start |-> starts,
                  topic |-> Head(acks).topic, ok |-> Head(acks).ok])
       ELSE UNCHANGED loopq
    /\ acks' = Tail(acks)
    /\ UNCHANGED <<client, link, out, subs, answered, tds, first, welcomed,
                   losses, refusals>>

Lose ==
    /\ link \in {"opening", "up"} /\ losses < MaxLosses
    /\ link' = "down" /\ losses' = losses + 1 /\ NewSession
    /\ UNCHANGED <<client, loopq, first, welcomed, refusals>>

\* paho's loop connects again, unless disconnect was called.
Reconnect ==
    /\ link = "down" /\ pc # "stopping"
    /\ link' = "opening" /\ first' = FALSE /\ welcomed' = "nobody"
    /\ UNCHANGED <<client, loopq, session, losses, refusals>>

------------------------------------------------------------------------------
Serve   == Connected \/ ConnectFailed \/ ServeTopic \/ ServeEvent \/ RetainTd
             \/ Wait \/ Served \/ Refused \/ Stopped
GiveUp  == TimedOut \/ Cancelled \/ Aclose
Network == Accepted \/ TakeTd \/ TakeSuback \/ Reconnect
             \/ \E ok \in BOOLEAN : TakeSubscribe(ok)

Next == Start \/ Serve \/ GiveUp \/ RunCallback \/ Network \/ RefusedConnect \/ Lose

Spec == Init /\ [][Next]_vars

\* The loop runs what is ready, paho's thread keeps reading, and the broker
\* answers.  Nobody has to start, cancel, close, or lose a connection, and the
\* timer is left out, so that nothing below holds only because start gave up.
Fairness == WF_vars(Serve) /\ WF_vars(RunCallback) /\ WF_vars(Network)

FairSpec == Spec /\ Fairness

------------------------------------------------------------------------------
Queued(topic) == \E i \in DOMAIN out : out[i] = Subscribe(topic)

\* Every routed topic is subscribed on the live session, or its SUBSCRIBE is
\* on the way to the broker, or the broker has refused it.
Covered == \A topic \in routes : topic \in answered \/ Queued(topic)

\* serve reports success only when every topic of the fleet is routed and its
\* subscription granted, as long as the connection it opened is still there; and a
\* serving gateway whose session was opened by serve, or welcomed by _on_reconnect,
\* has asked for every topic it routes.
ServedMeansSubscribed ==
    pc = "serving" /\ link = "up" =>
        /\ first => routes = Topics /\ Topics \subseteq subs
        /\ first \/ welcomed = "reconnect" => Covered

\* A gateway whose connection was lost while it served answers on every topic
\* again, once it is reconnected and stays so.
ServesAgain ==
    (pc = "serving" /\ welcomed = "reconnect" /\ link = "up")
        ~> ((routes \subseteq answered /\ Names \subseteq tds) \/ link # "up" \/ pc # "serving")
=============================================================================
