------------------------- MODULE MqttConsumer_proofs -------------------------
(***************************************************************************)
(* A call of the MQTT consumer is a call to a device, for any calls of any *)
(* kinds, whatever the broker and the device do: the refinement that       *)
(* MqttConsumer.cfg checks for two calls.                                  *)
(***************************************************************************)
EXTENDS MqttConsumer, TLAPS

\* What is posted to a call, or is its result, as a value came from the device that
\* carried it out; a read of a retained topic has its value from the broker.
Note == [what : {"value", "unserved", "refused"}, of : Calls]
Owned(c, kind, what, of, carried) == what = "value" => of = c /\ (kind = "retained" \/ carried)

\* The coroutine r and the connection n of a call, whose request may be at the device
\* and may be carried out.
Fits(c, r, n, asked, carried) ==
    /\ DOMAIN r = {"kind", "phase", "attempt", "fut", "of", "posted"}
    /\ r.posted \in Seq(Note)
    /\ \A i \in DOMAIN r.posted : Owned(c, r.kind, r.posted[i].what, r.posted[i].of, carried)
    /\ Owned(c, r.kind, r.fut, r.of, carried)
    /\ r.phase = "idle" => r.fut = "pending" /\ r.posted = <<>> /\ ~asked /\ ~n.up
    /\ r.phase = "ended" => r.fut # "pending"
    /\ DOMAIN n = {"up", "sub", "sent", "msg", "ack", "taken", "connacks", "drops"}
    /\ n.ack \in {"none", "stored", "unserved", "refused"}

CallOf(c) == Fits(c, call[c], net[c], c \in inbox, c \in ran)

Corresponds ==
    /\ DOMAIN call = Calls /\ DOMAIN net = Calls
    /\ \A c \in Calls : CallOf(c)

\* A step of one call, by the coroutine and the connection it leaves.
LEMMA OneCall ==
    ASSUME Corresponds, NEW c \in Calls, DOMAIN call' = Calls, DOMAIN net' = Calls,
           \A d \in Calls \ {c} : /\ call'[d] = call[d] /\ net'[d] = net[d]
                                  /\ d \in inbox' => d \in inbox
                                  /\ d \in ran' <=> d \in ran,
           Fits(c, call'[c], net'[c], c \in inbox', c \in ran')
    PROVE  Corresponds'
<1>1. ASSUME NEW d \in Calls PROVE CallOf(d)'
  <2>1. CASE d = c
    BY <2>1 DEF CallOf
  <2>2. CASE d # c
    <3>1. Fits(d, call[d], net[d], d \in inbox, d \in ran)
      BY DEF Corresponds, CallOf
    <3>2. Fits(d, call'[d], net'[d], d \in inbox', d \in ran')
      BY <2>2, <3>1 DEF Fits, Owned
    <3> QED BY <3>2 DEF CallOf
  <2> QED BY <2>1, <2>2
<1> QED BY <1>1 DEF Corresponds

\* What a call ends with is its own.
EndsWell(c, fut) == fut # "pending" /\ (fut = "value" => call[c].fut = "value")

LEMMA EndedStep ==
    ASSUME Corresponds, NEW c \in Calls, NEW fut, EndsWell(c, fut), Ended(c, fut),
           call[c].phase # "idle", UNCHANGED <<inbox, ran>>
    PROVE  Corresponds'
<1>1. Fits(c, call[c], net[c], c \in inbox, c \in ran) /\ DOMAIN call = Calls /\ DOMAIN net = Calls
  BY DEF Corresponds, CallOf
<1>2. /\ call'[c] = [call[c] EXCEPT !.phase = "ended", !.attempt = 1, !.fut = fut, !.posted = <<>>]
      /\ net'[c] = [Down EXCEPT !.msg = net[c].msg, !.drops = net[c].drops]
      /\ DOMAIN call' = Calls /\ DOMAIN net' = Calls
      /\ \A d \in Calls \ {c} : call'[d] = call[d] /\ net'[d] = net[d]
  BY <1>1 DEF Ended
<1>3. Fits(c, call'[c], net'[c], c \in inbox', c \in ran')
  BY <1>1, <1>2 DEF Fits, Owned, EndsWell, Down
<1> QED BY <1>2, <1>3, OneCall

\* A step that leaves the result, what is posted and what is asked as they are.
LEMMA QuietStep ==
    ASSUME Corresponds, NEW c \in Calls, DOMAIN call' = Calls, DOMAIN net' = Calls,
           \A d \in Calls \ {c} : call'[d] = call[d] /\ net'[d] = net[d],
           UNCHANGED <<inbox, ran>>, DOMAIN call'[c] = DOMAIN call[c],
           call'[c].kind = call[c].kind, call'[c].fut = call[c].fut,
           call'[c].of = call[c].of, call'[c].posted = call[c].posted,
           call'[c].phase = call[c].phase
               \/ (call[c].phase \notin {"idle", "ended"} /\ call'[c].phase \notin {"idle", "ended"}),
           DOMAIN net'[c] = DOMAIN net[c],
           net'[c].ack \in {net[c].ack, "none"},
           call[c].phase = "idle" => ~net'[c].up
    PROVE  Corresponds'
<1>1. Fits(c, call[c], net[c], c \in inbox, c \in ran)
  BY DEF Corresponds, CallOf
<1>2. Fits(c, call'[c], net'[c], c \in inbox', c \in ran')
  BY <1>1 DEF Fits, Owned
<1> QED BY <1>2, OneCall

\* Every step of the binding, the network, the broker and the device.  That the device
\* copies the correlation back is what keeps a reply from the other calls.
LEMMA ConsumerStep == Echoes /\ Corresponds /\ [Next]_vars => Corresponds'
<1> SUFFICES ASSUME Echoes, Corresponds, [Next]_vars PROVE Corresponds'
  OBVIOUS
<1>a. DOMAIN call = Calls /\ DOMAIN net = Calls
      /\ \A c \in Calls : Fits(c, call[c], net[c], c \in inbox, c \in ran)
  BY DEF Corresponds, CallOf
<1>b. \A c \in Calls : /\ DOMAIN call[c] = {"kind", "phase", "attempt", "fut", "of", "posted"}
                       /\ DOMAIN net[c] = {"up", "sub", "sent", "msg", "ack", "taken", "connacks", "drops"}
                       /\ call[c].posted \in Seq(Note)
  BY <1>a DEF Fits
<1>c. \A c \in Calls : /\ call[c].phase = "idle" => /\ call[c].fut = "pending" /\ call[c].posted = <<>>
                                                    /\ c \notin inbox /\ ~net[c].up
                       /\ call[c].phase = "ended" => call[c].fut # "pending"
                       /\ net[c].ack \in {"none", "stored", "unserved", "refused"}
  BY <1>a DEF Fits
<1>1. CASE UNCHANGED vars
  BY <1>a, <1>1 DEF vars, device, Corresponds, CallOf
<1>2. ASSUME NEW c \in Calls, Begin(c) PROVE Corresponds'
  <2>1. PICK k : /\ call[c].phase = "idle" /\ net' = net /\ inbox' = inbox /\ ran' = ran
                 /\ \/ call' = [call EXCEPT ![c].kind = k, ![c].phase = "connecting"]
                    \/ call' = [call EXCEPT ![c].kind = k, ![c].phase = "ended", ![c].fut = "error"]
    BY <1>2 DEF Begin, At, device
  <2>2. /\ DOMAIN call' = Calls /\ \A d \in Calls \ {c} : call'[d] = call[d]
        /\ \/ call'[c] = [call[c] EXCEPT !.kind = k, !.phase = "connecting"]
           \/ call'[c] = [call[c] EXCEPT !.kind = k, !.phase = "ended", !.fut = "error"]
    BY <1>a, <2>1
  <2>3. Fits(c, call[c], net[c], c \in inbox, c \in ran)
    BY <1>a
  <2>4. Fits(c, call'[c], net'[c], c \in inbox', c \in ran')
    BY <2>1, <2>2, <2>3 DEF Fits, Owned
  <2> QED BY <1>a, <2>1, <2>2, <2>4, OneCall
<1>3. ASSUME NEW c \in Calls, Connack(c) PROVE Corresponds'
  <2>1. /\ call[c].phase \in {"connecting", "shutting"} /\ call' = call /\ inbox' = inbox /\ ran' = ran
        /\ net' = [net EXCEPT ![c].up = TRUE, ![c].sent = FirstPackets(c),
                              ![c].connacks = @ \cup {call[c].attempt}]
    BY <1>3 DEF Connack, device
  <2>2. /\ DOMAIN net' = Calls /\ \A d \in Calls \ {c} : net'[d] = net[d]
        /\ DOMAIN net'[c] = DOMAIN net[c] /\ net'[c].ack = net[c].ack
    BY <1>a, <1>b, <2>1
  <2> QED BY <1>a, <2>1, <2>2, QuietStep
<1>4. ASSUME NEW c \in Calls, Established(c) PROVE Corresponds'
  <2>1. PICK p \in {"open", "waiting", "connected"} :
           /\ call[c].phase = "connecting" /\ call' = [call EXCEPT ![c].phase = p]
           /\ inbox' = inbox /\ ran' = ran
           /\ net' = [net EXCEPT ![c].connacks = {}]
    BY <1>4 DEF Established, device, Goto, At
  <2>2. /\ DOMAIN net' = Calls /\ DOMAIN call' = Calls
        /\ \A d \in Calls \ {c} : net'[d] = net[d] /\ call'[d] = call[d]
        /\ DOMAIN net'[c] = DOMAIN net[c] /\ net'[c].ack = net[c].ack
        /\ DOMAIN call'[c] = DOMAIN call[c] /\ call'[c].phase = p
        /\ call'[c].kind = call[c].kind /\ call'[c].fut = call[c].fut
        /\ call'[c].of = call[c].of /\ call'[c].posted = call[c].posted
    BY <1>a, <1>b, <2>1
  <2> QED BY <2>1, <2>2, QuietStep
<1>5. ASSUME NEW c \in Calls, NEW p \in {"shutting", "waiting", "reading", "dropped"},
             call[c].phase \in {"connecting", "storing", "open"},
             call' = [call EXCEPT ![c].phase = p], UNCHANGED <<net, inbox, ran>>
      PROVE  Corresponds'
  <2>1. /\ DOMAIN call' = Calls /\ \A d \in Calls \ {c} : call'[d] = call[d]
        /\ DOMAIN call'[c] = DOMAIN call[c] /\ call'[c].phase = p
        /\ call'[c].kind = call[c].kind /\ call'[c].fut = call[c].fut
        /\ call'[c].of = call[c].of /\ call'[c].posted = call[c].posted
    BY <1>a, <1>b, <1>5
  <2> QED BY <1>a, <1>5, <2>1, QuietStep
<1>6. ASSUME NEW c \in Calls, AttemptTimesOut(c) \/ ReadStream(c) \/ DropStream(c) PROVE Corresponds'
  BY <1>5, <1>6 DEF AttemptTimesOut, ReadStream, DropStream, Goto, At, device
<1>7. ASSUME NEW c \in Calls, AttemptEnds(c) PROVE Corresponds'
  <2>1. call[c].phase = "shutting" /\ inbox' = inbox /\ ran' = ran
    BY <1>7 DEF AttemptEnds, At, device
  <2>2. CASE Ended(c, "error")
    BY <2>1, <2>2, EndedStep DEF EndsWell
  <2>3. CASE /\ call' = [call EXCEPT ![c].phase = "connecting", ![c].attempt = @ + 1]
             /\ net' = [net EXCEPT ![c] = [Down EXCEPT !.connacks = net[c].connacks]]
    <3>1. /\ DOMAIN net' = Calls /\ DOMAIN call' = Calls
          /\ \A d \in Calls \ {c} : net'[d] = net[d] /\ call'[d] = call[d]
          /\ net'[c] = [Down EXCEPT !.connacks = net[c].connacks]
      BY <1>a, <2>3
    <3>2. DOMAIN net'[c] = DOMAIN net[c] /\ net'[c].ack = "none"
      BY <1>b, <3>1 DEF Down
    <3>3. /\ DOMAIN call'[c] = DOMAIN call[c] /\ call'[c].phase = "connecting"
          /\ call'[c].kind = call[c].kind /\ call'[c].fut = call[c].fut
          /\ call'[c].of = call[c].of /\ call'[c].posted = call[c].posted
      BY <1>a, <1>b, <2>3
    <3>4. \/ call'[c].phase = call[c].phase
          \/ call[c].phase \notin {"idle", "ended"} /\ call'[c].phase \notin {"idle", "ended"}
      BY <2>1, <3>3
    <3>5. call[c].phase # "idle" /\ net'[c].ack \in {net[c].ack, "none"} /\ UNCHANGED <<inbox, ran>>
      BY <2>1, <3>2
    <3>6. \A d \in Calls \ {c} : call'[d] = call[d] /\ net'[d] = net[d]
      BY <3>1
    <3>7. DOMAIN net' = Calls /\ DOMAIN call' = Calls /\ DOMAIN net'[c] = DOMAIN net[c]
      BY <3>1, <3>2
    <3> QED BY <1>a, <3>3, <3>4, <3>5, <3>6, <3>7, QuietStep
  <2> QED BY <1>7, <2>2, <2>3 DEF AttemptEnds
<1>8. ASSUME NEW c \in Calls, Drop(c) PROVE Corresponds'
  <2>1. /\ call' = call /\ inbox' = inbox /\ ran' = ran
        /\ net' = [net EXCEPT ![c] = [@ EXCEPT !.up = FALSE, !.sub = FALSE, !.sent = <<>>,
                                               !.ack = "none", !.taken = FALSE, !.drops = net[c].drops + 1]]
    BY <1>8 DEF Drop, device
  <2>2. /\ DOMAIN net' = Calls /\ \A d \in Calls \ {c} : net'[d] = net[d]
        /\ DOMAIN net'[c] = DOMAIN net[c] /\ net'[c].ack = "none" /\ ~net'[c].up
    BY <1>a, <1>b, <2>1
  <2> QED BY <1>a, <2>1, <2>2, QuietStep
<1>9. ASSUME NEW c \in Calls, Reconnect(c) PROVE Corresponds'
  <2>1. /\ call[c].phase \in {"connected", "storing", "waiting", "open", "reading", "dropped"}
        /\ call' = call /\ inbox' = inbox /\ ran' = ran
        /\ net' = [net EXCEPT ![c].up = TRUE, ![c].sent = FirstPackets(c)]
    BY <1>9 DEF Reconnect, device
  <2>2. /\ DOMAIN net' = Calls /\ \A d \in Calls \ {c} : net'[d] = net[d]
        /\ DOMAIN net'[c] = DOMAIN net[c] /\ net'[c].ack = net[c].ack
    BY <1>a, <1>b, <2>1
  <2> QED BY <1>a, <2>1, <2>2, QuietStep
<1>10. ASSUME NEW c \in Calls, Publish(c) PROVE Corresponds'
  <2>1. PICK p, q :
           /\ p \in {"waiting", "storing"} /\ call[c].phase = "connected" /\ call' = [call EXCEPT ![c].phase = p]
           /\ inbox' = inbox /\ ran' = ran
           /\ net' = [net EXCEPT ![c] = [net[c] EXCEPT !.msg = "unacked", !.sent = q]]
    BY <1>a, <1>10 DEF Publish, device, Goto, At
  <2>2. /\ DOMAIN net' = Calls /\ DOMAIN call' = Calls
        /\ \A d \in Calls \ {c} : net'[d] = net[d] /\ call'[d] = call[d]
        /\ DOMAIN net'[c] = DOMAIN net[c] /\ net'[c].ack = net[c].ack
        /\ DOMAIN call'[c] = DOMAIN call[c] /\ call'[c].phase = p
        /\ call'[c].kind = call[c].kind /\ call'[c].fut = call[c].fut
        /\ call'[c].of = call[c].of /\ call'[c].posted = call[c].posted
    BY <1>a, <1>b, <2>1
  <2> QED BY <2>1, <2>2, QuietStep
\* What is posted is appended to what was.
<1>p. ASSUME NEW c \in Calls, NEW what \in {"value", "unserved", "refused"}, call[c].phase # "idle",
             \/ call'[c] = call[c]
             \/ call'[c] = [call[c] EXCEPT !.posted = Append(@, [what |-> what, of |-> c])],
             Owned(c, call[c].kind, what, c, c \in ran'), c \in ran => c \in ran',
             DOMAIN call' = Calls, \A d \in Calls \ {c} : call'[d] = call[d],
             DOMAIN net' = Calls, \A d \in Calls \ {c} : net'[d] = net[d],
             DOMAIN net'[c] = DOMAIN net[c], net'[c].ack \in {"none", "stored", "unserved", "refused"},
             \A d \in Calls \ {c} : (d \in inbox' => d \in inbox) /\ (d \in ran' <=> d \in ran)
      PROVE  Corresponds'
  <2>1. Fits(c, call[c], net[c], c \in inbox, c \in ran)
    BY <1>a
  <2>2. CASE call'[c] = call[c]
    <3>1. Fits(c, call'[c], net'[c], c \in inbox', c \in ran')
      BY <1>p, <2>1, <2>2 DEF Fits, Owned
    <3> QED BY <1>p, <3>1, OneCall
  <2>3. CASE call'[c] = [call[c] EXCEPT !.posted = Append(@, [what |-> what, of |-> c])]
    <3> DEFINE it == [what |-> what, of |-> c]
    <3> DEFINE q == Append(call[c].posted, it)
    <3>1. it \in Note /\ it.what = what /\ it.of = c
      BY DEF Note
    <3>2. /\ DOMAIN call'[c] = DOMAIN call[c] /\ call'[c].posted = q
          /\ call'[c].phase = call[c].phase /\ call'[c].fut = call[c].fut
          /\ call'[c].of = call[c].of /\ call'[c].kind = call[c].kind
      BY <1>b, <2>3
    <3> HIDE DEF it
    <3>3. PICK z \in Nat : z = Len(call[c].posted)
      BY <1>b
    <3>4. /\ q \in Seq(Note) /\ Len(q) = z + 1 /\ q[z + 1] = it
          /\ \A i \in 1 .. z : q[i] = call[c].posted[i]
      BY <1>b, <3>1, <3>3
    <3> HIDE DEF q
    <3>5. DOMAIN q = 1 .. z + 1 /\ DOMAIN call[c].posted = 1 .. z
      BY <1>b, <3>3, <3>4
    <3>6. \A i \in 1 .. z + 1 : i \in 1 .. z \/ i = z + 1
      BY <3>3
    <3>7. ASSUME NEW i \in DOMAIN q PROVE Owned(c, call[c].kind, q[i].what, q[i].of, c \in ran')
      <4>1. CASE i \in 1 .. z
        BY <1>p, <2>1, <3>4, <3>5, <4>1 DEF Fits, Owned
      <4>2. CASE i = z + 1
        BY <1>p, <3>1, <3>4, <4>2
      <4> QED BY <3>5, <3>6, <4>1, <4>2
    <3>8. Fits(c, call'[c], net'[c], c \in inbox', c \in ran')
      <4>1. Owned(c, call'[c].kind, call'[c].fut, call'[c].of, c \in ran')
        BY <1>p, <2>1, <3>2 DEF Fits, Owned
      <4>2. /\ call'[c].posted \in Seq(Note)
            /\ \A i \in DOMAIN call'[c].posted :
                 Owned(c, call'[c].kind, call'[c].posted[i].what, call'[c].posted[i].of, c \in ran')
        BY <3>2, <3>4, <3>7
      <4>3. /\ DOMAIN call'[c] = DOMAIN call[c] /\ call'[c].phase = call[c].phase /\ call'[c].fut = call[c].fut
            /\ call[c].phase # "idle"
        BY <1>p, <3>2
      <4>4. DOMAIN net'[c] = DOMAIN net[c] /\ net'[c].ack \in {"none", "stored", "unserved", "refused"}
        BY <1>p
      <4> QED BY ONLY <2>1, <4>1, <4>2, <4>3, <4>4 DEF Fits
    <3> QED BY <1>p, <3>8, OneCall
  <2> QED BY <1>p, <2>2, <2>3
<1>11. ASSUME NEW c \in Calls, BrokerTakes(c) PROVE Corresponds'
  <2>1. net[c].up /\ ran' = ran
    BY <1>11 DEF BrokerTakes
  <2>2. call[c].phase # "idle"
    BY <1>c, <2>1
  <2>3. CASE /\ net' = [net EXCEPT ![c].sub = TRUE, ![c].sent = Tail(@)] /\ inbox' = inbox
             /\ call' = call \/ (Is(c, {"retained"}) /\ call' = Post({c}, c, "value"))
    <3>1. /\ DOMAIN net' = Calls /\ \A d \in Calls \ {c} : net'[d] = net[d]
          /\ DOMAIN net'[c] = DOMAIN net[c] /\ net'[c].ack = net[c].ack
      BY <1>a, <1>b, <2>3
    <3>2. CASE call' = call
      BY <1>a, <2>1, <2>2, <2>3, <3>1, <3>2, QuietStep
    <3>3. CASE Is(c, {"retained"}) /\ call' = Post({c}, c, "value")
      <4>1. /\ DOMAIN call' = Calls /\ \A d \in Calls \ {c} : call'[d] = call[d]
            /\ \/ call'[c] = call[c]
               \/ call'[c] = [call[c] EXCEPT !.posted = Append(@, [what |-> "value", of |-> c])]
        BY <1>a, <3>3 DEF Post
      <4>2. Owned(c, call[c].kind, "value", c, c \in ran')
        BY <3>3 DEF Owned, Is
      <4> QED BY <1>c, <1>p, <2>1, <2>2, <2>3, <3>1, <4>1, <4>2
    <3> QED BY <2>3, <3>2, <3>3
  <2>4. ASSUME NEW reason \in {"stored", "unserved", "refused"},
               net' = [net EXCEPT ![c].ack = reason, ![c].sent = Tail(@), ![c].taken = reason = "stored"],
               inbox' = IF reason = "stored" THEN inbox \cup {c} ELSE inbox, call' = call
        PROVE  Corresponds'
    <3>1. /\ DOMAIN net' = Calls /\ \A d \in Calls \ {c} : net'[d] = net[d]
          /\ DOMAIN net'[c] = DOMAIN net[c] /\ net'[c].ack = reason
      BY <1>a, <1>b, <2>4
    <3>2. \A d \in Calls \ {c} : d \in inbox' => d \in inbox
      BY <2>4
    <3>3. Owned(c, call[c].kind, "refused", c, c \in ran')
      BY DEF Owned
    <3> QED BY <1>a, <1>p, <2>1, <2>2, <2>4, <3>1, <3>2, <3>3
  <2> QED BY <1>11, <2>3, <2>4 DEF BrokerTakes
<1>12. ASSUME NEW c \in Calls, Puback(c) PROVE Corresponds'
  <2>1. /\ net[c].up /\ inbox' = inbox /\ ran' = ran /\ net[c].ack # "none"
        /\ call' = IF Asks(c) /\ net[c].ack # "stored"
                   THEN [call EXCEPT ![c].posted = Append(@, [what |-> net[c].ack, of |-> c])] ELSE call
    BY <1>12 DEF Puback, device
  <2>2. PICK m : net' = [net EXCEPT ![c] = [net[c] EXCEPT !.msg = m, !.ack = "none"]]
    BY <1>a, <1>12 DEF Puback
  <2>3. /\ DOMAIN net' = Calls /\ \A d \in Calls \ {c} : net'[d] = net[d]
        /\ DOMAIN net'[c] = DOMAIN net[c] /\ net'[c].ack = "none"
    BY <1>a, <1>b, <2>2
  <2>4. call[c].phase # "idle"
    BY <1>c, <2>1
  <2>5. CASE call' = call
    BY <1>a, <2>1, <2>3, <2>4, <2>5, QuietStep
  <2>6. CASE net[c].ack \in {"unserved", "refused"}
             /\ call' = [call EXCEPT ![c].posted = Append(@, [what |-> net[c].ack, of |-> c])]
    <3>1. /\ DOMAIN call' = Calls /\ \A d \in Calls \ {c} : call'[d] = call[d]
          /\ call'[c] = [call[c] EXCEPT !.posted = Append(@, [what |-> net[c].ack, of |-> c])]
      BY <1>a, <2>6
    <3>2. Owned(c, call[c].kind, net[c].ack, c, c \in ran') /\ net[c].ack \in {"value", "unserved", "refused"}
      BY <2>6 DEF Owned
    <3> QED BY <1>p, <2>1, <2>3, <2>4, <3>1, <3>2
  <2>7. net[c].ack \in {"stored", "unserved", "refused"}
    BY <1>c, <2>1
  <2> QED BY <2>1, <2>5, <2>6, <2>7
<1>13. ASSUME NEW c \in Calls, DeviceRuns(c) PROVE Corresponds'
  <2> DEFINE hear == {d \in Calls : /\ net[d].up /\ net[d].sub /\ call[d].kind = call[c].kind
                                    /\ Answers(d, c)}
  <2>1. /\ c \in inbox /\ inbox' = inbox \ {c} /\ ran' = ran \cup {c} /\ net' = net
        /\ call' = IF Asks(c) THEN Post(hear, c, "value") ELSE call
    BY <1>13 DEF DeviceRuns
  <2>2. hear \subseteq {c}
    BY DEF Answers
  <2> HIDE DEF hear
  <2>3. /\ DOMAIN call' = Calls /\ \A d \in Calls \ {c} : call'[d] = call[d]
        /\ \/ call'[c] = call[c]
           \/ call'[c] = [call[c] EXCEPT !.posted = Append(@, [what |-> "value", of |-> c])]
    BY <1>a, <2>1, <2>2 DEF Post
  <2>4. call[c].phase # "idle" /\ Owned(c, call[c].kind, "value", c, c \in ran')
    BY <1>c, <2>1 DEF Owned
  <2>5. net'[c].ack \in {"none", "stored", "unserved", "refused"} /\ DOMAIN net' = Calls
    BY <1>a, <1>c, <2>1
  <2> QED BY <1>p, <2>1, <2>3, <2>4, <2>5
<1>14. ASSUME NEW c \in Calls, Callback(c) PROVE Corresponds'
  <2> DEFINE s == call[c].posted
  <2> DEFINE p == Head(s)
  <2>1. /\ s # <<>> /\ net' = net /\ inbox' = inbox /\ ran' = ran
        /\ call' = [call EXCEPT ![c].posted = Tail(@),
                                ![c].fut = IF @ = "pending" THEN p.what ELSE @,
                                ![c].of = IF call[c].fut = "pending" THEN p.of ELSE @]
    BY <1>14 DEF Callback, device
  <2>2. Fits(c, call[c], net[c], c \in inbox, c \in ran)
    BY <1>a
  <2>3. PICK z \in Nat : z = Len(s)
    BY <1>b
  <2>4. /\ Tail(s) \in Seq(Note) /\ z > 0 /\ p = s[1] /\ p \in Note /\ Len(Tail(s)) = z - 1
        /\ \A i \in 1 .. z - 1 : Tail(s)[i] = s[i + 1]
    BY <1>b, <2>1, <2>3
  <2>5. DOMAIN s = 1 .. z /\ DOMAIN Tail(s) = 1 .. z - 1 /\ 1 \in 1 .. z
    BY <1>b, <2>3, <2>4
  <2>6. \A i \in 1 .. z - 1 : i + 1 \in 1 .. z
    BY <2>3
  <2>7. \A i \in DOMAIN s : Owned(c, call[c].kind, s[i].what, s[i].of, c \in ran)
    BY <2>2 DEF Fits
  <2>8. /\ Owned(c, call[c].kind, p.what, p.of, c \in ran) /\ p.what # "pending"
        /\ \A i \in DOMAIN Tail(s) : Owned(c, call[c].kind, Tail(s)[i].what, Tail(s)[i].of, c \in ran)
    <3>1. p.what # "pending"
      BY <2>4 DEF Note
    <3> HIDE DEF s
    <3> QED BY <2>4, <2>5, <2>6, <2>7, <3>1
  <2>9. /\ DOMAIN call' = Calls /\ \A d \in Calls \ {c} : call'[d] = call[d]
        /\ DOMAIN call'[c] = DOMAIN call[c] /\ call'[c].posted = Tail(s)
        /\ call'[c].phase = call[c].phase /\ call'[c].kind = call[c].kind
        /\ call'[c].fut = (IF call[c].fut = "pending" THEN p.what ELSE call[c].fut)
        /\ call'[c].of = (IF call[c].fut = "pending" THEN p.of ELSE call[c].of)
    <3> DEFINE t == Tail(s)
    <3> HIDE DEF p
    <3> QED BY <1>a, <1>b, <2>1
  <2>10. call[c].phase # "idle"
    <3>1. call[c].phase = "idle" => call[c].posted = <<>>
      BY <1>14, <1>c
    <3>2. call[c].posted # <<>>
      BY Zenon, <1>14 DEF Callback
    <3> QED BY ONLY <3>1, <3>2
  <2> HIDE DEF p, s
  <2>11. Fits(c, call'[c], net'[c], c \in inbox', c \in ran')
    <3>1. Owned(c, call'[c].kind, call'[c].fut, call'[c].of, c \in ran')
      <4>1. CASE call[c].fut = "pending"
        BY <2>1, <2>8, <2>9, <4>1
      <4>2. CASE call[c].fut # "pending"
        BY <2>1, <2>2, <2>9, <4>2 DEF Fits
      <4> QED BY <4>1, <4>2
    <3>2. call'[c].phase = "ended" => call'[c].fut # "pending"
      BY <1>c, <2>9
    <3>3. \A i \in DOMAIN call'[c].posted :
             Owned(c, call'[c].kind, call'[c].posted[i].what, call'[c].posted[i].of, c \in ran')
      BY <2>1, <2>8, <2>9
    <3>4. call'[c].posted \in Seq(Note)
      BY <2>4, <2>9
    <3> QED BY <1>b, <1>c, <2>1, <2>9, <2>10, <3>1, <3>2, <3>3, <3>4 DEF Fits
  <2> QED BY <1>a, <2>1, <2>9, <2>11, OneCall
<1>15. ASSUME NEW c \in Calls, PublishAwaited(c) \/ GetsAnswer(c) \/ Cancelled(c) \/ CloseStream(c) PROVE Corresponds'
  <2>1. /\ inbox' = inbox /\ ran' = ran
        /\ call[c].phase \in {"storing", "waiting", "connecting", "shutting", "connected", "reading"}
    BY <1>15 DEF PublishAwaited, GetsAnswer, Cancelled, CloseStream, At, device
  <2>2. \/ Ended(c, "ok") \/ Ended(c, "error")
        \/ Ended(c, IF call[c].fut = "pending" THEN "timeout" ELSE call[c].fut)
        \/ call[c].phase = "storing" /\ call' = [call EXCEPT ![c].phase = "waiting"] /\ net' = net
    BY <1>15 DEF PublishAwaited, GetsAnswer, Cancelled, CloseStream, Goto, At
  <2>3. EndsWell(c, "ok") /\ EndsWell(c, "error")
        /\ EndsWell(c, IF call[c].fut = "pending" THEN "timeout" ELSE call[c].fut)
    BY DEF EndsWell
  <2> QED BY <1>5, <2>1, <2>2, <2>3, EndedStep
<1>16. CASE BeginClose \/ EndClose
  BY <1>16 DEF BeginClose, EndClose, device, Corresponds, CallOf
<1>17. CASE ShutOne
  <2>1. PICK c : net' = [net EXCEPT ![c] = [Down EXCEPT !.drops = net[c].drops]]
                 /\ call' = call /\ inbox' = inbox /\ ran' = ran
    BY <1>17 DEF ShutOne, device
  <2>2. CASE c \in Calls
    <3>1. /\ DOMAIN net' = Calls /\ \A d \in Calls \ {c} : net'[d] = net[d]
          /\ net'[c] = [Down EXCEPT !.drops = net[c].drops]
      BY <1>a, <2>1, <2>2
    <3>2. DOMAIN net'[c] = DOMAIN net[c] /\ net'[c].ack = "none" /\ ~net'[c].up
      BY <1>b, <2>2, <3>1 DEF Down
    <3> QED BY <1>a, <2>1, <2>2, <3>1, <3>2, QuietStep
  <2>3. CASE c \notin Calls
    <3>1. DOMAIN net' = Calls /\ \A d \in Calls : net'[d] = net[d]
      BY <1>a, <2>1, <2>3
    <3> QED BY <1>a, <2>1, <3>1 DEF Corresponds, CallOf
  <2> QED BY <2>2, <2>3
<1> QED BY <1>1, <1>2, <1>3, <1>4, <1>6, <1>7, <1>8, <1>9, <1>10, <1>11, <1>12, <1>13, <1>14, <1>15,
           <1>16, <1>17 DEF Next, Coroutine

------------------------------------------------------------------------------
(* The steps of the abstract call.                                         *)

\* A step of one call that has no place in the abstract one, or its end.
LEMMA StepOfOne ==
    ASSUME Corresponds, Corresponds', NEW c \in Calls,
           DOMAIN call' = Calls, \A d \in Calls \ {c} : call'[d] = call[d], ran' = ran,
           \/ Outcome(c)' = Outcome(c)
           \/ Outcome(c) = "idle" /\ Outcome(c)' \in {"open", "error"}
           \/ Outcome(c) = "open" /\ call'[c].phase = "ended"
    PROVE  [Abstract!Next]_(Abstract!vars)
<1> DEFINE O == [d \in Calls |-> Outcome(d)]
<1>1. \A d \in Calls \ {c} : Outcome(d)' = Outcome(d)
  BY DEF Outcome, At, Is
<1>2. O' = [O EXCEPT ![c] = Outcome(c)']
  BY <1>1
<1>3. CASE Outcome(c)' = Outcome(c)
  <2>1. O' = O
    BY <1>1, <1>3
  <2> QED BY <2>1 DEF Abstract!vars
<1>4. CASE Outcome(c) = "idle" /\ Outcome(c)' \in {"open", "error"}
  <2>1. O[c] = "idle"
    BY <1>4
  <2>2. Abstract!Ask(c)
    BY <1>2, <1>4, <2>1 DEF Abstract!Ask
  <2> QED BY <2>2 DEF Abstract!Next
<1>5. CASE Outcome(c) = "open" /\ call'[c].phase = "ended"
  <2>1. O[c] = "open"
    BY <1>5
  <2>2. call'[c].fut # "pending" /\ Owned(c, call'[c].kind, call'[c].fut, call'[c].of, c \in ran')
    BY <1>5 DEF Corresponds, CallOf, Fits
  <2>3. Outcome(c)' \in {"sent", "error"} \/ (Outcome(c)' = "answer" /\ c \in ran)
    BY <1>5, <2>2 DEF Outcome, At, Is, Owned
  <2>4. Abstract!End(c)
    BY <1>2, <2>1, <2>3 DEF Abstract!End
  <2> QED BY <2>4 DEF Abstract!Next
<1> QED BY <1>3, <1>4, <1>5

LEMMA ConsumerRefines ==
    Echoes /\ Corresponds /\ Corresponds' /\ [Next]_vars => [Abstract!Next]_(Abstract!vars)
<1> SUFFICES ASSUME Echoes, Corresponds, Corresponds', [Next]_vars PROVE [Abstract!Next]_(Abstract!vars)
  OBVIOUS
<1>a. DOMAIN call = Calls /\ DOMAIN call' = Calls
  BY DEF Corresponds
<1>b. \A c \in Calls : /\ DOMAIN call[c] = {"kind", "phase", "attempt", "fut", "of", "posted"}
                       /\ call[c].phase = "idle" => c \notin inbox
                       /\ call[c].phase = "ended" => call[c].fut # "pending"
  BY DEF Corresponds, CallOf, Fits
<1>1. CASE ran' = ran /\ call' = call
  BY <1>1 DEF Abstract!vars, Outcome, At, Is
<1>2. CASE UNCHANGED vars
  BY <1>1, <1>2 DEF vars, device
<1>3. ASSUME NEW c \in Calls, Begin(c) PROVE [Abstract!Next]_(Abstract!vars)
  <2>1. PICK k : /\ call[c].phase = "idle" /\ ran' = ran
                 /\ \/ call' = [call EXCEPT ![c].kind = k, ![c].phase = "connecting"]
                    \/ call' = [call EXCEPT ![c].kind = k, ![c].phase = "ended", ![c].fut = "error"]
    BY <1>3 DEF Begin, At, device
  <2>2. /\ \A d \in Calls \ {c} : call'[d] = call[d]
        /\ \/ call'[c].phase = "connecting"
           \/ call'[c].phase = "ended" /\ call'[c].fut = "error"
    BY <1>a, <1>b, <2>1
  <2>3. Outcome(c) = "idle" /\ Outcome(c)' \in {"open", "error"}
    BY <2>1, <2>2 DEF Outcome, At, Is
  <2> QED BY <1>a, <2>1, <2>2, <2>3, StepOfOne
\* Where a call is in between is not seen.
<1>m. ASSUME NEW c \in Calls, NEW p, p \notin {"idle", "ended"}, call[c].phase \notin {"idle", "ended"},
             ran' = ran, \A d \in Calls \ {c} : call'[d] = call[d], call'[c].phase = p
      PROVE  [Abstract!Next]_(Abstract!vars)
  <2>1. Outcome(c)' = Outcome(c)
    BY <1>m DEF Outcome, At
  <2> QED BY <1>a, <1>m, <2>1, StepOfOne
<1>g. ASSUME NEW c \in Calls, NEW p, p \notin {"idle", "ended"}, call[c].phase \notin {"idle", "ended"},
             ran' = ran, call' = [call EXCEPT ![c].phase = p]
      PROVE  [Abstract!Next]_(Abstract!vars)
  <2>1. call'[c].phase = p /\ \A d \in Calls \ {c} : call'[d] = call[d]
    BY <1>a, <1>b, <1>g
  <2> QED BY <1>g, <1>m, <2>1
\* Nor what is posted to it.
<1>o. ASSUME NEW c \in Calls, ran' = ran, \A d \in Calls \ {c} : call'[d] = call[d],
             call'[c].phase = call[c].phase, call'[c].kind = call[c].kind,
             call[c].phase = "ended" => call'[c].fut = call[c].fut /\ call'[c].of = call[c].of
      PROVE  [Abstract!Next]_(Abstract!vars)
  <2>1. Outcome(c)' = Outcome(c)
    BY <1>o DEF Outcome, At, Is
  <2> QED BY <1>a, <1>o, <2>1, StepOfOne
<1>e. ASSUME NEW c \in Calls, NEW fut, Ended(c, fut), call[c].phase \notin {"idle", "ended"}, ran' = ran
      PROVE  [Abstract!Next]_(Abstract!vars)
  <2>1. call'[c].phase = "ended" /\ \A d \in Calls \ {c} : call'[d] = call[d]
    BY <1>a, <1>b, <1>e DEF Ended
  <2>2. Outcome(c) = "open"
    BY <1>e DEF Outcome, At
  <2> QED BY <1>a, <1>e, <2>1, <2>2, StepOfOne
<1>4. ASSUME NEW c \in Calls, Established(c) \/ AttemptTimesOut(c) \/ Publish(c) \/ ReadStream(c) \/ DropStream(c)
      PROVE  [Abstract!Next]_(Abstract!vars)
  <2>1. PICK p \in {"open", "waiting", "connected", "shutting", "storing", "reading", "dropped"} :
           call' = [call EXCEPT ![c].phase = p] /\ call[c].phase \in {"connecting", "connected", "open"}
           /\ ran' = ran
    BY <1>4 DEF Established, AttemptTimesOut, Publish, ReadStream, DropStream, Goto, At, device
  <2> QED BY <1>g, <2>1
<1>5. ASSUME NEW c \in Calls, AttemptEnds(c) PROVE [Abstract!Next]_(Abstract!vars)
  <2>1. /\ call[c].phase = "shutting" /\ ran' = ran
        /\ \/ Ended(c, "error")
           \/ call' = [call EXCEPT ![c].phase = "connecting", ![c].attempt = @ + 1]
    BY <1>5 DEF AttemptEnds, At, device
  <2>2. CASE call' = [call EXCEPT ![c].phase = "connecting", ![c].attempt = @ + 1]
    <3>1. call'[c].phase = "connecting" /\ \A d \in Calls \ {c} : call'[d] = call[d]
      BY <1>a, <1>b, <2>2
    <3> QED BY <1>m, <2>1, <3>1
  <2> QED BY <1>e, <2>1, <2>2
<1>6. ASSUME NEW c \in Calls, Connack(c) \/ Drop(c) \/ Reconnect(c) PROVE [Abstract!Next]_(Abstract!vars)
  BY <1>1, <1>6 DEF Connack, Drop, Reconnect, device
<1>7. ASSUME NEW c \in Calls, BrokerTakes(c) PROVE [Abstract!Next]_(Abstract!vars)
  <2>1. ran' = ran /\ (call' = call \/ call' = Post({c}, c, "value"))
    BY <1>7 DEF BrokerTakes
  <2>2. CASE call' = Post({c}, c, "value")
    <3>1. /\ \A d \in Calls \ {c} : call'[d] = call[d]
          /\ call'[c].phase = call[c].phase /\ call'[c].kind = call[c].kind
          /\ call'[c].fut = call[c].fut /\ call'[c].of = call[c].of
      BY <1>a, <1>b, <2>2 DEF Post
    <3> QED BY <1>o, <2>1, <3>1
  <2> QED BY <1>1, <2>1, <2>2
<1>8. ASSUME NEW c \in Calls, Puback(c) PROVE [Abstract!Next]_(Abstract!vars)
  <2>1. /\ ran' = ran
        /\ \/ call' = call
           \/ call' = [call EXCEPT ![c].posted = Append(@, [what |-> net[c].ack, of |-> c])]
    BY <1>8 DEF Puback, device
  <2>2. CASE call' = [call EXCEPT ![c].posted = Append(@, [what |-> net[c].ack, of |-> c])]
    <3>1. /\ \A d \in Calls \ {c} : call'[d] = call[d]
          /\ call'[c].phase = call[c].phase /\ call'[c].kind = call[c].kind
          /\ call'[c].fut = call[c].fut /\ call'[c].of = call[c].of
      BY <1>a, <1>b, <2>2
    <3> QED BY <1>o, <2>1, <3>1
  <2> QED BY <1>1, <2>1, <2>2
<1>9. ASSUME NEW c \in Calls, DeviceRuns(c) PROVE [Abstract!Next]_(Abstract!vars)
  <2> DEFINE O == [d \in Calls |-> Outcome(d)]
  <2>1. PICK hear : /\ c \in inbox /\ ran' = ran \cup {c}
                    /\ call' = IF Asks(c) THEN Post(hear, c, "value") ELSE call
    BY <1>9 DEF DeviceRuns
  <2>2. \A d \in Calls : /\ call'[d].phase = call[d].phase /\ call'[d].kind = call[d].kind
                         /\ call'[d].fut = call[d].fut /\ call'[d].of = call[d].of
    BY <1>a, <1>b, <2>1 DEF Post
  <2>3. O' = O
    BY <2>2 DEF Outcome, At, Is
  <2>4. O[c] # "idle"
    BY <1>b, <2>1 DEF Outcome, At
  <2>5. Abstract!Run(c)
    BY <2>1, <2>3, <2>4 DEF Abstract!Run
  <2> QED BY <2>5 DEF Abstract!Next
<1>10. ASSUME NEW c \in Calls, Callback(c) PROVE [Abstract!Next]_(Abstract!vars)
  <2> DEFINE p == Head(call[c].posted)
  <2>1. /\ ran' = ran
        /\ call' = [call EXCEPT ![c].posted = Tail(@),
                                ![c].fut = IF @ = "pending" THEN p.what ELSE @,
                                ![c].of = IF call[c].fut = "pending" THEN p.of ELSE @]
    BY <1>10 DEF Callback, device
  <2> HIDE DEF p
  <2>2. /\ \A d \in Calls \ {c} : call'[d] = call[d]
        /\ call'[c].phase = call[c].phase /\ call'[c].kind = call[c].kind
        /\ call[c].fut # "pending" => call'[c].fut = call[c].fut /\ call'[c].of = call[c].of
    BY <1>a, <1>b, <2>1
  <2> QED BY <1>b, <1>o, <2>1, <2>2
<1>11. ASSUME NEW c \in Calls, PublishAwaited(c) \/ GetsAnswer(c) \/ Cancelled(c) \/ CloseStream(c)
       PROVE  [Abstract!Next]_(Abstract!vars)
  <2>1. /\ ran' = ran
        /\ call[c].phase \in {"storing", "waiting", "connecting", "shutting", "connected", "reading"}
        /\ \/ \E fut : Ended(c, fut)
           \/ call' = [call EXCEPT ![c].phase = "waiting"]
    BY <1>11 DEF PublishAwaited, GetsAnswer, Cancelled, CloseStream, Goto, At, device
  <2> QED BY <1>e, <1>g, <2>1
<1>12. CASE BeginClose \/ EndClose \/ ShutOne
  BY <1>1, <1>12 DEF BeginClose, EndClose, ShutOne, device
<1> QED BY <1>2, <1>3, <1>4, <1>5, <1>6, <1>7, <1>8, <1>9, <1>10, <1>11, <1>12 DEF Next, Coroutine

\* Whatever the broker, the network and the device do, a call over MQTT ends once, and
\* with an answer only if the device carried that very call out, as long as the device
\* copies the correlation back (MqttBinding.invoke, _request, _on_message): calls on one
\* topic do not take each other's answers.
THEOREM MqttIsADeviceCall == ASSUME Echoes PROVE Spec => ImplementsDeviceCall
<1>1. Init => Corresponds /\ Abstract!Init
  <2> SUFFICES ASSUME Init PROVE Corresponds /\ Abstract!Init
    OBVIOUS
  <2>1. /\ \A c \in Calls : /\ call[c] = [kind |-> "fire", phase |-> "idle", attempt |-> 1, fut |-> "pending",
                                          of |-> c, posted |-> <<>>]
                            /\ net[c] = Down
        /\ DOMAIN call = Calls /\ DOMAIN net = Calls /\ inbox = {} /\ ran = {}
    BY DEF Init
  <2>2. <<>> \in Seq(Note) /\ DOMAIN <<>> = {}
    OBVIOUS
  <2>3. Corresponds
    <3>1. ASSUME NEW c \in Calls PROVE Fits(c, call[c], net[c], c \in inbox, c \in ran)
      <4>1. /\ DOMAIN call[c] = {"kind", "phase", "attempt", "fut", "of", "posted"}
            /\ call[c].posted = <<>> /\ call[c].fut = "pending" /\ call[c].phase = "idle"
        BY <2>1
      <4>2. /\ DOMAIN net[c] = {"up", "sub", "sent", "msg", "ack", "taken", "connacks", "drops"}
            /\ ~net[c].up /\ net[c].ack = "none"
        BY <2>1 DEF Down
      <4> QED BY <2>1, <2>2, <4>1, <4>2 DEF Fits, Owned
    <3> QED BY <2>1, <3>1 DEF Corresponds, CallOf
  <2>4. Abstract!Init
    BY <2>1 DEF Abstract!Init, Outcome, At
  <2> QED BY <2>3, <2>4
<1>2. Corresponds /\ [Next]_vars => Corresponds'
  BY ConsumerStep
<1>3. Corresponds /\ Corresponds' /\ [Next]_vars => [Abstract!Next]_(Abstract!vars)
  BY ConsumerRefines
<1> QED BY <1>1, <1>2, <1>3, PTL DEF Spec, ImplementsDeviceCall, Abstract!Spec

=============================================================================
