------------------------- MODULE DeviceCalls_proofs -------------------------
(***************************************************************************)
(* Calls to devices over rosbridge, HTTP, Redis, local programs and        *)
(* in-process handlers, proved for any number of calls, retries and        *)
(* clients, and for media of any size.                                     *)
(***************************************************************************)
EXTENDS DeviceCallsMC, SequenceTheorems, FiniteSetTheorems, WellFoundedInduction, TLAPS

\* A behaviour of the carriers is one of each.
LEMMA OfEachCarrier ==
    CallsSpec =>
        /\ Init /\ [][Next]_vars
        /\ (Http!Init \/ HttpAtRest) /\ [][Http!Next]_httpVars
        /\ Local!Init /\ [][Local!Next]_localVars
        /\ Redis!Init /\ [][Redis!Next]_redisVars
        /\ Exec!Init /\ [][Exec!Next]_execVars
<1>1. CallsInit => Init /\ (Http!Init \/ HttpAtRest) /\ Local!Init /\ Redis!Init /\ Exec!Init
  BY DEF CallsInit, LocalAtRest, ExecAtRest
<1>2. [CallsNext]_<<carrier, vars, httpVars, localVars, redisVars, execVars>> =>
          /\ [Next]_vars /\ [Http!Next]_httpVars /\ [Local!Next]_localVars
          /\ [Redis!Next]_redisVars /\ [Exec!Next]_execVars
  BY DEF CallsNext, vars, httpVars, localVars, redisVars, execVars
<1> QED BY <1>1, <1>2, PTL DEF CallsSpec

------------------------------------------------------------------------------
(* rosbridge.                                                              *)

\* What is on the wire for a call is what the robot ended its goal with, and a goal is
\* resolved to a final state only once the robot reached one.
GoalOf(c) ==
    /\ DOMAIN call[c] = {"kind", "phase", "ended"}
    /\ call[c].phase \in {"idle", "connecting"} => robot[c] = "none" /\ outcome[c] = "pending"
    /\ frames[c] = <<>> \/ (frames[c] = <<robot[c]>> /\ robot[c] \in Finals \cup {"rejected"})
    /\ robot[c] \in {"none", "working", "rejected"} \cup Finals
    /\ outcome[c] \in {"pending", "error"} \cup Finals
    /\ outcome[c] \in Finals => robot[c] \in Finals
    /\ call[c].phase = "ended" => call[c].ended \in {"handle", "sent", "answer", "error"}
    /\ follower[c] = "live" => call[c].phase \notin {"idle", "connecting"}

Resolved ==
    /\ DOMAIN call = Calls /\ DOMAIN robot = Calls /\ DOMAIN outcome = Calls /\ DOMAIN frames = Calls
    /\ DOMAIN follower = Calls
    /\ \A c \in Calls : GoalOf(c)

LEMMA RosStep == Resolved /\ [Next]_vars => Resolved'
<1> SUFFICES ASSUME Resolved, [Next]_vars PROVE Resolved'
  OBVIOUS
<1>1. CASE UNCHANGED vars
  BY <1>1 DEF vars, Resolved, GoalOf
<1>2. ASSUME NEW c \in Calls,
             \/ Begin(c) \/ NotSent(c) \/ Send(c) \/ Coroutine(c) \/ Finishes(c) \/ Disconnects(c)
             \/ Query(c) \/ CancelHandle(c)
      PROVE  Resolved'
  <2>a. /\ DOMAIN call = Calls /\ DOMAIN robot = Calls /\ DOMAIN outcome = Calls /\ DOMAIN frames = Calls
        /\ DOMAIN follower = Calls
        /\ \A d \in Calls : GoalOf(d)
    BY DEF Resolved
  <2>b. GoalOf(c)
    BY <2>a
  \* It is enough to look at the goal of the step.
  <2>c. ASSUME DOMAIN call' = Calls, DOMAIN robot' = Calls, DOMAIN outcome' = Calls, DOMAIN frames' = Calls,
               DOMAIN follower' = Calls,
               \A d \in Calls \ {c} : /\ call'[d] = call[d] /\ robot'[d] = robot[d] /\ follower'[d] = follower[d]
                                      /\ outcome'[d] = outcome[d] /\ frames'[d] = frames[d],
               GoalOf(c)'
        PROVE  Resolved'
    <3>1. ASSUME NEW d \in Calls PROVE GoalOf(d)'
      <4>1. CASE d = c
        BY <2>c, <4>1
      <4>2. CASE d # c
        BY <2>a, <2>c, <4>2 DEF GoalOf
      <4> QED BY <4>1, <4>2
    <3> QED BY <2>c, <3>1 DEF Resolved
  <2> DEFINE OnlyCall == /\ DOMAIN call' = Calls /\ \A d \in Calls \ {c} : call'[d] = call[d]
                         /\ DOMAIN call'[c] = DOMAIN call[c]
  <2>1. CASE Begin(c)
    <3>1. /\ UNCHANGED <<outcome, robot, frames, follower>> /\ OnlyCall /\ call'[c].phase = "connecting"
          /\ call[c].phase = "idle"
      BY <2>a, <2>b, <2>1 DEF Begin, At, world, GoalOf
    <3> QED BY <2>a, <2>b, <2>c, <3>1 DEF GoalOf
  <2>2. CASE NotSent(c) \/ Settled(c)
    <3>1. /\ UNCHANGED <<outcome, robot, frames, follower>> /\ OnlyCall /\ call'[c].phase = "ended"
          /\ call'[c].ended \in {"answer", "sent", "error"}
      BY <2>a, <2>b, <2>2 DEF NotSent, Settled, End, world, GoalOf
    <3> QED BY <2>a, <2>b, <2>c, <3>1 DEF GoalOf
  <2>3. CASE GiveUp(c)
    <3>1. /\ UNCHANGED <<outcome, robot, frames, follower>> /\ OnlyCall /\ call'[c].phase = "giving up"
      BY <2>a, <2>b, <2>3 DEF GiveUp, world, GoalOf
    <3> QED BY <2>a, <2>b, <2>c, <3>1 DEF GoalOf
  <2>4. CASE Send(c)
    <3>1. /\ UNCHANGED <<outcome, frames>> /\ OnlyCall
          /\ call'[c].phase = "waiting" \/ (call'[c].phase = "ended" /\ call'[c].ended = "handle")
      BY <2>a, <2>b, <2>4 DEF Send, End, GoalOf
    <3>2. /\ robot' = [robot EXCEPT ![c] = IF call[c].kind = "publish" THEN "succeeded" ELSE "working"]
          /\ call[c].phase = "connecting"
      BY <2>4 DEF Send, At
    <3>3. frames[c] = <<>> /\ outcome[c] = "pending"
      BY <2>b, <3>2 DEF GoalOf, Finals
    <3>4. /\ DOMAIN robot' = Calls /\ robot'[c] \in {"succeeded", "working"}
          /\ \A d \in Calls \ {c} : robot'[d] = robot[d]
      BY <2>a, <3>2
    <3>5. DOMAIN follower' = Calls /\ \A d \in Calls \ {c} : follower'[d] = follower[d]
      BY <2>a, <2>4 DEF Send
    <3> QED BY <2>a, <2>b, <2>c, <3>1, <3>3, <3>4, <3>5 DEF GoalOf, Finals
  <2>5. CASE Finishes(c)
    <3>1. PICK state \in Finals \cup {"rejected"} :
              /\ robot[c] = "working" /\ robot' = [robot EXCEPT ![c] = state] /\ UNCHANGED <<call, outcome, follower>>
              /\ frames' = frames \/ frames' = [frames EXCEPT ![c] = Append(@, state)]
      BY <2>5 DEF Finishes, Answer
    <3>2. frames[c] = <<>> /\ outcome[c] \notin Finals /\ call[c].phase \notin {"idle", "connecting"}
      BY <2>b, <3>1 DEF GoalOf, Finals
    <3>3. Append(<<>>, state) = <<state>>
      OBVIOUS
    <3>4. /\ DOMAIN robot' = Calls /\ DOMAIN frames' = Calls /\ robot'[c] = state
          /\ frames'[c] = <<>> \/ frames'[c] = <<state>>
          /\ \A d \in Calls \ {c} : robot'[d] = robot[d] /\ frames'[d] = frames[d]
      BY <2>a, <3>1, <3>2, <3>3
    <3>5. GoalOf(c)'
      BY <2>b, <3>1, <3>2, <3>4 DEF GoalOf
    <3> QED BY <2>a, <2>c, <3>1, <3>4, <3>5
  <2>6. CASE Disconnects(c) \/ Query(c) \/ CancelHandle(c)
    <3>1. UNCHANGED <<call, outcome, robot, frames, follower>>
      BY <2>6 DEF Disconnects, Query, CancelHandle, world
    <3> QED BY <2>a, <3>1 DEF Resolved, GoalOf
  <2>7. CASE Follow(c)
    <3>1. /\ UNCHANGED <<call, robot>> /\ frames' = [frames EXCEPT ![c] = <<>>]
          /\ \E o : outcome' = [outcome EXCEPT ![c] = o] /\ (o = "error" \/ o = outcome[c] \/ (frames[c] # <<>> /\ o = ResultOf(Head(frames[c]))))
      BY <2>7 DEF Follow
    <3>2. PICK o : /\ outcome' = [outcome EXCEPT ![c] = o]
                   /\ (o = "error" \/ o = outcome[c] \/ (frames[c] # <<>> /\ o = ResultOf(Head(frames[c]))))
      BY <3>1
    <3>3. o \in {"pending", "error"} \cup Finals /\ (o \in Finals => robot[c] \in Finals)
      <4>1. CASE frames[c] # <<>> /\ o = ResultOf(Head(frames[c]))
        <5>1. Head(<<robot[c]>>) = robot[c]
          OBVIOUS
        <5> QED BY <2>b, <4>1, <5>1 DEF GoalOf, ResultOf, Finals
      <4>2. CASE o = "error" \/ o = outcome[c]
        BY <2>b, <4>2 DEF GoalOf, Finals
      <4> QED BY <3>2, <4>1, <4>2
    <3>4. /\ call[c].phase \notin {"idle", "connecting"} /\ DOMAIN follower' = Calls
          /\ \A d \in Calls \ {c} : follower'[d] = follower[d]
      BY <2>a, <2>b, <2>7 DEF Follow, GoalOf
    <3> QED BY <2>a, <2>b, <2>c, <3>1, <3>2, <3>3, <3>4 DEF GoalOf
  <2>8. CASE GivesUp(c)
    <3>1. /\ UNCHANGED <<outcome, robot>> /\ OnlyCall /\ call'[c].phase = "ended"
          /\ call'[c].ended \in {"answer", "sent", "error"}
          /\ frames' = frames \/ frames' = [frames EXCEPT ![c] = <<>>]
          /\ follower' = follower \/ follower' = [follower EXCEPT ![c] = "over"]
      BY <2>a, <2>b, <2>8 DEF GivesUp, End, GoalOf
    <3> QED BY <2>a, <2>b, <2>c, <3>1 DEF GoalOf
  <2>9. CASE Serviced(c)
    <3>1. /\ UNCHANGED <<outcome, robot, follower>> /\ OnlyCall /\ call'[c].phase = "ended"
          /\ call'[c].ended \in {"answer", "sent", "error"}
          /\ frames' = [frames EXCEPT ![c] = <<>>]
      BY <2>a, <2>b, <2>9 DEF Serviced, End, GoalOf
    <3> QED BY <2>a, <2>b, <2>c, <3>1 DEF GoalOf
  <2> QED BY <1>2, <2>1, <2>2, <2>3, <2>4, <2>5, <2>6, <2>7, <2>8, <2>9 DEF Coroutine
<1> QED BY <1>1, <1>2 DEF Next

LEMMA RosInit == Init => Resolved
BY DEF Init, Resolved, GoalOf, Finals

\* Every step of the binding is one of a DeviceCall, or none.
LEMMA RosRefines == Resolved /\ [Next]_vars => [Abstract!Next]_Abstract!vars
<1> SUFFICES ASSUME Resolved, [Next]_vars, ~ UNCHANGED Abstract!vars PROVE Abstract!Next
  OBVIOUS
<1> DEFINE R == {c \in Calls : robot[c] \in Finals}
<1> DEFINE O == [c \in Calls |-> Outcome(c)]
<1>1. ~ UNCHANGED vars
  BY DEF vars, Abstract!vars, Outcome, At
<1>2. PICK c \in Calls :
             \/ Begin(c) \/ NotSent(c) \/ Send(c) \/ Coroutine(c) \/ Finishes(c) \/ Disconnects(c)
             \/ Query(c) \/ CancelHandle(c)
  BY <1>1 DEF Next
<1>a. /\ DOMAIN call = Calls /\ DOMAIN robot = Calls /\ DOMAIN outcome = Calls /\ DOMAIN frames = Calls
      /\ GoalOf(c) /\ c \in Calls
  BY DEF Resolved
<1>b. UNCHANGED <<call, robot>> => UNCHANGED Abstract!vars
  BY DEF Abstract!vars, Outcome, At
<1>c. ASSUME NEW q, call' = [call EXCEPT ![c] = q] PROVE O' = [O EXCEPT ![c] = Outcome(c)']
  <2>1. \A d \in Calls \ {c} : Outcome(d)' = Outcome(d)
    BY <1>a, <1>c DEF Outcome, At
  <2> QED BY <2>1
<1>d. robot' = robot => R' = R
  OBVIOUS
<1>e. ASSUME robot' = robot, O[c] = "open", O' = [O EXCEPT ![c] = Outcome(c)'],
             Outcome(c)' \in {"sent", "error"} \/ (Outcome(c)' = "answer" /\ robot[c] \in Finals)
      PROVE  Abstract!Next
  BY <1>a, <1>d, <1>e DEF Abstract!Next, Abstract!End
<1>3. CASE Begin(c)
  <2>1. PICK k : call' = [call EXCEPT ![c] = [call[c] EXCEPT !.kind = k, !.phase = "connecting"]]
    BY <1>a, <1>3 DEF Begin
  <2>2. call[c].phase = "idle" /\ robot' = robot /\ call'[c].phase = "connecting"
    BY <1>a, <1>3, <2>1 DEF Begin, At, world, GoalOf
  <2>3. O[c] = "idle" /\ O' = [O EXCEPT ![c] = Outcome(c)'] /\ Outcome(c)' = "open"
    BY <1>a, <1>c, <2>1, <2>2 DEF Outcome, At
  <2> QED BY <1>a, <1>d, <2>2, <2>3 DEF Abstract!Next, Abstract!Ask
<1>4. CASE NotSent(c) \/ GivesUp(c)
  <2>1. /\ call' = [call EXCEPT ![c] = [call[c] EXCEPT !.phase = "ended", !.ended = "error"]] /\ robot' = robot
        /\ call[c].phase \in {"connecting", "giving up"}
    BY <1>a, <1>4 DEF NotSent, GivesUp, End, world, At
  <2>2. call'[c].phase = "ended" /\ call'[c].ended = "error"
    BY <1>a, <2>1 DEF GoalOf
  <2>3. Outcome(c)' = "error" /\ O[c] = "open"
    BY <1>a, <2>1, <2>2 DEF Outcome, At
  <2> QED BY <1>c, <1>e, <2>1, <2>3
<1>5. CASE Send(c)
  <2>1. call[c].phase = "connecting" /\ robot[c] = "none" /\ Outcome(c) = "open"
    BY <1>a, <1>5 DEF Send, At, GoalOf, Outcome
  <2>2. CASE call[c].kind = "async"
    <3>1. call' = [call EXCEPT ![c] = [call[c] EXCEPT !.phase = "ended", !.ended = "handle"]]
      BY <1>a, <1>5, <2>2 DEF Send, End
    <3>2. Outcome(c)' = "sent"
      BY <1>a, <3>1 DEF Outcome, At, GoalOf
    <3>3. R' = R
      BY <1>a, <1>5, <2>1, <2>2 DEF Send, Finals
    <3> QED BY <1>a, <1>c, <2>1, <3>1, <3>2, <3>3 DEF Abstract!Next, Abstract!End
  <2>3. CASE call[c].kind # "async"
    <3>1. call' = [call EXCEPT ![c] = [call[c] EXCEPT !.phase = "waiting"]]
      BY <1>a, <1>5, <2>3 DEF Send
    <3>2. Outcome(c)' = "open"
      BY <1>a, <3>1 DEF Outcome, At, GoalOf
    <3>3. O' = O
      BY <1>c, <2>1, <3>1, <3>2
    <3>4. R' = R \/ R' = R \cup {c}
      BY <1>a, <1>5, <2>1 DEF Send, Finals
    <3> QED BY <1>a, <2>1, <3>3, <3>4 DEF Abstract!Next, Abstract!Run, Abstract!vars
  <2> QED BY <2>2, <2>3
<1>6. CASE Finishes(c)
  <2>1. PICK state \in Finals \cup {"rejected"} :
            robot[c] = "working" /\ robot' = [robot EXCEPT ![c] = state] /\ call' = call
    BY <1>6 DEF Finishes, Answer
  <2>2. Outcome(c) # "idle"
    BY <1>a, <2>1 DEF GoalOf, Outcome, At
  <2>3. O' = O
    BY <2>1 DEF Outcome, At
  <2>4. R' = R \/ R' = R \cup {c}
    BY <1>a, <2>1 DEF Finals
  <2> QED BY <1>a, <2>2, <2>3, <2>4 DEF Abstract!Next, Abstract!Run, Abstract!vars
<1>7. CASE Disconnects(c) \/ Query(c) \/ CancelHandle(c) \/ Follow(c)
  BY <1>b, <1>7 DEF Disconnects, Query, CancelHandle, Follow, world
<1>8. CASE GiveUp(c)
  <2>1. call' = [call EXCEPT ![c] = [call[c] EXCEPT !.phase = "giving up"]] /\ robot' = robot
        /\ call[c].phase = "waiting"
    BY <1>a, <1>8 DEF GiveUp, world, At
  <2>2. Outcome(c)' = "open" /\ Outcome(c) = "open"
    BY <1>a, <2>1 DEF Outcome, At, GoalOf
  <2>3. O' = O
    BY <1>c, <2>1, <2>2
  <2> QED BY <1>d, <2>1, <2>3 DEF Abstract!vars
<1>9. CASE Settled(c)
  <2>1. PICK e : /\ e = (IF outcome[c] = "error" THEN "error" ELSE "answer")
                 /\ call' = [call EXCEPT ![c] = [call[c] EXCEPT !.phase = "ended", !.ended = e]] /\ robot' = robot
                 /\ call[c].phase = "waiting" /\ outcome[c] # "pending"
    BY <1>a, <1>9 DEF Settled, End, world, At, Done
  <2>2. call'[c].phase = "ended" /\ call'[c].ended = e
    BY <1>a, <2>1 DEF GoalOf
  <2>3. Outcome(c)' = e /\ O[c] = "open"
    BY <1>a, <2>1, <2>2 DEF Outcome, At
  <2>4. e = "answer" => robot[c] \in Finals
    BY <1>a, <2>1 DEF GoalOf
  <2> QED BY <1>c, <1>e, <2>1, <2>3, <2>4
<1>10. CASE Serviced(c)
  <2>1. PICK e : /\ e \in {"sent", "error"} \/ (e = "answer" /\ frames[c] # <<>> /\ Head(frames[c]) = "succeeded")
                 /\ call' = [call EXCEPT ![c] = [call[c] EXCEPT !.phase = "ended", !.ended = e]] /\ robot' = robot
                 /\ call[c].phase = "waiting"
    BY <1>a, <1>10 DEF Serviced, End, At
  <2>2. call'[c].phase = "ended" /\ call'[c].ended = e
    BY <1>a, <2>1 DEF GoalOf
  <2>3. Outcome(c)' = e /\ O[c] = "open"
    BY <1>a, <2>1, <2>2 DEF Outcome, At
  <2>4. e = "answer" => robot[c] \in Finals
    <3>1. Head(<<robot[c]>>) = robot[c]
      OBVIOUS
    <3> QED BY <1>a, <2>1, <3>1 DEF GoalOf, Finals
  <2> QED BY <1>c, <1>e, <2>1, <2>3, <2>4
<1> QED BY <1>2, <1>3, <1>4, <1>5, <1>6, <1>7, <1>8, <1>9, <1>10 DEF Coroutine

\* A rosbridge call ends once, and with an answer only if the robot carried that very
\* call out, through lost sockets, timeouts, cancels and refusals (RosbridgeBinding).
THEOREM RosIsADeviceCall == CallsSpec => ImplementsDeviceCall
<1>1. Init => Abstract!Init
  BY DEF Init, Abstract!Init, Outcome, At, Finals
<1> QED BY <1>1, OfEachCarrier, RosInit, RosStep, RosRefines, PTL DEF ImplementsDeviceCall, Abstract!Spec

------------------------------------------------------------------------------
(* HTTP.                                                                   *)

\* The initiating request, while it may not be repeated, has had one attempt, and is
\* applied only as that attempt is answered.
Transports == {"op", "resumable", "ranged-get", "poll"}
OnceOnly ==
    /\ attempt \in Nat /\ hop \in Nat /\ modes \in Seq(Transports)
    /\ (Http!MethodOf(op) \notin Http!Idempotent /\ ~ resend) \/ Http!OneShot(op) =>
          /\ applied \in {0, 1}
          /\ pc = "initiate" => attempt = 0 /\ (answer = Http!NoAnswer => applied = 0)

\* A download has, in order, what lies before its offset and was not passed over, and a
\* range that came begins there.
Ascending(s) == \A i, j \in DOMAIN s : i < j => s[i] < s[j]
UnitsOf(s) == {s[i] : i \in DOMAIN s}
Ranges ==
    /\ size \in Nat /\ offset \in Nat /\ offset <= size
    /\ buf \in Seq(Nat) /\ Ascending(buf) /\ UnitsOf(buf) = (1 .. offset) \ skipped
    /\ skipped \subseteq 1 .. offset
    /\ pc = "get" => answer.status # "whole"
    /\ pc = "get" /\ answer.status = "ok" =>
          answer.units \in Nat /\ offset + answer.units <= size

\* What the probe says of a server, and what it means for one that keeps ranges.
Begun ==
    /\ pc \in {"initiate", "probe"} => offset = 0 /\ buf = <<>> /\ skipped = {}
    /\ pc = "probe" /\ answer.status = "ok" =>
          answer.units = IF ranged = "none" THEN size ELSE Http!Least(1, size)
    /\ pc = "get" => ranged \notin {"none", "unsized"}
    /\ ranged = "sized" => Ranges

Whole ==
    /\ ranged = "none" => buf = [i \in 1 .. size |-> i]
    /\ ranged = "unsized" => buf = [i \in 1 .. Http!Least(1, size) |-> i]
    /\ ranged = "sized" => Ascending(buf) /\ UnitsOf(buf) = (1 .. size) \ skipped

Downloaded ==
    modes = <<"ranged-get">> =>
        /\ pc \in {"initiate", "probe", "get", "over"} /\ (pc = "initiate" => hop = 0)
        /\ ended \in {"none", "returned", "error"} /\ size \in Nat
        /\ pc # "over" => ended = "none" /\ Begun
        /\ ended = "returned" => Whole

\* A block joined to what lies before it.
LEMMA BlockJoins ==
    ASSUME NEW o \in Nat, NEW n \in Nat, NEW s \in Seq(Nat), Ascending(s), UnitsOf(s) \subseteq 1 .. o
    PROVE  LET t == s \o [i \in 1 .. n |-> o + i] IN
           /\ t \in Seq(Nat) /\ Ascending(t) /\ UnitsOf(t) = UnitsOf(s) \cup (o + 1) .. (o + n)
<1> DEFINE b == [i \in 1 .. n |-> o + i]
<1> DEFINE t == s \o b
<1>1. b \in Seq(Nat) /\ Len(b) = n
  <2>1. b \in [1 .. n -> Nat]
    OBVIOUS
  <2> QED BY <2>1, IsASeq, LenProperties
<1>2. \A i \in 1 .. n : b[i] = o + i
  OBVIOUS
<1>3. Len(s) \in Nat /\ DOMAIN s = 1 .. Len(s)
  BY LenProperties
<1> HIDE DEF b
<1>4. /\ t \in Seq(Nat) /\ Len(t) = Len(s) + n
      /\ \A i \in 1 .. Len(s) + n : t[i] = IF i <= Len(s) THEN s[i] ELSE b[i - Len(s)]
  BY <1>1, <1>3, ConcatProperties
<1>5. DOMAIN t = 1 .. Len(s) + n
  BY <1>4, LenProperties
<1>6. \A i \in 1 .. Len(s) : i \in 1 .. Len(s) + n /\ t[i] = s[i] /\ s[i] \in Nat /\ s[i] <= o
  <2>1. \A i \in 1 .. Len(s) : i \in 1 .. Len(s) + n /\ t[i] = s[i]
    BY <1>3, <1>4
  <2>2. \A i \in 1 .. Len(s) : s[i] \in 1 .. o
    BY <1>3 DEF UnitsOf
  <2> QED BY <2>1, <2>2
<1>7. \A k \in 1 .. n : Len(s) + k \in 1 .. Len(s) + n /\ t[Len(s) + k] = o + k
  <2>1. ASSUME NEW k \in 1 .. n PROVE Len(s) + k \in 1 .. Len(s) + n /\ t[Len(s) + k] = o + k
    <3>1. Len(s) + k \in 1 .. Len(s) + n /\ ~ (Len(s) + k <= Len(s)) /\ (Len(s) + k) - Len(s) = k
      BY <1>3
    <3> QED BY <1>2, <1>4, <3>1
  <2> QED BY <2>1
<1>8. \A i \in 1 .. Len(s) + n : i \in 1 .. Len(s) \/ \E k \in 1 .. n : i = Len(s) + k
  <2>1. ASSUME NEW i \in 1 .. Len(s) + n, i \notin 1 .. Len(s) PROVE \E k \in 1 .. n : i = Len(s) + k
    <3>1. i - Len(s) \in 1 .. n /\ i = Len(s) + (i - Len(s))
      BY <1>3, <2>1
    <3> QED BY <3>1
  <2> QED BY <2>1
<1> HIDE DEF t
<1>9. Ascending(t)
  <2>1. ASSUME NEW i \in DOMAIN t, NEW j \in DOMAIN t, i < j PROVE t[i] < t[j]
    <3>1. CASE i \in 1 .. Len(s) /\ j \in 1 .. Len(s)
      BY <1>3, <1>6, <2>1, <3>1 DEF Ascending
    <3>2. CASE i \in 1 .. Len(s) /\ j \notin 1 .. Len(s)
      <4>1. PICK k \in 1 .. n : j = Len(s) + k
        BY <1>5, <1>8, <3>2
      <4>2. t[i] \in Nat /\ t[i] <= o
        BY ONLY <1>6, <3>2
      <4>3. t[j] = o + k
        BY ONLY <1>7, <4>1
      <4> QED BY ONLY <4>2, <4>3, k \in 1 .. n, n \in Nat, o \in Nat
    <3>3. CASE i \notin 1 .. Len(s)
      <4>1. PICK k \in 1 .. n : i = Len(s) + k
        BY <1>5, <1>8, <3>3
      <4>2. j \notin 1 .. Len(s)
        BY <1>3, <1>5, <2>1, <4>1
      <4>3. PICK m \in 1 .. n : j = Len(s) + m
        BY <1>5, <1>8, <4>2
      <4>4. k < m
        BY <1>3, <2>1, <4>1, <4>3
      <4> QED BY <1>7, <4>1, <4>3, <4>4
    <3> QED BY <3>1, <3>2, <3>3
  <2> QED BY <2>1 DEF Ascending
<1>10. UnitsOf(t) = UnitsOf(s) \cup (o + 1) .. (o + n)
  <2>1. ASSUME NEW x \in UnitsOf(t) PROVE x \in UnitsOf(s) \cup (o + 1) .. (o + n)
    <3>1. PICK i \in DOMAIN t : x = t[i]
      BY DEF UnitsOf
    <3>2. CASE i \in 1 .. Len(s)
      BY <1>3, <1>6, <3>1, <3>2 DEF UnitsOf
    <3>3. CASE i \notin 1 .. Len(s)
      <4>1. PICK k \in 1 .. n : i = Len(s) + k
        BY <1>5, <1>8, <3>3
      <4>2. x = o + k
        BY ONLY <1>7, <3>1, <4>1
      <4>3. x \in (o + 1) .. (o + n)
        BY ONLY <4>2, k \in 1 .. n, n \in Nat, o \in Nat
      <4> QED BY ONLY <4>3
    <3> QED BY <3>2, <3>3
  <2>2. ASSUME NEW x \in UnitsOf(s) PROVE x \in UnitsOf(t)
    <3>1. PICK i \in 1 .. Len(s) : x = s[i]
      BY <1>3 DEF UnitsOf
    <3> QED BY <1>5, <1>6, <3>1 DEF UnitsOf
  <2>3. ASSUME NEW x \in (o + 1) .. (o + n) PROVE x \in UnitsOf(t)
    <3>1. x - o \in 1 .. n /\ o + (x - o) = x
      OBVIOUS
    <3>2. PICK k \in 1 .. n : x = o + k
      BY <3>1
    <3> QED BY <1>5, <1>7, <3>2 DEF UnitsOf
  <2> QED BY <2>1, <2>2, <2>3
<1> QED BY <1>4, <1>9, <1>10 DEF t, b

LEMMA HttpOnce == OnceOnly /\ [Http!Next]_httpVars => OnceOnly'
<1> SUFFICES ASSUME OnceOnly, [Http!Next]_httpVars PROVE OnceOnly'
  OBVIOUS
<1>1. op' = op /\ modes' = modes /\ resend' = resend
  BY DEF Http!Next, Http!Environment, Http!Client, Http!Serves, Http!LosesAnswer, Http!Refuses, Http!Reply,
         Http!JobEnds, Http!Retry, Http!GiveUp, Http!Chained, Http!BlockPut, Http!Probed, Http!BlockGot,
         Http!Polled, Http!DeadlinePasses, Http!config, httpVars
<1> DEFINE Unsafe == (Http!MethodOf(op) \notin Http!Idempotent /\ ~ resend) \/ Http!OneShot(op)
<1>2. ((Http!MethodOf(op) \notin Http!Idempotent /\ ~ resend) \/ Http!OneShot(op))' <=> Unsafe
  BY <1>1 DEF Http!MethodOf, Http!Idempotent, Http!OneShot
<1>a. /\ attempt \in Nat /\ hop \in Nat /\ modes \in Seq(Transports)
      /\ Unsafe => /\ applied \in {0, 1}
                   /\ pc = "initiate" => attempt = 0 /\ (answer = Http!NoAnswer => applied = 0)
  BY DEF OnceOnly
<1>b. ASSUME attempt' \in Nat, hop' \in Nat,
             Unsafe => /\ applied' \in {0, 1}
                       /\ pc' = "initiate" => attempt' = 0 /\ (answer' = Http!NoAnswer => applied' = 0)
      PROVE  OnceOnly'
  BY <1>1, <1>2, <1>a, <1>b DEF OnceOnly, Http!NoAnswer
<1> HIDE DEF Unsafe
<1>3. CASE Http!Serves \/ Http!LosesAnswer
  <2>1. /\ answer = Http!NoAnswer /\ UNCHANGED <<pc, attempt, hop>>
        /\ applied' = applied + (IF pc = "initiate" THEN 1 ELSE 0)
    BY <1>3 DEF Http!Serves, Http!LosesAnswer, Http!Asked, Http!Reply, Http!Takes
  <2>2. \E s, k : answer' = Http!Answered(s, k) /\ s # "none"
    BY <1>3 DEF Http!Serves, Http!LosesAnswer, Http!Reply, Http!Answers
  <2>3. answer' # Http!NoAnswer
    BY <2>2 DEF Http!Answered, Http!NoAnswer
  <2> QED BY <1>a, <1>b, <2>1, <2>3
<1>4. CASE Http!Refuses
  <2>1. UNCHANGED <<pc, attempt, applied, hop>> /\ \E s, k : answer' = Http!Answered(s, k) /\ s # "none"
    BY <1>4 DEF Http!Refuses, Http!Reply
  <2>2. answer' # Http!NoAnswer
    BY <2>1 DEF Http!Answered, Http!NoAnswer
  <2> QED BY <1>a, <1>b, <2>1, <2>2
<1>5. CASE Http!JobEnds \/ Http!DeadlinePasses \/ UNCHANGED httpVars
  BY <1>5, <1>a, <1>b DEF Http!JobEnds, Http!DeadlinePasses, httpVars, Http!server
<1>6. CASE Http!Retry
  <2>1. attempt < Http!Budget(pc) /\ attempt' = attempt + 1 /\ UNCHANGED <<pc, applied, hop>>
    BY <1>6 DEF Http!Retry, Http!server
  <2>2. Unsafe /\ pc = "initiate" => Http!Budget(pc) = 0
    BY DEF Http!Budget, Http!Repeatable, Unsafe
  <2> QED BY <1>a, <1>b, <2>1, <2>2
<1>c. ASSUME attempt' = 0, pc' # "initiate", applied' = applied, hop' \in Nat PROVE OnceOnly'
  BY <1>a, <1>b, <1>c
<1>7. CASE Http!Chained
  <2>1. /\ hop' = IF pc = "op" THEN hop + 1 ELSE hop
        /\ Http!Follow(hop') /\ applied' = applied
    BY <1>7 DEF Http!Chained, Http!server
  <2>2. PICK d \in Nat : d = hop'
    BY <1>a, <2>1
  <2>3. attempt' = 0 /\ pc' # "initiate"
    <3>1. Http!Follow(d)
      BY <2>1, <2>2
    <3>2. Len(modes) \in Nat /\ \A k \in 1 .. Len(modes) : modes[k] \in Transports
      BY <1>a, LenProperties
    <3>3. d < Len(modes) => modes[d + 1] \in Transports
      BY <3>2
    <3>4. CASE d >= Len(modes) \/ d > MaxHops
      BY <3>1, <3>4 DEF Http!Follow, Http!Ends
    <3>5. CASE ~ (d >= Len(modes)) /\ ~ (d > MaxHops)
      <4>1. PICK m \in Transports : m = modes[d + 1]
        BY <3>2, <3>3, <3>5
      <4>2. (CASE m = "op" -> Http!Send("op")
               [] m = "resumable" -> Http!Send("put")
               [] m = "ranged-get" -> Http!Send("probe")
               [] m = "poll" -> Http!Send("poll"))
        BY <3>1, <3>5, <4>1 DEF Http!Follow
      <4> QED BY <4>1, <4>2 DEF Http!Send, Transports
    <3> QED BY <3>4, <3>5
  <2> QED BY <1>c, <2>1, <2>2, <2>3
<1>8. CASE Http!GiveUp \/ Http!BlockPut \/ Http!Probed \/ Http!BlockGot \/ Http!Polled
  <2>1. attempt' = 0 /\ pc' # "initiate" /\ applied' = applied /\ hop' = hop
    BY <1>8 DEF Http!GiveUp, Http!BlockPut, Http!Probed, Http!BlockGot,
                Http!Onward, Http!Polled, Http!Send, Http!Ends, Http!server
  <2> QED BY <1>a, <1>c, <2>1
<1> QED BY <1>3, <1>4, <1>5, <1>6, <1>7, <1>8 DEF Http!Next, Http!Environment, Http!Client

\* A request that must not be repeated, or not unless the deployment set
\* retry_non_idempotent, is applied once at most (_send's retry gate).
THEOREM UnsafeRequestsGoOnce == CallsSpec => []NeverTwice
<1>1. Http!Init \/ HttpAtRest => OnceOnly
  <2>1. ASSUME Http!Init \/ HttpAtRest PROVE modes \in Seq(Transports)
    <3>1. modes \in {<<>>, <<"op", "op", "op">>, <<"resumable">>, <<"ranged-get">>, <<"op", "poll">>}
      BY <2>1 DEF Http!Init, HttpAtRest
    <3>2. <<>> \in Seq(Transports)
      BY EmptySeq
    <3>3. <<"op", "op", "op">> \in Seq(Transports)
      BY DEF Transports
    <3>4. <<"resumable">> \in Seq(Transports)
      BY DEF Transports
    <3>5. <<"ranged-get">> \in Seq(Transports)
      BY DEF Transports
    <3>6. <<"op", "poll">> \in Seq(Transports)
      BY DEF Transports
    <3> QED BY <3>1, <3>2, <3>3, <3>4, <3>5, <3>6
  <2>2. Http!Init => attempt = 0 /\ hop = 0 /\ applied = 0
    BY DEF Http!Init
  <2>3. HttpAtRest => attempt = 0 /\ hop = 0 /\ applied = 1 /\ pc = "over"
    BY DEF HttpAtRest
  <2> QED BY <2>1, <2>2, <2>3 DEF OnceOnly
<1>2. OnceOnly => NeverTwice
  BY DEF OnceOnly, NeverTwice, Http!NeverTwice
<1> QED BY <1>1, <1>2, HttpOnce, OfEachCarrier, PTL


\* What a block leads to, when it is of a server that keeps ranges and says the total.
LEMMA BlockKept ==
    ASSUME Ranges, pc = "get", answer.status = "ok", Http!BlockGot
    PROVE  /\ size' = size /\ offset' \in Nat /\ offset' <= size /\ skipped' \subseteq 1 .. offset'
           /\ buf' \in Seq(Nat) /\ Ascending(buf') /\ UnitsOf(buf') = (1 .. offset') \ skipped'
<1>a. /\ size \in Nat /\ offset \in Nat /\ offset <= size
      /\ buf \in Seq(Nat) /\ Ascending(buf) /\ UnitsOf(buf) = (1 .. offset) \ skipped
      /\ skipped \subseteq 1 .. offset
  BY DEF Ranges
<1>1. PICK n \in Nat : n = answer.units /\ offset + n <= size
  BY DEF Ranges
<1>2. PICK end \in Nat : end = Http!BlockEnd /\ offset <= end /\ end <= size
  <2>1. Http!BlockEnd = IF offset + Chunk < size THEN offset + Chunk ELSE size
    BY DEF Http!BlockEnd, Http!Least
  <2>2. Chunk \in Nat
    BY CarriersAssumption DEF Http!TransfersAssumption
  <2>3. Http!BlockEnd \in Nat /\ offset <= Http!BlockEnd /\ Http!BlockEnd <= size
    BY <1>a, <2>1, <2>2
  <2> QED BY <2>3
<1>3. /\ buf' = buf \o [i \in 1 .. n |-> offset + i] /\ size' = size
      /\ offset' = IF n = 0 THEN end ELSE offset + n
      /\ skipped' = IF n = 0 THEN skipped \cup (offset + 1) .. end ELSE skipped
  BY <1>1, <1>2 DEF Http!BlockGot, Http!Block, Http!config
<1>4. /\ buf' \in Seq(Nat) /\ Ascending(buf') /\ UnitsOf(buf') = UnitsOf(buf) \cup (offset + 1) .. (offset + n)
  <2>1. UnitsOf(buf) \subseteq 1 .. offset
    BY <1>a
  <2> QED BY <1>a, <1>3, <2>1, BlockJoins
<1>5. CASE n = 0
  <2>1. offset' = end /\ skipped' = skipped \cup (offset + 1) .. end
    BY <1>3, <1>5
  <2>2. (offset + 1) .. (offset + n) = {}
    BY <1>a, <1>5
  <2>3. UnitsOf(buf') = (1 .. offset) \ skipped
    BY <1>a, <1>4, <2>2
  <2>4. (1 .. offset) \ skipped = (1 .. end) \ (skipped \cup (offset + 1) .. end)
    BY <1>a, <1>2
  <2>5. UnitsOf(buf') = (1 .. offset') \ skipped'
    BY <1>4, <2>1, <2>3, <2>4
  <2>6. skipped' \subseteq 1 .. offset'
    BY <1>a, <1>2, <2>1
  <2> QED BY <1>2, <1>3, <1>4, <2>1, <2>5, <2>6
<1>6. CASE n # 0
  <2>1. offset' = offset + n /\ skipped' = skipped
    BY <1>3, <1>6
  <2>2. UnitsOf(buf') = ((1 .. offset) \ skipped) \cup (offset + 1) .. (offset + n)
    BY <1>a, <1>4
  <2>3. skipped \cap (offset + 1) .. (offset + n) = {} => UnitsOf(buf') = (1 .. offset + n) \ skipped
    BY <1>a, <2>2
  <2> QED BY <1>a, <1>1, <1>3, <1>4, <2>1, <2>3
<1> QED BY <1>5, <1>6

LEMMA HttpRanges == Downloaded /\ [Http!Next]_httpVars => Downloaded'
<1> SUFFICES ASSUME Downloaded, [Http!Next]_httpVars, modes' = <<"ranged-get">> PROVE Downloaded'
  BY DEF Downloaded
<1>1. modes' = modes /\ size' = size /\ ranged' = ranged
  BY DEF Http!Next, Http!Environment, Http!Client, Http!Serves, Http!LosesAnswer, Http!Refuses, Http!Reply,
         Http!JobEnds, Http!Retry, Http!GiveUp, Http!Chained, Http!BlockPut, Http!Probed, Http!BlockGot,
         Http!Polled, Http!DeadlinePasses, Http!config, httpVars
<1>2. modes = <<"ranged-get">> /\ Len(modes) = 1 /\ modes[1] = "ranged-get"
  BY <1>1
<1>a. /\ pc \in {"initiate", "probe", "get", "over"} /\ (pc = "initiate" => hop = 0)
      /\ ended \in {"none", "returned", "error"} /\ size \in Nat
      /\ pc # "over" => ended = "none" /\ Begun
      /\ ended = "returned" => Whole
  BY <1>2 DEF Downloaded
<1>w. UNCHANGED <<buf, skipped>> /\ Whole => Whole'
  BY <1>1 DEF Whole, Ascending, UnitsOf, Http!Least
\* A request that is answered, lost or sent again leaves what was downloaded.
<1>b. ASSUME UNCHANGED <<pc, hop, offset, buf, skipped, ended>>,
             pc = "get" /\ ranged = "sized" =>
                 /\ answer'.status # "whole"
                 /\ answer'.status = "ok" => answer'.units \in Nat /\ offset + answer'.units <= size,
             pc = "probe" /\ answer'.status = "ok" =>
                 answer'.units = IF ranged = "none" THEN size ELSE Http!Least(1, size)
      PROVE  Downloaded'
  <2>1. Ranges /\ ranged = "sized" => Ranges'
    BY <1>1, <1>b DEF Ranges, Ascending, UnitsOf
  <2>2. pc # "over" => Begun'
    BY <1>1, <1>a, <1>b, <2>1 DEF Begun, Http!Least
  <2> QED BY <1>1, <1>a, <1>b, <1>w, <2>2 DEF Downloaded
\* A call that is over is not taken further.
<1>c. ASSUME pc # "over", pc' = "over", ended' = "error" PROVE Downloaded'
  BY <1>1, <1>a, <1>c DEF Downloaded
<1>d. ASSUME pc # "over", pc' = "over", ended' = "returned", Whole' PROVE Downloaded'
  BY <1>1, <1>a, <1>d DEF Downloaded
<1>3. CASE Http!Serves \/ Http!LosesAnswer
  <2>1. /\ UNCHANGED <<pc, hop, offset, buf, skipped, ended>> /\ Http!Asked
    BY <1>3 DEF Http!Serves, Http!LosesAnswer, Http!Reply, Http!got
  <2>2. answer'.status \in {"ok", "whole"} => \E a : Http!Takes(a) /\ answer' = a
    BY <1>3 DEF Http!Serves, Http!LosesAnswer, Http!Reply, Http!Answered
  <2>3. ASSUME pc = "get", ranged = "sized", answer'.status \in {"ok", "whole"}
        PROVE  answer'.status # "whole" /\ answer'.units \in Nat /\ offset + answer'.units <= size
    <3>1. PICK n \in 0 .. (Http!BlockEnd - offset) : answer' = Http!Answered("ok", n)
      BY <2>2, <2>3 DEF Http!Takes
    <3>2. answer'.units = n /\ answer'.status = "ok"
      BY <3>1 DEF Http!Answered
    <3>3. Ranges
      BY <1>a, <2>3 DEF Begun
    <3>4. Http!BlockEnd \in Nat /\ Http!BlockEnd <= size
      BY <3>3, CarriersAssumption DEF Http!BlockEnd, Http!Least, Http!TransfersAssumption, Ranges
    <3> QED BY <3>2, <3>3, <3>4 DEF Ranges
  <2>4. ASSUME pc = "probe", answer'.status = "ok"
        PROVE  answer'.units = IF ranged = "none" THEN size ELSE Http!Least(1, size)
    BY <2>2, <2>4 DEF Http!Takes, Http!Answered
  <2> QED BY <1>b, <2>1, <2>3, <2>4
<1>4. CASE Http!Refuses
  BY <1>4, <1>b DEF Http!Refuses, Http!Reply, Http!Answered, Http!got
<1>5. CASE Http!JobEnds \/ Http!DeadlinePasses \/ UNCHANGED httpVars
  <2>1. UNCHANGED <<pc, hop, offset, buf, skipped, ended, answer>>
    BY <1>5 DEF Http!JobEnds, Http!DeadlinePasses, httpVars, Http!got
  <2>2. pc = "get" /\ ranged = "sized" => Ranges
    BY <1>a DEF Begun
  <2>3. pc = "probe" => Begun
    BY <1>a
  <2> QED BY <1>b, <2>1, <2>2, <2>3 DEF Ranges, Begun
<1>6. CASE Http!Retry
  BY <1>6, <1>b DEF Http!Retry, Http!NoAnswer, Http!got
<1>7. CASE Http!GiveUp
  <2>1. pc' = "over" /\ ended' = "error"
    BY <1>7 DEF Http!GiveUp, Http!Ends
  <2> QED BY <1>1, <1>a, <2>1 DEF Downloaded
<1>8. CASE Http!Chained
  <2>1. /\ pc = "initiate" /\ hop' = 0 /\ Http!Follow(0) /\ UNCHANGED <<offset, buf, skipped>>
        /\ Begun /\ ended = "none"
    BY <1>8, <1>a DEF Http!Chained, Http!got
  <2>2. \/ pc' = "over" /\ ended' = "error"
        \/ pc' = "probe" /\ ended' = ended /\ answer' = Http!NoAnswer
    BY <1>2, <2>1 DEF Http!Follow, Http!Send, Http!Ends
  <2>3. ASSUME pc' = "probe", answer' = Http!NoAnswer PROVE Begun'
    <3>1. ranged = "sized" => Ranges'
      BY <1>1, <2>1, <2>3 DEF Begun, Ranges, Ascending, UnitsOf
    <3> QED BY <1>1, <2>1, <2>3, <3>1 DEF Begun, Http!NoAnswer
  <2> QED BY <1>1, <1>a, <1>c, <2>1, <2>2, <2>3 DEF Downloaded
<1>9. CASE Http!BlockPut \/ Http!Polled
  BY <1>9, <1>a DEF Http!BlockPut, Http!Polled
<1>10. CASE Http!Probed
  <2>1. /\ pc = "probe" /\ Begun /\ answer.status = "ok" /\ ended = "none"
        /\ offset = 0 /\ buf = <<>> /\ skipped = {}
    BY <1>10, <1>a DEF Http!Probed, Begun
  <2>2. UNCHANGED <<hop, offset, skipped>>
    BY <1>10 DEF Http!Probed
  <2>3. CASE ranged \in {"none", "unsized"}
    <3>1. /\ pc' = "over" /\ ended' \in {"returned", "error"}
          /\ buf' = [i \in 1 .. (IF ranged = "none" THEN size ELSE Http!Least(1, size)) |-> i]
      BY <1>10, <2>1, <2>3 DEF Http!Probed, Http!Ends, Begun
    <3>2. Whole'
      BY <1>1, <2>3, <3>1 DEF Whole, Http!Least
    <3> QED BY <1>c, <1>d, <2>1, <3>1, <3>2
  <2>4. CASE ranged \notin {"none", "unsized"}
    <3>1. /\ buf' = buf
          /\ \/ pc' = "over" /\ ended' = "error"
             \/ pc' = "over" /\ ended' = "returned" /\ size = 0
             \/ pc' = "get" /\ ended' = ended /\ answer' = Http!NoAnswer
      BY <1>10, <2>4 DEF Http!Probed, Http!Ends, Http!Send
    <3>2. CASE pc' = "over" /\ ended' = "returned" /\ size = 0
      <4>1. Ascending(<<>>) /\ UnitsOf(<<>>) = {}
        BY DEF Ascending, UnitsOf
      <4>2. 1 .. 0 = {}
        OBVIOUS
      <4>3. Whole'
        BY <1>1, <2>1, <2>2, <2>4, <3>1, <3>2, <4>1, <4>2 DEF Whole
      <4> QED BY <1>d, <2>1, <3>2, <4>3
    <3>3. CASE pc' = "get" /\ ended' = ended /\ answer' = Http!NoAnswer
      <4>1. ranged = "sized" => Ranges'
        BY <1>1, <2>1, <2>2, <3>1, <3>3 DEF Begun, Ranges, Http!NoAnswer, Ascending, UnitsOf
      <4>2. Begun'
        BY <1>1, <2>4, <3>3, <4>1 DEF Begun
      <4> QED BY <1>1, <1>a, <2>1, <2>2, <3>3, <4>2 DEF Downloaded
    <3> QED BY <1>c, <2>1, <3>1, <3>2, <3>3
  <2> QED BY <2>3, <2>4
<1>11. CASE Http!BlockGot
  <2>1. /\ pc = "get" /\ Begun /\ answer.status \in {"ok", "whole"} /\ ended = "none" /\ hop' = hop
        /\ ranged \notin {"none", "unsized"}
    BY <1>11, <1>a DEF Http!BlockGot, Begun
  <2>2. \/ pc' = "over" /\ ended' = "error"
        \/ pc' = "over" /\ ended' = "returned" /\ offset' >= size
        \/ pc' = "get" /\ ended' = ended /\ answer' = Http!NoAnswer
    BY <1>11 DEF Http!BlockGot, Http!Onward, Http!Ends, Http!Send
  <2>3. ranged = "sized" =>
            /\ size' = size /\ offset' \in Nat /\ offset' <= size /\ skipped' \subseteq 1 .. offset'
            /\ buf' \in Seq(Nat) /\ Ascending(buf') /\ UnitsOf(buf') = (1 .. offset') \ skipped'
    <3>1. ranged = "sized" => Ranges
      BY <2>1 DEF Begun
    <3>2. ranged = "sized" => answer.status = "ok"
      BY <2>1, <3>1 DEF Ranges
    <3> QED BY <1>11, <2>1, <3>1, <3>2, BlockKept
  <2>4. CASE pc' = "over" /\ ended' = "returned" /\ offset' >= size
    <3>1. ranged = "sized" => offset' = size
      BY <1>a, <2>3, <2>4
    <3>2. Whole'
      BY <1>1, <2>1, <2>3, <3>1 DEF Whole, Ascending, UnitsOf
    <3> QED BY <1>d, <2>1, <2>4, <3>2
  <2>5. CASE pc' = "get" /\ ended' = ended /\ answer' = Http!NoAnswer
    <3>1. ranged = "sized" => Ranges'
      BY <1>1, <1>a, <2>3, <2>5 DEF Ranges, Http!NoAnswer, Ascending, UnitsOf
    <3>2. Begun'
      BY <1>1, <2>1, <2>5, <3>1 DEF Begun
    <3> QED BY <1>1, <1>a, <2>1, <2>5, <3>2 DEF Downloaded
  <2> QED BY <1>c, <2>1, <2>2, <2>4, <2>5
<1> QED BY <1>3, <1>4, <1>5, <1>6, <1>7, <1>8, <1>9, <1>10, <1>11 DEF Http!Next, Http!Environment, Http!Client

\* A download that returns has every unit of the medium once and in order, through short
\* ranges, retries and broken connections, but for the ranges answered with an empty
\* block; without a total it is the one unit of the probe (_ranged_get, _get_with_retry).
THEOREM DownloadsAreWhole == CallsSpec => []DownloadIsWhole
<1>1. Http!Init \/ HttpAtRest => Downloaded
  <2>1. Http!Init => /\ pc = "initiate" /\ hop = 0 /\ ended = "none" /\ offset = 0 /\ buf = <<>>
                     /\ skipped = {} /\ size \in 0 .. MaxSize
    BY DEF Http!Init
  <2>2. HttpAtRest => modes = <<>>
    BY DEF HttpAtRest
  <2>3. <<>> # <<"ranged-get">> /\ Ascending(<<>>) /\ UnitsOf(<<>>) = {} /\ 1 .. 0 = {} /\ <<>> \in Seq(Nat)
    BY DEF Ascending, UnitsOf
  <2>4. MaxSize \in Nat
    BY CarriersAssumption DEF Http!TransfersAssumption
  <2>5. Http!Init => Ranges /\ size \in Nat
    BY <2>1, <2>3, <2>4 DEF Ranges
  <2>6. Http!Init => Begun
    BY <2>1, <2>5 DEF Begun
  <2>7. Http!Init => Downloaded
    BY <2>1, <2>5, <2>6 DEF Downloaded
  <2>8. HttpAtRest => Downloaded
    BY <2>2, <2>3 DEF Downloaded
  <2> QED BY <2>7, <2>8
<1>2. Downloaded => DownloadIsWhole
  <2>1. Whole => CASE ranged = "none" -> buf = [i \in 1..size |-> i]
                   [] ranged = "unsized" -> buf = [i \in 1..Http!Least(1, size) |-> i]
                   [] ranged = "sized" -> /\ \A i, j \in DOMAIN buf : i < j => buf[i] < buf[j]
                                          /\ {buf[i] : i \in DOMAIN buf} = (1..size) \ skipped
                   [] OTHER -> TRUE
    BY DEF Whole, Ascending, UnitsOf
  <2> QED BY <2>1 DEF Downloaded, DownloadIsWhole, Http!DownloadIsWhole
<1> QED BY <1>1, <1>2, HttpRanges, OfEachCarrier, PTL

------------------------------------------------------------------------------
(* Local programs.                                                         *)

\* A call that has no process yet has none; one that told its caller how it ended has
\* none any more.
ProcessOf(c) ==
    /\ run[c].phase \in {"idle", "spawning"} => process[c] = "none"
    /\ run[c].phase = "back" /\ run[c].outcome # "cancelled" => process[c] \in {"none", "gone"}

Spawns == DOMAIN run = Runs /\ DOMAIN process = Runs /\ \A c \in Runs : ProcessOf(c)

LEMMA ExecStep == Spawns /\ [Exec!Next]_execVars => Spawns'
<1> SUFFICES ASSUME Spawns, [Exec!Next]_execVars PROVE Spawns'
  OBVIOUS
<1>1. CASE UNCHANGED execVars
  BY <1>1 DEF execVars, Spawns, ProcessOf
<1>2. ASSUME NEW c \in Runs,
             \/ \E cmd \in Commands, argv \in Arguments : Exec!Invoke(c, cmd, argv)
             \/ Exec!Spawned(c) \/ Exec!Dies(c) \/ Exec!Drained(c) \/ Exec!Communicated(c)
             \/ Exec!Timeout(c) \/ Exec!Waited(c) \/ Exec!Cancelled(c)
      PROVE  Spawns'
  <2>a. DOMAIN run = Runs /\ DOMAIN process = Runs /\ \A d \in Runs : ProcessOf(d)
    BY DEF Spawns
  <2>b. ASSUME DOMAIN run' = Runs, DOMAIN process' = Runs,
               \A d \in Runs \ {c} : run'[d] = run[d] /\ process'[d] = process[d], ProcessOf(c)'
        PROVE  Spawns'
    BY <2>a, <2>b DEF Spawns, ProcessOf
  <2>1. CASE \E cmd \in Commands, argv \in Arguments : Exec!Invoke(c, cmd, argv)
    <3>1. PICK r : /\ run' = [run EXCEPT ![c] = r] /\ process' = process /\ run[c].phase = "idle"
                   /\ r.phase \in {"back", "spawning"}
      <4>1. PICK cmd \in Commands, argv \in Arguments : Exec!Invoke(c, cmd, argv)
        BY <2>1
      <4>2. process' = process /\ run[c].phase = "idle"
        BY <4>1 DEF Exec!Invoke, Exec!At
      <4>3. \/ run' = [run EXCEPT ![c] = [phase |-> "back", outcome |-> "error"]]
            \/ run' = [run EXCEPT ![c] = [phase |-> "spawning", cmd |-> cmd]]
        BY <4>1 DEF Exec!Invoke, Exec!Back
      <4>4. /\ [phase |-> "back", outcome |-> "error"].phase = "back"
            /\ [phase |-> "spawning", cmd |-> cmd].phase = "spawning"
        OBVIOUS
      <4> QED BY <4>2, <4>3, <4>4
    <3> QED BY <2>a, <2>b, <3>1 DEF ProcessOf
  <2>2. CASE Exec!Spawned(c)
    <3>1. /\ run[c].phase = "spawning"
          /\ \/ run' = [run EXCEPT ![c].phase = "running"] /\ process' = [process EXCEPT ![c] = "up"]
             \/ run' = [run EXCEPT ![c] = [phase |-> "back", outcome |-> "error"]] /\ process' = process
      BY <2>2 DEF Exec!Spawned, Exec!Back, Exec!At
    <3>2. CASE run' = [run EXCEPT ![c].phase = "running"] /\ process' = [process EXCEPT ![c] = "up"]
      <4>1. run'[c] = [run[c] EXCEPT !.phase = "running"] /\ process'[c] = "up"
        BY <2>a, <3>2
      <4>2. run'[c].phase = "running" \/ run'[c] = run[c]
        BY <4>1
      <4>3. PICK r : run' = [run EXCEPT ![c] = r] /\ (r.phase = "running" \/ r = run[c])
        BY <2>a, <3>2, <4>1, <4>2
      <4> QED BY <2>a, <2>b, <3>1, <3>2, <4>1, <4>3 DEF ProcessOf
    <3>3. CASE run' = [run EXCEPT ![c] = [phase |-> "back", outcome |-> "error"]] /\ process' = process
      BY <2>a, <2>b, <3>1, <3>3 DEF ProcessOf
    <3> QED BY <3>1, <3>2, <3>3
  <2>3. CASE Exec!Dies(c)
    <3>1. /\ process[c] \in {"up", "killed"} /\ process' = [process EXCEPT ![c] = "gone"] /\ run' = run
      BY <2>3 DEF Exec!Dies
    <3> QED BY <2>a, <2>b, <3>1 DEF ProcessOf
  <2>4. CASE Exec!Drained(c)
    BY <2>4, <2>a DEF Exec!Drained, Spawns, ProcessOf
  <2>5. CASE Exec!Communicated(c) \/ Exec!Waited(c)
    <3>1. PICK o : /\ run' = [run EXCEPT ![c] = [phase |-> "back", outcome |-> o]]
                   /\ process' = process /\ process[c] = "gone"
      BY <2>5 DEF Exec!Communicated, Exec!Waited, Exec!Back
    <3> QED BY <2>a, <2>b, <3>1 DEF ProcessOf
  <2>6. CASE Exec!Timeout(c)
    <3>1. PICK r : /\ run' = [run EXCEPT ![c] = r] /\ run[c].phase = "running"
                   /\ process' = [process EXCEPT ![c] = IF @ = "up" THEN "killed" ELSE @]
                   /\ \/ process[c] = "gone" /\ r = [phase |-> "back", outcome |-> "raised"]
                      \/ r = [run[c] EXCEPT !.phase = "killing"]
      BY <2>a, <2>6 DEF Exec!Timeout, Exec!Back, Exec!At
    <3>2. [run[c] EXCEPT !.phase = "killing"].phase = "killing" \/ [run[c] EXCEPT !.phase = "killing"] = run[c]
      OBVIOUS
    <3>3. \/ r.phase = "killing" \/ r = run[c]
          \/ process[c] = "gone" /\ r = [phase |-> "back", outcome |-> "raised"]
      BY <3>1, <3>2
    <3>4. run'[c] = r /\ process'[c] = IF process[c] = "up" THEN "killed" ELSE process[c]
      BY <2>a, <3>1
    <3>5. /\ run'[c].phase \notin {"idle", "spawning"}
          /\ run'[c].phase = "back" => process'[c] \in {"none", "gone"}
      <4>1. CASE r.phase = "killing"
        BY <3>4, <4>1
      <4>2. CASE r = run[c]
        BY <3>1, <3>4, <4>2
      <4>3. CASE process[c] = "gone" /\ r = [phase |-> "back", outcome |-> "raised"]
        BY <3>4, <4>3
      <4> QED BY <3>1, <3>3, <4>1, <4>2, <4>3
    <3>6. ProcessOf(c)'
      BY <3>5 DEF ProcessOf
    <3> QED BY <2>a, <2>b, <3>1, <3>6
  <2>7. CASE Exec!Cancelled(c)
    <3>1. run' = [run EXCEPT ![c] = [phase |-> "back", outcome |-> "cancelled"]] /\ process' = process
      BY <2>7 DEF Exec!Cancelled, Exec!Back
    <3> QED BY <2>a, <2>b, <3>1 DEF ProcessOf
  <2> QED BY <1>2, <2>1, <2>2, <2>3, <2>4, <2>5, <2>6, <2>7
<1> QED BY <1>1, <1>2 DEF Exec!Next

LEMMA ExecShows == /\ Exec!Init => Spawns
                   /\ Spawns => Exec!AnsweredMeansGone
<1>1. Exec!Init => Spawns
  BY DEF Exec!Init, Exec!Idle, Spawns, ProcessOf
<1>2. Spawns => Exec!AnsweredMeansGone
  BY DEF Spawns, ProcessOf, Exec!AnsweredMeansGone, Exec!At
<1> QED BY <1>1, <1>2

------------------------------------------------------------------------------
(* A pool of Redis clients.                                                *)

\* The greatest of a set of numbers that has a bound.
LEMMA Greatest ==
    ASSUME NEW S, NEW b \in Nat, S \subseteq 0 .. b, S # {}
    PROVE  \E m \in S : \A x \in S : x <= m
<1> DEFINE T == {b - x : x \in S}
<1> DEFINE R == OpToRel(<, Nat)
<1>1. T \subseteq Nat /\ T # {}
  <2>1. \A x \in 0 .. b : b - x \in Nat
    OBVIOUS
  <2> QED BY <2>1
<1>2. \A x, y \in Nat : <<x, y>> \in R <=> x < y
  BY DEF OpToRel
<1>3. IsWellFoundedOn(R, Nat)
  BY NatLessThanWellFounded
<1>4. PICK t \in T : \A u \in T : ~ (<<u, t>> \in R)
  <2> HIDE DEF R, T
  <2> QED BY <1>1, <1>3, WFMin
<1>5. PICK m \in S : t = b - m
  BY <1>4
<1>6. ASSUME NEW x \in S PROVE x <= m
  <2>1. b - x \in T /\ b - x \in Nat /\ t \in Nat /\ x \in Nat /\ m \in Nat
    BY <1>5
  <2>2. ~ (<<b - x, t>> \in R)
    BY <1>4, <2>1
  <2> HIDE DEF R
  <2>3. ~ (b - x < t)
    BY <1>2, <2>1, <2>2
  <2> QED BY <1>5, <2>1, <2>3
<1> QED BY <1>6

Enumerates(q, n, S) ==
    /\ q \in [1 .. n -> S] /\ S = {q[i] : i \in 1 .. n}
    /\ \A i, j \in 1 .. n : i < j => q[i] < q[j]

\* One element more, greater than the others, is enumerated last.
LEMMA EnumerateOneMore ==
    ASSUME NEW S \in SUBSET Nat, NEW m \in S, NEW n \in Nat, NEW q,
           Enumerates(q, n, S \ {m}), \A x \in S : x <= m
    PROVE  \E r : Enumerates(r, n + 1, S)
<1> DEFINE r == [i \in 1 .. n + 1 |-> IF i = n + 1 THEN m ELSE q[i]]
<1>1. /\ q \in [1 .. n -> S \ {m}] /\ S \ {m} = {q[i] : i \in 1 .. n}
      /\ \A i, j \in 1 .. n : i < j => q[i] < q[j]
  BY DEF Enumerates
<1>2. \A i \in 1 .. n + 1 : i = n + 1 \/ i \in 1 .. n
  OBVIOUS
<1>3. r \in [1 .. n + 1 -> S] /\ r[n + 1] = m /\ \A i \in 1 .. n : r[i] = q[i]
  BY <1>1, <1>2
<1> HIDE DEF r
<1>4. S = {r[i] : i \in 1 .. n + 1}
  <2>1. ASSUME NEW x \in S PROVE \E i \in 1 .. n + 1 : r[i] = x
    <3>1. CASE x = m
      BY <1>3, <3>1
    <3>2. CASE x # m
      <4>1. PICK i \in 1 .. n : q[i] = x
        BY <1>1, <3>2
      <4> QED BY <1>3, <4>1
    <3> QED BY <3>1, <3>2
  <2> QED BY <1>3, <2>1
<1>5. ASSUME NEW i \in 1 .. n + 1, NEW j \in 1 .. n + 1, i < j PROVE r[i] < r[j]
  <2>1. i \in 1 .. n
    BY <1>5
  <2>2. CASE j \in 1 .. n
    BY <1>1, <1>3, <1>5, <2>1, <2>2
  <2>3. CASE j = n + 1
    <3>1. q[i] \in S \ {m}
      BY <1>1, <2>1
    <3>2. q[i] \in Nat /\ m \in Nat /\ q[i] # m /\ q[i] <= m
      BY <3>1
    <3>3. q[i] < m
      BY <3>2
    <3> QED BY <1>3, <2>1, <2>3, <3>3
  <2> QED BY <1>2, <2>2, <2>3
<1> QED BY <1>3, <1>4, <1>5 DEF Enumerates

\* Every set of clients can be closed in order: by the least size that could not be.
LEMMA InOrderIsOrder ==
    ASSUME NEW b \in Nat, NEW S \in SUBSET (1 .. b)
    PROVE  Enumerates(Redis!InOrder(S), Cardinality(S), S)
<1> DEFINE Orders(U) == \E q : Enumerates(q, Cardinality(U), U)
<1> DEFINE Bad == {n \in Nat : \E U \in SUBSET (1 .. b) : Cardinality(U) = n /\ ~ Orders(U)}
<1> DEFINE R == OpToRel(<, Nat)
<1>1. \A x, y \in Nat : <<x, y>> \in R <=> x < y
  BY DEF OpToRel
<1>2. IsWellFoundedOn(R, Nat)
  BY NatLessThanWellFounded
<1>3. \A U \in SUBSET (1 .. b) : IsFiniteSet(U) /\ Cardinality(U) \in Nat
  <2>1. IsFiniteSet(1 .. b)
    BY FS_Interval
  <2> QED BY <2>1, FS_Subset, FS_CardinalityType
<1>4. Bad = {}
  <2> SUFFICES ASSUME Bad # {} PROVE FALSE
    OBVIOUS
  <2>1. PICK n \in Bad : \A u \in Bad : ~ (<<u, n>> \in R)
    <3>1. Bad \subseteq Nat
      OBVIOUS
    <3> HIDE DEF Bad, R
    <3> QED BY <1>2, <3>1, WFMin
  <2>n. n \in Nat
    BY <2>1
  <2>2. PICK U \in SUBSET (1 .. b) : Cardinality(U) = n /\ ~ Orders(U)
    BY <2>1
  <2>3. CASE U = {}
    <3>1. Cardinality(U) = 0
      BY <2>3, FS_EmptySet
    <3>2. Enumerates(<<>>, 0, {})
      <4>1. <<>> \in [1 .. 0 -> {}] /\ 1 .. 0 = {}
        OBVIOUS
      <4> QED BY <4>1 DEF Enumerates
    <3> QED BY <2>2, <2>3, <3>1, <3>2
  <2>4. CASE U # {}
    <3>1. PICK m \in U : \A x \in U : x <= m
      <4>1. U \subseteq 0 .. b
        OBVIOUS
      <4> QED BY <2>4, <4>1, Greatest
    <3>2. /\ U \ {m} \in SUBSET (1 .. b) /\ Cardinality(U \ {m}) = n - 1 /\ n - 1 \in Nat
      <4>1. IsFiniteSet(U) /\ Cardinality(U \ {m}) = n - 1
        BY <1>3, <2>2, FS_RemoveElement
      <4>2. Cardinality(U \ {m}) \in Nat
        BY <1>3
      <4> QED BY <4>1, <4>2
    <3>3. n - 1 \notin Bad
      <4>1. n \in Nat /\ n - 1 < n
        BY <2>n
      <4>2. <<n - 1, n>> \in R
        BY <1>1, <3>2, <4>1
      <4> QED BY <2>1, <4>2
    <3>4. Orders(U \ {m})
      BY <3>2, <3>3
    <3>5. PICK q : Enumerates(q, n - 1, U \ {m})
      BY <3>2, <3>4
    <3>6. \E r : Enumerates(r, (n - 1) + 1, U)
      <4>1. U \in SUBSET Nat
        OBVIOUS
      <4> QED BY <3>1, <3>2, <3>5, <4>1, EnumerateOneMore
    <3>7. (n - 1) + 1 = n
      BY <2>n
    <3> QED BY <2>2, <3>6, <3>7
  <2> QED BY <2>3, <2>4
<1>5. PICK q : Enumerates(q, Cardinality(S), S)
  BY <1>3, <1>4
<1> DEFINE n == Cardinality(S)
<1>6. n \in Nat
  BY <1>3
<1>7. \A r \in [1 .. n -> S] : DOMAIN r = 1 .. n
  OBVIOUS
<1>8. \E r \in [1 .. n -> S] : \A i, j \in DOMAIN r : i < j => r[i] < r[j]
  BY <1>5, <1>7 DEF Enumerates
<1>9. PICK r \in [1 .. n -> S] : r = Redis!InOrder(S) /\ \A i, j \in DOMAIN r : i < j => r[i] < r[j]
  <2> DEFINE B(seq) == \A i, j \in DOMAIN seq : i < j => seq[i] < seq[j]
  <2>1. Redis!InOrder(S) = CHOOSE seq \in [1 .. n -> S] : B(seq)
    BY DEF Redis!InOrder, Redis!Cardinality, Redis!IsFiniteSet, Cardinality, IsFiniteSet
  <2>2. \E seq \in [1 .. n -> S] : B(seq)
    BY <1>8
  <2>3. Redis!InOrder(S) \in [1 .. n -> S] /\ B(Redis!InOrder(S))
    <3> HIDE DEF B
    <3> QED BY <2>1, <2>2
  <2> QED BY <2>3
\* As many, all different: none is left out.
<1>10. S = {r[i] : i \in 1 .. n}
  <2>1. \A i, j \in 1 .. n : r[i] = r[j] => i = j
    <3>1. \A i \in 1 .. n : r[i] \in Nat
      <4>1. S \subseteq Nat /\ \A i \in 1 .. n : r[i] \in S
        OBVIOUS
      <4> QED BY <4>1
    <3>2. \A i, j \in 1 .. n : i # j => i < j \/ j < i
      OBVIOUS
    <3> QED BY <1>7, <1>9, <3>1, <3>2
  <2>2. r \in Injection(1 .. n, S)
    BY <2>1 DEF Injection, IsInjective
  <2>3. Cardinality(1 .. n) = n /\ IsFiniteSet(1 .. n) /\ IsFiniteSet(S)
    BY <1>3, <1>6, FS_Interval
  <2>4. r \in Surjection(1 .. n, S)
    BY <2>2, <2>3, FS_Injection
  <2> QED BY <2>4 DEF Surjection
<1> QED BY <1>7, <1>9, <1>10 DEF Enumerates

\* The pool as its clients see it: what is in it is open and nobody closes it, what is
\* being closed has been made, and what is open is in the pool or with an aclose.
PoolOf ==
    /\ made \in Nat /\ open \subseteq 1 .. made
    /\ DOMAIN pool = Urls /\ Redis!Pooled \subseteq open /\ Redis!Pooled \cap Redis!BeingClosed = {}
    /\ Redis!BeingClosed \subseteq 1 .. made
    /\ ~raised => open \subseteq Redis!Pooled \cup Redis!BeingClosed
    /\ DOMAIN closing = Redis!Closers /\ \A k \in Redis!Closers : closing[k] \in Seq(Nat)
    /\ closes \in Nat /\ \A k \in Redis!Closers : k > closes => closing[k] = <<>>

Subscribers ==
    /\ DOMAIN user = Users /\ pubsub \subseteq Users
    /\ \A c \in pubsub : user[c].phase \in {"subscribing", "stream", "closing", "abandoned", "left"}

LEMMA Closing ==
    \A x : x \in Redis!BeingClosed
           <=> \E k \in Redis!Closers : \E i \in DOMAIN closing[k] : closing[k][i] = x
<1> QED BY DEF Redis!BeingClosed

\* Closing one client more, or none of the rest, leaves no other client to be closed.
LEMMA CloserStep ==
    ASSUME PoolOf, NEW k \in Redis!Closers, closing[k] # <<>>, NEW q \in Seq(Nat),
           \A i \in DOMAIN q : \E j \in DOMAIN closing[k] : closing[k][j] = q[i],
           closing' = [closing EXCEPT ![k] = q],
           UNCHANGED <<pool, made, closes>>, open' \subseteq open,
           Redis!Pooled \subseteq open',
           ~raised' => /\ ~raised
                       /\ \A i \in DOMAIN closing[k] :
                             closing[k][i] \notin open' \/ \E j \in DOMAIN q : q[j] = closing[k][i]
    PROVE  PoolOf'
<1>a. /\ made \in Nat /\ open \subseteq 1 .. made
      /\ DOMAIN pool = Urls /\ Redis!Pooled \subseteq open /\ Redis!Pooled \cap Redis!BeingClosed = {}
      /\ Redis!BeingClosed \subseteq 1 .. made
      /\ ~raised => open \subseteq Redis!Pooled \cup Redis!BeingClosed
      /\ DOMAIN closing = Redis!Closers /\ \A d \in Redis!Closers : closing[d] \in Seq(Nat)
      /\ closes \in Nat /\ \A d \in Redis!Closers : d > closes => closing[d] = <<>>
  BY DEF PoolOf
<1>1. Redis!Pooled' = Redis!Pooled
  BY DEF Redis!Pooled
<1>2. DOMAIN closing' = Redis!Closers /\ closing'[k] = q /\ \A d \in Redis!Closers \ {k} : closing'[d] = closing[d]
  BY <1>a
<1>3. \A x : x \in Redis!BeingClosed'
             <=> \E d \in Redis!Closers : \E i \in DOMAIN closing'[d] : closing'[d][i] = x
  BY DEF Redis!BeingClosed
<1>4. ASSUME NEW x, x \in Redis!BeingClosed' PROVE x \in Redis!BeingClosed
  <2>1. PICK d \in Redis!Closers : \E i \in DOMAIN closing'[d] : closing'[d][i] = x
    BY <1>3, <1>4
  <2>2. \E i \in DOMAIN closing[d] : closing[d][i] = x
    BY <1>2, <2>1
  <2> QED BY <2>2, Closing
<1>5. ASSUME ~raised', NEW x \in open' PROVE x \in Redis!Pooled' \cup Redis!BeingClosed'
  <2>1. x \in Redis!Pooled \/ x \in Redis!BeingClosed
    BY <1>a, <1>5
  <2>2. CASE x \in Redis!BeingClosed
    <3>1. PICK d \in Redis!Closers : \E i \in DOMAIN closing[d] : closing[d][i] = x
      BY <2>2, Closing
    <3>2. \E i \in DOMAIN closing'[d] : closing'[d][i] = x
      BY <1>2, <1>5, <3>1
    <3> QED BY <1>3, <3>2
  <2> QED BY <1>1, <2>1, <2>2
<1>6. \A d \in Redis!Closers : closing'[d] \in Seq(Nat)
  BY <1>a, <1>2
<1>7. \A d \in Redis!Closers : d > closes => closing'[d] = <<>>
  BY <1>a, <1>2
<1> QED BY <1>a, <1>1, <1>2, <1>4, <1>5, <1>6, <1>7 DEF PoolOf, Redis!Closers

\* What an aclose takes is the pool, whole and in order.
LEMMA AcloseStep == PoolOf /\ Redis!Aclose => PoolOf'
<1> SUFFICES ASSUME PoolOf, Redis!Aclose PROVE PoolOf'
  OBVIOUS
<1>a. /\ made \in Nat /\ open \subseteq 1 .. made
      /\ DOMAIN pool = Urls /\ Redis!Pooled \subseteq open /\ Redis!Pooled \cap Redis!BeingClosed = {}
      /\ Redis!BeingClosed \subseteq 1 .. made
      /\ ~raised => open \subseteq Redis!Pooled \cup Redis!BeingClosed
      /\ DOMAIN closing = Redis!Closers /\ \A d \in Redis!Closers : closing[d] \in Seq(Nat)
      /\ closes \in Nat /\ \A d \in Redis!Closers : d > closes => closing[d] = <<>>
  BY DEF PoolOf
<1> DEFINE z == Redis!InOrder(Redis!Pooled)
<1> DEFINE n == Cardinality(Redis!Pooled)
<1> DEFINE e == closes + 1
<1>1. /\ closes < MaxCloses /\ closes' = e /\ closing' = [closing EXCEPT ![e] = z]
      /\ pool' = [u \in Urls |-> NoClient] /\ UNCHANGED <<made, open, raised>>
  BY DEF Redis!Aclose
<1>2. Redis!Pooled \in SUBSET (1 .. made)
  BY <1>a
<1>3. Enumerates(z, n, Redis!Pooled) /\ n \in Nat
  <2>1. Enumerates(Redis!InOrder(Redis!Pooled), Cardinality(Redis!Pooled), Redis!Pooled)
    BY <1>a, <1>2, InOrderIsOrder
  <2>2. IsFiniteSet(1 .. made)
    BY <1>a, FS_Interval
  <2>3. IsFiniteSet(Redis!Pooled)
    BY <1>2, <2>2, FS_Subset
  <2> QED BY <2>1, <2>3, FS_CardinalityType
<1>4. z \in [1 .. n -> Redis!Pooled] /\ Redis!Pooled = {z[i] : i \in 1 .. n}
  BY <1>3 DEF Enumerates
<1> HIDE DEF z, n
<1>5. z \in Seq(Nat) /\ DOMAIN z = 1 .. n
  <2>1. z \in [1 .. n -> Nat]
    <3>1. Redis!Pooled \subseteq Nat
      BY <1>2
    <3> QED BY <1>4, <3>1
  <2> QED BY <1>3, <2>1
<1>6. e \in Redis!Closers /\ closing[e] = <<>>
  <2>1. MaxCloses \in Nat
    BY CarriersAssumption DEF Redis!PoolAssumption
  <2>2. e \in 1 .. MaxCloses /\ e > closes
    BY <1>1, <1>a, <2>1
  <2> QED BY <1>a, <2>2 DEF Redis!Closers
<1>7. DOMAIN closing' = Redis!Closers /\ closing'[e] = z /\ \A d \in Redis!Closers \ {e} : closing'[d] = closing[d]
  BY <1>a, <1>1, <1>6
<1>8. Redis!Pooled' = {}
  BY <1>1 DEF Redis!Pooled
<1>9. \A x : x \in Redis!BeingClosed'
             <=> \E d \in Redis!Closers : \E i \in DOMAIN closing'[d] : closing'[d][i] = x
  BY DEF Redis!BeingClosed
<1>10. \A x : x \in Redis!BeingClosed' <=> x \in Redis!Pooled \/ x \in Redis!BeingClosed
  <2>1. ASSUME NEW x, x \in Redis!BeingClosed' PROVE x \in Redis!Pooled \/ x \in Redis!BeingClosed
    <3>1. PICK d \in Redis!Closers : \E i \in DOMAIN closing'[d] : closing'[d][i] = x
      BY <1>9, <2>1
    <3>2. CASE d = e
      BY <1>4, <1>5, <1>7, <3>1, <3>2
    <3>3. CASE d # e
      BY <1>7, <3>1, <3>3, Closing
    <3> QED BY <3>2, <3>3
  <2>2. ASSUME NEW x \in Redis!Pooled PROVE x \in Redis!BeingClosed'
    <3>1. \E i \in DOMAIN closing'[e] : closing'[e][i] = x
      BY <1>4, <1>5, <1>7
    <3> QED BY <1>6, <1>9, <3>1
  <2>3. ASSUME NEW x \in Redis!BeingClosed PROVE x \in Redis!BeingClosed'
    <3>1. PICK d \in Redis!Closers : \E i \in DOMAIN closing[d] : closing[d][i] = x
      BY <2>3, Closing
    <3>2. d # e
      BY <1>6, <3>1
    <3>3. \E i \in DOMAIN closing'[d] : closing'[d][i] = x
      BY <1>7, <3>1, <3>2
    <3> QED BY <1>9, <3>3
  <2> QED BY <2>1, <2>2, <2>3
<1>11. \A d \in Redis!Closers : closing'[d] \in Seq(Nat)
  BY <1>a, <1>5, <1>7
<1>12. \A d \in Redis!Closers : d > e => closing'[d] = <<>>
  <2>1. \A d \in Redis!Closers : d \in Nat
    BY DEF Redis!Closers
  <2>2. \A d \in Redis!Closers : d > e => d > closes /\ d # e
    BY <1>a, <2>1
  <2> QED BY <1>a, <1>7, <2>2
<1>13. e \in Nat /\ DOMAIN pool' = Urls
  BY <1>a, <1>1
<1> HIDE DEF e
<1>14. ~raised' => open' \subseteq Redis!Pooled' \cup Redis!BeingClosed'
  BY <1>a, <1>1, <1>10
<1>15. Redis!BeingClosed' \subseteq 1 .. made'
  BY <1>a, <1>1, <1>2, <1>10
<1>16. made' \in Nat /\ open' \subseteq 1 .. made'
  BY <1>a, <1>1
<1> QED BY <1>1, <1>7, <1>8, <1>11, <1>12, <1>13, <1>14, <1>15, <1>16 DEF PoolOf, Redis!Closers

\* A client is asked for: the pooled one, or one more than have been made.
LEMMA AskingStep ==
    ASSUME PoolOf, NEW c \in Users, NEW form \in Forms, NEW o, Redis!Asking(c, form, o)
    PROVE  PoolOf'
<1>a. /\ made \in Nat /\ open \subseteq 1 .. made
      /\ DOMAIN pool = Urls /\ Redis!Pooled \subseteq open /\ Redis!Pooled \cap Redis!BeingClosed = {}
      /\ Redis!BeingClosed \subseteq 1 .. made
      /\ ~raised => open \subseteq Redis!Pooled \cup Redis!BeingClosed
      /\ DOMAIN closing = Redis!Closers /\ \A d \in Redis!Closers : closing[d] \in Seq(Nat)
      /\ closes \in Nat /\ \A d \in Redis!Closers : d > closes => closing[d] = <<>>
  BY DEF PoolOf
<1>1. PICK url, client :
         /\ url \in Redis!Endpoint(form)
         /\ client = IF pool[url] = NoClient THEN made + 1 ELSE pool[url]
         /\ made' = IF client > made THEN client ELSE made
         /\ open' = IF client > made THEN open \cup {client} ELSE open
         /\ pool' = [pool EXCEPT ![url] = client]
         /\ UNCHANGED <<closing, closes, raised>>
  BY DEF Redis!Asking
<1>2. url \in Urls
  BY <1>1 DEF Redis!Endpoint
<1>3. Redis!BeingClosed' = Redis!BeingClosed
  BY <1>1 DEF Redis!BeingClosed
<1>4. \A x : x \in Redis!Pooled <=> x # NoClient /\ \E u \in Urls : pool[u] = x
  BY DEF Redis!Pooled
<1>5. \A x : x \in Redis!Pooled' <=> x # NoClient /\ \E u \in Urls : pool'[u] = x
  BY DEF Redis!Pooled
<1>6. CASE pool[url] # NoClient
  <2>1. client = pool[url] /\ DOMAIN pool' = Urls /\ \A u \in Urls : pool'[u] = pool[u]
    BY <1>1, <1>6, <1>a
  <2>2. client \in 1 .. made
    BY <1>2, <1>4, <1>6, <1>a, <2>1
  <2>3. made' = made /\ open' = open
    <3>1. ~ (client > made)
      BY <1>a, <2>2
    <3> QED BY <1>1, <3>1
  <2>4. Redis!Pooled' = Redis!Pooled
    BY <1>4, <1>5, <2>1
  <2> QED BY <1>a, <1>1, <1>3, <2>1, <2>3, <2>4 DEF PoolOf, Redis!Closers
<1>7. CASE pool[url] = NoClient
  <2>1. client = made + 1 /\ client > made /\ client \in Nat
    BY <1>1, <1>7, <1>a
  <2>2. made' = client /\ open' = open \cup {client} /\ DOMAIN pool' = Urls
    BY <1>1, <1>a, <2>1
  <2>3. 1 .. made \subseteq 1 .. client /\ client \in 1 .. client /\ client \notin 1 .. made
    BY <1>a, <2>1
  <2>4. client # NoClient
    BY <2>1, CarriersAssumption DEF Redis!PoolAssumption
  <2>5. pool'[url] = client /\ \A u \in Urls \ {url} : pool'[u] = pool[u]
    BY <1>a, <1>1, <1>2
  <2>6. \A x : x \in Redis!Pooled' <=> x \in Redis!Pooled \/ x = client
    BY <1>2, <1>4, <1>5, <1>7, <2>4, <2>5
  <2>7. Redis!Pooled' \subseteq open' /\ open' \subseteq 1 .. made' /\ made' \in Nat
    BY <1>a, <2>1, <2>2, <2>3, <2>6
  <2>8. Redis!Pooled' \cap Redis!BeingClosed' = {} /\ Redis!BeingClosed' \subseteq 1 .. made'
    BY <1>a, <1>3, <2>2, <2>3, <2>6
  <2>9. ~raised' => open' \subseteq Redis!Pooled' \cup Redis!BeingClosed'
    BY <1>a, <1>1, <1>3, <2>2, <2>6
  <2> QED BY <1>a, <1>1, <2>2, <2>7, <2>8, <2>9 DEF PoolOf, Redis!Closers
<1> QED BY <1>6, <1>7

LEMMA SubscribersStep == Subscribers /\ [Redis!Next]_redisVars => Subscribers'
<1> SUFFICES ASSUME Subscribers, [Redis!Next]_redisVars PROVE Subscribers'
  OBVIOUS
<1>1. CASE UNCHANGED <<user, pubsub>>
  BY <1>1 DEF Subscribers
<1>2. ASSUME NEW c \in Users, NEW r, user' = [user EXCEPT ![c] = r], pubsub' \subseteq pubsub \cup {c},
             c \in pubsub' => r.phase \in {"subscribing", "stream", "closing", "abandoned", "left"}
      PROVE  Subscribers'
  <2>1. DOMAIN user' = Users /\ user'[c] = r /\ \A d \in Users \ {c} : user'[d] = user[d]
    BY <1>2 DEF Subscribers
  <2> QED BY <1>2, <2>1 DEF Subscribers
<1>3. \A c \in pubsub : user[c].phase \notin {"idle", "command"}
  BY DEF Subscribers
<1>d. DOMAIN user = Users
  BY DEF Subscribers
<1>4. ASSUME NEW c \in Users, NEW form \in Forms, NEW o \in {"command", "subscribing"},
             Redis!Asking(c, form, o)
      PROVE  Subscribers'
  <2>1. PICK client : /\ user' = [user EXCEPT ![c] = [phase |-> o, client |-> client, read |-> FALSE]]
                      /\ pubsub' = IF o = "subscribing" THEN pubsub \cup {c} ELSE pubsub
                      /\ user[c].phase = "idle"
    BY <1>4 DEF Redis!Asking
  <2>2. [phase |-> o, client |-> client, read |-> FALSE].phase = o
    OBVIOUS
  <2>3. c \in pubsub' => o = "subscribing"
    BY <1>3, <2>1
  <2> QED BY <1>2, <2>1, <2>2, <2>3
<1>5. ASSUME NEW c \in Users, Redis!Answered(c) PROVE Subscribers'
  <2>1. user' = [user EXCEPT ![c] = Redis!Idle] /\ pubsub' = pubsub /\ c \notin pubsub
    BY <1>3, <1>5 DEF Redis!Answered
  <2> QED BY <1>2, <2>1
\* A phase goes on to another that may hold the connection.
<1>p. ASSUME NEW c \in Users, NEW p \in {"stream", "closing", "abandoned", "left"},
             user' = [user EXCEPT ![c].phase = p], pubsub' = pubsub
      PROVE  Subscribers'
  <2>1. [user[c] EXCEPT !.phase = p].phase = p \/ [user[c] EXCEPT !.phase = p] = user[c]
    OBVIOUS
  <2>2. user' = [user EXCEPT ![c] = [user[c] EXCEPT !.phase = p]]
    BY <1>p, <1>d
  <2>3. c \in pubsub => [user[c] EXCEPT !.phase = p].phase \in {"subscribing", "stream", "closing", "abandoned", "left"}
    BY <2>1 DEF Subscribers
  <2> QED BY <1>2, <1>p, <2>2, <2>3
<1>6. ASSUME NEW c \in Users, Redis!Subscribed(c) PROVE Subscribers'
  <2>1. user' = [user EXCEPT ![c].phase = "stream"] /\ pubsub' = pubsub
    BY <1>6 DEF Redis!Subscribed
  <2> QED BY <1>p, <2>1
<1>7. ASSUME NEW c \in Users, Redis!SubscribeFails(c) \/ Redis!StreamClosed(c) \/ Redis!StreamLeft(c)
      PROVE  Subscribers'
  <2>1. \/ user' = [user EXCEPT ![c] = Redis!Idle] /\ pubsub' = pubsub \ {c}
        \/ user' = [user EXCEPT ![c].phase = "left"] /\ pubsub' = pubsub
    BY <1>7 DEF Redis!SubscribeFails, Redis!StreamClosed, Redis!StreamLeft
  <2>2. CASE user' = [user EXCEPT ![c] = Redis!Idle] /\ pubsub' = pubsub \ {c}
    BY <1>2, <2>2
  <2>3. CASE user' = [user EXCEPT ![c].phase = "left"] /\ pubsub' = pubsub
    BY <1>p, <2>3
  <2> QED BY <2>1, <2>2, <2>3
<1>8. ASSUME NEW c \in Users, Redis!Read(c) PROVE Subscribers'
  <2>1. user' = [user EXCEPT ![c].read = TRUE] /\ pubsub' = pubsub /\ user[c].phase = "stream"
    BY <1>8 DEF Redis!Read
  <2>2. [user[c] EXCEPT !.read = TRUE].phase = user[c].phase
    OBVIOUS
  <2>3. user' = [user EXCEPT ![c] = [user[c] EXCEPT !.read = TRUE]]
    BY <2>1, <1>d
  <2> QED BY <1>2, <2>1, <2>2, <2>3
<1>9. ASSUME NEW c \in Users, Redis!CloseStream(c) PROVE Subscribers'
  <2>1. /\ user' = [user EXCEPT ![c].phase = IF user[c].read THEN "closing" ELSE "abandoned"]
        /\ pubsub' = pubsub
    BY <1>9 DEF Redis!CloseStream
  <2> QED BY <1>p, <2>1
<1>10. CASE UNCHANGED redisVars
  BY <1>1, <1>10 DEF redisVars
<1>11. CASE Redis!Aclose \/ \E k \in Redis!Closers : Redis!CloseNext(k) \/ Redis!CloseRaises(k)
  BY <1>1, <1>11 DEF Redis!Aclose, Redis!CloseNext, Redis!CloseRaises
<1> QED BY <1>4, <1>5, <1>6, <1>7, <1>8, <1>9, <1>10, <1>11 DEF Redis!Next

LEMMA PoolStep == PoolOf /\ [Redis!Next]_redisVars => PoolOf'
<1> SUFFICES ASSUME PoolOf, [Redis!Next]_redisVars PROVE PoolOf'
  OBVIOUS
<1>1. CASE UNCHANGED <<pool, made, open, closing, closes, raised>>
  <2>1. Redis!Pooled' = Redis!Pooled /\ Redis!BeingClosed' = Redis!BeingClosed
    BY <1>1 DEF Redis!Pooled, Redis!BeingClosed
  <2> QED BY <1>1, <2>1 DEF PoolOf, Redis!Closers
<1>2. ASSUME NEW c \in Users, NEW form \in Forms, NEW o, Redis!Asking(c, form, o) PROVE PoolOf'
  BY <1>2, AskingStep
<1>3. CASE Redis!Aclose
  BY <1>3, AcloseStep
<1>4. ASSUME NEW k \in Redis!Closers, Redis!CloseNext(k) PROVE PoolOf'
  <2> DEFINE q == closing[k]
  <2>1. /\ closing[k] # <<>> /\ open' = open \ {Head(closing[k])}
        /\ closing' = [closing EXCEPT ![k] = Tail(closing[k])]
        /\ UNCHANGED <<pool, made, closes, raised>>
    BY <1>4 DEF Redis!CloseNext, PoolOf
  <2>2. closing[k] \in Seq(Nat) /\ Redis!Pooled \subseteq open /\ Redis!Pooled \cap Redis!BeingClosed = {}
    BY DEF PoolOf
  <2>3. PICK z \in Nat : z = Len(q)
    BY <2>2
  <2>4. /\ Tail(q) \in Seq(Nat) /\ DOMAIN q = 1 .. z /\ z > 0 /\ Head(q) = q[1]
        /\ Len(Tail(q)) = z - 1 /\ \A i \in 1 .. z - 1 : Tail(q)[i] = q[i + 1]
    BY <2>1, <2>2, <2>3
  <2>5. DOMAIN Tail(q) = 1 .. z - 1
    BY <2>4
  <2>6. \A i \in DOMAIN Tail(q) : \E j \in DOMAIN q : q[j] = Tail(q)[i]
    <3>1. \A i \in 1 .. z - 1 : i + 1 \in 1 .. z
      OBVIOUS
    <3> QED BY <2>4, <2>5, <3>1
  <2>7. Redis!Pooled \subseteq open'
    <3>1. 1 \in DOMAIN q /\ q[1] = Head(q)
      BY <2>4
    <3>2. Head(q) \in Redis!BeingClosed
      BY <3>1, Closing
    <3> QED BY <2>1, <2>2, <3>2
  <2>8. \A i \in DOMAIN q : q[i] \notin open' \/ \E j \in DOMAIN Tail(q) : Tail(q)[j] = q[i]
    <3> SUFFICES ASSUME NEW i \in 1 .. z PROVE q[i] \notin open' \/ \E j \in DOMAIN Tail(q) : Tail(q)[j] = q[i]
      BY <2>4
    <3>1. CASE i = 1
      BY <2>1, <2>4, <3>1
    <3>2. CASE i # 1
      <4>1. i - 1 \in 1 .. z - 1 /\ (i - 1) + 1 = i
        BY <3>2
      <4> QED BY <2>4, <2>5, <4>1
    <3> QED BY <3>1, <3>2
  <2>9. open' \subseteq open
    BY <2>1
  <2> QED BY <2>1, <2>4, <2>6, <2>7, <2>8, <2>9, CloserStep
<1>5. ASSUME NEW k \in Redis!Closers, Redis!CloseRaises(k) PROVE PoolOf'
  <2>1. /\ closing[k] # <<>> /\ closing' = [closing EXCEPT ![k] = <<>>] /\ raised' = TRUE
        /\ UNCHANGED <<pool, made, open, closes>>
    BY <1>5 DEF Redis!CloseRaises
  <2>2. <<>> \in Seq(Nat) /\ DOMAIN <<>> = {} /\ Redis!Pooled \subseteq open'
    BY <2>1 DEF PoolOf
  <2> QED BY <2>1, <2>2, CloserStep
<1>6. CASE UNCHANGED redisVars
  BY <1>1, <1>6 DEF redisVars
<1>7. ASSUME NEW c \in Users,
             \/ Redis!Answered(c) \/ Redis!Subscribed(c) \/ Redis!SubscribeFails(c)
             \/ Redis!Read(c) \/ Redis!CloseStream(c) \/ Redis!StreamClosed(c) \/ Redis!StreamLeft(c)
      PROVE  PoolOf'
  BY <1>1, <1>7
     DEF Redis!Answered, Redis!Subscribed, Redis!SubscribeFails, Redis!Read, Redis!CloseStream,
         Redis!StreamClosed, Redis!StreamLeft
<1> QED BY <1>2, <1>3, <1>4, <1>5, <1>6, <1>7 DEF Redis!Next

\* NothingLeftBehind: the pool of Redis clients gives out none that an aclose has
\* closed or still has to, every client that is open is in the pool or with an aclose
\* unless one raised (RedisBinding._client, aclose); an open pub/sub connection is one of
\* a stream that is being opened, runs, closes or was never read, or one whose close was
\* cut short or failed; and a program's process is gone when its call has answered, the
\* timeout included (ExecBinding.invoke).
THEOREM NothingIsLeft == CallsSpec => []NothingLeftBehind
<1> DEFINE I == PoolOf /\ Subscribers /\ Spawns
<1>1. Redis!Init /\ Exec!Init => I
  <2> SUFFICES ASSUME Redis!Init, Exec!Init PROVE I
    OBVIOUS
  <2>2. PoolOf
    <3>1. /\ pool = [u \in Urls |-> NoClient] /\ made = 0 /\ open = {} /\ closes = 0
          /\ closing = [k \in Redis!Closers |-> <<>>]
      BY DEF Redis!Init
    <3>2. Redis!Pooled = {}
      BY <3>1 DEF Redis!Pooled
    <3>3. Redis!BeingClosed = {}
      <4>1. \A k \in Redis!Closers : DOMAIN closing[k] = {}
        BY <3>1
      <4> QED BY <4>1, Closing
    <3>4. <<>> \in Seq(Nat)
      OBVIOUS
    <3> QED BY <3>1, <3>2, <3>3, <3>4 DEF PoolOf
  <2>3. Subscribers
    BY DEF Redis!Init, Subscribers
  <2> QED BY <2>2, <2>3, ExecShows
<1>2. I => NothingLeftBehind
  BY ExecShows DEF PoolOf, Subscribers, NothingLeftBehind, Redis!PoolIsWhole
<1>3. I /\ [Redis!Next]_redisVars /\ [Exec!Next]_execVars => I'
  BY PoolStep, SubscribersStep, ExecStep
<1> HIDE DEF I
<1> QED BY <1>1, <1>2, <1>3, OfEachCarrier, PTL

------------------------------------------------------------------------------
(* Local streams.                                                          *)

\* What a stream was asked for, and its reader's side.
Subscription == [open : {TRUE}, name : Names, device : Local!Bindings, since : Nat,
                 started : BOOLEAN, queue : Seq(Nat), taken : Seq(Nat)]

Increasing(g, S) ==
    /\ g \in Seq(Nat) /\ {g[k] : k \in DOMAIN g} = S
    /\ \A k, l \in DOMAIN g : k < l => g[k] < g[l]

Got(s) == stream[s].taken \o stream[s].queue

\* A stream is listed where its device pushes, under its name, and nowhere else.
Listed(s) ==
    \A b \in Local!Bindings, m \in Names :
        <<s, m>> \in subs[b] <=> b = stream[s].device /\ m = stream[s].name

StreamOf(s) ==
    stream[s].open =>
        /\ stream[s] \in Subscription /\ stream[s].since <= Len(emitted)
        /\ Listed(s) /\ Increasing(Got(s), Local!Pushed(s))

Emissions == [by : Local!Bindings, name : Names]

Pushes ==
    /\ \A t \in Things : bySlug[t] \in Local!Bindings \cup {Local!Nobody}
    /\ DOMAIN bySlug = Things /\ DOMAIN subs = Local!Bindings /\ DOMAIN stream = Streams
    /\ emitted \in Seq(Emissions) /\ \A s \in Streams : StreamOf(s)

LEMMA LastOfAll ==
    ASSUME NEW g, NEW S, NEW e \in Nat, S \subseteq 1 .. e, Increasing(g, S)
    PROVE  Increasing(Append(g, e + 1), S \cup {e + 1})
<1>1. /\ g \in Seq(Nat) /\ {g[k] : k \in DOMAIN g} = S
      /\ \A k, l \in DOMAIN g : k < l => g[k] < g[l]
  BY DEF Increasing
<1>2. PICK z \in Nat : z = Len(g)
  BY <1>1
<1> DEFINE a == Append(g, e + 1)
<1>3. /\ a \in Seq(Nat) /\ Len(a) = z + 1 /\ a[z + 1] = e + 1
      /\ \A i \in 1 .. z : a[i] = g[i]
  BY <1>1, <1>2
<1> HIDE DEF a
<1>4. DOMAIN g = 1 .. z /\ DOMAIN a = 1 .. z + 1
  BY <1>1, <1>2, <1>3
<1>5. \A i \in 1 .. z + 1 : i \in 1 .. z \/ i = z + 1
  BY <1>2
<1>6. \A i \in 1 .. z : i \in 1 .. z + 1 /\ g[i] \in S
  BY <1>1, <1>2, <1>4
<1>7. z + 1 \in 1 .. z + 1
  BY <1>2
<1>8. \A x : x \in {a[k] : k \in DOMAIN a} <=> x \in S \cup {e + 1}
  <2>1. ASSUME NEW k \in DOMAIN a PROVE a[k] \in S \cup {e + 1}
    BY <1>3, <1>4, <1>5, <1>6
  <2>2. ASSUME NEW x \in S PROVE \E k \in DOMAIN a : a[k] = x
    <3>1. PICK k \in 1 .. z : g[k] = x
      BY <1>1, <1>4
    <3> QED BY <1>3, <1>4, <1>6, <3>1
  <2>3. \E k \in DOMAIN a : a[k] = e + 1
    BY <1>3, <1>4, <1>7
  <2> QED BY <2>1, <2>2, <2>3
<1>9. ASSUME NEW k \in DOMAIN a, NEW l \in DOMAIN a, k < l PROVE a[k] < a[l]
  <2>1. k \in 1 .. z + 1 /\ l \in 1 .. z + 1
    BY <1>4
  <2>2. k \in 1 .. z
    BY <1>2, <1>9, <2>1
  <2>3. CASE l \in 1 .. z
    BY <1>1, <1>3, <1>4, <1>9, <2>2, <2>3
  <2>4. CASE l = z + 1
    <3>1. g[k] \in 1 .. e
      BY <1>6, <2>2
    <3>2. g[k] < e + 1
      BY <3>1
    <3> QED BY <1>3, <2>2, <2>4, <3>2
  <2> QED BY <1>5, <2>1, <2>3, <2>4
<1> QED BY <1>3, <1>8, <1>9 DEF Increasing, a

LEMMA TakenFirst ==
    ASSUME NEW t \in Seq(Nat), NEW q \in Seq(Nat), q # <<>>
    PROVE  Append(t, Head(q)) \o Tail(q) = t \o q
<1>1. PICK h \in Nat, w \in Seq(Nat) : h = Head(q) /\ w = Tail(q) /\ q = <<h>> \o w
  <2>1. Head(q) \in Nat /\ Tail(q) \in Seq(Nat)
    OBVIOUS
  <2>2. q = <<Head(q)>> \o Tail(q)
    OBVIOUS
  <2> QED BY <2>1, <2>2
<1>2. Append(t, h) = t \o <<h>> /\ <<h>> \in Seq(Nat)
  BY AppendIsConcat
<1>3. (t \o <<h>>) \o w = t \o (<<h>> \o w)
  BY <1>2, ConcatAssociative
<1> QED BY <1>1, <1>2, <1>3

LEMMA QueuedLast ==
    ASSUME NEW t \in Seq(Nat), NEW q \in Seq(Nat), NEW x \in Nat
    PROVE  t \o Append(q, x) = Append(t \o q, x)
<1>1. t \o q \in Seq(Nat) /\ <<x>> \in Seq(Nat)
  OBVIOUS
<1>2. Append(q, x) = q \o <<x>> /\ Append(t \o q, x) = (t \o q) \o <<x>>
  BY <1>1, AppendIsConcat
<1>3. (t \o q) \o <<x>> = t \o (q \o <<x>>)
  BY <1>1, ConcatAssociative
<1> QED BY <1>2, <1>3

\* The binding made last is one.
LEMMA LatestIsBinding == Pushes => Local!Latest \in Local!Bindings
<1> SUFFICES ASSUME Pushes PROVE Local!Latest \in Local!Bindings
  OBVIOUS
<1> DEFINE M == {b \in Local!Bindings : \E t \in Things : bySlug[t] = b} \cup {Local!Root}
<1>1. MaxBindings \in Nat
  BY CarriersAssumption DEF Local!LocalAssumption
<1>2. M \subseteq 0 .. MaxBindings /\ M # {}
  BY <1>1 DEF Local!Bindings, Local!Root
<1>3. Local!Latest = CHOOSE b \in M : \A d \in M : d <= b
  BY DEF Local!Latest
<1> HIDE DEF M
<1>4. \E b \in M : \A d \in M : d <= b
  BY <1>1, <1>2, Greatest
<1>5. Local!Latest \in M
  BY <1>3, <1>4
<1> QED BY <1>2, <1>5 DEF Local!Bindings

\* A stream that a step leaves where it is, with the devices' pushes and its place in
\* the lists.
LEMMA SameStream ==
    ASSUME NEW s \in Streams, StreamOf(s), emitted' = emitted, stream'[s] = stream[s],
           stream[s].open => Listed(s)'
    PROVE  StreamOf(s)'
<1>1. Local!Pushed(s)' = Local!Pushed(s) /\ Got(s)' = Got(s)
  BY DEF Local!Pushed, Got
<1> QED BY <1>1 DEF StreamOf

LEMMA PushesStep == Pushes /\ [Local!Next]_localVars => Pushes'
<1> SUFFICES ASSUME Pushes, [Local!Next]_localVars PROVE Pushes'
  OBVIOUS
<1>a. /\ \A t \in Things : bySlug[t] \in Local!Bindings \cup {Local!Nobody}
      /\ DOMAIN bySlug = Things /\ DOMAIN subs = Local!Bindings /\ DOMAIN stream = Streams
      /\ emitted \in Seq(Emissions) /\ \A s \in Streams : StreamOf(s)
  BY DEF Pushes
<1>b. \A s \in Streams : stream[s].open => Listed(s)
  BY <1>a DEF StreamOf
<1>c. Local!Bindings' = Local!Bindings /\ Local!Nobody' = Local!Nobody
  BY DEF Local!Bindings, Local!Nobody
<1>e. ASSUME UNCHANGED <<subs, emitted, stream>>, DOMAIN bySlug' = Things,
             \A t \in Things : bySlug'[t] \in Local!Bindings \cup {Local!Nobody}
      PROVE  Pushes'
  <2>1. ASSUME NEW s \in Streams PROVE StreamOf(s)'
    <3>1. stream[s].open => Listed(s)'
      BY <1>b, <1>c, <1>e DEF Listed
    <3> QED BY <1>a, <1>e, <3>1, SameStream
  <2> QED BY <1>a, <1>c, <1>e, <2>1 DEF Pushes, Emissions
<1>1. CASE UNCHANGED localVars
  BY <1>a, <1>e, <1>1 DEF localVars
<1>2. ASSUME NEW t \in Things, NEW hs \in Handlers, Local!RegisterThing(t, hs) PROVE Pushes'
  <2>1. /\ Local!Latest < MaxBindings /\ bySlug' = [bySlug EXCEPT ![t] = Local!Latest + 1]
        /\ UNCHANGED <<subs, emitted, stream>>
    BY <1>2 DEF Local!RegisterThing
  <2>2. Local!Latest + 1 \in Local!Bindings
    BY <2>1, LatestIsBinding, CarriersAssumption DEF Local!Bindings, Local!LocalAssumption
  <2> QED BY <1>a, <1>e, <2>1, <2>2
<1>3. CASE \/ \E b \in Local!Bindings, handler \in UNION Handlers : Local!Register(b, handler)
           \/ \E t \in Things, n \in Names, tail \in Names, o \in {"invoke", "read", "write"} :
                 Local!Call(t, o, n, tail)
  BY <1>a, <1>e, <1>3 DEF Local!Register, Local!Call
<1>4. ASSUME NEW b \in Local!Bindings, NEW n \in Names, Local!Emit(b, n) PROVE Pushes'
  <2> DEFINE it == [by |-> b, name |-> n]
  <2>1. /\ emitted' = Append(emitted, it)
        /\ stream' = [s \in Streams |->
               IF stream[s].open /\ <<s, n>> \in subs[b]
               THEN [stream[s] EXCEPT !.queue = Append(@, Len(emitted'))] ELSE stream[s]]
        /\ UNCHANGED <<bySlug, subs>>
    BY <1>4 DEF Local!Emit
  <2>2. it \in Emissions
    BY DEF Emissions
  <2>3. PICK z \in Nat : z = Len(emitted)
    BY <1>a
  <2>4. /\ emitted' \in Seq(Emissions) /\ Len(emitted') = z + 1 /\ emitted'[z + 1] = it
        /\ \A i \in 1 .. z : emitted'[i] = emitted[i]
    <3> HIDE DEF it
    <3> QED BY <1>a, <2>1, <2>2, <2>3
  <2>5. DOMAIN emitted = 1 .. z /\ DOMAIN emitted' = 1 .. z + 1
    BY <1>a, <2>3, <2>4
  <2>6. ASSUME NEW s \in Streams, stream'[s].open PROVE StreamOf(s)'
    <3>1. stream[s].open
      BY <2>1, <2>6
    <3>2. /\ stream[s] \in Subscription /\ stream[s].since <= z
          /\ Listed(s) /\ Increasing(Got(s), Local!Pushed(s))
      BY <1>a, <2>3, <3>1 DEF StreamOf
    <3> DEFINE Mine == b = stream[s].device /\ n = stream[s].name
    <3>3. <<s, n>> \in subs[b] <=> Mine
      BY <3>2 DEF Listed
    <3>4. /\ stream[s].since \in Nat /\ stream[s].queue \in Seq(Nat) /\ stream[s].taken \in Seq(Nat)
          /\ DOMAIN stream[s] = {"open", "name", "device", "since", "started", "queue", "taken"}
      BY <3>2 DEF Subscription
    <3>5. \A i \in 1 .. z + 1 : i \in 1 .. z \/ i = z + 1
      BY <2>3
    <3>6. z + 1 > stream[s].since /\ z + 1 \in 1 .. z + 1 /\ 1 .. z \subseteq 1 .. z + 1
      BY <2>3, <3>2, <3>4
    <3>7. it = [by |-> stream[s].device, name |-> stream[s].name] <=> Mine
      BY DEF it
    <3>8. /\ stream'[s].since = stream[s].since /\ stream'[s].device = stream[s].device
          /\ stream'[s].name = stream[s].name /\ stream'[s].taken = stream[s].taken
          /\ stream'[s].queue = IF Mine THEN Append(stream[s].queue, z + 1) ELSE stream[s].queue
          /\ stream'[s] \in Subscription
      <4>1. CASE Mine
        <5>1. stream'[s] = [stream[s] EXCEPT !.queue = Append(stream[s].queue, z + 1)]
          BY <2>1, <2>4, <3>1, <3>3, <3>4, <4>1
        <5>2. Append(stream[s].queue, z + 1) \in Seq(Nat)
          BY <2>3, <3>4
        <5>3. stream'[s] \in Subscription
          BY <3>2, <5>1, <5>2 DEF Subscription
        <5> QED BY <3>4, <4>1, <5>1, <5>3
      <4>2. CASE ~Mine
        <5>1. stream'[s] = stream[s]
          BY <2>1, <3>3, <4>2
        <5> QED BY <3>2, <4>2, <5>1
      <4> QED BY <4>1, <4>2
    <3>9. Local!Pushed(s) \subseteq 1 .. z
      BY <2>5 DEF Local!Pushed
    <3>10. Local!Pushed(s)' = IF Mine THEN Local!Pushed(s) \cup {z + 1} ELSE Local!Pushed(s)
      <4> DEFINE w == [by |-> stream[s].device, name |-> stream[s].name]
      <4>1. Local!Pushed(s) = {i \in 1 .. z : i > stream[s].since /\ emitted[i] = w}
        BY <2>5 DEF Local!Pushed
      <4>2. Local!Pushed(s)' = {i \in 1 .. z + 1 : i > stream[s].since /\ emitted'[i] = w}
        BY <2>5, <3>8 DEF Local!Pushed
      <4>3. it = w <=> Mine
        BY <3>7
      <4> HIDE DEF w, it, Mine
      <4>4. \A i \in 1 .. z : i \in Local!Pushed(s)' <=> i \in Local!Pushed(s)
        BY <2>4, <3>6, <4>1, <4>2
      <4>5. z + 1 \in Local!Pushed(s)' <=> Mine
        BY <2>4, <3>6, <4>2, <4>3
      <4>6. Local!Pushed(s)' \subseteq 1 .. z + 1
        BY <4>2
      <4>7. z + 1 \notin 1 .. z
        BY <2>3
      <4>8. CASE Mine
        <5>1. \A i : i \in Local!Pushed(s)' <=> i \in Local!Pushed(s) \/ i = z + 1
          BY <3>5, <3>9, <4>4, <4>5, <4>6, <4>8
        <5> QED BY <4>8, <5>1
      <4>9. CASE ~Mine
        <5>1. \A i : i \in Local!Pushed(s)' <=> i \in Local!Pushed(s)
          BY <3>5, <3>9, <4>4, <4>5, <4>6, <4>9
        <5> QED BY <4>9, <5>1
      <4> QED BY <4>8, <4>9
    <3>11. Increasing(Got(s)', Local!Pushed(s)')
      <4>1. CASE Mine
        <5>1. Got(s)' = stream[s].taken \o Append(stream[s].queue, z + 1)
          BY <3>8, <4>1 DEF Got
        <5>2. Got(s)' = Append(Got(s), z + 1)
          <6>1. \A x, y \in Seq(Nat), k \in Nat : x \o Append(y, k) = Append(x \o y, k)
            BY QueuedLast
          <6>2. z + 1 \in Nat
            BY <2>3
          <6>3. stream[s].taken \o Append(stream[s].queue, z + 1) = Append(stream[s].taken \o stream[s].queue, z + 1)
            BY <3>4, <6>1, <6>2
          <6> QED BY <5>1, <6>3 DEF Got
        <5>3. Increasing(Append(Got(s), z + 1), Local!Pushed(s) \cup {z + 1})
          BY <2>3, <3>2, <3>9, LastOfAll
        <5> QED BY <3>10, <4>1, <5>2, <5>3
      <4>2. CASE ~Mine
        <5>1. Got(s)' = Got(s)
          BY <3>8, <4>2 DEF Got
        <5> QED BY <3>2, <3>10, <4>2, <5>1
      <4> QED BY <4>1, <4>2
    <3>12. Listed(s)'
      BY <1>c, <2>1, <3>2, <3>8 DEF Listed
    <3>13. stream'[s].since <= Len(emitted')
      BY <2>3, <2>4, <3>2, <3>4, <3>8
    <3> QED BY <3>8, <3>11, <3>12, <3>13 DEF StreamOf, Subscription, Increasing
  <2>7. DOMAIN stream' = Streams /\ \A s \in Streams : StreamOf(s)'
    BY <2>1, <2>6 DEF StreamOf
  <2> QED BY <1>a, <1>c, <2>1, <2>4, <2>7 DEF Pushes, Emissions
<1>5. ASSUME NEW s \in Streams, Local!Take(s) PROVE Pushes'
  <2>1. /\ stream[s].open /\ stream[s].queue # <<>>
        /\ stream' = [stream EXCEPT ![s].started = TRUE, ![s].queue = Tail(@),
                                    ![s].taken = Append(@, Head(stream[s].queue))]
        /\ UNCHANGED <<bySlug, subs, emitted>>
    BY <1>5 DEF Local!Take
  <2>2. /\ stream[s] \in Subscription /\ stream[s].since <= Len(emitted)
        /\ Listed(s) /\ Increasing(Got(s), Local!Pushed(s))
    BY <1>a, <2>1 DEF StreamOf
  <2>3. /\ stream[s].queue \in Seq(Nat) /\ stream[s].taken \in Seq(Nat)
        /\ DOMAIN stream[s] = {"open", "name", "device", "since", "started", "queue", "taken"}
    BY <2>2 DEF Subscription
  <2> DEFINE q == stream[s].queue
  <2> DEFINE t == stream[s].taken
  <2>4. stream'[s] = [stream[s] EXCEPT !.started = TRUE, !.queue = Tail(q), !.taken = Append(t, Head(q))]
    BY <1>a, <2>1
  <2>5. Tail(q) \in Seq(Nat) /\ Append(t, Head(q)) \in Seq(Nat)
    BY <2>1, <2>3
  <2>6. /\ stream'[s].since = stream[s].since /\ stream'[s].device = stream[s].device
        /\ stream'[s].name = stream[s].name
        /\ stream'[s].taken = Append(t, Head(q)) /\ stream'[s].queue = Tail(q)
    <3> HIDE DEF q, t
    <3> QED BY <2>3, <2>4
  <2>7. stream'[s] \in Subscription
    <3> HIDE DEF q, t
    <3> QED BY <2>2, <2>4, <2>5 DEF Subscription
  <2>8. Got(s)' = Got(s)
    <3>1. Append(t, Head(q)) \o Tail(q) = t \o q
      BY <2>1, <2>3, TakenFirst
    <3> QED BY <2>6, <3>1 DEF Got
  <2>9. Local!Pushed(s)' = Local!Pushed(s)
    BY <2>1, <2>6 DEF Local!Pushed
  <2>10. Listed(s)'
    BY <1>c, <2>1, <2>2, <2>6 DEF Listed
  <2>11. StreamOf(s)'
    BY <2>1, <2>2, <2>6, <2>7, <2>8, <2>9, <2>10 DEF StreamOf, Subscription
  <2>12. ASSUME NEW d \in Streams \ {s} PROVE StreamOf(d)'
    <3>1. stream'[d] = stream[d]
      BY <1>a, <2>1
    <3>2. stream[d].open => Listed(d)'
      BY <1>b, <1>c, <2>1, <3>1 DEF Listed
    <3> QED BY <1>a, <2>1, <3>1, <3>2, SameStream
  <2>13. DOMAIN stream' = Streams
    BY <1>a, <2>1
  <2> QED BY <1>a, <1>c, <2>1, <2>11, <2>12, <2>13 DEF Pushes, Emissions
<1>6. ASSUME NEW s \in Streams, Local!Close(s) PROVE Pushes'
  <2>1. /\ stream[s].open /\ stream' = [stream EXCEPT ![s] = Local!Closed]
        /\ subs' = [b \in Local!Bindings |-> {q \in subs[b] : q[1] = s => ~stream[s].started}]
        /\ UNCHANGED <<bySlug, emitted>>
    BY <1>6 DEF Local!Close
  <2>2. ~stream'[s].open /\ DOMAIN stream' = Streams /\ DOMAIN subs' = Local!Bindings
    BY <1>a, <2>1 DEF Local!Closed
  <2>3. ASSUME NEW d \in Streams \ {s} PROVE StreamOf(d)'
    <3>1. stream'[d] = stream[d]
      BY <1>a, <2>1
    <3>2. \A b \in Local!Bindings, m \in Names : <<d, m>> \in subs'[b] <=> <<d, m>> \in subs[b]
      BY <2>1
    <3>3. stream[d].open => Listed(d)'
      BY <1>b, <1>c, <3>1, <3>2 DEF Listed
    <3> QED BY <1>a, <2>1, <3>1, <3>3, SameStream
  <2> QED BY <1>a, <1>c, <2>1, <2>2, <2>3 DEF Pushes, Emissions, StreamOf
<1>7. ASSUME NEW s \in Streams, NEW t \in Things, NEW n \in Names, Local!Subscribe(s, t, n) PROVE Pushes'
  <2> DEFINE dev == IF bySlug[t] # Local!Nobody THEN bySlug[t] ELSE Local!Root
  <2> DEFINE r == [open |-> TRUE, name |-> n, device |-> dev, since |-> Len(emitted),
                   started |-> FALSE, queue |-> <<>>, taken |-> <<>>]
  <2>1. /\ ~stream[s].open /\ \A b \in Local!Bindings : s \notin {q[1] : q \in subs[b]}
        /\ subs' = [subs EXCEPT ![dev] = @ \cup {<<s, n>>}]
        /\ stream' = [stream EXCEPT ![s] = r]
        /\ UNCHANGED <<bySlug, emitted>>
    BY <1>7 DEF Local!Subscribe, Local!SubFor
  <2>2. dev \in Local!Bindings
    <3>1. Local!Root \in Local!Bindings
      BY CarriersAssumption DEF Local!Root, Local!Bindings, Local!LocalAssumption
    <3> QED BY <1>a, <3>1
  <2>3. Len(emitted) \in Nat
    BY <1>a
  <2>4. /\ r.open = TRUE /\ r.name = n /\ r.device = dev /\ r.since = Len(emitted)
        /\ r.queue = <<>> /\ r.taken = <<>>
    OBVIOUS
  <2>5. r \in Subscription
    <3>1. <<>> \in Seq(Nat)
      OBVIOUS
    <3> HIDE DEF dev
    <3> QED BY <2>2, <2>3, <3>1 DEF Subscription
  <2> HIDE DEF dev, r
  <2>6. stream'[s] = r /\ DOMAIN stream' = Streams /\ DOMAIN subs' = Local!Bindings
    BY <1>a, <2>1
  <2>7. /\ subs'[dev] = subs[dev] \cup {<<s, n>>}
        /\ \A b \in Local!Bindings \ {dev} : subs'[b] = subs[b]
    BY <1>a, <2>1, <2>2
  <2>8. \A b \in Local!Bindings, m \in Names : <<s, m>> \notin subs[b]
    <3> SUFFICES ASSUME NEW b \in Local!Bindings, NEW m \in Names, <<s, m>> \in subs[b] PROVE FALSE
      OBVIOUS
    <3>1. <<s, m>>[1] = s
      OBVIOUS
    <3> QED BY <2>1, <3>1
  <2>9. Listed(s)'
    BY <1>c, <2>4, <2>6, <2>7, <2>8 DEF Listed
  <2>10. Local!Pushed(s)' = {}
    <3>1. DOMAIN emitted = 1 .. Len(emitted)
      BY <1>a
    <3>2. \A i \in 1 .. Len(emitted) : ~ (i > Len(emitted))
      BY <2>3
    <3> QED BY <2>1, <2>4, <2>6, <3>1, <3>2 DEF Local!Pushed
  <2>11. Got(s)' = <<>>
    <3>1. <<>> \o <<>> = <<>>
      OBVIOUS
    <3> QED BY <2>4, <2>6, <3>1 DEF Got
  <2>12. Increasing(<<>>, {})
    BY DEF Increasing
  <2>13. StreamOf(s)'
    <3>1. stream'[s] \in Subscription'
      BY <2>5, <2>6 DEF Subscription
    <3>2. stream'[s].since <= Len(emitted')
      BY <2>1, <2>3, <2>4, <2>6
    <3>3. Increasing(Got(s), Local!Pushed(s))'
      BY <2>10, <2>11, <2>12 DEF Increasing
    <3> QED BY <2>9, <3>1, <3>2, <3>3 DEF StreamOf
  <2>14. ASSUME NEW d \in Streams \ {s} PROVE StreamOf(d)'
    <3>1. stream'[d] = stream[d]
      BY <1>a, <2>1
    <3>2. \A b \in Local!Bindings, m \in Names : <<d, m>> \in subs'[b] <=> <<d, m>> \in subs[b]
      BY <2>2, <2>7
    <3>3. stream[d].open => Listed(d)'
      BY <1>b, <1>c, <3>1, <3>2 DEF Listed
    <3> QED BY <1>a, <2>1, <3>1, <3>3, SameStream
  <2> QED BY <1>a, <1>c, <2>1, <2>6, <2>13, <2>14 DEF Pushes, Emissions
<1> QED BY <1>1, <1>2, <1>3, <1>4, <1>5, <1>6, <1>7 DEF Local!Next

\* EmittedIsTaken: an open local stream has been given, or still has queued, exactly
\* what the device its Thing had when it subscribed has pushed since under its name,
\* once each and in order, whatever is registered, subscribed to and closed in between
\* (LocalBinding.register_thing, _sub_for, subscribe, emit).
THEOREM StreamsTakeTheirOwn == CallsSpec => []EmittedIsTaken
<1>1. Local!Init => Pushes
  <2> SUFFICES ASSUME Local!Init PROVE Pushes
    OBVIOUS
  <2>1. /\ bySlug = [t \in Things |-> Local!Nobody] /\ subs = [b \in Local!Bindings |-> {}]
        /\ emitted = <<>> /\ stream = [s \in Streams |-> Local!Closed]
    BY DEF Local!Init
  <2>2. <<>> \in Seq(Emissions) /\ \A s \in Streams : ~stream[s].open
    BY <2>1 DEF Local!Closed
  <2> QED BY <2>1, <2>2 DEF Pushes, StreamOf
<1>2. Pushes => EmittedIsTaken
  BY DEF Pushes, StreamOf, Increasing, Got, EmittedIsTaken, Local!EmittedIsTaken
<1> QED BY <1>1, <1>2, PushesStep, OfEachCarrier, PTL

=============================================================================
