------------------------------ MODULE RosGoals ------------------------------
(***************************************************************************)
(* The rosbridge binding: a call sends a goal and waits for it, hands a    *)
(* running goal to whoever polls and cancels it, calls a service, or       *)
(* publishes.  Every goal keeps a socket and a follower task that takes    *)
(* its frames; finished goals stay queryable until younger ones push them  *)
(* out.  The robot answers late, refuses, ignores a cancel, or is gone.    *)
(***************************************************************************)
EXTENDS Naturals, Sequences, SequencesExt, FiniteSets

CONSTANTS
    Calls,
    Kinds,          \* what each call may be: "goal", "async", "service", "publish"
    Keep,           \* _KEEP_FINISHED
    MaxLost         \* connections the bridge loses

VARIABLES
    call,           \* the coroutine of each call: kind, phase, how it ended
    outcome,        \* goal.outcome: the future the follower resolves
    follower,       \* goal.follower: "none", "live", "over"
    sock,           \* the call's socket: "none", "open", "lost", "closed"
    robot,          \* what the robot does with it
    frames,         \* its result on the wire
    asked,          \* cancels sent to the robot
    goals,          \* self._goals, in the order the goals were sent
    told            \* what the last query or cancel of a handle said

vars == <<call, outcome, follower, sock, robot, frames, asked, goals, told>>
world == <<robot, frames>>

\* An aborted goal is reported the way a cancelled one is: with its result.
Finals == {"succeeded", "canceled"}

Init ==
    /\ call = [c \in Calls |-> [kind |-> "goal", phase |-> "idle", ended |-> "no"]]
    /\ outcome = [c \in Calls |-> "pending"]
    /\ follower = [c \in Calls |-> "none"]
    /\ sock = [c \in Calls |-> "none"]
    /\ robot = [c \in Calls |-> "none"]
    /\ frames = [c \in Calls |-> <<>>]
    /\ asked = {} /\ goals = <<>>
    /\ told = [c \in Calls |-> "running"]

At(c, phase) == call[c].phase = phase
IsGoal(c) == call[c].kind \in {"goal", "async"}
Done(c) == outcome[c] # "pending"
Kept(c) == c \in ToSet(goals)
End(c, how) == call' = [call EXCEPT ![c].phase = "ended", ![c].ended = how]
Close(c) == sock' = [sock EXCEPT ![c] = IF @ = "open" THEN "closed" ELSE @]

\* _prune: of the finished goals, all but the last Keep in the order they were
\* sent.
Pruned(gs) ==
    LET finished == SelectSeq(gs, Done)
        drop == ToSet(SubSeq(finished, 1, Len(finished) - Keep))
    IN  SelectSeq(gs, LAMBDA c : c \notin drop)

(***************************************************************************)
(* Sending.                                                                *)
(***************************************************************************)

Begin(c) ==
    /\ At(c, "idle")
    /\ \E k \in Kinds[c] : call' = [call EXCEPT ![c].kind = k, ![c].phase = "connecting"]
    /\ UNCHANGED <<outcome, follower, sock, world, asked, goals, told>>

\* The input is not an object, the form lacks its type, or nothing connects.
NotSent(c) ==
    /\ At(c, "connecting") /\ End(c, "error")
    /\ UNCHANGED <<outcome, follower, sock, world, asked, goals, told>>

Send(c) ==
    /\ At(c, "connecting")
    /\ IF call[c].kind = "async" THEN End(c, "handle") ELSE call' = [call EXCEPT ![c].phase = "waiting"]
    /\ IF IsGoal(c)
       THEN follower' = [follower EXCEPT ![c] = "live"] /\ goals' = Pruned(Append(goals, c))
       ELSE UNCHANGED <<follower, goals>>
    /\ robot' = [robot EXCEPT ![c] = IF call[c].kind = "publish" THEN "succeeded" ELSE "working"]
    /\ sock' = [sock EXCEPT ![c] = "open"]
    /\ UNCHANGED <<outcome, frames, asked, told>>

(***************************************************************************)
(* The robot, behind the bridge.                                           *)
(***************************************************************************)

Answer(c, state) ==
    /\ robot' = [robot EXCEPT ![c] = state]
    /\ frames' = IF sock[c] = "open" THEN [frames EXCEPT ![c] = Append(@, state)] ELSE frames
    /\ UNCHANGED <<call, outcome, follower, sock, asked, goals, told>>

\* The robot refuses a goal, or ends it: a cancelled one only when asked.
Finishes(c) ==
    /\ robot[c] = "working"
    /\ \E state \in Finals \cup {"rejected"} : (state = "canceled" => c \in asked) /\ Answer(c, state)

Disconnects(c) ==
    /\ sock[c] = "open" /\ call[c].kind # "publish"
    /\ Cardinality({d \in Calls : sock[d] = "lost"}) < MaxLost
    /\ sock' = [sock EXCEPT ![c] = "lost"]
    /\ UNCHANGED <<call, outcome, follower, world, asked, goals, told>>

(***************************************************************************)
(* The follower of a goal.                                                 *)
(***************************************************************************)

\* Mutant: a rejected goal resolves like any other.
ResultOfAny(frame) == IF frame = "rejected" THEN "succeeded" ELSE frame

\* What an action_result resolves the goal to: result false is an error.
ResultOf(frame) == IF frame = "rejected" THEN "error" ELSE frame

Follow(c) ==
    /\ follower[c] = "live"
    /\ \/ frames[c] # <<>> /\ outcome' = [outcome EXCEPT ![c] = ResultOf(Head(frames[c]))]
       \/ frames[c] = <<>> /\ sock[c] = "lost"
          /\ outcome' = [outcome EXCEPT ![c] = IF Done(c) THEN @ ELSE "error"]
    /\ follower' = [follower EXCEPT ![c] = "over"]
    /\ frames' = [frames EXCEPT ![c] = <<>>]
    /\ Close(c)
    /\ UNCHANGED <<call, robot, asked, goals, told>>

(***************************************************************************)
(* A call that waits: for a goal, for a service, or for a publish to leave.*)
(***************************************************************************)

\* The goal ended in time: its result, or the error that ended it.
Settled(c) ==
    /\ At(c, "waiting") /\ call[c].kind = "goal" /\ Done(c)
    /\ End(c, IF outcome[c] = "error" THEN "error" ELSE "answer")
    /\ UNCHANGED <<outcome, follower, sock, world, asked, goals, told>>

\* The timeout passes, or the waiting task is cancelled: the cancel is sent
\* next, and the goal may still end before it is out.
GiveUp(c) ==
    /\ At(c, "waiting") /\ call[c].kind = "goal"
    /\ call' = [call EXCEPT ![c].phase = "giving up"]
    /\ UNCHANGED <<outcome, follower, sock, world, asked, goals, told>>

\* The cancel frame, on a socket that may be dead.
CancelSent(c) == asked' = IF sock[c] = "open" THEN asked \cup {c} ELSE asked

\* Nothing waits for the robot's answer: the goal is dropped, its follower
\* cancelled, and the follower closes the socket.
GivesUp(c) ==
    /\ At(c, "giving up") /\ CancelSent(c) /\ End(c, "error")
    /\ IF Done(c)
       THEN UNCHANGED <<goals, follower, sock, frames>>
       ELSE /\ goals' = SelectSeq(goals, LAMBDA d : d # c)
            /\ follower' = [follower EXCEPT ![c] = "over"]
            /\ frames' = [frames EXCEPT ![c] = <<>>]
            /\ Close(c)
    /\ UNCHANGED <<outcome, robot, told>>

\* _call_service and _publish: the frame that answers, the deadline, a lost
\* socket; the socket closes whichever comes first.
Serviced(c) ==
    /\ At(c, "waiting") /\ call[c].kind \in {"service", "publish"}
    /\ End(c, CASE call[c].kind = "publish" -> "sent"
                [] call[c].kind # "publish" /\ frames[c] # <<>> /\ Head(frames[c]) = "succeeded" -> "answer"
                [] OTHER -> "error")
    /\ frames' = [frames EXCEPT ![c] = <<>>]
    /\ Close(c)
    /\ UNCHANGED <<outcome, follower, robot, asked, goals, told>>

(***************************************************************************)
(* The holders of a handle.                                                *)
(***************************************************************************)

\* A goal without a record in _goals is reported failed.
StatusOf(c) ==
    IF ~Kept(c) THEN "failed"
    ELSE CASE outcome[c] = "pending" -> "running"
           [] outcome[c] = "succeeded" -> "completed"
           [] outcome[c] = "canceled" -> "cancelled"
           [] OTHER -> "failed"

Held(c) == call[c].ended = "handle" /\ told[c] = "running"

Query(c) ==
    /\ Held(c) /\ told' = [told EXCEPT ![c] = StatusOf(c)]
    /\ UNCHANGED <<call, outcome, follower, sock, world, asked, goals>>

\* cancel_action sends the cancel, and answers like a query once the goal has
\* settled or the timeout has passed.
CancelHandle(c) ==
    /\ Held(c) /\ Kept(c) /\ CancelSent(c)
    /\ UNCHANGED <<call, outcome, follower, sock, world, goals, told>>

-----------------------------------------------------------------------------

Coroutine(c) == Follow(c) \/ Settled(c) \/ GiveUp(c) \/ GivesUp(c) \/ Serviced(c)

Next == \E c \in Calls :
    \/ Begin(c) \/ NotSent(c) \/ Send(c) \/ Coroutine(c) \/ Finishes(c) \/ Disconnects(c)
    \/ Query(c) \/ CancelHandle(c)

Spec == Init /\ [][Next]_vars

\* The loop runs what is ready, and timeouts pass; nothing is assumed of the
\* robot.
Fairness == \A c \in Calls : WF_vars(Coroutine(c))

-----------------------------------------------------------------------------

\* Every waiting call comes back, whatever the robot does, and its socket is
\* closed behind it.
CallsEnd == \A c \in Calls :
    At(c, "waiting") ~> At(c, "ended") /\ sock[c] # "open"

\* A goal that failed was not carried out to a success, and the other way
\* round: an answer is the end of this very goal.
Outcome(c) ==
    IF At(c, "idle") THEN "idle"
    ELSE IF ~At(c, "ended") THEN "open"
    ELSE IF call[c].ended \in {"handle", "sent"} THEN "sent" ELSE call[c].ended

Abstract == INSTANCE DeviceCall WITH
    ran <- {c \in Calls : robot[c] \in Finals},
    outcome <- [c \in Calls |-> Outcome(c)]

\* The binding is a DeviceCall.
ImplementsDeviceCall == Abstract!Spec
=============================================================================
