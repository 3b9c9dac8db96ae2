-------------------------- MODULE McpBackgroundSubs -------------------------
(***************************************************************************)
(* The background subscriptions of the MCP bridge: start_subscription      *)
(* creates a task that buffers an event's messages between tool calls,     *)
(* read_subscription drains what accumulated, stop_subscription ends it.   *)
(***************************************************************************)
EXTENDS EventRing

CONSTANTS
    Subs,       \* subscription ids, never reused
    MaxValues   \* bound: messages the source emits

VARIABLES
    subs,       \* _subs: the ids a request still finds
    task,       \* where each subscription's task is
    cancelled,  \* the subscriptions whose task.cancel() was called
    inbox,      \* messages each stream has not delivered yet
    ring, ended,\* of each subscription's state
    emitted,
    taken       \* seq of the last message a read reported

vars == <<subs, task, cancelled, inbox, ring, ended, emitted, taken>>

Init ==
    /\ subs = {} /\ cancelled = {} /\ emitted = 0
    /\ task = [s \in Subs |-> "none"]
    /\ inbox = [s \in Subs |-> <<>>]
    /\ ring = [s \in Subs |-> EmptyRing]
    /\ ended = [s \in Subs |-> FALSE]
    /\ taken = [s \in Subs |-> 0]

Goto(s, to) == task' = [task EXCEPT ![s] = to]

Running(s, at) == task[s] = at /\ s \notin cancelled

------------------------------------------------------------------------------
(* The three tools.                                                        *)

Start(s) ==
    /\ task[s] = "none"
    /\ subs' = subs \cup {s}
    /\ Goto(s, "created")
    /\ UNCHANGED <<cancelled, inbox, ring, ended, emitted, taken>>

\* The batch's last seq, or the running one when nothing is buffered.
Read(s) ==
    /\ s \in subs
    /\ taken' = [taken EXCEPT ![s] =
                    IF ring[s].items = <<>> THEN ring[s].seq ELSE Last(ring[s].items).seq]
    /\ ring' = [ring EXCEPT ![s] = Drain(@)]
    /\ UNCHANGED <<subs, task, cancelled, inbox, ended, emitted>>

\* cancel() on a task that is over does nothing; closing its stream changes
\* nothing here that the cancellation does not.
Stop(s) ==
    /\ s \in subs
    /\ subs' = subs \ {s}
    /\ cancelled' = IF task[s] = "over" THEN cancelled ELSE cancelled \cup {s}
    /\ UNCHANGED <<task, inbox, ring, ended, emitted, taken>>

------------------------------------------------------------------------------
(* The source and the tasks (_sub_pump).                                   *)

Emit ==
    /\ emitted < MaxValues
    /\ emitted' = emitted + 1
    /\ inbox' = [s \in Subs |->
                    IF task[s] = "streaming" THEN Append(inbox[s], emitted + 1) ELSE inbox[s]]
    /\ UNCHANGED <<subs, task, cancelled, ring, ended, taken>>

Begin(s) ==
    /\ Running(s, "created") /\ Goto(s, "opening")
    /\ UNCHANGED <<subs, cancelled, inbox, ring, ended, emitted, taken>>

\* client.subscribe returned a stream.
Opens(s) ==
    /\ Running(s, "opening") /\ Goto(s, "streaming")
    /\ UNCHANGED <<subs, cancelled, inbox, ring, ended, emitted, taken>>

Buffers(s) ==
    /\ Running(s, "streaming") /\ inbox[s] # <<>>
    /\ ring' = [ring EXCEPT ![s] = Push(@, Head(inbox[s]))]
    /\ inbox' = [inbox EXCEPT ![s] = Tail(@)]
    /\ UNCHANGED <<subs, task, cancelled, ended, emitted, taken>>

\* The subscribe is refused or the stream raises.
Fails(s) ==
    /\ task[s] \in {"opening", "streaming"} /\ s \notin cancelled
    /\ Goto(s, "over")
    /\ ended' = [ended EXCEPT ![s] = TRUE]
    /\ UNCHANGED <<subs, cancelled, inbox, ring, emitted, taken>>

\* The stream ends, everything it had delivered: the async for is done.
Exhausted(s) ==
    /\ Running(s, "streaming") /\ inbox[s] = <<>>
    /\ Goto(s, "over")
    /\ UNCHANGED <<subs, cancelled, inbox, ring, ended, emitted, taken>>

\* The loop throws CancelledError into the task, or never begins it.
Unwinds(s) ==
    /\ s \in cancelled /\ task[s] # "over"
    /\ Goto(s, "over")
    /\ UNCHANGED <<subs, cancelled, inbox, ring, ended, emitted, taken>>

Pump(s) == Begin(s) \/ Opens(s) \/ Buffers(s) \/ Unwinds(s)

Next ==
    \/ \E s \in Subs :
        \/ Start(s) \/ Read(s) \/ Stop(s)
        \/ Pump(s) \/ Fails(s) \/ Exhausted(s)
    \/ Emit

Spec == Init /\ [][Next]_vars

\* The loop runs every ready task; no request and no end of a stream is owed.
Fairness == \A s \in Subs : WF_vars(Pump(s))

------------------------------------------------------------------------------
\* "a dropped counter makes a fallen-behind reader visible rather than silently
\* lossy": what reads reported, what is buffered and what was counted as shed add
\* up to every message received, in order.
NoSilentGap == \A s \in Subs : Accounts(ring[s], taken[s])

\* A subscription no request can reach any more has a task that comes to its end.
StoppedEnds ==
    \A s \in Subs : (task[s] # "none" /\ s \notin subs) ~> task[s] = "over"
=============================================================================
