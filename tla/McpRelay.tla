------------------------------ MODULE McpRelay ------------------------------
(***************************************************************************)
(* One event resource of the MCP bridge: resources/subscribe starts a pump *)
(* task that relays the Thing's stream into a ring and notifies the client;*)
(* resources/read drains the ring; resources/unsubscribe cancels the pump. *)
(*                                                                         *)
(* A cancelled task does not end at once: its coroutine unwinds when the   *)
(* loop next runs it, through the finally blocks of the stream it is       *)
(* reading, and only then through its own.                                 *)
(***************************************************************************)
EXTENDS EventRing, FiniteSets

CONSTANTS
    MaxPumps,       \* bound: pump tasks ever created
    MaxValues,      \* bound: values the source emits
    MaxUnsubscribes \* bound: unsubscribe requests that find a pump

ASSUME RelayAssumption ==
    MaxPumps \in Nat /\ MaxValues \in Nat /\ MaxUnsubscribes \in Nat

Pumps  == 1..MaxPumps
NoPump == 0

VARIABLES
    registered, \* pumps[uri]
    task,       \* where each pump task is
    cancelled,  \* the tasks whose cancel() was called
    inbox,      \* values each task's stream has not delivered yet
    ring,       \* event_log, event_dropped and event_seq of this uri
    emitted, unsubscribes,
    taken       \* seq of the last value a read reported

vars == <<registered, task, cancelled, inbox, ring, emitted, unsubscribes, taken>>

Init ==
    /\ registered = NoPump
    /\ task = [p \in Pumps |-> "none"] /\ cancelled = {}
    /\ inbox = [p \in Pumps |-> <<>>]
    /\ ring = EmptyRing
    /\ emitted = 0 /\ unsubscribes = 0 /\ taken = 0

Goto(p, s) == task' = [task EXCEPT ![p] = s]

\* Created, and neither over nor told to stop.
Relaying == {p \in Pumps : task[p] \notin {"none", "over"}} \ cancelled

Streaming == {p \in Pumps : task[p] \in {"streaming", "notifying"}}

------------------------------------------------------------------------------
(* Requests.                                                               *)

Unused == {p \in Pumps : task[p] = "none"}
NextPump == CHOOSE p \in Unused : \A q \in Unused : p <= q

\* Nothing to do when the uri is in pumps: it is already relaying.
Subscribe ==
    /\ registered = NoPump /\ Unused # {}
    /\ registered' = NextPump /\ Goto(NextPump, "created")
    /\ UNCHANGED <<cancelled, inbox, ring, emitted, unsubscribes, taken>>

Unsubscribe ==
    /\ registered # NoPump /\ unsubscribes < MaxUnsubscribes
    /\ cancelled' = cancelled \cup {registered}
    /\ registered' = NoPump
    /\ unsubscribes' = unsubscribes + 1
    /\ UNCHANGED <<task, inbox, ring, emitted, taken>>

\* An empty ring answers "pending"; otherwise the batch, its last seq, dropped.
Read ==
    /\ ring.items # <<>>
    /\ taken' = Last(ring.items).seq
    /\ ring' = Drain(ring)
    /\ UNCHANGED <<registered, task, cancelled, inbox, emitted, unsubscribes>>

------------------------------------------------------------------------------
(* The source and the pump tasks.                                          *)

Emit ==
    /\ emitted < MaxValues
    /\ emitted' = emitted + 1
    /\ inbox' = [p \in Pumps |->
                    IF p \in Streaming THEN Append(inbox[p], emitted + 1) ELSE inbox[p]]
    /\ UNCHANGED <<registered, task, cancelled, ring, unsubscribes, taken>>

Running(p, s) == task[p] = s /\ p \notin cancelled

Begin(p) ==
    /\ Running(p, "created") /\ Goto(p, "opening")
    /\ UNCHANGED <<registered, cancelled, inbox, ring, emitted, unsubscribes, taken>>

\* client.subscribe returned a stream.
Opens(p) ==
    /\ Running(p, "opening") /\ Goto(p, "streaming")
    /\ UNCHANGED <<registered, cancelled, inbox, ring, emitted, unsubscribes, taken>>

Relays(p) ==
    /\ Running(p, "streaming") /\ inbox[p] # <<>>
    /\ ring' = Push(ring, Head(inbox[p]))
    /\ inbox' = [inbox EXCEPT ![p] = Tail(@)]
    /\ Goto(p, "notifying")
    /\ UNCHANGED <<registered, cancelled, emitted, unsubscribes, taken>>

\* Mutant: the pump waits for the client to read what it was told of.
NotifiedWhenRead(p) ==
    /\ Running(p, "notifying") /\ ring.items = <<>> /\ Goto(p, "streaming")
    /\ UNCHANGED <<registered, cancelled, inbox, ring, emitted, unsubscribes, taken>>

Notified(p) ==
    /\ Running(p, "notifying") /\ Goto(p, "streaming")
    /\ UNCHANGED <<registered, cancelled, inbox, ring, emitted, unsubscribes, taken>>

\* The stream cannot be opened, ends or fails, or the session has gone: the
\* finally pops whatever pumps holds for the uri.
Ends(p) ==
    /\ task[p] \in {"opening", "streaming", "notifying"} /\ p \notin cancelled
    /\ Goto(p, "over")
    /\ registered' = NoPump
    /\ UNCHANGED <<cancelled, inbox, ring, emitted, unsubscribes, taken>>

\* A cancelled task unwinds, through the same finally, unless it never began.
Unwinds(p) ==
    /\ p \in cancelled /\ task[p] # "over"
    /\ Goto(p, "over")
    /\ registered' = IF task[p] = "created" THEN registered ELSE NoPump
    /\ UNCHANGED <<cancelled, inbox, ring, emitted, unsubscribes, taken>>

Pump(p) == Begin(p) \/ Opens(p) \/ Relays(p) \/ Notified(p) \/ Unwinds(p)

Next ==
    \/ Subscribe \/ Unsubscribe \/ Read \/ Emit
    \/ \E p \in Pumps : Pump(p) \/ Ends(p)

Spec == Init /\ [][Next]_vars

\* The loop runs every ready task.  Nobody has to subscribe, read or emit, and no
\* stream has to end.
Fairness == \A p \in Pumps : WF_vars(Pump(p))

------------------------------------------------------------------------------
\* "a gap ... is detectable rather than silent": what reads reported, what the
\* ring holds and what it counted as dropped add up to every value relayed.
NoSilentGap == Accounts(ring, taken)

\* Every value a pump has been handed reaches the ring, or the pump ends.
ValuesAreRelayed ==
    \A p \in Pumps : inbox[p] # <<>> ~> (inbox[p] = <<>> \/ task[p] = "over")

\* "not subscribable, or already relaying" (subscribe_resource): an event has at
\* most one relay, or each value is buffered twice.
OneRelay == Cardinality(Relaying) <= 1
=============================================================================
