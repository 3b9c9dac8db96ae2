---------------------------- MODULE LocalStreams ----------------------------
(***************************************************************************)
(* In-process devices behind one LocalBinding: a Thing's calls resolve     *)
(* against the binding registered for its slug, or against the root's own  *)
(* handlers, and its device pushes values to that binding's subscribers.   *)
(***************************************************************************)
EXTENDS Naturals, Sequences

CONSTANTS
    Things,
    Names,          \* of affordances
    Handlers,       \* a binding's handlers: names of callables, and "get"/"set"-prefixed pairs
    Streams,
    MaxBindings, MaxEmits

LocalAssumption == MaxBindings \in Nat

Root == 0           \* the binding the client holds; the others are sub-bindings
Bindings == 0..MaxBindings
Nobody == MaxBindings + 1

VARIABLES
    handlers,   \* of each binding
    bySlug,     \* [Things -> the sub-binding registered last, Nobody for none]
    subs,       \* each binding's lists of subscriber queues, by name
    emitted,    \* what the devices pushed, each with its binding and its name
    stream,     \* an open stream: what it was asked for, and its reader's side
    ran         \* the call of the last step: where it ran, and as what

vars == <<handlers, bySlug, subs, emitted, stream, ran>>

Latest == LET made == {b \in Bindings : \E t \in Things : bySlug[t] = b} \cup {Root}
          IN  CHOOSE b \in made : \A d \in made : d <= b

Closed == [open |-> FALSE]

Init ==
    /\ handlers \in [{Root} -> Handlers]
    /\ bySlug = [t \in Things |-> Nobody]
    /\ subs = [b \in Bindings |-> {}]
    /\ emitted = <<>>
    /\ stream = [s \in Streams |-> Closed]
    /\ ran = {}

\* Mutant: a subscription ignores whose Thing it is of.
SubForAll(t) == Root

\* The binding a Thing's operations resolve against.
SubFor(t) == IF bySlug[t] # Nobody THEN bySlug[t] ELSE Root

Has(b, how, n) == <<how, n>> \in handlers[b]

\* The candidates in their order; none is an error, returned as data.
Resolve(b, candidates) ==
    LET found == {i \in DOMAIN candidates : Has(b, candidates[i][1], candidates[i][2])}
    IN  IF found = {} THEN {} ELSE {candidates[CHOOSE i \in found : \A j \in found : i <= j]}

\* The tail of a form's href names a handler, or else the affordance does.
Candidates(op, n, tail) ==
    CASE op = "invoke" -> <<<<"call", tail>>, <<"call", n>>>>
      [] op = "read"   -> <<<<"get", n>>, <<"call", tail>>, <<"call", n>>, <<"attr", n>>>>
      [] op = "write"  -> <<<<"set", n>>, <<"attr", n>>>>

\* Calls and streams do not meet: the calls made while no stream is open are enough.
Call(t, op, n, tail) ==
    /\ \A s \in Streams : ~stream[s].open
    /\ ran' = {<<t, SubFor(t), handler>> : handler \in Resolve(SubFor(t), Candidates(op, n, tail))}
    /\ UNCHANGED <<handlers, bySlug, subs, emitted, stream>>

\* A Thing's earlier binding is let go of, and its subscribers with it.
RegisterThing(t, hs) ==
    /\ Latest < MaxBindings
    /\ handlers' = [b \in DOMAIN handlers \cup {Latest + 1} |-> IF b \in DOMAIN handlers THEN handlers[b] ELSE hs]
    /\ bySlug' = [bySlug EXCEPT ![t] = Latest + 1]
    /\ ran' = {} /\ UNCHANGED <<subs, emitted, stream>>

Register(b, handler) ==
    /\ b \in DOMAIN handlers /\ handler \notin handlers[b]
    /\ handlers' = [handlers EXCEPT ![b] = @ \cup {handler}]
    /\ ran' = {} /\ UNCHANGED <<bySlug, subs, emitted, stream>>

\* The queue is listed now; the generator runs when it is first read.
Subscribe(s, t, n) ==
    /\ ~stream[s].open
    /\ \A b \in Bindings : s \notin {q[1] : q \in subs[b]}
    /\ subs' = [subs EXCEPT ![SubFor(t)] = @ \cup {<<s, n>>}]
    /\ stream' = [stream EXCEPT ![s] = [open |-> TRUE, name |-> n, device |-> IF bySlug[t] # Nobody THEN bySlug[t] ELSE Root,
                                        since |-> Len(emitted), started |-> FALSE, queue |-> <<>>, taken |-> <<>>]]
    /\ ran' = {} /\ UNCHANGED <<handlers, bySlug, emitted>>

Emit(b, n) ==
    /\ b \in DOMAIN handlers /\ Len(emitted) < MaxEmits
    /\ emitted' = Append(emitted, [by |-> b, name |-> n])
    /\ stream' = [s \in Streams |->
           IF stream[s].open /\ <<s, n>> \in subs[b]
           THEN [stream[s] EXCEPT !.queue = Append(@, Len(emitted'))] ELSE stream[s]]
    /\ ran' = {} /\ UNCHANGED <<handlers, bySlug, subs>>

Take(s) ==
    /\ stream[s].open /\ stream[s].queue # <<>>
    /\ stream' = [stream EXCEPT ![s].started = TRUE, ![s].queue = Tail(@), ![s].taken = Append(@, Head(stream[s].queue))]
    /\ ran' = {} /\ UNCHANGED <<handlers, bySlug, subs, emitted>>

\* A generator nobody read has nothing to unwind: its queue stays listed.
Close(s) ==
    /\ stream[s].open
    /\ stream' = [stream EXCEPT ![s] = Closed]
    /\ subs' = [b \in Bindings |-> {q \in subs[b] : q[1] = s => ~stream[s].started}]
    /\ ran' = {} /\ UNCHANGED <<handlers, bySlug, emitted>>

Next ==
    \/ \E t \in Things, hs \in Handlers : RegisterThing(t, hs)
    \/ \E b \in Bindings, handler \in UNION Handlers : Register(b, handler)
    \/ \E t \in Things, n \in Names, tail \in Names, op \in {"invoke", "read", "write"} : Call(t, op, n, tail)
    \/ \E b \in Bindings, n \in Names : Emit(b, n)
    \/ \E s \in Streams : Take(s) \/ Close(s) \/ \E t \in Things, n \in Names : Subscribe(s, t, n)

Spec == Init /\ [][Next]_vars

Pushed(s) ==
    {i \in DOMAIN emitted : i > stream[s].since /\ emitted[i] = [by |-> stream[s].device, name |-> stream[s].name]}

\* "two Things whose events share a name keep separate subscribers" (subscribe): an
\* open stream has, read or still queued, exactly what the device its Thing had when
\* it subscribed has pushed since under that name, once each and in order.
EmittedIsTaken ==
    \A s \in Streams : stream[s].open =>
        LET got == stream[s].taken \o stream[s].queue
        IN  /\ {got[k] : k \in DOMAIN got} = Pushed(s)
            /\ \A k, l \in DOMAIN got : k < l => got[k] < got[l]
=============================================================================
