------------------------------ MODULE HttpPool ------------------------------
(***************************************************************************)
(* Where a request goes: the clients of an HttpBinding with private        *)
(* addresses blocked.  The host of a request is resolved and checked once, *)
(* and its address is pinned on the client the request is sent with: the   *)
(* pooled one, shared and reopened after aclose(), or a client of its own, *)
(* for a Thing with a certificate and for an event stream.  The transfers  *)
(* of a chain check the next address and pin nothing.                      *)
(***************************************************************************)
EXTENDS Integers

CONSTANTS
    Calls, Addresses, Private,
    HostOf,     \* [Thing -> its host]
    Certified,  \* the Things with a certificate
    Retries, MaxClients, None

\* The clients are told apart: a pooled one is a number, another is named by its request.
PoolAssumption ==
    /\ Private \subseteq Addresses /\ Certified \subseteq DOMAIN HostOf
    /\ Calls \cap Nat = {} /\ MaxClients \in Nat /\ None \notin Addresses

VARIABLES
    request,    \* [Calls -> the request under way]
    made, pool, \* pooled clients made, and the one in use, 0 for none
    open,       \* the clients that are open
    pins,       \* [client -> [host -> the address its connections go to]]
    links,      \* [client -> [host -> the addresses it has connections to]]
    closing,    \* aclose() waits for this client, 0 for none
    checked,    \* history: [host -> every address that passed for it]
    unpinned    \* history: [client -> the hosts it carried a transfer to with no pin]

vars == <<request, made, pool, open, pins, links, closing, checked, unpinned>>

Hosts == {HostOf[t] : t \in DOMAIN HostOf}
Clients == (1 .. MaxClients) \cup Calls     \* pooled ones, and a request's own
Idle == [at |-> "idle", kind |-> None, host |-> None, via |-> None, attempt |-> 0, reached |-> None]
Sent(kind, host, k) ==
    [at |-> "sending", kind |-> kind, host |-> host, via |-> k, attempt |-> 0, reached |-> None]
NoPins  == [h \in Hosts |-> None]
NoLinks == [h \in Hosts |-> {}]

Init ==
    /\ request = [c \in Calls |-> Idle] /\ made = 0 /\ pool = 0 /\ open = {} /\ closing = 0
    /\ pins = [k \in Clients |-> NoPins] /\ links = [k \in Clients |-> NoLinks]
    /\ checked = [h \in Hosts |-> {}] /\ unpinned = [k \in Clients |-> {}]

\* The pooled client is made anew when there is none, or it is closed.
Pooled == IF pool \in open THEN pool ELSE made + 1

\* Every address of an answer has to pass.
Allowed(answer) == answer # {} /\ answer \cap Private = {}

Pin(k, host, answer) == \E a \in answer : pins' = [pins EXCEPT ![k][host] = a]

\* The pooled client in use, if this is one.
Takes(k) == pool' = (IF k \in Calls THEN pool ELSE k) /\ made' = (IF k \notin Calls /\ k > made THEN k ELSE made)

\* _send and the event streams: the host is resolved, every address of the answer is
\* checked, and one is pinned.  A stream that is refused closes its client; a request
\* that is refused leaves it open, its own too, with no connection and no pin.
Send(c, t, kind) ==
    LET host == HostOf[t]
        k    == IF t \in Certified \/ kind = "stream" THEN c ELSE Pooled
    IN  /\ request[c].at = "idle" /\ k \in Clients /\ Takes(k)
        /\ \E answer \in SUBSET Addresses :
            \/ /\ Allowed(answer)
               /\ request' = [request EXCEPT ![c] = Sent(kind, host, k)]
               /\ Pin(k, host, answer) /\ open' = open \cup {k}
               /\ checked' = [checked EXCEPT ![host] = @ \cup answer]
            \/ /\ ~Allowed(answer)
               /\ open' = (IF kind = "stream" THEN open ELSE open \cup {k})
               /\ UNCHANGED <<request, pins, checked>>
        /\ UNCHANGED <<links, closing, unpinned>>

\* A resumable or ranged transfer: the next address is resolved and refused if it is
\* private, one that cannot be resolved is not, and nothing of the answer is kept.
Follow(c, t) ==
    LET host == HostOf[t]
        k    == IF t \in Certified THEN c ELSE Pooled
    IN  /\ request[c].at = "idle" /\ k \in Clients /\ Takes(k)
        /\ \E answer \in SUBSET (Addresses \ Private) :
               checked' = [checked EXCEPT ![host] = @ \cup answer]
        /\ request' = [request EXCEPT ![c] = Sent("transfer", host, k)] /\ open' = open \cup {k}
        /\ UNCHANGED <<pins, links, closing, unpinned>>

\* A request that is over, however it ends: its own client is closed.
Over(c) ==
    /\ request' = [request EXCEPT ![c] = Idle] /\ open' = open \ {c}
    /\ pins' = [pins EXCEPT ![c] = NoPins] /\ links' = [links EXCEPT ![c] = NoLinks]
    /\ unpinned' = [unpinned EXCEPT ![c] = {}]

\* A connection the client keeps is used again, or one is made: to the pinned address,
\* or with no pin to whatever the name then is.
Connect(c) ==
    LET r == request[c]
        pin == pins[r.via][r.host]
    IN  /\ r.at = "sending" /\ r.via \in open
        /\ \E a \in links[r.via][r.host] \cup (IF pin = None THEN Addresses ELSE {pin}) :
            /\ links' = [links EXCEPT ![r.via][r.host] = @ \cup {a}]
            /\ request' = [request EXCEPT ![c] = [r EXCEPT !.at = "sent", !.reached = a]]
        /\ unpinned' = IF r.kind = "transfer" /\ pin = None
                       THEN [unpinned EXCEPT ![r.via] = @ \cup {r.host}] ELSE unpinned
        /\ UNCHANGED <<made, pool, open, pins, closing, checked>>

\* A transient failure is tried again, and a transfer goes on, on the same client; the
\* host is not resolved again.  A stream is not tried again.
Retry(c) ==
    LET r == request[c] IN
    /\ r.at = "sent" /\ r.kind # "stream" /\ r.attempt < Retries
    /\ request' = [request EXCEPT ![c] = [r EXCEPT !.at = "sending", !.attempt = @ + 1]]
    /\ UNCHANGED <<made, pool, open, pins, links, closing, checked, unpinned>>

\* It is answered, fails, finds its client closed, or its caller is cancelled.
Ends(c) ==
    /\ request[c].at # "idle" /\ Over(c)
    /\ UNCHANGED <<made, pool, closing, checked>>

\* aclose: the client is closed at once; the binding forgets its client when the
\* connections are closed, whichever it has by then.
Close ==
    /\ pool \in open /\ closing = 0 /\ closing' = pool /\ open' = open \ {pool}
    /\ pins' = [pins EXCEPT ![pool] = NoPins] /\ links' = [links EXCEPT ![pool] = NoLinks]
    /\ UNCHANGED <<request, made, pool, checked, unpinned>>

Closed ==
    /\ closing # 0 /\ closing' = 0 /\ pool' = 0
    /\ UNCHANGED <<request, made, open, pins, links, checked, unpinned>>

Next ==
    \/ \E c \in Calls :
        \/ \E t \in DOMAIN HostOf : Follow(c, t) \/ \E kind \in {"request", "stream"} : Send(c, t, kind)
        \/ Connect(c) \/ Retry(c) \/ Ends(c)
    \/ Close \/ Closed

Spec == Init /\ [][Next]_vars

-----------------------------------------------------------------------------
\* "the address that was checked is the address that is dialed" (resolve_and_pin): a
\* request, first or repeated, on a new connection or one that was kept, goes to an
\* address that passed the check for its own host, unless its client carried a transfer
\* to that host with no pin there: a transfer dials what the name is then, and what it
\* leaves open other requests use.
DialsWhatWasChecked ==
    \A c \in Calls :
        LET r == request[c] IN
        r.reached # None /\ r.host \notin unpinned[r.via] => r.reached \in checked[r.host]
=============================================================================
