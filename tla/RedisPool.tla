------------------------------ MODULE RedisPool ------------------------------
(***************************************************************************)
(* A RedisBinding's clients: one per server and database, made when first  *)
(* needed and pooled, until an aclose takes the whole pool and closes it   *)
(* one client at a time; and the pub/sub connections of its streams.       *)
(***************************************************************************)
EXTENDS Naturals, Sequences, FiniteSets

CONSTANTS
    Urls,           \* servers and databases
    Forms,          \* hrefs, see Endpoint
    Users,          \* callers of the binding
    NoClient, MaxClients, MaxCloses

PoolAssumption == MaxClients \in Nat /\ NoClient \notin Nat /\ MaxCloses \in Nat

Clients == 1..MaxClients
Closers == 1..MaxCloses

VARIABLES
    pool,       \* [Urls -> the client, or NoClient]
    made,       \* how many clients there have been
    open,       \* the open ones
    closing,    \* what each aclose still has to close, <<>> before and after
    closes,     \* how many acloses there have been
    raised,     \* one of them ended early
    user,       \* each caller's operation, and the client it runs on
    pubsub      \* the callers whose pub/sub connection is open

vars == <<pool, made, open, closing, closes, raised, user, pubsub>>

Idle == [phase |-> "idle"]

Init ==
    /\ pool = [u \in Urls |-> NoClient] /\ made = 0 /\ open = {}
    /\ closing = [k \in Closers |-> <<>>] /\ closes = 0 /\ raised = FALSE
    /\ user = [c \in Users |-> Idle] /\ pubsub = {}

\* An href names a server and a database, and a key or a channel; it carries no
\* credentials, no fragment and no other parameter.
Endpoint(form) ==
    IF form.scheme \in {"redis", "rediss"} /\ ~form.login /\ ~form.fragment /\ form.resource # ""
       /\ form.params \subseteq {"db"} /\ form.url \in Urls
    THEN {form.url} ELSE {}

\* _client: the pooled one, or a new one.
Asking(c, form, op) ==
    \E url \in Endpoint(form) :
        LET client == IF pool[url] = NoClient THEN made + 1 ELSE pool[url] IN
        /\ user[c].phase = "idle" /\ client \in Clients
        /\ made' = IF client > made THEN client ELSE made
        /\ open' = IF client > made THEN open \cup {client} ELSE open
        /\ pool' = [pool EXCEPT ![url] = client]
        /\ user' = [user EXCEPT ![c] = [phase |-> op, client |-> client, read |-> FALSE]]
        /\ pubsub' = IF op = "subscribing" THEN pubsub \cup {c} ELSE pubsub
        /\ UNCHANGED <<closing, closes, raised>>

\* A key is read or written, or the command fails, or its caller is cancelled.
Answered(c) ==
    /\ user[c].phase = "command"
    /\ user' = [user EXCEPT ![c] = Idle]
    /\ UNCHANGED <<pool, made, open, closing, closes, raised, pubsub>>

Subscribed(c) ==
    /\ user[c].phase = "subscribing"
    /\ user' = [user EXCEPT ![c].phase = "stream"]
    /\ UNCHANGED <<pool, made, open, closing, closes, raised, pubsub>>

\* Whatever ends the SUBSCRIBE, a cancellation too, the connection is closed before it is
\* raised, unless that close fails or is cancelled itself.
SubscribeFails(c) ==
    /\ user[c].phase = "subscribing"
    /\ \/ user' = [user EXCEPT ![c] = Idle] /\ pubsub' = pubsub \ {c}
       \/ user' = [user EXCEPT ![c].phase = "left"] /\ UNCHANGED pubsub
    /\ UNCHANGED <<pool, made, open, closing, closes, raised>>

Read(c) ==
    /\ user[c].phase = "stream" /\ ~user[c].read
    /\ user' = [user EXCEPT ![c].read = TRUE]
    /\ UNCHANGED <<pool, made, open, closing, closes, raised, pubsub>>

\* The stream ends or is cancelled, and what was read begins to UNSUBSCRIBE; a
\* stream nobody read has no code to do it.
CloseStream(c) ==
    /\ user[c].phase = "stream"
    /\ user' = [user EXCEPT ![c].phase = IF user[c].read THEN "closing" ELSE "abandoned"]
    /\ UNCHANGED <<pool, made, open, closing, closes, raised, pubsub>>

\* UNSUBSCRIBE is answered or fails, and the connection is closed.
StreamClosed(c) ==
    /\ user[c].phase = "closing"
    /\ user' = [user EXCEPT ![c] = Idle] /\ pubsub' = pubsub \ {c}
    /\ UNCHANGED <<pool, made, open, closing, closes, raised>>

\* A cancellation that meets the UNSUBSCRIBE skips the close, and a close that fails is
\* not told: the connection stays, and nobody has it.
StreamLeft(c) ==
    /\ user[c].phase = "closing"
    /\ user' = [user EXCEPT ![c].phase = "left"]
    /\ UNCHANGED <<pool, made, open, closing, closes, raised, pubsub>>

Pooled == {pool[u] : u \in Urls} \ {NoClient}
InOrder(S) == CHOOSE seq \in [1..Cardinality(S) -> S] : \A i, j \in DOMAIN seq : i < j => seq[i] < seq[j]

\* Mutant: the clients are closed where they are, in the pool.
AcloseKeepsPool ==
    /\ closes < MaxCloses
    /\ closes' = closes + 1 /\ closing' = [closing EXCEPT ![closes + 1] = InOrder(Pooled)]
    /\ UNCHANGED <<pool, made, open, raised, user, pubsub>>

Aclose ==
    /\ closes < MaxCloses
    /\ closes' = closes + 1 /\ closing' = [closing EXCEPT ![closes + 1] = InOrder(Pooled)]
    /\ pool' = [u \in Urls |-> NoClient]
    /\ UNCHANGED <<made, open, raised, user, pubsub>>

CloseNext(k) ==
    /\ closing[k] # <<>>
    /\ open' = open \ {Head(closing[k])}
    /\ closing' = [closing EXCEPT ![k] = Tail(@)]
    /\ UNCHANGED <<pool, made, closes, raised, user, pubsub>>

\* A client that cannot be closed, or a cancelled aclose: nobody has the rest.
CloseRaises(k) ==
    /\ closing[k] # <<>>
    /\ closing' = [closing EXCEPT ![k] = <<>>] /\ raised' = TRUE
    /\ UNCHANGED <<pool, made, open, closes, user, pubsub>>

Next ==
    \/ \E c \in Users :
          \/ \E form \in Forms, op \in {"command", "subscribing"} : Asking(c, form, op)
          \/ Answered(c) \/ Subscribed(c) \/ SubscribeFails(c) \/ Read(c)
          \/ CloseStream(c) \/ StreamClosed(c) \/ StreamLeft(c)
    \/ Aclose \/ \E k \in Closers : CloseNext(k) \/ CloseRaises(k)

Spec == Init /\ [][Next]_vars

BeingClosed == UNION {{closing[k][i] : i \in DOMAIN closing[k]} : k \in Closers}

\* "Close every pooled Redis client. Safe to call more than once" (aclose): the pool
\* gives out no client that is closed or being closed, no open client is in nobody's
\* hands while no aclose ended early, and an open pub/sub connection is a subscriber's:
\* of its stream, also one that is closing or was never read, or left when the close
\* itself was cut short ("left", see StreamLeft and SubscribeFails).
PoolIsWhole ==
    /\ Pooled \subseteq open /\ Pooled \cap BeingClosed = {}
    /\ ~raised => open \subseteq Pooled \cup BeingClosed
    /\ \A c \in pubsub : user[c].phase \in {"subscribing", "stream", "closing", "abandoned", "left"}
=============================================================================
