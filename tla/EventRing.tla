------------------------------ MODULE EventRing -----------------------------
(***************************************************************************)
(* The bounded ring that holds a stream's values between two reads: the    *)
(* deque with its seq and dropped counters that integrations/mcp.py keeps  *)
(* per event resource and per background subscription.                     *)
(***************************************************************************)
EXTENDS Naturals, Sequences, SequencesExt

CONSTANT RingSize

ASSUME RingAssumption == RingSize \in Nat \ {0}

EmptyRing == [items |-> <<>>, dropped |-> 0, seq |-> 0]

Full(ring) == Len(ring.items) = RingSize

\* Mutant: the eviction is not counted.
PushUncounted(ring, value) ==
    [items   |-> Append(IF Full(ring) THEN Tail(ring.items) ELSE ring.items,
                        [seq |-> ring.seq + 1, value |-> value]),
     dropped |-> ring.dropped,
     seq     |-> ring.seq + 1]

\* The append evicts the oldest unread value of a full ring, and counts it.
Push(ring, value) ==
    [items   |-> Append(IF Full(ring) THEN Tail(ring.items) ELSE ring.items,
                        [seq |-> ring.seq + 1, value |-> value]),
     dropped |-> ring.dropped + (IF Full(ring) THEN 1 ELSE 0),
     seq     |-> ring.seq + 1]

\* A read takes every value and resets the count.
Drain(ring) == [ring EXCEPT !.items = <<>>, !.dropped = 0]

\* Read up to number taken, a ring accounts for every value since: it holds it,
\* or has counted it as dropped, and what it holds is the newest, in order.
Accounts(ring, taken) ==
    /\ taken + ring.dropped + Len(ring.items) = ring.seq
    /\ \A i \in DOMAIN ring.items :
        ring.items[i].seq = taken + ring.dropped + i
=============================================================================
