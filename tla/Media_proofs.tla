---------------------------- MODULE Media_proofs ----------------------------
(***************************************************************************)
(* Frames published, frames read and a source saved, proved for every      *)
(* depth of the queues, every number of retries and every source.          *)
(***************************************************************************)
EXTENDS MediaMC, SequenceTheorems, WellFoundedInduction, TLAPS

(* A track on its way to the output.                                       *)

Item == Nat \cup {Empty}

\* What the writer holds (h), a queue of z (q) and the putter (p) carry, when L frames
\* have been written and the source has produced n.
Ordered(h, q, z, p, L, n) ==
    LET first == IF h > 0 THEN L + 1 ELSE L
        last  == IF p > 0 THEN n - 1 ELSE n
    IN  /\ h > 0 => h = L + 1
        /\ p > 0 => p = n
        /\ first <= last
        /\ \A k \in 1 .. z : q[k] > 0 => first < q[k] /\ q[k] <= last
        /\ \A k, l \in 1 .. z : k < l /\ q[k] > 0 /\ q[l] > 0 => q[k] < q[l]
        /\ \A m \in first + 1 .. last : \E k \in 1 .. z : q[k] = m

LEMMA OrderedPut ==
    ASSUME NEW h \in Item, NEW q, NEW z \in Nat, \A k \in 1 .. z : q[k] \in Nat,
           NEW p \in Item, NEW L \in Nat, NEW n \in Nat, Ordered(h, q, z, p, L, n),
           NEW r, \A k \in 1 .. z : r[k] = q[k]
    PROVE  /\ p # Empty /\ r[z + 1] = p => Ordered(h, r, z + 1, Empty, L, n)
           /\ r[z + 1] = 0 => Ordered(h, r, z + 1, p, L, n)
           /\ p = Empty => Ordered(h, q, z, n + 1, L, n + 1) /\ Ordered(h, q, z, Done, L, n)
<1>1. ASSUME p # Empty, r[z + 1] = p PROVE Ordered(h, r, z + 1, Empty, L, n)
  <2>1. p \in Nat /\ r[z + 1] \in Nat
    BY <1>1 DEF Item
  <2>2. CASE p > 0
    BY <1>1, <2>1, <2>2 DEF Ordered, Item, Empty
  <2>3. CASE p = 0
    BY <1>1, <2>1, <2>3 DEF Ordered, Item, Empty
  <2> QED BY <2>1, <2>2, <2>3
<1>2. ASSUME r[z + 1] = 0 PROVE Ordered(h, r, z + 1, p, L, n)
  BY <1>2 DEF Ordered, Item, Empty
<1>3. ASSUME p = Empty PROVE Ordered(h, q, z, n + 1, L, n + 1) /\ Ordered(h, q, z, Done, L, n)
  BY <1>3 DEF Ordered, Item, Empty, Done
<1> QED BY <1>1, <1>2, <1>3

LEMMA OrderedPulled ==
    ASSUME NEW q, NEW z \in Nat, z > 0, \A k \in 1 .. z : q[k] \in Nat,
           NEW p \in Item, NEW L \in Nat, NEW n \in Nat, Ordered(Empty, q, z, p, L, n),
           NEW r, \A k \in 1 .. z - 1 : r[k] = q[k + 1]
    PROVE  Ordered(q[1], r, z - 1, p, L, n)
<1> DEFINE last == IF p > 0 THEN n - 1 ELSE n
<1>1. last \in Int
  BY DEF Item, Empty
<1>2. /\ p > 0 => p = n
      /\ L <= last
      /\ \A k \in 1 .. z : q[k] > 0 => L < q[k] /\ q[k] <= last
      /\ \A k, l \in 1 .. z : k < l /\ q[k] > 0 /\ q[l] > 0 => q[k] < q[l]
      /\ \A m \in L + 1 .. last : \E k \in 1 .. z : q[k] = m
  BY DEF Ordered, Item, Empty
<1>3. Ordered(q[1], r, z - 1, p, L, n) <=>
         LET first == IF q[1] > 0 THEN L + 1 ELSE L IN
         /\ q[1] > 0 => q[1] = L + 1
         /\ p > 0 => p = n
         /\ first <= last
         /\ \A k \in 1 .. z - 1 : r[k] > 0 => first < r[k] /\ r[k] <= last
         /\ \A k, l \in 1 .. z - 1 : k < l /\ r[k] > 0 /\ r[l] > 0 => r[k] < r[l]
         /\ \A m \in first + 1 .. last : \E k \in 1 .. z - 1 : r[k] = m
  BY DEF Ordered
<1> HIDE DEF last
<1>4. 1 \in 1 .. z /\ q[1] \in Nat
  OBVIOUS
<1>5. q[1] > 0 => q[1] = L + 1
  BY <1>1, <1>2
<1>6. ASSUME NEW m \in L + 1 .. last, m # q[1] PROVE \E k \in 1 .. z - 1 : r[k] = m
  <2>1. PICK k \in 1 .. z : q[k] = m
    BY <1>2, <1>6
  <2>2. k - 1 \in 1 .. z - 1 /\ r[k - 1] = m
    BY <1>6, <2>1
  <2> QED BY <2>2
<1>7. \A k, l \in 1 .. z - 1 : k < l /\ r[k] > 0 /\ r[l] > 0 => r[k] < r[l]
  BY <1>2
<1>8. CASE q[1] > 0
  <2>1. L + 1 <= last /\ \A k \in 1 .. z - 1 : r[k] > 0 => L + 1 < r[k] /\ r[k] <= last
    BY <1>1, <1>2, <1>4, <1>5, <1>8
  <2>2. \A m \in L + 1 + 1 .. last : m \in L + 1 .. last /\ m # q[1]
    BY <1>1, <1>5, <1>8
  <2> QED BY <1>2, <1>3, <1>5, <1>6, <1>7, <1>8, <2>1, <2>2
<1>9. CASE ~ (q[1] > 0)
  <2>1. \A k \in 1 .. z - 1 : r[k] > 0 => L < r[k] /\ r[k] <= last
    BY <1>1, <1>2
  <2>2. \A m \in L + 1 .. last : m # q[1]
    BY <1>1, <1>4, <1>9
  <2> QED BY <1>2, <1>3, <1>6, <1>7, <1>9, <2>1, <2>2
<1> QED BY <1>8, <1>9

LEMMA OrderedWritten ==
    ASSUME NEW h \in Nat, h > 0, NEW q, NEW z \in Nat, NEW p \in Item, NEW L \in Nat, NEW n \in Nat,
           Ordered(h, q, z, p, L, n)
    PROVE  h = L + 1 /\ Ordered(Empty, q, z, p, L + 1, n)
BY DEF Ordered, Item, Empty

\* A track in its types, and what it carries: the frames written are the first ones,
\* and those on their way the ones after them.
Track(h, q, p, w, n) ==
    h \in Item /\ q \in Seq(Nat) /\ p \in Item /\ w \in Seq(Nat) /\ n \in Nat

Carries(h, q, p, w, n) ==
    (\A i \in 1 .. Len(w) : w[i] = i) /\ Ordered(h, q, Len(q), p, Len(w), n)

LEMMA CarriesPut ==
    ASSUME NEW h, NEW q, NEW p, NEW w, NEW n, Track(h, q, p, w, n)
    PROVE  /\ p # Empty => Track(h, Append(q, p), Empty, w, n)
           /\ Track(h, Append(q, Done), p, w, n)
           /\ Carries(h, q, p, w, n) =>
                /\ p # Empty => Carries(h, Append(q, p), Empty, w, n)
                /\ Carries(h, Append(q, Done), p, w, n)
                /\ p = Empty => Carries(h, q, n + 1, w, n + 1) /\ Carries(h, q, Done, w, n)
<1>1. /\ h \in Item /\ p \in Item /\ n \in Nat /\ w \in Seq(Nat) /\ q \in Seq(Nat)
      /\ Len(w) \in Nat /\ Len(q) \in Nat /\ \A k \in 1 .. Len(q) : q[k] \in Nat
  BY LenProperties DEF Track
<1>2. ASSUME NEW x \in Nat
      PROVE  /\ Append(q, x) \in Seq(Nat) /\ Len(Append(q, x)) = Len(q) + 1
             /\ \A k \in 1 .. Len(q) : Append(q, x)[k] = q[k]
             /\ Append(q, x)[Len(q) + 1] = x
  BY <1>1, AppendProperties
<1>3. Done \in Nat /\ Empty \in Item /\ Done = 0 /\ (p # Empty => p \in Nat)
  BY <1>1 DEF Done, Item, Empty
<1>4. ASSUME Carries(h, q, p, w, n), p # Empty PROVE Carries(h, Append(q, p), Empty, w, n)
  <2>1. /\ Len(Append(q, p)) = Len(q) + 1
        /\ \A k \in 1 .. Len(q) : Append(q, p)[k] = q[k]
        /\ Append(q, p)[Len(q) + 1] = p
    BY <1>2, <1>3, <1>4
  <2>2. Ordered(h, q, Len(q), p, Len(w), n)
    BY <1>4 DEF Carries
  <2>3. Ordered(h, Append(q, p), Len(q) + 1, Empty, Len(w), n)
    BY <1>1, <1>4, <2>1, <2>2, OrderedPut
  <2> QED BY <1>4, <2>1, <2>3 DEF Carries
<1>5. ASSUME Carries(h, q, p, w, n) PROVE Carries(h, Append(q, Done), p, w, n)
  <2>1. Ordered(h, Append(q, Done), Len(q) + 1, p, Len(w), n)
    BY <1>1, <1>2, <1>3, <1>5, OrderedPut DEF Carries
  <2> QED BY <1>2, <1>3, <1>5, <2>1 DEF Carries
<1>6. ASSUME Carries(h, q, p, w, n), p = Empty
      PROVE  Carries(h, q, n + 1, w, n + 1) /\ Carries(h, q, Done, w, n)
  BY <1>1, <1>6, OrderedPut DEF Carries
<1> QED BY <1>1, <1>2, <1>3, <1>4, <1>5, <1>6 DEF Track

LEMMA CarriesPulled ==
    ASSUME NEW q, NEW p, NEW w, NEW n, Track(Empty, q, p, w, n), q # <<>>
    PROVE  /\ Track(Head(q), Tail(q), p, w, n)
           /\ Carries(Empty, q, p, w, n) => Carries(Head(q), Tail(q), p, w, n)
<1>1. /\ p \in Item /\ n \in Nat /\ w \in Seq(Nat) /\ q \in Seq(Nat)
      /\ Len(w) \in Nat /\ Len(q) \in Nat /\ Len(q) > 0 /\ \A k \in 1 .. Len(q) : q[k] \in Nat
  BY LenProperties, EmptySeq DEF Track
<1>2. /\ Head(q) \in Nat /\ Head(q) = q[1] /\ Tail(q) \in Seq(Nat) /\ Len(Tail(q)) = Len(q) - 1
      /\ \A k \in 1 .. Len(q) - 1 : Tail(q)[k] = q[k + 1]
  BY <1>1, HeadTailProperties
<1>3. ASSUME Carries(Empty, q, p, w, n) PROVE Carries(Head(q), Tail(q), p, w, n)
  <2>1. Ordered(q[1], Tail(q), Len(q) - 1, p, Len(w), n)
    BY <1>1, <1>2, <1>3, OrderedPulled DEF Carries
  <2> QED BY <1>2, <1>3, <2>1 DEF Carries
<1> QED BY <1>1, <1>2, <1>3 DEF Track, Item

LEMMA CarriesWritten ==
    ASSUME NEW h, NEW q, NEW p, NEW w, NEW n, Track(h, q, p, w, n), h # Empty, h # Done
    PROVE  /\ Track(Empty, q, p, Append(w, h), n)
           /\ Carries(h, q, p, w, n) => Carries(Empty, q, p, Append(w, h), n)
<1>1. /\ h \in Nat /\ h > 0 /\ p \in Item /\ n \in Nat /\ w \in Seq(Nat) /\ q \in Seq(Nat)
      /\ Len(w) \in Nat /\ Len(q) \in Nat
  BY LenProperties DEF Track, Item, Done
<1>2. /\ Append(w, h) \in Seq(Nat) /\ Len(Append(w, h)) = Len(w) + 1
      /\ \A i \in 1 .. Len(w) : Append(w, h)[i] = w[i]
      /\ Append(w, h)[Len(w) + 1] = h
  BY <1>1, AppendProperties
<1>3. ASSUME Carries(h, q, p, w, n) PROVE Carries(Empty, q, p, Append(w, h), n)
  <2>1. h = Len(w) + 1 /\ Ordered(Empty, q, Len(q), p, Len(w) + 1, n)
    BY <1>1, <1>3, OrderedWritten DEF Carries
  <2>2. ASSUME NEW i \in 1 .. Len(w) + 1 PROVE Append(w, h)[i] = i
    <3>1. i \in 1 .. Len(w) \/ i = Len(w) + 1
      BY <1>1
    <3> QED BY <1>2, <1>3, <2>1, <3>1 DEF Carries
  <2> QED BY <1>2, <2>1, <2>2 DEF Carries
<1> QED BY <1>1, <1>2, <1>3 DEF Track, Item

\* What carries every frame shows every frame.
LEMMA CarriesAll ==
    ASSUME NEW h, NEW q, NEW p, NEW w, NEW n, Track(h, q, p, w, n), Carries(h, q, p, w, n)
    PROVE  LET line == <<h>> \o q \o <<p>>
               shown == {k \in DOMAIN line : line[k] > Done}
           IN  /\ \A i \in DOMAIN w : w[i] = i
               /\ {line[k] : k \in shown} = Len(w) + 1 .. n
               /\ \A k, l \in shown : k < l => line[k] < line[l]
<1> DEFINE line == <<h>> \o q \o <<p>>
           z == Len(q)
           L == Len(w)
           shown == {k \in DOMAIN line : line[k] > Done}
<1>1. /\ h \in Item /\ p \in Item /\ n \in Nat /\ z \in Nat /\ L \in Nat /\ DOMAIN w = 1 .. L
      /\ \A k \in 1 .. z : q[k] \in Nat
  BY LenProperties DEF Track
<1>2. /\ DOMAIN line = 1 .. z + 2 /\ line[1] = h /\ line[z + 2] = p
      /\ \A k \in 2 .. z + 1 : line[k] = q[k - 1]
  <2>1. q \in Seq(Item)
    <3>1. q \in Seq(Nat) /\ Nat \subseteq Item
      BY DEF Track, Item
    <3> QED BY <3>1, SeqMonotonic
  <2>2. <<h>> \in Seq(Item) /\ <<p>> \in Seq(Item)
    BY <1>1
  <2>3. Len(<<h>>) = 1 /\ Len(<<p>>) = 1 /\ <<h>>[1] = h /\ <<p>>[1] = p
    OBVIOUS
  <2> DEFINE most == <<h>> \o q
  <2>4. /\ most \in Seq(Item) /\ Len(most) = 1 + z
        /\ \A k \in 1 .. 1 + z : most[k] = IF k <= 1 THEN <<h>>[k] ELSE q[k - 1]
    BY <2>1, <2>2, <2>3, ConcatProperties
  <2>5. /\ line \in Seq(Item) /\ Len(line) = 1 + z + 1
        /\ \A k \in 1 .. 1 + z + 1 : line[k] = IF k <= 1 + z THEN most[k] ELSE <<p>>[k - (1 + z)]
    <3> HIDE DEF most
    <3>1. line = most \o <<p>>
      BY DEF most
    <3>2. /\ most \o <<p>> \in Seq(Item) /\ Len(most \o <<p>>) = Len(most) + Len(<<p>>)
          /\ \A k \in 1 .. Len(most) + Len(<<p>>) :
                 (most \o <<p>>)[k] = IF k <= Len(most) THEN most[k] ELSE <<p>>[k - Len(most)]
      BY <2>2, <2>4, ConcatProperties
    <3> HIDE DEF line
    <3> QED BY <2>3, <2>4, <3>1, <3>2
  <2>6. DOMAIN line = 1 .. z + 2
    BY <1>1, <2>5, LenProperties
  <2> HIDE DEF most, line, z
  <2>7. line[1] = h
    BY <1>1, <2>3, <2>4, <2>5
  <2>8. line[z + 2] = p
    BY <1>1, <2>3, <2>4, <2>5
  <2>9. \A k \in 2 .. z + 1 : line[k] = q[k - 1]
    BY <1>1, <2>3, <2>4, <2>5
  <2> QED BY <2>6, <2>7, <2>8, <2>9
<1>3. Ordered(h, q, z, p, L, n) /\ \A i \in 1 .. L : w[i] = i
  BY DEF Carries
<1> HIDE DEF line, z, L
<1>4. {line[k] : k \in shown} = L + 1 .. n
  <2>1. ASSUME NEW k \in shown PROVE line[k] \in L + 1 .. n
    <3>1. CASE k = 1
      BY <1>1, <1>2, <1>3, <2>1, <3>1 DEF Ordered, Item, Done, Empty
    <3>2. CASE k = z + 2
      BY <1>1, <1>2, <1>3, <2>1, <3>2 DEF Ordered, Item, Done, Empty
    <3>3. CASE k \in 2 .. z + 1
      <4>1. k - 1 \in 1 .. z /\ line[k] = q[k - 1] /\ line[k] > 0
        BY <1>1, <1>2, <2>1, <3>3 DEF Done
      <4> QED BY <1>1, <1>3, <4>1 DEF Ordered, Item, Done, Empty
    <3> QED BY <1>1, <1>2, <2>1, <3>1, <3>2, <3>3
  <2>2. ASSUME NEW m \in L + 1 .. n PROVE \E k \in shown : line[k] = m
    <3>1. CASE h > 0 /\ m = h
      <4>1. 1 \in 1 .. z + 2
        BY <1>1
      <4>2. 1 \in shown /\ line[1] = m
        BY <1>2, <3>1, <4>1 DEF Done
      <4> QED BY <4>2
    <3>2. CASE p > 0 /\ m = p
      <4>1. z + 2 \in 1 .. z + 2
        BY <1>1
      <4>2. z + 2 \in shown /\ line[z + 2] = m
        BY <1>2, <3>2, <4>1 DEF Done
      <4> QED BY <4>2
    <3>3. CASE ~ (h > 0 /\ m = h) /\ ~ (p > 0 /\ m = p)
      <4>1. PICK k \in 1 .. z : q[k] = m
        BY <1>1, <1>3, <2>2, <3>3 DEF Ordered, Item, Empty
      <4>2. k + 1 \in 2 .. z + 1 /\ k + 1 \in DOMAIN line /\ line[k + 1] = q[k]
        BY <1>1, <1>2
      <4> QED BY <1>1, <2>2, <4>1, <4>2 DEF Done
    <3> QED BY <3>1, <3>2, <3>3
  <2> QED BY <2>1, <2>2
<1>5. ASSUME NEW k \in shown, NEW l \in shown, k < l PROVE line[k] < line[l]
  <2>0. k \in 1 .. z + 2 /\ l \in 1 .. z + 2 /\ line[k] > 0 /\ line[l] > 0
    BY <1>2 DEF Done
  <2>1. CASE k = 1 /\ l = z + 2
    BY <1>1, <1>2, <1>3, <2>0, <2>1 DEF Ordered, Item, Empty
  <2>2. CASE k = 1 /\ l \in 2 .. z + 1
    <3>1. l - 1 \in 1 .. z /\ line[l] = q[l - 1]
      BY <1>1, <1>2, <2>2
    <3> QED BY <1>1, <1>2, <1>3, <2>0, <2>2, <3>1 DEF Ordered, Item, Empty
  <2>3. CASE k \in 2 .. z + 1 /\ l = z + 2
    <3>1. k - 1 \in 1 .. z /\ line[k] = q[k - 1]
      BY <1>1, <1>2, <2>3
    <3> QED BY <1>1, <1>2, <1>3, <2>0, <2>3, <3>1 DEF Ordered, Item, Empty
  <2>4. CASE k \in 2 .. z + 1 /\ l \in 2 .. z + 1
    <3>1. k - 1 \in 1 .. z /\ l - 1 \in 1 .. z /\ k - 1 < l - 1
      BY <1>1, <1>5, <2>4
    <3>2. line[k] = q[k - 1] /\ line[l] = q[l - 1]
      BY <1>2, <2>4
    <3> QED BY <1>1, <1>3, <2>0, <3>1, <3>2 DEF Ordered
  <2> QED BY <1>1, <1>5, <2>0, <2>1, <2>2, <2>3, <2>4
<1> QED BY <1>1, <1>3, <1>4, <1>5 DEF line, L

\* Every track carries what its source produced, until someone stops it; a feed that
\* pulls has nothing in the putter.
Moves(t) == <<feed[t], held[t], queue[t], putter[t], written[t], produced[t]>>
Shaped ==
    /\ stop \in BOOLEAN
    /\ DOMAIN feed = TrackSet /\ DOMAIN held = TrackSet /\ DOMAIN queue = TrackSet
    /\ DOMAIN putter = TrackSet /\ DOMAIN written = TrackSet /\ DOMAIN produced = TrackSet

Flows(t) ==
    /\ Track(held[t], queue[t], putter[t], written[t], produced[t])
    /\ feed[t] = "pulling" => putter[t] = Empty
    /\ ~stop => Carries(held[t], queue[t], putter[t], written[t], produced[t])

Paced == Shaped /\ \A t \in TrackSet : Flows(t)

LEMMA PublishStep == Paced /\ [Next]_publishVars => Paced'
<1> SUFFICES ASSUME Paced, [Next]_publishVars PROVE Paced'
  OBVIOUS
<1>0. Shaped /\ \A t \in TrackSet : Flows(t)
  BY DEF Paced
<1>a. stop \in BOOLEAN /\ DOMAIN feed = TrackSet /\ DOMAIN held = TrackSet /\ DOMAIN queue = TrackSet
      /\ DOMAIN putter = TrackSet /\ DOMAIN written = TrackSet /\ DOMAIN produced = TrackSet
  BY <1>0 DEF Shaped
<1>b. \A t \in TrackSet :
          /\ Track(held[t], queue[t], putter[t], written[t], produced[t])
          /\ feed[t] = "pulling" => putter[t] = Empty
          /\ ~stop => Carries(held[t], queue[t], putter[t], written[t], produced[t])
  BY <1>0 DEF Flows
\* A step of one track.
<1>1. ASSUME NEW t \in TrackSet, TrackSet' = TrackSet, Shaped', stop => stop',
             \A u \in TrackSet : u # t => Moves(u)' = Moves(u), Flows(t)'
      PROVE  Paced'
  <2>1. ASSUME NEW u \in TrackSet, u # t PROVE Flows(u)'
    BY <1>b, <1>1, <2>1 DEF Flows, Moves
  <2> QED BY <1>1, <2>1 DEF Paced
\* A step of no track.
<1>2. ASSUME TrackSet' = TrackSet, Shaped', stop => stop', \A u \in TrackSet : Moves(u)' = Moves(u)
      PROVE  Paced'
  <2>1. ASSUME NEW u \in TrackSet PROVE Flows(u)'
    BY <1>b, <1>2, <2>1 DEF Flows, Moves
  <2> QED BY <1>2, <2>1 DEF Paced
<1>3. ASSUME UNCHANGED tracks PROVE TrackSet' = TrackSet
  BY <1>3 DEF TrackSet
<1> DEFINE Rest(t) == \A u \in TrackSet : u # t => Moves(u)' = Moves(u)
<1>c. ASSUME NEW t \in TrackSet
      PROVE  Unblock(t) \in {queue[t], Append(queue[t], Done)}
  BY DEF Unblock
<1>d. ASSUME NEW t \in TrackSet, NEW q \in {queue[t], Append(queue[t], Done)}
      PROVE  /\ Track(held[t], q, putter[t], written[t], produced[t])
             /\ ~stop => Carries(held[t], q, putter[t], written[t], produced[t])
  BY <1>b, <1>d, CarriesPut
<1>4. ASSUME NEW t \in TrackSet, UNCHANGED tracks, SourceFrame(t) PROVE Paced'
  <2>1. CASE stop
    <3>1. /\ feed' = [feed EXCEPT ![t] = "over"] /\ queue' = [queue EXCEPT ![t] = Unblock(t)]
          /\ UNCHANGED <<produced, putter, held, written, stop>>
      BY <1>4, <2>1 DEF SourceFrame, FeedTo
    <3>2. Shaped' /\ Rest(t) /\ queue'[t] = Unblock(t) /\ feed'[t] = "over"
      BY <1>a, <1>3, <1>4, <3>1 DEF Shaped, Moves
    <3>3. Flows(t)'
      BY <1>c, <1>d, <2>1, <3>1, <3>2 DEF Flows
    <3> QED BY <1>1, <1>3, <1>4, <3>1, <3>2, <3>3
  <2>2. CASE ~stop
    <3>1. /\ feed' = [feed EXCEPT ![t] = "putting"] /\ produced' = [produced EXCEPT ![t] = @ + 1]
          /\ putter' = [putter EXCEPT ![t] = produced[t] + 1] /\ feed[t] = "pulling"
          /\ UNCHANGED <<queue, held, written, stop>>
      BY <1>4, <2>2 DEF SourceFrame, FeedTo
    <3>2. Shaped' /\ Rest(t) /\ produced'[t] = produced[t] + 1 /\ putter'[t] = produced[t] + 1
          /\ feed'[t] = "putting"
      BY <1>a, <1>3, <1>4, <3>1 DEF Shaped, Moves
    <3>3. /\ Track(held[t], queue[t], produced[t] + 1, written[t], produced[t] + 1)
          /\ Carries(held[t], queue[t], produced[t] + 1, written[t], produced[t] + 1)
      <4>1. produced[t] \in Nat /\ produced[t] + 1 \in Nat /\ putter[t] = Empty
        BY <1>b, <3>1 DEF Track
      <4>2. Carries(held[t], queue[t], produced[t] + 1, written[t], produced[t] + 1)
        BY <1>b, <2>2, <4>1, CarriesPut
      <4> QED BY <1>b, <4>1, <4>2 DEF Track, Item
    <3>4. Flows(t)'
      BY <3>1, <3>2, <3>3 DEF Flows
    <3> QED BY <1>1, <1>3, <1>4, <3>1, <3>2, <3>4
  <2> QED BY <2>1, <2>2
<1>5. ASSUME NEW t \in TrackSet, UNCHANGED tracks, SourceEnds(t) PROVE Paced'
  <2>1. CASE stop
    <3>1. /\ feed' = [feed EXCEPT ![t] = "over"] /\ queue' = [queue EXCEPT ![t] = Unblock(t)]
          /\ UNCHANGED <<produced, putter, held, written, stop>>
      BY <1>5, <2>1 DEF SourceEnds, FeedTo
    <3>2. Shaped' /\ Rest(t) /\ queue'[t] = Unblock(t) /\ feed'[t] = "over"
      BY <1>a, <1>3, <1>5, <3>1 DEF Shaped, Moves
    <3>3. Flows(t)'
      BY <1>c, <1>d, <2>1, <3>1, <3>2 DEF Flows
    <3> QED BY <1>1, <1>3, <1>5, <3>1, <3>2, <3>3
  <2>2. CASE ~stop
    <3>1. /\ feed' = [feed EXCEPT ![t] = "closing"] /\ putter' = [putter EXCEPT ![t] = Done]
          /\ feed[t] = "pulling" /\ UNCHANGED <<produced, queue, held, written, stop>>
      BY <1>5, <2>2 DEF SourceEnds, FeedTo
    <3>2. Shaped' /\ Rest(t) /\ putter'[t] = Done /\ feed'[t] = "closing"
      BY <1>a, <1>3, <1>5, <3>1 DEF Shaped, Moves
    <3>3. /\ Track(held[t], queue[t], Done, written[t], produced[t])
          /\ Carries(held[t], queue[t], Done, written[t], produced[t])
      BY <1>b, <2>2, <3>1, CarriesPut DEF Track, Item, Done
    <3>4. Flows(t)'
      BY <3>1, <3>2, <3>3 DEF Flows
    <3> QED BY <1>1, <1>3, <1>5, <3>1, <3>2, <3>4
  <2> QED BY <2>1, <2>2
<1>6. ASSUME NEW t \in TrackSet, UNCHANGED tracks, SourceRaises(t) PROVE Paced'
  <2>1. /\ feed' = [feed EXCEPT ![t] = "failed"] /\ queue' = [queue EXCEPT ![t] = Unblock(t)]
        /\ stop' = (stop \/ StopFirst) /\ UNCHANGED <<produced, putter, held, written>>
    BY <1>6 DEF SourceRaises, FeedTo
  <2>2. Shaped' /\ Rest(t) /\ queue'[t] = Unblock(t) /\ feed'[t] = "failed"
    BY <1>a, <1>3, <1>6, <2>1 DEF Shaped, Moves
  <2>3. Flows(t)'
    BY <1>c, <1>d, <2>1, <2>2 DEF Flows
  <2> QED BY <1>1, <1>3, <1>6, <2>1, <2>2, <2>3
<1>7. ASSUME NEW t \in TrackSet, UNCHANGED tracks, FeedResumes(t) PROVE Paced'
  <2>1. /\ \E s : feed' = [feed EXCEPT ![t] = s] 
        /\ putter[t] = Empty /\ UNCHANGED <<produced, putter, queue, held, written, stop>>
    BY <1>7 DEF FeedResumes, FeedTo
  <2>2. Shaped' /\ Rest(t)
    BY <1>a, <1>3, <1>7, <2>1 DEF Shaped, Moves
  <2>3. Flows(t)'
    BY <1>b, <2>1 DEF Flows
  <2> QED BY <1>1, <1>3, <1>7, <2>1, <2>2, <2>3
<1>8. ASSUME NEW t \in TrackSet, UNCHANGED tracks, PutItem(t) PROVE Paced'
  <2>1. /\ putter[t] # Empty /\ queue' = [queue EXCEPT ![t] = Append(@, putter[t])]
        /\ putter' = [putter EXCEPT ![t] = Empty]
        /\ UNCHANGED <<feed, produced, held, written, stop>>
    BY <1>8 DEF PutItem
  <2>2. Shaped' /\ Rest(t) /\ queue'[t] = Append(queue[t], putter[t]) /\ putter'[t] = Empty
    BY <1>a, <1>3, <1>8, <2>1 DEF Shaped, Moves
  <2>3. /\ Track(held[t], Append(queue[t], putter[t]), Empty, written[t], produced[t])
        /\ ~stop => Carries(held[t], Append(queue[t], putter[t]), Empty, written[t], produced[t])
    BY <1>b, <2>1, CarriesPut
  <2>4. Flows(t)'
    BY <2>1, <2>2, <2>3 DEF Flows
  <2> QED BY <1>1, <1>3, <1>8, <2>1, <2>2, <2>4
<1>9. ASSUME NEW t \in TrackSet, UNCHANGED tracks, PutGivesUp(t) PROVE Paced'
  <2>1. /\ stop /\ putter' = [putter EXCEPT ![t] = Empty]
        /\ UNCHANGED <<feed, produced, queue, held, written, stop>>
    BY <1>9 DEF PutGivesUp
  <2>2. Shaped' /\ Rest(t) /\ putter'[t] = Empty
    BY <1>a, <1>3, <1>9, <2>1 DEF Shaped, Moves
  <2>3. Flows(t)'
    BY <1>b, <2>1, <2>2 DEF Flows, Track, Item
  <2> QED BY <1>1, <1>3, <1>9, <2>1, <2>2, <2>3
<1>10. ASSUME UNCHANGED tracks, Pulls PROVE Paced'
  <2>1. PICK k \in DOMAIN tracks :
            /\ Asks(k) /\ queue[tracks[k]] # <<>>
            /\ held' = [held EXCEPT ![tracks[k]] = Head(queue[tracks[k]])]
            /\ queue' = [queue EXCEPT ![tracks[k]] = Tail(@)]
    BY <1>10 DEF Pulls
  <2>2. PICK t \in TrackSet :
            /\ held[t] = Empty /\ queue[t] # <<>>
            /\ held' = [held EXCEPT ![t] = Head(queue[t])] /\ queue' = [queue EXCEPT ![t] = Tail(@)]
            /\ UNCHANGED <<feed, produced, putter, written, stop>>
    BY <1>10, <2>1 DEF Asks, Wanted, Pulls
  <2>3. Shaped' /\ Rest(t) /\ held'[t] = Head(queue[t]) /\ queue'[t] = Tail(queue[t])
    BY <1>a, <1>3, <1>10, <2>2 DEF Shaped, Moves
  <2>4. /\ Track(Head(queue[t]), Tail(queue[t]), putter[t], written[t], produced[t])
        /\ ~stop => Carries(Head(queue[t]), Tail(queue[t]), putter[t], written[t], produced[t])
    BY <1>b, <2>2, CarriesPulled
  <2>5. Flows(t)'
    BY <1>b, <2>2, <2>3, <2>4 DEF Flows
  <2> QED BY <1>1, <1>3, <1>10, <2>2, <2>3, <2>5
<1>11. ASSUME NEW t \in TrackSet, UNCHANGED tracks, Encodes(t) PROVE Paced'
  <2>1. /\ held[t] # Done /\ held[t] # Empty
        /\ written' = [written EXCEPT ![t] = Append(@, held[t])] /\ held' = [held EXCEPT ![t] = Empty]
        /\ UNCHANGED <<feed, produced, putter, queue, stop>>
    BY <1>11 DEF Encodes, Wanted
  <2>2. Shaped' /\ Rest(t) /\ written'[t] = Append(written[t], held[t]) /\ held'[t] = Empty
    BY <1>a, <1>3, <1>11, <2>1 DEF Shaped, Moves
  <2>3. /\ Track(Empty, queue[t], putter[t], Append(written[t], held[t]), produced[t])
        /\ ~stop => Carries(Empty, queue[t], putter[t], Append(written[t], held[t]), produced[t])
    BY <1>b, <2>1, CarriesWritten
  <2>4. Flows(t)'
    BY <1>b, <2>1, <2>2, <2>3 DEF Flows
  <2> QED BY <1>1, <1>3, <1>11, <2>1, <2>2, <2>4
<1>12. ASSUME UNCHANGED tracks, Cancel PROVE Paced'
  <2>1. /\ feed' = [t \in TrackSet |-> IF feed[t] = "over" THEN "over" ELSE "failed"]
        /\ queue' = [t \in TrackSet |-> IF feed[t] \in {"over", "failed"} THEN queue[t] ELSE Unblock(t)]
        /\ UNCHANGED <<produced, putter, held, written>> /\ (stop' = TRUE \/ stop' = stop)
    BY <1>12 DEF Cancel
  <2>2. Shaped'
    BY <1>a, <1>3, <1>12, <2>1 DEF Shaped
  <2>3. ASSUME NEW t \in TrackSet PROVE Flows(t)'
    <3>1. feed'[t] # "pulling" /\ queue'[t] \in {queue[t], Append(queue[t], Done)}
      BY <1>c, <2>1
    <3> QED BY <1>a, <1>d, <2>1, <3>1 DEF Flows
  <2> QED BY <1>3, <1>12, <2>2, <2>3 DEF Paced
<1>13. ASSUME UNCHANGED tracks, Opens \/ Finishes \/ WriterFails \/ Return \/ CancelJoin \/ UNCHANGED publishVars
       PROVE  Paced'
  <2>1. UNCHANGED <<tracks, feed, produced, putter, queue, held, written>>
    BY <1>13 DEF Opens, Finishes, WriterFails, Return, Fed, FeedFailed, Join, CancelJoin, publishVars, vars
  <2>2. stop' = stop \/ stop' = TRUE
    BY <1>13 DEF Opens, Finishes, WriterFails, Return, Fed, FeedFailed, Join, CancelJoin, publishVars, vars
  <2>3. TrackSet' = TrackSet
    BY <1>3, <2>1
  <2>4. Shaped' /\ \A u \in TrackSet : Moves(u)' = Moves(u)
    BY <1>a, <2>1, <2>2, <2>3 DEF Shaped, Moves
  <2> QED BY <1>2, <2>2, <2>3, <2>4
<1> QED BY <1>4, <1>5, <1>6, <1>7, <1>8, <1>9, <1>10, <1>11, <1>12, <1>13
        DEF Next, Source, Bridge, Write, publishVars

LEMMA PublishShows == Paced => NothingLost
<1> SUFFICES ASSUME Paced, ~stop, NEW t \in TrackSet
             PROVE  /\ \A i \in DOMAIN written[t] : written[t][i] = i
                    /\ {Line(t)[k] : k \in InFlight(t)} = Len(written[t]) + 1 .. produced[t]
                    /\ \A k, l \in InFlight(t) : k < l => Line(t)[k] < Line(t)[l]
  BY DEF NothingLost
<1>1. Track(held[t], queue[t], putter[t], written[t], produced[t])
      /\ Carries(held[t], queue[t], putter[t], written[t], produced[t])
  BY DEF Paced, Flows
<1> QED BY <1>1, CarriesAll DEF Line, InFlight

LEMMA PublishInit == Init \/ PublishAtRest => Paced
<1>1. \A x : <<>> \in Seq(x)
  BY EmptySeq
<1>2. Len(<<>>) = 0
  BY EmptySeq
<1>3. ASSUME Init PROVE Paced
  <2>1. Ordered(Empty, <<>>, 0, Empty, 0, 0)
    BY DEF Ordered, Empty
  <2>2. Carries(Empty, <<>>, Empty, <<>>, 0) /\ Track(Empty, <<>>, Empty, <<>>, 0)
    BY <1>1, <1>2, <2>1 DEF Carries, Track, Item
  <2> QED BY <1>3, <2>2 DEF Init, Paced, Shaped, Flows
<1>4. ASSUME PublishAtRest PROVE Paced
  <2>1. Track(Done, <<>>, Empty, <<>>, 0)
    BY <1>1 DEF Track, Item, Done
  <2> QED BY <1>4, <2>1 DEF PublishAtRest, Paced, Shaped, Flows
<1> QED BY <1>3, <1>4

------------------------------------------------------------------------------
(* Frames on their way to a consumer.                                      *)

\* Where an item goes: posted, put in the queue, taken from it, or dropped.
LEMMA HeadMoves ==
    ASSUME NEW S, NEW q \in Seq(S), NEW p \in Seq(S), q # <<>>
    PROVE  Tail(q) \o p = Tail(q \o p) /\ Head(q) = (q \o p)[1] /\ q \o p # <<>>
<1>1. Len(q) \in Nat /\ Len(p) \in Nat /\ Len(q \o p) = Len(q) + Len(p) /\ q \o p \in Seq(S)
      /\ \A k \in 1 .. Len(q) + Len(p) : (q \o p)[k] = IF k <= Len(q) THEN q[k] ELSE p[k - Len(q)]
  BY LenProperties, ConcatProperties
<1>2. Tail(q) \in Seq(S) /\ Len(Tail(q)) = Len(q) - 1 /\ Len(q) >= 1
      /\ \A i \in 1 .. Len(q) - 1 : Tail(q)[i] = q[i + 1]
  BY <1>1, HeadTailProperties, EmptySeq
<1>3. q \o p # <<>> /\ Head(q) = q[1] /\ (q \o p)[1] = q[1]
  BY <1>1, <1>2, EmptySeq
<1>4. /\ Tail(q) \o p \in Seq(S) /\ Len(Tail(q) \o p) = Len(q) + Len(p) - 1
      /\ \A k \in 1 .. Len(q) + Len(p) - 1 :
             (Tail(q) \o p)[k] = IF k <= Len(q) - 1 THEN Tail(q)[k] ELSE p[k - (Len(q) - 1)]
  BY <1>1, <1>2, ConcatProperties
<1>5. /\ Tail(q \o p) \in Seq(S) /\ Len(Tail(q \o p)) = Len(q) + Len(p) - 1
      /\ \A k \in 1 .. Len(q) + Len(p) - 1 : Tail(q \o p)[k] = (q \o p)[k + 1]
  BY <1>1, <1>3, HeadTailProperties
<1>6. \A k \in 1 .. Len(q) + Len(p) - 1 : (Tail(q) \o p)[k] = Tail(q \o p)[k]
  BY <1>1, <1>2, <1>4, <1>5
<1>7. Tail(q) \o p = Tail(q \o p)
  BY <1>4, <1>5, <1>6, SeqEqual
<1> QED BY <1>3, <1>7

LEMMA LineMoves ==
    ASSUME NEW S, NEW q \in Seq(S), NEW p \in Seq(S)
    PROVE  /\ Len(q) \in Nat /\ Len(p) \in Nat /\ Len(q \o p) = Len(q) + Len(p)
           /\ \A x \in S : q \o Append(p, x) = Append(q \o p, x)
           /\ p # <<>> =>
                /\ Append(q, Head(p)) \o Tail(p) = q \o p
                /\ Len(q \o Tail(p)) = Len(q \o p) - 1
                /\ \A k \in 1 .. Len(q \o Tail(p)) :
                       (q \o Tail(p))[k] = IF k <= Len(q) THEN (q \o p)[k] ELSE (q \o p)[k + 1]
<1>0. q \in Seq(S) /\ p \in Seq(S)
  OBVIOUS
<1>1. Len(q) \in Nat /\ Len(p) \in Nat /\ Len(q \o p) = Len(q) + Len(p) /\ q \o p \in Seq(S)
      /\ \A k \in 1 .. Len(q) + Len(p) : (q \o p)[k] = IF k <= Len(q) THEN q[k] ELSE p[k - Len(q)]
  BY LenProperties, ConcatProperties
<1>2. ASSUME NEW x \in S PROVE q \o Append(p, x) = Append(q \o p, x)
  <2>1. <<x>> \in Seq(S)
    OBVIOUS
  <2>2. Append(p, x) = p \o <<x>> /\ Append(q \o p, x) = (q \o p) \o <<x>>
    BY <1>1, AppendIsConcat
  <2>3. q \o (p \o <<x>>) = (q \o p) \o <<x>>
    BY <2>1, ConcatAssociative
  <2> QED BY <2>2, <2>3
<1>3. ASSUME p # <<>> PROVE Append(q, Head(p)) \o Tail(p) = q \o p
  <2>1. Head(p) \in S /\ Tail(p) \in Seq(S)
    BY <1>3, HeadTailProperties
  <2>2. <<Head(p)>> \in Seq(S)
    BY <2>1
  <2>3. p = <<Head(p)>> \o Tail(p)
    BY <1>3, HeadTailProperties
  <2>4. Append(q, Head(p)) = q \o <<Head(p)>>
    BY <2>1, AppendIsConcat
  <2>5. q \o (<<Head(p)>> \o Tail(p)) = (q \o <<Head(p)>>) \o Tail(p)
    <3> DEFINE hd == <<Head(p)>>
               tl == Tail(p)
    <3>1. hd \in Seq(S)
      BY <2>2
    <3>2. tl \in Seq(S)
      BY <2>1
    <3> HIDE DEF hd, tl
    <3>3. q \o (hd \o tl) = (q \o hd) \o tl
      BY ONLY SMTT(30), <1>0, <3>1, <3>2, ConcatAssociative
    <3> QED BY <3>3 DEF hd, tl
  <2> QED BY <2>3, <2>4, <2>5
<1>4. ASSUME p # <<>>
      PROVE  /\ Len(q \o Tail(p)) = Len(q \o p) - 1
             /\ \A k \in 1 .. Len(q \o Tail(p)) :
                    (q \o Tail(p))[k] = IF k <= Len(q) THEN (q \o p)[k] ELSE (q \o p)[k + 1]
  <2>1. Tail(p) \in Seq(S) /\ Len(Tail(p)) = Len(p) - 1 /\ \A i \in 1 .. Len(p) - 1 : Tail(p)[i] = p[i + 1]
    BY <1>4, HeadTailProperties
  <2>2. /\ Len(q \o Tail(p)) = Len(q) + Len(p) - 1
        /\ \A k \in 1 .. Len(q) + Len(p) - 1 :
               (q \o Tail(p))[k] = IF k <= Len(q) THEN q[k] ELSE Tail(p)[k - Len(q)]
    BY <1>1, <2>1, ConcatProperties
  <2>3. ASSUME NEW k \in 1 .. Len(q) + Len(p) - 1
        PROVE  (q \o Tail(p))[k] = IF k <= Len(q) THEN (q \o p)[k] ELSE (q \o p)[k + 1]
    BY <1>1, <2>1, <2>2
  <2> QED BY <1>1, <2>2, <2>3
<1> QED BY <1>1, <1>2, <1>3, <1>4

\* What a consumer has (G) or will get from the f frames the line T begins with.
Reaches(m, T, f, G) == m \in G \/ \E j \in 1 .. f : T[j][2] = m

\* A line of z items, frames first: each frame comes after those before it, with as many
\* frames as permits are out, and the thread (in phase ph, at frame x, its source next at
\* nx) has handed over what it read.  An end comes after the last frame or an error.
LineOf(T, z, fr, G, ph, last, x, nx, f) ==
    LET all == \A m \in 1 .. N : Reaches(m, T, f, G) IN
    /\ f \in 0 .. z /\ f + fr = MaxQueue
    /\ \A k \in 1 .. f : T[k][1] = "frame" /\ T[k][2] \in 1 .. N
    /\ \A k \in f + 1 .. z : T[k][1] # "frame"
    /\ \A n \in G : n \in 1 .. N /\ \A m \in 1 .. n - 1 : m \in G
    /\ \A k \in 1 .. f : \A m \in 1 .. T[k][2] - 1 : Reaches(m, T, k - 1, G)
    /\ ph \in {"opening", "sleeping", "reading"} => f = z /\ \A m \in 1 .. last : Reaches(m, T, f, G)
    /\ ph = "reading" => \A m \in 1 .. nx - 1 : Reaches(m, T, f, G)
    /\ ph = "emitting" =>
          /\ f = z /\ x \in 1 .. N /\ nx = x + 1 /\ last = x
          /\ \A m \in 1 .. x - 1 : Reaches(m, T, f, G)
    /\ ph = "done" => (f = z /\ all) \/ (f + 1 = z /\ T[z][1] # "end")
    /\ ph = "over" => f < z /\ (all \/ T[f + 1][1] # "end")
    /\ ph \in {"opening", "sleeping", "reading", "emitting", "done", "over"}

LEMMA PumpFacts == N \in Nat /\ MaxQueue \in Nat \ {0}
  BY MediaAssumption DEF Pump!PumpAssumption

\* The thread reads, or is over the reads, and nothing is posted.
LEMMA LineRead ==
    ASSUME NEW T, NEW z \in Nat, NEW fr \in Nat, NEW G, NEW f,
           NEW ph, NEW last \in Nat, NEW x, NEW nx \in Nat \ {0},
           LineOf(T, z, fr, G, ph, last, x, nx, f)
    PROVE  /\ \A y \in 1 .. last \cup {1} : ph = "opening" => LineOf(T, z, fr, G, "reading", last, x, y, f)
           /\ ph = "reading" /\ nx <= N => LineOf(T, z, fr, G, "emitting", nx, nx, nx + 1, f)
           /\ ph = "reading" /\ nx > N => LineOf(T, z, fr, G, "done", last, x, nx, f)
           /\ ph = "reading" => LineOf(T, z, fr, G, "sleeping", last, x, nx, f)
           /\ ph = "sleeping" => LineOf(T, z, fr, G, "opening", last, x, nx, f)
BY PumpFacts DEF LineOf

\* The thread posts a frame, an error or the end.
LEMMA LinePosted ==
    ASSUME NEW T, NEW z \in Nat, NEW fr \in Nat, NEW G, NEW f,
           NEW ph, NEW last \in Nat, NEW x, NEW nx \in Nat \ {0},
           LineOf(T, z, fr, G, ph, last, x, nx, f), NEW U, \A k \in 1 .. z : U[k] = T[k]
    PROVE  /\ ph = "emitting" /\ fr > 0 /\ U[z + 1][1] = "frame" /\ U[z + 1][2] = x =>
                  \A y : LineOf(U, z + 1, fr - 1, G, "reading", last, y, nx, f + 1)
           /\ ph = "reading" /\ U[z + 1][1] \notin {"frame", "end"} =>
                  LineOf(U, z + 1, fr, G, "done", last, x, nx, f)
           /\ ph = "done" /\ U[z + 1][1] = "end" => LineOf(U, z + 1, fr, G, "over", last, x, nx, f)
<1>0. f \in 0 .. z /\ f + fr = MaxQueue /\ f \in Nat
  BY DEF LineOf
<1>1. \A g \in 0 .. f : \A m : Reaches(m, T, g, G) <=> Reaches(m, U, g, G)
  BY <1>0 DEF Reaches
<1>2. ASSUME ph = "emitting", fr > 0, U[z + 1][1] = "frame", U[z + 1][2] = x, NEW y
      PROVE  LineOf(U, z + 1, fr - 1, G, "reading", last, y, nx, f + 1)
  <2>1. f = z /\ x \in 1 .. N /\ nx = x + 1 /\ last = x /\ \A m \in 1 .. x - 1 : Reaches(m, T, f, G)
    BY <1>2 DEF LineOf
  <2>2. /\ \A m : Reaches(m, T, f, G) => Reaches(m, U, f + 1, G)
        /\ Reaches(x, U, f + 1, G)
    BY <1>0, <1>2, <2>1 DEF Reaches
  <2>3. \A k \in 1 .. f + 1 : U[k][1] = "frame" /\ U[k][2] \in 1 .. N
    BY <1>0, <1>2, <2>1 DEF LineOf
  <2>4. ASSUME NEW k \in 1 .. f + 1, NEW m \in 1 .. U[k][2] - 1 PROVE Reaches(m, U, k - 1, G)
    <3>1. CASE k \in 1 .. f
      <4>1. U[k] = T[k] /\ k - 1 \in 0 .. f /\ Reaches(m, T, k - 1, G)
        BY <1>0, <2>4, <3>1 DEF LineOf
      <4> QED BY <1>1, <4>1
    <3>2. CASE k = f + 1
      <4>1. k - 1 = f /\ f \in 0 .. f /\ Reaches(m, T, f, G)
        BY <1>0, <1>2, <2>1, <2>4, <3>2
      <4> QED BY <1>1, <4>1
    <3> QED BY <1>0, <3>1, <3>2
  <2>5. \A m \in 1 .. x : m \in 1 .. x - 1 \/ m = x
    BY <2>1, PumpFacts
  <2>6. /\ \A m \in 1 .. last : Reaches(m, U, f + 1, G)
        /\ \A m \in 1 .. nx - 1 : Reaches(m, U, f + 1, G)
    BY <2>1, <2>2, <2>5, PumpFacts
  <2>7. /\ f + 1 \in 0 .. z + 1 /\ f + 1 + (fr - 1) = MaxQueue /\ f + 1 = z + 1
        /\ \A k \in f + 1 + 1 .. z + 1 : FALSE
    BY <1>0, <2>1
  <2>8. \A n \in G : n \in 1 .. N /\ \A m \in 1 .. n - 1 : m \in G
    BY DEF LineOf
  <2> QED BY <2>3, <2>4, <2>6, <2>7, <2>8 DEF LineOf
<1>3. ASSUME NEW to,
             \/ ph = "reading" /\ to = "done" /\ U[z + 1][1] \notin {"frame", "end"}
             \/ ph = "done" /\ to = "over" /\ U[z + 1][1] = "end"
      PROVE  LineOf(U, z + 1, fr, G, to, last, x, nx, f)
  <2>1. /\ \A k \in 1 .. f : U[k][1] = "frame" /\ U[k][2] \in 1 .. N
        /\ f \in 0 .. z + 1
    BY <1>0 DEF LineOf
  <2>2. \A k \in f + 1 .. z + 1 : U[k][1] # "frame"
    <3>1. \A k \in f + 1 .. z : k \in 1 .. z /\ T[k][1] # "frame"
      BY <1>0 DEF LineOf
    <3>2. \A k \in f + 1 .. z + 1 : k \in f + 1 .. z \/ k = z + 1
      BY <1>0
    <3> QED BY <1>3, <3>1, <3>2
  <2>3. \A k \in 1 .. f : \A m \in 1 .. U[k][2] - 1 : Reaches(m, U, k - 1, G)
    <3>1. \A k \in 1 .. f : k - 1 \in 0 .. f /\ U[k] = T[k]
      BY <1>0
    <3>2. \A k \in 1 .. f : \A m \in 1 .. T[k][2] - 1 : Reaches(m, T, k - 1, G)
      BY DEF LineOf
    <3> QED BY <1>1, <3>1, <3>2
  <2>4. \A n \in G : n \in 1 .. N /\ \A m \in 1 .. n - 1 : m \in G
    BY DEF LineOf
  <2>5. CASE ph = "reading"
    <3>1. f = z /\ to = "done" /\ U[z + 1][1] # "end"
      BY <1>3, <2>5 DEF LineOf
    <3> QED BY <1>0, <2>1, <2>2, <2>3, <2>4, <3>1 DEF LineOf
  <2>6. CASE ph = "done"
    <3>1. to = "over" /\ U[z + 1][1] = "end"
      BY <1>3, <2>6
    <3>2. CASE f = z /\ \A m \in 1 .. N : Reaches(m, T, f, G)
      <4>1. f < z + 1 /\ \A m \in 1 .. N : Reaches(m, U, f, G)
        BY <1>0, <1>1, <3>2
      <4> QED BY <1>0, <2>1, <2>2, <2>3, <2>4, <3>1, <4>1 DEF LineOf
    <3>3. CASE f + 1 = z /\ T[z][1] # "end"
      <4>1. f < z + 1 /\ U[f + 1][1] # "end"
        BY <1>0, <3>3
      <4> QED BY <1>0, <2>1, <2>2, <2>3, <2>4, <3>1, <4>1 DEF LineOf
    <3> QED BY <2>6, <3>2, <3>3 DEF LineOf
  <2> QED BY <1>3, <2>5, <2>6
<1> QED BY <1>2, <1>3

\* The consumer takes a frame.
LEMMA LineTaken ==
    ASSUME NEW T, NEW z \in Nat, z > 0, NEW fr \in Nat, NEW G, NEW f,
           NEW ph, NEW last \in Nat, NEW x, NEW nx \in Nat \ {0},
           LineOf(T, z, fr, G, ph, last, x, nx, f), T[1][1] = "frame",
           NEW U, \A k \in 1 .. z - 1 : U[k] = T[k + 1]
    PROVE  LineOf(U, z - 1, fr + 1, G \cup {T[1][2]}, ph, last, x, nx, f - 1)
<1> DEFINE H == G \cup {T[1][2]}
<1>0. f \in 1 .. z /\ f - 1 \in 0 .. z - 1 /\ f - 1 + (fr + 1) = MaxQueue
  <2>1. f \in 0 .. z /\ f + fr = MaxQueue
    BY DEF LineOf
  <2>2. f # 0
    <3>1. f = 0 => 1 \in f + 1 .. z
      OBVIOUS
    <3> QED BY <3>1 DEF LineOf
  <2> QED BY <2>1, <2>2, PumpFacts
<1>1. ASSUME NEW g \in 1 .. f, NEW m PROVE Reaches(m, T, g, G) => Reaches(m, U, g - 1, H)
  <2>1. \A j \in 1 .. g : j = 1 \/ (j - 1 \in 1 .. g - 1 /\ U[j - 1] = T[j])
    BY <1>0
  <2> QED BY <2>1 DEF Reaches
<1>2. T[1][2] \in 1 .. N /\ \A m \in 1 .. T[1][2] - 1 : m \in G
  <2>1. 1 \in 1 .. f /\ 1 - 1 = 0 /\ \A j \in 1 .. 0 : FALSE
    BY <1>0
  <2> QED BY <2>1 DEF LineOf, Reaches
<1>3. \A n \in H : n \in 1 .. N /\ \A m \in 1 .. n - 1 : m \in H
  BY <1>2 DEF LineOf
<1>4. \A k \in 1 .. f - 1 : k + 1 \in 1 .. f /\ U[k] = T[k + 1] /\ k + 1 - 1 = k
  BY <1>0
<1>5. \A k \in 1 .. f - 1 : U[k][1] = "frame" /\ U[k][2] \in 1 .. N
  BY <1>4 DEF LineOf
<1>6. ASSUME NEW k \in 1 .. f - 1, NEW m \in 1 .. U[k][2] - 1 PROVE Reaches(m, U, k - 1, H)
  <2>1. k \in 1 .. f
    BY <1>0
  <2>2. Reaches(m, T, k, G)
    BY <1>4, <1>6 DEF LineOf
  <2> QED BY <1>1, <2>1, <2>2
<1>7. \A k \in f - 1 + 1 .. z - 1 : U[k][1] # "frame"
  <2>1. \A k \in f - 1 + 1 .. z - 1 : k + 1 \in f + 1 .. z /\ U[k] = T[k + 1]
    BY <1>0
  <2> QED BY <2>1 DEF LineOf
<1>8. \A m : Reaches(m, T, f, G) => Reaches(m, U, f - 1, H)
  <2>1. f \in 1 .. f
    BY <1>0
  <2> QED BY <1>1, <2>1
<1> HIDE DEF H
<1>9. ASSUME ph = "over" PROVE f - 1 < z - 1 /\ ((\A m \in 1 .. N : Reaches(m, U, f - 1, H)) \/ U[f - 1 + 1][1] # "end")
  <2>1. f < z /\ ((\A m \in 1 .. N : Reaches(m, T, f, G)) \/ T[f + 1][1] # "end")
    BY <1>9 DEF LineOf
  <2>2. U[f - 1 + 1] = T[f + 1]
    BY <1>0, <2>1
  <2> QED BY <1>0, <1>8, <2>1, <2>2
<1>10. ASSUME ph = "done"
       PROVE  \/ f - 1 = z - 1 /\ \A m \in 1 .. N : Reaches(m, U, f - 1, H)
              \/ f - 1 + 1 = z - 1 /\ U[z - 1][1] # "end"
  <2>1. (f = z /\ \A m \in 1 .. N : Reaches(m, T, f, G)) \/ (f + 1 = z /\ T[z][1] # "end")
    BY <1>10 DEF LineOf
  <2>2. f + 1 = z => U[z - 1] = T[z]
    BY <1>0
  <2> QED BY <1>0, <1>8, <2>1, <2>2
<1>11. ASSUME ph \in {"opening", "sleeping", "reading", "emitting"}
       PROVE  /\ f - 1 = z - 1
              /\ ph # "emitting" => \A m \in 1 .. last : Reaches(m, U, f - 1, H)
              /\ ph = "reading" => \A m \in 1 .. nx - 1 : Reaches(m, U, f - 1, H)
              /\ ph = "emitting" => /\ x \in 1 .. N /\ nx = x + 1 /\ last = x
                                    /\ \A m \in 1 .. x - 1 : Reaches(m, U, f - 1, H)
  <2>1. f = z
    BY <1>11 DEF LineOf
  <2> QED BY <1>8, <1>11, <2>1 DEF LineOf
<1>12. ph \in {"opening", "sleeping", "reading", "emitting", "done", "over"}
  BY DEF LineOf
<1>13. LineOf(U, z - 1, fr + 1, H, ph, last, x, nx, f - 1)
  BY <1>0, <1>3, <1>5, <1>6, <1>7, <1>9, <1>10, <1>11, <1>12 DEF LineOf
<1> QED BY <1>13 DEF H

\* The consumer takes something else: an end is the end of the source.
LEMMA LineTold ==
    ASSUME NEW T, NEW z \in Nat, z > 0, NEW fr \in Nat, NEW G, NEW f,
           NEW ph, NEW last \in Nat, NEW x, NEW nx \in Nat \ {0},
           LineOf(T, z, fr, G, ph, last, x, nx, f), T[1][1] = "end"
    PROVE  \A m \in 1 .. N : m \in G
<1>1. f = 0
  <2>1. f \in 0 .. z /\ (f # 0 => 1 \in 1 .. f)
    BY DEF LineOf
  <2>2. 1 \in 1 .. f => T[1][1] = "frame"
    BY DEF LineOf
  <2> QED BY <2>1, <2>2
<1>2. \A m \in 1 .. N : Reaches(m, T, f, G)
  BY <1>1 DEF LineOf
<1> QED BY <1>1, <1>2 DEF Reaches

\* An item that finds the queue full is no frame, and not the first that is none.
LEMMA LineDropped ==
    ASSUME NEW T, NEW z \in Nat, NEW fr \in Nat, NEW G, NEW f,
           NEW ph, NEW last \in Nat, NEW x, NEW nx \in Nat \ {0},
           LineOf(T, z, fr, G, ph, last, x, nx, f), NEW d \in 1 .. z, d > MaxQueue + 1,
           NEW U, \A k \in 1 .. z - 1 : U[k] = IF k < d THEN T[k] ELSE T[k + 1]
    PROVE  LineOf(U, z - 1, fr, G, ph, last, x, nx, f)
<1>0. f \in Nat /\ f + 1 < d /\ d <= z /\ f \in 0 .. z - 1 /\ f < z - 1 /\ f + fr = MaxQueue
  BY PumpFacts DEF LineOf
<1>1. \A k \in 1 .. f + 1 : U[k] = T[k]
  BY <1>0
<1>2. \A g \in 0 .. f : \A m : Reaches(m, T, g, G) => Reaches(m, U, g, G)
  <2>1. \A g \in 0 .. f : \A j \in 1 .. g : U[j] = T[j]
    BY <1>0, <1>1
  <2> QED BY <2>1 DEF Reaches
<1>3. \A k \in f + 1 .. z - 1 : U[k][1] # "frame"
  <2>1. \A k \in f + 1 .. z - 1 : k \in f + 1 .. z /\ k + 1 \in f + 1 .. z /\ U[k] \in {T[k], T[k + 1]}
    BY <1>0
  <2> QED BY <2>1 DEF LineOf
<1>4. \A k \in 1 .. f : /\ k \in 1 .. f + 1 /\ k - 1 \in 0 .. f /\ U[k] = T[k]
  BY <1>0, <1>1
<1>5. /\ \A k \in 1 .. f : U[k][1] = "frame" /\ U[k][2] \in 1 .. N
      /\ \A k \in 1 .. f : \A m \in 1 .. U[k][2] - 1 : Reaches(m, U, k - 1, G)
  BY <1>2, <1>4 DEF LineOf
<1>6. ph = "over"
  BY <1>0 DEF LineOf
<1>7. (\A m \in 1 .. N : Reaches(m, U, f, G)) \/ U[f + 1][1] # "end"
  BY <1>0, <1>1, <1>2, <1>6 DEF LineOf
<1>8. \A n \in G : n \in 1 .. N /\ \A m \in 1 .. n - 1 : m \in G
  BY DEF LineOf
<1> QED BY <1>0, <1>3, <1>5, <1>6, <1>7, <1>8 DEF LineOf

\* A source that can be paced: while its consumer reads, the queue and the callbacks
\* hold such a line; what the consumer got has no gap, and an end was the source's.
Items == {<<"frame", n>> : n \in 1 .. N} \cup {<<"end">>, <<"transport error">>, <<"media error">>}

Reading ==
    /\ frames \in Seq(Items) /\ posted \in Seq(Items) /\ consumer.got \in Seq(1 .. N)
    /\ free \in Nat /\ halt = FALSE /\ next \in Nat \ {0} /\ worker.last \in Nat
    /\ DOMAIN worker = {"phase", "attempt", "last", "progressed", "holds"}
    /\ DOMAIN consumer = {"phase", "got"}
    /\ \E f : LineOf(frames \o posted, Len(frames \o posted), free, Pump!Got,
                     worker.phase, worker.last, worker.holds, next, f)

Handed ==
    ~live =>
        /\ \A n \in Pump!Got : n \in 1 .. N /\ \A m \in 1 .. n - 1 : m \in Pump!Got
        /\ consumer.phase = "end" => \A m \in 1 .. N : m \in Pump!Got
        /\ consumer.phase = "reading" => Reading

LEMMA ItemFacts ==
    /\ \A item \in Items : Pump!IsFrame(item) <=> item[1] = "frame"
    /\ \A item \in Items : item[1] = "frame" => item[2] \in 1 .. N
    /\ \A item \in Items : item[1] \in {"frame", "end", "transport error", "media error"}
    /\ \A n \in 1 .. N : <<"frame", n>> \in Items /\ <<"frame", n>>[1] = "frame" /\ <<"frame", n>>[2] = n
    /\ \A e \in {<<"end">>, <<"transport error">>, <<"media error">>} : e \in Items
    /\ <<"end">>[1] = "end" /\ <<"transport error">>[1] = "transport error"
    /\ <<"media error">>[1] = "media error"
<1>1. ASSUME NEW n PROVE <<"frame", n>>[1] = "frame" /\ <<"frame", n>>[2] = n
  OBVIOUS
<1>2. /\ <<"end">>[1] = "end" /\ <<"transport error">>[1] = "transport error"
      /\ <<"media error">>[1] = "media error"
  OBVIOUS
<1>3. \A item \in Items : item \in {<<"end">>, <<"transport error">>, <<"media error">>}
                          \/ \E n \in 1 .. N : item = <<"frame", n>>
  BY DEF Items
<1>4. \A item \in Items : item[1] \in {"frame", "end", "transport error", "media error"}
  <2> SUFFICES ASSUME NEW item \in Items PROVE item[1] \in {"frame", "end", "transport error", "media error"}
    OBVIOUS
  <2>1. CASE item \in {<<"end">>, <<"transport error">>, <<"media error">>}
    BY <1>2, <2>1
  <2>2. CASE \E n \in 1 .. N : item = <<"frame", n>>
    BY <1>1, <2>2
  <2> QED BY <1>3, <2>1, <2>2
<1>5. \A item \in Items : item[1] = "frame" => item[2] \in 1 .. N
  BY <1>1, <1>2, <1>3
<1>6. \A item : Pump!IsFrame(item) <=> item[1] = "frame"
  BY DEF Pump!IsFrame
<1> QED BY <1>1, <1>2, <1>4, <1>5, <1>6 DEF Items

LEMMA ToSetAppend ==
    ASSUME NEW S, NEW got \in Seq(S), NEW n \in S
    PROVE  Pump!ToSet(Append(got, n)) = Pump!ToSet(got) \cup {n}
<1>1. /\ DOMAIN got = 1 .. Len(got) /\ Len(got) \in Nat /\ DOMAIN Append(got, n) = 1 .. Len(got) + 1
      /\ \A i \in 1 .. Len(got) : Append(got, n)[i] = got[i]
      /\ Append(got, n)[Len(got) + 1] = n
  BY LenProperties, AppendProperties
<1>2. 1 .. Len(got) + 1 = 1 .. Len(got) \cup {Len(got) + 1}
  BY <1>1
<1> QED BY <1>1, <1>2 DEF Pump!ToSet

LEMMA GotGrows ==
    \A got \in Seq(1 .. N) : \A n \in 1 .. N : Pump!ToSet(Append(got, n)) = Pump!ToSet(got) \cup {n}
<1> DEFINE S == 1 .. N
<1> SUFFICES ASSUME NEW got \in Seq(S), NEW n \in S PROVE Pump!ToSet(Append(got, n)) = Pump!ToSet(got) \cup {n}
  OBVIOUS
<1> HIDE DEF S
<1> QED BY ToSetAppend

LEMMA PumpStep == Handed /\ [Pump!Next]_pumpVars => Handed'
<1> SUFFICES ASSUME Handed, [Pump!Next]_pumpVars PROVE Handed'
  OBVIOUS
<1>1. UNCHANGED <<live, latest, seek>>
  BY DEF Pump!Next, Pump!Thread, Pump!Open, Pump!ReadFrame, Pump!EmitFrame, Pump!Fails, Pump!SleepEnds,
         Pump!SourceEnds, Pump!Halts, Pump!Done, Pump!Passes, Pump!Callback, Pump!Take, Pump!Leave,
         Pump!mode, pumpVars
\* Once the consumer has stopped, what it got stays.
<1>2. ASSUME ~live, consumer.phase # "reading" PROVE Handed'
  <2>1. consumer' = consumer
    BY <1>2 DEF Pump!Next, Pump!Thread, Pump!Open, Pump!ReadFrame, Pump!EmitFrame, Pump!Fails, Pump!SleepEnds,
         Pump!SourceEnds, Pump!Halts, Pump!Done, Pump!Passes, Pump!Callback, Pump!Take, Pump!Leave, pumpVars
  <2> QED BY <1>1, <1>2, <2>1 DEF Handed, Pump!Got
<1>3. ASSUME ~live, consumer.phase = "reading" PROVE Handed'
  <2> DEFINE T == frames \o posted
             z == Len(T)
             G == Pump!Got
  <2>a. /\ frames \in Seq(Items) /\ posted \in Seq(Items) /\ consumer.got \in Seq(1 .. N)
        /\ free \in Nat /\ halt = FALSE /\ next \in Nat \ {0} /\ worker.last \in Nat
        /\ DOMAIN worker = {"phase", "attempt", "last", "progressed", "holds"}
        /\ DOMAIN consumer = {"phase", "got"}
    BY <1>3 DEF Handed, Reading
  <2>b. PICK f : LineOf(T, z, free, G, worker.phase, worker.last, worker.holds, next, f)
    BY <1>3 DEF Handed, Reading
  <2>c. /\ T \in Seq(Items) /\ z \in Nat /\ z = Len(frames) + Len(posted)
        /\ Len(frames) \in Nat /\ Len(posted) \in Nat
        /\ \A k \in 1 .. z : T[k] \in Items
    <3>1. frames \o posted \in Seq(Items) /\ Len(frames \o posted) = Len(frames) + Len(posted)
      BY <2>a, ConcatProperties
    <3>2. Len(frames) \in Nat /\ Len(posted) \in Nat
      BY <2>a, LenProperties
    <3>3. \A k \in 1 .. Len(T) : T[k] \in Items
      BY <3>1, LenProperties
    <3> QED BY <3>1, <3>2, <3>3
  <2>d. ~Pump!Drops
    BY <1>3 DEF Pump!Drops
  <2> HIDE DEF G, T, z
  \* A step that leaves a line the consumer still reads.
  <2>1. ASSUME consumer' = consumer, frames' \in Seq(Items), posted' \in Seq(Items), free' \in Nat,
               halt' = FALSE, next' \in Nat \ {0}, worker'.last \in Nat,
               DOMAIN worker' = {"phase", "attempt", "last", "progressed", "holds"},
               NEW g, LineOf(frames' \o posted', Len(frames' \o posted'), free', G,
                             worker'.phase, worker'.last, worker'.holds, next', g)
        PROVE  Handed'
    <3>1. Pump!Got' = G
      BY <2>1 DEF Pump!Got, G
    <3>2. Reading'
      BY <2>1, <2>a, <3>1 DEF Reading
    <3> QED BY <1>1, <1>3, <2>1, <3>1, <3>2 DEF Handed, G
  \* The thread moves on.
  <2>2. ASSUME UNCHANGED <<posted, frames, free, halt, consumer>>, next' \in Nat \ {0}, worker'.last \in Nat,
               DOMAIN worker' = {"phase", "attempt", "last", "progressed", "holds"},
               LineOf(T, z, free, G, worker'.phase, worker'.last, worker'.holds, next', f)
        PROVE  Handed'
    BY <2>1, <2>2, <2>a DEF T, z
  \* The thread posts an item.
  <2>3. ASSUME NEW item \in Items, posted' = Append(posted, item), UNCHANGED <<frames, next, halt, consumer>>,
               free' \in Nat, worker'.last = worker.last,
               DOMAIN worker' = {"phase", "attempt", "last", "progressed", "holds"}, NEW g,
               \A U : (\A k \in 1 .. z : U[k] = T[k]) /\ U[z + 1] = item =>
                         LineOf(U, z + 1, free', G, worker'.phase, worker.last, worker'.holds, next, g)
        PROVE  Handed'
    <3>1. /\ posted' \in Seq(Items) /\ frames' \o posted' = Append(T, item)
      BY <2>3, <2>a, AppendProperties, LineMoves DEF T
    <3>2. /\ Len(Append(T, item)) = z + 1 /\ \A k \in 1 .. z : Append(T, item)[k] = T[k]
          /\ Append(T, item)[z + 1] = item
      BY <2>c, AppendProperties DEF z
    <3>3. LineOf(frames' \o posted', Len(frames' \o posted'), free', G, worker'.phase, worker'.last,
                 worker'.holds, next', g)
      BY <2>3, <3>1, <3>2
    <3> QED BY <2>1, <2>3, <2>a, <3>1, <3>3
  <2>e. LET ph == worker.phase last == worker.last x == worker.holds IN
        /\ \A y \in 1 .. last \cup {1} : ph = "opening" => LineOf(T, z, free, G, "reading", last, x, y, f)
        /\ ph = "reading" /\ next <= N => LineOf(T, z, free, G, "emitting", next, next, next + 1, f)
        /\ ph = "reading" /\ next > N => LineOf(T, z, free, G, "done", last, x, next, f)
        /\ ph = "reading" => LineOf(T, z, free, G, "sleeping", last, x, next, f)
        /\ ph = "sleeping" => LineOf(T, z, free, G, "opening", last, x, next, f)
    BY <2>a, <2>b, <2>c, LineRead
  <2>f. ASSUME NEW U, \A k \in 1 .. z : U[k] = T[k]
        PROVE  LET ph == worker.phase last == worker.last x == worker.holds IN
               /\ ph = "emitting" /\ free > 0 /\ U[z + 1][1] = "frame" /\ U[z + 1][2] = x =>
                     \A y : LineOf(U, z + 1, free - 1, G, "reading", last, y, next, f + 1)
               /\ ph = "reading" /\ U[z + 1][1] \notin {"frame", "end"} =>
                     LineOf(U, z + 1, free, G, "done", last, x, next, f)
               /\ ph = "done" /\ U[z + 1][1] = "end" => LineOf(U, z + 1, free, G, "over", last, x, next, f)
    <3>1. PICK ph, last, x : ph = worker.phase /\ last = worker.last /\ x = worker.holds
      OBVIOUS
    <3>2. LineOf(T, z, free, G, ph, last, x, next, f) /\ last \in Nat /\ free \in Nat /\ next \in Nat \ {0} /\ z \in Nat
      BY <2>a, <2>b, <2>c, <3>1
    <3>3. /\ ph = "emitting" /\ free > 0 /\ U[z + 1][1] = "frame" /\ U[z + 1][2] = x =>
                \A y : LineOf(U, z + 1, free - 1, G, "reading", last, y, next, f + 1)
          /\ ph = "reading" /\ U[z + 1][1] \notin {"frame", "end"} =>
                LineOf(U, z + 1, free, G, "done", last, x, next, f)
          /\ ph = "done" /\ U[z + 1][1] = "end" => LineOf(U, z + 1, free, G, "over", last, x, next, f)
      BY <2>f, <3>2, LinePosted
    <3> QED BY <3>1, <3>3
  <2>4. CASE Pump!Open
    <3>1. /\ worker.phase = "opening" /\ worker' = [worker EXCEPT !.phase = "reading", !.progressed = FALSE]
          /\ next' \in 1 .. worker.last \cup {1} /\ UNCHANGED <<posted, frames, free, halt, consumer>>
      BY <1>3, <2>4 DEF Pump!Open, Pump!In, Pump!Positions
    <3>2. /\ worker'.phase = "reading" /\ worker'.last = worker.last /\ worker'.holds = worker.holds
          /\ DOMAIN worker' = {"phase", "attempt", "last", "progressed", "holds"}
      BY <2>a, <3>1
    <3>3. next' \in Nat \ {0}
      BY <2>a, <3>1
    <3>4. LineOf(T, z, free, G, "reading", worker.last, worker.holds, next', f)
      BY <2>e, <3>1
    <3> QED BY <2>2, <2>a, <3>1, <3>2, <3>3, <3>4
  <2>5. CASE Pump!ReadFrame
    <3>1. /\ worker.phase = "reading" /\ next <= N /\ next' = next + 1
          /\ worker' = [worker EXCEPT !.phase = "emitting", !.progressed = TRUE, !.last = next, !.holds = next]
          /\ UNCHANGED <<posted, frames, free, halt, consumer>>
      BY <2>5 DEF Pump!ReadFrame, Pump!In
    <3>2. /\ worker'.phase = "emitting" /\ worker'.last = next /\ worker'.holds = next
          /\ DOMAIN worker' = {"phase", "attempt", "last", "progressed", "holds"}
      BY <2>a, <3>1
    <3>3. next' \in Nat \ {0} /\ next \in Nat
      BY <2>a, <3>1
    <3>4. LineOf(T, z, free, G, "emitting", next, next, next + 1, f)
      BY <2>e, <3>1
    <3> QED BY <2>2, <3>1, <3>2, <3>3, <3>4
  <2>6. CASE Pump!EmitFrame
    <3>1. /\ worker.phase = "emitting" /\ free > 0 /\ free' = free - 1
          /\ posted' = Append(posted, <<"frame", worker.holds>>)
          /\ worker' = [worker EXCEPT !.phase = "reading", !.holds = 0]
          /\ UNCHANGED <<frames, next, halt, consumer>>
      BY <2>d, <2>6 DEF Pump!EmitFrame, Pump!In
    <3>2. /\ worker'.phase = "reading" /\ worker'.last = worker.last
          /\ DOMAIN worker' = {"phase", "attempt", "last", "progressed", "holds"}
      BY <2>a, <3>1
    <3>3. free' \in Nat
      BY <2>a, <3>1
    <3>4. worker.holds \in 1 .. N
      BY <2>b, <3>1 DEF LineOf
    <3> DEFINE item == <<"frame", worker.holds>>
    <3>5. item \in Items /\ item[1] = "frame" /\ item[2] = worker.holds
      BY <3>4, ItemFacts
    <3> HIDE DEF item
    <3>6. ASSUME NEW U, \A k \in 1 .. z : U[k] = T[k], U[z + 1] = item
          PROVE  LineOf(U, z + 1, free', G, "reading", worker.last, worker'.holds, next, f + 1)
      BY <2>f, <3>1, <3>5, <3>6
    <3>7. posted' = Append(posted, item)
      BY <3>1 DEF item
    <3> QED BY <2>3, <3>1, <3>2, <3>3, <3>5, <3>6, <3>7
  <2>7. CASE Pump!Fails
    <3> DEFINE attempt == IF worker.progressed THEN 0 ELSE worker.attempt
    <3>1. PICK transient \in BOOLEAN :
             /\ worker.phase = "reading" /\ UNCHANGED <<next, frames, free, halt, consumer>>
             /\ \/ worker' = [worker EXCEPT !.phase = "sleeping", !.attempt = attempt + 1] /\ UNCHANGED posted
                \/ Pump!GivesUp(attempt, transient)
      BY <2>7 DEF Pump!Fails, Pump!In
    <3> HIDE DEF attempt
    <3>2. CASE worker' = [worker EXCEPT !.phase = "sleeping", !.attempt = attempt + 1] /\ UNCHANGED posted
      <4>1. /\ worker'.phase = "sleeping" /\ worker'.last = worker.last /\ worker'.holds = worker.holds
            /\ DOMAIN worker' = {"phase", "attempt", "last", "progressed", "holds"}
        BY <2>a, <3>2
      <4>2. LineOf(T, z, free, G, "sleeping", worker.last, worker.holds, next, f)
        BY <2>e, <3>1
      <4> QED BY <2>2, <2>a, <3>1, <3>2, <4>1, <4>2
    <3>3. CASE Pump!GivesUp(attempt, transient)
      <4>1. PICK item \in {<<"transport error">>, <<"media error">>} :
               posted' = Append(posted, item) /\ worker' = [worker EXCEPT !.phase = "done", !.attempt = attempt]
        BY <3>3 DEF Pump!GivesUp
      <4>2. /\ worker'.phase = "done" /\ worker'.last = worker.last /\ worker'.holds = worker.holds
            /\ DOMAIN worker' = {"phase", "attempt", "last", "progressed", "holds"}
        BY <2>a, <4>1
      <4>3. item \in Items /\ item[1] \notin {"frame", "end"}
        <5>1. CASE item = <<"transport error">>
          BY <5>1, ItemFacts
        <5>2. CASE item = <<"media error">>
          BY <5>2, ItemFacts
        <5> QED BY <4>1, <5>1, <5>2
      <4>4. ASSUME NEW U, \A k \in 1 .. z : U[k] = T[k], U[z + 1] = item
            PROVE  LineOf(U, z + 1, free, G, "done", worker.last, worker.holds, next, f)
        BY <2>f, <3>1, <4>3, <4>4
      <4> QED BY <2>3, <2>a, <3>1, <4>1, <4>2, <4>3, <4>4
    <3> QED BY <3>1, <3>2, <3>3
  <2>8. CASE Pump!SleepEnds \/ Pump!SourceEnds
    <3>1. PICK to \in {"opening", "done"} :
             /\ to = "opening" => worker.phase = "sleeping"
             /\ to = "done" => worker.phase = "reading" /\ next > N
             /\ worker' = [worker EXCEPT !.phase = to]
             /\ UNCHANGED <<next, posted, frames, free, halt, consumer>>
      BY <2>8 DEF Pump!SleepEnds, Pump!SourceEnds, Pump!In
    <3>2. /\ worker'.phase = to /\ worker'.last = worker.last /\ worker'.holds = worker.holds
          /\ DOMAIN worker' = {"phase", "attempt", "last", "progressed", "holds"}
      BY <2>a, <3>1
    <3>3. LineOf(T, z, free, G, to, worker.last, worker.holds, next, f)
      BY <2>e, <3>1
    <3> QED BY <2>2, <2>a, <3>1, <3>2, <3>3
  <2>9. ~Pump!Halts /\ ~Pump!Passes
    BY <1>3, <2>a DEF Pump!Halts, Pump!HaltsIn, Pump!Passes
  <2>10. CASE Pump!Done
    <3>1. /\ worker.phase = "done" /\ worker' = [worker EXCEPT !.phase = "over"]
          /\ posted' = Append(posted, <<"end">>) /\ UNCHANGED <<next, frames, free, halt, consumer>>
      BY <2>10 DEF Pump!Done, Pump!In
    <3>2. /\ worker'.phase = "over" /\ worker'.last = worker.last /\ worker'.holds = worker.holds
          /\ DOMAIN worker' = {"phase", "attempt", "last", "progressed", "holds"}
      BY <2>a, <3>1
    <3>3. PICK item : item = <<"end">>
      OBVIOUS
    <3>4. item \in Items /\ item[1] = "end" /\ posted' = Append(posted, item)
      BY <3>1, <3>3, ItemFacts
    <3>5. ASSUME NEW U, \A k \in 1 .. z : U[k] = T[k], U[z + 1] = item
          PROVE  LineOf(U, z + 1, free, G, "over", worker.last, worker.holds, next, f)
      BY <2>f, <3>1, <3>4, <3>5
    <3> QED BY <2>3, <2>a, <3>1, <3>2, <3>4, <3>5
  <2>11. CASE Pump!Callback
    <3>1. /\ posted # <<>> /\ posted' = Tail(posted) /\ UNCHANGED <<next, worker, free, halt, consumer>>
          /\ frames' = IF Len(frames) < MaxQueue + 1 THEN Append(frames, Head(posted)) ELSE frames
      BY <2>d, <2>11 DEF Pump!Callback, Pump!Slots
    <3>2. Head(posted) \in Items /\ Tail(posted) \in Seq(Items) /\ Append(frames, Head(posted)) \in Seq(Items)
      BY <2>a, <3>1, HeadTailProperties, AppendProperties
    <3>3. CASE Len(frames) < MaxQueue + 1
      <4>1. frames' = Append(frames, Head(posted)) /\ frames' \o posted' = T
        <5>1. frames' = Append(frames, Head(posted))
          BY <3>1, <3>3
        <5>q. frames \in Seq(Items) /\ posted \in Seq(Items) /\ posted # <<>>
          BY <2>a, <3>1
        <5>2. Append(frames, Head(posted)) \o Tail(posted) = T
          BY ONLY <5>q, LineMoves DEF T
        <5> QED BY <3>1, <5>1, <5>2
      <4> QED BY <2>1, <2>a, <2>b, <3>1, <3>2, <4>1 DEF z
    <3>4. CASE ~ (Len(frames) < MaxQueue + 1)
      <4>1. /\ frames' = frames /\ Len(frames' \o posted') = z - 1
            /\ \A k \in 1 .. z - 1 : (frames' \o posted')[k] = IF k <= Len(frames) THEN T[k] ELSE T[k + 1]
        <5>q. frames \in Seq(Items) /\ posted \in Seq(Items) /\ posted # <<>>
          BY <2>a, <3>1
        <5>1. /\ Len(frames \o Tail(posted)) = Len(frames \o posted) - 1
              /\ \A k \in 1 .. Len(frames \o Tail(posted)) :
                     (frames \o Tail(posted))[k] =
                        IF k <= Len(frames) THEN (frames \o posted)[k] ELSE (frames \o posted)[k + 1]
          BY ONLY <5>q, LineMoves
        <5>2. frames' = frames /\ posted' = Tail(posted)
          BY <3>1, <3>4
        <5> QED BY <5>1, <5>2 DEF T, z
      <4>2. Len(posted) > 0
        BY <2>a, <2>c, <3>1, EmptySeq
      <4> DEFINE d == Len(frames) + 1
      <4>3. d \in 1 .. z /\ d > MaxQueue + 1
        BY <2>c, <3>4, <4>2, PumpFacts
      <4>4. \A k \in 1 .. z - 1 : (frames' \o posted')[k] = IF k < d THEN T[k] ELSE T[k + 1]
        <5>1. \A k \in 1 .. z - 1 : k <= Len(frames) <=> k < d
          BY <2>c
        <5> QED BY <4>1, <5>1
      <4> HIDE DEF d
      <4>5. LineOf(frames' \o posted', z - 1, free, G, worker.phase, worker.last, worker.holds, next, f)
        <5> DEFINE U == frames' \o posted'
        <5>1. \A k \in 1 .. z - 1 : U[k] = IF k < d THEN T[k] ELSE T[k + 1]
          BY <4>4
        <5>2. /\ z \in Nat /\ next \in Nat \ {0} /\ worker.last \in Nat
              /\ LineOf(T, z, free, G, worker.phase, worker.last, worker.holds, next, f) /\ free \in Nat
          BY <2>a, <2>b, <2>c
        <5> HIDE DEF U, T, z
        <5>3. LineOf(U, z - 1, free, G, worker.phase, worker.last, worker.holds, next, f)
          BY ONLY <4>3, <5>1, <5>2, LineDropped
        <5> QED BY <5>3 DEF U
      <4> QED BY <2>1, <2>a, <3>1, <3>2, <4>1, <4>5
    <3> QED BY <3>3, <3>4
  <2>12. CASE Pump!Take
    <3> DEFINE item == Head(frames)
    <3>1. /\ frames # <<>> /\ frames' = Tail(frames) /\ UNCHANGED <<next, worker, posted>>
      BY <2>12 DEF Pump!Take
    <3>2. /\ item = T[1] /\ z > 0 /\ item \in Items /\ Tail(frames) \in Seq(Items)
          /\ frames' \o posted' = Tail(T) /\ T # <<>>
      <4>q. frames \in Seq(Items) /\ posted \in Seq(Items) /\ frames # <<>>
        BY <2>a, <3>1
      <4>1. Head(frames) = T[1] /\ Tail(frames) \o posted = Tail(T) /\ T # <<>>
        BY ONLY <4>q, HeadMoves DEF T
      <4>2. Len(frames) > 0
        BY <2>a, <2>c, <3>1, EmptySeq
      <4>3. Head(frames) \in Items /\ Tail(frames) \in Seq(Items)
        BY <2>a, <3>1, HeadTailProperties
      <4>4. z > 0 /\ frames' \o posted' = Tail(frames) \o posted
        BY <2>c, <3>1, <4>2
      <4> QED BY ONLY <4>1, <4>3, <4>4 DEF item
    <3>3. /\ Len(Tail(T)) = z - 1 /\ \A k \in 1 .. z - 1 : Tail(T)[k] = T[k + 1]
      BY <2>c, <3>2, HeadTailProperties DEF z
    <3>4. CASE item[1] = "frame"
      <4>1. /\ consumer' = [consumer EXCEPT !.got = Append(@, item[2])] /\ free' = free + 1 /\ UNCHANGED halt
        BY <2>d, <2>12, <3>2, <3>4, ItemFacts DEF Pump!Take
      <4>2. item[2] \in 1 .. N
        BY <3>2, <3>4, ItemFacts
      <4>3. /\ consumer'.got = Append(consumer.got, item[2]) /\ consumer'.phase = "reading"
            /\ DOMAIN consumer' = {"phase", "got"}
        BY <1>3, <2>a, <4>1
      <4>4. Append(consumer.got, item[2]) \in Seq(1 .. N)
        BY <2>a, <4>2, AppendProperties
      <4>5. Pump!Got' = G \cup {item[2]}
        <5>1. PICK got \in Seq(1 .. N) : got = consumer.got
          BY <2>a
        <5>2. PICK n \in 1 .. N : n = item[2]
          BY <4>2
        <5>3. Pump!ToSet(Append(got, n)) = Pump!ToSet(got) \cup {n}
          BY GotGrows
        <5>4. Pump!Got' = Pump!ToSet(Append(got, n)) /\ G = Pump!ToSet(got)
          BY <4>3, <5>1, <5>2 DEF Pump!Got, G
        <5> QED BY <5>2, <5>3, <5>4
      <4>6. LineOf(Tail(T), z - 1, free + 1, G \cup {item[2]}, worker.phase, worker.last, worker.holds, next, f - 1)
        BY <2>a, <2>b, <2>c, <3>2, <3>3, <3>4, LineTaken
      <4>7. Reading'
        <5>1. LineOf(frames' \o posted', Len(frames' \o posted'), free', Pump!Got',
                     worker'.phase, worker'.last, worker'.holds, next', f - 1)
          BY <3>1, <3>2, <3>3, <4>1, <4>5, <4>6
        <5>2. free' \in Nat /\ frames' \in Seq(Items) /\ posted' \in Seq(Items)
          BY <2>a, <3>1, <3>2, <4>1
        <5>3. consumer'.got \in Seq(1 .. N)
          BY <4>3, <4>4
        <5> QED BY <2>a, <3>1, <4>1, <4>3, <5>1, <5>2, <5>3 DEF Reading
      <4>8. \A n \in Pump!Got' : n \in 1 .. N /\ \A m \in 1 .. n - 1 : m \in Pump!Got'
        BY <4>5, <4>6 DEF LineOf
      <4> QED BY <4>3, <4>7, <4>8 DEF Handed
    <3>5. CASE item[1] # "frame"
      <4>1. consumer' = [consumer EXCEPT !.phase = item[1]]
        BY <2>12, <3>2, <3>5, ItemFacts DEF Pump!Take
      <4>2. consumer'.got = consumer.got /\ consumer'.phase = item[1]
        BY <2>a, <4>1
      <4>3. Pump!Got' = G /\ item[1] # "reading"
        BY <3>2, <4>2, ItemFacts DEF Pump!Got, G
      <4>4. item[1] = "end" => \A m \in 1 .. N : m \in G
        BY <2>a, <2>b, <2>c, <3>2, LineTold
      <4>5. \A n \in G : n \in 1 .. N /\ \A m \in 1 .. n - 1 : m \in G
        BY <2>b DEF LineOf
      <4> QED BY <4>2, <4>3, <4>4, <4>5 DEF Handed
    <3> QED BY <3>4, <3>5
  <2>13. CASE Pump!Leave
    <3>1. consumer'.got = consumer.got /\ consumer'.phase = "left"
      BY <2>a, <2>13 DEF Pump!Leave
    <3>2. Pump!Got' = G /\ \A n \in G : n \in 1 .. N /\ \A m \in 1 .. n - 1 : m \in G
      BY <2>b, <3>1 DEF LineOf, Pump!Got, G
    <3> QED BY <3>1, <3>2 DEF Handed
  <2>14. CASE UNCHANGED pumpVars
    BY <2>2, <2>a, <2>b, <2>14 DEF pumpVars
  <2> QED BY <2>4, <2>5, <2>6, <2>7, <2>8, <2>9, <2>10, <2>11, <2>12, <2>13, <2>14
          DEF Pump!Next, Pump!Thread
<1> QED BY <1>1, <1>2, <1>3 DEF Handed

LEMMA PumpInit == Pump!Init \/ PumpAtRest => Handed
<1>1. ASSUME Pump!Init PROVE Handed
  <2>1. frames \o posted = <<>> /\ Len(frames \o posted) = 0 /\ \A x : <<>> \in Seq(x)
    BY <1>1, EmptySeq, ConcatEmptySeq DEF Pump!Init
  <2>2. Pump!Got = {}
    BY <1>1, SMT DEF Pump!Init, Pump!Got, Pump!ToSet
  <2>3. LineOf(<<>>, 0, MaxQueue, {}, "opening", 0, 0, 1, 0)
    BY PumpFacts DEF LineOf
  <2>4. Reading
    BY <1>1, <2>1, <2>2, <2>3, PumpFacts DEF Pump!Init, Reading
  <2> QED BY <1>1, <2>2, <2>4 DEF Pump!Init, Handed
<1>2. ASSUME PumpAtRest PROVE Handed
  <2>1. Pump!Got = {}
    BY <1>2, SMT DEF PumpAtRest, Pump!Got, Pump!ToSet
  <2> QED BY <1>2, <2>1 DEF PumpAtRest, Handed
<1> QED BY <1>1, <1>2

LEMMA PumpShows == Handed => Pump!NothingMissing
<1> SUFFICES ASSUME Handed, ~live PROVE Pump!NothingMissing
  BY DEF Pump!NothingMissing
<1>1. /\ \A n \in Pump!Got : n \in 1 .. N /\ \A m \in 1 .. n - 1 : m \in Pump!Got
      /\ consumer.phase = "end" => \A m \in 1 .. N : m \in Pump!Got
  BY DEF Handed
<1>2. ASSUME NEW n \in Pump!Got PROVE 1 .. n \subseteq Pump!Got
  <2>1. n \in Nat /\ \A m \in 1 .. n : m = n \/ m \in 1 .. n - 1
    BY <1>1, <1>2, PumpFacts
  <2> QED BY <1>1, <1>2, <2>1
<1> QED BY <1>1, <1>2 DEF Pump!NothingMissing

------------------------------------------------------------------------------
(* A behaviour of the binding's three uses is one of each.                 *)

LEMMA OfEach ==
    MediaSpec =>
        /\ (Init \/ PublishAtRest) /\ [][Next]_publishVars
        /\ (Pump!Init \/ PumpAtRest) /\ [][Pump!Next]_pumpVars
        /\ (File!Init \/ FileAtRest) /\ [][File!Next]_fileVars
<1>1. MediaInit => /\ Init \/ PublishAtRest
                   /\ Pump!Init \/ PumpAtRest
                   /\ File!Init \/ FileAtRest
  BY DEF MediaInit
<1>2. [MediaNext]_<<publishVars, pumpVars, fileVars>> =>
          [Next]_publishVars /\ [Pump!Next]_pumpVars /\ [File!Next]_fileVars
  BY DEF MediaNext, publishVars, pumpVars, fileVars
<1> QED BY <1>1, <1>2, PTL DEF MediaSpec

\* A frame published is written or on its way, once and in order, until someone stops
\* the writer (_drain, _drain_av); a consumer of a source that can be paced misses no
\* frame before one it has, and is told of the end after the last one (_frames).
THEOREM NoFrameIsDropped == MediaSpec => []NothingDropped
<1>1. Init \/ PublishAtRest => Paced
  BY PublishInit
<1>2. Pump!Init \/ PumpAtRest => Handed
  BY PumpInit
<1>3. Paced /\ Handed => NothingDropped
  BY PublishShows, PumpShows DEF NothingDropped
<1> QED BY <1>1, <1>2, <1>3, OfEach, PublishStep, PumpStep, PTL

------------------------------------------------------------------------------
(* A source saved to a file.                                               *)

Pair == Nat \X Nat

Within(p, q) == \E k \in 1 .. Len(q) : q[k] = p

\* The packets an input i has left, and those a file has.
Timed(q, i) ==
    /\ q \in Seq(Pair)
    /\ \A k \in 1 .. Len(q) : q[k][2] = i
    /\ \A k, l \in 1 .. Len(q) : k < l => q[k][1] < q[l][1]
Sorted(q) ==
    /\ q \in Seq(Pair)
    /\ \A k, l \in 1 .. Len(q) : k < l => q[k][1] <= q[l][1] /\ q[k] # q[l]

\* The first of an input's packets is the earliest, and is not among the others.
LEMMA TimedTail ==
    ASSUME NEW i, NEW q, Timed(q, i), q # <<>>
    PROVE  /\ Timed(Tail(q), i) /\ Within(Head(q), q) /\ Head(q) \in Pair
           /\ \A p : Within(p, Tail(q)) <=> Within(p, q) /\ p # Head(q)
           /\ \A p : Within(p, q) => Head(q)[1] <= p[1]
<1>1. q \in Seq(Pair)
  BY DEF Timed
<1>2. PICK z \in Nat : z = Len(q) /\ z > 0
  BY <1>1, EmptySeq, LenProperties
<1>3. /\ Head(q) \in Pair /\ Head(q) = q[1] /\ Tail(q) \in Seq(Pair) /\ Len(Tail(q)) = z - 1
      /\ \A k \in 1 .. z - 1 : Tail(q)[k] = q[k + 1]
      /\ \A k \in 1 .. z : q[k] \in Pair
  BY <1>1, <1>2, HeadTailProperties, LenProperties
<1>4. \A k, l \in 1 .. z : k < l => q[k][1] < q[l][1]
  BY <1>2 DEF Timed
<1>5. \A k \in 1 .. z : q[k][1] \in Nat /\ q[k][2] = i
  BY <1>2, <1>3 DEF Timed, Pair
<1>6. Timed(Tail(q), i)
  <2>1. \A k \in 1 .. z - 1 : Tail(q)[k][2] = i
    BY <1>3, <1>5
  <2>2. \A k, l \in 1 .. z - 1 : k < l => Tail(q)[k][1] < Tail(q)[l][1]
    BY <1>3, <1>4
  <2> QED BY <1>3, <2>1, <2>2 DEF Timed
<1>7. Within(Head(q), q)
  BY <1>2, <1>3 DEF Within
<1>8. ASSUME NEW p PROVE Within(p, Tail(q)) <=> Within(p, q) /\ p # Head(q)
  <2>1. \A k \in 2 .. z : q[k] # q[1]
    <3>1. \A k \in 2 .. z : q[1][1] < q[k][1] /\ q[1][1] \in Nat
      BY <1>2, <1>4, <1>5
    <3> QED BY <3>1
  <2>2. Within(p, Tail(q)) <=> \E k \in 1 .. z - 1 : q[k + 1] = p
    BY <1>3 DEF Within
  <2>3. (\E k \in 1 .. z - 1 : q[k + 1] = p) <=> \E k \in 2 .. z : q[k] = p
    <3>1. \A k \in 2 .. z : k - 1 \in 1 .. z - 1 /\ (k - 1) + 1 = k
      BY <1>2
    <3>2. \A k \in 1 .. z - 1 : k + 1 \in 2 .. z
      BY <1>2
    <3> QED BY <3>1, <3>2
  <2>4. Within(p, q) /\ p # q[1] <=> \E k \in 2 .. z : q[k] = p
    <3>1. \A k \in 1 .. z : k = 1 \/ k \in 2 .. z
      BY <1>2
    <3>2. \A k \in 2 .. z : k \in 1 .. z
      BY <1>2
    <3> QED BY <1>2, <2>1, <3>1, <3>2 DEF Within
  <2> QED BY <1>3, <2>2, <2>3, <2>4
<1>9. ASSUME NEW p, Within(p, q) PROVE Head(q)[1] <= p[1]
  <2>1. PICK k \in 1 .. z : q[k] = p
    BY <1>2, <1>9 DEF Within
  <2>2. k = 1 \/ q[1][1] < q[k][1]
    BY <1>2, <1>4
  <2>3. q[1][1] \in Nat /\ q[k][1] \in Nat
    BY <1>2, <1>5
  <2> QED BY <1>3, <2>1, <2>2, <2>3
<1> QED BY <1>3, <1>6, <1>7, <1>8, <1>9

LEMMA SortedAppend ==
    ASSUME NEW q, Sorted(q), NEW p \in Pair,
           \A r : Within(r, q) => r[1] <= p[1] /\ r # p
    PROVE  /\ Sorted(Append(q, p))
           /\ \A r : Within(r, Append(q, p)) <=> Within(r, q) \/ r = p
<1>1. q \in Seq(Pair) /\ \A k, l \in 1 .. Len(q) : k < l => q[k][1] <= q[l][1] /\ q[k] # q[l]
  BY DEF Sorted
<1>2. PICK z \in Nat : z = Len(q)
  BY <1>1, LenProperties
<1>3. PICK a \in Seq(Pair) : /\ a = Append(q, p) /\ Len(a) = z + 1 /\ a[z + 1] = p
                             /\ \A k \in 1 .. z : a[k] = q[k]
  <2>1. /\ Append(q, p) \in Seq(Pair) /\ Len(Append(q, p)) = Len(q) + 1
        /\ \A k \in 1 .. Len(q) : Append(q, p)[k] = q[k]
        /\ Append(q, p)[Len(q) + 1] = p
    BY <1>1, AppendProperties
  <2> QED BY <1>2, <2>1
<1>4. \A k \in 1 .. z + 1 : k = z + 1 \/ k \in 1 .. z
  OBVIOUS
<1>5. \A k \in 1 .. z : q[k][1] <= p[1] /\ q[k] # p
  BY <1>2 DEF Within
<1>6. \A k, l \in 1 .. z + 1 : k < l => a[k][1] <= a[l][1] /\ a[k] # a[l]
  <2> SUFFICES ASSUME NEW k \in 1 .. z + 1, NEW l \in 1 .. z + 1, k < l
               PROVE  a[k][1] <= a[l][1] /\ a[k] # a[l]
    OBVIOUS
  <2>1. k \in 1 .. z
    OBVIOUS
  <2>2. CASE l = z + 1
    BY <1>3, <1>5, <2>1, <2>2
  <2>3. CASE l \in 1 .. z
    BY <1>1, <1>2, <1>3, <2>1, <2>3
  <2> QED BY <1>4, <2>2, <2>3
<1>7. Sorted(a)
  <2>1. 1 .. Len(a) = 1 .. z + 1
    BY <1>3
  <2>2. \A k, l \in 1 .. Len(a) : k < l => a[k][1] <= a[l][1] /\ a[k] # a[l]
    BY ONLY <1>6, <2>1
  <2> QED BY <1>3, <2>2 DEF Sorted
<1>8. ASSUME NEW r PROVE Within(r, a) <=> Within(r, q) \/ r = p
  <2>1. z + 1 \in 1 .. z + 1 /\ \A k \in 1 .. z : k \in 1 .. z + 1
    OBVIOUS
  <2> QED BY <1>2, <1>3, <1>4, <2>1 DEF Within
<1> QED BY <1>3, <1>7, <1>8

\* Of the inputs with packets left there is one to take next.
LEMMA EarliestIsLeft ==
    ASSUME \A i \in DOMAIN heads : i \in Nat /\ Timed(heads[i], i), File!Left # {}
    PROVE  /\ File!Earliest \in File!Left
           /\ \A j \in File!Left : Head(heads[File!Earliest])[1] <= Head(heads[j])[1]
<1> DEFINE T(i) == Head(heads[i])[1]
<1> DEFINE B(i) == \A j \in File!Left : T(i) < T(j) \/ i = j \/ (T(i) = T(j) /\ i < j)
<1>1. \A i \in File!Left : i \in Nat /\ T(i) \in Nat
  <2>1. \A i \in File!Left : i \in Nat /\ Head(heads[i]) \in Pair
    BY TimedTail DEF File!Left
  <2> QED BY <2>1 DEF Pair
<1>2. \E i \in File!Left : B(i)
  <2> HIDE DEF T
  <2> DEFINE R == OpToRel(<, Nat)
  <2>1. \A a, b \in Nat : <<a, b>> \in R <=> a < b
    BY DEF OpToRel
  <2>2. IsWellFoundedOn(R, Nat)
    BY NatLessThanWellFounded
  <2> HIDE DEF R
  <2> DEFINE Times == {T(i) : i \in File!Left}
  <2>3. PICK t \in Times : \A u \in Times : ~ (<<u, t>> \in R)
    <3>1. Times \subseteq Nat /\ Times # {}
      BY <1>1
    <3> HIDE DEF Times
    <3> QED BY <2>2, <3>1, WFMin
  <2>4. t \in Nat /\ \A j \in File!Left : t <= T(j)
    <3>1. t \in Nat
      BY <1>1, <2>3
    <3>2. ASSUME NEW j \in File!Left PROVE t <= T(j)
      <4>1. T(j) \in Nat /\ T(j) \in Times
        BY <1>1
      <4>2. ~ (<<T(j), t>> \in R)
        BY <2>3, <4>1
      <4>3. ~ (T(j) < t)
        BY <2>1, <3>1, <4>1, <4>2
      <4> QED BY <3>1, <4>1, <4>3
    <3> QED BY <3>1, <3>2
  <2> DEFINE First == {i \in File!Left : T(i) = t}
  <2>5. PICK i \in First : \A j \in First : ~ (<<j, i>> \in R)
    <3>1. First \subseteq Nat /\ First # {}
      BY <1>1, <2>3
    <3> HIDE DEF First
    <3> QED BY <2>2, <3>1, WFMin
  <2>6. ASSUME NEW j \in First PROVE i = j \/ i < j
    <3>1. i \in Nat /\ j \in Nat /\ ~ (<<j, i>> \in R)
      BY <1>1, <2>5
    <3>2. ~ (j < i)
      BY <2>1, <3>1
    <3> QED BY <3>1, <3>2
  <2>7. ASSUME NEW j \in File!Left PROVE T(i) < T(j) \/ i = j \/ (T(i) = T(j) /\ i < j)
    <3>1. T(i) = t /\ i \in File!Left
      BY <2>5
    <3>2. CASE T(j) = t
      BY <2>6, <3>1, <3>2
    <3>3. CASE T(j) # t
      BY <1>1, <2>4, <3>1, <3>3
    <3> QED BY <3>2, <3>3
  <2> QED BY <2>5, <2>7
<1>3. File!Earliest = CHOOSE i \in File!Left : B(i)
  BY DEF File!Earliest
<1>4. File!Earliest \in File!Left /\ B(File!Earliest)
  <2> HIDE DEF B
  <2> QED BY <1>2, <1>3
<1>5. ASSUME NEW j \in File!Left PROVE T(File!Earliest) <= T(j)
  BY <1>1, <1>4
<1> QED BY <1>4, <1>5

\* A packet of a wanted stream of the source.
Of(p) == \E i \in DOMAIN media : /\ media[i].track \in wanted
                                 /\ \E k \in DOMAIN media[i].times : p = <<media[i].times[k], i>>

\* Every packet is in the file or left, and the file's come before those left.
Merged ==
    /\ DOMAIN heads = DOMAIN media
    /\ \A i \in DOMAIN heads : i \in Nat /\ Timed(heads[i], i)
    /\ Sorted(out)
    /\ \A p : Of(p) <=> Within(p, out) \/ \E i \in DOMAIN heads : Within(p, heads[i])
    /\ \A p : Within(p, out) =>
          \A i \in DOMAIN heads : \A r : Within(r, heads[i]) => p[1] <= r[1] /\ r # p

Complete == Sorted(out) /\ \A p : Of(p) <=> Within(p, out)

\* The first streams of a page have been downloaded, and not all of them.
PartOfPage ==
    /\ Len(staged) < Len(media)
    /\ staged \in Seq([track : File!Tracks, times : Seq(Nat)])
    /\ \A k \in 1 .. Len(staged) : staged[k] = media[k]

\* The file is what was muxed, or what of it was written before closing failed.
Closed == file = (IF torn THEN SubSeq(out, 1, Len(file)) ELSE out)

\* A save whose caller has not been cancelled.
Copied ==
    /\ media \in Media
    /\ copier \in {"none", "resolve", "download", "open", "mux", "close", "clean", "end", "over"}
    /\ caller = "idle" => copier = "none"
    /\ caller = "returned" => copier = "over" /\ ~failed
    /\ copier # "over" => ~told
    /\ copier \in {"none", "resolve", "download", "open"} => out = <<>> /\ ~failed
    /\ copier \in {"none", "resolve"} => staged = <<>> /\ tmp = {}
    /\ copier = "download" => PartOfPage
    /\ copier = "open" => tmp = {} \/ staged = media
    /\ copier = "mux" => Merged /\ ~failed
    /\ copier \in {"close", "clean", "end", "over"} /\ ~failed => Complete
    /\ copier \in {"end", "over"} /\ ~failed => tmp = {}
    /\ copier \in {"none", "resolve", "download", "open", "mux", "close"} => ~torn
    /\ copier \in {"clean", "end", "over"} /\ ~failed => Closed

Saves == caller \in {"idle", "waiting", "returned"} => Copied

LEMMA SourceFacts ==
    ASSUME media \in Media
    PROVE  /\ media \in Seq([track : File!Tracks, times : Seq(Nat)])
           /\ Len(media) \in Nat /\ DOMAIN media = 1 .. Len(media)
           /\ \A i \in DOMAIN media : /\ i \in Nat /\ media[i].times \in Seq(Nat)
                                      /\ media[i] \in [track : File!Tracks, times : Seq(Nat)]
                                      /\ \A k, l \in DOMAIN media[i].times :
                                            k < l => media[i].times[k] < media[i].times[l]
<1>1. media \in Seq([track : File!Tracks, times : Seq(Nat)])
  BY MediaAssumption DEF File!SaveAssumption
<1>2. Len(media) \in Nat /\ DOMAIN media = 1 .. Len(media)
  BY <1>1, LenProperties
<1>3. ASSUME NEW i \in DOMAIN media
      PROVE  i \in Nat /\ media[i].times \in Seq(Nat) /\ media[i] \in [track : File!Tracks, times : Seq(Nat)]
  <2>1. i \in 1 .. Len(media)
    BY <1>2
  <2>2. media[i] \in [track : File!Tracks, times : Seq(Nat)]
    BY <1>1, <2>1, LenProperties
  <2> QED BY <1>2, <2>1, <2>2
<1>4. \A i \in DOMAIN media : \A k, l \in DOMAIN media[i].times :
          k < l => media[i].times[k] < media[i].times[l]
  BY MediaAssumption DEF File!SaveAssumption
<1> QED BY <1>1, <1>2, <1>3, <1>4

\* The packets of one input, as the muxer opens it.
Opened(i, times) == [k \in DOMAIN times |-> <<times[k], i>>]

LEMMA StreamIsTimed ==
    ASSUME NEW i \in Nat, NEW times \in Seq(Nat),
           \A k, l \in DOMAIN times : k < l => times[k] < times[l]
    PROVE  /\ Timed(Opened(i, times), i)
           /\ \A p : Within(p, Opened(i, times)) <=> \E k \in DOMAIN times : p = <<times[k], i>>
<1> DEFINE q == Opened(i, times)
<1>1. PICK z \in Nat : z = Len(times) /\ DOMAIN times = 1 .. z
  BY LenProperties
<1>2. \A k \in 1 .. z : times[k] \in Nat
  BY <1>1, LenProperties
<1>3. q = [k \in 1 .. z |-> <<times[k], i>>]
  BY <1>1 DEF Opened
<1> HIDE DEF q
<1>4. q \in Seq(Pair) /\ Len(q) = z
  <2>1. \A k \in 1 .. z : <<times[k], i>> \in Pair
    BY <1>2 DEF Pair
  <2>2. q \in [1 .. z -> Pair]
    BY <1>3, <2>1
  <2> QED BY <2>2, IsASeq, LenProperties
<1>5. \A k \in 1 .. z : q[k] = <<times[k], i>> /\ q[k][1] = times[k] /\ q[k][2] = i
  BY <1>3
<1>6. \A k, l \in 1 .. z : k < l => q[k][1] < q[l][1]
  BY <1>1, <1>5
<1>7. Timed(q, i)
  BY <1>4, <1>5, <1>6 DEF Timed
<1>8. \A p : Within(p, q) <=> \E k \in DOMAIN times : p = <<times[k], i>>
  BY <1>1, <1>4, <1>5 DEF Within
<1> QED BY <1>7, <1>8 DEF q

LEMMA NothingIsTimed == \A i : Timed(<<>>, i) /\ Sorted(<<>>) /\ \A p : ~ Within(p, <<>>)
<1>1. <<>> \in Seq(Pair) /\ Len(<<>>) = 0 /\ 1 .. 0 = {}
  BY EmptySeq
<1> QED BY <1>1 DEF Timed, Sorted, Within

LEMMA OpenMerges ==
    ASSUME media \in Media, UNCHANGED <<media, wanted>>, out' = <<>>,
           heads' = [i \in DOMAIN media |->
               IF media[i].track \in wanted
               THEN [k \in DOMAIN media[i].times |-> <<media[i].times[k], i>>] ELSE <<>>]
    PROVE  Merged'
<1>1. ASSUME NEW i \in DOMAIN media
      PROVE  /\ i \in Nat /\ Timed(heads'[i], i)
             /\ \A p : Within(p, heads'[i]) <=>
                  media[i].track \in wanted /\ \E k \in DOMAIN media[i].times : p = <<media[i].times[k], i>>
  <2>1. PICK times \in Seq(Nat) : /\ times = media[i].times /\ i \in Nat
                                  /\ \A k, l \in DOMAIN times : k < l => times[k] < times[l]
    BY SourceFacts
  <2>2. CASE media[i].track \in wanted
    <3>1. heads'[i] = Opened(i, times)
      BY <2>1, <2>2 DEF Opened
    <3>2. /\ Timed(Opened(i, times), i)
          /\ \A p : Within(p, Opened(i, times)) <=> \E k \in DOMAIN times : p = <<times[k], i>>
      BY <2>1, StreamIsTimed
    <3> QED BY <2>1, <2>2, <3>1, <3>2
  <2>3. CASE media[i].track \notin wanted
    <3>1. heads'[i] = <<>>
      BY <2>3
    <3> QED BY <2>1, <2>3, <3>1, NothingIsTimed
  <2> QED BY <2>2, <2>3
<1>2. DOMAIN heads' = DOMAIN media
  OBVIOUS
<1>3. ASSUME NEW p PROVE Of(p)' <=> \E i \in DOMAIN heads' : Within(p, heads'[i])
  <2>1. Of(p)' <=> \E i \in DOMAIN media : /\ media[i].track \in wanted
                                            /\ \E k \in DOMAIN media[i].times : p = <<media[i].times[k], i>>
    BY DEF Of
  <2> QED BY <1>1, <1>2, <2>1
<1>4. Sorted(out') /\ \A p : ~ Within(p, out')
  BY NothingIsTimed
<1> QED BY <1>1, <1>2, <1>3, <1>4 DEF Merged

\* One packet muxed: the earliest of those left.
LEMMA MuxMerges ==
    ASSUME Merged, File!Left # {},
           media' = media, wanted' = wanted,
           out' = Append(out, Head(heads[File!Earliest])),
           heads' = [heads EXCEPT ![File!Earliest] = Tail(@)]
    PROVE  Merged'
<1>a. /\ DOMAIN heads = DOMAIN media
      /\ \A i \in DOMAIN heads : i \in Nat /\ Timed(heads[i], i)
      /\ Sorted(out)
      /\ \A p : Of(p) <=> Within(p, out) \/ \E i \in DOMAIN heads : Within(p, heads[i])
      /\ \A p : Within(p, out) =>
            \A i \in DOMAIN heads : \A r : Within(r, heads[i]) => p[1] <= r[1] /\ r # p
  BY DEF Merged
<1>1. /\ File!Earliest \in File!Left
      /\ \A j \in File!Left : Head(heads[File!Earliest])[1] <= Head(heads[j])[1]
  BY <1>a, EarliestIsLeft
<1>2. PICK e \in DOMAIN heads : /\ e = File!Earliest /\ heads[e] # <<>>
                                /\ \A j \in File!Left : Head(heads[e])[1] <= Head(heads[j])[1]
  BY <1>1 DEF File!Left
<1>3. PICK p : p = Head(heads[e])
  OBVIOUS
<1>4. /\ DOMAIN heads' = DOMAIN heads
      /\ \A i \in DOMAIN heads : heads'[i] = IF i = e THEN Tail(heads[e]) ELSE heads[i]
      /\ out' = Append(out, p)
  BY <1>2, <1>3
<1>5. /\ e \in Nat /\ Timed(Tail(heads[e]), e) /\ Within(p, heads[e]) /\ p \in Pair
      /\ \A r : Within(r, Tail(heads[e])) <=> Within(r, heads[e]) /\ r # p
  BY <1>a, <1>2, <1>3, TimedTail
\* No packet left is earlier, and another input's is another.
<1>6. ASSUME NEW j \in DOMAIN heads, NEW r, Within(r, heads[j])
      PROVE  p[1] <= r[1] /\ (j # e => r # p)
  <2>1. r \in Pair /\ r[2] = j /\ heads[j] # <<>>
    <3>1. heads[j] \in Seq(Pair) /\ \A k \in 1 .. Len(heads[j]) : heads[j][k][2] = j
      BY <1>a DEF Timed
    <3>2. PICK k \in 1 .. Len(heads[j]) : heads[j][k] = r
      BY <1>6 DEF Within
    <3>3. r \in Pair
      BY <3>1, <3>2, LenProperties
    <3>4. heads[j] # <<>>
      BY <1>6, NothingIsTimed
    <3> QED BY <3>1, <3>2, <3>3, <3>4
  <2>2. p[2] = e
    BY <1>a, <1>2, <1>5 DEF Timed, Within
  <2>3. Head(heads[j])[1] <= r[1] /\ Head(heads[j]) \in Pair
    BY <1>a, <1>6, <2>1, TimedTail
  <2>4. p[1] <= Head(heads[j])[1]
    BY <1>2, <1>3, <2>1 DEF File!Left
  <2>5. p[1] \in Nat /\ r[1] \in Nat /\ Head(heads[j])[1] \in Nat
    BY <1>5, <2>1, <2>3 DEF Pair
  <2>6. p[1] <= r[1]
    BY <2>3, <2>4, <2>5
  <2> QED BY <2>1, <2>2, <2>6
<1>7. /\ Sorted(out') /\ \A r : Within(r, out') <=> Within(r, out) \/ r = p
  <2>1. \A r : Within(r, out) => r[1] <= p[1] /\ r # p
    BY <1>a, <1>5
  <2> QED BY <1>a, <1>4, <1>5, <2>1, SortedAppend
<1>8. \A i \in DOMAIN heads' : i \in Nat /\ Timed(heads'[i], i)
  BY <1>a, <1>4, <1>5
<1>9. \A i \in DOMAIN heads : \A r : Within(r, heads'[i]) <=> Within(r, heads[i]) /\ r # p
  BY <1>4, <1>5, <1>6
<1>10. \A r : Of(r)' <=> Of(r)
  BY DEF Of
<1>11. ASSUME NEW r PROVE Of(r)' <=> Within(r, out') \/ \E i \in DOMAIN heads' : Within(r, heads'[i])
  BY <1>a, <1>2, <1>4, <1>5, <1>7, <1>9, <1>10
<1>12. ASSUME NEW r, Within(r, out'), NEW i \in DOMAIN heads', NEW x, Within(x, heads'[i])
       PROVE  r[1] <= x[1] /\ x # r
  BY <1>a, <1>4, <1>6, <1>7, <1>9, <1>12
<1>13. DOMAIN heads' = DOMAIN media'
  BY <1>a, <1>4
<1> QED BY <1>7, <1>8, <1>11, <1>12, <1>13 DEF Merged, Within

LEMMA SaveStep == Saves /\ [File!Next]_fileVars => Saves'
<1> SUFFICES ASSUME Saves, [File!Next]_fileVars, caller' \in {"idle", "waiting", "returned"}
             PROVE  Copied'
  BY DEF Saves
<1>1. CASE UNCHANGED fileVars
  BY <1>1 DEF Saves, fileVars, Copied, Merged, Complete, Closed, Of, PartOfPage
<1>2. CASE File!Save
  BY <1>2 DEF Saves, Copied, File!Save, File!target
<1>3. CASE File!Refuse
  BY <1>3 DEF File!Refuse
<1>4. CASE File!Cancel
  BY <1>4 DEF File!Cancel
<1>5. CASE File!Join
  <2>1. /\ caller = "waiting" /\ copier = "over" /\ ~failed /\ caller' = "returned"
        /\ UNCHANGED <<media, wanted, copier, told, failed, staged, tmp, heads, out, file, torn>>
    BY <1>5 DEF File!Join, File!target
  <2> QED BY <2>1 DEF Saves, Copied, Complete, Closed, Of
<1>6. ASSUME File!Worker PROVE Copied'
  <2>1. Copied /\ caller' = caller /\ caller = "waiting" /\ UNCHANGED <<media, wanted>>
    <3>1. UNCHANGED <<caller, media, wanted>> /\ copier \notin {"none", "over"}
      BY <1>6 DEF File!Worker, File!Resolve, File!Download, File!Open, File!Mux, File!Close, File!Clean, File!End
    <3> QED BY <3>1 DEF Saves, Copied
  <2>2. CASE File!Resolve
    <3>1. /\ copier = "resolve" /\ UNCHANGED <<told, staged, tmp, heads, out, file, torn>>
          /\ \/ copier' = "download" /\ Len(media) > 1 /\ failed' = failed
             \/ copier' = "open" /\ failed' = failed
             \/ copier' = "end" /\ failed' = TRUE
      BY <2>2 DEF File!Resolve, File!GoesOn, File!Fails, File!target
    <3>2. staged = <<>> /\ tmp = {} /\ out = <<>> /\ ~failed /\ ~told /\ media \in Media
      BY <2>1, <3>1 DEF Copied
    <3>3. copier' = "download" => PartOfPage'
      <4>1. <<>> \in Seq([track : File!Tracks, times : Seq(Nat)]) /\ Len(<<>>) = 0
        BY EmptySeq
      <4>2. ASSUME copier' = "download" PROVE Len(<<>>) < Len(media)
        BY <3>1, <3>2, <4>1, <4>2, SourceFacts
      <4> QED BY <2>1, <3>1, <3>2, <4>1, <4>2 DEF PartOfPage
    <3> QED BY <2>1, <3>1, <3>2, <3>3 DEF Copied
  <2>3. CASE File!Download
    <3>1. /\ copier = "download" /\ UNCHANGED <<told, heads, out, file, torn>>
          /\ \/ /\ staged' = Append(staged, media[Len(staged) + 1]) /\ failed' = failed
                /\ copier' = IF Len(staged') = Len(media) THEN "open" ELSE "download"
             \/ copier' = "clean" /\ failed' = TRUE
      BY <2>3 DEF File!Download, File!GoesOn, File!target
    <3>2. PartOfPage /\ out = <<>> /\ ~failed /\ ~told /\ media \in Media
      BY <2>1, <3>1 DEF Copied
    <3>3. CASE copier' = "clean" /\ failed' = TRUE
      BY <2>1, <3>1, <3>2, <3>3 DEF Copied
    <3>4. CASE /\ staged' = Append(staged, media[Len(staged) + 1]) /\ failed' = failed
               /\ copier' = IF Len(staged') = Len(media) THEN "open" ELSE "download"
      <4> DEFINE S == [track : File!Tracks, times : Seq(Nat)]
      <4> DEFINE z == Len(staged)
      <4>1. /\ z < Len(media) /\ staged \in Seq(S) /\ \A k \in 1 .. z : staged[k] = media[k]
        BY <3>2 DEF PartOfPage
      <4>2. /\ media \in Seq(S) /\ Len(media) \in Nat /\ DOMAIN media = 1 .. Len(media)
            /\ \A i \in DOMAIN media : media[i] \in S
        BY <3>2, SourceFacts
      <4> HIDE DEF S
      <4>3. z \in Nat
        BY <4>1, LenProperties
      <4>4. media[z + 1] \in S
        BY <4>1, <4>2, <4>3
      <4>5. /\ staged' \in Seq(S) /\ Len(staged') = z + 1 /\ staged'[z + 1] = media[z + 1]
            /\ \A k \in 1 .. z : staged'[k] = staged[k]
        BY <3>4, <4>1, <4>4, AppendProperties
      <4>6. \A k \in 1 .. z + 1 : staged'[k] = media[k]
        <5>1. \A k \in 1 .. z + 1 : k = z + 1 \/ k \in 1 .. z
          BY <4>3
        <5> QED BY <4>1, <4>5, <5>1
      <4>7. CASE Len(staged') = Len(media)
        <5>1. staged' = media
          <6>1. \A k \in 1 .. Len(staged') : staged'[k] = media[k]
            BY <4>5, <4>6
          <6> QED BY <4>2, <4>5, <4>7, <6>1, SeqEqual
        <5> QED BY <2>1, <3>1, <3>2, <3>4, <4>7, <5>1 DEF Copied
      <4>8. CASE Len(staged') # Len(media)
        <5>1. Len(staged') < Len(media) /\ \A k \in 1 .. Len(staged') : staged'[k] = media[k]
          <6>1. PICK m \in Nat : m = Len(media)
            BY <4>2
          <6>2. z + 1 < m
            BY <4>1, <4>3, <4>5, <4>8, <6>1
          <6>3. Len(staged') < Len(media)
            BY ONLY <4>5, <6>1, <6>2
          <6> QED BY ONLY <4>5, <4>6, <6>3
        <5>2. PartOfPage'
          BY <2>1, <4>5, <5>1 DEF PartOfPage, S
        <5> QED BY <2>1, <3>1, <3>2, <3>4, <4>8, <5>2 DEF Copied
      <4> QED BY <4>7, <4>8
    <3> QED BY <3>1, <3>3, <3>4
  <2>4. CASE File!Open
    <3>1. /\ copier = "open" /\ UNCHANGED <<told, staged, tmp, out, file, torn>>
          /\ \/ copier' = "mux" /\ heads' = [i \in DOMAIN File!Inputs |-> File!Packets(i)] /\ failed' = failed
             \/ copier' = "close" /\ failed' = TRUE
      BY <2>4 DEF File!Open, File!GoesOn, File!Fails, File!target
    <3>2. (tmp = {} \/ staged = media) /\ out = <<>> /\ ~failed /\ ~told /\ media \in Media
      BY <2>1, <3>1 DEF Copied
    <3>3. File!Inputs = media
      BY <3>2 DEF File!Inputs
    <3>4. ASSUME copier' = "mux" PROVE Merged'
      <4>1. heads' = [i \in DOMAIN media |->
                 IF media[i].track \in wanted
                 THEN [k \in DOMAIN media[i].times |-> <<media[i].times[k], i>>] ELSE <<>>]
        BY <3>1, <3>3, <3>4 DEF File!Packets
      <4> QED BY <2>1, <3>1, <3>2, <4>1, OpenMerges
    <3> QED BY <2>1, <3>1, <3>2, <3>4 DEF Copied
  <2>5. CASE File!Mux
    <3>1. /\ copier = "mux" /\ UNCHANGED <<told, staged, tmp, file, torn>>
          /\ \/ (told \/ File!Left = {}) /\ copier' = "close" /\ failed' = failed /\ out' = out
             \/ /\ File!Left # {} /\ failed' = failed /\ copier' = copier
                /\ out' = Append(out, Head(heads[File!Earliest]))
                /\ heads' = [heads EXCEPT ![File!Earliest] = Tail(@)]
             \/ copier' = "close" /\ failed' = TRUE
      BY <2>5 DEF File!Mux, File!GoesOn, File!Fails, File!target
    <3>2. Merged /\ ~failed /\ ~told /\ media \in Media
      BY <2>1, <3>1 DEF Copied
    <3>3. CASE File!Left = {} /\ copier' = "close" /\ failed' = failed /\ out' = out
      <4>1. \A p : Of(p) <=> Within(p, out)
        BY <3>2, <3>3, NothingIsTimed DEF Merged, File!Left
      <4>2. Complete'
        BY <2>1, <3>2, <3>3, <4>1 DEF Merged, Complete, Of
      <4> QED BY <2>1, <3>1, <3>2, <3>3, <4>2 DEF Copied
    <3>4. CASE /\ File!Left # {} /\ failed' = failed /\ copier' = copier
               /\ out' = Append(out, Head(heads[File!Earliest]))
               /\ heads' = [heads EXCEPT ![File!Earliest] = Tail(@)]
      <4>1. Merged'
        BY <2>1, <3>2, <3>4, MuxMerges
      <4> QED BY <2>1, <3>1, <3>2, <3>4, <4>1 DEF Copied
    <3>5. CASE copier' = "close" /\ failed' = TRUE
      BY <2>1, <3>1, <3>2, <3>5 DEF Copied
    <3> QED BY <3>1, <3>2, <3>3, <3>4, <3>5
  <2>6. CASE File!Close
    <3>1. /\ copier = "close" /\ copier' = (IF tmp = {} THEN "end" ELSE "clean")
          /\ UNCHANGED <<told, failed, staged, tmp, heads, out>>
          /\ \/ file' = out /\ torn' = torn
             \/ torn' = TRUE /\ \E n \in 0 .. Len(out) : file' = SubSeq(out, 1, n)
      BY <2>6 DEF File!Close
    <3>2. ~torn /\ ~told /\ media \in Media /\ (~failed => Complete)
      BY <2>1, <3>1 DEF Copied
    <3>3. ~failed => Complete'
      BY <2>1, <3>1, <3>2 DEF Complete, Of
    <3>4. ASSUME ~failed PROVE Closed'
      <4>1. CASE file' = out /\ torn' = torn
        BY <3>1, <3>2, <4>1 DEF Closed
      <4>2. ASSUME NEW n \in 0 .. Len(out), torn' = TRUE, file' = SubSeq(out, 1, n) PROVE Closed'
        <5>1. out \in Seq(Pair) /\ Len(out) \in Nat
          BY <3>2, <3>4, LenProperties DEF Complete, Sorted
        <5>2. Len(file') = n
          <6>1. 1 \in Int /\ n \in Int /\ \A i \in 1 .. n : out[i] \in Pair
            BY <5>1, LenProperties
          <6>2. Len(SubSeq(out, 1, n)) = IF 1 <= n THEN n - 1 + 1 ELSE 0
            BY <6>1, SubSeqProperties
          <6> QED BY <4>2, <6>2
        <5> QED BY <3>1, <4>2, <5>2 DEF Closed
      <4> QED BY <3>1, <4>1, <4>2
    <3> QED BY <2>1, <3>1, <3>2, <3>3, <3>4 DEF Copied
  <2>7. CASE File!Clean
    BY <2>1, <2>7 DEF Copied, File!Clean, File!target, Complete, Closed, Of
  <2>8. CASE File!End
    BY <2>1, <2>8 DEF Copied, File!End, File!target, Complete, Closed, Of
  <2> QED BY <1>6, <2>2, <2>3, <2>4, <2>5, <2>6, <2>7, <2>8 DEF File!Worker
<1> QED BY <1>1, <1>2, <1>3, <1>4, <1>5, <1>6 DEF File!Next

LEMMA SaveInit == File!Init \/ FileAtRest => Saves
BY DEF File!Init, FileAtRest, Saves, Copied

LEMMA SaveShows == Saves => SavedIsWhole
<1> SUFFICES ASSUME Saves, caller = "returned" PROVE SavedIsWhole
  BY DEF SavedIsWhole, File!SavedIsWhole
<1>1. Complete /\ Closed /\ tmp = {}
  BY DEF Saves, Copied
<1>2. out \in Seq(Pair) /\ DOMAIN out = 1 .. Len(out)
  BY <1>1, LenProperties DEF Complete, Sorted
<1> DEFINE wantedOnes == {j \in DOMAIN media : media[j].track \in wanted}
<1> DEFINE All == UNION {{<<media[i].times[k], i>> : k \in DOMAIN media[i].times} : i \in wantedOnes}
<1>3. \A p : p \in {out[k] : k \in DOMAIN out} <=> Within(p, out)
  BY <1>2 DEF Within
<1>4. \A p : p \in All <=> Of(p)
  BY DEF Of
<1>5. {out[k] : k \in DOMAIN out} = All
  BY <1>1, <1>3, <1>4 DEF Complete
<1>6. \A k, l \in DOMAIN out : k < l => out[k][1] <= out[l][1] /\ out[k] # out[l]
  BY <1>1, <1>2 DEF Complete, Sorted
<1> QED BY <1>1, <1>5, <1>6 DEF SavedIsWhole, File!SavedIsWhole, Closed

\* A save that returns has handed every packet of the wanted streams of its source to
\* the muxer, once each and in the order of their times, and has left no temporary file,
\* whatever the source has and whether or not it is a page of formats; the file holds
\* all of them, or the first ones where closing it failed without a word (save, _mux).
THEOREM SavesAreWhole == MediaSpec => []SavedIsWhole
BY SaveInit, SaveStep, SaveShows, OfEach, PTL

=============================================================================
