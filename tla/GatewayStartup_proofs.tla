----------------------- MODULE GatewayStartup_proofs -----------------------
(***************************************************************************)
(* The address plan of a bus of gateways, for any fleet, deployment,       *)
(* callers and grants: the rules stop what the grants do not cover and     *)
(* nothing else, and what they let pass is served as it was projected.     *)
(* Then the start of one gateway: what it serves is subscribed.            *)
(***************************************************************************)
EXTENDS GatewayStartupMC, SequenceTheorems, FiniteSetTheorems, WellFoundedInduction, TLAPS

(***************************************************************************)
(* Topics, level by level.                                                 *)
(***************************************************************************)

\* A sequence that goes on with another's elements where the first one ends.
LEMMA Joined ==
    ASSUME NEW S, NEW s \in Seq(S), NEW t \in Seq(S), NEW r \in Seq(S), Len(r) = Len(s) + Len(t),
           \A i \in 1 .. Len(r) : r[i] = IF i <= Len(s) THEN s[i] ELSE t[i - Len(s)]
    PROVE  s \o t = r
<1>1. /\ s \o t \in Seq(S) /\ Len(s \o t) = Len(s) + Len(t)
      /\ \A i \in 1 .. Len(s) + Len(t) : (s \o t)[i] = IF i <= Len(s) THEN s[i] ELSE t[i - Len(s)]
  BY ConcatProperties
<1> QED BY <1>1, SeqEqual

LEMMA Join12 == ASSUME NEW a, NEW b, NEW c PROVE <<a>> \o <<b, c>> = <<a, b, c>>
<1> DEFINE S == {a, b, c}
           s == <<a>>
           t == <<b, c>>
           r == <<a, b, c>>
<1>1. s \in Seq(S) /\ t \in Seq(S) /\ r \in Seq(S)
  OBVIOUS
<1>2. /\ Len(s) = 1 /\ Len(t) = 2 /\ Len(r) = 3
      /\ \A i \in 1 .. 3 : r[i] = IF i <= 1 THEN s[i] ELSE t[i - 1]
  OBVIOUS
<1>3. s \o t = r
  <2> HIDE DEF S, s, t, r
  <2>1. Len(r) = Len(s) + Len(t)
    BY <1>2
  <2>2. \A i \in 1 .. Len(r) : r[i] = IF i <= Len(s) THEN s[i] ELSE t[i - Len(s)]
    BY <1>2
  <2> QED BY ONLY <1>1, <2>1, <2>2, Joined
<1> QED BY <1>3

LEMMA Join13 == ASSUME NEW a, NEW b, NEW c, NEW d PROVE <<a>> \o <<b, c, d>> = <<a, b, c, d>>
<1> DEFINE S == {a, b, c, d}
           s == <<a>>
           t == <<b, c, d>>
           r == <<a, b, c, d>>
<1>1. s \in Seq(S) /\ t \in Seq(S) /\ r \in Seq(S)
  OBVIOUS
<1>2. /\ Len(s) = 1 /\ Len(t) = 3 /\ Len(r) = 4
      /\ \A i \in 1 .. 4 : r[i] = IF i <= 1 THEN s[i] ELSE t[i - 1]
  OBVIOUS
<1>3. s \o t = r
  <2> HIDE DEF S, s, t, r
  <2>1. Len(r) = Len(s) + Len(t)
    BY <1>2
  <2>2. \A i \in 1 .. Len(r) : r[i] = IF i <= Len(s) THEN s[i] ELSE t[i - Len(s)]
    BY <1>2
  <2> QED BY ONLY <1>1, <2>1, <2>2, Joined
<1> QED BY <1>3

LEMMA Join31 == ASSUME NEW a, NEW b, NEW c, NEW d PROVE <<a, b, c>> \o <<d>> = <<a, b, c, d>>
<1> DEFINE S == {a, b, c, d}
           s == <<a, b, c>>
           t == <<d>>
           r == <<a, b, c, d>>
<1>1. s \in Seq(S) /\ t \in Seq(S) /\ r \in Seq(S)
  OBVIOUS
<1>2. /\ Len(s) = 3 /\ Len(t) = 1 /\ Len(r) = 4
      /\ \A i \in 1 .. 4 : r[i] = IF i <= 3 THEN s[i] ELSE t[i - 3]
  OBVIOUS
<1>3. s \o t = r
  <2> HIDE DEF S, s, t, r
  <2>1. Len(r) = Len(s) + Len(t)
    BY <1>2
  <2>2. \A i \in 1 .. Len(r) : r[i] = IF i <= Len(s) THEN s[i] ELSE t[i - Len(s)]
    BY <1>2
  <2> QED BY ONLY <1>1, <2>1, <2>2, Joined
<1> QED BY <1>3

LEMMA Join41 == ASSUME NEW a, NEW b, NEW c, NEW d, NEW e PROVE <<a, b, c, d>> \o <<e>> = <<a, b, c, d, e>>
<1> DEFINE S == {a, b, c, d, e}
           s == <<a, b, c, d>>
           t == <<e>>
           r == <<a, b, c, d, e>>
<1>1. s \in Seq(S) /\ t \in Seq(S) /\ r \in Seq(S)
  OBVIOUS
<1>2. /\ Len(s) = 4 /\ Len(t) = 1 /\ Len(r) = 5
      /\ \A i \in 1 .. 5 : r[i] = IF i <= 4 THEN s[i] ELSE t[i - 4]
  OBVIOUS
<1>3. s \o t = r
  <2> HIDE DEF S, s, t, r
  <2>1. Len(r) = Len(s) + Len(t)
    BY <1>2
  <2>2. \A i \in 1 .. Len(r) : r[i] = IF i <= Len(s) THEN s[i] ELSE t[i - Len(s)]
    BY <1>2
  <2> QED BY ONLY <1>1, <2>1, <2>2, Joined
<1> QED BY <1>3

LEMMA Join51 == ASSUME NEW a, NEW b, NEW c, NEW d, NEW e, NEW f PROVE <<a, b, c, d, e>> \o <<f>> = <<a, b, c, d, e, f>>
<1> DEFINE S == {a, b, c, d, e, f}
           s == <<a, b, c, d, e>>
           t == <<f>>
           r == <<a, b, c, d, e, f>>
<1>1. s \in Seq(S) /\ t \in Seq(S) /\ r \in Seq(S)
  OBVIOUS
<1>2. /\ Len(s) = 5 /\ Len(t) = 1 /\ Len(r) = 6
      /\ \A i \in 1 .. 6 : r[i] = IF i <= 5 THEN s[i] ELSE t[i - 5]
  OBVIOUS
<1>3. s \o t = r
  <2> HIDE DEF S, s, t, r
  <2>1. Len(r) = Len(s) + Len(t)
    BY <1>2
  <2>2. \A i \in 1 .. Len(r) : r[i] = IF i <= Len(s) THEN s[i] ELSE t[i - Len(s)]
    BY <1>2
  <2> QED BY ONLY <1>1, <2>1, <2>2, Joined
<1> QED BY <1>3

LEMMA Join32 == ASSUME NEW a, NEW b, NEW c, NEW d, NEW e PROVE <<a, b, c>> \o <<d, e>> = <<a, b, c, d, e>>
<1> DEFINE S == {a, b, c, d, e}
           s == <<a, b, c>>
           t == <<d, e>>
           r == <<a, b, c, d, e>>
<1>1. s \in Seq(S) /\ t \in Seq(S) /\ r \in Seq(S)
  OBVIOUS
<1>2. /\ Len(s) = 3 /\ Len(t) = 2 /\ Len(r) = 5
      /\ \A i \in 1 .. 5 : r[i] = IF i <= 3 THEN s[i] ELSE t[i - 3]
  OBVIOUS
<1>3. s \o t = r
  <2> HIDE DEF S, s, t, r
  <2>1. Len(r) = Len(s) + Len(t)
    BY <1>2
  <2>2. \A i \in 1 .. Len(r) : r[i] = IF i <= Len(s) THEN s[i] ELSE t[i - Len(s)]
    BY <1>2
  <2> QED BY ONLY <1>1, <2>1, <2>2, Joined
<1> QED BY <1>3

LEMMA Join42 == ASSUME NEW a, NEW b, NEW c, NEW d, NEW e, NEW f PROVE <<a, b, c, d>> \o <<e, f>> = <<a, b, c, d, e, f>>
<1> DEFINE S == {a, b, c, d, e, f}
           s == <<a, b, c, d>>
           t == <<e, f>>
           r == <<a, b, c, d, e, f>>
<1>1. s \in Seq(S) /\ t \in Seq(S) /\ r \in Seq(S)
  OBVIOUS
<1>2. /\ Len(s) = 4 /\ Len(t) = 2 /\ Len(r) = 6
      /\ \A i \in 1 .. 6 : r[i] = IF i <= 4 THEN s[i] ELSE t[i - 4]
  OBVIOUS
<1>3. s \o t = r
  <2> HIDE DEF S, s, t, r
  <2>1. Len(r) = Len(s) + Len(t)
    BY <1>2
  <2>2. \A i \in 1 .. Len(r) : r[i] = IF i <= Len(s) THEN s[i] ELSE t[i - Len(s)]
    BY <1>2
  <2> QED BY ONLY <1>1, <2>1, <2>2, Joined
<1> QED BY <1>3

\* A filter and a topic of one length match level by level.
LEMMA Match3 ==
    ASSUME NEW a, NEW b, NEW c, NEW e, NEW f, NEW g
    PROVE  Bus!Matches(<<a, b, c>>, <<e, f, g>>) <=> a \in {Bus!Some, e} /\ b \in {Bus!Some, f} /\ c \in {Bus!Some, g}
  BY DEF Bus!Matches

LEMMA Match4 ==
    ASSUME NEW a, NEW b, NEW c, NEW d, NEW e, NEW f, NEW g, NEW h
    PROVE  Bus!Matches(<<a, b, c, d>>, <<e, f, g, h>>) <=>
             a \in {Bus!Some, e} /\ b \in {Bus!Some, f} /\ c \in {Bus!Some, g} /\ d \in {Bus!Some, h}
  BY DEF Bus!Matches

LEMMA Match5 ==
    ASSUME NEW a, NEW b, NEW c, NEW d, NEW x, NEW e, NEW f, NEW g, NEW h, NEW y
    PROVE  Bus!Matches(<<a, b, c, d, x>>, <<e, f, g, h, y>>) <=>
             a \in {Bus!Some, e} /\ b \in {Bus!Some, f} /\ c \in {Bus!Some, g} /\ d \in {Bus!Some, h} /\ x \in {Bus!Some, y}
  BY DEF Bus!Matches

LEMMA Match6 ==
    ASSUME NEW a, NEW b, NEW c, NEW d, NEW x, NEW v, NEW e, NEW f, NEW g, NEW h, NEW y, NEW w
    PROVE  Bus!Matches(<<a, b, c, d, x, v>>, <<e, f, g, h, y, w>>) <=>
             /\ a \in {Bus!Some, e} /\ b \in {Bus!Some, f} /\ c \in {Bus!Some, g}
             /\ d \in {Bus!Some, h} /\ x \in {Bus!Some, y} /\ v \in {Bus!Some, w}
  BY DEF Bus!Matches

LEMMA Match45 ==
    ASSUME NEW a, NEW b, NEW c, NEW d, NEW e, NEW f, NEW g, NEW h, NEW y
    PROVE  ~Bus!Matches(<<a, b, c, d>>, <<e, f, g, h, y>>) /\ ~Bus!Matches(<<e, f, g, h, y>>, <<a, b, c, d>>)
  BY DEF Bus!Matches
\* The request of an operation of a Thing by a user, or a filter for such requests.
Req(s, op, n, u) == <<s>> \o Bus!Kind(op, n) \o <<u>>

\* What is one level below a topic.
On(topic, e) == topic \o <<e>>

Stated == DOMAIN Bus!Word

LEMMA StatedIs ==
    /\ Stated = {"readproperty", "writeproperty", "observeproperty"}
    /\ Bus!Carried = Stated \cup {Bus!Invoke, Bus!Subscribe}
    /\ Bus!Invoke \notin Stated /\ Bus!Subscribe \notin Stated /\ Bus!Invoke # Bus!Subscribe
    /\ Bus!Observe \in Stated
    /\ \A p, q \in Stated : Bus!Word[p] = Bus!Word[q] => p = q
  BY DEF Stated, Bus!Word, Bus!Carried, Bus!Invoke, Bus!Subscribe, Bus!Observe

LEMMA KindIs ==
    ASSUME NEW n
    PROVE  /\ Bus!Kind(Bus!Invoke, n) = <<"actions", n>>
           /\ Bus!Kind(Bus!Subscribe, n) = <<"events", n, "subscribe">>
           /\ \A op \in Stated : Bus!Kind(op, n) = <<"props", n, Bus!Word[op]>>
<1>1. Bus!Kind(Bus!Invoke, n) = <<"actions", n>>
  BY StatedIs DEF Bus!Kind
<1>2. Bus!Kind(Bus!Subscribe, n) = <<"events", n, "subscribe">>
  BY StatedIs DEF Bus!Kind
<1>3. ASSUME NEW op \in Stated PROVE Bus!Kind(op, n) = <<"props", n, Bus!Word[op]>>
  <2>1. op # Bus!Invoke /\ op # Bus!Subscribe
    BY StatedIs
  <2> QED BY <2>1 DEF Bus!Kind
<1> QED BY <1>1, <1>2, <1>3

LEMMA ReqIs ==
    ASSUME NEW s, NEW n, NEW u
    PROVE  /\ Req(s, Bus!Invoke, n, u) = <<s, "actions", n, u>>
           /\ Req(s, Bus!Subscribe, n, u) = <<s, "events", n, "subscribe", u>>
           /\ \A op \in Stated : Req(s, op, n, u) = <<s, "props", n, Bus!Word[op], u>>
<1>1. Req(s, Bus!Invoke, n, u) = <<s, "actions", n, u>>
  <2>1. <<s>> \o <<"actions", n>> = <<s, "actions", n>> /\ <<s, "actions", n>> \o <<u>> = <<s, "actions", n, u>>
    BY Join12, Join31
  <2> QED BY <2>1, KindIs DEF Req
<1>2. Req(s, Bus!Subscribe, n, u) = <<s, "events", n, "subscribe", u>>
  <2>1. /\ <<s>> \o <<"events", n, "subscribe">> = <<s, "events", n, "subscribe">>
        /\ <<s, "events", n, "subscribe">> \o <<u>> = <<s, "events", n, "subscribe", u>>
    BY Join13, Join41
  <2> QED BY <2>1, KindIs DEF Req
<1>3. ASSUME NEW op \in Stated PROVE Req(s, op, n, u) = <<s, "props", n, Bus!Word[op], u>>
  <2>1. /\ <<s>> \o <<"props", n, Bus!Word[op]>> = <<s, "props", n, Bus!Word[op]>>
        /\ <<s, "props", n, Bus!Word[op]>> \o <<u>> = <<s, "props", n, Bus!Word[op], u>>
    BY Join13, Join41
  <2> QED BY <2>1, KindIs DEF Req
<1> QED BY <1>1, <1>2, <1>3

\* The reply and the stream of a request, one level further on.
LEMMA ReqGoesOn ==
    ASSUME NEW s, NEW n, NEW u, NEW e
    PROVE  /\ On(Req(s, Bus!Invoke, n, u), e) = <<s, "actions", n, u, e>>
           /\ On(Req(s, Bus!Subscribe, n, u), e) = <<s, "events", n, "subscribe", u, e>>
<1>1. On(Req(s, Bus!Invoke, n, u), e) = <<s, "actions", n, u, e>>
  <2>1. <<s, "actions", n, u>> \o <<e>> = <<s, "actions", n, u, e>>
    BY Join41
  <2> QED BY <2>1, ReqIs DEF On
<1>2. On(Req(s, Bus!Subscribe, n, u), e) = <<s, "events", n, "subscribe", u, e>>
  <2>1. <<s, "events", n, "subscribe", u>> \o <<e>> = <<s, "events", n, "subscribe", u, e>>
    BY Join51
  <2> QED BY <2>1, ReqIs DEF On
<1> QED BY <1>1, <1>2

LEMMA StatedGoesOn ==
    ASSUME NEW s, NEW op \in Stated, NEW n, NEW u, NEW e
    PROVE  On(Req(s, op, n, u), e) = <<s, "props", n, Bus!Word[op], u, e>>
<1>1. <<s, "props", n, Bus!Word[op], u>> \o <<e>> = <<s, "props", n, Bus!Word[op], u, e>>
  BY Join51
<1> QED BY <1>1, ReqIs DEF On

\* A filter of the rules names its last two levels at once.
LEMMA RulesGoOn ==
    ASSUME NEW s, NEW op \in Bus!Carried, NEW n, NEW u, NEW e
    PROVE  <<s>> \o Bus!Kind(op, n) \o <<u, e>> = On(Req(s, op, n, u), e)
<1>1. CASE op = Bus!Invoke
  <2>1. <<s>> \o <<"actions", n>> = <<s, "actions", n>> /\ <<s, "actions", n>> \o <<u, e>> = <<s, "actions", n, u, e>>
    BY Join12, Join32
  <2>2. <<s>> \o Bus!Kind(op, n) \o <<u, e>> = <<s, "actions", n, u, e>>
    BY <1>1, <2>1, KindIs
  <2> QED BY <1>1, <2>2, ReqGoesOn
<1>2. CASE op = Bus!Subscribe
  <2>1. /\ <<s>> \o <<"events", n, "subscribe">> = <<s, "events", n, "subscribe">>
        /\ <<s, "events", n, "subscribe">> \o <<u, e>> = <<s, "events", n, "subscribe", u, e>>
    BY Join13, Join42
  <2>2. <<s>> \o Bus!Kind(op, n) \o <<u, e>> = <<s, "events", n, "subscribe", u, e>>
    BY <1>2, <2>1, KindIs
  <2> QED BY <1>2, <2>2, ReqGoesOn
<1>3. CASE op \in Stated
  <2>1. /\ <<s>> \o <<"props", n, Bus!Word[op]>> = <<s, "props", n, Bus!Word[op]>>
        /\ <<s, "props", n, Bus!Word[op]>> \o <<u, e>> = <<s, "props", n, Bus!Word[op], u, e>>
    BY Join13, Join42
  <2>2. <<s>> \o Bus!Kind(op, n) \o <<u, e>> = <<s, "props", n, Bus!Word[op], u, e>>
    BY <1>3, <2>1, KindIs
  <2> QED BY <1>3, <2>2, StatedGoesOn
<1> QED BY <1>1, <1>2, <1>3, StatedIs

\* A filter for requests matches those of its operation, Thing, name and user.
LEMMA ReqMatches ==
    ASSUME NEW s, NEW p \in Bus!Carried, NEW m, NEW u, NEW t, NEW op \in Bus!Carried, NEW n, NEW v
    PROVE  Bus!Matches(Req(s, p, m, u), Req(t, op, n, v)) <=>
             p = op /\ s \in {Bus!Some, t} /\ m \in {Bus!Some, n} /\ u \in {Bus!Some, v}
<1> DEFINE same == s \in {Bus!Some, t} /\ m \in {Bus!Some, n} /\ u \in {Bus!Some, v}
<1>0. (p = Bus!Invoke \/ p = Bus!Subscribe \/ p \in Stated) /\ (op = Bus!Invoke \/ op = Bus!Subscribe \/ op \in Stated)
  BY StatedIs
<1>1. CASE p = Bus!Invoke /\ op = Bus!Invoke
  BY <1>1, ReqIs, Match4
<1>2. CASE p = Bus!Invoke /\ op # Bus!Invoke
  <2>1. Req(t, op, n, v) = <<t, "events", n, "subscribe", v>> \/ Req(t, op, n, v) = <<t, "props", n, Bus!Word[op], v>>
    <3>1. CASE op = Bus!Subscribe
      BY <3>1, ReqIs
    <3>2. CASE op \in Stated
      BY <3>2, ReqIs
    <3> QED BY <1>0, <1>2, <3>1, <3>2
  <2>2. /\ ~Bus!Matches(<<s, "actions", m, u>>, <<t, "events", n, "subscribe", v>>)
        /\ ~Bus!Matches(<<s, "actions", m, u>>, <<t, "props", n, Bus!Word[op], v>>)
    BY Match45
  <2> QED BY <1>2, <2>1, <2>2, ReqIs
<1>3. CASE op = Bus!Invoke /\ p # Bus!Invoke
  <2>1. Req(s, p, m, u) = <<s, "events", m, "subscribe", u>> \/ Req(s, p, m, u) = <<s, "props", m, Bus!Word[p], u>>
    <3>1. CASE p = Bus!Subscribe
      BY <3>1, ReqIs
    <3>2. CASE p \in Stated
      BY <3>2, ReqIs
    <3> QED BY <1>0, <1>3, <3>1, <3>2
  <2>2. /\ ~Bus!Matches(<<s, "events", m, "subscribe", u>>, <<t, "actions", n, v>>)
        /\ ~Bus!Matches(<<s, "props", m, Bus!Word[p], u>>, <<t, "actions", n, v>>)
    BY Match45
  <2> QED BY <1>3, <2>1, <2>2, ReqIs
<1>4. CASE p = Bus!Subscribe /\ op = Bus!Subscribe
  BY <1>4, ReqIs, Match5
<1>5. CASE p \in Stated /\ op \in Stated
  <2>1. Bus!Matches(<<s, "props", m, Bus!Word[p], u>>, <<t, "props", n, Bus!Word[op], v>>) <=>
          s \in {Bus!Some, t} /\ "props" \in {Bus!Some, "props"} /\ m \in {Bus!Some, n}
          /\ Bus!Word[p] \in {Bus!Some, Bus!Word[op]} /\ u \in {Bus!Some, v}
    BY Match5
  <2>2. Bus!Word[p] # Bus!Some
    BY <1>5 DEF Stated, Bus!Word, Bus!Some
  <2>3. Bus!Word[p] = Bus!Word[op] <=> p = op
    BY <1>5, StatedIs
  <2>4. Req(s, p, m, u) = <<s, "props", m, Bus!Word[p], u>> /\ Req(t, op, n, v) = <<t, "props", n, Bus!Word[op], v>>
    <3>1. Req(s, p, m, u) = <<s, "props", m, Bus!Word[p], u>>
      BY <1>5, ReqIs
    <3>2. Req(t, op, n, v) = <<t, "props", n, Bus!Word[op], v>>
      BY <1>5, ReqIs
    <3> QED BY <3>1, <3>2
  <2> QED BY <2>1, <2>2, <2>3, <2>4
<1>6. CASE p = Bus!Subscribe /\ op \in Stated
  <2>1. ~Bus!Matches(<<s, "events", m, "subscribe", u>>, <<t, "props", n, Bus!Word[op], v>>)
    BY Match5 DEF Bus!Some
  <2> QED BY <1>6, <2>1, ReqIs, StatedIs
<1>7. CASE op = Bus!Subscribe /\ p \in Stated
  <2>1. ~Bus!Matches(<<s, "props", m, Bus!Word[p], u>>, <<t, "events", n, "subscribe", v>>)
    BY Match5 DEF Bus!Some
  <2> QED BY <1>7, <2>1, ReqIs, StatedIs
<1> QED BY <1>0, <1>1, <1>2, <1>3, <1>4, <1>5, <1>6, <1>7

\* So do the filters for replies and streams.
LEMMA AnswerMatches ==
    ASSUME NEW s, NEW op \in Bus!Carried, NEW m, NEW u, NEW t, NEW n, NEW v, NEW e,
           s \in {Bus!Some, t}, m \in {Bus!Some, n}, u \in {Bus!Some, v}
    PROVE  Bus!Matches(On(Req(s, op, m, u), e), On(Req(t, op, n, v), e))
<1>1. CASE op = Bus!Invoke
  <2>1. Bus!Matches(<<s, "actions", m, u, e>>, <<t, "actions", n, v, e>>)
    BY Match5
  <2>2. On(Req(s, op, m, u), e) = <<s, "actions", m, u, e>>
    BY <1>1, ReqGoesOn
  <2>3. On(Req(t, op, n, v), e) = <<t, "actions", n, v, e>>
    BY <1>1, ReqGoesOn
  <2> QED BY <2>1, <2>2, <2>3
<1>2. CASE op = Bus!Subscribe
  <2>1. Bus!Matches(<<s, "events", m, "subscribe", u, e>>, <<t, "events", n, "subscribe", v, e>>)
    BY Match6
  <2>2. On(Req(s, op, m, u), e) = <<s, "events", m, "subscribe", u, e>>
    BY <1>2, ReqGoesOn
  <2>3. On(Req(t, op, n, v), e) = <<t, "events", n, "subscribe", v, e>>
    BY <1>2, ReqGoesOn
  <2> QED BY <2>1, <2>2, <2>3
<1>3. CASE op \in Stated
  <2>1. Bus!Matches(<<s, "props", m, Bus!Word[op], u, e>>, <<t, "props", n, Bus!Word[op], v, e>>)
    BY Match6
  <2>2. On(Req(s, op, m, u), e) = <<s, "props", m, Bus!Word[op], u, e>>
    BY <1>3, StatedGoesOn
  <2>3. On(Req(t, op, n, v), e) = <<t, "props", n, Bus!Word[op], v, e>>
    BY <1>3, StatedGoesOn
  <2> QED BY <2>1, <2>2, <2>3
<1> QED BY <1>1, <1>2, <1>3, StatedIs
(***************************************************************************)
(* The rules.                                                              *)
(***************************************************************************)

LEMMA ServingHas ==
    ASSUME NEW slugs, NEW slug \in slugs, NEW op \in Bus!Carried
    PROVE  /\ <<"read", Req(slug, op, Bus!Some, Bus!Some)>> \in Bus!Serving(slugs)
           /\ <<"write", On(Req(slug, op, Bus!Some, Bus!Some), "reply")>> \in Bus!Serving(slugs)
           /\ op \in {Bus!Observe, Bus!Subscribe} =>
                <<"write", On(Req(slug, op, Bus!Some, Bus!Some), "stream")>> \in Bus!Serving(slugs)
<1> DEFINE kind == Bus!Kind(op, Bus!Some)
           read == Bus!Rules("read", {<<slug>> \o k \o <<Bus!Some>> : k \in Bus!Requested})
           reply == Bus!Rules("write", {<<slug>> \o k \o <<Bus!Some, "reply">> : k \in Bus!Requested})
           stream == Bus!Rules("write", {<<slug>> \o k \o <<Bus!Some, "stream">> : k \in Bus!Streamed})
<1>1. kind \in Bus!Requested /\ (op \in {Bus!Observe, Bus!Subscribe} => kind \in Bus!Streamed)
  BY DEF Bus!Requested, Bus!Streamed
<1>2. read \subseteq Bus!Serving(slugs) /\ reply \subseteq Bus!Serving(slugs) /\ stream \subseteq Bus!Serving(slugs)
  <2> DEFINE Of(z) ==
        Bus!Rules("read", {<<z>> \o k \o <<Bus!Some>> : k \in Bus!Requested})
        \cup Bus!Rules("write", {<<z>> \o k \o <<Bus!Some, "reply">> : k \in Bus!Requested})
        \cup Bus!Rules("write", {<<z>> \o k \o <<Bus!Some, "stream">> : k \in Bus!Streamed})
        \cup Bus!Rules("write", {<<z>> \o k : k \in Bus!Published})
  <2>1. Bus!Serving(slugs) = UNION {Of(z) : z \in slugs}
    BY Zenon DEF Bus!Serving
  <2>2. read \subseteq Of(slug) /\ reply \subseteq Of(slug) /\ stream \subseteq Of(slug)
    <3> HIDE DEF read, reply, stream
    <3> QED BY DEF read, reply, stream
  <2> HIDE DEF Of, read, reply, stream
  <2> QED BY <2>1, <2>2
<1>3. <<"read", Req(slug, op, Bus!Some, Bus!Some)>> \in read
  <2>1. Req(slug, op, Bus!Some, Bus!Some) = <<slug>> \o kind \o <<Bus!Some>>
    BY DEF Req
  <2> QED BY <1>1, <2>1 DEF Bus!Rules
<1>4. <<"write", On(Req(slug, op, Bus!Some, Bus!Some), "reply")>> \in reply
  <2>1. On(Req(slug, op, Bus!Some, Bus!Some), "reply") = <<slug>> \o kind \o <<Bus!Some, "reply">>
    BY RulesGoOn
  <2> QED BY <1>1, <2>1 DEF Bus!Rules
<1>5. ASSUME op \in {Bus!Observe, Bus!Subscribe}
      PROVE  <<"write", On(Req(slug, op, Bus!Some, Bus!Some), "stream")>> \in stream
  <2>1. On(Req(slug, op, Bus!Some, Bus!Some), "stream") = <<slug>> \o kind \o <<Bus!Some, "stream">>
    BY RulesGoOn
  <2> QED BY <1>1, <1>5, <2>1 DEF Bus!Rules
<1> HIDE DEF read, reply, stream
<1> QED BY <1>2, <1>3, <1>4, <1>5

LEMMA UngrantedHas ==
    ASSUME NEW user, NEW op \in Bus!Carried
    PROVE  /\ <<"write", Req(Bus!Some, op, Bus!Some, user)>> \in Bus!Ungranted(user)
           /\ <<"read", On(Req(Bus!Some, op, Bus!Some, user), "reply")>> \in Bus!Ungranted(user)
           /\ op \in {Bus!Observe, Bus!Subscribe} =>
                <<"read", On(Req(Bus!Some, op, Bus!Some, user), "stream")>> \in Bus!Ungranted(user)
<1> DEFINE kind == Bus!Kind(op, Bus!Some)
           sent == Bus!Rules("write", {<<Bus!Some>> \o k \o <<user>> : k \in Bus!Requested})
           reply == Bus!Rules("read", {<<Bus!Some>> \o k \o <<user, "reply">> : k \in Bus!Requested})
           stream == Bus!Rules("read", {<<Bus!Some>> \o k \o <<user, "stream">> : k \in Bus!Streamed})
<1>1. kind \in Bus!Requested /\ (op \in {Bus!Observe, Bus!Subscribe} => kind \in Bus!Streamed)
  BY DEF Bus!Requested, Bus!Streamed
<1>2. sent \subseteq Bus!Ungranted(user) /\ reply \subseteq Bus!Ungranted(user) /\ stream \subseteq Bus!Ungranted(user)
  BY DEF Bus!Ungranted
<1>3. <<"write", Req(Bus!Some, op, Bus!Some, user)>> \in sent
  <2>1. Req(Bus!Some, op, Bus!Some, user) = <<Bus!Some>> \o kind \o <<user>>
    BY DEF Req
  <2> QED BY <1>1, <2>1 DEF Bus!Rules
<1>4. <<"read", On(Req(Bus!Some, op, Bus!Some, user), "reply")>> \in reply
  <2>1. On(Req(Bus!Some, op, Bus!Some, user), "reply") = <<Bus!Some>> \o kind \o <<user, "reply">>
    BY RulesGoOn
  <2> QED BY <1>1, <2>1 DEF Bus!Rules
<1>5. ASSUME op \in {Bus!Observe, Bus!Subscribe}
      PROVE  <<"read", On(Req(Bus!Some, op, Bus!Some, user), "stream")>> \in stream
  <2>1. On(Req(Bus!Some, op, Bus!Some, user), "stream") = <<Bus!Some>> \o kind \o <<user, "stream">>
    BY RulesGoOn
  <2> QED BY <1>1, <1>5, <2>1 DEF Bus!Rules
<1> HIDE DEF sent, reply, stream
<1> QED BY <1>2, <1>3, <1>4, <1>5

\* The topic a grant of an operation is for.
GrantTopic(user, g, op) == Req(Bus!SlugOf(g[1]), op, Bus!Level(g[2]), user)

LEMMA GrantRulesAre ==
    ASSUME NEW user, NEW g, NEW op
    PROVE  /\ <<"write", GrantTopic(user, g, op)>> \in Bus!GrantRules(user, g, op)
           /\ <<"read", On(GrantTopic(user, g, op), "reply")>> \in Bus!GrantRules(user, g, op)
           /\ op \in {Bus!Observe, Bus!Subscribe} =>
                <<"read", On(GrantTopic(user, g, op), "stream")>> \in Bus!GrantRules(user, g, op)
           /\ \A rule \in Bus!GrantRules(user, g, op) : rule[1] = "write" => rule[2] = GrantTopic(user, g, op)
<1> DEFINE topic == GrantTopic(user, g, op)
<1>1. topic = <<Bus!SlugOf(g[1])>> \o Bus!Kind(op, Bus!Level(g[2])) \o <<user>>
  BY DEF GrantTopic, Req
<1>2. Bus!GrantRules(user, g, op) =
        {<<"write", topic>>, <<"read", On(topic, "reply")>>}
        \cup IF op \in {Bus!Subscribe, Bus!Observe} THEN {<<"read", On(topic, "stream")>>} ELSE {}
  BY <1>1 DEF Bus!GrantRules, On
<1> HIDE DEF topic
<1>3. \A rule \in Bus!GrantRules(user, g, op) : rule[1] = "write" => rule[2] = topic
  BY <1>2
<1> QED BY <1>2, <1>3 DEF topic

LEMMA GrantedIs ==
    ASSUME NEW user, NEW held, NEW rule
    PROVE  rule \in Bus!Granted(user, held) <=>
             \E g \in held : \E op \in Bus!Carried : g[3] \in {Bus!Every, op} /\ rule \in Bus!GrantRules(user, g, op)
  BY DEF Bus!Granted

\* An operation of a Thing's affordance that the bus carries.
Offered(t, n, op) == t \in Fleets /\ n \in DOMAIN t.affs /\ op \in t.affs[n] /\ op \in Bus!Carried

LEMMA ThingFacts ==
    ASSUME NEW t \in Fleets
    PROVE  /\ t.slug # Bus!Some /\ Bus!Some \notin DOMAIN t.affs
           /\ \A u \in Fleets : t.slug = u.slug \/ t.id = u.id => t = u
           /\ Bus!SlugOf(t.id) = t.slug
<1>1. /\ t.slug # Bus!Some /\ Bus!Some \notin DOMAIN t.affs
      /\ \A u \in Fleets : t.slug = u.slug \/ t.id = u.id => t = u
  BY BusAssumption DEF Bus!BusAssumption
<1>2. (CHOOSE u \in Fleets : u.id = t.id) = t
  BY <1>1
<1> QED BY <1>1, <1>2 DEF Bus!SlugOf

LEMMA GrantMatches ==
    ASSUME NEW t, NEW n, NEW op, Offered(t, n, op), NEW held \in Policies, NEW g \in held, NEW p \in Bus!Carried, NEW user
    PROVE  Bus!Matches(GrantTopic(user, g, p), Req(t.slug, op, n, user)) <=>
             p = op /\ g[1] = t.id /\ g[2] \in {Bus!Every, n}
<1>1. PICK u \in Fleets : u.id = g[1]
  BY BusAssumption DEF Bus!BusAssumption
<1>2. g[2] # Bus!Some
  BY BusAssumption DEF Bus!BusAssumption
<1>3. Bus!SlugOf(g[1]) = u.slug /\ u.slug # Bus!Some /\ (u.slug = t.slug <=> g[1] = t.id)
  BY <1>1, ThingFacts DEF Offered
<1>4. Bus!Level(g[2]) \in {Bus!Some, n} <=> g[2] \in {Bus!Every, n}
  BY <1>2 DEF Bus!Level
<1>5. op \in Bus!Carried
  BY DEF Offered
<1>6. Bus!Matches(Req(Bus!SlugOf(g[1]), p, Bus!Level(g[2]), user), Req(t.slug, op, n, user)) <=>
        p = op /\ Bus!SlugOf(g[1]) \in {Bus!Some, t.slug} /\ Bus!Level(g[2]) \in {Bus!Some, n} /\ user \in {Bus!Some, user}
  BY <1>5, ReqMatches
<1> QED BY <1>3, <1>4, <1>6 DEF GrantTopic

\* Of the rules of a caller's grants, one lets a request pass when a grant covers it.
LEMMA GrantedWrites ==
    ASSUME NEW t, NEW n, NEW op, Offered(t, n, op), NEW held \in Policies, NEW user
    PROVE  (\E rule \in Bus!Granted(user, held) : rule[1] = "write" /\ Bus!Matches(rule[2], Req(t.slug, op, n, user)))
             <=> Bus!Covering(held, t.id, n, op) # {}
<1>1. ASSUME NEW rule \in Bus!Granted(user, held), rule[1] = "write", Bus!Matches(rule[2], Req(t.slug, op, n, user))
      PROVE  Bus!Covering(held, t.id, n, op) # {}
  <2>1. PICK g \in held : \E p \in Bus!Carried : g[3] \in {Bus!Every, p} /\ rule \in Bus!GrantRules(user, g, p)
    BY GrantedIs
  <2>2. PICK p \in Bus!Carried : g[3] \in {Bus!Every, p} /\ rule \in Bus!GrantRules(user, g, p)
    BY <2>1
  <2>3. rule[2] = GrantTopic(user, g, p)
    <3>1. \A r \in Bus!GrantRules(user, g, p) : r[1] = "write" => r[2] = GrantTopic(user, g, p)
      BY GrantRulesAre
    <3> QED BY <1>1, <2>2, <3>1
  <2>4. p = op /\ g[1] = t.id /\ g[2] \in {Bus!Every, n}
    BY <1>1, <2>3, GrantMatches
  <2> QED BY <2>2, <2>4 DEF Bus!Covering
<1>2. ASSUME Bus!Covering(held, t.id, n, op) # {}
      PROVE  \E rule \in Bus!Granted(user, held) : rule[1] = "write" /\ Bus!Matches(rule[2], Req(t.slug, op, n, user))
  <2>1. PICK g \in held : g[1] = t.id /\ g[2] \in {Bus!Every, n} /\ g[3] \in {Bus!Every, op}
    BY <1>2 DEF Bus!Covering
  <2>2. op \in Bus!Carried
    BY DEF Offered
  <2> DEFINE rule == <<"write", GrantTopic(user, g, op)>>
  <2>3. rule \in Bus!Granted(user, held)
    <3>1. rule \in Bus!GrantRules(user, g, op)
      BY GrantRulesAre
    <3> HIDE DEF rule
    <3> QED BY <2>1, <2>2, <3>1, GrantedIs
  <2>4. Bus!Matches(GrantTopic(user, g, op), Req(t.slug, op, n, user))
    BY <2>1, <2>2, GrantMatches
  <2> QED BY <2>3, <2>4
<1> QED BY <1>1, <1>2

\* And its answers reach the caller.
LEMMA GrantedReads ==
    ASSUME NEW t, NEW n, NEW op, Offered(t, n, op), NEW held \in Policies, NEW user, Bus!Covering(held, t.id, n, op) # {},
           NEW e, e = "reply" \/ (e = "stream" /\ op \in {Bus!Observe, Bus!Subscribe})
    PROVE  \E rule \in Bus!Granted(user, held) : rule[1] = "read" /\ Bus!Matches(rule[2], On(Req(t.slug, op, n, user), e))
<1>1. PICK g \in held : g[1] = t.id /\ g[2] \in {Bus!Every, n} /\ g[3] \in {Bus!Every, op}
  BY DEF Bus!Covering
<1>2. op \in Bus!Carried /\ t \in Fleets
  BY DEF Offered
<1> DEFINE rule == <<"read", On(GrantTopic(user, g, op), e)>>
<1>3. rule \in Bus!Granted(user, held)
  <2>1. rule \in Bus!GrantRules(user, g, op)
    BY GrantRulesAre
  <2> HIDE DEF rule
  <2> QED BY <1>1, <1>2, <2>1, GrantedIs
<1>4. Bus!SlugOf(g[1]) = t.slug /\ Bus!Level(g[2]) \in {Bus!Some, n}
  BY <1>1, <1>2, ThingFacts DEF Bus!Level
<1>5. Bus!Matches(On(Req(Bus!SlugOf(g[1]), op, Bus!Level(g[2]), user), e), On(Req(t.slug, op, n, user), e))
  BY <1>2, <1>4, AnswerMatches
<1>6. Bus!Matches(rule[2], On(Req(t.slug, op, n, user), e)) /\ rule[1] = "read"
  BY <1>5 DEF GrantTopic
<1> HIDE DEF rule
<1> QED BY <1>3, <1>6

(***************************************************************************)
(* What the broker lets pass on a guarded bus.                             *)
(***************************************************************************)

LEMMA LetsIs ==
    ASSUME NEW user, NEW access, NEW topic, guarded = TRUE
    PROVE  Bus!Lets(user, access, topic) <=> \E rule \in Bus!AclOf(user) : rule[1] = access /\ Bus!Matches(rule[2], topic)
  BY DEF Bus!Lets

LEMMA CallersRules ==
    ASSUME serves \in Deployments, NEW user \in Callers
    PROVE  Bus!AclOf(user) = (IF user \in Listed THEN Bus!Granted(user, loaded[user]) ELSE Bus!Ungranted(user))
                             \cup Bus!Rules("read", {<<Bus!Some>> \o kind : kind \in Bus!Published})
<1>1. user \notin Bus!Gateways
  BY BusAssumption DEF Bus!BusAssumption, Bus!Gateways
<1> QED BY <1>1 DEF Bus!AclOf

LEMMA LetsSend ==
    ASSUME serves \in Deployments, guarded = TRUE, NEW user \in Callers, loaded[user] \in Policies,
           NEW t, NEW n, NEW op, Offered(t, n, op)
    PROVE  Bus!Lets(user, "write", Req(t.slug, op, n, user)) <=>
             (user \in Listed => Bus!Covering(loaded[user], t.id, n, op) # {})
<1> DEFINE topic == Req(t.slug, op, n, user)
           seen == Bus!Rules("read", {<<Bus!Some>> \o kind : kind \in Bus!Published})
<1>0. \A rule \in seen : rule[1] = "read"
  BY DEF Bus!Rules
<1>a. Bus!AclOf(user) = (IF user \in Listed THEN Bus!Granted(user, loaded[user]) ELSE Bus!Ungranted(user)) \cup seen
  BY CallersRules
<1>b. Bus!Lets(user, "write", topic) <=> \E rule \in Bus!AclOf(user) : rule[1] = "write" /\ Bus!Matches(rule[2], topic)
  BY LetsIs
<1>1. CASE user \in Listed
  <2>1. (\E rule \in Bus!Granted(user, loaded[user]) : rule[1] = "write" /\ Bus!Matches(rule[2], topic))
          <=> Bus!Covering(loaded[user], t.id, n, op) # {}
    BY GrantedWrites
  <2> HIDE DEF topic, seen
  <2>2. Bus!Lets(user, "write", topic) <=> \E rule \in Bus!Granted(user, loaded[user]) : rule[1] = "write" /\ Bus!Matches(rule[2], topic)
    BY <1>0, <1>1, <1>a, <1>b
  <2> QED BY <1>1, <2>1, <2>2 DEF topic
<1>2. CASE user \notin Listed
  <2>0. op \in Bus!Carried
    BY DEF Offered
  <2> DEFINE rule == <<"write", Req(Bus!Some, op, Bus!Some, user)>>
  <2>1. rule \in Bus!Ungranted(user)
    BY <2>0, UngrantedHas
  <2>2. Bus!Matches(Req(Bus!Some, op, Bus!Some, user), topic)
    BY <2>0, ReqMatches
  <2>3. rule[1] = "write" /\ Bus!Matches(rule[2], topic)
    BY <2>2
  <2> HIDE DEF topic, seen, rule
  <2> QED BY <1>2, <1>a, <1>b, <2>1, <2>3 DEF topic
<1> QED BY <1>1, <1>2

LEMMA LetsHear ==
    ASSUME serves \in Deployments, guarded = TRUE, NEW user \in Callers, loaded[user] \in Policies,
           NEW t, NEW n, NEW op, Offered(t, n, op), user \in Listed => Bus!Covering(loaded[user], t.id, n, op) # {},
           NEW e, e = "reply" \/ (e = "stream" /\ op \in {Bus!Observe, Bus!Subscribe})
    PROVE  Bus!Lets(user, "read", On(Req(t.slug, op, n, user), e))
<1> DEFINE topic == On(Req(t.slug, op, n, user), e)
           seen == Bus!Rules("read", {<<Bus!Some>> \o kind : kind \in Bus!Published})
<1>a. Bus!AclOf(user) = (IF user \in Listed THEN Bus!Granted(user, loaded[user]) ELSE Bus!Ungranted(user)) \cup seen
  BY CallersRules
<1>b. Bus!Lets(user, "read", topic) <=> \E rule \in Bus!AclOf(user) : rule[1] = "read" /\ Bus!Matches(rule[2], topic)
  BY LetsIs
<1>1. CASE user \in Listed
  <2>1. \E rule \in Bus!Granted(user, loaded[user]) : rule[1] = "read" /\ Bus!Matches(rule[2], topic)
    BY <1>1, GrantedReads
  <2> HIDE DEF topic, seen
  <2> QED BY <1>1, <1>a, <1>b, <2>1 DEF topic
<1>2. CASE user \notin Listed
  <2>0. op \in Bus!Carried
    BY DEF Offered
  <2> DEFINE rule == <<"read", On(Req(Bus!Some, op, Bus!Some, user), e)>>
  <2>1. rule \in Bus!Ungranted(user)
    BY <2>0, UngrantedHas
  <2>2. Bus!Matches(On(Req(Bus!Some, op, Bus!Some, user), e), topic)
    BY <2>0, AnswerMatches
  <2>3. rule[1] = "read" /\ Bus!Matches(rule[2], topic)
    BY <2>2
  <2> HIDE DEF topic, seen, rule
  <2> QED BY <1>2, <1>a, <1>b, <2>1, <2>3 DEF topic
<1> QED BY <1>1, <1>2

LEMMA LetsServe ==
    ASSUME serves \in Deployments, guarded = TRUE, NEW g \in DOMAIN serves, NEW t \in serves[g], NEW n, NEW op, Offered(t, n, op), NEW u
    PROVE  /\ Bus!Lets(g, "read", Req(t.slug, op, n, u))
           /\ \A e : e = "reply" \/ (e = "stream" /\ op \in {Bus!Observe, Bus!Subscribe}) =>
                Bus!Lets(g, "write", On(Req(t.slug, op, n, u), e))
<1> DEFINE slugs == IF Bus!Alone THEN {Bus!Some} ELSE {v.slug : v \in serves[g]}
<1>1. Bus!AclOf(g) = Bus!Serving(slugs)
  BY DEF Bus!AclOf, Bus!Gateways
<1>2. PICK slug \in slugs : slug \in {Bus!Some, t.slug}
  OBVIOUS
<1>3. op \in Bus!Carried
  BY DEF Offered
<1> HIDE DEF slugs
<1>4. Bus!Lets(g, "read", Req(t.slug, op, n, u))
  <2> DEFINE rule == <<"read", Req(slug, op, Bus!Some, Bus!Some)>>
  <2>1. rule \in Bus!AclOf(g)
    BY <1>1, <1>3, ServingHas
  <2>2. Bus!Matches(Req(slug, op, Bus!Some, Bus!Some), Req(t.slug, op, n, u))
    BY <1>2, <1>3, ReqMatches
  <2>3. rule[1] = "read" /\ Bus!Matches(rule[2], Req(t.slug, op, n, u))
    BY <2>2
  <2> HIDE DEF rule
  <2> QED BY <2>1, <2>3, LetsIs
<1>5. ASSUME NEW e, e = "reply" \/ (e = "stream" /\ op \in {Bus!Observe, Bus!Subscribe})
      PROVE  Bus!Lets(g, "write", On(Req(t.slug, op, n, u), e))
  <2> DEFINE rule == <<"write", On(Req(slug, op, Bus!Some, Bus!Some), e)>>
  <2>1. rule \in Bus!AclOf(g)
    BY <1>1, <1>3, <1>5, ServingHas
  <2>2. Bus!Matches(On(Req(slug, op, Bus!Some, Bus!Some), e), On(Req(t.slug, op, n, u), e))
    BY <1>2, <1>3, AnswerMatches
  <2>3. rule[1] = "write" /\ Bus!Matches(rule[2], On(Req(t.slug, op, n, u), e))
    BY <2>2
  <2> HIDE DEF rule
  <2> QED BY <2>1, <2>3, LetsIs
<1> QED BY <1>4, <1>5

(***************************************************************************)
(* Forms and routes.                                                       *)
(***************************************************************************)

Class(op) == IF op = Bus!Invoke THEN "actions" ELSE IF op = Bus!Subscribe THEN "events" ELSE "props"

LEMMA OpenIs == ASSUME NEW s, NEW op, NEW n PROVE <<s>> \o Bus!Open(op, n) = <<s, Class(op), n>>
<1>1. Bus!Open(op, n) = <<Class(op), n>>
  BY StatedIs DEF Bus!Open, Class
<1>2. <<s>> \o <<Class(op), n>> = <<s, Class(op), n>>
  BY Join12
<1> QED BY <1>1, <1>2

\* Where the form of an operation sends its requests.
TopicOf(t, n, op, user) == IF guarded THEN Req(t.slug, op, n, user) ELSE <<t.slug, Class(op), n>>

LEMMA FormIs ==
    ASSUME NEW t, NEW n, NEW op, NEW user, NEW topic \in Bus!Form(t, n, op, user)
    PROVE  /\ op \in Bus!Carried /\ topic = TopicOf(t, n, op, user)
           /\ guarded \/ op \notin {Bus!Observe, Bus!Subscribe}
<1>1. op \in Bus!Carried /\ ~(op = Bus!Observe /\ ~guarded)
  BY DEF Bus!Form
<1>2. CASE guarded
  <2>1. topic = <<t.slug>> \o Bus!Kind(op, n) \o <<user>>
    BY <1>1, <1>2 DEF Bus!Form
  <2> QED BY <1>1, <1>2, <2>1 DEF TopicOf, Req
<1>3. CASE ~guarded
  <2>1. topic = <<t.slug>> \o Bus!Open(op, n) /\ op # Bus!Subscribe
    BY <1>1, <1>3 DEF Bus!Form
  <2> QED BY <1>1, <1>3, <2>1, OpenIs DEF TopicOf
<1> QED BY <1>2, <1>3

\* The route of an operation.
RouteOf(t, n, op) ==
    Bus!Route(IF guarded THEN Req(t.slug, op, n, Bus!Some) ELSE <<t.slug, Class(op), n>>, t, n,
              IF guarded \/ op = Bus!Invoke THEN op ELSE "writeproperty")

LEMMA OperationsAre ==
    ASSUME NEW x
    PROVE  x \in Bus!Operations <=> \E t \in Fleets : \E n \in DOMAIN t.affs : \E op \in t.affs[n] : x = <<t, n, op>>
  BY DEF Bus!Operations

LEMMA RouteExpr ==
    ASSUME NEW t, NEW n, NEW op
    PROVE  Bus!Route(IF guarded THEN <<t.slug>> \o Bus!Kind(op, n) \o <<Bus!Some>> ELSE <<t.slug>> \o Bus!Open(op, n),
                     t, n, IF guarded \/ op = Bus!Invoke THEN op ELSE "writeproperty") = RouteOf(t, n, op)
<1>1. <<t.slug>> \o Bus!Open(op, n) = <<t.slug, Class(op), n>>
  BY OpenIs
<1>2. <<t.slug>> \o Bus!Kind(op, n) \o <<Bus!Some>> = Req(t.slug, op, n, Bus!Some)
  BY DEF Req
<1> QED BY <1>1, <1>2 DEF RouteOf

LEMMA RoutesAre ==
    ASSUME serves \in Deployments, NEW g \in DOMAIN serves, NEW route
    PROVE  route \in Bus!Routes(g) <=>
             \E t \in serves[g] : \E n \in DOMAIN t.affs : \E op \in t.affs[n] :
               Offered(t, n, op) /\ (guarded \/ op # Bus!Subscribe) /\ route = RouteOf(t, n, op)
<1> DEFINE Routed == {y \in Bus!Operations : y[1] \in serves[g] /\ y[3] \in Bus!Carried /\ (guarded \/ y[3] # Bus!Subscribe)}
           Of(x) == Bus!Route(IF guarded THEN <<x[1].slug>> \o Bus!Kind(x[3], x[2]) \o <<Bus!Some>>
                              ELSE <<x[1].slug>> \o Bus!Open(x[3], x[2]),
                              x[1], x[2], IF guarded \/ x[3] = Bus!Invoke THEN x[3] ELSE "writeproperty")
<1>0. serves[g] \subseteq Fleets
  BY BusAssumption DEF Bus!BusAssumption
<1>1. Bus!Routes(g) = {Of(x) : x \in Routed}
  BY Zenon DEF Bus!Routes
<1>2. \A x : Of(x) = RouteOf(x[1], x[2], x[3])
  BY RouteExpr
<1>3. ASSUME NEW x \in Routed
      PROVE  \E t \in serves[g] : \E n \in DOMAIN t.affs : \E op \in t.affs[n] :
               Offered(t, n, op) /\ (guarded \/ op # Bus!Subscribe) /\ RouteOf(x[1], x[2], x[3]) = RouteOf(t, n, op)
  <2>0. PICK t \in Fleets : \E n \in DOMAIN t.affs : \E op \in t.affs[n] : x = <<t, n, op>>
    BY <1>3, OperationsAre
  <2>1. PICK n \in DOMAIN t.affs : \E op \in t.affs[n] : x = <<t, n, op>>
    BY <2>0
  <2>2. PICK op \in t.affs[n] : x = <<t, n, op>>
    BY <2>1
  <2>3. x[1] = t /\ x[2] = n /\ x[3] = op
    BY <2>2
  <2> QED BY <1>3, <2>3 DEF Offered
<1>4. ASSUME NEW t \in serves[g], NEW n \in DOMAIN t.affs, NEW op \in t.affs[n], Offered(t, n, op), guarded \/ op # Bus!Subscribe
      PROVE  \E x \in Routed : RouteOf(x[1], x[2], x[3]) = RouteOf(t, n, op)
  <2> DEFINE x == <<t, n, op>>
  <2>1. x \in Bus!Operations
    BY <1>4, OperationsAre DEF Offered
  <2>2. x[1] = t /\ x[2] = n /\ x[3] = op
    OBVIOUS
  <2> QED BY <1>4, <2>1, <2>2 DEF Offered
<1> HIDE DEF Routed, Of
<1> QED BY <1>1, <1>2, <1>3, <1>4

LEMMA RoutesMatch ==
    ASSUME serves \in Deployments, guarded \in BOOLEAN, NEW t, NEW n, NEW op, Offered(t, n, op), NEW user,
           guarded \/ op \notin {Bus!Observe, Bus!Subscribe},
           NEW u, NEW m, NEW p, Offered(u, m, p), guarded \/ p # Bus!Subscribe
    PROVE  /\ Bus!Matches(RouteOf(u, m, p).filter, TopicOf(t, n, op, user)) => u = t /\ RouteOf(u, m, p) = RouteOf(t, n, op)
           /\ Bus!Matches(RouteOf(t, n, op).filter, TopicOf(t, n, op, user))
<1>0. /\ t \in Fleets /\ u \in Fleets /\ n \in DOMAIN t.affs /\ m \in DOMAIN u.affs
      /\ op \in Bus!Carried /\ p \in Bus!Carried
  BY DEF Offered
<1>1. /\ t.slug # Bus!Some /\ u.slug # Bus!Some /\ n # Bus!Some /\ m # Bus!Some
      /\ t.slug = u.slug => t = u
  BY <1>0, ThingFacts
<1>2. CASE guarded
  <2>1. /\ RouteOf(u, m, p).filter = Req(u.slug, p, m, Bus!Some) /\ RouteOf(t, n, op).filter = Req(t.slug, op, n, Bus!Some)
        /\ TopicOf(t, n, op, user) = Req(t.slug, op, n, user)
    BY <1>2 DEF RouteOf, TopicOf, Bus!Route
  <2>2. Bus!Matches(Req(u.slug, p, m, Bus!Some), Req(t.slug, op, n, user)) <=>
          p = op /\ u.slug \in {Bus!Some, t.slug} /\ m \in {Bus!Some, n} /\ Bus!Some \in {Bus!Some, user}
    BY <1>0, ReqMatches
  <2>3. Bus!Matches(Req(t.slug, op, n, Bus!Some), Req(t.slug, op, n, user)) <=>
          op = op /\ t.slug \in {Bus!Some, t.slug} /\ n \in {Bus!Some, n} /\ Bus!Some \in {Bus!Some, user}
    BY <1>0, ReqMatches
  <2> QED BY <1>1, <2>1, <2>2, <2>3
<1>3. CASE ~guarded
  <2>1. /\ RouteOf(u, m, p).filter = <<u.slug, Class(p), m>> /\ RouteOf(t, n, op).filter = <<t.slug, Class(op), n>>
        /\ TopicOf(t, n, op, user) = <<t.slug, Class(op), n>>
    BY <1>3 DEF RouteOf, TopicOf, Bus!Route
  <2>2. Bus!Matches(<<u.slug, Class(p), m>>, <<t.slug, Class(op), n>>) <=>
          u.slug \in {Bus!Some, t.slug} /\ Class(p) \in {Bus!Some, Class(op)} /\ m \in {Bus!Some, n}
    BY Match3
  <2>3. Bus!Matches(<<t.slug, Class(op), n>>, <<t.slug, Class(op), n>>)
    BY Match3
  <2>4. Class(p) # Bus!Some /\ (Class(p) = Class(op) => (p = Bus!Invoke <=> op = Bus!Invoke))
    BY <1>3 DEF Class, Bus!Some
  <2>5. ASSUME Bus!Matches(<<u.slug, Class(p), m>>, <<t.slug, Class(op), n>>)
        PROVE  u = t /\ RouteOf(u, m, p) = RouteOf(t, n, op)
    <3>1. u = t /\ m = n /\ Class(p) = Class(op)
      BY <1>1, <2>2, <2>4, <2>5
    <3>2. (IF guarded \/ p = Bus!Invoke THEN p ELSE "writeproperty") = (IF guarded \/ op = Bus!Invoke THEN op ELSE "writeproperty")
      BY <1>3, <2>4, <3>1
    <3> QED BY <1>3, <3>1, <3>2 DEF RouteOf
  <2> QED BY <2>1, <2>3, <2>5
<1> QED BY <1>2, <1>3

\* A request that was let pass is taken by one gateway, by the one route of its operation.
LEMMA TakenOnce ==
    ASSUME serves \in Deployments, guarded \in BOOLEAN, NEW req,
           Offered(req.thing, req.aff, req.op), guarded \/ req.op \notin {Bus!Observe, Bus!Subscribe},
           req.topic = TopicOf(req.thing, req.aff, req.op, req.by)
    PROVE  \E g \in DOMAIN serves :
             /\ req.thing \in serves[g]
             /\ Bus!Taking(req) = {[by |-> g, route |-> RouteOf(req.thing, req.aff, req.op)]}
<1> DEFINE t == req.thing
           n == req.aff
           op == req.op
           mine == RouteOf(t, n, op)
<1>0. t \in Fleets /\ n \in DOMAIN t.affs /\ op \in t.affs[n] /\ op \in Bus!Carried
  BY DEF Offered
<1>1. /\ UNION {serves[g] : g \in DOMAIN serves} = Fleets
      /\ \A g, h \in DOMAIN serves : serves[g] \cap serves[h] # {} => g = h
  BY BusAssumption DEF Bus!BusAssumption
<1>2. PICK g \in DOMAIN serves : t \in serves[g]
  BY <1>0, <1>1
<1>3. \A h \in DOMAIN serves : t \in serves[h] => h = g
  BY <1>1, <1>2
<1>4. ASSUME NEW h \in DOMAIN serves, NEW route \in Bus!Routes(h), Bus!Matches(route.filter, req.topic)
      PROVE  h = g /\ route = mine
  <2>1. PICK u \in serves[h] : \E m \in DOMAIN u.affs : \E p \in u.affs[m] :
          Offered(u, m, p) /\ (guarded \/ p # Bus!Subscribe) /\ route = RouteOf(u, m, p)
    BY RoutesAre
  <2>2. PICK m \in DOMAIN u.affs : \E p \in u.affs[m] :
          Offered(u, m, p) /\ (guarded \/ p # Bus!Subscribe) /\ route = RouteOf(u, m, p)
    BY <2>1
  <2>3. PICK p \in u.affs[m] : Offered(u, m, p) /\ (guarded \/ p # Bus!Subscribe) /\ route = RouteOf(u, m, p)
    BY <2>2
  <2>4. u = t /\ RouteOf(u, m, p) = mine
    BY <1>4, <2>3, RoutesMatch
  <2> QED BY <1>3, <2>1, <2>3, <2>4
<1>5. mine \in Bus!Routes(g) /\ Bus!Matches(mine.filter, req.topic)
  <2>1. mine \in Bus!Routes(g)
    BY <1>0, <1>2, RoutesAre
  <2> QED BY <2>1, RoutesMatch
<1>6. Bus!Lets(g, "read", req.topic)
  <2>1. CASE guarded
    <3>1. req.topic = Req(t.slug, op, n, req.by)
      BY <2>1 DEF TopicOf
    <3>2. guarded = TRUE
      BY <2>1
    <3>3. Bus!Lets(g, "read", Req(t.slug, op, n, req.by))
      BY <3>2, <1>2, LetsServe
    <3> QED BY <3>1, <3>3
  <2>2. CASE ~guarded
    BY <2>2 DEF Bus!Lets
  <2> QED BY <2>1, <2>2
<1>7. \A x : x \in Bus!Taking(req) <=>
        \E h \in DOMAIN serves : \E route \in Bus!Routes(h) :
          Bus!Matches(route.filter, req.topic) /\ Bus!Lets(h, "read", req.topic) /\ x = [by |-> h, route |-> route]
  BY DEF Bus!Taking, Bus!Gateways
<1> HIDE DEF t, n, op, mine
<1>8. Bus!Taking(req) = {[by |-> g, route |-> mine]}
  BY <1>2, <1>4, <1>5, <1>6, <1>7
<1> QED BY <1>2, <1>8 DEF t, n, op, mine

(***************************************************************************)
(* A request, from its form to its answer.                                 *)
(***************************************************************************)

ReqFields == {"phase", "by", "thing", "aff", "op", "topic", "rules", "under", "served", "heard"}

\* Who serves a request, and with what outcome.
ServedBy(g, req, outcome) ==
    [gateway |-> g, thing |-> req.thing, aff |-> req.aff, op |-> req.op, outcome |-> outcome]

Sound(req) ==
    \/ req.phase = "idle"
    \/ /\ DOMAIN req = ReqFields
       /\ req.phase \in {"stopped", "sent", "handled", "answered"}
       /\ req.by \in Callers /\ req.rules \in Policies
       /\ Offered(req.thing, req.aff, req.op)
       /\ guarded \/ req.op \notin {Bus!Observe, Bus!Subscribe}
       /\ req.topic = TopicOf(req.thing, req.aff, req.op, req.by)
       /\ req.phase = "stopped" <=>
            guarded /\ req.by \in Listed /\ Bus!Covering(req.rules, req.thing.id, req.aff, req.op) = {}
       /\ req.phase \in {"handled", "answered"} =>
            \E g \in DOMAIN serves : \E outcome \in {"ran", "denied"} :
              req.thing \in serves[g] /\ req.served = {ServedBy(g, req, outcome)}
       /\ req.phase = "answered" /\ req.rules = req.under => req.heard

BusInv ==
    /\ serves \in Deployments /\ guarded \in BOOLEAN
    /\ loaded \in [Callers -> Policies] /\ grants \in [Callers -> Policies]
    /\ DOMAIN request = Requests
    /\ \A r \in Requests : Sound(request[r])

\* A step of one request.
LEMMA OneRequest ==
    ASSUME BusInv, NEW r \in Requests, NEW req, request' = [request EXCEPT ![r] = req], Sound(req),
           UNCHANGED <<serves, guarded, grants, loaded>>
    PROVE  BusInv'
<1>1. DOMAIN request' = Requests /\ request'[r] = req /\ \A q \in Requests \ {r} : request'[q] = request[q]
  BY DEF BusInv
<1>2. ASSUME NEW q \in Requests PROVE Sound(request[q])'
  <2>1. Sound(request'[q])
    BY <1>1, <1>2 DEF BusInv
  <2>2. serves' = serves /\ guarded' = guarded
    OBVIOUS
  <2> QED BY ONLY <2>1, <2>2 DEF Sound, TopicOf, Offered, ServedBy
<1> QED BY <1>1, <1>2 DEF BusInv

LEMMA SendStep ==
    ASSUME BusInv, NEW r \in Requests, NEW user \in Callers, NEW x \in Bus!Operations, Bus!Send(r, user, x[1], x[2], x[3])
    PROVE  BusInv'
<1> DEFINE t == x[1]
           n == x[2]
           op == x[3]
<1>1. t \in Fleets /\ n \in DOMAIN t.affs /\ op \in t.affs[n]
  <2>1. PICK a \in Fleets : \E b \in DOMAIN a.affs : \E c \in a.affs[b] : x = <<a, b, c>>
    BY OperationsAre
  <2> QED BY <2>1
<1>2. PICK topic \in Bus!Form(t, n, op, user) :
        request' = [request EXCEPT ![r] =
             [phase |-> IF Bus!Lets(user, "write", topic) THEN "sent" ELSE "stopped",
              by |-> user, thing |-> t, aff |-> n, op |-> op, topic |-> topic,
              rules |-> loaded[user], under |-> loaded[user], served |-> {}, heard |-> FALSE]]
  BY DEF Bus!Send
<1> DEFINE req == [phase |-> IF Bus!Lets(user, "write", topic) THEN "sent" ELSE "stopped",
              by |-> user, thing |-> t, aff |-> n, op |-> op, topic |-> topic,
              rules |-> loaded[user], under |-> loaded[user], served |-> {}, heard |-> FALSE]
<1>3. UNCHANGED <<serves, guarded, grants, loaded>> /\ loaded[user] \in Policies
  BY DEF Bus!Send, BusInv
<1>4. /\ op \in Bus!Carried /\ topic = TopicOf(t, n, op, user)
      /\ guarded \/ op \notin {Bus!Observe, Bus!Subscribe}
  BY FormIs
<1> HIDE DEF t, n, op
<1>5. Offered(t, n, op)
  BY <1>1, <1>4 DEF Offered
<1>6. /\ DOMAIN req = ReqFields /\ req.by = user /\ req.thing = t /\ req.aff = n /\ req.op = op
      /\ req.topic = topic /\ req.rules = loaded[user]
      /\ req.phase = (IF Bus!Lets(user, "write", topic) THEN "sent" ELSE "stopped")
  BY DEF ReqFields
<1> HIDE DEF req
<1>7. req.phase = "stopped" <=> guarded /\ user \in Listed /\ Bus!Covering(loaded[user], t.id, n, op) = {}
  <2>1. CASE guarded
    <3>1. topic = Req(t.slug, op, n, user)
      BY <1>4, <2>1 DEF TopicOf
    <3>2. guarded = TRUE /\ serves \in Deployments
      BY <2>1 DEF BusInv
    <3>3. Bus!Lets(user, "write", Req(t.slug, op, n, user)) <=>
             (user \in Listed => Bus!Covering(loaded[user], t.id, n, op) # {})
      BY <1>3, <1>5, <3>2, LetsSend
    <3> QED BY <1>6, <2>1, <3>1, <3>3
  <2>2. CASE ~guarded
    <3>1. Bus!Lets(user, "write", topic)
      BY <2>2 DEF Bus!Lets
    <3> QED BY <1>6, <2>2, <3>1
  <2> QED BY <2>1, <2>2
<1>8. req.phase \in {"stopped", "sent"}
  BY <1>6
<1>9. Sound(req)
  BY <1>3, <1>4, <1>5, <1>6, <1>7, <1>8 DEF Sound
<1>10. request' = [request EXCEPT ![r] = req]
  BY <1>2 DEF req
<1> QED BY <1>3, <1>9, <1>10, OneRequest

LEMMA HandleStepOfBus ==
    ASSUME BusInv, NEW r \in Requests, Bus!Handle(r)
    PROVE  BusInv'
<1> DEFINE old == request[r]
           ends == {[gateway |-> taking.by, thing |-> taking.route.thing, aff |-> taking.route.aff,
                     op |-> Bus!Runs(taking.route, old), outcome |-> Bus!Decides(old, taking.route)] : taking \in Bus!Taking(old)}
           req == [[old EXCEPT !.phase = "handled"] EXCEPT !.served = ends]
<1>1. old.phase = "sent" /\ UNCHANGED <<serves, guarded, grants, loaded>>
  BY DEF Bus!Handle
<1>2. request' = [request EXCEPT ![r] = req]
  BY DEF Bus!Handle, BusInv
<1>3. /\ DOMAIN old = ReqFields /\ old.by \in Callers /\ old.rules \in Policies
      /\ Offered(old.thing, old.aff, old.op)
      /\ guarded \/ old.op \notin {Bus!Observe, Bus!Subscribe}
      /\ old.topic = TopicOf(old.thing, old.aff, old.op, old.by)
      /\ ~(guarded /\ old.by \in Listed /\ Bus!Covering(old.rules, old.thing.id, old.aff, old.op) = {})
  BY <1>1 DEF BusInv, Sound
<1>4. PICK g \in DOMAIN serves :
        old.thing \in serves[g] /\ Bus!Taking(old) = {[by |-> g, route |-> RouteOf(old.thing, old.aff, old.op)]}
  BY <1>3, TakenOnce DEF BusInv
<1> DEFINE route == RouteOf(old.thing, old.aff, old.op)
           outcome == Bus!Decides(old, route)
<1>5. route.thing = old.thing /\ route.aff = old.aff
      /\ route.op = (IF guarded \/ old.op = Bus!Invoke THEN old.op ELSE "writeproperty")
  BY DEF RouteOf, Bus!Route
<1>6. Bus!Runs(route, old) = old.op
  <2>1. old.op \in Bus!Carried
    BY <1>3 DEF Offered
  <2>2. ~guarded => old.op \in {Bus!Invoke, "readproperty", "writeproperty"}
    BY <1>3, <2>1, StatedIs DEF Bus!Observe
  <2>3. Bus!Invoke # "writeproperty" /\ "readproperty" # "writeproperty"
    BY DEF Bus!Invoke
  <2> QED BY <1>5, <2>2, <2>3 DEF Bus!Runs
<1>7. outcome \in {"ran", "denied"}
  BY DEF Bus!Decides
<1>8. ends = {ServedBy(g, old, outcome)}
  <2> DEFINE taking == [by |-> g, route |-> route]
             Of(y) == [gateway |-> y.by, thing |-> y.route.thing, aff |-> y.route.aff,
                       op |-> Bus!Runs(y.route, old), outcome |-> Bus!Decides(old, y.route)]
  <2>1. ends = {Of(y) : y \in Bus!Taking(old)} /\ Bus!Taking(old) = {taking}
    BY <1>4
  <2>2. taking.by = g /\ taking.route = route
    OBVIOUS
  <2>3. Of(taking) = ServedBy(g, old, outcome)
    <3> HIDE DEF route, taking
    <3> QED BY <1>5, <1>6, <2>2 DEF ServedBy
  <2> HIDE DEF Of, taking, ends, outcome
  <2> QED BY <2>1, <2>3
<1> HIDE DEF ends, outcome
<1>9. /\ DOMAIN req = ReqFields /\ req.phase = "handled" /\ req.served = ends
      /\ req.by = old.by /\ req.thing = old.thing /\ req.aff = old.aff /\ req.op = old.op
      /\ req.topic = old.topic /\ req.rules = old.rules
  BY <1>3 DEF ReqFields
<1> HIDE DEF req
<1>10. ServedBy(g, req, outcome) = ServedBy(g, old, outcome)
  BY <1>9 DEF ServedBy
<1>11. Sound(req)
  BY <1>3, <1>4, <1>7, <1>8, <1>9, <1>10 DEF Sound
<1> QED BY <1>1, <1>2, <1>11, OneRequest

LEMMA AnswerStep ==
    ASSUME BusInv, NEW r \in Requests, Bus!Answer(r)
    PROVE  BusInv'
<1> DEFINE old == request[r]
           heard == \A done \in old.served : \A topic \in Bus!Back(old, done) :
                      Bus!Lets(done.gateway, "write", topic) /\ Bus!Lets(old.by, "read", topic)
           req == [[[old EXCEPT !.phase = "answered"] EXCEPT !.under = loaded[old.by]] EXCEPT !.heard = heard]
<1>1. old.phase = "handled" /\ UNCHANGED <<serves, guarded, grants, loaded>>
  BY DEF Bus!Answer
<1>2. request' = [request EXCEPT ![r] = req]
  BY DEF Bus!Answer, BusInv
<1>3. /\ DOMAIN old = ReqFields /\ old.by \in Callers /\ old.rules \in Policies
      /\ Offered(old.thing, old.aff, old.op)
      /\ guarded \/ old.op \notin {Bus!Observe, Bus!Subscribe}
      /\ old.topic = TopicOf(old.thing, old.aff, old.op, old.by)
      /\ ~(guarded /\ old.by \in Listed /\ Bus!Covering(old.rules, old.thing.id, old.aff, old.op) = {})
      /\ \E g \in DOMAIN serves : \E outcome \in {"ran", "denied"} :
              old.thing \in serves[g] /\ old.served = {ServedBy(g, old, outcome)}
  BY <1>1 DEF BusInv, Sound
<1>4. PICK g \in DOMAIN serves : \E outcome \in {"ran", "denied"} :
              old.thing \in serves[g] /\ old.served = {ServedBy(g, old, outcome)}
  BY <1>3
<1>5. PICK outcome \in {"ran", "denied"} : old.thing \in serves[g] /\ old.served = {ServedBy(g, old, outcome)}
  BY <1>4
<1>6. ASSUME old.rules = loaded[old.by] PROVE heard
  <2> DEFINE done == ServedBy(g, old, outcome)
  <2>1. done.gateway = g /\ done.op = old.op
    BY DEF ServedBy
  <2>2. ASSUME NEW topic \in Bus!Back(old, done)
        PROVE  Bus!Lets(g, "write", topic) /\ Bus!Lets(old.by, "read", topic)
    <3>1. CASE ~guarded
      BY <3>1 DEF Bus!Lets
    <3>2. CASE guarded
      <4>0. guarded = TRUE /\ serves \in Deployments /\ loaded[old.by] \in Policies
        BY <1>3, <3>2 DEF BusInv
      <4>1. PICK e : /\ topic = On(old.topic, e)
                     /\ e = "reply" \/ (e = "stream" /\ old.op \in {Bus!Observe, Bus!Subscribe})
        <5>1. topic = old.topic \o <<"reply">> \/ (topic = old.topic \o <<"stream">> /\ old.op \in {Bus!Observe, Bus!Subscribe})
          BY <2>1 DEF Bus!Back
        <5> QED BY <5>1 DEF On
      <4>2. old.topic = Req(old.thing.slug, old.op, old.aff, old.by)
        BY <1>3, <3>2 DEF TopicOf
      <4>3. old.by \in Listed => Bus!Covering(loaded[old.by], old.thing.id, old.aff, old.op) # {}
        BY <1>3, <1>6, <3>2
      <4>4. Bus!Lets(g, "write", On(Req(old.thing.slug, old.op, old.aff, old.by), e))
        BY <1>3, <1>5, <4>0, <4>1, LetsServe
      <4>5. Bus!Lets(old.by, "read", On(Req(old.thing.slug, old.op, old.aff, old.by), e))
        BY <1>3, <4>0, <4>1, <4>3, LetsHear
      <4> QED BY <4>1, <4>2, <4>4, <4>5
    <3> QED BY <3>1, <3>2
  <2> HIDE DEF done
  <2>3. old.served = {done}
    BY <1>5 DEF done
  <2> QED BY <2>1, <2>2, <2>3
<1> HIDE DEF heard
<1>9. /\ DOMAIN req = ReqFields /\ req.phase = "answered" /\ req.under = loaded[old.by] /\ req.heard = heard
      /\ req.by = old.by /\ req.thing = old.thing /\ req.aff = old.aff /\ req.op = old.op
      /\ req.topic = old.topic /\ req.rules = old.rules /\ req.served = old.served
  BY <1>3 DEF ReqFields
<1> HIDE DEF req
<1>10. ServedBy(g, req, outcome) = ServedBy(g, old, outcome)
  BY <1>9 DEF ServedBy
<1>11. Sound(req)
  BY <1>3, <1>5, <1>6, <1>9, <1>10 DEF Sound
<1> QED BY <1>1, <1>2, <1>11, OneRequest

LEMMA BusInit == ASSUME Bus!Init PROVE BusInv
<1>1. \A r \in Requests : request[r].phase = "idle"
  BY DEF Bus!Init, Bus!Idle
<1>2. \A r \in Requests : Sound(request[r])
  BY <1>1 DEF Sound
<1> QED BY <1>2 DEF Bus!Init, BusInv

\* No other step touches a request, the deployment or the guard.
LEMMA RegrantStep ==
    ASSUME BusInv, UNCHANGED <<serves, guarded, request>>,
           loaded' \in [Callers -> Policies], grants' \in [Callers -> Policies]
    PROVE  BusInv'
<1>1. ASSUME NEW r \in Requests PROVE Sound(request[r])'
  <2>1. Sound(request[r])
    BY DEF BusInv
  <2> QED BY <2>1 DEF Sound, TopicOf, Offered, ServedBy
<1> QED BY <1>1 DEF BusInv

LEMMA BusStep == ASSUME BusInv, [Bus!Next]_busVars PROVE BusInv'
<1>1. ASSUME NEW r \in Requests, NEW user \in Callers, NEW x \in Bus!Operations, Bus!Send(r, user, x[1], x[2], x[3])
      PROVE  BusInv'
  BY <1>1, SendStep
<1>2. ASSUME NEW r \in Requests, Bus!Handle(r) \/ Bus!Answer(r) PROVE BusInv'
  BY <1>2, HandleStepOfBus, AnswerStep
<1>3. ASSUME NEW user \in Callers, NEW held \in Policies, Bus!Regrant(user, held) PROVE BusInv'
  <2>1. UNCHANGED <<serves, guarded, request, loaded>> /\ grants' = [grants EXCEPT ![user] = held]
    BY <1>3 DEF Bus!Regrant
  <2>2. grants' \in [Callers -> Policies] /\ loaded' \in [Callers -> Policies]
    BY <2>1 DEF BusInv
  <2> QED BY <2>1, <2>2, RegrantStep
<1>4. CASE Bus!Reload
  <2>1. UNCHANGED <<serves, guarded, request, grants>> /\ loaded' = grants
    BY <1>4 DEF Bus!Reload
  <2>2. grants' \in [Callers -> Policies] /\ loaded' \in [Callers -> Policies]
    BY <2>1 DEF BusInv
  <2> QED BY <2>1, <2>2, RegrantStep
<1>5. CASE UNCHANGED busVars
  <2>1. UNCHANGED <<serves, guarded, request, grants, loaded>>
    BY <1>5 DEF busVars
  <2>2. grants' \in [Callers -> Policies] /\ loaded' \in [Callers -> Policies]
    BY <2>1 DEF BusInv
  <2> QED BY <2>1, <2>2, RegrantStep
<1> QED BY <1>1, <1>2, <1>3, <1>4, <1>5 DEF Bus!Next

LEMMA BusOfParts ==
    /\ PartsInit => Bus!Init
    /\ [PartsNext]_<<part, vars, busVars>> => [Bus!Next]_busVars
  BY DEF PartsInit, Quiet, PartsNext

\* The broker stops the requests of a listed caller that no grant covers, as the policy
\* reads grants with their wildcards, and lets every other one pass: the rules compiled by
\* mosquitto.py say what Pdp decides, for any fleet, any grants and any topics a form
\* can name.
THEOREM RulesAreExact == PartsSpec => []GrantsAreExact
<1>1. BusInv => GrantsAreExact
  BY DEF BusInv, Sound, GrantsAreExact, Bus!GrantsAreExact
<1> QED BY <1>1, BusInit, BusStep, BusOfParts, PTL DEF PartsSpec

\* A request that was let pass is taken by the one gateway that serves its Thing, runs as
\* the operation its form was projected for, and its answer passes the rules on the way
\* back: projection.py, gateway.py and mosquitto.py agree on every topic, for any
\* deployment of any fleet, while grants change and the broker is reloaded.
THEOREM ProjectedIsServed == PartsSpec => []ServedAsProjected
<1>1. ASSUME BusInv, NEW r \in Requests, request[r].phase = "answered"
      PROVE  /\ \E g \in Bus!Gateways : request[r].thing \in serves[g] /\ \E outcome \in {"ran", "denied"} :
                  request[r].served = {[gateway |-> g, thing |-> request[r].thing, aff |-> request[r].aff,
                                        op |-> request[r].op, outcome |-> outcome]}
             /\ request[r].rules = request[r].under => request[r].heard
  <2>1. /\ \E g \in DOMAIN serves : \E outcome \in {"ran", "denied"} :
              request[r].thing \in serves[g] /\ request[r].served = {ServedBy(g, request[r], outcome)}
        /\ request[r].rules = request[r].under => request[r].heard
    BY <1>1 DEF BusInv, Sound
  <2> QED BY <2>1 DEF ServedBy, Bus!Gateways
<1>2. BusInv => ServedAsProjected
  BY <1>1 DEF ServedAsProjected, Bus!ServedAsProjected
<1> QED BY <1>2, BusInit, BusStep, BusOfParts, PTL DEF PartsSpec

(***************************************************************************)
(* The start of one gateway: what is served is subscribed.                 *)
(***************************************************************************)

Events == UNION {ToSet(Things[i].events) : i \in DOMAIN Things}
Items  == {Subscribe(t) : t \in Topics} \cup {Mirror(e) : e \in Events} \cup {Retain(n) : n \in Names}
Posts  == [kind : {"connack"}, start : Nat, ok : BOOLEAN]
            \cup [kind : {"suback"}, start : Nat, topic : Topics, ok : BOOLEAN]

Open == link \in {"opening", "up"}

\* Where serve can be, and what it has routed by then.
Stages ==
    /\ starts \in Nat
    /\ link \in {"none", "opening", "up", "down"}
    /\ pc \in {"off", "connecting", "subscribing", "waiting", "serving", "stopping"}
    /\ link = "none" <=> pc \in {"off", "connecting"}
    /\ todo \in Seq(Items)
    /\ routes \subseteq Topics /\ IsFiniteSet(routes)
    /\ pc \in {"off", "connecting", "stopping"} => routes = {}
    /\ pc = "subscribing" =>
          \A t \in Topics : t \in routes \/ \E i \in 1 .. Len(todo) : todo[i] = Subscribe(t)
    /\ pc \in {"waiting", "serving"} => routes = Topics
    /\ pc \in {"subscribing", "waiting"} => hook = "startup" /\ welcomed # "reconnect"
    /\ pc = "connecting" => hook = "startup"

\* What is on the way between paho's thread and the loop, and to the broker.
Wires ==
    /\ out \in Seq(Items)
    /\ acks \in Seq([topic : Topics, ok : BOOLEAN])
    /\ loopq \in Seq(Posts)
    /\ \A i \in 1 .. Len(loopq) : loopq[i].start <= starts /\ (pc = "connecting" => loopq[i].start < starts)

\* A SUBACK under way to the start that waits on its connection tells of a subscription.
Answers ==
    /\ subs \subseteq answered
    /\ \A i \in 1 .. Len(acks) : acks[i].ok => acks[i].topic \in subs
    /\ first /\ Open =>
          \A i \in 1 .. Len(loopq) :
              loopq[i].kind = "suback" /\ loopq[i].ok /\ loopq[i].start = starts => loopq[i].topic \in subs

\* The record serve waits on misses no topic.
Records ==
    /\ startup \in [connected : BOOLEAN, pending : SUBSET Topics, unsent : BOOLEAN,
                    refused : BOOLEAN, done : BOOLEAN]
    /\ pc = "connecting" => startup = Fresh
    /\ pc = "subscribing" => ~startup.done
    /\ startup.done => startup.refused \/ startup.pending = {}
    /\ first /\ Open /\ pc \in {"subscribing", "waiting"} =>
          startup.refused \/ \A t \in routes : t \in startup.pending \/ t \in subs
    /\ first /\ Open /\ pc = "serving" => routes \subseteq subs

\* A connection _on_reconnect has welcomed was asked for every topic routed.
Asked == pc = "serving" /\ link = "up" /\ welcomed = "reconnect" => Covered

StartInv == Stages /\ Wires /\ Answers /\ Records /\ Asked

\* A set of natural numbers that is not empty has a least element.
LEMMA LeastOf == ASSUME NEW T, T \subseteq Nat, T # {} PROVE \E n \in T : \A u \in T : n <= u
<1> DEFINE R == OpToRel(<, Nat)
<1>1. \A x, y \in Nat : <<x, y>> \in R <=> x < y
  BY DEF OpToRel
<1>2. IsWellFoundedOn(R, Nat)
  BY NatLessThanWellFounded
<1> HIDE DEF R
<1>3. PICK n \in T : \A u \in T : ~ (<<u, n>> \in R)
  BY <1>2, WFMin
<1>4. ASSUME NEW u \in T PROVE n <= u
  <2>1. u \in Nat /\ n \in Nat
    OBVIOUS
  <2>2. ~ (u < n)
    BY <1>1, <1>3, <2>1
  <2> QED BY <2>1, <2>2
<1> QED BY <1>4

Flattens(f, n, seqs) == f = [i \in 1 .. n |-> IF i = 1 THEN seqs[i] ELSE f[i - 1] \o seqs[i]]

\* The function FlattenSeq is defined by exists.
LEMMA FlattenExists == ASSUME NEW seqs, NEW n \in Nat PROVE \E f : Flattens(f, n, seqs)
<1> DEFINE T == {k \in Nat : ~ \E f : Flattens(f, k, seqs)}
<1> SUFFICES ASSUME T # {} PROVE FALSE
  OBVIOUS
<1>1. PICK k \in T : \A u \in T : k <= u
  <2>1. T \subseteq Nat
    OBVIOUS
  <2> HIDE DEF T
  <2> QED BY <2>1, LeastOf
<1>2. k # 0
  <2> SUFFICES ASSUME k = 0 PROVE FALSE
    OBVIOUS
  <2> DEFINE f == [i \in 1 .. 0 |-> 0]
  <2>1. f = [i \in 1 .. 0 |-> IF i = 1 THEN seqs[i] ELSE f[i - 1] \o seqs[i]]
    OBVIOUS
  <2>2. Flattens(f, 0, seqs)
    <3> HIDE DEF f
    <3> QED BY <2>1 DEF Flattens
  <2> QED BY <2>2
<1>3. k - 1 \in Nat /\ k - 1 \notin T
  BY <1>1, <1>2
<1>4. PICK g : Flattens(g, k - 1, seqs)
  BY <1>3
<1> DEFINE f == [i \in 1 .. k |-> IF i = 1 THEN seqs[i] ELSE g[i - 1] \o seqs[i]]
<1>5. \A i \in 1 .. k - 1 : g[i] = IF i = 1 THEN seqs[i] ELSE g[i - 1] \o seqs[i]
  BY <1>4 DEF Flattens
<1>6. \A i \in 1 .. k - 1 : f[i] = g[i]
  BY <1>3, <1>5
<1>7. \A i \in 1 .. k : i # 1 => i - 1 \in 1 .. k - 1
  BY <1>3
<1>8. \A i \in 1 .. k : f[i] = IF i = 1 THEN seqs[i] ELSE f[i - 1] \o seqs[i]
  <2> SUFFICES ASSUME NEW i \in 1 .. k PROVE f[i] = IF i = 1 THEN seqs[i] ELSE f[i - 1] \o seqs[i]
    OBVIOUS
  <2>1. f[i] = IF i = 1 THEN seqs[i] ELSE g[i - 1] \o seqs[i]
    OBVIOUS
  <2>2. i # 1 => f[i - 1] = g[i - 1]
    BY <1>6, <1>7
  <2> HIDE DEF f
  <2> QED BY <2>1, <2>2
<1>9. f = [i \in 1 .. k |-> f[i]]
  OBVIOUS
<1>10. f = [i \in 1 .. k |-> IF i = 1 THEN seqs[i] ELSE f[i - 1] \o seqs[i]]
  <2> HIDE DEF f
  <2> QED BY <1>8, <1>9
<1>11. Flattens(f, k, seqs)
  <2> HIDE DEF f
  <2> QED BY <1>10 DEF Flattens
<1> QED BY <1>11

\* FlattenSeq loses no element of its sequences, and adds none.
LEMMA FlattenHas ==
    ASSUME NEW S, NEW seqs \in Seq(Seq(S))
    PROVE  /\ FlattenSeq(seqs) \in Seq(S)
           /\ \A k \in 1 .. Len(seqs) : \A j \in 1 .. Len(seqs[k]) :
                 \E i \in 1 .. Len(FlattenSeq(seqs)) : FlattenSeq(seqs)[i] = seqs[k][j]
<1>n. Len(seqs) \in Nat /\ \A k \in 1 .. Len(seqs) : seqs[k] \in Seq(S)
  BY LenProperties, ElementOfSeq
<1>1. CASE Len(seqs) = 0
  <2>1. FlattenSeq(seqs) = seqs /\ seqs = <<>>
    BY <1>1 DEF FlattenSeq
  <2> QED BY <1>1, <2>1
<1>2. CASE Len(seqs) # 0
  <2> DEFINE n == Len(seqs)
  <2> DEFINE f == CHOOSE h : Flattens(h, n, seqs)
  <2>1. FlattenSeq(seqs) = f[n]
    BY <1>2 DEF FlattenSeq, Flattens
  <2>2. Flattens(f, n, seqs)
    <3>1. \E h : Flattens(h, n, seqs)
      BY <1>n, FlattenExists
    <3> QED BY <3>1
  <2>n. n \in Nat /\ n # 0
    BY <1>n, <1>2
  <2> HIDE DEF f, n
  <2>3. \A i \in 1 .. n : f[i] = IF i = 1 THEN seqs[i] ELSE f[i - 1] \o seqs[i]
    BY <2>2 DEF Flattens
  <2> DEFINE Good(m) == /\ f[m] \in Seq(S)
                        /\ \A k \in 1 .. m : \A j \in 1 .. Len(seqs[k]) :
                              \E i \in 1 .. Len(f[m]) : f[m][i] = seqs[k][j]
             T == {m \in 1 .. n : ~ Good(m)}
  <2>4. T = {}
    <3> SUFFICES ASSUME T # {} PROVE FALSE
      OBVIOUS
    <3>1. PICK m \in T : \A u \in T : m <= u
      <4>1. T \subseteq Nat
        BY <2>n
      <4> HIDE DEF T
      <4> QED BY <4>1, LeastOf
    <3>2. m \in 1 .. n /\ ~ Good(m)
      BY <3>1
    <3>s. \A k \in 1 .. n : seqs[k] \in Seq(S)
      BY <1>n DEF n
    <3>3. CASE m = 1
      <4>1. f[1] = seqs[1]
        BY <2>3, <3>2, <3>3
      <4>2. seqs[1] \in Seq(S)
        BY <3>2, <3>3, <3>s
      <4>3. Good(1)
        <5>1. \A k \in 1 .. 1 : k = 1
          OBVIOUS
        <5> HIDE DEF T
        <5> QED BY <4>1, <4>2, <5>1
      <4> HIDE DEF Good
      <4> QED BY <3>2, <3>3, <4>3
    <3>4. CASE m # 1
      <4>1. m - 1 \in 1 .. n /\ m - 1 < m
        BY <2>n, <3>2, <3>4
      <4>2. Good(m - 1)
        <5>1. m - 1 \notin T
          <6> HIDE DEF T
          <6> QED BY <2>n, <3>1, <3>2, <4>1
        <5> HIDE DEF Good
        <5> QED BY <4>1, <5>1
      <4> DEFINE p == f[m - 1]
                 q == seqs[m]
      <4>3. f[m] = p \o q
        BY <2>3, <3>2, <3>4
      <4>4. p \in Seq(S) /\ q \in Seq(S)
        BY <3>2, <3>s, <4>2
      <4>5. \A k \in 1 .. m - 1 : \A j \in 1 .. Len(seqs[k]) : \E i \in 1 .. Len(p) : p[i] = seqs[k][j]
        BY <4>2
      <4>q. q = seqs[m]
        OBVIOUS
      <4> HIDE DEF p, q, Good, T
      <4>6. /\ p \o q \in Seq(S) /\ Len(p \o q) = Len(p) + Len(q)
            /\ \A i \in 1 .. Len(p) + Len(q) : (p \o q)[i] = IF i <= Len(p) THEN p[i] ELSE q[i - Len(p)]
        BY ONLY <4>4, ConcatProperties
      <4>7. Len(p) \in Nat /\ Len(q) \in Nat
        BY <4>4, LenProperties
      <4>8. ASSUME NEW k \in 1 .. m, NEW j \in 1 .. Len(seqs[k])
            PROVE  \E i \in 1 .. Len(p \o q) : (p \o q)[i] = seqs[k][j]
        <5>1. CASE k = m
          <6>1. j \in 1 .. Len(q)
            BY <4>q, <5>1
          <6>2. Len(p) + j \in 1 .. Len(p) + Len(q) /\ ~ (Len(p) + j <= Len(p)) /\ (Len(p) + j) - Len(p) = j
            BY <4>7, <6>1
          <6>3. (p \o q)[Len(p) + j] = q[j]
            BY <4>6, <6>2
          <6> QED BY <4>6, <4>q, <5>1, <6>2, <6>3
        <5>2. CASE k # m
          <6>1. k \in 1 .. m - 1
            BY <3>2, <5>2
          <6>2. PICK i \in 1 .. Len(p) : p[i] = seqs[k][j]
            BY <4>5, <6>1
          <6>3. i \in 1 .. Len(p) + Len(q) /\ i <= Len(p)
            BY <4>7
          <6>4. (p \o q)[i] = p[i]
            BY <4>6, <6>3
          <6> QED BY <4>6, <6>2, <6>3, <6>4
        <5> QED BY <5>1, <5>2
      <4>9. Good(m)
        BY <4>3, <4>6, <4>8 DEF Good
      <4> QED BY <3>2, <4>9
    <3> QED BY <3>3, <3>4
  <2>5. n \in 1 .. n
    BY <2>n
  <2>6. Good(n)
    <3> HIDE DEF Good
    <3> QED BY <2>4, <2>5
  <2> QED BY <2>1, <2>6 DEF n
<1> QED BY <1>1, <1>2

\* SetToSeq lists a finite set: it has its elements and no other.
LEMMA Listing ==
    ASSUME NEW S, IsFiniteSet(S)
    PROVE  SetToSeq(S) \in Seq(S) /\ \A x \in S : \E i \in 1 .. Len(SetToSeq(S)) : SetToSeq(S)[i] = x
<1> DEFINE n == Cardinality(S)
           f == SetToSeq(S)
<1>1. n \in Nat /\ ExistsBijection(1 .. n, S)
  BY FS_CardinalityType
<1>2. \E g \in [1 .. n -> S] : IsInjective(g)
  BY <1>1 DEF ExistsBijection, Bijection, Injection
<1>3. f \in [1 .. n -> S] /\ IsInjective(f)
  BY <1>2 DEF SetToSeq
<1> HIDE DEF f
<1>4. IsFiniteSet(1 .. n) /\ Cardinality(1 .. n) = n
  BY <1>1, FS_Interval
<1>5. f \in Injection(1 .. n, S)
  BY <1>3 DEF Injection
<1>6. f \in Surjection(1 .. n, S)
  BY <1>4, <1>5, FS_Injection
<1> HIDE DEF n
<1>7. f \in Seq(S) /\ Len(f) = n
  BY <1>1, <1>3
<1>8. \A x \in S : \E i \in 1 .. n : f[i] = x
  BY <1>6 DEF Surjection
<1> QED BY <1>7, <1>8 DEF f

\* The loop of serve subscribes every topic of the fleet.
LEMMA PlanIs ==
    LET plan == FlattenSeq(Each(ServeThing, Things))
    IN  plan \in Seq(Items) /\ \A t \in Topics : \E i \in 1 .. Len(plan) : plan[i] = Subscribe(t)
<1> USE StartupAssumption DEF StartupAssumption, ThingsOk, IsSequence
<1> DEFINE seqs == Each(ServeThing, Things)
<1>0. Things \in Seq(ToSet(Things))
  OBVIOUS
<1>1. DOMAIN Things = 1 .. Len(Things) /\ Len(Things) \in Nat
  BY <1>0, LenProperties
<1>2. ASSUME NEW k \in 1 .. Len(Things)
      PROVE  /\ ServeThing(Things[k]) \in Seq(Items)
             /\ \A t \in ToSet(Things[k].topics) :
                   \E j \in 1 .. Len(ServeThing(Things[k])) : ServeThing(Things[k])[j] = Subscribe(t)
  <2> DEFINE thing == Things[k]
             a == Each(Subscribe, thing.topics)
             b == Each(Mirror, thing.events)
             c == <<Retain(thing.name)>>
  <2>1. /\ thing.topics \in Seq(ToSet(thing.topics)) /\ thing.events \in Seq(ToSet(thing.events))
        /\ ToSet(thing.topics) \subseteq Topics /\ ToSet(thing.events) \subseteq Events
        /\ thing.name \in Names
    BY <1>1 DEF Topics, Events, Names
  <2> HIDE DEF thing
  <2>2. /\ Len(thing.topics) \in Nat /\ DOMAIN thing.topics = 1 .. Len(thing.topics)
        /\ Len(thing.events) \in Nat /\ DOMAIN thing.events = 1 .. Len(thing.events)
    BY <2>1, LenProperties
  <2>3. \A i \in 1 .. Len(thing.topics) : thing.topics[i] \in Topics
    BY <2>1, ElementOfSeq
  <2>4. \A i \in 1 .. Len(thing.events) : thing.events[i] \in Events
    BY <2>1, ElementOfSeq
  <2>5. a \in Seq(Items) /\ Len(a) = Len(thing.topics)
    <3>1. \A i \in 1 .. Len(thing.topics) : Subscribe(thing.topics[i]) \in Items
      <4>1. \A t \in Topics : Subscribe(t) \in Items
        BY DEF Items
      <4> QED BY ONLY <2>3, <4>1
    <3>2. a = [i \in 1 .. Len(thing.topics) |-> Subscribe(thing.topics[i])]
      BY <2>2 DEF Each
    <3> QED BY <2>2, <3>1, <3>2
  <2>6. b \in Seq(Items)
    <3>1. \A i \in 1 .. Len(thing.events) : Mirror(thing.events[i]) \in Items
      <4>1. \A e \in Events : Mirror(e) \in Items
        BY DEF Items
      <4> QED BY ONLY <2>4, <4>1
    <3>2. b = [i \in 1 .. Len(thing.events) |-> Mirror(thing.events[i])]
      BY <2>2 DEF Each
    <3> QED BY <2>2, <3>1, <3>2
  <2>7. c \in Seq(Items)
    BY <2>1 DEF Items
  <2>8. \A i \in 1 .. Len(thing.topics) : a[i] = Subscribe(thing.topics[i])
    BY <2>2 DEF Each
  <2>9. \A t \in ToSet(thing.topics) : \E i \in 1 .. Len(a) : a[i] = Subscribe(t)
    BY <2>2, <2>5, <2>8 DEF ToSet
  <2>10. ServeThing(thing) = a \o b \o c
    BY DEF ServeThing
  <2> HIDE DEF a, b, c
  <2>11. /\ a \o b \in Seq(Items) /\ Len(a \o b) = Len(a) + Len(b)
         /\ \A i \in 1 .. Len(a) + Len(b) : (a \o b)[i] = IF i <= Len(a) THEN a[i] ELSE b[i - Len(a)]
    BY ONLY <2>5, <2>6, ConcatProperties
  <2> DEFINE ab == a \o b
  <2>12. ab \in Seq(Items) /\ Len(ab) = Len(a) + Len(b) /\ \A i \in 1 .. Len(a) : ab[i] = a[i]
    BY <2>5, <2>6, <2>11, LenProperties
  <2> HIDE DEF ab
  <2>b. ab \in Seq(Items)
    BY <2>12
  <2>13. /\ ab \o c \in Seq(Items) /\ Len(ab \o c) = Len(ab) + Len(c)
         /\ \A i \in 1 .. Len(ab) + Len(c) : (ab \o c)[i] = IF i <= Len(ab) THEN ab[i] ELSE c[i - Len(ab)]
    BY ONLY <2>7, <2>b, ConcatProperties
  <2>14. Len(a) \in Nat /\ Len(b) \in Nat /\ Len(c) \in Nat
    BY <2>5, <2>6, <2>7, LenProperties
  <2>15. \A i \in 1 .. Len(a) : i \in 1 .. Len(ab \o c) /\ (ab \o c)[i] = a[i]
    BY <2>12, <2>13, <2>14
  <2>16. ServeThing(thing) = ab \o c
    BY <2>10 DEF ab
  <2> QED BY <2>9, <2>13, <2>15, <2>16 DEF thing
<1>3. Len(seqs) = Len(Things) /\ \A k \in 1 .. Len(Things) : seqs[k] = ServeThing(Things[k])
  BY <1>1 DEF Each
<1>4. seqs \in Seq(Seq(Items))
  <2>1. seqs = [k \in 1 .. Len(Things) |-> ServeThing(Things[k])]
    BY <1>1 DEF Each
  <2> QED BY <1>1, <1>2, <2>1
<1> HIDE DEF seqs
<1>5. /\ FlattenSeq(seqs) \in Seq(Items)
      /\ \A k \in 1 .. Len(seqs) : \A j \in 1 .. Len(seqs[k]) :
            \E i \in 1 .. Len(FlattenSeq(seqs)) : FlattenSeq(seqs)[i] = seqs[k][j]
  BY <1>4, FlattenHas
<1>6. ASSUME NEW t \in Topics PROVE \E i \in 1 .. Len(FlattenSeq(seqs)) : FlattenSeq(seqs)[i] = Subscribe(t)
  <2>1. PICK k \in 1 .. Len(Things) : t \in ToSet(Things[k].topics)
    BY <1>1 DEF Topics
  <2>2. PICK j \in 1 .. Len(seqs[k]) : seqs[k][j] = Subscribe(t)
    <3>1. k \in 1 .. Len(Things) /\ seqs[k] = ServeThing(Things[k])
      BY <1>3, <2>1
    <3>2. \E j \in 1 .. Len(ServeThing(Things[k])) : ServeThing(Things[k])[j] = Subscribe(t)
      BY <1>2, <2>1, <3>1
    <3> QED BY <3>1, <3>2
  <2>3. k \in 1 .. Len(seqs)
    BY <1>3, <2>1
  <2>4. \E i \in 1 .. Len(FlattenSeq(seqs)) : FlattenSeq(seqs)[i] = seqs[k][j]
    BY <1>5, <2>2, <2>3
  <2> QED BY <2>2, <2>4
<1> QED BY <1>5, <1>6 DEF seqs

\* _on_reconnect subscribes every topic that is routed.
LEMMA AgainIs ==
    ASSUME routes \subseteq Topics, IsFiniteSet(routes)
    PROVE  ServeAgain \in Seq(Items) /\ \A t \in routes : \E i \in 1 .. Len(ServeAgain) : ServeAgain[i] = Subscribe(t)
<1> USE StartupAssumption DEF StartupAssumption, ThingsOk, IsSequence
<1> DEFINE r == SetToSeq(routes)
           a == Each(Subscribe, r)
           b == [k \in DOMAIN Things |-> Retain(Things[k].name)]
<1>0. Things \in Seq(ToSet(Things))
  OBVIOUS
<1>1. DOMAIN Things = 1 .. Len(Things) /\ Len(Things) \in Nat
  BY <1>0, LenProperties
<1>2. r \in Seq(routes) /\ \A t \in routes : \E i \in 1 .. Len(r) : r[i] = t
  BY Listing
<1> HIDE DEF r
<1>3. Len(r) \in Nat /\ DOMAIN r = 1 .. Len(r) /\ \A i \in 1 .. Len(r) : r[i] \in Topics
  BY <1>2, LenProperties, ElementOfSeq
<1>4. a \in Seq(Items) /\ Len(a) = Len(r) /\ \A i \in 1 .. Len(r) : a[i] = Subscribe(r[i])
  BY <1>3 DEF Each, Items
<1>5. b \in Seq(Items)
  <2>1. \A k \in 1 .. Len(Things) : Retain(Things[k].name) \in Items
    BY <1>1 DEF Items, Names
  <2> QED BY <1>1, <2>1
<1>6. ServeAgain = a \o b
  BY DEF ServeAgain, Each, r
<1>7. \A t \in routes : \E i \in 1 .. Len(a) : a[i] = Subscribe(t)
  BY <1>2, <1>4
<1> HIDE DEF a, b
<1>8. /\ a \o b \in Seq(Items) /\ Len(a \o b) = Len(a) + Len(b)
      /\ \A i \in 1 .. Len(a) + Len(b) : (a \o b)[i] = IF i <= Len(a) THEN a[i] ELSE b[i - Len(a)]
  BY ONLY <1>4, <1>5, ConcatProperties
<1>9. Len(a) \in Nat /\ Len(b) \in Nat
  BY <1>4, <1>5, LenProperties
<1>10. \A i \in 1 .. Len(a) : i \in 1 .. Len(a \o b) /\ (a \o b)[i] = a[i]
  BY <1>8, <1>9
<1> QED BY <1>6, <1>7, <1>8, <1>10

\* Taking the first element of a sequence, and adding one at its end.
LEMMA TailHas ==
    ASSUME NEW S, NEW s \in Seq(S), s # <<>>
    PROVE  /\ Head(s) \in S /\ Head(s) = s[1] /\ 1 \in 1 .. Len(s)
           /\ Tail(s) \in Seq(S)
           /\ \A i \in 1 .. Len(Tail(s)) : i + 1 \in 1 .. Len(s) /\ Tail(s)[i] = s[i + 1]
           /\ \A i \in 1 .. Len(s) : i # 1 => i - 1 \in 1 .. Len(Tail(s)) /\ Tail(s)[i - 1] = s[i]
<1>1. /\ Head(s) \in S /\ Tail(s) \in Seq(S) /\ Len(Tail(s)) = Len(s) - 1
      /\ \A i \in 1 .. Len(Tail(s)) : Tail(s)[i] = s[i + 1]
  BY HeadTailProperties
<1>2. Len(s) \in Nat \ {0} /\ Head(s) = s[1]
  BY EmptySeq
<1>3. \A i \in 1 .. Len(s) : i # 1 => i - 1 \in 1 .. Len(Tail(s)) /\ Tail(s)[i - 1] = s[i]
  <2> SUFFICES ASSUME NEW i \in 1 .. Len(s), i # 1
               PROVE  i - 1 \in 1 .. Len(Tail(s)) /\ Tail(s)[i - 1] = s[i]
    OBVIOUS
  <2>1. i - 1 \in 1 .. Len(Tail(s)) /\ (i - 1) + 1 = i
    BY <1>1, <1>2
  <2>2. Tail(s)[i - 1] = s[(i - 1) + 1]
    BY <1>1, <2>1
  <2> QED BY <2>1, <2>2
<1> QED BY <1>1, <1>2, <1>3

LEMMA AppendHas ==
    ASSUME NEW S, NEW s \in Seq(S), NEW x \in S
    PROVE  /\ Append(s, x) \in Seq(S)
           /\ \A i \in 1 .. Len(s) : i \in 1 .. Len(Append(s, x)) /\ Append(s, x)[i] = s[i]
           /\ \A i \in 1 .. Len(Append(s, x)) : Append(s, x)[i] = x \/ (i \in 1 .. Len(s) /\ Append(s, x)[i] = s[i])
<1>1. Len(s) \in Nat /\ Append(s, x) \in Seq(S) /\ Len(Append(s, x)) = Len(s) + 1
  BY LenProperties
<1>2. \A i \in 1 .. Len(s) : Append(s, x)[i] = s[i]
  BY <1>1
<1>3. Append(s, x)[Len(s) + 1] = x
  BY <1>1
<1>4. ASSUME NEW i \in 1 .. Len(Append(s, x))
      PROVE  Append(s, x)[i] = x \/ (i \in 1 .. Len(s) /\ Append(s, x)[i] = s[i])
  <2>1. i \in 1 .. Len(s) \/ i = Len(s) + 1
    BY <1>1
  <2> QED BY <1>2, <1>3, <2>1
<1> QED BY <1>1, <1>2, <1>4

LEMMA ItemsAre ==
    ASSUME NEW x \in Items
    PROVE  /\ x.kind = "subscribe" => x = Subscribe(x.name) /\ x.name \in Topics
           /\ x.kind # "subscribe" => \A t : x # Subscribe(t)
  BY DEF Items, Subscribe, Mirror, Retain

LEMMA StartOfParts ==
    /\ PartsInit => Init
    /\ [PartsNext]_<<part, vars, busVars>> => [Next]_vars
  BY DEF PartsInit, PartsNext

LEMMA StartInit == Init => StartInv
<1> SUFFICES ASSUME Init PROVE StartInv
  OBVIOUS
<1>1. Stages
  <2>1. IsFiniteSet({})
    BY FS_EmptySet
  <2> QED BY <2>1 DEF Init, Stages
<1>2. Wires
  BY DEF Init, Wires
<1>3. Answers
  BY DEF Init, Answers
<1>4. Records
  BY DEF Init, Records, Fresh
<1>5. Asked
  BY DEF Init, Asked
<1> QED BY <1>1, <1>2, <1>3, <1>4, <1>5 DEF StartInv

LEMMA StagesStep == StartInv /\ [Next]_vars => Stages'
<1> SUFFICES ASSUME Stages, [Next]_vars PROVE Stages'
  BY DEF StartInv
<1> USE DEF Stages, client, session, NewSession
<1>1. CASE Start
  BY <1>1 DEF Start
<1>2. CASE Connected
  <2>1. todo' \in Seq(Items) /\ \A t \in Topics : \E i \in 1 .. Len(todo') : todo'[i] = Subscribe(t)
    BY <1>2, PlanIs DEF Connected
  <2>2. pc = "connecting" /\ pc' = "subscribing" /\ link' = "opening" /\ welcomed' = "nobody"
    BY <1>2 DEF Connected
  <2>3. routes' = routes /\ hook' = hook /\ starts' = starts
    BY <1>2 DEF Connected
  <2> HIDE DEF NewSession
  <2> QED BY <2>1, <2>2, <2>3
<1>3. CASE ConnectFailed
  BY <1>3 DEF ConnectFailed
<1>4. CASE ServeTopic
  <2> DEFINE topic == Head(todo).name
  <2>1. pc = "subscribing" /\ todo # <<>> /\ Head(todo).kind = "subscribe" /\ routes' = routes \cup {topic}
        /\ todo' = Tail(todo) /\ pc' = pc /\ hook' = hook /\ starts' = starts /\ link' = link /\ welcomed' = welcomed
    BY <1>4 DEF ServeTopic
  <2>2. /\ Head(todo) \in Items /\ Head(todo) = todo[1] /\ 1 \in 1 .. Len(todo)
        /\ Tail(todo) \in Seq(Items)
        /\ \A i \in 1 .. Len(todo) : i # 1 => i - 1 \in 1 .. Len(Tail(todo)) /\ Tail(todo)[i - 1] = todo[i]
    BY <2>1, TailHas
  <2>3. topic \in Topics /\ todo[1] = Subscribe(topic)
    BY <2>1, <2>2, ItemsAre
  <2>4. IsFiniteSet(routes')
    BY <2>1, FS_AddElement
  <2>5. \A t \in Topics : t \in routes' \/ \E i \in 1 .. Len(todo') : todo'[i] = Subscribe(t)
    <3> SUFFICES ASSUME NEW t \in Topics, t \notin routes'
                 PROVE  \E i \in 1 .. Len(todo') : todo'[i] = Subscribe(t)
      OBVIOUS
    <3>1. PICK i \in 1 .. Len(todo) : todo[i] = Subscribe(t)
      BY <2>1
    <3>2. i # 1
      BY <2>1, <2>3, <3>1 DEF Subscribe
    <3> QED BY <2>1, <2>2, <3>1, <3>2
  <2> HIDE DEF topic
  <2> QED BY <2>1, <2>2, <2>3, <2>4, <2>5
<1>5. CASE ServeEvent \/ RetainTd
  <2>1. pc = "subscribing" /\ todo # <<>> /\ Head(todo).kind # "subscribe" /\ routes' = routes
        /\ todo' = Tail(todo) /\ pc' = pc /\ hook' = hook /\ starts' = starts /\ link' = link /\ welcomed' = welcomed
    BY <1>5 DEF ServeEvent, RetainTd
  <2>2. /\ Head(todo) \in Items /\ Head(todo) = todo[1] /\ 1 \in 1 .. Len(todo)
        /\ Tail(todo) \in Seq(Items)
        /\ \A i \in 1 .. Len(todo) : i # 1 => i - 1 \in 1 .. Len(Tail(todo)) /\ Tail(todo)[i - 1] = todo[i]
    BY <2>1, TailHas
  <2>3. \A t : todo[1] # Subscribe(t)
    BY <2>1, <2>2, ItemsAre
  <2>4. \A t \in Topics : t \in routes \/ \E i \in 1 .. Len(Tail(todo)) : Tail(todo)[i] = Subscribe(t)
    <3> SUFFICES ASSUME NEW t \in Topics, t \notin routes
                 PROVE  \E i \in 1 .. Len(Tail(todo)) : Tail(todo)[i] = Subscribe(t)
      OBVIOUS
    <3>1. PICK i \in 1 .. Len(todo) : todo[i] = Subscribe(t)
      BY <2>1
    <3> QED BY <2>2, <2>3, <3>1
  <2> QED BY <2>1, <2>2, <2>4
<1>6. CASE Wait
  <2>1. pc = "subscribing" /\ todo = <<>> /\ pc' = "waiting"
        /\ UNCHANGED <<todo, routes, hook, starts, link, welcomed>>
    BY <1>6 DEF Wait
  <2>2. Topics \subseteq routes
    BY <2>1
  <2> QED BY <2>1, <2>2
<1>7. CASE Served
  BY <1>7 DEF Served
<1>8. CASE Refused \/ TimedOut \/ Cancelled \/ Aclose
  <2>1. IsFiniteSet({})
    BY FS_EmptySet
  <2> QED BY <1>8, <2>1 DEF Refused, TimedOut, Cancelled, Aclose, StopServing
<1>9. CASE Stopped
  BY <1>9 DEF Stopped
<1>10. CASE RunCallback
  BY <1>10 DEF RunCallback
<1>11. CASE Accepted \/ RefusedConnect \/ Lose \/ Reconnect
  BY <1>11 DEF Accepted, RefusedConnect, Lose, Reconnect
<1>12. CASE TakeTd \/ TakeSuback \/ \E ok \in BOOLEAN : TakeSubscribe(ok)
  BY <1>12 DEF TakeTd, TakeSuback, TakeSubscribe
<1>13. CASE UNCHANGED vars
  BY <1>13 DEF vars
<1> QED BY <1>1, <1>2, <1>3, <1>4, <1>5, <1>6, <1>7, <1>8, <1>9, <1>10, <1>11, <1>12, <1>13
        DEF Next, Serve, GiveUp, Network

LEMMA WiresStep == StartInv /\ [Next]_vars => Wires'
<1> SUFFICES ASSUME Stages, Wires, Answers, [Next]_vars PROVE Wires'
  BY DEF StartInv
<1> USE DEF client, session, NewSession
<1>s. starts \in Nat /\ starts <= starts
  BY DEF Stages
<1>e. <<>> \in Seq(Items) /\ <<>> \in Seq([topic : Topics, ok : BOOLEAN])
  OBVIOUS
<1>l. /\ \A i \in 1 .. Len(loopq) : loopq[i].start \in Nat
      /\ \A i \in 1 .. Len(loopq) : loopq[i].start <= starts
  <2>1. \A p \in Posts : p.start \in Nat
    BY DEF Posts
  <2>2. \A i \in 1 .. Len(loopq) : loopq[i] \in Posts
    BY ElementOfSeq DEF Wires
  <2> QED BY <2>1, <2>2 DEF Wires
<1>p. ASSUME NEW p \in Posts, p.start = starts, loopq' = Append(loopq, p), starts' = starts, pc' # "connecting"
      PROVE  loopq' \in Seq(Posts) /\ \A i \in 1 .. Len(loopq') : loopq'[i].start <= starts' /\ pc' # "connecting"
  <2>1. /\ loopq' \in Seq(Posts)
        /\ \A i \in 1 .. Len(loopq') : loopq'[i] = p \/ (i \in 1 .. Len(loopq) /\ loopq'[i] = loopq[i])
    BY <1>p, AppendHas DEF Wires
  <2> QED BY <1>p, <1>s, <1>l, <2>1
<1>1. CASE Start
  <2>1. starts' = starts + 1 /\ UNCHANGED <<loopq, out, acks>>
    BY <1>1 DEF Start
  <2>2. \A i \in 1 .. Len(loopq) : loopq[i].start < starts'
    BY <1>s, <1>l, <2>1
  <2>3. \A i \in 1 .. Len(loopq) : loopq[i].start <= starts'
    BY <1>s, <1>l, <2>1
  <2> QED BY <2>1, <2>2, <2>3 DEF Wires
<1>2. CASE Connected \/ Stopped
  <2>1. out' = <<>> /\ acks' = <<>> /\ pc' # "connecting" /\ UNCHANGED <<loopq, starts>>
    BY <1>2 DEF Connected, Stopped
  <2> QED BY <1>e, <2>1 DEF Wires
<1>3. CASE ConnectFailed \/ ServeEvent \/ Wait \/ Served \/ Refused \/ TimedOut \/ Cancelled \/ Aclose
  <2>1. pc' # "connecting" /\ UNCHANGED <<loopq, starts, out, acks>>
    BY <1>3 DEF ConnectFailed, ServeEvent, Wait, Served, Refused, TimedOut, Cancelled, Aclose, StopServing
  <2> QED BY <2>1 DEF Wires
<1>4. CASE ServeTopic \/ RetainTd
  <2>1. /\ pc' # "connecting" /\ todo # <<>> /\ UNCHANGED <<loopq, starts, acks>>
        /\ out' = out \/ out' = Append(out, Head(todo))
    BY <1>4 DEF ServeTopic, RetainTd
  <2>2. Head(todo) \in Items
    BY <2>1, TailHas DEF Stages
  <2>3. out' \in Seq(Items)
    BY <2>1, <2>2, AppendHas DEF Wires
  <2> QED BY <2>1, <2>3 DEF Wires
<1>5. CASE RunCallback
  <2>1. loopq # <<>> /\ loopq' = Tail(loopq) /\ UNCHANGED <<pc, starts, out, acks>>
    BY <1>5 DEF RunCallback
  <2>2. /\ Tail(loopq) \in Seq(Posts)
        /\ \A i \in 1 .. Len(Tail(loopq)) : i + 1 \in 1 .. Len(loopq) /\ Tail(loopq)[i] = loopq[i + 1]
    BY <2>1, TailHas DEF Wires
  <2> QED BY <2>1, <2>2 DEF Wires
<1>6. CASE Accepted
  <2>c. pc # "connecting" /\ UNCHANGED <<pc, starts, acks>>
    BY <1>6 DEF Accepted, Stages
  <2>1. CASE hook = "startup"
    <3> DEFINE p == [kind |-> "connack", start |-> starts, ok |-> TRUE]
    <3>1. p \in Posts /\ p.start = starts
      BY <1>s DEF Posts
    <3>2. loopq' = Append(loopq, p) /\ out' = out
      BY <1>6, <2>1 DEF Accepted, Post
    <3> HIDE DEF p
    <3>3. loopq' \in Seq(Posts) /\ \A i \in 1 .. Len(loopq') : loopq'[i].start <= starts' /\ pc' # "connecting"
      BY <1>p, <2>c, <3>1, <3>2
    <3> QED BY <2>c, <3>2, <3>3 DEF Wires
  <2>2. CASE hook # "startup"
    <3>1. out' = out \o ServeAgain /\ loopq' = loopq
      BY <1>6, <2>2 DEF Accepted
    <3>2. ServeAgain \in Seq(Items)
      BY AgainIs DEF Stages
    <3>3. out' \in Seq(Items)
      BY <3>1, <3>2, ConcatProperties DEF Wires
    <3> QED BY <2>c, <3>1, <3>3 DEF Wires
  <2> QED BY <2>1, <2>2
<1>7. CASE RefusedConnect
  <2>c. pc # "connecting" /\ UNCHANGED <<pc, starts>> /\ out' = <<>> /\ acks' = <<>>
    BY <1>7 DEF RefusedConnect, Stages
  <2>1. CASE hook = "startup"
    <3> DEFINE p == [kind |-> "connack", start |-> starts, ok |-> FALSE]
    <3>1. p \in Posts /\ p.start = starts
      BY <1>s DEF Posts
    <3>2. loopq' = Append(loopq, p)
      BY <1>7, <2>1 DEF RefusedConnect, Post
    <3> HIDE DEF p
    <3>3. loopq' \in Seq(Posts) /\ \A i \in 1 .. Len(loopq') : loopq'[i].start <= starts' /\ pc' # "connecting"
      BY <1>p, <2>c, <3>1, <3>2
    <3> QED BY <1>e, <2>c, <3>2, <3>3 DEF Wires
  <2>2. CASE hook # "startup"
    <3>1. loopq' = loopq
      BY <1>7, <2>2 DEF RefusedConnect
    <3> QED BY <1>e, <2>c, <3>1 DEF Wires
  <2> QED BY <2>1, <2>2
<1>8. ASSUME NEW ok \in BOOLEAN, TakeSubscribe(ok) PROVE Wires'
  <2>1. /\ out # <<>> /\ out' = Tail(out) /\ Head(out).kind = "subscribe" /\ UNCHANGED <<pc, starts, loopq>>
        /\ acks' = Append(acks, [topic |-> Head(out).name, ok |-> ok])
    BY <1>8 DEF TakeSubscribe
  <2>2. Head(out) \in Items /\ Tail(out) \in Seq(Items)
    BY <2>1, TailHas DEF Wires
  <2>3. [topic |-> Head(out).name, ok |-> ok] \in [topic : Topics, ok : BOOLEAN]
    BY <2>1, <2>2, ItemsAre
  <2>4. acks' \in Seq([topic : Topics, ok : BOOLEAN])
    BY <2>1, <2>3, AppendHas DEF Wires
  <2> QED BY <2>1, <2>2, <2>4 DEF Wires
<1>9. CASE TakeTd
  <2>1. out # <<>> /\ out' = Tail(out) /\ UNCHANGED <<pc, starts, loopq, acks>>
    BY <1>9 DEF TakeTd
  <2>2. Tail(out) \in Seq(Items)
    BY <2>1, TailHas DEF Wires
  <2> QED BY <2>1, <2>2 DEF Wires
<1>10. CASE TakeSuback
  <2>c. pc # "connecting" /\ acks # <<>> /\ acks' = Tail(acks) /\ UNCHANGED <<pc, starts, out>>
    BY <1>10 DEF TakeSuback, Stages
  <2>a. Head(acks) \in [topic : Topics, ok : BOOLEAN] /\ Tail(acks) \in Seq([topic : Topics, ok : BOOLEAN])
    BY <2>c, TailHas DEF Wires
  <2>1. CASE hook = "startup"
    <3> DEFINE p == [kind |-> "suback", start |-> starts, topic |-> Head(acks).topic, ok |-> Head(acks).ok]
    <3>1. p \in Posts /\ p.start = starts
      BY <1>s, <2>a DEF Posts
    <3>2. loopq' = Append(loopq, p)
      BY <1>10, <2>1 DEF TakeSuback, Post
    <3> HIDE DEF p
    <3>3. loopq' \in Seq(Posts) /\ \A i \in 1 .. Len(loopq') : loopq'[i].start <= starts' /\ pc' # "connecting"
      BY <1>p, <2>c, <3>1, <3>2
    <3> QED BY <2>a, <2>c, <3>2, <3>3 DEF Wires
  <2>2. CASE hook # "startup"
    <3>1. loopq' = loopq
      BY <1>10, <2>2 DEF TakeSuback
    <3> QED BY <2>a, <2>c, <3>1 DEF Wires
  <2> QED BY <2>1, <2>2
<1>11. CASE Lose
  <2>1. out' = <<>> /\ acks' = <<>> /\ UNCHANGED <<pc, loopq, starts>>
    BY <1>11 DEF Lose
  <2> QED BY <1>e, <2>1 DEF Wires
<1>12. CASE Reconnect \/ UNCHANGED vars
  BY <1>12 DEF Reconnect, Wires, vars
<1> QED BY <1>1, <1>2, <1>3, <1>4, <1>5, <1>6, <1>7, <1>8, <1>9, <1>10, <1>11, <1>12
        DEF Next, Serve, GiveUp, Network

LEMMA AnswersStep == StartInv /\ [Next]_vars => Answers'
<1> SUFFICES ASSUME Stages, Wires, Answers, [Next]_vars PROVE Answers'
  BY DEF StartInv
<1> USE DEF client, session, NewSession
<1> DEFINE Told(q) == \A i \in 1 .. Len(q) : q[i].kind = "suback" /\ q[i].ok /\ q[i].start = starts => q[i].topic \in subs
<1>s. /\ subs \subseteq answered /\ \A i \in 1 .. Len(acks) : acks[i].ok => acks[i].topic \in subs
      /\ first /\ Open => Told(loopq)
  BY DEF Answers
<1>l. loopq \in Seq(Posts) /\ acks \in Seq([topic : Topics, ok : BOOLEAN]) /\ out \in Seq(Items) /\ starts \in Nat
  BY DEF Wires, Stages
<1>p. ASSUME NEW p \in Posts, loopq' = Append(loopq, p), UNCHANGED <<starts, subs, first>>, first /\ Open' => first /\ Open,
             p.kind = "suback" /\ p.ok => p.topic \in subs
      PROVE  first' /\ Open' => Told(loopq)'
  <2>1. \A i \in 1 .. Len(loopq') : loopq'[i] = p \/ (i \in 1 .. Len(loopq) /\ loopq'[i] = loopq[i])
    BY <1>p, <1>l, AppendHas
  <2> QED BY <1>p, <1>s, <2>1
<1>1. CASE Start
  <2>1. ~ Open' /\ UNCHANGED <<subs, answered, acks>>
    BY <1>1 DEF Start, Open, Stages
  <2> QED BY <1>s, <2>1 DEF Answers
<1>2. CASE Connected
  <2>1. /\ acks' = <<>> /\ subs' = {} /\ answered' = {} /\ loopq' = loopq /\ starts' = starts
        /\ pc = "connecting"
    BY <1>2 DEF Connected
  <2>2. \A i \in 1 .. Len(loopq) : loopq[i].start \in Nat /\ loopq[i].start < starts
    <3>1. \A p \in Posts : p.start \in Nat
      BY DEF Posts
    <3> QED BY <1>l, <2>1, <3>1, ElementOfSeq DEF Wires
  <2>3. \A i \in 1 .. Len(loopq) : loopq[i].start # starts
    BY <1>l, <2>2
  <2> QED BY <2>1, <2>3 DEF Answers
<1>3. CASE RunCallback
  <2>1. loopq # <<>> /\ loopq' = Tail(loopq) /\ UNCHANGED <<pc, starts, link, first, acks, subs, answered>>
    BY <1>3 DEF RunCallback
  <2>2. \A i \in 1 .. Len(Tail(loopq)) : i + 1 \in 1 .. Len(loopq) /\ Tail(loopq)[i] = loopq[i + 1]
    BY <1>l, <2>1, TailHas
  <2>3. Told(loopq) => Told(loopq)'
    BY <2>1, <2>2
  <2>4. Open' = Open
    BY <2>1 DEF Open
  <2> HIDE DEF Told
  <2>5. first' /\ Open' => Told(loopq)'
    BY <1>s, <2>1, <2>3, <2>4
  <2> QED BY <1>s, <2>1, <2>5 DEF Answers, Told
<1>4. CASE Accepted
  <2>c. UNCHANGED <<starts, first, acks, subs, answered>> /\ Open
    BY <1>4 DEF Accepted, Open
  <2>1. CASE hook = "startup"
    <3> DEFINE p == [kind |-> "connack", start |-> starts, ok |-> TRUE]
    <3>1. p \in Posts /\ p.kind # "suback"
      BY <1>l DEF Posts
    <3>2. loopq' = Append(loopq, p)
      BY <1>4, <2>1 DEF Accepted, Post
    <3> HIDE DEF p, Told
    <3>3. first' /\ Open' => Told(loopq)'
      BY <1>p, <2>c, <3>1, <3>2
    <3> QED BY <1>s, <2>c, <3>3 DEF Answers, Told
  <2>2. CASE hook # "startup"
    <3>1. loopq' = loopq
      BY <1>4, <2>2 DEF Accepted
    <3> QED BY <1>s, <2>c, <3>1 DEF Answers
  <2> QED BY <2>1, <2>2
<1>5. CASE RefusedConnect \/ Lose \/ Stopped
  <2>1. acks' = <<>> /\ subs' = {} /\ answered' = {} /\ ~ Open'
    BY <1>5 DEF RefusedConnect, Lose, Stopped, Open
  <2> QED BY <2>1 DEF Answers
<1>6. ASSUME NEW ok \in BOOLEAN, TakeSubscribe(ok) PROVE Answers'
  <2> DEFINE topic == Head(out).name
             a == [topic |-> topic, ok |-> ok]
  <2>1. /\ out # <<>> /\ Head(out).kind = "subscribe" /\ UNCHANGED <<starts, first, loopq, link>>
        /\ acks' = Append(acks, a) /\ answered' = answered \cup {topic}
        /\ subs' = IF ok THEN subs \cup {topic} ELSE subs
    BY <1>6 DEF TakeSubscribe
  <2>2. Head(out) \in Items
    BY <1>l, <2>1, TailHas
  <2>3. a \in [topic : Topics, ok : BOOLEAN]
    BY <2>1, <2>2, ItemsAre
  <2>4. a.topic = topic /\ a.ok = ok
    OBVIOUS
  <2> HIDE DEF topic, a
  <2>5. \A i \in 1 .. Len(acks') : acks'[i] = a \/ (i \in 1 .. Len(acks) /\ acks'[i] = acks[i])
    BY <1>l, <2>1, <2>3, AppendHas
  <2>6. subs \subseteq subs' /\ subs' \subseteq answered' /\ (ok => topic \in subs')
    BY <1>s, <2>1
  <2>7. \A i \in 1 .. Len(acks') : acks'[i].ok => acks'[i].topic \in subs'
    BY <1>s, <2>4, <2>5, <2>6
  <2>8. Told(loopq) => Told(loopq)'
    BY <2>1, <2>6
  <2>9. Open' = Open
    BY <2>1 DEF Open
  <2> HIDE DEF Told
  <2>10. first' /\ Open' => Told(loopq)'
    BY <1>s, <2>1, <2>8, <2>9
  <2> QED BY <2>6, <2>7, <2>10 DEF Answers, Told
<1>7. CASE TakeSuback
  <2>c. acks # <<>> /\ acks' = Tail(acks) /\ UNCHANGED <<starts, first, link, subs, answered>>
    BY <1>7 DEF TakeSuback
  <2>a. /\ Head(acks) \in [topic : Topics, ok : BOOLEAN] /\ Head(acks) = acks[1] /\ 1 \in 1 .. Len(acks)
        /\ \A i \in 1 .. Len(Tail(acks)) : i + 1 \in 1 .. Len(acks) /\ Tail(acks)[i] = acks[i + 1]
    BY <1>l, <2>c, TailHas
  <2>b. \A i \in 1 .. Len(acks') : acks'[i].ok => acks'[i].topic \in subs'
    BY <1>s, <2>a, <2>c
  <2>h. Head(acks).ok => Head(acks).topic \in subs
    BY <1>s, <2>a
  <2>o. Open' = Open
    BY <2>c DEF Open
  <2>1. CASE hook = "startup"
    <3> DEFINE p == [kind |-> "suback", start |-> starts, topic |-> Head(acks).topic, ok |-> Head(acks).ok]
    <3>1. p \in Posts /\ p.ok = Head(acks).ok /\ p.topic = Head(acks).topic
      BY <1>l, <2>a DEF Posts
    <3>2. loopq' = Append(loopq, p)
      BY <1>7, <2>1 DEF TakeSuback, Post
    <3> HIDE DEF p, Told
    <3>3. first' /\ Open' => Told(loopq)'
      BY <1>p, <2>c, <2>h, <2>o, <3>1, <3>2
    <3> QED BY <1>s, <2>b, <2>c, <3>3 DEF Answers, Told
  <2>2. CASE hook # "startup"
    <3>1. loopq' = loopq
      BY <1>7, <2>2 DEF TakeSuback
    <3> QED BY <1>s, <2>b, <2>c, <2>o, <3>1 DEF Answers
  <2> QED BY <2>1, <2>2
<1>8. CASE Reconnect
  BY <1>s, <1>8 DEF Reconnect, Answers
<1>9. CASE \/ ConnectFailed \/ ServeTopic \/ ServeEvent \/ RetainTd \/ Wait \/ Served \/ Refused
           \/ TimedOut \/ Cancelled \/ Aclose \/ TakeTd \/ UNCHANGED vars
  <2>1. UNCHANGED <<starts, first, link, loopq, acks, subs, answered>>
    BY <1>9 DEF ConnectFailed, ServeTopic, ServeEvent, RetainTd, Wait, Served, Refused, TimedOut,
                Cancelled, Aclose, StopServing, TakeTd, vars
  <2> QED BY <1>s, <2>1 DEF Answers, Open
<1> QED BY <1>1, <1>2, <1>3, <1>4, <1>5, <1>6, <1>7, <1>8, <1>9 DEF Next, Serve, GiveUp, Network

LEMMA RecordsStep == StartInv /\ [Next]_vars => Records'
<1> SUFFICES ASSUME Stages, Wires, Answers, Records, [Next]_vars PROVE Records'
  BY DEF StartInv
<1> USE DEF client, session, NewSession
<1> DEFINE Types == [connected : BOOLEAN, pending : SUBSET Topics, unsent : BOOLEAN, refused : BOOLEAN, done : BOOLEAN]
<1>s. /\ startup \in Types /\ (startup.done => startup.refused \/ startup.pending = {})
      /\ pc = "connecting" => startup = Fresh
      /\ pc = "subscribing" => ~ startup.done
      /\ first /\ Open /\ pc \in {"subscribing", "waiting"} =>
            startup.refused \/ \A t \in routes : t \in startup.pending \/ t \in subs
      /\ first /\ Open /\ pc = "serving" => routes \subseteq subs
  BY DEF Records
<1>1. CASE Start
  <2>1. Fresh \in Types /\ ~ Fresh.done
    BY DEF Fresh
  <2>2. startup' = Fresh /\ pc' = "connecting"
    BY <1>1 DEF Start
  <2> QED BY <2>1, <2>2 DEF Records
<1>2. CASE Connected
  <2>1. pc = "connecting" /\ pc' = "subscribing" /\ startup' = startup /\ routes' = routes /\ routes = {}
    BY <1>2 DEF Connected, Stages
  <2>2. ~ startup.done
    BY <1>s, <2>1 DEF Fresh
  <2> QED BY <1>s, <2>1, <2>2 DEF Records
<1>3. CASE ServeTopic
  <2> DEFINE topic == Head(todo).name
  <2>1. /\ pc = "subscribing" /\ todo # <<>> /\ Head(todo).kind = "subscribe"
        /\ routes' = routes \cup {topic} /\ startup' = Sent(startup, topic, Open)
        /\ UNCHANGED <<pc, link, first, subs>>
    BY <1>3 DEF ServeTopic, Open
  <2>2. topic \in Topics
    BY <2>1, TailHas, ItemsAre DEF Stages
  <2>o. Open' = Open
    BY <2>1 DEF Open
  <2> HIDE DEF topic
  <2>3. startup' \in Types /\ startup'.done = startup.done /\ startup'.refused = startup.refused
    BY <1>s, <2>1, <2>2 DEF Sent
  <2>4. Open => startup'.pending = startup.pending \cup {topic}
    BY <1>s, <2>1 DEF Sent
  <2>5. first' /\ Open' => startup'.refused \/ \A t \in routes' : t \in startup'.pending \/ t \in subs'
    BY <1>s, <2>1, <2>3, <2>4, <2>o
  <2> QED BY <1>s, <2>1, <2>3, <2>5 DEF Records
<1>4. CASE Served
  <2>1. /\ pc = "waiting" /\ startup.done /\ ~ startup.refused /\ pc' = "serving"
        /\ UNCHANGED <<startup, routes, link, first, subs>>
    BY <1>4 DEF Served
  <2>2. Open' = Open
    BY <2>1 DEF Open
  <2>3. startup.pending = {}
    BY <1>s, <2>1
  <2>4. first' /\ Open' => routes' \subseteq subs'
    BY <1>s, <2>1, <2>2, <2>3
  <2> QED BY <1>s, <2>1, <2>4 DEF Records
<1>5. CASE TimedOut
  <2>1. startup' = Refuse(startup) /\ pc' = "stopping"
    BY <1>5 DEF TimedOut, StopServing
  <2>2. startup' \in Types /\ startup'.refused
    BY <1>s, <2>1 DEF Refuse
  <2> QED BY <2>1, <2>2 DEF Records
<1>6. CASE ConnectFailed \/ Refused \/ Cancelled \/ Aclose \/ Stopped
  <2>1. startup' = startup /\ pc' \in {"off", "stopping"}
    BY <1>6 DEF ConnectFailed, Refused, Cancelled, Aclose, StopServing, Stopped
  <2> QED BY <1>s, <2>1 DEF Records
<1>7. CASE RunCallback
  <2> DEFINE call == Head(loopq)
  <2>1. /\ pc # "subscribing" /\ loopq # <<>> /\ UNCHANGED <<pc, routes, link, first, subs>>
        /\ startup' = IF call.start # starts THEN startup
                      ELSE IF call.kind = "connack" THEN Connack(startup, call.ok)
                      ELSE Suback(startup, call.topic, call.ok)
    BY <1>7 DEF RunCallback
  <2>2. call \in Posts /\ call = loopq[1] /\ 1 \in 1 .. Len(loopq)
    BY <2>1, TailHas DEF Wires
  <2>3. pc = "connecting" => call.start # starts
    <3>1. call.start \in Nat /\ starts \in Nat
      BY <2>2 DEF Posts, Stages
    <3>2. pc = "connecting" => call.start < starts
      BY <2>2 DEF Wires
    <3> QED BY <3>1, <3>2
  <2>o. Open' = Open
    BY <2>1 DEF Open
  <2>4. call.kind # "connack" => call.kind = "suback" /\ call.topic \in Topics /\ call.ok \in BOOLEAN
    BY <2>2 DEF Posts
  <2>5. call.kind = "suback" /\ call.ok /\ call.start = starts /\ first /\ Open => call.topic \in subs
    BY <2>2 DEF Answers
  <2> HIDE DEF call
  <2>6. CASE startup' = startup
    BY <1>s, <2>1, <2>6, <2>o DEF Records
  <2>7. CASE call.start = starts /\ call.kind = "connack"
    <3>1. startup' = Connack(startup, call.ok) /\ pc # "connecting"
      BY <2>1, <2>3, <2>7
    <3>2. /\ startup' \in Types /\ startup'.pending = startup.pending
          /\ startup.refused => startup'.refused
          /\ startup'.done => startup'.refused \/ startup'.pending = {}
      BY <1>s, <3>1 DEF Connack, Refuse, Settle
    <3> QED BY <1>s, <2>1, <2>o, <3>1, <3>2 DEF Records
  <2>8. CASE call.start = starts /\ call.kind # "connack"
    <3> DEFINE topic == call.topic
    <3>1. startup' = Suback(startup, topic, call.ok) /\ pc # "connecting"
      BY <2>1, <2>3, <2>8
    <3>2. /\ startup' \in Types /\ startup'.pending = startup.pending \ {topic}
          /\ startup.refused => startup'.refused
          /\ ~ call.ok /\ topic \in startup.pending => startup'.refused
          /\ startup'.done => startup'.refused \/ startup'.pending = {}
      BY <1>s, <2>4, <2>8, <3>1 DEF Suback, Refuse, Settle
    <3>3. call.ok /\ first /\ Open => topic \in subs
      BY <2>4, <2>5, <2>8
    <3> HIDE DEF topic
    <3>4. first' /\ Open' /\ pc' = "waiting" =>
             startup'.refused \/ \A t \in routes' : t \in startup'.pending \/ t \in subs'
      <4> SUFFICES ASSUME first, Open, pc = "waiting", ~ startup'.refused, NEW t \in routes
                   PROVE  t \in startup'.pending \/ t \in subs
        BY <2>1, <2>o
      <4>1. t \in startup.pending \/ t \in subs
        BY <1>s, <3>2
      <4> QED BY <3>2, <3>3, <4>1
    <3> QED BY <1>s, <2>1, <2>o, <3>1, <3>2, <3>4 DEF Records
  <2> QED BY <2>1, <2>6, <2>7, <2>8
<1>8. CASE Wait
  <2>1. pc = "subscribing" /\ pc' = "waiting" /\ UNCHANGED <<startup, routes, link, first, subs>>
    BY <1>8 DEF Wait
  <2> QED BY <1>s, <2>1 DEF Records, Open
<1>9. CASE RefusedConnect \/ Lose
  <2>1. ~ Open' /\ UNCHANGED <<pc, startup>>
    BY <1>9 DEF RefusedConnect, Lose, Open
  <2> QED BY <1>s, <2>1 DEF Records
<1>10. CASE Reconnect
  <2>1. ~ first' /\ UNCHANGED <<pc, startup>>
    BY <1>10 DEF Reconnect
  <2> QED BY <1>s, <2>1 DEF Records
<1>11. CASE Accepted \/ \E ok \in BOOLEAN : TakeSubscribe(ok)
  <2>1. UNCHANGED <<pc, startup, routes, first>> /\ subs \subseteq subs' /\ (Open' => Open)
    BY <1>11 DEF Accepted, TakeSubscribe, Open
  <2> QED BY <1>s, <2>1 DEF Records
<1>12. CASE ServeEvent \/ RetainTd \/ TakeTd \/ TakeSuback \/ UNCHANGED vars
  <2>1. UNCHANGED <<pc, startup, routes, link, first, subs>>
    BY <1>12 DEF ServeEvent, RetainTd, TakeTd, TakeSuback, vars
  <2> QED BY <1>s, <2>1 DEF Records, Open
<1> QED BY <1>1, <1>2, <1>3, <1>4, <1>5, <1>6, <1>7, <1>8, <1>9, <1>10, <1>11, <1>12
        DEF Next, Serve, GiveUp, Network

LEMMA AskedStep == StartInv /\ [Next]_vars => Asked'
<1> SUFFICES ASSUME Stages, Wires, Asked, [Next]_vars, pc' = "serving", link' = "up", welcomed' = "reconnect"
             PROVE  Covered'
  BY DEF StartInv, Asked
<1> USE DEF client, session, NewSession
<1>o. out \in Seq(Items)
  BY DEF Wires
<1>d. DOMAIN out = 1 .. Len(out)
  BY <1>o, LenProperties
<1>1. CASE Served
  BY <1>1 DEF Served, Stages
<1>2. CASE Accepted
  <2>1. /\ pc = "serving" /\ hook = "reconnect" /\ out' = out \o ServeAgain
        /\ UNCHANGED <<routes, answered>>
    BY <1>2 DEF Accepted
  <2> DEFINE again == ServeAgain
  <2>2. again \in Seq(Items) /\ \A t \in routes : \E i \in 1 .. Len(again) : again[i] = Subscribe(t)
    BY AgainIs DEF Stages
  <2>g. out' = out \o again
    BY <2>1
  <2> HIDE DEF again
  <2>a. again \in Seq(Items)
    BY <2>2
  <2>3. /\ out \o again \in Seq(Items) /\ Len(out \o again) = Len(out) + Len(again)
        /\ \A i \in 1 .. Len(out) + Len(again) :
              (out \o again)[i] = IF i <= Len(out) THEN out[i] ELSE again[i - Len(out)]
    BY ONLY <1>o, <2>a, ConcatProperties
  <2>4. Len(out) \in Nat /\ Len(again) \in Nat /\ DOMAIN (out \o again) = 1 .. Len(out) + Len(again)
    BY <1>o, <2>2, <2>3, LenProperties
  <2>5. ASSUME NEW t \in routes PROVE \E i \in DOMAIN out' : out'[i] = Subscribe(t)
    <3>1. PICK i \in 1 .. Len(again) : again[i] = Subscribe(t)
      BY <2>2
    <3>2. /\ Len(out) + i \in 1 .. Len(out) + Len(again) /\ ~ (Len(out) + i <= Len(out))
          /\ (Len(out) + i) - Len(out) = i
      BY <2>4
    <3>3. (out \o again)[Len(out) + i] = again[i]
      BY <2>3, <3>2
    <3> QED BY <2>g, <2>4, <3>1, <3>2, <3>3
  <2> QED BY <2>1, <2>5 DEF Covered, Queued
<1>c. CASE Covered /\ \/ \E ok \in BOOLEAN : TakeSubscribe(ok)
                      \/ TakeTd
  <2>1. out # <<>> /\ out' = Tail(out) /\ routes' = routes /\ answered \subseteq answered'
    BY <1>c DEF TakeSubscribe, TakeTd
  <2>2. /\ Head(out) \in Items /\ Head(out) = out[1] /\ 1 \in 1 .. Len(out) /\ Tail(out) \in Seq(Items)
        /\ \A i \in 1 .. Len(out) : i # 1 => i - 1 \in 1 .. Len(Tail(out)) /\ Tail(out)[i - 1] = out[i]
    BY <1>o, <2>1, TailHas
  <2>3. DOMAIN Tail(out) = 1 .. Len(Tail(out))
    BY <2>2, LenProperties
  <2>4. \A t : out[1] = Subscribe(t) => t \in answered'
    <3>1. CASE TakeTd
      <4>1. Head(out).kind # "subscribe"
        BY <3>1 DEF TakeTd
      <4> QED BY <2>2, <4>1, ItemsAre
    <3>2. CASE \E ok \in BOOLEAN : TakeSubscribe(ok)
      <4>1. Head(out).name \in answered'
        BY <3>2 DEF TakeSubscribe
      <4>2. \A t : Subscribe(t).name = t
        BY DEF Subscribe
      <4> QED BY <2>2, <4>1, <4>2
    <3> QED BY <1>c, <3>1, <3>2
  <2>5. ASSUME NEW t \in routes, t \notin answered' PROVE \E i \in DOMAIN out' : out'[i] = Subscribe(t)
    <3>1. PICK i \in 1 .. Len(out) : out[i] = Subscribe(t)
      BY <1>c, <1>d, <2>1, <2>5 DEF Covered, Queued
    <3>2. i # 1
      BY <2>4, <2>5, <3>1
    <3> QED BY <2>1, <2>2, <2>3, <3>1, <3>2
  <2> QED BY <2>1, <2>5 DEF Covered, Queued
<1>3. CASE \/ Start \/ Connected \/ ConnectFailed \/ ServeTopic \/ ServeEvent \/ RetainTd \/ Wait \/ Refused
           \/ TimedOut \/ Cancelled \/ Aclose \/ Stopped \/ RefusedConnect \/ Lose \/ Reconnect
  BY <1>3 DEF Start, Connected, ConnectFailed, ServeTopic, ServeEvent, RetainTd, Wait, Refused, TimedOut,
              Cancelled, Aclose, StopServing, Stopped, RefusedConnect, Lose, Reconnect
<1>4. CASE (\E ok \in BOOLEAN : TakeSubscribe(ok)) \/ TakeTd
  <2>1. UNCHANGED <<pc, link, welcomed>>
    BY <1>4 DEF TakeSubscribe, TakeTd
  <2> QED BY <1>4, <1>c, <2>1 DEF Asked
<1>5. CASE RunCallback \/ TakeSuback \/ UNCHANGED vars
  <2>1. UNCHANGED <<pc, link, welcomed, out, routes, answered>>
    BY <1>5 DEF RunCallback, TakeSuback, vars
  <2> QED BY <2>1 DEF Asked, Covered, Queued
<1> QED BY <1>1, <1>2, <1>3, <1>4, <1>5 DEF Next, Serve, GiveUp, Network

LEMMA StartStep == StartInv /\ [Next]_vars => StartInv'
  BY StagesStep, WiresStep, AnswersStep, RecordsStep, AskedStep DEF StartInv

\* A gateway whose start returned has had every topic of its fleet granted, as long as the
\* connection it opened stands; one that was reconnected has asked for every topic again
\* (serve, _Startup, _on_reconnect): for any fleet, whatever is lost, refused, cancelled
\* and started again, and in whatever order the callbacks of paho's thread reach the loop.
THEOREM ServedIsSubscribed == PartsSpec => []ServedMeansSubscribed
<1>1. StartInv => ServedMeansSubscribed
  <2> SUFFICES ASSUME StartInv, pc = "serving", link = "up" PROVE ServedMeansSubscribed
    BY DEF ServedMeansSubscribed
  <2>1. routes = Topics /\ subs \subseteq answered
    BY DEF StartInv, Stages, Answers
  <2>2. first => routes \subseteq subs
    BY DEF StartInv, Records, Open
  <2>3. first => Covered
    BY <2>1, <2>2 DEF Covered
  <2>4. welcomed = "reconnect" => Covered
    BY DEF StartInv, Asked
  <2> QED BY <2>1, <2>2, <2>3, <2>4 DEF ServedMeansSubscribed
<1> QED BY <1>1, StartInit, StartStep, StartOfParts, PTL DEF PartsSpec

=============================================================================
