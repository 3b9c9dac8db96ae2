----------------------- MODULE ThingClientCalls_proofs -----------------------
(***************************************************************************)
(* What the record tells, what the table of running actions holds and what *)
(* the grants allowed, for any calls, requests, descriptions and policies; *)
(* the requests that calls of an imported operation become, for any        *)
(* document; and the arguments a call goes on with, for any description    *)
(* and any value: the properties that ThingClientCalls.cfg checks.         *)
(***************************************************************************)
EXTENDS ThingClientCallsMC, Sequences, WellFoundedInduction, TLAPS

Fields == {"phase", "kind", "aff", "arg", "todo", "handle", "seen", "failed"}

Shape == DOMAIN call = Calls /\ \A c \in Calls : DOMAIN call[c] = Fields

\* A step that takes one call to another phase and leaves the rest of it alone.
Moves(c, ph) ==
    /\ DOMAIN call' = Calls
    /\ \A d \in Calls \ {c} : call'[d] = call[d]
    /\ DOMAIN call'[c] = Fields
    /\ call'[c].phase = ph
    /\ \A f \in Fields \ {"phase", "failed"} : call'[c][f] = call[c][f]

\* Goto is such a step.
LEMMA GotoMoves ==
    ASSUME Shape, NEW c \in Calls, NEW ph, Goto(c, ph)
    PROVE  Moves(c, ph)
<1>1. DOMAIN call = Calls /\ DOMAIN call[c] = Fields
  BY DEF Shape
<1>2. call' = [call EXCEPT ![c].phase = ph]
  BY DEF Goto
<1>3. call' = [call EXCEPT ![c] = [call[c] EXCEPT !.phase = ph]]
  BY <1>1, <1>2
<1>4. call'[c] = [call[c] EXCEPT !.phase = ph]
  BY <1>1, <1>3
<1>5. DOMAIN call' = Calls /\ \A d \in Calls \ {c} : call'[d] = call[d]
  BY <1>1, <1>3
<1>6. DOMAIN call'[c] = Fields /\ call'[c].phase = ph
  BY <1>1, <1>4 DEF Fields
<1>7. \A f \in Fields \ {"phase", "failed"} : call'[c][f] = call[c][f]
  BY <1>1, <1>4
<1> QED BY <1>5, <1>6, <1>7 DEF Moves

(***************************************************************************)
(* The record.                                                             *)
(***************************************************************************)

Before == {"asking", "deciding", "approving"}
During == {"calling", "waiting", "recording"}

\* Nothing of one affordance was done or recorded for a call.
Untold(c, a, told, done) == <<c, a>> \notin done /\ \A permitted \in BOOLEAN : <<c, a, permitted>> \notin told

\* What the record and the transports hold of one call, by where it is: an affordance
\* is untouched until its operation is decided, and recorded before the next begins.
Tells(c, ph, kind, aff, todo, told, done) ==
    /\ ph = "idle" => (\A x \in done : x[1] # c) /\ (\A x \in told : x[1] # c)
    /\ \A a \in todo : Untold(c, a, told, done)
    /\ ph \in Before => Untold(c, aff, told, done)
    /\ ph \in Before \cup During => aff \notin todo
    /\ ph \in During => <<c, aff>> \in done /\ \A permitted \in BOOLEAN : <<c, aff, permitted>> \notin told
    /\ \A a \in Affs : /\ <<c, a, FALSE>> \in told => <<c, a>> \notin done
                       /\ <<c, a, TRUE>> \in told => <<c, a>> \in done
    /\ kind \notin Streamed /\ ph # "cancelled" =>
         \A a \in Affs : <<c, a>> \in done => <<c, a, TRUE>> \in told \/ (a = aff /\ ph \in During)

TellsOf(c) == Tells(c, call[c].phase, call[c].kind, call[c].aff, call[c].todo, recorded, touched)

RecordInv == Shape /\ \A c \in Calls : TellsOf(c)

\* A step of one call leaves what is told of the others.
LEMMA OneTells ==
    ASSUME RecordInv, NEW c \in Calls, NEW a, DOMAIN call' = Calls, DOMAIN call'[c] = Fields,
           \A d \in Calls \ {c} : call'[d] = call[d],
           touched' \subseteq touched \cup {<<c, a>>}, touched \subseteq touched',
           recorded' \subseteq recorded \cup {<<c, a, TRUE>>, <<c, a, FALSE>>}, recorded \subseteq recorded',
           Tells(c, call'[c].phase, call'[c].kind, call'[c].aff, call'[c].todo, recorded', touched')
    PROVE  RecordInv'
<1>1. ASSUME NEW d \in Calls, d # c PROVE TellsOf(d)'
  <2>1. Tells(d, call[d].phase, call[d].kind, call[d].aff, call[d].todo, recorded, touched) /\ call'[d] = call[d]
    BY <1>1 DEF RecordInv, TellsOf
  <2>2. \A b : <<d, b>> \in touched' <=> <<d, b>> \in touched
    BY <1>1
  <2>3. \A b, p : <<d, b, p>> \in recorded' <=> <<d, b, p>> \in recorded
    BY <1>1
  <2>4. (\A x \in touched : x[1] # d) => \A x \in touched' : x[1] # d
    BY <1>1
  <2>5. (\A x \in recorded : x[1] # d) => \A x \in recorded' : x[1] # d
    <3>1. ASSUME NEW x \in recorded' PROVE x \in recorded \/ x[1] = c
      <4>1. x \in recorded \/ x = <<c, a, TRUE>> \/ x = <<c, a, FALSE>>
        OBVIOUS
      <4>2. <<c, a, TRUE>>[1] = c /\ <<c, a, FALSE>>[1] = c
        OBVIOUS
      <4> QED BY <4>1, <4>2
    <3> QED BY <1>1, <3>1
  <2>6. Tells(d, call[d].phase, call[d].kind, call[d].aff, call[d].todo, recorded', touched')
    BY <2>1, <2>2, <2>3, <2>4, <2>5 DEF Tells, Untold
  <2> QED BY <2>1, <2>6 DEF TellsOf
<1>2. TellsOf(c)'
  BY DEF TellsOf
<1>3. Shape'
  BY DEF RecordInv, Shape
<1> QED BY <1>1, <1>2, <1>3 DEF RecordInv

\* A step that takes a call on and tells nothing.
LEMMA Silent ==
    ASSUME RecordInv, NEW c \in Calls, NEW ph, Moves(c, ph), UNCHANGED <<touched, recorded>>,
           \/ ph = "cancelled"
           \/ call[c].phase \in Before /\ ph \in Before \cup {"next", "over"}
           \/ call[c].phase \in During /\ ph \in During
           \/ call[c].phase \in During /\ ph = "over" /\ call[c].kind \in Streamed
           \/ call[c].phase = "next" /\ ph = "over"
    PROVE  RecordInv'
<1>1. Tells(c, call[c].phase, call[c].kind, call[c].aff, call[c].todo, recorded, touched)
  BY DEF RecordInv, TellsOf
<1>2. call'[c].phase = ph /\ call'[c].kind = call[c].kind /\ call'[c].aff = call[c].aff /\ call'[c].todo = call[c].todo
  BY DEF Moves, Fields
<1>3. Tells(c, ph, call[c].kind, call[c].aff, call[c].todo, recorded, touched)
  BY <1>1 DEF Tells, Untold, Before, During
<1>4. Tells(c, call'[c].phase, call'[c].kind, call'[c].aff, call'[c].todo, recorded', touched')
  BY <1>2, <1>3
<1>5. DOMAIN call' = Calls /\ DOMAIN call'[c] = Fields /\ \A d \in Calls \ {c} : call'[d] = call[d]
  BY DEF Moves
<1> QED BY <1>4, <1>5, OneTells

\* A refusal is recorded as one.
LEMMA RefuseTells ==
    ASSUME RecordInv, NEW c \in Calls, NEW raises, call[c].phase \in Before, Refuse(c, raises)
    PROVE  RecordInv'
<1> DEFINE ph == Ends(c, raises)
<1>1. Tells(c, call[c].phase, call[c].kind, call[c].aff, call[c].todo, recorded, touched)
  BY DEF RecordInv, TellsOf
<1>2. Moves(c, ph)
  BY GotoMoves DEF Refuse, RecordInv
<1>3. call'[c].phase = ph /\ call'[c].kind = call[c].kind /\ call'[c].aff = call[c].aff /\ call'[c].todo = call[c].todo
  BY <1>2 DEF Moves, Fields
<1>4. ph \in {"next", "over"}
  BY DEF Ends
<1>5. touched' = touched /\ recorded' = recorded \cup {<<c, call[c].aff, FALSE>>}
  BY DEF Refuse, Record
<1>6. Tells(c, ph, call[c].kind, call[c].aff, call[c].todo, recorded', touched')
  BY <1>1, <1>4, <1>5 DEF Tells, Untold, Before, During
<1>7. DOMAIN call' = Calls /\ DOMAIN call'[c] = Fields /\ \A d \in Calls \ {c} : call'[d] = call[d]
  BY <1>2 DEF Moves
<1>8. Tells(c, call'[c].phase, call'[c].kind, call'[c].aff, call'[c].todo, recorded', touched')
  BY <1>3, <1>6
<1>9. recorded' \subseteq recorded \cup {<<c, call[c].aff, TRUE>>, <<c, call[c].aff, FALSE>>} /\ recorded \subseteq recorded'
  BY <1>5
<1> QED BY <1>5, <1>7, <1>8, <1>9, OneTells

\* What is touched has been decided, and is not recorded yet.
LEMMA TouchTells ==
    ASSUME RecordInv, NEW c \in Calls, call[c].phase \in Before, Touch(c), UNCHANGED recorded
    PROVE  RecordInv'
<1>1. Tells(c, call[c].phase, call[c].kind, call[c].aff, call[c].todo, recorded, touched)
  BY DEF RecordInv, TellsOf
<1>2. Moves(c, "calling")
  BY GotoMoves DEF Touch, RecordInv
<1>3. call'[c].phase = "calling" /\ call'[c].kind = call[c].kind /\ call'[c].aff = call[c].aff /\ call'[c].todo = call[c].todo
  BY <1>2 DEF Moves, Fields
<1>4. touched' = touched \cup {<<c, call[c].aff>>}
  BY DEF Touch
<1>5. Tells(c, "calling", call[c].kind, call[c].aff, call[c].todo, recorded, touched')
  BY <1>1, <1>4 DEF Tells, Untold, Before, During
<1>7. DOMAIN call' = Calls /\ DOMAIN call'[c] = Fields /\ \A d \in Calls \ {c} : call'[d] = call[d]
  BY <1>2 DEF Moves
<1>8. Tells(c, call'[c].phase, call'[c].kind, call'[c].aff, call'[c].todo, recorded', touched')
  BY <1>3, <1>5
<1> QED BY <1>4, <1>7, <1>8, OneTells

\* Nothing is recorded of calls that have not begun.
LEMMA RecordInit == ASSUME Init PROVE RecordInv
<1>1. Shape
  BY DEF Init, Idle, Shape, Fields
<1>2. ASSUME NEW c \in Calls PROVE TellsOf(c)
  <2>1. call[c].phase = "idle" /\ call[c].todo = {} /\ touched = {} /\ recorded = {}
    BY DEF Init, Idle
  <2> QED BY <2>1 DEF TellsOf, Tells, Untold, Before, During
<1> QED BY <1>1, <1>2 DEF RecordInv

\* Regrant looks at every call that is being decided and moves none.
LEMMA RegrantMoves ==
    ASSUME Shape, Regrant
    PROVE  /\ DOMAIN call' = Calls
           /\ \A c \in Calls : /\ DOMAIN call'[c] = Fields
                               /\ \A f \in Fields \ {"seen"} : call'[c][f] = call[c][f]
                               /\ call'[c].seen = Sees(c, grants')
<1>1. call' = [c \in Calls |-> [call[c] EXCEPT !.seen = Sees(c, grants')]]
  BY DEF Regrant
<1>2. ASSUME NEW c \in Calls
      PROVE  /\ DOMAIN call'[c] = Fields
             /\ \A f \in Fields \ {"seen"} : call'[c][f] = call[c][f]
             /\ call'[c].seen = Sees(c, grants')
  <2>1. DOMAIN call[c] = Fields
    BY DEF Shape
  <2>2. call'[c] = [call[c] EXCEPT !.seen = Sees(c, grants')]
    BY <1>1
  <2> QED BY <2>1, <2>2 DEF Fields
<1> QED BY <1>1, <1>2

\* Every step records what it did.
LEMMA RecordStep == ASSUME RecordInv, [Next]_vars PROVE RecordInv'
<1>s. Shape
  BY DEF RecordInv
<1>q. ASSUME UNCHANGED <<call, touched, recorded>> PROVE RecordInv'
  BY <1>q DEF RecordInv, Shape, TellsOf
<1>1. ASSUME NEW c \in Calls, Begin(c) PROVE RecordInv'
  <2>1. PICK r \in Requests, h \in Calls \cup {NoCall} :
          call' = [call EXCEPT ![c] = [@ EXCEPT
               !.phase = IF r.kind \in Bulk THEN "next" ELSE "asking",
               !.kind = r.kind, !.aff = r.aff, !.arg = r.arg, !.handle = h,
               !.todo = IF r.kind \in Bulk THEN Readable ELSE {}]]
    BY <1>1 DEF Begin
  <2>2. call'[c] = [call[c] EXCEPT
               !.phase = IF r.kind \in Bulk THEN "next" ELSE "asking",
               !.kind = r.kind, !.aff = r.aff, !.arg = r.arg, !.handle = h,
               !.todo = IF r.kind \in Bulk THEN Readable ELSE {}]
    BY <1>s, <2>1 DEF Shape
  <2>3. DOMAIN call' = Calls /\ \A d \in Calls \ {c} : call'[d] = call[d]
    BY <1>s, <2>1 DEF Shape
  <2>4. DOMAIN call[c] = Fields
    BY <1>s DEF Shape
  <2>5. DOMAIN call'[c] = Fields /\ call'[c].kind = r.kind /\ call'[c].aff = r.aff
    BY <2>2, <2>4 DEF Fields
  <2>6. CASE r.kind \in Bulk
    <3>1. call'[c].phase = "next"
      BY <2>2, <2>4, <2>6 DEF Fields
    <3>2. At(c, "idle") /\ touched' = touched /\ recorded' = recorded
      BY <1>1 DEF Begin
    <3>3. Tells(c, "next", r.kind, r.aff, call'[c].todo, recorded, touched)
      BY <3>2 DEF RecordInv, TellsOf, Tells, Untold, Before, During, At
    <3> QED BY <2>3, <2>5, <3>1, <3>2, <3>3, OneTells
  <2>7. CASE r.kind \notin Bulk
    <3>1. call'[c].phase = "asking" /\ call'[c].todo = {}
      BY <2>2, <2>4, <2>7 DEF Fields
    <3>2. At(c, "idle") /\ touched' = touched /\ recorded' = recorded
      BY <1>1 DEF Begin
    <3>3. Tells(c, "asking", r.kind, r.aff, {}, recorded, touched)
      BY <3>2 DEF RecordInv, TellsOf, Tells, Untold, Before, During, At
    <3> QED BY <2>3, <2>5, <3>1, <3>2, <3>3, OneTells
  <2> QED BY <2>6, <2>7
<1>2. ASSUME NEW c \in Calls, NextProperty(c) PROVE RecordInv'
  <2>0. touched' = touched /\ recorded' = recorded /\ call[c].phase = "next"
    BY <1>2 DEF NextProperty, At
  <2>1. CASE Goto(c, "over")
    BY <2>0, <2>1, <1>s, GotoMoves, Silent
  <2>2. ASSUME NEW p \in call[c].todo,
               call' = [call EXCEPT ![c] = [@ EXCEPT !.phase = "asking", !.aff = p, !.todo = call[c].todo \ {p},
                                                     !.seen = FALSE, !.failed = FALSE]]
        PROVE  RecordInv'
    <3>1. DOMAIN call[c] = Fields
      BY <1>s DEF Shape
    <3>2. call'[c] = [call[c] EXCEPT !.phase = "asking", !.aff = p, !.todo = call[c].todo \ {p}, !.seen = FALSE, !.failed = FALSE]
      BY <1>s, <2>2 DEF Shape
    <3>3. /\ DOMAIN call'[c] = Fields /\ call'[c].phase = "asking" /\ call'[c].kind = call[c].kind
          /\ call'[c].aff = p /\ call'[c].todo = call[c].todo \ {p}
      BY <3>1, <3>2 DEF Fields
    <3>4. DOMAIN call' = Calls /\ \A d \in Calls \ {c} : call'[d] = call[d]
      BY <1>s, <2>2 DEF Shape
    <3>5. Tells(c, "next", call[c].kind, call[c].aff, call[c].todo, recorded, touched)
      BY <2>0 DEF RecordInv, TellsOf
    <3>6. Tells(c, "asking", call[c].kind, p, call[c].todo \ {p}, recorded, touched)
      BY <3>5, <2>2 DEF Tells, Untold, Before, During
    <3> QED BY <2>0, <3>3, <3>4, <3>6, OneTells
  <2> QED BY <1>2, <2>1, <2>2 DEF NextProperty
<1>3. ASSUME NEW c \in Calls, NotFound(c) PROVE RecordInv'
  <2>1. Goto(c, Ends(c, FALSE)) /\ touched' = touched /\ recorded' = recorded /\ call[c].phase = "asking"
    BY <1>3 DEF NotFound, At
  <2>2. Ends(c, FALSE) \in {"next", "over"}
    BY DEF Ends
  <2>3. Moves(c, Ends(c, FALSE))
    BY <2>1, <1>s, GotoMoves
  <2>4. call[c].phase \in Before /\ Ends(c, FALSE) \in Before \cup {"next", "over"}
    BY <2>1, <2>2 DEF Before
  <2> QED BY <2>1, <2>3, <2>4, Silent
<1>4. ASSUME NEW c \in Calls, Invalid(c) \/ NotInVocabulary(c) \/ Block(c) PROVE RecordInv'
  <2>1. call[c].phase \in Before
    BY <1>4 DEF Invalid, NotInVocabulary, Block, Found, At, Before
  <2>2. Refuse(c, FALSE) \/ Refuse(c, RaiseOnDeny)
    BY <1>4 DEF Invalid, NotInVocabulary, Block
  <2> QED BY <2>1, <2>2, RefuseTells
<1>5. ASSUME NEW c \in Calls, Ask(c) PROVE RecordInv'
  <2>1. PICK saw, h : call' = [call EXCEPT ![c] = [@ EXCEPT !.phase = "deciding", !.seen = saw, !.handle = h]]
    BY <1>5 DEF Ask
  <2>2. DOMAIN call[c] = Fields
    BY <1>s DEF Shape
  <2>3. call'[c] = [call[c] EXCEPT !.phase = "deciding", !.seen = saw, !.handle = h]
    BY <1>s, <2>1 DEF Shape
  <2>4. /\ DOMAIN call'[c] = Fields /\ call'[c].phase = "deciding" /\ call'[c].kind = call[c].kind
        /\ call'[c].aff = call[c].aff /\ call'[c].todo = call[c].todo
    BY <2>2, <2>3 DEF Fields
  <2>5. DOMAIN call' = Calls /\ \A d \in Calls \ {c} : call'[d] = call[d]
    BY <1>s, <2>1 DEF Shape
  <2>6. touched' = touched /\ recorded' = recorded /\ call[c].phase = "asking"
    BY <1>5 DEF Ask, Found, At
  <2>7. Tells(c, "deciding", call[c].kind, call[c].aff, call[c].todo, recorded, touched)
    BY <2>6 DEF RecordInv, TellsOf, Tells, Untold, Before, During
  <2> QED BY <2>4, <2>5, <2>6, <2>7, OneTells
<1>6. ASSUME NEW c \in Calls, Decide(c) PROVE RecordInv'
  <2>1. call[c].phase = "deciding" /\ call[c].phase \in Before
    BY <1>6 DEF Decide, At, Before
  <2>2. \/ Goto(c, "approving") /\ UNCHANGED <<touched, recorded>>
        \/ Touch(c) /\ UNCHANGED recorded
        \/ Refuse(c, RaiseOnDeny)
    BY <1>6 DEF Decide
  <2>3. CASE Goto(c, "approving") /\ UNCHANGED <<touched, recorded>>
    <3>1. Moves(c, "approving")
      BY <2>3, <1>s, GotoMoves
    <3> QED BY <2>1, <2>3, <3>1, Silent DEF Before
  <2> QED BY <2>1, <2>2, <2>3, TouchTells, RefuseTells
<1>7. ASSUME NEW c \in Calls, Approve(c) PROVE RecordInv'
  BY <1>7, TouchTells DEF Approve, At, Before
<1>8. ASSUME NEW c \in Calls, Returns(c) PROVE RecordInv'
  <2>1. PICK ph \in {"waiting", "over", "recording"} :
          Goto(c, ph) /\ (ph = "over" => call[c].kind \in Streamed)
    BY <1>8 DEF Returns
  <2>2. call[c].phase \in During /\ UNCHANGED <<touched, recorded>> /\ ph \in During \cup {"over"}
    BY <1>8 DEF Returns, At, During
  <2>3. Moves(c, ph)
    BY <2>1, <1>s, GotoMoves
  <2> QED BY <2>1, <2>2, <2>3, Silent
<1>9. ASSUME NEW c \in Calls, Raises(c) PROVE RecordInv'
  <2>1. PICK ph \in {"over", "recording"} :
          /\ call' = [call EXCEPT ![c] = [@ EXCEPT !.failed = TRUE, !.phase = ph]]
          /\ ph = "over" => call[c].kind \in Streamed
    BY <1>9 DEF Raises
  <2>2. call[c].phase \in During /\ UNCHANGED <<touched, recorded>> /\ ph \in During \cup {"over"}
    BY <1>9 DEF Raises, At, During
  <2>3. DOMAIN call[c] = Fields /\ call'[c] = [call[c] EXCEPT !.failed = TRUE, !.phase = ph]
    BY <1>s, <2>1 DEF Shape
  <2>4. DOMAIN call' = Calls /\ \A d \in Calls \ {c} : call'[d] = call[d]
    BY <1>s, <2>1 DEF Shape
  <2>5. /\ DOMAIN call'[c] = Fields /\ call'[c].phase = ph
        /\ \A f \in Fields \ {"phase", "failed"} : call'[c][f] = call[c][f]
    BY <2>3 DEF Fields
  <2>6. Moves(c, ph)
    BY <2>4, <2>5 DEF Moves
  <2> QED BY <2>1, <2>2, <2>6, Silent
<1>10. ASSUME NEW c \in Calls, WaitEnds(c) PROVE RecordInv'
  <2>1. Moves(c, "recording")
    BY <1>10, <1>s, GotoMoves DEF WaitEnds
  <2> QED BY <2>1, <1>10, Silent DEF WaitEnds, At, During
<1>11. ASSUME NEW c \in Calls, RecordRun(c) PROVE RecordInv'
  <2> DEFINE ph == Ends(c, call[c].failed)
  <2>1. Moves(c, ph)
    BY <1>11, <1>s, GotoMoves DEF RecordRun
  <2>2. ph \in {"next", "over"}
    BY DEF Ends
  <2>3. call[c].phase = "recording" /\ touched' = touched /\ recorded' = recorded \cup {<<c, call[c].aff, TRUE>>}
    BY <1>11 DEF RecordRun, Record, At
  <2>4. Tells(c, "recording", call[c].kind, call[c].aff, call[c].todo, recorded, touched)
    BY <2>3 DEF RecordInv, TellsOf
  <2> HIDE DEF ph
  <2>5. Tells(c, ph, call[c].kind, call[c].aff, call[c].todo, recorded', touched')
    BY <2>2, <2>3, <2>4 DEF Tells, Untold, Before, During
  <2>6. /\ DOMAIN call' = Calls /\ DOMAIN call'[c] = Fields /\ \A d \in Calls \ {c} : call'[d] = call[d]
        /\ call'[c].phase = ph /\ call'[c].kind = call[c].kind /\ call'[c].aff = call[c].aff
        /\ call'[c].todo = call[c].todo
    BY <2>1 DEF Moves, Fields
  <2>7. Tells(c, call'[c].phase, call'[c].kind, call'[c].aff, call'[c].todo, recorded', touched')
    BY <2>5, <2>6
  <2>8. recorded' \subseteq recorded \cup {<<c, call[c].aff, TRUE>>, <<c, call[c].aff, FALSE>>} /\ recorded \subseteq recorded'
    BY <2>3
  <2> QED BY <2>3, <2>6, <2>7, <2>8, OneTells
<1>12. ASSUME NEW c \in Calls, Cancelled(c) PROVE RecordInv'
  <2>1. Goto(c, "cancelled")
    BY <1>12 DEF Cancelled, Goto
  <2>2. Moves(c, "cancelled")
    BY <2>1, <1>s, GotoMoves
  <2> QED BY <2>2, <1>12, Silent DEF Cancelled
<1>13. ASSUME Regrant PROVE RecordInv'
  <2>1. Shape'
    BY <1>13, <1>s, RegrantMoves DEF Shape
  <2>2. ASSUME NEW c \in Calls PROVE TellsOf(c)'
    <3>1. /\ call'[c].phase = call[c].phase /\ call'[c].kind = call[c].kind
          /\ call'[c].aff = call[c].aff /\ call'[c].todo = call[c].todo
      BY <1>13, <1>s, RegrantMoves DEF Fields
    <3>2. touched' = touched /\ recorded' = recorded
      BY <1>13 DEF Regrant
    <3>3. TellsOf(c)
      BY DEF RecordInv
    <3> QED BY <3>1, <3>2, <3>3 DEF TellsOf
  <2> QED BY <2>1, <2>2 DEF RecordInv
<1>14. ASSUME NEW c \in Calls, DeviceFinishes(c) PROVE RecordInv'
  BY <1>14, <1>q DEF DeviceFinishes
<1>15. CASE AddThings
  BY <1>15, <1>q DEF AddThings
<1>16. CASE UNCHANGED vars
  BY <1>16, <1>q DEF vars
<1> QED BY <1>1, <1>2, <1>3, <1>4, <1>5, <1>6, <1>7, <1>8, <1>9, <1>10, <1>11, <1>12, <1>13, <1>14, <1>15, <1>16 DEF Next, Steps

\* What is recorded of a call is what happened to the device, whatever is asked of the
\* client, granted, approved or cancelled (_run_recorded, _refuse).
THEOREM TheRecordTells == Spec => []RecordTells
<1>1. RecordInv => RecordTells
  BY DEF RecordInv, TellsOf, Tells, RecordTells, At, During
<1> QED BY <1>1, RecordInit, RecordStep, PTL DEF Spec
(***************************************************************************)
(* The table of running actions.                                           *)
(***************************************************************************)

Waits(t, c) == c \in Calls /\ call[c].phase = "waiting" /\ call[c].aff = t

HandleInv ==
    /\ Shape
    /\ DOMAIN inflight = Long
    /\ \A t \in Long : inflight[t] # NoCall => Waits(t, inflight[t])

\* A step of a call that does not wait, and that leaves the table.
LEMMA OneMoves ==
    ASSUME HandleInv, NEW c \in Calls, DOMAIN call' = Calls, DOMAIN call'[c] = Fields,
           \A d \in Calls \ {c} : call'[d] = call[d], inflight' = inflight, call[c].phase # "waiting"
    PROVE  HandleInv'
<1>1. Shape'
  BY DEF HandleInv, Shape
<1>2. ASSUME NEW t \in Long, inflight'[t] # NoCall PROVE Waits(t, inflight[t])'
  <2>1. Waits(t, inflight[t])
    BY <1>2 DEF HandleInv
  <2>2. inflight[t] # c
    BY <2>1 DEF Waits
  <2> QED BY <2>1, <2>2 DEF Waits
<1> QED BY <1>1, <1>2 DEF HandleInv

\* A waiting call frees the entry of its action before it goes on.
LEMMA Unregisters ==
    ASSUME HandleInv, NEW c \in Calls, NEW ph, Moves(c, ph), inflight' = Unregister(c)
    PROVE  HandleInv'
<1>1. Shape'
  BY DEF HandleInv, Shape, Moves
<1>2. inflight' = [inflight EXCEPT ![call[c].aff] = NoCall] /\ DOMAIN inflight = Long
  BY DEF HandleInv, Unregister
<1>3. ASSUME NEW t \in Long, inflight'[t] # NoCall PROVE Waits(t, inflight[t])'
  <2>1. t # call[c].aff /\ inflight'[t] = inflight[t]
    BY <1>2, <1>3
  <2>2. Waits(t, inflight[t])
    BY <1>3, <2>1 DEF HandleInv
  <2>3. inflight[t] # c
    BY <2>1, <2>2 DEF Waits
  <2>4. call'[inflight[t]] = call[inflight[t]] /\ inflight[t] \in Calls
    BY <2>2, <2>3 DEF Waits, Moves
  <2> QED BY <2>1, <2>2, <2>4 DEF Waits
<1>4. DOMAIN inflight' = Long
  BY <1>2
<1> QED BY <1>1, <1>3, <1>4 DEF HandleInv

\* No handle is registered at first.
LEMMA HandleInit == ASSUME Init PROVE HandleInv
  BY DEF Init, Idle, HandleInv, Shape, Fields

\* Every step that ends a wait takes its handle away.
LEMMA HandleStep == ASSUME HandleInv, [Next]_vars PROVE HandleInv'
<1>s. Shape
  BY DEF HandleInv
<1>q. ASSUME UNCHANGED <<call, inflight>> PROVE HandleInv'
  BY <1>q DEF HandleInv, Shape, Waits
<1>g. ASSUME NEW c \in Calls, NEW ph, Goto(c, ph), inflight' = inflight, call[c].phase # "waiting" PROVE HandleInv'
  <2>1. Moves(c, ph)
    BY <1>s, <1>g, GotoMoves
  <2>2. DOMAIN call' = Calls /\ DOMAIN call'[c] = Fields /\ \A d \in Calls \ {c} : call'[d] = call[d]
    BY <2>1 DEF Moves
  <2> QED BY <1>g, <2>2, OneMoves
<1>x. ASSUME NEW c \in Calls, NEW r, call' = [call EXCEPT ![c] = r], DOMAIN r = Fields, inflight' = inflight,
             call[c].phase # "waiting"
      PROVE  HandleInv'
  <2>1. DOMAIN call' = Calls /\ DOMAIN call'[c] = Fields /\ \A d \in Calls \ {c} : call'[d] = call[d]
    BY <1>s, <1>x DEF Shape
  <2> QED BY <1>x, <2>1, OneMoves
<1>d. ASSUME NEW c \in Calls PROVE DOMAIN call[c] = Fields
  BY <1>s DEF Shape
<1>1. ASSUME NEW c \in Calls, Begin(c) PROVE HandleInv'
  <2>1. inflight' = inflight /\ call[c].phase # "waiting"
    BY <1>1 DEF Begin, At
  <2>2. PICK r \in Requests, h \in Calls \cup {NoCall} :
          call' = [call EXCEPT ![c] = [@ EXCEPT
               !.phase = IF r.kind \in Bulk THEN "next" ELSE "asking",
               !.kind = r.kind, !.aff = r.aff, !.arg = r.arg, !.handle = h,
               !.todo = IF r.kind \in Bulk THEN Readable ELSE {}]]
    BY <1>1 DEF Begin
  <2> DEFINE s == [call[c] EXCEPT
               !.phase = IF r.kind \in Bulk THEN "next" ELSE "asking",
               !.kind = r.kind, !.aff = r.aff, !.arg = r.arg, !.handle = h,
               !.todo = IF r.kind \in Bulk THEN Readable ELSE {}]
  <2>3. DOMAIN s = Fields
    BY <1>d
  <2>4. call' = [call EXCEPT ![c] = s]
    BY <1>s, <2>2 DEF Shape
  <2> QED BY <2>1, <2>3, <2>4, <1>x
<1>2. ASSUME NEW c \in Calls, NextProperty(c) PROVE HandleInv'
  <2>1. inflight' = inflight /\ call[c].phase # "waiting"
    BY <1>2 DEF NextProperty, At
  <2>2. CASE Goto(c, "over")
    BY <2>1, <2>2, <1>g
  <2>3. ASSUME NEW p \in call[c].todo,
               call' = [call EXCEPT ![c] = [@ EXCEPT !.phase = "asking", !.aff = p,
                            !.todo = call[c].todo \ {p}, !.seen = FALSE, !.failed = FALSE]]
        PROVE  HandleInv'
    <3> DEFINE r == [call[c] EXCEPT !.phase = "asking", !.aff = p, !.todo = call[c].todo \ {p},
                                    !.seen = FALSE, !.failed = FALSE]
    <3>1. DOMAIN r = Fields
      BY <1>d
    <3>2. call' = [call EXCEPT ![c] = r]
      BY <1>s, <2>3 DEF Shape
    <3> QED BY <2>1, <3>1, <3>2, <1>x
  <2> QED BY <1>2, <2>2, <2>3 DEF NextProperty
<1>3. ASSUME NEW c \in Calls, NotFound(c) PROVE HandleInv'
  BY <1>3, <1>g DEF NotFound, At
<1>r. ASSUME NEW c \in Calls, NEW raises, Refuse(c, raises), call[c].phase # "waiting" PROVE HandleInv'
  BY <1>r, <1>g DEF Refuse
<1>4. ASSUME NEW c \in Calls, Invalid(c) \/ NotInVocabulary(c) \/ Block(c) PROVE HandleInv'
  <2>1. call[c].phase # "waiting"
    BY <1>4 DEF Invalid, NotInVocabulary, Block, Found, At
  <2>2. Refuse(c, FALSE) \/ Refuse(c, RaiseOnDeny)
    BY <1>4 DEF Invalid, NotInVocabulary, Block
  <2> QED BY <2>1, <2>2, <1>r
<1>5. ASSUME NEW c \in Calls, Ask(c) PROVE HandleInv'
  <2>1. inflight' = inflight /\ call[c].phase # "waiting"
    BY <1>5 DEF Ask, Found, At
  <2>2. PICK saw, h : call' = [call EXCEPT ![c] = [@ EXCEPT !.phase = "deciding", !.seen = saw, !.handle = h]]
    BY <1>5 DEF Ask
  <2> DEFINE r == [call[c] EXCEPT !.phase = "deciding", !.seen = saw, !.handle = h]
  <2>3. DOMAIN r = Fields
    BY <1>d
  <2>4. call' = [call EXCEPT ![c] = r]
    BY <1>s, <2>2 DEF Shape
  <2> QED BY <2>1, <2>3, <2>4, <1>x
<1>6. ASSUME NEW c \in Calls, Decide(c) PROVE HandleInv'
  <2>1. call[c].phase # "waiting"
    BY <1>6 DEF Decide, At
  <2>2. \/ Goto(c, "approving") /\ inflight' = inflight
        \/ Goto(c, "calling") /\ inflight' = inflight
        \/ Refuse(c, RaiseOnDeny)
    BY <1>6 DEF Decide, Touch
  <2> QED BY <2>1, <2>2, <1>g, <1>r
<1>7. ASSUME NEW c \in Calls, Approve(c) PROVE HandleInv'
  BY <1>7, <1>g DEF Approve, Touch, At
<1>8. ASSUME NEW c \in Calls, Returns(c) PROVE HandleInv'
  <2>1. call[c].phase = "calling"
    BY <1>8 DEF Returns, At
  <2>2. CASE inflight' = inflight
    <3>1. PICK ph : Goto(c, ph)
      BY <1>8 DEF Returns
    <3> QED BY <2>1, <2>2, <3>1, <1>g
  <2>3. CASE /\ inflight' = [inflight EXCEPT ![call[c].aff] = c] /\ Goto(c, "waiting")
    <3>1. Moves(c, "waiting") /\ DOMAIN inflight = Long
      BY <2>3, <1>s, GotoMoves DEF HandleInv
    <3>2. call'[c].phase = "waiting" /\ call'[c].aff = call[c].aff
      BY <3>1 DEF Moves, Fields
    <3>3. ASSUME NEW t \in Long, inflight'[t] # NoCall PROVE Waits(t, inflight[t])'
      <4>1. CASE t = call[c].aff
        <5>1. inflight'[t] = c
          BY <2>3, <3>1, <4>1
        <5> QED BY <3>2, <4>1, <5>1 DEF Waits
      <4>2. CASE t # call[c].aff
        <5>1. inflight'[t] = inflight[t]
          BY <2>3, <3>1, <4>2
        <5>2. Waits(t, inflight[t])
          BY <3>3, <5>1 DEF HandleInv
        <5>3. inflight[t] # c /\ inflight[t] \in Calls
          BY <2>1, <5>2 DEF Waits
        <5>4. call'[inflight[t]] = call[inflight[t]]
          BY <3>1, <5>3 DEF Moves
        <5> QED BY <5>1, <5>2, <5>4 DEF Waits
      <4> QED BY <4>1, <4>2
    <3>4. Shape' /\ DOMAIN inflight' = Long
      BY <2>3, <3>1, <1>s DEF Moves, Shape
    <3> QED BY <3>3, <3>4 DEF HandleInv
  <2> QED BY <1>8, <2>2, <2>3 DEF Returns
<1>9. ASSUME NEW c \in Calls, Raises(c) PROVE HandleInv'
  <2>1. inflight' = inflight /\ call[c].phase # "waiting"
    BY <1>9 DEF Raises, At
  <2>2. PICK ph : call' = [call EXCEPT ![c] = [@ EXCEPT !.failed = TRUE, !.phase = ph]]
    BY <1>9 DEF Raises
  <2> DEFINE r == [call[c] EXCEPT !.failed = TRUE, !.phase = ph]
  <2>3. DOMAIN r = Fields
    BY <1>d
  <2>4. call' = [call EXCEPT ![c] = r]
    BY <1>s, <2>2 DEF Shape
  <2> QED BY <2>1, <2>3, <2>4, <1>x
<1>10. ASSUME NEW c \in Calls, WaitEnds(c) PROVE HandleInv'
  <2>1. Moves(c, "recording")
    BY <1>10, <1>s, GotoMoves DEF WaitEnds
  <2> QED BY <2>1, <1>10, Unregisters DEF WaitEnds
<1>11. ASSUME NEW c \in Calls, RecordRun(c) PROVE HandleInv'
  BY <1>11, <1>g DEF RecordRun, At
<1>12. ASSUME NEW c \in Calls, Cancelled(c) PROVE HandleInv'
  <2>1. Goto(c, "cancelled")
    BY <1>12 DEF Cancelled, Goto
  <2>2. CASE At(c, "waiting")
    <3>1. Moves(c, "cancelled")
      BY <2>1, <1>s, GotoMoves
    <3> QED BY <2>2, <3>1, <1>12, Unregisters DEF Cancelled
  <2>3. CASE ~At(c, "waiting")
    BY <2>1, <2>3, <1>12, <1>g DEF Cancelled, At
  <2> QED BY <2>2, <2>3
<1>13. ASSUME Regrant PROVE HandleInv'
  <2>1. Shape'
    BY <1>13, <1>s, RegrantMoves DEF Shape
  <2>2. \A c \in Calls : call'[c].phase = call[c].phase /\ call'[c].aff = call[c].aff
    BY <1>13, <1>s, RegrantMoves DEF Fields
  <2>3. inflight' = inflight
    BY <1>13 DEF Regrant
  <2> QED BY <2>1, <2>2, <2>3 DEF HandleInv, Waits
<1>14. ASSUME NEW c \in Calls, DeviceFinishes(c) PROVE HandleInv'
  BY <1>14, <1>q DEF DeviceFinishes
<1>15. CASE AddThings
  <2>1. call' = call /\ inflight' = [t \in Long |-> NoCall]
    BY <1>15 DEF AddThings
  <2> QED BY <1>s, <2>1 DEF HandleInv, Shape
<1>16. CASE UNCHANGED vars
  BY <1>16, <1>q DEF vars
<1> QED BY <1>1, <1>2, <1>3, <1>4, <1>5, <1>6, <1>7, <1>8, <1>9, <1>10, <1>11, <1>12, <1>13, <1>14, <1>15, <1>16 DEF Next, Steps

\* Whoever cancels an action by its name finds a run that its own caller waits for, with
\* runs started one over another, re-descriptions and cancelled waits (_invoke_async,
\* _wait_for, add_things).
THEOREM TheTableIsWaitedFor == Spec => []HandlesAreWaited
<1>1. HandleInv => HandlesAreWaited
  BY DEF HandleInv, Waits, HandlesAreWaited, At
<1> QED BY <1>1, HandleInit, HandleStep, PTL DEF Spec

(***************************************************************************)
(* The grants.                                                             *)
(***************************************************************************)

\* What the policy permits, some grant in force allows.
LEMMA PermitsWhatIsAllowed ==
    ASSUME NEW gs, NEW c \in Calls, NEW words, Permits(gs, words, call[c].aff, Op(c), call[c].arg)
    PROVE  Allows(gs, c)
<1>1. PICK g \in Covering(gs, call[c].aff, Op(c)) : g.limit = Unlimited \/ call[c].arg \in g.limit
  BY DEF Permits, Within
<1>2. g \in gs /\ (g.aff = Wild \/ g.aff = call[c].aff) /\ (g.op = Wild \/ g.op = Op(c))
  BY DEF Covering
<1> QED BY <1>1, <1>2 DEF Allows

\* A call that may touch its device, or is asked about, has met grants that allow it.
Warranted(c) ==
    /\ call[c].phase \in {"approving", "calling"} => call[c].seen
    /\ call[c].phase = "deciding" /\ Allows(grants, c) => call[c].seen

WarrantInv == Shape /\ \A c \in Calls : Warranted(c)

\* A step of one call leaves the warrants of the others.
LEMMA OneWarranted ==
    ASSUME WarrantInv, NEW c \in Calls, DOMAIN call' = Calls, DOMAIN call'[c] = Fields,
           \A d \in Calls \ {c} : call'[d] = call[d], grants' = grants, Warranted(c)'
    PROVE  WarrantInv'
<1>1. Shape'
  BY DEF WarrantInv, Shape
<1>2. ASSUME NEW d \in Calls, d # c PROVE Warranted(d)'
  <2>1. Warranted(d) /\ call'[d] = call[d]
    BY <1>2 DEF WarrantInv
  <2> QED BY <2>1 DEF Warranted, Allows, Op
<1> QED BY <1>1, <1>2 DEF WarrantInv

\* A call that goes anywhere but to its device or before an approver.
LEMMA MovesAway ==
    ASSUME WarrantInv, NEW c \in Calls, DOMAIN call' = Calls, DOMAIN call'[c] = Fields,
           \A d \in Calls \ {c} : call'[d] = call[d], grants' = grants,
           call'[c].phase \notin {"approving", "calling", "deciding"}
    PROVE  WarrantInv'
  BY OneWarranted DEF Warranted

\* No call is past its decision at first.
LEMMA WarrantInit == ASSUME Init PROVE WarrantInv
<1>1. Shape
  BY DEF Init, Idle, Shape, Fields
<1>2. \A c \in Calls : call[c].phase = "idle"
  BY DEF Init, Idle
<1> QED BY <1>1, <1>2 DEF WarrantInv, Warranted

\* Every step past a decision has the warrant of a grant.
LEMMA WarrantStep == ASSUME WarrantInv, [Next]_vars PROVE WarrantInv'
<1>s. Shape
  BY DEF WarrantInv
<1>d. ASSUME NEW c \in Calls PROVE DOMAIN call[c] = Fields
  BY <1>s DEF Shape
<1>q. ASSUME UNCHANGED <<call, grants>> PROVE WarrantInv'
  BY <1>q DEF WarrantInv, Shape, Warranted, Allows, Op
<1>g. ASSUME NEW c \in Calls, NEW ph, Goto(c, ph), grants' = grants,
             ph \in {"approving", "calling", "deciding"} => call[c].seen
      PROVE  WarrantInv'
  <2>1. Moves(c, ph)
    BY <1>s, <1>g, GotoMoves
  <2>2. /\ DOMAIN call' = Calls /\ DOMAIN call'[c] = Fields /\ \A d \in Calls \ {c} : call'[d] = call[d]
        /\ call'[c].phase = ph /\ call'[c].seen = call[c].seen
    BY <2>1 DEF Moves, Fields
  <2>3. Warranted(c)'
    BY <1>g, <2>2 DEF Warranted
  <2> QED BY <1>g, <2>2, <2>3, OneWarranted
<1>x. ASSUME NEW c \in Calls, NEW r, call' = [call EXCEPT ![c] = r], DOMAIN r = Fields, grants' = grants,
             r.phase \notin {"approving", "calling", "deciding"}
      PROVE  WarrantInv'
  <2>1. DOMAIN call' = Calls /\ call'[c] = r /\ \A d \in Calls \ {c} : call'[d] = call[d]
    BY <1>s, <1>x DEF Shape
  <2> QED BY <1>x, <2>1, MovesAway
<1>e. ASSUME NEW c \in Calls, NEW failed PROVE Ends(c, failed) \notin {"approving", "calling", "deciding"}
  BY DEF Ends
<1>1. ASSUME NEW c \in Calls, Begin(c) PROVE WarrantInv'
  <2>1. grants' = grants
    BY <1>1 DEF Begin, policy
  <2>2. PICK r \in Requests, h \in Calls \cup {NoCall} :
          call' = [call EXCEPT ![c] = [@ EXCEPT
               !.phase = IF r.kind \in Bulk THEN "next" ELSE "asking",
               !.kind = r.kind, !.aff = r.aff, !.arg = r.arg, !.handle = h,
               !.todo = IF r.kind \in Bulk THEN Readable ELSE {}]]
    BY <1>1 DEF Begin
  <2> DEFINE s == [call[c] EXCEPT
               !.phase = IF r.kind \in Bulk THEN "next" ELSE "asking",
               !.kind = r.kind, !.aff = r.aff, !.arg = r.arg, !.handle = h,
               !.todo = IF r.kind \in Bulk THEN Readable ELSE {}]
  <2>3. DOMAIN s = Fields /\ s.phase \in {"next", "asking"}
    BY <1>d DEF Fields
  <2>4. call' = [call EXCEPT ![c] = s]
    BY <1>s, <2>2 DEF Shape
  <2> HIDE DEF s
  <2> QED BY <2>1, <2>3, <2>4, <1>x
<1>2. ASSUME NEW c \in Calls, NextProperty(c) PROVE WarrantInv'
  <2>1. grants' = grants
    BY <1>2 DEF NextProperty, policy
  <2>2. CASE Goto(c, "over")
    BY <2>1, <2>2, <1>g
  <2>3. ASSUME NEW p \in call[c].todo,
               call' = [call EXCEPT ![c] = [@ EXCEPT !.phase = "asking", !.aff = p,
                            !.todo = call[c].todo \ {p}, !.seen = FALSE, !.failed = FALSE]]
        PROVE  WarrantInv'
    <3> DEFINE r == [call[c] EXCEPT !.phase = "asking", !.aff = p, !.todo = call[c].todo \ {p},
                                    !.seen = FALSE, !.failed = FALSE]
    <3>1. DOMAIN r = Fields /\ r.phase = "asking"
      BY <1>d DEF Fields
    <3>2. call' = [call EXCEPT ![c] = r]
      BY <1>s, <2>3 DEF Shape
    <3> HIDE DEF r
    <3> QED BY <2>1, <3>1, <3>2, <1>x
  <2> QED BY <1>2, <2>2, <2>3 DEF NextProperty
<1>3. ASSUME NEW c \in Calls, NotFound(c) PROVE WarrantInv'
  BY <1>3, <1>g, <1>e DEF NotFound, policy
<1>r. ASSUME NEW c \in Calls, NEW raises, Refuse(c, raises) PROVE WarrantInv'
  BY <1>r, <1>g, <1>e DEF Refuse, policy
<1>4. ASSUME NEW c \in Calls, Invalid(c) \/ NotInVocabulary(c) \/ Block(c) PROVE WarrantInv'
  <2>1. Refuse(c, FALSE) \/ Refuse(c, RaiseOnDeny)
    BY <1>4 DEF Invalid, NotInVocabulary, Block
  <2> QED BY <2>1, <1>r
<1>5. ASSUME NEW c \in Calls, Ask(c) PROVE WarrantInv'
  <2>1. grants' = grants
    BY <1>5 DEF Ask, policy
  <2>2. PICK h : call' = [call EXCEPT ![c] = [@ EXCEPT !.phase = "deciding", !.seen = Allows(grants, c), !.handle = h]]
    BY <1>5 DEF Ask
  <2> DEFINE r == [call[c] EXCEPT !.phase = "deciding", !.seen = Allows(grants, c), !.handle = h]
  <2>3. /\ DOMAIN r = Fields /\ r.phase = "deciding" /\ r.seen = Allows(grants, c)
        /\ r.aff = call[c].aff /\ r.kind = call[c].kind /\ r.arg = call[c].arg
    BY <1>d DEF Fields
  <2>4. call' = [call EXCEPT ![c] = r]
    BY <1>s, <2>2 DEF Shape
  <2> HIDE DEF r
  <2>5. DOMAIN call' = Calls /\ call'[c] = r /\ \A d \in Calls \ {c} : call'[d] = call[d]
    BY <1>s, <2>4 DEF Shape
  <2>6. Allows(grants, c)' <=> Allows(grants, c)
    BY <2>1, <2>3, <2>5 DEF Allows, Op
  <2>7. Warranted(c)'
    BY <2>3, <2>5, <2>6 DEF Warranted
  <2> QED BY <2>1, <2>3, <2>5, <2>7, OneWarranted
<1>6. ASSUME NEW c \in Calls, Decide(c) PROVE WarrantInv'
  <2>1. CASE Refuse(c, RaiseOnDeny)
    BY <2>1, <1>r
  <2>2. CASE Permits(grants, {<<call[c].aff, Op(c)>>}, call[c].aff, Op(c), call[c].arg)
    <3>1. Allows(grants, c)
      BY <2>2, PermitsWhatIsAllowed
    <3>2. call[c].seen
      BY <3>1, <1>6 DEF Decide, At, WarrantInv, Warranted
    <3>3. grants' = grants /\ (Goto(c, "approving") \/ Goto(c, "calling"))
      BY <2>2, <1>6 DEF Decide, Touch, policy
    <3> QED BY <3>2, <3>3, <1>g
  <2> QED BY <1>6, <2>1, <2>2 DEF Decide
<1>7. ASSUME NEW c \in Calls, Approve(c) PROVE WarrantInv'
  <2>1. call[c].seen
    BY <1>7 DEF Approve, At, WarrantInv, Warranted
  <2> QED BY <1>7, <2>1, <1>g DEF Approve, Touch, policy
<1>8. ASSUME NEW c \in Calls, Returns(c) PROVE WarrantInv'
  <2>1. PICK ph \in {"waiting", "over", "recording"} : Goto(c, ph) /\ grants' = grants
    BY <1>8 DEF Returns, policy
  <2> QED BY <2>1, <1>g
<1>9. ASSUME NEW c \in Calls, Raises(c) PROVE WarrantInv'
  <2>1. grants' = grants
    BY <1>9 DEF Raises, policy
  <2>2. PICK ph \in {"over", "recording"} : call' = [call EXCEPT ![c] = [@ EXCEPT !.failed = TRUE, !.phase = ph]]
    BY <1>9 DEF Raises
  <2> DEFINE r == [call[c] EXCEPT !.failed = TRUE, !.phase = ph]
  <2>3. DOMAIN r = Fields /\ r.phase = ph
    BY <1>d DEF Fields
  <2>4. call' = [call EXCEPT ![c] = r]
    BY <1>s, <2>2 DEF Shape
  <2> HIDE DEF r
  <2> QED BY <2>1, <2>2, <2>3, <2>4, <1>x
<1>10. ASSUME NEW c \in Calls, WaitEnds(c) PROVE WarrantInv'
  BY <1>10, <1>g DEF WaitEnds, policy
<1>11. ASSUME NEW c \in Calls, RecordRun(c) PROVE WarrantInv'
  BY <1>11, <1>g, <1>e DEF RecordRun, policy
<1>12. ASSUME NEW c \in Calls, Cancelled(c) PROVE WarrantInv'
  <2>1. Goto(c, "cancelled") /\ grants' = grants
    BY <1>12 DEF Cancelled, Goto, policy
  <2> QED BY <2>1, <1>g
<1>13. ASSUME Regrant PROVE WarrantInv'
  <2>1. Shape'
    BY <1>13, <1>s, RegrantMoves DEF Shape
  <2>2. ASSUME NEW c \in Calls PROVE Warranted(c)'
    <3>1. /\ call'[c].phase = call[c].phase /\ call'[c].aff = call[c].aff
          /\ call'[c].kind = call[c].kind /\ call'[c].arg = call[c].arg
          /\ call'[c].seen = Sees(c, grants')
      BY <1>13, <1>s, RegrantMoves DEF Fields
    <3>2. Allows(grants, c)' <=> Allows(grants', c)
      BY <3>1 DEF Allows, Op
    <3>3. Warranted(c)
      BY DEF WarrantInv
    <3> QED BY <3>1, <3>2, <3>3 DEF Warranted, Sees, At
  <2> QED BY <2>1, <2>2 DEF WarrantInv
<1>14. ASSUME NEW c \in Calls, DeviceFinishes(c) PROVE WarrantInv'
  BY <1>14, <1>q DEF DeviceFinishes, policy
<1>15. CASE AddThings
  BY <1>15, <1>q DEF AddThings
<1>16. CASE UNCHANGED vars
  BY <1>16, <1>q DEF vars
<1> QED BY <1>1, <1>2, <1>3, <1>4, <1>5, <1>6, <1>7, <1>8, <1>9, <1>10, <1>11, <1>12, <1>13, <1>14, <1>15, <1>16 DEF Next, Steps

\* A device is touched for nothing the grants did not allow, with the arguments it is
\* touched with, between the question and the answer, for any limits, any policies, and
\* any grants and descriptions that come and go meanwhile (decide, _covering, _within).
THEOREM NothingBeyondGrants == Spec => NeverBeyondGrants
<1>1. WarrantInv' => \A c \in Calls : call'[c].phase = "calling" => call'[c].seen
  BY DEF WarrantInv, Warranted
<1>2. WarrantInv /\ [Next]_vars => [\A c \in Calls : call'[c].phase = "calling" => call'[c].seen]_vars
  BY <1>1, WarrantStep
<1> QED BY <1>2, WarrantInit, WarrantStep, PTL DEF Spec, NeverBeyondGrants

(***************************************************************************)
(* The calls of an imported document, a part of its own.                   *)
(***************************************************************************)
\* The request that a call of the operation makes of arguments it accepts.
Fitting(s, names) ==
    /\ names \subseteq Api!Compiled(s).input /\ Api!Compiled(s).required \subseteq names
    /\ sent = [placed |-> Api!Placed(Api!Compiled(s), names), schemes |-> Api!Presented(Api!Compiled(s))]

Imported ==
    /\ spec \in Specs
    /\ compiled # Nothing => compiled = Api!Compiled(spec)
    /\ sent # Nothing => Fitting(spec, given)

\* Every import and call keeps to the document.
LEMMA ImportedAlways == Api!Spec => []Imported
<1>1. Api!Init => Imported
  BY DEF Api!Init, Imported
<1>2. ASSUME Imported, [Api!Next]_(Api!vars) PROVE Imported'
  <2>1. CASE Api!Import
    BY <1>2, <2>1 DEF Api!Import, Imported, Fitting
  <2>2. CASE Api!Call
    <3>1. /\ compiled = Api!Compiled(spec) /\ spec' = spec /\ compiled' = compiled /\ spec \in Specs
          /\ given' \subseteq compiled.input /\ compiled.required \subseteq given'
          /\ sent' = [placed |-> Api!Placed(compiled, given'), schemes |-> Api!Presented(compiled)]
      BY <1>2, <2>2 DEF Api!Call, Imported
    <3> QED BY <1>2, <3>1 DEF Imported, Fitting
  <2>3. CASE UNCHANGED Api!vars
    BY <1>2, <2>3 DEF Api!vars, Imported, Fitting
  <2> QED BY <1>2, <2>1, <2>2, <2>3 DEF Api!Next
<1> QED BY <1>1, <1>2, PTL DEF Api!Spec

\* A set of numbers has a least one.
LEMMA LeastOf == ASSUME NEW T, T \subseteq Nat, T # {} PROVE \E n \in T : \A u \in T : n <= u
<1> DEFINE R == OpToRel(<, Nat)
<1>1. \A x, y \in Nat : <<x, y>> \in R <=> x < y
  BY DEF OpToRel
<1>2. IsWellFoundedOn(R, Nat)
  BY NatLessThanWellFounded
<1> HIDE DEF R
<1>3. PICK n \in T : \A u \in T : ~ (<<u, n>> \in R)
  BY <1>2, WFMin
<1>4. ASSUME NEW u \in T PROVE n <= u
  <2>1. u \in Nat /\ n \in Nat
    OBVIOUS
  <2>2. ~ (u < n)
    BY <1>1, <1>3, <2>1
  <2> QED BY <2>1, <2>2
<1> QED BY <1>4

\* The first alternative that names a scheme is one that does.
LEMMA FirstIs ==
    ASSUME NEW S, NEW security \in Seq(S), Api!Groups(security) # {}
    PROVE  Api!First(security) \in Api!ToSet(security) /\ Api!First(security) # {}
<1>1. Api!Groups(security) \subseteq Nat
  BY DEF Api!Groups
<1>2. \E n \in Api!Groups(security) : \A u \in Api!Groups(security) : n <= u
  BY <1>1, LeastOf
<1>3. Api!Min(Api!Groups(security)) \in Api!Groups(security)
  BY <1>2 DEF Api!Min
<1> QED BY <1>3 DEF Api!First, Api!Groups, Api!ToSet

\* What is placed where: the path takes its variables, and the method decides on the rest.
LEMMA PlacedAsDeclared ==
    ASSUME NEW names, Fitting(spec, names), Api!IsWithinReach
    PROVE  /\ sent.placed.path = Api!Op.vars
           /\ sent.placed.query = names \cap Api!Names(Api!Parameters(Api!Op, {"query"}))
           /\ sent.placed.body = names \cap Api!BodyFields(Api!Op)
<1> DEFINE path == Api!Names(Api!Parameters(Api!Op, {"path"}))
           query == Api!Names(Api!Parameters(Api!Op, {"query"}))
           fields == Api!BodyFields(Api!Op)
           a == Api!Compiled(spec)
<1>1. /\ a.vars = Api!Op.vars /\ a.method = Api!Op.method /\ (a.binary <=> Api!Op.body = "binary")
      /\ a.input = path \cup query \cup fields /\ path \subseteq a.required
  BY DEF Api!Compiled, Api!Op, Api!Required, Api!Names, Api!Parameters
<1>2. /\ Api!Op.vars = path /\ path \cap (query \cup fields) = {}
      /\ Api!Op.method = "GET" => fields = {}
      /\ Api!Op.method # "GET" => query = {}
  BY DEF Api!IsWithinReach, Api!BodyFields, Api!Names, Api!Parameters
<1>3. Api!Op.body = "binary" => fields = {"body"}
  BY DEF Api!BodyFields
<1>4. names \subseteq a.input /\ a.required \subseteq names /\ sent.placed = Api!Placed(a, names)
  BY DEF Fitting
<1> HIDE DEF path, query, fields, a
<1>5. /\ Api!Placed(a, names).path = names \cap a.vars
      /\ Api!Placed(a, names).query = IF a.method = "GET" THEN names \ a.vars ELSE {}
      /\ Api!Placed(a, names).body =
            IF a.method = "GET" THEN {} ELSE IF a.binary THEN (names \ a.vars) \cap {"body"} ELSE names \ a.vars
  BY DEF Api!Placed, Api!Body
<1>6. names \cap a.vars = Api!Op.vars
  BY <1>1, <1>2, <1>4
<1>7. names \ a.vars = names \cap (query \cup fields)
  BY <1>1, <1>2, <1>4
<1>8. Api!Placed(a, names).query = names \cap query
  BY <1>1, <1>2, <1>5, <1>7
<1>9. Api!Placed(a, names).body = names \cap fields
  BY <1>1, <1>2, <1>3, <1>5, <1>7
<1> QED BY <1>4, <1>5, <1>6, <1>8, <1>9 DEF query, fields

\* The schemes presented are those of an alternative, and none where none is asked for.
LEMMA PresentedAsRequired ==
    ASSUME spec \in Specs, Api!IsWithinReach
    PROVE  LET schemes == Api!Presented(Api!Compiled(spec))
           IN  /\ Api!Meets(schemes)
               /\ (Api!Op.security # Nothing /\ Api!ToSet(Api!Op.security) \subseteq {{}}) => schemes = {}
<1> DEFINE own == Api!Op.security
           defs == Api!Defs(spec)
           schemes == Api!Presented(Api!Compiled(spec))
<1>1. defs \subseteq spec.schemes /\ Api!NoSec \notin defs
  BY DEF Api!Defs, Api!IsWithinReach
<1>2. /\ Api!Requirement # Nothing => \A g \in Api!ToSet(Api!Requirement) : g \subseteq defs
      /\ spec.security # Nothing => spec.security \in Seq(Api!ToSet(spec.security))
      /\ own # Nothing => own \in Seq(Api!ToSet(own))
      /\ \A x \in SUBSET defs : x # Nothing
      /\ {Api!NoSec} # Nothing
  BY <1>1, DocumentsAssumption DEF Api!IsWithinReach, Api!DocumentsAssumption, Api!Op
<1>3. Api!Active(spec) \subseteq defs
  BY DEF Api!Active
<1>4. schemes = (IF Api!FormSecurity(spec) = Nothing
                 THEN IF defs = {} THEN {Api!NoSec} ELSE Api!Active(spec)
                 ELSE Api!FormSecurity(spec)) \ {Api!NoSec}
  BY DEF Api!Presented, Api!Compiled
\* An operation that inherits is sent with what is active.
<1>5. CASE own = Nothing
  <2>1. Api!FormSecurity(spec) = Nothing
    BY <1>5 DEF Api!FormSecurity, Api!OpSecurity, Api!Op
  <2>2. schemes = Api!Active(spec)
    BY <1>1, <1>3, <1>4, <2>1
  <2>3. Api!Requirement = spec.security
    BY <1>5 DEF Api!Requirement
  <2>4. CASE spec.security = Nothing \/ spec.security = <<>>
    BY <1>5, <2>3, <2>4 DEF Api!Meets
  <2>5. CASE spec.security # Nothing /\ spec.security # <<>> /\ Api!Groups(spec.security) = {}
    <3>1. 1 \in DOMAIN spec.security /\ spec.security[1] = {}
      BY <1>2, <2>5 DEF Api!Groups
    <3>2. {} \in Api!ToSet(spec.security)
      BY <3>1 DEF Api!ToSet
    <3> QED BY <1>5, <2>3, <3>2 DEF Api!Meets
  <2>6. CASE spec.security # Nothing /\ Api!Groups(spec.security) # {}
    <3>1. Api!First(spec.security) \in Api!ToSet(spec.security)
      BY <1>2, <2>6, FirstIs
    <3>2. Api!Active(spec) = Api!First(spec.security)
      BY <1>2, <2>3, <2>6, <3>1 DEF Api!Active
    <3> QED BY <1>5, <2>2, <2>3, <3>1, <3>2 DEF Api!Meets
  <2> QED BY <2>4, <2>5, <2>6
\* One with a requirement of its own is sent with its first group, or with none.
<1>6. CASE own # Nothing /\ Api!Groups(own) = {}
  <2>1. Api!OpSecurity(spec) = {}
    BY <1>6 DEF Api!OpSecurity, Api!Op
  <2>2. schemes = {}
    BY <1>1, <1>2, <1>3, <1>4, <2>1 DEF Api!FormSecurity
  <2>3. Api!Requirement = own
    BY <1>6 DEF Api!Requirement
  <2>4. own = <<>> \/ {} \in Api!ToSet(own)
    <3>1. own # <<>> => 1 \in DOMAIN own /\ own[1] = {}
      BY <1>2, <1>6 DEF Api!Groups
    <3> QED BY <3>1 DEF Api!ToSet
  <2> QED BY <2>2, <2>3, <2>4 DEF Api!Meets
<1>7. CASE own # Nothing /\ Api!Groups(own) # {}
  <2>1. Api!Requirement = own
    BY <1>7 DEF Api!Requirement
  <2>2. Api!First(own) \in Api!ToSet(own) /\ Api!First(own) # {}
    BY <1>2, <1>7, FirstIs
  <2>3. Api!First(own) \subseteq defs
    BY <1>2, <1>7, <2>1, <2>2
  <2>4. Api!OpSecurity(spec) = Api!First(own)
    BY <1>7, <2>3 DEF Api!OpSecurity, Api!Op
  <2>5. schemes = Api!First(own)
    BY <1>1, <1>2, <1>3, <1>4, <2>2, <2>3, <2>4 DEF Api!FormSecurity
  <2> QED BY <2>1, <2>2, <2>5 DEF Api!Meets
<1> QED BY <1>5, <1>6, <1>7

\* A call of an imported operation puts every argument where the document has it, leaves
\* no variable of the path open and carries the schemes of an alternative, for any
\* document and any arguments.
THEOREM CallsFitTheirDocument == Api!Spec => []CallFitsTheSpec
<1>1. ASSUME Imported PROVE CallFitsTheSpec
  <2> SUFFICES ASSUME sent # Nothing, Api!IsWithinReach
               PROVE  /\ sent.placed.path = Api!Op.vars
                      /\ sent.placed.query = given \cap Api!Names(Api!Parameters(Api!Op, {"query"}))
                      /\ sent.placed.body = given \cap Api!BodyFields(Api!Op)
                      /\ Api!Meets(sent.schemes)
                      /\ (Api!Op.security # Nothing /\ Api!ToSet(Api!Op.security) \subseteq {{}}) => sent.schemes = {}
    BY DEF CallFitsTheSpec, Api!CallFitsTheSpec
  <2>1. Fitting(spec, given) /\ spec \in Specs
    BY <1>1 DEF Imported
  <2>2. sent.schemes = Api!Presented(Api!Compiled(spec))
    BY <2>1 DEF Fitting
  <2> QED BY <2>1, <2>2, PlacedAsDeclared, PresentedAsRequired
<1> QED BY <1>1, ImportedAlways, PTL

(***************************************************************************)
(* The arguments of a call.  What ToolArguments says of a schema and a     *)
(* value is a function of how many levels they have left: the equation of   *)
(* each level, then one level at a time, then every level.                 *)
(***************************************************************************)

\* A set of numbers with 0 and with the successor of each of its own has them all.
LEMMA EveryNumber ==
    ASSUME NEW S, 0 \in S, \A n \in Nat : n \in S => n + 1 \in S
    PROVE  Nat \subseteq S
<1> DEFINE R == OpToRel(<, Nat)
<1>1. SUFFICES ASSUME NEW k \in Nat, k \notin S PROVE FALSE
  OBVIOUS
<1>2. k \in Nat \ S /\ Nat \ S \subseteq Nat
  BY <1>1
<1>3. PICK n \in Nat \ S : \A m \in Nat \ S : <<m, n>> \notin R
  <2> HIDE DEF R
  <2>1. IsWellFoundedOn(R, Nat)
    BY NatLessThanWellFounded DEF R
  <2> QED BY <2>1, <1>2, WFMin
<1>4. \A m \in Nat \ S : ~(m < n)
  BY <1>3 DEF OpToRel
<1>5. n # 0 /\ n - 1 \in Nat /\ n - 1 \in S
  BY <1>4
<1> QED BY <1>5

\* The recursion of each function on levels, one level at a time.
LEMMA ValuesByLevel ==
    ASSUME Depth \in Nat
    PROVE  \A d \in 0..Depth : Tool!Values[d] =
               IF d = 0 THEN {} ELSE Tool!ValuesOver(Tool!Values[d - 1])
<1> DEFINE Body(f, d) ==
               IF d = 0 THEN {} ELSE Tool!ValuesOver(f[d - 1])
           Good == {n \in Nat : \E f : f = [d \in 0..n |-> Body(f, d)]}
<1>1. \A f, g, d : (d # 0 => f[d - 1] = g[d - 1]) => Body(f, d) = Body(g, d)
  OBVIOUS
<1> HIDE DEF Body
<1>2. 0 \in Good
  <2>1. [d \in 0..0 |-> Body(<<>>, d)] = [d \in 0..0 |-> Body([e \in 0..0 |-> Body(<<>>, e)], d)]
    BY <1>1
  <2> QED BY <2>1
<1>3. ASSUME NEW n \in Nat, n \in Good PROVE n + 1 \in Good
  <2>1. PICK f : f = [d \in 0..n |-> Body(f, d)]
    BY <1>3
  <2> DEFINE g == [d \in 0..(n + 1) |-> Body(f, d)]
  <2>2. \A d \in 0..n : f[d] = Body(f, d)
    BY <2>1, Zenon
  <2>3. \A d \in 0..(n + 1) : d # 0 => f[d - 1] = g[d - 1]
    BY <2>2
  <2>4. \A d \in 0..(n + 1) : Body(f, d) = Body(g, d)
    <3> HIDE DEF g
    <3> QED BY <1>1, <2>3, Zenon
  <2>5. g = [d \in 0..(n + 1) |-> Body(g, d)]
    BY <2>4, Zenon
  <2> HIDE DEF g
  <2> QED BY <2>5
<1>4. Depth \in Good
  <2> HIDE DEF Good
  <2> QED BY <1>2, <1>3, EveryNumber
<1>5. Tool!Values = [d \in 0..Depth |-> Body(Tool!Values, d)]
  BY <1>4 DEF Tool!Values, Body
<1> QED BY <1>5, Zenon DEF Body

\* Schemas, by level.
LEMMA SchemasByLevel ==
    ASSUME Depth \in Nat
    PROVE  \A d \in 0..Depth : Tool!Schemas[d] =
               IF d = 0 THEN {} ELSE Tool!SchemasOver(Tool!Schemas[d - 1], Tool!Values[d])
<1> DEFINE Body(f, d) ==
               IF d = 0 THEN {} ELSE Tool!SchemasOver(f[d - 1], Tool!Values[d])
           Good == {n \in Nat : \E f : f = [d \in 0..n |-> Body(f, d)]}
<1>1. \A f, g, d : (d # 0 => f[d - 1] = g[d - 1]) => Body(f, d) = Body(g, d)
  OBVIOUS
<1> HIDE DEF Body
<1>2. 0 \in Good
  <2>1. [d \in 0..0 |-> Body(<<>>, d)] = [d \in 0..0 |-> Body([e \in 0..0 |-> Body(<<>>, e)], d)]
    BY <1>1
  <2> QED BY <2>1
<1>3. ASSUME NEW n \in Nat, n \in Good PROVE n + 1 \in Good
  <2>1. PICK f : f = [d \in 0..n |-> Body(f, d)]
    BY <1>3
  <2> DEFINE g == [d \in 0..(n + 1) |-> Body(f, d)]
  <2>2. \A d \in 0..n : f[d] = Body(f, d)
    BY <2>1, Zenon
  <2>3. \A d \in 0..(n + 1) : d # 0 => f[d - 1] = g[d - 1]
    BY <2>2
  <2>4. \A d \in 0..(n + 1) : Body(f, d) = Body(g, d)
    <3> HIDE DEF g
    <3> QED BY <1>1, <2>3, Zenon
  <2>5. g = [d \in 0..(n + 1) |-> Body(g, d)]
    BY <2>4, Zenon
  <2> HIDE DEF g
  <2> QED BY <2>5
<1>4. Depth \in Good
  <2> HIDE DEF Good
  <2> QED BY <1>2, <1>3, EveryNumber
<1>5. Tool!Schemas = [d \in 0..Depth |-> Body(Tool!Schemas, d)]
  BY <1>4 DEF Tool!Schemas, Body
<1> QED BY <1>5, Zenon DEF Body

\* What is offered, by level.
LEMMA OfferedByLevel ==
    ASSUME Depth \in Nat
    PROVE  \A d \in 0..Depth : Tool!Offered[d] =
               IF d = 0 THEN <<>> ELSE [s \in Tool!Schemas[d] |-> Tool!WithoutConst(s, Tool!Offered[d - 1])]
<1> DEFINE Body(f, d) ==
               IF d = 0 THEN <<>> ELSE [s \in Tool!Schemas[d] |-> Tool!WithoutConst(s, f[d - 1])]
           Good == {n \in Nat : \E f : f = [d \in 0..n |-> Body(f, d)]}
<1>1. \A f, g, d : (d # 0 => f[d - 1] = g[d - 1]) => Body(f, d) = Body(g, d)
  OBVIOUS
<1> HIDE DEF Body
<1>2. 0 \in Good
  <2>1. [d \in 0..0 |-> Body(<<>>, d)] = [d \in 0..0 |-> Body([e \in 0..0 |-> Body(<<>>, e)], d)]
    BY <1>1
  <2> QED BY <2>1
<1>3. ASSUME NEW n \in Nat, n \in Good PROVE n + 1 \in Good
  <2>1. PICK f : f = [d \in 0..n |-> Body(f, d)]
    BY <1>3
  <2> DEFINE g == [d \in 0..(n + 1) |-> Body(f, d)]
  <2>2. \A d \in 0..n : f[d] = Body(f, d)
    BY <2>1, Zenon
  <2>3. \A d \in 0..(n + 1) : d # 0 => f[d - 1] = g[d - 1]
    BY <2>2
  <2>4. \A d \in 0..(n + 1) : Body(f, d) = Body(g, d)
    <3> HIDE DEF g
    <3> QED BY <1>1, <2>3, Zenon
  <2>5. g = [d \in 0..(n + 1) |-> Body(g, d)]
    BY <2>4, Zenon
  <2> HIDE DEF g
  <2> QED BY <2>5
<1>4. Depth \in Good
  <2> HIDE DEF Good
  <2> QED BY <1>2, <1>3, EveryNumber
<1>5. Tool!Offered = [d \in 0..Depth |-> Body(Tool!Offered, d)]
  BY <1>4 DEF Tool!Offered, Body
<1> QED BY <1>5, Zenon DEF Body

\* What is filled in, by level.
LEMMA FilledByLevel ==
    ASSUME Depth \in Nat
    PROVE  \A d \in 0..Depth : Tool!Filled[d] =
               IF d = 0 THEN <<>> ELSE [s \in Tool!Schemas[d] |-> [v \in Tool!Optional(Tool!Values[d]) |-> Tool!Fill(s, v, Tool!Filled[d - 1])]]
<1> DEFINE Body(f, d) ==
               IF d = 0 THEN <<>> ELSE [s \in Tool!Schemas[d] |-> [v \in Tool!Optional(Tool!Values[d]) |-> Tool!Fill(s, v, f[d - 1])]]
           Good == {n \in Nat : \E f : f = [d \in 0..n |-> Body(f, d)]}
<1>1. \A f, g, d : (d # 0 => f[d - 1] = g[d - 1]) => Body(f, d) = Body(g, d)
  OBVIOUS
<1> HIDE DEF Body
<1>2. 0 \in Good
  <2>1. [d \in 0..0 |-> Body(<<>>, d)] = [d \in 0..0 |-> Body([e \in 0..0 |-> Body(<<>>, e)], d)]
    BY <1>1
  <2> QED BY <2>1
<1>3. ASSUME NEW n \in Nat, n \in Good PROVE n + 1 \in Good
  <2>1. PICK f : f = [d \in 0..n |-> Body(f, d)]
    BY <1>3
  <2> DEFINE g == [d \in 0..(n + 1) |-> Body(f, d)]
  <2>2. \A d \in 0..n : f[d] = Body(f, d)
    BY <2>1, Zenon
  <2>3. \A d \in 0..(n + 1) : d # 0 => f[d - 1] = g[d - 1]
    BY <2>2
  <2>4. \A d \in 0..(n + 1) : Body(f, d) = Body(g, d)
    <3> HIDE DEF g
    <3> QED BY <1>1, <2>3, Zenon
  <2>5. g = [d \in 0..(n + 1) |-> Body(g, d)]
    BY <2>4, Zenon
  <2> HIDE DEF g
  <2> QED BY <2>5
<1>4. Depth \in Good
  <2> HIDE DEF Good
  <2> QED BY <1>2, <1>3, EveryNumber
<1>5. Tool!Filled = [d \in 0..Depth |-> Body(Tool!Filled, d)]
  BY <1>4 DEF Tool!Filled, Body
<1> QED BY <1>5, Zenon DEF Body

\* What is refused, by level.
LEMMA ErrorsByLevel ==
    ASSUME Depth \in Nat
    PROVE  \A d \in 0..Depth : Tool!Errors[d] =
               IF d = 0 THEN <<>> ELSE [s \in Tool!Schemas[d] |-> [v \in Tool!Values[d] |-> Tool!Mismatches(s, v, Tool!Errors[d - 1])]]
<1> DEFINE Body(f, d) ==
               IF d = 0 THEN <<>> ELSE [s \in Tool!Schemas[d] |-> [v \in Tool!Values[d] |-> Tool!Mismatches(s, v, f[d - 1])]]
           Good == {n \in Nat : \E f : f = [d \in 0..n |-> Body(f, d)]}
<1>1. \A f, g, d : (d # 0 => f[d - 1] = g[d - 1]) => Body(f, d) = Body(g, d)
  OBVIOUS
<1> HIDE DEF Body
<1>2. 0 \in Good
  <2>1. [d \in 0..0 |-> Body(<<>>, d)] = [d \in 0..0 |-> Body([e \in 0..0 |-> Body(<<>>, e)], d)]
    BY <1>1
  <2> QED BY <2>1
<1>3. ASSUME NEW n \in Nat, n \in Good PROVE n + 1 \in Good
  <2>1. PICK f : f = [d \in 0..n |-> Body(f, d)]
    BY <1>3
  <2> DEFINE g == [d \in 0..(n + 1) |-> Body(f, d)]
  <2>2. \A d \in 0..n : f[d] = Body(f, d)
    BY <2>1, Zenon
  <2>3. \A d \in 0..(n + 1) : d # 0 => f[d - 1] = g[d - 1]
    BY <2>2
  <2>4. \A d \in 0..(n + 1) : Body(f, d) = Body(g, d)
    <3> HIDE DEF g
    <3> QED BY <1>1, <2>3, Zenon
  <2>5. g = [d \in 0..(n + 1) |-> Body(g, d)]
    BY <2>4, Zenon
  <2> HIDE DEF g
  <2> QED BY <2>5
<1>4. Depth \in Good
  <2> HIDE DEF Good
  <2> QED BY <1>2, <1>3, EveryNumber
<1>5. Tool!Errors = [d \in 0..Depth |-> Body(Tool!Errors, d)]
  BY <1>4 DEF Tool!Errors, Body
<1> QED BY <1>5, Zenon DEF Body

\* What is valid, by level.
LEMMA ValidByLevel ==
    ASSUME Depth \in Nat
    PROVE  \A d \in 0..Depth : Tool!Valid[d] =
               IF d = 0 THEN <<>> ELSE [s \in Tool!Schemas[d] |-> [v \in Tool!Values[d] |-> Tool!IsValid(s, v, Tool!Valid[d - 1])]]
<1> DEFINE Body(f, d) ==
               IF d = 0 THEN <<>> ELSE [s \in Tool!Schemas[d] |-> [v \in Tool!Values[d] |-> Tool!IsValid(s, v, f[d - 1])]]
           Good == {n \in Nat : \E f : f = [d \in 0..n |-> Body(f, d)]}
<1>1. \A f, g, d : (d # 0 => f[d - 1] = g[d - 1]) => Body(f, d) = Body(g, d)
  OBVIOUS
<1> HIDE DEF Body
<1>2. 0 \in Good
  <2>1. [d \in 0..0 |-> Body(<<>>, d)] = [d \in 0..0 |-> Body([e \in 0..0 |-> Body(<<>>, e)], d)]
    BY <1>1
  <2> QED BY <2>1
<1>3. ASSUME NEW n \in Nat, n \in Good PROVE n + 1 \in Good
  <2>1. PICK f : f = [d \in 0..n |-> Body(f, d)]
    BY <1>3
  <2> DEFINE g == [d \in 0..(n + 1) |-> Body(f, d)]
  <2>2. \A d \in 0..n : f[d] = Body(f, d)
    BY <2>1, Zenon
  <2>3. \A d \in 0..(n + 1) : d # 0 => f[d - 1] = g[d - 1]
    BY <2>2
  <2>4. \A d \in 0..(n + 1) : Body(f, d) = Body(g, d)
    <3> HIDE DEF g
    <3> QED BY <1>1, <2>3, Zenon
  <2>5. g = [d \in 0..(n + 1) |-> Body(g, d)]
    BY <2>4, Zenon
  <2> HIDE DEF g
  <2> QED BY <2>5
<1>4. Depth \in Good
  <2> HIDE DEF Good
  <2> QED BY <1>2, <1>3, EveryNumber
<1>5. Tool!Valid = [d \in 0..Depth |-> Body(Tool!Valid, d)]
  BY <1>4 DEF Tool!Valid, Body
<1> QED BY <1>5, Zenon DEF Body

\* What is kept, by level.
LEMMA KeepsByLevel ==
    ASSUME Depth \in Nat
    PROVE  \A d \in 0..Depth : Tool!Keeps[d] =
               IF d = 0 THEN <<>> ELSE [s \in Tool!Schemas[d] |-> [v \in Tool!Values[d] |-> [w \in Tool!Values[d] |-> Tool!IsKept(s, v, w, Tool!Keeps[d - 1])]]]
<1> DEFINE Body(f, d) ==
               IF d = 0 THEN <<>> ELSE [s \in Tool!Schemas[d] |-> [v \in Tool!Values[d] |-> [w \in Tool!Values[d] |-> Tool!IsKept(s, v, w, f[d - 1])]]]
           Good == {n \in Nat : \E f : f = [d \in 0..n |-> Body(f, d)]}
<1>1. \A f, g, d : (d # 0 => f[d - 1] = g[d - 1]) => Body(f, d) = Body(g, d)
  OBVIOUS
<1> HIDE DEF Body
<1>2. 0 \in Good
  <2>1. [d \in 0..0 |-> Body(<<>>, d)] = [d \in 0..0 |-> Body([e \in 0..0 |-> Body(<<>>, e)], d)]
    BY <1>1
  <2> QED BY <2>1
<1>3. ASSUME NEW n \in Nat, n \in Good PROVE n + 1 \in Good
  <2>1. PICK f : f = [d \in 0..n |-> Body(f, d)]
    BY <1>3
  <2> DEFINE g == [d \in 0..(n + 1) |-> Body(f, d)]
  <2>2. \A d \in 0..n : f[d] = Body(f, d)
    BY <2>1, Zenon
  <2>3. \A d \in 0..(n + 1) : d # 0 => f[d - 1] = g[d - 1]
    BY <2>2
  <2>4. \A d \in 0..(n + 1) : Body(f, d) = Body(g, d)
    <3> HIDE DEF g
    <3> QED BY <1>1, <2>3, Zenon
  <2>5. g = [d \in 0..(n + 1) |-> Body(g, d)]
    BY <2>4, Zenon
  <2> HIDE DEF g
  <2> QED BY <2>5
<1>4. Depth \in Good
  <2> HIDE DEF Good
  <2> QED BY <1>2, <1>3, EveryNumber
<1>5. Tool!Keeps = [d \in 0..Depth |-> Body(Tool!Keeps, d)]
  BY <1>4 DEF Tool!Keeps, Body
<1> QED BY <1>5, Zenon DEF Body

\* What is consistent, by level.
LEMMA ConsistentByLevel ==
    ASSUME Depth \in Nat
    PROVE  \A d \in 0..Depth : Tool!Consistent[d] =
               IF d = 0 THEN <<>> ELSE [s \in Tool!Schemas[d] |-> Tool!IsConsistent(s, Tool!Valid[d], Tool!Filled[d], Tool!Consistent[d - 1])]
<1> DEFINE Body(f, d) ==
               IF d = 0 THEN <<>> ELSE [s \in Tool!Schemas[d] |-> Tool!IsConsistent(s, Tool!Valid[d], Tool!Filled[d], f[d - 1])]
           Good == {n \in Nat : \E f : f = [d \in 0..n |-> Body(f, d)]}
<1>1. \A f, g, d : (d # 0 => f[d - 1] = g[d - 1]) => Body(f, d) = Body(g, d)
  OBVIOUS
<1> HIDE DEF Body
<1>2. 0 \in Good
  <2>1. [d \in 0..0 |-> Body(<<>>, d)] = [d \in 0..0 |-> Body([e \in 0..0 |-> Body(<<>>, e)], d)]
    BY <1>1
  <2> QED BY <2>1
<1>3. ASSUME NEW n \in Nat, n \in Good PROVE n + 1 \in Good
  <2>1. PICK f : f = [d \in 0..n |-> Body(f, d)]
    BY <1>3
  <2> DEFINE g == [d \in 0..(n + 1) |-> Body(f, d)]
  <2>2. \A d \in 0..n : f[d] = Body(f, d)
    BY <2>1, Zenon
  <2>3. \A d \in 0..(n + 1) : d # 0 => f[d - 1] = g[d - 1]
    BY <2>2
  <2>4. \A d \in 0..(n + 1) : Body(f, d) = Body(g, d)
    <3> HIDE DEF g
    <3> QED BY <1>1, <2>3, Zenon
  <2>5. g = [d \in 0..(n + 1) |-> Body(g, d)]
    BY <2>4, Zenon
  <2> HIDE DEF g
  <2> QED BY <2>5
<1>4. Depth \in Good
  <2> HIDE DEF Good
  <2> QED BY <1>2, <1>3, EveryNumber
<1>5. Tool!Consistent = [d \in 0..Depth |-> Body(Tool!Consistent, d)]
  BY <1>4 DEF Tool!Consistent, Body
<1> QED BY <1>5, Zenon DEF Body

(***************************************************************************)
(* One level.                                                              *)
(***************************************************************************)

\* Nothing is neither a value nor a schema.
LEMMA NothingIsNone ==
    ASSUME NEW d \in 0..Depth
    PROVE  Nothing \notin Tool!Values[d] /\ Nothing \notin Tool!Schemas[d]
BY ArgumentsAssumption DEF Tool!ArgumentsAssumption

\* A value is a scalar, an object or an array.
LEMMA Shapes ==
    ASSUME NEW W, NEW v \in Tool!ValuesOver(W)
    PROVE  /\ Tool!Fields(v) \in [Members -> Tool!Optional(W)] /\ Tool!Items(v) \in Seq(W)
           /\ Tool!Kind(v) = "object" => v = Tool!Obj(Tool!Fields(v))
           /\ Tool!Kind(v) # "object" => Tool!Fields(v) = Tool!Blank
           /\ Tool!Kind(v) = "array" => v = Tool!Arr(Tool!Items(v))
           /\ Tool!Kind(v) # "array" => Tool!Items(v) = <<>>
<1>1. CASE v \in Scalars
  <2>1. Tool!Kind(v) \notin {"object", "array"}
    BY <1>1, ArgumentsAssumption DEF Tool!ArgumentsAssumption
  <2> QED BY <2>1 DEF Tool!Fields, Tool!Items, Tool!Blank, Tool!Optional
<1>2. CASE v \in {"object"} \X [Members -> Tool!Optional(W)]
  <2>1. PICK f \in [Members -> Tool!Optional(W)] : v = <<"object", f>>
    BY <1>2
  <2>2. v[1] = "object" /\ v[2] = f
    BY <2>1
  <2> QED BY <2>1, <2>2 DEF Tool!Fields, Tool!Items, Tool!Kind, Tool!Obj
<1>3. CASE v \in {"array"} \X Seq(W)
  <2>1. PICK q \in Seq(W) : v = <<"array", q>>
    BY <1>3
  <2>2. v[1] = "array" /\ v[2] = q
    BY <2>1
  <2> QED BY <2>1, <2>2 DEF Tool!Fields, Tool!Items, Tool!Kind, Tool!Arr, Tool!Blank, Tool!Optional
<1> QED BY <1>1, <1>2, <1>3 DEF Tool!ValuesOver

\* An object of values one level down is a value, and so is an array of them.
LEMMA Built ==
    ASSUME NEW W
    PROVE  /\ \A f \in [Members -> Tool!Optional(W)] :
                /\ Tool!Obj(f) \in Tool!ValuesOver(W)
                /\ Tool!Kind(Tool!Obj(f)) = "object" /\ Tool!Fields(Tool!Obj(f)) = f
                /\ Tool!Items(Tool!Obj(f)) = <<>>
           /\ \A q \in Seq(W) :
                /\ Tool!Arr(q) \in Tool!ValuesOver(W)
                /\ Tool!Kind(Tool!Arr(q)) = "array" /\ Tool!Items(Tool!Arr(q)) = q
                /\ Tool!Fields(Tool!Arr(q)) = Tool!Blank
<1>1. ASSUME NEW f \in [Members -> Tool!Optional(W)]
      PROVE  /\ Tool!Obj(f) \in Tool!ValuesOver(W)
             /\ Tool!Kind(Tool!Obj(f)) = "object" /\ Tool!Fields(Tool!Obj(f)) = f
             /\ Tool!Items(Tool!Obj(f)) = <<>>
  BY DEF Tool!Obj, Tool!ValuesOver, Tool!Kind, Tool!Fields, Tool!Items
<1>2. ASSUME NEW q \in Seq(W)
      PROVE  /\ Tool!Arr(q) \in Tool!ValuesOver(W)
             /\ Tool!Kind(Tool!Arr(q)) = "array" /\ Tool!Items(Tool!Arr(q)) = q
             /\ Tool!Fields(Tool!Arr(q)) = Tool!Blank
  BY DEF Tool!Arr, Tool!ValuesOver, Tool!Kind, Tool!Fields, Tool!Items
<1> QED BY <1>1, <1>2

\* The terms of a schema.
LEMMA Terms ==
    ASSUME NEW T, NEW V, NEW s \in Tool!SchemasOver(T, V)
    PROVE  /\ s.types \subseteq Tool!Types /\ s.const \in Tool!Optional(V) /\ s.default \in Tool!Optional(V)
           /\ s.allowed \in Tool!Optional(SUBSET Scalars) /\ s.required \subseteq Members
           /\ s.props \in [Members -> Tool!Optional(T)] /\ s.items \in Tool!Optional(T)
           /\ \A n \in Tool!Named(s.props) : s.props[n] \in T
           /\ s.items # Nothing => s.items \in T
BY DEF Tool!SchemasOver, Tool!Optional, Tool!Named

\* A name of a part that a description does not declare const.
Open(s, n) == s.props[n] # Nothing /\ s.props[n].const = Nothing

\* o says what s says without what that declares const, below it at once.
Offers(s, o, below) ==
    /\ o.const = Nothing
    /\ s.const = Nothing =>
        /\ o.types = s.types /\ o.allowed = s.allowed
        /\ o.required = IF s.props = Tool!Blank THEN s.required ELSE {n \in s.required : Open(s, n)}
        /\ \A n \in Members : o.props[n] = IF Open(s, n) THEN below[s.props[n]] ELSE Nothing
        /\ o.items = IF s.items = Nothing THEN Nothing
                     ELSE IF s.items.const # Nothing THEN s.items ELSE below[s.items]

\* What a tool is offered with is a schema, with less of the same terms.
LEMMA OfferedLevel ==
    ASSUME NEW T, NEW V, NEW below, \A t \in T : below[t] \in T,
           NEW s \in Tool!SchemasOver(T, V), Nothing \notin T
    PROVE  /\ Tool!WithoutConst(s, below) \in Tool!SchemasOver(T, V)
           /\ Offers(s, Tool!WithoutConst(s, below), below)
<1> DEFINE o == Tool!WithoutConst(s, below)
<1>0. /\ s.types \subseteq Tool!Types /\ s.const \in Tool!Optional(V) /\ s.default \in Tool!Optional(V)
      /\ s.allowed \in Tool!Optional(SUBSET Scalars) /\ s.required \subseteq Members
      /\ s.props \in [Members -> Tool!Optional(T)] /\ s.items \in Tool!Optional(T)
      /\ \A n \in Tool!Named(s.props) : s.props[n] \in T
      /\ s.items # Nothing => s.items \in T
  BY Terms
<1>1. CASE Tool!Const(s)
  <2>1. o = Tool!OfTypes({"object"})
    BY <1>1 DEF Tool!WithoutConst
  <2>2. /\ {"object"} \in SUBSET Tool!Types /\ Nothing \in Tool!Optional(V) /\ {} \in SUBSET Members
        /\ Nothing \in Tool!Optional(SUBSET Scalars) /\ Nothing \in Tool!Optional(T)
        /\ Tool!Blank \in [Members -> Tool!Optional(T)]
    BY DEF Tool!Optional, Tool!Blank, Tool!Types
  <2>3. Tool!OfTypes({"object"}) \in Tool!SchemasOver(T, V) /\ Tool!OfTypes({"object"}).const = Nothing
    BY <2>2 DEF Tool!OfTypes, Tool!SchemasOver
  <2> QED BY <1>1, <2>1, <2>3 DEF Tool!Const, Offers
<1>2. CASE ~Tool!Const(s)
  <2> DEFINE kept == {n \in Tool!Named(s.props) : ~Tool!Const(s.props[n])}
             props == [n \in Members |-> IF n \in kept THEN below[s.props[n]] ELSE Nothing]
             required == IF s.props = Tool!Blank THEN s.required ELSE s.required \cap kept
             items == IF s.items = Nothing THEN s.items ELSE IF Tool!Const(s.items) THEN s.items ELSE below[s.items]
  <2>1. o = [s EXCEPT !.props = props, !.required = required, !.items = items]
    BY <1>2 DEF Tool!WithoutConst
  <2>2. props \in [Members -> Tool!Optional(T)]
    BY <1>0 DEF Tool!Optional
  <2>3. required \subseteq Members /\ items \in Tool!Optional(T)
    BY <1>0 DEF Tool!Optional
  <2>4. /\ \A n \in Members : props[n] = IF Open(s, n) THEN below[s.props[n]] ELSE Nothing
        /\ required = IF s.props = Tool!Blank THEN s.required ELSE {n \in s.required : Open(s, n)}
        /\ items = IF s.items = Nothing THEN Nothing
                   ELSE IF s.items.const # Nothing THEN s.items ELSE below[s.items]
    BY <1>0 DEF Tool!Named, Tool!Const, Open
  <2> HIDE DEF props, required, items
  <2>5. o \in Tool!SchemasOver(T, V)
    BY <2>1, <2>2, <2>3 DEF Tool!SchemasOver
  <2>6. /\ o.props = props /\ o.required = required /\ o.items = items
        /\ o.types = s.types /\ o.allowed = s.allowed /\ o.const = s.const
    BY <2>1 DEF Tool!SchemasOver
  <2>7. s.const = Nothing
    BY <1>2 DEF Tool!Const
  <2> HIDE DEF o
  <2>8. Offers(s, o, below)
    BY <2>4, <2>6, <2>7 DEF Offers
  <2> QED BY <2>5, <2>8 DEF o
<1> QED BY <1>1, <1>2

\* What is filled in is a value, and something where something was given.
LEMMA FilledLevel ==
    ASSUME NEW T, NEW W, NEW below, Nothing \notin Tool!ValuesOver(W), Nothing \notin W,
           \A t \in T : \A w \in Tool!Optional(W) :
               below[t][w] \in Tool!Optional(W) /\ (w # Nothing => below[t][w] # Nothing),
           NEW s \in Tool!SchemasOver(T, Tool!ValuesOver(W)), NEW v \in Tool!Optional(Tool!ValuesOver(W))
    PROVE  /\ Tool!Fill(s, v, below) \in Tool!Optional(Tool!ValuesOver(W))
           /\ v # Nothing => Tool!Fill(s, v, below) # Nothing
<1> DEFINE V == Tool!ValuesOver(W)
           x == IF v # Nothing THEN v ELSE s.default
<1>0. /\ s.const \in Tool!Optional(V) /\ s.default \in Tool!Optional(V)
      /\ s.props \in [Members -> Tool!Optional(T)] /\ s.items \in Tool!Optional(T)
  BY Terms
<1>1. CASE Tool!Const(s)
  BY <1>0, <1>1 DEF Tool!Fill, Tool!Const
<1>2. CASE ~Tool!Const(s) /\ x = Nothing
  BY <1>2 DEF Tool!Fill, Tool!Optional
<1>3. CASE ~Tool!Const(s) /\ x # Nothing
  <2>1. x \in V
    BY <1>0, <1>3 DEF Tool!Optional
  <2>2. Tool!Fields(x) \in [Members -> Tool!Optional(W)] /\ Tool!Items(x) \in Seq(W)
    BY <2>1, Shapes
  <2>3. CASE Tool!Kind(x) = "object"
    <3> DEFINE f == [n \in Members |-> IF s.props[n] = Nothing THEN Tool!Fields(x)[n]
                                     ELSE below[s.props[n]][Tool!Fields(x)[n]]]
    <3>1. Tool!Fill(s, v, below) = Tool!Obj(f)
      BY <1>3, <2>3 DEF Tool!Fill
    <3>2. f \in [Members -> Tool!Optional(W)]
      BY <1>0, <2>2 DEF Tool!Optional
    <3> HIDE DEF f
    <3>3. Tool!Obj(f) \in V
      BY <3>2, Built
    <3> QED BY <3>1, <3>3 DEF Tool!Optional
  <2>4. CASE Tool!Kind(x) = "array" /\ s.items # Nothing
    <3> DEFINE q == [i \in DOMAIN Tool!Items(x) |-> below[s.items][Tool!Items(x)[i]]]
    <3>1. Tool!Fill(s, v, below) = Tool!Arr(q)
      BY <1>3, <2>4 DEF Tool!Fill
    <3>2. q \in Seq(W)
      <4>1. \A i \in 1..Len(Tool!Items(x)) : below[s.items][Tool!Items(x)[i]] \in W
        BY <1>0, <2>2, <2>4 DEF Tool!Optional
      <4>2. q = [i \in 1..Len(Tool!Items(x)) |-> below[s.items][Tool!Items(x)[i]]]
        BY <2>2
      <4> QED BY <2>2, <4>1, <4>2
    <3> HIDE DEF q
    <3>3. Tool!Arr(q) \in V
      BY <3>2, Built
    <3> QED BY <3>1, <3>3 DEF Tool!Optional
  <2>5. CASE Tool!Kind(x) # "object" /\ ~(Tool!Kind(x) = "array" /\ s.items # Nothing)
    <3>1. Tool!Fill(s, v, below) = x
      BY <1>3, <2>5 DEF Tool!Fill
    <3> QED BY <1>3, <2>1, <3>1 DEF Tool!Optional
  <2> QED BY <2>3, <2>4, <2>5
<1> QED BY <1>1, <1>2, <1>3

\* A part has no mismatch for the whole exactly when it has none.
LEMMA NoneAt == ASSUME NEW n, NEW paths PROVE Tool!At(n, paths) = {} <=> paths = {}
BY DEF Tool!At

\* A check finds no mismatch exactly in what is valid.
LEMMA ErrorsLevel ==
    ASSUME NEW T, NEW W, NEW errors, NEW valid, Nothing \notin W,
           \A t \in T : \A w \in W : (errors[t][w] = {} => valid[t][w]) /\ (valid[t][w] => errors[t][w] = {}),
           NEW s \in Tool!SchemasOver(T, Tool!ValuesOver(W)), NEW v \in Tool!ValuesOver(W)
    PROVE  /\ Tool!Mismatches(s, v, errors) = {} => Tool!IsValid(s, v, valid)
           /\ Tool!IsValid(s, v, valid) => Tool!Mismatches(s, v, errors) = {}
<1>0. /\ s.props \in [Members -> Tool!Optional(T)] /\ s.items \in Tool!Optional(T)
      /\ \A n \in Tool!Named(s.props) : s.props[n] \in T
      /\ s.items # Nothing => s.items \in T
  BY Terms
<1>1. /\ Tool!Fields(v) \in [Members -> Tool!Optional(W)] /\ Tool!Items(v) \in Seq(W)
      /\ Tool!Kind(v) # "array" => Tool!Items(v) = <<>>
      /\ Tool!Kind(v) # "object" => Tool!Fields(v) = Tool!Blank
  <2>1. v \in Tool!ValuesOver(W)
    OBVIOUS
  <2> QED BY ONLY <2>1, ArgumentsAssumption, Shapes
<1> DEFINE wrong == s.types # {} /\ Tool!Kind(v) \notin s.types
           E1 == {<<>> : x \in {y \in {s.const} : y # Nothing /\ v # y}}
           E2 == {<<>> : x \in {y \in {s.allowed} : y # Nothing /\ v \notin y}}
           E3 == {<<n>> : n \in IF Tool!Kind(v) = "object" THEN s.required \ Tool!Named(Tool!Fields(v)) ELSE {}}
           N == Tool!Named(s.props) \cap Tool!Named(Tool!Fields(v))
           E4 == UNION {Tool!At(n, errors[s.props[n]][Tool!Fields(v)[n]]) : n \in N}
           I == IF s.items = Nothing THEN {} ELSE DOMAIN Tool!Items(v)
           E5 == UNION {Tool!At(i, errors[s.items][Tool!Items(v)[i]]) : i \in I}
<1>2. CASE wrong
  <2>1. Tool!Mismatches(s, v, errors) = {<<>>}
    BY <1>2 DEF Tool!Mismatches
  <2>2. ~Tool!IsOf(s, v)
    BY <1>2 DEF Tool!IsOf
  <2> QED BY <2>1, <2>2 DEF Tool!IsValid
<1>3. CASE ~wrong
  <2>1. Tool!Mismatches(s, v, errors) = E1 \cup E2 \cup E3 \cup E4 \cup E5
    BY <1>3 DEF Tool!Mismatches
  <2>2. E1 = {} <=> s.const = Nothing \/ s.const = v
    OBVIOUS
  <2>3. E2 = {} <=> s.allowed = Nothing \/ v \in s.allowed
    OBVIOUS
  <2>4. E3 = {} <=> (Tool!Kind(v) = "object" => s.required \subseteq Tool!Named(Tool!Fields(v)))
    OBVIOUS
  <2>5. E4 = {} <=> \A n \in N : valid[s.props[n]][Tool!Fields(v)[n]]
    <3>1. ASSUME NEW n \in N PROVE errors[s.props[n]][Tool!Fields(v)[n]] = {} <=> valid[s.props[n]][Tool!Fields(v)[n]]
      BY <1>0, <1>1 DEF Tool!Named, Tool!Optional
    <3>2. E4 = {} <=> \A n \in N : Tool!At(n, errors[s.props[n]][Tool!Fields(v)[n]]) = {}
      <4> HIDE DEF N
      <4> QED OBVIOUS
    <3>3. \A n \in N : Tool!At(n, errors[s.props[n]][Tool!Fields(v)[n]]) = {}
                       <=> errors[s.props[n]][Tool!Fields(v)[n]] = {}
      BY NoneAt
    <3> HIDE DEF N, E4
    <3> QED BY <3>1, <3>2, <3>3
  <2>6. E5 = {} <=> \A i \in I : valid[s.items][Tool!Items(v)[i]]
    <3>1. ASSUME NEW i \in I PROVE errors[s.items][Tool!Items(v)[i]] = {} <=> valid[s.items][Tool!Items(v)[i]]
      BY <1>0, <1>1
    <3>2. E5 = {} <=> \A i \in I : Tool!At(i, errors[s.items][Tool!Items(v)[i]]) = {}
      <4> HIDE DEF I
      <4> QED OBVIOUS
    <3>3. \A i \in I : Tool!At(i, errors[s.items][Tool!Items(v)[i]]) = {} <=> errors[s.items][Tool!Items(v)[i]] = {}
      BY NoneAt
    <3> HIDE DEF I, E5
    <3> QED BY <3>1, <3>2, <3>3
  <2>7. Tool!IsValid(s, v, valid) <=>
          /\ s.const = Nothing \/ s.const = v
          /\ s.allowed = Nothing \/ v \in s.allowed
          /\ Tool!Kind(v) = "object" => s.required \subseteq Tool!Named(Tool!Fields(v))
          /\ \A n \in N : valid[s.props[n]][Tool!Fields(v)[n]]
          /\ \A i \in I : valid[s.items][Tool!Items(v)[i]]
    BY <1>3 DEF Tool!IsValid, Tool!IsOf
  <2> HIDE DEF E1, E2, E3, E4, E5, N, I
  <2> QED BY <2>1, <2>2, <2>3, <2>4, <2>5, <2>6, <2>7
<1> QED BY <1>2, <1>3

\* What is filled in is what was given but for what the description declares.
LEMMA KeptLevel ==
    ASSUME NEW T, NEW W, NEW below, NEW keeps, Nothing \notin Tool!ValuesOver(W), Nothing \notin W,
           \A t \in T : \A w \in W : below[t][w] # Nothing /\ keeps[t][w][below[t][w]],
           NEW s \in Tool!SchemasOver(T, Tool!ValuesOver(W)), NEW v \in Tool!ValuesOver(W),
           \A t \in T : \A w \in Tool!Optional(W) : below[t][w] \in Tool!Optional(W)
    PROVE  Tool!IsKept(s, v, Tool!Fill(s, v, below), keeps)
<1>0. s.props \in [Members -> Tool!Optional(T)] /\ s.items \in Tool!Optional(T)
  BY Terms
<1>1. CASE Tool!Const(s)
  BY <1>1 DEF Tool!Fill, Tool!IsKept
<1>2. CASE ~Tool!Const(s)
  <2>0. v # Nothing
    OBVIOUS
  <2>1. Tool!Fields(v) \in [Members -> Tool!Optional(W)] /\ Tool!Items(v) \in Seq(W)
    BY Shapes
  <2>2. CASE Tool!Kind(v) = "object"
    <3> DEFINE f == [n \in Members |-> IF s.props[n] = Nothing THEN Tool!Fields(v)[n]
                                     ELSE below[s.props[n]][Tool!Fields(v)[n]]]
    <3>1. Tool!Fill(s, v, below) = Tool!Obj(f)
      BY <1>2, <2>0, <2>2 DEF Tool!Fill
    <3>2. f \in [Members -> Tool!Optional(W)]
      BY <1>0, <2>1 DEF Tool!Optional
    <3>3. \A n \in Members :
            IF s.props[n] = Nothing THEN f[n] = Tool!Fields(v)[n]
            ELSE Tool!Fields(v)[n] # Nothing => f[n] # Nothing /\ keeps[s.props[n]][Tool!Fields(v)[n]][f[n]]
      BY <1>0, <2>1 DEF Tool!Optional
    <3> HIDE DEF f
    <3>4. Tool!Kind(Tool!Obj(f)) = "object" /\ Tool!Fields(Tool!Obj(f)) = f
      BY <3>2, Built
    <3> QED BY <1>2, <2>2, <3>1, <3>3, <3>4 DEF Tool!IsKept
  <2>3. CASE Tool!Kind(v) = "array" /\ s.items # Nothing
    <3> DEFINE q == [i \in DOMAIN Tool!Items(v) |-> below[s.items][Tool!Items(v)[i]]]
    <3>1. Tool!Fill(s, v, below) = Tool!Arr(q)
      BY <1>2, <2>0, <2>3 DEF Tool!Fill
    <3>2. \A i \in DOMAIN Tool!Items(v) : q[i] \in W /\ keeps[s.items][Tool!Items(v)[i]][q[i]]
      BY <1>0, <2>1, <2>3 DEF Tool!Optional
    <3>3. DOMAIN q = DOMAIN Tool!Items(v)
      OBVIOUS
    <3>4. q \in Seq(W)
      <4>1. q = [i \in 1..Len(Tool!Items(v)) |-> below[s.items][Tool!Items(v)[i]]]
        BY <2>1
      <4>2. \A i \in 1..Len(Tool!Items(v)) : below[s.items][Tool!Items(v)[i]] \in W
        BY <2>1, <3>2
      <4> QED BY <2>1, <4>1, <4>2
    <3> HIDE DEF q
    <3>5. Tool!Kind(Tool!Arr(q)) = "array" /\ Tool!Items(Tool!Arr(q)) = q
      BY <3>4, Built
    <3> QED BY <1>2, <2>3, <3>1, <3>2, <3>3, <3>5 DEF Tool!IsKept
  <2>4. CASE Tool!Kind(v) # "object" /\ ~(Tool!Kind(v) = "array" /\ s.items # Nothing)
    <3>1. Tool!Fill(s, v, below) = v
      BY <1>2, <2>0, <2>4 DEF Tool!Fill
    <3> QED BY <1>2, <3>1 DEF Tool!IsKept
  <2> QED BY <2>2, <2>3, <2>4
<1> QED BY <1>1, <1>2

\* What a description declares of its own parts and of itself can be satisfied.
Holds(s, below, valid) ==
    /\ s.const # Nothing => Tool!IsValid(s, s.const, valid)
    /\ Tool!Fill(s, Nothing, below) # Nothing => Tool!IsValid(s, Tool!Fill(s, Nothing, below), valid)
    /\ s.props = Tool!Blank \/ s.required \subseteq Tool!Named(s.props)

\* What stands for w, given under what t is offered with, is nothing or valid.
Serves(t, w, off, below, valid) ==
    /\ t.const # Nothing \/ w = Nothing \/ valid[off[t]][w] => below[t][w] = Nothing \/ valid[t][below[t][w]]
    /\ t.const # Nothing \/ w # Nothing => below[t][w] # Nothing

\* An object that follows what is offered is valid once it is filled.
LEMMA FilledObject ==
    ASSUME NEW T, NEW W, NEW below, NEW off, NEW valid, NEW o, Nothing \notin W, Nothing \notin T,
           \A t \in T : off[t] \in T /\ \A w \in Tool!Optional(W) : below[t][w] \in Tool!Optional(W),
           NEW s \in Tool!SchemasOver(T, Tool!ValuesOver(W)), NEW v \in Tool!ValuesOver(W),
           \A n \in Tool!Named(s.props) : \A w \in Tool!Optional(W) : Serves(s.props[n], w, off, below, valid),
           Holds(s, below, valid), Offers(s, o, off), Tool!IsValid(o, v, valid), s.const = Nothing,
           Tool!Kind(v) = "object", NEW f,
           f = [n \in Members |-> IF s.props[n] = Nothing THEN Tool!Fields(v)[n]
                                ELSE below[s.props[n]][Tool!Fields(v)[n]]]
    PROVE  Tool!IsValid(s, Tool!Obj(f), valid)
<1> DEFINE F == Tool!Fields(v)
<1>0. /\ s.props \in [Members -> Tool!Optional(T)] /\ s.items \in Tool!Optional(T) /\ s.required \subseteq Members
      /\ s.allowed \in Tool!Optional(SUBSET Scalars)
      /\ \A n \in Tool!Named(s.props) : s.props[n] \in T
  BY Terms
<1>1. F \in [Members -> Tool!Optional(W)]
  BY Shapes
<1>2. f \in [Members -> Tool!Optional(W)]
  BY <1>0, <1>1 DEF Tool!Optional
<1>3. Tool!Kind(Tool!Obj(f)) = "object" /\ Tool!Fields(Tool!Obj(f)) = f /\ Tool!Items(Tool!Obj(f)) = <<>>
  BY <1>2, Built
<1>4. /\ o.types = s.types /\ o.allowed = s.allowed /\ o.const = Nothing
      /\ o.required = IF s.props = Tool!Blank THEN s.required ELSE {n \in s.required : Open(s, n)}
      /\ \A n \in Members : o.props[n] = IF Open(s, n) THEN off[s.props[n]] ELSE Nothing
  BY DEF Offers
<1>5. /\ o.types = {} \/ Tool!Kind(v) \in o.types
      /\ o.allowed = Nothing \/ v \in o.allowed
      /\ o.required \subseteq Tool!Named(F)
      /\ \A n \in Tool!Named(o.props) \cap Tool!Named(F) : valid[o.props[n]][F[n]]
  BY DEF Tool!IsValid, Tool!IsOf
<1>6. s.allowed = Nothing
  <2>1. v \notin Scalars
    BY ArgumentsAssumption DEF Tool!ArgumentsAssumption
  <2> QED BY <1>0, <1>4, <1>5, <2>1 DEF Tool!Optional
<1>7. \A n \in Members : s.props[n] # Nothing /\ (F[n] # Nothing \/ s.props[n].const # Nothing) => f[n] # Nothing
  BY <1>0, <1>1 DEF Serves, Tool!Named
<1>8. s.required \subseteq Tool!Named(f)
  <2> SUFFICES ASSUME NEW n \in s.required PROVE f[n] # Nothing
    BY <1>0 DEF Tool!Named
  <2>1. CASE s.props = Tool!Blank
    <3>1. F[n] # Nothing /\ s.props[n] = Nothing
      BY <1>0, <1>4, <1>5, <2>1 DEF Tool!Blank, Tool!Named
    <3> QED BY <1>0, <3>1
  <2>2. CASE s.props # Tool!Blank
    <3>1. s.props[n] # Nothing /\ n \in Members
      BY <1>0, <2>2 DEF Holds, Tool!Named
    <3>2. Open(s, n) => F[n] # Nothing
      BY <1>4, <1>5, <2>2 DEF Tool!Named
    <3> QED BY <1>7, <3>1, <3>2 DEF Open
  <2> QED BY <2>1, <2>2
<1>9. ASSUME NEW n \in Tool!Named(s.props) \cap Tool!Named(f) PROVE valid[s.props[n]][f[n]]
  <2>1. n \in Members /\ s.props[n] \in T /\ s.props[n] # Nothing /\ f[n] # Nothing /\ F[n] \in Tool!Optional(W)
    BY <1>0, <1>1 DEF Tool!Named
  <2>2. f[n] = below[s.props[n]][F[n]]
    BY <2>1
  <2>3. Open(s, n) /\ F[n] # Nothing => valid[off[s.props[n]]][F[n]]
    <3>1. off[s.props[n]] # Nothing
      BY <2>1
    <3> QED BY <1>4, <1>5, <2>1, <3>1 DEF Tool!Named
  <2>4. Serves(s.props[n], F[n], off, below, valid)
    BY <2>1
  <2> QED BY <2>1, <2>2, <2>3, <2>4 DEF Serves, Open
<1>10. Tool!IsOf(s, Tool!Obj(f))
  BY <1>3, <1>4, <1>5, <1>6, <1>8 DEF Tool!IsOf
<1>11. DOMAIN Tool!Items(Tool!Obj(f)) = {}
  BY <1>3
<1>12. \A n \in Tool!Named(s.props) \cap Tool!Named(Tool!Fields(Tool!Obj(f))) :
          valid[s.props[n]][Tool!Fields(Tool!Obj(f))[n]]
  BY <1>3, <1>9
<1> QED BY <1>10, <1>11, <1>12, Zenon DEF Tool!IsValid

\* An array that follows what is offered is valid once it is filled.
LEMMA FilledArray ==
    ASSUME NEW T, NEW W, NEW below, NEW off, NEW valid, NEW o, Nothing \notin W, Nothing \notin T,
           \A t \in T : off[t] \in T /\ \A w \in Tool!Optional(W) : below[t][w] \in Tool!Optional(W),
           NEW s \in Tool!SchemasOver(T, Tool!ValuesOver(W)), NEW v \in Tool!ValuesOver(W),
           \A w \in Tool!Optional(W) : Serves(s.items, w, off, below, valid),
           Offers(s, o, off), Tool!IsValid(o, v, valid), s.const = Nothing,
           Tool!Kind(v) = "array", s.items # Nothing, NEW q,
           q = [i \in DOMAIN Tool!Items(v) |-> below[s.items][Tool!Items(v)[i]]]
    PROVE  Tool!IsValid(s, Tool!Arr(q), valid)
<1> DEFINE Q == Tool!Items(v)
<1>0. /\ s.items \in T /\ s.allowed \in Tool!Optional(SUBSET Scalars)
  BY Terms
<1>1. Q \in Seq(W) /\ \A i \in DOMAIN Q : Q[i] \in W /\ Q[i] # Nothing
  BY Shapes
<1>2. /\ o.types = s.types /\ o.allowed = s.allowed /\ o.const = Nothing
      /\ o.items = IF s.items.const # Nothing THEN s.items ELSE off[s.items]
  BY DEF Offers
<1>3. /\ o.types = {} \/ Tool!Kind(v) \in o.types
      /\ o.allowed = Nothing \/ v \in o.allowed
      /\ o.items # Nothing => \A i \in DOMAIN Q : valid[o.items][Q[i]]
  BY DEF Tool!IsValid, Tool!IsOf
<1>4. s.allowed = Nothing
  <2>1. v \notin Scalars
    BY ArgumentsAssumption DEF Tool!ArgumentsAssumption
  <2> QED BY <1>0, <1>2, <1>3, <2>1 DEF Tool!Optional
<1>5. ASSUME NEW i \in DOMAIN Q PROVE valid[s.items][q[i]] /\ q[i] \in W
  <2>1. q[i] = below[s.items][Q[i]] /\ Q[i] \in Tool!Optional(W) /\ Q[i] # Nothing
    BY <1>1 DEF Tool!Optional
  <2>2. Serves(s.items, Q[i], off, below, valid) /\ q[i] \in Tool!Optional(W)
    BY <1>0, <2>1
  <2>3. s.items.const = Nothing => valid[off[s.items]][Q[i]]
    <3>1. off[s.items] # Nothing
      BY <1>0
    <3> QED BY <1>2, <1>3, <3>1
  <2> QED BY <2>1, <2>2, <2>3 DEF Serves, Tool!Optional
<1>6. q \in Seq(W) /\ DOMAIN q = DOMAIN Q
  <2>1. q = [i \in 1..Len(Q) |-> below[s.items][Q[i]]]
    BY <1>1
  <2>2. \A i \in 1..Len(Q) : below[s.items][Q[i]] \in W
    BY <1>1, <1>5
  <2> QED BY <1>1, <2>1, <2>2
<1>7. Tool!Kind(Tool!Arr(q)) = "array" /\ Tool!Items(Tool!Arr(q)) = q /\ Tool!Fields(Tool!Arr(q)) = Tool!Blank
  BY <1>6, Built
<1>8. Tool!IsOf(s, Tool!Arr(q))
  BY <1>2, <1>3, <1>4, <1>7 DEF Tool!IsOf
<1> QED BY <1>5, <1>6, <1>7, <1>8 DEF Tool!IsValid, Tool!Named, Tool!Blank

\* What follows the parameters of one level is valid at that level once it is filled.
LEMMA ServesLevel ==
    ASSUME NEW T, NEW W, NEW below, NEW off, NEW valid, Nothing \notin W, Nothing \notin T,
           Nothing \notin Tool!ValuesOver(W),
           \A t \in T : off[t] \in T /\ \A w \in Tool!Optional(W) : below[t][w] \in Tool!Optional(W),
           NEW s \in Tool!SchemasOver(T, Tool!ValuesOver(W)), NEW v \in Tool!Optional(Tool!ValuesOver(W)),
           \A n \in Tool!Named(s.props) : \A w \in Tool!Optional(W) : Serves(s.props[n], w, off, below, valid),
           s.items # Nothing => \A w \in Tool!Optional(W) : Serves(s.items, w, off, below, valid),
           Holds(s, below, valid),
           s.const # Nothing \/ v = Nothing \/ Tool!IsValid(Tool!WithoutConst(s, off), v, valid)
    PROVE  Tool!Fill(s, v, below) = Nothing \/ Tool!IsValid(s, Tool!Fill(s, v, below), valid)
<1>1. CASE s.const # Nothing
  <2>1. Tool!Fill(s, v, below) = s.const
    BY <1>1 DEF Tool!Fill, Tool!Const
  <2> QED BY <1>1, <2>1 DEF Holds
<1>2. CASE v = Nothing
  BY <1>2 DEF Holds
<1>3. CASE s.const = Nothing /\ v # Nothing
  <2> DEFINE o == Tool!WithoutConst(s, off)
  <2>1. Offers(s, o, off) /\ Tool!IsValid(o, v, valid) /\ v \in Tool!ValuesOver(W)
    BY <1>3, OfferedLevel DEF Tool!Optional
  <2> HIDE DEF o
  <2>2. CASE Tool!Kind(v) = "object"
    <3> DEFINE f == [n \in Members |-> IF s.props[n] = Nothing THEN Tool!Fields(v)[n]
                                     ELSE below[s.props[n]][Tool!Fields(v)[n]]]
    <3>1. Tool!Fill(s, v, below) = Tool!Obj(f)
      BY <1>3, <2>2 DEF Tool!Fill, Tool!Const
    <3>2. f = [n \in Members |-> IF s.props[n] = Nothing THEN Tool!Fields(v)[n]
                               ELSE below[s.props[n]][Tool!Fields(v)[n]]]
      OBVIOUS
    <3> HIDE DEF f
    <3>3. Tool!IsValid(s, Tool!Obj(f), valid)
      BY <1>3, <2>1, <2>2, <3>2, FilledObject
    <3> QED BY <3>1, <3>3
  <2>3. CASE Tool!Kind(v) = "array" /\ s.items # Nothing
    <3> DEFINE q == [i \in DOMAIN Tool!Items(v) |-> below[s.items][Tool!Items(v)[i]]]
    <3>1. Tool!Fill(s, v, below) = Tool!Arr(q)
      BY <1>3, <2>3 DEF Tool!Fill, Tool!Const
    <3>2. q = [i \in DOMAIN Tool!Items(v) |-> below[s.items][Tool!Items(v)[i]]]
      OBVIOUS
    <3> HIDE DEF q
    <3>3. Tool!IsValid(s, Tool!Arr(q), valid)
      BY <1>3, <2>1, <2>3, <3>2, FilledArray
    <3> QED BY <3>1, <3>3
  <2>4. CASE Tool!Kind(v) # "object" /\ ~(Tool!Kind(v) = "array" /\ s.items # Nothing)
    <3>1. Tool!Fill(s, v, below) = v
      BY <1>3, <2>4 DEF Tool!Fill, Tool!Const
    <3>2. Tool!IsOf(s, v)
      BY <1>3, <2>1, <2>4 DEF Tool!IsOf, Tool!IsValid, Offers
    <3>3. Tool!Fields(v) = Tool!Blank /\ (s.items # Nothing => Tool!Items(v) = <<>>)
      BY <2>1, <2>4, Shapes
    <3>4. Tool!Named(Tool!Fields(v)) = {} /\ (s.items # Nothing => DOMAIN Tool!Items(v) = {})
      BY <3>3 DEF Tool!Named, Tool!Blank
    <3>5. Tool!IsValid(s, v, valid)
      BY <3>2, <3>4, Zenon DEF Tool!IsValid
    <3> QED BY <3>1, <3>5
  <2> QED BY <2>2, <2>3, <2>4
<1> QED BY <1>1, <1>2, <1>3

(***************************************************************************)
(* Every level.                                                            *)
(***************************************************************************)

\* There is no schema of no level; each level is made from the one below it.
LEMMA NoLevel == ASSUME Depth \in Nat PROVE Tool!Schemas[0] = {} /\ Tool!Values[0] = {}
<1>1. 0 \in 0..Depth
  OBVIOUS
<1> QED BY <1>1, ValuesByLevel, SchemasByLevel

\* What each function is one level up, for the schemas and values of the level below.
LEMMA NextLevel ==
    ASSUME NEW d \in Nat, d + 1 \in 0..Depth, Depth \in Nat
    PROVE  /\ Tool!Values[d + 1] = Tool!ValuesOver(Tool!Values[d])
           /\ Tool!Schemas[d + 1] = Tool!SchemasOver(Tool!Schemas[d], Tool!ValuesOver(Tool!Values[d]))
           /\ \A s \in Tool!Schemas[d + 1] :
                /\ Tool!Offered[d + 1][s] = Tool!WithoutConst(s, Tool!Offered[d])
                /\ \A v \in Tool!Optional(Tool!Values[d + 1]) :
                     Tool!Filled[d + 1][s][v] = Tool!Fill(s, v, Tool!Filled[d])
                /\ \A v \in Tool!Values[d + 1] :
                     /\ Tool!Errors[d + 1][s][v] = Tool!Mismatches(s, v, Tool!Errors[d])
                     /\ Tool!Valid[d + 1][s][v] = Tool!IsValid(s, v, Tool!Valid[d])
                     /\ \A w \in Tool!Values[d + 1] :
                          Tool!Keeps[d + 1][s][v][w] = Tool!IsKept(s, v, w, Tool!Keeps[d])
                /\ Tool!Consistent[d + 1][s] =
                     Tool!IsConsistent(s, Tool!Valid[d + 1], Tool!Filled[d + 1], Tool!Consistent[d])
<1>0. d + 1 # 0 /\ (d + 1) - 1 = d
  OBVIOUS
<1>1. Tool!Values[d + 1] = Tool!ValuesOver(Tool!Values[d])
  BY <1>0, ValuesByLevel
<1>2. Tool!Schemas[d + 1] = Tool!SchemasOver(Tool!Schemas[d], Tool!ValuesOver(Tool!Values[d]))
  BY <1>0, <1>1, SchemasByLevel
<1>3. Tool!Offered[d + 1] = [s \in Tool!Schemas[d + 1] |-> Tool!WithoutConst(s, Tool!Offered[d])]
  BY <1>0, OfferedByLevel
<1>4. Tool!Filled[d + 1] = [s \in Tool!Schemas[d + 1] |-> [v \in Tool!Optional(Tool!Values[d + 1]) |->
                               Tool!Fill(s, v, Tool!Filled[d])]]
  BY <1>0, FilledByLevel
<1>5. Tool!Errors[d + 1] = [s \in Tool!Schemas[d + 1] |-> [v \in Tool!Values[d + 1] |->
                               Tool!Mismatches(s, v, Tool!Errors[d])]]
  BY <1>0, ErrorsByLevel
<1>6. Tool!Valid[d + 1] = [s \in Tool!Schemas[d + 1] |-> [v \in Tool!Values[d + 1] |->
                              Tool!IsValid(s, v, Tool!Valid[d])]]
  BY <1>0, ValidByLevel
<1>7. Tool!Keeps[d + 1] = [s \in Tool!Schemas[d + 1] |-> [v \in Tool!Values[d + 1] |-> [w \in Tool!Values[d + 1] |->
                              Tool!IsKept(s, v, w, Tool!Keeps[d])]]]
  BY <1>0, KeepsByLevel
<1>8. Tool!Consistent[d + 1] = [s \in Tool!Schemas[d + 1] |->
          Tool!IsConsistent(s, Tool!Valid[d + 1], Tool!Filled[d + 1], Tool!Consistent[d])]
  BY <1>0, ConsistentByLevel
<1>9. ASSUME NEW s \in Tool!Schemas[d + 1]
      PROVE  /\ Tool!Offered[d + 1][s] = Tool!WithoutConst(s, Tool!Offered[d])
             /\ \A v \in Tool!Optional(Tool!Values[d + 1]) :
                  Tool!Filled[d + 1][s][v] = Tool!Fill(s, v, Tool!Filled[d])
             /\ Tool!Consistent[d + 1][s] =
                  Tool!IsConsistent(s, Tool!Valid[d + 1], Tool!Filled[d + 1], Tool!Consistent[d])
  <2>1. Tool!Offered[d + 1][s] = Tool!WithoutConst(s, Tool!Offered[d])
    BY <1>3
  <2>2. \A v \in Tool!Optional(Tool!Values[d + 1]) : Tool!Filled[d + 1][s][v] = Tool!Fill(s, v, Tool!Filled[d])
    BY <1>4
  <2>3. Tool!Consistent[d + 1][s] =
          Tool!IsConsistent(s, Tool!Valid[d + 1], Tool!Filled[d + 1], Tool!Consistent[d])
    BY <1>8
  <2> QED BY <2>1, <2>2, <2>3
<1>10. ASSUME NEW s \in Tool!Schemas[d + 1], NEW v \in Tool!Values[d + 1]
       PROVE  /\ Tool!Errors[d + 1][s][v] = Tool!Mismatches(s, v, Tool!Errors[d])
              /\ Tool!Valid[d + 1][s][v] = Tool!IsValid(s, v, Tool!Valid[d])
              /\ \A w \in Tool!Values[d + 1] :
                   Tool!Keeps[d + 1][s][v][w] = Tool!IsKept(s, v, w, Tool!Keeps[d])
  <2>1. Tool!Errors[d + 1][s][v] = Tool!Mismatches(s, v, Tool!Errors[d])
    BY <1>5
  <2>2. Tool!Valid[d + 1][s][v] = Tool!IsValid(s, v, Tool!Valid[d])
    BY <1>6
  <2>3. \A w \in Tool!Values[d + 1] : Tool!Keeps[d + 1][s][v][w] = Tool!IsKept(s, v, w, Tool!Keeps[d])
    BY <1>7
  <2> QED BY <2>1, <2>2, <2>3
<1> QED BY <1>1, <1>2, <1>9, <1>10, Zenon

\* What is offered is a schema, what is filled in a value.
LEMMA OfferedAndFilled ==
    ASSUME NEW d \in 0..Depth
    PROVE  \A s \in Tool!Schemas[d] :
             /\ Tool!Offered[d][s] \in Tool!Schemas[d]
             /\ \A v \in Tool!Optional(Tool!Values[d]) :
                  /\ Tool!Filled[d][s][v] \in Tool!Optional(Tool!Values[d])
                  /\ v # Nothing => Tool!Filled[d][s][v] # Nothing
<1> DEFINE P(e) == \A s \in Tool!Schemas[e] :
                     /\ Tool!Offered[e][s] \in Tool!Schemas[e]
                     /\ \A v \in Tool!Optional(Tool!Values[e]) :
                          /\ Tool!Filled[e][s][v] \in Tool!Optional(Tool!Values[e])
                          /\ v # Nothing => Tool!Filled[e][s][v] # Nothing
           Good == {e \in Nat : e <= Depth => P(e)}
<1>0. Depth \in Nat
  BY ArgumentsAssumption DEF Tool!ArgumentsAssumption
<1>1. 0 \in Good
  BY <1>0, NoLevel
<1>2. ASSUME NEW e \in Nat, e \in Good PROVE e + 1 \in Good
  <2> HIDE DEF P
  <2> SUFFICES ASSUME e + 1 <= Depth PROVE P(e + 1)
    OBVIOUS
  <2>1. e \in 0..Depth /\ e + 1 \in 0..Depth /\ P(e)
    BY <1>0, <1>2
  <2>2. /\ Nothing \notin Tool!Values[e] /\ Nothing \notin Tool!Schemas[e]
        /\ Nothing \notin Tool!ValuesOver(Tool!Values[e])
        /\ Tool!Values[e + 1] = Tool!ValuesOver(Tool!Values[e])
        /\ Tool!Schemas[e + 1] = Tool!SchemasOver(Tool!Schemas[e], Tool!ValuesOver(Tool!Values[e]))
    BY <1>0, <2>1, NothingIsNone, NextLevel
  <2>3. /\ \A t \in Tool!Schemas[e] : Tool!Offered[e][t] \in Tool!Schemas[e]
        /\ \A t \in Tool!Schemas[e] : \A w \in Tool!Optional(Tool!Values[e]) :
             /\ Tool!Filled[e][t][w] \in Tool!Optional(Tool!Values[e])
             /\ w # Nothing => Tool!Filled[e][t][w] # Nothing
    BY <2>1 DEF P
  <2>4. ASSUME NEW s \in Tool!Schemas[e + 1] PROVE Tool!Offered[e + 1][s] \in Tool!Schemas[e + 1]
    <3>1. Tool!WithoutConst(s, Tool!Offered[e]) \in Tool!SchemasOver(Tool!Schemas[e], Tool!ValuesOver(Tool!Values[e]))
      BY <2>2, <2>3, OfferedLevel
    <3> QED BY <1>0, <2>1, <2>2, <3>1, NextLevel
  <2>5. ASSUME NEW s \in Tool!Schemas[e + 1], NEW v \in Tool!Optional(Tool!Values[e + 1])
        PROVE  /\ Tool!Filled[e + 1][s][v] \in Tool!Optional(Tool!Values[e + 1])
               /\ v # Nothing => Tool!Filled[e + 1][s][v] # Nothing
    <3>1. /\ Tool!Fill(s, v, Tool!Filled[e]) \in Tool!Optional(Tool!ValuesOver(Tool!Values[e]))
          /\ v # Nothing => Tool!Fill(s, v, Tool!Filled[e]) # Nothing
      BY <2>2, <2>3, FilledLevel
    <3> QED BY <1>0, <2>1, <2>2, <3>1, NextLevel
  <2> QED BY <2>4, <2>5 DEF P
<1>3. Nat \subseteq Good
  <2> HIDE DEF Good
  <2> QED BY <1>1, <1>2, EveryNumber
<1> QED BY <1>0, <1>3

\* At every level a check finds no mismatch exactly in what is valid, and what is
\* filled in is what was given but for what the description declares.
LEMMA ErrorsAndKeeps ==
    ASSUME NEW d \in 0..Depth
    PROVE  \A s \in Tool!Schemas[d] : \A v \in Tool!Values[d] :
             /\ Tool!Errors[d][s][v] = {} <=> Tool!Valid[d][s][v]
             /\ Tool!Keeps[d][s][v][Tool!Filled[d][s][v]]
<1> DEFINE P(e) == \A s \in Tool!Schemas[e] : \A v \in Tool!Values[e] :
                     /\ Tool!Errors[e][s][v] = {} <=> Tool!Valid[e][s][v]
                     /\ Tool!Keeps[e][s][v][Tool!Filled[e][s][v]]
           Good == {e \in Nat : e <= Depth => P(e)}
<1>0. Depth \in Nat
  BY ArgumentsAssumption DEF Tool!ArgumentsAssumption
<1>1. 0 \in Good
  BY <1>0, NoLevel
<1>2. ASSUME NEW e \in Nat, e \in Good PROVE e + 1 \in Good
  <2> HIDE DEF P
  <2> SUFFICES ASSUME e + 1 <= Depth PROVE P(e + 1)
    OBVIOUS
  <2>1. e \in 0..Depth /\ e + 1 \in 0..Depth /\ P(e)
    BY <1>0, <1>2
  <2> DEFINE W == Tool!Values[e]
             T == Tool!Schemas[e]
             filled == Tool!Filled[e]
             errors == Tool!Errors[e]
             valid == Tool!Valid[e]
             keeps == Tool!Keeps[e]
  <2>2. /\ Nothing \notin W /\ Nothing \notin Tool!ValuesOver(W)
        /\ Tool!Values[e + 1] = Tool!ValuesOver(W)
        /\ Tool!Schemas[e + 1] = Tool!SchemasOver(T, Tool!ValuesOver(W))
    BY <1>0, <2>1, NothingIsNone, NextLevel
  <2>3. /\ \A t \in T : \A w \in Tool!Optional(W) : filled[t][w] \in Tool!Optional(W)
        /\ \A t \in T : \A w \in W : filled[t][w] # Nothing /\ keeps[t][w][filled[t][w]]
    BY <2>1, <2>2, OfferedAndFilled DEF Tool!Optional, P
  <2>4. \A t \in T : \A w \in W : (errors[t][w] = {} => valid[t][w]) /\ (valid[t][w] => errors[t][w] = {})
    BY <2>1 DEF P
  <2> HIDE DEF W, T, P, filled, errors, valid, keeps
  <2>5. ASSUME NEW s \in Tool!Schemas[e + 1], NEW v \in Tool!Values[e + 1]
        PROVE  /\ Tool!Errors[e + 1][s][v] = {} <=> Tool!Valid[e + 1][s][v]
               /\ Tool!Keeps[e + 1][s][v][Tool!Filled[e + 1][s][v]]
    <3>0. s \in Tool!SchemasOver(T, Tool!ValuesOver(W)) /\ v \in Tool!ValuesOver(W)
      BY <2>2
    <3>1. /\ Tool!Mismatches(s, v, errors) = {} => Tool!IsValid(s, v, valid)
          /\ Tool!IsValid(s, v, valid) => Tool!Mismatches(s, v, errors) = {}
      <4>1. Nothing \notin W
        BY <2>2
      <4> QED BY ONLY <4>1, <2>4, <3>0, ErrorsLevel
    <3>2. Tool!IsKept(s, v, Tool!Fill(s, v, filled), keeps)
      BY <2>2, <2>3, <3>0, KeptLevel
    <3>3. v \in Tool!Optional(Tool!Values[e + 1]) /\ v # Nothing
      BY <2>2 DEF Tool!Optional
    <3>4. Tool!Filled[e + 1][s][v] = Tool!Fill(s, v, filled)
      BY <1>0, <2>1, <3>3, NextLevel DEF filled
    <3>5. Tool!Filled[e + 1][s][v] \in Tool!Values[e + 1]
      BY <2>1, <3>3, OfferedAndFilled DEF Tool!Optional
    <3>6. /\ Tool!Errors[e + 1][s][v] = Tool!Mismatches(s, v, errors)
          /\ Tool!Valid[e + 1][s][v] = Tool!IsValid(s, v, valid)
          /\ Tool!Keeps[e + 1][s][v][Tool!Filled[e + 1][s][v]]
               = Tool!IsKept(s, v, Tool!Filled[e + 1][s][v], keeps)
      BY <1>0, <2>1, <3>5, NextLevel DEF errors, valid, keeps
    <3> QED BY <3>1, <3>2, <3>4, <3>6
  <2> QED BY <2>5 DEF P
<1>3. Nat \subseteq Good
  <2> HIDE DEF Good
  <2> QED BY <1>1, <1>2, EveryNumber
<1> QED BY <1>0, <1>3

\* At every level what follows the parameters is valid once it is filled.
LEMMA FilledServes ==
    ASSUME NEW d \in 0..Depth
    PROVE  \A s \in Tool!Schemas[d] : \A v \in Tool!Optional(Tool!Values[d]) :
             Tool!Consistent[d][s] => Serves(s, v, Tool!Offered[d], Tool!Filled[d], Tool!Valid[d])
<1> DEFINE P(e) == \A s \in Tool!Schemas[e] : \A v \in Tool!Optional(Tool!Values[e]) :
                     Tool!Consistent[e][s] => Serves(s, v, Tool!Offered[e], Tool!Filled[e], Tool!Valid[e])
           Good == {e \in Nat : e <= Depth => P(e)}
<1>0. Depth \in Nat
  BY ArgumentsAssumption DEF Tool!ArgumentsAssumption
<1>1. 0 \in Good
  BY <1>0, NoLevel
<1>2. ASSUME NEW e \in Nat, e \in Good PROVE e + 1 \in Good
  <2> HIDE DEF P
  <2> SUFFICES ASSUME e + 1 <= Depth PROVE P(e + 1)
    OBVIOUS
  <2>1. e \in 0..Depth /\ e + 1 \in 0..Depth /\ P(e)
    BY <1>0, <1>2
  <2> DEFINE W == Tool!Values[e]
             T == Tool!Schemas[e]
             filled == Tool!Filled[e]
             offered == Tool!Offered[e]
             valid == Tool!Valid[e]
  <2>2. /\ Nothing \notin W /\ Nothing \notin T /\ Nothing \notin Tool!ValuesOver(W)
        /\ Tool!Values[e + 1] = Tool!ValuesOver(W)
        /\ Tool!Schemas[e + 1] = Tool!SchemasOver(T, Tool!ValuesOver(W))
    BY <1>0, <2>1, NothingIsNone, NextLevel
  <2>3. \A t \in T : offered[t] \in T /\ \A w \in Tool!Optional(W) : filled[t][w] \in Tool!Optional(W)
    BY <2>1, OfferedAndFilled
  <2>4. \A t \in T : \A w \in Tool!Optional(W) : Tool!Consistent[e][t] => Serves(t, w, offered, filled, valid)
    BY <2>1 DEF P
  <2> HIDE DEF W, T, P, filled, offered, valid
  <2>5. ASSUME NEW s \in Tool!Schemas[e + 1], NEW v \in Tool!Optional(Tool!Values[e + 1]), Tool!Consistent[e + 1][s]
        PROVE  Serves(s, v, Tool!Offered[e + 1], Tool!Filled[e + 1], Tool!Valid[e + 1])
    <3>1. \A u \in Tool!Optional(Tool!Values[e + 1]) : Tool!Filled[e + 1][s][u] = Tool!Fill(s, u, filled)
      BY <1>0, <2>1, NextLevel DEF filled
    <3>2. \A t \in Tool!Schemas[e + 1], u \in Tool!Values[e + 1] : Tool!Valid[e + 1][t][u] = Tool!IsValid(t, u, valid)
      BY <1>0, <2>1, NextLevel DEF valid
    <3>3. Tool!IsConsistent(s, Tool!Valid[e + 1], Tool!Filled[e + 1], Tool!Consistent[e])
      BY <1>0, <2>1, <2>5, NextLevel
    <3>4. Nothing \in Tool!Optional(Tool!Values[e + 1])
      BY DEF Tool!Optional
    <3>5. Tool!Filled[e + 1][s][Nothing] \in Tool!Optional(Tool!Values[e + 1])
      BY <2>1, <3>4, OfferedAndFilled
    <3>6. /\ s.const \in Tool!Optional(Tool!ValuesOver(W))
          /\ \A n \in Tool!Named(s.props) : s.props[n] \in T
          /\ s.items # Nothing => s.items \in T
      BY <2>2, Terms
    <3>7. Holds(s, filled, valid)
      <4>1. s.const # Nothing => Tool!IsValid(s, s.const, valid)
        BY <2>2, <3>2, <3>3, <3>6 DEF Tool!IsConsistent, Tool!Const, Tool!Optional
      <4>2. Tool!Fill(s, Nothing, filled) # Nothing => Tool!IsValid(s, Tool!Fill(s, Nothing, filled), valid)
        BY <3>1, <3>2, <3>3, <3>4, <3>5 DEF Tool!IsConsistent, Tool!Optional
      <4>3. s.props = Tool!Blank \/ s.required \subseteq Tool!Named(s.props)
        BY <3>3 DEF Tool!IsConsistent
      <4> QED BY <4>1, <4>2, <4>3 DEF Holds
    <3>8. /\ \A n \in Tool!Named(s.props) : \A w \in Tool!Optional(W) : Serves(s.props[n], w, offered, filled, valid)
          /\ s.items # Nothing => \A w \in Tool!Optional(W) : Serves(s.items, w, offered, filled, valid)
      BY <2>4, <3>3, <3>6 DEF Tool!IsConsistent
    <3>9. Tool!Offered[e + 1][s] = Tool!WithoutConst(s, offered) /\ Tool!Offered[e + 1][s] \in Tool!Schemas[e + 1]
      BY <1>0, <2>1, NextLevel, OfferedAndFilled DEF offered
    <3>10. ASSUME s.const # Nothing \/ v = Nothing \/ Tool!Valid[e + 1][Tool!Offered[e + 1][s]][v]
           PROVE  Tool!Filled[e + 1][s][v] = Nothing \/ Tool!Valid[e + 1][s][Tool!Filled[e + 1][s][v]]
      <4>1. s.const # Nothing \/ v = Nothing \/ Tool!IsValid(Tool!WithoutConst(s, offered), v, valid)
        BY <3>2, <3>9, <3>10 DEF Tool!Optional
      <4>2. Tool!Fill(s, v, filled) = Nothing \/ Tool!IsValid(s, Tool!Fill(s, v, filled), valid)
        BY <2>2, <2>3, <3>7, <3>8, <4>1, ServesLevel
      <4>3. Tool!Filled[e + 1][s][v] \in Tool!Optional(Tool!Values[e + 1])
        BY <2>1, OfferedAndFilled
      <4> QED BY <3>1, <3>2, <4>2, <4>3 DEF Tool!Optional
    <3>11. s.const # Nothing \/ v # Nothing => Tool!Filled[e + 1][s][v] # Nothing
      <4>1. s.const # Nothing => Tool!Fill(s, v, filled) = s.const
        BY DEF Tool!Fill, Tool!Const
      <4>2. v # Nothing => Tool!Filled[e + 1][s][v] # Nothing
        BY <2>1, OfferedAndFilled
      <4> QED BY <3>1, <4>1, <4>2
    <3> QED BY <3>10, <3>11 DEF Serves
  <2> QED BY <2>5 DEF P
<1>3. Nat \subseteq Good
  <2> HIDE DEF Good
  <2> QED BY <1>1, <1>2, EveryNumber
<1> QED BY <1>0, <1>3

(***************************************************************************)
(* A call.                                                                 *)
(***************************************************************************)

\* A value of some levels is one of more.
LEMMA ValuesGrow ==
    ASSUME Depth \in Nat
    PROVE  \A d \in Nat : d + 1 \in 0..Depth => Tool!Values[d] \subseteq Tool!Values[d + 1]
<1> DEFINE Good == {e \in Nat : e + 1 \in 0..Depth => Tool!Values[e] \subseteq Tool!Values[e + 1]}
<1>1. 0 \in Good
  BY NoLevel
<1>2. ASSUME NEW e \in Nat, e \in Good PROVE e + 1 \in Good
  <2> SUFFICES ASSUME (e + 1) + 1 \in 0..Depth PROVE Tool!Values[e + 1] \subseteq Tool!Values[(e + 1) + 1]
    OBVIOUS
  <2> DEFINE V == Tool!Values[e]
             W == Tool!Values[e + 1]
  <2>1. e + 1 \in 0..Depth /\ e + 1 \in Nat
    OBVIOUS
  <2>2. W = Tool!ValuesOver(V) /\ Tool!Values[(e + 1) + 1] = Tool!ValuesOver(W)
    BY <2>1, NextLevel
  <2>3. V \subseteq W
    BY <1>2, <2>1
  <2> HIDE DEF V, W
  <2>4. [Members -> Tool!Optional(V)] \subseteq [Members -> Tool!Optional(W)] /\ Seq(V) \subseteq Seq(W)
    BY <2>3 DEF Tool!Optional
  <2>5. Tool!ValuesOver(V) \subseteq Tool!ValuesOver(W)
    BY <2>4 DEF Tool!ValuesOver
  <2> QED BY <2>2, <2>5 DEF W
<1>3. Nat \subseteq Good
  <2> HIDE DEF Good
  <2> QED BY <1>1, <1>2, EveryNumber
<1> QED BY <1>3

\* What a caller gives, with its wrapper if it needs one, is a value.
LEMMA GivenIsValue ==
    ASSUME NEW a \in Actions, NEW v \in Arguments
    PROVE  Tool!Given(a, v) \in Tool!Values[Depth]
<1>1. /\ Depth \in Nat /\ Depth > 1 /\ "value" \in Members
      /\ v \in IF Tool!Kind(v) = "object" THEN Tool!Values[Depth] ELSE Tool!Values[Depth - 1]
  BY ArgumentsAssumption DEF Tool!ArgumentsAssumption
<1>2. \A d \in Nat : d + 1 \in 0..Depth => Tool!Values[d + 1] = Tool!ValuesOver(Tool!Values[d])
  BY <1>1, NextLevel
<1>3. Tool!Values[Depth] = Tool!ValuesOver(Tool!Values[Depth - 1])
  <2>1. Depth - 1 \in Nat /\ (Depth - 1) + 1 = Depth /\ Depth \in 0..Depth
    BY <1>1
  <2> QED BY <1>2, <2>1
<1>4. CASE Tool!Kind(v) = "object"
  BY <1>1, <1>4 DEF Tool!Given
<1>5. CASE Tool!Kind(v) # "object"
  <2> DEFINE f == [Tool!Blank EXCEPT !["value"] = v]
  <2>1. v \in Tool!Values[Depth - 1]
    BY <1>1, <1>5
  <2>2. f \in [Members -> Tool!Optional(Tool!Values[Depth - 1])]
    BY <1>1, <2>1 DEF Tool!Blank, Tool!Optional
  <2>3. Tool!Obj(f) \in Tool!Values[Depth]
    <3> HIDE DEF f
    <3> QED BY <1>3, <2>2, Built
  <2>4. CASE Tool!Wrapped(a.input)
    <3>1. Tool!Given(a, v) = Tool!Obj(f)
      BY <1>5, <2>4 DEF Tool!Given
    <3> QED BY <2>3, <3>1
  <2>5. CASE ~Tool!Wrapped(a.input)
    <3>1. Tool!Given(a, v) = v
      BY <2>5 DEF Tool!Given
    <3>2. Depth - 1 \in Nat /\ (Depth - 1) + 1 \in 0..Depth /\ (Depth - 1) + 1 = Depth
      BY <1>1
    <3>3. Tool!Values[Depth - 1] \subseteq Tool!Values[Depth]
      BY <1>1, <3>2, ValuesGrow
    <3> QED BY <2>1, <3>1, <3>3
  <2> QED BY <2>4, <2>5
<1> QED BY <1>4, <1>5

\* What follows a tool's parameters, variables included, follows what is offered.
LEMMA ParametersNarrow ==
    ASSUME NEW a \in Actions, NEW v \in Tool!Values[Depth], Tool!Valid[Depth][Tool!Parameters(a)][v]
    PROVE  /\ Tool!Valid[Depth][Tool!Offered[Depth][Tool!Wrap(a.input)]][v]
           /\ Tool!Wrapped(a.input) => Tool!Kind(v) = "object"
<1> DEFINE base == Tool!Offered[Depth][Tool!Wrap(a.input)]
           T == Tool!Schemas[Depth - 1]
           W == Tool!Values[Depth - 1]
           valid == Tool!Valid[Depth - 1]
           props == [n \in Members |-> IF n \in a.vars \ Tool!Named(base.props) THEN Tool!OfTypes({"string"})
                                     ELSE base.props[n]]
           required == base.required \cup a.vars
           p == Tool!Parameters(a)
<1>1. /\ Depth \in Nat /\ Depth > 1 /\ "value" \in Members /\ a.vars \subseteq Members
      /\ Tool!Wrap(a.input) \in Tool!Schemas[Depth]
  BY ArgumentsAssumption DEF Tool!ArgumentsAssumption
<1>2. /\ Depth - 1 \in Nat /\ Depth - 2 \in Nat /\ (Depth - 1) + 1 = Depth /\ (Depth - 2) + 1 = Depth - 1
      /\ Depth \in 0..Depth /\ Depth - 1 \in 0..Depth
  BY <1>1
<1>3. /\ Tool!Values[Depth] = Tool!ValuesOver(W)
      /\ Tool!Schemas[Depth] = Tool!SchemasOver(T, Tool!ValuesOver(W))
      /\ \A s \in Tool!Schemas[Depth] : \A u \in Tool!Values[Depth] :
           Tool!Valid[Depth][s][u] = Tool!IsValid(s, u, valid)
  BY <1>1, <1>2, NextLevel
<1>4. base \in Tool!Schemas[Depth]
  BY <1>1, <1>2, OfferedAndFilled
<1>5. Tool!OfTypes({"string"}) \in T
  <2>1. T = Tool!SchemasOver(Tool!Schemas[Depth - 2], Tool!ValuesOver(Tool!Values[Depth - 2]))
    BY <1>1, <1>2, NextLevel
  <2> QED BY <2>1 DEF Tool!SchemasOver, Tool!OfTypes, Tool!Types, Tool!Optional, Tool!Blank
<1>6. p = [base EXCEPT !.props = props, !.required = required]
  BY DEF Tool!Parameters
<1> HIDE DEF base, T, W, valid
<1>7. /\ base.props \in [Members -> Tool!Optional(T)] /\ base.required \subseteq Members
  BY <1>3, <1>4, Terms
<1>8. props \in [Members -> Tool!Optional(T)] /\ required \subseteq Members
  BY <1>1, <1>5, <1>7 DEF Tool!Optional
<1>9. \A n \in Tool!Named(base.props) : n \in Tool!Named(props) /\ props[n] = base.props[n]
  BY DEF Tool!Named
<1>10. base.required \subseteq required
  OBVIOUS
<1> HIDE DEF props, p, required
<1>11. p \in Tool!Schemas[Depth]
  <2> DEFINE V == Tool!ValuesOver(W)
  <2>1. base \in Tool!SchemasOver(T, V)
    BY <1>3, <1>4
  <2> HIDE DEF V
  <2>2. p \in Tool!SchemasOver(T, V)
    BY <1>6, <1>8, <2>1 DEF Tool!SchemasOver
  <2> QED BY <1>3, <2>2 DEF V
<1>12. /\ p.types = base.types /\ p.const = base.const /\ p.allowed = base.allowed /\ p.items = base.items
       /\ p.props = props /\ p.required = required
  BY <1>3, <1>4, <1>6 DEF Tool!SchemasOver
<1>13. Tool!IsValid(p, v, valid)
  BY <1>3, <1>11 DEF p
<1>14. Tool!IsValid(base, v, valid)
  <2>1. Tool!IsOf(base, v)
    BY <1>12, <1>13, <1>10 DEF Tool!IsValid, Tool!IsOf
  <2>2. \A n \in Tool!Named(base.props) \cap Tool!Named(Tool!Fields(v)) : valid[base.props[n]][Tool!Fields(v)[n]]
    BY <1>9, <1>12, <1>13 DEF Tool!IsValid
  <2>3. base.items # Nothing => \A i \in DOMAIN Tool!Items(v) : valid[base.items][Tool!Items(v)[i]]
    BY <1>12, <1>13 DEF Tool!IsValid
  <2> QED BY <2>1, <2>2, <2>3 DEF Tool!IsValid
<1>15. Tool!Valid[Depth][base][v]
  BY <1>3, <1>4, <1>14
<1>16. ASSUME Tool!Wrapped(a.input) PROVE Tool!Kind(v) = "object"
  <2>1. Tool!Wrap(a.input).types = {"object"} /\ Tool!Wrap(a.input).const = Nothing
    BY <1>16 DEF Tool!Wrap, Tool!OfTypes
  <2>2. base.types = {"object"}
    <3>1. \A t \in T : Tool!Offered[Depth - 1][t] \in T
      BY <1>2, OfferedAndFilled DEF T
    <3>2. Nothing \notin T
      BY <1>2, NothingIsNone DEF T
    <3>3. Offers(Tool!Wrap(a.input), Tool!WithoutConst(Tool!Wrap(a.input), Tool!Offered[Depth - 1]), Tool!Offered[Depth - 1])
      BY <1>1, <1>3, <3>1, <3>2, OfferedLevel
    <3>4. base = Tool!WithoutConst(Tool!Wrap(a.input), Tool!Offered[Depth - 1])
      BY <1>1, <1>2, NextLevel DEF base
    <3> QED BY <2>1, <3>3, <3>4 DEF Offers
  <2>3. Tool!Kind(v) \in base.types
    BY <1>14, <2>2 DEF Tool!IsValid, Tool!IsOf
  <2> QED BY <2>2, <2>3
<1> QED BY <1>15, <1>16 DEF base

(***************************************************************************)
(* The steps of a call.                                                    *)
(***************************************************************************)

\* What has been filled in is what the description fills in for what was given,
\* and what the check has said of it is what it finds there.
Called ==
    /\ action \in Actions /\ args \in Arguments
    /\ phase \in {"asked", "filled", "accepted", "refused", "sent"}
    /\ phase # "asked" => payload = Tool!Filled[Depth][Tool!Wrap(action.input)][Tool!Given(action, args)]
    /\ phase \in {"accepted", "sent"} => Tool!Errors[Depth][Tool!Wrap(action.input)][payload] = {}
    /\ phase = "refused" => Tool!Errors[Depth][Tool!Wrap(action.input)][payload] # {}

\* Every call goes through those phases.
LEMMA CalledInductive == Tool!Spec => []Called
<1>1. Tool!Init => Called
  BY DEF Tool!Init, Called
<1>2. Called /\ [Tool!Next]_(Tool!vars) => Called'
  <2> SUFFICES ASSUME Called, [Tool!Next]_(Tool!vars) PROVE Called'
    OBVIOUS
  <2>1. CASE Tool!FillIn
    BY <2>1 DEF Called, Tool!FillIn
  <2>2. CASE Tool!Check
    BY <2>2 DEF Called, Tool!Check
  <2>3. CASE Tool!Dispatch
    BY <2>3 DEF Called, Tool!Dispatch
  <2>4. CASE UNCHANGED Tool!vars
    BY <2>4 DEF Called, Tool!vars
  <2> QED BY <2>1, <2>2, <2>3, <2>4 DEF Tool!Next
<1> QED BY <1>1, <1>2, PTL DEF Tool!Spec

\* What was filled in is a value, it has what was given, and the check accepts it
\* just when the description does.
LEMMA FilledIn ==
    ASSUME Called, phase # "asked"
    PROVE  LET s == Tool!Wrap(action.input)
           IN  /\ payload \in Tool!Values[Depth]
               /\ Tool!Errors[Depth][s][payload] = {} => Tool!Valid[Depth][s][payload]
               /\ Tool!Valid[Depth][s][payload] => Tool!Errors[Depth][s][payload] = {}
               /\ Tool!Keeps[Depth][s][Tool!Given(action, args)][payload]
<1> DEFINE s == Tool!Wrap(action.input)
           v == Tool!Given(action, args)
<1>1. Depth \in 0..Depth /\ s \in Tool!Schemas[Depth]
  BY ArgumentsAssumption DEF Tool!ArgumentsAssumption, Called
<1>2. v \in Tool!Values[Depth]
  BY GivenIsValue DEF Called
<1>3. v # Nothing /\ v \in Tool!Optional(Tool!Values[Depth])
  BY <1>1, <1>2, NothingIsNone DEF Tool!Optional
<1>4. payload = Tool!Filled[Depth][s][v]
  BY DEF Called
<1> HIDE DEF s, v
<1>5. payload \in Tool!Values[Depth]
  BY <1>1, <1>3, <1>4, OfferedAndFilled DEF Tool!Optional
<1>6. Tool!Errors[Depth][s][payload] = {} <=> Tool!Valid[Depth][s][payload]
  BY <1>1, <1>5, ErrorsAndKeeps
<1>7. Tool!Keeps[Depth][s][v][payload]
  BY <1>1, <1>2, <1>4, ErrorsAndKeeps
<1> QED BY <1>5, <1>6, <1>7 DEF s, v

\* "A mismatch is not sent" (docs/MAPPING.md), for every description and every
\* argument: what goes on to the policy, the approver and the device is valid at
\* every depth, and it is what the caller said but for what the description adds.
THEOREM OnlyDeclaredArgumentsGoOn == Tool!Spec => []AcceptedIsDeclared
<1>1. Called => AcceptedIsDeclared
  BY FilledIn DEF Called, AcceptedIsDeclared, Tool!AcceptedIsDeclared
<1> QED BY <1>1, CalledInductive, PTL

\* Arguments that follow the parameters a tool is offered with are not refused,
\* when the description's own const and default values are valid and it
\* describes what it requires.
THEOREM OfferedArgumentsAreAccepted == Tool!Spec => []OfferedIsAccepted
<1> DEFINE s == Tool!Wrap(action.input)
<1>1. ASSUME Called, phase = "refused", Tool!Consistent[Depth][s], Tool!Valid[Depth][Tool!Parameters(action)][args]
      PROVE  FALSE
  <2>1. /\ Depth \in Nat /\ Depth \in 0..Depth /\ Depth - 1 \in Nat /\ (Depth - 1) + 1 = Depth
        /\ action \in Actions /\ args \in Arguments /\ s \in Tool!Schemas[Depth]
        /\ args \in IF Tool!Kind(args) = "object" THEN Tool!Values[Depth] ELSE Tool!Values[Depth - 1]
    BY <1>1, ArgumentsAssumption DEF Tool!ArgumentsAssumption, Called
  <2>2. args \in Tool!Values[Depth]
    BY <2>1, ValuesGrow
  <2>3. /\ Tool!Valid[Depth][Tool!Offered[Depth][s]][args]
        /\ Tool!Wrapped(action.input) => Tool!Kind(args) = "object"
    BY <1>1, <2>1, <2>2, ParametersNarrow
  <2>4. Tool!Given(action, args) = args
    BY <2>3 DEF Tool!Given
  <2>5. payload = Tool!Filled[Depth][s][args]
    BY <1>1, <2>4 DEF Called
  <2> HIDE DEF s
  <2>6. args # Nothing /\ args \in Tool!Optional(Tool!Values[Depth])
    BY <2>1, <2>2, NothingIsNone DEF Tool!Optional
  <2>7. payload # Nothing
    BY <2>1, <2>5, <2>6, OfferedAndFilled
  <2>8. Serves(s, args, Tool!Offered[Depth], Tool!Filled[Depth], Tool!Valid[Depth])
    BY <1>1, <2>1, <2>6, FilledServes
  <2>9. Tool!Valid[Depth][s][payload]
    BY <2>3, <2>5, <2>6, <2>7, <2>8 DEF Serves
  <2>10. Tool!Errors[Depth][s][payload] = {}
    BY <1>1, <2>9, FilledIn DEF s
  <2> QED BY <1>1, <2>10 DEF Called, s
<1>2. Called => OfferedIsAccepted
  BY <1>1 DEF OfferedIsAccepted, Tool!OfferedIsAccepted
<1> QED BY <1>2, CalledInductive, PTL

(***************************************************************************)
(* The parts together.                                                     *)
(***************************************************************************)

\* A behaviour of the client is a behaviour of each of its parts.
LEMMA EachPartAsItself == PartsSpec => Spec /\ Tool!Spec /\ Api!Spec
<1>1. PartsInit => Init /\ Tool!Init /\ Api!Init
  BY DEF PartsInit, OneCall, OneFleet, OneDocument
<1>2. [PartsNext]_<<part, vars, argumentVars, documentVars>> =>
          [Next]_vars /\ [Tool!Next]_(Tool!vars) /\ [Api!Next]_(Api!vars)
  <2>1. (UNCHANGED argumentVars => UNCHANGED Tool!vars) /\ (UNCHANGED documentVars => UNCHANGED Api!vars)
    BY DEF argumentVars, documentVars, Tool!vars, Api!vars
  <2>2. PartsNext =>
            \/ Next /\ UNCHANGED <<argumentVars, documentVars>>
            \/ Tool!Next /\ UNCHANGED <<vars, documentVars>>
            \/ Api!Next /\ UNCHANGED <<vars, argumentVars>>
    BY DEF PartsNext
  <2> QED BY <2>1, <2>2
<1> QED BY <1>1, <1>2, PTL DEF PartsSpec, Spec, Tool!Spec, Api!Spec

\* The client with its calls, their arguments and an imported document (invoke and
\* what it calls): the record tells what happened, whoever cancels finds a run that
\* is waited for, nothing goes beyond the grants, arguments that follow the offer are
\* accepted, what is accepted is as declared, and a request fits its document.
THEOREM TheClientKeepsItsWord ==
    PartsSpec => /\ []RecordTells /\ []HandlesAreWaited /\ NeverBeyondGrants
                 /\ []OfferedIsAccepted /\ []AcceptedIsDeclared /\ []CallFitsTheSpec
BY EachPartAsItself, TheRecordTells, TheTableIsWaitedFor, NothingBeyondGrants, OfferedArgumentsAreAccepted,
   OnlyDeclaredArgumentsGoOn, CallsFitTheirDocument
=============================================================================
