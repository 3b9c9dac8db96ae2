-------------------------- MODULE McpBridge_proofs --------------------------
(***************************************************************************)
(* What McpBridgeMC checks of the parts of an MCP bridge, proved of each   *)
(* of them for every value of the constants.                               *)
(***************************************************************************)
EXTENDS McpBridgeMC, SequenceTheorems, WellFoundedInduction, TLAPS

(* The ring between two reads.                                             *)

Entry == [seq : Nat, value : Nat]
Ring  == [items : Seq(Entry), dropped : Nat, seq : Nat]

LEMMA EmptyRingAccounts == EmptyRing \in Ring /\ Accounts(EmptyRing, 0)
<1>1. <<>> \in Seq(Entry) /\ Len(<<>>) = 0 /\ DOMAIN <<>> = {}
  OBVIOUS
<1> QED BY <1>1 DEF EmptyRing, Ring, Accounts

\* A value pushed is accounted for, the one it evicts included.
LEMMA PushAccounts ==
    ASSUME NEW r \in Ring, NEW value \in Nat, NEW t \in Nat, Accounts(r, t)
    PROVE  Push(r, value) \in Ring /\ Accounts(Push(r, value), t)
<1> DEFINE kept == IF Full(r) THEN Tail(r.items) ELSE r.items
           lost == IF Full(r) THEN 1 ELSE 0
           entry == [seq |-> r.seq + 1, value |-> value]
<1>1. r.items \in Seq(Entry) /\ r.dropped \in Nat /\ r.seq \in Nat /\ entry \in Entry
  BY DEF Ring, Entry
<1>2. /\ kept \in Seq(Entry) /\ lost \in Nat /\ Len(kept) + lost = Len(r.items)
      /\ \A i \in 1 .. Len(kept) : kept[i] = r.items[i + lost]
  <2>1. CASE Full(r)
    <3>1. r.items # <<>> /\ Len(r.items) \in Nat
      BY <2>1, <1>1, RingAssumption DEF Full
    <3> QED BY <2>1, <3>1, <1>1, HeadTailProperties
  <2>2. CASE ~Full(r)
    BY <2>2, <1>1
  <2> QED BY <2>1, <2>2
<1>3. Push(r, value) = [items |-> Append(kept, entry), dropped |-> r.dropped + lost, seq |-> r.seq + 1]
  BY DEF Push
<1>4. /\ Append(kept, entry) \in Seq(Entry) /\ Len(Append(kept, entry)) = Len(kept) + 1
      /\ DOMAIN Append(kept, entry) = 1 .. Len(kept) + 1
      /\ \A i \in 1 .. Len(kept) : Append(kept, entry)[i] = kept[i]
      /\ Append(kept, entry)[Len(kept) + 1] = entry
  BY <1>1, <1>2, AppendProperties
<1>5. t + r.dropped + Len(r.items) = r.seq /\ \A i \in 1 .. Len(r.items) : r.items[i].seq = t + r.dropped + i
  <2>1. DOMAIN r.items = 1 .. Len(r.items)
    BY <1>1, LenProperties
  <2> QED BY <2>1 DEF Accounts
<1>6. Len(kept) \in Nat /\ Len(r.items) \in Nat
  BY <1>1, <1>2
<1>7. entry.seq = r.seq + 1
  OBVIOUS
<1> HIDE DEF kept, lost, entry
<1>8. \A i \in 1 .. Len(kept) : kept[i].seq = t + (r.dropped + lost) + i
  <2> TAKE i \in 1 .. Len(kept)
  <2>1. i \in Nat /\ i + lost \in 1 .. Len(r.items) /\ lost \in Nat /\ r.dropped \in Nat
    BY <1>1, <1>2, <1>6
  <2>2. kept[i] = r.items[i + lost] /\ r.items[i + lost].seq = t + r.dropped + (i + lost)
    BY <1>2, <1>5, <2>1
  <2> QED BY <2>1, <2>2
<1>9. t + (r.dropped + lost) + (Len(kept) + 1) = r.seq + 1
  <2>1. PICK d \in Nat : d = r.dropped
    BY <1>1
  <2>2. PICK n \in Nat : n = Len(kept)
    BY <1>6
  <2>3. t + d + (n + lost) = r.seq /\ lost \in Nat
    BY <1>2, <1>5, <2>1, <2>2
  <2>4. t + (d + lost) + (n + 1) = t + d + (n + lost) + 1
    BY <2>3
  <2> QED BY <2>1, <2>2, <2>3, <2>4
<1>10. \A i \in 1 .. Len(kept) + 1 : Append(kept, entry)[i].seq = t + (r.dropped + lost) + i
  <2>1. \A i \in 1 .. Len(kept) + 1 : i \in 1 .. Len(kept) \/ i = Len(kept) + 1
    BY <1>6
  <2> QED BY <1>4, <1>7, <1>8, <1>9, <2>1
<1>11. [items |-> Append(kept, entry), dropped |-> r.dropped + lost, seq |-> r.seq + 1] \in Ring
  BY <1>1, <1>2, <1>4 DEF Ring
<1> QED BY <1>3, <1>4, <1>9, <1>10, <1>11 DEF Accounts

\* A read has seen every value up to the running number.
LEMMA DrainAccounts ==
    ASSUME NEW r \in Ring, NEW t \in Nat, Accounts(r, t)
    PROVE  /\ Drain(r) \in Ring /\ Accounts(Drain(r), r.seq) /\ r.seq \in Nat
           /\ r.items # <<>> => Last(r.items).seq = r.seq
<1>1. r.items \in Seq(Entry) /\ r.dropped \in Nat /\ r.seq \in Nat
  BY DEF Ring
<1>2. <<>> \in Seq(Entry) /\ Len(<<>>) = 0 /\ DOMAIN <<>> = {}
  OBVIOUS
<1>3. /\ Drain(r) \in Ring
      /\ Drain(r).items = <<>> /\ Drain(r).dropped = 0 /\ Drain(r).seq = r.seq
  BY <1>2 DEF Drain, Ring
<1>4. Drain(r) \in Ring /\ Accounts(Drain(r), r.seq)
  BY <1>1, <1>2, <1>3 DEF Accounts
<1>5. ASSUME r.items # <<>> PROVE Last(r.items).seq = r.seq
  <2>1. Len(r.items) \in Nat \ {0} /\ Len(r.items) \in DOMAIN r.items
    BY <1>1, <1>5
  <2> QED BY <1>1, <2>1 DEF Accounts, Last
<1> QED BY <1>1, <1>4, <1>5

RelayAccounts ==
    /\ emitted \in Nat /\ taken \in Nat /\ ring \in Ring /\ Accounts(ring, taken)
    /\ inbox \in [Pumps -> Seq(Nat)]

LEMMA RelayStep == RelayAccounts /\ [Next]_vars => RelayAccounts'
<1> SUFFICES ASSUME RelayAccounts, [Next]_vars PROVE RelayAccounts'
  OBVIOUS
<1> USE DEF RelayAccounts
<1>1. CASE Read
  <2>1. taken' = ring.seq /\ ring' = Drain(ring) /\ UNCHANGED <<emitted, inbox>>
    BY <1>1, DrainAccounts DEF Read
  <2> QED BY <2>1, DrainAccounts
<1>2. CASE Emit
  <2>1. \A p \in Pumps : Append(inbox[p], emitted + 1) \in Seq(Nat)
    BY AppendProperties
  <2> QED BY <1>2, <2>1 DEF Emit
<1>3. ASSUME NEW p \in Pumps, Relays(p) PROVE RelayAccounts'
  <2>1. Head(inbox[p]) \in Nat /\ Tail(inbox[p]) \in Seq(Nat)
    BY <1>3, HeadTailProperties DEF Relays
  <2>2. ring' \in Ring /\ Accounts(ring', taken)
    BY <1>3, <2>1, PushAccounts DEF Relays
  <2> QED BY <1>3, <2>1, <2>2 DEF Relays
<1>4. UNCHANGED <<ring, taken, emitted, inbox>> => RelayAccounts'
  OBVIOUS
<1> QED BY <1>1, <1>2, <1>3, <1>4
        DEF Next, vars, Subscribe, Unsubscribe, Pump, Begin, Opens, Notified, Ends, Unwinds

SubAccounts ==
    /\ received \in Nat /\ reported \in [Subs -> Nat] /\ rings \in [Subs -> Ring]
    /\ \A s \in Subs : Accounts(rings[s], reported[s])
    /\ arrived \in [Subs -> Seq(Nat)]

LEMMA SubStep == SubAccounts /\ [Background!Next]_Background!vars => SubAccounts'
<1> SUFFICES ASSUME SubAccounts, [Background!Next]_Background!vars PROVE SubAccounts'
  OBVIOUS
<1> USE DEF SubAccounts
<1>0. /\ \A r, value : Background!Push(r, value) = Push(r, value)
      /\ \A r : Background!Drain(r) = Drain(r) /\ Background!Last(r) = Last(r)
  BY DEF Background!Push, Push, Background!Full, Full, Background!Drain, Drain, Background!Last, Last
<1>1. ASSUME NEW s \in Subs, Background!Read(s) PROVE SubAccounts'
  <2>1. /\ rings' = [rings EXCEPT ![s] = Drain(rings[s])]
        /\ reported' = [reported EXCEPT ![s] = rings[s].seq]
        /\ UNCHANGED <<received, arrived>>
    BY <1>0, <1>1, DrainAccounts DEF Background!Read
  <2> QED BY <2>1, DrainAccounts
<1>2. CASE Background!Emit
  <2>1. \A s \in Subs : Append(arrived[s], received + 1) \in Seq(Nat)
    BY AppendProperties
  <2> QED BY <1>2, <2>1 DEF Background!Emit
<1>3. ASSUME NEW s \in Subs, Background!Buffers(s) PROVE SubAccounts'
  <2>1. Head(arrived[s]) \in Nat /\ Tail(arrived[s]) \in Seq(Nat)
    BY <1>3, HeadTailProperties DEF Background!Buffers
  <2>2. /\ Push(rings[s], Head(arrived[s])) \in Ring
        /\ Accounts(Push(rings[s], Head(arrived[s])), reported[s])
    BY <2>1, PushAccounts
  <2>3. /\ rings' = [rings EXCEPT ![s] = Push(rings[s], Head(arrived[s]))]
        /\ arrived' = [arrived EXCEPT ![s] = Tail(arrived[s])] /\ UNCHANGED <<received, reported>>
    BY <1>0, <1>3 DEF Background!Buffers
  <2> QED BY <2>1, <2>2, <2>3
<1>4. UNCHANGED <<rings, reported, received, arrived>> => SubAccounts'
  OBVIOUS
<1> QED BY <1>1, <1>2, <1>3, <1>4
        DEF Background!Next, Background!vars, Background!Start, Background!Stop, Background!Pump,
            Background!Begin, Background!Opens, Background!Fails, Background!Exhausted, Background!Unwinds

\* What reads reported, what the ring holds and what it counted as dropped add up to
\* every value that arrived, for a relayed event and for a background subscription
\* (_pump, _sub_pump, read_event, read_subscription).
THEOREM NothingGoesUncounted == Spec /\ Background!Spec => []NoGapAnywhere
<1>1. Init => RelayAccounts
  BY EmptyRingAccounts DEF Init, RelayAccounts
<1>2. Background!Init => SubAccounts
  BY EmptyRingAccounts DEF Background!Init, SubAccounts, Background!EmptyRing, EmptyRing
<1>3. RelayAccounts /\ SubAccounts => NoGapAnywhere
  BY DEF RelayAccounts, SubAccounts, NoGapAnywhere, NoSilentGap, Background!NoSilentGap,
         Background!Accounts, Accounts
<1> QED BY <1>1, <1>2, <1>3, RelayStep, SubStep, PTL DEF Spec, Background!Spec

------------------------------------------------------------------------------
(* The gated calls.                                                        *)

\* A token is redeemed by one request, which runs what was parked under it; the call it
\* is of stays parked, so nothing under a token changes or is parked again.
OnePerToken ==
    /\ status \in [Requests -> {"none", "deciding", "asking", "parked", "running", "over"}]
    /\ confirms \in [Requests -> BOOLEAN] /\ redeemed \in [Requests -> SUBSET Requests]
    /\ tool \in [Requests -> Tools \cup {NoTool}] /\ pending \subseteq Requests
    /\ \A r \in Requests : confirms[r] => redeemed[r] # {}
    /\ \A r \in Requests : status[r] = "none" => redeemed[r] = {}
    /\ \A p \in pending : status[p] = "parked"
    /\ \A r \in Requests : \A p \in redeemed[r] : status[p] = "parked"

LEMMA OnePerTokenStep ==
    OnePerToken /\ RunsOnItsOwnApproval /\ [Approvals!Next]_Approvals!vars =>
        OnePerToken' /\ RunsOnItsOwnApproval'
<1> SUFFICES ASSUME OnePerToken, RunsOnItsOwnApproval, [Approvals!Next]_Approvals!vars
             PROVE  OnePerToken' /\ RunsOnItsOwnApproval'
  OBVIOUS
<1> USE DEF OnePerToken, RunsOnItsOwnApproval, Approvals!GatedNeedsConsent, Approvals!Consented,
            Approvals!OneRunPerApproval, Approvals!DeniedNeverPrompts
<1>1. ASSUME NEW r \in Requests, NEW c \in Callers, NEW t \in Tools, Approvals!Call(r, c, t)
      PROVE  OnePerToken' /\ RunsOnItsOwnApproval'
  BY <1>1 DEF Approvals!Call, Approvals!Move
<1>2. ASSUME NEW r \in Requests, NEW c \in Callers, NEW p \in Requests \ {r}, Approvals!Approve(r, c, p)
      PROVE  OnePerToken' /\ RunsOnItsOwnApproval'
  <2>1. CASE p \in Approvals!Fresh
    <3>1. /\ status' = [status EXCEPT ![r] = "deciding"] /\ tool' = [tool EXCEPT ![r] = tool[p]]
          /\ confirms' = [confirms EXCEPT ![r] = TRUE] /\ redeemed' = [redeemed EXCEPT ![r] = {p}]
          /\ pending' \subseteq pending \ {p} /\ status[r] = "none" /\ p \in pending
          /\ UNCHANGED <<permitted, accepted>>
      BY <1>2, <2>1 DEF Approvals!Approve, Approvals!Move, Approvals!Fresh
    <3>2. \A q \in Requests : p \notin redeemed[q]
      BY <3>1
    <3>3. OnePerToken'
      BY <3>1
    <3>4. Approvals!GatedNeedsConsent' /\ Approvals!DeniedNeverPrompts'
      BY <3>1
    <3>5. Approvals!OneRunPerApproval'
      BY <3>1, <3>2
    <3> QED BY <3>3, <3>4, <3>5
  <2>2. CASE p \notin Approvals!Fresh
    <3>1. /\ status' = [status EXCEPT ![r] = "over"] /\ pending' \subseteq pending /\ status[r] = "none"
          /\ UNCHANGED <<tool, confirms, redeemed, permitted, accepted>>
      BY <1>2, <2>2 DEF Approvals!Approve, Approvals!Move, Approvals!Fresh
    <3> QED BY <3>1
  <2> QED BY <2>1, <2>2
<1>3. ASSUME NEW r \in Requests,
             Approvals!Deny(r) \/ Approvals!RunAtOnce(r) \/ Approvals!AskInDialog(r) \/ Approvals!Done(r)
      PROVE  OnePerToken' /\ RunsOnItsOwnApproval'
  BY <1>3 DEF Approvals!Deny, Approvals!RunAtOnce, Approvals!AskInDialog, Approvals!Done,
              Approvals!Permit, Approvals!NeedsApproval, Approvals!Move
<1>4. ASSUME NEW r \in Requests, Approvals!ParkAtOnce(r) PROVE OnePerToken' /\ RunsOnItsOwnApproval'
  BY <1>4 DEF Approvals!ParkAtOnce, Approvals!Permit, Approvals!Park, Approvals!Move
<1>5. ASSUME NEW r \in Requests, Approvals!Answered(r) PROVE OnePerToken' /\ RunsOnItsOwnApproval'
  BY <1>5 DEF Approvals!Answered, Approvals!Park, Approvals!Move
<1>6. CASE Approvals!Tick \/ Approvals!Regrant \/ UNCHANGED Approvals!vars
  BY <1>6 DEF Approvals!Tick, Approvals!Regrant, Approvals!vars, Approvals!requestVars
<1> QED BY <1>1, <1>2, <1>3, <1>4, <1>5, <1>6 DEF Approvals!Next, Approvals!Arrives, Approvals!Runs

\* A gated tool runs only for a call whose own user said yes, in the dialog or by its
\* token; a parked call is replayed once and as it was parked; nobody is asked about
\* what the policy denies (gate_action, _run_gated_call, approve).
THEOREM GatedRunsOnConsent == Approvals!Spec => []RunsOnItsOwnApproval
<1> USE DEF OnePerToken, RunsOnItsOwnApproval
<1>1. Approvals!Init => OnePerToken /\ RunsOnItsOwnApproval
  BY DEF Approvals!Init, Approvals!GatedNeedsConsent, Approvals!OneRunPerApproval, Approvals!DeniedNeverPrompts
<1> HIDE DEF OnePerToken, RunsOnItsOwnApproval
<1> QED BY <1>1, OnePerTokenStep, PTL DEF Approvals!Spec

------------------------------------------------------------------------------
(* The tools of a fleet that changes.                                      *)

LEMMA SurfaceFacts == Surface!SurfaceAssumption
  BY BridgeAssumption

\* A name has at most one holder, a Thing of its slug that has what it names.
LEMMA OneHolder ==
    ASSUME NEW ths \in Seq(Descriptions), NEW kind, NEW name
    PROVE  /\ \A t \in Surface!Holder(ths, kind, name) :
                /\ t \in Surface!Elements(ths) /\ t \in Descriptions
                /\ name # <<>> /\ t.slug = Head(name) /\ Tail(name) \in DOMAIN t.affs
                /\ t.affs[Tail(name)].kind = kind
           /\ \A t, u \in Surface!Holder(ths, kind, name) : t = u
<1>1. DOMAIN ths \subseteq Nat /\ \A i \in DOMAIN ths : ths[i] \in Descriptions
  BY LenProperties
<1> QED BY <1>1 DEF Surface!Holder, Surface!Elements

LEMMA OneMedia ==
    ASSUME NEW ths \in Seq(Descriptions), NEW name
    PROVE  /\ \A t \in Surface!Media(ths, name) :
                /\ t \in Surface!Elements(ths) /\ t \in Descriptions
                /\ name # <<>> /\ t.slug = Head(name) /\ Tail(name) \in DOMAIN t.affs
                /\ t.affs[Tail(name)].media
           /\ \A t, u \in Surface!Media(ths, name) : t = u
           /\ \A r \in Surface!Frames(ths, name) : r.of \in Surface!Media(ths, name) /\ r.aff = Tail(name)
<1>1. \E kind : Surface!Media(ths, name) =
          {t \in Surface!Holder(ths, kind, name) : t.affs[Tail(name)].media}
  BY DEF Surface!Media
<1>2. \A r \in Surface!Frames(ths, name) : r.of \in Surface!Media(ths, name) /\ r.aff = Tail(name)
  BY DEF Surface!Frames, Surface!Reach
<1> QED BY <1>1, <1>2, OneHolder

\* What a name is made of.  The suffixes are strings, but the provers do not know it.
Part == STRING \cup {"cancel", "get", "set", "snapshot"}

\* The suffix of a name comes off its end.
LEMMA BaseOfName ==
    ASSUME NEW name \in Seq(Part), Surface!Base(name) # <<>>
    PROVE  /\ name # <<>> /\ Surface!Base(name) \in Seq(Part)
           /\ Tail(Surface!Base(name)) \in Seq(Part)
           /\ Head(Surface!Base(name)) = Head(name)
           /\ Tail(name) = Tail(Surface!Base(name)) \o <<name[Len(name)]>>
<1>1. Len(name) \in Nat /\ \A i \in 1 .. Len(name) : name[i] \in Part
  BY LenProperties
<1>2. Len(name) >= 2
  <2>1. CASE Len(name) < 2
    <3>1. Len(name) - 1 \in Int /\ Len(name) - 1 < 1
      BY <1>1, <2>1
    <3>2. Surface!Base(name) = <<>>
      BY <3>1, SubSeqEmpty DEF Surface!Base
    <3> QED BY <3>2
  <2> QED BY <1>1, <2>1
<1>3. name # <<>>
  BY <1>2
<1>4. 1 \in 1 .. Len(name) /\ Len(name) - 1 \in 1 .. Len(name) /\ 2 \in 1 .. Len(name)
      /\ Len(name) \in 2 .. Len(name)
  BY <1>1, <1>2
<1>5. Head(Surface!Base(name)) = name[1] /\ Tail(Surface!Base(name)) = SubSeq(name, 2, Len(name) - 1)
  BY <1>4, HeadTailOfSubSeq DEF Surface!Base
<1>6. Surface!Base(name) \in Seq(Part)
  BY <1>1, <1>4, SubSeqProperties DEF Surface!Base
<1>7. Tail(Surface!Base(name)) \in Seq(Part)
  BY <1>6, HeadTailProperties
<1>8. Tail(name) = SubSeq(name, 2, Len(name))
  BY <1>3, TailIsSubSeq
<1>9. SubSeq(name, 2, Len(name)) = SubSeq(name, 2, Len(name) - 1) \o <<name[Len(name)]>>
  BY <1>4, SubSeqRecursiveSecond
<1>10. Head(name) = name[1]
  BY <1>3
<1> QED BY <1>3, <1>5, <1>6, <1>7, <1>8, <1>9, <1>10

\* What a call reaches is a Thing of the slug it names, and it is one: as named and not
\* a stream, or by a suffix of what the Thing has.
LEMMA OneCallee ==
    ASSUME NEW ths \in Seq(Descriptions), NEW name \in Seq(Part)
    PROVE  /\ \A r \in Surface!CallTool(ths, name) :
                /\ r.of \in Surface!Elements(ths) /\ r.of \in Descriptions
                /\ name # <<>> /\ r.of.slug = Head(name)
                /\ \/ r.aff = Tail(name) /\ ~r.of.affs[r.aff].media
                   \/ r.aff \in DOMAIN r.of.affs /\ Tail(name) \notin DOMAIN r.of.affs
           /\ \A r, q \in Surface!CallTool(ths, name) : r.of = q.of
<1> DEFINE base == Surface!Base(name)
           bySuffix(kind, op) == Surface!Reach(Surface!Routed(ths, kind, base), Tail(base), op)
<1>1. \/ /\ Surface!CallTool(ths, name) = bySuffix("action", "cancelaction")
         /\ name # <<>> /\ name[Len(name)] = "cancel"
      \/ /\ Surface!CallTool(ths, name) = bySuffix("property", "writeproperty")
         /\ name # <<>> /\ name[Len(name)] = "set"
      \/ /\ Surface!CallTool(ths, name) = bySuffix("property", "readproperty")
         /\ name # <<>> /\ name[Len(name)] = "get"
      \/ Surface!CallTool(ths, name) =
              Surface!Reach(Surface!Routed(ths, "action", name), Tail(name), "invokeaction")
  BY DEF Surface!CallTool, Surface!Ends
<1>2. ASSUME NEW kind, NEW op, NEW nm, NEW r \in Surface!Reach(Surface!Routed(ths, kind, nm), Tail(nm), op)
      PROVE  /\ r.of \in Surface!Holder(ths, kind, nm) /\ ~r.of.affs[Tail(nm)].media /\ r.aff = Tail(nm)
  BY <1>2 DEF Surface!Reach, Surface!Routed
<1>3. CASE Surface!CallTool(ths, name) =
              Surface!Reach(Surface!Routed(ths, "action", name), Tail(name), "invokeaction")
  <2>1. \A r \in Surface!CallTool(ths, name) :
            /\ r.of \in Surface!Holder(ths, "action", name) /\ ~r.of.affs[Tail(name)].media /\ r.aff = Tail(name)
    BY <1>2, <1>3
  <2>2. /\ \A t \in Surface!Holder(ths, "action", name) :
             /\ t \in Surface!Elements(ths) /\ t \in Descriptions
             /\ name # <<>> /\ t.slug = Head(name)
        /\ \A t, u \in Surface!Holder(ths, "action", name) : t = u
    BY OneHolder
  <2> QED BY <2>1, <2>2
<1>4. ASSUME NEW kind \in {"action", "property"}, NEW op,
             Surface!CallTool(ths, name) = bySuffix(kind, op), name # <<>>,
             \/ kind = "action" /\ name[Len(name)] = "cancel"
             \/ kind = "property" /\ name[Len(name)] \in {"set", "get"}
      PROVE  /\ \A r \in Surface!CallTool(ths, name) :
                  /\ r.of \in Surface!Elements(ths) /\ r.of \in Descriptions
                  /\ name # <<>> /\ r.of.slug = Head(name)
                  /\ r.aff \in DOMAIN r.of.affs /\ Tail(name) \notin DOMAIN r.of.affs
             /\ \A r, q \in Surface!CallTool(ths, name) : r.of = q.of
  <2>1. ASSUME NEW r \in Surface!CallTool(ths, name)
        PROVE  /\ r.of \in Surface!Holder(ths, kind, base) /\ r.aff = Tail(base)
               /\ r.of \in Surface!Elements(ths) /\ r.of \in Descriptions
               /\ base # <<>> /\ r.of.slug = Head(base) /\ Tail(base) \in DOMAIN r.of.affs
               /\ r.of.affs[Tail(base)].kind = kind
    BY <1>2, <1>4, OneHolder
  <2>2. ASSUME NEW r \in Surface!CallTool(ths, name)
        PROVE  r.of.slug = Head(name) /\ Tail(name) \notin DOMAIN r.of.affs
    <3>1. Head(base) = Head(name) /\ Tail(name) = Tail(base) \o <<name[Len(name)]>>
      BY <2>1, BaseOfName
    <3>2. \A n \in DOMAIN r.of.affs :
             /\ n \o <<"set">> \in DOMAIN r.of.affs => r.of.affs[n].kind # "property"
             /\ n \o <<"get">> \in DOMAIN r.of.affs => r.of.affs[n].kind # "property"
             /\ n \o <<"cancel">> \in DOMAIN r.of.affs => r.of.affs[n].kind # "action"
      BY <2>1, SurfaceFacts DEF Surface!SurfaceAssumption
    <3> QED BY <1>4, <2>1, <3>1, <3>2
  <2>3. \A r, q \in Surface!CallTool(ths, name) : r.of = q.of
    BY <2>1, OneHolder
  <2> QED BY <1>4, <2>1, <2>2, <2>3
<1> QED BY <1>1, <1>3, <1>4

\* Names are sequences of strings, and a snapshot tool starts with its stream's slug.
Named ==
    /\ things \in Seq(Descriptions)
    /\ \A nm \in DOMAIN mediaTools :
          /\ nm \in Seq(Part) /\ mediaTools[nm] \in Seq(Part)
          /\ nm # <<>> /\ mediaTools[nm] # <<>> /\ Head(mediaTools[nm]) = Head(nm)
    /\ \A slug \in DOMAIN gateway : gateway[slug] \in Descriptions

\* What a call of a tool comes to, in the fleet of now or through an older view.
LEMMA ResolvedOne ==
    ASSUME Named, NEW w, w.name \in Seq(Part), NEW view \in Seq(Descriptions)
    PROVE  /\ \A r \in Surface!Resolved(w, view) :
                /\ r.of \in Surface!Elements(things) \cup Surface!Elements(view)
                /\ w.name # <<>> /\ r.of.slug = Head(w.name) /\ r.of \in Descriptions
                /\ Surface!Flat \/ r.aff = Tail(w.name) \/ Tail(w.name) \notin DOMAIN r.of.affs
           /\ \A r, q \in Surface!Resolved(w, view) : r.of = q.of
<1> DEFINE asked == w.name
           Reached(r) == /\ r.of \in Surface!Elements(things) \cup Surface!Elements(view)
                         /\ asked # <<>> /\ r.of.slug = Head(asked) /\ r.of \in Descriptions
                         /\ Surface!Flat \/ r.aff = Tail(asked) \/ Tail(asked) \notin DOMAIN r.of.affs
<1>0. asked = w.name
  OBVIOUS
<1>a. asked \in Seq(Part) /\ things \in Seq(Descriptions)
  BY DEF Named
<1> HIDE DEF asked
<1>1. ASSUME NEW ths \in {things, view}
      PROVE  /\ \A r \in Surface!CallTool(ths, asked) : Reached(r)
             /\ \A r, q \in Surface!CallTool(ths, asked) : r.of = q.of
  <2>1. ths \in Seq(Descriptions) /\ Surface!Elements(ths) \subseteq Surface!Elements(things) \cup Surface!Elements(view)
    BY <1>1 DEF Named
  <2>2. ASSUME NEW r \in Surface!CallTool(ths, asked)
        PROVE  /\ r.of \in Surface!Elements(ths) /\ r.of \in Descriptions
               /\ asked # <<>> /\ r.of.slug = Head(asked)
               /\ r.aff = Tail(asked) \/ Tail(asked) \notin DOMAIN r.of.affs
    BY <1>a, <2>1, <2>2, OneCallee
  <2>3. \A r, q \in Surface!CallTool(ths, asked) : r.of = q.of
    BY <1>a, <2>1, OneCallee
  <2> QED BY <2>1, <2>2, <2>3
<1>2. /\ \A r \in Surface!Frames(things, asked) : Reached(r)
      /\ \A r, q \in Surface!Frames(things, asked) : r.of = q.of
  <2>1. /\ \A t \in Surface!Media(things, asked) :
             /\ t \in Surface!Elements(things) /\ t \in Descriptions
             /\ asked # <<>> /\ t.slug = Head(asked)
        /\ \A t, u \in Surface!Media(things, asked) : t = u
    BY <1>a, OneMedia
  <2>2. \A r \in Surface!Frames(things, asked) : r.of \in Surface!Media(things, asked) /\ r.aff = Tail(asked)
    BY <1>a, OneMedia
  <2> QED BY <2>1, <2>2
<1>3. ASSUME asked \in DOMAIN mediaTools, Surface!Flat
      PROVE  /\ \A r \in Surface!Frames(things, mediaTools[asked]) : Reached(r)
             /\ \A r, q \in Surface!Frames(things, mediaTools[asked]) : r.of = q.of
  <2> DEFINE media == mediaTools[asked]
  <2>1. asked # <<>> /\ Head(media) = Head(asked)
    BY <1>3 DEF Named
  <2>2. /\ \A t \in Surface!Media(things, media) :
             t \in Surface!Elements(things) /\ t \in Descriptions /\ t.slug = Head(media)
        /\ \A t, u \in Surface!Media(things, media) : t = u
        /\ \A r \in Surface!Frames(things, media) : r.of \in Surface!Media(things, media)
    BY <1>a, OneMedia
  <2> QED BY <1>3, <2>1, <2>2
<1>4. ASSUME NEW op
      PROVE  /\ \A r \in Surface!Reach(Surface!Routed(things, "property", asked), Tail(asked), op) : Reached(r)
             /\ \A r, q \in Surface!Reach(Surface!Routed(things, "property", asked), Tail(asked), op) : r.of = q.of
  <2>1. ASSUME NEW r \in Surface!Reach(Surface!Routed(things, "property", asked), Tail(asked), op)
        PROVE  r.of \in Surface!Holder(things, "property", asked) /\ r.aff = Tail(asked)
    BY <2>1 DEF Surface!Reach, Surface!Routed
  <2>2. /\ \A t \in Surface!Holder(things, "property", asked) :
             /\ t \in Surface!Elements(things) /\ t \in Descriptions
             /\ asked # <<>> /\ t.slug = Head(asked)
        /\ \A t, u \in Surface!Holder(things, "property", asked) : t = u
    BY OneHolder DEF Named
  <2> QED BY <2>1, <2>2
<1>5. Surface!Resolved(w, view) \in {Surface!ByVerb(w), Surface!Frames(things, mediaTools[asked]),
                                    Surface!CallTool(view, asked)}
      /\ (Surface!Resolved(w, view) = Surface!ByVerb(w) \/ Surface!Flat)
      /\ (\/ Surface!Resolved(w, view) = Surface!ByVerb(w)
          \/ Surface!Resolved(w, view) = Surface!Frames(things, mediaTools[asked]) /\ asked \in DOMAIN mediaTools
          \/ Surface!Resolved(w, view) = Surface!CallTool(view, asked))
  BY <1>0 DEF Surface!Resolved
<1>6. \/ Surface!ByVerb(w) = Surface!Frames(things, asked)
      \/ Surface!ByVerb(w) = Surface!CallTool(things, asked)
      \/ Surface!ByVerb(w) = Surface!Reach(Surface!Routed(things, "property", asked), Tail(asked), w.op)
      \/ Surface!ByVerb(w) = {}
  BY <1>0 DEF Surface!ByVerb, Surface!Nowhere
<1> HIDE DEF Reached
<1>7. /\ \A r \in Surface!ByVerb(w) : Reached(r)
      /\ \A r, q \in Surface!ByVerb(w) : r.of = q.of
  BY <1>1, <1>2, <1>4, <1>6
<1>8. /\ \A r \in Surface!Resolved(w, view) : Reached(r)
      /\ \A r, q \in Surface!Resolved(w, view) : r.of = q.of
  BY <1>1, <1>3, <1>5, <1>7
<1> QED BY <1>0, <1>8 DEF Reached

\* The Things a call may have to be signed in to, as they were when it arrived.
Owner(ths, name) ==
    LET slugged == {i \in DOMAIN ths : name # <<>> /\ ths[i].slug = Head(name)}
    IN  IF Surface!Routed(ths, "action", name) # {} THEN Surface!Routed(ths, "action", name)
        ELSE {ths[i] : i \in {i \in slugged : \A j \in slugged : i <= j}}

ConnectsTo(flat, ths, w) ==
    IF ~flat /\ Surface!Media(ths, w.name) # {} THEN {} ELSE Owner(ths, w.name)

LEMMA OneOwner ==
    ASSUME NEW flat, NEW ths \in Seq(Descriptions), NEW w
    PROVE  \A t, u \in ConnectsTo(flat, ths, w) : t = u
<1>1. DOMAIN ths \subseteq Nat
  BY LenProperties
<1>2. \A t, u \in Surface!Routed(ths, "action", w.name) : t = u
  BY OneHolder DEF Surface!Routed
<1> QED BY <1>1, <1>2 DEF ConnectsTo, Owner

\* A Thing that has its slug for itself is the one a call of that slug connects.
LEMMA OwnerIsConnected ==
    ASSUME NEW flat, NEW ths \in Seq(Descriptions), NEW w, w.name # <<>>, NEW t, Surface!Alone(t, ths),
           t.slug = Head(w.name), NEW aff, flat \/ ~t.affs[aff].media,
           flat \/ aff = Tail(w.name) \/ Tail(w.name) \notin DOMAIN t.affs
    PROVE  t \in ConnectsTo(flat, ths, w)
<1> DEFINE name == w.name
<1>1. \A u \in Surface!Elements(ths) : u.slug = t.slug => u = t
  BY DEF Surface!Alone
<1>2. flat \/ Surface!Media(ths, name) = {}
  <2> SUFFICES ASSUME ~flat, NEW u \in Surface!Media(ths, name) PROVE FALSE
    OBVIOUS
  <2>1. u = t /\ Tail(name) \in DOMAIN u.affs /\ u.affs[Tail(name)].media
    BY <1>1, OneMedia
  <2> QED BY <2>1
<1>3. ASSUME Surface!Routed(ths, "action", name) # {} PROVE t \in Surface!Routed(ths, "action", name)
  <2>1. PICK u \in Surface!Routed(ths, "action", name) : TRUE
    BY <1>3
  <2>2. u \in Surface!Holder(ths, "action", name)
    BY <2>1 DEF Surface!Routed
  <2>3. u = t
    BY <1>1, <2>2, OneHolder
  <2> QED BY <2>1, <2>3
<1>4. ASSUME Surface!Routed(ths, "action", name) = {} PROVE t \in Owner(ths, name)
  <2> DEFINE slugged == {i \in DOMAIN ths : name # <<>> /\ ths[i].slug = Head(name)}
  <2>1. DOMAIN ths \subseteq Nat
    BY LenProperties
  <2>2. slugged # {}
    BY DEF Surface!Alone, Surface!Elements
  <2>3. PICK i \in slugged : \A j \in slugged : ~ (<<j, i>> \in OpToRel(<, Nat))
    BY <2>1, <2>2, WFMin, NatLessThanWellFounded
  <2>4. ASSUME NEW j \in slugged PROVE i <= j
    <3>1. i \in Nat /\ j \in Nat /\ <<j, i>> \in Nat \X Nat
      BY <2>1
    <3>2. ~ (j < i)
      BY <2>3, <3>1 DEF OpToRel
    <3> QED BY <3>1, <3>2
  <2>5. ths[i] = t
    BY <1>1 DEF Surface!Elements
  <2> QED BY <1>4, <2>4, <2>5 DEF Owner
<1> QED BY <1>2, <1>3, <1>4 DEF ConnectsTo, Owner

\* The policy and the security are the fleet's; a Thing that a call knows of, from its
\* view or its target, has not left it.
Known(ids, q) ==
    /\ DOMAIN q = {"phase", "tool", "alone", "view", "target", "signed"}
    /\ q.tool.name \in Seq(Part) /\ q.view \in Seq(Descriptions)
    /\ \A t \in Surface!Elements(q.view) : t.id \in ids
    /\ q.phase \in {"calling", "sent"} =>
          /\ q.target # {} /\ \A r \in q.target : r.of.id \in ids
          /\ \A r, p \in q.target : r.of = p.of

FleetKept ==
    /\ Named /\ vocabulary = Surface!Grantable(things)
    /\ \A t \in Surface!Elements(things) : t.id \in DOMAIN security
    /\ \A id \in DOMAIN security : \E t \in Surface!Elements(things) : t.id = id /\ t.scheme = security[id]
    /\ DOMAIN call = Calls /\ \A c \in Calls : Known(DOMAIN security, call[c])

\* A call that is past its arrival is signed in to what it connects, or asks for it.
Admitted(flat, ids, q) ==
    /\ q.phase = "connecting" =>
          \A t \in ConnectsTo(flat, q.view, q.tool) : t.scheme = "code" => t.id \in ids \cup {q.signed}
    /\ q.phase = "dispatching" =>
          \A t \in ConnectsTo(flat, q.view, q.tool) : t.scheme = "code" => t.id \in ids
    /\ q.phase \in {"calling", "sent"} =>
          \A r \in q.target :
              r.of.scheme = "code" /\ Surface!Alone(r.of, q.view) /\ (flat \/ ~r.of.affs[r.aff].media)
                  => r.of.id \in ids

SignedIn == \A c \in Calls : Admitted(Surface!Flat, connected, call[c])

\* What a step may do to the calls and the fleet.
Permits(c) ==
    call[c].phase # "calling" /\ call'[c].phase = "calling" =>
        \A r \in call'[c].target : <<r.of.id, r.aff, r.op>> \in Surface!Grantable(things)
Signs(c) ==
    call[c].phase # "sent" /\ call'[c].phase = "sent" =>
        \A r \in call'[c].target : \E t \in Surface!Elements(things) :
            t.id = r.of.id /\ call'[c].signed = t.scheme

LEMMA NamesAreNames ==
    /\ \A t \in Descriptions : \A n \in DOMAIN t.affs :
          Surface!Name(t, n) \in Seq(Part) /\ Surface!Name(t, n) # <<>>
    /\ \A ths \in Seq(Descriptions) : \A nm \in Surface!Names(ths) : nm \in Seq(Part) /\ nm # <<>>
<1>1. ASSUME NEW t \in Descriptions, NEW n \in DOMAIN t.affs
      PROVE  Surface!Name(t, n) \in Seq(Part) /\ Surface!Name(t, n) # <<>>
  <2>1. t.slug \in Part /\ n \in Seq(Part)
    <3>1. t.slug \in STRING /\ n \in Seq(STRING) /\ STRING \subseteq Part
      BY SurfaceFacts DEF Surface!SurfaceAssumption, Part
    <3> QED BY <3>1, SeqMonotonic
  <2>2. <<t.slug>> \in Seq(Part) /\ Len(<<t.slug>>) = 1
    BY <2>1
  <2>3. Len(n) \in Nat /\ <<t.slug>> \o n \in Seq(Part) /\ Len(<<t.slug>> \o n) = 1 + Len(n)
    BY <2>1, <2>2, ConcatProperties, LenProperties
  <2> QED BY <2>3, EmptySeq DEF Surface!Name
<1>2. \A ths \in Seq(Descriptions) : \A t \in Surface!Elements(ths) : t \in Descriptions
  BY LenProperties DEF Surface!Elements
<1> QED BY <1>1, <1>2 DEF Surface!Names

LEMMA AddedPart ==
    ASSUME NEW S, NEW seq \in Seq(S), NEW s \in S
    PROVE  seq \o <<s>> \in Seq(S) /\ seq \o <<s>> # <<>> /\ (seq # <<>> => Head(seq \o <<s>>) = Head(seq))
<1>1. seq \o <<s>> = Append(seq, s)
  BY AppendIsConcat
<1>2. /\ Append(seq, s) \in Seq(S) /\ Append(seq, s) # <<>>
      /\ \A i \in 1 .. Len(seq) : Append(seq, s)[i] = seq[i]
  BY AppendProperties
<1>3. seq # <<>> => Append(seq, s)[1] = seq[1]
  BY <1>2, EmptySeq, LenProperties
<1> QED BY <1>1, <1>2, <1>3

LEMMA OnePart ==
    ASSUME NEW S, NEW s \in S
    PROVE  <<s>> \in Seq(S) /\ <<s>> # <<>> /\ Head(<<s>>) = s
<1>1. <<s>> \in Seq(S)
  OBVIOUS
<1>2. Head(<<s>>) = s
  OBVIOUS
<1>3. Len(<<s>>) = 1
  OBVIOUS
<1>4. Len(<<>>) = 0
  BY EmptySeq
<1> QED BY <1>1, <1>2, <1>3, <1>4

LEMMA WithSuffix ==
    ASSUME NEW nm \in Seq(Part)
    PROVE  /\ nm \o <<"cancel">> \in Seq(Part) /\ nm \o <<"get">> \in Seq(Part)
           /\ nm \o <<"set">> \in Seq(Part)
           /\ nm \o <<"snapshot">> \in Seq(Part) /\ nm \o <<"snapshot">> # <<>>
           /\ nm # <<>> => Head(nm \o <<"snapshot">>) = Head(nm)
<1>1. "cancel" \in Part /\ "get" \in Part /\ "set" \in Part /\ "snapshot" \in Part
  BY DEF Part
<1> QED BY <1>1, AddedPart

\* A tool that is offered is named as the fleet, a snapshot tool or a projection has it.
LEMMA ToolsAreNamed ==
    ASSUME Named, NEW w \in IF Surface!Flat THEN Surface!Listed ELSE Surface!Described
    PROVE  w.name \in Seq(Part)
<1>1. /\ \A t \in Descriptions : \A n \in DOMAIN t.affs : Surface!Name(t, n) \in Seq(Part)
      /\ \A nm \in Surface!Names(things) : nm \in Seq(Part)
  BY NamesAreNames DEF Named
<1>3. CASE Surface!Flat
  <2>1. CASE \E nm \in Surface!Names(things) : w \in Surface!Surface(nm)
    <3>1. PICK nm \in Surface!Names(things) : w \in Surface!Surface(nm)
      BY <2>1
    <3>2. nm \in Seq(Part)
      BY <1>1
    <3>3. w.name \in {nm, nm \o <<"cancel">>, nm \o <<"get">>, nm \o <<"set">>}
      BY <3>1 DEF Surface!Surface, Surface!Tool
    <3>4. /\ nm \o <<"cancel">> \in Seq(Part) /\ nm \o <<"get">> \in Seq(Part)
          /\ nm \o <<"set">> \in Seq(Part)
      BY <3>2, WithSuffix
    <3> QED BY <3>2, <3>3, <3>4
  <2>2. CASE \E nm \in DOMAIN mediaTools : w.name = nm
    BY <2>2 DEF Named
  <2>3. w \in Surface!Listed
    BY <1>3
  <2> QED BY <2>1, <2>2, <2>3 DEF Surface!Listed, Surface!Tool
<1>4. CASE ~Surface!Flat
  <2>1. \E slug \in DOMAIN gateway : \E n \in DOMAIN gateway[slug].affs : w.name = Surface!Name(gateway[slug], n)
    BY <1>4 DEF Surface!Described, Surface!Tool
  <2> QED BY <1>1, <2>1 DEF Named
<1> QED BY <1>3, <1>4

LEMMA FleetStep ==
    FleetKept /\ SignedIn /\ [Surface!Next]_Surface!vars =>
        FleetKept' /\ SignedIn' /\ (\A c \in Calls : Permits(c) /\ Signs(c))
<1> SUFFICES ASSUME FleetKept, SignedIn, [Surface!Next]_Surface!vars
             PROVE  FleetKept' /\ SignedIn' /\ (\A c \in Calls : Permits(c) /\ Signs(c))
  OBVIOUS
<1> DEFINE Goal == FleetKept' /\ SignedIn' /\ (\A c \in Calls : Permits(c) /\ Signs(c))
<1>0. /\ Named /\ things \in Seq(Descriptions) /\ DOMAIN call = Calls
      /\ vocabulary = Surface!Grantable(things)
      /\ \A c \in Calls : Known(DOMAIN security, call[c]) /\ Admitted(Surface!Flat, connected, call[c])
  BY DEF FleetKept, SignedIn, Named
<1>a. \A c \in Calls : /\ DOMAIN call[c] = {"phase", "tool", "alone", "view", "target", "signed"}
                      /\ call[c].tool.name \in Seq(Part) /\ call[c].view \in Seq(Descriptions)
  BY <1>0 DEF Known
\* A step of one call, which the fleet does not take part in.
<1>1. ASSUME NEW c \in Calls, NEW q, call' = [call EXCEPT ![c] = q],
             UNCHANGED <<things, vocabulary, security, gateway, mediaTools>>, connected \subseteq connected',
             Known(DOMAIN security, q), Admitted(Surface!Flat, connected', q),
             call[c].phase # "calling" /\ q.phase = "calling" =>
                 \A r \in q.target : <<r.of.id, r.aff, r.op>> \in vocabulary,
             call[c].phase # "sent" /\ q.phase = "sent" =>
                 \A r \in q.target : r.of.id \in DOMAIN security /\ q.signed = security[r.of.id]
      PROVE  Goal
  <2>1. call'[c] = q /\ \A d \in Calls : d # c => call'[d] = call[d]
    BY <1>0, <1>1
  <2>2. FleetKept'
    BY <1>0, <1>1, <2>1 DEF FleetKept, Named
  <2>3. \A d \in Calls : Admitted(Surface!Flat, connected', call[d])
    BY <1>0, <1>1 DEF Admitted
  <2>4. SignedIn'
    BY <1>1, <2>1, <2>3 DEF SignedIn, Surface!Flat
  <2>5. Permits(c) /\ Signs(c)
    <3>1. Permits(c)
      BY <1>0, <1>1, <2>1 DEF Permits
    <3>2. \A id \in DOMAIN security : \E t \in Surface!Elements(things) : t.id = id /\ t.scheme = security[id]
      BY DEF FleetKept
    <3>3. ASSUME call[c].phase # "sent", q.phase = "sent", NEW r \in q.target
          PROVE  \E t \in Surface!Elements(things) : t.id = r.of.id /\ q.signed = t.scheme
      <4>1. r.of.id \in DOMAIN security /\ q.signed = security[r.of.id]
        BY <1>1, <3>3
      <4> QED BY <3>2, <4>1
    <3> QED BY <2>1, <3>1, <3>3 DEF Signs
  <2>6. \A d \in Calls : d # c => Permits(d) /\ Signs(d)
    BY <2>1 DEF Permits, Signs
  <2> QED BY <2>2, <2>4, <2>5, <2>6
<1> HIDE DEF Goal
<1>2. ASSUME NEW c \in Calls, NEW w \in IF Surface!Flat THEN Surface!Listed ELSE Surface!Described,
             Surface!List(c, w)
      PROVE  Goal
  <2> DEFINE q == [Surface!Idle EXCEPT !.phase = "listed", !.tool = w, !.alone = Surface!Alone(w.of, things)]
  <2>1. w.name \in Seq(Part)
    BY <1>0, ToolsAreNamed
  <2>2. /\ DOMAIN q = {"phase", "tool", "alone", "view", "target", "signed"}
        /\ q.phase = "listed" /\ q.tool = w /\ q.view = <<>>
    BY DEF Surface!Idle
  <2>3. call' = [call EXCEPT ![c] = q]
        /\ UNCHANGED <<things, vocabulary, security, gateway, mediaTools, connected>>
    BY <1>2 DEF Surface!List
  <2> HIDE DEF q
  <2>4. Known(DOMAIN security, q) /\ Admitted(Surface!Flat, connected', q)
    BY <2>1, <2>2 DEF Known, Admitted, Surface!Elements
  <2> QED BY <1>1, <2>2, <2>3, <2>4
<1>3. ASSUME NEW c \in Calls, Surface!Arrive(c) PROVE Goal
  <2> DEFINE w == call[c].tool
             unsigned == {t \in Surface!ConnectTarget(w) : t.scheme = "code" /\ t.id \notin connected}
             q == [call[c] EXCEPT !.view = things,
                                  !.phase = IF unsigned = {} THEN "dispatching" ELSE "connecting",
                                  !.signed = IF unsigned = {} THEN "none" ELSE (CHOOSE t \in unsigned : TRUE).id]
  <2>1. call' = [call EXCEPT ![c] = q]
        /\ UNCHANGED <<things, vocabulary, security, gateway, mediaTools, connected>>
    BY <1>3 DEF Surface!Arrive
  <2>2. /\ DOMAIN q = {"phase", "tool", "alone", "view", "target", "signed"}
        /\ q.tool = w /\ q.view = things
        /\ unsigned = {} => q.phase = "dispatching"
        /\ unsigned # {} => q.phase = "connecting" /\ \E t \in unsigned : q.signed = t.id
    BY <1>a
  <2>3. Surface!ConnectTarget(w) = ConnectsTo(Surface!Flat, things, w)
    BY DEF Surface!ConnectTarget, Surface!ThingForTool, ConnectsTo, Owner
  <2>4. \A t, u \in ConnectsTo(Surface!Flat, things, w) : t = u
    BY <1>0, OneOwner
  <2>5. \A t \in ConnectsTo(Surface!Flat, things, w) : t \in unsigned \/ t.scheme # "code" \/ t.id \in connected
    BY <2>3
  <2>6. unsigned \subseteq ConnectsTo(Surface!Flat, things, w)
    BY <2>3
  <2>7. w.name \in Seq(Part)
    BY <1>a
  <2> HIDE DEF unsigned, q, w
  <2>8. Known(DOMAIN security, q)
    BY <1>0, <2>2, <2>7 DEF Known, FleetKept
  <2>9. Admitted(Surface!Flat, connected', q)
    BY <2>1, <2>2, <2>4, <2>5, <2>6 DEF Admitted
  <2>10. q.phase \notin {"calling", "sent"}
    BY <2>2
  <2> QED BY <1>1, <2>1, <2>8, <2>9, <2>10
<1>4. ASSUME NEW c \in Calls, Surface!Connect(c) PROVE Goal
  <2>1. CASE connected' = connected \cup {call[c].signed} /\ call' = [call EXCEPT ![c].phase = "dispatching"]
    <3> DEFINE q == [call[c] EXCEPT !.phase = "dispatching"]
    <3>1. call' = [call EXCEPT ![c] = q] /\ UNCHANGED <<things, vocabulary, security, gateway, mediaTools>>
      BY <1>4, <2>1 DEF Surface!Connect
    <3>2. /\ DOMAIN q = {"phase", "tool", "alone", "view", "target", "signed"}
          /\ q.tool = call[c].tool /\ q.view = call[c].view /\ q.phase = "dispatching"
      BY <1>a
    <3> HIDE DEF q
    <3>3. Known(DOMAIN security, q)
      BY <1>0, <3>2 DEF Known
    <3>4. Admitted(Surface!Flat, connected', q)
      BY <1>0, <1>4, <2>1, <3>2 DEF Admitted, Surface!Connect
    <3> QED BY <1>1, <2>1, <3>1, <3>2, <3>3, <3>4
  <2>2. CASE call' = [call EXCEPT ![c].phase = "refused"] /\ UNCHANGED connected
    <3> DEFINE q == [call[c] EXCEPT !.phase = "refused"]
    <3>1. call' = [call EXCEPT ![c] = q] /\ UNCHANGED <<things, vocabulary, security, gateway, mediaTools>>
      BY <1>4, <2>2 DEF Surface!Connect
    <3>2. /\ DOMAIN q = {"phase", "tool", "alone", "view", "target", "signed"}
          /\ q.tool = call[c].tool /\ q.view = call[c].view /\ q.phase = "refused"
      BY <1>a
    <3> HIDE DEF q
    <3>3. Known(DOMAIN security, q) /\ Admitted(Surface!Flat, connected', q)
      BY <1>0, <3>2 DEF Known, Admitted
    <3> QED BY <1>1, <2>2, <3>1, <3>2, <3>3
  <2> QED BY <1>4, <2>1, <2>2 DEF Surface!Connect
<1>5. ASSUME NEW c \in Calls, Surface!Dispatch(c) PROVE Goal
  <2> DEFINE w == call[c].tool
             view == call[c].view
             target == Surface!Resolved(w, view)
             phase == IF target = {} THEN "unknown"
                      ELSE IF \A r \in target : <<r.of.id, r.aff, r.op>> \in vocabulary THEN "calling" ELSE "denied"
             q == [call[c] EXCEPT !.target = target, !.phase = phase]
  <2>1. /\ call' = [call EXCEPT ![c] = q] /\ call[c].phase = "dispatching"
        /\ UNCHANGED <<things, vocabulary, security, gateway, mediaTools, connected>>
    BY <1>5 DEF Surface!Dispatch, Surface!Nowhere
  <2>2. /\ phase \in {"unknown", "calling", "denied"}
        /\ phase = "calling" => target # {} /\ \A r \in target : <<r.of.id, r.aff, r.op>> \in vocabulary
    OBVIOUS
  <2>3. w.name \in Seq(Part) /\ view \in Seq(Descriptions)
    BY <1>a
  <2> HIDE DEF target, phase
  <2>4. /\ DOMAIN q = {"phase", "tool", "alone", "view", "target", "signed"}
        /\ q.tool = w /\ q.view = view /\ q.phase = phase /\ q.target = target
    BY <1>a
  <2> HIDE DEF q, w
  <2>5. /\ \A r \in target :
             /\ r.of \in Surface!Elements(things) \cup Surface!Elements(view)
             /\ w.name # <<>> /\ r.of.slug = Head(w.name)
             /\ Surface!Flat \/ r.aff = Tail(w.name) \/ Tail(w.name) \notin DOMAIN r.of.affs
        /\ \A r, p \in target : r.of = p.of
    BY <1>0, <2>3, ResolvedOne DEF target
  <2>6. /\ \A t \in Surface!Elements(view) : t.id \in DOMAIN security
        /\ \A t \in ConnectsTo(Surface!Flat, view, w) : t.scheme = "code" => t.id \in connected
    BY <1>0, <2>1 DEF Known, Admitted, w
  <2> HIDE DEF view
  <2>7. Known(DOMAIN security, q)
    BY <2>2, <2>3, <2>4, <2>5, <2>6 DEF Known, FleetKept
  <2>8. Admitted(Surface!Flat, connected', q)
    <3>1. ASSUME NEW r \in target, r.of.scheme = "code", Surface!Alone(r.of, view),
                 Surface!Flat \/ ~r.of.affs[r.aff].media
          PROVE  r.of.id \in connected
      <4>1. r.of \in ConnectsTo(Surface!Flat, view, w)
        BY <2>3, <2>5, <3>1, OwnerIsConnected
      <4> QED BY <2>6, <3>1, <4>1
    <3> QED BY <2>1, <2>2, <2>4, <3>1 DEF Admitted
  <2> QED BY <1>1, <2>1, <2>2, <2>4, <2>7, <2>8
<1>6. ASSUME NEW c \in Calls, Surface!Touch(c) PROVE Goal
  <2> DEFINE id == (CHOOSE r \in call[c].target : TRUE).of.id
             q == [call[c] EXCEPT !.phase = "sent", !.signed = security[id]]
  <2>1. /\ call' = [call EXCEPT ![c] = q] /\ call[c].phase = "calling"
        /\ UNCHANGED <<things, vocabulary, security, gateway, mediaTools, connected>>
    <3>1. /\ call[c].phase = "calling"
          /\ UNCHANGED <<things, vocabulary, security, gateway, mediaTools, connected>>
      BY <1>6 DEF Surface!Touch
    <3>2. call' = [call EXCEPT ![c].phase = "sent", ![c].signed = security[id]]
      BY <1>6 DEF Surface!Touch
    <3> HIDE DEF id
    <3> QED BY <3>1, <3>2
  <2>2. /\ DOMAIN q = {"phase", "tool", "alone", "view", "target", "signed"}
        /\ q.tool = call[c].tool /\ q.view = call[c].view /\ q.target = call[c].target
        /\ q.phase = "sent" /\ q.signed = security[id]
    BY <1>a
  <2>3. \A r \in call[c].target : r.of.id \in DOMAIN security /\ r.of.id = id
    BY <1>0, <2>1 DEF Known
  <2> HIDE DEF q, id
  <2>4. Known(DOMAIN security, q) /\ Admitted(Surface!Flat, connected', q)
    BY <1>0, <2>1, <2>2 DEF Known, Admitted
  <2>5. \A r \in q.target : r.of.id \in DOMAIN security /\ q.signed = security[r.of.id]
    BY <2>2, <2>3
  <2> QED BY <1>1, <2>1, <2>2, <2>4, <2>5
<1>7. ASSUME NEW t \in Descriptions, Surface!AddThings(t) PROVE Goal
  <2>1. /\ things' = Surface!Merged(t) /\ vocabulary' = Surface!Grantable(things')
        /\ security' = [id \in DOMAIN security \cup {t.id} |-> IF id = t.id THEN t.scheme ELSE security[id]]
        /\ UNCHANGED <<gateway, mediaTools, connected, call>>
    BY <1>7 DEF Surface!AddThings, Surface!Describe
  <2>2. /\ DOMAIN things = 1 .. Len(things) /\ Len(things) \in Nat
        /\ \A i \in DOMAIN things : things[i] \in Descriptions
    BY <1>0, LenProperties
  <2>3. /\ things' \in Seq(Descriptions)
        /\ \A u \in Surface!Elements(things') : u = t \/ u \in Surface!Elements(things)
        /\ t \in Surface!Elements(things')
        /\ \A u \in Surface!Elements(things) : u.id = t.id \/ u \in Surface!Elements(things')
    <3>1. CASE t.id \in DOMAIN security
      <4>1. things' = [i \in DOMAIN things |-> IF things[i].id = t.id THEN t ELSE things[i]]
        BY <2>1, <3>1 DEF Surface!Merged
      <4>2. things' \in Seq(Descriptions) /\ DOMAIN things' = DOMAIN things
        BY <2>2, <4>1
      <4>3. \E i \in DOMAIN things : things[i].id = t.id
        BY <3>1 DEF FleetKept, Surface!Elements
      <4> QED BY <4>1, <4>2, <4>3 DEF Surface!Elements
    <3>2. CASE t.id \notin DOMAIN security
      <4>1. things' = Append(things, t)
        BY <2>1, <3>2 DEF Surface!Merged
      <4>2. /\ things' \in Seq(Descriptions) /\ DOMAIN things' = 1 .. Len(things) + 1
            /\ \A i \in 1 .. Len(things) : things'[i] = things[i]
            /\ things'[Len(things) + 1] = t
        BY <1>0, <4>1, AppendProperties, LenProperties
      <4> QED BY <2>2, <4>2 DEF Surface!Elements
    <3> QED BY <3>1, <3>2
  <2>4. DOMAIN security \subseteq DOMAIN security'
    BY <2>1
  <2>5. FleetKept'
    <3>1. Named'
      BY <1>0, <2>1, <2>3 DEF Named
    <3>2. \A u \in Surface!Elements(things') : u.id \in DOMAIN security'
      BY <2>1, <2>3 DEF FleetKept
    <3>3. \A id \in DOMAIN security' : \E u \in Surface!Elements(things') : u.id = id /\ u.scheme = security'[id]
      BY <2>1, <2>3 DEF FleetKept
    <3>4. \A c \in Calls : Known(DOMAIN security', call[c])
      BY <1>0, <2>4 DEF Known
    <3> QED BY <1>0, <2>1, <3>1, <3>2, <3>3, <3>4 DEF FleetKept
  <2>6. SignedIn'
    BY <1>0, <2>1 DEF SignedIn, Surface!Flat
  <2>7. \A c \in Calls : Permits(c) /\ Signs(c)
    BY <2>1 DEF Permits, Signs
  <2> QED BY <2>5, <2>6, <2>7 DEF Goal
<1>8. CASE UNCHANGED Surface!vars
  <2>1. UNCHANGED <<things, vocabulary, security, gateway, mediaTools, connected, call>>
    BY <1>8 DEF Surface!vars
  <2>2. FleetKept' /\ SignedIn'
    BY <2>1 DEF FleetKept, SignedIn, Named, Surface!Flat
  <2> QED BY <2>1, <2>2 DEF Goal, Permits, Signs
<1> QED BY <1>2, <1>3, <1>4, <1>5, <1>6, <1>7, <1>8 DEF Surface!Next, Goal

\* The snapshot tool of a stream is of its slug.
LEMMA SnapshotsAreNamed ==
    ASSUME NEW ths \in Seq(Descriptions), NEW nm \in DOMAIN Surface!SnapshotTools(ths)
    PROVE  /\ nm \in Seq(Part) /\ nm # <<>>
           /\ Surface!SnapshotTools(ths)[nm] \in Seq(Part) /\ Surface!SnapshotTools(ths)[nm] # <<>>
           /\ Head(Surface!SnapshotTools(ths)[nm]) = Head(nm)
<1> DEFINE streams == Surface!MediaNames(ths)
           first(slug) == CHOOSE m \in streams : Head(m) = slug
           toolOf(m) == (IF m = first(Head(m)) THEN <<Head(m)>> ELSE m) \o <<"snapshot">>
           media == Surface!SnapshotTools(ths)[nm]
<1>1. \A m \in streams : m \in Seq(Part) /\ m # <<>>
  BY NamesAreNames DEF Surface!MediaNames
<1>2. /\ \E m \in streams : toolOf(m) = nm
      /\ media = CHOOSE m \in streams : toolOf(m) = nm
  BY DEF Surface!SnapshotTools
<1>3. media \in streams /\ toolOf(media) = nm
  BY <1>2
<1>4. ASSUME NEW m \in Seq(Part), m # <<>>
      PROVE  \A p \in {<<Head(m)>>, m} :
                 /\ p \o <<"snapshot">> \in Seq(Part) /\ p \o <<"snapshot">> # <<>>
                 /\ Head(p \o <<"snapshot">>) = Head(m)
  <2>1. Head(m) \in Part
    BY <1>4, HeadTailProperties
  <2>2. <<Head(m)>> \in Seq(Part) /\ <<Head(m)>> # <<>> /\ Head(<<Head(m)>>) = Head(m)
    BY <2>1, OnePart
  <2> QED BY <1>4, <2>2, WithSuffix
<1>5. toolOf(media) \in {p \o <<"snapshot">> : p \in {<<Head(media)>>, media}}
  OBVIOUS
<1> HIDE DEF toolOf, media, streams
<1>6. media \in Seq(Part) /\ media # <<>>
  BY <1>1, <1>3
<1> QED BY <1>3, <1>4, <1>5, <1>6 DEF media

LEMMA FleetInit == Surface!Init => FleetKept /\ SignedIn
<1> SUFFICES ASSUME Surface!Init PROVE FleetKept /\ SignedIn
  OBVIOUS
<1>1. things \in Seq(Descriptions) /\ \A t \in Surface!Elements(things) : t \in Descriptions
  <2>1. things \in Seq(Descriptions)
    BY SurfaceFacts DEF Surface!Init, Surface!SurfaceAssumption
  <2> QED BY <2>1, LenProperties DEF Surface!Elements
<1>2. \A nm \in DOMAIN mediaTools :
          /\ nm \in Seq(Part) /\ mediaTools[nm] \in Seq(Part)
          /\ nm # <<>> /\ mediaTools[nm] # <<>> /\ Head(mediaTools[nm]) = Head(nm)
  <2>1. mediaTools = Surface!SnapshotTools(things)
    BY DEF Surface!Init
  <2> QED BY <1>1, <2>1, SnapshotsAreNamed
<1>3. \A slug \in DOMAIN gateway : gateway[slug] \in Descriptions
  <2>1. gateway = <<>> \/ gateway = Surface!SlugTable(things)
    BY DEF Surface!Init
  <2>2. CASE gateway = <<>>
    BY <2>2
  <2>3. CASE gateway = Surface!SlugTable(things)
    <3>1. DOMAIN gateway = {t.slug : t \in Surface!Elements(things)}
          /\ \A slug \in DOMAIN gateway :
                 gateway[slug] = CHOOSE t \in Surface!Elements(things) : t.slug = slug
      BY <2>3 DEF Surface!SlugTable
    <3> QED BY <1>1, <3>1
  <2> QED BY <2>1, <2>2, <2>3
<1>4. /\ DOMAIN security = {t.id : t \in Surface!Elements(things)}
      /\ \A id \in DOMAIN security :
             security[id] = (CHOOSE t \in Surface!Elements(things) : t.id = id).scheme
  BY DEF Surface!Init
<1>5. \A id \in DOMAIN security : \E t \in Surface!Elements(things) : t.id = id /\ t.scheme = security[id]
  BY <1>4
<1>6. ASSUME NEW ids, NEW c \in Calls
      PROVE  Known(ids, call[c]) /\ Admitted(Surface!Flat, connected, call[c])
  <2>1. call[c] = Surface!Idle
    BY DEF Surface!Init
  <2>2. /\ DOMAIN call[c] = {"phase", "tool", "alone", "view", "target", "signed"} /\ call[c].phase = "idle"
        /\ call[c].tool.name = <<>> /\ call[c].view = <<>>
    BY <2>1 DEF Surface!Idle, Surface!NothingListed, Surface!Tool
  <2>3. \A t \in Surface!Elements(call[c].view) : FALSE
    BY <2>2 DEF Surface!Elements
  <2> QED BY <2>2, <2>3 DEF Known, Admitted
<1>7. DOMAIN call = Calls /\ vocabulary = Surface!Grantable(things)
  BY DEF Surface!Init
<1> QED BY <1>1, <1>2, <1>3, <1>4, <1>5, <1>6, <1>7 DEF FleetKept, SignedIn, Named

\* "Keep authorization in lockstep with the fleet": nothing is permitted that the fleet
\* does not offer now, and what is sent carries the security its Thing declares now
\* (add_things, AuthMixin).
THEOREM PermittedAsTheFleetIs == Surface!Spec => FollowsTheFleet
<1>1. FleetKept /\ SignedIn /\ [Surface!Next]_Surface!vars =>
          [\A c \in Calls :
              /\ call[c].phase # "calling" /\ call'[c].phase = "calling" =>
                    \A r \in call'[c].target : <<r.of.id, r.aff, r.op>> \in Surface!Grantable(things)
              /\ call[c].phase # "sent" /\ call'[c].phase = "sent" =>
                    \A r \in call'[c].target : \E t \in Surface!Elements(things) :
                        t.id = r.of.id /\ call'[c].signed = t.scheme]_Surface!vars
  <2> SUFFICES ASSUME FleetKept, SignedIn, [Surface!Next]_Surface!vars, NEW c \in Calls
               PROVE  /\ call[c].phase # "calling" /\ call'[c].phase = "calling" =>
                            \A r \in call'[c].target : <<r.of.id, r.aff, r.op>> \in Surface!Grantable(things)
                      /\ call[c].phase # "sent" /\ call'[c].phase = "sent" =>
                            \A r \in call'[c].target : \E t \in Surface!Elements(things) :
                                t.id = r.of.id /\ call'[c].signed = t.scheme
    OBVIOUS
  <2>1. Permits(c) /\ Signs(c)
    BY FleetStep
  <2> QED BY <2>1 DEF Permits, Signs
<1> QED BY <1>1, FleetInit, FleetStep, PTL DEF Surface!Spec, FollowsTheFleet, Surface!FollowsTheFleet

\* A call of a tool whose Thing needed a sign-in when it arrived is not sent without
\* one, but for a snapshot in gateway mode (call_tool, ensure_connected).
THEOREM NotSentUnsigned == Surface!Spec => []SignedInBeforeSent
<1>1. SignedIn => SignedInBeforeSent
  BY DEF SignedIn, Admitted, SignedInBeforeSent, Surface!SignedInBeforeSent
<1> QED BY <1>1, FleetInit, FleetStep, PTL DEF Surface!Spec
------------------------------------------------------------------------------
(* A listed tool reaches what was listed.                                  *)

\* A name starts with a slug, and the rest of it names an affordance.
LEMMA FirstComesOff ==
    ASSUME NEW first \in Part, NEW n \in Seq(Part)
    PROVE  /\ <<first>> \o n \in Seq(Part) /\ <<first>> \o n # <<>>
           /\ Head(<<first>> \o n) = first /\ Tail(<<first>> \o n) = n
<1> DEFINE one == <<first>>
           name == one \o n
<1>1. one \in Seq(Part) /\ Len(one) = 1 /\ one[1] = first
  OBVIOUS
<1> HIDE DEF one
<1>2. /\ name \in Seq(Part) /\ Len(name) = 1 + Len(n) /\ Len(n) \in Nat
      /\ \A i \in 1 .. 1 + Len(n) : name[i] = IF i <= 1 THEN one[i] ELSE n[i - 1]
  <2>1. /\ name \in Seq(Part) /\ Len(name) = Len(one) + Len(n)
        /\ \A i \in 1 .. Len(one) + Len(n) :
              name[i] = IF i <= Len(one) THEN one[i] ELSE n[i - Len(one)]
    BY <1>1, ConcatProperties
  <2>2. Len(n) \in Nat
    BY LenProperties
  <2> HIDE DEF name
  <2> QED BY <1>1, <2>1, <2>2
<1> HIDE DEF name
<1>3. name # <<>> /\ Head(name) = first
  <2>1. Len(name) # 0 /\ name[1] = first
    BY <1>1, <1>2
  <2>2. Head(name) = name[1]
    OBVIOUS
  <2> QED BY <2>1, <2>2, EmptySeq
<1>4. Tail(name) = n
  <2>1. /\ Tail(name) \in Seq(Part) /\ Len(Tail(name)) = Len(n)
        /\ \A i \in 1 .. Len(Tail(name)) : Tail(name)[i] = name[i + 1]
    BY <1>2, <1>3, HeadTailProperties
  <2>2. \A i \in 1 .. Len(n) : Tail(name)[i] = n[i]
    BY <1>2, <2>1
  <2> QED BY <2>1, <2>2, SeqEqual
<1> QED BY <1>2, <1>3, <1>4 DEF name, one

LEMMA NameParts ==
    ASSUME NEW t \in Descriptions, NEW n \in DOMAIN t.affs
    PROVE  /\ t.slug \in Part /\ n \in Seq(Part)
           /\ Surface!Name(t, n) \in Seq(Part) /\ Surface!Name(t, n) # <<>>
           /\ Head(Surface!Name(t, n)) = t.slug /\ Tail(Surface!Name(t, n)) = n
<1>1. t.slug \in Part /\ n \in Seq(Part)
  <2>1. t.slug \in STRING /\ n \in Seq(STRING) /\ STRING \subseteq Part
    BY SurfaceFacts DEF Surface!SurfaceAssumption, Part
  <2> QED BY <2>1, SeqMonotonic
<1> QED BY <1>1, FirstComesOff DEF Surface!Name

LEMMA PartsOfName ==
    ASSUME NEW nm \in Seq(Part), nm # <<>>
    PROVE  /\ nm = <<Head(nm)>> \o Tail(nm)
           /\ Head(nm) \in Part /\ Tail(nm) \in Seq(Part)
<1>1. Len(nm) \in Nat /\ Len(nm) >= 1
  BY LenProperties, EmptySeq
<1>2. 1 \in 1 .. Len(nm) /\ Len(nm) \in 1 .. Len(nm)
  BY <1>1
<1>3. SubSeq(nm, 1, Len(nm)) = <<nm[1]>> \o SubSeq(nm, 2, Len(nm))
  BY <1>2, SubSeqRecursiveFirst
<1> QED BY <1>3, SubSeqFull, TailIsSubSeq, HeadTailProperties

\* A suffix is the end of the name it makes, and comes off again.
LEMMA SuffixComesOff ==
    ASSUME NEW nm \in Seq(Part), NEW x \in Part
    PROVE  /\ nm \o <<x>> # <<>> /\ Surface!Base(nm \o <<x>>) = nm
           /\ (nm \o <<x>>)[Len(nm \o <<x>>)] = x
<1> DEFINE long == nm \o <<x>>
<1>1. long = Append(nm, x)
  BY AppendIsConcat
<1>2. /\ long \in Seq(Part) /\ long # <<>> /\ Len(long) = Len(nm) + 1 /\ Len(nm) \in Nat
      /\ long[Len(nm) + 1] = x
  BY <1>1, AppendProperties, LenProperties
<1>3. SubSeq(long, 1, Len(nm)) = nm
  <2>1. CASE Len(nm) = 0
    BY <2>1, EmptySeq, SubSeqEmpty
  <2>2. CASE Len(nm) # 0
    <3>1. 1 \in 1 .. Len(nm) /\ Len(nm) \in 1 .. Len(nm)
      BY <1>2, <2>2
    <3>2. <<x>> \in Seq(Part)
      BY OnePart
    <3>3. SubSeq(long, 1, Len(nm)) = SubSeq(nm, 1, Len(nm))
      BY <3>1, <3>2, SubSeqOfConcat1
    <3> QED BY <3>3, SubSeqFull
  <2> QED BY <2>1, <2>2
<1>4. Surface!Base(long) = nm
  <2>1. Len(long) - 1 = Len(nm)
    BY <1>2
  <2> QED BY <1>3, <2>1 DEF Surface!Base
<1> QED BY <1>2, <1>4

\* A Thing that has its slug for itself is what the names of the slug reach.
LEMMA OnlyHolder ==
    ASSUME NEW ths \in Seq(Descriptions), NEW t, Surface!Alone(t, ths),
           NEW kind, NEW name, name # <<>>, Head(name) = t.slug
    PROVE  Surface!Holder(ths, kind, name) =
               IF Tail(name) \in DOMAIN t.affs /\ t.affs[Tail(name)].kind = kind THEN {t} ELSE {}
<1> DEFINE having == {i \in DOMAIN ths : /\ name # <<>> /\ Head(name) = ths[i].slug
                                         /\ Tail(name) \in DOMAIN ths[i].affs
                                         /\ ths[i].affs[Tail(name)].kind = kind}
           named == Tail(name) \in DOMAIN t.affs /\ t.affs[Tail(name)].kind = kind
<1>1. \A u \in Surface!Holder(ths, kind, name) : u = t /\ named
  <2>1. \A u \in Surface!Elements(ths) : u.slug = t.slug => u = t
    BY DEF Surface!Alone
  <2> QED BY <2>1, OneHolder
<1>2. ASSUME named PROVE t \in Surface!Holder(ths, kind, name)
  <2>1. DOMAIN ths = 1 .. Len(ths) /\ Len(ths) \in Nat
    BY LenProperties
  <2>2. PICK k \in DOMAIN ths : ths[k] = t
    BY DEF Surface!Alone, Surface!Elements
  <2> DEFINE after == {Len(ths) - i : i \in having}
  <2>3. after \subseteq Nat
    BY <2>1
  <2>4. k \in having
    BY <1>2, <2>2
  <2>5. after # {}
    BY <2>4
  <2> HIDE DEF after
  <2>6. PICK m \in after : \A j \in after : ~ (<<j, m>> \in OpToRel(<, Nat))
    BY <2>3, <2>5, WFMin, NatLessThanWellFounded
  <2> USE DEF after
  <2>7. PICK last \in having : m = Len(ths) - last
    BY <2>6
  <2>8. ASSUME NEW j \in having PROVE j <= last
    <3>1. Len(ths) - j \in after /\ Len(ths) - j \in Nat /\ m \in Nat
      BY <2>3, <2>6
    <3> HIDE DEF after
    <3>2. ~ (Len(ths) - j < m)
      BY <2>6, <3>1 DEF OpToRel
    <3>3. j \in Nat /\ last \in Nat
      BY <2>1
    <3> QED BY <2>1, <2>7, <3>2, <3>3
  <2>9. ths[last] = t
    BY DEF Surface!Alone, Surface!Elements
  <2> HIDE DEF after
  <2> QED BY <2>8, <2>9 DEF Surface!Holder
<1> QED BY <1>1, <1>2

LEMMA OnlyReached ==
    ASSUME NEW ths \in Seq(Descriptions), NEW t \in Descriptions, Surface!Alone(t, ths),
           NEW name, name # <<>>, Head(name) = t.slug, Tail(name) \in DOMAIN t.affs
    PROVE  LET a == t.affs[Tail(name)] IN
           /\ a.kind \in {"property", "action", "event"}
           /\ \A kind : Surface!Routed(ths, kind, name) = IF a.kind = kind /\ ~a.media THEN {t} ELSE {}
           /\ Surface!Media(ths, name) = IF a.media THEN {t} ELSE {}
           /\ a.media => Surface!Frames(ths, name) =
                             {[of |-> t, aff |-> Tail(name), op |-> Surface!MediaOp[a.kind]]}
<1> DEFINE a == t.affs[Tail(name)]
<1>1. a.kind \in {"property", "action", "event"}
  BY SurfaceFacts DEF Surface!SurfaceAssumption
<1>2. \A kind : Surface!Holder(ths, kind, name) = IF a.kind = kind THEN {t} ELSE {}
  BY OnlyHolder
<1>3. \A kind : Surface!Routed(ths, kind, name) = IF a.kind = kind /\ ~a.media THEN {t} ELSE {}
  BY <1>2 DEF Surface!Routed
<1>4. Surface!Media(ths, name) = IF a.media THEN {t} ELSE {}
  <2> DEFINE watched(kind) == {u \in Surface!Holder(ths, kind, name) : u.affs[Tail(name)].media}
  <2>1. \A kind : watched(kind) = IF a.kind = kind /\ a.media THEN {t} ELSE {}
    BY <1>2
  <2>2. Surface!Media(ths, name) =
            IF watched("property") # {} THEN watched("property")
            ELSE IF watched("event") # {} THEN watched("event") ELSE watched("action")
    BY DEF Surface!Media
  <2> HIDE DEF watched
  <2> QED BY <1>1, <2>1, <2>2
<1>5. a.media => Surface!Frames(ths, name) =
                     {[of |-> t, aff |-> Tail(name), op |-> Surface!MediaOp[a.kind]]}
  BY <1>4 DEF Surface!Frames, Surface!Reach
<1> QED BY <1>1, <1>3, <1>4, <1>5

\* A call by a name, or by a name and its suffix, comes to the affordance of the name.
LEMMA CalledAsNamed ==
    ASSUME NEW ths \in Seq(Descriptions), NEW t \in Descriptions, Surface!Alone(t, ths),
           NEW n \in DOMAIN t.affs, ~t.affs[n].media
    PROVE  LET name == Surface!Name(t, n)
               one(op) == {[of |-> t, aff |-> n, op |-> op]}
           IN  /\ t.affs[n].kind = "action" =>
                     /\ Surface!CallTool(ths, name) = one("invokeaction")
                     /\ Surface!CallTool(ths, name \o <<"cancel">>) = one("cancelaction")
               /\ t.affs[n].kind = "property" =>
                     Surface!CallTool(ths, name \o <<"set">>) = one("writeproperty")
<1> DEFINE name == Surface!Name(t, n)
           one(op) == {[of |-> t, aff |-> n, op |-> op]}
<1>1. name \in Seq(Part) /\ name # <<>> /\ Head(name) = t.slug /\ Tail(name) = n
  BY NameParts
<1> HIDE DEF name
<1>2. \A kind : Surface!Routed(ths, kind, name) = IF t.affs[n].kind = kind THEN {t} ELSE {}
  <2>1. Tail(name) \in DOMAIN t.affs /\ ~t.affs[Tail(name)].media
    BY <1>1
  <2>2. \A kind : Surface!Routed(ths, kind, name) =
                     IF t.affs[Tail(name)].kind = kind /\ ~t.affs[Tail(name)].media THEN {t} ELSE {}
    BY <1>1, <2>1, OnlyReached
  <2> QED BY <1>1, <2>1, <2>2
<1>3. \A op : Surface!Reach({t}, n, op) = one(op)
  BY DEF Surface!Reach
<1>4. ASSUME t.affs[n].kind = "action" PROVE Surface!CallTool(ths, name) = one("invokeaction")
  <2> DEFINE base == Surface!Base(name)
  <2>1. ASSUME NEW kind, NEW u \in Surface!Routed(ths, kind, base)
        PROVE  /\ Tail(base) \in DOMAIN t.affs /\ t.affs[Tail(base)].kind = kind
               /\ n = Tail(base) \o <<name[Len(name)]>>
    <3>1. u \in Surface!Holder(ths, kind, base)
      BY <2>1 DEF Surface!Routed
    <3>2. /\ u \in Surface!Elements(ths) /\ base # <<>> /\ u.slug = Head(base)
          /\ Tail(base) \in DOMAIN u.affs /\ u.affs[Tail(base)].kind = kind
      BY <3>1, OneHolder
    <3>3. Head(base) = Head(name) /\ Tail(name) = Tail(base) \o <<name[Len(name)]>>
      BY <1>1, <3>2, BaseOfName
    <3>4. u = t
      BY <1>1, <3>2, <3>3 DEF Surface!Alone
    <3> QED BY <1>1, <3>2, <3>3, <3>4
  <2>2. \A m \in DOMAIN t.affs :
            /\ m \o <<"set">> \in DOMAIN t.affs => t.affs[m].kind # "property"
            /\ m \o <<"get">> \in DOMAIN t.affs => t.affs[m].kind # "property"
            /\ m \o <<"cancel">> \in DOMAIN t.affs => t.affs[m].kind # "action"
    BY SurfaceFacts DEF Surface!SurfaceAssumption
  <2> HIDE DEF base
  <2>3. ~ (Surface!Ends(name, "cancel") /\ Surface!Routed(ths, "action", base) # {})
    <3> SUFFICES ASSUME name[Len(name)] = "cancel", NEW u \in Surface!Routed(ths, "action", base)
                 PROVE  FALSE
      BY DEF Surface!Ends
    <3> QED BY <2>1, <2>2
  <2>4. \A x \in {"set", "get"} :
            ~ (Surface!Ends(name, x) /\ Surface!Routed(ths, "property", base) # {})
    <3> SUFFICES ASSUME name[Len(name)] \in {"set", "get"},
                        NEW u \in Surface!Routed(ths, "property", base)
                 PROVE  FALSE
      BY DEF Surface!Ends
    <3> QED BY <2>1, <2>2
  <2>5. Surface!CallTool(ths, name) =
            Surface!Reach(Surface!Routed(ths, "action", name), Tail(name), "invokeaction")
    BY <2>3, <2>4 DEF Surface!CallTool, base
  <2> QED BY <1>1, <1>2, <1>3, <1>4, <2>5
<1>5. \A x \in {"cancel", "set"} :
          Surface!Base(name \o <<x>>) = name /\ \A y : Surface!Ends(name \o <<x>>, y) <=> x = y
  <2> TAKE x \in {"cancel", "set"}
  <2>1. x \in Part
    BY DEF Part
  <2> QED BY <1>1, <2>1, SuffixComesOff DEF Surface!Ends
<1>6. ASSUME t.affs[n].kind = "action"
      PROVE  Surface!CallTool(ths, name \o <<"cancel">>) = one("cancelaction")
  <2> DEFINE long == name \o <<"cancel">>
  <2>1. Surface!Base(long) = name /\ \A y : Surface!Ends(long, y) <=> y = "cancel"
    BY <1>5
  <2> HIDE DEF long
  <2>2. Surface!CallTool(ths, long) = Surface!Reach(Surface!Routed(ths, "action", name), Tail(name), "cancelaction")
    BY <1>2, <1>6, <2>1 DEF Surface!CallTool
  <2> QED BY <1>1, <1>2, <1>3, <1>6, <2>2 DEF long
<1>7. ASSUME t.affs[n].kind = "property"
      PROVE  Surface!CallTool(ths, name \o <<"set">>) = one("writeproperty")
  <2> DEFINE long == name \o <<"set">>
  <2>1. Surface!Base(long) = name /\ \A y : Surface!Ends(long, y) <=> y = "set"
    BY <1>5
  <2> HIDE DEF long
  <2>2. Surface!CallTool(ths, long) = Surface!Reach(Surface!Routed(ths, "property", name), Tail(name), "writeproperty")
    BY <1>2, <1>7, <2>1 DEF Surface!CallTool
  <2> QED BY <1>1, <1>2, <1>3, <1>7, <2>2 DEF long
<1> QED BY <1>4, <1>6, <1>7 DEF name

\* A snapshot tool is named after its stream, or after the slug of its stream.
SnapshotsAreOfStreams ==
    \A nm \in DOMAIN mediaTools : \E u \in Descriptions : LET m == mediaTools[nm] IN
        /\ m # <<>> /\ u.slug = Head(m) /\ Tail(m) \in DOMAIN u.affs /\ u.affs[Tail(m)].media
        /\ nm = <<Head(m)>> \o <<"snapshot">> \/ nm = m \o <<"snapshot">>

\* What a tool that is not of a stream is named, and the operation it has.
NamedByOp(flat, w, a, name) ==
    \/ a.kind = "action" /\ w.op = "invokeaction" /\ w.name = name
    \/ flat /\ a.kind = "action" /\ w.op = "cancelaction" /\ w.name = name \o <<"cancel">>
    \/ flat /\ a.kind = "property" /\ w.op = "writeproperty" /\ w.name = name \o <<"set">>
    \/ ~flat /\ a.kind = "property" /\ w.op \in {"readproperty", "writeproperty"} /\ w.name = name

\* What a listing gave a call, kept for as long as the call is.
Offered(q) ==
    LET w == q.tool
        a == w.of.affs[w.aff]
        name == Surface!Name(w.of, w.aff)
        ofStream == a.media /\ w.op = Surface!MediaOp[a.kind]
    IN  /\ w.of \in Descriptions /\ w.aff \in DOMAIN w.of.affs
        /\ Surface!Flat =>
              \/ w.name \in DOMAIN mediaTools /\ mediaTools[w.name] = name /\ ofStream
              \/ w.name \notin DOMAIN mediaTools /\ ~a.media /\ NamedByOp(TRUE, w, a, name)
        /\ ~Surface!Flat =>
              /\ w.name = name /\ w.of.slug \in DOMAIN gateway /\ gateway[w.of.slug] = w.of
              /\ q.alone => ofStream \/ (~a.media /\ NamedByOp(FALSE, w, a, name))

\* A call in flight has a tool that was offered.
ToolsWereOffered ==
    /\ SnapshotsAreOfStreams /\ \A slug \in DOMAIN gateway : gateway[slug].slug = slug
    /\ \A c \in Calls : call[c].phase # "idle" => Offered(call[c])

\* No name of the surface is that of a snapshot tool.
LEMMA NotASnapshot ==
    ASSUME Named, SnapshotsAreOfStreams, NEW t \in Descriptions, NEW n \in DOMAIN t.affs
    PROVE  /\ Surface!Name(t, n) \notin DOMAIN mediaTools
           /\ \A x \in {"cancel", "set"} : Surface!Name(t, n) \o <<x>> \notin DOMAIN mediaTools
<1> DEFINE name == Surface!Name(t, n)
           Snapshot == "snapshot"
           Of(nm, m, p) == /\ m \in Seq(Part) /\ m # <<>> /\ p \in {<<Head(m)>>, m} /\ nm = p \o <<Snapshot>>
                           /\ \E u \in Descriptions :
                                 u.slug = Head(m) /\ Tail(m) \in DOMAIN u.affs /\ u.affs[Tail(m)].media
<1>1. name \in Seq(Part) /\ name # <<>> /\ Head(name) = t.slug /\ Tail(name) = n
  BY NameParts
<1>2. \A nm \in DOMAIN mediaTools : \E m, p : Of(nm, m, p)
  BY DEF Named, SnapshotsAreOfStreams
<1>3. \A x \in {"cancel", "set", "snapshot"} : x \in Part
  BY DEF Part
<1>4. ASSUME NEW m \in Seq(Part), m # <<>>, NEW p \in {<<Head(m)>>, m}
      PROVE  /\ p \in Seq(Part) /\ Head(p \o <<Snapshot>>) = Head(m)
             /\ Tail(p \o <<Snapshot>>) \in {<<Snapshot>>, Tail(m) \o <<Snapshot>>}
  <2>1. m = <<Head(m)>> \o Tail(m) /\ Head(m) \in Part /\ Tail(m) \in Seq(Part)
    BY <1>4, PartsOfName
  <2>2. <<Snapshot>> \in Seq(Part) /\ <<Head(m)>> \in Seq(Part)
    BY <1>3, <2>1, OnePart
  <2>3. CASE p = <<Head(m)>>
    <3>1. Head(<<Head(m)>> \o <<Snapshot>>) = Head(m) /\ Tail(<<Head(m)>> \o <<Snapshot>>) = <<Snapshot>>
      BY <2>1, <2>2, FirstComesOff
    <3> QED BY <2>2, <2>3, <3>1
  <2>4. CASE p = m
    <3> DEFINE rest == Tail(m) \o <<Snapshot>>
    <3>1. (<<Head(m)>> \o Tail(m)) \o <<Snapshot>> = <<Head(m)>> \o rest
      BY <2>1, <2>2, ConcatAssociative
    <3>2. m \o <<Snapshot>> = (<<Head(m)>> \o Tail(m)) \o <<Snapshot>>
      BY <2>1
    <3>3. rest \in Seq(Part)
      BY <2>1, <2>2, ConcatProperties
    <3> HIDE DEF rest
    <3>4. Head(<<Head(m)>> \o rest) = Head(m) /\ Tail(<<Head(m)>> \o rest) = rest
      BY <2>1, <3>3, FirstComesOff
    <3> QED BY <2>4, <3>1, <3>2, <3>4 DEF rest
  <2> QED BY <2>3, <2>4
<1>5. ASSUME NEW m, NEW p, Of(name, m, p) PROVE FALSE
  <2>1. PICK u \in Descriptions : u.slug = Head(m) /\ Tail(m) \in DOMAIN u.affs /\ u.affs[Tail(m)].media
    BY <1>5
  <2>2. t.slug = u.slug /\ n \in {<<Snapshot>>, Tail(m) \o <<Snapshot>>}
    <3>1. m \in Seq(Part) /\ m # <<>> /\ p \in {<<Head(m)>>, m} /\ name = p \o <<Snapshot>>
      BY <1>5
    <3>2. /\ Head(p \o <<Snapshot>>) = Head(m)
          /\ Tail(p \o <<Snapshot>>) \in {<<Snapshot>>, Tail(m) \o <<Snapshot>>}
      BY <1>4, <3>1
    <3> HIDE DEF name
    <3> QED BY <1>1, <2>1, <3>1, <3>2
  <2>3. <<"snapshot">> \notin DOMAIN t.affs /\ Tail(m) \o <<"snapshot">> \notin DOMAIN t.affs
    BY <2>1, <2>2, SurfaceFacts DEF Surface!SurfaceAssumption
  <2> QED BY <2>2, <2>3
<1>6. ASSUME NEW x \in {"cancel", "set"}, NEW m, NEW p, Of(name \o <<x>>, m, p) PROVE FALSE
  <2>1. p \in Seq(Part) /\ name \o <<x>> = p \o <<Snapshot>>
    BY <1>4, <1>6
  <2>2. (name \o <<x>>)[Len(name \o <<x>>)] = x
    BY <1>1, <1>3, SuffixComesOff
  <2>3. (p \o <<Snapshot>>)[Len(p \o <<Snapshot>>)] = Snapshot
    BY <1>3, <2>1, SuffixComesOff
  <2> HIDE DEF name
  <2> QED BY <2>1, <2>2, <2>3
<1> HIDE DEF Of, name
<1>7. name \notin DOMAIN mediaTools
  BY <1>2, <1>5
<1>8. \A x \in {"cancel", "set"} : name \o <<x>> \notin DOMAIN mediaTools
  BY <1>2, <1>6
<1> QED BY <1>7, <1>8 DEF name

\* What a listing gives a call is what it offers.
LEMMA ListingOffers ==
    ASSUME Named, SnapshotsAreOfStreams, \A slug \in DOMAIN gateway : gateway[slug].slug = slug,
           NEW w \in IF Surface!Flat THEN Surface!Listed ELSE Surface!Described,
           NEW q, q.tool = w, q.alone => Surface!Alone(w.of, things)
    PROVE  Offered(q)
<1> DEFINE a == w.of.affs[w.aff]
           name == Surface!Name(w.of, w.aff)
           ofStream == a.media /\ w.op = Surface!MediaOp[a.kind]
<1>0. things \in Seq(Descriptions)
  BY DEF Named
<1>1. ASSUME Surface!Flat, NEW nm \in Surface!Names(things), w \in Surface!Surface(nm), w.op # "readproperty"
      PROVE  Offered(q)
  <2>1. nm \in Seq(Part) /\ nm # <<>>
    BY <1>0, <1>1, NamesAreNames
  <2>2. \A kind : \A t \in Surface!Routed(things, kind, nm) :
            /\ t \in Descriptions /\ t.slug = Head(nm) /\ Tail(nm) \in DOMAIN t.affs
            /\ t.affs[Tail(nm)].kind = kind /\ ~t.affs[Tail(nm)].media
    BY <1>0, OneHolder DEF Surface!Routed
  <2>3. \E kind \in {"action", "property"} :
            /\ w.of \in Surface!Routed(things, kind, nm) /\ w.aff = Tail(nm)
            /\ \/ kind = "action" /\ w.op = "invokeaction" /\ w.name = nm
               \/ kind = "action" /\ w.op = "cancelaction" /\ w.name = nm \o <<"cancel">>
               \/ kind = "property" /\ w.op = "writeproperty" /\ w.name = nm \o <<"set">>
    BY <1>1 DEF Surface!Surface, Surface!Tool
  <2>4. w.of \in Descriptions /\ w.of.slug = Head(nm) /\ w.aff = Tail(nm) /\ w.aff \in DOMAIN w.of.affs /\ ~a.media
    BY <2>2, <2>3
  <2>5. name = nm
    BY <2>1, <2>4, PartsOfName DEF Surface!Name
  <2>6. NamedByOp(TRUE, w, a, nm)
    BY <2>2, <2>3, <2>4 DEF NamedByOp
  <2>7. w.name \notin DOMAIN mediaTools
    BY <2>3, <2>4, <2>5, NotASnapshot
  <2> HIDE DEF a, name
  <2> QED BY <1>1, <2>4, <2>5, <2>6, <2>7 DEF Offered, a, name
<1>2. ASSUME Surface!Flat, NEW nm \in DOMAIN mediaTools, NEW r \in Surface!Frames(things, mediaTools[nm]),
             w = Surface!Tool(nm, r.aff, r.op, r.of)
      PROVE  Offered(q)
  <2> DEFINE m == mediaTools[nm]
  <2>1. w.name = nm /\ w.of = r.of /\ w.aff = r.aff /\ w.op = r.op
    BY <1>2 DEF Surface!Tool
  <2>2. m \in Seq(Part) /\ m # <<>>
    BY DEF Named
  <2>3. r.of \in Surface!Media(things, m) /\ r.aff = Tail(m) /\ r.op = Surface!MediaOp[r.of.affs[Tail(m)].kind]
    BY DEF Surface!Frames, Surface!Reach
  <2>4. w.of \in Descriptions /\ w.of.slug = Head(m) /\ w.aff = Tail(m) /\ w.aff \in DOMAIN w.of.affs /\ ofStream
    BY <1>0, <2>1, <2>3, OneMedia
  <2>5. name = m
    BY <2>2, <2>4, PartsOfName DEF Surface!Name
  <2> HIDE DEF a, name
  <2> QED BY <1>2, <2>1, <2>4, <2>5 DEF Offered, a, name
<1>3. ASSUME ~Surface!Flat PROVE Offered(q)
  <2> DEFINE offeredBy(t, n, nm) ==
                IF Surface!Media(things, nm) # {}
                THEN {Surface!Tool(nm, n, Surface!MediaOp[t.affs[n].kind], t)}
                ELSE {Surface!Tool(nm, n, op, t) : op \in
                        CASE t.affs[n].kind = "action" -> {"invokeaction"}
                          [] t.affs[n].kind = "property" ->
                                {x \in {"readproperty"} : Surface!Readable(t.affs[n])}
                                \cup {x \in {"writeproperty"} : Surface!Writable(t.affs[n])}
                          [] t.affs[n].kind = "event" -> {}}
  <2>0. PICK slug \in DOMAIN gateway : \E n \in DOMAIN gateway[slug].affs :
            w \in offeredBy(gateway[slug], n, Surface!Name(gateway[slug], n))
    <3>1. Surface!Described = UNION {UNION {offeredBy(gateway[slug], n, Surface!Name(gateway[slug], n))
                                            : n \in DOMAIN gateway[slug].affs} : slug \in DOMAIN gateway}
      BY DEF Surface!Described
    <3> HIDE DEF offeredBy
    <3> QED BY <1>3, <3>1
  <2> DEFINE t == gateway[slug]
  <2>1. PICK n \in DOMAIN t.affs : w \in offeredBy(t, n, Surface!Name(t, n))
    BY <2>0
  <2> DEFINE nm == Surface!Name(t, n)
  <2>2. t \in Descriptions /\ t.slug = slug /\ n \in DOMAIN t.affs
    BY DEF Named
  <2>3. t.affs[n].kind \in {"property", "action", "event"}
    BY <2>2, SurfaceFacts DEF Surface!SurfaceAssumption
  <2> HIDE DEF t, nm
  <2>4. w.name = nm /\ w.of = t /\ w.aff = n
    <3>1. w \in offeredBy(t, n, nm)
      BY <2>1 DEF t, nm
    <3> QED BY <3>1 DEF Surface!Tool
  <2>5. IF Surface!Media(things, nm) # {} THEN w.op = Surface!MediaOp[t.affs[n].kind]
        ELSE \/ t.affs[n].kind = "action" /\ w.op = "invokeaction"
             \/ t.affs[n].kind = "property" /\ w.op \in {"readproperty", "writeproperty"}
    <3>1. w \in offeredBy(t, n, nm)
      BY <2>1 DEF t, nm
    <3> QED BY <2>3, <3>1 DEF Surface!Tool
  <2>6. ASSUME q.alone
        PROVE  Surface!Media(things, nm) = IF t.affs[n].media THEN {t} ELSE {}
    <3>1. nm # <<>> /\ Head(nm) = t.slug /\ Tail(nm) = n
      BY <2>2, NameParts DEF nm
    <3>2. Surface!Alone(t, things)
      BY <2>4, <2>6
    <3>3. Tail(nm) \in DOMAIN t.affs
      BY <2>2, <3>1
    <3>4. Surface!Media(things, nm) = IF t.affs[Tail(nm)].media THEN {t} ELSE {}
      BY <1>0, <2>2, <3>1, <3>2, <3>3, OnlyReached
    <3> QED BY <3>1, <3>4
  <2>7. q.alone => ofStream \/ (~a.media /\ NamedByOp(FALSE, w, a, nm))
    BY <2>4, <2>5, <2>6 DEF NamedByOp
  <2>8. w.of \in Descriptions /\ w.aff \in DOMAIN w.of.affs /\ w.of.slug \in DOMAIN gateway
        /\ gateway[w.of.slug] = w.of /\ w.name = name
    BY <2>2, <2>4 DEF t, nm
  <2>9. nm = name
    BY <2>4 DEF nm
  <2> HIDE DEF a, name
  <2> QED BY <1>3, <2>7, <2>8, <2>9 DEF Offered, a, name
<1>4. CASE Surface!Flat
  <2>1. \/ \E nm \in Surface!Names(things) : w \in Surface!Surface(nm) /\ w.op # "readproperty"
        \/ \E nm \in DOMAIN mediaTools : \E r \in Surface!Frames(things, mediaTools[nm]) :
               w = Surface!Tool(nm, r.aff, r.op, r.of)
    BY <1>4 DEF Surface!Listed
  <2> QED BY <1>1, <1>2, <1>4, <2>1
<1> QED BY <1>3, <1>4

\* What a tool was listed as is what a call of it comes to.
LEMMA ResolvedAsListed ==
    ASSUME Named, \A slug \in DOMAIN gateway : gateway[slug].slug = slug,
           NEW q, Offered(q), Surface!Flat \/ q.alone, q.view \in Seq(Descriptions),
           Surface!Alone(q.tool.of, things), Surface!Alone(q.tool.of, q.view)
    PROVE  Surface!Resolved(q.tool, q.view) = {[of |-> q.tool.of, aff |-> q.tool.aff, op |-> q.tool.op]}
<1> DEFINE w == q.tool
           view == q.view
           t == w.of
           n == w.aff
           name == Surface!Name(t, n)
           a == t.affs[n]
           listed == {[of |-> t, aff |-> n, op |-> w.op]}
<1>0. things \in Seq(Descriptions) /\ t \in Descriptions /\ n \in DOMAIN t.affs
      /\ Surface!Alone(t, things) /\ Surface!Alone(t, view) /\ view \in Seq(Descriptions)
  BY DEF Named, Offered
<1>1. name # <<>> /\ Head(name) = t.slug /\ Tail(name) = n
  BY <1>0, NameParts
<1>2. a.media => Surface!Frames(things, name) = {[of |-> t, aff |-> n, op |-> Surface!MediaOp[a.kind]]}
  <2> HIDE DEF name, t, n
  <2>1. Tail(name) \in DOMAIN t.affs
    BY <1>0, <1>1
  <2>2. t.affs[Tail(name)].media => Surface!Frames(things, name) =
            {[of |-> t, aff |-> Tail(name), op |-> Surface!MediaOp[t.affs[Tail(name)].kind]]}
    BY <1>0, <1>1, <2>1, OnlyReached
  <2> QED BY <1>1, <2>2
<1>3. ASSUME Surface!Flat PROVE Surface!Resolved(w, view) = listed
  <2>1. CASE w.name \in DOMAIN mediaTools /\ mediaTools[w.name] = name /\ a.media /\ w.op = Surface!MediaOp[a.kind]
    <3>1. Surface!Resolved(w, view) = Surface!Frames(things, name)
      BY <1>3, <2>1 DEF Surface!Resolved
    <3> QED BY <1>2, <2>1, <3>1
  <2>2. CASE w.name \notin DOMAIN mediaTools /\ ~a.media /\ NamedByOp(TRUE, w, a, name)
    <3>1. Surface!Resolved(w, view) = Surface!CallTool(view, w.name)
      BY <1>3, <2>2 DEF Surface!Resolved
    <3>2. /\ a.kind = "action" =>
               /\ Surface!CallTool(view, name) = {[of |-> t, aff |-> n, op |-> "invokeaction"]}
               /\ Surface!CallTool(view, name \o <<"cancel">>) = {[of |-> t, aff |-> n, op |-> "cancelaction"]}
          /\ a.kind = "property" =>
               Surface!CallTool(view, name \o <<"set">>) = {[of |-> t, aff |-> n, op |-> "writeproperty"]}
      BY <1>0, <2>2, CalledAsNamed
    <3> HIDE DEF t, n, name, a
    <3> QED BY <2>2, <3>1, <3>2 DEF NamedByOp
  <2> QED BY <1>3, <2>1, <2>2 DEF Offered
<1>4. ASSUME ~Surface!Flat PROVE Surface!Resolved(w, view) = listed
  <2>1. /\ w.name = name /\ t.slug \in DOMAIN gateway /\ gateway[t.slug] = t
        /\ (a.media /\ w.op = Surface!MediaOp[a.kind]) \/ (~a.media /\ NamedByOp(FALSE, w, a, name))
    BY <1>4 DEF Offered
  <2>2. Surface!Resolved(w, view) = Surface!ByVerb(w)
    BY <1>4 DEF Surface!Resolved
  <2>3. Head(w.name) = t.slug /\ Tail(w.name) = n
    BY <1>1, <2>1
  <2>4. CASE a.media
    <3>1. Surface!ByVerb(w) = Surface!Frames(things, name)
      BY <2>1, <2>3, <2>4 DEF Surface!ByVerb
    <3> QED BY <1>2, <2>1, <2>2, <2>4, <3>1
  <2>5. CASE ~a.media /\ a.kind = "action" /\ w.op = "invokeaction"
    <3>1. Surface!ByVerb(w) = Surface!CallTool(things, name)
      BY <1>0, <2>1, <2>3, <2>5 DEF Surface!ByVerb
    <3>2. Surface!CallTool(things, name) = {[of |-> t, aff |-> n, op |-> "invokeaction"]}
      BY <1>0, <2>5, CalledAsNamed
    <3> QED BY <2>2, <2>5, <3>1, <3>2
  <2>6. CASE ~a.media /\ a.kind = "property" /\ w.op \in {"readproperty", "writeproperty"}
    <3>1. Surface!ByVerb(w) = Surface!Reach(Surface!Routed(things, "property", name), n, w.op)
      BY <1>0, <2>1, <2>3, <2>6 DEF Surface!ByVerb
    <3>2. Surface!Routed(things, "property", name) = {t}
      <4> HIDE DEF name, t, n
      <4>1. Tail(name) \in DOMAIN t.affs
        BY <1>0, <1>1
      <4>2. Surface!Routed(things, "property", name) =
                IF t.affs[Tail(name)].kind = "property" /\ ~t.affs[Tail(name)].media THEN {t} ELSE {}
        BY <1>0, <1>1, <4>1, OnlyReached
      <4> QED BY <1>1, <2>6, <4>2
    <3> QED BY <2>2, <3>1, <3>2 DEF Surface!Reach
  <2> QED BY <2>1, <2>4, <2>5, <2>6 DEF NamedByOp
<1> QED BY <1>3, <1>4

\* A call keeps its tool, and an offer is of what no step changes.
LEMMA OfferStep ==
    FleetKept /\ ToolsWereOffered /\ [Surface!Next]_Surface!vars => ToolsWereOffered'
<1> SUFFICES ASSUME FleetKept, ToolsWereOffered, [Surface!Next]_Surface!vars PROVE ToolsWereOffered'
  OBVIOUS
<1>0. /\ Named /\ DOMAIN call = Calls
      /\ \A c \in Calls : DOMAIN call[c] = {"phase", "tool", "alone", "view", "target", "signed"}
  BY DEF FleetKept, Known
<1>1. UNCHANGED <<gateway, mediaTools>>
  <2>1. ASSUME NEW d \in Calls,
               \/ Surface!Arrive(d) \/ Surface!Connect(d) \/ Surface!Dispatch(d) \/ Surface!Touch(d)
               \/ \E w : Surface!List(d, w)
        PROVE  UNCHANGED <<gateway, mediaTools>>
    BY <2>1 DEF Surface!List, Surface!Arrive, Surface!Connect, Surface!Dispatch, Surface!Touch
  <2>2. ASSUME NEW t, Surface!AddThings(t) PROVE UNCHANGED <<gateway, mediaTools>>
    BY <2>2 DEF Surface!AddThings, Surface!Describe
  <2>3. CASE UNCHANGED Surface!vars
    BY <2>3 DEF Surface!vars
  <2> QED BY <2>1, <2>2, <2>3 DEF Surface!Next
<1>2. ASSUME NEW c \in Calls, call'[c].phase # "idle" PROVE Offered(call'[c])
  <2>1. CASE call[c].phase # "idle" /\ call'[c].tool = call[c].tool /\ call'[c].alone = call[c].alone
    <3>1. Offered(call[c])
      BY <2>1 DEF ToolsWereOffered
    <3> QED BY <2>1, <3>1 DEF Offered
  <2>2. ASSUME NEW d \in Calls, NEW w \in IF Surface!Flat THEN Surface!Listed ELSE Surface!Described,
               Surface!List(d, w)
        PROVE  Offered(call'[c])
    <3>1. CASE c = d
      <4>1. call'[c].tool = w /\ call'[c].alone = Surface!Alone(w.of, things)
        BY <1>0, <2>2, <3>1 DEF Surface!List, Surface!Idle
      <4> QED BY <1>0, <2>2, <4>1, ListingOffers DEF ToolsWereOffered
    <3>2. CASE c # d
      BY <1>0, <1>2, <2>1, <2>2, <3>2 DEF Surface!List
    <3> QED BY <3>1, <3>2
  <2>3. ASSUME NEW d \in Calls,
               Surface!Arrive(d) \/ Surface!Connect(d) \/ Surface!Dispatch(d) \/ Surface!Touch(d)
        PROVE  call[c].phase # "idle" /\ call'[c].tool = call[c].tool /\ call'[c].alone = call[c].alone
    <3>1. call[d].phase # "idle" /\ \E q : /\ call' = [call EXCEPT ![d] = q]
                                          /\ q.tool = call[d].tool /\ q.alone = call[d].alone
      <4>1. CASE Surface!Arrive(d)
        <5> DEFINE unsigned == {t \in Surface!ConnectTarget(call[d].tool) :
                                   t.scheme = "code" /\ t.id \notin connected}
                   phase == IF unsigned = {} THEN "dispatching" ELSE "connecting"
                   signed == IF unsigned = {} THEN "none" ELSE (CHOOSE t \in unsigned : TRUE).id
                   q == [call[d] EXCEPT !.view = things, !.phase = phase, !.signed = signed]
        <5>1. call' = [call EXCEPT ![d] = q] /\ call[d].phase = "listed"
          BY <4>1 DEF Surface!Arrive
        <5> HIDE DEF phase, signed
        <5>2. q.tool = call[d].tool /\ q.alone = call[d].alone
          BY <1>0
        <5> QED BY <5>1, <5>2
      <4>2. CASE Surface!Connect(d)
        BY <1>0, <4>2 DEF Surface!Connect
      <4>3. CASE Surface!Dispatch(d)
        <5> DEFINE target == Surface!Resolved(call[d].tool, call[d].view)
                   phase == IF target = Surface!Nowhere THEN "unknown"
                            ELSE IF \A r \in target : <<r.of.id, r.aff, r.op>> \in vocabulary
                                 THEN "calling" ELSE "denied"
                   q == [call[d] EXCEPT !.target = target, !.phase = phase]
        <5>1. call' = [call EXCEPT ![d] = q] /\ call[d].phase = "dispatching"
          BY <4>3 DEF Surface!Dispatch
        <5> HIDE DEF target, phase
        <5>2. q.tool = call[d].tool /\ q.alone = call[d].alone
          BY <1>0
        <5> QED BY <5>1, <5>2
      <4>4. CASE Surface!Touch(d)
        <5> DEFINE signed == security[(CHOOSE r \in call[d].target : TRUE).of.id]
                   q == [call[d] EXCEPT !.phase = "sent", !.signed = signed]
        <5>1. call' = [call EXCEPT ![d].phase = "sent", ![d].signed = signed] /\ call[d].phase = "calling"
          BY <4>4 DEF Surface!Touch
        <5> HIDE DEF signed
        <5>2. call' = [call EXCEPT ![d] = q]
          BY <5>1
        <5>3. q.tool = call[d].tool /\ q.alone = call[d].alone
          BY <1>0
        <5> QED BY <5>1, <5>2, <5>3
      <4> QED BY <2>3, <4>1, <4>2, <4>3, <4>4
    <3>2. c = d \/ call'[c] = call[c]
      BY <1>0, <3>1
    <3> QED BY <1>0, <1>2, <3>1, <3>2
  <2>4. CASE call' = call
    BY <1>2, <2>1, <2>4
  <2>5. \A t : Surface!AddThings(t) => call' = call
    BY DEF Surface!AddThings, Surface!Describe
  <2>6. UNCHANGED Surface!vars => call' = call
    BY DEF Surface!vars
  <2> QED BY <2>1, <2>2, <2>3, <2>4, <2>5, <2>6 DEF Surface!Next
<1>3. ASSUME NEW c \in Calls, Offered(call'[c]) PROVE Offered(call[c])'
  <2>1. Surface!Flat' = Surface!Flat
    BY <1>1 DEF Surface!Flat
  <2> QED BY <1>1, <1>3, <2>1 DEF Offered
<1>4. SnapshotsAreOfStreams'
  BY <1>1 DEF ToolsWereOffered, SnapshotsAreOfStreams
<1> QED BY <1>1, <1>2, <1>3, <1>4 DEF ToolsWereOffered

LEMMA OfferInit == Surface!Init => ToolsWereOffered
<1> SUFFICES ASSUME Surface!Init PROVE ToolsWereOffered
  OBVIOUS
<1>1. things \in Seq(Descriptions)
  BY SurfaceFacts DEF Surface!Init, Surface!SurfaceAssumption
<1>2. SnapshotsAreOfStreams
  <2> DEFINE streams == Surface!MediaNames(things)
             first(slug) == CHOOSE m \in streams : Head(m) = slug
             toolOf(m) == (IF m = first(Head(m)) THEN <<Head(m)>> ELSE m) \o <<"snapshot">>
  <2>1. mediaTools = [nm \in {toolOf(m) : m \in streams} |-> CHOOSE m \in streams : toolOf(m) = nm]
    BY DEF Surface!Init, Surface!SnapshotTools
  <2>2. \A m : toolOf(m) = <<Head(m)>> \o <<"snapshot">> \/ toolOf(m) = m \o <<"snapshot">>
    OBVIOUS
  <2>3. \A m \in streams : Surface!Media(things, m) # {}
    BY DEF Surface!MediaNames
  <2> HIDE DEF toolOf, streams
  <2>4. ASSUME NEW nm \in DOMAIN mediaTools
        PROVE  mediaTools[nm] \in streams /\ toolOf(mediaTools[nm]) = nm
    BY <2>1
  <2>5. ASSUME NEW m \in streams
        PROVE  \E u \in Descriptions :
                  /\ m # <<>> /\ u.slug = Head(m) /\ Tail(m) \in DOMAIN u.affs /\ u.affs[Tail(m)].media
    BY <1>1, <2>3, OneMedia
  <2> QED BY <2>2, <2>4, <2>5 DEF SnapshotsAreOfStreams
<1>3. \A slug \in DOMAIN gateway : gateway[slug].slug = slug
  <2>1. CASE gateway = <<>>
    BY <2>1
  <2>2. CASE gateway = Surface!SlugTable(things)
    BY <2>2 DEF Surface!SlugTable
  <2> QED BY <2>1, <2>2 DEF Surface!Init
<1>4. \A c \in Calls : call[c].phase = "idle"
  BY DEF Surface!Init, Surface!Idle
<1> QED BY <1>2, <1>3, <1>4 DEF ToolsWereOffered

\* A step that ends a dispatch is the dispatch, and the policy has what the fleet offers.
LEMMA DispatchedAsListed ==
    ASSUME FleetKept, ToolsWereOffered, [Surface!Next]_Surface!vars, NEW c \in Calls,
           call[c].phase = "dispatching", call'[c].phase # "dispatching",
           Surface!Flat \/ call[c].alone,
           Surface!Alone(call[c].tool.of, things), Surface!Alone(call[c].tool.of, call[c].view)
    PROVE  LET w == call[c].tool IN
           /\ call'[c].target = {[of |-> w.of, aff |-> w.aff, op |-> w.op]}
           /\ call'[c].phase = "denied" => w.op \notin Surface!Offers(w.of.affs[w.aff])
<1> DEFINE w == call[c].tool
           listed == [of |-> w.of, aff |-> w.aff, op |-> w.op]
           target == Surface!Resolved(w, call[c].view)
           phase == IF target = Surface!Nowhere THEN "unknown"
                    ELSE IF \A r \in target : <<r.of.id, r.aff, r.op>> \in vocabulary THEN "calling" ELSE "denied"
<1>0. /\ DOMAIN call = Calls /\ Named /\ vocabulary = Surface!Grantable(things)
      /\ \A d \in Calls : /\ DOMAIN call[d] = {"phase", "tool", "alone", "view", "target", "signed"}
                         /\ call[d].view \in Seq(Descriptions)
  BY DEF FleetKept, Known
<1>1. ASSUME NEW d \in Calls, \A e \in Calls : e # d => call'[e] = call[e], call[d].phase # "dispatching"
      PROVE  FALSE
  BY <1>1
<1>2. Surface!Dispatch(c)
  <2>1. ASSUME NEW d \in Calls, NEW u, Surface!List(d, u) PROVE FALSE
    <3>1. (\A e \in Calls : e # d => call'[e] = call[e]) /\ call[d].phase # "dispatching"
      BY <1>0, <2>1 DEF Surface!List
    <3> QED BY <1>1, <3>1
  <2>2. ASSUME NEW d \in Calls, Surface!Arrive(d) \/ Surface!Connect(d) \/ Surface!Touch(d) PROVE FALSE
    <3>1. CASE Surface!Arrive(d)
      BY <1>0, <1>1, <3>1 DEF Surface!Arrive
    <3>2. CASE Surface!Connect(d)
      BY <1>0, <1>1, <3>2 DEF Surface!Connect
    <3>3. CASE Surface!Touch(d)
      BY <1>0, <1>1, <3>3 DEF Surface!Touch
    <3> QED BY <2>2, <3>1, <3>2, <3>3
  <2>3. ASSUME NEW d \in Calls, Surface!Dispatch(d) PROVE c = d
    <3>1. \A e \in Calls : e # d => call'[e] = call[e]
      BY <1>0, <2>3 DEF Surface!Dispatch
    <3> QED BY <3>1
  <2>4. call' # call
    OBVIOUS
  <2>5. \A t : Surface!AddThings(t) => call' = call
    BY DEF Surface!AddThings, Surface!Describe
  <2>6. UNCHANGED Surface!vars => call' = call
    BY DEF Surface!vars
  <2> QED BY <2>1, <2>2, <2>3, <2>4, <2>5, <2>6 DEF Surface!Next
<1>3. target = {listed}
  BY <1>0, ResolvedAsListed DEF ToolsWereOffered
<1>4. call'[c].target = target /\ call'[c].phase = phase
  <2>1. call' = [call EXCEPT ![c].target = target, ![c].phase = phase]
    BY <1>2 DEF Surface!Dispatch
  <2> HIDE DEF target, phase
  <2> QED BY <1>0, <2>1
<1>5. ASSUME phase = "denied" PROVE w.op \notin Surface!Offers(w.of.affs[w.aff])
  <2>1. <<w.of.id, w.aff, w.op>> \notin vocabulary
    <3> HIDE DEF target
    <3> QED BY <1>3, <1>5
  <2>2. w.of \in Surface!Elements(things) /\ w.aff \in DOMAIN w.of.affs
    BY DEF Surface!Alone, ToolsWereOffered, Offered
  <2>3. ASSUME NEW t \in Surface!Elements(things), NEW n \in DOMAIN t.affs, NEW op \in Surface!Offers(t.affs[n])
        PROVE  <<t.id, n, op>> \in Surface!Grantable(things)
    <3>1. <<t.id, n, op>> \in UNION {{<<t.id, m, o>> : o \in Surface!Offers(t.affs[m])} : m \in DOMAIN t.affs}
      OBVIOUS
    <3> QED BY <3>1 DEF Surface!Grantable
  <2> HIDE DEF w
  <2> QED BY <1>0, <2>1, <2>2, <2>3
<1> HIDE DEF target, phase
<1> QED BY <1>3, <1>4, <1>5

\* Listing and dispatch agree on a name, with or without a suffix, as a flat tool or as a
\* verb of a projection: a call comes to the affordance and the operation that were
\* listed, and only what no grant can give is denied (tool_surface, call_tool,
\* GatewayProjection).
THEOREM ListedIsReached == Surface!Spec => ListedReachesItself
<1> DEFINE Reaches(c) ==
        LET listed == call[c].tool IN
        /\ call[c].phase = "dispatching" /\ call'[c].phase # "dispatching"
        /\ Surface!Flat \/ call[c].alone
        /\ Surface!Alone(listed.of, things) /\ Surface!Alone(listed.of, call[c].view)
        => /\ call'[c].target = {[of |-> listed.of, aff |-> listed.aff, op |-> listed.op]}
           /\ call'[c].phase = "denied" => listed.op \notin Surface!Offers(listed.of.affs[listed.aff])
<1>1. FleetKept /\ ToolsWereOffered /\ [Surface!Next]_Surface!vars =>
          [\A c \in Calls : Reaches(c)]_Surface!vars
  BY DispatchedAsListed
<1>2. [][\A c \in Calls : Reaches(c)]_Surface!vars => ListedReachesItself
  BY DEF ListedReachesItself, Surface!ListedReachesItself
<1> HIDE DEF Reaches
<1> QED BY <1>1, <1>2, FleetInit, FleetStep, OfferInit, OfferStep, PTL DEF Surface!Spec

(***************************************************************************)
(* The parts together.                                                     *)
(***************************************************************************)

\* A behaviour of the bridge is a behaviour of each of its parts.
LEMMA EachPartAsItself ==
    PartsSpec => Spec /\ Background!Spec /\ Approvals!Spec /\ Surface!Spec
<1>1. PartsInit => Init /\ Background!Init /\ Approvals!Init /\ Surface!Init
  BY DEF PartsInit
<1>2. [PartsNext]_<<part, vars, subVars, approvalVars, surfaceVars>> =>
          /\ [Next]_vars /\ [Background!Next]_(Background!vars)
          /\ [Approvals!Next]_(Approvals!vars) /\ [Surface!Next]_(Surface!vars)
  <2>1. /\ UNCHANGED subVars => UNCHANGED Background!vars
        /\ UNCHANGED approvalVars => UNCHANGED Approvals!vars
        /\ UNCHANGED surfaceVars => UNCHANGED Surface!vars
    BY DEF subVars, approvalVars, surfaceVars, Background!vars, Approvals!vars, Approvals!requestVars, Surface!vars
  <2>2. PartsNext =>
            \/ Next /\ UNCHANGED <<subVars, approvalVars, surfaceVars>>
            \/ Background!Next /\ UNCHANGED <<vars, approvalVars, surfaceVars>>
            \/ Approvals!Next /\ UNCHANGED <<vars, subVars, surfaceVars>>
            \/ Surface!Next /\ UNCHANGED <<vars, subVars, approvalVars>>
    BY DEF PartsNext
  <2> QED BY <2>1, <2>2
<1> QED BY <1>1, <1>2, PTL DEF PartsSpec, Spec, Background!Spec, Approvals!Spec, Surface!Spec

\* The bridge with all of its parts (build_mcp_server): no value is missed unsaid,
\* a gated call runs on its own consent, nothing is sent unsigned, grants are those
\* of the fleet, and a listed tool reaches itself.
THEOREM TheBridgeKeepsItsWord ==
    PartsSpec => /\ []NoGapAnywhere /\ []RunsOnItsOwnApproval /\ []SignedInBeforeSent
                 /\ FollowsTheFleet /\ ListedReachesItself
BY EachPartAsItself, NothingGoesUncounted, GatedRunsOnConsent, NotSentUnsigned, PermittedAsTheFleetIs,
   ListedIsReached
=============================================================================
