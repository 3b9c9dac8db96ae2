----------------------- MODULE GatewayRequests_proofs -----------------------
(***************************************************************************)
(* What GatewayRequests promises, proved for every set of requests,        *)
(* callers, calls and streams.                                             *)
(***************************************************************************)
EXTENDS GatewayRequests, TLAPS

\* Spec keeps every variable in its type.
THEOREM TypeCorrect == Spec => []TypeOK
<1>1. Init => TypeOK
  <2> SUFFICES ASSUME Init PROVE TypeOK
    OBVIOUS
  <2>1. serving \in BOOLEAN
    BY DEF Init
  <2>2. stops \in 0..MaxStops /\ regrants \in 0..MaxGrants
    BY RequestsAssumption DEF Init
  <2>3. \A r \in Requests : msg[r] = NoMessage <=> phase[r] = "unsent"
    BY DEF Init
  <2> QED BY <2>1, <2>2, <2>3 DEF Init, TypeOK, Ended
<1>2. TypeOK /\ [Next]_vars => TypeOK'
  <2> SUFFICES ASSUME TypeOK, [Next]_vars PROVE TypeOK'
    OBVIOUS
  <2> USE RequestsAssumption, NoMessageAssumption DEF TypeOK, Ended
  <2>1. CASE Start
    BY <2>1 DEF Start, policy, handlers, mirroring
  <2>2. CASE Stop
    <3>1. serving' \in BOOLEAN
      BY <2>2, Zenon DEF Stop
    <3>2. stops' \in 0..MaxStops
      BY <2>2 DEF Stop
    <3>3. mirror' \in [Requests -> {"none", "opening", "waiting", "checking", "cleared",
                                   "ended", "cancelled"}]
      BY <2>2 DEF Stop
    <3> QED BY <3>1, <3>2, <3>3, <2>2 DEF Stop, policy, handlers
  <2>3. ASSUME NEW right \in Rights, Revoke(right) PROVE TypeOK'
    BY <2>3 DEF Revoke, gateway, handlers, mirroring
  <2>4. ASSUME NEW right \in Rights, Grant(right) PROVE TypeOK'
    BY <2>4 DEF Grant, gateway, handlers
  <2>5. ASSUME NEW caller \in Callers, Expire(caller) PROVE TypeOK'
    BY <2>5 DEF Expire, gateway, handlers, mirroring
  <2>6. ASSUME NEW r \in Requests, NEW m \in Message, Receive(r, m) PROVE TypeOK'
    BY <2>6 DEF Receive, Goto, gateway, policy, mirroring
  <2>7. ASSUME NEW r \in Requests, Handle(r) PROVE TypeOK'
    <3>1. CASE Route(r)
      BY <3>1 DEF Route, Goto, gateway, policy, mirroring
    <3>2. CASE Authenticate(r)
      BY <3>2 DEF Authenticate, Answer, Goto, gateway, policy, mirroring
    <3>3. CASE RejectPayload(r)
      BY <3>3 DEF RejectPayload, Answer, Goto, gateway, policy, mirroring
    <3>4. CASE Decide(r)
      BY <3>4 DEF Decide, Answer, Goto, gateway, policy, mirroring
    <3>5. CASE Block(r)
      BY <3>5 DEF Block, Answer, Goto, gateway, policy, mirroring
    <3>6. CASE Call(r)
      BY <3>6 DEF Call, Goto, gateway, policy, mirroring
    <3>7. CASE CallReturns(r)
      BY <3>7 DEF CallReturns, Answer, Goto, gateway, policy, mirroring
    <3>8. CASE CallRaises(r)
      BY <3>8 DEF CallRaises, Goto, gateway, policy, mirroring
    <3>9. CASE StartMirror(r)
      BY <3>9 DEF StartMirror, Answer, Goto, gateway, policy
    <3> QED BY <2>7, <3>1, <3>2, <3>3, <3>4, <3>5, <3>6, <3>7, <3>8, <3>9 DEF Handle
  <2>8. ASSUME NEW r \in Requests, RunMirror(r) \/ MirrorEnds(r) PROVE TypeOK'
    BY <2>8 DEF RunMirror, MirrorOpen, MirrorValue, MirrorCheck, MirrorPublish,
                MirrorEnds, MirrorTo, KeepRest, gateway, policy, handlers
  <2>9. CASE UNCHANGED vars
    BY <2>9 DEF vars, gateway, policy, handlers, mirroring
  <2> QED BY <2>1, <2>2, <2>3, <2>4, <2>5, <2>6, <2>7, <2>8, <2>9 DEF Next
<1> QED BY <1>1, <1>2, PTL DEF Spec

------------------------------------------------------------------------------
(* Whom the gateway acts for.                                              *)

\* Past authentication, the token names the sender; what was acted on is past it.
Authenticated ==
    \A r \in Requests :
        /\ r \in acted => phase[r] \in {"calling", "answered", "died"}
        /\ phase[r] = "calling" => r \in acted
        /\ (phase[r] \in {"deciding", "permitted"} \/ r \in acted)
             => msg[r] \in Message /\ msg[r].token = msg[r].sender

LEMMA AuthenticatedStep == TypeOK /\ Authenticated /\ [Next]_vars => Authenticated'
<1> SUFFICES ASSUME TypeOK, Authenticated, [Next]_vars PROVE Authenticated'
  OBVIOUS
<1> USE DEF Ended
<1>1. ASSUME UNCHANGED <<msg, phase, acted>> PROVE Authenticated'
  BY <1>1 DEF Authenticated
<1>2. ASSUME NEW r \in Requests, NEW m \in Message, Receive(r, m) PROVE Authenticated'
  BY <1>2 DEF Authenticated, TypeOK, Receive, Goto
<1>3. ASSUME NEW r \in Requests, Handle(r) PROVE Authenticated'
  <2>1. CASE Route(r)
    BY <2>1 DEF Authenticated, TypeOK, Route, Goto
  <2>2. CASE Authenticate(r)
    <3>1. msg[r] \in Message
      BY <2>2 DEF TypeOK, Authenticate
    <3> QED BY <2>2, <3>1 DEF Authenticated, TypeOK, Authenticate, IssuedTo, Answer, Goto
  <2>3. CASE RejectPayload(r)
    BY <2>3 DEF Authenticated, TypeOK, RejectPayload, Answer, Goto
  <2>4. CASE Decide(r)
    BY <2>4 DEF Authenticated, TypeOK, Decide, Answer, Goto
  <2>5. CASE Block(r)
    BY <2>5 DEF Authenticated, TypeOK, Block, Answer, Goto
  <2>6. CASE Call(r)
    BY <2>6 DEF Authenticated, TypeOK, Call, Goto
  <2>7. CASE CallReturns(r)
    BY <2>7 DEF Authenticated, TypeOK, CallReturns, Answer, Goto
  <2>8. CASE CallRaises(r)
    BY <2>8 DEF Authenticated, TypeOK, CallRaises, Goto
  <2>9. CASE StartMirror(r)
    BY <2>9 DEF Authenticated, TypeOK, StartMirror, Answer, Goto
  <2> QED BY <1>3, <2>1, <2>2, <2>3, <2>4, <2>5, <2>6, <2>7, <2>8, <2>9 DEF Handle
<1>4. CASE Start
  BY <1>1, <1>4 DEF Start, handlers
<1>5. CASE Stop
  BY <1>1, <1>5 DEF Stop, handlers
<1>6. ASSUME NEW right \in Rights, Revoke(right) \/ Grant(right) PROVE Authenticated'
  BY <1>1, <1>6 DEF Revoke, Grant, handlers
<1>7. ASSUME NEW caller \in Callers, Expire(caller) PROVE Authenticated'
  BY <1>1, <1>7 DEF Expire, handlers
<1>8. ASSUME NEW r \in Requests, RunMirror(r) \/ MirrorEnds(r) PROVE Authenticated'
  BY <1>1, <1>8 DEF RunMirror, MirrorOpen, MirrorValue, MirrorCheck, MirrorPublish,
                    MirrorEnds, KeepRest, handlers
<1>9. CASE UNCHANGED vars
  BY <1>1, <1>9 DEF vars, handlers
<1> QED BY <1>2, <1>3, <1>4, <1>5, <1>6, <1>7, <1>8, <1>9 DEF Next

\* A request acts on the fleet only with a token issued to the sender its topic
\* names.
THEOREM ActsForSender == Spec => []ActsForItsSender
<1>1. Init => Authenticated
  BY DEF Init, Authenticated
<1>2. TypeOK /\ Authenticated => ActsForItsSender
  <2> SUFFICES ASSUME TypeOK, Authenticated, NEW r \in acted
               PROVE  msg[r] # NoMessage /\ msg[r].token = msg[r].sender
    BY DEF ActsForItsSender
  <2> QED BY NoMessageAssumption DEF TypeOK, Authenticated
<1> QED BY <1>1, <1>2, TypeCorrect, AuthenticatedStep, PTL DEF Spec

------------------------------------------------------------------------------
(* The mirrors.                                                            *)

\* A mirror and its table entry belong to a request that was acted on, so its
\* stream topic no longer changes; and each topic has one entry.
Registered ==
    /\ streams \subseteq acted
    /\ \A r \in Requests : mirror[r] # "none" => r \in acted
    /\ Live \subseteq streams
    /\ \A r, s \in streams : SameStream(r, s) => r = s

LEMMA RegisteredStep ==
    TypeOK /\ Authenticated /\ Registered /\ [Next]_vars => Registered'
<1> SUFFICES ASSUME TypeOK, Authenticated, Registered, [Next]_vars PROVE Registered'
  OBVIOUS
<1> USE DEF Ended
<1>1. ASSUME acted \subseteq acted', UNCHANGED <<mirror, streams>>,
             \A r \in acted : msg'[r] = msg[r]
      PROVE  Registered'
  BY <1>1 DEF Registered, Live, SameStream, Stream
<1>2. ASSUME NEW r \in Requests, NEW m \in Message, Receive(r, m) PROVE Registered'
  <2>1. r \notin acted
    BY <1>2 DEF Receive, Authenticated
  <2>2. \A s \in acted : msg'[s] = msg[s]
    BY <1>2, <2>1 DEF Receive, TypeOK
  <2> QED BY <1>1, <1>2, <2>2 DEF Receive, mirroring
<1>3. ASSUME NEW r \in Requests, Handle(r), ~StartMirror(r) PROVE Registered'
  BY <1>1, <1>3 DEF Handle, Route, Authenticate, RejectPayload, Decide, Block, Call,
                    CallReturns, CallRaises, mirroring
<1>4. ASSUME NEW r \in Requests, StartMirror(r) PROVE Registered'
  <2> DEFINE previous == {s \in streams : SameStream(r, s)}
  <2>1. r \notin acted /\ r \notin streams
    BY <1>4 DEF StartMirror, Authenticated, Registered
  <2>2. /\ streams' = (streams \ previous) \cup {r} /\ acted' = acted \cup {r}
        /\ msg' = msg
        /\ \A s \in Requests : mirror'[s] =
              IF s = r THEN "opening"
              ELSE IF s \in previous \cap Live THEN "cancelled" ELSE mirror[s]
    BY <1>4 DEF StartMirror, TypeOK
  <2>3. Live' \subseteq (Live \ previous) \cup {r}
    BY <2>2 DEF Live
  <2>4. Live' \subseteq streams'
    BY <2>2, <2>3 DEF Registered
  <2>5. \A q, s \in streams' : SameStream(q, s)' => q = s
    BY <2>1, <2>2 DEF Registered, SameStream, Stream
  <2>6. \A s \in Requests : mirror'[s] # "none" => s \in acted'
    BY <2>2 DEF Registered, Live
  <2> QED BY <2>2, <2>4, <2>5, <2>6 DEF Registered
<1>5. CASE Start
  BY <1>1, <1>5 DEF Start, handlers, mirroring
<1>6. CASE Stop
  <2>1. Live' = {}
    BY <1>6 DEF Stop, Live, TypeOK, Registered
  <2>2. \A r \in Requests : mirror'[r] # "none" => r \in acted
    BY <1>6 DEF Stop, Live, Registered
  <2> QED BY <1>6, <2>1, <2>2 DEF Stop, Registered, handlers
<1>7. ASSUME NEW right \in Rights, Revoke(right) \/ Grant(right) PROVE Registered'
  BY <1>1, <1>7 DEF Revoke, Grant, handlers, mirroring
<1>8. ASSUME NEW caller \in Callers, Expire(caller) PROVE Registered'
  BY <1>1, <1>8 DEF Expire, handlers, mirroring
<1>9. ASSUME NEW r \in Requests, RunMirror(r) \/ MirrorEnds(r) PROVE Registered'
  <2>1. UNCHANGED <<streams, msg, acted>>
    BY <1>9 DEF RunMirror, MirrorOpen, MirrorValue, MirrorCheck, MirrorPublish,
                MirrorEnds, KeepRest, handlers
  <2>2. r \in Live
    BY <1>9 DEF RunMirror, MirrorOpen, MirrorValue, MirrorCheck, MirrorPublish,
                MirrorEnds, Live
  <2>3. \A s \in Requests : s # r => mirror'[s] = mirror[s]
    BY <1>9 DEF RunMirror, MirrorOpen, MirrorValue, MirrorCheck, MirrorPublish,
                MirrorEnds, MirrorTo, TypeOK
  <2>4. Live' \subseteq Live
    BY <2>2, <2>3 DEF Live
  <2>5. r \in acted
    BY <2>2 DEF Registered
  <2> QED BY <2>1, <2>3, <2>4, <2>5 DEF Registered, SameStream, Stream
<1>10. CASE UNCHANGED vars
  BY <1>1, <1>10 DEF vars, handlers, mirroring
<1> QED BY <1>2, <1>3, <1>4, <1>5, <1>6, <1>7, <1>8, <1>9, <1>10 DEF Next, Handle

LEMMA MirrorsRegistered == Spec => []Registered
<1>1. Init => Authenticated /\ Registered
  BY DEF Init, Authenticated, Registered, Live
<1> QED BY <1>1, TypeCorrect, AuthenticatedStep, RegisteredStep, PTL DEF Spec

\* Every live mirror is in the tables a stop and a repeated request go through.
THEOREM LiveRegistered == Spec => []LiveMirrorsAreRegistered
<1>1. Registered => LiveMirrorsAreRegistered
  BY DEF Registered, LiveMirrorsAreRegistered
<1> QED BY <1>1, MirrorsRegistered, PTL

\* No stream topic ever has two live mirrors.
THEOREM OneMirror == Spec => []OneMirrorPerStream
<1>1. Registered => OneMirrorPerStream
  BY DEF Registered, OneMirrorPerStream
<1> QED BY <1>1, MirrorsRegistered, PTL

------------------------------------------------------------------------------
(* The replies.                                                            *)

\* A reply is the handler's last step, and says which way it went.
Truthful ==
    /\ \A r \in Requests : reply[r] # "none" => phase[r] = "answered"
    /\ ReplyTellsTheTruth

LEMMA TruthfulStep == TypeOK /\ Authenticated /\ Truthful /\ [Next]_vars => Truthful'
<1> SUFFICES ASSUME TypeOK, Authenticated, Truthful, [Next]_vars PROVE Truthful'
  OBVIOUS
<1> USE DEF Ended, Truthful, ReplyTellsTheTruth
<1>1. ASSUME UNCHANGED <<phase, reply, acted>> PROVE Truthful'
  BY <1>1
<1>2. ASSUME NEW r \in Requests, NEW m \in Message, Receive(r, m) PROVE Truthful'
  BY <1>2 DEF TypeOK, Receive, Goto
<1>3. ASSUME NEW r \in Requests, Handle(r) PROVE Truthful'
  <2>1. CASE Route(r)
    BY <2>1 DEF TypeOK, Route, Goto
  <2>2. CASE Authenticate(r)
    BY <2>2 DEF Authenticated, TypeOK, Authenticate, Answer, Goto
  <2>3. CASE RejectPayload(r)
    BY <2>3 DEF Authenticated, TypeOK, RejectPayload, Answer, Goto
  <2>4. CASE Decide(r)
    BY <2>4 DEF Authenticated, TypeOK, Decide, Answer, Goto
  <2>5. CASE Block(r)
    BY <2>5 DEF Authenticated, TypeOK, Block, Answer, Goto
  <2>6. CASE Call(r)
    BY <2>6 DEF Authenticated, TypeOK, Call, Goto
  <2>7. CASE CallReturns(r)
    BY <2>7 DEF Authenticated, TypeOK, CallReturns, Answer, Goto
  <2>8. CASE CallRaises(r)
    BY <2>8 DEF Authenticated, TypeOK, CallRaises, Goto
  <2>9. CASE StartMirror(r)
    BY <2>9 DEF Authenticated, TypeOK, StartMirror, Answer, Goto
  <2> QED BY <1>3, <2>1, <2>2, <2>3, <2>4, <2>5, <2>6, <2>7, <2>8, <2>9 DEF Handle
<1>4. CASE Start
  BY <1>1, <1>4 DEF Start, handlers
<1>5. CASE Stop
  BY <1>1, <1>5 DEF Stop, handlers
<1>6. ASSUME NEW right \in Rights, Revoke(right) \/ Grant(right) PROVE Truthful'
  BY <1>1, <1>6 DEF Revoke, Grant, handlers
<1>7. ASSUME NEW caller \in Callers, Expire(caller) PROVE Truthful'
  BY <1>1, <1>7 DEF Expire, handlers
<1>8. ASSUME NEW r \in Requests, RunMirror(r) \/ MirrorEnds(r) PROVE Truthful'
  BY <1>1, <1>8 DEF RunMirror, MirrorOpen, MirrorValue, MirrorCheck, MirrorPublish,
                    MirrorEnds, KeepRest, handlers
<1>9. CASE UNCHANGED vars
  BY <1>1, <1>9 DEF vars, handlers
<1> QED BY <1>2, <1>3, <1>4, <1>5, <1>6, <1>7, <1>8, <1>9 DEF Next

\* A caller told of a refusal has not touched the fleet, and one told of a result
\* or a stream has.
THEOREM RepliesTrue == Spec => []ReplyTellsTheTruth
<1>1. Init => Authenticated /\ Truthful
  BY DEF Init, Authenticated, Truthful, ReplyTellsTheTruth
<1>2. Truthful => ReplyTellsTheTruth
  BY DEF Truthful
<1> QED BY <1>1, <1>2, TypeCorrect, AuthenticatedStep, TruthfulStep, PTL DEF Spec

------------------------------------------------------------------------------
(* The cut of a lapsed stream.                                             *)

\* A mirror that published one value into a lapse cannot clear another: after
\* the token expired it is not even looked at, after a revocation it is denied.
CutRevoked(r) ==
    /\ sinceRevoke[r] <= 1
    /\ sinceRevoke[r] > 0 => r \in acted /\ ~Granted(r) /\ mirror[r] # "cleared"

CutExpired(r) ==
    /\ sinceExpiry[r] <= 1
    /\ sinceExpiry[r] > 0
         => r \in acted /\ Expired(r) /\ mirror[r] \notin {"checking", "cleared"}

Cut == \A r \in Requests : CutRevoked(r) /\ CutExpired(r)

LEMMA CutStep ==
    TypeOK /\ Authenticated /\ Registered /\ Cut /\ [Next]_vars => Cut'
<1> SUFFICES ASSUME TypeOK, Authenticated, Registered, Cut, [Next]_vars PROVE Cut'
  OBVIOUS
<1> USE DEF Ended
\* A step that leaves the mirrors' values, and the policy, alone.
<1>1. ASSUME acted \subseteq acted', \A r \in acted : msg'[r] = msg[r],
             grants' \subseteq grants, expired \subseteq expired',
             UNCHANGED <<mirror, sinceRevoke, sinceExpiry>>
      PROVE  Cut'
  BY <1>1 DEF Cut, CutRevoked, CutExpired, Granted, Expired, Right
<1>2. ASSUME NEW r \in Requests, NEW m \in Message, Receive(r, m) PROVE Cut'
  <2>1. r \notin acted
    BY <1>2 DEF Receive, Authenticated
  <2>2. \A s \in acted : msg'[s] = msg[s]
    BY <1>2, <2>1 DEF Receive, TypeOK
  <2> QED BY <1>1, <1>2, <2>2 DEF Receive, policy, mirroring
<1>3. ASSUME NEW r \in Requests, Handle(r), ~StartMirror(r) PROVE Cut'
  BY <1>1, <1>3 DEF Handle, Route, Authenticate, RejectPayload, Decide, Block, Call,
                    CallReturns, CallRaises, policy, mirroring
<1>4. ASSUME NEW r \in Requests, StartMirror(r) PROVE Cut'
  <2>1. \A s \in Requests : mirror'[s] = mirror[s] \/ mirror'[s] \in {"opening", "cancelled"}
    BY <1>4 DEF StartMirror, TypeOK
  <2>2. UNCHANGED <<msg, grants, expired, sinceRevoke, sinceExpiry>> /\ acted \subseteq acted'
    BY <1>4 DEF StartMirror, policy
  <2> QED BY <2>1, <2>2 DEF Cut, CutRevoked, CutExpired, Granted, Expired, Right
<1>5. CASE Start
  BY <1>1, <1>5 DEF Start, handlers, policy, mirroring
<1>6. CASE Stop
  <2>1. \A s \in Requests : mirror'[s] = mirror[s] \/ mirror'[s] = "cancelled"
    BY <1>6 DEF Stop, TypeOK
  <2>2. UNCHANGED <<msg, grants, expired, sinceRevoke, sinceExpiry, acted>>
    BY <1>6 DEF Stop, policy, handlers
  <2> QED BY <2>1, <2>2 DEF Cut, CutRevoked, CutExpired, Granted, Expired, Right
<1>7. ASSUME NEW right \in Rights, Revoke(right) PROVE Cut'
  BY <1>1, <1>7 DEF Revoke, handlers, mirroring
<1>8. ASSUME NEW right \in Rights, Grant(right) PROVE Cut'
  <2>1. UNCHANGED <<msg, acted, expired, mirror, sinceExpiry>> /\ grants' = grants \cup {right}
    BY <1>8 DEF Grant, handlers
  <2>2. ASSUME NEW r \in Requests PROVE CutExpired(r)'
    BY <2>1 DEF Cut, CutExpired, Expired
  <2>3. ASSUME NEW r \in Requests PROVE CutRevoked(r)'
    <3>1. CASE msg[r] # NoMessage /\ Right(r) = right
      <4>1. sinceRevoke'[r] = 0
        BY <1>8, <3>1 DEF Grant
      <4> QED BY <4>1 DEF CutRevoked
    <3>2. CASE msg[r] = NoMessage
      <4>1. sinceRevoke'[r] = sinceRevoke[r] /\ r \notin acted
        BY <1>8, <3>2, NoMessageAssumption DEF Grant, Authenticated
      <4> QED BY <4>1 DEF Cut, CutRevoked, TypeOK
    <3>3. CASE msg[r] # NoMessage /\ Right(r) # right
      <4>1. sinceRevoke'[r] = sinceRevoke[r]
        BY <1>8, <3>3 DEF Grant
      <4> QED BY <4>1, <2>1, <3>3 DEF Cut, CutRevoked, Granted, Right
    <3> QED BY <3>1, <3>2, <3>3
  <2> QED BY <2>2, <2>3 DEF Cut
<1>9. ASSUME NEW caller \in Callers, Expire(caller) PROVE Cut'
  BY <1>1, <1>9 DEF Expire, handlers, mirroring
<1>10. ASSUME NEW r \in Requests, RunMirror(r) \/ MirrorEnds(r) PROVE Cut'
  <2>1. UNCHANGED <<msg, acted, grants, expired>>
    BY <1>10 DEF RunMirror, MirrorOpen, MirrorValue, MirrorCheck, MirrorPublish,
                 MirrorEnds, KeepRest, policy, handlers
  <2>2. \A s \in Requests \ {r} : /\ mirror'[s] = mirror[s]
                                  /\ sinceRevoke'[s] = sinceRevoke[s]
                                  /\ sinceExpiry'[s] = sinceExpiry[s]
    BY <1>10 DEF RunMirror, MirrorOpen, MirrorValue, MirrorCheck, MirrorPublish,
                 MirrorEnds, MirrorTo, TypeOK
  <2>3. CutRevoked(r)' /\ CutExpired(r)'
    <3>1. CASE MirrorOpen(r) \/ MirrorEnds(r)
      BY <2>1, <3>1 DEF MirrorOpen, MirrorEnds, MirrorTo, TypeOK, Cut, CutRevoked,
                        CutExpired, Granted, Expired, Right
    <3>2. CASE MirrorValue(r)
      BY <2>1, <3>2 DEF MirrorValue, MirrorTo, TypeOK, Cut, CutRevoked, CutExpired,
                        Granted, Expired, Right
    <3>3. CASE MirrorCheck(r)
      BY <2>1, <3>3 DEF MirrorCheck, MirrorTo, TypeOK, Cut, CutRevoked, CutExpired,
                        Granted, Expired, Right
    <3>4. CASE MirrorPublish(r)
      <4>1. sinceRevoke[r] = 0 /\ sinceExpiry[r] = 0
        BY <3>4 DEF MirrorPublish, TypeOK, Cut, CutRevoked, CutExpired
      <4>2. r \in acted
        BY <3>4 DEF MirrorPublish, Registered
      <4>3. mirror'[r] = "waiting"
        BY <3>4 DEF MirrorPublish, MirrorTo, TypeOK
      <4>4. CutRevoked(r)'
        BY <2>1, <3>4, <4>1, <4>2, <4>3
           DEF MirrorPublish, TypeOK, CutRevoked, Granted, Right
      <4>5. CutExpired(r)'
        BY <2>1, <3>4, <4>1, <4>2, <4>3
           DEF MirrorPublish, TypeOK, CutExpired, Expired
      <4> QED BY <4>4, <4>5
    <3> QED BY <1>10, <3>1, <3>2, <3>3, <3>4 DEF RunMirror
  <2> QED BY <2>1, <2>2, <2>3 DEF Cut, CutRevoked, CutExpired, Granted, Expired, Right
<1>11. CASE UNCHANGED vars
  BY <1>1, <1>11 DEF vars, policy, handlers, mirroring
<1> QED BY <1>2, <1>3, <1>4, <1>5, <1>6, <1>7, <1>8, <1>9, <1>10, <1>11 DEF Next, Handle

\* A lapse cuts a stream forward: at most the value already cleared goes out.
THEOREM LapseCuts == Spec => []CutAfterLapse
<1>1. Init => Authenticated /\ Registered /\ Cut
  BY DEF Init, Authenticated, Registered, Live, Cut, CutRevoked, CutExpired
<1>2. Cut => CutAfterLapse
  BY DEF Cut, CutRevoked, CutExpired, CutAfterLapse
<1> QED
  BY <1>1, <1>2, TypeCorrect, AuthenticatedStep, MirrorsRegistered, CutStep, PTL DEF Spec

------------------------------------------------------------------------------
(* The gateway implements the service.  A request asks when its message     *)
(* arrives, is permitted by Decide, acts in Call or StartMirror, and every   *)
(* other step either drops it or changes nothing the service sees.          *)

LEMMA ServiceStarts == Init => Service!ServiceInit
BY DEF Init, Service!ServiceInit, Claim, Status

\* A step of one request that moves its status, or moves nothing.
LEMMA StatusMoves ==
    ASSUME NEW r \in Requests, NEW to, to = Status'[r],
           \A s \in Requests \ {r} : phase'[s] = phase[s] /\ (s \in acted' <=> s \in acted)
    PROVE  Status' = [Status EXCEPT ![r] = to]
BY DEF Status

LEMMA ServiceSteps ==
    TypeOK /\ Authenticated /\ [Next]_vars
        => [Service!ServiceNext]_(Service!serviceVars)
<1> SUFFICES ASSUME TypeOK, Authenticated, [Next]_vars
             PROVE  Service!ServiceNext \/ UNCHANGED <<grants, Claim, Status>>
  BY DEF Service!serviceVars
<1> USE DEF Ended
<1>1. ASSUME UNCHANGED <<msg, phase, acted>> PROVE UNCHANGED <<Claim, Status>>
  BY <1>1 DEF Claim, Status, Stream
<1>2. ASSUME NEW r \in Requests, NEW m \in Message, Receive(r, m)
      PROVE  Service!ServiceNext
  <2>1. phase[r] = "unsent" /\ r \notin acted /\ phase'[r] = "queued" /\ msg'[r] = m
    BY <1>2 DEF Receive, Goto, TypeOK, Authenticated
  <2>2. \A s \in Requests \ {r} : msg'[s] = msg[s] /\ phase'[s] = phase[s]
    BY <1>2 DEF Receive, Goto, TypeOK
  <2>3. UNCHANGED <<acted, grants>>
    BY <1>2 DEF Receive, policy
  <2>4. Status[r] = "none" /\ Status' = [Status EXCEPT ![r] = "asked"]
    BY <2>1, <2>2, <2>3 DEF Status
  <2>5. <<m.sender, m.target>> \in Rights
    BY DEF Message, Rights
  <2>6. Claim' = [Claim EXCEPT ![r] = <<m.sender, m.target>>]
    BY <2>1, <2>2, NoMessageAssumption DEF Claim, Stream
  <2>7. Service!Ask(r)
    BY <2>3, <2>4, <2>5, <2>6 DEF Service!Ask, Service!Move
  <2> QED BY <2>7 DEF Service!ServiceNext
<1>3. ASSUME NEW r \in Requests, Handle(r)
      PROVE  Service!ServiceNext \/ UNCHANGED <<grants, Claim, Status>>
  <2>1. UNCHANGED <<grants, msg>> /\ UNCHANGED Claim
    BY <1>3 DEF Handle, Route, Authenticate, RejectPayload, Decide, Block, Call,
                CallReturns, CallRaises, StartMirror, policy, Claim, Stream
  <2>2. \A s \in Requests \ {r} : phase'[s] = phase[s] /\ (s \in acted' <=> s \in acted)
    BY <1>3 DEF Handle, Route, Authenticate, RejectPayload, Decide, Block, Call,
                CallReturns, CallRaises, StartMirror, Answer, Goto, TypeOK
  <2>3. ASSUME Status'[r] = Status[r] PROVE UNCHANGED Status
    BY <2>2, <2>3 DEF Status
  <2>4. ASSUME Status[r] \in {"asked", "permitted"}, Status'[r] = "over"
        PROVE  Service!Drop(r)
    BY <2>1, <2>2, <2>4, StatusMoves DEF Service!Drop, Service!Move
  <2>5. CASE Route(r) \/ Authenticate(r) \/ RejectPayload(r) \/ Block(r)
    <3>1. r \notin acted /\ r \notin acted'
      BY <2>5 DEF Route, Authenticate, RejectPayload, Block, Authenticated
    <3>2. Status'[r] = Status[r]
            \/ (Status[r] \in {"asked", "permitted"} /\ Status'[r] = "over")
      BY <2>5, <3>1 DEF Route, Authenticate, RejectPayload, Block, Answer, Goto,
                        TypeOK, Status
    <3> QED BY <2>1, <2>3, <2>4, <3>2 DEF Service!ServiceNext
  <2>6. CASE Decide(r)
    <3>1. r \notin acted /\ r \notin acted' /\ Status[r] = "asked"
      BY <2>6 DEF Decide, Authenticated, Status
    <3>2. CASE Granted(r)
      <4>1. Status'[r] = "permitted"
        BY <2>6, <3>1, <3>2 DEF Decide, Goto, TypeOK, Status
      <4>2. Claim[r] \in grants
        BY <2>6, <3>2, NoMessageAssumption
           DEF Decide, Authenticated, Granted, Right, Claim, Stream
      <4>3. Service!Permit(r)
        BY <2>1, <2>2, <3>1, <4>1, <4>2, StatusMoves DEF Service!Permit, Service!Move
      <4> QED BY <4>3 DEF Service!ServiceNext
    <3>3. CASE ~Granted(r)
      <4>1. Status'[r] = "over"
        BY <2>6, <3>1, <3>3 DEF Decide, Answer, Goto, TypeOK, Status
      <4> QED BY <2>4, <3>1, <4>1 DEF Service!ServiceNext
    <3> QED BY <3>2, <3>3
  <2>7. CASE Call(r) \/ StartMirror(r)
    <3>1. Status[r] = "permitted"
      BY <2>7 DEF Call, StartMirror, Authenticated, Status
    <3>2. Status'[r] = "acted"
      BY <2>7 DEF Call, StartMirror, Status
    <3>3. Service!Act(r)
      BY <2>1, <2>2, <3>1, <3>2, StatusMoves DEF Service!Act, Service!Move
    <3> QED BY <3>3 DEF Service!ServiceNext
  <2>8. CASE CallReturns(r) \/ CallRaises(r)
    <3>1. r \in acted /\ r \in acted'
      BY <2>8 DEF CallReturns, CallRaises, Authenticated
    <3> QED BY <2>1, <2>3, <3>1 DEF Status
  <2> QED BY <1>3, <2>5, <2>6, <2>7, <2>8 DEF Handle
<1>4. CASE Start \/ Stop
  BY <1>1, <1>4 DEF Start, Stop, handlers, policy
<1>5. ASSUME NEW right \in Rights, Revoke(right) \/ Grant(right)
      PROVE  Service!ServiceNext
  <2>1. grants' \in SUBSET Rights
    BY <1>5 DEF Revoke, Grant, TypeOK
  <2>2. UNCHANGED <<Claim, Status>>
    BY <1>1, <1>5 DEF Revoke, Grant, handlers
  <2> QED BY <2>1, <2>2 DEF Service!ServiceNext, Service!Regrant
<1>6. ASSUME NEW caller \in Callers, Expire(caller)
      PROVE  UNCHANGED <<grants, Claim, Status>>
  BY <1>1, <1>6 DEF Expire, handlers
<1>7. ASSUME NEW r \in Requests, RunMirror(r) \/ MirrorEnds(r)
      PROVE  UNCHANGED <<grants, Claim, Status>>
  BY <1>1, <1>7 DEF RunMirror, MirrorOpen, MirrorValue, MirrorCheck, MirrorPublish,
                    MirrorEnds, KeepRest, handlers, policy
<1>8. CASE UNCHANGED vars
  BY <1>1, <1>8 DEF vars, handlers, policy
<1> QED BY <1>2, <1>3, <1>4, <1>5, <1>6, <1>7, <1>8 DEF Next

\* Every behaviour of the gateway is one of the authorized service: the fleet is
\* touched for a request only after its sender's right was found granted, once.
THEOREM GatewayImplementsService == Spec => ImplementsService
<1>1. Init => Authenticated
  BY DEF Init, Authenticated
<1> QED BY <1>1, TypeCorrect, AuthenticatedStep, ServiceStarts, ServiceSteps, PTL
        DEF Spec, ImplementsService, Service!ServiceSpec
=============================================================================
