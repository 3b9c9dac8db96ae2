-------------------------- MODULE ThingClientCalls --------------------------
(***************************************************************************)
(* Calls through one guarded ThingClient: look up, check the input, decide *)
(* against the policy, ask the approver, touch the device, record.  Every  *)
(* phase of a call ends at an await, so that other calls, a change of the  *)
(* grants, a re-description of the Thing (add_things) and cancellation     *)
(* come in between.  Bulk reads are loops over single reads; a             *)
(* long-running action may be waited for, polled and cancelled by its tool *)
(* name through the _inflight table.                                       *)
(***************************************************************************)
EXTENDS Naturals

CONSTANTS
    Calls,
    Affs,           \* the affordances the Thing ever had
    Requests,       \* what callers ask: [kind, aff, arg]
    Descriptions,   \* the TDs of the Thing, each the <<aff, op>> its forms offer
    Policies,       \* what the grant source may give: sets of [aff, op, limit]
    Gated,          \* affordances whose calls and writes need approval
    Long,           \* the long-running actions
    Unlimited,      \* the limit of a plain grant
    NoArg, NoCall,
    RaiseOnDeny,    \* authz_raise
    MaxChanges      \* the bound on changes of the description or the grants

Wild == "*"

VARIABLES
    td,         \* self._things, as the routes it gives
    vocabulary, \* self._pdp.vocabulary
    grants,     \* what grant_for answers now
    inflight,   \* self._inflight: the handle a cancel by name finds
    call,       \* where each call is
    run,        \* the device's runs of long-running actions, by the call that started one
    touched,    \* <<call, affordance>> whose operation reached a transport
    recorded,   \* <<call, affordance, permitted>> handed to the record callable
    changes

vars == <<td, vocabulary, grants, inflight, call, run, touched, recorded, changes>>
fleet == <<td, vocabulary>>
policy == <<grants, changes>>

(***************************************************************************)
(* The policy decision point.                                              *)
(***************************************************************************)

Covering(gs, aff, op) == {g \in gs : g.aff \in {Wild, aff} /\ g.op \in {Wild, op}}

\* Mutant: a call without arguments passes a limit.
WithinOrNone(limits, arg) == arg = NoArg \/ \E limit \in limits : arg \in limit

Within(limits, arg) == arg # NoArg /\ \E limit \in limits : arg \in limit

Permits(gs, words, aff, op, arg) ==
    /\ <<aff, op>> \in words
    /\ LET covering == Covering(gs, aff, op)
       IN  \/ \E g \in covering : g.limit = Unlimited
           \/ Within({g.limit : g \in covering}, arg)

(***************************************************************************)
(* What a request asks for.                                                *)
(***************************************************************************)

\* The operation a method is authorized as: pushing media is an action,
\* watching or saving it is a read of the event that offers it.
OpOf(kind) ==
    CASE kind \in {"call", "start", "publish"} -> "invokeaction"
      [] kind \in {"frames", "save"} -> "subscribeevent"
      [] kind = "set" -> "writeproperty"
      [] kind \in {"get", "read_all", "verify"} -> "readproperty"
      [] kind = "cancel" -> "cancelaction"
      [] kind = "query" -> "queryaction"

Bulk == {"read_all", "verify"}
Streamed == {"frames", "save", "publish"}
Approvable == {"call", "start", "set"}

Known(aff) == \E pair \in td : pair[1] = aff
Readable == {aff \in Affs : <<aff, "readproperty">> \in td}
Op(c) == OpOf(call[c].kind)

\* What a set of grants means for a call, said without the decision procedure.
Allows(gs, c) == \E g \in gs :
    /\ g.aff = call[c].aff \/ g.aff = Wild
    /\ g.op = Op(c) \/ g.op = Wild
    /\ g.limit = Unlimited \/ call[c].arg \in g.limit

Active(c) == call[c].phase \in {"asking", "deciding", "approving", "calling", "waiting", "recording"}

Idle == [phase |-> "idle", kind |-> "get", aff |-> CHOOSE a \in Affs : TRUE, arg |-> NoArg,
         todo |-> {}, handle |-> NoCall, seen |-> FALSE, failed |-> FALSE]

Init ==
    /\ td \in Descriptions /\ vocabulary = td
    /\ grants \in Policies
    /\ inflight = [t \in Long |-> NoCall]
    /\ call = [c \in Calls |-> Idle]
    /\ run = [c \in Calls |-> "none"]
    /\ touched = {} /\ recorded = {}
    /\ changes = 0

At(c, phase) == call[c].phase = phase
Goto(c, phase) == call' = [call EXCEPT ![c].phase = phase]
Record(c, permitted) == recorded' = recorded \cup {<<c, call[c].aff, permitted>>}

\* A bulk read goes on with its next property; verify also past a failure.
Ends(c, failed) ==
    IF call[c].kind \in Bulk /\ (~failed \/ call[c].kind = "verify") THEN "next" ELSE "over"

\* _refuse and _invalid: record, then raise or return the envelope.
Refuse(c, raises) ==
    /\ Record(c, FALSE)
    /\ Goto(c, Ends(c, raises))
    /\ UNCHANGED <<fleet, policy, inflight, run, touched>>

(***************************************************************************)
(* A call up to its first await.                                           *)
(***************************************************************************)

Begin(c) ==
    /\ At(c, "idle")
    /\ \E r \in Requests, h \in Calls \cup {NoCall} :
        /\ IF r.kind = "query" THEN h # NoCall /\ run[h] # "none" /\ call[h].aff = r.aff ELSE h = NoCall
        /\ call' = [call EXCEPT ![c] = [@ EXCEPT
               !.phase = IF r.kind \in Bulk THEN "next" ELSE "asking",
               !.kind = r.kind, !.aff = r.aff, !.arg = r.arg, !.handle = h,
               !.todo = IF r.kind \in Bulk THEN Readable ELSE {}]]
    /\ UNCHANGED <<fleet, policy, inflight, run, touched, recorded>>

\* The loop of a bulk read, over the properties there were when it began.
NextProperty(c) ==
    /\ At(c, "next")
    /\ \/ /\ call[c].todo = {} /\ Goto(c, "over")
       \/ \E p \in call[c].todo :
            call' = [call EXCEPT ![c] = [@ EXCEPT !.phase = "asking", !.aff = p,
                            !.todo = call[c].todo \ {p}, !.seen = FALSE, !.failed = FALSE]]
    /\ UNCHANGED <<fleet, policy, inflight, run, touched, recorded>>

\* A name nothing routes, and a cancel that finds no handle, return an error.
NotFound(c) ==
    /\ At(c, "asking") /\ call[c].kind # "query"
    /\ \/ ~Known(call[c].aff)
       \/ call[c].kind = "cancel" /\ inflight[call[c].aff] = NoCall
    /\ Goto(c, Ends(c, FALSE))
    /\ UNCHANGED <<fleet, policy, inflight, run, touched, recorded>>

Found(c) ==
    /\ At(c, "asking")
    /\ Known(call[c].aff) \/ call[c].kind = "query"
    /\ call[c].kind = "cancel" => inflight[call[c].aff] # NoCall

\* The TD's input schema comes before the policy.
Invalid(c) == Found(c) /\ call[c].arg = "wrong" /\ Refuse(c, FALSE)

\* The closed vocabulary is asked first; a handle whose action is gone fails
\* closed in the same way.
NotInVocabulary(c) ==
    /\ Found(c) /\ call[c].arg # "wrong"
    /\ <<call[c].aff, Op(c)>> \notin vocabulary
    /\ Refuse(c, RaiseOnDeny)

Ask(c) ==
    /\ Found(c) /\ call[c].arg # "wrong"
    /\ <<call[c].aff, Op(c)>> \in vocabulary
    /\ call' = [call EXCEPT ![c] = [@ EXCEPT !.phase = "deciding", !.seen = Allows(grants, c),
                    !.handle = IF call[c].kind = "cancel" THEN inflight[call[c].aff] ELSE call[c].handle]]
    /\ UNCHANGED <<fleet, policy, inflight, run, touched, recorded>>

(***************************************************************************)
(* Decision, approval, and the device.                                     *)
(***************************************************************************)

Touch(c) == touched' = touched \cup {<<c, call[c].aff>>} /\ Goto(c, "calling")

\* decide, with the grants of the moment the source answers; the vocabulary
\* was looked at before it was asked.
Decide(c) ==
    /\ At(c, "deciding")
    /\ IF Permits(grants, {<<call[c].aff, Op(c)>>}, call[c].aff, Op(c), call[c].arg)
       THEN /\ IF call[c].kind \in Approvable /\ call[c].aff \in Gated
               THEN Goto(c, "approving") /\ UNCHANGED touched
               ELSE Touch(c)
            /\ UNCHANGED <<fleet, policy, inflight, run, recorded>>
       ELSE Refuse(c, RaiseOnDeny)

Approve(c) ==
    /\ At(c, "approving") /\ Touch(c)
    /\ UNCHANGED <<fleet, policy, inflight, run, recorded>>

Block(c) == At(c, "approving") /\ Refuse(c, FALSE)

\* The transport answers: a long-running action with its handle, a cancel
\* after the device took it.
Returns(c) ==
    /\ At(c, "calling")
    /\ LET k == call[c].kind
           long == k \in {"call", "start"} /\ call[c].aff \in Long
           stop == k = "cancel" /\ run[call[c].handle] = "running"
       IN  /\ run' = IF long THEN [run EXCEPT ![c] = "running"]
                     ELSE IF stop THEN [run EXCEPT ![call[c].handle] = "cancelled"] ELSE run
           /\ inflight' = IF long /\ k = "call" THEN [inflight EXCEPT ![call[c].aff] = c] ELSE inflight
           /\ Goto(c, IF long /\ k = "call" THEN "waiting" ELSE IF k \in Streamed THEN "over" ELSE "recording")
    /\ UNCHANGED <<fleet, policy, touched, recorded>>

Raises(c) ==
    /\ At(c, "calling")
    /\ call' = [call EXCEPT ![c] = [@ EXCEPT !.failed = TRUE,
                    !.phase = IF call[c].kind \in Streamed THEN "over" ELSE "recording"]]
    /\ UNCHANGED <<fleet, policy, inflight, run, touched, recorded>>

\* The finally of the blocking wait: whatever the table holds for the tool.
Unregister(c) == [inflight EXCEPT ![call[c].aff] = NoCall]

\* Mutants: only a run that ended frees its entry; no deadline.
WaitEndsKeeping(c) ==
    /\ At(c, "waiting") /\ Goto(c, "recording")
    /\ inflight' = IF run[c] = "running" THEN inflight ELSE Unregister(c)
    /\ UNCHANGED <<fleet, policy, run, touched, recorded>>

WaitEndsWhenDone(c) ==
    /\ At(c, "waiting") /\ run[c] # "running"
    /\ Goto(c, "recording") /\ inflight' = Unregister(c)
    /\ UNCHANGED <<fleet, policy, run, touched, recorded>>

\* A poll sees the end of the run, or the deadline passes with the last poll.
WaitEnds(c) ==
    /\ At(c, "waiting")
    /\ Goto(c, "recording") /\ inflight' = Unregister(c)
    /\ UNCHANGED <<fleet, policy, run, touched, recorded>>

\* Mutant: a call that raised is not recorded.
RecordIfReturned(c) ==
    /\ At(c, "recording")
    /\ IF call[c].failed THEN UNCHANGED recorded ELSE Record(c, TRUE)
    /\ Goto(c, Ends(c, call[c].failed))
    /\ UNCHANGED <<fleet, policy, inflight, run, touched>>

RecordRun(c) ==
    /\ At(c, "recording")
    /\ Record(c, TRUE) /\ Goto(c, Ends(c, call[c].failed))
    /\ UNCHANGED <<fleet, policy, inflight, run, touched>>

\* CancelledError at an await is not an Exception: nothing is recorded.
Cancelled(c) ==
    /\ Active(c) /\ call' = [call EXCEPT ![c].phase = "cancelled"]
    /\ inflight' = IF At(c, "waiting") THEN Unregister(c) ELSE inflight
    /\ UNCHANGED <<fleet, policy, run, touched, recorded>>

(***************************************************************************)
(* The rest of the world.                                                  *)
(***************************************************************************)

DeviceFinishes(c) ==
    /\ run[c] = "running" /\ run' = [run EXCEPT ![c] = "completed"]
    /\ UNCHANGED <<fleet, policy, inflight, call, touched, recorded>>

\* The same Thing describes itself anew: routes, tables and vocabulary follow.
AddThings ==
    /\ changes < MaxChanges /\ changes' = changes + 1
    /\ td' \in Descriptions /\ vocabulary' = td'
    /\ inflight' = [t \in Long |-> NoCall]
    /\ UNCHANGED <<grants, call, run, touched, recorded>>

\* A call that is being decided has now also met the grants gs.
Sees(c, gs) == call[c].seen \/ (At(c, "deciding") /\ Allows(gs, c))

Regrant ==
    /\ changes < MaxChanges /\ changes' = changes + 1
    /\ grants' \in Policies
    /\ call' = [c \in Calls |-> [call[c] EXCEPT !.seen = Sees(c, grants')]]
    /\ UNCHANGED <<fleet, inflight, run, touched, recorded>>

Steps(c) ==
    \/ NextProperty(c) \/ NotFound(c) \/ Invalid(c) \/ NotInVocabulary(c) \/ Ask(c) \/ Decide(c)
    \/ WaitEnds(c) \/ RecordRun(c)

Next ==
    \/ \E c \in Calls : \/ Begin(c) \/ Steps(c) \/ Approve(c) \/ Block(c) \/ Returns(c) \/ Raises(c)
                        \/ Cancelled(c) \/ DeviceFinishes(c)
    \/ AddThings \/ Regrant

Spec == Init /\ [][Next]_vars

\* The client's own steps run; callers, transports and approvers may stop.
FairSpec == Spec /\ \A c \in Calls : WF_vars(Steps(c))
(***************************************************************************)
(* Properties.                                                             *)
(***************************************************************************)

\* What is recorded of a call is what happened to the device: an operation
\* that reached a transport has one record, of a permitted one, when its call
\* is over, and one that was refused never reaches it, later or in a bulk
\* read (_run_recorded, _refuse).
RecordTells ==
    \A c \in Calls, a \in Affs :
        /\ <<c, a, FALSE>> \in recorded => <<c, a>> \notin touched
        /\ <<c, a, TRUE>> \in recorded => <<c, a>> \in touched
        /\ At(c, "over") /\ <<c, a>> \in touched /\ call[c].kind \notin Streamed
              => <<c, a, TRUE>> \in recorded

\* The device is touched for nothing the grants did not allow, arguments
\* included, at a moment between the question and the answer, whichever
\* method or bulk read asks (_decide, _covering, _within).
NeverBeyondGrants ==
    [][\A c \in Calls : call'[c].phase = "calling" => call'[c].seen]_vars

\* The table a cancel by name reads never holds a run nobody waits for any
\* more, nor one of another tool (_invoke_async's registration and its finally).
HandlesAreWaited ==
    \A t \in Long : inflight[t] # NoCall => At(inflight[t], "waiting") /\ call[inflight[t]].aff = t

\* A blocking call returns though its run never ends (_wait_for's deadline).
WaitsEnd == \A c \in Calls : At(c, "waiting") ~> ~At(c, "waiting")
=============================================================================
