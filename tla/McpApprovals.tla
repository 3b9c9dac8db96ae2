---------------------------- MODULE McpApprovals ----------------------------
(***************************************************************************)
(* The gated calls of the MCP bridge: a tool call is decided by the policy *)
(* for an identity, then, when it changes external state, confirmed by the *)
(* user, in a dialog where the client has one or else by the approve tool, *)
(* which redeems the token the call was parked under and replays it.       *)
(***************************************************************************)
EXTENDS Naturals

CONSTANTS
    Requests,       \* tools/call requests; a parked call's token is its request
    Callers,        \* identities a bearer token carried
    Server,         \* the bridge's own identity
    Tools, Gated,   \* the tools, those whose policy asks for approval
    Dialog,         \* the callers whose client supports elicitation
    GatewayMode,    \* the tools are the six verbs of a GatewayProjection
    TTL,            \* _APPROVAL_TTL_S, in ticks
    MaxTime,        \* bound: ticks of the clock
    MaxRegrants,    \* bound: changes of the grants
    NoTool          \* what a request runs before it has a tool

Identities == Callers \cup {Server}

ApprovalsAssumption ==
    /\ Server \notin Callers /\ Gated \subseteq Tools /\ Dialog \subseteq Callers
    /\ GatewayMode \in BOOLEAN
    /\ TTL \in Nat /\ MaxTime \in Nat /\ MaxRegrants \in Nat
    /\ NoTool \notin Tools

VARIABLES
    status,     \* where each request is
    caller,     \* who sent it
    tool,       \* what it runs
    runsAs,     \* the identity its client clone carries
    confirms,   \* its client clone's approver says yes (approving(_yes))
    redeemed,   \* the token an approve request released, {} for another request
    created,    \* when each call was parked
    pending,    \* _pending: the tokens an approve can redeem
    granted,    \* the <<identity, tool>> the policy permits now
    permitted,  \* the requests the policy permitted
    accepted,   \* the requests a user said yes to in a dialog
    now, regrants

requestVars == <<status, tool, runsAs, confirms, redeemed, created, pending>>
vars == <<requestVars, caller, granted, permitted, accepted, now, regrants>>

Init ==
    /\ status = [r \in Requests |-> "none"]
    /\ caller = [r \in Requests |-> Server]
    /\ tool = [r \in Requests |-> NoTool]
    /\ runsAs = [r \in Requests |-> Server]
    /\ confirms = [r \in Requests |-> FALSE]
    /\ redeemed = [r \in Requests |-> {}]
    /\ created = [r \in Requests |-> 0]
    /\ pending = {} /\ permitted = {} /\ accepted = {}
    /\ granted \in SUBSET (Identities \X Tools)
    /\ now = 0 /\ regrants = 0

Move(r, to) == status' = [status EXCEPT ![r] = to]

------------------------------------------------------------------------------
(* A request arrives (call_tool).                                          *)

\* The client of a call: the request's, except that the verbs of gateway mode
\* are those of a projection built over the bridge's own client.
ClientOf(c) == IF GatewayMode THEN Server ELSE c

Call(r, c, t) ==
    /\ status[r] = "none"
    /\ Move(r, "deciding")
    /\ caller' = [caller EXCEPT ![r] = c]
    /\ tool' = [tool EXCEPT ![r] = t]
    /\ runsAs' = [runsAs EXCEPT ![r] = ClientOf(c)]
    /\ UNCHANGED <<confirms, redeemed, created, pending, granted, permitted, accepted,
                   now, regrants>>

\* approve first expires what is too old.
Fresh == {p \in pending : now - created[p] <= TTL}

\* Mutant: the token is looked up, not popped.
ApproveKeeps(r, c, p) ==
    /\ status[r] = "none" /\ status[p] # "none"
    /\ caller' = [caller EXCEPT ![r] = c]
    /\ pending' = Fresh
    /\ IF p \in Fresh
       THEN /\ Move(r, "deciding")
            /\ tool' = [tool EXCEPT ![r] = tool[p]]
            /\ runsAs' = [runsAs EXCEPT ![r] = Server]
            /\ confirms' = [confirms EXCEPT ![r] = TRUE]
            /\ redeemed' = [redeemed EXCEPT ![r] = {p}]
       ELSE Move(r, "over") /\ UNCHANGED <<tool, runsAs, confirms, redeemed>>
    /\ UNCHANGED <<created, granted, permitted, accepted, now, regrants>>

\* Mutant: the approver that says yes is set on the client the calls share.
ApproveShared(r, c, p) ==
    /\ status[r] = "none" /\ status[p] # "none"
    /\ caller' = [caller EXCEPT ![r] = c]
    /\ pending' = Fresh \ {p}
    /\ IF p \in Fresh
       THEN /\ Move(r, "deciding")
            /\ tool' = [tool EXCEPT ![r] = tool[p]]
            /\ runsAs' = [runsAs EXCEPT ![r] = Server]
            /\ confirms' = [q \in Requests |-> confirms[q] \/ status[q] # "none" \/ q = r]
            /\ redeemed' = [redeemed EXCEPT ![r] = {p}]
       ELSE Move(r, "over") /\ UNCHANGED <<tool, runsAs, confirms, redeemed>>
    /\ UNCHANGED <<created, granted, permitted, accepted, now, regrants>>

\* The parked call runs through a clone of the bridge's own client whose approver
\* says yes; an unknown, used or aged token is an error.
Approve(r, c, p) ==
    /\ status[r] = "none" /\ status[p] # "none"
    /\ caller' = [caller EXCEPT ![r] = c]
    /\ pending' = Fresh \ {p}
    /\ IF p \in Fresh
       THEN /\ Move(r, "deciding")
            /\ tool' = [tool EXCEPT ![r] = tool[p]]
            /\ runsAs' = [runsAs EXCEPT ![r] = Server]
            /\ confirms' = [confirms EXCEPT ![r] = TRUE]
            /\ redeemed' = [redeemed EXCEPT ![r] = {p}]
       ELSE Move(r, "over") /\ UNCHANGED <<tool, runsAs, confirms, redeemed>>
    /\ UNCHANGED <<created, granted, permitted, accepted, now, regrants>>

------------------------------------------------------------------------------
(* It is decided, then gated (ThingClient.invoke, gate_action).            *)

Permitted(r) == <<runsAs[r], tool[r]>> \in granted

Deny(r) ==
    /\ status[r] = "deciding" /\ ~Permitted(r)
    /\ Move(r, "over")
    /\ UNCHANGED <<caller, tool, runsAs, confirms, redeemed, created, pending, granted,
                   permitted, accepted, now, regrants>>

Permit(r, to) ==
    /\ status[r] = "deciding" /\ Permitted(r)
    /\ Move(r, to)
    /\ permitted' = permitted \cup {r}
    /\ UNCHANGED <<caller, tool, runsAs, confirms, redeemed, granted, accepted, now, regrants>>

Park(r) ==
    /\ pending' = pending \cup {r}
    /\ created' = [created EXCEPT ![r] = now]

NeedsApproval(r) == tool[r] \in Gated /\ ~confirms[r]

RunAtOnce(r) ==
    /\ ~NeedsApproval(r) /\ Permit(r, "running") /\ UNCHANGED <<created, pending>>

AskInDialog(r) ==
    /\ NeedsApproval(r) /\ caller[r] \in Dialog
    /\ Permit(r, "asking") /\ UNCHANGED <<created, pending>>

\* No dialog: the call waits under a token, and answers needs_approval.
ParkAtOnce(r) ==
    /\ NeedsApproval(r) /\ caller[r] \notin Dialog
    /\ Permit(r, "parked") /\ Park(r)

\* The user's answer; a dialog that fails parks the call.
Answered(r) ==
    /\ status[r] = "asking"
    /\ \/ Move(r, "running") /\ accepted' = accepted \cup {r} /\ UNCHANGED <<created, pending>>
       \/ Move(r, "over") /\ UNCHANGED <<accepted, created, pending>>
       \/ Move(r, "parked") /\ Park(r) /\ UNCHANGED accepted
    /\ UNCHANGED <<caller, tool, runsAs, confirms, redeemed, granted, permitted, now, regrants>>

\* The device call returns.
Done(r) ==
    /\ status[r] = "running"
    /\ Move(r, "over")
    /\ UNCHANGED <<caller, tool, runsAs, confirms, redeemed, created, pending, granted,
                   permitted, accepted, now, regrants>>

------------------------------------------------------------------------------
Tick ==
    /\ now < MaxTime
    /\ now' = now + 1
    /\ UNCHANGED <<requestVars, caller, granted, permitted, accepted, regrants>>

Regrant ==
    /\ regrants < MaxRegrants
    /\ regrants' = regrants + 1
    /\ granted' \in SUBSET (Identities \X Tools) /\ granted' # granted
    /\ UNCHANGED <<requestVars, caller, permitted, accepted, now>>

Arrives(r) ==
    \E c \in Callers :
        \/ \E t \in Tools : Call(r, c, t)
        \/ \E p \in Requests \ {r} : Approve(r, c, p)

Runs(r) ==
    \/ Deny(r) \/ RunAtOnce(r) \/ AskInDialog(r) \/ ParkAtOnce(r)
    \/ Done(r)

Next ==
    \/ \E r \in Requests : Arrives(r) \/ Runs(r) \/ Answered(r)
    \/ Tick \/ Regrant

Spec == Init /\ [][Next]_vars

------------------------------------------------------------------------------
Consented(r) == r \in accepted \/ redeemed[r] # {}

\* "The bypass is scoped to a per-call client clone ... so a concurrent unrelated
\* gated call ... still faces the real approver" (_run_gated_call): a gated tool
\* runs only for a call whose own user said yes, in the dialog or by its token.
GatedNeedsConsent ==
    \A r \in Requests : status[r] = "running" /\ tool[r] \in Gated => Consented(r)

\* "it may have expired or already run": a parked call is replayed at most once,
\* and what is replayed is what was parked.
OneRunPerApproval ==
    \A r \in Requests :
        /\ \A p \in redeemed[r] : tool[r] = tool[p] /\ p \notin pending
        /\ \A q \in Requests \ {r} : redeemed[r] \cap redeemed[q] = {}

\* "A denied call must not prompt for approval" (invoke): what a user is asked, in
\* a dialog or with a token, the policy has permitted.
DeniedNeverPrompts ==
    \A r \in Requests : status[r] \in {"asking", "parked"} => r \in permitted

=============================================================================
