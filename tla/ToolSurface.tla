---------------------------- MODULE ToolSurface ----------------------------
(***************************************************************************)
(* The tools an MCP client is offered and what calling one reaches, while  *)
(* Things are added and re-described at run time.  A client derives its    *)
(* routes from its Things, a clone keeps those it was made with, and the   *)
(* clones share one policy; the bridge keeps the media tools, and in       *)
(* gateway mode the Things, it found when it was built.  A name is the     *)
(* sequence of its parts between double underscores.                       *)
(***************************************************************************)
EXTENDS Naturals, Sequences

CONSTANTS
    Descriptions,   \* Things as described: [id, slug, scheme, affs]
    Fleets,         \* the sequences of them a client is built over
    Calls,
    MaxAdds

\* The constructor refuses two ids of one slug.  No affordance has the name another
\* one's suffix makes, or that of a snapshot tool of its slug.
SurfaceAssumption ==
    /\ Fleets \subseteq Seq(Descriptions)
    /\ \A t \in Descriptions : t.slug \in STRING /\ DOMAIN t.affs \subseteq Seq(STRING)
    /\ \A fleet \in Fleets : \A i, j \in DOMAIN fleet : fleet[i].slug = fleet[j].slug => i = j
    /\ \A t \in Descriptions : \A n \in DOMAIN t.affs :
         /\ t.affs[n].kind \in {"property", "action", "event"}
         /\ n \o <<"set">> \in DOMAIN t.affs => t.affs[n].kind # "property"
         /\ n \o <<"get">> \in DOMAIN t.affs => t.affs[n].kind # "property"
         /\ n \o <<"cancel">> \in DOMAIN t.affs => t.affs[n].kind # "action"
         /\ t.affs[n].media => \A u \in Descriptions : u.slug = t.slug =>
                <<"snapshot">> \notin DOMAIN u.affs /\ n \o <<"snapshot">> \notin DOMAIN u.affs

VARIABLES
    things,         \* the base client's _things, the routes' only source
    vocabulary,     \* the policy's, shared by every clone
    security,       \* AuthMixin._things_by_id, as the scheme of each owner
    gateway,        \* the Thing of each slug in a GatewayProjection, {} for flat tools
    mediaTools,     \* the bridge's snapshot tools: tool name -> media name
    connected,      \* the Things a user has signed in to
    call, adds

vars == <<things, vocabulary, security, gateway, mediaTools, connected, call, adds>>

Elements(ths) == {ths[i] : i \in DOMAIN ths}

\* A Thing is among these as described, and has its slug for itself.
Alone(t, ths) == t \in Elements(ths) /\ \A u \in Elements(ths) : u.slug = t.slug => u = t

(***************************************************************************)
(* What a description offers (parse_thing, build_vocabulary).              *)
(***************************************************************************)

Default == [property |-> {"readproperty", "writeproperty"}, action |-> {"invokeaction"},
            event |-> {"subscribeevent", "unsubscribeevent"}]

OfKind == [property |-> {"readproperty", "writeproperty", "observeproperty", "unobserveproperty"},
           action |-> {"invokeaction", "queryaction", "cancelaction"}, event |-> Default["event"]]

Readable(a) ==
    LET ops == UNION a.forms
    IN  ~a.writeOnly /\ (ops = {} \/ ops \cap {"readproperty", "observeproperty"} # {})
Writable(a) ==
    LET ops == UNION a.forms
    IN  ~a.readOnly /\ (ops = {} \/ "writeproperty" \in ops)

\* A form without ops stands for the defaults, one with ops restricts them.
Offers(a) ==
    {op \in OfKind[a.kind] \cap UNION {IF ops = {} THEN Default[a.kind] ELSE ops : ops \in a.forms} :
        (op = "readproperty" => Readable(a)) /\ (op = "writeproperty" => Writable(a))}

Grantable(ths) ==
    UNION {UNION {{<<t.id, n, op>> : op \in Offers(t.affs[n])} : n \in DOMAIN t.affs} : t \in Elements(ths)}

(***************************************************************************)
(* What a name reaches in a client over some Things (_reindex).            *)
(***************************************************************************)

Name(t, n) == <<t.slug>> \o n
Names(ths) == UNION {{Name(t, n) : n \in DOMAIN t.affs} : t \in Elements(ths)}

\* The Thing a name is of, {} where there is none; the last one wins a shared slug.
Holder(ths, kind, name) ==
    LET having == {i \in DOMAIN ths : /\ name # <<>> /\ Head(name) = ths[i].slug
                                      /\ Tail(name) \in DOMAIN ths[i].affs
                                      /\ ths[i].affs[Tail(name)].kind = kind}
    IN  {ths[i] : i \in {i \in having : \A j \in having : j <= i}}

Routed(ths, kind, name) == {t \in Holder(ths, kind, name) : ~t.affs[Tail(name)].media}

\* Streams leave the routes for a map of their own, a property over an event.
Media(ths, name) ==
    LET watched(kind) == {t \in Holder(ths, kind, name) : t.affs[Tail(name)].media}
    IN  IF watched("property") # {} THEN watched("property")
        ELSE IF watched("event") # {} THEN watched("event") ELSE watched("action")

MediaOp == [property |-> "observeproperty", event |-> "subscribeevent", action |-> "invokeaction"]

Reach(ts, n, op) == {[of |-> t, aff |-> n, op |-> op] : t \in ts}
Nowhere == {}

Frames(ths, name) ==
    UNION {Reach({t}, Tail(name), MediaOp[t.affs[Tail(name)].kind]) : t \in Media(ths, name)}

Base(name) == SubSeq(name, 1, Len(name) - 1)
Ends(name, suffix) == name # <<>> /\ name[Len(name)] = suffix

\* Mutant: a suffix decides before the routes are asked.
CallToolBySuffix(ths, name) ==
    CASE Ends(name, "cancel") -> Reach(Routed(ths, "action", Base(name)), Tail(Base(name)), "cancelaction")
      [] Ends(name, "set") -> Reach(Routed(ths, "property", Base(name)), Tail(Base(name)), "writeproperty")
      [] Ends(name, "get") -> Reach(Routed(ths, "property", Base(name)), Tail(Base(name)), "readproperty")
      [] OTHER -> Reach(Routed(ths, "action", name), Tail(name), "invokeaction")

\* ThingClient.call_tool: a suffix is one only where what it follows is routed.
CallTool(ths, name) ==
    CASE Ends(name, "cancel") /\ Routed(ths, "action", Base(name)) # {} ->
            Reach(Routed(ths, "action", Base(name)), Tail(Base(name)), "cancelaction")
      [] Ends(name, "set") /\ Routed(ths, "property", Base(name)) # {} ->
            Reach(Routed(ths, "property", Base(name)), Tail(Base(name)), "writeproperty")
      [] Ends(name, "get") /\ Routed(ths, "property", Base(name)) # {} ->
            Reach(Routed(ths, "property", Base(name)), Tail(Base(name)), "readproperty")
      [] OTHER -> Reach(Routed(ths, "action", name), Tail(name), "invokeaction")

(***************************************************************************)
(* The tools: [name, op, aff, of].                                         *)
(***************************************************************************)

Tool(name, aff, op, of) == [name |-> name, aff |-> aff, op |-> op, of |-> of]

\* tool_surface: the tools of an action and of a property that is not a stream.
Surface(name) ==
    {Tool(name, Tail(name), "invokeaction", t) : t \in Routed(things, "action", name)}
    \cup {Tool(name \o <<"cancel">>, Tail(name), "cancelaction", t) :
             t \in {u \in Routed(things, "action", name) : u.affs[Tail(name)].long}}
    \cup {Tool(name \o <<"get">>, Tail(name), "readproperty", t) :
             t \in {u \in Routed(things, "property", name) : Readable(u.affs[Tail(name)])}}
    \cup {Tool(name \o <<"set">>, Tail(name), "writeproperty", t) :
             t \in {u \in Routed(things, "property", name) : Writable(u.affs[Tail(name)])}}

\* list_tools with flat tools: the surface of now, without the property reads,
\* which are resources, and the snapshots of when the bridge was built.
Listed ==
    {tool \in UNION {Surface(name) : name \in Names(things)} : tool.op # "readproperty"}
    \cup UNION {{Tool(tool, r.aff, r.op, r.of) : r \in Frames(things, mediaTools[tool])}
             : tool \in DOMAIN mediaTools}

\* describe, of a projection that resolves a slug in its own table.
Described ==
    UNION {LET t == gateway[slug] IN UNION {
             LET a == t.affs[n] name == Name(t, n) IN
             IF Media(things, name) # {} THEN {Tool(name, n, MediaOp[a.kind], t)}
             ELSE {Tool(name, n, op, t) : op \in
                     CASE a.kind = "action" -> {"invokeaction"}
                       [] a.kind = "property" -> {x \in {"readproperty"} : Readable(a)}
                                                 \cup {x \in {"writeproperty"} : Writable(a)}
                       [] a.kind = "event" -> {}}
             : n \in DOMAIN t.affs} : slug \in DOMAIN gateway}

Flat == gateway = <<>>

(***************************************************************************)
(* A call.                                                                 *)
(***************************************************************************)

NothingListed == Tool(<<>>, <<>>, "none", "none")
Idle == [phase |-> "idle", tool |-> NothingListed, alone |-> FALSE, view |-> <<>>, target |-> Nowhere,
         signed |-> "none"]

MediaNames(ths) == {nm \in Names(ths) : Media(ths, nm) # {}}

\* One stream of a slug gets <slug>__snapshot, any other its own name's.
SnapshotTools(ths) ==
    LET first(slug) == CHOOSE nm \in MediaNames(ths) : Head(nm) = slug
        toolOf(nm) == (IF nm = first(Head(nm)) THEN <<Head(nm)>> ELSE nm) \o <<"snapshot">>
    IN  [tool \in {toolOf(nm) : nm \in MediaNames(ths)} |->
            CHOOSE nm \in MediaNames(ths) : toolOf(nm) = tool]

SlugTable(ths) ==
    [slug \in {t.slug : t \in Elements(ths)} |-> CHOOSE t \in Elements(ths) : t.slug = slug]

Init ==
    /\ things \in Fleets
    /\ vocabulary = Grantable(things)
    /\ security = [id \in {t.id : t \in Elements(things)} |->
                      (CHOOSE t \in Elements(things) : t.id = id).scheme]
    /\ gateway \in {<<>>, SlugTable(things)}
    /\ mediaTools = SnapshotTools(things)
    /\ connected = {} /\ call = [c \in Calls |-> Idle] /\ adds = 0

\* An agent takes a tool from a listing, which it may keep as long as it likes.  "alone"
\* is history: whether the fleet was then as the tool has it.
List(c, tool) ==
    /\ call[c].phase = "idle" /\ tool \in IF Flat THEN Listed ELSE Described
    /\ call' = [call EXCEPT ![c] = [Idle EXCEPT !.phase = "listed", !.tool = tool,
                                                !.alone = Alone(tool.of, things)]]
    /\ UNCHANGED <<things, vocabulary, security, gateway, mediaTools, connected, adds>>

\* thing_for_tool: the owner of the action, else the first Thing of the slug.
ThingForTool(name) ==
    LET slugged == {i \in DOMAIN things : name # <<>> /\ things[i].slug = Head(name)}
    IN  IF Routed(things, "action", name) # {} THEN Routed(things, "action", name)
        ELSE {things[i] : i \in {i \in slugged : \A j \in slugged : i <= j}}

\* Mutant: a verb is looked up by its own name.
ConnectTargetOfVerb(tool) == IF Flat THEN ThingForTool(tool.name) ELSE {}

\* A verb names its Thing in the arguments, the snapshot verb under a key that
\* is not looked at.
ConnectTarget(tool) ==
    IF ~Flat /\ Media(things, tool.name) # {} THEN {} ELSE ThingForTool(tool.name)

\* The request gets a client of its own; its Thing may need a sign-in first.
Arrive(c) ==
    /\ call[c].phase = "listed"
    /\ LET unsigned == {t \in ConnectTarget(call[c].tool) : t.scheme = "code" /\ t.id \notin connected}
       IN  call' = [call EXCEPT ![c].view = things,
                                ![c].phase = IF unsigned = {} THEN "dispatching" ELSE "connecting",
                                ![c].signed = IF unsigned = {} THEN "none"
                                              ELSE (CHOOSE t \in unsigned : TRUE).id]
    /\ UNCHANGED <<things, vocabulary, security, gateway, mediaTools, connected, adds>>

\* The user accepts, and the browser comes back with a token, or does not.
Connect(c) ==
    /\ call[c].phase = "connecting"
    /\ \/ connected' = connected \cup {call[c].signed} /\ call' = [call EXCEPT ![c].phase = "dispatching"]
       \/ call' = [call EXCEPT ![c].phase = "refused"] /\ UNCHANGED connected
    /\ UNCHANGED <<things, vocabulary, security, gateway, mediaTools, adds>>

\* A verb is checked against the projection's table, then runs by name on the
\* bridge's own client.
ByVerb(tool) ==
    LET slug == Head(tool.name) n == Tail(tool.name)
        has(kind) == slug \in DOMAIN gateway /\ n \in DOMAIN gateway[slug].affs /\ gateway[slug].affs[n].kind = kind
    IN  CASE tool.of.affs[n].media -> Frames(things, tool.name)
          [] ~tool.of.affs[n].media /\ tool.op = "invokeaction" ->
                IF has("action") THEN CallTool(things, tool.name) ELSE Nowhere
          [] OTHER -> IF has("property") THEN Reach(Routed(things, "property", tool.name), n, tool.op) ELSE Nowhere

\* A snapshot tool is looked up first, another flat tool runs on the request's client.
Resolved(tool, view) ==
    CASE ~Flat -> ByVerb(tool)
      [] Flat /\ tool.name \in DOMAIN mediaTools -> Frames(things, mediaTools[tool.name])
      [] OTHER -> CallTool(view, tool.name)

Dispatch(c) ==
    /\ call[c].phase = "dispatching"
    /\ LET target == Resolved(call[c].tool, call[c].view)
       IN  call' = [call EXCEPT ![c].target = target, ![c].phase =
               IF target = Nowhere THEN "unknown"
               ELSE IF \A r \in target : <<r.of.id, r.aff, r.op>> \in vocabulary THEN "calling" ELSE "denied"]
    /\ UNCHANGED <<things, vocabulary, security, gateway, mediaTools, connected, adds>>

\* After the grants and an approver have answered: the request is signed and sent.
Touch(c) ==
    /\ call[c].phase = "calling"
    /\ call' = [call EXCEPT ![c].phase = "sent",
                            ![c].signed = security[(CHOOSE r \in call[c].target : TRUE).of.id]]
    /\ UNCHANGED <<things, vocabulary, security, gateway, mediaTools, connected, adds>>

(***************************************************************************)
(* add_things.                                                             *)
(***************************************************************************)

\* A known id keeps its place, a new one is last.
Merged(t) ==
    IF t.id \in DOMAIN security THEN [i \in DOMAIN things |-> IF things[i].id = t.id THEN t ELSE things[i]]
    ELSE Append(things, t)

Describe(t) ==
    /\ adds < MaxAdds /\ adds' = adds + 1 /\ t \notin Elements(things)
    /\ things' = Merged(t)
    /\ security' = [id \in DOMAIN security \cup {t.id} |-> IF id = t.id THEN t.scheme ELSE security[id]]
    /\ UNCHANGED <<gateway, mediaTools, connected, call>>

\* Mutant: the policy keeps the vocabulary it was built with.
AddThingsOnly(t) == Describe(t) /\ UNCHANGED vocabulary

AddThings(t) == Describe(t) /\ vocabulary' = Grantable(things')

Next ==
    \/ \E c \in Calls :
          \/ \E tool \in IF Flat THEN Listed ELSE Described : List(c, tool)
          \/ Arrive(c) \/ Connect(c) \/ Dispatch(c) \/ Touch(c)
    \/ \E t \in Descriptions : AddThings(t)

Spec == Init /\ [][Next]_vars

(***************************************************************************)
(* Properties.                                                             *)
(***************************************************************************)

\* Listing and dispatch agree on a name, with or without a suffix and in both
\* projections: while a Thing is described as its tool has it and has its slug for
\* itself, in gateway mode when the tool was listed too, a call reaches what was listed,
\* under the operation that was listed, and is denied only what no grant can give.
ListedReachesItself ==
    [][\A c \in Calls :
          LET listed == call[c].tool IN
          /\ call[c].phase = "dispatching" /\ call'[c].phase # "dispatching"
          /\ Flat \/ call[c].alone
          /\ Alone(listed.of, things) /\ Alone(listed.of, call[c].view)
          => /\ call'[c].target = {[of |-> listed.of, aff |-> listed.aff, op |-> listed.op]}
             /\ call'[c].phase = "denied" => listed.op \notin Offers(listed.of.affs[listed.aff])]_vars

\* "Keep authorization in lockstep with the fleet" (add_things): through a clone that
\* still routes a replaced description, nothing is permitted that the fleet no longer
\* offers, and what is sent carries the security its Thing declares now.
FollowsTheFleet ==
    [][\A c \in Calls :
          /\ call[c].phase # "calling" /\ call'[c].phase = "calling" =>
                \A r \in call'[c].target : <<r.of.id, r.aff, r.op>> \in Grantable(things)
          /\ call[c].phase # "sent" /\ call'[c].phase = "sent" =>
                \A r \in call'[c].target : \E t \in Elements(things) :
                    t.id = r.of.id /\ call'[c].signed = t.scheme]_vars

\* "Connect a user-authorized Thing on demand" (call_tool): a call of a tool whose
\* Thing needed a sign-in when it arrived is not sent without one, but for a snapshot
\* in gateway mode.
SignedInBeforeSent ==
    \A c \in Calls : call[c].phase = "sent" => \A r \in call[c].target :
        r.of.scheme = "code" /\ Alone(r.of, call[c].view) /\ (Flat \/ ~r.of.affs[r.aff].media)
            => r.of.id \in connected
=============================================================================
