# thingctx, specified in TLA+

thingctx turns W3C Thing Descriptions (TDs) into tools an agent can call. It authorizes each
operation, asks the user where the operation changes something, and carries the call over the
device's own transport; a gateway serves the same Things to other clients. This directory models
the parts of it where several things happen at once, or where several places have to agree,
checks them with TLC, and proves what matters most of each of them with TLAPS.

Paths below are relative to the repository; `thingctx/` stands for `src/thingctx/`.

1. [The system](#1-the-system)
2. [The modules](#2-the-modules)
3. [What the runs show](#3-what-the-runs-show)
4. [What is proved](#4-what-is-proved)
5. [Where code and documentation part](#5-where-code-and-documentation-part)
6. [What is not modelled](#6-what-is-not-modelled)
7. [Plan](#7-plan)

## 1. The system

```
  MQTT clients          MCP hosts           application code
       |                    |                      |
  broker, its rules         |                      |
  (mosquitto.py)            |                      |
       |                    |                      |
  gateways/builtin/     integrations/              |
  mqtt.py               mcp.py, connect.py         |
       |  engine.py         |  gateway.py          |
       +---------+----------+----------------------+
                 v
         ThingClient (runtime.py) --> PDP/PEP (authz/), trust gate (trust.py)
                 |                         thing.py, openapi.py: what a tool is
         bindings/: mqtt, http (+ chain.py, reliability.py), rosbridge, media, local, redis, exec
                 |                     |
         the devices            auth/ (credentials), identity/ (who calls)
```

Everything is asyncio on one loop, with threads at the edges: paho's network thread, the
executor threads and the writer thread of the media binding, `asyncio.to_thread` around
blocking libraries. Two coroutines interleave only where one awaits; a thread interleaves
anywhere.

| component | state it keeps | operations | what is hard | what makes it correct |
|---|---|---|---|---|
| **MQTT gateway, life of the connection** `gateways/builtin/mqtt.py` | `_Startup` record (connected, pending mids, unsent, refused, event), `_routes`, `_event_tasks`, paho's callbacks | `serve`, `aclose`, `_on_reconnect`, `_stop_serving` | callbacks of a second thread, posted to the loop; connection lost at any point; start cancelled, refused, timed out | a start that returned serves every topic; a reconnection serves again |
| **MQTT gateway, requests** `gateways/builtin/mqtt.py`, `gateways/engine.py` | one task per request; `_streams`, `_event_tasks`; the caller's mirrors | `_handle`, `_handle_subscribe`, `_start_caller_mirror`, `_stop_serving` | every await lets other requests, the policy, the clock and a stop in | only what the sender may do is done; one mirror per stream; a lapse cuts it; replies tell the truth |
| **Address plan** `engine._project`, `project_forms`, `_serve_thing`, `mosquitto.py` | routes, compiled rules | project, route, compile, match | one topic is spelled in four places, over wildcards and grants that move | a projected form reaches what it was projected for; the rules stop what the grants do not cover |
| **Client runtime** `runtime.py` | things, bindings, `_inflight`, recorder | `invoke`, `read`, `write`, `subscribe`, bulk reads, `add_things`, action runs | validate, decide, approve, call, record is one order, with awaits between | no call beyond the grants of its time; every call recorded as it was; waits end |
| **PDP/PEP** `authz/` | grants from a source, a vocabulary | `decide`, `_authorized_stream` | decisions go stale, and so does the vocabulary | a decision is taken on the grants and the fleet of its moment; a stream is decided value by value |
| **Trust gate** `trust.py` | policies per affordance | `gate_action`, `gate_write`, `verify_thing` | the user is slow | a gated operation never runs unapproved |
| **MCP bridge, approvals** `integrations/mcp.py` 135-210, 729-984 | `_pending` tokens with times; per-call client clones | `call_tool`, `approve`, elicitation | concurrent calls share one bridge client; tokens are used once and age | consent is per call; nothing denied is asked about |
| **MCP bridge, events** `integrations/mcp.py` 729-830, 1020-1110 | `pumps`, `event_log`, `event_dropped`, `event_seq`; `_subs` | `resources/subscribe`, `unsubscribe`, `read`; `start/read/stop_subscription` | a cancelled task unwinds later; a ring overflows between two reads | one relay per event; no silent gap; a stopped one ends |
| **MCP bridge, serving and connecting** `integrations/mcp.py` 1320-1480, `connect.py` | environment, bind address, guard, claims of the request | `serve_http`, `_deny`, `_scoped_client`, `ensure_connected` | posture and identity come from several places at several times | a call is within the posture, runs for its bearer where its bearer decides, and signed in |
| **Tool surface** `runtime.py`, `gateway.py`, `thing.py` | routes, `_tool_owner`, clones, media tables | `list_tools`, `call_tool`, the six verbs, `add_things`, fill, check, split arguments | names are built and parsed apart; tables are taken at different times; const and default at every depth | what is listed is reached; what is offered is accepted; what is accepted is valid |
| **Media publish** `bindings/builtin/media/binding.py` 395-604 | per track a bounded queue and a putter thread; one writer thread; a stop event | `publish`, `_drain`, `_drain_av` | four kinds of actor share the queues; each can fail or be cancelled | nothing lost while it runs; a cancelled one ends |
| **Media frames, save** same file 606-715, `backends.py` 430-640 | one bounded queue, drop or paced, retry budget; a temporary directory | `frames`, `save` | a thread posts into the loop; the source fails; streams end apart | control items are never dropped; a retry resumes; a saved file is whole |
| **MQTT binding** `bindings/builtin/mqtt.py` | futures per correlation, subscriptions | connect, read, write, invoke, subscribe, `aclose` | PUBACK, reply, time-out and cancellation race | a caller gets its own answer or an error |
| **HTTP, chains, retries** `bindings/builtin/http.py`, `chain.py`, `reliability.py`, `netpolicy.py` | attempt counters, upload offsets, poll intervals; pooled clients and pins | send with retries, resumable upload, ranged download, polling | lost answers, short ranges, deadlines; a client closed or re-pinned under a call | no retry of what is not idempotent; every byte once; a pinned request goes to an address that was checked |
| **rosbridge** `bindings/builtin/rosbridge.py` | goal, follower, outcome future, kept goals | services, publishes, action goals | a result races its time-out; a robot that ignores a cancel | a call is answered by its own goal, or ends in an error |
| **Local, redis, exec** `bindings/builtin/` | sub-bindings and queues; pooled clients; processes | bind, call, emit; `aclose`; spawn, time out | re-binding under open streams; a close under a call; a program that outlives its caller | a stream gets what its device pushed; nothing is left open |
| **Credentials** `auth/`, `identity/provider.py` | token cache, token file | acquire, refresh, rotate, store, consent | two refreshes of one token, a restart in between | the stored token is one the provider honours; a Thing's token is its own |
| **Identity** `identity/` | key cache with cooldown | `validate` | keys rotate | a withdrawn key stops counting in bounded time |
| **OpenAPI import** `openapi.py` | none that outlives a call | compile an operation | placements, security alternatives and inheritance | the call sent is the one the document describes |
| **Parsing, lint, validation, models, CLI** | none that outlives a call | conversions, reports | nothing concurrent | unit tests |

`PROJECT.json` lists each component with what is modelled of it, and every hazard at its line.

## 2. The modules

| module | models | extends / composes |
|---|---|---|
| `GatewayStartup` | `serve`, `_Startup`, `_subscribe`, `_on_reconnect`, `_stop_serving`, `aclose`; paho and the broker as environment | |
| `GatewayBus` | `engine._project`, `project_forms`, `_serve_thing`'s routes, `mosquitto.acl_file`, `_handle`'s operation, `pdp.decide` | |
| `GatewayStartupMC` | one gateway's start, and the address plan | extends `GatewayStartup`, instantiates `GatewayBus` |
| `GatewayStartup_proofs` | theorems | extends `GatewayStartupMC` |
| `GatewayRequests` | `_handle`, `_handle_subscribe`, `_issued_to`, `_start_caller_mirror`, `_stop_serving`; `engine.dispatch`, `engine.authorize`; `runtime.invoke/read/write/subscribe`; `pdp._authorized_stream` | refines `AuthorizedService` |
| `AuthorizedService` | the promise to a fleet's owner: the fleet is touched for a claim only after that claim was found granted | |
| `GatewayRequests_proofs` | theorems | extends `GatewayRequests` |
| `ThingClientCalls` | `invoke`, `_invoke_async` and its waits, `query`, `cancel`, `read`, `write`, bulk reads, media calls, `verify_thing`, `add_things`; `_decide`, `_within`; `gate_action`, `gate_write`; records | |
| `ThingClientCalls_proofs` | theorems | extends `ThingClientCallsMC` |
| `ToolArguments` | `_project_action_params`, `_project_input`, `fill_declared`, `input_errors`, `_bare_input`, `_filled_form` | |
| `OpenApiCalls` | an operation compiled by `openapi.py`, and the request `HttpBinding` makes of its call | |
| `ImportedCalls` | `OpenApiCalls` beside a client's own calls | instantiates `OpenApiCalls` |
| `ToolCalls` | `ToolArguments` beside them | extends `ImportedCalls`, instantiates `ToolArguments` |
| `ThingClientCallsMC` | the client's calls, one call's arguments, one document's operations | extends `ThingClientCalls` and `ToolCalls` |
| `ToolSurface` | `list_tools`, routes and suffixes, `GatewayProjection`'s verbs, `add_things` over clones, the vocabulary and the security, the bridge's connect-on-demand | |
| `EventRing` | the deque with `seq` and `dropped` that the bridge keeps per event | |
| `McpRelay` | `subscribe_resource`, `unsubscribe_resource`, the event branch of `read_resource`, `_pump` | extends `EventRing` |
| `McpBackgroundSubs` | `start_subscription`, `read_subscription`, `stop_subscription`, `_sub_pump` | extends `EventRing` |
| `McpApprovals` | `_scoped_client`, `_elicit_approver`, `_run_gated_call`, `approve`, over `invoke` and `gate_action` | |
| `McpBridgeMC` | the four parts of a bridge | extends `McpRelay`, instantiates the others |
| `McpBridge_proofs` | theorems | extends `McpBridgeMC` |
| `McpServing` | `serve_http`: exposure, guard, the ways a call reaches a device and whose claims each is scoped to, presets and the named agent | |
| `MediaPublish` | `publish`, `_drain`, `_drain_av`, `_put`, the pull order of `PyAVBackend.write_av` | |
| `MediaPump` | `_pump` and `frames`: thread, loop and consumer | |
| `MediaSave` | `save`: copy or download, then mux; the caller's cancellation | |
| `MediaMC` | the three uses of the media binding | extends `MediaPublish`, instantiates the others |
| `Media_proofs` | theorems | extends `MediaMC` |
| `DeviceCall` | the promise of a binding to a caller: one end per call, an answer only if the device carried out that very call | |
| `MqttConsumer` | the MQTT binding as a client, paho, the broker and the device | refines `DeviceCall` |
| `MqttConsumer_proofs` | theorems | extends `MqttConsumer` |
| `RosGoals` | goals waited for or polled, services, publishes, `_follow`, `_prune` | refines `DeviceCall` |
| `Transfers` | `_send` with retries, `_get_with_retry`, `run_chain`: one request, resumable upload, ranged download, polling | |
| `LocalStreams` | `LocalBinding`: registrations by slug, handlers, subscribers | |
| `RedisPool` | `_client`, reads and writes, pub/sub, `aclose` | |
| `ExecCalls` | `ExecBinding.invoke`: checks, spawn, time limit, kill | |
| `DeviceCallsMC` | one carrier at a time | extends `RosGoals`, instantiates the four others |
| `DeviceCalls_proofs` | theorems | extends `DeviceCallsMC` |
| `RefreshTokens` | the three OAuth2 providers' `resolve`, the token file, consent in the bridge and from the login command | |
| `EntraTokens` | `EntraAuth.resolve` and its cache, over `resolve_auth`'s choice of a scheme | |
| `HttpPool` | the clients of `HttpBinding._send`, of its event streams and of `chain.py`'s transfers; `_pin`, `aclose`; `netpolicy.resolve_and_pin` | |
| `SigningKeys` | `JwtGatewayGuard._get_jwks`, `_signing_key`, `validate` | |
| `CredentialsMC` | the life of a bearer token | extends `SigningKeys`, instantiates the three others and `McpServing` |
| `Credentials_proofs` | theorems | extends `CredentialsMC` |

An MC module that composes parts which share no state lets a behaviour be of one of them: the
product of independent parts would multiply the states and show nothing more. Where parts do
interact, they are in one module: `ToolSurface` has the client, its clones, the policy, the
security and the bridge; `GatewayBus` the gateway, the broker, the rules and the policy;
`Transfers` the chain over the retries over the server.

Definitions marked *Mutant* in a comment are wrong on purpose: each is a plausible bug of the
definition near it, and no action or property uses it. They show that the properties would
notice. A property that is a conjunction has a mutant for each part.

### GatewayStartup

`pc` is where `serve` stands. `todo` is what is left of its `_serve_thing` loop, a sequence of
subscribe, mirror and retain items, so that a loss or a callback can fall between any two
sends. `loopq` is what `call_soon_threadsafe` has posted: the network thread never touches
`startup` itself, only posts, and a posted call runs in `RunCallback` when the loop is free,
that is not in the middle of the `_serve_thing` loop, which does not await. `hook` is what
`paho.on_connect` holds, and decides whether a CONNACK goes to the start or to
`_on_reconnect`. It changes where the code assigns it, after the wait in `serve`, and for a
cancelled or closing gateway only after `_stop_serving`. Message ids are the topics
themselves: each is subscribed once per start. The session is cleared at every loss, since the
client connects with a clean session: that is paho and the broker, modelled from how the code
uses them. `first` and `welcomed` only remember which connection this is.

### GatewayBus

A topic is the sequence of its levels below the prefix, so that a wildcard matches a level and
not a letter. `Form`, `Routes`, `AclOf` and `Runs` are the four places that spell a topic;
`Send` picks any projected form, the rules loaded then decide whether it passes, each gateway
whose login may receive it runs what its route says, and the answer goes back through the rules.
Rules are compiled when they are loaded and grants move afterwards. A request remembers the
rules its answer went back under (`under`) besides those it was sent under: grants may be
withdrawn and given back in between, and `ServedAsProjected` promises the answer only where the
two are the same.

### GatewayRequests

A request's `phase` follows its coroutine from one await to the next:
`queued` (posted by paho's thread), `authenticating`, `deciding`, `permitted`, `calling`, then
`answered`, `died` or `ignored`. A message is its sender (the topic's last level, which the
broker's ACL binds to the login), the subject of its token, its target, and whether its
payload is well formed; a forged token or none is `NoToken`. `Decide` looks at `grants` in one
step, `Call` happens in a later one, and `Revoke`, `Grant`, `Expire` and `Stop` can fall
between. A mirror, named by the request that started it, is `opening` (it is decided again),
`waiting` for a value, `checking` (the token's clock was looked at, the decision is pending),
`cleared` (about to publish), or over. `streams` is `_streams`; `tasks` is `_event_tasks`.
`MirrorEnds` is the source's end or failure, after which the finished task stays in both
tables, as in the code. `sinceRevoke` and `sinceExpiry` count what each mirror published after
its right lapsed and exist for `CutAfterLapse` only.

### AuthorizedService and DeviceCall

`AuthorizedService` has three variables: what is granted, what each request claims, and whether
it was asked, permitted, acted on or dropped. The refinement maps a request's claim to the
*sender* its topic names, while the gateway decides on the *token*'s subject: that the two are
the same is what `_issued_to` is for, and `ImplementsService` fails without it. The abstract
step `Permit` demands the grant of that moment; `Act` may come later, because the code does act
later.

`DeviceCall` is what a caller may rely on below the client, whatever carries the call. It lets a
device carry out a call that has failed, and twice, because no binding can take a call back.
`MqttConsumer` and `RosGoals` implement it.

### ThingClientCalls, ToolArguments, OpenApiCalls

A call is its kind (eleven of them), its affordance and an argument that fits or not, is within
a limit or not. Its phases end at awaits; `seen` remembers whether the grants covered it at any
moment since it was asked, which is all a decision taken on the way can promise. A bulk read is
a loop of single reads that are each decided. `_inflight` is a table from tool names to calls:
`WaitEnds` is the `finally` that frees the entry. Arguments themselves are abstract here and
concrete in `ToolArguments`. JSON values and schemas are tagged tuples and records of at most
`Depth` levels, and what a scalar is constrained by is the set of values it allows; an object is a
function on all `Members` that is `Nothing` where a name is absent. What the code does by
recursion is written in two parts: an operator says what is done at one level, given `below`, the
same for the level under it (`WithoutConst`, `Fill`, `Mismatches`, and for the properties
`IsValid`, `IsConsistent`, `IsKept`), and a function on the levels ties the knot (`Offered`,
`Filled`, `Errors`, `Valid`, `Consistent`, `Keeps`). A schema's type that JSON numbers share is the
set of the kinds it takes; descriptions with an empty `properties` are left out.

`OpenApiCalls` compiles one operation and then calls it, so that what was placed
is compared with the document at the other end, and not with the compiler's own tables.

### EventRing, McpRelay, McpBackgroundSubs, McpApprovals, ToolSurface, McpServing

The ring is a record of operators (`Push`, `Drain`) rather than a state machine; `Accounts`
says what a reader can conclude. In both users of it a task's cancellation is two steps,
`cancel()` in the request and `Unwinds` when the loop next runs the task, since between them
another request may be served. A task cancelled before its first step never enters its `try`.

A request of `McpApprovals` is a `tools/call`: of a tool, or of `approve` with a token; the token
is named by the request that was parked. `runsAs` is the identity of the client clone the call
really goes through, `confirms` that clone's approver being `approving(_yes)`. Time is counted
in ticks; `Regrant` changes the policy in any way.

`ToolSurface` keeps the tables apart that the code keeps apart: the base client's Things, which
are the only source of routes; the policy's vocabulary; the security by owner; what the bridge
or the projection found when it was built. A call carries the `view` of the clone it was made
with. `AddThings` replaces all of the first three in one step, since `add_things` does not
await, and none of the last.

A deployment of `McpServing` is what the operator set: every variable, set or not, and the bind
address. The environment is read when the server is built, the claims when a request comes. A
posted call reaches a device in one of six `Ways`, and the way decides whose client runs it:
`OfTheServer` names those that use the server's, whoever posted them.

### MediaPublish, MediaPump, MediaSave

Per track of a publish: a feed coroutine, an executor thread doing its blocking put (`putter`),
and a queue; one writer thread pulls from all. `StopFirst` is the difference between `_drain`,
which sets `stop` when its source raises, and `_drain_av`, where every feed ends on its own and
`gather` has to pass the error on first; video alone goes through the former, anything with
audio through the latter. Frames are numbered, so order and loss can be stated. Which of two
held frames is encoded first depends on their time stamps and is left open.

In `MediaPump` the thread, the callbacks it posted and the queue are three places a frame may
be; `free` is the semaphore that paces it. `next` is the source's position, which a re-opened
live source chooses itself. In `MediaSave` the packets of a page's streams are merged by time,
and the thread looks at `stop` between packets. `out` is what the muxer was handed and `file`
what is in the file once it is closed: the muxer holds packets back and writes its trailer last,
so a close that fails (`torn`) leaves some of them.

### MqttConsumer, RosGoals, Transfers, LocalStreams, RedisPool, ExecCalls

The broker and the device are nondeterministic: they answer late, twice, never, or for another
call on the same topic. Callbacks of paho's thread are posted and run later. `Echoes` says that
the responder copies the Correlation Data, without which the binding takes any reply on the
topic, as documented. `Transfers` counts media in units: an upload chunk may be kept in part, a
range may come back short, empty or as the whole medium, and any answer may be lost after its
request was applied. `ranged` is what the server makes of ranges, `resend` the deployment's
`retry_non_idempotent`, `skipped` what the client passed over because its range came back empty.
The chain's hops run through the same retry rules as the first request. In `RedisPool` the end of
a stream is two steps, the UNSUBSCRIBE and the close of its connection, and a cancellation may
fall between (`StreamLeft`).

### SigningKeys, RefreshTokens, EntraTokens, HttpPool

Each step is what runs between two awaits, with the identity provider or the network
nondeterministic. In `RefreshTokens` a restart loses the cache and keeps the file; `lost` are the
Things whose rotated token was on its way when the process stopped, for which nothing can be
promised. In `HttpPool` a client has pins per host and connections that were opened under them,
because a re-pin does not close what is open. A request and an event stream pin the address they
checked; a transfer (`Follow`) checks and pins nothing, and `unpinned` remembers where one was
carried with no pin, by the pooled client or by one of its own.

## 3. What the runs show

Every passing run explores its whole state space. `gateway_streams` and `credentials` check no
liveness and use symmetry. `CHECK_DEADLOCK FALSE` is set throughout, because every one of these
systems may come to rest: all requests answered and the gateway stopped, the publish over, the
subscriptions ended and read. That nothing rests too early is what the liveness properties are
for.

| run | states | what it shows |
|---|---|---|
| `gateway_startup` | 424 256 | Starts and stops follow each other over a broker that drops and refuses; a request on the bus is answered by the gateway that owns its Thing, under the grants the operator wrote. What is served is subscribed and described, and serving comes back. |
| `gateway_streams` | 862 225 | Each stream has one live mirror, the next stop finds it, and a lapse of its rights or its token cuts it within one value; nothing runs for anyone but the sender. |
| `gateway_requests` | 87 754 | What a caller is told is what happened, a lapsed stream ends, and the gateway implements `AuthorizedService`. |
| `media` | 190 689 | No frame is lost where none may be, a save that returns has handed on every packet and is whole unless its close failed, a cancelled publish comes to its end, a consumer learns how its source ended. |
| `mcp_bridge` | 315 281 | No value is missed unsaid on either way of events; a gated call runs on its own approval and once; what was listed is what is reached, decided and signed for while Things are added. |
| `client_calls` | 364 866 | The record tells what happened to the device, no method or bulk read goes beyond the grants, a cancel by name finds a run that is waited for; arguments that follow the offer are accepted, what is accepted is valid and is what the caller said but for what is declared; an imported operation is called as its document says. |
| `device_calls` | 276 654 | A call runs once where it must, a download is whole but for empty blocks, what a device emits was taken, nothing is left in a table, every call ends; the transports implement `DeviceCall`. |
| `mqtt_consumer` | 401 862 | Every call over MQTT comes back, with its own answer or an error, whatever the connections and the broker do. |
| `credentials` | 1 103 852 | A retired key lapses, the refresh token stored is live, a credential goes out as its owner's and, where a pin holds, to an address checked for its host, a served call is within the posture and its caller's where a caller decides. |

The remaining runs are the violations of section 5.

### Bounds, and why they are enough

- `gateway_startup`: *two Things*, one of them with an event, and *two starts*, so a callback of
  the first can reach the loop during the second; *one loss, one refusal*, each at every point of
  the handshake or after it. The bus has two Things on one gateway or on two, a listed caller and
  one that is not, four grant sets (all, by wildcard operation, by affordance, none), one request
  and two changes of grants, away and back, between the loading of the rules and the decision.
- `gateway_streams`, `gateway_requests`: *three requests*: the third replaces a mirror that has
  itself replaced one, or belongs to another caller's stream of the same affordance. *One stop*:
  a start follows it, so a request can span both. *One grant*: a right revoked, returned and
  revoked again. What one caller may do with another's token is the first run's question; the
  second has one caller and calls and streams side by side.
- `media`: *depth 1, four frames*: the queue, the putter and the writer are all full with a
  frame more to come, on one track or two. The reader's queue holds 2 of 4 frames, with *one
  retry* and *two failures*, so a budget is used up, and renewed by progress in between. A saved
  page has two streams that interleave and end apart, and its close fails with any part written.
- `mcp_bridge`: *ring of 2, 4 values*: two overwritten unread, with a read between any two.
  *Three pumps, one unsubscribe*: the old task, its successor, and the one after. *TTL 1, time to
  2*: a token fresh, at its limit, and aged. *Three requests*: a parked call and two approves, or
  two parked calls and one approve. Four descriptions (one Thing twice, another with its slug)
  and *three adds*: a Thing arrives, is re-described, and re-described back.
- `client_calls`: *two calls of nine kinds*, one re-description or one change of grants, which can
  fall between any two awaits of both. Schemas are two deep, under a wrapper or not, with const,
  default, required and bounds in either level, and `Depth` is 4, what a list of objects in an
  object needs; a document's security is one of seven shapes at either level.
- `device_calls`: *three faults* against *two retries*: a budget is used up, and one fault more.
  *Size 4, chunk 2, limit 3*: whole, short and empty blocks, a block that is the whole medium, an
  unsaid total, and a medium beyond the limit. *No
  room for finished goals*: the younger of two pushes the other out. Two Things over two local
  bindings, so one is bound again; two closes over three Redis clients.
- `mqtt_consumer`: two calls on one topic; one may be of any kind and connect twice. *One drop*,
  at any point.
- `credentials`: a key lives two ticks in a cache, is refetched by force after two, and an answer
  takes at most one, in three ticks; two keys. Two calls, one restart, three tokens: a refresh
  during a refresh, rotated and stored in either order. Two hosts and two addresses, one private:
  a name that moves moves to the private one. Two requests, one of them a Thing's with a
  certificate, and two pooled clients, so one is replaced. 576 deployments, six ways, five
  operations, two bearers of whom one has the agent's role.

### Fairness, and why the code justifies it

- The event loop runs every ready callback and coroutine: weak fairness per coroutine or task
  (`Handle(r)`, `RunMirror(r)`, `Pump(p)`, `Serve`, `RunCallback`, `Steps(c)`, `Coroutine(c)`,
  `Client`, `Take`, `Join`). It is asyncio's contract; weak is enough, since a ready coroutine
  stays ready until it runs or is cancelled. Time-outs are part of a coroutine's own steps: the
  loop's timers fire.
- Threads run: `Write`, `Bridge(t)`, `Thread`, `Worker`; paho's thread and the broker: `Network`.
- `Transfers` assumes that a request comes back (an answer, or httpx's time-out:
  `Environment`), and that time passes for a poll's deadline.
- A policy decision and a native call return (bindings carry time-outs): part of `Handle(r)`.
  `LapsedStreamsEnd` assumes in addition that the stream's source produces a next value (part
  of `RunMirror(r)`): the code notices a lapse only then.
- `ConsumerIsTold` assumes a consumer that goes on reading until it leaves.
- Never assumed: that a connection is lost or kept, that a user answers, that a source produces
  a frame or ends, that anybody cancels or stops, that a client subscribes or reads, that a
  broker or a robot answers.

## 4. What is proved

Each theorem holds for every value of its module's constants: any number of requests, calls,
Things, callers, tracks, values, and any bound. Where a run has a property of the same name it
shows the property on an instance; the theorem has no bound.

| module | theorem | statement |
|---|---|---|
| `GatewayRequests_proofs` | `TypeCorrect` | `Spec => []TypeOK` |
| | `ActsForSender` | `Spec => []ActsForItsSender` |
| | `LiveRegistered`, `OneMirror` | `Spec => []LiveMirrorsAreRegistered`, `[]OneMirrorPerStream` |
| | `RepliesTrue` | `Spec => []ReplyTellsTheTruth` |
| | `LapseCuts` | `Spec => []CutAfterLapse` |
| | `GatewayImplementsService` | `Spec => ImplementsService` |
| `GatewayStartup_proofs` | `RulesAreExact` | `PartsSpec => []GrantsAreExact` |
| | `ProjectedIsServed` | `PartsSpec => []ServedAsProjected` |
| | `ServedIsSubscribed` | `PartsSpec => []ServedMeansSubscribed` |
| `McpBridge_proofs` | `NothingGoesUncounted` | `Spec /\ Background!Spec => []NoGapAnywhere` |
| | `GatedRunsOnConsent` | `Approvals!Spec => []RunsOnItsOwnApproval` |
| | `PermittedAsTheFleetIs` | `Surface!Spec => FollowsTheFleet` |
| | `NotSentUnsigned` | `Surface!Spec => []SignedInBeforeSent` |
| | `ListedIsReached` | `Surface!Spec => ListedReachesItself` |
| | `TheBridgeKeepsItsWord` | `PartsSpec` implies all five |
| `Media_proofs` | `NoFrameIsDropped` | `MediaSpec => []NothingDropped` |
| | `SavesAreWhole` | `MediaSpec => []SavedIsWhole` |
| `DeviceCalls_proofs` | `RosIsADeviceCall` | `CallsSpec => ImplementsDeviceCall` |
| | `UnsafeRequestsGoOnce` | `CallsSpec => []NeverTwice` |
| | `DownloadsAreWhole` | `CallsSpec => []DownloadIsWhole` |
| | `NothingIsLeft` | `CallsSpec => []NothingLeftBehind` |
| | `StreamsTakeTheirOwn` | `CallsSpec => []EmittedIsTaken` |
| `MqttConsumer_proofs` | `MqttIsADeviceCall` | `Echoes` implies `Spec => ImplementsDeviceCall` |
| `ThingClientCalls_proofs` | `TheRecordTells` | `Spec => []RecordTells` |
| | `TheTableIsWaitedFor` | `Spec => []HandlesAreWaited` |
| | `NothingBeyondGrants` | `Spec => NeverBeyondGrants` |
| | `OnlyDeclaredArgumentsGoOn` | `Tool!Spec => []AcceptedIsDeclared` |
| | `OfferedArgumentsAreAccepted` | `Tool!Spec => []OfferedIsAccepted` |
| | `CallsFitTheirDocument` | `Api!Spec => []CallFitsTheSpec` |
| | `TheClientKeepsItsWord` | `PartsSpec` implies all six |
| `Credentials_proofs` | `ServedForCaller` | `Bridge!Spec => []ServedForItsCaller` |
| | `RequestsGoAsTheirOwners` | `Entra!Spec /\ Pool!Spec => []GoesOutAsItsOwners` |
| | `WithdrawnKeysLapse` | `Spec => []RetiredKeysLapse` |
| | `OneConsentIsEnough` | `Client!Spec => []StoreIsLive` |
| | `CredentialsKeepTheirWord` | `PartsSpec` implies all four |

A theorem about one part of an MC module is about that part's own specification, or about the
MC module's where a property speaks of several parts at once. The last theorem of a module with
parts carries the others over to the composition, the specification its run explores: a
behaviour of the whole is one of each part (`EachPartAsItself`). Signing keys and refresh tokens
share a clock, so a step of one moves the other's time; `OneClock` says that whichever of them
does not run has not begun. `TypeOK` holds of the gateway's `Spec` by its proof, and no run
repeats it.

*Assumptions.* Every module states what its constants must be under a name that ends in
`Assumption`, and TLC evaluates it in a run. Most say that a bound is a number and that a special
value is not an ordinary one. Those that say more say what the code or its caller ensures:

- `BusAssumption`: slugs and ids are unique (a client refuses two ids of one slug, `runtime.py`
  123-140; between gateways it is the operator's part, section 5), no name is a wildcard, the
  gateways partition the fleet, grants name existing Things.
- `StartupAssumption`: the Things of a gateway, their topics and events are finite sequences.
- `SurfaceAssumption`: no affordance has the name that a suffix makes of another, or that of a
  snapshot tool of its slug (section 5).
- `SaveAssumption`: the packets of one stream come in the order of their times (the demuxer's).
- `TokensAssumption`, `CredentialsAssumption`: a cache's margin is shorter than what it caches
  lives; an answer takes less than that margin.
- `ArgumentsAssumption`: a description is no deeper than `Depth`, with its wrapper, and an argument
  leaves room for one; a scalar is neither an object nor an array. `Depth` is any number, so this
  excludes only what is infinite.
- `Transfers` has the server send no more of a range than was asked, except the whole medium.
- `RequestsAssumption`, `PublishAssumption`, `PoolAssumption`, `TransfersAssumption`,
  `DocumentsAssumption` and the rest: distinct values, and numbers.
- `MqttIsADeviceCall` assumes `Echoes`, a responder that copies the Correlation Data. Without it
  the theorem is false, as the binding's documentation says.

*Arguments.* None of the properties is inductive. Each proof states an invariant that holds
what earlier steps have established, and then takes the actions one by one.

- **Guarded gateway.** `Authenticated`: whoever is past authentication has a token that names
  the sender. It turns, for the refinement, a decision on the token into one on the claim.
  `Registered`: `streams` has one entry per stream topic and holds every live mirror, so the
  entry `StartMirror` replaces is the only one. `Truthful`: a reply says whether its request
  acted. `Cut`: a mirror that has published into a lapse is waiting or over, and its next look at
  the clock or at the grants ends it.
- **Addresses** (`BusInv`). What a route says of a topic, what a filter matches and what the
  rules cover are each characterised by a lemma for every name (`ReqMatches`: a filter for
  requests matches those of its operation, Thing, name and user, and no other kind of topic has
  its length). A request under way was projected for the Thing, affordance and operation it
  carries; one Thing has one gateway, so one route runs.
- **Start** (`StartInv`). Every topic is routed or still in `todo`; what is routed was asked for
  on this connection, is unsent, or its loss is known to the record `serve` waits on; a SUBACK on
  its way to the start belongs to this session. A welcome by `_on_reconnect` asks for every
  route again (`Asked`). The order of the loop's callbacks carries the proof: a loss posted
  before a connection is accepted is run before it.
- **Events.** `Accounts` of `EventRing`: reported, held and counted as dropped are together what
  arrived. Both users keep it, whatever their tasks do (`RelayAccounts`, `SubAccounts`).
- **Approvals** (`OnePerToken`). A token is redeemed by one request, which runs what was parked
  under it; the parking request never moves again.
- **Tool surface** (`FleetKept`). The vocabulary is that of the fleet now, the security has the
  last scheme of each id; a call past its arrival is signed in to what it connects or asks for it.
  `ToolsWereOffered`: a call keeps a tool whose name spells its Thing, affordance and operation,
  with a suffix or as a snapshot tool. The lemmas on names say that each suffix comes off again
  and comes off nothing else (`CalledAsNamed`, `NotASnapshot`), and that a Thing with its slug
  for itself is all that the names of the slug reach (`OnlyReached`).
- **Media.** `Flows`: what a track has produced is, in order, what is written, held, queued and
  in the putter's hand, with nothing missing, until somebody stops it. `Handed`: the queue and
  the callbacks form one line without gaps, with permits for what is not in it, so `put_nowait`
  always finds room. `Copied`: what is muxed and what is left are together the wanted streams, in
  the order of time; the file is what was muxed, or where the close failed a beginning of it.
- **Device calls.** The future of a call holds only a value its own run produced (`Resolved`,
  `Corresponds`), which is what the abstract `DeviceCall` asks. `OnceOnly`: the initiating request
  that may not be repeated has had one attempt, and is applied only as that attempt is answered.
  `Ranges`: a download has what lies before its offset, in order, but for what it skipped.
  `PoolOf`: what is pooled is open and nobody closes it; what is open is pooled or with an
  `aclose`. `Pushes`: what a subscriber has
  read and what is queued are what its binding emitted since.
- **Client calls.** `RecordInv` relates each phase to what was recorded and touched; `HandleInv`
  says that an entry of `_inflight` is of a run whose caller waits; `Warranted` that a decision
  taken while the grants moved was right at some moment since the question. `Imported` keeps what
  was sent equal to what the compiled operation makes of accepted arguments; the rest is about
  operators (`PlacedAsDeclared`, `PresentedAsRequired`).
- **Arguments.** The invariant (`Called`) is small: what is in the payload is `Filled` of what was
  given, and the check has said of it what `Errors` says. The work is that these functions agree
  at every depth. Each equation by levels (`FilledByLevel` and the like) and each agreement is an
  induction over the depth. The library's induction theorems take an operator and cannot be
  used, so the induction is the well-foundedness of `<`, on the set of levels where the
  agreement holds (`EveryNumber`). `ErrorsAndKeeps`: a check finds nothing exactly in what is
  valid, and filling in keeps what the caller said. `FilledServes`: what follows the offered
  schema is valid once it is filled in. `ParametersNarrow`: the variables added to the offer, and
  the names they shadow or not, take nothing from it.
- **Credentials.** `CachedByOwner`: a cached token was minted for its key. `Pinned`: all but a
  transfer have a pin for their host while their client is open, a pin was checked, and so were
  the ends of a client's connections to a host, unless it carried a transfer there with no pin.
  `Guarded`: a call past the guard was let in for a reason, and one that ran was permitted to
  whoever its way makes it run for. `KeysInTime`: whatever the order
  of overlapping fetches, a key set in use was fetched within the cache's life. `OneHolder`: a
  token on its way to the store is honoured, and nobody else is showing it to the provider.

*What the proofs found.* Attempts that failed for a reason changed the model:

- `ServedAsProjected` is false when grants are withdrawn and given back while a request is under
  way: the answer then passes other rules than the request did. One change of grants never
  showed it. The property now says so and the run has two changes.
- The outcomes of a call in `RosGoals` and `MqttConsumer` overlapped where the code has an order
  of tests; they are ordered now.
- An affordance with the name of a property's read tool (`<name>__get`) makes
  `SignedInBeforeSent` false; `SurfaceAssumption` excluded only the other suffixes.
- `ListedReachesItself` is false in gateway mode of a tool listed while its Thing was described
  differently and called when the description is back: `describe` asks the client's media map and
  the projection's own table, and they disagree in between. Nor may a later description of a slug
  have an affordance with the name of a snapshot tool. A call now remembers how its Thing was
  when listed (`alone`), and the run has a property that is a stream in one of two descriptions.
- `NothingLost` and `EmittedIsTaken` compared lengths where order matters; they now compare
  sequences.
- An operation's path variables must be its own path parameters, and an argument must have one
  place: `IsWithinReach` of `OpenApiCalls` assumed both silently.
- `OfferedIsAccepted` is false of some descriptions: one whose const is not a value of its own
  schema, one whose default is invalid even when it has been filled in, and one that requires a
  name it does not describe. `Consistent` excludes all three. The first two are mistakes of the
  description alone; the third the offer hides and the check insists on (section 5).
- `AcceptedIsDeclared` said only that what is accepted is valid, which a client that replaces the
  arguments by an example would satisfy. It now says as well that they are the caller's
  (`Keeps`), at every depth.
- `ToolArguments` recursed through operators, which no theorem may reach; it is functions on levels
  now, and the run explores the same calls and more.

*Model-checked only.*

- Liveness (`ServesAgain`, `LapsedStreamsEnd`, `CancelledEnds`, `ConsumerIsTold`,
  `PumpsKeepUp`, `WaitsEnd`, `CallsEnd`, `EveryCallEnds`): reasoning under fairness, like
  `ENABLED`, is beyond the prover.

## 5. Where code and documentation part

Each of these runs checks one property that states what a comment or a document says, and ends
in a counterexample. `PROJECT.json` quotes the lines.

| run | property | what happens |
|---|---|---|
| `mqtt_ack` | `OkIsAcknowledged` | `wait_for_publish` returns at its time limit without raising, and the binding answers `{"ok": true}`. |
| `mcp_relay_twice` | `OneRelay` | A cancelled pump's `finally` removes its successor's entry; the next subscribe starts a second relay. |
| `tool_arguments` | `ArrivesAsDeclared` | A scalar or array input is unwrapped before the form's variables are taken, and they are lost. |

More was met while modelling. Where a passing property has an exception for one of these, the
property's comment or its guard says so.

*Gateway.*
- A handler that awaits its decision while the gateway stops starts its mirror afterwards
  (`gateways/builtin/mqtt.py` 553; 456-458 promises otherwise). The passing
  `LiveMirrorsAreRegistered` says the late mirror is at least in the tables of the next stop.
- A connection lost and accepted again after the last SUBACK was posted and before `serve` swaps
  the callbacks (line 356) is welcomed by a `_Startup` nobody waits on, and nobody subscribes
  (308-310 and 414 promise otherwise). It needs a loop held longer than paho's reconnect delay.
- A transport error for which the TD declares no response kills the handler
  (`gateways/engine.py` 333): no reply, where `docs/BINDINGS.md` 136-139 says a guarded gateway
  always answers.
- On an unguarded property topic a bare JSON `5` is a read and a bare text `on` a write
  (`gateways/builtin/mqtt.py` 496-503).
- Two gateways with same-slug Things on one prefix both serve them.

*Media.*
- The end marker is put with a plain `q.put` that does not look at `stop`
  (`bindings/builtin/media/binding.py` 505): a writer that dies first leaves the publish waiting.
- Through `_drain_av`, a cancellation or failure while the queue is full leaves no marker, and
  the writer may have emptied the queue before `stop` is set (583-604): it then waits for ever.
  `CancelledEnds` is about the other cases.
- A failed or cancelled `save` leaves a truncated target. So does one that returns when
  `out.close()` fails, which writes the packets still held and the trailer: the failure is
  suppressed (`backends.py` 573-574), where `binding.py` 386-389 promises a file that is bit
  exact. `SavedIsWhole` says what the file is then.

*MCP bridge.*
- `serve_http` promises that a guard authorizes "every bridged call against THAT caller"
  (`integrations/mcp.py` 1452-1453; 910-913 says the same of `call_tool`). Tools by their names,
  resources, resource templates and prompts are (984, 1051-1053, 1123), in either mode. The
  gateway's verbs run on the projection of the server's client (868, 879-880, `gateway.py`
  361-384), snapshots and both kinds of subscription open their streams with it (682, 696, 741,
  1065), and an approved call runs on a clone of it (875): with a named agent these are decided
  for the agent, whoever posted them. `ServedForItsCaller` tells the two apart.
- `ended` is set only when a subscription's stream raises, not when it ends (803 against 749).
- `<slug>__snapshot` and `<name>__set` may collide with affordances of that name (440-451, 940;
  `SurfaceAssumption` excludes them). The projection's Things, the event, observable, template
  and media tables are those of the moment the bridge was built, while tools are live. A
  property with only `observeproperty` is listed as readable but cannot be granted as such. A
  snapshot in gateway mode and the subscription verbs do not connect on demand (823-837). A
  parked approval replays a tool by name after a re-description.
- `guarded()` and `approving()` clones do not see a later `add_things`, which also resets
  `_inflight`.
- `serve_http` looks for a guard in the environment only, not at its `guard` argument; with a
  guard and no policy nothing is decided for the caller. The bearer prefix is tested without
  regard to case and removed only as `Bearer `. `THINGCTX_TOKEN_GUARD` also reads as a credential of a
  Thing with the slug `guard`.

*Tools.*
- `_without_const` keeps of `required` only what `properties` keeps (`thing.py` 630), so a name
  that is required and not described is no parameter of the tool, and `_check` refuses the call
  that leaves it out (838). `docs/MAPPING.md` 59 has the parameters be the input schema without
  the properties that declare `const`.

*Bindings.*
- `chain.py` 617-622: an upload whose last chunk is answered 308 returns that body, where
  581-583 promises the final one. An empty 206 block skips its range and the download returns
  with a hole (744, against "rather than skipping a gap" in 742-743). A 206 whose total is
  unknown has the one byte of the probe returned for the medium (700-703, "the probe already
  holds the full body"). A later range answered with the whole medium is appended as if it were
  the block. `DownloadIsWhole` says so of each. Nested hops compare their origin with the hop
  before, not with the first (314, 365-375).
- `retry_non_idempotent`, off by default, sends a POST again whose answer was lost (`http.py`
  485), as its documentation says; `NeverTwice` is about deployments without it.
- `runtime.py` 937: a wait's comment (932) says it is cancellable by name; another wait on that
  tool that ends first takes the handle away. A call cancelled while it runs is not recorded
  (686). `call_tool`'s cancel with `authz_raise` off calls `.as_dict()` on a dict (401).
- MQTT: `aclose` forgets a subscription added while it waits (646); a reader of a closed
  binding's stream waits for ever; two replies may set one future twice (514); an action argument
  named `retain` is taken by the binding.
- HTTP: `aclose` may race a call's first use of the pool (433-437); a request in backoff on a
  client that was closed raises `RuntimeError`.
- A resumable or ranged transfer is sent past `_send` (`chain.py` 397-399, 436-438; 306-311 says
  so): its address is checked and not pinned. On the pooled client it goes to the pin an earlier
  request left there, or to whatever the name is at connect (`http.py` 68); on a client of its
  own, for a Thing with a certificate, there is no pinning at all. `netpolicy.py` 148-163 has
  the address that was checked be the one that is dialed; `DialsWhatWasChecked` says that of
  every request but these, and of those that share a connection such a transfer left.
- A request refused by `_pin` leaves the client it was made with open, also one of its own: 489
  is before the `try` whose `finally` closes it.
- rosbridge keeps finished goals by their start, not by their end. Redis: one client whose close
  raises leaves the rest open; a stream cancelled while it unsubscribes, or whose close fails,
  leaves its connection open with nobody to close it (`redis.py` 258-262, 275-279), which
  `PoolIsWhole` allows as "left". exec: a time-out that races the program's exit raises
  `ProcessLookupError`, and a cancelled call leaves its program running. Unread local, Redis and
  rosbridge streams keep their queues. `BindingRegistry.register` (118-131) removes a
  content-routed binding whose schemes the new one covers, where its docstring and
  `docs/BINDINGS.md` 88-92 say it can sit beside. `htv:headers`
  (`docs/MAPPING.md` 166-167) are never sent.

*Credentials.*
- An explicit refresh token in the options wins over the rotated one in the store
  (`auth/providers.py` 490-493). A record the provider no longer honours counts as connected
  (`connect.py` 67). `FileTokenStore.set` loses another process's records. The consent blocks
  the bridge's loop. Entra tokens are cached by owner and scope, not by tenant or secret
  (`identity/provider.py` 153), and default credentials of different tenants are one (131-132,
  245-255). A mint that returns nothing sends the request without credentials.
- Answers of overlapping JWKS fetches may arrive out of order: the older set then stays for its
  TTL. `RetiredKeysLapse` states the bound that still holds. Cloudflare's
  `service_token_permissions` are ignored when a permission claim is named.

*OpenAPI.* The third of three operations with one name is lost (`openapi.py` 417). Query
parameters of an operation that is not a GET go into the body. Parameters of the path item are
not read. A path parameter and a body field of one name are one argument. The first security
alternative with a name is taken even when its scheme is unknown, which then means none; the
unknown ones of a group are dropped; a document's `security: []` means every scheme.
`IsWithinReach` in `OpenApiCalls` names the documents the property is about.

## 6. What is not modelled

- *Inside the modelled parts.* Values are abstract wherever a property does not look at them:
  payload encodings, header templates, multipart fields, topic and URL spelling, TLS options.
  The resources of observable properties, which have no ring; the unread streams' growth;
  rosbridge topic subscriptions; the AuthZEN PDP, which is one HTTP call; sampling and still
  encoders. `FileTokenStore` is one record per Thing, so two writers losing each other's records
  (`auth/store.py` 103) are beside the model. The other capabilities a gateway driver may have
  (`Announces`, `PubSubOnly`) have no implementation in the repository but the tests'.
- *Parts left out.* TD parsing, validation, lint, quality terms, generated models, contrib Things,
  the registry and the command line (its login apart): conversions and reports over large
  documents, with no state and no concurrency, better served by the unit tests the repository
  has. Signature and header shapes. Cryptographic validation of tokens and the claims each
  identity provider requires. The MCP SDK's sessions and the ASGI server.

## 7. Plan

What is left is proof, in this order:

1. The action-order half of the refinements as lemmas of their own, so that a further binding's
   proof that it implements `DeviceCall` needs only its own invariant.
2. Type invariants of the modules whose safety proofs did not need them.
