---------------------------- MODULE DeviceCallsMC ----------------------------
(* Calls over HTTP and over rosbridge, in-process devices, a pool of Redis  *)
(* clients and local programs.  They share nothing, and a behaviour is of   *)
(* one carrier.                                                             *)
EXTENDS RosGoals

CONSTANTS c1, c2, MaxSize, Chunk, Retries, MaxHops, Limit, MaxFaults,
          Things, Names, Handlers, Streams, MaxBindings, MaxEmits,
          Urls, Forms, Users, NoClient, MaxClients, MaxCloses,
          Runs, Commands, Arguments, AllowLists, NoList

VARIABLES carrier, op, modes, size, ranged, resend, pc, attempt, answer, hop, offset, buf,
          skipped, late, ended, applied, stored, job, faults,
          handlers, bySlug, subs, emitted, stream, handled,
          pool, made, open, closing, closes, raised, user, pubsub,
          allow, allowAny, run, process, unread

\* Two calls, of which one may be a goal that is polled; with no room for finished
\* goals the younger one pushes the other out.
MCKinds == c1 :> {"goal", "service", "publish"} @@ c2 :> {"goal", "async"}

Http == INSTANCE Transfers WITH outcome <- ended
Local == INSTANCE LocalStreams WITH ran <- handled
Redis == INSTANCE RedisPool
Exec == INSTANCE ExecCalls WITH Calls <- Runs, call <- run

ASSUME CarriersAssumption ==
    Http!TransfersAssumption /\ Local!LocalAssumption /\ Redis!PoolAssumption

httpVars == <<op, modes, size, ranged, resend, pc, attempt, answer, hop, offset, buf, skipped,
              late, ended, applied, stored, job, faults>>
localVars == <<handlers, bySlug, subs, emitted, stream, handled>>
redisVars == <<pool, made, open, closing, closes, raised, user, pubsub>>
execVars == <<allow, allowAny, run, process, unread>>

\* A read that has returned.
HttpAtRest ==
    /\ op = "invoke_safe" /\ modes = <<>> /\ size = 0 /\ ranged = "none" /\ resend = FALSE
    /\ pc = "over" /\ attempt = 0 /\ answer = Http!NoAnswer /\ hop = 0
    /\ offset = 0 /\ buf = <<>> /\ skipped = {} /\ late = FALSE /\ ended = "returned"
    /\ applied = 1 /\ stored = 0 /\ job = "running" /\ faults = 0

LocalAtRest == handlers = [b \in {Local!Root} |-> {}] /\ Local!Init
ExecAtRest == allow = NoList /\ allowAny = FALSE /\ Exec!Init

CallsInit ==
    /\ Init /\ Redis!Init
    /\ \/ carrier = "http" /\ Http!Init /\ LocalAtRest /\ ExecAtRest
       \/ carrier \in {"ros", "redis"} /\ HttpAtRest /\ LocalAtRest /\ ExecAtRest
       \/ carrier = "local" /\ HttpAtRest /\ Local!Init /\ ExecAtRest
       \/ carrier = "exec" /\ HttpAtRest /\ LocalAtRest /\ Exec!Init

CallsNext ==
    /\ UNCHANGED carrier
    /\ \/ carrier = "ros" /\ Next /\ UNCHANGED <<httpVars, localVars, redisVars, execVars>>
       \/ carrier = "http" /\ Http!Next /\ UNCHANGED <<vars, localVars, redisVars, execVars>>
       \/ carrier = "local" /\ Local!Next /\ UNCHANGED <<vars, httpVars, redisVars, execVars>>
       \/ carrier = "redis" /\ Redis!Next /\ UNCHANGED <<vars, httpVars, localVars, execVars>>
       \/ carrier = "exec" /\ Exec!Next /\ UNCHANGED <<vars, httpVars, localVars, redisVars>>

CallsSpec ==
    /\ CallsInit /\ [][CallsNext]_<<carrier, vars, httpVars, localVars, redisVars, execVars>>
    /\ Fairness /\ Http!Fairness

\* What must not be repeated is applied once, whatever answers are lost.
NeverTwice == Http!NeverTwice

\* A download that returns has every unit of the medium but those of empty blocks.
DownloadIsWhole == Http!DownloadIsWhole

\* Over HTTP and rosbridge a call comes back to its caller, whatever the other end does.
EveryCallEnds == CallsEnd /\ <>(pc = "over")

\* A local stream gives what its own Thing's device pushed, and all of it.
EmittedIsTaken == Local!EmittedIsTaken

\* A closed pool leaves no client open, and an answered call no process running.
NothingLeftBehind == Redis!PoolIsWhole /\ Exec!AnsweredMeansGone

(* In-process devices with and without a callable, three hrefs, and three programs.        *)

TwoDevices == {{}, {<<"call", "go">>}}

Href(scheme, login, params, url) ==
    [scheme |-> scheme, login |-> login, fragment |-> FALSE, resource |-> "key", params |-> params, url |-> url]
ThreeForms == {Href("redis", FALSE, {}, "db0"), Href("rediss", FALSE, {"db"}, "db1"), Href("redis", TRUE, {}, "db1")}

Argv(program, interpreter, flags, names) ==
    [program |-> program, interpreter |-> interpreter, flags |-> flags, vars |-> names]
ThreeCommands == {Argv("ls", FALSE, TRUE, {"dir"}), Argv("python", TRUE, TRUE, {}), Argv("env", TRUE, FALSE, {})}
=============================================================================
