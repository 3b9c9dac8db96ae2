------------------------------ MODULE Transfers ------------------------------
(***************************************************************************)
(* An HTTP call and the chain it may start: the initiating request, then   *)
(* what its form's x-thingctx-next declares, hop after hop: one request, a *)
(* resumable upload, a ranged download or polling.  Every request goes     *)
(* through the retry rules.  The server may apply a request and lose the   *)
(* answer, fail for a while, keep part of an uploaded block, send part of  *)
(* a range or nothing of it, and leave the total of a medium unsaid.       *)
(* Media are counted in units and a unit is known by its place.            *)
(***************************************************************************)
EXTENDS Naturals, Sequences

CONSTANTS
    MaxSize,    \* largest medium, in units
    Chunk,      \* chunkSize
    Retries,    \* extra attempts after the first
    MaxHops,    \* THINGCTX_MAX_CHAIN_HOPS
    Limit,      \* THINGCTX_MAX_DOWNLOAD_BYTES, in units
    MaxFaults   \* answers lost or failed for a while (bounds the environment)

TransfersAssumption == MaxSize \in Nat /\ Chunk \in Nat /\ Retries \in Nat

VARIABLES
    op,         \* the operation asked of the binding
    modes,      \* what follows, hop after hop: "op", "resumable", "ranged-get", "poll"
    size,       \* of the medium
    ranged,     \* how the server answers ranges, see Servers
    resend,     \* retry_non_idempotent, off unless the deployment asks for it
    pc,         \* the request under way
    attempt,    \* of that request
    answer,     \* what came back for it
    hop,        \* depth of the chain
    offset,     \* where the next chunk starts
    buf,        \* what was downloaded
    skipped,    \* history: units of ranges that came back empty
    late,       \* the poll's deadline has passed
    outcome,    \* how the call ended
    applied,    \* how often the server applied the initiating request
    stored,     \* units of the upload the server holds
    job,        \* the polled job
    faults

vars == <<op, modes, size, ranged, resend, pc, attempt, answer, hop, offset, buf, skipped,
          late, outcome, applied, stored, job, faults>>
config == <<op, modes, size, ranged, resend>>
got == <<offset, buf, skipped>>
server == <<applied, stored, job, faults>>

NoAnswer == [status |-> "none", units |-> 0]
Answered(status, units) == [status |-> status, units |-> units]

(***************************************************************************)
(* Methods and retries.                                                    *)
(***************************************************************************)

\* The method each operation of the binding sends.
MethodOf(o) ==
    CASE o \in {"invoke", "invoke_async"} -> "POST"
      [] o \in {"invoke_safe", "read", "read_all", "query_action"} -> "GET"
      [] o \in {"write", "write_all", "invoke_stream"} -> "PUT"
      [] o = "cancel_action" -> "DELETE"

Idempotent == {"GET", "HEAD", "PUT", "DELETE", "OPTIONS", "TRACE"}

\* A body that is read once cannot be sent again.
OneShot(o) == o = "invoke_stream"

\* Mutant: every method is tried again.
BudgetForAll(step) == IF step = "put" THEN 0 ELSE Retries

\* The ranges of a download have a retry loop of their own: a read is safe to repeat.
RangeBudget == Retries

\* Whether the initiating request may go out more than once.
Repeatable == (MethodOf(op) \in Idempotent \/ resend) /\ ~OneShot(op)

\* Attempts after the first.  The chunks of an upload go out once each; a deployment may
\* ask that every method is tried again, a body read once never is.
Budget(step) ==
    CASE step = "put" -> 0
      [] step \in {"probe", "get"} -> RangeBudget
      [] step = "initiate" -> IF Repeatable THEN Retries ELSE 0
      [] step \in {"op", "poll"} -> Retries

Transient == {"lost", "unreached", "busy"}

\* Ranges are not known, known with the total of the medium, known without it, or known
\* and now and then answered with the whole medium all the same.
Servers == {"none", "sized", "unsized", "whole"}

Init ==
    /\ op \in {"invoke", "invoke_safe", "invoke_stream", "write", "cancel_action"}
    /\ modes \in {<<>>, <<"op", "op", "op">>, <<"resumable">>, <<"ranged-get">>, <<"op", "poll">>}
    /\ size \in 0..MaxSize /\ resend \in BOOLEAN
    /\ ranged \in IF modes = <<"ranged-get">> THEN Servers ELSE {"none"}
    /\ pc = "initiate" /\ attempt = 0 /\ answer = NoAnswer /\ hop = 0
    /\ offset = 0 /\ buf = <<>> /\ skipped = {} /\ late = FALSE /\ outcome = "none"
    /\ applied = 0 /\ stored = 0 /\ job = "running" /\ faults = 0

(***************************************************************************)
(* The server.                                                             *)
(***************************************************************************)

Asked == answer = NoAnswer /\ pc \in {"initiate", "op", "probe", "get", "put", "poll"}
Reply(a) == answer' = a /\ UNCHANGED <<config, pc, attempt, hop, got, late, outcome>>
Least(a, b) == IF a < b THEN a ELSE b
BlockEnd == Least(offset + Chunk, size)

\* The server takes the request: what it keeps of it and what it says.
Takes(says) ==
    /\ applied' = applied + (IF pc = "initiate" THEN 1 ELSE 0)
    /\ UNCHANGED job
    /\ CASE pc = "put" ->
              \E kept \in 0..(BlockEnd - offset) :
                /\ stored' = IF stored = offset THEN stored + kept ELSE stored
                /\ says = IF stored' = size THEN Answered("ok", 0) ELSE Answered("more", 0)
         [] pc = "get" -> /\ \/ \E n \in 0..(BlockEnd - offset) : says = Answered("ok", n)
                             \/ ranged = "whole" /\ says = Answered("whole", size)
                          /\ UNCHANGED stored
         [] pc = "probe" -> /\ says = Answered("ok", IF ranged = "none" THEN size ELSE Least(1, size))
                            /\ UNCHANGED stored
         [] pc = "poll" -> says = Answered(job, 0) /\ UNCHANGED stored
         [] OTHER -> says = Answered("ok", 0) /\ UNCHANGED stored

Answers(n) == {Answered(s, k) : s \in {"ok", "whole", "more", "running", "done", "failed"}, k \in 0..n}

Serves == Asked /\ \E a \in Answers(MaxSize) : Takes(a) /\ Reply(a) /\ UNCHANGED faults

\* Applied, and the connection breaks before the answer is there.
LosesAnswer ==
    /\ Asked /\ faults < MaxFaults /\ faults' = faults + 1
    /\ \E a \in Answers(MaxSize) : Takes(a)
    /\ Reply(Answered("lost", 0))

\* Not reached, too busy for now, or refused for good.
Refuses ==
    /\ Asked /\ faults < MaxFaults /\ faults' = faults + 1
    /\ \E s \in {"unreached", "busy", "error"} : Reply(Answered(s, 0))
    /\ UNCHANGED <<applied, stored, job>>

JobEnds ==
    /\ job = "running" /\ job' \in {"done", "failed"}
    /\ UNCHANGED <<config, pc, attempt, answer, hop, got, late, outcome, applied, stored, faults>>

(***************************************************************************)
(* The client.                                                             *)
(***************************************************************************)

Send(step) == pc' = step /\ attempt' = 0 /\ answer' = NoAnswer
Ends(how) == pc' = "over" /\ outcome' = how /\ attempt' = 0 /\ answer' = NoAnswer

\* The back-off, and the same request built and signed anew.
Retry ==
    /\ answer.status \in Transient /\ attempt < Budget(pc)
    /\ attempt' = attempt + 1 /\ answer' = NoAnswer
    /\ UNCHANGED <<config, pc, hop, got, late, outcome, server>>

\* One error shape for whatever is left.
GiveUp ==
    /\ answer.status = "error" \/ (answer.status \in Transient /\ attempt >= Budget(pc))
    /\ Ends("error") /\ UNCHANGED <<config, hop, got, late, server>>

\* The next address is read from a response; without one the body is the result.
Follow(depth) ==
    IF depth >= Len(modes) THEN Ends("returned")
    ELSE IF depth > MaxHops THEN Ends("error")
    ELSE /\ UNCHANGED outcome
         /\ CASE modes[depth + 1] = "op" -> Send("op")
              [] modes[depth + 1] = "resumable" -> Send("put")
              [] modes[depth + 1] = "ranged-get" -> Send("probe")
              [] modes[depth + 1] = "poll" -> Send("poll")

Chained ==
    /\ pc \in {"initiate", "op"} /\ answer.status = "ok"
    /\ hop' = IF pc = "op" THEN hop + 1 ELSE hop
    /\ Follow(hop')
    /\ UNCHANGED <<config, got, late, server>>

\* _resumable_put: the block was taken, or the session goes on (308); after
\* the last block whatever is not an error is the result.
BlockPut ==
    /\ pc = "put" /\ answer.status \in {"ok", "more"}
    /\ offset' = BlockEnd
    /\ IF answer.status = "ok" \/ BlockEnd = size
       THEN Ends("returned")
       ELSE Send("put") /\ UNCHANGED outcome
    /\ UNCHANGED <<config, hop, buf, skipped, late, server>>

\* _ranged_get: without a total the body of the probe is delivered as it is.
Probed ==
    /\ pc = "probe" /\ answer.status = "ok"
    /\ IF ranged \in {"none", "unsized"}
       THEN /\ Ends(IF answer.units > Limit THEN "error" ELSE "returned")
            /\ buf' = [i \in 1..answer.units |-> i]
       ELSE /\ UNCHANGED buf
            /\ IF size > Limit THEN Ends("error")
               ELSE IF size = 0 THEN Ends("returned") ELSE Send("get") /\ UNCHANGED outcome
    /\ UNCHANGED <<config, hop, offset, skipped, late, server>>

\* The block that came, and where the next range starts after it.
Block == IF answer.status = "whole" THEN [i \in 1..size |-> i]
         ELSE [i \in 1..answer.units |-> offset + i]

\* More than the limit is an error, the last block's end is the medium's.
Onward ==
    IF Len(buf') > Limit THEN Ends("error")
    ELSE IF offset' >= size THEN Ends("returned") ELSE Send("get") /\ UNCHANGED outcome

\* Mutant: the next range starts where this one was to end.
BlockGotAligned ==
    /\ pc = "get" /\ answer.status \in {"ok", "whole"}
    /\ buf' = buf \o Block /\ offset' = BlockEnd
    /\ skipped' = IF answer.units = 0 THEN skipped \cup (offset + 1)..BlockEnd ELSE skipped
    /\ Onward
    /\ UNCHANGED <<config, hop, late, server>>

\* The next range starts after what came, however short it was; an empty block
\* passes for the range that was asked for.
BlockGot ==
    /\ pc = "get" /\ answer.status \in {"ok", "whole"}
    /\ buf' = buf \o Block
    /\ offset' = IF answer.units = 0 THEN BlockEnd ELSE offset + answer.units
    /\ skipped' = IF answer.units = 0 THEN skipped \cup (offset + 1)..BlockEnd ELSE skipped
    /\ Onward
    /\ UNCHANGED <<config, hop, late, server>>

\* Mutant: only the conditions end a poll.
PolledForEver ==
    /\ pc = "poll" /\ answer.status \in {"running", "done", "failed"}
    /\ CASE answer.status = "failed" -> Ends("error")
         [] answer.status = "done" -> Ends("returned")
         [] answer.status = "running" -> Send("poll") /\ UNCHANGED outcome
    /\ UNCHANGED <<config, hop, got, late, server>>

\* _follow_poll: the conditions first, the deadline after them.
Polled ==
    /\ pc = "poll" /\ answer.status \in {"running", "done", "failed"}
    /\ CASE answer.status = "failed" -> Ends("error")
         [] answer.status = "done" -> Ends("returned")
         [] answer.status = "running" /\ late -> Ends("error")
         [] answer.status = "running" /\ ~late -> Send("poll") /\ UNCHANGED outcome
    /\ UNCHANGED <<config, hop, got, late, server>>

DeadlinePasses ==
    /\ pc = "poll" /\ ~late /\ late' = TRUE
    /\ UNCHANGED <<config, pc, attempt, answer, hop, got, outcome, server>>

Client == Retry \/ GiveUp \/ Chained \/ BlockPut \/ Probed \/ BlockGot \/ Polled

\* A request is answered or breaks (the binding's timeout).
Environment == Serves \/ LosesAnswer \/ Refuses

Next == Environment \/ JobEnds \/ Client \/ DeadlinePasses

Spec == Init /\ [][Next]_vars

\* The client runs and time passes; the job need not end.
Fairness == WF_vars(Client) /\ WF_vars(DeadlinePasses) /\ WF_vars(Environment)

(***************************************************************************)
(* Properties.                                                             *)
(***************************************************************************)

\* A request that is not safe to repeat is applied once at most, whatever answers are
\* lost, unless the deployment set retry_non_idempotent; one whose body is read once is,
\* also then (_send's retry gate).  Of a chain it is the initiating request.
NeverTwice == (MethodOf(op) \notin Idempotent /\ ~resend) \/ OneShot(op) => applied <= 1

\* A download that returns has every unit once and in order, through short ranges,
\* retries and broken connections (_ranged_get, _get_with_retry), except those of a range
\* the server answered with an empty block, which the code passes over.  A server that
\* keeps ranges but leaves the total unsaid gets its probe's unit returned for the medium,
\* and of one that answers a later range with the whole medium nothing is said.
DownloadIsWhole ==
    outcome = "returned" /\ modes = <<"ranged-get">> =>
        CASE ranged = "none" -> buf = [i \in 1..size |-> i]
          [] ranged = "unsized" -> buf = [i \in 1..Least(1, size) |-> i]
          [] ranged = "sized" -> /\ \A i, j \in DOMAIN buf : i < j => buf[i] < buf[j]
                                 /\ {buf[i] : i \in DOMAIN buf} = (1..size) \ skipped
          [] OTHER -> TRUE
=============================================================================
