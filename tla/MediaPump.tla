----------------------------- MODULE MediaPump ------------------------------
(***************************************************************************)
(* frames(): a worker thread reads a media source and hands its frames to  *)
(* the consumer through the event loop and a bounded queue.  A live source *)
(* under "latest" sheds the oldest frame; every other source is paced by a *)
(* semaphore.  A transient failure re-opens the source, at the last frame  *)
(* or wherever it then is.  An error and the end travel in the same queue. *)
(***************************************************************************)
EXTENDS Naturals, Sequences, SequencesExt

CONSTANTS
    N,              \* the frames of the source are 1..N, in the order of their pts
    MaxQueue, Retries,
    MaxFails        \* how often the source fails

PumpAssumption == N \in Nat /\ MaxQueue \in Nat \ {0}

VARIABLES
    live,           \* the source produces in real time
    latest,         \* backpressure = "latest"
    seek,           \* resume = "seek"
    next,           \* the source's position
    worker,         \* the thread: phase, attempt, last frame, progress since it opened
    posted,         \* callbacks the thread has handed to the loop
    queue,          \* asyncio.Queue of max_queue + 1
    free,           \* permits of the semaphore
    stop,           \* threading.Event
    consumer,       \* its phase, and the frames it got in order
    fails

vars == <<live, latest, seek, next, worker, posted, queue, free, stop, consumer, fails>>
mode == <<live, latest, seek>>

\* Mutant: the policy alone decides.
DropsAny == latest

\* Frames are shed for a live source only.
Drops == latest /\ live

Init ==
    /\ live \in BOOLEAN /\ latest \in BOOLEAN /\ seek \in BOOLEAN
    /\ next = 1
    /\ worker = [phase |-> "opening", attempt |-> 0, last |-> 0, progressed |-> FALSE, holds |-> 0]
    /\ posted = <<>> /\ queue = <<>> /\ free = MaxQueue /\ stop = FALSE
    /\ consumer = [phase |-> "reading", got |-> <<>>]
    /\ fails = 0

In(phase) == worker.phase = phase

(***************************************************************************)
(* The worker thread.                                                      *)
(***************************************************************************)

\* Where a source that is opened begins: one that is asked to continue, at the
\* last frame or at a key frame before it; a live one, wherever it is by now.
Positions ==
    IF worker.attempt > 0 /\ seek /\ worker.last > 0 /\ ~live THEN 1 .. worker.last
    ELSE IF live THEN next .. N + 1 ELSE {1}

Open ==
    /\ In("opening") /\ ~stop
    /\ next' \in Positions
    /\ worker' = [worker EXCEPT !.phase = "reading", !.progressed = FALSE]
    /\ UNCHANGED <<mode, posted, queue, free, stop, consumer, fails>>

ReadFrame ==
    /\ In("reading") /\ ~stop /\ next <= N
    /\ next' = next + 1
    /\ worker' = [worker EXCEPT !.phase = "emitting", !.progressed = TRUE, !.last = next, !.holds = next]
    /\ UNCHANGED <<mode, posted, queue, free, stop, consumer, fails>>

\* _emit_frame: at once when frames may be shed, else with a permit.
EmitFrame ==
    /\ In("emitting") /\ (Drops \/ free > 0)
    /\ free' = IF Drops THEN free ELSE free - 1
    /\ posted' = Append(posted, <<"frame", worker.holds>>)
    /\ worker' = [worker EXCEPT !.phase = "reading", !.holds = 0]
    /\ UNCHANGED <<mode, next, queue, stop, consumer, fails>>

\* A live source moves on while the worker waits.
Passes ==
    /\ live /\ next <= N /\ worker.phase \in {"sleeping", "opening"} /\ worker.attempt > 0
    /\ next' = next + 1
    /\ UNCHANGED <<mode, worker, posted, queue, free, stop, consumer, fails>>

\* Mutant: the thread of a source given up on is over without a word.
GivesUpDead(attempt, transient) ==
    /\ worker' = [worker EXCEPT !.phase = "over", !.attempt = attempt]
    /\ UNCHANGED posted

\* Retries spent, or a fatal error: the consumer is told.
GivesUp(attempt, transient) ==
    /\ worker' = [worker EXCEPT !.phase = "done", !.attempt = attempt]
    /\ posted' = Append(posted, IF transient THEN <<"transport error">> ELSE <<"media error">>)

\* A read that produced frames has earned a fresh retry budget.
Fails ==
    /\ In("reading") /\ ~stop /\ fails < MaxFails
    /\ fails' = fails + 1
    /\ \E transient \in BOOLEAN :
        LET attempt == IF worker.progressed THEN 0 ELSE worker.attempt
        IN  IF transient /\ attempt < Retries
            THEN /\ worker' = [worker EXCEPT !.phase = "sleeping", !.attempt = attempt + 1]
                 /\ UNCHANGED posted
            ELSE GivesUp(attempt, transient)
    /\ UNCHANGED <<mode, next, queue, free, stop, consumer>>

SleepEnds ==
    /\ In("sleeping")
    /\ worker' = [worker EXCEPT !.phase = "opening"]
    /\ UNCHANGED <<mode, next, posted, queue, free, stop, consumer, fails>>

\* The clean end of the source.
SourceEnds ==
    /\ In("reading") /\ ~stop /\ next > N
    /\ worker' = [worker EXCEPT !.phase = "done"]
    /\ UNCHANGED <<mode, next, posted, queue, free, stop, consumer, fails>>

\* The places where the thread looks at stop: the loop, the read, and between
\* two tries for a permit.
HaltsIn(phase) == stop /\ phase \in {"opening", "reading", "emitting"}

Halts ==
    /\ HaltsIn(worker.phase)
    /\ worker' = [worker EXCEPT !.phase = "done"]
    /\ UNCHANGED <<mode, next, posted, queue, free, stop, consumer, fails>>

Done ==
    /\ In("done")
    /\ worker' = [worker EXCEPT !.phase = "over"] /\ posted' = Append(posted, <<"end">>)
    /\ UNCHANGED <<mode, next, queue, free, stop, consumer, fails>>

(***************************************************************************)
(* The event loop.                                                         *)
(***************************************************************************)

IsFrame(item) == item[1] = "frame"

\* The queue's maxsize, with one slot in reserve.
Slots == MaxQueue + 1

\* _offer_frame_drop: the oldest goes, and the reserved slot stays free.
MakeRoom(q, item) == Append(IF Len(q) >= MaxQueue THEN Tail(q) ELSE q, item)

\* put_nowait on a full queue raises in the callback: the item is gone.
Callback ==
    /\ posted # <<>>
    /\ posted' = Tail(posted)
    /\ LET item == Head(posted)
       IN  queue' = IF IsFrame(item) /\ Drops THEN MakeRoom(queue, item)
                    ELSE IF Len(queue) < Slots THEN Append(queue, item) ELSE queue
    /\ UNCHANGED <<mode, next, worker, free, stop, consumer, fails>>

Take ==
    /\ consumer.phase = "reading" /\ queue # <<>>
    /\ queue' = Tail(queue)
    /\ LET item == Head(queue)
       IN  IF IsFrame(item)
           THEN /\ consumer' = [consumer EXCEPT !.got = Append(@, item[2])]
                /\ free' = IF Drops THEN free ELSE free + 1
                /\ UNCHANGED stop
           ELSE /\ consumer' = [consumer EXCEPT !.phase = item[1]]
                /\ stop' = TRUE /\ UNCHANGED free
    /\ UNCHANGED <<mode, next, worker, posted, fails>>

\* The consumer leaves, and its generator is closed.
Leave ==
    /\ consumer.phase = "reading"
    /\ consumer' = [consumer EXCEPT !.phase = "left"] /\ stop' = TRUE
    /\ UNCHANGED <<mode, next, worker, posted, queue, free, fails>>

-----------------------------------------------------------------------------

Thread ==
    \/ Open \/ ReadFrame \/ EmitFrame \/ Fails \/ SleepEnds \/ SourceEnds \/ Halts \/ Done

Next == Thread \/ Passes \/ Callback \/ Take \/ Leave

\* A read has a timeout, so the thread never rests; the loop runs its
\* callbacks; a consumer that stays takes what there is.
Fairness == WF_vars(Thread) /\ WF_vars(Callback) /\ WF_vars(Take)

-----------------------------------------------------------------------------

Got == ToSet(consumer.got)

\* A source that can be paced is read whole: whatever fails and is opened
\* again, the consumer is never missing a frame before one it has, and a clean
\* end is the end of the source.
NothingMissing == ~live =>
    /\ \A n \in Got : 1 .. n \subseteq Got
    /\ consumer.phase = "end" => Got = 1 .. N

\* A failure is not an end: the consumer is told which it was, and it is told:
\* an error or an end always gets through, with the queue full of frames.
ConsumerIsTold == In("over") ~> consumer.phase # "reading"
=============================================================================
