---------------------------- MODULE MediaPublish ----------------------------
(***************************************************************************)
(* MediaBinding.publish: the bridge from async frame sources to a blocking *)
(* writer thread, _drain for one track and _drain_av for two, with the     *)
(* order in which PyAVBackend.write_av pulls the tracks.                   *)
(*                                                                         *)
(* Per track: a feed on the event loop, a bounded queue, and an executor   *)
(* thread that does the feed's blocking put.  One writer thread pulls from *)
(* every queue.  They share the queues and one stop event.                 *)
(***************************************************************************)
EXTENDS Integers, Sequences, SequencesExt

CONSTANTS
    Publishes,  \* what may be published: the tracks, in the order the writer opens them
    Depth,      \* _max_queue
    MaxFrames   \* bound: frames a source produces

ASSUME PublishAssumption ==
    /\ \A tracks \in Publishes : IsInjective(tracks)
    /\ Depth \in Nat \ {0} /\ MaxFrames \in Nat

Done  == 0      \* the end-of-stream marker; frames count from 1
Empty == -1     \* the writer holds nothing of this track

VARIABLES
    feed,       \* where each track's feed coroutine is
    produced,   \* frames each source has produced
    putter,     \* what the executor thread is putting for a track, or Empty
    queue,      \* each track's queue
    held,       \* the item the writer pulled from a track and has not encoded
    written,    \* frames of each track encoded, in order
    writer,     \* the writer thread: "opening", "writing" or "dead"
    stop,       \* the threading.Event
    error,      \* the writer failed
    publish,    \* the publish coroutine itself
    tracks      \* what it publishes

TrackSet == ToSet(tracks)

\* A video track alone goes through _drain, which sets stop before its feed ends;
\* what has audio goes through _drain_av, which sets it when gather is over.
StopFirst == tracks = <<"video">>

vars == <<feed, produced, putter, queue, held, written, writer, stop, error, publish>>

Init ==
    /\ tracks \in Publishes
    /\ feed = [t \in TrackSet |-> "pulling"]
    /\ produced = [t \in TrackSet |-> 0]
    /\ putter = [t \in TrackSet |-> Empty]
    /\ queue = [t \in TrackSet |-> <<>>]
    /\ held = [t \in TrackSet |-> Empty]
    /\ written = [t \in TrackSet |-> <<>>]
    /\ writer = "opening" /\ stop = FALSE /\ error = FALSE
    /\ publish = "feeding"

Room(t) == Len(queue[t]) < Depth

\* put_nowait(done), suppressed when the queue is full.
Unblock(t) == IF Room(t) THEN Append(queue[t], Done) ELSE queue[t]

------------------------------------------------------------------------------
(* A track's feed, on the event loop.                                      *)

FeedTo(t, s) == feed' = [feed EXCEPT ![t] = s]

\* The source yields a frame: hand it to the queue, unless the writer stopped.
SourceFrame(t) ==
    /\ feed[t] = "pulling" /\ produced[t] < MaxFrames
    /\ IF stop
       THEN /\ FeedTo(t, "over")
            /\ queue' = [queue EXCEPT ![t] = Unblock(t)]
            /\ UNCHANGED <<produced, putter>>
       ELSE /\ FeedTo(t, "putting")
            /\ produced' = [produced EXCEPT ![t] = @ + 1]
            /\ putter' = [putter EXCEPT ![t] = produced[t] + 1]
            /\ UNCHANGED queue
    /\ UNCHANGED <<held, written, writer, stop, error, publish>>

\* The source ends: queue the marker with a plain blocking put.
SourceEnds(t) ==
    /\ feed[t] = "pulling"
    /\ IF stop
       THEN /\ FeedTo(t, "over")
            /\ queue' = [queue EXCEPT ![t] = Unblock(t)]
            /\ UNCHANGED putter
       ELSE /\ FeedTo(t, "closing")
            /\ putter' = [putter EXCEPT ![t] = Done]
            /\ UNCHANGED queue
    /\ UNCHANGED <<produced, held, written, writer, stop, error, publish>>

\* The source raises: the marker goes in without waiting.
SourceRaises(t) ==
    /\ feed[t] = "pulling"
    /\ FeedTo(t, "failed")
    /\ queue' = [queue EXCEPT ![t] = Unblock(t)]
    /\ stop' = (stop \/ StopFirst)
    /\ UNCHANGED <<produced, putter, held, written, writer, error, publish>>

\* The executor call returned.
FeedResumes(t) ==
    /\ feed[t] \in {"putting", "closing"} /\ putter[t] = Empty
    /\ FeedTo(t, IF feed[t] = "putting" THEN "pulling" ELSE "over")
    /\ UNCHANGED <<produced, putter, queue, held, written, writer, stop, error, publish>>

(* The executor thread.  _put gives up once stop is set; q.put(done) never  *)
(* does.                                                                   *)

\* Mutant: a full queue drops the item.
PutOrDrop(t) ==
    /\ putter[t] # Empty
    /\ queue' = [queue EXCEPT ![t] = IF Room(t) THEN Append(@, putter[t]) ELSE @]
    /\ putter' = [putter EXCEPT ![t] = Empty]
    /\ UNCHANGED <<feed, produced, held, written, writer, stop, error, publish>>

PutItem(t) ==
    /\ putter[t] # Empty /\ Room(t)
    /\ queue' = [queue EXCEPT ![t] = Append(@, putter[t])]
    /\ putter' = [putter EXCEPT ![t] = Empty]
    /\ UNCHANGED <<feed, produced, held, written, writer, stop, error, publish>>

PutGivesUp(t) ==
    /\ putter[t] > Done /\ stop
    /\ putter' = [putter EXCEPT ![t] = Empty]
    /\ UNCHANGED <<feed, produced, queue, held, written, writer, stop, error, publish>>

------------------------------------------------------------------------------
(* The writer thread: write_av.                                            *)

\* The tracks it needs the next item of, and the one of them it asks first.
Wanted == {t \in TrackSet : held[t] = Empty}
Asks(k) == tracks[k] \in Wanted /\ \A j \in 1 .. k - 1 : tracks[j] \notin Wanted

Opens ==
    /\ writer = "opening" /\ writer' = "writing"
    /\ UNCHANGED <<feed, produced, putter, queue, held, written, stop, error, publish>>

\* next(it): blocks in q.get, with no look at stop.
Pulls ==
    /\ writer = "writing"
    /\ \E k \in DOMAIN tracks : LET t == tracks[k] IN
           /\ Asks(k) /\ queue[t] # <<>>
           /\ held' = [held EXCEPT ![t] = Head(queue[t])]
           /\ queue' = [queue EXCEPT ![t] = Tail(@)]
    /\ UNCHANGED <<feed, produced, putter, written, writer, stop, error, publish>>

\* The earlier of the held frames is encoded; which one that is, is up to their pts.
Encodes(t) ==
    /\ writer = "writing" /\ Wanted = {} /\ ~stop /\ held[t] # Done
    /\ written' = [written EXCEPT ![t] = Append(@, held[t])]
    /\ held' = [held EXCEPT ![t] = Empty]
    /\ UNCHANGED <<feed, produced, putter, queue, writer, stop, error, publish>>

\* Flush and close: told to stop, or every track has ended.
Finishes ==
    /\ writer = "writing" /\ Wanted = {}
    /\ stop \/ \A t \in TrackSet : held[t] = Done
    /\ writer' = "dead" /\ stop' = TRUE
    /\ UNCHANGED <<feed, produced, putter, queue, held, written, error, publish>>

\* The container cannot be opened, or a frame cannot be encoded or sent.
WriterFails ==
    /\ writer = "opening" \/ (writer = "writing" /\ Wanted = {})
    /\ writer' = "dead" /\ stop' = TRUE /\ error' = TRUE
    /\ UNCHANGED <<feed, produced, putter, queue, held, written, publish>>

------------------------------------------------------------------------------
(* The publish coroutine.                                                  *)

Fed ==
    /\ publish = "feeding" /\ \A t \in TrackSet : feed[t] = "over"
    /\ publish' = "joining"
    /\ UNCHANGED <<feed, produced, putter, queue, held, written, writer, stop, error>>

\* A feed raised: stop is set, and the other feed is left to itself.
FeedFailed ==
    /\ publish = "feeding" /\ \E t \in TrackSet : feed[t] = "failed"
    /\ publish' = "failing" /\ stop' = TRUE
    /\ UNCHANGED <<feed, produced, putter, queue, held, written, writer, error>>

\* Mutant: a cancelled feed leaves no marker.
CancelSilently ==
    /\ publish = "feeding"
    /\ publish' = "failing" /\ stop' = TRUE
    /\ feed' = [t \in TrackSet |-> "over"]
    /\ UNCHANGED <<produced, putter, queue, held, written, writer, error>>

\* Cancelled: every feed is, and each leaves the marker on its way out.
Cancel ==
    /\ publish = "feeding"
    /\ feed' = [t \in TrackSet |-> IF feed[t] = "over" THEN "over" ELSE "failed"]
    /\ queue' = [t \in TrackSet |-> IF feed[t] \in {"over", "failed"} THEN queue[t] ELSE Unblock(t)]
    /\ IF StopFirst \/ feed' = feed THEN publish' = "failing" /\ stop' = TRUE
       ELSE UNCHANGED <<publish, stop>>
    /\ UNCHANGED <<produced, putter, held, written, writer, error>>

Join ==
    /\ publish \in {"joining", "failing"} /\ writer = "dead"
    /\ publish' = IF publish = "failing" \/ error THEN "raised" ELSE "returned"
    /\ UNCHANGED <<feed, produced, putter, queue, held, written, writer, stop, error>>

\* Cancelled while it waits for the thread: nothing waits for it any more.
CancelJoin ==
    /\ publish \in {"joining", "failing"}
    /\ publish' = "raised"
    /\ UNCHANGED <<feed, produced, putter, queue, held, written, writer, stop, error>>

------------------------------------------------------------------------------
Source(t) == SourceFrame(t) \/ SourceEnds(t) \/ SourceRaises(t)
Bridge(t) == FeedResumes(t) \/ PutItem(t) \/ PutGivesUp(t)
Write     == Opens \/ Pulls \/ Finishes \/ \E t \in TrackSet : Encodes(t)
Return    == Fed \/ FeedFailed \/ Join

Next ==
    /\ UNCHANGED tracks
    /\ \/ \E t \in TrackSet : Source(t) \/ Bridge(t)
       \/ Write \/ WriterFails \/ Return \/ Cancel \/ CancelJoin

\* Threads and the loop run.  A source may stall for ever, the writer need not
\* fail, and nobody has to cancel.
Fairness ==
    /\ WF_vars(Write) /\ WF_vars(Return)
    /\ \A t \in UNION {ToSet(p) : p \in Publishes} : WF_vars(t \in TrackSet /\ Bridge(t))

------------------------------------------------------------------------------
\* What a track has on its way to the output, oldest first, and which of it are frames.
Line(t) == <<held[t]>> \o queue[t] \o <<putter[t]>>
InFlight(t) == {k \in DOMAIN Line(t) : Line(t)[k] > Done}

\* "the encoder paces the source and no frame is dropped" (_drain): until someone
\* stops it, what was written and what is in flight is what the source produced,
\* once each and in order.
NothingLost ==
    ~stop => \A t \in TrackSet :
        /\ \A i \in DOMAIN written[t] : written[t][i] = i
        /\ {Line(t)[k] : k \in InFlight(t)} = Len(written[t]) + 1 .. produced[t]
        /\ \A k, l \in InFlight(t) : k < l => Line(t)[k] < Line(t)[l]

Over == publish \in {"returned", "raised"}

\* The writer will find the end of a track.
IsMarked(t) == Done \in ToSet(queue[t]) \cup {held[t], putter[t]}

\* "ask the writer to stop promptly" (_drain): a publish that is cancelled, or whose
\* source raises, ends, even with a source stalled and the writer waiting on an empty
\* queue.  Through _drain_av that is so where each marker found room: behind a full
\* queue, the writer may have emptied it before stop is set.
CancelledEnds ==
    (publish = "failing" /\ (StopFirst \/ \A t \in TrackSet : IsMarked(t))) ~> Over
=============================================================================
