------------------------------- MODULE MediaMC -------------------------------
(* The three uses of the media binding, which share no state: frames to an  *)
(* output (video through _drain, audio through _drain_av), frames from a  *)
(* source, and a source saved to a file.  A behaviour is of one of them,    *)
(* the others at rest.                                                      *)
EXTENDS MediaPublish

CONSTANTS N, MaxQueue, Retries, MaxFails, Media, MaxErrors

VARIABLES
    live, latest, seek, next, worker, posted, frames, free, halt, consumer, fails,
    media, paged, wanted, caller, copier, told, failed, staged, tmp, heads, out, file, torn, errors

Pump == INSTANCE MediaPump WITH queue <- frames, stop <- halt
File == INSTANCE MediaSave WITH worker <- copier, stop <- told, error <- failed

ASSUME MediaAssumption == Pump!PumpAssumption /\ File!SaveAssumption

publishVars == <<vars, tracks>>
pumpVars    == <<live, latest, seek, next, worker, posted, frames, free, halt, consumer, fails>>
fileVars    == <<media, paged, wanted, caller, copier, told, failed, staged, tmp, heads, out, <<file, torn>>, errors>>

\* A source may outrun its queue by more than the queue, the putter and the writer hold.
OneOrTwoTracks == {<<"video">>, <<"audio">>, <<"video", "audio">>}

Stream(track, times) == [track |-> track, times |-> times]

\* A file of one stream; one whose streams interleave and end apart, each its own
\* file when the source is a page.
Sources ==
    {<<Stream("video", <<1, 3>>)>>,
     <<Stream("video", <<1, 2, 4>>), Stream("audio", <<2, 3>>)>>}

\* The writer is through and has been joined.
PublishAtRest ==
    /\ tracks = <<"video">>
    /\ feed = [t \in TrackSet |-> "over"] /\ produced = [t \in TrackSet |-> 0]
    /\ putter = [t \in TrackSet |-> Empty] /\ queue = [t \in TrackSet |-> <<>>]
    /\ held = [t \in TrackSet |-> Done] /\ written = [t \in TrackSet |-> <<>>]
    /\ writer = "dead" /\ stop = TRUE /\ error = FALSE /\ publish = "returned"

\* The thread is over and its consumer has left.
PumpAtRest ==
    /\ live = FALSE /\ latest = FALSE /\ seek = FALSE /\ next = 1
    /\ worker = [phase |-> "over", attempt |-> 0, last |-> 0, progressed |-> FALSE, holds |-> 0]
    /\ posted = <<>> /\ frames = <<>> /\ free = MaxQueue /\ halt = TRUE /\ fails = 0
    /\ consumer = [phase |-> "left", got |-> <<>>]

\* The save was refused.
FileAtRest ==
    /\ media = <<Stream("video", <<1, 3>>)>> /\ paged = FALSE /\ wanted = {"video"}
    /\ caller = "raised" /\ copier = "none" /\ told = FALSE /\ failed = FALSE
    /\ staged = <<>> /\ tmp = {} /\ heads = <<>> /\ out = <<>> /\ errors = 0
    /\ file = <<>> /\ torn = FALSE

MediaInit ==
    \/ PumpAtRest /\ FileAtRest /\ Init
    \/ PublishAtRest /\ FileAtRest /\ Pump!Init
    \/ PublishAtRest /\ PumpAtRest /\ File!Init

MediaNext ==
    \/ Next /\ UNCHANGED <<pumpVars, fileVars>>
    \/ Pump!Next /\ UNCHANGED <<publishVars, fileVars>>
    \/ File!Next /\ UNCHANGED <<publishVars, pumpVars>>

MediaSpec ==
    /\ MediaInit /\ [][MediaNext]_<<publishVars, pumpVars, fileVars>>
    /\ Fairness /\ Pump!Fairness /\ File!Fairness

\* No frame is lost on its way to an output, or, from a source that can be paced, on
\* its way to a consumer, whatever fails and is opened again.
NothingDropped == NothingLost /\ Pump!NothingMissing

\* A consumer that waits is told how its source ended.
ConsumerIsTold == Pump!ConsumerIsTold

\* A save that returns has muxed the source's packets, all of them and in order, and
\* they are the file unless closing it failed.
SavedIsWhole == File!SavedIsWhole
=============================================================================
