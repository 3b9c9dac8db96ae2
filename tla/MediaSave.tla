------------------------------ MODULE MediaSave ------------------------------
(***************************************************************************)
(* Saving a media source to a file: a worker thread copies the packets of  *)
(* one stream, or downloads the streams of a page whole and then muxes the *)
(* files, while the caller waits for the thread and may be cancelled.      *)
(***************************************************************************)
EXTENDS Naturals, Sequences, FiniteSets

CONSTANTS
    Media,      \* sources: sequences of streams [track, times], one file each
    MaxErrors

Tracks == {"video", "audio"}

\* A container has the packets of a stream in the order of their times, no two at once.
SaveAssumption ==
    /\ Media \subseteq Seq([track : Tracks, times : Seq(Nat)])
    /\ \A source \in Media : \A i \in DOMAIN source : \A k, l \in DOMAIN source[i].times :
          k < l => source[i].times[k] < source[i].times[l]

VARIABLES
    media, paged,       \* the source, and whether it is a page of formats
    wanted,             \* the tracks asked for
    caller,             \* "idle", "waiting", "reaping", "returned", "raised", "cancelled"
    worker,             \* what the thread does next
    stop, error,
    staged,             \* the streams downloaded, in order
    tmp,                \* the temporary directory: its files, {} when there is none
    heads,              \* [input -> its packets not yet muxed], once they are open
    out,                \* the packets handed to the muxer, which holds some of them back
    file, torn,         \* the packets in the file once it is closed; closing it failed
    errors

target == <<file, torn>>
vars == <<media, paged, wanted, caller, worker, stop, error, staged, tmp, heads, out, target, errors>>

Init ==
    /\ media \in Media /\ paged \in BOOLEAN /\ wanted \in {Tracks, {"video"}, {"audio"}}
    /\ Len(media) > 1 => paged
    /\ caller = "idle" /\ worker = "none" /\ stop = FALSE /\ error = FALSE
    /\ staged = <<>> /\ tmp = {} /\ heads = <<>> /\ out = <<>> /\ errors = 0
    /\ file = <<>> /\ torn = FALSE

Fails == errors < MaxErrors /\ errors' = errors + 1 /\ error' = TRUE
GoesOn == UNCHANGED <<errors, error>>

\* A source the policy forbids or no backend opens, a target outside the directory, or
\* a backend that cannot copy is refused before there is a thread.
Refuse ==
    /\ caller = "idle" /\ caller' = "raised"
    /\ UNCHANGED <<media, paged, wanted, worker, stop, error, staged, tmp, heads, out, target, errors>>

\* The credentials are resolved, and the copy is the thread's.
Save ==
    /\ caller = "idle" /\ caller' = "waiting" /\ worker' = "resolve"
    /\ UNCHANGED <<media, paged, wanted, stop, error, staged, tmp, heads, out, target, errors>>

\* A cancelled caller stops the copy and waits for the thread; cancelled again it
\* waits no more.
Cancel ==
    /\ caller \in {"waiting", "reaping"} /\ stop' = TRUE
    /\ caller' = IF caller = "waiting" THEN "reaping" ELSE "cancelled"
    /\ UNCHANGED <<media, paged, wanted, worker, error, staged, tmp, heads, out, target, errors>>

Join ==
    /\ caller \in {"waiting", "reaping"} /\ worker = "over"
    /\ caller' = IF caller = "reaping" THEN "cancelled" ELSE IF error THEN "raised" ELSE "returned"
    /\ UNCHANGED <<media, paged, wanted, worker, stop, error, staged, tmp, heads, out, target, errors>>

(* The thread. *)

Resolve ==
    /\ worker = "resolve"
    /\ \/ worker' = (IF paged /\ Len(media) > 1 THEN "download" ELSE "open") /\ GoesOn
       \/ worker' = "end" /\ Fails
    /\ UNCHANGED <<media, paged, wanted, caller, stop, staged, tmp, heads, out, target>>

\* The progress hook of a download raises once the copy is to stop.
Download ==
    /\ worker = "download"
    /\ \/ /\ ~stop /\ GoesOn
          /\ staged' = Append(staged, media[Len(staged) + 1]) /\ tmp' = tmp \cup {Len(staged) + 1}
          /\ worker' = IF Len(staged') = Len(media) THEN "open" ELSE "download"
       \/ /\ worker' = "clean" /\ error' = TRUE /\ errors' = errors + (IF stop THEN 0 ELSE 1)
          /\ (stop \/ errors < MaxErrors) /\ UNCHANGED <<staged, tmp>>
    /\ UNCHANGED <<media, paged, wanted, caller, stop, heads, out, target>>

Inputs == IF tmp = {} THEN media ELSE staged
Packets(i) == IF Inputs[i].track \in wanted
              THEN [k \in DOMAIN Inputs[i].times |-> <<Inputs[i].times[k], i>>] ELSE <<>>

\* The output is opened first; a source without a wanted stream is an error.
Open ==
    /\ worker = "open"
    /\ IF \E i \in DOMAIN Inputs : Inputs[i].track \in wanted
       THEN \/ worker' = "mux" /\ heads' = [i \in DOMAIN Inputs |-> Packets(i)] /\ GoesOn
            \/ worker' = "close" /\ Fails /\ UNCHANGED heads
       ELSE worker' = "close" /\ error' = TRUE /\ UNCHANGED <<errors, heads>>
    /\ UNCHANGED <<media, paged, wanted, caller, stop, staged, tmp, out, target>>

Left == {i \in DOMAIN heads : heads[i] # <<>>}
Earliest == CHOOSE i \in Left : \A j \in Left : Head(heads[i])[1] < Head(heads[j])[1] \/ i = j
                                                \/ (Head(heads[i])[1] = Head(heads[j])[1] /\ i < j)

\* Mutant: the copy ends with the first input that has no more packets.
MuxTheShortest ==
    /\ worker = "mux"
    /\ IF stop \/ Left # DOMAIN heads THEN worker' = "close" /\ UNCHANGED <<heads, out, errors, error>>
       ELSE out' = Append(out, Head(heads[Earliest])) /\ heads' = [heads EXCEPT ![Earliest] = Tail(@)]
            /\ UNCHANGED <<worker, errors, error>>
    /\ UNCHANGED <<media, paged, wanted, caller, stop, staged, tmp, target>>

\* The earliest packet of the inputs is written, until none is left or the copy is to stop.
Mux ==
    /\ worker = "mux"
    /\ \/ (stop \/ Left = {}) /\ worker' = "close" /\ GoesOn /\ UNCHANGED <<heads, out>>
       \/ /\ ~stop /\ Left # {} /\ GoesOn
          /\ out' = Append(out, Head(heads[Earliest]))
          /\ heads' = [heads EXCEPT ![Earliest] = Tail(@)] /\ UNCHANGED worker
       \/ Left # {} /\ worker' = "close" /\ Fails /\ UNCHANGED <<heads, out>>
    /\ UNCHANGED <<media, paged, wanted, caller, stop, staged, tmp, target>>

\* Closing hides its errors.  The muxer writes the packets it still holds and the trailer
\* only now: when it cannot, some of the packets are all there is, and the thread goes
\* on as if the file were whole.
Close ==
    /\ worker = "close" /\ worker' = IF tmp = {} THEN "end" ELSE "clean"
    /\ \/ file' = out /\ UNCHANGED <<torn, errors>>
       \/ /\ errors < MaxErrors /\ errors' = errors + 1 /\ torn' = TRUE
          /\ \E n \in 0..Len(out) : file' = SubSeq(out, 1, n)
    /\ UNCHANGED <<media, paged, wanted, caller, stop, error, staged, tmp, heads, out>>

\* The temporary files go in every case.
Clean ==
    /\ worker = "clean" /\ tmp' = {} /\ worker' = "end"
    /\ UNCHANGED <<media, paged, wanted, caller, stop, error, staged, heads, out, target, errors>>

End ==
    /\ worker = "end" /\ worker' = "over" /\ stop' = TRUE
    /\ UNCHANGED <<media, paged, wanted, caller, error, staged, tmp, heads, out, target, errors>>

Worker == Resolve \/ Download \/ Open \/ Mux \/ Close \/ Clean \/ End
Next == Save \/ Refuse \/ Cancel \/ Join \/ Worker

\* The thread runs on; whether the caller is cancelled is the application's.
Fairness == WF_vars(Worker) /\ WF_vars(Join)
Spec == Init /\ [][Next]_vars /\ Fairness

\* "the source's compressed packets are written through unchanged, so the file is bit
\* exact" (save): a save that returns has handed every packet of every wanted stream of
\* the source to the muxer, in the order of their times, and left no temporary file; and
\* these packets are the file, unless closing it failed.  That failure is hidden
\* (_mux), so the promise is not kept then: the file is what was written before.
SavedIsWhole ==
    caller = "returned" =>
        /\ {out[k] : k \in DOMAIN out} =
             UNION {{<<media[i].times[k], i>> : k \in DOMAIN media[i].times} : i \in {j \in DOMAIN media : media[j].track \in wanted}}
        /\ \A k, l \in DOMAIN out : k < l => out[k][1] <= out[l][1] /\ out[k] # out[l]
        /\ file = (IF torn THEN SubSeq(out, 1, Len(file)) ELSE out)
        /\ tmp = {}
=============================================================================
