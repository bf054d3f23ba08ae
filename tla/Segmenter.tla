------------------------------ MODULE Segmenter -------------------------------
(***************************************************************************)
(* PcmBuffer of bot.py with its clock: frames of several users are written *)
(* as they arrive, the flusher cuts a user's buffer after a silence, and   *)
(* /leave cancels the flusher, closes the socket and drains what is left.  *)
(*                                                                         *)
(* A frame is the tick of the monotonic clock at which it was written.     *)
(***************************************************************************)
EXTENDS Integers, Sequences

CONSTANTS Users,
          Silence,    (* SILENCE_MS                                                 *)
          Poll,       (* the flusher's sleep                                        *)
          Lag,        (* how much later than its sleep says the flusher wakes up    *)
          MaxNow,     (* bounds of the instance                                     *)
          MaxFrames

ASSUME TimesAssumption == Silence \in Nat \ {0} /\ Poll \in Nat /\ Lag \in Nat /\ MaxNow \in Nat /\ MaxFrames \in Nat

VARIABLES now,
          buf, start, last,   (* PcmBuffer                                                    *)
          polled,             (* when the flusher went to sleep                               *)
          leave,              (* how far /leave is                                            *)
          receiving,          (* the client's UDP endpoint is open                            *)
          heard,              (* history: the frames written for each user                    *)
          handed,             (* history: the frames of each user given to store, in order    *)
          segments            (* history: the segments they were given in                     *)

clientVars == <<leave, receiving>>
vars == <<now, buf, start, last, polled, clientVars, heard, handed, segments>>

Segment == [frames : Seq(Nat), t0 : Nat, t1 : Nat, cut : {"flusher", "leave"}]

SegmenterTypeOK ==
    /\ now \in Nat
    /\ buf \in [Users -> Seq(Nat)]
    /\ start \in [Users -> Nat]
    /\ last \in [Users -> Nat]
    /\ polled \in Nat
    /\ leave \in {"live", "called", "stopped", "drained", "raised"}
    /\ receiving \in BOOLEAN
    /\ heard \in [Users -> Seq(Nat)]
    /\ handed \in [Users -> Seq(Nat)]
    /\ segments \in [Users -> Seq(Segment)]

Init ==
    /\ now = 0
    /\ buf = [u \in Users |-> <<>>]
    /\ start = [u \in Users |-> 0]
    /\ last = [u \in Users |-> 0]
    /\ polled = 0
    /\ leave = "live"
    /\ receiving = TRUE
    /\ heard = [u \in Users |-> <<>>]
    /\ handed = [u \in Users |-> <<>>]
    /\ segments = [u \in Users |-> <<>>]

-------------------------------------------------------------------------------
\* The event loop runs the flusher at most Lag after its sleep is over.
tick ==
    /\ now < MaxNow
    /\ leave = "live" => now < polled + Poll + Lag
    /\ now' = now + 1
    /\ UNCHANGED <<buf, start, last, polled, clientVars, heard, handed, segments>>

write_KeepsStart(u) ==
    /\ receiving /\ Len(heard[u]) < MaxFrames
    /\ buf' = [buf EXCEPT ![u] = Append(@, now)]
    /\ start' = [start EXCEPT ![u] = IF heard[u] = <<>> THEN now ELSE @]
    /\ last' = [last EXCEPT ![u] = now]
    /\ heard' = [heard EXCEPT ![u] = Append(@, now)]
    /\ UNCHANGED <<now, polled, clientVars, handed, segments>>

write(u) ==
    /\ receiving /\ Len(heard[u]) < MaxFrames
    /\ buf' = [buf EXCEPT ![u] = Append(@, now)]
    /\ start' = [start EXCEPT ![u] = IF buf[u] = <<>> THEN now ELSE @]
    /\ last' = [last EXCEPT ![u] = now]
    /\ heard' = [heard EXCEPT ![u] = Append(@, now)]
    /\ UNCHANGED <<now, polled, clientVars, handed, segments>>

pop_KeepsBuffer(users, cut) ==
    /\ handed' = [u \in Users |-> IF u \in users THEN handed[u] \o buf[u] ELSE handed[u]]
    /\ segments' = [u \in Users |-> IF u \in users
                       THEN Append(segments[u], [frames |-> buf[u], t0 |-> start[u], t1 |-> last[u], cut |-> cut])
                       ELSE segments[u]]
    /\ UNCHANGED <<buf, start, last>>

\* _pop: the buffers of these users go to store, each as one segment.
pop(users, cut) ==
    /\ handed' = [u \in Users |-> IF u \in users THEN handed[u] \o buf[u] ELSE handed[u]]
    /\ segments' = [u \in Users |-> IF u \in users
                       THEN Append(segments[u], [frames |-> buf[u], t0 |-> start[u], t1 |-> last[u], cut |-> cut])
                       ELSE segments[u]]
    /\ buf' = [u \in Users |-> IF u \in users THEN <<>> ELSE buf[u]]
    /\ UNCHANGED <<start, last>>

Nonempty == {u \in Users : buf[u] # <<>>}
Silent_SinceStart == {u \in Nonempty : now - start[u] >= Silence}
Silent_OffByOne == {u \in Nonempty : now - last[u] > Silence}
Silent == {u \in Nonempty : now - last[u] >= Silence}

drain_ready_NotCancelled ==
    /\ leave \in {"live", "called"} /\ now >= polled + Poll
    /\ pop(Silent, "flusher")
    /\ polled' = now
    /\ UNCHANGED <<now, clientVars, heard>>

drain_ready ==
    /\ leave = "live" /\ now >= polled + Poll
    /\ pop(Silent, "flusher")
    /\ polled' = now
    /\ UNCHANGED <<now, clientVars, heard>>

\* task.cancel() comes before the first await of /leave, so that nothing is cut from here on.
leave_called ==
    /\ leave = "live"
    /\ leave' = "called"
    /\ UNCHANGED <<now, buf, start, last, polled, receiving, heard, handed, segments>>

leave_stop_TooLate ==
    /\ leave = "called"
    /\ leave' = "stopped"
    /\ UNCHANGED <<now, buf, start, last, polled, receiving, heard, handed, segments>>

\* ctx.defer may raise, and then nothing ever closes the socket; client.stop closes it first.
leave_stop ==
    /\ leave = "called"
    /\ \/ leave' = "stopped" /\ receiving' = FALSE
       \/ leave' = "raised" /\ UNCHANGED receiving
    /\ UNCHANGED <<now, buf, start, last, polled, heard, handed, segments>>

\* stop()'s close of the websocket, or disconnect, has raised; or both are over.
drain_all ==
    /\ leave = "stopped"
    /\ \/ leave' = "drained" /\ pop(Nonempty, "leave")
       \/ leave' = "raised" /\ UNCHANGED <<buf, start, last, handed, segments>>
    /\ UNCHANGED <<now, polled, receiving, heard>>

Next == tick \/ (\E u \in Users : write(u)) \/ drain_ready \/ leave_called \/ leave_stop \/ drain_all

Spec == Init /\ [][Next]_vars

-------------------------------------------------------------------------------
\* No frame is lost, doubled or moved: what a user's segments hold, with what is buffered, is what
\* was written for the user, in order.
FramesConserved == \A u \in Users : heard[u] = handed[u] \o buf[u]

\* When /leave has drained the buffers, everything heard was given to store, and nothing can follow.
DrainedIsEverything == leave = "drained" => \A u \in Users : handed[u] = heard[u]

\* A segment's times are those of its first and its last frame.
Exact(g) == g.frames # <<>> /\ g.t0 = g.frames[1] /\ g.t1 = g.frames[Len(g.frames)]
TimesAreExact == \A u \in Users : \A i \in 1 .. Len(segments[u]) : Exact(segments[u][i])

\* Two segments of a user lie apart by the silence or more: no utterance is cut in two.
Apart(g, h) == h.t0 - g.t1 >= Silence
SegmentsAreApart ==
    \A u \in Users : \A i \in 1 .. Len(segments[u]) - 1 : Apart(segments[u][i], segments[u][i + 1])

\* The flusher's segments have no pause inside that its next pass would have noticed.
LongestPause == Silence + Poll + Lag
PausesAreShort(frames) == \A i \in 1 .. Len(frames) - 1 : frames[i + 1] - frames[i] < LongestPause
Fluent(g) == g.cut = "flusher" => PausesAreShort(g.frames)
NoPauseInside == \A u \in Users : \A i \in 1 .. Len(segments[u]) : Fluent(segments[u][i])

-------------------------------------------------------------------------------
\* The runs of audio of a user are numbered: those that were cut, and one more if the buffer holds one.
BegunOf(u) == Len(segments[u]) + IF buf[u] = <<>> THEN 0 ELSE 1
Begun == UNION {{u} \X (1 .. BegunOf(u)) : u \in Users}
Buffered == IF leave = "raised" THEN {} ELSE {<<u, Len(segments[u]) + 1>> : u \in Nonempty}
Recording == CASE leave \in {"called", "stopped"} -> "leaving"
               [] leave = "raised" -> "over"
               [] OTHER -> leave

Handover == INSTANCE AudioHandover WITH recording <- Recording, begun <- Begun, buffered <- Buffered

\* The segmenter hands audio over as the recorder supposes: whatever the clock and the order of frames,
\* passes of the flusher and steps of /leave are, a run leaves the buffer once, and none begins or is
\* left behind in a recording that was drained.
ImplementsHandover == Handover!AudioSpec

-------------------------------------------------------------------------------
(* The inductive invariant *)

\* PcmBuffer's times are those of what it holds.
BufferTimes ==
    \A u \in Users :
        /\ last[u] <= now
        /\ buf[u] # <<>> => start[u] = buf[u][1] /\ last[u] = buf[u][Len(buf[u])]

\* What is buffered, or would be now, lies apart from the segment before it.
GapKept ==
    leave # "drained" => \A u \in Users : segments[u] # <<>> =>
        /\ now - segments[u][Len(segments[u])].t1 >= Silence
        /\ buf[u] # <<>> => start[u] - segments[u][Len(segments[u])].t1 >= Silence

\* No buffer was silent for long when the flusher last looked, and it looks again in time.
FlusherInTime ==
    leave = "live" =>
        /\ polled <= now /\ now <= polled + Poll + Lag
        /\ \A u \in Users : buf[u] # <<>> => polled - last[u] < Silence /\ PausesAreShort(buf[u])

\* The socket is closed before the buffers are drained.
ClosedBeforeDrained ==
    /\ leave \in {"stopped", "drained"} => ~receiving
    /\ leave = "drained" => \A u \in Users : buf[u] = <<>>

SInv ==
    /\ SegmenterTypeOK /\ FramesConserved /\ TimesAreExact /\ SegmentsAreApart /\ NoPauseInside
    /\ BufferTimes /\ GapKept /\ FlusherInTime /\ ClosedBeforeDrained
===============================================================================
