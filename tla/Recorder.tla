------------------------------- MODULE Recorder -------------------------------
(***************************************************************************)
(* How utterances get into the queue: the /join and /leave commands, the   *)
(* flusher task and store of bot.py, seen from the audio. The module knows *)
(* one guild with one voice channel; its meetings follow one another, and  *)
(* one may begin while the /leave of the one before is still storing.      *)
(*                                                                         *)
(* A segment is the run of PCM that one _pop cuts. store awaits name_for   *)
(* before it spills, and that awaits the network for a member who was not  *)
(* in the channel at /join and is in no cache: whether it does is left     *)
(* open. The flusher does not wait for the store tasks it creates.         *)
(***************************************************************************)
EXTENDS Drainer

CONSTANT Short   (* segments under MIN_MS, which store throws away *)

ASSUME ShortAssumption == Short \subseteq Segments

VARIABLES up,      (* does the bot's process run?        *)
          call,    (* where each meeting's recording is  *)
          stage    (* what became of each segment        *)

recorderVars == <<up, call, stage>>

(***************************************************************************)
(* none      no /join has got past channel.connect yet                     *)
(* retired   /join has retired stale rows and awaits INSERT INTO meetings  *)
(* inserted  the row is there; /join awaits client.start()                 *)
(* live      recording: active[guild] is set and the flusher runs          *)
(* leaving   /leave has popped active and awaits stop() and disconnect()   *)
(* storing   disconnected; /leave stores what drain_all popped             *)
(* left      the meeting is marked finalizing                              *)
(* failed    client.start() raised and /join disconnected                  *)
(* stuck     an exception left the voice protocol registered with py-cord  *)
(* aborted   /leave raised in or after the disconnect: no marker           *)
(* crashed   the process died before the meeting was marked                *)
(***************************************************************************)
CallState == {"none", "retired", "inserted", "live", "leaving", "storing", "left",
              "failed", "stuck", "aborted", "crashed"}

(***************************************************************************)
(* naming    popped by the flusher; its store task awaits fetch_member     *)
(* held      popped by drain_all, in the list /leave walks                 *)
(* spilled   both files were written before the meeting was marked         *)
(* late      both files were written after that                            *)
(***************************************************************************)
StageState == {"unspoken", "buffered", "naming", "held", "spilled", "late", "dropped", "lost"}

RecorderTypeOK ==
    /\ up \in BOOLEAN
    /\ call \in [Meetings -> CallState]
    /\ stage \in [Segments -> StageState]

RecorderInit ==
    /\ up = FALSE
    /\ call = [m \in Meetings |-> "none"]
    /\ stage = [s \in Segments |-> "unspoken"]

\* While one of these lasts, channel.connect raises ClientException.
Registered == {"retired", "inserted", "live", "leaving", "stuck"}

SetCall(m, c) == call' = [call EXCEPT ![m] = c]
SetStage(s, g) == stage' = [stage EXCEPT ![s] = g]

SegmentsAt(m, g) == {s \in Segments : MeetingOf[s] = m /\ stage[s] = g}
MoveAll(m, g, h) == stage' = [s \in Segments |-> IF s \in SegmentsAt(m, g) THEN h ELSE stage[s]]

idleDrainer == <<cur, attempt, todo, silent>>

-------------------------------------------------------------------------------
(* /join, from the point where channel.connect has returned a protocol. *)

\* Ids come from a sequence: meetings are inserted in the order of their ids.
join_retire(m) ==
    /\ up
    /\ call[m] = "none"
    /\ \A k \in Meetings : k < m => call[k] # "none"
    /\ \A k \in Meetings : call[k] \notin Registered
    /\ retire_stale
    /\ SetCall(m, "retired")
    /\ UNCHANGED <<queueVars, rows, hookVars, drainerVars, faults, up, stage>>

join_insert(m) ==
    /\ call[m] = "retired"
    /\ insert_meeting(m)
    /\ SetCall(m, "inserted")
    /\ UNCHANGED <<queueVars, rows, hookVars, drainerVars, faults, up, stage>>

\* client.start() returned: flusher, drainer and active[guild] in one step.
join_live(m) ==
    /\ call[m] = "inserted"
    /\ SetCall(m, "live")
    /\ ensure_drain_loop
    /\ UNCHANGED <<queueVars, tableVars, hookVars, idleDrainer, faults, up, stage>>

\* A statement of /join raises after connect: nothing disconnects the protocol.
join_db_error(m) ==
    /\ call[m] \in {"retired", "inserted"}
    /\ SetCall(m, "stuck")
    /\ UNCHANGED <<queueVars, tableVars, hookVars, drainerVars, faults, up, stage>>

\* client.start() raises: disconnect, then mark the row failed, which may itself fail.
join_start_fails(m) ==
    /\ call[m] = "inserted"
    /\ SetCall(m, "failed")
    /\ fail_meeting(m) \/ UNCHANGED status
    /\ UNCHANGED <<queueVars, rows, hookVars, drainerVars, faults, up, stage>>

-------------------------------------------------------------------------------
(* The voice client's on_pcm callback and the flusher. *)

\* Audio arrives until /leave has stopped the voice client.
write(s) ==
    /\ call[MeetingOf[s]] \in {"live", "leaving"}
    /\ stage[s] = "unspoken"
    /\ SetStage(s, "buffered")
    /\ UNCHANGED <<queueVars, tableVars, hookVars, drainerVars, faults, up, call>>

Popped_NotCancelled(s) == stage[s] = "buffered" /\ call[MeetingOf[s]] \in {"live", "leaving"}

\* The flusher pops only while active[guild] is set.
Popped(s) == stage[s] = "buffered" /\ call[MeetingOf[s]] = "live"

store_short(s) ==
    /\ Popped(s)
    /\ s \in Short
    /\ SetStage(s, "dropped")
    /\ UNCHANGED <<queueVars, tableVars, hookVars, drainerVars, faults, up, call>>

store_awaits_name(s) ==
    /\ Popped(s)
    /\ s \notin Short
    /\ SetStage(s, "naming")
    /\ UNCHANGED <<queueVars, tableVars, hookVars, drainerVars, faults, up, call>>

\* Where a detached store task may be when it reaches spill_segment.
Spilling(s) == stage[s] = "naming" \/ (Popped(s) /\ s \notin Short)

store_spill(s) ==
    /\ Spilling(s)
    /\ spill_segment(s)
    /\ SetStage(s, IF call[MeetingOf[s]] = "left" THEN "late" ELSE "spilled")
    /\ UNCHANGED <<tableVars, hookVars, drainerVars, faults, up, call>>

\* The disk is full: the exception dies with the task, whatever was written stays.
store_error(s) ==
    /\ Spilling(s)
    /\ Fault
    /\ spill_interrupted(s) \/ UNCHANGED queueVars
    /\ SetStage(s, "lost")
    /\ UNCHANGED <<tableVars, hookVars, drainerVars, up, call>>

-------------------------------------------------------------------------------
(* /leave *)

leave_begin(m) ==
    /\ call[m] = "live"
    /\ SetCall(m, "leaving")
    /\ UNCHANGED <<queueVars, tableVars, hookVars, drainerVars, faults, up, stage>>

\* defer(), stop() or disconnect() raises: the buffered audio goes with the handler.
\* disconnect() unregisters the protocol even when it raises.
leave_error(m) ==
    /\ call[m] = "leaving"
    /\ \E c \in {"stuck", "aborted"} : SetCall(m, c)
    /\ MoveAll(m, "buffered", "lost")
    /\ UNCHANGED <<queueVars, tableVars, hookVars, drainerVars, faults, up>>

leave_drain_all(m) ==
    /\ call[m] = "leaving"
    /\ SetCall(m, "storing")
    /\ MoveAll(m, "buffered", "held")
    /\ UNCHANGED <<queueVars, tableVars, hookVars, drainerVars, faults, up>>

leave_store(s) ==
    /\ stage[s] = "held"
    /\ \/ s \in Short /\ SetStage(s, "dropped") /\ UNCHANGED queueVars
       \/ s \notin Short /\ SetStage(s, "spilled") /\ spill_segment(s)
    /\ UNCHANGED <<tableVars, hookVars, drainerVars, faults, up, call>>

\* spill_segment raises out of /leave: the rest of the list is lost, the marker never made.
leave_store_error(s) ==
    /\ stage[s] = "held"
    /\ s \notin Short
    /\ Fault
    /\ spill_interrupted(s) \/ UNCHANGED queueVars
    /\ MoveAll(MeetingOf[s], "held", "lost")
    /\ SetCall(MeetingOf[s], "aborted")
    /\ UNCHANGED <<tableVars, hookVars, drainerVars, up>>

StoresDone_NotAwaited(m) == call[m] = "storing"

\* /leave awaits its own stores one after the other, and only its own.
StoresDone(m) == call[m] = "storing" /\ SegmentsAt(m, "held") = {}

leave_mark(m) ==
    /\ StoresDone(m)
    /\ mark_finalizing(m)
    /\ ensure_drain_loop
    /\ SetCall(m, "left")
    /\ UNCHANGED <<tableVars, hookVars, idleDrainer, faults, up, stage>>

\* The marker cannot be made: /leave raises, with every segment in the queue.
leave_mark_error(m) ==
    /\ StoresDone(m)
    /\ Fault
    /\ SetCall(m, "aborted")
    /\ UNCHANGED <<queueVars, tableVars, hookVars, drainerVars, up, stage>>

RecorderNext ==
    \/ \E m \in Meetings :
          \/ join_retire(m) \/ join_insert(m) \/ join_live(m)
          \/ join_db_error(m) \/ join_start_fails(m)
          \/ leave_begin(m) \/ leave_error(m) \/ leave_drain_all(m)
          \/ leave_mark(m) \/ leave_mark_error(m)
    \/ \E s \in Segments :
          \/ write(s) \/ store_short(s) \/ store_awaits_name(s)
          \/ store_spill(s) \/ store_error(s)
          \/ leave_store(s) \/ leave_store_error(s)
===============================================================================
