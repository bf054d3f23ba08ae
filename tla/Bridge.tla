-------------------------------- MODULE Bridge --------------------------------
(***************************************************************************)
(* The transcript pipeline as a whole: the recorder fills the queue, the   *)
(* drainer empties it, webhook tasks announce completed meetings, and the  *)
(* process may die at any suspension, or between two file operations of    *)
(* one step, and be started again.                                         *)
(***************************************************************************)
EXTENDS Recorder

vars == <<queueVars, tableVars, hookVars, drainerVars, faults, recorderVars>>

Init ==
    /\ QueueInit
    /\ TablesInit
    /\ HookInit
    /\ DrainerInit
    /\ RecorderInit

-------------------------------------------------------------------------------
\* Memory is gone: buffers, store tasks, command handlers, webhook tasks, the drainer.
LoseMemory ==
    /\ up
    /\ up' = FALSE
    /\ drain' = "off" /\ cur' = None /\ attempt' = 0 /\ todo' = {}
    /\ hook' = [m \in Meetings |-> IF hook[m] = "sending" THEN "lost" ELSE hook[m]]
    /\ UNCHANGED <<tries, posts>>
    /\ call' = [m \in Meetings |->
                   IF call[m] \in {"none", "left", "failed"} THEN call[m] ELSE "crashed"]
    /\ stage' = [s \in Segments |->
                   IF stage[s] \in {"buffered", "naming", "held"} THEN "lost" ELSE stage[s]]

Crash ==
    /\ Fault
    /\ LoseMemory
    /\ UNCHANGED <<queueVars, tableVars, silent>>

\* The process dies between the first write of a spill and the end of the second.
CrashInSpill(s) ==
    /\ Fault
    /\ Spilling(s) \/ (stage[s] = "held" /\ s \notin Short)
    /\ spill_interrupted(s)
    /\ LoseMemory
    /\ UNCHANGED <<tableVars, silent>>

\* The process dies between the two unlinks that follow an insertion or a silent verdict.
CrashInUnlink ==
    /\ Fault
    /\ \/ drain = "touch" /\ UNCHANGED silent
       \/ drain = "transcribe" /\ silent' = silent \cup {cur}
    /\ unlink_interrupted(cur)
    /\ LoseMemory
    /\ UNCHANGED tableVars

\* The container's restart policy starts the bot again.
Restart ==
    /\ ~up
    /\ up' = TRUE
    /\ UNCHANGED <<queueVars, tableVars, hookVars, drainerVars, faults, call, stage>>

on_ready_NoDrainer ==
    /\ up
    /\ UNCHANGED vars

\* The gateway is ready, for the first time or again; ensure_pool's failure is swallowed.
on_ready ==
    /\ up
    /\ ensure_drain_loop
    /\ UNCHANGED <<queueVars, tableVars, hookVars, idleDrainer, faults, recorderVars>>

emit(m) ==
    /\ Post2xx(m) \/ PostFails(m)
    /\ UNCHANGED <<queueVars, tableVars, drainerVars, faults, recorderVars>>

\* The drainer leaves the recorder's state alone.
DrainerStep == DrainerNext /\ UNCHANGED recorderVars

ProcessNext ==
    \/ Crash \/ CrashInUnlink \/ Restart \/ on_ready
    \/ \E s \in Segments : CrashInSpill(s)

Next == DrainerStep \/ RecorderNext \/ ProcessNext \/ \E m \in Meetings : emit(m)

Spec == Init /\ [][Next]_vars

-------------------------------------------------------------------------------
(***************************************************************************)
(* Fairness. The event loop runs every task that can run, so the steps of  *)
(* the drainer that depend on nobody are weakly fair, and so are the       *)
(* container's restart and Discord's READY. The worker and Postgres may    *)
(* fail any number of times in a row, but not forever: a call to a service *)
(* that is made again and again succeeds at last (strong fairness). For    *)
(* the worker that is assumed of intact audio only. A statement gets an    *)
(* answer or an error: nothing bounds it in the code, TCP is trusted.      *)
(***************************************************************************)
WorkerAnswers ==
    /\ drain = "transcribe"
    /\ wav[cur] = "full"
    /\ TranscribeText \/ TranscribeSilence
    /\ UNCHANGED recorderVars

\* Some answer comes: the POST to the worker has a total timeout.
SomeAnswer == (TranscribeNone \/ TranscribeRefused \/ TranscribeText \/ TranscribeSilence)
                  /\ UNCHANGED recorderVars

Fairness ==
    /\ WF_vars(Restart)
    /\ WF_vars(on_ready)
    /\ WF_vars(DrainIdle /\ UNCHANGED recorderVars)
    /\ WF_vars(\E s \in Segments : (DrainDrop(s) \/ DrainLoad(s)) /\ UNCHANGED recorderVars)
    /\ WF_vars(SomeAnswer)
    /\ SF_vars(WorkerAnswers)
    /\ WF_vars((InsertRow \/ InsertError) /\ UNCHANGED recorderVars)
    /\ SF_vars(InsertRow /\ UNCHANGED recorderVars)
    /\ WF_vars(Touch /\ UNCHANGED recorderVars)
    /\ WF_vars(\E m \in Meetings : (CompleteRow(m) \/ CompleteError(m)) /\ UNCHANGED recorderVars)
    /\ SF_vars(\E m \in Meetings : CompleteRow(m) /\ UNCHANGED recorderVars)
    /\ WF_vars(\E m \in Meetings : FinishMeeting(m) /\ UNCHANGED recorderVars)
    /\ WF_vars(\E m \in Meetings : emit(m))

FairSpec == Spec /\ Fairness

-------------------------------------------------------------------------------
\* Every variable has a value of its type.
TypeOK == QueueTypeOK /\ TablesTypeOK /\ HookTypeOK /\ DrainerTypeOK /\ RecorderTypeOK

\* A segment whose two files were written is never lost: until the worker's verdict on it has
\* been acted on, both files are in the queue, whole (spill_segment's promise).
NoLostSegment ==
    \A s \in Segments :
        stage[s] \in {"spilled", "late"} =>
            (json[s] = "full" /\ wav[s] = "full") \/ Delivered(s)

\* A meeting is 'completed' only when every segment spilled before /leave marked it has been
\* delivered, and none of them waits in the queue (the order _finalize_completed relies on).
CompletedHasQueuedSegments ==
    \A m \in Meetings :
        status[m] = "completed" =>
            \A s \in Segments : MeetingOf[s] = m /\ stage[s] = "spilled" =>
                Delivered(s) /\ json[s] = "absent"

\* Nothing reaches the database out of order: while an older sidecar waits, no younger segment
\* has been inserted or found silent (scan_pending's FIFO replay), across crashes and retries.
FifoReplay ==
    \A s, t \in Segments :
        json[s] # "absent" /\ Delivered(t) => mtime[t] <= mtime[s]

\* Delivery is at least once, and every extra row has a crash, a lost answer or a failed
\* UPDATE to blame: insert_transcription and the unlinks after it are not one transaction.
DuplicatesNeedFaults == \A s \in Segments : rows[s] <= 1 + faults

\* However often a meeting's UPDATE is repeated, the receiver sees at most the POSTs of one
\* webhook task, and none before the row is 'completed' and its marker gone.
OneWebhookPerMeeting ==
    \A m \in Meetings :
        /\ posts[m] <= Attempts
        /\ hook[m] # "none" => status[m] = "completed" /\ m \notin marker

-------------------------------------------------------------------------------
\* The ledger's state, read off the directory, the tables and the recorder's history.
Accepted == {s \in Segments : stage[s] \in {"spilled", "late"} \/ Delivered(s)}
Late == {s \in Segments : stage[s] = "late"}
Settled == {s \in Segments : Delivered(s)}
Closed == {m \in Meetings : call[m] = "left"}
Completed == {m \in Meetings : status[m] = "completed"}
Notified == {m \in Meetings : posts[m] > 0}

Ledger == INSTANCE TranscriptLedger WITH
    accepted <- Accepted, late <- Late, delivered <- Settled,
    closed <- Closed, completed <- Completed, notified <- Notified

\* The pipeline implements the ledger: every step of the bot, crashes included, is a step of
\* the ledger or changes nothing in it.
ImplementsLedger == Ledger!LedgerSpec

-------------------------------------------------------------------------------
\* The calls of the recorder's one guild: a call is known by its meeting.
InCall(states) == {m \in Meetings : call[m] \in states}

Calls == INSTANCE CallLifecycle WITH
    Calls <- Meetings, spent <- InCall(CallState \ {"none"}), registered <- InCall(Registered),
    joining <- InCall({"retired", "inserted"}), recording <- InCall({"live"}),
    leaving <- InCall({"leaving"}), storing <- InCall({"storing"}), row <- status, marked <- marker

\* The calls that the audio path supposes are calls as the commands make them: whatever the drainer,
\* the stores and the crashes do, they live by CallLifecycle, which ControlPlane implements too.
RecorderFollowsLifecycle == Calls!LifecycleSpec

-------------------------------------------------------------------------------
\* The audio of one meeting: its segments are the runs that Segmenter cuts.
Begun(m) == {s \in Segments : MeetingOf[s] = m /\ stage[s] # "unspoken"}
Buffered(m) == SegmentsAt(m, "buffered")
Recording(m) == CASE call[m] \in {"none", "retired", "inserted"} -> "idle"
                  [] call[m] \in {"storing", "left"} -> "drained"
                  [] call[m] \in {"failed", "stuck", "aborted", "crashed"} -> "over"
                  [] OTHER -> call[m]

Handover(m) == INSTANCE AudioHandover WITH
    recording <- Recording(m), begun <- Begun(m), buffered <- Buffered(m)

\* Segments enter the pipeline as the segmenter hands them over, which implements AudioHandover too:
\* crashes and errors lose buffered audio only with its whole recording, and none of a drained one.
RecorderTakesOver ==
    /\ \A m \in Meetings : Handover(m)!AudioInit
    /\ [][\A m \in Meetings : [Handover(m)!AudioNext]_(Handover(m)!audioVars)]_vars

-------------------------------------------------------------------------------
\* Once /leave has marked a meeting, the drainer completes it (mark_finalizing's promise) and its
\* webhook task runs to its end, through restarts and however long the worker or Postgres was away:
\* the marker goes last, so that no crash before the task exists loses the webhook. Only a crash
\* that kills the task does.
HookSettled(m) == hook[m] \in {"delivered", "failed", "not_scheduled"} \/ (hook[m] = "lost" /\ faults > 0)
MarkedIsCompleted == \A m \in Meetings : m \in marker ~> status[m] = "completed" /\ HookSettled(m)

\* Whatever was spilled is delivered and leaves the queue (spill_segment's promise).
SpilledIsDelivered ==
    \A s \in Segments : stage[s] \in {"spilled", "late"} ~> Delivered(s) /\ json[s] = "absent"

-------------------------------------------------------------------------------
(* What the repository's comments and docs say, and the code does not do. *)

\* Whatever reacts to 'completed' sees every utterance: no segment that store has taken on is
\* still on its way when the row says 'completed' (the flusher's store tasks included).
CompletedSeesEveryUtterance ==
    \A m \in Meetings : status[m] = "completed" =>
        \A s \in Segments : MeetingOf[s] = m /\ stage[s] \in {"naming", "spilled", "late"} =>
            Delivered(s)

\* Nothing crash-left is dropped: a sidecar leaves the queue only once its segment has been
\* delivered (spill_segment: a crash just delays those rows).
QueuedUntilDelivered ==
    [][\A s \in Segments :
          json[s] # "absent" /\ json'[s] = "absent" => rows'[s] > 0 \/ s \in silent']_vars

\* /join retires stale rows only: not the row of a meeting whose /leave is still storing, or
\* that is marked and waits for the drainer to complete it.
OnlyStaleRowsRetired ==
    [][\A m \in Meetings :
          status[m] = "active" /\ status'[m] = "failed" => call[m] # "storing" /\ m \notin marker]_vars
===============================================================================
