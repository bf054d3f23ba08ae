----------------------------- MODULE BridgeProofs -----------------------------
(***************************************************************************)
(* Proofs about Bridge for every set of segments and meetings, every bound *)
(* on faults and attempts, and every way a spill may be cut short.         *)
(***************************************************************************)
EXTENDS BridgeInv, TLAPS


-------------------------------------------------------------------------------
(* Types *)

\* Every step of the drainer keeps the types; it works on a segment.
LEMMA TypeDrainer == TypeOK /\ CurrentIsQueued /\ DrainerStep => TypeOK'
<1> SUFFICES ASSUME TypeOK, CurrentIsQueued, DrainerNext, UNCHANGED recorderVars PROVE TypeOK'
  BY DEF DrainerStep
<1> USE DEF TypeOK, QueueTypeOK, TablesTypeOK, HookTypeOK, DrainerTypeOK, RecorderTypeOK,
            queueVars, tableVars, hookVars, drainerVars, recorderVars,
            FileState, Status, HookState, DrainState
<1>1. CASE DrainIdle
  BY <1>1 DEF DrainIdle, begin_finalize, Drained, finalizing_meetings
<1>2. CASE \E s \in Segments : DrainDrop(s) \/ DrainLoad(s)
  BY <1>2 DEF DrainDrop, DrainLoad, unlink_segment
<1>3. CASE TranscribeRefused \/ TranscribeNone
  BY <1>3 DEF TranscribeRefused, TranscribeNone, EndPass
<1>4. CASE TranscribeSilence \/ Touch
  BY <1>4 DEF TranscribeSilence, Touch, unlink_segment, begin_finalize, Drained,
              finalizing_meetings, CurrentIsQueued, Busy
<1>5. CASE TranscribeText \/ InsertRow
  BY <1>5 DEF TranscribeText, InsertRow, insert_transcription_row, CurrentIsQueued, Busy
<1>6. CASE InsertError \/ TouchError
  BY <1>6 DEF InsertError, TouchError, insert_transcription_row, EndPass, Fault
<1>7. CASE \E m \in Meetings : CompleteRow(m) \/ CompleteError(m)
  BY <1>7 DEF CompleteRow, CompleteError, complete_meeting, EndPass
<1>8. CASE \E m \in Meetings : FinishMeeting(m)
  BY <1>8 DEF FinishMeeting, unmark_finalizing, schedule_webhook
<1> QED
  BY <1>1, <1>2, <1>3, <1>4, <1>5, <1>6, <1>7, <1>8 DEF DrainerNext

\* Every step of /join, the flusher, store and /leave keeps the types.
LEMMA TypeRecorder == TypeOK /\ RecorderNext => TypeOK'
<1> SUFFICES ASSUME TypeOK, RecorderNext PROVE TypeOK'
  OBVIOUS
<1> USE DEF TypeOK, QueueTypeOK, TablesTypeOK, HookTypeOK, DrainerTypeOK, RecorderTypeOK,
            queueVars, tableVars, hookVars, drainerVars, recorderVars, idleDrainer,
            FileState, Status, DrainState, CallState, StageState, SetCall, SetStage, MoveAll
<1>1. CASE \E m \in Meetings : join_retire(m) \/ join_insert(m)
  BY <1>1 DEF join_retire, join_insert, retire_stale, insert_meeting
<1>2. CASE \E m \in Meetings : join_live(m) \/ join_db_error(m) \/ join_start_fails(m)
  BY <1>2 DEF join_live, join_db_error, join_start_fails, ensure_drain_loop, fail_meeting
<1>3. CASE \E m \in Meetings : leave_begin(m) \/ leave_error(m) \/ leave_drain_all(m)
  BY <1>3 DEF leave_begin, leave_error, leave_drain_all
<1>4. CASE \E m \in Meetings : leave_mark(m) \/ leave_mark_error(m)
  BY <1>4 DEF leave_mark, leave_mark_error, mark_finalizing, ensure_drain_loop, Fault
<1>5. CASE \E s \in Segments : write(s) \/ store_short(s) \/ store_awaits_name(s)
  BY <1>5 DEF write, store_short, store_awaits_name
<1>6. CASE \E s \in Segments : store_spill(s) \/ leave_store(s)
  BY <1>6 DEF store_spill, leave_store, spill_segment, WriteFiles, Stamp
<1>7. CASE \E s \in Segments : store_error(s) \/ leave_store_error(s)
  BY <1>7, CutsAssumption
     DEF store_error, leave_store_error, spill_interrupted, WriteFiles, Stamp, Fault
<1> QED
  BY <1>1, <1>2, <1>3, <1>4, <1>5, <1>6, <1>7 DEF RecorderNext

\* What a crash does to the bot's memory is well typed.
LEMMA TypeLoseMemory ==
    ASSUME TypeOK, LoseMemory
    PROVE  /\ RecorderTypeOK'
           /\ HookTypeOK'
           /\ drain' \in DrainState /\ cur' \in Segments \cup {None}
           /\ attempt' \in Nat /\ todo' \in SUBSET Meetings
<1>1. up' \in BOOLEAN
  BY Zenon DEF LoseMemory
<1>2. call' \in [Meetings -> CallState]
  BY DEF LoseMemory, TypeOK, RecorderTypeOK, CallState
<1>3. stage' \in [Segments -> StageState]
  BY DEF LoseMemory, TypeOK, RecorderTypeOK, StageState
<1>4. HookTypeOK'
  BY DEF LoseMemory, TypeOK, HookTypeOK, HookState
<1>5. drain' \in DrainState /\ cur' \in Segments \cup {None} /\ attempt' \in Nat
      /\ todo' \in SUBSET Meetings
  BY DEF LoseMemory, DrainState
<1> QED
  BY <1>1, <1>2, <1>3, <1>4, <1>5 DEF RecorderTypeOK

\* What an interrupted spill leaves on the disk is well typed.
LEMMA TypeSpillInterrupted ==
    ASSUME NEW s \in Segments, QueueTypeOK, spill_interrupted(s) PROVE QueueTypeOK'
  BY CutsAssumption DEF spill_interrupted, WriteFiles, Stamp, QueueTypeOK, FileState

\* Crashes, restarts and on_ready keep the types.
LEMMA TypeProcess == TypeOK /\ CurrentIsQueued /\ ProcessNext => TypeOK'
<1> SUFFICES ASSUME TypeOK, CurrentIsQueued, ProcessNext PROVE TypeOK'
  OBVIOUS
<1>1. CASE Crash
  BY <1>1, TypeLoseMemory
     DEF Crash, Fault, TypeOK, QueueTypeOK, TablesTypeOK, DrainerTypeOK, queueVars, tableVars
<1>2. CASE CrashInUnlink
  <2>1. cur \in Segments
    BY <1>2 DEF CrashInUnlink, CurrentIsQueued, Busy
  <2> QED
    BY <1>2, <2>1, TypeLoseMemory
       DEF CrashInUnlink, Fault, unlink_interrupted, TypeOK, QueueTypeOK, TablesTypeOK,
           DrainerTypeOK, FileState, tableVars
<1>3. CASE Restart \/ on_ready
  BY <1>3 DEF Restart, on_ready, ensure_drain_loop, TypeOK, QueueTypeOK, TablesTypeOK,
              HookTypeOK, DrainerTypeOK, RecorderTypeOK, DrainState, queueVars, tableVars,
              hookVars, drainerVars, recorderVars, idleDrainer
<1>4. CASE \E s \in Segments : CrashInSpill(s)
  BY <1>4, TypeLoseMemory, TypeSpillInterrupted
     DEF CrashInSpill, Fault, TypeOK, TablesTypeOK, DrainerTypeOK, tableVars
<1> QED
  BY <1>1, <1>2, <1>3, <1>4 DEF ProcessNext

\* A POST of the webhook task keeps the types.
LEMMA TypeEmit == ASSUME TypeOK, NEW m \in Meetings, emit(m) PROVE TypeOK'
  BY DEF emit, Post2xx, PostFails, Sent, TypeOK, QueueTypeOK, TablesTypeOK, HookTypeOK,
         DrainerTypeOK, RecorderTypeOK, HookState, queueVars, tableVars, drainerVars, recorderVars

-------------------------------------------------------------------------------
(***************************************************************************)
(* The queue. Seen from the files, the rows and the drainer's pc, a step   *)
(* of anything but the drainer is one of three: it touches no file, it     *)
(* writes the files of a segment that had none, or it dies between two     *)
(* unlinks. The invariants of the queue are proved for these shapes.       *)
(***************************************************************************)
StageKept(t) ==
    /\ stage'[t] \in Unspilled => stage[t] \in Unspilled
    /\ stage'[t] \in {"spilled", "late"} => stage[t] = stage'[t]

\* The drainer stays where it is, or is started, or is killed at the price of a fault.
DrainerKept ==
    /\ UNCHANGED <<rows, silent>>
    /\ \/ UNCHANGED <<drain, cur>> /\ faults' \in {faults, faults + 1}
       \/ drain \notin Busy /\ drain' \notin Busy /\ UNCHANGED faults
       \/ drain' \notin Busy /\ faults' = faults + 1

NoFile ==
    /\ UNCHANGED <<json, wav, mtime, now>>
    /\ \A t \in Segments : StageKept(t)
    /\ DrainerKept

Spill(s) ==
    /\ stage[s] \in Unspilled
    /\ \/ spill_segment(s) /\ stage'[s] \in {"spilled", "late"}
       \/ spill_interrupted(s) /\ stage'[s] = "lost"
    /\ \A t \in Segments \ {s} : StageKept(t)
    /\ DrainerKept

\* A crash turns no segment into a spilled one, and the drainer is gone.
LEMMA LoseMemoryShape ==
    ASSUME TypeOK, LoseMemory
    PROVE  /\ \A t \in Segments : StageKept(t)
           /\ \A t \in Segments : stage[t] \in {"buffered", "naming", "held"} => stage'[t] = "lost"
           /\ drain' = "off"
  BY DEF TypeOK, RecorderTypeOK, StageState, LoseMemory, StageKept, Unspilled

\* The recorder leaves the queue alone or spills one segment.
LEMMA RecorderShape ==
    ASSUME TypeOK, RecorderNext PROVE NoFile \/ \E s \in Segments : Spill(s)
<1> USE DEF TypeOK, RecorderTypeOK, StageState, StageKept, Unspilled, SetStage, MoveAll, SegmentsAt
<1>1. CASE \E m \in Meetings : join_retire(m) \/ join_insert(m) \/ join_live(m)
                               \/ join_db_error(m) \/ join_start_fails(m)
  BY <1>1 DEF NoFile, DrainerKept, Busy, join_retire, join_insert, join_live, join_db_error,
              join_start_fails, ensure_drain_loop, queueVars, tableVars, drainerVars, idleDrainer
<1>2. CASE \E m \in Meetings : leave_begin(m) \/ leave_error(m) \/ leave_drain_all(m)
                               \/ leave_mark(m) \/ leave_mark_error(m)
  BY <1>2 DEF NoFile, DrainerKept, Busy, leave_begin, leave_error, leave_drain_all, leave_mark,
              leave_mark_error, StoresDone, Fault,
              mark_finalizing, ensure_drain_loop, queueVars, tableVars, drainerVars, idleDrainer
<1>3. CASE \E s \in Segments : write(s) \/ store_short(s) \/ store_awaits_name(s)
  BY <1>3 DEF NoFile, DrainerKept, write, store_short, store_awaits_name, Popped,
              queueVars, tableVars, drainerVars
<1>4. CASE \E s \in Segments : store_spill(s) \/ leave_store(s)
  BY <1>4 DEF Spill, NoFile, DrainerKept, store_spill, leave_store, Spilling, Popped,
              queueVars, tableVars, drainerVars
<1>5. CASE \E s \in Segments : store_error(s) \/ leave_store_error(s)
  BY <1>5 DEF Spill, NoFile, DrainerKept, store_error, leave_store_error, Spilling, Popped,
              Fault, queueVars, tableVars, drainerVars
<1> QED
  BY <1>1, <1>2, <1>3, <1>4, <1>5 DEF RecorderNext

\* A crash leaves the queue alone, cuts one spill short, or cuts one unlink short.
LEMMA ProcessShape ==
    ASSUME TypeOK, ProcessNext
    PROVE  NoFile \/ (\E s \in Segments : Spill(s)) \/ CrashInUnlink
<1>1. CASE Crash
  BY <1>1, LoseMemoryShape DEF Crash, Fault, NoFile, DrainerKept, Busy, queueVars, tableVars
<1>2. CASE Restart \/ on_ready
  BY <1>2 DEF Restart, on_ready, ensure_drain_loop, NoFile, DrainerKept, StageKept, Busy,
              queueVars, tableVars, drainerVars, recorderVars, idleDrainer
<1>3. CASE \E s \in Segments : CrashInSpill(s)
  BY <1>3, LoseMemoryShape
     DEF CrashInSpill, Spilling, Popped, Fault, Spill, DrainerKept, Busy, Unspilled, tableVars
<1> QED
  BY <1>1, <1>2, <1>3 DEF ProcessNext

\* The webhook task leaves the queue alone.
LEMMA EmitShape == ASSUME NEW m \in Meetings, emit(m) PROVE NoFile
  BY DEF emit, NoFile, DrainerKept, StageKept, queueVars, tableVars, drainerVars, recorderVars

\* A step that touches no file keeps the queue invariant.
LEMMA NoFileKeepsQueue == ASSUME TypeOK, TypeOK', QueueInv, NoFile PROVE QueueInv'
<1> USE DEF TypeOK, TablesTypeOK, DrainerTypeOK, QueueInv, NoFile, DrainerKept, StageKept, Delivered
<1>1. CurrentIsQueued'
  BY DEF CurrentIsQueued, Busy, Readable, Oldest, scan_pending
<1>2. UnspilledIsFresh'
  BY DEF UnspilledIsFresh
<1>3. NoLostSegment'
  BY DEF NoLostSegment
<1>4. ClockIsAhead' /\ FifoReplay'
  BY DEF ClockIsAhead, FifoReplay
<1>5. RowsAccounted'
  BY DEF RowsAccounted, Readable, Busy
<1> QED
  BY <1>1, <1>2, <1>3, <1>4, <1>5

\* A spill, whole or cut short, puts the youngest segment into the queue.
LEMMA SpillKeepsQueue ==
    ASSUME TypeOK, TypeOK', QueueInv, NEW s \in Segments, Spill(s) PROVE QueueInv'
<1> USE DEF QueueInv
<1>1. json[s] = "absent" /\ ~Delivered(s)
  BY DEF Spill, UnspilledIsFresh
<1>2. ~Delivered(s)' /\ \A t \in Segments : Delivered(t)' <=> Delivered(t)
  BY <1>1 DEF Spill, DrainerKept, Delivered
<1>3. /\ \A t \in Segments \ {s} : json'[t] = json[t] /\ wav'[t] = wav[t] /\ mtime'[t] = mtime[t]
      /\ json'[s] # "absent" /\ mtime'[s] = now' /\ now' >= now
  BY CutsAssumption
     DEF Spill, spill_segment, spill_interrupted, WriteFiles, Stamp, TypeOK, QueueTypeOK
<1>4. CurrentIsQueued'
  BY <1>1, <1>3 DEF CurrentIsQueued, Spill, DrainerKept, ClockIsAhead, Busy, Readable, Oldest,
                    scan_pending, TypeOK, QueueTypeOK
<1>5. UnspilledIsFresh'
  BY <1>2, <1>3 DEF UnspilledIsFresh, Spill, StageKept, Unspilled
<1>6. NoLostSegment'
  <2>1. stage'[s] \in {"spilled", "late"} => json'[s] = "full" /\ wav'[s] = "full"
    BY DEF Spill, spill_segment, WriteFiles, TypeOK, QueueTypeOK
  <2> QED
    BY <1>2, <1>3, <2>1 DEF NoLostSegment, Spill, StageKept
<1>7. ClockIsAhead'
  BY <1>2, <1>3 DEF ClockIsAhead, TypeOK, QueueTypeOK
<1>8. FifoReplay'
  BY <1>2, <1>3 DEF FifoReplay, ClockIsAhead, TypeOK, QueueTypeOK
<1>9. RowsAccounted'
  <2>1. rows[s] = 0
    BY <1>1 DEF Delivered, TypeOK, TablesTypeOK
  <2> QED
    BY <1>3, <2>1 DEF RowsAccounted, Spill, DrainerKept, Readable, Busy, TypeOK, TablesTypeOK,
                      DrainerTypeOK
<1> QED
  BY <1>4, <1>5, <1>6, <1>7, <1>8, <1>9

\* A crash between the two unlinks leaves an unreadable sidecar of a delivered segment.
LEMMA HalfUnlinkKeepsQueue == ASSUME TypeOK, TypeOK', QueueInv, CrashInUnlink PROVE QueueInv'
<1> USE DEF QueueInv
<1>0. PICK c \in Segments : c = cur
  BY DEF CrashInUnlink, CurrentIsQueued, Busy
<1>1. json[c] = "full" /\ wav[c] # "absent" /\ Oldest(c) /\ Delivered(c)'
  BY <1>0 DEF CrashInUnlink, CurrentIsQueued, Busy, Readable, Delivered, tableVars, TypeOK,
              TablesTypeOK, DrainerTypeOK
<1>2. /\ UNCHANGED <<json, mtime, now, rows>> /\ faults' = faults + 1 /\ drain' = "off"
      /\ wav' = [wav EXCEPT ![c] = "absent"]
      /\ \A t \in Segments \ {c} : Delivered(t)' <=> Delivered(t)
      /\ \A t \in Segments : StageKept(t)
  BY <1>0, LoseMemoryShape DEF CrashInUnlink, Fault, unlink_interrupted, tableVars, Delivered
<1>3. CurrentIsQueued'
  BY <1>2 DEF CurrentIsQueued, Busy
<1>4. UnspilledIsFresh'
  BY <1>1, <1>2 DEF UnspilledIsFresh, StageKept, TypeOK, QueueTypeOK
<1>5. NoLostSegment'
  BY <1>1, <1>2 DEF NoLostSegment, StageKept, TypeOK, QueueTypeOK
<1>6. ClockIsAhead' /\ FifoReplay'
  BY <1>1, <1>2 DEF ClockIsAhead, FifoReplay, Oldest, scan_pending, TypeOK, QueueTypeOK
<1>7. RowsAccounted'
  BY <1>1, <1>2 DEF RowsAccounted, Readable, TypeOK, QueueTypeOK, TablesTypeOK, DrainerTypeOK
<1> QED
  BY <1>3, <1>4, <1>5, <1>6, <1>7

\* A step of the drainer that leaves the files and the verdicts alone.
LEMMA DrainerIdleKeepsQueue ==
    ASSUME TypeOK, TypeOK', QueueInv, UNCHANGED <<json, wav, mtime, now, rows, silent, stage>>,
           \/ faults' = faults /\ drain # "touch" /\ drain' \notin Busy
           \/ faults' = faults + 1 /\ drain' \notin Busy
           \/ faults' = faults /\ drain \in Busy \ {"touch"} /\ drain' \in Busy \ {"touch"} /\ cur' = cur
    PROVE  QueueInv'
<1> USE DEF QueueInv
<1>1. CurrentIsQueued'
  BY DEF CurrentIsQueued, Busy, Readable, Oldest, scan_pending
<1>2. UnspilledIsFresh' /\ NoLostSegment' /\ ClockIsAhead' /\ FifoReplay'
  BY DEF UnspilledIsFresh, NoLostSegment, ClockIsAhead, FifoReplay, Delivered
<1>3. RowsAccounted'
  BY DEF RowsAccounted, Readable, Busy, TypeOK, TablesTypeOK, DrainerTypeOK
<1> QED
  BY <1>1, <1>2, <1>3

\* The verdict on the current segment is acted on: committed, or its files unlinked.
LEMMA UnlinkKeepsQueue ==
    ASSUME TypeOK, TypeOK', QueueInv, TranscribeSilence \/ Touch, UNCHANGED stage
    PROVE  QueueInv'
<1> USE DEF QueueInv
<1>0. PICK c \in Segments : c = cur
  BY DEF TranscribeSilence, Touch, CurrentIsQueued, Busy
<1>1. json[c] = "full" /\ Oldest(c) /\ Delivered(c)'
  BY <1>0 DEF TranscribeSilence, Touch, CurrentIsQueued, Busy, Readable, Delivered, tableVars,
              TypeOK, TablesTypeOK, DrainerTypeOK
<1>2. /\ UNCHANGED <<mtime, now, rows, faults>> /\ drain' \notin Busy
      /\ wav' = [wav EXCEPT ![c] = "absent"] /\ json' = [json EXCEPT ![c] = "absent"]
      /\ \A t \in Segments \ {c} : Delivered(t)' <=> Delivered(t)
  BY <1>0 DEF TranscribeSilence, Touch, unlink_segment, begin_finalize, Busy, Delivered, tableVars
<1>3. CurrentIsQueued'
  BY <1>2 DEF CurrentIsQueued, Busy
<1>4. UnspilledIsFresh'
  BY <1>1, <1>2 DEF UnspilledIsFresh, TypeOK, QueueTypeOK
<1>5. NoLostSegment'
  BY <1>1, <1>2 DEF NoLostSegment, TypeOK, QueueTypeOK
<1>6. ClockIsAhead' /\ FifoReplay'
  BY <1>1, <1>2 DEF ClockIsAhead, FifoReplay, Oldest, scan_pending, TypeOK, QueueTypeOK
<1>7. RowsAccounted'
  BY <1>0, <1>1, <1>2 DEF RowsAccounted, Readable, TypeOK, QueueTypeOK, TablesTypeOK, DrainerTypeOK
<1> QED
  BY <1>3, <1>4, <1>5, <1>6, <1>7

\* The INSERT, and an INSERT whose answer is lost, account for the row they add.
LEMMA InsertKeepsQueue ==
    ASSUME TypeOK, TypeOK', QueueInv, drain = "insert", insert_transcription_row(cur),
           UNCHANGED <<json, wav, mtime, now, silent, stage>>,
           \/ drain' = "touch" /\ UNCHANGED <<cur, faults>>
           \/ drain' = "ready" /\ faults' = faults + 1
    PROVE  QueueInv'
<1> USE DEF QueueInv
<1>0. PICK c \in Segments : c = cur
  BY DEF CurrentIsQueued, Busy
<1>1. Readable(c) /\ Oldest(c)
  BY <1>0 DEF CurrentIsQueued, Busy
<1>2. /\ rows'[c] = rows[c] + 1
      /\ \A t \in Segments \ {c} : rows'[t] = rows[t] /\ (Delivered(t)' <=> Delivered(t))
      /\ Delivered(c)'
  BY <1>0 DEF insert_transcription_row, Delivered, TypeOK, TablesTypeOK
<1>3. CurrentIsQueued'
  BY <1>0, <1>1, <1>2 DEF CurrentIsQueued, Busy, Readable, Oldest, scan_pending, TypeOK, TablesTypeOK
<1>4. UnspilledIsFresh'
  BY <1>1, <1>2 DEF UnspilledIsFresh, Readable
<1>5. NoLostSegment'
  BY <1>1, <1>2 DEF NoLostSegment
<1>6. ClockIsAhead' /\ FifoReplay'
  BY <1>1, <1>2 DEF ClockIsAhead, FifoReplay, Oldest, scan_pending
<1>7. RowsAccounted'
  BY <1>0, <1>1, <1>2 DEF RowsAccounted, Readable, TypeOK, TablesTypeOK, DrainerTypeOK
<1> QED
  BY <1>3, <1>4, <1>5, <1>6, <1>7

\* An unreadable sidecar is dropped: it was never whole, or it is the rest of a half unlink.
LEMMA DropKeepsQueue ==
    ASSUME TypeOK, TypeOK', QueueInv, NEW s \in Segments, DrainDrop(s), UNCHANGED stage
    PROVE  QueueInv'
<1> USE DEF QueueInv
<1>1. /\ drain = "ready" /\ UNCHANGED <<mtime, now, rows, silent, drain, cur, faults>>
      /\ json[s] # "absent" /\ ~(json[s] = "full" /\ wav[s] = "full")
      /\ json' = [json EXCEPT ![s] = "absent"] /\ wav' = [wav EXCEPT ![s] = "absent"]
  BY DEF DrainDrop, Oldest, scan_pending, Readable, unlink_segment, tableVars, drainerVars
<1>2. CurrentIsQueued'
  BY <1>1 DEF CurrentIsQueued, Busy
<1>3. UnspilledIsFresh' /\ NoLostSegment'
  BY <1>1 DEF UnspilledIsFresh, NoLostSegment, Delivered, TypeOK, QueueTypeOK
<1>4. ClockIsAhead' /\ FifoReplay'
  BY <1>1 DEF ClockIsAhead, FifoReplay, Delivered, TypeOK, QueueTypeOK
<1>5. RowsAccounted'
  BY <1>1 DEF RowsAccounted, Readable, TypeOK, QueueTypeOK, TablesTypeOK, DrainerTypeOK
<1> QED
  BY <1>2, <1>3, <1>4, <1>5

\* Loading the oldest sidecar changes no file.
LEMMA LoadKeepsQueue ==
    ASSUME TypeOK, TypeOK', QueueInv, NEW s \in Segments, DrainLoad(s), UNCHANGED stage
    PROVE  QueueInv'
<1> USE DEF QueueInv
<1>1. /\ drain = "ready" /\ drain' = "transcribe" /\ cur' = s /\ Oldest(s) /\ Readable(s)
      /\ UNCHANGED <<json, wav, mtime, now, rows, silent, faults>>
  BY DEF DrainLoad, queueVars, tableVars
<1>2. CurrentIsQueued'
  BY <1>1 DEF CurrentIsQueued, Busy, Readable, Oldest, scan_pending
<1>3. UnspilledIsFresh' /\ NoLostSegment' /\ ClockIsAhead' /\ FifoReplay'
  BY <1>1 DEF UnspilledIsFresh, NoLostSegment, ClockIsAhead, FifoReplay, Delivered
<1>4. RowsAccounted'
  BY <1>1 DEF RowsAccounted, Readable
<1> QED
  BY <1>2, <1>3, <1>4

\* Every step of drain_once keeps the queue invariant.
LEMMA DrainerKeepsQueue == ASSUME TypeOK, TypeOK', QueueInv, DrainerStep PROVE QueueInv'
<1>0. DrainerNext /\ UNCHANGED stage
  BY DEF DrainerStep, recorderVars
<1>1. CASE DrainIdle
  BY <1>0, <1>1, DrainerIdleKeepsQueue DEF DrainIdle, begin_finalize, Busy, queueVars, tableVars
<1>2. CASE \E s \in Segments : DrainDrop(s) \/ DrainLoad(s)
  BY <1>0, <1>2, DropKeepsQueue, LoadKeepsQueue
<1>3. CASE TranscribeRefused \/ TranscribeNone
  BY <1>0, <1>3, DrainerIdleKeepsQueue
     DEF TranscribeRefused, TranscribeNone, EndPass, Busy, queueVars, tableVars
<1>4. CASE TranscribeSilence \/ Touch
  BY <1>0, <1>4, UnlinkKeepsQueue
<1>5. CASE TranscribeText \/ TouchError
  BY <1>0, <1>5, DrainerIdleKeepsQueue
     DEF TranscribeText, TouchError, EndPass, Fault, Busy, queueVars, tableVars
<1>6. CASE InsertRow
  BY <1>0, <1>6, InsertKeepsQueue DEF InsertRow, queueVars
<1>7. CASE InsertError
  BY <1>0, <1>7, InsertKeepsQueue, DrainerIdleKeepsQueue
     DEF InsertError, EndPass, Fault, Busy, queueVars
<1>8. CASE \E m \in Meetings : CompleteRow(m) \/ CompleteError(m)
  BY <1>0, <1>8, DrainerIdleKeepsQueue
     DEF CompleteRow, CompleteError, EndPass, Busy, queueVars
<1>9. CASE \E m \in Meetings : FinishMeeting(m)
  BY <1>0, <1>9, DrainerIdleKeepsQueue
     DEF FinishMeeting, unmark_finalizing, Busy, tableVars
<1> QED
  BY <1>0, <1>1, <1>2, <1>3, <1>4, <1>5, <1>6, <1>7, <1>8, <1>9 DEF DrainerNext

-------------------------------------------------------------------------------
(***************************************************************************)
(* Finalization. The drainer's snapshot of the directory survives its      *)
(* awaits because a marked meeting has no held segment and a store that    *)
(* ends after the mark makes a late one.                                   *)
(***************************************************************************)
LEMMA HeldKept ==
    ASSUME TypeOK, HeldIsStoring, Next PROVE HeldIsStoring'
<1> USE DEF TypeOK, RecorderTypeOK, CallState, StageState, HeldIsStoring
<1>1. CASE UNCHANGED <<call, stage>>
  BY <1>1
<1>2. CASE \E m \in Meetings : join_retire(m) \/ join_insert(m) \/ join_live(m)
                               \/ join_db_error(m) \/ join_start_fails(m) \/ leave_begin(m)
  BY <1>2, MeetingOfAssumption
     DEF join_retire, join_insert, join_live, join_db_error, join_start_fails, leave_begin, SetCall
<1>3. CASE \E m \in Meetings : leave_error(m) \/ leave_drain_all(m)
  BY <1>3, MeetingOfAssumption DEF leave_error, leave_drain_all, SetCall, MoveAll, SegmentsAt
<1>4. CASE \E m \in Meetings : leave_mark(m) \/ leave_mark_error(m)
  BY <1>4, MeetingOfAssumption DEF leave_mark, leave_mark_error, StoresDone, SegmentsAt, SetCall
<1>5. CASE \E s \in Segments : write(s) \/ store_short(s) \/ store_awaits_name(s)
                               \/ store_spill(s) \/ store_error(s) \/ leave_store(s)
  BY <1>5 DEF write, store_short, store_awaits_name, store_spill, store_error, leave_store, SetStage
<1>6. CASE \E s \in Segments : leave_store_error(s)
  BY <1>6, MeetingOfAssumption DEF leave_store_error, MoveAll, SegmentsAt, SetCall
<1>7. CASE LoseMemory
  BY <1>7 DEF LoseMemory
<1> QED
  BY <1>1, <1>2, <1>3, <1>4, <1>5, <1>6, <1>7
     DEF Next, DrainerStep, RecorderNext, ProcessNext, Crash, CrashInUnlink, CrashInSpill,
         Restart, on_ready, emit, recorderVars

\* What the drainer's own steps do to a snapshot, a status and a marker.
LEMMA SettledDrainer ==
    ASSUME TypeOK, SettledIsDrained, DrainerNext, UNCHANGED recorderVars
    PROVE  SettledIsDrained'
<1> USE DEF TypeOK, QueueTypeOK, TablesTypeOK, DrainerTypeOK, SettledIsDrained, recorderVars,
            queueVars, tableVars, drainerVars
<1>1. CASE DrainIdle
  BY <1>1 DEF DrainIdle, begin_finalize, Drained, finalizing_meetings, scan_pending
<1>2. CASE \E s \in Segments : DrainDrop(s)
  BY <1>2 DEF DrainDrop, unlink_segment
<1>3. CASE \E s \in Segments : DrainLoad(s)
  BY <1>3 DEF DrainLoad
<1>4. CASE TranscribeRefused \/ TranscribeNone \/ TranscribeText
  BY <1>4 DEF TranscribeRefused, TranscribeNone, TranscribeText, EndPass
<1>5. CASE TranscribeSilence \/ Touch
  BY <1>5 DEF TranscribeSilence, Touch, unlink_segment, begin_finalize, Drained,
              finalizing_meetings, scan_pending
<1>6. CASE InsertRow \/ InsertError \/ TouchError
  BY <1>6 DEF InsertRow, InsertError, TouchError, EndPass
<1>7. CASE \E m \in Meetings : CompleteRow(m) \/ CompleteError(m)
  BY <1>7 DEF CompleteRow, CompleteError, complete_meeting, AtHand, EndPass
<1>8. CASE \E m \in Meetings : FinishMeeting(m)
  BY <1>8 DEF FinishMeeting, unmark_finalizing
<1> QED
  BY <1>1, <1>2, <1>3, <1>4, <1>5, <1>6, <1>7, <1>8 DEF DrainerNext

\* No step of the recorder queues a segment behind the back of a marked meeting, but a late one.
LEMMA SettledRecorder ==
    ASSUME TypeOK, HeldIsStoring, SettledIsDrained, RecorderNext PROVE SettledIsDrained'
<1> USE DEF TypeOK, QueueTypeOK, TablesTypeOK, DrainerTypeOK, RecorderTypeOK, SettledIsDrained,
            queueVars, tableVars, drainerVars, idleDrainer, SetCall, SetStage
<1>1. CASE \E m \in Meetings : join_retire(m) \/ join_insert(m)
  BY <1>1 DEF join_retire, join_insert, retire_stale, insert_meeting
<1>2. CASE \E m \in Meetings : join_live(m) \/ join_db_error(m) \/ join_start_fails(m)
  BY <1>2 DEF join_live, join_db_error, join_start_fails, ensure_drain_loop, fail_meeting
<1>3. CASE \E m \in Meetings : leave_begin(m) \/ leave_error(m) \/ leave_drain_all(m)
  BY <1>3 DEF leave_begin, leave_error, leave_drain_all, MoveAll, SegmentsAt
<1>4. CASE \E m \in Meetings : leave_mark(m) \/ leave_mark_error(m)
  BY <1>4 DEF leave_mark, leave_mark_error, StoresDone, mark_finalizing, ensure_drain_loop
<1>5. CASE \E s \in Segments : write(s) \/ store_short(s) \/ store_awaits_name(s)
  BY <1>5 DEF write, store_short, store_awaits_name
<1>6. CASE \E s \in Segments : store_spill(s)
  BY <1>6 DEF store_spill, spill_segment, WriteFiles
<1>7. CASE \E s \in Segments : leave_store(s)
  BY <1>7 DEF leave_store, spill_segment, WriteFiles, HeldIsStoring
<1>8. CASE \E s \in Segments : store_error(s)
  BY <1>8 DEF store_error, spill_interrupted, WriteFiles
<1>9. CASE \E s \in Segments : leave_store_error(s)
  BY <1>9 DEF leave_store_error, spill_interrupted, WriteFiles, HeldIsStoring, MoveAll, SegmentsAt
<1> QED
  BY <1>1, <1>2, <1>3, <1>4, <1>5, <1>6, <1>7, <1>8, <1>9 DEF RecorderNext

\* A crash forgets todo, not the markers.
LEMMA SettledProcess ==
    ASSUME TypeOK, SettledIsDrained, ProcessNext PROVE SettledIsDrained'
<1> USE DEF TypeOK, QueueTypeOK, TablesTypeOK, DrainerTypeOK, RecorderTypeOK, SettledIsDrained,
            queueVars, tableVars, drainerVars, recorderVars, idleDrainer
<1>1. CASE Crash
  BY <1>1 DEF Crash, LoseMemory
<1>2. CASE CrashInUnlink
  BY <1>2 DEF CrashInUnlink, LoseMemory, unlink_interrupted
<1>3. CASE Restart \/ on_ready
  BY <1>3 DEF Restart, on_ready, ensure_drain_loop
<1>4. CASE \E s \in Segments : CrashInSpill(s)
  BY <1>4 DEF CrashInSpill, LoseMemory, spill_interrupted, WriteFiles, Spilling, Popped
<1> QED
  BY <1>1, <1>2, <1>3, <1>4 DEF ProcessNext

-------------------------------------------------------------------------------
(* Webhooks *)

\* The drainer schedules a webhook only for a completed row whose marker it has just removed.
LEMMA HookDrainer ==
    ASSUME TypeOK, SettledIsDrained, HookAccounted, DrainerNext PROVE HookAccounted'
<1> USE DEF TypeOK, QueueTypeOK, TablesTypeOK, HookTypeOK, DrainerTypeOK, HookAccounted, AtHand,
            queueVars, tableVars, hookVars, drainerVars
<1>1. CASE UNCHANGED <<status, marker, hook, tries, posts>> /\ drain' # "answered"
  BY <1>1
<1>2. CASE DrainIdle \/ \E s \in Segments : DrainDrop(s) \/ DrainLoad(s)
  BY <1>1, <1>2 DEF DrainIdle, DrainDrop, DrainLoad, unlink_segment, begin_finalize
<1>3. CASE TranscribeRefused \/ TranscribeNone \/ TranscribeText \/ TranscribeSilence
  BY <1>1, <1>3 DEF TranscribeRefused, TranscribeNone, TranscribeText, TranscribeSilence,
                    EndPass, unlink_segment, begin_finalize
<1>4. CASE InsertRow \/ InsertError \/ Touch \/ TouchError
  BY <1>1, <1>4 DEF InsertRow, InsertError, Touch, TouchError, EndPass, unlink_segment,
                    begin_finalize
<1>5. CASE \E m \in Meetings : CompleteRow(m)
  BY <1>5, MeetingsAssumption DEF CompleteRow, complete_meeting
<1>6. CASE \E m \in Meetings : CompleteError(m)
  BY <1>6 DEF CompleteError, complete_meeting, EndPass
<1>7. ASSUME NEW m \in Meetings, FinishMeeting(m) PROVE HookAccounted'
  <2>1. status[m] = "completed" /\ m \in marker /\ hook[m] = "none" /\ posts[m] = 0
    BY <1>7 DEF FinishMeeting, SettledIsDrained
  <2> QED
    BY <1>7, <2>1, AttemptsAssumption
       DEF FinishMeeting, unmark_finalizing, schedule_webhook, HookState
<1> QED
  BY <1>2, <1>3, <1>4, <1>5, <1>6, <1>7 DEF DrainerNext

\* Nobody else brings a marker back, and emit keeps within its attempts.
LEMMA HookOthers ==
    ASSUME TypeOK, SettledIsDrained, HookAccounted,
           RecorderNext \/ ProcessNext \/ \E m \in Meetings : emit(m)
    PROVE  HookAccounted'
<1> USE DEF TypeOK, QueueTypeOK, TablesTypeOK, HookTypeOK, DrainerTypeOK, HookAccounted, AtHand,
            queueVars, tableVars, hookVars, drainerVars, idleDrainer
<1>1. CASE UNCHANGED <<status, marker, hook, tries, posts, todo>> /\ drain' \in {drain, "ready"}
  BY <1>1
<1>2. CASE \E m \in Meetings : join_retire(m) \/ join_insert(m)
  BY <1>2 DEF join_retire, join_insert, retire_stale, insert_meeting
<1>3. CASE \E m \in Meetings : join_live(m) \/ join_db_error(m)
  BY <1>1, <1>3 DEF join_live, join_db_error, ensure_drain_loop
<1>4. CASE \E m \in Meetings : join_start_fails(m)
  BY <1>4 DEF join_start_fails, fail_meeting, SettledIsDrained
<1>5. CASE \E m \in Meetings : leave_begin(m) \/ leave_error(m) \/ leave_drain_all(m)
  BY <1>1, <1>5 DEF leave_begin, leave_error, leave_drain_all
<1>6. CASE \E m \in Meetings : leave_mark(m) \/ leave_mark_error(m)
  BY <1>6 DEF leave_mark, leave_mark_error, StoresDone, mark_finalizing, ensure_drain_loop, SettledIsDrained
<1>7. CASE \E s \in Segments : write(s) \/ store_short(s) \/ store_awaits_name(s)
                               \/ store_spill(s) \/ store_error(s)
  BY <1>1, <1>7 DEF write, store_short, store_awaits_name, store_spill, store_error,
                    spill_segment, spill_interrupted, WriteFiles
<1>8. CASE \E s \in Segments : leave_store(s) \/ leave_store_error(s)
  BY <1>1, <1>8 DEF leave_store, leave_store_error, spill_segment, spill_interrupted, WriteFiles
<1>9. CASE Crash \/ CrashInUnlink \/ \E s \in Segments : CrashInSpill(s)
  BY <1>9 DEF Crash, CrashInUnlink, CrashInSpill, LoseMemory, unlink_interrupted,
              spill_interrupted, WriteFiles
<1>10. CASE Restart \/ on_ready
  BY <1>1, <1>10 DEF Restart, on_ready, ensure_drain_loop
<1>11. CASE \E m \in Meetings : emit(m)
  BY <1>11, AttemptsAssumption DEF emit, Post2xx, PostFails, Sent, LastAttempt
<1> QED
  BY <1>2, <1>3, <1>4, <1>5, <1>6, <1>7, <1>8, <1>9, <1>10, <1>11 DEF RecorderNext, ProcessNext

-------------------------------------------------------------------------------
(* The invariant is inductive, and what follows from it *)

\* The invariant holds of a fresh installation: no files, no rows, no process.
LEMMA IInvInit == Init => IInv
<1> SUFFICES ASSUME Init PROVE IInv
  OBVIOUS
<1> USE DEF Init, QueueInit, TablesInit, HookInit, DrainerInit, RecorderInit
<1>1. TypeOK
  <2>1. RecorderTypeOK
    BY DEF RecorderTypeOK, CallState, StageState
  <2> QED
    BY <2>1 DEF TypeOK, QueueTypeOK, TablesTypeOK, HookTypeOK, DrainerTypeOK, FileState, Status,
                HookState, DrainState
<1>2. QueueInv
  BY DEF QueueInv, CurrentIsQueued, UnspilledIsFresh, NoLostSegment, ClockIsAhead, FifoReplay,
         RowsAccounted, Busy, Readable, Delivered
<1>3. FinalInv
  BY AttemptsAssumption DEF FinalInv, HeldIsStoring, SettledIsDrained, HookAccounted
<1> QED
  BY <1>1, <1>2, <1>3 DEF IInv

\* Every step keeps the invariant.
LEMMA IInvNext == IInv /\ [Next]_vars => IInv'
<1> SUFFICES ASSUME IInv, [Next]_vars PROVE IInv'
  OBVIOUS
<1>0. TypeOK /\ QueueInv /\ FinalInv /\ CurrentIsQueued
  BY DEF IInv, QueueInv
<1>1. CASE UNCHANGED vars
  BY <1>1 DEF IInv, TypeOK, QueueInv, FinalInv, QueueTypeOK, TablesTypeOK, HookTypeOK,
              DrainerTypeOK, RecorderTypeOK, CurrentIsQueued, UnspilledIsFresh, NoLostSegment,
              ClockIsAhead, FifoReplay, RowsAccounted, HeldIsStoring, SettledIsDrained,
              HookAccounted, Readable, Oldest, scan_pending, Delivered, AtHand, vars, queueVars,
              tableVars, hookVars, drainerVars, recorderVars
<1>2. CASE Next
  <2>1. TypeOK'
    BY <1>0, <1>2, TypeDrainer, TypeRecorder, TypeProcess, TypeEmit DEF Next
  <2>2. QueueInv'
    BY <1>0, <1>2, <2>1, DrainerKeepsQueue, RecorderShape, ProcessShape, EmitShape,
       NoFileKeepsQueue, SpillKeepsQueue, HalfUnlinkKeepsQueue DEF Next
  <2>3. HeldIsStoring'
    BY <1>0, <1>2, HeldKept DEF FinalInv
  <2>4. SettledIsDrained'
    <3>1. CASE \E m \in Meetings : emit(m)
      BY <1>0, <3>1 DEF emit, FinalInv, SettledIsDrained, queueVars, tableVars, drainerVars,
                        recorderVars
    <3> QED
      BY <1>0, <1>2, <3>1, SettledDrainer, SettledRecorder, SettledProcess
         DEF Next, DrainerStep, FinalInv
  <2>5. HookAccounted'
    BY <1>0, <1>2, HookDrainer, HookOthers DEF Next, DrainerStep, FinalInv
  <2> QED
    BY <2>1, <2>2, <2>3, <2>4, <2>5 DEF IInv, FinalInv
<1> QED
  BY <1>1, <1>2

\* The invariant holds in every reachable state.
THEOREM Invariance == Spec => []IInv
  BY IInvInit, IInvNext, PTL DEF Spec

\* Every variable keeps its type, whatever crashes, fails or interleaves.
THEOREM TypeCorrect == Spec => []TypeOK
<1>1. IInv => TypeOK
  BY DEF IInv
<1> QED
  BY <1>1, Invariance, PTL

\* spill_segment's promise: a segment both of whose files were written is in the queue, whole,
\* until the bridge has acted on the worker's verdict.
THEOREM NothingLost == Spec => []NoLostSegment
<1>1. IInv => NoLostSegment
  BY DEF IInv, QueueInv
<1> QED
  BY <1>1, Invariance, PTL

\* scan_pending's FIFO replay, through retries and crashes, for any ties of the clock.
THEOREM ReplayInOrder == Spec => []FifoReplay
<1>1. IInv => FifoReplay
  BY DEF IInv, QueueInv
<1> QED
  BY <1>1, Invariance, PTL

\* insert_transcription is at least once: n faults make at most n extra rows of one segment.
THEOREM DuplicatesBounded == Spec => []DuplicatesNeedFaults
<1>1. IInv => DuplicatesNeedFaults
  BY DEF IInv, QueueInv, RowsAccounted, DuplicatesNeedFaults
<1> QED
  BY <1>1, Invariance, PTL

\* _finalize_completed: a completed meeting's transcript holds every segment that was spilled
\* before /leave marked the meeting.
THEOREM CompletedIsComplete == Spec => []CompletedHasQueuedSegments
<1>1. IInv => CompletedHasQueuedSegments
  BY DEF IInv, QueueInv, FinalInv, NoLostSegment, SettledIsDrained, CompletedHasQueuedSegments
<1> QED
  BY <1>1, Invariance, PTL

\* One webhook task per meeting, after the row is completed and the marker gone.
THEOREM WebhookOnce == Spec => []OneWebhookPerMeeting
<1>1. IInv => OneWebhookPerMeeting
  BY DEF IInv, FinalInv, HookAccounted, OneWebhookPerMeeting
<1> QED
  BY <1>1, Invariance, PTL
===============================================================================
