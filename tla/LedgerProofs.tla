----------------------------- MODULE LedgerProofs -----------------------------
(***************************************************************************)
(* Bridge implements TranscriptLedger, CallLifecycle and, for each         *)
(* meeting, AudioHandover: with the invariant of BridgeProofs, every step  *)
(* of the bot is a step of each of them or changes nothing in it.          *)
(***************************************************************************)
EXTENDS BridgeProofs

\* The recorder's and the tables' part of the view, which delivering a segment leaves alone.
RestKept ==
    /\ \A s \in Segments : (stage'[s] = "spilled" <=> stage[s] = "spilled")
                           /\ (stage'[s] = "late" <=> stage[s] = "late")
    /\ \A m \in Meetings : (call'[m] = "left" <=> call[m] = "left")
                           /\ (status'[m] = "completed" <=> status[m] = "completed")
                           /\ (posts'[m] > 0 <=> posts[m] > 0)

\* The six views the ledger is read off.
ViewKept == RestKept /\ \A s \in Segments : Delivered(s)' <=> Delivered(s)

\* A step that keeps the view is a stuttering step of the ledger.
LEMMA ViewKeptStutters == ASSUME ViewKept PROVE UNCHANGED Ledger!ledgerVars
<1>1. UNCHANGED Accepted /\ UNCHANGED Late /\ UNCHANGED Settled
  BY DEF ViewKept, RestKept, Accepted, Late, Settled
<1>2. UNCHANGED Closed /\ UNCHANGED Completed /\ UNCHANGED Notified
  BY DEF ViewKept, RestKept, Closed, Completed, Notified
<1> QED
  BY <1>1, <1>2 DEF Ledger!ledgerVars

\* A verdict on one segment is a Deliver, a Salvage (its files were cut short), or a stutter.
LEMMA DeliverStep ==
    ASSUME NEW c \in Segments, Delivered(c)', RestKept,
           \A s \in Segments \ {c} : Delivered(s)' <=> Delivered(s)
    PROVE  [Ledger!LedgerNext]_(Ledger!ledgerVars)
<1>1. CASE Delivered(c)
  BY <1>1, ViewKeptStutters DEF ViewKept, RestKept
<1>2. CASE ~Delivered(c)
  <2>1. /\ Late' = Late /\ Closed' = Closed /\ Completed' = Completed /\ Notified' = Notified
        /\ Settled' = Settled \cup {c}
    BY <1>2 DEF RestKept, Late, Closed, Completed, Notified, Settled
  <2>2. Accepted' = Accepted \cup {c}
    BY <1>2 DEF RestKept, Accepted
  <2>3. CASE c \in Accepted
    <3>1. Accepted' = Accepted
      BY <2>2, <2>3
    <3> QED
      BY <2>1, <2>3, <3>1 DEF Ledger!LedgerNext, Ledger!Deliver
  <2>4. CASE c \notin Accepted
    BY <2>1, <2>2, <2>4 DEF Ledger!LedgerNext, Ledger!Salvage
  <2> QED
    BY <2>3, <2>4
<1> QED
  BY <1>1, <1>2

\* A whole spill is an Accept, late when its meeting is closed.
LEMMA AcceptStep ==
    ASSUME TypeOK, UnspilledIsFresh, NEW c \in Segments, stage[c] \in Unspilled,
           stage' = [stage EXCEPT ![c] = IF call[MeetingOf[c]] = "left" THEN "late" ELSE "spilled"],
           UNCHANGED <<rows, silent, call, status, posts>>
    PROVE  [Ledger!LedgerNext]_(Ledger!ledgerVars)
<1>1. c \notin Accepted
  BY DEF UnspilledIsFresh, Accepted, Unspilled
<1>2. Accepted' = Accepted \cup {c}
  BY DEF Accepted, Delivered, TypeOK, RecorderTypeOK
<1>3. Late' = IF MeetingOf[c] \in Closed THEN Late \cup {c} ELSE Late
  BY MeetingOfAssumption DEF Late, Closed, Unspilled, TypeOK, RecorderTypeOK
<1>4. UNCHANGED <<Settled, Closed, Completed, Notified>>
  BY DEF Settled, Closed, Completed, Notified, Delivered
<1> QED
  BY <1>1, <1>2, <1>3, <1>4 DEF Ledger!LedgerNext, Ledger!Accept

\* The UPDATE of _finalize_completed is a Complete: the meeting is closed and its due is delivered.
LEMMA CompleteStep ==
    ASSUME IInv, NEW m \in Meetings, m \in todo, complete_meeting(m),
           UNCHANGED <<rows, silent, stage, call, posts>>
    PROVE  [Ledger!LedgerNext]_(Ledger!ledgerVars)
<1>1. m \in Closed
  BY DEF IInv, FinalInv, SettledIsDrained, Closed
<1>2. Ledger!Due(m) \subseteq Settled
  BY DEF IInv, QueueInv, FinalInv, NoLostSegment, SettledIsDrained, Ledger!Due, Accepted, Late,
         Settled
<1>3. Completed' = Completed \cup {m}
  BY DEF complete_meeting, Completed, IInv, TypeOK, TablesTypeOK
<1>4. UNCHANGED <<Accepted, Late, Settled, Closed, Notified>>
  BY DEF Accepted, Late, Settled, Closed, Notified, Delivered
<1> QED
  BY <1>1, <1>2, <1>3, <1>4 DEF Ledger!LedgerNext, Ledger!Complete

\* Every step of the drainer is a step of the ledger or a stutter.
LEMMA LedgerDrainer == ASSUME IInv, DrainerStep PROVE [Ledger!LedgerNext]_(Ledger!ledgerVars)
<1>0. TypeOK /\ DrainerNext /\ UNCHANGED <<stage, call>>
  BY DEF IInv, DrainerStep, recorderVars
<1>1. CASE UNCHANGED <<rows, silent, status, posts>>
  BY <1>0, <1>1, ViewKeptStutters DEF ViewKept, RestKept, Delivered
<1>2. CASE DrainIdle \/ (\E s \in Segments : DrainDrop(s) \/ DrainLoad(s))
           \/ TranscribeRefused \/ TranscribeNone \/ TranscribeText
  BY <1>1, <1>2 DEF DrainIdle, DrainDrop, DrainLoad, TranscribeRefused, TranscribeNone,
                    TranscribeText, EndPass, tableVars, hookVars, drainerVars
<1>3. CASE Touch \/ TouchError \/ \E m \in Meetings : FinishMeeting(m)
  BY <1>1, <1>3 DEF Touch, TouchError, FinishMeeting, schedule_webhook, tableVars, hookVars
<1>4. CASE TranscribeSilence \/ InsertRow \/ InsertError
  <2>1. PICK c \in Segments : c = cur
    BY <1>4 DEF TranscribeSilence, InsertRow, InsertError, IInv, QueueInv, CurrentIsQueued, Busy
  <2>2. UNCHANGED <<stage, call, status, posts>>
    BY <1>0, <1>4 DEF TranscribeSilence, InsertRow, InsertError, tableVars, hookVars
  <2>3. CASE UNCHANGED <<rows, silent>>
    BY <1>1, <2>2, <2>3
  <2>4. CASE insert_transcription_row(cur) /\ UNCHANGED silent
    BY <1>0, <2>1, <2>2, <2>4, DeliverStep
       DEF insert_transcription_row, Delivered, RestKept, TypeOK, TablesTypeOK
  <2>5. CASE silent' = silent \cup {cur} /\ UNCHANGED rows
    BY <2>1, <2>2, <2>5, DeliverStep DEF Delivered, RestKept
  <2> QED
    BY <1>4, <2>3, <2>4, <2>5 DEF TranscribeSilence, InsertRow, InsertError, tableVars
<1>5. CASE \E m \in Meetings : CompleteRow(m) \/ CompleteError(m)
  BY <1>0, <1>1, <1>5, CompleteStep DEF CompleteRow, CompleteError, AtHand, hookVars
<1> QED
  BY <1>0, <1>2, <1>3, <1>4, <1>5 DEF DrainerNext

\* So is every step of the recorder.
LEMMA LedgerRecorder == ASSUME IInv, RecorderNext PROVE [Ledger!LedgerNext]_(Ledger!ledgerVars)
<1>0. TypeOK /\ HeldIsStoring /\ SettledIsDrained /\ UnspilledIsFresh
  BY DEF IInv, QueueInv, FinalInv
<1> USE DEF TypeOK, TablesTypeOK, RecorderTypeOK, tableVars, hookVars, drainerVars, idleDrainer,
            SetCall, SetStage
<1>1. CASE \E m \in Meetings : join_retire(m) \/ join_insert(m)
  BY <1>0, <1>1, ViewKeptStutters
     DEF ViewKept, RestKept, Delivered, join_retire, join_insert, retire_stale, insert_meeting
<1>2. CASE \E m \in Meetings : join_live(m) \/ join_db_error(m) \/ join_start_fails(m)
  BY <1>0, <1>2, ViewKeptStutters
     DEF ViewKept, RestKept, Delivered, SettledIsDrained, join_live, join_db_error, join_start_fails,
         fail_meeting
<1>3. CASE \E m \in Meetings : leave_begin(m) \/ leave_error(m) \/ leave_drain_all(m)
                               \/ leave_mark_error(m)
  BY <1>0, <1>3, ViewKeptStutters
     DEF ViewKept, RestKept, Delivered, leave_begin, leave_error, leave_drain_all,
         leave_mark_error, StoresDone, MoveAll, SegmentsAt
<1>4. ASSUME NEW m \in Meetings, leave_mark(m) PROVE [Ledger!LedgerNext]_(Ledger!ledgerVars)
  <2>1. Closed' = Closed \cup {m}
    BY <1>0, <1>4 DEF leave_mark, Closed
  <2>2. UNCHANGED <<Accepted, Late, Settled, Completed, Notified>>
    BY <1>4 DEF leave_mark, Accepted, Late, Settled, Completed, Notified, Delivered
  <2> QED
    BY <2>1, <2>2 DEF Ledger!LedgerNext, Ledger!Close
<1>5. CASE \E s \in Segments : write(s) \/ store_short(s) \/ store_awaits_name(s)
  BY <1>0, <1>5, ViewKeptStutters
     DEF ViewKept, RestKept, Delivered, write, store_short, store_awaits_name, Popped
<1>6. ASSUME NEW s \in Segments, store_spill(s) PROVE [Ledger!LedgerNext]_(Ledger!ledgerVars)
  BY <1>0, <1>6, AcceptStep DEF store_spill, Spilling, Popped, Unspilled
<1>7. ASSUME NEW s \in Segments, leave_store(s) PROVE [Ledger!LedgerNext]_(Ledger!ledgerVars)
  <2>1. CASE s \in Short
    BY <1>0, <1>7, <2>1, ViewKeptStutters DEF ViewKept, RestKept, Delivered, leave_store
  <2>2. CASE s \notin Short
    BY <1>0, <1>7, <2>2, AcceptStep DEF leave_store, HeldIsStoring, Unspilled
  <2> QED
    BY <2>1, <2>2
<1>8. CASE \E s \in Segments : store_error(s)
  BY <1>0, <1>8, ViewKeptStutters DEF ViewKept, RestKept, Delivered, store_error, Spilling, Popped
<1>9. CASE \E s \in Segments : leave_store_error(s)
  BY <1>0, <1>9, ViewKeptStutters, MeetingOfAssumption
     DEF ViewKept, RestKept, Delivered, leave_store_error, HeldIsStoring, MoveAll, SegmentsAt
<1> QED
  BY <1>1, <1>2, <1>3, <1>4, <1>5, <1>6, <1>7, <1>8, <1>9 DEF RecorderNext

\* Crashes and restarts are invisible to the ledger, but for a verdict acted on in the dying step.
LEMMA LedgerProcess == ASSUME IInv, ProcessNext PROVE [Ledger!LedgerNext]_(Ledger!ledgerVars)
<1>0. TypeOK
  BY DEF IInv
<1>1. ASSUME LoseMemory, UNCHANGED status PROVE RestKept
  BY <1>0, <1>1 DEF LoseMemory, RestKept, TypeOK, RecorderTypeOK
<1>2. CASE Crash \/ \E s \in Segments : CrashInSpill(s)
  BY <1>1, <1>2, ViewKeptStutters DEF Crash, CrashInSpill, ViewKept, RestKept, Delivered, tableVars
<1>3. CASE CrashInUnlink
  <2>1. PICK c \in Segments : c = cur
    BY <1>3 DEF CrashInUnlink, IInv, QueueInv, CurrentIsQueued, Busy
  <2>2. RestKept
    BY <1>1, <1>3 DEF CrashInUnlink, tableVars
  <2>3. CASE UNCHANGED silent
    BY <1>3, <2>2, <2>3, ViewKeptStutters DEF CrashInUnlink, ViewKept, RestKept, Delivered, tableVars
  <2>4. CASE silent' = silent \cup {cur}
    BY <1>3, <2>1, <2>2, <2>4, DeliverStep DEF CrashInUnlink, Delivered, tableVars
  <2> QED
    BY <1>3, <2>3, <2>4 DEF CrashInUnlink
<1>4. CASE Restart \/ on_ready
  BY <1>4, ViewKeptStutters
     DEF Restart, on_ready, ViewKept, RestKept, Delivered, tableVars, hookVars, drainerVars, recorderVars,
         idleDrainer
<1> QED
  BY <1>2, <1>3, <1>4 DEF ProcessNext

\* The first POST of a meeting is a Notify, a later one a stutter.
LEMMA LedgerEmit ==
    ASSUME IInv, NEW m \in Meetings, emit(m) PROVE [Ledger!LedgerNext]_(Ledger!ledgerVars)
<1>1. m \in Completed
  BY DEF IInv, FinalInv, HookAccounted, emit, Post2xx, PostFails, Completed
<1>2. Notified' = Notified \cup {m}
  BY DEF emit, Post2xx, PostFails, Sent, Notified, IInv, TypeOK, HookTypeOK
<1>3. UNCHANGED <<Accepted, Late, Settled, Closed, Completed>>
  BY DEF emit, Accepted, Late, Settled, Closed, Completed, Delivered, tableVars, drainerVars,
         recorderVars
<1> QED
  BY <1>1, <1>2, <1>3 DEF Ledger!LedgerNext, Ledger!Notify

\* The bot implements the ledger: nothing accepted, delivered, completed or notified is ever
\* taken back, and completion and notification come in their order.
THEOREM BridgeImplementsLedger == Spec => ImplementsLedger
<1>1. Init => Ledger!LedgerInit
  BY DEF Init, QueueInit, TablesInit, HookInit, DrainerInit, RecorderInit, Ledger!LedgerInit,
         Accepted, Late, Settled, Closed, Completed, Notified, Delivered
<1>2. IInv /\ [Next]_vars => [Ledger!LedgerNext]_(Ledger!ledgerVars)
  <2> SUFFICES ASSUME IInv, [Next]_vars PROVE [Ledger!LedgerNext]_(Ledger!ledgerVars)
    OBVIOUS
  <2>1. CASE UNCHANGED vars
    BY <2>1, ViewKeptStutters
       DEF ViewKept, RestKept, Delivered, vars, tableVars, hookVars, drainerVars, recorderVars
  <2> QED
    BY <2>1, LedgerDrainer, LedgerRecorder, LedgerProcess, LedgerEmit DEF Next
<1> QED
  BY <1>1, <1>2, Invariance, PTL DEF Spec, ImplementsLedger, Ledger!LedgerSpec

-------------------------------------------------------------------------------
(* The life of the calls: the invariant *)

\* The drainer flips rows of calls that are left, which hold no protocol.
LEMMA CallsDrainer == ASSUME IInv, CallInv, DrainerStep PROVE CallInv'
<1>1. UNCHANGED call
  BY DEF DrainerStep, recorderVars
<1>2. CASE UNCHANGED status
  BY <1>1, <1>2 DEF CallInv
<1>3. ASSUME NEW m \in Meetings, m \in todo, complete_meeting(m) PROVE CallInv'
  <2>1. call[m] = "left"
    BY <1>3 DEF IInv, FinalInv, SettledIsDrained
  <2>2. \A k \in Meetings : k # m => status'[k] = status[k]
    BY <1>3 DEF complete_meeting, IInv, TypeOK, TablesTypeOK
  <2> QED
    BY <1>1, <2>1, <2>2 DEF CallInv
<1> QED
  BY <1>2, <1>3
     DEF DrainerStep, DrainerNext, DrainIdle, DrainDrop, DrainLoad, TranscribeRefused, TranscribeNone,
         TranscribeSilence, TranscribeText, InsertRow, InsertError, Touch, TouchError, CompleteRow,
         CompleteError, FinishMeeting, AtHand, tableVars

\* A call's own commands move it, one registration at a time.
LEMMA CallsRecorder == ASSUME IInv, CallInv, RecorderNext PROVE CallInv'
<1>0. TypeOK /\ CallInv
  BY DEF IInv
<1> USE DEF TypeOK, TablesTypeOK, RecorderTypeOK, tableVars, SetCall, CallInv, Registered
<1>1. ASSUME NEW m \in Meetings, join_retire(m) PROVE CallInv'
  BY <1>0, <1>1 DEF join_retire
<1>2. ASSUME NEW m \in Meetings, join_insert(m) PROVE CallInv'
  BY <1>0, <1>2 DEF join_insert, insert_meeting
<1>3. ASSUME NEW m \in Meetings, join_live(m) \/ join_db_error(m) PROVE CallInv'
  BY <1>0, <1>3 DEF join_live, join_db_error
<1>4. ASSUME NEW m \in Meetings, join_start_fails(m) PROVE CallInv'
  BY <1>0, <1>4 DEF join_start_fails, fail_meeting
<1>5. ASSUME NEW m \in Meetings, leave_begin(m) \/ leave_error(m) \/ leave_drain_all(m) PROVE CallInv'
  BY <1>0, <1>5 DEF leave_begin, leave_error, leave_drain_all
<1>6. ASSUME NEW m \in Meetings, leave_mark(m) \/ leave_mark_error(m) PROVE CallInv'
  BY <1>0, <1>6 DEF leave_mark, leave_mark_error
<1>7. ASSUME NEW s \in Segments, write(s) \/ store_short(s) \/ store_awaits_name(s) \/ store_spill(s)
                                 \/ store_error(s) \/ leave_store(s) PROVE CallInv'
  BY <1>0, <1>7 DEF write, store_short, store_awaits_name, store_spill, store_error, leave_store
<1>8. ASSUME NEW s \in Segments, leave_store_error(s) PROVE CallInv'
  BY <1>0, <1>8, MeetingOfAssumption DEF leave_store_error
<1> QED
  BY <1>1, <1>2, <1>3, <1>4, <1>5, <1>6, <1>7, <1>8 DEF RecorderNext

\* One call at a time holds the protocol, and its row says 'active' while it records.
THEOREM CallInvariance == Spec => []CallInv
<1>1. Init => CallInv
  BY DEF Init, RecorderInit, CallInv, Registered
<1>2. IInv /\ CallInv /\ [Next]_vars => CallInv'
  <2> SUFFICES ASSUME IInv, CallInv, [Next]_vars PROVE CallInv'
    OBVIOUS
  <2>1. CASE UNCHANGED <<call, status>>
    BY <2>1 DEF CallInv
  <2>2. CASE UNCHANGED vars \/ (\E m \in Meetings : emit(m)) \/ Restart \/ on_ready
    BY <2>1, <2>2 DEF vars, emit, Restart, on_ready, tableVars, recorderVars
  <2>3. CASE LoseMemory
    BY <2>3 DEF LoseMemory, CallInv, Registered
  <2> QED
    BY <2>2, <2>3, CallsDrainer, CallsRecorder
       DEF Next, ProcessNext, Crash, CrashInSpill, CrashInUnlink
<1> QED
  BY <1>1, <1>2, Invariance, PTL DEF Spec

-------------------------------------------------------------------------------
(* The life of the calls, step by step *)

LifecycleStep == [Calls!LifecycleNext]_(Calls!lifecycleVars)

\* Where no call, row or marker moves, the lifecycle stutters.
LEMMA CallsKept == ASSUME UNCHANGED <<call, status, marker>> PROVE UNCHANGED Calls!lifecycleVars
  BY DEF InCall, Calls!lifecycleVars, Calls!holders

\* The drainer completes what is marked; the rest of it the lifecycle does not see.
LEMMA LifecycleDrainer == ASSUME IInv, DrainerStep PROVE LifecycleStep
<1>0. UNCHANGED call /\ \A S : UNCHANGED InCall(S)
  BY DEF DrainerStep, recorderVars, InCall
<1>1. CASE UNCHANGED <<status, marker>>
  BY <1>0, <1>1, CallsKept DEF LifecycleStep
<1>2. ASSUME NEW m \in Meetings, m \in todo, complete_meeting(m), UNCHANGED marker PROVE LifecycleStep
  <2>1. m \in marker
    BY <1>2 DEF IInv, FinalInv, SettledIsDrained
  <2>2. Calls!Complete(m)
    BY <1>0, <1>2, <2>1 DEF complete_meeting, Calls!Complete, Calls!holders
  <2> QED
    BY <2>2 DEF LifecycleStep, Calls!LifecycleNext
<1>3. ASSUME NEW m \in Meetings, FinishMeeting(m) PROVE LifecycleStep
  <2>1. m \in marker /\ status[m] = "completed"
    BY <1>3 DEF FinishMeeting, AtHand, IInv, FinalInv, SettledIsDrained, HookAccounted
  <2>2. status' = [status EXCEPT ![m] = "completed"]
    BY <1>3, <2>1 DEF FinishMeeting, tableVars, IInv, TypeOK, TablesTypeOK
  <2>3. Calls!Complete(m)
    BY <1>0, <1>3, <2>1, <2>2 DEF FinishMeeting, unmark_finalizing, Calls!Complete, Calls!holders
  <2> QED
    BY <2>3 DEF LifecycleStep, Calls!LifecycleNext
<1> QED
  BY <1>1, <1>2, <1>3
     DEF DrainerStep, DrainerNext, DrainIdle, DrainDrop, DrainLoad, TranscribeRefused, TranscribeNone,
         TranscribeSilence, TranscribeText, InsertRow, InsertError, Touch, TouchError, CompleteRow,
         CompleteError, AtHand, unlink_segment, tableVars, queueVars

\* What the views are while m holds the protocol, and after its command has moved it.
LEMMA HolderMoves ==
    ASSUME TypeOK, CallInv, NEW m \in Meetings, call[m] \in Registered, NEW to \in CallState \ {"none"},
           SetCall(m, to)
    PROVE  /\ InCall(CallState \ {"none"})' = InCall(CallState \ {"none"})
           /\ InCall(Registered) = {m} /\ InCall(Registered)' = {k \in {m} : to \in Registered}
           /\ InCall({"retired", "inserted"})' = {k \in {m} : to \in {"retired", "inserted"}}
           /\ InCall({"live"})' = {k \in {m} : to = "live"}
           /\ InCall({"leaving"})' = {k \in {m} : to = "leaving"}
           /\ InCall({"storing"})' = InCall({"storing"}) \cup {k \in {m} : to = "storing"}
           /\ InCall({"retired", "inserted"}) = {k \in {m} : call[m] \in {"retired", "inserted"}}
           /\ InCall({"live"}) = {k \in {m} : call[m] = "live"}
           /\ InCall({"leaving"}) = {k \in {m} : call[m] = "leaving"}
<1>1. \A k \in Meetings : k # m => call'[k] = call[k] /\ call[k] \notin Registered
  BY DEF SetCall, TypeOK, RecorderTypeOK, CallInv
<1>2. call'[m] = to
  BY DEF SetCall, TypeOK, RecorderTypeOK
<1>3. call[m] \in CallState \ {"none"} /\ call[m] # "storing"
  BY DEF CallState, Registered
<1>4. /\ InCall({"live"})' = {k \in {m} : to = "live"} /\ InCall({"leaving"})' = {k \in {m} : to = "leaving"}
      /\ InCall({"live"}) = {k \in {m} : call[m] = "live"}
      /\ InCall({"leaving"}) = {k \in {m} : call[m] = "leaving"}
  BY <1>1, <1>2 DEF InCall, Registered
<1>5. /\ InCall({"retired", "inserted"})' = {k \in {m} : to \in {"retired", "inserted"}}
      /\ InCall({"retired", "inserted"}) = {k \in {m} : call[m] \in {"retired", "inserted"}}
  BY <1>1, <1>2 DEF InCall, Registered
<1>6. InCall(Registered) = {m} /\ InCall(Registered)' = {k \in {m} : to \in Registered}
  BY <1>1, <1>2 DEF InCall
<1>7. InCall({"storing"})' = InCall({"storing"}) \cup {k \in {m} : to = "storing"}
  BY <1>1, <1>2, <1>3 DEF InCall
<1>8. InCall(CallState \ {"none"})' = InCall(CallState \ {"none"})
  BY <1>1, <1>2, <1>3 DEF InCall
<1> QED
  BY <1>4, <1>5, <1>6, <1>7, <1>8

\* /join is Begin, Insert and Record, or gives the call up.
LEMMA LifecycleJoin ==
    ASSUME IInv, CallInv, NEW m \in Meetings,
           join_retire(m) \/ join_insert(m) \/ join_live(m) \/ join_db_error(m) \/ join_start_fails(m)
    PROVE  LifecycleStep
<1>0. TypeOK /\ status = [k \in Meetings |-> status[k]]
  BY DEF IInv, TypeOK, TablesTypeOK
<1> USE DEF tableVars, queueVars, Calls!holders
<1>1. CASE join_retire(m)
  <2>1. /\ SetCall(m, "retired") /\ call[m] = "none" /\ \A k \in Meetings : call[k] \notin Registered
        /\ retire_stale /\ UNCHANGED marker
    BY <1>1 DEF join_retire
  <2>2. /\ InCall(Registered) = {} /\ InCall(Registered)' = {m}
        /\ InCall({"retired", "inserted"})' = {m}
        /\ UNCHANGED <<InCall({"live"}), InCall({"leaving"}), InCall({"storing"})>>
    BY <1>0, <2>1 DEF SetCall, InCall, Registered, TypeOK, RecorderTypeOK
  <2>3. /\ m \notin InCall(CallState \ {"none"})
        /\ InCall(CallState \ {"none"})' = InCall(CallState \ {"none"}) \cup {m}
    BY <1>0, <2>1 DEF SetCall, InCall, CallState, TypeOK, RecorderTypeOK
  <2>4. Calls!Retires
    BY <2>1, <2>2 DEF retire_stale, Calls!Retires
  <2>5. Calls!Begin(m)
    BY <2>1, <2>2, <2>3, <2>4 DEF Calls!Begin
  <2> QED
    BY <2>5 DEF LifecycleStep, Calls!LifecycleNext
<1>2. CASE join_insert(m)
  <2>1. SetCall(m, "inserted") /\ call[m] = "retired" /\ insert_meeting(m) /\ UNCHANGED marker
    BY <1>2 DEF join_insert
  <2>2. Calls!Insert(m)
    BY <1>0, <2>1, HolderMoves DEF insert_meeting, Registered, CallState, Calls!Insert
  <2> QED
    BY <2>2 DEF LifecycleStep, Calls!LifecycleNext
<1>3. CASE join_live(m)
  <2>1. SetCall(m, "live") /\ call[m] = "inserted" /\ UNCHANGED <<status, marker>>
    BY <1>3 DEF join_live
  <2>2. status[m] = "active"
    BY <2>1 DEF CallInv
  <2>3. Calls!Record(m)
    BY <1>0, <2>1, <2>2, HolderMoves DEF Registered, CallState, Calls!Record
  <2> QED
    BY <2>3 DEF LifecycleStep, Calls!LifecycleNext
<1>4. CASE join_db_error(m)
  <2>1. SetCall(m, "stuck") /\ call[m] \in {"retired", "inserted"} /\ UNCHANGED <<status, marker>>
    BY <1>4 DEF join_db_error
  <2>2. Calls!Abandon(m)
    BY <1>0, <2>1, HolderMoves DEF Registered, CallState, Calls!Abandon
  <2> QED
    BY <2>2 DEF LifecycleStep, Calls!LifecycleNext
<1>5. CASE join_start_fails(m)
  <2>1. /\ SetCall(m, "failed") /\ call[m] = "inserted" /\ UNCHANGED marker
        /\ fail_meeting(m) \/ UNCHANGED status
    BY <1>5 DEF join_start_fails
  <2>2. status[m] = "active"
    BY <2>1 DEF CallInv
  <2>3. UNCHANGED status \/ (status[m] = "active" /\ status' = [status EXCEPT ![m] = "failed"])
    BY <2>1, <2>2 DEF fail_meeting
  <2>4. /\ InCall(CallState \ {"none"})' = InCall(CallState \ {"none"})
        /\ InCall({"retired", "inserted"}) = {m} /\ InCall({"retired", "inserted"})' = {}
        /\ InCall(Registered)' = {} /\ UNCHANGED <<InCall({"live"}), InCall({"leaving"}), InCall({"storing"})>>
    BY <1>0, <2>1, HolderMoves DEF Registered, CallState
  <2>5. Calls!Abandon(m)
    BY <2>1, <2>3, <2>4 DEF Calls!Abandon
  <2> QED
    BY <2>5 DEF LifecycleStep, Calls!LifecycleNext
<1> QED
  BY <1>1, <1>2, <1>3, <1>4, <1>5

\* The stores of /leave are over, with a marker or without.
LEMMA StoredStep ==
    ASSUME TypeOK, NEW m \in Meetings, call[m] = "storing", NEW to \in {"left", "aborted"}, SetCall(m, to),
           UNCHANGED status, marker' \in {marker, marker \cup {m}}
    PROVE  LifecycleStep
<1>1. \A S \in {Registered, {"retired", "inserted"}, {"live"}, {"leaving"}, CallState \ {"none"}} :
          UNCHANGED InCall(S)
  BY DEF SetCall, InCall, Registered, CallState, TypeOK, RecorderTypeOK
<1>2. m \in InCall({"storing"}) /\ InCall({"storing"})' = InCall({"storing"}) \ {m}
  BY DEF SetCall, InCall, TypeOK, RecorderTypeOK
<1>3. Calls!Stored(m)
  BY <1>1, <1>2 DEF Calls!Stored, Calls!holders
<1> QED
  BY <1>3 DEF LifecycleStep, Calls!LifecycleNext

\* /leave is Leave, Disconnect and Stored, or raises on the way.
LEMMA LifecycleLeave ==
    ASSUME IInv, CallInv, NEW m \in Meetings,
           leave_begin(m) \/ leave_error(m) \/ leave_drain_all(m) \/ leave_mark(m) \/ leave_mark_error(m)
    PROVE  LifecycleStep
<1>0. TypeOK
  BY DEF IInv
<1> USE DEF tableVars, queueVars, Calls!holders
<1>1. CASE leave_begin(m)
  <2>1. SetCall(m, "leaving") /\ call[m] = "live" /\ UNCHANGED <<status, marker>>
    BY <1>1 DEF leave_begin
  <2>2. Calls!Leave(m)
    BY <1>0, <2>1, HolderMoves DEF Registered, CallState, Calls!Leave
  <2> QED
    BY <2>2 DEF LifecycleStep, Calls!LifecycleNext
<1>2. CASE leave_error(m)
  <2>1. PICK to \in {"stuck", "aborted"} : SetCall(m, to)
    BY <1>2 DEF leave_error
  <2>2. call[m] = "leaving" /\ UNCHANGED <<status, marker>>
    BY <1>2 DEF leave_error
  <2>3. Calls!LeaveFails(m)
    BY <1>0, <2>1, <2>2, HolderMoves DEF Registered, CallState, Calls!LeaveFails
  <2> QED
    BY <2>3 DEF LifecycleStep, Calls!LifecycleNext
<1>3. CASE leave_drain_all(m)
  <2>1. SetCall(m, "storing") /\ call[m] = "leaving" /\ UNCHANGED <<status, marker>>
    BY <1>3 DEF leave_drain_all
  <2>2. Calls!Disconnect(m)
    BY <1>0, <2>1, HolderMoves DEF Registered, CallState, Calls!Disconnect
  <2> QED
    BY <2>2 DEF LifecycleStep, Calls!LifecycleNext
<1>4. CASE leave_mark(m)
  BY <1>0, <1>4, StoredStep DEF leave_mark, StoresDone, mark_finalizing
<1>5. CASE leave_mark_error(m)
  BY <1>0, <1>5, StoredStep DEF leave_mark_error, StoresDone
<1> QED
  BY <1>1, <1>2, <1>3, <1>4, <1>5

\* Audio, stores and spills move no call, but for the spill that ends a /leave.
LEMMA LifecycleStores ==
    ASSUME IInv, NEW s \in Segments,
           \/ write(s) \/ store_short(s) \/ store_awaits_name(s) \/ store_spill(s) \/ store_error(s)
           \/ leave_store(s) \/ leave_store_error(s)
    PROVE  LifecycleStep
<1> USE DEF tableVars, queueVars, spill_segment, spill_interrupted, WriteFiles
<1>1. CASE UNCHANGED <<call, status, marker>>
  BY <1>1, CallsKept DEF LifecycleStep
<1>2. CASE leave_store_error(s)
  <2>1. TypeOK /\ MeetingOf[s] \in Meetings /\ call[MeetingOf[s]] = "storing"
    BY <1>2, MeetingOfAssumption DEF IInv, FinalInv, HeldIsStoring, leave_store_error
  <2>2. SetCall(MeetingOf[s], "aborted") /\ UNCHANGED <<status, marker>>
    BY <1>2 DEF leave_store_error
  <2> QED
    BY <2>1, <2>2, StoredStep
<1> QED
  BY <1>1, <1>2 DEF write, store_short, store_awaits_name, store_spill, store_error, leave_store

\* A dead process holds nothing.
LEMMA LifecycleLose ==
    ASSUME TypeOK, LoseMemory, UNCHANGED <<status, marker>> PROVE LifecycleStep
<1>1. \A m \in Meetings : call'[m] \notin Registered \cup {"storing"} /\ (call[m] # "none" => call'[m] # "none")
  BY DEF LoseMemory, TypeOK, RecorderTypeOK, CallState, Registered
<1>2. /\ InCall(Registered)' = {} /\ InCall({"retired", "inserted"})' = {} /\ InCall({"live"})' = {}
      /\ InCall({"leaving"})' = {} /\ InCall({"storing"})' = {}
  BY <1>1 DEF InCall, Registered
<1>3. InCall(CallState \ {"none"}) \subseteq InCall(CallState \ {"none"})'
  BY <1>1 DEF InCall, LoseMemory, CallState
<1>4. Calls!Lose
  BY <1>2, <1>3 DEF Calls!Lose
<1> QED
  BY <1>4 DEF LifecycleStep, Calls!LifecycleNext

\* The bot's calls live by CallLifecycle, whatever the drainer, the stores and the crashes do: no
\* completed row is taken back, no row is completed before its mark, no row fails while its call
\* holds the protocol.
THEOREM RecorderKeepsLifecycle == Spec => RecorderFollowsLifecycle
<1>1. Init => Calls!LifecycleInit
  BY DEF Init, QueueInit, TablesInit, RecorderInit, InCall, Registered, CallState, Calls!LifecycleInit
<1>2. IInv /\ CallInv /\ [Next]_vars => [Calls!LifecycleNext]_(Calls!lifecycleVars)
  <2> SUFFICES ASSUME IInv, CallInv, [Next]_vars PROVE LifecycleStep
    BY DEF LifecycleStep
  <2>1. CASE UNCHANGED vars \/ (\E m \in Meetings : emit(m)) \/ Restart \/ on_ready
    <3>1. UNCHANGED <<call, status, marker>>
      BY <2>1 DEF vars, emit, Restart, on_ready, queueVars, tableVars, recorderVars
    <3> QED
      BY <3>1, CallsKept DEF LifecycleStep
  <2>2. CASE Crash \/ CrashInUnlink \/ \E s \in Segments : CrashInSpill(s)
    <3>1. LoseMemory /\ UNCHANGED <<status, marker>>
      BY <2>2 DEF Crash, CrashInUnlink, CrashInSpill, spill_interrupted, WriteFiles, unlink_interrupted,
                  queueVars, tableVars
    <3> QED
      BY <3>1, LifecycleLose DEF IInv
  <2>3. CASE RecorderNext
    BY <2>3, LifecycleJoin, LifecycleLeave, LifecycleStores DEF RecorderNext
  <2> QED
    BY <2>1, <2>2, <2>3, LifecycleDrainer DEF Next, ProcessNext
<1> QED
  BY <1>1, <1>2, Invariance, CallInvariance, PTL DEF Spec, RecorderFollowsLifecycle, Calls!LifecycleSpec

-------------------------------------------------------------------------------
(* The handover of audio *)

\* Audio that waits belongs to a recording that is live or being left.
THEOREM BufferedInvariance == Spec => []BufferedIsLive
<1>1. Init => BufferedIsLive
  BY DEF Init, RecorderInit, BufferedIsLive
<1>2. IInv /\ BufferedIsLive /\ [Next]_vars => BufferedIsLive'
  <2> SUFFICES ASSUME IInv, BufferedIsLive, [Next]_vars PROVE BufferedIsLive'
    OBVIOUS
  <2>0. TypeOK /\ HeldIsStoring
    BY DEF IInv, FinalInv
  <2> USE DEF BufferedIsLive, SetCall, SetStage, TypeOK, RecorderTypeOK
  <2>1. CASE UNCHANGED <<call, stage>>
    BY <2>1
  <2>2. CASE UNCHANGED vars \/ DrainerStep \/ (\E m \in Meetings : emit(m)) \/ Restart \/ on_ready
    BY <2>1, <2>2 DEF vars, DrainerStep, emit, Restart, on_ready, recorderVars
  <2>3. CASE LoseMemory
    BY <2>3 DEF LoseMemory
  <2>4. ASSUME NEW m \in Meetings,
               join_retire(m) \/ join_insert(m) \/ join_live(m) \/ join_db_error(m) \/ join_start_fails(m)
        PROVE  BufferedIsLive'
    BY <2>0, <2>4, MeetingOfAssumption
       DEF join_retire, join_insert, join_live, join_db_error, join_start_fails
  <2>5. ASSUME NEW m \in Meetings, leave_begin(m) \/ leave_mark(m) \/ leave_mark_error(m)
        PROVE  BufferedIsLive'
    BY <2>0, <2>5, MeetingOfAssumption DEF leave_begin, leave_mark, leave_mark_error, StoresDone
  <2>6. ASSUME NEW m \in Meetings, leave_error(m) \/ leave_drain_all(m) PROVE BufferedIsLive'
    BY <2>0, <2>6, MeetingOfAssumption DEF leave_error, leave_drain_all, MoveAll, SegmentsAt
  <2>7. ASSUME NEW s \in Segments, write(s) \/ store_short(s) \/ store_awaits_name(s) \/ store_spill(s)
                                   \/ store_error(s) \/ leave_store(s) PROVE BufferedIsLive'
    BY <2>0, <2>7 DEF write, store_short, store_awaits_name, store_spill, store_error, leave_store
  <2>8. ASSUME NEW s \in Segments, leave_store_error(s) PROVE BufferedIsLive'
    BY <2>0, <2>8, MeetingOfAssumption DEF leave_store_error, HeldIsStoring, MoveAll, SegmentsAt
  <2>9. CASE RecorderNext
    BY <2>4, <2>5, <2>6, <2>7, <2>8, <2>9 DEF RecorderNext
  <2> QED
    BY <2>2, <2>3, <2>9 DEF Next, ProcessNext, Crash, CrashInSpill, CrashInUnlink
<1> QED
  BY <1>1, <1>2, Invariance, PTL DEF Spec

HandoverStep(m) == [Handover(m)!AudioNext]_(Handover(m)!audioVars)

\* What no step does to a meeting's segments is not done to its audio.
LEMMA HandoverKept ==
    ASSUME NEW m \in Meetings, Recording(m)' = Recording(m),
           \A s \in Segments : MeetingOf[s] = m =>
               /\ stage'[s] = "unspoken" <=> stage[s] = "unspoken"
               /\ stage'[s] = "buffered" <=> stage[s] = "buffered"
    PROVE  HandoverStep(m)
<1>1. Begun(m)' = Begun(m) /\ Buffered(m)' = Buffered(m)
  BY DEF Begun, Buffered, SegmentsAt
<1> QED
  BY <1>1 DEF HandoverStep, Handover!audioVars

\* A call that ends early takes what is buffered along.
LEMMA HandoverLost ==
    ASSUME NEW m \in Meetings, call'[m] \in {"failed", "stuck", "aborted", "crashed"},
           \A s \in Segments : MeetingOf[s] = m =>
               /\ stage'[s] = "unspoken" <=> stage[s] = "unspoken"
               /\ stage'[s] # "buffered"
    PROVE  HandoverStep(m)
<1>1. Recording(m)' = "over" /\ Begun(m)' = Begun(m) /\ Buffered(m)' = {}
  BY DEF Recording, Begun, Buffered, SegmentsAt
<1> QED
  BY <1>1 DEF HandoverStep, Handover!AudioNext, Handover!Lose

\* The steps of /join, /leave and the crashes, for the meeting they are about and the others.
LEMMA HandoverCalls ==
    ASSUME IInv, BufferedIsLive, NEW m \in Meetings, NEW n \in Meetings,
           \/ join_retire(n) \/ join_insert(n) \/ join_live(n) \/ join_db_error(n) \/ join_start_fails(n)
           \/ leave_begin(n) \/ leave_error(n) \/ leave_drain_all(n) \/ leave_mark(n) \/ leave_mark_error(n)
    PROVE  HandoverStep(m)
<1>0. TypeOK
  BY DEF IInv
<1> USE DEF SetCall, TypeOK, RecorderTypeOK
<1>1. CASE m # n
  <2>1. Recording(m)' = Recording(m)
    BY <1>0, <1>1 DEF Recording, join_retire, join_insert, join_live, join_db_error, join_start_fails,
       leave_begin, leave_error, leave_drain_all, leave_mark, leave_mark_error
  <2>2. \A s \in Segments : MeetingOf[s] = m => stage'[s] = stage[s]
    BY <1>0, <1>1 DEF join_retire, join_insert, join_live, join_db_error, join_start_fails,
       leave_begin, leave_error, leave_drain_all, leave_mark, leave_mark_error, MoveAll, SegmentsAt
  <2> QED
    BY <2>1, <2>2, HandoverKept
<1>2. CASE join_retire(m) \/ join_insert(m) \/ leave_mark(m)
  <2>1. Recording(m)' = Recording(m) /\ UNCHANGED stage
    BY <1>0, <1>2 DEF Recording, join_retire, join_insert, leave_mark, StoresDone
  <2> QED
    BY <2>1, HandoverKept
<1>3. CASE join_live(m)
  <2>1. Recording(m) = "idle" /\ Recording(m)' = "live" /\ UNCHANGED stage
    BY <1>0, <1>3 DEF Recording, join_live
  <2>2. Begun(m)' = Begun(m) /\ Buffered(m)' = Buffered(m)
    BY <2>1 DEF Begun, Buffered, SegmentsAt
  <2> QED
    BY <2>1, <2>2 DEF HandoverStep, Handover!AudioNext, Handover!Live
<1>4. CASE join_db_error(m) \/ join_start_fails(m) \/ leave_mark_error(m)
  <2>1. /\ call[m] \notin {"live", "leaving"} /\ call'[m] \in {"failed", "stuck", "aborted", "crashed"}
        /\ UNCHANGED stage
    BY <1>0, <1>4 DEF join_db_error, join_start_fails, leave_mark_error, StoresDone
  <2> QED
    BY <2>1, HandoverLost DEF BufferedIsLive
<1>5. CASE leave_begin(m)
  <2>1. Recording(m) = "live" /\ Recording(m)' = "leaving" /\ UNCHANGED stage
    BY <1>0, <1>5 DEF Recording, leave_begin
  <2>2. Begun(m)' = Begun(m) /\ Buffered(m)' = Buffered(m)
    BY <2>1 DEF Begun, Buffered, SegmentsAt
  <2> QED
    BY <2>1, <2>2 DEF HandoverStep, Handover!AudioNext, Handover!Leave
<1>6. CASE leave_error(m)
  <2>1. call'[m] \in {"failed", "stuck", "aborted", "crashed"}
    BY <1>0, <1>6 DEF leave_error
  <2>2. \A s \in Segments : MeetingOf[s] = m => /\ stage'[s] = "unspoken" <=> stage[s] = "unspoken"
                                                /\ stage'[s] # "buffered"
    BY <1>6 DEF leave_error, MoveAll, SegmentsAt
  <2> QED
    BY <2>1, <2>2, HandoverLost
<1>7. CASE leave_drain_all(m)
  <2>1. Recording(m) = "leaving" /\ Recording(m)' = "drained"
    BY <1>0, <1>7 DEF Recording, leave_drain_all
  <2>2. Begun(m)' = Begun(m) /\ Buffered(m)' = {}
    BY <1>7 DEF leave_drain_all, MoveAll, SegmentsAt, Begun, Buffered
  <2> QED
    BY <2>1, <2>2 DEF HandoverStep, Handover!AudioNext, Handover!Drain
<1> QED
  BY <1>1, <1>2, <1>3, <1>4, <1>5, <1>6, <1>7

\* The steps of the audio path and of store.
LEMMA HandoverStores ==
    ASSUME IInv, BufferedIsLive, NEW m \in Meetings, NEW s \in Segments,
           \/ write(s) \/ store_short(s) \/ store_awaits_name(s) \/ store_spill(s) \/ store_error(s)
           \/ leave_store(s) \/ leave_store_error(s)
    PROVE  HandoverStep(m)
<1>0. TypeOK /\ HeldIsStoring /\ MeetingOf[s] \in Meetings
  BY MeetingOfAssumption DEF IInv, FinalInv
<1> USE DEF SetCall, SetStage, TypeOK, RecorderTypeOK
<1>1. CASE leave_store_error(s)
  <2>1. CASE MeetingOf[s] = m
    <3>1. /\ call[m] = "storing" /\ call'[m] = "aborted"
          /\ \A t \in Segments : MeetingOf[t] = m => /\ stage'[t] = "unspoken" <=> stage[t] = "unspoken"
                                                     /\ stage'[t] = "buffered" => stage[t] = "buffered"
      BY <1>0, <1>1, <2>1 DEF leave_store_error, HeldIsStoring, MoveAll, SegmentsAt
    <3> QED
      BY <3>1, HandoverLost DEF BufferedIsLive
  <2>2. CASE MeetingOf[s] # m
    <3>1. Recording(m)' = Recording(m) /\ \A t \in Segments : MeetingOf[t] = m => stage'[t] = stage[t]
      BY <1>0, <1>1, <2>2 DEF leave_store_error, Recording, MoveAll, SegmentsAt
    <3> QED
      BY <3>1, HandoverKept
  <2> QED
    BY <2>1, <2>2
<1>2. CASE ~leave_store_error(s)
  <2>1. /\ Recording(m)' = Recording(m)
        /\ \A t \in Segments : t # s => stage'[t] = stage[t]
        /\ stage'[s] # "unspoken"
    BY <1>0, <1>2 DEF Recording, write, store_short, store_awaits_name, store_spill, store_error, leave_store
  <2>2. CASE MeetingOf[s] # m
    BY <2>1, <2>2, HandoverKept
  <2>3. CASE MeetingOf[s] = m /\ write(s)
    <3>1. Recording(m) \in {"live", "leaving"} /\ stage[s] = "unspoken" /\ stage'[s] = "buffered"
      BY <1>0, <2>3 DEF write, Recording
    <3>2. /\ s \notin Begun(m) /\ Begun(m)' = Begun(m) \cup {s}
          /\ Buffered(m)' = Buffered(m) \cup {s}
      BY <2>1, <2>3, <3>1 DEF Begun, Buffered, SegmentsAt
    <3> QED
      BY <2>1, <3>1, <3>2 DEF HandoverStep, Handover!AudioNext, Handover!Speak
  <2>4. CASE MeetingOf[s] = m /\ stage[s] = "buffered" /\ ~write(s)
    <3>1. Recording(m) = "live" /\ stage'[s] # "buffered"
      BY <1>0, <1>2, <2>4 DEF store_short, store_awaits_name, store_spill, store_error, leave_store, Spilling,
                              Popped, Recording
    <3>2. Begun(m)' = Begun(m) /\ Buffered(m)' \subseteq Buffered(m)
      BY <2>1, <2>4, <3>1 DEF Begun, Buffered, SegmentsAt
    <3> QED
      BY <2>1, <3>1, <3>2 DEF HandoverStep, Handover!AudioNext, Handover!Flush
  <2>5. CASE stage[s] # "buffered" /\ ~write(s)
    <3>1. stage[s] # "unspoken" /\ stage'[s] # "buffered"
      BY <1>0, <1>2, <2>5 DEF store_short, store_awaits_name, store_spill, store_error, leave_store, Spilling, Popped
    <3> QED
      BY <2>1, <2>5, <3>1, HandoverKept
  <2> QED
    BY <2>2, <2>3, <2>4, <2>5
<1> QED
  BY <1>1, <1>2

\* The process dies: a recording that was drained, or had not begun, or had ended, has nothing to lose.
LEMMA HandoverLose ==
    ASSUME IInv, BufferedIsLive, NEW m \in Meetings, LoseMemory PROVE HandoverStep(m)
<1>1. /\ call'[m] = IF call[m] \in {"none", "left", "failed"} THEN call[m] ELSE "crashed"
      /\ \A s \in Segments : /\ stage'[s] = "unspoken" <=> stage[s] = "unspoken"
                             /\ stage'[s] # "buffered"
  BY DEF LoseMemory
<1>2. CASE call[m] \in {"none", "left", "failed"}
  <2>1. Recording(m)' = Recording(m)
    BY <1>1, <1>2 DEF Recording
  <2>2. \A s \in Segments : MeetingOf[s] = m => stage[s] # "buffered"
    BY <1>2 DEF BufferedIsLive
  <2> QED
    BY <1>1, <2>1, <2>2, HandoverKept
<1>3. CASE call[m] \notin {"none", "left", "failed"}
  BY <1>1, <1>3, HandoverLost
<1> QED
  BY <1>2, <1>3

\* The recorder takes audio over as AudioHandover says, in every meeting.
THEOREM RecorderTakesOverAudio == Spec => RecorderTakesOver
<1>1. Init => \A m \in Meetings : Handover(m)!AudioInit
  BY DEF Init, RecorderInit, Recording, Begun, Buffered, SegmentsAt, Handover!AudioInit
<1>2. IInv /\ BufferedIsLive /\ [Next]_vars
          => [\A m \in Meetings : [Handover(m)!AudioNext]_(Handover(m)!audioVars)]_vars
  <2> SUFFICES ASSUME IInv, BufferedIsLive, Next, NEW m \in Meetings PROVE HandoverStep(m)
    BY DEF HandoverStep
  <2>1. CASE DrainerStep \/ (\E n \in Meetings : emit(n)) \/ Restart \/ on_ready
    <3>1. UNCHANGED <<call, stage>>
      BY <2>1 DEF DrainerStep, emit, Restart, on_ready, recorderVars
    <3> QED
      BY <3>1, HandoverKept DEF Recording
  <2>2. CASE RecorderNext
    BY <2>2, HandoverCalls, HandoverStores DEF RecorderNext
  <2>3. CASE LoseMemory
    BY <2>3, HandoverLose
  <2> QED
    BY <2>1, <2>2, <2>3 DEF Next, ProcessNext, Crash, CrashInSpill, CrashInUnlink
<1> QED
  BY <1>1, <1>2, Invariance, BufferedInvariance, PTL DEF Spec, RecorderTakesOver
===============================================================================
