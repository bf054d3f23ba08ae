------------------------------- MODULE Drainer --------------------------------
(***************************************************************************)
(* The background drainer: drain_loop, drain_once, transcribe,             *)
(* insert_transcription and _finalize_completed of bot.py. One task, which *)
(* takes the oldest sidecar, has the worker transcribe it, inserts the     *)
(* text, unlinks the pair of files, and flips every finalizing meeting     *)
(* with nothing pending to 'completed'.                                    *)
(*                                                                         *)
(* A step runs from one suspension of the task to the next; between two    *)
(* steps any other task of the event loop may run and the process may die. *)
(* A statement that Postgres refuses leaves nothing behind and the pass    *)
(* starts over; one whose answer is lost after the commit counts as a      *)
(* fault, like a crash. At most MaxFaults faults happen.                   *)
(***************************************************************************)
EXTENDS PendingQueue, Tables, Webhook

CONSTANTS None,        (* no segment                                         *)
          Retries,     (* transcribe's attempts on a connection error (3)    *)
          MaxFaults    (* bound: crashes, lost answers and disk errors       *)

ASSUME NoneAssumption == None \notin Segments
ASSUME RetriesAssumption == Retries \in Nat \ {0}
ASSUME MaxFaultsAssumption == MaxFaults \in Nat

VARIABLES drain,     (* where the drainer task is suspended                           *)
          cur,       (* the segment drain_once has loaded                             *)
          attempt,   (* connection errors of this call of transcribe                  *)
          todo,      (* meetings _finalize_completed has still to flip on this pass   *)
          silent,    (* history: segments the worker found no speech in               *)
          faults     (* history: faults so far                                        *)

drainerVars == <<drain, cur, attempt, todo, silent>>

(***************************************************************************)
(* off         there is no task                                            *)
(* ready       between two passes: sleeping, or yielding                   *)
(* transcribe  awaiting the worker's answer about cur                      *)
(* insert      awaiting the INSERT of cur's text                           *)
(* touch       awaiting the UPDATE of updated_at that follows it           *)
(* finalize    awaiting the UPDATE to 'completed' of the first of todo     *)
(* answered    that UPDATE is committed, its answer on the way             *)
(***************************************************************************)
DrainState == {"off", "ready", "transcribe", "insert", "touch", "finalize", "answered"}

DrainerTypeOK ==
    /\ drain \in DrainState
    /\ cur \in Segments \cup {None}
    /\ attempt \in Nat
    /\ todo \in SUBSET Meetings
    /\ silent \in SUBSET Segments
    /\ faults \in Nat

DrainerInit ==
    /\ drain = "off"
    /\ cur = None
    /\ attempt = 0
    /\ todo = {}
    /\ silent = {}
    /\ faults = 0

\* The worker has had its say on s and the bridge has acted on it.
Delivered(s) == rows[s] > 0 \/ s \in silent

Fault == faults < MaxFaults /\ faults' = faults + 1

ensure_drain_loop == drain' = IF drain = "off" THEN "ready" ELSE drain

\* The pass is over: the loop sleeps and calls drain_once again.
EndPass == drain' = "ready" /\ cur' = None /\ attempt' = 0 /\ todo' = {}

\* One listing of finalizing/ and one scan, made after the unlinks of this step.
begin_finalize ==
    /\ todo' = Drained'
    /\ drain' = IF todo' = {} THEN "ready" ELSE "finalize"
    /\ cur' = None
    /\ attempt' = 0

-------------------------------------------------------------------------------
\* An empty queue: only finalization is left to do.
DrainIdle ==
    /\ drain = "ready"
    /\ scan_pending = {}
    /\ UNCHANGED queueVars
    /\ begin_finalize
    /\ UNCHANGED <<tableVars, hookVars, silent, faults>>

\* The oldest sidecar cannot be loaded: both files go, and no finalization is tried.
DrainDrop(s) ==
    /\ drain = "ready"
    /\ Oldest(s)
    /\ ~Readable(s)
    /\ unlink_segment(s)
    /\ UNCHANGED <<tableVars, hookVars, drainerVars, faults>>

DrainLoad(s) ==
    /\ drain = "ready"
    /\ Oldest(s)
    /\ Readable(s)
    /\ drain' = "transcribe"
    /\ cur' = s
    /\ attempt' = 0
    /\ UNCHANGED <<queueVars, tableVars, hookVars, todo, silent, faults>>

\* ClientConnectorError: transcribe backs off and tries again, or gives up with None.
TranscribeRefused ==
    /\ drain = "transcribe"
    /\ IF attempt + 1 < Retries
         THEN attempt' = attempt + 1 /\ UNCHANGED <<drain, cur, todo>>
         ELSE EndPass
    /\ UNCHANGED <<queueVars, tableVars, hookVars, silent, faults>>

TranscribeNone_DropsSegment ==
    /\ drain = "transcribe"
    /\ unlink_segment(cur)
    /\ EndPass
    /\ UNCHANGED <<tableVars, hookVars, silent, faults>>

\* Non-200, timeout or any other error: None, and the files stay for the next pass.
TranscribeNone ==
    /\ drain = "transcribe"
    /\ EndPass
    /\ UNCHANGED <<queueVars, tableVars, hookVars, silent, faults>>

TranscribeSilence_Retries ==
    /\ drain = "transcribe"
    /\ EndPass
    /\ UNCHANGED <<queueVars, tableVars, hookVars, silent, faults>>

\* 200 with no text: the clip is deleted and the queue advances.
TranscribeSilence ==
    /\ drain = "transcribe"
    /\ silent' = silent \cup {cur}
    /\ unlink_segment(cur)
    /\ begin_finalize
    /\ UNCHANGED <<tableVars, hookVars, faults>>

TranscribeText ==
    /\ drain = "transcribe"
    /\ drain' = "insert"
    /\ UNCHANGED <<queueVars, tableVars, hookVars, cur, attempt, todo, silent, faults>>

InsertRow ==
    /\ drain = "insert"
    /\ insert_transcription_row(cur)
    /\ drain' = "touch"
    /\ UNCHANGED <<queueVars, status, hookVars, cur, attempt, todo, silent, faults>>

\* No pool, no connection, or a refused INSERT; or the connection lost after the commit.
InsertError ==
    /\ drain = "insert"
    /\ \/ UNCHANGED <<rows, faults>>
       \/ Fault /\ insert_transcription_row(cur)
    /\ EndPass
    /\ UNCHANGED <<queueVars, status, hookVars, silent>>

Touch_KeepsFiles ==
    /\ drain = "touch"
    /\ EndPass
    /\ UNCHANGED <<queueVars, tableVars, hookVars, silent, faults>>

\* insert_transcription returns: the files go and finished meetings are looked for.
Touch ==
    /\ drain = "touch"
    /\ unlink_segment(cur)
    /\ begin_finalize
    /\ UNCHANGED <<tableVars, hookVars, silent, faults>>

\* The row is committed, but the UPDATE after it fails: the segment stays queued.
TouchError ==
    /\ drain = "touch"
    /\ Fault
    /\ EndPass
    /\ UNCHANGED <<queueVars, tableVars, hookVars, silent>>

-------------------------------------------------------------------------------
\* finalizing_meetings is sorted: m is the meeting the loop is at.
AtHand(m) == m \in todo /\ \A k \in todo : m <= k

CompleteRow(m) ==
    /\ drain = "finalize"
    /\ AtHand(m)
    /\ complete_meeting(m)
    /\ drain' = "answered"
    /\ UNCHANGED <<queueVars, rows, hookVars, cur, attempt, todo, silent, faults>>

\* The exception ends the pass; the markers stay, so that the next pass tries again.
CompleteError(m) ==
    /\ drain = "finalize"
    /\ AtHand(m)
    /\ complete_meeting(m) \/ UNCHANGED status
    /\ EndPass
    /\ UNCHANGED <<queueVars, rows, hookVars, silent, faults>>

\* The answer arrives: the marker goes, then the webhook task is created.
FinishMeeting(m) ==
    /\ drain = "answered"
    /\ AtHand(m)
    /\ unmark_finalizing(m)
    /\ schedule_webhook(m)
    /\ todo' = todo \ {m}
    /\ drain' = IF todo' = {} THEN "ready" ELSE "finalize"
    /\ UNCHANGED <<tableVars, cur, attempt, silent, faults>>

DrainerNext ==
    \/ DrainIdle
    \/ \E s \in Segments : DrainDrop(s) \/ DrainLoad(s)
    \/ TranscribeRefused \/ TranscribeNone \/ TranscribeSilence \/ TranscribeText
    \/ InsertRow \/ InsertError \/ Touch \/ TouchError
    \/ \E m \in Meetings : CompleteRow(m) \/ CompleteError(m) \/ FinishMeeting(m)
===============================================================================
