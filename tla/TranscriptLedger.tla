--------------------------- MODULE TranscriptLedger ---------------------------
(***************************************************************************)
(* What the pipeline promises, with no files, no retries and no crashes:   *)
(* a ledger in which nothing is ever taken back. Utterances are accepted   *)
(* and delivered, meetings are closed and then completed, receivers are    *)
(* notified. A completed meeting's transcript holds every utterance        *)
(* accepted before the meeting was closed; a notified meeting is complete. *)
(***************************************************************************)
EXTENDS Domain

VARIABLES accepted,    (* utterances the bridge has taken responsibility for    *)
          late,        (* the ones accepted after their meeting was closed      *)
          delivered,   (* utterances whose transcription is settled             *)
          closed,      (* meetings that /leave has ended                        *)
          completed,   (* meetings shown as completed                           *)
          notified     (* meetings the webhook receiver has been told about     *)

ledgerVars == <<accepted, late, delivered, closed, completed, notified>>

LedgerInit ==
    /\ accepted = {} /\ late = {} /\ delivered = {}
    /\ closed = {} /\ completed = {} /\ notified = {}

Accept(s) ==
    /\ s \notin accepted
    /\ accepted' = accepted \cup {s}
    /\ late' = IF MeetingOf[s] \in closed THEN late \cup {s} ELSE late
    /\ UNCHANGED <<delivered, closed, completed, notified>>

Deliver(s) ==
    /\ s \in accepted
    /\ delivered' = delivered \cup {s}
    /\ UNCHANGED <<accepted, late, closed, completed, notified>>

\* An utterance that was never wholly accepted turns out to be usable.
Salvage(s) ==
    /\ s \notin accepted
    /\ accepted' = accepted \cup {s}
    /\ delivered' = delivered \cup {s}
    /\ UNCHANGED <<late, closed, completed, notified>>

Close(m) ==
    /\ closed' = closed \cup {m}
    /\ UNCHANGED <<accepted, late, delivered, completed, notified>>

Due(m) == {s \in accepted \ late : MeetingOf[s] = m}

Complete(m) ==
    /\ m \in closed
    /\ Due(m) \subseteq delivered
    /\ completed' = completed \cup {m}
    /\ UNCHANGED <<accepted, late, delivered, closed, notified>>

Notify(m) ==
    /\ m \in completed
    /\ notified' = notified \cup {m}
    /\ UNCHANGED <<accepted, late, delivered, closed, completed>>

LedgerNext ==
    \/ \E s \in Segments : Accept(s) \/ Deliver(s) \/ Salvage(s)
    \/ \E m \in Meetings : Close(m) \/ Complete(m) \/ Notify(m)

LedgerSpec == LedgerInit /\ [][LedgerNext]_ledgerVars
===============================================================================
