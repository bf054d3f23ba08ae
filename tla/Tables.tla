-------------------------------- MODULE Tables --------------------------------
(***************************************************************************)
(* The rows of Vexa's Postgres that the bridge writes: the status column   *)
(* of meetings and, for each segment, how many rows of transcriptions were *)
(* inserted from it. Every statement is a transaction of its own. The      *)
(* module knows one voice channel, so that every meeting has the same      *)
(* (user_id, platform, platform_specific_id).                              *)
(***************************************************************************)
EXTENDS Domain

VARIABLES status,   (* meetings.status; "none" while the row does not exist *)
          rows      (* transcriptions rows inserted from each segment       *)

tableVars == <<status, rows>>

Status == {"none", "active", "failed", "completed"}

Terminal == {"failed", "completed"}

TablesTypeOK ==
    /\ status \in [Meetings -> Status]
    /\ rows \in [Segments -> Nat]

TablesInit ==
    /\ status = [m \in Meetings |-> "none"]
    /\ rows = [s \in Segments |-> 0]

-------------------------------------------------------------------------------
retire_stale_EveryRow ==
    status' = [m \in Meetings |-> IF status[m] = "none" THEN "none" ELSE "failed"]

\* UPDATE ... SET status='failed' WHERE <this channel> AND status NOT IN ('completed','failed')
retire_stale ==
    status' = [m \in Meetings |-> IF status[m] = "active" THEN "failed" ELSE status[m]]

\* The unique partial index of Vexa 0.12 refuses the INSERT while another row is non-terminal.
insert_meeting(m) ==
    /\ status[m] = "none"
    /\ \A k \in Meetings : status[k] \in Terminal \cup {"none"}
    /\ status' = [status EXCEPT ![m] = "active"]

\* UPDATE ... WHERE id=$1: whatever the status was.
fail_meeting(m) == status' = [status EXCEPT ![m] = "failed"]

complete_meeting(m) == status' = [status EXCEPT ![m] = "completed"]

insert_transcription_row(s) == rows' = [rows EXCEPT ![s] = @ + 1]
===============================================================================
