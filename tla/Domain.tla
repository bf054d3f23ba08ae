-------------------------------- MODULE Domain --------------------------------
(***************************************************************************)
(* What every module of the pipeline speaks of: utterances, and the        *)
(* meetings they belong to.                                                *)
(***************************************************************************)
EXTENDS Integers

CONSTANTS Segments,   (* utterances, as PcmBuffer._pop cuts them                     *)
          Meetings,   (* ids of rows of Vexa's meetings table, in order of insertion *)
          MeetingOf   (* the meeting_id of a segment's sidecar and file name         *)

ASSUME MeetingsAssumption == Meetings \subseteq Nat
ASSUME MeetingOfAssumption == MeetingOf \in [Segments -> Meetings]
===============================================================================
