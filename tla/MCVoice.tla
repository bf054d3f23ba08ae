------------------------------- MODULE MCVoice --------------------------------
(***************************************************************************)
(* Two users, two SSRCs and a few transitions for TLC, and the datagrams   *)
(* that the slicing is checked on.                                         *)
(***************************************************************************)
EXTENDS VoiceClient
===============================================================================
