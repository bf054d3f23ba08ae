------------------------------- MODULE MCBridge -------------------------------
(***************************************************************************)
(* Small instances of Bridge for TLC.                                      *)
(***************************************************************************)
EXTENDS BridgeInv, TLC

CONSTANTS a, b, c   \* segments

\* One segment of each of two meetings.
TwoMeetings == a :> 1 @@ c :> 2

\* The same, and one segment under MIN_MS in the first meeting.
WithShort == TwoMeetings @@ b :> 1

\* Two segments of one meeting.
OneMeeting == a :> 1 @@ b :> 1

AllCuts == {<<"torn", "absent">>, <<"full", "absent">>, <<"full", "torn">>}

\* A crash inside spill_segment that leaves no torn .wav.
CutsBeforeAudio == {<<"torn", "absent">>, <<"full", "absent">>}

NoCuts == {}
===============================================================================
