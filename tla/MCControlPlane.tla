---------------------------- MODULE MCControlPlane ----------------------------
(***************************************************************************)
(* One guild with two voice channels for TLC.                              *)
(***************************************************************************)
EXTENDS ControlPlane, TLC

CONSTANTS g1, ch1, ch2

OneGuild == ch1 :> g1 @@ ch2 :> g1

Symmetry == Permutations(Commands) \cup Permutations(Channels)
===============================================================================
