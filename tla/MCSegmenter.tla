----------------------------- MODULE MCSegmenter ------------------------------
(***************************************************************************)
(* Two speakers on a short clock for TLC.                                  *)
(***************************************************************************)
EXTENDS Segmenter, TLC

Symmetry == Permutations(Users)
===============================================================================
