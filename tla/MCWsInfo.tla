------------------------------ MODULE MCWsInfo ------------------------------
(***************************************************************************)
(* WsInfo for TLC.  Handles are interchangeable, and so are keys, in every *)
(* formula the safety runs check; the liveness runs use no symmetry.       *)
(***************************************************************************)
EXTENDS WsInfo, TLC

Symmetry == Permutations(Sub) \cup Permutations(Key)
=============================================================================
