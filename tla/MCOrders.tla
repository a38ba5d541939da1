------------------------------ MODULE MCOrders ------------------------------
(***************************************************************************)
(* Orders for TLC: a slice of options with room for what every helper      *)
(* appends and one with room for a single option.  The goroutines are      *)
(* interchangeable.                                                        *)
(***************************************************************************)
EXTENDS Orders, TLC

MCSpare == [roomy |-> 2, tight |-> 1]

Symmetry == Permutations(Caller)
=============================================================================
