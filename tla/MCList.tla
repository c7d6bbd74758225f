------------------------------- MODULE MCList -------------------------------
(* Instances of List for TLC. *)
EXTENDS List

CONSTANTS small, big

\* Items of different lengths, and of the same length.
MCSizes == {small :> 1 @@ big :> 3, small :> 2 @@ big :> 2}
MCItems == {<<small, big, small, small>>}
=============================================================================
