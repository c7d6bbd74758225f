------------------------------ MODULE MCFocus -------------------------------
(* Instances of Focus for TLC. *)
EXTENDS Focus

CONSTANTS root, panel, t1, t2

\* Two TextInputs in a panel in the root.
MCParent == root :> NoWidget @@ panel :> root @@ t1 :> panel @@ t2 :> panel
=============================================================================
