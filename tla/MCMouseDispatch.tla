-------------------------- MODULE MCMouseDispatch ---------------------------
(* Instances of MouseDispatch for TLC. *)
EXTENDS MouseDispatch

CONSTANTS root, box, a, b, p, q

MCChildren == root :> <<b, box>> @@ box :> <<a>>

\* a leaves the tree and comes back, or not; its container may be disabled.
TreeProgram ==
    [calls |-> ({"add", "remove", "makeTopmost", "destroy", "setVisible"}
                    \X {a}) \cup {<<"setEnabled", box>>},
     pointers |-> {p}, clicks |-> 2]

\* Widgets move while two pointers are over them, and containers are laid out.
MoveProgram ==
    [calls |-> ({"move"} \X {a, b}) \cup ({"layOut"} \X {root, box}),
     pointers |-> {p, q}, clicks |-> 1]

\* A widget is taken out after its container was laid out.
LayOutProgram ==
    [calls |-> ({"remove"} \X {a, b}) \cup ({"layOut"} \X {root, box}),
     pointers |-> {p}, clicks |-> 1]

MCPrograms == {TreeProgram, MoveProgram}
MCLayOutPrograms == {LayOutProgram}
=============================================================================
