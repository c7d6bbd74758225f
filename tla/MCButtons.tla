----------------------------- MODULE MCButtons ------------------------------
(* Instances of Buttons for TLC: two choices of a group, and a toggle. *)
EXTENDS Buttons, TLC

CONSTANTS first, second, toggle, group

\* The program hides no button that is pressed.
MCUserCalls ==
    ({"setChecked"} \X {first, second})
        \cup ({"setVisible"} \X {first, toggle})

MCChildren == << first, second, toggle >>

MCGroupOf == first :> group @@ second :> group @@ toggle :> NoGroup
=============================================================================
