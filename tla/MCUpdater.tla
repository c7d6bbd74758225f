----------------------------- MODULE MCUpdater ------------------------------
(* Instances of Updater for TLC. *)
EXTENDS Updater

MCLowTicks == {0, 2}
MCLivePeriods == {0, 1}
MCOneTick == {2}
\* The proofs about real time assume that the clock does not make a full turn
\* between two updates; so it is in both instances.
ASSUME MCClockIsSlow == \E wait \in 0 .. Modulus : ClockIsSlow(1, wait)

Symmetry == Permutations(Updateables)
=============================================================================
