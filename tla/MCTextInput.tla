----------------------------- MODULE MCTextInput -----------------------------
(* Instances of TextInput for TLC. *)
EXTENDS TextInput, TLC

\* A narrow letter, a wide one, and the space.
MCAdvance == "i" :> 1 @@ "m" :> 4 @@ " " :> 2
=============================================================================
