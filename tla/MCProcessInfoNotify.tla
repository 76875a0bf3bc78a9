------------------------- MODULE MCProcessInfoNotify -------------------------
(* An instance of ProcessInfoNotify for TLC. *)
EXTENDS ProcessInfoNotify

MCInitial == <<"exec">>

=============================================================================
