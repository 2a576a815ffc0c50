------------------------------ MODULE MCStageIn ------------------------------
(***************************************************************************)
(* Small instances of StageIn.                                             *)
(***************************************************************************)
EXTENDS StageIn

MCServices == 1..3
MCSlots == {1, 2, 3}
==============================================================================
