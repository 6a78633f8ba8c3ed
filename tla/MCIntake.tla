------------------------------ MODULE MCIntake ------------------------------
(* Instances of Intake for TLC. *)
EXTENDS IntakeProps, TLC

CONSTANT c1
=============================================================================
