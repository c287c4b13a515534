--------------------------- MODULE MCAssessments ---------------------------
(* Small instances of Assessments for TLC. *)
EXTENDS Assessments

CONSTANT pupil

=============================================================================
