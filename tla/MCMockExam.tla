----------------------------- MODULE MCMockExam -----------------------------
(* A small instance of MockExam for TLC. *)
EXTENDS MockExam

CONSTANT ann

\* A question on each side of the break, and a unit of time for every phase.
BreakQuestions ==
  [m \in Modules |-> CASE m = "ENGLISH_M2" -> {1} [] m = "MATH_M1" -> {2} [] OTHER -> {}]
UnitLimits == [f \in Phases |-> 1]

\* A room and no practice, or practice and a room that was called off.
RoomOrPractice == {<<FALSE, "OPEN">>, <<TRUE, "CANCELLED">>}

=============================================================================
