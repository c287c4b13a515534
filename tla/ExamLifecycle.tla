--------------------------- MODULE ExamLifecycle ---------------------------
(***************************************************************************)
(* What the exam engine promises about a student's sittings of one paper,  *)
(* whatever requests, clients, timers, repairs and jobs are behind them:   *)
(* a sitting moves forward only, one at a time is open, answers change in  *)
(* the module being sat, a shelved sitting comes back where it was, and    *)
(* the grade is that of the sheets handed in.  ExamServer implements it.   *)
(***************************************************************************)
CONSTANTS
  Attempts,     \* the sittings there may be
  Modules,      \* 1 and 2
  Sheets,       \* the answer sheets of a sitting
  EmptySheets,  \* the one nothing is answered on
  OneModule     \* the paper is handed in after Module 1

VARIABLES
  phase,        \* phase[a]: where sitting a stands
  sheet,        \* sheet[a]: its answers, by module
  grade         \* grade[a]: the sheets it was graded on, none or one

vars == <<phase, sheet, grade>>

Sitting(k) == IF k = 1 THEN "module 1" ELSE "module 2"

Open(a) == phase[a] \notin {"absent", "shelved", "graded"}

Vacant == \A a \in Attempts : ~Open(a)

Init ==
  /\ phase = [a \in Attempts |-> "absent"]
  /\ sheet = [a \in Attempts |-> EmptySheets]
  /\ grade = [a \in Attempts |-> {}]

Moves(a, from, to) == phase[a] = from /\ phase' = [phase EXCEPT ![a] = to]

(* Only the sheet of Module k of sitting a may change.                     *)
Writes(a, k) ==
  \E s \in Sheets :
    /\ \A j \in Modules \ {k} : s[j] = sheet[a][j]
    /\ sheet' = [sheet EXCEPT ![a] = s]

Enrol(a) ==
  /\ Vacant
  /\ Moves(a, "absent", "welcome") \/ Moves(a, "absent", Sitting(1))
  /\ UNCHANGED <<sheet, grade>>

Begin(a) == Moves(a, "welcome", Sitting(1)) /\ UNCHANGED <<sheet, grade>>

Answer(a) ==
  \E k \in Modules : phase[a] = Sitting(k) /\ Writes(a, k) /\ UNCHANGED <<phase, grade>>

(* A hand-in that reaches the server before the start it followed starts   *)
(* the sitting by the same step.                                           *)
HandInModule1(a) ==
  LET onward == IF OneModule THEN "handed in" ELSE Sitting(2)
  IN /\ Moves(a, Sitting(1), onward) \/ Moves(a, "welcome", onward)
     /\ Writes(a, 1)
     /\ UNCHANGED grade

HandInModule2(a) == Moves(a, Sitting(2), "handed in") /\ Writes(a, 2) /\ UNCHANGED grade

Shelve(a) == Moves(a, Sitting(2), "shelved") /\ UNCHANGED <<sheet, grade>>

Unshelve(a) == Vacant /\ Moves(a, "shelved", Sitting(2)) /\ UNCHANGED <<sheet, grade>>

Grade(a) ==
  /\ Moves(a, "handed in", "graded")
  /\ grade' = [grade EXCEPT ![a] = {sheet[a]}]
  /\ UNCHANGED sheet

Next ==
  \E a \in Attempts :
    \/ Enrol(a) \/ Begin(a) \/ Answer(a) \/ HandInModule1(a) \/ HandInModule2(a)
    \/ Shelve(a) \/ Unshelve(a) \/ Grade(a)

Spec == Init /\ [][Next]_vars /\ \A a \in Attempts : WF_vars(Grade(a))
=============================================================================
