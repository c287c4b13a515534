---------------------------- MODULE MCExamServer ----------------------------
(* Instances of ExamServer for TLC: the papers the configurations use.     *)
EXTENDS ExamServer

TwoModules == <<{"q1"}, {"q2"}>>
OneModule == <<{"q1"}, {}>>

(* For properties that never ask to which module an answer belongs.        *)
TwoModulesAlike == <<{"q"}, {"q"}>>

Untimed == <<0, 0>>
Minute == <<1, 1>>
TwoMinutes == <<2, 2>>
=============================================================================
