------------------------------ MODULE MCExamWeb ------------------------------
(* Instances of ExamWeb for TLC: the papers and tabs of its configurations. *)
EXTENDS ExamWeb, TLC

TwoQuestions == <<{"q1"}, {"q2"}>>

Untimed == <<0, 0>>

(* One tab to the end of the sitting, or two in rough conditions for as    *)
(* long as it takes them to use one idempotency key.                       *)
Calm(t) == [screens |-> {t}, rough |-> FALSE, versions |-> 4, retries |-> 1]
Rough == [screens |-> Tabs, rough |-> TRUE, versions |-> 2, retries |-> 0]
CalmOrRough == {Calm(t) : t \in Tabs} \cup {Rough}

(* Devices are alike: nothing but their names tells them apart.            *)
Devices == Permutations(Tabs)
=============================================================================
