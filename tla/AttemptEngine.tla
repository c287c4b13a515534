--------------------------- MODULE AttemptEngine ---------------------------
(***************************************************************************)
(* One row of the table test_attempts (backend/exams/models.py,            *)
(* TestAttempt) and the methods that change it, as functions from a row to *)
(* a row.  Every one of them runs while the caller holds the row lock      *)
(* (select_for_update), so conditional_attempt_update never misses and a   *)
(* method is one step.                                                     *)
(*                                                                         *)
(* Abstractions: an answer sheet is the set of questions it answers;       *)
(* completed_modules, flags, audit rows and the submitted_at/started_at    *)
(* stamps no decision reads are left out; current_module_start_time always *)
(* equals the anchor of the current module, so the anchor stands for both. *)
(*                                                                         *)
(* AnchorNow and RestartTarget are faulty forms of the definition that     *)
(* follows them, as are the operators the other modules name in their      *)
(* headers: each breaks a property (see README.md).                        *)
(***************************************************************************)
EXTENDS Integers

CONSTANTS
  Question,           \* Question[k]: the questions of Module k
  Limit,              \* Limit[k]: time limit of Module k, 0 when none is set
  DeclaresTwoModules  \* a midterm whose midterm_module_count is at least 2

Modules == {1, 2}
NoModule == 0
NoTime == -1
NoScore == {}

AllQuestions == Question[1] \cup Question[2]

ASSUME QuestionAssumption == DOMAIN Question = Modules
ASSUME LimitAssumption == Limit \in [Modules -> Nat]
ASSUME DeclaresAssumption == DeclaresTwoModules \in BOOLEAN

Running == {"MODULE_1_ACTIVE", "MODULE_2_ACTIVE"}
LegacySubmitted == {"MODULE_1_SUBMITTED", "MODULE_2_SUBMITTED"}
Finished == {"SCORING", "COMPLETED"}
States == Running \cup Finished \cup LegacySubmitted \cup {"NOT_STARTED", "ABANDONED"}
Absent == "ABSENT"    \* the row has not been inserted yet

Sheets == [Modules -> SUBSET AllQuestions]

Row == [state      : States \cup {Absent},
        module     : Modules \cup {NoModule},
        version    : Nat,
        completed  : BOOLEAN,
        timed      : BOOLEAN,
        startedAt  : [Modules -> Nat \cup {NoTime}],
        paused     : [Modules -> Nat],
        pauseAt    : Nat \cup {NoTime},
        checkpoint : States \cup {""},
        sheet      : Sheets,
        score      : SUBSET Sheets]      \* the graded sheets; empty is null

BlankRow == [state |-> Absent, module |-> NoModule, version |-> 0, completed |-> FALSE,
             timed |-> TRUE, startedAt |-> [k \in Modules |-> NoTime],
             paused |-> [k \in Modules |-> 0], pauseAt |-> NoTime, checkpoint |-> "",
             sheet |-> [k \in Modules |-> {}], score |-> NoScore]

FreshRow == [BlankRow EXCEPT !.state = "NOT_STARTED"]

(* The partial unique constraint uniq_active_attempt_per_student_test. *)
Occupies(r) == r.state # Absent /\ ~r.completed /\ r.state # "ABANDONED"

ModuleOf(state) == IF state = "MODULE_1_ACTIVE" THEN 1 ELSE 2
ActiveIn(k) == IF k = 1 THEN "MODULE_1_ACTIVE" ELSE "MODULE_2_ACTIVE"

Bumped(r) == [r EXCEPT !.version = @ + 1]

-----------------------------------------------------------------------------
(* Timer: attempt_timing.py.                                               *)

Max0(n) == IF n > 0 THEN n ELSE 0

InFlightPause(r, now) == IF r.pauseAt = NoTime THEN 0 ELSE Max0(now - r.pauseAt)

PauseCredit(r, k, now) == r.paused[k] + InFlightPause(r, now)

Elapsed(r, k, now) == Max0(now - r.startedAt[k] - PauseCredit(r, k, now))

HasClock(r) == r.timed /\ r.module # NoModule /\ r.startedAt[r.module] # NoTime

Expired(r, now) ==
  HasClock(r) /\ Limit[r.module] > 0 /\ Elapsed(r, r.module, now) >= Limit[r.module]

-----------------------------------------------------------------------------
(* Transitions: the methods of TestAttempt.                                *)

AnchorNow(r, k, now) == now

Anchor(r, k, now) == IF r.startedAt[k] = NoTime THEN now ELSE r.startedAt[k]

SetActiveModule(r, k, now) ==
  [r EXCEPT !.module = k, !.startedAt[k] = Anchor(r, k, now)]

RestartTarget(checkpoint) == "MODULE_1_ACTIVE"

RestoreTarget(checkpoint) ==
  CASE checkpoint \in {"MODULE_2_ACTIVE", "MODULE_1_SUBMITTED"} -> "MODULE_2_ACTIVE"
    [] checkpoint \in {"SCORING", "MODULE_2_SUBMITTED"} -> "SCORING"
    [] OTHER -> "MODULE_1_ACTIVE"

Restored(r, now) ==
  LET target == RestoreTarget(r.checkpoint)
      there  == Bumped([r EXCEPT !.state = target])
  IN IF target \in Running
     THEN SetActiveModule(there, ModuleOf(target), now)
     ELSE [there EXCEPT !.module = NoModule]

StartAttempt(r, now) ==
  CASE r.completed \/ r.state = "COMPLETED" -> r
    [] r.state = "ABANDONED" -> Restored(r, now)
    [] r.state = "NOT_STARTED" ->
         SetActiveModule(Bumped([r EXCEPT !.state = "MODULE_1_ACTIVE"]), 1, now)
    [] r.state \in Running /\ r.module = NoModule ->
         SetActiveModule(Bumped(r), ModuleOf(r.state), now)
    [] OTHER -> r

(* A paper whose Module 2 has no questions is scored on Module 1 alone,    *)
(* unless it is a midterm that declares two modules.                       *)
SingleModule == Question[2] = {} /\ ~DeclaresTwoModules

SubmitModule1(r, answers, now) ==
  LET saved == Bumped([r EXCEPT !.sheet[1] = answers, !.pauseAt = NoTime])
  IN IF SingleModule
     THEN [saved EXCEPT !.state = "SCORING", !.module = NoModule, !.startedAt[2] = now]
     ELSE [SetActiveModule(saved, 2, now) EXCEPT
             !.state = "MODULE_2_ACTIVE",
             !.paused[1] = @ + InFlightPause(r, now)]

SubmitModule2(r, answers) ==
  Bumped([r EXCEPT !.sheet[2] = answers, !.state = "SCORING", !.module = NoModule])

(* submit_module_k raises unless the row is in the state of its pointer.   *)
MaySubmit(r) == r.module # NoModule /\ r.state = ActiveIn(r.module)

HandIn(r, answers, now) ==
  IF r.module = 1 THEN SubmitModule1(r, answers, now) ELSE SubmitModule2(r, answers)

CompleteTest(r) ==
  Bumped([r EXCEPT !.state = "COMPLETED", !.completed = TRUE, !.module = NoModule,
                   !.score = {r.sheet}])

-----------------------------------------------------------------------------
(* Runtime repair: engine_integrity.py.                                    *)

AuditClean(r) ==
  /\ r.completed <=> r.state = "COMPLETED"
  /\ r.state \in Running => r.module = ModuleOf(r.state)
  /\ r.state \in Finished => r.module = NoModule
  /\ r.state \in Finished \cup {"MODULE_2_ACTIVE", "MODULE_2_SUBMITTED"}
       => r.startedAt[1] # NoTime

HealedFlag(r) ==
  IF r.completed \/ r.state = "COMPLETED"
  THEN [r EXCEPT !.state = "COMPLETED", !.completed = TRUE, !.module = NoModule]
  ELSE r

HealedPointer(r, now) ==
  IF r.state \in Running THEN SetActiveModule(r, ModuleOf(r.state), now) ELSE r

HealedEmptyModule2(r) ==
  IF \/ r.state = "MODULE_2_ACTIVE" /\ Question[2] = {}
     \/ r.state \in Finished
  THEN [r EXCEPT !.state = IF @ = "MODULE_2_ACTIVE" THEN "SCORING" ELSE @,
                 !.module = NoModule]
  ELSE r

Autoheal(r, now) ==
  LET healed == HealedEmptyModule2(HealedPointer(HealedFlag(r), now))
  IN CASE AuditClean(r) -> r
       [] ~AuditClean(r) /\ healed = r /\ r.state \notin Running -> r
       [] OTHER -> Bumped(healed)
=============================================================================
