---------------------------- MODULE ExamServer ----------------------------
(***************************************************************************)
(* The server side of one student sitting one paper: the attempt rows of   *)
(* that (student, practice_test) pair, the transactions of the website's   *)
(* views (exams/views.py) and of the Windows app's API                     *)
(* (desktop/v1/pastpapers.py) on them, and the scoring queue.              *)
(*                                                                         *)
(* A transaction that holds the row lock is one step.  What happens        *)
(* outside one is a step of its own: the gap between a commit and the      *)
(* enqueue that follows it, the three transactions of create, the worker.  *)
(* Requests carry any arguments a client could have been served, in any    *)
(* order and any number of times: delay, loss, duplication and reordering  *)
(* on the way need no further machinery here.  ExamWeb adds the clients.   *)
(*                                                                         *)
(* Faulty forms: NeverStale, NeverOffTarget, StartViewAnytime,             *)
(* AbandonedInPlace, AbandonedSilently, UnpausedKeepingMark,               *)
(* LiveOnceStarted, FutureTargetWhileRunning, AdmittedIfReopened,          *)
(* CommitInTxOnly, ScoreAttemptBlind.                                      *)
(***************************************************************************)
EXTENDS AttemptEngine

CONSTANTS
  MaxAttempts,          \* bound: rows of this student on this paper
  IsMock,               \* the paper is a section of a mock exam
  PracticeTest,         \* the paper offers the untimed choice
  Clients,              \* the clients in use: the website, the Windows app
  Pauses,               \* where pause is called: nowhere, after the start, anywhere
  Crashes,              \* what may die between two steps: requests, workers
  PointerLosses,        \* bound: module rows deleted under a running attempt
  MaxCreates,           \* bound: create requests between their transactions
  MaxVersion,           \* bound: version_number written by client requests
  MaxJobs,              \* bound: jobs per attempt the requeue command adds to
  MaxTime               \* bound: the clock

Attempts == 1 .. MaxAttempts
NoVersion == -1

ASSUME MaxAttemptsAssumption == MaxAttempts \in Nat \ {0}
ASSUME FlagsAssumption == {IsMock, PracticeTest} \subseteq BOOLEAN
ASSUME ClientsAssumption ==
  /\ Clients \subseteq {"web", "windows"}
  /\ Crashes \subseteq {"request", "worker"}
  /\ Pauses \in {"nowhere", "after start", "anywhere"}
ASSUME BoundsAssumption ==
  {PointerLosses, MaxCreates, MaxVersion, MaxJobs, MaxTime} \subseteq Nat

VARIABLES
  rows,        \* rows[a]: the attempt row with id a
  jobs,        \* jobs[a]: score_attempt_async(a) messages in the broker
  pending,     \* attempts whose request has committed but not yet enqueued
  creating,    \* create requests by the transaction they run next
  outcome,     \* outcome[a][k]: stored v1.submit outcome of the key for Module k
  announced,   \* announced[a]: completion signals sent (certificate, points)
  losses,      \* module rows deleted so far
  now

vars == <<rows, jobs, pending, creating, outcome, announced, losses, now>>

Phases == {"insert", "reuse"}
Outcomes == {"none", "applied", "stale"}

TypeOK ==
  /\ rows \in [Attempts -> Row]
  /\ jobs \in [Attempts -> Nat]
  /\ pending \subseteq Attempts
  /\ creating \in [Phases -> Nat]
  /\ outcome \in [Attempts -> [Modules -> Outcomes]]
  /\ announced \in [Attempts -> Nat]
  /\ losses \in Nat
  /\ now \in Nat

Init ==
  /\ rows = [a \in Attempts |-> BlankRow]
  /\ jobs = [a \in Attempts |-> 0]
  /\ pending = {}
  /\ creating = [p \in Phases |-> 0]
  /\ outcome = [a \in Attempts |-> [k \in Modules |-> "none"]]
  /\ announced = [a \in Attempts |-> 0]
  /\ losses = 0
  /\ now = 0

Exists(a) == rows[a].state # Absent
Occupied == \E a \in Attempts : Occupies(rows[a])

-----------------------------------------------------------------------------
(* What a view does to the locked row: the HTTP status it answers, the row *)
(* it leaves, and whether and where it enqueues scoring.                   *)

Reply(status, row, enqueue) == [status |-> status, row |-> row, enqueue |-> enqueue]

(* The views that look for a promotion by the repair enqueue for it.       *)
Promoted(before, after) == before.state # "SCORING" /\ after.state = "SCORING"

When(condition, place) == IF condition THEN place ELSE "no"

NeverStale(r, expected) == FALSE

Stale(r, expected) == expected \notin {NoVersion, r.version}

SaveAttempt(r, expected, body) ==
  CASE r.module = NoModule -> Reply(400, r, "no")
    [] r.module # NoModule /\ Stale(r, expected) -> Reply(409, r, "no")
    [] OTHER ->
         IF ~Expired(r, now)
         THEN Reply(200, Bumped([r EXCEPT !.sheet[r.module] = body]), "no")
         ELSE IF MaySubmit(r)
         THEN Reply(200, HandIn(r, r.sheet[r.module] \cup body, now),
                    When(r.module = 2, "after_commit"))
         ELSE Reply(500, r, "no")

NeverOffTarget(r, target) == FALSE

(* The submit names a module that is not the one being sat.                *)
OffTarget(r, target) == target \notin {NoModule, r.module}

SubmitModule(r, target, body) ==
  LET healed == Autoheal(r, now)
  IN CASE OffTarget(healed, target) -> Reply(200, healed, "no")
       [] ~OffTarget(healed, target) /\ healed.module = NoModule ->
            Reply(400, healed, "no")
       [] OTHER ->
            IF MaySubmit(healed)
            THEN LET done == HandIn(healed, healed.sheet[healed.module] \cup body, now)
                 IN Reply(200, done, When(done.state = "SCORING", "in_tx"))
            ELSE Reply(500, r, "no")

ResumeAttempt(r) ==
  LET healed == Autoheal(r, now)
  IN Reply(200, StartAttempt(healed, now), When(Promoted(r, healed), "after_commit"))

StartViewAnytime(r, untimed) ==
  Reply(200, StartAttempt([r EXCEPT !.timed = @ /\ ~(untimed /\ PracticeTest)], now), "no")

StartView(r, untimed) ==
  LET healed == Autoheal(r, now)
      chosen == IF untimed /\ PracticeTest /\ healed.state = "NOT_STARTED"
                THEN [healed EXCEPT !.timed = FALSE]
                ELSE healed
  IN Reply(200, StartAttempt(chosen, now), When(Promoted(r, healed), "after_commit"))

StartModuleView(r, k) ==
  LET healed == Autoheal(r, now)
  IN CASE Expired(r, now) /\ r.state \in Running -> Reply(409, r, "no")
       [] ~(Expired(r, now) /\ r.state \in Running) /\ k = 1 ->
            Reply(200, StartAttempt(healed, now), "no")
       [] OTHER -> IF healed.state = "MODULE_2_ACTIVE" /\ healed.module = 2
                   THEN Reply(200, healed, "no")
                   ELSE Reply(400, r, "no")

Reopened(r) ==
  LET healed == Autoheal(r, now)
  IN Reply(200,
           IF IsMock \/ healed.state # "NOT_STARTED" THEN StartAttempt(healed, now) ELSE healed,
           When(Promoted(r, healed), "in_tx"))

AbandonedInPlace(r) ==
  IF r.state = "MODULE_2_ACTIVE"
  THEN Bumped([r EXCEPT !.state = "ABANDONED", !.checkpoint = "MODULE_2_ACTIVE"])
  ELSE r

AbandonedSilently(r) ==
  IF r.state = "MODULE_2_ACTIVE"
  THEN [r EXCEPT !.state = "ABANDONED", !.checkpoint = "MODULE_2_ACTIVE", !.module = NoModule]
  ELSE r

Abandoned(r) ==
  IF r.state = "MODULE_2_ACTIVE" /\ ~r.completed
  THEN Bumped([r EXCEPT !.state = "ABANDONED", !.checkpoint = "MODULE_2_ACTIVE",
                        !.module = NoModule])
  ELSE r

Paused(r) == IF r.pauseAt = NoTime THEN [r EXCEPT !.pauseAt = now] ELSE r

UnpausedKeepingMark(r) ==
  IF r.module = NoModule THEN r ELSE [r EXCEPT !.paused[r.module] = @ + InFlightPause(r, now)]

Unpaused(r) ==
  LET stopped == [r EXCEPT !.pauseAt = NoTime]
  IN IF r.module = NoModule
     THEN stopped
     ELSE [stopped EXCEPT !.paused[r.module] = @ + InFlightPause(r, now)]

DesktopOpened(r, start) ==
  LET healed == Autoheal(r, now)
      begins == \/ healed.state \in Running \cup {"ABANDONED"}
                \/ healed.state = "NOT_STARTED" /\ start
  IN Reply(200, IF begins THEN StartAttempt(healed, now) ELSE healed,
           When(Promoted(r, healed), "after_commit"))

LiveOnceStarted(r, k) == r.startedAt[k] # NoTime

Live(r, k) == r.state \in Running /\ r.module = k

(* A Module-1 hand-in of a sitting whose start never arrived starts it.    *)
DesktopPrepared(r, k) ==
  LET healed == Autoheal(r, now)
  IN IF healed.state = "NOT_STARTED" /\ k = 1 THEN StartAttempt(healed, now) ELSE healed

DesktopSubmitted(r, k, answered, cleared) ==
  LET current == DesktopPrepared(r, k)
      done    == HandIn(current, (current.sheet[k] \ cleared) \cup answered, now)
  IN IF Live(current, k)
     THEN Reply(200, done, When(done.state = "SCORING", "after_commit"))
     ELSE Reply(200, current, When(Promoted(r, current), "after_commit"))

FutureTargetWhileRunning(r, k) == r.state \in Running /\ k > r.module

(* A module the attempt has not reached: its refusal is not remembered.    *)
FutureTarget(r, k) ==
  \/ r.state \in {"NOT_STARTED", "ABANDONED"}
  \/ r.state \in Running /\ r.module # NoModule /\ k > r.module

-----------------------------------------------------------------------------
(* Committing a transaction.  The unique constraint refuses a row that     *)
(* would become the student's second active one (rolled back: no step).    *)

AdmittedIfReopened(a, row) ==
  Exists(a) \/ (Occupies(row) => \A b \in Attempts \ {a} : ~Occupies(rows[b]))

Admitted(a, row) ==
  Occupies(row) => \A b \in Attempts \ {a} : ~Occupies(rows[b])

CommitInTxOnly(a, o) ==
  /\ Admitted(a, o.row)
  /\ rows' = [rows EXCEPT ![a] = o.row]
  /\ jobs' = IF o.enqueue = "in_tx" THEN [jobs EXCEPT ![a] = @ + 1] ELSE jobs
  /\ pending' = pending

Commit(a, o) ==
  /\ Admitted(a, o.row)
  /\ rows' = [rows EXCEPT ![a] = o.row]
  /\ jobs' = IF o.enqueue = "in_tx" THEN [jobs EXCEPT ![a] = @ + 1] ELSE jobs
  /\ pending' = IF o.enqueue = "after_commit" THEN pending \cup {a} ELSE pending

(* A client's request, within the bound on version numbers.                *)
Request(a, o) ==
  /\ Exists(a)
  /\ o.row.version <= MaxVersion
  /\ Commit(a, o)
  /\ UNCHANGED <<announced, losses, now>>

ViewRequest(a, o) == Request(a, o) /\ UNCHANGED <<creating, outcome>>

-----------------------------------------------------------------------------
(* The website's views.                                                    *)

AbandonStaleModule2 ==
  /\ ~IsMock
  /\ creating["insert"] + creating["reuse"] < MaxCreates
  /\ \A a \in Attempts : Abandoned(rows[a]).version <= MaxVersion
  /\ rows' = [a \in Attempts |-> Abandoned(rows[a])]
  /\ creating' = [creating EXCEPT !["insert"] = @ + 1]
  /\ UNCHANGED <<jobs, pending, outcome, announced, losses, now>>

(* A mock section, or a native client: nothing is abandoned.               *)
CreateWithoutAbandoning ==
  /\ creating["insert"] + creating["reuse"] < MaxCreates
  /\ creating' = [creating EXCEPT !["insert"] = @ + 1]
  /\ UNCHANGED <<rows, jobs, pending, outcome, announced, losses, now>>

NextId(a) == ~Exists(a) /\ \A b \in Attempts : b < a => Exists(b)

CreateInsert ==
  \E a \in Attempts :
    /\ creating["insert"] > 0
    /\ NextId(a)
    /\ Commit(a, Reply(201, Reopened(FreshRow).row, "no"))
    /\ creating' = [creating EXCEPT !["insert"] = @ - 1]
    /\ UNCHANGED <<outcome, announced, losses, now>>

(* IntegrityError: rolled back to the savepoint.                           *)
CreateRefused ==
  /\ creating["insert"] > 0
  /\ Occupied
  /\ creating' = [creating EXCEPT !["insert"] = @ - 1, !["reuse"] = @ + 1]
  /\ UNCHANGED <<rows, jobs, pending, outcome, announced, losses, now>>

(* The row the refused create falls back on: the active one, or, when that *)
(* has been completed since, the newest abandoned one.                     *)
Newest(a, S) == a \in S /\ \A b \in S : b <= a

Reusable ==
  LET active    == {a \in Attempts : Occupies(rows[a])}
      abandoned == {a \in Attempts : rows[a].state = "ABANDONED"}
  IN IF active # {} THEN active ELSE abandoned

CreateReuse ==
  \E a \in Attempts :
    /\ creating["reuse"] > 0
    /\ Newest(a, Reusable)
    /\ Request(a, Reopened(rows[a]))
    /\ creating' = [creating EXCEPT !["reuse"] = @ - 1]
    /\ UNCHANGED outcome

(* Nothing to fall back on, or the process dies: the request is lost.      *)
CreateFails ==
  \E p \in Phases :
    /\ creating[p] > 0
    /\ "request" \in Crashes \/ (p = "reuse" /\ Reusable = {})
    /\ creating' = [creating EXCEPT ![p] = @ - 1]
    /\ UNCHANGED <<rows, jobs, pending, outcome, announced, losses, now>>

Resume(a) == ViewRequest(a, ResumeAttempt(rows[a]))

Start(a) == \E untimed \in BOOLEAN : ViewRequest(a, StartView(rows[a], untimed))

StartModule(a) == \E k \in Modules : ViewRequest(a, StartModuleView(rows[a], k))

(* The answers a client may send: of one module, or what it was served of  *)
(* a sheet that a late save filled with the other's answers, and its own.  *)
Bodies == SUBSET AllQuestions

Submit(a) ==
  \E target \in Modules \cup {NoModule}, body \in Bodies :
    ViewRequest(a, SubmitModule(rows[a], target, body))

Save(a) ==
  \E expected \in 0 .. rows[a].version \cup {NoVersion}, body \in Bodies :
    ViewRequest(a, SaveAttempt(rows[a], expected, body))

(* The completed check reads the row before the lock, so it guards nothing.*)
Pause(a) ==
  /\ rows[a].timed
  /\ rows[a].startedAt[1] = NoTime => Pauses = "anywhere"
  /\ ViewRequest(a, Reply(200, Paused(rows[a]), "no"))

ResumePause(a) ==
  /\ rows[a].timed
  /\ ViewRequest(a, Reply(200, Unpaused(rows[a]), "no"))

-----------------------------------------------------------------------------
(* The Windows app.                                                        *)

(* open looks for a sitting to continue before it inserts, without a lock: *)
(* only the constraint keeps it from inserting beside one.                 *)
DesktopCreate ==
  \E a \in Attempts :
    /\ NextId(a)
    /\ Commit(a, Reply(200, FreshRow, "no"))
    /\ UNCHANGED <<creating, outcome, announced, losses, now>>

(* Open picks its row before locking it; any row may have been picked.     *)
DesktopOpen(a) ==
  \E start \in BOOLEAN : ViewRequest(a, DesktopOpened(rows[a], start))

DesktopStart(a) == ViewRequest(a, ResumeAttempt(rows[a]))

DesktopSync(a) ==
  \E k \in Modules : \E answered, cleared \in SUBSET Question[k] :
    /\ Live(rows[a], k)
    /\ ViewRequest(a, Reply(200,
         Bumped([rows[a] EXCEPT !.sheet[k] = (@ \ cleared) \cup answered]), "no"))

(* A stored outcome is replayed: that request takes no step here.          *)
DesktopSubmit(a) ==
  \E k \in Modules : \E answered, cleared \in SUBSET Question[k] :
    LET current == DesktopPrepared(rows[a], k)
    IN /\ outcome[a][k] = "none"
       /\ Request(a, DesktopSubmitted(rows[a], k, answered, cleared))
       /\ outcome' = [outcome EXCEPT ![a][k] =
                        CASE Live(current, k) -> "applied"
                          [] ~Live(current, k) /\ FutureTarget(current, k) -> "none"
                          [] OTHER -> "stale"]
       /\ UNCHANGED creating

DesktopPause(a) ==
  /\ rows[a].state \in Running
  /\ ViewRequest(a, Reply(200, Paused(rows[a]), "no"))

DesktopResume(a) == ViewRequest(a, Reply(200, Unpaused(rows[a]), "no"))

-----------------------------------------------------------------------------
(* Behind the requests.                                                    *)

EnqueueAfterCommit(a) ==
  /\ a \in pending
  /\ pending' = pending \ {a}
  /\ jobs' = [jobs EXCEPT ![a] = @ + 1]
  /\ UNCHANGED <<rows, creating, outcome, announced, losses, now>>

(* The process dies, or the broker refuses, after the commit.              *)
EnqueueLost(a) ==
  /\ "request" \in Crashes
  /\ a \in pending
  /\ pending' = pending \ {a}
  /\ UNCHANGED <<rows, jobs, creating, outcome, announced, losses, now>>

ScoreAttemptBlind(a) ==
  /\ jobs[a] > 0
  /\ jobs' = [jobs EXCEPT ![a] = @ - 1]
  /\ rows' = [rows EXCEPT ![a] = CompleteTest(@)]
  /\ announced' = [announced EXCEPT ![a] = @ + 1]
  /\ UNCHANGED <<pending, creating, outcome, losses, now>>

ScoreAttempt(a) ==
  LET scores == rows[a].state = "SCORING"
  IN /\ jobs[a] > 0
     /\ jobs' = [jobs EXCEPT ![a] = @ - 1]
     /\ rows' = IF scores THEN [rows EXCEPT ![a] = CompleteTest(@)] ELSE rows
     /\ announced' = IF scores THEN [announced EXCEPT ![a] = @ + 1] ELSE announced
     /\ UNCHANGED <<pending, creating, outcome, losses, now>>

(* Messages are acknowledged on delivery: a dying worker loses its own.    *)
WorkerDies(a) ==
  /\ "worker" \in Crashes
  /\ jobs[a] > 0
  /\ jobs' = [jobs EXCEPT ![a] = @ - 1]
  /\ UNCHANGED <<rows, pending, creating, outcome, announced, losses, now>>

(* requeue_stuck_scoring_attempts, run by hand.                            *)
RequeueStuck(a) ==
  /\ rows[a].state = "SCORING"
  /\ jobs[a] < MaxJobs
  /\ jobs' = [jobs EXCEPT ![a] = @ + 1]
  /\ UNCHANGED <<rows, pending, creating, outcome, announced, losses, now>>

(* current_module is ON DELETE SET NULL.                                   *)
LosePointer(a) ==
  /\ losses < PointerLosses
  /\ rows[a].module # NoModule
  /\ rows' = [rows EXCEPT ![a].module = NoModule]
  /\ losses' = losses + 1
  /\ UNCHANGED <<jobs, pending, creating, outcome, announced, now>>

Tick ==
  /\ now < MaxTime
  /\ now' = now + 1
  /\ UNCHANGED <<rows, jobs, pending, creating, outcome, announced, losses>>

-----------------------------------------------------------------------------
WebView(a) ==
  /\ "web" \in Clients
  /\ \/ Resume(a) \/ Start(a) \/ StartModule(a) \/ Submit(a) \/ Save(a)
     \/ Pauses # "nowhere" /\ (Pause(a) \/ ResumePause(a))

DesktopView(a) ==
  /\ "windows" \in Clients
  /\ \/ DesktopOpen(a) \/ DesktopStart(a) \/ DesktopSync(a) \/ DesktopSubmit(a)
     \/ Pauses # "nowhere" /\ (DesktopPause(a) \/ DesktopResume(a))

Creation ==
  \/ "web" \in Clients /\ AbandonStaleModule2
  \/ "windows" \in Clients /\ DesktopCreate
  \/ CreateWithoutAbandoning \/ CreateInsert
  \/ CreateRefused \/ CreateReuse \/ CreateFails

Background(a) ==
  \/ EnqueueAfterCommit(a) \/ EnqueueLost(a) \/ ScoreAttempt(a)
  \/ WorkerDies(a) \/ RequeueStuck(a) \/ LosePointer(a)

Next ==
  \/ Creation
  \/ Tick
  \/ \E a \in Attempts : WebView(a) \/ DesktopView(a) \/ Background(a)

Spec == Init /\ [][Next]_vars

(* The worker keeps taking messages and a live process finishes its        *)
(* request; nobody promises that a student does anything.                  *)
Fairness ==
  \A a \in Attempts : WF_vars(EnqueueAfterCommit(a)) /\ WF_vars(ScoreAttempt(a))

FairSpec == Spec /\ Fairness

-----------------------------------------------------------------------------
(* Properties.                                                             *)

(* The code's own audit finds nothing to repair in any row the engine      *)
(* itself produced: the pointer names the module of the state, is null     *)
(* outside the running states, and completion is flagged exactly when      *)
(* reached (_assert_invariants, audit_attempt_invariants).                 *)
EngineConsistent ==
  \A a \in Attempts :
    /\ AuditClean(rows[a])
    /\ rows[a].state \notin Running => rows[a].module = NoModule

(* Neither double clicks on create, nor the app and the website together,  *)
(* nor the resume of an abandoned attempt leave the student with two       *)
(* attempts in progress on one paper.                                      *)
OneActive ==
  \A a, b \in Attempts : Occupies(rows[a]) /\ Occupies(rows[b]) => a = b

(* However many jobs were queued or requeued for an attempt, it was graded *)
(* once, on the answers it still holds, and its completion (certificate,   *)
(* homework hand-in, points) was announced exactly once.                   *)
GradedOnce ==
  \A a \in Attempts :
    /\ announced[a] = IF rows[a].completed THEN 1 ELSE 0
    /\ rows[a].score = IF rows[a].completed THEN {rows[a].sheet} ELSE NoScore

Over(r, k) ==
  \/ r.state \in Finished
  \/ k = 1 /\ r.startedAt[2] # NoTime

(* desktop/v1/idem.py: an outcome is remembered for a hand-in key only     *)
(* when that module is really over, so a replay never stands in for a      *)
(* hand-in that still has to happen ("module 2 never handed in").          *)
RememberedMeansOver ==
  \A a \in Attempts, k \in Modules : outcome[a][k] # "none" => Over(rows[a], k)

(* Pausing buys back only time that has passed in the module: the credit   *)
(* never exceeds the time since the module's clock started.                *)
PauseCreditBounded ==
  \A a \in Attempts :
    LET r == rows[a]
    IN r.module # NoModule =>
         PauseCredit(r, r.module, now) <= now - r.startedAt[r.module]

(* A sitting waiting for its score has a job, or a request about to queue  *)
(* one: the reason scoring happens at all.                                 *)
ScoringIsQueued ==
  \A a \in Attempts : rows[a].state = "SCORING" => jobs[a] > 0 \/ a \in pending

(* version_number moves on with every change of state, answers or score,   *)
(* so a client holding an old number is told so.                           *)
VersionTracksChanges ==
  [][\A a \in Attempts :
       LET r == rows[a]
           s == rows'[a]
       IN (/\ <<r.state, r.sheet, r.score>> # <<s.state, s.sheet, s.score>>
           /\ r.state # Absent)
            => s.version > r.version]_vars

(* Answers are written only to the module being sat: a module that is      *)
(* over, not begun, abandoned, in scoring or completed keeps its sheet.    *)
AnswersOnlyWhileSitting ==
  [][\A a \in Attempts, k \in Modules :
       rows'[a].sheet[k] # rows[a].sheet[k] =>
         \/ rows[a].state = ActiveIn(k)
         \/ rows[a].state = "NOT_STARTED" /\ k = 1]_vars

(* A module's clock, once started, is never restarted, whatever is         *)
(* resumed, repaired, abandoned or restored (except that the single-module *)
(* shortcut stamps Module 2 as it hands the paper in).                     *)
ClocksNeverRestart ==
  [][\A a \in Attempts, k \in Modules :
       rows[a].startedAt[k] # NoTime => rows'[a].startedAt[k] = rows[a].startedAt[k]]_vars

(* The clock choice of a practice test is settled once Module 1 starts.    *)
TimedChoiceSettled ==
  [][\A a \in Attempts :
       rows[a].startedAt[1] # NoTime => rows'[a].timed = rows[a].timed]_vars

(* Every handed-in sitting is eventually scored.                           *)
ScoringCompletes ==
  \A a \in Attempts : rows[a].state = "SCORING" ~> rows[a].state = "COMPLETED"

-----------------------------------------------------------------------------
(* What all this implements: the life of a sitting, ExamLifecycle.         *)

PhaseOf(state) ==
  CASE state = Absent -> "absent"
    [] state = "NOT_STARTED" -> "welcome"
    [] state = "MODULE_1_ACTIVE" -> "module 1"
    [] state = "MODULE_2_ACTIVE" -> "module 2"
    [] state = "ABANDONED" -> "shelved"
    [] state = "COMPLETED" -> "graded"
    [] OTHER -> "handed in"

Lifecycle == INSTANCE ExamLifecycle WITH
  EmptySheets <- BlankRow.sheet,
  OneModule <- SingleModule,
  phase <- [a \in Attempts |-> PhaseOf(rows[a].state)],
  sheet <- [a \in Attempts |-> rows[a].sheet],
  grade <- [a \in Attempts |-> rows[a].score]

(* Whatever the clients, the clock, the repairs and the queue do, the      *)
(* sittings go through the life ExamLifecycle promises, and the ones       *)
(* handed in are graded.                                                   *)
ImplementsLifecycle == Lifecycle!Spec
=============================================================================
