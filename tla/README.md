# TLA+ specifications of the platform's engines

The repository is a SAT preparation platform: a Django backend (`src/backend`), a Next.js
website (`src/frontend`), a Windows app (`src/desktop-native`), an iOS app and a lockdown
shell. These modules model the parts of it where several actors move one piece of state and a
mistake costs a student something: the *exam engine* and its runner, the *homework engine* and
its runner, the *live quiz*, the *mock exam* sat in a room or alone, and the *rewards and the
shop* that spends them. Paths without a
prefix are under `src/backend`.

## 1. The system

### Components, their state and operations

| Component | State | Operations | Where |
|---|---|---|---|
| Attempt engine | the row of `TestAttempt`: state, module pointer, `version_number`, clock anchors, pause marks, answers, score | `start_attempt`, `submit_module_1/2`, `complete_test`, restore from ABANDONED, timer, `autoheal_attempt_for_runtime` | `exams/models.py`, `attempt_timing.py`, `engine_integrity.py` |
| Exam API | transactions on the row; the three transactions of create | create, start, resume, start_module, submit_module, save_attempt, pause, resume_pause | `exams/views.py` |
| Past-paper API | outcome stored per hand-in key | open, start, sync, submit, pause, resume | `desktop/v1/pastpapers.py`, `idem.py` |
| Scoring | Celery messages | enqueue after commit, `score_attempt_async`, `requeue_stuck_scoring_attempts` | `exams/tasks.py`, `exams/management/commands` |
| Idempotency store | answers by (attempt, key) | lookup, compute, store | `exams/idempotency.py` |
| Exam runner | answers on screen, last served snapshot, accepted payload, hand-in being tried | autosave, leave flush, submit with retries, watchdog, polls, merge of snapshots | `features/testing-simulation` of the website |
| Assessments | `AssessmentAttempt` with its pause account, grading status, result; Celery messages | start, save, submit, abandon, pause, resume; sweep; dispatcher, grading task; requeue, force-grade | `assessments/` |
| Homework runner | draft, buffers of what is owed, sequence counter, conflict banner | pick, flush with retries, keepalive, reload, refetch, choices of the banner, hand-in | `features/assessments` of the website |
| Live quiz | `LiveQuizSession`, participants, answers, timers of sockets | start, open, close, advance, pause, resume, end, kick, answer, finish and pay, REST stop | `livequiz/` |
| Rewards | point ledger by season, wallet, attendance streak | award, correct, revoke, convert, spend, adjust, recompute, refund | `rewards/` |
| Shop | items, orders | purchase, fulfil, cancel, staff edits | `shop/` |
| Draft store of the exam runner, tab guard | draft in localStorage | reload merge | `services/draftStore.ts`, `useMultiTabGuard.ts` |
| Mock exams | `MockAttempt` (phase, anchors, answers, off-screen count), `MockSession` with its places, stored answers by key; Celery messages | create, start, submit, save, end the break, report an absence; request and decide a place, Start, End, Cancel; sweep, enqueue, score | `mocks/` |
| Midterms | their own attempt rows, seats | same shape as the exam engine; proctoring | `midterms/` |
| The rest | | billing, classes, access, notifications, Telegram, SMS, users, question bank, content | see `PROJECT.json` |

### How they interact

The exam runner calls the exam API over HTTP; save and submit go through the idempotency store,
which looks a key up *outside* any lock, computes, and stores under a unique constraint. The
Windows app calls the past-paper API from an outbox that may repeat or reorder requests. Both
write the same row under `select_for_update`. A hand-in leaves the row in SCORING and puts
`score_attempt_async` on the broker, inside the transaction on some paths and after the commit on
the others. The worker completes the row and announces completion.

The homework runner numbers its saves (`client_seq`); the server refuses a save that is not above
the number of the answer's row. A hand-in is graded at once or by a Celery task; a dispatcher run
by beat sends again what still waits, and a sweep abandons attempts nobody works on.

The sockets of a live quiz live in one ASGI process (`deploy/ecosystem.config.js:65`, one
worker). Each socket has a task for its commands and may own the timer of the question it opened.
Staff may stop a room by REST, from gunicorn's process.

A mock is sat alone, or in a room that staff start and end for everybody. The browser reports
absences, the server counts them. Nobody has to come back: a sweep every twenty minutes takes in
what ran out and sends again what was not scored.

A mark in the register awards or revokes points and recomputes the streak. Points are converted
to coins; coins and strikes buy things from the shop, whose transactions lock item, order and
purse one after the other.

### What is hard

* **Interleaving.** Create is three transactions; two devices sit one attempt; two requests miss
  one idempotency key together; a purchase and a cancel meet on two rows; a command of one host
  runs between two calls of another's; the sweep reads before it locks; a Start has
  read the room's status when an End takes the lock.
* **Delay, loss, repetition.** A save of Module 1 can be served in Module 2; a retried hand-in can
  be served when the pointer has moved on; a keepalive travels on when its page is gone; Celery
  repeats and loses messages.
* **Time.** Exam deadlines take effect when the next save arrives, which turns that save into a
  hand-in. Pauses buy time back, of an exam, a homework and a question alike.
* **Failure.** The process may die between commit and enqueue, a worker with its message, a
  socket with its timer, a transaction between refund and restock.
* **Repair and staff.** `autoheal` is a second writer of the exam's state machine; staff requeue,
  force grades, edit items from stale copies and stop rooms.
* **Belief.** A runner drops what it believes the server has.

### What makes each part correct

| Part | Property |
|---|---|
| Attempt engine | the audit finds nothing to repair in rows the engine made; clocks never restart; pausing buys no more than the time that passed; only the module being sat is written |
| Exam and past-paper API | one attempt in progress; the clock choice is settled at the start; `version_number` tells of each change; an outcome is remembered only when the module is over |
| Scoring | every handed-in sitting has a job on the way and is scored; graded and announced once, on the answers it holds |
| Idempotency store, exam runner | one answer per key; a hand-in the runner believes in took; no sheet holds another module's answers; Module 2 is never handed in unseen |
| Assessments | the time billed is the time worked; what is handed in and graded stays; a hand-in comes to rest |
| Homework runner | nothing on the screen is handed in as omitted; what is shown is saved or owed; only obsolete saves are refused |
| Live quiz | scores are sums; the podium paid for stands; a pause takes no time from a question; an open question has a timer |
| Mock exams | one clock for the room; no paper runs in a room that has ended; a paper only moves on; no answer is written after the bell; a retried report costs one chance; what was begun is scored |
| Rewards and shop | stock, coins and strikes add up; no point is paid for twice in a season; nobody waits on a cycle |

## 2. The modules

```
AttemptEngine      the row and its methods, timer, repair (functions from row to row)
   ^
ExamServer         both APIs, create, scoring queue, faults   -- implements --> ExamLifecycle
   ^        ^            ^
ExamWeb  MCExamServer  ExamServerProofs
   ^   ^                  ^
MCExamWeb   ExamWebProofs (extends both)

Rewards <- Shop <- MCShop, ShopProofs
Assessments <- MCAssessments, AssessmentsProofs
HomeworkRunner <- MCHomeworkRunner, HomeworkRunnerProofs
LiveQuiz <- MCLiveQuiz, LiveQuizProofs
MockExam <- MCMockExam, MockExamProofs                        (<- is EXTENDS)
SumProofs          sums over finite sets; extended by the proofs of Shop, HomeworkRunner, LiveQuiz
```

**AttemptEngine** translates the methods of `TestAttempt`, `attempt_timing.py` and
`engine_integrity.py` as operators `r -> r'`. Every caller holds the row lock, so a method is
one step and `conditional_attempt_update` never misses. An answer sheet is the set of questions
answered. `RestoreTarget`, `Restored`, `StartAttempt`, `SubmitModule1/2`, `CompleteTest` and
`Autoheal` follow the branches of the code one for one.

**ExamServer** holds `rows`, `jobs`, `pending` (committed, not yet enqueued), `creating` (create
requests by the transaction they run next), `outcome` (keys of the Windows app), `announced`,
`losses` and `now`. For each view an operator says what it does to the locked row (`Reply`: HTTP
status, row left, where scoring is enqueued) and an action commits it. Requests carry any
arguments a client could have been served, in any order and number, so delay, duplication and
reordering need no channel here. `AbandonStaleModule2`, `CreateInsert`, `CreateRefused` and
`CreateReuse` are the transactions of `create`; the unique constraint is `Admitted`.

**ExamLifecycle** is the abstract specification: phases of a sitting, its sheets, its grade. It
knows nothing of versions, pointers, clocks, jobs, keys or repairs. The refinement mapping maps
states to phases (`PhaseOf`) and takes sheets and scores as they are.

**ExamWeb** replaces "any request" by the runner: per tab the served snapshot, the answers on
screen, the payload taken for accepted and the hand-in being tried; requests on the way with
their phase; the stored keys. It composes with `ExamServer` by calling the same view operators;
`ServesExamServer` checks that every step it provokes is one of `ExamServer`'s. `Lookup`,
`Compute` and `Respond` are the three steps of `consume_idempotency_key`. `LoseConnection` is the
only failure: the request is lost, or its answer is, or (in rough conditions) the server still
serves it after the tab has given it up. `under`, chosen at the start, says which screens are in
use and whether conditions are rough, which also adds the leave flush and the watchdog. All tabs are separate devices: two tabs of one browser
block each other (`useMultiTabGuard.ts`).

**Rewards** has one step per transaction on one row: `Award`/`Withdraw` on the point row of a fact
(a correction moves it to the current season, as `services.py:292` does), `Convert`, the desk,
`Mark` with the hooks it fires (points, then the streak from the whole register) and `Unmark`
(points only, as the hook does). `peak` and `credit` are history for the properties.

**Shop** gives `purchase` and `cancel` a step per lock: `LockItem`, `Pay`; `LockOrder`, `Refund`,
`Restock`. `txs[t]` is what a request has read under its locks; nothing is written before the
commit, so `RollBack` (refused, dead, or the deadlock's victim) only forgets. A staff edit is
`ReadItem` and `SaveItem`, which writes every column of the copy it read, because
`serializer.save()` does.

**Assessments** is the server of the homework: a handler is one step on the locked row, `Scan` and
`Reap` are the sweep before and under the lock, `Deliver` and `MarkFailed` the task and the second
transaction that marks its failure, `Dispatch` the beat job. A send after the commit can be lost.
`worked` is a history clock that runs while an attempt is open and not paused. A sheet is the
number of its saves.

**HomeworkRunner** looks inside: pages of several devices with draft, owed answers, sequence
counter and banner; saves on the way and what became of them; the row's sequence number. The
offline queue and the debounce buffer are one `owed`. An answer to a save and the refetch it
triggers are one step. `Healed` is the reconciliation before the hand-in. A page leaves by its own
hand-in (`handed_in`) or finds that another device handed in: whatever fetches the attempt then
hides the exam (`closed`, the guard at tsx:1273), and the refetch of a page back online or visible
also moves it to `complete` (`Told`; tsx:467, 656). Confirm, pick and banner are for a page that
shows the exam; its timers go on.

**LiveQuiz** models tasks, not requests: `task[k]` is the next call into Django of a socket's
command task or fired timer, `slot[s]` the timer a socket holds. Django calls of the one ASGI
process run on one thread, so load and compare-and-set of one call are one step; tasks interleave
between calls, which is where a timer fires between "cancel" and "pause". The REST stop lives in
another process, hence `LoadToTerminate` and `Terminate` are two steps.

**MockExam** keeps a paper as its phase, the time since that phase was entered (a phase is entered
once, so one number stands for the dictionary of anchors), its answers and its strikes; the engine
is again a set of operators from row to row. Seats and practice papers are rows of one table. A
request under the row lock is one step, with any arguments, at any time and any number of times,
which covers retries and their keys, except for the off-screen report: there the key decides, so
`Report`, `Lookup`, `Charge` and `Store` are steps, and two reports under one key may overlap.
`PressStart` and `AskForPlace` are the checks that the code makes before its lock, `StartSession`
and `RequestPlace` what follows. `Drained` goes through all the phases that are left at once, as
the loop of `drain` does in its transaction. `due` is what a process that has committed is about to
enqueue, which `EnqueueLost` loses with the process. `doubled` and `absences` are history.

**Abstractions**, each named in the module that makes it: exam answers have no values and the exam
runner does not clear them; flags, audit rows, names, notices and unread time stamps are left out;
a row lock makes a view atomic; a Celery retry leaves its message in the queue; expiry of keys is
left out; budgets and cooldowns that only delay are left out; the watchdog may fire at any time
once the version moved.

**Faulty forms.** The operators named as such in the module headers are never used by the
specifications. Each is a plausible bug of the definition it stands beside; `PROJECT.json` lists
which property it breaks in which run, which shows that the property can fail there.

## 3. The runs

`CHECK_DEADLOCK FALSE` everywhere: a completed sitting, a finished game or an empty queue with
every bound used up really is the end.

| Run | Instance | Question and answer | States |
|---|---|---|---|
| `faults` | 2 attempts, 1 create between its transactions, requests and workers die, 1 pointer lost, 2 jobs, a deadline after 1 tick | `OneActive`, `GradedOnce`, `ClocksNeverRestart`, `VersionTracksChanges` survive the faults and the repair. | 313,517 |
| `both_clients` | both clients on 1 attempt, practice test, pauses after the start, deadlines, 2 ticks, fair queue | `EngineConsistent`, `AnswersOnlyWhileSitting`, `PauseCreditBounded`, `TimedChoiceSettled`, `RememberedMeansOver`; a handed-in sitting is queued and scored; the server implements `ExamLifecycle` with its liveness. | 308,921 |
| `web_hand_in` | 1 tab, 1 retry, version ≤ 4; or 2 devices, flush, watchdog and late service, version ≤ 2; 2 requests on the way | With one tab in calm conditions `HandInKept` and `SheetsHoldOwnQuestions`; in both `Module2NotSkipped`, `ServesExamServer`, and `ReplayAgrees`: one answer per key when two requests both missed it. | 3,278,206 |
| `shop` | 2 requests, an item for coins and one for strikes, 2 orders, 2 lessons, 1 staff edit | `StockKept`, `CoinsKept`, `StrikesKept`. | 1.9 million |
| `rewards` | 1 work and 2 lessons worth 2 or 3 points, 2 points a coin, 2 seasons | `PointsPaidOnce`. | 1.1 million |
| `assessments` | 2 attempts, 3 ticks, 1 loss, 1 save each, batch of 1, fair workers | `ElapsedIsWorked`, `HandedInIsFinal`; `SubmittedSettles` with lost messages and failing gradings. | 766,340 |
| `homework_runner` | 2 devices, 1 question, 3 picks, numbers up to 4, 2 saves on the way, 1 trouble | `NothingOmitted`, `SavedOrOwed`. | 1,674,956 |
| `live_quiz` | 2 hosts, 1 player, 2 questions, 4 host commands, manual advance, answers may change | `ScoreIsSum`, `PodiumStands`, `EveryQuestionGetsItsTime`, `OpenHasTimer`. | 2,150,943 |
| `mock_exam` | 1 student with a seat and a practice paper, a question on each side of the break, 1 unit per phase, the 2nd absence ends, 1 loss, fair beat and workers | `OneClock`, `EndedRoomIsEmpty`, `ChargedOnce`, `AnswersInTime`, `PapersMoveOn`; `SittingsEnd` with a lost message or process. | 653,082 |
| `bug_timeout_not_queued` | empty Module 2, 1 tick | `ScoringIsQueued` is violated. | |
| `bug_lock_order` | 2 requests, 1 item | `NoDeadlock` is violated. | |
| `bug_stale_pick` | 2 devices, nothing lost | `StaleIsObsolete` is violated. | |

### Bounds, and why they are enough

* `MaxAttempts` 2 (exam and homework): the properties relate at most two attempts; abandoning,
  reviving beside a new attempt and the refused insert all need exactly two. `MaxCreates` 1: with
  one create between its transactions and every other view free, each gap meets each other
  request; create against create is covered for any number by the theorem `OneActiveHolds`.
* `MaxVersion` 4: start, hand in, hand in, score; 5 in `faults`: start, hand in, abandon, restore,
  hand in. It bounds only client requests, the worker always can finish. `MaxTime` 1–3 with limits
  of 1 or 2: below, at and past a deadline, with a pause on either side of it.
* `MaxJobs`: two where a message may be doubled by an operator (`faults`), one where a second
  delivery is possible anyway because the dispatcher refills the queue (`assessments`).
* `MaxInFlight`/`MaxFlights` 2: a late request and the one that overtook it. One retry (the
  code has 4): the second try already meets a server that may have moved on.
* `MaxTroubles` 1, `PointerLosses` 1, `MaxLosses` 1: one failure at any point of a history.
* Shop: two requests are enough to wait on each other and to race on every pair of rows; two
  orders are an order beside the one being cancelled; prices 1 and 2 against 2 coins and a streak
  of 2 reach "exactly enough" and "one short".
* Homework runner: numbers begin at 2, so `MaxSeq` 4 gives a page three saves: a pick, one made
  meanwhile, and a choice on one device whose number overtakes the other's. Three picks are an
  answer, a change and a change back. One question: saves of different questions meet only in the
  counter and in the hand-in, which asks that nothing is owed. The theorems are for any number of
  each.
* Rewards: values 2 and 3 at 2 points a coin give whole coins and a remainder.
* Live quiz: two hosts are what stale timers and commands under another's timer need; two
  questions give a next and a last one; four commands let a question be opened, paused, resumed
  and closed by different hosts. The theorems hold for any number of each. One player keeps the
  run small; ranks among several are in `Place`, which `PodiumStandsHolds` covers. Automatic
  advance (`ManualAdvance` FALSE) is covered by the theorems, not by the run.

* Mock exam: papers of different students meet only in the room's Start and End, which treat each
  alike, so one student tells all; `OneClock` relates a paper to the room. Time is told apart up to
  `Horizon` 2: within the limit of 1, at it, and a grace of 1 past it. Two absences are one that
  warns and one that ends; two reports are one and its retry. The theorems are for any number of
  all of these. The run has either an open room and no practice, or practice and a cancelled room:
  the two touch different rows, and a cancelled room may still be decided on but never started.
  A module without a limit is left to the theorems.

### Symmetry and views

`Slots`, `Devices`, `Alike` and `People` permute model values no definition tells apart;
no liveness is checked in those runs. `homework_runner` and `live_quiz` use a `VIEW`.
`Live` of `MCHomeworkRunner` drops `latest`, which no step reads and, of that run's properties, only
`TypeOK`, for its type; the pages that answered, once there is no calm and `SavedOrOwed` does not
read them; which questions were stored as owed, once no page can be loaded again; and, of a page
that has left, all but what it shows and owes. `Live` of `MCLiveQuiz` drops the version (only
whether the REST copy is still the row matters, and that bit is kept) and counts the deadlines from
`now`, which it keeps; it drops nothing a guard, an assignment or a property reads.

### Fairness

Only servers are fair. `ScoreAttempt(a)` is weakly fair because a Celery worker keeps taking
messages, `EnqueueAfterCommit(a)` because a live process finishes its request; `both_clients`
allows no crashes, since with `Crashes = {"request"}` liveness fails (observation 1 below). In
`Assessments`, `Deliver(a)` and `MarkFailed(a)` are fair for the same reason and `Dispatch`
because beat runs it every minute (`config/settings.py:593`); it is a hypothesis that staff do not
requeue one attempt for ever, which would keep a full batch from the others. In `MockExam`, `Sweep(p)` is fair because beat runs it every twenty minutes
(`config/settings.py:644`), `Enqueue(p)` and `ScoreAttempt(p)` because live processes finish, and
`Tick` because time passes: nothing is asked of the student, and losses are bounded. Students,
pages and operators promise nothing.

## 4. What the runs found

1. **A single-module paper past its deadline is not queued** (`exams/views.py:1491`,
   `bug_timeout_not_queued`). The auto-submit of `save_attempt` moves Module 1 to SCORING and
   enqueues only for Module 2. The views' own comment (`exams/views.py:1367`) promises the enqueue
   on the first transition to SCORING.
2. **The shop's lock order is not kept** (`shop/services.py:131`, `bug_lock_order`). `cancel`
   refunds, which locks the purse, before it locks the item; `purchase` takes them the other way
   round. `shop/services.py:8` says "Always, in every function here". PostgreSQL breaks the tie by
   killing one; `StockKept` and `CoinsKept` hold with such victims.
3. **A newest pick may be refused as stale** (`StudentAttemptRunnerContainer.tsx:828`,
   `bug_stale_pick`). Numbers are per device, seeded when the attempt is fetched. A device that has
   not fetched since another saved sends a lower number; the 409 is taken for "saved" and the
   answer is no longer owed, against the comment at line 683. The banner of a later refetch, or the
   heal before the hand-in, may still bring it up.

### Observations without a run of their own

Exam engine:
1. A failed enqueue after the commit is only logged; `desktop/v1/idem.py:114` trusts a sweep, but
   `CELERY_BEAT_SCHEDULE` has none for `TestAttempt`. `ScoringCompletes` fails with
   `Crashes = {"request"}`.
2. The watchdog takes any newer version, an autosave included, for the success of a submit still
   in flight (`useModuleSubmit.ts:88`, against its line 142): in rough conditions what
   `HandInKept` says fails. It also fails when a request the tab gave up is served late, when two devices
   share a key, and when a create elsewhere shelves Module 2 during a submit.
3. A save key does not name its payload (`utils/idempotency.ts:37`): after a lost answer the next
   autosave sends newer answers under the same key and the replayed 200 marks them as accepted.
4. The leave flush carries no version (`ExamRunnerPage.tsx:847`, against its line 829):
   what `SheetsHoldOwnQuestions` says fails in rough conditions.
5. A `pause` before the start (`exams/views.py:1418`) is credited to Module 1; the repair
   (`exams/engine_integrity.py:156`) also scores an empty Module 2 of a midterm that declares two
   modules, which `exams/models.py:1102` excludes.

Rewards and shop:
6. A correction moves an award to the current season (`rewards/services.py:292`) but not the
   conversion made with it, so a fact can be paid in coins in two seasons. `PointsPaidOnce` is per
   season for this reason.
7. A staff edit of a price or name writes back the stock it read (`shop/views.py:139`).
   `StockKept` exempts such an item until staff count it again.
8. A refund after the streak broke and grew again gives back strikes spent on something else
   (`rewards/strikes.py:235`). A deleted mark does not recompute the streak (`rewards/hooks.py:301`).

Assessments:
9. The requeue limit (`views_grading_ops.py:248`) reads `grading_attempts`, whose increment
   (`grading_service.py:79`) is rolled back with every grading that raises; `RUNBOOK.md:63` says
   limits are enforced. A worker failing late also sets `grading_status` of a graded attempt to
   failed (`async_tasks.py:29`); the status stays graded, which is what `HandedInIsFinal` says.
10. `dispatch_pending_grading` counts what waits as in flight (`tasks.py:119`), so as many waiting
    attempts as the limit stop the dispatcher that should drain them: `SubmittedSettles` fails with
    `MaxInflight` at the number of attempts.
11. Undoing an abandonment while another attempt is in progress violates the unique constraint and
    is answered 500 (`views_attempt.py:742`). Start reads whether an attempt is in flight without a
    lock (`views_attempt.py:137`).

Homework runner:
12. A keepalive of a page that left has a higher number than the one the reloaded page may use
    next, or overtakes its save; the newer pick is then refused (`StudentAttemptRunnerContainer.tsx:1016`).
13. "Use the other answer" while the page's own save is under way lets that save land after the
    choice (`:954`). Two saves of one question may be under way at once, since a flush skips only
    what is drained (`:809`): with X and Y on their way and X picked again, the answer to the first
    clears the new pick (`:859` compares values) and the row ends with Y, against the comment at
    line 857. Only the heal before the hand-in, or a banner, brings X back. `SavedOrOwed` leaves
    both out (`calm`); while one save of a question is under way at a time it holds.
14. A page with a pick not yet saved may learn that another device handed the attempt in (`:467`,
    `:656`, `:1273`). It then says "Your answers have been recorded" (`:1288`), and the pick, whose
    saves are refused as locked, has no row. `NothingOmitted` is about the page that hands in.

Live quiz:
15. A socket cancels only its own timer (`consumers.py:548`), so the timer of another host outlives
    a pause and closes the next question early. The timer dies with the socket that opened the
    question (`consumers.py:152`): hence the condition `~lost` of `OpenHasTimer`.
16. `everyone_answered` counts answers of players who left or were removed (`services.py:882`); a
    player removed between the handshake's check and `mark_connected` is back (`services.py:428`).
17. `close_question` names no question, so a second close in flight ends the next one; a countdown
    under way un-pauses a room, since PAUSED to ACTIVE is in the table.

Mock exam:
18. The key of an off-screen report is looked up and stored outside the lock
    (`mocks/idempotency.py:35`). A retry beside its first try, or after a process that died between
    the charge and the store, is charged again, against `views.py:250` ("a retried report cannot
    burn two of the student's three chances"). `ChargedOnce` exempts these through `doubled`;
    without the exemption it fails.
19. Start reads the status before the lock (`views_session.py:156`): with an End in between, the
    room that has ended is STARTED again and its approved latecomers are seated, on the old clock,
    which may have run out. `EndedRoomIsEmpty` is about rooms whose status says they ended.
    `accepts_requests` is read without the lock too, so a place may be requested in a running room
    (`sessions.py:88`).
20. `decide_place` checks no status (`sessions.py:101`), although its docstring says "re-decidable
    until the room starts": a place may be rejected while its paper runs, which changes nothing for
    the paper.
21. A keepalive after the bell writes nothing, as it should; the paper then waits for the sweep,
    `Grace` later. A module without a limit never expires and is never swept.

## 5. The proofs

All theorems follow from the named assumptions on the constants, and the hypotheses in the table;
no bound is fixed. Each `TypeOK` of these modules is a theorem; `shop`, `live_quiz`, `mock_exam` and `homework_runner` check
theirs as well.

| Module | Theorem | States |
|---|---|---|
| `ExamServerProofs` | `TypeCorrect` | `Spec => []TypeOK` |
| | `GradedOnceHolds` | `Spec => []GradedOnce` |
| | `VersionTracksChangesHolds` | `Spec => VersionTracksChanges` |
| | `OneActiveHolds` | `Spec => []OneActive` |
| | `RememberedMeansOverHolds` | `Spec => []RememberedMeansOver` |
| | `AnswersOnlyWhileSittingHolds` | `Spec => AnswersOnlyWhileSitting` |
| | `ClocksNeverRestartHolds` | `Spec => ClocksNeverRestart` |
| | `TimedChoiceSettledHolds` | `Spec => TimedChoiceSettled` |
| | `PauseCreditBoundedHolds` | `Spec => []PauseCreditBounded`, if `Pauses # "anywhere"` |
| | `EngineConsistentHolds` | `Spec => [](losses = 0 => EngineConsistent)` |
| | `ScoringIsQueuedHolds` | `Spec => []ScoringIsQueued`, if `Crashes = {}` and `Question[2] # {}` |
| | `ImplementsLifecycleSteps` | `Spec => Lifecycle!Init /\ [][Lifecycle!Next]_(Lifecycle!vars)` |
| `ExamWebProofs` | `ServesExamServerHolds` | `WebSpec => ServesExamServer` |
| | `GradedOnceOnTheWebHolds` | `WebSpec => []GradedOnce` |
| | `Module2NotSkippedHolds` | `WebSpec => Module2NotSkipped` |
| | `ReplayAgreesHolds` | `WebSpec => []ReplayAgrees` |
| | `SheetsHoldOwnQuestionsHolds` | `WebSpec => []SheetsHoldOwnQuestions` |
| | `HandInKeptHolds` | `WebSpec /\ []OneTabInTime => []HandInKept` |
| `ShopProofs` | `TypeCorrect` | `Spec => []TypeOK` |
| | `StockKeptHolds` | `Spec => []StockKept` |
| | `CoinsKeptHolds` | `Spec => []CoinsKept` |
| | `StrikesKeptHolds` | `Spec => []StrikesKept` |
| | `PointsPaidOnceHolds` | `Spec => []PointsPaidOnce` |
| `AssessmentsProofs` | `TypeCorrect` | `Spec => []TypeOK` |
| | `ElapsedIsWorkedHolds` | `Spec => []ElapsedIsWorked` |
| | `HandedInIsFinalHolds` | `Spec => HandedInIsFinal` |
| `HomeworkRunnerProofs` | `TypeCorrect` | `Spec => []TypeOK` |
| | `NothingOmittedHolds` | `Spec => []NothingOmitted` |
| | `SavedOrOwedHolds` | `Spec => []SavedOrOwed` |
| `LiveQuizProofs` | `TypeCorrect` | `Spec => []TypeOK` |
| | `EveryQuestionGetsItsTimeHolds` | `Spec => []EveryQuestionGetsItsTime` |
| | `PodiumStandsHolds` | `Spec => []PodiumStands` |
| | `OpenHasTimerHolds` | `Spec => []OpenHasTimer` |
| | `ScoreIsSumHolds` | `Spec => []ScoreIsSum` |
| `MockExamProofs` | `TypeCorrect` | `Spec => []TypeOK` |
| | `OneClockHolds` | `Spec => []OneClock` |
| | `EndedRoomIsEmptyHolds` | `Spec => []EndedRoomIsEmpty` |
| | `PapersMoveOnHolds` | `Spec => PapersMoveOn` |
| | `AnswersInTimeHolds` | `Spec => AnswersInTime` |
| | `ChargedOnceHolds` | `Spec => []ChargedOnce` |

**ExamServerProofs.** `GradedOnce` is not inductive as it stands: a row in COMPLETED that is not
flagged completed would be flagged by the repair without a grade, and a row in SCORING that is
flagged would be announced twice. `Sound(r)` excludes both (`completed` exactly in COMPLETED, and
no pointer there) and says that a row is `Placed` (never between the modules, Module 2 never
without a clock). `ServerInv == TypeOK /\ Sounds /\ GradedOnce` is inductive. `Keeps(r, s)`
says what every method does to a row: it stays, well typed and sound, `completed` and the score are
as before, a completed row keeps its sheet, a module that is over stays over, the version never
falls, and it rises when state, answers or score change. The first half proves `Keeps` for each
operator of `AttemptEngine` and each view. A step is then either `Quiet` (each row keeps, or is
inserted by a method that keeps `FreshRow`; nothing is announced) or `Graded(a)` (a row in SCORING
is completed and announced at once). For `OneActive`, `StepOccupies` shows that a step either
commits one row through the constraint or opens nothing. For `RememberedMeansOver`, `StepStores`
says that only the app's submit stores an outcome and that the row it leaves has the module over,
and `StepStaysOver` that no step undoes this; the first needs `Placed`, since a repair that left a
row between the modules would make the view store "stale" for a module still to come.

The second half is about where a row may go. `Coherent(r)` adds to `Sound` that the clocks run
exactly from where the sitting has been, that an abandoned row goes back to Module 2 (its
`checkpoint`), and that an open module is the one of the state. Without it a restore or a repair
could stamp a second start or reopen Module 1. On a coherent row the repair does three things only
(`Repaired`): nothing, set the pointer, or pass over an empty Module 2. `Advances(r, s, t)` then
says of each view (`HandledAdvances`) what it makes of the row: coherent again, a move of the
life of a sitting (`LifeMove`), no clock restarted, the choice of a clock settled. `StepKinds`
sorts the steps (a request handled, a row inserted, background, the abandonment, or no row), and
`RowChange` is what any of them does to one row; `EngineInv == ServerInv /\ AllCoherent` is
inductive from it, and the three action properties and the refinement are read off `RowChange`.
`TurnStep` maps a change of one row to a step of `ExamLifecycle`; where that one asks for `Vacant`
(enrol, unshelve), the unique constraint gives it (`Freed`), and `OneActive` shows that an
abandonment shelves one row at most.

Three of these theorems carry a hypothesis, each for a behaviour of the code. `PauseCreditBounded`:
a pause sent before the start is credited from before the module's clock, so the theorem is for
clients that pause what has begun; its invariant is `PauseFine`, that what is banked is at most the
time from the module's start to the pause under way, if any. `EngineConsistent`: a deleted
module row leaves a running row without its pointer until the next view repairs it, which the audit
rightly reports; with no loss every running row is `Pointed`. `ScoringIsQueued`: a process that
dies between commit and enqueue leaves no job (a listed hazard), and the save of a paper without
Module 2 queues none (`bug_timeout_not_queued`); `HandledQueues` goes through every path to SCORING.

**ExamWebProofs.** What the theorems need is order in what tabs, requests and stored answers hold,
any number of them, however late. `WebInv` says that there is a set `V` of versions, each with the
module the row was in (`Circulates`): everything held is of `V`, a later version never goes with an
earlier module, and the row is the latest of all. A step adds at most the row's new version to `V`
(`StepFine`), and `Effect` says what serving a request makes of the row: nothing, the sheet of the
module being sat, or its hand-in. From that: a submit that was served has left the module it names
(`SubmitLeaves`); a save that is not stale is for the module being sat (`UnstaleSave`), so answers
stay with their module (`OwnAnswers`); a version a client names is one the row had, so every
request is one `ExamServer` allows (`ComputeServes`) and `ServerInv` carries over to the website. The
attempt to prove `ServesExamServer` showed that it was false beyond the run's bound: a sheet that a
late flush filled with the other module's answers is served, and the tab sends it back with its own;
`Bodies` of `ExamServer` lacked such mixtures and now is every set of questions.

`HandInKept` needs `Calm`: a tab has one hand-in pending and one request for it that it listens to;
while it is pending, either the row is still in its module or it has left it with those answers on
the sheet; an answer to it, stored or on its way, tells of the module the row is in; with nothing
pending the tab shows the module the row is in, so the next hand-in names it. The hypothesis
`OneTabInTime` is that, where conditions are not rough, one screen is in use and the time is not up.
Every behaviour of `web_hand_in` satisfies it, and the property fails without either half: a second
device may be answered under the first one's key, and a save served after the deadline hands in
(`exams/views.py:1491`), so that answers given since are refused although the submit is answered 200.

**ShopProofs.** The invariant has two parts. `PurseInv`: the types of what a student has, and no
strike owed; each operation of `Rewards` keeps it, and so do the purchase, which takes what it
checked in the same step, and the cancel, whose computed purse is covered (`PurseOK`). `ShelfInv`
adds to `StockKept` what makes it inductive: every running request holds its rows as it read them
(`Valid`), two requests never hold the same one (`Distinct`), and no order names an item that is
gone (`NoOrphans`). A write that goes round a lock would break `Valid` of another request; the
lemmas `RequestsStep` and `ItemStep` say which rows a step must leave alone. The counts of live
orders go up and down by the library's theorems on finite sets. `TypeOK` includes that a locked
copy is the row, so its theorem is the correctness of the locks, not of the shapes only.

The money is `Books`: besides `CoinsKept`, the strikes spent are those of the orders that stand
(`SpentInOrders`, except for a student whose streak broke), a refund under way has computed from
the purse as it is (`RefundsStand`), and two refunds never hold one purse (`PursesApart`): the purse
is written from a value computed a step earlier, which only the lock makes safe. What stands of a
student's orders in a currency (`Paid`) is a sum that a purchase extends by its price and a cancel
shortens by it. `PointsPaidOnce` needs `PeaksCover`: an award is never worth more than the most it
was worth in its season. The points of a season are a part of a sum of those peaks. The assumption
that the works of a term are finitely many (`IsFiniteSet(Works)`) is what makes its total a number.

**SumProofs.** `SumFunctionOnSet` of the community modules is recursive on subsets and takes out an
element of its own choice. The library's induction theorems cannot be used here, so induction is a
minimum: of a nonempty set of naturals without 0 the least has a predecessor outside, hence a set
with 0 and successors is all of `Nat` (`SuccessorsCoverNat`). By induction on the size of a set the
recursive function exists (`SumsExist`), its value does not depend on the set it is defined on
(`SumsAgree`), and any element may be taken out first (`SumSplits`). `SumInsert`, `SumMoves`,
`SumGrows`, `SumOfPart` and `SumOfZeros` follow and are what the other modules cite.

**HomeworkRunnerProofs.** `RunnerInv` says what a page knows of the server (`PageOK`): the attempt
it fetched and the choices of its banner are of questions that have a row, and rows never go. When
it hands in, what it shows is owed or has a row; the heal before `Confirm` fills what is owed from
what is shown, so when it leaves as `handed_in` each has a row. A page that finds its attempt handed
in elsewhere goes to `complete`, of which the invariant says nothing, for there a pick may have no
row (observation 14). An answer to a save tells of a row (`SaveOK`), so clearing what is owed on a
"stale" loses no question, although it may lose an answer (finding 3).
`SavedOrOwed` needs two more. `CalmInv`: devices whose student has not answered there yet have
nothing owed and nothing under way, and are offered just what they show otherwise than they fetched.
`WorkInv`, for the page that works alone, question by question (`Works`): what is owed is what is
shown (`Covered`); at most one save of it is under way, not behind the row, and once answered it is
the row (`Ahead`); without a save, what is shown is owed or is the row. So an answer clears what is
owed only where the row holds it. A choice at the banner of a second device counts as an answer from
there (`users`), for it overwrites the row unseen by the first page; with numbers up to 4 the run
does not reach that loss, but the proof needs it excluded. The first watermark of an attempt without
rows is 0, as `let max = 0` has it (`attemptSync.ts:110`).

**AssessmentsProofs.** `ElapsedIsWorked` says nothing of an abandoned attempt, which can come back.
`RowOK(r, w, n)` does: up to the moment nobody worked any more (`Since`: now, the start of the
pause, or the date of the abandonment) the clock less the start less what is banked is the time
worked, for open and abandoned rows alike. One more fact carries the sweep: an attempt's last
activity is not before its start plus what is banked, so an abandonment dated back to the scan
never takes more time off than was worked since. `Final` is the action property for one row; every
step writes at most one (`RowPut`), or moves the clock, or messages (`QueueKept`).

**LiveQuizProofs.** Every step of `Next` is first put in one of a few shapes. By what it does to the
room (`RoomStep`): kept, a tick, or, of a room that is not over, a question opened, paused, resumed,
or left. `RoomInv` adds to the types that the REST copy was live when loaded (`RestLive`) and, for
a room paused in a question, that the deadline less the start of the pause is what is left
(`Clock`): without it nothing is known of the deadline when the room resumes. By what it does to
the players (`PersonStep`): paid rows are kept, nobody is paid, or the finishing call pays from the
rows it ranked; with `RestLive` and the table of moves this gives `FinishedInv`, hence
`PodiumStands`. By what it does to tasks and timers (`TaskStep`, `SlotStep`): `Dues` says a timer
about to be armed is due no later than the deadline on the row and no further than a limit away;
then for each step that leaves a question open either its timer stays, or the task that took it out
of the slot is the one about to close, end or pause. `ScoreIsSum` follows step by step: only an answer
changes a score, by the difference to what it replaces (`SumMoves` of `SumProofs`).

**MockExamProofs.** `Moved(r, n)` says what a request, the sweep or the worker may make of a paper:
its phase does not fall, what is handed in stays, answers change only as `AnswersInTime` allows,
and nobody enters the first module. One lemma per operator of the engine shows it; the room's
Start is the one step that begins a paper, and its End the one that drains them all. `OneClock` and
`EndedRoomIsEmpty` are inductive together with `SeatsAreBegun`: a seat's paper is begun in the
transaction that makes it. Without that, an End would leave a paper NOT_STARTED, which the drain
skips, and a Start would restart a clock. `PapersSound` (a paper not handed in has a chance left)
keeps the strikes in their type. For `ChargedOnce`, `Spent(p)` is the set of keys that were charged:
stored, or about to be. While nothing is `doubled`, a key has one report on the way, a report that
is past its lookup has a key not stored, and the strikes are at most the number of spent keys,
which lie in `1 .. absences[p]`.

**Only model-checked.** Liveness, since fairness is out of the prover's reach: `ScoringCompletes`,
`SubmittedSettles`, `SittingsEnd`, and of `ImplementsLifecycle` the conjunct that what is handed in is
eventually graded; its other conjuncts are `ImplementsLifecycleSteps`. `NoDeadlock` and
`StaleIsObsolete` are refuted by the code, so there is nothing to prove. Every other property that a
run checks is a theorem.

## 6. What is not modelled

Of the exam engine: operator tools, read endpoints and authoring views, the score formula, page
reloads with the local draft, expiry of idempotency keys. Of the assessments: authoring,
governance, analytics, the abuse and SLO reports, how a question is marked. Of the homework runner:
focus mode, the practice timer, rendering. Of the live quiz: the student-paced mode (`paced.py`),
power-ups, teams, titles, the daily gem cap and the gem shop, the best streak, the grace for late
answers. Of the mock exam: authoring, the access code and the day it is good for, frozen accounts,
flags, the score scale, what publishing does under a running paper, expiry of keys. Of the rewards: the settlement of homework bundles, XP and leaderboards. SQL isolation
below the row lock. The components listed as `not_modelled` in `PROJECT.json`, with their reasons.

## 7. Plan

1. **Student-paced quiz** (`PacedQuiz`, beside `LiveQuiz`): a clock per player, the room's end.
2. **Draft store** (`ExamDraft`, composed with `ExamWeb`): reload and merge by version, clearing an
   answer; two devices overwriting each other's whole sheet.
3. **Midterm engine**: its states, seats, off-screen policing and deadline; abstract specification
   shared with `ExamLifecycle` where the shape is the same.
4. Theorems about those modules as they come: their safety invariants, and that the midterm engine
   implements the abstract sitting step by step, along `RowChange` and `TurnStep`.
