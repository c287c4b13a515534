------------------------------ MODULE MockExam ------------------------------
(***************************************************************************)
(* A full mock exam (backend/mocks): two English modules, a break and two  *)
(* Math modules, sat alone for practice or in a room that staff start and  *)
(* end together.  The papers' engine (models.py), the student's requests   *)
(* (views.py) with the off-screen rule and its idempotency keys, the room  *)
(* (sessions.py), the reaper of stranded papers (reaper.py) and scoring    *)
(* (tasks.py).                                                             *)
(*                                                                         *)
(* A transaction that holds the row lock is one step, so the engine's      *)
(* compare-and-set never loses.  Requests other than reports carry any     *)
(* arguments, in any order and any number of times, which covers their     *)
(* retries and their keys.  A phase is entered once: its anchor is kept as *)
(* the time gone by since, up to Horizon.  ABANDONED is never written.     *)
(*                                                                         *)
(* Faulty forms: StartedAgain, StrandedWhileRunning, DrainedToTheBreak,    *)
(* QueuedAlways, SavedAnytime, KnownNever, OnItsOwnClock.                  *)
(***************************************************************************)
EXTENDS Integers, FiniteSets

CONSTANTS
  Students,
  Solos,           \* the practice papers a student may take, in order: 1 .. Solos
  Question,        \* Question[m]: the questions of module m
  Limit,           \* Limit[f]: the time of phase f; 0 is none, for a module
  Grace,           \* how late a paper is stranded
  ViolationLimit,  \* the absence that ends the paper
  Horizon,         \* bound: the time told apart
  MaxKeys,         \* bound: absences reported per paper
  MaxReports,      \* bound: reports on the way
  MaxJobs,         \* bound: scoring messages per paper
  MaxLosses,       \* bound: workers and requests that die
  Openings         \* what is found: whether the mock is published, the room's status

Modules == {"ENGLISH_M1", "ENGLISH_M2", "MATH_M1", "MATH_M2"}
Phases == Modules \cup {"BREAK"}
HandedIn == {"SCORING", "COMPLETED"}
States == {"ABSENT", "NOT_STARTED"} \cup Phases \cup HandedIn

ASSUME QuestionAssumption ==
  \A m, n \in Modules : m # n => Question[m] \cap Question[n] = {}
ASSUME LimitAssumption ==
  /\ Grace \in Nat /\ Horizon \in Nat
  /\ Limit \in [Phases -> 0 .. Horizon - Grace]
ASSUME BoundAssumption ==
  /\ Solos \in Nat /\ MaxKeys \in Nat /\ MaxReports \in Nat
  /\ MaxJobs \in Nat /\ MaxLosses \in Nat
ASSUME OpeningsAssumption == Openings \subseteq BOOLEAN \X {"OPEN", "CANCELLED"}
ASSUME RuleAssumption == ViolationLimit \in Nat \ {0}

VARIABLES
  published,  \* Mock.is_published: the mock may be practised
  room,       \* the MockSession: status, and the time since started_at
  places,     \* places[s]: the MockSessionParticipant of s
  papers,     \* papers[p]: the MockAttempt row p
  asking,     \* students whose request for a place found the room open
  starting,   \* a Start request that has checked the status of the room
  due,        \* papers in SCORING that a request or the reaper will enqueue
  jobs,       \* jobs[p]: score_mock_attempt_async(p) messages
  reports,    \* off-screen reports on the way
  absences,   \* absences[p]: the keys used to report absences from p
  stored,     \* the keys of reports whose answer is stored
  doubled,    \* reports of one absence were served at once, or one died half-way
  losses      \* what has died so far

roomVars == <<published, room, places, asking, starting>>
queue == <<due, jobs, losses>>
policing == <<reports, absences, stored, doubled>>
vars == <<roomVars, papers, queue, policing>>

Questions == UNION {Question[m] : m \in Modules}
Seat(s) == <<s, 0>>
Seats == {Seat(s) : s \in Students}
Papers == Students \X (0 .. Solos)

Blank == [state |-> "ABSENT", age |-> 0, sheet |-> {}, strikes |-> 0]
Paper == [state : States, age : 0 .. Horizon, sheet : SUBSET Questions, strikes : 0 .. ViolationLimit]
NoClock == -1

TypeOK ==
  /\ room \in [status : {"OPEN", "STARTED", "ENDED", "CANCELLED"}, age : {NoClock} \cup 0 .. Horizon]
  /\ places \in [Students -> {"NONE", "PENDING", "APPROVED", "REJECTED"}]
  /\ papers \in [Papers -> Paper]
  /\ asking \subseteq Students
  /\ starting \in BOOLEAN
  /\ published \in BOOLEAN
  /\ due \subseteq {p \in Papers : papers[p].state \in HandedIn}
  /\ jobs \in [Papers -> 0 .. MaxJobs]
  /\ reports \subseteq [paper : Seats, key : 1 .. MaxKeys, phase : {"sent", "missed", "computed"}]
  /\ absences \in [Papers -> 0 .. MaxKeys]
  /\ stored \subseteq Seats \X (1 .. MaxKeys)
  /\ doubled \in BOOLEAN
  /\ losses \in 0 .. MaxLosses

Init ==
  /\ \E o \in Openings : published = o[1] /\ room = [status |-> o[2], age |-> NoClock]
  /\ places = [s \in Students |-> "NONE"]
  /\ papers = [p \in Papers |-> Blank]
  /\ asking = {}
  /\ starting = FALSE
  /\ due = {}
  /\ jobs = [p \in Papers |-> 0]
  /\ reports = {}
  /\ absences = [p \in Papers |-> 0]
  /\ stored = {}
  /\ doubled = FALSE
  /\ losses = 0

-----------------------------------------------------------------------------
(* The engine: what its methods make of a row.                             *)

Entering(r, f) == [r EXCEPT !.state = f, !.age = 0]

StartedAgain(r, age) == [r EXCEPT !.state = "ENGLISH_M1", !.age = age]
\* start_attempt(at): the clock's zero may lie in the past.
Started(r, age) ==
  IF r.state = "NOT_STARTED" THEN [r EXCEPT !.state = "ENGLISH_M1", !.age = age] ELSE r

NextSubmit(f) ==
  CASE f = "ENGLISH_M1" -> "ENGLISH_M2"
    [] f = "ENGLISH_M2" -> "BREAK"
    [] f = "MATH_M1"    -> "MATH_M2"
    [] f = "MATH_M2"    -> "SCORING"

Answered(r, answers) ==
  [r EXCEPT !.sheet = @ \cup (answers \cap Question[r.state])]

Submitted(r, answers) ==
  IF r.state \in Modules THEN Entering(Answered(r, answers), NextSubmit(r.state)) ELSE r

SubmittedFinal(r) == Entering(r, "SCORING")

BreakEnded(r) == IF r.state = "BREAK" THEN Entering(r, "MATH_M1") ELSE r

Autosaved(r, answers) == IF r.state \in Modules THEN Answered(r, answers) ELSE r

Completed(r) == Entering(r, "COMPLETED")

Expired(r) ==
  \/ r.state \in Modules /\ Limit[r.state] # 0 /\ r.age >= Limit[r.state]
  \/ r.state = "BREAK" /\ r.age >= Limit["BREAK"]

StrandedWhileRunning(r) == Expired(r) /\ r.age - Limit[r.state] >= Grace
\* reaper.is_stranded
Stranded(r) ==
  \/ r.state = "SCORING"
  \/ Expired(r) /\ r.age - Limit[r.state] >= Grace

DrainedToTheBreak(r) ==
  CASE r.state \in {"ENGLISH_M1", "ENGLISH_M2"} -> Entering(r, "BREAK")
    [] r.state \in {"MATH_M1", "MATH_M2"} -> SubmittedFinal(r)
    [] OTHER -> r
\* reaper.drain: through every phase that is left, with no answers.
Drained(r) == IF r.state \in Phases THEN SubmittedFinal(r) ELSE r

-----------------------------------------------------------------------------
(* A student's requests.                                                   *)

Put(p, r) == papers' = [papers EXCEPT ![p] = r]

Active(p) == papers[p].state \notin {"ABSENT", "COMPLETED"}

\* create: uniq_active_solo_mock_attempt refuses a second one; a seat taken
\* since the paper in progress was looked for does not.
Create(s) ==
  /\ published
  /\ \A k \in 1 .. Solos : ~Active(<<s, k>>)
  /\ \E k \in 1 .. Solos :
       /\ papers[<<s, k>>] = Blank
       /\ \A j \in 1 .. k - 1 : papers[<<s, j>>] # Blank
       /\ Put(<<s, k>>, [Blank EXCEPT !.state = "NOT_STARTED"])
  /\ UNCHANGED <<roomVars, queue, policing>>

QueuedAlways(p, r) == due \cup {p}
Queued(p, r) == IF r.state = "SCORING" THEN due \cup {p} ELSE due

\* A request that leaves paper p as r, and enqueues it where it is in SCORING.
Serve(p, r) ==
  /\ papers[p].state # "ABSENT"
  /\ Put(p, r)
  /\ due' = Queued(p, r)
  /\ UNCHANGED <<roomVars, jobs, losses, policing>>

Start(p) ==
  /\ papers[p].state = "NOT_STARTED"
  /\ Put(p, Started(papers[p], 0))
  /\ UNCHANGED <<roomVars, queue, policing>>

\* submit_module: past the deadline without the answers, and for nothing when
\* it names another module than the open one.
SubmitModule(p) ==
  \/ \E answers \in SUBSET Questions :
       Serve(p, Submitted(papers[p], IF Expired(papers[p]) THEN {} ELSE answers))
  \/ Serve(p, papers[p])

SavedAnytime(r, answers, background) ==
  IF Expired(r) /\ ~background THEN Submitted(r, {}) ELSE Autosaved(r, answers)
\* save_attempt: past the deadline a save closes the module, and the flush
\* of a tab that is left does nothing.
Saved(r, answers, background) ==
  CASE Expired(r) /\ background  -> r
    [] Expired(r) /\ ~background -> Submitted(r, {})
    [] ~Expired(r)               -> Autosaved(r, answers)

SaveAttempt(p) ==
  \E answers \in SUBSET Questions, background \in BOOLEAN :
    Serve(p, Saved(papers[p], answers, background))

EndBreak(p) ==
  /\ papers[p].state = "BREAK"
  /\ Put(p, BreakEnded(papers[p]))
  /\ UNCHANGED <<roomVars, queue, policing>>

-----------------------------------------------------------------------------
(* The off-screen rule.  Reports of one absence carry one key; a report    *)
(* whose answer the browser did not get is sent again.                     *)

Report(p, k) ==
  /\ p \in Seats
  /\ k \in {absences[p], absences[p] + 1}
  /\ k = absences[p] + 1 => papers[p].state \in Modules /\ k <= MaxKeys
  /\ Cardinality(reports) < MaxReports
  /\ reports' = reports \cup {[paper |-> p, key |-> k, phase |-> "sent"]}
  /\ doubled' = (doubled \/ \E r \in reports : r.paper = p /\ r.key = k)
  /\ absences' = [absences EXCEPT ![p] = IF k > @ THEN k ELSE @]
  /\ UNCHANGED <<roomVars, papers, queue, stored>>

Advance(r, phase) == reports' = (reports \ {r}) \cup {[r EXCEPT !.phase = phase]}

KnownNever(r) == FALSE
Known(r) == <<r.paper, r.key>> \in stored

\* Before any lock: nothing to police, a key that is known, or a new one.
Lookup(r) ==
  /\ r.phase = "sent"
  /\ IF papers[r.paper].state \notin Modules \/ Known(r)
     THEN reports' = reports \ {r}
     ELSE Advance(r, "missed")
  /\ UNCHANGED <<roomVars, papers, queue, absences, stored, doubled>>

Struck(q) ==
  LET n == [q EXCEPT !.strikes = @ + 1]
  IN  IF q.state \notin Modules THEN q
      ELSE IF n.strikes < ViolationLimit THEN n ELSE SubmittedFinal(n)

Charge(r) ==
  LET q == Struck(papers[r.paper])
  IN  /\ r.phase = "missed"
      /\ Put(r.paper, q)
      /\ due' = IF q # papers[r.paper] /\ q.state = "SCORING" THEN due \cup {r.paper} ELSE due
      /\ Advance(r, "computed")
      /\ UNCHANGED <<roomVars, jobs, losses, absences, stored, doubled>>

Store(r) ==
  /\ r.phase = "computed"
  /\ stored' = stored \cup {<<r.paper, r.key>>}
  /\ reports' = reports \ {r}
  /\ UNCHANGED <<roomVars, papers, queue, absences, doubled>>

LoseReport(r) ==
  /\ reports' = reports \ {r}
  /\ doubled' = (doubled \/ r.phase = "computed")
  /\ UNCHANGED <<roomVars, papers, queue, absences, stored>>

-----------------------------------------------------------------------------
(* The room.                                                               *)

\* request_place reads the status of the room without its lock.
AskForPlace(s) ==
  /\ room.status = "OPEN"
  /\ places[s] = "NONE"
  /\ asking' = asking \cup {s}
  /\ UNCHANGED <<published, room, places, starting, papers, queue, policing>>

RequestPlace(s) ==
  /\ s \in asking
  /\ asking' = asking \ {s}
  /\ places' = [places EXCEPT ![s] = "PENDING"]
  /\ UNCHANGED <<published, room, starting, papers, queue, policing>>

\* decide_place asks nothing of the room.
DecidePlace(s) ==
  /\ places[s] # "NONE"
  /\ \E d \in {"APPROVED", "REJECTED"} : places' = [places EXCEPT ![s] = d]
  /\ UNCHANGED <<published, room, asking, starting, papers, queue, policing>>

\* The start view checks the status before start_session locks the room.
PressStart ==
  /\ room.status \notin {"ENDED", "CANCELLED"}
  /\ starting' = TRUE
  /\ UNCHANGED <<published, room, places, asking, papers, queue, policing>>

OnItsOwnClock(age) == 0
\* One zero for every paper of the room: started_at, once it is set.
RoomClock(age) == IF age = NoClock THEN 0 ELSE age

Seated(s) ==
  IF papers[Seat(s)] = Blank THEN [Blank EXCEPT !.state = "NOT_STARTED"] ELSE papers[Seat(s)]

StartSession ==
  /\ starting
  /\ starting' = FALSE
  /\ papers' = [p \in Papers |->
                  IF p \in Seats /\ places[p[1]] = "APPROVED"
                  THEN Started(Seated(p[1]), RoomClock(room.age)) ELSE papers[p]]
  /\ room' = [status |-> "STARTED", age |-> IF room.age = NoClock THEN 0 ELSE room.age]
  /\ UNCHANGED <<published, places, asking, queue, policing>>

EndSession ==
  /\ room' = [room EXCEPT !.status = "ENDED"]
  /\ papers' = [p \in Papers |-> IF p \in Seats THEN Drained(papers[p]) ELSE papers[p]]
  /\ due' = due \cup {p \in Seats : papers'[p].state = "SCORING"}
  /\ UNCHANGED <<published, places, asking, starting, jobs, losses, policing>>

CancelSession ==
  /\ room' = [room EXCEPT !.status = "CANCELLED"]
  /\ UNCHANGED <<published, places, asking, starting, papers, queue, policing>>

-----------------------------------------------------------------------------
(* The reaper, every twenty minutes, and the scoring worker.               *)

Sweep(p) ==
  /\ Stranded(papers[p])
  /\ Put(p, Drained(papers[p]))
  /\ due' = Queued(p, Drained(papers[p]))
  /\ UNCHANGED <<roomVars, jobs, losses, policing>>

Enqueue(p) ==
  /\ p \in due
  /\ jobs[p] < MaxJobs
  /\ due' = due \ {p}
  /\ jobs' = [jobs EXCEPT ![p] = @ + 1]
  /\ UNCHANGED <<roomVars, papers, losses, policing>>

\* The process that was to enqueue dies first.
EnqueueLost(p) ==
  /\ p \in due
  /\ losses < MaxLosses
  /\ losses' = losses + 1
  /\ due' = due \ {p}
  /\ UNCHANGED <<roomVars, papers, jobs, policing>>

ScoreAttempt(p) ==
  /\ jobs[p] > 0
  /\ jobs' = [jobs EXCEPT ![p] = @ - 1]
  /\ Put(p, IF papers[p].state = "SCORING" THEN Completed(papers[p]) ELSE papers[p])
  /\ UNCHANGED <<roomVars, due, losses, policing>>

\* The broker has its acknowledgement, and the worker dies.
WorkerDies(p) ==
  /\ jobs[p] > 0
  /\ losses < MaxLosses
  /\ losses' = losses + 1
  /\ jobs' = [jobs EXCEPT ![p] = @ - 1]
  /\ UNCHANGED <<roomVars, papers, due, policing>>

Older(age) == IF age < Horizon THEN age + 1 ELSE age

Tick ==
  /\ papers' = [p \in Papers |->
                  IF papers[p].state \in Phases
                  THEN [papers[p] EXCEPT !.age = Older(@)] ELSE papers[p]]
  /\ room' = [room EXCEPT !.age = IF @ = NoClock THEN @ ELSE Older(@)]
  /\ UNCHANGED <<published, places, asking, starting, queue, policing>>

-----------------------------------------------------------------------------
Request(p) ==
  \/ Start(p) \/ SubmitModule(p) \/ SaveAttempt(p) \/ EndBreak(p)
  \/ \E k \in 1 .. MaxKeys : Report(p, k)

Reporting ==
  \E r \in reports : Lookup(r) \/ Charge(r) \/ Store(r) \/ LoseReport(r)

Rooming ==
  \/ \E s \in Students : AskForPlace(s) \/ RequestPlace(s) \/ DecidePlace(s)
  \/ PressStart \/ StartSession \/ EndSession \/ CancelSession

Background(p) ==
  Sweep(p) \/ Enqueue(p) \/ EnqueueLost(p) \/ ScoreAttempt(p) \/ WorkerDies(p)

Next ==
  \/ \E s \in Students : Create(s)
  \/ \E p \in Papers : Request(p) \/ Background(p)
  \/ Reporting
  \/ Rooming
  \/ Tick

Spec == Init /\ [][Next]_vars

\* Time passes, the beat and the workers run; nobody has to come back.
Fairness ==
  /\ WF_vars(Tick)
  /\ \A p \in Papers : WF_vars(Sweep(p)) /\ WF_vars(Enqueue(p)) /\ WF_vars(ScoreAttempt(p))
FairSpec == Spec /\ Fairness

-----------------------------------------------------------------------------
(* What a mock exam promises.                                              *)

Rank ==
  [f \in States |->
     CASE f = "ABSENT" -> 0 [] f = "NOT_STARTED" -> 1 [] f = "ENGLISH_M1" -> 2
       [] f = "ENGLISH_M2" -> 3 [] f = "BREAK" -> 4 [] f = "MATH_M1" -> 5
       [] f = "MATH_M2" -> 6 [] f = "SCORING" -> 7 [] f = "COMPLETED" -> 8]

\* Every paper of the room runs on the room's clock, latecomers' too
\* (sessions.py:124): while in its first module, started_at is its zero.
OneClock ==
  \A p \in Seats : papers[p].state = "ENGLISH_M1" => papers[p].age = room.age

\* No paper is left running in a room that has ended, however the Start and
\* the End, the students' last requests and the reaper met.
EndedRoomIsEmpty ==
  room.status = "ENDED" => \A p \in Seats : papers[p].state \in HandedIn \cup {"ABSENT"}

\* A paper only moves on, however often Start is pressed and whatever comes
\* late: no phase is entered again, and what is handed in stays as it was.
PapersMoveOn ==
  [][\A p \in Papers :
       LET r == papers[p]  n == papers'[p]
       IN  /\ Rank[r.state] <= Rank[n.state]
           /\ r.state \in HandedIn => n.sheet = r.sheet /\ n.strikes = r.strikes]_papers

\* Answers go into the module that is open, before its deadline, and none
\* is taken back: nobody writes after the bell, by whichever endpoint.
AnswersInTime ==
  [][\A p \in Papers :
       papers'[p].sheet # papers[p].sheet =>
         /\ papers[p].state \in Modules
         /\ ~Expired(papers[p])
         /\ papers[p].sheet \subseteq papers'[p].sheet
         /\ papers'[p].sheet \subseteq papers[p].sheet \cup Question[papers[p].state]]_vars

\* An absence costs one chance, however often its report is sent: "a retried
\* report cannot burn two of the student's three chances" (views.py:250).  The
\* key is looked up and stored outside the lock (idempotency.py:35, :40), so a
\* retry beside its first try, or after a process that died between the charge
\* and the store, does burn two: `doubled' tells of these, and exempts them.
ChargedOnce == ~doubled => \A p \in Seats : papers[p].strikes <= absences[p]

\* A paper that was begun is scored, whoever walks away from it and whatever
\* message is lost: the reaper's reason to be (reaper.py:8).
SittingsEnd ==
  \A p \in Papers : papers[p].state \in Phases ~> papers[p].state = "COMPLETED"

=============================================================================
