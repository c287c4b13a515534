---------------------------- MODULE Assessments ----------------------------
(***************************************************************************)
(* Attempts at one assessment homework, on the server: the handlers of     *)
(* assessments/views_attempt.py, the sweep that abandons idle attempts and *)
(* the dispatcher of assessments/tasks.py, grade_attempt and the Celery    *)
(* task around it, and the two staff handlers of views_grading_ops.py.     *)
(*                                                                         *)
(* A handler locks the attempt's row, hence is one step.  The sweep reads  *)
(* its candidates first and takes them one by one; the task marks a failed *)
(* grading in a transaction of its own.  A worker takes a message off the  *)
(* queue before it runs it, so one that dies loses it.                     *)
(*                                                                         *)
(* A sheet is the number of its saves (HomeworkRunner looks inside).  The  *)
(* requeue cooldown, the enqueue budget of a minute and grading_attempts   *)
(* are left out: the first two only delay, and the transaction that would  *)
(* count a failed grading is rolled back with it.  How often a task tries  *)
(* again is left open.                                                     *)
(*                                                                         *)
(* Faulty forms: DeadSinceAbandoned, FailedAgain, PendingOrFailed.         *)
(***************************************************************************)
EXTENDS Integers, FiniteSetsExt

CONSTANTS
  Students,
  Timeout, PausedTimeout,   \* the sweep's patience, running and paused
  Window,                   \* how long after it an abandonment can be undone
  MaxLife,                  \* the longest an attempt may be worked on
  Batch, MaxInflight,       \* the dispatcher's limits
  MaxAttempts,              \* bound: attempts started
  MaxSaves,                 \* bound: saves of a sheet
  MaxTime,                  \* bound: the clock
  MaxJobs,                  \* bound: copies of a message
  MaxLosses                 \* bound: messages and workers lost

ASSUME AssessmentsAssumption ==
  /\ {Timeout, PausedTimeout, Window, MaxLife, MaxAttempts,
      MaxSaves, MaxTime, MaxJobs, MaxLosses} \subseteq Nat
  /\ {Batch, MaxInflight} \subseteq Nat \ {0}
  /\ Timeout <= PausedTimeout

VARIABLES
  attempts,     \* attempts[a]: the AssessmentAttempt row with id a
  now,
  sweep,        \* the sweep running: its candidates and when it read them
  jobs,         \* jobs[a]: messages to grade a
  failing,      \* failing[a]: tasks whose grading raised, before they mark it
  losses,
  worked        \* history: how long an open attempt has run, not paused

queue == <<jobs, failing, losses>>
vars == <<attempts, now, sweep, queue, worked>>

Attempts == 1 .. MaxAttempts
None == -1
NoSweep == [ids |-> {}, at |-> 0]

\* A row, of its columns those that a later step reads.
Open == [status : {"in_progress", "abandoned"}, student : Students,
         started : Nat, active : Nat,
         paused : Nat \cup {None}, banked : Nat, abandoned : Nat \cup {None},
         sheet : 0 .. MaxSaves]
Closed == [status : {"submitted", "graded"}, student : Students,
           grading : {"pending", "completed", "failed"}, submitted : Nat,
           sheet : 0 .. MaxSaves, result : (0 .. MaxSaves) \cup {None}]
Unused == [status |-> "unused"]

Live(a) == attempts[a].status = "in_progress"
HandedIn(r) == r.status \in {"submitted", "graded"}
Waiting(a) == attempts[a].status = "submitted" /\ attempts[a].grading = "pending"

TypeOK ==
  /\ attempts \in [Attempts -> Open \cup Closed \cup {Unused}]
  /\ now \in 0 .. MaxTime
  /\ sweep.ids \subseteq Attempts
  /\ {jobs, failing} \subseteq [Attempts -> 0 .. MaxJobs]
  /\ losses \in 0 .. MaxLosses
  /\ worked \in [Attempts -> Nat]
  /\ \A a \in Attempts :
       /\ attempts[a].status = "abandoned" => attempts[a].abandoned # None
       /\ attempts[a].status = "graded" => attempts[a].result # None
       /\ attempts[a].status = "submitted" => attempts[a].grading # "completed"
       /\ jobs[a] + failing[a] > 0 => HandedIn(attempts[a])

Init ==
  /\ attempts = [a \in Attempts |-> Unused]
  /\ now = 0
  /\ sweep = NoSweep
  /\ jobs = [a \in Attempts |-> 0]
  /\ failing = [a \in Attempts |-> 0]
  /\ losses = 0
  /\ worked = [a \in Attempts |-> 0]

----------------------------------------------------------------------------
(* The clock of an attempt (models.py, elapsed_seconds).                   *)

InFlight(r) == IF r.paused = None THEN 0 ELSE now - r.paused
Elapsed(r) == Max({0, now - r.started - r.banked - InFlight(r)})
Expired(r) == Elapsed(r) > MaxLife

\* A pause ends: what it lasted is banked.
Unpaused(r) == [r EXCEPT !.banked = @ + InFlight(r), !.paused = None]
AbandonedAt(r, t) ==
  [r EXCEPT !.status = "abandoned", !.abandoned = t, !.active = t]

Stay == UNCHANGED <<sweep, queue, now, worked>>
Put(a, r) == attempts' = [attempts EXCEPT ![a] = r]

----------------------------------------------------------------------------
(* The student's handlers.                                                 *)

\* Start: the attempt in progress is reused, and the unique constraint of the
\* table stops a second one, whoever else inserts or revives it.
Taken(s) == \E a \in Attempts : Live(a) /\ attempts[a].student = s

Start(s) ==
  /\ ~Taken(s)
  /\ \E a \in Attempts :
       /\ attempts[a] = Unused
       /\ \A b \in 1 .. a - 1 : attempts[b] # Unused
       /\ Put(a, [status |-> "in_progress", student |-> s, started |-> now,
                  active |-> now, paused |-> None, banked |-> 0,
                  abandoned |-> None, sheet |-> 0])
  /\ Stay

\* Save: too late closes the attempt; else the answer counts and ends a pause.
SaveAnswer(a) ==
  /\ Live(a)
  /\ LET r == attempts[a]
     IN  \/ Expired(r) /\ Put(a, AbandonedAt(r, now))
         \/ /\ ~Expired(r)
            /\ r.sheet < MaxSaves
            /\ Put(a, [Unpaused(r) EXCEPT !.sheet = @ + 1, !.active = now])
  /\ Stay

\* grade_attempt, in its transaction; Celery delivers a message again at will.
Graded(r) ==
  IF r.status = "graded" THEN [r EXCEPT !.grading = "completed"]
  ELSE [r EXCEPT !.status = "graded", !.grading = "completed", !.result = r.sheet]

More(n, a) == [n EXCEPT ![a] = Min({@ + 1, MaxJobs})]
Less(n, a) == [n EXCEPT ![a] = @ - 1]

\* Submit: handed in and graded at once, or left to a task the commit sends.
Submit(a) ==
  /\ Live(a)
  /\ ~Expired(attempts[a])
  /\ worked' = [worked EXCEPT ![a] = 0]
  /\ LET r == [status |-> "submitted", student |-> attempts[a].student,
               grading |-> "pending", submitted |-> now,
               sheet |-> attempts[a].sheet, result |-> None]
     IN  \/ Put(a, Graded(r)) /\ UNCHANGED queue
         \/ Put(a, r) /\ jobs' = More(jobs, a) /\ UNCHANGED <<failing, losses>>
         \/ /\ losses < MaxLosses
            /\ losses' = losses + 1
            /\ Put(a, r)
            /\ UNCHANGED <<jobs, failing>>
  /\ UNCHANGED <<sweep, now>>

Abandon(a) ==
  /\ Live(a)
  /\ Put(a, AbandonedAt(attempts[a], now))
  /\ Stay

Pause(a) ==
  /\ Live(a)
  /\ attempts[a].paused = None
  /\ Put(a, [attempts[a] EXCEPT !.paused = now])
  /\ Stay

\* The time nobody worked on an abandoned attempt: all of its pause, if the
\* abandonment found it paused.
DeadSinceAbandoned(r) == now - r.abandoned
Dead(r) == IF r.paused # None THEN now - r.paused ELSE now - r.abandoned

Revived(r) ==
  [r EXCEPT !.status = "in_progress", !.banked = @ + Dead(r), !.paused = None,
            !.abandoned = None, !.active = now]

Resume(a) ==
  /\ \/ /\ Live(a)
        /\ attempts[a].paused # None
        /\ Put(a, [Unpaused(attempts[a]) EXCEPT !.active = now])
     \/ /\ attempts[a].status = "abandoned"
        /\ ~Taken(attempts[a].student)
        /\ now - attempts[a].abandoned <= Window
        /\ ~Expired(Revived(attempts[a]))
        /\ Put(a, Revived(attempts[a]))
  /\ Stay

----------------------------------------------------------------------------
(* abandon_inactive_attempts: candidates first, then each under its lock.  *)

Idle(r, t) ==
  IF r.paused = None THEN r.active <= t - Timeout ELSE r.paused <= t - PausedTimeout

StillIdle(a, t) == Live(a) /\ Idle(attempts[a], t)

Scan ==
  /\ sweep.ids = {}
  /\ \E a \in Attempts : Live(a) /\ Idle(attempts[a], now)
  /\ sweep' = [ids |-> {a \in Attempts : Live(a) /\ Idle(attempts[a], now)}, at |-> now]
  /\ UNCHANGED <<attempts, now, queue, worked>>

\* The abandonment is dated to the scan; the time since then is not worked.
Reap(a) ==
  /\ a \in sweep.ids
  /\ sweep' = [sweep EXCEPT !.ids = @ \ {a}]
  /\ \/ /\ StillIdle(a, sweep.at)
        /\ Put(a, AbandonedAt(attempts[a], sweep.at))
        /\ worked' = [worked EXCEPT
                        ![a] = IF attempts[a].paused = None
                               THEN @ - (now - sweep.at) ELSE @]
     \/ ~StillIdle(a, sweep.at) /\ UNCHANGED <<attempts, worked>>
  /\ UNCHANGED <<now, queue>>

----------------------------------------------------------------------------
(* Grading in the background.                                              *)

\* The task: grades, or raises and leaves no trace but its failure to mark.
Deliver(a) ==
  /\ jobs[a] > 0
  /\ jobs' = Less(jobs, a)
  /\ \/ Put(a, Graded(attempts[a])) /\ UNCHANGED failing
     \/ failing' = More(failing, a) /\ UNCHANGED attempts
  /\ UNCHANGED <<now, sweep, losses, worked>>

\* Whatever became of the attempt since; and it is tried again, or given up.
FailedAgain(r) == [r EXCEPT !.status = "submitted", !.grading = "failed"]
Failed(r) == [r EXCEPT !.grading = "failed"]

MarkFailed(a) ==
  /\ failing[a] > 0
  /\ failing' = Less(failing, a)
  /\ Put(a, Failed(attempts[a]))
  /\ jobs' \in {jobs, More(jobs, a)}
  /\ UNCHANGED <<now, sweep, losses, worked>>

\* The broker loses a message, or a worker dies with it.
Lose(a) ==
  /\ losses < MaxLosses
  /\ losses' = losses + 1
  /\ \/ jobs[a] > 0 /\ jobs' = Less(jobs, a) /\ UNCHANGED failing
     \/ failing[a] > 0 /\ failing' = Less(failing, a) /\ UNCHANGED jobs
  /\ UNCHANGED <<attempts, now, sweep, worked>>

\* Every minute: the oldest attempts that wait get a message, whether or not
\* they have one; each send may be the last the dispatcher makes.
Before(a, b) ==
  \/ attempts[a].submitted < attempts[b].submitted
  \/ attempts[a].submitted = attempts[b].submitted /\ a < b
PendingOrFailed == {a \in Attempts : attempts[a].status = "submitted"}
Pending == {a \in Attempts : Waiting(a)}
Room == Min({Batch, MaxInflight - Cardinality(Pending)})

Dispatch ==
  /\ Cardinality(Pending) < MaxInflight
  /\ \E n \in 1 .. Room :
       LET first == {a \in Pending : Cardinality({b \in Pending : Before(b, a)}) < n}
       IN  jobs' = [a \in Attempts |-> IF a \in first THEN More(jobs, a)[a] ELSE jobs[a]]
  /\ jobs' # jobs
  /\ UNCHANGED <<attempts, now, sweep, failing, losses, worked>>

Requeue(a) ==
  /\ attempts[a].status = "submitted"
  /\ attempts[a].grading = "failed"
  /\ Put(a, [attempts[a] EXCEPT !.grading = "pending"])
  /\ jobs' = More(jobs, a)
  /\ UNCHANGED <<now, sweep, failing, losses, worked>>

ForceGrade(a) ==
  /\ HandedIn(attempts[a])
  /\ Put(a, Graded(attempts[a]))
  /\ Stay

Tick ==
  /\ now < MaxTime
  /\ now' = now + 1
  /\ worked' = [a \in Attempts |->
                  IF Live(a) /\ attempts[a].paused = None THEN worked[a] + 1
                  ELSE worked[a]]
  /\ UNCHANGED <<attempts, sweep, queue>>

----------------------------------------------------------------------------

Student ==
  \/ \E s \in Students : Start(s)
  \/ \E a \in Attempts :
       SaveAnswer(a) \/ Submit(a) \/ Abandon(a) \/ Pause(a) \/ Resume(a)
Worker == \E a \in Attempts : Deliver(a) \/ MarkFailed(a) \/ Lose(a)
Staff == \E a \in Attempts : Requeue(a) \/ ForceGrade(a)
Beat == Scan \/ Dispatch \/ \E a \in Attempts : Reap(a)

Next == Student \/ Worker \/ Staff \/ Beat \/ Tick

Spec == Init /\ [][Next]_vars

\* Workers run what they take, beat runs the dispatcher every minute, and
\* staff do not requeue for ever: the oldest attempts go first, so one that
\* is requeued without end keeps a full batch from the others.
Fairness ==
  /\ WF_vars(Dispatch)
  /\ \A a \in Attempts : WF_vars(Deliver(a)) /\ WF_vars(MarkFailed(a))
  /\ \A a \in Attempts : <>[][~Requeue(a)]_vars
FairSpec == Spec /\ Fairness

----------------------------------------------------------------------------
(* What the homework promises.                                             *)

\* The time billed is the time worked: pauses, and the gap of an abandonment
\* that was undone, whatever order they came in, are not counted
\* (views_attempt.py:726).
ElapsedIsWorked ==
  \A a \in Attempts : Live(a) => Elapsed(attempts[a]) = worked[a]

\* What is handed in stays handed in, whoever had read it as open; its grade
\* is that of the sheet handed in, and is never replaced: the sweep, a second
\* delivery, staff and a failure marked late may come in any order
\* (tasks.py:52, grading_service.py:68).
HandedInIsFinal ==
  [][\A a \in Attempts : HandedIn(attempts[a]) =>
       LET r == attempts'[a]
       IN  /\ HandedIn(r)
           /\ r.sheet = attempts[a].sheet
           /\ r.result \in {None, r.sheet}
           /\ attempts[a].status = "graded" => r.status = "graded"]_vars

\* What waits for its grade gets one, or a failure that staff see, whatever
\* messages are lost: the dispatcher sends again (tasks.py:160).
SubmittedSettles ==
  \A a \in Attempts :
    Waiting(a) ~> (HandedIn(attempts[a]) /\ ~Waiting(a))

=============================================================================
