------------------------- MODULE AssessmentsProofs -------------------------
(***************************************************************************)
(* Proofs about Assessments, for any students, limits and bounds.  A step  *)
(* writes at most one row, or moves the clock: the first half shows what   *)
(* each operator does to a row, the second sorts the steps.                *)
(***************************************************************************)
EXTENDS Assessments, TLAPS

USE AssessmentsAssumption

(* When an open row was last worked on, if it is not worked on now.        *)
Since(r, t) == IF r.paused = None THEN t ELSE r.paused

(* A row, the time worked on it, and the clock.                            *)
OpenOK(r, w, n, t) ==
  /\ r \in Open
  /\ Since(r, t) - r.started - r.banked = w
  /\ r.paused = None \/ r.paused <= n
LiveOK(r, w, n) ==
  /\ r.status = "in_progress"
  /\ OpenOK(r, w, n, n)
  /\ r.started + r.banked <= r.active
AbandonedOK(r, w, n) ==
  /\ r.status = "abandoned"
  /\ OpenOK(r, w, n, r.abandoned)
  /\ r.abandoned \in Nat /\ r.abandoned <= n
ClosedOK(r) ==
  /\ r \in Closed
  /\ r.result \in {None, r.sheet}
  /\ r.status = "graded" => r.result # None
  /\ r.status = "submitted" => r.grading # "completed"
RowOK(r, w, n) ==
  /\ w \in Nat
  /\ r = Unused => w = 0
  /\ r = Unused \/ LiveOK(r, w, n) \/ AbandonedOK(r, w, n) \/ ClosedOK(r)

RowsOK ==
  /\ now \in 0 .. MaxTime
  /\ attempts \in [Attempts -> Open \cup Closed \cup {Unused}]
  /\ worked \in [Attempts -> Nat]
  /\ \A a \in Attempts : RowOK(attempts[a], worked[a], now)
SweepOK ==
  /\ sweep \in [ids : SUBSET Attempts, at : Nat]
  /\ sweep.at <= now
QueueOK ==
  /\ jobs \in [Attempts -> 0 .. MaxJobs]
  /\ failing \in [Attempts -> 0 .. MaxJobs]
  /\ losses \in 0 .. MaxLosses
  /\ \A a \in Attempts : jobs[a] + failing[a] > 0 => HandedIn(attempts[a])

AttemptsInv == RowsOK /\ SweepOK /\ QueueOK

(* What a row handed in keeps.                                             *)
Final(r, s) ==
  HandedIn(r) => /\ HandedIn(s)
                 /\ s.sheet = r.sheet
                 /\ s.result \in {None, s.sheet}
                 /\ r.status = "graded" => s.status = "graded"

----------------------------------------------------------------------------
(* Numbers and rows.                                                       *)

LEMMA MaxOfTwo ==
  ASSUME NEW n \in Int
  PROVE  Max({0, n}) = IF n >= 0 THEN n ELSE 0
<1> DEFINE m == IF n >= 0 THEN n ELSE 0
<1>1. m \in {0, n} /\ \A y \in {0, n} : m >= y
  OBVIOUS
<1>2. \A x \in {0, n} : (\A y \in {0, n} : x >= y) => x = m
  OBVIOUS
<1> QED  BY <1>1, <1>2 DEF Max

LEMMA MinOfTwo ==
  ASSUME NEW m \in Int, NEW n \in Int
  PROVE  Min({m, n}) \in {m, n} /\ Min({m, n}) <= m /\ Min({m, n}) <= n
<1>1. \E x \in {m, n} : \A y \in {m, n} : x <= y
  OBVIOUS
<1> QED  BY <1>1 DEF Min

LEMMA Kinds ==
  ASSUME NEW r, NEW w, NEW n
  PROVE  /\ RowOK(r, w, n) => w \in Nat
         /\ RowOK(r, w, n) /\ r.status = "in_progress" => LiveOK(r, w, n)
         /\ RowOK(r, w, n) /\ r.status = "abandoned" => AbandonedOK(r, w, n)
         /\ RowOK(r, w, n) /\ HandedIn(r) => ClosedOK(r)
         /\ RowOK(r, w, n) => r \in Open \cup Closed \cup {Unused}
  BY DEF RowOK, LiveOK, AbandonedOK, ClosedOK, OpenOK, HandedIn, Closed, Unused

LEMMA OpenRow ==
  ASSUME NEW r \in Open
  PROVE  /\ r.started \in Nat /\ r.active \in Nat /\ r.banked \in Nat
         /\ r.paused \in Nat \cup {None} /\ r.abandoned \in Nat \cup {None}
         /\ r.sheet \in 0 .. MaxSaves /\ r.student \in Students
         /\ r = [status |-> r.status, student |-> r.student, started |-> r.started,
                 active |-> r.active, paused |-> r.paused, banked |-> r.banked,
                 abandoned |-> r.abandoned, sheet |-> r.sheet]
         /\ ~HandedIn(r)
  BY DEF Open, HandedIn

LEMMA NewRow ==
  ASSUME now \in Nat, NEW s \in Students, NEW w \in Nat,
         NEW r, r = [status |-> "in_progress", student |-> s, started |-> now,
                     active |-> now, paused |-> None, banked |-> 0,
                     abandoned |-> None, sheet |-> 0]
  PROVE  w = 0 => RowOK(r, w, now)
<1>1. r \in Open
  BY DEF Open, None
<1> QED  BY <1>1 DEF RowOK, LiveOK, OpenOK, Since, None, Unused

(* The pause of a row in progress ends.                                    *)
LEMMA UnpausedRow ==
  ASSUME now \in Nat, NEW w \in Nat, NEW r, LiveOK(r, w, now)
  PROVE  /\ Unpaused(r) \in Open
         /\ Unpaused(r).banked = r.banked + InFlight(r)
         /\ Unpaused(r).paused = None
         /\ Unpaused(r).status = "in_progress"
         /\ Unpaused(r).started = r.started
         /\ Unpaused(r).sheet = r.sheet
         /\ now - r.started - Unpaused(r).banked = w
<1>1. r \in Open /\ InFlight(r) \in Nat
  BY OpenRow DEF LiveOK, OpenOK, InFlight, None
<1>2. r.banked + InFlight(r) \in Nat
  BY <1>1, OpenRow
<1>3. /\ Unpaused(r) \in Open
      /\ Unpaused(r).banked = r.banked + InFlight(r)
      /\ Unpaused(r).paused = None
      /\ Unpaused(r).status = r.status
      /\ Unpaused(r).started = r.started
      /\ Unpaused(r).sheet = r.sheet
  BY <1>1, <1>2 DEF Unpaused, Open, None
<1>4. now - r.started - (r.banked + InFlight(r)) = w
  <2>1. CASE r.paused = None
    BY <2>1, <1>1, OpenRow DEF LiveOK, OpenOK, Since, InFlight
  <2>2. CASE r.paused # None
    BY <2>2, <1>1, OpenRow DEF LiveOK, OpenOK, Since, InFlight, None
  <2> QED  BY <2>1, <2>2
<1> QED  BY <1>3, <1>4 DEF LiveOK

LEMMA WorkedOnRow ==
  ASSUME now \in Nat, NEW w \in Nat, NEW r, LiveOK(r, w, now),
         NEW n \in 0 .. MaxSaves
  PROVE  RowOK([Unpaused(r) EXCEPT !.sheet = n, !.active = now], w, now)
<1> DEFINE u == Unpaused(r)
           s == [u EXCEPT !.sheet = n, !.active = now]
<1>1. u \in Open
  BY UnpausedRow
<1>2. s \in Open /\ s.active = now /\ s.banked = u.banked /\ s.paused = u.paused
        /\ s.status = u.status /\ s.started = u.started
  BY <1>1 DEF Open
<1>3. now - s.started - s.banked = w
  BY <1>2, UnpausedRow
<1>4. s.status = "in_progress" /\ s.paused = None
  BY <1>2, UnpausedRow
<1>5. s # Unused
  BY <1>4 DEF Unused
<1>6. s.started + s.banked <= s.active
  BY <1>1, <1>2, <1>3, OpenRow
<1> HIDE DEF s
<1>7. LiveOK(s, w, now)
  BY <1>2, <1>3, <1>4, <1>6 DEF LiveOK, OpenOK, Since
<1> QED  BY <1>5, <1>7 DEF RowOK, s

(* The attempt is abandoned, as of t: at once, or at the sweep's scan.     *)
LEMMA AbandonedRow ==
  ASSUME now \in Nat, NEW w \in Nat, NEW r, LiveOK(r, w, now),
         NEW t \in Nat, t <= now, NEW v \in Nat,
         v = IF r.paused = None THEN w - (now - t) ELSE w
  PROVE  RowOK(AbandonedAt(r, t), v, now)
<1> DEFINE s == AbandonedAt(r, t)
<1>1. r \in Open
  BY DEF LiveOK, OpenOK
<1>2. s \in Open /\ s.status = "abandoned" /\ s.abandoned = t
        /\ s.banked = r.banked /\ s.paused = r.paused /\ s.started = r.started
  BY <1>1 DEF AbandonedAt, Open
<1>3. Since(s, t) - s.started - s.banked = v
  BY <1>1, <1>2, OpenRow DEF LiveOK, OpenOK, Since
<1>4. s # Unused
  BY <1>2 DEF Unused
<1> QED  BY <1>2, <1>3, <1>4 DEF RowOK, AbandonedOK, OpenOK, LiveOK

LEMMA PausedRow ==
  ASSUME now \in Nat, NEW w \in Nat, NEW r, LiveOK(r, w, now), r.paused = None
  PROVE  RowOK([r EXCEPT !.paused = now], w, now)
<1> DEFINE s == [r EXCEPT !.paused = now]
<1>1. r \in Open
  BY DEF LiveOK, OpenOK
<1>2. s \in Open /\ s.status = r.status /\ s.paused = now /\ s.active = r.active
        /\ s.banked = r.banked /\ s.started = r.started
  BY <1>1 DEF Open
<1>3. Since(s, now) - s.started - s.banked = w
  BY <1>1, <1>2 DEF LiveOK, OpenOK, Since
<1>4. s # Unused
  BY <1>2 DEF Unused, LiveOK
<1> QED  BY <1>2, <1>3, <1>4 DEF RowOK, LiveOK, OpenOK

(* The abandonment is undone: the time since it, or since the pause it     *)
(* found, is banked.                                                       *)
LEMMA RevivedRow ==
  ASSUME now \in Nat, NEW w \in Nat, NEW r, AbandonedOK(r, w, now)
  PROVE  RowOK(Revived(r), w, now)
<1> DEFINE s == Revived(r)
<1>1. r \in Open /\ r.abandoned \in Nat /\ r.abandoned <= now
  BY DEF AbandonedOK, OpenOK
<1>2. Dead(r) \in Nat /\ Dead(r) = now - Since(r, r.abandoned)
  BY <1>1, OpenRow DEF Dead, Since, AbandonedOK, OpenOK, None
<1>3. r.banked + Dead(r) \in Nat
  BY <1>1, <1>2, OpenRow
<1>4. s \in Open /\ s.status = "in_progress" /\ s.paused = None /\ s.active = now
        /\ s.banked = r.banked + Dead(r) /\ s.started = r.started
  BY <1>1, <1>3 DEF Revived, Open, None
<1>5. Since(r, r.abandoned) \in Int /\ Since(r, r.abandoned) - r.started - r.banked = w
  BY <1>1, OpenRow DEF AbandonedOK, OpenOK, Since, None
<1>6. now - s.started - s.banked = w
  BY <1>1, <1>2, <1>4, <1>5, OpenRow
<1>7. s # Unused
  BY <1>4 DEF Unused
<1> QED  BY <1>1, <1>4, <1>6, <1>7, OpenRow DEF RowOK, LiveOK, OpenOK, Since

(* What grading, its failure and a requeue write.                          *)
LEMMA ClosedRow ==
  ASSUME NEW r, ClosedOK(r), NEW w \in Nat, NEW n
  PROVE  /\ RowOK(Graded(r), w, n) /\ Final(r, Graded(r))
         /\ RowOK(Failed(r), w, n) /\ Final(r, Failed(r))
         /\ r.status = "submitted" =>
              /\ RowOK([r EXCEPT !.grading = "pending"], w, n)
              /\ Final(r, [r EXCEPT !.grading = "pending"])
         /\ HandedIn(r)
<1> DEFINE g == Graded(r)
           f == Failed(r)
           p == [r EXCEPT !.grading = "pending"]
<1>1. r \in Closed /\ HandedIn(r) /\ r.result \in {None, r.sheet}
  BY DEF ClosedOK, Closed, HandedIn
<1>2. g \in Closed /\ g.status = "graded" /\ g.sheet = r.sheet
        /\ g.result = r.sheet
  BY <1>1 DEF Graded, Closed, ClosedOK
<1>3. f \in Closed /\ f.status = r.status /\ f.sheet = r.sheet
        /\ f.result = r.result /\ f.grading = "failed"
  BY <1>1 DEF Failed, Closed
<1>4. p \in Closed /\ p.status = r.status /\ p.sheet = r.sheet
        /\ p.result = r.result /\ p.grading = "pending"
  BY <1>1 DEF Closed
<1>5. g # Unused /\ f # Unused /\ p # Unused
  BY <1>2, <1>3, <1>4, <1>1 DEF Unused, HandedIn
<1>6. ClosedOK(g)
  BY <1>2, <1>1 DEF ClosedOK, Closed, None
<1>7. ClosedOK(f) /\ ClosedOK(p)
  BY <1>3, <1>4, <1>1 DEF ClosedOK
<1> HIDE DEF g, f, p
<1>8. Final(r, g) /\ Final(r, f) /\ Final(r, p)
  BY <1>1, <1>2, <1>3, <1>4 DEF Final, HandedIn
<1> QED  BY <1>1, <1>5, <1>6, <1>7, <1>8 DEF RowOK, g, f, p

LEMMA SubmittedRow ==
  ASSUME now \in Nat, NEW q \in Open, NEW r,
         r = [status |-> "submitted", student |-> q.student, grading |-> "pending",
              submitted |-> now, sheet |-> q.sheet, result |-> None]
  PROVE  ClosedOK(r) /\ RowOK(r, 0, now)
<1>1. r \in Closed
  BY OpenRow DEF Closed
<1> QED  BY <1>1 DEF ClosedOK, RowOK, Unused

----------------------------------------------------------------------------
(* What a step does: it keeps the invariant, and what is handed in.        *)

Kept == \A b \in Attempts : Final(attempts[b], attempts'[b])
StepOK == AttemptsInv' /\ Kept

LEMMA FinalSame ==
  ASSUME NEW r, NEW w, NEW n, RowOK(r, w, n)
  PROVE  Final(r, r)
  BY Kinds DEF Final, ClosedOK

LEMMA RowsSame ==
  ASSUME RowsOK, UNCHANGED <<attempts, now, worked>>
  PROVE  RowsOK' /\ Kept
<1>1. RowsOK'
  BY DEF RowsOK
<1>2. Kept
  BY FinalSame DEF RowsOK, Kept
<1> QED  BY <1>1, <1>2

LEMMA RowPut ==
  ASSUME RowsOK, NEW a \in Attempts, NEW r, NEW v \in Nat,
         Put(a, r), now' = now, worked' = [worked EXCEPT ![a] = v],
         RowOK(r, v, now), Final(attempts[a], r)
  PROVE  RowsOK' /\ Kept
<1>1. r \in Open \cup Closed \cup {Unused}
  BY Kinds
<1>2. attempts' \in [Attempts -> Open \cup Closed \cup {Unused}]
        /\ worked' \in [Attempts -> Nat]
  BY <1>1 DEF RowsOK, Put
<1>3. ASSUME NEW b \in Attempts
      PROVE  RowOK(attempts'[b], worked'[b], now) /\ Final(attempts[b], attempts'[b])
  <2>1. CASE b = a
    BY <2>1 DEF RowsOK, Put
  <2>2. CASE b # a
    <3>1. attempts'[b] = attempts[b] /\ worked'[b] = worked[b]
      BY <2>2 DEF RowsOK, Put
    <3> QED  BY <3>1, FinalSame DEF RowsOK
  <2> QED  BY <2>1, <2>2
<1>4. RowsOK'
  BY <1>2, <1>3 DEF RowsOK
<1>5. Kept
  BY <1>3 DEF Kept
<1> QED  BY <1>4, <1>5

(* The same, for a handler that leaves the history alone.                  *)
LEMMA RowWritten ==
  ASSUME RowsOK, NEW a \in Attempts, NEW r, Put(a, r), UNCHANGED <<now, worked>>,
         RowOK(r, worked[a], now), Final(attempts[a], r)
  PROVE  RowsOK' /\ Kept
<1>1. worked[a] \in Nat /\ worked' = [worked EXCEPT ![a] = worked[a]]
  BY DEF RowsOK
<1> QED  BY <1>1, RowPut

LEMMA QueueKept ==
  ASSUME QueueOK, Kept,
         jobs' \in [Attempts -> 0 .. MaxJobs], failing' \in [Attempts -> 0 .. MaxJobs],
         losses' \in 0 .. MaxLosses,
         \A b \in Attempts : jobs'[b] + failing'[b] > 0 =>
           jobs[b] + failing[b] > 0 \/ HandedIn(attempts'[b])
  PROVE  QueueOK'
<1>1. \A b \in Attempts : HandedIn(attempts[b]) => HandedIn(attempts'[b])
  BY DEF Kept, Final
<1>2. \A b \in Attempts : jobs'[b] + failing'[b] > 0 => HandedIn(attempts'[b])
  BY <1>1 DEF QueueOK
<1>3. \A b \in Attempts : HandedIn(attempts'[b]) <=> HandedIn(attempts[b])'
  BY DEF HandedIn
<1> QED  BY <1>2, <1>3 DEF QueueOK

LEMMA QueueSame ==
  ASSUME QueueOK, Kept, UNCHANGED queue
  PROVE  QueueOK'
  BY QueueKept DEF QueueOK, queue

LEMMA MoreLess ==
  ASSUME NEW n \in [Attempts -> 0 .. MaxJobs], NEW a \in Attempts
  PROVE  /\ More(n, a) \in [Attempts -> 0 .. MaxJobs]
         /\ \A b \in Attempts \ {a} : More(n, a)[b] = n[b]
         /\ n[a] > 0 => /\ Less(n, a) \in [Attempts -> 0 .. MaxJobs]
                        /\ \A b \in Attempts : Less(n, a)[b] <= n[b]
<1> DEFINE k == n[a] + 1
           m == Min({k, MaxJobs})
<1>1. k \in Nat /\ MaxJobs \in Nat
  OBVIOUS
<1> HIDE DEF k
<1>2. m \in {k, MaxJobs} /\ m <= MaxJobs
  BY <1>1, MinOfTwo
<1>3. m \in 0 .. MaxJobs
  BY <1>1, <1>2
<1> QED  BY <1>3 DEF More, Less, k

LEMMA SweepSame ==
  ASSUME SweepOK, UNCHANGED <<sweep, now>>
  PROVE  SweepOK'
  BY DEF SweepOK

(* A handler that writes one row and nothing else.                         *)
LEMMA RowStep ==
  ASSUME AttemptsInv, Stay, NEW a \in Attempts, NEW r, Put(a, r),
         RowOK(r, worked[a], now), Final(attempts[a], r)
  PROVE  StepOK
<1>1. RowsOK' /\ Kept
  BY RowWritten DEF AttemptsInv, Stay
<1>2. QueueOK' /\ SweepOK'
  BY <1>1, QueueSame, SweepSame DEF AttemptsInv, Stay
<1> QED  BY <1>1, <1>2 DEF StepOK, AttemptsInv

LEMMA LiveRow ==
  ASSUME AttemptsInv, NEW a \in Attempts, Live(a)
  PROVE  /\ now \in Nat /\ worked[a] \in Nat
         /\ attempts[a] \in Open
         /\ LiveOK(attempts[a], worked[a], now)
         /\ \A r : Final(attempts[a], r)
<1>1. now \in Nat /\ worked[a] \in Nat /\ RowOK(attempts[a], worked[a], now)
  BY DEF AttemptsInv, RowsOK
<1>2. LiveOK(attempts[a], worked[a], now)
  BY <1>1, Kinds DEF Live
<1> QED  BY <1>1, <1>2, OpenRow DEF LiveOK, OpenOK, Final

----------------------------------------------------------------------------
(* The students' steps.                                                    *)

LEMMA StartStep ==
  ASSUME AttemptsInv, NEW s \in Students, Start(s)
  PROVE  StepOK
<1>1. PICK a \in Attempts :
        /\ attempts[a] = Unused
        /\ Put(a, [status |-> "in_progress", student |-> s, started |-> now,
                   active |-> now, paused |-> None, banked |-> 0,
                   abandoned |-> None, sheet |-> 0])
  BY DEF Start
<1> DEFINE r == [status |-> "in_progress", student |-> s, started |-> now,
                 active |-> now, paused |-> None, banked |-> 0,
                 abandoned |-> None, sheet |-> 0]
<1>2. now \in Nat /\ worked[a] = 0
  BY <1>1 DEF AttemptsInv, RowsOK, RowOK
<1>3. RowOK(r, worked[a], now)
  BY <1>2, NewRow
<1>4. Final(attempts[a], r)
  BY <1>1 DEF Final, HandedIn, Unused
<1>5. Stay
  BY DEF Start
<1> HIDE DEF r
<1> QED  BY <1>1, <1>3, <1>4, <1>5, RowStep DEF r

LEMMA AbandonStep ==
  ASSUME AttemptsInv, NEW a \in Attempts, Live(a), Stay,
         Put(a, AbandonedAt(attempts[a], now))
  PROVE  StepOK
<1> DEFINE r == AbandonedAt(attempts[a], now)
<1>1. now - now = 0 /\ worked[a] - 0 = worked[a]
  BY LiveRow
<1>2. RowOK(r, worked[a], now)
  BY <1>1, LiveRow, AbandonedRow
<1> HIDE DEF r
<1> QED  BY <1>2, LiveRow, RowStep DEF r

LEMMA SaveStep ==
  ASSUME AttemptsInv, NEW a \in Attempts, SaveAnswer(a)
  PROVE  StepOK
<1>1. Live(a) /\ Stay
  BY DEF SaveAnswer
<1>2. CASE Put(a, AbandonedAt(attempts[a], now))
  BY <1>1, <1>2, AbandonStep
<1>3. CASE /\ attempts[a].sheet < MaxSaves
           /\ Put(a, [Unpaused(attempts[a]) EXCEPT !.sheet = @ + 1, !.active = now])
  <2> DEFINE n == attempts[a].sheet + 1
             r == [Unpaused(attempts[a]) EXCEPT !.sheet = n, !.active = now]
  <2>1. n \in 0 .. MaxSaves
    BY <1>1, <1>3, LiveRow, OpenRow
  <2>2. Put(a, r)
    BY <1>1, <1>3, LiveRow, UnpausedRow
  <2>3. RowOK(r, worked[a], now)
    BY <1>1, <2>1, LiveRow, WorkedOnRow
  <2> HIDE DEF r
  <2> QED  BY <1>1, <2>2, <2>3, LiveRow, RowStep
<1> QED  BY <1>2, <1>3 DEF SaveAnswer

LEMMA PauseStep ==
  ASSUME AttemptsInv, NEW a \in Attempts, Pause(a)
  PROVE  StepOK
<1> DEFINE r == [attempts[a] EXCEPT !.paused = now]
<1>1. Live(a) /\ Stay /\ Put(a, r) /\ attempts[a].paused = None
  BY DEF Pause
<1>2. RowOK(r, worked[a], now)
  BY <1>1, LiveRow, PausedRow
<1> HIDE DEF r
<1> QED  BY <1>1, <1>2, LiveRow, RowStep

LEMMA ResumeStep ==
  ASSUME AttemptsInv, NEW a \in Attempts, Resume(a)
  PROVE  StepOK
<1>1. Stay
  BY DEF Resume
<1>2. CASE Live(a) /\ Put(a, [Unpaused(attempts[a]) EXCEPT !.active = now])
  <2> DEFINE u == Unpaused(attempts[a])
             n == attempts[a].sheet
             r == [u EXCEPT !.sheet = n, !.active = now]
  <2>1. u \in Open /\ u.sheet = n /\ n \in 0 .. MaxSaves
    BY <1>2, LiveRow, UnpausedRow, OpenRow
  <2>2. Put(a, r)
    BY <1>2, <2>1 DEF Open
  <2>3. RowOK(r, worked[a], now)
    BY <1>2, <2>1, LiveRow, WorkedOnRow
  <2> HIDE DEF r
  <2> QED  BY <1>1, <1>2, <2>2, <2>3, LiveRow, RowStep
<1>3. CASE attempts[a].status = "abandoned" /\ Put(a, Revived(attempts[a]))
  <2> DEFINE r == Revived(attempts[a])
  <2>1. now \in Nat /\ worked[a] \in Nat /\ RowOK(attempts[a], worked[a], now)
    BY DEF AttemptsInv, RowsOK
  <2>2. AbandonedOK(attempts[a], worked[a], now)
    BY <1>3, <2>1, Kinds
  <2>3. RowOK(r, worked[a], now)
    BY <2>1, <2>2, RevivedRow
  <2>4. Final(attempts[a], r)
    BY <1>3 DEF Final, HandedIn
  <2> HIDE DEF r
  <2> QED  BY <1>1, <1>3, <2>3, <2>4, RowStep DEF r
<1> QED  BY <1>2, <1>3 DEF Resume

LEMMA SubmitStep ==
  ASSUME AttemptsInv, NEW a \in Attempts, Submit(a)
  PROVE  StepOK
<1> DEFINE q == attempts[a]
           r == [status |-> "submitted", student |-> q.student,
                 grading |-> "pending", submitted |-> now, sheet |-> q.sheet,
                 result |-> None]
<1>1. Live(a) /\ now' = now /\ sweep' = sweep /\ worked' = [worked EXCEPT ![a] = 0]
  BY DEF Submit
<1>2. q \in Open /\ now \in Nat /\ \A x : Final(q, x)
  BY <1>1, LiveRow
<1>3. ClosedOK(r) /\ RowOK(r, 0, now) /\ RowOK(Graded(r), 0, now) /\ HandedIn(r)
        /\ HandedIn(Graded(r))
  <2>1. ClosedOK(r) /\ RowOK(r, 0, now)
    BY <1>2, SubmittedRow
  <2> HIDE DEF r
  <2>2. RowOK(Graded(r), 0, now) /\ HandedIn(r) /\ Final(r, Graded(r))
    <3>1. 0 \in Nat
      OBVIOUS
    <3> QED  BY <2>1, <3>1, ClosedRow
  <2> QED  BY <2>1, <2>2 DEF Final
<1>4. \E s \in {r, Graded(r)} : Put(a, s)
  BY DEF Submit
<1>5. /\ jobs' \in {jobs, More(jobs, a)}
      /\ failing' = failing
      /\ losses' = losses \/ (losses < MaxLosses /\ losses' = losses + 1)
  BY DEF Submit, queue
<1> HIDE DEF r
<1>6. PICK s \in {r, Graded(r)} : Put(a, s)
  BY <1>4
<1>7. RowsOK' /\ Kept
  <2>1. RowOK(s, 0, now) /\ Final(attempts[a], s) /\ 0 \in Nat
    BY <1>2, <1>3
  <2> QED  BY <2>1, <1>1, <1>6, RowPut DEF AttemptsInv
<1>8. attempts'[a] = s
  BY <1>6 DEF Put, AttemptsInv, RowsOK
<1>9. jobs' \in [Attempts -> 0 .. MaxJobs] /\ failing' \in [Attempts -> 0 .. MaxJobs]
        /\ losses' \in 0 .. MaxLosses
  BY <1>5, MoreLess DEF AttemptsInv, QueueOK
<1>10. \A b \in Attempts \ {a} : jobs'[b] = jobs[b] /\ failing'[b] = failing[b]
  BY <1>5, MoreLess DEF AttemptsInv, QueueOK
<1>11. QueueOK'
  BY <1>3, <1>7, <1>8, <1>9, <1>10, QueueKept DEF AttemptsInv
<1>12. SweepOK'
  BY <1>1, SweepSame DEF AttemptsInv
<1> QED  BY <1>7, <1>11, <1>12 DEF StepOK, AttemptsInv

----------------------------------------------------------------------------
(* The sweep's steps, the clock's, and the graders'.                       *)

LEMMA ScanStep ==
  ASSUME AttemptsInv, Scan
  PROVE  StepOK
<1>1. RowsOK' /\ Kept
  BY RowsSame DEF Scan, AttemptsInv
<1>2. SweepOK'
  BY DEF Scan, SweepOK, AttemptsInv, RowsOK
<1>3. QueueOK'
  BY <1>1, QueueSame DEF Scan, AttemptsInv
<1> QED  BY <1>1, <1>2, <1>3 DEF StepOK, AttemptsInv

(* An attempt still idle for the sweep was last worked on before the scan. *)
LEMMA ReapStep ==
  ASSUME AttemptsInv, NEW a \in Attempts, Reap(a)
  PROVE  StepOK
<1> DEFINE q == attempts[a]
           t == sweep.at
           v == IF q.paused = None THEN worked[a] - (now - t) ELSE worked[a]
<1>1. sweep' = [sweep EXCEPT !.ids = @ \ {a}] /\ now' = now /\ queue' = queue
  BY DEF Reap
<1>2. RowsOK' /\ Kept
  <2>1. CASE UNCHANGED <<attempts, worked>>
    BY <2>1, <1>1, RowsSame DEF AttemptsInv
  <2>2. CASE /\ StillIdle(a, t)
             /\ Put(a, AbandonedAt(q, t))
             /\ worked' = [worked EXCEPT ![a] = v]
    <3>1. Live(a) /\ Idle(q, t)
      BY <2>2 DEF StillIdle
    <3>2. /\ now \in Nat /\ worked[a] \in Nat /\ q \in Open
          /\ LiveOK(q, worked[a], now) /\ \A r : Final(q, r)
      BY <3>1, LiveRow
    <3>3. t \in Nat /\ t <= now
      BY DEF AttemptsInv, SweepOK
    <3>4. v \in Nat
      <4>1. CASE q.paused = None
        <5>1. worked[a] = now - q.started - q.banked /\ q.started + q.banked <= q.active
          BY <3>2, <4>1 DEF LiveOK, OpenOK, Since
        <5>2. q.active <= t - Timeout /\ Timeout \in Nat
          BY <3>1, <4>1 DEF Idle
        <5> QED  BY <4>1, <5>1, <5>2, <3>2, <3>3, OpenRow
      <4>2. CASE q.paused # None
        BY <4>2, <3>2
      <4> QED  BY <4>1, <4>2
    <3> DEFINE r == AbandonedAt(q, t)
    <3>5. RowOK(r, v, now)
      BY <3>2, <3>3, <3>4, AbandonedRow
    <3> HIDE DEF r, v
    <3> QED  BY <2>2, <3>2, <3>4, <3>5, <1>1, RowPut DEF AttemptsInv, r
  <2> QED  BY <2>1, <2>2 DEF Reap
<1>3. SweepOK'
  BY <1>1 DEF AttemptsInv, SweepOK
<1>4. QueueOK'
  BY <1>1, <1>2, QueueSame DEF AttemptsInv
<1> QED  BY <1>2, <1>3, <1>4 DEF StepOK, AttemptsInv

LEMMA TickStep ==
  ASSUME AttemptsInv, Tick
  PROVE  StepOK
<1>1. now \in Nat /\ now' = now + 1 /\ now' \in 0 .. MaxTime
        /\ attempts' = attempts /\ sweep' = sweep /\ queue' = queue
  BY DEF Tick, AttemptsInv, RowsOK
<1>2. ASSUME NEW a \in Attempts
      PROVE  worked'[a] \in Nat /\ RowOK(attempts[a], worked'[a], now + 1)
  <2> DEFINE r == attempts[a]
             w == worked[a]
             v == IF Live(a) /\ r.paused = None THEN w + 1 ELSE w
  <2>1. worked'[a] = v /\ RowOK(r, w, now) /\ w \in Nat /\ v \in Nat
    BY DEF Tick, AttemptsInv, RowsOK
  <2>2. CASE LiveOK(r, w, now)
    <3>1. r \in Open /\ r.status = "in_progress"
      BY <2>2 DEF LiveOK, OpenOK
    <3>2. Since(r, now + 1) - r.started - r.banked = v
      BY <1>1, <2>1, <2>2, <3>1, OpenRow DEF LiveOK, OpenOK, Since, Live
    <3>3. r.paused = None \/ r.paused <= now + 1
      BY <1>1, <2>2, <3>1, OpenRow DEF LiveOK, OpenOK, None
    <3>4. r # Unused
      BY <3>1 DEF Unused
    <3> HIDE DEF v
    <3> QED  BY <2>1, <2>2, <3>1, <3>2, <3>3, <3>4 DEF LiveOK, OpenOK, RowOK
  <2>3. CASE AbandonedOK(r, w, now)
    <3>1. r \in Open /\ r.status = "abandoned" /\ v = w
      BY <2>3 DEF AbandonedOK, OpenOK, Live
    <3>2. r.paused = None \/ r.paused <= now + 1
      BY <1>1, <2>3, <3>1, OpenRow DEF AbandonedOK, OpenOK, None
    <3>3. r.abandoned \in Nat /\ r.abandoned <= now + 1
      BY <1>1, <2>3 DEF AbandonedOK
    <3>4. r # Unused
      BY <3>1 DEF Unused
    <3> HIDE DEF v
    <3> QED  BY <2>1, <2>3, <3>1, <3>2, <3>3, <3>4 DEF AbandonedOK, OpenOK, RowOK
  <2>4. CASE r = Unused \/ ClosedOK(r)
    BY <2>1, <2>4 DEF RowOK, ClosedOK, Closed, Unused, Live
  <2> QED  BY <2>1, <2>2, <2>3, <2>4 DEF RowOK
<1>3. worked' \in [Attempts -> Nat]
  BY DEF Tick, AttemptsInv, RowsOK
<1>4. RowsOK'
  BY <1>1, <1>2, <1>3 DEF RowsOK, AttemptsInv
<1>5. Kept
  BY <1>1, FinalSame DEF Kept, AttemptsInv, RowsOK
<1>6. SweepOK'
  BY <1>1 DEF AttemptsInv, SweepOK
<1>7. QueueOK'
  BY <1>1, <1>5, QueueSame DEF AttemptsInv
<1> QED  BY <1>4, <1>5, <1>6, <1>7 DEF StepOK, AttemptsInv

LEMMA ClosedAt ==
  ASSUME AttemptsInv, NEW a \in Attempts, HandedIn(attempts[a])
  PROVE  ClosedOK(attempts[a]) /\ worked[a] \in Nat
  BY Kinds DEF AttemptsInv, RowsOK

(* One row handed in is written again, and messages about it move.         *)
LEMMA GraderStep ==
  ASSUME AttemptsInv, NEW a \in Attempts, HandedIn(attempts[a]), NEW r,
         Put(a, r), RowOK(r, worked[a], now), Final(attempts[a], r),
         UNCHANGED <<now, sweep, losses, worked>>,
         jobs' \in {jobs, More(jobs, a)} \/ (jobs[a] > 0 /\ jobs' = Less(jobs, a)),
         failing' \in {failing, More(failing, a)}
           \/ (failing[a] > 0 /\ failing' = Less(failing, a))
  PROVE  StepOK
<1>1. RowsOK' /\ Kept
  BY RowWritten DEF AttemptsInv
<1>2. SweepOK'
  BY SweepSame DEF AttemptsInv
<1>3. /\ jobs' \in [Attempts -> 0 .. MaxJobs]
      /\ \A b \in Attempts \ {a} : jobs'[b] <= jobs[b]
  BY MoreLess DEF AttemptsInv, QueueOK
<1>4. /\ failing' \in [Attempts -> 0 .. MaxJobs]
      /\ \A b \in Attempts \ {a} : failing'[b] <= failing[b]
  BY MoreLess DEF AttemptsInv, QueueOK
<1>5. attempts'[a] = r /\ HandedIn(r)
  BY DEF Put, Final, AttemptsInv, RowsOK
<1>6. ASSUME NEW b \in Attempts, jobs'[b] + failing'[b] > 0
      PROVE  jobs[b] + failing[b] > 0 \/ HandedIn(attempts'[b])
  <2>1. CASE b = a
    BY <2>1, <1>5
  <2>2. CASE b # a
    BY <2>2, <1>3, <1>4, <1>6 DEF AttemptsInv, QueueOK
  <2> QED  BY <2>1, <2>2
<1>7. losses' \in 0 .. MaxLosses
  BY DEF AttemptsInv, QueueOK
<1>8. QueueOK'
  BY <1>1, <1>3, <1>4, <1>6, <1>7, QueueKept DEF AttemptsInv
<1> QED  BY <1>1, <1>2, <1>8 DEF StepOK, AttemptsInv

(* Messages move, and no row does.                                         *)
LEMMA MessageStep ==
  ASSUME AttemptsInv, UNCHANGED <<attempts, now, sweep, worked>>,
         jobs' \in [Attempts -> 0 .. MaxJobs], failing' \in [Attempts -> 0 .. MaxJobs],
         losses' \in 0 .. MaxLosses,
         \A b \in Attempts : jobs'[b] + failing'[b] > 0 =>
           jobs[b] + failing[b] > 0 \/ HandedIn(attempts'[b])
  PROVE  StepOK
<1>1. RowsOK' /\ Kept
  BY RowsSame DEF AttemptsInv
<1>2. SweepOK' /\ QueueOK'
  BY <1>1, SweepSame, QueueKept DEF AttemptsInv
<1> QED  BY <1>1, <1>2 DEF StepOK, AttemptsInv

LEMMA DeliverStep ==
  ASSUME AttemptsInv, NEW a \in Attempts, Deliver(a)
  PROVE  StepOK
<1>1. jobs[a] > 0 /\ jobs' = Less(jobs, a) /\ UNCHANGED <<now, sweep, losses, worked>>
  BY DEF Deliver
<1>2. HandedIn(attempts[a])
  BY <1>1 DEF AttemptsInv, QueueOK
<1>3. CASE Put(a, Graded(attempts[a])) /\ failing' = failing
  <2> DEFINE r == Graded(attempts[a])
  <2>1. RowOK(r, worked[a], now) /\ Final(attempts[a], r)
    BY <1>2, ClosedAt, ClosedRow
  <2> HIDE DEF r
  <2> QED  BY <1>1, <1>2, <1>3, <2>1, GraderStep DEF r
<1>4. CASE failing' = More(failing, a) /\ attempts' = attempts
  <2>1. Put(a, attempts[a])
    BY <1>4 DEF Put, AttemptsInv, RowsOK
  <2>2. RowOK(attempts[a], worked[a], now) /\ Final(attempts[a], attempts[a])
    BY FinalSame DEF AttemptsInv, RowsOK
  <2> QED  BY <1>1, <1>2, <1>4, <2>1, <2>2, GraderStep
<1> QED  BY <1>3, <1>4 DEF Deliver

LEMMA MarkFailedStep ==
  ASSUME AttemptsInv, NEW a \in Attempts, MarkFailed(a)
  PROVE  StepOK
<1> DEFINE r == Failed(attempts[a])
<1>1. /\ failing[a] > 0 /\ failing' = Less(failing, a) /\ Put(a, r)
      /\ jobs' \in {jobs, More(jobs, a)}
      /\ UNCHANGED <<now, sweep, losses, worked>>
  BY DEF MarkFailed
<1>2. HandedIn(attempts[a])
  BY <1>1 DEF AttemptsInv, QueueOK
<1>3. RowOK(r, worked[a], now) /\ Final(attempts[a], r)
  BY <1>2, ClosedAt, ClosedRow
<1> HIDE DEF r
<1> QED  BY <1>1, <1>2, <1>3, GraderStep

LEMMA RequeueStep ==
  ASSUME AttemptsInv, NEW a \in Attempts, Requeue(a)
  PROVE  StepOK
<1> DEFINE r == [attempts[a] EXCEPT !.grading = "pending"]
<1>1. /\ attempts[a].status = "submitted" /\ HandedIn(attempts[a])
      /\ Put(a, r) /\ jobs' = More(jobs, a)
      /\ UNCHANGED <<now, sweep, failing, losses, worked>>
  BY DEF Requeue, HandedIn
<1>2. RowOK(r, worked[a], now) /\ Final(attempts[a], r)
  BY <1>1, ClosedAt, ClosedRow
<1> HIDE DEF r
<1> QED  BY <1>1, <1>2, GraderStep

LEMMA ForceStep ==
  ASSUME AttemptsInv, NEW a \in Attempts, ForceGrade(a)
  PROVE  StepOK
<1> DEFINE r == Graded(attempts[a])
<1>1. HandedIn(attempts[a]) /\ Put(a, r) /\ Stay
  BY DEF ForceGrade
<1>2. RowOK(r, worked[a], now) /\ Final(attempts[a], r)
  BY <1>1, ClosedAt, ClosedRow
<1> HIDE DEF r
<1> QED  BY <1>1, <1>2, RowStep

LEMMA LoseStep ==
  ASSUME AttemptsInv, NEW a \in Attempts, Lose(a)
  PROVE  StepOK
<1>1. /\ losses < MaxLosses /\ losses' = losses + 1
      /\ UNCHANGED <<attempts, now, sweep, worked>>
      /\ \/ jobs[a] > 0 /\ jobs' = Less(jobs, a) /\ failing' = failing
         \/ failing[a] > 0 /\ failing' = Less(failing, a) /\ jobs' = jobs
  BY DEF Lose
<1>2. losses' \in 0 .. MaxLosses
  BY <1>1 DEF AttemptsInv, QueueOK
<1>3. /\ jobs \in [Attempts -> 0 .. MaxJobs] /\ failing \in [Attempts -> 0 .. MaxJobs]
      /\ jobs' \in [Attempts -> 0 .. MaxJobs] /\ failing' \in [Attempts -> 0 .. MaxJobs]
      /\ \A b \in Attempts : jobs'[b] <= jobs[b] /\ failing'[b] <= failing[b]
  BY <1>1, MoreLess DEF AttemptsInv, QueueOK
<1>4. \A b \in Attempts : jobs'[b] + failing'[b] > 0 => jobs[b] + failing[b] > 0
  BY <1>3
<1> QED  BY <1>1, <1>2, <1>3, <1>4, MessageStep

LEMMA DispatchStep ==
  ASSUME AttemptsInv, Dispatch
  PROVE  StepOK
<1>1. UNCHANGED <<attempts, now, sweep, failing, losses, worked>>
  BY DEF Dispatch
<1>2. PICK n \in 1 .. Room :
        LET first == {a \in Pending : Cardinality({b \in Pending : Before(b, a)}) < n}
        IN  jobs' = [a \in Attempts |->
                       IF a \in first THEN More(jobs, a)[a] ELSE jobs[a]]
  BY DEF Dispatch
<1> DEFINE first == {a \in Pending : Cardinality({b \in Pending : Before(b, a)}) < n}
<1>3. first \subseteq Pending
  OBVIOUS
<1>4. jobs' = [a \in Attempts |-> IF a \in first THEN More(jobs, a)[a] ELSE jobs[a]]
  BY <1>2
<1> HIDE DEF first
<1>5. jobs \in [Attempts -> 0 .. MaxJobs] /\ failing \in [Attempts -> 0 .. MaxJobs]
  BY DEF AttemptsInv, QueueOK
<1>6. \A a \in Attempts : More(jobs, a)[a] \in 0 .. MaxJobs
  BY <1>5, MoreLess
<1>7. jobs' \in [Attempts -> 0 .. MaxJobs]
  BY <1>4, <1>5, <1>6
<1>8. \A a \in first : HandedIn(attempts[a])
  BY <1>3 DEF Pending, Waiting, HandedIn
<1>9. ASSUME NEW b \in Attempts, jobs'[b] + failing'[b] > 0
      PROVE  jobs[b] + failing[b] > 0 \/ HandedIn(attempts'[b])
  <2>1. CASE b \in first
    BY <2>1, <1>1, <1>8
  <2>2. CASE b \notin first
    BY <2>2, <1>1, <1>4, <1>9
  <2> QED  BY <2>1, <2>2
<1>10. losses' \in 0 .. MaxLosses
  BY <1>1 DEF AttemptsInv, QueueOK
<1> QED  BY <1>1, <1>5, <1>7, <1>9, <1>10, MessageStep

----------------------------------------------------------------------------
(* The specification.                                                      *)

LEMMA InitInv == Init => AttemptsInv
<1> SUFFICES ASSUME Init
             PROVE  AttemptsInv
  OBVIOUS
<1>1. RowsOK
  BY DEF Init, RowsOK, RowOK
<1>2. SweepOK /\ QueueOK
  BY <1>1 DEF Init, SweepOK, QueueOK, NoSweep, RowsOK
<1> QED  BY <1>1, <1>2 DEF AttemptsInv

LEMMA NextInv == AttemptsInv /\ [Next]_vars => StepOK
<1> SUFFICES ASSUME AttemptsInv, [Next]_vars
             PROVE  StepOK
  OBVIOUS
<1>1. CASE UNCHANGED vars
  <2>1. RowsOK' /\ Kept
    BY <1>1, RowsSame DEF vars, AttemptsInv
  <2> QED  BY <1>1, <2>1, QueueSame, SweepSame DEF vars, AttemptsInv, StepOK
<1>2. CASE Student
  <2>1. ASSUME NEW s \in Students, Start(s)
        PROVE  StepOK
    BY <2>1, StartStep
  <2>2. ASSUME NEW a \in Attempts, Abandon(a)
        PROVE  StepOK
    BY <2>2, AbandonStep DEF Abandon
  <2>3. ASSUME NEW a \in Attempts, SaveAnswer(a) \/ Submit(a) \/ Pause(a) \/ Resume(a)
        PROVE  StepOK
    BY <2>3, SaveStep, SubmitStep, PauseStep, ResumeStep
  <2> QED  BY <1>2, <2>1, <2>2, <2>3 DEF Student
<1>3. CASE Worker
  BY <1>3, DeliverStep, MarkFailedStep, LoseStep DEF Worker
<1>4. CASE Staff
  BY <1>4, RequeueStep, ForceStep DEF Staff
<1>5. CASE Beat
  BY <1>5, ScanStep, DispatchStep, ReapStep DEF Beat
<1>6. CASE Tick
  BY <1>6, TickStep
<1> QED  BY <1>1, <1>2, <1>3, <1>4, <1>5, <1>6 DEF Next

LEMMA TypeFromInv == AttemptsInv => TypeOK
<1> SUFFICES ASSUME AttemptsInv
             PROVE  TypeOK
  OBVIOUS
<1>1. ASSUME NEW a \in Attempts
      PROVE  /\ attempts[a].status = "abandoned" => attempts[a].abandoned # None
             /\ attempts[a].status = "graded" => attempts[a].result # None
             /\ attempts[a].status = "submitted" => attempts[a].grading # "completed"
  BY Kinds DEF AttemptsInv, RowsOK, AbandonedOK, ClosedOK, HandedIn, None
<1> QED  BY <1>1 DEF AttemptsInv, RowsOK, SweepOK, QueueOK, TypeOK

LEMMA ElapsedFromInv == AttemptsInv => ElapsedIsWorked
<1> SUFFICES ASSUME AttemptsInv, NEW a \in Attempts, Live(a)
             PROVE  Elapsed(attempts[a]) = worked[a]
  BY DEF ElapsedIsWorked
<1> DEFINE r == attempts[a]
           n == now - r.started - r.banked - InFlight(r)
<1>1. now \in Nat /\ worked[a] \in Nat /\ r \in Open /\ LiveOK(r, worked[a], now)
  BY LiveRow
<1>2. n = worked[a]
  <2>1. CASE r.paused = None
    BY <1>1, <2>1, OpenRow DEF LiveOK, OpenOK, Since, InFlight
  <2>2. CASE r.paused # None
    BY <1>1, <2>2, OpenRow DEF LiveOK, OpenOK, Since, InFlight, None
  <2> QED  BY <2>1, <2>2
<1> QED  BY <1>1, <1>2, MaxOfTwo DEF Elapsed

LEMMA Invariance == Spec => []AttemptsInv
<1>1. AttemptsInv /\ [Next]_vars => AttemptsInv'
  BY NextInv DEF StepOK
<1> QED  BY InitInv, <1>1, PTL DEF Spec

(* Every row keeps one of its shapes, and only what is handed in is ever   *)
(* queued for grading: the type invariant of the homework's server.        *)
THEOREM TypeCorrect == Spec => []TypeOK
  BY Invariance, TypeFromInv, PTL

(* However pauses, abandonments, the sweep's late dates and revivals       *)
(* follow each other, the time billed to an open attempt is the time it    *)
(* was worked on (views_attempt.py:726).                                   *)
THEOREM ElapsedIsWorkedHolds == Spec => []ElapsedIsWorked
  BY Invariance, ElapsedFromInv, PTL

(* No sweep, second delivery, late failure or staff action reopens what is *)
(* handed in, or replaces its sheet or its grade (tasks.py:52).            *)
THEOREM HandedInIsFinalHolds == Spec => HandedInIsFinal
<1> DEFINE Fixed ==
      \A a \in Attempts : HandedIn(attempts[a]) =>
        LET r == attempts'[a]
        IN  /\ HandedIn(r)
            /\ r.sheet = attempts[a].sheet
            /\ r.result \in {None, r.sheet}
            /\ attempts[a].status = "graded" => r.status = "graded"
<1>1. AttemptsInv /\ [Next]_vars => Fixed
  BY NextInv DEF StepOK, Kept, Final
<1>2. AttemptsInv /\ [Next]_vars => [Fixed]_vars
  BY <1>1
<1> QED  BY <1>2, Invariance, PTL DEF Spec, HandedInIsFinal

=============================================================================
