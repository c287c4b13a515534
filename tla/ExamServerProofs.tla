-------------------------- MODULE ExamServerProofs --------------------------
(***************************************************************************)
(* Proofs about ExamServer, for every paper, client, crash, pointer loss   *)
(* and bound.  The argument is about one row at a time: Keeps(r, s) says   *)
(* what every operation of the engine but grading preserves of a row r     *)
(* that it turns into s, a lemma shows it of each operation, and the steps *)
(* of the server follow from the lemmas.  The second half does the same    *)
(* with Advances(r, s, t): where the clocks, the answers, the pauses and   *)
(* the phase of a row may go.  The refinement of ExamLifecycle rests on it.*)
(***************************************************************************)
EXTENDS ExamServer, TLAPS

(* No row is left between the modules, and Module 2 runs with a clock.     *)
Placed(r) ==
  /\ r.state \notin LegacySubmitted
  /\ r.state = "MODULE_2_ACTIVE" => r.startedAt[2] # NoTime

(* Completion is flagged exactly in COMPLETED, and nothing is open there.  *)
Sound(r) ==
  /\ r.completed <=> r.state = "COMPLETED"
  /\ r.completed => r.module = NoModule
  /\ Placed(r)

RowOK(r) == r \in Row /\ Sound(r)

(* What version_number is there to tell a client about.                    *)
Contents(r) == <<r.state, r.sheet, r.score>>

Keeps(r, s) ==
  /\ RowOK(s)
  /\ s.completed = r.completed
  /\ s.score = r.score
  /\ r.completed => s.sheet = r.sheet
  /\ r.state # Absent => s.state # Absent
  /\ \A k \in Modules : Over(r, k) => Over(s, k)
  /\ s.version >= r.version
  /\ Contents(s) # Contents(r) => s.version > r.version

-----------------------------------------------------------------------------
(* Rows.                                                                   *)

LEMMA RowFields ==
  ASSUME NEW r \in Row
  PROVE  /\ r.state \in States \cup {Absent}
         /\ r.module \in Modules \cup {NoModule}
         /\ r.version \in Nat
         /\ r.completed \in BOOLEAN
         /\ r.startedAt \in [Modules -> Nat \cup {NoTime}]
         /\ r.paused \in [Modules -> Nat]
         /\ r.pauseAt \in Nat \cup {NoTime}
         /\ r.sheet \in Sheets
  BY DEF Row

LEMMA KeepsReflexive == ASSUME NEW r, RowOK(r) PROVE Keeps(r, r)
<1>1. r.version \in Nat
  BY RowFields DEF RowOK
<1> QED  BY <1>1 DEF Keeps

LEMMA KeepsTransitive ==
  ASSUME NEW r, NEW s, NEW t, RowOK(r), Keeps(r, s), Keeps(s, t)
  PROVE  Keeps(r, t)
<1>1. r.version \in Nat /\ s.version \in Nat /\ t.version \in Nat
  BY RowFields DEF Keeps, RowOK
<1>2. Contents(t) # Contents(r) => t.version > r.version
  BY <1>1 DEF Keeps
<1> QED  BY <1>1, <1>2 DEF Keeps

(* A row that is not completed: what is left to show of an operation.      *)
LEMMA OpenKeeps ==
  ASSUME NEW r, NEW s, RowOK(r), ~r.completed, s \in Row,
         s.state # "COMPLETED", s.completed = r.completed, s.score = r.score,
         Placed(s), r.state # Absent => s.state # Absent,
         r.state \in Finished => s.state \in Finished,
         r.startedAt[2] # NoTime => s.startedAt[2] # NoTime,
         s.version >= r.version,
         Contents(s) # Contents(r) => s.version > r.version
  PROVE  Keeps(r, s)
<1>1. Sound(s)
  BY DEF RowOK, Sound
<1>2. \A k \in Modules : Over(r, k) => Over(s, k)
  BY DEF Over, Finished
<1> QED  BY <1>1, <1>2 DEF Keeps, RowOK

LEMMA VersionBumped == ASSUME NEW r \in Row PROVE r.version + 1 \in Nat /\ r.version + 1 > r.version
<1>1. r.version \in Nat
  BY DEF Row
<1> QED  BY <1>1

LEMMA BumpedRow ==
  ASSUME NEW r \in Row
  PROVE  /\ Bumped(r) \in Row
         /\ Bumped(r) = [r EXCEPT !.version = r.version + 1]
         /\ Bumped(r).version > r.version
<1> DEFINE v == r.version + 1
<1>1. v \in Nat /\ v > r.version
  BY VersionBumped
<1> HIDE DEF v
<1>2. [r EXCEPT !.version = v] \in Row /\ [r EXCEPT !.version = v].version = v
  BY <1>1 DEF Row
<1> QED  BY <1>1, <1>2 DEF Bumped, v

LEMMA BumpedFields ==
  ASSUME NEW r \in Row
  PROVE  /\ Bumped(r).state = r.state
         /\ Bumped(r).module = r.module
         /\ Bumped(r).completed = r.completed
         /\ Bumped(r).startedAt = r.startedAt
         /\ Bumped(r).sheet = r.sheet
         /\ Bumped(r).score = r.score
  BY DEF Bumped, Row

LEMMA BumpedKeeps == ASSUME NEW r, RowOK(r) PROVE Keeps(r, Bumped(r))
<1>1. r \in Row /\ r.version \in Nat /\ Bumped(r).version \in Nat
  BY BumpedRow, RowFields DEF RowOK
<1> QED  BY <1>1, BumpedRow, BumpedFields DEF Keeps, RowOK, Sound, Placed, Over

LEMMA SetActiveModuleRow ==
  ASSUME NEW r \in Row, NEW k \in Modules, NEW t \in Nat
  PROVE  /\ SetActiveModule(r, k, t) \in Row
         /\ SetActiveModule(r, k, t).module = k
         /\ SetActiveModule(r, k, t).state = r.state
         /\ SetActiveModule(r, k, t).completed = r.completed
         /\ SetActiveModule(r, k, t).version = r.version
         /\ SetActiveModule(r, k, t).sheet = r.sheet
         /\ SetActiveModule(r, k, t).score = r.score
         /\ SetActiveModule(r, k, t).startedAt[k] # NoTime
         /\ \A j \in Modules : r.startedAt[j] # NoTime =>
              SetActiveModule(r, k, t).startedAt[j] = r.startedAt[j]
<1>1. Anchor(r, k, t) \in Nat
  BY DEF Anchor, Row, NoTime
<1>2. Anchor(r, k, t) # NoTime
  BY <1>1 DEF NoTime
<1> QED  BY <1>1, <1>2 DEF SetActiveModule, Anchor, Row

LEMMA SetActiveModuleKeeps ==
  ASSUME NEW r, RowOK(r), ~r.completed, NEW k \in Modules, NEW t \in Nat
  PROVE  Keeps(r, SetActiveModule(r, k, t))
<1> DEFINE s == SetActiveModule(r, k, t)
<1>1. r \in Row /\ r.version \in Nat /\ r.state # "COMPLETED"
  BY RowFields DEF RowOK, Sound
<1>2. s.startedAt[2] # NoTime \/ r.startedAt[2] = NoTime
  BY <1>1, SetActiveModuleRow DEF Modules
<1>3. Placed(s)
  BY <1>1, <1>2, SetActiveModuleRow DEF RowOK, Sound, Placed
<1> QED  BY <1>1, <1>2, <1>3, SetActiveModuleRow, OpenKeeps DEF Contents

-----------------------------------------------------------------------------
(* The transitions of TestAttempt.                                         *)

(* The shape most transitions have: fields are changed, the row is bumped. *)
LEMMA ChangedKeeps ==
  ASSUME NEW r, NEW q, RowOK(r), ~r.completed, q \in Row,
         q.state # "COMPLETED", q.completed = r.completed, q.score = r.score,
         Placed(q), r.state # Absent => q.state # Absent,
         r.state \in Finished => q.state \in Finished,
         r.startedAt[2] # NoTime => q.startedAt[2] # NoTime,
         q.version = r.version
  PROVE  Keeps(r, Bumped(q)) /\ ~Bumped(q).completed
<1> DEFINE s == Bumped(q)
<1>1. /\ s \in Row
      /\ s.version > r.version
      /\ r.version \in Nat /\ s.version \in Nat
  BY BumpedRow, RowFields DEF RowOK
<1>2. /\ s.state = q.state /\ s.completed = r.completed
      /\ s.score = r.score /\ s.startedAt = q.startedAt
  BY BumpedFields
<1> HIDE DEF s
<1>3. Placed(s)
  BY <1>2 DEF Placed
<1>4. Keeps(r, s)
  BY <1>1, <1>2, <1>3, OpenKeeps
<1> QED  BY <1>2, <1>4 DEF s

LEMMA RestoredKeeps ==
  ASSUME NEW r, RowOK(r), r.state = "ABANDONED", NEW t \in Nat
  PROVE  Keeps(r, Restored(r, t))
<1> DEFINE target == RestoreTarget(r.checkpoint)
           there  == Bumped([r EXCEPT !.state = target])
           k      == ModuleOf(target)
           s      == SetActiveModule(there, k, t)
           out    == [r EXCEPT !.state = target, !.module = NoModule]
<1>1. r \in Row /\ ~r.completed /\ r.state \notin Finished
  BY DEF RowOK, Sound, Row, Finished
<1>2. /\ target \in {"MODULE_1_ACTIVE", "MODULE_2_ACTIVE", "SCORING"}
      /\ target \in States
      /\ target \notin LegacySubmitted \cup {"COMPLETED", Absent}
  BY DEF RestoreTarget, States, Running, Finished, LegacySubmitted, Absent
<1>3. CASE target \in Running
  <2>1. Restored(r, t) = s
    BY <1>3 DEF Restored
  <2>2. target = "MODULE_2_ACTIVE" => k = 2
    BY DEF ModuleOf
  <2>3. k \in Modules
    BY DEF ModuleOf, Modules
  <2> HIDE DEF target, k
  <2>4. /\ there \in Row /\ there.state = target /\ there.completed = r.completed
        /\ there.score = r.score /\ there.startedAt = r.startedAt
        /\ there.version > r.version
    <3> DEFINE q == [r EXCEPT !.state = target]
    <3>1. /\ q \in Row /\ q.state = target /\ q.completed = r.completed
          /\ q.score = r.score /\ q.startedAt = r.startedAt /\ q.version = r.version
      BY <1>1, <1>2 DEF Row
    <3> HIDE DEF q
    <3>2. there = Bumped(q)
      BY DEF q
    <3> QED  BY <3>1, <3>2, BumpedRow, BumpedFields
  <2> HIDE DEF there
  <2>5. /\ s \in Row /\ s.state = target /\ s.completed = r.completed
        /\ s.score = r.score /\ s.version > r.version
        /\ s.startedAt[k] # NoTime
        /\ r.startedAt[2] # NoTime => s.startedAt[2] # NoTime
    <3>1. 2 \in Modules
      BY DEF Modules
    <3>2. /\ s \in Row /\ s.state = there.state /\ s.completed = there.completed
          /\ s.score = there.score /\ s.version = there.version
          /\ s.startedAt[k] # NoTime
          /\ \A j \in Modules : there.startedAt[j] # NoTime =>
               s.startedAt[j] = there.startedAt[j]
      BY <2>3, <2>4, SetActiveModuleRow
    <3> HIDE DEF s
    <3> QED  BY <2>4, <3>1, <3>2
  <2> HIDE DEF s
  <2>6. Placed(s)
    BY <1>2, <2>2, <2>5 DEF Placed
  <2>7. s.version >= r.version
    BY <1>1, <2>5, RowFields
  <2> QED  BY <1>1, <1>2, <2>1, <2>5, <2>6, <2>7, OpenKeeps
<1>4. CASE target \notin Running
  <2>1. Restored(r, t) = [there EXCEPT !.module = NoModule]
    BY <1>4 DEF Restored
  <2>2. target = "SCORING"
    BY <1>2, <1>4 DEF Running
  <2> HIDE DEF target
  <2>3. [there EXCEPT !.module = NoModule] = Bumped(out)
    BY <1>1 DEF Bumped, Row
  <2>4. /\ out \in Row /\ out.state = target /\ out.completed = r.completed
        /\ out.score = r.score /\ out.startedAt = r.startedAt /\ out.version = r.version
    BY <1>1, <1>2 DEF Row
  <2> HIDE DEF out
  <2>5. Placed(out)
    BY <1>2, <2>2, <2>4 DEF Placed
  <2>6. Keeps(r, Bumped(out))
    BY <1>1, <1>2, <2>4, <2>5, ChangedKeeps
  <2> QED  BY <2>1, <2>3, <2>6
<1> QED  BY <1>3, <1>4

LEMMA StartAttemptKeeps ==
  ASSUME NEW r, RowOK(r), NEW t \in Nat
  PROVE  Keeps(r, StartAttempt(r, t))
<1>1. r \in Row
  BY DEF RowOK
<1>2. CASE r.completed \/ r.state = "COMPLETED"
  BY <1>2, KeepsReflexive DEF StartAttempt, RowOK, Sound, Running
<1>3. CASE ~r.completed /\ r.state = "ABANDONED"
  BY <1>3, RestoredKeeps DEF StartAttempt, Running
<1>4. CASE ~r.completed /\ r.state = "NOT_STARTED"
  <2> DEFINE q == [r EXCEPT !.state = "MODULE_1_ACTIVE"]
  <2>1. /\ "MODULE_1_ACTIVE" \in States /\ r.state \notin Finished
        /\ "MODULE_1_ACTIVE" \notin LegacySubmitted \cup {Absent}
    BY <1>4 DEF Finished, States, Running, LegacySubmitted, Absent
  <2>2. /\ q \in Row /\ q.state = "MODULE_1_ACTIVE" /\ q.completed = r.completed
        /\ q.score = r.score /\ q.startedAt = r.startedAt /\ q.version = r.version
    BY <1>1, <2>1 DEF Row
  <2>3. Keeps(r, Bumped(q)) /\ ~Bumped(q).completed
    BY <1>4, <2>1, <2>2, ChangedKeeps DEF Placed
  <2>4. StartAttempt(r, t) = SetActiveModule(Bumped(q), 1, t)
    BY <1>4 DEF StartAttempt, Running
  <2> HIDE DEF q
  <2>5. Keeps(Bumped(q), SetActiveModule(Bumped(q), 1, t))
    BY <2>3, SetActiveModuleKeeps DEF Keeps, Modules
  <2> QED  BY <2>3, <2>4, <2>5, KeepsTransitive
<1>5. CASE ~r.completed /\ r.state \in Running /\ r.module = NoModule
  <2>1. StartAttempt(r, t) = SetActiveModule(Bumped(r), ModuleOf(r.state), t)
    BY <1>5 DEF StartAttempt, Running
  <2>2. Keeps(r, Bumped(r)) /\ ~Bumped(r).completed
    BY <1>1, <1>5, BumpedKeeps, BumpedFields
  <2>3. ModuleOf(r.state) \in Modules
    BY DEF ModuleOf, Modules
  <2>4. Keeps(Bumped(r), SetActiveModule(Bumped(r), ModuleOf(r.state), t))
    BY <2>2, <2>3, SetActiveModuleKeeps DEF Keeps
  <2> QED  BY <2>1, <2>2, <2>4, KeepsTransitive
<1>6. CASE /\ ~(r.completed \/ r.state = "COMPLETED")
           /\ r.state # "ABANDONED"
           /\ r.state # "NOT_STARTED"
           /\ ~(r.state \in Running /\ r.module = NoModule)
  BY <1>6, KeepsReflexive DEF StartAttempt
<1>7. r.completed \in BOOLEAN
  BY <1>1, RowFields
<1> QED  BY <1>2, <1>3, <1>4, <1>5, <1>6, <1>7 DEF RowOK, Sound

LEMMA InFlightPauseNat ==
  ASSUME NEW r \in Row, NEW t \in Nat
  PROVE  InFlightPause(r, t) \in Nat
<1>1. r.pauseAt \in Nat \cup {NoTime}
  BY RowFields
<1> QED  BY <1>1 DEF InFlightPause, Max0

LEMMA SubmitModule1Keeps ==
  ASSUME NEW r, RowOK(r), r.state = "MODULE_1_ACTIVE",
         NEW answers \in SUBSET AllQuestions, NEW t \in Nat
  PROVE  /\ Keeps(r, SubmitModule1(r, answers, t))
         /\ Over(SubmitModule1(r, answers, t), 1)
<1> DEFINE written == [r EXCEPT !.sheet[1] = answers, !.pauseAt = NoTime]
           saved   == Bumped(written)
           moved   == SetActiveModule(saved, 2, t)
           single  == [saved EXCEPT !.state = "SCORING", !.module = NoModule,
                                    !.startedAt[2] = t]
           onward  == [moved EXCEPT !.state = "MODULE_2_ACTIVE",
                                    !.paused[1] = @ + InFlightPause(r, t)]
<1>1. r \in Row /\ ~r.completed /\ r.state \notin Finished
  BY DEF RowOK, Sound, Row, Finished
<1>2. t # NoTime
  BY DEF NoTime
<1>3. SubmitModule1(r, answers, t) = IF SingleModule THEN single ELSE onward
  BY DEF SubmitModule1
<1>4. /\ written \in Row /\ written.completed = r.completed
      /\ written.score = r.score /\ written.version = r.version
  BY <1>1 DEF Row, Sheets, Modules, NoTime
<1> HIDE DEF written
<1>5. /\ saved \in Row /\ saved.completed = r.completed
      /\ saved.score = r.score /\ saved.version > r.version
  BY <1>4, BumpedRow, BumpedFields
<1> HIDE DEF saved
<1>6. CASE SingleModule
  <2>1. single \in Row
    BY <1>5, <1>2 DEF Row, Modules, States, Finished
  <2>2. /\ single.state = "SCORING" /\ single.completed = r.completed
        /\ single.score = r.score /\ single.version > r.version
        /\ single.startedAt[2] # NoTime
    BY <1>2, <1>5 DEF Row, Modules
  <2> HIDE DEF single
  <2>3. single.version >= r.version
    BY <1>1, <2>1, <2>2, RowFields
  <2>4. Placed(single) /\ Over(single, 1) /\ single.state # Absent
    BY <2>2 DEF Placed, Over, LegacySubmitted, Finished, Absent
  <2> QED  BY <1>1, <1>3, <1>6, <2>1, <2>2, <2>3, <2>4, OpenKeeps DEF Finished
<1>7. CASE ~SingleModule
  <2>1. /\ moved \in Row /\ moved.completed = r.completed /\ moved.score = r.score
        /\ moved.version > r.version /\ moved.startedAt[2] # NoTime
    BY <1>5, SetActiveModuleRow DEF Modules
  <2> HIDE DEF moved
  <2>2. moved.paused[1] + InFlightPause(r, t) \in Nat
    <3>1. moved.paused[1] \in Nat
      BY <2>1, RowFields DEF Modules
    <3> QED  BY <1>1, <3>1, InFlightPauseNat
  <2>3. onward \in Row
    BY <2>1, <2>2 DEF Row, Modules, States, Running
  <2>4. /\ onward.state = "MODULE_2_ACTIVE" /\ onward.completed = r.completed
        /\ onward.score = r.score /\ onward.version > r.version
        /\ onward.startedAt[2] # NoTime
    BY <2>1 DEF Row
  <2> HIDE DEF onward
  <2>5. onward.version >= r.version
    BY <1>1, <2>3, <2>4, RowFields
  <2>6. Placed(onward) /\ Over(onward, 1) /\ onward.state # Absent
    BY <2>4 DEF Placed, Over, LegacySubmitted, Absent
  <2> QED  BY <1>1, <1>3, <1>7, <2>3, <2>4, <2>5, <2>6, OpenKeeps
<1> QED  BY <1>6, <1>7

LEMMA SubmitModule2Keeps ==
  ASSUME NEW r, RowOK(r), r.state = "MODULE_2_ACTIVE", NEW answers \in SUBSET AllQuestions
  PROVE  Keeps(r, SubmitModule2(r, answers)) /\ Over(SubmitModule2(r, answers), 2)
<1> DEFINE q == [r EXCEPT !.sheet[2] = answers, !.state = "SCORING", !.module = NoModule]
<1>1. r \in Row /\ ~r.completed /\ r.state \notin Finished
  BY DEF RowOK, Sound, Row, Finished
<1>2. /\ q \in Row /\ q.state = "SCORING" /\ q.completed = r.completed
      /\ q.score = r.score /\ q.startedAt = r.startedAt /\ q.version = r.version
  BY <1>1 DEF Row, Sheets, Modules, States, Finished
<1>3. SubmitModule2(r, answers) = Bumped(q)
  BY DEF SubmitModule2
<1> HIDE DEF q
<1>4. Placed(q) /\ q.state # Absent /\ q.state \in Finished
  BY <1>2 DEF Placed, LegacySubmitted, Absent, Finished
<1>5. Over(Bumped(q), 2)
  BY <1>2, <1>4, BumpedFields DEF Over
<1> QED  BY <1>1, <1>2, <1>3, <1>4, <1>5, ChangedKeeps

LEMMA HandInKeeps ==
  ASSUME NEW r, RowOK(r), MaySubmit(r), NEW answers \in SUBSET AllQuestions, NEW t \in Nat
  PROVE  Keeps(r, HandIn(r, answers, t)) /\ Over(HandIn(r, answers, t), r.module)
<1>1. r.module \in Modules
  BY RowFields DEF RowOK, MaySubmit
<1>2. CASE r.module = 1
  BY <1>2, SubmitModule1Keeps DEF HandIn, MaySubmit, ActiveIn
<1>3. CASE r.module = 2
  BY <1>3, SubmitModule2Keeps DEF HandIn, MaySubmit, ActiveIn
<1> QED  BY <1>1, <1>2, <1>3 DEF Modules

-----------------------------------------------------------------------------
(* The repair.                                                             *)

LEMMA HealedFlagSame == ASSUME NEW r, RowOK(r) PROVE HealedFlag(r) = r
  BY DEF HealedFlag, RowOK, Sound, Row

LEMMA HealedPointerRow ==
  ASSUME NEW r \in Row, NEW t \in Nat
  PROVE  LET p == HealedPointer(r, t)
         IN /\ p \in Row /\ p.state = r.state /\ p.completed = r.completed
            /\ p.score = r.score /\ p.version = r.version
            /\ r.startedAt[2] # NoTime => p.startedAt[2] # NoTime
<1>1. ModuleOf(r.state) \in Modules /\ 2 \in Modules
  BY DEF ModuleOf, Modules
<1>2. CASE r.state \in Running
  <2>1. HealedPointer(r, t) = SetActiveModule(r, ModuleOf(r.state), t)
    BY <1>2 DEF HealedPointer
  <2> DEFINE k == ModuleOf(r.state)
             p == SetActiveModule(r, k, t)
  <2>2. k \in Modules
    BY <1>1
  <2> HIDE DEF k
  <2>3. /\ p \in Row /\ p.state = r.state /\ p.completed = r.completed
        /\ p.score = r.score /\ p.version = r.version
        /\ \A j \in Modules : r.startedAt[j] # NoTime => p.startedAt[j] = r.startedAt[j]
    BY <2>2, SetActiveModuleRow
  <2> QED  BY <1>1, <2>1, <2>3 DEF k
<1>3. CASE r.state \notin Running
  BY <1>3 DEF HealedPointer
<1> QED  BY <1>2, <1>3

LEMMA HealedEmptyModule2Row ==
  ASSUME NEW p \in Row
  PROVE  LET h == HealedEmptyModule2(p)
         IN /\ h \in Row /\ h.completed = p.completed /\ h.score = p.score
            /\ h.version = p.version /\ h.startedAt = p.startedAt
            /\ h.state = p.state \/ (p.state = "MODULE_2_ACTIVE" /\ h.state = "SCORING")
<1> DEFINE state == IF p.state = "MODULE_2_ACTIVE" THEN "SCORING" ELSE p.state
           q     == [p EXCEPT !.state = state, !.module = NoModule]
<1>1. HealedEmptyModule2(p) = q \/ HealedEmptyModule2(p) = p
  BY DEF HealedEmptyModule2
<1>2. state \in States \cup {Absent}
  BY RowFields DEF States, Finished
<1>3. state = p.state \/ (p.state = "MODULE_2_ACTIVE" /\ state = "SCORING")
  OBVIOUS
<1> HIDE DEF state
<1>4. /\ q \in Row /\ q.completed = p.completed /\ q.score = p.score
      /\ q.version = p.version /\ q.startedAt = p.startedAt /\ q.state = state
  BY <1>2 DEF Row
<1> HIDE DEF q
<1> QED  BY <1>1, <1>3, <1>4

LEMMA AutohealKeeps ==
  ASSUME NEW r, RowOK(r), NEW t \in Nat
  PROVE  Keeps(r, Autoheal(r, t))
<1> DEFINE p == HealedPointer(r, t)
           h == HealedEmptyModule2(p)
<1>1. r \in Row
  BY DEF RowOK
<1>2. \/ Autoheal(r, t) = r
      \/ Autoheal(r, t) = Bumped(h) /\ ~(h = r /\ r.state \notin Running)
  BY HealedFlagSame DEF Autoheal
<1>3. CASE r.completed
  <2>1. r.state = "COMPLETED" /\ r.module = NoModule /\ r.state \notin Running
    BY <1>1, <1>3 DEF RowOK, Sound, Running
  <2>2. p = r
    BY <2>1 DEF HealedPointer
  <2>3. h = r
    BY <1>1, <2>1, <2>2 DEF HealedEmptyModule2, Row
  <2> QED  BY <1>2, <2>1, <2>3, KeepsReflexive
<1>4. CASE ~r.completed
  <2>1. /\ p \in Row /\ p.state = r.state /\ p.completed = r.completed
        /\ p.score = r.score /\ p.version = r.version
        /\ r.startedAt[2] # NoTime => p.startedAt[2] # NoTime
    BY <1>1, HealedPointerRow
  <2> HIDE DEF p
  <2>2. /\ h \in Row /\ h.completed = p.completed /\ h.score = p.score
        /\ h.version = p.version /\ h.startedAt = p.startedAt
        /\ h.state = p.state \/ (p.state = "MODULE_2_ACTIVE" /\ h.state = "SCORING")
    BY <2>1, HealedEmptyModule2Row
  <2> HIDE DEF h
  <2>3. r.state # "COMPLETED"
    BY <1>4 DEF RowOK, Sound
  <2>4. Placed(h) /\ (r.state # Absent => h.state # Absent)
    BY <2>1, <2>2 DEF RowOK, Sound, Placed, LegacySubmitted, Absent
  <2>5. Keeps(r, Bumped(h))
    BY <1>4, <2>1, <2>2, <2>3, <2>4, ChangedKeeps DEF Finished
  <2> QED  BY <1>2, <2>5, KeepsReflexive
<1> QED  BY <1>3, <1>4

-----------------------------------------------------------------------------
(* The views.                                                              *)

(* Operations that touch nothing but the clock's fields.                   *)
LEMMA ClockOnlyKeeps ==
  ASSUME NEW r, NEW s, RowOK(r), s \in Row,
         s.state = r.state, s.module = r.module, s.completed = r.completed,
         s.score = r.score, s.sheet = r.sheet, s.version = r.version,
         s.startedAt = r.startedAt
  PROVE  Keeps(r, s)
<1>1. r.version \in Nat
  BY RowFields DEF RowOK
<1> QED  BY <1>1 DEF Keeps, RowOK, Sound, Placed, Over, Contents

LEMMA SheetWritten ==
  ASSUME NEW r \in Row, NEW k \in Modules, NEW body \in SUBSET AllQuestions
  PROVE  r.sheet[k] \cup body \in SUBSET AllQuestions
  BY RowFields DEF Sheets

LEMMA SheetBumpedKeeps ==
  ASSUME NEW r, RowOK(r), ~r.completed, NEW k \in Modules, NEW body \in SUBSET AllQuestions
  PROVE  Keeps(r, Bumped([r EXCEPT !.sheet[k] = body]))
<1> DEFINE q == [r EXCEPT !.sheet[k] = body]
<1>1. r \in Row /\ r.state # "COMPLETED"
  BY DEF RowOK, Sound
<1>2. /\ q \in Row /\ q.state = r.state /\ q.completed = r.completed
      /\ q.score = r.score /\ q.startedAt = r.startedAt /\ q.version = r.version
  BY <1>1 DEF Row, Sheets
<1> HIDE DEF q
<1>3. Keeps(r, Bumped(q))
  BY <1>1, <1>2, ChangedKeeps DEF RowOK, Sound, Placed
<1> QED  BY <1>3 DEF q

LEMMA SaveAttemptKeeps ==
  ASSUME NEW r, RowOK(r), now \in Nat, NEW expected, NEW body \in SUBSET AllQuestions
  PROVE  Keeps(r, SaveAttempt(r, expected, body).row)
<1> DEFINE k == r.module
           answers == r.sheet[k] \cup body
<1>1. CASE k = NoModule \/ Stale(r, expected)
  BY <1>1, KeepsReflexive DEF SaveAttempt, Reply
<1>2. CASE k # NoModule /\ ~Stale(r, expected)
  <2>1. r \in Row /\ k \in Modules /\ ~r.completed
    BY <1>2, RowFields DEF RowOK, Sound
  <2>2. answers \in SUBSET AllQuestions
    BY <2>1, SheetWritten
  <2>3. CASE ~Expired(r, now)
    <3>1. SaveAttempt(r, expected, body).row = Bumped([r EXCEPT !.sheet[k] = body])
      BY <1>2, <2>3 DEF SaveAttempt, Reply
    <3> QED  BY <2>1, <3>1, SheetBumpedKeeps
  <2>4. CASE Expired(r, now) /\ MaySubmit(r)
    <3>1. SaveAttempt(r, expected, body).row = HandIn(r, answers, now)
      BY <1>2, <2>4 DEF SaveAttempt, Reply
    <3> HIDE DEF answers
    <3> QED  BY <2>2, <2>4, <3>1, HandInKeeps
  <2>5. CASE Expired(r, now) /\ ~MaySubmit(r)
    BY <1>2, <2>5, KeepsReflexive DEF SaveAttempt, Reply
  <2> QED  BY <2>3, <2>4, <2>5
<1> QED  BY <1>1, <1>2

LEMMA SubmitModuleKeeps ==
  ASSUME NEW r, RowOK(r), now \in Nat, NEW target, NEW body \in SUBSET AllQuestions
  PROVE  Keeps(r, SubmitModule(r, target, body).row)
<1> DEFINE healed == Autoheal(r, now)
           answers == healed.sheet[healed.module] \cup body
<1>1. Keeps(r, healed) /\ RowOK(healed)
  BY AutohealKeeps DEF Keeps
<1>2. \/ SubmitModule(r, target, body).row = healed
      \/ SubmitModule(r, target, body).row = r
      \/ MaySubmit(healed) /\ SubmitModule(r, target, body).row = HandIn(healed, answers, now)
  BY DEF SubmitModule, Reply
<1>3. ASSUME MaySubmit(healed) PROVE Keeps(r, HandIn(healed, answers, now))
  <2> HIDE DEF healed
  <2>1. healed \in Row /\ healed.module \in Modules
    BY <1>1, <1>3, RowFields DEF RowOK, MaySubmit
  <2>2. answers \in SUBSET AllQuestions
    BY <2>1, SheetWritten
  <2> HIDE DEF answers
  <2>3. Keeps(healed, HandIn(healed, answers, now))
    BY <1>1, <1>3, <2>2, HandInKeeps
  <2> QED  BY <1>1, <2>3, KeepsTransitive
<1> HIDE DEF healed, answers
<1> QED  BY <1>1, <1>2, <1>3, KeepsReflexive

LEMMA HealedStartKeeps ==
  ASSUME NEW r, RowOK(r), now \in Nat
  PROVE  /\ Keeps(r, Autoheal(r, now))
         /\ Keeps(r, StartAttempt(Autoheal(r, now), now))
<1> DEFINE healed == Autoheal(r, now)
<1>1. Keeps(r, healed) /\ RowOK(healed)
  BY AutohealKeeps DEF Keeps
<1> HIDE DEF healed
<1>2. Keeps(healed, StartAttempt(healed, now))
  BY <1>1, StartAttemptKeeps
<1>3. Keeps(r, StartAttempt(healed, now))
  BY <1>1, <1>2, KeepsTransitive
<1> QED  BY <1>1, <1>3 DEF healed

LEMMA ResumeAttemptKeeps ==
  ASSUME NEW r, RowOK(r), now \in Nat PROVE Keeps(r, ResumeAttempt(r).row)
  BY HealedStartKeeps DEF ResumeAttempt, Reply

LEMMA StartViewKeeps ==
  ASSUME NEW r, RowOK(r), now \in Nat, NEW untimed \in BOOLEAN
  PROVE  Keeps(r, StartView(r, untimed).row)
<1> DEFINE healed == Autoheal(r, now)
           free   == [healed EXCEPT !.timed = FALSE]
<1>1. Keeps(r, healed) /\ RowOK(healed)
  BY AutohealKeeps DEF Keeps
<1>2. \/ StartView(r, untimed).row = StartAttempt(free, now)
      \/ StartView(r, untimed).row = StartAttempt(healed, now)
  BY DEF StartView, Reply
<1> HIDE DEF healed
<1>3. Keeps(healed, free)
  <2>1. healed \in Row
    BY <1>1 DEF RowOK
  <2>2. free \in Row
    BY <2>1 DEF Row
  <2>3. /\ free.state = healed.state /\ free.module = healed.module
        /\ free.completed = healed.completed /\ free.score = healed.score
        /\ free.sheet = healed.sheet /\ free.version = healed.version
        /\ free.startedAt = healed.startedAt
    BY <2>1 DEF Row
  <2> HIDE DEF free
  <2> QED  BY <1>1, <2>2, <2>3, ClockOnlyKeeps
<1> HIDE DEF free
<1>4. Keeps(r, free) /\ RowOK(free)
  BY <1>1, <1>3, KeepsTransitive DEF Keeps
<1>5. Keeps(r, StartAttempt(free, now)) /\ Keeps(r, StartAttempt(healed, now))
  BY <1>1, <1>4, StartAttemptKeeps, KeepsTransitive
<1> QED  BY <1>2, <1>5

LEMMA StartModuleViewKeeps ==
  ASSUME NEW r, RowOK(r), now \in Nat, NEW k
  PROVE  Keeps(r, StartModuleView(r, k).row)
<1>1. \/ StartModuleView(r, k).row = r
      \/ StartModuleView(r, k).row = Autoheal(r, now)
      \/ StartModuleView(r, k).row = StartAttempt(Autoheal(r, now), now)
  BY DEF StartModuleView, Reply
<1> QED  BY <1>1, HealedStartKeeps, KeepsReflexive

LEMMA ReopenedKeeps ==
  ASSUME NEW r, RowOK(r), now \in Nat PROVE Keeps(r, Reopened(r).row)
<1>1. \/ Reopened(r).row = Autoheal(r, now)
      \/ Reopened(r).row = StartAttempt(Autoheal(r, now), now)
  BY DEF Reopened, Reply
<1> QED  BY <1>1, HealedStartKeeps

LEMMA DesktopOpenedKeeps ==
  ASSUME NEW r, RowOK(r), now \in Nat, NEW start \in BOOLEAN
  PROVE  Keeps(r, DesktopOpened(r, start).row)
<1>1. \/ DesktopOpened(r, start).row = Autoheal(r, now)
      \/ DesktopOpened(r, start).row = StartAttempt(Autoheal(r, now), now)
  BY DEF DesktopOpened, Reply
<1> QED  BY <1>1, HealedStartKeeps

LEMMA AbandonedKeeps ==
  ASSUME NEW r, RowOK(r)
  PROVE  Keeps(r, Abandoned(r)) /\ (Occupies(Abandoned(r)) => Occupies(r))
<1> DEFINE q == [r EXCEPT !.state = "ABANDONED", !.checkpoint = "MODULE_2_ACTIVE",
                          !.module = NoModule]
<1>1. CASE r.state = "MODULE_2_ACTIVE" /\ ~r.completed
  <2>1. r \in Row /\ r.state \notin Finished
    BY <1>1 DEF RowOK, Finished
  <2>2. /\ q \in Row /\ q.state = "ABANDONED" /\ q.completed = r.completed
        /\ q.score = r.score /\ q.startedAt = r.startedAt /\ q.version = r.version
    BY <2>1 DEF Row, States, Running
  <2>3. Abandoned(r) = Bumped(q)
    BY <1>1 DEF Abandoned
  <2> HIDE DEF q
  <2>4. Bumped(q).state = "ABANDONED"
    BY <2>2, BumpedFields
  <2>5. Placed(q) /\ q.state # Absent
    BY <2>2 DEF Placed, LegacySubmitted, Absent
  <2> QED  BY <1>1, <2>1, <2>2, <2>3, <2>4, <2>5, ChangedKeeps DEF Occupies
<1>2. CASE ~(r.state = "MODULE_2_ACTIVE" /\ ~r.completed)
  BY <1>2, KeepsReflexive DEF Abandoned
<1> QED  BY <1>1, <1>2

LEMMA PausedKeeps == ASSUME NEW r, RowOK(r), now \in Nat PROVE Keeps(r, Paused(r))
<1> DEFINE q == [r EXCEPT !.pauseAt = now]
<1>1. /\ q \in Row /\ q.state = r.state /\ q.module = r.module
      /\ q.completed = r.completed /\ q.score = r.score /\ q.sheet = r.sheet
      /\ q.version = r.version /\ q.startedAt = r.startedAt
  BY DEF RowOK, Row
<1> HIDE DEF q
<1>2. Keeps(r, q)
  BY <1>1, ClockOnlyKeeps
<1> QED  BY <1>2, KeepsReflexive DEF Paused, q

LEMMA UnpausedKeeps == ASSUME NEW r, RowOK(r), now \in Nat PROVE Keeps(r, Unpaused(r))
<1> DEFINE k       == r.module
           pause   == r.paused[k] + InFlightPause(r, now)
           stopped == [r EXCEPT !.pauseAt = NoTime]
           q       == [r EXCEPT !.pauseAt = NoTime, !.paused[k] = pause]
<1>1. r \in Row
  BY DEF RowOK
<1>2. CASE k = NoModule
  <2>1. /\ stopped \in Row /\ stopped.state = r.state /\ stopped.module = r.module
        /\ stopped.completed = r.completed /\ stopped.score = r.score
        /\ stopped.sheet = r.sheet /\ stopped.version = r.version
        /\ stopped.startedAt = r.startedAt
    BY <1>1 DEF Row
  <2>2. Unpaused(r) = stopped
    BY <1>2 DEF Unpaused
  <2> HIDE DEF stopped
  <2> QED  BY <2>1, <2>2, ClockOnlyKeeps
<1>3. CASE k # NoModule
  <2>1. k \in Modules
    BY <1>1, <1>3, RowFields
  <2>2. pause \in Nat
    <3>1. r.paused[k] \in Nat
      BY <1>1, <2>1, RowFields
    <3> QED  BY <1>1, <3>1, InFlightPauseNat
  <2>3. Unpaused(r) = q
    BY <1>1, <1>3 DEF Unpaused, Row
  <2> HIDE DEF k, pause
  <2>4. /\ q \in Row /\ q.state = r.state /\ q.module = r.module
        /\ q.completed = r.completed /\ q.score = r.score /\ q.sheet = r.sheet
        /\ q.version = r.version /\ q.startedAt = r.startedAt
    BY <1>1, <2>1, <2>2 DEF Row
  <2> HIDE DEF q
  <2> QED  BY <2>3, <2>4, ClockOnlyKeeps
<1> QED  BY <1>2, <1>3

LEMMA DesktopSyncKeeps ==
  ASSUME NEW r, RowOK(r), NEW k \in Modules, Live(r, k),
         NEW answered \in SUBSET Question[k], NEW cleared
  PROVE  Keeps(r, Bumped([r EXCEPT !.sheet[k] = (@ \ cleared) \cup answered]))
<1> DEFINE body == (r.sheet[k] \ cleared) \cup answered
<1>1. r \in Row /\ ~r.completed
  BY DEF RowOK, Sound, Live, Running
<1>2. body \in SUBSET AllQuestions
  BY <1>1, RowFields DEF Sheets, AllQuestions, Modules
<1>3. [r EXCEPT !.sheet[k] = (@ \ cleared) \cup answered] = [r EXCEPT !.sheet[k] = body]
  BY <1>1 DEF Row
<1> HIDE DEF body
<1> QED  BY <1>1, <1>2, <1>3, SheetBumpedKeeps

LEMMA DesktopPreparedKeeps ==
  ASSUME NEW r, RowOK(r), now \in Nat, NEW k \in Modules
  PROVE  Keeps(r, DesktopPrepared(r, k))
  BY HealedStartKeeps DEF DesktopPrepared

(* After the repair a running row has its own module open.                 *)
Aligned(r) == r.state \in Running => r.module = ModuleOf(r.state)

LEMMA AutohealAligns ==
  ASSUME NEW r, RowOK(r), NEW t \in Nat
  PROVE  Aligned(Autoheal(r, t))
<1> DEFINE p == HealedPointer(r, t)
           h == HealedEmptyModule2(p)
<1>1. r \in Row
  BY DEF RowOK
<1>2. CASE AuditClean(r)
  BY <1>2 DEF Autoheal, AuditClean, Aligned
<1>3. CASE ~AuditClean(r)
  <2>1. \/ Autoheal(r, t) = r /\ r.state \notin Running
        \/ Autoheal(r, t) = Bumped(h)
    BY <1>3, HealedFlagSame DEF Autoheal
  <2>2. ModuleOf(r.state) \in Modules
    BY DEF ModuleOf, Modules
  <2>3. p \in Row /\ Aligned(p)
    <3>1. CASE r.state \in Running
      <4> DEFINE k == ModuleOf(r.state)
                 s == SetActiveModule(r, k, t)
      <4>1. p = s
        BY <3>1 DEF HealedPointer
      <4>2. k \in Modules
        BY <2>2
      <4> HIDE DEF k
      <4>3. s \in Row /\ s.module = k /\ s.state = r.state
        BY <1>1, <4>2, SetActiveModuleRow
      <4> QED  BY <4>1, <4>3 DEF Aligned, k
    <3>2. CASE r.state \notin Running
      BY <1>1, <3>2 DEF HealedPointer, Aligned
    <3> QED  BY <3>1, <3>2
  <2> HIDE DEF p
  <2>4. Aligned(h)
    <3>1. CASE \/ p.state = "MODULE_2_ACTIVE" /\ Question[2] = {}
               \/ p.state \in Finished
      <4>1. h.state \in Finished
        BY <2>3, <3>1 DEF HealedEmptyModule2, Row, Finished
      <4> QED  BY <4>1 DEF Aligned, Running, Finished
    <3>2. CASE ~(\/ p.state = "MODULE_2_ACTIVE" /\ Question[2] = {}
                 \/ p.state \in Finished)
      BY <2>3, <3>2 DEF HealedEmptyModule2
    <3> QED  BY <3>1, <3>2
  <2>5. h \in Row
    BY <2>3, HealedEmptyModule2Row
  <2> HIDE DEF h
  <2>6. Aligned(Bumped(h))
    BY <2>4, <2>5, BumpedFields DEF Aligned
  <2> QED  BY <2>1, <2>6 DEF Aligned
<1> QED  BY <1>2, <1>3

LEMMA DesktopPreparedAligned ==
  ASSUME NEW r, RowOK(r), now \in Nat, NEW k \in Modules
  PROVE  Aligned(DesktopPrepared(r, k))
<1> DEFINE healed == Autoheal(r, now)
           q      == [healed EXCEPT !.state = "MODULE_1_ACTIVE"]
<1>1. Aligned(healed) /\ RowOK(healed)
  BY AutohealAligns, AutohealKeeps DEF Keeps
<1>2. DesktopPrepared(r, k) =
        IF healed.state = "NOT_STARTED" /\ k = 1 THEN StartAttempt(healed, now) ELSE healed
  BY DEF DesktopPrepared
<1> HIDE DEF healed
<1>3. CASE healed.state = "NOT_STARTED" /\ k = 1
  <2>1. healed \in Row /\ ~healed.completed
    BY <1>1, <1>3 DEF RowOK, Sound
  <2>2. q \in Row /\ q.state = "MODULE_1_ACTIVE"
    BY <2>1 DEF Row, States, Running
  <2>3. StartAttempt(healed, now) = SetActiveModule(Bumped(q), 1, now)
    BY <1>3, <2>1 DEF StartAttempt, Running
  <2> HIDE DEF q
  <2>4. Bumped(q) \in Row /\ Bumped(q).state = "MODULE_1_ACTIVE"
    BY <2>2, BumpedRow, BumpedFields
  <2>5. /\ SetActiveModule(Bumped(q), 1, now).module = 1
        /\ SetActiveModule(Bumped(q), 1, now).state = "MODULE_1_ACTIVE"
    BY <2>4, SetActiveModuleRow DEF Modules
  <2> QED  BY <1>2, <1>3, <2>3, <2>5 DEF Aligned, ModuleOf
<1> QED  BY <1>1, <1>2, <1>3

LEMMA DesktopSubmittedKeeps ==
  ASSUME NEW r, RowOK(r), now \in Nat, NEW k \in Modules,
         NEW answered \in SUBSET Question[k], NEW cleared
  PROVE  Keeps(r, DesktopSubmitted(r, k, answered, cleared).row)
<1> DEFINE current == DesktopPrepared(r, k)
           answers == (current.sheet[k] \ cleared) \cup answered
<1>1. Keeps(r, current) /\ RowOK(current)
  BY DesktopPreparedKeeps DEF Keeps
<1>2. DesktopSubmitted(r, k, answered, cleared).row =
        IF Live(current, k) THEN HandIn(current, answers, now) ELSE current
  BY DEF DesktopSubmitted, Reply
<1>3. Aligned(current)
  BY DesktopPreparedAligned
<1> HIDE DEF current
<1>4. ASSUME Live(current, k) PROVE Keeps(current, HandIn(current, answers, now))
  <2>1. answers \in SUBSET AllQuestions
    BY <1>1, RowFields DEF RowOK, Sheets, AllQuestions, Modules
  <2> HIDE DEF answers
  <2>2. MaySubmit(current)
    BY <1>3, <1>4 DEF Live, Aligned, MaySubmit, ModuleOf, ActiveIn, Running, Modules, NoModule
  <2> QED  BY <1>1, <2>1, <2>2, HandInKeeps
<1> QED  BY <1>1, <1>2, <1>4, KeepsTransitive

-----------------------------------------------------------------------------
(* The steps of the server.                                                *)

Sounds == \A a \in Attempts : Sound(rows[a])

(* What a step that grades nothing does to every row.                      *)
Ungraded(r, s) == Keeps(r, s) \/ (r.state = Absent /\ Keeps(FreshRow, s))

Quiet ==
  /\ TypeOK'
  /\ announced' = announced
  /\ \A a \in Attempts : Ungraded(rows[a], rows'[a])

LEMMA SoundsRows == ASSUME TypeOK, Sounds PROVE \A a \in Attempts : RowOK(rows[a])
  BY DEF TypeOK, Sounds, RowOK

LEMMA UnchangedRowsQuiet ==
  ASSUME TypeOK, Sounds, rows' = rows
  PROVE  \A a \in Attempts : Ungraded(rows[a], rows'[a])
  BY SoundsRows, KeepsReflexive DEF Ungraded

LEMMA FreshRowOK == RowOK(FreshRow) /\ FreshRow.state = "NOT_STARTED" /\ FreshRow.score = NoScore
<1>1. BlankRow \in Row
  BY DEF BlankRow, Row, Sheets, Modules, States, Absent, NoModule, NoTime, NoScore
<1>2. FreshRow \in Row /\ FreshRow.state = "NOT_STARTED" /\ FreshRow.completed = FALSE
      /\ FreshRow.score = NoScore
  BY <1>1 DEF FreshRow, BlankRow, Row, States
<1> QED  BY <1>2 DEF RowOK, Sound, Placed, LegacySubmitted

LEMMA CommitStep ==
  ASSUME TypeOK, Sounds, NEW a \in Attempts, NEW o, Commit(a, o), Ungraded(rows[a], o.row)
  PROVE  /\ rows' \in [Attempts -> Row]
         /\ jobs' \in [Attempts -> Nat]
         /\ pending' \subseteq Attempts
         /\ \A b \in Attempts : Ungraded(rows[b], rows'[b])
<1>1. o.row \in Row
  BY DEF Ungraded, Keeps, RowOK
<1>2. rows' = [rows EXCEPT ![a] = o.row]
  BY DEF Commit
<1>3. rows' \in [Attempts -> Row]
  BY <1>1, <1>2 DEF TypeOK
<1>4. jobs' \in [Attempts -> Nat] /\ pending' \subseteq Attempts
  BY DEF Commit, TypeOK
<1>5. ASSUME NEW b \in Attempts PROVE Ungraded(rows[b], rows'[b])
  <2>1. CASE b = a
    BY <1>2, <2>1 DEF TypeOK
  <2>2. CASE b # a
    <3>1. rows'[b] = rows[b]
      BY <1>2, <2>2 DEF TypeOK
    <3> QED  BY <3>1, SoundsRows, KeepsReflexive DEF Ungraded
  <2> QED  BY <2>1, <2>2
<1> QED  BY <1>3, <1>4, <1>5

LEMMA ViewRequestQuiet ==
  ASSUME TypeOK, Sounds, NEW a \in Attempts, NEW o,
         ViewRequest(a, o), Keeps(rows[a], o.row)
  PROVE  Quiet
<1>1. Commit(a, o) /\ UNCHANGED <<creating, outcome, announced, losses, now>>
  BY DEF ViewRequest, Request
<1> QED  BY <1>1, CommitStep DEF Quiet, Ungraded, TypeOK

LEMMA WebViewQuiet ==
  ASSUME TypeOK, Sounds, NEW a \in Attempts, WebView(a)
  PROVE  Quiet
<1>1. RowOK(rows[a]) /\ now \in Nat
  BY SoundsRows DEF TypeOK
<1>2. CASE Resume(a)
  BY <1>1, <1>2, ResumeAttemptKeeps, ViewRequestQuiet DEF Resume
<1>3. CASE Start(a)
  BY <1>1, <1>3, StartViewKeeps, ViewRequestQuiet DEF Start
<1>4. CASE StartModule(a)
  BY <1>1, <1>4, StartModuleViewKeeps, ViewRequestQuiet DEF StartModule
<1>5. Bodies \subseteq SUBSET AllQuestions
  BY DEF Bodies
<1>6. CASE Submit(a)
  <2>1. PICK target \in Modules \cup {NoModule}, body \in Bodies :
          ViewRequest(a, SubmitModule(rows[a], target, body))
    BY <1>6 DEF Submit
  <2>2. Keeps(rows[a], SubmitModule(rows[a], target, body).row)
    BY <1>1, <1>5, SubmitModuleKeeps
  <2> QED  BY <2>1, <2>2, ViewRequestQuiet
<1>7. CASE Save(a)
  <2>1. PICK expected \in 0 .. rows[a].version \cup {NoVersion}, body \in Bodies :
          ViewRequest(a, SaveAttempt(rows[a], expected, body))
    BY <1>7 DEF Save
  <2>2. Keeps(rows[a], SaveAttempt(rows[a], expected, body).row)
    BY <1>1, <1>5, SaveAttemptKeeps
  <2> QED  BY <2>1, <2>2, ViewRequestQuiet
<1>8. CASE Pause(a)
  <2>1. ViewRequest(a, Reply(200, Paused(rows[a]), "no"))
    BY <1>8 DEF Pause
  <2>2. Keeps(rows[a], Reply(200, Paused(rows[a]), "no").row)
    BY <1>1, PausedKeeps DEF Reply
  <2> QED  BY <2>1, <2>2, ViewRequestQuiet
<1>9. CASE ResumePause(a)
  <2>1. ViewRequest(a, Reply(200, Unpaused(rows[a]), "no"))
    BY <1>9 DEF ResumePause
  <2>2. Keeps(rows[a], Reply(200, Unpaused(rows[a]), "no").row)
    BY <1>1, UnpausedKeeps DEF Reply
  <2> QED  BY <2>1, <2>2, ViewRequestQuiet
<1> QED  BY <1>2, <1>3, <1>4, <1>6, <1>7, <1>8, <1>9 DEF WebView

LEMMA DesktopViewQuiet ==
  ASSUME TypeOK, Sounds, NEW a \in Attempts, DesktopView(a)
  PROVE  Quiet
<1>1. RowOK(rows[a]) /\ now \in Nat
  BY SoundsRows DEF TypeOK
<1>2. CASE DesktopOpen(a)
  BY <1>1, <1>2, DesktopOpenedKeeps, ViewRequestQuiet DEF DesktopOpen
<1>3. CASE DesktopStart(a)
  BY <1>1, <1>3, ResumeAttemptKeeps, ViewRequestQuiet DEF DesktopStart
<1>4. CASE DesktopSync(a)
  <2>1. PICK k \in Modules : \E answered, cleared \in SUBSET Question[k] :
          /\ Live(rows[a], k)
          /\ ViewRequest(a, Reply(200,
               Bumped([rows[a] EXCEPT !.sheet[k] = (@ \ cleared) \cup answered]), "no"))
    BY <1>4 DEF DesktopSync
  <2>2. PICK answered \in SUBSET Question[k], cleared \in SUBSET Question[k] :
          /\ Live(rows[a], k)
          /\ ViewRequest(a, Reply(200,
               Bumped([rows[a] EXCEPT !.sheet[k] = (@ \ cleared) \cup answered]), "no"))
    BY <2>1
  <2> DEFINE s == Bumped([rows[a] EXCEPT !.sheet[k] = (@ \ cleared) \cup answered])
  <2>3. Keeps(rows[a], s)
    BY <1>1, <2>2, DesktopSyncKeeps
  <2>4. ViewRequest(a, Reply(200, s, "no"))
    BY <2>2
  <2> HIDE DEF s
  <2>5. Keeps(rows[a], Reply(200, s, "no").row)
    BY <2>3 DEF Reply
  <2> QED  BY <2>4, <2>5, ViewRequestQuiet
<1>5. CASE DesktopSubmit(a)
  <2>1. PICK k \in Modules : \E answered, cleared \in SUBSET Question[k] :
          LET current == DesktopPrepared(rows[a], k)
          IN /\ outcome[a][k] = "none"
             /\ Request(a, DesktopSubmitted(rows[a], k, answered, cleared))
             /\ outcome' = [outcome EXCEPT ![a][k] =
                              CASE Live(current, k) -> "applied"
                                [] ~Live(current, k) /\ FutureTarget(current, k) -> "none"
                                [] OTHER -> "stale"]
             /\ UNCHANGED creating
    BY <1>5 DEF DesktopSubmit
  <2> DEFINE current == DesktopPrepared(rows[a], k)
             result  == CASE Live(current, k) -> "applied"
                          [] ~Live(current, k) /\ FutureTarget(current, k) -> "none"
                          [] OTHER -> "stale"
  <2>2. PICK answered \in SUBSET Question[k], cleared \in SUBSET Question[k] :
          /\ Request(a, DesktopSubmitted(rows[a], k, answered, cleared))
          /\ outcome' = [outcome EXCEPT ![a][k] = result]
          /\ UNCHANGED creating
    BY <2>1
  <2>3. result \in Outcomes
    BY DEF Outcomes
  <2> HIDE DEF result
  <2>4. Keeps(rows[a], DesktopSubmitted(rows[a], k, answered, cleared).row)
    BY <1>1, DesktopSubmittedKeeps
  <2>5. /\ Commit(a, DesktopSubmitted(rows[a], k, answered, cleared))
        /\ UNCHANGED <<announced, losses, now>>
    BY <2>2 DEF Request
  <2>6. outcome' \in [Attempts -> [Modules -> Outcomes]]
    BY <2>2, <2>3 DEF TypeOK
  <2> QED  BY <2>2, <2>4, <2>5, <2>6, CommitStep DEF Quiet, Ungraded, TypeOK
<1>6. CASE DesktopPause(a)
  <2>1. ViewRequest(a, Reply(200, Paused(rows[a]), "no"))
    BY <1>6 DEF DesktopPause
  <2>2. Keeps(rows[a], Reply(200, Paused(rows[a]), "no").row)
    BY <1>1, PausedKeeps DEF Reply
  <2> QED  BY <2>1, <2>2, ViewRequestQuiet
<1>7. CASE DesktopResume(a)
  <2>1. ViewRequest(a, Reply(200, Unpaused(rows[a]), "no"))
    BY <1>7 DEF DesktopResume
  <2>2. Keeps(rows[a], Reply(200, Unpaused(rows[a]), "no").row)
    BY <1>1, UnpausedKeeps DEF Reply
  <2> QED  BY <2>1, <2>2, ViewRequestQuiet
<1> QED  BY <1>2, <1>3, <1>4, <1>5, <1>6, <1>7 DEF DesktopView

LEMMA CreationQuiet ==
  ASSUME TypeOK, Sounds, Creation
  PROVE  Quiet
<1>1. \A a \in Attempts : RowOK(rows[a])
  BY SoundsRows
<1>2. now \in Nat /\ \A p \in Phases : creating[p] \in Nat
  BY DEF TypeOK
<1>3. "insert" \in Phases /\ "reuse" \in Phases
  BY DEF Phases
<1>4. CASE AbandonStaleModule2
  <2>1. \A a \in Attempts : Keeps(rows[a], Abandoned(rows[a]))
    BY <1>1, AbandonedKeeps
  <2>2. rows' = [a \in Attempts |-> Abandoned(rows[a])]
    BY <1>4 DEF AbandonStaleModule2
  <2>3. \A a \in Attempts : Keeps(rows[a], rows'[a])
    BY <2>1, <2>2
  <2>4. rows' \in [Attempts -> Row]
    BY <2>1, <2>2 DEF Keeps, RowOK
  <2>5. creating' \in [Phases -> Nat]
    BY <1>2, <1>3, <1>4 DEF AbandonStaleModule2, TypeOK
  <2> QED  BY <1>4, <2>3, <2>4, <2>5 DEF AbandonStaleModule2, Quiet, Ungraded, TypeOK
<1>5. CASE DesktopCreate
  <2>1. PICK a \in Attempts :
          NextId(a) /\ Commit(a, Reply(200, FreshRow, "no"))
          /\ UNCHANGED <<creating, outcome, announced, losses, now>>
    BY <1>5 DEF DesktopCreate
  <2>2. Ungraded(rows[a], Reply(200, FreshRow, "no").row)
    BY <2>1, FreshRowOK, KeepsReflexive DEF Reply, Ungraded, NextId, Exists
  <2> QED  BY <2>1, <2>2, CommitStep DEF Quiet, TypeOK
<1>6. CASE CreateWithoutAbandoning
  <2>1. creating' \in [Phases -> Nat]
    BY <1>2, <1>3, <1>6 DEF CreateWithoutAbandoning, TypeOK
  <2> QED  BY <1>6, <2>1, UnchangedRowsQuiet DEF CreateWithoutAbandoning, Quiet, TypeOK
<1>7. CASE CreateInsert
  <2>1. PICK a \in Attempts :
          /\ creating["insert"] > 0
          /\ NextId(a)
          /\ Commit(a, Reply(201, Reopened(FreshRow).row, "no"))
          /\ creating' = [creating EXCEPT !["insert"] = @ - 1]
          /\ UNCHANGED <<outcome, announced, losses, now>>
    BY <1>7 DEF CreateInsert
  <2>2. Ungraded(rows[a], Reply(201, Reopened(FreshRow).row, "no").row)
    BY <1>2, <2>1, FreshRowOK, ReopenedKeeps DEF Reply, Ungraded, NextId, Exists
  <2>3. creating' \in [Phases -> Nat]
    BY <1>2, <1>3, <2>1 DEF TypeOK
  <2> QED  BY <2>1, <2>2, <2>3, CommitStep DEF Quiet, TypeOK
<1>8. CASE CreateRefused
  <2>1. creating' \in [Phases -> Nat]
    BY <1>2, <1>3, <1>8 DEF CreateRefused, TypeOK
  <2> QED  BY <1>8, <2>1, UnchangedRowsQuiet DEF CreateRefused, Quiet, TypeOK
<1>9. CASE CreateReuse
  <2>1. PICK a \in Attempts :
          /\ creating["reuse"] > 0
          /\ Request(a, Reopened(rows[a]))
          /\ creating' = [creating EXCEPT !["reuse"] = @ - 1]
          /\ UNCHANGED outcome
    BY <1>9 DEF CreateReuse
  <2>2. Keeps(rows[a], Reopened(rows[a]).row)
    BY <1>1, <1>2, ReopenedKeeps
  <2>3. creating' \in [Phases -> Nat]
    BY <1>2, <1>3, <2>1 DEF TypeOK
  <2>4. Commit(a, Reopened(rows[a])) /\ UNCHANGED <<announced, losses, now>>
    BY <2>1 DEF Request
  <2> QED  BY <2>1, <2>2, <2>3, <2>4, CommitStep DEF Quiet, Ungraded, TypeOK
<1>10. CASE CreateFails
  <2>1. creating' \in [Phases -> Nat]
    BY <1>2, <1>10 DEF CreateFails, TypeOK
  <2> QED  BY <1>10, <2>1, UnchangedRowsQuiet DEF CreateFails, Quiet, TypeOK
<1> QED  BY <1>4, <1>5, <1>6, <1>7, <1>8, <1>9, <1>10 DEF Creation

LEMMA CompleteTestRow ==
  ASSUME NEW r, RowOK(r), r.state = "SCORING"
  PROVE  LET s == CompleteTest(r)
         IN /\ RowOK(s) /\ s.state = "COMPLETED" /\ s.completed
            /\ s.sheet = r.sheet /\ s.score = {s.sheet} /\ s.version > r.version
<1> DEFINE q == [r EXCEPT !.state = "COMPLETED", !.completed = TRUE, !.module = NoModule,
                          !.score = {r.sheet}]
<1>1. r \in Row /\ {r.sheet} \subseteq Sheets
  BY RowFields DEF RowOK
<1>2. CompleteTest(r) = Bumped(q)
  BY DEF CompleteTest
<1>3. /\ q \in Row /\ q.state = "COMPLETED" /\ q.completed = TRUE /\ q.module = NoModule
      /\ q.score = {r.sheet} /\ q.sheet = r.sheet /\ q.version = r.version
  BY <1>1 DEF Row, States, Finished
<1> HIDE DEF q
<1>4. Bumped(q) \in Row /\ Bumped(q).version > r.version
  BY <1>3, BumpedRow
<1>5. /\ Bumped(q).state = "COMPLETED" /\ Bumped(q).completed = TRUE
      /\ Bumped(q).module = NoModule /\ Bumped(q).score = {r.sheet}
      /\ Bumped(q).sheet = r.sheet
  BY <1>3, BumpedFields
<1> QED  BY <1>2, <1>4, <1>5 DEF RowOK, Sound, Placed, LegacySubmitted

(* The one step that grades: of an attempt in SCORING, announced at once.  *)
Graded(a) ==
  /\ TypeOK'
  /\ rows[a].state = "SCORING"
  /\ rows' = [rows EXCEPT ![a] = CompleteTest(rows[a])]
  /\ announced' = [announced EXCEPT ![a] = @ + 1]

LEMMA ScoreAttemptGrades ==
  ASSUME TypeOK, Sounds, NEW a \in Attempts, ScoreAttempt(a)
  PROVE  Quiet \/ Graded(a)
<1>1. RowOK(rows[a]) /\ jobs[a] \in Nat /\ announced[a] \in Nat
  BY SoundsRows DEF TypeOK
<1>2. /\ jobs[a] > 0 /\ jobs' = [jobs EXCEPT ![a] = @ - 1]
      /\ UNCHANGED <<pending, creating, outcome, losses, now>>
  BY DEF ScoreAttempt
<1>3. jobs' \in [Attempts -> Nat]
  BY <1>1, <1>2 DEF TypeOK
<1>4. CASE rows[a].state = "SCORING"
  <2>1. /\ rows' = [rows EXCEPT ![a] = CompleteTest(rows[a])]
        /\ announced' = [announced EXCEPT ![a] = @ + 1]
    BY <1>4 DEF ScoreAttempt
  <2>2. CompleteTest(rows[a]) \in Row
    BY <1>1, <1>4, CompleteTestRow DEF RowOK
  <2>3. rows' \in [Attempts -> Row] /\ announced' \in [Attempts -> Nat]
    BY <1>1, <2>1, <2>2 DEF TypeOK
  <2> QED  BY <1>2, <1>3, <1>4, <2>1, <2>3 DEF Graded, TypeOK
<1>5. CASE rows[a].state # "SCORING"
  <2>1. rows' = rows /\ announced' = announced
    BY <1>5 DEF ScoreAttempt
  <2> QED  BY <1>2, <1>3, <2>1, UnchangedRowsQuiet DEF Quiet, TypeOK
<1> QED  BY <1>4, <1>5

LEMMA LosePointerQuiet ==
  ASSUME TypeOK, Sounds, NEW a \in Attempts, LosePointer(a)
  PROVE  Quiet
<1> DEFINE q == [rows[a] EXCEPT !.module = NoModule]
<1>1. RowOK(rows[a]) /\ losses \in Nat
  BY SoundsRows DEF TypeOK
<1>2. /\ rows' = [rows EXCEPT ![a] = q] /\ losses' = losses + 1
      /\ UNCHANGED <<jobs, pending, creating, outcome, announced, now>>
  BY <1>1 DEF LosePointer, TypeOK
<1>3. /\ q \in Row /\ q.state = rows[a].state /\ q.completed = rows[a].completed
      /\ q.score = rows[a].score /\ q.sheet = rows[a].sheet
      /\ q.version = rows[a].version /\ q.startedAt = rows[a].startedAt
      /\ q.module = NoModule
  BY <1>1 DEF RowOK, Row
<1> HIDE DEF q
<1>4. rows[a].version \in Nat
  BY <1>1, RowFields DEF RowOK
<1>5. Keeps(rows[a], q)
  BY <1>1, <1>3, <1>4 DEF Keeps, RowOK, Sound, Placed, Over, Contents
<1>6. \A b \in Attempts : Ungraded(rows[b], rows'[b])
  BY <1>2, <1>5, SoundsRows, KeepsReflexive DEF TypeOK, Ungraded
<1>7. rows' \in [Attempts -> Row] /\ losses' \in Nat
  BY <1>1, <1>2, <1>3 DEF TypeOK
<1> QED  BY <1>2, <1>6, <1>7 DEF Quiet, TypeOK

LEMMA BackgroundQuiet ==
  ASSUME TypeOK, Sounds, NEW a \in Attempts, Background(a)
  PROVE  Quiet \/ Graded(a)
<1>1. jobs[a] \in Nat
  BY DEF TypeOK
<1>2. CASE EnqueueAfterCommit(a)
  <2>1. jobs' \in [Attempts -> Nat] /\ pending' \subseteq Attempts
    BY <1>1, <1>2 DEF EnqueueAfterCommit, TypeOK
  <2> QED  BY <1>2, <2>1, UnchangedRowsQuiet DEF EnqueueAfterCommit, Quiet, TypeOK
<1>3. CASE EnqueueLost(a)
  BY <1>3, UnchangedRowsQuiet DEF EnqueueLost, Quiet, TypeOK
<1>4. CASE ScoreAttempt(a)
  BY <1>4, ScoreAttemptGrades
<1>5. CASE WorkerDies(a)
  <2>1. jobs' \in [Attempts -> Nat]
    BY <1>1, <1>5 DEF WorkerDies, TypeOK
  <2> QED  BY <1>5, <2>1, UnchangedRowsQuiet DEF WorkerDies, Quiet, TypeOK
<1>6. CASE RequeueStuck(a)
  <2>1. jobs' \in [Attempts -> Nat]
    BY <1>1, <1>6 DEF RequeueStuck, TypeOK
  <2> QED  BY <1>6, <2>1, UnchangedRowsQuiet DEF RequeueStuck, Quiet, TypeOK
<1>7. CASE LosePointer(a)
  BY <1>7, LosePointerQuiet
<1> QED  BY <1>2, <1>3, <1>4, <1>5, <1>6, <1>7 DEF Background

LEMMA StepQuiet ==
  ASSUME TypeOK, Sounds, [Next]_vars
  PROVE  Quiet \/ \E a \in Attempts : Graded(a)
<1>1. CASE Creation
  BY <1>1, CreationQuiet
<1>2. CASE Tick
  <2>1. now' \in Nat
    BY <1>2 DEF Tick, TypeOK
  <2> QED  BY <1>2, <2>1, UnchangedRowsQuiet DEF Tick, Quiet, TypeOK
<1>3. CASE \E a \in Attempts : WebView(a) \/ DesktopView(a) \/ Background(a)
  BY <1>3, WebViewQuiet, DesktopViewQuiet, BackgroundQuiet
<1>4. CASE UNCHANGED vars
  BY <1>4, UnchangedRowsQuiet DEF vars, Quiet, TypeOK
<1> QED  BY <1>1, <1>2, <1>3, <1>4 DEF Next

-----------------------------------------------------------------------------
(* The theorems.  The inductive invariant: the types, completion flagged   *)
(* exactly in COMPLETED (so that no view reaches a completed sheet), rows  *)
(* that are Placed, and the grading property itself.                      *)

ServerInv == TypeOK /\ Sounds /\ GradedOnce

LEMMA InitServerInv == ASSUME Init PROVE ServerInv
<1>1. FreshRow \in Row /\ BlankRow \in Row /\ BlankRow.state = Absent
      /\ BlankRow.completed = FALSE /\ BlankRow.score = NoScore
  BY FreshRowOK DEF RowOK, BlankRow, Row, Sheets, Modules, States, Absent, NoModule,
                    NoTime, NoScore
<1>2. TypeOK
  BY <1>1 DEF Init, TypeOK, Outcomes
<1>3. Sounds
  BY <1>1 DEF Init, Sounds, Sound, Placed, LegacySubmitted, Absent
<1>4. GradedOnce
  BY <1>1 DEF Init, GradedOnce
<1> QED  BY <1>2, <1>3, <1>4 DEF ServerInv

LEMMA QuietServerInv == ASSUME ServerInv, Quiet PROVE ServerInv'
<1>1. TypeOK' /\ announced' = announced
  BY DEF Quiet
<1>2. FreshRow.completed = FALSE /\ FreshRow.score = NoScore
  BY FreshRowOK DEF RowOK, Sound, FreshRow, BlankRow
<1>3. ASSUME NEW a \in Attempts
      PROVE  /\ Sound(rows'[a])
             /\ announced'[a] = IF rows'[a].completed THEN 1 ELSE 0
             /\ rows'[a].score = IF rows'[a].completed THEN {rows'[a].sheet} ELSE NoScore
  <2>1. /\ announced[a] = IF rows[a].completed THEN 1 ELSE 0
        /\ rows[a].score = IF rows[a].completed THEN {rows[a].sheet} ELSE NoScore
        /\ rows[a].completed <=> rows[a].state = "COMPLETED"
    BY DEF ServerInv, GradedOnce, Sounds, Sound
  <2>2. CASE Keeps(rows[a], rows'[a])
    BY <1>1, <2>1, <2>2 DEF Keeps, RowOK
  <2>3. CASE rows[a].state = Absent /\ Keeps(FreshRow, rows'[a])
    BY <1>1, <1>2, <2>1, <2>3 DEF Keeps, RowOK, Absent
  <2> QED  BY <2>2, <2>3 DEF Quiet, Ungraded
<1> QED  BY <1>1, <1>3 DEF ServerInv, Sounds, GradedOnce

LEMMA GradedServerInv ==
  ASSUME ServerInv, NEW a \in Attempts, Graded(a)
  PROVE  ServerInv'
<1> DEFINE s == CompleteTest(rows[a])
<1>1. RowOK(rows[a]) /\ ~rows[a].completed /\ announced[a] = 0
  BY SoundsRows DEF ServerInv, Sounds, Sound, Graded, GradedOnce
<1>2. RowOK(s) /\ s.completed /\ s.score = {s.sheet}
  BY <1>1, CompleteTestRow DEF Graded
<1>3. /\ rows' = [rows EXCEPT ![a] = s] /\ announced' = [announced EXCEPT ![a] = @ + 1]
      /\ TypeOK'
  BY DEF Graded
<1> HIDE DEF s
<1>4. ASSUME NEW b \in Attempts
      PROVE  /\ Sound(rows'[b])
             /\ announced'[b] = IF rows'[b].completed THEN 1 ELSE 0
             /\ rows'[b].score = IF rows'[b].completed THEN {rows'[b].sheet} ELSE NoScore
  <2>1. CASE b = a
    <3>1. rows'[b] = s /\ announced'[b] = 1
      BY <1>1, <1>3, <2>1 DEF ServerInv, TypeOK
    <3> QED  BY <1>2, <3>1 DEF RowOK
  <2>2. CASE b # a
    <3>1. rows'[b] = rows[b] /\ announced'[b] = announced[b]
      BY <1>3, <2>2 DEF ServerInv, TypeOK
    <3> QED  BY <3>1 DEF ServerInv, Sounds, GradedOnce
  <2> QED  BY <2>1, <2>2
<1> QED  BY <1>3, <1>4 DEF ServerInv, Sounds, GradedOnce

LEMMA ServerInvInductive == ASSUME ServerInv, [Next]_vars PROVE ServerInv'
<1>1. Quiet \/ \E a \in Attempts : Graded(a)
  BY StepQuiet DEF ServerInv
<1> QED  BY <1>1, QuietServerInv, GradedServerInv

LEMMA ServerInvHolds == Spec => []ServerInv
<1>1. Init => ServerInv
  BY InitServerInv
<1>2. ServerInv /\ [Next]_vars => ServerInv'
  BY ServerInvInductive
<1> QED  BY <1>1, <1>2, PTL DEF Spec

(* Every variable keeps its type, whatever the bounds.                     *)
THEOREM TypeCorrect == Spec => []TypeOK
<1>1. ServerInv => TypeOK
  BY DEF ServerInv
<1> QED  BY <1>1, ServerInvHolds, PTL

(* However many jobs, requeues, crashes and repairs there are, a completed *)
(* attempt was graded once, on the answers it holds, and announced once.   *)
THEOREM GradedOnceHolds == Spec => []GradedOnce
<1>1. ServerInv => GradedOnce
  BY DEF ServerInv
<1> QED  BY <1>1, ServerInvHolds, PTL

(* version_number grows with every change of state, answers or score, by   *)
(* whichever view, client, repair or worker.                               *)
THEOREM VersionTracksChangesHolds == Spec => VersionTracksChanges
<1>1. ASSUME ServerInv, [Next]_vars, NEW a \in Attempts,
             Contents(rows[a]) # Contents(rows'[a]), rows[a].state # Absent
      PROVE  rows'[a].version > rows[a].version
  <2>1. CASE Quiet
    BY <1>1, <2>1 DEF Quiet, Ungraded, Keeps
  <2>2. CASE \E b \in Attempts : Graded(b)
    <3>1. PICK b \in Attempts : Graded(b)
      BY <2>2
    <3>2. a = b /\ rows'[a] = CompleteTest(rows[a])
      BY <1>1, <3>1 DEF Graded, ServerInv, TypeOK
    <3> QED  BY <1>1, <3>1, <3>2, SoundsRows, CompleteTestRow DEF ServerInv, Graded
  <2> QED  BY <1>1, <2>1, <2>2, StepQuiet DEF ServerInv
<1>2. ServerInv /\ [Next]_vars =>
        [\A a \in Attempts :
           LET r == rows[a]
               s == rows'[a]
           IN (/\ <<r.state, r.sheet, r.score>> # <<s.state, s.sheet, s.score>>
               /\ r.state # Absent)
                => s.version > r.version]_vars
  BY <1>1 DEF Contents
<1> QED  BY <1>2, ServerInvHolds, PTL DEF Spec, VersionTracksChanges

-----------------------------------------------------------------------------
(* One active attempt.  Every request commits one row, past the unique     *)
(* constraint; every other step opens nothing.                             *)

Commits == \E a \in Attempts : \E o : Commit(a, o)

OpensNothing == \A a \in Attempts : Occupies(rows'[a]) => Occupies(rows[a])

LEMMA ViewRequestCommits ==
  ASSUME NEW a \in Attempts, NEW o, ViewRequest(a, o)
  PROVE  Commits
  BY DEF ViewRequest, Request, Commits

LEMMA WebViewCommits == ASSUME NEW a \in Attempts, WebView(a) PROVE Commits
<1>1. CASE Resume(a)
  BY <1>1, ViewRequestCommits DEF Resume
<1>2. CASE Start(a)
  BY <1>2, ViewRequestCommits DEF Start
<1>3. CASE StartModule(a)
  BY <1>3, ViewRequestCommits DEF StartModule
<1>4. CASE Submit(a)
  BY <1>4, ViewRequestCommits DEF Submit
<1>5. CASE Save(a)
  BY <1>5, ViewRequestCommits DEF Save
<1>6. CASE Pause(a)
  BY <1>6, ViewRequestCommits DEF Pause
<1>7. CASE ResumePause(a)
  BY <1>7, ViewRequestCommits DEF ResumePause
<1> QED  BY <1>1, <1>2, <1>3, <1>4, <1>5, <1>6, <1>7 DEF WebView

LEMMA DesktopViewCommits == ASSUME NEW a \in Attempts, DesktopView(a) PROVE Commits
<1>1. CASE DesktopOpen(a)
  BY <1>1, ViewRequestCommits DEF DesktopOpen
<1>2. CASE DesktopStart(a)
  BY <1>2, ViewRequestCommits DEF DesktopStart
<1>3. CASE DesktopSync(a)
  BY <1>3, ViewRequestCommits DEF DesktopSync
<1>4. CASE DesktopSubmit(a)
  <2>1. PICK k \in Modules : \E answered, cleared \in SUBSET Question[k] :
          Request(a, DesktopSubmitted(rows[a], k, answered, cleared))
    BY <1>4 DEF DesktopSubmit
  <2> QED  BY <2>1 DEF Request, Commits
<1>5. CASE DesktopPause(a)
  BY <1>5, ViewRequestCommits DEF DesktopPause
<1>6. CASE DesktopResume(a)
  BY <1>6, ViewRequestCommits DEF DesktopResume
<1> QED  BY <1>1, <1>2, <1>3, <1>4, <1>5, <1>6 DEF DesktopView

LEMMA CreationOccupies ==
  ASSUME TypeOK, Sounds, Creation
  PROVE  Commits \/ OpensNothing
<1>1. CASE AbandonStaleModule2
  <2>1. \A a \in Attempts : rows'[a] = Abandoned(rows[a])
    BY <1>1 DEF AbandonStaleModule2
  <2>2. \A a \in Attempts : Occupies(Abandoned(rows[a])) => Occupies(rows[a])
    BY SoundsRows, AbandonedKeeps
  <2> QED  BY <2>1, <2>2 DEF OpensNothing
<1>2. CASE DesktopCreate
  BY <1>2 DEF DesktopCreate, Commits
<1>3. CASE CreateInsert
  BY <1>3 DEF CreateInsert, Commits
<1>4. CASE CreateReuse
  BY <1>4 DEF CreateReuse, Request, Commits
<1>5. CASE CreateWithoutAbandoning \/ CreateRefused \/ CreateFails
  BY <1>5 DEF CreateWithoutAbandoning, CreateRefused, CreateFails, OpensNothing
<1> QED  BY <1>1, <1>2, <1>3, <1>4, <1>5 DEF Creation

LEMMA BackgroundOpensNothing ==
  ASSUME TypeOK, Sounds, NEW a \in Attempts, Background(a)
  PROVE  OpensNothing
<1>1. CASE ScoreAttempt(a)
  <2>1. CASE rows[a].state = "SCORING"
    <3>1. CompleteTest(rows[a]).completed /\ rows' = [rows EXCEPT ![a] = CompleteTest(rows[a])]
      BY <1>1, <2>1, SoundsRows, CompleteTestRow DEF ScoreAttempt
    <3> QED  BY <3>1 DEF OpensNothing, Occupies, TypeOK
  <2>2. CASE rows[a].state # "SCORING"
    BY <1>1, <2>2 DEF ScoreAttempt, OpensNothing
  <2> QED  BY <2>1, <2>2
<1>2. CASE LosePointer(a)
  <2>1. rows' = [rows EXCEPT ![a] = [rows[a] EXCEPT !.module = NoModule]] /\ rows[a] \in Row
    BY <1>2 DEF LosePointer, TypeOK
  <2>2. \A b \in Attempts :
          rows'[b].state = rows[b].state /\ rows'[b].completed = rows[b].completed
    BY <2>1 DEF TypeOK, Row
  <2> QED  BY <2>2 DEF OpensNothing, Occupies
<1>3. CASE EnqueueAfterCommit(a) \/ EnqueueLost(a) \/ WorkerDies(a) \/ RequeueStuck(a)
  BY <1>3 DEF EnqueueAfterCommit, EnqueueLost, WorkerDies, RequeueStuck, OpensNothing
<1> QED  BY <1>1, <1>2, <1>3 DEF Background

LEMMA StepOccupies ==
  ASSUME TypeOK, Sounds, [Next]_vars
  PROVE  Commits \/ OpensNothing
<1>1. CASE Creation
  BY <1>1, CreationOccupies
<1>2. CASE \E a \in Attempts : WebView(a) \/ DesktopView(a) \/ Background(a)
  BY <1>2, WebViewCommits, DesktopViewCommits, BackgroundOpensNothing
<1>3. CASE Tick \/ UNCHANGED vars
  BY <1>3 DEF Tick, vars, OpensNothing
<1> QED  BY <1>1, <1>2, <1>3 DEF Next

LEMMA CommitsOneActive == ASSUME TypeOK, OneActive, Commits PROVE OneActive'
<1>1. PICK a \in Attempts : \E o : Commit(a, o)
  BY DEF Commits
<1>2. PICK o : Commit(a, o)
  BY <1>1
<1>3. rows' = [rows EXCEPT ![a] = o.row] /\ Admitted(a, o.row)
  BY <1>2 DEF Commit
<1>4. /\ rows'[a] = o.row
      /\ \A b \in Attempts \ {a} : rows'[b] = rows[b]
  BY <1>3 DEF TypeOK
<1>5. ASSUME NEW b \in Attempts, NEW c \in Attempts, Occupies(rows'[b]), Occupies(rows'[c])
      PROVE  b = c
  BY <1>3, <1>4, <1>5 DEF OneActive, Admitted
<1> QED  BY <1>5 DEF OneActive

(* Whatever the order of creates, resumes, abandonments and repairs, on    *)
(* the website and in the app, no two attempts of a student on one paper   *)
(* are in progress.                                                        *)
THEOREM OneActiveHolds == Spec => []OneActive
<1>1. Init => OneActive
  <2>1. ~Occupies(BlankRow)
    BY DEF Occupies, BlankRow
  <2> QED  BY <2>1 DEF Init, OneActive
<1>2. ServerInv /\ OneActive /\ [Next]_vars => OneActive'
  <2> SUFFICES ASSUME ServerInv, OneActive, [Next]_vars PROVE OneActive'
    OBVIOUS
  <2>1. CASE Commits
    BY <2>1, CommitsOneActive DEF ServerInv
  <2>2. CASE OpensNothing
    BY <2>2 DEF OpensNothing, OneActive
  <2> QED  BY <2>1, <2>2, StepOccupies DEF ServerInv
<1> QED  BY <1>1, <1>2, ServerInvHolds, PTL DEF Spec
-----------------------------------------------------------------------------
(* The remembered outcomes.  One request stores them: what it stores says  *)
(* of the row it leaves that the module is over, and Keeps lets nothing    *)
(* undo that.                                                              *)

LEMMA DesktopSubmittedOver ==
  ASSUME NEW r, RowOK(r), r.state # Absent, now \in Nat, NEW k \in Modules,
         NEW answered \in SUBSET Question[k], NEW cleared,
         \/ Live(DesktopPrepared(r, k), k)
         \/ ~FutureTarget(DesktopPrepared(r, k), k)
  PROVE  LET s == DesktopSubmitted(r, k, answered, cleared).row
         IN s.state # Absent /\ Over(s, k)
<1> DEFINE current == DesktopPrepared(r, k)
           answers == (current.sheet[k] \ cleared) \cup answered
           s       == DesktopSubmitted(r, k, answered, cleared).row
<1>1. RowOK(current) /\ current.state # Absent /\ Aligned(current)
  BY DesktopPreparedKeeps, DesktopPreparedAligned DEF Keeps
<1>2. s = IF Live(current, k) THEN HandIn(current, answers, now) ELSE current
  BY DEF DesktopSubmitted, Reply
<1>3. Live(current, k) \/ ~FutureTarget(current, k)
  OBVIOUS
<1>4. s.state # Absent
  BY <1>1, DesktopSubmittedKeeps DEF Keeps
<1> HIDE DEF current, s
<1>5. CASE Live(current, k)
  <2>1. answers \in SUBSET AllQuestions
    BY <1>1, RowFields DEF RowOK, Sheets, AllQuestions, Modules
  <2> HIDE DEF answers
  <2>2. MaySubmit(current) /\ current.module = k
    BY <1>1, <1>5 DEF Live, Aligned, MaySubmit, ModuleOf, ActiveIn, Running, Modules, NoModule
  <2> QED  BY <1>1, <1>2, <1>4, <1>5, <2>1, <2>2, HandInKeeps DEF s
<1>6. CASE ~Live(current, k) /\ ~FutureTarget(current, k)
  <2>1. CASE current.state \in Running
    <3>1. current.module = ModuleOf(current.state) /\ k # current.module
      BY <1>1, <1>6, <2>1 DEF Aligned, Live
    <3>2. k = 1 /\ current.module = 2
      BY <1>6, <2>1, <3>1 DEF FutureTarget, ModuleOf, Modules, NoModule
    <3>3. current.state = "MODULE_2_ACTIVE"
      BY <2>1, <3>1, <3>2 DEF ModuleOf, Running
    <3> QED  BY <1>1, <1>2, <1>4, <1>6, <3>2, <3>3 DEF RowOK, Sound, Placed, Over, s
  <2>2. CASE current.state \notin Running
    <3>1. current.state \in States \cup {Absent} /\ current.state \notin LegacySubmitted
      BY <1>1, RowFields DEF RowOK, Sound, Placed
    <3>2. current.state \in Finished
      BY <1>1, <1>6, <2>2, <3>1 DEF FutureTarget, States
    <3> QED  BY <1>2, <1>4, <1>6, <3>2 DEF Over, s
  <2> QED  BY <2>1, <2>2
<1> QED  BY <1>3, <1>5, <1>6 DEF s

(* What a step may do to the stored outcomes.                              *)
StoresOnlyOver ==
  \A a \in Attempts, k \in Modules :
    \/ outcome'[a][k] = outcome[a][k]
    \/ rows'[a].state # Absent /\ Over(rows'[a], k)

LEMMA DesktopSubmitStores ==
  ASSUME TypeOK, Sounds, NEW a \in Attempts, DesktopSubmit(a)
  PROVE  StoresOnlyOver
<1>1. PICK k \in Modules : \E answered, cleared \in SUBSET Question[k] :
        LET current == DesktopPrepared(rows[a], k)
        IN /\ outcome[a][k] = "none"
           /\ Request(a, DesktopSubmitted(rows[a], k, answered, cleared))
           /\ outcome' = [outcome EXCEPT ![a][k] =
                            CASE Live(current, k) -> "applied"
                              [] ~Live(current, k) /\ FutureTarget(current, k) -> "none"
                              [] OTHER -> "stale"]
           /\ UNCHANGED creating
  BY DEF DesktopSubmit
<1> DEFINE current == DesktopPrepared(rows[a], k)
           result  == CASE Live(current, k) -> "applied"
                        [] ~Live(current, k) /\ FutureTarget(current, k) -> "none"
                        [] OTHER -> "stale"
<1>2. PICK answered \in SUBSET Question[k], cleared \in SUBSET Question[k] :
        /\ outcome[a][k] = "none"
        /\ Request(a, DesktopSubmitted(rows[a], k, answered, cleared))
        /\ outcome' = [outcome EXCEPT ![a][k] = result]
  BY <1>1
<1> DEFINE s == DesktopSubmitted(rows[a], k, answered, cleared).row
<1>3. RowOK(rows[a]) /\ rows[a].state # Absent /\ now \in Nat
  BY <1>2, SoundsRows DEF TypeOK, Request, Exists
<1>4. rows'[a] = s
  BY <1>2 DEF Request, Commit, TypeOK
<1>5. result # "none" => Live(current, k) \/ ~FutureTarget(current, k)
  OBVIOUS
<1>6. result # "none" => s.state # Absent /\ Over(s, k)
  BY <1>3, <1>5, DesktopSubmittedOver
<1> HIDE DEF result, s
<1>7. ASSUME NEW b \in Attempts, NEW j \in Modules
      PROVE  \/ outcome'[b][j] = outcome[b][j]
             \/ rows'[b].state # Absent /\ Over(rows'[b], j)
  <2>1. CASE b = a /\ j = k
    <3>1. outcome'[b][j] = result
      BY <1>2, <2>1 DEF TypeOK
    <3> QED  BY <1>2, <1>4, <1>6, <2>1, <3>1
  <2>2. CASE ~(b = a /\ j = k)
    BY <1>2, <2>2 DEF TypeOK
  <2> QED  BY <2>1, <2>2
<1> QED  BY <1>7 DEF StoresOnlyOver

LEMMA ViewRequestStores == ASSUME NEW a, NEW o, ViewRequest(a, o) PROVE StoresOnlyOver
  BY DEF ViewRequest, StoresOnlyOver

LEMMA StepStores ==
  ASSUME TypeOK, Sounds, [Next]_vars
  PROVE  StoresOnlyOver
<1>1. CASE Creation
  <2>1. outcome' = outcome
    BY <1>1 DEF Creation, AbandonStaleModule2, DesktopCreate, CreateWithoutAbandoning,
                CreateInsert, CreateRefused, CreateReuse, CreateFails
  <2> QED  BY <2>1 DEF StoresOnlyOver
<1>2. ASSUME NEW a \in Attempts, WebView(a) PROVE StoresOnlyOver
  <2>1. \/ Resume(a) \/ Start(a) \/ StartModule(a) \/ Submit(a) \/ Save(a)
        \/ Pause(a) \/ ResumePause(a)
    BY <1>2 DEF WebView
  <2> QED  BY <2>1, ViewRequestStores
           DEF Resume, Start, StartModule, Submit, Save, Pause, ResumePause
<1>3. ASSUME NEW a \in Attempts, DesktopView(a) PROVE StoresOnlyOver
  <2>1. \/ DesktopOpen(a) \/ DesktopStart(a) \/ DesktopSync(a)
        \/ DesktopPause(a) \/ DesktopResume(a) \/ DesktopSubmit(a)
    BY <1>3 DEF DesktopView
  <2>2. CASE DesktopSubmit(a)
    BY <2>2, DesktopSubmitStores
  <2> QED  BY <2>1, <2>2, ViewRequestStores
           DEF DesktopOpen, DesktopStart, DesktopSync, DesktopPause, DesktopResume
<1>4. ASSUME NEW a \in Attempts, Background(a) PROVE StoresOnlyOver
  <2>1. outcome' = outcome
    BY <1>4 DEF Background, EnqueueAfterCommit, EnqueueLost, ScoreAttempt, WorkerDies,
                RequeueStuck, LosePointer
  <2> QED  BY <2>1 DEF StoresOnlyOver
<1>5. CASE Tick \/ UNCHANGED vars
  BY <1>5 DEF Tick, vars, StoresOnlyOver
<1> QED  BY <1>1, <1>2, <1>3, <1>4, <1>5 DEF Next

(* Over is undone by no step, of a row that exists.                        *)
LEMMA StepStaysOver ==
  ASSUME ServerInv, [Next]_vars, NEW a \in Attempts, NEW k \in Modules,
         rows[a].state # Absent, Over(rows[a], k)
  PROVE  rows'[a].state # Absent /\ Over(rows'[a], k)
<1>1. CASE Quiet
  BY <1>1 DEF Quiet, Ungraded, Keeps
<1>2. ASSUME NEW b \in Attempts, Graded(b)
      PROVE  rows'[a].state # Absent /\ Over(rows'[a], k)
  <2>1. CASE a = b
    <3>1. rows'[a] = CompleteTest(rows[a])
      BY <1>2, <2>1 DEF Graded, ServerInv, TypeOK
    <3>2. CompleteTest(rows[a]).state = "COMPLETED"
      BY <1>2, <2>1, SoundsRows, CompleteTestRow DEF ServerInv, Graded
    <3> QED  BY <3>1, <3>2 DEF Over, Finished, Absent
  <2>2. CASE a # b
    BY <1>2, <2>2 DEF Graded, ServerInv, TypeOK
  <2> QED  BY <2>1, <2>2
<1> QED  BY <1>1, <1>2, StepQuiet DEF ServerInv

(* RememberedMeansOver, of rows that exist: an absent row has no outcome.  *)
Remembered ==
  \A a \in Attempts, k \in Modules :
    outcome[a][k] # "none" => rows[a].state # Absent /\ Over(rows[a], k)

(* An outcome stored for a hand-in key of the Windows app means that the   *)
(* module is over and stays over, so a replayed answer never stands in for *)
(* a hand-in that still has to happen.                                     *)
THEOREM RememberedMeansOverHolds == Spec => []RememberedMeansOver
<1>1. Init => Remembered
  BY DEF Init, Remembered
<1>2. ServerInv /\ Remembered /\ [Next]_vars => Remembered'
  <2> SUFFICES ASSUME ServerInv, Remembered, [Next]_vars,
                      NEW a \in Attempts, NEW k \in Modules, outcome'[a][k] # "none"
               PROVE  rows'[a].state # Absent /\ Over(rows'[a], k)
    BY DEF Remembered
  <2>1. \/ outcome'[a][k] = outcome[a][k]
        \/ rows'[a].state # Absent /\ Over(rows'[a], k)
    BY StepStores DEF ServerInv, StoresOnlyOver
  <2>2. CASE outcome'[a][k] = outcome[a][k]
    BY <2>2, StepStaysOver DEF Remembered
  <2> QED  BY <2>1, <2>2
<1>3. Remembered => RememberedMeansOver
  BY DEF Remembered, RememberedMeansOver
<1> QED  BY <1>1, <1>2, <1>3, ServerInvHolds, PTL DEF Spec

-----------------------------------------------------------------------------

(* What the engine keeps of a row beyond Sound: clocks run exactly from    *)
(* where the sitting has been, an abandoned row goes back to Module 2, and *)
(* an open module is the one of the state.                                 *)
Coherent(r) ==
  /\ r.state = Absent => r = BlankRow
  /\ r.state \in {Absent, "NOT_STARTED"} <=> r.startedAt[1] = NoTime
  /\ r.state \in {Absent, "NOT_STARTED", "MODULE_1_ACTIVE"} => r.startedAt[2] = NoTime
  /\ r.state \in {"MODULE_2_ACTIVE", "ABANDONED"} => r.startedAt[2] # NoTime
  /\ r.state = "ABANDONED" => r.checkpoint = "MODULE_2_ACTIVE"
  /\ r.module # NoModule => r.state = ActiveIn(r.module)

(* Where the pause, or its absence, has taken the clock of the sitting.    *)
PauseEnd(r, t) == IF r.pauseAt = NoTime THEN t ELSE r.pauseAt

(* No module has been credited more than the time since it began.          *)
PauseFine(r, t) ==
  /\ r.pauseAt # NoTime => r.pauseAt <= t /\ r.startedAt[1] # NoTime
  /\ \A k \in Modules :
       IF r.startedAt[k] = NoTime
       THEN r.paused[k] = 0
       ELSE r.paused[k] <= PauseEnd(r, t) - r.startedAt[k]

(* The moves of ExamLifecycle, of one row.                                 *)
WritesOnly(r, s, k) ==
  s.score = r.score /\ \A j \in Modules \ {k} : s.sheet[j] = r.sheet[j]

LifeMove(r, s) ==
  \/ s.state = r.state /\ s.sheet = r.sheet /\ s.score = r.score
  \/ /\ \/ r.state = "NOT_STARTED" /\ s.state = "MODULE_1_ACTIVE"
        \/ r.state = "MODULE_2_ACTIVE" /\ s.state = "ABANDONED"
        \/ r.state = "ABANDONED" /\ s.state = "MODULE_2_ACTIVE"
     /\ s.sheet = r.sheet /\ s.score = r.score
  \/ \E k \in Modules : r.state = ActiveIn(k) /\ s.state = r.state /\ WritesOnly(r, s, k)
  \/ /\ r.state \in {"NOT_STARTED", "MODULE_1_ACTIVE"}
     /\ s.state = IF SingleModule THEN "SCORING" ELSE "MODULE_2_ACTIVE"
     /\ WritesOnly(r, s, 1)
  \/ r.state = "MODULE_2_ACTIVE" /\ s.state = "SCORING" /\ WritesOnly(r, s, 2)

(* What every request does to the row it locks, at time t.                 *)
Advances(r, s, t) ==
  /\ Coherent(s)
  /\ LifeMove(r, s)
  /\ \A k \in Modules : r.startedAt[k] # NoTime => s.startedAt[k] = r.startedAt[k]
  /\ r.startedAt[1] # NoTime => s.timed = r.timed
  /\ Pauses # "anywhere" /\ PauseFine(r, t) => PauseFine(s, t)

AllCoherent == \A a \in Attempts : Coherent(rows[a])

(* All but the module pointer and the version.                             *)
Alike(r, s) ==
  /\ s.state = r.state /\ s.timed = r.timed /\ s.startedAt = r.startedAt
  /\ s.paused = r.paused /\ s.pauseAt = r.pauseAt /\ s.checkpoint = r.checkpoint
  /\ s.sheet = r.sheet /\ s.score = r.score

(* A running row has a module open.                                        *)
Pointed(r) == r.state \in Running => r.module # NoModule

LEMMA AlikeAdvances ==
  ASSUME NEW r, NEW s, NEW t, Coherent(r), r.state # Absent, Alike(r, s),
         s.module # NoModule => s.state = ActiveIn(s.module)
  PROVE  Advances(r, s, t)
<1>1. Coherent(s)
  BY DEF Coherent, Alike
<1>2. PauseFine(r, t) => PauseFine(s, t)
  BY DEF PauseFine, PauseEnd, Alike
<1> QED  BY <1>1, <1>2 DEF Advances, Alike, LifeMove

LEMMA AlikeThenAdvances ==
  ASSUME NEW r, NEW h, NEW s, NEW t, Alike(r, h), Advances(h, s, t)
  PROVE  Advances(r, s, t)
<1>1. PauseFine(r, t) => PauseFine(h, t)
  BY DEF PauseFine, PauseEnd, Alike
<1>2. LifeMove(r, s)
  BY DEF LifeMove, WritesOnly, Alike, Advances
<1> QED  BY <1>1, <1>2 DEF Advances, Alike

LEMMA StaysAdvances ==
  ASSUME NEW r, NEW t, Coherent(r), r.state # Absent
  PROVE  Advances(r, r, t)
  BY AlikeAdvances DEF Alike, Coherent

LEMMA BumpedAlike == ASSUME NEW r \in Row PROVE Alike(r, Bumped(r)) /\ Bumped(r).module = r.module
  BY DEF Bumped, Alike, Row

-----------------------------------------------------------------------------
(* The repair of a coherent row: nothing, its pointer, or an empty Module 2.*)

Whole(r) == RowOK(r) /\ Coherent(r) /\ r.state # Absent

LEMMA AnchorSet ==
  ASSUME NEW r \in Row, NEW k \in Modules, NEW t, r.startedAt[k] # NoTime
  PROVE  SetActiveModule(r, k, t) = [r EXCEPT !.module = k]
<1>1. [r.startedAt EXCEPT ![k] = r.startedAt[k]] = r.startedAt
  BY DEF Row
<1> QED  BY <1>1 DEF SetActiveModule, Anchor, Row

LEMMA ModuleOfRunning ==
  ASSUME NEW r, Whole(r), r.state \in Running
  PROVE  /\ ModuleOf(r.state) \in Modules
         /\ ModuleOf(r.state) # NoModule
         /\ r.state = ActiveIn(ModuleOf(r.state))
         /\ r.startedAt[ModuleOf(r.state)] # NoTime
         /\ r.module \in {NoModule, ModuleOf(r.state)}
         /\ ~r.completed
<1>1. r.module \in Modules \cup {NoModule}
  BY RowFields DEF Whole, RowOK
<1> QED  BY <1>1 DEF Whole, RowOK, Sound, Coherent, ModuleOf, ActiveIn, Modules, NoModule, Running, Absent

LEMMA WholeClean ==
  ASSUME NEW r, Whole(r), ~(r.state \in Running /\ r.module = NoModule)
  PROVE  AuditClean(r)
<1>1. r.completed <=> r.state = "COMPLETED"
  BY DEF Whole, RowOK, Sound
<1>2. r.state \in Running => r.module = ModuleOf(r.state)
  BY ModuleOfRunning
<1>3. r.state \in Finished => r.module = NoModule
  BY DEF Whole, Coherent, ActiveIn, Finished
<1>4. r.state \notin {"NOT_STARTED", Absent} => r.startedAt[1] # NoTime
  BY DEF Whole, Coherent
<1> QED  BY <1>1, <1>2, <1>3, <1>4 DEF AuditClean, Finished, Whole

(* What the repair makes of it, h.                                         *)
Repaired(r, h) ==
  \/ h = r /\ (r.state \in Running => r.module = ModuleOf(r.state))
  \/ r.state \in Running /\ r.module = NoModule /\ Alike(r, h) /\ h.module = ModuleOf(r.state)
  \/ /\ r.state = "MODULE_2_ACTIVE" /\ r.module = NoModule /\ Question[2] = {}
     /\ h.state = "SCORING"
     /\ Alike([r EXCEPT !.state = "SCORING"], h) /\ h.module = NoModule

LEMMA AutohealRepairs ==
  ASSUME NEW r, Whole(r), NEW t \in Nat
  PROVE  Repaired(r, Autoheal(r, t))
<1> DEFINE k == ModuleOf(r.state)
           p == [r EXCEPT !.module = k]
           q == [r EXCEPT !.state = "SCORING", !.module = NoModule]
<1>1. r \in Row /\ HealedFlag(r) = r
  BY HealedFlagSame DEF Whole, RowOK
<1>2. CASE ~(r.state \in Running /\ r.module = NoModule)
  <2>1. Autoheal(r, t) = r
    BY <1>2, WholeClean DEF Autoheal
  <2> QED  BY <1>2, <2>1, ModuleOfRunning DEF Repaired
<1>3. CASE r.state \in Running /\ r.module = NoModule
  <2>1. k \in Modules /\ k # NoModule /\ r.startedAt[k] # NoTime
    BY <1>3, ModuleOfRunning
  <2>2. HealedPointer(r, t) = p
    BY <1>1, <1>3, <2>1, AnchorSet DEF HealedPointer
  <2>3. ~AuditClean(r)
    BY <1>3, <2>1 DEF AuditClean
  <2>4. Autoheal(r, t) = Bumped(HealedEmptyModule2(p))
    BY <1>1, <1>3, <2>2, <2>3 DEF Autoheal
  <2> HIDE DEF k
  <2>5. p \in Row /\ p.state = r.state /\ p.module = k /\ Alike(r, p)
    BY <1>1, <2>1 DEF Row, Alike
  <2>6. CASE r.state = "MODULE_2_ACTIVE" /\ Question[2] = {}
    <3>1. HealedEmptyModule2(p) = q
      BY <1>1, <2>6 DEF HealedEmptyModule2, Row
    <3>2. q \in Row /\ q.state = "SCORING" /\ q.module = NoModule /\ Alike([r EXCEPT !.state = "SCORING"], q)
      BY <1>1 DEF Row, Alike, States, Finished
    <3> HIDE DEF q
    <3>3. Alike(q, Bumped(q)) /\ Bumped(q).module = NoModule
      BY <3>2, BumpedAlike
    <3> QED  BY <1>3, <2>4, <2>6, <3>1, <3>2, <3>3 DEF Repaired, Alike
  <2>7. CASE ~(r.state = "MODULE_2_ACTIVE" /\ Question[2] = {})
    <3>1. HealedEmptyModule2(p) = p
      BY <1>3, <2>5, <2>7 DEF HealedEmptyModule2, Running, Finished
    <3> HIDE DEF p
    <3>2. Alike(p, Bumped(p)) /\ Bumped(p).module = k
      BY <2>5, BumpedAlike
    <3> QED  BY <1>3, <2>4, <2>5, <3>1, <3>2 DEF Repaired, Alike, k
  <2> QED  BY <2>6, <2>7
<1> QED  BY <1>2, <1>3

LEMMA RepairedAdvances ==
  ASSUME NEW r, NEW h, Whole(r), Repaired(r, h), NEW t
  PROVE  Advances(r, h, t)
<1>1. r \in Row
  BY DEF Whole, RowOK
<1>2. CASE h = r
  BY <1>2, StaysAdvances DEF Whole
<1>3. CASE Alike(r, h) /\ r.state \in Running /\ h.module = ModuleOf(r.state)
  <2>1. h.state = ActiveIn(h.module)
    BY <1>3, ModuleOfRunning DEF Alike
  <2> QED  BY <1>3, <2>1, AlikeAdvances DEF Whole
<1>4. CASE /\ r.state = "MODULE_2_ACTIVE" /\ h.state = "SCORING" /\ h.module = NoModule
           /\ Alike([r EXCEPT !.state = "SCORING"], h)
  <2>1. /\ h.timed = r.timed /\ h.startedAt = r.startedAt /\ h.paused = r.paused
        /\ h.pauseAt = r.pauseAt /\ h.sheet = r.sheet /\ h.score = r.score
    BY <1>1, <1>4 DEF Alike, Row
  <2>2. Coherent(h)
    BY <1>4, <2>1 DEF Coherent, Whole, Absent
  <2>3. PauseFine(r, t) => PauseFine(h, t)
    BY <2>1 DEF PauseFine, PauseEnd
  <2> QED  BY <1>4, <2>1, <2>2, <2>3 DEF Advances, LifeMove, WritesOnly
<1> QED  BY <1>2, <1>3, <1>4 DEF Repaired

-----------------------------------------------------------------------------
(* Start and hand-in.                                                      *)

LEMMA BegunRow ==
  ASSUME NEW r, Whole(r), r.state = "NOT_STARTED", NEW t \in Nat
  PROVE  LET s == StartAttempt(r, t)
         IN /\ Advances(r, s, t) /\ s.state = "MODULE_1_ACTIVE" /\ s.module = 1
            /\ s.sheet = r.sheet /\ s.score = r.score
<1> DEFINE q == [r EXCEPT !.state = "MODULE_1_ACTIVE"]
           b == Bumped(q)
           s == [b EXCEPT !.module = 1, !.startedAt[1] = t]
<1>1. r \in Row /\ ~r.completed /\ r.startedAt[1] = NoTime /\ r.startedAt[2] = NoTime
  BY DEF Whole, RowOK, Sound, Coherent
<1>2. q \in Row /\ q.state = "MODULE_1_ACTIVE" /\ Alike(q, b)
  <2>1. q \in Row /\ q.state = "MODULE_1_ACTIVE"
    BY <1>1 DEF Row, States, Running
  <2> HIDE DEF q
  <2> QED  BY <2>1, BumpedAlike
<1>3. b \in Row /\ b.state = "MODULE_1_ACTIVE" /\ b.timed = r.timed /\ b.startedAt = r.startedAt
      /\ b.paused = r.paused /\ b.pauseAt = r.pauseAt /\ b.sheet = r.sheet /\ b.score = r.score
  BY <1>1, <1>2, BumpedRow DEF Alike, Row
<1>4. StartAttempt(r, t) = SetActiveModule(b, 1, t)
  BY <1>1 DEF StartAttempt, Running
<1> HIDE DEF b
<1>5. StartAttempt(r, t) = s
  BY <1>1, <1>3, <1>4 DEF SetActiveModule, Anchor
<1>6. /\ s.state = "MODULE_1_ACTIVE" /\ s.module = 1 /\ s.timed = r.timed
      /\ s.startedAt = [r.startedAt EXCEPT ![1] = t] /\ s.paused = r.paused
      /\ s.pauseAt = r.pauseAt /\ s.sheet = r.sheet /\ s.score = r.score
  BY <1>3 DEF Row
<1> HIDE DEF s
<1>7. s.startedAt[1] = t /\ s.startedAt[2] = NoTime /\ t # NoTime
  BY <1>1, <1>6, RowFields DEF Modules, NoTime
<1>8. Coherent(s)
  BY <1>6, <1>7 DEF Coherent, ActiveIn, Absent
<1>9. ASSUME PauseFine(r, t) PROVE PauseFine(s, t)
  <2>1. r.pauseAt = NoTime /\ r.paused[1] = 0 /\ r.paused[2] = 0
    BY <1>1, <1>9 DEF PauseFine, Modules
  <2> QED  BY <1>6, <1>7, <2>1 DEF PauseFine, PauseEnd, Modules
<1>10. LifeMove(r, s)
  BY <1>6 DEF LifeMove
<1> QED  BY <1>1, <1>5, <1>6, <1>8, <1>9, <1>10 DEF Advances, Modules

LEMMA RestoredAdvances ==
  ASSUME NEW r, Whole(r), r.state = "ABANDONED", NEW t \in Nat
  PROVE  Advances(r, Restored(r, t), t) /\ Restored(r, t).module = 2
<1> DEFINE q == [r EXCEPT !.state = "MODULE_2_ACTIVE"]
           b == Bumped(q)
           s == [b EXCEPT !.module = 2]
<1>1. r \in Row /\ RestoreTarget(r.checkpoint) = "MODULE_2_ACTIVE" /\ r.startedAt[2] # NoTime
  BY DEF Whole, RowOK, Coherent, RestoreTarget
<1>2. q \in Row /\ q.state = "MODULE_2_ACTIVE" /\ Alike(q, b)
  <2>1. q \in Row /\ q.state = "MODULE_2_ACTIVE"
    BY <1>1 DEF Row, States, Running
  <2> HIDE DEF q
  <2> QED  BY <2>1, BumpedAlike
<1>3. b \in Row /\ b.state = "MODULE_2_ACTIVE" /\ b.timed = r.timed /\ b.startedAt = r.startedAt
      /\ b.paused = r.paused /\ b.pauseAt = r.pauseAt /\ b.sheet = r.sheet /\ b.score = r.score
  BY <1>1, <1>2, BumpedRow DEF Alike, Row
<1>4. Restored(r, t) = SetActiveModule(b, 2, t)
  BY <1>1 DEF Restored, Running, ModuleOf
<1> HIDE DEF b
<1>5. Restored(r, t) = s
  BY <1>1, <1>3, <1>4, AnchorSet DEF Modules
<1>6. /\ s.state = "MODULE_2_ACTIVE" /\ s.module = 2 /\ s.timed = r.timed
      /\ s.startedAt = r.startedAt /\ s.paused = r.paused
      /\ s.pauseAt = r.pauseAt /\ s.sheet = r.sheet /\ s.score = r.score
  BY <1>3 DEF Row
<1> HIDE DEF s
<1>7. Coherent(s)
  BY <1>6 DEF Coherent, Whole, ActiveIn, Absent
<1>8. PauseFine(r, t) => PauseFine(s, t)
  BY <1>6 DEF PauseFine, PauseEnd
<1> QED  BY <1>5, <1>6, <1>7, <1>8 DEF Advances, LifeMove

LEMMA StartAttemptAdvances ==
  ASSUME NEW r, Whole(r), NEW t \in Nat
  PROVE  Advances(r, StartAttempt(r, t), t)
<1>1. r \in Row /\ (r.completed <=> r.state = "COMPLETED")
  BY DEF Whole, RowOK, Sound
<1>2. CASE r.state = "ABANDONED"
  BY <1>1, <1>2, RestoredAdvances DEF StartAttempt, Running
<1>3. CASE r.state = "NOT_STARTED"
  BY <1>3, BegunRow
<1>4. CASE r.state \in Running /\ r.module = NoModule
  <2> DEFINE k == ModuleOf(r.state)
             b == Bumped(r)
             s == [b EXCEPT !.module = k]
  <2>1. k \in Modules /\ r.startedAt[k] # NoTime /\ r.state = ActiveIn(k)
    BY <1>4, ModuleOfRunning
  <2>2. b \in Row /\ Alike(r, b)
    BY <1>1, BumpedRow, BumpedAlike
  <2>3. StartAttempt(r, t) = SetActiveModule(b, k, t)
    BY <1>1, <1>4 DEF StartAttempt, Running
  <2> HIDE DEF b, k
  <2>4. StartAttempt(r, t) = s
    BY <2>1, <2>2, <2>3, AnchorSet DEF Alike
  <2>5. Alike(r, s) /\ s.module = k
    BY <2>2 DEF Alike, Row
  <2> HIDE DEF s
  <2> QED  BY <2>1, <2>4, <2>5, AlikeAdvances DEF Whole, Alike
<1>5. CASE /\ r.state # "ABANDONED"
           /\ r.state # "NOT_STARTED"
           /\ ~(r.state \in Running /\ r.module = NoModule)
  BY <1>1, <1>5, StaysAdvances DEF StartAttempt, Whole
<1> QED  BY <1>2, <1>3, <1>4, <1>5

(* A repaired row is started by the repair, or as it was.                  *)
LEMMA HealedStart ==
  ASSUME NEW r, Whole(r), NEW t \in Nat
  PROVE  \/ StartAttempt(Autoheal(r, t), t) = Autoheal(r, t)
         \/ StartAttempt(Autoheal(r, t), t) = StartAttempt(r, t)
<1> DEFINE h == Autoheal(r, t)
<1>1. Repaired(r, h)
  BY AutohealRepairs
<1>2. RowOK(h)
  BY AutohealKeeps DEF Keeps, Whole
<1> HIDE DEF h
<1>3. CASE h # r
  <2>1. \/ h.state \in Running /\ h.module # NoModule
        \/ h.state = "SCORING"
    BY <1>1, <1>3, ModuleOfRunning DEF Repaired, Alike
  <2> QED  BY <1>2, <2>1 DEF StartAttempt, RowOK, Sound, Running, h
<1> QED  BY <1>3 DEF h

LEMMA HealedStartAdvances ==
  ASSUME NEW r, Whole(r), NEW t \in Nat
  PROVE  /\ Advances(r, Autoheal(r, t), t)
         /\ Advances(r, StartAttempt(Autoheal(r, t), t), t)
  BY AutohealRepairs, RepairedAdvances, HealedStart, StartAttemptAdvances

LEMMA SubmitModule1Advances ==
  ASSUME NEW r, Whole(r), r.state = "MODULE_1_ACTIVE",
         NEW answers \in SUBSET AllQuestions, NEW t \in Nat
  PROVE  LET s == SubmitModule1(r, answers, t)
         IN /\ Advances(r, s, t) /\ Pointed(s)
            /\ s.state = IF SingleModule THEN "SCORING" ELSE "MODULE_2_ACTIVE"
<1> DEFINE w      == [r EXCEPT !.sheet[1] = answers, !.pauseAt = NoTime]
           b      == Bumped(w)
           single == [b EXCEPT !.state = "SCORING", !.module = NoModule, !.startedAt[2] = t]
           moved  == [b EXCEPT !.module = 2, !.startedAt[2] = t]
           onward == [moved EXCEPT !.state = "MODULE_2_ACTIVE",
                                   !.paused[1] = @ + InFlightPause(r, t)]
<1>1. r \in Row /\ r.startedAt[1] # NoTime /\ r.startedAt[2] = NoTime /\ t # NoTime
  BY DEF Whole, RowOK, Coherent, Absent, NoTime
<1>2. /\ w \in Row /\ w.timed = r.timed /\ w.startedAt = r.startedAt /\ w.paused = r.paused
      /\ w.pauseAt = NoTime /\ w.score = r.score /\ w.sheet = [r.sheet EXCEPT ![1] = answers]
  BY <1>1 DEF Row, Sheets, Modules, NoTime
<1> HIDE DEF w
<1>3. /\ b \in Row /\ b.timed = r.timed /\ b.startedAt = r.startedAt /\ b.paused = r.paused
      /\ b.pauseAt = NoTime /\ b.score = r.score /\ b.sheet = [r.sheet EXCEPT ![1] = answers]
  BY <1>2, BumpedRow, BumpedAlike DEF Alike
<1>4. SubmitModule1(r, answers, t) =
        IF SingleModule THEN [b EXCEPT !.state = "SCORING", !.module = NoModule, !.startedAt[2] = t]
        ELSE [SetActiveModule(b, 2, t) EXCEPT !.state = "MODULE_2_ACTIVE",
                                              !.paused[1] = @ + InFlightPause(r, t)]
  BY DEF SubmitModule1, b, w
<1> HIDE DEF b
<1>5. SetActiveModule(b, 2, t) = moved
  BY <1>1, <1>3 DEF SetActiveModule, Anchor
<1>6. /\ [r.startedAt EXCEPT ![2] = t][1] = r.startedAt[1]
      /\ [r.startedAt EXCEPT ![2] = t][2] = t
      /\ [r.sheet EXCEPT ![1] = answers][2] = r.sheet[2]
  BY <1>1, RowFields DEF Modules, Sheets
<1>7. /\ r.startedAt[1] \in Nat /\ r.paused[1] \in Nat /\ r.paused[2] \in Nat
      /\ r.pauseAt \in Nat \cup {NoTime}
  BY <1>1, RowFields DEF Modules
<1>8. CASE SingleModule
  <2>1. SubmitModule1(r, answers, t) = single
    BY <1>4, <1>8
  <2>2. /\ single.state = "SCORING" /\ single.module = NoModule /\ single.timed = r.timed
        /\ single.startedAt = [r.startedAt EXCEPT ![2] = t] /\ single.paused = r.paused
        /\ single.pauseAt = NoTime /\ single.score = r.score
        /\ single.sheet = [r.sheet EXCEPT ![1] = answers]
    BY <1>3 DEF Row
  <2> HIDE DEF single
  <2>3. Coherent(single)
    BY <1>1, <1>6, <2>2 DEF Coherent, Absent
  <2>4. LifeMove(r, single)
    BY <1>6, <1>8, <2>2 DEF LifeMove, WritesOnly, Modules
  <2>5. ASSUME PauseFine(r, t) PROVE PauseFine(single, t)
    <3>1. r.paused[2] = 0 /\ r.paused[1] <= t - r.startedAt[1]
      BY <1>1, <1>7, <2>5 DEF PauseFine, PauseEnd, Modules, NoTime
    <3> QED  BY <1>1, <1>6, <2>2, <3>1 DEF PauseFine, PauseEnd, Modules
  <2> QED  BY <1>1, <1>6, <1>8, <2>1, <2>2, <2>3, <2>4, <2>5 DEF Advances, Pointed, Running, Modules
<1>9. CASE ~SingleModule
  <2>1. SubmitModule1(r, answers, t) = onward
    BY <1>4, <1>5, <1>9
  <2> DEFINE credit == r.paused[1] + InFlightPause(r, t)
  <2>2. /\ onward.state = "MODULE_2_ACTIVE" /\ onward.module = 2 /\ onward.timed = r.timed
        /\ onward.startedAt = [r.startedAt EXCEPT ![2] = t]
        /\ onward.paused = [r.paused EXCEPT ![1] = credit]
        /\ onward.pauseAt = NoTime /\ onward.score = r.score
        /\ onward.sheet = [r.sheet EXCEPT ![1] = answers]
    BY <1>3 DEF Row
  <2> HIDE DEF onward
  <2>3. Coherent(onward)
    BY <1>1, <1>6, <2>2 DEF Coherent, ActiveIn, Absent
  <2>4. LifeMove(r, onward)
    BY <1>6, <1>9, <2>2 DEF LifeMove, WritesOnly, Modules
  <2>5. ASSUME PauseFine(r, t) PROVE PauseFine(onward, t)
    <3>1. r.paused[2] = 0 /\ credit <= t - r.startedAt[1]
      BY <1>1, <1>7, <2>5 DEF PauseFine, PauseEnd, InFlightPause, Max0, Modules, NoTime
    <3>2. onward.paused[1] = credit /\ onward.paused[2] = r.paused[2]
      BY <1>1, <2>2, RowFields DEF Modules
    <3> HIDE DEF credit
    <3> QED  BY <1>1, <1>6, <2>2, <3>1, <3>2 DEF PauseFine, PauseEnd, Modules
  <2> QED  BY <1>1, <1>6, <1>9, <2>1, <2>2, <2>3, <2>4, <2>5 DEF Advances, Pointed, NoModule, Modules
<1> QED  BY <1>8, <1>9

LEMMA SubmitModule2Advances ==
  ASSUME NEW r, Whole(r), r.state = "MODULE_2_ACTIVE", NEW answers \in SUBSET AllQuestions, NEW t
  PROVE  LET s == SubmitModule2(r, answers)
         IN Advances(r, s, t) /\ Pointed(s)
<1> DEFINE q == [r EXCEPT !.sheet[2] = answers, !.state = "SCORING", !.module = NoModule]
           s == Bumped(q)
<1>1. r \in Row
  BY DEF Whole, RowOK
<1>2. q \in Row
  BY <1>1 DEF Row, Sheets, Modules, States, Finished
<1>7. /\ q.state = "SCORING" /\ q.module = NoModule /\ q.timed = r.timed
      /\ q.startedAt = r.startedAt /\ q.paused = r.paused /\ q.pauseAt = r.pauseAt
      /\ q.score = r.score /\ q.sheet = [r.sheet EXCEPT ![2] = answers]
  BY <1>1 DEF Row
<1>8. [r.sheet EXCEPT ![2] = answers][1] = r.sheet[1]
  BY <1>1, RowFields DEF Sheets, Modules
<1>3. SubmitModule2(r, answers) = s
  BY DEF SubmitModule2
<1> HIDE DEF q
<1>4. /\ s.state = "SCORING" /\ s.module = NoModule /\ s.timed = r.timed
      /\ s.startedAt = r.startedAt /\ s.paused = r.paused /\ s.pauseAt = r.pauseAt
      /\ s.score = r.score /\ s.sheet[1] = r.sheet[1]
  BY <1>2, <1>7, <1>8, BumpedAlike DEF Alike
<1> HIDE DEF s
<1>5. Coherent(s)
  BY <1>4 DEF Coherent, Whole, Absent
<1>6. PauseFine(r, t) => PauseFine(s, t)
  BY <1>4 DEF PauseFine, PauseEnd
<1> QED  BY <1>3, <1>4, <1>5, <1>6 DEF Advances, Pointed, Running, LifeMove, WritesOnly, Modules

LEMMA HandInAdvances ==
  ASSUME NEW r, Whole(r), MaySubmit(r), NEW answers \in SUBSET AllQuestions, NEW t \in Nat
  PROVE  LET s == HandIn(r, answers, t)
         IN Advances(r, s, t) /\ Pointed(s)
<1>1. r.module \in Modules
  BY RowFields DEF Whole, RowOK, MaySubmit
<1>2. CASE r.module = 1
  BY <1>2, SubmitModule1Advances DEF HandIn, MaySubmit, ActiveIn
<1>3. CASE r.module = 2
  BY <1>3, SubmitModule2Advances DEF HandIn, MaySubmit, ActiveIn
<1> QED  BY <1>1, <1>2, <1>3 DEF Modules

-----------------------------------------------------------------------------
(* The views.                                                              *)

LEMMA WholeKept ==
  ASSUME NEW r, NEW s, Whole(r), Keeps(r, s), Advances(r, s, now)
  PROVE  Whole(s)
  BY DEF Whole, Keeps, Advances

LEMMA SheetAdvances ==
  ASSUME NEW r, Whole(r), NEW k \in Modules, r.module = k, NEW body, NEW t
  PROVE  Advances(r, Bumped([r EXCEPT !.sheet[k] = body]), t)
<1> DEFINE s == Bumped([r EXCEPT !.sheet[k] = body])
<1>1. r \in Row /\ r.sheet \in Sheets
  BY RowFields DEF Whole, RowOK
<1>2. /\ s.state = r.state /\ s.module = r.module /\ s.timed = r.timed
      /\ s.startedAt = r.startedAt /\ s.paused = r.paused /\ s.pauseAt = r.pauseAt
      /\ s.checkpoint = r.checkpoint /\ s.score = r.score
      /\ s.sheet = [r.sheet EXCEPT ![k] = body]
  BY <1>1 DEF Bumped, Row
<1> HIDE DEF s
<1>3. Coherent(s)
  BY <1>2 DEF Whole, Coherent
<1>4. r.state = ActiveIn(k)
  BY DEF Whole, Coherent, Modules, NoModule
<1>5. WritesOnly(r, s, k)
  BY <1>1, <1>2 DEF WritesOnly, Sheets
<1>6. LifeMove(r, s)
  BY <1>2, <1>4, <1>5 DEF LifeMove
<1>7. PauseFine(r, t) => PauseFine(s, t)
  BY <1>2 DEF PauseFine, PauseEnd
<1> QED  BY <1>2, <1>3, <1>6, <1>7 DEF Advances, s

LEMMA SaveAttemptAdvances ==
  ASSUME NEW r, Whole(r), now \in Nat, NEW expected, NEW body \in SUBSET AllQuestions
  PROVE  Advances(r, SaveAttempt(r, expected, body).row, now)
<1> DEFINE k == r.module
           answers == r.sheet[k] \cup body
<1>1. Advances(r, r, now)
  BY StaysAdvances DEF Whole
<1>2. CASE k = NoModule \/ Stale(r, expected)
  BY <1>1, <1>2 DEF SaveAttempt, Reply
<1>3. CASE k # NoModule /\ ~Stale(r, expected)
  <2>1. r \in Row /\ k \in Modules
    BY <1>3, RowFields DEF Whole, RowOK
  <2>2. answers \in SUBSET AllQuestions
    BY <2>1, SheetWritten
  <2>3. CASE ~Expired(r, now)
    <3>1. SaveAttempt(r, expected, body).row = Bumped([r EXCEPT !.sheet[k] = body])
      BY <1>3, <2>3 DEF SaveAttempt, Reply
    <3> QED  BY <2>1, <3>1, SheetAdvances
  <2>4. CASE Expired(r, now) /\ MaySubmit(r)
    <3>1. SaveAttempt(r, expected, body).row = HandIn(r, answers, now)
      BY <1>3, <2>4 DEF SaveAttempt, Reply
    <3> HIDE DEF answers
    <3> QED  BY <2>2, <2>4, <3>1, HandInAdvances
  <2>5. CASE Expired(r, now) /\ ~MaySubmit(r)
    BY <1>1, <1>3, <2>5 DEF SaveAttempt, Reply
  <2> QED  BY <2>3, <2>4, <2>5
<1> QED  BY <1>2, <1>3

LEMMA SubmitModuleAdvances ==
  ASSUME NEW r, Whole(r), now \in Nat, NEW target, NEW body \in SUBSET AllQuestions
  PROVE  Advances(r, SubmitModule(r, target, body).row, now)
<1> DEFINE healed == Autoheal(r, now)
           answers == healed.sheet[healed.module] \cup body
<1>1. Repaired(r, healed) /\ Advances(r, healed, now) /\ Keeps(r, healed)
  BY AutohealRepairs, RepairedAdvances, AutohealKeeps DEF Whole
<1>2. \/ SubmitModule(r, target, body).row = healed
      \/ SubmitModule(r, target, body).row = r
      \/ MaySubmit(healed) /\ SubmitModule(r, target, body).row = HandIn(healed, answers, now)
  BY DEF SubmitModule, Reply
<1>3. ASSUME MaySubmit(healed) PROVE Advances(r, HandIn(healed, answers, now), now)
  <2> HIDE DEF healed
  <2>1. Whole(healed) /\ healed \in Row /\ healed.module \in Modules
    BY <1>1, <1>3, WholeKept, RowFields DEF Whole, RowOK, MaySubmit
  <2>2. answers \in SUBSET AllQuestions
    BY <2>1, SheetWritten
  <2> HIDE DEF answers
  <2>3. Advances(healed, HandIn(healed, answers, now), now)
    BY <1>3, <2>1, <2>2, HandInAdvances
  <2>4. healed = r \/ Alike(r, healed)
    BY <1>1, <1>3 DEF Repaired, MaySubmit
  <2> QED  BY <2>3, <2>4, AlikeThenAdvances
<1> HIDE DEF healed, answers
<1> QED  BY <1>1, <1>2, <1>3, StaysAdvances DEF Whole

LEMMA StartViewAdvances ==
  ASSUME NEW r, Whole(r), now \in Nat, NEW untimed \in BOOLEAN
  PROVE  Advances(r, StartView(r, untimed).row, now)
<1> DEFINE healed == Autoheal(r, now)
           free   == [r EXCEPT !.timed = FALSE]
<1>1. Repaired(r, healed) /\ Advances(r, StartAttempt(healed, now), now)
  BY AutohealRepairs, HealedStartAdvances
<1>2. healed.state = "NOT_STARTED" => healed = r
  BY <1>1 DEF Repaired, Alike, Running
<1>3. \/ r.state = "NOT_STARTED" /\ StartView(r, untimed).row = StartAttempt(free, now)
      \/ StartView(r, untimed).row = StartAttempt(healed, now)
  BY <1>2 DEF StartView, Reply
<1>4. ASSUME r.state = "NOT_STARTED" PROVE Advances(r, StartAttempt(free, now), now)
  <2>1. r \in Row /\ r.startedAt[1] = NoTime /\ r.startedAt[2] = NoTime
    BY <1>4 DEF Whole, RowOK, Coherent
  <2>2. /\ free \in Row /\ free.state = r.state /\ free.module = r.module
        /\ free.completed = r.completed /\ free.startedAt = r.startedAt
        /\ free.paused = r.paused /\ free.pauseAt = r.pauseAt
        /\ free.checkpoint = r.checkpoint /\ free.sheet = r.sheet /\ free.score = r.score
    BY <2>1 DEF Row
  <2> HIDE DEF free
  <2>3. Whole(free)
    BY <1>4, <2>2 DEF Whole, RowOK, Sound, Placed, Coherent, Absent
  <2> DEFINE s == StartAttempt(free, now)
  <2>4. Advances(free, s, now)
    BY <2>3, StartAttemptAdvances
  <2> HIDE DEF s
  <2>5. LifeMove(r, s)
    BY <2>2, <2>4 DEF Advances, LifeMove, WritesOnly
  <2>6. PauseFine(r, now) => PauseFine(free, now)
    BY <2>2 DEF PauseFine, PauseEnd
  <2> QED  BY <2>1, <2>2, <2>4, <2>5, <2>6 DEF Advances, Modules, s
<1> HIDE DEF healed, free
<1> QED  BY <1>1, <1>3, <1>4

LEMMA PausedAdvances ==
  ASSUME NEW r, Whole(r), now \in Nat, r.startedAt[1] = NoTime => Pauses = "anywhere"
  PROVE  Advances(r, Paused(r), now)
<1> DEFINE s == [r EXCEPT !.pauseAt = now]
<1>1. r \in Row
  BY DEF Whole, RowOK
<1>2. CASE r.pauseAt # NoTime
  BY <1>2, StaysAdvances DEF Paused, Whole
<1>3. CASE r.pauseAt = NoTime
  <2>1. /\ s.state = r.state /\ s.module = r.module /\ s.timed = r.timed
        /\ s.startedAt = r.startedAt /\ s.paused = r.paused /\ s.pauseAt = now
        /\ s.checkpoint = r.checkpoint /\ s.sheet = r.sheet /\ s.score = r.score
    BY <1>1 DEF Row
  <2>2. Paused(r) = s
    BY <1>3 DEF Paused
  <2> HIDE DEF s
  <2>3. Coherent(s)
    BY <2>1 DEF Whole, Coherent
  <2>4. Pauses # "anywhere" /\ PauseFine(r, now) => PauseFine(s, now)
    BY <1>3, <2>1 DEF PauseFine, PauseEnd, NoTime
  <2> QED  BY <2>1, <2>2, <2>3, <2>4 DEF Advances, LifeMove
<1> QED  BY <1>2, <1>3

LEMMA UnpausedAdvances ==
  ASSUME NEW r, Whole(r), now \in Nat
  PROVE  Advances(r, Unpaused(r), now)
<1> DEFINE k       == r.module
           credit  == r.paused[k] + InFlightPause(r, now)
           stopped == [r EXCEPT !.pauseAt = NoTime]
           s       == [r EXCEPT !.pauseAt = NoTime, !.paused[k] = credit]
<1>1. /\ r \in Row /\ k \in Modules \cup {NoModule} /\ r.pauseAt \in Nat \cup {NoTime}
      /\ r.startedAt \in [Modules -> Nat \cup {NoTime}] /\ r.paused \in [Modules -> Nat]
  BY RowFields DEF Whole, RowOK
<1>2. CASE k = NoModule
  <2>1. /\ stopped.state = r.state /\ stopped.module = r.module /\ stopped.timed = r.timed
        /\ stopped.startedAt = r.startedAt /\ stopped.paused = r.paused
        /\ stopped.pauseAt = NoTime /\ stopped.checkpoint = r.checkpoint
        /\ stopped.sheet = r.sheet /\ stopped.score = r.score
    BY <1>1 DEF Row
  <2>2. Unpaused(r) = stopped
    BY <1>2 DEF Unpaused
  <2> HIDE DEF stopped
  <2>3. Coherent(stopped)
    BY <2>1 DEF Whole, Coherent
  <2>4. ASSUME PauseFine(r, now) PROVE PauseFine(stopped, now)
    <3>1. PauseEnd(r, now) \in Nat /\ PauseEnd(r, now) <= now
      BY <1>1, <2>4 DEF PauseFine, PauseEnd
    <3>2. PauseEnd(stopped, now) = now
      BY <2>1 DEF PauseEnd
    <3>3. ASSUME NEW j \in Modules, r.startedAt[j] # NoTime
          PROVE  r.paused[j] <= now - r.startedAt[j]
      <4>1. r.startedAt[j] \in Nat /\ r.paused[j] \in Nat
        BY <1>1, <3>3
      <4>2. r.paused[j] <= PauseEnd(r, now) - r.startedAt[j]
        BY <2>4, <3>3 DEF PauseFine
      <4> QED  BY <3>1, <4>1, <4>2
    <3> QED  BY <2>1, <2>4, <3>2, <3>3 DEF PauseFine
  <2> QED  BY <2>1, <2>2, <2>3, <2>4 DEF Advances, LifeMove
<1>3. CASE k # NoModule
  <2>1. k \in Modules /\ r.startedAt[k] # NoTime
    BY <1>1, <1>3 DEF Whole, Coherent, ActiveIn, Modules, Absent
  <2>2. Unpaused(r) = s
    BY <1>1, <1>3 DEF Unpaused, Row
  <2> HIDE DEF k, credit
  <2>3. /\ s.state = r.state /\ s.module = r.module /\ s.timed = r.timed
        /\ s.startedAt = r.startedAt /\ s.paused = [r.paused EXCEPT ![k] = credit]
        /\ s.pauseAt = NoTime /\ s.checkpoint = r.checkpoint
        /\ s.sheet = r.sheet /\ s.score = r.score
    BY <1>1 DEF Row
  <2> HIDE DEF s
  <2>4. Coherent(s)
    BY <2>3 DEF Whole, Coherent
  <2>5. ASSUME PauseFine(r, now) PROVE PauseFine(s, now)
    <3>1. PauseEnd(r, now) \in Nat /\ PauseEnd(r, now) <= now
      BY <1>1, <2>5 DEF PauseFine, PauseEnd
    <3>2. PauseEnd(s, now) = now
      BY <2>3 DEF PauseEnd
    <3>3. ASSUME NEW j \in Modules, r.startedAt[j] # NoTime
          PROVE  s.paused[j] <= now - r.startedAt[j]
      <4>1. r.startedAt[j] \in Nat /\ r.paused[j] \in Nat
        BY <1>1, <3>3
      <4>2. r.paused[j] <= PauseEnd(r, now) - r.startedAt[j]
        BY <2>5, <3>3 DEF PauseFine
      <4>3. CASE j # k
        BY <1>1, <2>3, <3>1, <4>1, <4>2, <4>3
      <4>4. CASE j = k
        <5>1. InFlightPause(r, now) = now - PauseEnd(r, now)
          BY <1>1, <3>1 DEF InFlightPause, PauseEnd, Max0
        <5>2. s.paused[j] = r.paused[j] + (now - PauseEnd(r, now))
          BY <1>1, <2>1, <2>3, <4>4, <5>1 DEF credit, k
        <5> QED  BY <3>1, <4>1, <4>2, <5>2
      <4> QED  BY <4>3, <4>4
    <3>4. ASSUME NEW j \in Modules, r.startedAt[j] = NoTime PROVE s.paused[j] = 0
      BY <1>1, <2>1, <2>3, <2>5, <3>4 DEF PauseFine
    <3> QED  BY <2>3, <3>2, <3>3, <3>4 DEF PauseFine
  <2> QED  BY <2>2, <2>3, <2>4, <2>5 DEF Advances, LifeMove
<1> QED  BY <1>2, <1>3

LEMMA DesktopSyncAdvances ==
  ASSUME NEW r, Whole(r), NEW k \in Modules, Live(r, k), NEW answered, NEW cleared
  PROVE  Advances(r, Bumped([r EXCEPT !.sheet[k] = (@ \ cleared) \cup answered]), now)
<1> DEFINE body == (r.sheet[k] \ cleared) \cup answered
<1>1. r \in Row /\ r.module = k
  BY DEF Whole, RowOK, Live
<1>2. [r EXCEPT !.sheet[k] = (@ \ cleared) \cup answered] = [r EXCEPT !.sheet[k] = body]
  BY <1>1 DEF Row
<1> HIDE DEF body
<1> QED  BY <1>1, <1>2, SheetAdvances

LEMMA DesktopSubmittedAdvances ==
  ASSUME NEW r, Whole(r), now \in Nat, NEW k \in Modules,
         NEW answered \in SUBSET Question[k], NEW cleared
  PROVE  Advances(r, DesktopSubmitted(r, k, answered, cleared).row, now)
<1> DEFINE healed  == Autoheal(r, now)
           current == DesktopPrepared(r, k)
           answers == (current.sheet[k] \ cleared) \cup answered
<1>1. Repaired(r, healed) /\ Advances(r, healed, now)
  BY AutohealRepairs, RepairedAdvances
<1>2. \/ current = healed
      \/ r.state = "NOT_STARTED" /\ current = StartAttempt(r, now)
  BY <1>1 DEF DesktopPrepared, Repaired, Alike, Running
<1>3. Advances(r, current, now)
  BY <1>1, <1>2, StartAttemptAdvances
<1>4. Keeps(r, current) /\ Aligned(current)
  BY DesktopPreparedKeeps, DesktopPreparedAligned DEF Whole
<1>5. DesktopSubmitted(r, k, answered, cleared).row =
        IF Live(current, k) THEN HandIn(current, answers, now) ELSE current
  BY DEF DesktopSubmitted, Reply
<1>6. ASSUME Live(current, k) PROVE Advances(r, HandIn(current, answers, now), now)
  <2> HIDE DEF healed, current
  <2>1. Whole(current)
    BY <1>3, <1>4, WholeKept
  <2>2. answers \in SUBSET AllQuestions
    BY <2>1, RowFields DEF Whole, RowOK, Sheets, AllQuestions, Modules
  <2> HIDE DEF answers
  <2>3. MaySubmit(current)
    BY <1>4, <1>6 DEF Live, Aligned, MaySubmit, ModuleOf, ActiveIn, Running, Modules, NoModule
  <2> DEFINE s == HandIn(current, answers, now)
  <2>4. Advances(current, s, now)
    BY <2>1, <2>2, <2>3, HandInAdvances
  <2> HIDE DEF s
  <2>5. CASE current = healed
    <3>1. healed = r \/ Alike(r, healed)
      BY <1>1, <1>6, <2>5 DEF Repaired, Live, Running
    <3> QED  BY <2>4, <2>5, <3>1, AlikeThenAdvances DEF s
  <2>6. CASE r.state = "NOT_STARTED" /\ current = StartAttempt(r, now)
    <3>1. /\ current.state = "MODULE_1_ACTIVE" /\ current.sheet = r.sheet
          /\ current.score = r.score
      BY <2>6, BegunRow
    <3>2. s.state = IF SingleModule THEN "SCORING" ELSE "MODULE_2_ACTIVE"
      <4>1. current.module = 1
        BY <1>4, <3>1 DEF Aligned, Running, ModuleOf
      <4> QED  BY <4>1 DEF s, HandIn, SubmitModule1, Bumped, SetActiveModule
    <3>3. LifeMove(r, s)
      BY <2>4, <2>6, <3>1, <3>2 DEF Advances, LifeMove, WritesOnly, ActiveIn, Modules
    <3>4. r.startedAt[1] = NoTime /\ r.startedAt[2] = NoTime
      BY <2>6 DEF Whole, Coherent
    <3> QED  BY <1>3, <2>4, <3>3, <3>4 DEF Advances, Modules, s
  <2> QED  BY <1>2, <2>5, <2>6
<1> HIDE DEF current, answers
<1> QED  BY <1>3, <1>5, <1>6

-----------------------------------------------------------------------------
(* The requests and the steps: what a request does to the row it locks is  *)
(* one of these, whoever sends it.                                         *)

Handles(r, o) ==
  \/ o = ResumeAttempt(r)
  \/ o = Reopened(r)
  \/ \E untimed \in BOOLEAN : o = StartView(r, untimed)
  \/ \E k \in Modules : o = StartModuleView(r, k)
  \/ \E target, body : body \in Bodies /\ o = SubmitModule(r, target, body)
  \/ \E expected, body : body \in Bodies /\ o = SaveAttempt(r, expected, body)
  \/ (r.startedAt[1] = NoTime => Pauses = "anywhere") /\ o = Reply(200, Paused(r), "no")
  \/ o = Reply(200, Unpaused(r), "no")
  \/ \E start \in BOOLEAN : o = DesktopOpened(r, start)
  \/ \E k \in Modules : \E answered, cleared \in SUBSET Question[k] :
       /\ Live(r, k)
       /\ o = Reply(200, Bumped([r EXCEPT !.sheet[k] = (@ \ cleared) \cup answered]), "no")
  \/ \E k \in Modules : \E answered, cleared \in SUBSET Question[k] :
       o = DesktopSubmitted(r, k, answered, cleared)

LEMMA HandledAdvances ==
  ASSUME NEW r, Whole(r), now \in Nat, NEW o, Handles(r, o)
  PROVE  Advances(r, o.row, now)
<1>1. Bodies = SUBSET AllQuestions
  BY DEF Bodies
<1>2. CASE \/ o = ResumeAttempt(r)
           \/ o = Reopened(r)
           \/ \E k \in Modules : o = StartModuleView(r, k)
           \/ \E start \in BOOLEAN : o = DesktopOpened(r, start)
  <2>1. \/ o.row = r
        \/ o.row = Autoheal(r, now)
        \/ o.row = StartAttempt(Autoheal(r, now), now)
    BY <1>2 DEF ResumeAttempt, Reopened, StartModuleView, DesktopOpened, Reply
  <2> QED  BY <2>1, HealedStartAdvances, StaysAdvances DEF Whole
<1>3. CASE \E untimed \in BOOLEAN : o = StartView(r, untimed)
  BY <1>3, StartViewAdvances
<1>4. CASE \E target, body : body \in Bodies /\ o = SubmitModule(r, target, body)
  BY <1>1, <1>4, SubmitModuleAdvances
<1>5. CASE \E expected, body : body \in Bodies /\ o = SaveAttempt(r, expected, body)
  BY <1>1, <1>5, SaveAttemptAdvances
<1>6. CASE (r.startedAt[1] = NoTime => Pauses = "anywhere") /\ o = Reply(200, Paused(r), "no")
  BY <1>6, PausedAdvances DEF Reply
<1>7. CASE o = Reply(200, Unpaused(r), "no")
  BY <1>7, UnpausedAdvances DEF Reply
<1>8. ASSUME NEW k \in Modules, NEW answered \in SUBSET Question[k],
             NEW cleared \in SUBSET Question[k], Live(r, k),
             o = Reply(200, Bumped([r EXCEPT !.sheet[k] = (@ \ cleared) \cup answered]), "no")
      PROVE  Advances(r, o.row, now)
  BY <1>8, DesktopSyncAdvances DEF Reply
<1>9. CASE \E k \in Modules : \E answered, cleared \in SUBSET Question[k] :
             o = DesktopSubmitted(r, k, answered, cleared)
  BY <1>9, DesktopSubmittedAdvances
<1> QED  BY <1>2, <1>3, <1>4, <1>5, <1>6, <1>7, <1>8, <1>9 DEF Handles

Handled(a) ==
  \E o : Exists(a) /\ Handles(rows[a], o) /\ Commit(a, o) /\ UNCHANGED <<announced, losses, now>>

Inserted(a) ==
  \E o : /\ ~Exists(a)
         /\ o.row \in {FreshRow, Reopened(FreshRow).row}
         /\ o.enqueue = "no"
         /\ Commit(a, o) /\ UNCHANGED <<announced, losses, now>>

LEMMA ViewRequestHandled ==
  ASSUME NEW a, NEW o, Handles(rows[a], o), ViewRequest(a, o)
  PROVE  Handled(a)
  BY DEF Handled, ViewRequest, Request

LEMMA WebViewHandled ==
  ASSUME TypeOK, Sounds, AllCoherent, NEW a \in Attempts, WebView(a)
  PROVE  Handled(a)
<1>1. CASE Resume(a)
  BY <1>1, ViewRequestHandled DEF Resume, Handles
<1>2. CASE Start(a)
  <2>1. PICK untimed \in BOOLEAN : ViewRequest(a, StartView(rows[a], untimed))
    BY <1>2 DEF Start
  <2>2. Handles(rows[a], StartView(rows[a], untimed))
    BY DEF Handles
  <2> QED  BY <2>1, <2>2, ViewRequestHandled
<1>3. CASE StartModule(a)
  <2>1. PICK k \in Modules : ViewRequest(a, StartModuleView(rows[a], k))
    BY <1>3 DEF StartModule
  <2>2. Handles(rows[a], StartModuleView(rows[a], k))
    BY DEF Handles
  <2> QED  BY <2>1, <2>2, ViewRequestHandled
<1>4. CASE Submit(a)
  <2>1. PICK target \in Modules \cup {NoModule}, body \in Bodies :
          ViewRequest(a, SubmitModule(rows[a], target, body))
    BY <1>4 DEF Submit
  <2>2. Handles(rows[a], SubmitModule(rows[a], target, body))
    BY DEF Handles
  <2> QED  BY <2>1, <2>2, ViewRequestHandled
<1>5. CASE Save(a)
  <2>1. PICK expected \in 0 .. rows[a].version \cup {NoVersion}, body \in Bodies :
          ViewRequest(a, SaveAttempt(rows[a], expected, body))
    BY <1>5 DEF Save
  <2>2. Handles(rows[a], SaveAttempt(rows[a], expected, body))
    BY DEF Handles
  <2> QED  BY <2>1, <2>2, ViewRequestHandled
<1>6. CASE Pause(a)
  <2>1. Handles(rows[a], Reply(200, Paused(rows[a]), "no"))
    BY <1>6 DEF Pause, Handles
  <2> QED  BY <1>6, <2>1, ViewRequestHandled DEF Pause
<1>7. CASE ResumePause(a)
  <2>1. Handles(rows[a], Reply(200, Unpaused(rows[a]), "no"))
    BY DEF Handles
  <2> QED  BY <1>7, <2>1, ViewRequestHandled DEF ResumePause
<1> QED  BY <1>1, <1>2, <1>3, <1>4, <1>5, <1>6, <1>7 DEF WebView

LEMMA DesktopViewHandled ==
  ASSUME TypeOK, Sounds, AllCoherent, NEW a \in Attempts, DesktopView(a)
  PROVE  Handled(a)
<1>1. CASE DesktopOpen(a)
  <2>1. PICK start \in BOOLEAN : ViewRequest(a, DesktopOpened(rows[a], start))
    BY <1>1 DEF DesktopOpen
  <2>2. Handles(rows[a], DesktopOpened(rows[a], start))
    BY DEF Handles
  <2> QED  BY <2>1, <2>2, ViewRequestHandled
<1>2. CASE DesktopStart(a)
  BY <1>2, ViewRequestHandled DEF DesktopStart, Handles
<1>3. CASE DesktopSync(a)
  <2>1. PICK k \in Modules : \E answered, cleared \in SUBSET Question[k] :
          /\ Live(rows[a], k)
          /\ ViewRequest(a, Reply(200,
               Bumped([rows[a] EXCEPT !.sheet[k] = (@ \ cleared) \cup answered]), "no"))
    BY <1>3 DEF DesktopSync
  <2>2. PICK answered \in SUBSET Question[k], cleared \in SUBSET Question[k] :
          /\ Live(rows[a], k)
          /\ ViewRequest(a, Reply(200,
               Bumped([rows[a] EXCEPT !.sheet[k] = (@ \ cleared) \cup answered]), "no"))
    BY <2>1
  <2> DEFINE o == Reply(200, Bumped([rows[a] EXCEPT !.sheet[k] = (@ \ cleared) \cup answered]), "no")
  <2>3. Handles(rows[a], o)
    BY <2>2 DEF Handles
  <2>4. ViewRequest(a, o)
    BY <2>2
  <2> HIDE DEF o
  <2> QED  BY <2>3, <2>4, ViewRequestHandled
<1>4. CASE DesktopSubmit(a)
  <2>1. PICK k \in Modules : \E answered, cleared \in SUBSET Question[k] :
          Request(a, DesktopSubmitted(rows[a], k, answered, cleared))
    BY <1>4 DEF DesktopSubmit
  <2>2. PICK answered \in SUBSET Question[k], cleared \in SUBSET Question[k] :
          Request(a, DesktopSubmitted(rows[a], k, answered, cleared))
    BY <2>1
  <2>3. Handles(rows[a], DesktopSubmitted(rows[a], k, answered, cleared))
    BY DEF Handles
  <2> QED  BY <2>2, <2>3 DEF Request, Handled
<1>5. CASE DesktopPause(a)
  <2>1. rows[a].startedAt[1] # NoTime
    BY <1>5 DEF DesktopPause, AllCoherent, Coherent, Running, Absent
  <2>2. Handles(rows[a], Reply(200, Paused(rows[a]), "no"))
    BY <2>1 DEF Handles
  <2> QED  BY <1>5, <2>2, ViewRequestHandled DEF DesktopPause
<1>6. CASE DesktopResume(a)
  <2>1. Handles(rows[a], Reply(200, Unpaused(rows[a]), "no"))
    BY DEF Handles
  <2> QED  BY <1>6, <2>1, ViewRequestHandled DEF DesktopResume
<1> QED  BY <1>1, <1>2, <1>3, <1>4, <1>5, <1>6 DEF DesktopView

(* Every step of the server, by what it does to the rows.                  *)
LEMMA StepKinds ==
  ASSUME TypeOK, Sounds, AllCoherent, [Next]_vars
  PROVE  \/ \E a \in Attempts : Handled(a) \/ Inserted(a) \/ Background(a)
         \/ AbandonStaleModule2
         \/ UNCHANGED <<rows, jobs, pending, losses>> /\ (now' = now \/ Tick)
<1>1. CASE DesktopCreate
  <2>1. PICK a \in Attempts :
          NextId(a) /\ Commit(a, Reply(200, FreshRow, "no"))
          /\ UNCHANGED <<creating, outcome, announced, losses, now>>
    BY <1>1 DEF DesktopCreate
  <2>2. /\ Reply(200, FreshRow, "no").row = FreshRow
        /\ Reply(200, FreshRow, "no").enqueue = "no"
    BY DEF Reply
  <2>3. Inserted(a)
    BY <2>1, <2>2 DEF Inserted, NextId
  <2> QED  BY <2>3
<1>2. CASE CreateInsert
  <2>1. PICK a \in Attempts :
          NextId(a) /\ Commit(a, Reply(201, Reopened(FreshRow).row, "no"))
          /\ UNCHANGED <<outcome, announced, losses, now>>
    BY <1>2 DEF CreateInsert
  <2>2. /\ Reply(201, Reopened(FreshRow).row, "no").row = Reopened(FreshRow).row
        /\ Reply(201, Reopened(FreshRow).row, "no").enqueue = "no"
    BY DEF Reply
  <2>3. Inserted(a)
    BY <2>1, <2>2 DEF Inserted, NextId
  <2> QED  BY <2>3
<1>3. CASE CreateReuse
  <2>1. PICK a \in Attempts : Request(a, Reopened(rows[a]))
    BY <1>3 DEF CreateReuse
  <2>2. Handled(a)
    BY <2>1 DEF Request, Handled, Handles
  <2> QED  BY <2>2
<1>4. CASE CreateWithoutAbandoning \/ CreateRefused \/ CreateFails
  BY <1>4 DEF CreateWithoutAbandoning, CreateRefused, CreateFails
<1>5. CASE Creation
  BY <1>1, <1>2, <1>3, <1>4, <1>5 DEF Creation
<1>6. CASE \E a \in Attempts : WebView(a) \/ DesktopView(a) \/ Background(a)
  BY <1>6, WebViewHandled, DesktopViewHandled
<1>7. CASE Tick \/ UNCHANGED vars
  BY <1>7 DEF Tick, vars
<1> QED  BY <1>5, <1>6, <1>7 DEF Next

-----------------------------------------------------------------------------
(* What a step may do to one row, now being the time at which it happens.  *)

(* A row is inserted as FreshRow, or begun at once.                        *)
Opens(r, s) ==
  /\ r = BlankRow
  /\ Coherent(s)
  /\ s.state \in {"NOT_STARTED", "MODULE_1_ACTIVE"}
  /\ s.sheet = r.sheet /\ s.score = r.score
  /\ Pauses # "anywhere" => PauseFine(s, now)

Grades(r, s) == r.state = "SCORING" /\ s = CompleteTest(r)

RowChange(r, s) ==
  \/ s = r
  \/ r.state # Absent /\ Advances(r, s, now)
  \/ Opens(r, s)
  \/ Grades(r, s)

LEMMA WholeRows ==
  ASSUME TypeOK, Sounds, AllCoherent, NEW a \in Attempts, Exists(a)
  PROVE  Whole(rows[a])
  BY SoundsRows DEF Whole, AllCoherent, Exists

LEMMA BlankFields ==
  /\ BlankRow.state = Absent /\ BlankRow.module = NoModule
  /\ \A k \in Modules : BlankRow.startedAt[k] = NoTime
  /\ BlankRow.score = NoScore
  BY DEF BlankRow

LEMMA FreshFields ==
  /\ FreshRow.state = "NOT_STARTED" /\ FreshRow.module = NoModule
  /\ FreshRow.startedAt[1] = NoTime /\ FreshRow.startedAt[2] = NoTime
  /\ FreshRow.paused[1] = 0 /\ FreshRow.paused[2] = 0 /\ FreshRow.pauseAt = NoTime
  /\ FreshRow.sheet = BlankRow.sheet /\ FreshRow.score = BlankRow.score
  BY DEF FreshRow, BlankRow, Modules

LEMMA FreshWhole == Whole(FreshRow)
  BY FreshRowOK, FreshFields DEF Whole, Coherent, Absent

LEMMA FreshOpens ==
  ASSUME NEW s, s \in {FreshRow, Reopened(FreshRow).row}, now \in Nat
  PROVE  Opens(BlankRow, s)
<1>1. Autoheal(FreshRow, now) = FreshRow
  BY FreshWhole, FreshFields, WholeClean DEF Autoheal, Running
<1>2. s = FreshRow \/ s = StartAttempt(FreshRow, now)
  BY <1>1 DEF Reopened, Reply
<1>3. PauseFine(FreshRow, now)
  BY FreshFields DEF PauseFine, Modules
<1>4. CASE s = FreshRow
  BY <1>3, <1>4, FreshWhole, FreshFields DEF Whole, Opens
<1>5. CASE s = StartAttempt(FreshRow, now)
  <2>1. Advances(FreshRow, s, now) /\ s.state = "MODULE_1_ACTIVE"
        /\ s.sheet = FreshRow.sheet /\ s.score = FreshRow.score
    BY <1>5, FreshWhole, FreshFields, BegunRow
  <2> QED  BY <1>3, <2>1, FreshFields DEF Opens, Advances
<1> QED  BY <1>2, <1>4, <1>5

LEMMA AbandonedAdvances ==
  ASSUME NEW r, Whole(r), NEW t
  PROVE  Advances(r, Abandoned(r), t)
<1> DEFINE q == [r EXCEPT !.state = "ABANDONED", !.checkpoint = "MODULE_2_ACTIVE",
                          !.module = NoModule]
           s == Bumped(q)
<1>1. CASE r.state = "MODULE_2_ACTIVE" /\ ~r.completed
  <2>1. r \in Row
    BY DEF Whole, RowOK
  <2>2. /\ q \in Row /\ q.state = "ABANDONED" /\ q.checkpoint = "MODULE_2_ACTIVE"
        /\ q.module = NoModule /\ q.timed = r.timed /\ q.startedAt = r.startedAt
        /\ q.paused = r.paused /\ q.pauseAt = r.pauseAt
        /\ q.sheet = r.sheet /\ q.score = r.score
    BY <2>1 DEF Row, States, Running
  <2>3. Abandoned(r) = s
    BY <1>1 DEF Abandoned
  <2> HIDE DEF q
  <2>4. Alike(q, s) /\ s.module = NoModule
    BY <2>2, BumpedAlike
  <2> HIDE DEF s
  <2>5. Coherent(s)
    BY <1>1, <2>2, <2>4 DEF Coherent, Whole, Alike, Absent
  <2>6. PauseFine(r, t) => PauseFine(s, t)
    BY <2>2, <2>4 DEF PauseFine, PauseEnd, Alike
  <2> QED  BY <1>1, <2>2, <2>3, <2>4, <2>5, <2>6 DEF Advances, LifeMove, Alike
<1>2. CASE ~(r.state = "MODULE_2_ACTIVE" /\ ~r.completed)
  BY <1>2, StaysAdvances DEF Abandoned, Whole
<1> QED  BY <1>1, <1>2

LEMMA AbandonedChange ==
  ASSUME TypeOK, Sounds, AllCoherent, NEW a \in Attempts
  PROVE  RowChange(rows[a], Abandoned(rows[a]))
<1>1. CASE Exists(a)
  BY <1>1, WholeRows, AbandonedAdvances DEF RowChange, Exists
<1>2. CASE ~Exists(a)
  BY <1>2 DEF RowChange, Exists, Abandoned, Absent
<1> QED  BY <1>1, <1>2

LEMMA BackgroundChange ==
  ASSUME TypeOK, Sounds, AllCoherent, NEW a \in Attempts, Background(a)
  PROVE  \A b \in Attempts : RowChange(rows[b], rows'[b])
<1>1. CASE ScoreAttempt(a)
  BY <1>1 DEF ScoreAttempt, RowChange, Grades, TypeOK
<1>2. CASE LosePointer(a)
  <2> DEFINE q == [rows[a] EXCEPT !.module = NoModule]
  <2>1. rows' = [rows EXCEPT ![a] = q] /\ rows[a] \in Row /\ rows[a].module # NoModule
    BY <1>2 DEF LosePointer, TypeOK
  <2>2. Alike(rows[a], q) /\ q.module = NoModule
    BY <2>1 DEF Row, Alike
  <2>3. rows[a].state # Absent /\ Coherent(rows[a])
    <3>1. Coherent(rows[a])
      BY DEF AllCoherent
    <3> QED  BY <2>1, <3>1, BlankFields DEF Coherent
  <2> HIDE DEF q
  <2>4. Advances(rows[a], q, now)
    BY <2>2, <2>3, AlikeAdvances
  <2> QED  BY <2>1, <2>3, <2>4 DEF RowChange, TypeOK
<1>3. CASE EnqueueAfterCommit(a) \/ EnqueueLost(a) \/ WorkerDies(a) \/ RequeueStuck(a)
  BY <1>3 DEF EnqueueAfterCommit, EnqueueLost, WorkerDies, RequeueStuck, RowChange
<1> QED  BY <1>1, <1>2, <1>3 DEF Background

LEMMA CommitChange ==
  ASSUME TypeOK, NEW a \in Attempts, NEW o, Commit(a, o), RowChange(rows[a], o.row)
  PROVE  \A b \in Attempts : RowChange(rows[b], rows'[b])
<1>1. \A b \in Attempts : rows'[b] = IF b = a THEN o.row ELSE rows[b]
  BY DEF Commit, TypeOK
<1> QED  BY <1>1 DEF RowChange

LEMMA StepChange ==
  ASSUME TypeOK, Sounds, AllCoherent, [Next]_vars
  PROVE  \A b \in Attempts : RowChange(rows[b], rows'[b])
<1>1. ASSUME NEW a \in Attempts, Handled(a)
      PROVE  \A b \in Attempts : RowChange(rows[b], rows'[b])
  <2>1. PICK o : Exists(a) /\ Handles(rows[a], o) /\ Commit(a, o)
    BY <1>1 DEF Handled
  <2>2. RowChange(rows[a], o.row)
    BY <2>1, WholeRows, HandledAdvances DEF RowChange, Exists, TypeOK
  <2> QED  BY <2>1, <2>2, CommitChange
<1>2. ASSUME NEW a \in Attempts, Inserted(a)
      PROVE  \A b \in Attempts : RowChange(rows[b], rows'[b])
  <2>1. PICK o : /\ ~Exists(a) /\ o.row \in {FreshRow, Reopened(FreshRow).row}
                 /\ Commit(a, o)
    BY <1>2 DEF Inserted
  <2>2. rows[a] = BlankRow
    BY <2>1 DEF Exists, AllCoherent, Coherent
  <2>3. RowChange(rows[a], o.row)
    BY <2>1, <2>2, FreshOpens DEF RowChange, TypeOK
  <2> QED  BY <2>1, <2>3, CommitChange
<1>3. CASE AbandonStaleModule2
  BY <1>3, AbandonedChange DEF AbandonStaleModule2
<1>4. CASE rows' = rows
  BY <1>4 DEF RowChange
<1> QED  BY <1>1, <1>2, <1>3, <1>4, BackgroundChange, StepKinds

LEMMA GradesFields ==
  ASSUME NEW r, Whole(r), NEW s, Grades(r, s)
  PROVE  /\ s.state = "COMPLETED" /\ s.module = NoModule /\ s.timed = r.timed
         /\ s.startedAt = r.startedAt /\ s.paused = r.paused /\ s.pauseAt = r.pauseAt
         /\ s.sheet = r.sheet /\ s.score = {r.sheet}
<1>1. r \in Row
  BY DEF Whole, RowOK
<1> QED  BY <1>1 DEF Grades, CompleteTest, Bumped, Row

LEMMA ChangeCoherent ==
  ASSUME NEW r, NEW s, r.state # Absent => Whole(r), Coherent(r), RowChange(r, s)
  PROVE  Coherent(s)
<1>1. CASE Grades(r, s)
  <2>1. Whole(r)
    BY <1>1 DEF Grades, Absent
  <2> QED  BY <1>1, <2>1, GradesFields DEF Whole, Coherent, Grades, Absent
<1> QED  BY <1>1 DEF RowChange, Opens, Advances

-----------------------------------------------------------------------------
(* The invariant: every row is coherent.                                   *)

EngineInv == ServerInv /\ AllCoherent

LEMMA InitCoherent == ASSUME Init PROVE AllCoherent
<1>1. Coherent(BlankRow)
  BY BlankFields DEF Coherent, Absent, Modules
<1> QED  BY <1>1 DEF Init, AllCoherent

LEMMA EngineInvInductive == ASSUME EngineInv, [Next]_vars PROVE EngineInv'
<1>1. ServerInv'
  BY ServerInvInductive DEF EngineInv
<1>2. ASSUME NEW a \in Attempts PROVE Coherent(rows'[a])
  <2>1. RowChange(rows[a], rows'[a])
    BY StepChange DEF EngineInv, ServerInv
  <2>2. rows[a].state # Absent => Whole(rows[a])
    BY WholeRows DEF EngineInv, ServerInv, Exists
  <2> QED  BY <2>1, <2>2, ChangeCoherent DEF EngineInv, AllCoherent
<1> QED  BY <1>1, <1>2 DEF EngineInv, AllCoherent

LEMMA EngineInvHolds == Spec => []EngineInv
<1>1. Init => EngineInv
  BY InitServerInv, InitCoherent DEF EngineInv
<1>2. EngineInv /\ [Next]_vars => EngineInv'
  BY EngineInvInductive
<1> QED  BY <1>1, <1>2, PTL DEF Spec

LEMMA EngineStep ==
  ASSUME EngineInv, [Next]_vars, NEW a \in Attempts
  PROVE  /\ rows[a].state = Absent => rows[a] = BlankRow
         /\ rows[a].state # Absent => Whole(rows[a])
         /\ RowChange(rows[a], rows'[a])
  BY StepChange, WholeRows DEF EngineInv, ServerInv, Exists, AllCoherent, Coherent

(* Answers reach only the sheet of the module being sat, whatever request  *)
(* brings them, however late, and whatever pointers were lost.             *)
THEOREM AnswersOnlyWhileSittingHolds == Spec => AnswersOnlyWhileSitting
<1>1. ASSUME EngineInv, [Next]_vars, NEW a \in Attempts, NEW k \in Modules,
             rows'[a].sheet[k] # rows[a].sheet[k]
      PROVE  \/ rows[a].state = ActiveIn(k)
             \/ rows[a].state = "NOT_STARTED" /\ k = 1
  <2> DEFINE r == rows[a]
             s == rows'[a]
  <2>1. RowChange(r, s) /\ (r.state # Absent => Whole(r))
    BY <1>1, EngineStep
  <2>2. ~Grades(r, s)
    BY <1>1, <2>1, GradesFields DEF Grades, Absent
  <2>3. LifeMove(r, s)
    BY <1>1, <2>1, <2>2 DEF RowChange, Opens, Advances
  <2> HIDE DEF r, s
  <2>4. s.sheet # r.sheet /\ s.sheet[k] # r.sheet[k]
    BY <1>1 DEF r, s
  <2> QED  BY <2>3, <2>4 DEF LifeMove, WritesOnly, ActiveIn, Modules, r
<1>2. EngineInv /\ [Next]_vars =>
        [\A a \in Attempts, k \in Modules :
           rows'[a].sheet[k] # rows[a].sheet[k] =>
             \/ rows[a].state = ActiveIn(k)
             \/ rows[a].state = "NOT_STARTED" /\ k = 1]_vars
  BY <1>1
<1> QED  BY <1>2, EngineInvHolds, PTL DEF Spec, AnswersOnlyWhileSitting

(* No resume, repair, abandonment or restore restarts a module's clock.    *)
THEOREM ClocksNeverRestartHolds == Spec => ClocksNeverRestart
<1>1. ASSUME EngineInv, [Next]_vars, NEW a \in Attempts, NEW k \in Modules,
             rows[a].startedAt[k] # NoTime
      PROVE  rows'[a].startedAt[k] = rows[a].startedAt[k]
  <2>1. RowChange(rows[a], rows'[a]) /\ (rows[a].state # Absent => Whole(rows[a]))
    BY <1>1, EngineStep
  <2>2. rows[a] # BlankRow
    BY <1>1, BlankFields
  <2>3. CASE Grades(rows[a], rows'[a])
    BY <2>1, <2>3, GradesFields DEF Grades, Absent
  <2> QED  BY <1>1, <2>1, <2>2, <2>3 DEF RowChange, Opens, Advances
<1>2. EngineInv /\ [Next]_vars =>
        [\A a \in Attempts, k \in Modules :
           rows[a].startedAt[k] # NoTime => rows'[a].startedAt[k] = rows[a].startedAt[k]]_vars
  BY <1>1
<1> QED  BY <1>2, EngineInvHolds, PTL DEF Spec, ClocksNeverRestart

(* Once Module 1 has begun, no request changes the clock choice.           *)
THEOREM TimedChoiceSettledHolds == Spec => TimedChoiceSettled
<1>1. ASSUME EngineInv, [Next]_vars, NEW a \in Attempts, rows[a].startedAt[1] # NoTime
      PROVE  rows'[a].timed = rows[a].timed
  <2>1. RowChange(rows[a], rows'[a]) /\ (rows[a].state # Absent => Whole(rows[a]))
    BY <1>1, EngineStep
  <2>2. rows[a] # BlankRow
    BY <1>1, BlankFields DEF Modules
  <2>3. CASE Grades(rows[a], rows'[a])
    BY <2>1, <2>3, GradesFields DEF Grades, Absent
  <2> QED  BY <1>1, <2>1, <2>2, <2>3 DEF RowChange, Opens, Advances
<1>2. EngineInv /\ [Next]_vars =>
        [\A a \in Attempts :
           rows[a].startedAt[1] # NoTime => rows'[a].timed = rows[a].timed]_vars
  BY <1>1
<1> QED  BY <1>2, EngineInvHolds, PTL DEF Spec, TimedChoiceSettled

-----------------------------------------------------------------------------
(* The clock.                                                              *)

LEMMA StepTime ==
  ASSUME EngineInv, [Next]_vars
  PROVE  now' = now \/ (rows' = rows /\ now' = now + 1)
<1>1. ASSUME NEW a \in Attempts, Handled(a) \/ Inserted(a) \/ Background(a) PROVE now' = now
  BY <1>1 DEF Handled, Inserted, Background, EnqueueAfterCommit, EnqueueLost, ScoreAttempt,
              WorkerDies, RequeueStuck, LosePointer
<1>2. CASE AbandonStaleModule2
  BY <1>2 DEF AbandonStaleModule2
<1> QED  BY <1>1, <1>2, StepKinds DEF EngineInv, ServerInv, Tick

LEMMA PauseFineLater ==
  ASSUME NEW r \in Row, NEW t \in Nat, PauseFine(r, t)
  PROVE  PauseFine(r, t + 1)
<1>1. /\ r.pauseAt \in Nat \cup {NoTime}
      /\ r.startedAt \in [Modules -> Nat \cup {NoTime}] /\ r.paused \in [Modules -> Nat]
  BY RowFields
<1>2. r.pauseAt # NoTime => r.pauseAt <= t + 1 /\ r.startedAt[1] # NoTime
  BY <1>1 DEF PauseFine
<1>3. PauseEnd(r, t) \in Nat /\ PauseEnd(r, t + 1) \in Nat /\ PauseEnd(r, t) <= PauseEnd(r, t + 1)
  BY <1>1 DEF PauseEnd
<1>4. ASSUME NEW k \in Modules, r.startedAt[k] # NoTime
      PROVE  r.paused[k] <= PauseEnd(r, t + 1) - r.startedAt[k]
  <2>1. r.startedAt[k] \in Nat /\ r.paused[k] \in Nat
    BY <1>1, <1>4
  <2>2. r.paused[k] <= PauseEnd(r, t) - r.startedAt[k]
    BY <1>4 DEF PauseFine
  <2> QED  BY <1>3, <2>1, <2>2
<1> QED  BY <1>2, <1>4 DEF PauseFine

AllPauseFine == \A a \in Attempts : PauseFine(rows[a], now)

LEMMA StepPauseFine ==
  ASSUME Pauses # "anywhere", EngineInv, AllPauseFine, [Next]_vars
  PROVE  AllPauseFine'
<1>1. ASSUME NEW a \in Attempts PROVE PauseFine(rows'[a], now)
  <2>1. RowChange(rows[a], rows'[a]) /\ (rows[a].state # Absent => Whole(rows[a]))
        /\ PauseFine(rows[a], now)
    BY EngineStep DEF AllPauseFine
  <2>2. CASE Grades(rows[a], rows'[a])
    <3>1. Whole(rows[a])
      BY <2>1, <2>2 DEF Grades, Absent
    <3> QED  BY <2>1, <2>2, <3>1, GradesFields DEF PauseFine, PauseEnd
  <2> QED  BY <2>1, <2>2 DEF RowChange, Opens, Advances
<1>2. CASE now' = now
  BY <1>1, <1>2 DEF AllPauseFine
<1>3. CASE rows' = rows /\ now' = now + 1
  <2>1. rows \in [Attempts -> Row] /\ now \in Nat
    BY DEF EngineInv, ServerInv, TypeOK
  <2> QED  BY <1>3, <2>1, PauseFineLater DEF AllPauseFine
<1> QED  BY <1>2, <1>3, StepTime

LEMMA CreditWithin ==
  ASSUME EngineInv, AllPauseFine
  PROVE  PauseCreditBounded
<1> SUFFICES ASSUME NEW a \in Attempts, rows[a].module # NoModule
             PROVE  PauseCredit(rows[a], rows[a].module, now)
                      <= now - rows[a].startedAt[rows[a].module]
  BY DEF PauseCreditBounded
<1> DEFINE r == rows[a]
           k == r.module
<1>1. r \in Row /\ now \in Nat /\ Coherent(r) /\ PauseFine(r, now)
  BY DEF EngineInv, ServerInv, TypeOK, AllCoherent, AllPauseFine
<1> HIDE DEF r
<1>2. k \in Modules /\ r.startedAt[k] # NoTime
  BY <1>1, RowFields DEF Coherent, ActiveIn, Modules, Absent, NoModule, r
<1>3. r.startedAt[k] \in Nat /\ r.paused[k] \in Nat /\ r.pauseAt \in Nat \cup {NoTime}
  BY <1>1, <1>2, RowFields
<1>4. r.paused[k] <= PauseEnd(r, now) - r.startedAt[k] /\ (r.pauseAt # NoTime => r.pauseAt <= now)
  BY <1>1, <1>2 DEF PauseFine
<1> HIDE DEF k
<1>5. PauseCredit(r, k, now) <= now - r.startedAt[k]
  BY <1>1, <1>3, <1>4 DEF PauseCredit, InFlightPause, PauseEnd, Max0
<1> QED  BY <1>5 DEF r, k

(* However pauses, resumes, hand-ins, abandonments and restores follow one *)
(* another, a module is credited at most the time since its clock started, *)
(* provided no pause is sent before the sitting has begun.                 *)
THEOREM PauseCreditBoundedHolds ==
  ASSUME Pauses # "anywhere"
  PROVE  Spec => []PauseCreditBounded
<1>1. Init => AllPauseFine
  <2>1. BlankRow.pauseAt = NoTime /\ \A k \in Modules : BlankRow.paused[k] = 0
    BY DEF BlankRow
  <2> QED  BY <2>1, BlankFields DEF Init, AllPauseFine, PauseFine
<1>2. EngineInv /\ AllPauseFine /\ [Next]_vars => AllPauseFine'
  BY StepPauseFine
<1>3. EngineInv /\ AllPauseFine => PauseCreditBounded
  BY CreditWithin
<1> QED  BY <1>1, <1>2, <1>3, EngineInvHolds, PTL DEF Spec

-----------------------------------------------------------------------------
(* The audit.  On a clean row the repair does nothing, so only the loss of *)
(* a module row takes a pointer from a running sitting.                    *)

LEMMA PointedStart ==
  ASSUME NEW r, Whole(r), Pointed(r), NEW t \in Nat
  PROVE  /\ Autoheal(r, t) = r
         /\ Pointed(StartAttempt(r, t))
<1>1. Autoheal(r, t) = r
  BY WholeClean DEF Autoheal, Pointed
<1>2. r.completed <=> r.state = "COMPLETED"
  BY DEF Whole, RowOK, Sound
<1>3. CASE r.state = "ABANDONED"
  BY <1>1, <1>2, <1>3, RestoredAdvances DEF StartAttempt, Pointed, Running, NoModule
<1>4. CASE r.state = "NOT_STARTED"
  BY <1>1, <1>4, BegunRow DEF Pointed, NoModule
<1>5. CASE r.state \notin {"ABANDONED", "NOT_STARTED"}
  BY <1>1, <1>5 DEF StartAttempt, Pointed
<1> QED  BY <1>1, <1>3, <1>4, <1>5

LEMMA PauseKeepsPlace ==
  ASSUME NEW r \in Row
  PROVE  /\ Paused(r).state = r.state /\ Paused(r).module = r.module
         /\ Unpaused(r).state = r.state /\ Unpaused(r).module = r.module
<1>1. Paused(r).state = r.state /\ Paused(r).module = r.module
  BY DEF Paused, Row
<1> DEFINE stopped == [r EXCEPT !.pauseAt = NoTime]
<1>2. stopped \in Row /\ stopped.state = r.state /\ stopped.module = r.module
  BY DEF Row
<1>3. Unpaused(r) = IF r.module = NoModule THEN stopped
                    ELSE [stopped EXCEPT !.paused[r.module] = @ + InFlightPause(r, now)]
  BY DEF Unpaused
<1> HIDE DEF stopped
<1>4. Unpaused(r).state = r.state /\ Unpaused(r).module = r.module
  BY <1>2, <1>3 DEF Row
<1> QED  BY <1>1, <1>4

LEMMA HandledPointed ==
  ASSUME NEW r, Whole(r), Pointed(r), now \in Nat, NEW o, Handles(r, o)
  PROVE  Pointed(o.row)
<1>1. Autoheal(r, now) = r /\ Pointed(StartAttempt(r, now)) /\ r \in Row
  BY PointedStart DEF Whole, RowOK
<1>2. Bodies = SUBSET AllQuestions
  BY DEF Bodies
<1>3. CASE \/ o = ResumeAttempt(r)
           \/ o = Reopened(r)
           \/ \E k \in Modules : o = StartModuleView(r, k)
           \/ \E start \in BOOLEAN : o = DesktopOpened(r, start)
  <2>1. o.row = r \/ o.row = StartAttempt(r, now)
    BY <1>1, <1>3 DEF ResumeAttempt, Reopened, StartModuleView, DesktopOpened, Reply
  <2> QED  BY <1>1, <2>1
<1>4. CASE \E untimed \in BOOLEAN : o = StartView(r, untimed)
  <2> DEFINE free == [r EXCEPT !.timed = FALSE]
  <2>1. o.row = StartAttempt(r, now) \/ (r.state = "NOT_STARTED" /\ o.row = StartAttempt(free, now))
    BY <1>1, <1>4 DEF StartView, Reply
  <2>2. /\ free \in Row /\ free.state = r.state /\ free.module = r.module
        /\ free.completed = r.completed /\ free.startedAt = r.startedAt
        /\ free.checkpoint = r.checkpoint
    BY <1>1 DEF Row
  <2> HIDE DEF free
  <2>3. ASSUME r.state = "NOT_STARTED" PROVE Whole(free)
    BY <2>2, <2>3 DEF Whole, RowOK, Sound, Placed, Coherent, Absent
  <2> QED  BY <1>1, <2>1, <2>2, <2>3, PointedStart DEF Pointed
<1>5. CASE \E target, body : body \in Bodies /\ o = SubmitModule(r, target, body)
  <2>1. PICK target, body : body \in SUBSET AllQuestions /\ o = SubmitModule(r, target, body)
    BY <1>2, <1>5
  <2>2. o.row = r \/ (MaySubmit(r) /\ o.row = HandIn(r, r.sheet[r.module] \cup body, now))
    BY <1>1, <2>1 DEF SubmitModule, Reply
  <2>3. MaySubmit(r) => r.sheet[r.module] \cup body \in SUBSET AllQuestions
    BY <1>1, <2>1, SheetWritten, RowFields DEF MaySubmit
  <2> QED  BY <2>2, <2>3, HandInAdvances
<1>6. CASE \E expected, body : body \in Bodies /\ o = SaveAttempt(r, expected, body)
  <2>1. PICK expected, body : body \in SUBSET AllQuestions /\ o = SaveAttempt(r, expected, body)
    BY <1>2, <1>6
  <2>2. \/ o.row = r
        \/ o.row = Bumped([r EXCEPT !.sheet[r.module] = body])
        \/ r.module # NoModule /\ o.row = Bumped([r EXCEPT !.sheet[r.module] = r.sheet[r.module] \cup body])
        \/ MaySubmit(r) /\ o.row = HandIn(r, r.sheet[r.module] \cup body, now)
    BY <2>1 DEF SaveAttempt, Reply
  <2>3. MaySubmit(r) => r.sheet[r.module] \cup body \in SUBSET AllQuestions
    BY <1>1, <2>1, SheetWritten, RowFields DEF MaySubmit
  <2>4. \A b : /\ Bumped([r EXCEPT !.sheet[r.module] = b]).state = r.state
               /\ Bumped([r EXCEPT !.sheet[r.module] = b]).module = r.module
    BY <1>1 DEF Bumped, Row
  <2> QED  BY <2>2, <2>3, <2>4, HandInAdvances DEF Pointed
<1>7. CASE o = Reply(200, Paused(r), "no") \/ o = Reply(200, Unpaused(r), "no")
  <2>1. o.row.state = r.state /\ o.row.module = r.module
    BY <1>1, <1>7, PauseKeepsPlace DEF Reply
  <2> QED  BY <2>1 DEF Pointed
<1>8. ASSUME NEW k \in Modules, NEW answered \in SUBSET Question[k],
             NEW cleared \in SUBSET Question[k], Live(r, k),
             o = Reply(200, Bumped([r EXCEPT !.sheet[k] = (@ \ cleared) \cup answered]), "no")
      PROVE  Pointed(o.row)
  <2>1. o.row.state = r.state /\ o.row.module = r.module
    BY <1>1, <1>8 DEF Reply, Bumped, Row
  <2> QED  BY <2>1 DEF Pointed
<1>9. ASSUME NEW k \in Modules, NEW answered \in SUBSET Question[k],
             NEW cleared \in SUBSET Question[k], o = DesktopSubmitted(r, k, answered, cleared)
      PROVE  Pointed(o.row)
  <2> DEFINE current == DesktopPrepared(r, k)
             answers == (current.sheet[k] \ cleared) \cup answered
  <2>1. current = r \/ (r.state = "NOT_STARTED" /\ current = StartAttempt(r, now))
    BY <1>1 DEF DesktopPrepared
  <2>2. Advances(r, current, now) /\ Pointed(current)
    BY <1>1, <2>1, StartAttemptAdvances, StaysAdvances DEF Whole
  <2>3. Keeps(r, current) /\ Aligned(current)
    BY DesktopPreparedKeeps, DesktopPreparedAligned DEF Whole
  <2>4. o.row = IF Live(current, k) THEN HandIn(current, answers, now) ELSE current
    BY <1>9 DEF DesktopSubmitted, Reply
  <2> HIDE DEF current
  <2>5. Whole(current)
    BY <2>2, <2>3, WholeKept
  <2>6. answers \in SUBSET AllQuestions
    BY <2>5, RowFields DEF Whole, RowOK, Sheets, AllQuestions, Modules
  <2> HIDE DEF answers
  <2>7. Live(current, k) => MaySubmit(current)
    BY <2>3 DEF Live, Aligned, MaySubmit, ModuleOf, ActiveIn, Running, Modules, NoModule
  <2> QED  BY <2>2, <2>4, <2>5, <2>6, <2>7, HandInAdvances
<1> QED  BY <1>3, <1>4, <1>5, <1>6, <1>7, <1>8, <1>9 DEF Handles

AllPointed == losses = 0 => \A a \in Attempts : Pointed(rows[a])

LEMMA AbandonedPointed == ASSUME NEW r \in Row, Pointed(r) PROVE Pointed(Abandoned(r))
<1>1. CASE r.state = "MODULE_2_ACTIVE" /\ ~r.completed
  <2>1. Abandoned(r).state = "ABANDONED"
    BY <1>1 DEF Abandoned, Bumped, Row
  <2> QED  BY <2>1 DEF Pointed, Running
<1> QED  BY <1>1 DEF Abandoned

LEMMA StepPointed ==
  ASSUME EngineInv, AllPointed, [Next]_vars
  PROVE  AllPointed'
<1>1. TypeOK /\ Sounds /\ AllCoherent /\ losses \in Nat
  BY DEF EngineInv, ServerInv, TypeOK
<1>2. ASSUME NEW a \in Attempts, Handled(a) PROVE AllPointed'
  <2>1. PICK o : /\ Exists(a) /\ Handles(rows[a], o) /\ Commit(a, o) /\ losses' = losses
    BY <1>2 DEF Handled
  <2>2. Whole(rows[a]) /\ now \in Nat
    BY <1>1, <2>1, WholeRows DEF TypeOK
  <2>3. \A b \in Attempts : rows'[b] = IF b = a THEN o.row ELSE rows[b]
    BY <1>1, <2>1 DEF Commit, TypeOK
  <2> QED  BY <2>1, <2>2, <2>3, HandledPointed DEF AllPointed
<1>3. ASSUME NEW a \in Attempts, Inserted(a) PROVE AllPointed'
  <2>1. PICK o : /\ o.row \in {FreshRow, Reopened(FreshRow).row}
                 /\ Commit(a, o) /\ losses' = losses
    BY <1>3 DEF Inserted
  <2>2. now \in Nat /\ Pointed(FreshRow)
    BY <1>1, FreshFields DEF TypeOK, Pointed, Running
  <2>3. Handles(FreshRow, Reopened(FreshRow))
    BY DEF Handles
  <2>4. Pointed(o.row)
    BY <2>1, <2>2, <2>3, FreshWhole, HandledPointed
  <2>5. \A b \in Attempts : rows'[b] = IF b = a THEN o.row ELSE rows[b]
    BY <1>1, <2>1 DEF Commit, TypeOK
  <2> QED  BY <2>1, <2>4, <2>5 DEF AllPointed
<1>4. CASE AbandonStaleModule2
  BY <1>1, <1>4, AbandonedPointed DEF AbandonStaleModule2, AllPointed, TypeOK
<1>5. ASSUME NEW a \in Attempts, Background(a) PROVE AllPointed'
  <2>1. CASE LosePointer(a)
    <3>1. losses' # 0
      BY <1>1, <2>1 DEF LosePointer
    <3> QED  BY <3>1 DEF AllPointed
  <2>2. CASE ScoreAttempt(a)
    <3>1. losses' = losses
      BY <2>2 DEF ScoreAttempt
    <3>2. \A b \in Attempts : rows'[b] = rows[b] \/ Grades(rows[b], rows'[b])
      BY <1>1, <2>2 DEF ScoreAttempt, Grades, TypeOK
    <3>3. \A b \in Attempts : Grades(rows[b], rows'[b]) => Pointed(rows'[b])
      <4> SUFFICES ASSUME NEW b \in Attempts, Grades(rows[b], rows'[b]) PROVE Pointed(rows'[b])
        OBVIOUS
      <4>1. Whole(rows[b])
        BY <1>1, WholeRows DEF Grades, Exists, Absent
      <4>2. rows'[b].state = "COMPLETED"
        BY <4>1, GradesFields
      <4> QED  BY <4>2 DEF Pointed, Running
    <3> QED  BY <3>1, <3>2, <3>3 DEF AllPointed
  <2>3. CASE EnqueueAfterCommit(a) \/ EnqueueLost(a) \/ WorkerDies(a) \/ RequeueStuck(a)
    BY <2>3 DEF EnqueueAfterCommit, EnqueueLost, WorkerDies, RequeueStuck, AllPointed
  <2> QED  BY <1>5, <2>1, <2>2, <2>3 DEF Background
<1>6. CASE UNCHANGED <<rows, jobs, pending, losses>>
  BY <1>6 DEF AllPointed
<1> QED  BY <1>1, <1>2, <1>3, <1>4, <1>5, <1>6, StepKinds

LEMMA AbsentClean == AuditClean(BlankRow)
  BY DEF BlankRow, AuditClean, Running, Finished, Absent

(* Until a module row is deleted under a running sitting, the code's own   *)
(* audit finds nothing to repair in any row the engine produced.           *)
THEOREM EngineConsistentHolds == Spec => [](losses = 0 => EngineConsistent)
<1>1. Init => AllPointed
  BY BlankFields DEF Init, AllPointed, Pointed, Running, Absent
<1>2. EngineInv /\ AllPointed /\ [Next]_vars => AllPointed'
  BY StepPointed
<1>3. EngineInv /\ AllPointed => (losses = 0 => EngineConsistent)
  <2> SUFFICES ASSUME EngineInv, AllPointed, losses = 0, NEW a \in Attempts
               PROVE  /\ AuditClean(rows[a])
                      /\ rows[a].state \notin Running => rows[a].module = NoModule
    BY DEF EngineConsistent
  <2>1. Coherent(rows[a]) /\ Pointed(rows[a]) /\ rows[a].module \in Modules \cup {NoModule}
    BY RowFields DEF EngineInv, ServerInv, TypeOK, AllCoherent, AllPointed
  <2>2. AuditClean(rows[a])
    <3>1. CASE Exists(a)
      BY <2>1, <3>1, WholeRows, WholeClean DEF EngineInv, ServerInv, Pointed
    <3>2. CASE ~Exists(a)
      BY <2>1, <3>2, AbsentClean DEF Exists, Coherent
    <3> QED  BY <3>1, <3>2
  <2>3. rows[a].module # NoModule => rows[a].state \in Running
    BY <2>1 DEF Coherent, ActiveIn, Running
  <2> QED  BY <2>2, <2>3
<1> QED  BY <1>1, <1>2, <1>3, EngineInvHolds, PTL DEF Spec

-----------------------------------------------------------------------------
(* The queue.  With a Module 2 to sit, the only way into SCORING is to hand *)
(* it in, and every view that does so enqueues.                            *)

LEMMA StartNotScored ==
  ASSUME NEW r, Whole(r), Question[2] # {}, NEW t \in Nat
  PROVE  /\ Autoheal(r, t).state = r.state
         /\ StartAttempt(r, t).state = "SCORING" => r.state = "SCORING"
         /\ StartAttempt(Autoheal(r, t), t).state = "SCORING" => r.state = "SCORING"
<1>1. ~SingleModule /\ r \in Row /\ (r.completed <=> r.state = "COMPLETED")
  BY DEF SingleModule, Whole, RowOK, Sound
<1>2. Autoheal(r, t).state = r.state
  BY AutohealRepairs DEF Repaired, Alike
<1>3. StartAttempt(r, t).state = "SCORING" => r.state = "SCORING"
  <2>1. CASE r.state \in {"ABANDONED", "NOT_STARTED"}
    <3>1. LifeMove(r, StartAttempt(r, t))
      BY StartAttemptAdvances DEF Advances
    <3> QED  BY <1>1, <2>1, <3>1 DEF LifeMove, ActiveIn
  <2>2. CASE r.state \in Running /\ r.module = NoModule
    <3>1. StartAttempt(r, t) = SetActiveModule(Bumped(r), ModuleOf(r.state), t)
      BY <1>1, <2>2 DEF StartAttempt, Running
    <3>2. Bumped(r) \in Row /\ Bumped(r).state = r.state /\ ModuleOf(r.state) \in Modules
      BY <1>1, BumpedRow, BumpedFields DEF ModuleOf, Modules
    <3> QED  BY <3>1, <3>2, SetActiveModuleRow
  <2>3. CASE /\ r.state \notin {"ABANDONED", "NOT_STARTED"}
             /\ ~(r.state \in Running /\ r.module = NoModule)
    BY <2>3 DEF StartAttempt
  <2> QED  BY <2>1, <2>2, <2>3
<1> QED  BY <1>2, <1>3, HealedStart

LEMMA HandInEnqueued ==
  ASSUME NEW r, Whole(r), MaySubmit(r), Question[2] # {},
         NEW answers \in SUBSET AllQuestions, NEW t \in Nat,
         HandIn(r, answers, t).state = "SCORING"
  PROVE  r.module = 2
<1>1. r.module \in Modules /\ ~SingleModule
  BY RowFields DEF Whole, RowOK, MaySubmit, SingleModule
<1>2. CASE r.module = 1
  BY <1>1, <1>2, SubmitModule1Advances DEF HandIn, MaySubmit, ActiveIn
<1> QED  BY <1>1, <1>2 DEF Modules

LEMMA HandledQueues ==
  ASSUME NEW r, Whole(r), Question[2] # {}, now \in Nat, NEW o, Handles(r, o),
         r.state # "SCORING", o.row.state = "SCORING"
  PROVE  o.enqueue \in {"in_tx", "after_commit"}
<1>1. /\ r \in Row
      /\ Autoheal(r, now).state # "SCORING"
      /\ StartAttempt(r, now).state # "SCORING"
      /\ StartAttempt(Autoheal(r, now), now).state # "SCORING"
  BY StartNotScored DEF Whole, RowOK
<1>2. Bodies = SUBSET AllQuestions
  BY DEF Bodies
<1>3. CASE \/ o = ResumeAttempt(r)
           \/ o = Reopened(r)
           \/ \E k \in Modules : o = StartModuleView(r, k)
           \/ \E start \in BOOLEAN : o = DesktopOpened(r, start)
  <2>1. \/ o.row = r
        \/ o.row = Autoheal(r, now)
        \/ o.row = StartAttempt(Autoheal(r, now), now)
    BY <1>3 DEF ResumeAttempt, Reopened, StartModuleView, DesktopOpened, Reply
  <2> QED  BY <1>1, <2>1
<1>4. CASE \E untimed \in BOOLEAN : o = StartView(r, untimed)
  <2>1. PICK untimed \in BOOLEAN : o = StartView(r, untimed)
    BY <1>4
  <2>2. LifeMove(r, o.row)
    BY <2>1, StartViewAdvances DEF Advances
  <2> DEFINE healed == Autoheal(r, now)
             free   == [healed EXCEPT !.timed = FALSE]
  <2>3. \/ o.row = StartAttempt(healed, now)
        \/ healed.state = "NOT_STARTED"
    BY <2>1 DEF StartView, Reply
  <2>4. healed.state = r.state
    BY StartNotScored
  <2> QED  BY <1>1, <2>2, <2>3, <2>4 DEF LifeMove, ActiveIn, SingleModule
<1>5. CASE \E target, body : body \in Bodies /\ o = SubmitModule(r, target, body)
  <2>1. PICK target, body : body \in SUBSET AllQuestions /\ o = SubmitModule(r, target, body)
    BY <1>2, <1>5
  <2> QED  BY <1>1, <2>1 DEF SubmitModule, Reply, When
<1>6. CASE \E expected, body : body \in Bodies /\ o = SaveAttempt(r, expected, body)
  <2>1. PICK expected, body : body \in SUBSET AllQuestions /\ o = SaveAttempt(r, expected, body)
    BY <1>2, <1>6
  <2> DEFINE answers == r.sheet[r.module] \cup body
  <2>2. \/ o.row = r
        \/ o.row = Bumped([r EXCEPT !.sheet[r.module] = body])
        \/ o.row = Bumped([r EXCEPT !.sheet[r.module] = answers])
        \/ /\ MaySubmit(r) /\ o.row = HandIn(r, answers, now)
           /\ o.enqueue = When(r.module = 2, "after_commit")
    BY <2>1 DEF SaveAttempt, Reply
  <2>3. MaySubmit(r) => answers \in SUBSET AllQuestions
    BY <1>1, <2>1, SheetWritten, RowFields DEF MaySubmit
  <2>4. \A b : Bumped([r EXCEPT !.sheet[r.module] = b]).state = r.state
    BY <1>1 DEF Bumped, Row
  <2> HIDE DEF answers
  <2> QED  BY <2>2, <2>3, <2>4, HandInEnqueued DEF When
<1>7. CASE o = Reply(200, Paused(r), "no") \/ o = Reply(200, Unpaused(r), "no")
  BY <1>1, <1>7, PauseKeepsPlace DEF Reply
<1>8. ASSUME NEW k \in Modules, NEW answered \in SUBSET Question[k],
             NEW cleared \in SUBSET Question[k],
             o = Reply(200, Bumped([r EXCEPT !.sheet[k] = (@ \ cleared) \cup answered]), "no")
      PROVE  FALSE
  BY <1>1, <1>8 DEF Reply, Bumped, Row
<1>9. ASSUME NEW k \in Modules, NEW answered \in SUBSET Question[k],
             NEW cleared \in SUBSET Question[k], o = DesktopSubmitted(r, k, answered, cleared)
      PROVE  o.enqueue \in {"in_tx", "after_commit"}
  <2> DEFINE current == DesktopPrepared(r, k)
  <2>1. current.state # "SCORING"
    <3>1. current = Autoheal(r, now) \/ current = StartAttempt(Autoheal(r, now), now)
      BY DEF DesktopPrepared
    <3> QED  BY <1>1, <3>1
  <2> QED  BY <1>9, <2>1 DEF DesktopSubmitted, Reply, When
<1> QED  BY <1>3, <1>4, <1>5, <1>6, <1>7, <1>8, <1>9 DEF Handles

LEMMA StepQueued ==
  ASSUME Crashes = {}, Question[2] # {}, EngineInv, ScoringIsQueued, [Next]_vars
  PROVE  ScoringIsQueued'
<1>1. /\ TypeOK /\ Sounds /\ AllCoherent /\ jobs \in [Attempts -> Nat] /\ now \in Nat
  BY DEF EngineInv, ServerInv, TypeOK
<1>2. ASSUME NEW a \in Attempts, NEW o, Commit(a, o),
             \/ o.row.state # "SCORING"
             \/ rows[a].state = "SCORING"
             \/ o.enqueue \in {"in_tx", "after_commit"}
      PROVE  ScoringIsQueued'
  <2>1. \A b \in Attempts : rows'[b] = IF b = a THEN o.row ELSE rows[b]
    BY <1>1, <1>2 DEF Commit, TypeOK
  <2>2. pending \subseteq pending' /\ (o.enqueue = "after_commit" => a \in pending')
    BY <1>2 DEF Commit
  <2>3. /\ \A b \in Attempts : jobs[b] > 0 => jobs'[b] > 0
        /\ o.enqueue = "in_tx" => jobs'[a] > 0
    BY <1>1, <1>2 DEF Commit
  <2> QED  BY <1>2, <2>1, <2>2, <2>3 DEF ScoringIsQueued
<1>3. ASSUME NEW a \in Attempts, Handled(a) PROVE ScoringIsQueued'
  <2>1. PICK o : Exists(a) /\ Handles(rows[a], o) /\ Commit(a, o)
    BY <1>3 DEF Handled
  <2> QED  BY <1>1, <1>2, <2>1, WholeRows, HandledQueues
<1>4. ASSUME NEW a \in Attempts, Inserted(a) PROVE ScoringIsQueued'
  <2>1. PICK o : o.row \in {FreshRow, Reopened(FreshRow).row} /\ Commit(a, o)
    BY <1>4 DEF Inserted
  <2>2. o.row.state # "SCORING"
    BY <1>1, <2>1, FreshOpens DEF Opens
  <2> QED  BY <1>2, <2>1, <2>2
<1>5. CASE AbandonStaleModule2
  <2>1. rows' = [b \in Attempts |-> Abandoned(rows[b])] /\ jobs' = jobs /\ pending' = pending
    BY <1>5 DEF AbandonStaleModule2
  <2>2. \A b \in Attempts : Abandoned(rows[b]).state = "SCORING" => rows[b].state = "SCORING"
    BY <1>1 DEF Abandoned, Bumped, TypeOK, Row
  <2> QED  BY <2>1, <2>2 DEF ScoringIsQueued
<1>6. ASSUME NEW a \in Attempts, Background(a) PROVE ScoringIsQueued'
  <2>1. CASE EnqueueAfterCommit(a)
    BY <1>1, <2>1 DEF EnqueueAfterCommit, ScoringIsQueued
  <2>2. CASE ScoreAttempt(a)
    <3>1. \A b \in Attempts : b # a => rows'[b] = rows[b] /\ jobs'[b] = jobs[b]
      BY <1>1, <2>2 DEF ScoreAttempt, TypeOK
    <3>2. pending' = pending
      BY <2>2 DEF ScoreAttempt
    <3>3. rows'[a].state # "SCORING"
      <4>1. CASE rows[a].state = "SCORING"
        <5>1. Grades(rows[a], rows'[a]) /\ Whole(rows[a])
          BY <1>1, <2>2, <4>1, WholeRows DEF ScoreAttempt, Grades, TypeOK, Exists, Absent
        <5> QED  BY <5>1, GradesFields
      <4>2. CASE rows[a].state # "SCORING"
        BY <2>2, <4>2 DEF ScoreAttempt
      <4> QED  BY <4>1, <4>2
    <3> QED  BY <3>1, <3>2, <3>3 DEF ScoringIsQueued
  <2>3. CASE RequeueStuck(a)
    BY <1>1, <2>3 DEF RequeueStuck, ScoringIsQueued
  <2>4. CASE LosePointer(a)
    <3>1. \A b \in Attempts : rows'[b].state = rows[b].state
      BY <1>1, <2>4 DEF LosePointer, TypeOK, Row
    <3>2. jobs' = jobs /\ pending' = pending
      BY <2>4 DEF LosePointer
    <3> QED  BY <3>1, <3>2 DEF ScoringIsQueued
  <2> QED  BY <1>6, <2>1, <2>2, <2>3, <2>4 DEF Background, EnqueueLost, WorkerDies
<1>7. CASE UNCHANGED <<rows, jobs, pending, losses>>
  BY <1>7 DEF ScoringIsQueued
<1> QED  BY <1>1, <1>3, <1>4, <1>5, <1>6, <1>7, StepKinds

(* When nothing dies and the paper has a Module 2, a sitting that waits for*)
(* its score always has a job in the broker or a request about to send one.*)
THEOREM ScoringIsQueuedHolds ==
  ASSUME Crashes = {}, Question[2] # {}
  PROVE  Spec => []ScoringIsQueued
<1>1. Init => ScoringIsQueued
  BY BlankFields DEF Init, ScoringIsQueued, Absent
<1>2. EngineInv /\ ScoringIsQueued /\ [Next]_vars => ScoringIsQueued'
  BY StepQueued
<1> QED  BY <1>1, <1>2, EngineInvHolds, PTL DEF Spec

-----------------------------------------------------------------------------
(* The refinement of ExamLifecycle: its initial state and its steps.       *)

LPhase == [a \in Attempts |-> PhaseOf(rows[a].state)]
LSheet == [a \in Attempts |-> rows[a].sheet]
LGrade == [a \in Attempts |-> rows[a].score]

LifecycleStep == [Lifecycle!Next]_(Lifecycle!vars)

(* Only row a changes, to s.                                               *)
Turns(a, s) == rows' = [rows EXCEPT ![a] = s]

Freed(a) == \A b \in Attempts \ {a} : ~Occupies(rows[b])

LEMMA PhaseOfStates ==
  /\ PhaseOf(Absent) = "absent" /\ PhaseOf("NOT_STARTED") = "welcome"
  /\ PhaseOf("MODULE_1_ACTIVE") = "module 1" /\ PhaseOf("MODULE_2_ACTIVE") = "module 2"
  /\ PhaseOf("ABANDONED") = "shelved" /\ PhaseOf("COMPLETED") = "graded"
  /\ PhaseOf("SCORING") = "handed in"
  BY DEF PhaseOf, Absent

LEMMA Sittings == Lifecycle!Sitting(1) = "module 1" /\ Lifecycle!Sitting(2) = "module 2"
<1>1. 2 # 1
  OBVIOUS
<1> QED  BY <1>1 DEF Lifecycle!Sitting

LEMMA TurnedViews ==
  ASSUME TypeOK, NEW a \in Attempts, NEW s, Turns(a, s)
  PROVE  /\ LPhase' = [LPhase EXCEPT ![a] = PhaseOf(s.state)]
         /\ LSheet' = [LSheet EXCEPT ![a] = s.sheet]
         /\ LGrade' = [LGrade EXCEPT ![a] = s.score]
         /\ LPhase[a] = PhaseOf(rows[a].state)
         /\ LSheet[a] = rows[a].sheet /\ LGrade[a] = rows[a].score
  BY DEF TypeOK, Turns, LPhase, LSheet, LGrade

LEMMA SameView ==
  ASSUME NEW a \in Attempts
  PROVE  /\ LPhase = [LPhase EXCEPT ![a] = LPhase[a]]
         /\ LSheet = [LSheet EXCEPT ![a] = LSheet[a]]
         /\ LGrade = [LGrade EXCEPT ![a] = LGrade[a]]
  BY DEF LPhase, LSheet, LGrade

(* No other attempt is open: none is, where a itself is not.               *)
LEMMA FreedVacant ==
  ASSUME TypeOK, Sounds, NEW a \in Attempts, Freed(a), rows[a].state \in {Absent, "ABANDONED"}
  PROVE  Lifecycle!Vacant
<1>1. ASSUME NEW b \in Attempts PROVE LPhase[b] \in {"absent", "shelved", "graded"}
  <2>1. rows[b].state \in {Absent, "ABANDONED", "COMPLETED"}
    BY DEF Freed, Occupies, Sounds, Sound
  <2> QED  BY <2>1, PhaseOfStates DEF LPhase
<1> QED  BY <1>1 DEF Lifecycle!Vacant, Lifecycle!Open, LPhase

LEMMA StutterStep ==
  ASSUME LPhase' = LPhase, LSheet' = LSheet, LGrade' = LGrade
  PROVE  LifecycleStep
  BY DEF LifecycleStep, Lifecycle!vars, LPhase, LSheet, LGrade

LEMMA MoveStep ==
  ASSUME TypeOK, Sounds, NEW a \in Attempts, NEW s, Turns(a, s),
         s.sheet = rows[a].sheet, s.score = rows[a].score,
         \/ rows[a].state = "NOT_STARTED" /\ s.state = "MODULE_1_ACTIVE"
         \/ rows[a].state = "MODULE_2_ACTIVE" /\ s.state = "ABANDONED"
         \/ /\ rows[a].state = "ABANDONED" /\ s.state = "MODULE_2_ACTIVE"
            /\ Freed(a)
         \/ /\ rows[a].state = Absent /\ s.state \in {"NOT_STARTED", "MODULE_1_ACTIVE"}
            /\ Freed(a)
  PROVE  LifecycleStep
<1>1. LSheet' = LSheet /\ LGrade' = LGrade
  BY TurnedViews, SameView
<1>2. LPhase[a] = PhaseOf(rows[a].state) /\ LPhase' = [LPhase EXCEPT ![a] = PhaseOf(s.state)]
  BY TurnedViews
<1>3. CASE rows[a].state = "NOT_STARTED" /\ s.state = "MODULE_1_ACTIVE"
  <2>1. Lifecycle!Begin(a)
    BY <1>1, <1>2, <1>3, PhaseOfStates, Sittings
    DEF Lifecycle!Begin, Lifecycle!Moves, LPhase, LSheet, LGrade
  <2> QED  BY <2>1 DEF LifecycleStep, Lifecycle!Next
<1>4. CASE rows[a].state = "MODULE_2_ACTIVE" /\ s.state = "ABANDONED"
  <2>1. Lifecycle!Shelve(a)
    BY <1>1, <1>2, <1>4, PhaseOfStates, Sittings
    DEF Lifecycle!Shelve, Lifecycle!Moves, LPhase, LSheet, LGrade
  <2> QED  BY <2>1 DEF LifecycleStep, Lifecycle!Next
<1>5. CASE rows[a].state = "ABANDONED" /\ s.state = "MODULE_2_ACTIVE" /\ Freed(a)
  <2>1. Lifecycle!Vacant
    BY <1>5, FreedVacant
  <2>2. Lifecycle!Unshelve(a)
    BY <1>1, <1>2, <1>5, <2>1, PhaseOfStates, Sittings
    DEF Lifecycle!Unshelve, Lifecycle!Moves, LPhase, LSheet, LGrade
  <2> QED  BY <2>2 DEF LifecycleStep, Lifecycle!Next
<1>6. CASE /\ rows[a].state = Absent /\ s.state \in {"NOT_STARTED", "MODULE_1_ACTIVE"}
           /\ Freed(a)
  <2>1. Lifecycle!Vacant
    BY <1>6, FreedVacant
  <2>2. Lifecycle!Enrol(a)
    BY <1>1, <1>2, <1>6, <2>1, PhaseOfStates, Sittings
    DEF Lifecycle!Enrol, Lifecycle!Moves, LPhase, LSheet, LGrade
  <2> QED  BY <2>2 DEF LifecycleStep, Lifecycle!Next
<1> QED  BY <1>3, <1>4, <1>5, <1>6

LEMMA WriteStep ==
  ASSUME TypeOK, NEW a \in Attempts, NEW s \in Row, Turns(a, s), NEW k \in Modules,
         WritesOnly(rows[a], s, k),
         \/ rows[a].state = ActiveIn(k) /\ s.state = rows[a].state
         \/ /\ k = 1 /\ rows[a].state \in {"NOT_STARTED", "MODULE_1_ACTIVE"}
            /\ s.state = IF SingleModule THEN "SCORING" ELSE "MODULE_2_ACTIVE"
         \/ k = 2 /\ rows[a].state = "MODULE_2_ACTIVE" /\ s.state = "SCORING"
  PROVE  LifecycleStep
<1>1. LGrade' = LGrade
  BY TurnedViews, SameView DEF WritesOnly
<1>2. LPhase[a] = PhaseOf(rows[a].state) /\ LPhase' = [LPhase EXCEPT ![a] = PhaseOf(s.state)]
  BY TurnedViews
<1>3. Lifecycle!Writes(a, k)
  <2>1. s.sheet \in Sheets
    BY RowFields
  <2>2. LSheet' = [LSheet EXCEPT ![a] = s.sheet]
        /\ \A j \in Modules \ {k} : s.sheet[j] = LSheet[a][j]
    BY TurnedViews DEF WritesOnly
  <2> QED  BY <2>1, <2>2 DEF Lifecycle!Writes, LSheet
<1>4. CASE rows[a].state = ActiveIn(k) /\ s.state = rows[a].state
  <2>1. LPhase' = LPhase /\ LPhase[a] = Lifecycle!Sitting(k)
    <3>1. s.state = rows[a].state /\ LPhase' = LPhase
      BY <1>2, <1>4, SameView
    <3>2. k = 1 \/ k = 2
      BY DEF Modules
    <3>3. CASE k = 1
      BY <1>2, <1>4, <3>1, <3>3, PhaseOfStates, Sittings DEF ActiveIn
    <3>4. CASE k = 2
      BY <1>2, <1>4, <3>1, <3>4, PhaseOfStates, Sittings DEF ActiveIn
    <3> QED  BY <3>2, <3>3, <3>4
  <2>2. Lifecycle!Answer(a)
    BY <1>1, <1>3, <2>1 DEF Lifecycle!Answer, LPhase, LGrade
  <2> QED  BY <2>2 DEF LifecycleStep, Lifecycle!Next
<1>5. CASE /\ k = 1 /\ rows[a].state \in {"NOT_STARTED", "MODULE_1_ACTIVE"}
           /\ s.state = IF SingleModule THEN "SCORING" ELSE "MODULE_2_ACTIVE"
  <2>1. Lifecycle!HandInModule1(a)
    BY <1>1, <1>2, <1>3, <1>5, PhaseOfStates, Sittings
    DEF Lifecycle!HandInModule1, Lifecycle!Moves, LPhase, LGrade
  <2> QED  BY <2>1 DEF LifecycleStep, Lifecycle!Next
<1>6. CASE k = 2 /\ rows[a].state = "MODULE_2_ACTIVE" /\ s.state = "SCORING"
  <2>1. Lifecycle!HandInModule2(a)
    BY <1>1, <1>2, <1>3, <1>6, PhaseOfStates, Sittings
    DEF Lifecycle!HandInModule2, Lifecycle!Moves, LPhase, LGrade
  <2> QED  BY <2>1 DEF LifecycleStep, Lifecycle!Next
<1> QED  BY <1>4, <1>5, <1>6

LEMMA GradeStep ==
  ASSUME TypeOK, NEW a \in Attempts, NEW s, Turns(a, s), Whole(rows[a]), Grades(rows[a], s)
  PROVE  LifecycleStep
<1>1. s.state = "COMPLETED" /\ s.sheet = rows[a].sheet /\ s.score = {rows[a].sheet}
      /\ rows[a].state = "SCORING"
  BY GradesFields DEF Grades
<1>2. /\ LSheet' = LSheet /\ LPhase[a] = PhaseOf(rows[a].state)
      /\ LPhase' = [LPhase EXCEPT ![a] = PhaseOf(s.state)]
      /\ LGrade' = [LGrade EXCEPT ![a] = {LSheet[a]}]
  BY <1>1, TurnedViews, SameView
<1>3. Lifecycle!Grade(a)
  BY <1>1, <1>2, PhaseOfStates DEF Lifecycle!Grade, Lifecycle!Moves, LPhase, LSheet, LGrade
<1> QED  BY <1>3 DEF LifecycleStep, Lifecycle!Next

(* A step that changes one row, past the unique constraint.                *)
LEMMA TurnStep ==
  ASSUME EngineInv, NEW a \in Attempts, NEW s \in Row, Turns(a, s), RowChange(rows[a], s),
         Sound(s), Occupies(s) => Freed(a)
  PROVE  LifecycleStep
<1> DEFINE r == rows[a]
<1>1. TypeOK /\ Sounds /\ (r.state # Absent => Whole(r))
  BY WholeRows DEF EngineInv, ServerInv, Exists
<1>2. CASE s.state = r.state /\ s.sheet = r.sheet /\ s.score = r.score
  <2>1. LPhase' = LPhase /\ LSheet' = LSheet /\ LGrade' = LGrade
    BY <1>1, <1>2, TurnedViews, SameView
  <2> QED  BY <2>1, StutterStep
<1>3. CASE Grades(r, s)
  <2>1. Whole(r)
    BY <1>1, <1>3 DEF Grades, Absent
  <2> QED  BY <1>1, <1>3, <2>1, GradeStep
<1>4. CASE Opens(r, s)
  <2>1. r.state = Absent
    BY <1>4, BlankFields DEF Opens
  <2>2. Freed(a)
    <3>1. Coherent(s) /\ s.state \in {"NOT_STARTED", "MODULE_1_ACTIVE"}
      BY <1>4 DEF Opens
    <3> QED  BY <3>1 DEF Occupies, Sound, Absent
  <2> QED  BY <1>1, <1>4, <2>1, <2>2, MoveStep DEF Opens
<1>5. CASE r.state # Absent /\ LifeMove(r, s)
  <2>1. CASE /\ \/ r.state = "NOT_STARTED" /\ s.state = "MODULE_1_ACTIVE"
                \/ r.state = "MODULE_2_ACTIVE" /\ s.state = "ABANDONED"
                \/ r.state = "ABANDONED" /\ s.state = "MODULE_2_ACTIVE"
             /\ s.sheet = r.sheet /\ s.score = r.score
    <3>1. s.state = "MODULE_2_ACTIVE" => Freed(a)
      BY <1>5 DEF Occupies, Sound, Absent
    <3> QED  BY <1>1, <2>1, <3>1, MoveStep
  <2>2. CASE \E k \in Modules : r.state = ActiveIn(k) /\ s.state = r.state /\ WritesOnly(r, s, k)
    BY <1>1, <2>2, WriteStep
  <2>3. CASE /\ r.state \in {"NOT_STARTED", "MODULE_1_ACTIVE"}
             /\ s.state = IF SingleModule THEN "SCORING" ELSE "MODULE_2_ACTIVE"
             /\ WritesOnly(r, s, 1)
    BY <1>1, <2>3, WriteStep DEF Modules
  <2>4. CASE r.state = "MODULE_2_ACTIVE" /\ s.state = "SCORING" /\ WritesOnly(r, s, 2)
    BY <1>1, <2>4, WriteStep DEF Modules
  <2> QED  BY <1>2, <1>5, <2>1, <2>2, <2>3, <2>4 DEF LifeMove
<1>6. s = r \/ Grades(r, s) \/ Opens(r, s) \/ (r.state # Absent /\ LifeMove(r, s))
  BY DEF RowChange, Advances
<1> HIDE DEF r
<1> QED  BY <1>2, <1>3, <1>4, <1>5, <1>6

LEMMA CommitLives ==
  ASSUME EngineInv, [Next]_vars, NEW a \in Attempts, NEW o, Commit(a, o)
  PROVE  LifecycleStep
<1>1. Turns(a, o.row) /\ (Occupies(o.row) => Freed(a))
  BY DEF Commit, Admitted, Turns, Freed
<1>2. rows'[a] = o.row
  BY <1>1 DEF Turns, EngineInv, ServerInv, TypeOK
<1>3. o.row \in Row /\ Sound(o.row)
  <2>1. ServerInv'
    BY ServerInvInductive DEF EngineInv
  <2> QED  BY <1>2, <2>1 DEF ServerInv, TypeOK, Sounds
<1>4. RowChange(rows[a], o.row)
  BY <1>2, EngineStep
<1> QED  BY <1>1, <1>3, <1>4, TurnStep

(* At most one row is shelved: only one was occupied.                      *)
LEMMA AbandonLives ==
  ASSUME EngineInv, OneActive, [Next]_vars, AbandonStaleModule2
  PROVE  LifecycleStep
<1>1. rows' = [b \in Attempts |-> Abandoned(rows[b])] /\ rows \in [Attempts -> Row]
  BY DEF AbandonStaleModule2, EngineInv, ServerInv, TypeOK
<1>2. CASE \A b \in Attempts : Abandoned(rows[b]) = rows[b]
  <2>1. rows' = rows
    BY <1>1, <1>2
  <2> QED  BY <2>1, StutterStep DEF LPhase, LSheet, LGrade
<1>3. ASSUME NEW a \in Attempts, Abandoned(rows[a]) # rows[a] PROVE LifecycleStep
  <2> DEFINE s == Abandoned(rows[a])
  <2>1. \A b \in Attempts : Abandoned(rows[b]) # rows[b] => Occupies(rows[b])
    BY DEF Abandoned, Occupies, Absent
  <2>2. \A b \in Attempts \ {a} : Abandoned(rows[b]) = rows[b]
    BY <1>3, <2>1 DEF OneActive
  <2>3. rows'[a] = s
    BY <1>1
  <2>4. Turns(a, s)
    BY <1>1, <2>2 DEF Turns
  <2>5. s \in Row /\ Sound(s)
    <3>1. ServerInv'
      BY ServerInvInductive DEF EngineInv
    <3> QED  BY <2>3, <3>1 DEF ServerInv, TypeOK, Sounds
  <2>6. RowChange(rows[a], s)
    BY <2>3, EngineStep
  <2>7. ~Occupies(s)
    <3>1. rows[a].state = "MODULE_2_ACTIVE" /\ ~rows[a].completed
      BY <1>3 DEF Abandoned
    <3>2. s.state = "ABANDONED"
      BY <1>1, <3>1 DEF Abandoned, Bumped, Row
    <3> QED  BY <3>2 DEF Occupies
  <2> HIDE DEF s
  <2> QED  BY <2>4, <2>5, <2>6, <2>7, TurnStep
<1> QED  BY <1>2, <1>3

LEMMA BackgroundLives ==
  ASSUME EngineInv, [Next]_vars, NEW a \in Attempts, Background(a)
  PROVE  LifecycleStep
<1>1. rows \in [Attempts -> Row]
  BY DEF EngineInv, ServerInv, TypeOK
<1>2. CASE ScoreAttempt(a) /\ rows[a].state = "SCORING"
  <2>1. Turns(a, CompleteTest(rows[a]))
    BY <1>2 DEF ScoreAttempt, Turns
  <2>2. TypeOK /\ Whole(rows[a])
    BY <1>2, EngineStep DEF EngineInv, ServerInv, Absent
  <2> QED  BY <1>2, <2>1, <2>2, GradeStep DEF Grades
<1>3. CASE LosePointer(a)
  <2>1. \A b \in Attempts : /\ rows'[b].state = rows[b].state
                            /\ rows'[b].sheet = rows[b].sheet
                            /\ rows'[b].score = rows[b].score
    BY <1>1, <1>3 DEF LosePointer, Row
  <2> QED  BY <2>1, StutterStep DEF LPhase, LSheet, LGrade
<1>4. CASE rows' = rows
  BY <1>4, StutterStep DEF LPhase, LSheet, LGrade
<1> QED  BY <1>2, <1>3, <1>4
         DEF Background, ScoreAttempt, EnqueueAfterCommit, EnqueueLost, WorkerDies, RequeueStuck

LEMMA StepLives ==
  ASSUME EngineInv, OneActive, [Next]_vars
  PROVE  LifecycleStep
<1>1. ASSUME NEW a \in Attempts, Handled(a) \/ Inserted(a) PROVE LifecycleStep
  BY <1>1, CommitLives DEF Handled, Inserted
<1>2. CASE UNCHANGED rows
  BY <1>2, StutterStep DEF LPhase, LSheet, LGrade
<1> QED  BY <1>1, <1>2, AbandonLives, BackgroundLives, StepKinds DEF EngineInv, ServerInv

(* Every step of the server, of any client, timer, repair or job, is a     *)
(* step of the life of one sitting, or none: one open at a time, forward   *)
(* only, graded on the sheets it was handed in with.                       *)
THEOREM ImplementsLifecycleSteps == Spec => Lifecycle!Init /\ [][Lifecycle!Next]_(Lifecycle!vars)
<1>1. Init => Lifecycle!Init
  BY BlankFields, PhaseOfStates DEF Init, Lifecycle!Init, NoScore
<1>2. EngineInv /\ OneActive /\ [Next]_vars => [Lifecycle!Next]_(Lifecycle!vars)
  BY StepLives DEF LifecycleStep
<1> QED  BY <1>1, <1>2, EngineInvHolds, OneActiveHolds, PTL DEF Spec

=============================================================================
