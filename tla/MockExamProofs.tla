--------------------------- MODULE MockExamProofs ---------------------------
(***************************************************************************)
(* Proofs about MockExam, for any students, papers, questions, limits and  *)
(* bounds.  First what the engine makes of one row (Moved), then what a    *)
(* step makes of them all.  The invariant needs one fact that is not among *)
(* the properties: a paper of the room is begun in the transaction that    *)
(* makes it, so the End of the room leaves none that is NOT_STARTED.       *)
(***************************************************************************)
EXTENDS MockExam, FiniteSetTheorems, TLAPS

USE LimitAssumption, BoundAssumption, OpeningsAssumption, RuleAssumption

(* A paper that is not handed in has a chance left.                        *)
Sound == {r \in Paper : r.state \notin HandedIn => r.strikes < ViolationLimit}

PapersSound == \A p \in Papers : papers[p] \in Sound
SeatsAreBegun == \A p \in Seats : papers[p].state # "NOT_STARTED"
Inv == TypeOK /\ PapersSound /\ OneClock /\ EndedRoomIsEmpty /\ SeatsAreBegun

InTime(r, n) ==
  n.sheet # r.sheet => /\ r.state \in Modules
                       /\ ~Expired(r)
                       /\ r.sheet \subseteq n.sheet
                       /\ n.sheet \subseteq r.sheet \cup Question[r.state]

Onward(r, n) ==
  /\ Rank[r.state] <= Rank[n.state]
  /\ r.state \in HandedIn => n.sheet = r.sheet /\ n.strikes = r.strikes

(* What a request, the reaper or the worker may make of a paper.           *)
Moved(r, n) ==
  /\ n \in Sound
  /\ Onward(r, n)
  /\ InTime(r, n)
  /\ n.state = "ENGLISH_M1" => r.state = "ENGLISH_M1" /\ n.age = r.age
  /\ n.state = "NOT_STARTED" => r.state = "NOT_STARTED"
  /\ r.state \in HandedIn => n.state \in HandedIn
  /\ r.state = "ABSENT" => n.state = "ABSENT"

-----------------------------------------------------------------------------
(* One row.                                                                *)

LEMMA Ranks ==
  /\ Rank["ABSENT"] = 0 /\ Rank["NOT_STARTED"] = 1 /\ Rank["ENGLISH_M1"] = 2
  /\ Rank["ENGLISH_M2"] = 3 /\ Rank["BREAK"] = 4 /\ Rank["MATH_M1"] = 5
  /\ Rank["MATH_M2"] = 6 /\ Rank["SCORING"] = 7 /\ Rank["COMPLETED"] = 8
  /\ \A f \in States : Rank[f] \in 0 .. 8
BY DEF Rank, States, Phases, Modules, HandedIn

LEMMA Unmoved ==
  ASSUME NEW r \in Sound
  PROVE  Moved(r, r)
BY Ranks DEF Moved, Onward, InTime, Paper, Sound

LEMMA EnteringPaper ==
  ASSUME NEW r \in Paper, NEW f \in States
  PROVE  /\ Entering(r, f) \in Paper
         /\ Entering(r, f).state = f
         /\ Entering(r, f).sheet = r.sheet
         /\ Entering(r, f).strikes = r.strikes
<1> DEFINE m == [r EXCEPT !.state = f]
<1>1. m \in Paper /\ m.state = f /\ m.sheet = r.sheet /\ m.strikes = r.strikes
  BY DEF Paper
<1>2. Entering(r, f) = [m EXCEPT !.age = 0]
  BY DEF Entering
<1> HIDE DEF m
<1> QED  BY <1>1, <1>2 DEF Paper

LEMMA EnteringRow ==
  ASSUME NEW r \in Sound, NEW f \in States
  PROVE  /\ f \in HandedIn \/ r.state \notin HandedIn => Entering(r, f) \in Sound
         /\ Entering(r, f).state = f
         /\ Entering(r, f).sheet = r.sheet
         /\ Entering(r, f).strikes = r.strikes
BY EnteringPaper DEF Sound

LEMMA AnsweredRow ==
  ASSUME NEW r \in Sound, r.state \in Modules, NEW A
  PROVE  /\ Answered(r, A) \in Sound
         /\ Answered(r, A).state = r.state
         /\ Answered(r, A).age = r.age
         /\ Answered(r, A).strikes = r.strikes
         /\ r.sheet \subseteq Answered(r, A).sheet
         /\ Answered(r, A).sheet \subseteq r.sheet \cup Question[r.state]
         /\ A = {} => Answered(r, A).sheet = r.sheet
<1> DEFINE q == r.sheet \cup (A \cap Question[r.state])
<1>1. q \in SUBSET Questions /\ (A = {} => q = r.sheet)
  BY DEF Paper, Sound, Questions
<1>2. r.sheet \subseteq q /\ q \subseteq r.sheet \cup Question[r.state]
  OBVIOUS
<1>3. Answered(r, A) = [r EXCEPT !.sheet = q]
  BY DEF Answered
<1> HIDE DEF q
<1>4. [r EXCEPT !.sheet = q] \in Sound
  BY <1>1 DEF Paper, Sound
<1> QED  BY <1>1, <1>2, <1>3, <1>4 DEF Paper, Sound

LEMMA SubmittedRow ==
  ASSUME NEW r \in Sound, NEW A, Expired(r) => A = {}
  PROVE  Moved(r, Submitted(r, A))
<1>1. CASE r.state \notin Modules
  BY <1>1, Unmoved DEF Submitted
<1>2. CASE r.state \in Modules
  <2> DEFINE a == Answered(r, A)
             f == NextSubmit(r.state)
  <2>1. a \in Sound /\ a.state = r.state /\ a.sheet \subseteq r.sheet \cup Question[r.state]
        /\ r.sheet \subseteq a.sheet /\ (A = {} => a.sheet = r.sheet)
    BY <1>2, AnsweredRow
  <2>2. f \in States /\ Rank[r.state] <= Rank[f] /\ f # "ENGLISH_M1" /\ f # "NOT_STARTED"
    <3>1. r.state \in {"ENGLISH_M1", "ENGLISH_M2", "MATH_M1", "MATH_M2"}
      BY <1>2 DEF Modules
    <3> QED  BY <3>1, Ranks DEF NextSubmit, States, Phases, Modules, HandedIn
  <2>3. Submitted(r, A) = Entering(a, f)
    BY <1>2 DEF Submitted
  <2> HIDE DEF a, f
  <2>4. r.state \notin HandedIn /\ r.state # "ABSENT"
    BY <1>2 DEF Modules, HandedIn
  <2>5. /\ Entering(a, f) \in Sound
        /\ Entering(a, f).state = f
        /\ Entering(a, f).sheet = a.sheet
    BY <2>1, <2>2, <2>4, EnteringRow
  <2> QED  BY <1>2, <2>1, <2>2, <2>3, <2>4, <2>5 DEF Moved, Onward, InTime
<1> QED  BY <1>1, <1>2

LEMMA SavedRow ==
  ASSUME NEW r \in Sound, NEW A, NEW b \in BOOLEAN
  PROVE  Moved(r, Saved(r, A, b))
<1>1. CASE Expired(r) /\ b
  BY <1>1, Unmoved DEF Saved
<1>2. CASE Expired(r) /\ ~b
  <2>1. Saved(r, A, b) = Submitted(r, {})
    BY <1>2 DEF Saved
  <2> QED  BY <2>1, SubmittedRow
<1>3. CASE ~Expired(r)
  <2>1. Saved(r, A, b) = Autosaved(r, A)
    BY <1>3 DEF Saved
  <2>2. CASE r.state \notin Modules
    BY <2>1, <2>2, Unmoved DEF Autosaved
  <2>3. CASE r.state \in Modules
    <3>1. Saved(r, A, b) = Answered(r, A)
      BY <2>1, <2>3 DEF Autosaved
    <3>2. r.state \notin HandedIn /\ Rank[r.state] <= Rank[r.state]
      BY <2>3, Ranks DEF Modules, HandedIn, Paper, Sound
    <3> QED  BY <1>3, <2>3, <3>1, <3>2, AnsweredRow DEF Moved, Onward, InTime
  <2> QED  BY <2>2, <2>3
<1> QED  BY <1>1, <1>2, <1>3

(* The rows that enter a phase and keep their sheet.                       *)
LEMMA EnteredRow ==
  ASSUME NEW r \in Sound, NEW f \in States, f # "ENGLISH_M1", f # "NOT_STARTED",
         Rank[r.state] <= Rank[f], r.state \in HandedIn => f \in HandedIn,
         r.state # "ABSENT"
  PROVE  Moved(r, Entering(r, f))
BY EnteringRow DEF Moved, Onward, InTime

LEMMA DrainedRow ==
  ASSUME NEW r \in Sound
  PROVE  /\ Moved(r, Drained(r))
         /\ Drained(r).state \in HandedIn \cup {"ABSENT", "NOT_STARTED"}
         /\ Drained(r).state = "NOT_STARTED" => r.state = "NOT_STARTED"
<1>1. CASE r.state \notin Phases
  <2>1. Drained(r) = r
    BY <1>1 DEF Drained
  <2>2. r.state \in HandedIn \cup {"ABSENT", "NOT_STARTED"}
    BY <1>1 DEF Paper, Sound, States
  <2> QED  BY <2>1, <2>2, Unmoved
<1>2. CASE r.state \in Phases
  <2>1. Drained(r) = Entering(r, "SCORING")
    BY <1>2 DEF Drained, SubmittedFinal
  <2>2. /\ Rank[r.state] <= Rank["SCORING"]
        /\ r.state \notin HandedIn /\ r.state # "ABSENT"
        /\ "SCORING" \in States /\ "SCORING" \in HandedIn
    BY <1>2, Ranks DEF Phases, Modules, HandedIn, States
  <2>3. Moved(r, Entering(r, "SCORING")) /\ Entering(r, "SCORING").state = "SCORING"
    BY <2>2, EnteredRow, EnteringRow
  <2> QED  BY <2>1, <2>2, <2>3
<1> QED  BY <1>1, <1>2

LEMMA BreakEndedRow ==
  ASSUME NEW r \in Sound
  PROVE  Moved(r, BreakEnded(r))
<1>1. CASE r.state # "BREAK"
  BY <1>1, Unmoved DEF BreakEnded
<1>2. CASE r.state = "BREAK"
  <2>1. Rank[r.state] <= Rank["MATH_M1"] /\ "MATH_M1" \in States /\ r.state \notin HandedIn
    BY <1>2, Ranks DEF States, Phases, Modules, HandedIn
  <2> QED  BY <1>2, <2>1, EnteredRow DEF BreakEnded
<1> QED  BY <1>1, <1>2

LEMMA StruckRow ==
  ASSUME NEW r \in Sound
  PROVE  /\ Moved(r, Struck(r))
         /\ Struck(r) # r => r.state \in Modules
<1>1. CASE r.state \notin Modules
  BY <1>1, Unmoved DEF Struck
<1>2. CASE r.state \in Modules
  <2> DEFINE n == [r EXCEPT !.strikes = @ + 1]
  <2>1. r.state \notin HandedIn /\ r.state # "ABSENT" /\ r.state # "NOT_STARTED"
    BY <1>2 DEF Modules, HandedIn
  <2>2. Rank[r.state] <= Rank["SCORING"] /\ "SCORING" \in States /\ Rank[r.state] <= Rank[r.state]
    BY <1>2, Ranks DEF States, Phases, Modules, HandedIn
  <2>3. /\ n.state = r.state /\ n.age = r.age /\ n.sheet = r.sheet
        /\ n \in Paper
    BY <2>1 DEF Paper, Sound
  <2>4. CASE n.strikes < ViolationLimit
    <3>1. Struck(r) = n
      BY <1>2, <2>4 DEF Struck
    <3>2. n \in Sound
      BY <2>3, <2>4 DEF Sound
    <3> HIDE DEF n
    <3> QED  BY <1>2, <2>1, <2>2, <2>3, <3>1, <3>2 DEF Moved, Onward, InTime
  <2>5. CASE ~(n.strikes < ViolationLimit)
    <3>1. Struck(r) = Entering(n, "SCORING")
      BY <1>2, <2>5 DEF Struck, SubmittedFinal
    <3> HIDE DEF n
    <3>2. /\ Entering(n, "SCORING") \in Sound
          /\ Entering(n, "SCORING").state = "SCORING"
          /\ Entering(n, "SCORING").sheet = n.sheet
      BY <2>2, <2>3, EnteringPaper DEF Sound, HandedIn
    <3> QED  BY <1>2, <2>1, <2>2, <2>3, <3>1, <3>2 DEF Moved, Onward, InTime, HandedIn
  <2> QED  BY <2>4, <2>5
<1> QED  BY <1>1, <1>2

-----------------------------------------------------------------------------
(* All rows, when one of them has moved.                                   *)

StepOK == \A p \in Papers : Onward(papers[p], papers'[p]) /\ InTime(papers[p], papers'[p])

(* What a step must keep of the invariant, the types of the rest aside.    *)
RowsInv == papers \in [Papers -> Paper] /\ PapersSound /\ OneClock /\ EndedRoomIsEmpty /\ SeatsAreBegun

LEMMA SeatPapers == Seats \subseteq Papers
BY DEF Seats, Seat, Papers

LEMMA SoloPapers ==
  ASSUME NEW s \in Students, NEW k \in 1 .. Solos
  PROVE  <<s, k>> \in Papers \ Seats
BY DEF Seats, Seat, Papers

LEMMA SameRows ==
  ASSUME Inv, UNCHANGED papers, room' = room
  PROVE  RowsInv' /\ StepOK
<1>1. \A p \in Papers : Moved(papers[p], papers[p])
  BY Unmoved DEF Inv, PapersSound
<1> QED  BY <1>1 DEF Inv, TypeOK, RowsInv, PapersSound, OneClock, EndedRoomIsEmpty,
                     SeatsAreBegun, StepOK, Moved

LEMMA OneRow ==
  ASSUME Inv, NEW p \in Papers, NEW n, Moved(papers[p], n), Put(p, n), room' = room
  PROVE  /\ RowsInv' /\ StepOK
         /\ \A q \in Papers : papers[q].state \in HandedIn => papers'[q].state \in HandedIn
         /\ papers'[p] = n
<1>1. /\ papers \in [Papers -> Paper]
      /\ papers' = [papers EXCEPT ![p] = n]
  BY DEF Inv, TypeOK, Put
<1>2. \A q \in Papers : papers'[q] = IF q = p THEN n ELSE papers[q]
  BY <1>1
<1>3. \A q \in Papers : Moved(papers[q], papers'[q])
  <2>1. \A q \in Papers : Moved(papers[q], papers[q])
    BY Unmoved DEF Inv, PapersSound
  <2> QED  BY <1>2, <2>1
<1>4. papers' \in [Papers -> Paper] /\ PapersSound'
  BY <1>1, <1>3 DEF PapersSound, Moved, Sound
<1>5. OneClock' /\ SeatsAreBegun'
  BY <1>3, SeatPapers DEF Inv, OneClock, SeatsAreBegun, Moved
<1>6. EndedRoomIsEmpty'
  BY <1>3, SeatPapers DEF Inv, EndedRoomIsEmpty, Moved
<1> QED  BY <1>2, <1>3, <1>4, <1>5, <1>6 DEF RowsInv, StepOK, Moved

LEMMA OneSolo ==
  ASSUME Inv, NEW p \in Papers \ Seats, NEW n \in Sound, Put(p, n), room' = room,
         Onward(papers[p], n), InTime(papers[p], n), papers[p].state \notin HandedIn
  PROVE  /\ RowsInv' /\ StepOK
         /\ \A q \in Papers : papers[q].state \in HandedIn => papers'[q].state \in HandedIn
<1>1. /\ papers \in [Papers -> Paper]
      /\ papers' = [papers EXCEPT ![p] = n]
  BY DEF Inv, TypeOK, Put
<1>2. \A q \in Papers : papers'[q] = IF q = p THEN n ELSE papers[q]
  BY <1>1
<1>3. \A q \in Papers : Moved(papers[q], papers[q])
  BY Unmoved DEF Inv, PapersSound
<1>4. papers' \in [Papers -> Paper] /\ PapersSound'
  BY <1>1, <1>2 DEF Inv, PapersSound, Sound
<1>5. \A q \in Seats : papers'[q] = papers[q]
  BY <1>2, SeatPapers
<1>6. OneClock' /\ SeatsAreBegun' /\ EndedRoomIsEmpty'
  BY <1>5 DEF Inv, OneClock, SeatsAreBegun, EndedRoomIsEmpty
<1> QED  BY <1>2, <1>3, <1>4, <1>6 DEF RowsInv, StepOK, Moved

-----------------------------------------------------------------------------
(* A student's requests.                                                   *)

LEMMA InvParts ==
  /\ TypeOK /\ RowsInv => Inv
  /\ TypeOK' /\ RowsInv' => Inv'
BY DEF Inv, RowsInv

LEMMA CreateStep ==
  ASSUME Inv, NEW s \in Students, Create(s)
  PROVE  Inv' /\ StepOK
<1> DEFINE n == [Blank EXCEPT !.state = "NOT_STARTED"]
<1>1. PICK k \in 1 .. Solos : papers[<<s, k>>] = Blank /\ Put(<<s, k>>, n)
  BY DEF Create
<1>2. n \in Sound /\ n.sheet = Blank.sheet /\ n.state = "NOT_STARTED"
  BY DEF Blank, Sound, Paper, States, HandedIn
<1>3. Blank.state = "ABSENT" /\ "ABSENT" \notin HandedIn
  BY DEF Blank, HandedIn
<1>4. Onward(Blank, n) /\ InTime(Blank, n)
  BY <1>2, <1>3, Ranks DEF Onward, InTime
<1> HIDE DEF n
<1>5. /\ RowsInv' /\ StepOK
      /\ \A q \in Papers : papers[q].state \in HandedIn => papers'[q].state \in HandedIn
  BY <1>1, <1>2, <1>3, <1>4, SoloPapers, OneSolo DEF Create, roomVars
<1>6. TypeOK'
  BY <1>5 DEF Create, Inv, TypeOK, RowsInv, roomVars, queue, policing
<1> QED  BY <1>5, <1>6, InvParts

LEMMA ServeStep ==
  ASSUME Inv, NEW p \in Papers, NEW n, Moved(papers[p], n), Serve(p, n)
  PROVE  Inv' /\ StepOK
<1>1. /\ RowsInv' /\ StepOK
      /\ \A q \in Papers : papers[q].state \in HandedIn => papers'[q].state \in HandedIn
      /\ papers'[p] = n
  BY OneRow DEF Serve, roomVars
<1>2. due' \subseteq {q \in Papers : papers'[q].state \in HandedIn}
  <2>1. n.state = "SCORING" => n.state \in HandedIn
    BY DEF HandedIn
  <2> QED  BY <1>1, <2>1 DEF Serve, Queued, Inv, TypeOK
<1>3. TypeOK'
  BY <1>1, <1>2 DEF Serve, Inv, TypeOK, RowsInv, roomVars, policing
<1> QED  BY <1>1, <1>3, InvParts

LEMMA ReportStep ==
  ASSUME Inv, NEW p \in Papers, NEW k \in 1 .. MaxKeys, Report(p, k)
  PROVE  Inv' /\ StepOK
<1>1. RowsInv' /\ StepOK
  BY SameRows DEF Report, roomVars
<1>2. reports' \subseteq [paper : Seats, key : 1 .. MaxKeys, phase : {"sent", "missed", "computed"}]
  BY DEF Report, Inv, TypeOK
<1>3. absences' \in [Papers -> 0 .. MaxKeys]
  BY DEF Report, Inv, TypeOK
<1>4. doubled' \in BOOLEAN
  BY DEF Report, Inv, TypeOK
<1>5. TypeOK'
  BY <1>2, <1>3, <1>4 DEF Report, Inv, TypeOK, roomVars, queue
<1> QED  BY <1>1, <1>5, InvParts

LEMMA RequestStep ==
  ASSUME Inv, NEW p \in Papers, Request(p)
  PROVE  Inv' /\ StepOK
<1> DEFINE r == papers[p]
<1>1. r \in Sound
  BY DEF Inv, PapersSound
<1>2. CASE Start(p)
  <2> DEFINE n == Started(r, 0)
  <2>1. r.state = "NOT_STARTED" /\ p \in Papers \ Seats /\ Put(p, n)
    BY <1>2 DEF Start, Inv, SeatsAreBegun
  <2>2. n \in Sound /\ n.state = "ENGLISH_M1" /\ n.sheet = r.sheet
    <3> DEFINE m == [r EXCEPT !.state = "ENGLISH_M1"]
    <3>1. m \in Sound /\ m.state = "ENGLISH_M1" /\ m.sheet = r.sheet
      BY <1>1, <2>1 DEF Sound, Paper, States, Phases, Modules, HandedIn
    <3>2. n = [m EXCEPT !.age = 0]
      BY <2>1 DEF Started
    <3> HIDE DEF m
    <3> QED  BY <3>1, <3>2 DEF Sound, Paper
  <2>3. r.state \notin HandedIn /\ Onward(r, n) /\ InTime(r, n)
    BY <2>1, <2>2, Ranks DEF Onward, InTime, HandedIn
  <2> HIDE DEF n
  <2>4. /\ RowsInv' /\ StepOK
        /\ \A q \in Papers : papers[q].state \in HandedIn => papers'[q].state \in HandedIn
    BY <1>2, <2>1, <2>2, <2>3, OneSolo DEF Start, roomVars
  <2>5. TypeOK'
    BY <1>2, <2>4 DEF Start, Inv, TypeOK, RowsInv, roomVars, queue, policing
  <2> QED  BY <2>4, <2>5, InvParts
<1>3. CASE SubmitModule(p)
  <2>1. CASE Serve(p, r)
    BY <1>1, <2>1, Unmoved, ServeStep
  <2>2. CASE \E answers \in SUBSET Questions :
               Serve(p, Submitted(r, IF Expired(r) THEN {} ELSE answers))
    <3>1. PICK answers \in SUBSET Questions :
            Serve(p, Submitted(r, IF Expired(r) THEN {} ELSE answers))
      BY <2>2
    <3>2. Moved(r, Submitted(r, IF Expired(r) THEN {} ELSE answers))
      BY <1>1, SubmittedRow
    <3> QED  BY <3>1, <3>2, ServeStep
  <2> QED  BY <1>3, <2>1, <2>2 DEF SubmitModule
<1>4. CASE SaveAttempt(p)
  BY <1>1, <1>4, SavedRow, ServeStep DEF SaveAttempt
<1>5. CASE EndBreak(p)
  <2>1. /\ RowsInv' /\ StepOK
        /\ \A q \in Papers : papers[q].state \in HandedIn => papers'[q].state \in HandedIn
    BY <1>1, <1>5, BreakEndedRow, OneRow DEF EndBreak, roomVars
  <2>2. TypeOK'
    BY <1>5, <2>1 DEF EndBreak, Inv, TypeOK, RowsInv, roomVars, queue, policing
  <2> QED  BY <2>1, <2>2, InvParts
<1>6. CASE \E k \in 1 .. MaxKeys : Report(p, k)
  BY <1>6, ReportStep
<1> QED  BY <1>2, <1>3, <1>4, <1>5, <1>6 DEF Request

-----------------------------------------------------------------------------
(* Reports, the reaper and the worker.                                     *)

Reports == [paper : Seats, key : 1 .. MaxKeys, phase : {"sent", "missed", "computed"}]

LEMMA ReportingStep ==
  ASSUME Inv, NEW r \in reports, Lookup(r) \/ Charge(r) \/ Store(r) \/ LoseReport(r)
  PROVE  Inv' /\ StepOK
<1>1. r \in Reports /\ reports \subseteq Reports
  BY DEF Inv, TypeOK, Reports
<1>2. \A phase \in {"missed", "computed"} : Advance(r, phase) => reports' \subseteq Reports
  BY <1>1 DEF Advance, Reports
<1>3. CASE Lookup(r)
  <2>1. reports' \subseteq Reports
    BY <1>1, <1>2, <1>3 DEF Lookup
  <2>2. RowsInv' /\ StepOK
    BY <1>3, SameRows DEF Lookup, roomVars
  <2>3. TypeOK'
    BY <1>3, <2>1 DEF Lookup, Reports, Inv, TypeOK, roomVars, queue
  <2> QED  BY <2>2, <2>3, InvParts
<1>4. CASE Charge(r)
  <2> DEFINE p == r.paper
             q == Struck(papers[p])
  <2>1. p \in Papers /\ papers[p] \in Sound
    BY <1>1, SeatPapers DEF Reports, Inv, PapersSound
  <2>2. Moved(papers[p], q)
    BY <2>1, StruckRow
  <2>3. /\ Put(p, q) /\ reports' \subseteq Reports
        /\ due' = IF q # papers[p] /\ q.state = "SCORING" THEN due \cup {p} ELSE due
        /\ UNCHANGED <<roomVars, jobs, losses, absences, stored, doubled>>
    BY <1>2, <1>4 DEF Charge
  <2> HIDE DEF p, q
  <2>4. /\ RowsInv' /\ StepOK
        /\ \A x \in Papers : papers[x].state \in HandedIn => papers'[x].state \in HandedIn
        /\ papers'[p] = q
    BY <2>1, <2>2, <2>3, OneRow DEF roomVars
  <2>5. due' \subseteq {x \in Papers : papers'[x].state \in HandedIn}
    BY <2>1, <2>3, <2>4 DEF Inv, TypeOK, HandedIn
  <2>6. TypeOK'
    BY <2>3, <2>4, <2>5 DEF Reports, RowsInv, Inv, TypeOK, roomVars
  <2> QED  BY <2>4, <2>6, InvParts
<1>5. CASE Store(r)
  <2>1. <<r.paper, r.key>> \in Seats \X (1 .. MaxKeys)
    BY <1>1 DEF Reports
  <2>2. RowsInv' /\ StepOK
    BY <1>5, SameRows DEF Store, roomVars
  <2>3. TypeOK'
    BY <1>5, <2>1 DEF Store, Inv, TypeOK, roomVars, queue
  <2> QED  BY <2>2, <2>3, InvParts
<1>6. CASE LoseReport(r)
  <2>1. RowsInv' /\ StepOK
    BY <1>6, SameRows DEF LoseReport, roomVars
  <2>2. TypeOK'
    BY <1>6 DEF LoseReport, Inv, TypeOK, roomVars, queue
  <2> QED  BY <2>1, <2>2, InvParts
<1> QED  BY <1>3, <1>4, <1>5, <1>6

LEMMA BackgroundStep ==
  ASSUME Inv, NEW p \in Papers, Background(p)
  PROVE  Inv' /\ StepOK
<1>1. papers[p] \in Sound /\ jobs \in [Papers -> 0 .. MaxJobs] /\ losses \in 0 .. MaxLosses
  BY DEF Inv, PapersSound, TypeOK
<1>2. CASE Sweep(p)
  <2> DEFINE n == Drained(papers[p])
  <2>1. Moved(papers[p], n)
    BY <1>1, DrainedRow
  <2>2. /\ Put(p, n) /\ due' = Queued(p, n)
        /\ UNCHANGED <<roomVars, jobs, losses, policing>>
    BY <1>2 DEF Sweep
  <2> HIDE DEF n
  <2>3. /\ RowsInv' /\ StepOK
        /\ \A x \in Papers : papers[x].state \in HandedIn => papers'[x].state \in HandedIn
        /\ papers'[p] = n
    BY <2>1, <2>2, OneRow DEF roomVars
  <2>4. due' \subseteq {x \in Papers : papers'[x].state \in HandedIn}
    BY <2>2, <2>3 DEF Queued, Inv, TypeOK, HandedIn
  <2>5. TypeOK'
    BY <2>2, <2>3, <2>4 DEF RowsInv, Inv, TypeOK, roomVars, policing
  <2> QED  BY <2>3, <2>5, InvParts
<1>3. CASE Enqueue(p)
  <2>1. RowsInv' /\ StepOK
    BY <1>3, SameRows DEF Enqueue, roomVars
  <2>2. jobs' \in [Papers -> 0 .. MaxJobs]
    BY <1>1, <1>3 DEF Enqueue
  <2>3. TypeOK'
    BY <1>3, <2>2 DEF Enqueue, Inv, TypeOK, roomVars, policing
  <2> QED  BY <2>1, <2>3, InvParts
<1>4. CASE EnqueueLost(p)
  <2>1. RowsInv' /\ StepOK
    BY <1>4, SameRows DEF EnqueueLost, roomVars
  <2>2. losses' \in 0 .. MaxLosses
    BY <1>1, <1>4 DEF EnqueueLost
  <2>3. TypeOK'
    BY <1>4, <2>2 DEF EnqueueLost, Inv, TypeOK, roomVars, policing
  <2> QED  BY <2>1, <2>3, InvParts
<1>5. CASE ScoreAttempt(p)
  <2> DEFINE n == IF papers[p].state = "SCORING" THEN Completed(papers[p]) ELSE papers[p]
  <2>1. Moved(papers[p], n)
    <3>1. CASE papers[p].state = "SCORING"
      <4>1. /\ "COMPLETED" \in States /\ "COMPLETED" \in HandedIn
            /\ Rank["SCORING"] <= Rank["COMPLETED"]
        BY Ranks DEF States, HandedIn
      <4>2. Entering(papers[p], "COMPLETED").strikes = papers[p].strikes
        BY <1>1, <4>1, EnteringRow
      <4> QED  BY <1>1, <3>1, <4>1, EnteredRow DEF Completed
    <3>2. CASE papers[p].state # "SCORING"
      BY <1>1, <3>2, Unmoved
    <3> QED  BY <3>1, <3>2
  <2>2. Put(p, n) /\ room' = room
    BY <1>5 DEF ScoreAttempt, roomVars
  <2> HIDE DEF n
  <2>3. /\ RowsInv' /\ StepOK
        /\ \A x \in Papers : papers[x].state \in HandedIn => papers'[x].state \in HandedIn
    BY <2>1, <2>2, OneRow
  <2>4. jobs' \in [Papers -> 0 .. MaxJobs]
    BY <1>1, <1>5 DEF ScoreAttempt
  <2>5. TypeOK'
    BY <1>5, <2>3, <2>4 DEF ScoreAttempt, RowsInv, Inv, TypeOK, roomVars, policing
  <2> QED  BY <2>3, <2>5, InvParts
<1>6. CASE WorkerDies(p)
  <2>1. RowsInv' /\ StepOK
    BY <1>6, SameRows DEF WorkerDies, roomVars
  <2>2. losses' \in 0 .. MaxLosses /\ jobs' \in [Papers -> 0 .. MaxJobs]
    BY <1>1, <1>6 DEF WorkerDies
  <2>3. TypeOK'
    BY <1>6, <2>2 DEF WorkerDies, Inv, TypeOK, roomVars, policing
  <2> QED  BY <2>1, <2>3, InvParts
<1> QED  BY <1>2, <1>3, <1>4, <1>5, <1>6 DEF Background

-----------------------------------------------------------------------------
(* The room, and time.                                                     *)

RoomAge == {NoClock} \cup 0 .. Horizon

LEMMA RoomParts ==
  ASSUME Inv
  PROVE  /\ room \in [status : {"OPEN", "STARTED", "ENDED", "CANCELLED"}, age : RoomAge]
         /\ papers \in [Papers -> Paper]
         /\ \A p \in Papers : papers[p] \in Sound /\ papers[p].age \in 0 .. Horizon
         /\ \A p \in Seats : papers[p].state = "ENGLISH_M1" => room.age # NoClock
<1>1. \A p \in Papers : papers[p].age \in 0 .. Horizon
  BY DEF Inv, TypeOK, Paper
<1>2. \A p \in Seats : papers[p].state = "ENGLISH_M1" => room.age # NoClock
  BY <1>1, SeatPapers DEF Inv, OneClock, NoClock
<1> QED  BY <1>1, <1>2 DEF Inv, TypeOK, PapersSound, RoomAge

LEMMA StartSessionStep ==
  ASSUME Inv, StartSession
  PROVE  Inv' /\ StepOK
<1> DEFINE c == RoomClock(room.age)
           fresh == [Blank EXCEPT !.state = "ENGLISH_M1", !.age = c]
           Opened(p) == p \in Seats /\ places[p[1]] = "APPROVED" /\ papers[p] = Blank
<1>1. c \in 0 .. Horizon /\ room' = [status |-> "STARTED", age |-> c]
      /\ (room.age # NoClock => c = room.age)
  BY RoomParts DEF StartSession, RoomClock, RoomAge
<1>2. /\ fresh \in Sound /\ fresh.state = "ENGLISH_M1" /\ fresh.age = c /\ fresh.sheet = Blank.sheet
      /\ Blank.state = "ABSENT"
  <2> DEFINE m == [Blank EXCEPT !.state = "ENGLISH_M1"]
  <2>1. m \in Sound /\ m.state = "ENGLISH_M1" /\ m.sheet = Blank.sheet /\ Blank.state = "ABSENT"
    BY DEF Blank, Sound, Paper, States, Phases, Modules, HandedIn
  <2>2. fresh = [m EXCEPT !.age = c]
    OBVIOUS
  <2> HIDE DEF m, c, fresh
  <2> QED  BY <1>1, <2>1, <2>2 DEF Sound, Paper
<1>3. \A p \in Papers : papers'[p] = IF Opened(p) THEN fresh ELSE papers[p]
  <2>1. SUFFICES ASSUME NEW p \in Papers, p \in Seats, places[p[1]] = "APPROVED"
                 PROVE  Started(Seated(p[1]), c) = IF papers[p] = Blank THEN fresh ELSE papers[p]
    BY DEF StartSession
  <2>2. Seat(p[1]) = p
    BY <2>1 DEF Seats, Seat
  <2>3. CASE papers[p] = Blank
    <3> DEFINE b == [Blank EXCEPT !.state = "NOT_STARTED"]
    <3>1. Seated(p[1]) = b /\ b.state = "NOT_STARTED"
      BY <2>2, <2>3 DEF Seated, Blank
    <3>2. Started(b, c) = [b EXCEPT !.state = "ENGLISH_M1", !.age = c]
      BY <3>1 DEF Started
    <3>3. [b EXCEPT !.state = "ENGLISH_M1", !.age = c] = fresh
      BY DEF Blank
    <3> HIDE DEF b, fresh
    <3> QED  BY <2>3, <3>1, <3>2, <3>3
  <2>4. CASE papers[p] # Blank
    BY <2>1, <2>2, <2>4 DEF Seated, Started, Inv, SeatsAreBegun
  <2> QED  BY <2>3, <2>4
<1>4. papers' \in [Papers -> Paper]
  BY <1>2, <1>3, RoomParts DEF StartSession, Sound
<1> HIDE DEF c, fresh
<1>5. Onward(Blank, fresh) /\ InTime(Blank, fresh)
  BY <1>2, Ranks DEF Onward, InTime, HandedIn
<1>6. StepOK
  BY <1>3, <1>5, RoomParts, Unmoved DEF StepOK, Moved
<1>7. PapersSound'
  BY <1>2, <1>3, RoomParts DEF PapersSound
<1>8. OneClock'
  BY <1>1, <1>2, <1>3, RoomParts, SeatPapers DEF Inv, OneClock
<1>9. SeatsAreBegun' /\ EndedRoomIsEmpty'
  BY <1>1, <1>2, <1>3, SeatPapers DEF Inv, SeatsAreBegun, EndedRoomIsEmpty
<1>10. TypeOK'
  <2>1. due' \subseteq {p \in Papers : papers'[p].state \in HandedIn}
    BY <1>2, <1>3 DEF StartSession, Inv, TypeOK, queue, HandedIn
  <2>2. room' \in [status : {"OPEN", "STARTED", "ENDED", "CANCELLED"}, age : {NoClock} \cup 0 .. Horizon]
    BY <1>1
  <2> QED  BY <1>4, <2>1, <2>2 DEF StartSession, Inv, TypeOK, queue, policing
<1> QED  BY <1>4, <1>6, <1>7, <1>8, <1>9, <1>10 DEF Inv

LEMMA EndSessionStep ==
  ASSUME Inv, EndSession
  PROVE  Inv' /\ StepOK
<1>1. \A p \in Papers : papers'[p] = IF p \in Seats THEN Drained(papers[p]) ELSE papers[p]
  BY DEF EndSession
<1>2. \A p \in Papers : Moved(papers[p], papers'[p])
  BY <1>1, RoomParts, DrainedRow, Unmoved
<1>3. papers' \in [Papers -> Paper] /\ PapersSound'
  BY <1>1, <1>2 DEF EndSession, PapersSound, Moved, Sound
<1>4. room'.age = room.age
      /\ room' \in [status : {"OPEN", "STARTED", "ENDED", "CANCELLED"}, age : RoomAge]
  BY RoomParts DEF EndSession
<1>5. OneClock' /\ SeatsAreBegun'
  BY <1>2, <1>4, SeatPapers DEF Inv, OneClock, SeatsAreBegun, Moved
<1>6. EndedRoomIsEmpty'
  BY <1>1, RoomParts, SeatPapers, DrainedRow DEF Inv, SeatsAreBegun, EndedRoomIsEmpty
<1>7. StepOK
  BY <1>2 DEF StepOK, Moved
<1>8. TypeOK'
  <2>1. due' \subseteq {p \in Papers : papers'[p].state \in HandedIn}
    BY <1>2, SeatPapers DEF EndSession, Inv, TypeOK, Moved, HandedIn
  <2> QED  BY <1>3, <1>4, <2>1 DEF EndSession, Inv, TypeOK, policing, RoomAge
<1> QED  BY <1>3, <1>5, <1>6, <1>7, <1>8 DEF Inv

LEMMA RoomingStep ==
  ASSUME Inv, Rooming
  PROVE  Inv' /\ StepOK
<1> DEFINE Answers == {"NONE", "PENDING", "APPROVED", "REJECTED"}
<1>1. CASE \E s \in Students : AskForPlace(s) \/ RequestPlace(s) \/ DecidePlace(s)
  <2>1. PICK s \in Students : AskForPlace(s) \/ RequestPlace(s) \/ DecidePlace(s)
    BY <1>1
  <2>2. RowsInv' /\ StepOK
    BY <2>1, SameRows DEF AskForPlace, RequestPlace, DecidePlace
  <2>3. places' \in [Students -> Answers] /\ asking' \subseteq Students
    BY <2>1 DEF AskForPlace, RequestPlace, DecidePlace, Inv, TypeOK
  <2>4. TypeOK'
    BY <2>1, <2>3 DEF AskForPlace, RequestPlace, DecidePlace, Inv, TypeOK, queue, policing
  <2> QED  BY <2>2, <2>4, InvParts
<1>2. CASE PressStart
  <2>1. RowsInv' /\ StepOK
    BY <1>2, SameRows DEF PressStart
  <2>2. TypeOK'
    BY <1>2 DEF PressStart, Inv, TypeOK, queue, policing
  <2> QED  BY <2>1, <2>2, InvParts
<1>3. CASE CancelSession
  <2>1. /\ room'.age = room.age /\ room'.status = "CANCELLED"
        /\ room' \in [status : {"OPEN", "STARTED", "ENDED", "CANCELLED"}, age : RoomAge]
    BY <1>3, RoomParts DEF CancelSession
  <2>2. UNCHANGED <<published, places, asking, starting, papers, queue, policing>>
    BY <1>3 DEF CancelSession
  <2>3. StepOK
    BY <2>2, RoomParts, Unmoved DEF StepOK, Moved
  <2>4. PapersSound' /\ OneClock' /\ SeatsAreBegun' /\ EndedRoomIsEmpty'
    BY <2>1, <2>2 DEF Inv, PapersSound, OneClock, SeatsAreBegun, EndedRoomIsEmpty
  <2>5. TypeOK'
    BY <2>1, <2>2 DEF Inv, TypeOK, RoomAge, queue, policing
  <2> QED  BY <2>3, <2>4, <2>5 DEF Inv
<1> QED  BY <1>1, <1>2, <1>3, StartSessionStep, EndSessionStep DEF Rooming

LEMMA TickStep ==
  ASSUME Inv, Tick
  PROVE  Inv' /\ StepOK
<1> DEFINE Aged(r) == [r EXCEPT !.age = Older(@)]
<1>1. \A a \in 0 .. Horizon : Older(a) \in 0 .. Horizon
  BY DEF Older
<1>2. \A r \in Sound :
        /\ Aged(r) \in Sound /\ Aged(r).state = r.state /\ Aged(r).sheet = r.sheet
        /\ Aged(r).strikes = r.strikes /\ Aged(r).age = Older(r.age)
  BY <1>1 DEF Sound, Paper
<1>3. \A p \in Papers : papers'[p] = IF papers[p].state \in Phases THEN Aged(papers[p]) ELSE papers[p]
  BY DEF Tick
<1> HIDE DEF Aged
<1>4. \A p \in Papers :
        /\ papers'[p] \in Sound /\ papers'[p].state = papers[p].state
        /\ papers'[p].sheet = papers[p].sheet /\ papers'[p].strikes = papers[p].strikes
        /\ papers[p].state \in Phases => papers'[p].age = Older(papers[p].age)
  BY <1>2, <1>3, RoomParts
<1>5. papers' \in [Papers -> Paper] /\ PapersSound'
  BY <1>4 DEF Tick, PapersSound, Sound
<1>6. /\ room' \in [status : {"OPEN", "STARTED", "ENDED", "CANCELLED"}, age : RoomAge]
      /\ room'.status = room.status
      /\ room.age # NoClock => room'.age = Older(room.age)
  BY <1>1, RoomParts DEF Tick, RoomAge
<1>7. OneClock'
  <2>1. "ENGLISH_M1" \in Phases
    BY DEF Phases, Modules
  <2> QED  BY <1>4, <1>6, <2>1, RoomParts, SeatPapers DEF Inv, OneClock
<1>8. SeatsAreBegun' /\ EndedRoomIsEmpty'
  BY <1>4, <1>6, SeatPapers DEF Inv, SeatsAreBegun, EndedRoomIsEmpty
<1>9. StepOK
  <2>1. \A p \in Papers : Moved(papers[p], papers[p])
    BY RoomParts, Unmoved
  <2> QED  BY <1>4, <2>1 DEF StepOK, Onward, InTime, Moved
<1>10. TypeOK'
  <2>1. due' \subseteq {p \in Papers : papers'[p].state \in HandedIn}
    BY <1>4 DEF Tick, Inv, TypeOK, queue
  <2> QED  BY <1>5, <1>6, <2>1 DEF Tick, Inv, TypeOK, queue, policing, RoomAge
<1> QED  BY <1>5, <1>7, <1>8, <1>9, <1>10 DEF Inv

-----------------------------------------------------------------------------
(* The theorems.                                                           *)

LEMMA InvHolds == Init => Inv
<1> SUFFICES ASSUME Init PROVE Inv
  OBVIOUS
<1>1. /\ room \in [status : {"OPEN", "CANCELLED"}, age : {NoClock}]
      /\ published \in BOOLEAN
  BY DEF Init
<1>2. Blank \in Sound /\ Blank.state = "ABSENT"
  BY DEF Blank, Sound, Paper, States
<1>3. papers \in [Papers -> Paper] /\ \A p \in Papers : papers[p] = Blank
  BY <1>2 DEF Init, Sound
<1>4. TypeOK
  <2>1. room \in [status : {"OPEN", "STARTED", "ENDED", "CANCELLED"}, age : {NoClock} \cup 0 .. Horizon]
    BY <1>1
  <2>2. jobs \in [Papers -> 0 .. MaxJobs] /\ absences \in [Papers -> 0 .. MaxKeys]
    BY DEF Init
  <2>3. places \in [Students -> {"NONE", "PENDING", "APPROVED", "REJECTED"}]
    BY DEF Init
  <2>4. losses \in 0 .. MaxLosses
    BY DEF Init
  <2>5. doubled \in BOOLEAN /\ starting \in BOOLEAN
    BY Zenon DEF Init
  <2>6. asking = {} /\ due = {} /\ reports = {} /\ stored = {}
    BY DEF Init
  <2> QED  BY <1>1, <1>3, <2>1, <2>2, <2>3, <2>4, <2>5, <2>6 DEF TypeOK
<1>5. PapersSound /\ OneClock /\ EndedRoomIsEmpty /\ SeatsAreBegun
  BY <1>1, <1>2, <1>3, SeatPapers DEF PapersSound, OneClock, EndedRoomIsEmpty, SeatsAreBegun
<1> QED  BY <1>4, <1>5 DEF Inv

LEMMA NextStep ==
  ASSUME Inv, [Next]_vars
  PROVE  Inv' /\ StepOK
<1>1. CASE Next
  BY <1>1, CreateStep, RequestStep, BackgroundStep, ReportingStep, RoomingStep, TickStep
     DEF Next, Reporting
<1>2. CASE UNCHANGED vars
  <2>1. RowsInv' /\ StepOK
    BY <1>2, SameRows DEF vars, roomVars
  <2>2. TypeOK'
    BY <1>2 DEF Inv, TypeOK, vars, roomVars, queue, policing
  <2> QED  BY <2>1, <2>2, InvParts
<1> QED  BY <1>1, <1>2

LEMMA InvAlways == Spec => []Inv
<1>1. Inv /\ [Next]_vars => Inv'
  BY NextStep
<1> QED  BY <1>1, InvHolds, PTL DEF Spec

(* The rows, the room and the queues keep their types, and nothing is      *)
(* enqueued for scoring before it is handed in.                            *)
THEOREM TypeCorrect == Spec => []TypeOK
<1>1. Inv => TypeOK
  BY DEF Inv
<1> QED  BY <1>1, InvAlways, PTL

(* The papers of a room share its clock (sessions.py start_session).       *)
THEOREM OneClockHolds == Spec => []OneClock
<1>1. Inv => OneClock
  BY DEF Inv
<1> QED  BY <1>1, InvAlways, PTL

(* An ended room holds no running paper (sessions.py end_session).         *)
THEOREM EndedRoomIsEmptyHolds == Spec => []EndedRoomIsEmpty
<1>1. Inv => EndedRoomIsEmpty
  BY DEF Inv
<1> QED  BY <1>1, InvAlways, PTL

(* No phase is entered twice and what is handed in stays (models.py).      *)
THEOREM PapersMoveOnHolds == Spec => PapersMoveOn
<1>1. Inv /\ [Next]_vars =>
        [\A p \in Papers :
           LET r == papers[p]  n == papers'[p]
           IN  /\ Rank[r.state] <= Rank[n.state]
               /\ r.state \in HandedIn => n.sheet = r.sheet /\ n.strikes = r.strikes]_papers
  BY NextStep DEF StepOK, Onward
<1> QED  BY <1>1, InvAlways, PTL DEF Spec, PapersMoveOn

(* Answers arrive in their module and before its deadline (views.py).      *)
THEOREM AnswersInTimeHolds == Spec => AnswersInTime
<1>1. Inv /\ [Next]_vars =>
        [\A p \in Papers :
           papers'[p].sheet # papers[p].sheet =>
             /\ papers[p].state \in Modules
             /\ ~Expired(papers[p])
             /\ papers[p].sheet \subseteq papers'[p].sheet
             /\ papers'[p].sheet \subseteq papers[p].sheet \cup Question[papers[p].state]]_vars
  BY NextStep DEF StepOK, InTime
<1> QED  BY <1>1, InvAlways, PTL DEF Spec, AnswersInTime

-----------------------------------------------------------------------------
(* The chances.  While no report has been doubled, the strikes of a paper  *)
(* are no more than the keys charged to it (Spent): those whose answer is  *)
(* stored or about to be.  A key is charged once because its report is the *)
(* only one on the way, and was looked up before its answer was stored.    *)

Spent(p) ==
  {k \in 1 .. MaxKeys :
     \/ <<p, k>> \in stored
     \/ \E r \in reports : r.paper = p /\ r.key = k /\ r.phase = "computed"}

OneReportPerKey ==
  \A r, t \in reports : r.paper = t.paper /\ r.key = t.key => r = t
ChargedUnstored ==
  \A r \in reports : r.phase # "sent" => <<r.paper, r.key>> \notin stored
SpentCovers ==
  \A p \in Seats : papers[p].strikes <= Cardinality(Spent(p))
KeysWereUsed ==
  /\ \A r \in reports : r.key <= absences[r.paper]
  /\ \A p \in Seats : \A k \in 1 .. MaxKeys : <<p, k>> \in stored => k <= absences[p]

Chances ==
  KeysWereUsed /\ (~doubled => OneReportPerKey /\ ChargedUnstored /\ SpentCovers)

LEMMA SpentFinite ==
  ASSUME NEW p
  PROVE  IsFiniteSet(Spent(p)) /\ Cardinality(Spent(p)) \in Nat
<1>1. IsFiniteSet(1 .. MaxKeys)
  BY FS_Interval
<1>2. Spent(p) \subseteq 1 .. MaxKeys
  BY DEF Spent
<1> QED  BY <1>1, <1>2, FS_Subset, FS_CardinalityType

LEMMA Uncharged ==
  ASSUME NEW r \in Sound
  PROVE  /\ \A A : Submitted(r, A).strikes = r.strikes
         /\ \A A : \A b \in BOOLEAN : Saved(r, A, b).strikes = r.strikes
         /\ BreakEnded(r).strikes = r.strikes
         /\ Drained(r).strikes = r.strikes
         /\ r.state = "SCORING" => Completed(r).strikes = r.strikes
         /\ Started(r, 0).strikes = r.strikes
<1>1. \A f \in States : Entering(r, f).strikes = r.strikes
  BY EnteringRow
<1>2. {"MATH_M1", "SCORING", "COMPLETED"} \subseteq States
  BY DEF States, Phases, Modules, HandedIn
<1>3. \A A : Submitted(r, A).strikes = r.strikes
  <2>1. SUFFICES ASSUME NEW A, r.state \in Modules
                 PROVE  Submitted(r, A).strikes = r.strikes
    BY DEF Submitted
  <2>2. Answered(r, A) \in Sound /\ Answered(r, A).strikes = r.strikes
    BY <2>1, AnsweredRow
  <2>3. NextSubmit(r.state) \in States
    BY <2>1 DEF NextSubmit, States, Phases, Modules, HandedIn
  <2> QED  BY <2>1, <2>2, <2>3, EnteringRow DEF Submitted
<1>4. \A A : \A b \in BOOLEAN : Saved(r, A, b).strikes = r.strikes
  <2>1. SUFFICES ASSUME NEW A, NEW b \in BOOLEAN
                 PROVE  Saved(r, A, b).strikes = r.strikes
    OBVIOUS
  <2>2. Autosaved(r, A).strikes = r.strikes
    BY AnsweredRow DEF Autosaved
  <2> QED  BY <1>3, <2>2 DEF Saved
<1>5. Started(r, 0).strikes = r.strikes
  BY DEF Started, Sound, Paper
<1> QED  BY <1>1, <1>2, <1>3, <1>4, <1>5 DEF BreakEnded, Drained, SubmittedFinal, Completed

(* Every step that reports nothing.                                        *)
LEMMA ChancesKept ==
  ASSUME Chances, UNCHANGED policing,
         \A p \in Seats : papers'[p].strikes = papers[p].strikes
  PROVE  Chances'
<1>1. \A p : Spent(p)' = Spent(p)
  BY DEF Spent, policing
<1> QED  BY <1>1 DEF Chances, KeysWereUsed, OneReportPerKey, ChargedUnstored, SpentCovers, policing

LEMMA StrikesKept ==
  ASSUME Inv, NEW p \in Papers, NEW n, n.strikes = papers[p].strikes, Put(p, n)
  PROVE  \A q \in Seats : papers'[q].strikes = papers[q].strikes
<1>1. \A q \in Papers : papers'[q] = IF q = p THEN n ELSE papers[q]
  BY DEF Put, Inv, TypeOK
<1> QED  BY <1>1, SeatPapers

LEMMA QuietStep ==
  ASSUME Inv, Next,
         ~\E p \in Papers, k \in 1 .. MaxKeys : Report(p, k),
         ~Reporting
  PROVE  /\ UNCHANGED policing
         /\ \A p \in Seats : papers'[p].strikes = papers[p].strikes
<1> USE SeatPapers
<1>1. CASE \E s \in Students : Create(s)
  <2>1. PICK s \in Students, k \in 1 .. Solos :
          /\ papers[<<s, k>>] = Blank
          /\ Put(<<s, k>>, [Blank EXCEPT !.state = "NOT_STARTED"])
          /\ UNCHANGED policing
    BY <1>1 DEF Create
  <2>2. [Blank EXCEPT !.state = "NOT_STARTED"].strikes = Blank.strikes
    BY DEF Blank
  <2> QED  BY <2>1, <2>2, SoloPapers, StrikesKept
<1>2. ASSUME NEW p \in Papers, Request(p) \/ Background(p)
      PROVE  UNCHANGED policing /\ \A q \in Seats : papers'[q].strikes = papers[q].strikes
  <2> DEFINE r == papers[p]
  <2>1. r \in Sound
    BY RoomParts
  <2>2. CASE Start(p)
    BY <2>1, <2>2, Uncharged, StrikesKept DEF Start
  <2>3. CASE SubmitModule(p)
    <3>1. PICK n : Serve(p, n) /\ n.strikes = r.strikes
      BY <2>1, <2>3, Uncharged DEF SubmitModule
    <3> QED  BY <3>1, StrikesKept DEF Serve
  <2>4. CASE SaveAttempt(p)
    <3>1. PICK n : Serve(p, n) /\ n.strikes = r.strikes
      BY <2>1, <2>4, Uncharged DEF SaveAttempt
    <3> QED  BY <3>1, StrikesKept DEF Serve
  <2>5. CASE EndBreak(p)
    BY <2>1, <2>5, Uncharged, StrikesKept DEF EndBreak
  <2>6. CASE Sweep(p)
    BY <2>1, <2>6, Uncharged, StrikesKept DEF Sweep
  <2>7. CASE ScoreAttempt(p)
    BY <2>1, <2>7, Uncharged, StrikesKept DEF ScoreAttempt
  <2>8. CASE Enqueue(p) \/ EnqueueLost(p) \/ WorkerDies(p)
    BY <2>8 DEF Enqueue, EnqueueLost, WorkerDies
  <2> QED  BY <1>2, <2>2, <2>3, <2>4, <2>5, <2>6, <2>7, <2>8 DEF Request, Background
<1>3. CASE Rooming
  <2>1. CASE StartSession
    <3>1. ASSUME NEW p \in Seats
          PROVE  papers'[p].strikes = papers[p].strikes
      <4>1. papers'[p] = IF places[p[1]] = "APPROVED"
                         THEN Started(Seated(p[1]), RoomClock(room.age)) ELSE papers[p]
        BY <2>1 DEF StartSession
      <4>2. Seat(p[1]) = p
        BY DEF Seats, Seat
      <4>3. Seated(p[1]).strikes = papers[p].strikes /\ Seated(p[1]) \in Sound
        BY <4>2, RoomParts DEF Seated, Blank, Sound, Paper, States, HandedIn
      <4>4. \A c : \A x \in Sound : Started(x, c).strikes = x.strikes
        BY DEF Started, Sound, Paper
      <4> QED  BY <4>1, <4>3, <4>4
    <3> QED  BY <2>1, <3>1 DEF StartSession
  <2>2. CASE EndSession
    BY <2>2, RoomParts, Uncharged DEF EndSession
  <2>3. CASE CancelSession \/ PressStart
    BY <2>3 DEF CancelSession, PressStart
  <2>4. CASE \E s \in Students : AskForPlace(s) \/ RequestPlace(s) \/ DecidePlace(s)
    BY <2>4 DEF AskForPlace, RequestPlace, DecidePlace
  <2> QED  BY <1>3, <2>1, <2>2, <2>3, <2>4 DEF Rooming
<1>4. CASE Tick
  <2>1. \A x \in Sound : [x EXCEPT !.age = Older(@)].strikes = x.strikes
    BY DEF Sound, Paper
  <2> QED  BY <1>4, <2>1, RoomParts DEF Tick
<1> QED  BY <1>1, <1>2, <1>3, <1>4 DEF Next

LEMMA ReportChances ==
  ASSUME Inv, Chances, NEW p \in Papers, NEW k \in 1 .. MaxKeys, Report(p, k)
  PROVE  Chances'
<1> DEFINE new == [paper |-> p, key |-> k, phase |-> "sent"]
<1>1. /\ p \in Seats /\ absences[p] \in Nat /\ k <= absences'[p]
      /\ \A q \in Papers : absences[q] \in Nat /\ absences'[q] \in Nat /\ absences[q] <= absences'[q]
  BY DEF Report, Inv, TypeOK
<1>2. /\ reports' = reports \cup {new} /\ papers' = papers /\ stored' = stored
      /\ doubled' = (doubled \/ \E r \in reports : r.paper = p /\ r.key = k)
  BY DEF Report, queue
<1>3. \A q : Spent(q)' = Spent(q)
  BY <1>2 DEF Spent
<1>4. KeysWereUsed'
  <2>1. \A r \in reports : r.paper \in Papers /\ r.key \in Nat
    BY SeatPapers DEF Inv, TypeOK
  <2>2. \A r \in reports : r.key <= absences'[r.paper]
    BY <1>1, <2>1 DEF Chances, KeysWereUsed
  <2>3. \A q \in Seats : \A j \in 1 .. MaxKeys : <<q, j>> \in stored => j <= absences'[q]
    BY <1>1, SeatPapers DEF Chances, KeysWereUsed
  <2> QED  BY <1>1, <1>2, <2>2, <2>3 DEF KeysWereUsed
<1>5. ASSUME ~doubled'
      PROVE  OneReportPerKey' /\ ChargedUnstored' /\ SpentCovers'
  <2>1. ~doubled /\ ~\E r \in reports : r.paper = p /\ r.key = k
    BY <1>2, <1>5
  <2>2. OneReportPerKey /\ ChargedUnstored /\ SpentCovers
    BY <2>1 DEF Chances
  <2> QED  BY <1>2, <1>3, <2>1, <2>2 DEF OneReportPerKey, ChargedUnstored, SpentCovers
<1> QED  BY <1>4, <1>5 DEF Chances

(* What is left of the reports when r goes, or moves on to another phase.  *)
LEMMA Replaced ==
  ASSUME Inv, NEW r \in reports, NEW phase \in {"missed", "computed"},
         reports' = reports \ {r} \/ Advance(r, phase)
  PROVE  \A t \in reports' :
           \/ t \in reports \ {r}
           \/ /\ Advance(r, phase)
              /\ t = [r EXCEPT !.phase = phase]
              /\ t.paper = r.paper /\ t.key = r.key /\ t.phase = phase
<1>1. r \in Reports
  BY DEF Inv, TypeOK, Reports
<1> DEFINE n == [r EXCEPT !.phase = phase]
<1>2. n.paper = r.paper /\ n.key = r.key /\ n.phase = phase
  BY <1>1 DEF Reports
<1> QED  BY <1>2 DEF Advance

LEMMA LookupChances ==
  ASSUME Inv, Chances, NEW r \in reports, Lookup(r)
  PROVE  Chances'
<1>1. /\ UNCHANGED <<papers, absences, stored, doubled>> /\ r.phase = "sent"
      /\ \/ reports' = reports \ {r}
         \/ Advance(r, "missed") /\ <<r.paper, r.key>> \notin stored
  BY DEF Lookup, Known
<1>2. \A t \in reports' :
        \/ t \in reports \ {r}
        \/ /\ <<r.paper, r.key>> \notin stored
           /\ t = [r EXCEPT !.phase = "missed"]
           /\ t.paper = r.paper /\ t.key = r.key /\ t.phase = "missed"
  BY <1>1, Replaced
<1>3. \A p : Spent(p)' = Spent(p)
  <2>1. \A t \in reports : t.phase = "computed" => t \in reports'
    BY <1>1 DEF Advance
  <2>2. \A t \in reports' : t.phase = "computed" => t \in reports
    BY <1>2
  <2> QED  BY <1>1, <2>1, <2>2 DEF Spent
<1>4. KeysWereUsed'
  BY <1>1, <1>2 DEF Chances, KeysWereUsed
<1>5. ASSUME ~doubled'
      PROVE  OneReportPerKey' /\ ChargedUnstored' /\ SpentCovers'
  <2>1. OneReportPerKey /\ ChargedUnstored /\ SpentCovers
    BY <1>1, <1>5 DEF Chances
  <2>2. OneReportPerKey'
    BY <1>2, <2>1 DEF OneReportPerKey
  <2>3. ChargedUnstored'
    BY <1>1, <1>2, <2>1 DEF ChargedUnstored
  <2>4. SpentCovers'
    BY <1>1, <1>3, <2>1 DEF SpentCovers
  <2> QED  BY <2>2, <2>3, <2>4
<1> QED  BY <1>4, <1>5 DEF Chances

LEMMA ChargeChances ==
  ASSUME Inv, Chances, NEW r \in reports, Charge(r)
  PROVE  Chances'
<1> DEFINE p == r.paper
           q == Struck(papers[p])
<1>1. /\ UNCHANGED <<absences, stored, doubled>> /\ r.phase = "missed"
      /\ Advance(r, "computed") /\ Put(p, q)
  BY DEF Charge
<1>2. r \in Reports /\ p \in Seats /\ r.key \in 1 .. MaxKeys
  BY DEF Inv, TypeOK, Reports
<1>3. \A t \in reports' :
        \/ t \in reports \ {r}
        \/ /\ t = [r EXCEPT !.phase = "computed"]
           /\ t.paper = r.paper /\ t.key = r.key /\ t.phase = "computed"
  BY <1>1, Replaced
<1>4. KeysWereUsed'
  BY <1>1, <1>3 DEF Chances, KeysWereUsed
<1>5. ASSUME ~doubled'
      PROVE  OneReportPerKey' /\ ChargedUnstored' /\ SpentCovers'
  <2>1. OneReportPerKey /\ ChargedUnstored /\ SpentCovers
    BY <1>1, <1>5 DEF Chances
  <2>2. OneReportPerKey' /\ ChargedUnstored'
    BY <1>1, <1>3, <2>1 DEF OneReportPerKey, ChargedUnstored
  <2>3. r.key \notin Spent(p)
    BY <1>1, <2>1 DEF Spent, OneReportPerKey, ChargedUnstored
  <2>4. Spent(p)' = Spent(p) \cup {r.key}
    <3>1. \E t \in reports' : t.paper = p /\ t.key = r.key /\ t.phase = "computed"
      <4>1. [r EXCEPT !.phase = "computed"].paper = p /\ [r EXCEPT !.phase = "computed"].key = r.key
            /\ [r EXCEPT !.phase = "computed"].phase = "computed"
        BY <1>2 DEF Reports
      <4> QED  BY <1>1, <4>1 DEF Advance
    <3>2. \A t \in reports : t.phase = "computed" => t \in reports'
      BY <1>1 DEF Advance
    <3> QED  BY <1>1, <1>2, <1>3, <3>1, <3>2 DEF Spent
  <2>5. \A x \in Seats : x # p => Spent(x)' = Spent(x)
    <3>1. \A t \in reports : t.paper # p => t \in reports'
      BY <1>1 DEF Advance
    <3> QED  BY <1>1, <1>3, <3>1 DEF Spent
  <2>6. Cardinality(Spent(p)') = Cardinality(Spent(p)) + 1
    BY <2>3, <2>4, SpentFinite, FS_AddElement
  <2>7. papers[p] \in Sound /\ papers[p].strikes \in Nat
    BY <1>2, RoomParts, SeatPapers DEF Sound, Paper
  <2>8. q.strikes <= papers[p].strikes + 1
    <3> DEFINE n == [papers[p] EXCEPT !.strikes = @ + 1]
    <3>1. n.strikes = papers[p].strikes + 1
      BY <2>7 DEF Sound, Paper
    <3>2. Entering(n, "SCORING").strikes = n.strikes
      BY <2>7 DEF Entering, Sound, Paper
    <3> QED  BY <2>7, <3>1, <3>2 DEF Struck, SubmittedFinal
  <2>9. \A x \in Seats : papers'[x] = IF x = p THEN q ELSE papers[x]
    BY <1>1, SeatPapers DEF Put, Inv, TypeOK
  <2>10. q.strikes \in Nat /\ Cardinality(Spent(p)) \in Nat
    BY <2>7, StruckRow, SpentFinite DEF Moved, Sound, Paper
  <2>11. ASSUME NEW x \in Seats
         PROVE  papers'[x].strikes <= Cardinality(Spent(x)')
    <3>1. CASE x = p
      <4>1. papers[p].strikes <= Cardinality(Spent(p))
        BY <1>2, <2>1 DEF SpentCovers
      <4> HIDE DEF p, q
      <4> QED  BY <3>1, <4>1, <2>6, <2>7, <2>8, <2>9, <2>10
    <3>2. CASE x # p
      BY <2>1, <2>5, <2>9, <3>2 DEF SpentCovers
    <3> QED  BY <3>1, <3>2
  <2> QED  BY <2>2, <2>11 DEF SpentCovers
<1> QED  BY <1>4, <1>5 DEF Chances

LEMMA StoreChances ==
  ASSUME Inv, Chances, NEW r \in reports, Store(r)
  PROVE  Chances'
<1>1. /\ UNCHANGED <<papers, absences, doubled>> /\ r.phase = "computed"
      /\ stored' = stored \cup {<<r.paper, r.key>>} /\ reports' = reports \ {r}
  BY DEF Store
<1>2. r.paper \in Seats /\ r.key \in 1 .. MaxKeys
  BY DEF Inv, TypeOK
<1>3. \A p : Spent(p)' = Spent(p)
  BY <1>1, <1>2 DEF Spent
<1>4. KeysWereUsed'
  BY <1>1 DEF Chances, KeysWereUsed
<1>5. ASSUME ~doubled'
      PROVE  OneReportPerKey' /\ ChargedUnstored' /\ SpentCovers'
  <2>1. OneReportPerKey /\ ChargedUnstored /\ SpentCovers
    BY <1>1, <1>5 DEF Chances
  <2> QED  BY <1>1, <1>3, <2>1 DEF OneReportPerKey, ChargedUnstored, SpentCovers
<1> QED  BY <1>4, <1>5 DEF Chances

LEMMA LoseChances ==
  ASSUME Inv, Chances, NEW r \in reports, LoseReport(r)
  PROVE  Chances'
<1>1. /\ UNCHANGED <<papers, absences, stored>> /\ reports' = reports \ {r}
      /\ doubled' = (doubled \/ r.phase = "computed")
  BY DEF LoseReport
<1>2. KeysWereUsed'
  BY <1>1 DEF Chances, KeysWereUsed
<1>3. ASSUME ~doubled'
      PROVE  OneReportPerKey' /\ ChargedUnstored' /\ SpentCovers'
  <2>1. ~doubled /\ r.phase # "computed"
    BY <1>1, <1>3
  <2>2. OneReportPerKey /\ ChargedUnstored /\ SpentCovers
    BY <2>1 DEF Chances
  <2>3. \A p : Spent(p)' = Spent(p)
    BY <1>1, <2>1 DEF Spent
  <2> QED  BY <1>1, <2>2, <2>3 DEF OneReportPerKey, ChargedUnstored, SpentCovers
<1> QED  BY <1>2, <1>3 DEF Chances

LEMMA ChancesStep ==
  ASSUME Inv, Chances, [Next]_vars
  PROVE  Chances'
<1>1. CASE \E p \in Papers, k \in 1 .. MaxKeys : Report(p, k)
  BY <1>1, ReportChances
<1>2. CASE Reporting
  BY <1>2, LookupChances, ChargeChances, StoreChances, LoseChances DEF Reporting
<1>3. CASE UNCHANGED vars
  BY <1>3, ChancesKept DEF vars
<1>4. CASE Next /\ ~Reporting /\ ~\E p \in Papers, k \in 1 .. MaxKeys : Report(p, k)
  BY <1>4, QuietStep, ChancesKept
<1> QED  BY <1>1, <1>2, <1>3, <1>4

(* A retried report is charged once, but for what `doubled' tells          *)
(* (views.py offscreen, idempotency.py).                                   *)
THEOREM ChargedOnceHolds == Spec => []ChargedOnce
<1>1. Init => Chances
  <2>1. ASSUME Init
        PROVE  SpentCovers
    <3>1. \A p \in Seats : papers[p].strikes = 0
      BY <2>1, SeatPapers DEF Init, Blank
    <3>2. \A p \in Seats : Cardinality(Spent(p)) \in Nat
      BY SpentFinite
    <3> QED  BY <3>1, <3>2 DEF SpentCovers
  <2> QED  BY <2>1 DEF Init, Chances, KeysWereUsed, OneReportPerKey, ChargedUnstored
<1>2. Inv /\ Chances => ChargedOnce
  <2> SUFFICES ASSUME Inv, Chances, ~doubled, NEW p \in Seats
               PROVE  papers[p].strikes <= absences[p]
    BY DEF ChargedOnce
  <2>1. absences[p] \in Nat /\ papers[p].strikes \in Nat
    BY SeatPapers DEF Inv, TypeOK, Paper
  <2>2. Spent(p) \subseteq 1 .. absences[p]
    BY <2>1 DEF Chances, KeysWereUsed, Spent
  <2>3. \A m \in Nat : IsFiniteSet(1 .. m) /\ Cardinality(1 .. m) <= m
    <3> SUFFICES ASSUME NEW m \in Nat
                 PROVE  IsFiniteSet(1 .. m) /\ Cardinality(1 .. m) <= m
      OBVIOUS
    <3>1. Cardinality(1 .. m) = IF 1 > m THEN 0 ELSE m - 1 + 1
      BY FS_Interval
    <3> QED  BY <3>1, FS_Interval
  <2>4. Cardinality(Spent(p)) <= absences[p]
    <3>1. Cardinality(Spent(p)) <= Cardinality(1 .. absences[p])
      BY <2>1, <2>2, <2>3, FS_Subset
    <3>2. \A n \in Nat : Cardinality(1 .. n) \in Nat
      BY <2>3, FS_CardinalityType
    <3> QED  BY <2>1, <2>3, <3>1, <3>2, SpentFinite
  <2> QED  BY <2>1, <2>4, SpentFinite DEF Chances, SpentCovers
<1>3. Inv /\ Chances /\ [Next]_vars => Chances'
  BY ChancesStep
<1> QED  BY <1>1, <1>2, <1>3, InvAlways, PTL DEF Spec
=============================================================================
