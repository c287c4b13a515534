---------------------------- MODULE ExamWebProofs ----------------------------
(***************************************************************************)
(* Proofs about ExamWeb, for every paper, number of tabs, conditions and   *)
(* bound.  First the row: what a save, a submit and the grading make of it.*)
(* Then what of it is in circulation: the versions that tabs, requests and *)
(* answers hold, with the module each belongs to, are ordered as the row   *)
(* went through them.  From that: whose answers are on which sheet, and    *)
(* what became of a hand-in.                                               *)
(***************************************************************************)
EXTENDS ExamWeb, ExamServerProofs

(* The row the tabs show: never without its pointer, never unrepaired.     *)
RowFine(r) ==
  /\ RowOK(r)
  /\ AuditClean(r)
  /\ r.state \in Running \cup Finished
  /\ r.startedAt[1] # NoTime
  /\ r.state = "MODULE_1_ACTIVE" => r.startedAt[2] = NoTime

(* A sitting goes from Module 1 to Module 2 to no module.                  *)
Rank(module) == IF module = NoModule THEN 3 ELSE module

Beyond(r, k) == Rank(r.module) > k

-----------------------------------------------------------------------------
(* Types.                                                                  *)

Places == Modules \cup {NoModule}
Snapshots == [version : Nat \cup {NoVersion}, module : Places, sheet : SUBSET AllQuestions]
Keys == {"save", "submit"} \X Modules \X Nat \X Nat
Payloads == [module : Modules, answers : SUBSET AllQuestions]
HandIns == [module : Modules, version : Nat, try : Nat, answers : SUBSET AllQuestions]

Screens ==
  [version : Nat, module : Places, hydrated : Modules, draft : SUBSET AllQuestions,
   accepted : SUBSET Payloads, saving : BOOLEAN, submit : SUBSET HandIns,
   done : SUBSET Payloads]

InTransit ==
  [tab : Tabs, kind : {"save", "flush", "submit"}, key : Keys \cup {NoKey},
   expected : Nat \cup {NoVersion}, target : Modules, answers : SUBSET AllQuestions,
   phase : {"sent", "missed", "computed", "answered"}, heard : BOOLEAN, status : Nat,
   snapshot : Snapshots]

Answers == [key : Keys, status : Nat, snapshot : Snapshots]

Names(key, kind, module) == key[1] = kind /\ key[2] = module

RequestOK(q) ==
  /\ q \in InTransit
  /\ q.kind = "flush" => /\ q.key = NoKey /\ q.expected = NoVersion
                        /\ q.phase \in {"sent", "missed"}
  /\ q.kind # "flush" => q.key \in Keys /\ Names(q.key, q.kind, q.target) /\ q.expected \in Nat
  /\ q.phase = "answered" => q.snapshot.version \in Nat

AnswerOK(k) == k \in Answers /\ k.snapshot.version \in Nat

-----------------------------------------------------------------------------
(* What is in circulation.                                                 *)

View(version, module) == [version |-> version, module |-> module]

(* V: the versions the row went through, with the module it was in; r is   *)
(* the row as it is.                                                       *)
Latest(V, r) ==
  /\ View(r.version, r.module) \in V
  /\ \A v, w \in V : v.version <= w.version => Rank(v.module) <= Rank(w.module)
  /\ \A v \in V : v.version <= r.version
  /\ \A v \in V : v.version \in Nat /\ v.module \in Places

ScreenFine(x, V) ==
  /\ x \in Screens
  /\ View(x.version, x.module) \in V
  /\ \A p \in x.submit : View(p.version, p.module) \in V

(* A submit that was answered left the module it names.                    *)
RequestFine(q, V, r) ==
  /\ RequestOK(q)
  /\ q.kind # "flush" => View(q.expected, q.target) \in V
  /\ q.kind = "submit" /\ q.phase = "computed" => Beyond(r, q.target)
  /\ q.phase = "answered" => /\ View(q.snapshot.version, q.snapshot.module) \in V
                             /\ q.kind = "submit" => Beyond(q.snapshot, q.target)

AnswerFine(k, V) ==
  /\ AnswerOK(k)
  /\ View(k.snapshot.version, k.snapshot.module) \in V
  /\ \A m \in Modules : Names(k.key, "submit", m) => Beyond(k.snapshot, m)

(* What tabs, requests and stored answers hold are versions the row had.   *)
Circulates(V) ==
  /\ Latest(V, rows[The])
  /\ \A t \in Tabs : ScreenFine(tab[t], V)
  /\ \A q \in net : RequestFine(q, V, rows[The])
  /\ \A k \in stored : AnswerFine(k, V)

WebInv ==
  /\ RowFine(rows[The])
  /\ under \in Conditions /\ now \in Nat
  /\ rows \in [Attempts -> Row] /\ tab \in [Tabs -> Screens]
  /\ \E V : Circulates(V)

(* Answers stay with the questions of their module.                        *)
Own(k, answers) == k # NoModule => answers \subseteq Question[k]

OwnRow(r) == \A k \in Modules : Own(k, r.sheet[k])

OwnScreen(x) ==
  Own(x.hydrated, x.draft) /\ \A p \in x.submit : Own(p.module, p.answers)

OwnRequest(q) ==
  /\ q.kind # "flush"
  /\ Own(q.target, q.answers)
  /\ q.phase = "answered" => Own(q.snapshot.module, q.snapshot.sheet)

OwnAnswers ==
  ~under.rough =>
    /\ OwnRow(rows[The])
    /\ \A t \in Tabs : OwnScreen(tab[t])
    /\ \A q \in net : OwnRequest(q)
    /\ \A k \in stored : Own(k.snapshot.module, k.snapshot.sheet)

(* What becomes of the hand-ins of tab t, when it is alone on the paper.   *)
Alone == \A t, u \in under.screens : t = u

Pending(t, m) == \E p \in tab[t].submit : p.module = m
Awaits(t, q) == q.tab = t /\ q.kind = "submit" /\ q.heard
Tells(q, p) == p.module = q.target /\ p.answers = q.answers /\ p.version = q.expected

OnePending(t) ==
  /\ \A p, o \in tab[t].submit : p = o
  /\ \A q, r \in net : Awaits(t, q) /\ Awaits(t, r) => q = r
  /\ \A q \in net : Awaits(t, q) => \E p \in tab[t].submit : Tells(q, p)

(* The row left p's module with p's answers on its sheet.                  *)
Arrived(r, p) == Beyond(r, p.module) /\ p.answers \subseteq r.sheet[p.module]

(* With nothing pending, the tab shows the module the row is in.           *)
Following(x, r) == x.submit = {} /\ x.module # NoModule => r.module = x.module

Accounted(x, r) ==
  /\ \A p \in x.submit : r.module = p.module \/ Arrived(r, p)
  /\ \A p \in x.done : Arrived(r, p)
  /\ Following(x, r)

(* While a hand-in is pending, its answers tell of the row as it is.       *)
Fresh(t) ==
  \A m \in Modules : Pending(t, m) =>
    /\ \A q \in net : Awaits(t, q) /\ q.target = m /\ q.phase = "answered" =>
         q.snapshot.module = rows[The].module
    /\ \A k \in stored : Names(k.key, "submit", m) => k.snapshot.module = rows[The].module

Expected(q) == q.heard \/ q.phase = "computed"

CalmFor(t) ==
  /\ \A q \in net : q.tab = t /\ Expected(q)
  /\ OnePending(t) /\ Accounted(tab[t], rows[The]) /\ Fresh(t)
  /\ \A u \in Tabs \ {t} : tab[u].done = {}

Calm ==
  ~under.rough /\ Alone =>
    /\ \A t \in under.screens : CalmFor(t)
    /\ under.screens = {} => net = {} /\ \A t \in Tabs : tab[t].done = {}

-----------------------------------------------------------------------------
(* The row.                                                                *)

LEMMA FineRow ==
  ASSUME NEW r, RowFine(r)
  PROVE  /\ r \in Row /\ r.version \in Nat /\ r.module \in Places
         /\ r.module = 1 <=> r.state = "MODULE_1_ACTIVE"
         /\ r.module = 2 <=> r.state = "MODULE_2_ACTIVE"
         /\ r.module = NoModule <=> r.state \in Finished
         /\ MaySubmit(r) <=> r.module # NoModule
         /\ \A n : Autoheal(r, n) = r
         /\ \A k \in Modules : Over(r, k) <=> Beyond(r, k)
         /\ \A k \in Modules : r.sheet[k] \subseteq AllQuestions
<1>1. r \in Row /\ r.version \in Nat /\ r.module \in Places
  BY RowFields DEF RowFine, RowOK, Places
<1>2. r.state = "MODULE_2_ACTIVE" => r.startedAt[2] # NoTime
  BY DEF RowFine, RowOK, Sound, Placed
<1>3. /\ r.module = 1 <=> r.state = "MODULE_1_ACTIVE"
      /\ r.module = 2 <=> r.state = "MODULE_2_ACTIVE"
      /\ r.module = NoModule <=> r.state \in Finished
  BY <1>1 DEF RowFine, AuditClean, Running, Finished, ModuleOf, Places, Modules, NoModule
<1>4. MaySubmit(r) <=> r.module # NoModule
  BY <1>1, <1>3 DEF MaySubmit, ActiveIn, Places, Modules, NoModule
<1>5. \A n : Autoheal(r, n) = r
  BY DEF Autoheal, RowFine
<1>6. \A k \in Modules : Over(r, k) <=> Beyond(r, k)
  BY <1>1, <1>2, <1>3
     DEF Over, Beyond, Rank, Modules, NoModule, Places, RowFine, Finished, Running
<1>7. \A k \in Modules : r.sheet[k] \subseteq AllQuestions
  BY RowFields, <1>1 DEF Sheets
<1> QED  BY <1>1, <1>3, <1>4, <1>5, <1>6, <1>7

(* What a step may make of the row: a new module shows in the version, and *)
(* a module that is not being sat keeps its sheet.                         *)
Onward(r, s) ==
  /\ RowFine(s)
  /\ s.version >= r.version
  /\ Rank(s.module) >= Rank(r.module)
  /\ s.version = r.version => s.module = r.module
  /\ \A k \in Modules : k # r.module => s.sheet[k] = r.sheet[k]

Stays(r, s) == Onward(r, s) /\ s.module = r.module

Handed(r, s, answers) ==
  /\ Onward(r, s)
  /\ Beyond(s, r.module)
  /\ s.sheet[r.module] = r.sheet[r.module] \cup answers

LEMMA RankRange ==
  ASSUME NEW m \in Places
  PROVE  /\ Rank(m) \in {1, 2, 3}
         /\ \A n \in Places : Rank(m) = Rank(n) => m = n
         /\ m # NoModule => Rank(m) = m /\ m \in Modules
  BY DEF Rank, Places, Modules, NoModule

LEMMA SubmitModule1Fields ==
  ASSUME NEW r \in Row, NEW answers \in SUBSET AllQuestions, NEW n \in Nat
  PROVE  LET s == SubmitModule1(r, answers, n)
         IN  /\ s.version = r.version + 1
             /\ s.startedAt[1] = r.startedAt[1]
             /\ s.startedAt[2] # NoTime
             /\ s.completed = r.completed
             /\ s.sheet = [r.sheet EXCEPT ![1] = answers]
             /\ \/ s.state = "SCORING" /\ s.module = NoModule
                \/ s.state = "MODULE_2_ACTIVE" /\ s.module = 2
<1> DEFINE written == [r EXCEPT !.sheet[1] = answers, !.pauseAt = NoTime]
           saved   == Bumped(written)
           moved   == SetActiveModule(saved, 2, n)
           single  == [saved EXCEPT !.state = "SCORING", !.module = NoModule, !.startedAt[2] = n]
           onward  == [moved EXCEPT !.state = "MODULE_2_ACTIVE",
                                    !.paused[1] = @ + InFlightPause(r, n)]
<1>1. /\ written \in Row /\ written.version = r.version /\ written.startedAt = r.startedAt
      /\ written.completed = r.completed /\ written.sheet = [r.sheet EXCEPT ![1] = answers]
  BY DEF Row, Sheets, Modules, NoTime
<1>2. SubmitModule1(r, answers, n) = IF SingleModule THEN single ELSE onward
  BY DEF SubmitModule1
<1> HIDE DEF written
<1>3. /\ saved \in Row /\ saved.version = r.version + 1 /\ saved.startedAt = r.startedAt
      /\ saved.completed = r.completed /\ saved.sheet = [r.sheet EXCEPT ![1] = answers]
  <2>1. saved \in Row /\ saved = [written EXCEPT !.version = written.version + 1]
    BY <1>1, BumpedRow
  <2>2. saved.version = written.version + 1
    BY <1>1, <2>1 DEF Row
  <2>3. /\ saved.startedAt = written.startedAt /\ saved.completed = written.completed
        /\ saved.sheet = written.sheet
    BY <1>1, BumpedFields
  <2> QED  BY <1>1, <2>1, <2>2, <2>3
<1> HIDE DEF saved
<1>4. n # NoTime
  BY DEF NoTime
<1>5. /\ moved \in Row /\ moved.module = 2 /\ moved.completed = saved.completed
      /\ moved.version = saved.version /\ moved.sheet = saved.sheet /\ moved.startedAt[2] # NoTime
  BY <1>3, SetActiveModuleRow DEF Modules
<1>6. moved.startedAt[1] = saved.startedAt[1]
  <2>1. saved.startedAt \in [Modules -> Nat \cup {NoTime}]
    BY <1>3, RowFields
  <2>2. moved.startedAt = [saved.startedAt EXCEPT ![2] = Anchor(saved, 2, n)]
    BY <1>3 DEF SetActiveModule, Row
  <2> QED  BY <2>1, <2>2 DEF Modules
<1> HIDE DEF moved
<1>7. CASE SingleModule
  <2>1. /\ single.version = saved.version /\ single.completed = saved.completed
        /\ single.sheet = saved.sheet /\ single.state = "SCORING" /\ single.module = NoModule
        /\ single.startedAt = [saved.startedAt EXCEPT ![2] = n]
    BY <1>3 DEF Row
  <2>2. single.startedAt[1] = saved.startedAt[1] /\ single.startedAt[2] = n
    <3>1. saved.startedAt \in [Modules -> Nat \cup {NoTime}]
      BY <1>3, RowFields
    <3> QED  BY <3>1, <2>1 DEF Modules
  <2> HIDE DEF single
  <2> QED  BY <1>2, <1>3, <1>4, <1>7, <2>1, <2>2
<1>8. CASE ~SingleModule
  <2>1. /\ onward.version = moved.version /\ onward.completed = moved.completed
        /\ onward.sheet = moved.sheet /\ onward.state = "MODULE_2_ACTIVE" /\ onward.module = 2
        /\ onward.startedAt = moved.startedAt
    BY <1>5 DEF Row
  <2> HIDE DEF onward
  <2> QED  BY <1>2, <1>3, <1>5, <1>6, <1>8, <2>1
<1> QED  BY <1>7, <1>8

LEMMA SubmitModule2Fields ==
  ASSUME NEW r \in Row, NEW answers \in SUBSET AllQuestions
  PROVE  LET s == SubmitModule2(r, answers)
         IN  /\ s.version = r.version + 1
             /\ s.startedAt = r.startedAt
             /\ s.completed = r.completed
             /\ s.sheet = [r.sheet EXCEPT ![2] = answers]
             /\ s.state = "SCORING" /\ s.module = NoModule
  BY DEF SubmitModule2, Bumped, Row, Sheets, Modules

LEMMA HandInFine ==
  ASSUME NEW r, RowFine(r), r.module # NoModule, NEW body \in SUBSET AllQuestions, NEW n \in Nat
  PROVE  Handed(r, HandIn(r, r.sheet[r.module] \cup body, n), body)
<1> DEFINE answers == r.sheet[r.module] \cup body
           s == HandIn(r, answers, n)
<1>1. r.module \in Modules /\ r \in Row /\ r.version \in Nat
  BY FineRow DEF Places
<1>2. answers \in SUBSET AllQuestions
  BY <1>1, FineRow
<1> HIDE DEF answers
<1>3. RowOK(s)
  BY <1>2, FineRow, HandInKeeps DEF RowFine, Keeps
<1>4. /\ s.version = r.version + 1
      /\ s.startedAt[1] = r.startedAt[1]
      /\ s.completed = r.completed
      /\ s.sheet = [r.sheet EXCEPT ![r.module] = answers]
      /\ \/ s.state = "SCORING" /\ s.module = NoModule
         \/ s.state = "MODULE_2_ACTIVE" /\ s.module = 2 /\ r.module = 1
  BY <1>1, <1>2, SubmitModule1Fields, SubmitModule2Fields DEF HandIn, Modules
<1> HIDE DEF s
<1>5. ~r.completed
  BY FineRow, <1>1 DEF RowFine, AuditClean, Finished, NoModule, Modules
<1>6. RowFine(s)
  BY <1>3, <1>4, <1>5
     DEF RowFine, AuditClean, Running, Finished, ModuleOf, NoModule
<1>7. Beyond(s, r.module) /\ Rank(s.module) >= Rank(r.module)
  BY <1>1, <1>4 DEF Beyond, Rank, Modules, NoModule
<1>8. \A k \in Modules : s.sheet[k] = IF k = r.module THEN answers ELSE r.sheet[k]
  BY <1>1, <1>4 DEF Row, Sheets
<1>9. Handed(r, s, body)
  BY <1>1, <1>4, <1>6, <1>7, <1>8 DEF Handed, Onward, answers
<1> QED  BY <1>9 DEF s, answers

LEMMA StaysSame == ASSUME NEW r, RowFine(r) PROVE Stays(r, r)
  BY FineRow, RankRange DEF Stays, Onward

LEMMA WrittenFine ==
  ASSUME NEW r, RowFine(r), r.module # NoModule, NEW body \in SUBSET AllQuestions
  PROVE  LET s == Bumped([r EXCEPT !.sheet[r.module] = body])
         IN  Stays(r, s) /\ s.sheet[r.module] = body
<1> DEFINE s == Bumped([r EXCEPT !.sheet[r.module] = body])
<1>1. r.module \in Modules /\ r \in Row /\ r.version \in Nat
  BY FineRow DEF Places
<1>2. ~r.completed
  BY FineRow DEF RowFine, AuditClean, Finished
<1>3. RowOK(s)
  BY <1>1, <1>2, SheetBumpedKeeps DEF RowFine, Keeps
<1>4. /\ s.version = r.version + 1 /\ s.state = r.state /\ s.module = r.module
      /\ s.completed = r.completed /\ s.startedAt = r.startedAt
      /\ s.sheet = [r.sheet EXCEPT ![r.module] = body]
  BY <1>1 DEF Bumped, Row
<1> HIDE DEF s
<1>5. RowFine(s)
  BY <1>3, <1>4 DEF RowFine, AuditClean
<1>6. \A k \in Modules : s.sheet[k] = IF k = r.module THEN body ELSE r.sheet[k]
  BY <1>1, <1>4 DEF Row, Sheets
<1> QED  BY <1>1, <1>4, <1>5, <1>6, RankRange, FineRow DEF Stays, Onward, s

(* A save writes the sheet of the module it is for, unless it is stale or  *)
(* the time is up; then it hands in.                                       *)
LEMMA SaveFine ==
  ASSUME NEW r, RowFine(r), now \in Nat, NEW expected, NEW body \in SUBSET AllQuestions
  PROVE  LET s == SaveAttempt(r, expected, body).row
         IN  \/ s = r
             \/ /\ r.module # NoModule /\ ~Stale(r, expected) /\ ~Expired(r, now)
                /\ Stays(r, s) /\ s.sheet[r.module] = body
             \/ /\ r.module # NoModule /\ ~Stale(r, expected) /\ Expired(r, now)
                /\ Handed(r, s, body)
<1>1. CASE r.module = NoModule \/ Stale(r, expected)
  BY <1>1 DEF SaveAttempt, Reply
<1>2. CASE r.module # NoModule /\ ~Stale(r, expected) /\ ~Expired(r, now)
  BY <1>2, WrittenFine DEF SaveAttempt, Reply
<1>3. CASE r.module # NoModule /\ ~Stale(r, expected) /\ Expired(r, now)
  BY <1>3, FineRow, HandInFine DEF SaveAttempt, Reply
<1> QED  BY <1>1, <1>2, <1>3

(* A submit hands in the module it names, or does nothing.                 *)
LEMMA SubmitFine ==
  ASSUME NEW r, RowFine(r), now \in Nat, NEW target \in Modules, NEW body \in SUBSET AllQuestions
  PROVE  LET o == SubmitModule(r, target, body)
         IN  /\ o.status = 200
             /\ \/ r.module # target /\ o.row = r
                \/ r.module = target /\ Handed(r, o.row, body)
<1>1. Autoheal(r, now) = r /\ target # NoModule
  BY FineRow DEF Modules, NoModule
<1>2. CASE r.module # target
  BY <1>1, <1>2 DEF SubmitModule, OffTarget, Reply
<1>3. CASE r.module = target
  <2>1. SubmitModule(r, target, body)
          = Reply(200, HandIn(r, r.sheet[target] \cup body, now),
                  When(HandIn(r, r.sheet[target] \cup body, now).state = "SCORING", "in_tx"))
    BY <1>1, <1>3, FineRow DEF SubmitModule, OffTarget
  <2> QED  BY <1>1, <1>3, <2>1, HandInFine DEF Reply
<1> QED  BY <1>2, <1>3

LEMMA GradedFine ==
  ASSUME NEW r, RowFine(r), r.state = "SCORING"
  PROVE  Stays(r, CompleteTest(r)) /\ CompleteTest(r).sheet = r.sheet
<1> DEFINE s == CompleteTest(r)
<1>1. RowOK(s) /\ s.state = "COMPLETED" /\ s.completed /\ s.sheet = r.sheet /\ s.version > r.version
  BY CompleteTestRow DEF RowFine
<1>2. s.module = NoModule /\ s.startedAt = r.startedAt
  BY FineRow DEF CompleteTest, Bumped, Row
<1>3. r.module = NoModule /\ r.version \in Nat /\ s.version \in Nat
  BY <1>1, FineRow, RowFields DEF Finished, RowOK
<1> HIDE DEF s
<1>4. RowFine(s)
  BY <1>1, <1>2 DEF RowFine, AuditClean, Running, Finished
<1> QED  BY <1>1, <1>2, <1>3, <1>4, RankRange, FineRow DEF Stays, Onward, s

-----------------------------------------------------------------------------
(* The screen.                                                             *)

LEMMA ScreenFields ==
  ASSUME NEW x \in Screens
  PROVE  /\ x.version \in Nat /\ x.module \in Places /\ x.hydrated \in Modules
         /\ x.draft \subseteq AllQuestions /\ x.submit \subseteq HandIns
         /\ x.done \subseteq Payloads
  BY DEF Screens

LEMMA SnapshotType ==
  ASSUME NEW r, RowFine(r)
  PROVE  /\ Snapshot(r) \in Snapshots
         /\ Snapshot(r).version = r.version /\ Snapshot(r).module = r.module
         /\ r.module # NoModule => Snapshot(r).sheet = r.sheet[r.module]
<1>1. r.version \in Nat /\ r.module \in Places /\ \A k \in Modules : r.sheet[k] \subseteq AllQuestions
  BY FineRow
<1>2. r.module # NoModule => r.module \in Modules
  BY <1>1 DEF Places
<1> QED  BY <1>1, <1>2 DEF Snapshot, Snapshots

(* A served row is shown, or what is on the screen stays.                  *)
LEMMA AppliedScreen ==
  ASSUME NEW x \in Screens, NEW s \in Snapshots, s.version \in Nat
  PROVE  LET y == Applied(x, s)
         IN  /\ y \in Screens
             /\ y.submit = x.submit /\ y.done = x.done
             /\ Accepts(x, s) => y.version = s.version /\ y.module = s.module
             /\ ~Accepts(x, s) => y = x
             /\ \/ y.hydrated = x.hydrated /\ y.draft = x.draft
                \/ y.hydrated = s.module /\ y.draft = s.sheet
<1> DEFINE moved == [x EXCEPT !.version = s.version, !.module = s.module]
           fresh == [moved EXCEPT !.hydrated = s.module, !.draft = s.sheet]
<1>1. s.module \in Places /\ s.sheet \subseteq AllQuestions
  BY DEF Snapshots
<1>2. CASE ~Accepts(x, s)
  BY <1>2 DEF Applied
<1>3. CASE Accepts(x, s) /\ s.module \in {NoModule, x.hydrated}
  <2>1. Applied(x, s) = moved
    BY <1>3 DEF Applied
  <2>2. /\ moved \in Screens /\ moved.version = s.version /\ moved.module = s.module
        /\ moved.submit = x.submit /\ moved.done = x.done
        /\ moved.hydrated = x.hydrated /\ moved.draft = x.draft
    BY <1>1 DEF Screens
  <2> HIDE DEF moved
  <2> QED  BY <1>3, <2>1, <2>2
<1>4. CASE Accepts(x, s) /\ s.module \notin {NoModule, x.hydrated}
  <2>1. Applied(x, s) = fresh
    BY <1>4 DEF Applied
  <2>2. s.module \in Modules
    BY <1>1, <1>4 DEF Places
  <2>3. /\ fresh \in Screens /\ fresh.version = s.version /\ fresh.module = s.module
        /\ fresh.submit = x.submit /\ fresh.done = x.done
        /\ fresh.hydrated = s.module /\ fresh.draft = s.sheet
    BY <1>1, <2>2 DEF Screens
  <2> HIDE DEF fresh
  <2> QED  BY <1>4, <2>1, <2>3
<1> QED  BY <1>2, <1>3, <1>4

(* A screen that shows what it was served: what all its changes have in    *)
(* common, but for the hand-ins.                                           *)
Showing(x, y, s) ==
  /\ y \in Screens
  /\ Accepts(x, s) => y.version = s.version /\ y.module = s.module
  /\ ~Accepts(x, s) => y.version = x.version /\ y.module = x.module
  /\ \/ y.hydrated = x.hydrated /\ y.draft = x.draft
     \/ y.hydrated = s.module /\ y.draft = s.sheet

LEMMA SettledScreen ==
  ASSUME NEW x \in Screens, NEW s \in Snapshots, s.version \in Nat
  PROVE  LET y == Settled(x, s)
         IN  /\ Showing(x, y, s)
             /\ y.submit = {}
             /\ \A d \in y.done : \/ d \in x.done
                                  \/ \E p \in x.submit : /\ p.module # s.module
                                                         /\ d.module = p.module
                                                         /\ d.answers = p.answers
<1> DEFINE y == Applied(x, s)
           new == {Payload(p.module, p.answers) : p \in {q \in x.submit : q.module # s.module}}
           z == [y EXCEPT !.submit = {}, !.done = @ \cup new]
<1>1. /\ y \in Screens /\ y.done = x.done /\ Showing(x, y, s)
  BY AppliedScreen DEF Showing
<1>2. Settled(x, s) = z
  BY DEF Settled
<1>3. new \subseteq Payloads
  BY ScreenFields DEF Payload, Payloads, HandIns
<1> HIDE DEF y
<1>4. \A d \in new : \E p \in x.submit : /\ p.module # s.module
                                         /\ d.module = p.module /\ d.answers = p.answers
  BY DEF Payload
<1> HIDE DEF new
<1>5. /\ z \in Screens /\ z.submit = {} /\ z.done = y.done \cup new
      /\ z.version = y.version /\ z.module = y.module
      /\ z.hydrated = y.hydrated /\ z.draft = y.draft
  BY <1>1, <1>3 DEF Screens
<1> HIDE DEF z
<1>6. Showing(x, z, s)
  BY <1>1, <1>5 DEF Showing
<1> QED  BY <1>1, <1>2, <1>4, <1>5, <1>6

LEMMA UnlockedScreen ==
  ASSUME NEW x \in Screens, NEW s \in Snapshots, s.version \in Nat
  PROVE  LET y == [Applied(x, s) EXCEPT !.submit = {}]
         IN  Showing(x, y, s) /\ y.submit = {} /\ y.done = x.done
<1> DEFINE y == Applied(x, s)
           z == [y EXCEPT !.submit = {}]
<1>1. /\ y \in Screens /\ y.done = x.done /\ Showing(x, y, s)
  BY AppliedScreen DEF Showing
<1> HIDE DEF y
<1>2. /\ z \in Screens /\ z.submit = {} /\ z.done = y.done
      /\ z.version = y.version /\ z.module = y.module
      /\ z.hydrated = y.hydrated /\ z.draft = y.draft
  BY <1>1 DEF Screens
<1> HIDE DEF z
<1>3. Showing(x, z, s)
  BY <1>1, <1>2 DEF Showing
<1> QED  BY <1>1, <1>2, <1>3 DEF y, z

(* What the tab makes of the answer to a request.                          *)
LEMMA HeardScreen ==
  ASSUME NEW x \in Screens, NEW q, RequestOK(q), q.phase = "answered"
  PROVE  LET y == Heard(x, q)
         IN  /\ y \in Screens
             /\ \/ /\ Showing(x, y, q.snapshot) \/ (y.version = x.version /\ y.module = x.module
                                                     /\ y.hydrated = x.hydrated /\ y.draft = x.draft)
                   /\ y.submit = x.submit /\ y.done = x.done
                \/ /\ q.kind = "submit"
                   /\ \E p \in x.submit : p.module = q.target /\ p.version = q.expected
                   /\ y = Settled(x, q.snapshot)
<1> DEFINE saved == [x EXCEPT !.saving = FALSE]
           acked == [saved EXCEPT !.accepted = {Payload(q.target, q.answers)}]
           Same(y) == /\ y \in Screens /\ y.version = x.version /\ y.module = x.module
                      /\ y.hydrated = x.hydrated /\ y.draft = x.draft
                      /\ y.submit = x.submit /\ y.done = x.done
<1>1. /\ q.snapshot \in Snapshots /\ q.snapshot.version \in Nat
      /\ q.target \in Modules /\ q.answers \subseteq AllQuestions
  BY DEF RequestOK, InTransit
<1>2. Same(saved) /\ Same(acked) /\ Same(x)
  <2>1. Same(x)
    OBVIOUS
  <2>2. Same(saved)
    BY DEF Screens
  <2>3. {Payload(q.target, q.answers)} \in SUBSET Payloads
    BY <1>1 DEF Payload, Payloads
  <2> DEFINE sent == {Payload(q.target, q.answers)}
  <2> HIDE DEF sent
  <2>4. [saved EXCEPT !.accepted = sent] \in Screens
    BY <2>2, <2>3 DEF Screens, sent
  <2>5. Same([saved EXCEPT !.accepted = sent])
    BY <2>4 DEF Screens
  <2> QED  BY <2>1, <2>2, <2>5 DEF sent
<1> HIDE DEF saved, acked
<1>3. ASSUME NEW y, Same(y)
      PROVE  /\ Showing(x, Applied(y, q.snapshot), q.snapshot)
             /\ Applied(y, q.snapshot).submit = x.submit /\ Applied(y, q.snapshot).done = x.done
  <2>1. Accepts(y, q.snapshot) <=> Accepts(x, q.snapshot)
    BY <1>3 DEF Accepts
  <2> QED  BY <1>1, <1>3, <2>1, AppliedScreen DEF Showing
<1>4. CASE q.kind = "save" /\ q.status = 200
  <2>1. Heard(x, q) = Applied(acked, q.snapshot)
    BY <1>4 DEF Heard, saved, acked
  <2> QED  BY <1>2, <1>3, <2>1 DEF Showing
<1>5. CASE q.kind = "save" /\ q.status = 409
  <2>1. Heard(x, q) = Applied(saved, q.snapshot)
    BY <1>5 DEF Heard, saved
  <2> QED  BY <1>2, <1>3, <2>1 DEF Showing
<1>6. CASE q.kind = "save" /\ q.status \notin {200, 409}
  <2>1. Heard(x, q) = saved
    BY <1>6 DEF Heard, saved
  <2> QED  BY <1>2, <2>1
<1>7. CASE q.kind # "save"
  <2>1. \/ Heard(x, q) = x
        \/ /\ q.kind = "submit"
           /\ \E p \in x.submit : p.module = q.target /\ p.version = q.expected
           /\ Heard(x, q) = Settled(x, q.snapshot)
    BY <1>7 DEF Heard
  <2> QED  BY <1>1, <1>2, <2>1, SettledScreen DEF Showing
<1> QED  BY <1>4, <1>5, <1>6, <1>7

-----------------------------------------------------------------------------
LEMMA TheIsRow == The \in Attempts
  BY MaxAttemptsAssumption DEF The, Attempts

(* The row moves on: it is still the latest.                               *)
LEMMA LatestOnward ==
  ASSUME NEW V, NEW r, NEW s, RowFine(r), Latest(V, r), Onward(r, s)
  PROVE  Latest(V \cup {View(s.version, s.module)}, s)
<1> DEFINE new == View(s.version, s.module)
<1>1. /\ new.version = s.version /\ new.module = s.module
      /\ View(r.version, r.module).version = r.version /\ View(r.version, r.module).module = r.module
  BY DEF View
<1> HIDE DEF new
<1>2. /\ r.version \in Nat /\ s.version \in Nat /\ r.module \in Places /\ s.module \in Places
      /\ s.version >= r.version
  BY FineRow DEF Onward
<1>3. \A m \in Places : Rank(m) \in 1 .. 3
  BY RankRange
<1>4. ASSUME NEW v \in V
      PROVE  /\ v.version <= s.version /\ Rank(v.module) <= Rank(s.module)
             /\ new.version <= v.version => Rank(new.module) <= Rank(v.module)
  <2>1. v.version <= r.version /\ v.version \in Nat /\ v.module \in Places
    BY DEF Latest
  <2>2. Rank(v.module) <= Rank(r.module) /\ Rank(s.module) >= Rank(r.module)
    BY <1>1, <2>1 DEF Latest, Onward
  <2>3. CASE s.version <= v.version
    <3>1. s.version = r.version /\ r.version <= v.version /\ s.module = r.module
      BY <1>2, <2>1, <2>3 DEF Onward
    <3>2. Rank(r.module) <= Rank(v.module)
      BY <3>1, <1>1 DEF Latest
    <3> QED  BY <1>1, <1>2, <1>3, <2>1, <2>2, <3>1, <3>2
  <2>4. CASE ~(s.version <= v.version)
    BY <1>1, <1>2, <1>3, <2>1, <2>2, <2>4
  <2> QED  BY <2>3, <2>4
<1>5. \A v, w \in V : v.version <= w.version => Rank(v.module) <= Rank(w.module)
  BY DEF Latest
<1>6. Rank(new.module) <= Rank(new.module) /\ new.version <= s.version
  BY <1>1, <1>2, <1>3
<1>7. \A v \in V \cup {new} : v.version \in Nat /\ v.module \in Places
  BY <1>1, <1>2 DEF Latest
<1>8. \A v, w \in V \cup {new} : v.version <= w.version => Rank(v.module) <= Rank(w.module)
  BY <1>1, <1>4, <1>5, <1>6
<1>9. \A v \in V \cup {new} : v.version <= s.version
  BY <1>4, <1>6
<1> QED  BY <1>7, <1>8, <1>9 DEF Latest, new

(* What stays in circulation stays fine; what is new is shown to be.       *)
LEMMA StepFine ==
  ASSUME NEW V, WebInv, Circulates(V), Onward(rows[The], rows'[The]),
         rows' \in [Attempts -> Row], now' \in Nat, under' = under,
         NEW W, W = V \cup {View(rows'[The].version, rows'[The].module)},
         tab' \in [Tabs -> Screens],
         \A t \in Tabs : tab'[t] = tab[t] \/ ScreenFine(tab'[t], W),
         \A q \in net' : q \in net \/ RequestFine(q, W, rows'[The]),
         \A k \in stored' : k \in stored \/ AnswerFine(k, W)
  PROVE  WebInv'
<1> DEFINE r == rows[The]
           s == rows'[The]
<1>1. RowFine(r) /\ RowFine(s)
  BY DEF WebInv, Onward
<1>2. Latest(W, s)
  BY <1>1, LatestOnward DEF Circulates
<1>3. \A t \in Tabs : ScreenFine(tab'[t], W)
  BY DEF ScreenFine, Circulates
<1>4. \A q \in net' : RequestFine(q, W, s)
  <2>1. \A m \in Modules : Beyond(r, m) => Beyond(s, m)
    <3>1. Rank(r.module) \in 1 .. 3 /\ Rank(s.module) \in 1 .. 3
      BY <1>1, FineRow, RankRange
    <3> QED  BY <3>1 DEF Beyond, Onward, Modules
  <2>2. \A q \in net : RequestFine(q, V, r) /\ q.target \in Modules
    BY DEF RequestFine, RequestOK, InTransit, Circulates
  <2> QED  BY <2>1, <2>2 DEF RequestFine
<1>5. \A k \in stored' : AnswerFine(k, W)
  BY DEF AnswerFine, Circulates
<1>6. Circulates(W)'
  BY <1>2, <1>3, <1>4, <1>5 DEF Circulates
<1> QED  BY <1>1, <1>6 DEF WebInv

(* A step that leaves the row alone.                                       *)
LEMMA ScreenStepFine ==
  ASSUME NEW V, WebInv, Circulates(V), UNCHANGED <<serverVars, under>>,
         tab' \in [Tabs -> Screens],
         \A t \in Tabs : tab'[t] = tab[t] \/ ScreenFine(tab'[t], V),
         \A q \in net' : q \in net \/ RequestFine(q, V, rows[The]),
         \A k \in stored' : k \in stored \/ AnswerFine(k, V)
  PROVE  WebInv'
<1>1. rows' = rows /\ now' = now /\ under' = under
  BY DEF serverVars, vars
<1>2. V = V \cup {View(rows'[The].version, rows'[The].module)}
  BY <1>1 DEF Circulates, Latest
<1>3. Onward(rows[The], rows'[The])
  BY <1>1, StaysSame DEF WebInv, Stays
<1> QED  BY <1>1, <1>2, <1>3, StepFine DEF WebInv

LEMMA ShownFine ==
  ASSUME NEW V, NEW x, ScreenFine(x, V), NEW s, View(s.version, s.module) \in V,
         NEW y, Showing(x, y, s), y.submit \subseteq x.submit
  PROVE  ScreenFine(y, V)
  BY DEF ScreenFine, Showing

(* What a poll is served.                                                  *)
LEMMA ServedFine ==
  ASSUME NEW V, WebInv, Circulates(V)
  PROVE  LET s == Snapshot(rows[The])
         IN  /\ s \in Snapshots /\ s.version \in Nat
             /\ View(s.version, s.module) \in V
<1>1. rows[The].version \in Nat
  BY FineRow DEF WebInv
<1> QED  BY <1>1, SnapshotType DEF WebInv, Circulates, Latest

(* The one tab that changes.                                               *)
LEMMA OneScreen ==
  ASSUME tab \in [Tabs -> Screens], NEW t \in Tabs, NEW y \in Screens,
         tab' = [tab EXCEPT ![t] = y]
  PROVE  /\ tab' \in [Tabs -> Screens] /\ tab'[t] = y
         /\ \A u \in Tabs : u # t => tab'[u] = tab[u]
  OBVIOUS

LEMMA SentFine ==
  ASSUME NEW V, NEW r, NEW t \in Tabs, NEW kind \in {"save", "submit"},
         NEW k \in Modules, NEW version \in Nat, NEW try \in Nat,
         NEW answers \in SUBSET AllQuestions, View(version, k) \in V
  PROVE  RequestFine(Sent(t, kind, Key(kind, k, version, try), version, k, answers), V, r)
<1> DEFINE key == <<kind, k, version, try>>
           q == Sent(t, kind, key, version, k, answers)
<1>1. key \in Keys /\ Names(key, kind, k)
  BY DEF Keys, Names
<1> HIDE DEF key
<1>2. NoSnapshot \in Snapshots
  BY DEF NoSnapshot, Snapshots, Places
<1>3. /\ q \in InTransit /\ q.kind = kind /\ q.key = key /\ q.expected = version
      /\ q.target = k /\ q.phase = "sent"
  BY <1>1, <1>2 DEF Sent, InTransit
<1> HIDE DEF q
<1>4. RequestOK(q)
  BY <1>1, <1>3 DEF RequestOK
<1>5. RequestFine(q, V, r)
  BY <1>3, <1>4 DEF RequestFine
<1> QED  BY <1>5 DEF q, key, Key

LEMMA FlushFine ==
  ASSUME NEW V, NEW r, NEW t \in Tabs, NEW k \in Modules, NEW answers \in SUBSET AllQuestions
  PROVE  RequestFine([Sent(t, "flush", NoKey, NoVersion, k, answers) EXCEPT !.heard = FALSE], V, r)
<1> DEFINE q == [Sent(t, "flush", NoKey, NoVersion, k, answers) EXCEPT !.heard = FALSE]
<1>1. NoSnapshot \in Snapshots
  BY DEF NoSnapshot, Snapshots, Places
<1>2. /\ q \in InTransit /\ q.kind = "flush" /\ q.key = NoKey /\ q.phase = "sent"
      /\ q.expected = NoVersion
  BY <1>1 DEF Sent, InTransit
<1> HIDE DEF q
<1>3. RequestFine(q, V, r)
  BY <1>2 DEF RequestFine, RequestOK
<1> QED  BY <1>3 DEF q

LEMMA TabStepFine ==
  ASSUME WebInv, NEW t \in Tabs, TabStep(t), UNCHANGED under
  PROVE  WebInv'
<1> DEFINE x == tab[t]
           s == Snapshot(rows[The])
<1>1. PICK V : Circulates(V)
  BY DEF WebInv
<1>2. tab \in [Tabs -> Screens] /\ ScreenFine(x, V) /\ x \in Screens
  BY <1>1 DEF WebInv, Circulates
<1>3. /\ x.version \in Nat /\ x.draft \subseteq AllQuestions /\ x.submit \subseteq HandIns
      /\ x.module # NoModule => x.module \in Modules
      /\ x.hydrated \in Modules
      /\ View(x.version, x.module) \in V
  BY <1>2, ScreenFields DEF Places, ScreenFine
<1>4. s \in Snapshots /\ s.version \in Nat /\ View(s.version, s.module) \in V
  BY <1>1, ServedFine
<1>5. ASSUME NEW y, ScreenFine(y, V), tab' = [tab EXCEPT ![t] = y],
             UNCHANGED <<serverVars, stored>>,
             \A q \in net' : q \in net \/ RequestFine(q, V, rows[The])
      PROVE  WebInv'
  <2>1. y \in Screens
    BY <1>5 DEF ScreenFine
  <2>2. tab' \in [Tabs -> Screens] /\ \A u \in Tabs : tab'[u] = tab[u] \/ ScreenFine(tab'[u], V)
    BY <1>2, <1>5, <2>1, OneScreen
  <2> QED  BY <1>1, <1>5, <2>2, ScreenStepFine
<1>6. CASE Edit(t)
  <2>1. PICK question \in Question[x.hydrated] : tab' = [tab EXCEPT ![t].draft = @ \cup {question}]
    BY <1>6 DEF Edit
  <2>2. question \in AllQuestions
    BY <1>3 DEF AllQuestions, Modules
  <2>3. ScreenFine([x EXCEPT !.draft = @ \cup {question}], V)
    BY <1>2, <1>3, <2>2 DEF ScreenFine, Screens
  <2> QED  BY <1>5, <1>6, <2>1, <2>3 DEF Edit
<1>7. CASE Autosave(t)
  <2>1. ScreenFine([x EXCEPT !.saving = TRUE], V)
    BY <1>2, <1>3 DEF ScreenFine, Screens
  <2>2. x.module \in Modules
    BY <1>3, <1>7 DEF Autosave, Answering
  <2>3. RequestFine(Sent(t, "save", Key("save", x.module, x.version, 0),
                         x.version, x.module, x.draft), V, rows[The])
    BY <1>3, <2>2, SentFine
  <2> QED  BY <1>5, <1>7, <2>1, <2>3 DEF Autosave, Send
<1>8. CASE Leave(t)
  <2>1. x.module \in Modules
    BY <1>3, <1>8 DEF Leave, Answering
  <2>2. RequestFine([Sent(t, "flush", NoKey, NoVersion, x.module, x.draft)
                       EXCEPT !.heard = FALSE], V, rows[The])
    BY <1>3, <2>1, FlushFine
  <2>3. \A q \in net' : q \in net \/ RequestFine(q, V, rows[The])
    BY <1>8, <2>2 DEF Leave, Send
  <2> QED  BY <1>1, <1>2, <1>8, <2>3, ScreenStepFine DEF Leave
<1>9. CASE HandInModule(t)
  <2> DEFINE p == [module |-> x.module, version |-> x.version, try |-> 0, answers |-> x.draft]
  <2>1. x.module \in Modules
    BY <1>3, <1>9 DEF HandInModule, Answering
  <2>2. p \in HandIns
    BY <1>3, <2>1 DEF HandIns
  <2>3. ScreenFine([x EXCEPT !.submit = {p}], V)
    BY <1>2, <1>3, <2>2 DEF ScreenFine, Screens
  <2>4. RequestFine(Submission(t, p), V, rows[The])
    BY <1>3, <2>1, SentFine DEF Submission
  <2> QED  BY <1>5, <1>9, <2>3, <2>4 DEF HandInModule, Send
<1>10. CASE RetryHandIn(t)
  <2>1. PICK p \in x.submit :
          LET again == [p EXCEPT !.try = @ + 1]
          IN Send(Submission(t, again)) /\ tab' = [tab EXCEPT ![t].submit = {again}]
    BY <1>10 DEF RetryHandIn
  <2> DEFINE again == [p EXCEPT !.try = @ + 1]
  <2>2. p \in HandIns
    BY <1>3
  <2>3. /\ again \in HandIns /\ again.module = p.module /\ again.version = p.version
        /\ again.module \in Modules /\ again.version \in Nat /\ again.try \in Nat
        /\ again.answers \in SUBSET AllQuestions
    BY <2>2 DEF HandIns
  <2>4. View(again.version, again.module) \in V
    BY <1>2, <2>3 DEF ScreenFine
  <2>5. Send(Submission(t, again)) /\ tab' = [tab EXCEPT ![t].submit = {again}]
    BY <2>1
  <2> HIDE DEF again
  <2>6. ScreenFine([x EXCEPT !.submit = {again}], V)
    BY <1>2, <1>3, <2>3, <2>4 DEF ScreenFine, Screens
  <2>7. RequestFine(Submission(t, again), V, rows[The])
    BY <2>3, <2>4, SentFine DEF Submission
  <2> QED  BY <1>5, <1>10, <2>5, <2>6, <2>7 DEF RetryHandIn, Send
<1>11. CASE GiveUp(t)
  <2>1. PICK p \in x.submit :
          tab' = [tab EXCEPT ![t] = IF s.version > p.version
                                    THEN Settled(@, s) ELSE [Applied(@, s) EXCEPT !.submit = {}]]
    BY <1>11 DEF GiveUp
  <2>2. ScreenFine(Settled(x, s), V) /\ ScreenFine([Applied(x, s) EXCEPT !.submit = {}], V)
    BY <1>2, <1>4, SettledScreen, UnlockedScreen, ShownFine
  <2> QED  BY <1>5, <1>11, <2>1, <2>2 DEF GiveUp
<1>12. CASE Poll(t)
  <2>1. ScreenFine(Applied(x, s), V)
    BY <1>2, <1>4, AppliedScreen, ShownFine DEF Showing
  <2> QED  BY <1>5, <1>12, <2>1 DEF Poll
<1>13. CASE Watchdog(t)
  <2>1. ScreenFine(Settled(x, s), V)
    BY <1>2, <1>4, SettledScreen, ShownFine
  <2> QED  BY <1>5, <1>13, <2>1 DEF Watchdog
<1> QED  BY <1>6, <1>7, <1>8, <1>9, <1>10, <1>11, <1>12, <1>13 DEF TabStep

-----------------------------------------------------------------------------
(* Requests.                                                               *)

LEMMA NoKeyIsNoKey == NoKey \notin Keys
<1>1. SUFFICES ASSUME NEW k \in Keys, k = NoKey PROVE FALSE
  OBVIOUS
<1>2. k[1] \in {"save", "submit"} /\ k = <<k[1], k[2], k[3], k[4]>>
  BY DEF Keys
<1> QED  BY <1>1, <1>2 DEF NoKey

LEMMA HeardIsFine ==
  ASSUME NEW V, NEW r, NEW q, RequestFine(q, V, r), NEW heard \in BOOLEAN
  PROVE  RequestFine([q EXCEPT !.heard = heard], V, r)
<1> DEFINE p == [q EXCEPT !.heard = heard]
<1>1. /\ p \in InTransit /\ p.kind = q.kind /\ p.key = q.key /\ p.phase = q.phase
      /\ p.expected = q.expected /\ p.target = q.target /\ p.snapshot = q.snapshot
  BY DEF RequestFine, RequestOK, InTransit
<1> HIDE DEF p
<1>2. RequestFine(p, V, r)
  BY <1>1 DEF RequestFine, RequestOK
<1> QED  BY <1>2 DEF p

LEMMA MissedIsFine ==
  ASSUME NEW V, NEW r, NEW q, RequestFine(q, V, r), q.phase = "sent"
  PROVE  RequestFine([q EXCEPT !.phase = "missed"], V, r)
<1> DEFINE p == [q EXCEPT !.phase = "missed"]
<1>1. /\ p \in InTransit /\ p.kind = q.kind /\ p.key = q.key /\ p.phase = "missed"
      /\ p.expected = q.expected /\ p.target = q.target
  BY DEF RequestFine, RequestOK, InTransit
<1> HIDE DEF p
<1>2. RequestFine(p, V, r)
  BY <1>1 DEF RequestFine, RequestOK
<1> QED  BY <1>2 DEF p

LEMMA ComputedIsFine ==
  ASSUME NEW V, NEW W, V \subseteq W, NEW r, NEW s, NEW q, RequestFine(q, V, r), q.kind # "flush",
         NEW status \in Nat, q.kind = "submit" => Beyond(s, q.target)
  PROVE  RequestFine([q EXCEPT !.phase = "computed", !.status = status], W, s)
<1> DEFINE p == [q EXCEPT !.phase = "computed", !.status = status]
<1>1. /\ p \in InTransit /\ p.kind = q.kind /\ p.key = q.key /\ p.phase = "computed"
      /\ p.expected = q.expected /\ p.target = q.target
  BY DEF RequestFine, RequestOK, InTransit
<1> HIDE DEF p
<1>2. RequestFine(p, W, s)
  BY <1>1 DEF RequestFine, RequestOK
<1> QED  BY <1>2 DEF p

LEMMA AnsweredIsFine ==
  ASSUME NEW V, NEW r, NEW q, RequestFine(q, V, r), NEW k, AnswerFine(k, V), k.key = q.key
  PROVE  /\ q.kind # "flush"
         /\ RequestFine([q EXCEPT !.phase = "answered", !.status = k.status,
                                  !.snapshot = k.snapshot], V, r)
<1> DEFINE p == [q EXCEPT !.phase = "answered", !.status = k.status, !.snapshot = k.snapshot]
<1>1. k \in Answers /\ k.snapshot.version \in Nat /\ q \in InTransit
  BY DEF AnswerFine, AnswerOK, RequestFine, RequestOK
<1>2. q.kind # "flush"
  BY <1>1, NoKeyIsNoKey DEF RequestFine, RequestOK, Answers
<1>3. /\ p \in InTransit /\ p.kind = q.kind /\ p.key = q.key /\ p.phase = "answered"
      /\ p.expected = q.expected /\ p.target = q.target /\ p.snapshot = k.snapshot
  BY <1>1 DEF InTransit, Answers
<1> HIDE DEF p
<1>4. q.target \in Modules /\ Names(q.key, q.kind, q.target) /\ q.expected \in Nat /\ q.key \in Keys
  BY <1>1, <1>2 DEF RequestFine, RequestOK, InTransit
<1>5. q.kind = "submit" => Beyond(k.snapshot, q.target)
  BY <1>4 DEF AnswerFine
<1>6. RequestFine(p, V, r)
  BY <1>1, <1>2, <1>3, <1>4, <1>5 DEF RequestFine, RequestOK, AnswerFine
<1> QED  BY <1>2, <1>6 DEF p

(* The answer composed from the row.                                       *)
LEMMA FreshIsFine ==
  ASSUME NEW V, WebInv, Circulates(V), NEW q \in net, q.phase = "computed"
  PROVE  AnswerFine([key |-> q.key, status |-> q.status, snapshot |-> Snapshot(rows[The])], V)
<1> DEFINE s == Snapshot(rows[The])
           k == [key |-> q.key, status |-> q.status, snapshot |-> s]
<1>1. s \in Snapshots /\ s.version \in Nat /\ View(s.version, s.module) \in V
  BY ServedFine
<1>2. RequestFine(q, V, rows[The])
  BY DEF Circulates
<1>3. /\ q.key \in Keys /\ q.status \in Nat /\ Names(q.key, q.kind, q.target)
      /\ q.target \in Modules
      /\ q.kind = "submit" => Beyond(rows[The], q.target)
  BY <1>2 DEF RequestFine, RequestOK, InTransit
<1>4. s.module = rows[The].module
  BY DEF Snapshot
<1> HIDE DEF s
<1>5. k \in Answers /\ k.key = q.key /\ k.snapshot = s
  BY <1>1, <1>3 DEF Answers
<1> HIDE DEF k
<1>6. \A m \in Modules : Names(q.key, "submit", m) => Beyond(s, m)
  BY <1>3, <1>4 DEF Names, Beyond
<1>7. AnswerFine(k, V)
  BY <1>1, <1>5, <1>6 DEF AnswerFine, AnswerOK
<1> QED  BY <1>7 DEF k, s

LEMMA AnswerStep ==
  ASSUME NEW V, WebInv, Circulates(V), NEW q \in net, NEW k, AnswerFine(k, V), k.key = q.key,
         Answer(q, k)
  PROVE  \A p \in net' : p \in net \/ RequestFine(p, V, rows[The])
<1>1. RequestFine(q, V, rows[The])
  BY DEF Circulates
<1> QED  BY <1>1, AnsweredIsFine DEF Answer, Replace

(* What serving a request makes of the row.                                *)
Effect(q, r, s) ==
  \/ s = r /\ (q.kind = "submit" => r.module # q.target)
  \/ /\ q.kind # "submit" /\ r.module # NoModule
     /\ ~Stale(r, q.expected) /\ ~Expired(r, now)
     /\ Stays(r, s) /\ s.sheet[r.module] = q.answers
  \/ /\ q.kind # "submit" /\ r.module # NoModule
     /\ ~Stale(r, q.expected) /\ Expired(r, now)
     /\ Handed(r, s, q.answers)
  \/ q.kind = "submit" /\ r.module = q.target /\ Handed(r, s, q.answers)

Served(q) ==
  IF q.kind = "submit"
  THEN SubmitModule(rows[The], q.target, q.answers)
  ELSE SaveAttempt(rows[The], q.expected, q.answers)

LEMMA ServedEffect ==
  ASSUME RowFine(rows[The]), now \in Nat, NEW q, RequestOK(q)
  PROVE  Effect(q, rows[The], Served(q).row) /\ Served(q).status \in Nat
<1> DEFINE r == rows[The]
<1>1. q.target \in Modules /\ q.answers \in SUBSET AllQuestions /\ q.kind \in {"save", "flush", "submit"}
  BY DEF RequestOK, InTransit
<1>2. CASE q.kind = "submit"
  BY <1>1, <1>2, SubmitFine DEF Effect, Served
<1>3. CASE q.kind # "submit"
  <2>1. SaveAttempt(r, q.expected, q.answers).status \in Nat
    BY DEF SaveAttempt, Reply
  <2> QED  BY <1>1, <1>3, <2>1, SaveFine DEF Effect, Served
<1> QED  BY <1>2, <1>3

LEMMA EffectOnward ==
  ASSUME NEW q, NEW r, RowFine(r), NEW s, Effect(q, r, s)
  PROVE  Onward(r, s)
  BY StaysSame DEF Effect, Stays, Handed

LEMMA ComputedRow ==
  ASSUME WebInv, NEW q \in net, Compute(q)
  PROVE  /\ Effect(q, rows[The], rows'[The])
         /\ rows' = [rows EXCEPT ![The] = Served(q).row]
         /\ rows' \in [Attempts -> Row] /\ now' = now
         /\ Served(q).status \in Nat
<1>1. RequestOK(q)
  BY DEF WebInv, Circulates, RequestFine
<1>2. rows' = [rows EXCEPT ![The] = Served(q).row] /\ now' = now
  BY DEF Compute, Served, ViewRequest, Request, Commit
<1>3. Effect(q, rows[The], Served(q).row) /\ Served(q).status \in Nat
  BY <1>1, ServedEffect DEF WebInv
<1>4. Served(q).row \in Row
  BY <1>3, EffectOnward, FineRow DEF WebInv, Onward
<1> QED  BY <1>2, <1>3, <1>4, TheIsRow DEF WebInv

(* A submit that was served left its module, whoever did it.               *)
LEMMA SubmitLeaves ==
  ASSUME NEW V, NEW r, RowFine(r), Latest(V, r), NEW q, RequestFine(q, V, r), q.kind = "submit",
         NEW s, Effect(q, r, s)
  PROVE  Beyond(s, q.target)
<1>1. /\ q.target \in Modules /\ q.expected \in Nat /\ View(q.expected, q.target) \in V
  BY DEF RequestFine, RequestOK, InTransit
<1>2. CASE s = r /\ r.module # q.target
  <2>1. Rank(q.target) <= Rank(r.module)
    BY <1>1 DEF Latest, View
  <2>2. r.module \in Places /\ q.target \in Places /\ q.target # NoModule
    BY <1>1, FineRow DEF Places, Modules, NoModule
  <2>3. Rank(q.target) # Rank(r.module) /\ Rank(q.target) = q.target
    BY <1>2, <2>2, RankRange
  <2>4. Rank(r.module) \in 1 .. 3 /\ Rank(q.target) \in 1 .. 3
    BY <2>2, RankRange
  <2> QED  BY <1>2, <2>1, <2>3, <2>4 DEF Beyond
<1>3. CASE r.module = q.target /\ Handed(r, s, q.answers)
  BY <1>3 DEF Handed
<1> QED  BY <1>2, <1>3 DEF Effect

LEMMA ComputeFine ==
  ASSUME WebInv, NEW q \in net, Compute(q), UNCHANGED under
  PROVE  WebInv'
<1> DEFINE r == rows[The]
           s == rows'[The]
<1>1. PICK V : Circulates(V)
  BY DEF WebInv
<1> DEFINE W == V \cup {View(s.version, s.module)}
<1>2. /\ Effect(q, r, s) /\ rows' \in [Attempts -> Row] /\ now' = now
      /\ Served(q).status \in Nat
  BY ComputedRow
<1>3. Onward(r, s)
  BY <1>2, EffectOnward DEF WebInv
<1>4. RequestFine(q, V, r) /\ Latest(V, r) /\ RowFine(r)
  BY <1>1 DEF Circulates, WebInv
<1>5. q.kind = "submit" => Beyond(s, q.target)
  BY <1>2, <1>4, SubmitLeaves
<1>6. q.kind # "flush" => RequestFine([q EXCEPT !.phase = "computed", !.status = Served(q).status], W, s)
  BY <1>2, <1>4, <1>5, ComputedIsFine
<1>7. IF q.kind = "flush" THEN net' = net \ {q}
      ELSE Replace(q, [q EXCEPT !.phase = "computed", !.status = Served(q).status])
  BY DEF Compute, Served
<1>8. \A p \in net' : p \in net \/ RequestFine(p, W, s)
  BY <1>6, <1>7 DEF Replace
<1>9. tab' = tab /\ stored' = stored
  BY DEF Compute
<1> HIDE DEF W
<1>10. tab' \in [Tabs -> Screens] /\ now' \in Nat
  BY <1>2, <1>9 DEF WebInv
<1> QED  BY <1>1, <1>2, <1>3, <1>8, <1>9, <1>10, StepFine DEF W

LEMMA LookupFine ==
  ASSUME WebInv, NEW q \in net, Lookup(q), UNCHANGED under
  PROVE  WebInv'
<1>1. PICK V : Circulates(V)
  BY DEF WebInv
<1>2. RequestFine(q, V, rows[The]) /\ \A k \in stored : AnswerFine(k, V)
  BY <1>1 DEF Circulates
<1>3. \A p \in net' : p \in net \/ RequestFine(p, V, rows[The])
  <2>1. CASE Replace(q, [q EXCEPT !.phase = "missed"])
    BY <1>2, <2>1, MissedIsFine DEF Replace, Lookup
  <2>2. CASE \E k \in stored : k.key = q.key /\ Answer(q, k)
    BY <1>1, <1>2, <2>2, AnswerStep
  <2> QED  BY <2>1, <2>2 DEF Lookup
<1>4. tab' = tab /\ stored' = stored /\ UNCHANGED <<serverVars, under>> /\ tab \in [Tabs -> Screens]
  BY DEF Lookup, WebInv
<1> QED  BY <1>1, <1>3, <1>4, ScreenStepFine

LEMMA RespondFine ==
  ASSUME WebInv, NEW q \in net, Respond(q), UNCHANGED under
  PROVE  WebInv'
<1> DEFINE fresh == [key |-> q.key, status |-> q.status, snapshot |-> Snapshot(rows[The])]
<1>1. PICK V : Circulates(V)
  BY DEF WebInv
<1>2. AnswerFine(fresh, V) /\ fresh.key = q.key
  BY <1>1, FreshIsFine DEF Respond
<1>3. \/ stored' = stored \cup {fresh} /\ Answer(q, fresh)
      \/ stored' = stored /\ \E k \in stored : k.key = q.key /\ Answer(q, k)
  BY DEF Respond
<1> HIDE DEF fresh
<1>4. \A p \in net' : p \in net \/ RequestFine(p, V, rows[The])
  BY <1>1, <1>2, <1>3, AnswerStep DEF Circulates
<1>5. \A k \in stored' : k \in stored \/ AnswerFine(k, V)
  BY <1>2, <1>3
<1>6. tab' = tab /\ UNCHANGED <<serverVars, under>> /\ tab \in [Tabs -> Screens]
  BY DEF Respond, WebInv
<1> QED  BY <1>1, <1>4, <1>5, <1>6, ScreenStepFine

LEMMA HearFine ==
  ASSUME WebInv, NEW q \in net, Hear(q), UNCHANGED under
  PROVE  WebInv'
<1> DEFINE x == tab[q.tab]
<1>1. PICK V : Circulates(V)
  BY DEF WebInv
<1>2. RequestFine(q, V, rows[The]) /\ RequestOK(q) /\ q.phase = "answered"
  BY <1>1 DEF Circulates, RequestFine, Hear
<1>3. /\ q.tab \in Tabs /\ q.snapshot \in Snapshots /\ q.snapshot.version \in Nat
      /\ View(q.snapshot.version, q.snapshot.module) \in V
  BY <1>2 DEF RequestFine, RequestOK, InTransit
<1>4. ScreenFine(x, V) /\ x \in Screens
  BY <1>1, <1>3 DEF Circulates, ScreenFine
<1>5. ScreenFine(Heard(x, q), V)
  <2>1. CASE Showing(x, Heard(x, q), q.snapshot) /\ Heard(x, q).submit = x.submit
    BY <1>3, <1>4, <2>1, ShownFine
  <2>2. CASE /\ Heard(x, q) \in Screens /\ Heard(x, q).version = x.version
             /\ Heard(x, q).module = x.module /\ Heard(x, q).submit = x.submit
    BY <1>4, <2>2 DEF ScreenFine
  <2>3. CASE Heard(x, q) = Settled(x, q.snapshot)
    BY <1>3, <1>4, <2>3, SettledScreen, ShownFine
  <2> QED  BY <1>2, <1>4, <2>1, <2>2, <2>3, HeardScreen
<1>6. tab' = [tab EXCEPT ![q.tab] = Heard(x, q)]
  BY DEF Hear
<1>7. tab' \in [Tabs -> Screens] /\ \A u \in Tabs : tab'[u] = tab[u] \/ ScreenFine(tab'[u], V)
  BY <1>3, <1>5, <1>6, OneScreen DEF WebInv, ScreenFine
<1>8. /\ UNCHANGED <<serverVars, under, stored>>
      /\ \A p \in net' : p \in net
  BY DEF Hear
<1> QED  BY <1>1, <1>7, <1>8, ScreenStepFine

LEMMA LossFine ==
  ASSUME WebInv, NEW q \in net, LoseConnection(q) \/ DropFlush(q), UNCHANGED under
  PROVE  WebInv'
<1>1. PICK V : Circulates(V)
  BY DEF WebInv
<1>2. RequestFine(q, V, rows[The]) /\ q.tab \in Tabs
  BY <1>1 DEF Circulates, RequestFine, RequestOK, InTransit
<1>3. \A p \in net' : p \in net \/ RequestFine(p, V, rows[The])
  <2> DEFINE lost == [q EXCEPT !.heard = FALSE]
  <2>1. RequestFine(lost, V, rows[The])
    BY <1>2, HeardIsFine
  <2>2. Replace(q, lost) \/ net' = net \ {q}
    BY DEF LoseConnection, DropFlush
  <2> HIDE DEF lost
  <2> QED  BY <2>1, <2>2 DEF Replace
<1>4. tab' = tab \/ tab' = [tab EXCEPT ![q.tab] = [tab[q.tab] EXCEPT !.saving = FALSE]]
  BY DEF LoseConnection, DropFlush
<1>5. ScreenFine([tab[q.tab] EXCEPT !.saving = FALSE], V)
  <2>1. ScreenFine(tab[q.tab], V)
    BY <1>1, <1>2 DEF Circulates
  <2> QED  BY <2>1 DEF ScreenFine, Screens
<1>6. tab' \in [Tabs -> Screens] /\ \A u \in Tabs : tab'[u] = tab[u] \/ ScreenFine(tab'[u], V)
  BY <1>2, <1>4, <1>5, OneScreen DEF WebInv, ScreenFine
<1>7. UNCHANGED <<serverVars, under, stored>>
  BY DEF LoseConnection, DropFlush
<1> QED  BY <1>1, <1>3, <1>6, <1>7, ScreenStepFine

(* Behind the requests: the row is graded, or stays.                       *)
LEMMA ServerStepRow ==
  ASSUME WebInv, ServerStep
  PROVE  /\ Stays(rows[The], rows'[The]) /\ rows'[The].sheet = rows[The].sheet
         /\ rows' \in [Attempts -> Row] /\ now' \in Nat
<1> DEFINE r == rows[The]
<1>1. RowFine(r) /\ rows \in [Attempts -> Row] /\ now \in Nat
  BY DEF WebInv
<1>2. CASE Tick
  BY <1>1, <1>2, StaysSame DEF Tick
<1>3. CASE EnqueueAfterCommit(The)
  BY <1>1, <1>3, StaysSame DEF EnqueueAfterCommit
<1>4. CASE ScoreAttempt(The)
  <2>1. now' = now
    BY <1>4 DEF ScoreAttempt
  <2>2. CASE r.state = "SCORING"
    <3>1. Stays(r, CompleteTest(r)) /\ CompleteTest(r).sheet = r.sheet
      BY <1>1, <2>2, GradedFine
    <3>2. CompleteTest(r) \in Row
      BY <3>1, FineRow DEF Stays, Onward
    <3>3. rows' = [rows EXCEPT ![The] = CompleteTest(r)]
      BY <1>4, <2>2 DEF ScoreAttempt
    <3> QED  BY <1>1, <2>1, <3>1, <3>2, <3>3, TheIsRow
  <2>3. CASE r.state # "SCORING"
    BY <1>1, <1>4, <2>1, <2>3, StaysSame DEF ScoreAttempt
  <2> QED  BY <2>2, <2>3
<1> QED  BY <1>2, <1>3, <1>4 DEF ServerStep

LEMMA ServerStepFine ==
  ASSUME WebInv, ServerStep
  PROVE  WebInv'
<1>1. PICK V : Circulates(V)
  BY DEF WebInv
<1> DEFINE W == V \cup {View(rows'[The].version, rows'[The].module)}
<1>2. /\ Onward(rows[The], rows'[The]) /\ rows' \in [Attempts -> Row] /\ now' \in Nat
  BY ServerStepRow DEF Stays
<1>3. under' = under /\ tab' = tab /\ net' = net /\ stored' = stored
  BY DEF ServerStep, webVars
<1> HIDE DEF W
<1>4. tab' \in [Tabs -> Screens]
  BY <1>3 DEF WebInv
<1> QED  BY <1>1, <1>2, <1>3, <1>4, StepFine DEF W

LEMMA WebInvInductive ==
  ASSUME WebInv, [WebNext]_allVars
  PROVE  WebInv'
<1>1. CASE UNCHANGED allVars
  <2>1. UNCHANGED <<rows, now, under, tab, net, stored>>
    BY <1>1 DEF allVars, serverVars, vars, webVars
  <2> QED  BY <2>1 DEF WebInv, Circulates
<1>2. ASSUME NEW t \in under.screens, TabStep(t), UNCHANGED under
      PROVE  WebInv'
  <2>1. t \in Tabs
    BY <1>2, WebAssumption DEF WebInv
  <2> QED  BY <1>2, <2>1, TabStepFine
<1>3. ASSUME NEW q \in net, NetStep(q), UNCHANGED under
      PROVE  WebInv'
  BY <1>3, ComputeFine, LookupFine, RespondFine, HearFine, LossFine DEF NetStep
<1> QED  BY <1>1, <1>2, <1>3, ServerStepFine DEF WebNext

(* The row when the tabs open: Module 1, begun.                            *)
LEMMA OpeningRow ==
  LET r == StartAttempt(FreshRow, 0)
  IN RowFine(r) /\ r.module = 1 /\ r.sheet = [k \in Modules |-> {}]
<1> DEFINE begun == [FreshRow EXCEPT !.state = "MODULE_1_ACTIVE"]
           r == StartAttempt(FreshRow, 0)
<1>1. FreshRow \in Row /\ FreshRow.state = "NOT_STARTED" /\ ~FreshRow.completed
  BY FreshRowOK DEF RowOK, Sound
<1>2. r = SetActiveModule(Bumped(begun), 1, 0)
  BY <1>1 DEF StartAttempt, Running
<1>3. /\ begun \in Row /\ begun.state = "MODULE_1_ACTIVE" /\ ~begun.completed
      /\ begun.startedAt = [k \in Modules |-> NoTime] /\ begun.sheet = [k \in Modules |-> {}]
  BY <1>1 DEF FreshRow, BlankRow, Row, States, Running
<1> HIDE DEF begun
<1> DEFINE bumped == Bumped(begun)
<1>4. /\ bumped \in Row /\ bumped.state = "MODULE_1_ACTIVE" /\ ~bumped.completed
      /\ bumped.startedAt = [k \in Modules |-> NoTime] /\ bumped.sheet = [k \in Modules |-> {}]
  BY <1>3, BumpedRow, BumpedFields
<1> HIDE DEF bumped
<1> DEFINE opened == SetActiveModule(bumped, 1, 0)
<1>0. 1 \in Modules /\ 0 \in Nat
  BY DEF Modules
<1>5. /\ opened \in Row /\ opened.state = bumped.state /\ opened.completed = bumped.completed
      /\ opened.module = 1 /\ opened.startedAt[1] # NoTime /\ opened.sheet = bumped.sheet
  BY <1>0, <1>4, SetActiveModuleRow
<1>6. opened.startedAt[2] = NoTime
  <2>1. bumped.startedAt \in [Modules -> Nat \cup {NoTime}]
    BY <1>4, RowFields
  <2>2. opened.startedAt = [bumped.startedAt EXCEPT ![1] = Anchor(bumped, 1, 0)]
    BY <1>4 DEF SetActiveModule, Row
  <2> QED  BY <1>4, <2>1, <2>2 DEF Modules
<1>7. r = opened
  BY <1>2 DEF bumped
<1> HIDE DEF opened
<1> HIDE DEF r
<1>8. RowFine(r)
  BY <1>4, <1>5, <1>6, <1>7
     DEF RowFine, RowOK, Sound, Placed, AuditClean, Running, Finished, ModuleOf, LegacySubmitted, NoModule
<1> QED  BY <1>4, <1>5, <1>7, <1>8 DEF r

LEMMA InitRow ==
  ASSUME WebInit
  PROVE  /\ rows \in [Attempts -> Row] /\ rows[The] = StartAttempt(FreshRow, 0)
         /\ RowFine(rows[The]) /\ rows[The].module = 1
         /\ \A k \in Modules : rows[The].sheet[k] = {}
<1>1. rows[The] = StartAttempt(FreshRow, 0)
  BY TheIsRow DEF WebInit
<1>2. BlankRow \in Row
  BY DEF BlankRow, Row, Sheets, Modules, States, Absent, NoModule, NoTime, NoScore
<1>3. StartAttempt(FreshRow, 0) \in Row
  BY OpeningRow, FineRow
<1>4. rows \in [Attempts -> Row]
  BY <1>2, <1>3 DEF WebInit
<1> QED  BY <1>1, <1>4, OpeningRow

(* What a tab shows when it opens.                                         *)
LEMMA InitScreen ==
  ASSUME WebInit, NEW t \in Tabs
  PROVE  /\ tab[t] \in Screens /\ tab[t].version = rows[The].version /\ tab[t].module = 1
         /\ tab[t].hydrated = 1 /\ tab[t].draft = {} /\ tab[t].submit = {} /\ tab[t].done = {}
<1>1. tab[t] = Opened(Snapshot(rows[The]))
  BY DEF WebInit
<1>2. /\ rows[The].version \in Nat
      /\ Snapshot(rows[The]).version = rows[The].version
      /\ Snapshot(rows[The]).module = 1 /\ Snapshot(rows[The]).sheet = {}
  BY InitRow, FineRow, SnapshotType DEF Modules, NoModule
<1> QED  BY <1>1, <1>2 DEF Opened, Screens, Places, Modules

LEMMA InitWebInv ==
  ASSUME WebInit
  PROVE  WebInv
<1> DEFINE r == rows[The]
           V == {View(r.version, r.module)}
<1>1. r.version \in Nat /\ r.module = 1 /\ r.module \in Places /\ RowFine(r)
  BY InitRow, FineRow
<1>2. Latest(V, r)
  <2>1. \A v \in V : v.version = r.version /\ v.module = r.module
    BY DEF View
  <2>2. Rank(r.module) <= Rank(r.module) /\ r.version <= r.version
    BY <1>1, RankRange
  <2> QED  BY <1>1, <2>1, <2>2 DEF Latest
<1>3. \A t \in Tabs : ScreenFine(tab[t], V)
  BY <1>1, InitScreen DEF ScreenFine
<1>4. Circulates(V)
  BY <1>2, <1>3 DEF Circulates, WebInit
<1>5. tab \in [Tabs -> Screens]
  <2>1. tab = [t \in Tabs |-> tab[t]]
    BY DEF WebInit
  <2> QED  BY <2>1, InitScreen
<1> QED  BY <1>1, <1>4, <1>5, InitRow DEF WebInv, WebInit

LEMMA WebInvHolds == WebSpec => []WebInv
<1>1. WebInit => WebInv
  BY InitWebInv
<1>2. WebInv /\ [WebNext]_allVars => WebInv'
  BY WebInvInductive
<1> QED  BY <1>1, <1>2, PTL DEF WebSpec

-----------------------------------------------------------------------------
(* Module 2 is never scored without having been sat.                       *)

(* What a step of the website makes of the row: a request was served, or   *)
(* the row was graded, or it stayed.                                       *)
LEMMA WebStepRow ==
  ASSUME WebInv, [WebNext]_allVars
  PROVE  \/ \E q \in net : Compute(q) /\ Effect(q, rows[The], rows'[The])
         \/ Stays(rows[The], rows'[The]) /\ rows'[The].sheet = rows[The].sheet
<1>1. UNCHANGED rows => Stays(rows[The], rows'[The]) /\ rows'[The].sheet = rows[The].sheet
  BY StaysSame DEF WebInv
<1>2. CASE UNCHANGED allVars
  BY <1>1, <1>2 DEF allVars, serverVars, vars
<1>3. ASSUME NEW t, TabStep(t) PROVE UNCHANGED rows
  BY <1>3 DEF TabStep, Edit, Autosave, Leave, HandInModule, RetryHandIn, GiveUp, Poll, Watchdog,
              serverVars, vars
<1>4. ASSUME NEW q \in net, NetStep(q), ~Compute(q) PROVE UNCHANGED rows
  BY <1>4 DEF NetStep, LoseConnection, DropFlush, Lookup, Respond, Hear, serverVars, vars
<1> QED  BY <1>1, <1>2, <1>3, <1>4, ComputedRow, ServerStepRow DEF WebNext

(* ExamWeb: the step that hands in Module 2 serves a submit that names it, *)
(* or a save after its time was up.                                        *)
THEOREM Module2NotSkippedHolds == WebSpec => Module2NotSkipped
<1>1. ASSUME WebInv, [WebNext]_allVars,
             rows[The].state = "MODULE_2_ACTIVE", rows'[The].state = "SCORING"
      PROVE  \/ Expired(rows[The], now)
             \/ \E q \in net : q.kind = "submit" /\ q.target = 2 /\ q.phase = "missed"
  <2> DEFINE r == rows[The]
             s == rows'[The]
  <2>1. RowFine(r) /\ r.module = 2
    BY <1>1, FineRow DEF WebInv
  <2>2. ASSUME RowFine(s) PROVE s.module = NoModule
    BY <1>1, <2>2, FineRow DEF Finished
  <2>3. CASE Stays(r, s)
    BY <2>1, <2>2, <2>3 DEF Stays, Onward, NoModule
  <2>4. ASSUME NEW q \in net, Compute(q), Effect(q, r, s)
        PROVE  Expired(r, now) \/ (q.kind = "submit" /\ q.target = 2 /\ q.phase = "missed")
    <3>1. q.phase = "missed"
      BY <2>4 DEF Compute
    <3>2. s # r
      BY <1>1
    <3>3. ~Stays(r, s)
      BY <2>1, <2>2 DEF Stays, Onward, NoModule
    <3> QED  BY <2>1, <2>4, <3>1, <3>2, <3>3 DEF Effect
  <2> QED  BY <1>1, <2>3, <2>4, WebStepRow
<1>2. WebInv /\ [WebNext]_allVars =>
        [rows[The].state = "MODULE_2_ACTIVE" /\ rows'[The].state = "SCORING" =>
           \/ Expired(rows[The], now)
           \/ \E q \in net : q.kind = "submit" /\ q.target = 2 /\ q.phase = "missed"]_allVars
  BY <1>1
<1> QED  BY <1>2, WebInvHolds, PTL DEF WebSpec, Module2NotSkipped

-----------------------------------------------------------------------------
(* What the runner provokes is one of ExamServer's steps.                  *)

LEMMA ComputeServes ==
  ASSUME WebInv, NEW q \in net, Compute(q)
  PROVE  WebView(The)
<1>1. PICK V : Circulates(V)
  BY DEF WebInv
<1>2. RequestFine(q, V, rows[The]) /\ RequestOK(q) /\ Latest(V, rows[The])
  BY <1>1 DEF Circulates, RequestFine
<1>3. /\ q.target \in Modules \cup {NoModule} /\ q.answers \in Bodies
      /\ q.kind \in {"save", "flush", "submit"}
  BY <1>2 DEF RequestOK, InTransit, Bodies
<1>4. CASE q.kind = "submit"
  <2>1. ViewRequest(The, SubmitModule(rows[The], q.target, q.answers))
    BY <1>4 DEF Compute
  <2>2. Submit(The)
    BY <1>3, <2>1 DEF Submit
  <2> QED  BY <2>2, WebAssumption DEF WebView
<1>5. CASE q.kind # "submit"
  <2>1. ViewRequest(The, SaveAttempt(rows[The], q.expected, q.answers))
    BY <1>5 DEF Compute
  <2>2. q.expected \in 0 .. rows[The].version \cup {NoVersion}
    <3>1. q.kind = "flush" => q.expected = NoVersion
      BY <1>2 DEF RequestOK
    <3>2. q.kind # "flush" => q.expected \in Nat /\ View(q.expected, q.target) \in V
      BY <1>2 DEF RequestOK, RequestFine
    <3>3. q.kind # "flush" => q.expected <= rows[The].version
      BY <1>2, <3>2 DEF Latest, View
    <3>4. rows[The].version \in Nat
      BY FineRow DEF WebInv
    <3> QED  BY <3>1, <3>2, <3>3, <3>4
  <2>3. Save(The)
    BY <1>3, <2>1, <2>2 DEF Save
  <2> QED  BY <2>3, WebAssumption DEF WebView
<1> QED  BY <1>4, <1>5

(* ExamWeb: whatever tabs, network, idempotency layer and worker do, the   *)
(* server does one of ExamServer's steps or none: no request reaches it    *)
(* that ExamServer does not allow for.                                     *)
THEOREM ServesExamServerHolds == WebSpec => ServesExamServer
<1>1. ASSUME WebInv, [WebNext]_allVars
      PROVE  UNCHANGED vars \/ Next
  <2>1. CASE UNCHANGED allVars
    BY <2>1 DEF allVars, serverVars
  <2>2. ASSUME NEW t, TabStep(t) PROVE UNCHANGED vars
    BY <2>2 DEF TabStep, Edit, Autosave, Leave, HandInModule, RetryHandIn, GiveUp, Poll, Watchdog,
                serverVars
  <2>3. ASSUME NEW q \in net, NetStep(q), ~Compute(q) PROVE UNCHANGED vars
    BY <2>3 DEF NetStep, LoseConnection, DropFlush, Lookup, Respond, Hear, serverVars
  <2>4. ASSUME NEW q \in net, Compute(q) PROVE Next
    BY <1>1, <2>4, ComputeServes, TheIsRow DEF Next
  <2>5. CASE ServerStep
    BY <2>5, TheIsRow DEF ServerStep, Next, Background
  <2> QED  BY <1>1, <2>1, <2>2, <2>3, <2>4, <2>5 DEF WebNext
<1>2. WebInv /\ [WebNext]_allVars => [UNCHANGED vars \/ Next]_vars
  BY <1>1
<1> QED  BY <1>2, WebInvHolds, PTL DEF WebSpec, ServesExamServer

LEMMA WebInitServerInv ==
  ASSUME WebInit
  PROVE  ServerInv
<1> DEFINE opened == StartAttempt(FreshRow, 0)
<1>1. /\ BlankRow.state = Absent /\ BlankRow.completed = FALSE /\ BlankRow.score = NoScore
      /\ FreshRow.completed = FALSE /\ FreshRow.score = NoScore /\ RowOK(FreshRow)
  BY FreshRowOK DEF FreshRow, BlankRow
<1>2. RowOK(opened) /\ ~opened.completed /\ opened.score = NoScore
  <2>1. Keeps(FreshRow, opened)
    BY <1>1, StartAttemptKeeps
  <2> QED  BY <1>1, <2>1 DEF Keeps
<1>3. rows = [a \in Attempts |-> IF a = The THEN opened ELSE BlankRow]
  BY DEF WebInit
<1> HIDE DEF opened
<1>4. TypeOK
  <2>1. rows \in [Attempts -> Row]
    BY InitRow
  <2> QED  BY <2>1 DEF WebInit, TypeOK, Outcomes
<1>5. Sound(BlankRow)
  BY <1>1 DEF Sound, Placed, Absent, LegacySubmitted
<1>6. Sounds
  BY <1>2, <1>3, <1>5 DEF Sounds, RowOK
<1>7. GradedOnce
  BY <1>1, <1>2, <1>3 DEF GradedOnce, WebInit
<1> QED  BY <1>4, <1>6, <1>7 DEF ServerInv

(* ExamWeb: a sitting taken on the website is graded once, on the answers  *)
(* it holds, and announced once: ExamServer's invariant, carried over by   *)
(* the theorem above to the tabs, the network and the idempotency layer.   *)
THEOREM GradedOnceOnTheWebHolds == WebSpec => []GradedOnce
<1>1. WebInit => ServerInv
  BY WebInitServerInv
<1>2. ServerInv /\ [UNCHANGED vars \/ Next]_vars => ServerInv'
  BY ServerInvInductive
<1>3. ServerInv => GradedOnce
  BY DEF ServerInv
<1> QED  BY <1>1, <1>2, <1>3, ServesExamServerHolds, PTL DEF WebSpec, ServesExamServer

-----------------------------------------------------------------------------
(* One answer for one key.                                                 *)

LEMMA ReplayKept ==
  ASSUME ReplayAgrees, stored' = stored, \A q \in net' : q \in net \/ q.phase # "answered"
  PROVE  ReplayAgrees'
  BY DEF ReplayAgrees

LEMMA AnswerAgrees ==
  ASSUME ReplayAgrees, NEW q \in net, q \in InTransit, NEW k \in stored', k.key = q.key,
         k \in Answers, stored \subseteq stored',
         \A j, l \in stored' : j.key = l.key => j = l, Answer(q, k)
  PROVE  ReplayAgrees'
<1> DEFINE answered == [q EXCEPT !.phase = "answered", !.status = k.status,
                                 !.snapshot = k.snapshot]
<1>1. /\ answered.key = k.key /\ answered.status = k.status /\ answered.snapshot = k.snapshot
  BY DEF InTransit
<1>2. k = [key |-> k.key, status |-> k.status, snapshot |-> k.snapshot]
  BY DEF Answers
<1>3. Replace(q, answered) \/ net' = net \ {q}
  BY DEF Answer
<1> HIDE DEF answered
<1>4. \A p \in net' : p \in net \/ p = answered
  BY <1>3 DEF Replace
<1>5. ASSUME NEW p \in net', p.phase = "answered"
      PROVE  \E l \in stored' : l = [key |-> p.key, status |-> p.status, snapshot |-> p.snapshot]
  <2>1. CASE p \in net
    BY <1>5, <2>1 DEF ReplayAgrees
  <2>2. CASE p = answered
    BY <1>1, <1>2, <2>2
  <2> QED  BY <1>4, <2>1, <2>2
<1> QED  BY <1>5 DEF ReplayAgrees

LEMMA ReplayAgreesInductive ==
  ASSUME WebInv, ReplayAgrees, [WebNext]_allVars
  PROVE  ReplayAgrees'
<1>1. PICK V : Circulates(V)
  BY DEF WebInv
<1>2. /\ \A q \in net : q \in InTransit
      /\ \A k \in stored : k \in Answers
  BY <1>1 DEF Circulates, RequestFine, RequestOK, AnswerFine, AnswerOK
<1>3. CASE UNCHANGED allVars
  BY <1>3, ReplayKept DEF allVars, webVars
<1>4. ASSUME NEW t, TabStep(t) PROVE ReplayAgrees'
  <2>1. stored' = stored
    BY <1>4 DEF TabStep, Edit, Autosave, Leave, HandInModule, RetryHandIn, GiveUp, Poll, Watchdog
  <2>2. \A q \in net' : q \in net \/ q.phase # "answered"
    BY <1>4 DEF TabStep, Edit, Autosave, Leave, HandInModule, RetryHandIn, GiveUp, Poll, Watchdog,
                Send, Sent, Submission
  <2> QED  BY <2>1, <2>2, ReplayKept
<1>5. ASSUME NEW q \in net, LoseConnection(q) \/ DropFlush(q) \/ Hear(q) \/ Compute(q)
      PROVE  ReplayAgrees'
  <2>1. stored' = stored
    BY <1>5 DEF LoseConnection, DropFlush, Hear, Compute
  <2>2. q \in InTransit
    BY <1>2
  <2>3. CASE LoseConnection(q)
    BY <2>1, <2>2, <2>3, ReplayKept DEF LoseConnection, Replace, InTransit
  <2>4. CASE DropFlush(q)
    BY <2>1, <2>4, ReplayKept DEF DropFlush
  <2>5. CASE Hear(q)
    BY <2>1, <2>5, ReplayKept DEF Hear
  <2>6. CASE Compute(q)
    <3> DEFINE mid(st) == [q EXCEPT !.phase = "computed", !.status = st]
    <3>1. net' = net \ {q} \/ \E st : net' = (net \ {q}) \cup {mid(st)}
      BY <2>6 DEF Compute, Replace
    <3>2. \A st : mid(st).phase = "computed"
      BY <2>2 DEF InTransit
    <3> HIDE DEF mid
    <3> QED  BY <2>1, <3>1, <3>2, ReplayKept
  <2> QED  BY <1>5, <2>3, <2>4, <2>5, <2>6
<1>6. ASSUME NEW q \in net, Lookup(q) PROVE ReplayAgrees'
  <2>1. stored' = stored
    BY <1>6 DEF Lookup
  <2>2. CASE Replace(q, [q EXCEPT !.phase = "missed"])
    <3>1. \A p \in net' : p \in net \/ p.phase # "answered"
      BY <1>2, <2>2 DEF Replace, InTransit
    <3> QED  BY <2>1, <3>1, ReplayKept
  <2>3. CASE \E k \in stored : k.key = q.key /\ Answer(q, k)
    BY <1>2, <2>1, <2>3, AnswerAgrees DEF ReplayAgrees
  <2> QED  BY <1>6, <2>2, <2>3 DEF Lookup
<1>7. ASSUME NEW q \in net, Respond(q) PROVE ReplayAgrees'
  <2> DEFINE fresh == [key |-> q.key, status |-> q.status, snapshot |-> Snapshot(rows[The])]
  <2>1. fresh.key = q.key /\ fresh \in Answers
    <3>1. AnswerFine(fresh, V)
      BY <1>1, <1>7, FreshIsFine DEF Respond
    <3> QED  BY <3>1 DEF AnswerFine, AnswerOK
  <2>2. \/ ~Known(q.key) /\ stored' = stored \cup {fresh} /\ Answer(q, fresh)
        \/ stored' = stored /\ \E k \in stored : k.key = q.key /\ Answer(q, k)
    BY <1>7 DEF Respond
  <2> HIDE DEF fresh
  <2>3. CASE ~Known(q.key) /\ stored' = stored \cup {fresh} /\ Answer(q, fresh)
    <3>1. \A j, l \in stored' : j.key = l.key => j = l
      BY <2>1, <2>3 DEF Known, ReplayAgrees
    <3> QED  BY <1>2, <2>1, <2>3, <3>1, AnswerAgrees
  <2>4. CASE stored' = stored /\ \E k \in stored : k.key = q.key /\ Answer(q, k)
    BY <1>2, <2>4, AnswerAgrees DEF ReplayAgrees
  <2> QED  BY <2>2, <2>3, <2>4
<1>8. CASE ServerStep
  BY <1>8, ReplayKept DEF ServerStep, webVars
<1> QED  BY <1>3, <1>4, <1>5, <1>6, <1>7, <1>8 DEF WebNext, NetStep

(* ExamWeb: under one idempotency key there is one answer, whoever missed  *)
(* the lookup, computed, and was first to store.                           *)
THEOREM ReplayAgreesHolds == WebSpec => []ReplayAgrees
<1>1. WebInit => ReplayAgrees
  BY DEF WebInit, ReplayAgrees
<1>2. WebInv /\ ReplayAgrees /\ [WebNext]_allVars => ReplayAgrees'
  BY ReplayAgreesInductive
<1> QED  BY <1>1, <1>2, WebInvHolds, PTL DEF WebSpec

-----------------------------------------------------------------------------
(* Whose answers are on which sheet.                                       *)

LEMMA OwnStep ==
  ASSUME OwnAnswers, ~under.rough, under' = under, OwnRow(rows'[The]),
         \A t \in Tabs : tab'[t] = tab[t] \/ OwnScreen(tab'[t]),
         \A q \in net' : q \in net \/ OwnRequest(q),
         \A k \in stored' : k \in stored \/ Own(k.snapshot.module, k.snapshot.sheet)
  PROVE  OwnAnswers'
<1>1. \A t \in Tabs : OwnScreen(tab'[t])
  BY DEF OwnAnswers, OwnScreen
<1>2. \A q \in net' : OwnRequest(q)
  BY DEF OwnAnswers
<1>3. \A k \in stored' : Own(k.snapshot.module, k.snapshot.sheet)
  BY DEF OwnAnswers
<1> QED  BY <1>1, <1>2, <1>3 DEF OwnAnswers

LEMMA OwnShown ==
  ASSUME NEW x, OwnScreen(x), NEW s, Own(s.module, s.sheet), NEW y, Showing(x, y, s),
         y.submit \subseteq x.submit
  PROVE  OwnScreen(y)
  BY DEF OwnScreen, Showing

LEMMA OwnServed ==
  ASSUME NEW r, RowFine(r), OwnRow(r)
  PROVE  Own(Snapshot(r).module, Snapshot(r).sheet)
<1>1. r.module \in Places
  BY FineRow
<1> QED  BY <1>1, SnapshotType DEF Own, OwnRow, Places

LEMMA OwnTabStep ==
  ASSUME WebInv, OwnAnswers, ~under.rough, NEW t \in Tabs, TabStep(t), UNCHANGED under
  PROVE  OwnAnswers'
<1> DEFINE x == tab[t]
           s == Snapshot(rows[The])
<1>1. /\ tab \in [Tabs -> Screens] /\ x \in Screens /\ OwnScreen(x) /\ OwnRow(rows[The])
  BY DEF WebInv, OwnAnswers
<1>2. x.hydrated \in Modules /\ x.draft \subseteq Question[x.hydrated]
  BY <1>1, ScreenFields DEF OwnScreen, Own, Modules, NoModule
<1>3. rows' = rows
  BY DEF TabStep, Edit, Autosave, Leave, HandInModule, RetryHandIn, GiveUp, Poll, Watchdog,
         serverVars, vars
<1>4. s \in Snapshots /\ s.version \in Nat /\ Own(s.module, s.sheet)
  <2>1. rows[The].version \in Nat
    BY FineRow DEF WebInv
  <2> QED  BY <1>1, <2>1, SnapshotType, OwnServed DEF WebInv
<1>5. ASSUME NEW y, y \in Screens, OwnScreen(y), tab' = [tab EXCEPT ![t] = y], stored' = stored,
             \A q \in net' : q \in net \/ OwnRequest(q)
      PROVE  OwnAnswers'
  <2>1. \A u \in Tabs : tab'[u] = tab[u] \/ OwnScreen(tab'[u])
    BY <1>1, <1>5, OneScreen
  <2> QED  BY <1>1, <1>3, <1>5, <2>1, OwnStep
<1>6. Answering(x) => Own(x.module, x.draft)
  BY <1>2 DEF Answering, Own
<1>7. CASE Edit(t)
  <2>1. PICK question \in Question[x.hydrated] : tab' = [tab EXCEPT ![t].draft = @ \cup {question}]
    BY <1>7 DEF Edit
  <2> DEFINE y == [x EXCEPT !.draft = @ \cup {question}]
  <2>2. question \in AllQuestions
    BY <1>2 DEF AllQuestions, Modules
  <2>3. y \in Screens /\ y.hydrated = x.hydrated /\ y.draft = x.draft \cup {question}
        /\ y.submit = x.submit
    BY <1>1, <2>2 DEF Screens
  <2>4. tab' = [tab EXCEPT ![t] = y]
    BY <2>1
  <2> HIDE DEF y
  <2>5. OwnScreen(y)
    BY <1>1, <1>2, <2>3 DEF OwnScreen, Own
  <2> QED  BY <1>5, <1>7, <2>3, <2>4, <2>5 DEF Edit
<1>8. CASE Autosave(t)
  <2> DEFINE y == [x EXCEPT !.saving = TRUE]
             q == Sent(t, "save", Key("save", x.module, x.version, 0), x.version, x.module, x.draft)
  <2>1. y \in Screens /\ OwnScreen(y)
    BY <1>1 DEF Screens, OwnScreen
  <2>2. q.kind = "save" /\ q.target = x.module /\ q.answers = x.draft /\ q.phase = "sent"
    BY DEF Sent
  <2>3. OwnRequest(q)
    BY <1>6, <1>8, <2>2 DEF OwnRequest, Autosave
  <2>4. tab' = [tab EXCEPT ![t] = y] /\ net' = net \cup {q}
    BY <1>8 DEF Autosave, Send
  <2> HIDE DEF q, y
  <2> QED  BY <1>5, <1>8, <2>1, <2>3, <2>4 DEF Autosave
<1>9. CASE HandInModule(t)
  <2> DEFINE p == [module |-> x.module, version |-> x.version, try |-> 0, answers |-> x.draft]
             y == [x EXCEPT !.submit = {p}]
  <2>1. x.module \in Modules /\ x.version \in Nat /\ x.draft \subseteq AllQuestions
    BY <1>1, <1>9, ScreenFields DEF HandInModule, Answering, Places
  <2>2. p \in HandIns /\ p.module = x.module /\ p.answers = x.draft
    BY <2>1 DEF HandIns
  <2>3. tab' = [tab EXCEPT ![t] = y] /\ net' = net \cup {Submission(t, p)}
    BY <1>9 DEF HandInModule, Send
  <2>4. Own(p.module, p.answers)
    BY <1>6, <1>9, <2>2 DEF HandInModule
  <2> HIDE DEF p
  <2>5. y \in Screens /\ y.submit = {p} /\ y.hydrated = x.hydrated /\ y.draft = x.draft
    BY <1>1, <2>2 DEF Screens
  <2> HIDE DEF y
  <2>6. OwnScreen(y)
    BY <1>1, <2>4, <2>5 DEF OwnScreen
  <2>7. OwnRequest(Submission(t, p))
    BY <2>4 DEF OwnRequest, Submission, Sent
  <2> QED  BY <1>5, <1>9, <2>3, <2>5, <2>6, <2>7 DEF HandInModule
<1>10. CASE RetryHandIn(t)
  <2>1. PICK p \in x.submit :
          LET again == [p EXCEPT !.try = @ + 1]
          IN Send(Submission(t, again)) /\ tab' = [tab EXCEPT ![t].submit = {again}]
    BY <1>10 DEF RetryHandIn
  <2> DEFINE again == [p EXCEPT !.try = @ + 1]
             y == [x EXCEPT !.submit = {again}]
  <2>2. p \in HandIns
    BY <1>1, ScreenFields
  <2>3. again \in HandIns /\ again.module = p.module /\ again.answers = p.answers
    BY <2>2 DEF HandIns
  <2>4. net' = net \cup {Submission(t, again)} /\ tab' = [tab EXCEPT ![t] = y]
    BY <2>1 DEF Send
  <2> HIDE DEF again
  <2>5. Own(again.module, again.answers)
    BY <1>1, <2>3 DEF OwnScreen
  <2>6. y \in Screens /\ y.submit = {again} /\ y.hydrated = x.hydrated /\ y.draft = x.draft
    BY <1>1, <2>3 DEF Screens
  <2> HIDE DEF y
  <2>7. OwnScreen(y)
    BY <1>1, <2>5, <2>6 DEF OwnScreen
  <2>8. OwnRequest(Submission(t, again))
    BY <2>5 DEF OwnRequest, Submission, Sent
  <2> QED  BY <1>5, <1>10, <2>4, <2>6, <2>7, <2>8 DEF RetryHandIn
<1>11. CASE GiveUp(t)
  <2> DEFINE y == Settled(x, s)
             z == [Applied(x, s) EXCEPT !.submit = {}]
  <2>1. tab' = [tab EXCEPT ![t] = y] \/ tab' = [tab EXCEPT ![t] = z]
    BY <1>11 DEF GiveUp
  <2>2. Showing(x, y, s) /\ y.submit = {} /\ Showing(x, z, s) /\ z.submit = {}
    BY <1>1, <1>4, SettledScreen, UnlockedScreen
  <2> HIDE DEF y, z
  <2>3. y \in Screens /\ OwnScreen(y) /\ z \in Screens /\ OwnScreen(z)
    BY <1>1, <1>4, <2>2, OwnShown DEF Showing
  <2> QED  BY <1>5, <1>11, <2>1, <2>3 DEF GiveUp
<1>12. CASE Poll(t)
  <2>1. Applied(x, s) \in Screens /\ OwnScreen(Applied(x, s))
    BY <1>1, <1>4, AppliedScreen DEF OwnScreen
  <2> QED  BY <1>5, <1>12, <2>1 DEF Poll
<1> QED  BY <1>7, <1>8, <1>9, <1>10, <1>11, <1>12 DEF TabStep, Leave, Watchdog

(* A save that is not stale names the module being sat.                    *)
LEMMA UnstaleSave ==
  ASSUME NEW V, NEW r, RowFine(r), Latest(V, r), NEW q, RequestFine(q, V, r), q.kind = "save",
         ~Stale(r, q.expected)
  PROVE  q.target = r.module
<1>1. q.target \in Modules /\ q.expected \in Nat /\ View(q.expected, q.target) \in V
  BY DEF RequestFine, RequestOK, InTransit
<1>2. q.expected = r.version
  BY <1>1 DEF Stale, NoVersion
<1>3. Rank(q.target) <= Rank(r.module) /\ Rank(r.module) <= Rank(q.target)
  BY <1>1, <1>2 DEF Latest, View
<1>4. r.module \in Places /\ q.target \in Places
  BY <1>1, FineRow DEF Places
<1>5. Rank(q.target) \in 1 .. 3 /\ Rank(r.module) \in 1 .. 3
  BY <1>4, RankRange
<1>6. Rank(q.target) = Rank(r.module)
  BY <1>3, <1>5
<1> QED  BY <1>4, <1>6, RankRange

LEMMA OwnCompute ==
  ASSUME WebInv, OwnAnswers, ~under.rough, NEW q \in net, Compute(q), UNCHANGED under
  PROVE  OwnAnswers'
<1> DEFINE r == rows[The]
           s == rows'[The]
<1>1. PICK V : Circulates(V)
  BY DEF WebInv
<1>2. RequestFine(q, V, r) /\ Latest(V, r) /\ RowFine(r) /\ q \in InTransit
  BY <1>1 DEF Circulates, WebInv, RequestFine, RequestOK
<1>3. OwnRow(r) /\ OwnRequest(q) /\ Effect(q, r, s)
  BY ComputedRow DEF OwnAnswers
<1>4. OwnRow(s)
  <2>1. CASE s = r
    BY <1>3, <2>1
  <2>2. CASE /\ r.module = q.target
             /\ \A k \in Modules : k # r.module => s.sheet[k] = r.sheet[k]
             /\ s.sheet[r.module] \subseteq r.sheet[r.module] \cup q.answers
    BY <1>3, <2>2 DEF OwnRow, OwnRequest, Own
  <2>3. q.kind # "submit" => q.kind = "save"
    BY <1>2, <1>3 DEF OwnRequest, InTransit
  <2> QED  BY <1>2, <1>3, <2>1, <2>2, <2>3, UnstaleSave DEF Effect, Stays, Handed, Onward
<1>5. net' = (net \ {q}) \cup {[q EXCEPT !.phase = "computed", !.status = Served(q).status]}
  BY <1>3 DEF Compute, Replace, Served, OwnRequest
<1>6. OwnRequest([q EXCEPT !.phase = "computed", !.status = Served(q).status])
  BY <1>2, <1>3 DEF OwnRequest, InTransit
<1> QED  BY <1>4, <1>5, <1>6, OwnStep DEF Compute

LEMMA OwnAnswered ==
  ASSUME NEW q \in net, q \in InTransit, OwnRequest(q), NEW k,
         Own(k.snapshot.module, k.snapshot.sheet), Answer(q, k)
  PROVE  \A p \in net' : p \in net \/ OwnRequest(p)
<1> DEFINE answered == [q EXCEPT !.phase = "answered", !.status = k.status,
                                 !.snapshot = k.snapshot]
<1>1. OwnRequest(answered)
  BY DEF OwnRequest, InTransit
<1>2. Replace(q, answered) \/ net' = net \ {q}
  BY DEF Answer
<1> HIDE DEF answered
<1> QED  BY <1>1, <1>2 DEF Replace

LEMMA OwnNetStep ==
  ASSUME WebInv, OwnAnswers, ~under.rough, NEW q \in net, NetStep(q), UNCHANGED under
  PROVE  OwnAnswers'
<1>1. PICK V : Circulates(V)
  BY DEF WebInv
<1>2. /\ q \in InTransit /\ q.tab \in Tabs /\ RequestOK(q) /\ OwnRequest(q)
      /\ tab[q.tab] \in Screens /\ OwnScreen(tab[q.tab]) /\ OwnRow(rows[The])
      /\ tab \in [Tabs -> Screens]
      /\ \A k \in stored : Own(k.snapshot.module, k.snapshot.sheet)
  <2>1. RequestOK(q) /\ q \in InTransit /\ q.tab \in Tabs
    BY <1>1 DEF Circulates, RequestFine, RequestOK, InTransit
  <2> QED  BY <2>1 DEF WebInv, OwnAnswers
<1>3. ~Compute(q) => rows' = rows
  BY DEF NetStep, LoseConnection, DropFlush, Lookup, Respond, Hear, serverVars, vars
<1>4. CASE LoseConnection(q) \/ DropFlush(q)
  <2> DEFINE lost == [q EXCEPT !.heard = FALSE]
             y == [tab[q.tab] EXCEPT !.saving = FALSE]
  <2>1. OwnRequest(lost)
    BY <1>2 DEF OwnRequest, InTransit
  <2>2. Replace(q, lost) \/ net' = net \ {q}
    BY <1>4 DEF LoseConnection, DropFlush
  <2> HIDE DEF lost
  <2>3. \A p \in net' : p \in net \/ OwnRequest(p)
    BY <2>1, <2>2 DEF Replace
  <2>4. y \in Screens /\ OwnScreen(y)
    BY <1>2 DEF Screens, OwnScreen
  <2>5. tab' = tab \/ tab' = [tab EXCEPT ![q.tab] = y]
    BY <1>4 DEF LoseConnection, DropFlush
  <2> HIDE DEF y
  <2>6. \A u \in Tabs : tab'[u] = tab[u] \/ OwnScreen(tab'[u])
    BY <1>2, <2>4, <2>5, OneScreen
  <2>7. rows' = rows /\ stored' = stored
    BY <1>4 DEF LoseConnection, DropFlush, serverVars, vars
  <2> QED  BY <1>2, <2>3, <2>6, <2>7, OwnStep
<1>5. CASE Lookup(q)
  <2>1. rows' = rows /\ stored' = stored /\ tab' = tab
    BY <1>5 DEF Lookup, serverVars, vars
  <2>2. \A p \in net' : p \in net \/ OwnRequest(p)
    <3>1. CASE Replace(q, [q EXCEPT !.phase = "missed"])
      BY <1>2, <3>1 DEF Replace, OwnRequest, InTransit
    <3>2. CASE \E k \in stored : k.key = q.key /\ Answer(q, k)
      BY <1>2, <3>2, OwnAnswered
    <3> QED  BY <1>5, <3>1, <3>2 DEF Lookup
  <2> QED  BY <1>2, <2>1, <2>2, OwnStep
<1>6. CASE Respond(q)
  <2> DEFINE fresh == [key |-> q.key, status |-> q.status, snapshot |-> Snapshot(rows[The])]
  <2>1. Own(fresh.snapshot.module, fresh.snapshot.sheet)
    BY <1>2, OwnServed DEF WebInv
  <2>2. \/ stored' = stored \cup {fresh} /\ Answer(q, fresh)
        \/ stored' = stored /\ \E k \in stored : k.key = q.key /\ Answer(q, k)
    BY <1>6 DEF Respond
  <2> HIDE DEF fresh
  <2>3. \A p \in net' : p \in net \/ OwnRequest(p)
    BY <1>2, <2>1, <2>2, OwnAnswered
  <2>4. \A k \in stored' : k \in stored \/ Own(k.snapshot.module, k.snapshot.sheet)
    BY <2>1, <2>2
  <2>5. rows' = rows /\ tab' = tab
    BY <1>6 DEF Respond, serverVars, vars
  <2> QED  BY <1>2, <2>3, <2>4, <2>5, OwnStep
<1>7. CASE Hear(q)
  <2> DEFINE x == tab[q.tab]
             y == Heard(x, q)
  <2>1. /\ q.phase = "answered" /\ q.snapshot \in Snapshots /\ q.snapshot.version \in Nat
        /\ Own(q.snapshot.module, q.snapshot.sheet)
    BY <1>2, <1>7 DEF Hear, OwnRequest, RequestOK, InTransit
  <2>2. /\ y \in Screens /\ y.submit \subseteq x.submit
        /\ Showing(x, y, q.snapshot) \/ (y.hydrated = x.hydrated /\ y.draft = x.draft)
    BY <1>2, <2>1, HeardScreen, SettledScreen
  <2>3. tab' = [tab EXCEPT ![q.tab] = y] /\ net' = net \ {q} /\ rows' = rows /\ stored' = stored
    BY <1>7 DEF Hear, serverVars, vars
  <2> HIDE DEF y
  <2>4. OwnScreen(y)
    <3>1. CASE Showing(x, y, q.snapshot)
      BY <1>2, <2>1, <2>2, <3>1, OwnShown
    <3>2. CASE y.hydrated = x.hydrated /\ y.draft = x.draft
      BY <1>2, <2>2, <3>2 DEF OwnScreen
    <3> QED  BY <2>2, <3>1, <3>2
  <2>5. \A u \in Tabs : tab'[u] = tab[u] \/ OwnScreen(tab'[u])
    BY <1>2, <2>2, <2>3, <2>4, OneScreen
  <2> QED  BY <1>2, <2>3, <2>5, OwnStep
<1> QED  BY <1>4, <1>5, <1>6, <1>7, OwnCompute DEF NetStep

LEMMA OwnAnswersInductive ==
  ASSUME WebInv, OwnAnswers, [WebNext]_allVars
  PROVE  OwnAnswers'
<1>1. under' = under
  BY DEF WebNext, ServerStep, webVars, allVars
<1>2. CASE under.rough
  BY <1>1, <1>2 DEF OwnAnswers
<1>3. CASE ~under.rough
  <2>1. CASE UNCHANGED allVars
    <3>1. UNCHANGED <<rows, tab, net, stored>>
      BY <2>1 DEF allVars, serverVars, vars, webVars
    <3> QED  BY <1>1, <1>3, <3>1, OwnStep DEF OwnAnswers
  <2>2. CASE ServerStep
    <3>1. OwnRow(rows'[The]) /\ UNCHANGED <<tab, net, stored>>
      BY <1>3, <2>2, ServerStepRow DEF OwnAnswers, OwnRow, ServerStep, webVars
    <3> QED  BY <1>1, <1>3, <3>1, OwnStep
  <2>3. ASSUME NEW t \in under.screens, TabStep(t) PROVE OwnAnswers'
    <3>1. t \in Tabs
      BY <2>3, WebAssumption DEF WebInv
    <3> QED  BY <1>1, <1>3, <2>3, <3>1, OwnTabStep
  <2> QED  BY <1>1, <1>3, <2>1, <2>2, <2>3, OwnNetStep DEF WebNext
<1> QED  BY <1>2, <1>3

(* ExamWeb: where the conditions are not rough, a module's sheet holds     *)
(* answers to its own questions only: a late save is refused, because the  *)
(* version it expects tells of the module it was meant for.                *)
THEOREM SheetsHoldOwnQuestionsHolds == WebSpec => []SheetsHoldOwnQuestions
<1>1. WebInit => OwnAnswers
  <2>1. ASSUME WebInit PROVE OwnAnswers
    <3>1. OwnRow(rows[The])
      BY <2>1, InitRow DEF OwnRow, Own
    <3>2. \A t \in Tabs : OwnScreen(tab[t])
      BY <2>1, InitScreen DEF OwnScreen, Own
    <3> QED  BY <2>1, <3>1, <3>2 DEF OwnAnswers, WebInit
  <2> QED  BY <2>1
<1>2. WebInv /\ OwnAnswers /\ [WebNext]_allVars => OwnAnswers'
  BY OwnAnswersInductive
<1>3. OwnAnswers => SheetsHoldOwnQuestions
  BY DEF OwnAnswers, SheetsHoldOwnQuestions, OwnRow, Own, Modules, NoModule
<1> QED  BY <1>1, <1>2, <1>3, WebInvHolds, PTL DEF WebSpec

-----------------------------------------------------------------------------
(* What became of a hand-in: one tab, calm conditions, time not up.        *)

(* The tab is not ahead of the row, and what it is served it shows.        *)
LEMMA NotAhead ==
  ASSUME NEW V, NEW r, RowFine(r), Latest(V, r), NEW x, x.version \in Nat, x.module \in Places,
         View(x.version, x.module) \in V
  PROVE  /\ x.version <= r.version
         /\ Rank(x.module) <= Rank(r.module)
         /\ Accepts(x, Snapshot(r))
<1>1. /\ x.version <= r.version
      /\ Rank(x.module) <= Rank(r.module)
  BY DEF Latest, View
<1>2. r.module \in Places /\ Snapshot(r).version = r.version /\ Snapshot(r).module = r.module
  BY FineRow, SnapshotType
<1>3. r.module # NoModule /\ x.module # NoModule => r.module >= x.module
  BY <1>1, <1>2, RankRange
<1> QED  BY <1>1, <1>2, <1>3 DEF Accepts

(* A tab with nothing pending follows the row when it hears a served row;  *)
(* so does one that hears of the row as it is.                             *)
LEMMA HearingFollows ==
  ASSUME NEW V, NEW r, RowFine(r), Latest(V, r),
         NEW x, x.version \in Nat, x.module \in Places, View(x.version, x.module) \in V,
         NEW s, s.version \in Nat, s.module \in Places, View(s.version, s.module) \in V,
         \/ x.module # NoModule => r.module = x.module
         \/ s.module = r.module,
         NEW y, Accepts(x, s) => y.module = s.module, ~Accepts(x, s) => y.module = x.module
  PROVE  y.module # NoModule => r.module = y.module
<1>1. /\ Rank(x.module) <= Rank(r.module)
      /\ Rank(s.module) <= Rank(r.module)
      /\ x.version <= s.version => Rank(x.module) <= Rank(s.module)
      /\ s.version <= x.version => Rank(s.module) <= Rank(x.module)
  BY DEF Latest, View
<1>2. r.module \in Places
  BY FineRow
<1>3. /\ Rank(r.module) \in 1 .. 3 /\ Rank(x.module) \in 1 .. 3 /\ Rank(s.module) \in 1 .. 3
      /\ Rank(NoModule) = 3
  BY <1>2, RankRange DEF Rank
<1>4. CASE Accepts(x, s)
  <2>1. Rank(x.module) <= Rank(s.module)
    BY <1>1, <1>4 DEF Accepts
  <2>2. CASE s.module = r.module
    BY <1>4, <2>2
  <2>3. CASE x.module # NoModule /\ r.module = x.module
    <3>1. Rank(s.module) = Rank(r.module)
      BY <1>1, <1>3, <2>1, <2>3
    <3> QED  BY <1>2, <1>4, <3>1, RankRange
  <2>4. CASE x.module = NoModule
    <3>1. Rank(s.module) = Rank(NoModule)
      BY <1>3, <2>1, <2>4
    <3> QED  BY <1>4, <3>1, RankRange DEF Places
  <2> QED  BY <2>2, <2>3, <2>4
<1>5. CASE ~Accepts(x, s)
  <2>1. CASE x.module # NoModule => r.module = x.module
    BY <1>5, <2>1
  <2>2. CASE s.module = r.module
    <3>1. CASE s.version <= x.version
      <4>1. Rank(x.module) = Rank(r.module)
        BY <1>1, <1>3, <2>2, <3>1
      <4> QED  BY <1>2, <1>5, <4>1, RankRange
    <3>2. CASE ~(s.version <= x.version)
      <4>1. s.module # NoModule /\ x.module # NoModule /\ ~(s.module >= x.module)
        BY <1>5, <3>2 DEF Accepts
      <4> QED  BY <1>1, <2>2, <4>1, RankRange
    <3> QED  BY <3>1, <3>2
  <2> QED  BY <2>1, <2>2
<1> QED  BY <1>4, <1>5

(* No answer to a submit is stored while its module is being sat.          *)
LEMMA NoneStored ==
  ASSUME NEW V, WebInv, Circulates(V), NEW k \in stored, NEW m \in Modules,
         Names(k.key, "submit", m)
  PROVE  rows[The].module # m
<1>1. Beyond(k.snapshot, m) /\ View(k.snapshot.version, k.snapshot.module) \in V
      /\ k.snapshot.version \in Nat /\ k.snapshot.module \in Places
  BY DEF Circulates, AnswerFine, AnswerOK, Answers, Snapshots
<1>2. Rank(k.snapshot.module) <= Rank(rows[The].module)
  BY <1>1, NotAhead DEF WebInv, Circulates
<1>3. rows[The].module \in Places
  BY FineRow DEF WebInv
<1> QED  BY <1>1, <1>2, <1>3, RankRange DEF Beyond, Modules, NoModule

(* Nothing happens to the hand-in.                                         *)
LEMMA CalmKept ==
  ASSUME NEW t \in Tabs, CalmFor(t), rows'[The] = rows[The], stored' = stored,
         NEW y, tab'[t] = y, y.submit = tab[t].submit, y.done = tab[t].done,
         \A u \in Tabs : u # t => tab'[u] = tab[u],
         Following(y, rows[The]),
         \A q \in net' : q \in net \/ (q.tab = t /\ Expected(q) /\ ~Awaits(t, q))
  PROVE  CalmFor(t)'
<1>1. \A q \in net' : Awaits(t, q) => q \in net
  OBVIOUS
<1>2. OnePending(t)'
  BY <1>1 DEF CalmFor, OnePending
<1>3. Accounted(tab[t], rows[The])'
  BY DEF CalmFor, Accounted
<1>4. Fresh(t)'
  BY <1>1 DEF CalmFor, Fresh, Pending
<1>5. \A q \in net' : q.tab = t /\ Expected(q)
  BY DEF CalmFor
<1>6. \A u \in Tabs \ {t} : tab'[u].done = {}
  BY DEF CalmFor
<1> QED  BY <1>2, <1>3, <1>4, <1>5, <1>6 DEF CalmFor

(* A hand-in is sent, or sent again.                                       *)
LEMMA CalmSent ==
  ASSUME NEW t \in Tabs, CalmFor(t), rows'[The] = rows[The], stored' = stored,
         NEW y, NEW p, tab'[t] = y, y.submit = {p}, y.done = tab[t].done,
         \A u \in Tabs : u # t => tab'[u] = tab[u],
         NEW q, net' = net \cup {q}, q.tab = t, q.heard, q.phase = "sent", Tells(q, p),
         \A o \in net : ~Awaits(t, o),
         rows[The].module = p.module \/ Arrived(rows[The], p),
         p.module \in Modules,
         \A k \in stored : Names(k.key, "submit", p.module) => k.snapshot.module = rows[The].module
  PROVE  CalmFor(t)'
<1>1. \A o \in net' : Awaits(t, o) => o = q
  OBVIOUS
<1>2. OnePending(t)'
  BY <1>1 DEF OnePending
<1>3. Accounted(tab[t], rows[The])'
  BY DEF CalmFor, Accounted, Following
<1>4. Fresh(t)'
  BY <1>1 DEF Fresh, Pending
<1>5. \A o \in net' : o.tab = t /\ Expected(o)
  BY DEF CalmFor, Expected
<1>6. \A u \in Tabs \ {t} : tab'[u].done = {}
  BY DEF CalmFor
<1> QED  BY <1>2, <1>3, <1>4, <1>5, <1>6 DEF CalmFor

(* A hand-in is settled or given up.                                       *)
LEMMA CalmSettled ==
  ASSUME NEW t \in Tabs, CalmFor(t), rows'[The] = rows[The], stored' = stored,
         NEW y, tab'[t] = y, y.submit = {}, \A d \in y.done : Arrived(rows[The], d),
         Following(y, rows[The]),
         \A u \in Tabs : u # t => tab'[u] = tab[u],
         net' \subseteq net, \A o \in net' : ~Awaits(t, o)
  PROVE  CalmFor(t)'
<1>2. OnePending(t)'
  BY DEF OnePending
<1>3. Accounted(tab[t], rows[The])'
  BY DEF CalmFor, Accounted
<1>4. Fresh(t)'
  BY DEF Fresh, Pending
<1>5. \A o \in net' : o.tab = t /\ Expected(o)
  BY DEF CalmFor
<1>6. \A u \in Tabs \ {t} : tab'[u].done = {}
  BY DEF CalmFor
<1> QED  BY <1>2, <1>3, <1>4, <1>5, <1>6 DEF CalmFor

LEMMA CalmTabStep ==
  ASSUME WebInv, NEW t \in Tabs, CalmFor(t), ~under.rough, TabStep(t), UNCHANGED under
  PROVE  CalmFor(t)'
<1> DEFINE x == tab[t]
           r == rows[The]
           s == Snapshot(r)
<1>1. PICK V : Circulates(V)
  BY DEF WebInv
<1>2. /\ tab \in [Tabs -> Screens] /\ x \in Screens /\ ScreenFine(x, V)
      /\ RowFine(r) /\ Latest(V, r) /\ \A k \in stored : AnswerFine(k, V)
  BY <1>1 DEF WebInv, Circulates
<1>3. /\ x.version \in Nat /\ x.module \in Places /\ View(x.version, x.module) \in V
      /\ x.draft \subseteq AllQuestions /\ x.submit \subseteq HandIns
  BY <1>2, ScreenFields DEF ScreenFine
<1>4. /\ s \in Snapshots /\ s.version \in Nat /\ s.module = r.module /\ Accepts(x, s)
  BY <1>1, <1>2, <1>3, ServedFine, NotAhead, SnapshotType
<1>5. /\ \A q \in net : Awaits(t, q) => \E p \in x.submit : Tells(q, p)
      /\ Accounted(x, r)
      /\ \A p, o \in x.submit : p = o
  BY DEF CalmFor, OnePending
<1>6. /\ rows' = rows /\ stored' = stored
  BY DEF TabStep, Edit, Autosave, Leave, HandInModule, RetryHandIn, GiveUp, Poll, Watchdog,
         serverVars, vars
<1>7. ASSUME NEW y \in Screens, tab' = [tab EXCEPT ![t] = y]
      PROVE  tab'[t] = y /\ \A u \in Tabs : u # t => tab'[u] = tab[u]
  BY <1>2, <1>7, OneScreen
<1>8. CASE Edit(t)
  <2>1. PICK question \in Question[x.hydrated] : tab' = [tab EXCEPT ![t].draft = @ \cup {question}]
    BY <1>8 DEF Edit
  <2> DEFINE y == [x EXCEPT !.draft = @ \cup {question}]
  <2>2. question \in AllQuestions
    BY <1>2, ScreenFields DEF AllQuestions, Modules
  <2>3. /\ y \in Screens /\ y.submit = x.submit /\ y.done = x.done /\ y.module = x.module
    BY <1>2, <2>2 DEF Screens
  <2>4. tab' = [tab EXCEPT ![t] = y]
    BY <2>1
  <2> HIDE DEF y
  <2>5. Following(y, r)
    BY <1>5, <2>3 DEF Accounted, Following
  <2> QED  BY <1>6, <1>7, <1>8, <2>3, <2>4, <2>5, CalmKept DEF Edit
<1>9. CASE Autosave(t)
  <2> DEFINE y == [x EXCEPT !.saving = TRUE]
             q == Sent(t, "save", Key("save", x.module, x.version, 0), x.version, x.module, x.draft)
  <2>1. /\ y \in Screens /\ y.submit = x.submit /\ y.done = x.done /\ y.module = x.module
    BY <1>2 DEF Screens
  <2>2. q.tab = t /\ Expected(q) /\ ~Awaits(t, q)
    BY DEF Sent, Expected, Awaits
  <2>3. tab' = [tab EXCEPT ![t] = y] /\ net' = net \cup {q}
    BY <1>9 DEF Autosave, Send
  <2> HIDE DEF q, y
  <2>4. Following(y, r)
    BY <1>5, <2>1 DEF Accounted, Following
  <2> QED  BY <1>6, <1>7, <2>1, <2>2, <2>3, <2>4, CalmKept
<1>10. CASE HandInModule(t)
  <2> DEFINE p == [module |-> x.module, version |-> x.version, try |-> 0, answers |-> x.draft]
             y == [x EXCEPT !.submit = {p}]
             q == Submission(t, p)
  <2>1. x.module \in Modules /\ x.module # NoModule /\ x.submit = {}
    BY <1>3, <1>10 DEF HandInModule, Answering, Places
  <2>2. p \in HandIns /\ p.module = x.module
    BY <1>3, <2>1 DEF HandIns
  <2>3. tab' = [tab EXCEPT ![t] = y] /\ net' = net \cup {q}
    BY <1>10 DEF HandInModule, Send
  <2> HIDE DEF p
  <2>4. y \in Screens /\ y.submit = {p} /\ y.done = x.done
    BY <1>2, <2>2 DEF Screens
  <2>5. q.tab = t /\ q.heard /\ q.phase = "sent" /\ Tells(q, p)
    BY DEF Submission, Sent, Tells
  <2> HIDE DEF q, y
  <2>6. \A o \in net : ~Awaits(t, o)
    BY <1>5, <2>1
  <2>7. r.module = p.module
    BY <1>5, <2>1, <2>2 DEF Accounted, Following
  <2>8. \A k \in stored : ~Names(k.key, "submit", p.module)
    BY <1>1, <2>1, <2>2, <2>7, NoneStored
  <2> QED  BY <1>6, <1>7, <2>1, <2>2, <2>3, <2>4, <2>5, <2>6, <2>7, <2>8, CalmSent
<1>11. CASE RetryHandIn(t)
  <2>1. PICK p \in x.submit :
          LET again == [p EXCEPT !.try = @ + 1]
          IN Send(Submission(t, again)) /\ tab' = [tab EXCEPT ![t].submit = {again}]
    BY <1>11 DEF RetryHandIn
  <2> DEFINE again == [p EXCEPT !.try = @ + 1]
             y == [x EXCEPT !.submit = {again}]
             q == Submission(t, again)
  <2>2. p \in HandIns
    BY <1>3
  <2>3. again \in HandIns /\ again.module = p.module /\ again.answers = p.answers
        /\ p.module \in Modules
    BY <2>2 DEF HandIns
  <2>4. net' = net \cup {q} /\ tab' = [tab EXCEPT ![t] = y]
    BY <2>1 DEF Send
  <2> HIDE DEF again
  <2>5. y \in Screens /\ y.submit = {again} /\ y.done = x.done
    BY <1>2, <2>3 DEF Screens
  <2>6. q.tab = t /\ q.heard /\ q.phase = "sent" /\ Tells(q, again)
    BY DEF Submission, Sent, Tells
  <2> HIDE DEF q, y
  <2>7. \A o \in net : ~Awaits(t, o)
    BY <1>11 DEF RetryHandIn, Awaited, Awaits
  <2>8. r.module = again.module \/ Arrived(r, again)
    BY <1>5, <2>3 DEF Accounted, Arrived
  <2>9. \A k \in stored : Names(k.key, "submit", again.module) => k.snapshot.module = r.module
    BY <2>3 DEF CalmFor, Fresh, Pending
  <2> QED  BY <1>6, <1>7, <2>3, <2>4, <2>5, <2>6, <2>7, <2>8, <2>9, CalmSent
<1>12. CASE GiveUp(t)
  <2> DEFINE y == Settled(x, s)
             z == [Applied(x, s) EXCEPT !.submit = {}]
  <2>1. /\ tab' = [tab EXCEPT ![t] = y] \/ tab' = [tab EXCEPT ![t] = z]
        /\ net' = net /\ \A o \in net : ~Awaits(t, o)
    BY <1>12 DEF GiveUp, Awaited, Awaits
  <2>2. /\ Showing(x, y, s) /\ y.submit = {}
        /\ \A d \in y.done : \/ d \in x.done
                             \/ \E p \in x.submit : /\ p.module # s.module
                                                    /\ d.module = p.module
                                                    /\ d.answers = p.answers
    BY <1>2, <1>4, SettledScreen
  <2>0. Showing(x, z, s) /\ z.submit = {} /\ z.done = x.done
    BY <1>2, <1>4, UnlockedScreen
  <2> HIDE DEF y, z
  <2>3. \A d \in y.done \cup z.done : Arrived(r, d)
    BY <1>4, <1>5, <2>0, <2>2 DEF Accounted, Arrived
  <2>4. y \in Screens /\ z \in Screens /\ y.module = r.module /\ z.module = r.module
    BY <1>4, <2>0, <2>2 DEF Showing
  <2> QED  BY <1>6, <1>7, <2>0, <2>1, <2>2, <2>3, <2>4, CalmSettled DEF Following
<1>13. CASE Poll(t)
  <2> DEFINE y == Applied(x, s)
  <2>1. /\ y \in Screens /\ y.submit = x.submit /\ y.done = x.done /\ y.module = r.module
    BY <1>2, <1>4, AppliedScreen
  <2>2. tab' = [tab EXCEPT ![t] = y] /\ net' = net
    BY <1>13 DEF Poll
  <2> HIDE DEF y
  <2> QED  BY <1>6, <1>7, <2>1, <2>2, CalmKept DEF Following
<1> QED  BY <1>8, <1>9, <1>10, <1>11, <1>12, <1>13 DEF TabStep, Leave, Watchdog

(* A request goes on its way, or is answered, and the row stays.           *)
LEMMA CalmPassed ==
  ASSUME NEW t \in Tabs, CalmFor(t), rows'[The] = rows[The], tab' = tab, NEW q \in net,
         NEW o, o.tab = q.tab, o.kind = q.kind, o.target = q.target, o.answers = q.answers,
         o.expected = q.expected, o.heard = q.heard, q.heard,
         net' = (net \ {q}) \cup {o},
         \A m \in Modules : Pending(t, m) /\ Awaits(t, o) /\ o.target = m /\ o.phase = "answered" =>
           o.snapshot.module = rows[The].module,
         \A k \in stored' : k \in stored \/ k.snapshot.module = rows[The].module
  PROVE  CalmFor(t)'
<1>1. Awaits(t, o) <=> Awaits(t, q)
  BY DEF Awaits
<1>2. OnePending(t)'
  BY <1>1 DEF CalmFor, OnePending, Tells
<1>3. Accounted(tab[t], rows[The])'
  BY DEF CalmFor, Accounted, Following
<1>4. Fresh(t)'
  BY <1>1 DEF CalmFor, Fresh, Pending
<1>5. \A p \in net' : p.tab = t /\ Expected(p)
  BY DEF CalmFor, Expected
<1> QED  BY <1>2, <1>3, <1>4, <1>5 DEF CalmFor

(* An answer nobody hears: only the store changes.                         *)
LEMMA CalmUnheard ==
  ASSUME NEW t \in Tabs, CalmFor(t), rows'[The] = rows[The], tab' = tab, net' \subseteq net,
         \A k \in stored' : k \in stored \/ k.snapshot.module = rows[The].module
  PROVE  CalmFor(t)'
<1>2. OnePending(t)'
  BY DEF CalmFor, OnePending
<1>3. Accounted(tab[t], rows[The])'
  BY DEF CalmFor, Accounted, Following
<1>4. Fresh(t)'
  BY DEF CalmFor, Fresh, Pending
<1> QED  BY <1>2, <1>3, <1>4 DEF CalmFor

LEMMA CalmAnswered ==
  ASSUME NEW t \in Tabs, CalmFor(t), rows'[The] = rows[The], tab' = tab,
         NEW q \in net, q \in InTransit, RequestOK(q), NEW k \in stored', k.key = q.key,
         k \in stored \/ k.snapshot.module = rows[The].module,
         \A l \in stored' : l \in stored \/ l.snapshot.module = rows[The].module,
         Answer(q, k)
  PROVE  CalmFor(t)'
<1> DEFINE o == [q EXCEPT !.phase = "answered", !.status = k.status, !.snapshot = k.snapshot]
<1>1. CASE ~q.heard
  BY <1>1, CalmUnheard DEF Answer
<1>2. CASE q.heard
  <2>1. /\ o.tab = q.tab /\ o.kind = q.kind /\ o.target = q.target /\ o.answers = q.answers
        /\ o.expected = q.expected /\ o.heard = q.heard /\ o.snapshot = k.snapshot
    BY DEF InTransit
  <2>2. net' = (net \ {q}) \cup {o}
    BY <1>2 DEF Answer, Replace
  <2> HIDE DEF o
  <2>3. ASSUME NEW m \in Modules, Pending(t, m), Awaits(t, o), o.target = m
        PROVE  o.snapshot.module = rows[The].module
    <3>1. Names(k.key, "submit", m)
      BY <2>1, <2>3 DEF Awaits, RequestOK
    <3> QED  BY <2>1, <2>3, <3>1 DEF CalmFor, Fresh
  <2> QED  BY <1>2, <2>1, <2>2, <2>3, CalmPassed
<1> QED  BY <1>1, <1>2

LEMMA ArrivedStays ==
  ASSUME NEW r, RowFine(r), NEW s, Onward(r, s), NEW p, p.module \in Modules, Arrived(r, p)
  PROVE  Arrived(s, p)
<1>1. r.module \in Places /\ s.module \in Places
  BY FineRow DEF Onward
<1>2. Rank(r.module) \in 1 .. 3 /\ Rank(s.module) \in 1 .. 3
  BY <1>1, RankRange
<1>3. Rank(r.module) > p.module /\ Rank(s.module) >= Rank(r.module)
  BY DEF Arrived, Beyond, Onward
<1>4. p.module # r.module
  BY <1>1, <1>3, RankRange DEF Modules, NoModule
<1> QED  BY <1>2, <1>3, <1>4 DEF Arrived, Beyond, Onward, Modules

(* The row changes, in the module it is in.                                *)
LEMMA CalmWritten ==
  ASSUME WebInv, NEW t \in Tabs, CalmFor(t), Stays(rows[The], rows'[The]),
         tab' = tab, stored' = stored, NEW q, NEW o,
         \/ net' \subseteq net
         \/ /\ q \in net /\ net' = (net \ {q}) \cup {o} /\ o.phase = "computed"
            /\ o.tab = q.tab /\ o.kind = q.kind /\ o.target = q.target /\ o.answers = q.answers
            /\ o.expected = q.expected /\ o.heard = q.heard
  PROVE  CalmFor(t)'
<1> DEFINE x == tab[t]
           r == rows[The]
           s == rows'[The]
<1>1. x.submit \subseteq HandIns /\ x.done \subseteq Payloads
  BY ScreenFields DEF WebInv
<1>2. \A p \in x.submit \cup x.done : Arrived(r, p) => Arrived(s, p)
  <2>1. \A p \in x.submit \cup x.done : p.module \in Modules
    BY <1>1 DEF HandIns, Payloads
  <2> QED  BY <2>1, ArrivedStays DEF WebInv, Stays
<1>3. s.module = r.module
  BY DEF Stays
<1>4. Accounted(x, s)
  BY <1>2, <1>3 DEF CalmFor, Accounted, Following
<1>5. q \in net /\ o.tab = q.tab /\ o.kind = q.kind /\ o.heard = q.heard
        => (Awaits(t, o) <=> Awaits(t, q))
  BY DEF Awaits
<1>6. OnePending(t)'
  <2>1. CASE net' \subseteq net
    BY <2>1 DEF CalmFor, OnePending
  <2>2. CASE ~(net' \subseteq net)
    BY <1>5, <2>2 DEF CalmFor, OnePending, Tells
  <2> QED  BY <2>1, <2>2
<1>7. Fresh(t)'
  BY <1>3 DEF CalmFor, Fresh, Pending
<1>8. \A p \in net' : p.tab = t /\ Expected(p)
  BY DEF CalmFor, Expected
<1> QED  BY <1>4, <1>6, <1>7, <1>8 DEF CalmFor

(* The hand-in arrives.                                                    *)
LEMMA CalmHandedIn ==
  ASSUME WebInv, NEW t \in Tabs, CalmFor(t), NEW q \in net, q.kind = "submit", q.heard,
         rows[The].module = q.target, Handed(rows[The], rows'[The], q.answers), q.target \in Modules,
         tab' = tab, stored' = stored, NEW o, net' = (net \ {q}) \cup {o}, o.phase = "computed",
         o.tab = q.tab, o.kind = q.kind, o.target = q.target, o.answers = q.answers,
         o.expected = q.expected, o.heard = q.heard
  PROVE  CalmFor(t)'
<1> DEFINE x == tab[t]
           r == rows[The]
           s == rows'[The]
<1>1. PICK V : Circulates(V)
  BY DEF WebInv
<1>2. x.submit \subseteq HandIns /\ x.done \subseteq Payloads
  BY ScreenFields DEF WebInv
<1>3. Awaits(t, q) /\ Awaits(t, o)
  BY DEF CalmFor, Awaits
<1>4. PICK p \in x.submit : Tells(q, p)
  BY <1>3 DEF CalmFor, OnePending
<1>5. \A a \in x.submit : a = p
  BY DEF CalmFor, OnePending
<1>6. Arrived(s, p)
  BY <1>4 DEF Tells, Arrived, Handed
<1>7. \A d \in x.done : Arrived(s, d)
  <2>1. \A d \in x.done : d.module \in Modules /\ Arrived(r, d)
    BY <1>2 DEF Payloads, CalmFor, Accounted
  <2> QED  BY <2>1, ArrivedStays DEF WebInv, Handed
<1>8. Accounted(x, s)
  BY <1>5, <1>6, <1>7 DEF Accounted, Following
<1>9. \A a \in net' : Awaits(t, a) => a = o
  BY <1>3 DEF CalmFor, OnePending
<1>10. OnePending(t)'
  BY <1>4, <1>5, <1>9 DEF OnePending, Tells
<1>11. Fresh(t)'
  <2>1. \A m \in Modules : Pending(t, m) => m = r.module
    BY <1>4, <1>5 DEF Pending, Tells
  <2>2. \A k \in stored, m \in Modules : Names(k.key, "submit", m) => r.module # m
    BY <1>1, NoneStored
  <2> QED  BY <1>9, <2>1, <2>2 DEF Fresh, Pending
<1>12. \A a \in net' : a.tab = t /\ Expected(a)
  BY DEF CalmFor, Expected
<1> QED  BY <1>8, <1>10, <1>11, <1>12 DEF CalmFor

LEMMA CalmCompute ==
  ASSUME WebInv, NEW t \in Tabs, CalmFor(t), ~Expired(rows[The], now), NEW q \in net, Compute(q)
  PROVE  CalmFor(t)'
<1> DEFINE r == rows[The]
           s == rows'[The]
           o == [q EXCEPT !.phase = "computed", !.status = Served(q).status]
<1>1. q \in InTransit /\ q.target \in Modules
  BY DEF WebInv, Circulates, RequestFine, RequestOK, InTransit
<1>2. Effect(q, r, s) /\ tab' = tab /\ stored' = stored /\ q.phase = "missed"
  BY ComputedRow DEF Compute
<1>3. q.heard
  BY <1>2 DEF CalmFor, Expected
<1>4. IF q.kind = "flush" THEN net' = net \ {q} ELSE net' = (net \ {q}) \cup {o}
  BY DEF Compute, Served, Replace
<1>5. /\ o.phase = "computed" /\ o.tab = q.tab /\ o.kind = q.kind /\ o.target = q.target
      /\ o.answers = q.answers /\ o.expected = q.expected /\ o.heard = q.heard
  BY <1>1 DEF InTransit
<1> HIDE DEF o
<1>6. CASE Stays(r, s)
  BY <1>2, <1>4, <1>5, <1>6, CalmWritten
<1>7. CASE ~Stays(r, s)
  <2>1. q.kind = "submit" /\ r.module = q.target /\ Handed(r, s, q.answers)
    BY <1>2, <1>7, StaysSame DEF Effect, WebInv
  <2> QED  BY <1>1, <1>2, <1>3, <1>4, <1>5, <2>1, CalmHandedIn
<1> QED  BY <1>6, <1>7

LEMMA CalmHear ==
  ASSUME WebInv, NEW t \in Tabs, CalmFor(t), NEW q \in net, Hear(q)
  PROVE  CalmFor(t)'
<1> DEFINE x == tab[t]
           r == rows[The]
           s == q.snapshot
           y == Heard(x, q)
<1>1. PICK V : Circulates(V)
  BY DEF WebInv
<1>2. /\ tab \in [Tabs -> Screens] /\ x \in Screens /\ ScreenFine(x, V) /\ x.submit \subseteq HandIns
      /\ RowFine(r) /\ Latest(V, r) /\ RequestFine(q, V, r) /\ RequestOK(q)
  BY <1>1, ScreenFields DEF WebInv, Circulates, RequestFine
<1>3. /\ x.version \in Nat /\ x.module \in Places /\ View(x.version, x.module) \in V
  BY <1>2, ScreenFields DEF ScreenFine
<1>4. q.phase = "answered" /\ q.heard /\ q.tab = t /\ q.target \in Modules
  BY <1>2 DEF Hear, CalmFor, RequestOK, InTransit
<1>5. /\ s \in Snapshots /\ s.version \in Nat /\ s.module \in Places
      /\ View(s.version, s.module) \in V
  BY <1>2, <1>4 DEF RequestFine, RequestOK, InTransit, Snapshots
<1>6. /\ tab' = [tab EXCEPT ![t] = y] /\ net' = net \ {q} /\ rows' = rows /\ stored' = stored
  BY <1>4 DEF Hear, serverVars, vars
<1>7. /\ y \in Screens
      /\ \/ /\ Showing(x, y, s) \/ (y.version = x.version /\ y.module = x.module
                                     /\ y.hydrated = x.hydrated /\ y.draft = x.draft)
            /\ y.submit = x.submit /\ y.done = x.done
         \/ /\ q.kind = "submit"
            /\ \E p \in x.submit : p.module = q.target /\ p.version = q.expected
            /\ y = Settled(x, s)
  BY <1>2, <1>4, HeardScreen
<1> HIDE DEF y
<1>8. tab'[t] = y /\ \A u \in Tabs : u # t => tab'[u] = tab[u]
  BY <1>2, <1>6, <1>7, OneScreen
<1>9. Following(x, r) /\ Accounted(x, r)
  BY DEF CalmFor, Accounted
<1>10. CASE y.submit = x.submit /\ y.done = x.done
            /\ (Showing(x, y, s) \/ y.module = x.module)
  <2>1. Following(y, r)
    <3>1. CASE y.module = x.module
      BY <1>9, <1>10, <3>1 DEF Following
    <3>2. CASE Showing(x, y, s)
      <4>1. SUFFICES ASSUME x.submit = {} PROVE y.module # NoModule => r.module = y.module
        BY <1>10 DEF Following
      <4>2. x.module # NoModule => r.module = x.module
        BY <1>9, <4>1 DEF Following
      <4>3. /\ Accepts(x, s) => y.module = s.module
            /\ ~Accepts(x, s) => y.module = x.module
        BY <3>2 DEF Showing
      <4> QED  BY <1>2, <1>3, <1>5, <4>2, <4>3, HearingFollows
    <3> QED  BY <1>10, <3>1, <3>2
  <2> QED  BY <1>6, <1>8, <1>10, <2>1, CalmKept
<1>11. CASE q.kind = "submit" /\ y = Settled(x, s)
  <2>1. Awaits(t, q) /\ \A o \in net' : ~Awaits(t, o)
    BY <1>4, <1>6, <1>11 DEF Awaits, CalmFor, OnePending
  <2>2. PICK p \in x.submit : Tells(q, p)
    BY <2>1 DEF CalmFor, OnePending
  <2>3. \A a \in x.submit : a = p
    BY DEF CalmFor, OnePending
  <2>4. s.module = r.module
    BY <1>4, <2>1, <2>2 DEF CalmFor, Fresh, Pending, Tells
  <2>5. /\ Showing(x, y, s) /\ y.submit = {}
        /\ \A d \in y.done : \/ d \in x.done
                             \/ \E a \in x.submit : /\ a.module # s.module
                                                    /\ d.module = a.module
                                                    /\ d.answers = a.answers
    BY <1>2, <1>5, <1>11, SettledScreen
  <2>6. \A d \in y.done : Arrived(r, d)
    BY <1>9, <2>4, <2>5 DEF Accounted, Arrived
  <2>7. /\ Accepts(x, s) => y.module = s.module
        /\ ~Accepts(x, s) => y.module = x.module
    BY <2>5 DEF Showing
  <2>8. Following(y, r)
    BY <1>2, <1>3, <1>5, <2>4, <2>7, HearingFollows DEF Following
  <2> QED  BY <1>6, <1>8, <2>1, <2>5, <2>6, <2>8, CalmSettled
<1> QED  BY <1>7, <1>10, <1>11

LEMMA CalmNetStep ==
  ASSUME WebInv, ~under.rough, NEW t \in Tabs, CalmFor(t), ~Expired(rows[The], now),
         NEW q \in net, NetStep(q)
  PROVE  CalmFor(t)'
<1>1. /\ q \in InTransit /\ RequestOK(q) /\ q.tab = t
      /\ tab \in [Tabs -> Screens] /\ tab[t] \in Screens
  BY DEF WebInv, Circulates, RequestFine, RequestOK, CalmFor
<1>2. CASE LoseConnection(q) \/ DropFlush(q)
  <2> DEFINE lost == [q EXCEPT !.heard = FALSE]
             y == [tab[t] EXCEPT !.saving = FALSE]
  <2>1. lost.tab = t /\ lost.phase = q.phase /\ ~lost.heard
    BY <1>1 DEF InTransit
  <2>2. \/ (q.phase = "computed" \/ under.rough) /\ net' = (net \ {q}) \cup {lost}
        \/ net' = net \ {q}
    BY <1>2 DEF LoseConnection, DropFlush, Replace
  <2>3. y \in Screens /\ y.submit = tab[t].submit /\ y.done = tab[t].done /\ y.module = tab[t].module
    BY <1>1 DEF Screens
  <2>4. tab' = tab \/ tab' = [tab EXCEPT ![t] = y]
    BY <1>1, <1>2 DEF LoseConnection, DropFlush
  <2>5. rows' = rows /\ stored' = stored
    BY <1>2 DEF LoseConnection, DropFlush, serverVars, vars
  <2>6. \A o \in net' : o \in net \/ (o.tab = t /\ Expected(o) /\ ~Awaits(t, o))
    <3> HIDE DEF lost
    <3> QED  BY <2>1, <2>2 DEF Expected, Awaits
  <2> HIDE DEF lost, y
  <2>7. Following(tab[t], rows[The]) /\ Following(y, rows[The])
    BY <2>3 DEF CalmFor, Accounted, Following
  <2>8. CASE tab' = tab
    BY <2>5, <2>6, <2>7, <2>8, CalmKept
  <2>9. CASE tab' = [tab EXCEPT ![t] = y]
    <3>1. tab'[t] = y /\ \A u \in Tabs : u # t => tab'[u] = tab[u]
      BY <1>1, <2>3, <2>9, OneScreen
    <3> QED  BY <2>3, <2>5, <2>6, <2>7, <3>1, CalmKept
  <2> QED  BY <2>4, <2>8, <2>9
<1>3. CASE Lookup(q)
  <2>1. rows' = rows /\ stored' = stored /\ tab' = tab /\ q.phase = "sent"
    BY <1>3 DEF Lookup, serverVars, vars
  <2>2. CASE Replace(q, [q EXCEPT !.phase = "missed"])
    <3> DEFINE o == [q EXCEPT !.phase = "missed"]
    <3>1. /\ o.tab = q.tab /\ o.kind = q.kind /\ o.target = q.target /\ o.answers = q.answers
          /\ o.expected = q.expected /\ o.heard = q.heard /\ o.phase = "missed"
      BY <1>1 DEF InTransit
    <3>2. q.heard /\ net' = (net \ {q}) \cup {o}
      BY <2>1, <2>2 DEF Replace, CalmFor, Expected
    <3> HIDE DEF o
    <3> QED  BY <2>1, <3>1, <3>2, CalmPassed
  <2>3. CASE \E k \in stored : k.key = q.key /\ Answer(q, k)
    BY <1>1, <2>1, <2>3, CalmAnswered
  <2> QED  BY <1>3, <2>2, <2>3 DEF Lookup
<1>4. CASE Respond(q)
  <2> DEFINE fresh == [key |-> q.key, status |-> q.status, snapshot |-> Snapshot(rows[The])]
  <2>1. fresh.key = q.key /\ fresh.snapshot.module = rows[The].module
    BY DEF Snapshot
  <2>2. \/ stored' = stored \cup {fresh} /\ Answer(q, fresh)
        \/ stored' = stored /\ \E k \in stored : k.key = q.key /\ Answer(q, k)
    BY <1>4 DEF Respond
  <2>3. rows' = rows /\ tab' = tab
    BY <1>4 DEF Respond, serverVars, vars
  <2> HIDE DEF fresh
  <2>4. \A l \in stored' : l \in stored \/ l.snapshot.module = rows[The].module
    BY <2>1, <2>2
  <2>5. PICK k \in stored' : /\ k.key = q.key /\ Answer(q, k)
                             /\ k \in stored \/ k.snapshot.module = rows[The].module
    BY <2>1, <2>2
  <2> QED  BY <1>1, <2>3, <2>4, <2>5, CalmAnswered
<1> QED  BY <1>2, <1>3, <1>4, CalmHear, CalmCompute DEF NetStep

(* One tab, and a time limit not reached: a second device may reuse the    *)
(* first one's key, and a save that comes after the time is up hands in,   *)
(* so that answers given since are not taken any more.                     *)
OneTabInTime == ~under.rough => Alone /\ ~Expired(rows[The], now)

LEMMA CalmInductive ==
  ASSUME WebInv, Calm, OneTabInTime, [WebNext]_allVars
  PROVE  Calm'
<1>1. under' = under
  BY DEF WebNext, ServerStep, webVars, allVars
<1>2. CASE under.rough
  BY <1>1, <1>2 DEF Calm
<1>3. CASE ~under.rough
  <2>1. Alone /\ ~Expired(rows[The], now) /\ under.screens \subseteq Tabs
    BY <1>3, WebAssumption DEF OneTabInTime, WebInv
  <2>2. ASSUME NEW t \in under.screens PROVE CalmFor(t)'
    <3>1. t \in Tabs /\ CalmFor(t)
      BY <1>3, <2>1 DEF Calm
    <3>2. ASSUME UNCHANGED <<tab, net, stored>>, Stays(rows[The], rows'[The])
          PROVE  CalmFor(t)'
      BY <3>1, <3>2, CalmWritten
    <3>3. CASE UNCHANGED allVars
      <4>1. UNCHANGED <<rows, tab, net, stored>>
        BY <3>3 DEF allVars, serverVars, vars, webVars
      <4> QED  BY <3>2, <4>1, StaysSame DEF WebInv
    <3>4. CASE ServerStep
      BY <3>2, <3>4, ServerStepRow DEF ServerStep, webVars
    <3>5. ASSUME NEW u \in under.screens, TabStep(u) PROVE CalmFor(t)'
      <4>1. u = t
        BY <2>1 DEF Alone
      <4> QED  BY <1>1, <1>3, <3>1, <3>5, <4>1, CalmTabStep
    <3>6. ASSUME NEW q \in net, NetStep(q) PROVE CalmFor(t)'
      BY <1>3, <2>1, <3>1, <3>6, CalmNetStep
    <3> QED  BY <3>3, <3>4, <3>5, <3>6 DEF WebNext
  <2>3. CASE under.screens = {}
    <3>1. net = {} /\ \A t \in Tabs : tab[t].done = {}
      BY <1>3, <2>1, <2>3 DEF Calm
    <3>2. net' = net /\ tab' = tab
      BY <2>3, <3>1 DEF WebNext, ServerStep, webVars, allVars
    <3> QED  BY <1>1, <2>3, <3>1, <3>2 DEF Calm
  <2> QED  BY <1>1, <2>2, <2>3 DEF Calm
<1> QED  BY <1>2, <1>3

LEMMA InitCalm ==
  ASSUME WebInit
  PROVE  Calm
<1>1. under.screens \subseteq Tabs
  BY WebAssumption DEF WebInit
<1>2. ASSUME NEW t \in under.screens PROVE CalmFor(t)
  <2>1. /\ tab[t].submit = {} /\ tab[t].done = {} /\ tab[t].module = 1 /\ rows[The].module = 1
    BY <1>1, InitScreen, InitRow
  <2>2. OnePending(t) /\ Fresh(t)
    BY <2>1 DEF OnePending, Fresh, WebInit
  <2>3. Accounted(tab[t], rows[The])
    BY <2>1 DEF Accounted, Following
  <2> QED  BY <2>2, <2>3, InitScreen DEF CalmFor, WebInit
<1> QED  BY <1>2, InitScreen DEF Calm, WebInit

(* ExamWeb: what the runner believes was handed in is over and on the      *)
(* sheet, so that dropping the local draft lost nothing, however many      *)
(* saves, retries and lost answers came before.                            *)
THEOREM HandInKeptHolds == WebSpec /\ []OneTabInTime => []HandInKept
<1>1. WebInit => Calm
  BY InitCalm
<1>2. WebInv /\ Calm /\ OneTabInTime /\ [WebNext]_allVars => Calm'
  BY CalmInductive
<1>3. WebInv /\ Calm /\ OneTabInTime => HandInKept
  <2>1. SUFFICES ASSUME WebInv, Calm, OneTabInTime, ~under.rough, NEW u \in Tabs,
                        NEW p \in tab[u].done
                 PROVE  Over(rows[The], p.module) /\ p.answers \subseteq rows[The].sheet[p.module]
    BY DEF HandInKept
  <2>2. PICK t \in under.screens : CalmFor(t)
    BY <2>1 DEF Calm, OneTabInTime
  <2>3. u = t
    BY <2>1, <2>2 DEF CalmFor
  <2>4. Arrived(rows[The], p)
    BY <2>1, <2>2, <2>3 DEF CalmFor, Accounted
  <2>5. p.module \in Modules
    BY <2>1, ScreenFields DEF WebInv, Payloads
  <2> QED  BY <2>1, <2>4, <2>5, FineRow DEF Arrived, WebInv
<1> QED  BY <1>1, <1>2, <1>3, WebInvHolds, PTL DEF WebSpec
=============================================================================
