------------------------ MODULE HomeworkRunnerProofs ------------------------
(***************************************************************************)
(* Proofs about HomeworkRunner, for any devices, questions, answers and    *)
(* bounds: what a page knows of the server is never ahead of it, so that   *)
(* what a hand-in leaves out is there already; and a page that works alone *)
(* knows what it has not saved.                                            *)
(***************************************************************************)
EXTENDS HomeworkRunner, SumProofs

USE RunnerAssumption

Rows == [Questions -> Row]
RowShape(r) == \A q \in Questions : OnServer(r, q) <=> r[q].answer # Blank
Grown(r, s) == \A q \in Questions : OnServer(r, q) => OnServer(s, q)
RowsOK(r) == r \in Rows /\ RowShape(r)

(* A page over the server's rows r: the attempt it fetched and the choices *)
(* its banner offers are of questions with a row; once it hands in, what   *)
(* it shows is owed or has a row, and at the end it has a row.  A page     *)
(* that learns of a hand-in elsewhere claims nothing.                      *)
Knows(p, r) == RowShape(p.attempt) /\ Grown(p.attempt, r)
OffersSaved(p, r) == \A q \in Filled(p.mine) : OnServer(r, q)
HandsIn(p, r) ==
  \A q \in Filled(p.draft) :
    /\ p.stage = "submitting" => p.owed[q] # Blank \/ OnServer(r, q)
    /\ p.stage = "handed_in" => OnServer(r, q)
PageOK(p, r) == p \in Page /\ Knows(p, r) /\ OffersSaved(p, r) /\ HandsIn(p, r)

(* A save: a keepalive is not answered; an answer tells of a row.          *)
SaveOK(m, r) ==
  /\ m \in Save
  /\ m.by = "keepalive" => m.state = "sent"
  /\ m.state \in {"served", "stale"} => OnServer(r, m.question)

RunnerInv ==
  /\ status \in {"in_progress", "abandoned", "submitted"}
  /\ RowsOK(rows)
  /\ page \in [Devices -> Page]
  /\ \A d \in Devices : PageOK(page[d], rows)
  /\ \A m \in saves : SaveOK(m, rows)
  /\ latest \in Sheet
  /\ spent \in Spent

----------------------------------------------------------------------------
(* The largest number of a row.                                            *)

LEMMA MaxIsIn ==
  ASSUME NEW k \in Nat, NEW S \in SUBSET (0 .. k), S # {}
  PROVE  Max(S) \in S /\ \A x \in S : x <= Max(S)
<1> DEFINE G == {T \in SUBSET S : T = {} \/ \E x \in T : \A y \in T : x >= y}
<1>1. IsFiniteSet(S)
  <2>1. IsFiniteSet(0 .. k)
    BY FS_Interval
  <2> QED  BY <2>1, FS_Subset
<1>2. {} \in G
  OBVIOUS
<1>3. ASSUME NEW T \in SUBSET S, NEW x \in S, T \in G, x \notin T
      PROVE  T \cup {x} \in G
  <2>1. CASE T = {}
    BY <2>1
  <2>2. CASE \E z \in T : \A y \in T : z >= y
    <3>1. PICK z \in T : \A y \in T : z >= y
      BY <2>2
    <3>2. \A y \in T \cup {x} : y \in Nat
      OBVIOUS
    <3>3. CASE x <= z
      <4>1. \A y \in T \cup {x} : z >= y
        BY <3>1, <3>2, <3>3
      <4> QED  BY <4>1
    <3>4. CASE ~(x <= z)
      <4>1. \A y \in T \cup {x} : x >= y
        BY <3>1, <3>2, <3>4
      <4> QED  BY <4>1
    <3> QED  BY <3>3, <3>4
  <2> QED  BY <1>3, <2>1, <2>2
<1>4. S \in G
  <2> HIDE DEF G
  <2> QED  BY <1>1, <1>2, <1>3, SubsetsReached
<1>5. PICK x \in S : \A y \in S : x >= y
  BY <1>4
<1>6. Max(S) \in S /\ \A y \in S : Max(S) >= y
  BY <1>5 DEF Max
<1> QED  BY <1>6

LEMMA MaxOfTwo ==
  ASSUME NEW m \in 0 .. MaxSeq + 1, NEW n \in 0 .. MaxSeq + 1
  PROVE  Max({m, n}) \in 0 .. MaxSeq + 1 /\ m <= Max({m, n})
<1> DEFINE S == {m, n}
<1>1. MaxSeq + 1 \in Nat /\ S \in SUBSET (0 .. MaxSeq + 1) /\ S # {}
  OBVIOUS
<1> HIDE DEF S
<1>2. Max(S) \in S /\ \A x \in S : x <= Max(S)
  BY <1>1, MaxIsIn
<1> QED  BY <1>2 DEF S

LEMMA WatermarkType ==
  ASSUME NEW r \in Rows
  PROVE  Watermark(r) \in 0 .. MaxSeq
<1> DEFINE S == {0} \cup {r[q].seq : q \in Questions}
<1>1. S \in SUBSET (0 .. MaxSeq) /\ S # {}
  BY DEF Rows, Row
<1> HIDE DEF S
<1>2. Max(S) \in S
  BY <1>1, MaxIsIn
<1> QED  BY <1>1, <1>2 DEF S, Watermark

----------------------------------------------------------------------------
(* What the page's helpers return.                                         *)

LEMMA SheetType ==
  /\ Nothing \in Sheet /\ Filled(Nothing) = {}
  /\ \A s \in Sheet : \A qs : Only(s, qs) \in Sheet
  /\ \A s \in Sheet, q \in Questions : s[q] \in Shown
  BY DEF Nothing, Sheet, Shown, Only, Filled

LEMMA ConflictsOf ==
  ASSUME NEW p \in Page, NEW r
  PROVE  /\ Conflicts(p, r) \in Sheet
         /\ \A q \in Filled(Conflicts(p, r)) : OnServer(r, q)
  BY SheetType DEF Conflicts, Filled, Only, Page

LEMMA LoadedOK ==
  ASSUME RowsOK(rows), NEW kept \in Sheet, NEW ids \in SUBSET Questions
  PROVE  PageOK(Loaded(rows, kept, ids), rows)
<1> DEFINE p == Loaded(rows, kept, ids)
<1> DEFINE c == status = "submitted"
<1>1. /\ p.stage = "exam" /\ p.owed = Only(kept, ids) /\ p.stored = ids /\ p.attempt = rows
      /\ p.closed = c
      /\ p.draft = [q \in Questions |-> IF kept[q] = Blank THEN rows[q].answer ELSE kept[q]]
      /\ p.mine = Nothing /\ p.seq = Watermark(rows) + 1
  BY DEF Loaded
<1>2. p.draft \in Sheet
  BY <1>1 DEF Sheet, RowsOK, Rows, Row
<1>3. p.seq \in 0 .. MaxSeq + 1
  BY <1>1, WatermarkType DEF RowsOK
<1>4. p \in Page
  <2>1. c \in BOOLEAN
    OBVIOUS
  <2> HIDE DEF c
  <2>2. p = [stage |-> p.stage, closed |-> c, owed |-> p.owed, stored |-> p.stored,
             attempt |-> p.attempt, draft |-> p.draft, mine |-> p.mine, seq |-> p.seq]
    BY <1>1 DEF Loaded
  <2> QED  BY <1>1, <1>2, <1>3, <2>1, <2>2, SheetType DEF Page, RowsOK, Rows
<1> HIDE DEF p
<1>5. PageOK(p, rows)
  BY <1>1, <1>4, SheetType DEF PageOK, Knows, OffersSaved, HandsIn, Grown, RowsOK
<1> QED  BY <1>5 DEF p

LEMMA FetchedIs ==
  ASSUME RowsOK(rows), NEW p \in Page
  PROVE  /\ Fetched(p) \in Page
         /\ Fetched(p).stage = p.stage /\ Fetched(p).owed = p.owed
         /\ Fetched(p).mine = p.mine /\ Fetched(p).attempt = rows
         /\ p.seq <= Fetched(p).seq
         /\ Fetched(p).draft
              = [q \in Questions |-> IF p.draft[q] = Blank THEN rows[q].answer ELSE p.draft[q]]
<1> DEFINE f == [q \in Questions |-> IF p.draft[q] = Blank THEN rows[q].answer ELSE p.draft[q]]
           n == Max({p.seq, Watermark(rows) + 1})
           c == status = "submitted"
<1>1. f \in Sheet
  BY DEF Sheet, Page, RowsOK, Rows, Row
<1>2. n \in 0 .. MaxSeq + 1 /\ p.seq <= n
  BY WatermarkType, MaxOfTwo DEF Page, RowsOK
<1>3. Fetched(p) = [p EXCEPT !.attempt = rows, !.closed = c, !.seq = n, !.draft = f]
        /\ c \in BOOLEAN
  BY DEF Fetched
<1> HIDE DEF f, n, c
<1>4. rows \in [Questions -> Row]
  BY DEF RowsOK, Rows
<1>5. /\ Fetched(p) \in Page
      /\ Fetched(p).stage = p.stage /\ Fetched(p).owed = p.owed
      /\ Fetched(p).mine = p.mine /\ Fetched(p).attempt = rows
      /\ p.seq <= Fetched(p).seq
      /\ Fetched(p).draft = f
  BY <1>1, <1>2, <1>3, <1>4 DEF Page
<1> QED  BY <1>5 DEF f

LEMMA FetchedOK ==
  ASSUME RowsOK(rows), NEW p, PageOK(p, rows)
  PROVE  PageOK(Fetched(p), rows)
<1>1. p \in Page
  BY DEF PageOK
<1>2. HandsIn(Fetched(p), rows)
  BY <1>1, FetchedIs DEF HandsIn, PageOK, Filled, RowsOK, RowShape
<1>3. Knows(Fetched(p), rows) /\ OffersSaved(Fetched(p), rows)
  BY <1>1, FetchedIs DEF Knows, OffersSaved, PageOK, Grown, RowsOK
<1> QED  BY <1>1, <1>2, <1>3, FetchedIs DEF PageOK

(* A page told that its attempt was handed in, or turned back to the exam. *)
LEMMA StageOK ==
  ASSUME NEW r, NEW p, PageOK(p, r), NEW stage \in {"exam", "complete"}
  PROVE  PageOK([p EXCEPT !.stage = stage], r)
<1> DEFINE x == [p EXCEPT !.stage = stage]
<1>1. /\ x \in Page /\ x.stage = stage /\ x.draft = p.draft
      /\ x.mine = p.mine /\ x.attempt = p.attempt /\ x.owed = p.owed
  BY DEF PageOK, Page
<1> HIDE DEF x
<1>2. PageOK(x, r)
  BY <1>1 DEF PageOK, Knows, OffersSaved, HandsIn
<1> QED  BY <1>2 DEF x

LEMMA ToldIs ==
  ASSUME NEW p \in Page
  PROVE  \E stage : /\ Told(p) = [p EXCEPT !.stage = stage]
                    /\ stage \in {"exam", "complete"} \/ stage = p.stage
<1> DEFINE stage == IF p.closed /\ p.stage = "exam" THEN "complete" ELSE p.stage
<1>1. Told(p) = [p EXCEPT !.stage = stage]
  BY DEF Told
<1>2. stage \in {"exam", "complete"} \/ stage = p.stage
  OBVIOUS
<1> HIDE DEF stage
<1> QED  BY <1>1, <1>2

LEMMA ToldOK ==
  ASSUME NEW r, NEW p, PageOK(p, r)
  PROVE  PageOK(Told(p), r)
<1>1. p \in Page
  BY DEF PageOK
<1>2. PICK stage : /\ Told(p) = [p EXCEPT !.stage = stage]
                   /\ stage \in {"exam", "complete"} \/ stage = p.stage
  BY <1>1, ToldIs
<1>3. stage = p.stage => Told(p) = p
  BY <1>1, <1>2 DEF Page
<1> QED  BY <1>2, <1>3, StageOK

(* What is not owed any more because a save of it was answered.            *)
LEMMA ClearedIs ==
  ASSUME NEW p \in Page, NEW m, m.question \in Questions
  PROVE  /\ Cleared(p, m) \in Page
         /\ Cleared(p, m).stage = p.stage /\ Cleared(p, m).draft = p.draft
         /\ Cleared(p, m).mine = p.mine /\ Cleared(p, m).attempt = p.attempt
         /\ Cleared(p, m).seq = p.seq
         /\ \A q \in Questions : Cleared(p, m).owed[q] =
              IF q = m.question /\ p.owed[q] = m.answer THEN Blank ELSE p.owed[q]
<1> DEFINE v == IF p.owed[m.question] = m.answer THEN Blank ELSE p.owed[m.question]
           o == [p.owed EXCEPT ![m.question] = v]
<1>1. p.owed \in Sheet
  BY DEF Page
<1>2. v \in Shown
  BY <1>1 DEF Sheet, Shown
<1>3. Cleared(p, m) = [p EXCEPT !.owed = o]
  BY DEF Cleared, Page
<1>4. \A q \in Questions : o[q] = IF q = m.question THEN v ELSE p.owed[q]
  BY <1>1 DEF Sheet
<1>5. v = IF p.owed[m.question] = m.answer THEN Blank ELSE p.owed[m.question]
  OBVIOUS
<1> HIDE DEF v
<1>6. o \in Sheet
  BY <1>1, <1>2 DEF Sheet
<1> HIDE DEF o
<1> QED  BY <1>3, <1>4, <1>5, <1>6 DEF Page

LEMMA ClearedOK ==
  ASSUME NEW r, NEW p, PageOK(p, r), NEW m, SaveOK(m, r), m.state \in {"served", "stale"}
  PROVE  PageOK(Cleared(p, m), r)
<1>1. p \in Page /\ m.question \in Questions /\ OnServer(r, m.question)
  BY DEF PageOK, SaveOK, Save
<1>2. HandsIn(Cleared(p, m), r)
  BY <1>1, ClearedIs DEF PageOK, HandsIn, Filled
<1> QED  BY <1>1, <1>2, ClearedIs DEF PageOK, Knows, OffersSaved

LEMMA MineOK ==
  ASSUME NEW r, NEW p, PageOK(p, r), NEW s \in Sheet, \A q \in Filled(s) : OnServer(r, q)
  PROVE  PageOK([p EXCEPT !.mine = s], r)
<1> DEFINE x == [p EXCEPT !.mine = s]
<1>1. /\ x \in Page /\ x.stage = p.stage /\ x.draft = p.draft
      /\ x.mine = s /\ x.attempt = p.attempt /\ x.owed = p.owed
  BY DEF PageOK, Page
<1> HIDE DEF x
<1>2. PageOK(x, r)
  BY <1>1 DEF PageOK, Knows, OffersSaved, HandsIn
<1> QED  BY <1>2 DEF x

LEMMA ComparedIs ==
  ASSUME RowsOK(rows), NEW p \in Page
  PROVE  \E s \in Sheet :
           /\ Compared(p) = [Fetched(p) EXCEPT !.mine = s]
           /\ s = IF p.attempt = rows THEN p.mine ELSE Conflicts(Fetched(p), rows)
<1> DEFINE f == Fetched(p)
           s == IF p.attempt = rows THEN p.mine ELSE Conflicts(f, rows)
<1>1. f \in Page /\ f.mine = p.mine
  BY FetchedIs
<1>2. Compared(p) = [f EXCEPT !.mine = s]
  BY <1>1 DEF Compared
<1> HIDE DEF f
<1>3. s \in Sheet
  BY <1>1, ConflictsOf DEF Page
<1> QED  BY <1>2, <1>3 DEF f

LEMMA ComparedOK ==
  ASSUME RowsOK(rows), NEW p, PageOK(p, rows)
  PROVE  PageOK(Compared(p), rows)
<1>1. p \in Page /\ PageOK(Fetched(p), rows)
  BY FetchedOK DEF PageOK
<1>2. PICK s \in Sheet :
        /\ Compared(p) = [Fetched(p) EXCEPT !.mine = s]
        /\ s = IF p.attempt = rows THEN p.mine ELSE Conflicts(Fetched(p), rows)
  BY <1>1, ComparedIs
<1>3. \A q \in Filled(s) : OnServer(rows, q)
  BY <1>1, <1>2, ConflictsOf DEF PageOK, OffersSaved
<1> QED  BY <1>1, <1>2, <1>3, MineOK

LEMMA StoredOK ==
  ASSUME NEW r, NEW p, PageOK(p, r), NEW qs \in SUBSET Questions
  PROVE  PageOK([p EXCEPT !.stored = qs], r)
<1> DEFINE x == [p EXCEPT !.stored = qs]
<1>1. /\ x \in Page /\ x.stage = p.stage /\ x.draft = p.draft
      /\ x.mine = p.mine /\ x.attempt = p.attempt /\ x.owed = p.owed
  BY DEF PageOK, Page
<1> HIDE DEF x
<1>2. PageOK(x, r)
  BY <1>1 DEF PageOK, Knows, OffersSaved, HandsIn
<1> QED  BY <1>2 DEF x

LEMMA SeqOK ==
  ASSUME NEW r, NEW p, PageOK(p, r), NEW n \in 0 .. MaxSeq + 1
  PROVE  PageOK([p EXCEPT !.seq = n], r)
<1> DEFINE x == [p EXCEPT !.seq = n]
<1>1. /\ x \in Page /\ x.stage = p.stage /\ x.draft = p.draft
      /\ x.mine = p.mine /\ x.attempt = p.attempt /\ x.owed = p.owed
  BY DEF PageOK, Page
<1> HIDE DEF x
<1>2. PageOK(x, r)
  BY <1>1 DEF PageOK, Knows, OffersSaved, HandsIn
<1> QED  BY <1>2 DEF x

(* One question is written, on the screen and in what is owed: it is owed  *)
(* there, or has a row, or the page is not handing in.                     *)
LEMMA WrittenOK ==
  ASSUME NEW r, NEW p, PageOK(p, r), NEW q \in Questions, NEW v \in Shown, NEW w \in Shown,
         \/ p.stage = "exam"
         \/ v = Blank
         \/ OnServer(r, q)
  PROVE  PageOK([p EXCEPT !.draft[q] = v, !.owed[q] = w], r)
<1> DEFINE d == [p.draft EXCEPT ![q] = v]
           o == [p.owed EXCEPT ![q] = w]
           x == [p EXCEPT !.draft = d, !.owed = o]
<1>1. p \in Page /\ p.draft \in Sheet /\ p.owed \in Sheet
  BY DEF PageOK, Page
<1>2. [p EXCEPT !.draft[q] = v, !.owed[q] = w] = x
  BY <1>1 DEF Page
<1>3. d \in Sheet /\ o \in Sheet
  BY <1>1 DEF Sheet
<1>4. \A k \in Questions : /\ d[k] = IF k = q THEN v ELSE p.draft[k]
                           /\ o[k] = IF k = q THEN w ELSE p.owed[k]
  BY <1>1 DEF Sheet
<1> HIDE DEF d, o
<1>5. /\ x \in Page /\ x.stage = p.stage /\ x.draft = d
      /\ x.mine = p.mine /\ x.attempt = p.attempt /\ x.owed = o
  BY <1>1, <1>3 DEF Page
<1> HIDE DEF x
<1>6. HandsIn(x, r)
  BY <1>4, <1>5 DEF PageOK, HandsIn, Filled
<1> QED  BY <1>2, <1>5, <1>6 DEF PageOK, Knows, OffersSaved

----------------------------------------------------------------------------
(* The saves, and the bounds.                                              *)

LEMMA SpentType ==
  ASSUME spent \in Spent
  PROVE  /\ \A calm \in BOOLEAN : Trouble(calm) => spent' \in Spent
         /\ \A ds \in SUBSET Devices, calm \in BOOLEAN : Uses(ds, calm) => spent' \in Spent
         /\ [spent EXCEPT !.calm = FALSE] \in Spent
<1>1. ASSUME NEW calm \in BOOLEAN, Trouble(calm)
      PROVE  spent' \in Spent
  <2>1. spent.troubles + 1 \in 0 .. MaxTroubles
    BY <1>1 DEF Trouble, Spent
  <2>2. (spent.calm /\ calm) \in BOOLEAN
    OBVIOUS
  <2> QED  BY <1>1, <2>1, <2>2 DEF Trouble, Spent
<1>2. ASSUME NEW ds \in SUBSET Devices, NEW calm \in BOOLEAN, Uses(ds, calm)
      PROVE  spent' \in Spent
  <2>1. (spent.calm /\ calm) \in BOOLEAN /\ spent.users \cup ds \in SUBSET Devices
    BY DEF Spent
  <2> QED  BY <1>2, <2>1 DEF Uses, Spent
<1> QED  BY <1>1, <1>2 DEF Spent

LEMMA SaveStates ==
  ASSUME NEW r, NEW m, SaveOK(m, r)
  PROVE  /\ m.by # "keepalive" => SaveOK([m EXCEPT !.state = "lost"], r)
         /\ SaveOK([m EXCEPT !.state = "sent"], r)
         /\ m.state = "sent" => SaveOK([m EXCEPT !.by = "keepalive"], r)
  BY DEF SaveOK, Save

LEMMA SentSave ==
  ASSUME RunnerInv, NEW d \in Devices, NEW q \in Questions, NEW v \in Shown, v # Blank,
         NEW by \in {"flush", "banner", "keepalive"}, Sent(d, q, v, by)
  PROVE  /\ \A m \in saves' : SaveOK(m, rows)
         /\ \E p : PageOK(p, rows) /\ page' = [page EXCEPT ![d] = p]
<1> DEFINE n == page[d].seq + 1
           m == [of |-> d, question |-> q, answer |-> v, seq |-> n, by |-> by, state |-> "sent"]
<1>1. page[d] \in Page /\ PageOK(page[d], rows)
  BY DEF RunnerInv
<1>2. n \in 1 .. MaxSeq /\ n \in 0 .. MaxSeq + 1
  BY <1>1 DEF Sent, Page
<1>3. saves' = saves \cup {m} /\ page' = [page EXCEPT ![d].seq = n]
  BY DEF Sent
<1>4. SaveOK(m, rows)
  BY <1>2 DEF SaveOK, Save, Shown
<1>5. page' = [page EXCEPT ![d] = [page[d] EXCEPT !.seq = n]]
  BY <1>3 DEF RunnerInv
<1> HIDE DEF m, n
<1>6. \A x \in saves' : SaveOK(x, rows)
  BY <1>3, <1>4 DEF RunnerInv
<1> QED  BY <1>1, <1>2, <1>5, <1>6, SeqOK

(* One page is written, or none; the rows stay.                            *)
LEMMA PageStep ==
  ASSUME RunnerInv, UNCHANGED rows,
         \/ page' = page
         \/ \E d \in Devices : \E p : PageOK(p, rows) /\ page' = [page EXCEPT ![d] = p],
         status' \in {"in_progress", "abandoned", "submitted"},
         \A m \in saves' : SaveOK(m, rows), latest' \in Sheet, spent' \in Spent
  PROVE  RunnerInv'
<1>1. page' \in [Devices -> Page] /\ \A d \in Devices : PageOK(page'[d], rows)
  BY DEF RunnerInv, PageOK
<1> QED  BY <1>1 DEF RunnerInv

----------------------------------------------------------------------------
(* The steps.                                                              *)

LEMMA PickStep ==
  ASSUME RunnerInv, NEW d \in Devices, NEW q \in Questions, NEW v \in Answers, Pick(d, q, v)
  PROVE  RunnerInv'
<1> DEFINE p == [page[d] EXCEPT !.draft[q] = v, !.owed[q] = v]
<1>1. page[d] \in Page /\ PageOK(page[d], rows) /\ page[d].stage = "exam" /\ v \in Shown
  BY DEF RunnerInv, Pick, Shows, Open, Shown
<1>2. PageOK(p, rows)
  BY <1>1, WrittenOK
<1>3. page' = [page EXCEPT ![d] = [p EXCEPT !.stored = Filled(p.owed)]]
  BY DEF Pick, Set
<1> HIDE DEF p
<1>4. Filled(p.owed) \in SUBSET Questions
  BY DEF Filled
<1>5. PageOK([p EXCEPT !.stored = Filled(p.owed)], rows)
  BY <1>2, <1>4, StoredOK
<1>6. latest' \in Sheet
  BY <1>1 DEF RunnerInv, Pick, Sheet
<1>7. spent' \in Spent
  <2>1. spent.picks + 1 \in 0 .. MaxPicks
    BY DEF RunnerInv, Pick, Spent
  <2> QED  BY <2>1 DEF RunnerInv, Pick, Spent
<1>8. UNCHANGED <<rows, status, saves>>
  BY DEF Pick
<1>9. \A m \in saves' : SaveOK(m, rows)
  BY <1>8 DEF RunnerInv
<1> QED  BY <1>3, <1>5, <1>6, <1>7, <1>8, <1>9, PageStep DEF RunnerInv

LEMMA SendSteps ==
  ASSUME RunnerInv, NEW d \in Devices, NEW q \in Questions,
         Flush(d, q) \/ Leave(d, q) \/ KeepMine(d, q)
  PROVE  RunnerInv'
<1>1. page[d].owed \in Sheet /\ page[d].mine \in Sheet
  BY DEF RunnerInv, Page
<1>2. PICK v \in Shown, by \in {"flush", "banner", "keepalive"} :
        v # Blank /\ Sent(d, q, v, by)
  BY <1>1, SheetType DEF Flush, Leave, KeepMine
<1>3. /\ \A m \in saves' : SaveOK(m, rows)
      /\ \E p : PageOK(p, rows) /\ page' = [page EXCEPT ![d] = p]
  BY <1>2, SentSave
<1>4. spent' \in Spent
  <2>1. {} \in SUBSET Devices /\ {d} \in SUBSET Devices /\ (~Saving(d, q)) \in BOOLEAN
    OBVIOUS
  <2> QED  BY <2>1, SpentType DEF RunnerInv, Flush, Leave, KeepMine
<1>5. UNCHANGED <<rows, status, latest>>
  BY DEF Flush, Leave, KeepMine
<1> QED  BY <1>3, <1>4, <1>5, PageStep DEF RunnerInv

(* The banner is shown anew after what is on the screen changed.           *)
LEMMA BannerAnew ==
  ASSUME NEW r, NEW p, PageOK(p, r), NEW a, Grown(a, r)
  PROVE  PageOK([p EXCEPT !.mine = Conflicts(p, a), !.stored = Filled(p.owed)], r)
<1>1. p \in Page /\ Filled(p.owed) \in SUBSET Questions
  BY DEF PageOK, Filled
<1>2. PageOK([p EXCEPT !.mine = Conflicts(p, a)], r)
  <2>1. \A q \in Filled(Conflicts(p, a)) : OnServer(r, q)
    BY <1>1, ConflictsOf DEF Grown, Filled
  <2> QED  BY <1>1, <2>1, ConflictsOf, MineOK
<1>3. [p EXCEPT !.mine = Conflicts(p, a), !.stored = Filled(p.owed)]
        = [[p EXCEPT !.mine = Conflicts(p, a)] EXCEPT !.stored = Filled(p.owed)]
  BY <1>1 DEF Page
<1> QED  BY <1>1, <1>2, <1>3, StoredOK

(* Removing a save, or replacing one by another that is in order.          *)
LEMMA FewerSaves ==
  ASSUME RunnerInv, UNCHANGED rows,
         \A x \in saves' : x \in saves \/ SaveOK(x, rows)
  PROVE  \A x \in saves' : SaveOK(x, rows)
  BY DEF RunnerInv

LEMMA AnswerSteps ==
  ASSUME RunnerInv, NEW m \in saves, FlushAnswered(m) \/ BannerAnswered(m)
  PROVE  RunnerInv'
<1> DEFINE d == m.of
<1>1. /\ d \in Devices /\ m.question \in Questions /\ m.answer \in Shown
      /\ SaveOK(m, rows) /\ RowsOK(rows) /\ page[d] \in Page /\ PageOK(page[d], rows)
      /\ m.state \in {"served", "stale"}
  BY DEF RunnerInv, SaveOK, Save, Shown, FlushAnswered, BannerAnswered
<1>2. UNCHANGED <<rows, status, latest, spent>> /\ saves' = saves \ {m}
  BY DEF FlushAnswered, BannerAnswered
<1>3. CASE FlushAnswered(m)
  <2> DEFINE p == Fetched(Cleared(page[d], m))
  <2>1. PageOK(p, rows)
    BY <1>1, ClearedOK, FetchedOK
  <2>2. page' = [page EXCEPT ![d] = [p EXCEPT !.mine = Nothing]]
    BY <1>3 DEF FlushAnswered, Set
  <2> HIDE DEF p
  <2>3. PageOK([p EXCEPT !.mine = Nothing], rows)
    BY <2>1, SheetType, MineOK
  <2> QED  BY <1>1, <1>2, <2>2, <2>3, FewerSaves, PageStep DEF RunnerInv
<1>4. CASE BannerAnswered(m)
  <2> DEFINE f == Fetched(page[d])
             p == [f EXCEPT !.draft[m.question] = m.answer, !.owed[m.question] = Blank]
             x == [p EXCEPT !.mine = Conflicts(p, rows), !.stored = Filled(p.owed)]
  <2>1. PageOK(f, rows)
    BY <1>1, FetchedOK
  <2>2. page' = [page EXCEPT ![d] = x]
    BY <1>4 DEF BannerAnswered, Set
  <2> HIDE DEF f
  <2>3. PageOK(p, rows)
    <3>1. OnServer(rows, m.question) /\ Blank \in Shown
      BY <1>1 DEF SaveOK, Shown
    <3> QED  BY <1>1, <2>1, <3>1, WrittenOK
  <2> HIDE DEF p
  <2>4. PageOK(x, rows)
    BY <2>3, BannerAnew DEF Grown
  <2> HIDE DEF x
  <2> QED  BY <1>1, <1>2, <2>2, <2>4, FewerSaves, PageStep DEF RunnerInv
<1> QED  BY <1>3, <1>4

(* A save is tried again, or given up.                                     *)
LEMMA TriedSteps ==
  ASSUME RunnerInv, NEW m \in saves, Retry(m) \/ GiveUp(m) \/ Resurrect(m)
  PROVE  RunnerInv'
<1>1. SaveOK(m, rows) /\ m.of \in Devices
  BY DEF RunnerInv, SaveOK, Save
<1>2. CASE Retry(m) \/ Resurrect(m)
  <2>1. \A x \in saves' : SaveOK(x, rows)
    <3>1. SaveOK([m EXCEPT !.state = "sent"], rows)
      BY <1>1, SaveStates
    <3>2. saves' = (saves \ {m}) \cup {[m EXCEPT !.state = "sent"]}
      BY <1>2 DEF Retry, Resurrect
    <3> QED  BY <3>1, <3>2 DEF RunnerInv
  <2>2. UNCHANGED <<rows, page, latest, spent>>
          /\ status' \in {"in_progress", "abandoned", "submitted"}
    BY <1>2 DEF Retry, Resurrect, RunnerInv
  <2> QED  BY <2>1, <2>2, PageStep DEF RunnerInv
<1>3. CASE GiveUp(m)
  <2> DEFINE p == [page[m.of] EXCEPT !.stage = "exam"]
  <2>1. PageOK(page[m.of], rows) /\ page[m.of] \in Page
    BY <1>1 DEF RunnerInv
  <2>2. PageOK(p, rows)
    BY <2>1, StageOK
  <2>3. page' = page \/ page' = [page EXCEPT ![m.of] = p]
    BY <1>1, <1>3 DEF GiveUp, RunnerInv
  <2>4. \A x \in saves' : SaveOK(x, rows)
    BY <1>3 DEF GiveUp, RunnerInv
  <2>5. spent' \in Spent /\ UNCHANGED <<rows, status, latest>>
    BY <1>3, SpentType DEF GiveUp, RunnerInv
  <2> HIDE DEF p
  <2> QED  BY <1>1, <2>2, <2>3, <2>4, <2>5, PageStep DEF RunnerInv
<1> QED  BY <1>2, <1>3

LEMMA ReloadStep ==
  ASSUME RunnerInv, NEW d \in Devices, Reload(d)
  PROVE  RunnerInv'
<1>1. page[d].draft \in Sheet /\ page[d].stored \in SUBSET Questions
  BY DEF RunnerInv, Page
<1>2. PICK ids \in SUBSET Questions : page' = [page EXCEPT ![d] = Loaded(rows, page[d].draft, ids)]
  BY <1>1 DEF Reload, Set
<1>3. PageOK(Loaded(rows, page[d].draft, ids), rows)
  BY <1>1, LoadedOK DEF RunnerInv
<1>4. \A x \in saves' : SaveOK(x, rows)
  <2>1. \A x \in Orphans(d) : SaveOK(x, rows)
    BY SaveStates DEF Orphans, Unawaited, RunnerInv
  <2> QED  BY <2>1 DEF Reload, RunnerInv
<1>5. spent' \in Spent /\ UNCHANGED <<rows, status, latest>>
  BY SpentType DEF Reload, RunnerInv
<1> QED  BY <1>2, <1>3, <1>4, <1>5, PageStep DEF RunnerInv

LEMMA RefetchStep ==
  ASSUME RunnerInv, NEW d \in Devices, Refetch(d)
  PROVE  RunnerInv'
<1> DEFINE p == Compared(page[d])
<1>1. PageOK(p, rows)
  BY ComparedOK DEF RunnerInv
<1>2. page' = [page EXCEPT ![d] = p] \/ page' = [page EXCEPT ![d] = Told(p)]
  BY DEF Refetch, Set
<1>3. UNCHANGED <<status, rows, saves, latest, spent>>
  BY DEF Refetch
<1> HIDE DEF p
<1>4. PageOK(Told(p), rows)
  BY <1>1, ToldOK
<1>5. \A x \in saves' : SaveOK(x, rows)
  BY <1>3 DEF RunnerInv
<1> QED  BY <1>1, <1>2, <1>3, <1>4, <1>5, PageStep DEF RunnerInv

(* The attempt is open again.                                              *)
LEMMA ResumeStep ==
  ASSUME RunnerInv, NEW d \in Devices, Resume(d)
  PROVE  RunnerInv'
<1>1. UNCHANGED <<rows, page, saves, latest, spent>> /\ status' = "in_progress"
  BY DEF Resume
<1> QED  BY <1>1, PageStep DEF RunnerInv

LEMMA UseOtherStep ==
  ASSUME RunnerInv, NEW d \in Devices, NEW q \in Questions, UseOther(d, q)
  PROVE  RunnerInv'
<1> DEFINE a == page[d].attempt
           p == [page[d] EXCEPT !.draft[q] = a[q].answer, !.owed[q] = Blank]
<1>1. PageOK(page[d], rows) /\ page[d] \in Page /\ a[q].answer \in Shown /\ Blank \in Shown
  BY DEF RunnerInv, Page, Row, Shown
<1>2. PageOK(p, rows)
  <2>1. a[q].answer = Blank \/ OnServer(rows, q)
    BY <1>1 DEF PageOK, Knows, RowShape, Grown
  <2> QED  BY <1>1, <2>1, WrittenOK
<1>3. p.attempt = a
  BY <1>1 DEF Page
<1>4. page' = [page EXCEPT ![d] = [p EXCEPT !.mine = Conflicts(p, p.attempt), !.stored = Filled(p.owed)]]
        /\ UNCHANGED <<status, rows, saves, latest>> /\ Uses({}, ~Saving(d, q))
  BY DEF UseOther, Set
<1> HIDE DEF p
<1>5. PageOK([p EXCEPT !.mine = Conflicts(p, p.attempt), !.stored = Filled(p.owed)], rows)
  BY <1>2, BannerAnew DEF PageOK, Knows
<1>6. \A x \in saves' : SaveOK(x, rows)
  BY <1>4 DEF RunnerInv
<1>7. spent' \in Spent
  <2>1. {} \in SUBSET Devices /\ (~Saving(d, q)) \in BOOLEAN
    OBVIOUS
  <2> QED  BY <1>4, <2>1, SpentType DEF RunnerInv
<1> QED  BY <1>4, <1>5, <1>6, <1>7, PageStep DEF RunnerInv

LEMMA KeepAllStep ==
  ASSUME RunnerInv, NEW d \in Devices, KeepAllMine(d)
  PROVE  RunnerInv'
<1> DEFINE Kept(s) == [q \in Questions |-> IF page[d].mine[q] = Blank THEN s[q] ELSE page[d].mine[q]]
           w == Kept(page[d].owed)
           v == Kept(page[d].draft)
           p == [page[d] EXCEPT !.owed = w, !.draft = v, !.mine = Nothing]
<1>1. PageOK(page[d], rows) /\ page[d] \in Page
  BY DEF RunnerInv
<1>2. w \in Sheet /\ v \in Sheet
  BY <1>1 DEF Page, Sheet
<1>3. \A q \in Questions :
        \/ w[q] = page[d].owed[q] /\ v[q] = page[d].draft[q]
        \/ v[q] # Blank /\ OnServer(rows, q)
  BY <1>1 DEF PageOK, OffersSaved, Filled
<1>4. page' = [page EXCEPT ![d] = [p EXCEPT !.stored = Filled(p.owed)]]
        /\ UNCHANGED <<status, rows, saves, latest>> /\ Uses({d}, TRUE)
  BY DEF KeepAllMine, Set
<1> HIDE DEF w, v
<1>5. /\ p \in Page /\ p.stage = page[d].stage /\ p.draft = v /\ p.owed = w
      /\ p.mine = Nothing /\ p.attempt = page[d].attempt
  BY <1>1, <1>2, SheetType DEF Page
<1> HIDE DEF p
<1>6. PageOK(p, rows)
  <2>1. HandsIn(p, rows)
    BY <1>1, <1>3, <1>5 DEF PageOK, HandsIn, Filled
  <2>2. Knows(p, rows) /\ OffersSaved(p, rows)
    BY <1>1, <1>5, SheetType DEF PageOK, Knows, OffersSaved
  <2> QED  BY <1>5, <2>1, <2>2 DEF PageOK
<1>7. PageOK([p EXCEPT !.stored = Filled(p.owed)], rows)
  BY <1>6, StoredOK DEF Filled
<1>8. \A x \in saves' : SaveOK(x, rows)
  BY <1>4 DEF RunnerInv
<1>9. spent' \in Spent
  <2>1. {d} \in SUBSET Devices /\ TRUE \in BOOLEAN
    OBVIOUS
  <2> QED  BY <1>4, <2>1, SpentType DEF RunnerInv
<1> QED  BY <1>4, <1>7, <1>8, <1>9, PageStep DEF RunnerInv

(* A hand-in begins by owing what is shown and the fetched attempt lacks.  *)
LEMMA ConfirmStep ==
  ASSUME RunnerInv, NEW d \in Devices, Confirm(d)
  PROVE  RunnerInv'
<1> DEFINE h == Healed(page[d])
           p == [page[d] EXCEPT !.stage = "submitting", !.owed = h]
<1>1. PageOK(page[d], rows) /\ page[d] \in Page
  BY DEF RunnerInv
<1>2. h \in Sheet
  BY <1>1, SheetType DEF Healed, Page
<1>3. ASSUME NEW q \in Filled(page[d].draft)
      PROVE  h[q] # Blank \/ OnServer(rows, q)
  <2>1. q \in Questions /\ page[d].draft[q] # Blank
    BY DEF Filled
  <2>2. CASE page[d].draft[q] # page[d].attempt[q].answer
    BY <2>1, <2>2 DEF Healed, Only
  <2>3. CASE page[d].draft[q] = page[d].attempt[q].answer
    BY <1>1, <2>1, <2>3 DEF PageOK, Knows, RowShape, Grown
  <2> QED  BY <2>2, <2>3
<1>4. page' = [page EXCEPT ![d] = p] /\ UNCHANGED <<status, rows, saves, latest, spent>>
  BY DEF Confirm, Set
<1> HIDE DEF h
<1>5. /\ p \in Page /\ p.stage = "submitting" /\ p.draft = page[d].draft /\ p.owed = h
      /\ p.mine = page[d].mine /\ p.attempt = page[d].attempt
  BY <1>1, <1>2 DEF Page
<1> HIDE DEF p
<1>6. PageOK(p, rows)
  BY <1>1, <1>3, <1>5 DEF PageOK, Knows, OffersSaved, HandsIn
<1>7. \A x \in saves' : SaveOK(x, rows)
  BY <1>4 DEF RunnerInv
<1> QED  BY <1>4, <1>6, <1>7, PageStep DEF RunnerInv

(* It ends when nothing is owed.                                           *)
LEMMA HandInStep ==
  ASSUME RunnerInv, NEW d \in Devices, HandIn(d)
  PROVE  RunnerInv'
<1>1. PageOK(page[d], rows) /\ page[d] \in Page /\ page[d].stage = "submitting"
        /\ page[d].owed = Nothing /\ UNCHANGED <<rows, saves, latest>>
  BY DEF RunnerInv, HandIn
<1>2. PICK stage \in {"handed_in", "exam"} : page' = [page EXCEPT ![d].stage = stage]
  BY <1>1 DEF HandIn, Set
<1> DEFINE p == [page[d] EXCEPT !.stage = stage]
<1>3. page' = [page EXCEPT ![d] = p]
  BY <1>2 DEF RunnerInv
<1>4. /\ p \in Page /\ p.stage = stage /\ p.draft = page[d].draft
      /\ p.mine = page[d].mine /\ p.attempt = page[d].attempt
  BY <1>1 DEF Page
<1> HIDE DEF p
<1>5. \A q \in Filled(page[d].draft) : OnServer(rows, q)
  BY <1>1 DEF PageOK, HandsIn, Nothing, Filled
<1>6. PageOK(p, rows)
  BY <1>1, <1>4, <1>5 DEF PageOK, Knows, OffersSaved, HandsIn
<1>7. \A x \in saves' : SaveOK(x, rows)
  BY <1>1 DEF RunnerInv
<1>8. status' \in {"in_progress", "abandoned", "submitted"} /\ spent' \in Spent
  BY SpentType DEF HandIn, RunnerInv
<1> QED  BY <1>1, <1>3, <1>6, <1>7, <1>8, PageStep DEF RunnerInv

(* A question only ever gains a row; what was known of the rows stands.    *)
LEMMA GrownKeeps ==
  ASSUME NEW r, NEW s, Grown(r, s)
  PROVE  /\ \A p : PageOK(p, r) => PageOK(p, s)
         /\ \A m : SaveOK(m, r) => SaveOK(m, s)
<1>1. ASSUME NEW p, PageOK(p, r)
      PROVE  PageOK(p, s)
  <2>1. Filled(p.mine) \subseteq Questions /\ Filled(p.draft) \subseteq Questions
    BY DEF Filled
  <2> QED  BY <1>1, <2>1 DEF PageOK, Knows, OffersSaved, HandsIn, Grown
<1>2. ASSUME NEW m, SaveOK(m, r)
      PROVE  SaveOK(m, s)
  BY <1>2 DEF SaveOK, Save, Grown
<1> QED  BY <1>1, <1>2

LEMMA ServeStep ==
  ASSUME RunnerInv, NEW m \in saves, Serve(m)
  PROVE  RunnerInv'
<1> DEFINE q == m.question
           verdict == IF status # "in_progress" THEN "locked"
                      ELSE IF m.seq > rows[q].seq THEN "served" ELSE "stale"
<1>1. /\ SaveOK(m, rows) /\ m.state = "sent" /\ q \in Questions /\ m.of \in Devices
      /\ m.seq \in 1 .. MaxSeq /\ m.answer \in Answers /\ RowsOK(rows)
      /\ rows[q].seq \in 0 .. MaxSeq
  BY DEF RunnerInv, SaveOK, Save, Serve, RowsOK, Rows, Row
<1>2. /\ rows' = IF verdict = "served"
                 THEN [rows EXCEPT ![q] = [seq |-> m.seq, answer |-> m.answer]] ELSE rows
      /\ saves' = (saves \ {m}) \cup
                    IF m.by = "keepalive" THEN {} ELSE {[m EXCEPT !.state = verdict]}
      /\ page' = IF verdict = "stale" /\ m.by = "flush"
                 THEN [page EXCEPT ![m.of].seq = Max({@, rows[q].seq})] ELSE page
      /\ UNCHANGED <<status, latest, spent>>
  BY DEF Serve
<1>3. verdict \in {"served", "stale", "locked"}
        /\ (verdict = "stale" => rows[q].seq >= m.seq)
  BY <1>1
<1> HIDE DEF verdict
<1>4. /\ RowsOK(rows') /\ Grown(rows, rows')
      /\ verdict \in {"served", "stale"} => OnServer(rows', q)
  <2> DEFINE n == [seq |-> m.seq, answer |-> m.answer]
  <2>1. n \in Row /\ n.seq = m.seq /\ n.answer # Blank /\ n.seq > 0
    BY <1>1 DEF Row, Shown
  <2> HIDE DEF n
  <2>2. CASE verdict = "served"
    <3>1. rows' = [rows EXCEPT ![q] = n]
      BY <1>2, <2>2 DEF n
    <3>2. /\ rows' \in Rows
          /\ \A k \in Questions : rows'[k] = IF k = q THEN n ELSE rows[k]
      BY <1>1, <2>1, <3>1 DEF RowsOK, Rows
    <3> QED  BY <1>1, <2>1, <3>2 DEF RowsOK, RowShape, Grown, OnServer
  <2>3. CASE verdict # "served"
    <3>1. rows' = rows
      BY <1>2, <2>3
    <3> QED  BY <1>1, <1>3, <2>3, <3>1 DEF Grown, OnServer
  <2> QED  BY <2>2, <2>3
<1>5. \A x \in saves' : SaveOK(x, rows')
  <2>1. ASSUME m.by # "keepalive"
        PROVE  SaveOK([m EXCEPT !.state = verdict], rows')
    <3> DEFINE x == [m EXCEPT !.state = verdict]
    <3>1. x \in Save /\ x.by # "keepalive" /\ x.state = verdict /\ x.question = q
      BY <1>1, <1>3, <2>1 DEF SaveOK, Save
    <3> HIDE DEF x
    <3>2. SaveOK(x, rows')
      BY <1>4, <3>1 DEF SaveOK
    <3> QED  BY <3>2 DEF x
  <2>2. \A x \in saves : SaveOK(x, rows')
    BY <1>4, GrownKeeps DEF RunnerInv
  <2> QED  BY <1>2, <2>1, <2>2
<1>6. page' \in [Devices -> Page] /\ \A d \in Devices : PageOK(page'[d], rows')
  <2>1. \A d \in Devices : PageOK(page[d], rows')
    BY <1>4, GrownKeeps DEF RunnerInv
  <2> DEFINE n == Max({page[m.of].seq, rows[q].seq})
  <2>2. n \in 0 .. MaxSeq + 1
    <3>1. page[m.of].seq \in 0 .. MaxSeq + 1 /\ rows[q].seq \in 0 .. MaxSeq + 1
      BY <1>1 DEF RunnerInv, Page
    <3> QED  BY <3>1, MaxOfTwo
  <2>3. page' = page \/ page' = [page EXCEPT ![m.of] = [page[m.of] EXCEPT !.seq = n]]
    BY <1>1, <1>2 DEF RunnerInv
  <2> HIDE DEF n
  <2>4. PageOK([page[m.of] EXCEPT !.seq = n], rows')
    BY <1>1, <2>1, <2>2, SeqOK
  <2> QED  BY <1>1, <2>1, <2>3, <2>4 DEF RunnerInv, PageOK
<1> QED  BY <1>2, <1>4, <1>5, <1>6 DEF RunnerInv

LEMMA LoseStep ==
  ASSUME RunnerInv, NEW m \in saves, Lose(m)
  PROVE  RunnerInv'
<1>1. SaveOK(m, rows)
  BY DEF RunnerInv
<1>2. PICK late \in (IF m.state = "sent" THEN BOOLEAN ELSE {FALSE}) :
        /\ saves' = (saves \ {m})
                      \cup (IF m.by = "keepalive" THEN {} ELSE {[m EXCEPT !.state = "lost"]})
                      \cup (IF late THEN Unawaited({m}) ELSE {})
        /\ Trouble(~late)
  BY DEF Lose
<1>3. \A x \in saves' : SaveOK(x, rows)
  <2>1. Unawaited({m}) = {[m EXCEPT !.by = "keepalive"]}
    BY DEF Unawaited
  <2>2. m.by # "keepalive" => SaveOK([m EXCEPT !.state = "lost"], rows)
    BY <1>1, SaveStates
  <2>3. late => SaveOK([m EXCEPT !.by = "keepalive"], rows)
    BY <1>1, <1>2, SaveStates
  <2>4. \A x \in saves : SaveOK(x, rows)
    BY DEF RunnerInv
  <2> QED  BY <1>2, <2>1, <2>2, <2>3, <2>4
<1>4. spent' \in Spent /\ UNCHANGED <<status, rows, page, latest>>
  <2>1. (~late) \in BOOLEAN
    OBVIOUS
  <2> QED  BY <1>2, <2>1, SpentType DEF Lose, RunnerInv
<1> QED  BY <1>3, <1>4, PageStep DEF RunnerInv

LEMMA ReapStep ==
  ASSUME RunnerInv, Reap
  PROVE  RunnerInv'
<1>1. spent' \in Spent /\ UNCHANGED <<rows, page, saves, latest>> /\ status' = "abandoned"
  BY SpentType DEF Reap, RunnerInv
<1>2. \A x \in saves' : SaveOK(x, rows)
  BY <1>1 DEF RunnerInv
<1> QED  BY <1>1, <1>2, PageStep DEF RunnerInv

----------------------------------------------------------------------------
(* The specification.                                                      *)

LEMMA InitInv == Init => RunnerInv
<1> SUFFICES ASSUME Init
             PROVE  RunnerInv
  OBVIOUS
<1>1. RowsOK(rows)
  BY DEF Init, RowsOK, Rows, Row, RowShape, NoRow, Shown, OnServer
<1>2. ASSUME NEW d \in Devices
      PROVE  PageOK(page[d], rows)
  <2>1. page[d] = Loaded(rows, Nothing, {})
    BY DEF Init
  <2> QED  BY <1>1, <2>1, SheetType, LoadedOK
<1>3. page \in [Devices -> Page]
  BY <1>2 DEF Init, PageOK
<1>4. spent \in Spent
  BY DEF Init, Spent
<1> QED  BY <1>1, <1>2, <1>3, <1>4, SheetType DEF Init, RunnerInv

LEMMA NextInv == RunnerInv /\ [Next]_vars => RunnerInv'
<1> SUFFICES ASSUME RunnerInv, [Next]_vars
             PROVE  RunnerInv'
  OBVIOUS
<1>1. CASE Student
  BY <1>1, PickStep, SendSteps, UseOtherStep, KeepAllStep, ReloadStep, ConfirmStep DEF Student
<1>2. CASE Runner
  BY <1>2, SendSteps, RefetchStep, ResumeStep, HandInStep, AnswerSteps, TriedSteps DEF Runner
<1>3. CASE Outside
  BY <1>3, ReapStep, ServeStep, LoseStep DEF Outside
<1>4. CASE UNCHANGED vars
  BY <1>4 DEF vars, RunnerInv
<1> QED  BY <1>1, <1>2, <1>3, <1>4 DEF Next

LEMMA Invariance == Spec => []RunnerInv
  BY InitInv, NextInv, PTL DEF Spec

(* Every save is of a device, a question and an answer, numbered; a        *)
(* keepalive is never answered; and a question has a row exactly when it   *)
(* has an answer (views_attempt.py, save-answer).                          *)
THEOREM TypeCorrect == Spec => []TypeOK
<1>1. RunnerInv => TypeOK
  BY DEF RunnerInv, TypeOK, SaveOK, RowsOK, Rows, RowShape
<1> QED  BY <1>1, Invariance, PTL

(* Whatever was lost, late, reloaded, refused, reopened or saved by        *)
(* another device: when a page hands in, every question it shows answered  *)
(* has a row (StudentAttemptRunnerContainer.tsx:1158).  It says nothing of *)
(* a page that finds its attempt handed in by another.                     *)
THEOREM NothingOmittedHolds == Spec => []NothingOmitted
<1>1. RunnerInv => NothingOmitted
  BY DEF RunnerInv, PageOK, HandsIn, NothingOmitted
<1> QED  BY <1>1, Invariance, PTL

----------------------------------------------------------------------------
(* One page at work.  While nothing was given up and no page was left: a   *)
(* page that no answer came from owes nothing, saves nothing and offers    *)
(* exactly what it shows otherwise than it fetched; so the page that all   *)
(* answers came from is behind the rows only where it has a save under way.*)

QuietPage(p) ==
  /\ p.owed = Nothing
  /\ p.mine = Conflicts(p, p.attempt)
  /\ \A q \in Filled(p.draft) : OnServer(p.attempt, q)

Quiet(e) == QuietPage(page[e]) /\ \A m \in saves : m.of # e

CalmInv ==
  /\ spent.calm =>
       /\ \A m \in saves : m.by # "keepalive"
       /\ \A e \in Devices \ spent.users : Quiet(e)
  /\ \A d \in Devices, q \in Questions : Undisturbed(d) =>
       \/ page[d].attempt[q].answer = rows[q].answer
       \/ \E m \in saves : m.of = d /\ m.question = q

LEMMA CalmStep ==
  ASSUME RunnerInv, CalmInv, UNCHANGED rows,
         spent'.calm => spent.calm, spent.users \subseteq spent'.users,
         spent'.calm =>
           /\ \A m \in saves' : m.by # "keepalive"
           /\ \A e \in Devices \ spent'.users : QuietPage(page'[e]) /\ \A m \in saves' : m.of # e
           /\ \A d \in Devices :
                \/ page'[d].attempt = rows
                \/ /\ page'[d].attempt = page[d].attempt
                   /\ \A m \in saves : m.of = d =>
                        \E n \in saves' : n.of = d /\ n.question = m.question
  PROVE  CalmInv'
<1>1. ASSUME NEW d \in Devices, NEW q \in Questions, Undisturbed(d)'
      PROVE  \/ page'[d].attempt[q].answer = rows'[q].answer
             \/ \E n \in saves' : n.of = d /\ n.question = q
  <2>1. Undisturbed(d) /\ spent'.calm
    BY <1>1 DEF Undisturbed
  <2>2. CASE page'[d].attempt = rows
    BY <2>2
  <2>3. CASE /\ page'[d].attempt = page[d].attempt
             /\ \A m \in saves : m.of = d =>
                  \E n \in saves' : n.of = d /\ n.question = m.question
    BY <2>1, <2>3 DEF CalmInv
  <2> QED  BY <2>1, <2>2, <2>3
<1> QED  BY <1>1 DEF CalmInv, Quiet

(* After trouble that is not calm, nothing is claimed.                     *)
LEMMA CalmLost ==
  ASSUME ~spent'.calm
  PROVE  CalmInv'
  BY DEF CalmInv, Undisturbed

LEMMA TroubleCalm ==
  ASSUME spent \in Spent, NEW calm \in BOOLEAN, Trouble(calm)
  PROVE  spent'.calm = (spent.calm /\ calm) /\ spent'.users = spent.users
  BY DEF Trouble, Spent

LEMMA UsesCalm ==
  ASSUME spent \in Spent, NEW ds \in SUBSET Devices, NEW calm \in BOOLEAN, Uses(ds, calm)
  PROVE  spent'.calm = (spent.calm /\ calm) /\ spent'.users = spent.users \cup ds
  BY DEF Uses, Spent

(* Sending: the page is one that an answer came from.                      *)
LEMMA SendCalm ==
  ASSUME RunnerInv, CalmInv, NEW d \in Devices, NEW q \in Questions,
         Flush(d, q) \/ Leave(d, q) \/ KeepMine(d, q)
  PROVE  CalmInv'
<1>1. CASE Leave(d, q)
  <2>1. ~spent'.calm
    BY <1>1, TroubleCalm DEF Leave, RunnerInv
  <2> QED  BY <2>1, CalmLost
<1>2. CASE Flush(d, q) \/ KeepMine(d, q)
  <2>1. PICK v, by : by \in {"flush", "banner"} /\ Sent(d, q, v, by)
    <3>1. CASE Flush(d, q)
      <4>1. Sent(d, q, page[d].owed[q], "flush")
        BY <3>1 DEF Flush
      <4> QED  BY <4>1
    <3>2. CASE KeepMine(d, q)
      <4>1. Sent(d, q, page[d].mine[q], "banner")
        BY <3>2 DEF KeepMine
      <4> QED  BY <4>1
    <3> QED  BY <1>2, <3>1, <3>2
  <2> DEFINE n == page[d].seq + 1
             m == [of |-> d, question |-> q, answer |-> v, seq |-> n, by |-> by, state |-> "sent"]
  <2>2. saves' = saves \cup {m} /\ page' = [page EXCEPT ![d] = [page[d] EXCEPT !.seq = n]]
    BY <2>1 DEF Sent, RunnerInv
  <2>3. m.of = d /\ m.by # "keepalive"
    BY <2>1
  <2> HIDE DEF m, n
  <2>4. /\ page'[d].attempt = page[d].attempt
        /\ \A e \in Devices \ {d} : page'[e] = page[e]
    BY <2>2 DEF RunnerInv, Page
  <2>5. /\ spent'.calm => spent.calm
        /\ spent.users \subseteq spent'.users
        /\ spent.calm => d \in spent'.users
        /\ UNCHANGED rows
    <3> DEFINE calm == ~Saving(d, q)
    <3>1. calm \in BOOLEAN /\ spent \in Spent
      BY DEF RunnerInv
    <3> HIDE DEF calm
    <3>2. CASE Flush(d, q)
      <4>1. page[d].owed # Nothing /\ Uses({}, calm) /\ UNCHANGED rows
        BY <3>2 DEF Flush, Nothing, calm
      <4>2. spent.calm => d \in spent.users
        BY <4>1 DEF CalmInv, Quiet, QuietPage
      <4> QED  BY <3>1, <4>1, <4>2, UsesCalm
    <3>3. CASE KeepMine(d, q)
      <4>1. Uses({d}, calm) /\ UNCHANGED rows
        BY <3>3 DEF KeepMine, calm
      <4> QED  BY <3>1, <4>1, UsesCalm
    <3> QED  BY <1>2, <3>2, <3>3
  <2>7. ASSUME spent'.calm, NEW e \in Devices \ spent'.users
        PROVE  QuietPage(page'[e]) /\ \A x \in saves' : x.of # e
    BY <2>2, <2>3, <2>4, <2>5, <2>7 DEF CalmInv, Quiet
  <2>8. \A x \in saves' : spent'.calm => x.by # "keepalive"
    BY <2>2, <2>3, <2>5 DEF CalmInv
  <2>9. \A e \in Devices : page'[e].attempt = page[e].attempt
    BY <2>4
  <2> QED  BY <2>2, <2>5, <2>7, <2>8, <2>9, CalmStep
<1> QED  BY <1>1, <1>2

LEMMA PickCalm ==
  ASSUME RunnerInv, CalmInv, NEW d \in Devices, NEW q \in Questions, NEW v \in Answers,
         Pick(d, q, v)
  PROVE  CalmInv'
<1> DEFINE p == [page[d] EXCEPT !.draft[q] = v, !.owed[q] = v]
           x == [p EXCEPT !.stored = Filled(p.owed)]
<1>1. page' = [page EXCEPT ![d] = x] /\ UNCHANGED <<rows, saves>>
  BY DEF Pick, Set
<1>2. x.attempt = page[d].attempt
  BY DEF RunnerInv, Page
<1> HIDE DEF x
<1>3. \A e \in Devices : page'[e] = IF e = d THEN x ELSE page[e]
  BY <1>1 DEF RunnerInv
<1>4. spent'.calm = spent.calm /\ spent'.users = spent.users \cup {d}
  BY DEF Pick, RunnerInv, Spent
<1> QED  BY <1>1, <1>2, <1>3, <1>4, CalmStep DEF CalmInv, Quiet

(* The page fetches the rows: what differs of what it shows, it offers.    *)
LEMMA RefetchIs ==
  ASSUME RunnerInv, NEW d \in Devices, Refetch(d)
  PROVE  \E x : /\ page' = [page EXCEPT ![d] = x]
                /\ x.owed = page[d].owed /\ x.attempt = rows
                /\ x.seq \in Int /\ page[d].seq <= x.seq
                /\ x.draft = [q \in Questions |-> IF page[d].draft[q] = Blank THEN rows[q].answer
                                                  ELSE page[d].draft[q]]
                /\ x.mine = IF page[d].attempt = rows THEN page[d].mine ELSE Conflicts(x, rows)
<1> DEFINE f == Fetched(page[d])
           c == Compared(page[d])
<1>1. page[d] \in Page /\ RowsOK(rows)
  BY DEF RunnerInv
<1>2. /\ f \in Page /\ f.owed = page[d].owed /\ f.attempt = rows /\ page[d].seq <= f.seq
      /\ f.draft = [q \in Questions |-> IF page[d].draft[q] = Blank THEN rows[q].answer
                                        ELSE page[d].draft[q]]
  BY <1>1, FetchedIs
<1>3. PICK s \in Sheet : /\ c = [f EXCEPT !.mine = s]
                         /\ s = IF page[d].attempt = rows THEN page[d].mine ELSE Conflicts(f, rows)
  BY <1>1, ComparedIs
<1> HIDE DEF f
<1>4. /\ c \in Page /\ c.owed = f.owed /\ c.attempt = f.attempt /\ c.seq = f.seq
      /\ c.draft = f.draft /\ c.mine = s
  BY <1>2, <1>3 DEF Page
<1>5. PICK stage : Told(c) = [c EXCEPT !.stage = stage]
  BY <1>4, ToldIs
<1>6. PICK x : /\ x = c \/ x = [c EXCEPT !.stage = stage]
               /\ page' = [page EXCEPT ![d] = x]
  BY <1>5 DEF Refetch, Set
<1> HIDE DEF c
<1>7. /\ x.owed = f.owed /\ x.attempt = f.attempt /\ x.seq = f.seq
      /\ x.draft = f.draft /\ x.mine = s
  BY <1>4, <1>6 DEF Page
<1>8. Conflicts(f, rows) = Conflicts(x, rows) /\ x.seq \in Int
  BY <1>2, <1>7 DEF Conflicts, Page
<1> QED  BY <1>2, <1>3, <1>6, <1>7, <1>8

LEMMA RefetchCalm ==
  ASSUME RunnerInv, CalmInv, NEW d \in Devices, Refetch(d)
  PROVE  CalmInv'
<1>1. PICK x : /\ page' = [page EXCEPT ![d] = x]
               /\ x.owed = page[d].owed /\ x.attempt = rows
               /\ x.draft = [q \in Questions |-> IF page[d].draft[q] = Blank THEN rows[q].answer
                                                 ELSE page[d].draft[q]]
               /\ x.mine = IF page[d].attempt = rows THEN page[d].mine ELSE Conflicts(x, rows)
  BY RefetchIs
<1>2. page[d] \in Page /\ RowsOK(rows) /\ PageOK(page[d], rows) /\ UNCHANGED <<rows, saves, spent>>
  BY DEF RunnerInv, Refetch
<1>3. QuietPage(page[d]) => QuietPage(x)
  <2>1. Conflicts(page[d], rows) = Conflicts(x, rows)
    BY <1>1 DEF Conflicts, Only
  <2>2. QuietPage(page[d]) => x.mine = Conflicts(x, rows)
    BY <1>1, <2>1 DEF QuietPage
  <2>3. ASSUME QuietPage(page[d]), NEW q \in Filled(x.draft)
        PROVE  OnServer(rows, q)
    BY <1>1, <1>2, <2>3
       DEF QuietPage, Filled, PageOK, Knows, Grown, RowsOK, RowShape
  <2> QED  BY <1>1, <2>2, <2>3 DEF QuietPage
<1>4. \A e \in Devices : page'[e] = IF e = d THEN x ELSE page[e]
  BY <1>1 DEF RunnerInv
<1>5. spent.calm =>
        /\ \A m \in saves' : m.by # "keepalive"
        /\ \A e \in Devices \ spent.users : QuietPage(page'[e]) /\ \A m \in saves' : m.of # e
  BY <1>2, <1>3, <1>4 DEF CalmInv, Quiet
<1>6. \A e \in Devices : page'[e].attempt = rows \/ page'[e].attempt = page[e].attempt
  BY <1>1, <1>4
<1> QED  BY <1>2, <1>5, <1>6, CalmStep

LEMMA UseOtherCalm ==
  ASSUME RunnerInv, CalmInv, NEW d \in Devices, NEW q \in Questions, UseOther(d, q)
  PROVE  CalmInv'
<1> DEFINE a == page[d].attempt
           v == [page[d].draft EXCEPT ![q] = a[q].answer]
           o == [page[d].owed EXCEPT ![q] = Blank]
           p == [page[d] EXCEPT !.draft[q] = a[q].answer, !.owed[q] = Blank]
           x == [p EXCEPT !.mine = Conflicts(p, p.attempt), !.stored = Filled(p.owed)]
<1>1. page' = [page EXCEPT ![d] = x] /\ UNCHANGED <<rows, saves>>
  BY DEF UseOther, Set
<1>0. (spent'.calm => spent.calm) /\ spent'.users = spent.users
  <2>1. {} \in SUBSET Devices /\ (~Saving(d, q)) \in BOOLEAN
    OBVIOUS
  <2> QED  BY <2>1, UsesCalm DEF UseOther, RunnerInv
<1>2. page[d] \in Page /\ PageOK(page[d], rows) /\ page[d].owed \in Sheet /\ page[d].draft \in Sheet
  BY DEF RunnerInv, Page
<1>3. p.attempt = a /\ p.draft = v /\ p.owed = o
  BY <1>2 DEF Page
<1>4. x.owed = o /\ x.attempt = a /\ x.draft = v /\ x.mine = Conflicts(p, a)
  <2>1. p = [page[d] EXCEPT !.draft = v, !.owed = o]
    BY <1>2 DEF Page
  <2> HIDE DEF v, o
  <2> QED  BY <1>2, <1>3, <2>1 DEF Page
<1> HIDE DEF p, x
<1>5. QuietPage(page[d]) => QuietPage(x)
  <2>1. Conflicts(p, a) = Conflicts(x, x.attempt)
    BY <1>3, <1>4 DEF Conflicts
  <2>2. page[d].owed = Nothing => o = Nothing
    BY <1>2 DEF Nothing, Sheet
  <2>3. ASSUME QuietPage(page[d]), NEW k \in Filled(v)
        PROVE  OnServer(a, k)
    BY <1>2, <2>3 DEF QuietPage, Filled, PageOK, Knows, RowShape, Sheet
  <2> QED  BY <1>4, <2>1, <2>2, <2>3 DEF QuietPage
<1>6. \A e \in Devices : page'[e] = IF e = d THEN x ELSE page[e]
  BY <1>1 DEF RunnerInv
<1>7. spent.calm =>
        /\ \A m \in saves' : m.by # "keepalive"
        /\ \A e \in Devices \ spent.users : QuietPage(page'[e]) /\ \A m \in saves' : m.of # e
  BY <1>1, <1>5, <1>6 DEF CalmInv, Quiet
<1>8. \A e \in Devices : page'[e].attempt = page[e].attempt
  BY <1>4, <1>6
<1> QED  BY <1>0, <1>1, <1>7, <1>8, CalmStep

LEMMA KeepAllCalm ==
  ASSUME RunnerInv, CalmInv, NEW d \in Devices, KeepAllMine(d)
  PROVE  CalmInv'
<1> DEFINE Kept(s) == [q \in Questions |-> IF page[d].mine[q] = Blank THEN s[q] ELSE page[d].mine[q]]
           p == [page[d] EXCEPT !.owed = Kept(@), !.draft = Kept(@), !.mine = Nothing]
           x == [p EXCEPT !.stored = Filled(p.owed)]
<1>1. page' = [page EXCEPT ![d] = x] /\ UNCHANGED <<rows, saves>>
  BY DEF KeepAllMine, Set
<1>2. x.attempt = page[d].attempt
  BY DEF RunnerInv, Page
<1> HIDE DEF x
<1>3. \A e \in Devices : page'[e] = IF e = d THEN x ELSE page[e]
  BY <1>1 DEF RunnerInv
<1>4. spent'.calm = spent.calm /\ spent'.users = spent.users \cup {d}
  <2>1. {d} \in SUBSET Devices /\ TRUE \in BOOLEAN
    OBVIOUS
  <2> QED  BY <2>1, UsesCalm DEF KeepAllMine, RunnerInv, Spent
<1> QED  BY <1>1, <1>2, <1>3, <1>4, CalmStep DEF CalmInv, Quiet

(* A page that no answer came from has nothing to heal.                    *)
LEMMA ConfirmCalm ==
  ASSUME RunnerInv, CalmInv, NEW d \in Devices, Confirm(d)
  PROVE  CalmInv'
<1> DEFINE h == Healed(page[d])
           x == [page[d] EXCEPT !.stage = "submitting", !.owed = h]
<1>1. page' = [page EXCEPT ![d] = x] /\ UNCHANGED <<rows, saves, spent>> /\ ~Banner(page[d])
  BY DEF Confirm, Set
<1>2. page[d] \in Page
  BY DEF RunnerInv
<1>3. QuietPage(page[d]) => h = Nothing
  <2> SUFFICES ASSUME QuietPage(page[d])
               PROVE  h = Nothing
    OBVIOUS
  <2>1. ASSUME NEW q \in Questions, page[d].draft[q] # Blank
        PROVE  page[d].draft[q] = page[d].attempt[q].answer /\ page[d].owed[q] = Blank
    <3>1. OnServer(page[d].attempt, q) /\ page[d].owed[q] = Blank
      BY <2>1 DEF QuietPage, Filled, Nothing
    <3>2. page[d].mine[q] = Blank
      BY <1>1 DEF Banner, Filled
    <3>3. Conflicts(page[d], page[d].attempt)[q] = Blank
      BY <3>2 DEF QuietPage
    <3> QED  BY <2>1, <3>1, <3>3 DEF Conflicts, Only
  <2> QED  BY <2>1 DEF Healed, Only, Nothing
<1> HIDE DEF h
<1>4. /\ x.owed = h /\ x.attempt = page[d].attempt /\ x.draft = page[d].draft
      /\ x.mine = page[d].mine
  BY <1>2 DEF Page
<1> HIDE DEF x
<1>5. QuietPage(page[d]) => QuietPage(x)
  <2>1. Conflicts(x, x.attempt) = Conflicts(page[d], page[d].attempt)
    BY <1>4 DEF Conflicts
  <2> QED  BY <1>3, <1>4, <2>1 DEF QuietPage
<1>6. \A e \in Devices : page'[e] = IF e = d THEN x ELSE page[e]
  BY <1>1 DEF RunnerInv
<1>7. spent.calm =>
        /\ \A m \in saves' : m.by # "keepalive"
        /\ \A e \in Devices \ spent.users : QuietPage(page'[e]) /\ \A m \in saves' : m.of # e
  BY <1>1, <1>5, <1>6 DEF CalmInv, Quiet
<1>8. \A e \in Devices : page'[e].attempt = page[e].attempt
  BY <1>4, <1>6
<1> QED  BY <1>1, <1>7, <1>8, CalmStep

LEMMA HandInCalm ==
  ASSUME RunnerInv, CalmInv, NEW d \in Devices, HandIn(d)
  PROVE  CalmInv'
<1>1. PICK stage : page' = [page EXCEPT ![d].stage = stage]
  BY DEF HandIn, Set
<1>2. UNCHANGED <<rows, saves>> /\ page[d] \in Page
        /\ spent'.calm = spent.calm /\ spent'.users = spent.users
  BY TroubleCalm DEF HandIn, RunnerInv, Spent
<1> DEFINE x == [page[d] EXCEPT !.stage = stage]
<1>3. /\ x.owed = page[d].owed /\ x.attempt = page[d].attempt /\ x.draft = page[d].draft
      /\ x.mine = page[d].mine /\ page' = [page EXCEPT ![d] = x]
  BY <1>1, <1>2 DEF Page, RunnerInv
<1> HIDE DEF x
<1>4. QuietPage(page[d]) => QuietPage(x)
  BY <1>3 DEF QuietPage, Conflicts
<1>5. \A e \in Devices : page'[e] = IF e = d THEN x ELSE page[e]
  BY <1>3 DEF RunnerInv
<1>6. spent.calm =>
        /\ \A m \in saves' : m.by # "keepalive"
        /\ \A e \in Devices \ spent.users : QuietPage(page'[e]) /\ \A m \in saves' : m.of # e
  BY <1>2, <1>4, <1>5 DEF CalmInv, Quiet
<1>7. \A e \in Devices : page'[e].attempt = page[e].attempt
  BY <1>3, <1>5
<1> QED  BY <1>2, <1>6, <1>7, CalmStep

(* An answer: the page that asked fetches the rows.                        *)
LEMMA AnswerCalm ==
  ASSUME RunnerInv, CalmInv, NEW m \in saves, FlushAnswered(m) \/ BannerAnswered(m)
  PROVE  CalmInv'
<1> DEFINE d == m.of
<1>1. d \in Devices /\ page[d] \in Page /\ RowsOK(rows) /\ SaveOK(m, rows) /\ PageOK(page[d], rows)
  BY DEF RunnerInv, SaveOK, Save
<1>2. saves' = saves \ {m} /\ UNCHANGED <<rows, spent>>
  BY DEF FlushAnswered, BannerAnswered
<1>3. PICK x : page' = [page EXCEPT ![d] = x] /\ x.attempt = rows
  <2>1. CASE FlushAnswered(m)
    <3> DEFINE f == Fetched(Cleared(page[d], m))
               y == [f EXCEPT !.mine = Nothing]
    <3>1. PageOK(Cleared(page[d], m), rows)
      BY <1>1, <2>1, ClearedOK DEF FlushAnswered
    <3>2. f \in Page /\ f.attempt = rows
      BY <1>1, <3>1, FetchedIs DEF PageOK
    <3>3. page' = [page EXCEPT ![d] = y]
      BY <2>1 DEF FlushAnswered, Set
    <3> HIDE DEF f
    <3>4. y.attempt = rows
      BY <3>2 DEF Page
    <3> HIDE DEF y
    <3> QED  BY <3>3, <3>4
  <2>2. CASE BannerAnswered(m)
    <3> DEFINE f == Fetched(page[d])
               p == [f EXCEPT !.draft[m.question] = m.answer, !.owed[m.question] = Blank]
               y == [p EXCEPT !.mine = Conflicts(p, rows), !.stored = Filled(p.owed)]
    <3>1. f \in Page /\ f.attempt = rows
      BY <1>1, FetchedIs
    <3>2. page' = [page EXCEPT ![d] = y]
      BY <2>2 DEF BannerAnswered, Set
    <3> HIDE DEF f
    <3>3. y.attempt = rows
      BY <3>1 DEF Page
    <3> HIDE DEF y
    <3> QED  BY <3>2, <3>3
  <2> QED  BY <2>1, <2>2
<1>4. \A e \in Devices : page'[e] = IF e = d THEN x ELSE page[e]
  BY <1>3 DEF RunnerInv
<1>5. spent.calm => d \in spent.users
  BY <1>1 DEF CalmInv, Quiet
<1>6. ASSUME spent.calm, NEW e \in Devices \ spent.users
      PROVE  QuietPage(page'[e]) /\ \A n \in saves' : n.of # e
  BY <1>2, <1>4, <1>5, <1>6 DEF CalmInv, Quiet
<1>7. spent.calm => \A n \in saves' : n.by # "keepalive"
  BY <1>2 DEF CalmInv
<1>8. ASSUME NEW e \in Devices
      PROVE  \/ page'[e].attempt = rows
             \/ /\ page'[e].attempt = page[e].attempt
                /\ \A n \in saves : n.of = e => \E k \in saves' : k.of = e /\ k.question = n.question
  <2>1. CASE e = d
    BY <1>3, <1>4, <2>1
  <2>2. CASE e # d
    BY <1>2, <1>4, <2>2
  <2> QED  BY <2>1, <2>2
<1> QED  BY <1>2, <1>6, <1>7, <1>8, CalmStep

(* A save whose state changes is still under way.                          *)
LEMMA SaveKept ==
  ASSUME RunnerInv, CalmInv, NEW m \in saves, NEW state, UNCHANGED <<rows, page>>,
         saves' = (saves \ {m}) \cup {[m EXCEPT !.state = state]},
         spent'.calm = spent.calm, spent'.users = spent.users
  PROVE  CalmInv'
<1> DEFINE n == [m EXCEPT !.state = state]
<1>1. n.of = m.of /\ n.question = m.question /\ n.by = m.by
  BY DEF RunnerInv, SaveOK, Save
<1>2. saves' = (saves \ {m}) \cup {n}
  OBVIOUS
<1> HIDE DEF n
<1>3. ASSUME spent'.calm
      PROVE  /\ \A x \in saves' : x.by # "keepalive"
             /\ \A e \in Devices \ spent'.users : QuietPage(page'[e]) /\ \A x \in saves' : x.of # e
  BY <1>1, <1>2, <1>3 DEF CalmInv, Quiet
<1>4. ASSUME NEW d \in Devices, NEW x \in saves, x.of = d
      PROVE  \E y \in saves' : y.of = d /\ y.question = x.question
  BY <1>1, <1>2, <1>4
<1> QED  BY <1>3, <1>4, CalmStep

LEMMA TriedCalm ==
  ASSUME RunnerInv, CalmInv, NEW m \in saves, Retry(m) \/ GiveUp(m) \/ Resurrect(m)
  PROVE  CalmInv'
<1>1. CASE Retry(m) \/ Resurrect(m)
  BY <1>1, SaveKept DEF Retry, Resurrect
<1>2. CASE GiveUp(m)
  BY <1>2, CalmLost DEF GiveUp, RunnerInv, Spent
<1> QED  BY <1>1, <1>2

LEMMA LoseCalm ==
  ASSUME RunnerInv, CalmInv, NEW m \in saves, Lose(m)
  PROVE  CalmInv'
<1>1. PICK late \in (IF m.state = "sent" THEN BOOLEAN ELSE {FALSE}) :
        /\ saves' = (saves \ {m})
                      \cup (IF m.by = "keepalive" THEN {} ELSE {[m EXCEPT !.state = "lost"]})
                      \cup (IF late THEN Unawaited({m}) ELSE {})
        /\ Trouble(~late)
  BY DEF Lose
<1>2. (~late) \in BOOLEAN /\ UNCHANGED <<rows, page>>
  BY DEF Lose
<1>3. spent'.calm = (spent.calm /\ ~late) /\ spent'.users = spent.users
  BY <1>1, <1>2, TroubleCalm DEF RunnerInv
<1>4. CASE late \/ ~spent.calm
  BY <1>3, <1>4, CalmLost
<1>5. CASE ~late /\ spent.calm
  <2>1. m.by # "keepalive"
    BY <1>5 DEF CalmInv
  <2>2. saves' = (saves \ {m}) \cup {[m EXCEPT !.state = "lost"]}
    BY <1>1, <1>5, <2>1
  <2>3. spent'.calm = spent.calm
    BY <1>3, <1>5
  <2> QED  BY <1>2, <1>3, <2>2, <2>3, SaveKept
<1> QED  BY <1>4, <1>5

(* The only page that saves is behind the row it is just saving.           *)
LEMMA ServeCalm ==
  ASSUME RunnerInv, CalmInv, NEW m \in saves, Serve(m)
  PROVE  CalmInv'
<1>1. UNCHANGED <<spent, status, latest>>
  BY DEF Serve
<1>2. CASE ~spent.calm
  BY <1>1, <1>2, CalmLost
<1>3. CASE spent.calm
  <2>1. m.by # "keepalive" /\ m \in Save /\ m.of \in Devices /\ m.question \in Questions
    BY <1>3 DEF CalmInv, RunnerInv, SaveOK, Save
  <2>2. m.of \in spent.users
    BY <1>3, <2>1 DEF CalmInv, Quiet
  <2>3. PICK v : saves' = (saves \ {m}) \cup {[m EXCEPT !.state = v]}
    BY <2>1 DEF Serve
  <2> DEFINE n == [m EXCEPT !.state = v]
  <2>4. n.of = m.of /\ n.question = m.question /\ n.by = m.by
    BY <2>1 DEF Save
  <2>5. saves' = (saves \ {m}) \cup {n}
    BY <2>3
  <2> HIDE DEF n
  <2>6. \A q \in Questions : q # m.question => rows'[q] = rows[q]
    BY DEF Serve, RunnerInv, RowsOK, Rows
  <2>7. /\ \A e \in Devices : page'[e].attempt = page[e].attempt
        /\ \A e \in Devices \ {m.of} : page'[e] = page[e]
    BY <2>1 DEF Serve, RunnerInv, Page
  <2>8. ASSUME NEW d \in Devices, NEW q \in Questions, Undisturbed(d)'
        PROVE  \/ page'[d].attempt[q].answer = rows'[q].answer
               \/ \E x \in saves' : x.of = d /\ x.question = q
    <3>1. Undisturbed(d) /\ m.of = d
      BY <1>1, <2>2, <2>8 DEF Undisturbed
    <3>2. CASE q = m.question
      BY <2>4, <2>5, <3>1, <3>2
    <3>3. CASE q # m.question
      BY <2>4, <2>5, <2>6, <2>7, <3>1, <3>3 DEF CalmInv
    <3> QED  BY <3>2, <3>3
  <2>9. \A x \in saves' : x.by # "keepalive"
    BY <1>3, <2>4, <2>5 DEF CalmInv
  <2>10. ASSUME NEW e \in Devices \ spent.users
         PROVE  Quiet(e)'
    BY <1>3, <2>2, <2>4, <2>5, <2>7 DEF CalmInv, Quiet, QuietPage
  <2> QED  BY <1>1, <2>8, <2>9, <2>10 DEF CalmInv
<1> QED  BY <1>2, <1>3

(* The sweep, and the page that reopens what it swept.                     *)
LEMMA StatusOnly ==
  ASSUME spent \in Spent, Reap \/ \E d \in Devices : Resume(d)
  PROVE  spent'.calm = spent.calm /\ spent'.users = spent.users /\ UNCHANGED <<rows, page, saves>>
  BY TroubleCalm DEF Reap, Resume, Spent

LEMMA InitCalm == Init => CalmInv
<1> SUFFICES ASSUME Init
             PROVE  CalmInv
  OBVIOUS
<1>1. ASSUME NEW e \in Devices
      PROVE  page[e].attempt = rows /\ QuietPage(page[e])
  <2>1. RowsOK(rows)
    BY InitInv DEF RunnerInv
  <2>2. /\ page[e].owed = Only(Nothing, {}) /\ page[e].attempt = rows
        /\ page[e].mine = Nothing
        /\ page[e].draft = [q \in Questions |-> IF Nothing[q] = Blank THEN rows[q].answer
                                                ELSE Nothing[q]]
    BY DEF Init, Loaded
  <2>3. page[e].draft = Nothing /\ page[e].owed = Nothing
    BY <2>2 DEF Init, NoRow, Nothing, Only
  <2>4. Conflicts(page[e], page[e].attempt) = Nothing
    BY <2>3 DEF Conflicts, Only, Nothing
  <2> QED  BY <2>2, <2>3, <2>4, SheetType DEF QuietPage
<1> QED  BY <1>1 DEF Init, CalmInv, Quiet

LEMMA NextCalm == RunnerInv /\ CalmInv /\ [Next]_vars => CalmInv'
<1> SUFFICES ASSUME RunnerInv, CalmInv, [Next]_vars
             PROVE  CalmInv'
  OBVIOUS
<1>1. ASSUME NEW d \in Devices, Reload(d)
      PROVE  CalmInv'
  <2>1. ~spent'.calm
    BY <1>1, TroubleCalm DEF Reload, RunnerInv
  <2> QED  BY <2>1, CalmLost
<1>2. CASE Student
  BY <1>1, <1>2, PickCalm, SendCalm, UseOtherCalm, KeepAllCalm, ConfirmCalm DEF Student
<1>3. ASSUME Reap \/ \E d \in Devices : Resume(d)
      PROVE  CalmInv'
  <2>1. spent'.calm = spent.calm /\ spent'.users = spent.users /\ UNCHANGED <<rows, page, saves>>
    BY <1>3, StatusOnly DEF RunnerInv
  <2> QED  BY <2>1, CalmStep DEF CalmInv, Quiet
<1>4. CASE Runner
  BY <1>3, <1>4, SendCalm, RefetchCalm, HandInCalm, AnswerCalm, TriedCalm DEF Runner
<1>5. CASE Outside
  BY <1>3, <1>5, ServeCalm, LoseCalm DEF Outside
<1>6. CASE UNCHANGED vars
  BY <1>6 DEF vars, CalmInv, Quiet, QuietPage, Undisturbed
<1> QED  BY <1>2, <1>4, <1>5, <1>6 DEF Next

----------------------------------------------------------------------------
(* What a page that works alone knows of one question: what is owed is     *)
(* what is shown; at most one save of it is under way, not behind the row; *)
(* an answered save is the row; and without a save, what is shown is owed  *)
(* or is the row.                                                          *)

Of(ms, d, q) == {m \in ms : m.of = d /\ m.question = q}

Ahead(m, p, row) ==
  /\ row.seq <= m.seq /\ m.seq <= p.seq
  /\ row.seq = m.seq => row.answer = m.answer
  /\ m.state \in {"served", "stale"} => row.seq = m.seq

Covered(p, row, ms, q) ==
  /\ p.owed[q] \in {Blank, p.draft[q]}
  /\ \A m \in ms : m.by = "flush" => p.owed[q] # Blank
  /\ \/ ms # {}
     \/ p.owed[q] # Blank
     \/ p.draft[q] \in {Blank, row.answer}

Works(p, r, ms, d, q) ==
  /\ Covered(p, r[q], Of(ms, d, q), q)
  /\ r[q].seq <= p.seq
  /\ \A m \in Of(ms, d, q) : Ahead(m, p, r[q]) /\ \A n \in Of(ms, d, q) : n = m

WorkInv ==
  \A d \in Devices, q \in Questions : Undisturbed(d) => Works(page[d], rows, saves, d, q)

Calmer ==
  /\ spent'.calm => spent.calm
  /\ spent.users \subseteq spent'.users

LEMMA WasUndisturbed ==
  ASSUME Calmer, NEW d \in Devices, Undisturbed(d)'
  PROVE  Undisturbed(d)
  BY DEF Calmer, Undisturbed

(* After a step that is not calm nothing is claimed.                       *)
LEMMA WorkLost ==
  ASSUME ~spent'.calm
  PROVE  WorkInv'
  BY DEF WorkInv, Undisturbed

(* A page changes, and saves of it may be done with.                       *)
LEMMA WorkStep ==
  ASSUME RunnerInv, WorkInv, Calmer, UNCHANGED rows, NEW d \in Devices, NEW x,
         page' = [page EXCEPT ![d] = x], x.seq \in Int, page[d].seq <= x.seq,
         saves' \subseteq saves, \A m \in saves \ saves' : m.of = d,
         \A q \in Questions : Undisturbed(d) /\ Undisturbed(d)' =>
           Covered(x, rows[q], Of(saves', d, q), q)
  PROVE  WorkInv'
<1> SUFFICES ASSUME NEW e \in Devices, NEW q \in Questions, Undisturbed(e)'
             PROVE  Works(page'[e], rows, saves', e, q)
  BY DEF WorkInv
<1>1. Undisturbed(e) /\ Works(page[e], rows, saves, e, q)
  BY WasUndisturbed DEF WorkInv
<1>2. page'[e] = IF e = d THEN x ELSE page[e]
  BY DEF RunnerInv
<1>3. CASE e # d
  <2>1. Of(saves', e, q) = Of(saves, e, q)
    BY <1>3 DEF Of
  <2> QED  BY <1>1, <1>2, <1>3, <2>1 DEF Works
<1>4. CASE e = d
  <2>1. Covered(x, rows[q], Of(saves', d, q), q)
    BY <1>1, <1>4
  <2>2. rows[q].seq \in Int /\ page[d].seq \in Int
    BY DEF RunnerInv, RowsOK, Rows, Row, Page
  <2>3. rows[q].seq <= x.seq
    BY <1>1, <1>4, <2>2 DEF Works
  <2>4. ASSUME NEW m \in Of(saves', d, q)
        PROVE  Ahead(m, x, rows[q]) /\ \A n \in Of(saves', d, q) : n = m
    <3>1. m \in Of(saves, d, q) /\ Of(saves', d, q) \subseteq Of(saves, d, q) /\ m \in saves
      BY DEF Of
    <3>2. m.seq \in Int
      BY <3>1 DEF RunnerInv, SaveOK, Save
    <3>3. Ahead(m, page[d], rows[q]) /\ \A n \in Of(saves', d, q) : n = m
      BY <1>1, <1>4, <3>1 DEF Works
    <3> QED  BY <2>2, <3>2, <3>3 DEF Ahead
  <2> QED  BY <1>2, <1>4, <2>1, <2>3, <2>4 DEF Works
<1> QED  BY <1>3, <1>4

(* The page's own steps: its number and its saves stay.                    *)
LEMMA OwnStep ==
  ASSUME RunnerInv, WorkInv, Calmer, UNCHANGED <<rows, saves>>, NEW d \in Devices, NEW x,
         page' = [page EXCEPT ![d] = x], x.seq = page[d].seq,
         \A q \in Questions : Undisturbed(d) /\ Undisturbed(d)' =>
           Covered(x, rows[q], Of(saves, d, q), q)
  PROVE  WorkInv'
<1>1. x.seq \in Int /\ page[d].seq <= x.seq
  BY DEF RunnerInv, Page
<1>2. saves' \subseteq saves /\ saves \ saves' = {}
  OBVIOUS
<1> QED  BY <1>1, <1>2, WorkStep

LEMMA OldWork ==
  ASSUME WorkInv, NEW d \in Devices, Undisturbed(d), NEW q \in Questions
  PROVE  Covered(page[d], rows[q], Of(saves, d, q), q)
  BY DEF WorkInv, Works

LEMMA PickWork ==
  ASSUME RunnerInv, WorkInv, NEW d \in Devices, NEW q \in Questions, NEW v \in Answers,
         Pick(d, q, v)
  PROVE  WorkInv'
<1> DEFINE v1 == [page[d].draft EXCEPT ![q] = v]
           o == [page[d].owed EXCEPT ![q] = v]
           p == [page[d] EXCEPT !.draft[q] = v, !.owed[q] = v]
           x == [p EXCEPT !.stored = Filled(p.owed)]
<1>1. page' = [page EXCEPT ![d] = x] /\ UNCHANGED <<rows, saves>>
  BY DEF Pick, Set
<1>2. page[d] \in Page /\ page[d].draft \in Sheet /\ page[d].owed \in Sheet
  BY DEF RunnerInv, Page
<1>3. x.draft = v1 /\ x.owed = o /\ x.seq = page[d].seq
  BY <1>2 DEF Page
<1> HIDE DEF p, x
<1>4. \A k \in Questions : /\ v1[k] = IF k = q THEN v ELSE page[d].draft[k]
                           /\ o[k] = IF k = q THEN v ELSE page[d].owed[k]
  BY <1>2 DEF Sheet
<1> HIDE DEF v1, o
<1>5. Calmer /\ v # Blank /\ page[d].seq \in Int
  BY <1>2 DEF Calmer, Pick, RunnerInv, Spent, Page
<1>6. ASSUME Undisturbed(d), Undisturbed(d)', NEW k \in Questions
      PROVE  Covered(x, rows[k], Of(saves, d, k), k)
  BY <1>3, <1>4, <1>5, <1>6, OldWork DEF Covered
<1> QED  BY <1>1, <1>3, <1>5, <1>6, OwnStep

LEMMA RefetchWork ==
  ASSUME RunnerInv, WorkInv, NEW d \in Devices, Refetch(d)
  PROVE  WorkInv'
<1>1. PICK x : /\ page' = [page EXCEPT ![d] = x] /\ x.owed = page[d].owed
               /\ x.seq \in Int /\ page[d].seq <= x.seq
               /\ x.draft = [q \in Questions |-> IF page[d].draft[q] = Blank THEN rows[q].answer
                                                 ELSE page[d].draft[q]]
  BY RefetchIs
<1>2. UNCHANGED <<rows, saves, spent>> /\ Calmer
  BY DEF Refetch, Calmer
<1>3. ASSUME Undisturbed(d), Undisturbed(d)', NEW k \in Questions
      PROVE  Covered(x, rows[k], Of(saves, d, k), k)
  BY <1>1, <1>3, OldWork DEF Covered
<1> QED  BY <1>1, <1>2, <1>3, WorkStep

LEMMA UseOtherWork ==
  ASSUME RunnerInv, CalmInv, WorkInv, NEW d \in Devices, NEW q \in Questions, UseOther(d, q)
  PROVE  WorkInv'
<1> DEFINE a == page[d].attempt[q].answer
           v == [page[d].draft EXCEPT ![q] = a]
           o == [page[d].owed EXCEPT ![q] = Blank]
           p == [page[d] EXCEPT !.draft[q] = a, !.owed[q] = Blank]
           x == [p EXCEPT !.mine = Conflicts(p, p.attempt), !.stored = Filled(p.owed)]
<1>1. page' = [page EXCEPT ![d] = x] /\ UNCHANGED <<rows, saves>>
  BY DEF UseOther, Set
<1>2. page[d] \in Page /\ page[d].draft \in Sheet /\ page[d].owed \in Sheet /\ page[d].seq \in Int
  BY DEF RunnerInv, Page
<1>3. x.draft = v /\ x.owed = o /\ x.seq = page[d].seq
  <2>1. p = [page[d] EXCEPT !.draft = v, !.owed = o] /\ p.seq = page[d].seq
    BY <1>2 DEF Page
  <2> HIDE DEF v, o
  <2> QED  BY <1>2, <2>1 DEF Page
<1> HIDE DEF p, x
<1>4. \A k \in Questions : /\ v[k] = IF k = q THEN a ELSE page[d].draft[k]
                           /\ o[k] = IF k = q THEN Blank ELSE page[d].owed[k]
  BY <1>2 DEF Sheet
<1> HIDE DEF v, o
<1>5. Calmer /\ (spent'.calm => ~Saving(d, q))
  <2>1. {} \in SUBSET Devices /\ (~Saving(d, q)) \in BOOLEAN
    OBVIOUS
  <2> QED  BY <2>1, UsesCalm DEF UseOther, RunnerInv, Calmer
<1>6. ASSUME Undisturbed(d), Undisturbed(d)'
      PROVE  Of(saves, d, q) = {} /\ a = rows[q].answer
  BY <1>5, <1>6 DEF CalmInv, Undisturbed, Saving, Of
<1>7. ASSUME Undisturbed(d), Undisturbed(d)', NEW k \in Questions
      PROVE  Covered(x, rows[k], Of(saves, d, k), k)
  BY <1>3, <1>4, <1>6, <1>7, OldWork DEF Covered
<1> QED  BY <1>1, <1>2, <1>3, <1>5, <1>7, OwnStep

LEMMA KeepAllWork ==
  ASSUME RunnerInv, WorkInv, NEW d \in Devices, KeepAllMine(d)
  PROVE  WorkInv'
<1> DEFINE Kept(s) == [q \in Questions |-> IF page[d].mine[q] = Blank THEN s[q] ELSE page[d].mine[q]]
           p == [page[d] EXCEPT !.owed = Kept(@), !.draft = Kept(@), !.mine = Nothing]
           x == [p EXCEPT !.stored = Filled(p.owed)]
<1>1. page' = [page EXCEPT ![d] = x] /\ UNCHANGED <<rows, saves>>
  BY DEF KeepAllMine, Set
<1>2. page[d] \in Page /\ page[d].seq \in Int
  BY DEF RunnerInv, Page
<1>3. x.draft = Kept(page[d].draft) /\ x.owed = Kept(page[d].owed) /\ x.seq = page[d].seq
  BY <1>2 DEF Page
<1> HIDE DEF p, x
<1>4. Calmer
  <2>1. {d} \in SUBSET Devices /\ TRUE \in BOOLEAN
    OBVIOUS
  <2> QED  BY <2>1, UsesCalm DEF KeepAllMine, RunnerInv, Calmer
<1>5. ASSUME Undisturbed(d), Undisturbed(d)', NEW k \in Questions
      PROVE  Covered(x, rows[k], Of(saves, d, k), k)
  BY <1>3, <1>5, OldWork DEF Covered
<1> QED  BY <1>1, <1>2, <1>3, <1>4, <1>5, OwnStep

(* The heal keeps what was owed, for it was what is shown.                 *)
LEMMA ConfirmWork ==
  ASSUME RunnerInv, WorkInv, NEW d \in Devices, Confirm(d)
  PROVE  WorkInv'
<1> DEFINE h == Healed(page[d])
           x == [page[d] EXCEPT !.stage = "submitting", !.owed = h]
<1>1. page' = [page EXCEPT ![d] = x] /\ UNCHANGED <<rows, saves, spent>>
  BY DEF Confirm, Set
<1>2. page[d] \in Page /\ page[d].seq \in Int
  BY DEF RunnerInv, Page
<1>3. \A q \in Questions : /\ h[q] \in {Blank, page[d].draft[q]}
                           /\ page[d].owed[q] = page[d].draft[q] => h[q] = page[d].owed[q]
  BY DEF Healed, Only
<1> HIDE DEF h
<1>4. x.draft = page[d].draft /\ x.owed = h /\ x.seq = page[d].seq
  BY <1>2 DEF Page
<1> HIDE DEF x
<1>5. Calmer
  BY <1>1 DEF Calmer
<1>6. ASSUME Undisturbed(d), NEW q \in Questions, page[d].owed[q] # Blank
      PROVE  h[q] # Blank
  BY <1>3, <1>6, OldWork DEF Covered
<1>7. ASSUME Undisturbed(d), Undisturbed(d)', NEW k \in Questions
      PROVE  Covered(x, rows[k], Of(saves, d, k), k)
  BY <1>3, <1>4, <1>6, <1>7, OldWork DEF Covered
<1> QED  BY <1>1, <1>2, <1>4, <1>5, <1>7, OwnStep

LEMMA HandInWork ==
  ASSUME RunnerInv, WorkInv, NEW d \in Devices, HandIn(d)
  PROVE  WorkInv'
<1>1. PICK stage : page' = [page EXCEPT ![d].stage = stage]
  BY DEF HandIn, Set
<1> DEFINE x == [page[d] EXCEPT !.stage = stage]
<1>2. /\ page' = [page EXCEPT ![d] = x] /\ x.draft = page[d].draft /\ x.owed = page[d].owed
      /\ x.seq = page[d].seq /\ x.seq \in Int
  BY <1>1 DEF RunnerInv, Page
<1> HIDE DEF x
<1>3. UNCHANGED <<rows, saves>> /\ Calmer
  BY TroubleCalm DEF HandIn, RunnerInv, Calmer
<1>4. ASSUME Undisturbed(d), Undisturbed(d)', NEW k \in Questions
      PROVE  Covered(x, rows[k], Of(saves, d, k), k)
  BY <1>2, <1>4, OldWork DEF Covered
<1> QED  BY <1>2, <1>3, <1>4, OwnStep

(* A save is sent: it is the only one of its question.                     *)
LEMMA SendWork ==
  ASSUME RunnerInv, WorkInv, NEW d \in Devices, NEW q \in Questions,
         Flush(d, q) \/ KeepMine(d, q)
  PROVE  WorkInv'
<1>1. PICK v, by : /\ Sent(d, q, v, by) /\ UNCHANGED rows
                   /\ by = "flush" => page[d].owed[q] # Blank
                   /\ \E ds \in SUBSET Devices : Uses(ds, ~Saving(d, q))
  <2>1. CASE Flush(d, q)
    <3>1. /\ Sent(d, q, page[d].owed[q], "flush") /\ UNCHANGED rows
          /\ page[d].owed[q] # Blank /\ Uses({}, ~Saving(d, q))
      BY <2>1 DEF Flush
    <3> QED  BY <3>1
  <2>2. CASE KeepMine(d, q)
    <3>1. Sent(d, q, page[d].mine[q], "banner") /\ UNCHANGED rows /\ Uses({d}, ~Saving(d, q))
      BY <2>2 DEF KeepMine
    <3> QED  BY <3>1
  <2> QED  BY <2>1, <2>2
<1>2. Calmer /\ (spent'.calm => ~Saving(d, q))
  <2>1. (~Saving(d, q)) \in BOOLEAN
    OBVIOUS
  <2> QED  BY <1>1, <2>1, UsesCalm DEF RunnerInv, Calmer
<1> DEFINE n == page[d].seq + 1
           m == [of |-> d, question |-> q, answer |-> v, seq |-> n, by |-> by, state |-> "sent"]
           x == [page[d] EXCEPT !.seq = n]
<1>3. saves' = saves \cup {m} /\ page' = [page EXCEPT ![d] = x] /\ page[d].seq \in Int
  BY <1>1 DEF Sent, RunnerInv, Page
<1>4. m.of = d /\ m.question = q /\ m.seq = n /\ m.by = by /\ m.state = "sent"
  OBVIOUS
<1>5. x.draft = page[d].draft /\ x.owed = page[d].owed /\ x.seq = n /\ n = page[d].seq + 1
  BY DEF RunnerInv, Page
<1>6. \A e \in Devices : page'[e] = IF e = d THEN x ELSE page[e]
  BY <1>3 DEF RunnerInv
<1> HIDE DEF m, n, x
<1> SUFFICES ASSUME NEW e \in Devices, NEW k \in Questions, Undisturbed(e)'
             PROVE  Works(page'[e], rows, saves', e, k)
  BY <1>1 DEF WorkInv
<1>7. Undisturbed(e) /\ Works(page[e], rows, saves, e, k)
  BY <1>2, WasUndisturbed DEF WorkInv
<1>8. CASE e # d
  <2>1. Of(saves', e, k) = Of(saves, e, k)
    BY <1>3, <1>4, <1>8 DEF Of
  <2> QED  BY <1>6, <1>7, <1>8, <2>1 DEF Works
<1>9. rows[k].seq \in Int
  BY DEF RunnerInv, RowsOK, Rows, Row
<1>10. CASE e = d /\ k # q
  <2>1. Of(saves', e, k) = Of(saves, e, k)
    BY <1>3, <1>4, <1>10 DEF Of
  <2>2. Covered(x, rows[k], Of(saves, d, k), k) /\ rows[k].seq <= x.seq
    BY <1>3, <1>5, <1>7, <1>9, <1>10 DEF Works, Covered
  <2>3. ASSUME NEW y \in Of(saves, d, k)
        PROVE  Ahead(y, x, rows[k]) /\ \A z \in Of(saves, d, k) : z = y
    <3>1. y.seq \in Int
      BY DEF Of, RunnerInv, SaveOK, Save
    <3>2. Ahead(y, page[d], rows[k]) /\ \A z \in Of(saves, d, k) : z = y
      BY <1>7, <1>10 DEF Works
    <3> QED  BY <1>3, <1>5, <1>9, <3>1, <3>2 DEF Ahead
  <2> QED  BY <1>6, <1>10, <2>1, <2>2, <2>3 DEF Works
<1>11. CASE e = d /\ k = q
  <2>1. Of(saves', d, q) = {m}
    BY <1>2, <1>3, <1>4, <1>11 DEF Of, Saving, Undisturbed
  <2>2. rows[q].seq <= page[d].seq
    BY <1>7, <1>11 DEF Works
  <2>3. Ahead(m, x, rows[q]) /\ rows[q].seq <= x.seq
    BY <1>3, <1>4, <1>5, <1>9, <1>11, <2>2 DEF Ahead
  <2>4. Covered(x, rows[q], {m}, q)
    BY <1>1, <1>4, <1>5, <1>7, <1>11 DEF Works, Covered
  <2> QED  BY <1>6, <1>11, <2>1, <2>3, <2>4 DEF Works
<1> QED  BY <1>8, <1>10, <1>11

(* An answered save is the row: what was owed because of it is done, and   *)
(* what was picked meanwhile stays owed.                                   *)
LEMMA AnsweredRow ==
  ASSUME WorkInv, NEW m \in saves, m.of \in Devices, m.question \in Questions,
         Undisturbed(m.of), m.state \in {"served", "stale"}
  PROVE  /\ rows[m.question].answer = m.answer
         /\ Of(saves \ {m}, m.of, m.question) = {}
         /\ \A q \in Questions : q # m.question =>
              Of(saves \ {m}, m.of, q) = Of(saves, m.of, q)
<1>1. m \in Of(saves, m.of, m.question)
  BY DEF Of
<1>2. Ahead(m, page[m.of], rows[m.question])
        /\ \A n \in Of(saves, m.of, m.question) : n = m
  BY <1>1 DEF WorkInv, Works
<1> QED  BY <1>2 DEF Ahead, Of

LEMMA FlushWork ==
  ASSUME RunnerInv, WorkInv, NEW m \in saves, FlushAnswered(m)
  PROVE  WorkInv'
<1> DEFINE d == m.of
           c == Cleared(page[d], m)
           f == Fetched(c)
           x == [f EXCEPT !.mine = Nothing]
<1>1. /\ d \in Devices /\ m.question \in Questions /\ page[d] \in Page /\ RowsOK(rows)
      /\ m.state \in {"served", "stale"} /\ m.by = "flush" /\ page[d].seq \in Int
  BY DEF RunnerInv, SaveOK, Save, FlushAnswered, Page
<1>2. page' = [page EXCEPT ![d] = x] /\ saves' = saves \ {m} /\ UNCHANGED <<rows, spent>>
  BY DEF FlushAnswered, Set
<1>3. /\ c \in Page /\ c.draft = page[d].draft /\ c.seq = page[d].seq
      /\ \A q \in Questions : c.owed[q] =
           IF q = m.question /\ page[d].owed[q] = m.answer THEN Blank ELSE page[d].owed[q]
  BY <1>1, ClearedIs
<1> HIDE DEF c
<1>4. /\ f \in Page /\ f.owed = c.owed /\ c.seq <= f.seq
      /\ f.draft = [q \in Questions |-> IF c.draft[q] = Blank THEN rows[q].answer ELSE c.draft[q]]
  BY <1>1, <1>3, FetchedIs
<1> HIDE DEF f
<1>5. x.owed = f.owed /\ x.draft = f.draft /\ x.seq = f.seq /\ f.seq \in Int
  BY <1>4 DEF Page
<1> HIDE DEF x
<1>6. ASSUME Undisturbed(d), NEW q \in Questions
      PROVE  Covered(x, rows[q], Of(saves', d, q), q)
  <2>1. Covered(page[d], rows[q], Of(saves, d, q), q)
    BY <1>1, <1>6, OldWork
  <2>2. /\ x.owed[q] = IF q = m.question /\ page[d].owed[q] = m.answer THEN Blank
                       ELSE page[d].owed[q]
        /\ x.draft[q] = IF page[d].draft[q] = Blank THEN rows[q].answer ELSE page[d].draft[q]
    BY <1>3, <1>4, <1>5
  <2>3. CASE q = m.question
    <3>1. m \in Of(saves, d, q)
      BY <2>3 DEF Of
    <3>2. page[d].owed[q] # Blank /\ page[d].draft[q] = page[d].owed[q]
      BY <1>1, <2>1, <3>1 DEF Covered
    <3>3. Of(saves', d, q) = {} /\ rows[q].answer = m.answer
      BY <1>1, <1>2, <1>6, <2>3, AnsweredRow
    <3> QED  BY <2>2, <2>3, <3>2, <3>3 DEF Covered
  <2>4. CASE q # m.question
    <3>1. Of(saves', d, q) = Of(saves, d, q)
      BY <1>1, <1>2, <1>6, <2>4, AnsweredRow
    <3> QED  BY <2>1, <2>2, <2>4, <3>1 DEF Covered
  <2> QED  BY <2>3, <2>4
<1>7. Calmer
  BY <1>2 DEF Calmer
<1>8. x.seq \in Int /\ page[d].seq <= x.seq
  BY <1>3, <1>4, <1>5
<1>9. saves' \subseteq saves /\ \A n \in saves \ saves' : n.of = d
  BY <1>2
<1> HIDE DEF d
<1> QED  BY <1>1, <1>2, <1>6, <1>7, <1>8, <1>9, WorkStep

LEMMA BannerWork ==
  ASSUME RunnerInv, WorkInv, NEW m \in saves, BannerAnswered(m)
  PROVE  WorkInv'
<1> DEFINE d == m.of
           f == Fetched(page[d])
           v == [f.draft EXCEPT ![m.question] = m.answer]
           o == [f.owed EXCEPT ![m.question] = Blank]
           p == [f EXCEPT !.draft[m.question] = m.answer, !.owed[m.question] = Blank]
           x == [p EXCEPT !.mine = Conflicts(p, rows), !.stored = Filled(p.owed)]
<1>1. /\ d \in Devices /\ m.question \in Questions /\ page[d] \in Page /\ RowsOK(rows)
      /\ m.state \in {"served", "stale"} /\ page[d].seq \in Int
  BY DEF RunnerInv, SaveOK, Save, BannerAnswered, Page
<1>2. page' = [page EXCEPT ![d] = x] /\ saves' = saves \ {m} /\ UNCHANGED <<rows, spent>>
  BY DEF BannerAnswered, Set
<1>3. /\ f \in Page /\ f.owed = page[d].owed /\ page[d].seq <= f.seq
      /\ f.draft = [q \in Questions |-> IF page[d].draft[q] = Blank THEN rows[q].answer
                                        ELSE page[d].draft[q]]
  BY <1>1, FetchedIs
<1> HIDE DEF f
<1>4. f.draft \in Sheet /\ f.owed \in Sheet /\ f.seq \in Int
  BY <1>3 DEF Page
<1>5. x.owed = o /\ x.draft = v /\ x.seq = f.seq
  <2>1. p = [f EXCEPT !.draft = v, !.owed = o]
    BY <1>3 DEF Page
  <2> HIDE DEF v, o
  <2>2. p.owed = o /\ p.draft = v /\ p.seq = f.seq
    BY <1>3, <2>1 DEF Page
  <2>3. \A mine, stored : /\ [p EXCEPT !.mine = mine, !.stored = stored].owed = p.owed
                          /\ [p EXCEPT !.mine = mine, !.stored = stored].draft = p.draft
                          /\ [p EXCEPT !.mine = mine, !.stored = stored].seq = p.seq
    BY <1>3, <2>1 DEF Page
  <2> HIDE DEF p
  <2> QED  BY <2>2, <2>3
<1> HIDE DEF p, x
<1>6. \A q \in Questions : /\ v[q] = IF q = m.question THEN m.answer ELSE f.draft[q]
                           /\ o[q] = IF q = m.question THEN Blank ELSE f.owed[q]
  BY <1>4 DEF Sheet
<1> HIDE DEF v, o
<1>7. ASSUME Undisturbed(d), NEW q \in Questions
      PROVE  Covered(x, rows[q], Of(saves', d, q), q)
  <2>1. Covered(page[d], rows[q], Of(saves, d, q), q)
    BY <1>1, <1>7, OldWork
  <2>2. CASE q = m.question
    <3>1. Of(saves', d, q) = {} /\ rows[q].answer = m.answer
      BY <1>1, <1>2, <1>7, <2>2, AnsweredRow
    <3> QED  BY <1>5, <1>6, <2>2, <3>1 DEF Covered
  <2>3. CASE q # m.question
    <3>1. Of(saves', d, q) = Of(saves, d, q)
      BY <1>1, <1>2, <1>7, <2>3, AnsweredRow
    <3> QED  BY <1>3, <1>5, <1>6, <2>1, <2>3, <3>1 DEF Covered
  <2> QED  BY <2>2, <2>3
<1>8. Calmer
  BY <1>2 DEF Calmer
<1>9. x.seq \in Int /\ page[d].seq <= x.seq
  BY <1>3, <1>4, <1>5
<1>10. saves' \subseteq saves /\ \A n \in saves \ saves' : n.of = d
  BY <1>2
<1> HIDE DEF d
<1> QED  BY <1>1, <1>2, <1>7, <1>8, <1>9, <1>10, WorkStep

(* A save is tried again, or lost: it is still the only one.               *)
LEMMA KeptWork ==
  ASSUME RunnerInv, WorkInv, Calmer, NEW m \in saves, NEW state \in {"sent", "lost"},
         UNCHANGED <<rows, page>>, saves' = (saves \ {m}) \cup {[m EXCEPT !.state = state]}
  PROVE  WorkInv'
<1> DEFINE n == [m EXCEPT !.state = state]
<1>1. /\ n.of = m.of /\ n.question = m.question /\ n.by = m.by /\ n.seq = m.seq
      /\ n.answer = m.answer /\ n.state = state
  BY DEF RunnerInv, SaveOK, Save
<1>2. saves' = (saves \ {m}) \cup {n}
  OBVIOUS
<1> HIDE DEF n
<1> SUFFICES ASSUME NEW d \in Devices, NEW q \in Questions, Undisturbed(d)'
             PROVE  Works(page[d], rows, saves', d, q)
  BY DEF WorkInv
<1>3. Works(page[d], rows, saves, d, q)
  BY WasUndisturbed DEF WorkInv
<1>4. CASE m \in Of(saves, d, q)
  <2>1. Of(saves', d, q) = {n} /\ Ahead(m, page[d], rows[q])
    BY <1>1, <1>2, <1>3, <1>4 DEF Works, Of
  <2>2. Ahead(n, page[d], rows[q])
    BY <1>1, <2>1 DEF Ahead
  <2>3. Covered(page[d], rows[q], {n}, q)
    BY <1>1, <1>3, <1>4 DEF Works, Covered
  <2> QED  BY <1>3, <2>1, <2>2, <2>3 DEF Works
<1>5. CASE m \notin Of(saves, d, q)
  <2>1. Of(saves', d, q) = Of(saves, d, q)
    BY <1>1, <1>2, <1>5 DEF Of
  <2> QED  BY <1>3, <2>1 DEF Works
<1> QED  BY <1>4, <1>5

LEMMA TriedWork ==
  ASSUME RunnerInv, WorkInv, NEW m \in saves, Retry(m) \/ GiveUp(m) \/ Resurrect(m)
  PROVE  WorkInv'
<1>1. CASE Retry(m) \/ Resurrect(m)
  BY <1>1, KeptWork DEF Retry, Resurrect, Calmer
<1>2. CASE GiveUp(m)
  BY <1>2, WorkLost DEF GiveUp, RunnerInv, Spent
<1> QED  BY <1>1, <1>2

LEMMA LoseWork ==
  ASSUME RunnerInv, CalmInv, WorkInv, NEW m \in saves, Lose(m)
  PROVE  WorkInv'
<1>1. PICK late \in (IF m.state = "sent" THEN BOOLEAN ELSE {FALSE}) :
        /\ saves' = (saves \ {m})
                      \cup (IF m.by = "keepalive" THEN {} ELSE {[m EXCEPT !.state = "lost"]})
                      \cup (IF late THEN Unawaited({m}) ELSE {})
        /\ Trouble(~late)
  BY DEF Lose
<1>2. (~late) \in BOOLEAN /\ UNCHANGED <<rows, page>>
  BY DEF Lose
<1>3. spent'.calm = (spent.calm /\ ~late) /\ spent'.users = spent.users
  BY <1>1, <1>2, TroubleCalm DEF RunnerInv
<1>4. CASE late \/ ~spent.calm
  BY <1>3, <1>4, WorkLost
<1>5. CASE ~late /\ spent.calm
  <2>1. m.by # "keepalive"
    BY <1>5 DEF CalmInv
  <2>2. saves' = (saves \ {m}) \cup {[m EXCEPT !.state = "lost"]}
    BY <1>1, <1>5, <2>1
  <2>3. Calmer
    BY <1>3 DEF Calmer
  <2> QED  BY <1>2, <2>2, <2>3, KeptWork
<1> QED  BY <1>4, <1>5

(* A save served is the row; one refused as stale had been served before.  *)
LEMMA ServeWork ==
  ASSUME RunnerInv, CalmInv, WorkInv, NEW m \in saves, Serve(m)
  PROVE  WorkInv'
<1> SUFFICES ASSUME NEW d \in Devices, NEW q \in Questions, Undisturbed(d)'
             PROVE  Works(page'[d], rows', saves', d, q)
  BY DEF WorkInv
<1>1. Undisturbed(d) /\ spent.calm /\ UNCHANGED spent
  BY DEF Serve, Undisturbed
<1>2. Works(page[d], rows, saves, d, q)
  BY <1>1 DEF WorkInv
<1>3. m \in Save /\ m.of = d /\ m.by # "keepalive" /\ m.question \in Questions /\ m.seq \in Int
  BY <1>1 DEF CalmInv, Quiet, Undisturbed, RunnerInv, SaveOK, Save
<1> DEFINE k == m.question
           verdict == IF status # "in_progress" THEN "locked"
                      ELSE IF m.seq > rows[k].seq THEN "served" ELSE "stale"
           n == [m EXCEPT !.state = verdict]
           new == [seq |-> m.seq, answer |-> m.answer]
<1>4. /\ rows' = IF verdict = "served" THEN [rows EXCEPT ![k] = new] ELSE rows
      /\ saves' = (saves \ {m}) \cup {n}
      /\ page' = IF verdict = "stale" /\ m.by = "flush"
                 THEN [page EXCEPT ![d].seq = Max({@, rows[k].seq})] ELSE page
  BY <1>3 DEF Serve
<1>5. /\ n.of = d /\ n.question = k /\ n.by = m.by /\ n.seq = m.seq
      /\ n.answer = m.answer /\ n.state = verdict
  BY <1>3 DEF Save
<1>6. new.seq = m.seq /\ new.answer = m.answer
  OBVIOUS
<1> HIDE DEF n, new
<1>7. \A j \in Questions : rows'[j] = IF verdict = "served" /\ j = k THEN new ELSE rows[j]
  BY <1>4 DEF RunnerInv, RowsOK, Rows
<1>8. verdict = "stale" => rows[k].seq >= m.seq
  BY <1>3 DEF RunnerInv, RowsOK, Rows, Row
<1>9. verdict # "sent" /\ verdict # "lost"
  OBVIOUS
<1> HIDE DEF verdict
<1>10. rows[q].seq \in Int /\ page[d].seq \in Int /\ rows[k].seq \in 0 .. MaxSeq + 1
         /\ page[d].seq \in 0 .. MaxSeq + 1 /\ page[d] \in Page
  BY <1>3 DEF RunnerInv, RowsOK, Rows, Row, Page
<1>11. /\ page'[d].draft = page[d].draft /\ page'[d].owed = page[d].owed
       /\ page'[d].seq \in Int /\ page[d].seq <= page'[d].seq
  <2> DEFINE s == Max({page[d].seq, rows[k].seq})
  <2>1. s \in Int /\ page[d].seq <= s
    BY <1>10, MaxOfTwo
  <2>2. page'[d] = page[d] \/ page'[d] = [page[d] EXCEPT !.seq = s]
    BY <1>4 DEF RunnerInv
  <2> HIDE DEF s
  <2> QED  BY <1>10, <2>1, <2>2 DEF Page
<1>12. CASE q # k
  <2>1. Of(saves', d, q) = Of(saves, d, q) /\ rows'[q] = rows[q]
    BY <1>4, <1>5, <1>7, <1>12 DEF Of
  <2>2. Covered(page'[d], rows[q], Of(saves, d, q), q) /\ rows[q].seq <= page'[d].seq
    BY <1>2, <1>10, <1>11 DEF Works, Covered
  <2>3. ASSUME NEW y \in Of(saves, d, q)
        PROVE  Ahead(y, page'[d], rows[q]) /\ \A z \in Of(saves, d, q) : z = y
    <3>1. y.seq \in Int
      BY DEF Of, RunnerInv, SaveOK, Save
    <3>2. Ahead(y, page[d], rows[q]) /\ \A z \in Of(saves, d, q) : z = y
      BY <1>2 DEF Works
    <3> QED  BY <1>10, <1>11, <3>1, <3>2 DEF Ahead
  <2> QED  BY <2>1, <2>2, <2>3 DEF Works
<1>13. CASE q = k
  <2>1. m \in Of(saves, d, q)
    BY <1>3, <1>13 DEF Of
  <2>2. /\ Ahead(m, page[d], rows[q])
        /\ Of(saves', d, q) = {n}
    BY <1>2, <1>4, <1>5, <1>13, <2>1 DEF Works, Of
  <2>3. Covered(page'[d], rows'[q], {n}, q)
    BY <1>2, <1>5, <1>11, <2>1 DEF Works, Covered
  <2>4. Ahead(n, page'[d], rows'[q]) /\ rows'[q].seq <= page'[d].seq
    <3>1. CASE verdict = "served"
      <4>1. rows'[q].seq = m.seq /\ rows'[q].answer = m.answer
        BY <1>6, <1>7, <1>13, <3>1
      <4> QED  BY <1>3, <1>5, <1>10, <1>11, <2>2, <4>1 DEF Ahead
    <3>2. CASE verdict # "served"
      <4>1. rows'[q] = rows[q]
        BY <1>7, <3>2
      <4>2. verdict = "stale" => rows[q].seq = m.seq
        BY <1>3, <1>8, <1>10, <1>13, <2>2 DEF Ahead
      <4> QED  BY <1>3, <1>5, <1>10, <1>11, <2>2, <3>2, <4>1, <4>2 DEF Ahead
    <3> QED  BY <3>1, <3>2
  <2> QED  BY <2>2, <2>3, <2>4 DEF Works
<1> QED  BY <1>12, <1>13

LEMMA InitWork == Init => WorkInv
<1> SUFFICES ASSUME Init, NEW d \in Devices, NEW q \in Questions
             PROVE  Works(page[d], rows, saves, d, q)
  BY DEF WorkInv
<1>1. page[d] = Loaded(rows, Nothing, {}) /\ rows[q] = NoRow /\ saves = {}
  BY DEF Init
<1>2. page[d].owed[q] = Blank /\ page[d].draft[q] = Blank
  BY <1>1 DEF Loaded, Only, Nothing, NoRow
<1>3. 0 <= page[d].seq
  <2>1. page[d] \in Page
    BY InitInv DEF RunnerInv
  <2> QED  BY <2>1 DEF Page
<1>4. rows[q].seq = 0
  BY <1>1 DEF NoRow
<1> QED  BY <1>1, <1>2, <1>3, <1>4 DEF Works, Covered, Of

LEMMA NextWork == RunnerInv /\ CalmInv /\ WorkInv /\ [Next]_vars => WorkInv'
<1> SUFFICES ASSUME RunnerInv, CalmInv, WorkInv, [Next]_vars
             PROVE  WorkInv'
  OBVIOUS
<1>1. ASSUME NEW d \in Devices, Reload(d) \/ \E q \in Questions : Leave(d, q)
      PROVE  WorkInv'
  <2>1. ~spent'.calm
    BY <1>1, TroubleCalm DEF Reload, Leave, RunnerInv
  <2> QED  BY <2>1, WorkLost
<1>2. CASE Student
  BY <1>1, <1>2, PickWork, SendWork, UseOtherWork, KeepAllWork, ConfirmWork DEF Student
<1>3. ASSUME Reap \/ \E d \in Devices : Resume(d)
      PROVE  WorkInv'
  <2>1. spent'.calm = spent.calm /\ spent'.users = spent.users /\ UNCHANGED <<rows, page, saves>>
    BY <1>3, StatusOnly DEF RunnerInv
  <2> QED  BY <2>1 DEF WorkInv, Undisturbed
<1>4. CASE Runner
  BY <1>1, <1>3, <1>4, SendWork, RefetchWork, HandInWork, FlushWork, BannerWork, TriedWork DEF Runner
<1>5. CASE Outside
  BY <1>3, <1>5, ServeWork, LoseWork DEF Outside
<1>6. CASE UNCHANGED vars
  BY <1>6 DEF vars, WorkInv, Undisturbed
<1> QED  BY <1>2, <1>4, <1>5, <1>6 DEF Next

(* What a page shows that is not on the server is owed or being saved, as  *)
(* long as the answers come from that page alone, it neither leaves nor    *)
(* gives up, and it saves a question once at a time: a pick made while a   *)
(* save is under way stays owed (StudentAttemptRunnerContainer.tsx:857).   *)
THEOREM SavedOrOwedHolds == Spec => []SavedOrOwed
<1>1. RunnerInv /\ CalmInv /\ WorkInv => SavedOrOwed
  <2> SUFFICES ASSUME WorkInv, NEW d \in Devices, Undisturbed(d),
                      NEW q \in Filled(page[d].draft)
               PROVE  \/ page[d].draft[q] = rows[q].answer
                      \/ page[d].owed[q] # Blank
                      \/ Saving(d, q)
    BY DEF SavedOrOwed
  <2>1. q \in Questions /\ page[d].draft[q] # Blank
    BY DEF Filled
  <2> QED  BY <2>1 DEF WorkInv, Works, Covered, Saving, Of
<1> QED  BY <1>1, Invariance, InitCalm, NextCalm, InitWork, NextWork, PTL DEF Spec

=============================================================================
