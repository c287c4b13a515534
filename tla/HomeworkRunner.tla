--------------------------- MODULE HomeworkRunner ---------------------------
(***************************************************************************)
(* The website's runner of an assessment homework, on several devices of   *)
(* one student, against the handler that orders their saves.               *)
(*                                                                         *)
(* StudentAttemptRunnerContainer.tsx numbers its saves; save-answer        *)
(* (views_attempt.py) refuses one that is not above the number of the      *)
(* row.  A page awaits the answer to a save; a keepalive, and a save whose *)
(* page went or gave up on it, travels on by itself.  Refetching the       *)
(* attempt is one step with the answer that asks for it.  A page that      *)
(* fetches an attempt handed in elsewhere shows the exam no more, whatever *)
(* it still owes.                                                          *)
(*                                                                         *)
(* The buffers for offline and for debounced picks are one here: both are  *)
(* drained by the same loop, and the timer of the one and the online event *)
(* of the other may come at any time.  Several flushes may run at once.    *)
(* The lease that turns the second tab of a browser passive is not needed: *)
(* a device has one page.                                                  *)
(*                                                                         *)
(* Faulty forms: ClearedAnyway, OrphansOfAll, HealedFromBuffer.            *)
(***************************************************************************)
EXTENDS Integers, FiniteSetsExt

CONSTANTS
  Devices, Questions,
  Answers, Blank,
  MaxSeq,       \* bound: number of a save
  MaxPicks,     \* bound: answers picked
  MaxFlights,   \* bound: saves under way
  MaxTroubles   \* bound: saves lost or late, keepalives, reloads and sweeps

ASSUME RunnerAssumption ==
  /\ {MaxSeq, MaxPicks, MaxFlights, MaxTroubles} \subseteq Nat
  /\ Blank \notin Answers

VARIABLES
  status,       \* of the attempt on the server
  rows,         \* rows[q]: the AssessmentAnswer row, number 0 if there is none
  page,         \* page[d]: the runner on device d
  saves,        \* the saves under way
  latest,       \* history: the answer last picked, on any device
  spent         \* history: what of the bounds is used

vars == <<status, rows, page, saves, latest, spent>>

Shown == Answers \cup {Blank}
Sheet == [Questions -> Shown]
Row == [seq : 0 .. MaxSeq, answer : Shown]

\* stage: "handed_in" once the page has left for the result of its own hand-in,
\* "complete" once a fetch told it of another; closed: the attempt was fetched
\* as handed in.  draft: on the screen and in local storage, with the questions that were
\* owed when it was written (stored); owed: not yet on the server; attempt: as
\* last fetched; mine: the drafts that a conflict banner offers to keep.
Page ==
  [stage : {"exam", "submitting", "complete", "handed_in"}, closed : BOOLEAN,
   draft : Sheet, owed : Sheet, stored : SUBSET Questions,
   attempt : [Questions -> Row], mine : Sheet, seq : 0 .. MaxSeq + 1]
Save ==
  [of : Devices, question : Questions, answer : Answers, seq : 1 .. MaxSeq,
   by : {"flush", "banner", "keepalive"},
   state : {"sent", "served", "stale", "locked", "lost"}]
Spent == [picks : 0 .. MaxPicks, troubles : 0 .. MaxTroubles, calm : BOOLEAN,
          users : SUBSET Devices]

Nothing == [q \in Questions |-> Blank]
NoRow == [seq |-> 0, answer |-> Blank]
OnServer(r, q) == r[q].seq > 0
Watermark(r) == Max({0} \cup {r[q].seq : q \in Questions})
Filled(s) == {q \in Questions : s[q] # Blank}
Only(s, qs) == [q \in Questions |-> IF q \in qs THEN s[q] ELSE Blank]

TypeOK ==
  /\ status \in {"in_progress", "abandoned", "submitted"}
  /\ rows \in [Questions -> Row]
  /\ page \in [Devices -> Page]
  /\ saves \subseteq Save
  /\ latest \in Sheet
  /\ spent \in Spent
  /\ \A m \in saves : m.by = "keepalive" => m.state = "sent"
  /\ \A q \in Questions : OnServer(rows, q) <=> rows[q].answer # Blank

\* A page that has loaded the attempt.
Loaded(r, kept, ids) ==
  [stage |-> "exam", closed |-> status = "submitted",
   owed |-> Only(kept, ids), stored |-> ids, attempt |-> r,
   draft |-> [q \in Questions |-> IF kept[q] = Blank THEN r[q].answer ELSE kept[q]],
   mine |-> Nothing, seq |-> Watermark(r) + 1]

Init ==
  /\ status = "in_progress"
  /\ rows = [q \in Questions |-> NoRow]
  /\ page = [d \in Devices |-> Loaded(rows, Nothing, {})]
  /\ saves = {}
  /\ latest = Nothing
  /\ spent = [picks |-> 0, troubles |-> 0, calm |-> TRUE, users |-> {}]

Set(d, p) == page' = [page EXCEPT ![d] = p]
Uses(devices, calm) ==
  spent' = [spent EXCEPT !.users = @ \cup devices, !.calm = @ /\ calm]
Trouble(calm) ==
  /\ spent.troubles < MaxTroubles
  /\ spent' = [spent EXCEPT !.troubles = @ + 1, !.calm = @ /\ calm]

----------------------------------------------------------------------------
(* The page.                                                               *)

Banner(p) == Filled(p.mine) # {}
Open(p) == p.stage = "exam"
Shows(p) == Open(p) /\ ~p.closed
Saving(d, q) == \E m \in saves : m.of = d /\ m.question = q

Pick(d, q, v) ==
  /\ Shows(page[d])
  /\ page[d].draft[q] # v
  /\ LET p == [page[d] EXCEPT !.draft[q] = v, !.owed[q] = v]
     IN  Set(d, [p EXCEPT !.stored = Filled(p.owed)])
  /\ latest' = [latest EXCEPT ![q] = v]
  /\ spent.picks < MaxPicks
  /\ spent' = [spent EXCEPT !.picks = @ + 1, !.users = @ \cup {d}]
  /\ UNCHANGED <<status, rows, saves>>

\* A save with the next number of the page.
Sent(d, q, v, by) ==
  /\ page[d].seq < MaxSeq
  /\ Cardinality(saves) < MaxFlights
  /\ saves' = saves \cup {[of |-> d, question |-> q, answer |-> v,
                           seq |-> page[d].seq + 1, by |-> by, state |-> "sent"]}
  /\ page' = [page EXCEPT ![d].seq = @ + 1]

\* flushSave, one answer of it; nothing is sent while the banner is open.  A
\* page that does not show the exam any more still tries.
Flush(d, q) ==
  /\ page[d].stage # "handed_in"
  /\ ~Banner(page[d])
  /\ page[d].owed[q] # Blank
  /\ Sent(d, q, page[d].owed[q], "flush")
  /\ Uses({}, ~Saving(d, q))
  /\ UNCHANGED <<status, rows, latest>>

\* The attempt is fetched: the counter rises, an empty question is filled in.
Fetched(p) ==
  [p EXCEPT !.attempt = rows,
            !.closed = status = "submitted",
            !.seq = Max({@, Watermark(rows) + 1}),
            !.draft = [q \in Questions |-> IF @[q] = Blank THEN rows[q].answer ELSE @[q]]]
Conflicts(p, r) ==
  Only(p.draft, {q \in Questions : OnServer(r, q) /\ p.draft[q] \notin {Blank, r[q].answer}})

\* The answer to a save: what was sent is not owed any more, unless it was
\* picked anew; "stale" counts as done.
ClearedAnyway(p, m) ==
  [p EXCEPT !.owed[m.question] = Blank]
Cleared(p, m) ==
  [p EXCEPT !.owed[m.question] = IF @ = m.answer THEN Blank ELSE @]

FlushAnswered(m) ==
  /\ m.by = "flush"
  /\ m.state \in {"served", "stale"}
  /\ Set(m.of, [Fetched(Cleared(page[m.of], m)) EXCEPT !.mine = Nothing])
  /\ saves' = saves \ {m}
  /\ UNCHANGED <<status, rows, latest, spent>>

\* The answer to "keep mine": the choice made is what is shown.
BannerAnswered(m) ==
  /\ m.by = "banner"
  /\ m.state = "served"
  /\ LET p == [Fetched(page[m.of]) EXCEPT !.draft[m.question] = m.answer,
                                          !.owed[m.question] = Blank]
     IN  Set(m.of, [p EXCEPT !.mine = Conflicts(p, rows), !.stored = Filled(p.owed)])
  /\ saves' = saves \ {m}
  /\ UNCHANGED <<status, rows, latest, spent>>

\* Tried again under the same number, or given up: then a hand-in is, too.
Retry(m) ==
  /\ m.by = "flush"
  /\ m.state = "lost"
  /\ saves' = (saves \ {m}) \cup {[m EXCEPT !.state = "sent"]}
  /\ UNCHANGED <<status, rows, page, latest, spent>>

Failed(m) ==
  \/ m.state \in {"lost", "locked"}
  \/ m.by = "banner" /\ m.state = "stale"

GiveUp(m) ==
  /\ Failed(m)
  /\ saves' = saves \ {m}
  /\ \/ page[m.of].stage = "submitting" /\ page' = [page EXCEPT ![m.of].stage = "exam"]
     \/ UNCHANGED page
  /\ spent' = [spent EXCEPT !.calm = FALSE]
  /\ UNCHANGED <<status, rows, latest>>

\* A page that fetched the attempt abandoned, or had been left, reopens it.
Resume(d) ==
  /\ page[d].stage # "handed_in"
  /\ status = "abandoned"
  /\ status' = "in_progress"
  /\ UNCHANGED <<rows, page, saves, latest, spent>>

\* "locked (abandoned)": the page reopens the attempt and saves again.
Resurrect(m) ==
  /\ m.by = "flush"
  /\ m.state = "locked"
  /\ status = "abandoned"
  /\ status' = "in_progress"
  /\ saves' = (saves \ {m}) \cup {[m EXCEPT !.state = "sent"]}
  /\ UNCHANGED <<rows, page, latest, spent>>

\* The page is hidden: what is owed goes out unawaited.
Leave(d, q) ==
  /\ Open(page[d])
  /\ page[d].owed[q] # Blank
  /\ Trouble(FALSE)
  /\ Sent(d, q, page[d].owed[q], "keepalive")
  /\ UNCHANGED <<status, rows, latest>>

\* The page is loaded again, from local storage or from its mirror, which
\* keeps the drafts and not what is owed.
Unawaited(ms) == {[m EXCEPT !.by = "keepalive"] : m \in ms}
OrphansOfAll(d) == Unawaited({m \in saves : m.of = d})
Orphans(d) == Unawaited({m \in saves : m.of = d /\ m.state = "sent"})

Reload(d) ==
  /\ page[d].stage # "handed_in"
  /\ Trouble(FALSE)
  /\ \E ids \in {page[d].stored, {}} : Set(d, Loaded(rows, page[d].draft, ids))
  /\ saves' = {m \in saves : m.of # d} \cup Orphans(d)
  /\ UNCHANGED <<status, rows, latest>>

\* The page is focused, or a save made its attempt stale: a banner opens if the
\* answers changed.  Back online or visible again, it also asks for the status.
Compared(p) ==
  [Fetched(p) EXCEPT !.mine = IF p.attempt = rows THEN @ ELSE Conflicts(Fetched(p), rows)]
Told(p) ==
  [p EXCEPT !.stage = IF p.closed /\ @ = "exam" THEN "complete" ELSE @]

Refetch(d) ==
  /\ page[d].stage # "handed_in"
  /\ LET p == Compared(page[d])
     IN  Set(d, p) \/ Set(d, Told(p))
  /\ UNCHANGED <<status, rows, saves, latest, spent>>

\* The banner's buttons: dead while the save last made is under way.
Choosing(d) ==
  /\ Shows(page[d])
  /\ \A m \in saves : ~(m.of = d /\ m.by # "keepalive" /\ m.seq = page[d].seq)

KeepMine(d, q) ==
  /\ Choosing(d)
  /\ page[d].mine[q] # Blank
  /\ Sent(d, q, page[d].mine[q], "banner")
  /\ Uses({d}, ~Saving(d, q))
  /\ UNCHANGED <<status, rows, latest>>

UseOther(d, q) ==
  /\ Choosing(d)
  /\ page[d].mine[q] # Blank
  /\ LET p == [page[d] EXCEPT !.draft[q] = page[d].attempt[q].answer, !.owed[q] = Blank]
     IN  Set(d, [p EXCEPT !.mine = Conflicts(p, p.attempt), !.stored = Filled(p.owed)])
  /\ Uses({}, ~Saving(d, q))
  /\ UNCHANGED <<status, rows, saves, latest>>

KeepAllMine(d) ==
  /\ Choosing(d) /\ Banner(page[d])
  /\ LET Kept(s) == [q \in Questions |-> IF page[d].mine[q] = Blank THEN s[q] ELSE page[d].mine[q]]
         p == [page[d] EXCEPT !.owed = Kept(@), !.draft = Kept(@), !.mine = Nothing]
     IN  Set(d, [p EXCEPT !.stored = Filled(p.owed)])
  /\ Uses({d}, TRUE)
  /\ UNCHANGED <<status, rows, saves, latest>>

\* Handing in: first everything shown that the attempt fetched does not hold.
HealedFromBuffer(p) ==
  Only(p.draft, {q \in Filled(p.owed) : p.owed[q] = p.draft[q]})
Healed(p) ==
  Only(p.draft, {q \in Questions : \/ p.draft[q] # Blank /\ p.draft[q] # p.attempt[q].answer
                                   \/ p.draft[q] # Blank /\ p.owed[q] = p.draft[q]})

Confirm(d) ==
  /\ Shows(page[d])
  /\ ~Banner(page[d])
  /\ Set(d, [page[d] EXCEPT !.stage = "submitting", !.owed = Healed(page[d])])
  /\ UNCHANGED <<status, rows, saves, latest, spent>>

\* The answer to a hand-in takes the page to the result; without it, or
\* refused, the page is where it was.
HandIn(d) ==
  /\ page[d].stage = "submitting"
  /\ page[d].owed = Nothing
  /\ \/ /\ status \in {"in_progress", "submitted"}
        /\ status' = "submitted"
        /\ \/ Set(d, [page[d] EXCEPT !.stage = "handed_in"]) /\ UNCHANGED spent
           \/ Set(d, [page[d] EXCEPT !.stage = "exam"]) /\ Trouble(TRUE)
     \/ /\ status = "abandoned"
        /\ Set(d, [page[d] EXCEPT !.stage = "exam"])
        /\ UNCHANGED <<status, spent>>
  /\ UNCHANGED <<rows, saves, latest>>

----------------------------------------------------------------------------
(* The server and the network.                                             *)

Serve(m) ==
  /\ m.state = "sent"
  /\ LET verdict == IF status # "in_progress" THEN "locked"
                    ELSE IF m.seq > rows[m.question].seq THEN "served" ELSE "stale"
     IN  /\ rows' = IF verdict = "served"
                    THEN [rows EXCEPT ![m.question] = [seq |-> m.seq, answer |-> m.answer]]
                    ELSE rows
         /\ saves' = (saves \ {m}) \cup
                       IF m.by = "keepalive" THEN {} ELSE {[m EXCEPT !.state = verdict]}
         \* The refusal names the number of the row; the page catches up.
         /\ page' = IF verdict = "stale" /\ m.by = "flush"
                    THEN [page EXCEPT ![m.of].seq = Max({@, rows[m.question].seq})]
                    ELSE page
  /\ UNCHANGED <<status, latest, spent>>

\* A request or its answer is lost; or the page stops waiting for a request
\* that will still arrive.
Lose(m) ==
  /\ m.state \in {"sent", "served", "stale"}
  /\ \E late \in (IF m.state = "sent" THEN BOOLEAN ELSE {FALSE}) :
       /\ saves' = (saves \ {m})
                     \cup (IF m.by = "keepalive" THEN {} ELSE {[m EXCEPT !.state = "lost"]})
                     \cup (IF late THEN Unawaited({m}) ELSE {})
       /\ Trouble(~late)
  /\ UNCHANGED <<status, rows, page, latest>>

Reap ==
  /\ status = "in_progress"
  /\ Trouble(TRUE)
  /\ status' = "abandoned"
  /\ UNCHANGED <<rows, page, saves, latest>>

----------------------------------------------------------------------------

Student ==
  \E d \in Devices :
    \/ \E q \in Questions : \/ \E v \in Answers : Pick(d, q, v)
                            \/ KeepMine(d, q) \/ UseOther(d, q)
    \/ KeepAllMine(d) \/ Reload(d) \/ Confirm(d)
Runner ==
  \/ \E d \in Devices :
       \/ \E q \in Questions : Flush(d, q) \/ Leave(d, q)
       \/ Refetch(d) \/ Resume(d) \/ HandIn(d)
  \/ \E m \in saves :
       FlushAnswered(m) \/ BannerAnswered(m) \/ Retry(m) \/ GiveUp(m) \/ Resurrect(m)
Outside == Reap \/ \E m \in saves : Serve(m) \/ Lose(m)

Next == Student \/ Runner \/ Outside

Spec == Init /\ [][Next]_vars

----------------------------------------------------------------------------
(* What the runner promises.                                               *)

\* Nothing that the page handing in shows answered is handed in as omitted,
\* whatever was lost, reloaded, refused, abandoned, reopened or saved by another
\* device before (StudentAttemptRunnerContainer.tsx:1158).
NothingOmitted ==
  \A d \in Devices : page[d].stage = "handed_in" =>
    \A q \in Filled(page[d].draft) : OnServer(rows, q)

\* While answers come from one page alone, which never leaves, gives up on no
\* save, and makes no save or choice for a question while one is under way:
\* what it shows is on the server, still owed, or being saved
\* (StudentAttemptRunnerContainer.tsx:857).
Undisturbed(d) ==
  /\ spent.calm
  /\ spent.users \subseteq {d}
SavedOrOwed ==
  \A d \in Devices : Undisturbed(d) =>
    \A q \in Filled(page[d].draft) :
      page[d].draft[q] = rows[q].answer \/ page[d].owed[q] # Blank \/ Saving(d, q)

\* A save refused as stale is never the student's latest answer, on a second
\* device neither (StudentAttemptRunnerContainer.tsx:683).
StaleIsObsolete ==
  \A m \in saves : m.state = "stale" =>
    m.answer # latest[m.question] \/ rows[m.question].answer = m.answer

=============================================================================
