-------------------------- MODULE MCHomeworkRunner --------------------------
(* Small instances of HomeworkRunner for TLC. *)
EXTENDS HomeworkRunner, TLC

CONSTANTS phone, laptop, a, b

\* Devices are alike, and so are answers.
Alike == Permutations({phone, laptop}) \cup Permutations({a, b})

\* What the steps depend on, and what SavedOrOwed reads: not the history of the
\* picks; the pages that answered only while there is calm; what was stored only
\* while a page may be loaded again; of a page that left, what it shows.
Alive(p) ==
  IF p.stage = "handed_in"
  THEN [p EXCEPT !.stored = {}, !.attempt = rows, !.mine = Nothing, !.closed = TRUE, !.seq = 0]
  ELSE [p EXCEPT !.stored = IF spent.troubles < MaxTroubles THEN @ ELSE {}]
Live == <<status, rows, [d \in Devices |-> Alive(page[d])], saves,
          [spent EXCEPT !.users = IF spent.calm THEN @ ELSE Devices]>>

=============================================================================
