----------------------------- MODULE MCLiveQuiz -----------------------------
(* Small instances of LiveQuiz for TLC. *)
EXTENDS LiveQuiz, TLC

CONSTANTS board, phone, ann, bob

\* Times count from now; of a REST call's copy it only
\* matters whether it is still the row.
Since(t) == IF t = Never THEN Never ELSE t - now + MaxTime + Limit
Live ==
  << [room EXCEPT !.version = 0, !.endsAt = Since(@), !.pausedAt = Since(@)],
     person, answers, line, commands, lost, now, played,
     [s \in Sockets |-> Since(slot[s])],
     [k \in Tasks |-> IF task[k].do = "arm" THEN Arm(Since(task[k].due)) ELSE task[k]],
     rest # NoCopy /\ StillAt(rest) >>

People == Permutations(Hosts) \cup Permutations(Players)

=============================================================================
