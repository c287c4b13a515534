------------------------------ MODULE LiveQuiz ------------------------------
(***************************************************************************)
(* A teacher-paced live quiz (livequiz/): one room, the sockets of its     *)
(* hosts and players, the staff's REST call that stops it.                 *)
(*                                                                         *)
(* A socket has a command task, which takes one command at a time, a timer *)
(* slot, and the task of a timer that has fired.  All sockets live in one  *)
(* ASGI process (deploy/ecosystem.config.js) whose calls into Django run   *)
(* one after another: a call loads the row and moves it in one step, and   *)
(* the tasks interleave between calls.  The REST call runs in another      *)
(* process: it loads the row, and its compare-and-set comes later.         *)
(*                                                                         *)
(* A player has one socket; an answer is its points; names, frames, teams  *)
(* and the student-paced mode (paced.py) are left out.                     *)
(*                                                                         *)
(* Faulty forms: MayWhileLive, LateArmed, Unshifted, GainOnTop, StillLive. *)
(***************************************************************************)
EXTENDS Integers, FiniteSets, FiniteSetsExt, Functions

CONSTANTS
  Hosts, Players,
  Questions,      \* how many questions the room asks
  Limit,          \* a question's time, in ticks
  ManualAdvance,  \* config manual_advance
  AnswerChange,   \* config allow_answer_change
  MaxCommands,    \* bound: host commands sent
  MaxTime         \* bound: the clock, but for an open question's last ticks

ASSUME LiveQuizAssumption ==
  /\ {Questions, Limit} \subseteq Nat \ {0}
  /\ {MaxCommands, MaxTime} \subseteq Nat
  /\ {ManualAdvance, AnswerChange} \subseteq BOOLEAN
  /\ Hosts \cap Players = {}
  /\ IsFiniteSet(Players)

VARIABLES
  room,      \* the LiveQuizSession row
  person,    \* person[p]: p's LiveQuizParticipant row and gems
  answers,   \* answers[p][q]: the points of p's LiveQuizAnswer to q
  line,      \* line[p]: p's socket
  task,      \* task[k]: the next call of task k
  slot,      \* slot[s]: when the timer of socket s fires
  rest,      \* the row as the REST call loaded it
  now,
  commands,  \* host commands sent
  played,    \* history: ticks the question in play has been open
  lost       \* history: a socket closed with its timer armed

vars == <<room, person, answers, line, task, slot, rest, now, commands, played, lost>>

Sockets == Hosts \cup Players
Tasks == {"command", "timer"} \X Sockets
Command(s) == <<"command", s>>
HostTasks == {Command(h) : h \in Hosts}
PlayerTasks == {Command(p) : p \in Players}
Fired(s) == <<"timer", s>>
Socket(k) == k[2]

Indexes == 0 .. Questions - 1
Never == -1
NoRank == 0
NoAnswer == -1
Points == {0, 1}
NotPaid == <<>>
NoCopy == [status |-> "none"]

Idle == [do |-> "idle"]
Do(op) == [do |-> op]
Arm(due) == [do |-> "arm", due |-> due]

Status == {"LOBBY", "STARTING", "ACTIVE", "RESULTS", "PAUSED", "FINISHED", "TERMINATED"}
Terminal == {"FINISHED", "TERMINATED"}
Room == [status : Status, version : Nat, index : Indexes \cup {-1},
         endsAt : Int, from : Status \cup {"none"}, pausedAt : Int]
Person == [status : {"absent", "JOINED", "KICKED"}, connections : {0, 1}, score : Int,
           streak : Nat, rank : Nat, paid : {NotPaid} \cup (Int \X Nat)]

InPlay == room.index \in Indexes /\ room.endsAt \in Nat

RoomOK ==
  /\ room \in Room
  /\ rest \in Room \cup {NoCopy}
  /\ now \in Nat
  /\ played \in Nat
  /\ room.status = "ACTIVE" => InPlay
  /\ room.status = "PAUSED" => /\ room.pausedAt \in 0 .. now
                               /\ room.from \in {"STARTING", "ACTIVE", "RESULTS"}
                               /\ room.from = "ACTIVE" => InPlay

PeopleOK ==
  /\ person \in [Players -> Person]
  /\ answers \in [Players -> [Indexes -> Points \cup {NoAnswer}]]
  /\ line \in [Players -> {"closed", "opening", "open"}]
  /\ \A p \in Players : person[p].connections = 1 => line[p] = "open"

\* The calls v a task k can have in front of it.
TaskOK(k, v) ==
  \/ v \in {Idle} \cup {Do(op) : op \in {"advance", "close", "announce"}}
  \/ v.do = "arm" /\ v = Arm(v.due) /\ v.due \in Nat
  \/ k \in HostTasks /\ v \in {Do(op) : op \in {"open first", "pause", "end"}}
  \/ k \in PlayerTasks /\ v = Do("check")

TasksOK ==
  /\ DOMAIN task = Tasks
  /\ \A k \in Tasks : TaskOK(k, task[k])
  /\ slot \in [Sockets -> Int]
  /\ commands \in 0 .. MaxCommands
  /\ lost \in BOOLEAN

TypeOK == RoomOK /\ PeopleOK /\ TasksOK

Init ==
  /\ room = [status |-> "LOBBY", version |-> 0, index |-> -1, endsAt |-> Never,
             from |-> "none", pausedAt |-> Never]
  /\ person = [p \in Players |-> [status |-> "absent", connections |-> 0, score |-> 0,
                                  streak |-> 0, rank |-> NoRank, paid |-> NotPaid]]
  /\ answers = [p \in Players |-> [q \in Indexes |-> NoAnswer]]
  /\ line = [p \in Players |-> "closed"]
  /\ task = [k \in Tasks |-> Idle]
  /\ slot = [s \in Sockets |-> Never]
  /\ rest = NoCopy
  /\ now = 0
  /\ commands = 0
  /\ played = 0
  /\ lost = FALSE

----------------------------------------------------------------------------
(* The table of moves, and a task's next call.                             *)

Moves ==
  [s \in Status |->
     CASE s = "LOBBY" -> {"STARTING", "TERMINATED"}
       [] s = "STARTING" -> {"ACTIVE", "PAUSED", "TERMINATED"}
       [] s = "ACTIVE" -> {"RESULTS", "PAUSED", "TERMINATED"}
       [] s = "RESULTS" -> {"ACTIVE", "FINISHED", "PAUSED", "TERMINATED"}
       [] s = "PAUSED" -> {"STARTING", "ACTIVE", "RESULTS", "FINISHED", "TERMINATED"}
       [] OTHER -> {}]

MayWhileLive(to) == room.status \notin Terminal
May(to) == to \in Moves[room.status]
Over == room.status \in Terminal

Then(k, next) == task' = [task EXCEPT ![k] = next]
Unslotted(s) == slot' = [slot EXCEPT ![s] = Never]
Moved(r) == [r EXCEPT !.version = @ + 1]

\* A host's command, while its socket runs none.
Commanded(k) ==
  /\ k \in HostTasks /\ task[k] = Idle
  /\ commands < MaxCommands
  /\ commands' = commands + 1

\* Task k comes to its call op.
Reached(k, op) == task[k] = Do(op) /\ UNCHANGED commands

----------------------------------------------------------------------------
(* Sockets: timers, connections.                                           *)

\* Pause, end and skip first cancel the timer of their own socket.
CancelFirst(h) ==
  /\ Commanded(Command(h))
  /\ \E op \in {"pause", "end", "close"} : Then(Command(h), Do(op))
  /\ Unslotted(h)
  /\ UNCHANGED <<room, person, answers, line, rest, now, played, lost>>

\* The timer leaves its slot before it closes the question, so nothing can
\* cancel it any more.  Limit is longer than the pause between questions:
\* the task of the last timer is over when the next one fires.
TimerFires(s) ==
  /\ slot[s] # Never /\ now >= slot[s]
  /\ task[Fired(s)] = Idle
  /\ Then(Fired(s), Do("close"))
  /\ Unslotted(s)
  /\ UNCHANGED <<room, person, answers, line, rest, now, commands, played, lost>>

LateArmed(k) == now + Limit
\* The deadline the call returned; the room may have moved since.
ArmedAt(k) == task[k].due
ArmTimer(k) ==
  /\ task[k].do = "arm"
  /\ Then(k, Idle)
  /\ slot' = [slot EXCEPT ![Socket(k)] = ArmedAt(k)]
  /\ UNCHANGED <<room, person, answers, line, rest, now, commands, played, lost>>

\* join_session: a place in a room that is not over.
Join(p) ==
  /\ person[p].status = "absent"
  /\ ~Over
  /\ person' = [person EXCEPT ![p].status = "JOINED"]
  /\ UNCHANGED <<room, answers, line, task, slot, rest, now, commands, played, lost>>

\* The handshake reads the place, a later call counts the socket.
Handshake(p) ==
  /\ line[p] = "closed"
  /\ person[p].status = "JOINED"
  /\ room.status # "TERMINATED"
  /\ line' = [line EXCEPT ![p] = "opening"]
  /\ UNCHANGED <<room, person, answers, task, slot, rest, now, commands, played, lost>>

Connected(p) ==
  /\ line[p] = "opening"
  /\ line' = [line EXCEPT ![p] = "open"]
  /\ person' = [person EXCEPT ![p].connections = 1, ![p].status = "JOINED"]
  /\ UNCHANGED <<room, answers, task, slot, rest, now, commands, played, lost>>

\* A socket closes, on its own or because its player was removed; its timer
\* goes with it.  A running command ends first.
Disconnect(p) ==
  /\ line[p] = "open"
  /\ task[Command(p)] = Idle
  /\ line' = [line EXCEPT ![p] = "closed"]
  /\ person' = [person EXCEPT ![p].connections = 0]
  /\ Unslotted(p)
  /\ lost' = (lost \/ slot[p] # Never)
  /\ UNCHANGED <<room, answers, task, rest, now, commands, played>>

----------------------------------------------------------------------------
(* Calls that move the room.                                               *)

Elsewhere == UNCHANGED <<line, slot, rest, now, lost>>

\* start_game; the countdown follows in the same command.
Start(k) ==
  /\ Commanded(k)
  /\ May("STARTING")
  /\ room' = Moved([room EXCEPT !.status = "STARTING"])
  /\ Then(k, Do("open first"))
  /\ UNCHANGED <<person, answers, played>>
  /\ Elsewhere

\* open_question: the deadline is computed here and stored.  A host opens
\* the next question; the index a frame may name is left out.
OpenAt(k, i) ==
  /\ room' = Moved([room EXCEPT !.status = "ACTIVE", !.index = i, !.endsAt = now + Limit])
  /\ Then(k, Arm(now + Limit))
  /\ played' = 0
  /\ UNCHANGED <<person, answers>>

OpenQuestion(k) ==
  /\ May("ACTIVE")
  /\ \/ Reached(k, "open first") /\ OpenAt(k, 0)
     \/ Commanded(k) /\ room.index + 1 \in Indexes /\ OpenAt(k, room.index + 1)
  /\ Elsewhere

\* _settle_streaks, of the question just closed.
Settled ==
  [p \in Players |->
     IF person[p].status = "JOINED"
     THEN [person[p] EXCEPT !.streak = IF answers[p][room.index] > 0 THEN @ + 1 ELSE 0]
     ELSE person[p]]

\* _end_question: the task that closes it also moves on, after a pause.
CloseQuestion(k) ==
  /\ Reached(k, "close")
  /\ room.status = "ACTIVE"
  /\ room' = Moved([room EXCEPT !.status = "RESULTS"])
  /\ person' = Settled
  /\ Then(k, IF ManualAdvance THEN Idle ELSE Do("advance"))
  /\ UNCHANGED <<answers, played>>
  /\ Elsewhere

\* assign_ranks: one better than all who scored less.
Place(rows, p) ==
  1 + Cardinality({q \in Players : rows[q].status = "JOINED" /\ rows[q].score > rows[p].score})
Ranked(rows) ==
  [p \in Players |->
     IF rows[p].status = "JOINED" THEN [rows[p] EXCEPT !.rank = Place(rows, p)] ELSE rows[p]]

\* award_for_game: a game pays a player once, from the row as it then is.
Awarded(rows) ==
  [p \in Players |->
     IF rows[p].status = "JOINED" /\ rows[p].paid = NotPaid
     THEN [rows[p] EXCEPT !.paid = <<rows[p].score, rows[p].rank>>]
     ELSE rows[p]]

FinishGame(k, rows) ==
  /\ room' = Moved([room EXCEPT !.status = "FINISHED", !.endsAt = Never])
  /\ person' = Awarded(Ranked(rows))
  /\ Then(k, Do("announce"))
  /\ UNCHANGED <<answers, played>>

\* _announce_finished asks for the payout again.
AnnounceFinished(k) ==
  /\ Reached(k, "announce")
  /\ person' = IF room.status = "FINISHED" THEN Awarded(person) ELSE person
  /\ Then(k, Idle)
  /\ UNCHANGED <<room, answers, played>>
  /\ Elsewhere

Advance(k) ==
  /\ Commanded(k) \/ Reached(k, "advance")
  /\ room.status = "RESULTS"
  /\ IF room.index + 1 \in Indexes THEN OpenAt(k, room.index + 1)
                                   ELSE FinishGame(k, person)
  /\ Elsewhere

Pause(k) ==
  /\ Reached(k, "pause")
  /\ May("PAUSED")
  /\ room' = Moved([room EXCEPT !.status = "PAUSED", !.pausedAt = now, !.from = room.status])
  /\ Then(k, Idle)
  /\ UNCHANGED <<person, answers, played>>
  /\ Elsewhere

Unshifted(r) == r.endsAt
\* resume_game gives an open question back the time the pause took.
Shifted(r) == IF r.from = "ACTIVE" THEN r.endsAt + (now - r.pausedAt) ELSE r.endsAt

Resume(k) ==
  /\ Commanded(k)
  /\ room.status = "PAUSED"
  /\ room' = Moved([room EXCEPT !.status = room.from, !.from = "none",
                                !.pausedAt = Never, !.endsAt = Shifted(room)])
  /\ Then(k, IF room.from = "ACTIVE" THEN Arm(Shifted(room)) ELSE Idle)
  /\ UNCHANGED <<person, answers, played>>
  /\ Elsewhere

Terminated(r) == Moved([r EXCEPT !.status = "TERMINATED", !.endsAt = Never])

\* end_game: what the End button means, screen by screen.
EndGame(k) ==
  /\ Reached(k, "end")
  /\ \/ /\ room.status = "FINISHED"
        /\ Then(k, Do("announce"))
        /\ UNCHANGED <<room, person, answers, played>>
     \/ /\ room.status \in {"LOBBY", "STARTING"}
        /\ room' = Terminated(room)
        /\ Then(k, Idle)
        /\ UNCHANGED <<person, answers, played>>
     \/ room.status = "ACTIVE" /\ FinishGame(k, Settled)
     \/ room.status \in {"RESULTS", "PAUSED"} /\ FinishGame(k, person)
  /\ Elsewhere

\* A call the room's status refuses: nothing is written, the task ends.
Refused(k) ==
  /\ task[k].do \in {"open first", "close", "advance", "pause", "end"}
  /\ CASE task[k].do = "open first" -> ~May("ACTIVE")
       [] task[k].do = "close" -> room.status # "ACTIVE"
       [] task[k].do = "advance" -> room.status # "RESULTS"
       [] task[k].do = "pause" -> ~May("PAUSED")
       [] task[k].do = "end" -> room.status = "TERMINATED"
  /\ Then(k, Idle)
  /\ UNCHANGED <<room, person, answers, commands, played>>
  /\ Elsewhere

RemoveParticipant(k) ==
  /\ Commanded(k)
  /\ ~Over
  /\ \E p \in Players :
       /\ person[p].status # "absent"
       /\ person' = [person EXCEPT ![p].status = "KICKED", ![p].connections = 0]
  /\ UNCHANGED <<room, answers, task, played>>
  /\ Elsewhere

----------------------------------------------------------------------------
(* Answers.                                                                *)

GainOnTop(p, q, n) == n
\* A revised answer moves the total by the difference.
Gain(p, q, n) == n - (IF answers[p][q] = NoAnswer THEN 0 ELSE answers[p][q])

Accepting == room.status = "ACTIVE" /\ now <= room.endsAt

\* A refused answer changes nothing, so only accepted ones are steps.
SubmitAnswer(p, n) ==
  /\ line[p] = "open"
  /\ task[Command(p)] = Idle
  /\ Accepting
  /\ answers[p][room.index] = NoAnswer \/ AnswerChange
  /\ answers' = [answers EXCEPT ![p][room.index] = n]
  /\ person' = [person EXCEPT ![p].score = @ + Gain(p, room.index, n)]
  /\ Then(Command(p), Do("check"))
  /\ UNCHANGED <<room, line, slot, rest, now, commands, played, lost>>

\* everyone_answered counts the answers in, whoever gave them, against the
\* players present.
EveryoneAnswered ==
  LET present == {p \in Players : person[p].status = "JOINED" /\ person[p].connections > 0}
      answered == {p \in Players : answers[p][room.index] # NoAnswer}
  IN present # {} /\ Cardinality(answered) >= Cardinality(present)

\* Nobody left to wait for: the socket whose answer completed the room ends
\* the question, and cancels its own timer.
CheckEveryone(k) ==
  /\ Reached(k, "check")
  /\ IF room.status = "ACTIVE" /\ EveryoneAnswered
     THEN Then(k, Do("close")) /\ Unslotted(Socket(k))
     ELSE Then(k, Idle) /\ UNCHANGED slot
  /\ UNCHANGED <<room, person, answers, line, rest, now, played, lost>>

----------------------------------------------------------------------------
(* The REST call, and time.                                                *)

\* Of several calls under way the model follows the one that loaded last.
LoadToTerminate ==
  /\ ~Over
  /\ rest' = room
  /\ UNCHANGED <<room, person, answers, line, task, slot, now, commands, played, lost>>

StillLive(copy) == room.status # "TERMINATED"
\* conditional_session_update: the row has not moved since it was loaded.
StillAt(copy) == room.status = copy.status /\ room.version = copy.version

Terminate ==
  /\ rest # NoCopy
  /\ room' = IF StillAt(rest) THEN Terminated(room) ELSE room
  /\ rest' = NoCopy
  /\ UNCHANGED <<person, answers, line, task, slot, now, commands, played, lost>>

Tick ==
  /\ now < MaxTime \/ (room.status = "ACTIVE" /\ now < room.endsAt)
  /\ now' = now + 1
  /\ played' = IF room.status = "ACTIVE" THEN played + 1 ELSE played
  /\ UNCHANGED <<room, person, answers, line, task, slot, rest, commands, lost>>

Call(k) ==
  \/ Start(k) \/ OpenQuestion(k) \/ CloseQuestion(k) \/ Advance(k)
  \/ AnnounceFinished(k) \/ Pause(k) \/ Resume(k) \/ EndGame(k) \/ Refused(k)
  \/ RemoveParticipant(k) \/ CheckEveryone(k) \/ ArmTimer(k)

Next ==
  \/ \E h \in Hosts : CancelFirst(h)
  \/ \E s \in Sockets : TimerFires(s)
  \/ \E k \in Tasks : Call(k)
  \/ \E p \in Players :
       \/ Join(p) \/ Handshake(p) \/ Connected(p) \/ Disconnect(p)
       \/ \E n \in Points : SubmitAnswer(p, n)
  \/ LoadToTerminate \/ Terminate
  \/ Tick

Spec == Init /\ [][Next]_vars

----------------------------------------------------------------------------
(* Properties.                                                             *)

\* A running total is the sum of the player's answers, revised ones too.
ScoreIsSum ==
  \A p \in Players :
    person[p].score = SumFunctionOnSet([q \in Indexes |-> IF answers[p][q] = NoAnswer
                                                          THEN 0 ELSE answers[p][q]], Indexes)

\* Only a finished game has paid, each player once, and the score and place
\* it paid for are still the ones on the row: neither an answer nor the stop
\* from another process reaches a game whose podium is known.
PodiumStands ==
  \A p \in Players :
    person[p].paid # NotPaid => /\ room.status = "FINISHED"
                                /\ person[p].paid = <<person[p].score, person[p].rank>>

\* Pauses are given back whole: an open question has exactly the time of it
\* left that it has not been open for.
EveryQuestionGetsItsTime ==
  room.status = "ACTIVE" => room.endsAt - now = Limit - played

\* While no socket has closed with its timer armed, an open question is
\* never left without a timer that fires by its deadline, or a task about to
\* arm one or to close it: every phone at zero and nobody to move on is out.
OpenHasTimer ==
  room.status = "ACTIVE" /\ ~lost =>
    \/ \E s \in Sockets : slot[s] # Never /\ slot[s] <= room.endsAt
    \/ \E k \in Tasks : \/ task[k].do \in {"close", "end"}
                        \/ task[k].do = "arm" /\ task[k].due <= room.endsAt
                        \/ task[k].do = "pause"
=============================================================================
