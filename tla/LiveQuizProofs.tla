--------------------------- MODULE LiveQuizProofs ---------------------------
(***************************************************************************)
(* Proofs about LiveQuiz, for any hosts, players, questions, limit and     *)
(* bounds.  Every step is first put in one of a few shapes, by what it     *)
(* does to the room and its clock; the invariants follow from the shapes.  *)
(***************************************************************************)
EXTENDS LiveQuiz, SumProofs

USE LiveQuizAssumption

(* Nobody stops, from the other process, a room it has seen over.          *)
RestLive == rest # NoCopy => rest.status \notin Terminal

(* What a step does to the room and its clock.                             *)
Kept == UNCHANGED <<room, now, played>>
Opened ==
  /\ \E i \in Indexes : room' = Moved([room EXCEPT !.status = "ACTIVE", !.index = i,
                                                   !.endsAt = now + Limit])
  /\ now' = now /\ played' = 0
Left ==
  /\ room' \in Room
  /\ room'.status \notin {"ACTIVE", "PAUSED"}
  /\ UNCHANGED <<now, played>>
Paused ==
  /\ room.status \in {"STARTING", "ACTIVE", "RESULTS"}
  /\ room' = Moved([room EXCEPT !.status = "PAUSED", !.pausedAt = now, !.from = room.status])
  /\ UNCHANGED <<now, played>>
Resumed ==
  /\ room.status = "PAUSED"
  /\ room' = Moved([room EXCEPT !.status = room.from, !.from = "none",
                                !.pausedAt = Never, !.endsAt = Shifted(room)])
  /\ UNCHANGED <<now, played>>

RoomStep == Kept \/ Tick \/ (~Over /\ (Opened \/ Left \/ Paused \/ Resumed))

-----------------------------------------------------------------------------
(* Rows.                                                                   *)

LEMMA MayFrom ==
  ASSUME room \in Room
  PROVE  /\ May("STARTING") => room.status \in {"LOBBY", "PAUSED"}
         /\ May("ACTIVE") => room.status \in {"STARTING", "RESULTS", "PAUSED"}
         /\ May("PAUSED") <=> room.status \in {"STARTING", "ACTIVE", "RESULTS"}
<1>1. room.status \in Status
  BY DEF Room
<1>2. \A s \in Status :
        Moves[s] = CASE s = "LOBBY" -> {"STARTING", "TERMINATED"}
                     [] s = "STARTING" -> {"ACTIVE", "PAUSED", "TERMINATED"}
                     [] s = "ACTIVE" -> {"RESULTS", "PAUSED", "TERMINATED"}
                     [] s = "RESULTS" -> {"ACTIVE", "FINISHED", "PAUSED", "TERMINATED"}
                     [] s = "PAUSED" -> {"STARTING", "ACTIVE", "RESULTS", "FINISHED", "TERMINATED"}
                     [] OTHER -> {}
  BY DEF Moves
<1> QED  BY <1>1, <1>2 DEF May, Status

LEMMA MovedRow ==
  ASSUME NEW r \in Room
  PROVE  /\ Moved(r) \in Room
         /\ Moved(r) = [r EXCEPT !.version = r.version + 1]
         /\ Moved(r).status = r.status
         /\ Moved(r).index = r.index
         /\ Moved(r).endsAt = r.endsAt
         /\ Moved(r).from = r.from
         /\ Moved(r).pausedAt = r.pausedAt
<1> DEFINE v == r.version + 1
<1>1. v \in Nat
  BY DEF Room
<1> HIDE DEF v
<1>2. [r EXCEPT !.version = v] \in Room
  BY <1>1 DEF Room
<1> QED  BY <1>1, <1>2 DEF Moved, v, Room

LEMMA OpenedRow ==
  ASSUME room \in Room, now \in Nat, Opened
  PROVE  /\ room' \in Room /\ room'.status = "ACTIVE"
         /\ room'.index \in Indexes /\ room'.endsAt = now + Limit
<1>1. PICK i \in Indexes : room' = Moved([room EXCEPT !.status = "ACTIVE", !.index = i,
                                                      !.endsAt = now + Limit])
  BY DEF Opened
<1> DEFINE due == now + Limit
           r == [room EXCEPT !.status = "ACTIVE", !.index = i, !.endsAt = due]
<1>2. due \in Int
  OBVIOUS
<1> HIDE DEF due
<1>3. r \in Room /\ r.status = "ACTIVE" /\ r.index = i /\ r.endsAt = due
  BY <1>2 DEF Room, Status
<1> QED  BY <1>1, <1>3, MovedRow DEF due

LEMMA PausedRow ==
  ASSUME room \in Room, now \in Nat, Paused
  PROVE  /\ room' \in Room /\ room'.status = "PAUSED"
         /\ room'.index = room.index /\ room'.endsAt = room.endsAt
         /\ room'.pausedAt = now /\ room'.from = room.status
<1> DEFINE was == room.status
           r == [room EXCEPT !.status = "PAUSED", !.pausedAt = now, !.from = was]
<1>1. was \in Status /\ now \in Int
  BY DEF Room
<1> HIDE DEF was
<1>2. /\ r \in Room /\ r.status = "PAUSED" /\ r.index = room.index
      /\ r.endsAt = room.endsAt /\ r.pausedAt = now /\ r.from = was
  BY <1>1 DEF Room, Status
<1> QED  BY <1>2, MovedRow DEF Paused, was

LEMMA ShiftedInt == ASSUME RoomOK, room.status = "PAUSED" PROVE Shifted(room) \in Int
  BY DEF RoomOK, Shifted, Room

LEMMA ResumedRow ==
  ASSUME RoomOK, Resumed
  PROVE  /\ room' \in Room /\ room'.status = room.from
         /\ room'.index = room.index /\ room'.endsAt = Shifted(room)
<1> DEFINE t == Shifted(room)
           r == [room EXCEPT !.status = room.from, !.from = "none",
                             !.pausedAt = Never, !.endsAt = t]
<1>1. t \in Int /\ Never \in Int /\ room.from \in Status
  BY ShiftedInt DEF RoomOK, Resumed, Never, Status
<1> HIDE DEF t
<1>2. /\ r \in Room /\ r.status = room.from /\ r.index = room.index /\ r.endsAt = t
  BY <1>1 DEF Room, RoomOK
<1>3. room' = Moved(r)
  BY DEF Resumed, t
<1> QED  BY <1>2, <1>3, MovedRow DEF t

LEMMA TerminatedRow ==
  ASSUME NEW r \in Room
  PROVE  Terminated(r) \in Room /\ Terminated(r).status = "TERMINATED"
<1>1. Never \in Int
  BY DEF Never
<1> DEFINE q == [r EXCEPT !.status = "TERMINATED", !.endsAt = Never]
<1>2. q \in Room /\ q.status = "TERMINATED"
  BY <1>1 DEF Room, Status
<1> QED  BY <1>2, MovedRow DEF Terminated

-----------------------------------------------------------------------------
(* Every step has one of the shapes.                                       *)

LEMMA OpenAtOpened ==
  ASSUME NEW k, NEW i \in Indexes, OpenAt(k, i), Elsewhere
  PROVE  Opened
  BY DEF OpenAt, Elsewhere, Opened

LEMMA OpenQuestionShape ==
  ASSUME RoomOK, NEW k \in Tasks, OpenQuestion(k)
  PROVE  ~Over /\ Opened
<1>1. 0 \in Indexes
  BY DEF Indexes
<1>2. ~Over
  BY MayFrom DEF OpenQuestion, RoomOK, Over, Terminal
<1> QED  BY <1>1, <1>2, OpenAtOpened DEF OpenQuestion

LEMMA FinishGameLeft ==
  ASSUME RoomOK, NEW k, NEW rows, FinishGame(k, rows), Elsewhere
  PROVE  Left /\ room'.status = "FINISHED"
<1>1. Never \in Int
  BY DEF Never
<1> DEFINE q == [room EXCEPT !.status = "FINISHED", !.endsAt = Never]
<1>2. q \in Room /\ q.status = "FINISHED"
  BY <1>1 DEF RoomOK, Room, Status
<1> QED  BY <1>2, MovedRow DEF FinishGame, Elsewhere, Left

LEMMA CallShape ==
  ASSUME RoomOK, NEW k \in Tasks, Call(k)
  PROVE  RoomStep
<1>1. CASE Start(k)
  <2> DEFINE q == [room EXCEPT !.status = "STARTING"]
  <2>1. q \in Room /\ q.status = "STARTING"
    BY DEF RoomOK, Room, Status
  <2>2. Left
    BY <1>1, <2>1, MovedRow DEF Start, Elsewhere, Left
  <2>3. ~Over
    BY <1>1, MayFrom DEF Start, RoomOK, Over, Terminal
  <2> QED  BY <2>2, <2>3 DEF RoomStep
<1>2. CASE OpenQuestion(k)
  BY <1>2, OpenQuestionShape DEF RoomStep
<1>3. CASE CloseQuestion(k)
  <2> DEFINE q == [room EXCEPT !.status = "RESULTS"]
  <2>1. q \in Room /\ q.status = "RESULTS"
    BY DEF RoomOK, Room, Status
  <2>2. Left
    BY <1>3, <2>1, MovedRow DEF CloseQuestion, Elsewhere, Left
  <2> QED  BY <1>3, <2>2 DEF CloseQuestion, RoomStep, Over, Terminal
<1>4. CASE Advance(k)
  <2>1. ~Over
    BY <1>4 DEF Advance, Over, Terminal
  <2>2. CASE room.index + 1 \in Indexes
    BY <1>4, <2>1, <2>2, OpenAtOpened DEF Advance, RoomStep
  <2>3. CASE room.index + 1 \notin Indexes
    BY <1>4, <2>1, <2>3, FinishGameLeft DEF Advance, RoomStep
  <2> QED  BY <2>2, <2>3
<1>5. CASE Pause(k)
  <2>1. Paused
    BY <1>5, MayFrom DEF RoomOK, Pause, Elsewhere, Paused
  <2> QED  BY <2>1 DEF RoomStep, Paused, Over, Terminal
<1>6. CASE Resume(k)
  BY <1>6 DEF Resume, Resumed, RoomStep, Over, Terminal, Elsewhere
<1>7. CASE EndGame(k)
  <2>1. CASE room.status = "FINISHED"
    BY <1>7, <2>1 DEF EndGame, FinishGame, Elsewhere, RoomStep, Kept
  <2>2. CASE room.status \in {"LOBBY", "STARTING"}
    <3>1. room' = Terminated(room) /\ UNCHANGED <<now, played>>
      BY <1>7, <2>2 DEF EndGame, Elsewhere
    <3>2. Left
      BY <3>1, TerminatedRow DEF RoomOK, Left
    <3> QED  BY <2>2, <3>2 DEF RoomStep, Over, Terminal
  <2>3. CASE room.status \in {"ACTIVE", "RESULTS", "PAUSED"}
    <3>1. Left
      BY <1>7, <2>3, FinishGameLeft DEF EndGame
    <3> QED  BY <2>3, <3>1 DEF RoomStep, Over, Terminal
  <2> QED  BY <1>7, <2>1, <2>2, <2>3 DEF EndGame
<1>8. CASE AnnounceFinished(k) \/ Refused(k) \/ RemoveParticipant(k) \/ CheckEveryone(k) \/ ArmTimer(k)
  BY <1>8 DEF AnnounceFinished, Refused, RemoveParticipant, CheckEveryone, ArmTimer, Elsewhere,
              RoomStep, Kept
<1> QED  BY <1>1, <1>2, <1>3, <1>4, <1>5, <1>6, <1>7, <1>8 DEF Call

LEMMA StepShape ==
  ASSUME RoomOK, RestLive, Next
  PROVE  RoomStep
<1>1. CASE \E k \in Tasks : Call(k)
  BY <1>1, CallShape
<1>2. CASE Terminate
  <2>1. CASE StillAt(rest)
    <3>1. ~Over
      BY <1>2, <2>1 DEF Terminate, RestLive, StillAt, Over
    <3>2. Left
      BY <1>2, <2>1, TerminatedRow DEF Terminate, RoomOK, Left
    <3> QED  BY <3>1, <3>2 DEF RoomStep
  <2>2. CASE ~StillAt(rest)
    BY <1>2, <2>2 DEF Terminate, RoomStep, Kept
  <2> QED  BY <2>1, <2>2
<1>3. CASE \E h \in Hosts : CancelFirst(h)
  BY <1>3 DEF CancelFirst, RoomStep, Kept
<1>4. CASE \E s \in Sockets : TimerFires(s)
  BY <1>4 DEF TimerFires, RoomStep, Kept
<1>5. ASSUME NEW p \in Players,
             Join(p) \/ Handshake(p) \/ Connected(p) \/ Disconnect(p)
             \/ \E n \in Points : SubmitAnswer(p, n)
      PROVE  RoomStep
  BY <1>5 DEF Join, Handshake, Connected, Disconnect, SubmitAnswer, RoomStep, Kept
<1>6. CASE LoadToTerminate
  BY <1>6 DEF LoadToTerminate, RoomStep, Kept
<1>7. CASE Tick
  BY <1>7 DEF RoomStep
<1> QED  BY <1>1, <1>2, <1>3, <1>4, <1>5, <1>6, <1>7 DEF Next

LEMMA RestStep == ASSUME Next PROVE rest' \in {rest, NoCopy} \/ (rest' = room /\ ~Over)
<1>1. ASSUME NEW k \in Tasks, Call(k)
      PROVE  rest' = rest
  BY <1>1 DEF Call, Start, OpenQuestion, CloseQuestion, Advance, AnnounceFinished, Pause, Resume,
              EndGame, Refused, RemoveParticipant, CheckEveryone, ArmTimer, Elsewhere
<1>2. ASSUME NEW p \in Players,
             Join(p) \/ Handshake(p) \/ Connected(p) \/ Disconnect(p)
             \/ \E n \in Points : SubmitAnswer(p, n)
      PROVE  rest' = rest
  BY <1>2 DEF Join, Handshake, Connected, Disconnect, SubmitAnswer
<1>3. CASE LoadToTerminate \/ Terminate \/ Tick
  BY <1>3 DEF LoadToTerminate, Terminate, Tick
<1>4. CASE (\E h \in Hosts : CancelFirst(h)) \/ (\E s \in Sockets : TimerFires(s))
  BY <1>4 DEF CancelFirst, TimerFires
<1> QED  BY <1>1, <1>2, <1>3, <1>4 DEF Next

-----------------------------------------------------------------------------
(* The clock of an open question.  To give a pause back whole the row has  *)
(* to remember, while it lasts, how much of the question was left.         *)

Clock ==
  /\ EveryQuestionGetsItsTime
  /\ room.status = "PAUSED" /\ room.from = "ACTIVE" =>
       room.endsAt - room.pausedAt = Limit - played

RoomInv == RoomOK /\ RestLive /\ Clock

LEMMA InitRoomInv == Init => RoomInv
<1> SUFFICES ASSUME Init PROVE RoomInv
  OBVIOUS
<1>1. room \in Room /\ room.status = "LOBBY"
  BY DEF Init, Room, Status, Never
<1> QED  BY <1>1 DEF Init, RoomInv, RoomOK, RestLive, Clock, EveryQuestionGetsItsTime

LEMMA RoomFields ==
  ASSUME RoomOK
  PROVE  /\ room.endsAt \in Int /\ room.pausedAt \in Int
         /\ now \in Nat /\ played \in Nat /\ Limit \in Nat
  BY DEF RoomOK, Room

LEMMA RestInv ==
  ASSUME RoomOK, RestLive, Next
  PROVE  rest' \in Room \cup {NoCopy} /\ RestLive'
<1>1. CASE rest' \in {rest, NoCopy}
  BY <1>1 DEF RoomOK, RestLive
<1>2. CASE rest' = room /\ ~Over
  BY <1>2 DEF RoomOK, RestLive, Over
<1> QED  BY <1>1, <1>2, RestStep

LEMMA RoomInvInductive == ASSUME RoomInv, [Next]_vars PROVE RoomInv'
<1>1. RoomOK /\ RestLive /\ Clock
  BY DEF RoomInv
<1>2. CASE UNCHANGED vars
  BY <1>1, <1>2 DEF vars, RoomInv, RoomOK, InPlay, RestLive, Clock, EveryQuestionGetsItsTime
<1>3. CASE Next
  <2>1. rest' \in Room \cup {NoCopy} /\ RestLive'
    BY <1>1, <1>3, RestInv
  <2>2. CASE Kept
    BY <1>1, <2>1, <2>2 DEF Kept, RoomInv, RoomOK, InPlay, Clock, EveryQuestionGetsItsTime
  <2>3. CASE Tick
    <3>1. room' = room /\ now' = now + 1
          /\ played' = IF room.status = "ACTIVE" THEN played + 1 ELSE played
      BY <2>3 DEF Tick
    <3>2. RoomOK'
      BY <1>1, <2>1, <3>1 DEF RoomOK, InPlay
    <3>3. Clock'
      BY <1>1, <3>1, RoomFields DEF Clock, EveryQuestionGetsItsTime
    <3> QED  BY <2>1, <3>2, <3>3 DEF RoomInv
  <2>4. CASE Opened
    <3>1. /\ room' \in Room /\ room'.status = "ACTIVE"
          /\ room'.index \in Indexes /\ room'.endsAt = now + Limit
          /\ now' = now /\ played' = 0
      BY <1>1, <2>4, OpenedRow DEF RoomOK, Opened
    <3> QED  BY <1>1, <2>1, <3>1, RoomFields
             DEF RoomInv, RoomOK, InPlay, Clock, EveryQuestionGetsItsTime
  <2>5. CASE Left
    BY <1>1, <2>1, <2>5 DEF Left, RoomInv, RoomOK, Clock, EveryQuestionGetsItsTime
  <2>6. CASE Paused
    <3>1. /\ room' \in Room /\ room'.status = "PAUSED" /\ room'.index = room.index
          /\ room'.endsAt = room.endsAt /\ room'.pausedAt = now /\ room'.from = room.status
          /\ now' = now /\ played' = played
          /\ room.status \in {"STARTING", "ACTIVE", "RESULTS"}
      BY <1>1, <2>6, PausedRow DEF RoomOK, Paused
    <3> QED  BY <1>1, <2>1, <3>1, RoomFields
             DEF RoomInv, RoomOK, InPlay, Clock, EveryQuestionGetsItsTime
  <2>7. CASE Resumed
    <3>1. /\ room' \in Room /\ room'.status = room.from /\ room'.index = room.index
          /\ room'.endsAt = Shifted(room)
          /\ now' = now /\ played' = played /\ room.status = "PAUSED"
      BY <1>1, <2>7, ResumedRow DEF Resumed
    <3>2. room.from \in {"STARTING", "ACTIVE", "RESULTS"} /\ room.pausedAt \in 0 .. now
      BY <1>1, <3>1 DEF RoomOK
    <3>3. CASE room.from = "ACTIVE"
      <4>1. /\ room'.endsAt = room.endsAt + (now - room.pausedAt)
            /\ room.endsAt \in Nat /\ room.index \in Indexes
            /\ room.endsAt - room.pausedAt = Limit - played
        BY <1>1, <3>1, <3>3 DEF Shifted, RoomOK, InPlay, Clock
      <4> QED  BY <1>1, <2>1, <3>1, <3>2, <3>3, <4>1, RoomFields
               DEF RoomInv, RoomOK, InPlay, Clock, EveryQuestionGetsItsTime
    <3>4. CASE room.from # "ACTIVE"
      BY <1>1, <2>1, <3>1, <3>2, <3>4 DEF RoomInv, RoomOK, InPlay, Clock, EveryQuestionGetsItsTime
    <3> QED  BY <3>3, <3>4
  <2> QED  BY <1>1, <1>3, <2>2, <2>3, <2>4, <2>5, <2>6, <2>7, StepShape DEF RoomStep
<1> QED  BY <1>2, <1>3

LEMMA RoomInvHolds == Spec => []RoomInv
<1>1. Init => RoomInv
  BY InitRoomInv
<1>2. RoomInv /\ [Next]_vars => RoomInv'
  BY RoomInvInductive
<1> QED  BY <1>1, <1>2, PTL DEF Spec

(* Whatever pauses, unpauses and skips hosts send, in whatever order, an   *)
(* open question has the time of it left that it has not been open for.    *)
THEOREM EveryQuestionGetsItsTimeHolds == Spec => []EveryQuestionGetsItsTime
<1>1. RoomInv => EveryQuestionGetsItsTime
  BY DEF RoomInv, Clock
<1> QED  BY <1>1, RoomInvHolds, PTL

-----------------------------------------------------------------------------
(* Players' rows.                                                          *)

People == [Players -> Person]

(* A row that is paid holds what it was paid for.                          *)
PaidAsStands(rows) == \A p \in Players : rows[p].paid \in {NotPaid, <<rows[p].score, rows[p].rank>>}

SameConnections(rows) == \A p \in Players : rows[p].connections = person[p].connections
SamePay(rows) == \A p \in Players : rows[p].paid = person[p].paid

LEMMA PersonFields ==
  ASSUME NEW r \in Person
  PROVE  /\ r.status \in {"absent", "JOINED", "KICKED"} /\ r.connections \in {0, 1}
         /\ r.score \in Int /\ r.streak \in Nat /\ r.rank \in Nat
         /\ r.paid \in {NotPaid} \cup (Int \X Nat)
  BY DEF Person

LEMMA SettledRows ==
  ASSUME person \in People
  PROVE  Settled \in People /\ SameConnections(Settled) /\ SamePay(Settled)
<1>1. ASSUME NEW p \in Players
      PROVE  /\ Settled[p] \in Person
             /\ Settled[p].connections = person[p].connections
             /\ Settled[p].paid = person[p].paid
  <2> DEFINE n == IF answers[p][room.index] > 0 THEN person[p].streak + 1 ELSE 0
  <2>1. n \in Nat /\ person[p] \in Person
    BY PersonFields DEF People
  <2>2. Settled[p] = IF person[p].status = "JOINED" THEN [person[p] EXCEPT !.streak = n]
                                                    ELSE person[p]
    BY DEF Settled
  <2> HIDE DEF n
  <2> QED  BY <2>1, <2>2 DEF Person
<1> QED  BY <1>1 DEF Settled, People, SameConnections, SamePay

LEMMA PlaceType == ASSUME NEW rows, NEW p PROVE Place(rows, p) \in Nat
<1> DEFINE S == {q \in Players : rows[q].status = "JOINED" /\ rows[q].score > rows[p].score}
<1>1. Cardinality(S) \in Nat
  BY FS_Subset, FS_CardinalityType
<1> QED  BY <1>1 DEF Place

LEMMA RankedRows ==
  ASSUME NEW rows \in People
  PROVE  /\ Ranked(rows) \in People
         /\ \A p \in Players : /\ Ranked(rows)[p].connections = rows[p].connections
                               /\ Ranked(rows)[p].paid = rows[p].paid
<1>1. ASSUME NEW p \in Players
      PROVE  /\ Ranked(rows)[p] \in Person
             /\ Ranked(rows)[p].connections = rows[p].connections
             /\ Ranked(rows)[p].paid = rows[p].paid
  <2> DEFINE n == Place(rows, p)
  <2>1. n \in Nat /\ rows[p] \in Person
    BY PlaceType DEF People
  <2>2. Ranked(rows)[p] = IF rows[p].status = "JOINED" THEN [rows[p] EXCEPT !.rank = n] ELSE rows[p]
    BY DEF Ranked
  <2> HIDE DEF n
  <2> QED  BY <2>1, <2>2 DEF Person
<1> QED  BY <1>1 DEF Ranked, People

LEMMA AwardedRows ==
  ASSUME NEW rows \in People
  PROVE  /\ Awarded(rows) \in People
         /\ \A p \in Players : Awarded(rows)[p].connections = rows[p].connections
         /\ PaidAsStands(rows) => PaidAsStands(Awarded(rows))
<1>1. ASSUME NEW p \in Players
      PROVE  /\ Awarded(rows)[p] \in Person
             /\ Awarded(rows)[p].connections = rows[p].connections
             /\ \/ Awarded(rows)[p] = rows[p]
                \/ Awarded(rows)[p].paid = <<Awarded(rows)[p].score, Awarded(rows)[p].rank>>
  <2> DEFINE due == <<rows[p].score, rows[p].rank>>
             r == [rows[p] EXCEPT !.paid = due]
  <2>1. due \in Int \X Nat /\ rows[p] \in Person
    BY PersonFields DEF People
  <2>2. Awarded(rows)[p] = IF rows[p].status = "JOINED" /\ rows[p].paid = NotPaid
                           THEN [rows[p] EXCEPT !.paid = due] ELSE rows[p]
    BY DEF Awarded
  <2>3. r \in Person /\ r.connections = rows[p].connections /\ r.paid = <<r.score, r.rank>>
    <3>1. r.score = rows[p].score /\ r.rank = rows[p].rank /\ r.paid = due
      BY <2>1 DEF Person
    <3> HIDE DEF due
    <3>2. r \in Person /\ r.connections = rows[p].connections
      BY <2>1 DEF Person
    <3> QED  BY <3>1, <3>2 DEF due
  <2> HIDE DEF due
  <2> QED  BY <2>1, <2>2, <2>3
<1> QED  BY <1>1 DEF Awarded, People, PaidAsStands

-----------------------------------------------------------------------------
(* The podium.  A step writes no pay, or it finishes the game, or it pays  *)
(* again in a finished one.                                                *)

PodiumKept == \A p \in Players : /\ person'[p].score = person[p].score
                                 /\ person'[p].rank = person[p].rank
                                 /\ person'[p].paid = person[p].paid
Unpaid ==
  /\ room.status # "FINISHED"
  /\ SamePay(person')
Paying(rows) == person' = Awarded(rows) /\ PaidAsStands(rows) /\ room'.status = "FINISHED"

PersonStep ==
  /\ person' \in People
  /\ PodiumKept \/ Unpaid \/ \E rows \in People : Paying(rows)

LEMMA PeopleRow ==
  ASSUME PeopleOK, NEW p \in Players
  PROVE  person \in People /\ person[p] \in Person
  BY DEF PeopleOK, People

LEMMA UnpaidStands ==
  ASSUME PodiumStands, room.status # "FINISHED", NEW rows, SamePay(rows)
  PROVE  PaidAsStands(rows)
  BY DEF PodiumStands, SamePay, PaidAsStands

LEMMA FinishGamePerson ==
  ASSUME PeopleOK, PodiumStands, room.status # "FINISHED", room'.status = "FINISHED",
         NEW k, NEW rows \in People, SamePay(rows), SameConnections(rows), FinishGame(k, rows)
  PROVE  PersonStep /\ SameConnections(person')
<1>1. Ranked(rows) \in People /\ SamePay(Ranked(rows)) /\ SameConnections(Ranked(rows))
  BY RankedRows DEF SamePay, SameConnections
<1>2. person' = Awarded(Ranked(rows))
  BY DEF FinishGame
<1>3. Paying(Ranked(rows))
  BY <1>1, <1>2, UnpaidStands DEF Paying
<1> QED  BY <1>1, <1>2, <1>3, AwardedRows DEF PersonStep, SameConnections

LEMMA PersonKept ==
  ASSUME PeopleOK, UNCHANGED person
  PROVE  PersonStep /\ SameConnections(person')
  BY DEF PeopleOK, People, PersonStep, PodiumKept, SameConnections

LEMMA SamePeople == ASSUME PeopleOK PROVE person \in People /\ SamePay(person) /\ SameConnections(person)
  BY DEF PeopleOK, People, SamePay, SameConnections

LEMMA CallPerson ==
  ASSUME RoomOK, PeopleOK, PodiumStands, NEW k \in Tasks, Call(k)
  PROVE  /\ PersonStep
         /\ \A p \in Players : person'[p].connections \in {0, person[p].connections}
<1>1. SUFFICES ASSUME ~RemoveParticipant(k)
               PROVE  PersonStep /\ SameConnections(person')
  <2>1. CASE RemoveParticipant(k)
    <3>1. PICK p \in Players :
            person' = [person EXCEPT ![p].status = "KICKED", ![p].connections = 0]
      BY <2>1 DEF RemoveParticipant
    <3>2. ASSUME NEW q \in Players
          PROVE  /\ person'[q] \in Person
                 /\ person'[q].score = person[q].score /\ person'[q].rank = person[q].rank
                 /\ person'[q].paid = person[q].paid
                 /\ person'[q].connections \in {0, person[q].connections}
      <4>1. person[q] \in Person /\ person \in People
        BY PeopleRow
      <4>2. person'[q] = IF q = p THEN [person[q] EXCEPT !.status = "KICKED", !.connections = 0]
                                  ELSE person[q]
        BY <3>1, <4>1 DEF People
      <4> QED  BY <4>1, <4>2 DEF Person
    <3>3. person' \in People
      BY <3>1, <3>2, SamePeople DEF People
    <3> QED  BY <3>2, <3>3 DEF PersonStep, PodiumKept
  <2> QED  BY <1>1, <2>1 DEF SameConnections
<1>2. CASE Start(k) \/ OpenQuestion(k) \/ Pause(k) \/ Resume(k) \/ Refused(k) \/ CheckEveryone(k) \/ ArmTimer(k)
  BY <1>2, PersonKept DEF Start, OpenQuestion, OpenAt, Pause, Resume, Refused, CheckEveryone, ArmTimer
<1>3. CASE CloseQuestion(k)
  BY <1>3, SettledRows, SamePeople DEF CloseQuestion, PersonStep, Unpaid
<1>4. CASE Advance(k)
  <2>1. CASE room.index + 1 \in Indexes
    BY <1>4, <2>1, PersonKept DEF Advance, OpenAt
  <2>2. CASE room.index + 1 \notin Indexes
    <3>1. FinishGame(k, person) /\ room.status # "FINISHED" /\ room'.status = "FINISHED"
      BY <1>4, <2>2, FinishGameLeft DEF Advance
    <3> QED  BY <3>1, FinishGamePerson, SamePeople
  <2> QED  BY <2>1, <2>2
<1>5. CASE AnnounceFinished(k)
  <2>1. CASE room.status = "FINISHED"
    <3>1. person' = Awarded(person) /\ room' = room
      BY <1>5, <2>1 DEF AnnounceFinished
    <3>2. PaidAsStands(person)
      BY DEF PodiumStands, PaidAsStands
    <3> QED  BY <2>1, <3>1, <3>2, SamePeople, AwardedRows DEF PersonStep, Paying, SameConnections
  <2>2. CASE room.status # "FINISHED"
    BY <1>5, <2>2, PersonKept DEF AnnounceFinished
  <2> QED  BY <2>1, <2>2
<1>6. CASE EndGame(k)
  <2>1. CASE room.status \in {"FINISHED", "LOBBY", "STARTING"}
    BY <1>6, <2>1, PersonKept DEF EndGame
  <2>2. CASE room.status = "ACTIVE"
    <3>1. FinishGame(k, Settled) /\ room'.status = "FINISHED"
      BY <1>6, <2>2, FinishGameLeft DEF EndGame
    <3> QED  BY <2>2, <3>1, FinishGamePerson, SettledRows, SamePeople
  <2>3. CASE room.status \in {"RESULTS", "PAUSED"}
    <3>1. FinishGame(k, person) /\ room'.status = "FINISHED"
      BY <1>6, <2>3, FinishGameLeft DEF EndGame
    <3> QED  BY <2>3, <3>1, FinishGamePerson, SamePeople
  <2> QED  BY <1>6, <2>1, <2>2, <2>3 DEF EndGame
<1> QED  BY <1>1, <1>2, <1>3, <1>4, <1>5, <1>6 DEF Call

LEMMA ConnectionPerson ==
  ASSUME PeopleOK, NEW p \in Players, Join(p) \/ Connected(p) \/ Disconnect(p)
  PROVE  PersonStep /\ PeopleOK'
<1>1. PICK st \in {"absent", "JOINED", "KICKED"}, n \in {0, 1} :
        /\ person' = [person EXCEPT ![p] = [person[p] EXCEPT !.status = st, !.connections = n]]
        /\ n = 1 => line'[p] = "open"
  <2>1. CASE Join(p)
    <3>1. person' = [person EXCEPT ![p] = [person[p] EXCEPT !.status = "JOINED",
                                                            !.connections = person[p].connections]]
      BY <2>1, PeopleRow DEF Join, Person
    <3>2. person[p].connections \in {0, 1} /\ line' = line
      BY <2>1, PeopleRow, PersonFields DEF Join
    <3> QED  BY <2>1, <3>1, <3>2 DEF PeopleOK
  <2>2. CASE Connected(p)
    <3>1. person' = [person EXCEPT ![p] = [person[p] EXCEPT !.status = "JOINED", !.connections = 1]]
      BY <2>2, PeopleRow DEF Connected, Person
    <3>2. line'[p] = "open"
      BY <2>2 DEF Connected, PeopleOK
    <3> QED  BY <3>1, <3>2
  <2>3. CASE Disconnect(p)
    <3>1. person' = [person EXCEPT ![p] = [person[p] EXCEPT !.status = person[p].status,
                                                            !.connections = 0]]
      BY <2>3, PeopleRow DEF Disconnect, Person
    <3>2. person[p].status \in {"absent", "JOINED", "KICKED"} /\ (0 = 1 => line'[p] = "open")
      BY PeopleRow, PersonFields
    <3> QED  BY <3>1, <3>2
  <2> QED  BY <2>1, <2>2, <2>3
<1>2. ASSUME NEW q \in Players
      PROVE  /\ person'[q] \in Person
             /\ person'[q].score = person[q].score /\ person'[q].rank = person[q].rank
             /\ person'[q].paid = person[q].paid
             /\ person'[q].connections = IF q = p THEN n ELSE person[q].connections
  <2>1. person[q] \in Person /\ person \in People
    BY PeopleRow
  <2>2. person'[q] = IF q = p THEN [person[q] EXCEPT !.status = st, !.connections = n]
                              ELSE person[q]
    BY <1>1, <2>1 DEF People
  <2> QED  BY <2>1, <2>2 DEF Person
<1>3. person' \in People
  BY <1>1, <1>2, SamePeople DEF People
<1>4. /\ line' \in [Players -> {"closed", "opening", "open"}] /\ answers' = answers
      /\ \A q \in Players : q # p => line'[q] = line[q]
  BY DEF Join, Connected, Disconnect, PeopleOK
<1>5. \A q \in Players : person'[q].connections = 1 => line'[q] = "open"
  BY <1>1, <1>2, <1>4 DEF PeopleOK
<1> QED  BY <1>2, <1>3, <1>4, <1>5 DEF PersonStep, PodiumKept, PeopleOK, People

LEMMA SubmitPerson ==
  ASSUME RoomOK, PeopleOK, NEW p \in Players, NEW n \in Points, SubmitAnswer(p, n)
  PROVE  PersonStep /\ PeopleOK'
<1> DEFINE i == room.index
           total == person[p].score + Gain(p, i, n)
<1>1. i \in Indexes /\ room.status = "ACTIVE"
  BY DEF SubmitAnswer, Accepting, RoomOK, InPlay
<1>2. total \in Int
  <2>1. answers[p][i] \in Int /\ n \in Int
    BY <1>1 DEF PeopleOK, Points, NoAnswer
  <2>2. Gain(p, i, n) \in Int
    BY <2>1 DEF Gain
  <2> QED  BY <2>2, PeopleRow, PersonFields
<1>3. person' = [person EXCEPT ![p] = [person[p] EXCEPT !.score = total]]
  BY DEF SubmitAnswer
<1>4. /\ answers' = [answers EXCEPT ![p][i] = n]
      /\ line' = line
  BY DEF SubmitAnswer
<1>5. answers' \in [Players -> [Indexes -> Points \cup {NoAnswer}]]
  BY <1>1, <1>4 DEF PeopleOK
<1> HIDE DEF total
<1>6. ASSUME NEW q \in Players
      PROVE  /\ person'[q] \in Person
             /\ person'[q].paid = person[q].paid
             /\ person'[q].connections = person[q].connections
  <2>1. person[q] \in Person /\ person \in People
    BY PeopleRow
  <2>2. person'[q] = IF q = p THEN [person[q] EXCEPT !.score = total] ELSE person[q]
    BY <1>3, <2>1 DEF People
  <2> QED  BY <1>2, <2>1, <2>2 DEF Person
<1>7. person' \in People
  BY <1>3, <1>6, SamePeople DEF People
<1>8. Unpaid
  BY <1>1, <1>6 DEF Unpaid, SamePay
<1> QED  BY <1>4, <1>5, <1>6, <1>7, <1>8 DEF PersonStep, PeopleOK, People

LEMMA CallPeople ==
  ASSUME PeopleOK, NEW k \in Tasks, Call(k), person' \in People,
         \A p \in Players : person'[p].connections \in {0, person[p].connections}
  PROVE  PeopleOK'
<1>1. answers' = answers /\ line' = line
  BY DEF Call, Start, OpenQuestion, OpenAt, CloseQuestion, Advance, FinishGame, AnnounceFinished,
         Pause, Resume, EndGame, Refused, RemoveParticipant, CheckEveryone, ArmTimer, Elsewhere
<1> QED  BY <1>1 DEF PeopleOK, People

LEMMA PeopleStep ==
  ASSUME RoomOK, PeopleOK, PodiumStands, Next
  PROVE  PersonStep /\ PeopleOK'
<1>1. CASE \E k \in Tasks : Call(k)
  BY <1>1, CallPerson, CallPeople DEF PersonStep
<1>2. ASSUME NEW p \in Players, Handshake(p)
      PROVE  PersonStep /\ PeopleOK'
  <2>1. /\ person' = person /\ answers' = answers /\ line[p] = "closed"
        /\ line' = [line EXCEPT ![p] = "opening"]
    BY <1>2 DEF Handshake
  <2>2. line' \in [Players -> {"closed", "opening", "open"}]
    BY <2>1 DEF PeopleOK
  <2>3. \A q \in Players : person'[q].connections = 1 => line'[q] = "open"
    BY <2>1 DEF PeopleOK
  <2> QED  BY <2>1, <2>2, <2>3, PersonKept DEF PeopleOK
<1>3. CASE (\E h \in Hosts : CancelFirst(h)) \/ (\E s \in Sockets : TimerFires(s))
           \/ LoadToTerminate \/ Terminate \/ Tick
  <2>1. person' = person /\ answers' = answers /\ line' = line
    BY <1>3 DEF CancelFirst, TimerFires, LoadToTerminate, Terminate, Tick
  <2> QED  BY <2>1, PersonKept DEF PeopleOK
<1> QED  BY <1>1, <1>2, <1>3, ConnectionPerson, SubmitPerson DEF Next

FinishedInv == RoomInv /\ PeopleOK /\ PodiumStands

LEMMA InitPeople == Init => PeopleOK /\ PodiumStands
<1> SUFFICES ASSUME Init PROVE PeopleOK /\ PodiumStands
  OBVIOUS
<1> DEFINE blank == [status |-> "absent", connections |-> 0, score |-> 0,
                     streak |-> 0, rank |-> NoRank, paid |-> NotPaid]
<1>1. blank \in Person /\ blank.connections = 0 /\ blank.paid = NotPaid
  BY DEF Person, NoRank
<1>2. person = [p \in Players |-> blank]
  BY DEF Init
<1> HIDE DEF blank
<1> QED  BY <1>1, <1>2 DEF Init, PeopleOK, PodiumStands, NoAnswer

LEMMA PodiumInductive == ASSUME FinishedInv, Next PROVE PodiumStands'
<1>1. RoomOK /\ RestLive /\ PeopleOK /\ PodiumStands
  BY DEF FinishedInv, RoomInv
<1>2. PersonStep /\ RoomStep
  BY <1>1, PeopleStep, StepShape
<1>3. room.status = "FINISHED" => room' = room
  BY <1>2 DEF RoomStep, Kept, Tick, Over, Terminal
<1>4. CASE PodiumKept
  BY <1>1, <1>3, <1>4 DEF PodiumKept, PodiumStands
<1>5. CASE Unpaid
  BY <1>1, <1>5 DEF Unpaid, SamePay, PodiumStands
<1>6. ASSUME NEW rows \in People, Paying(rows)
      PROVE  PodiumStands'
  <2>1. PaidAsStands(person') /\ room'.status = "FINISHED"
    BY <1>6, AwardedRows DEF Paying
  <2> QED  BY <2>1 DEF PaidAsStands, PodiumStands
<1> QED  BY <1>2, <1>4, <1>5, <1>6 DEF PersonStep

LEMMA FinishedInvInductive == ASSUME FinishedInv, [Next]_vars PROVE FinishedInv'
<1>1. CASE UNCHANGED vars
  BY <1>1, RoomInvInductive DEF vars, FinishedInv, PeopleOK, PodiumStands
<1>2. CASE Next
  BY <1>2, RoomInvInductive, PeopleStep, PodiumInductive DEF FinishedInv, RoomInv
<1> QED  BY <1>1, <1>2

LEMMA FinishedInvHolds == Spec => []FinishedInv
<1>1. Init => FinishedInv
  BY InitRoomInv, InitPeople DEF FinishedInv
<1>2. FinishedInv /\ [Next]_vars => FinishedInv'
  BY FinishedInvInductive
<1> QED  BY <1>1, <1>2, PTL DEF Spec

(* Only a finished game has paid, each player once, and for the score and  *)
(* the place still on the row, whatever the sockets, the timers and the    *)
(* REST call do to it afterwards.                                          *)
THEOREM PodiumStandsHolds == Spec => []PodiumStands
<1>1. FinishedInv => PodiumStands
  BY DEF FinishedInv
<1> QED  BY <1>1, FinishedInvHolds, PTL

-----------------------------------------------------------------------------
(* Timers.  A deadline still to be armed is never later than the deadline  *)
(* of the question that is open, or will be again after the pause.         *)

Dues ==
  \A k \in Tasks : task[k].do = "arm" =>
    /\ task[k].due <= now + Limit
    /\ room.status = "ACTIVE" \/ (room.status = "PAUSED" /\ room.from = "ACTIVE")
         => task[k].due <= room.endsAt

TimerInv == FinishedInv /\ TasksOK /\ Dues

(* Task k goes on with v; only the call that opens or reopens a question   *)
(* leaves a timer to arm.                                                  *)
Goes(k, v) ==
  /\ Then(k, v) /\ TaskOK(k, v)
  /\ v.do = "arm" => room'.status = "ACTIVE" /\ v.due = room'.endsAt

TaskStep == UNCHANGED task \/ \E k \in Tasks : \E v : Goes(k, v)

SlotStep ==
  /\ slot' \in [Sockets -> Int]
  /\ commands' \in 0 .. MaxCommands
  /\ lost' \in BOOLEAN

LEMMA Calls ==
  /\ Idle.do = "idle"
  /\ \A op : Do(op).do = op
  /\ \A due : Arm(due).do = "arm" /\ Arm(due).due = due
  BY DEF Idle, Do, Arm

LEMMA ArmDue == ASSUME NEW k, NEW v, TaskOK(k, v), v.do = "arm" PROVE v.due \in Nat
<1>1. ASSUME NEW op, v = Do(op) PROVE op = "arm"
  BY <1>1, Calls
<1>2. v # Idle
  BY Calls
<1> QED  BY <1>1, <1>2 DEF TaskOK

LEMMA DoGoes ==
  ASSUME NEW k \in Tasks, NEW op, Then(k, Do(op)),
         \/ op \in {"advance", "close", "announce"}
         \/ k \in HostTasks /\ op \in {"open first", "pause", "end"}
         \/ k \in PlayerTasks /\ op = "check"
  PROVE  TaskStep
<1>1. Goes(k, Do(op))
  BY Calls DEF Goes, TaskOK
<1> QED  BY <1>1 DEF TaskStep

LEMMA IdleGoes == ASSUME NEW k \in Tasks, Then(k, Idle) PROVE TaskStep
<1>1. Goes(k, Idle)
  BY Calls DEF Goes, TaskOK
<1> QED  BY <1>1 DEF TaskStep

LEMMA ArmGoes ==
  ASSUME NEW k \in Tasks, NEW due \in Nat, Then(k, Arm(due)),
         room'.status = "ACTIVE", due = room'.endsAt
  PROVE  TaskStep
<1>1. Goes(k, Arm(due))
  BY Calls DEF Goes, TaskOK
<1> QED  BY <1>1 DEF TaskStep

LEMMA TaskNames ==
  /\ \A h \in Hosts : Command(h) \in Tasks /\ Command(h) \in HostTasks
  /\ \A p \in Players : Command(p) \in Tasks /\ Command(p) \in PlayerTasks
  /\ \A s \in Sockets : Fired(s) \in Tasks /\ Socket(Fired(s)) = s
  /\ \A k \in Tasks : Socket(k) \in Sockets
  BY DEF Command, Tasks, HostTasks, PlayerTasks, Sockets, Fired, Socket

LEMMA OpenAtTask ==
  ASSUME RoomOK, NEW k \in Tasks, NEW i \in Indexes, OpenAt(k, i), Elsewhere
  PROVE  /\ task' = [task EXCEPT ![k] = Arm(room'.endsAt)]
         /\ room'.status = "ACTIVE" /\ room'.endsAt \in Nat
<1>1. Opened /\ now + Limit \in Nat
  BY OpenAtOpened, RoomFields
<1>2. room'.status = "ACTIVE" /\ room'.endsAt = now + Limit
  BY <1>1, OpenedRow DEF RoomOK
<1> QED  BY <1>1, <1>2 DEF OpenAt, Then

LEMMA ResumeTask ==
  ASSUME RoomOK, NEW k \in Tasks, Resume(k)
  PROVE  IF room.from = "ACTIVE"
         THEN /\ task' = [task EXCEPT ![k] = Arm(room'.endsAt)]
              /\ room'.status = "ACTIVE" /\ room'.endsAt \in Nat
         ELSE task' = [task EXCEPT ![k] = Idle] /\ room'.status # "ACTIVE"
<1>1. Resumed
  BY DEF Resume, Resumed, Elsewhere
<1>2. /\ room'.status = room.from /\ room'.endsAt = Shifted(room)
  BY <1>1, ResumedRow
<1>3. CASE room.from = "ACTIVE"
  <2>1. /\ room.endsAt \in Nat /\ room.pausedAt \in 0 .. now /\ now \in Nat
        /\ Shifted(room) = room.endsAt + (now - room.pausedAt)
    BY <1>1, <1>3 DEF RoomOK, InPlay, Resumed, Shifted
  <2>2. Shifted(room) \in Nat
    BY <2>1
  <2> QED  BY <1>2, <1>3, <2>2 DEF Resume, Then
<1>4. CASE room.from # "ACTIVE"
  BY <1>2, <1>4 DEF Resume, Then
<1> QED  BY <1>3, <1>4

LEMMA OpenQuestionTask ==
  ASSUME RoomOK, NEW k \in Tasks, OpenQuestion(k)
  PROVE  /\ task' = [task EXCEPT ![k] = Arm(room'.endsAt)]
         /\ room'.status = "ACTIVE" /\ room'.endsAt \in Nat
<1>1. 0 \in Indexes
  BY DEF Indexes
<1> QED  BY <1>1, OpenAtTask DEF OpenQuestion

LEMMA CallTask ==
  ASSUME RoomOK, NEW k \in Tasks, Call(k)
  PROVE  TaskStep
<1>1. CASE Start(k)
  BY <1>1, DoGoes DEF Start, Commanded
<1>2. CASE OpenQuestion(k)
  BY <1>2, OpenQuestionTask, ArmGoes DEF Then
<1>3. CASE CloseQuestion(k)
  BY <1>3, DoGoes, IdleGoes DEF CloseQuestion
<1>4. CASE Advance(k)
  <2>1. CASE room.index + 1 \in Indexes
    BY <1>4, <2>1, OpenAtTask, ArmGoes DEF Advance, Then
  <2>2. CASE room.index + 1 \notin Indexes
    BY <1>4, <2>2, DoGoes DEF Advance, FinishGame
  <2> QED  BY <2>1, <2>2
<1>5. CASE Resume(k)
  <2>1. CASE room.from = "ACTIVE"
    BY <1>5, <2>1, ResumeTask, ArmGoes DEF Then
  <2>2. CASE room.from # "ACTIVE"
    BY <1>5, <2>2, ResumeTask, IdleGoes DEF Then
  <2> QED  BY <2>1, <2>2
<1>6. CASE AnnounceFinished(k) \/ Pause(k) \/ Refused(k) \/ ArmTimer(k)
  BY <1>6, IdleGoes DEF AnnounceFinished, Pause, Refused, ArmTimer
<1>7. CASE EndGame(k)
  BY <1>7, IdleGoes, DoGoes DEF EndGame, FinishGame
<1>8. CASE RemoveParticipant(k)
  BY <1>8 DEF RemoveParticipant, TaskStep
<1>9. CASE CheckEveryone(k)
  BY <1>9, IdleGoes, DoGoes DEF CheckEveryone
<1> QED  BY <1>1, <1>2, <1>3, <1>4, <1>5, <1>6, <1>7, <1>8, <1>9 DEF Call

LEMMA StepTask == ASSUME RoomOK, Next PROVE TaskStep
<1>1. ASSUME NEW h \in Hosts, CancelFirst(h)
      PROVE  TaskStep
  BY <1>1, TaskNames, DoGoes DEF CancelFirst
<1>2. ASSUME NEW s \in Sockets, TimerFires(s)
      PROVE  TaskStep
  BY <1>2, TaskNames, DoGoes DEF TimerFires
<1>3. ASSUME NEW p \in Players, NEW n \in Points, SubmitAnswer(p, n)
      PROVE  TaskStep
  BY <1>3, TaskNames, DoGoes DEF SubmitAnswer
<1>4. ASSUME NEW p \in Players, Join(p) \/ Handshake(p) \/ Connected(p) \/ Disconnect(p)
      PROVE  TaskStep
  BY <1>4 DEF Join, Handshake, Connected, Disconnect, TaskStep
<1>5. CASE LoadToTerminate \/ Terminate \/ Tick
  BY <1>5 DEF LoadToTerminate, Terminate, Tick, TaskStep
<1> QED  BY <1>1, <1>2, <1>3, <1>4, <1>5, CallTask DEF Next

LEMMA SlotsKept ==
  ASSUME TasksOK, UNCHANGED <<slot, lost>>, commands' \in 0 .. MaxCommands
  PROVE  SlotStep
  BY DEF TasksOK, SlotStep

LEMMA UnslottedType ==
  ASSUME TasksOK, NEW s \in Sockets, Unslotted(s)
  PROVE  slot' \in [Sockets -> Int]
  BY DEF TasksOK, Unslotted, Never

LEMMA CommandedCount ==
  ASSUME TasksOK, NEW k
  PROVE  /\ Commanded(k) => commands' \in 0 .. MaxCommands
         /\ UNCHANGED commands => commands' \in 0 .. MaxCommands
         /\ \A op : Reached(k, op) => commands' \in 0 .. MaxCommands
<1>1. commands \in 0 .. MaxCommands /\ MaxCommands \in Nat
  BY DEF TasksOK
<1> QED  BY <1>1 DEF Commanded, Reached

LEMMA StepSlot == ASSUME TasksOK, Next PROVE SlotStep
<1>1. ASSUME NEW k \in Tasks, Start(k) \/ OpenQuestion(k) \/ Advance(k) \/ CloseQuestion(k)
                               \/ AnnounceFinished(k) \/ Pause(k) \/ Resume(k) \/ EndGame(k)
                               \/ RemoveParticipant(k)
      PROVE  SlotStep
  <2>1. UNCHANGED <<slot, lost>>
    BY <1>1 DEF Start, OpenQuestion, Advance, CloseQuestion, AnnounceFinished, Pause, Resume,
                EndGame, RemoveParticipant, Elsewhere
  <2>2. commands' \in 0 .. MaxCommands
    BY <1>1, CommandedCount
       DEF Start, OpenQuestion, Advance, CloseQuestion, AnnounceFinished, Pause, Resume,
           EndGame, RemoveParticipant
  <2> QED  BY <2>1, <2>2, SlotsKept
<1>2. ASSUME NEW k \in Tasks, Refused(k)
      PROVE  SlotStep
  BY <1>2, SlotsKept, CommandedCount DEF Refused, Elsewhere
<1>3. ASSUME NEW k \in Tasks, CheckEveryone(k)
      PROVE  SlotStep
  <2>1. commands' \in 0 .. MaxCommands /\ lost' \in BOOLEAN
    BY <1>3, CommandedCount DEF CheckEveryone, TasksOK
  <2>2. slot' \in [Sockets -> Int]
    BY <1>3, TaskNames, UnslottedType DEF CheckEveryone, TasksOK
  <2> QED  BY <2>1, <2>2 DEF SlotStep
<1>4. ASSUME NEW k \in Tasks, ArmTimer(k)
      PROVE  SlotStep
  <2>1. task[k].due \in Int /\ slot' = [slot EXCEPT ![Socket(k)] = task[k].due]
    BY <1>4, ArmDue DEF ArmTimer, ArmedAt, TasksOK
  <2> QED  BY <1>4, <2>1, CommandedCount DEF ArmTimer, SlotStep, TasksOK
<1>5. ASSUME NEW h \in Hosts, CancelFirst(h)
      PROVE  SlotStep
  BY <1>5, CommandedCount, UnslottedType DEF CancelFirst, SlotStep, Sockets, TasksOK
<1>6. ASSUME NEW s \in Sockets, TimerFires(s)
      PROVE  SlotStep
  BY <1>6, CommandedCount, UnslottedType DEF TimerFires, SlotStep, TasksOK
<1>7. ASSUME NEW p \in Players, Disconnect(p)
      PROVE  SlotStep
  BY <1>7, CommandedCount, UnslottedType DEF Disconnect, SlotStep, Sockets, TasksOK
<1>8. ASSUME NEW p \in Players,
             Join(p) \/ Handshake(p) \/ Connected(p) \/ \E n \in Points : SubmitAnswer(p, n)
      PROVE  SlotStep
  BY <1>8, CommandedCount, SlotsKept DEF Join, Handshake, Connected, SubmitAnswer
<1>9. CASE LoadToTerminate \/ Terminate \/ Tick
  BY <1>9, CommandedCount, SlotsKept DEF LoadToTerminate, Terminate, Tick
<1> QED  BY <1>1, <1>2, <1>3, <1>4, <1>5, <1>6, <1>7, <1>8, <1>9 DEF Next, Call

LEMMA TasksOKInductive == ASSUME RoomOK, TasksOK, Next PROVE TasksOK'
<1>1. TaskStep /\ SlotStep
  BY StepTask, StepSlot
<1>2. DOMAIN task' = Tasks /\ \A k \in Tasks : TaskOK(k, task'[k])
  <2>1. CASE UNCHANGED task
    BY <2>1 DEF TasksOK
  <2>2. ASSUME NEW k \in Tasks, NEW v, Goes(k, v)
        PROVE  DOMAIN task' = Tasks /\ \A j \in Tasks : TaskOK(j, task'[j])
    <3>1. task' = [task EXCEPT ![k] = v] /\ TaskOK(k, v)
      BY <2>2 DEF Goes, Then
    <3>2. \A j \in Tasks : task'[j] = IF j = k THEN v ELSE task[j]
      BY <3>1 DEF TasksOK
    <3> QED  BY <3>1, <3>2 DEF TasksOK
  <2> QED  BY <1>1, <2>1, <2>2 DEF TaskStep
<1> QED  BY <1>1, <1>2 DEF TasksOK, SlotStep

LEMMA InitTimers == ASSUME Init PROVE TasksOK /\ Dues /\ OpenHasTimer
<1>1. TasksOK
  <2>1. \A k \in Tasks : TaskOK(k, task[k])
    BY DEF Init, TaskOK
  <2>2. DOMAIN task = Tasks /\ slot \in [Sockets -> Int] /\ lost \in BOOLEAN
    <3>1. Never \in Int
      BY DEF Never
    <3>2. task = [k \in Tasks |-> Idle] /\ slot = [s \in Sockets |-> Never] /\ lost = FALSE
      BY DEF Init
    <3> QED  BY <3>1, <3>2
  <2>3. commands \in 0 .. MaxCommands
    <3>1. MaxCommands \in Nat /\ commands = 0
      BY DEF Init
    <3> QED  BY <3>1
  <2> QED  BY <2>1, <2>2, <2>3 DEF TasksOK
<1>2. Dues
  BY Calls DEF Init, Dues
<1>3. OpenHasTimer
  BY DEF Init, OpenHasTimer
<1> QED  BY <1>1, <1>2, <1>3

(* The deadline of the question in play only moves later, and now + Limit  *)
(* is never behind it.                                                     *)
LEMMA DuesInductive == ASSUME RoomInv, TasksOK, Dues, Next PROVE Dues'
<1>1. RoomOK /\ RestLive /\ Clock /\ RoomInv'
  BY RoomInvInductive DEF RoomInv
<1>2. RoomStep /\ TaskStep
  BY <1>1, StepShape, StepTask
<1>3. now' \in Nat /\ now' >= now /\ now \in Nat /\ Limit \in Nat
  <2>1. now' \in {now, now + 1}
    BY <1>2 DEF RoomStep, Kept, Tick, Opened, Left, Paused, Resumed
  <2> QED  BY <1>1, <2>1, RoomFields
<1>4. ASSUME NEW k \in Tasks, NEW v, Goes(k, v), v.do = "arm"
      PROVE  room'.status = "ACTIVE" /\ v.due = room'.endsAt /\ v.due <= now' + Limit
  <2>1. room'.status = "ACTIVE" /\ v.due = room'.endsAt
    BY <1>4 DEF Goes
  <2>2. /\ room'.endsAt - now' = Limit - played' /\ room'.endsAt \in Int
        /\ played' \in Nat /\ now' \in Nat /\ Limit \in Nat
    BY <1>1, <2>1, RoomFields DEF RoomInv, RoomOK, Room, Clock, EveryQuestionGetsItsTime
  <2> QED  BY <2>1, <2>2
<1>5. ASSUME NEW j \in Tasks, task'[j] = task[j], task[j].do = "arm"
      PROVE  /\ task[j].due <= now' + Limit
             /\ room'.status = "ACTIVE" \/ (room'.status = "PAUSED" /\ room'.from = "ACTIVE")
                  => task[j].due <= room'.endsAt
  <2> DEFINE due == task[j].due
  <2>1. due \in Nat /\ due <= now + Limit
    BY <1>5, ArmDue DEF TasksOK, Dues
  <2>2. due <= now' + Limit
    BY <1>3, <2>1
  <2>3. ASSUME room'.status = "ACTIVE" \/ (room'.status = "PAUSED" /\ room'.from = "ACTIVE")
        PROVE  due <= room'.endsAt
    <3>1. CASE Kept \/ Tick
      <4>1. room' = room
        BY <3>1 DEF Kept, Tick
      <4> QED  BY <1>5, <2>3, <4>1 DEF Dues
    <3>2. CASE Opened
      BY <1>1, <2>1, <3>2, OpenedRow DEF RoomOK
    <3>3. CASE Left
      BY <2>3, <3>3 DEF Left
    <3>4. CASE Paused
      <4>1. room'.endsAt = room.endsAt /\ room.status = "ACTIVE"
        BY <1>1, <2>3, <3>4, PausedRow DEF RoomOK
      <4> QED  BY <1>5, <4>1 DEF Dues
    <3>5. CASE Resumed
      <4>1. room'.status = room.from /\ room'.endsAt = Shifted(room) /\ room.status = "PAUSED"
        BY <1>1, <3>5, ResumedRow DEF Resumed
      <4>2. room.from = "ACTIVE"
        BY <1>1, <2>3, <4>1 DEF RoomOK
      <4>3. /\ room'.endsAt = room.endsAt + (now - room.pausedAt) /\ due <= room.endsAt
            /\ room.pausedAt \in 0 .. now /\ room.endsAt \in Nat
        BY <1>1, <1>5, <4>1, <4>2 DEF Shifted, Dues, RoomOK, InPlay
      <4> HIDE DEF due
      <4> QED  BY <1>3, <2>1, <4>3
    <3> QED  BY <1>2, <3>1, <3>2, <3>3, <3>4, <3>5 DEF RoomStep
  <2> QED  BY <2>2, <2>3
<1>6. CASE UNCHANGED task
  BY <1>5, <1>6 DEF Dues
<1>7. ASSUME NEW k \in Tasks, NEW v, Goes(k, v)
      PROVE  Dues'
  <2>1. \A j \in Tasks : task'[j] = IF j = k THEN v ELSE task[j]
    BY <1>7 DEF Goes, Then, TasksOK
  <2>2. room'.endsAt \in Int
    BY <1>1, RoomFields DEF RoomInv, RoomOK, Room
  <2>3. ASSUME NEW j \in Tasks, task'[j].do = "arm"
        PROVE  /\ task'[j].due <= now' + Limit
               /\ room'.status = "ACTIVE" \/ (room'.status = "PAUSED" /\ room'.from = "ACTIVE")
                    => task'[j].due <= room'.endsAt
    <3>1. CASE j = k
      BY <1>4, <1>7, <2>1, <2>2, <2>3, <3>1
    <3>2. CASE j # k
      BY <1>5, <2>1, <2>3, <3>2
    <3> QED  BY <3>1, <3>2
  <2> QED  BY <2>3 DEF Dues
<1> QED  BY <1>2, <1>6, <1>7 DEF TaskStep

LEMMA TimerInvInductive == ASSUME TimerInv, [Next]_vars PROVE TimerInv'
<1>1. FinishedInv' /\ RoomInv /\ RoomOK
  BY FinishedInvInductive DEF TimerInv, FinishedInv, RoomInv
<1>2. CASE UNCHANGED vars
  BY <1>1, <1>2 DEF vars, TimerInv, TasksOK, Dues
<1>3. CASE Next
  BY <1>1, <1>3, TasksOKInductive, DuesInductive DEF TimerInv
<1> QED  BY <1>2, <1>3

LEMMA TimerInvHolds == Spec => []TimerInv
<1>1. Init => TimerInv
  BY InitRoomInv, InitPeople, InitTimers DEF TimerInv, FinishedInv
<1>2. TimerInv /\ [Next]_vars => TimerInv'
  BY TimerInvInductive
<1> QED  BY <1>1, <1>2, PTL DEF Spec

(* Every variable keeps its type, and a task only meets calls of its kind. *)
THEOREM TypeCorrect == Spec => []TypeOK
<1>1. TimerInv => TypeOK
  BY DEF TimerInv, FinishedInv, RoomInv, TypeOK
<1> QED  BY <1>1, TimerInvHolds, PTL

-----------------------------------------------------------------------------
(* Somebody is on the way to close the question: a timer set in time, or a *)
(* task about to close it, to stop the game or to arm such a timer.        *)

Rings(s) == slot[s] # Never /\ slot[s] <= room.endsAt
Comes(k) ==
  \/ task[k].do \in {"close", "end", "pause"}
  \/ task[k].do = "arm" /\ task[k].due <= room.endsAt

LEMMA HasTimer ==
  ASSUME OpenHasTimer, room.status = "ACTIVE", ~lost
  PROVE  (\E s \in Sockets : Rings(s)) \/ (\E k \in Tasks : Comes(k))
  BY DEF OpenHasTimer, Rings, Comes

LEMMA RingsNext ==
  ASSUME NEW s \in Sockets, slot'[s] # Never, slot'[s] <= room'.endsAt
  PROVE  OpenHasTimer'
  BY DEF OpenHasTimer

LEMMA ComesNext ==
  ASSUME NEW k \in Tasks,
         \/ task'[k].do \in {"close", "end", "pause"}
         \/ task'[k].do = "arm" /\ task'[k].due <= room'.endsAt
  PROVE  OpenHasTimer'
  BY DEF OpenHasTimer

(* A task that was not on the way may go on with anything.                 *)
LEMMA StillHasTimer ==
  ASSUME TasksOK, OpenHasTimer, room' = room, lost => lost',
         NEW k \in Tasks, task[k].do \notin {"close", "end", "pause", "arm"},
         task' = task \/ \E v : Then(k, v),
         ~lost' => \A s \in Sockets : slot'[s] = slot[s]
  PROVE  OpenHasTimer'
<1> SUFFICES ASSUME room.status = "ACTIVE", ~lost' PROVE OpenHasTimer'
  BY DEF OpenHasTimer
<1>1. CASE \E s \in Sockets : Rings(s)
  BY <1>1, RingsNext DEF Rings
<1>2. ASSUME NEW j \in Tasks, Comes(j)
      PROVE  OpenHasTimer'
  <2>1. j # k
    BY <1>2 DEF Comes
  <2>2. task'[j] = task[j]
    BY <2>1 DEF Then, TasksOK
  <2> QED  BY <1>2, <2>2, ComesNext DEF Comes
<1> QED  BY <1>1, <1>2, HasTimer

LEMMA NotActive == ASSUME room'.status # "ACTIVE" PROVE OpenHasTimer'
  BY DEF OpenHasTimer

LEMMA ArmedComes ==
  ASSUME TasksOK, NEW k \in Tasks, task' = [task EXCEPT ![k] = Arm(room'.endsAt)],
         room'.endsAt \in Nat
  PROVE  OpenHasTimer'
<1>1. task'[k] = Arm(room'.endsAt)
  BY DEF TasksOK
<1>2. task'[k].do = "arm" /\ task'[k].due = room'.endsAt
  BY <1>1, Calls
<1> QED  BY <1>2, ComesNext

LEMMA CallHasTimer ==
  ASSUME RoomOK, TasksOK, Dues, OpenHasTimer, NEW k \in Tasks, Call(k)
  PROVE  OpenHasTimer'
<1>1. CASE Start(k)
  <2>1. room'.status = "STARTING"
    <3> DEFINE q == [room EXCEPT !.status = "STARTING"]
    <3>1. q \in Room /\ q.status = "STARTING"
      BY DEF RoomOK, Room, Status
    <3> QED  BY <1>1, <3>1, MovedRow DEF Start
  <2> QED  BY <2>1, NotActive
<1>2. CASE OpenQuestion(k)
  BY <1>2, OpenQuestionTask, ArmedComes
<1>3. CASE CloseQuestion(k)
  <2> DEFINE q == [room EXCEPT !.status = "RESULTS"]
  <2>1. q \in Room /\ q.status = "RESULTS"
    BY DEF RoomOK, Room, Status
  <2> QED  BY <1>3, <2>1, MovedRow, NotActive DEF CloseQuestion
<1>4. CASE Advance(k)
  <2>1. CASE room.index + 1 \in Indexes
    BY <1>4, <2>1, OpenAtTask, ArmedComes DEF Advance
  <2>2. CASE room.index + 1 \notin Indexes
    BY <1>4, <2>2, FinishGameLeft, NotActive DEF Advance
  <2> QED  BY <2>1, <2>2
<1>5. CASE AnnounceFinished(k)
  <2>1. task[k].do = "announce" /\ room' = room /\ slot' = slot /\ lost' = lost /\ Then(k, Idle)
    BY <1>5, Calls DEF AnnounceFinished, Reached, Elsewhere
  <2> QED  BY <2>1, StillHasTimer
<1>6. CASE Pause(k)
  <2>1. Paused
    BY <1>6, MayFrom DEF RoomOK, Pause, Elsewhere, Paused
  <2> QED  BY <2>1, PausedRow, NotActive DEF RoomOK
<1>7. CASE Resume(k)
  <2>1. CASE room.from = "ACTIVE"
    BY <1>7, <2>1, ResumeTask, ArmedComes
  <2>2. CASE room.from # "ACTIVE"
    BY <1>7, <2>2, ResumeTask, NotActive
  <2> QED  BY <2>1, <2>2
<1>8. CASE EndGame(k)
  <2>1. CASE room.status = "FINISHED"
    BY <1>8, <2>1, NotActive DEF EndGame, FinishGame
  <2>2. CASE room.status \in {"LOBBY", "STARTING"}
    BY <1>8, <2>2, TerminatedRow, NotActive DEF EndGame, RoomOK
  <2>3. CASE room.status \in {"ACTIVE", "RESULTS", "PAUSED"}
    BY <1>8, <2>3, FinishGameLeft, NotActive DEF EndGame
  <2> QED  BY <1>8, <2>1, <2>2, <2>3 DEF EndGame
<1>9. CASE Refused(k)
  <2>1. room' = room /\ slot' = slot /\ lost' = lost /\ Then(k, Idle)
    BY <1>9 DEF Refused, Elsewhere
  <2>2. CASE task[k].do \in {"open first", "advance"}
    BY <2>1, <2>2, StillHasTimer
  <2>3. CASE task[k].do = "close"
    BY <1>9, <2>1, <2>3, NotActive DEF Refused
  <2>4. CASE task[k].do = "pause"
    <3>1. ~May("PAUSED")
      BY <1>9, <2>4 DEF Refused
    <3>2. room.status # "ACTIVE"
      BY <3>1, MayFrom DEF RoomOK
    <3> QED  BY <2>1, <3>2, NotActive
  <2>5. CASE task[k].do = "end"
    BY <1>9, <2>1, <2>5, NotActive DEF Refused
  <2> QED  BY <1>9, <2>2, <2>3, <2>4, <2>5 DEF Refused
<1>10. CASE RemoveParticipant(k)
  <2>1. task[k].do = "idle" /\ room' = room /\ slot' = slot /\ lost' = lost /\ task' = task
    BY <1>10, Calls DEF RemoveParticipant, Commanded, Elsewhere
  <2> QED  BY <2>1, StillHasTimer
<1>11. CASE CheckEveryone(k)
  <2>1. task[k].do = "check" /\ room' = room /\ lost' = lost
    BY <1>11, Calls DEF CheckEveryone, Reached
  <2>2. CASE Then(k, Idle) /\ UNCHANGED slot
    BY <2>1, <2>2, StillHasTimer
  <2>3. CASE Then(k, Do("close"))
    <3>1. task'[k].do = "close"
      BY <2>3, Calls DEF Then, TasksOK
    <3> QED  BY <3>1, ComesNext
  <2> QED  BY <1>11, <2>2, <2>3 DEF CheckEveryone
<1>12. CASE ArmTimer(k)
  <2> DEFINE s == Socket(k)
             due == task[k].due
  <2> SUFFICES ASSUME room.status = "ACTIVE" PROVE OpenHasTimer'
    BY <1>12, NotActive DEF ArmTimer
  <2>1. due \in Nat /\ due <= room.endsAt /\ s \in Sockets
    BY <1>12, ArmDue, TaskNames DEF ArmTimer, TasksOK, Dues
  <2>2. slot'[s] = due /\ room' = room
    BY <1>12, <2>1 DEF ArmTimer, ArmedAt, TasksOK
  <2>3. due # Never
    BY <2>1 DEF Never
  <2> HIDE DEF s, due
  <2> QED  BY <2>1, <2>2, <2>3, RingsNext
<1> QED  BY <1>1, <1>2, <1>3, <1>4, <1>5, <1>6, <1>7, <1>8, <1>9, <1>10, <1>11, <1>12 DEF Call

LEMMA StepHasTimer ==
  ASSUME RoomOK, TasksOK, Dues, OpenHasTimer, Next
  PROVE  OpenHasTimer'
<1>1. CASE \E k \in Tasks : Call(k)
  BY <1>1, CallHasTimer
<1>2. ASSUME NEW h \in Hosts, CancelFirst(h)
      PROVE  OpenHasTimer'
  <2>1. PICK op \in {"pause", "end", "close"} : Then(Command(h), Do(op))
    BY <1>2 DEF CancelFirst
  <2>2. Command(h) \in Tasks
    BY TaskNames
  <2>3. task'[Command(h)].do = op
    BY <2>1, <2>2, Calls DEF Then, TasksOK
  <2> QED  BY <2>2, <2>3, ComesNext
<1>3. ASSUME NEW s \in Sockets, TimerFires(s)
      PROVE  OpenHasTimer'
  <2>1. Fired(s) \in Tasks /\ Then(Fired(s), Do("close"))
    BY <1>3, TaskNames DEF TimerFires
  <2>2. task'[Fired(s)].do = "close"
    BY <2>1, Calls DEF Then, TasksOK
  <2> QED  BY <2>1, <2>2, ComesNext
<1>4. ASSUME NEW p \in Players, NEW n \in Points, SubmitAnswer(p, n)
      PROVE  OpenHasTimer'
  <2>1. Command(p) \in Tasks /\ task[Command(p)].do = "idle"
    BY <1>4, TaskNames, Calls DEF SubmitAnswer
  <2> QED  BY <1>4, <2>1, StillHasTimer DEF SubmitAnswer
<1>5. ASSUME NEW p \in Players, Disconnect(p)
      PROVE  OpenHasTimer'
  <2>1. Command(p) \in Tasks /\ task[Command(p)].do = "idle" /\ p \in Sockets
    BY <1>5, TaskNames, Calls DEF Disconnect, Sockets
  <2>2. room' = room /\ task' = task /\ (lost => lost')
        /\ (~lost' => \A s \in Sockets : slot'[s] = slot[s])
    BY <1>5, <2>1 DEF Disconnect, Unslotted, TasksOK
  <2> QED  BY <2>1, <2>2, StillHasTimer
<1>6. ASSUME UNCHANGED <<task, slot, lost>>, room' = room
      PROVE  OpenHasTimer'
  BY <1>6 DEF OpenHasTimer
<1>7. ASSUME NEW p \in Players, Join(p) \/ Handshake(p) \/ Connected(p)
      PROVE  OpenHasTimer'
  BY <1>6, <1>7 DEF Join, Handshake, Connected
<1>8. CASE LoadToTerminate \/ Tick
  BY <1>6, <1>8 DEF LoadToTerminate, Tick
<1>9. CASE Terminate
  <2>1. CASE StillAt(rest)
    <3>1. rest \in Room \cup {NoCopy} /\ room' = Terminated(room)
      BY <1>9, <2>1 DEF Terminate, RoomOK
    <3> QED  BY <3>1, TerminatedRow, NotActive DEF RoomOK
  <2>2. CASE ~StillAt(rest)
    BY <1>6, <1>9, <2>2 DEF Terminate
  <2> QED  BY <2>1, <2>2
<1> QED  BY <1>1, <1>2, <1>3, <1>4, <1>5, <1>7, <1>8, <1>9 DEF Next

(* No question stays open with nobody to end it: whatever two hosts' pauses, *)
(* skips and answers cancel, a timer that rings by the deadline or a task  *)
(* that arms one or ends the question is left, unless a socket has closed  *)
(* with its timer armed.                                                   *)
THEOREM OpenHasTimerHolds == Spec => []OpenHasTimer
<1>1. Init => OpenHasTimer
  BY InitTimers
<1>2. TimerInv /\ OpenHasTimer /\ [Next]_vars => OpenHasTimer'
  <2> SUFFICES ASSUME TimerInv, OpenHasTimer, [Next]_vars PROVE OpenHasTimer'
    OBVIOUS
  <2>1. CASE Next
    BY <2>1, StepHasTimer DEF TimerInv, FinishedInv, RoomInv
  <2>2. CASE UNCHANGED vars
    BY <2>2 DEF vars, OpenHasTimer
  <2> QED  BY <2>1, <2>2
<1> QED  BY <1>1, <1>2, TimerInvHolds, PTL DEF Spec

----------------------------------------------------------------------------
(* The running totals.  Only an accepted answer moves a score.             *)

SameScores(rows) == \A p \in Players : rows[p].score = person[p].score

LEMMA ScoresKept ==
  ASSUME person \in People, NEW rows \in People, SameScores(rows)
  PROVE  SameScores(Settled) /\ SameScores(Awarded(rows)) /\ SameScores(Awarded(Ranked(rows)))
<1>1. SameScores(Settled)
  BY DEF Settled, SameScores, People, Person
<1>2. \A r \in People : SameScores(r) => SameScores(Awarded(r))
  <2> SUFFICES ASSUME NEW r \in People, SameScores(r), NEW p \in Players
               PROVE  Awarded(r)[p].score = person[p].score
    BY DEF SameScores
  <2> DEFINE due == <<r[p].score, r[p].rank>>
  <2>1. Awarded(r)[p] = IF r[p].status = "JOINED" /\ r[p].paid = NotPaid
                        THEN [r[p] EXCEPT !.paid = due] ELSE r[p]
    BY DEF Awarded
  <2> HIDE DEF due
  <2> QED  BY <2>1 DEF SameScores, People, Person
<1>3. Ranked(rows) \in People /\ SameScores(Ranked(rows))
  <2>1. Ranked(rows) \in People
    BY RankedRows
  <2> SUFFICES ASSUME NEW p \in Players PROVE Ranked(rows)[p].score = person[p].score
    BY <2>1 DEF SameScores
  <2> DEFINE n == Place(rows, p)
  <2>2. Ranked(rows)[p] = IF rows[p].status = "JOINED" THEN [rows[p] EXCEPT !.rank = n] ELSE rows[p]
    BY DEF Ranked
  <2> HIDE DEF n
  <2> QED  BY <2>2 DEF SameScores, People, Person
<1> QED  BY <1>1, <1>2, <1>3

LEMMA FinishScores ==
  ASSUME PeopleOK, NEW k, NEW rows \in {person, Settled}, FinishGame(k, rows)
  PROVE  SameScores(person') /\ answers' = answers
<1>1. person \in People /\ SameScores(person) /\ Settled \in People
  BY SamePeople, SettledRows DEF SameScores
<1>2. SameScores(rows) /\ rows \in People
  BY <1>1, ScoresKept
<1> QED  BY <1>1, <1>2, ScoresKept DEF FinishGame

LEMMA CallScores ==
  ASSUME PeopleOK, NEW k \in Tasks, Call(k)
  PROVE  SameScores(person') /\ answers' = answers
<1>1. person \in People /\ SameScores(person)
  BY SamePeople DEF SameScores
<1>2. CASE Start(k) \/ OpenQuestion(k) \/ Pause(k) \/ Resume(k) \/ Refused(k) \/ CheckEveryone(k) \/ ArmTimer(k)
  BY <1>1, <1>2 DEF Start, OpenQuestion, OpenAt, Pause, Resume, Refused, CheckEveryone, ArmTimer
<1>3. CASE CloseQuestion(k)
  BY <1>1, <1>3, ScoresKept DEF CloseQuestion
<1>4. CASE Advance(k)
  <2>1. CASE room.index + 1 \in Indexes
    BY <1>1, <1>4, <2>1 DEF Advance, OpenAt
  <2>2. CASE room.index + 1 \notin Indexes
    BY <1>4, <2>2, FinishScores DEF Advance
  <2> QED  BY <2>1, <2>2
<1>5. CASE AnnounceFinished(k)
  BY <1>1, <1>5, ScoresKept DEF AnnounceFinished
<1>6. CASE EndGame(k)
  <2>1. CASE UNCHANGED <<person, answers>>
    BY <1>1, <2>1
  <2>2. CASE FinishGame(k, Settled) \/ FinishGame(k, person)
    BY <2>2, FinishScores
  <2> QED  BY <1>6, <2>1, <2>2 DEF EndGame
<1>7. CASE RemoveParticipant(k)
  <2>1. PICK p \in Players :
          person' = [person EXCEPT ![p].status = "KICKED", ![p].connections = 0]
    BY <1>7 DEF RemoveParticipant
  <2> SUFFICES ASSUME NEW q \in Players PROVE person'[q].score = person[q].score
    BY <1>7 DEF RemoveParticipant, SameScores
  <2>2. person'[q] = IF q = p THEN [person[q] EXCEPT !.status = "KICKED", !.connections = 0]
                              ELSE person[q]
    BY <1>1, <2>1 DEF People
  <2> QED  BY <1>1, <2>2 DEF People, Person
<1> QED  BY <1>2, <1>3, <1>4, <1>5, <1>6, <1>7 DEF Call

\* A player's points, question by question, as ScoreIsSum adds them up.
Marks(p) == [q \in Indexes |-> IF answers[p][q] = NoAnswer THEN 0 ELSE answers[p][q]]

LEMMA FiniteIndexes == IsFiniteSet(Indexes)
<1>1. 0 \in Int /\ Questions - 1 \in Int
  OBVIOUS
<1> QED  BY <1>1, FS_Interval DEF Indexes

LEMMA AnswerScores ==
  ASSUME RoomOK, PeopleOK, ScoreIsSum, NEW p \in Players, NEW n \in Points, SubmitAnswer(p, n)
  PROVE  ScoreIsSum'
<1> DEFINE i == room.index
           g == Gain(p, i, n)
<1>1. i \in Indexes /\ IsFiniteSet(Indexes)
  BY FiniteIndexes DEF SubmitAnswer, Accepting, RoomOK, InPlay
<1>2. answers' = [answers EXCEPT ![p] = [answers[p] EXCEPT ![i] = n]]
  BY <1>1 DEF SubmitAnswer, PeopleOK
<1>3. /\ \A q \in Players \ {p} : answers'[q] = answers[q] /\ person'[q] = person[q]
      /\ person'[p].score = person[p].score + g
  BY <1>2, PeopleRow DEF SubmitAnswer, PeopleOK, Person
<1>4. /\ \A q \in Indexes : Marks(p)[q] \in Int /\ Marks(p)'[q] \in Int
      /\ \A q \in Indexes \ {i} : Marks(p)[q] = Marks(p)'[q]
      /\ Marks(p)'[i] - Marks(p)[i] = g
  <2>1. /\ answers[p] \in [Indexes -> Points \cup {NoAnswer}]
        /\ answers'[p] = [answers[p] EXCEPT ![i] = n]
    BY <1>2 DEF PeopleOK
  <2> HIDE DEF g
  <2>2. g = n - Marks(p)[i]
    BY <1>1 DEF g, Gain, Marks
  <2>3. \A q \in Indexes : answers'[p][q] = IF q = i THEN n ELSE answers[p][q]
    BY <2>1
  <2>4. n \in {0, 1} /\ n # NoAnswer
    BY DEF Points, NoAnswer
  <2>5. \A q \in Indexes : Marks(p)'[q] = IF q = i THEN n ELSE Marks(p)[q]
    BY <2>3, <2>4 DEF Marks
  <2>6. \A q \in Indexes : Marks(p)[q] \in Int
    BY <2>1 DEF Marks, Points
  <2> QED  BY <1>1, <2>2, <2>4, <2>5, <2>6
<1> HIDE DEF g, i
<1>5. SumFunctionOnSet(Marks(p)', Indexes) = SumFunctionOnSet(Marks(p), Indexes) + g
  BY <1>1, <1>4, SumMoves
<1>6. \A q \in Players : person[q].score = SumFunctionOnSet(Marks(q), Indexes)
  BY DEF ScoreIsSum, Marks
<1>7. \A q \in Players : person'[q].score = SumFunctionOnSet(Marks(q)', Indexes)
  <2>1. \A q \in Players \ {p} : Marks(q)' = Marks(q)
    BY <1>3 DEF Marks
  <2> QED  BY <1>3, <1>5, <1>6, <2>1
<1> QED  BY <1>7 DEF ScoreIsSum, Marks

LEMMA ScoresStep ==
  ASSUME RoomOK, PeopleOK, ScoreIsSum, [Next]_vars
  PROVE  ScoreIsSum'
<1>1. ASSUME SameScores(person'), answers' = answers
      PROVE  ScoreIsSum'
  BY <1>1 DEF SameScores, ScoreIsSum
<1>2. CASE \E k \in Tasks : Call(k)
  BY <1>1, <1>2, CallScores
<1>3. ASSUME NEW p \in Players, Join(p) \/ Connected(p) \/ Disconnect(p)
      PROVE  ScoreIsSum'
  <2>1. person \in People
    BY SamePeople
  <2>2. \A q \in Players : person'[q].score = person[q].score
    BY <1>3, <2>1 DEF Join, Connected, Disconnect, People, Person
  <2> QED  BY <1>1, <1>3, <2>2 DEF Join, Connected, Disconnect, SameScores
<1>4. CASE UNCHANGED <<person, answers>>
  BY <1>1, <1>4 DEF SameScores
<1>5. ASSUME NEW p \in Players, Handshake(p)
      PROVE  ScoreIsSum'
  BY <1>4, <1>5 DEF Handshake
<1>6. CASE (\E h \in Hosts : CancelFirst(h)) \/ (\E s \in Sockets : TimerFires(s))
           \/ LoadToTerminate \/ Terminate \/ Tick
  BY <1>4, <1>6 DEF CancelFirst, TimerFires, LoadToTerminate, Terminate, Tick
<1>7. CASE UNCHANGED vars
  BY <1>4, <1>7 DEF vars
<1> QED  BY <1>2, <1>3, <1>5, <1>6, <1>7, AnswerScores DEF Next

LEMMA NoScores == Init => ScoreIsSum
<1> SUFFICES ASSUME Init PROVE ScoreIsSum
  OBVIOUS
<1>1. ASSUME NEW p \in Players
      PROVE  person[p].score = SumFunctionOnSet(Marks(p), Indexes)
  <2>1. \A q \in Indexes : Marks(p)[q] = 0
    BY DEF Init, Marks
  <2>2. SumFunctionOnSet(Marks(p), Indexes) = 0
    BY <2>1, FiniteIndexes, SumOfZeros
  <2>3. person[p].score = 0
    BY DEF Init
  <2> QED  BY <2>2, <2>3
<1> QED  BY <1>1 DEF ScoreIsSum, Marks

(* A player's running total is the sum of the answers on record, however   *)
(* often they are revised and whatever pauses, kicks and reconnections     *)
(* come between: a revised answer is paid by its difference                *)
(* (livequiz/services.py:811).                                             *)
THEOREM ScoreIsSumHolds == Spec => []ScoreIsSum
<1>1. FinishedInv /\ ScoreIsSum /\ [Next]_vars => ScoreIsSum'
  BY ScoresStep DEF FinishedInv, RoomInv
<1> QED  BY <1>1, NoScores, FinishedInvHolds, PTL DEF Spec
=============================================================================
