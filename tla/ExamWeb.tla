------------------------------ MODULE ExamWeb ------------------------------
(***************************************************************************)
(* The website's exam runner (frontend/src/features/testing-simulation)    *)
(* talking to the server of ExamServer over a network that delays and      *)
(* loses requests and answers: tabs that autosave, flush on leaving and    *)
(* submit; exams/idempotency.py, whose lookup, computation and store are   *)
(* three steps; the scoring worker.  The tabs show attempt The, which is   *)
(* in Module 1 when they open.                                             *)
(*                                                                         *)
(* A behaviour runs under one of Conditions, chosen when it begins.  Where *)
(* it is rough, tabs send the keepalive save when they are left, a submit  *)
(* may outlast the runner's watchdog, and a request the tab has given up   *)
(* may still be computed.                                                  *)
(*                                                                         *)
(* Faulty forms: SettledAnyway, ComputeUnqueued, RespondUnchecked.         *)
(***************************************************************************)
EXTENDS ExamServer, FiniteSets

CONSTANTS
  Tabs,           \* tabs or devices that may show the attempt
  Conditions,     \* the screens in use, rough or not, and two bounds: the
                  \* version_number the runner reaches, and the retries of
                  \* one submit (4 in useModuleSubmit.ts)
  MaxInFlight     \* bound: requests on the way at once

ASSUME WebAssumption ==
  /\ "web" \in Clients
  /\ MaxInFlight \in Nat
  /\ Conditions \subseteq [screens : SUBSET Tabs, rough : BOOLEAN,
                           versions : Nat, retries : Nat]

VARIABLES
  under,     \* the conditions of this behaviour
  tab,       \* tab[t]: what the runner in tab t holds
  net,       \* requests between their sending and their answer
  stored     \* the idempotency keys of the attempt, with their answers

serverVars == vars
webVars == <<under, tab, net, stored>>
allVars == <<serverVars, webVars>>

The == 1

(* What the serializer serves of a row.                                    *)
Snapshot(r) ==
  [version |-> r.version, module |-> r.module,
   sheet |-> IF r.module = NoModule THEN {} ELSE r.sheet[r.module]]

NoSnapshot == [version |-> NoVersion, module |-> NoModule, sheet |-> {}]

(* module: the module served last; hydrated: the one the answers on the    *)
(* screen belong to; accepted: the payload the server is known to have;    *)
(* submit: the hand-in being tried; done: the hand-ins that succeeded.     *)
Opened(s) ==
  [version |-> s.version, module |-> s.module, hydrated |-> s.module, draft |-> s.sheet,
   accepted |-> {}, saving |-> FALSE, submit |-> {}, done |-> {}]

Payload(module, answers) == [module |-> module, answers |-> answers]

Accepts(screen, s) ==
  /\ s.version >= screen.version
  /\ NoModule \in {screen.module, s.module} \/ s.module >= screen.module

(* A module shown for the first time replaces the answers by those served. *)
Applied(screen, s) ==
  LET moved == [screen EXCEPT !.version = s.version, !.module = s.module]
  IN CASE ~Accepts(screen, s) -> screen
       [] Accepts(screen, s) /\ s.module \in {NoModule, screen.hydrated} -> moved
       [] OTHER -> [moved EXCEPT !.hydrated = s.module, !.draft = s.sheet]

SettledAnyway(screen, s) ==
  [Applied(screen, s) EXCEPT
     !.submit = {},
     !.done = @ \cup {Payload(p.module, p.answers) : p \in screen.submit}]

Settled(screen, s) ==
  [Applied(screen, s) EXCEPT
     !.submit = {},
     !.done = @ \cup {Payload(p.module, p.answers) :
                        p \in {q \in screen.submit : q.module # s.module}}]

Answering(screen) ==
  screen.module # NoModule /\ screen.hydrated = screen.module /\ screen.submit = {}

-----------------------------------------------------------------------------
(* Requests.  A lost connection is noticed by the tab (heard is FALSE); the *)
(* server may have served the request, may still, or never will.           *)

Sent(t, kind, key, expected, target, answers) ==
  [tab |-> t, kind |-> kind, key |-> key, expected |-> expected, target |-> target,
   answers |-> answers, phase |-> "sent", heard |-> TRUE, status |-> 0,
   snapshot |-> NoSnapshot]

Key(kind, module, version, try) == <<kind, module, version, try>>
NoKey == <<>>

Send(q) ==
  /\ Cardinality(net) < MaxInFlight
  /\ net' = net \cup {q}

Replace(q, r) == net' = (net \ {q}) \cup {r}

Known(key) == \E k \in stored : k.key = key

Edit(t) ==
  \E question \in Question[tab[t].hydrated] :
    /\ Answering(tab[t])
    /\ tab' = [tab EXCEPT ![t].draft = @ \cup {question}]
    /\ UNCHANGED <<serverVars, net, stored>>

Autosave(t) ==
  LET screen == tab[t]
  IN /\ Answering(screen)
     /\ ~screen.saving
     /\ screen.accepted # {Payload(screen.module, screen.draft)}
     /\ Send(Sent(t, "save", Key("save", screen.module, screen.version, 0),
                  screen.version, screen.module, screen.draft))
     /\ tab' = [tab EXCEPT ![t].saving = TRUE]
     /\ UNCHANGED <<serverVars, stored>>

(* saveAttemptKeepalive: no key, no version, and nobody hears the answer.  *)
Leave(t) ==
  /\ under.rough
  /\ Answering(tab[t])
  /\ tab[t].draft # {}
  /\ Send([Sent(t, "flush", NoKey, NoVersion, tab[t].module, tab[t].draft)
             EXCEPT !.heard = FALSE])
  /\ UNCHANGED <<serverVars, tab, stored>>

Submission(t, p) ==
  Sent(t, "submit", Key("submit", p.module, p.version, p.try), p.version, p.module, p.answers)

HandInModule(t) ==
  LET screen == tab[t]
      p == [module |-> screen.module, version |-> screen.version, try |-> 0,
            answers |-> screen.draft]
  IN /\ Answering(screen)
     /\ Send(Submission(t, p))
     /\ tab' = [tab EXCEPT ![t].submit = {p}]
     /\ UNCHANGED <<serverVars, stored>>

(* The submit awaits its answer before it retries, under a fresh key.      *)
Awaited(t) == \E q \in net : q.tab = t /\ q.kind = "submit" /\ q.heard

RetryHandIn(t) ==
  \E p \in tab[t].submit :
    LET again == [p EXCEPT !.try = @ + 1]
    IN /\ ~Awaited(t)
       /\ p.try < under.retries
       /\ Send(Submission(t, again))
       /\ tab' = [tab EXCEPT ![t].submit = {again}]
       /\ UNCHANGED <<serverVars, stored>>

(* The last resort: a status check; without progress the tab is unlocked.  *)
GiveUp(t) ==
  \E p \in tab[t].submit :
    LET s == Snapshot(rows[The])
    IN /\ ~Awaited(t)
       /\ p.try = under.retries
       /\ tab' = [tab EXCEPT ![t] =
                    IF s.version > p.version
                    THEN Settled(@, s)
                    ELSE [Applied(@, s) EXCEPT !.submit = {}]]
       /\ UNCHANGED <<serverVars, net, stored>>

(* A status poll.                                                          *)
Poll(t) ==
  /\ tab' = [tab EXCEPT ![t] = Applied(@, Snapshot(rows[The]))]
  /\ UNCHANGED <<serverVars, net, stored>>

(* The submit is taking long: any newer version counts as its success.     *)
Watchdog(t) ==
  LET s == Snapshot(rows[The])
  IN /\ under.rough
     /\ \E p \in tab[t].submit : s.version > p.version
     /\ tab' = [tab EXCEPT ![t] = Settled(@, s)]
     /\ UNCHANGED <<serverVars, net, stored>>

(* The tab gives the request up; the server may or may not.                *)
LoseConnection(q) ==
  /\ q.heard
  /\ \/ /\ q.phase = "computed" \/ (under.rough /\ q.phase # "answered")
        /\ Replace(q, [q EXCEPT !.heard = FALSE])
     \/ q.phase # "computed" /\ net' = net \ {q}
  /\ tab' = IF q.kind = "save" THEN [tab EXCEPT ![q.tab].saving = FALSE] ELSE tab
  /\ UNCHANGED <<serverVars, stored>>

DropFlush(q) ==
  /\ q.kind = "flush"
  /\ net' = net \ {q}
  /\ UNCHANGED <<serverVars, tab, stored>>

(* An answer nobody listens to is gone.                                    *)
Answer(q, k) ==
  IF q.heard
  THEN Replace(q, [q EXCEPT !.phase = "answered", !.status = k.status, !.snapshot = k.snapshot])
  ELSE net' = net \ {q}

(* consume_idempotency_key: the lookup, outside any lock.                  *)
Lookup(q) ==
  /\ q.phase = "sent"
  /\ \/ ~Known(q.key) /\ Replace(q, [q EXCEPT !.phase = "missed"])
     \/ \E k \in stored : k.key = q.key /\ Answer(q, k)
  /\ UNCHANGED <<serverVars, tab, stored>>

ComputeUnqueued(q) ==
  LET o == IF q.kind = "submit"
           THEN SubmitModule(rows[The], q.target, q.answers)
           ELSE SaveAttempt(rows[The], q.expected, q.answers)
  IN /\ q.phase = "missed"
     /\ o.row.version <= under.versions
     /\ ViewRequest(The, [o EXCEPT !.enqueue = "no"])
     /\ IF q.kind = "flush"
        THEN net' = net \ {q}
        ELSE Replace(q, [q EXCEPT !.phase = "computed", !.status = o.status])
     /\ UNCHANGED <<tab, stored>>

Compute(q) ==
  LET o == IF q.kind = "submit"
           THEN SubmitModule(rows[The], q.target, q.answers)
           ELSE SaveAttempt(rows[The], q.expected, q.answers)
  IN /\ q.phase = "missed"
     /\ o.row.version <= under.versions
     /\ ViewRequest(The, o)
     /\ IF q.kind = "flush"
        THEN net' = net \ {q}
        ELSE Replace(q, [q EXCEPT !.phase = "computed", !.status = o.status])
     /\ UNCHANGED <<tab, stored>>

RespondUnchecked(q) ==
  LET fresh == [key |-> q.key, status |-> q.status, snapshot |-> Snapshot(rows[The])]
  IN /\ q.phase = "computed"
     /\ stored' = stored \cup {fresh} /\ Answer(q, fresh)
     /\ UNCHANGED <<serverVars, tab>>

(* The answer re-reads the row; storing it may find the key taken, and     *)
(* then the answer stored first is given again.                            *)
Respond(q) ==
  LET fresh == [key |-> q.key, status |-> q.status, snapshot |-> Snapshot(rows[The])]
  IN /\ q.phase = "computed"
     /\ \/ ~Known(q.key) /\ stored' = stored \cup {fresh} /\ Answer(q, fresh)
        \/ \E k \in stored : k.key = q.key /\ UNCHANGED stored /\ Answer(q, k)
     /\ UNCHANGED <<serverVars, tab>>

(* The tab acts on an answer; a submit that is settled ignores late ones.  *)
Heard(screen, q) ==
  LET saved  == [screen EXCEPT !.saving = FALSE]
      sought == \E p \in screen.submit : p.module = q.target /\ p.version = q.expected
  IN CASE q.kind = "save" /\ q.status = 200 ->
            Applied([saved EXCEPT !.accepted = {Payload(q.target, q.answers)}], q.snapshot)
       [] q.kind = "save" /\ q.status = 409 -> Applied(saved, q.snapshot)
       [] q.kind = "save" /\ q.status \notin {200, 409} -> saved
       [] q.kind = "submit" /\ q.status = 200 /\ sought -> Settled(screen, q.snapshot)
       [] OTHER -> screen

Hear(q) ==
  /\ q.phase = "answered"
  /\ q.heard
  /\ net' = net \ {q}
  /\ tab' = [tab EXCEPT ![q.tab] = Heard(@, q)]
  /\ UNCHANGED <<serverVars, stored>>

-----------------------------------------------------------------------------
TabStep(t) ==
  \/ Edit(t) \/ Autosave(t) \/ Leave(t) \/ HandInModule(t)
  \/ RetryHandIn(t) \/ GiveUp(t) \/ Poll(t) \/ Watchdog(t)

NetStep(q) ==
  \/ LoseConnection(q) \/ DropFlush(q) \/ Lookup(q) \/ Compute(q) \/ Respond(q) \/ Hear(q)

ServerStep ==
  /\ Tick \/ EnqueueAfterCommit(The) \/ ScoreAttempt(The)
  /\ UNCHANGED webVars

WebInit ==
  /\ under \in Conditions
  /\ rows = [a \in Attempts |-> IF a = The THEN StartAttempt(FreshRow, 0) ELSE BlankRow]
  /\ jobs = [a \in Attempts |-> 0]
  /\ pending = {}
  /\ creating = [p \in Phases |-> 0]
  /\ outcome = [a \in Attempts |-> [k \in Modules |-> "none"]]
  /\ announced = [a \in Attempts |-> 0]
  /\ losses = 0
  /\ now = 0
  /\ tab = [t \in Tabs |-> Opened(Snapshot(rows[The]))]
  /\ net = {}
  /\ stored = {}

WebNext ==
  \/ \E t \in under.screens : TabStep(t) /\ UNCHANGED under
  \/ \E q \in net : NetStep(q) /\ UNCHANGED under
  \/ ServerStep

WebSpec == WebInit /\ [][WebNext]_allVars

-----------------------------------------------------------------------------
(* Properties.                                                             *)

(* When the runner believes a hand-in took, it deletes its local draft     *)
(* (finish, useModuleSubmit.ts): from then on the module is over on the    *)
(* server and the answers it was handed in with are on its sheet.          *)
HandInKept ==
  ~under.rough => \A t \in Tabs : \A p \in tab[t].done :
                    Over(rows[The], p.module) /\ p.answers \subseteq rows[The].sheet[p.module]

(* A module's sheet holds answers to that module's questions only, however *)
(* late a save arrives.                                                    *)
SheetsHoldOwnQuestions ==
  ~under.rough => \A k \in Modules : rows[The].sheet[k] \subseteq Question[k]

(* Under one idempotency key every request is given one answer, also when  *)
(* two of them missed the lookup and both were computed.                   *)
ReplayAgrees ==
  /\ \A k, l \in stored : k.key = l.key => k = l
  /\ \A q \in net : q.phase = "answered" =>
       \E k \in stored : k = [key |-> q.key, status |-> q.status, snapshot |-> q.snapshot]

(* Module 2 is never scored without having been sat: the step that hands   *)
(* it in is a submit that names Module 2, or its time is up.               *)
Module2NotSkipped ==
  [][rows[The].state = "MODULE_2_ACTIVE" /\ rows'[The].state = "SCORING" =>
       \/ Expired(rows[The], now)
       \/ \E q \in net : q.kind = "submit" /\ q.target = 2 /\ q.phase = "missed"]_allVars

(* Every step the runner provokes on the server, through the idempotency   *)
(* layer, is one of ExamServer's, so what holds of ExamServer's steps holds *)
(* with this client.  (Most leave the server alone: TLC tries that first.) *)
ServesExamServer == [][UNCHANGED vars \/ Next]_vars
=============================================================================
