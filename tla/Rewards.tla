------------------------------ MODULE Rewards ------------------------------
(***************************************************************************)
(* What a student earns and may spend: points, per season, and the coins   *)
(* bought with them (rewards/services.py, rewards/coins.py); strikes, the  *)
(* attendance streak (rewards/strikes.py); and the hooks by which a mark   *)
(* in the register moves both (rewards/hooks.py).                          *)
(*                                                                         *)
(* Each operation is one transaction that locks one row, hence one step.   *)
(* Shop adds the transactions that lock several, and Next.  XP, rules,     *)
(* audit rows and notices are left out.                                    *)
(*                                                                         *)
(* Faulty forms: CoinsForRoundedUp, NeverSettled.                         *)
(***************************************************************************)
EXTENDS Integers, FiniteSetsExt

CONSTANTS
  Students,
  Works,          \* what points are awarded for, lessons apart
  Lessons,        \* the lessons of the register, in order: 1 .. Lessons
  Values,         \* the points a work or an attended lesson can be worth
  Rate,           \* points per coin
  MaxSeasons,     \* bound: season resets
  MaxCoins        \* bound: coins a wallet has been given

ASSUME RewardsAssumption ==
  /\ IsFiniteSet(Works)
  /\ Values \subseteq Nat
  /\ {Rate, MaxSeasons} \subseteq Nat \ {0}
  /\ {Lessons, MaxCoins} \subseteq Nat

VARIABLES
  awards,       \* awards[s][f]: the PointAward row of fact f
  debits,       \* debits[s][n]: points converted to coins in season n
  season,       \* the current season
  wallets,      \* wallets[s]: coins_balance
  register,     \* register[s][l]: the attendance mark
  strikes,      \* strikes[s]: current_streak and spent_in_streak
  peak,         \* history: the most each fact was worth, by season
  credit        \* history: coins a wallet got, less those it gave, shop apart

points == <<awards, debits, season, peak>>
coins == <<wallets, credit>>
attendance == <<register, strikes>>
rewardsVars == <<points, coins, attendance>>

Facts == Works \cup 1 .. Lessons
Seasons == 1 .. MaxSeasons
Marks == {"unmarked", "attended", "missed"}
NoAward == [points |-> 0, season |-> 0]

Total(n, S) == MapThenSumSet(LAMBDA x : n[x], S)
Smaller(m, n) == IF m < n THEN m ELSE n
Larger(m, n) == IF m < n THEN n ELSE m

RewardsTypeOK ==
  /\ awards \in [Students -> [Facts -> [points : Nat, season : 0 .. MaxSeasons]]]
  /\ debits \in [Students -> [Seasons -> Nat]]
  /\ season \in Seasons
  /\ wallets \in [Students -> Nat]
  /\ register \in [Students -> [1 .. Lessons -> Marks]]
  /\ strikes \in [Students -> [current : 0 .. Lessons, spent : Nat]]
  /\ peak \in [Students -> [Facts -> [Seasons -> Nat]]]
  /\ credit \in [Students -> Int]

RewardsInit ==
  /\ awards = [s \in Students |-> [f \in Facts |-> NoAward]]
  /\ debits = [s \in Students |-> [n \in Seasons |-> 0]]
  /\ season = 1
  /\ wallets = [s \in Students |-> 0]
  /\ register = [s \in Students |-> [l \in 1 .. Lessons |-> "unmarked"]]
  /\ strikes = [s \in Students |-> [current |-> 0, spent |-> 0]]
  /\ peak = [s \in Students |-> [f \in Facts |-> [n \in Seasons |-> 0]]]
  /\ credit = [s \in Students |-> 0]

----------------------------------------------------------------------------
(* Points.  A fact is awarded under its own key: a second award corrects   *)
(* the row, and a correction that changes it moves it to this season.      *)

Awarded(a, v) ==
  IF a.season # 0 /\ a.points = v THEN a ELSE [points |-> v, season |-> season]
Withdrawn(a) == [a EXCEPT !.points = 0]
Peaked(p, a) == [p EXCEPT ![a.season] = Larger(@, a.points)]

Award(s, w, v) ==
  /\ awards' = [awards EXCEPT ![s][w] = Awarded(@, v)]
  /\ peak' = [peak EXCEPT ![s][w] = Peaked(@, awards'[s][w])]
  /\ UNCHANGED <<debits, season, coins, attendance>>

Withdraw(s, w) ==
  /\ awards' = [awards EXCEPT ![s][w] = Withdrawn(@)]
  /\ UNCHANGED <<debits, season, peak, coins, attendance>>

NewSeason ==
  /\ season < MaxSeasons
  /\ season' = season + 1
  /\ UNCHANGED <<awards, debits, peak, coins, attendance>>

\* This season's awards; services.balance takes its conversions off.
Earned(s) ==
  Total([f \in Facts |-> awards[s][f].points],
        {f \in Facts : awards[s][f].season = season})

CoinsForRoundedUp(p) == (p + Rate - 1) \div Rate
\* Whole coins only, and only their price is charged.
CoinsFor(p) == p \div Rate

Convert(s, p) ==
  /\ p + debits[s][season] <= Earned(s)
  /\ CoinsFor(p) > 0
  /\ credit[s] + CoinsFor(p) <= MaxCoins
  /\ wallets' = [wallets EXCEPT ![s] = @ + CoinsFor(p)]
  /\ credit' = [credit EXCEPT ![s] = @ + CoinsFor(p)]
  /\ debits' = [debits EXCEPT ![s][season] = @ + CoinsFor(p) * Rate]
  /\ UNCHANGED <<awards, season, peak, attendance>>

----------------------------------------------------------------------------
(* Coins at the desk: staff spend or take back coins, or give some.        *)

DeskTake(s, n) ==
  /\ n \in 1 .. wallets[s]
  /\ wallets' = [wallets EXCEPT ![s] = @ - n]
  /\ credit' = [credit EXCEPT ![s] = @ - n]
  /\ UNCHANGED <<points, attendance>>

DeskGive(s, n) ==
  /\ n > 0
  /\ credit[s] + n <= MaxCoins
  /\ wallets' = [wallets EXCEPT ![s] = @ + n]
  /\ credit' = [credit EXCEPT ![s] = @ + n]
  /\ UNCHANGED <<points, attendance>>

----------------------------------------------------------------------------
(* Strikes, recomputed from the whole register whenever a mark is saved.   *)

\* compute_streak: the lessons attended since the last one missed.
Streak(marks) ==
  Cardinality({l \in 1 .. Lessons :
                 /\ marks[l] = "attended"
                 /\ \A m \in l .. Lessons : marks[m] # "missed"})

NeverSettled(spent, current) == spent
\* What is spent of a streak that shrank or broke: no debt is carried.
Settled(spent, current) == Smaller(spent, current)

Recomputed(r, marks) ==
  LET current == Streak(marks)
  IN  [current |-> current, spent |-> Settled(r.spent, current)]

\* StudentStrike.balance, strikes.spend, strikes.refund.
StrikeBalance(r) == r.current - Smaller(r.spent, r.current)
StrikesSpent(r, n) == [r EXCEPT !.spent = @ + n]
StrikesRefunded(r, n) == [r EXCEPT !.spent = @ - Smaller(n, @)]

\* A saved mark pays or takes back its points, then the streak follows.
Mark(s, l, mark, v) ==
  LET marks == [register[s] EXCEPT ![l] = mark]
  IN  /\ mark # "unmarked"
      /\ register' = [register EXCEPT ![s] = marks]
      /\ strikes' = [strikes EXCEPT ![s] = Recomputed(@, marks)]
      /\ awards' = [awards EXCEPT
                      ![s][l] = IF mark = "attended" THEN Awarded(@, v)
                                ELSE Withdrawn(@)]
      /\ peak' = [peak EXCEPT
                    ![s][l] = IF mark = "attended"
                              THEN Peaked(@, awards'[s][l]) ELSE @]
      /\ UNCHANGED <<debits, season, coins>>

\* A deleted mark takes its points back; the streak waits for the next mark.
Unmark(s, l) ==
  /\ register[s][l] # "unmarked"
  /\ register' = [register EXCEPT ![s][l] = "unmarked"]
  /\ awards' = [awards EXCEPT ![s][l] = Withdrawn(@)]
  /\ UNCHANGED <<debits, season, peak, coins, strikes>>

=============================================================================
