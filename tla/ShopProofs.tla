------------------------------ MODULE ShopProofs ------------------------------
(***************************************************************************)
(* Proofs about Rewards and Shop, for any students, items, prices and      *)
(* bounds.  First what a student has: each operation on points, coins and  *)
(* strikes alone.  Then the shelf: which rows a running request holds, and *)
(* that what it read of them still stands.                                 *)
(***************************************************************************)
EXTENDS Shop, SumProofs

USE RewardsAssumption, ShopAssumption

(* What a student has, in types, and never a strike owed.                  *)
Strike == [current : 0 .. Lessons, spent : Nat]
Covered(r) == r \in Strike /\ r.spent <= r.current

PurseInv == RewardsTypeOK /\ NoStrikesOwed

----------------------------------------------------------------------------
(* What the helpers return.                                                *)

LEMMA CoinsType ==
  ASSUME NEW p \in Nat
  PROVE  CoinsFor(p) \in Nat
  BY DEF CoinsFor

LEMMA PriceType ==
  ASSUME NEW m \in Nat, NEW n \in Nat
  PROVE  m * n \in Nat
  OBVIOUS

LEMMA StreakType ==
  ASSUME NEW marks
  PROVE  Streak(marks) \in 0 .. Lessons
<1> DEFINE S == {l \in 1 .. Lessons : /\ marks[l] = "attended"
                                      /\ \A m \in l .. Lessons : marks[m] # "missed"}
<1>1. IsFiniteSet(1 .. Lessons) /\ Cardinality(1 .. Lessons) = Lessons
  BY FS_Interval
<1>2. S \in SUBSET (1 .. Lessons)
  OBVIOUS
<1> HIDE DEF S
<1>3. IsFiniteSet(S) /\ Cardinality(S) <= Lessons
  BY <1>1, <1>2, FS_Subset
<1>4. Cardinality(S) \in Nat
  BY <1>3, FS_CardinalityType
<1>5. Cardinality(S) \in 0 .. Lessons
  BY <1>3, <1>4
<1> QED  BY <1>5 DEF Streak, S

LEMMA StrikeRows ==
  ASSUME NEW r, Covered(r), NEW n \in Nat
  PROVE  /\ \A marks : Covered(Recomputed(r, marks))
         /\ n <= StrikeBalance(r) => Covered(StrikesSpent(r, n))
         /\ Covered(StrikesRefunded(r, n))
<1>1. ASSUME NEW marks
      PROVE  Covered(Recomputed(r, marks))
  <2> DEFINE c == Streak(marks)
  <2>1. c \in 0 .. Lessons
    BY StreakType
  <2> HIDE DEF c
  <2>2. Settled(r.spent, c) \in Nat /\ Settled(r.spent, c) <= c
    BY <2>1 DEF Settled, Smaller, Covered, Strike
  <2> QED  BY <2>1, <2>2 DEF Recomputed, Covered, Strike, c
<1>2. n <= StrikeBalance(r) => Covered(StrikesSpent(r, n))
  BY DEF StrikeBalance, StrikesSpent, Covered, Strike, Smaller
<1>3. Covered(StrikesRefunded(r, n))
  BY DEF StrikesRefunded, Covered, Strike, Smaller
<1> QED  BY <1>1, <1>2, <1>3

AwardRow == [points : Nat, season : 0 .. MaxSeasons]

LEMMA AwardRows ==
  ASSUME NEW a \in AwardRow, NEW v \in Nat, season \in Seasons
  PROVE  Awarded(a, v) \in AwardRow /\ Withdrawn(a) \in AwardRow
  BY DEF Awarded, Withdrawn, AwardRow, Seasons

LEMMA PeakRows ==
  ASSUME NEW a \in AwardRow, NEW p \in [Seasons -> Nat]
  PROVE  Peaked(p, a) \in [Seasons -> Nat]
  BY DEF Peaked, AwardRow, Larger

LEMMA FactRow ==
  ASSUME PurseInv, NEW s \in Students, NEW f \in Facts
  PROVE  awards[s][f] \in AwardRow
<1>1. awards \in [Students -> [Facts -> AwardRow]]
  BY DEF PurseInv, RewardsTypeOK, AwardRow
<1> QED  BY <1>1

(* Strikes are covered, for every student.                                 *)
LEMMA AllCovered ==
  PurseInv => \A s \in Students : Covered(strikes[s])
  BY DEF PurseInv, RewardsTypeOK, NoStrikesOwed, Covered, Strike

----------------------------------------------------------------------------
(* The operations of the rewards.                                          *)

LEMMA ConvertStep ==
  ASSUME PurseInv, NEW s \in Students, NEW p \in 1 .. Earned(s), Convert(s, p)
  PROVE  PurseInv'
<1> DEFINE c == CoinsFor(p)
<1>1. p \in Nat
  OBVIOUS
<1>2. c \in Nat /\ c * Rate \in Nat
  BY <1>1, CoinsType, PriceType
<1>3. /\ wallets' = [wallets EXCEPT ![s] = @ + c]
      /\ credit' = [credit EXCEPT ![s] = @ + c]
      /\ debits' = [debits EXCEPT ![s][season] = @ + c * Rate]
      /\ UNCHANGED <<awards, season, peak, register, strikes>>
  BY DEF Convert, attendance
<1> DEFINE m == c * Rate
<1> HIDE DEF c, m
<1>4. debits' \in [Students -> [Seasons -> Nat]]
  <2>1. debits[s] \in [Seasons -> Nat] /\ season \in Seasons
    BY DEF PurseInv, RewardsTypeOK
  <2>2. [debits[s] EXCEPT ![season] = @ + m] \in [Seasons -> Nat]
    BY <2>1, <1>2 DEF m
  <2>3. debits' = [debits EXCEPT ![s] = [debits[s] EXCEPT ![season] = @ + m]]
    BY <1>3, <2>1 DEF m, PurseInv, RewardsTypeOK
  <2> QED  BY <2>2, <2>3 DEF PurseInv, RewardsTypeOK
<1>5. wallets' \in [Students -> Nat] /\ credit' \in [Students -> Int]
  <2>1. wallets \in [Students -> Nat] /\ credit \in [Students -> Int]
    BY DEF PurseInv, RewardsTypeOK
  <2>2. wallets[s] + c \in Nat /\ credit[s] + c \in Int
    BY <1>2, <2>1 DEF c
  <2> QED  BY <1>3, <2>1, <2>2 DEF c
<1> QED  BY <1>3, <1>4, <1>5 DEF PurseInv, RewardsTypeOK, NoStrikesOwed

LEMMA DeskStep ==
  ASSUME PurseInv, NEW s \in Students, NEW n \in 1 .. MaxCoins,
         DeskTake(s, n) \/ DeskGive(s, n)
  PROVE  PurseInv'
<1>1. wallets' \in [Students -> Nat] /\ credit' \in [Students -> Int]
  <2>1. wallets \in [Students -> Nat] /\ credit \in [Students -> Int] /\ n \in Nat
    BY DEF PurseInv, RewardsTypeOK
  <2>2. CASE DeskTake(s, n)
    <3>1. n \in 1 .. wallets[s]
      BY <2>2 DEF DeskTake
    <3>2. wallets[s] - n \in Nat /\ credit[s] - n \in Int
      BY <2>1, <3>1
    <3> QED  BY <2>1, <2>2, <3>2 DEF DeskTake
  <2>3. CASE DeskGive(s, n)
    <3>1. wallets[s] + n \in Nat /\ credit[s] + n \in Int
      BY <2>1
    <3> QED  BY <2>1, <2>3, <3>1 DEF DeskGive
  <2> QED  BY <2>2, <2>3
<1>2. UNCHANGED <<awards, debits, season, peak, register, strikes>>
  BY DEF DeskTake, DeskGive, points, attendance
<1> QED  BY <1>1, <1>2 DEF PurseInv, RewardsTypeOK, NoStrikesOwed

(* One fact of a student is awarded again, or withdrawn.                   *)
LEMMA FactWritten ==
  ASSUME RewardsTypeOK, NEW s \in Students, NEW f \in Facts, NEW a \in AwardRow,
         awards' = [awards EXCEPT ![s][f] = a],
         peak' \in {peak, [peak EXCEPT ![s][f] = Peaked(@, awards'[s][f])]}
  PROVE  /\ awards' \in [Students -> [Facts -> AwardRow]]
         /\ peak' \in [Students -> [Facts -> [Seasons -> Nat]]]
<1>1. awards \in [Students -> [Facts -> AwardRow]]
        /\ peak \in [Students -> [Facts -> [Seasons -> Nat]]]
  BY DEF RewardsTypeOK, AwardRow
<1>2. [awards[s] EXCEPT ![f] = a] \in [Facts -> AwardRow]
  BY <1>1
<1>3. awards' = [awards EXCEPT ![s] = [awards[s] EXCEPT ![f] = a]]
  BY <1>1
<1>4. awards' \in [Students -> [Facts -> AwardRow]] /\ awards'[s][f] = a
  BY <1>1, <1>2, <1>3
<1> DEFINE q == Peaked(peak[s][f], a)
<1>5. q \in [Seasons -> Nat]
  BY <1>1, PeakRows
<1>6. CASE peak' # peak
  <2>1. peak' = [peak EXCEPT ![s][f] = q]
    BY <1>4, <1>6
  <2> HIDE DEF q
  <2>2. [peak[s] EXCEPT ![f] = q] \in [Facts -> [Seasons -> Nat]]
    BY <1>1, <1>5
  <2>3. peak' = [peak EXCEPT ![s] = [peak[s] EXCEPT ![f] = q]]
    BY <1>1, <2>1
  <2> QED  BY <1>1, <1>4, <2>2, <2>3
<1> QED  BY <1>1, <1>4, <1>6

LEMMA AwardStep ==
  ASSUME PurseInv, NEW s \in Students, NEW w \in Works,
         Withdraw(s, w) \/ \E v \in Values : Award(s, w, v)
  PROVE  PurseInv'
<1> DEFINE old == awards[s][w]
<1>1. w \in Facts /\ old \in AwardRow /\ season \in Seasons
  BY DEF Facts, PurseInv, RewardsTypeOK, AwardRow
<1>2. UNCHANGED <<debits, season, wallets, credit, register, strikes>>
  BY DEF Award, Withdraw, coins, attendance
<1>3. PICK a \in AwardRow :
        /\ awards' = [awards EXCEPT ![s][w] = a]
        /\ peak' \in {peak, [peak EXCEPT ![s][w] = Peaked(@, awards'[s][w])]}
  <2>1. CASE Withdraw(s, w)
    BY <2>1, <1>1, AwardRows DEF Withdraw
  <2>2. ASSUME NEW v \in Values, Award(s, w, v)
        PROVE  \E a \in AwardRow :
                 /\ awards' = [awards EXCEPT ![s][w] = a]
                 /\ peak' \in {peak, [peak EXCEPT ![s][w] = Peaked(@, awards'[s][w])]}
    BY <2>2, <1>1, AwardRows DEF Award
  <2> QED  BY <2>1, <2>2
<1>4. /\ awards' \in [Students -> [Facts -> AwardRow]]
      /\ peak' \in [Students -> [Facts -> [Seasons -> Nat]]]
  BY <1>1, <1>3, FactWritten DEF PurseInv
<1> QED  BY <1>2, <1>4 DEF PurseInv, RewardsTypeOK, NoStrikesOwed, AwardRow

LEMMA MarkStep ==
  ASSUME PurseInv, NEW s \in Students, NEW l \in 1 .. Lessons, NEW k \in Marks,
         NEW v \in Values, Mark(s, l, k, v)
  PROVE  PurseInv'
<1> DEFINE marks == [register[s] EXCEPT ![l] = k]
           old == awards[s][l]
           a == IF k = "attended" THEN Awarded(old, v) ELSE Withdrawn(old)
<1>1. l \in Facts /\ old \in AwardRow /\ season \in Seasons /\ v \in Nat
  <2>1. l \in Facts
    BY DEF Facts
  <2> QED  BY <2>1, FactRow DEF PurseInv, RewardsTypeOK
<1>2. /\ register' = [register EXCEPT ![s] = marks]
      /\ strikes' = [strikes EXCEPT ![s] = Recomputed(strikes[s], marks)]
      /\ awards' = [awards EXCEPT ![s][l] = a]
      /\ peak' \in {peak, [peak EXCEPT ![s][l] = Peaked(@, awards'[s][l])]}
      /\ UNCHANGED <<debits, season, wallets, credit>>
  <2>1. awards' = [awards EXCEPT ![s][l] = a]
    BY DEF Mark
  <2>2. peak' \in {peak, [peak EXCEPT ![s][l] = Peaked(@, awards'[s][l])]}
    <3>1. CASE k = "attended"
      BY <3>1 DEF Mark
    <3>2. CASE k # "attended"
      BY <3>2 DEF Mark, PurseInv, RewardsTypeOK
    <3> QED  BY <3>1, <3>2
  <2> QED  BY <2>1, <2>2 DEF Mark, coins
<1>3. a \in AwardRow
  BY <1>1, AwardRows
<1> HIDE DEF a
<1>4. /\ awards' \in [Students -> [Facts -> AwardRow]]
      /\ peak' \in [Students -> [Facts -> [Seasons -> Nat]]]
  BY <1>1, <1>2, <1>3, FactWritten DEF PurseInv
<1>5. register' \in [Students -> [1 .. Lessons -> Marks]]
  BY <1>2 DEF PurseInv, RewardsTypeOK
<1> DEFINE r == Recomputed(strikes[s], marks)
<1>6. Covered(r)
  BY AllCovered, StrikeRows, 0 \in Nat
<1> HIDE DEF r, marks
<1>7. strikes' = [strikes EXCEPT ![s] = r]
  BY <1>2 DEF r
<1>8. /\ strikes' \in [Students -> Strike]
      /\ \A u \in Students : strikes'[u].spent <= strikes'[u].current
  BY <1>6, <1>7 DEF Covered, PurseInv, RewardsTypeOK, NoStrikesOwed, Strike
<1> QED
  BY <1>2, <1>4, <1>5, <1>8 DEF PurseInv, RewardsTypeOK, NoStrikesOwed, AwardRow, Strike

LEMMA UnmarkStep ==
  ASSUME PurseInv, NEW s \in Students, NEW l \in 1 .. Lessons, Unmark(s, l)
  PROVE  PurseInv'
<1> DEFINE a == Withdrawn(awards[s][l])
<1>1. l \in Facts
  BY DEF Facts
<1>2. awards[s][l] \in AwardRow /\ season \in Seasons /\ 0 \in Nat
  BY <1>1, FactRow DEF PurseInv, RewardsTypeOK
<1>3. a \in AwardRow
  BY <1>2, AwardRows
<1>4. awards' = [awards EXCEPT ![s][l] = a] /\ peak' = peak
        /\ UNCHANGED <<debits, season, wallets, credit, strikes>>
  BY DEF Unmark, coins
<1> HIDE DEF a
<1>5. awards' \in [Students -> [Facts -> AwardRow]]
  BY <1>1, <1>3, <1>4, FactWritten DEF PurseInv
<1>6. register' \in [Students -> [1 .. Lessons -> Marks]]
  <2>1. "unmarked" \in Marks
    BY DEF Marks
  <2>2. register' = [register EXCEPT ![s] = [register[s] EXCEPT ![l] = "unmarked"]]
    BY DEF Unmark, PurseInv, RewardsTypeOK
  <2> QED  BY <2>1, <2>2 DEF PurseInv, RewardsTypeOK
<1> QED  BY <1>4, <1>5, <1>6 DEF PurseInv, RewardsTypeOK, NoStrikesOwed, AwardRow

LEMMA RewardingStep ==
  ASSUME PurseInv, Rewarding
  PROVE  PurseInv'
<1>1. CASE NewSeason
  BY <1>1 DEF NewSeason, coins, attendance, PurseInv, RewardsTypeOK, NoStrikesOwed, Seasons
<1>2. CASE ~NewSeason
  BY <1>2, ConvertStep, DeskStep, MarkStep, AwardStep, UnmarkStep DEF Rewarding
<1> QED  BY <1>1, <1>2

----------------------------------------------------------------------------
(* The shelf: rows, and what a running request x may be, with items I and  *)
(* orders D.  Distinct requests hold distinct rows.                        *)

Shelf == [shelf : {"active", "hidden"}, stock : Int, price : Nat]

PurseOK(d, p) ==
  \/ Currency[d.item] = "COIN" /\ p \in Nat
  \/ Currency[d.item] = "STRIKE" /\ Covered(p)

Buys(x, I) ==
  \E s \in Students, i \in Items :
    /\ x = [op |-> "purchase", student |-> s, item |-> i, copy |-> I[i]]
    /\ I[i] \in Shelf
Cancels(x, D) ==
  \E o \in OrderIds :
    /\ D[o] \in Order /\ D[o].status = "PENDING"
    /\ \/ x = [op |-> "cancel", order |-> o]
       \/ \E p : x = [op |-> "refund", order |-> o, purse |-> p] /\ PurseOK(D[o], p)
Valid(x, I, D) == x = Idle \/ Buys(x, I) \/ Cancels(x, D)

Distinct(x, y) ==
  /\ x.op = "purchase" /\ y.op = "purchase" => x.item # y.item
  /\ x.op \in {"cancel", "refund"} /\ y.op \in {"cancel", "refund"} => x.order # y.order

RowsOK ==
  /\ items \in [Items -> Shelf \cup {Absent}]
  /\ orders \in [OrderIds -> Order \cup {Unused}]
  /\ shelved \in [Items -> Int]
EditOK == edit = NoEdit \/ \E i \in Items, c \in Shelf : edit = [item |-> {i}, copy |-> c]
RequestsOK ==
  /\ DOMAIN txs = Requests
  /\ \A t \in Requests : Valid(txs[t], items, orders)
  /\ \A t, u \in Requests : t # u => Distinct(txs[t], txs[u])
NoOrphans ==
  \A i \in Items, o \in OrderIds :
    items[i] = Absent /\ orders[o] # Unused => orders[o].item # i

ShelfInv == RowsOK /\ EditOK /\ RequestsOK /\ NoOrphans /\ StockKept

LEMMA RequestShape ==
  ASSUME NEW x, NEW I, NEW D, Valid(x, I, D)
  PROVE  /\ x.op \in {"idle", "purchase", "cancel", "refund"}
         /\ x.op = "idle" => x = Idle
         /\ x.op = "purchase" =>
              /\ x.student \in Students /\ x.item \in Items
              /\ x.copy = I[x.item] /\ I[x.item] \in Shelf
         /\ x.op \in {"cancel", "refund"} =>
              x.order \in OrderIds /\ D[x.order] \in Order /\ D[x.order].status = "PENDING"
         /\ x.op = "refund" => PurseOK(D[x.order], x.purse)
  BY DEF Valid, Buys, Cancels, Idle

(* A request keeps its reading while the rows it holds stay.               *)
LEMMA ValidKept ==
  ASSUME NEW x, NEW I, NEW D, NEW J, NEW E, Valid(x, I, D),
         x.op = "purchase" => J[x.item] = I[x.item],
         x.op \in {"cancel", "refund"} => E[x.order] = D[x.order]
  PROVE  Valid(x, J, E)
<1>1. CASE x = Idle
  BY <1>1 DEF Valid
<1>2. CASE Buys(x, I)
  BY <1>2 DEF Valid, Buys
<1>3. CASE Cancels(x, D)
  BY <1>3 DEF Valid, Cancels
<1> QED  BY <1>1, <1>2, <1>3 DEF Valid

LEMMA DistinctFromIdle ==
  ASSUME NEW x
  PROVE  Distinct(x, Idle) /\ Distinct(Idle, x)
  BY DEF Distinct, Idle

(* Request t does one step, to x; the others keep the rows they hold.      *)
LEMMA RequestsStep ==
  ASSUME RequestsOK, NEW t \in Requests, NEW x, txs' = [txs EXCEPT ![t] = x],
         Valid(x, items', orders'),
         \A u \in Requests \ {t} :
           /\ Distinct(x, txs[u]) /\ Distinct(txs[u], x)
           /\ txs[u].op = "purchase" => items'[txs[u].item] = items[txs[u].item]
           /\ txs[u].op \in {"cancel", "refund"} =>
                orders'[txs[u].order] = orders[txs[u].order]
  PROVE  RequestsOK'
<1>1. DOMAIN txs' = Requests /\ txs'[t] = x /\ \A u \in Requests \ {t} : txs'[u] = txs[u]
  BY DEF RequestsOK
<1>2. ASSUME NEW u \in Requests
      PROVE  Valid(txs'[u], items', orders')
  BY <1>1, ValidKept DEF RequestsOK
<1>3. ASSUME NEW u \in Requests, NEW v \in Requests, u # v
      PROVE  Distinct(txs'[u], txs'[v])
  BY <1>1, <1>3 DEF RequestsOK
<1> QED  BY <1>1, <1>2, <1>3 DEF RequestsOK

(* No request does; all keep the rows they hold.                           *)
LEMMA RequestsStay ==
  ASSUME RequestsOK, txs' = txs,
         \A u \in Requests :
           /\ txs[u].op = "purchase" => items'[txs[u].item] = items[txs[u].item]
           /\ txs[u].op \in {"cancel", "refund"} =>
                orders'[txs[u].order] = orders[txs[u].order]
  PROVE  RequestsOK'
<1>1. ASSUME NEW u \in Requests
      PROVE  Valid(txs[u], items', orders')
  BY ValidKept DEF RequestsOK
<1> QED  BY <1>1 DEF RequestsOK

----------------------------------------------------------------------------
(* Counting the live orders of an item.                                    *)

LEMMA LiveCount ==
  ASSUME NEW i
  PROVE  IsFiniteSet(Live(i)) /\ Cardinality(Live(i)) \in Nat
<1>1. IsFiniteSet(OrderIds) /\ Live(i) \in SUBSET OrderIds
  BY FS_Interval DEF OrderIds, Live
<1> QED  BY <1>1, FS_Subset, FS_CardinalityType

LEMMA LiveSame ==
  ASSUME NEW i,
         \A o \in OrderIds :
           \/ orders'[o] = orders[o]
           \/ /\ orders[o].status \in {"PENDING", "FULFILLED"} /\ orders[o].item = i
              /\ orders'[o].status \in {"PENDING", "FULFILLED"} /\ orders'[o].item = i
           \/ /\ orders[o].item # i \/ orders[o].status \notin {"PENDING", "FULFILLED"}
              /\ orders'[o].item # i \/ orders'[o].status \notin {"PENDING", "FULFILLED"}
  PROVE  Live(i)' = Live(i)
  BY DEF Live

LEMMA LiveMore ==
  ASSUME NEW i, NEW o \in OrderIds, NEW d, orders \in [OrderIds -> Order \cup {Unused}],
         orders[o] = Unused, orders' = [orders EXCEPT ![o] = d],
         d.status = "PENDING", d.item = i
  PROVE  Cardinality(Live(i))' = Cardinality(Live(i)) + 1
<1>1. Live(i)' = Live(i) \cup {o} /\ o \notin Live(i)
  BY DEF Live, Unused
<1> QED  BY <1>1, LiveCount, FS_AddElement

LEMMA LiveLess ==
  ASSUME NEW o \in OrderIds, orders \in [OrderIds -> Order \cup {Unused}],
         orders[o] \in Order, orders[o].status = "PENDING",
         orders' = [orders EXCEPT ![o].status = "CANCELLED"],
         NEW i, i = orders[o].item
  PROVE  Cardinality(Live(i))' = Cardinality(Live(i)) - 1
<1>1. orders'[o].status = "CANCELLED" /\ \A p \in OrderIds \ {o} : orders'[p] = orders[p]
  BY DEF Order
<1>2. Live(i)' = Live(i) \ {o} /\ o \in Live(i)
  BY <1>1 DEF Live
<1>3. IsFiniteSet(Live(i))
  BY LiveCount
<1>4. Cardinality(Live(i) \ {o}) = Cardinality(Live(i)) - 1
  BY <1>2, <1>3, FS_RemoveElement
<1> QED  BY <1>2, <1>4

----------------------------------------------------------------------------
(* The requests.                                                           *)

(* Nothing but the requests moves.                                         *)
LEMMA ShelfSame ==
  ASSUME ShelfInv, UNCHANGED <<items, orders, edit, shelved, clobbered>>, RequestsOK'
  PROVE  ShelfInv'
<1>1. \A i \in Items : Live(i)' = Live(i)
  BY LiveSame
<1>2. StockKept'
  BY <1>1 DEF ShelfInv, StockKept
<1> QED  BY <1>2 DEF ShelfInv, RowsOK, EditOK, NoOrphans

LEMMA PurseSame ==
  ASSUME PurseInv, UNCHANGED rewardsVars
  PROVE  PurseInv'
  BY DEF PurseInv, RewardsTypeOK, NoStrikesOwed, rewardsVars, points, coins, attendance

LEMMA LockItemStep ==
  ASSUME ShelfInv, NEW t \in Requests, NEW s \in Students, NEW i \in Items,
         LockItem(t, s, i)
  PROVE  ShelfInv'
<1> DEFINE x == Buying(s, i)
<1>1. txs' = [txs EXCEPT ![t] = x] /\ UNCHANGED <<items, orders, edit, shelved, clobbered>>
        /\ ~ItemLocked(i) /\ items[i].shelf = "active"
  BY DEF LockItem
<1>2. items[i] \in Shelf
  BY <1>1 DEF ShelfInv, RowsOK, Absent
<1>3. x.op = "purchase" /\ x.item = i /\ Valid(x, items, orders)
  BY <1>2 DEF Buying, Valid, Buys
<1> HIDE DEF x
<1>4. \A u \in Requests : Distinct(x, txs[u]) /\ Distinct(txs[u], x)
  BY <1>1, <1>3 DEF Distinct, ItemLocked
<1>5. RequestsOK'
  BY <1>1, <1>3, <1>4, RequestsStep DEF ShelfInv
<1> QED  BY <1>1, <1>5, ShelfSame

LEMMA LockOrderStep ==
  ASSUME ShelfInv, NEW t \in Requests, NEW o \in OrderIds, LockOrder(t, o)
  PROVE  ShelfInv'
<1> DEFINE x == Cancelling(o)
<1>1. txs' = [txs EXCEPT ![t] = x] /\ UNCHANGED <<items, orders, edit, shelved, clobbered>>
        /\ ~OrderLocked(o) /\ orders[o].status = "PENDING"
  BY DEF LockOrder
<1>2. orders[o] \in Order
  BY <1>1 DEF ShelfInv, RowsOK, Unused
<1>3. x.op = "cancel" /\ x.order = o /\ Valid(x, items, orders)
  BY <1>1, <1>2 DEF Cancelling, Valid, Cancels
<1> HIDE DEF x
<1>4. \A u \in Requests : Distinct(x, txs[u]) /\ Distinct(txs[u], x)
  BY <1>1, <1>3 DEF Distinct, OrderLocked
<1>5. RequestsOK'
  BY <1>1, <1>3, <1>4, RequestsStep DEF ShelfInv
<1> QED  BY <1>1, <1>5, ShelfSame

LEMMA RollBackStep ==
  ASSUME ShelfInv, NEW t \in Requests, RollBack(t)
  PROVE  ShelfInv'
<1>1. txs' = [txs EXCEPT ![t] = Idle] /\ UNCHANGED <<items, orders, edit, shelved, clobbered>>
  BY DEF RollBack
<1>2. Valid(Idle, items, orders)
  BY DEF Valid
<1>3. RequestsOK'
  BY <1>1, <1>2, DistinctFromIdle, RequestsStep DEF ShelfInv
<1> QED  BY <1>1, <1>3, ShelfSame

(* The refund reads a purse that is covered, and computes one that is.     *)
LEMMA RefundStep ==
  ASSUME ShelfInv, PurseInv, NEW t \in Requests, Refund(t)
  PROVE  ShelfInv'
<1> DEFINE o == txs[t].order
           p == Refunded(o)
           x == Refunding(o, p)
<1>1. txs[t].op = "cancel" /\ txs' = [txs EXCEPT ![t] = x]
        /\ UNCHANGED <<items, orders, edit, shelved, clobbered>>
  BY DEF Refund
<1>2. o \in OrderIds /\ orders[o] \in Order /\ orders[o].status = "PENDING"
  BY <1>1, RequestShape DEF ShelfInv, RequestsOK
<1>3. PurseOK(orders[o], p)
  <2>1. orders[o].price \in Nat /\ Payer(o) \in Students /\ orders[o].item \in Items
    BY <1>2 DEF Order, Payer
  <2>2. CASE CurrencyOf(o) = "COIN"
    <3>1. wallets[Payer(o)] \in Nat
      BY <2>1 DEF PurseInv, RewardsTypeOK
    <3> QED  BY <2>1, <2>2, <3>1 DEF Refunded, PurseOK, CurrencyOf
  <2>3. CASE CurrencyOf(o) # "COIN"
    <3>1. Covered(StrikesRefunded(strikes[Payer(o)], orders[o].price))
      BY <2>1, AllCovered, StrikeRows
    <3> QED  BY <2>1, <2>3, <3>1 DEF Refunded, PurseOK, CurrencyOf
  <2> QED  BY <2>2, <2>3
<1>4. x.op = "refund" /\ x.order = o /\ Valid(x, items, orders)
  BY <1>2, <1>3 DEF Refunding, Valid, Cancels
<1> HIDE DEF x
<1>5. \A u \in Requests \ {t} : Distinct(x, txs[u]) /\ Distinct(txs[u], x)
  <2>1. \A u \in Requests \ {t} : Distinct(txs[t], txs[u]) /\ Distinct(txs[u], txs[t])
    BY DEF ShelfInv, RequestsOK
  <2> QED  BY <2>1, <1>1, <1>4 DEF Distinct
<1>6. RequestsOK'
  BY <1>1, <1>4, <1>5, RequestsStep DEF ShelfInv
<1> QED  BY <1>1, <1>6, ShelfSame

(* What a student pays was covered when it was taken, in the same step.    *)
LEMMA PayPurse ==
  ASSUME ShelfInv, PurseInv, NEW t \in Requests, Pay(t)
  PROVE  PurseInv'
<1> DEFINE s == txs[t].student
           i == txs[t].item
           n == txs[t].copy.price
<1>1. txs[t].op = "purchase" /\ CanPay(s, Currency[i], n)
        /\ UNCHANGED <<awards, debits, season, peak, credit, register>>
  BY DEF Pay, points
<1>2. s \in Students /\ i \in Items /\ n \in Nat
  BY <1>1, RequestShape DEF ShelfInv, RequestsOK, Shelf
<1>3. CASE Currency[i] = "COIN"
  <2>1. wallets' = [wallets EXCEPT ![s] = @ - n] /\ strikes' = strikes /\ n <= wallets[s]
    BY <1>1, <1>3 DEF Pay, CanPay
  <2>2. wallets[s] - n \in Nat
    BY <1>2, <2>1 DEF PurseInv, RewardsTypeOK
  <2> QED  BY <1>1, <2>1, <2>2 DEF PurseInv, RewardsTypeOK, NoStrikesOwed
<1>4. CASE Currency[i] = "STRIKE"
  <2> DEFINE r == StrikesSpent(strikes[s], n)
  <2>1. strikes' = [strikes EXCEPT ![s] = r] /\ wallets' = wallets
          /\ n <= StrikeBalance(strikes[s])
    BY <1>1, <1>4 DEF Pay, CanPay
  <2>2. Covered(r)
    BY <1>2, <2>1, AllCovered, StrikeRows
  <2> HIDE DEF r
  <2> QED
    BY <1>1, <2>1, <2>2 DEF PurseInv, RewardsTypeOK, NoStrikesOwed, Covered, Strike
<1> QED  BY <1>2, <1>3, <1>4

(* The price read under the lock is still the item's, and so is the count. *)
LEMMA PayShelf ==
  ASSUME ShelfInv, NEW t \in Requests, Pay(t)
  PROVE  ShelfInv'
<1>0. PICK i : i = txs[t].item
  OBVIOUS
<1> DEFINE s == txs[t].student
           c == txs[t].copy
           d == [status |-> "PENDING", student |-> s, item |-> i, price |-> c.price]
           k == c.stock - 1
<1>1. PICK o \in OrderIds : orders[o] = Unused /\ orders' = [orders EXCEPT ![o] = d]
  BY <1>0 DEF Pay
<1>2. txs[t].op = "purchase" /\ items' = [items EXCEPT ![i].stock = k]
        /\ txs' = [txs EXCEPT ![t] = Idle] /\ UNCHANGED <<edit, shelved, clobbered>>
  BY <1>0 DEF Pay
<1>3. s \in Students /\ i \in Items /\ c = items[i] /\ c \in Shelf
  BY <1>0, <1>2, RequestShape DEF ShelfInv, RequestsOK
<1>4. d \in Order /\ d.status = "PENDING" /\ d.item = i /\ k \in Int /\ c.stock \in Int
  BY <1>3 DEF Order, Shelf
<1> HIDE DEF d, k
<1>5. /\ items'[i] \in Shelf /\ items'[i].stock = k
      /\ \A j \in Items \ {i} : items'[j] = items[j]
      /\ items' \in [Items -> Shelf \cup {Absent}]
  <2>1. [c EXCEPT !.stock = k] \in Shelf
    BY <1>3, <1>4 DEF Shelf
  <2>2. items' = [items EXCEPT ![i] = [c EXCEPT !.stock = k]]
    BY <1>2, <1>3 DEF ShelfInv, RowsOK
  <2>3. [c EXCEPT !.stock = k].stock = k
    BY <1>3 DEF Shelf
  <2> QED  BY <1>3, <2>1, <2>2, <2>3 DEF ShelfInv, RowsOK
<1>6. /\ orders'[o] = d /\ \A p \in OrderIds \ {o} : orders'[p] = orders[p]
      /\ orders' \in [OrderIds -> Order \cup {Unused}]
  BY <1>1, <1>4 DEF ShelfInv, RowsOK
<1>7. RowsOK'
  BY <1>2, <1>5, <1>6 DEF ShelfInv, RowsOK
<1>8. RequestsOK'
  <2>1. ASSUME NEW u \in Requests \ {t}
        PROVE  /\ txs[u].op = "purchase" => items'[txs[u].item] = items[txs[u].item]
               /\ txs[u].op \in {"cancel", "refund"} =>
                    orders'[txs[u].order] = orders[txs[u].order]
    <3>1. Valid(txs[u], items, orders) /\ Distinct(txs[t], txs[u])
      BY DEF ShelfInv, RequestsOK
    <3>2. CASE txs[u].op = "purchase"
      BY <3>1, <3>2, <1>0, <1>2, <1>5, RequestShape DEF Distinct
    <3>3. CASE txs[u].op \in {"cancel", "refund"}
      <4>1. txs[u].order \in OrderIds /\ orders[txs[u].order].status = "PENDING"
        BY <3>1, <3>3, RequestShape
      <4> QED  BY <4>1, <3>3, <1>1, <1>6 DEF Unused
    <3> QED  BY <3>2, <3>3
  <2>2. Valid(Idle, items', orders')
    BY DEF Valid
  <2> QED  BY <1>2, <2>1, <2>2, DistinctFromIdle, RequestsStep DEF ShelfInv
<1>9. NoOrphans'
  <2>1. items'[i] # Absent
    BY <1>5 DEF Shelf, Absent
  <2> QED  BY <2>1, <1>4, <1>5, <1>6 DEF ShelfInv, NoOrphans
<1>10. StockKept'
  <2>1. Cardinality(Live(i))' = Cardinality(Live(i)) + 1
    BY <1>1, <1>4, LiveMore DEF ShelfInv, RowsOK
  <2>2. ASSUME NEW j \in Items \ {i}
        PROVE  Live(j)' = Live(j)
    BY <1>1, <1>4, <1>6, LiveSame DEF Unused
  <2>3. i \notin clobbered => k + (Cardinality(Live(i)) + 1) = shelved[i]
    BY <1>3, <1>4, LiveCount DEF ShelfInv, StockKept, k
  <2> QED  BY <2>1, <2>2, <2>3, <1>2, <1>5 DEF ShelfInv, StockKept
<1> QED  BY <1>2, <1>7, <1>8, <1>9, <1>10 DEF ShelfInv, EditOK

(* cancel commits: the purse it computed, and one thing back on the shelf. *)
LEMMA RestockPurse ==
  ASSUME ShelfInv, PurseInv, NEW t \in Requests, Restock(t)
  PROVE  PurseInv'
<1> DEFINE o == txs[t].order
           p == txs[t].purse
           s == Payer(o)
           i == orders[o].item
<1>1. txs[t].op = "refund" /\ UNCHANGED <<awards, debits, season, peak, credit, register>>
  BY DEF Restock, points
<1>2. orders[o] \in Order /\ PurseOK(orders[o], p)
  BY <1>1, RequestShape DEF ShelfInv, RequestsOK
<1>3. s \in Students /\ i \in Items
  BY <1>2 DEF Order, Payer
<1>4. CASE Currency[i] = "COIN"
  <2>1. wallets' = [wallets EXCEPT ![s] = p] /\ strikes' = strikes
    BY <1>4 DEF Restock
  <2>2. p \in Nat
    BY <1>2, <1>4 DEF PurseOK
  <2> QED  BY <1>1, <2>1, <2>2 DEF PurseInv, RewardsTypeOK, NoStrikesOwed
<1>5. CASE Currency[i] = "STRIKE"
  <2>1. strikes' = [strikes EXCEPT ![s] = p] /\ wallets' = wallets
    BY <1>5 DEF Restock
  <2>2. Covered(p)
    BY <1>2, <1>5 DEF PurseOK
  <2> HIDE DEF p
  <2> QED
    BY <1>1, <2>1, <2>2 DEF PurseInv, RewardsTypeOK, NoStrikesOwed, Covered, Strike
<1> QED  BY <1>3, <1>4, <1>5

LEMMA RestockShelf ==
  ASSUME ShelfInv, NEW t \in Requests, Restock(t)
  PROVE  ShelfInv'
<1>1. PICK o, i : o = txs[t].order /\ i = orders[o].item
  OBVIOUS
<1>2. /\ txs[t].op = "refund" /\ ~ItemLocked(i)
      /\ items' = [items EXCEPT ![i].stock = @ + 1]
      /\ orders' = [orders EXCEPT ![o].status = "CANCELLED"]
      /\ txs' = [txs EXCEPT ![t] = Idle] /\ UNCHANGED <<edit, shelved, clobbered>>
  BY <1>1 DEF Restock
<1>3. o \in OrderIds /\ orders[o] \in Order /\ orders[o].status = "PENDING"
  BY <1>1, <1>2, RequestShape DEF ShelfInv, RequestsOK
<1>4. i \in Items /\ items[i] \in Shelf
  <2>1. i \in Items
    BY <1>1, <1>3 DEF Order
  <2>2. orders[o] # Unused
    BY <1>3 DEF Unused
  <2>3. items[i] # Absent
    BY <2>1, <2>2, <1>1, <1>3 DEF ShelfInv, NoOrphans
  <2> QED  BY <2>1, <2>3 DEF ShelfInv, RowsOK
<1>5. /\ items'[i] \in Shelf /\ items'[i].stock = items[i].stock + 1
      /\ \A j \in Items \ {i} : items'[j] = items[j]
      /\ items' \in [Items -> Shelf \cup {Absent}]
  <2> DEFINE r == [items[i] EXCEPT !.stock = @ + 1]
  <2>1. r \in Shelf /\ r.stock = items[i].stock + 1
    BY <1>4 DEF Shelf
  <2>2. items' = [items EXCEPT ![i] = r]
    BY <1>2, <1>4 DEF ShelfInv, RowsOK
  <2> HIDE DEF r
  <2> QED  BY <1>4, <2>1, <2>2 DEF ShelfInv, RowsOK
<1>6. /\ orders'[o] \in Order /\ orders'[o].item = i /\ orders'[o].status = "CANCELLED"
      /\ \A p \in OrderIds \ {o} : orders'[p] = orders[p]
      /\ orders' \in [OrderIds -> Order \cup {Unused}]
  <2> DEFINE r == [orders[o] EXCEPT !.status = "CANCELLED"]
  <2>1. r \in Order /\ r.status = "CANCELLED" /\ r.item = i
    BY <1>1, <1>3 DEF Order
  <2>2. orders' = [orders EXCEPT ![o] = r]
    BY <1>2, <1>3 DEF ShelfInv, RowsOK
  <2> HIDE DEF r
  <2> QED  BY <1>3, <2>1, <2>2 DEF ShelfInv, RowsOK
<1>7. RowsOK'
  BY <1>2, <1>5, <1>6 DEF ShelfInv, RowsOK
<1>8. RequestsOK'
  <2>1. ASSUME NEW u \in Requests \ {t}
        PROVE  /\ txs[u].op = "purchase" => items'[txs[u].item] = items[txs[u].item]
               /\ txs[u].op \in {"cancel", "refund"} =>
                    orders'[txs[u].order] = orders[txs[u].order]
    <3>1. Valid(txs[u], items, orders) /\ Distinct(txs[t], txs[u])
      BY DEF ShelfInv, RequestsOK
    <3>2. CASE txs[u].op = "purchase"
      BY <3>1, <3>2, <1>2, <1>5, RequestShape DEF ItemLocked
    <3>3. CASE txs[u].op \in {"cancel", "refund"}
      BY <3>1, <3>3, <1>1, <1>2, <1>6, RequestShape DEF Distinct
    <3> QED  BY <3>2, <3>3
  <2>2. Valid(Idle, items', orders')
    BY DEF Valid
  <2> QED  BY <1>2, <2>1, <2>2, DistinctFromIdle, RequestsStep DEF ShelfInv
<1>9. NoOrphans'
  <2>1. items'[i] # Absent
    BY <1>5 DEF Shelf, Absent
  <2> QED  BY <2>1, <1>5, <1>6 DEF ShelfInv, NoOrphans
<1>10. StockKept'
  <2>1. Cardinality(Live(i))' = Cardinality(Live(i)) - 1
    BY <1>1, <1>2, <1>3, LiveLess DEF ShelfInv, RowsOK
  <2>2. ASSUME NEW j \in Items \ {i}
        PROVE  Live(j)' = Live(j)
    BY <1>1, <1>6, LiveSame
  <2>3. i \notin clobbered =>
          (items[i].stock + 1) + (Cardinality(Live(i)) - 1) = shelved[i]
    <3>1. items[i].stock \in Int /\ Cardinality(Live(i)) \in Nat
      BY <1>4, LiveCount DEF Shelf
    <3> QED  BY <3>1, <1>4 DEF ShelfInv, StockKept
  <2> QED  BY <2>1, <2>2, <2>3, <1>2, <1>5 DEF ShelfInv, StockKept
<1> QED  BY <1>2, <1>7, <1>8, <1>9, <1>10 DEF ShelfInv, EditOK

LEMMA FulfilStep ==
  ASSUME ShelfInv, NEW o \in OrderIds, Fulfil(o)
  PROVE  ShelfInv'
<1>1. /\ ~OrderLocked(o) /\ orders[o].status = "PENDING"
      /\ orders' = [orders EXCEPT ![o].status = "FULFILLED"]
      /\ UNCHANGED <<items, txs, edit, shelved, clobbered>>
  BY DEF Fulfil
<1>2. orders[o] \in Order
  BY <1>1 DEF ShelfInv, RowsOK, Unused
<1>3. /\ orders'[o] \in Order /\ orders'[o].item = orders[o].item
      /\ orders'[o].status = "FULFILLED"
      /\ \A p \in OrderIds \ {o} : orders'[p] = orders[p]
      /\ orders' \in [OrderIds -> Order \cup {Unused}]
  <2> DEFINE r == [orders[o] EXCEPT !.status = "FULFILLED"]
  <2>1. r \in Order /\ r.status = "FULFILLED" /\ r.item = orders[o].item
    BY <1>2 DEF Order
  <2>2. orders' = [orders EXCEPT ![o] = r]
    BY <1>1 DEF ShelfInv, RowsOK
  <2> HIDE DEF r
  <2> QED  BY <2>1, <2>2 DEF ShelfInv, RowsOK
<1>4. RowsOK' /\ EditOK'
  BY <1>1, <1>3 DEF ShelfInv, RowsOK, EditOK
<1>5. RequestsOK'
  <2>1. ASSUME NEW u \in Requests, txs[u].op \in {"cancel", "refund"}
        PROVE  orders'[txs[u].order] = orders[txs[u].order]
    BY <2>1, <1>1, <1>3, RequestShape DEF OrderLocked, ShelfInv, RequestsOK
  <2> QED  BY <1>1, <2>1, RequestsStay DEF ShelfInv
<1>6. NoOrphans'
  BY <1>1, <1>2, <1>3 DEF ShelfInv, NoOrphans, Unused
<1>7. StockKept'
  <2>1. ASSUME NEW i \in Items
        PROVE  Live(i)' = Live(i)
    BY <1>1, <1>3, LiveSame
  <2> QED  BY <1>1, <2>1 DEF ShelfInv, StockKept
<1> QED  BY <1>4, <1>5, <1>6, <1>7 DEF ShelfInv

----------------------------------------------------------------------------
(* The staff.                                                              *)

(* One item is written, while no purchase holds it.                        *)
LEMMA ItemStep ==
  ASSUME ShelfInv, NEW i \in Items, NEW r \in Shelf \cup {Absent}, NEW n \in Int,
         items' = [items EXCEPT ![i] = r], UNCHANGED <<orders, txs>>, EditOK',
         ~ItemLocked(i),
         shelved' = [shelved EXCEPT ![i] = n],
         clobbered' \in {clobbered, clobbered \ {i}, clobbered \cup {i}},
         r = Absent => \A o \in OrderIds : orders[o] # Unused => orders[o].item # i,
         i \notin clobbered' => r.stock + Cardinality(Live(i)) = n
  PROVE  ShelfInv'
<1>1. /\ items'[i] = r /\ \A j \in Items \ {i} : items'[j] = items[j]
      /\ items' \in [Items -> Shelf \cup {Absent}]
  BY DEF ShelfInv, RowsOK
<1>2. /\ shelved'[i] = n /\ \A j \in Items \ {i} : shelved'[j] = shelved[j]
      /\ shelved' \in [Items -> Int]
  BY DEF ShelfInv, RowsOK
<1>3. RowsOK'
  BY <1>1, <1>2 DEF ShelfInv, RowsOK
<1>4. RequestsOK'
  <2>1. ASSUME NEW u \in Requests, txs[u].op = "purchase"
        PROVE  items'[txs[u].item] = items[txs[u].item]
    BY <2>1, <1>1, RequestShape DEF ItemLocked, ShelfInv, RequestsOK
  <2> QED  BY <2>1, RequestsStay DEF ShelfInv
<1>5. NoOrphans'
  BY <1>1 DEF ShelfInv, NoOrphans
<1>6. StockKept'
  <2>1. \A j \in Items : Live(j)' = Live(j)
    BY LiveSame
  <2>2. \A j \in Items \ {i} : j \notin clobbered' => j \notin clobbered
    OBVIOUS
  <2> QED  BY <2>1, <2>2, <1>1, <1>2 DEF ShelfInv, StockKept
<1> QED  BY <1>3, <1>4, <1>5, <1>6 DEF ShelfInv

(* No request holds an item that is off the shelf, nor an order of it.     *)
LEMMA CreateStep ==
  ASSUME ShelfInv, NEW i \in Items, NEW n \in 0 .. MaxStock, NEW p \in Prices,
         CreateItem(i, n, p)
  PROVE  ShelfInv'
<1> DEFINE r == [shelf |-> "active", stock |-> n, price |-> p]
<1>1. /\ items[i] = Absent /\ items' = [items EXCEPT ![i] = r]
      /\ shelved' = [shelved EXCEPT ![i] = n] /\ clobbered' = clobbered \ {i}
      /\ UNCHANGED <<orders, txs, edit>>
  BY DEF CreateItem
<1>2. r \in Shelf /\ r # Absent /\ r.stock = n /\ n \in Int
  BY DEF Shelf, Absent
<1> HIDE DEF r
<1>3. ~ItemLocked(i)
  <2>1. Absent \notin Shelf
    BY DEF Absent, Shelf
  <2> QED  BY <2>1, <1>1, RequestShape DEF ItemLocked, ShelfInv, RequestsOK
<1>4. Cardinality(Live(i)) = 0
  <2>1. Live(i) = {}
    BY <1>1 DEF Live, ShelfInv, NoOrphans, Unused
  <2> QED  BY <2>1, FS_EmptySet
<1>5. EditOK'
  BY <1>1 DEF ShelfInv, EditOK
<1>6. r.stock + Cardinality(Live(i)) = n
  BY <1>2, <1>4
<1> QED  BY <1>1, <1>2, <1>3, <1>5, <1>6, ItemStep

LEMMA RemoveStep ==
  ASSUME ShelfInv, NEW i \in Items, RemoveItem(i)
  PROVE  ShelfInv'
<1>1. items[i] \in Shelf /\ ~ItemLocked(i) /\ UNCHANGED <<orders, txs, edit>>
  BY DEF RemoveItem, ShelfInv, RowsOK
<1>2. EditOK'
  BY <1>1 DEF ShelfInv, EditOK
<1>3. CASE items' = [items EXCEPT ![i].shelf = "hidden"] /\ UNCHANGED <<shelved, clobbered>>
  <2> DEFINE r == [items[i] EXCEPT !.shelf = "hidden"]
             n == shelved[i]
  <2>1. r \in Shelf /\ r.stock = items[i].stock /\ r # Absent
    BY <1>1 DEF Shelf, Absent
  <2>2. n \in Int /\ shelved' = [shelved EXCEPT ![i] = n]
          /\ items' = [items EXCEPT ![i] = r]
    BY <1>3 DEF ShelfInv, RowsOK
  <2>3. i \notin clobbered' => r.stock + Cardinality(Live(i)) = n
    BY <1>3, <2>1 DEF ShelfInv, StockKept
  <2>4. clobbered' \in {clobbered, clobbered \ {i}, clobbered \cup {i}}
    BY <1>3
  <2> HIDE DEF r, n
  <2> QED  BY <1>1, <1>2, <2>1, <2>2, <2>3, <2>4, ItemStep
<1>4. CASE /\ \A o \in OrderIds : orders[o] # Unused => orders[o].item # i
           /\ items' = [items EXCEPT ![i] = Absent]
           /\ shelved' = [shelved EXCEPT ![i] = 0]
           /\ clobbered' = clobbered \ {i}
  <2>1. Cardinality(Live(i)) = 0
    <3>1. Live(i) = {}
      BY <1>4 DEF Live, Unused
    <3> QED  BY <3>1, FS_EmptySet
  <2>2. Absent.stock + Cardinality(Live(i)) = 0
    BY <2>1 DEF Absent
  <2>3. Absent \in Shelf \cup {Absent} /\ 0 \in Int
          /\ clobbered' \in {clobbered, clobbered \ {i}, clobbered \cup {i}}
    BY <1>4
  <2> QED  BY <1>1, <1>2, <1>4, <2>2, <2>3, ItemStep
<1> QED  BY <1>3, <1>4 DEF RemoveItem

LEMMA ReadStep ==
  ASSUME ShelfInv, NEW i \in Items, ReadItem(i)
  PROVE  ShelfInv'
<1>1. UNCHANGED <<items, orders, txs, shelved, clobbered>>
        /\ edit' = [item |-> {i}, copy |-> items[i]] /\ items[i] \in Shelf
  BY DEF ReadItem, ShelfInv, RowsOK
<1>2. EditOK'
  BY <1>1 DEF EditOK
<1>3. \A j \in Items : Live(j)' = Live(j)
  BY <1>1, LiveSame
<1>4. RequestsOK'
  BY <1>1 DEF ShelfInv, RequestsOK
<1>5. StockKept'
  BY <1>1, <1>3 DEF ShelfInv, StockKept
<1> QED  BY <1>1, <1>2, <1>4, <1>5 DEF ShelfInv, RowsOK, NoOrphans

(* A save counts the shelf again, or leaves it, or is noted in clobbered.  *)
LEMMA SaveStep ==
  ASSUME ShelfInv, NEW i \in Items, SaveItem(i)
  PROVE  ShelfInv'
<1>1. edit.item = {i} /\ ~ItemLocked(i) /\ edit' = NoEdit /\ UNCHANGED <<orders, txs>>
  BY DEF SaveItem
<1>2. EditOK'
  BY <1>1 DEF EditOK
<1> DEFINE c == edit.copy
<1>3. c \in Shelf
  BY <1>1 DEF ShelfInv, EditOK, NoEdit
<1>4. Absent \notin Shelf
  BY DEF Absent, Shelf
<1>5. Cardinality(Live(i)) \in Nat
  BY LiveCount
<1>6. ASSUME NEW n \in 0 .. MaxStock, items' = [items EXCEPT ![i] = [c EXCEPT !.stock = n]],
             shelved' = Stocked(i, n), clobbered' = clobbered \ {i}
      PROVE  ShelfInv'
  <2> DEFINE r == [c EXCEPT !.stock = n]
             m == n + Cardinality(Live(i))
  <2>1. r \in Shelf /\ r.stock = n
    BY <1>3 DEF Shelf
  <2>2. m \in Int /\ r.stock + Cardinality(Live(i)) = m
    BY <1>5, <2>1
  <2>3. shelved' = [shelved EXCEPT ![i] = m] /\ items' = [items EXCEPT ![i] = r]
    BY <1>6 DEF Stocked
  <2> HIDE DEF r, m
  <2> QED  BY <1>1, <1>2, <1>4, <1>6, <2>1, <2>2, <2>3, ItemStep
<1>7. ASSUME NEW r \in Shelf, r.stock = c.stock, items' = [items EXCEPT ![i] = r],
             clobbered' = IF c.stock = items[i].stock THEN clobbered
                          ELSE clobbered \cup {i},
             shelved' = shelved
      PROVE  ShelfInv'
  <2> DEFINE n == shelved[i]
  <2>1. n \in Int /\ shelved' = [shelved EXCEPT ![i] = n]
    BY <1>7 DEF ShelfInv, RowsOK
  <2>2. i \notin clobbered' => r.stock + Cardinality(Live(i)) = n
    BY <1>7 DEF ShelfInv, StockKept
  <2> HIDE DEF n
  <2> QED  BY <1>1, <1>2, <1>4, <1>7, <2>1, <2>2, ItemStep
<1>8. ASSUME NEW p \in Prices
      PROVE  [c EXCEPT !.price = p] \in Shelf /\ [c EXCEPT !.price = p].stock = c.stock
  BY <1>3 DEF Shelf
<1>9. ASSUME NEW h \in {"active", "hidden"}
      PROVE  [c EXCEPT !.shelf = h] \in Shelf /\ [c EXCEPT !.shelf = h].stock = c.stock
  BY <1>3 DEF Shelf
<1>10. CASE \E n \in 0 .. MaxStock :
              /\ items' = [items EXCEPT ![i] = [c EXCEPT !.stock = n]]
              /\ shelved' = Stocked(i, n)
              /\ clobbered' = clobbered \ {i}
  BY <1>6, <1>10
<1>11. CASE /\ \E r \in Shelf : r.stock = c.stock /\ items' = [items EXCEPT ![i] = r]
            /\ clobbered' = IF c.stock = items[i].stock THEN clobbered
                            ELSE clobbered \cup {i}
            /\ shelved' = shelved
  BY <1>7, <1>11
<1> QED  BY <1>8, <1>9, <1>10, <1>11 DEF SaveItem

----------------------------------------------------------------------------
(* The specification.                                                      *)

ShopInv == PurseInv /\ ShelfInv

LEMMA InitInv == Init => ShopInv
<1> SUFFICES ASSUME Init
             PROVE  ShopInv
  OBVIOUS
<1>1. PurseInv
  BY DEF Init, RewardsInit, PurseInv, RewardsTypeOK, NoStrikesOwed, NoAward, Seasons, Marks
<1>2. RowsOK /\ EditOK /\ NoOrphans
  BY DEF Init, RowsOK, EditOK, NoOrphans
<1>3. RequestsOK
  BY DistinctFromIdle DEF Init, RequestsOK, Valid
<1>4. StockKept
  <2>1. ASSUME NEW i \in Items
        PROVE  Cardinality(Live(i)) = 0
    <3>1. Live(i) = {}
      BY DEF Init, Live, Unused
    <3> QED  BY <3>1, FS_EmptySet
  <2> QED  BY <2>1 DEF Init, StockKept, Absent
<1> QED  BY <1>1, <1>2, <1>3, <1>4 DEF ShopInv, ShelfInv

LEMMA NextInv == ShopInv /\ [Next]_vars => ShopInv'
<1> SUFFICES ASSUME ShopInv, [Next]_vars
             PROVE  ShopInv'
  OBVIOUS
<1>1. ASSUME UNCHANGED <<items, orders, txs, edit, shelved, clobbered>>
      PROVE  ShelfInv'
  <2>1. RequestsOK'
    BY <1>1 DEF ShopInv, ShelfInv, RequestsOK
  <2> QED  BY <1>1, <2>1, ShelfSame DEF ShopInv
<1>2. CASE UNCHANGED vars
  BY <1>1, <1>2, PurseSame DEF vars, shopVars, ShopInv
<1>3. CASE Rewarding /\ UNCHANGED <<items, orders, txs, edit, edits, shelved, clobbered>>
  BY <1>1, <1>3, RewardingStep DEF ShopInv
<1>4. CASE Trading
  <2>1. ASSUME NEW t \in Requests,
               \/ \E s \in Students, i \in Items : LockItem(t, s, i)
               \/ \E o \in OrderIds : LockOrder(t, o)
               \/ Refund(t) \/ RollBack(t)
        PROVE  ShopInv'
    <3>1. ShelfInv'
      BY <2>1, LockItemStep, LockOrderStep, RefundStep, RollBackStep DEF ShopInv
    <3>2. UNCHANGED rewardsVars
      BY <2>1 DEF LockItem, LockOrder, Refund, RollBack
    <3> QED  BY <3>1, <3>2, PurseSame DEF ShopInv
  <2>2. ASSUME NEW t \in Requests, Pay(t) \/ Restock(t)
        PROVE  ShopInv'
    BY <2>2, PayPurse, PayShelf, RestockPurse, RestockShelf DEF ShopInv
  <2>3. ASSUME NEW o \in OrderIds, Fulfil(o)
        PROVE  ShopInv'
    BY <2>3, FulfilStep, PurseSame DEF ShopInv, Fulfil
  <2> QED  BY <1>4, <2>1, <2>2, <2>3 DEF Trading
<1>5. CASE Stocking
  <2>1. ShelfInv'
    BY <1>5, CreateStep, RemoveStep, ReadStep, SaveStep DEF Stocking, ShopInv
  <2>2. UNCHANGED rewardsVars
    BY <1>5 DEF Stocking, CreateItem, RemoveItem, ReadItem, SaveItem
  <2> QED  BY <2>1, <2>2, PurseSame DEF ShopInv
<1> QED  BY <1>2, <1>3, <1>4, <1>5 DEF Next

LEMMA Invariance == Spec => []ShopInv
  BY InitInv, NextInv, PTL DEF Spec

LEMMA TypeFromInv == ShopInv => TypeOK
<1> SUFFICES ASSUME ShopInv
             PROVE  TypeOK
  OBVIOUS
<1>1. ASSUME NEW t \in Requests
      PROVE  \/ txs[t] = Idle
             \/ \E s \in Students, i \in Items : txs[t] = Buying(s, i)
             \/ \E o \in OrderIds :
                  /\ orders[o].status = "PENDING"
                  /\ \/ txs[t] = Cancelling(o)
                     \/ txs[t].op = "refund" /\ txs[t].order = o
  <2>1. Valid(txs[t], items, orders)
    BY DEF ShopInv, ShelfInv, RequestsOK
  <2>2. CASE Buys(txs[t], items)
    BY <2>2 DEF Buys, Buying
  <2>3. CASE Cancels(txs[t], orders)
    <3>1. PICK o \in OrderIds :
            /\ orders[o].status = "PENDING"
            /\ \/ txs[t] = [op |-> "cancel", order |-> o]
               \/ \E p : txs[t] = [op |-> "refund", order |-> o, purse |-> p]
      BY <2>3 DEF Cancels
    <3>2. txs[t] = Cancelling(o) \/ (txs[t].op = "refund" /\ txs[t].order = o)
      <4>1. CASE txs[t] = [op |-> "cancel", order |-> o]
        BY <4>1 DEF Cancelling
      <4>2. CASE \E p : txs[t] = [op |-> "refund", order |-> o, purse |-> p]
        <5>1. PICK p : txs[t] = [op |-> "refund", order |-> o, purse |-> p]
          BY <4>2
        <5> QED  BY <5>1
      <4> QED  BY <3>1, <4>1, <4>2
    <3> QED  BY <3>1, <3>2
  <2> QED  BY <2>1, <2>2, <2>3 DEF Valid
<1>2. Shelf \cup {Absent} \subseteq Item
  BY DEF Shelf, Absent, Item
<1>3. items \in [Items -> Item]
  BY <1>2 DEF ShopInv, ShelfInv, RowsOK
<1> QED  BY <1>1, <1>3 DEF ShopInv, PurseInv, ShelfInv, RowsOK, TypeOK

(* What a running request read of the rows it locked still stands: a       *)
(* purchase holds the item as it is, a cancel a pending order; and no      *)
(* wallet falls below zero (shop/services.py:43, coins.py spend).          *)
THEOREM TypeCorrect == Spec => []TypeOK
  BY Invariance, TypeFromInv, PTL

(* However many requests buy, cancel, die and are rolled back while staff  *)
(* edit, the shelf and the live orders add up to what was put there.       *)
THEOREM StockKeptHolds == Spec => []StockKept
<1>1. ShopInv => StockKept
  BY DEF ShopInv, ShelfInv
<1> QED  BY <1>1, Invariance, PTL

----------------------------------------------------------------------------
(* Sums: what the live orders of a student cost.                           *)

LEMMA TotalIsSum ==
  ASSUME NEW n, NEW S
  PROVE  Total(n, S) = SumFunctionOnSet(n, S)
  BY DEF Total, MapThenSumSet, SumFunctionOnSet, FoldFunctionOnSet

Price == [o \in OrderIds |-> orders[o].price]
IsLive(d, s, c) ==
  /\ d.status \in {"PENDING", "FULFILLED"}
  /\ d.student = s
  /\ Currency[d.item] = c

LEMMA LiveOfIs ==
  ASSUME NEW s, NEW c
  PROVE  LiveOf(s, c) = {o \in OrderIds : IsLive(orders[o], s, c)}
  BY DEF LiveOf, IsLive, Payer, CurrencyOf

LEMMA PaidIs ==
  ASSUME RowsOK, NEW s, NEW c
  PROVE  /\ IsFiniteSet(LiveOf(s, c))
         /\ \A o \in LiveOf(s, c) : o \in OrderIds /\ orders[o] \in Order /\ Price[o] \in Nat
         /\ Paid(s, c) = SumFunctionOnSet(Price, LiveOf(s, c))
         /\ Paid(s, c) \in Nat
<1>1. IsFiniteSet(OrderIds) /\ LiveOf(s, c) \in SUBSET OrderIds
  BY FS_Interval DEF OrderIds, LiveOf
<1>2. IsFiniteSet(LiveOf(s, c))
  BY <1>1, FS_Subset
<1>3. \A o \in LiveOf(s, c) : o \in OrderIds /\ orders[o] \in Order /\ Price[o] \in Nat
  BY DEF LiveOf, RowsOK, Order, Unused, Price
<1>4. Paid(s, c) = SumFunctionOnSet(Price, LiveOf(s, c))
  BY TotalIsSum DEF Paid, Price
<1> QED  BY <1>2, <1>3, <1>4, SumNat

(* Orders move only between the states that hold their price.              *)
LEMMA PaidSame ==
  ASSUME RowsOK, RowsOK', NEW s, NEW c,
         \A o \in OrderIds :
           IsLive(orders[o], s, c) \/ IsLive(orders'[o], s, c) =>
             IsLive(orders[o], s, c) /\ IsLive(orders'[o], s, c) /\ orders'[o].price = orders[o].price
  PROVE  Paid(s, c)' = Paid(s, c)
<1>1. LiveOf(s, c)' = LiveOf(s, c)
  BY DEF LiveOf, IsLive, Payer, CurrencyOf
<1>2. \A o \in LiveOf(s, c) : Price[o] \in Int /\ Price[o] = Price'[o]
  <2> SUFFICES ASSUME NEW o \in LiveOf(s, c)
               PROVE  Price[o] \in Int /\ Price[o] = Price'[o]
    OBVIOUS
  <2>1. o \in OrderIds /\ Price[o] \in Nat
    BY PaidIs
  <2>2. orders'[o].price = orders[o].price
    BY <2>1, LiveOfIs
  <2>3. Price[o] = orders[o].price /\ Price'[o] = orders'[o].price
    BY <2>1 DEF Price, OrderIds
  <2> QED  BY <2>1, <2>2, <2>3
<1>3. SumFunctionOnSet(Price, LiveOf(s, c)) = SumFunctionOnSet(Price', LiveOf(s, c))
  BY <1>2, PaidIs, SumSame
<1>4. Paid(s, c)' = SumFunctionOnSet(Price', LiveOf(s, c)')
  BY TotalIsSum DEF Paid, Price
<1> QED  BY <1>1, <1>3, <1>4, PaidIs

(* An order more, one fewer: the sum moves by its price.                   *)
LEMMA PaidMore ==
  ASSUME RowsOK, RowsOK', NEW o \in OrderIds, NEW s, NEW c,
         ~IsLive(orders[o], s, c), IsLive(orders'[o], s, c),
         \A p \in OrderIds \ {o} : orders'[p] = orders[p]
  PROVE  Paid(s, c)' = Paid(s, c) + orders'[o].price
<1>1. LiveOf(s, c)' = LiveOf(s, c) \cup {o} /\ o \notin LiveOf(s, c)
  BY DEF LiveOf, IsLive, Payer, CurrencyOf
<1>2. orders'[o].price \in Nat
  BY DEF IsLive, RowsOK, Order, Unused
<1>3. Price'[o] = orders'[o].price /\ \A p \in LiveOf(s, c) : Price'[p] = Price[p]
  BY <1>1 DEF Price, LiveOf
<1>4. \A p \in LiveOf(s, c) \cup {o} : Price'[p] \in Int
  BY <1>2, <1>3, PaidIs
<1>5. SumFunctionOnSet(Price', LiveOf(s, c) \cup {o})
        = Price'[o] + SumFunctionOnSet(Price', LiveOf(s, c))
  BY <1>1, <1>4, PaidIs, SumInsert
<1>6. SumFunctionOnSet(Price, LiveOf(s, c)) = SumFunctionOnSet(Price', LiveOf(s, c))
  BY <1>3, PaidIs, SumSame
<1>7. Paid(s, c)' = SumFunctionOnSet(Price', LiveOf(s, c)')
  BY TotalIsSum DEF Paid, Price
<1>8. Paid(s, c)' = orders'[o].price + Paid(s, c)
  BY <1>1, <1>3, <1>5, <1>6, <1>7, PaidIs
<1> QED  BY <1>2, <1>8, PaidIs

LEMMA PaidLess ==
  ASSUME RowsOK, RowsOK', NEW o \in OrderIds, NEW s, NEW c,
         IsLive(orders[o], s, c), ~IsLive(orders'[o], s, c),
         \A p \in OrderIds \ {o} : orders'[p] = orders[p]
  PROVE  Paid(s, c) = Paid(s, c)' + orders[o].price
<1>1. LiveOf(s, c)' = LiveOf(s, c) \ {o} /\ o \in LiveOf(s, c)
  BY DEF LiveOf, IsLive, Payer, CurrencyOf
<1>2. Price[o] = orders[o].price /\ Price[o] \in Nat
  BY <1>1, PaidIs DEF Price
<1>3. \A p \in LiveOf(s, c) \ {o} : Price[p] \in Int /\ Price[p] = Price'[p]
  <2> SUFFICES ASSUME NEW p \in LiveOf(s, c) \ {o}
               PROVE  Price[p] \in Int /\ Price[p] = Price'[p]
    OBVIOUS
  <2>1. p \in OrderIds \ {o} /\ Price[p] \in Nat
    BY PaidIs
  <2>2. Price[p] = orders[p].price /\ Price'[p] = orders'[p].price
    BY <2>1 DEF Price, OrderIds
  <2> QED  BY <2>1, <2>2
<1>4. IsFiniteSet(LiveOf(s, c) \ {o})
  BY PaidIs, FS_RemoveElement
<1>5. SumFunctionOnSet(Price, LiveOf(s, c) \ {o}) = SumFunctionOnSet(Price', LiveOf(s, c) \ {o})
  BY <1>3, <1>4, SumSame
<1>6. \A p \in LiveOf(s, c) : Price[p] \in Int
  BY PaidIs
<1>7. /\ SumFunctionOnSet(Price, LiveOf(s, c))
           = Price[o] + SumFunctionOnSet(Price, LiveOf(s, c) \ {o})
      /\ SumFunctionOnSet(Price, LiveOf(s, c) \ {o}) \in Int
  BY <1>1, <1>3, <1>4, <1>6, PaidIs, SumSplits
<1>8. Paid(s, c)' = SumFunctionOnSet(Price', LiveOf(s, c)')
  BY TotalIsSum DEF Paid, Price
<1> QED  BY <1>1, <1>2, <1>5, <1>7, <1>8, PaidIs

----------------------------------------------------------------------------
(* The books: what a student got of a currency is in the purse or in live  *)
(* orders; a refund that has been computed still stands, and no two        *)
(* refunds hold the same purse.                                            *)

Purse(s, c) == IF c = "COIN" THEN wallets[s] ELSE strikes[s]

SpentInOrders == \A s \in Students : s \in broken \/ strikes[s].spent = Paid(s, "STRIKE")
RefundsStand ==
  \A t \in Requests : txs[t].op = "refund" => txs[t].purse = Refunded(txs[t].order)
PursesApart ==
  \A t, u \in Requests :
    txs[t].op = "refund" /\ txs[u].op = "refund" /\ t # u =>
      \/ Payer(txs[t].order) # Payer(txs[u].order)
      \/ CurrencyOf(txs[t].order) # CurrencyOf(txs[u].order)

Books == CoinsKept /\ SpentInOrders /\ RefundsStand /\ PursesApart

(* A refund stands while its order and its purse do.                       *)
LEMMA RefundsKept ==
  ASSUME RefundsStand, PursesApart,
         \A t \in Requests : txs'[t].op = "refund" =>
           /\ txs'[t] = txs[t]
           /\ orders'[txs[t].order] = orders[txs[t].order]
           /\ Purse(Payer(txs[t].order), CurrencyOf(txs[t].order))'
                = Purse(Payer(txs[t].order), CurrencyOf(txs[t].order))
  PROVE  RefundsStand' /\ PursesApart'
<1>1. ASSUME NEW t \in Requests, txs'[t].op = "refund"
      PROVE  (txs[t].purse = Refunded(txs[t].order))'
  <2>1. PICK o : o = txs[t].order
    OBVIOUS
  <2>2. txs'[t] = txs[t] /\ txs[t].purse = Refunded(o) /\ orders'[o] = orders[o]
    BY <1>1, <2>1 DEF RefundsStand
  <2>3. Purse(Payer(o), CurrencyOf(o))' = Purse(Payer(o), CurrencyOf(o))
    BY <1>1, <2>1 DEF Purse, Payer, CurrencyOf
  <2>4. Refunded(o)' = Refunded(o)
    BY <2>2, <2>3 DEF Refunded, Purse, Payer, CurrencyOf, StrikesRefunded
  <2>5. txs'[t].order = o
    BY <2>1, <2>2
  <2> QED  BY <2>2, <2>4, <2>5
<1>2. RefundsStand'
  BY <1>1 DEF RefundsStand
<1>3. PursesApart'
  BY DEF PursesApart, Payer, CurrencyOf
<1> QED  BY <1>2, <1>3

(* A rewards step leaves the purses that refunds hold, and gives credit    *)
(* what it gives a wallet.                                                 *)
LEMMA RewardingPurses ==
  ASSUME PurseInv, Rewarding, NEW u \in Students
  PROVE  /\ wallets'[u] - credit'[u] = wallets[u] - credit[u]
         /\ PurseLocked(u, "COIN") => wallets'[u] = wallets[u]
         /\ PurseLocked(u, "STRIKE") => strikes'[u] = strikes[u]
         /\ u \in broken' \/ (u \notin broken /\ strikes'[u].spent = strikes[u].spent)
<1>0. wallets \in [Students -> Nat] /\ credit \in [Students -> Int]
  BY DEF PurseInv, RewardsTypeOK
<1>1. ASSUME NEW s \in Students, ~PurseLocked(s, "COIN"), UNCHANGED broken,
             NEW n \in Int, wallets' = [wallets EXCEPT ![s] = @ + n],
             credit' = [credit EXCEPT ![s] = @ + n], UNCHANGED strikes
      PROVE  /\ wallets'[u] - credit'[u] = wallets[u] - credit[u]
             /\ PurseLocked(u, "COIN") => wallets'[u] = wallets[u]
             /\ PurseLocked(u, "STRIKE") => strikes'[u] = strikes[u]
             /\ u \in broken' \/ (u \notin broken /\ strikes'[u].spent = strikes[u].spent)
  BY <1>0, <1>1
<1>2. CASE \E s \in Students :
             /\ \/ \E p \in 1 .. Earned(s) : Convert(s, p)
                \/ \E n \in 1 .. MaxCoins : DeskTake(s, n) \/ DeskGive(s, n)
             /\ ~PurseLocked(s, "COIN")
             /\ UNCHANGED broken
  <2>1. PICK s \in Students :
             /\ \/ \E p \in 1 .. Earned(s) : Convert(s, p)
                \/ \E n \in 1 .. MaxCoins : DeskTake(s, n) \/ DeskGive(s, n)
             /\ ~PurseLocked(s, "COIN")
             /\ UNCHANGED broken
    BY <1>2
  <2>2. PICK n \in Int : /\ wallets' = [wallets EXCEPT ![s] = @ + n]
                         /\ credit' = [credit EXCEPT ![s] = @ + n]
                         /\ UNCHANGED strikes
    <3>1. ASSUME NEW p \in 1 .. Earned(s), Convert(s, p)
          PROVE  \E n \in Int : /\ wallets' = [wallets EXCEPT ![s] = @ + n]
                                /\ credit' = [credit EXCEPT ![s] = @ + n]
                                /\ UNCHANGED strikes
      <4>1. CoinsFor(p) \in Nat
        BY CoinsType
      <4> DEFINE n == CoinsFor(p)
      <4>2. /\ wallets' = [wallets EXCEPT ![s] = @ + n]
            /\ credit' = [credit EXCEPT ![s] = @ + n]
            /\ UNCHANGED strikes
        BY <3>1 DEF Convert, attendance
      <4>3. n \in Int
        BY <4>1
      <4> HIDE DEF n
      <4> QED  BY <4>2, <4>3
    <3>2. ASSUME NEW n \in 1 .. MaxCoins, DeskTake(s, n)
          PROVE  \E m \in Int : /\ wallets' = [wallets EXCEPT ![s] = @ + m]
                                /\ credit' = [credit EXCEPT ![s] = @ + m]
                                /\ UNCHANGED strikes
      <4>1. wallets[s] - n = wallets[s] + (-n) /\ credit[s] - n = credit[s] + (-n) /\ -n \in Int
        BY <1>0
      <4>2. /\ wallets' = [wallets EXCEPT ![s] = wallets[s] + (-n)]
            /\ credit' = [credit EXCEPT ![s] = credit[s] + (-n)]
        BY <3>2, <4>1 DEF DeskTake
      <4> QED  BY <3>2, <4>1, <4>2 DEF DeskTake, attendance
    <3>3. ASSUME NEW n \in 1 .. MaxCoins, DeskGive(s, n)
          PROVE  \E m \in Int : /\ wallets' = [wallets EXCEPT ![s] = @ + m]
                                /\ credit' = [credit EXCEPT ![s] = @ + m]
                                /\ UNCHANGED strikes
      <4>1. /\ wallets' = [wallets EXCEPT ![s] = @ + n]
            /\ credit' = [credit EXCEPT ![s] = @ + n]
            /\ UNCHANGED strikes
        BY <3>3 DEF DeskGive, attendance
      <4> WITNESS n \in Int
      <4> QED  BY <4>1
    <3> QED  BY <2>1, <3>1, <3>2, <3>3
  <2> QED  BY <1>1, <2>1, <2>2
<1>3. CASE \E s \in Students, l \in 1 .. Lessons, mark \in Marks, v \in Values :
             /\ ~PurseLocked(s, "STRIKE")
             /\ Mark(s, l, mark, v)
             /\ broken' = IF strikes'[s].spent = strikes[s].spent THEN broken
                          ELSE broken \cup {s}
  <2>1. PICK s \in Students, l \in 1 .. Lessons, mark \in Marks, v \in Values :
             /\ ~PurseLocked(s, "STRIKE")
             /\ Mark(s, l, mark, v)
             /\ broken' = IF strikes'[s].spent = strikes[s].spent THEN broken
                          ELSE broken \cup {s}
    BY <1>3
  <2>2. /\ strikes' = [strikes EXCEPT ![s] = Recomputed(@, [register[s] EXCEPT ![l] = mark])]
        /\ UNCHANGED <<wallets, credit>>
    BY <2>1 DEF Mark, coins
  <2>3. u # s => strikes'[u] = strikes[u]
    BY <2>2 DEF PurseInv, RewardsTypeOK
  <2> QED  BY <2>1, <2>2, <2>3
<1>4. CASE /\ \/ \E s \in Students, w \in Works :
                   Withdraw(s, w) \/ \E v \in Values : Award(s, w, v)
              \/ \E s \in Students, l \in 1 .. Lessons : Unmark(s, l)
              \/ NewSeason
           /\ UNCHANGED broken
  BY <1>4 DEF Withdraw, Award, Unmark, NewSeason, coins, attendance
<1> QED  BY <1>2, <1>3, <1>4 DEF Rewarding

LEMMA RewardingBooks ==
  ASSUME PurseInv, ShelfInv, Books, Rewarding, UNCHANGED <<orders, txs>>, RowsOK', PurseInv'
  PROVE  Books'
<1>1. ASSUME NEW s, NEW c
      PROVE  Paid(s, c)' = Paid(s, c)
  BY PaidSame DEF ShelfInv
<1>2. CoinsKept'
  <2> SUFFICES ASSUME NEW s \in Students
               PROVE  wallets'[s] + Paid(s, "COIN")' = credit'[s]
    BY DEF CoinsKept
  <2>1. wallets'[s] - credit'[s] = wallets[s] - credit[s]
    BY RewardingPurses
  <2>2. wallets[s] \in Int /\ wallets'[s] \in Int /\ credit[s] \in Int /\ credit'[s] \in Int
    BY DEF PurseInv, RewardsTypeOK
  <2>3. Paid(s, "COIN") \in Int /\ wallets[s] + Paid(s, "COIN") = credit[s]
    BY PaidIs DEF ShelfInv, Books, CoinsKept
  <2> QED  BY <1>1, <2>1, <2>2, <2>3
<1>3. SpentInOrders'
  <2> SUFFICES ASSUME NEW s \in Students
               PROVE  s \in broken' \/ strikes'[s].spent = Paid(s, "STRIKE")'
    BY DEF SpentInOrders
  <2> QED  BY <1>1, RewardingPurses DEF Books, SpentInOrders
<1>4. ASSUME NEW t \in Requests, txs[t].op = "refund"
      PROVE  Purse(Payer(txs[t].order), CurrencyOf(txs[t].order))'
               = Purse(Payer(txs[t].order), CurrencyOf(txs[t].order))
  <2> DEFINE s == Payer(txs[t].order)
             c == CurrencyOf(txs[t].order)
  <2>1. s \in Students /\ c \in {"COIN", "STRIKE"}
    BY <1>4, RequestShape DEF ShelfInv, RequestsOK, Order, Payer, CurrencyOf
  <2>2. PurseLocked(s, c)
    BY <1>4 DEF PurseLocked
  <2>3. s' = s /\ c' = c
    BY DEF Payer, CurrencyOf
  <2> HIDE DEF s, c
  <2>4. Purse(s, c)' = Purse(s, c)
    BY <2>1, <2>2, <2>3, RewardingPurses DEF Purse
  <2> QED  BY <2>3, <2>4 DEF s, c
<1>5. RefundsStand' /\ PursesApart'
  BY <1>4, RefundsKept DEF Books
<1> QED  BY <1>2, <1>3, <1>5 DEF Books

(* No purse moves and no order changes hands.                              *)
LEMMA QuietBooks ==
  ASSUME ShelfInv, RowsOK', Books, UNCHANGED <<rewardsVars, broken>>,
         \A t \in Requests : txs'[t].op = "refund" =>
           txs'[t] = txs[t] /\ orders'[txs[t].order] = orders[txs[t].order],
         \A o \in OrderIds :
           \/ orders'[o] = orders[o]
           \/ /\ orders[o].status = "PENDING" /\ orders'[o].status = "FULFILLED"
              /\ orders'[o].student = orders[o].student
              /\ orders'[o].item = orders[o].item
              /\ orders'[o].price = orders[o].price
  PROVE  Books'
<1>1. UNCHANGED <<wallets, credit, strikes>>
  BY DEF rewardsVars, coins, attendance
<1>2. ASSUME NEW s, NEW c
      PROVE  Paid(s, c)' = Paid(s, c)
  <2>1. \A o \in OrderIds :
           IsLive(orders[o], s, c) \/ IsLive(orders'[o], s, c) =>
             /\ IsLive(orders[o], s, c) /\ IsLive(orders'[o], s, c)
             /\ orders'[o].price = orders[o].price
    BY DEF IsLive
  <2> QED  BY <2>1, PaidSame DEF ShelfInv
<1>3. CoinsKept' /\ SpentInOrders'
  BY <1>1, <1>2 DEF Books, CoinsKept, SpentInOrders
<1>4. ASSUME NEW t \in Requests, txs'[t].op = "refund"
      PROVE  Purse(Payer(txs[t].order), CurrencyOf(txs[t].order))'
               = Purse(Payer(txs[t].order), CurrencyOf(txs[t].order))
  BY <1>1, <1>4 DEF Purse, Payer, CurrencyOf
<1>5. RefundsStand' /\ PursesApart'
  BY <1>4, RefundsKept DEF Books
<1> QED  BY <1>3, <1>5 DEF Books

LEMMA QuietSteps ==
  ASSUME ShelfInv, RowsOK', Books,
         \/ \E t \in Requests : \/ \E s \in Students, i \in Items : LockItem(t, s, i)
                                \/ \E o \in OrderIds : LockOrder(t, o)
                                \/ RollBack(t)
         \/ \E o \in OrderIds : Fulfil(o)
         \/ Stocking
         \/ UNCHANGED vars
  PROVE  Books'
<1>1. ASSUME UNCHANGED <<rewardsVars, broken, orders>>, NEW t \in Requests, NEW x,
             txs' = [txs EXCEPT ![t] = x], x.op # "refund"
      PROVE  Books'
  <2>1. \A u \in Requests : txs'[u] = IF u = t THEN x ELSE txs[u]
    BY <1>1 DEF ShelfInv, RequestsOK
  <2> QED  BY <1>1, <2>1, QuietBooks
<1>2. ASSUME NEW t \in Requests, NEW s \in Students, NEW i \in Items, LockItem(t, s, i)
      PROVE  Books'
  <2>1. Buying(s, i).op # "refund"
    BY DEF Buying
  <2> QED  BY <1>1, <1>2, <2>1 DEF LockItem
<1>3. ASSUME NEW t \in Requests, NEW o \in OrderIds, LockOrder(t, o)
      PROVE  Books'
  <2>1. Cancelling(o).op # "refund"
    BY DEF Cancelling
  <2> QED  BY <1>1, <1>3, <2>1 DEF LockOrder
<1>4. ASSUME NEW t \in Requests, RollBack(t)
      PROVE  Books'
  <2>1. Idle.op # "refund"
    BY DEF Idle
  <2> QED  BY <1>1, <1>4, <2>1 DEF RollBack
<1>5. ASSUME NEW o \in OrderIds, Fulfil(o)
      PROVE  Books'
  <2>1. /\ ~OrderLocked(o) /\ orders[o].status = "PENDING" /\ orders[o] \in Order
        /\ orders' = [orders EXCEPT ![o].status = "FULFILLED"]
        /\ UNCHANGED <<rewardsVars, broken, txs>>
    BY <1>5 DEF Fulfil, ShelfInv, RowsOK, Unused
  <2>2. /\ \A p \in OrderIds \ {o} : orders'[p] = orders[p]
        /\ orders'[o].status = "FULFILLED" /\ orders'[o].student = orders[o].student
        /\ orders'[o].item = orders[o].item /\ orders'[o].price = orders[o].price
    BY <2>1 DEF ShelfInv, RowsOK, Order
  <2>3. \A t \in Requests : txs[t].op = "refund" =>
          txs[t].order \in OrderIds /\ txs[t].order # o
    BY <2>1, RequestShape DEF ShelfInv, RequestsOK, OrderLocked
  <2> QED  BY <2>1, <2>2, <2>3, QuietBooks
<1>6. CASE Stocking \/ UNCHANGED vars
  <2>1. UNCHANGED <<rewardsVars, broken, orders, txs>>
    BY <1>6 DEF Stocking, CreateItem, RemoveItem, ReadItem, SaveItem, vars, shopVars
  <2> QED  BY <2>1, QuietBooks
<1> QED  BY <1>2, <1>3, <1>4, <1>5, <1>6

(* The refund is computed from the purse as it is, and no other refund     *)
(* holds that purse.                                                       *)
LEMMA RefundBooks ==
  ASSUME ShelfInv, Books, NEW t \in Requests, Refund(t)
  PROVE  Books'
<1> DEFINE o == txs[t].order
           x == Refunding(o, Refunded(o))
<1>1. /\ ~PurseLocked(Payer(o), CurrencyOf(o)) /\ txs' = [txs EXCEPT ![t] = x]
      /\ UNCHANGED <<rewardsVars, orders, broken>>
  BY DEF Refund
<1>2. UNCHANGED <<wallets, credit, strikes>>
  BY <1>1 DEF rewardsVars, coins, attendance
<1>3. x.op = "refund" /\ x.order = o /\ x.purse = Refunded(o)
  BY DEF Refunding
<1> HIDE DEF x
<1>4. /\ \A u \in Requests : txs'[u] = IF u = t THEN x ELSE txs[u]
  BY <1>1 DEF ShelfInv, RequestsOK
<1>5. CoinsKept' /\ SpentInOrders'
  <2>1. RowsOK'
    BY DEF Refund, ShelfInv, RowsOK
  <2>2. ASSUME NEW s, NEW c
        PROVE  Paid(s, c)' = Paid(s, c)
    BY <2>1, <1>1, PaidSame DEF ShelfInv
  <2> QED  BY <1>1, <1>2, <2>2 DEF Books, CoinsKept, SpentInOrders
<1>6. RefundsStand'
  <2>1. \A p : Refunded(p)' = Refunded(p)
    BY <1>1, <1>2 DEF Refunded, Payer, CurrencyOf, StrikesRefunded
  <2> QED  BY <2>1, <1>3, <1>4 DEF Books, RefundsStand
<1>7. PursesApart'
  <2>1. \A p : Payer(p)' = Payer(p) /\ CurrencyOf(p)' = CurrencyOf(p)
    BY <1>1 DEF Payer, CurrencyOf
  <2>2. \A u \in Requests : txs[u].op = "refund" =>
          \/ Payer(txs[u].order) # Payer(o)
          \/ CurrencyOf(txs[u].order) # CurrencyOf(o)
    BY <1>1 DEF PurseLocked
  <2> HIDE DEF o
  <2> QED  BY <2>1, <2>2, <1>3, <1>4 DEF Books, PursesApart
<1> QED  BY <1>5, <1>6, <1>7 DEF Books

(* A purchase: the price moves from the purse to the new order.            *)
LEMMA PayBooks ==
  ASSUME PurseInv, ShelfInv, RowsOK', Books, NEW t \in Requests, Pay(t)
  PROVE  Books'
<1>0. PICK s, i, n, c : s = txs[t].student /\ i = txs[t].item /\ n = txs[t].copy.price
                        /\ c = Currency[i]
  OBVIOUS
<1> DEFINE d == [status |-> "PENDING", student |-> s, item |-> i, price |-> n]
<1>1. PICK o \in OrderIds : orders[o] = Unused /\ orders' = [orders EXCEPT ![o] = d]
  BY <1>0 DEF Pay
<1>2. txs[t].op = "purchase" /\ txs' = [txs EXCEPT ![t] = Idle] /\ ~PurseLocked(s, c)
        /\ UNCHANGED <<credit, broken>>
  BY <1>0 DEF Pay
<1>3. s \in Students /\ i \in Items /\ n \in Nat /\ c \in {"COIN", "STRIKE"}
  BY <1>0, <1>2, RequestShape DEF ShelfInv, RequestsOK, Shelf
<1>4. orders'[o] = d /\ \A p \in OrderIds \ {o} : orders'[p] = orders[p]
  BY <1>1 DEF ShelfInv, RowsOK
<1>5. /\ \A u, e : ~IsLive(orders[o], u, e)
      /\ IsLive(orders'[o], s, c) /\ orders'[o].price = n
      /\ \A u, e : IsLive(orders'[o], u, e) => u = s /\ e = c
  BY <1>0, <1>1, <1>4 DEF IsLive, Unused
<1>6. Paid(s, c)' = Paid(s, c) + n
  BY <1>4, <1>5, PaidMore DEF ShelfInv
<1>7. ASSUME NEW u, NEW e, u # s \/ e # c
      PROVE  Paid(u, e)' = Paid(u, e)
  BY <1>4, <1>5, <1>7, PaidSame DEF ShelfInv
<1>8. /\ c = "COIN" => wallets' = [wallets EXCEPT ![s] = @ - n] /\ strikes' = strikes
      /\ c = "STRIKE" => /\ strikes' = [strikes EXCEPT ![s] = StrikesSpent(@, n)]
                         /\ wallets' = wallets
  BY <1>0 DEF Pay
<1>9. wallets \in [Students -> Nat] /\ strikes \in [Students -> Strike]
  BY DEF PurseInv, RewardsTypeOK, Strike
<1>10. ASSUME NEW u \in Students
       PROVE  Paid(u, "COIN") \in Nat /\ Paid(u, "STRIKE") \in Nat
  BY PaidIs DEF ShelfInv
<1>11. CoinsKept'
  <2> SUFFICES ASSUME NEW u \in Students
               PROVE  wallets'[u] + Paid(u, "COIN")' = credit'[u]
    BY DEF CoinsKept
  <2>1. wallets[u] + Paid(u, "COIN") = credit[u] /\ wallets[u] \in Nat
    BY <1>9 DEF Books, CoinsKept
  <2>2. CASE u = s /\ c = "COIN"
    <3>1. wallets'[u] = wallets[u] - n
      BY <1>3, <1>8, <1>9, <2>2
    <3>2. Paid(u, "COIN")' = Paid(u, "COIN") + n
      BY <1>6, <2>2
    <3> QED  BY <3>1, <3>2, <2>1, <1>2, <1>3, <1>10
  <2>3. CASE u # s \/ c # "COIN"
    <3>1. wallets'[u] = wallets[u]
      BY <1>3, <1>8, <1>9, <2>3
    <3> QED  BY <3>1, <2>1, <2>3, <1>2, <1>7
  <2> QED  BY <2>2, <2>3
<1>12. SpentInOrders'
  <2> SUFFICES ASSUME NEW u \in Students, u \notin broken'
               PROVE  strikes'[u].spent = Paid(u, "STRIKE")'
    BY DEF SpentInOrders
  <2>1. strikes[u].spent = Paid(u, "STRIKE") /\ strikes[u] \in Strike
    BY <1>2, <1>9 DEF Books, SpentInOrders
  <2>2. CASE u = s /\ c = "STRIKE"
    <3>1. strikes'[u] = StrikesSpent(strikes[u], n)
      BY <1>3, <1>8, <1>9, <2>2
    <3>2. strikes'[u].spent = strikes[u].spent + n
      BY <3>1, <2>1 DEF StrikesSpent, Strike
    <3>3. Paid(u, "STRIKE")' = Paid(u, "STRIKE") + n
      BY <1>6, <2>2
    <3> QED  BY <3>2, <3>3, <2>1
  <2>3. CASE u # s \/ c # "STRIKE"
    <3>1. strikes'[u] = strikes[u]
      BY <1>3, <1>8, <1>9, <2>3
    <3> QED  BY <3>1, <2>1, <2>3, <1>7
  <2> QED  BY <2>2, <2>3
<1>13. ASSUME NEW v \in Requests, txs'[v].op = "refund"
       PROVE  /\ txs'[v] = txs[v]
              /\ orders'[txs[v].order] = orders[txs[v].order]
              /\ Purse(Payer(txs[v].order), CurrencyOf(txs[v].order))'
                   = Purse(Payer(txs[v].order), CurrencyOf(txs[v].order))
  <2>1. txs'[v] = txs[v]
    BY <1>2, <1>13 DEF ShelfInv, RequestsOK, Idle
  <2>2. PICK p : p = txs[v].order
    OBVIOUS
  <2>3. /\ p \in OrderIds /\ orders[p].status = "PENDING"
        /\ Payer(p) \in Students /\ CurrencyOf(p) \in {"COIN", "STRIKE"}
    BY <1>13, <2>1, <2>2, RequestShape DEF ShelfInv, RequestsOK, Order, Payer, CurrencyOf
  <2>4. orders'[p] = orders[p]
    BY <2>3, <1>1, <1>4 DEF Unused
  <2>5. Payer(p) # s \/ CurrencyOf(p) # c
    BY <1>2, <1>13, <2>1, <2>2 DEF PurseLocked
  <2>6. Payer(p)' = Payer(p) /\ CurrencyOf(p)' = CurrencyOf(p)
    BY <2>4 DEF Payer, CurrencyOf
  <2>7. ASSUME NEW u \in Students, NEW e \in {"COIN", "STRIKE"}, u # s \/ e # c
        PROVE  Purse(u, e)' = Purse(u, e)
    BY <2>7, <1>3, <1>8, <1>9 DEF Purse
  <2>8. Purse(Payer(p), CurrencyOf(p))' = Purse(Payer(p), CurrencyOf(p))
    BY <2>3, <2>5, <2>6, <2>7 DEF Purse
  <2>9. txs'[v].order = p
    BY <2>1, <2>2
  <2> QED  BY <2>1, <2>2, <2>4, <2>8, <2>9
<1>14. RefundsStand' /\ PursesApart'
  BY <1>13, RefundsKept DEF Books
<1> QED  BY <1>11, <1>12, <1>14 DEF Books

(* A cancel: the price moves back, all of it when what was spent still     *)
(* covers the order.                                                       *)
LEMMA RestockBooks ==
  ASSUME PurseInv, ShelfInv, RowsOK', Books, NEW t \in Requests, Restock(t)
  PROVE  Books'
<1>0. PICK o, s, i, n, c : o = txs[t].order /\ s = orders[o].student /\ i = orders[o].item
                           /\ n = orders[o].price /\ c = Currency[i]
  OBVIOUS
<1>2. txs[t].op = "refund" /\ txs' = [txs EXCEPT ![t] = Idle]
        /\ orders' = [orders EXCEPT ![o].status = "CANCELLED"]
        /\ UNCHANGED <<credit, broken>>
  BY <1>0 DEF Restock
<1>1. o \in OrderIds /\ orders[o] \in Order /\ orders[o].status = "PENDING"
        /\ txs[t].purse = Refunded(o)
  BY <1>0, <1>2, RequestShape DEF ShelfInv, RequestsOK, Books, RefundsStand
<1>3. s \in Students /\ i \in Items /\ n \in Nat /\ c \in {"COIN", "STRIKE"}
        /\ Payer(o) = s /\ CurrencyOf(o) = c
  BY <1>0, <1>1 DEF Order, Payer, CurrencyOf
<1>4. orders'[o].status = "CANCELLED" /\ \A p \in OrderIds \ {o} : orders'[p] = orders[p]
  BY <1>1, <1>2 DEF ShelfInv, RowsOK, Order
<1>5. /\ \A u, e : ~IsLive(orders'[o], u, e)
      /\ IsLive(orders[o], s, c)
      /\ \A u, e : IsLive(orders[o], u, e) => u = s /\ e = c
  BY <1>0, <1>1, <1>4 DEF IsLive
<1>6. Paid(s, c) = Paid(s, c)' + n
  BY <1>0, <1>1, <1>4, <1>5, PaidLess DEF ShelfInv
<1>7. ASSUME NEW u, NEW e, u # s \/ e # c
      PROVE  Paid(u, e)' = Paid(u, e)
  BY <1>4, <1>5, <1>7, PaidSame DEF ShelfInv
<1>8. /\ c = "COIN" => wallets' = [wallets EXCEPT ![s] = @ + n] /\ strikes' = strikes
      /\ c = "STRIKE" => /\ strikes' = [strikes EXCEPT ![s] = StrikesRefunded(@, n)]
                         /\ wallets' = wallets
  <2>1. Refunded(o) = IF c = "COIN" THEN wallets[s] + n ELSE StrikesRefunded(strikes[s], n)
    BY <1>0, <1>3 DEF Refunded
  <2>2. c = "COIN" => wallets' = [wallets EXCEPT ![s] = Refunded(o)] /\ strikes' = strikes
    BY <1>0, <1>1, <1>3 DEF Restock
  <2>3. c = "STRIKE" => strikes' = [strikes EXCEPT ![s] = Refunded(o)] /\ wallets' = wallets
    BY <1>0, <1>1, <1>3 DEF Restock
  <2> QED  BY <2>1, <2>2, <2>3
<1>9. wallets \in [Students -> Nat] /\ strikes \in [Students -> Strike]
  BY DEF PurseInv, RewardsTypeOK, Strike
<1>10. ASSUME NEW u \in Students
       PROVE  /\ Paid(u, "COIN") \in Nat /\ Paid(u, "STRIKE") \in Nat
              /\ Paid(u, "COIN")' \in Nat /\ Paid(u, "STRIKE")' \in Nat
  <2>1. Paid(u, "COIN") \in Nat /\ Paid(u, "STRIKE") \in Nat
    BY PaidIs DEF ShelfInv
  <2>2. Paid(s, c)' \in Nat
    <3>1. IsFiniteSet(LiveOf(s, c)') /\ \A p \in LiveOf(s, c)' : Price'[p] \in Nat
      <4>1. LiveOf(s, c)' \in SUBSET OrderIds /\ IsFiniteSet(OrderIds)
        <5>1. IsFiniteSet(OrderIds)
          BY FS_Interval DEF OrderIds
        <5>2. LiveOf(s, c)' \in SUBSET OrderIds
          BY DEF LiveOf, Payer, CurrencyOf, OrderIds
        <5> QED  BY <5>1, <5>2
      <4>2. \A p \in LiveOf(s, c)' : p \in OrderIds /\ orders'[p] \in Order
        BY DEF LiveOf, RowsOK, Unused
      <4>3. \A p \in OrderIds : Price'[p] = orders'[p].price
        BY DEF Price, OrderIds
      <4> QED  BY <4>1, <4>2, <4>3, FS_Subset DEF Order
    <3>2. Paid(s, c)' = SumFunctionOnSet(Price', LiveOf(s, c)')
      BY TotalIsSum DEF Paid, Price
    <3> QED  BY <3>1, <3>2, SumNat
  <2> QED  BY <2>1, <2>2, <1>7
<1>11. CoinsKept'
  <2> SUFFICES ASSUME NEW u \in Students
               PROVE  wallets'[u] + Paid(u, "COIN")' = credit'[u]
    BY DEF CoinsKept
  <2>1. wallets[u] + Paid(u, "COIN") = credit[u] /\ wallets[u] \in Nat
    BY <1>9 DEF Books, CoinsKept
  <2>2. CASE u = s /\ c = "COIN"
    <3>1. wallets'[u] = wallets[u] + n
      BY <1>3, <1>8, <1>9, <2>2
    <3>2. Paid(u, "COIN") = Paid(u, "COIN")' + n
      BY <1>6, <2>2
    <3> QED  BY <3>1, <3>2, <2>1, <1>2, <1>3, <1>10
  <2>3. CASE u # s \/ c # "COIN"
    <3>1. wallets'[u] = wallets[u]
      BY <1>3, <1>8, <1>9, <2>3
    <3> QED  BY <3>1, <2>1, <2>3, <1>2, <1>7
  <2> QED  BY <2>2, <2>3
<1>12. SpentInOrders'
  <2> SUFFICES ASSUME NEW u \in Students, u \notin broken'
               PROVE  strikes'[u].spent = Paid(u, "STRIKE")'
    BY DEF SpentInOrders
  <2>1. strikes[u].spent = Paid(u, "STRIKE") /\ strikes[u] \in Strike
    BY <1>2, <1>9 DEF Books, SpentInOrders
  <2>2. CASE u = s /\ c = "STRIKE"
    <3>1. strikes'[u] = StrikesRefunded(strikes[u], n)
      BY <1>3, <1>8, <1>9, <2>2
    <3>2. Paid(u, "STRIKE") = Paid(u, "STRIKE")' + n /\ Paid(u, "STRIKE")' \in Nat
      BY <1>6, <1>10, <2>2
    <3>3. n <= strikes[u].spent
      BY <3>2, <2>1, <1>3
    <3>4. strikes'[u].spent = strikes[u].spent - n
      BY <3>1, <3>3, <2>1, <1>3 DEF StrikesRefunded, Strike, Smaller
    <3> QED  BY <3>2, <3>4, <2>1, <1>3
  <2>3. CASE u # s \/ c # "STRIKE"
    <3>1. strikes'[u] = strikes[u]
      BY <1>3, <1>8, <1>9, <2>3
    <3> QED  BY <3>1, <2>1, <2>3, <1>7
  <2> QED  BY <2>2, <2>3
<1>13. ASSUME NEW v \in Requests, txs'[v].op = "refund"
       PROVE  /\ txs'[v] = txs[v]
              /\ orders'[txs[v].order] = orders[txs[v].order]
              /\ Purse(Payer(txs[v].order), CurrencyOf(txs[v].order))'
                   = Purse(Payer(txs[v].order), CurrencyOf(txs[v].order))
  <2>1. txs'[v] = txs[v] /\ v # t
    BY <1>2, <1>13 DEF ShelfInv, RequestsOK, Idle
  <2>2. PICK p : p = txs[v].order
    OBVIOUS
  <2>3. /\ p \in OrderIds /\ p # o
        /\ Payer(p) \in Students /\ CurrencyOf(p) \in {"COIN", "STRIKE"}
    BY <1>0, <1>2, <1>13, <2>1, <2>2, RequestShape
       DEF ShelfInv, RequestsOK, Order, Payer, CurrencyOf, Distinct
  <2>4. orders'[p] = orders[p]
    BY <2>3, <1>4
  <2>5. Payer(p) # s \/ CurrencyOf(p) # c
    BY <1>0, <1>2, <1>3, <1>13, <2>1, <2>2 DEF Books, PursesApart
  <2>6. Payer(p)' = Payer(p) /\ CurrencyOf(p)' = CurrencyOf(p)
    BY <2>4 DEF Payer, CurrencyOf
  <2>7. ASSUME NEW u \in Students, NEW e \in {"COIN", "STRIKE"}, u # s \/ e # c
        PROVE  Purse(u, e)' = Purse(u, e)
    BY <2>7, <1>3, <1>8, <1>9 DEF Purse
  <2>8. Purse(Payer(p), CurrencyOf(p))' = Purse(Payer(p), CurrencyOf(p))
    BY <2>3, <2>5, <2>6, <2>7 DEF Purse
  <2>9. txs'[v].order = p
    BY <2>1, <2>2
  <2> QED  BY <2>1, <2>2, <2>4, <2>8, <2>9
<1>14. RefundsStand' /\ PursesApart'
  BY <1>13, RefundsKept DEF Books
<1> QED  BY <1>11, <1>12, <1>14 DEF Books

LEMMA InitBooks == Init => Books
<1> SUFFICES ASSUME Init
             PROVE  Books
  OBVIOUS
<1>1. RowsOK
  BY DEF Init, RowsOK, Absent
<1>2. ASSUME NEW s, NEW c
      PROVE  Paid(s, c) = 0
  <2>1. LiveOf(s, c) = {}
    BY DEF Init, LiveOf, Unused
  <2> QED  BY <1>1, <2>1, PaidIs, SumEmpty
<1>3. CoinsKept
  BY <1>2 DEF Init, RewardsInit, CoinsKept
<1>4. SpentInOrders
  BY <1>2 DEF Init, RewardsInit, SpentInOrders
<1> QED  BY <1>3, <1>4 DEF Init, Idle, Books, RefundsStand, PursesApart

LEMMA NextBooks == ShopInv /\ Books /\ [Next]_vars => Books'
<1> SUFFICES ASSUME ShopInv, Books, [Next]_vars
             PROVE  Books'
  OBVIOUS
<1>1. PurseInv /\ ShelfInv /\ PurseInv' /\ RowsOK'
  BY NextInv DEF ShopInv, ShelfInv
<1>2. CASE Rewarding /\ UNCHANGED <<items, orders, txs, edit, edits, shelved, clobbered>>
  BY <1>1, <1>2, RewardingBooks
<1>3. CASE Trading
  BY <1>1, <1>3, QuietSteps, RefundBooks, PayBooks, RestockBooks DEF Trading
<1>4. CASE Stocking \/ UNCHANGED vars
  BY <1>1, <1>4, QuietSteps
<1> QED  BY <1>2, <1>3, <1>4 DEF Next

LEMMA BooksKept == Spec => []Books
  BY Invariance, InitBooks, NextBooks, PTL DEF Spec

(* The shop neither makes nor loses a coin: what a student got, less what  *)
(* the desk took, is in the wallet or in a live order, whatever requests   *)
(* run, die or are rolled back in between (shop/services.py:43, cancel).   *)
THEOREM CoinsKeptHolds == Spec => []CoinsKept
<1>1. Books => CoinsKept
  BY DEF Books
<1> QED  BY <1>1, BooksKept, PTL

(* No student owes strikes, and unless the streak shrank below what was    *)
(* spent of it, what is spent of it is the price of the live orders        *)
(* (rewards/strikes.py, refund).                                           *)
THEOREM StrikesKeptHolds == Spec => []StrikesKept
<1>1. ShopInv /\ Books => StrikesKept
  BY DEF ShopInv, PurseInv, Books, SpentInOrders, StrikesKept
<1> QED  BY <1>1, Invariance, BooksKept, PTL

----------------------------------------------------------------------------
(* Points: a fact counts in its season for no more than its peak there.    *)

PeaksCover ==
  \A s \in Students, f \in Facts :
    awards[s][f].season \in Seasons =>
      awards[s][f].points <= peak[s][f][awards[s][f].season]
PointsInv == PeaksCover /\ PointsPaidOnce

Peaks(s, n) == [f \in Facts |-> peak[s][f][n]]

LEMMA FactsFinite == IsFiniteSet(Facts)
<1>1. IsFiniteSet(1 .. Lessons)
  BY FS_Interval
<1> QED  BY <1>1, FS_Union DEF Facts

LEMMA PeaksNat ==
  ASSUME RewardsTypeOK, NEW s \in Students, NEW n \in Seasons
  PROVE  /\ \A f \in Facts : Peaks(s, n)[f] = peak[s][f][n] /\ peak[s][f][n] \in Nat
         /\ Total([f \in Facts |-> peak[s][f][n]], Facts) = SumFunctionOnSet(Peaks(s, n), Facts)
         /\ SumFunctionOnSet(Peaks(s, n), Facts) \in Nat
<1>1. \A f \in Facts : Peaks(s, n)[f] = peak[s][f][n] /\ peak[s][f][n] \in Nat
  BY DEF RewardsTypeOK, Peaks
<1>2. Total([f \in Facts |-> peak[s][f][n]], Facts) = SumFunctionOnSet(Peaks(s, n), Facts)
  BY TotalIsSum DEF Peaks
<1> QED  BY <1>1, <1>2, FactsFinite, SumNat

LEMMA PointsTypes ==
  ASSUME RewardsTypeOK, NEW s \in Students, NEW f \in Facts, NEW n \in Seasons
  PROVE  /\ awards[s][f] \in AwardRow /\ awards[s][f].points \in Nat
         /\ peak[s][f][n] \in Nat /\ debits[s][n] \in Nat
<1>1. /\ awards \in [Students -> [Facts -> AwardRow]]
      /\ peak \in [Students -> [Facts -> [Seasons -> Nat]]]
      /\ debits \in [Students -> [Seasons -> Nat]]
  BY DEF RewardsTypeOK, AwardRow
<1>2. awards[s][f] \in AwardRow /\ peak[s][f] \in [Seasons -> Nat] /\ debits[s] \in [Seasons -> Nat]
  BY <1>1
<1> QED  BY <1>2 DEF AwardRow

(* One fact is written, and its peak follows or still covers it.           *)
LEMMA FactPeaked ==
  ASSUME RewardsTypeOK, RewardsTypeOK', PointsInv, NEW s \in Students, NEW f \in Facts,
         NEW a \in AwardRow, awards' = [awards EXCEPT ![s][f] = a], UNCHANGED debits,
         \/ peak' = peak /\ (a.season \in Seasons => a.points <= peak[s][f][a.season])
         \/ peak' = [peak EXCEPT ![s][f] = Peaked(@, a)]
  PROVE  PointsInv'
<1>1. /\ awards \in [Students -> [Facts -> AwardRow]]
      /\ peak \in [Students -> [Facts -> [Seasons -> Nat]]]
      /\ peak' \in [Students -> [Facts -> [Seasons -> Nat]]]
  BY DEF RewardsTypeOK, AwardRow
<1>2. ASSUME NEW u \in Students, NEW g \in Facts
      PROVE  /\ awards'[u][g] = IF u = s /\ g = f THEN a ELSE awards[u][g]
             /\ \A n \in Seasons : peak[u][g][n] <= peak'[u][g][n]
             /\ a.season \in Seasons => a.points <= peak'[s][f][a.season]
  <2>1. awards'[u][g] = IF u = s /\ g = f THEN a ELSE awards[u][g]
    BY <1>1
  <2>2. CASE peak' = peak /\ (a.season \in Seasons => a.points <= peak[s][f][a.season])
    BY <1>1, <2>1, <2>2
  <2>3. CASE peak' = [peak EXCEPT ![s][f] = Peaked(@, a)]
    <3> DEFINE q == Peaked(peak[s][f], a)
    <3>1. q \in [Seasons -> Nat]
      <4>1. peak[s][f] \in [Seasons -> Nat]
        BY <1>1
      <4> QED  BY <4>1, PeakRows
    <3>2. /\ a.season \in Seasons => a.points <= q[a.season]
          /\ \A n \in Seasons : peak[s][f][n] <= q[n]
      BY <1>1 DEF Peaked, Larger, AwardRow
    <3>3. peak' = [peak EXCEPT ![s][f] = q]
      BY <2>3
    <3> HIDE DEF q
    <3>4. peak'[s][f] = q /\ ((u = s /\ g = f) \/ peak'[u][g] = peak[u][g])
      BY <1>1, <3>3
    <3> QED  BY <1>1, <2>1, <3>1, <3>2, <3>4
  <2> QED  BY <2>2, <2>3
<1>3. PeaksCover'
  <2> SUFFICES ASSUME NEW u \in Students, NEW g \in Facts, awards'[u][g].season \in Seasons
               PROVE  awards'[u][g].points <= peak'[u][g][awards'[u][g].season]
    BY DEF PeaksCover
  <2>1. CASE u = s /\ g = f
    BY <1>2, <2>1
  <2>2. CASE ~(u = s /\ g = f)
    <3>1. PICK n \in Seasons : n = awards[u][g].season /\ awards'[u][g] = awards[u][g]
      BY <1>2, <2>2
    <3>2. awards[u][g].points <= peak[u][g][n] /\ peak[u][g][n] <= peak'[u][g][n]
      BY <1>2, <3>1 DEF PointsInv, PeaksCover
    <3>3. awards[u][g].points \in Nat /\ peak[u][g][n] \in Nat
      BY PointsTypes
    <3>4. peak'[u][g][n] \in Nat
      <4>1. peak'[u][g] \in [Seasons -> Nat]
        BY <1>1
      <4> QED  BY <4>1
    <3> QED  BY <3>1, <3>2, <3>3, <3>4
  <2> QED  BY <2>1, <2>2
<1>4. PointsPaidOnce'
  <2> SUFFICES ASSUME NEW u \in Students, NEW n \in Seasons
               PROVE  debits'[u][n] <= Total([g \in Facts |-> peak'[u][g][n]], Facts)
    BY DEF PointsPaidOnce
  <2> DEFINE q == [g \in Facts |-> peak'[u][g][n]]
  <2>1. Total(q, Facts) = SumFunctionOnSet(q, Facts)
    BY TotalIsSum
  <2>2. \A g \in Facts : q[g] \in Nat /\ Peaks(u, n)[g] \in Nat /\ Peaks(u, n)[g] <= q[g]
    <3> SUFFICES ASSUME NEW g \in Facts
                 PROVE  q[g] \in Nat /\ Peaks(u, n)[g] \in Nat /\ Peaks(u, n)[g] <= q[g]
      OBVIOUS
    <3>1. peak'[u][g] \in [Seasons -> Nat]
      BY <1>1
    <3>2. q[g] = peak'[u][g][n] /\ q[g] \in Nat
      BY <3>1
    <3>3. peak[u][g][n] <= peak'[u][g][n]
      BY <1>2
    <3>4. Peaks(u, n)[g] = peak[u][g][n] /\ peak[u][g][n] \in Nat
      BY PeaksNat
    <3> HIDE DEF q
    <3> QED  BY <3>2, <3>3, <3>4
  <2> HIDE DEF q
  <2>3. SumFunctionOnSet(Peaks(u, n), Facts) <= SumFunctionOnSet(q, Facts)
    BY <2>2, FactsFinite, SumGrows
  <2>4. SumFunctionOnSet(q, Facts) \in Nat
    BY <2>2, FactsFinite, SumNat
  <2>5. debits[u][n] \in Nat /\ debits[u][n] <= SumFunctionOnSet(Peaks(u, n), Facts)
    <3>1. debits[u][n] <= Total([g \in Facts |-> peak[u][g][n]], Facts)
      BY DEF PointsInv, PointsPaidOnce
    <3>2. debits[u][n] \in Nat
      <4>1. debits[u] \in [Seasons -> Nat]
        BY DEF RewardsTypeOK
      <4> QED  BY <4>1
    <3> QED  BY <3>1, <3>2, PeaksNat
  <2>6. debits'[u][n] <= Total(q, Facts)
    <3>1. debits'[u][n] = debits[u][n] /\ SumFunctionOnSet(Peaks(u, n), Facts) \in Nat
      BY PeaksNat
    <3> QED  BY <2>1, <2>3, <2>4, <2>5, <3>1
  <2> QED  BY <2>6 DEF q
<1> QED  BY <1>3, <1>4 DEF PointsInv

LEMMA ConvertPoints ==
  ASSUME RewardsTypeOK, PointsInv, NEW s \in Students, NEW p \in 1 .. Earned(s), Convert(s, p)
  PROVE  PointsInv'
<1> DEFINE T == {f \in Facts : awards[s][f].season = season}
           e == [f \in Facts |-> awards[s][f].points]
           c == CoinsFor(p) * Rate
<1>1. season \in Seasons /\ p \in Nat
  BY DEF RewardsTypeOK
<1>2. IsFiniteSet(T) /\ T \in SUBSET Facts
  BY FactsFinite, FS_Subset
<1>3. Earned(s) = SumFunctionOnSet(e, T)
  BY TotalIsSum DEF Earned
<1>4. \A f \in T : e[f] \in Nat /\ Peaks(s, season)[f] \in Nat /\ e[f] <= Peaks(s, season)[f]
  <2> SUFFICES ASSUME NEW f \in T
               PROVE  e[f] \in Nat /\ Peaks(s, season)[f] \in Nat /\ e[f] <= Peaks(s, season)[f]
    OBVIOUS
  <2>1. f \in Facts /\ awards[s][f].season = season /\ e[f] = awards[s][f].points
    OBVIOUS
  <2>2. awards[s][f].points <= peak[s][f][season]
    BY <1>1, <2>1 DEF PointsInv, PeaksCover
  <2>3. awards[s][f].points \in Nat /\ Peaks(s, season)[f] = peak[s][f][season]
          /\ peak[s][f][season] \in Nat
    BY <1>1, <2>1, PointsTypes, PeaksNat
  <2> QED  BY <2>1, <2>2, <2>3
<1>5. \A f \in Facts : Peaks(s, season)[f] \in Nat
  BY <1>1, PeaksNat
<1> HIDE DEF T, e
<1>6. SumFunctionOnSet(e, T) <= SumFunctionOnSet(Peaks(s, season), T)
  BY <1>2, <1>4, SumGrows
<1>7. SumFunctionOnSet(Peaks(s, season), T) <= SumFunctionOnSet(Peaks(s, season), Facts)
  BY <1>2, <1>5, FactsFinite, SumOfPart
<1>8. /\ SumFunctionOnSet(e, T) \in Nat
      /\ SumFunctionOnSet(Peaks(s, season), T) \in Nat
      /\ SumFunctionOnSet(Peaks(s, season), Facts) \in Nat
  BY <1>2, <1>4, <1>5, FactsFinite, SumNat
<1>9. c \in Nat /\ c <= p
  BY <1>1 DEF CoinsFor
<1>10. /\ p + debits[s][season] <= Earned(s)
       /\ debits' = [debits EXCEPT ![s][season] = @ + c]
       /\ UNCHANGED <<awards, peak>>
  BY DEF Convert
<1> HIDE DEF c
<1>11. debits \in [Students -> [Seasons -> Nat]]
  BY DEF RewardsTypeOK
<1>12. debits'[s][season] <= SumFunctionOnSet(Peaks(s, season), Facts)
  <2>1. debits'[s][season] = debits[s][season] + c /\ debits[s][season] \in Nat
    BY <1>1, <1>10, <1>11
  <2> QED  BY <2>1, <1>1, <1>3, <1>6, <1>7, <1>8, <1>9, <1>10
<1>13. PointsPaidOnce'
  <2> SUFFICES ASSUME NEW u \in Students, NEW n \in Seasons
               PROVE  debits'[u][n] <= Total([f \in Facts |-> peak'[u][f][n]], Facts)
    BY DEF PointsPaidOnce
  <2>1. Total([f \in Facts |-> peak'[u][f][n]], Facts) = Total([f \in Facts |-> peak[u][f][n]], Facts)
    BY <1>10
  <2>2. CASE u = s /\ n = season
    BY <2>1, <2>2, <1>1, <1>12, PeaksNat
  <2>3. CASE ~(u = s /\ n = season)
    <3>1. debits'[u][n] = debits[u][n]
      BY <1>10, <1>11, <2>3
    <3> QED  BY <2>1, <3>1 DEF PointsInv, PointsPaidOnce
  <2> QED  BY <2>2, <2>3
<1> QED  BY <1>10, <1>13 DEF PointsInv, PeaksCover

LEMMA PointsSame ==
  ASSUME PointsInv, UNCHANGED <<awards, debits, peak>>
  PROVE  PointsInv'
  BY DEF PointsInv, PeaksCover, PointsPaidOnce

LEMMA RewardingPoints ==
  ASSUME PurseInv, PurseInv', PointsInv, Rewarding
  PROVE  PointsInv'
<1>1. ASSUME NEW s \in Students, NEW p \in 1 .. Earned(s), Convert(s, p)
      PROVE  PointsInv'
  BY <1>1, ConvertPoints DEF PurseInv
<1>2. ASSUME NEW s \in Students, NEW n \in 1 .. MaxCoins, DeskTake(s, n) \/ DeskGive(s, n)
      PROVE  PointsInv'
  BY <1>2, PointsSame DEF DeskTake, DeskGive, points
<1>3. CASE NewSeason
  BY <1>3, PointsSame DEF NewSeason
<1>4. ASSUME NEW s \in Students, NEW f \in Facts
      PROVE  LET w == Withdrawn(awards[s][f])
             IN  w \in AwardRow /\ (w.season \in Seasons => w.points <= peak[s][f][w.season])
  <2> DEFINE w == Withdrawn(awards[s][f])
  <2>1. awards[s][f] \in AwardRow /\ 0 \in Nat
    BY FactRow
  <2>2. w \in AwardRow /\ w.points = 0
    BY <2>1 DEF Withdrawn, AwardRow
  <2> HIDE DEF w
  <2>3. ASSUME w.season \in Seasons
        PROVE  w.points <= peak[s][f][w.season]
    <3>1. peak[s][f][w.season] \in Nat
      BY <2>3, PointsTypes DEF PurseInv
    <3> QED  BY <2>2, <3>1
  <2>4. w \in AwardRow /\ (w.season \in Seasons => w.points <= peak[s][f][w.season])
    BY <2>2, <2>3
  <2> QED  BY <2>4 DEF w
<1>5. ASSUME NEW s \in Students, NEW f \in Facts, UNCHANGED <<debits, peak>>,
             awards' = [awards EXCEPT ![s][f] = Withdrawn(@)]
      PROVE  PointsInv'
  <2> DEFINE a == Withdrawn(awards[s][f])
  <2>1. a \in AwardRow /\ (a.season \in Seasons => a.points <= peak[s][f][a.season])
    BY <1>4
  <2>2. awards' = [awards EXCEPT ![s][f] = a] /\ peak' = peak /\ UNCHANGED debits
    BY <1>5
  <2> HIDE DEF a
  <2> QED  BY <2>1, <2>2, FactPeaked DEF PurseInv
<1>6. ASSUME NEW s \in Students, NEW f \in Facts, NEW v \in Values, UNCHANGED debits,
             awards' = [awards EXCEPT ![s][f] = Awarded(@, v)],
             peak' = [peak EXCEPT ![s][f] = Peaked(@, awards'[s][f])]
      PROVE  PointsInv'
  <2> DEFINE a == Awarded(awards[s][f], v)
  <2>1. a \in AwardRow
    BY FactRow, AwardRows DEF PurseInv, RewardsTypeOK
  <2>2. awards' = [awards EXCEPT ![s][f] = a] /\ UNCHANGED debits
    BY <1>6
  <2> HIDE DEF a
  <2>3. awards'[s][f] = a
    BY <2>2 DEF PurseInv, RewardsTypeOK
  <2>4. peak' = [peak EXCEPT ![s][f] = Peaked(@, a)]
    BY <1>6, <2>3
  <2> QED  BY <2>1, <2>2, <2>4, FactPeaked DEF PurseInv
<1>7. ASSUME NEW s \in Students, NEW w \in Works, NEW v \in Values, Award(s, w, v)
      PROVE  PointsInv'
  BY <1>6, <1>7 DEF Award, Facts
<1>8. ASSUME NEW s \in Students, NEW w \in Works, Withdraw(s, w)
      PROVE  PointsInv'
  BY <1>5, <1>8 DEF Withdraw, Facts
<1>9. ASSUME NEW s \in Students, NEW l \in 1 .. Lessons, NEW k \in Marks, NEW v \in Values,
             Mark(s, l, k, v)
      PROVE  PointsInv'
  <2>1. l \in Facts
    BY DEF Facts
  <2>2. CASE k = "attended"
    BY <1>6, <1>9, <2>1, <2>2 DEF Mark
  <2>3. CASE k # "attended"
    <3>1. peak' = [peak EXCEPT ![s][l] = @]
      BY <1>9, <2>3 DEF Mark
    <3>2. peak' = peak
      BY <3>1 DEF PurseInv, RewardsTypeOK
    <3>3. awards' = [awards EXCEPT ![s][l] = Withdrawn(@)] /\ UNCHANGED debits
      BY <1>9, <2>3 DEF Mark
    <3> QED  BY <1>5, <2>1, <3>2, <3>3
  <2> QED  BY <2>2, <2>3
<1>10. ASSUME NEW s \in Students, NEW l \in 1 .. Lessons, Unmark(s, l)
       PROVE  PointsInv'
  <2>1. l \in Facts
    BY DEF Facts
  <2> QED  BY <1>5, <1>10, <2>1 DEF Unmark
<1> QED  BY <1>1, <1>2, <1>3, <1>7, <1>8, <1>9, <1>10 DEF Rewarding

(* A season's conversions never cost more than its facts were ever worth   *)
(* in it, whatever is corrected or withdrawn later (rewards/coins.py:104). *)
THEOREM PointsPaidOnceHolds == Spec => []PointsPaidOnce
<1>1. Init => PointsInv
  <2> SUFFICES ASSUME Init
               PROVE  PointsInv
    OBVIOUS
  <2>1. RewardsTypeOK
    BY InitInv DEF ShopInv, PurseInv
  <2>2. PeaksCover
    BY DEF Init, RewardsInit, NoAward, PeaksCover, Seasons
  <2>3. PointsPaidOnce
    <3> SUFFICES ASSUME NEW s \in Students, NEW n \in Seasons
                 PROVE  debits[s][n] <= Total([f \in Facts |-> peak[s][f][n]], Facts)
      BY DEF PointsPaidOnce
    <3>1. debits[s][n] = 0
      BY DEF Init, RewardsInit
    <3> QED  BY <2>1, <3>1, PeaksNat
  <2> QED  BY <2>2, <2>3 DEF PointsInv
<1>2. ShopInv /\ PointsInv /\ [Next]_vars => PointsInv'
  <2> SUFFICES ASSUME ShopInv, PointsInv, [Next]_vars
               PROVE  PointsInv'
    OBVIOUS
  <2>1. CASE Rewarding
    BY <2>1, RewardingPoints, NextInv DEF ShopInv
  <2>2. CASE UNCHANGED <<awards, debits, peak>>
    BY <2>2, PointsSame
  <2>3. Trading \/ Stocking \/ UNCHANGED vars => UNCHANGED <<awards, debits, peak>>
    BY DEF Trading, LockItem, LockOrder, Pay, Refund, Restock, RollBack, Fulfil,
           Stocking, CreateItem, RemoveItem, ReadItem, SaveItem,
           vars, shopVars, rewardsVars, points
  <2> QED  BY <2>1, <2>2, <2>3 DEF Next
<1>3. PointsInv => PointsPaidOnce
  BY DEF PointsInv
<1> QED  BY <1>1, <1>2, <1>3, Invariance, PTL DEF Spec

=============================================================================
