-------------------------------- MODULE Shop --------------------------------
(***************************************************************************)
(* The school shop (shop/services.py, the staff views of shop/views.py)    *)
(* over the students' rewards.  purchase and cancel lock several rows, one *)
(* after the other: a running request is what it has read under its locks, *)
(* and its writes appear when it commits.  A request that dies, or that    *)
(* PostgreSQL picks to break a deadlock, is rolled back.  A staff edit     *)
(* reads an item and later saves every column of that copy.                *)
(*                                                                         *)
(* An item keeps its currency; names, notes and notices are left out.      *)
(*                                                                         *)
(* Faulty forms: ItemNeverLocked, PurseNeverLocked, PaidUnchecked.         *)
(***************************************************************************)
EXTENDS Rewards

CONSTANTS
  Requests,       \* requests that may be running at once
  Items,
  Currency,       \* Currency[i]: "COIN" or "STRIKE"
  Prices,
  MaxStock,       \* bound: the stock staff give an item
  MaxOrders,      \* bound: orders made
  MaxEdits        \* bound: staff edits of an item

ASSUME ShopAssumption ==
  /\ Currency \in [Items -> {"COIN", "STRIKE"}]
  /\ Prices \subseteq Nat \ {0}
  /\ {MaxStock, MaxOrders, MaxEdits} \subseteq Nat

VARIABLES
  items,        \* items[i]: the ShopItem row
  orders,       \* orders[o]: the ShopOrder row with id o
  txs,          \* txs[t]: the request running in slot t
  edit,         \* the staff edit between its read and its save
  edits,        \* staff edits begun
  shelved,      \* history: things put on the shelf, less those taken off it
  clobbered,    \* history: items whose stock an edit saved from an old copy
  broken        \* history: students whose streak shrank below what they spent

shopVars == <<items, orders, txs, edit, edits, shelved, clobbered, broken>>
vars == <<rewardsVars, shopVars>>

OrderIds == 1 .. MaxOrders
Absent == [shelf |-> "absent", stock |-> 0, price |-> 0]
Item == [shelf : {"absent", "active", "hidden"}, stock : Int, price : Nat]
Unused == [status |-> "unused"]
Order == [status : {"PENDING", "FULFILLED", "CANCELLED"},
          student : Students, item : Items, price : Nat]

Idle == [op |-> "idle"]
Buying(s, i) == [op |-> "purchase", student |-> s, item |-> i, copy |-> items[i]]
Cancelling(o) == [op |-> "cancel", order |-> o]
Refunding(o, p) == [op |-> "refund", order |-> o, purse |-> p]
NoEdit == [item |-> {}]

TypeOK ==
  /\ RewardsTypeOK
  /\ items \in [Items -> Item]
  /\ orders \in [OrderIds -> Order \cup {Unused}]
  /\ \A t \in Requests :
       \/ txs[t] = Idle
       \/ \E s \in Students, i \in Items : txs[t] = Buying(s, i)
       \/ \E o \in OrderIds :
            /\ orders[o].status = "PENDING"
            /\ \/ txs[t] = Cancelling(o)
               \/ txs[t].op = "refund" /\ txs[t].order = o
  /\ shelved \in [Items -> Int]

Init ==
  /\ RewardsInit
  /\ items = [i \in Items |-> Absent]
  /\ orders = [o \in OrderIds |-> Unused]
  /\ txs = [t \in Requests |-> Idle]
  /\ edit = NoEdit
  /\ edits = 0
  /\ shelved = [i \in Items |-> 0]
  /\ clobbered = {}
  /\ broken = {}

----------------------------------------------------------------------------
(* Who holds which row.                                                    *)

Payer(o) == orders[o].student
CurrencyOf(o) == Currency[orders[o].item]

ItemNeverLocked(i) == FALSE
PurseNeverLocked(s, c) == FALSE

ItemLocked(i) == \E t \in Requests : txs[t].op = "purchase" /\ txs[t].item = i
OrderLocked(o) ==
  \E t \in Requests : txs[t].op \in {"cancel", "refund"} /\ txs[t].order = o
PurseLocked(s, c) ==
  \E t \in Requests : /\ txs[t].op = "refund"
                      /\ Payer(txs[t].order) = s
                      /\ CurrencyOf(txs[t].order) = c

Live(i) ==
  {o \in OrderIds : /\ orders[o].status \in {"PENDING", "FULFILLED"}
                    /\ orders[o].item = i}
Running(op) == {t \in Requests : txs[t].op = op}

----------------------------------------------------------------------------
(* purchase: lock the item, check it, take the currency, take the stock.   *)

LockItem(t, s, i) ==
  /\ txs[t] = Idle
  /\ Cardinality({o \in OrderIds : orders[o] = Unused}) > Cardinality(Running("purchase"))
  /\ ~ItemLocked(i)
  /\ items[i].shelf = "active"
  /\ items[i].stock > 0
  /\ txs' = [txs EXCEPT ![t] = Buying(s, i)]
  /\ UNCHANGED <<rewardsVars, items, orders, edit, edits, shelved, clobbered, broken>>

PaidUnchecked(s, c, n) == TRUE
\* coins.spend and strikes.spend refuse what the balance does not cover.
CanPay(s, c, n) ==
  n <= IF c = "COIN" THEN wallets[s] ELSE StrikeBalance(strikes[s])

Pay(t) ==
  /\ txs[t].op = "purchase"
  /\ LET s == txs[t].student
         i == txs[t].item
         n == txs[t].copy.price
     IN  /\ ~PurseLocked(s, Currency[i])
         /\ CanPay(s, Currency[i], n)
         /\ \/ /\ Currency[i] = "COIN"
               /\ wallets' = [wallets EXCEPT ![s] = @ - n]
               /\ UNCHANGED strikes
            \/ /\ Currency[i] = "STRIKE"
               /\ strikes' = [strikes EXCEPT ![s] = StrikesSpent(@, n)]
               /\ UNCHANGED wallets
         /\ items' = [items EXCEPT ![i].stock = txs[t].copy.stock - 1]
         /\ \E o \in OrderIds :
              /\ orders[o] = Unused
              /\ \A p \in 1 .. o - 1 : orders[p] # Unused
              /\ orders' = [orders EXCEPT
                              ![o] = [status |-> "PENDING", student |-> s,
                                      item |-> i, price |-> n]]
  /\ txs' = [txs EXCEPT ![t] = Idle]
  /\ UNCHANGED <<points, credit, register, edit, edits, shelved, clobbered, broken>>

----------------------------------------------------------------------------
(* cancel: lock the order, refund, put the stock back.                     *)

LockOrder(t, o) ==
  /\ txs[t] = Idle
  /\ ~OrderLocked(o)
  /\ orders[o].status = "PENDING"
  /\ txs' = [txs EXCEPT ![t] = Cancelling(o)]
  /\ UNCHANGED <<rewardsVars, items, orders, edit, edits, shelved, clobbered, broken>>

\* The purse after the refund: coins in full, strikes as far as they go.
Refunded(o) ==
  IF CurrencyOf(o) = "COIN" THEN wallets[Payer(o)] + orders[o].price
  ELSE StrikesRefunded(strikes[Payer(o)], orders[o].price)

Refund(t) ==
  /\ txs[t].op = "cancel"
  /\ LET o == txs[t].order
     IN  /\ ~PurseLocked(Payer(o), CurrencyOf(o))
         /\ txs' = [txs EXCEPT ![t] = Refunding(o, Refunded(o))]
  /\ UNCHANGED <<rewardsVars, items, orders, edit, edits, shelved, clobbered, broken>>

Restock(t) ==
  /\ txs[t].op = "refund"
  /\ LET o == txs[t].order
         s == Payer(o)
         i == orders[o].item
     IN  /\ ~ItemLocked(i)
         /\ \/ /\ Currency[i] = "COIN"
               /\ wallets' = [wallets EXCEPT ![s] = txs[t].purse]
               /\ UNCHANGED strikes
            \/ /\ Currency[i] = "STRIKE"
               /\ strikes' = [strikes EXCEPT ![s] = txs[t].purse]
               /\ UNCHANGED wallets
         /\ items' = [items EXCEPT ![i].stock = @ + 1]
         /\ orders' = [orders EXCEPT ![o].status = "CANCELLED"]
  /\ txs' = [txs EXCEPT ![t] = Idle]
  /\ UNCHANGED <<points, credit, register, edit, edits, shelved, clobbered, broken>>

\* Refused for want of coins, dead, or the victim of a deadlock.
RollBack(t) ==
  /\ txs[t] # Idle
  /\ txs' = [txs EXCEPT ![t] = Idle]
  /\ UNCHANGED <<rewardsVars, items, orders, edit, edits, shelved, clobbered, broken>>

Fulfil(o) ==
  /\ ~OrderLocked(o)
  /\ orders[o].status = "PENDING"
  /\ orders' = [orders EXCEPT ![o].status = "FULFILLED"]
  /\ UNCHANGED <<rewardsVars, items, txs, edit, edits, shelved, clobbered, broken>>

----------------------------------------------------------------------------
(* The staff's items.                                                      *)

Stocked(i, n) == [shelved EXCEPT ![i] = n + Cardinality(Live(i))]

CreateItem(i, n, p) ==
  /\ items[i] = Absent
  /\ edit.item # {i}
  /\ items' = [items EXCEPT ![i] = [shelf |-> "active", stock |-> n, price |-> p]]
  /\ shelved' = [shelved EXCEPT ![i] = n]
  /\ clobbered' = clobbered \ {i}
  /\ UNCHANGED <<rewardsVars, orders, txs, edit, edits, broken>>

\* delete: an item somebody ordered is hidden, in that column only.
RemoveItem(i) ==
  /\ items[i] # Absent
  /\ ~ItemLocked(i)
  /\ \/ /\ \E o \in OrderIds : orders[o] # Unused /\ orders[o].item = i
        /\ items' = [items EXCEPT ![i].shelf = "hidden"]
        /\ UNCHANGED <<shelved, clobbered>>
     \/ /\ \A o \in OrderIds : orders[o] # Unused => orders[o].item # i
        /\ items' = [items EXCEPT ![i] = Absent]
        /\ shelved' = [shelved EXCEPT ![i] = 0]
        /\ clobbered' = clobbered \ {i}
  /\ UNCHANGED <<rewardsVars, orders, txs, edit, edits, broken>>

ReadItem(i) ==
  /\ edit = NoEdit
  /\ edits < MaxEdits
  /\ items[i] # Absent
  /\ edit' = [item |-> {i}, copy |-> items[i]]
  /\ edits' = edits + 1
  /\ UNCHANGED <<rewardsVars, items, orders, txs, shelved, clobbered, broken>>

\* patch: the stock, or another column and the stock that was read.
SaveItem(i) ==
  /\ edit.item = {i}
  /\ ~ItemLocked(i)
  /\ edit' = NoEdit
  /\ \/ \E n \in 0 .. MaxStock :
          /\ items' = [items EXCEPT ![i] = [edit.copy EXCEPT !.stock = n]]
          /\ shelved' = Stocked(i, n)
          /\ clobbered' = clobbered \ {i}
     \/ /\ \/ \E p \in Prices :
                items' = [items EXCEPT ![i] = [edit.copy EXCEPT !.price = p]]
           \/ \E h \in {"active", "hidden"} :
                items' = [items EXCEPT ![i] = [edit.copy EXCEPT !.shelf = h]]
        /\ clobbered' = IF edit.copy.stock = items[i].stock THEN clobbered
                        ELSE clobbered \cup {i}
        /\ UNCHANGED shelved
  /\ UNCHANGED <<rewardsVars, orders, txs, edits, broken>>

----------------------------------------------------------------------------

Rewarding ==
  \/ \E s \in Students :
       /\ \/ \E p \in 1 .. Earned(s) : Convert(s, p)
          \/ \E n \in 1 .. MaxCoins : DeskTake(s, n) \/ DeskGive(s, n)
       /\ ~PurseLocked(s, "COIN")
       /\ UNCHANGED broken
  \/ \E s \in Students, l \in 1 .. Lessons, mark \in Marks, v \in Values :
       /\ ~PurseLocked(s, "STRIKE")
       /\ Mark(s, l, mark, v)
       /\ broken' = IF strikes'[s].spent = strikes[s].spent THEN broken
                    ELSE broken \cup {s}
  \/ /\ \/ \E s \in Students, w \in Works :
             Withdraw(s, w) \/ \E v \in Values : Award(s, w, v)
        \/ \E s \in Students, l \in 1 .. Lessons : Unmark(s, l)
        \/ NewSeason
     /\ UNCHANGED broken

Trading ==
  \/ \E t \in Requests :
       \/ \E s \in Students, i \in Items : LockItem(t, s, i)
       \/ \E o \in OrderIds : LockOrder(t, o)
       \/ Pay(t) \/ Refund(t) \/ Restock(t) \/ RollBack(t)
  \/ \E o \in OrderIds : Fulfil(o)

Stocking ==
  \E i \in Items :
    \/ \E n \in 0 .. MaxStock, p \in Prices : CreateItem(i, n, p)
    \/ RemoveItem(i) \/ ReadItem(i) \/ SaveItem(i)

Next ==
  \/ Rewarding /\ UNCHANGED <<items, orders, txs, edit, edits, shelved, clobbered>>
  \/ Trading
  \/ Stocking

Spec == Init /\ [][Next]_vars

----------------------------------------------------------------------------
(* What the shop promises.                                                 *)

LiveOf(s, c) ==
  {o \in OrderIds : /\ orders[o].status \in {"PENDING", "FULFILLED"}
                    /\ Payer(o) = s
                    /\ CurrencyOf(o) = c}
Paid(s, c) == Total([o \in OrderIds |-> orders[o].price], LiveOf(s, c))

\* What is on the shelf and what live orders hold is what was put there:
\* purchase takes one off, cancel puts it back, whatever runs in between,
\* except where a staff edit saved an old count (shop/services.py:43).
StockKept ==
  \A i \in Items \ clobbered :
    items[i].stock + Cardinality(Live(i)) = shelved[i]

\* Coins are neither made nor lost by the shop: what a student got is in the
\* wallet or paid for a live order, at the price of the day it was bought.
CoinsKept ==
  \A s \in Students : wallets[s] + Paid(s, "COIN") = credit[s]

\* A student never owes strikes; and while the streak has not shrunk below
\* what was spent of it, what is spent is the price of the live orders.
NoStrikesOwed == \A s \in Students : strikes[s].spent <= strikes[s].current
StrikesKept ==
  /\ NoStrikesOwed
  /\ \A s \in Students : s \in broken \/ strikes[s].spent = Paid(s, "STRIKE")

\* No point of a season is turned into coins twice, whatever is corrected or
\* withdrawn after its conversion: a season's conversions never cost more
\* than its facts were ever worth in it (rewards/coins.py:104).
PointsPaidOnce ==
  \A s \in Students, n \in Seasons :
    debits[s][n] <= Total([f \in Facts |-> peak[s][f][n]], Facts)

\* "Lock order is stock, then wallet.  Always, in every function here"
\* (shop/services.py:8): no two requests wait for each other's row.
WantsPurse(t, s, c) ==
  \/ /\ txs[t].op = "purchase"
     /\ txs[t].student = s
     /\ Currency[txs[t].item] = c
  \/ /\ txs[t].op = "cancel"
     /\ Payer(txs[t].order) = s
     /\ CurrencyOf(txs[t].order) = c
NoDeadlock ==
  \A t, u \in Requests :
    (txs[t].op = "refund" /\ txs[u].op = "purchase") =>
      LET o == txs[t].order
      IN  \/ orders[o].item # txs[u].item
          \/ ~WantsPurse(u, Payer(o), CurrencyOf(o))

=============================================================================
