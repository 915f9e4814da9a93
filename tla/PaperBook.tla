----------------------------- MODULE PaperBook -----------------------------
(***************************************************************************)
(* The paper portfolio (services/portfolio.py): the API (main.py,          *)
(* paper_order) and the research task (worker.py, auto_paper_trade) turn   *)
(* recommendations into buy orders.  snapshot() only adds the orders up,   *)
(* so the book is what they add up to: the quantity held of each asset and *)
(* the cash left.  Nothing locks it between a snapshot and a save.         *)
(*                                                                         *)
(* Money is in whole dollars and weights in per cent: where the code       *)
(* divides two floats, the model multiplies by 100.  Every asset is quoted *)
(* in dollars, so _fx_to_usd is 1.                                         *)
(***************************************************************************)
EXTENDS Integers, Sequences, FiniteSets, FiniteSetsExt

CONSTANTS
  Buyer,             \* requests and research tasks in flight
  Equity, Crypto,    \* the assets of each class
  Price,             \* the prices a provider may quote
  FirstQuote,        \* [Asset -> the first price quoted]
  LotOf,             \* [Equity \union Crypto -> lot size]
  CostBps,           \* [Equity \union Crypto -> cost in basis points]
  InitialCash, MinimumCash, MaxEquity, MaxCrypto, MaxTotalCrypto,
  Target,            \* target weights an API caller may ask for
  MaxOrders,         \* bound: orders in the book
  MaxMoves           \* bound: how often a price moves

Asset == Equity \union Crypto
Idle == [asset |-> "none"]

VARIABLES
  held,      \* quantity of each asset over all orders
  cash,      \* initial cash less every order and fee
  quote,     \* the provider's price of each asset
  buyer,     \* what each caller of create_from_recommendation holds
  count,     \* orders saved
  moves

bookVars == <<held, cash, quote, buyer, count, moves>>

Init ==
  /\ held = [a \in Asset |-> 0] /\ cash = InitialCash
  /\ quote = FirstQuote
  /\ buyer = [b \in Buyer |-> Idle]
  /\ count = 0 /\ moves = 0

-----------------------------------------------------------------------------
Value(a) == held[a] * quote[a]
Nav == cash + MapThenSumSet(Value, Asset)
CryptoValue == MapThenSumSet(Value, Crypto)

Snapshot(a) ==
  [cash |-> cash, nav |-> Nav, value |-> Value(a), crypto |-> CryptoValue]

Room(x) == IF x < 0 THEN 0 ELSE x
MaxWeight(a) == IF a \in Crypto THEN MaxCrypto ELSE MaxEquity
Weight(a, target) == Min({IF target = 0 THEN MaxWeight(a) ELSE target, MaxWeight(a)})

\* Defect: the total of all crypto positions is not looked at.
ToUseEachAlone(s, a, target) ==
  Min({Room(Weight(a, target) * s.nav - 100 * s.value),
         Room(100 * s.cash - MinimumCash * s.nav)})

\* usd_to_use, times 100.
ToUse(s, a, target) ==
  Min({Room(Weight(a, target) * s.nav - 100 * s.value),
         Room(100 * s.cash - MinimumCash * s.nav)}
        \union (IF a \in Crypto
                THEN {Room(MaxTotalCrypto * s.nav - 100 * s.crypto)} ELSE {}))

Quantity(s, a, target, price) ==
  ((ToUse(s, a, target) \div (100 * price)) \div LotOf[a]) * LotOf[a]

Fee(a, n, price) == (n * price * CostBps[a]) \div 10000

-----------------------------------------------------------------------------
\* A caller takes its snapshot.  An API caller names a price and perhaps a
\* target weight; the research task takes the provider's price and no target.
Look(b, a, target, price) ==
  /\ buyer[b] = Idle /\ count < MaxOrders
  /\ buyer' = [buyer EXCEPT ![b] =
       [asset |-> a, target |-> target, price |-> price, seen |-> Snapshot(a)]]
  /\ UNCHANGED <<held, cash, quote, count, moves>>

Wanted(w) == Quantity(w.seen, w.asset, w.target, w.price)

\* The limits leave room for a lot: the order is saved.
Buy(b) ==
  /\ buyer[b] # Idle /\ count < MaxOrders
  /\ LET w == buyer[b]
         n == Wanted(w)
     IN  /\ n > 0
         /\ held' = [held EXCEPT ![w.asset] = @ + n]
         /\ cash' = cash - n * w.price - Fee(w.asset, n, w.price)
  /\ buyer' = [buyer EXCEPT ![b] = Idle]
  /\ count' = count + 1
  /\ UNCHANGED <<quote, moves>>

\* They do not: PortfolioError.
Refuse(b) ==
  /\ buyer[b] # Idle
  /\ Wanted(buyer[b]) <= 0
  /\ buyer' = [buyer EXCEPT ![b] = Idle]
  /\ UNCHANGED <<held, cash, quote, count, moves>>

\* The market, which the code reads through current_price.
PriceMoves(a, p) ==
  /\ moves < MaxMoves /\ p # quote[a]
  /\ quote' = [quote EXCEPT ![a] = p]
  /\ moves' = moves + 1
  /\ UNCHANGED <<held, cash, buyer, count>>

Next ==
  \/ \E b \in Buyer :
       \/ \E a \in Asset, t \in Target, p \in Price : Look(b, a, t, p)
       \/ Buy(b) \/ Refuse(b)
  \/ \E a \in Asset, p \in Price : PriceMoves(a, p)

-----------------------------------------------------------------------------
\* An order whose snapshot is still true when it is saved keeps every limit of
\* the configuration at the price it pays: the weight of its asset, the total
\* of all crypto positions and the cash floor, which only the fee may touch
\* (portfolio.py, create_from_recommendation).  Racing buyers can break them.
OrderWithinLimits ==
  [][\A b \in Buyer :
       count' # count /\ buyer[b] # Idle /\ buyer'[b] = Idle
       /\ buyer[b].seen = Snapshot(buyer[b].asset) =>
         LET a == buyer[b].asset
             n == held'[a] - held[a]
             paid == n * buyer[b].price
         IN  /\ 100 * (Value(a) + paid) <= MaxWeight(a) * Nav
             /\ a \in Crypto => 100 * (CryptoValue + paid) <= MaxTotalCrypto * Nav
             /\ 100 * (cash' + Fee(a, n, buyer[b].price)) >= MinimumCash * Nav]_bookVars
=============================================================================
