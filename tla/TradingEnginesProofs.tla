------------------------ MODULE TradingEnginesProofs ------------------------
(***************************************************************************)
(* Theorems about the matching engines, for any symbols, currencies,       *)
(* prices, amounts, slippage and number of orders.                         *)
(***************************************************************************)
EXTENDS TradingEngines, FiniteSetTheorems, SequenceTheorems, TLAPS

\* The lemmas about the accounts table and about sums.
LP == INSTANCE OrderLedgerProofs WITH
        Requests <- {}, TradePrice <- Nat \ {0}, Deposits <- {},
        MaxBalance <- 0, MaxTrades <- 0

-----------------------------------------------------------------------------
(***************************************************************************)
(* The helpers of AccountService, one column at a time                     *)
(***************************************************************************)
\* One column of a table that may have no row for c.
BalanceOf(acc, c) == IF c \in DOMAIN acc THEN acc[c].balance ELSE 0
FreeOf(acc, c) == IF c \in DOMAIN acc THEN acc[c].available ELSE 0
FrozenOf(acc, c) == IF c \in DOMAIN acc THEN acc[c].frozen ELSE 0

Sound(acc) == IsAccounts(acc) /\ Balanced(acc)

\* The three columns of the row of c moved by b, a and f; no other row moved.
Moved(acc, new, c, b, a, f) ==
  /\ DOMAIN new = DOMAIN acc
  /\ new[c].balance = acc[c].balance + b
  /\ new[c].available = acc[c].available + a
  /\ new[c].frozen = acc[c].frozen + f
  /\ \A d \in DOMAIN acc : d # c => new[d] = acc[d]

\* The columns of an account row are natural numbers.
LEMMA Columns ==
  ASSUME NEW acc, Sound(acc), NEW c \in DOMAIN acc
  PROVE  /\ c \in Currency
         /\ acc[c].balance \in Nat
         /\ acc[c].available \in Nat
         /\ acc[c].frozen \in Nat
  BY DEF Sound, IsAccounts, Account

LEMMA FreezeMoves ==
  ASSUME NEW acc, Sound(acc), NEW c, NEW n \in Nat, CanFreeze(acc, c, n)
  PROVE  Sound(Freeze(acc, c, n)) /\ Moved(acc, Freeze(acc, c, n), c, 0, -n, n)
  <1>1. Sound(Freeze(acc, c, n)) /\ LP!RowBecomes(acc, Freeze(acc, c, n), c,
          [balance   |-> acc[c].balance,
           available |-> acc[c].available - n,
           frozen    |-> acc[c].frozen + n])
    BY LP!FreezeRow, SymbolAssumption, NoPriceAssumption
    DEF Sound, IsAccounts, Account, Balanced, Freeze, UpdateAccount, CanFreeze,
        LP!IsAccounts, LP!Account, LP!Balanced, LP!Freeze, LP!UpdateAccount, LP!CanFreeze
  <1>2. c \in DOMAIN acc
    BY DEF CanFreeze
  <1> QED
    BY <1>1, <1>2, Columns DEF LP!RowBecomes, Moved

LEMMA ReleaseMoves ==
  ASSUME NEW acc, Sound(acc), NEW c, NEW n \in Nat, CanRelease(acc, c, n)
  PROVE  Sound(Release(acc, c, n)) /\ Moved(acc, Release(acc, c, n), c, 0, n, -n)
  <1>1. Sound(Release(acc, c, n)) /\ LP!RowBecomes(acc, Release(acc, c, n), c,
          [balance   |-> acc[c].balance,
           available |-> acc[c].available + n,
           frozen    |-> acc[c].frozen - n])
    BY LP!ReleaseRow, SymbolAssumption, NoPriceAssumption
    DEF Sound, IsAccounts, Account, Balanced, Release, UpdateAccount, CanRelease,
        LP!IsAccounts, LP!Account, LP!Balanced, LP!Release, LP!UpdateAccount,
        LP!CanRelease
  <1>2. c \in DOMAIN acc
    BY DEF CanRelease
  <1> QED
    BY <1>1, <1>2, Columns DEF LP!RowBecomes, Moved

LEMMA ConsumeFrozenMoves ==
  ASSUME NEW acc, Sound(acc), NEW c, NEW n \in Nat, CanConsumeFrozen(acc, c, n)
  PROVE  /\ Sound(ConsumeFrozen(acc, c, n))
         /\ Moved(acc, ConsumeFrozen(acc, c, n), c, -n, 0, -n)
  <1>1. Sound(ConsumeFrozen(acc, c, n))
        /\ LP!RowBecomes(acc, ConsumeFrozen(acc, c, n), c,
             [balance   |-> acc[c].balance - n,
              available |-> acc[c].available,
              frozen    |-> acc[c].frozen - n])
    BY LP!ConsumeFrozenRow, SymbolAssumption, NoPriceAssumption
    DEF Sound, IsAccounts, Account, Balanced, ConsumeFrozen, UpdateAccount,
        CanConsumeFrozen, CanRelease, LP!IsAccounts, LP!Account, LP!Balanced,
        LP!ConsumeFrozen, LP!UpdateAccount, LP!CanConsumeFrozen, LP!CanRelease
  <1>2. c \in DOMAIN acc
    BY DEF CanConsumeFrozen, CanRelease
  <1> QED
    BY <1>1, <1>2, Columns DEF LP!RowBecomes, Moved

LEMMA ConsumeAvailableMoves ==
  ASSUME NEW acc, Sound(acc), NEW c, NEW n \in Nat, CanConsumeAvailable(acc, c, n)
  PROVE  /\ Sound(ConsumeAvailable(acc, c, n))
         /\ Moved(acc, ConsumeAvailable(acc, c, n), c, -n, -n, 0)
  <1>1. Sound(ConsumeAvailable(acc, c, n))
        /\ LP!RowBecomes(acc, ConsumeAvailable(acc, c, n), c,
             [balance   |-> acc[c].balance - n,
              available |-> acc[c].available - n,
              frozen    |-> acc[c].frozen])
    BY LP!ConsumeAvailableRow, SymbolAssumption, NoPriceAssumption
    DEF Sound, IsAccounts, Account, Balanced, ConsumeAvailable, UpdateAccount,
        CanConsumeAvailable, CanFreeze, LP!IsAccounts, LP!Account, LP!Balanced,
        LP!ConsumeAvailable, LP!UpdateAccount, LP!CanConsumeAvailable, LP!CanFreeze
  <1>2. c \in DOMAIN acc
    BY DEF CanConsumeAvailable, CanFreeze
  <1> QED
    BY <1>1, <1>2, Columns DEF LP!RowBecomes, Moved

LEMMA CreditMoves ==
  ASSUME NEW acc, Sound(acc), NEW c \in DOMAIN acc, NEW n \in Nat
  PROVE  Sound(Credit(acc, c, n)) /\ Moved(acc, Credit(acc, c, n), c, n, n, 0)
  <1>1. Sound(Credit(acc, c, n)) /\ LP!RowBecomes(acc, Credit(acc, c, n), c,
          [balance   |-> acc[c].balance + n,
           available |-> acc[c].available + n,
           frozen    |-> acc[c].frozen])
    BY LP!CreditRow, SymbolAssumption, NoPriceAssumption
    DEF Sound, IsAccounts, Account, Balanced, Credit, UpdateAccount,
        LP!IsAccounts, LP!Account, LP!Balanced, LP!Credit, LP!UpdateAccount, LP!CanCredit
  <1> QED
    BY <1>1, Columns DEF LP!RowBecomes, Moved

\* initialize_accounts adds an empty row and leaves every existing row alone.
LEMMA OpenMoves ==
  ASSUME NEW acc, Sound(acc), NEW c \in Currency
  PROVE  /\ Sound(OpenAccount(acc, c, 0))
         /\ DOMAIN OpenAccount(acc, c, 0) = DOMAIN acc \cup {c}
         /\ \A d \in Currency :
              /\ BalanceOf(OpenAccount(acc, c, 0), d) = BalanceOf(acc, d)
              /\ FreeOf(OpenAccount(acc, c, 0), d) = FreeOf(acc, d)
              /\ FrozenOf(OpenAccount(acc, c, 0), d) = FrozenOf(acc, d)
  BY DEF Sound, IsAccounts, Account, Balanced, OpenAccount, BalanceOf, FreeOf, FrozenOf

-----------------------------------------------------------------------------
(***************************************************************************)
(* Sums                                                                    *)
(***************************************************************************)
\* The two modules count alike.
LEMMA SameCardinality ==
  ASSUME NEW S
  PROVE  LP!Cardinality(S) = Cardinality(S)
  BY DEF Cardinality, LP!Cardinality

LEMMA SameFinite ==
  ASSUME NEW S
  PROVE  LP!IsFiniteSet(S) = IsFiniteSet(S)
  BY DEF IsFiniteSet, LP!IsFiniteSet

LEMMA SameUnits ==
  ASSUME NEW f
  PROVE  LP!Units(f) = Units(f) /\ LP!Total(f) = Total(f)
  <1>1. LP!Units(f) = Units(f)
    BY DEF Units, LP!Units
  <1> QED
    BY <1>1, SameCardinality DEF Total, LP!Total

LEMMA TotalUpdate ==
  ASSUME NEW f, NEW g, NEW x,
         DOMAIN g = DOMAIN f \cup {x},
         \A y \in DOMAIN f : y # x => g[y] = f[y],
         g[x] \in Nat,
         x \in DOMAIN f => f[x] \in Nat,
         IsFiniteSet(Units(f))
  PROVE  /\ IsFiniteSet(Units(g))
         /\ Total(g) = Total(f) - (IF x \in DOMAIN f THEN f[x] ELSE 0) + g[x]
  <1>1. LP!IsFiniteSet(LP!Units(f)) /\ LP!Units(g) = Units(g) /\ LP!Total(g) = Total(g)
        /\ LP!Total(f) = Total(f)
    BY SameUnits, SameFinite
  <1>2. /\ LP!IsFiniteSet(LP!Units(g))
        /\ LP!Total(g) = LP!Total(f) - (IF x \in DOMAIN f THEN f[x] ELSE 0) + g[x]
    BY <1>1, LP!TotalUpdate, SymbolAssumption, NoPriceAssumption
  <1> QED
    BY <1>1, <1>2, SameFinite

LEMMA TotalZero ==
  ASSUME NEW f, \A x \in DOMAIN f : f[x] = 0
  PROVE  IsFiniteSet(Units(f)) /\ Total(f) = 0
  <1>1. Units(f) = {}
    BY DEF Units
  <1> QED
    BY <1>1, FS_EmptySet DEF Total

\* A total is a natural number, and no entry is above it.
LEMMA TotalBounds ==
  ASSUME NEW f, IsFiniteSet(Units(f))
  PROVE  /\ Total(f) \in Nat
         /\ \A x \in DOMAIN f : f[x] \in Nat => f[x] <= Total(f)
  <1>1. Total(f) \in Nat
    BY FS_CardinalityType DEF Total
  <1>2. ASSUME NEW x \in DOMAIN f, f[x] \in Nat
        PROVE  f[x] <= Total(f)
    <2>1. LP!IsFiniteSet(LP!Units(f)) /\ LP!Total(f) = Total(f)
      BY SameUnits, SameFinite
    <2> QED
      BY <1>2, <2>1, LP!UnitsSplit, SymbolAssumption, NoPriceAssumption
  <1> QED
    BY <1>1, <1>2

-----------------------------------------------------------------------------
(***************************************************************************)
(* The ledger part of the inductive invariant                              *)
(***************************************************************************)
\* Every order waits untouched, is filled at once or was canceled unfilled; its
\* price is a number, one of Price unless it is a market order.
Row(o) ==
  /\ o \in Order
  /\ o.request.price \in Nat \ {0}
  /\ o.request.type # "market" => o.request.price \in Price
  /\ \/ o.status \in {"open", "canceled"} /\ o.filled = 0
     \/ o.status = "filled" /\ o.filled = o.request.amount

\* Orders are numbered without gaps, so a fresh id is a new one.
Numbered(ids) == \E n \in Nat : ids = 1..n

\* The two currencies of an order have accounts.
HasAccounts(acc, o) ==
  {Base[o.request.symbol], Quote[o.request.symbol]} \subseteq DOMAIN acc

Rows ==
  /\ Numbered(DOMAIN orders)
  /\ \A i \in DOMAIN orders : Row(orders[i]) /\ HasAccounts(accounts, orders[i])

\* What an order claims of currency c: the whole cost of an open buy.
Claim(o, c) ==
  IF IsBuy(o) /\ o.status = "open" /\ Quote[o.request.symbol] = c
  THEN Cost(o, o.request.amount) ELSE 0

Claims(c) == [i \in DOMAIN orders |-> Claim(orders[i], c)]

\* FrozenIsHeld, for every currency: without an account there is no claim.
Frozen ==
  \A c \in Currency :
    /\ IsFiniteSet(Units(Claims(c)))
    /\ FrozenOf(accounts, c) = Total(Claims(c))

LedgerInv == TypeOK /\ Sound(accounts) /\ Rows /\ Frozen

\* A row's columns.
LEMMA RowFields ==
  ASSUME NEW o, Row(o)
  PROVE  /\ o.request \in Request
         /\ o.request.symbol \in Symbol
         /\ o.request.side \in OrderSide
         /\ o.request.type \in OrderType
         /\ o.request.price \in Nat \ {0}
         /\ o.request.amount \in Nat \ {0}
         /\ o.filled \in Nat
         /\ o.status \in OrderStatus
         /\ Base[o.request.symbol] \in Currency
         /\ Quote[o.request.symbol] \in Currency
         /\ Base[o.request.symbol] # Quote[o.request.symbol]
         /\ ~IsBuy(o) => o.request.side = "sell"
  BY SymbolAssumption DEF Row, Order, Request, OrderSide, IsBuy

\* A product of natural numbers is one, and positive when they are.
LEMMA Product ==
  ASSUME NEW a \in Nat, NEW b \in Nat
  PROVE  a * b \in Nat /\ (a > 0 /\ b > 0 => a * b > 0)
  OBVIOUS

\* The cost of n units of an order.
LEMMA CostIsNat ==
  ASSUME NEW o, Row(o), NEW n \in Nat
  PROVE  Cost(o, n) \in Nat /\ (n > 0 => Cost(o, n) > 0)
  <1>1. o.request.price \in Nat /\ o.request.price > 0
    BY RowFields
  <1> QED
    BY <1>1, Product DEF Cost

\* A claim is a natural number.
LEMMA ClaimIsNat ==
  ASSUME NEW o, Row(o), NEW c
  PROVE  Claim(o, c) \in Nat
  <1>1. o.request.amount \in Nat
    BY RowFields
  <1> QED
    BY <1>1, CostIsNat DEF Claim

\* A refund is what the cost frozen at the limit is above the worth at p.
LEMMA RefundIsNat ==
  ASSUME NEW o, Row(o), o.status = "open", NEW p \in Nat \ {0}
  PROVE  Refund(o, p) \in Nat
  <1>1. Rest(o) \in Nat
    BY RowFields DEF Rest, Row
  <1>2. p < o.request.price => o.request.price - p \in Nat
    BY RowFields
  <1> QED
    BY <1>1, <1>2, Product DEF Refund

-----------------------------------------------------------------------------
(***************************************************************************)
(* What a fill does to the accounts                                        *)
(***************************************************************************)
\* An open order is filled as a whole.
LEMMA OpenRest ==
  ASSUME NEW o, Row(o), o.status = "open"
  PROVE  o.filled = 0 /\ Rest(o) = o.request.amount /\ Rest(o) \in Nat \ {0}
  BY RowFields DEF Row, Rest

\* A buy pays its cost out of the frozen money, gets the refund back and the
\* amount in the base currency.
LEMMA BuyMoves ==
  ASSUME NEW acc, Sound(acc), NEW o, Row(o), o.status = "open", IsBuy(o),
         CanFill(acc, o), NEW p \in Nat \ {0}
  PROVE  LET s   == o.request.symbol
             b   == Base[s]
             q   == Quote[s]
             n   == o.request.amount
             new == FillAccounts(acc, o, p)
         IN  /\ Sound(new)
             /\ DOMAIN new = DOMAIN acc
             /\ new[b].balance = acc[b].balance + n
             /\ new[b].frozen = acc[b].frozen
             /\ new[q].balance = acc[q].balance - Cost(o, n) + Refund(o, p)
             /\ new[q].frozen = acc[q].frozen - Cost(o, n)
             /\ \A d \in DOMAIN acc : d # b /\ d # q => new[d] = acc[d]
  <1> DEFINE s  == o.request.symbol
             b  == Base[s]
             q  == Quote[s]
             n  == o.request.amount
             a1 == ConsumeFrozen(acc, q, Cost(o, n))
             a2 == Credit(a1, b, n)
             a3 == Credit(a2, q, Refund(o, p))
  <1>1. /\ n \in Nat \ {0} /\ Rest(o) = n
        /\ Cost(o, n) \in Nat
        /\ Refund(o, p) \in Nat
        /\ b # q
    BY OpenRest, RowFields, CostIsNat, RefundIsNat
  <1>2. /\ b \in DOMAIN acc /\ q \in DOMAIN acc
        /\ CanConsumeFrozen(acc, q, Cost(o, n))
    BY <1>1 DEF CanFill
  <1>3. FillAccounts(acc, o, p) = a3
    BY <1>1 DEF FillAccounts, L!TradeCost, L!Cost, Cost
  <1> HIDE DEF s, b, q, n
  <1>4. Sound(a1) /\ Moved(acc, a1, q, - Cost(o, n), 0, - Cost(o, n))
    BY <1>1, <1>2, ConsumeFrozenMoves
  <1>5. b \in DOMAIN a1 /\ q \in DOMAIN a1
    BY <1>2, <1>4 DEF Moved
  <1> HIDE DEF a1
  <1>6. Sound(a2) /\ Moved(a1, a2, b, n, n, 0)
    BY <1>1, <1>4, <1>5, CreditMoves
  <1>7. b \in DOMAIN a2 /\ q \in DOMAIN a2
    BY <1>5, <1>6 DEF Moved
  <1> HIDE DEF a2
  <1>8. Sound(a3) /\ Moved(a2, a3, q, Refund(o, p), Refund(o, p), 0)
    BY <1>1, <1>6, <1>7, CreditMoves
  <1> HIDE DEF a3
  <1>9. /\ acc[b].balance \in Nat /\ acc[b].frozen \in Nat
        /\ acc[q].balance \in Nat /\ acc[q].frozen \in Nat
    BY <1>2, Columns
  <1>10. /\ DOMAIN a3 = DOMAIN acc
         /\ a3[b].balance = acc[b].balance + n
         /\ a3[b].frozen = acc[b].frozen
         /\ a3[q].balance = acc[q].balance - Cost(o, n) + Refund(o, p)
         /\ a3[q].frozen = acc[q].frozen - Cost(o, n)
         /\ \A d \in DOMAIN acc : d # b /\ d # q => a3[d] = acc[d]
    BY <1>1, <1>2, <1>4, <1>6, <1>8, <1>9 DEF Moved
  <1> QED
    BY <1>3, <1>8, <1>10 DEF s, b, q, n

\* A sell gives the amount from the free base currency for its worth at p.
LEMMA SellMoves ==
  ASSUME NEW acc, Sound(acc), NEW o, Row(o), o.status = "open", ~IsBuy(o),
         CanFill(acc, o), NEW p \in Nat \ {0}
  PROVE  LET s   == o.request.symbol
             b   == Base[s]
             q   == Quote[s]
             n   == o.request.amount
             new == FillAccounts(acc, o, p)
         IN  /\ Sound(new)
             /\ DOMAIN new = DOMAIN acc
             /\ new[b].balance = acc[b].balance - n
             /\ new[b].available = acc[b].available - n
             /\ new[b].frozen = acc[b].frozen
             /\ new[q].balance = acc[q].balance + n * p
             /\ new[q].frozen = acc[q].frozen
             /\ \A d \in DOMAIN acc : d # b /\ d # q => new[d] = acc[d]
  <1> DEFINE s  == o.request.symbol
             b  == Base[s]
             q  == Quote[s]
             n  == o.request.amount
             w  == n * p
             a1 == ConsumeAvailable(acc, b, n)
             a2 == Credit(a1, q, w)
  <1>1. n \in Nat \ {0} /\ Rest(o) = n /\ w \in Nat /\ b # q
    BY OpenRest, RowFields, Product
  <1>2. /\ b \in DOMAIN acc /\ q \in DOMAIN acc
        /\ CanConsumeAvailable(acc, b, n)
    BY <1>1 DEF CanFill
  <1>3. FillAccounts(acc, o, p) = a2
    BY <1>1 DEF FillAccounts
  <1> HIDE DEF s, b, q, n, w
  <1>4. Sound(a1) /\ Moved(acc, a1, b, -n, -n, 0)
    BY <1>1, <1>2, ConsumeAvailableMoves
  <1>5. b \in DOMAIN a1 /\ q \in DOMAIN a1
    BY <1>2, <1>4 DEF Moved
  <1> HIDE DEF a1
  <1>6. Sound(a2) /\ Moved(a1, a2, q, w, w, 0)
    BY <1>1, <1>4, <1>5, CreditMoves
  <1> HIDE DEF a2
  <1>7. /\ acc[b].balance \in Nat /\ acc[b].available \in Nat /\ acc[b].frozen \in Nat
        /\ acc[q].balance \in Nat /\ acc[q].frozen \in Nat
    BY <1>2, Columns
  <1>8. /\ DOMAIN a2 = DOMAIN acc
        /\ a2[b].balance = acc[b].balance - n
        /\ a2[b].available = acc[b].available - n
        /\ a2[b].frozen = acc[b].frozen
        /\ a2[q].balance = acc[q].balance + w
        /\ a2[q].frozen = acc[q].frozen
        /\ \A d \in DOMAIN acc : d # b /\ d # q => a2[d] = acc[d]
    BY <1>1, <1>2, <1>4, <1>6, <1>7 DEF Moved
  <1> QED
    BY <1>3, <1>6, <1>8 DEF s, b, q, n, w

\* Both: a fill takes what the order claims from the frozen money.
LEMMA FillMoves ==
  ASSUME NEW acc, Sound(acc), NEW o, Row(o), o.status = "open",
         CanFill(acc, o), NEW p \in Nat \ {0}
  PROVE  /\ Sound(FillAccounts(acc, o, p))
         /\ DOMAIN FillAccounts(acc, o, p) = DOMAIN acc
         /\ HasAccounts(acc, o)
         /\ \A c \in Currency :
              FrozenOf(FillAccounts(acc, o, p), c) = FrozenOf(acc, c) - Claim(o, c)
  <1> DEFINE b == Base[o.request.symbol]
             q == Quote[o.request.symbol]
             new == FillAccounts(acc, o, p)
  <1>1. HasAccounts(acc, o)
    BY DEF CanFill, HasAccounts
  <1>2. b \in DOMAIN acc /\ q \in DOMAIN acc /\ b # q
    BY <1>1, RowFields DEF HasAccounts
  <1>3. \A c \in Currency : FrozenOf(acc, c) \in Nat
    BY Columns DEF FrozenOf
  <1>4. CASE IsBuy(o)
    <2>1. /\ Sound(new) /\ DOMAIN new = DOMAIN acc
          /\ new[b].frozen = acc[b].frozen
          /\ new[q].frozen = acc[q].frozen - Cost(o, o.request.amount)
          /\ \A d \in DOMAIN acc : d # b /\ d # q => new[d] = acc[d]
      BY <1>4, BuyMoves
    <2> HIDE DEF new
    <2>2. \A c \in Currency :
            FrozenOf(new, c) = FrozenOf(acc, c) - (IF c = q THEN Cost(o, o.request.amount)
                                                   ELSE 0)
      <3> HIDE DEF b, q
      <3>1. \A c \in DOMAIN acc : acc[c].frozen \in Nat
        BY Columns
      <3>2. ASSUME NEW c \in Currency, c \in DOMAIN acc
            PROVE  new[c].frozen = acc[c].frozen - (IF c = q THEN Cost(o, o.request.amount) ELSE 0)
        BY <1>2, <2>1, <3>1, <3>2
      <3>3. ASSUME NEW c \in Currency, c \in DOMAIN acc
            PROVE  FrozenOf(new, c) = FrozenOf(acc, c) - (IF c = q THEN Cost(o, o.request.amount) ELSE 0)
        BY <2>1, <3>2, <3>3 DEF FrozenOf
      <3>4. ASSUME NEW c \in Currency, c \notin DOMAIN acc
            PROVE  FrozenOf(new, c) = FrozenOf(acc, c) - (IF c = q THEN Cost(o, o.request.amount) ELSE 0)
        BY <1>2, <2>1, <3>4 DEF FrozenOf
      <3> QED
        BY <3>3, <3>4
    <2>3. \A c \in Currency :
            Claim(o, c) = IF c = q THEN Cost(o, o.request.amount) ELSE 0
      BY <1>4 DEF Claim
    <2> QED
      BY <1>1, <2>1, <2>2, <2>3 DEF new
  <1>5. CASE ~IsBuy(o)
    <2>1. /\ Sound(new) /\ DOMAIN new = DOMAIN acc
          /\ new[b].frozen = acc[b].frozen
          /\ new[q].frozen = acc[q].frozen
          /\ \A d \in DOMAIN acc : d # b /\ d # q => new[d] = acc[d]
      BY <1>5, SellMoves
    <2> HIDE DEF new
    <2>2. \A c \in Currency : FrozenOf(new, c) = FrozenOf(acc, c) - 0
      <3> HIDE DEF b, q
      <3>1. \A c \in DOMAIN acc : acc[c].frozen \in Nat
        BY Columns
      <3>2. ASSUME NEW c \in Currency, c \in DOMAIN acc
            PROVE  new[c].frozen = acc[c].frozen - 0
        BY <1>2, <2>1, <3>1, <3>2
      <3>3. ASSUME NEW c \in Currency, c \in DOMAIN acc
            PROVE  FrozenOf(new, c) = FrozenOf(acc, c) - 0
        BY <2>1, <3>2, <3>3 DEF FrozenOf
      <3>4. ASSUME NEW c \in Currency, c \notin DOMAIN acc
            PROVE  FrozenOf(new, c) = FrozenOf(acc, c) - 0
        BY <1>2, <2>1, <3>4 DEF FrozenOf
      <3> QED
        BY <3>3, <3>4
    <2>3. \A c \in Currency : Claim(o, c) = 0
      BY <1>5 DEF Claim
    <2> QED
      BY <1>1, <2>1, <2>2, <2>3 DEF new
  <1> QED
    BY <1>4, <1>5

-----------------------------------------------------------------------------
(***************************************************************************)
(* Creating an order                                                       *)
(***************************************************************************)
\* Requests the engines make: a price, and an amount.
Asked(req) ==
  /\ req \in Request
  /\ req.price \in Nat \ {0}
  /\ req.type # "market" => req.price \in Price

\* The row of a new order, opened.
LEMMA OpenedRow ==
  ASSUME NEW req, Asked(req)
  PROVE  /\ Row(Opened(req))
         /\ Opened(req).request = req
         /\ Opened(req).status = "open"
         /\ Opened(req).filled = 0
         /\ Rest(Opened(req)) = req.amount
         /\ IsBuy(Opened(req)) <=> req.side = "buy"
         /\ Cost(Opened(req), req.amount) = req.amount * req.price
  <1> DEFINE o == Opened(req)
  <1>1. o = [request |-> req, filled |-> 0, status |-> "open"]
    BY DEF Opened, NewOrder
  <1> HIDE DEF o
  <1>2. /\ o.request = req /\ o.status = "open" /\ o.filled = 0
    BY <1>1
  <1>3. req.amount \in Nat \ {0}
    BY DEF Asked, Request
  <1>4. o \in Order
    BY <1>1, NoPriceAssumption DEF Asked, Order, ValidRequest, OrderStatus
  <1>5. Row(o)
    BY <1>2, <1>4 DEF Row, Asked
  <1> QED
    BY <1>2, <1>3, <1>5 DEF o, Rest, IsBuy, Cost

\* The accounts an order needs are opened empty.
LEMMA WithAccountsOpens ==
  ASSUME Sound(accounts), NEW s \in Symbol
  PROVE  /\ Sound(WithAccounts(s))
         /\ DOMAIN WithAccounts(s) = DOMAIN accounts \cup {Base[s], Quote[s]}
         /\ \A c \in Currency :
              /\ BalanceOf(WithAccounts(s), c) = BalanceOf(accounts, c)
              /\ FreeOf(WithAccounts(s), c) = FreeOf(accounts, c)
              /\ FrozenOf(WithAccounts(s), c) = FrozenOf(accounts, c)
  <1> DEFINE a1 == OpenAccount(accounts, Base[s], 0)
  <1>1. Base[s] \in Currency /\ Quote[s] \in Currency
    BY SymbolAssumption
  <1>2. /\ Sound(a1)
        /\ DOMAIN a1 = DOMAIN accounts \cup {Base[s]}
        /\ \A c \in Currency :
             /\ BalanceOf(a1, c) = BalanceOf(accounts, c)
             /\ FreeOf(a1, c) = FreeOf(accounts, c)
             /\ FrozenOf(a1, c) = FrozenOf(accounts, c)
    BY <1>1, OpenMoves
  <1> HIDE DEF a1
  <1>3. /\ Sound(OpenAccount(a1, Quote[s], 0))
        /\ DOMAIN OpenAccount(a1, Quote[s], 0) = DOMAIN a1 \cup {Quote[s]}
        /\ \A c \in Currency :
             /\ BalanceOf(OpenAccount(a1, Quote[s], 0), c) = BalanceOf(a1, c)
             /\ FreeOf(OpenAccount(a1, Quote[s], 0), c) = FreeOf(a1, c)
             /\ FrozenOf(OpenAccount(a1, Quote[s], 0), c) = FrozenOf(a1, c)
    BY <1>1, <1>2, OpenMoves
  <1>4. WithAccounts(s) = OpenAccount(a1, Quote[s], 0)
    BY DEF WithAccounts, a1
  <1> QED
    BY <1>2, <1>3, <1>4

\* A new order freezes what it claims, and moves nothing else.
LEMMA CreatedMoves ==
  ASSUME Sound(accounts), NEW req, Asked(req), CanCreate(req)
  PROVE  /\ Sound(Created(req))
         /\ DOMAIN Created(req) = DOMAIN accounts \cup {Base[req.symbol], Quote[req.symbol]}
         /\ \A c \in Currency :
              /\ BalanceOf(Created(req), c) = BalanceOf(accounts, c)
              /\ FrozenOf(Created(req), c) = FrozenOf(accounts, c) + Claim(Opened(req), c)
  <1> DEFINE s == req.symbol
             q == Quote[s]
             n == req.amount * req.price
             acc == WithAccounts(s)
             o == Opened(req)
  <1>1. /\ s \in Symbol /\ n \in Nat
    BY Product DEF Asked, Request
  <1>2. q \in Currency
    BY <1>1, SymbolAssumption
  <1>3. /\ Sound(acc)
        /\ DOMAIN acc = DOMAIN accounts \cup {Base[s], Quote[s]}
        /\ \A c \in Currency : BalanceOf(acc, c) = BalanceOf(accounts, c)
        /\ \A c \in Currency : FrozenOf(acc, c) = FrozenOf(accounts, c)
    BY <1>1, WithAccountsOpens
  <1>4. \A c \in Currency :
          Claim(o, c) = IF req.side = "buy" /\ q = c THEN n ELSE 0
    BY OpenedRow DEF Claim
  <1>5. \A c \in Currency : FrozenOf(accounts, c) \in Nat
    BY Columns DEF FrozenOf
  <1>6. CASE req.side = "buy"
    <2>1. CanFreeze(acc, q, n) /\ Created(req) = Freeze(acc, q, n)
      BY <1>6 DEF CanCreate, Created
    <2> HIDE DEF acc, n, q, o
    <2>2. Sound(Freeze(acc, q, n)) /\ Moved(acc, Freeze(acc, q, n), q, 0, -n, n)
      BY <1>1, <1>3, <2>1, FreezeMoves
    <2>3. q \in DOMAIN acc
      BY <2>1 DEF CanFreeze
    <2> DEFINE new == Freeze(acc, q, n)
    <2> HIDE DEF new
    <2>4. /\ DOMAIN new = DOMAIN acc
          /\ new[q].balance = acc[q].balance + 0
          /\ new[q].frozen = acc[q].frozen + n
          /\ \A d \in DOMAIN acc : d # q => new[d] = acc[d]
      BY <2>2 DEF Moved, new
    <2>5. acc[q].balance \in Nat
      BY <1>3, <2>3, Columns
    <2>6. \A c \in Currency : BalanceOf(new, c) = BalanceOf(acc, c)
      BY <2>3, <2>4, <2>5 DEF BalanceOf
    <2>7. ASSUME NEW c \in Currency
          PROVE  FrozenOf(new, c) = FrozenOf(accounts, c) + Claim(o, c)
      <3>1. CASE c = q
        <4>1. FrozenOf(new, c) = acc[c].frozen + n /\ FrozenOf(acc, c) = acc[c].frozen
          BY <2>3, <2>4, <3>1 DEF FrozenOf
        <4> QED
          BY <1>3, <1>4, <1>6, <3>1, <4>1
      <3>2. CASE c # q
        <4>1. FrozenOf(new, c) = FrozenOf(acc, c)
          BY <2>3, <2>4, <3>2 DEF FrozenOf
        <4> QED
          BY <1>3, <1>4, <1>5, <3>2, <4>1
      <3> QED
        BY <3>1, <3>2
    <2> QED
      BY <1>3, <2>1, <2>2, <2>4, <2>6, <2>7 DEF new, o, q, acc
  <1>7. CASE req.side # "buy"
    <2>1. Created(req) = acc
      BY <1>7 DEF Created
    <2>2. \A c \in Currency : FrozenOf(acc, c) = FrozenOf(accounts, c) + Claim(o, c)
      <3>1. \A c \in Currency : Claim(o, c) = 0
        BY <1>4, <1>7
      <3> HIDE DEF acc, o
      <3>2. ASSUME NEW c \in Currency
            PROVE  FrozenOf(acc, c) = FrozenOf(accounts, c) + Claim(o, c)
        <4>1. FrozenOf(accounts, c) \in Nat /\ Claim(o, c) = 0
          BY <1>5, <3>1
        <4>2. FrozenOf(acc, c) = FrozenOf(accounts, c)
          BY <1>3
        <4> QED
          BY <4>1, <4>2
      <3> QED
        BY <3>2
    <2> QED
      BY <1>3, <2>1, <2>2
  <1> QED
    BY <1>6, <1>7

\* A fresh id is the next number.
LEMMA NextNumber ==
  ASSUME Numbered(DOMAIN orders), NEW id, Fresh(id)
  PROVE  id \notin DOMAIN orders /\ Numbered(DOMAIN orders \cup {id})
  <1>1. PICK n \in Nat : DOMAIN orders = 1..n
    BY DEF Numbered
  <1>2. Cardinality(1..n) = n
    BY FS_Interval
  <1>3. id = n + 1
    BY <1>1, <1>2 DEF Fresh
  <1>4. DOMAIN orders \cup {id} = 1..(n + 1)
    BY <1>1, <1>3
  <1> QED
    BY <1>1, <1>3, <1>4 DEF Numbered

-----------------------------------------------------------------------------
(***************************************************************************)
(* A fill, for a new order and for one of the queue                        *)
(***************************************************************************)
\* Order id, open in the state o, is about to be filled from the accounts acc:
\* those of the table, or the same after o was created.
Ready(acc, id, o) ==
  /\ Sound(acc)
  /\ DOMAIN accounts \subseteq DOMAIN acc
  /\ id \in OrderId
  /\ Numbered(DOMAIN orders \cup {id})
  /\ Row(o)
  /\ o.status = "open"
  /\ id \in DOMAIN orders => orders[id] = o
  /\ \A c \in Currency :
       /\ BalanceOf(acc, c) = BalanceOf(accounts, c)
       /\ FrozenOf(acc, c) = FrozenOf(accounts, c)
                               + (IF id \in DOMAIN orders THEN 0 ELSE Claim(o, c))

LEMMA NewIsReady ==
  ASSUME LedgerInv, NEW id \in OrderId, Fresh(id),
         NEW req, Asked(req), CanCreate(req)
  PROVE  /\ Ready(Created(req), id, Opened(req))
         /\ id \notin DOMAIN orders
         /\ HasAccounts(Created(req), Opened(req))
  <1>1. id \notin DOMAIN orders /\ Numbered(DOMAIN orders \cup {id})
    BY NextNumber DEF LedgerInv, Rows
  <1>2. /\ Sound(Created(req))
        /\ DOMAIN Created(req) = DOMAIN accounts \cup {Base[req.symbol], Quote[req.symbol]}
        /\ \A c \in Currency :
             /\ BalanceOf(Created(req), c) = BalanceOf(accounts, c)
             /\ FrozenOf(Created(req), c) = FrozenOf(accounts, c) + Claim(Opened(req), c)
    BY CreatedMoves DEF LedgerInv
  <1>3. /\ Row(Opened(req)) /\ Opened(req).status = "open"
        /\ Opened(req).request = req
    BY OpenedRow
  <1> QED
    BY <1>1, <1>2, <1>3 DEF Ready, HasAccounts

LEMMA QueuedIsReady ==
  ASSUME LedgerInv, NEW id \in DOMAIN orders, orders[id].status = "open"
  PROVE  Ready(accounts, id, orders[id])
  <1>1. id \in OrderId
    BY DEF LedgerInv, TypeOK, L!TypeOK
  <1>2. DOMAIN orders \cup {id} = DOMAIN orders
    OBVIOUS
  <1>3. Numbered(DOMAIN orders \cup {id}) /\ Row(orders[id])
    BY <1>2 DEF LedgerInv, Rows
  <1>4. \A c \in Currency : FrozenOf(accounts, c) \in Nat
    BY Columns DEF FrozenOf, LedgerInv
  <1>5. ASSUME NEW c \in Currency
        PROVE  FrozenOf(accounts, c) = FrozenOf(accounts, c) + 0
    <2> DEFINE f == FrozenOf(accounts, c)
    <2>1. f \in Nat
      BY <1>4
    <2> HIDE DEF f
    <2>2. f = f + 0
      BY <2>1
    <2> QED
      BY <2>2 DEF f
  <1> QED
    BY <1>1, <1>3, <1>5 DEF Ready, LedgerInv

\* One order row changes or is added, and the frozen money of every currency
\* moves by what the order's claim changes.
LEMMA OneClaimStep ==
  ASSUME Frozen, Rows, NEW i, DOMAIN orders' = DOMAIN orders \cup {i},
         \A j \in DOMAIN orders : j # i => orders'[j] = orders[j],
         Row(orders'[i]),
         \A c \in Currency :
           FrozenOf(accounts', c) = FrozenOf(accounts, c)
             - (IF i \in DOMAIN orders THEN Claim(orders[i], c) ELSE 0)
             + Claim(orders'[i], c)
  PROVE  Frozen'
  <1> SUFFICES ASSUME NEW c \in Currency
               PROVE  /\ IsFiniteSet(Units(Claims(c)'))
                      /\ FrozenOf(accounts', c) = Total(Claims(c)')
    BY DEF Frozen, Units, Total, FrozenOf
  <1> DEFINE f == Claims(c)
             g == Claims(c)'
  <1>1. /\ DOMAIN f = DOMAIN orders
        /\ \A j \in DOMAIN orders : f[j] = Claim(orders[j], c)
        /\ DOMAIN g = DOMAIN orders'
        /\ \A j \in DOMAIN orders' : g[j] = Claim(orders'[j], c)
    BY DEF Claims, Claim, Cost, IsBuy
  <1>2. IsFiniteSet(Units(f)) /\ FrozenOf(accounts, c) = Total(f)
    BY DEF Frozen
  <1> HIDE DEF f, g
  <1>3. g[i] \in Nat /\ (i \in DOMAIN f => f[i] \in Nat)
    BY <1>1, ClaimIsNat DEF Rows
  <1>4. /\ DOMAIN g = DOMAIN f \cup {i}
        /\ \A j \in DOMAIN f : j # i => g[j] = f[j]
    BY <1>1
  <1>5. /\ IsFiniteSet(Units(g))
        /\ Total(g) = Total(f) - (IF i \in DOMAIN f THEN f[i] ELSE 0) + g[i]
    BY <1>2, <1>3, <1>4, TotalUpdate
  <1>6. FrozenOf(accounts', c) = Total(g)
    <2>1. CASE i \in DOMAIN orders
      BY <1>1, <1>2, <1>5, <2>1
    <2>2. CASE i \notin DOMAIN orders
      BY <1>1, <1>2, <1>5, <2>2
    <2> QED
      BY <2>1, <2>2
  <1> QED
    BY <1>5, <1>6 DEF g

\* The row of the order that Fill leaves.
LEMMA FilledRow ==
  ASSUME NEW acc, NEW id, NEW o, NEW p, Ready(acc, id, o), Fill(acc, id, o, p)
  PROVE  /\ DOMAIN orders' = DOMAIN orders \cup {id}
         /\ \A j \in DOMAIN orders : j # id => orders'[j] = orders[j]
         /\ orders'[id].request = o.request
         /\ orders'[id].status = "filled"
         /\ Row(orders'[id])
         /\ \A c \in Currency : Claim(orders'[id], c) = 0
  <1>1. orders'[id] = [request |-> o.request, filled |-> o.request.amount,
                       status |-> "filled"]
    BY DEF Fill, L!StatusAfter
  <1>2. Row(o) /\ o.request.amount \in Nat /\ o \in Order
    BY RowFields DEF Ready, Row
  <1>3. Row(orders'[id])
    BY <1>1, <1>2 DEF Row, Order, OrderStatus
  <1>4. \A c \in Currency : Claim(orders'[id], c) = 0
    BY <1>1 DEF Claim
  <1> QED
    BY <1>1, <1>3, <1>4 DEF Fill

\* A bought position: the amount and the entry price are numbers.
LEMMA BuyPositionTyped ==
  ASSUME DOMAIN positions \subseteq Symbol, positions \in [DOMAIN positions -> Position],
         NEW s \in Symbol, NEW n \in Nat \ {0}, NEW p \in Nat \ {0}
  PROVE  /\ DOMAIN BuyPosition(positions, s, n, p) = DOMAIN positions \cup {s}
         /\ \A t \in DOMAIN positions \cup {s} :
              BuyPosition(positions, s, n, p)[t] \in Position
  <1> DEFINE new == BuyPosition(positions, s, n, p)
  <1>1. DOMAIN new = DOMAIN positions \cup {s}
    BY DEF BuyPosition
  <1>2. \A t \in DOMAIN positions : t # s => new[t] = positions[t]
    BY DEF BuyPosition
  <1>3. CASE s \in DOMAIN positions
    <2> DEFINE a == positions[s].amount
               e == positions[s].entry.num
               d == positions[s].entry.den
    <2>1. positions[s] \in Position
      BY <1>3
    <2>2. /\ a \in Nat /\ e \in Int /\ d \in Nat \ {0}
          /\ positions[s].realized \in Fraction
      BY <2>1 DEF Position, Fraction
    <2>3. new[s] = [amount   |-> a + n,
                    entry    |-> [num |-> a * e + n * p * d, den |-> (a + n) * d],
                    realized |-> positions[s].realized]
      BY <1>3 DEF BuyPosition
    <2> HIDE DEF a, e, d, new
    <2>4. a + n \in Nat \ {0} /\ a * e \in Int /\ n * p \in Nat
      BY <2>2, Product
    <2>5. n * p * d \in Nat /\ (a + n) * d \in Nat \ {0}
      BY <2>2, <2>4, Product
    <2>6. [num |-> a * e + n * p * d, den |-> (a + n) * d] \in Fraction
      BY <2>4, <2>5 DEF Fraction
    <2> QED
      BY <1>1, <1>2, <2>2, <2>3, <2>4, <2>6 DEF new, Position
  <1>4. CASE s \notin DOMAIN positions
    <2>1. new[s] = [amount   |-> n,
                    entry    |-> [num |-> p, den |-> 1],
                    realized |-> [num |-> 0, den |-> 1]]
      BY <1>4 DEF BuyPosition
    <2>2. [num |-> p, den |-> 1] \in Fraction /\ [num |-> 0, den |-> 1] \in Fraction
      BY DEF Fraction
    <2> QED
      BY <1>1, <1>2, <2>1, <2>2 DEF Position
  <1> QED
    BY <1>3, <1>4

\* A sold position.
LEMMA SellPositionTyped ==
  ASSUME positions \in [DOMAIN positions -> Position],
         NEW s \in DOMAIN positions, NEW n \in Nat, NEW p \in Nat \ {0}
  PROVE  /\ DOMAIN SellPosition(positions, s, n, p) = DOMAIN positions
         /\ \A t \in DOMAIN positions : SellPosition(positions, s, n, p)[t] \in Position
         /\ \A t \in DOMAIN positions \ {s} :
              SellPosition(positions, s, n, p)[t] = positions[t]
         /\ SellPosition(positions, s, n, p)[s].amount
              = IF positions[s].amount > n THEN positions[s].amount - n ELSE 0
  <1> DEFINE new == SellPosition(positions, s, n, p)
             a  == positions[s].amount
             e  == positions[s].entry.num
             d  == positions[s].entry.den
             r  == positions[s].realized.num
             rd == positions[s].realized.den
  <1>1. /\ DOMAIN new = DOMAIN positions
        /\ \A t \in DOMAIN positions \ {s} : new[t] = positions[t]
        /\ new[s] = [amount   |-> IF a > n THEN a - n ELSE 0,
                     entry    |-> positions[s].entry,
                     realized |-> [num |-> r * d + (p * d - e) * n * rd, den |-> rd * d]]
    BY DEF SellPosition
  <1>2. positions[s] \in Position
    OBVIOUS
  <1>3. /\ a \in Nat /\ e \in Int /\ d \in Nat \ {0} /\ r \in Int /\ rd \in Nat \ {0}
        /\ positions[s].entry \in Fraction
    BY <1>2 DEF Position, Fraction
  <1> HIDE DEF a, e, d, r, rd, new
  <1>4. p * d \in Nat /\ r * d \in Int /\ rd * d \in Nat \ {0}
    BY <1>3, Product
  <1>5. (p * d - e) * n \in Int
    BY <1>3, <1>4
  <1>6. (p * d - e) * n * rd \in Int
    BY <1>3, <1>5
  <1>7. [num |-> r * d + (p * d - e) * n * rd, den |-> rd * d] \in Fraction
    BY <1>4, <1>6 DEF Fraction
  <1>8. (IF a > n THEN a - n ELSE 0) \in Nat
    BY <1>3
  <1> QED
    BY <1>1, <1>3, <1>7, <1>8 DEF new, a, Position

-----------------------------------------------------------------------------
(***************************************************************************)
(* The ledger part of the invariant, step by step                          *)
(***************************************************************************)
\* The instance L of the ledger types rows as this module does.
LEMMA LedgerTypes ==
  TypeOK <=> /\ IsAccounts(accounts)
             /\ DOMAIN orders \subseteq OrderId
             /\ orders \in [DOMAIN orders -> Order]
             /\ trades \in Seq([order : OrderId, price : Nat \ {0}, amount : Nat \ {0}])
             /\ DOMAIN positions \subseteq Symbol
             /\ positions \in [DOMAIN positions -> Position]
             /\ sweep \in Sweep \cup {NoSweep}
  BY DEF TypeOK, L!TypeOK, L!IsAccounts, IsAccounts, L!Account, Account, L!Order, Order,
         L!Request, Request, L!OrderType, OrderType, L!OrderSide, OrderSide,
         L!OrderStatus, OrderStatus, L!ValidRequest, ValidRequest, L!Trade

LEMMA LedgerTypesNext ==
  TypeOK' <=> /\ IsAccounts(accounts')
              /\ DOMAIN orders' \subseteq OrderId
              /\ orders' \in [DOMAIN orders' -> Order]
              /\ trades' \in Seq([order : OrderId, price : Nat \ {0}, amount : Nat \ {0}])
              /\ DOMAIN positions' \subseteq Symbol
              /\ positions' \in [DOMAIN positions' -> Position]
              /\ sweep' \in Sweep \cup {NoSweep}
  BY DEF TypeOK, L!TypeOK, L!IsAccounts, IsAccounts, L!Account, Account, L!Order, Order,
         L!Request, Request, L!OrderType, OrderType, L!OrderSide, OrderSide,
         L!OrderStatus, OrderStatus, L!ValidRequest, ValidRequest, L!Trade

\* The positions table stays typed when an order is filled.
LEMMA FillPositionTyped ==
  ASSUME LedgerInv, NEW acc, NEW id, NEW o, NEW p \in Nat \ {0},
         Ready(acc, id, o), Fill(acc, id, o, p)
  PROVE  /\ DOMAIN positions' \subseteq Symbol
         /\ positions' \in [DOMAIN positions' -> Position]
  <1> DEFINE s == o.request.symbol
             n == Rest(o)
  <1>1. s \in Symbol /\ n \in Nat \ {0}
    BY RowFields, OpenRest DEF Ready
  <1>2. /\ DOMAIN positions \subseteq Symbol
        /\ positions \in [DOMAIN positions -> Position]
    BY LedgerTypes DEF LedgerInv
  <1>3. CASE IsBuy(o)
    <2>1. positions' = BuyPosition(positions, s, n, p)
      BY <1>3 DEF Fill, FillPosition
    <2> HIDE DEF s, n
    <2>2. /\ DOMAIN positions' = DOMAIN positions \cup {s}
          /\ \A t \in DOMAIN positions' : positions'[t] \in Position
      BY <1>1, <1>2, <2>1, BuyPositionTyped
    <2>3. positions' = [t \in DOMAIN positions' |-> positions'[t]]
      BY <2>1 DEF BuyPosition
    <2> QED
      BY <1>1, <1>2, <2>2, <2>3
  <1>4. CASE ~IsBuy(o)
    <2>1. positions' = SellPosition(positions, s, n, p)
      BY <1>4 DEF Fill, FillPosition
    <2>2. s \in DOMAIN positions
      BY <1>4 DEF Fill, CanFill, HasUnits
    <2> HIDE DEF s, n
    <2>3. /\ DOMAIN positions' = DOMAIN positions
          /\ \A t \in DOMAIN positions' : positions'[t] \in Position
      BY <1>1, <1>2, <2>1, <2>2, SellPositionTyped
    <2>4. positions' = [t \in DOMAIN positions' |-> positions'[t]]
      BY <1>2, <2>1 DEF SellPosition
    <2> QED
      BY <1>1, <1>2, <2>3, <2>4
  <1> QED
    BY <1>3, <1>4

\* A fill keeps the rows sound, the frozen money claimed, and the types.
LEMMA FillLedger ==
  ASSUME LedgerInv, NEW acc, NEW id, NEW o, NEW p \in Nat \ {0},
         Ready(acc, id, o), Fill(acc, id, o, p),
         sweep' \in Sweep \cup {NoSweep}
  PROVE  LedgerInv'
  <1>1. /\ Sound(acc) /\ Row(o) /\ o.status = "open" /\ CanFill(acc, o)
        /\ accounts' = FillAccounts(acc, o, p)
        /\ id \in OrderId
        /\ DOMAIN accounts \subseteq DOMAIN acc
        /\ id \in DOMAIN orders => orders[id] = o
    BY DEF Ready, Fill
  <1>2. /\ Sound(accounts')
        /\ DOMAIN accounts' = DOMAIN acc
        /\ HasAccounts(acc, o)
        /\ \A c \in Currency : FrozenOf(accounts', c) = FrozenOf(acc, c) - Claim(o, c)
    BY <1>1, FillMoves
  <1>3. /\ DOMAIN orders' = DOMAIN orders \cup {id}
        /\ \A j \in DOMAIN orders : j # id => orders'[j] = orders[j]
        /\ orders'[id].request = o.request
        /\ Row(orders'[id])
        /\ \A c \in Currency : Claim(orders'[id], c) = 0
    <2>1. \A j \in DOMAIN orders : j # id => orders'[j] = orders[j]
      BY DEF Fill
    <2> QED
      BY <2>1, FilledRow
  <1>4. Frozen'
    <2>1. ASSUME NEW c \in Currency
          PROVE  FrozenOf(accounts', c) = FrozenOf(accounts, c)
                   - (IF id \in DOMAIN orders THEN Claim(orders[id], c) ELSE 0)
                   + Claim(orders'[id], c)
      <3> DEFINE f0 == FrozenOf(accounts, c)
                 f1 == FrozenOf(acc, c)
                 f2 == FrozenOf(accounts', c)
                 k  == Claim(o, c)
      <3>1. f0 \in Nat /\ f1 \in Nat /\ k \in Nat
        BY <1>1, Columns, ClaimIsNat DEF LedgerInv, FrozenOf
      <3>2. f2 = f1 - k /\ Claim(orders'[id], c) = 0
        BY <1>2, <1>3
      <3>3. f1 = f0 + (IF id \in DOMAIN orders THEN 0 ELSE k)
        BY DEF Ready
      <3>4. id \in DOMAIN orders => Claim(orders[id], c) = k
        BY <1>1
      <3> HIDE DEF f0, f1, f2, k
      <3>5. f2 = f0 - (IF id \in DOMAIN orders THEN Claim(orders[id], c) ELSE 0)
                   + Claim(orders'[id], c)
        BY <3>1, <3>2, <3>3, <3>4
      <3> QED
        BY <3>5 DEF f0, f2
    <2> QED
      BY <1>3, <2>1, OneClaimStep DEF LedgerInv
  <1>5. Rows'
    <2>1. Numbered(DOMAIN orders)'
      BY <1>3 DEF Ready, Numbered
    <2>2. ASSUME NEW j \in DOMAIN orders'
          PROVE  Row(orders'[j]) /\ HasAccounts(accounts', orders'[j])
      <3>1. CASE j = id
        BY <1>2, <1>3, <3>1 DEF HasAccounts
      <3>2. CASE j # id
        <4>1. j \in DOMAIN orders /\ orders'[j] = orders[j]
          BY <1>3, <3>2
        <4>2. Row(orders[j]) /\ HasAccounts(accounts, orders[j])
          BY <4>1 DEF LedgerInv, Rows
        <4> QED
          BY <1>1, <1>2, <4>1, <4>2 DEF HasAccounts
      <3> QED
        BY <3>1, <3>2
    <2> QED
      BY <2>1, <2>2 DEF Rows, Row, HasAccounts
  <1>6. TypeOK'
    <2>1. IsAccounts(accounts')
      BY <1>2 DEF Sound
    <2>2. DOMAIN orders' \subseteq OrderId
      BY <1>1, <1>3, LedgerTypes DEF LedgerInv
    <2>3. orders' \in [DOMAIN orders' -> Order]
      <3>1. \A j \in DOMAIN orders' : orders'[j] \in Order
        BY <1>3, LedgerTypes DEF LedgerInv, Row
      <3>2. orders' = [j \in DOMAIN orders' |-> orders'[j]]
        BY DEF Fill
      <3> QED
        BY <3>1, <3>2
    <2>4. trades' \in Seq([order : OrderId, price : Nat \ {0}, amount : Nat \ {0}])
      <3>1. Rest(o) \in Nat \ {0}
        BY <1>1, OpenRest
      <3>2. [order |-> id, price |-> p, amount |-> Rest(o)]
              \in [order : OrderId, price : Nat \ {0}, amount : Nat \ {0}]
        BY <1>1, <3>1
      <3>3. trades' = Append(trades, [order |-> id, price |-> p, amount |-> Rest(o)])
        BY DEF Fill
      <3>4. trades \in Seq([order : OrderId, price : Nat \ {0}, amount : Nat \ {0}])
        BY LedgerTypes DEF LedgerInv
      <3> QED
        BY <3>2, <3>3, <3>4, AppendProperties
    <2> QED
      BY <2>1, <2>2, <2>3, <2>4, FillPositionTyped, LedgerTypesNext
  <1> QED
    BY <1>2, <1>4, <1>5, <1>6 DEF LedgerInv, Sound

\* A step that leaves the orders and their money alone.
LEMMA QuietLedger ==
  ASSUME LedgerInv, UNCHANGED <<ledger, positions>>, sweep' \in Sweep \cup {NoSweep}
  PROVE  LedgerInv'
  <1>1. TypeOK'
    BY LedgerTypes, LedgerTypesNext DEF LedgerInv, ledger
  <1>2. Sound(accounts)' /\ Rows'
    BY DEF LedgerInv, ledger, Sound, IsAccounts, Balanced, Rows, Numbered, Row, HasAccounts
  <1>3. Frozen'
    BY DEF LedgerInv, ledger, Frozen, Claims, Claim, IsBuy, Cost, FrozenOf, Units, Total
  <1> QED
    BY <1>1, <1>2, <1>3 DEF LedgerInv

\* The requests of the engines.
LEMMA EngineRequests ==
  ASSUME NEW s \in Symbol, NEW type \in OrderType, NEW side \in OrderSide,
         NEW n \in Amount, NEW price \in Nat \ {0}, type # "market" => price \in Price
  PROVE  Asked([symbol |-> s, type |-> type, side |-> side, price |-> price,
                amount |-> n])
  BY PriceAssumption DEF Asked, Request

\* Placing an order that stays in the queue.
LEMMA PlaceLedger ==
  ASSUME LedgerInv, NEW id \in OrderId, NEW s \in Symbol,
         NEW type \in OrderType \ {"market"}, NEW side \in OrderSide,
         NEW n \in Amount, NEW price \in Price,
         PlaceOrder(id, s, type, side, n, price)
  PROVE  LedgerInv'
  <1> DEFINE req == [symbol |-> s, type |-> type, side |-> side, price |-> price,
                     amount |-> n]
             o == Opened(req)
  <1>1. Asked(req)
    BY EngineRequests, PriceAssumption
  <1>2. /\ Fresh(id) /\ CanCreate(req)
        /\ accounts' = Created(req)
        /\ orders' = [i \in DOMAIN orders \cup {id} |-> IF i = id THEN o ELSE orders[i]]
        /\ trades' = trades /\ positions' = positions /\ sweep' = sweep
    BY DEF PlaceOrder, running
  <1> HIDE DEF req, o
  <1>3. Ready(Created(req), id, o) /\ id \notin DOMAIN orders
        /\ HasAccounts(Created(req), o)
    BY <1>1, <1>2, NewIsReady DEF o
  <1>4. /\ DOMAIN orders' = DOMAIN orders \cup {id}
        /\ \A j \in DOMAIN orders : j # id => orders'[j] = orders[j]
        /\ orders'[id] = o
        /\ Row(o) /\ id \in OrderId /\ o \in Order
        /\ Sound(Created(req))
        /\ DOMAIN accounts \subseteq DOMAIN Created(req)
        /\ Numbered(DOMAIN orders \cup {id})
    BY <1>2, <1>3 DEF Ready, Row
  <1>5. Frozen'
    <2>1. ASSUME NEW c \in Currency
          PROVE  FrozenOf(accounts', c) = FrozenOf(accounts, c)
                   - (IF id \in DOMAIN orders THEN Claim(orders[id], c) ELSE 0)
                   + Claim(orders'[id], c)
      <3> DEFINE f0 == FrozenOf(accounts, c)
                 k  == Claim(o, c)
      <3>1. f0 \in Nat /\ k \in Nat
        BY <1>4, Columns, ClaimIsNat DEF LedgerInv, FrozenOf
      <3>2. FrozenOf(accounts', c) = f0 + (IF id \in DOMAIN orders THEN 0 ELSE k)
        BY <1>2, <1>3 DEF Ready
      <3>3. Claim(orders'[id], c) = k
        BY <1>4
      <3> HIDE DEF f0, k
      <3>4. FrozenOf(accounts', c) = f0 - 0 + k
        BY <1>3, <3>1, <3>2
      <3> QED
        BY <1>3, <3>3, <3>4 DEF f0
    <2> QED
      BY <1>4, <2>1, OneClaimStep DEF LedgerInv
  <1>6. Rows'
    <2>1. Numbered(DOMAIN orders)'
      BY <1>4 DEF Numbered
    <2>2. ASSUME NEW j \in DOMAIN orders'
          PROVE  Row(orders'[j]) /\ HasAccounts(accounts', orders'[j])
      <3>1. CASE j = id
        BY <1>2, <1>3, <1>4, <3>1
      <3>2. CASE j # id
        <4>1. j \in DOMAIN orders /\ orders'[j] = orders[j]
          BY <1>4, <3>2
        <4>2. Row(orders[j]) /\ HasAccounts(accounts, orders[j])
          BY <4>1 DEF LedgerInv, Rows
        <4> QED
          BY <1>2, <1>4, <4>1, <4>2 DEF HasAccounts
      <3> QED
        BY <3>1, <3>2
    <2> QED
      BY <2>1, <2>2 DEF Rows, Row, HasAccounts
  <1>7. TypeOK'
    <2>1. IsAccounts(accounts') /\ DOMAIN orders' \subseteq OrderId
      BY <1>2, <1>4, LedgerTypes DEF Sound, LedgerInv
    <2>2. orders' \in [DOMAIN orders' -> Order]
      BY <1>2, <1>4, LedgerTypes DEF LedgerInv
    <2> QED
      BY <1>2, <2>1, <2>2, LedgerTypes, LedgerTypesNext DEF LedgerInv
  <1> QED
    BY <1>2, <1>4, <1>5, <1>6, <1>7 DEF LedgerInv, Sound

\* The price at which an order is filled: positive, no worse than the limit of a
\* limit order, and the one a market order was created with.
Fair(o, p) ==
  /\ p \in Nat \ {0}
  /\ o.request.type = "market" => p = o.request.price
  /\ o.request.type = "limit" =>
       IF IsBuy(o) THEN p <= o.request.price ELSE p >= o.request.price

\* Slippage keeps a price positive.
LEMMA SlippedIsPositive ==
  ASSUME NEW side \in OrderSide, NEW p \in Price
  PROVE  Slipped[side][p] \in Nat \ {0}
  BY SlippedAssumption

\* A market order is one request, and one fill.
LEMMA MarketOrderFills ==
  ASSUME LedgerInv, NEW id \in OrderId, NEW s \in Symbol, NEW side \in OrderSide,
         NEW n \in Amount, NEW market \in Price,
         ExecuteMarketOrder(id, s, side, n, market)
  PROVE  \E req, p :
           /\ Asked(req) /\ req.type = "market" /\ CanCreate(req)
           /\ Ready(Created(req), id, Opened(req))
           /\ id \notin DOMAIN orders
           /\ Fair(Opened(req), p)
           /\ Fill(Created(req), id, Opened(req), p)
           /\ sweep = NoSweep /\ sweep' = NoSweep
  <1> DEFINE p   == Slipped[side][market]
             req == [symbol |-> s, type |-> "market", side |-> side, price |-> p,
                     amount |-> n]
  <1>1. p \in Nat \ {0}
    BY SlippedIsPositive
  <1>2. /\ Fresh(id) /\ CanCreate(req) /\ Fill(Created(req), id, Opened(req), p)
        /\ sweep = NoSweep /\ sweep' = NoSweep
    BY DEF ExecuteMarketOrder, running
  <1>3. req.type = "market" /\ req.price = p
    OBVIOUS
  <1>4. Asked(req)
    <2> HIDE DEF p
    <2> QED
      BY <1>1, EngineRequests DEF OrderType
  <1> HIDE DEF p, req
  <1>5. Fair(Opened(req), p)
    <2>1. Opened(req).request = req
      BY <1>4, OpenedRow
    <2> QED
      BY <1>1, <1>3, <2>1 DEF Fair
  <1> QED
    BY <1>2, <1>3, <1>4, <1>5, NewIsReady

\* A queued order is open: nothing is ever filled in part.
LEMMA QueuedIsOpen ==
  ASSUME LedgerInv, NEW kind, NEW s, NEW i \in Book(kind, s)
  PROVE  /\ i \in DOMAIN orders
         /\ Row(orders[i])
         /\ orders[i].status = "open"
         /\ orders[i].request.symbol = s
         /\ orders[i].request.type \in TypesOf(kind)
         /\ orders[i].request.price \in Price
         /\ Ready(accounts, i, orders[i])
  <1>1. /\ i \in DOMAIN orders /\ Row(orders[i])
        /\ orders[i].status \in Fillable
        /\ orders[i].request.symbol = s
        /\ orders[i].request.type \in TypesOf(kind)
    BY DEF Book, LedgerInv, Rows
  <1>2. orders[i].status = "open"
    BY <1>1 DEF Row, Fillable
  <1>3. orders[i].request.price \in Price
    BY <1>1 DEF Row, TypesOf
  <1> QED
    BY <1>1, <1>2, <1>3, QueuedIsReady

\* The price a sweep fills an order at.
LEMMA SweepPriceIsFair ==
  ASSUME NEW kind \in {"limit", "trigger"}, NEW o, Row(o),
         o.request.type \in TypesOf(kind), o.request.price \in Price,
         NEW market \in Price
  PROVE  Fair(o, ExecutionPrice(kind, o, market))
  <1>1. o.request.side \in OrderSide /\ o.request.price \in Nat \ {0}
    BY RowFields
  <1>2. CASE kind = "trigger"
    <2>1. ExecutionPrice(kind, o, market) \in Nat \ {0}
      BY <1>1, <1>2, SlippedIsPositive DEF ExecutionPrice
    <2> QED
      BY <1>2, <2>1 DEF Fair, TypesOf
  <1>3. CASE kind = "limit"
    <2> DEFINE limit == o.request.price
               better == IF IsBuy(o) THEN IF market < limit THEN market ELSE limit
                         ELSE IF market > limit THEN market ELSE limit
               slipped == Slipped[o.request.side][better]
    <2>1. better \in Price
      OBVIOUS
    <2>2. slipped \in Nat \ {0}
      BY <1>1, <2>1, SlippedIsPositive
    <2>3. IsBuy(o) => o.request.side = "buy"
      BY DEF IsBuy
    <2>4. ~IsBuy(o) => o.request.side = "sell"
      BY RowFields
    <2>5. ExecutionPrice(kind, o, market)
            = IF IsBuy(o) THEN IF slipped < limit THEN slipped ELSE limit
              ELSE IF slipped > limit THEN slipped ELSE limit
      BY <1>3, <2>3, <2>4 DEF ExecutionPrice, LimitPrice
    <2> HIDE DEF better, slipped
    <2>6. o.request.type = "limit"
      BY <1>3 DEF TypesOf
    <2> QED
      BY <1>1, <2>2, <2>5, <2>6 DEF Fair
  <1> QED
    BY <1>2, <1>3

\* A cancellation releases the claim of the order.
LEMMA CancelLedger ==
  ASSUME LedgerInv, NEW id \in OrderId, Cancel(id)
  PROVE  /\ LedgerInv'
         /\ trades' = trades /\ positions' = positions
         /\ DOMAIN orders' = DOMAIN orders /\ DOMAIN accounts' = DOMAIN accounts
         /\ \A i \in DOMAIN orders : orders'[i].request = orders[i].request
         /\ \A c \in Currency : BalanceOf(accounts', c) = BalanceOf(accounts, c)
  <1> DEFINE o == orders[id]
             q == Quote[o.request.symbol]
             n == Cost(o, o.request.amount)
  <1>1. /\ id \in DOMAIN orders
        /\ trades' = trades /\ positions' = positions /\ sweep' = sweep
    BY DEF Cancel, L!CancelOrder, running
  <1>2. Row(o) /\ HasAccounts(accounts, o) /\ Sound(accounts)
    BY <1>1 DEF LedgerInv, Rows
  <1>3. CASE o.status \in Terminal
    <2>1. UNCHANGED <<ledger, positions>> /\ sweep' \in Sweep \cup {NoSweep}
      BY <1>1, <1>3, LedgerTypes DEF Cancel, L!CancelOrder, L!Terminal, Terminal, ledger,
         LedgerInv
    <2> QED
      BY <2>1, QuietLedger DEF ledger
  <1>4. CASE o.status \notin Terminal
    <2>1. o.status = "open" /\ o.filled = 0 /\ o.request.amount \in Nat \ {0}
      BY <1>2, <1>4, RowFields DEF Row, Terminal
    <2>2. /\ L!CanReleaseRest(accounts, o, o.filled)
          /\ accounts' = L!ReleaseRest(accounts, o, o.filled)
          /\ orders' = L!UpdateOrder(orders, id, "canceled", o.filled)
      BY <1>4 DEF Cancel, L!CancelOrder, L!Terminal, Terminal
    <2>3. orders' = [orders EXCEPT ![id] = [request |-> o.request, filled |-> 0,
                                            status |-> "canceled"]]
      BY <2>1, <2>2 DEF L!UpdateOrder
    <2>4. orders = [i \in DOMAIN orders |-> orders[i]]
      BY LedgerTypes DEF LedgerInv
    <2>5. /\ DOMAIN orders' = DOMAIN orders
          /\ orders'[id] = [request |-> o.request, filled |-> 0, status |-> "canceled"]
          /\ \A j \in DOMAIN orders : j # id => orders'[j] = orders[j]
      BY <1>1, <2>3
    <2>6. Row(orders'[id]) /\ orders'[id].request = o.request
      BY <1>2, <2>5 DEF Row, Order, OrderStatus
    <2>7. \A c \in Currency : Claim(orders'[id], c) = 0
      BY <2>5 DEF Claim
    <2>8. /\ Sound(accounts') /\ DOMAIN accounts' = DOMAIN accounts
          /\ \A c \in Currency : BalanceOf(accounts', c) = BalanceOf(accounts, c)
          /\ \A c \in Currency :
               FrozenOf(accounts', c) = FrozenOf(accounts, c) - Claim(o, c)
      <3>1. CASE IsBuy(o)
        <4>1. /\ CanRelease(accounts, q, n)
              /\ accounts' = Release(accounts, q, n)
          <5>1. o.request.amount - o.filled = o.request.amount /\ o.filled < o.request.amount
            BY <2>1
          <5>2. L!IsBuy(o)
            BY <3>1 DEF L!IsBuy, IsBuy
          <5> QED
            BY <2>2, <5>1, <5>2
            DEF L!CanReleaseRest, L!ReleaseRest, L!QuoteOf, L!Cost, Cost,
                L!CanRelease, CanRelease, L!Release, Release, L!UpdateAccount, UpdateAccount
        <4>2. n \in Nat /\ q \in DOMAIN accounts
          BY <1>2, <2>1, CostIsNat DEF HasAccounts
        <4>3. \A c \in Currency : Claim(o, c) = IF c = q THEN n ELSE 0
          BY <2>1, <3>1 DEF Claim
        <4> HIDE DEF o, n, q
        <4>4. Sound(accounts') /\ Moved(accounts, accounts', q, 0, n, -n)
          BY <1>2, <4>1, <4>2, ReleaseMoves
        <4>5. /\ DOMAIN accounts' = DOMAIN accounts
              /\ accounts'[q].balance = accounts[q].balance
              /\ accounts'[q].frozen = accounts[q].frozen - n
              /\ \A d \in DOMAIN accounts : d # q => accounts'[d] = accounts[d]
              /\ \A d \in DOMAIN accounts : accounts[d].frozen \in Nat
          BY <1>2, <4>2, <4>4, Columns DEF Moved
        <4>6. \A c \in Currency : BalanceOf(accounts', c) = BalanceOf(accounts, c)
          BY <4>5 DEF BalanceOf
        <4>7. ASSUME NEW c \in Currency
              PROVE  FrozenOf(accounts', c) = FrozenOf(accounts, c) - Claim(o, c)
          <5>1. CASE c = q
            <6>1. Claim(o, c) = n
              BY <4>3, <5>1
            <6> QED
              BY <4>2, <4>5, <5>1, <6>1 DEF FrozenOf
          <5>2. CASE c # q
            <6>1. Claim(o, c) = 0
              BY <4>3, <5>2
            <6>2. FrozenOf(accounts', c) = FrozenOf(accounts, c)
              BY <4>5, <5>2 DEF FrozenOf
            <6>3. FrozenOf(accounts, c) \in Nat
              BY <4>5 DEF FrozenOf
            <6> QED
              BY <6>1, <6>2, <6>3
          <5> QED
            BY <5>1, <5>2
        <4> QED
          BY <4>4, <4>5, <4>6, <4>7
      <3>2. CASE ~IsBuy(o)
        <4>1. accounts' = accounts
          BY <2>2, <3>2 DEF L!ReleaseRest, L!IsBuy, IsBuy
        <4>2. \A c \in Currency : Claim(o, c) = 0
          BY <3>2 DEF Claim
        <4>3. \A c \in Currency : FrozenOf(accounts, c) \in Nat
          BY <1>2, Columns DEF FrozenOf
        <4> HIDE DEF o
        <4>4. ASSUME NEW c \in Currency
              PROVE  FrozenOf(accounts', c) = FrozenOf(accounts, c) - Claim(o, c)
          <5>1. FrozenOf(accounts, c) \in Nat /\ Claim(o, c) = 0
            BY <4>2, <4>3
          <5>2. FrozenOf(accounts', c) = FrozenOf(accounts, c)
            BY <4>1
          <5> QED
            BY <5>1, <5>2
        <4> QED
          BY <1>2, <4>1, <4>4
      <3> QED
        BY <3>1, <3>2
    <2>9. Frozen'
      <3>1. ASSUME NEW c \in Currency
            PROVE  FrozenOf(accounts', c) = FrozenOf(accounts, c)
                     - (IF id \in DOMAIN orders THEN Claim(orders[id], c) ELSE 0)
                     + Claim(orders'[id], c)
        <4> DEFINE f == FrozenOf(accounts, c)
                   k == Claim(o, c)
        <4>1. f \in Nat /\ k \in Nat
          BY <1>2, Columns, ClaimIsNat DEF FrozenOf
        <4>2. FrozenOf(accounts', c) = f - k /\ Claim(orders'[id], c) = 0
          BY <2>7, <2>8
        <4> HIDE DEF f, k
        <4>3. FrozenOf(accounts', c) = f - k + 0
          BY <4>1, <4>2
        <4> QED
          BY <1>1, <4>2, <4>3 DEF f, k
      <3>2. DOMAIN orders' = DOMAIN orders \cup {id}
        BY <1>1, <2>5
      <3> QED
        BY <2>5, <2>6, <3>1, <3>2, OneClaimStep DEF LedgerInv
    <2>10. Rows'
      <3>1. ASSUME NEW j \in DOMAIN orders'
            PROVE  Row(orders'[j]) /\ HasAccounts(accounts', orders'[j])
        <4>1. CASE j = id
          BY <1>2, <2>6, <2>8, <4>1 DEF HasAccounts
        <4>2. CASE j # id
          <5>1. j \in DOMAIN orders /\ orders'[j] = orders[j]
            BY <2>5, <4>2
          <5>2. Row(orders[j]) /\ HasAccounts(accounts, orders[j])
            BY <5>1 DEF LedgerInv, Rows
          <5> QED
            BY <2>8, <5>1, <5>2 DEF HasAccounts
        <4> QED
          BY <4>1, <4>2
      <3>2. Numbered(DOMAIN orders)'
        BY <2>5 DEF LedgerInv, Rows, Numbered
      <3> QED
        BY <3>1, <3>2 DEF Rows, Row, HasAccounts
    <2>11. TypeOK'
      <3>1. orders' \in [DOMAIN orders' -> Order]
        BY <2>3, <2>5, <2>6, LedgerTypes DEF LedgerInv, Row
      <3>2. IsAccounts(accounts') /\ DOMAIN orders' \subseteq OrderId
        BY <2>5, <2>8, LedgerTypes DEF LedgerInv, Sound
      <3> QED
        BY <1>1, <3>1, <3>2, LedgerTypes, LedgerTypesNext DEF LedgerInv
    <2>12. \A i \in DOMAIN orders : orders'[i].request = orders[i].request
      BY <2>5, <2>6
    <2> QED
      BY <1>1, <2>5, <2>8, <2>9, <2>10, <2>11, <2>12 DEF LedgerInv, Sound
  <1> QED
    BY <1>3, <1>4

-----------------------------------------------------------------------------
(***************************************************************************)
(* The sweep part of the inductive invariant                               *)
(***************************************************************************)
\* What is left to sweep are open orders of the sweep's book; what was swept
\* waits, and a sell was only swept when no buy was left that could bring more
\* to sell.
Swept ==
  sweep # NoSweep =>
    /\ sweep.queue \subseteq Book(sweep.kind, sweep.symbol)
    /\ sweep.kind = "limit" =>
         \A i \in Book("limit", sweep.symbol) \ sweep.queue :
           /\ Waits(orders[i], sweep.market)
           /\ ~IsBuy(orders[i]) => \A j \in sweep.queue : ~IsBuy(orders[j])

\* Trades are of known orders, and within their limits.
Traded ==
  /\ \A k \in DOMAIN trades : trades[k].order \in DOMAIN orders
  /\ LimitsAreRespected

SweepInv == Swept /\ Traded

-----------------------------------------------------------------------------
(***************************************************************************)
(* What a sweep that fails goes back to: tables of which the invariant     *)
(* held when the sweep began                                               *)
(***************************************************************************)
ClaimsOf(o, c) == [i \in DOMAIN o |-> Claim(o[i], c)]

Kept(a, o, t, p) ==
  /\ Sound(a)
  /\ DOMAIN o \subseteq OrderId /\ o \in [DOMAIN o -> Order]
  /\ t \in Seq([order : OrderId, price : Nat \ {0}, amount : Nat \ {0}])
  /\ DOMAIN p \subseteq Symbol /\ p \in [DOMAIN p -> Position]
  /\ Numbered(DOMAIN o)
  /\ \A i \in DOMAIN o : Row(o[i]) /\ HasAccounts(a, o[i])
  /\ \A c \in Currency : /\ IsFiniteSet(Units(ClaimsOf(o, c)))
                         /\ FrozenOf(a, c) = Total(ClaimsOf(o, c))
  /\ \A k \in DOMAIN t :
       /\ t[k].order \in DOMAIN o
       /\ LET r == o[t[k].order].request IN
          r.type = "limit" => IF r.side = "buy" THEN t[k].price <= r.price
                                                ELSE t[k].price >= r.price

KeptNow == Kept(accounts, orders, trades, positions)

SweepTyped == sweep \in Sweep \cup {NoSweep}

LEMMA KeptIs == KeptNow /\ SweepTyped <=> LedgerInv /\ Traded
  <1>1. TypeOK <=> /\ IsAccounts(accounts)
                   /\ DOMAIN orders \subseteq OrderId
                   /\ orders \in [DOMAIN orders -> Order]
                   /\ trades \in Seq([order : OrderId, price : Nat \ {0}, amount : Nat \ {0}])
                   /\ DOMAIN positions \subseteq Symbol
                   /\ positions \in [DOMAIN positions -> Position]
                   /\ sweep \in Sweep \cup {NoSweep}
    BY LedgerTypes
  <1>2. Frozen <=> \A c \in Currency :
                     /\ IsFiniteSet(Units(ClaimsOf(orders, c)))
                     /\ FrozenOf(accounts, c) = Total(ClaimsOf(orders, c))
    BY DEF Frozen, Claims, ClaimsOf
  <1>3. Traded <=> \A k \in DOMAIN trades :
                     /\ trades[k].order \in DOMAIN orders
                     /\ LET r == orders[trades[k].order].request IN
                        r.type = "limit" => IF r.side = "buy" THEN trades[k].price <= r.price
                                                              ELSE trades[k].price >= r.price
    BY DEF Traded, LimitsAreRespected, OrderOf, IsBuy
  <1>4. Rows <=> /\ Numbered(DOMAIN orders)
                 /\ \A i \in DOMAIN orders : Row(orders[i]) /\ HasAccounts(accounts, orders[i])
    BY DEF Rows
  <1> QED
    BY <1>1, <1>2, <1>3, <1>4 DEF KeptNow, Kept, SweepTyped, LedgerInv, Sound

LEMMA KeptIsNext == KeptNow' /\ SweepTyped' <=> LedgerInv' /\ Traded'
  BY KeptIs, PTL

Undone ==
  sweep # NoSweep => Kept(undo.accounts, undo.orders, undo.trades, undo.positions)

\* A sweep fails.
RollsBack == \E id \in OrderId : SweepFails(id)

LEMMA RolledBack ==
  ASSUME Undone, RollsBack
  PROVE  /\ LedgerInv' /\ Traded'
         /\ sweep # NoSweep /\ sweep' = NoSweep
         /\ accounts' = undo.accounts /\ orders' = undo.orders
         /\ trades' = undo.trades /\ positions' = undo.positions
  <1>1. /\ sweep # NoSweep /\ sweep' = NoSweep
        /\ accounts' = undo.accounts /\ orders' = undo.orders
        /\ trades' = undo.trades /\ positions' = undo.positions
    BY DEF RollsBack, SweepFails, IsNext
  <1>2. KeptNow'
    BY <1>1 DEF Undone, KeptNow
  <1> QED
    BY <1>1, <1>2, KeptIsNext DEF SweepTyped

-----------------------------------------------------------------------------
(***************************************************************************)
(* Every step                                                              *)
(***************************************************************************)
\* One fill, of a new order or of one of the queue.
Filling(acc, id, o, p) ==
  Ready(acc, id, o) /\ Fair(o, p) /\ Fill(acc, id, o, p)

\* The sweep in progress.
LEMMA SweepFields ==
  ASSUME LedgerInv, sweep # NoSweep
  PROVE  /\ sweep \in Sweep
         /\ sweep.kind \in {"limit", "trigger"}
         /\ sweep.symbol \in Symbol
         /\ sweep.market \in Price
         /\ sweep.queue \subseteq OrderId
  BY LedgerTypes DEF LedgerInv, Sweep

\* The order whose turn it is.
LEMMA SweepOrderCases ==
  ASSUME LedgerInv, Swept, NEW id \in OrderId, SweepOrder(id)
  PROVE  /\ id \in sweep.queue /\ id \in Book(sweep.kind, sweep.symbol)
         /\ sweep' \in Sweep
         /\ sweep'.kind = sweep.kind /\ sweep'.symbol = sweep.symbol
         /\ sweep'.market = sweep.market /\ sweep'.queue = sweep.queue \ {id}
         /\ \/ /\ Waits(orders[id], sweep.market)
               /\ UNCHANGED <<ledger, positions>>
            \/ /\ ~Waits(orders[id], sweep.market)
               /\ Filling(accounts, id, orders[id],
                          ExecutionPrice(sweep.kind, orders[id], sweep.market))
  <1> DEFINE o == orders[id]
             p == ExecutionPrice(sweep.kind, o, sweep.market)
  <1>1. sweep # NoSweep /\ id \in sweep.queue
    BY DEF SweepOrder, IsNext
  <1>2. /\ sweep \in Sweep
        /\ sweep.kind \in {"limit", "trigger"}
        /\ sweep.market \in Price
    BY <1>1, SweepFields
  <1>3. id \in Book(sweep.kind, sweep.symbol)
    BY <1>1 DEF Swept
  <1>4. sweep' = [sweep EXCEPT !.queue = @ \ {id}]
    BY DEF SweepOrder
  <1>5. /\ sweep' \in Sweep
        /\ sweep'.kind = sweep.kind /\ sweep'.symbol = sweep.symbol
        /\ sweep'.market = sweep.market /\ sweep'.queue = sweep.queue \ {id}
    BY <1>2, <1>4 DEF Sweep
  <1>6. /\ Row(o) /\ o.request.type \in TypesOf(sweep.kind)
        /\ o.request.price \in Price /\ Ready(accounts, id, o)
    BY <1>3, QueuedIsOpen
  <1>7. Fair(o, p)
    BY <1>2, <1>6, SweepPriceIsFair
  <1>8. CASE Waits(o, sweep.market)
    <2>1. UNCHANGED <<ledger, positions>>
      BY <1>8 DEF SweepOrder
    <2> QED
      BY <1>1, <1>3, <1>5, <1>8, <2>1
  <1>9. CASE ~Waits(o, sweep.market)
    <2>1. Fill(accounts, id, o, p)
      BY <1>9 DEF SweepOrder
    <2> QED
      BY <1>1, <1>3, <1>5, <1>6, <1>7, <1>9, <2>1 DEF Filling
  <1> QED
    BY <1>8, <1>9

\* Every step leaves the tables alone, places an order, cancels one, fills one or
\* undoes a sweep.
LEMMA Steps ==
  ASSUME LedgerInv, Swept, [Next]_vars
  PROVE  /\ sweep' \in Sweep \cup {NoSweep}
         /\ \/ UNCHANGED <<ledger, positions>>
            \/ \E id \in OrderId, s \in Symbol, type \in OrderType \ {"market"},
                  side \in OrderSide, n \in Amount, price \in Price :
                 PlaceOrder(id, s, type, side, n, price)
            \/ \E id \in OrderId : Cancel(id)
            \/ \E acc, id, o, p : Filling(acc, id, o, p)
            \/ RollsBack
  <1>1. sweep \in Sweep \cup {NoSweep} /\ DOMAIN orders \subseteq OrderId
    BY LedgerTypes DEF LedgerInv
  <1>2. CASE UNCHANGED vars
    BY <1>1, <1>2 DEF vars, running
  <1>3. ASSUME NEW id \in OrderId, NEW s \in Symbol, NEW side \in OrderSide,
               NEW n \in Amount, NEW p \in Price, ExecuteMarketOrder(id, s, side, n, p)
        PROVE  /\ sweep' = NoSweep
               /\ \E acc, i, o, price : Filling(acc, i, o, price)
    BY <1>3, MarketOrderFills DEF Filling
  <1>4. ASSUME NEW id \in OrderId, NEW s \in Symbol, NEW type \in OrderType \ {"market"},
               NEW side \in OrderSide, NEW n \in Amount, NEW p \in Price,
               PlaceOrder(id, s, type, side, n, p)
        PROVE  sweep' = sweep
    BY <1>4 DEF PlaceOrder, running
  <1>5. ASSUME NEW kind \in {"limit", "trigger"}, NEW s \in Symbol, NEW p \in Price,
               StartSweep(kind, s, p)
        PROVE  sweep' \in Sweep /\ UNCHANGED <<ledger, positions>>
    <2>1. Book(kind, s) \subseteq OrderId
      BY <1>1 DEF Book
    <2> QED
      BY <1>5, <2>1 DEF StartSweep, Sweep
  <1>6. ASSUME NEW id \in OrderId, SweepOrder(id)
        PROVE  /\ sweep' \in Sweep
               /\ \/ UNCHANGED <<ledger, positions>>
                  \/ \E acc, i, o, p : Filling(acc, i, o, p)
    BY <1>6, SweepOrderCases
  <1>7. ASSUME EndSweep
        PROVE  sweep' = NoSweep /\ UNCHANGED <<ledger, positions>>
    BY <1>7 DEF EndSweep
  <1>8. ASSUME NEW id \in OrderId, Cancel(id)
        PROVE  sweep' = sweep
    BY <1>8 DEF Cancel, running
  <1>9. CASE Place
    <2>1. PICK id \in OrderId, s \in Symbol, side \in OrderSide, n \in Amount, p \in Price :
            \/ ExecuteMarketOrder(id, s, side, n, p)
            \/ \E type \in OrderType \ {"market"} : PlaceOrder(id, s, type, side, n, p)
      BY <1>9 DEF Place
    <2>2. CASE ExecuteMarketOrder(id, s, side, n, p)
      BY <1>3, <2>2
    <2>3. CASE \E type \in OrderType \ {"market"} : PlaceOrder(id, s, type, side, n, p)
      BY <1>1, <1>4, <2>3
    <2> QED
      BY <2>1, <2>2, <2>3
  <1>10. CASE Process
    <2>1. CASE \E kind \in {"limit", "trigger"}, s \in Symbol, p \in Price :
                 StartSweep(kind, s, p)
      BY <1>5, <2>1
    <2>2. CASE \E id \in OrderId : SweepOrder(id)
      BY <1>6, <2>2
    <2>3. CASE EndSweep
      BY <1>7, <2>3
    <2>4. CASE RollsBack
      <3>1. sweep' = NoSweep
        BY <2>4 DEF RollsBack, SweepFails
      <3> QED
        BY <2>4, <3>1
    <2> QED
      BY <1>10, <2>1, <2>2, <2>3, <2>4 DEF Process, RollsBack
  <1>11. CASE \E id \in OrderId : Cancel(id)
    BY <1>1, <1>8, <1>11
  <1> QED
    BY <1>2, <1>9, <1>10, <1>11 DEF Next

\* The ledger part is inductive.
LEMMA LedgerStep ==
  ASSUME LedgerInv, Swept, Undone, [Next]_vars
  PROVE  LedgerInv'
  <1>1. sweep' \in Sweep \cup {NoSweep}
    BY Steps
  <1>2. CASE UNCHANGED <<ledger, positions>>
    BY <1>1, <1>2, QuietLedger
  <1>3. CASE \E id \in OrderId, s \in Symbol, type \in OrderType \ {"market"},
                side \in OrderSide, n \in Amount, price \in Price :
               PlaceOrder(id, s, type, side, n, price)
    BY <1>3, PlaceLedger
  <1>4. CASE \E id \in OrderId : Cancel(id)
    BY <1>4, CancelLedger
  <1>5. CASE \E acc, id, o, p : Filling(acc, id, o, p)
    BY <1>1, <1>5, FillLedger DEF Filling, Fair
  <1>6. CASE RollsBack
    BY <1>6, RolledBack
  <1> QED
    BY <1>2, <1>3, <1>4, <1>5, <1>6, Steps

\* The requests of the orders never change, but when a sweep is undone.
LEMMA RequestsStay ==
  ASSUME LedgerInv, Swept, [Next]_vars, ~RollsBack
  PROVE  /\ DOMAIN orders \subseteq DOMAIN orders'
         /\ \A i \in DOMAIN orders : orders'[i].request = orders[i].request
  <1>1. CASE UNCHANGED <<ledger, positions>>
    BY <1>1 DEF ledger
  <1>2. ASSUME NEW id \in OrderId, NEW s \in Symbol, NEW type \in OrderType \ {"market"},
               NEW side \in OrderSide, NEW n \in Amount, NEW price \in Price,
               PlaceOrder(id, s, type, side, n, price)
        PROVE  /\ DOMAIN orders \subseteq DOMAIN orders'
               /\ \A i \in DOMAIN orders : orders'[i].request = orders[i].request
    <2>1. id \notin DOMAIN orders
      BY <1>2, NextNumber DEF PlaceOrder, LedgerInv, Rows
    <2> QED
      BY <1>2, <2>1 DEF PlaceOrder
  <1>3. ASSUME NEW id \in OrderId, Cancel(id)
        PROVE  /\ DOMAIN orders \subseteq DOMAIN orders'
               /\ \A i \in DOMAIN orders : orders'[i].request = orders[i].request
    BY <1>3, CancelLedger
  <1>4. ASSUME NEW acc, NEW id, NEW o, NEW p, Filling(acc, id, o, p)
        PROVE  /\ DOMAIN orders \subseteq DOMAIN orders'
               /\ \A i \in DOMAIN orders : orders'[i].request = orders[i].request
    BY <1>4 DEF Filling, Fill, Ready
  <1> QED
    BY <1>1, <1>2, <1>3, <1>4, Steps

\* The trades table grows by the trades of fills only.
LEMMA TradesStep ==
  ASSUME LedgerInv, Swept, [Next]_vars, ~RollsBack
  PROVE  \/ trades' = trades
         \/ \E acc, id, o, p : Filling(acc, id, o, p)
  <1>1. (UNCHANGED <<ledger, positions>>) => trades' = trades
    BY DEF ledger
  <1>2. ASSUME NEW id \in OrderId, NEW s \in Symbol, NEW type \in OrderType \ {"market"},
               NEW side \in OrderSide, NEW n \in Amount, NEW price \in Price,
               PlaceOrder(id, s, type, side, n, price)
        PROVE  trades' = trades
    BY <1>2 DEF PlaceOrder
  <1>3. ASSUME NEW id \in OrderId, Cancel(id)
        PROVE  trades' = trades
    BY <1>3, CancelLedger
  <1> QED
    BY <1>1, <1>2, <1>3, Steps

\* A recorded trade, and where it stands in the table.
LEMMA TradeRecorded ==
  ASSUME LedgerInv, NEW acc, NEW id, NEW o, NEW p, Filling(acc, id, o, p)
  PROVE  /\ Len(trades) \in Nat
         /\ DOMAIN trades = 1..Len(trades)
         /\ DOMAIN trades' = DOMAIN trades \cup {Len(trades) + 1}
         /\ Len(trades) + 1 \notin DOMAIN trades
         /\ \A k \in DOMAIN trades : trades'[k] = trades[k]
         /\ trades'[Len(trades) + 1] = [order |-> id, price |-> p, amount |-> Rest(o)]
  <1> DEFINE t == [order |-> id, price |-> p, amount |-> Rest(o)]
             T == [order : OrderId, price : Nat \ {0}, amount : Nat \ {0}]
  <1>1. trades \in Seq(T)
    BY LedgerTypes DEF LedgerInv
  <1>2. id \in OrderId /\ p \in Nat \ {0} /\ Rest(o) \in Nat \ {0}
    BY OpenRest DEF Filling, Ready, Fair
  <1>3. t \in T
    BY <1>2
  <1>4. trades' = Append(trades, t)
    BY DEF Filling, Fill
  <1> HIDE DEF t, T
  <1>5. /\ Len(Append(trades, t)) = Len(trades) + 1
        /\ \A k \in 1..Len(trades) : Append(trades, t)[k] = trades[k]
        /\ Append(trades, t)[Len(trades) + 1] = t
        /\ Append(trades, t) \in Seq(T)
    BY <1>1, <1>3, AppendProperties
  <1>6. /\ Len(trades) \in Nat /\ DOMAIN trades = 1..Len(trades)
        /\ DOMAIN Append(trades, t) = 1..(Len(trades) + 1)
    BY <1>1, <1>5, LenProperties
  <1> QED
    BY <1>4, <1>5, <1>6 DEF t

\* Trades are of known orders and within their limits.
LEMMA TradedStep ==
  ASSUME LedgerInv, Swept, Traded, Undone, [Next]_vars
  PROVE  Traded'
  <1>0. CASE RollsBack
    BY <1>0, RolledBack
  <1> SUFFICES ASSUME ~RollsBack
               PROVE  Traded'
    BY <1>0
  <1>1. /\ DOMAIN orders \subseteq DOMAIN orders'
        /\ \A i \in DOMAIN orders : orders'[i].request = orders[i].request
    BY RequestsStay
  <1>2. CASE trades' = trades
    BY <1>1, <1>2 DEF Traded, LimitsAreRespected, OrderOf, IsBuy
  <1>3. ASSUME NEW acc, NEW id, NEW o, NEW p, Filling(acc, id, o, p)
        PROVE  Traded'
    <2>1. /\ DOMAIN trades' = DOMAIN trades \cup {Len(trades) + 1}
          /\ \A k \in DOMAIN trades : trades'[k] = trades[k]
          /\ trades'[Len(trades) + 1] = [order |-> id, price |-> p, amount |-> Rest(o)]
      BY <1>3, TradeRecorded
    <2>2. id \in DOMAIN orders' /\ orders'[id].request = o.request
      BY <1>3 DEF Filling, Fill
    <2>3. Fair(o, p)
      BY <1>3 DEF Filling
    <2>4. ASSUME NEW k \in DOMAIN trades'
          PROVE  /\ trades'[k].order \in DOMAIN orders'
                 /\ LET r == orders'[trades'[k].order].request IN
                    r.type = "limit" =>
                      IF r.side = "buy" THEN trades'[k].price <= r.price
                                        ELSE trades'[k].price >= r.price
      <3>1. CASE k \in DOMAIN trades
        <4>1. trades[k].order \in DOMAIN orders /\ trades'[k] = trades[k]
          BY <2>1, <3>1 DEF Traded
        <4>2. LET r == orders[trades[k].order].request IN
              r.type = "limit" =>
                IF r.side = "buy" THEN trades[k].price <= r.price
                                  ELSE trades[k].price >= r.price
          BY <3>1 DEF Traded, LimitsAreRespected, OrderOf, IsBuy
        <4> QED
          BY <1>1, <4>1, <4>2
      <3>2. CASE k = Len(trades) + 1
        <4>1. trades'[k].order = id /\ trades'[k].price = p
          BY <2>1, <3>2
        <4> QED
          BY <2>2, <2>3, <4>1 DEF Fair, IsBuy
      <3> QED
        BY <2>1, <3>1, <3>2
    <2> QED
      BY <2>4 DEF Traded, LimitsAreRespected, OrderOf, IsBuy
  <1> QED
    BY <1>2, <1>3, TradesStep

\* What a wait depends on.
LEMMA SameBook ==
  ASSUME orders' = orders, NEW kind, NEW s
  PROVE  Book(kind, s)' = Book(kind, s)
  BY DEF Book

\* Filling an order takes it out of its book, and out of no other order's way.
LEMMA FillBook ==
  ASSUME LedgerInv, NEW id \in DOMAIN orders, NEW p,
         Filling(accounts, id, orders[id], p), NEW kind, NEW s
  PROVE  Book(kind, s)' = Book(kind, s) \ {id}
  <1>1. /\ DOMAIN orders' = DOMAIN orders
        /\ \A j \in DOMAIN orders : j # id => orders'[j] = orders[j]
        /\ orders'[id].status = "filled"
    BY FilledRow DEF Filling, Fill
  <1> QED
    BY <1>1 DEF Book, Fillable

\* Once a sell is filled, no other sell of the symbol has more to sell.
LEMMA SellTakesCapacity ==
  ASSUME LedgerInv, NEW id \in DOMAIN orders, NEW p,
         Filling(accounts, id, orders[id], p), ~IsBuy(orders[id]), NEW n \in Nat,
         LET s == orders[id].request.symbol IN
           /\ Base[s] \in DOMAIN accounts'
           /\ accounts'[Base[s]].available + Tolerance >= n
           /\ s \in DOMAIN positions'
           /\ positions'[s].amount + Tolerance >= n
  PROVE  HasSellCapacity(accounts, orders[id].request.symbol, n)
  <1> DEFINE o == orders[id]
             s == o.request.symbol
             b == Base[s]
             m == o.request.amount
  <1>1. /\ Row(o) /\ o.status = "open" /\ CanFill(accounts, o)
        /\ accounts' = FillAccounts(accounts, o, p)
        /\ Sound(accounts) /\ p \in Nat \ {0}
    BY DEF Filling, Ready, Fair, Fill
  <1>2. m \in Nat /\ Rest(o) = m
    BY <1>1, OpenRest
  <1>3. /\ DOMAIN accounts' = DOMAIN accounts
        /\ accounts'[b].available = accounts[b].available - m
    BY <1>1, SellMoves
  <1>4. b \in DOMAIN accounts
    BY <1>3
  <1>5. accounts[b].available \in Nat
    BY <1>1, <1>4, Columns
  <1>6. accounts[b].available + Tolerance >= n
    <2>1. accounts'[b].available + Tolerance >= n
      OBVIOUS
    <2> HIDE DEF b, m
    <2> QED
      BY <1>2, <1>3, <1>5, <2>1, PriceAssumption
  <1>7. s \in DOMAIN positions
    BY <1>1 DEF CanFill, HasUnits
  <1>8. positions' = SellPosition(positions, s, m, p)
    BY <1>2 DEF Filling, Fill, FillPosition
  <1>9. positions \in [DOMAIN positions -> Position]
    BY LedgerTypes DEF LedgerInv
  <1>10. positions[s].amount \in Nat
    BY <1>7, <1>9 DEF Position
  <1>11. positions'[s].amount
           = IF positions[s].amount > m THEN positions[s].amount - m ELSE 0
    <2> HIDE DEF s, m
    <2> QED
      BY <1>1, <1>2, <1>7, <1>8, <1>9, SellPositionTyped
  <1>12. positions[s].amount + Tolerance >= n
    <2>1. positions'[s].amount + Tolerance >= n
      OBVIOUS
    <2> HIDE DEF s, m
    <2> QED
      BY <1>2, <1>10, <1>11, <2>1, PriceAssumption
  <1> QED
    BY <1>4, <1>6, <1>7, <1>12 DEF HasSellCapacity, HasUnits

\* A sell is only taken from the limit queue when no buy is left in it.
LEMMA BuysFirst ==
  ASSUME NEW id, SweepOrder(id), sweep.kind = "limit", ~IsBuy(orders[id]),
         NEW j \in sweep.queue, j # id
  PROVE  ~IsBuy(orders[j])
  BY DEF SweepOrder, IsNext, RanksBefore, IsBuy

\* A sell order waits when the market is below its price or there is not enough
\* to sell; which of both changes with the accounts and positions only.
Short(acc, pos, s, n) ==
  ~( /\ Base[s] \in DOMAIN acc /\ acc[Base[s]].available + Tolerance >= n
     /\ s \in DOMAIN pos /\ pos[s].amount + Tolerance >= n )

\* Order o, as one of a limit queue of which Q is left, was rightly passed over.
Passed(acc, pos, ords, o, m, Q) ==
  IF o.request.side = "buy" THEN ~(m <= o.request.price) \/ Rest(o) <= Tolerance
  ELSE /\ \A j \in Q : ords[j].request.side # "buy"
       /\ \/ ~(m >= o.request.price) \/ Rest(o) <= Tolerance
          \/ Short(acc, pos, o.request.symbol, Rest(o))

\* Swept, spelled out for the limit queue.
SweptPlainly ==
  sweep # NoSweep =>
    /\ sweep.queue \subseteq Book(sweep.kind, sweep.symbol)
    /\ sweep.kind = "limit" =>
         \A i \in Book("limit", sweep.symbol) \ sweep.queue :
           Passed(accounts, positions, orders, orders[i], sweep.market, sweep.queue)

LEMMA SweptMeans == Swept <=> SweptPlainly
  <1> DEFINE s == sweep.symbol
             m == sweep.market
             B == Book("limit", s)
  <1>1. \A i \in B : orders[i].request.type = "limit"
    BY DEF Book, TypesOf
  <1>2. ASSUME NEW i \in B
        PROVE  Passed(accounts, positions, orders, orders[i], m, sweep.queue)
                 <=> /\ Waits(orders[i], m)
                     /\ ~IsBuy(orders[i]) => \A j \in sweep.queue : ~IsBuy(orders[j])
    <2> DEFINE o == orders[i]
    <2>1. o.request.type = "limit"
      BY <1>1
    <2>2. CASE IsBuy(o)
      BY <2>1, <2>2 DEF Passed, IsBuy, Waits, Triggered
    <2>3. CASE ~IsBuy(o)
      <3>1. Triggered(o, m) <=> m >= o.request.price
        BY <2>1, <2>3 DEF Triggered
      <3>2. Waits(o, m) <=> \/ ~(m >= o.request.price) \/ Rest(o) <= Tolerance
                            \/ Short(accounts, positions, o.request.symbol, Rest(o))
        BY <2>3, <3>1 DEF Waits, HasSellCapacity, HasUnits, Short
      <3> QED
        BY <2>3, <3>2 DEF Passed, IsBuy
    <2> QED
      BY <2>2, <2>3
  <1> QED
    BY <1>2 DEF Swept, SweptPlainly

LEMMA SweptMeansNext == Swept' <=> SweptPlainly'
  BY SweptMeans, PTL

\* One order of the queue.
LEMMA SweptOrder ==
  ASSUME LedgerInv, Swept, NEW id \in OrderId, SweepOrder(id)
  PROVE  Swept'
  <1> DEFINE k == sweep.kind
             s == sweep.symbol
             m == sweep.market
             Q == sweep.queue
             o == orders[id]
  <1>1. /\ id \in Q /\ id \in Book(k, s)
        /\ sweep'.kind = k /\ sweep'.symbol = s
        /\ sweep'.market = m /\ sweep'.queue = Q \ {id}
    BY SweepOrderCases
  <1>2. /\ sweep # NoSweep
        /\ Q \subseteq Book(k, s)
        /\ k = "limit" => \A i \in Book("limit", s) \ Q :
                            Passed(accounts, positions, orders, orders[i], m, Q)
    BY SweptMeans DEF SweptPlainly, SweepOrder, IsNext
  <1>3. /\ id \in DOMAIN orders /\ Row(o) /\ o.status = "open"
        /\ o.request.symbol = s
        /\ o.request.type \in TypesOf(k)
    BY <1>1, QueuedIsOpen
  <1>5. CASE Waits(o, m) /\ UNCHANGED <<ledger, positions>>
    <2>1. orders' = orders /\ accounts' = accounts /\ positions' = positions
      BY <1>5 DEF ledger
    <2>2. Book(sweep.kind, sweep.symbol)' = Book(k, s)
          /\ Book("limit", sweep.symbol)' = Book("limit", s)
      BY <1>1, <2>1 DEF Book
    <2>3. ASSUME k = "limit", NEW i \in Book("limit", s) \ (Q \ {id})
          PROVE  Passed(accounts, positions, orders, orders[i], m, Q \ {id})
      <3>1. CASE i = id
        <4>1. IsBuy(o) => ~(m <= o.request.price) \/ Rest(o) <= Tolerance
          BY <1>3, <1>5, <2>3 DEF Waits, Triggered, TypesOf
        <4>2. ~IsBuy(o) => \/ ~(m >= o.request.price) \/ Rest(o) <= Tolerance
                           \/ Short(accounts, positions, s, Rest(o))
          BY <1>3, <1>5, <2>3
          DEF Waits, Triggered, TypesOf, HasSellCapacity, HasUnits, Short
        <4>3. ~IsBuy(o) => \A j \in Q \ {id} : ~IsBuy(orders[j])
          BY <2>3, BuysFirst
        <4> QED
          BY <1>3, <3>1, <4>1, <4>2, <4>3 DEF Passed, IsBuy
      <3>2. CASE i # id
        <4>1. Passed(accounts, positions, orders, orders[i], m, Q)
          BY <1>2, <2>3, <3>2
        <4> QED
          BY <4>1 DEF Passed
      <3> QED
        BY <3>1, <3>2
    <2>4. SweptPlainly'
      <3>1. sweep'.queue \subseteq Book(sweep.kind, sweep.symbol)'
        BY <1>1, <1>2, <2>2
      <3>2. ASSUME sweep'.kind = "limit", NEW i \in Book("limit", sweep.symbol)' \ sweep'.queue
            PROVE  Passed(accounts', positions', orders', orders'[i], sweep'.market,
                          sweep'.queue)
        BY <1>1, <2>1, <2>2, <2>3, <3>2
      <3> QED
        BY <3>1, <3>2 DEF SweptPlainly, Passed, Short, Rest
    <2> QED
      BY <2>4, SweptMeansNext
  <1>6. CASE Filling(accounts, id, o, ExecutionPrice(k, o, m))
    <2>1. /\ DOMAIN orders' = DOMAIN orders
          /\ \A j \in DOMAIN orders : j # id => orders'[j] = orders[j]
          /\ orders'[id].request = o.request
          /\ orders'[id].status = "filled"
      <3>1. \A j \in DOMAIN orders : j # id => orders'[j] = orders[j]
        BY <1>6 DEF Filling, Fill
      <3> DEFINE p == ExecutionPrice(k, o, m)
      <3>2. Ready(accounts, id, o) /\ Fill(accounts, id, o, p)
        BY <1>6 DEF Filling
      <3> HIDE DEF p
      <3>3. DOMAIN orders' = DOMAIN orders
        BY <1>3, <3>2 DEF Fill
      <3>4. orders'[id].request = o.request /\ orders'[id].status = "filled"
        BY <3>2, FilledRow
      <3> QED
        BY <3>1, <3>3, <3>4
    <2>2. Book(sweep.kind, sweep.symbol)' = Book(k, s) \ {id}
          /\ Book("limit", sweep.symbol)' = Book("limit", s) \ {id}
      BY <1>1, <2>1 DEF Book, Fillable
    <2>3. ASSUME k = "limit", NEW i \in Book("limit", s) \ {id}, i \notin Q \ {id}
          PROVE  Passed(accounts', positions', orders', orders'[i], m, Q \ {id})
      <3>1. i \in Book("limit", s) \ Q /\ orders'[i] = orders[i]
        BY <2>1, <2>3 DEF Book
      <3>0. Rest(orders'[i]) = Rest(orders[i])
        BY <3>1
      <3>2. Passed(accounts, positions, orders, orders[i], m, Q)
        BY <1>2, <2>3, <3>1
      <3>3. CASE IsBuy(orders[i])
        BY <3>1, <3>2, <3>3 DEF Passed, IsBuy
      <3>4. CASE ~IsBuy(orders[i])
        <4> DEFINE n == Rest(orders[i])
        <4>1. ~IsBuy(o)
          BY <1>1, <3>2, <3>4 DEF Passed, IsBuy
        <4>2. \A j \in Q \ {id} : orders'[j].request.side # "buy"
          BY <1>2, <2>1, <3>2, <3>4 DEF Passed, IsBuy, Book
        <4>3. orders[i].request.symbol = s /\ n \in Nat
          <5>1. i \in Book("limit", s)
            BY <3>1
          <5> QED
            BY <5>1, QueuedIsOpen, OpenRest
        <4>4. Short(accounts, positions, s, n) => Short(accounts', positions', s, n)
          <5>1. HasSellCapacity(accounts, s, n) <=> ~Short(accounts, positions, s, n)
            BY DEF HasSellCapacity, HasUnits, Short
          <5> HIDE DEF n
          <5>2. ~Short(accounts', positions', s, n) => HasSellCapacity(accounts, s, n)
            <6> DEFINE p == ExecutionPrice(k, o, m)
            <6>1. Filling(accounts, id, orders[id], p)
              BY <1>6
            <6> HIDE DEF p
            <6> QED
              BY <1>3, <4>1, <4>3, <6>1, SellTakesCapacity DEF Short
          <5> QED
            BY <5>1, <5>2
        <4> QED
          BY <3>1, <3>2, <3>4, <4>2, <4>3, <4>4 DEF Passed, IsBuy
      <3> QED
        BY <3>3, <3>4
    <2>4. SweptPlainly'
      <3>1. sweep'.queue \subseteq Book(sweep.kind, sweep.symbol)'
        BY <1>1, <1>2, <2>2
      <3>2. ASSUME sweep'.kind = "limit", NEW i \in Book("limit", sweep.symbol)' \ sweep'.queue
            PROVE  Passed(accounts', positions', orders', orders'[i], sweep'.market,
                          sweep'.queue)
        BY <1>1, <2>2, <2>3, <3>2
      <3> QED
        BY <3>1, <3>2 DEF SweptPlainly, Passed, Short, Rest
    <2> QED
      BY <2>4, SweptMeansNext
  <1> QED
    BY <1>5, <1>6, SweepOrderCases

\* Nothing is placed during a sweep.
LEMMA PlaceIsAlone ==
  ASSUME Place
  PROVE  sweep = NoSweep /\ sweep' = NoSweep
  <1>1. PICK id \in OrderId, s \in Symbol, side \in OrderSide, n \in Amount, p \in Price :
          \/ ExecuteMarketOrder(id, s, side, n, p)
          \/ \E type \in OrderType \ {"market"} : PlaceOrder(id, s, type, side, n, p)
    BY DEF Place
  <1>2. CASE ExecuteMarketOrder(id, s, side, n, p)
    BY <1>2 DEF ExecuteMarketOrder, running
  <1>3. ASSUME NEW type \in OrderType \ {"market"}, PlaceOrder(id, s, type, side, n, p)
        PROVE  sweep = NoSweep /\ sweep' = NoSweep
    BY <1>3 DEF PlaceOrder, running
  <1> QED
    BY <1>1, <1>2, <1>3

\* The sweep part is inductive.
LEMMA SweptStep ==
  ASSUME LedgerInv, Swept, [Next]_vars
  PROVE  Swept'
  <1>1. ASSUME NEW id \in OrderId, SweepOrder(id)
        PROVE  Swept'
    BY <1>1, SweptOrder
  <1>2. ASSUME sweep' = NoSweep
        PROVE  Swept'
    BY <1>2 DEF Swept
  <1>3. CASE UNCHANGED vars
    <2>1. SweptPlainly'
      BY <1>3, SweptMeans DEF vars, ledger, running, SweptPlainly, Book, Passed, Short, Rest
    <2> QED
      BY <2>1, SweptMeansNext
  <1>4. ASSUME NEW kind \in {"limit", "trigger"}, NEW s \in Symbol, NEW p \in Price,
               StartSweep(kind, s, p)
        PROVE  Swept'
    <2>1. /\ sweep'.queue = Book(kind, s) /\ sweep'.kind = kind /\ sweep'.symbol = s
          /\ orders' = orders
      BY <1>4 DEF StartSweep, ledger
    <2>2. /\ Book(sweep.kind, sweep.symbol)' = Book(kind, s)
          /\ Book("limit", sweep.symbol)' = Book("limit", s)
      BY <2>1 DEF Book
    <2>3. SweptPlainly'
      BY <2>1, <2>2 DEF SweptPlainly
    <2> QED
      BY <2>3, SweptMeansNext
  <1>5. CASE Place
    <2>1. sweep' = NoSweep
      BY <1>5, PlaceIsAlone
    <2> QED
      BY <1>2, <2>1
  <1>6. CASE Process
    <2>1. EndSweep => sweep' = NoSweep
      BY DEF EndSweep
    <2>2. \A id \in OrderId : SweepFails(id) => sweep' = NoSweep
      BY DEF SweepFails
    <2> QED
      BY <1>1, <1>2, <1>4, <1>6, <2>1, <2>2 DEF Process
  <1>7. CASE \E id \in OrderId : Cancel(id)
    <2>1. sweep' = NoSweep
      BY <1>7 DEF Cancel, running
    <2> QED
      BY <1>2, <2>1
  <1> QED
    BY <1>3, <1>5, <1>6, <1>7 DEF Next

\* What a sweep goes back to stays as it was.
LEMMA UndoneStep ==
  ASSUME LedgerInv, Swept, Traded, Undone, [Next]_vars
  PROVE  Undone'
  <1>1. CASE sweep' = NoSweep
    BY <1>1 DEF Undone
  <1>2. CASE sweep' = sweep /\ undo' = undo
    BY <1>2 DEF Undone
  <1>3. ASSUME NEW kind \in {"limit", "trigger"}, NEW s \in Symbol, NEW p \in Price,
               StartSweep(kind, s, p)
        PROVE  Undone'
    <2>1. undo' = [accounts |-> accounts, orders |-> orders, trades |-> trades,
                   positions |-> positions]
      BY <1>3 DEF StartSweep, Tables
    <2>2. Kept(accounts, orders, trades, positions)
      BY KeptIs DEF KeptNow
    <2>3. Kept(undo'.accounts, undo'.orders, undo'.trades, undo'.positions)
      BY <2>1, <2>2
    <2> QED
      BY <2>3 DEF Undone
  <1>4. ASSUME NEW id \in OrderId, SweepOrder(id)
        PROVE  Undone'
    <2>1. sweep # NoSweep /\ undo' = undo
      BY <1>4 DEF SweepOrder, IsNext
    <2> QED
      BY <2>1 DEF Undone
  <1>5. CASE Process
    <2>1. EndSweep => sweep' = NoSweep
      BY DEF EndSweep
    <2>2. \A id \in OrderId : SweepFails(id) => sweep' = NoSweep
      BY DEF SweepFails
    <2> QED
      BY <1>1, <1>3, <1>4, <1>5, <2>1, <2>2 DEF Process
  <1>6. Place => sweep' = NoSweep
    BY PlaceIsAlone
  <1>7. (\E id \in OrderId : Cancel(id)) => sweep' = NoSweep
    BY DEF Cancel, running
  <1>8. (UNCHANGED vars) => sweep' = sweep /\ undo' = undo
    BY DEF vars, running
  <1> QED
    BY <1>1, <1>2, <1>5, <1>6, <1>7, <1>8 DEF Next

\* The first state: one account, and nothing else.
LEMMA InitFacts ==
  ASSUME Init
  PROVE  /\ DOMAIN orders = {} /\ trades = <<>> /\ DOMAIN trades = {}
         /\ DOMAIN positions = {}
         /\ DOMAIN accounts = {BaseCurrency}
         /\ accounts[BaseCurrency] = [balance |-> Capital, available |-> Capital, frozen |-> 0]
         /\ accounts = [c \in {BaseCurrency} |-> accounts[c]]
         /\ sweep = NoSweep
  BY DEF Init, OpenAccount

LEMMA LedgerAtInit == Init => LedgerInv
  <1> SUFFICES ASSUME Init PROVE LedgerInv
    OBVIOUS
  <1>1. Capital \in Nat /\ BaseCurrency \in Currency
    BY SymbolAssumption
  <1>2. Sound(accounts)
    <2>1. accounts[BaseCurrency] \in Account
      BY <1>1, InitFacts DEF Account
    <2>2. Capital = Capital + 0
      BY <1>1
    <2> QED
      BY <1>1, <2>1, <2>2, InitFacts DEF Sound, IsAccounts, Balanced
  <1>3. TypeOK
    <2>1. orders \in [DOMAIN orders -> Order] /\ positions \in [DOMAIN positions -> Position]
      BY DEF Init
    <2>2. trades \in Seq([order : OrderId, price : Nat \ {0}, amount : Nat \ {0}])
      BY InitFacts, EmptySeq
    <2> QED
      BY <1>2, <2>1, <2>2, InitFacts, LedgerTypes DEF Sound
  <1>4. Rows
    <2>1. DOMAIN orders = 1..0
      BY InitFacts
    <2> QED
      BY <2>1 DEF Rows, Numbered
  <1>5. Frozen
    <2> SUFFICES ASSUME NEW c \in Currency
                 PROVE  /\ IsFiniteSet(Units(Claims(c)))
                        /\ FrozenOf(accounts, c) = Total(Claims(c))
      BY DEF Frozen
    <2>1. \A i \in DOMAIN Claims(c) : Claims(c)[i] = 0
      BY InitFacts DEF Claims
    <2>2. FrozenOf(accounts, c) = 0
      BY InitFacts DEF FrozenOf
    <2> QED
      BY <2>1, <2>2, TotalZero
  <1> QED
    BY <1>2, <1>3, <1>4, <1>5 DEF LedgerInv

EngineInv == LedgerInv /\ Swept /\ Traded /\ Undone

LEMMA EngineInit == Init => EngineInv
  BY LedgerAtInit, InitFacts DEF EngineInv, Swept, Traded, Undone, LimitsAreRespected

LEMMA EngineStep == EngineInv /\ [Next]_vars => EngineInv'
  BY LedgerStep, SweptStep, TradedStep, UndoneStep DEF EngineInv

\* Tables are typed, accounts balanced, orders whole, frozen money claimed, the
\* queue of a sweep in order, limits respected, and the same of the tables that a
\* sweep which fails goes back to: inductive, for every instance.
THEOREM EngineInductive == Spec => []EngineInv
  BY EngineInit, EngineStep, PTL DEF Spec

\* An open buy of the queue: its money is frozen.
LEMMA ClaimIsFrozen ==
  ASSUME LedgerInv, NEW id \in DOMAIN orders, IsBuy(orders[id]), orders[id].status = "open"
  PROVE  CanConsumeFrozen(accounts, Quote[orders[id].request.symbol],
                          Cost(orders[id], orders[id].request.amount))
  <1> DEFINE o == orders[id]
             q == Quote[o.request.symbol]
             n == Cost(o, o.request.amount)
  <1>1. Row(o) /\ q \in DOMAIN accounts /\ Sound(accounts)
    BY DEF LedgerInv, Rows, HasAccounts
  <1>2. q \in Currency /\ n \in Nat /\ n > 0
    BY <1>1, RowFields, CostIsNat
  <1>3. Claims(q)[id] = n /\ id \in DOMAIN Claims(q)
    BY DEF Claims, Claim
  <1>4. IsFiniteSet(Units(Claims(q))) /\ accounts[q].frozen = Total(Claims(q))
    BY <1>1, <1>2 DEF LedgerInv, Frozen, FrozenOf
  <1> HIDE DEF q, n
  <1>5. n <= Total(Claims(q))
    BY <1>2, <1>3, <1>4, TotalBounds
  <1>6. Total(Claims(q)) \in Nat
    BY <1>4, TotalBounds
  <1>7. CanConsumeFrozen(accounts, q, n)
    BY <1>1, <1>2, <1>4, <1>5, <1>6 DEF CanConsumeFrozen, CanRelease
  <1> QED
    BY <1>7 DEF q, n

\* A sweep fails by the tolerance only (process_open_limit_orders and its twin for
\* triggers): a buy never fails, its money is frozen; a sell fails only if the
\* account falls short of it by no more than has_sell_capacity overlooks.
THEOREM SweepsFailOnlyShort == Spec => []SweepsFailByToleranceOnly
  <1>1. LedgerInv /\ Swept => SweepsFailByToleranceOnly
    <2> SUFFICES ASSUME LedgerInv, Swept, sweep # NoSweep, NEW id \in sweep.queue,
                        ~Waits(orders[id], sweep.market)
                 PROVE  LET o == orders[id]
                            c == Base[o.request.symbol]
                        IN  \/ CanFill(accounts, o)
                            \/ ~IsBuy(o) /\ Rest(o) - accounts[c].available \in 1..Tolerance
      BY DEF SweepsFailByToleranceOnly
    <2> DEFINE o == orders[id]
               s == o.request.symbol
               c == Base[s]
    <2>1. /\ id \in DOMAIN orders /\ Row(o) /\ o.status = "open"
          /\ Rest(o) = o.request.amount /\ Rest(o) \in Nat \ {0}
      BY QueuedIsOpen, OpenRest DEF Swept
    <2>2. {c, Quote[s]} \subseteq DOMAIN accounts
      BY <2>1 DEF LedgerInv, Rows, HasAccounts
    <2>3. CASE IsBuy(o)
      <3>1. CanConsumeFrozen(accounts, Quote[s], Cost(o, Rest(o)))
        BY <2>1, <2>3, ClaimIsFrozen
      <3> QED
        BY <2>1, <2>2, <2>3, <3>1 DEF CanFill, Fillable
    <2>4. CASE ~IsBuy(o)
      <3> DEFINE n == Rest(o)
                 f == accounts[c].available
      <3>1. HasSellCapacity(accounts, s, n)
        BY <2>4 DEF Waits
      <3>2. f + Tolerance >= n /\ HasUnits(s, n)
        BY <3>1 DEF HasSellCapacity
      <3>3. f \in Nat
        BY <2>2, Columns DEF LedgerInv
      <3>4. CASE f >= n
        <4>1. CanConsumeAvailable(accounts, c, n)
          BY <2>1, <2>2, <3>4 DEF CanConsumeAvailable, CanFreeze
        <4> QED
          BY <2>1, <2>2, <2>4, <3>2, <4>1 DEF CanFill, Fillable
      <3>5. CASE ~(f >= n)
        <4>1. n \in Nat
          BY <2>1
        <4> HIDE DEF n, f
        <4>2. n - f \in 1..Tolerance
          BY <3>2, <3>3, <3>5, <4>1, PriceAssumption
        <4> QED
          BY <2>4, <4>2 DEF n, f
      <3> QED
        BY <3>4, <3>5
    <2> QED
      BY <2>3, <2>4
  <1> QED
    BY <1>1, EngineInductive, PTL DEF EngineInv

\* A sweep of the limit queue leaves no order behind that it could fill, and no
\* limit order is filled beyond its limit (process_open_limit_orders).
THEOREM LimitsAreServed == Spec => []LimitOrdersAreServed
  <1>1. LedgerInv /\ Swept => LimitSweepExhausts
    <2> SUFFICES ASSUME LedgerInv, Swept, sweep # NoSweep, sweep.kind = "limit",
                        sweep.queue = {}, NEW i \in Book("limit", sweep.symbol)
                 PROVE  LET o == orders[i] IN
                        \/ Rest(o) <= Tolerance
                        \/ IF IsBuy(o) THEN sweep.market > o.request.price
                           ELSE \/ sweep.market < o.request.price
                                \/ ~HasSellCapacity(accounts, sweep.symbol, Rest(o))
      BY DEF LimitSweepExhausts
    <2> DEFINE o == orders[i]
               m == sweep.market
    <2>1. /\ Row(o) /\ o.request.symbol = sweep.symbol
          /\ o.request.price \in Price
      BY QueuedIsOpen
    <2>2. o.request.price \in Nat /\ m \in Nat
      BY <2>1, SweepFields, PriceAssumption
    <2>3. Passed(accounts, positions, orders, o, m, {})
      BY SweptMeans DEF SweptPlainly
    <2>4. CASE IsBuy(o)
      BY <2>2, <2>3, <2>4 DEF Passed, IsBuy
    <2>5. CASE ~IsBuy(o)
      BY <2>1, <2>2, <2>3, <2>5 DEF Passed, IsBuy, Short, HasSellCapacity, HasUnits
    <2> QED
      BY <2>4, <2>5
  <1>2. EngineInv => LimitOrdersAreServed
    BY <1>1 DEF EngineInv, Traded, LimitOrdersAreServed
  <1> QED
    BY <1>2, EngineInductive, PTL

\* Price-time priority (_load_open_limit_orders): when a limit order is filled,
\* every order of its side the rule puts first could not have been.
THEOREM PriorityHolds == Spec => PriorityIsRespected
  <1>1. ASSUME EngineInv, [Next]_vars, NEW id \in DOMAIN orders,
               sweep # NoSweep, sweep' # NoSweep, sweep.kind = "limit",
               orders'[id] # orders[id],
               NEW i \in Book("limit", sweep.symbol), i # id,
               orders[i].request.side = orders[id].request.side,
               \/ orders[i].request.price = orders[id].request.price /\ i < id
               \/ /\ orders[i].request.side = "buy"
                  /\ orders[i].request.price > orders[id].request.price
               \/ /\ orders[i].request.side = "sell"
                  /\ orders[i].request.price < orders[id].request.price
        PROVE  Waits(orders[i], sweep.market)
    <2>1. SweepOrder(id)
      <3>1. ASSUME NEW j \in OrderId, SweepOrder(j)
            PROVE  j = id
        <4>1. CASE j # id
          <5>1. orders'[id] = orders[id]
            BY <3>1, <4>1 DEF SweepOrder, Fill, ledger
          <5> QED
            BY <1>1, <5>1
        <4> QED
          BY <4>1
      <3>2. ~ UNCHANGED vars
        BY <1>1 DEF vars, ledger
      <3>3. ~ Place /\ ~ \E j \in OrderId : Cancel(j)
        BY <1>1, PlaceIsAlone DEF Cancel
      <3>6. ~ RollsBack
        BY <1>1 DEF RollsBack, SweepFails
      <3>4. Process
        BY <1>1, <3>2, <3>3 DEF Next
      <3>5. PICK j \in OrderId : SweepOrder(j)
        BY <1>1, <3>4, <3>6 DEF Process, RollsBack, StartSweep, EndSweep, ledger
      <3> QED
        BY <3>1, <3>5
    <2>2. i \in DOMAIN orders /\ Row(orders[i]) /\ Row(orders[id])
      BY <1>1, QueuedIsOpen DEF EngineInv, LedgerInv, Rows
    <2>3. /\ orders[i].request.price \in Nat /\ orders[id].request.price \in Nat
          /\ i \in Nat /\ id \in Nat
      BY <1>1, <2>2, RowFields, LedgerTypes DEF EngineInv, LedgerInv, OrderId
    <2>4. ~RanksBefore("limit", id, i)
      BY <1>1, <2>3 DEF RanksBefore
    <2>5. i \notin sweep.queue
      BY <1>1, <2>1, <2>4 DEF SweepOrder, IsNext
    <2> QED
      BY <1>1, <2>5 DEF EngineInv, Swept
  <1>2. EngineInv /\ [Next]_vars =>
          [\A id \in DOMAIN orders :
             ( /\ sweep # NoSweep /\ sweep' # NoSweep /\ sweep.kind = "limit"
               /\ orders'[id] # orders[id] ) =>
               \A i \in Book("limit", sweep.symbol) :
                 LET a == orders[i].request
                     b == orders[id].request
                 IN  ( /\ i # id /\ a.side = b.side
                       /\ \/ a.price = b.price /\ i < id
                          \/ a.side = "buy" /\ a.price > b.price
                          \/ a.side = "sell" /\ a.price < b.price )
                       => Waits(orders[i], sweep.market)]_vars
    BY <1>1
  <1> QED
    BY <1>2, EngineInductive, PTL DEF Spec, PriorityIsRespected

\* The frozen money is what the open buys hold, through all engines.
THEOREM EnginesFrozenIsHeld == Spec => []FrozenIsHeld
  <1>1. ASSUME LedgerInv
        PROVE  FrozenIsHeld
    <2> SUFFICES ASSUME NEW c \in DOMAIN accounts
                 PROVE  accounts[c].frozen = L!Total(L!HeldIn(c))
      BY DEF FrozenIsHeld, L!FrozenIsHeld
    <2>1. c \in Currency
      BY <1>1, Columns DEF LedgerInv
    <2>2. ASSUME NEW i \in DOMAIN orders
          PROVE  (IF i \in L!BuysIn(c) THEN L!Held(orders[i]) ELSE 0) = Claim(orders[i], c)
      <3> DEFINE o == orders[i]
      <3>1. Row(o)
        BY <1>1 DEF LedgerInv, Rows
      <3>2. o.request.amount - 0 = o.request.amount
        BY <3>1, RowFields
      <3>3. o.status = "open" => o.filled = 0
        BY <3>1 DEF Row
      <3>4. o.status # "open" => o.status \in {"filled", "canceled"}
        BY <3>1 DEF Row
      <3>5. CASE o.status = "open"
        BY <3>2, <3>3, <3>5
        DEF L!BuysIn, L!IsBuy, L!QuoteOf, L!Held, L!Live, L!Terminal, L!Cost,
            Claim, IsBuy, Cost
      <3>6. CASE o.status # "open"
        BY <3>4, <3>6
        DEF L!BuysIn, L!IsBuy, L!QuoteOf, L!Held, L!Live, L!Terminal, Claim
      <3> QED
        BY <3>5, <3>6
    <2>3. L!HeldIn(c) = Claims(c)
      BY <2>2 DEF L!HeldIn, Claims
    <2>4. accounts[c].frozen = Total(Claims(c))
      BY <1>1, <2>1 DEF LedgerInv, Frozen, FrozenOf
    <2>5. L!Total(Claims(c)) = Total(Claims(c))
      <3>1. \A S : L!Cardinality(S) = Cardinality(S)
        BY DEF L!Cardinality, Cardinality
      <3>2. L!Units(Claims(c)) = Units(Claims(c))
        BY DEF L!Units, Units
      <3> QED
        BY <3>1, <3>2 DEF L!Total, Total
    <2> QED
      BY <2>3, <2>4, <2>5
  <1> QED
    BY <1>1, EngineInductive, PTL DEF EngineInv

-----------------------------------------------------------------------------
(***************************************************************************)
(* The books                                                               *)
(*                                                                         *)
(* What the books say depends on the orders only through the request each  *)
(* trade belongs to, which never changes.  The trades are therefore read   *)
(* with their requests, as entries; a fill adds one entry and moves every  *)
(* sum over the entries by what that entry contributes.                    *)
(***************************************************************************)
\* The price a trade is charged at: see Charged.
ChargeOf(req, p) == IF req.type \in TypesOf("trigger") THEN req.price ELSE p

EntryOf(req, t) ==
  [symbol |-> req.symbol, side |-> req.side, amount |-> t.amount, price |-> t.price,
   charge |-> ChargeOf(req, t.price)]

EntriesOf(o, t) == [k \in DOMAIN t |-> EntryOf(o[t[k].order].request, t[k])]

Entries == EntriesOf(orders, trades)

Entry == [symbol : Symbol, side : OrderSide, amount : Nat \ {0}, price : Nat \ {0},
          charge : Nat \ {0}]

\* What an entry contributes to the sum of the amounts, of what the trades were
\* worth, and of what they were charged.
Measures == {"amount", "worth", "charge"}

Value(e, col) ==
  IF col = "amount" THEN e.amount
  ELSE IF col = "worth" THEN e.amount * e.price
  ELSE e.amount * e.charge

Terms(E, s, side, col) ==
  [k \in DOMAIN E |-> IF E[k].symbol = s /\ E[k].side = side THEN Value(E[k], col) ELSE 0]

Flow(E, s, side, col) == Total(Terms(E, s, side, col))

Flows(E, S, side, col) == [s \in S |-> Flow(E, s, side, col)]

Sum(E, S, side, col) == Total(Flows(E, S, side, col))

\* Every sum is finite.
Summed(E) ==
  \A side \in OrderSide, col \in Measures :
    /\ \A s \in Symbol : IsFiniteSet(Units(Terms(E, s, side, col)))
    /\ \A c \in Currency : /\ IsFiniteSet(Units(Flows(E, PaidIn(c), side, col)))
                           /\ IsFiniteSet(Units(Flows(E, BasedOn(c), side, col)))

\* BalancesFollowTrades, for every currency: an account that is not open yet has
\* seen no trade.
BalanceAdds(b, E, c) ==
  b + Sum(E, PaidIn(c), "buy", "charge")
    = Start(c) + Sum(E, BasedOn(c), "buy", "amount") + Sum(E, PaidIn(c), "sell", "worth")
      - Sum(E, BasedOn(c), "sell", "amount")

\* PositionsFollowTrades, for one position: the units that were sold without
\* being there are at most so many for each sale.
Sales(E, s) == {k \in DOMAIN E : E[k].symbol = s /\ E[k].side = "sell"}

Missing(pos, E, s) == pos.amount + Flow(E, s, "sell", "amount") - Flow(E, s, "buy", "amount")

PositionAdds(pos, E, s) ==
  /\ Missing(pos, E, s) \in 0..(Tolerance * Cardinality(Sales(E, s)))
  /\ Missing(pos, E, s) = 0 =>
       (pos.realized.num - (Flow(E, s, "sell", "worth") - Flow(E, s, "buy", "worth"))
                             * pos.realized.den) * pos.entry.den
         = pos.amount * pos.entry.num * pos.realized.den

\* The same for every symbol: one without a row has seen no trade.
Books(acc, pos, E) ==
  /\ Summed(E)
  /\ \A c \in Currency : BalanceAdds(BalanceOf(acc, c), E, c)
  /\ \A s \in Symbol :
       /\ IsFiniteSet(Sales(E, s))
       /\ IF s \in DOMAIN pos THEN PositionAdds(pos[s], E, s)
          ELSE \A side \in OrderSide, col \in {"amount", "worth"} : Flow(E, s, side, col) = 0

\* E1 is E with the entry e added.
Adds(E, E1, e) ==
  \E k : /\ k \notin DOMAIN E
         /\ DOMAIN E1 = DOMAIN E \cup {k}
         /\ \A j \in DOMAIN E : E1[j] = E[j]
         /\ E1[k] = e

LEMMA ValueIsNat ==
  ASSUME NEW e \in Entry, NEW col \in Measures
  PROVE  Value(e, col) \in Nat
  <1>1. e.amount \in Nat /\ e.price \in Nat /\ e.charge \in Nat
    BY DEF Entry
  <1> QED
    BY <1>1, Product DEF Value

\* Adding an entry moves the sum of its symbol and side, and no other.
LEMMA FlowGrows ==
  ASSUME NEW E, NEW E1, NEW e \in Entry, Adds(E, E1, e),
         NEW s, NEW side, NEW col \in Measures,
         IsFiniteSet(Units(Terms(E, s, side, col)))
  PROVE  /\ IsFiniteSet(Units(Terms(E1, s, side, col)))
         /\ Flow(E, s, side, col) \in Nat
         /\ Flow(E1, s, side, col) \in Nat
         /\ Flow(E1, s, side, col) = Flow(E, s, side, col)
              + (IF e.symbol = s /\ e.side = side THEN Value(e, col) ELSE 0)
  <1> DEFINE f == Terms(E, s, side, col)
             g == Terms(E1, s, side, col)
             v == IF e.symbol = s /\ e.side = side THEN Value(e, col) ELSE 0
  <1>1. PICK k : /\ k \notin DOMAIN E
                 /\ DOMAIN E1 = DOMAIN E \cup {k}
                 /\ \A j \in DOMAIN E : E1[j] = E[j]
                 /\ E1[k] = e
    BY DEF Adds
  <1>2. /\ DOMAIN f = DOMAIN E /\ DOMAIN g = DOMAIN E1
        /\ g[k] = v
        /\ \A j \in DOMAIN f : g[j] = f[j]
    BY <1>1 DEF Terms
  <1>3. v \in Nat
    BY ValueIsNat
  <1>4. IsFiniteSet(Units(f))
    OBVIOUS
  <1> HIDE DEF f, g, v
  <1>5. k \notin DOMAIN f /\ DOMAIN g = DOMAIN f \cup {k} /\ g[k] \in Nat
    BY <1>1, <1>2, <1>3
  <1>6. IsFiniteSet(Units(g)) /\ Total(g) = Total(f) - 0 + g[k]
    BY <1>2, <1>4, <1>5, TotalUpdate
  <1>7. Total(f) \in Nat /\ Total(g) \in Nat
    BY <1>4, <1>6, TotalBounds
  <1>8. Total(g) = Total(f) + v
    BY <1>2, <1>3, <1>6, <1>7
  <1> QED
    BY <1>6, <1>7, <1>8 DEF Flow, f, g, v

\* The same for the sum over the symbols of S.
LEMMA SumGrows ==
  ASSUME NEW E, NEW E1, NEW e \in Entry, Adds(E, E1, e), NEW S,
         NEW side, NEW col \in Measures,
         \A s \in S : IsFiniteSet(Units(Terms(E, s, side, col))),
         IsFiniteSet(Units(Flows(E, S, side, col)))
  PROVE  /\ IsFiniteSet(Units(Flows(E1, S, side, col)))
         /\ Sum(E, S, side, col) \in Nat
         /\ Sum(E1, S, side, col) \in Nat
         /\ Sum(E1, S, side, col) = Sum(E, S, side, col)
              + (IF e.symbol \in S /\ e.side = side THEN Value(e, col) ELSE 0)
  <1> DEFINE f == Flows(E, S, side, col)
             g == Flows(E1, S, side, col)
             x == e.symbol
             v == IF e.side = side THEN Value(e, col) ELSE 0
  <1>1. \A s \in S : /\ Flow(E, s, side, col) \in Nat
                     /\ Flow(E1, s, side, col) \in Nat
                     /\ Flow(E1, s, side, col) = Flow(E, s, side, col)
                          + (IF x = s /\ e.side = side THEN Value(e, col) ELSE 0)
    BY FlowGrows
  <1>2. v \in Nat
    BY ValueIsNat
  <1>3. /\ DOMAIN f = S /\ DOMAIN g = S
        /\ \A s \in S : f[s] \in Nat /\ g[s] \in Nat
        /\ \A s \in S : s # x => g[s] = f[s]
        /\ x \in S => g[x] = f[x] + v
    BY <1>1 DEF Flows
  <1>4. IsFiniteSet(Units(f))
    OBVIOUS
  <1>5. f = [s \in DOMAIN f |-> f[s]] /\ g = [s \in DOMAIN g |-> g[s]]
    BY DEF Flows
  <1>6. (IF x \in S /\ e.side = side THEN Value(e, col) ELSE 0)
          = IF x \in S THEN v ELSE 0
    OBVIOUS
  <1> HIDE DEF f, g, x, v
  <1>7. Total(f) \in Nat
    BY <1>4, TotalBounds
  <1>8. CASE x \in S
    <2>1. DOMAIN g = DOMAIN f \cup {x} /\ x \in DOMAIN f /\ g[x] \in Nat /\ f[x] \in Nat
      BY <1>3, <1>8
    <2>2. \A s \in DOMAIN f : s # x => g[s] = f[s]
      BY <1>3
    <2>3. IsFiniteSet(Units(g)) /\ Total(g) = Total(f) - f[x] + g[x]
      BY <1>4, <2>1, <2>2, TotalUpdate
    <2>4. Total(g) = Total(f) + v
      BY <1>2, <1>3, <1>7, <1>8, <2>1, <2>3
    <2>5. Total(g) \in Nat
      BY <1>2, <1>7, <2>4
    <2> QED
      BY <1>6, <1>7, <1>8, <2>3, <2>4, <2>5 DEF Sum, f, g, x, v
  <1>9. CASE x \notin S
    <2>1. g = f
      BY <1>3, <1>5, <1>9
    <2>2. Total(g) = Total(f) + 0
      BY <1>7, <2>1
    <2> QED
      BY <1>4, <1>6, <1>7, <1>9, <2>1, <2>2 DEF Sum, f, g, x, v
  <1> QED
    BY <1>8, <1>9

\* The sums stay finite.
LEMMA SummedGrows ==
  ASSUME NEW E, NEW E1, NEW e \in Entry, Adds(E, E1, e), Summed(E)
  PROVE  Summed(E1)
  <1> SUFFICES ASSUME NEW side \in OrderSide, NEW col \in Measures
               PROVE  /\ \A s \in Symbol : IsFiniteSet(Units(Terms(E1, s, side, col)))
                      /\ \A c \in Currency :
                           /\ IsFiniteSet(Units(Flows(E1, PaidIn(c), side, col)))
                           /\ IsFiniteSet(Units(Flows(E1, BasedOn(c), side, col)))
    BY DEF Summed
  <1>1. \A s \in Symbol : IsFiniteSet(Units(Terms(E, s, side, col)))
    BY DEF Summed
  <1>2. \A s \in Symbol : IsFiniteSet(Units(Terms(E1, s, side, col)))
    BY <1>1, FlowGrows
  <1>3. ASSUME NEW c \in Currency
        PROVE  /\ IsFiniteSet(Units(Flows(E1, PaidIn(c), side, col)))
               /\ IsFiniteSet(Units(Flows(E1, BasedOn(c), side, col)))
    <2>1. /\ IsFiniteSet(Units(Flows(E, PaidIn(c), side, col)))
          /\ IsFiniteSet(Units(Flows(E, BasedOn(c), side, col)))
      BY DEF Summed
    <2>2. PaidIn(c) \subseteq Symbol /\ BasedOn(c) \subseteq Symbol
      BY DEF PaidIn, BasedOn
    <2>3. /\ \A s \in PaidIn(c) : IsFiniteSet(Units(Terms(E, s, side, col)))
          /\ \A s \in BasedOn(c) : IsFiniteSet(Units(Terms(E, s, side, col)))
      BY <1>1, <2>2
    <2>4. IsFiniteSet(Units(Flows(E1, PaidIn(c), side, col)))
      BY <2>1, <2>3, SumGrows
    <2>5. IsFiniteSet(Units(Flows(E1, BasedOn(c), side, col)))
      BY <2>1, <2>3, SumGrows
    <2> QED
      BY <2>4, <2>5
  <1> QED
    BY <1>2, <1>3

\* How an entry moves the sums of a currency.
LEMMA CurrencyGrows ==
  ASSUME NEW E, NEW E1, NEW e \in Entry, Adds(E, E1, e), Summed(E), NEW c \in Currency,
         NEW side \in OrderSide, NEW col \in Measures
  PROVE  /\ Sum(E, PaidIn(c), side, col) \in Nat
         /\ Sum(E1, PaidIn(c), side, col) = Sum(E, PaidIn(c), side, col)
              + (IF Quote[e.symbol] = c /\ e.side = side THEN Value(e, col) ELSE 0)
         /\ Sum(E, BasedOn(c), side, col) \in Nat
         /\ Sum(E1, BasedOn(c), side, col) = Sum(E, BasedOn(c), side, col)
              + (IF Base[e.symbol] = c /\ e.side = side THEN Value(e, col) ELSE 0)
  <1>1. /\ IsFiniteSet(Units(Flows(E, PaidIn(c), side, col)))
        /\ IsFiniteSet(Units(Flows(E, BasedOn(c), side, col)))
        /\ \A s \in PaidIn(c) : IsFiniteSet(Units(Terms(E, s, side, col)))
        /\ \A s \in BasedOn(c) : IsFiniteSet(Units(Terms(E, s, side, col)))
    BY DEF Summed, PaidIn, BasedOn
  <1>2. /\ e.symbol \in PaidIn(c) <=> Quote[e.symbol] = c
        /\ e.symbol \in BasedOn(c) <=> Base[e.symbol] = c
    BY DEF PaidIn, BasedOn, Entry
  <1>3. /\ Sum(E, PaidIn(c), side, col) \in Nat
        /\ Sum(E1, PaidIn(c), side, col) = Sum(E, PaidIn(c), side, col)
             + (IF e.symbol \in PaidIn(c) /\ e.side = side THEN Value(e, col) ELSE 0)
    BY <1>1, SumGrows
  <1>4. /\ Sum(E, BasedOn(c), side, col) \in Nat
        /\ Sum(E1, BasedOn(c), side, col) = Sum(E, BasedOn(c), side, col)
             + (IF e.symbol \in BasedOn(c) /\ e.side = side THEN Value(e, col) ELSE 0)
    BY <1>1, SumGrows
  <1> QED
    BY <1>2, <1>3, <1>4

\* What an entry brings into the account of c.
Brings(e, c) ==
  IF e.side = "buy"
  THEN (IF Base[e.symbol] = c THEN e.amount ELSE 0)
         - (IF Quote[e.symbol] = c THEN e.amount * e.charge ELSE 0)
  ELSE (IF Quote[e.symbol] = c THEN e.amount * e.price ELSE 0)
         - (IF Base[e.symbol] = c THEN e.amount ELSE 0)

\* A balance that moves by what the entry brings still adds up.
LEMMA BalanceGrows ==
  ASSUME NEW E, NEW E1, NEW e \in Entry, Adds(E, E1, e), Summed(E), NEW c \in Currency,
         NEW b \in Int, BalanceAdds(b, E, c)
  PROVE  BalanceAdds(b + Brings(e, c), E1, c)
  <1> DEFINE A == Value(e, "amount")
             W == Value(e, "worth")
             C == Value(e, "charge")
             inQuote == Quote[e.symbol] = c
             inBase  == Base[e.symbol] = c
             pb == Sum(E, PaidIn(c), "buy", "charge")
             bb == Sum(E, BasedOn(c), "buy", "amount")
             ps == Sum(E, PaidIn(c), "sell", "worth")
             bs == Sum(E, BasedOn(c), "sell", "amount")
             pb1 == Sum(E1, PaidIn(c), "buy", "charge")
             bb1 == Sum(E1, BasedOn(c), "buy", "amount")
             ps1 == Sum(E1, PaidIn(c), "sell", "worth")
             bs1 == Sum(E1, BasedOn(c), "sell", "amount")
  <1>1. "amount" \in Measures /\ "worth" \in Measures /\ "charge" \in Measures
        /\ "buy" \in OrderSide /\ "sell" \in OrderSide
    BY DEF Measures, OrderSide
  <1>2. A \in Nat /\ W \in Nat /\ C \in Nat
    BY <1>1, ValueIsNat
  <1>3. A = e.amount /\ W = e.amount * e.price /\ C = e.amount * e.charge
    BY DEF Value
  <1>4. /\ pb \in Nat /\ pb1 = pb + (IF inQuote /\ e.side = "buy" THEN C ELSE 0)
        /\ bb \in Nat /\ bb1 = bb + (IF inBase /\ e.side = "buy" THEN A ELSE 0)
    BY <1>1, CurrencyGrows
  <1>5. /\ ps \in Nat /\ ps1 = ps + (IF inQuote /\ e.side = "sell" THEN W ELSE 0)
        /\ bs \in Nat /\ bs1 = bs + (IF inBase /\ e.side = "sell" THEN A ELSE 0)
    BY <1>1, CurrencyGrows
  <1>6. b + pb = Start(c) + bb + ps - bs
    BY DEF BalanceAdds
  <1>7. Start(c) \in Nat
    BY SymbolAssumption DEF Start
  <1>8. e.side = "buy" \/ e.side = "sell"
    BY DEF Entry, OrderSide
  <1>9. Brings(e, c) = IF e.side = "buy"
                       THEN (IF inBase THEN A ELSE 0) - (IF inQuote THEN C ELSE 0)
                       ELSE (IF inQuote THEN W ELSE 0) - (IF inBase THEN A ELSE 0)
    BY <1>3 DEF Brings
  <1> DEFINE s == Start(c)
  <1>10. s \in Nat /\ b + pb = s + bb + ps - bs
    BY <1>6, <1>7
  <1> HIDE DEF A, W, C, inQuote, inBase, pb, bb, ps, bs, pb1, bb1, ps1, bs1, s
  <1>11. CASE e.side = "buy"
    <2>1. /\ pb1 = pb + (IF inQuote THEN C ELSE 0)
          /\ bb1 = bb + (IF inBase THEN A ELSE 0)
          /\ ps1 = ps /\ bs1 = bs
          /\ Brings(e, c) = (IF inBase THEN A ELSE 0) - (IF inQuote THEN C ELSE 0)
      BY <1>4, <1>5, <1>9, <1>11
    <2> DEFINE x == IF inBase THEN A ELSE 0
               y == IF inQuote THEN C ELSE 0
    <2>2. x \in Nat /\ y \in Nat
      BY <1>2
    <2>3. pb1 = pb + y /\ bb1 = bb + x /\ Brings(e, c) = x - y
      BY <2>1
    <2> HIDE DEF x, y
    <2>4. (b + Brings(e, c)) + pb1 = s + bb1 + ps1 - bs1
      BY <1>4, <1>5, <1>10, <2>1, <2>2, <2>3
    <2> QED
      BY <2>4 DEF BalanceAdds, pb1, bb1, ps1, bs1, s
  <1>12. CASE e.side = "sell"
    <2>1. /\ ps1 = ps + (IF inQuote THEN W ELSE 0)
          /\ bs1 = bs + (IF inBase THEN A ELSE 0)
          /\ pb1 = pb /\ bb1 = bb
          /\ Brings(e, c) = (IF inQuote THEN W ELSE 0) - (IF inBase THEN A ELSE 0)
      BY <1>4, <1>5, <1>9, <1>12
    <2> DEFINE x == IF inQuote THEN W ELSE 0
               y == IF inBase THEN A ELSE 0
    <2>2. x \in Nat /\ y \in Nat
      BY <1>2
    <2>3. ps1 = ps + x /\ bs1 = bs + y /\ Brings(e, c) = x - y
      BY <2>1
    <2> HIDE DEF x, y
    <2>4. (b + Brings(e, c)) + pb1 = s + bb1 + ps1 - bs1
      BY <1>4, <1>5, <1>10, <2>1, <2>2, <2>3
    <2> QED
      BY <2>4 DEF BalanceAdds, pb1, bb1, ps1, bs1, s
  <1> QED
    BY <1>8, <1>11, <1>12

-----------------------------------------------------------------------------
(***************************************************************************)
(* The average entry price and the realized profit                         *)
(***************************************************************************)
\* What is left of a product.
LEMMA Distribute ==
  ASSUME NEW a \in Int, NEW b \in Int, NEW c \in Int
  PROVE  /\ (a + b) * c = a * c + b * c
         /\ (a - b) * c = a * c - b * c
         /\ a * b = b * a
         /\ (a * b) * c = a * (b * c)
         /\ a * b \in Int
  OBVIOUS

\* A profit of r/rd, made by money m (spent less received), an amount a and an
\* average entry price e/d explain each other.
Explains(r, rd, m, a, e, d) == (r + m * rd) * d = a * e * rd

\* Buying n units at p: the money, the amount and the average grow.
LEMMA AverageAdds ==
  ASSUME NEW r \in Int, NEW rd \in Int, NEW m \in Int, NEW a \in Int, NEW e \in Int,
         NEW d \in Int, NEW n \in Int, NEW p \in Int, Explains(r, rd, m, a, e, d)
  PROVE  Explains(r, rd, m + n * p, a + n, a * e + n * p * d, (a + n) * d)
  <1> DEFINE w == n * p
             X == r + m * rd
  <1>1. w \in Int /\ X \in Int
    OBVIOUS
  <1>2. X * d = a * e * rd
    BY DEF Explains
  <1>3. r + (m + w) * rd = X + w * rd
    <2>1. (m + w) * rd = m * rd + w * rd
      BY <1>1
    <2> HIDE DEF w
    <2> QED
      BY <1>1, <2>1
  <1> HIDE DEF w, X
  <1>4. (X + w * rd) * ((a + n) * d) = (a + n) * (X * d + w * rd * d)
    BY <1>1
  <1>5. X * d + w * rd * d = (a * e + w * d) * rd
    BY <1>1, <1>2
  <1>6. (a + n) * ((a * e + w * d) * rd) = (a + n) * (a * e + w * d) * rd
    BY <1>1
  <1> QED
    BY <1>3, <1>4, <1>5, <1>6 DEF w, Explains

\* Selling n units at p.
LEMMA ProfitAdds ==
  ASSUME NEW r \in Int, NEW rd \in Int, NEW m \in Int, NEW a \in Int, NEW e \in Int,
         NEW d \in Int, NEW n \in Int, NEW p \in Int, Explains(r, rd, m, a, e, d)
  PROVE  Explains(r * d + (p * d - e) * n * rd, rd * d, m - n * p, a - n, e, d)
  <1> DEFINE X == r + m * rd
             k == n * rd
             w == n * p
  <1>1. X \in Int /\ k \in Int /\ w \in Int
    OBVIOUS
  <1>2. X * d = a * e * rd
    BY DEF Explains
  <1>3. (p * d - e) * n * rd = w * rd * d - e * k
    OBVIOUS
  <1>4. (m - w) * (rd * d) = m * rd * d - w * rd * d
    BY <1>1
  <1>5. (r * d + (p * d - e) * n * rd) + (m - w) * (rd * d) = X * d - e * k
    <2>1. X * d = r * d + m * rd * d
      OBVIOUS
    <2> DEFINE u == w * rd * d
               v == m * rd * d
               t == r * d
               z == e * k
    <2>2. u \in Int /\ v \in Int /\ t \in Int /\ z \in Int
      BY <1>1
    <2>3. t + (u - z) + (v - u) = t + v - z
      <3> HIDE DEF u, v, t, z
      <3> QED
        BY <2>2
    <2> QED
      BY <1>3, <1>4, <2>1, <2>3
  <1> HIDE DEF X, w
  <1>6. X * d - e * k = (a - n) * e * rd
    BY <1>1, <1>2
  <1>7. ((a - n) * e * rd) * d = (a - n) * e * (rd * d)
    OBVIOUS
  <1> QED
    BY <1>5, <1>6, <1>7 DEF w, Explains

-----------------------------------------------------------------------------
(***************************************************************************)
(* A fill and the books                                                    *)
(***************************************************************************)
\* The position of every symbol adds up, or the symbol has seen no trade.
PositionsAdd(pos, E) ==
  \A s \in Symbol :
    /\ IsFiniteSet(Sales(E, s))
    /\ IF s \in DOMAIN pos THEN PositionAdds(pos[s], E, s)
       ELSE \A side \in OrderSide, col \in {"amount", "worth"} : Flow(E, s, side, col) = 0

\* An entry is a sale of its symbol, or of none.
LEMMA SalesGrow ==
  ASSUME NEW E, NEW E1, NEW e, Adds(E, E1, e), NEW s, IsFiniteSet(Sales(E, s))
  PROVE  /\ IsFiniteSet(Sales(E1, s))
         /\ Cardinality(Sales(E, s)) \in Nat
         /\ Cardinality(Sales(E1, s)) = Cardinality(Sales(E, s))
              + (IF e.symbol = s /\ e.side = "sell" THEN 1 ELSE 0)
  <1>1. PICK k : /\ k \notin DOMAIN E
                 /\ DOMAIN E1 = DOMAIN E \cup {k}
                 /\ \A j \in DOMAIN E : E1[j] = E[j]
                 /\ E1[k] = e
    BY DEF Adds
  <1>2. Cardinality(Sales(E, s)) \in Nat
    BY FS_CardinalityType
  <1>3. CASE e.symbol = s /\ e.side = "sell"
    <2>1. Sales(E1, s) = Sales(E, s) \cup {k} /\ k \notin Sales(E, s)
      BY <1>1, <1>3 DEF Sales
    <2> QED
      BY <1>2, <1>3, <2>1, FS_AddElement
  <1>4. CASE ~(e.symbol = s /\ e.side = "sell")
    <2>1. Sales(E1, s) = Sales(E, s)
      BY <1>1, <1>4 DEF Sales
    <2> QED
      BY <1>2, <1>4, <2>1
  <1> QED
    BY <1>3, <1>4

\* How an entry moves the four sums of a symbol.
LEMMA SymbolGrows ==
  ASSUME NEW E, NEW E1, NEW e \in Entry, Adds(E, E1, e), Summed(E), NEW s \in Symbol,
         NEW side \in OrderSide, NEW col \in {"amount", "worth"}
  PROVE  /\ Flow(E, s, side, col) \in Nat
         /\ Flow(E1, s, side, col) \in Nat
         /\ ~(s = e.symbol /\ side = e.side) => Flow(E1, s, side, col) = Flow(E, s, side, col)
         /\ s = e.symbol /\ side = e.side
              => Flow(E1, s, side, col) = Flow(E, s, side, col) + Value(e, col)
  <1>1. col \in Measures
    BY DEF Measures
  <1>2. IsFiniteSet(Units(Terms(E, s, side, col)))
    BY <1>1 DEF Summed
  <1>3. /\ Flow(E, s, side, col) \in Nat
        /\ Flow(E1, s, side, col) \in Nat
        /\ Flow(E1, s, side, col) = Flow(E, s, side, col)
             + (IF e.symbol = s /\ e.side = side THEN Value(e, col) ELSE 0)
    BY <1>1, <1>2, FlowGrows
  <1> QED
    BY <1>3

\* The positions of the other symbols.
LEMMA OtherPositions ==
  ASSUME NEW E, NEW E1, NEW e \in Entry, Adds(E, E1, e), Summed(E),
         NEW pos, NEW new, PositionsAdd(pos, E),
         DOMAIN new = DOMAIN pos \cup {e.symbol},
         \A t \in DOMAIN pos : t # e.symbol => new[t] = pos[t],
         PositionAdds(new[e.symbol], E1, e.symbol)
  PROVE  PositionsAdd(new, E1)
  <1> SUFFICES ASSUME NEW s \in Symbol
               PROVE  IF s \in DOMAIN new THEN PositionAdds(new[s], E1, s)
                      ELSE \A side \in OrderSide, col \in {"amount", "worth"} :
                             Flow(E1, s, side, col) = 0
    <2>1. \A s \in Symbol : IsFiniteSet(Sales(E1, s))
      BY SalesGrow DEF PositionsAdd
    <2> QED
      BY <2>1 DEF PositionsAdd
  <1>1. CASE s = e.symbol
    BY <1>1
  <1>2. CASE s # e.symbol
    <2>1. \A side \in OrderSide, col \in {"amount", "worth"} :
            Flow(E1, s, side, col) = Flow(E, s, side, col)
      BY <1>2, SymbolGrows
    <2>2. /\ Flow(E1, s, "buy", "amount") = Flow(E, s, "buy", "amount")
          /\ Flow(E1, s, "sell", "amount") = Flow(E, s, "sell", "amount")
          /\ Flow(E1, s, "buy", "worth") = Flow(E, s, "buy", "worth")
          /\ Flow(E1, s, "sell", "worth") = Flow(E, s, "sell", "worth")
      BY <2>1 DEF OrderSide
    <2>3. CASE s \in DOMAIN pos
      <3>1. new[s] = pos[s] /\ PositionAdds(pos[s], E, s)
        BY <1>2, <2>3 DEF PositionsAdd
      <3>2. Sales(E1, s) = Sales(E, s)
        BY <1>2 DEF Adds, Sales
      <3> QED
        BY <1>2, <2>2, <2>3, <3>1, <3>2 DEF PositionAdds, Missing
    <2>4. CASE s \notin DOMAIN pos
      BY <1>2, <2>1, <2>4 DEF PositionsAdd
    <2> QED
      BY <2>3, <2>4
  <1> QED
    BY <1>1, <1>2

\* The four sums of a symbol, before and after an entry.
LEMMA SymbolSums ==
  ASSUME NEW E, NEW E1, NEW e \in Entry, Adds(E, E1, e), Summed(E)
  PROVE  LET s == e.symbol IN
         /\ Flow(E, s, "buy", "amount") \in Nat /\ Flow(E, s, "sell", "amount") \in Nat
         /\ Flow(E, s, "buy", "worth") \in Nat /\ Flow(E, s, "sell", "worth") \in Nat
         /\ e.side = "buy" =>
              /\ Flow(E1, s, "buy", "amount") = Flow(E, s, "buy", "amount") + e.amount
              /\ Flow(E1, s, "buy", "worth") = Flow(E, s, "buy", "worth") + e.amount * e.price
              /\ Flow(E1, s, "sell", "amount") = Flow(E, s, "sell", "amount")
              /\ Flow(E1, s, "sell", "worth") = Flow(E, s, "sell", "worth")
         /\ e.side = "sell" =>
              /\ Flow(E1, s, "sell", "amount") = Flow(E, s, "sell", "amount") + e.amount
              /\ Flow(E1, s, "sell", "worth") = Flow(E, s, "sell", "worth") + e.amount * e.price
              /\ Flow(E1, s, "buy", "amount") = Flow(E, s, "buy", "amount")
              /\ Flow(E1, s, "buy", "worth") = Flow(E, s, "buy", "worth")
  <1> DEFINE s == e.symbol
  <1>1. /\ s \in Symbol /\ "buy" \in OrderSide /\ "sell" \in OrderSide
        /\ "amount" \in {"amount", "worth"} /\ "worth" \in {"amount", "worth"}
        /\ "buy" # "sell"
    BY DEF Entry, OrderSide
  <1>2. Value(e, "amount") = e.amount /\ Value(e, "worth") = e.amount * e.price
    BY DEF Value
  <1>3. \A side \in OrderSide, col \in {"amount", "worth"} :
          /\ Flow(E, s, side, col) \in Nat
          /\ side # e.side => Flow(E1, s, side, col) = Flow(E, s, side, col)
          /\ side = e.side => Flow(E1, s, side, col) = Flow(E, s, side, col) + Value(e, col)
    BY <1>1, SymbolGrows
  <1> HIDE DEF s
  <1>4. /\ Flow(E, s, "buy", "amount") \in Nat /\ Flow(E, s, "sell", "amount") \in Nat
        /\ Flow(E, s, "buy", "worth") \in Nat /\ Flow(E, s, "sell", "worth") \in Nat
    BY <1>1, <1>3
  <1>5. CASE e.side = "buy"
    BY <1>1, <1>2, <1>3, <1>4, <1>5 DEF s
  <1>6. CASE e.side = "sell"
    BY <1>1, <1>2, <1>3, <1>4, <1>6 DEF s
  <1> QED
    BY <1>4, <1>5, <1>6 DEF s

\* A buy: the amount grows, the entry price becomes the average.
LEMMA BuyAdds ==
  ASSUME NEW E, NEW E1, NEW e \in Entry, Adds(E, E1, e), Summed(E), e.side = "buy",
         NEW pos, DOMAIN pos \subseteq Symbol, pos \in [DOMAIN pos -> Position],
         PositionsAdd(pos, E)
  PROVE  PositionsAdd(BuyPosition(pos, e.symbol, e.amount, e.price), E1)
  <1> DEFINE s == e.symbol
             n == e.amount
             p == e.price
             new == BuyPosition(pos, s, n, p)
             B == Flow(E, s, "buy", "amount")
             S == Flow(E, s, "sell", "amount")
             W == Flow(E, s, "buy", "worth")
             V == Flow(E, s, "sell", "worth")
  <1>1. /\ B \in Nat /\ S \in Nat /\ W \in Nat /\ V \in Nat
        /\ Flow(E1, s, "buy", "amount") = B + n
        /\ Flow(E1, s, "buy", "worth") = W + n * p
        /\ Flow(E1, s, "sell", "amount") = S
        /\ Flow(E1, s, "sell", "worth") = V
    BY SymbolSums
  <1>2. s \in Symbol /\ n \in Nat /\ p \in Nat
    BY DEF Entry
  <1>3. DOMAIN new = DOMAIN pos \cup {s} /\ \A t \in DOMAIN pos : t # s => new[t] = pos[t]
    BY DEF BuyPosition
  <1>0. /\ Cardinality(Sales(E, s)) \in Nat
        /\ Cardinality(Sales(E1, s)) = Cardinality(Sales(E, s)) + 0
    BY <1>2, SalesGrow DEF PositionsAdd
  <1> DEFINE C == Tolerance * Cardinality(Sales(E, s))
  <1>6. C \in Nat /\ Tolerance * Cardinality(Sales(E1, s)) = C
    <2>1. Cardinality(Sales(E1, s)) = Cardinality(Sales(E, s))
      BY <1>0
    <2> QED
      BY <1>0, <2>1, Product, PriceAssumption
  <1> HIDE DEF C
  <1>4. PositionAdds(new[s], E1, s)
    <2>1. CASE s \in DOMAIN pos
      <3> DEFINE a  == pos[s].amount
                 x  == pos[s].entry.num
                 d  == pos[s].entry.den
                 r  == pos[s].realized.num
                 rd == pos[s].realized.den
                 m  == W - V
      <3>1. pos[s] \in Position
        BY <2>1
      <3>2. a \in Nat /\ x \in Int /\ d \in Int /\ r \in Int /\ rd \in Int
        BY <3>1 DEF Position, Fraction
      <3>3. /\ new[s].amount = a + n
            /\ new[s].entry.num = a * x + n * p * d
            /\ new[s].entry.den = (a + n) * d
            /\ new[s].realized.num = r /\ new[s].realized.den = rd
        BY <2>1 DEF BuyPosition
      <3>4. a + S - B \in 0..C /\ (a + S - B = 0 => (r - (V - W) * rd) * d = a * x * rd)
        BY <1>2, <2>1 DEF PositionsAdd, PositionAdds, Missing, C
      <3> HIDE DEF a, x, d, r, rd, B, S, W, V, s, n, p, new
      <3>5. a + S - B = 0 => (r + m * rd) * d = a * x * rd
        <4>1. r - (V - W) * rd = r + m * rd
          BY <1>1, <3>2
        <4> QED
          BY <3>4, <4>1
      <3>6. m \in Int
        BY <1>1
      <3>7. r - (V - (W + n * p)) * rd = r + (m + n * p) * rd
        <4> DEFINE w == n * p
        <4>1. w \in Int
          BY <1>2
        <4>2. 0 - (V - (W + w)) = m + w
          <5> HIDE DEF w
          <5> QED
            BY <1>1, <4>1
        <4> HIDE DEF w
        <4>3. r - (V - (W + w)) * rd = r + (m + w) * rd
          BY <1>1, <3>2, <4>1
        <4> QED
          BY <4>3 DEF w
      <3> HIDE DEF m
      <3>8. a + S - B = 0 => Explains(r, rd, m + n * p, a + n, a * x + n * p * d, (a + n) * d)
        <4>1. a \in Int /\ n \in Int /\ p \in Int
          BY <1>2, <3>2
        <4> SUFFICES ASSUME a + S - B = 0
                     PROVE  Explains(r, rd, m + n * p, a + n, a * x + n * p * d, (a + n) * d)
          OBVIOUS
        <4>2. Explains(r, rd, m, a, x, d)
          BY <3>5 DEF Explains
        <4> QED
          BY <3>2, <3>6, <4>1, <4>2, AverageAdds
      <3>9. (a + n) + S - (B + n) = a + S - B
        BY <1>1, <1>2, <3>2
      <3>10. Missing(new[s], E1, s) = a + S - B
        BY <1>1, <3>3, <3>9 DEF Missing
      <3> QED
        BY <1>1, <1>6, <3>3, <3>4, <3>7, <3>8, <3>10 DEF PositionAdds, Explains
    <2>2. CASE s \notin DOMAIN pos
      <3>1. /\ new[s].amount = n
            /\ new[s].entry.num = p /\ new[s].entry.den = 1
            /\ new[s].realized.num = 0 /\ new[s].realized.den = 1
        BY <2>2 DEF BuyPosition
      <3>2. B = 0 /\ S = 0 /\ W = 0 /\ V = 0
        BY <1>2, <2>2 DEF PositionsAdd, OrderSide
      <3> HIDE DEF B, S, W, V, s, n, p, new
      <3>3. (0 - (0 - (0 + n * p)) * 1) * 1 = n * p * 1
        BY <1>2
      <3>4. n + 0 - (0 + n) = 0
        BY <1>2
      <3>5. Missing(new[s], E1, s) = 0
        BY <1>1, <3>1, <3>2, <3>4 DEF Missing
      <3> QED
        BY <1>1, <1>6, <3>1, <3>2, <3>3, <3>5 DEF PositionAdds
    <2> QED
      BY <2>1, <2>2
  <1> HIDE DEF new
  <1>5. PositionsAdd(new, E1)
    BY <1>3, <1>4, OtherPositions
  <1> QED
    BY <1>5 DEF new

\* A sale: the amount falls, the profit grows; units that were not there are missing.
LEMMA SellAdds ==
  ASSUME NEW E, NEW E1, NEW e \in Entry, Adds(E, E1, e), Summed(E), e.side = "sell",
         NEW pos, DOMAIN pos \subseteq Symbol, pos \in [DOMAIN pos -> Position],
         e.symbol \in DOMAIN pos, PositionsAdd(pos, E),
         pos[e.symbol].amount + Tolerance >= e.amount
  PROVE  PositionsAdd(SellPosition(pos, e.symbol, e.amount, e.price), E1)
  <1> DEFINE s == e.symbol
             n == e.amount
             p == e.price
             new == SellPosition(pos, s, n, p)
             B == Flow(E, s, "buy", "amount")
             S == Flow(E, s, "sell", "amount")
             W == Flow(E, s, "buy", "worth")
             V == Flow(E, s, "sell", "worth")
             a  == pos[s].amount
             x  == pos[s].entry.num
             d  == pos[s].entry.den
             r  == pos[s].realized.num
             rd == pos[s].realized.den
             m  == W - V
  <1>1. /\ B \in Nat /\ S \in Nat /\ W \in Nat /\ V \in Nat
        /\ Flow(E1, s, "sell", "amount") = S + n
        /\ Flow(E1, s, "sell", "worth") = V + n * p
        /\ Flow(E1, s, "buy", "amount") = B
        /\ Flow(E1, s, "buy", "worth") = W
    BY SymbolSums
  <1>2. s \in Symbol /\ n \in Nat /\ p \in Nat
    BY DEF Entry
  <1>3. DOMAIN new = DOMAIN pos \cup {s} /\ \A t \in DOMAIN pos : t # s => new[t] = pos[t]
    BY DEF SellPosition
  <1>0. /\ Cardinality(Sales(E, s)) \in Nat
        /\ Cardinality(Sales(E1, s)) = Cardinality(Sales(E, s)) + 1
    BY <1>2, SalesGrow DEF PositionsAdd
  <1> DEFINE C == Tolerance * Cardinality(Sales(E, s))
             a1 == IF a > n THEN a - n ELSE 0
  <1>6. C \in Nat /\ Tolerance * Cardinality(Sales(E1, s)) = C + Tolerance
    <2> DEFINE k == Cardinality(Sales(E, s))
    <2>1. k \in Nat /\ Cardinality(Sales(E1, s)) = k + 1
      BY <1>0
    <2> HIDE DEF k
    <2>2. Tolerance * (k + 1) = Tolerance * k + Tolerance /\ Tolerance * k \in Nat
      BY <2>1, Product, PriceAssumption
    <2> QED
      BY <2>1, <2>2 DEF k
  <1> HIDE DEF C
  <1>4. PositionAdds(new[s], E1, s)
    <2>1. pos[s] \in Position
      OBVIOUS
    <2>2. a \in Nat /\ x \in Int /\ d \in Int /\ r \in Int /\ rd \in Int
      BY <2>1 DEF Position, Fraction
    <2>3. /\ new[s].amount = a1
          /\ new[s].entry.num = x /\ new[s].entry.den = d
          /\ new[s].realized.num = r * d + (p * d - x) * n * rd
          /\ new[s].realized.den = rd * d
      BY DEF SellPosition
    <2>4. a + S - B \in 0..C /\ (a + S - B = 0 => (r - (V - W) * rd) * d = a * x * rd)
      BY <1>2 DEF PositionsAdd, PositionAdds, Missing, C
    <2>10. a + Tolerance >= n
      OBVIOUS
    <2> HIDE DEF a, x, d, r, rd, B, S, W, V, s, n, p, new
    <2>5. a + S - B = 0 => (r + m * rd) * d = a * x * rd
      <3>1. r - (V - W) * rd = r + m * rd
        BY <1>1, <2>2
      <3> QED
        BY <2>4, <3>1
    <2>6. m \in Int
      BY <1>1
    <2> DEFINE R == r * d + (p * d - x) * n * rd
    <2>7. R - ((V + n * p) - W) * (rd * d) = R + (m - n * p) * (rd * d)
      <3> DEFINE w == n * p
                 q == rd * d
      <3>1. w \in Int /\ q \in Int
        BY <1>2, <2>2
      <3>2. R \in Int
        <4>1. r * d \in Int /\ p * d - x \in Int
          BY <1>2, <2>2
        <4>2. (p * d - x) * n \in Int
          BY <1>2, <4>1
        <4>3. (p * d - x) * n * rd \in Int
          BY <2>2, <4>2
        <4> QED
          BY <4>1, <4>3
      <3> HIDE DEF w, q, R
      <3>3. R - ((V + w) - W) * q = R + (m - w) * q
        BY <1>1, <3>1, <3>2
      <3> QED
        BY <3>3 DEF w, q
    <2> HIDE DEF m
    <2>8. a + S - B = 0 => Explains(R, rd * d, m - n * p, a - n, x, d)
      <3>1. a \in Int /\ n \in Int /\ p \in Int
        BY <1>2, <2>2
      <3> SUFFICES ASSUME a + S - B = 0
                   PROVE  Explains(R, rd * d, m - n * p, a - n, x, d)
        OBVIOUS
      <3>2. Explains(r, rd, m, a, x, d)
        BY <2>5 DEF Explains
      <3> QED
        BY <2>2, <2>6, <3>1, <3>2, ProfitAdds
    <2>9. /\ a1 + (S + n) - B \in 0..(C + Tolerance)
          /\ a1 + (S + n) - B = 0 => a1 = a - n /\ a + S - B = 0
      <3>1. /\ a \in Nat /\ n \in Nat /\ S \in Nat /\ B \in Nat /\ C \in Nat
            /\ Tolerance \in Nat /\ a + Tolerance >= n
            /\ 0 <= a + S - B /\ a + S - B <= C
        BY <1>1, <1>2, <1>6, <2>2, <2>4, <2>10, PriceAssumption
      <3>2. CASE a > n
        <4>1. a1 = a - n
          BY <3>2
        <4>2. a1 + (S + n) - B = a + S - B
          BY <3>1, <4>1
        <4> QED
          BY <3>1, <4>1, <4>2
      <3>3. CASE ~(a > n)
        <4>1. a1 = 0
          BY <3>3
        <4>2. /\ a1 + (S + n) - B = (a + S - B) + (n - a)
              /\ n - a >= 0 /\ n - a <= Tolerance
          BY <3>1, <3>3, <4>1
        <4> DEFINE g == a + S - B
                   h == n - a
        <4>3. g \in Int /\ h \in Int /\ 0 <= g /\ g <= C /\ 0 <= h /\ h <= Tolerance
          BY <3>1, <4>2
        <4>4. a1 + (S + n) - B = g + h
          BY <4>2
        <4> HIDE DEF g, h, a1
        <4>5. g + h \in 0..(C + Tolerance) /\ (g + h = 0 => g = 0 /\ h = 0)
          BY <3>1, <4>3
        <4>6. h = 0 => a1 = a - n
          BY <3>1, <4>1 DEF h
        <4> QED
          BY <4>4, <4>5, <4>6 DEF g
      <3> QED
        BY <3>2, <3>3
    <2> HIDE DEF a1, R
    <2>11. Missing(new[s], E1, s) = a1 + (S + n) - B
      BY <1>1, <2>3 DEF Missing
    <2>12. Missing(new[s], E1, s) \in 0..(Tolerance * Cardinality(Sales(E1, s)))
      BY <1>6, <2>9, <2>11
    <2>13. ASSUME Missing(new[s], E1, s) = 0
           PROVE  (R - ((V + n * p) - W) * (rd * d)) * d = a1 * x * (rd * d)
      <3>1. a1 = a - n /\ Explains(R, rd * d, m - n * p, a - n, x, d)
        BY <2>8, <2>9, <2>11, <2>13
      <3> QED
        BY <2>7, <3>1 DEF Explains
    <2> QED
      BY <1>1, <2>3, <2>12, <2>13 DEF PositionAdds, R
  <1> HIDE DEF new
  <1>5. PositionsAdd(new, E1)
    BY <1>3, <1>4, OtherPositions
  <1> QED
    BY <1>5 DEF new

\* What a buy is charged is its cost less the refund.
LEMMA ChargeIsCost ==
  ASSUME NEW o, Row(o), o.status = "open", IsBuy(o), NEW p, Fair(o, p)
  PROVE  Cost(o, o.request.amount) - Refund(o, p) = o.request.amount * ChargeOf(o.request, p)
  <1> DEFINE n == o.request.amount
             l == o.request.price
  <1>1. n \in Nat /\ l \in Nat /\ p \in Nat /\ Rest(o) = n
        /\ o.request.type \in OrderType
    BY RowFields, OpenRest DEF Fair
  <1>2. Cost(o, n) = n * l
    BY DEF Cost
  <1>3. CASE o.request.type = "limit"
    <2>1. p <= l /\ ChargeOf(o.request, p) = p
      BY <1>3 DEF Fair, ChargeOf, TypesOf
    <2>2. Refund(o, p) = IF p < l THEN (l - p) * n ELSE 0
      BY <1>1, <1>3 DEF Refund
    <2> HIDE DEF n, l
    <2>3. CASE p < l
      <3>1. (l - p) * n = n * l - n * p
        BY <1>1
      <3>2. n * l \in Int /\ n * p \in Int
        BY <1>1
      <3>3. n * l - (n * l - n * p) = n * p
        BY <3>2
      <3> QED
        BY <1>2, <2>1, <2>2, <2>3, <3>1, <3>3 DEF n
    <2>4. CASE p = l
      <3>1. n * p - 0 = n * p /\ ~(p < l)
        BY <1>1, <2>4
      <3> QED
        BY <1>2, <2>1, <2>2, <2>4, <3>1 DEF n
    <2> QED
      BY <1>1, <2>1, <2>3, <2>4
  <1>4. CASE o.request.type # "limit"
    <2>1. Refund(o, p) = 0
      BY <1>4 DEF Refund
    <2>2. ChargeOf(o.request, p) = l
      BY <1>1, <1>4 DEF ChargeOf, TypesOf, OrderType, Fair
    <2> HIDE DEF n, l
    <2>3. n * l - 0 = n * l
      BY <1>1
    <2> QED
      BY <1>2, <2>1, <2>2, <2>3 DEF n
  <1> QED
    BY <1>3, <1>4

\* The entry of a fill.
FillEntry(id, o, p) == EntryOf(o.request, [order |-> id, price |-> p, amount |-> Rest(o)])

LEMMA FillEntryTyped ==
  ASSUME NEW id, NEW o, Row(o), o.status = "open", NEW p, Fair(o, p)
  PROVE  /\ FillEntry(id, o, p) \in Entry
         /\ FillEntry(id, o, p).symbol = o.request.symbol
         /\ FillEntry(id, o, p).side = o.request.side
         /\ FillEntry(id, o, p).amount = o.request.amount
         /\ FillEntry(id, o, p).price = p
         /\ FillEntry(id, o, p).charge = ChargeOf(o.request, p)
  <1>1. /\ o.request.symbol \in Symbol /\ o.request.side \in OrderSide
        /\ o.request.amount \in Nat \ {0} /\ Rest(o) = o.request.amount
        /\ p \in Nat \ {0} /\ o.request.price \in Nat \ {0}
    BY RowFields, OpenRest DEF Fair
  <1>2. ChargeOf(o.request, p) \in Nat \ {0}
    BY <1>1 DEF ChargeOf
  <1> QED
    BY <1>1, <1>2 DEF FillEntry, EntryOf, Entry

\* A fill moves every balance by what its entry brings.
LEMMA FillBalances ==
  ASSUME LedgerInv, NEW acc, NEW id, NEW o, NEW p, Filling(acc, id, o, p), NEW c \in Currency
  PROVE  BalanceOf(accounts', c) = BalanceOf(accounts, c) + Brings(FillEntry(id, o, p), c)
  <1> DEFINE b == Base[o.request.symbol]
             q == Quote[o.request.symbol]
             n == o.request.amount
             e == FillEntry(id, o, p)
             k == n * ChargeOf(o.request, p)
             w == n * p
             cost == Cost(o, n)
             back == Refund(o, p)
  <1> SUFFICES BalanceOf(accounts', c) = BalanceOf(accounts, c) + Brings(e, c)
    OBVIOUS
  <1>1. /\ Row(o) /\ o.status = "open" /\ Sound(acc) /\ CanFill(acc, o)
        /\ accounts' = FillAccounts(acc, o, p)
        /\ p \in Nat \ {0} /\ Fair(o, p)
        /\ BalanceOf(acc, c) = BalanceOf(accounts, c)
    BY DEF Filling, Ready, Fair, Fill
  <1>2. /\ b # q /\ n \in Nat /\ HasAccounts(acc, o)
        /\ o.request.side \in OrderSide
    BY <1>1, FillMoves, RowFields
  <1>3. b \in DOMAIN acc /\ q \in DOMAIN acc
    BY <1>2 DEF HasAccounts
  <1>4. /\ e.amount = n /\ e.price = p /\ e.side = o.request.side
        /\ Base[e.symbol] = b /\ Quote[e.symbol] = q
        /\ e.charge = ChargeOf(o.request, p)
        /\ e \in Entry
    BY <1>1, FillEntryTyped
  <1>5. Brings(e, c) = IF IsBuy(o) THEN (IF b = c THEN n ELSE 0) - (IF q = c THEN k ELSE 0)
                       ELSE (IF q = c THEN w ELSE 0) - (IF b = c THEN n ELSE 0)
    BY <1>4 DEF Brings, IsBuy
  <1>6. \A d \in DOMAIN acc : acc[d].balance \in Nat
    BY <1>1, Columns
  <1>7. k \in Nat /\ w \in Nat
    <2>1. ChargeOf(o.request, p) \in Nat
      BY <1>4 DEF Entry
    <2> QED
      BY <1>1, <1>2, <2>1, Product
  <1>8. CASE IsBuy(o)
    <2>1. /\ DOMAIN accounts' = DOMAIN acc
          /\ accounts'[b].balance = acc[b].balance + n
          /\ accounts'[q].balance = acc[q].balance - cost + back
          /\ \A d \in DOMAIN acc : d # b /\ d # q => accounts'[d] = acc[d]
      BY <1>1, <1>8, BuyMoves
    <2>2. cost \in Nat /\ back \in Nat
      BY <1>1, <1>2, CostIsNat, RefundIsNat
    <2>3. cost - back = k
      BY <1>1, <1>8, ChargeIsCost
    <2> HIDE DEF b, q, n, e, k, w, cost, back
    <2>4. accounts'[q].balance = acc[q].balance - k
      BY <1>3, <1>6, <2>1, <2>2, <2>3
    <2>5. CASE c = b
      <3>1. BalanceOf(accounts', c) = acc[c].balance + n /\ BalanceOf(acc, c) = acc[c].balance
        BY <1>3, <2>1, <2>5 DEF BalanceOf
      <3>2. Brings(e, c) = n
        BY <1>2, <1>5, <1>8, <2>5
      <3> QED
        BY <1>1, <3>1, <3>2
    <2>6. CASE c = q
      <3>1. BalanceOf(accounts', c) = acc[c].balance - k /\ BalanceOf(acc, c) = acc[c].balance
        BY <1>3, <2>1, <2>4, <2>6 DEF BalanceOf
      <3>2. Brings(e, c) = 0 - k
        BY <1>2, <1>5, <1>8, <2>6
      <3>3. acc[c].balance \in Nat
        BY <1>3, <1>6, <2>6
      <3>4. acc[c].balance - k = acc[c].balance + (0 - k)
        BY <1>7, <3>3
      <3> QED
        BY <1>1, <3>1, <3>2, <3>4
    <2>7. CASE c # b /\ c # q
      <3>1. BalanceOf(accounts', c) = BalanceOf(acc, c) /\ BalanceOf(acc, c) \in Nat
        BY <1>6, <2>1, <2>7 DEF BalanceOf
      <3>2. Brings(e, c) = 0
        BY <1>5, <1>8, <2>7
      <3> QED
        BY <1>1, <3>1, <3>2
    <2> QED
      BY <2>5, <2>6, <2>7 DEF e
  <1>9. CASE ~IsBuy(o)
    <2>1. /\ DOMAIN accounts' = DOMAIN acc
          /\ accounts'[b].balance = acc[b].balance - n
          /\ accounts'[q].balance = acc[q].balance + w
          /\ \A d \in DOMAIN acc : d # b /\ d # q => accounts'[d] = acc[d]
      BY <1>1, <1>9, SellMoves
    <2> HIDE DEF b, q, n, e, k, w
    <2>2. CASE c = b
      <3>1. BalanceOf(accounts', c) = acc[c].balance - n /\ BalanceOf(acc, c) = acc[c].balance
        BY <1>3, <2>1, <2>2 DEF BalanceOf
      <3>2. Brings(e, c) = 0 - n
        BY <1>2, <1>5, <1>9, <2>2
      <3>3. acc[c].balance \in Nat
        BY <1>3, <1>6, <2>2
      <3>4. acc[c].balance - n = acc[c].balance + (0 - n)
        BY <1>2, <3>3
      <3> QED
        BY <1>1, <3>1, <3>2, <3>4
    <2>3. CASE c = q
      <3>1. BalanceOf(accounts', c) = acc[c].balance + w /\ BalanceOf(acc, c) = acc[c].balance
        BY <1>3, <2>1, <2>3 DEF BalanceOf
      <3>2. Brings(e, c) = w
        BY <1>2, <1>5, <1>7, <1>9, <2>3
      <3> QED
        BY <1>1, <3>1, <3>2
    <2>4. CASE c # b /\ c # q
      <3>1. BalanceOf(accounts', c) = BalanceOf(acc, c) /\ BalanceOf(acc, c) \in Nat
        BY <1>6, <2>1, <2>4 DEF BalanceOf
      <3>2. Brings(e, c) = 0
        BY <1>5, <1>9, <2>4
      <3> QED
        BY <1>1, <3>1, <3>2
    <2> QED
      BY <2>2, <2>3, <2>4 DEF e
  <1> QED
    BY <1>8, <1>9

\* A fill adds its entry to the entries.
LEMMA FillAddsEntry ==
  ASSUME LedgerInv, Swept, Traded, [Next]_vars, ~RollsBack,
         NEW acc, NEW id, NEW o, NEW p, Filling(acc, id, o, p)
  PROVE  Adds(Entries, Entries', FillEntry(id, o, p))
  <1> DEFINE K == Len(trades) + 1
  <1>1. /\ DOMAIN trades' = DOMAIN trades \cup {K}
        /\ K \notin DOMAIN trades
        /\ \A k \in DOMAIN trades : trades'[k] = trades[k]
        /\ trades'[K] = [order |-> id, price |-> p, amount |-> Rest(o)]
    BY TradeRecorded
  <1>2. /\ DOMAIN Entries = DOMAIN trades
        /\ DOMAIN Entries' = DOMAIN trades'
        /\ \A k \in DOMAIN trades :
             Entries[k] = EntryOf(orders[trades[k].order].request, trades[k])
        /\ \A k \in DOMAIN trades' :
             Entries'[k] = EntryOf(orders'[trades'[k].order].request, trades'[k])
    BY DEF Entries, EntriesOf
  <1>3. orders'[id].request = o.request
    BY DEF Filling, Fill
  <1> HIDE DEF K
  <1>4. Entries'[K] = FillEntry(id, o, p)
    BY <1>1, <1>2, <1>3 DEF FillEntry
  <1>5. ASSUME NEW k \in DOMAIN trades
        PROVE  Entries'[k] = Entries[k]
    <2>1. /\ trades[k].order \in DOMAIN orders
          /\ orders'[trades[k].order].request = orders[trades[k].order].request
      BY <1>5, RequestsStay DEF Traded
    <2> QED
      BY <1>1, <1>2, <2>1
  <1> QED
    BY <1>1, <1>2, <1>4, <1>5 DEF Adds

\* No other step changes what an entry says.
LEMMA EntriesStay ==
  ASSUME LedgerInv, Swept, Traded, [Next]_vars, ~RollsBack, trades' = trades
  PROVE  Entries' = Entries
  <1>1. \A k \in DOMAIN trades :
          orders'[trades[k].order].request = orders[trades[k].order].request
    BY RequestsStay DEF Traded
  <1> QED
    BY <1>1 DEF Entries, EntriesOf

\* The books of the tables, and of those that a sweep which fails goes back to.
BooksOpen == Books(accounts, positions, Entries)

BooksUndone ==
  sweep # NoSweep =>
    Books(undo.accounts, undo.positions, EntriesOf(undo.orders, undo.trades))

BooksInv == BooksOpen /\ BooksUndone

\* The books stay right, whatever is placed, filled or canceled.
LEMMA BooksStep ==
  ASSUME EngineInv, BooksInv, [Next]_vars
  PROVE  BooksOpen'
  <1> USE DEF EngineInv
  <1>0. CASE RollsBack
    <2>1. /\ sweep # NoSweep
          /\ accounts' = undo.accounts /\ orders' = undo.orders
          /\ trades' = undo.trades /\ positions' = undo.positions
      BY <1>0, RolledBack
    <2>2. Books(accounts', positions', EntriesOf(orders', trades'))
      BY <2>1 DEF BooksInv, BooksUndone
    <2> QED
      BY <2>2 DEF BooksOpen, Entries
  <1> SUFFICES ASSUME ~RollsBack
               PROVE  Books(accounts', positions', Entries')
    BY <1>0 DEF BooksOpen
  <1>1. ASSUME trades' = trades, positions' = positions,
               \A c \in Currency : BalanceOf(accounts', c) = BalanceOf(accounts, c)
        PROVE  Books(accounts', positions', Entries')
    <2>1. Entries' = Entries
      BY <1>1, EntriesStay
    <2> DEFINE E == Entries
               acc == accounts'
    <2>2. Books(accounts, positions, E)
      BY DEF BooksInv, BooksOpen
    <2>3. \A c \in Currency : BalanceOf(acc, c) = BalanceOf(accounts, c)
      BY <1>1
    <2> HIDE DEF E, acc
    <2>4. Books(acc, positions, E)
      BY <2>2, <2>3 DEF Books
    <2> QED
      BY <1>1, <2>1, <2>4 DEF E, acc
  <1>2. CASE UNCHANGED <<ledger, positions>>
    <2>1. trades' = trades /\ positions' = positions /\ accounts' = accounts
      BY <1>2 DEF ledger
    <2> QED
      BY <1>1, <2>1
  <1>3. ASSUME NEW id \in OrderId, NEW s \in Symbol, NEW type \in OrderType \ {"market"},
               NEW side \in OrderSide, NEW n \in Amount, NEW price \in Price,
               PlaceOrder(id, s, type, side, n, price)
        PROVE  Books(accounts', positions', Entries')
    <2> DEFINE req == [symbol |-> s, type |-> type, side |-> side, price |-> price,
                       amount |-> n]
    <2>1. /\ CanCreate(req) /\ accounts' = Created(req)
          /\ trades' = trades /\ positions' = positions
      BY <1>3 DEF PlaceOrder
    <2>2. Asked(req)
      BY EngineRequests, PriceAssumption
    <2> HIDE DEF req
    <2>3. \A c \in Currency : BalanceOf(accounts', c) = BalanceOf(accounts, c)
      BY <2>1, <2>2, CreatedMoves DEF LedgerInv
    <2> QED
      BY <1>1, <2>1, <2>3
  <1>4. ASSUME NEW id \in OrderId, Cancel(id)
        PROVE  Books(accounts', positions', Entries')
    BY <1>1, <1>4, CancelLedger
  <1>5. ASSUME NEW acc, NEW id, NEW o, NEW p, Filling(acc, id, o, p)
        PROVE  Books(accounts', positions', Entries')
    <2> DEFINE e  == FillEntry(id, o, p)
               E  == Entries
               E1 == Entries'
    <2>1. Adds(E, E1, e)
      BY <1>5, FillAddsEntry
    <2>2. /\ Row(o) /\ o.status = "open" /\ Fair(o, p)
          /\ Rest(o) = o.request.amount
      BY <1>5, OpenRest DEF Filling, Ready
    <2>3. /\ e \in Entry
          /\ e.symbol = o.request.symbol /\ e.side = o.request.side
          /\ e.amount = o.request.amount /\ e.price = p
      BY <2>2, FillEntryTyped
    <2>4. /\ Summed(E)
          /\ \A c \in Currency : BalanceAdds(BalanceOf(accounts, c), E, c)
          /\ PositionsAdd(positions, E)
      BY DEF BooksInv, BooksOpen, Books, PositionsAdd
    <2>5. \A c \in Currency : BalanceOf(accounts', c) = BalanceOf(accounts, c) + Brings(e, c)
      BY <1>5, FillBalances
    <2> HIDE DEF e, E, E1
    <2>6. Summed(E1)
      BY <2>1, <2>3, <2>4, SummedGrows
    <2>7. ASSUME NEW c \in Currency
          PROVE  BalanceAdds(BalanceOf(accounts', c), E1, c)
      <3>1. BalanceOf(accounts, c) \in Int
        BY Columns DEF LedgerInv, BalanceOf
      <3> DEFINE b == BalanceOf(accounts, c)
      <3>2. b \in Int /\ BalanceAdds(b, E, c)
        BY <2>4, <3>1
      <3> HIDE DEF b
      <3>3. BalanceAdds(b + Brings(e, c), E1, c)
        BY <2>1, <2>3, <2>4, <3>2, BalanceGrows
      <3> QED
        BY <2>5, <3>3 DEF b
    <2>8. PositionsAdd(positions', E1)
      <3>1. DOMAIN positions \subseteq Symbol /\ positions \in [DOMAIN positions -> Position]
        BY LedgerTypes DEF LedgerInv
      <3>2. CASE IsBuy(o)
        <4>1. positions' = BuyPosition(positions, e.symbol, e.amount, e.price)
          BY <1>5, <2>2, <2>3, <3>2 DEF Filling, Fill, FillPosition
        <4>2. e.side = "buy"
          BY <2>3, <3>2 DEF IsBuy
        <4> QED
          BY <2>1, <2>3, <2>4, <3>1, <4>1, <4>2, BuyAdds
      <3>3. CASE ~IsBuy(o)
        <4>1. positions' = SellPosition(positions, e.symbol, e.amount, e.price)
          BY <1>5, <2>2, <2>3, <3>3 DEF Filling, Fill, FillPosition
        <4>2. e.side = "sell"
          BY <2>2, <2>3, <3>3, RowFields
        <4>3. e.symbol \in DOMAIN positions /\ positions[e.symbol].amount + Tolerance >= e.amount
          BY <1>5, <2>2, <2>3, <3>3 DEF Filling, Fill, CanFill, HasUnits
        <4> QED
          BY <2>1, <2>3, <2>4, <3>1, <4>1, <4>2, <4>3, SellAdds
      <3> QED
        BY <3>2, <3>3
    <2> QED
      BY <2>6, <2>7, <2>8 DEF Books, PositionsAdd, E1
  <1> QED
    BY <1>2, <1>3, <1>4, <1>5, Steps

\* The books a sweep goes back to stay what they were when it began.
LEMMA BooksUndoneStep ==
  ASSUME EngineInv, BooksInv, [Next]_vars
  PROVE  BooksUndone'
  <1>1. CASE sweep' = NoSweep
    BY <1>1 DEF BooksUndone
  <1>2. CASE sweep' = sweep /\ undo' = undo
    BY <1>2 DEF BooksInv, BooksUndone
  <1>3. ASSUME NEW kind \in {"limit", "trigger"}, NEW s \in Symbol, NEW p \in Price,
               StartSweep(kind, s, p)
        PROVE  BooksUndone'
    <2>1. undo' = [accounts |-> accounts, orders |-> orders, trades |-> trades,
                   positions |-> positions]
      BY <1>3 DEF StartSweep, Tables
    <2>2. Books(accounts, positions, EntriesOf(orders, trades))
      BY DEF BooksInv, BooksOpen, Entries
    <2>3. Books(undo'.accounts, undo'.positions, EntriesOf(undo'.orders, undo'.trades))
      BY <2>1, <2>2
    <2> QED
      BY <2>3 DEF BooksUndone
  <1>4. ASSUME NEW id \in OrderId, SweepOrder(id)
        PROVE  BooksUndone'
    <2>1. sweep # NoSweep /\ undo' = undo
      BY <1>4 DEF SweepOrder, IsNext
    <2> QED
      BY <2>1 DEF BooksInv, BooksUndone
  <1>5. CASE Process
    <2>1. EndSweep => sweep' = NoSweep
      BY DEF EndSweep
    <2>2. \A id \in OrderId : SweepFails(id) => sweep' = NoSweep
      BY DEF SweepFails
    <2> QED
      BY <1>1, <1>3, <1>4, <1>5, <2>1, <2>2 DEF Process
  <1>6. Place => sweep' = NoSweep
    BY PlaceIsAlone
  <1>7. (\E id \in OrderId : Cancel(id)) => sweep' = NoSweep
    BY DEF Cancel, running
  <1>8. (UNCHANGED vars) => sweep' = sweep /\ undo' = undo
    BY DEF vars, running
  <1> QED
    BY <1>1, <1>2, <1>5, <1>6, <1>7, <1>8 DEF Next

\* Before anything is traded every sum is zero.
LEMMA BooksAtInit == Init => BooksInv
  <1> SUFFICES ASSUME Init PROVE BooksInv
    OBVIOUS
  <1> DEFINE E == Entries
  <1>1. DOMAIN E = {}
    BY InitFacts DEF Entries, EntriesOf
  <1> HIDE DEF E
  <1>2. \A s, side, col : IsFiniteSet(Units(Terms(E, s, side, col))) /\ Flow(E, s, side, col) = 0
    BY <1>1, TotalZero DEF Flow, Terms
  <1>3. ASSUME NEW S, NEW side, NEW col
        PROVE  IsFiniteSet(Units(Flows(E, S, side, col))) /\ Sum(E, S, side, col) = 0
    <2>1. \A s \in DOMAIN Flows(E, S, side, col) : Flows(E, S, side, col)[s] = 0
      BY <1>2 DEF Flows
    <2> QED
      BY <2>1, TotalZero DEF Sum
  <1>4. Summed(E)
    BY <1>2, <1>3 DEF Summed
  <1>5. ASSUME NEW c \in Currency
        PROVE  BalanceAdds(BalanceOf(accounts, c), E, c)
    <2>1. BalanceOf(accounts, c) = Start(c) /\ Start(c) \in Nat
      BY InitFacts, SymbolAssumption DEF BalanceOf, Start
    <2>2. /\ Sum(E, PaidIn(c), "buy", "charge") = 0 /\ Sum(E, BasedOn(c), "buy", "amount") = 0
          /\ Sum(E, PaidIn(c), "sell", "worth") = 0 /\ Sum(E, BasedOn(c), "sell", "amount") = 0
      BY <1>3
    <2> QED
      BY <2>1, <2>2 DEF BalanceAdds
  <1>6. \A s : Sales(E, s) = {}
    BY <1>1 DEF Sales
  <1>7. \A s : IsFiniteSet(Sales(E, s))
    BY <1>6, FS_EmptySet
  <1> QED
    BY <1>2, <1>4, <1>5, <1>7, InitFacts DEF BooksInv, BooksOpen, BooksUndone, Books, E

\* The sums of the model are the sums over the entries.
LEMMA SumsAreFlows ==
  ASSUME LedgerInv, Traded, NEW s
  PROVE  /\ Bought(s) = Terms(Entries, s, "buy", "amount")
         /\ Sold(s) = Terms(Entries, s, "sell", "amount")
         /\ Worth(Bought(s)) = Terms(Entries, s, "buy", "worth")
         /\ Worth(Sold(s)) = Terms(Entries, s, "sell", "worth")
         /\ Charged(Bought(s)) = Terms(Entries, s, "buy", "charge")
  <1>1. /\ DOMAIN Entries = DOMAIN trades
        /\ \A k \in DOMAIN trades :
             /\ Entries[k].symbol = SymbolOf(trades[k])
             /\ Entries[k].side = OrderOf(trades[k]).request.side
             /\ Entries[k].amount = trades[k].amount
             /\ Entries[k].price = trades[k].price
             /\ Entries[k].charge = IF OrderOf(trades[k]).request.type \in TypesOf("trigger")
                                    THEN OrderOf(trades[k]).request.price ELSE trades[k].price
    BY DEF Entries, EntriesOf, EntryOf, ChargeOf, SymbolOf, OrderOf
  <1>2. ASSUME NEW k \in DOMAIN trades
        PROVE  /\ trades[k].amount \in Nat /\ trades[k].price \in Nat
               /\ Entries[k].charge \in Nat
               /\ IsBuy(OrderOf(trades[k])) <=> Entries[k].side = "buy"
               /\ ~IsBuy(OrderOf(trades[k])) <=> Entries[k].side = "sell"
    <2>1. trades[k] \in [order : OrderId, price : Nat \ {0}, amount : Nat \ {0}]
      <3> DEFINE S == [order : OrderId, price : Nat \ {0}, amount : Nat \ {0}]
      <3>1. trades \in Seq(S)
        BY LedgerTypes DEF LedgerInv
      <3> HIDE DEF S
      <3>2. DOMAIN trades = 1..Len(trades)
        BY <3>1, LenProperties
      <3>3. trades[k] \in S
        BY <1>2, <3>1, <3>2, ElementOfSeq
      <3> QED
        BY <3>3 DEF S
    <2>2. Row(OrderOf(trades[k]))
      BY <1>2 DEF Traded, LedgerInv, Rows, OrderOf
    <2>3. /\ OrderOf(trades[k]).request.price \in Nat
          /\ OrderOf(trades[k]).request.side \in OrderSide
      BY <2>2, RowFields
    <2> QED
      BY <1>1, <2>1, <2>3 DEF IsBuy, OrderSide
  <1> DEFINE E == Entries
  <1> HIDE DEF E
  <1>3. \A x \in Nat : 0 * x = 0
    OBVIOUS
  <1>4. Bought(s) = Terms(Entries, s, "buy", "amount")
    BY <1>1, <1>2 DEF Bought, Terms, Value
  <1>5. Sold(s) = Terms(Entries, s, "sell", "amount")
    BY <1>1, <1>2 DEF Sold, Terms, Value
  <1>6. Worth(Bought(s)) = Terms(Entries, s, "buy", "worth")
    BY <1>1, <1>2, <1>3 DEF Worth, Bought, Terms, Value
  <1>7. Worth(Sold(s)) = Terms(Entries, s, "sell", "worth")
    BY <1>1, <1>2, <1>3 DEF Worth, Sold, Terms, Value
  <1>8. Charged(Bought(s)) = Terms(Entries, s, "buy", "charge")
    BY <1>1, <1>2, <1>3 DEF Charged, Bought, Terms, Value
  <1> QED
    BY <1>4, <1>5, <1>6, <1>7, <1>8

\* The trades that sold something are the sales of the entries.
LEMMA SalesAreSold ==
  ASSUME LedgerInv, Traded, NEW s
  PROVE  {k \in DOMAIN trades : Sold(s)[k] # 0} = Sales(Entries, s)
  <1>1. /\ DOMAIN Entries = DOMAIN trades
        /\ \A k \in DOMAIN trades :
             /\ Entries[k].symbol = SymbolOf(trades[k])
             /\ Entries[k].side = OrderOf(trades[k]).request.side
    BY DEF Entries, EntriesOf, EntryOf, SymbolOf, OrderOf
  <1>2. ASSUME NEW k \in DOMAIN trades
        PROVE  /\ trades[k].amount # 0
               /\ ~IsBuy(OrderOf(trades[k])) <=> Entries[k].side = "sell"
    <2>1. trades[k].amount \in Nat \ {0}
      <3> DEFINE S == [order : OrderId, price : Nat \ {0}, amount : Nat \ {0}]
      <3>1. trades \in Seq(S)
        BY LedgerTypes DEF LedgerInv
      <3> HIDE DEF S
      <3>2. DOMAIN trades = 1..Len(trades)
        BY <3>1, LenProperties
      <3>3. trades[k] \in S
        BY <1>2, <3>1, <3>2, ElementOfSeq
      <3> QED
        BY <3>3 DEF S
    <2>2. Row(OrderOf(trades[k]))
      BY <1>2 DEF Traded, LedgerInv, Rows, OrderOf
    <2>3. OrderOf(trades[k]).request.side \in OrderSide
      BY <2>2, RowFields
    <2> QED
      BY <1>1, <2>1, <2>3 DEF IsBuy, OrderSide
  <1>3. \A k \in DOMAIN trades : Sold(s)[k] # 0 <=> Entries[k].symbol = s /\ Entries[k].side = "sell"
    BY <1>1, <1>2 DEF Sold
  <1> QED
    BY <1>1, <1>3 DEF Sales

\* No money is made or lost, and accounts and positions both tell what the
\* trades tell (matching.py, limit_settlement.py, stop_trigger.py).
THEOREM BooksAgree == Spec => []BooksFollowTrades
  <1>1. ASSUME EngineInv, BooksInv
        PROVE  BooksFollowTrades
    <2> DEFINE E == Entries
    <2>1. \A s : /\ Total(Bought(s)) = Flow(E, s, "buy", "amount")
                 /\ Total(Sold(s)) = Flow(E, s, "sell", "amount")
                 /\ Total(Worth(Bought(s))) = Flow(E, s, "buy", "worth")
                 /\ Total(Worth(Sold(s))) = Flow(E, s, "sell", "worth")
                 /\ Total(Charged(Bought(s))) = Flow(E, s, "buy", "charge")
      BY <1>1, SumsAreFlows DEF EngineInv, Flow
    <2>2. BalancesFollowTrades
      <3> SUFFICES ASSUME NEW c \in DOMAIN accounts
                   PROVE  accounts[c].balance
                            + Total([s \in PaidIn(c) |-> Total(Charged(Bought(s)))])
                          = Start(c) + Total([s \in BasedOn(c) |-> Total(Bought(s))])
                            + Total([s \in PaidIn(c) |-> Total(Worth(Sold(s)))])
                            - Total([s \in BasedOn(c) |-> Total(Sold(s))])
        BY DEF BalancesFollowTrades, SumOver
      <3>1. c \in Currency
        BY <1>1, Columns DEF EngineInv, LedgerInv
      <3>2. BalanceAdds(accounts[c].balance, E, c)
        BY <1>1, <3>1 DEF BooksInv, BooksOpen, Books, BalanceOf
      <3> HIDE DEF E
      <3> QED
        BY <2>1, <3>2 DEF BalanceAdds, Sum, Flows
    <2>3. PositionsFollowTrades
      <3> SUFFICES ASSUME NEW s \in DOMAIN positions
                   PROVE  LET pos == positions[s]
                              missing == pos.amount + Total(Sold(s)) - Total(Bought(s))
                          IN
                          /\ missing \in
                               0..(Tolerance
                                     * Cardinality({k \in DOMAIN trades : Sold(s)[k] # 0}))
                          /\ missing = 0 =>
                               (pos.realized.num
                                  - (Total(Worth(Sold(s))) - Total(Worth(Bought(s))))
                                      * pos.realized.den) * pos.entry.den
                                 = pos.amount * pos.entry.num * pos.realized.den
        BY DEF PositionsFollowTrades
      <3>1. s \in Symbol
        BY <1>1, LedgerTypes DEF EngineInv, LedgerInv
      <3>2. PositionAdds(positions[s], E, s)
        BY <1>1, <3>1 DEF BooksInv, BooksOpen, Books
      <3>3. {k \in DOMAIN trades : Sold(s)[k] # 0} = Sales(E, s)
        BY <1>1, SalesAreSold DEF EngineInv
      <3> HIDE DEF E
      <3> QED
        BY <2>1, <3>2, <3>3 DEF PositionAdds, Missing
    <2> QED
      BY <1>1, <2>2, <2>3 DEF BooksFollowTrades, EngineInv, LedgerInv
  <1>2. EngineInv /\ BooksInv /\ [Next]_vars => (EngineInv /\ BooksInv)'
    BY EngineStep, BooksStep, BooksUndoneStep DEF BooksInv
  <1> QED
    BY <1>1, <1>2, EngineInit, BooksAtInit, PTL DEF Spec

===================================================================
