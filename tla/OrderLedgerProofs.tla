-------------------------- MODULE OrderLedgerProofs --------------------------
(***************************************************************************)
(* Theorems about the order ledger, for any currencies, symbols, ids,      *)
(* requests, prices and bounds: the accounts table and sums over orders,   *)
(* the types and balances, the frozen money, the trades, and that the      *)
(* ledger implements the escrow.                                           *)
(***************************************************************************)
EXTENDS OrderLedger, FiniteSetTheorems, SequenceTheorems, TLAPS

-----------------------------------------------------------------------------
(***************************************************************************)
(* What the helpers of AccountService do to the accounts table, for every  *)
(* table, currency and amount.                                             *)
(***************************************************************************)
\* The row of currency c became r, and nothing else changed.
RowBecomes(acc, new, c, r) ==
  /\ DOMAIN new = DOMAIN acc
  /\ \A d \in DOMAIN acc : new[d] = IF d = c THEN r ELSE acc[d]

\* Every row of a typed table has a known currency and natural columns.
LEMMA RowTyped ==
  ASSUME NEW acc, IsAccounts(acc), NEW c \in DOMAIN acc
  PROVE  /\ c \in Currency
         /\ acc[c] \in Account
         /\ acc[c].balance \in Nat
         /\ acc[c].available \in Nat
         /\ acc[c].frozen \in Nat
  BY DEF IsAccounts, Account

\* _update_account writes one row and leaves a typed table typed.
LEMMA UpdateRow ==
  ASSUME NEW acc, IsAccounts(acc), NEW c \in DOMAIN acc,
         NEW b \in Nat, NEW a \in Nat, NEW f \in Nat
  PROVE  /\ IsAccounts(UpdateAccount(acc, c, b, a, f))
         /\ RowBecomes(acc, UpdateAccount(acc, c, b, a, f), c,
              [balance |-> b, available |-> a, frozen |-> f])
         /\ Balanced(acc) /\ b = a + f
              => Balanced(UpdateAccount(acc, c, b, a, f))
  BY DEF IsAccounts, Account, UpdateAccount, RowBecomes, Balanced

\* freeze_funds moves n from available to frozen, in one row.
LEMMA FreezeRow ==
  ASSUME NEW acc, IsAccounts(acc), Balanced(acc),
         NEW c, NEW n \in Nat, CanFreeze(acc, c, n)
  PROVE  /\ IsAccounts(Freeze(acc, c, n))
         /\ Balanced(Freeze(acc, c, n))
         /\ RowBecomes(acc, Freeze(acc, c, n), c,
              [balance   |-> acc[c].balance,
               available |-> acc[c].available - n,
               frozen    |-> acc[c].frozen + n])
  <1>1. c \in DOMAIN acc
    BY DEF CanFreeze
  <1>2. /\ acc[c].balance \in Nat
        /\ acc[c].available \in Nat
        /\ acc[c].frozen \in Nat
        /\ acc[c].balance = acc[c].available + acc[c].frozen
    BY <1>1, RowTyped DEF Balanced
  <1>3. /\ acc[c].balance \in Nat
        /\ acc[c].available - n \in Nat
        /\ acc[c].frozen + n \in Nat
        /\ acc[c].balance = (acc[c].available - n) + (acc[c].frozen + n)
    BY <1>2 DEF CanFreeze
  <1> QED
    BY <1>1, <1>3, UpdateRow DEF Freeze

\* release_funds moves n from frozen back to available, in one row.
LEMMA ReleaseRow ==
  ASSUME NEW acc, IsAccounts(acc), Balanced(acc),
         NEW c, NEW n \in Nat, CanRelease(acc, c, n)
  PROVE  /\ IsAccounts(Release(acc, c, n))
         /\ Balanced(Release(acc, c, n))
         /\ RowBecomes(acc, Release(acc, c, n), c,
              [balance   |-> acc[c].balance,
               available |-> acc[c].available + n,
               frozen    |-> acc[c].frozen - n])
  <1>1. c \in DOMAIN acc
    BY DEF CanRelease
  <1>2. /\ acc[c].balance \in Nat
        /\ acc[c].available \in Nat
        /\ acc[c].frozen \in Nat
        /\ acc[c].balance = acc[c].available + acc[c].frozen
    BY <1>1, RowTyped DEF Balanced
  <1>3. /\ acc[c].balance \in Nat
        /\ acc[c].available + n \in Nat
        /\ acc[c].frozen - n \in Nat
        /\ acc[c].balance = (acc[c].available + n) + (acc[c].frozen - n)
    BY <1>2 DEF CanRelease
  <1> QED
    BY <1>1, <1>3, UpdateRow DEF Release

\* _consume_frozen_funds takes n from balance and frozen, in one row.
LEMMA ConsumeFrozenRow ==
  ASSUME NEW acc, IsAccounts(acc), Balanced(acc),
         NEW c, NEW n \in Nat, CanConsumeFrozen(acc, c, n)
  PROVE  /\ IsAccounts(ConsumeFrozen(acc, c, n))
         /\ Balanced(ConsumeFrozen(acc, c, n))
         /\ RowBecomes(acc, ConsumeFrozen(acc, c, n), c,
              [balance   |-> acc[c].balance - n,
               available |-> acc[c].available,
               frozen    |-> acc[c].frozen - n])
  <1>1. c \in DOMAIN acc
    BY DEF CanConsumeFrozen, CanRelease
  <1>2. /\ acc[c].balance \in Nat
        /\ acc[c].available \in Nat
        /\ acc[c].frozen \in Nat
        /\ acc[c].balance = acc[c].available + acc[c].frozen
    BY <1>1, RowTyped DEF Balanced
  <1>3. /\ acc[c].balance - n \in Nat
        /\ acc[c].available \in Nat
        /\ acc[c].frozen - n \in Nat
        /\ acc[c].balance - n = (acc[c].available) + (acc[c].frozen - n)
    BY <1>2 DEF CanConsumeFrozen, CanRelease
  <1> QED
    BY <1>1, <1>3, UpdateRow DEF ConsumeFrozen

\* consume_available takes n from balance and available, in one row.
LEMMA ConsumeAvailableRow ==
  ASSUME NEW acc, IsAccounts(acc), Balanced(acc),
         NEW c, NEW n \in Nat, CanConsumeAvailable(acc, c, n)
  PROVE  /\ IsAccounts(ConsumeAvailable(acc, c, n))
         /\ Balanced(ConsumeAvailable(acc, c, n))
         /\ RowBecomes(acc, ConsumeAvailable(acc, c, n), c,
              [balance   |-> acc[c].balance - n,
               available |-> acc[c].available - n,
               frozen    |-> acc[c].frozen])
  <1>1. c \in DOMAIN acc
    BY DEF CanConsumeAvailable, CanFreeze
  <1>2. /\ acc[c].balance \in Nat
        /\ acc[c].available \in Nat
        /\ acc[c].frozen \in Nat
        /\ acc[c].balance = acc[c].available + acc[c].frozen
    BY <1>1, RowTyped DEF Balanced
  <1>3. /\ acc[c].balance - n \in Nat
        /\ acc[c].available - n \in Nat
        /\ acc[c].frozen \in Nat
        /\ acc[c].balance - n = (acc[c].available - n) + (acc[c].frozen)
    BY <1>2 DEF CanConsumeAvailable, CanFreeze
  <1> QED
    BY <1>1, <1>3, UpdateRow DEF ConsumeAvailable

\* deposit and add_to_available add n to balance and available, in one row.
LEMMA CreditRow ==
  ASSUME NEW acc, IsAccounts(acc), Balanced(acc),
         NEW c, NEW n \in Nat, CanCredit(acc, c, n)
  PROVE  /\ IsAccounts(Credit(acc, c, n))
         /\ Balanced(Credit(acc, c, n))
         /\ RowBecomes(acc, Credit(acc, c, n), c,
              [balance   |-> acc[c].balance + n,
               available |-> acc[c].available + n,
               frozen    |-> acc[c].frozen])
  <1>1. c \in DOMAIN acc
    BY DEF CanCredit
  <1>2. /\ acc[c].balance \in Nat
        /\ acc[c].available \in Nat
        /\ acc[c].frozen \in Nat
        /\ acc[c].balance = acc[c].available + acc[c].frozen
    BY <1>1, RowTyped DEF Balanced
  <1>3. /\ acc[c].balance + n \in Nat
        /\ acc[c].available + n \in Nat
        /\ acc[c].frozen \in Nat
        /\ acc[c].balance + n = (acc[c].available + n) + (acc[c].frozen)
    BY <1>2 DEF CanCredit
  <1> QED
    BY <1>1, <1>3, UpdateRow DEF Credit

\* initialize_accounts leaves every existing row alone.
LEMMA OpenAccountRow ==
  ASSUME NEW acc, IsAccounts(acc), Balanced(acc), NEW c \in Currency, NEW n \in Nat
  PROVE  /\ IsAccounts(OpenAccount(acc, c, n))
         /\ Balanced(OpenAccount(acc, c, n))
         /\ DOMAIN OpenAccount(acc, c, n) = DOMAIN acc \cup {c}
         /\ \A d \in DOMAIN acc : OpenAccount(acc, c, n)[d] = acc[d]
         /\ c \notin DOMAIN acc => OpenAccount(acc, c, n)[c].frozen = 0
  BY DEF IsAccounts, Account, OpenAccount, Balanced

-----------------------------------------------------------------------------
(***************************************************************************)
(* How a sum changes when one term changes or is added.                    *)
(***************************************************************************)
\* A column of n unit cells has n elements.
LEMMA ColumnSize ==
  ASSUME NEW x, NEW n \in Nat
  PROVE  /\ IsFiniteSet({x} \X (1..n))
         /\ Cardinality({x} \X (1..n)) = n
  <1> DEFINE f == [k \in 1..n |-> <<x, k>>]
  <1>1. f \in Bijection(1..n, {x} \X (1..n))
    <2>1. f \in Injection(1..n, {x} \X (1..n))
      BY DEF Injection, IsInjective
    <2>2. f \in Surjection(1..n, {x} \X (1..n))
      <3>1. f \in [1..n -> {x} \X (1..n)]
        OBVIOUS
      <3>2. ASSUME NEW t \in {x} \X (1..n)
            PROVE  \E k \in 1..n : f[k] = t
        <4>1. t[2] \in 1..n /\ t = <<x, t[2]>>
          OBVIOUS
        <4>2. f[t[2]] = t
          BY <4>1
        <4> QED
          BY <4>1, <4>2
      <3> QED
        BY <3>1, <3>2 DEF Surjection
    <2> QED
      BY <2>1, <2>2 DEF Bijection
  <1>2. ExistsBijection(1..n, {x} \X (1..n))
    BY <1>1 DEF ExistsBijection
  <1>3. IsFiniteSet(1..n) /\ Cardinality(1..n) = n
    BY FS_Interval
  <1> QED
    BY <1>2, <1>3, FS_Bijection

\* The units of all terms but x.
Others(f, x) == Units(f) \ ({x} \X (1..f[x]))

\* A total is the units of one entry plus the units of all others.
LEMMA UnitsSplit ==
  ASSUME NEW f, NEW x \in DOMAIN f, f[x] \in Nat, IsFiniteSet(Units(f))
  PROVE  /\ IsFiniteSet(Others(f, x))
         /\ Total(f) = Cardinality(Others(f, x)) + f[x]
         /\ Total(f) \in Nat
         /\ f[x] <= Total(f)
  <1> DEFINE col == {x} \X (1..f[x])
  <1>1. col \subseteq Units(f)
    BY DEF Units
  <1>2. IsFiniteSet(col) /\ Cardinality(col) = f[x]
    BY ColumnSize
  <1>3. IsFiniteSet(Others(f, x))
    BY FS_Subset DEF Others
  <1>4. Units(f) = Others(f, x) \cup col /\ Others(f, x) \cap col = {}
    BY <1>1 DEF Others
  <1>5. Cardinality({}) = 0
    BY FS_EmptySet
  <1>6. Cardinality(Units(f)) = Cardinality(Others(f, x)) + f[x] - 0
    <2> HIDE DEF col
    <2> QED
      BY <1>2, <1>3, <1>4, <1>5, FS_Union
  <1>7. Cardinality(Others(f, x)) \in Nat
    BY <1>3, FS_CardinalityType
  <1> QED
    BY <1>3, <1>6, <1>7 DEF Total

\* g is f with the term of x replaced, or added.
LEMMA TotalUpdate ==
  ASSUME NEW f, NEW g, NEW x,
         DOMAIN g = DOMAIN f \cup {x},
         \A y \in DOMAIN f : y # x => g[y] = f[y],
         g[x] \in Nat,
         x \in DOMAIN f => f[x] \in Nat,
         IsFiniteSet(Units(f))
  PROVE  /\ IsFiniteSet(Units(g))
         /\ Total(g) = Total(f) - (IF x \in DOMAIN f THEN f[x] ELSE 0) + g[x]
  <1> DEFINE col  == {x} \X (1..g[x])
             rest == IF x \in DOMAIN f THEN Others(f, x) ELSE Units(f)
  <1>1. IsFiniteSet(col) /\ Cardinality(col) = g[x]
    BY ColumnSize
  <1>2. /\ IsFiniteSet(rest)
        /\ Total(f) = Cardinality(rest) + (IF x \in DOMAIN f THEN f[x] ELSE 0)
    <2>1. CASE x \in DOMAIN f
      BY <2>1, UnitsSplit
    <2>2. CASE x \notin DOMAIN f
      <3>1. Cardinality(Units(f)) \in Nat
        BY FS_CardinalityType
      <3> QED
        BY <2>2, <3>1 DEF Total
    <2> QED
      BY <2>1, <2>2
  <1>3. rest \cap col = {}
    BY DEF Others, Units
  <1>4. Units(g) = rest \cup col
    <2>1. ASSUME NEW u \in Units(g) PROVE u \in rest \cup col
      <3>1. PICK y \in DOMAIN g : u \in {y} \X (1..g[y])
        BY <2>1 DEF Units
      <3>2. CASE y = x
        BY <3>1, <3>2
      <3>3. CASE y # x
        <4>1. u \in Units(f)
          BY <3>1, <3>3 DEF Units
        <4>2. u \notin {x} \X (1..f[x])
          BY <3>1, <3>3
        <4> QED
          BY <4>1, <4>2 DEF Others
      <3> QED
        BY <3>2, <3>3
    <2>2. ASSUME NEW u \in rest PROVE u \in Units(g)
      <3>1. PICK y \in DOMAIN f : u \in {y} \X (1..f[y])
        BY <2>2 DEF Units, Others
      <3>2. y # x
        BY <2>2, <3>1 DEF Others
      <3> QED
        BY <3>1, <3>2 DEF Units
    <2>3. col \subseteq Units(g)
      BY DEF Units
    <2> QED
      BY <2>1, <2>2, <2>3
  <1>5. Cardinality(rest) \in Nat /\ Cardinality({}) = 0
    BY <1>2, FS_CardinalityType, FS_EmptySet
  <1>6. /\ IsFiniteSet(rest \cup col)
        /\ Cardinality(rest \cup col) = Cardinality(rest) + Cardinality(col) - 0
    <2> HIDE DEF rest, col
    <2> QED
      BY <1>1, <1>2, <1>3, <1>5, FS_Union
  <1>7. (IF x \in DOMAIN f THEN f[x] ELSE 0) \in Nat
    OBVIOUS
  <1> QED
    <2> HIDE DEF rest, col
    <2> QED
      BY <1>1, <1>2, <1>4, <1>5, <1>6, <1>7 DEF Total

\* Where every entry is zero, so is the total.
LEMMA TotalZero ==
  ASSUME NEW f, \A x \in DOMAIN f : f[x] = 0
  PROVE  IsFiniteSet(Units(f)) /\ Total(f) = 0
  <1>1. Units(f) = {}
    BY DEF Units
  <1> QED
    BY <1>1, FS_EmptySet DEF Total

-----------------------------------------------------------------------------
(***************************************************************************)
(* Facts about order rows                                                  *)
(***************************************************************************)
LEMMA OrderFields ==
  ASSUME NEW o \in Order
  PROVE  /\ o.request \in Request
         /\ ValidRequest(o.request)
         /\ o.request.amount \in Nat \ {0}
         /\ o.filled \in Nat
         /\ o.status \in OrderStatus
         /\ QuoteOf(o) \in Currency
         /\ IsBuy(o) => o.request.price \in Nat \ {0}
  BY QuoteAssumption
  DEF Order, Request, ValidRequest, QuoteOf, IsBuy

\* A valid request becomes a typed order row.
LEMMA RequestOrder ==
  ASSUME NEW req \in Request, ValidRequest(req)
  PROVE  NewOrder(req) \in Order
  BY DEF NewOrder, Order, OrderStatus

\* Writing status and filled amount of one order leaves the others alone.
LEMMA RowUpdate ==
  ASSUME TypeOK, NEW i \in DOMAIN orders, NEW s \in OrderStatus, NEW n \in Nat
  PROVE  LET new == UpdateOrder(orders, i, s, n) IN
         /\ new \in [DOMAIN orders -> Order]
         /\ DOMAIN new = DOMAIN orders
         /\ new[i] = [request |-> orders[i].request, filled |-> n, status |-> s]
         /\ \A j \in DOMAIN orders : j # i => new[j] = orders[j]
  BY DEF TypeOK, Order, UpdateOrder

\* What a buy of n units costs is positive when n is.
LEMMA CostIsNat ==
  ASSUME NEW o \in Order, IsBuy(o), NEW n \in Nat
  PROVE  /\ Cost(o, n) \in Nat
         /\ n > 0 => Cost(o, n) > 0
  <1>1. o.request.price \in Nat /\ o.request.price > 0
    BY OrderFields
  <1> DEFINE p == o.request.price
  <1>2. p \in Nat /\ p > 0
    BY <1>1
  <1> HIDE DEF p
  <1>3. n * p \in Nat /\ (n > 0 => n * p > 0)
    BY <1>2
  <1> QED
    BY <1>3 DEF Cost, p

\* The rest released by a cancellation or rejection.
LEMMA ReleaseRestTyped ==
  ASSUME NEW acc, IsAccounts(acc), Balanced(acc),
         NEW o \in Order, NEW n \in Nat, CanReleaseRest(acc, o, n)
  PROVE  /\ IsAccounts(ReleaseRest(acc, o, n))
         /\ Balanced(ReleaseRest(acc, o, n))
         /\ DOMAIN ReleaseRest(acc, o, n) = DOMAIN acc
  <1>1. CASE IsBuy(o) /\ n < o.request.amount
    <2>1. o.request.amount - n \in Nat
      BY <1>1, OrderFields
    <2>2. Cost(o, o.request.amount - n) \in Nat
      BY <1>1, <2>1, CostIsNat
    <2> QED
      BY <1>1, <2>2, ReleaseRow DEF CanReleaseRest, ReleaseRest, RowBecomes
  <1>2. CASE ~(IsBuy(o) /\ n < o.request.amount)
    BY <1>2 DEF ReleaseRest
  <1> QED
    BY <1>1, <1>2

-----------------------------------------------------------------------------
(***************************************************************************)
(* Types and balances, for every call of the public API                    *)
(***************************************************************************)
TypedAndBalanced == TypeOK /\ AccountsBalanced

\* The empty tables are typed and balanced.
LEMMA TypedInit == Init => TypedAndBalanced
  BY DEF Init, TypedAndBalanced, TypeOK, AccountsBalanced, Balanced,
         IsAccounts

\* Opening an account, deposits and direct debits keep types and balances.
LEMMA TypedAccountStep ==
  ASSUME TypedAndBalanced, AccountStep
  PROVE  TypedAndBalanced'
  <1> USE DEF TypedAndBalanced, TypeOK, AccountsBalanced
  <1>1. PICK c \in Currency, n \in Deposits :
          InitializeAccounts(c, n) \/ Deposit(c, n) \/ Spend(c, n)
    BY DEF AccountStep
  <1>2. n \in Nat
    BY DepositAssumption
  <1>3. CASE InitializeAccounts(c, n)
    BY <1>2, <1>3, OpenAccountRow DEF InitializeAccounts
  <1>4. CASE Deposit(c, n)
    BY <1>2, <1>4, CreditRow DEF Deposit
  <1>5. CASE Spend(c, n)
    BY <1>2, <1>5, ConsumeAvailableRow DEF Spend
  <1> QED
    BY <1>1, <1>3, <1>4, <1>5

\* create_order keeps types and balances.
LEMMA TypedCreateOrder ==
  ASSUME TypedAndBalanced, NEW id \in OrderId, NEW req \in Requests,
         CreateOrder(id, req)
  PROVE  TypedAndBalanced'
  <1> USE DEF TypedAndBalanced, TypeOK, AccountsBalanced
  <1> DEFINE o == NewOrder(req)
  <1>1. o \in Order
    BY RequestAssumption, RequestOrder DEF CreateOrder
  <1>2. o.request = req /\ req.amount \in Nat
    BY <1>1, OrderFields DEF NewOrder
  <1>3. CASE id \in DOMAIN orders
    BY <1>3 DEF CreateOrder, vars
  <1>4. CASE id \notin DOMAIN orders
    <2>1. IsAccounts(accounts') /\ Balanced(accounts')
      <3>1. CASE IsBuy(o)
        <4>1. /\ CanFreeze(accounts, QuoteOf(o), Cost(o, req.amount))
              /\ accounts' = Freeze(accounts, QuoteOf(o), Cost(o, req.amount))
          BY <1>4, <3>1 DEF CreateOrder
        <4>2. Cost(o, req.amount) \in Nat
          BY <1>1, <1>2, <3>1, CostIsNat
        <4> QED
          BY <4>1, <4>2, FreezeRow
      <3>2. CASE ~IsBuy(o)
        BY <1>4, <3>2 DEF CreateOrder
      <3> QED
        BY <3>1, <3>2
    <2>2. orders' = [i \in DOMAIN orders \cup {id} |->
                       IF i = id THEN o ELSE orders[i]]
      BY <1>4 DEF CreateOrder
    <2>3. orders' \in [DOMAIN orders' -> Order] /\ DOMAIN orders' \subseteq OrderId
      <3> HIDE DEF o
      <3> QED
        BY <1>1, <2>2
    <2> QED
      BY <1>4, <2>1, <2>3 DEF CreateOrder
  <1> QED
    BY <1>3, <1>4

\* update_order_status keeps types and balances, whatever filled amount it is
\* given.
LEMMA TypedUpdateOrderStatus ==
  ASSUME TypedAndBalanced, NEW id \in DOMAIN orders, NEW s \in OrderStatus,
         NEW n \in Nat, UpdateOrderStatus(id, s, n)
  PROVE  TypedAndBalanced'
  <1> USE DEF TypedAndBalanced, TypeOK, AccountsBalanced
  <1> DEFINE o     == orders[id]
             rest  == IF s \in {"rejected", "canceled"}
                      THEN ReleaseRest(accounts, o, n) ELSE accounts
             grows == IsBuy(o) /\ n > o.filled
  <1>1. o \in Order /\ o.filled \in Nat
    BY OrderFields
  <1>2. IsAccounts(rest) /\ Balanced(rest)
    BY <1>1, ReleaseRestTyped DEF UpdateOrderStatus
  <1>3. IsAccounts(accounts') /\ Balanced(accounts')
    <2>1. CASE grows
      <3>1. n - o.filled \in Nat
        BY <1>1, <2>1
      <3>2. Cost(o, n - o.filled) \in Nat
        BY <1>1, <2>1, <3>1, CostIsNat
      <3>3. /\ CanConsumeFrozen(rest, QuoteOf(o), Cost(o, n - o.filled))
            /\ accounts' = ConsumeFrozen(rest, QuoteOf(o), Cost(o, n - o.filled))
        BY <2>1 DEF UpdateOrderStatus
      <3> HIDE DEF rest
      <3> QED
        BY <1>2, <3>2, <3>3, ConsumeFrozenRow
    <2>2. CASE ~grows
      BY <1>2, <2>2 DEF UpdateOrderStatus
    <2> QED
      BY <2>1, <2>2
  <1>4. orders' \in [DOMAIN orders -> Order] /\ DOMAIN orders' = DOMAIN orders
    <2>1. orders' = UpdateOrder(orders, id, s, n)
      BY DEF UpdateOrderStatus
    <2> QED
      BY <2>1, RowUpdate
  <1>5. trades' = trades
    BY DEF UpdateOrderStatus
  <1> QED
    BY <1>3, <1>4, <1>5

\* cancel_order keeps types and balances.
LEMMA TypedCancelOrder ==
  ASSUME TypedAndBalanced, NEW id \in DOMAIN orders, CancelOrder(id)
  PROVE  TypedAndBalanced'
  <1> USE DEF TypedAndBalanced, TypeOK, AccountsBalanced
  <1>1. orders[id] \in Order /\ orders[id].filled \in Nat
    BY OrderFields
  <1>2. CASE orders[id].status \in Terminal
    BY <1>2 DEF CancelOrder
  <1>3. CASE orders[id].status \notin Terminal
    <2>1. IsAccounts(accounts') /\ Balanced(accounts')
      BY <1>1, <1>3, ReleaseRestTyped DEF CancelOrder
    <2>2. orders' \in [DOMAIN orders -> Order] /\ DOMAIN orders' = DOMAIN orders
      <3> DEFINE n == orders[id].filled
                 s == "canceled"
      <3>1. orders' = UpdateOrder(orders, id, s, n)
        BY <1>3 DEF CancelOrder
      <3>2. s \in OrderStatus /\ n \in Nat
        BY <1>1 DEF OrderStatus
      <3> HIDE DEF n, s
      <3> QED
        BY <3>1, <3>2, RowUpdate
    <2> QED
      BY <2>1, <2>2 DEF CancelOrder
  <1> QED
    BY <1>2, <1>3

\* record_trade keeps types and balances.
LEMMA TypedRecordTrade ==
  ASSUME TypedAndBalanced, NEW id \in DOMAIN orders, NEW p \in TradePrice,
         NEW n \in 1..orders[id].request.amount, RecordTrade(id, p, n)
  PROVE  TypedAndBalanced'
  <1> USE DEF TypedAndBalanced, TypeOK, AccountsBalanced
  <1> DEFINE o == orders[id]
  <1>1. o \in Order /\ o.filled \in Nat /\ o.request.amount \in Nat
    BY OrderFields
  <1>2. n \in Nat \ {0} /\ id \in OrderId
    BY <1>1
  <1>3. IsAccounts(accounts') /\ Balanced(accounts')
    <2>1. CASE IsBuy(o)
      BY <1>1, <1>2, <2>1, CostIsNat, ConsumeFrozenRow DEF RecordTrade, TradeCost
    <2>2. CASE ~IsBuy(o)
      BY <2>2 DEF RecordTrade
    <2> QED
      BY <2>1, <2>2
  <1>4. orders' \in [DOMAIN orders -> Order] /\ DOMAIN orders' = DOMAIN orders
    <2>1. StatusAfter(o, FilledAfter(o, n)) \in OrderStatus
      BY DEF StatusAfter, OrderStatus
    <2>2. FilledAfter(o, n) \in Nat
      BY <1>1, <1>2 DEF FilledAfter
    <2>3. orders' = UpdateOrder(orders, id, StatusAfter(o, FilledAfter(o, n)),
                                 FilledAfter(o, n))
      BY DEF RecordTrade
    <2> QED
      BY <2>1, <2>2, <2>3, RowUpdate
  <1>5. trades' \in Seq(Trade)
    <2>1. [order |-> id, price |-> p, amount |-> n] \in Trade
      BY <1>2 DEF Trade
    <2>2. trades' = Append(trades, [order |-> id, price |-> p, amount |-> n])
      BY DEF RecordTrade
    <2> QED
      BY <2>1, <2>2, AppendProperties
  <1> QED
    BY <1>3, <1>4, <1>5

\* Types and balances are inductive for the whole public API.
LEMMA TypedStep == TypedAndBalanced /\ [ApiNext]_vars => TypedAndBalanced'
  <1> SUFFICES ASSUME TypedAndBalanced, [ApiNext]_vars
               PROVE  TypedAndBalanced'
    OBVIOUS
  <1>1. CASE AccountStep
    BY <1>1, TypedAccountStep
  <1>2. ASSUME NEW id \in OrderId, NEW req \in Requests, CreateOrder(id, req)
        PROVE  TypedAndBalanced'
    BY <1>2, TypedCreateOrder
  <1>3. ASSUME NEW id \in DOMAIN orders, NEW s \in OrderStatus,
               NEW n \in Nat, UpdateOrderStatus(id, s, n)
        PROVE  TypedAndBalanced'
    BY <1>3, TypedUpdateOrderStatus
  <1>4. ASSUME NEW id \in DOMAIN orders, CancelOrder(id)
        PROVE  TypedAndBalanced'
    BY <1>4, TypedCancelOrder
  <1>5. ASSUME NEW id \in DOMAIN orders, NEW p \in TradePrice,
               NEW n \in 1..orders[id].request.amount, RecordTrade(id, p, n)
        PROVE  TypedAndBalanced'
    BY <1>5, TypedRecordTrade
  <1>6. CASE UNCHANGED vars
    BY <1>6 DEF vars, TypedAndBalanced, TypeOK, AccountsBalanced
  <1>7. \A id \in DOMAIN orders : orders[id].filled \in Nat
    BY OrderFields DEF TypedAndBalanced, TypeOK
  <1>8. \A id \in DOMAIN orders : \A n \in 0..orders[id].request.amount : n \in Nat
    BY OrderFields DEF TypedAndBalanced, TypeOK
  <1>9. CASE Next
    BY <1>1, <1>2, <1>3, <1>4, <1>5, <1>7, <1>9 DEF Next, CancelOrder
  <1> QED
    BY <1>3, <1>6, <1>8, <1>9 DEF ApiNext

\* Whatever arguments the services are called with, every table keeps its type:
\* no column of an account and no filled amount goes below zero.
THEOREM ApiTyped == ApiSpec => []TypeOK
  <1>1. TypedAndBalanced => TypeOK
    BY DEF TypedAndBalanced
  <1> QED
    BY <1>1, TypedInit, TypedStep, PTL DEF ApiSpec

\* Every account's balance stays the sum of its available and frozen parts,
\* whatever arguments the services are called with.
THEOREM ApiBalanced == ApiSpec => []AccountsBalanced
  <1>1. TypedAndBalanced => AccountsBalanced
    BY DEF TypedAndBalanced
  <1> QED
    BY <1>1, TypedInit, TypedStep, PTL DEF ApiSpec

\* The engines' calls are among the calls of the API.
LEMMA NextIsApiNext == [Next]_vars => [ApiNext]_vars
  BY DEF ApiNext

\* The same types and balances under the calls the engines make.
THEOREM LedgerTyped == Spec => [](TypeOK /\ AccountsBalanced)
  <1>1. TypedAndBalanced => TypeOK /\ AccountsBalanced
    BY DEF TypedAndBalanced
  <1> QED
    BY <1>1, TypedInit, TypedStep, NextIsApiNext, PTL DEF Spec

-----------------------------------------------------------------------------
(***************************************************************************)
(* No money leaks, for the calls the engines make                          *)
(*                                                                         *)
(* FrozenIsHeld is not inductive: an account that is opened starts with    *)
(* nothing frozen, so no order may already hold its currency, and the sum  *)
(* over the orders must be finite to be changed by one term at a time.     *)
(***************************************************************************)
FrozenOf(c) == IF c \in DOMAIN accounts THEN accounts[c].frozen ELSE 0

HeldInv ==
  \A c \in Currency :
    /\ IsFiniteSet(Units(HeldIn(c)))
    /\ FrozenOf(c) = Total(HeldIn(c))

LedgerInv ==
  /\ TypedAndBalanced
  /\ FillMatchesStatus
  /\ HeldInv

\* The cost of two fills together is the sum of their costs.
LEMMA CostSplits ==
  ASSUME NEW o \in Order, IsBuy(o), NEW a \in Nat, NEW b \in Nat
  PROVE  /\ Cost(o, a + b) = Cost(o, a) + Cost(o, b)
         /\ Cost(o, 0) = 0
  <1> DEFINE p == o.request.price
  <1>1. p \in Nat
    BY OrderFields
  <1> HIDE DEF p
  <1>2. (a + b) * p = a * p + b * p /\ 0 * p = 0
    BY <1>1
  <1> QED
    BY <1>2 DEF Cost, p

\* What a live buy holds is never negative.
LEMMA HeldIsNat ==
  ASSUME NEW o \in Order, o.filled <= o.request.amount
  PROVE  Held(o) \in Nat
  <1>1. o.request.amount - o.filled \in Nat
    BY OrderFields
  <1> QED
    BY <1>1, CostIsNat DEF Held

\* The part of an order's holding that is in currency c.
Share(o, c) == IF IsBuy(o) /\ QuoteOf(o) = c THEN Held(o) ELSE 0

\* HeldIn lists every order's share of a currency, before and after a step.
LEMMA HeldInShare ==
  ASSUME NEW c
  PROVE  /\ DOMAIN HeldIn(c) = DOMAIN orders
         /\ \A i \in DOMAIN orders : HeldIn(c)[i] = Share(orders[i], c)
         /\ DOMAIN HeldIn(c)' = DOMAIN orders'
         /\ \A i \in DOMAIN orders' : HeldIn(c)'[i] = Share(orders'[i], c)
  BY DEF HeldIn, BuysIn, Share, QuoteOf, IsBuy, Held, Live, Cost

\* A share is a natural number.
LEMMA ShareIsNat ==
  ASSUME NEW o \in Order, o.filled <= o.request.amount, NEW c
  PROVE  Share(o, c) \in Nat
  BY HeldIsNat DEF Share

\* A step that writes one order row, and moves the frozen money of every
\* currency by what that order's holding changes, keeps the sums right.
LEMMA OneOrderStep ==
  ASSUME HeldInv, TypeOK, TypeOK', FillMatchesStatus, FillMatchesStatus',
         NEW i \in DOMAIN orders',
         DOMAIN orders' = DOMAIN orders \cup {i},
         \A j \in DOMAIN orders : j # i => orders'[j] = orders[j],
         \A c \in Currency :
           FrozenOf(c)' = FrozenOf(c)
             - (IF i \in DOMAIN orders THEN Share(orders[i], c) ELSE 0)
             + Share(orders'[i], c)
  PROVE  HeldInv'
  <1> SUFFICES ASSUME NEW c \in Currency
               PROVE  /\ IsFiniteSet(Units(HeldIn(c)'))
                      /\ FrozenOf(c)' = Total(HeldIn(c)')
    BY DEF HeldInv, Units, Total
  <1> DEFINE f == HeldIn(c)
             g == HeldIn(c)'
  <1>1. orders' \in [DOMAIN orders' -> Order] /\ orders \in [DOMAIN orders -> Order]
    BY DEF TypeOK
  <1>2. Share(orders'[i], c) \in Nat
    <2>1. orders'[i] \in Order /\ orders'[i].filled <= orders'[i].request.amount
      BY <1>1 DEF FillMatchesStatus
    <2> QED
      BY <2>1, ShareIsNat
  <1>3. i \in DOMAIN orders => Share(orders[i], c) \in Nat
    BY <1>1, ShareIsNat DEF FillMatchesStatus
  <1>4. /\ DOMAIN f = DOMAIN orders
        /\ DOMAIN g = DOMAIN orders'
        /\ \A j \in DOMAIN orders : f[j] = Share(orders[j], c)
        /\ \A j \in DOMAIN orders' : g[j] = Share(orders'[j], c)
    BY HeldInShare
  <1>5. IsFiniteSet(Units(f)) /\ FrozenOf(c) = Total(f)
    BY DEF HeldInv
  <1> HIDE DEF f, g
  <1>6. /\ IsFiniteSet(Units(g))
        /\ Total(g) = Total(f) - (IF i \in DOMAIN f THEN f[i] ELSE 0) + g[i]
    <2>1. DOMAIN g = DOMAIN f \cup {i}
      BY <1>4
    <2>2. \A j \in DOMAIN f : j # i => g[j] = f[j]
      BY <1>4
    <2>3. g[i] \in Nat /\ (i \in DOMAIN f => f[i] \in Nat)
      BY <1>2, <1>3, <1>4
    <2> QED
      BY <1>5, <2>1, <2>2, <2>3, TotalUpdate
  <1>7. FrozenOf(c)' = Total(g)
    BY <1>4, <1>5, <1>6
  <1> QED
    BY <1>6, <1>7 DEF g

\* A step that changes neither orders nor frozen money keeps the sums right.
LEMMA SameOrdersStep ==
  ASSUME HeldInv, orders' = orders,
         \A c \in Currency : FrozenOf(c)' = FrozenOf(c)
  PROVE  HeldInv'
  <1> SUFFICES ASSUME NEW c \in Currency
               PROVE  /\ IsFiniteSet(Units(HeldIn(c)'))
                      /\ FrozenOf(c)' = Total(HeldIn(c)')
    BY DEF HeldInv, Units, Total
  <1>1. HeldIn(c)' = HeldIn(c)
    BY DEF HeldIn, BuysIn, QuoteOf, IsBuy, Held, Live, Cost
  <1> QED
    BY <1>1 DEF HeldInv

\* A helper that writes the row of currency d moves only the frozen money of d.
LEMMA FrozenOfRow ==
  ASSUME NEW d \in DOMAIN accounts, NEW b, NEW a, NEW f,
         RowBecomes(accounts, accounts', d,
                    [balance |-> b, available |-> a, frozen |-> f])
  PROVE  /\ FrozenOf(d)' = f
         /\ FrozenOf(d) = accounts[d].frozen
         /\ \A c \in Currency : c # d => FrozenOf(c)' = FrozenOf(c)
  BY DEF RowBecomes, FrozenOf

\* freeze_funds raises the frozen money of its currency by n, and of no other.
LEMMA FreezeMoves ==
  ASSUME IsAccounts(accounts), Balanced(accounts), NEW d, NEW n \in Nat,
         CanFreeze(accounts, d, n), accounts' = Freeze(accounts, d, n)
  PROVE  /\ d \in DOMAIN accounts
         /\ FrozenOf(d)' = FrozenOf(d) + n
         /\ \A c \in Currency : c # d => FrozenOf(c)' = FrozenOf(c)
  <1>1. d \in DOMAIN accounts
    BY DEF CanFreeze
  <1>2. RowBecomes(accounts, accounts', d,
          [balance   |-> accounts[d].balance,
           available |-> accounts[d].available - n,
           frozen    |-> accounts[d].frozen + n])
    BY FreezeRow
  <1>3. FrozenOf(d)' = accounts[d].frozen + n
    BY <1>1, <1>2, FrozenOfRow
  <1> QED
    BY <1>1, <1>2, <1>3, FrozenOfRow

\* release_funds lowers the frozen money of its currency by n, and of no other.
LEMMA ReleaseMoves ==
  ASSUME IsAccounts(accounts), Balanced(accounts), NEW d, NEW n \in Nat,
         CanRelease(accounts, d, n), accounts' = Release(accounts, d, n)
  PROVE  /\ d \in DOMAIN accounts
         /\ FrozenOf(d)' = FrozenOf(d) - n
         /\ \A c \in Currency : c # d => FrozenOf(c)' = FrozenOf(c)
  <1>1. d \in DOMAIN accounts
    BY DEF CanRelease
  <1>2. RowBecomes(accounts, accounts', d,
          [balance   |-> accounts[d].balance,
           available |-> accounts[d].available + n,
           frozen    |-> accounts[d].frozen - n])
    BY ReleaseRow
  <1>3. FrozenOf(d)' = accounts[d].frozen - n
    BY <1>1, <1>2, FrozenOfRow
  <1> QED
    BY <1>1, <1>2, <1>3, FrozenOfRow

\* _consume_frozen_funds lowers the frozen money of its currency by n.
LEMMA ConsumeFrozenMoves ==
  ASSUME IsAccounts(accounts), Balanced(accounts), NEW d, NEW n \in Nat,
         CanConsumeFrozen(accounts, d, n), accounts' = ConsumeFrozen(accounts, d, n)
  PROVE  /\ d \in DOMAIN accounts
         /\ FrozenOf(d)' = FrozenOf(d) - n
         /\ \A c \in Currency : c # d => FrozenOf(c)' = FrozenOf(c)
  <1>1. d \in DOMAIN accounts
    BY DEF CanConsumeFrozen, CanRelease
  <1>2. RowBecomes(accounts, accounts', d,
          [balance   |-> accounts[d].balance - n,
           available |-> accounts[d].available,
           frozen    |-> accounts[d].frozen - n])
    BY ConsumeFrozenRow
  <1>3. FrozenOf(d)' = accounts[d].frozen - n
    BY <1>1, <1>2, FrozenOfRow
  <1> QED
    BY <1>1, <1>2, <1>3, FrozenOfRow

\* The steps that touch no order keep the inductive invariant.
LEMMA LedgerAccountStep ==
  ASSUME LedgerInv, AccountStep
  PROVE  LedgerInv'
  <1>1. PICK k \in Currency, n \in Deposits :
          InitializeAccounts(k, n) \/ Deposit(k, n) \/ Spend(k, n)
    BY DEF AccountStep
  <1>2. n \in Nat
    BY DepositAssumption
  <1>3. IsAccounts(accounts) /\ Balanced(accounts)
    BY DEF LedgerInv, TypedAndBalanced, TypeOK, AccountsBalanced
  <1>4. \A c \in Currency : FrozenOf(c)' = FrozenOf(c)
    <2>1. CASE InitializeAccounts(k, n)
      <3>1. accounts' = OpenAccount(accounts, k, n)
        BY <2>1 DEF InitializeAccounts
      <3>2. /\ DOMAIN accounts' = DOMAIN accounts \cup {k}
            /\ \A c \in DOMAIN accounts : accounts'[c] = accounts[c]
            /\ k \notin DOMAIN accounts => accounts'[k].frozen = 0
        BY <1>2, <1>3, <3>1, OpenAccountRow
      <3> QED
        BY <3>2 DEF FrozenOf
    <2>2. CASE Deposit(k, n)
      <3>1. CanCredit(accounts, k, n) /\ accounts' = Credit(accounts, k, n)
        BY <2>2 DEF Deposit
      <3>2. k \in DOMAIN accounts
        BY <3>1 DEF CanCredit
      <3> QED
        BY <1>2, <1>3, <3>1, <3>2, CreditRow, FrozenOfRow
    <2>3. CASE Spend(k, n)
      <3>1. /\ CanConsumeAvailable(accounts, k, n)
            /\ accounts' = ConsumeAvailable(accounts, k, n)
        BY <2>3 DEF Spend
      <3>2. k \in DOMAIN accounts
        BY <3>1 DEF CanConsumeAvailable, CanFreeze
      <3> QED
        BY <1>2, <1>3, <3>1, <3>2, ConsumeAvailableRow, FrozenOfRow
    <2> QED
      BY <1>1, <2>1, <2>2, <2>3
  <1>5. orders' = orders
    BY <1>1 DEF InitializeAccounts, Deposit, Spend
  <1>6. HeldInv'
    BY <1>4, <1>5, SameOrdersStep DEF LedgerInv
  <1>7. FillMatchesStatus'
    BY <1>5 DEF LedgerInv, FillMatchesStatus
  <1> QED
    BY <1>6, <1>7, TypedAccountStep DEF LedgerInv

\* create_order freezes exactly what the new order holds.
LEMMA LedgerCreateOrder ==
  ASSUME LedgerInv, NEW id \in OrderId, NEW req \in Requests,
         CreateOrder(id, req)
  PROVE  LedgerInv'
  <1> DEFINE o == NewOrder(req)
             d == QuoteOf(o)
  <1>0. /\ TypedAndBalanced /\ TypeOK /\ FillMatchesStatus /\ HeldInv
        /\ IsAccounts(accounts) /\ Balanced(accounts)
    BY DEF LedgerInv, TypedAndBalanced, TypeOK, AccountsBalanced
  <1>1. TypedAndBalanced' /\ TypeOK'
    BY <1>0, TypedCreateOrder DEF TypedAndBalanced
  <1>2. /\ o \in Order /\ o.request = req /\ req.amount \in Nat \ {0}
        /\ o.filled = 0 /\ o.status = "pending"
    BY RequestAssumption, RequestOrder, OrderFields DEF CreateOrder, NewOrder
  <1>3. CASE id \in DOMAIN orders
    <2>1. accounts' = accounts /\ orders' = orders
      BY <1>3 DEF CreateOrder, vars
    <2>2. HeldInv'
      BY <1>0, <2>1, SameOrdersStep DEF FrozenOf
    <2> QED
      BY <1>0, <1>1, <2>1, <2>2 DEF LedgerInv, FillMatchesStatus
  <1>4. CASE id \notin DOMAIN orders
    <2>1. orders' = [i \in DOMAIN orders \cup {id} |->
                       IF i = id THEN o ELSE orders[i]]
      BY <1>4 DEF CreateOrder
    <2>2. /\ DOMAIN orders' = DOMAIN orders \cup {id}
          /\ orders'[id] = o
          /\ \A j \in DOMAIN orders : j # id => orders'[j] = orders[j]
      BY <2>1, <1>4
    <2>3. FillMatchesStatus'
      BY <1>0, <1>2, <2>2 DEF FillMatchesStatus
    <2>4. \A c \in Currency : FrozenOf(c)' = FrozenOf(c) - 0 + Share(o, c)
      <3>0. \A c \in Currency : FrozenOf(c) \in Nat
        BY <1>0, RowTyped DEF FrozenOf
      <3>1. CASE IsBuy(o)
        <4>1. /\ CanFreeze(accounts, d, Cost(o, req.amount))
              /\ accounts' = Freeze(accounts, d, Cost(o, req.amount))
          BY <1>4, <3>1 DEF CreateOrder
        <4>2. Cost(o, req.amount) \in Nat /\ d \in DOMAIN accounts
          BY <1>2, <3>1, <4>1, CostIsNat DEF CanFreeze
        <4>3. Share(o, d) = Cost(o, req.amount)
          BY <1>2, <3>1 DEF Share, Held, Live, Terminal
        <4>4. /\ FrozenOf(d)' = FrozenOf(d) + Cost(o, req.amount)
              /\ \A c \in Currency : c # d => FrozenOf(c)' = FrozenOf(c)
          <5> HIDE DEF d, o
          <5> QED
            BY <1>0, <4>1, <4>2, FreezeMoves
        <4>5. \A c \in Currency : c # d => Share(o, c) = 0
          BY DEF Share
        <4> HIDE DEF d, o
        <4> QED
          BY <3>0, <4>2, <4>3, <4>4, <4>5
      <3>2. CASE ~IsBuy(o)
        <4>1. accounts' = accounts
          BY <1>4, <3>2 DEF CreateOrder
        <4> QED
          BY <3>0, <3>2, <4>1 DEF Share, FrozenOf
      <3> QED
        BY <3>1, <3>2
    <2>5. HeldInv'
      <3> HIDE DEF o
      <3> QED
        BY <1>0, <1>1, <1>4, <2>2, <2>3, <2>4, OneOrderStep
    <2> QED
      BY <1>1, <2>3, <2>5 DEF LedgerInv
  <1> QED
    BY <1>3, <1>4

\* Closing a live order returns exactly what it holds.
LEMMA ReleaseRestFrozen ==
  ASSUME LedgerInv, NEW id \in DOMAIN orders, Live(orders[id]),
         CanReleaseRest(accounts, orders[id], orders[id].filled),
         accounts' = ReleaseRest(accounts, orders[id], orders[id].filled)
  PROVE  \A c \in Currency :
           FrozenOf(c)' = FrozenOf(c) - Share(orders[id], c) + 0
  <1> DEFINE o    == orders[id]
             left == o.request.amount - o.filled
  <1>1. /\ o \in Order /\ o.filled <= o.request.amount
        /\ IsAccounts(accounts) /\ Balanced(accounts)
    BY DEF LedgerInv, TypedAndBalanced, TypeOK, AccountsBalanced,
           FillMatchesStatus
  <1>2. left \in Nat /\ (o.filled < o.request.amount <=> left # 0)
    BY <1>1, OrderFields
  <1>3. \A c \in Currency : FrozenOf(c) \in Nat
    BY <1>1, RowTyped DEF FrozenOf
  \* d names the currency rigidly: it must not be primed with the orders.
  <1>d. PICK d : d = QuoteOf(o)
    OBVIOUS
  <1>4. CASE IsBuy(o) /\ o.filled < o.request.amount
    <2>1. Cost(o, left) \in Nat
      BY <1>1, <1>2, <1>4, CostIsNat
    <2>2. /\ CanRelease(accounts, d, Cost(o, left))
          /\ accounts' = Release(accounts, d, Cost(o, left))
      BY <1>4, <1>d DEF CanReleaseRest, ReleaseRest
    <2>3. d \in DOMAIN accounts
      BY <2>2 DEF CanRelease
    <2>4. /\ FrozenOf(d)' = FrozenOf(d) - Cost(o, left)
          /\ \A c \in Currency : c # d => FrozenOf(c)' = FrozenOf(c)
      <3>1. PICK n \in Nat : n = Cost(o, left)
        BY <2>1
      <3> HIDE DEF o, left
      <3> QED
        BY <1>1, <2>2, <2>3, <3>1, ReleaseMoves
    <2>5. /\ Share(o, d) = Cost(o, left)
          /\ \A c \in Currency : c # d => Share(o, c) = 0
      BY <1>4, <1>d DEF Share, Held
    <2> HIDE DEF left
    <2>6. ASSUME NEW c \in Currency
          PROVE  FrozenOf(c)' = FrozenOf(c) - Share(o, c) + 0
      <3> HIDE DEF o
      <3> QED
        BY <1>3, <2>1, <2>4, <2>5, <2>6
    <2> QED
      BY <2>6
  <1>5. CASE ~(IsBuy(o) /\ o.filled < o.request.amount)
    <2>1. accounts' = accounts
      BY <1>5 DEF ReleaseRest
    <2>2. \A c \in Currency : Share(o, c) = 0
      <3>1. CASE IsBuy(o)
        <4>1. left = 0
          BY <1>2, <1>5, <3>1
        <4>2. Held(o) = 0
          <5>1. Cost(o, 0) = 0
            BY <1>1, <3>1, CostSplits
          <5> QED
            BY <4>1, <5>1 DEF Held
        <4> QED
          BY <4>2 DEF Share
      <3>2. CASE ~IsBuy(o)
        BY <3>2 DEF Share
      <3> QED
        BY <3>1, <3>2
    <2> QED
      BY <1>3, <2>1, <2>2 DEF FrozenOf
  <1> QED
    BY <1>4, <1>5

\* An order that is written without changing its fill, on its way to status s.
LEMMA StatusStep ==
  ASSUME LedgerInv, TypedAndBalanced', NEW id \in DOMAIN orders,
         NEW s \in OrderStatus \ {"partially_filled", "filled"},
         CanTransition(orders[id].status, s),
         orders' = UpdateOrder(orders, id, s, orders[id].filled),
         IF s \in {"rejected", "canceled"}
         THEN /\ CanReleaseRest(accounts, orders[id], orders[id].filled)
              /\ accounts' = ReleaseRest(accounts, orders[id], orders[id].filled)
         ELSE accounts' = accounts
  PROVE  LedgerInv'
  <1> DEFINE o == orders[id]
             n == o.filled
  <1>1. /\ TypeOK /\ TypeOK' /\ HeldInv /\ FillMatchesStatus
        /\ o \in Order /\ n \in Nat
    BY OrderFields DEF LedgerInv, TypedAndBalanced, TypeOK
  <1>2. /\ DOMAIN orders' = DOMAIN orders
        /\ orders'[id] = [request |-> o.request, filled |-> n, status |-> s]
        /\ \A j \in DOMAIN orders : j # id => orders'[j] = orders[j]
    <2>1. orders' = UpdateOrder(orders, id, s, n)
      OBVIOUS
    <2> HIDE DEF n
    <2> QED
      BY <1>1, <2>1, RowUpdate
  <1>3. o.status \in {"pending", "open", "partially_filled"} /\ Live(o)
    BY <1>1, OrderFields DEF CanTransition, ValidTransitions, OrderStatus, Live, Terminal
  <1>4. s \in {"open", "rejected"} => n = 0
    BY <1>1, <1>3 DEF CanTransition, ValidTransitions, FillMatchesStatus
  <1>5. s # "pending" /\ n # o.request.amount
    <2>1. s # "pending"
      BY <1>3 DEF CanTransition, ValidTransitions
    <2>2. n # o.request.amount
      BY <1>1, <1>3 DEF FillMatchesStatus
    <2> QED
      BY <2>1, <2>2
  <1>6. FillMatchesStatus'
    <2> SUFFICES ASSUME NEW i \in DOMAIN orders'
                 PROVE  LET q == orders'[i] IN
                        /\ q.filled <= q.request.amount
                        /\ q.status \in {"pending", "open", "rejected"} => q.filled = 0
                        /\ q.status = "partially_filled" => q.filled > 0
                        /\ q.status = "filled" <=> q.filled = q.request.amount
      BY DEF FillMatchesStatus
    <2>1. CASE i = id
      <3>1. n <= o.request.amount
        BY <1>1 DEF FillMatchesStatus
      <3> QED
        BY <1>2, <1>4, <1>5, <2>1, <3>1
    <2>2. CASE i # id
      BY <1>1, <1>2, <2>2 DEF FillMatchesStatus
    <2> QED
      BY <2>1, <2>2
  <1>7. \A c \in Currency :
          FrozenOf(c)' = FrozenOf(c) - Share(o, c) + Share(orders'[id], c)
    <2>1. CASE s \in {"rejected", "canceled"}
      <3>1. \A c \in Currency : Share(orders'[id], c) = 0
        BY <1>2, <2>1 DEF Share, Held, Live, Terminal
      <3> QED
        BY <1>3, <2>1, <3>1, ReleaseRestFrozen
    <2>2. CASE s \notin {"rejected", "canceled"}
      <3>1. Live(orders'[id])
        BY <1>2, <2>2 DEF Live, Terminal
      <3>2. \A c \in Currency : Share(orders'[id], c) = Share(o, c)
        BY <1>2, <1>3, <3>1 DEF Share, Held, QuoteOf, IsBuy, Cost
      <3>3. \A c \in Currency : Share(o, c) \in Nat
        BY <1>1, ShareIsNat DEF FillMatchesStatus
      <3>4. \A c \in Currency : FrozenOf(c) \in Nat /\ FrozenOf(c)' = FrozenOf(c)
        BY <1>1, <2>2, RowTyped DEF FrozenOf, TypeOK
      <3> HIDE DEF o
      <3> QED
        BY <3>2, <3>3, <3>4
    <2> QED
      BY <2>1, <2>2
  <1>8. HeldInv'
    <2>1. id \in DOMAIN orders' /\ DOMAIN orders' = DOMAIN orders \cup {id}
      BY <1>2
    <2> QED
      BY <1>1, <1>2, <1>6, <1>7, <2>1, OneOrderStep
  <1> QED
    BY <1>6, <1>8 DEF LedgerInv

\* update_order_status, as the engines call it, keeps the inductive invariant.
LEMMA LedgerUpdateOrderStatus ==
  ASSUME LedgerInv, NEW id \in DOMAIN orders,
         NEW s \in OrderStatus \ {"partially_filled", "filled"},
         UpdateOrderStatus(id, s, orders[id].filled)
  PROVE  LedgerInv'
  <1> DEFINE o == orders[id]
  <1>1. TypedAndBalanced /\ o.filled \in Nat
    BY OrderFields DEF LedgerInv, TypedAndBalanced, TypeOK
  <1>2. TypedAndBalanced'
    <2>1. PICK n \in Nat : n = o.filled
      BY <1>1
    <2>2. UpdateOrderStatus(id, s, n)
      BY <2>1
    <2> QED
      BY <1>1, <2>2, TypedUpdateOrderStatus
  <1>3. ~(o.filled > o.filled)
    BY <1>1
  <1>4. /\ CanTransition(o.status, s)
        /\ orders' = UpdateOrder(orders, id, s, o.filled)
        /\ s \in {"rejected", "canceled"} => CanReleaseRest(accounts, o, o.filled)
        /\ accounts' = IF s \in {"rejected", "canceled"}
                       THEN ReleaseRest(accounts, o, o.filled) ELSE accounts
    BY <1>3 DEF UpdateOrderStatus
  <1> QED
    BY <1>2, <1>4, StatusStep

\* cancel_order releases exactly what the order still held.
LEMMA LedgerCancelOrder ==
  ASSUME LedgerInv, NEW id \in DOMAIN orders, CancelOrder(id)
  PROVE  LedgerInv'
  <1> DEFINE o == orders[id]
  <1>1. CASE o.status \in Terminal
    <2>1. accounts' = accounts /\ orders' = orders /\ trades' = trades
      BY <1>1 DEF CancelOrder
    <2>2. HeldInv'
      BY <2>1, SameOrdersStep DEF LedgerInv, FrozenOf
    <2> QED
      BY <2>1, <2>2 DEF LedgerInv, TypedAndBalanced, TypeOK, AccountsBalanced,
                        FillMatchesStatus
  <1>2. CASE o.status \notin Terminal
    <2>1. /\ orders' = UpdateOrder(orders, id, "canceled", o.filled)
          /\ CanReleaseRest(accounts, o, o.filled)
          /\ accounts' = ReleaseRest(accounts, o, o.filled)
      BY <1>2 DEF CancelOrder
    <2>2. TypedAndBalanced'
      BY TypedCancelOrder DEF LedgerInv
    <2>3. CanTransition(o.status, "canceled")
      <3>1. o.status \in OrderStatus
        BY OrderFields DEF LedgerInv, TypedAndBalanced, TypeOK
      <3> QED
        BY <1>2, <3>1 DEF CanTransition, ValidTransitions, OrderStatus, Terminal
    <2>4. "canceled" \in OrderStatus \ {"partially_filled", "filled"}
      BY DEF OrderStatus
    <2> QED
      BY <2>1, <2>2, <2>3, <2>4, StatusStep
  <1> QED
    BY <1>1, <1>2

\* record_trade consumes exactly what the fill takes from the holding.
LEMMA LedgerRecordTrade ==
  ASSUME LedgerInv, NEW id \in DOMAIN orders, NEW p \in TradePrice,
         NEW n \in 1..orders[id].request.amount, RecordTrade(id, p, n)
  PROVE  LedgerInv'
  <1> DEFINE o    == orders[id]
             f    == FilledAfter(o, n)
             s    == StatusAfter(o, f)
             left == o.request.amount - f
  <1>1. /\ TypeOK /\ HeldInv /\ FillMatchesStatus
        /\ IsAccounts(accounts) /\ Balanced(accounts)
        /\ o \in Order /\ o.filled \in Nat /\ o.request.amount \in Nat
        /\ n \in Nat /\ n > 0
    BY OrderFields DEF LedgerInv, TypedAndBalanced, TypeOK, AccountsBalanced
  <1>2. TypedAndBalanced' /\ TypeOK'
    BY TypedRecordTrade DEF LedgerInv, TypedAndBalanced
  <1>3. /\ o.status \in Fillable /\ Live(o)
        /\ f = o.filled + n /\ f \in Nat /\ f > 0 /\ f <= o.request.amount
        /\ left \in Nat /\ o.request.amount - o.filled = n + left
    BY <1>1 DEF RecordTrade, FilledAfter, Live, Fillable, Terminal
  <1>4. /\ DOMAIN orders' = DOMAIN orders
        /\ orders'[id] = [request |-> o.request, filled |-> f, status |-> s]
        /\ \A j \in DOMAIN orders : j # id => orders'[j] = orders[j]
    <2>1. orders' = UpdateOrder(orders, id, s, f)
      BY DEF RecordTrade
    <2>2. s \in OrderStatus
      BY DEF StatusAfter, OrderStatus
    <2>3. f \in Nat
      BY <1>3
    <2> HIDE DEF s, f
    <2> QED
      BY <1>1, <2>1, <2>2, <2>3, RowUpdate
  <1>5. /\ f = o.request.amount => s = "filled"
        /\ f # o.request.amount => s = "partially_filled"
    BY DEF StatusAfter
  <1>6. FillMatchesStatus'
    <2> SUFFICES ASSUME NEW i \in DOMAIN orders'
                 PROVE  LET q == orders'[i] IN
                        /\ q.filled <= q.request.amount
                        /\ q.status \in {"pending", "open", "rejected"} => q.filled = 0
                        /\ q.status = "partially_filled" => q.filled > 0
                        /\ q.status = "filled" <=> q.filled = q.request.amount
      BY DEF FillMatchesStatus
    <2>1. CASE i = id
      <3> HIDE DEF s, f
      <3> QED
        BY <1>3, <1>4, <1>5, <2>1
    <2>2. CASE i # id
      BY <1>1, <1>4, <2>2 DEF FillMatchesStatus
    <2> QED
      BY <2>1, <2>2
  <1>7. \A c \in Currency :
          FrozenOf(c)' = FrozenOf(c) - Share(o, c) + Share(orders'[id], c)
    <2>0. \A c \in Currency : FrozenOf(c) \in Nat
      BY <1>1, RowTyped DEF FrozenOf
    <2>d. PICK d : d = QuoteOf(o)
      OBVIOUS
    <2>1. CASE IsBuy(o)
      <3>1. PICK paid \in Nat : paid = Cost(o, n)
        BY <1>1, <2>1, CostIsNat
      <3>2. PICK kept \in Nat : kept = Cost(o, left)
        BY <1>1, <1>3, <2>1, CostIsNat
      <3>3. /\ CanConsumeFrozen(accounts, d, paid)
            /\ accounts' = ConsumeFrozen(accounts, d, paid)
        BY <2>1, <2>d, <3>1 DEF RecordTrade, TradeCost
      <3>4. /\ d \in DOMAIN accounts
            /\ FrozenOf(d)' = FrozenOf(d) - paid
            /\ \A c \in Currency : c # d => FrozenOf(c)' = FrozenOf(c)
        BY <1>1, <3>3, ConsumeFrozenMoves
      <3>5. /\ Share(o, d) = paid + kept
            /\ \A c \in Currency : c # d => Share(o, c) = 0
        <4>1. Cost(o, n + left) = paid + kept
          BY <1>1, <1>3, <2>1, <3>1, <3>2, CostSplits
        <4> QED
          BY <1>3, <2>1, <2>d, <4>1 DEF Share, Held
      <3>6. /\ Share(orders'[id], d) = kept
            /\ \A c \in Currency : c # d => Share(orders'[id], c) = 0
        <4>1. /\ IsBuy(orders'[id]) /\ QuoteOf(orders'[id]) = d
              /\ Cost(orders'[id], left) = kept
          BY <1>4, <2>1, <2>d, <3>2 DEF IsBuy, QuoteOf, Cost
        <4>2. CASE f = o.request.amount
          <5>1. Share(orders'[id], d) = 0
            BY <1>4, <1>5, <4>2 DEF Share, Held, Live, Terminal
          <5>2. kept = 0
            <6>1. left = 0
              BY <1>3, <4>2
            <6> HIDE DEF left
            <6> QED
              BY <1>1, <2>1, <3>2, <6>1, CostSplits
          <5> QED
            BY <4>1, <5>1, <5>2 DEF Share
        <4>3. CASE f # o.request.amount
          <5>1. Live(orders'[id])
            BY <1>4, <1>5, <4>3 DEF Live, Terminal
          <5>2. orders'[id].request.amount - orders'[id].filled = left
            BY <1>4
          <5> QED
            BY <4>1, <5>1, <5>2 DEF Share, Held
        <4> QED
          BY <4>2, <4>3
      <3> HIDE DEF o
      <3>7. ASSUME NEW c \in Currency
            PROVE  FrozenOf(c)' = FrozenOf(c) - Share(o, c) + Share(orders'[id], c)
        BY <2>0, <3>4, <3>5, <3>6, <3>7
      <3> QED
        BY <3>7
    <2>2. CASE ~IsBuy(o)
      <3>1. accounts' = accounts
        BY <2>2 DEF RecordTrade
      <3>2. \A c \in Currency : Share(o, c) = 0 /\ Share(orders'[id], c) = 0
        BY <1>4, <2>2 DEF Share, IsBuy
      <3> HIDE DEF o
      <3> QED
        BY <2>0, <3>1, <3>2 DEF FrozenOf
    <2> QED
      BY <2>1, <2>2
  <1>8. HeldInv'
    <2>1. id \in DOMAIN orders' /\ DOMAIN orders' = DOMAIN orders \cup {id}
      BY <1>4
    <2> QED
      BY <1>1, <1>2, <1>4, <1>6, <1>7, <2>1, OneOrderStep
  <1> QED
    BY <1>2, <1>6, <1>8 DEF LedgerInv

\* With no orders nothing is held and nothing is frozen.
LEMMA LedgerInit == Init => LedgerInv
  <1> SUFFICES ASSUME Init PROVE LedgerInv
    OBVIOUS
  <1>1. DOMAIN orders = {} /\ DOMAIN accounts = {}
    BY DEF Init
  <1>2. ASSUME NEW c \in Currency
        PROVE  IsFiniteSet(Units(HeldIn(c))) /\ Total(HeldIn(c)) = 0
    <2>1. DOMAIN HeldIn(c) = {}
      BY <1>1, HeldInShare
    <2> QED
      BY <2>1, TotalZero
  <1> QED
    BY <1>1, <1>2, TypedInit DEF LedgerInv, FillMatchesStatus, HeldInv, FrozenOf

\* The inductive invariant of the ledger is kept by every step.
LEMMA LedgerStep == LedgerInv /\ [Next]_vars => LedgerInv'
  <1> SUFFICES ASSUME LedgerInv, [Next]_vars
               PROVE  LedgerInv'
    OBVIOUS
  <1>1. CASE AccountStep
    BY <1>1, LedgerAccountStep
  <1>2. ASSUME NEW id \in OrderId, NEW req \in Requests, CreateOrder(id, req)
        PROVE  LedgerInv'
    BY <1>2, LedgerCreateOrder
  <1>3. ASSUME NEW id \in DOMAIN orders,
               NEW s \in OrderStatus \ {"partially_filled", "filled"},
               UpdateOrderStatus(id, s, orders[id].filled)
        PROVE  LedgerInv'
    BY <1>3, LedgerUpdateOrderStatus
  <1>4. ASSUME NEW id \in DOMAIN orders, CancelOrder(id)
        PROVE  LedgerInv'
    BY <1>4, LedgerCancelOrder
  <1>5. ASSUME NEW id \in DOMAIN orders, NEW p \in TradePrice,
               NEW n \in 1..orders[id].request.amount, RecordTrade(id, p, n)
        PROVE  LedgerInv'
    BY <1>5, LedgerRecordTrade
  <1>6. CASE UNCHANGED vars
    <2>1. accounts' = accounts /\ orders' = orders /\ trades' = trades
      BY <1>6 DEF vars
    <2>2. HeldInv'
      BY <2>1, SameOrdersStep DEF LedgerInv, FrozenOf
    <2> QED
      BY <2>1, <2>2 DEF LedgerInv, TypedAndBalanced, TypeOK, AccountsBalanced,
                        FillMatchesStatus
  <1> QED
    BY <1>1, <1>2, <1>3, <1>4, <1>5, <1>6 DEF Next, CancelOrder

\* The status of an order always agrees with its filled amount.
THEOREM LedgerFillMatchesStatus == Spec => []FillMatchesStatus
  <1>1. LedgerInv => FillMatchesStatus
    BY DEF LedgerInv
  <1> QED
    BY <1>1, LedgerInit, LedgerStep, PTL DEF Spec

\* The frozen column of every account is the sum of what live buys hold.
THEOREM LedgerFrozenIsHeld == Spec => []FrozenIsHeld
  <1>1. LedgerInv => FrozenIsHeld
    BY DEF LedgerInv, HeldInv, FrozenOf, FrozenIsHeld, TypedAndBalanced,
           TypeOK, IsAccounts
  <1> QED
    BY <1>1, LedgerInit, LedgerStep, PTL DEF Spec

\* No live buy is ever stranded: its account covers what it still holds.
THEOREM LedgerAlwaysCancelable == Spec => []AlwaysCancelable
  <1>1. LedgerInv => AlwaysCancelable
    <2> SUFFICES ASSUME LedgerInv, NEW i \in DOMAIN orders, Held(orders[i]) > 0
                 PROVE  /\ QuoteOf(orders[i]) \in DOMAIN accounts
                        /\ accounts[QuoteOf(orders[i])].frozen >= Held(orders[i])
      BY DEF AlwaysCancelable
    <2> DEFINE o == orders[i]
               c == QuoteOf(o)
               h == HeldIn(c)
    <2>1. o \in Order /\ o.filled <= o.request.amount /\ c \in Currency
      BY OrderFields DEF LedgerInv, TypedAndBalanced, TypeOK, FillMatchesStatus
    <2>2. Held(o) \in Nat
      BY <2>1, HeldIsNat
    <2>3. i \in DOMAIN h /\ h[i] = Held(o)
      <3>1. IsBuy(o)
        BY DEF Held
      <3> QED
        BY <3>1, HeldInShare DEF Share
    <2>4. IsFiniteSet(Units(h)) /\ FrozenOf(c) = Total(h)
      BY <2>1 DEF LedgerInv, HeldInv
    <2>5. Held(o) <= FrozenOf(c)
      <3> HIDE DEF h
      <3> QED
        BY <2>2, <2>3, <2>4, UnitsSplit
    <2> HIDE DEF c, o
    <2>6. c \in DOMAIN accounts /\ accounts[c].frozen >= Held(o)
      <3>1. c \in DOMAIN accounts
        BY <2>2, <2>5 DEF FrozenOf, o
      <3>2. FrozenOf(c) = accounts[c].frozen /\ accounts[c].frozen \in Nat
        BY <3>1, RowTyped DEF FrozenOf, LedgerInv, TypedAndBalanced, TypeOK
      <3> QED
        BY <2>2, <2>5, <3>1, <3>2
    <2> QED
      BY <2>6 DEF c, o
  <1> QED
    BY <1>1, LedgerInit, LedgerStep, PTL DEF Spec

-----------------------------------------------------------------------------
(***************************************************************************)
(* What happens to one row                                                 *)
(***************************************************************************)
\* The rows of other orders stay, and this one changes only along the state
\* machine.
RowStep(id) ==
  /\ DOMAIN orders' = DOMAIN orders
  /\ \A i \in DOMAIN orders : i # id => orders'[i] = orders[i]
  /\ \/ orders'[id] = orders[id]
     \/ /\ CanTransition(orders[id].status, orders'[id].status)
        /\ orders'[id].request = orders[id].request

\* Writing the status and the filled amount of one row.
LEMMA RowMoves ==
  ASSUME TypeOK, NEW id \in DOMAIN orders, NEW s, NEW n,
         CanTransition(orders[id].status, s), orders' = UpdateOrder(orders, id, s, n)
  PROVE  /\ DOMAIN orders' = DOMAIN orders
         /\ \A i \in DOMAIN orders : i # id => orders'[i] = orders[i]
         /\ orders'[id].request = orders[id].request
         /\ orders'[id].filled = n
         /\ CanTransition(orders[id].status, orders'[id].status)
  <1> DEFINE row == [request |-> orders[id].request, filled |-> n, status |-> s]
  <1>1. orders' = [orders EXCEPT ![id] = row]
    BY DEF UpdateOrder
  <1>2. orders \in [DOMAIN orders -> Order]
    BY DEF TypeOK
  <1>3. DOMAIN orders' = DOMAIN orders /\ orders'[id] = row
    BY <1>1, <1>2
  <1>4. \A i \in DOMAIN orders : i # id => orders'[i] = orders[i]
    BY <1>1, <1>2
  <1>5. row.status = s /\ row.filled = n /\ row.request = orders[id].request
    OBVIOUS
  <1> HIDE DEF row
  <1> QED
    BY <1>3, <1>4, <1>5

\* Every call leaves the orders table, adds a row, or steps one row.
LEMMA OrdersStep ==
  ASSUME TypeOK, [ApiNext]_vars
  PROVE  \/ orders' = orders
         \/ \E id \in OrderId \ DOMAIN orders :
              /\ DOMAIN orders' = DOMAIN orders \cup {id}
              /\ \A i \in DOMAIN orders : orders'[i] = orders[i]
         \/ \E id \in DOMAIN orders : RowStep(id)
  <1>u. ASSUME NEW id \in DOMAIN orders, NEW s, NEW n,
               CanTransition(orders[id].status, s), orders' = UpdateOrder(orders, id, s, n)
        PROVE  RowStep(id)
    BY <1>u, RowMoves DEF RowStep
  <1>1. CASE AccountStep
    BY <1>1 DEF AccountStep, InitializeAccounts, Deposit, Spend
  <1>2. ASSUME NEW id \in OrderId, NEW req \in Requests, CreateOrder(id, req)
        PROVE  \/ orders' = orders
               \/ /\ id \notin DOMAIN orders
                  /\ DOMAIN orders' = DOMAIN orders \cup {id}
                  /\ \A i \in DOMAIN orders : orders'[i] = orders[i]
    BY <1>2 DEF CreateOrder, vars
  <1>3. ASSUME NEW id \in DOMAIN orders, NEW s, NEW n, UpdateOrderStatus(id, s, n)
        PROVE  RowStep(id)
    BY <1>3, <1>u DEF UpdateOrderStatus
  <1>4. ASSUME NEW id \in DOMAIN orders, CancelOrder(id)
        PROVE  orders' = orders \/ RowStep(id)
    <2>1. CASE orders[id].status \in Terminal
      BY <1>4, <2>1 DEF CancelOrder
    <2>2. CASE orders[id].status \notin Terminal
      <3>1. orders[id].status \in OrderStatus
        BY OrderFields DEF TypeOK
      <3>2. CanTransition(orders[id].status, "canceled")
        BY <2>2, <3>1 DEF CanTransition, ValidTransitions, OrderStatus, Terminal
      <3>3. orders' = UpdateOrder(orders, id, "canceled", orders[id].filled)
        BY <1>4, <2>2 DEF CancelOrder
      <3> QED
        BY <1>u, <3>2, <3>3
    <2> QED
      BY <2>1, <2>2
  <1>5. ASSUME NEW id \in DOMAIN orders, NEW p, NEW n, RecordTrade(id, p, n)
        PROVE  RowStep(id)
    BY <1>5, <1>u DEF RecordTrade
  <1>6. CASE UNCHANGED vars
    BY <1>6 DEF vars
  <1> QED
    BY <1>1, <1>2, <1>3, <1>4, <1>5, <1>6 DEF ApiNext, Next, CancelOrder

\* A finished order is never touched again, whatever arguments callers pass.
THEOREM FinishedIsFinal == ApiSpec => TerminalIsFinal
  <1>1. TypeOK /\ [ApiNext]_vars =>
          [\A i \in DOMAIN orders :
             orders[i].status \in Terminal => orders'[i] = orders[i]]_vars
    <2> SUFFICES ASSUME TypeOK, [ApiNext]_vars, NEW i \in DOMAIN orders,
                        orders[i].status \in Terminal
                 PROVE  orders'[i] = orders[i]
      OBVIOUS
    <2>1. \A s : ~CanTransition(orders[i].status, s)
      BY DEF CanTransition, ValidTransitions, Terminal
    <2>2. CASE \E id \in DOMAIN orders : RowStep(id)
      BY <2>1, <2>2 DEF RowStep
    <2> QED
      BY <2>2, OrdersStep
  <1> QED
    BY <1>1, ApiTyped, PTL DEF ApiSpec, TerminalIsFinal

-----------------------------------------------------------------------------
(***************************************************************************)
(* Orders and trades                                                       *)
(***************************************************************************)
FilledOf(i) == IF i \in DOMAIN orders THEN orders[i].filled ELSE 0

\* What the table of trades adds up to for every id, also one not in use yet:
\* the first fill of an order must find nothing recorded for it.
TradedInv ==
  \A i \in OrderId :
    IsFiniteSet(Units(TradedFor(i))) /\ Total(TradedFor(i)) = FilledOf(i)

\* A step that keeps the trades and the fills: at most one row is added or
\* moves along the state machine.
QuietStep ==
  /\ trades' = trades
  /\ \A i \in DOMAIN orders' \ DOMAIN orders : orders'[i].filled = 0
  /\ \A i \in DOMAIN orders :
       /\ i \in DOMAIN orders'
       /\ orders'[i].request = orders[i].request
       /\ orders'[i].filled = orders[i].filled
       /\ orders'[i] # orders[i] =>
            CanTransition(orders[i].status, orders'[i].status)

\* A step that records a trade of n for order i and fills it by n.
FillStep(i, n) ==
  /\ \E t \in Trade : t.order = i /\ t.amount = n /\ trades' = Append(trades, t)
  /\ DOMAIN orders' = DOMAIN orders
  /\ \A j \in DOMAIN orders : j # i => orders'[j] = orders[j]
  /\ orders'[i].request = orders[i].request
  /\ orders'[i].filled = orders[i].filled + n
  /\ CanTransition(orders[i].status, orders'[i].status)

\* Every call of the engines is one of the two.
LEMMA QuietOrFill ==
  ASSUME TypeOK, [Next]_vars
  PROVE  \/ QuietStep
         \/ \E i \in DOMAIN orders : \E n \in Nat : FillStep(i, n)
  <1>q. ASSUME NEW id \in DOMAIN orders, NEW s, trades' = trades,
               CanTransition(orders[id].status, s),
               orders' = UpdateOrder(orders, id, s, orders[id].filled)
        PROVE  QuietStep
    BY <1>q, RowMoves DEF QuietStep
  <1>0. ASSUME orders' = orders, trades' = trades
        PROVE  QuietStep
    BY <1>0 DEF QuietStep
  <1>1. CASE AccountStep
    BY <1>1, <1>0 DEF AccountStep, InitializeAccounts, Deposit, Spend
  <1>2. ASSUME NEW id \in OrderId, NEW req \in Requests, CreateOrder(id, req)
        PROVE  QuietStep
    <2>1. CASE UNCHANGED vars
      BY <2>1, <1>0 DEF vars
    <2>2. CASE ~UNCHANGED vars
      <3>1. /\ trades' = trades
            /\ id \notin DOMAIN orders
            /\ orders' = [i \in DOMAIN orders \cup {id} |->
                            IF i = id THEN NewOrder(req) ELSE orders[i]]
        BY <1>2, <2>2 DEF CreateOrder
      <3>2. NewOrder(req).filled = 0
        BY DEF NewOrder
      <3> QED
        BY <3>1, <3>2 DEF QuietStep
    <2> QED
      BY <2>1, <2>2
  <1>3. ASSUME NEW id \in DOMAIN orders, NEW s,
               UpdateOrderStatus(id, s, orders[id].filled)
        PROVE  QuietStep
    BY <1>3, <1>q DEF UpdateOrderStatus
  <1>4. ASSUME NEW id \in DOMAIN orders, CancelOrder(id)
        PROVE  QuietStep
    <2>1. CASE orders[id].status \in Terminal
      BY <1>0, <1>4, <2>1 DEF CancelOrder
    <2>2. CASE orders[id].status \notin Terminal
      <3>1. orders[id].status \in OrderStatus
        BY OrderFields DEF TypeOK
      <3>2. CanTransition(orders[id].status, "canceled")
        BY <2>2, <3>1 DEF CanTransition, ValidTransitions, OrderStatus, Terminal
      <3>3. /\ orders' = UpdateOrder(orders, id, "canceled", orders[id].filled)
            /\ trades' = trades
        BY <1>4, <2>2 DEF CancelOrder
      <3> QED
        BY <1>q, <3>2, <3>3
    <2> QED
      BY <2>1, <2>2
  <1>5. ASSUME NEW id \in DOMAIN orders, NEW p \in TradePrice,
               NEW n \in 1..orders[id].request.amount, RecordTrade(id, p, n)
        PROVE  \E k \in Nat : FillStep(id, k)
    <2> DEFINE t == [order |-> id, price |-> p, amount |-> n]
    <2>1. n \in Nat \ {0} /\ id \in OrderId
      BY OrderFields DEF TypeOK
    <2>2. t \in Trade /\ t.order = id /\ t.amount = n
      BY <2>1 DEF Trade
    <2>3. trades' = Append(trades, t)
      BY <1>5 DEF RecordTrade
    <2>4. PICK s : /\ CanTransition(orders[id].status, s)
                   /\ orders' = UpdateOrder(orders, id, s, orders[id].filled + n)
      BY <1>5 DEF RecordTrade, FilledAfter
    <2> HIDE DEF t
    <2> QED
      BY <2>1, <2>2, <2>3, <2>4, RowMoves DEF FillStep
  <1>6. CASE UNCHANGED vars
    BY <1>0, <1>6 DEF vars
  <1> QED
    BY <1>1, <1>2, <1>3, <1>4, <1>5, <1>6 DEF Next, CancelOrder

\* A recorded trade adds its amount to its own order's sum and to no other.
LEMMA TradeAdds ==
  ASSUME trades \in Seq(Trade), NEW t \in Trade, trades' = Append(trades, t),
         NEW i, IsFiniteSet(Units(TradedFor(i)))
  PROVE  /\ IsFiniteSet(Units(TradedFor(i)'))
         /\ Total(TradedFor(i)') =
              Total(TradedFor(i)) + (IF t.order = i THEN t.amount ELSE 0)
  <1> DEFINE f == TradedFor(i)
             g == TradedFor(i)'
             x == Len(trades) + 1
             d == IF t.order = i THEN t.amount ELSE 0
  <1>1. /\ Len(trades) \in Nat
        /\ DOMAIN trades = 1..Len(trades)
        /\ DOMAIN trades' = 1..(Len(trades) + 1)
        /\ \A k \in DOMAIN trades : trades'[k] = trades[k]
        /\ trades'[x] = t
    OBVIOUS
  <1>2. DOMAIN f = DOMAIN trades /\ DOMAIN g = DOMAIN trades'
    BY DEF TradedFor
  <1>3. DOMAIN g = DOMAIN f \cup {x} /\ x \notin DOMAIN f
    BY <1>1, <1>2
  <1>4. \A y \in DOMAIN f : y # x => g[y] = f[y]
    BY <1>1, <1>2 DEF TradedFor
  <1>5. g[x] = d
    BY <1>1 DEF TradedFor
  <1>6. d \in Nat
    BY DEF Trade
  <1> HIDE DEF f, g, x, d
  <1>7. /\ IsFiniteSet(Units(g))
        /\ Total(g) = Total(f) + d
    <2>1. IsFiniteSet(Units(f))
      BY DEF f
    <2>2. Total(f) \in Nat
      BY <2>1, FS_CardinalityType DEF Total
    <2>3. /\ IsFiniteSet(Units(g))
          /\ Total(g) = Total(f) - 0 + g[x]
      BY <1>3, <1>4, <1>5, <1>6, <2>1, TotalUpdate
    <2> QED
      BY <1>5, <1>6, <2>2, <2>3
  <1> QED
    BY <1>7 DEF f, g, d

LEMMA TradedInit == Init => TradedInv
  <1> SUFFICES ASSUME Init, NEW i \in OrderId
               PROVE  IsFiniteSet(Units(TradedFor(i))) /\ Total(TradedFor(i)) = FilledOf(i)
    BY DEF TradedInv
  <1>1. DOMAIN TradedFor(i) = {} /\ FilledOf(i) = 0
    BY DEF Init, TradedFor, FilledOf
  <1> QED
    BY <1>1, TotalZero

LEMMA TradedStep ==
  ASSUME TypeOK, TypeOK', TradedInv, [Next]_vars
  PROVE  TradedInv' /\ [OrdersOnlyProgress]_vars
  <1>1. CASE QuietStep
    <2>1. ASSUME NEW i \in OrderId
          PROVE  TradedFor(i)' = TradedFor(i) /\ FilledOf(i)' = FilledOf(i)
      BY <1>1 DEF QuietStep, TradedFor, FilledOf
    <2>2. \A i \in DOMAIN orders : orders[i].filled \in Nat
      BY OrderFields DEF TypeOK
    <2> QED
      BY <1>1, <2>1, <2>2 DEF QuietStep, TradedInv, OrdersOnlyProgress
  <1>2. ASSUME NEW id \in DOMAIN orders, NEW n \in Nat, FillStep(id, n)
        PROVE  TradedInv' /\ OrdersOnlyProgress
    <2>1. PICK t \in Trade : t.order = id /\ t.amount = n /\ trades' = Append(trades, t)
      BY <1>2 DEF FillStep
    <2>2. \A i \in DOMAIN orders : orders[i].filled \in Nat
      BY OrderFields DEF TypeOK
    <2>3. ASSUME NEW i \in OrderId
          PROVE  /\ IsFiniteSet(Units(TradedFor(i)'))
                 /\ Total(TradedFor(i)') = FilledOf(i)'
      <3>1. IsFiniteSet(Units(TradedFor(i))) /\ Total(TradedFor(i)) = FilledOf(i)
        BY DEF TradedInv
      <3>2. /\ IsFiniteSet(Units(TradedFor(i)'))
            /\ Total(TradedFor(i)') = FilledOf(i) + (IF id = i THEN n ELSE 0)
        BY <2>1, <3>1, TradeAdds DEF TypeOK
      <3>3. FilledOf(i)' = FilledOf(i) + (IF id = i THEN n ELSE 0)
        BY <1>2, <2>2 DEF FillStep, FilledOf
      <3> QED
        BY <3>2, <3>3
    <2>4. OrdersOnlyProgress
      BY <1>2, <2>2 DEF FillStep, OrdersOnlyProgress
    <2> QED
      BY <2>3, <2>4 DEF TradedInv
  <1> QED
    BY <1>1, <1>2, QuietOrFill

\* The tables of orders and trades agree, and orders only progress, for any
\* orders, requests and numbers of trades.
THEOREM LedgerOrdersFollowTrades == Spec => OrdersFollowTrades
  <1>1. TypeOK' /\ TradedInv' => FillsAreTraded'
    BY DEF TradedInv, FillsAreTraded, FilledOf, TypeOK
  <1>2. TypeOK /\ TypeOK' /\ TradedInv /\ [Next]_vars =>
          TradedInv' /\ [FillsAreTraded' /\ OrdersOnlyProgress]_vars
    BY <1>1, TradedStep
  <1> QED
    BY <1>2, TradedInit, LedgerTyped, PTL DEF Spec, OrdersFollowTrades

-----------------------------------------------------------------------------
(***************************************************************************)
(* The order ledger implements the escrow (OrderLedger!ImplementsEscrow).  *)
(* The abstract state is described pointwise, by currency and by order;    *)
(* then each call is a step of Escrow or a stutter.                        *)
(***************************************************************************)
\* The abstract variables, as the refinement mapping gives them.
FreeOf(c) == IF c \in DOMAIN accounts THEN accounts[c].available ELSE 0
EscrowOf(o) == [currency |-> QuoteOf(o), amount |-> Held(o)]

Free == [c \in Currency |-> FreeOf(c)]
Escrowed == [i \in Buys |-> EscrowOf(orders[i])]

LEMMA EscrowPointwise ==
  /\ DOMAIN Escrowed = Buys
  /\ \A i \in Buys : Escrowed[i] = EscrowOf(orders[i])
  /\ Escrowed' = [i \in Buys' |-> EscrowOf(orders'[i])]
  /\ Buys' = {i \in DOMAIN orders' : IsBuy(orders'[i])}
  BY DEF Escrowed, EscrowOf, Buys, QuoteOf, Held, Live, IsBuy, Cost

LEMMA FreePointwise ==
  /\ \A c \in Currency : Free[c] = FreeOf(c)
  /\ Free' = [c \in Currency |-> FreeOf(c)']
  BY DEF Free, FreeOf

\* The steps of the escrow in terms of the two.
LEMMA EscrowSteps ==
  /\ Free' = Free /\ Escrowed' = Escrowed => UNCHANGED E!vars
  /\ \A c : (/\ Free'[c] \in Nat
             /\ Free' = [Free EXCEPT ![c] = Free'[c]]
             /\ Escrowed' = Escrowed) => E!Fund(c)
  /\ \A i, c : (/\ i \notin DOMAIN Escrowed
                /\ Free'[c] \in 0..Free[c]
                /\ Free' = [Free EXCEPT ![c] = Free'[c]]
                /\ Escrowed' =
                     [j \in DOMAIN Escrowed \cup {i} |->
                        IF j = i
                        THEN [currency |-> c, amount |-> Free[c] - Free'[c]]
                        ELSE Escrowed[j]]) => E!Hold(i, c)
  /\ \A i, n : (/\ i \in DOMAIN Escrowed
                /\ n \in 1..Escrowed[i].amount
                /\ Escrowed' = [Escrowed EXCEPT ![i].amount = @ - n]
                /\ Free' = Free) => E!Pay(i)
  /\ \A i : (/\ i \in DOMAIN Escrowed
             /\ Escrowed' = [Escrowed EXCEPT ![i].amount = 0]
             /\ Free' = [Free EXCEPT ![Escrowed[i].currency] = @ + Escrowed[i].amount])
             => E!Return(i)
  BY DEF E!vars, E!Fund, E!Hold, E!Pay, E!Return, Free, FreeOf, Escrowed, EscrowOf

-----------------------------------------------------------------------------
(***************************************************************************)
(* From what a call does to a currency and to an order to the step         *)
(***************************************************************************)
LEMMA SameFree ==
  ASSUME \A c \in Currency : FreeOf(c)' = FreeOf(c)
  PROVE  Free' = Free
  BY FreePointwise DEF Free

LEMMA OneFree ==
  ASSUME NEW d \in Currency, \A c \in Currency : c # d => FreeOf(c)' = FreeOf(c)
  PROVE  /\ Free'[d] = FreeOf(d)'
         /\ Free' = [Free EXCEPT ![d] = FreeOf(d)']
  <1>1. Free'[d] = FreeOf(d)'
    BY FreePointwise
  <1>2. Free' = [Free EXCEPT ![d] = FreeOf(d)']
    <2> DEFINE new == [Free EXCEPT ![d] = FreeOf(d)']
    <2>1. DOMAIN Free = Currency
      BY DEF Free
    <2>2. new = [c \in Currency |-> IF c = d THEN FreeOf(d)' ELSE Free[c]]
      BY <2>1
    <2>3. ASSUME NEW c \in Currency
          PROVE  (IF c = d THEN FreeOf(d)' ELSE Free[c]) = FreeOf(c)'
      BY FreePointwise
    <2> HIDE DEF new
    <2> QED
      BY <2>2, <2>3, FreePointwise DEF new
  <1> QED
    BY <1>1, <1>2

\* Orders that are not buys, and rows whose holding stays, change no escrow.
LEMMA SameEscrow ==
  ASSUME Buys' = Buys, \A i \in Buys : EscrowOf(orders'[i]) = EscrowOf(orders[i])
  PROVE  Escrowed' = Escrowed
  BY EscrowPointwise DEF Escrowed

LEMMA OneEscrow ==
  ASSUME NEW id \in Buys, Buys' = Buys,
         \A i \in Buys : i # id => orders'[i] = orders[i],
         QuoteOf(orders'[id]) = QuoteOf(orders[id]),
         NEW h, Held(orders'[id]) = h
  PROVE  Escrowed' = [Escrowed EXCEPT ![id].amount = h]
  <1> DEFINE new == [Escrowed EXCEPT ![id].amount = h]
  <1>1. DOMAIN Escrowed = Buys /\ Escrowed[id] = EscrowOf(orders[id])
    BY EscrowPointwise
  <1>2. new = [i \in Buys |-> IF i = id THEN [Escrowed[id] EXCEPT !.amount = h]
                              ELSE Escrowed[i]]
    BY <1>1 DEF Escrowed
  <1>3. [Escrowed[id] EXCEPT !.amount = h] = EscrowOf(orders'[id])
    BY <1>1 DEF EscrowOf
  <1>4. \A i \in Buys : i # id => Escrowed[i] = EscrowOf(orders'[i])
    BY EscrowPointwise
  <1>5. Escrowed' = [i \in Buys |-> EscrowOf(orders'[i])]
    BY EscrowPointwise
  <1> HIDE DEF new
  <1> QED
    BY <1>2, <1>3, <1>4, <1>5 DEF new

\* A row of the accounts table as the free money sees it.
LEMMA FreeOfRow ==
  ASSUME NEW d \in DOMAIN accounts, NEW b, NEW a, NEW f,
         RowBecomes(accounts, accounts', d,
                    [balance |-> b, available |-> a, frozen |-> f])
  PROVE  /\ FreeOf(d)' = a
         /\ FreeOf(d) = accounts[d].available
         /\ \A c \in Currency : c # d => FreeOf(c)' = FreeOf(c)
  BY DEF RowBecomes, FreeOf

LEMMA FreeIsNat ==
  ASSUME IsAccounts(accounts), NEW c
  PROVE  FreeOf(c) \in Nat
  BY RowTyped DEF FreeOf

-----------------------------------------------------------------------------
(***************************************************************************)
(* The calls                                                               *)
(***************************************************************************)
\* Opening an account, deposits and direct debits move free money only.
LEMMA AccountStepFunds ==
  ASSUME LedgerInv, LedgerInv', AccountStep
  PROVE  \E c \in Currency : E!Fund(c)
  <1>1. PICK c \in Currency, n \in Deposits :
          InitializeAccounts(c, n) \/ Deposit(c, n) \/ Spend(c, n)
    BY DEF AccountStep
  <1>2. /\ n \in Nat /\ IsAccounts(accounts) /\ Balanced(accounts)
        /\ IsAccounts(accounts')
    BY DepositAssumption DEF LedgerInv, TypedAndBalanced, TypeOK, AccountsBalanced
  <1>3. \A d \in Currency : d # c => FreeOf(d)' = FreeOf(d)
    <2>1. CASE InitializeAccounts(c, n)
      <3>1. accounts' = OpenAccount(accounts, c, n)
        BY <2>1 DEF InitializeAccounts
      <3>2. /\ DOMAIN accounts' = DOMAIN accounts \cup {c}
            /\ \A d \in DOMAIN accounts : accounts'[d] = accounts[d]
        BY <1>2, <3>1, OpenAccountRow
      <3> QED
        BY <3>2 DEF FreeOf
    <2>2. CASE Deposit(c, n)
      <3>1. c \in DOMAIN accounts
        BY <2>2 DEF Deposit, CanCredit
      <3> QED
        BY <1>2, <2>2, <3>1, CreditRow, FreeOfRow DEF Deposit
    <2>3. CASE Spend(c, n)
      <3>1. c \in DOMAIN accounts
        BY <2>3 DEF Spend, CanConsumeAvailable, CanFreeze
      <3> QED
        BY <1>2, <2>3, <3>1, ConsumeAvailableRow, FreeOfRow DEF Spend
    <2> QED
      BY <1>1, <2>1, <2>2, <2>3
  <1>4. orders' = orders
    BY <1>1 DEF InitializeAccounts, Deposit, Spend
  <1>5. Escrowed' = Escrowed
    BY <1>4, SameEscrow, EscrowPointwise DEF Buys
  <1>6. FreeOf(c)' \in Nat
    BY <1>2, RowTyped DEF FreeOf
  <1>7. Free' = [Free EXCEPT ![c] = Free'[c]] /\ Free'[c] \in Nat
    BY <1>3, <1>6, OneFree
  <1> QED
    BY <1>5, <1>7, EscrowSteps

\* A buy is created with its whole cost taken from the free money of its
\* quote currency; a sell, or a repeated request, moves nothing.
LEMMA CreateOrderHolds ==
  ASSUME LedgerInv, LedgerInv', NEW id \in OrderId, NEW req \in Requests,
         CreateOrder(id, req)
  PROVE  \/ UNCHANGED E!vars
         \/ \E c \in Currency : E!Hold(id, c)
  <1> DEFINE o == NewOrder(req)
  <1>1. /\ IsAccounts(accounts) /\ Balanced(accounts)
        /\ o \in Order /\ o.request = req /\ req.amount \in Nat \ {0}
        /\ o.filled = 0 /\ o.status = "pending"
    BY RequestAssumption, RequestOrder, OrderFields
       DEF CreateOrder, NewOrder, LedgerInv, TypedAndBalanced, TypeOK, AccountsBalanced
  <1>2. CASE UNCHANGED vars
    <2>1. accounts' = accounts /\ orders' = orders
      BY <1>2 DEF vars
    <2>2. Free' = Free
      BY <2>1, SameFree DEF FreeOf
    <2>3. Escrowed' = Escrowed
      BY <2>1, SameEscrow, EscrowPointwise DEF Buys
    <2> QED
      BY <2>2, <2>3, EscrowSteps
  <1>3. CASE ~UNCHANGED vars
    <2>1. /\ id \notin DOMAIN orders
          /\ orders' = [i \in DOMAIN orders \cup {id} |-> IF i = id THEN o ELSE orders[i]]
          /\ IF IsBuy(o)
             THEN /\ CanFreeze(accounts, QuoteOf(o), Cost(o, req.amount))
                  /\ accounts' = Freeze(accounts, QuoteOf(o), Cost(o, req.amount))
             ELSE accounts' = accounts
      BY <1>3 DEF CreateOrder
    <2>2. /\ DOMAIN orders' = DOMAIN orders \cup {id}
          /\ orders'[id] = o
          /\ \A i \in DOMAIN orders : orders'[i] = orders[i]
      BY <2>1
    <2>3. CASE ~IsBuy(o)
      <3>1. Buys' = Buys /\ \A i \in Buys : orders'[i] = orders[i]
        <4> HIDE DEF o
        <4> QED
          BY <2>1, <2>2, <2>3, EscrowPointwise DEF Buys
      <3>2. Escrowed' = Escrowed
        BY <3>1, SameEscrow
      <3>3. Free' = Free
        BY <2>1, <2>3, SameFree DEF FreeOf
      <3> QED
        BY <3>2, <3>3, EscrowSteps
    <2>4. CASE IsBuy(o)
      <3>1. PICK d : d = QuoteOf(o)
        OBVIOUS
      <3>2. PICK n \in Nat : n = Cost(o, req.amount)
        BY <1>1, <2>4, CostIsNat
      <3>3. CanFreeze(accounts, d, n) /\ accounts' = Freeze(accounts, d, n)
        BY <2>1, <2>4, <3>1, <3>2
      <3>4. d \in DOMAIN accounts /\ d \in Currency
        BY <1>1, <3>3, RowTyped DEF CanFreeze
      <3>5. /\ FreeOf(d)' = FreeOf(d) - n
            /\ \A c \in Currency : c # d => FreeOf(c)' = FreeOf(c)
        <4>1. RowBecomes(accounts, accounts', d,
                [balance   |-> accounts[d].balance,
                 available |-> accounts[d].available - n,
                 frozen    |-> accounts[d].frozen + n])
          BY <1>1, <3>3, FreezeRow
        <4> QED
          BY <3>4, <4>1, FreeOfRow
      <3>6. FreeOf(d) \in Nat /\ FreeOf(d)' \in Nat /\ Free[d] = FreeOf(d)
        BY <1>1, <3>4, FreeIsNat, RowTyped, FreePointwise
           DEF FreeOf, LedgerInv, TypedAndBalanced, TypeOK
      <3>7. /\ Free'[d] \in 0..Free[d]
            /\ Free' = [Free EXCEPT ![d] = Free'[d]]
            /\ Free[d] - Free'[d] = n
        BY <3>4, <3>5, <3>6, OneFree
      <3>8. EscrowOf(o) = [currency |-> d, amount |-> n]
        BY <1>1, <2>4, <3>1, <3>2 DEF EscrowOf, Held, Live, Terminal
      <3>9. Buys' = Buys \cup {id} /\ id \notin Buys
        <4> HIDE DEF o
        <4> QED
          BY <2>1, <2>2, <2>4, EscrowPointwise DEF Buys
      <3>10. Escrowed' = [j \in DOMAIN Escrowed \cup {id} |->
                            IF j = id
                            THEN [currency |-> d, amount |-> Free[d] - Free'[d]]
                            ELSE Escrowed[j]]
        <4>1. DOMAIN Escrowed = Buys /\ Buys \subseteq DOMAIN orders
          BY EscrowPointwise DEF Buys
        <4>2. \A j \in Buys : Escrowed[j] = EscrowOf(orders'[j])
          BY <2>2, <4>1, EscrowPointwise
        <4> HIDE DEF o
        <4> QED
          BY <2>2, <3>7, <3>8, <3>9, <4>1, <4>2, EscrowPointwise
      <3> QED
        BY <3>4, <3>7, <3>9, <3>10, EscrowSteps, EscrowPointwise
    <2> QED
      BY <2>3, <2>4
  <1> QED
    BY <1>2, <1>3

\* Closing a live order hands back what it holds.
LEMMA CloseReturns ==
  ASSUME LedgerInv, NEW id \in DOMAIN orders, Live(orders[id]),
         NEW s \in Terminal,
         CanReleaseRest(accounts, orders[id], orders[id].filled),
         accounts' = ReleaseRest(accounts, orders[id], orders[id].filled),
         orders' = UpdateOrder(orders, id, s, orders[id].filled)
  PROVE  UNCHANGED E!vars \/ E!Return(id)
  <1> DEFINE o == orders[id]
  <1>1. /\ TypeOK /\ IsAccounts(accounts) /\ Balanced(accounts)
        /\ o \in Order /\ o.filled \in Nat /\ o.request.amount \in Nat
        /\ o.filled <= o.request.amount /\ o.filled # o.request.amount
    BY OrderFields DEF LedgerInv, TypedAndBalanced, TypeOK, AccountsBalanced,
                       FillMatchesStatus, Live, Terminal
  <1>2. /\ DOMAIN orders' = DOMAIN orders
        /\ orders'[id] = [request |-> o.request, filled |-> o.filled, status |-> s]
        /\ \A i \in DOMAIN orders : i # id => orders'[i] = orders[i]
    <2>1. s \in OrderStatus
      BY DEF Terminal, OrderStatus
    <2> QED
      BY <1>1, <2>1, RowUpdate
  <1>3. /\ IsBuy(orders'[id]) <=> IsBuy(o)
        /\ QuoteOf(orders'[id]) = QuoteOf(o)
        /\ Held(orders'[id]) = 0
    BY <1>2 DEF IsBuy, QuoteOf, Held, Live
  <1> HIDE DEF o
  <1>4. Buys' = Buys /\ (id \in Buys <=> IsBuy(o))
    BY <1>2, <1>3, EscrowPointwise DEF Buys, o
  <1>5. CASE ~IsBuy(o)
    <2>1. accounts' = accounts
      BY <1>5 DEF ReleaseRest, o
    <2>2. Free' = Free
      BY <2>1, SameFree DEF FreeOf
    <2>3. \A i \in Buys : orders'[i] = orders[i]
      BY <1>2, <1>4, <1>5 DEF Buys
    <2>4. Escrowed' = Escrowed
      BY <1>4, <2>3, SameEscrow
    <2> QED
      BY <2>2, <2>4, EscrowSteps
  <1>6. CASE IsBuy(o)
    <2>1. PICK d : d = QuoteOf(o)
      OBVIOUS
    <2>2. o.filled < o.request.amount /\ o.request.amount - o.filled \in Nat
      BY <1>1
    <2>3. PICK n \in Nat : n = Cost(o, o.request.amount - o.filled)
      BY <1>1, <1>6, <2>2, CostIsNat
    <2>4. CanRelease(accounts, d, n) /\ accounts' = Release(accounts, d, n)
      BY <1>6, <2>1, <2>2, <2>3 DEF CanReleaseRest, ReleaseRest, o
    <2>5. d \in DOMAIN accounts /\ d \in Currency
      BY <1>1, <2>4, RowTyped DEF CanRelease
    <2>6. /\ FreeOf(d)' = FreeOf(d) + n
          /\ \A c \in Currency : c # d => FreeOf(c)' = FreeOf(c)
      <3>1. RowBecomes(accounts, accounts', d,
              [balance   |-> accounts[d].balance,
               available |-> accounts[d].available + n,
               frozen    |-> accounts[d].frozen - n])
        BY <1>1, <2>4, ReleaseRow
      <3> QED
        BY <2>5, <3>1, FreeOfRow
    <2>7. id \in Buys /\ Escrowed[id] = [currency |-> d, amount |-> n]
      <3>1. Held(o) = n
        BY <1>6, <2>3 DEF Held, o
      <3> QED
        BY <1>4, <1>6, <2>1, <3>1, EscrowPointwise DEF EscrowOf, o
    <2>8. Escrowed' = [Escrowed EXCEPT ![id].amount = 0]
      BY <1>2, <1>3, <1>4, <2>7, OneEscrow DEF Buys, o
    <2>9. Free' = [Free EXCEPT ![d] = @ + n]
      <3>1. d \in DOMAIN Free /\ Free[d] = FreeOf(d)
        BY <2>5, FreePointwise DEF Free
      <3> QED
        BY <2>5, <2>6, <3>1, OneFree
    <2>10. /\ id \in DOMAIN Escrowed
           /\ Escrowed[id].currency = d /\ Escrowed[id].amount = n
      BY <2>7, EscrowPointwise
    <2> QED
      BY <2>8, <2>9, <2>10, EscrowSteps
  <1> QED
    BY <1>5, <1>6

\* Moving along without closing touches no money; closing hands it back.
LEMMA StatusReturns ==
  ASSUME LedgerInv, NEW id \in DOMAIN orders,
         NEW s \in OrderStatus \ {"partially_filled", "filled"},
         UpdateOrderStatus(id, s, orders[id].filled)
  PROVE  UNCHANGED E!vars \/ E!Return(id)
  <1> DEFINE o == orders[id]
  <1>1. /\ TypeOK /\ o \in Order /\ o.filled \in Nat /\ ~(o.filled > o.filled)
    BY OrderFields DEF LedgerInv, TypedAndBalanced, TypeOK
  <1>2. /\ CanTransition(o.status, s)
        /\ orders' = UpdateOrder(orders, id, s, o.filled)
    BY DEF UpdateOrderStatus
  <1>3. Live(o) /\ s # "pending"
    BY <1>1, <1>2, OrderFields
       DEF CanTransition, ValidTransitions, OrderStatus, Live, Terminal
  <1>4. CASE s \in {"rejected", "canceled"}
    <2>1. /\ CanReleaseRest(accounts, o, o.filled)
          /\ accounts' = ReleaseRest(accounts, o, o.filled)
      BY <1>1, <1>4 DEF UpdateOrderStatus
    <2>2. s \in Terminal
      BY <1>4 DEF Terminal
    <2> QED
      BY <1>2, <1>3, <2>1, <2>2, CloseReturns
  <1>5. CASE s \notin {"rejected", "canceled"}
    <2>1. accounts' = accounts
      BY <1>1, <1>5 DEF UpdateOrderStatus
    <2>2. /\ DOMAIN orders' = DOMAIN orders
          /\ orders'[id] = [request |-> o.request, filled |-> o.filled, status |-> s]
          /\ \A i \in DOMAIN orders : i # id => orders'[i] = orders[i]
      BY <1>1, <1>2, RowUpdate
    <2>3. Live(orders'[id])
      BY <1>5, <2>2 DEF Live, Terminal, OrderStatus
    <2>4. /\ EscrowOf(orders'[id]) = EscrowOf(o)
          /\ IsBuy(orders'[id]) <=> IsBuy(o)
      BY <1>3, <2>2, <2>3 DEF EscrowOf, Held, QuoteOf, IsBuy, Cost
    <2>5. Buys' = Buys
      BY <2>2, <2>4, EscrowPointwise DEF Buys
    <2>6. \A i \in Buys : EscrowOf(orders'[i]) = EscrowOf(orders[i])
      <3>1. \A i \in Buys : i # id => orders'[i] = orders[i]
        BY <2>2 DEF Buys
      <3> QED
        BY <2>4, <3>1
    <2>7. Escrowed' = Escrowed
      BY <2>5, <2>6, SameEscrow
    <2>8. Free' = Free
      BY <2>1, SameFree DEF FreeOf
    <2> QED
      BY <2>7, <2>8, EscrowSteps
  <1> QED
    BY <1>4, <1>5

LEMMA CancelReturns ==
  ASSUME LedgerInv, NEW id \in DOMAIN orders, CancelOrder(id)
  PROVE  UNCHANGED E!vars \/ E!Return(id)
  <1>1. CASE orders[id].status \in Terminal
    <2>1. accounts' = accounts /\ orders' = orders
      BY <1>1 DEF CancelOrder
    <2>2. Free' = Free
      BY <2>1, SameFree DEF FreeOf
    <2>3. Escrowed' = Escrowed
      BY <2>1, SameEscrow, EscrowPointwise DEF Buys
    <2> QED
      BY <2>2, <2>3, EscrowSteps
  <1>2. CASE orders[id].status \notin Terminal
    <2>1. /\ CanReleaseRest(accounts, orders[id], orders[id].filled)
          /\ accounts' = ReleaseRest(accounts, orders[id], orders[id].filled)
          /\ orders' = UpdateOrder(orders, id, "canceled", orders[id].filled)
          /\ Live(orders[id])
      BY <1>2 DEF CancelOrder, Live
    <2>2. "canceled" \in Terminal
      BY DEF Terminal
    <2> QED
      BY <2>1, <2>2, CloseReturns
  <1> QED
    BY <1>1, <1>2

\* A fill of a buy pays out of its own escrow; a fill of a sell moves nothing.
LEMMA TradePays ==
  ASSUME LedgerInv, NEW id \in DOMAIN orders, NEW p \in TradePrice,
         NEW n \in 1..orders[id].request.amount, RecordTrade(id, p, n)
  PROVE  UNCHANGED E!vars \/ E!Pay(id)
  <1> DEFINE o    == orders[id]
             f    == FilledAfter(o, n)
             s    == StatusAfter(o, f)
             left == o.request.amount - f
  <1>1. /\ TypeOK /\ IsAccounts(accounts) /\ Balanced(accounts)
        /\ o \in Order /\ o.filled \in Nat /\ o.request.amount \in Nat
        /\ n \in Nat /\ n > 0
    BY OrderFields DEF LedgerInv, TypedAndBalanced, TypeOK, AccountsBalanced
  <1>2. /\ Live(o) /\ f \in Nat /\ left \in Nat
        /\ o.request.amount - o.filled = n + left
    BY <1>1 DEF RecordTrade, FilledAfter, Live, Fillable, Terminal
  <1>3. /\ DOMAIN orders' = DOMAIN orders
        /\ orders'[id] = [request |-> o.request, filled |-> f, status |-> s]
        /\ \A i \in DOMAIN orders : i # id => orders'[i] = orders[i]
    <2>1. orders' = UpdateOrder(orders, id, s, f)
      BY DEF RecordTrade
    <2>2. s \in OrderStatus
      BY DEF StatusAfter, OrderStatus
    <2>3. f \in Nat
      BY <1>2
    <2> HIDE DEF s, f
    <2> QED
      BY <1>1, <2>1, <2>2, <2>3, RowUpdate
  <1>4. (s = "filled" /\ left = 0) \/ s = "partially_filled"
    BY <1>1, <1>2 DEF StatusAfter
  <1>5. /\ IsBuy(orders'[id]) <=> IsBuy(o)
        /\ QuoteOf(orders'[id]) = QuoteOf(o)
        /\ orders'[id].request.amount - orders'[id].filled = left
        /\ orders'[id].status = s
        /\ Cost(orders'[id], left) = Cost(o, left)
    BY <1>3 DEF IsBuy, QuoteOf, Cost
  <1> HIDE DEF s, f
  <1>6. Buys' = Buys /\ (id \in Buys <=> IsBuy(o))
    BY <1>3, <1>5, EscrowPointwise DEF Buys
  <1>7. CASE ~IsBuy(o)
    <2>1. accounts' = accounts
      BY <1>7 DEF RecordTrade
    <2>2. Free' = Free
      BY <2>1, SameFree DEF FreeOf
    <2>3. \A i \in Buys : orders'[i] = orders[i]
      BY <1>3, <1>6, <1>7 DEF Buys
    <2>4. Escrowed' = Escrowed
      BY <1>6, <2>3, SameEscrow
    <2> QED
      BY <2>2, <2>4, EscrowSteps
  <1>8. CASE IsBuy(o)
    <2>1. PICK d : d = QuoteOf(o)
      OBVIOUS
    <2>2. PICK paid \in Nat : paid = Cost(o, n) /\ paid > 0
      BY <1>1, <1>8, CostIsNat
    <2>3. PICK kept \in Nat : kept = Cost(o, left)
      BY <1>1, <1>2, <1>8, CostIsNat
    <2>4. /\ CanConsumeFrozen(accounts, d, paid)
          /\ accounts' = ConsumeFrozen(accounts, d, paid)
      BY <1>8, <2>1, <2>2 DEF RecordTrade, TradeCost
    <2>5. d \in DOMAIN accounts
      BY <2>4 DEF CanConsumeFrozen, CanRelease
    <2>6. \A c \in Currency : FreeOf(c)' = FreeOf(c)
      <3>1. RowBecomes(accounts, accounts', d,
              [balance   |-> accounts[d].balance - paid,
               available |-> accounts[d].available,
               frozen    |-> accounts[d].frozen - paid])
        BY <1>1, <2>4, ConsumeFrozenRow
      <3> QED
        BY <2>5, <3>1, FreeOfRow
    <2>7. Held(o) = paid + kept
      <3>1. Cost(o, n + left) = paid + kept
        BY <1>1, <1>2, <1>8, <2>2, <2>3, CostSplits
      <3> QED
        BY <1>2, <1>8, <3>1 DEF Held
    <2>8. Held(orders'[id]) = kept
      <3>1. CASE s = "filled" /\ left = 0
        <4>1. Cost(o, 0) = 0
          BY <1>1, <1>8, CostSplits
        <4>2. kept = 0
          BY <2>3, <3>1, <4>1
        <4> QED
          BY <1>5, <3>1, <4>2 DEF Held, Live, Terminal
      <3>2. CASE s = "partially_filled"
        BY <1>5, <1>8, <2>3, <3>2 DEF Held, Live, Terminal
      <3> QED
        BY <1>4, <3>1, <3>2
    <2>9. id \in DOMAIN Escrowed /\ Escrowed[id].amount = paid + kept
      BY <1>6, <1>8, <2>7, EscrowPointwise DEF EscrowOf
    <2>10. Escrowed' = [Escrowed EXCEPT ![id].amount = @ - paid]
      <3>1. Escrowed' = [Escrowed EXCEPT ![id].amount = kept]
        BY <1>3, <1>5, <1>6, <1>8, <2>8, OneEscrow DEF Buys
      <3>2. Escrowed[id].amount - paid = kept
        BY <2>9
      <3> QED
        BY <2>9, <3>1, <3>2
    <2>11. Free' = Free
      BY <2>6, SameFree
    <2> QED
      <3>1. paid \in 1..Escrowed[id].amount
        BY <2>2, <2>3, <2>9
      <3> QED
        BY <2>9, <2>10, <2>11, <3>1, EscrowSteps
  <1> QED
    BY <1>7, <1>8

-----------------------------------------------------------------------------
LEMMA EscrowInit == Init => E!Init
  <1> SUFFICES ASSUME Init PROVE E!Init
    OBVIOUS
  <1>1. DOMAIN accounts = {} /\ Buys = {}
    BY DEF Init, Buys
  <1> QED
    BY <1>1 DEF E!Init

LEMMA EscrowNext ==
  ASSUME LedgerInv, LedgerInv', [Next]_vars
  PROVE  [E!Next]_(E!vars)
  <1>0. DOMAIN orders \subseteq OrderId
    BY DEF LedgerInv, TypedAndBalanced, TypeOK
  <1>1. CASE AccountStep
    BY <1>1, AccountStepFunds DEF E!Next
  <1>2. ASSUME NEW id \in OrderId, NEW req \in Requests, CreateOrder(id, req)
        PROVE  [E!Next]_(E!vars)
    BY <1>2, CreateOrderHolds DEF E!Next
  <1>3. ASSUME NEW id \in DOMAIN orders,
               NEW s \in OrderStatus \ {"partially_filled", "filled"},
               UpdateOrderStatus(id, s, orders[id].filled)
        PROVE  [E!Next]_(E!vars)
    BY <1>0, <1>3, StatusReturns DEF E!Next
  <1>4. ASSUME NEW id \in DOMAIN orders, CancelOrder(id)
        PROVE  [E!Next]_(E!vars)
    BY <1>0, <1>4, CancelReturns DEF E!Next
  <1>5. ASSUME NEW id \in DOMAIN orders, NEW p \in TradePrice,
               NEW n \in 1..orders[id].request.amount, RecordTrade(id, p, n)
        PROVE  [E!Next]_(E!vars)
    BY <1>0, <1>5, TradePays DEF E!Next
  <1>6. CASE UNCHANGED vars
    <2>1. accounts' = accounts /\ orders' = orders
      BY <1>6 DEF vars
    <2>2. Free' = Free
      BY <2>1, SameFree DEF FreeOf
    <2>3. Escrowed' = Escrowed
      BY <2>1, SameEscrow, EscrowPointwise DEF Buys
    <2> QED
      BY <2>2, <2>3, EscrowSteps
  <1> QED
    BY <1>1, <1>2, <1>3, <1>4, <1>5, <1>6 DEF Next, CancelOrder

\* Money set aside for an order is that order's alone, for any currencies,
\* orders and amounts: every run of the ledger is a run of Escrow.
THEOREM LedgerImplementsEscrow == Spec => ImplementsEscrow
  <1>1. LedgerInv /\ LedgerInv' /\ [Next]_vars => [E!Next]_(E!vars)
    BY EscrowNext
  <1> QED
    BY <1>1, EscrowInit, LedgerInit, LedgerStep, PTL
       DEF Spec, ImplementsEscrow, E!Spec

=============================================================================
