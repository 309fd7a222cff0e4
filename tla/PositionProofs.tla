-------------------------- MODULE PositionProofs ---------------------------
(***************************************************************************)
(* Proofs about the two components that keep what is held beside the       *)
(* trades: GridStrategy (one strategy's counters and books), for any       *)
(* number of levels, any prices and any number of orders, and              *)
(* PositionBooks (the positions table), for any symbols, processes, prices *)
(* and amounts and any number of trades.                                   *)
(***************************************************************************)
EXTENDS GridStrategy, PositionBooks, FiniteSetTheorems, TLAPS

(* The orders whose fill is still to be answered.                          *)
Live == open \cup {n.order : n \in notices}

(* Live orders have ids of their own, already given out, and an order is   *)
(* reported once.                                                          *)
IdsAreUnique ==
  /\ \A o \in Live : o.id \in 1..placed
  /\ \A o, p \in Live : o.id = p.id => o = p
  /\ \A n \in notices : n.order \notin open
  /\ \A n, m \in notices : n.order = m.order => n = m

(* No id is entered under two levels.                                      *)
BooksAreInjective ==
  /\ \A l \in DOMAIN buys : buys[l] \in 1..placed
  /\ \A l \in DOMAIN sells : sells[l] \in 1..placed
  /\ \A l, k \in DOMAIN buys : buys[l] = buys[k] => l = k
  /\ \A l, k \in DOMAIN sells : sells[l] = sells[k] => l = k
  /\ \A l \in DOMAIN buys, k \in DOMAIN sells : buys[l] # sells[k]

OrdersAreEntered ==
  /\ \A o \in Live : o.side = "buy" => \E l \in DOMAIN buys : buys[l] = o.id
  /\ \A o \in Live : o.side # "buy" => \E l \in DOMAIN sells : sells[l] = o.id

(* The inductive invariant.                                                *)
IInv ==
  /\ TypeOK
  /\ IsFiniteSet(open)
  /\ ~started => notices = {}
  /\ OneOrderPerGap
  /\ IdsAreUnique
  /\ BooksAreInjective
  /\ OrdersAreEntered

(* A function on a finite set has finitely many values.                    *)
LEMMA ValuesAreFinite ==
  ASSUME NEW D, IsFiniteSet(D), NEW f, f = [x \in D |-> f[x]]
  PROVE  IsFiniteSet({f[x] : x \in D})
<1>1. f \in [D -> {f[x] : x \in D}]
  OBVIOUS
<1>2. f \in Surjection(D, {f[x] : x \in D})
  BY <1>1 DEF Surjection
<1> QED BY <1>2, FS_Surjection

-----------------------------------------------------------------------------
(***************************************************************************)
(* The grid and the books                                                  *)
(***************************************************************************)
LEMMA HalfType == Half \in Nat \ {0}
<1>1. GridNum \div 2 \in Int
  BY GridAssumption
<1> QED BY <1>1 DEF Half

LEMMA GapIsLevel ==
  /\ Gap \subseteq Level /\ Level \subseteq Int
  /\ \A g \in Gap : g + 1 \in Level
  BY HalfType DEF Gap, Level

LEMMA WithoutFacts ==
  ASSUME NEW f, NEW level
  PROVE  /\ DOMAIN Without(f, level) = DOMAIN f \ {level}
         /\ \A x \in DOMAIN f \ {level} : Without(f, level)[x] = f[x]
  BY DEF Without, Restrict

LEMMA LevelsOfFacts ==
  ASSUME NEW f, NEW id, NEW l
  PROVE  l \in LevelsOf(f, id) <=> l \in DOMAIN f /\ f[l] = id
  BY DEF LevelsOf

LEMMA NoOrdersFacts == DOMAIN NoOrders = {} /\ Range(NoOrders) = {}
  BY DEF NoOrders, Range

LEMMA InitInv == Init => IInv
<1> SUFFICES ASSUME Init PROVE IInv
  OBVIOUS
<1>1. DOMAIN buys = {} /\ DOMAIN sells = {} /\ Range(buys) = {} /\ Range(sells) = {}
  BY NoOrdersFacts DEF Init
<1>2. TypeOK
  <2>1. placed \in 0..MaxOrders /\ position \in Int
    BY BoundAssumption DEF Init
  <2>3. started \in BOOLEAN
    BY Zenon DEF Init
  <2>2. open = {} /\ notices = {}
    BY DEF Init
  <2> QED BY <1>1, <2>1, <2>2, <2>3 DEF TypeOK
<1>3. OneOrderPerGap
  BY <1>1 DEF OneOrderPerGap, BuyIn, SellIn
<1>4. IdsAreUnique /\ OrdersAreEntered
  BY DEF Init, IdsAreUnique, OrdersAreEntered, Live
<1>5. BooksAreInjective
  BY <1>1 DEF BooksAreInjective
<1> QED BY <1>2, <1>3, <1>4, <1>5, FS_EmptySet DEF IInv, Init

-----------------------------------------------------------------------------
(***************************************************************************)
(* The first orders                                                        *)
(***************************************************************************)
LEMMA StartInv == ASSUME IInv, Start PROVE IInv'
<1>h. Half \in Nat \ {0} /\ Half \in Int
  BY HalfType
<1>n. notices = {} /\ notices' = {}
  BY DEF IInv, Start
<1>b. /\ DOMAIN buys' = (0 - Half)..(0 - 1)
      /\ \A l \in DOMAIN buys' : buys'[l] = 0 - l
  BY DEF Start, Depth
<1>s. /\ DOMAIN sells' = 1..Half
      /\ \A l \in DOMAIN sells' : sells'[l] = Half + l
  BY DEF Start, Depth
<1>p. placed' = 2 * Half /\ placed' \in 0..MaxOrders /\ 2 * Half <= MaxOrders
  BY <1>h, BoundAssumption DEF Start, Depth
<1>o. \A o \in open' :
        \/ \E l \in (0 - Half)..(0 - 1) : o = [id |-> 0 - l, side |-> "buy", price |-> LevelPrice(l)]
        \/ \E l \in 1..Half : o = [id |-> Half + l, side |-> "sell", price |-> LevelPrice(l)]
  BY DEF Start, Depth
<1>1. TypeOK'
  <2>1. DOMAIN buys' \subseteq Level /\ DOMAIN sells' \subseteq Level
    BY <1>b, <1>s, <1>h DEF Level
  <2>2. Range(buys') \subseteq Id
    BY <1>b, <1>h, <1>p, BoundAssumption DEF Range, Id
  <2>3. Range(sells') \subseteq Id
    BY <1>s, <1>h, <1>p, BoundAssumption DEF Range, Id
  <2>4. \A l \in Int : LevelPrice(l) \in Int
    BY PriceAssumption DEF LevelPrice
  <2>5. \A o \in open' : o.id \in Id /\ o.side \in {"buy", "sell"} /\ o.price \in Int
    BY <1>o, <1>h, <1>p, <2>4, BoundAssumption DEF Id
  <2> QED BY <2>1, <2>2, <2>3, <2>5, <1>n, <1>p DEF IInv, TypeOK, Start
<1>2. OneOrderPerGap'
  BY <1>b, <1>s, <1>h DEF OneOrderPerGap, BuyIn, SellIn, Gap
<1>3. IdsAreUnique'
  <2>1. Live' = open'
    BY <1>n DEF Live
  <2>2. \A o \in open' : o.id \in 1..placed'
    BY <1>o, <1>h, <1>p
  <2>3. ASSUME NEW o \in open', NEW p \in open', o.id = p.id PROVE o = p
    BY <1>o, <1>h, <2>3
  <2> QED BY <1>n, <2>1, <2>2, <2>3 DEF IdsAreUnique
<1>4. BooksAreInjective'
  BY <1>b, <1>s, <1>h, <1>p DEF BooksAreInjective
<1>5. OrdersAreEntered'
  <2>1. Live' = open'
    BY <1>n DEF Live
  <2>2. ASSUME NEW o \in open', o.side = "buy" PROVE \E l \in DOMAIN buys' : buys'[l] = o.id
    BY <1>o, <1>b, <2>2
  <2>3. ASSUME NEW o \in open', o.side # "buy" PROVE \E l \in DOMAIN sells' : sells'[l] = o.id
    BY <1>o, <1>s, <2>3
  <2> QED BY <2>1, <2>2, <2>3 DEF OrdersAreEntered
<1>6. IsFiniteSet(open')
  <2> DEFINE B == (0 - Half)..(0 - 1)
             S == 1..Half
             Buy(l) == [id |-> 0 - l, side |-> "buy", price |-> LevelPrice(l)]
             Sale(l) == [id |-> Half + l, side |-> "sell", price |-> LevelPrice(l)]
             b == [l \in B |-> Buy(l)]
             s == [l \in S |-> Sale(l)]
             X == {b[l] : l \in B}
             Y == {s[l] : l \in S}
  <2>1. IsFiniteSet(B) /\ IsFiniteSet(S)
    BY <1>h, FS_Interval
  <2>2. open' = X \cup Y
    BY DEF Start, Depth
  <2>3. IsFiniteSet(X)
    <3>1. b = [l \in B |-> b[l]]
      OBVIOUS
    <3> HIDE DEF b, B
    <3> QED BY <3>1, <2>1, ValuesAreFinite
  <2>4. IsFiniteSet(Y)
    <3>1. s = [l \in S |-> s[l]]
      OBVIOUS
    <3> HIDE DEF s, S
    <3> QED BY <3>1, <2>1, ValuesAreFinite
  <2> HIDE DEF X, Y
  <2> QED BY <2>2, <2>3, <2>4, FS_Union
<1> QED BY <1>n, <1>1, <1>2, <1>3, <1>4, <1>5, <1>6 DEF IInv

-----------------------------------------------------------------------------
(***************************************************************************)
(* A bar: live orders stay live, each either open or reported once.        *)
(***************************************************************************)
Notice(o, outcome, price) == [order |-> o, outcome |-> outcome, price |-> price]

LEMMA BarInv ==
  ASSUME IInv, NEW price \in Open, NEW reach \in Open,
         NEW failed, Bar(price, reach, failed)
  PROVE  IInv'
<1> DEFINE hit == {o \in open : Touched(o, price, reach)}
           gone == {o \in hit : o.id \in failed}
           done == hit \ gone
<1>1. /\ open' = open \ hit
      /\ notices = {} /\ started
      /\ UNCHANGED <<started, buys, sells, placed>>
  BY DEF Bar
<1>2. notices' =
        {[order |-> o, outcome |-> "filled", price |-> IF Better(o, price) THEN price ELSE o.price] : o \in done}
        \cup {[order |-> o, outcome |-> "failed", price |-> o.price] : o \in gone}
  BY DEF Bar
<1>3. /\ \A n \in notices' : n.order \in hit /\ n.outcome \in {"filled", "failed"}
                               /\ n.price \in {price, n.order.price}
      /\ \A n, m \in notices' : n.order = m.order => n = m
      /\ \A n \in notices' : n.order \in open
  BY <1>2
<1>4. Live' \subseteq Live
  BY <1>1, <1>3 DEF Live
<1>5. IsFiniteSet(hit) /\ IsFiniteSet(open')
  BY <1>1, FS_Subset DEF IInv
<1>6. position' \in Int
  <2> DEFINE bought == {o \in done : o.side = "buy"}
  <2>1. IsFiniteSet(done) /\ IsFiniteSet(bought)
    BY <1>5, FS_Subset
  <2>2. Cardinality(done) \in Nat /\ Cardinality(bought) \in Nat
    BY <2>1, FS_CardinalityType
  <2>3. position' = position + Cardinality(bought) - (Cardinality(done) - Cardinality(bought))
    BY DEF Bar
  <2>4. position \in Int
    BY DEF IInv, TypeOK
  <2> HIDE DEF done, bought
  <2> QED BY <2>2, <2>3, <2>4
<1> HIDE DEF hit, gone, done
<1>7. TypeOK'
  <2>1. \A o \in open' : o \in open
    BY <1>1
  <2>2. \A n \in notices' : n.order.id \in Id /\ n.price \in Int
    BY <1>3, PriceAssumption DEF IInv, TypeOK
  <2> QED BY <1>1, <1>3, <1>6, <2>1, <2>2 DEF IInv, TypeOK
<1>8. OneOrderPerGap'
  BY <1>1 DEF IInv, OneOrderPerGap, BuyIn, SellIn
<1>9. IdsAreUnique'
  <2>1. \A n \in notices' : n.order \notin open'
    BY <1>1, <1>3
  <2> QED BY <1>1, <1>3, <1>4, <2>1 DEF IInv, IdsAreUnique
<1>10. BooksAreInjective'
  BY <1>1 DEF IInv, BooksAreInjective
<1>11. OrdersAreEntered'
  BY <1>1, <1>4 DEF IInv, OrdersAreEntered
<1> QED BY <1>1, <1>5, <1>7, <1>8, <1>9, <1>10, <1>11 DEF IInv

-----------------------------------------------------------------------------
(***************************************************************************)
(* Answers                                                                 *)
(***************************************************************************)
(* What is live when notice n is taken.                                    *)
Rest(n) == open \cup {m.order : m \in notices \ {n}}

(* The other live orders do not have the id of the notice that is taken.   *)
LEMMA RestFacts ==
  ASSUME IInv, NEW n \in notices
  PROVE  /\ Rest(n) \subseteq Live
         /\ n.order \in Live
         /\ \A o \in Rest(n) : o.id # n.order.id /\ o.id \in 1..placed
<1>1. Rest(n) \subseteq Live /\ n.order \in Live
  BY DEF Live, Rest
<1>2. ASSUME NEW o \in Rest(n), o.id = n.order.id PROVE FALSE
  <2>1. o = n.order
    BY <1>1, <1>2 DEF IInv, IdsAreUnique
  <2> QED BY <2>1 DEF IInv, IdsAreUnique, Rest
<1> QED BY <1>1, <1>2 DEF IInv, IdsAreUnique

(* A new order keeps ids unique.                                           *)
LEMMA FreshOrder ==
  ASSUME IInv, NEW n \in notices, NEW side, NEW price,
         notices' = notices \ {n}, placed' = placed + 1,
         open' = open \cup {[id |-> placed + 1, side |-> side, price |-> price]}
  PROVE  /\ IdsAreUnique'
         /\ IsFiniteSet(open')
         /\ Live' = Rest(n) \cup {[id |-> placed + 1, side |-> side, price |-> price]}
         /\ placed + 1 \in 1..placed' /\ 1..placed \subseteq 1..placed'
         /\ placed + 1 \notin 1..placed
<1> DEFINE new == [id |-> placed + 1, side |-> side, price |-> price]
<1>p. placed \in Nat
  BY BoundAssumption DEF IInv, TypeOK
<1>1. Live' = Rest(n) \cup {new}
  BY DEF Live, Rest
<1>2. new.id = placed + 1
  OBVIOUS
<1>3. placed + 1 \in 1..placed' /\ 1..placed \subseteq 1..placed' /\ placed + 1 \notin 1..placed
  BY <1>p
<1>4. open' = open \cup {new}
  OBVIOUS
<1> HIDE DEF new
<1>5. \A o \in Live' : o.id \in 1..placed'
  BY <1>1, <1>2, <1>3, RestFacts
<1>6. \A o, p \in Live' : o.id = p.id => o = p
  BY <1>1, <1>2, <1>3, RestFacts DEF IInv, IdsAreUnique
<1>7. \A m \in notices' : m.order \notin open'
  <2>1. ASSUME NEW m \in notices' PROVE m.order # new /\ m.order \notin open
    <3>1. m.order \in Rest(n)
      BY DEF Rest
    <3>2. m.order.id # placed + 1
      BY <3>1, <1>3, RestFacts
    <3> QED BY <3>2, <1>2 DEF IInv, IdsAreUnique
  <2> QED BY <2>1, <1>4
<1>8. \A m, k \in notices' : m.order = k.order => m = k
  BY DEF IInv, IdsAreUnique
<1>9. IsFiniteSet(open')
  BY <1>4, FS_AddElement DEF IInv
<1> QED BY <1>1, <1>3, <1>5, <1>6, <1>7, <1>8, <1>9 DEF IdsAreUnique, new

(* Levels that are neighbours of a gap.                                    *)
LEMMA Neighbours ==
  ASSUME OneOrderPerGap
  PROVE  /\ \A l \in DOMAIN buys : l \in Int /\ l + 1 \in Level /\ l + 1 \notin DOMAIN sells
         /\ \A l \in DOMAIN sells : l \in Int /\ l - 1 \in Gap /\ l - 1 \notin DOMAIN buys
  BY HalfType DEF OneOrderPerGap, BuyIn, SellIn, Gap, Level

LEMMA BuyFilledInv == ASSUME IInv, NEW n \in notices, BuyFilled(n) PROVE IInv'
<1> DEFINE new == [id |-> placed + 1, side |-> "sell", price |-> n.price + Step]
<1>e. \E l \in DOMAIN buys : buys[l] = n.order.id
  BY RestFacts DEF BuyFilled, IInv, OrdersAreEntered
<1>1. PICK l \in DOMAIN buys :
        /\ buys[l] = n.order.id
        /\ NewOrder("sell", l + 1, n.price + Step)
        /\ buys' = Without(buys, l)
  <2>1. LevelsOf(buys, n.order.id) # {}
    BY <1>e, LevelsOfFacts
  <2> QED BY <2>1, LevelsOfFacts DEF BuyFilled
<1>2. /\ notices' = notices \ {n} /\ placed' = placed + 1 /\ placed < MaxOrders
      /\ open' = open \cup {new}
      /\ sells' = With(sells, l + 1, placed + 1)
      /\ UNCHANGED <<started, position>>
  BY <1>1 DEF BuyFilled, NewOrder
<1>3. /\ IdsAreUnique' /\ IsFiniteSet(open')
      /\ Live' = Rest(n) \cup {new}
      /\ placed + 1 \in 1..placed' /\ 1..placed \subseteq 1..placed'
      /\ placed + 1 \notin 1..placed
  BY <1>2, FreshOrder
<1>4. /\ new.id = placed + 1 /\ new.side = "sell" /\ new.price \in Int
  BY PriceAssumption DEF IInv, TypeOK
<1> HIDE DEF new
<1>b. /\ DOMAIN buys' = DOMAIN buys \ {l}
      /\ \A k \in DOMAIN buys' : buys'[k] = buys[k]
  BY <1>1, WithoutFacts
<1>s. /\ DOMAIN sells' = DOMAIN sells \cup {l + 1}
      /\ sells'[l + 1] = placed + 1
      /\ \A k \in DOMAIN sells : sells'[k] = sells[k]
      /\ l \in Int /\ l + 1 \in Level /\ l + 1 \notin DOMAIN sells
  <2>1. l \in Int /\ l + 1 \in Level /\ l + 1 \notin DOMAIN sells
    BY Neighbours DEF IInv
  <2>2. /\ DOMAIN sells' = DOMAIN sells \cup {l + 1}
        /\ sells'[l + 1] = placed + 1
        /\ \A k \in DOMAIN sells : k # l + 1 => sells'[k] = sells[k]
    <3>1. PICK at, id : at = l + 1 /\ id = placed + 1
      OBVIOUS
    <3>2. sells' = With(sells, at, id)
      BY <1>2, <3>1
    <3>3. DOMAIN sells' = DOMAIN sells \cup {at}
      BY <3>2 DEF With
    <3>4. sells'[at] = id
      BY <3>2 DEF With
    <3>5. \A k \in DOMAIN sells : k # at => sells'[k] = sells[k]
      BY <3>2 DEF With
    <3> QED BY <3>1, <3>3, <3>4, <3>5
  <2>3. \A k \in DOMAIN sells : k # l + 1
    BY <2>1
  <2> QED BY <2>1, <2>2, <2>3
<1>5. TypeOK'
  <2>1. placed' \in 0..MaxOrders /\ placed + 1 \in Id
    BY <1>2, BoundAssumption DEF IInv, TypeOK, Id
  <2>2. Range(buys') \subseteq Id
    BY <1>b DEF IInv, TypeOK, Range
  <2>3. Range(sells') \subseteq Id
    BY <1>s, <2>1 DEF IInv, TypeOK, Range
  <2>4. \A o \in open' : o.id \in Id /\ o.side \in {"buy", "sell"} /\ o.price \in Int
    BY <1>2, <1>4, <2>1 DEF IInv, TypeOK
  <2>5. \A m \in notices' :
          m.order.id \in Id /\ m.outcome \in {"filled", "failed"} /\ m.price \in Int
    BY <1>2 DEF IInv, TypeOK
  <2>6. DOMAIN buys' \subseteq Level /\ DOMAIN sells' \subseteq Level
    BY <1>b, <1>s DEF IInv, TypeOK
  <2>7. started' \in BOOLEAN
    BY <1>2, Zenon DEF IInv, TypeOK
  <2>8. position' \in Int
    BY <1>2 DEF IInv, TypeOK
  <2> QED BY <2>1, <2>2, <2>3, <2>4, <2>5, <2>6, <2>7, <2>8 DEF TypeOK
<1>6. OneOrderPerGap'
  <2>1. l \in Gap
    BY DEF IInv, OneOrderPerGap
  <2>2. \A g \in Gap : g + 1 = l + 1 => g = l
    BY <1>s, GapIsLevel
  <2>3. DOMAIN sells' \subseteq {g + 1 : g \in Gap}
    BY <1>s, <2>1 DEF IInv, OneOrderPerGap
  <2> QED BY <1>b, <1>s, <2>2, <2>3 DEF IInv, OneOrderPerGap, BuyIn, SellIn
<1>7. BooksAreInjective'
  BY <1>b, <1>s, <1>3 DEF IInv, BooksAreInjective
<1>8. OrdersAreEntered'
  <2>1. ASSUME NEW o \in Live', o.side = "buy" PROVE \E k \in DOMAIN buys' : buys'[k] = o.id
    <3>1. o \in Rest(n) /\ o \in Live /\ o.id # n.order.id
      BY <1>3, <1>4, <2>1, RestFacts
    <3>2. PICK k \in DOMAIN buys : buys[k] = o.id
      BY <2>1, <3>1 DEF IInv, OrdersAreEntered
    <3> QED BY <1>1, <1>b, <3>1, <3>2
  <2>2. ASSUME NEW o \in Live', o.side # "buy" PROVE \E k \in DOMAIN sells' : sells'[k] = o.id
    <3>1. CASE o = new
      BY <1>4, <1>s, <3>1
    <3>2. CASE o \in Rest(n)
      <4>1. PICK k \in DOMAIN sells : sells[k] = o.id
        BY <2>2, <3>2, RestFacts DEF IInv, OrdersAreEntered
      <4> QED BY <1>s, <4>1
    <3> QED BY <1>3, <3>1, <3>2
  <2> QED BY <2>1, <2>2 DEF OrdersAreEntered
<1> QED BY <1>2, <1>3, <1>5, <1>6, <1>7, <1>8 DEF IInv

LEMMA SellFilledInv == ASSUME IInv, NEW n \in notices, SellFilled(n) PROVE IInv'
<1> DEFINE new == [id |-> placed + 1, side |-> "buy", price |-> n.price - Step]
<1>e. \E l \in DOMAIN sells : sells[l] = n.order.id
  <2>1. n.order.side # "buy"
    BY DEF SellFilled
  <2> QED BY <2>1, RestFacts DEF IInv, OrdersAreEntered
<1>1. PICK l \in DOMAIN sells :
        /\ sells[l] = n.order.id
        /\ NewOrder("buy", l - 1, n.price - Step)
        /\ sells' = Without(sells, l)
  <2>1. LevelsOf(sells, n.order.id) # {}
    BY <1>e, LevelsOfFacts
  <2> QED BY <2>1, LevelsOfFacts DEF SellFilled
<1>2. /\ notices' = notices \ {n} /\ placed' = placed + 1 /\ placed < MaxOrders
      /\ open' = open \cup {new}
      /\ buys' = With(buys, l - 1, placed + 1)
      /\ UNCHANGED <<started, position>>
  BY <1>1 DEF SellFilled, NewOrder
<1>3. /\ IdsAreUnique' /\ IsFiniteSet(open')
      /\ Live' = Rest(n) \cup {new}
      /\ placed + 1 \in 1..placed' /\ 1..placed \subseteq 1..placed'
      /\ placed + 1 \notin 1..placed
  BY <1>2, FreshOrder
<1>4. /\ new.id = placed + 1 /\ new.side = "buy" /\ new.price \in Int
  BY PriceAssumption DEF IInv, TypeOK
<1> HIDE DEF new
<1>s. /\ DOMAIN sells' = DOMAIN sells \ {l}
      /\ \A k \in DOMAIN sells' : sells'[k] = sells[k]
  BY <1>1, WithoutFacts
<1>b. /\ DOMAIN buys' = DOMAIN buys \cup {l - 1}
      /\ buys'[l - 1] = placed + 1
      /\ \A k \in DOMAIN buys : buys'[k] = buys[k]
      /\ l \in Int /\ l - 1 \in Gap /\ l - 1 \notin DOMAIN buys
  <2>1. l \in Int /\ l - 1 \in Gap /\ l - 1 \notin DOMAIN buys
    BY Neighbours DEF IInv
  <2>2. /\ DOMAIN buys' = DOMAIN buys \cup {l - 1}
        /\ buys'[l - 1] = placed + 1
        /\ \A k \in DOMAIN buys : k # l - 1 => buys'[k] = buys[k]
    <3>1. PICK at, id : at = l - 1 /\ id = placed + 1
      OBVIOUS
    <3>2. buys' = With(buys, at, id)
      BY <1>2, <3>1
    <3>3. DOMAIN buys' = DOMAIN buys \cup {at}
      BY <3>2 DEF With
    <3>4. buys'[at] = id
      BY <3>2 DEF With
    <3>5. \A k \in DOMAIN buys : k # at => buys'[k] = buys[k]
      BY <3>2 DEF With
    <3> QED BY <3>1, <3>3, <3>4, <3>5
  <2>3. \A k \in DOMAIN buys : k # l - 1
    BY <2>1
  <2> QED BY <2>1, <2>2, <2>3
<1>5. TypeOK'
  <2>1. placed' \in 0..MaxOrders /\ placed + 1 \in Id
    BY <1>2, BoundAssumption DEF IInv, TypeOK, Id
  <2>2. Range(sells') \subseteq Id
    BY <1>s DEF IInv, TypeOK, Range
  <2>3. Range(buys') \subseteq Id
    BY <1>b, <2>1 DEF IInv, TypeOK, Range
  <2>4. \A o \in open' : o.id \in Id /\ o.side \in {"buy", "sell"} /\ o.price \in Int
    BY <1>2, <1>4, <2>1 DEF IInv, TypeOK
  <2>5. \A m \in notices' :
          m.order.id \in Id /\ m.outcome \in {"filled", "failed"} /\ m.price \in Int
    BY <1>2 DEF IInv, TypeOK
  <2>6. DOMAIN buys' \subseteq Level /\ DOMAIN sells' \subseteq Level
    BY <1>b, <1>s, GapIsLevel DEF IInv, TypeOK
  <2>7. started' \in BOOLEAN
    BY <1>2, Zenon DEF IInv, TypeOK
  <2>8. position' \in Int
    BY <1>2 DEF IInv, TypeOK
  <2> QED BY <2>1, <2>2, <2>3, <2>4, <2>5, <2>6, <2>7, <2>8 DEF TypeOK
<1>6. OneOrderPerGap'
  <2>2. \A g \in Gap : g = l - 1 => g + 1 = l
    BY <1>b, GapIsLevel
  <2> QED BY <1>b, <1>s, <2>2 DEF IInv, OneOrderPerGap, BuyIn, SellIn
<1>7. BooksAreInjective'
  BY <1>b, <1>s, <1>3 DEF IInv, BooksAreInjective
<1>8. OrdersAreEntered'
  <2>1. ASSUME NEW o \in Live', o.side # "buy" PROVE \E k \in DOMAIN sells' : sells'[k] = o.id
    <3>1. o \in Rest(n) /\ o \in Live /\ o.id # n.order.id
      BY <1>3, <1>4, <2>1, RestFacts
    <3>2. PICK k \in DOMAIN sells : sells[k] = o.id
      BY <2>1, <3>1 DEF IInv, OrdersAreEntered
    <3> QED BY <1>1, <1>s, <3>1, <3>2
  <2>2. ASSUME NEW o \in Live', o.side = "buy" PROVE \E k \in DOMAIN buys' : buys'[k] = o.id
    <3>1. CASE o = new
      BY <1>4, <1>b, <3>1
    <3>2. CASE o \in Rest(n)
      <4>1. PICK k \in DOMAIN buys : buys[k] = o.id
        BY <2>2, <3>2, RestFacts DEF IInv, OrdersAreEntered
      <4> QED BY <1>b, <4>1
    <3> QED BY <1>3, <3>1, <3>2
  <2> QED BY <2>1, <2>2 DEF OrdersAreEntered
<1> QED BY <1>2, <1>3, <1>5, <1>6, <1>7, <1>8 DEF IInv

LEMMA OrderFailedInv == ASSUME IInv, NEW n \in notices, OrderFailed(n) PROVE IInv'
<1>1. /\ notices' = notices \ {n}
      /\ UNCHANGED <<started, open, placed, position>>
  BY DEF OrderFailed
<1>2. Live' = Rest(n)
  BY <1>1 DEF Live, Rest
<1>3. PICK L \in SUBSET DOMAIN buys, K \in SUBSET DOMAIN sells :
        /\ \A l \in L : buys[l] = n.order.id
        /\ \A k \in K : sells[k] = n.order.id
        /\ DOMAIN buys' = DOMAIN buys \ L /\ DOMAIN sells' = DOMAIN sells \ K
        /\ \A l \in DOMAIN buys' : buys'[l] = buys[l]
        /\ \A k \in DOMAIN sells' : sells'[k] = sells[k]
  <2>1. CASE LevelsOf(buys, n.order.id) # {}
    <3>1. PICK l \in LevelsOf(buys, n.order.id) : buys' = Without(buys, l) /\ UNCHANGED sells
      BY <2>1 DEF OrderFailed
    <3>2. {l} \in SUBSET DOMAIN buys /\ buys[l] = n.order.id
      BY LevelsOfFacts
    <3>3. DOMAIN buys' = DOMAIN buys \ {l} /\ \A x \in DOMAIN buys' : buys'[x] = buys[x]
      BY <3>1, WithoutFacts
    <3>4. sells' = sells
      BY <3>1
    <3> USE <3>2
    <3> WITNESS {l} \in SUBSET DOMAIN buys
    <3> WITNESS {} \in SUBSET DOMAIN sells
    <3> QED BY <3>2, <3>3, <3>4
  <2>2. CASE LevelsOf(buys, n.order.id) = {} /\ LevelsOf(sells, n.order.id) # {}
    <3>1. PICK k \in LevelsOf(sells, n.order.id) : sells' = Without(sells, k) /\ UNCHANGED buys
      BY <2>2 DEF OrderFailed
    <3>2. {k} \in SUBSET DOMAIN sells /\ sells[k] = n.order.id
      BY LevelsOfFacts
    <3>3. DOMAIN sells' = DOMAIN sells \ {k} /\ \A x \in DOMAIN sells' : sells'[x] = sells[x]
      BY <3>1, WithoutFacts
    <3>4. buys' = buys
      BY <3>1
    <3> WITNESS {} \in SUBSET DOMAIN buys
    <3> USE <3>2
    <3> WITNESS {k} \in SUBSET DOMAIN sells
    <3> QED BY <3>2, <3>3, <3>4
  <2>3. CASE LevelsOf(buys, n.order.id) = {} /\ LevelsOf(sells, n.order.id) = {}
    BY <2>3 DEF OrderFailed
  <2> QED BY <2>1, <2>2, <2>3
<1>4. TypeOK'
  <2>1. \A m \in notices' :
          m.order.id \in Id /\ m.outcome \in {"filled", "failed"} /\ m.price \in Int
    BY <1>1 DEF IInv, TypeOK
  <2>2. Range(buys') \subseteq Id /\ Range(sells') \subseteq Id
    BY <1>3 DEF IInv, TypeOK, Range
  <2>3. DOMAIN buys' \subseteq Level /\ DOMAIN sells' \subseteq Level
    BY <1>3 DEF IInv, TypeOK
  <2>4. \A o \in open' : o.id \in Id /\ o.side \in {"buy", "sell"} /\ o.price \in Int
    BY <1>1 DEF IInv, TypeOK
  <2>5. started' \in BOOLEAN
    BY <1>1, Zenon DEF IInv, TypeOK
  <2>6. placed' \in 0..MaxOrders /\ position' \in Int
    BY <1>1 DEF IInv, TypeOK
  <2> QED BY <2>1, <2>2, <2>3, <2>4, <2>5, <2>6 DEF TypeOK
<1>5. OneOrderPerGap'
  BY <1>3 DEF IInv, OneOrderPerGap, BuyIn, SellIn
<1>6. IdsAreUnique'
  <2>1. \A o, p \in Live' : o.id = p.id => o = p
    BY <1>2, RestFacts DEF IInv, IdsAreUnique
  <2>2. \A o \in Live' : o.id \in 1..placed'
    BY <1>1, <1>2, RestFacts
  <2> QED BY <1>1, <2>1, <2>2 DEF IInv, IdsAreUnique
<1>7. BooksAreInjective'
  BY <1>1, <1>3 DEF IInv, BooksAreInjective
<1>8. OrdersAreEntered'
  <2>1. ASSUME NEW o \in Live' PROVE o \in Live /\ o.id # n.order.id
    BY <1>2, RestFacts
  <2> QED BY <1>3, <2>1 DEF IInv, OrdersAreEntered
<1>9. IsFiniteSet(open')
  BY <1>1 DEF IInv
<1>10. ~started' => notices' = {}
  BY <1>1 DEF IInv
<1> QED BY <1>4, <1>5, <1>6, <1>7, <1>8, <1>9, <1>10 DEF IInv

-----------------------------------------------------------------------------
(***************************************************************************)
(* Theorems                                                                *)
(***************************************************************************)
LEMMA StepInv == IInv /\ [Next]_vars => IInv'
<1> SUFFICES ASSUME IInv, [Next]_vars PROVE IInv'
  OBVIOUS
<1>1. CASE Start
  BY <1>1, StartInv
<1>2. CASE \E price, reach \in Open : \E failed \in SUBSET {o.id : o \in open} : Bar(price, reach, failed)
  BY <1>2, BarInv
<1>3. CASE \E n \in notices : BuyFilled(n)
  BY <1>3, BuyFilledInv
<1>4. CASE \E n \in notices : SellFilled(n)
  BY <1>4, SellFilledInv
<1>5. CASE \E n \in notices : OrderFailed(n)
  BY <1>5, OrderFailedInv
<1>6. CASE UNCHANGED vars
  BY <1>6 DEF vars, IInv, TypeOK, OneOrderPerGap, BuyIn, SellIn, IdsAreUnique, BooksAreInjective, OrdersAreEntered, Live
<1> QED BY <1>1, <1>2, <1>3, <1>4, <1>5, <1>6 DEF Next

THEOREM Inductive == Spec => []IInv
  BY InitInv, StepInv, PTL DEF Spec

(* The books hold ids of placed orders at levels of the grid, whatever the *)
(* broker fills or refuses.                                                *)
THEOREM TypeCorrect == Spec => []TypeOK
<1>1. IInv => TypeOK
  BY DEF IInv
<1> QED BY <1>1, Inductive, PTL

(* Between two neighbouring levels there is never more than one order, for *)
(* every size of the grid, in whatever order fills are reported and even   *)
(* when orders are refused.                                                *)
THEOREM GapsAreShared == Spec => []OneOrderPerGap
<1>1. IInv => OneOrderPerGap
  BY DEF IInv
<1> QED BY <1>1, Inductive, PTL

(* Every open order and every unanswered fill is entered at exactly one    *)
(* level, so notify_order answers each of them.                            *)
LEMMA EnteredOnce ==
  ASSUME IInv, NEW o \in Live
  PROVE  Cardinality(LevelsOf(IF o.side = "buy" THEN buys ELSE sells, o.id)) = 1
<1>1. PICK l : LevelsOf(IF o.side = "buy" THEN buys ELSE sells, o.id) = {l}
  <2>1. CASE o.side = "buy"
    <3>1. PICK l \in DOMAIN buys : buys[l] = o.id
      BY <2>1 DEF IInv, OrdersAreEntered
    <3>2. \A k \in DOMAIN buys : buys[k] = o.id => k = l
      BY <3>1 DEF IInv, BooksAreInjective
    <3>3. LevelsOf(buys, o.id) = {l}
      BY <3>1, <3>2, LevelsOfFacts
    <3> QED BY <2>1, <3>3
  <2>2. CASE o.side # "buy"
    <3>1. PICK l \in DOMAIN sells : sells[l] = o.id
      BY <2>2 DEF IInv, OrdersAreEntered
    <3>2. \A k \in DOMAIN sells : sells[k] = o.id => k = l
      BY <3>1 DEF IInv, BooksAreInjective
    <3>3. LevelsOf(sells, o.id) = {l}
      BY <3>1, <3>2, LevelsOfFacts
    <3> QED BY <2>2, <3>3
  <2> QED BY <2>1, <2>2
<1> QED BY <1>1, FS_Singleton

THEOREM OrdersAreTracked == Spec => []EveryOrderIsTracked
<1>1. IInv => EveryOrderIsTracked
  BY EnteredOnce DEF EveryOrderIsTracked, Live
<1> QED BY <1>1, Inductive, PTL

-----------------------------------------------------------------------------
(***************************************************************************)
(* What is held                                                            *)
(*                                                                         *)
(* Every gap either has bought, and waits for its sale, or has sold, and   *)
(* waits for its buy; the gaps above the first price start as if they had  *)
(* bought.  A gap that lost its order keeps what it did last, which no     *)
(* variable says: the invariant speaks of some set of gaps that have.      *)
(***************************************************************************)
Filled == {n.order.id : n \in {m \in notices : m.outcome = "filled"}}

HeldBy(W) ==
  /\ position = Cardinality(W) - Half
  /\ \A l \in DOMAIN buys : l \in W <=> buys[l] \in Filled
  /\ \A l \in DOMAIN sells : l - 1 \in W <=> sells[l] \notin Filled

(* The inductive invariant, beside IInv. *)
Exposure == IF started THEN \E W \in SUBSET Gap : HeldBy(W) ELSE position = 0

(* Orders and the gaps they are entered at are equally many. *)
LEMMA SameNumber ==
  ASSUME NEW B, IsFiniteSet(B), NEW G, NEW f,
         \A o \in B : \E g \in G : f[g] = o.id,
         \A o, p \in B : o.id = p.id => o = p,
         \A g \in G : \E o \in B : f[g] = o.id,
         \A g, h \in G : f[g] = f[h] => g = h
  PROVE  IsFiniteSet(G) /\ Cardinality(G) = Cardinality(B)
<1> DEFINE at == [o \in B |-> CHOOSE g \in G : f[g] = o.id]
<1>1. \A o \in B : at[o] \in G /\ f[at[o]] = o.id
  OBVIOUS
<1> HIDE DEF at
<1>2. at \in [B -> G]
  BY <1>1 DEF at
<1>3. at \in Injection(B, G)
  BY <1>1, <1>2 DEF Injection, IsInjective
<1>4. at \in Surjection(B, G)
  <2>1. ASSUME NEW g \in G PROVE \E o \in B : at[o] = g
    BY <1>1
  <2> QED BY <1>2, <2>1 DEF Surjection
<1> QED BY <1>3, <1>4, FS_Surjection

LEMMA GapSize ==
  /\ IsFiniteSet(Gap) /\ Cardinality(Gap) = 2 * Half
  /\ IsFiniteSet(0..(Half - 1)) /\ Cardinality(0..(Half - 1)) = Half
  /\ 0..(Half - 1) \subseteq Gap
<1>1. Half \in Nat \ {0}
  BY HalfType
<1>2. IsFiniteSet(Gap) /\ Cardinality(Gap) = 2 * Half
  BY <1>1, FS_Interval DEF Gap
<1>3. IsFiniteSet(0..(Half - 1)) /\ Cardinality(0..(Half - 1)) = Half
  BY <1>1, FS_Interval
<1> QED BY <1>1, <1>2, <1>3 DEF Gap

LEMMA StartExposure == ASSUME IInv, Exposure, Start PROVE Exposure'
<1>1. /\ started' /\ position' = 0
      /\ DOMAIN buys' = (0 - Half)..(0 - 1) /\ DOMAIN sells' = 1..Half
  BY DEF Exposure, Start, Depth
<1>2. Filled' = {}
  BY DEF IInv, Start, Filled
<1>3. \A l \in DOMAIN buys' : l \notin 0..(Half - 1)
  BY <1>1, HalfType
<1>4. \A l \in DOMAIN sells' : l - 1 \in 0..(Half - 1)
  BY <1>1, HalfType
<1>5. HeldBy(0..(Half - 1))'
  <2>1. Half - Half = 0
    BY HalfType
  <2> QED BY <1>1, <1>2, <1>3, <1>4, <2>1, GapSize DEF HeldBy
<1> QED BY <1>1, <1>5, GapSize DEF Exposure

(* A bar moves what is held by what it fills. *)
LEMMA BarExposure ==
  ASSUME IInv, Exposure, NEW price \in Open, NEW reach \in Open,
         NEW failed \in SUBSET {o.id : o \in open}, Bar(price, reach, failed)
  PROVE  Exposure'
<1> DEFINE hit == {o \in open : Touched(o, price, reach)}
           gone == {o \in hit : o.id \in failed}
           done == hit \ gone
           B == {o \in done : o.side = "buy"}
           S == {o \in done : o.side # "buy"}
           GB == {l \in DOMAIN buys : \E o \in B : buys[l] = o.id}
           GS == {g \in Gap : SellIn(g) /\ \E o \in S : sells[g + 1] = o.id}
<1>1. /\ started /\ notices = {}
      /\ UNCHANGED <<started, buys, sells, placed>>
      /\ position' = position + Cardinality(B) - (Cardinality(done) - Cardinality(B))
  BY DEF Bar
<1>2. notices' = {[order |-> o, outcome |-> "filled",
                   price |-> IF Better(o, price) THEN price ELSE o.price] : o \in done}
                 \cup {[order |-> o, outcome |-> "failed", price |-> o.price] : o \in gone}
  BY DEF Bar
<1>3. done \subseteq open /\ done \subseteq Live
  BY DEF Live
<1> HIDE DEF done
<1>4. Filled' = {o.id : o \in done}
  <2> HIDE DEF gone
  <2>1. \A n \in notices' : n.outcome = "filled" => n.order \in done
    BY <1>2
  <2>2. ASSUME NEW o \in done
        PROVE  \E n \in notices' : n.outcome = "filled" /\ n.order = o
    <3> DEFINE n == [order |-> o, outcome |-> "filled",
                     price |-> IF Better(o, price) THEN price ELSE o.price]
    <3>1. n \in notices' /\ n.outcome = "filled" /\ n.order = o
      BY <1>2
    <3> QED BY <3>1
  <2>3. \A i : i \in Filled' <=> \E n \in notices' : n.outcome = "filled" /\ i = n.order.id
    BY DEF Filled
  <2> QED BY <2>1, <2>2, <2>3
<1>5. PICK W \in SUBSET Gap : HeldBy(W)
  BY <1>1 DEF Exposure
<1>6. Filled = {}
  BY <1>1 DEF Filled
<1>7. /\ \A l \in DOMAIN buys : l \in Gap /\ l \notin W
      /\ \A l \in DOMAIN sells : l - 1 \in W
      /\ \A g \in Gap : SellIn(g) => g \in W
  <2>1. \A g \in Gap : (g + 1) - 1 = g
    BY GapIsLevel
  <2> QED BY <1>5, <1>6, <2>1 DEF HeldBy, SellIn, IInv, OneOrderPerGap
<1>8. /\ \A o \in B : \E l \in DOMAIN buys : buys[l] = o.id
      /\ \A o \in S : \E l \in DOMAIN sells : sells[l] = o.id
  BY <1>3 DEF IInv, OrdersAreEntered
<1>9. IsFiniteSet(done) /\ IsFiniteSet(B) /\ IsFiniteSet(S)
      /\ Cardinality(done) - Cardinality(B) = Cardinality(S)
  <2>1. IsFiniteSet(done)
    BY <1>3, FS_Subset DEF IInv
  <2>2. B = done \cap B /\ S = done \ B
    OBVIOUS
  <2> HIDE DEF B, S
  <2>3. IsFiniteSet(done \cap B)
    BY <2>1, FS_Intersection
  <2>4. IsFiniteSet(done \ B) /\ Cardinality(done \ B) = Cardinality(done) - Cardinality(done \cap B)
    BY <2>1, FS_Difference
  <2>5. IsFiniteSet(B) /\ IsFiniteSet(S) /\ Cardinality(S) = Cardinality(done) - Cardinality(B)
    BY <2>2, <2>3, <2>4
  <2>6. Cardinality(done) \in Nat /\ Cardinality(B) \in Nat
    BY <2>1, <2>5, FS_CardinalityType
  <2> QED BY <2>1, <2>5, <2>6
<1>10. IsFiniteSet(GB) /\ Cardinality(GB) = Cardinality(B)
  <2>1. \A o \in B : \E l \in GB : buys[l] = o.id
    BY <1>8
  <2>2. \A o, p \in B : o.id = p.id => o = p
    BY <1>3 DEF IInv, IdsAreUnique
  <2>3. \A l \in GB : \E o \in B : buys[l] = o.id
    OBVIOUS
  <2>4. \A l, k \in GB : buys[l] = buys[k] => l = k
    BY DEF IInv, BooksAreInjective
  <2> HIDE DEF GB, B
  <2> QED BY <1>9, <2>1, <2>2, <2>3, <2>4, SameNumber
<1>11. IsFiniteSet(GS) /\ Cardinality(GS) = Cardinality(S)
  <2> DEFINE f == [g \in GS |-> sells[g + 1]]
  <2>1. ASSUME NEW o \in S PROVE \E g \in GS : f[g] = o.id
    <3>1. PICK l \in DOMAIN sells : sells[l] = o.id
      BY <1>8
    <3>2. PICK g \in Gap : l = g + 1
      BY DEF IInv, OneOrderPerGap
    <3>3. g \in GS
      BY <3>1, <3>2 DEF SellIn
    <3> QED BY <3>1, <3>2, <3>3
  <2>2. \A o, p \in S : o.id = p.id => o = p
    BY <1>3 DEF IInv, IdsAreUnique
  <2>3. \A g \in GS : \E o \in S : f[g] = o.id
    OBVIOUS
  <2>4. ASSUME NEW g \in GS, NEW h \in GS, f[g] = f[h] PROVE g = h
    <3>1. g + 1 \in DOMAIN sells /\ h + 1 \in DOMAIN sells /\ sells[g + 1] = sells[h + 1]
      BY <2>4 DEF SellIn
    <3>2. g + 1 = h + 1
      BY <3>1 DEF IInv, BooksAreInjective
    <3> QED BY <3>2, GapIsLevel
  <2> HIDE DEF GS, S, f
  <2> QED BY <1>9, <2>1, <2>2, <2>3, <2>4, SameNumber
<1>v. PICK V : V = (W \cup GB) \ GS
  OBVIOUS
<1>12. V \in SUBSET Gap /\ W \cap GB = {} /\ GS \subseteq W \cup GB
  BY <1>7, <1>v
<1>13. position' = Cardinality(V) - Half
  <2>1. IsFiniteSet(W)
    BY GapSize, FS_Subset
  <2> HIDE DEF GB, GS
  <2>2. IsFiniteSet(W \cup GB) /\ Cardinality(W \cup GB) = Cardinality(W) + Cardinality(GB)
    <3>1. Cardinality(W \cap GB) = 0
      BY <1>12, FS_EmptySet
    <3>2. Cardinality(W) \in Nat /\ Cardinality(GB) \in Nat
      BY <2>1, <1>10, FS_CardinalityType
    <3>3. /\ IsFiniteSet(W \cup GB)
          /\ Cardinality(W \cup GB) = Cardinality(W) + Cardinality(GB) - Cardinality(W \cap GB)
      BY <2>1, <1>10, FS_Union
    <3> QED BY <3>1, <3>2, <3>3
  <2>3. (W \cup GB) \cap GS = GS
    BY <1>12
  <2>4. Cardinality(V) = Cardinality(W \cup GB) - Cardinality(GS)
    BY <1>v, <2>2, <2>3, FS_Difference
  <2>5. Cardinality(W) \in Nat /\ Cardinality(GB) \in Nat /\ Cardinality(GS) \in Nat
    BY <2>1, <1>10, <1>11, FS_CardinalityType
  <2>6. position = Cardinality(W) - Half
    BY <1>5 DEF HeldBy
  <2> QED BY <1>1, <1>9, <1>10, <1>11, <2>2, <2>4, <2>5, <2>6, HalfType
<1>14. \A l \in DOMAIN buys : l \in V <=> buys[l] \in Filled'
  <2>1. ASSUME NEW l \in DOMAIN buys, NEW o \in done, buys[l] = o.id PROVE o.side = "buy"
    <3>1. o.side # "buy" => \E k \in DOMAIN sells : sells[k] = o.id
      BY <1>3 DEF IInv, OrdersAreEntered
    <3> QED BY <2>1, <3>1 DEF IInv, BooksAreInjective
  <2>2. \A l \in DOMAIN buys : l \in GB <=> buys[l] \in Filled'
    BY <1>4, <2>1
  <2>3. \A l \in DOMAIN buys : l \in V <=> l \in GB
    BY <1>7, <1>v
  <2> QED BY <2>2, <2>3
<1>15. \A l \in DOMAIN sells : l - 1 \in V <=> sells[l] \notin Filled'
  <2>1. ASSUME NEW l \in DOMAIN sells PROVE l - 1 \in V <=> sells[l] \notin Filled'
    <3>1. PICK g \in Gap : l = g + 1
      BY DEF IInv, OneOrderPerGap
    <3>2. l - 1 = g /\ SellIn(g)
      <4>1. g \in Int
        BY GapIsLevel
      <4> QED BY <3>1, <4>1 DEF SellIn
    <3>3. g \in V <=> g \notin GS
      BY <1>7, <1>v, <3>2
    <3>4. ASSUME NEW o \in done, sells[l] = o.id PROVE o.side # "buy"
      <4>1. o.side = "buy" => \E k \in DOMAIN buys : buys[k] = o.id
        BY <1>3 DEF IInv, OrdersAreEntered
      <4> QED BY <3>4, <4>1 DEF IInv, BooksAreInjective
    <3>5. g \in GS <=> sells[l] \in Filled'
      BY <1>4, <3>1, <3>2, <3>4
    <3> QED BY <3>2, <3>3, <3>5
  <2> QED BY <2>1
<1>16. HeldBy(V)'
  BY <1>1, <1>13, <1>14, <1>15 DEF HeldBy
<1> QED BY <1>1, <1>12, <1>16 DEF Exposure

(* What is still unreported when notice n has been taken. *)
LEMMA FilledAfter ==
  ASSUME IInv, NEW n \in notices, notices' = notices \ {n}
  PROVE  /\ n.outcome = "filled" => n.order.id \in Filled /\ Filled' = Filled \ {n.order.id}
         /\ n.outcome # "filled" => Filled' = Filled
<1>1. /\ \A i : i \in Filled <=> \E m \in notices : m.outcome = "filled" /\ i = m.order.id
      /\ \A i : i \in Filled' <=> \E m \in notices' : m.outcome = "filled" /\ i = m.order.id
  BY DEF Filled
<1>2. \A m \in notices : m.order.id = n.order.id => m = n
  BY DEF IInv, IdsAreUnique, Live
<1>3. n.outcome = "filled" => n.order.id \in Filled
  BY <1>1
<1>4. ASSUME n.outcome = "filled", NEW i
      PROVE  i \in Filled' <=> i \in Filled /\ i # n.order.id
  <2>1. ASSUME NEW m \in notices, i = m.order.id
        PROVE  m \in notices' <=> i # n.order.id
    BY <1>2, <2>1
  <2> QED BY <1>1, <2>1
<1>5. ASSUME n.outcome # "filled", NEW i
      PROVE  i \in Filled' <=> i \in Filled
  BY <1>1, <1>5
<1> QED BY <1>3, <1>4, <1>5

(* No fill is unreported of an order that is not placed. *)
LEMMA FilledIsPlaced ==
  ASSUME IInv
  PROVE  Filled \subseteq 1..placed /\ placed + 1 \notin Filled
<1>1. placed \in Nat
  BY BoundAssumption DEF IInv, TypeOK
<1>2. Filled \subseteq 1..placed
  BY DEF Filled, IInv, IdsAreUnique, Live
<1> QED BY <1>1, <1>2

(* A reported fill leaves its gap to an order of the other side. *)
LEMMA BuyFilledExposure ==
  ASSUME IInv, Exposure, NEW n \in notices, BuyFilled(n)
  PROVE  Exposure'
<1>e. \E l \in DOMAIN buys : buys[l] = n.order.id
  BY RestFacts DEF BuyFilled, IInv, OrdersAreEntered
<1>1. PICK l \in DOMAIN buys :
        /\ buys[l] = n.order.id
        /\ NewOrder("sell", l + 1, n.price + Step)
        /\ buys' = Without(buys, l)
  <2>1. LevelsOf(buys, n.order.id) # {}
    BY <1>e, LevelsOfFacts
  <2> QED BY <2>1, LevelsOfFacts DEF BuyFilled
<1>2. /\ n.outcome = "filled" /\ notices' = notices \ {n}
      /\ UNCHANGED <<started, position>> /\ started
      /\ sells' = With(sells, l + 1, placed + 1)
  BY <1>1 DEF BuyFilled, NewOrder, IInv
<1>3. n.order.id \in Filled /\ Filled' = Filled \ {n.order.id}
  BY <1>2, FilledAfter
<1>4. l \in Int /\ l \in Gap /\ l + 1 \notin DOMAIN sells
  BY Neighbours DEF IInv, OneOrderPerGap
<1>5. PICK W \in SUBSET Gap : HeldBy(W)
  BY <1>2 DEF Exposure
<1>6. l \in W
  BY <1>1, <1>3, <1>5 DEF HeldBy
<1>7. \A k \in DOMAIN buys' : k \in W <=> buys'[k] \in Filled'
  <2>1. DOMAIN buys' = DOMAIN buys \ {l} /\ \A k \in DOMAIN buys' : buys'[k] = buys[k]
    BY <1>1, WithoutFacts
  <2>2. \A k \in DOMAIN buys' : buys[k] # n.order.id
    BY <1>1, <2>1 DEF IInv, BooksAreInjective
  <2> QED BY <1>3, <1>5, <2>1, <2>2 DEF HeldBy
<1>8. \A k \in DOMAIN sells' : k - 1 \in W <=> sells'[k] \notin Filled'
  <2>1. PICK at, id : at = l + 1 /\ id = placed + 1
    OBVIOUS
  <2>2. sells' = With(sells, at, id)
    BY <1>2, <2>1
  <2>3. /\ DOMAIN sells' = DOMAIN sells \cup {at}
        /\ sells'[at] = id
        /\ \A k \in DOMAIN sells : k # at => sells'[k] = sells[k]
    BY <2>2 DEF With
  <2>4. at - 1 = l
    BY <1>4, <2>1
  <2>5. id \notin Filled'
    BY <1>3, <2>1, FilledIsPlaced
  <2>6. ASSUME NEW k \in DOMAIN sells PROVE k # at /\ sells[k] # n.order.id
    BY <1>1, <1>4, <2>1 DEF IInv, BooksAreInjective
  <2>7. \A k \in DOMAIN sells : k - 1 \in W <=> sells'[k] \notin Filled'
    BY <1>3, <1>5, <2>3, <2>6 DEF HeldBy
  <2> QED BY <1>6, <2>3, <2>4, <2>5, <2>7
<1>9. HeldBy(W)'
  BY <1>2, <1>5, <1>7, <1>8 DEF HeldBy
<1> QED BY <1>2, <1>9 DEF Exposure

LEMMA SellFilledExposure ==
  ASSUME IInv, Exposure, NEW n \in notices, SellFilled(n)
  PROVE  Exposure'
<1>e. \E l \in DOMAIN sells : sells[l] = n.order.id
  <2>1. n.order.side # "buy"
    BY DEF SellFilled
  <2> QED BY <2>1, RestFacts DEF IInv, OrdersAreEntered
<1>1. PICK l \in DOMAIN sells :
        /\ sells[l] = n.order.id
        /\ NewOrder("buy", l - 1, n.price - Step)
        /\ sells' = Without(sells, l)
  <2>1. LevelsOf(sells, n.order.id) # {}
    BY <1>e, LevelsOfFacts
  <2> QED BY <2>1, LevelsOfFacts DEF SellFilled
<1>2. /\ n.outcome = "filled" /\ notices' = notices \ {n}
      /\ UNCHANGED <<started, position>> /\ started
      /\ buys' = With(buys, l - 1, placed + 1)
  BY <1>1 DEF SellFilled, NewOrder, IInv
<1>3. n.order.id \in Filled /\ Filled' = Filled \ {n.order.id}
  BY <1>2, FilledAfter
<1>4. l - 1 \in Gap /\ l - 1 \notin DOMAIN buys
  BY Neighbours DEF IInv
<1>5. PICK W \in SUBSET Gap : HeldBy(W)
  BY <1>2 DEF Exposure
<1>6. l - 1 \notin W
  BY <1>1, <1>3, <1>5 DEF HeldBy
<1>7. \A k \in DOMAIN sells' : k - 1 \in W <=> sells'[k] \notin Filled'
  <2>1. DOMAIN sells' = DOMAIN sells \ {l} /\ \A k \in DOMAIN sells' : sells'[k] = sells[k]
    BY <1>1, WithoutFacts
  <2>2. \A k \in DOMAIN sells' : sells[k] # n.order.id
    BY <1>1, <2>1 DEF IInv, BooksAreInjective
  <2> QED BY <1>3, <1>5, <2>1, <2>2 DEF HeldBy
<1>8. \A k \in DOMAIN buys' : k \in W <=> buys'[k] \in Filled'
  <2>1. PICK at, id : at = l - 1 /\ id = placed + 1
    OBVIOUS
  <2>2. buys' = With(buys, at, id)
    BY <1>2, <2>1
  <2>3. /\ DOMAIN buys' = DOMAIN buys \cup {at}
        /\ buys'[at] = id
        /\ \A k \in DOMAIN buys : k # at => buys'[k] = buys[k]
    BY <2>2 DEF With
  <2>4. id \notin Filled'
    BY <1>3, <2>1, FilledIsPlaced
  <2>5. ASSUME NEW k \in DOMAIN buys PROVE k # at /\ buys[k] # n.order.id
    BY <1>1, <1>4, <2>1 DEF IInv, BooksAreInjective
  <2>6. \A k \in DOMAIN buys : k \in W <=> buys'[k] \in Filled'
    BY <1>3, <1>5, <2>3, <2>5 DEF HeldBy
  <2> QED BY <1>6, <2>1, <2>3, <2>4, <2>6
<1>9. HeldBy(W)'
  BY <1>2, <1>5, <1>7, <1>8 DEF HeldBy
<1> QED BY <1>2, <1>9 DEF Exposure

(* A failed order leaves its gap as it is. *)
LEMMA OrderFailedExposure ==
  ASSUME IInv, Exposure, NEW n \in notices, OrderFailed(n)
  PROVE  Exposure'
<1>1. /\ n.outcome # "filled" /\ notices' = notices \ {n}
      /\ UNCHANGED <<started, position>> /\ started
  BY DEF OrderFailed, IInv
<1>2. Filled' = Filled
  BY <1>1, FilledAfter
<1>3. /\ DOMAIN buys' \subseteq DOMAIN buys /\ \A k \in DOMAIN buys' : buys'[k] = buys[k]
      /\ DOMAIN sells' \subseteq DOMAIN sells /\ \A k \in DOMAIN sells' : sells'[k] = sells[k]
  <2>1. \/ \E l \in LevelsOf(buys, n.order.id) : buys' = Without(buys, l) /\ sells' = sells
        \/ buys' = buys /\ sells' = sells
        \/ buys' = buys /\ \E l \in LevelsOf(sells, n.order.id) : sells' = Without(sells, l)
    BY DEF OrderFailed
  <2>2. ASSUME NEW f, NEW g, \/ g = f
                             \/ \E l : g = Without(f, l)
        PROVE  DOMAIN g \subseteq DOMAIN f /\ \A k \in DOMAIN g : g[k] = f[k]
    <3>1. CASE g = f
      BY <3>1
    <3>2. ASSUME NEW l, g = Without(f, l)
          PROVE  DOMAIN g \subseteq DOMAIN f /\ \A k \in DOMAIN g : g[k] = f[k]
      BY <3>2, WithoutFacts
    <3> QED BY <2>2, <3>1, <3>2
  <2>3. /\ buys' = buys \/ \E l : buys' = Without(buys, l)
        /\ sells' = sells \/ \E l : sells' = Without(sells, l)
    BY <2>1
  <2> QED BY <2>2, <2>3
<1>4. PICK W \in SUBSET Gap : HeldBy(W)
  BY <1>1 DEF Exposure
<1>5. HeldBy(W)'
  BY <1>1, <1>2, <1>3, <1>4 DEF HeldBy
<1> QED BY <1>1, <1>5 DEF Exposure

LEMMA ExposureStep == IInv /\ Exposure /\ [Next]_vars => Exposure'
<1> SUFFICES ASSUME IInv, Exposure, [Next]_vars PROVE Exposure'
  OBVIOUS
<1>1. CASE Start
  BY <1>1, StartExposure
<1>2. CASE \E price, reach \in Open : \E failed \in SUBSET {o.id : o \in open} : Bar(price, reach, failed)
  BY <1>2, BarExposure
<1>3. CASE \E n \in notices : BuyFilled(n)
  BY <1>3, BuyFilledExposure
<1>4. CASE \E n \in notices : SellFilled(n)
  BY <1>4, SellFilledExposure
<1>5. CASE \E n \in notices : OrderFailed(n)
  BY <1>5, OrderFailedExposure
<1>6. CASE UNCHANGED vars
  BY <1>6 DEF vars, Exposure, HeldBy, Filled
<1> QED BY <1>1, <1>2, <1>3, <1>4, <1>5, <1>6 DEF Next

(* With every order in place, the gaps that have bought are those of the   *)
(* sales.                                                                  *)
LEMMA MatchesGrid == ASSUME IInv, Exposure PROVE PositionMatchesGrid
<1> SUFFICES ASSUME started, notices = {},
                    Cardinality(DOMAIN buys) + Cardinality(DOMAIN sells) = 2 * Half
             PROVE  position = Cardinality({g \in Gap : g < 0 /\ SellIn(g)})
                                 - Cardinality({g \in Gap : g >= 0 /\ BuyIn(g)})
  BY DEF PositionMatchesGrid
<1>1. PICK W \in SUBSET Gap : HeldBy(W)
  BY DEF Exposure
<1>2. Filled = {}
  BY DEF Filled
<1> DEFINE S == {g \in Gap : SellIn(g)}
           up == [g \in S |-> g + 1]
<1>3. Cardinality(DOMAIN sells) = Cardinality(S) /\ IsFiniteSet(S)
  <2>1. IsFiniteSet(S)
    BY GapSize, FS_Subset
  <2>2. up \in [S -> DOMAIN sells]
    BY DEF SellIn
  <2>3. \A g, h \in S : up[g] = up[h] => g = h
    BY GapIsLevel
  <2>4. \A l \in DOMAIN sells : \E g \in S : up[g] = l
    BY DEF IInv, OneOrderPerGap, SellIn
  <2> HIDE DEF S, up
  <2>5. up \in Injection(S, DOMAIN sells) /\ up \in Surjection(S, DOMAIN sells)
    BY <2>2, <2>3, <2>4 DEF Injection, IsInjective, Surjection
  <2> QED BY <2>1, <2>5, FS_Surjection
<1>4. S \subseteq W
  <2>1. ASSUME NEW g \in S PROVE g \in W
    <3>1. g + 1 \in DOMAIN sells /\ (g + 1) - 1 = g
      BY GapIsLevel DEF SellIn
    <3> QED BY <1>1, <1>2, <3>1 DEF HeldBy
  <2> QED BY <2>1
<1>5. DOMAIN buys \subseteq Gap \ W
  BY <1>1, <1>2 DEF HeldBy, IInv, OneOrderPerGap
<1>6. /\ IsFiniteSet(W) /\ Cardinality(W) \in Nat /\ Cardinality(S) \in Nat
      /\ IsFiniteSet(Gap \ W) /\ Cardinality(Gap \ W) = 2 * Half - Cardinality(W)
      /\ IsFiniteSet(DOMAIN buys) /\ Cardinality(DOMAIN buys) \in Nat
  <2>1. IsFiniteSet(W) /\ Gap \cap W = W
    BY GapSize, FS_Subset
  <2>2. IsFiniteSet(Gap \ W) /\ Cardinality(Gap \ W) = 2 * Half - Cardinality(W)
    <3>1. /\ IsFiniteSet(Gap \ W)
          /\ Cardinality(Gap \ W) = Cardinality(Gap) - Cardinality(Gap \cap W)
      BY GapSize, FS_Difference
    <3> QED BY <2>1, <3>1, GapSize
  <2>3. IsFiniteSet(DOMAIN buys)
    BY <1>5, <2>2, FS_Subset
  <2> HIDE DEF S
  <2> QED BY <1>3, <2>1, <2>2, <2>3, FS_CardinalityType
<1>7. S = W /\ DOMAIN buys = Gap \ W
  <2> HIDE DEF S
  <2>1. Cardinality(S) <= Cardinality(W) /\ (Cardinality(W) = Cardinality(S) => W = S)
    BY <1>4, <1>6, FS_Subset
  <2>2. /\ Cardinality(DOMAIN buys) <= Cardinality(Gap \ W)
        /\ Cardinality(Gap \ W) = Cardinality(DOMAIN buys) => Gap \ W = DOMAIN buys
    BY <1>5, <1>6, FS_Subset
  <2> QED BY <1>3, <1>6, <2>1, <2>2, HalfType
<1> DEFINE U == {g \in Gap : g < 0 /\ SellIn(g)}
           V == {g \in Gap : g >= 0 /\ BuyIn(g)}
           T == 0..(Half - 1)
<1>8. T = {g \in Gap : g >= 0}
  BY HalfType DEF Gap
<1>9. W = U \cup (T \ V) /\ U \cap (T \ V) = {} /\ V \subseteq T
  <2>1. \A g \in Gap : g \in Int
    BY GapIsLevel
  <2>2. \A g \in Gap : (g \in W <=> SellIn(g)) /\ (g \notin W <=> BuyIn(g))
    BY <1>7 DEF BuyIn
  <2> HIDE DEF T
  <2> QED BY <1>8, <2>1, <2>2
<1>10. position = Cardinality(W) - Half
  BY <1>1 DEF HeldBy
<1>11. IsFiniteSet(T) /\ Cardinality(T) = Half
  BY GapSize
<1> HIDE DEF U, V, T, S
<1>12. /\ IsFiniteSet(U) /\ IsFiniteSet(V) /\ IsFiniteSet(T \ V)
       /\ Cardinality(T \ V) = Half - Cardinality(V)
  <2>1. IsFiniteSet(U)
    BY <1>6, <1>9, FS_Subset
  <2>2. IsFiniteSet(V) /\ T \cap V = V
    BY <1>9, <1>11, FS_Subset
  <2> QED BY <1>11, <2>1, <2>2, FS_Difference
<1>13. Cardinality(W) = Cardinality(U) + Cardinality(T \ V)
  <2>1. Cardinality(U \cap (T \ V)) = 0
    BY <1>9, FS_EmptySet
  <2>2. Cardinality(U \cup (T \ V)) = Cardinality(U) + Cardinality(T \ V) - Cardinality(U \cap (T \ V))
    BY <1>12, FS_Union
  <2>3. Cardinality(U) \in Nat /\ Cardinality(T \ V) \in Nat
    BY <1>12, FS_CardinalityType
  <2> QED BY <1>9, <2>1, <2>2, <2>3
<1>14. Cardinality(U) \in Nat /\ Cardinality(V) \in Nat
  BY <1>12, FS_CardinalityType
<1>15. position = Cardinality(U) - Cardinality(V)
  BY <1>10, <1>12, <1>13, <1>14, HalfType
<1> QED BY <1>15 DEF U, V

LEMMA Bounded == ASSUME IInv, Exposure PROVE PositionBounded
<1>1. Half \in Nat
  BY HalfType
<1>2. CASE started
  <2>1. PICK W \in SUBSET Gap : HeldBy(W)
    BY <1>2 DEF Exposure
  <2>2. position = Cardinality(W) - Half
    BY <2>1 DEF HeldBy
  <2>3. Cardinality(W) \in Nat /\ Cardinality(W) <= 2 * Half
    BY GapSize, FS_Subset, FS_CardinalityType
  <2> QED BY <1>1, <2>2, <2>3 DEF PositionBounded
<1>3. CASE ~started
  BY <1>1, <1>3 DEF Exposure, PositionBounded
<1> QED BY <1>2, <1>3

(* What the strategy holds is what its books say, and never more than half *)
(* a grid, whatever the bars fill, in whatever order the fills are         *)
(* reported and whichever orders the broker refuses (notify_order,         *)
(* _remove_failed_order).                                                  *)
THEOREM ExposureIsTheGrid == Spec => []ExposureFollowsGrid
<1>1. Init => Exposure
  BY DEF Init, Exposure
<1>2. Spec => []Exposure
  BY <1>1, ExposureStep, Inductive, PTL DEF Spec
<1>3. IInv /\ Exposure => ExposureFollowsGrid
  BY MatchesGrid, Bounded DEF ExposureFollowsGrid
<1> QED BY <1>2, <1>3, Inductive, PTL

-----------------------------------------------------------------------------
(***************************************************************************)
(* Sums over trades                                                        *)
(***************************************************************************)
(* A column of n units has n elements.                                     *)
LEMMA ColumnSize ==
  ASSUME NEW x, NEW n \in Nat
  PROVE  IsFiniteSet({x} \X (1..n)) /\ Cardinality({x} \X (1..n)) = n
<1> DEFINE f == [k \in 1..n |-> <<x, k>>]
<1>1. f \in Injection(1..n, {x} \X (1..n))
  BY DEF Injection, IsInjective
<1>2. \A u \in {x} \X (1..n) : \E k \in 1..n : f[k] = u
  <2>1. ASSUME NEW u \in {x} \X (1..n) PROVE \E k \in 1..n : f[k] = u
    <3>1. u[2] \in 1..n /\ u = <<x, u[2]>>
      OBVIOUS
    <3>2. f[u[2]] = u
      BY <3>1
    <3> QED BY <3>1, <3>2
  <2> QED BY <2>1
<1>3. f \in Bijection(1..n, {x} \X (1..n))
  <2>1. f \in [1..n -> {x} \X (1..n)]
    OBVIOUS
  <2>2. f \in Surjection(1..n, {x} \X (1..n))
    BY <1>2, <2>1 DEF Surjection
  <2> QED BY <1>1, <2>2 DEF Bijection
<1>4. ExistsBijection(1..n, {x} \X (1..n))
  BY <1>3 DEF ExistsBijection
<1> QED BY <1>4, FS_Interval, FS_Bijection

LEMMA UnitsFinite ==
  ASSUME NEW f, IsFiniteSet(DOMAIN f), \A x \in DOMAIN f : f[x] \in Nat
  PROVE  IsFiniteSet(Units(f))
<1> DEFINE C == {{x} \X (1..f[x]) : x \in DOMAIN f}
           g == [x \in DOMAIN f |-> {x} \X (1..f[x])]
<1>1. g \in Surjection(DOMAIN f, C)
  <2>1. g \in [DOMAIN f -> C]
    OBVIOUS
  <2>2. \A c \in C : \E x \in DOMAIN f : g[x] = c
    OBVIOUS
  <2> QED BY <2>1, <2>2 DEF Surjection
<1>2. IsFiniteSet(C)
  BY <1>1, FS_Surjection
<1>3. \A c \in C : IsFiniteSet(c)
  BY ColumnSize
<1>4. Units(f) = UNION C
  BY DEF Units
<1> HIDE DEF C
<1> QED BY <1>2, <1>3, <1>4, FS_UNION

(* A sum with one more term.                                               *)
LEMMA TotalGrows ==
  ASSUME NEW f, NEW g, NEW x, x \notin DOMAIN f, DOMAIN g = DOMAIN f \cup {x},
         \A y \in DOMAIN f : g[y] = f[y], g[x] \in Nat,
         IsFiniteSet(DOMAIN f), \A y \in DOMAIN f : f[y] \in Nat
  PROVE  Total(f) \in Nat /\ Total(g) = Total(f) + g[x]
<1> DEFINE col == {x} \X (1..g[x])
<1>1. IsFiniteSet(Units(f)) /\ Cardinality(Units(f)) \in Nat
  BY UnitsFinite, FS_CardinalityType
<1>2. IsFiniteSet(col) /\ Cardinality(col) = g[x]
  BY ColumnSize
<1>3. Units(g) = Units(f) \cup col
  <2>1. ASSUME NEW u \in Units(g) PROVE u \in Units(f) \cup col
    <3>1. PICK y \in DOMAIN g : u \in {y} \X (1..g[y])
      BY <2>1 DEF Units
    <3>2. y # x => u \in Units(f)
      BY <3>1 DEF Units
    <3> QED BY <3>1, <3>2
  <2>2. ASSUME NEW u \in Units(f) PROVE u \in Units(g)
    <3>1. PICK y \in DOMAIN f : u \in {y} \X (1..f[y])
      BY <2>2 DEF Units
    <3> QED BY <3>1 DEF Units
  <2>3. col \subseteq Units(g)
    BY DEF Units
  <2> QED BY <2>1, <2>2, <2>3
<1>4. Units(f) \cap col = {}
  BY DEF Units
<1>5. Cardinality({}) = 0
  BY FS_EmptySet
<1> HIDE DEF col
<1>6. Cardinality(Units(f) \cup col) = Cardinality(Units(f)) + Cardinality(col) - 0
  BY <1>1, <1>2, <1>4, <1>5, FS_Union
<1> QED BY <1>1, <1>2, <1>3, <1>6 DEF Total

LEMMA TotalOfNone == ASSUME NEW f, DOMAIN f = {} PROVE Total(f) = 0
<1>1. Units(f) = {}
  BY DEF Units
<1> QED BY <1>1, FS_EmptySet DEF Total

LEMMA TradeFields ==
  ASSUME NEW t \in Trade
  PROVE  /\ t.id \in 1..MaxTrades /\ t.at \in 1..MaxTime /\ t.symbol \in Symbol
         /\ t.side \in {"buy", "sell"} /\ t.amount \in Nat \ {0} /\ t.price \in Nat \ {0}
         /\ t.amount * t.price \in Nat
<1>1. /\ t.id \in 1..MaxTrades /\ t.at \in 1..MaxTime /\ t.symbol \in Symbol
      /\ t.side \in {"buy", "sell"} /\ t.amount \in Nat \ {0} /\ t.price \in Nat \ {0}
  BY NumberAssumption DEF Trade
<1> QED BY <1>1

(* One side of the trades, with one more trade.                            *)
LEMMA AmountsGrow ==
  ASSUME NEW T, IsFiniteSet(T), T \subseteq Trade, NEW t \in Trade
  PROVE  /\ Amounts(T) \in Nat /\ Worth(T) \in Nat
         /\ t \notin T => /\ Amounts(T \cup {t}) = Amounts(T) + t.amount
                          /\ Worth(T \cup {t}) = Worth(T) + t.amount * t.price
<1> DEFINE f == [u \in T |-> u.amount]
           g == [u \in T \cup {t} |-> u.amount]
           v == [u \in T |-> u.amount * u.price]
           w == [u \in T \cup {t} |-> u.amount * u.price]
<1>1. \A u \in T \cup {t} : u.amount \in Nat /\ u.amount * u.price \in Nat
  BY TradeFields
<1>2. IsFiniteSet(Units(f)) /\ IsFiniteSet(Units(v))
  BY <1>1, UnitsFinite
<1>3. Total(f) \in Nat /\ Total(v) \in Nat
  BY <1>2, FS_CardinalityType DEF Total
<1>4. ASSUME t \notin T PROVE Total(g) = Total(f) + t.amount
  <2>1. /\ t \notin DOMAIN f /\ DOMAIN g = DOMAIN f \cup {t} /\ \A y \in DOMAIN f : g[y] = f[y]
        /\ g[t] = t.amount /\ g[t] \in Nat /\ IsFiniteSet(DOMAIN f)
        /\ \A y \in DOMAIN f : f[y] \in Nat
    BY <1>1, <1>4
  <2> HIDE DEF f, g
  <2> QED BY <2>1, TotalGrows
<1>5. ASSUME t \notin T PROVE Total(w) = Total(v) + t.amount * t.price
  <2>1. /\ t \notin DOMAIN v /\ DOMAIN w = DOMAIN v \cup {t} /\ \A y \in DOMAIN v : w[y] = v[y]
        /\ w[t] = t.amount * t.price /\ w[t] \in Nat /\ IsFiniteSet(DOMAIN v)
        /\ \A y \in DOMAIN v : v[y] \in Nat
    BY <1>1, <1>5
  <2> HIDE DEF v, w
  <2> QED BY <2>1, TotalGrows
<1> QED BY <1>3, <1>4, <1>5 DEF Amounts, Worth

(* What one more trade does to what is held and to the cash.               *)
LEMMA NetGrows ==
  ASSUME NEW T, IsFiniteSet(T), T \subseteq Trade, NEW t \in Trade, t \notin T
  PROVE  /\ Net(T) \in Int /\ CashFlow(T) \in Int
         /\ t.side = "buy" => /\ Net(T \cup {t}) = Net(T) + t.amount
                              /\ CashFlow(T \cup {t}) = CashFlow(T) - t.amount * t.price
         /\ t.side = "sell" => /\ Net(T \cup {t}) = Net(T) - t.amount
                               /\ CashFlow(T \cup {t}) = CashFlow(T) + t.amount * t.price
<1>1. /\ IsFiniteSet(Buys(T)) /\ Buys(T) \subseteq Trade /\ t \notin Buys(T)
      /\ IsFiniteSet(Sales(T)) /\ Sales(T) \subseteq Trade /\ t \notin Sales(T)
  BY FS_Subset DEF Buys, Sales
<1>2. /\ Amounts(Buys(T)) \in Nat /\ Worth(Buys(T)) \in Nat
      /\ Amounts(Sales(T)) \in Nat /\ Worth(Sales(T)) \in Nat
  BY <1>1, AmountsGrow
<1>3. PICK n \in Nat, w \in Nat : n = t.amount /\ w = t.amount * t.price
  BY TradeFields
<1>4. ASSUME t.side = "buy"
      PROVE  /\ Net(T \cup {t}) = Net(T) + n
             /\ CashFlow(T \cup {t}) = CashFlow(T) - w
  <2>1. Buys(T \cup {t}) = Buys(T) \cup {t} /\ Sales(T \cup {t}) = Sales(T)
    BY <1>4 DEF Buys, Sales
  <2>2. /\ Amounts(Buys(T) \cup {t}) = Amounts(Buys(T)) + n
        /\ Worth(Buys(T) \cup {t}) = Worth(Buys(T)) + w
    BY <1>1, <1>3, AmountsGrow
  <2>3. /\ Net(T \cup {t}) = Amounts(Buys(T) \cup {t}) - Amounts(Sales(T))
        /\ CashFlow(T \cup {t}) = Worth(Sales(T)) - Worth(Buys(T) \cup {t})
        /\ Net(T) = Amounts(Buys(T)) - Amounts(Sales(T))
        /\ CashFlow(T) = Worth(Sales(T)) - Worth(Buys(T))
    BY <2>1 DEF Net, CashFlow
  <2>4. n \in Nat /\ w \in Nat
    OBVIOUS
  <2> QED BY <1>2, <2>2, <2>3, <2>4
<1>5. ASSUME t.side = "sell"
      PROVE  /\ Net(T \cup {t}) = Net(T) - n
             /\ CashFlow(T \cup {t}) = CashFlow(T) + w
  <2>1. Buys(T \cup {t}) = Buys(T) /\ Sales(T \cup {t}) = Sales(T) \cup {t}
    BY <1>5 DEF Buys, Sales
  <2>2. /\ Amounts(Sales(T) \cup {t}) = Amounts(Sales(T)) + n
        /\ Worth(Sales(T) \cup {t}) = Worth(Sales(T)) + w
    BY <1>1, <1>3, AmountsGrow
  <2>3. /\ Net(T \cup {t}) = Amounts(Buys(T)) - Amounts(Sales(T) \cup {t})
        /\ CashFlow(T \cup {t}) = Worth(Sales(T) \cup {t}) - Worth(Buys(T))
        /\ Net(T) = Amounts(Buys(T)) - Amounts(Sales(T))
        /\ CashFlow(T) = Worth(Sales(T)) - Worth(Buys(T))
    BY <2>1 DEF Net, CashFlow
  <2>4. n \in Nat /\ w \in Nat
    OBVIOUS
  <2> QED BY <1>2, <2>2, <2>3, <2>4
<1>6. Net(T) \in Int /\ CashFlow(T) \in Int
  BY <1>2 DEF Net, CashFlow
<1> QED BY <1>3, <1>4, <1>5, <1>6

LEMMA NoNet == Net({}) = 0 /\ CashFlow({}) = 0
<1>1. Buys({}) = {} /\ Sales({}) = {}
  BY DEF Buys, Sales
<1>2. Amounts({}) = 0 /\ Worth({}) = 0
  BY TotalOfNone DEF Amounts, Worth
<1> QED BY <1>1, <1>2 DEF Net, CashFlow

-----------------------------------------------------------------------------
(***************************************************************************)
(* The order of the trades                                                 *)
(***************************************************************************)
(* Every set of naturals has a least one, a bounded one a greatest.        *)
LEMMA LeastNatural ==
  ASSUME NEW T, T \subseteq Nat, T # {}
  PROVE  \E n \in T : \A m \in T : n <= m
<1> DEFINE R == OpToRel(<, Nat)
<1>1. IsWellFoundedOn(R, Nat)
  BY NatLessThanWellFounded
<1>2. \A m, n \in Nat : <<m, n>> \in R <=> m < n
  BY DEF OpToRel
<1> HIDE DEF R
<1>3. PICK n \in T : \A m \in T : ~ (<<m, n>> \in R)
  BY <1>1, WFMin
<1>4. ASSUME NEW m \in T PROVE n <= m
  <2>1. m \in Nat /\ n \in Nat /\ ~ (<<m, n>> \in R)
    BY <1>3
  <2>2. ~ (m < n)
    BY <1>2, <2>1
  <2> QED BY <2>1, <2>2
<1> QED BY <1>4

LEMMA GreatestNatural ==
  ASSUME NEW n \in Nat, NEW T, T \subseteq 0..n, T # {}
  PROVE  \E x \in T : \A m \in T : m <= x
<1> DEFINE U == {n - m : m \in T}
<1>1. U \subseteq Nat /\ U # {}
  <2>1. \A m \in T : n - m \in Nat
    OBVIOUS
  <2> QED BY <2>1
<1> HIDE DEF U
<1>2. PICK u \in U : \A v \in U : u <= v
  BY <1>1, LeastNatural
<1>3. PICK x \in T : u = n - x
  BY DEF U
<1>4. ASSUME NEW m \in T PROVE m <= x
  <2>1. n - m \in U
    BY DEF U
  <2>2. n - x <= n - m
    BY <1>2, <1>3, <2>1
  <2> QED BY <2>2
<1> QED BY <1>4

(* Every nonempty family of subsets of a finite set has a minimal one.     *)
LEMMA Smallest ==
  ASSUME NEW S, IsFiniteSet(S), NEW F, F \subseteq SUBSET S, F # {}
  PROVE  \E U \in F : \A V \in F : V \subseteq U => V = U
<1>1. IsWellFoundedOn(StrictSubsetOrdering(S), SUBSET S)
  BY FS_StrictSubsetOrderingWellFounded, FS_FiniteSubsetsOfFinite
<1>2. PICK U \in F : \A V \in F : ~ (<<V, U>> \in StrictSubsetOrdering(S))
  BY <1>1, WFMin
<1>3. ASSUME NEW V \in F, V \subseteq U, V # U PROVE FALSE
  <2>1. <<V, U>> \in (SUBSET S) \X (SUBSET S)
    OBVIOUS
  <2>2. <<V, U>> \in StrictSubsetOrdering(S)
    BY <1>3, <2>1, Zenon DEF StrictSubsetOrdering
  <2> QED BY <1>2, <2>2
<1> QED BY <1>3

(* Finitely many trades, told apart by their ids.                          *)
Log(T) ==
  /\ T \subseteq Trade /\ IsFiniteSet(T)
  /\ \A t, u \in T : t.id = u.id => t = u

LEMMA LogsOf == ASSUME NEW T, Log(T), NEW U, U \subseteq T PROVE Log(U)
  BY FS_Subset DEF Log

LEMMA LatestIs ==
  ASSUME NEW T, Log(T), NEW t \in T, \A u \in T \ {t} : Earlier(u, t)
  PROVE  Latest(T) = t
<1>1. ASSUME NEW v \in T, v # t, \A u \in T \ {v} : Earlier(u, v) PROVE FALSE
  <2>1. Earlier(v, t) /\ Earlier(t, v)
    BY <1>1
  <2>2. t \in Trade /\ v \in Trade
    BY DEF Log
  <2>3. t.at \in Int /\ v.at \in Int /\ t.id \in Int /\ v.id \in Int
    BY <2>2, TradeFields
  <2> QED BY <2>1, <2>3 DEF Earlier
<1> QED BY <1>1 DEF Latest

LEMMA LatestIn ==
  ASSUME NEW T, Log(T), T # {}
  PROVE  Latest(T) \in T /\ \A u \in T \ {Latest(T)} : Earlier(u, Latest(T))
<1>0. /\ MaxTime \in Nat /\ MaxTrades \in Nat
      /\ \A t \in T : t.at \in 1..MaxTime /\ t.id \in 1..MaxTrades
  BY NumberAssumption, TradeFields DEF Log
<1> DEFINE A == {t.at : t \in T}
<1>1. A \subseteq 0..MaxTime /\ A # {}
  <2>1. \A t \in T : t.at \in 0..MaxTime
    BY <1>0
  <2> QED BY <2>1
<1>2. PICK m \in A : \A k \in A : k <= m
  <2> HIDE DEF A
  <2> QED BY <1>0, <1>1, GreatestNatural
<1> DEFINE I == {t.id : t \in {u \in T : u.at = m}}
<1>3. I \subseteq 0..MaxTrades /\ I # {}
  <2>1. \A t \in T : t.id \in 0..MaxTrades
    BY <1>0
  <2> QED BY <2>1
<1>4. PICK i \in I : \A k \in I : k <= i
  <2> HIDE DEF I
  <2> QED BY <1>0, <1>3, GreatestNatural
<1>5. PICK t \in T : t.at = m /\ t.id = i
  BY DEF I
<1>6. ASSUME NEW u \in T \ {t} PROVE Earlier(u, t)
  <2>1. u.at \in Int /\ t.at \in Int /\ u.id \in Int /\ t.id \in Int
    BY <1>0
  <2>2. u.at <= t.at
    BY <1>2, <1>5
  <2>3. u.at = t.at => u.id <= t.id
    BY <1>4, <1>5
  <2>4. u.id # t.id
    BY DEF Log
  <2> QED BY <2>1, <2>2, <2>3, <2>4 DEF Earlier
<1>7. Latest(T) = t
  BY <1>6, LatestIs
<1> QED BY <1>6, <1>7

-----------------------------------------------------------------------------
(***************************************************************************)
(* The recursion of the book                                               *)
(***************************************************************************)
IsBook(g, T) ==
  g = [U \in SUBSET T |-> IF U = {} THEN EmptyBook
                          ELSE Booked(g[U \ {Latest(U)}], Latest(U))]

LEMMA BookValue ==
  ASSUME NEW g, NEW T, IsBook(g, T), NEW U, U \subseteq T
  PROVE  g[U] = IF U = {} THEN EmptyBook ELSE Booked(g[U \ {Latest(U)}], Latest(U))
<1> DEFINE h == [V \in SUBSET T |-> IF V = {} THEN EmptyBook
                                    ELSE Booked(g[V \ {Latest(V)}], Latest(V))]
<1>1. g = h
  BY DEF IsBook
<1>2. h[U] = IF U = {} THEN EmptyBook ELSE Booked(g[U \ {Latest(U)}], Latest(U))
  OBVIOUS
<1> HIDE DEF h
<1> QED BY <1>1, <1>2

LEMMA BookIsUnique ==
  ASSUME NEW g, NEW S, IsBook(g, S), NEW h, NEW T, IsBook(h, T), Log(T),
         NEW V, V \subseteq S, V \subseteq T
  PROVE  g[V] = h[V]
<1> DEFINE F == {U \in SUBSET V : g[U] # h[U]}
<1>1. SUFFICES ASSUME F # {} PROVE FALSE
  OBVIOUS
<1>2. IsFiniteSet(V)
  BY FS_Subset DEF Log
<1>3. PICK U \in F : \A W \in F : W \subseteq U => W = U
  <2>1. F \subseteq SUBSET V
    OBVIOUS
  <2> HIDE DEF F
  <2> QED BY <1>1, <1>2, <2>1, Smallest
<1>4. U # {}
  BY BookValue
<1>5. Latest(U) \in U
  BY <1>4, LogsOf, LatestIn
<1>6. g[U \ {Latest(U)}] = h[U \ {Latest(U)}]
  BY <1>3, <1>5
<1> QED BY <1>4, <1>6, BookValue

LEMMA BookExists == ASSUME NEW T, Log(T) PROVE \E g : IsBook(g, T)
<1> DEFINE F == {U \in SUBSET T : ~ \E g : IsBook(g, U)}
<1>1. SUFFICES ASSUME F # {} PROVE FALSE
  OBVIOUS
<1>2. IsFiniteSet(T)
  BY DEF Log
<1>3. PICK U \in F : \A W \in F : W \subseteq U => W = U
  <2>1. F \subseteq SUBSET T
    OBVIOUS
  <2> HIDE DEF F
  <2> QED BY <1>1, <1>2, <2>1, Smallest
<1> DEFINE G(V) == (CHOOSE g : IsBook(g, V))[V]
           Of(V) == IF V = {} THEN EmptyBook ELSE Booked(G(V \ {Latest(V)}), Latest(V))
           h == [V \in SUBSET U |-> IF V = U THEN Of(U) ELSE G(V)]
<1>4. ASSUME NEW V \in SUBSET U, V # U PROVE IsBook(CHOOSE g : IsBook(g, V), V)
  BY <1>3, <1>4
<1>5. ASSUME NEW V \in SUBSET U, V # U, V # {} PROVE G(V) = Booked(G(V \ {Latest(V)}), Latest(V))
  <2>1. PICK g : g = CHOOSE x : IsBook(x, V)
    OBVIOUS
  <2>2. IsBook(g, V)
    BY <1>4, <1>5, <2>1
  <2>3. g[V] = Booked(g[V \ {Latest(V)}], Latest(V))
    BY <1>5, <2>2, BookValue
  <2>4. Latest(V) \in V /\ Log(V)
    BY <1>5, LogsOf, LatestIn
  <2>5. V \ {Latest(V)} \in SUBSET U /\ V \ {Latest(V)} # U
    BY <2>4
  <2>6. PICK k : k = CHOOSE x : IsBook(x, V \ {Latest(V)})
    OBVIOUS
  <2>7. IsBook(k, V \ {Latest(V)}) /\ Log(V \ {Latest(V)})
    BY <1>4, <2>4, <2>5, <2>6, LogsOf
  <2>8. g[V \ {Latest(V)}] = k[V \ {Latest(V)}]
    BY <2>2, <2>7, BookIsUnique
  <2> QED BY <2>1, <2>3, <2>6, <2>8
<1>6. G({}) = EmptyBook \/ U = {}
  <2>1. SUFFICES ASSUME U # {} PROVE G({}) = EmptyBook
    OBVIOUS
  <2>2. PICK g : g = CHOOSE x : IsBook(x, {})
    OBVIOUS
  <2>3. IsBook(g, {})
    BY <1>4, <2>1, <2>2
  <2> QED BY <2>2, <2>3, BookValue
<1>7. ASSUME NEW V \in SUBSET U PROVE h[V] = Of(V)
  <2> HIDE DEF G
  <2> QED BY <1>5, <1>6
<1>8. ASSUME NEW V \in SUBSET U, V # {} PROVE h[V \ {Latest(V)}] = G(V \ {Latest(V)})
  <2>1. Latest(V) \in V
    BY <1>8, LogsOf, LatestIn
  <2> HIDE DEF G
  <2> QED BY <2>1
<1> HIDE DEF G
<1>9. \A V \in SUBSET U :
        h[V] = IF V = {} THEN EmptyBook ELSE Booked(h[V \ {Latest(V)}], Latest(V))
  <2>1. ASSUME NEW V \in SUBSET U
        PROVE  h[V] = IF V = {} THEN EmptyBook ELSE Booked(h[V \ {Latest(V)}], Latest(V))
    <3>1. CASE V = {}
      BY <1>7, <3>1
    <3>2. CASE V # {}
      <4>1. h[V] = Booked(G(V \ {Latest(V)}), Latest(V))
        BY <1>7, <3>2
      <4> HIDE DEF h
      <4> QED BY <1>8, <3>2, <4>1
    <3> QED BY <3>1, <3>2
  <2> QED BY <2>1
<1>10. h = [V \in SUBSET U |-> h[V]]
  OBVIOUS
<1> HIDE DEF h
<1>11. IsBook(h, U)
  BY <1>9, <1>10 DEF IsBook
<1> QED BY <1>3, <1>11

(* The book after some trades is the book before the latest of them, and   *)
(* that one trade.                                                         *)
LEMMA BookGrows ==
  ASSUME NEW T, Log(T)
  PROVE  /\ T = {} => BookAfter(T) = EmptyBook
         /\ T # {} => /\ Latest(T) \in T
                      /\ BookAfter(T) = Booked(BookAfter(T \ {Latest(T)}), Latest(T))
<1>1. ASSUME NEW U, Log(U) PROVE \E g : IsBook(g, U) /\ BookAfter(U) = g[U]
  <2>1. BookAfter(U) = (CHOOSE g : IsBook(g, U))[U]
    BY DEF BookAfter, IsBook
  <2>2. \E g : IsBook(g, U)
    BY <1>1, BookExists
  <2> QED BY <2>1, <2>2
<1>2. PICK g : IsBook(g, T) /\ BookAfter(T) = g[T]
  BY <1>1
<1>3. ASSUME T # {}
      PROVE  Latest(T) \in T /\ BookAfter(T) = Booked(BookAfter(T \ {Latest(T)}), Latest(T))
  <2>1. Latest(T) \in T /\ Log(T \ {Latest(T)})
    BY <1>3, LatestIn, LogsOf
  <2>2. PICK k : IsBook(k, T \ {Latest(T)}) /\ BookAfter(T \ {Latest(T)}) = k[T \ {Latest(T)}]
    BY <1>1, <2>1
  <2>3. g[T \ {Latest(T)}] = k[T \ {Latest(T)}]
    BY <1>2, <2>1, <2>2, BookIsUnique
  <2> QED BY <1>2, <1>3, <2>1, <2>2, <2>3, BookValue
<1> QED BY <1>2, <1>3, BookValue

-----------------------------------------------------------------------------
(***************************************************************************)
(* Fractions                                                               *)
(***************************************************************************)
LEMMA ProductType ==
  /\ \A a, b \in Int : a * b \in Int
  /\ \A a, b \in Nat \ {0} : a * b \in Nat \ {0}
OBVIOUS

LEMMA WholeTyped == ASSUME NEW n \in Int PROVE Whole(n) \in Fraction
  BY DEF Whole, Fraction

LEMMA FractionFields ==
  ASSUME NEW q \in Fraction
  PROVE  q.num \in Int /\ q.den \in Nat \ {0} /\ q = [num |-> q.num, den |-> q.den]
  BY DEF Fraction

LEMMA TimesTyped == ASSUME NEW n \in Int, NEW q \in Fraction PROVE Times(n, q) \in Fraction
  BY FractionFields, ProductType DEF Times, Fraction

LEMMA PlusTyped ==
  ASSUME NEW q \in Fraction, NEW r \in Fraction
  PROVE  Plus(q, r) \in Fraction
<1>1. /\ q.num \in Int /\ q.den \in Nat \ {0} /\ r.num \in Int /\ r.den \in Nat \ {0}
      /\ q.den \in Int /\ r.den \in Int
  BY FractionFields
<1>2. PICK x \in Int, y \in Int, d \in Nat \ {0} :
        x = q.num * r.den /\ y = r.num * q.den /\ d = q.den * r.den
  BY <1>1, ProductType
<1>3. x + y \in Int
  OBVIOUS
<1> QED BY <1>2, <1>3 DEF Plus, Fraction

LEMMA MinusTyped ==
  ASSUME NEW q \in Fraction, NEW r \in Fraction
  PROVE  /\ Minus(q, r) \in Fraction
         /\ Minus(q, r) = [num |-> q.num * r.den + (0 - r.num) * q.den, den |-> q.den * r.den]
<1> DEFINE m == [num |-> 0 - r.num, den |-> r.den]
<1>1. r = [num |-> r.num, den |-> r.den] /\ r.num \in Int /\ r.den \in Nat \ {0}
  BY FractionFields
<1>2. [r EXCEPT !.num = -@] = m
  BY <1>1
<1>3. m \in Fraction
  BY <1>1 DEF Fraction
<1>4. m.num = 0 - r.num /\ m.den = r.den
  OBVIOUS
<1>5. Minus(q, r) = Plus(q, m)
  BY <1>2 DEF Minus
<1>6. Plus(q, m) = [num |-> q.num * m.den + m.num * q.den, den |-> q.den * m.den]
  BY DEF Plus
<1> HIDE DEF m
<1> QED BY <1>3, <1>4, <1>5, <1>6, PlusTyped

LEMMA OverTyped ==
  ASSUME NEW q \in Fraction, NEW n \in Nat \ {0}
  PROVE  Over(q, n) \in Fraction
  BY FractionFields, ProductType DEF Over, Fraction

LEMMA EntryTyped ==
  ASSUME NEW a \in Nat, NEW e \in Fraction, NEW n \in Nat \ {0}, NEW p \in Nat
  PROVE  /\ EntryAfter(a, e, n, p) \in Fraction
         /\ EntryAfter(a, e, n, p) =
              [num |-> a * e.num + n * p * e.den, den |-> (a + n) * e.den]
<1>1. e.num \in Int /\ e.den \in Nat \ {0} /\ e.den \in Int
  BY FractionFields
<1>2. a + n \in Nat \ {0} /\ n * p \in Int /\ a \in Int
  BY ProductType
<1>3. Times(a, e) \in Fraction /\ Whole(n * p) \in Fraction
  BY <1>2, TimesTyped, WholeTyped
<1>4. EntryAfter(a, e, n, p) \in Fraction
  BY <1>2, <1>3, PlusTyped, OverTyped DEF EntryAfter
<1>5. EntryAfter(a, e, n, p) =
        [num |-> (a * e.num) * 1 + (n * p) * e.den, den |-> (e.den * 1) * (a + n)]
  BY DEF EntryAfter, Over, Plus, Times, Whole
<1>6. PICK x \in Int, w \in Int, c \in Int : x = a * e.num /\ w = n * p /\ c = a + n
  BY <1>1, <1>2, ProductType
<1>7. x * 1 = x /\ (e.den * 1) * c = c * e.den
  BY <1>1
<1> QED BY <1>4, <1>5, <1>6, <1>7

LEMMA ProfitTyped ==
  ASSUME NEW e \in Fraction, NEW n \in Nat, NEW p \in Nat
  PROVE  /\ ProfitOf(e, n, p) \in Fraction
         /\ ProfitOf(e, n, p) = [num |-> n * (p * e.den - e.num), den |-> e.den]
<1>1. e.num \in Int /\ e.den \in Nat \ {0} /\ e.den \in Int /\ p * e.den \in Int
  BY FractionFields, ProductType
<1>2. Whole(p) \in Fraction /\ Whole(p).num = p /\ Whole(p).den = 1
  BY WholeTyped DEF Whole
<1>3. /\ Minus(Whole(p), e) \in Fraction
      /\ Minus(Whole(p), e) = [num |-> p * e.den + (0 - e.num) * 1, den |-> 1 * e.den]
  BY <1>2, MinusTyped
<1>4. PICK x \in Int : x = p * e.den
  BY <1>1
<1>5. x + (0 - e.num) * 1 = x - e.num /\ 1 * e.den = e.den
  BY <1>1
<1>6. Minus(Whole(p), e) = [num |-> x - e.num, den |-> e.den]
  BY <1>3, <1>4, <1>5
<1> QED BY <1>3, <1>4, <1>6, TimesTyped DEF ProfitOf, Times

LEMMA ValuedTyped ==
  ASSUME NEW a \in Nat, NEW e \in Fraction, NEW r \in Fraction, NEW q \in Fraction
  PROVE  /\ Valued(a, e, r, q) \in Row
         /\ Valued(a, e, r, q).amount = a /\ Valued(a, e, r, q).entry = e
         /\ Valued(a, e, r, q).realized = r /\ Valued(a, e, r, q).current = q
         /\ Valued(a, e, r, q).unrealized = Times(a, Minus(q, e))
<1>1. Times(a, Minus(q, e)) \in Fraction
  BY MinusTyped, TimesTyped
<1> QED BY <1>1 DEF Valued, Row

-----------------------------------------------------------------------------
(***************************************************************************)
(* The profit and the average entry price                                  *)
(***************************************************************************)
(* The realized profit less the cost of what is held is the cash.          *)
Explained(a, e, r, cash) == Same(Minus(r, Times(a, e)), Whole(cash))

(* The same in integers, for a profit r/rd, an amount a bought at e/d on   *)
(* average, and m spent less received.                                     *)
Explains(r, rd, m, a, e, d) == (r + m * rd) * d = a * e * rd

LEMMA ExplainedMeans ==
  ASSUME NEW a \in Int, NEW e \in Fraction, NEW r \in Fraction, NEW cash \in Int
  PROVE  Explained(a, e, r, cash) <=> Explains(r.num, r.den, 0 - cash, a, e.num, e.den)
<1>1. e.num \in Int /\ e.den \in Int /\ r.num \in Int /\ r.den \in Int
  BY FractionFields
<1>2. Times(a, e) \in Fraction /\ Times(a, e).num = a * e.num /\ Times(a, e).den = e.den
  BY TimesTyped DEF Times
<1>3. Minus(r, Times(a, e)) =
        [num |-> r.num * e.den + (0 - a * e.num) * r.den, den |-> r.den * e.den]
  BY <1>2, MinusTyped
<1>4. Explained(a, e, r, cash) <=>
        (r.num * e.den + (0 - a * e.num) * r.den) * 1 = cash * (r.den * e.den)
  BY <1>3 DEF Explained, Same, Whole
<1> DEFINE R == r.num * e.den
           C == cash * (r.den * e.den)
           A == a * e.num * r.den
<1>5. R \in Int /\ C \in Int /\ A \in Int
  BY <1>1, ProductType
<1>6. (R + (0 - a * e.num) * r.den) * 1 = R - A
  BY <1>1
<1>7. (r.num + (0 - cash) * r.den) * e.den = R - C
  BY <1>1
<1>8. (R - A = C) <=> (R - C = A)
  <2> HIDE DEF R, C, A
  <2> QED BY <1>5
<1> QED BY <1>4, <1>6, <1>7, <1>8 DEF Explains

(* Buying n units at p: the money, the amount and the average grow.        *)
LEMMA AverageAdds ==
  ASSUME NEW r \in Int, NEW rd \in Int, NEW m \in Int, NEW a \in Int, NEW e \in Int,
         NEW d \in Int, NEW n \in Int, NEW p \in Int, Explains(r, rd, m, a, e, d)
  PROVE  Explains(r, rd, m + n * p, a + n, a * e + n * p * d, (a + n) * d)
<1> DEFINE w == n * p
           X == r + m * rd
<1>1. w \in Int /\ X \in Int
  OBVIOUS
<1>2. X * d = a * e * rd
  BY DEF Explains
<1>3. r + (m + w) * rd = X + w * rd
  <2>1. (m + w) * rd = m * rd + w * rd
    BY <1>1
  <2> HIDE DEF w
  <2> QED BY <1>1, <2>1
<1> HIDE DEF w, X
<1>4. (X + w * rd) * ((a + n) * d) = (a + n) * (X * d + w * rd * d)
  BY <1>1
<1>5. X * d + w * rd * d = (a * e + w * d) * rd
  BY <1>1, <1>2
<1>6. (a + n) * ((a * e + w * d) * rd) = (a + n) * (a * e + w * d) * rd
  BY <1>1
<1> QED BY <1>3, <1>4, <1>5, <1>6 DEF w, Explains

(* Selling n units at p.                                                   *)
LEMMA ProfitAdds ==
  ASSUME NEW r \in Int, NEW rd \in Int, NEW m \in Int, NEW a \in Int, NEW e \in Int,
         NEW d \in Int, NEW n \in Int, NEW p \in Int, Explains(r, rd, m, a, e, d)
  PROVE  Explains(r * d + (p * d - e) * n * rd, rd * d, m - n * p, a - n, e, d)
<1> DEFINE X == r + m * rd
           k == n * rd
           w == n * p
<1>1. X \in Int /\ k \in Int /\ w \in Int
  OBVIOUS
<1>2. X * d = a * e * rd
  BY DEF Explains
<1>3. (p * d - e) * n * rd = w * rd * d - e * k
  OBVIOUS
<1>4. (m - w) * (rd * d) = m * rd * d - w * rd * d
  BY <1>1
<1>5. (r * d + (p * d - e) * n * rd) + (m - w) * (rd * d) = X * d - e * k
  <2>1. X * d = r * d + m * rd * d
    OBVIOUS
  <2> DEFINE u == w * rd * d
             v == m * rd * d
             t == r * d
             z == e * k
  <2>2. u \in Int /\ v \in Int /\ t \in Int /\ z \in Int
    BY <1>1
  <2>3. t + (u - z) + (v - u) = t + v - z
    <3> HIDE DEF u, v, t, z
    <3> QED BY <2>2
  <2> QED BY <1>3, <1>4, <2>1, <2>3
<1> HIDE DEF X, w
<1>6. X * d - e * k = (a - n) * e * rd
  BY <1>1, <1>2
<1>7. ((a - n) * e * rd) * d = (a - n) * e * (rd * d)
  OBVIOUS
<1> QED BY <1>5, <1>6, <1>7 DEF w, Explains

LEMMA BuyExplained ==
  ASSUME NEW a \in Nat, NEW e \in Fraction, NEW r \in Fraction, NEW cash \in Int,
         NEW n \in Nat \ {0}, NEW p \in Nat, Explained(a, e, r, cash)
  PROVE  Explained(a + n, EntryAfter(a, e, n, p), r, cash - n * p)
<1>1. e.num \in Int /\ e.den \in Int /\ r.num \in Int /\ r.den \in Int
  BY FractionFields
<1>2. Explains(r.num, r.den, 0 - cash, a, e.num, e.den)
  BY ExplainedMeans
<1>3. Explains(r.num, r.den, (0 - cash) + n * p, a + n, a * e.num + n * p * e.den, (a + n) * e.den)
  <2>1. 0 - cash \in Int /\ a \in Int /\ n \in Int /\ p \in Int
    OBVIOUS
  <2> QED BY <1>1, <1>2, <2>1, AverageAdds
<1>4. (0 - cash) + n * p = 0 - (cash - n * p) /\ cash - n * p \in Int /\ a + n \in Int
  OBVIOUS
<1>5. PICK f \in Fraction : f = EntryAfter(a, e, n, p)
  BY EntryTyped
<1>6. f.num = a * e.num + n * p * e.den /\ f.den = (a + n) * e.den
  <2>1. PICK x, y : x = a * e.num + n * p * e.den /\ y = (a + n) * e.den
    OBVIOUS
  <2>2. f = [num |-> x, den |-> y]
    BY <1>5, <2>1, EntryTyped
  <2> QED BY <2>1, <2>2
<1>7. Explains(r.num, r.den, 0 - (cash - n * p), a + n, f.num, f.den)
  BY <1>3, <1>4, <1>6
<1> QED BY <1>4, <1>5, <1>7, ExplainedMeans

LEMMA SellExplained ==
  ASSUME NEW a \in Nat, NEW e \in Fraction, NEW r \in Fraction, NEW cash \in Int,
         NEW n \in Nat, NEW p \in Nat, Explained(a, e, r, cash)
  PROVE  /\ Plus(r, ProfitOf(e, n, p)) \in Fraction
         /\ Explained(a - n, e, Plus(r, ProfitOf(e, n, p)), cash + n * p)
<1>1. e.num \in Int /\ e.den \in Int /\ r.num \in Int /\ r.den \in Int
  BY FractionFields
<1>2. Explains(r.num, r.den, 0 - cash, a, e.num, e.den)
  BY ExplainedMeans
<1>3. Explains(r.num * e.den + (p * e.den - e.num) * n * r.den, r.den * e.den,
               (0 - cash) - n * p, a - n, e.num, e.den)
  <2>1. 0 - cash \in Int /\ a \in Int /\ n \in Int /\ p \in Int
    OBVIOUS
  <2> QED BY <1>1, <1>2, <2>1, ProfitAdds
<1>4. (0 - cash) - n * p = 0 - (cash + n * p) /\ cash + n * p \in Int /\ a - n \in Int
  OBVIOUS
<1>5. PICK g \in Fraction : g = Plus(r, ProfitOf(e, n, p))
  BY ProfitTyped, PlusTyped
<1>6. g.num = r.num * e.den + (p * e.den - e.num) * n * r.den /\ g.den = r.den * e.den
  <2>1. ProfitOf(e, n, p) = [num |-> n * (p * e.den - e.num), den |-> e.den]
    BY ProfitTyped
  <2>2. g = [num |-> r.num * e.den + (n * (p * e.den - e.num)) * r.den, den |-> r.den * e.den]
    BY <1>5, <2>1 DEF Plus
  <2>3. PICK k \in Int : k = p * e.den - e.num
    BY <1>1, ProductType
  <2>4. (n * k) * r.den = k * n * r.den
    BY <1>1
  <2> QED BY <2>2, <2>3, <2>4
<1>7. Explains(g.num, g.den, 0 - (cash + n * p), a - n, e.num, e.den)
  BY <1>3, <1>4, <1>6
<1> QED BY <1>4, <1>5, <1>7, ExplainedMeans

(* Equal entry prices stay equal, and a first purchase makes them so.      *)
LEMMA SameEntries ==
  ASSUME NEW a \in Nat, NEW e \in Fraction, NEW f \in Fraction, NEW n \in Nat \ {0},
         NEW p \in Nat, a = 0 \/ Same(e, f)
  PROVE  Same(EntryAfter(a, e, n, p), EntryAfter(a, f, n, p))
<1>1. PICK x \in Int, d \in Int, y \in Int, g \in Int :
        e.num = x /\ e.den = d /\ f.num = y /\ f.den = g
  BY FractionFields
<1>2. PICK w \in Int, c \in Int : w = n * p /\ c = a + n
  BY ProductType
<1>3. a * (x * g) = a * (y * d)
  BY <1>1 DEF Same
<1>4. (a * x + w * d) * (c * g) = c * (a * (x * g)) + c * w * d * g
  OBVIOUS
<1>5. (a * y + w * g) * (c * d) = c * (a * (y * d)) + c * w * d * g
  OBVIOUS
<1>6. /\ EntryAfter(a, e, n, p) = [num |-> a * x + w * d, den |-> c * d]
      /\ EntryAfter(a, f, n, p) = [num |-> a * y + w * g, den |-> c * g]
  BY <1>1, <1>2, EntryTyped
<1> QED BY <1>3, <1>4, <1>5, <1>6 DEF Same

(* The price of a first purchase is the average.                           *)
LEMMA FirstEntry ==
  ASSUME NEW e \in Fraction, NEW n \in Nat \ {0}, NEW p \in Nat
  PROVE  Same(EntryAfter(0, e, n, p), Whole(p))
<1>1. PICK x \in Int, d \in Int : e.num = x /\ e.den = d
  BY FractionFields
<1>2. EntryAfter(0, e, n, p) = [num |-> 0 * x + n * p * d, den |-> (0 + n) * d]
  BY <1>1, EntryTyped
<1>3. (0 * x + n * p * d) * 1 = p * ((0 + n) * d)
  OBVIOUS
<1> QED BY <1>2, <1>3 DEF Same, Whole

LEMMA FirstExplained ==
  ASSUME NEW n \in Nat, NEW p \in Nat
  PROVE  Explained(n, Whole(p), Whole(0), 0 - n * p)
<1>1. /\ Whole(p) \in Fraction /\ Whole(p).num = p /\ Whole(p).den = 1
      /\ Whole(0) \in Fraction /\ Whole(0).num = 0 /\ Whole(0).den = 1
  BY WholeTyped DEF Whole
<1>2. PICK w \in Int : w = n * p
  BY ProductType
<1>3. (0 + (0 - (0 - w)) * 1) * 1 = w /\ 0 - w \in Int
  OBVIOUS
<1>4. Explains(0, 1, 0 - (0 - w), n, p, 1)
  BY <1>2, <1>3 DEF Explains
<1> QED BY <1>1, <1>2, <1>3, <1>4, ExplainedMeans

LEMMA SameItself == ASSUME NEW e \in Fraction PROVE Same(e, e)
  BY DEF Same

-----------------------------------------------------------------------------
(***************************************************************************)
(* The book of the trades                                                  *)
(***************************************************************************)
BookTyped(b) ==
  /\ b = [amount |-> b.amount, entry |-> b.entry, realized |-> b.realized, ok |-> b.ok]
  /\ b.ok => b.amount \in Nat /\ b.entry \in Fraction /\ b.realized \in Fraction

Accounted(b, T) ==
  b.ok => b.amount = Net(T) /\ Explained(b.amount, b.entry, b.realized, CashFlow(T))

LEMMA BookedBuy ==
  ASSUME NEW b, BookTyped(b), NEW t, t.side = "buy"
  PROVE  /\ Booked(b, t).amount = b.amount + t.amount
         /\ Booked(b, t).entry = EntryAfter(b.amount, b.entry, t.amount, t.price)
         /\ Booked(b, t).realized = b.realized /\ (Booked(b, t).ok <=> b.ok)
         /\ Booked(b, t) = [amount |-> Booked(b, t).amount, entry |-> Booked(b, t).entry,
                            realized |-> Booked(b, t).realized, ok |-> Booked(b, t).ok]
<1>1. PICK a, e, r, o : b.amount = a /\ b.entry = e /\ b.realized = r /\ b.ok = o
  OBVIOUS
<1>2. b = [amount |-> a, entry |-> e, realized |-> r, ok |-> o]
  BY <1>1 DEF BookTyped
<1>3. PICK x, y : x = a + t.amount /\ y = EntryAfter(a, e, t.amount, t.price)
  OBVIOUS
<1>4. Booked(b, t) = [b EXCEPT !.amount = x, !.entry = y]
  BY <1>1, <1>3 DEF Booked
<1>5. Booked(b, t) = [amount |-> x, entry |-> y, realized |-> r, ok |-> o]
  BY <1>2, <1>4
<1> QED BY <1>1, <1>3, <1>5

LEMMA BookedSale ==
  ASSUME NEW b, NEW t, t.side = "sell"
  PROVE  /\ Booked(b, t).amount = b.amount - t.amount /\ Booked(b, t).entry = b.entry
         /\ Booked(b, t).realized = Plus(b.realized, ProfitOf(b.entry, t.amount, t.price))
         /\ Booked(b, t).ok <=> (b.ok /\ t.amount <= b.amount)
         /\ Booked(b, t) = [amount |-> Booked(b, t).amount, entry |-> Booked(b, t).entry,
                            realized |-> Booked(b, t).realized, ok |-> Booked(b, t).ok]
  BY DEF Booked

(* One more trade on a book that fits its trades.                          *)
LEMMA BookedFits ==
  ASSUME NEW b, NEW T, Log(T), BookTyped(b), Accounted(b, T), NEW t \in Trade, t \notin T
  PROVE  BookTyped(Booked(b, t)) /\ Accounted(Booked(b, t), T \cup {t})
<1>1. t.amount \in Nat \ {0} /\ t.price \in Nat /\ t.side \in {"buy", "sell"}
  BY TradeFields
<1>2. /\ Net(T) \in Int /\ CashFlow(T) \in Int
      /\ t.side = "buy" => /\ Net(T \cup {t}) = Net(T) + t.amount
                           /\ CashFlow(T \cup {t}) = CashFlow(T) - t.amount * t.price
      /\ t.side = "sell" => /\ Net(T \cup {t}) = Net(T) - t.amount
                            /\ CashFlow(T \cup {t}) = CashFlow(T) + t.amount * t.price
  BY NetGrows DEF Log
<1>3. CASE t.side = "buy"
  <2>1. BookTyped(Booked(b, t))
    <3>1. ASSUME b.ok
          PROVE  /\ b.amount + t.amount \in Nat /\ b.realized \in Fraction
                 /\ EntryAfter(b.amount, b.entry, t.amount, t.price) \in Fraction
      <4>1. b.amount \in Nat /\ b.entry \in Fraction /\ b.realized \in Fraction
        BY <3>1 DEF BookTyped
      <4>2. EntryAfter(b.amount, b.entry, t.amount, t.price) \in Fraction
        BY <1>1, <4>1, EntryTyped
      <4>3. b.amount + t.amount \in Nat
        BY <1>1, <4>1
      <4> QED BY <4>1, <4>2, <4>3
    <3> QED BY <1>3, <3>1, BookedBuy DEF BookTyped
  <2>2. ASSUME b.ok
        PROVE  /\ b.amount + t.amount = Net(T \cup {t})
               /\ Explained(b.amount + t.amount,
                            EntryAfter(b.amount, b.entry, t.amount, t.price), b.realized,
                            CashFlow(T \cup {t}))
    <3>1. /\ b.amount \in Nat /\ b.entry \in Fraction /\ b.realized \in Fraction
          /\ b.amount = Net(T) /\ Explained(b.amount, b.entry, b.realized, CashFlow(T))
      BY <2>2 DEF BookTyped, Accounted
    <3>2. Explained(b.amount + t.amount, EntryAfter(b.amount, b.entry, t.amount, t.price),
                    b.realized, CashFlow(T) - t.amount * t.price)
      BY <1>1, <1>2, <3>1, BuyExplained
    <3> QED BY <1>2, <1>3, <3>1, <3>2
  <2> QED BY <1>3, <2>1, <2>2, BookedBuy DEF Accounted
<1>4. CASE t.side = "sell"
  <2>1. ASSUME b.ok, t.amount <= b.amount
        PROVE  /\ b.amount - t.amount = Net(T \cup {t}) /\ b.amount - t.amount \in Nat
               /\ b.entry \in Fraction
               /\ Plus(b.realized, ProfitOf(b.entry, t.amount, t.price)) \in Fraction
               /\ Explained(b.amount - t.amount, b.entry,
                            Plus(b.realized, ProfitOf(b.entry, t.amount, t.price)),
                            CashFlow(T \cup {t}))
    <3>1. /\ b.amount \in Nat /\ b.entry \in Fraction /\ b.realized \in Fraction
          /\ b.amount = Net(T) /\ Explained(b.amount, b.entry, b.realized, CashFlow(T))
      BY <2>1 DEF BookTyped, Accounted
    <3>2. /\ Plus(b.realized, ProfitOf(b.entry, t.amount, t.price)) \in Fraction
          /\ Explained(b.amount - t.amount, b.entry,
                       Plus(b.realized, ProfitOf(b.entry, t.amount, t.price)),
                       CashFlow(T) + t.amount * t.price)
      BY <1>1, <1>2, <3>1, SellExplained
    <3>3. b.amount - t.amount \in Nat
      BY <1>1, <2>1, <3>1
    <3> QED BY <1>2, <1>4, <3>1, <3>2, <3>3
  <2> QED BY <1>4, <2>1, BookedSale DEF BookTyped, Accounted
<1> QED BY <1>1, <1>3, <1>4

LEMMA EmptyBookFits == BookTyped(EmptyBook) /\ Accounted(EmptyBook, {})
<1>1. /\ EmptyBook.amount = 0 /\ EmptyBook.entry = Whole(0) /\ EmptyBook.realized = Whole(0)
      /\ EmptyBook = [amount |-> EmptyBook.amount, entry |-> EmptyBook.entry,
                      realized |-> EmptyBook.realized, ok |-> EmptyBook.ok]
  BY DEF EmptyBook
<1>2. Explained(0, Whole(0), Whole(0), 0)
  <2>1. 0 - 0 * 0 = 0
    OBVIOUS
  <2> QED BY <2>1, FirstExplained
<1> QED BY <1>1, <1>2, NoNet, WholeTyped DEF BookTyped, Accounted

(* A rebuild that does not fail gives what was bought and not sold, and    *)
(* the profit that explains the cash.                                      *)
LEMMA BookFits ==
  ASSUME NEW T, Log(T)
  PROVE  BookTyped(BookAfter(T)) /\ Accounted(BookAfter(T), T)
<1> DEFINE Fits(U) == BookTyped(BookAfter(U)) /\ Accounted(BookAfter(U), U)
           F == {U \in SUBSET T : ~Fits(U)}
<1>1. SUFFICES ASSUME F # {} PROVE FALSE
  OBVIOUS
<1>2. PICK U \in F : \A W \in F : W \subseteq U => W = U
  <2>1. F \subseteq SUBSET T /\ IsFiniteSet(T)
    BY DEF Log
  <2> HIDE DEF F
  <2> QED BY <1>1, <2>1, Smallest
<1>3. CASE U = {}
  BY <1>2, <1>3, LogsOf, BookGrows, EmptyBookFits
<1>4. CASE U # {}
  <2>1. PICK t : t = Latest(U)
    OBVIOUS
  <2>2. /\ t \in U /\ t \in Trade /\ Log(U) /\ Log(U \ {t})
        /\ BookAfter(U) = Booked(BookAfter(U \ {t}), t)
    <3>1. Log(U)
      BY LogsOf
    <3> QED BY <1>4, <2>1, <3>1, BookGrows, LogsOf DEF Log
  <2>3. Fits(U \ {t})
    BY <1>2, <2>2
  <2>4. U = (U \ {t}) \cup {t} /\ t \notin U \ {t}
    BY <2>2
  <2>5. Fits(U)
    <3>1. PICK V : V = U \ {t}
      OBVIOUS
    <3>2. BookTyped(BookAfter(V)) /\ Accounted(BookAfter(V), V)
      BY <2>3, <3>1
    <3>3. /\ BookTyped(Booked(BookAfter(V), t))
          /\ Accounted(Booked(BookAfter(V), t), V \cup {t})
      BY <2>2, <2>4, <3>1, <3>2, BookedFits
    <3> QED BY <2>2, <2>4, <3>1, <3>3
  <2> QED BY <1>2, <2>5
<1> QED BY <1>3, <1>4

-----------------------------------------------------------------------------
(***************************************************************************)
(* The inductive invariant                                                 *)
(***************************************************************************)
(* While the trades' times agree with their ids, the rebuild follows the   *)
(* row of the table fill by fill.                                          *)
Tracks(s) ==
  /\ Book(s).ok
  /\ s \in DOMAIN positions /\ positions[s].amount > 0 =>
       Same(Book(s).entry, positions[s].entry)

BooksInv ==
  /\ BooksTypeOK
  /\ Log(trades) /\ \A t \in trades : t.id <= Cardinality(trades)
  /\ HoldingIsNet
  /\ ProfitIsCashFlow
  /\ Traded \subseteq DOMAIN positions \cup lost
  /\ InOrder => \A s \in Symbol : Tracks(s)
  /\ ValuationIsConsistent

LEMMA RowFields ==
  ASSUME NEW row \in Row
  PROVE  /\ row.amount \in Nat /\ row.entry \in Fraction /\ row.realized \in Fraction
         /\ row.current \in Fraction /\ row.unrealized \in Fraction
         /\ row = [amount |-> row.amount, entry |-> row.entry, realized |-> row.realized,
                   current |-> row.current, unrealized |-> row.unrealized]
  BY DEF Row

LEMMA RowOf ==
  ASSUME BooksTypeOK, NEW s \in DOMAIN positions
  PROVE  positions[s] \in Row /\ s \in Symbol
  BY DEF BooksTypeOK, Tables

(* Steps that leave amounts, entries and realized profits alone.           *)
LEMMA QuietTrades ==
  ASSUME BooksInv, trades' = trades, lost' = lost, DOMAIN positions' = DOMAIN positions,
         \A s \in DOMAIN positions : /\ positions'[s].amount = positions[s].amount
                                     /\ positions'[s].entry = positions[s].entry
                                     /\ positions'[s].realized = positions[s].realized
  PROVE  /\ (Log(trades) /\ \A t \in trades : t.id <= Cardinality(trades))'
         /\ HoldingIsNet' /\ ProfitIsCashFlow'
         /\ (Traded \subseteq DOMAIN positions \cup lost)'
         /\ (InOrder => \A s \in Symbol : Tracks(s))'
<1>1. /\ \A s : TradesOf(s)' = TradesOf(s)
      /\ Traded' = Traded /\ (InOrder' <=> InOrder)
  BY DEF TradesOf, Traded, InOrder
<1>2. HoldingIsNet'
  BY <1>1 DEF BooksInv, HoldingIsNet
<1>3. ProfitIsCashFlow'
  BY <1>1 DEF BooksInv, ProfitIsCashFlow
<1>4. ASSUME InOrder', NEW s \in Symbol PROVE Tracks(s)'
  <2>1. Tracks(s)
    BY <1>1, <1>4 DEF BooksInv
  <2>2. Book(s)' = Book(s)
    BY <1>1 DEF Book
  <2> QED BY <2>1, <2>2 DEF Tracks
<1> QED BY <1>1, <1>2, <1>3, <1>4 DEF BooksInv

LEMMA BooksAtInit == BooksInit => BooksInv
<1> SUFFICES ASSUME BooksInit PROVE BooksInv
  OBVIOUS
<1> USE DEF BooksInit
<1>1. DOMAIN NoRows = {} /\ NoRows \in [{} -> Row] /\ Tables(NoRows)
  BY DEF NoRows, Tables
<1>2. BooksTypeOK
  BY <1>1, NumberAssumption DEF BooksTypeOK
<1>3. Log(trades) /\ \A t \in trades : t.id <= Cardinality(trades)
  BY FS_EmptySet DEF Log
<1>4. \A s : TradesOf(s) = {}
  BY DEF TradesOf
<1>5. HoldingIsNet /\ ProfitIsCashFlow /\ ValuationIsConsistent
  BY <1>1, <1>4, NoNet DEF HoldingIsNet, ProfitIsCashFlow, ValuationIsConsistent
<1>6. Log({})
  BY FS_EmptySet DEF Log
<1>7. ASSUME NEW s \in Symbol PROVE Tracks(s)
  <2>1. BookAfter({}) = EmptyBook
    BY <1>6, BookGrows
  <2>2. Book(s) = EmptyBook
    BY <1>4, <2>1 DEF Book
  <2>3. EmptyBook.ok
    BY DEF EmptyBook
  <2>4. s \notin DOMAIN positions
    BY <1>1
  <2> QED BY <2>2, <2>3, <2>4 DEF Tracks
<1> QED BY <1>2, <1>3, <1>5, <1>7 DEF BooksInv, Traded

-----------------------------------------------------------------------------
(***************************************************************************)
(* Fills                                                                   *)
(***************************************************************************)
(* The trade of a fill is the last by its id.                              *)
LEMMA FillLog ==
  ASSUME BooksInv, NEW p \in Process, NEW s \in Symbol, NEW side \in {"buy", "sell"},
         NEW n \in Amount, NEW price \in Price, Fill(p, s, side, n, price)
  PROVE  \E t \in Trade :
           /\ t.symbol = s /\ t.side = side /\ t.amount = n /\ t.price = price
           /\ t \notin trades /\ trades' = trades \cup {t}
           /\ \A u \in trades : u.id < t.id
           /\ (Log(trades) /\ \A u \in trades : u.id <= Cardinality(trades))'
           /\ TradesOf(s)' = TradesOf(s) \cup {t}
           /\ \A x \in Symbol : x # s => TradesOf(x)' = TradesOf(x)
           /\ InOrder' => InOrder /\ \A u \in TradesOf(s) : Earlier(u, t)
<1>1. PICK c : c = Cardinality(trades)
  OBVIOUS
<1>2. /\ c \in Nat /\ c < MaxTrades /\ MaxTrades \in Nat /\ MaxTime \in Nat
      /\ asked[p] \in 0..MaxTime /\ asked[p] > 0
  <2>1. IsFiniteSet(trades)
    BY DEF BooksInv, Log
  <2> QED BY <1>1, <2>1, FS_CardinalityType, NumberAssumption DEF Fill, BooksInv, BooksTypeOK
<1>3. PICK t : t = [id |-> c + 1, symbol |-> s, side |-> side, amount |-> n, price |-> price,
                    at |-> asked[p]]
  OBVIOUS
<1>4. /\ t.id = c + 1 /\ t.symbol = s /\ t.side = side /\ t.amount = n /\ t.price = price
      /\ t \in Trade
  <2>1. c + 1 \in 1..MaxTrades /\ asked[p] \in 1..MaxTime
    BY <1>2
  <2> QED BY <1>3, <2>1 DEF Trade
<1>5. trades' = trades \cup {t}
  BY <1>1, <1>3 DEF Fill
<1>6. \A u \in trades : u \in Trade /\ u.id \in Nat /\ u.at \in Int /\ u.id <= c
  <2>1. \A u \in trades : u \in Trade /\ u.id <= c
    BY <1>1 DEF BooksInv, Log
  <2>2. \A u \in trades : u.id \in 1..MaxTrades /\ u.at \in 1..MaxTime
    BY <2>1, TradeFields
  <2> QED BY <2>1, <2>2
<1>7. \A u \in trades : u.id < t.id
  BY <1>2, <1>4, <1>6
<1>8. t \notin trades
  BY <1>2, <1>4, <1>7
<1>9. IsFiniteSet(trades') /\ Cardinality(trades') = c + 1
  BY <1>1, <1>5, <1>8, FS_AddElement DEF BooksInv, Log
<1>10. Log(trades')
  <2>1. ASSUME NEW u \in trades', NEW v \in trades', u.id = v.id PROVE u = v
    <3>1. u \in trades /\ v \in trades => u = v
      BY <2>1 DEF BooksInv, Log
    <3>2. ~(u = t /\ v \in trades) /\ ~(v = t /\ u \in trades)
      BY <1>2, <1>4, <1>6, <1>7, <2>1
    <3> QED BY <1>5, <3>1, <3>2
  <2> QED BY <1>4, <1>5, <1>6, <1>9, <2>1 DEF Log
<1>11. \A u \in trades' : u.id <= Cardinality(trades')
  BY <1>2, <1>4, <1>5, <1>6, <1>9
<1>12. /\ TradesOf(s)' = TradesOf(s) \cup {t}
       /\ \A x \in Symbol : x # s => TradesOf(x)' = TradesOf(x)
  BY <1>4, <1>5 DEF TradesOf
<1>13. ASSUME InOrder' PROVE InOrder /\ \A u \in TradesOf(s) : Earlier(u, t)
  <2>1. \A u, v \in trades' : u.id < v.id => u.at <= v.at
    BY <1>13 DEF InOrder
  <2>2. InOrder
    BY <1>5, <2>1 DEF InOrder
  <2>3. ASSUME NEW u \in TradesOf(s) PROVE Earlier(u, t)
    <3>1. u \in trades /\ u.id < t.id
      BY <1>7 DEF TradesOf
    <3>2. u.at <= t.at
      BY <1>5, <2>1, <3>1
    <3>3. t.at = asked[p] /\ asked[p] \in Int /\ u.at \in Int
      BY <1>2, <1>3, <1>6, <3>1
    <3> QED BY <3>1, <3>2, <3>3 DEF Earlier
  <2> QED BY <2>2, <2>3
<1> QED BY <1>4, <1>5, <1>7, <1>8, <1>10, <1>11, <1>12, <1>13

(* What is held and paid before a fill, also where there is no row.        *)
HeldOf(s) == IF s \in DOMAIN positions THEN positions[s].amount ELSE 0

(* The row of a fill.                                                      *)
FilledRow(s, side, n, price) == IF side = "buy" THEN Bought(s, n, price) ELSE Sold(s, n, price)

LEMMA FilledRowIs ==
  ASSUME BooksInv, NEW s \in Symbol, NEW side \in {"buy", "sell"}, NEW n \in Amount,
         NEW price \in Price, side = "sell" => CanSell(s, n),
         NEW row, row = FilledRow(s, side, n, price)
  PROVE  /\ row \in Row
         /\ row.amount = IF side = "buy" THEN HeldOf(s) + n ELSE HeldOf(s) - n
         /\ row.unrealized = Times(row.amount, Minus(row.current, row.entry))
         /\ side = "sell" => row.entry = positions[s].entry
         /\ side = "buy" => row.entry = IF s \in DOMAIN positions
                              THEN EntryAfter(positions[s].amount, positions[s].entry, n, price)
                              ELSE Whole(price)
         /\ s \notin lost =>
              Explained(row.amount, row.entry, row.realized,
                        CashFlow(TradesOf(s)) + (IF side = "buy" THEN 0 - n * price
                                                                 ELSE n * price))
<1>1. n \in Nat \ {0} /\ n \in Nat /\ price \in Nat /\ price \in Int /\ Whole(price) \in Fraction
      /\ Whole(0) \in Fraction
  BY NumberAssumption, WholeTyped
<1>2. BooksTypeOK
  BY DEF BooksInv
<1>3. PICK w \in Int : w = n * price
  BY <1>1, ProductType
<1>4. PICK cash \in Int : cash = CashFlow(TradesOf(s))
  <2>1. Log(TradesOf(s))
    BY LogsOf DEF BooksInv, TradesOf
  <2>2. /\ IsFiniteSet(Buys(TradesOf(s))) /\ Buys(TradesOf(s)) \subseteq Trade
        /\ IsFiniteSet(Sales(TradesOf(s))) /\ Sales(TradesOf(s)) \subseteq Trade
    BY <2>1, FS_Subset DEF Log, Buys, Sales
  <2>3. Trade = {} => TradesOf(s) = {}
    BY <2>1 DEF Log
  <2>4. Trade # {} => Worth(Buys(TradesOf(s))) \in Nat /\ Worth(Sales(TradesOf(s))) \in Nat
    BY <2>2, AmountsGrow
  <2> QED BY <2>3, <2>4, NoNet DEF CashFlow
<1>5. CASE side = "buy" /\ s \notin DOMAIN positions
  <2>1. row = Valued(n, Whole(price), Whole(0), Whole(price)) /\ HeldOf(s) = 0
    BY <1>5 DEF FilledRow, Bought, HeldOf
  <2>2. /\ row \in Row /\ row.amount = n /\ row.entry = Whole(price) /\ row.realized = Whole(0)
        /\ row.current = Whole(price)
        /\ row.unrealized = Times(row.amount, Minus(row.current, row.entry))
    BY <1>1, <2>1, ValuedTyped
  <2>3. ASSUME s \notin lost PROVE Explained(row.amount, row.entry, row.realized, cash + (0 - w))
    <3>1. TradesOf(s) = {}
      BY <1>5, <2>3 DEF BooksInv, Traded, TradesOf
    <3>2. cash = 0 /\ cash + (0 - w) = 0 - w
      BY <1>4, <3>1, NoNet
    <3> QED BY <1>1, <1>3, <2>2, <3>2, FirstExplained
  <2> QED BY <1>1, <1>3, <1>4, <1>5, <2>1, <2>2, <2>3
<1>6. CASE side = "buy" /\ s \in DOMAIN positions
  <2>1. PICK old \in Row : old = positions[s]
    BY <1>2, <1>6, RowOf
  <2>2. old.amount \in Nat /\ old.entry \in Fraction /\ old.realized \in Fraction
    BY RowFields
  <2>3. /\ row = Valued(old.amount + n, EntryAfter(old.amount, old.entry, n, price),
                        old.realized, Whole(price))
        /\ HeldOf(s) = old.amount
    BY <1>6, <2>1 DEF FilledRow, Bought, HeldOf
  <2>4. EntryAfter(old.amount, old.entry, n, price) \in Fraction
    BY <1>1, <2>2, EntryTyped
  <2>5. /\ row \in Row /\ row.amount = old.amount + n
        /\ row.entry = EntryAfter(old.amount, old.entry, n, price)
        /\ row.realized = old.realized /\ row.current = Whole(price)
        /\ row.unrealized = Times(row.amount, Minus(row.current, row.entry))
    <3>1. PICK a \in Nat : a = old.amount + n
      BY <1>1, <2>2
    <3>2. PICK e \in Fraction : e = EntryAfter(old.amount, old.entry, n, price)
      BY <2>4
    <3>3. PICK r \in Fraction : r = old.realized
      BY <2>2
    <3>4. PICK q \in Fraction : q = Whole(price)
      BY <1>1
    <3>5. row = Valued(a, e, r, q)
      BY <2>3, <3>1, <3>2, <3>3, <3>4
    <3>6. /\ row \in Row /\ row.amount = a /\ row.entry = e /\ row.realized = r
          /\ row.current = q /\ row.unrealized = Times(a, Minus(q, e))
      BY <3>5, ValuedTyped
    <3> QED BY <3>1, <3>2, <3>3, <3>4, <3>6
  <2>6. ASSUME s \notin lost PROVE Explained(row.amount, row.entry, row.realized, cash + (0 - w))
    <3>1. Explained(old.amount, old.entry, old.realized, cash)
      BY <1>4, <1>6, <2>1, <2>6 DEF BooksInv, ProfitIsCashFlow, Explained
    <3>2. Explained(row.amount, row.entry, row.realized, cash - n * price)
      BY <1>1, <2>2, <2>5, <3>1, BuyExplained
    <3>3. cash - w = cash + (0 - w)
      OBVIOUS
    <3> QED BY <1>3, <3>2, <3>3
  <2> QED BY <1>3, <1>4, <1>6, <2>1, <2>3, <2>5, <2>6
<1>7. CASE side = "sell"
  <2>0. s \in DOMAIN positions /\ positions[s].amount >= n
    BY <1>7 DEF CanSell
  <2>1. PICK old \in Row : old = positions[s]
    BY <1>2, <2>0, RowOf
  <2>2. old.amount \in Nat /\ old.entry \in Fraction /\ old.realized \in Fraction
    BY RowFields
  <2>3. /\ row = Valued(old.amount - n, old.entry,
                        Plus(old.realized, ProfitOf(old.entry, n, price)), Whole(price))
        /\ HeldOf(s) = old.amount
    BY <1>7, <2>0, <2>1 DEF FilledRow, Sold, HeldOf
  <2>4. Plus(old.realized, ProfitOf(old.entry, n, price)) \in Fraction
    BY <1>1, <2>2, ProfitTyped, PlusTyped
  <2>5. /\ row \in Row /\ row.amount = old.amount - n /\ row.entry = old.entry
        /\ row.realized = Plus(old.realized, ProfitOf(old.entry, n, price))
        /\ row.current = Whole(price)
        /\ row.unrealized = Times(row.amount, Minus(row.current, row.entry))
    <3>1. PICK a \in Nat : a = old.amount - n
      BY <1>1, <2>0, <2>1, <2>2
    <3>2. PICK e \in Fraction : e = old.entry
      BY <2>2
    <3>3. PICK r \in Fraction : r = Plus(old.realized, ProfitOf(old.entry, n, price))
      BY <2>4
    <3>4. PICK q \in Fraction : q = Whole(price)
      BY <1>1
    <3>5. row = Valued(a, e, r, q)
      BY <2>3, <3>1, <3>2, <3>3, <3>4
    <3>6. /\ row \in Row /\ row.amount = a /\ row.entry = e /\ row.realized = r
          /\ row.current = q /\ row.unrealized = Times(a, Minus(q, e))
      BY <3>5, ValuedTyped
    <3> QED BY <3>1, <3>2, <3>3, <3>4, <3>6
  <2>6. ASSUME s \notin lost PROVE Explained(row.amount, row.entry, row.realized, cash + w)
    <3>1. Explained(old.amount, old.entry, old.realized, cash)
      BY <1>4, <2>0, <2>1, <2>6 DEF BooksInv, ProfitIsCashFlow, Explained
    <3> QED BY <1>1, <1>3, <2>2, <2>5, <3>1, SellExplained
  <2>7. side # "buy"
    BY <1>7
  <2> QED BY <1>3, <1>4, <1>7, <2>1, <2>3, <2>5, <2>6, <2>7
<1> QED BY <1>5, <1>6, <1>7

(* The rebuild follows a fill.                                             *)
LEMMA FillTracks ==
  ASSUME BooksInv, InOrder, NEW s \in Symbol, NEW side \in {"buy", "sell"}, NEW n \in Amount,
         NEW price \in Price, side = "sell" => CanSell(s, n),
         NEW row, row = FilledRow(s, side, n, price),
         NEW t \in Trade, t.symbol = s, t.side = side, t.amount = n, t.price = price,
         t \notin trades, \A u \in TradesOf(s) : Earlier(u, t),
         Log(TradesOf(s) \cup {t})
  PROVE  LET b == BookAfter(TradesOf(s) \cup {t}) IN
         b.ok /\ (row.amount > 0 => Same(b.entry, row.entry))
<1>1. PICK T : T = TradesOf(s)
  OBVIOUS
<1>2. PICK b : b = BookAfter(T)
  OBVIOUS
<1>3. /\ row \in Row /\ row.amount = IF side = "buy" THEN HeldOf(s) + n ELSE HeldOf(s) - n
      /\ side = "sell" => row.entry = positions[s].entry
      /\ side = "buy" => row.entry = IF s \in DOMAIN positions
                           THEN EntryAfter(positions[s].amount, positions[s].entry, n, price)
                           ELSE Whole(price)
  BY FilledRowIs
<1>4. Log(T) /\ t \notin T
  <2>1. TradesOf(s) \subseteq TradesOf(s) \cup {t}
    OBVIOUS
  <2> QED BY <1>1, <2>1, LogsOf DEF TradesOf
<1>5. BookAfter(T \cup {t}) = Booked(b, t)
  <2>1. (T \cup {t}) \ {t} = T
    BY <1>4
  <2>2. Latest(T \cup {t}) = t
    BY <1>1, <2>1, LatestIs
  <2> QED BY <1>1, <1>2, <2>1, <2>2, BookGrows
<1>6. /\ b.ok /\ b.amount \in Nat /\ b.entry \in Fraction /\ b.amount = HeldOf(s)
      /\ BookTyped(b)
      /\ s \in DOMAIN positions /\ positions[s].amount > 0 => Same(b.entry, positions[s].entry)
  <2>1. /\ b.ok
        /\ s \in DOMAIN positions /\ positions[s].amount > 0 =>
             Same(b.entry, positions[s].entry)
    BY <1>1, <1>2 DEF BooksInv, Tracks, Book
  <2>2. BookTyped(b) /\ b.amount = Net(T)
    BY <1>2, <1>4, <2>1, BookFits DEF Accounted
  <2>3. Net(T) = HeldOf(s)
    BY <1>1 DEF BooksInv, HoldingIsNet, HeldOf
  <2> QED BY <2>1, <2>2, <2>3 DEF BookTyped
<1>7. n \in Nat \ {0} /\ price \in Nat
  BY NumberAssumption
<1>8. ASSUME s \in DOMAIN positions
      PROVE  positions[s].amount \in Nat /\ positions[s].entry \in Fraction
             /\ HeldOf(s) = positions[s].amount
  BY <1>8, RowOf, RowFields DEF BooksInv, HeldOf
<1>9. CASE side = "buy"
  <2>1. /\ Booked(b, t).ok
        /\ Booked(b, t).entry = EntryAfter(b.amount, b.entry, n, price)
    BY <1>6, <1>9, BookedBuy
  <2>2. Same(EntryAfter(b.amount, b.entry, n, price), row.entry)
    <3>1. CASE s \in DOMAIN positions
      <4>1. b.amount = positions[s].amount /\ (b.amount = 0 \/ Same(b.entry, positions[s].entry))
        BY <1>6, <1>8, <3>1
      <4> QED BY <1>3, <1>6, <1>7, <1>8, <1>9, <3>1, <4>1, SameEntries
    <3>2. CASE s \notin DOMAIN positions
      <4>1. b.amount = 0
        BY <1>6, <3>2 DEF HeldOf
      <4> QED BY <1>3, <1>6, <1>7, <1>9, <3>2, <4>1, FirstEntry
    <3> QED BY <3>1, <3>2
  <2> QED BY <1>1, <1>5, <2>1, <2>2
<1>10. CASE side = "sell"
  <2>1. s \in DOMAIN positions /\ n <= positions[s].amount
    BY <1>7, <1>8, <1>10 DEF CanSell
  <2>2. /\ Booked(b, t).ok <=> (b.ok /\ n <= b.amount)
        /\ Booked(b, t).entry = b.entry
    BY <1>10, BookedSale
  <2>3. Booked(b, t).ok
    BY <1>6, <1>8, <2>1, <2>2
  <2>4. row.amount > 0 => positions[s].amount > 0
    <3>1. row.amount = positions[s].amount - n
      BY <1>3, <1>8, <1>10, <2>1
    <3> QED BY <1>7, <1>8, <2>1, <3>1
  <2> QED BY <1>1, <1>3, <1>5, <1>6, <1>10, <2>1, <2>2, <2>3, <2>4
<1> QED BY <1>9, <1>10

LEMMA FillStep ==
  ASSUME BooksInv, NEW p \in Process, NEW s \in Symbol, NEW side \in {"buy", "sell"},
         NEW n \in Amount, NEW price \in Price, Fill(p, s, side, n, price)
  PROVE  BooksInv'
<1>1. PICK t \in Trade :
        /\ t.symbol = s /\ t.side = side /\ t.amount = n /\ t.price = price
        /\ t \notin trades /\ trades' = trades \cup {t}
        /\ (Log(trades) /\ \A u \in trades : u.id <= Cardinality(trades))'
        /\ TradesOf(s)' = TradesOf(s) \cup {t}
        /\ \A x \in Symbol : x # s => TradesOf(x)' = TradesOf(x)
        /\ InOrder' => InOrder /\ \A u \in TradesOf(s) : Earlier(u, t)
  BY FillLog
<1>2. side = "sell" => CanSell(s, n)
  BY DEF Fill
<1>3. PICK row : row = FilledRow(s, side, n, price)
  OBVIOUS
<1>4. /\ row \in Row
      /\ row.amount = IF side = "buy" THEN HeldOf(s) + n ELSE HeldOf(s) - n
      /\ row.unrealized = Times(row.amount, Minus(row.current, row.entry))
      /\ s \notin lost =>
           Explained(row.amount, row.entry, row.realized,
                     CashFlow(TradesOf(s)) + (IF side = "buy" THEN 0 - n * price
                                                              ELSE n * price))
  BY <1>2, <1>3, FilledRowIs
<1>5. /\ DOMAIN positions' = DOMAIN positions \cup {s} /\ positions'[s] = row
      /\ \A x \in DOMAIN positions : x # s => positions'[x] = positions[x]
      /\ positions' = [x \in DOMAIN positions \cup {s} |-> IF x # s THEN positions[x] ELSE row]
  <2>1. positions' = [x \in DOMAIN positions \cup {s} |-> IF x # s THEN positions[x] ELSE row]
    BY <1>3 DEF Fill, FilledRow
  <2> QED BY <2>1
<1>6. UNCHANGED <<now, asked, loaded, lost>> /\ raced' = raced \ {s}
  BY DEF Fill
<1>7. BooksTypeOK'
  <2>1. Tables(positions)'
    <3>1. \A x \in DOMAIN positions : positions[x] \in Row /\ x \in Symbol
      BY RowOf DEF BooksInv
    <3>2. positions' \in [DOMAIN positions \cup {s} -> Row]
      BY <1>4, <1>5, <3>1
    <3> QED BY <1>5, <3>1, <3>2 DEF Tables
  <2> QED BY <1>1, <1>6, <2>1 DEF BooksInv, BooksTypeOK
<1>8. /\ IsFiniteSet(TradesOf(s)) /\ TradesOf(s) \subseteq Trade /\ t \notin TradesOf(s)
      /\ Log(TradesOf(s)')
  <2>1. Log(TradesOf(s))
    BY LogsOf DEF BooksInv, TradesOf
  <2>2. Log(trades')
    BY <1>1
  <2>3. TradesOf(s)' \subseteq trades'
    BY DEF TradesOf
  <2> QED BY <1>1, <2>1, <2>2, <2>3, LogsOf DEF Log, TradesOf
<1>9. HoldingIsNet'
  <2>1. ASSUME NEW x \in Symbol, x # s
        PROVE  Net(TradesOf(x)') = IF x \in DOMAIN positions' THEN positions'[x].amount ELSE 0
    BY <1>1, <1>5, <2>1 DEF BooksInv, HoldingIsNet
  <2>2. Net(TradesOf(s)') = row.amount
    <3>1. Net(TradesOf(s)) = HeldOf(s)
      BY DEF BooksInv, HoldingIsNet, HeldOf
    <3> QED BY <1>1, <1>4, <1>8, <3>1, NetGrows
  <2> QED BY <1>5, <2>1, <2>2 DEF HoldingIsNet
<1>10. ProfitIsCashFlow'
  <2>1. ASSUME NEW x \in DOMAIN positions' \ lost', x # s
        PROVE  Same(Minus(positions'[x].realized, Times(positions'[x].amount, positions'[x].entry)),
                    Whole(CashFlow(TradesOf(x)')))
    <3>1. x \in DOMAIN positions \ lost /\ positions'[x] = positions[x]
      BY <1>5, <1>6, <2>1
    <3>2. TradesOf(x)' = TradesOf(x)
      BY <1>1, <2>1, <3>1, RowOf DEF BooksInv
    <3> QED BY <3>1, <3>2 DEF BooksInv, ProfitIsCashFlow
  <2>2. ASSUME s \notin lost
        PROVE  Explained(row.amount, row.entry, row.realized, CashFlow(TradesOf(s)'))
    <3>1. PICK w \in Int : w = n * price
      BY NumberAssumption, ProductType
    <3>2. PICK cash \in Int : cash = CashFlow(TradesOf(s))
      BY <1>8, NetGrows
    <3>3. CashFlow(TradesOf(s)') = IF side = "buy" THEN cash - w ELSE cash + w
      BY <1>1, <1>8, <3>1, <3>2, NetGrows
    <3>4. cash - w = cash + (0 - w)
      OBVIOUS
    <3> QED BY <1>4, <2>2, <3>1, <3>2, <3>3, <3>4
  <2> QED BY <1>5, <1>6, <2>1, <2>2 DEF ProfitIsCashFlow, Explained
<1>11. (Traded \subseteq DOMAIN positions \cup lost)'
  BY <1>1, <1>5, <1>6 DEF BooksInv, Traded
<1>12. ASSUME InOrder', NEW x \in Symbol PROVE Tracks(x)'
  <2>1. InOrder /\ \A u \in TradesOf(s) : Earlier(u, t)
    BY <1>1, <1>12
  <2>2. CASE x # s
    <3>1. Tracks(x)
      BY <2>1 DEF BooksInv
    <3>2. Book(x)' = Book(x)
      BY <1>1, <2>2 DEF Book
    <3>3. /\ x \in DOMAIN positions' <=> x \in DOMAIN positions
          /\ x \in DOMAIN positions => positions'[x] = positions[x]
      BY <1>5, <2>2
    <3> QED BY <3>1, <3>2, <3>3 DEF Tracks
  <2>3. CASE x = s
    <3>1. PICK b : b = BookAfter(TradesOf(s) \cup {t})
      OBVIOUS
    <3>2. b.ok /\ (row.amount > 0 => Same(b.entry, row.entry))
      BY <1>1, <1>2, <1>3, <1>8, <2>1, <3>1, FillTracks
    <3>3. Book(s)' = b
      BY <1>1, <3>1 DEF Book
    <3> QED BY <1>5, <2>3, <3>2, <3>3 DEF Tracks
  <2> QED BY <2>2, <2>3
<1>13. ValuationIsConsistent'
  <2>1. Same(row.unrealized, Times(row.amount, Minus(row.current, row.entry)))
    BY <1>4, RowFields, SameItself
  <2>2. ASSUME NEW x \in DOMAIN positions' \ raced', x # s
        PROVE  x \in DOMAIN positions \ raced /\ positions'[x] = positions[x]
    BY <1>5, <1>6, <2>2
  <2> QED BY <1>5, <2>1, <2>2 DEF BooksInv, ValuationIsConsistent
<1> QED BY <1>1, <1>7, <1>9, <1>10, <1>11, <1>12, <1>13 DEF BooksInv

-----------------------------------------------------------------------------
(***************************************************************************)
(* Valuations and rebuilds                                                 *)
(***************************************************************************)
LEMMA NoRowsTyped == Tables(NoRows) /\ DOMAIN NoRows = {}
  BY DEF NoRows, Tables

LEMMA AskStep == ASSUME BooksInv, NEW p \in Process, Ask(p) PROVE BooksInv'
<1>1. UNCHANGED <<trades, positions, loaded, lost, raced>>
  BY DEF Ask
<1>2. BooksTypeOK'
  <2>1. PICK t \in {now, now + 1} \cap 1..MaxTime : now' = t /\ asked' = [asked EXCEPT ![p] = t]
    BY DEF Ask
  <2>2. t \in 0..MaxTime
    BY <2>1, NumberAssumption
  <2> QED BY <1>1, <2>1, <2>2 DEF BooksInv, BooksTypeOK
<1>3. ValuationIsConsistent'
  BY <1>1 DEF BooksInv, ValuationIsConsistent
<1> QED BY <1>1, <1>2, <1>3, QuietTrades DEF BooksInv

LEMMA LoadStep == ASSUME BooksInv, NEW v \in Valuer, Load(v) PROVE BooksInv'
<1>1. UNCHANGED <<trades, positions, now, asked, lost, raced>>
  BY DEF Load
<1>2. BooksTypeOK'
  BY <1>1 DEF BooksInv, BooksTypeOK, Load
<1>3. ValuationIsConsistent'
  BY <1>1 DEF BooksInv, ValuationIsConsistent
<1> QED BY <1>1, <1>2, <1>3, QuietTrades DEF BooksInv

(* A valuation writes two columns of a row.                                *)
LEMMA AssessedIs ==
  ASSUME NEW row \in Row, NEW read \in Row, NEW q \in Fraction
  PROVE  /\ Assessed(row, read, q) \in Row
         /\ Assessed(row, read, q).amount = row.amount
         /\ Assessed(row, read, q).entry = row.entry
         /\ Assessed(row, read, q).realized = row.realized
         /\ Assessed(row, read, q).current = q
         /\ Assessed(row, read, q).unrealized = Times(read.amount, Minus(q, read.entry))
<1>1. PICK w \in Fraction : w = Times(read.amount, Minus(q, read.entry))
  BY RowFields, MinusTyped, TimesTyped
<1>2. PICK a \in Nat, e \in Fraction, r \in Fraction, c \in Fraction, u \in Fraction :
        row = [amount |-> a, entry |-> e, realized |-> r, current |-> c, unrealized |-> u]
  BY RowFields
<1>3. Assessed(row, read, q) = [row EXCEPT !.current = q, !.unrealized = w]
  BY <1>1 DEF Assessed
<1>4. Assessed(row, read, q) = [amount |-> a, entry |-> e, realized |-> r,
                                current |-> q, unrealized |-> w]
  BY <1>2, <1>3
<1> QED BY <1>1, <1>2, <1>4 DEF Row

LEMMA PersistStep == ASSUME BooksInv, NEW v \in Valuer, Persist(v) PROVE BooksInv'
<1>1. /\ UNCHANGED <<trades, now, asked, lost>> /\ loaded' = [loaded EXCEPT ![v] = NoRows]
      /\ raced' = {s \in DOMAIN positions :
                     IF s \notin DOMAIN loaded[v] THEN s \in raced
                     ELSE \/ positions[s].amount # loaded[v][s].amount
                          \/ positions[s].entry # loaded[v][s].entry}
  BY DEF Persist
<1>2. PICK marks \in [DOMAIN loaded[v] -> Price \cup {0}] :
        positions' = [s \in DOMAIN positions |->
                        IF s \notin DOMAIN loaded[v] THEN positions[s]
                        ELSE Assessed(positions[s], loaded[v][s],
                                      IF marks[s] = 0 THEN loaded[v][s].current
                                      ELSE Whole(marks[s]))]
  BY DEF Persist
<1>3. /\ \A s \in DOMAIN positions : positions[s] \in Row /\ s \in Symbol
      /\ \A s \in DOMAIN loaded[v] : loaded[v][s] \in Row
  BY RowOf DEF BooksInv, BooksTypeOK, Tables
<1>4. DOMAIN positions' = DOMAIN positions
  BY <1>2
<1>5. ASSUME NEW s \in DOMAIN positions, s \notin DOMAIN loaded[v]
      PROVE  positions'[s] = positions[s]
  BY <1>2, <1>5
<1>6. ASSUME NEW s \in DOMAIN positions, s \in DOMAIN loaded[v]
      PROVE  /\ positions'[s] \in Row
             /\ positions'[s].amount = positions[s].amount
             /\ positions'[s].entry = positions[s].entry
             /\ positions'[s].realized = positions[s].realized
             /\ positions'[s].unrealized
                  = Times(loaded[v][s].amount, Minus(positions'[s].current, loaded[v][s].entry))
  <2>1. PICK q \in Fraction :
          q = IF marks[s] = 0 THEN loaded[v][s].current ELSE Whole(marks[s])
    <3>1. marks[s] \in Int
      BY <1>6, NumberAssumption
    <3> QED BY <1>3, <1>6, <3>1, RowFields, WholeTyped
  <2>2. PICK row \in Row, read \in Row : row = positions[s] /\ read = loaded[v][s]
    BY <1>3, <1>6
  <2>3. positions'[s] = Assessed(row, read, q)
    BY <1>2, <1>6, <2>1, <2>2
  <2>4. PICK new : new = Assessed(row, read, q)
    OBVIOUS
  <2>5. /\ new \in Row /\ new.amount = row.amount /\ new.entry = row.entry
        /\ new.realized = row.realized /\ new.current = q
        /\ new.unrealized = Times(read.amount, Minus(q, read.entry))
    BY <2>4, AssessedIs
  <2> QED BY <2>2, <2>3, <2>4, <2>5
<1>7. \A s \in DOMAIN positions : /\ positions'[s] \in Row
                                  /\ positions'[s].amount = positions[s].amount
                                  /\ positions'[s].entry = positions[s].entry
                                  /\ positions'[s].realized = positions[s].realized
  BY <1>3, <1>5, <1>6
<1>8. BooksTypeOK'
  <2>1. Tables(positions)'
    <3>1. positions' \in [DOMAIN positions -> Row]
      BY <1>2, <1>7
    <3> QED BY <1>3, <1>4, <3>1 DEF Tables
  <2>2. raced' \subseteq Symbol
    BY <1>1, <1>3
  <2>3. DOMAIN loaded' = Valuer /\ \A w \in Valuer : Tables(loaded'[w])
    BY <1>1, NoRowsTyped DEF BooksInv, BooksTypeOK
  <2> QED BY <1>1, <2>1, <2>2, <2>3 DEF BooksInv, BooksTypeOK
<1>9. ValuationIsConsistent'
  <2>1. ASSUME NEW s \in DOMAIN positions' \ raced'
        PROVE  Same(positions'[s].unrealized,
                    Times(positions'[s].amount, Minus(positions'[s].current, positions'[s].entry)))
    <3>1. s \in DOMAIN positions
      BY <1>4
    <3>2. CASE s \notin DOMAIN loaded[v]
      <4>1. s \notin raced
        BY <1>1, <3>1, <3>2
      <4> QED BY <1>5, <3>1, <3>2, <4>1 DEF BooksInv, ValuationIsConsistent
    <3>3. CASE s \in DOMAIN loaded[v]
      <4>1. positions[s].amount = loaded[v][s].amount /\ positions[s].entry = loaded[v][s].entry
        BY <1>1, <3>1, <3>3
      <4>2. positions'[s].unrealized
              = Times(positions'[s].amount, Minus(positions'[s].current, positions'[s].entry))
        BY <1>6, <3>1, <3>3, <4>1
      <4>3. positions'[s].unrealized \in Fraction
        BY <1>7, <3>1, RowFields
      <4> QED BY <4>2, <4>3, SameItself
    <3> QED BY <3>2, <3>3
  <2> QED BY <2>1 DEF ValuationIsConsistent
<1> QED BY <1>1, <1>4, <1>7, <1>8, <1>9, QuietTrades DEF BooksInv

(* The books a rebuild that does not fail writes.                          *)
LEMMA RebuiltBooks ==
  ASSUME BooksInv, CanRebuild, NEW s \in Traded
  PROVE  /\ s \in Symbol /\ Book(s).amount \in Nat
         /\ Book(s).entry \in Fraction /\ Book(s).realized \in Fraction
         /\ Book(s).amount = Net(TradesOf(s))
         /\ Explained(Book(s).amount, Book(s).entry, Book(s).realized, CashFlow(TradesOf(s)))
<1>1. s \in Symbol
  BY TradeFields DEF BooksInv, Log, Traded
<1>2. Log(TradesOf(s))
  BY LogsOf DEF BooksInv, TradesOf
<1>3. Book(s).ok
  BY DEF CanRebuild
<1>4. BookTyped(Book(s)) /\ Accounted(Book(s), TradesOf(s))
  BY <1>2, BookFits DEF Book
<1> QED BY <1>1, <1>3, <1>4 DEF BookTyped, Accounted

LEMMA NotTraded ==
  ASSUME BooksInv, NEW s \in Symbol, s \notin Traded
  PROVE  Net(TradesOf(s)) = 0
<1>1. TradesOf(s) = {}
  BY DEF Traded, TradesOf
<1> QED BY <1>1, NoNet

LEMMA ReconcileStep == ASSUME BooksInv, Reconcile PROVE BooksInv'
<1> DEFINE held == {s \in Traded : Book(s).amount > 0}
<1>1. /\ CanRebuild /\ UNCHANGED <<trades, now, asked, loaded>>
      /\ positions' = [s \in held |-> Valued(Book(s).amount, Book(s).entry,
                                             Book(s).realized, Book(s).entry)]
      /\ lost' = Traded \ held /\ raced' = {}
  BY DEF Reconcile
<1>2. /\ \A s : TradesOf(s)' = TradesOf(s) /\ Book(s)' = Book(s)
      /\ Traded' = Traded /\ (InOrder' <=> InOrder)
  BY <1>1 DEF TradesOf, Traded, InOrder, Book
<1>3. \A s \in held : s \in Traded /\ Book(s).amount > 0
  OBVIOUS
<1>4. \A s \in Traded : s \notin held => ~(Book(s).amount > 0)
  OBVIOUS
<1>5. held \subseteq Traded /\ DOMAIN positions' = held
  BY <1>1
<1> HIDE DEF held
<1>6. ASSUME NEW s \in held
      PROVE  /\ positions'[s] \in Row /\ positions'[s].amount = Book(s).amount
             /\ positions'[s].entry = Book(s).entry /\ positions'[s].realized = Book(s).realized
             /\ positions'[s].unrealized
                  = Times(positions'[s].amount, Minus(positions'[s].current, positions'[s].entry))
  <2>1. /\ Book(s).amount \in Nat /\ Book(s).entry \in Fraction /\ Book(s).realized \in Fraction
    BY <1>1, <1>3, RebuiltBooks
  <2>2. positions'[s] = Valued(Book(s).amount, Book(s).entry, Book(s).realized, Book(s).entry)
    BY <1>1
  <2> QED BY <2>1, <2>2, ValuedTyped
<1>7. \A s \in Traded : s \in Symbol
  BY <1>1, RebuiltBooks
<1>8. BooksTypeOK'
  <2>1. Tables(positions)'
    <3>1. positions' \in [held -> Row]
      BY <1>1, <1>6
    <3> QED BY <1>5, <1>7, <3>1 DEF Tables
  <2> QED BY <1>1, <1>7, <2>1 DEF BooksInv, BooksTypeOK
<1>9. (Log(trades) /\ \A t \in trades : t.id <= Cardinality(trades))'
  BY <1>1 DEF BooksInv
<1>10. HoldingIsNet'
  <2>1. ASSUME NEW s \in Symbol
        PROVE  Net(TradesOf(s)) = IF s \in DOMAIN positions' THEN positions'[s].amount ELSE 0
    <3>1. CASE s \in held
      BY <1>1, <1>3, <1>5, <1>6, <3>1, RebuiltBooks
    <3>2. CASE s \in Traded \ held
      <4>1. Book(s).amount \in Nat /\ Book(s).amount = Net(TradesOf(s))
        BY <1>1, <3>2, RebuiltBooks
      <4> QED BY <1>4, <1>5, <3>2, <4>1
    <3>3. CASE s \notin Traded
      BY <1>3, <1>5, <3>3, NotTraded
    <3> QED BY <3>1, <3>2, <3>3
  <2> QED BY <1>2, <2>1 DEF HoldingIsNet
<1>11. ProfitIsCashFlow'
  <2>1. ASSUME NEW s \in held
        PROVE  Explained(Book(s).amount, Book(s).entry, Book(s).realized, CashFlow(TradesOf(s)))
    BY <1>1, <1>3, RebuiltBooks
  <2> QED BY <1>2, <1>5, <1>6, <2>1 DEF ProfitIsCashFlow, Explained
<1>12. (Traded \subseteq DOMAIN positions \cup lost)'
  BY <1>1, <1>2, <1>5
<1>13. ASSUME InOrder', NEW s \in Symbol PROVE Tracks(s)'
  <2>1. Book(s).ok
    BY <1>2, <1>13 DEF BooksInv, Tracks
  <2>2. ASSUME s \in held PROVE Same(Book(s).entry, positions'[s].entry)
    <3>1. Book(s).entry \in Fraction
      BY <1>1, <1>3, <2>2, RebuiltBooks
    <3> QED BY <1>6, <2>2, <3>1, SameItself
  <2> QED BY <1>2, <1>5, <2>1, <2>2 DEF Tracks
<1>14. ValuationIsConsistent'
  <2>1. ASSUME NEW s \in held
        PROVE  Same(positions'[s].unrealized,
                    Times(positions'[s].amount, Minus(positions'[s].current, positions'[s].entry)))
    <3>1. positions'[s].unrealized \in Fraction
      BY <1>6, RowFields
    <3> QED BY <1>6, <3>1, SameItself
  <2> QED BY <1>5, <2>1 DEF ValuationIsConsistent
<1> QED BY <1>8, <1>9, <1>10, <1>11, <1>12, <1>13, <1>14 DEF BooksInv

-----------------------------------------------------------------------------
(***************************************************************************)
(* Theorems                                                                *)
(***************************************************************************)
(* The tables always satisfy the invariant above: the log is one of        *)
(* finitely many trades told apart by their ids, a row's amount is what    *)
(* was bought and not sold, its profit explains the cash, and while the    *)
(* times agree with the ids the rebuild follows the row.                   *)
THEOREM BooksInductive == BooksSpec => []BooksInv
<1>1. BooksInit => BooksInv
  BY BooksAtInit
<1>2. BooksInv /\ [BooksNext]_booksVars => BooksInv'
  <2> SUFFICES ASSUME BooksInv, [BooksNext]_booksVars PROVE BooksInv'
    OBVIOUS
  <2>1. ASSUME NEW p \in Process, Ask(p) PROVE BooksInv'
    BY <2>1, AskStep
  <2>2. ASSUME NEW p \in Process, NEW s \in Symbol, NEW side \in {"buy", "sell"},
               NEW n \in Amount, NEW price \in Price, Fill(p, s, side, n, price)
        PROVE  BooksInv'
    BY <2>2, FillStep
  <2>3. ASSUME NEW v \in Valuer, Load(v) PROVE BooksInv'
    BY <2>3, LoadStep
  <2>4. ASSUME NEW v \in Valuer, Persist(v) PROVE BooksInv'
    BY <2>4, PersistStep
  <2>5. CASE Reconcile
    BY <2>5, ReconcileStep
  <2>6. CASE UNCHANGED booksVars
    <3>1. UNCHANGED <<trades, positions, now, asked, loaded, lost, raced>>
      BY <2>6 DEF booksVars
    <3>2. BooksTypeOK' /\ ValuationIsConsistent'
      BY <3>1 DEF BooksInv, BooksTypeOK, ValuationIsConsistent
    <3> QED BY <3>1, <3>2, QuietTrades DEF BooksInv
  <2> QED BY <2>1, <2>2, <2>3, <2>4, <2>5, <2>6 DEF BooksNext
<1> QED BY <1>1, <1>2, PTL DEF BooksSpec

(* A row of the positions table loses neither units nor money, whatever    *)
(* the order in which the fills of several processes, the two halves of    *)
(* valuations and rebuilds from the trades write it, and the trades can be *)
(* replayed while their times agree with their ids.                        *)
THEOREM PositionsAddUp == BooksSpec => []BooksAddUp
<1>1. BooksInv => BooksAddUp
  <2> SUFFICES ASSUME BooksInv PROVE BooksAddUp
    OBVIOUS
  <2>1. RebuildSucceeds
    <3>1. \A s \in Traded : s \in Symbol
      BY TradeFields DEF BooksInv, Log, Traded
    <3> QED BY <3>1 DEF BooksInv, Tracks, RebuildSucceeds, CanRebuild
  <2> QED BY <2>1 DEF BooksInv, BooksAddUp
<1> QED BY <1>1, BooksInductive, PTL

(* Unless a fill came between the two halves of the valuation that wrote   *)
(* it last, a row's unrealized profit is that of its amount, its entry     *)
(* price and its current price.                                            *)
THEOREM ValuationsAgree == BooksSpec => []ValuationIsConsistent
<1>1. BooksInv => ValuationIsConsistent
  BY DEF BooksInv
<1> QED BY <1>1, BooksInductive, PTL

(* handle_reconcile leaves amount and entry price of every position held   *)
(* as the engines computed them fill by fill, while the trades' times      *)
(* agree with their ids.                                                   *)
THEOREM RebuildsKeepHoldings == BooksSpec => RebuildKeepsHoldings
<1>1. BooksInv /\ [BooksNext]_booksVars
        => [Reconcile /\ InOrder =>
              \A s \in DOMAIN positions : positions[s].amount > 0 => SameHolding(s)]_booksVars
  <2> SUFFICES ASSUME BooksInv, Reconcile, InOrder, NEW s \in DOMAIN positions,
                      positions[s].amount > 0
               PROVE  SameHolding(s)
    OBVIOUS
  <2>1. CanRebuild /\ s \in Symbol /\ positions[s].amount = Net(TradesOf(s))
    BY RowOf DEF Reconcile, BooksInv, HoldingIsNet
  <2>2. s \in Traded
    BY <2>1, NotTraded
  <2>3. /\ Book(s).amount = positions[s].amount /\ Book(s).amount > 0
        /\ Book(s).amount \in Nat /\ Book(s).entry \in Fraction /\ Book(s).realized \in Fraction
    BY <2>1, <2>2, RebuiltBooks
  <2>4. /\ s \in DOMAIN positions'
        /\ positions'[s] = Valued(Book(s).amount, Book(s).entry, Book(s).realized, Book(s).entry)
    BY <2>2, <2>3 DEF Reconcile
  <2>5. positions'[s].amount = Book(s).amount /\ positions'[s].entry = Book(s).entry
    BY <2>3, <2>4, ValuedTyped
  <2>6. Same(Book(s).entry, positions[s].entry)
    BY <2>1 DEF BooksInv, Tracks
  <2> QED BY <2>3, <2>4, <2>5, <2>6 DEF SameHolding
<1> QED BY <1>1, BooksInductive, PTL DEF BooksSpec, RebuildKeepsHoldings
=============================================================================
