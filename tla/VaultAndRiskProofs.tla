------------------------- MODULE VaultAndRiskProofs -------------------------
(***************************************************************************)
(* Proofs about CredentialVault, for any number of commands, credentials   *)
(* and master keys, and about RiskControl, for any engines, deployments,   *)
(* prices, amounts and limits.  The two share no state.                    *)
(***************************************************************************)
EXTENDS CredentialVault, RiskControl, FiniteSetTheorems, TLAPS

-----------------------------------------------------------------------------
(***************************************************************************)
(* The vault                                                               *)
(***************************************************************************)

(* The vault holds a pair that some configuration held, under a key.       *)
FileFromConfig ==
  file.state = "stored" => file.pair \in pairs /\ file.master # None

(* A command writes only with a key, and past the check of the vault it    *)
(* has a key or nothing to protect.                                        *)
KeyBeforeUse ==
  \A c \in Command :
    /\ phase[c] = "write" => env[c] # None
    /\ phase[c] \in {"load", "running"} /\ env[c] = None => config[c] = NoPair

(* The inductive invariant.                                                *)
IInv ==
  /\ TypeOK
  /\ \A c \in Command : config[c] \in pairs
  /\ FileFromConfig
  /\ KeyBeforeUse

-----------------------------------------------------------------------------
LEMMA NoPairIsPair == NoPair \in Pair
  BY DEF NoPair, Pair

LEMMA SuppliedArePairs == Supplied \subseteq Pair
  BY NoPairIsPair DEF Supplied

LEMMA InitInv == Init => IInv
  BY NoPairIsPair, VaultAssumption
     DEF Init, IInv, TypeOK, FileFromConfig, KeyBeforeUse, Missing

LEMMA StartInv == ASSUME IInv, NEW c \in Command, Start(c) PROVE IInv'
<1>1. PICK m \in Master \cup {None}, p \in Supplied :
        /\ env' = [env EXCEPT ![c] = m]
        /\ config' = [config EXCEPT ![c] = p]
        /\ given' = [given EXCEPT ![c] = p]
        /\ pairs' = pairs \cup {p}
  BY DEF Start
<1>2. quiet' \subseteq Command
  BY DEF IInv, TypeOK, Start
<1>3. p \in Pair
  BY SuppliedArePairs
<1>4. TypeOK'
  BY <1>1, <1>3, <1>2, VaultAssumption DEF IInv, TypeOK, Start, Goto
<1>5. \A d \in Command : config'[d] \in pairs'
  BY <1>1 DEF IInv, TypeOK
<1>6. FileFromConfig'
  BY <1>1 DEF IInv, FileFromConfig, Start
<1>7. KeyBeforeUse'
  BY <1>1 DEF IInv, TypeOK, KeyBeforeUse, Start, Goto
<1> QED BY <1>4, <1>5, <1>6, <1>7 DEF IInv

LEMMA PersistInv == ASSUME IInv, NEW c \in Command, Persist(c) PROVE IInv'
<1>1. UNCHANGED <<env, config, given, pairs, quiet, starts>>
  BY DEF Persist
<1>2. TypeOK'
  BY <1>1 DEF IInv, TypeOK, Persist, Goto
<1>3. FileFromConfig'
  BY <1>1 DEF IInv, FileFromConfig, Persist, Torn
<1>4. KeyBeforeUse'
  BY <1>1 DEF IInv, TypeOK, KeyBeforeUse, Persist, Goto
<1> QED BY <1>1, <1>2, <1>3, <1>4 DEF IInv

LEMMA WriteInv == ASSUME IInv, NEW c \in Command, Write(c) PROVE IInv'
<1>1. file' = Stored(env[c], config[c]) /\ UNCHANGED <<env, config, given, pairs, quiet, starts>>
  BY DEF Write, Merged
<1>2. env[c] \in Master /\ config[c] \in Pair /\ env[c] # None
  BY DEF IInv, TypeOK, KeyBeforeUse, Write
<1>3. TypeOK'
  BY <1>1, <1>2 DEF IInv, TypeOK, Write, Goto
<1>4. FileFromConfig'
  BY <1>1, <1>2 DEF IInv, FileFromConfig, Stored
<1>5. KeyBeforeUse'
  BY <1>1, <1>2 DEF IInv, TypeOK, KeyBeforeUse, Write, Goto
<1> QED BY <1>1, <1>3, <1>4, <1>5 DEF IInv

(* The pair a file gives is one that was stored in it.                     *)
LEMMA StoredPair ==
  ASSUME TypeOK, file.state = "stored" PROVE file.pair \in Pair
<1>1. file # Missing /\ file # Torn
  BY DEF Missing, Torn
<1>2. PICK m \in Master, p \in Pair : file = Stored(m, p)
  BY <1>1 DEF TypeOK
<1> QED BY <1>2 DEF Stored

LEMMA LoadInv == ASSUME IInv, NEW c \in Command, Load(c) PROVE IInv'
<1>1. UNCHANGED <<file, env, given, pairs, quiet, starts>>
  BY DEF Load
<1>2. CASE config' = config
  <2>1. TypeOK'
    BY <1>1, <1>2 DEF IInv, TypeOK, Load, Goto
  <2>2. KeyBeforeUse'
    BY <1>1, <1>2 DEF IInv, TypeOK, KeyBeforeUse, Load, Goto
  <2> QED BY <1>1, <1>2, <2>1, <2>2 DEF IInv, FileFromConfig
<1>3. CASE config' # config
  <2>1. Readable(c) /\ config' = [config EXCEPT ![c] = file.pair] /\ Goto(c, "running")
    BY <1>3 DEF Load
  <2>2. file.pair \in Pair /\ file.pair \in pairs /\ env[c] # None
    BY <2>1, StoredPair DEF IInv, FileFromConfig, Readable
  <2>3. TypeOK'
    BY <1>1, <2>1, <2>2 DEF IInv, TypeOK, Goto
  <2>4. \A d \in Command : config'[d] \in pairs'
    BY <1>1, <2>1, <2>2 DEF IInv, TypeOK
  <2>5. KeyBeforeUse'
    BY <1>1, <2>1, <2>2 DEF IInv, TypeOK, KeyBeforeUse, Goto
  <2> QED BY <1>1, <2>3, <2>4, <2>5 DEF IInv, FileFromConfig
<1> QED BY <1>2, <1>3

LEMMA EndInv == ASSUME IInv, NEW c \in Command, End(c) PROVE IInv'
<1>1. UNCHANGED <<file, env, config, given, pairs, quiet, starts>>
  BY DEF End
<1>2. TypeOK'
  BY <1>1 DEF IInv, TypeOK, End, Goto
<1>3. KeyBeforeUse'
  BY <1>1 DEF IInv, TypeOK, KeyBeforeUse, End, Goto
<1> QED BY <1>1, <1>2, <1>3 DEF IInv, FileFromConfig

LEMMA StepInv == IInv /\ [Next]_vars => IInv'
<1>1. ASSUME IInv, NEW c \in Command,
             Start(c) \/ Persist(c) \/ Write(c) \/ Load(c) \/ End(c)
      PROVE  IInv'
  BY <1>1, StartInv, PersistInv, WriteInv, LoadInv, EndInv
<1>2. ASSUME IInv, UNCHANGED vars PROVE IInv'
  BY <1>2 DEF vars, IInv, TypeOK, FileFromConfig, KeyBeforeUse
<1> QED BY <1>1, <1>2 DEF Next

THEOREM Inductive == Spec => []IInv
  BY InitInv, StepInv, PTL DEF Spec

(* The vault file is missing, torn, or a pair under a key; phases, keys    *)
(* and configurations are what build_context can leave.                    *)
THEOREM TypeCorrect == Spec => []TypeOK
<1>1. IInv => TypeOK
  BY DEF IInv
<1> QED BY <1>1, Inductive, PTL

(* However many commands write and read the vault at the same time, and    *)
(* wherever they are killed, a running command has a pair that was in one  *)
(* configuration.                                                          *)
THEOREM PairsTogether == Spec => []PairsStayTogether
<1>1. IInv => PairsStayTogether
  BY DEF IInv, PairsStayTogether
<1> QED BY <1>1, Inductive, PTL

(* A command without a master key never runs on stored credentials.        *)
THEOREM KeyIsNeeded == Spec => []NoKeyNoCredentials
<1>1. IInv => NoKeyNoCredentials
  BY DEF IInv, KeyBeforeUse, NoKeyNoCredentials
<1> QED BY <1>1, Inductive, PTL

-----------------------------------------------------------------------------
(***************************************************************************)
(* A start that overlaps no other.  While it lasts nobody else touches the *)
(* file: when it comes to loading, the file is what it has just written.   *)
(***************************************************************************)
BringsAll(c) == given[c] # NoPair /\ env[c] # None

OwnPair(c) ==
  /\ phase[c] # "failed"
  /\ config[c] = given[c]
  /\ phase[c] = "load" => file = Stored(env[c], given[c])

QuietInv ==
  \A c \in quiet :
    /\ c \in Starting => Starting = {c}
    /\ BringsAll(c) => OwnPair(c)

LEMMA QuietStart ==
  ASSUME TypeOK, QuietInv, NEW c \in Command, Start(c) PROVE QuietInv'
<1>1. PICK m \in Master \cup {None}, p \in Supplied :
        /\ env' = [env EXCEPT ![c] = m]
        /\ config' = [config EXCEPT ![c] = p]
        /\ given' = [given EXCEPT ![c] = p]
  BY DEF Start
<1>2. /\ file' = file
      /\ phase' = [phase EXCEPT ![c] = "persist"]
      /\ phase[c] = "idle"
      /\ quiet' = IF Starting = {} THEN quiet \cup {c} ELSE quiet \ (Starting \cup {c})
  BY DEF Start, Goto
<1>3. phase'[c] = "persist" /\ config'[c] = given'[c]
  BY <1>1, <1>2 DEF TypeOK
<1>4. \A d \in Command : d # c => /\ phase'[d] = phase[d] /\ env'[d] = env[d]
                                  /\ config'[d] = config[d] /\ given'[d] = given[d]
  BY <1>1, <1>2 DEF TypeOK
<1>5. Starting' = Starting \cup {c} /\ c \notin Starting
  BY <1>2, <1>3, <1>4 DEF Starting
<1>6. SUFFICES ASSUME NEW d \in quiet'
               PROVE  /\ d \in Starting' => Starting' = {d}
                      /\ BringsAll(d)' => OwnPair(d)'
  BY DEF QuietInv
<1>7. CASE d = c
  <2>1. Starting = {}
    BY <1>2, <1>7
  <2> QED BY <1>3, <1>5, <1>7, <2>1 DEF OwnPair
<1>8. CASE d # c
  <2>1. d \in quiet /\ d \in Command /\ d \notin Starting
    BY <1>2, <1>8 DEF TypeOK
  <2>2. d \notin Starting'
    BY <1>5, <1>8, <2>1
  <2> QED BY <1>2, <1>4, <1>8, <2>1, <2>2 DEF QuietInv, BringsAll, OwnPair
<1> QED BY <1>7, <1>8

\* A step of a command that is starting, seen from the others that were quiet.
LEMMA QuietOthers ==
  ASSUME TypeOK, QuietInv, NEW c \in Command, c \in Starting,
         quiet' = quiet, env' = env, given' = given,
         NEW where, phase' = [phase EXCEPT ![c] = where],
         NEW d \in quiet, d # c, config'[d] = config[d]
  PROVE  /\ d \in Starting' => Starting' = {d}
         /\ BringsAll(d)' => OwnPair(d)'
<1>1. d \in Command /\ d \notin Starting
  BY DEF QuietInv, TypeOK
<1>2. phase'[d] = phase[d]
  BY <1>1 DEF TypeOK
<1>3. d \notin Starting' /\ phase[d] # "load"
  BY <1>1, <1>2 DEF Starting
<1> QED BY <1>1, <1>2, <1>3 DEF QuietInv, BringsAll, OwnPair

\* A step of c within its own start leaves no other command starting.
LEMMA StillAlone ==
  ASSUME TypeOK, NEW c \in Command, Starting = {c},
         NEW where, phase' = [phase EXCEPT ![c] = where]
  PROVE  c \in Starting' => Starting' = {c}
  BY DEF Starting, TypeOK

LEMMA QuietPersist ==
  ASSUME TypeOK, QuietInv, NEW c \in Command, Persist(c) PROVE QuietInv'
<1>1. /\ phase[c] = "persist" /\ c \in Starting
      /\ UNCHANGED <<env, config, given, quiet>>
  BY DEF Persist, Starting
<1>2. PICK where : phase' = [phase EXCEPT ![c] = where]
  BY DEF Persist, Goto
<1>3. SUFFICES ASSUME NEW d \in quiet
               PROVE  /\ d \in Starting' => Starting' = {d}
                      /\ BringsAll(d)' => OwnPair(d)'
  BY <1>1 DEF QuietInv
<1>4. CASE d # c
  BY <1>1, <1>2, <1>4, QuietOthers
<1>5. CASE d = c
  <2>1. d \in Starting' => Starting' = {d}
    BY <1>1, <1>2, <1>5, StillAlone DEF QuietInv
  <2>2. ASSUME BringsAll(d)' PROVE OwnPair(d)'
    <3>1. BringsAll(d) /\ config[d] = given[d]
      BY <1>1, <2>2 DEF BringsAll, QuietInv, OwnPair
    <3>2. phase'[d] = "write"
      BY <1>5, <3>1 DEF Persist, Goto, BringsAll, TypeOK
    <3> QED BY <1>1, <3>1, <3>2 DEF OwnPair
  <2> QED BY <2>1, <2>2
<1> QED BY <1>4, <1>5

LEMMA QuietWrite ==
  ASSUME TypeOK, QuietInv, NEW c \in Command, Write(c) PROVE QuietInv'
<1>1. /\ phase[c] = "write" /\ c \in Starting
      /\ UNCHANGED <<env, config, given, quiet>>
      /\ phase' = [phase EXCEPT ![c] = "load"]
      /\ file' = Stored(env[c], config[c])
  BY DEF Write, Starting, Goto, Merged
<1>2. SUFFICES ASSUME NEW d \in quiet
               PROVE  /\ d \in Starting' => Starting' = {d}
                      /\ BringsAll(d)' => OwnPair(d)'
  BY <1>1 DEF QuietInv
<1>3. CASE d # c
  BY <1>1, <1>3, QuietOthers
<1>4. CASE d = c
  <2>1. d \in Starting' => Starting' = {d}
    BY <1>1, <1>4, StillAlone DEF QuietInv
  <2>2. ASSUME BringsAll(d)' PROVE OwnPair(d)'
    <3>1. config[d] = given[d]
      BY <1>1, <2>2 DEF BringsAll, QuietInv, OwnPair
    <3>2. phase'[d] = "load"
      BY <1>1, <1>4 DEF TypeOK
    <3> QED BY <1>1, <1>4, <3>1, <3>2 DEF OwnPair
  <2> QED BY <2>1, <2>2
<1> QED BY <1>3, <1>4

LEMMA QuietLoad ==
  ASSUME TypeOK, QuietInv, NEW c \in Command, Load(c) PROVE QuietInv'
<1>1. /\ phase[c] = "load" /\ c \in Starting
      /\ UNCHANGED <<file, env, given, quiet>>
  BY DEF Load, Starting
<1>2. PICK where : phase' = [phase EXCEPT ![c] = where]
  BY DEF Load, Goto
<1>3. SUFFICES ASSUME NEW d \in quiet
               PROVE  /\ d \in Starting' => Starting' = {d}
                      /\ BringsAll(d)' => OwnPair(d)'
  BY <1>1 DEF QuietInv
<1>4. CASE d # c
  <2>1. config'[d] = config[d]
    BY <1>4 DEF Load, TypeOK
  <2> QED BY <1>1, <1>2, <1>4, <2>1, QuietOthers
<1>5. CASE d = c
  <2>1. d \in Starting' => Starting' = {d}
    BY <1>1, <1>2, <1>5, StillAlone DEF QuietInv
  <2>2. ASSUME BringsAll(d)' PROVE OwnPair(d)'
    <3>1. file = Stored(env[c], given[c])
      BY <1>1, <1>5, <2>2 DEF BringsAll, QuietInv, OwnPair
    <3>2. file # Missing /\ Readable(c) /\ file.pair = given[c]
      BY <3>1 DEF Stored, Missing, Readable
    <3>3. phase'[c] = "running" /\ config'[c] = given[c]
      BY <3>2 DEF Load, Goto, TypeOK
    <3> QED BY <1>1, <1>5, <3>3 DEF OwnPair
  <2> QED BY <2>1, <2>2
<1> QED BY <1>4, <1>5

LEMMA QuietEnd ==
  ASSUME TypeOK, QuietInv, NEW c \in Command, End(c) PROVE QuietInv'
<1>1. /\ UNCHANGED <<file, env, config, given, quiet>>
      /\ phase' = [phase EXCEPT ![c] = "idle"]
  BY DEF End, Goto
<1>2. phase'[c] = "idle" /\ \A d \in Command : d # c => phase'[d] = phase[d]
  BY <1>1 DEF TypeOK
<1>3. Starting' = Starting \ {c}
  BY <1>2 DEF Starting
<1>4. quiet \subseteq Command
  BY DEF TypeOK
<1> QED BY <1>1, <1>2, <1>3, <1>4 DEF QuietInv, BringsAll, OwnPair

LEMMA QuietStep == TypeOK /\ QuietInv /\ [Next]_vars => QuietInv'
<1>1. ASSUME TypeOK, QuietInv, NEW c \in Command,
             Start(c) \/ Persist(c) \/ Write(c) \/ Load(c) \/ End(c)
      PROVE  QuietInv'
  BY <1>1, QuietStart, QuietPersist, QuietWrite, QuietLoad, QuietEnd
<1>2. ASSUME QuietInv, UNCHANGED vars PROVE QuietInv'
  BY <1>2 DEF vars, QuietInv, BringsAll, OwnPair, Starting
<1> QED BY <1>1, <1>2 DEF Next

\* A command that brings its credentials and a master key, and starts while no
\* other command does, runs with them, whatever happened to the file before.
THEOREM GoodStarts == Spec => []GoodStartSucceeds
<1>1. Init => QuietInv
  BY DEF Init, QuietInv
<1>2. QuietInv => GoodStartSucceeds
  BY DEF QuietInv, BringsAll, OwnPair, GoodStartSucceeds
<1> QED BY <1>1, <1>2, QuietStep, TypeCorrect, PTL DEF Spec


-----------------------------------------------------------------------------
(***************************************************************************)
(* Sums                                                                    *)
(***************************************************************************)
(* A column of n units has n elements.                                     *)
LEMMA ColumnSize ==
  ASSUME NEW x, NEW n \in Nat
  PROVE  IsFiniteSet({x} \X (1..n)) /\ Cardinality({x} \X (1..n)) = n
<1> DEFINE f == [k \in 1..n |-> <<x, k>>]
<1>1. f \in Injection(1..n, {x} \X (1..n))
  BY DEF Injection, IsInjective
<1>2. \A u \in {x} \X (1..n) : \E k \in 1..n : f[k] = u
  <2>1. ASSUME NEW u \in {x} \X (1..n) PROVE \E k \in 1..n : f[k] = u
    <3>1. u[2] \in 1..n /\ u = <<x, u[2]>>
      OBVIOUS
    <3>2. f[u[2]] = u
      BY <3>1
    <3> QED BY <3>1, <3>2
  <2> QED BY <2>1
<1>3. f \in Bijection(1..n, {x} \X (1..n))
  <2>1. f \in [1..n -> {x} \X (1..n)]
    OBVIOUS
  <2>2. f \in Surjection(1..n, {x} \X (1..n))
    BY <1>2, <2>1 DEF Surjection
  <2> QED BY <1>1, <2>2 DEF Bijection
<1>4. ExistsBijection(1..n, {x} \X (1..n))
  BY <1>3 DEF ExistsBijection
<1> QED BY <1>4, FS_Interval, FS_Bijection

LEMMA UnitsFinite ==
  ASSUME NEW f, IsFiniteSet(DOMAIN f), \A x \in DOMAIN f : f[x] \in Nat
  PROVE  IsFiniteSet(Units(f))
<1> DEFINE C == {{x} \X (1..f[x]) : x \in DOMAIN f}
           g == [x \in DOMAIN f |-> {x} \X (1..f[x])]
<1>1. g \in Surjection(DOMAIN f, C)
  <2>1. g \in [DOMAIN f -> C]
    OBVIOUS
  <2>2. \A c \in C : \E x \in DOMAIN f : g[x] = c
    OBVIOUS
  <2> QED BY <2>1, <2>2 DEF Surjection
<1>2. IsFiniteSet(C)
  BY <1>1, FS_Surjection
<1>3. \A c \in C : IsFiniteSet(c)
  BY ColumnSize
<1>4. Units(f) = UNION C
  BY DEF Units
<1> HIDE DEF C
<1> QED BY <1>2, <1>3, <1>4, FS_UNION

(* A sum with one more term.                                               *)
LEMMA TotalGrows ==
  ASSUME NEW f, NEW g, NEW x, x \notin DOMAIN f, DOMAIN g = DOMAIN f \cup {x},
         \A y \in DOMAIN f : g[y] = f[y], g[x] \in Nat,
         IsFiniteSet(DOMAIN f), \A y \in DOMAIN f : f[y] \in Nat
  PROVE  Total(f) \in Nat /\ Total(g) = Total(f) + g[x]
<1> DEFINE col == {x} \X (1..g[x])
<1>1. IsFiniteSet(Units(f)) /\ Cardinality(Units(f)) \in Nat
  BY UnitsFinite, FS_CardinalityType
<1>2. IsFiniteSet(col) /\ Cardinality(col) = g[x]
  BY ColumnSize
<1>3. Units(g) = Units(f) \cup col
  <2>1. ASSUME NEW u \in Units(g) PROVE u \in Units(f) \cup col
    <3>1. PICK y \in DOMAIN g : u \in {y} \X (1..g[y])
      BY <2>1 DEF Units
    <3>2. y # x => u \in Units(f)
      BY <3>1 DEF Units
    <3> QED BY <3>1, <3>2
  <2>2. ASSUME NEW u \in Units(f) PROVE u \in Units(g)
    <3>1. PICK y \in DOMAIN f : u \in {y} \X (1..f[y])
      BY <2>2 DEF Units
    <3> QED BY <3>1 DEF Units
  <2>3. col \subseteq Units(g)
    BY DEF Units
  <2> QED BY <2>1, <2>2, <2>3
<1>4. Units(f) \cap col = {}
  BY DEF Units
<1>5. Cardinality({}) = 0
  BY FS_EmptySet
<1> HIDE DEF col
<1>6. Cardinality(Units(f) \cup col) = Cardinality(Units(f)) + Cardinality(col) - 0
  BY <1>1, <1>2, <1>4, <1>5, FS_Union
<1> QED BY <1>1, <1>2, <1>3, <1>6 DEF Total

LEMMA TotalOfNone == ASSUME NEW f, DOMAIN f = {} PROVE Total(f) = 0
<1>1. Units(f) = {}
  BY DEF Units
<1> QED BY <1>1, FS_EmptySet DEF Total

(* A sum and one of its terms.                                             *)
LEMMA TotalSplit ==
  ASSUME NEW f, IsFiniteSet(DOMAIN f), \A x \in DOMAIN f : f[x] \in Nat, NEW x \in DOMAIN f
  PROVE  LET r == [y \in DOMAIN f \ {x} |-> f[y]] IN
         Total(r) \in Nat /\ Total(f) = Total(r) + f[x]
<1> DEFINE r == [y \in DOMAIN f \ {x} |-> f[y]]
<1>1. /\ x \notin DOMAIN r /\ DOMAIN f = DOMAIN r \cup {x} /\ \A y \in DOMAIN r : f[y] = r[y]
      /\ \A y \in DOMAIN r : r[y] \in Nat
  OBVIOUS
<1>2. IsFiniteSet(DOMAIN r)
  BY FS_Subset
<1>3. f[x] \in Nat
  OBVIOUS
<1>4. PICK q : q = r
  OBVIOUS
<1> HIDE DEF r
<1>5. Total(q) \in Nat /\ Total(f) = Total(q) + f[x]
  BY <1>1, <1>2, <1>3, <1>4, TotalGrows
<1> QED BY <1>4, <1>5 DEF r

LEMMA TotalType ==
  ASSUME NEW f, IsFiniteSet(DOMAIN f), \A x \in DOMAIN f : f[x] \in Nat
  PROVE  Total(f) \in Nat
  BY UnitsFinite, FS_CardinalityType DEF Total

-----------------------------------------------------------------------------
(***************************************************************************)
(* Fractions                                                               *)
(***************************************************************************)
LEMMA ProductType ==
  /\ \A a, b \in Int : a * b \in Int
  /\ \A a, b \in Nat : a * b \in Nat
  /\ \A a, b \in Nat \ {0} : a * b \in Nat \ {0}
OBVIOUS

LEMMA Remainder == \A n, l \in Int : n * (100 - l) = 100 * n - l * n
OBVIOUS

LEMMA FractionFields ==
  ASSUME NEW q \in Fraction
  PROVE  q.num \in Int /\ q.den \in Nat \ {0} /\ q.den \in Int /\ q # NoPeak
<1>1. q.num \in Int /\ q.den \in Nat \ {0}
  BY DEF Fraction
<1>2. NoPeak.den = 0
  BY DEF NoPeak
<1> QED BY <1>1, <1>2

LEMMA WholeTyped ==
  ASSUME NEW n \in Int
  PROVE  Whole(n) \in Fraction /\ Whole(n).num = n /\ Whole(n).den = 1
  BY DEF Whole, Fraction

LEMMA PlusTyped ==
  ASSUME NEW q \in Fraction, NEW r \in Fraction
  PROVE  Plus(q, r) \in Fraction
<1>1. q.num \in Int /\ q.den \in Nat \ {0} /\ r.num \in Int /\ r.den \in Nat \ {0}
  BY FractionFields
<1>2. q.num * r.den + r.num * q.den \in Int /\ q.den * r.den \in Nat \ {0}
  BY <1>1, ProductType
<1> QED BY <1>2 DEF Plus, Fraction

LEMMA TimesTyped ==
  ASSUME NEW n \in Int, NEW q \in Fraction
  PROVE  Times(n, q) \in Fraction
  BY FractionFields, ProductType DEF Times, Fraction

LEMMA LargerIs ==
  ASSUME NEW q \in Fraction, NEW r \in Fraction
  PROVE  /\ Larger(q, r) \in {q, r}
         /\ ~Exceeds(q, Larger(q, r)) /\ ~Exceeds(r, Larger(q, r))
<1>1. Larger(q, r) \in {q, r}
  BY DEF Larger
<1>2. PICK a \in Int, b \in Int : a = q.num * r.den /\ b = r.num * q.den
  BY FractionFields, ProductType
<1>3. /\ Exceeds(q, r) <=> a > b
      /\ Exceeds(r, q) <=> b > a
  BY <1>2 DEF Exceeds
<1>4. ~Exceeds(q, q) /\ ~Exceeds(r, r)
  BY FractionFields, ProductType DEF Exceeds
<1> QED BY <1>1, <1>3, <1>4 DEF Larger

(* A drawdown from a lower peak is less deep.                              *)
LEMMA DeeperFromAbove ==
  ASSUME NEW total \in Int, NEW c \in Fraction, NEW peak \in Fraction, ~Exceeds(c, peak),
         TooDeep(total, c)
  PROVE  TooDeep(total, peak)
<1>1. PICK l \in Int : l = DrawdownLimit /\ l >= 0 /\ l <= 100
  BY LimitsAssumption
<1>2. PICK n \in Int, d \in Int, m \in Int, e \in Int, k \in Int :
        /\ n = c.num /\ d = c.den /\ m = peak.num /\ e = peak.den /\ d > 0 /\ e > 0
        /\ k = 100 - l /\ k >= 0
  BY <1>1, FractionFields
<1>3. n > 0 /\ n * k > 100 * (total * d) /\ n * e <= m * d
  <2>1. n > 0 /\ (n - total * d) * 100 > l * n
    BY <1>1, <1>2 DEF TooDeep
  <2>2. PICK x \in Int : x = total * d
    BY ProductType
  <2>3. PICK y \in Int : y = l * n
    BY ProductType
  <2>4. n * k = 100 * n - y
    BY <1>2, <2>3, Remainder
  <2>5. ~(n * e > m * d) /\ n * e \in Int /\ m * d \in Int
    BY <1>2, ProductType DEF Exceeds
  <2> QED BY <2>1, <2>2, <2>3, <2>4, <2>5
<1>4. m > 0
  <2>1. n * e > 0
    BY <1>2, <1>3
  <2>2. m * d > 0
    BY <1>3, <2>1, ProductType
  <2> QED BY <1>2, <2>2
<1>5. m * k > 100 * (total * e)
  <2>1. PICK nk \in Int, td \in Int, ne \in Int, md \in Int, te \in Int, mk \in Int :
          /\ nk = n * k /\ td = total * d /\ ne = n * e /\ md = m * d /\ te = total * e
          /\ mk = m * k
    BY ProductType
  <2>2. nk > 100 * td /\ ne <= md
    BY <1>3, <2>1
  <2>3. nk * e > (100 * td) * e
    BY <1>2, <2>2
  <2>4. ne * k <= md * k
    BY <1>2, <2>2
  <2>5. nk * e = ne * k /\ md * k = mk * d /\ (100 * td) * e = (100 * te) * d
    BY <2>1
  <2>6. mk * d > (100 * te) * d
    <3>1. /\ nk * e \in Int /\ (100 * td) * e \in Int /\ ne * k \in Int /\ md * k \in Int
          /\ mk * d \in Int /\ (100 * te) * d \in Int
      BY ProductType
    <3> QED BY <2>3, <2>4, <2>5, <3>1
  <2>7. mk > 100 * te
    BY <1>2, <2>6
  <2> QED BY <2>1, <2>7
<1>6. (m - total * e) * 100 > l * m
  <2>1. PICK x \in Int : x = total * e
    BY ProductType
  <2>2. PICK y \in Int : y = l * m
    BY ProductType
  <2>3. m * k = 100 * m - y
    BY <1>2, <2>2, Remainder
  <2> QED BY <1>5, <2>1, <2>2, <2>3
<1> QED BY <1>1, <1>2, <1>4, <1>6 DEF TooDeep

-----------------------------------------------------------------------------
(***************************************************************************)
(* The value of the positions                                              *)
(***************************************************************************)
Rows == [DOMAIN positions -> Position]
Portfolio == IsFiniteSet(DOMAIN positions) /\ positions \in Rows /\ cash \in Int

LEMMA PricesAreNat ==
  /\ Price \subseteq ExecutionPrice /\ ExecutionPrice \subseteq Nat \ {0}
  /\ \A p \in Price : \A side \in {"buy", "sell"} :
       Slipped[side][p] \in ExecutionPrice /\ Slipped[side][p] \in Nat
       /\ Slipped[side][p] <= Slipped["buy"][p]
<1>1. \A p \in Price : \A side \in {"buy", "sell"} : Slipped[side][p] \in Nat \ {0}
  BY SlippedAssumption
<1>2. \A p \in Price : \A side \in {"buy", "sell"} : Slipped[side][p] <= Slipped["buy"][p]
  <2>1. \A p \in Price : p \in Nat /\ Slipped["sell"][p] <= p /\ p <= Slipped["buy"][p]
    BY SlippedAssumption, NumberAssumption
  <2> QED BY <1>1, <2>1
<1>3. \A p \in Price : \A side \in {"buy", "sell"} : Slipped[side][p] \in ExecutionPrice
  BY DEF ExecutionPrice
<1>4. Price \subseteq ExecutionPrice /\ ExecutionPrice \subseteq Nat \ {0}
  <2>1. ASSUME NEW x \in ExecutionPrice PROVE x \in Nat \ {0}
    <3>1. CASE x \in Price
      BY <3>1, NumberAssumption
    <3>2. CASE x \notin Price
      <4>1. PICK side \in {"buy", "sell"}, q \in Price : x = Slipped[side][q]
        BY <3>2 DEF ExecutionPrice
      <4> QED BY <1>1, <4>1
    <3> QED BY <3>1, <3>2
  <2> QED BY <2>1 DEF ExecutionPrice
<1> QED BY <1>1, <1>2, <1>3, <1>4

(* The value of the other positions, at their recorded prices.             *)
RestOf(s) == Total([t \in DOMAIN positions \ {s} |-> positions[t].amount * positions[t].current])

LEMMA RowFields ==
  ASSUME NEW row \in Position
  PROVE  /\ row.amount \in Nat /\ row.entry \in Fraction /\ row.current \in Nat
         /\ row.current \in ExecutionPrice \cup {0}
         /\ row = [amount |-> row.amount, entry |-> row.entry, current |-> row.current]
<1>1. row.amount \in Nat /\ row.entry \in Fraction /\ row.current \in ExecutionPrice \cup {0}
  BY DEF Position
<1>2. row.current \in Nat
  <2>1. CASE row.current = 0
    BY <2>1
  <2>2. CASE row.current \in ExecutionPrice
    BY <2>2, PricesAreNat
  <2> QED BY <1>1, <2>1, <2>2
<1> QED BY <1>1, <1>2 DEF Position

LEMMA ValueType ==
  ASSUME Portfolio, NEW prices, \A t \in DOMAIN positions : prices[t] \in Nat
  PROVE  ValueAt(prices) \in Nat
<1> DEFINE f == [t \in DOMAIN positions |-> positions[t].amount * prices[t]]
<1>1. \A t \in DOMAIN positions : positions[t].amount \in Nat
  BY RowFields DEF Portfolio, Rows
<1>2. \A t \in DOMAIN f : f[t] \in Nat
  BY <1>1, ProductType
<1>3. IsFiniteSet(DOMAIN f)
  BY DEF Portfolio
<1>4. ValueAt(prices) = Total(f)
  BY DEF ValueAt
<1> HIDE DEF f
<1> QED BY <1>2, <1>3, <1>4, TotalType

(* The value of the positions, that of s apart from the others.            *)
LEMMA ValueSplit ==
  ASSUME Portfolio, NEW s \in DOMAIN positions, NEW price \in Nat
  PROVE  /\ RestOf(s) \in Nat
         /\ PositionsValue(s, price) = RestOf(s) + positions[s].amount * price
         /\ ValueAt(Recorded) = RestOf(s) + positions[s].amount * positions[s].current
<1> DEFINE p == [Recorded EXCEPT ![s] = price]
           f == [t \in DOMAIN positions |-> positions[t].amount * p[t]]
           g == [t \in DOMAIN positions |-> positions[t].amount * Recorded[t]]
           rf == [y \in DOMAIN f \ {s} |-> f[y]]
           rg == [y \in DOMAIN g \ {s} |-> g[y]]
           rest == [t \in DOMAIN positions \ {s} |-> positions[t].amount * positions[t].current]
<1>1. \A t \in DOMAIN positions : positions[t].amount \in Nat /\ positions[t].current \in Nat
  BY RowFields DEF Portfolio, Rows
<1>2. /\ \A t \in DOMAIN positions : Recorded[t] = positions[t].current
      /\ \A t \in DOMAIN positions : p[t] = IF t = s THEN price ELSE positions[t].current
  BY DEF Recorded
<1> HIDE DEF p
<1>3. /\ \A t \in DOMAIN f : f[t] \in Nat
      /\ \A t \in DOMAIN g : g[t] \in Nat
  <2>1. \A t \in DOMAIN positions : p[t] \in Nat /\ Recorded[t] \in Nat
    BY <1>1, <1>2
  <2> QED BY <1>1, <2>1, ProductType
<1>4. rf = rest /\ rg = rest
  <2>1. \A t \in DOMAIN positions \ {s} : f[t] = positions[t].amount * positions[t].current
    BY <1>2
  <2>2. \A t \in DOMAIN positions \ {s} : g[t] = positions[t].amount * positions[t].current
    BY <1>2
  <2>3. DOMAIN f = DOMAIN positions /\ DOMAIN g = DOMAIN positions
    OBVIOUS
  <2> HIDE DEF f, g
  <2> QED BY <2>1, <2>2, <2>3
<1>5. /\ f[s] = positions[s].amount * price
      /\ g[s] = positions[s].amount * positions[s].current
  BY <1>2
<1>6. /\ IsFiniteSet(DOMAIN f) /\ IsFiniteSet(DOMAIN g) /\ s \in DOMAIN f /\ s \in DOMAIN g
  BY DEF Portfolio
<1>7. /\ ValueAt(p) = Total(f) /\ ValueAt(Recorded) = Total(g) /\ RestOf(s) = Total(rest)
      /\ PositionsValue(s, price) = ValueAt(p)
  BY DEF ValueAt, RestOf, PositionsValue, p
<1> HIDE DEF f, g, rest
<1>8. Total(rf) \in Nat /\ Total(f) = Total(rf) + f[s]
  BY <1>3, <1>6, TotalSplit
<1>9. Total(rg) \in Nat /\ Total(g) = Total(rg) + g[s]
  BY <1>3, <1>6, TotalSplit
<1> HIDE DEF rf, rg
<1> QED BY <1>4, <1>5, <1>7, <1>8, <1>9

(* One position is the whole value.                                        *)
LEMMA ValueOfOne ==
  ASSUME Portfolio, NEW s, DOMAIN positions = {s}, NEW prices, prices[s] \in Nat
  PROVE  /\ ValueAt(prices) = positions[s].amount * prices[s]
         /\ RestOf(s) = 0
<1> DEFINE f == [t \in DOMAIN positions |-> positions[t].amount * prices[t]]
           r == [y \in DOMAIN f \ {s} |-> f[y]]
           rest == [t \in DOMAIN positions \ {s} |-> positions[t].amount * positions[t].current]
<1>1. positions[s].amount \in Nat
  BY RowFields DEF Portfolio, Rows
<1>2. f[s] \in Nat /\ DOMAIN f = {s}
  BY <1>1, ProductType
<1>3. IsFiniteSet(DOMAIN f)
  BY <1>2 DEF Portfolio
<1>4. ValueAt(prices) = Total(f) /\ f[s] = positions[s].amount * prices[s]
  BY DEF ValueAt
<1>5. DOMAIN r = {} /\ DOMAIN rest = {}
  BY <1>2
<1>6. Total(r) = 0 /\ Total(rest) = 0
  BY <1>5, TotalOfNone
<1>7. RestOf(s) = Total(rest)
  BY DEF RestOf
<1> HIDE DEF f, rest
<1>8. Total(f) = Total(r) + f[s]
  BY <1>2, <1>3, TotalSplit
<1> HIDE DEF r
<1> QED BY <1>2, <1>4, <1>6, <1>7, <1>8

-----------------------------------------------------------------------------
(***************************************************************************)
(* What was paid for the positions                                         *)
(***************************************************************************)
First(U) == CHOOSE t \in U : TRUE

CostStep(q, s) == Plus(q, Times(positions[s].amount, positions[s].entry))

IsCost(m, g, T) ==
  g = [U \in SUBSET T |-> IF U = {} THEN Whole(m)
                          ELSE CostStep(g[U \ {First(U)}], First(U))]

LEMMA FirstIn == ASSUME NEW U, U # {} PROVE First(U) \in U
  BY DEF First

(* Every nonempty family of subsets of a finite set has a minimal one.     *)
LEMMA Smallest ==
  ASSUME NEW S, IsFiniteSet(S), NEW F, F \subseteq SUBSET S, F # {}
  PROVE  \E U \in F : \A V \in F : V \subseteq U => V = U
<1>1. IsWellFoundedOn(StrictSubsetOrdering(S), SUBSET S)
  BY FS_StrictSubsetOrderingWellFounded, FS_FiniteSubsetsOfFinite
<1>2. PICK U \in F : \A V \in F : ~ (<<V, U>> \in StrictSubsetOrdering(S))
  BY <1>1, WFMin
<1>3. ASSUME NEW V \in F, V \subseteq U, V # U PROVE FALSE
  <2>1. <<V, U>> \in (SUBSET S) \X (SUBSET S)
    OBVIOUS
  <2>2. <<V, U>> \in StrictSubsetOrdering(S)
    BY <1>3, <2>1, Zenon DEF StrictSubsetOrdering
  <2> QED BY <1>2, <2>2
<1> QED BY <1>3

LEMMA CostValue ==
  ASSUME NEW m, NEW g, NEW T, IsCost(m, g, T), NEW U, U \subseteq T
  PROVE  g[U] = IF U = {} THEN Whole(m) ELSE CostStep(g[U \ {First(U)}], First(U))
<1>1. g = [V \in SUBSET T |-> IF V = {} THEN Whole(m)
                              ELSE CostStep(g[V \ {First(V)}], First(V))]
  BY DEF IsCost
<1> QED BY <1>1

LEMMA CostIsUnique ==
  ASSUME NEW m, NEW g, NEW S, IsCost(m, g, S), NEW h, NEW T, IsCost(m, h, T), IsFiniteSet(T),
         NEW V, V \subseteq S, V \subseteq T
  PROVE  g[V] = h[V]
<1> DEFINE F == {U \in SUBSET V : g[U] # h[U]}
<1>1. SUFFICES ASSUME F # {} PROVE FALSE
  OBVIOUS
<1>2. IsFiniteSet(V)
  BY FS_Subset
<1>3. PICK U \in F : \A W \in F : W \subseteq U => W = U
  <2>1. F \subseteq SUBSET V
    OBVIOUS
  <2> HIDE DEF F
  <2> QED BY <1>1, <1>2, <2>1, Smallest
<1>4. U # {}
  BY CostValue
<1>5. First(U) \in U
  BY <1>4, FirstIn
<1>6. g[U \ {First(U)}] = h[U \ {First(U)}]
  BY <1>3, <1>5
<1> QED BY <1>4, <1>6, CostValue

LEMMA CostExists == ASSUME NEW m, NEW T, IsFiniteSet(T) PROVE \E g : IsCost(m, g, T)
<1> DEFINE F == {U \in SUBSET T : ~ \E g : IsCost(m, g, U)}
<1>1. SUFFICES ASSUME F # {} PROVE FALSE
  OBVIOUS
<1>2. IsFiniteSet(T)
  OBVIOUS
<1>3. PICK U \in F : \A W \in F : W \subseteq U => W = U
  <2>1. F \subseteq SUBSET T
    OBVIOUS
  <2> HIDE DEF F
  <2> QED BY <1>1, <1>2, <2>1, Smallest
<1> DEFINE G(V) == (CHOOSE g : IsCost(m, g, V))[V]
           Of(V) == IF V = {} THEN Whole(m) ELSE CostStep(G(V \ {First(V)}), First(V))
           h == [V \in SUBSET U |-> IF V = U THEN Of(U) ELSE G(V)]
<1>4. ASSUME NEW V \in SUBSET U, V # U PROVE IsCost(m, CHOOSE g : IsCost(m, g, V), V)
  BY <1>3, <1>4
<1>5. ASSUME NEW V \in SUBSET U, V # U, V # {} PROVE G(V) = CostStep(G(V \ {First(V)}), First(V))
  <2>1. PICK g : g = CHOOSE x : IsCost(m, x, V)
    OBVIOUS
  <2>2. IsCost(m, g, V)
    BY <1>4, <1>5, <2>1
  <2>3. g[V] = CostStep(g[V \ {First(V)}], First(V))
    BY <1>5, <2>2, CostValue
  <2>4. First(V) \in V /\ IsFiniteSet(V)
    <3>1. V \subseteq T
      OBVIOUS
    <3> QED BY <1>2, <1>5, <3>1, FirstIn, FS_Subset
  <2>5. V \ {First(V)} \in SUBSET U /\ V \ {First(V)} # U
    BY <2>4
  <2>6. PICK k : k = CHOOSE x : IsCost(m, x, V \ {First(V)})
    OBVIOUS
  <2>7. IsCost(m, k, V \ {First(V)}) /\ IsFiniteSet(V \ {First(V)})
    BY <1>4, <2>4, <2>5, <2>6, FS_Subset
  <2>8. g[V \ {First(V)}] = k[V \ {First(V)}]
    BY <2>2, <2>7, CostIsUnique
  <2> QED BY <2>1, <2>3, <2>6, <2>8
<1>6. G({}) = Whole(m) \/ U = {}
  <2>1. SUFFICES ASSUME U # {} PROVE G({}) = Whole(m)
    OBVIOUS
  <2>2. PICK g : g = CHOOSE x : IsCost(m, x, {})
    OBVIOUS
  <2>3. IsCost(m, g, {})
    BY <1>4, <2>1, <2>2
  <2> QED BY <2>2, <2>3, CostValue
<1>7. ASSUME NEW V \in SUBSET U PROVE h[V] = Of(V)
  <2> HIDE DEF G
  <2> QED BY <1>5, <1>6
<1>8. ASSUME NEW V \in SUBSET U, V # {} PROVE h[V \ {First(V)}] = G(V \ {First(V)})
  <2>1. First(V) \in V
    BY <1>8, FirstIn
  <2> HIDE DEF G
  <2> QED BY <2>1
<1> HIDE DEF G
<1>9. \A V \in SUBSET U :
        h[V] = IF V = {} THEN Whole(m) ELSE CostStep(h[V \ {First(V)}], First(V))
  <2>1. ASSUME NEW V \in SUBSET U
        PROVE  h[V] = IF V = {} THEN Whole(m) ELSE CostStep(h[V \ {First(V)}], First(V))
    <3>1. CASE V = {}
      BY <1>7, <3>1
    <3>2. CASE V # {}
      <4>1. h[V] = CostStep(G(V \ {First(V)}), First(V))
        BY <1>7, <3>2
      <4> HIDE DEF h
      <4> QED BY <1>8, <3>2, <4>1
    <3> QED BY <3>1, <3>2
  <2> QED BY <2>1
<1>10. h = [V \in SUBSET U |-> h[V]]
  OBVIOUS
<1> HIDE DEF h
<1>11. IsCost(m, h, U)
  BY <1>9, <1>10 DEF IsCost
<1> QED BY <1>3, <1>11

LEMMA CostTyped ==
  ASSUME Portfolio, NEW m \in Int
  PROVE  CashAtCost(m) \in Fraction
<1>1. IsFiniteSet(Held)
  BY FS_Subset DEF Held, Portfolio
<1>2. PICK g : IsCost(m, g, Held) /\ CashAtCost(m) = g[Held]
  <2>1. CashAtCost(m) = (CHOOSE g : IsCost(m, g, Held))[Held]
    BY DEF CashAtCost, IsCost, CostStep, First
  <2>2. \E g : IsCost(m, g, Held)
    BY <1>1, CostExists
  <2> QED BY <2>1, <2>2
<1> DEFINE F == {U \in SUBSET Held : g[U] \notin Fraction}
<1>3. ASSUME F # {} PROVE FALSE
  <2>1. PICK U \in F : \A W \in F : W \subseteq U => W = U
    <3>1. F \subseteq SUBSET Held
      OBVIOUS
    <3> HIDE DEF F
    <3> QED BY <1>1, <1>3, <3>1, Smallest
  <2>2. U # {}
    BY <1>2, CostValue, WholeTyped DEF Portfolio
  <2>3. First(U) \in U
    BY <2>2, FirstIn
  <2>4. g[U \ {First(U)}] \in Fraction
    BY <2>1, <2>3
  <2>5. Times(positions[First(U)].amount, positions[First(U)].entry) \in Fraction
    BY <2>1, <2>3, RowFields, TimesTyped DEF Held, Portfolio, Rows
  <2>6. g[U] = Plus(g[U \ {First(U)}],
                    Times(positions[First(U)].amount, positions[First(U)].entry))
    BY <1>2, <2>1, <2>2, CostValue DEF CostStep
  <2> QED BY <2>4, <2>5, <2>6, PlusTyped
<1> QED BY <1>2, <1>3

(* One position is all that was paid for.                                  *)
LEMMA CostOfOne ==
  ASSUME Portfolio, NEW m, NEW s, DOMAIN positions = {s}
  PROVE  CashAtCost(m) = IF positions[s].amount > 0
                      THEN Plus(Whole(m), Times(positions[s].amount, positions[s].entry))
                      ELSE Whole(m)
<1>1. Held = IF positions[s].amount > 0 THEN {s} ELSE {}
  BY DEF Held
<1>2. IsFiniteSet(Held)
  BY FS_Subset DEF Held, Portfolio
<1>3. PICK g : IsCost(m, g, Held) /\ CashAtCost(m) = g[Held]
  <2>1. CashAtCost(m) = (CHOOSE g : IsCost(m, g, Held))[Held]
    BY DEF CashAtCost, IsCost, CostStep, First
  <2>2. \E g : IsCost(m, g, Held)
    BY <1>2, CostExists
  <2> QED BY <2>1, <2>2
<1>4. g[{}] = Whole(m)
  BY <1>3, CostValue
<1>5. CASE positions[s].amount > 0
  <2>1. Held = {s} /\ First({s}) = s /\ {s} \ {s} = {}
    BY <1>1, <1>5, FirstIn
  <2>2. g[{s}] = CostStep(g[{s} \ {First({s})}], First({s}))
    BY <1>3, <2>1, CostValue
  <2> QED BY <1>3, <1>4, <1>5, <2>1, <2>2 DEF CostStep
<1>6. CASE ~(positions[s].amount > 0)
  BY <1>1, <1>3, <1>4, <1>6
<1> QED BY <1>5, <1>6

-----------------------------------------------------------------------------
(***************************************************************************)
(* The inductive invariant                                                 *)
(***************************************************************************)
Deployable(o) == o.kind \in deployed.kinds /\ o.symbol \in deployed.symbols

(* The limit that the check of a buy has found to hold.                    *)
WithinTotal(o) ==
  (PositionsValue(o.symbol, o.price) + o.amount * o.price) * 100
    <= TotalLimit * TotalAssets(cash, o.symbol, o.price)

(* What the positions cost, with the cash, is not above the highest equity.*)
CostReached ==
  \A s \in deployed.symbols :
    cash * positions[s].entry.den + positions[s].amount * positions[s].entry.num
      <= best * positions[s].entry.den

PeaksReached == \A e \in Engine : peaks[e] # NoPeak => ~Exceeds(peaks[e], Whole(best))

(* The order that process p has checked and not placed yet.                *)
Awaits(p, o) == checked[p] # NoOrder /\ checked[p].order = o

(* The order for whose check process p has read the cash.                  *)
Asks(p, o) == asked[p] # NoOrder /\ asked[p].order = o

Wants(p, o) == Awaits(p, o) \/ Asks(p, o)

(* A process does one thing at a time, and nobody moves the cash that it   *)
(* has read when no other process runs.                                    *)
Undisturbed ==
  \A p \in Process : asked[p] # NoOrder =>
    checked[p] = NoOrder /\ (Alone => asked[p].cash = cash)

(* For any deployment: orders are of it, what is frozen is there, and no   *)
(* equity was higher than the highest.                                     *)
Sound ==
  /\ RiskTypeOK
  /\ IsFiniteSet(open)
  /\ \A x \in open : x.id <= placed /\ x.order.kind # "market" /\ Deployable(x.order)
  /\ \A p \in Process, o \in Order : Wants(p, o) => p \in Running /\ Deployable(o)
  /\ Undisturbed
  /\ FrozenCash <= cash
  /\ Equity <= best

(* For one engine of market orders: what its check found holds until the   *)
(* order is placed.                                                        *)
Vetted ==
  MarketOnly => \A p \in Process, o \in Order :
    Awaits(p, o) /\ o.side = "buy" => WithinTotal(o)

(* For one engine of market orders in one symbol: neither a peak, nor what *)
(* the positions cost, nor what a check takes the portfolio to be worth is *)
(* above the highest equity at the prices of buys.                         *)
Reached ==
  MarketOnly /\ OneSymbol =>
    /\ PeaksReached /\ CostReached
    /\ \A p \in Process, o \in Order : Wants(p, o) =>
         TotalAssets(cash, o.symbol, o.price) <= best

RiskInv == Sound /\ Vetted /\ Reached

-----------------------------------------------------------------------------
(***************************************************************************)
(* What is frozen, what there is                                           *)
(***************************************************************************)
Claim(x) == IF x.order.side = "buy" THEN x.order.amount * x.order.price ELSE 0
FrozenFor(O) == Total([x \in O |-> Claim(x)])

LEMMA OrderFields ==
  ASSUME NEW o \in Order
  PROVE  /\ o.kind \in {"market", "limit"} /\ o.side \in {"buy", "sell"} /\ o.symbol \in Symbol
         /\ o.amount \in Amount /\ o.amount \in Nat \ {0} /\ o.price \in ExecutionPrice
         /\ o.price \in Nat \ {0} /\ o.amount * o.price \in Nat
<1>1. /\ o.kind \in {"market", "limit"} /\ o.side \in {"buy", "sell"} /\ o.symbol \in Symbol
      /\ o.amount \in Amount /\ o.price \in ExecutionPrice
  BY DEF Order
<1>2. o.amount \in Nat \ {0} /\ o.price \in Nat \ {0}
  BY <1>1, NumberAssumption, PricesAreNat
<1> QED BY <1>1, <1>2, ProductType

LEMMA FrozenIsFor == FrozenCash = FrozenFor(open) /\ FrozenCash' = FrozenFor(open')
  BY DEF FrozenCash, FrozenFor, Claim

LEMMA FrozenGrows ==
  ASSUME NEW O, IsFiniteSet(O), \A x \in O : x.order \in Order,
         NEW y, y.order \in Order
  PROVE  /\ FrozenFor(O) \in Nat /\ Claim(y) \in Nat
         /\ y \notin O => FrozenFor(O \cup {y}) = FrozenFor(O) + Claim(y)
<1> DEFINE f == [x \in O |-> Claim(x)]
           g == [x \in O \cup {y} |-> Claim(x)]
<1>1. \A x \in O \cup {y} : Claim(x) \in Nat
  BY OrderFields DEF Claim
<1>2. /\ DOMAIN f = O /\ DOMAIN g = O \cup {y} /\ g[y] = Claim(y) /\ g[y] \in Nat
      /\ \A x \in O : f[x] \in Nat /\ g[x] = f[x]
  BY <1>1
<1>3. FrozenFor(O) = Total(f) /\ FrozenFor(O \cup {y}) = Total(g)
  BY DEF FrozenFor
<1> HIDE DEF f, g
<1>4. Total(f) \in Nat
  BY <1>2, TotalType
<1>5. y \notin O => Total(g) = Total(f) + g[y]
  BY <1>2, TotalGrows
<1> QED BY <1>1, <1>2, <1>3, <1>4, <1>5

(* Without one of its orders.                                              *)
LEMMA FrozenShrinks ==
  ASSUME NEW O, IsFiniteSet(O), \A x \in O : x.order \in Order, NEW y \in O
  PROVE  /\ FrozenFor(O \ {y}) \in Nat /\ Claim(y) \in Nat
         /\ FrozenFor(O) = FrozenFor(O \ {y}) + Claim(y)
<1>1. IsFiniteSet(O \ {y}) /\ (O \ {y}) \cup {y} = O /\ y \notin O \ {y}
  BY FS_Subset
<1>2. \A x \in O \ {y} : x.order \in Order
  OBVIOUS
<1> QED BY <1>1, <1>2, FrozenGrows

-----------------------------------------------------------------------------
LEMMA TypedFacts ==
  ASSUME RiskTypeOK
  PROVE  /\ Portfolio /\ DOMAIN positions = deployed.symbols
         /\ deployed.symbols \subseteq Symbol /\ deployed.engines \subseteq Engine
         /\ \A t \in DOMAIN positions : /\ positions[t] \in Position /\ positions[t].amount \in Nat
                                        /\ market[t] \in Price /\ market[t] \in Nat
         /\ cash \in Int /\ best \in Nat
         /\ \A x \in open : x.order \in Order
         /\ \A p \in Process : checked[p] # NoOrder =>
              checked[p].engine \in Engine /\ checked[p].order \in Order
         /\ \A p \in Process : asked[p] # NoOrder =>
              /\ asked[p].engine \in Engine /\ asked[p].order \in Order
              /\ asked[p].cash \in Int
<1>1. deployed.symbols \subseteq Symbol /\ deployed.engines \subseteq Engine
  BY DeploymentsAssumption DEF RiskTypeOK
<1>2. IsFiniteSet(deployed.symbols)
  BY <1>1, SymbolAssumption, FS_Subset
<1>3. DOMAIN positions = deployed.symbols /\ positions \in [deployed.symbols -> Position]
  BY DEF RiskTypeOK
<1>4. \A t \in DOMAIN positions : market[t] \in Price /\ market[t] \in Nat
  BY <1>3, NumberAssumption DEF RiskTypeOK
<1>5. \A t \in DOMAIN positions : positions[t] \in Position /\ positions[t].amount \in Nat
  BY <1>3, RowFields
<1>6. \A x \in open : x.order \in Order
  BY DEF RiskTypeOK
<1>7. \A p \in Process : checked[p] # NoOrder =>
        checked[p].engine \in Engine /\ checked[p].order \in Order
  BY DEF RiskTypeOK
<1>9. \A p \in Process : asked[p] # NoOrder =>
        asked[p].engine \in Engine /\ asked[p].order \in Order /\ asked[p].cash \in Int
  BY DEF RiskTypeOK
<1>8. Portfolio
  BY <1>2, <1>3 DEF Portfolio, Rows, RiskTypeOK
<1> QED BY <1>1, <1>3, <1>4, <1>5, <1>6, <1>7, <1>8, <1>9 DEF RiskTypeOK

Priced == Portfolio /\ \A t \in DOMAIN positions : market[t] \in Price

EquityInt == Equity \in Int

LEMMA EquityTyped == Priced => EquityInt
<1>1. ASSUME Priced PROVE Equity \in Int
  <2>1. PICK f : f = [t \in DOMAIN positions |-> Slipped["buy"][market[t]]]
    OBVIOUS
  <2>2. \A t \in DOMAIN positions : f[t] \in Nat
    BY <1>1, <2>1, PricesAreNat DEF Priced
  <2>3. ValueAt(f) \in Nat /\ cash \in Int
    BY <1>1, <2>2, ValueType DEF Priced, Portfolio
  <2> QED BY <2>1, <2>3 DEF Equity
<1> QED BY <1>1 DEF EquityInt

LEMMA RecordedSplit ==
  RiskTypeOK => \A s \in deployed.symbols :
    /\ RestOf(s) \in Nat
    /\ ValueAt(Recorded) = RestOf(s) + positions[s].amount * positions[s].current
<1> SUFFICES ASSUME RiskTypeOK, NEW s \in deployed.symbols
             PROVE  /\ RestOf(s) \in Nat
                    /\ ValueAt(Recorded) = RestOf(s) + positions[s].amount * positions[s].current
  OBVIOUS
<1>1. Portfolio /\ s \in DOMAIN positions /\ 0 \in Nat
  BY TypedFacts
<1> QED BY <1>1, ValueSplit

(* What the check takes the portfolio to be worth.                         *)
LEMMA AssetsAre ==
  ASSUME RiskTypeOK, NEW s \in deployed.symbols, NEW price \in Nat
  PROVE  /\ \A money \in Int : /\ TotalAssets(money, s, price)
                                     = money + (RestOf(s) + positions[s].amount * price)
                                /\ TotalAssets(money, s, price) \in Int
         /\ PositionsValue(s, price) = RestOf(s) + positions[s].amount * price
         /\ RestOf(s) \in Nat /\ positions[s].amount * price \in Nat
         /\ cash \in Int
<1>1. /\ PositionsValue(s, price) = RestOf(s) + positions[s].amount * price
      /\ RestOf(s) \in Nat /\ positions[s].amount \in Nat /\ cash \in Int
  BY TypedFacts, ValueSplit
<1>2. positions[s].amount * price \in Nat
  BY <1>1, ProductType
<1> QED BY <1>1, <1>2 DEF TotalAssets

(* With one symbol, a market order is checked at no more than the equity.  *)
LEMMA AssetsAreEquity ==
  ASSUME RiskTypeOK, OneSymbol, NEW s \in deployed.symbols
  PROVE  /\ \A side \in {"buy", "sell"} :
              TotalAssets(cash, s, Slipped[side][market[s]]) <= Equity
         /\ RestOf(s) = 0
         /\ \A price \in Nat : TotalAssets(cash, s, price) = cash + positions[s].amount * price
<1>1. deployed.symbols = {s}
  BY DEF OneSymbol
<1>2. /\ Portfolio /\ DOMAIN positions = {s} /\ market[s] \in Price /\ cash \in Int
      /\ positions[s].amount \in Nat
  BY <1>1, TypedFacts
<1>3. PICK f : f = [t \in DOMAIN positions |-> Slipped["buy"][market[t]]]
  OBVIOUS
<1>4. PICK q \in Nat : q = Slipped["buy"][market[s]] /\ f[s] = q
  BY <1>2, <1>3, PricesAreNat
<1>5. ValueAt(f) = positions[s].amount * q /\ RestOf(s) = 0
  BY <1>2, <1>4, ValueOfOne
<1>6. ASSUME NEW price \in Nat
      PROVE  TotalAssets(cash, s, price) = cash + positions[s].amount * price
  <2>1. TotalAssets(cash, s, price) = cash + (RestOf(s) + positions[s].amount * price)
    BY <1>2, AssetsAre
  <2>2. positions[s].amount * price \in Nat
    BY <1>2, ProductType
  <2> QED BY <1>2, <1>5, <2>1, <2>2
<1>7. ASSUME NEW side \in {"buy", "sell"}
      PROVE  TotalAssets(cash, s, Slipped[side][market[s]]) <= Equity
  <2>1. PICK p \in Nat : p = Slipped[side][market[s]] /\ p <= q
    BY <1>2, <1>4, PricesAreNat
  <2>2. positions[s].amount * p <= positions[s].amount * q
        /\ positions[s].amount * p \in Nat /\ positions[s].amount * q \in Nat
    BY <1>2, <2>1
  <2>3. Equity = cash + positions[s].amount * q
    BY <1>3, <1>5 DEF Equity
  <2> QED BY <1>2, <1>6, <2>1, <2>2, <2>3
<1> QED BY <1>5, <1>6, <1>7

(* With market orders only, one process acts, and when it starts anything  *)
(* but placing no order is checked.                                        *)
LEMMA NobodyElse ==
  ASSUME RiskTypeOK, MarketOnly, NEW p \in Running, NEW q \in Running
  PROVE  p = q
  BY DEF MarketOnly, Running

LEMMA NothingOpen == ASSUME Sound, MarketOnly PROVE open = {}
<1>1. \A x \in open : x.order.kind # "market" /\ x.order.kind \in deployed.kinds
  BY DEF Sound, Deployable
<1> QED BY <1>1 DEF MarketOnly

(* The highest equity so far.                                              *)
LEMMA BestGrows ==
  ASSUME RiskTypeOK, UNCHANGED deployed, positions' \in [deployed.symbols -> Position],
         cash' \in Int, market' \in [deployed.symbols -> Price],
         best' = (IF Equity' > best THEN Equity' ELSE best)
  PROVE  best' \in Nat /\ best <= best' /\ Equity' <= best'
<1>1. IsFiniteSet(deployed.symbols) /\ best \in Nat
  BY TypedFacts DEF Portfolio
<1>2. DOMAIN positions' = deployed.symbols
  OBVIOUS
<1>3. Portfolio'
  BY <1>1, <1>2 DEF Portfolio, Rows
<1>4. Priced'
  BY <1>2, <1>3 DEF Priced
<1>5. EquityInt'
  BY <1>4, EquityTyped, PTL
<1> QED BY <1>1, <1>5 DEF EquityInt

-----------------------------------------------------------------------------
(***************************************************************************)
(* A settlement                                                            *)
(***************************************************************************)
LEMMA SettledRow ==
  ASSUME RiskTypeOK, NEW o \in Order, o.symbol \in deployed.symbols, NEW q \in ExecutionPrice,
         o.side = "sell" => positions[o.symbol].amount >= o.amount
  PROVE  LET row == positions[o.symbol] IN
         /\ Filled(o, q) \in Position
         /\ Filled(o, q).amount = IF o.side = "buy" THEN row.amount + o.amount
                                                    ELSE row.amount - o.amount
         /\ Filled(o, q).current = q
         /\ Filled(o, q).entry = IF o.side = "sell" THEN row.entry
              ELSE IF row.amount = 0 THEN Whole(q)
              ELSE [num |-> row.amount * row.entry.num + o.amount * q * row.entry.den,
                    den |-> (row.amount + o.amount) * row.entry.den]
<1>1. PICK row \in Position : row = positions[o.symbol]
  BY TypedFacts
<1>2. PICK a \in Nat, e \in Fraction, c \in Nat :
        row = [amount |-> a, entry |-> e, current |-> c]
  BY RowFields
<1>3. PICK n \in Nat \ {0} : n = o.amount
  BY OrderFields
<1>4. q \in Nat
  BY PricesAreNat
<1>5. e.num \in Int /\ e.den \in Nat \ {0}
  BY FractionFields
<1>6. CASE o.side = "sell"
  <2>1. Filled(o, q) = [row EXCEPT !.amount = @ - n, !.current = q]
    BY <1>1, <1>3, <1>6 DEF Filled
  <2>2. Filled(o, q) = [amount |-> a - n, entry |-> e, current |-> q]
    BY <1>2, <2>1
  <2>3. a - n \in Nat
    BY <1>1, <1>2, <1>3, <1>6
  <2>4. [amount |-> a - n, entry |-> e, current |-> q] \in Position
    BY <2>3 DEF Position
  <2> QED BY <1>1, <1>2, <1>3, <1>6, <2>2, <2>4
<1>7. CASE o.side = "buy"
  <2>1. PICK f : f = IF a = 0 THEN Whole(q) ELSE [num |-> a * e.num + n * q * e.den,
                                                  den |-> (a + n) * e.den]
    OBVIOUS
  <2>2. f \in Fraction
    <3>1. a * e.num + n * q * e.den \in Int
      BY <1>4, <1>5, ProductType
    <3>2. a + n \in Nat \ {0}
      OBVIOUS
    <3>3. (a + n) * e.den \in Nat \ {0}
      BY <1>5, <3>2, ProductType
    <3> QED BY <1>4, <2>1, <3>1, <3>3, WholeTyped DEF Fraction
  <2>3. Filled(o, q) = [amount |-> a + n, entry |-> f, current |-> q]
    BY <1>1, <1>2, <1>3, <1>7, <2>1 DEF Filled
  <2>4. a + n \in Nat
    OBVIOUS
  <2>5. [amount |-> a + n, entry |-> f, current |-> q] \in Position
    BY <2>2, <2>4 DEF Position
  <2> QED BY <1>1, <1>2, <1>3, <1>7, <2>1, <2>3, <2>5
<1> QED BY <1>6, <1>7, OrderFields

LEMMA Settled ==
  ASSUME RiskTypeOK, NEW o \in Order, o.symbol \in deployed.symbols, NEW q \in ExecutionPrice,
         o.side = "sell" => positions[o.symbol].amount >= o.amount,
         Settle(o, q), UNCHANGED deployed
  PROVE  /\ positions' \in [deployed'.symbols -> Position]
         /\ DOMAIN positions' = DOMAIN positions
         /\ positions'[o.symbol] = Filled(o, q)
         /\ \A t \in DOMAIN positions : t # o.symbol => positions'[t] = positions[t]
         /\ cash' \in Int
         /\ cash' = IF o.side = "buy" THEN cash - o.amount * q ELSE cash + o.amount * q
         /\ RestOf(o.symbol)' = RestOf(o.symbol)
<1>1. /\ DOMAIN positions = deployed.symbols /\ cash \in Int
      /\ \A t \in DOMAIN positions : positions[t] \in Position
  BY TypedFacts
<1>2. positions' = [positions EXCEPT ![o.symbol] = Filled(o, q)]
  BY DEF Settle
<1>3. Filled(o, q) \in Position
  BY SettledRow
<1>4. /\ DOMAIN positions' = DOMAIN positions /\ positions'[o.symbol] = Filled(o, q)
      /\ \A t \in DOMAIN positions : t # o.symbol => positions'[t] = positions[t]
  BY <1>1, <1>2
<1>5. positions' \in [deployed'.symbols -> Position]
  BY <1>1, <1>2, <1>3 DEF RiskTypeOK
<1>6. o.amount * q \in Nat
  BY OrderFields, PricesAreNat, ProductType
<1>7. cash' = IF o.side = "buy" THEN cash - o.amount * q ELSE cash + o.amount * q
  BY DEF Settle
<1>8. RestOf(o.symbol)' = RestOf(o.symbol)
  <2>1. RestOf(o.symbol)' = Total([t \in DOMAIN positions' \ {o.symbol} |->
                                     positions'[t].amount * positions'[t].current])
    BY DEF RestOf
  <2>2. [t \in DOMAIN positions' \ {o.symbol} |-> positions'[t].amount * positions'[t].current]
          = [t \in DOMAIN positions \ {o.symbol} |-> positions[t].amount * positions[t].current]
    BY <1>4
  <2> QED BY <2>1, <2>2 DEF RestOf
<1> QED BY <1>1, <1>4, <1>5, <1>6, <1>7, <1>8

-----------------------------------------------------------------------------
(***************************************************************************)
(* What the positions cost after a settlement                              *)
(***************************************************************************)
(* Buying more changes cash and cost by the same amount.                   *)
LEMMA CostBought ==
  ASSUME NEW c \in Int, NEW a \in Nat, NEW n \in Nat, NEW p \in Int, NEW d \in Int, NEW e \in Int,
         NEW b \in Int, c * d + a * e <= b * d
  PROVE  (c - n * p) * ((a + n) * d) + (a + n) * (a * e + n * p * d) <= b * ((a + n) * d)
<1>1. PICK m \in Nat : m = a + n
  OBVIOUS
<1>2. PICK x \in Int, y \in Int, z \in Int, w \in Int :
        x = c * d /\ y = a * e /\ z = b * d /\ w = n * p
  BY ProductType
<1>3. (c - w) * (m * d) + m * (y + w * d) = m * (x + y)
  <2>1. (c - w) * (m * d) = m * (c * d) - m * (w * d)
    OBVIOUS
  <2>2. m * (y + w * d) = m * y + m * (w * d)
    BY ProductType
  <2>3. m * (x + y) = m * x + m * y
    OBVIOUS
  <2>4. m * x \in Int /\ m * y \in Int /\ m * (w * d) \in Int
    BY ProductType
  <2> QED BY <1>2, <2>1, <2>2, <2>3, <2>4
<1>4. m * (x + y) <= m * z
  BY <1>1, <1>2
<1>5. m * z = b * (m * d)
  BY <1>2
<1> QED BY <1>1, <1>2, <1>3, <1>4, <1>5

(* Selling n of a units: between the value before and the cost before.     *)
LEMMA CostSold ==
  ASSUME NEW c \in Int, NEW a \in Nat, NEW n \in Nat \ {0}, NEW p \in Int, NEW d \in Nat \ {0},
         NEW e \in Int, NEW b \in Int, n <= a, c * d + a * e <= b * d, c + a * p <= b
  PROVE  (c + n * p) * d + (a - n) * e <= b * d
<1>1. PICK k \in Nat : k = a - n
  OBVIOUS
<1>2. PICK cd \in Int, ae \in Int, bd \in Int, pd \in Int, apd \in Int :
        cd = c * d /\ ae = a * e /\ bd = b * d /\ pd = p * d /\ apd = a * pd
  BY ProductType
<1>3. cd + apd <= bd
  <2>1. PICK ap \in Int : ap = a * p
    BY ProductType
  <2>2. (c + ap) * d <= b * d
    BY <2>1
  <2>3. (c + ap) * d = cd + ap * d /\ ap * d \in Int
    BY <1>2, ProductType
  <2>4. ap * d = apd
    BY <1>2, <2>1
  <2> QED BY <1>2, <2>2, <2>3, <2>4
<1>4. n * (cd + apd) + k * (cd + ae) <= a * bd
  <2>1. n * (cd + apd) <= n * bd
    BY <1>3
  <2>2. k * (cd + ae) <= k * bd
    BY <1>2
  <2>3. n * bd + k * bd = a * bd
    BY <1>1
  <2>4. /\ n * (cd + apd) \in Int /\ n * bd \in Int /\ k * (cd + ae) \in Int /\ k * bd \in Int
        /\ a * bd \in Int
    BY ProductType
  <2> QED BY <2>1, <2>2, <2>3, <2>4
<1>5. PICK x \in Int : x = (cd + n * pd) + k * e
  BY ProductType
<1>6. a * x = n * (cd + apd) + k * (cd + ae)
  <2>1. a * x = a * cd + a * (n * pd) + a * (k * e)
    BY <1>5, ProductType
  <2>2. n * (cd + apd) = n * cd + n * apd
    OBVIOUS
  <2>3. k * (cd + ae) = k * cd + k * ae
    OBVIOUS
  <2>4. a * (n * pd) = n * apd /\ a * (k * e) = k * ae
    BY <1>2
  <2>5. n * cd + k * cd = a * cd
    BY <1>1
  <2>6. /\ a * cd \in Int /\ n * apd \in Int /\ k * ae \in Int /\ n * cd \in Int /\ k * cd \in Int
    BY ProductType
  <2> QED BY <2>1, <2>2, <2>3, <2>4, <2>5, <2>6
<1>7. x <= bd
  <2>1. a * x <= a * bd
    BY <1>4, <1>6
  <2>2. a > 0
    OBVIOUS
  <2> QED BY <2>1, <2>2
<1>8. (c + n * p) * d = cd + n * pd
  BY <1>2
<1> QED BY <1>1, <1>2, <1>5, <1>7, <1>8

-----------------------------------------------------------------------------
(***************************************************************************)
(* The invariant holds at the start                                        *)
(***************************************************************************)
LEMMA RiskStarts == ASSUME RiskInit PROVE RiskInv
<1>1. Capital \in Nat /\ MaxOrders \in Nat
  BY NumberAssumption
<1>2. positions = [s \in deployed.symbols |-> [amount |-> 0, entry |-> Whole(0), current |-> 0]]
  BY DEF RiskInit
<1>3. RiskTypeOK
  <2>1. [amount |-> 0, entry |-> Whole(0), current |-> 0] \in Position
    BY WholeTyped DEF Position
  <2>2. positions \in [deployed.symbols -> Position]
    BY <1>2, <2>1
  <2>3. checked \in [Process -> [engine : Engine, order : Order] \cup {NoOrder}]
    BY DEF RiskInit
  <2>4. peaks \in [Engine -> Fraction \cup {NoPeak}]
    BY DEF RiskInit
  <2>5. asked \in [Process -> [engine : Engine, order : Order, cash : Int] \cup {NoOrder}]
    BY DEF RiskInit
  <2> QED BY <1>1, <2>2, <2>3, <2>4, <2>5 DEF RiskInit, RiskTypeOK
<1>4. Portfolio /\ DOMAIN positions = deployed.symbols
      /\ \A t \in DOMAIN positions : market[t] \in Price /\ positions[t].amount = 0
  BY <1>2, <1>3, TypedFacts
<1>5. open = {} /\ cash = Capital /\ best = Capital
  BY DEF RiskInit
<1>6. FrozenCash = 0
  <2>1. DOMAIN [x \in open |-> Claim(x)] = {}
    BY <1>5
  <2> QED BY <2>1, FrozenIsFor, TotalOfNone DEF FrozenFor
<1>7. Equity = Capital
  <2> DEFINE q == [t \in DOMAIN positions |-> Slipped["buy"][market[t]]]
             f == [t \in DOMAIN positions |-> positions[t].amount * q[t]]
  <2>1. \A t \in DOMAIN positions : f[t] = 0
    <3>1. \A t \in DOMAIN positions : q[t] \in Nat
      BY <1>4, PricesAreNat
    <3> HIDE DEF q
    <3> QED BY <1>4, <3>1
  <2>2. Units(f) = {}
    <3>1. DOMAIN f = DOMAIN positions
      OBVIOUS
    <3> HIDE DEF f
    <3> QED BY <2>1, <3>1 DEF Units
  <2>3. Total(f) = 0
    BY <2>2, FS_EmptySet DEF Total
  <2>4. ValueAt(q) = Total(f) /\ Equity = cash + ValueAt(q)
    BY DEF ValueAt, Equity
  <2> HIDE DEF f
  <2> QED BY <1>1, <1>5, <2>3, <2>4
<1>8. \A p \in Process, o \in Order : ~Awaits(p, o) /\ ~Wants(p, o)
  BY DEF RiskInit, Awaits, Asks, Wants
<1>9. Sound
  <2>1. IsFiniteSet(open)
    BY <1>5, FS_EmptySet
  <2>2. Undisturbed
    BY DEF RiskInit, Undisturbed
  <2> QED BY <1>1, <1>3, <1>5, <1>6, <1>7, <1>8, <2>1, <2>2 DEF Sound
<1>10. CostReached
  <2>1. ASSUME NEW s \in deployed.symbols
        PROVE  cash * positions[s].entry.den + positions[s].amount * positions[s].entry.num
                 <= best * positions[s].entry.den
    <3>1. positions[s].amount = 0 /\ positions[s].entry = Whole(0)
      BY <1>2
    <3>2. positions[s].entry.den = 1 /\ positions[s].entry.num = 0
      BY <3>1, WholeTyped
    <3> QED BY <1>1, <1>5, <3>1, <3>2
  <2> QED BY <2>1 DEF CostReached
<1>11. PeaksReached
  BY DEF PeaksReached, RiskInit
<1>12. Vetted
  BY <1>8 DEF Vetted
<1>13. Reached
  BY <1>8, <1>10, <1>11 DEF Reached
<1> QED BY <1>9, <1>12, <1>13 DEF RiskInv

(* The portfolio's worth to a check changes with its cash and positions.   *)
LEMMA AssetsStay ==
  ASSUME UNCHANGED <<cash, positions>>
  PROVE  \A s, price : /\ TotalAssets(cash, s, price)' = TotalAssets(cash, s, price)
                       /\ PositionsValue(s, price)' = PositionsValue(s, price)
  BY DEF TotalAssets, PositionsValue, ValueAt, Recorded

LEMMA TypeParts ==
  ASSUME Sound
  PROVE  /\ RiskTypeOK /\ placed \in 0..MaxOrders /\ placed \in Int /\ MaxOrders \in Int
         /\ positions \in [deployed.symbols -> Position] /\ cash \in Int
         /\ market \in [deployed.symbols -> Price] /\ best \in Nat
         /\ open \subseteq [id : 1..MaxOrders, order : Order] /\ IsFiniteSet(open)
         /\ peaks \in [Engine -> Fraction \cup {NoPeak}]
         /\ DOMAIN checked = Process /\ checked = [p \in Process |-> checked[p]]
         /\ DOMAIN asked = Process /\ asked = [p \in Process |-> asked[p]]
         /\ FrozenFor(open) <= cash /\ FrozenFor(open) \in Nat
<1>1. RiskTypeOK /\ IsFiniteSet(open) /\ FrozenFor(open) <= cash
  BY FrozenIsFor DEF Sound
<1>2. FrozenFor(open) \in Nat
  <2>1. \A x \in open : Claim(x) \in Nat
    BY <1>1, TypedFacts, OrderFields DEF Claim
  <2> DEFINE f == [x \in open |-> Claim(x)]
  <2>2. IsFiniteSet(DOMAIN f) /\ \A x \in DOMAIN f : f[x] \in Nat
    BY <1>1, <2>1
  <2>3. FrozenFor(open) = Total(f)
    BY DEF FrozenFor
  <2> HIDE DEF f
  <2> QED BY <2>2, <2>3, TotalType
<1> QED BY <1>1, <1>2, NumberAssumption DEF RiskTypeOK

-----------------------------------------------------------------------------
(***************************************************************************)
(* Checking an order                                                       *)
(***************************************************************************)
LEMMA CheckedPeak ==
  ASSUME RiskTypeOK, NEW e \in Engine, NEW money \in Int, NEW total \in Int
  PROVE  /\ UpdatePeak(e, money, total) \in Fraction
         /\ DrawdownLimit \in Int
         /\ TooDeep(total, CashAtCost(money)) => TooDeep(total, UpdatePeak(e, money, total))
         /\ UpdatePeak(e, money, total) \in {Whole(total), CashAtCost(money), peaks[e]}
         /\ peaks[e] = NoPeak => UpdatePeak(e, money, total) \in {Whole(total), CashAtCost(money)}
<1>1. PICK c \in Fraction : c = CashAtCost(money)
  BY CostTyped, TypedFacts
<1>2. PICK w \in Fraction : w = Whole(total)
  BY WholeTyped
<1>3. PICK m : m = Larger(w, c)
  OBVIOUS
<1>4. m \in Fraction /\ m \in {w, c} /\ ~Exceeds(c, m)
  BY <1>3, LargerIs
<1>5. UpdatePeak(e, money, total) = IF peaks[e] = NoPeak THEN m ELSE Larger(peaks[e], m)
  BY <1>1, <1>2, <1>3 DEF UpdatePeak
<1>6. peaks[e] # NoPeak => peaks[e] \in Fraction
  BY DEF RiskTypeOK
<1>7. TooDeep(total, c) => TooDeep(total, m)
  BY <1>4, DeeperFromAbove
<1>8. CASE peaks[e] = NoPeak
  BY <1>1, <1>2, <1>4, <1>5, <1>7, <1>8, LimitsAssumption
<1>9. CASE peaks[e] # NoPeak
  <2>1. PICK l : l = Larger(peaks[e], m)
    OBVIOUS
  <2>2. l \in {peaks[e], m} /\ ~Exceeds(m, l)
    BY <1>4, <1>6, <1>9, <2>1, LargerIs
  <2>3. l \in Fraction
    BY <1>4, <1>6, <1>9, <2>2
  <2>4. TooDeep(total, m) => TooDeep(total, l)
    BY <1>4, <2>2, <2>3, DeeperFromAbove
  <2> QED BY <1>1, <1>2, <1>4, <1>5, <1>7, <1>9, <2>1, <2>2, <2>3, <2>4, LimitsAssumption
<1> QED BY <1>8, <1>9

(* With one symbol, what the positions cost is not above the best equity.  *)
LEMMA CostNotAbove ==
  ASSUME Sound, OneSymbol, CostReached
  PROVE  ~Exceeds(CashAtCost(cash), Whole(best))
<1>1. PICK s : deployed.symbols = {s}
  BY DEF OneSymbol
<1>2. Portfolio /\ DOMAIN positions = {s} /\ positions[s] \in Position /\ cash \in Int /\ best \in Int
  BY <1>1, TypedFacts DEF Sound
<1>3. PICK a \in Int, q \in Fraction : a = positions[s].amount /\ q = positions[s].entry
  BY <1>2, RowFields
<1>4. PICK n \in Int, d \in Int : n = q.num /\ d = q.den /\ d > 0
  BY FractionFields
<1>5. cash * d + a * n <= best * d
  BY <1>1, <1>3, <1>4 DEF CostReached
<1>6. CASE a > 0
  <2>1. CashAtCost(cash) = Plus(Whole(cash), Times(a, q))
    BY <1>2, <1>3, <1>6, CostOfOne
  <2>2. /\ Times(a, q).num = a * n /\ Times(a, q).den = d
    BY <1>4 DEF Times
  <2>3. /\ Whole(cash).num = cash /\ Whole(cash).den = 1
    BY <1>2, WholeTyped
  <2>4. CashAtCost(cash).num = cash * d + (a * n) * 1 /\ CashAtCost(cash).den = 1 * d
    BY <2>1, <2>2, <2>3 DEF Plus
  <2>5. PICK x \in Int, y \in Int, z \in Int : x = cash * d /\ y = a * n /\ z = best * d
    BY <1>2, ProductType
  <2>6. CashAtCost(cash).num = x + y /\ CashAtCost(cash).den = d
    BY <2>4, <2>5, <1>4
  <2>7. Whole(best).num = best /\ Whole(best).den = 1
    BY <1>2, WholeTyped
  <2>8. Exceeds(CashAtCost(cash), Whole(best)) <=> (x + y) * 1 > best * d
    BY <2>6, <2>7 DEF Exceeds
  <2> QED BY <1>5, <2>5, <2>8
<1>7. CASE ~(a > 0)
  <2>1. CashAtCost(cash) = Whole(cash) /\ a = 0
    BY <1>2, <1>3, <1>7, CostOfOne, RowFields
  <2>2. cash * d <= best * d
    <3>1. a * n = 0
      BY <2>1
    <3>2. cash * d \in Int /\ best * d \in Int
      BY <1>2, ProductType
    <3> QED BY <1>5, <3>1, <3>2
  <2>3. cash <= best
    BY <1>2, <1>4, <2>2
  <2>4. /\ Whole(best).num = best /\ Whole(best).den = 1
        /\ Whole(cash).num = cash /\ Whole(cash).den = 1
    BY <1>2, WholeTyped
  <2> QED BY <1>2, <2>1, <2>3, <2>4 DEF Exceeds
<1> QED BY <1>6, <1>7

(* What a step that leaves the portfolio and the market alone changes not. *)
LEMMA PortfolioStays ==
  ASSUME Sound, UNCHANGED <<deployed, cash, positions, open, placed, market, best>>
  PROVE  /\ FrozenCash' = FrozenCash /\ Equity' = Equity
         /\ MarketOnly' = MarketOnly /\ OneSymbol' = OneSymbol /\ Alone' = Alone
         /\ Running' = Running /\ (CostReached => CostReached')
         /\ \A o : Deployable(o)' = Deployable(o) /\ WithinTotal(o)' = WithinTotal(o)
         /\ \A x \in open' : x.id <= placed' /\ x.order.kind # "market" /\ Deployable(x.order)'
<1>1. FrozenCash' = FrozenCash /\ Equity' = Equity
  BY DEF FrozenCash, Equity, ValueAt
<1>2. MarketOnly' = MarketOnly /\ OneSymbol' = OneSymbol /\ Alone' = Alone /\ Running' = Running
  BY DEF MarketOnly, OneSymbol, Alone, Running
<1>3. CostReached => CostReached'
  BY DEF CostReached
<1>4. \A o : Deployable(o)' = Deployable(o)
  BY DEF Deployable
<1>5. \A o : WithinTotal(o)' = WithinTotal(o)
  BY AssetsStay DEF WithinTotal
<1>6. \A x \in open' : x.id <= placed' /\ x.order.kind # "market" /\ Deployable(x.order)
  BY DEF Sound
<1> QED BY <1>1, <1>2, <1>3, <1>4, <1>5, <1>6

LEMMA AskKeeps ==
  ASSUME RiskInv, UNCHANGED deployed, NEW e \in Engine, NEW o \in Order, Ask(e, o)
  PROVE  RiskInv'
<1>1. Sound /\ Vetted /\ Reached /\ RiskTypeOK
  BY DEF RiskInv, Sound
<1> DEFINE p == Owner[e]
<1>2. PICK a : a = [engine |-> e, order |-> o, cash |-> cash]
  OBVIOUS
<1>3. /\ e \in deployed.engines /\ Deployable(o) /\ Idle(p) /\ IsReferencePrice(o)
      /\ asked' = [asked EXCEPT ![p] = a]
      /\ UNCHANGED <<deployed, cash, positions, open, placed, market, peaks, checked, best>>
  BY <1>2 DEF Ask, portfolio, Deployable
<1>4. p \in Process /\ p \in Running /\ DOMAIN asked = Process
  BY <1>1, <1>3, TypeParts DEF Process, Running
<1>5. asked'[p] = a /\ \A q \in Process : q # p => asked'[q] = asked[q]
  BY <1>3, <1>4
<1>6. /\ \A q \in Process : \A r : Awaits(q, r)' => Awaits(q, r)
      /\ \A r : Wants(p, r)' => r = o
      /\ \A q \in Process : \A r : q # p /\ Wants(q, r)' => Wants(q, r)
  <2>1. \A q \in Process : \A r : Awaits(q, r)' = Awaits(q, r)
    BY <1>3 DEF Awaits
  <2>2. \A r : ~Awaits(p, r) /\ (Asks(p, r)' => r = o)
    BY <1>2, <1>3, <1>5 DEF Idle, Awaits, Asks
  <2>3. \A q \in Process : \A r : q # p => Asks(q, r)' = Asks(q, r)
    BY <1>5 DEF Asks
  <2> HIDE DEF p
  <2> QED BY <1>4, <2>1, <2>2, <2>3 DEF Wants
<1>7. RiskTypeOK'
  <2>1. a \in [engine : Engine, order : Order, cash : Int]
    BY <1>1, <1>2, TypeParts
  <2>2. asked' \in [Process -> [engine : Engine, order : Order, cash : Int] \cup {NoOrder}]
    <3> HIDE DEF p
    <3> QED BY <1>1, <1>3, <2>1 DEF RiskTypeOK
  <2> QED BY <1>1, <1>3, <2>2 DEF RiskTypeOK
<1>8. Sound'
  <2>1. ASSUME NEW q \in Process, NEW r \in Order, Wants(q, r)'
        PROVE  q \in Running' /\ Deployable(r)'
    <3>1. CASE q = p
      BY <1>1, <1>3, <1>4, <1>6, <2>1, <3>1, PortfolioStays
    <3>2. CASE q # p
      <4>1. Wants(q, r)
        BY <1>6, <2>1, <3>2
      <4> QED BY <1>1, <1>3, <4>1, PortfolioStays DEF Sound
    <3> QED BY <3>1, <3>2
  <2>2. Undisturbed'
    <3>1. ASSUME NEW q \in Process, asked'[q] # NoOrder
          PROVE  checked'[q] = NoOrder /\ (Alone' => asked'[q].cash = cash')
      <4>1. CASE q = p
        BY <1>2, <1>3, <1>5, <4>1 DEF Idle
      <4>2. CASE q # p
        <5>1. asked[q] # NoOrder /\ asked'[q] = asked[q]
          BY <1>5, <3>1, <4>2
        <5>2. checked[q] = NoOrder /\ (Alone => asked[q].cash = cash)
          BY <1>1, <5>1 DEF Sound, Undisturbed
        <5> QED BY <1>1, <1>3, <5>1, <5>2, PortfolioStays
      <4> QED BY <4>1, <4>2
    <3> QED BY <3>1 DEF Undisturbed
  <2>3. FrozenCash' <= cash' /\ Equity' <= best' /\ IsFiniteSet(open')
    BY <1>1, <1>3, PortfolioStays DEF Sound
  <2>4. \A x \in open' : x.id <= placed' /\ x.order.kind # "market" /\ Deployable(x.order)'
    BY <1>1, <1>3, PortfolioStays
  <2> QED BY <1>7, <2>1, <2>2, <2>3, <2>4 DEF Sound
<1>9. Vetted'
  <2>1. ASSUME MarketOnly, NEW q \in Process, NEW r \in Order, Awaits(q, r)', r.side = "buy"
        PROVE  WithinTotal(r)'
    <3>1. WithinTotal(r)
      BY <1>1, <1>6, <2>1 DEF Vetted
    <3> QED BY <1>1, <1>3, <3>1, PortfolioStays
  <2>2. MarketOnly' = MarketOnly
    BY <1>1, <1>3, PortfolioStays
  <2> QED BY <2>1, <2>2 DEF Vetted
<1>10. Reached'
  <2>1. ASSUME MarketOnly, OneSymbol
        PROVE  /\ PeaksReached' /\ CostReached'
               /\ \A q \in Process, r \in Order :
                    Wants(q, r)' => TotalAssets(cash, r.symbol, r.price)' <= best'
    <3>1. PeaksReached /\ CostReached
      BY <1>1, <2>1 DEF Reached
    <3>2. PeaksReached'
      BY <1>3, <3>1 DEF PeaksReached, Exceeds, Whole
    <3>3. CostReached'
      BY <1>1, <1>3, <3>1, PortfolioStays
    <3>4. TotalAssets(cash, o.symbol, o.price) <= best
      <4>1. o.kind = "market" /\ o.symbol \in deployed.symbols /\ o.side \in {"buy", "sell"}
        BY <1>3, <2>1, OrderFields DEF MarketOnly, Deployable
      <4>2. o.price = Slipped[o.side][market[o.symbol]]
        BY <1>3, <4>1 DEF IsReferencePrice
      <4>3. PICK t : t = TotalAssets(cash, o.symbol, o.price)
        OBVIOUS
      <4>4. t <= Equity
        BY <1>1, <2>1, <4>1, <4>2, <4>3, AssetsAreEquity
      <4>5. t \in Int
        BY <1>1, <4>1, <4>3, AssetsAre, OrderFields, TypeParts
      <4>6. Equity \in Int /\ best \in Int /\ Equity <= best
        <5>1. Priced
          BY <1>1, TypedFacts DEF Priced
        <5> QED BY <1>1, <5>1, EquityTyped, TypedFacts DEF EquityInt, Sound
      <4> QED BY <4>3, <4>4, <4>5, <4>6
    <3>5. ASSUME NEW q \in Process, NEW r \in Order, Wants(q, r)'
          PROVE  TotalAssets(cash, r.symbol, r.price)' <= best'
      <4>1. TotalAssets(cash, r.symbol, r.price) <= best
        <5>1. CASE q = p
          BY <1>6, <3>4, <3>5, <5>1
        <5>2. CASE q # p
          <6>1. Wants(q, r)
            BY <1>6, <3>5, <5>2
          <6> QED BY <1>1, <2>1, <6>1 DEF Reached
        <5> QED BY <5>1, <5>2
      <4> QED BY <1>3, <4>1, AssetsStay
    <3> QED BY <3>2, <3>3, <3>5
  <2>2. MarketOnly' = MarketOnly /\ OneSymbol' = OneSymbol
    BY <1>1, <1>3, PortfolioStays
  <2> QED BY <2>1, <2>2 DEF Reached
<1> QED BY <1>8, <1>9, <1>10 DEF RiskInv

LEMMA CheckKeeps ==
  ASSUME RiskInv, UNCHANGED deployed, NEW p \in Running, Check(p)
  PROVE  RiskInv'
<1>1. Sound /\ Vetted /\ Reached /\ RiskTypeOK
  BY DEF RiskInv, Sound
<1>2. p \in Process
  BY <1>1, TypedFacts DEF Running, Process
<1>3. asked[p] # NoOrder
  BY DEF Check
<1>4. PICK e \in Engine, o \in Order, money \in Int :
        e = asked[p].engine /\ o = asked[p].order /\ money = asked[p].cash
  BY <1>1, <1>2, <1>3, TypedFacts
<1>5. PICK total, peak :
        total = TotalAssets(money, o.symbol, o.price) /\ peak = UpdatePeak(e, money, total)
  OBVIOUS
<1>6. /\ peaks' = IF total > 0 THEN [peaks EXCEPT ![e] = peak] ELSE peaks
      /\ checked' = IF total > 0 /\ Acceptable(o, total, peak)
                    THEN [checked EXCEPT ![p] = [engine |-> e, order |-> o]] ELSE checked
      /\ asked' = [asked EXCEPT ![p] = NoOrder]
      /\ UNCHANGED <<deployed, cash, positions, open, placed, market, best>>
  BY <1>4, <1>5 DEF Check, portfolio
<1>7. Wants(p, o) /\ Deployable(o) /\ checked[p] = NoOrder /\ (Alone => money = cash)
  <2>1. Wants(p, o)
    BY <1>3, <1>4 DEF Asks, Wants
  <2> QED BY <1>1, <1>2, <1>3, <1>4, <2>1 DEF Sound, Undisturbed
<1>8. total \in Int
  BY <1>1, <1>4, <1>5, <1>7, AssetsAre, OrderFields DEF Deployable
<1>9. peak \in Fraction
  BY <1>1, <1>5, <1>8, CheckedPeak
<1>10. /\ DOMAIN asked = Process /\ DOMAIN checked = Process /\ DOMAIN peaks = Engine
       /\ asked'[p] = NoOrder
       /\ \A q \in Process : q # p => asked'[q] = asked[q] /\ checked'[q] = checked[q]
       /\ checked'[p] # NoOrder =>
            checked'[p] = [engine |-> e, order |-> o] /\ Acceptable(o, total, peak)
  BY <1>1, <1>2, <1>6, <1>7, TypeParts
<1>11. /\ \A q \in Process : \A r : Wants(q, r)' => Wants(q, r)
       /\ \A r : Awaits(p, r)' => r = o /\ Acceptable(o, total, peak)
       /\ \A r : ~Asks(p, r)'
       /\ \A q \in Process : \A r : q # p /\ Awaits(q, r)' => Awaits(q, r)
  <2>1. \A r : Awaits(p, r)' => r = o /\ Acceptable(o, total, peak)
    BY <1>10 DEF Awaits
  <2>2. \A r : ~Asks(p, r)'
    BY <1>10 DEF Asks
  <2>3. \A q \in Process : \A r : q # p => Awaits(q, r)' = Awaits(q, r) /\ Asks(q, r)' = Asks(q, r)
    BY <1>10 DEF Awaits, Asks
  <2> QED BY <1>7, <2>1, <2>2, <2>3 DEF Wants
<1>12. RiskTypeOK'
  <2>1. peaks' \in [Engine -> Fraction \cup {NoPeak}]
    BY <1>1, <1>6, <1>9 DEF RiskTypeOK
  <2>2. checked' \in [Process -> [engine : Engine, order : Order] \cup {NoOrder}]
    <3>1. [engine |-> e, order |-> o] \in [engine : Engine, order : Order]
      OBVIOUS
    <3> QED BY <1>1, <1>6, <3>1 DEF RiskTypeOK
  <2>3. asked' \in [Process -> [engine : Engine, order : Order, cash : Int] \cup {NoOrder}]
    BY <1>1, <1>6 DEF RiskTypeOK
  <2> QED BY <1>1, <1>6, <2>1, <2>2, <2>3 DEF RiskTypeOK
<1>13. Sound'
  <2>1. ASSUME NEW q \in Process, NEW r \in Order, Wants(q, r)'
        PROVE  q \in Running' /\ Deployable(r)'
    <3>1. q \in Running /\ Deployable(r)
      BY <1>1, <1>11, <2>1 DEF Sound
    <3> QED BY <1>1, <1>6, <3>1, PortfolioStays
  <2>2. Undisturbed'
    <3>1. ASSUME NEW q \in Process, asked'[q] # NoOrder
          PROVE  checked'[q] = NoOrder /\ (Alone' => asked'[q].cash = cash')
      <4>1. q # p /\ asked[q] # NoOrder /\ asked'[q] = asked[q] /\ checked'[q] = checked[q]
        BY <1>10, <3>1
      <4>2. checked[q] = NoOrder /\ (Alone => asked[q].cash = cash)
        BY <1>1, <4>1 DEF Sound, Undisturbed
      <4> QED BY <1>1, <1>6, <4>1, <4>2, PortfolioStays
    <3> QED BY <3>1 DEF Undisturbed
  <2>3. FrozenCash' <= cash' /\ Equity' <= best' /\ IsFiniteSet(open')
    BY <1>1, <1>6, PortfolioStays DEF Sound
  <2>4. \A x \in open' : x.id <= placed' /\ x.order.kind # "market" /\ Deployable(x.order)'
    BY <1>1, <1>6, PortfolioStays
  <2> QED BY <1>12, <2>1, <2>2, <2>3, <2>4 DEF Sound
<1>14. MarketOnly => Alone
  <2>1. ASSUME MarketOnly PROVE Alone
    <3>1. \A q \in Running : q = p
      BY <1>1, <2>1, NobodyElse
    <3> QED BY <1>2, <3>1 DEF Alone
  <2> QED BY <2>1
<1>15. Vetted'
  <2>1. ASSUME MarketOnly, NEW q \in Process, NEW r \in Order, Awaits(q, r)', r.side = "buy"
        PROVE  WithinTotal(r)'
    <3>1. WithinTotal(r)
      <4>1. CASE q = p
        <5>1. r = o /\ Acceptable(o, total, peak) /\ money = cash
          BY <1>7, <1>11, <1>14, <2>1, <4>1
        <5> QED BY <1>5, <2>1, <5>1 DEF Acceptable, WithinTotal
      <4>2. CASE q # p
        BY <1>1, <1>11, <2>1, <4>2 DEF Vetted
      <4> QED BY <4>1, <4>2
    <3> QED BY <1>1, <1>6, <3>1, PortfolioStays
  <2>2. MarketOnly' = MarketOnly
    BY <1>1, <1>6, PortfolioStays
  <2> QED BY <2>1, <2>2 DEF Vetted
<1>16. Reached'
  <2>1. ASSUME MarketOnly, OneSymbol
        PROVE  /\ PeaksReached' /\ CostReached'
               /\ \A q \in Process, r \in Order :
                    Wants(q, r)' => TotalAssets(cash, r.symbol, r.price)' <= best'
    <3>1. PeaksReached /\ CostReached
      BY <1>1, <2>1 DEF Reached
    <3>2. total <= best /\ best \in Int /\ money = cash
      <4>1. money = cash
        BY <1>7, <1>14, <2>1
      <4>2. TotalAssets(cash, o.symbol, o.price) <= best
        BY <1>1, <1>2, <1>7, <2>1 DEF Reached
      <4> QED BY <1>1, <1>5, <4>1, <4>2, TypedFacts
    <3>3. ~Exceeds(Whole(total), Whole(best))
      BY <1>8, <3>2, WholeTyped DEF Exceeds
    <3>4. ~Exceeds(CashAtCost(money), Whole(best))
      BY <1>1, <2>1, <3>1, <3>2, CostNotAbove
    <3>5. ~Exceeds(peak, Whole(best))
      <4>1. peak \in {Whole(total), CashAtCost(money), peaks[e]}
            /\ (peaks[e] = NoPeak => peak \in {Whole(total), CashAtCost(money)})
        BY <1>1, <1>5, <1>8, CheckedPeak
      <4>2. peaks[e] # NoPeak => ~Exceeds(peaks[e], Whole(best))
        BY <3>1 DEF PeaksReached
      <4> QED BY <3>3, <3>4, <4>1, <4>2
    <3>6. PeaksReached'
      <4>1. ASSUME NEW f \in Engine, peaks'[f] # NoPeak PROVE ~Exceeds(peaks'[f], Whole(best'))
        <5>1. peaks'[f] \in {peak, peaks[f]}
          BY <1>6, <1>10
        <5>2. peaks'[f] = peaks[f] => ~Exceeds(peaks'[f], Whole(best))
          BY <3>1, <4>1 DEF PeaksReached
        <5> QED BY <1>6, <3>5, <5>1, <5>2
      <4> QED BY <4>1 DEF PeaksReached, Exceeds, Whole
    <3>7. CostReached'
      BY <1>1, <1>6, <3>1, PortfolioStays
    <3>8. ASSUME NEW q \in Process, NEW r \in Order, Wants(q, r)'
          PROVE  TotalAssets(cash, r.symbol, r.price)' <= best'
      <4>1. TotalAssets(cash, r.symbol, r.price) <= best
        BY <1>1, <1>11, <2>1, <3>8 DEF Reached
      <4> QED BY <1>6, <4>1, AssetsStay
    <3> QED BY <3>6, <3>7, <3>8
  <2>2. MarketOnly' = MarketOnly /\ OneSymbol' = OneSymbol
    BY <1>1, <1>6, PortfolioStays
  <2> QED BY <2>1, <2>2 DEF Reached
<1> QED BY <1>13, <1>15, <1>16 DEF RiskInv

-----------------------------------------------------------------------------
(***************************************************************************)
(* Trades                                                                  *)
(***************************************************************************)
(* What a step that is not a check leaves to show.                         *)
LEMMA TradeIsSound ==
  ASSUME Sound, UNCHANGED deployed, positions' \in [deployed.symbols -> Position],
         cash' \in Int, market' \in [deployed.symbols -> Price],
         best' = (IF Equity' > best THEN Equity' ELSE best),
         placed' \in 0..MaxOrders, placed <= placed',
         open' \subseteq [id : 1..MaxOrders, order : Order], IsFiniteSet(open'),
         \A x \in open' \ open : x.id <= placed' /\ x.order.kind # "market" /\ Deployable(x.order),
         FrozenFor(open') <= cash',
         peaks' \in [Engine -> Fraction \cup {NoPeak}],
         DOMAIN checked' = Process, checked' = [p \in Process |-> checked'[p]],
         \A p \in Process : checked'[p] \in {checked[p], NoOrder},
         DOMAIN asked' = Process, asked' = [p \in Process |-> asked'[p]],
         \A p \in Process : asked'[p] \in {asked[p], NoOrder},
         UNCHANGED cash \/ (Alone => \A p \in Process : asked'[p] = NoOrder)
  PROVE  /\ Sound' /\ best' \in Nat /\ best <= best'
         /\ \A p \in Process : \A o : Awaits(p, o)' => Awaits(p, o) /\ checked'[p] = checked[p]
         /\ \A p \in Process : \A o : Wants(p, o)' => Wants(p, o)
<1>1. RiskTypeOK
  BY DEF Sound
<1>2. best' \in Nat /\ best <= best' /\ Equity' <= best'
  BY <1>1, BestGrows
<1>3. \A p \in Process : \A o : Awaits(p, o)' => Awaits(p, o) /\ checked'[p] = checked[p]
  BY DEF Awaits
<1>4. RiskTypeOK'
  <2>1. checked' \in [Process -> [engine : Engine, order : Order] \cup {NoOrder}]
    <3>1. \A p \in Process : checked'[p] \in [engine : Engine, order : Order] \cup {NoOrder}
      BY <1>1 DEF RiskTypeOK
    <3> QED BY <3>1
  <2>2. asked' \in [Process -> [engine : Engine, order : Order, cash : Int] \cup {NoOrder}]
    <3>1. \A p \in Process :
            asked'[p] \in [engine : Engine, order : Order, cash : Int] \cup {NoOrder}
      BY <1>1 DEF RiskTypeOK
    <3> QED BY <3>1
  <2> QED BY <1>1, <1>2, <2>1, <2>2 DEF RiskTypeOK
<1>5. \A x \in open' : x.id <= placed' /\ x.order.kind # "market" /\ Deployable(x.order)'
  <2>1. ASSUME NEW x \in open'
        PROVE  x.id <= placed' /\ x.order.kind # "market" /\ Deployable(x.order)
    <3>1. CASE x \in open
      <4>1. x.id \in Int /\ placed \in Int
        BY <1>1, <3>1 DEF RiskTypeOK
      <4> QED BY <3>1, <4>1 DEF Sound
    <3>2. CASE x \notin open
      BY <3>2
    <3> QED BY <3>1, <3>2
  <2> QED BY <2>1 DEF Deployable
<1>6. \A p \in Process : \A o : Wants(p, o)' => Wants(p, o)
  BY <1>3 DEF Wants, Asks
<1>7. \A p \in Process, o \in Order : Wants(p, o)' => p \in Running' /\ Deployable(o)'
  BY <1>6 DEF Sound, Running, Deployable
<1>8. FrozenCash' <= cash'
  BY FrozenIsFor
<1>9. Undisturbed'
  <2>1. ASSUME NEW p \in Process, asked'[p] # NoOrder
        PROVE  checked'[p] = NoOrder /\ (Alone' => asked'[p].cash = cash')
    <3>1. asked'[p] = asked[p] /\ checked[p] = NoOrder /\ (Alone => asked[p].cash = cash)
      BY <2>1 DEF Sound, Undisturbed
    <3>2. Alone' = Alone
      BY DEF Alone, Running
    <3> QED BY <2>1, <3>1, <3>2
  <2> QED BY <2>1 DEF Undisturbed
<1> QED BY <1>2, <1>3, <1>4, <1>5, <1>6, <1>7, <1>8, <1>9 DEF Sound

(* Peaks that were reached stay reached.                                   *)
LEMMA PeaksStay ==
  ASSUME RiskTypeOK, PeaksReached, best' \in Nat, best <= best',
         \A e \in Engine : peaks'[e] \in {peaks[e], NoPeak}
  PROVE  PeaksReached'
<1>1. ASSUME NEW e \in Engine, peaks'[e] # NoPeak PROVE ~Exceeds(peaks[e], Whole(best'))
  <2>1. peaks[e] # NoPeak /\ peaks[e] \in Fraction
    BY <1>1 DEF RiskTypeOK
  <2>2. PICK n \in Int, d \in Int : n = peaks[e].num /\ d = peaks[e].den /\ d > 0
    BY <2>1, FractionFields
  <2>3. ~(n * 1 > best * d)
    BY <1>1, <2>1, <2>2 DEF PeaksReached, Exceeds, Whole
  <2>4. PICK x \in Int, y \in Int : x = best * d /\ y = best' * d /\ x <= y
    <3>1. best * d <= best' * d /\ best * d \in Int /\ best' * d \in Int
      BY <2>2 DEF RiskTypeOK
    <3> QED BY <3>1
  <2>5. ~(n * 1 > best' * d)
    BY <2>2, <2>3, <2>4
  <2> QED BY <2>2, <2>5 DEF Exceeds, Whole
<1>2. \A e \in Engine : peaks'[e] # NoPeak => ~Exceeds(peaks[e], Whole(best'))
  BY <1>1
<1> QED BY <1>2 DEF PeaksReached, Exceeds, Whole

(* A bound on what a position costs grows with the highest equity.         *)
LEMMA BoundGrows ==
  ASSUME NEW x \in Int, NEW b \in Int, NEW c \in Int, NEW d \in Nat, b <= c, x <= b * d
  PROVE  x <= c * d
<1>1. b * d <= c * d /\ b * d \in Int /\ c * d \in Int
  OBVIOUS
<1> QED BY <1>1

LEMMA CostTerms ==
  ASSUME RiskTypeOK, NEW s \in deployed.symbols
  PROVE  /\ positions[s] \in Position
         /\ positions[s].amount \in Nat
         /\ positions[s].entry.num \in Int /\ positions[s].entry.den \in Nat \ {0}
         /\ cash * positions[s].entry.den + positions[s].amount * positions[s].entry.num \in Int
         /\ cash \in Int /\ best \in Int
<1>1. /\ positions[s] \in Position /\ positions[s].amount \in Nat
      /\ positions[s].entry.num \in Int /\ positions[s].entry.den \in Nat \ {0}
      /\ cash \in Int /\ best \in Int
  <2>1. s \in DOMAIN positions /\ positions[s] \in Position /\ cash \in Int /\ best \in Int
    BY TypedFacts
  <2> QED BY <2>1, RowFields, FractionFields
<1> QED BY <1>1, ProductType

LEMMA CostStays ==
  ASSUME RiskTypeOK, CostReached, UNCHANGED <<deployed, cash>>, best' \in Nat, best <= best',
         \A s \in deployed.symbols : /\ positions'[s].amount = positions[s].amount
                                     /\ positions'[s].entry = positions[s].entry
  PROVE  CostReached'
<1>1. ASSUME NEW s \in deployed.symbols
      PROVE  cash * positions[s].entry.den + positions[s].amount * positions[s].entry.num
               <= best' * positions[s].entry.den
  <2>1. PICK x \in Int, d \in Nat :
          /\ x = cash * positions[s].entry.den + positions[s].amount * positions[s].entry.num
          /\ d = positions[s].entry.den /\ best \in Int
    BY CostTerms
  <2>2. x <= best * d
    BY <2>1 DEF CostReached
  <2>3. x <= best' * d
    BY <2>1, <2>2, BoundGrows
  <2> QED BY <2>1, <2>3
<1> QED BY <1>1 DEF CostReached

LEMMA DeploymentStays ==
  ASSUME UNCHANGED deployed
  PROVE  MarketOnly' = MarketOnly /\ OneSymbol' = OneSymbol
  BY DEF MarketOnly, OneSymbol

(* A step that leaves cash and amounts alone, of which every process that  *)
(* awaits an order knew, or that is not of one engine of market orders.    *)
LEMMA QuietKeeps ==
  ASSUME RiskInv, Sound', UNCHANGED deployed, best' \in Nat, best <= best',
         \A p \in Process : \A o : Awaits(p, o)' => Awaits(p, o),
         \A p \in Process : \A o : Wants(p, o)' => Wants(p, o),
         MarketOnly => /\ \A e \in Engine : peaks'[e] \in {peaks[e], NoPeak}
                       /\ UNCHANGED cash
                       /\ \A s \in deployed.symbols :
                            /\ positions'[s].amount = positions[s].amount
                            /\ positions'[s].entry = positions[s].entry
                       /\ \/ UNCHANGED positions
                          \/ \A p \in Process : \A o : ~Wants(p, o)'
  PROVE  RiskInv'
<1>1. RiskTypeOK /\ Vetted /\ Reached
  BY DEF RiskInv, Sound
<1>2. Vetted'
  <2>1. ASSUME MarketOnly, NEW p \in Process, NEW o \in Order, Awaits(p, o)', o.side = "buy"
        PROVE  WithinTotal(o)'
    <3>1. UNCHANGED <<cash, positions>> /\ WithinTotal(o)
      BY <1>1, <2>1 DEF Vetted, Wants
    <3> QED BY <3>1, AssetsStay DEF WithinTotal
  <2> QED BY <2>1, DeploymentStays DEF Vetted
<1>3. Reached'
  <2>1. ASSUME MarketOnly, OneSymbol
        PROVE  /\ PeaksReached' /\ CostReached'
               /\ \A p \in Process, o \in Order :
                    Wants(p, o)' => TotalAssets(cash, o.symbol, o.price)' <= best'
    <3>1. PeaksReached /\ CostReached
      BY <1>1, <2>1 DEF Reached
    <3>2. PeaksReached'
      BY <1>1, <2>1, <3>1, PeaksStay
    <3>3. CostReached'
      BY <1>1, <2>1, <3>1, CostStays
    <3>4. ASSUME NEW p \in Process, NEW o \in Order, Wants(p, o)'
          PROVE  TotalAssets(cash, o.symbol, o.price)' <= best'
      <4>1. UNCHANGED <<cash, positions>> /\ TotalAssets(cash, o.symbol, o.price) <= best
        BY <1>1, <2>1, <3>4 DEF Reached
      <4>2. TotalAssets(cash, o.symbol, o.price) \in Int /\ best \in Int
        <5>1. o.symbol \in deployed.symbols /\ o.price \in Nat
          BY <3>4, OrderFields DEF RiskInv, Sound, Deployable
        <5> QED BY <1>1, <5>1, AssetsAre, TypedFacts
      <4> QED BY <4>1, <4>2, AssetsStay
    <3> QED BY <3>2, <3>3, <3>4
  <2> QED BY <2>1, DeploymentStays DEF Reached
<1> QED BY <1>2, <1>3 DEF RiskInv

LEMMA MoveKeeps ==
  ASSUME RiskInv, UNCHANGED deployed, best' = (IF Equity' > best THEN Equity' ELSE best),
         NEW s \in deployed.symbols, NEW q \in Price, Move(s, q)
  PROVE  RiskInv'
<1>1. Sound
  BY DEF RiskInv
<1>2. UNCHANGED <<cash, positions, open, placed, peaks, asked, checked>>
  BY DEF Move, portfolio
<1>3. market' \in [deployed.symbols -> Price]
  BY <1>1, TypeParts DEF Move
<1>4. Sound' /\ best' \in Nat /\ best <= best'
  BY <1>1, <1>2, <1>3, TypeParts, TradeIsSound
<1>5. \A p \in Process : \A o : /\ Awaits(p, o)' => Awaits(p, o)
                                /\ Wants(p, o)' => Wants(p, o)
  BY <1>2 DEF Awaits, Asks, Wants
<1> QED BY <1>2, <1>4, <1>5, QuietKeeps

(* The recorded prices are those of the market, where there are any.       *)
LEMMA RevaluedRows ==
  ASSUME Sound, NEW p, Revalue(p)
  PROVE  /\ positions' \in [deployed.symbols -> Position]
         /\ \A s \in deployed.symbols : /\ positions'[s].amount = positions[s].amount
                                        /\ positions'[s].entry = positions[s].entry
<1>1. positions' = [s \in DOMAIN positions |->
                      IF positions[s].current = 0 THEN positions[s]
                      ELSE [positions[s] EXCEPT !.current = market[s]]]
  BY DEF Revalue
<1>2. ASSUME NEW s \in deployed.symbols
      PROVE  /\ s \in DOMAIN positions /\ positions'[s] \in Position
             /\ positions'[s].amount = positions[s].amount
             /\ positions'[s].entry = positions[s].entry
  <2>1. s \in DOMAIN positions /\ positions[s] \in Position /\ market[s] \in ExecutionPrice
    BY TypeParts, PricesAreNat
  <2>2. PICK row \in Position : row = positions[s]
    BY <2>1
  <2>3. PICK a \in Nat, e \in Fraction, c \in Nat :
          row = [amount |-> a, entry |-> e, current |-> c]
    BY RowFields
  <2>4. positions'[s] = IF c = 0 THEN row ELSE [amount |-> a, entry |-> e, current |-> market[s]]
    <3>1. PICK m : m = market[s]
      OBVIOUS
    <3>2. positions'[s] = IF row.current = 0 THEN row ELSE [row EXCEPT !.current = m]
      BY <1>1, <2>1, <2>2, <3>1
    <3>3. [row EXCEPT !.current = m] = [amount |-> a, entry |-> e, current |-> m]
      BY <2>3
    <3>4. row.current = c
      BY <2>3
    <3> QED BY <3>1, <3>2, <3>3, <3>4
  <2>5. [amount |-> a, entry |-> e, current |-> market[s]] \in Position
    BY <2>1 DEF Position
  <2> QED BY <2>1, <2>2, <2>3, <2>4, <2>5
<1>3. DOMAIN positions = deployed.symbols
  BY TypeParts
<1>4. positions' = [s \in deployed.symbols |-> positions'[s]]
  BY <1>1, <1>3
<1> QED BY <1>2, <1>4

LEMMA RevalueKeeps ==
  ASSUME RiskInv, UNCHANGED deployed, best' = (IF Equity' > best THEN Equity' ELSE best),
         NEW p \in Running, Revalue(p)
  PROVE  RiskInv'
<1>1. Sound
  BY DEF RiskInv
<1>2. UNCHANGED <<cash, open, placed, market, peaks, asked, checked>> /\ Idle(p)
  BY DEF Revalue
<1>3. /\ positions' \in [deployed.symbols -> Position]
      /\ \A s \in deployed.symbols : /\ positions'[s].amount = positions[s].amount
                                     /\ positions'[s].entry = positions[s].entry
  BY <1>1, RevaluedRows
<1>4. Sound' /\ best' \in Nat /\ best <= best'
  BY <1>1, <1>2, <1>3, TypeParts, TradeIsSound
<1>5. \A q \in Process : \A o : /\ Awaits(q, o)' => Awaits(q, o)
                                /\ Wants(q, o)' => Wants(q, o)
  BY <1>2 DEF Awaits, Asks, Wants
<1>6. MarketOnly => \A q \in Process : \A o : ~Wants(q, o)'
  <2>1. ASSUME MarketOnly, NEW q \in Process, NEW o, Wants(q, o)' PROVE FALSE
    <3>1. Wants(q, o) /\ ~Idle(q) /\ o \in Order
      <4>1. Wants(q, o)
        BY <1>5, <2>1
      <4>2. CASE Awaits(q, o)
        <5>1. checked[q] # NoOrder /\ checked[q].order = o
          BY <4>2 DEF Awaits
        <5> QED BY <1>1, <4>1, <5>1, TypeParts, TypedFacts DEF Idle
      <4>3. CASE Asks(q, o)
        <5>1. asked[q] # NoOrder /\ asked[q].order = o
          BY <4>3 DEF Asks
        <5> QED BY <1>1, <4>1, <5>1, TypeParts, TypedFacts DEF Idle
      <4> QED BY <4>1, <4>2, <4>3 DEF Wants
    <3>2. q \in Running
      BY <1>1, <3>1 DEF Sound
    <3>3. q = p
      BY <1>1, <2>1, <3>2, TypeParts, NobodyElse
    <3> QED BY <1>2, <3>1, <3>3
  <2> QED BY <2>1
<1> QED BY <1>2, <1>3, <1>4, <1>5, <1>6, QuietKeeps

LEMMA RestartKeeps ==
  ASSUME RiskInv, UNCHANGED deployed, best' = (IF Equity' > best THEN Equity' ELSE best),
         NEW p \in Running, Restart(p)
  PROVE  RiskInv'
<1>1. Sound
  BY DEF RiskInv
<1>2. UNCHANGED <<cash, positions, open, placed, market>>
  BY DEF Restart, portfolio
<1>3. /\ peaks' \in [Engine -> Fraction \cup {NoPeak}]
      /\ \A e \in Engine : peaks'[e] \in {peaks[e], NoPeak}
  <2>1. peaks' = [e \in Engine |-> IF Owner[e] = p THEN NoPeak ELSE peaks[e]]
    BY DEF Restart
  <2>2. \A e \in Engine : peaks[e] \in Fraction \cup {NoPeak}
    BY <1>1, TypeParts
  <2> QED BY <2>1, <2>2
<1>4. /\ DOMAIN checked' = Process /\ checked' = [q \in Process |-> checked'[q]]
      /\ \A q \in Process : checked'[q] \in {checked[q], NoOrder}
  <2>1. checked' = [checked EXCEPT ![p] = NoOrder]
    BY DEF Restart
  <2> QED BY <1>1, <2>1, TypeParts
<1>6. /\ DOMAIN asked' = Process /\ asked' = [q \in Process |-> asked'[q]]
      /\ \A q \in Process : asked'[q] \in {asked[q], NoOrder}
  <2>1. asked' = [asked EXCEPT ![p] = NoOrder]
    BY DEF Restart
  <2> QED BY <1>1, <2>1, TypeParts
<1>5. /\ Sound' /\ best' \in Nat /\ best <= best'
      /\ \A q \in Process : \A o : Awaits(q, o)' => Awaits(q, o)
      /\ \A q \in Process : \A o : Wants(q, o)' => Wants(q, o)
  BY <1>1, <1>2, <1>3, <1>4, <1>6, TypeParts, TradeIsSound
<1> QED BY <1>2, <1>3, <1>5, QuietKeeps

LEMMA CancelOpenKeeps ==
  ASSUME RiskInv, UNCHANGED deployed, best' = (IF Equity' > best THEN Equity' ELSE best),
         NEW p \in Running, NEW x \in open, CancelOpen(p, x)
  PROVE  RiskInv'
<1>1. Sound
  BY DEF RiskInv
<1>2. UNCHANGED <<cash, positions, placed, market, peaks, asked, checked>> /\ open' = open \ {x}
  BY DEF CancelOpen
<1>3. FrozenFor(open') <= cash' /\ IsFiniteSet(open')
  <2>1. /\ FrozenFor(open \ {x}) \in Nat /\ Claim(x) \in Nat
        /\ FrozenFor(open) = FrozenFor(open \ {x}) + Claim(x)
    BY <1>1, TypeParts, TypedFacts, FrozenShrinks
  <2>2. IsFiniteSet(open \ {x})
    BY <1>1, TypeParts, FS_Subset
  <2>3. FrozenFor(open) <= cash /\ cash \in Int
    BY <1>1, TypeParts
  <2> QED BY <1>2, <2>1, <2>2, <2>3
<1>4. /\ Sound' /\ best' \in Nat /\ best <= best'
      /\ \A q \in Process : \A o : Awaits(q, o)' => Awaits(q, o)
      /\ \A q \in Process : \A o : Wants(q, o)' => Wants(q, o)
  BY <1>1, <1>2, <1>3, TypeParts, TradeIsSound
<1> QED BY <1>2, <1>4, QuietKeeps

(* Who has no order to ask for, and is alone, leaves none asked for.       *)
LEMMA OnlyOneAsks ==
  ASSUME Sound, NEW p \in Running, asked[p] = NoOrder, Alone
  PROVE  \A r \in Process : asked[r] = NoOrder
<1>1. ASSUME NEW r \in Process, asked[r] # NoOrder PROVE FALSE
  <2>1. PICK o \in Order : o = asked[r].order
    BY <1>1, TypeParts, TypedFacts
  <2>2. Wants(r, o)
    BY <1>1, <2>1 DEF Asks, Wants
  <2>3. r \in Running
    BY <2>2 DEF Sound
  <2> QED BY <1>1, <2>3 DEF Alone
<1> QED BY <1>1

LEMMA FillKeeps ==
  ASSUME RiskInv, UNCHANGED deployed, best' = (IF Equity' > best THEN Equity' ELSE best),
         NEW p \in Running, NEW x \in open, Fill(p, x)
  PROVE  RiskInv' /\ ~MarketOnly
<1>1. Sound
  BY DEF RiskInv
<1>2. UNCHANGED <<placed, market, peaks, asked, checked>> /\ open' = open \ {x} /\ Idle(p)
  BY DEF Fill
<1>3. PICK o \in Order : o = x.order /\ o.symbol \in deployed.symbols
  BY <1>1, TypeParts, TypedFacts DEF Sound, Deployable
<1>4. PICK q \in ExecutionPrice : q = FillPrice(o) /\ (o.side = "buy" => q <= o.price)
  <2>1. PICK m \in Price : m = market[o.symbol]
    BY <1>1, <1>3, TypeParts
  <2>2. PICK c \in ExecutionPrice : c = Slipped[o.side][m] /\ c \in Nat
    BY PricesAreNat, OrderFields
  <2>3. PICK w \in ExecutionPrice : w = o.price /\ w \in Nat
    BY OrderFields
  <2>4. FillPrice(o) = IF o.side = "buy" THEN IF c > w THEN w ELSE c
                       ELSE IF c < w THEN w ELSE c
    BY <2>1, <2>2, <2>3 DEF FillPrice
  <2> QED BY <2>2, <2>3, <2>4
<1>5. /\ Settle(o, q)
      /\ IF o.side = "buy" THEN q <= o.price ELSE positions[o.symbol].amount >= o.amount
  BY <1>3, <1>4 DEF Fill
<1>6. PICK n \in Int, w \in Int : n = o.amount /\ n > 0 /\ w = o.price /\ q \in Int /\ q > 0
  BY OrderFields, PricesAreNat
<1>7. /\ positions' \in [deployed.symbols -> Position] /\ cash' \in Int
      /\ cash' = IF o.side = "buy" THEN cash - n * q ELSE cash + n * q
  BY <1>1, <1>3, <1>5, <1>6, TypeParts, Settled
<1>8. FrozenFor(open') <= cash' /\ IsFiniteSet(open')
  <2>1. /\ FrozenFor(open \ {x}) \in Nat
        /\ FrozenFor(open) = FrozenFor(open \ {x}) + Claim(x)
    BY <1>1, TypeParts, TypedFacts, FrozenShrinks
  <2>2. IsFiniteSet(open \ {x})
    BY <1>1, TypeParts, FS_Subset
  <2>3. FrozenFor(open) <= cash /\ cash \in Int
    BY <1>1, TypeParts
  <2>4. PICK nq \in Int, nw \in Int : nq = n * q /\ nw = n * w /\ nq >= 0
    BY <1>6
  <2>5. Claim(x) = IF o.side = "buy" THEN nw ELSE 0
    BY <1>3, <1>6, <2>4 DEF Claim
  <2>6. o.side = "buy" => nq <= nw
    BY <1>5, <1>6, <2>4
  <2> QED BY <1>2, <1>7, <2>1, <2>2, <2>3, <2>4, <2>5, <2>6
<1>11. Alone => \A r \in Process : asked'[r] = NoOrder
  BY <1>1, <1>2, OnlyOneAsks DEF Idle
<1>9. /\ Sound' /\ best' \in Nat /\ best <= best'
      /\ \A r \in Process : \A y : Awaits(r, y)' => Awaits(r, y)
      /\ \A r \in Process : \A y : Wants(r, y)' => Wants(r, y)
  BY <1>1, <1>2, <1>7, <1>8, <1>11, TypeParts, TradeIsSound
<1>10. ~MarketOnly
  BY <1>1, NothingOpen
<1> QED BY <1>9, <1>10, QuietKeeps

(* An order that was not covered is gone.                                  *)
LEMMA RefusedKeeps ==
  ASSUME RiskInv, UNCHANGED deployed, best' = (IF Equity' > best THEN Equity' ELSE best),
         NEW p \in Running, checked' = [checked EXCEPT ![p] = NoOrder],
         UNCHANGED <<cash, positions, open, placed, market, peaks, asked>>
  PROVE  RiskInv'
<1>1. Sound
  BY DEF RiskInv
<1>2. /\ DOMAIN checked' = Process /\ checked' = [q \in Process |-> checked'[q]]
      /\ \A q \in Process : checked'[q] \in {checked[q], NoOrder}
  BY <1>1, TypeParts
<1>3. /\ Sound' /\ best' \in Nat /\ best <= best'
      /\ \A q \in Process : \A o : Awaits(q, o)' => Awaits(q, o)
      /\ \A q \in Process : \A o : Wants(q, o)' => Wants(q, o)
  BY <1>1, <1>2, TypeParts, TradeIsSound
<1> QED BY <1>3, QuietKeeps

(* A limit order is queued and what it costs is frozen.                    *)
LEMMA QueuedKeeps ==
  ASSUME RiskInv, UNCHANGED deployed, best' = (IF Equity' > best THEN Equity' ELSE best),
         NEW p \in Running, checked' = [checked EXCEPT ![p] = NoOrder],
         NEW o \in Order, Deployable(o), o.kind # "market", CanPlace(o), placed < MaxOrders,
         placed' = placed + 1, open' = open \cup {[id |-> placed + 1, order |-> o]},
         UNCHANGED <<cash, positions, market, peaks, asked>>
  PROVE  RiskInv'
<1>1. Sound
  BY DEF RiskInv
<1>2. PICK k \in Int, m \in Int : k = placed /\ m = MaxOrders /\ k >= 0 /\ k < m
  BY <1>1, TypeParts
<1>3. PICK y \in [id : 1..MaxOrders, order : Order] :
        y = [id |-> k + 1, order |-> o] /\ y.id = k + 1 /\ y.order = o
  <2>1. k + 1 \in 1..MaxOrders
    BY <1>2
  <2>2. [id |-> k + 1, order |-> o] \in [id : 1..MaxOrders, order : Order]
    BY <2>1
  <2> QED BY <2>2
<1>4. open' = open \cup {y} /\ placed' = k + 1 /\ y \notin open
  <2>1. \A x \in open : x.id <= k
    BY <1>1, <1>2 DEF Sound
  <2>2. ASSUME y \in open PROVE FALSE
    BY <1>3, <2>1, <2>2
  <2> QED BY <1>2, <1>3, <2>2
<1>5. FrozenFor(open') <= cash' /\ IsFiniteSet(open')
  <2>1. /\ FrozenFor(open) \in Nat /\ Claim(y) \in Nat
        /\ FrozenFor(open \cup {y}) = FrozenFor(open) + Claim(y)
    BY <1>1, <1>3, <1>4, TypeParts, TypedFacts, FrozenGrows
  <2>2. IsFiniteSet(open \cup {y})
    BY <1>1, TypeParts, FS_AddElement
  <2>3. FrozenFor(open) <= cash /\ cash \in Int /\ FrozenFor(open) = FrozenCash
    BY <1>1, TypeParts, FrozenIsFor
  <2>4. PICK w \in Nat : w = o.amount * o.price
    BY OrderFields
  <2>5. Claim(y) = IF o.side = "buy" THEN w ELSE 0
    BY <1>3, <2>4 DEF Claim
  <2>6. o.side = "buy" => cash - FrozenCash >= w
    BY <2>4 DEF CanPlace
  <2> QED BY <1>4, <2>1, <2>2, <2>3, <2>5, <2>6
<1>6. /\ DOMAIN checked' = Process /\ checked' = [q \in Process |-> checked'[q]]
      /\ \A q \in Process : checked'[q] \in {checked[q], NoOrder}
  BY <1>1, TypeParts
<1>7. \A x \in open' \ open : x.id <= placed' /\ x.order.kind # "market" /\ Deployable(x.order)
  BY <1>3, <1>4
<1>8. open' \subseteq [id : 1..MaxOrders, order : Order]
  BY <1>1, <1>3, <1>4, TypeParts
<1>9. placed' \in 0..MaxOrders /\ placed <= placed'
  BY <1>2, <1>4
<1>10. /\ Sound' /\ best' \in Nat /\ best <= best'
       /\ \A q \in Process : \A r : Awaits(q, r)' => Awaits(q, r)
       /\ \A q \in Process : \A r : Wants(q, r)' => Wants(q, r)
  BY <1>1, <1>5, <1>6, <1>7, <1>8, <1>9, TypeParts, TradeIsSound
<1> QED BY <1>10, QuietKeeps

(* What a filled position and the cash left have cost is no more than the  *)
(* highest equity, when the check has found the portfolio not worth more.  *)
LEMMA CostSettled ==
  ASSUME RiskTypeOK, OneSymbol, CostReached, UNCHANGED deployed, best' \in Nat, best <= best',
         NEW o \in Order, o.symbol \in deployed.symbols,
         o.side = "sell" => positions[o.symbol].amount >= o.amount,
         Settle(o, o.price), TotalAssets(cash, o.symbol, o.price) <= best
  PROVE  CostReached'
<1> DEFINE s == o.symbol
<1>1. deployed.symbols = {s}
  BY DEF OneSymbol
<1>2. PICK n \in Nat \ {0}, p \in Nat \ {0} : n = o.amount /\ p = o.price
                                                /\ o.price \in ExecutionPrice
  BY OrderFields
<1>3. PICK c \in Int, b \in Int : c = cash /\ b = best
  BY TypedFacts
<1>4. PICK a \in Nat, e \in Int, d \in Nat \ {0} :
        a = positions[s].amount /\ e = positions[s].entry.num /\ d = positions[s].entry.den
  BY CostTerms
<1>5. c * d + a * e <= b * d
  BY <1>3, <1>4 DEF CostReached
<1>6. c + a * p <= b
  <2>1. TotalAssets(cash, s, p) = cash + positions[s].amount * p
    BY <1>2, AssetsAreEquity
  <2> QED BY <1>2, <1>3, <1>4, <2>1
<1>7. PICK row : row = positions'[s] /\ row = Filled(o, o.price)
  BY <1>2, Settled
<1>8. PICK c1 \in Int : c1 = cash' /\ c1 = IF o.side = "buy" THEN c - n * p ELSE c + n * p
  BY <1>2, <1>3, Settled
<1>9. /\ row.amount = IF o.side = "buy" THEN a + n ELSE a - n
      /\ row.entry = IF o.side = "sell" THEN positions[s].entry
                     ELSE IF a = 0 THEN Whole(p)
                     ELSE [num |-> a * e + n * p * d, den |-> (a + n) * d]
  <2>1. PICK q \in ExecutionPrice : q = o.price
    BY <1>2
  <2>2. LET old == positions[o.symbol] IN
        /\ Filled(o, q).amount = IF o.side = "buy" THEN old.amount + o.amount
                                                  ELSE old.amount - o.amount
        /\ Filled(o, q).entry = IF o.side = "sell" THEN old.entry
             ELSE IF old.amount = 0 THEN Whole(q)
             ELSE [num |-> old.amount * old.entry.num + o.amount * q * old.entry.den,
                   den |-> (old.amount + o.amount) * old.entry.den]
    BY SettledRow
  <2>3. row = Filled(o, q)
    BY <1>7, <2>1
  <2>4. q = p
    BY <1>2, <2>1
  <2> QED BY <1>2, <1>4, <2>2, <2>3, <2>4
<1>10. /\ c1 * row.entry.den + row.amount * row.entry.num <= b * row.entry.den
       /\ row.entry.den \in Nat /\ c1 * row.entry.den + row.amount * row.entry.num \in Int
  <2>1. CASE o.side = "sell"
    <3>1. row.amount = a - n /\ row.entry.num = e /\ row.entry.den = d /\ n <= a
      BY <1>2, <1>4, <1>9, <2>1
    <3>5. p \in Int /\ n <= a
      BY <3>1
    <3>2. (c + n * p) * d + (a - n) * e <= b * d
      <4> HIDE DEF s
      <4> QED BY ONLY <1>5, <1>6, <3>5, CostSold, n \in Nat \ {0}, p \in Nat \ {0}, c \in Int,
                      b \in Int, a \in Nat, e \in Int, d \in Nat \ {0}
    <3>3. c1 = c + n * p
      BY <1>8, <2>1
    <3>4. c1 * d + (a - n) * e \in Int
      BY ProductType
    <3> QED BY <3>1, <3>2, <3>3, <3>4
  <2>2. CASE o.side = "buy" /\ a = 0
    <3>1. row.amount = n /\ row.entry.num = p /\ row.entry.den = 1
      BY <1>9, <2>2, WholeTyped
    <3>2. PICK w \in Int : w = n * p
      BY ProductType
    <3>3. c1 = c - w
      BY <1>8, <2>2, <3>2
    <3>4. c <= b
      BY <1>6, <2>2
    <3> QED BY <3>1, <3>2, <3>3, <3>4
  <2>3. CASE o.side = "buy" /\ a # 0
    <3>1. /\ row.amount = a + n /\ row.entry.num = a * e + n * p * d
          /\ row.entry.den = (a + n) * d
      BY <1>9, <2>3
    <3>2. (c - n * p) * ((a + n) * d) + (a + n) * (a * e + n * p * d) <= b * ((a + n) * d)
      BY <1>5, CostBought
    <3>3. c1 = c - n * p
      BY <1>8, <2>3
    <3>4. PICK x \in Nat, y \in Int : x = (a + n) * d /\ y = a * e + n * p * d
      BY ProductType
    <3>5. c1 * x + (a + n) * y \in Int
      BY <3>4, ProductType
    <3> QED BY <3>1, <3>2, <3>3, <3>4, <3>5
  <2> QED BY <2>1, <2>2, <2>3, OrderFields
<1>11. c1 * row.entry.den + row.amount * row.entry.num <= best' * row.entry.den
  BY <1>3, <1>10, BoundGrows
<1> QED BY <1>1, <1>7, <1>8, <1>11 DEF CostReached

(* A market order is filled.                                               *)
LEMMA FilledKeeps ==
  ASSUME RiskInv, UNCHANGED deployed, best' = (IF Equity' > best THEN Equity' ELSE best),
         NEW p \in Running, checked' = [checked EXCEPT ![p] = NoOrder],
         NEW o \in Order, Awaits(p, o), Deployable(o), CanPlace(o), placed < MaxOrders,
         placed' = placed + 1, Settle(o, o.price), UNCHANGED <<open, market, peaks, asked>>
  PROVE  RiskInv'
<1>1. Sound /\ Vetted /\ Reached /\ RiskTypeOK
  BY DEF RiskInv, Sound
<1>2. p \in Process
  BY <1>1, TypedFacts DEF Running, Process
<1>3. PICK n \in Nat, q \in ExecutionPrice : n = o.amount /\ q = o.price /\ q \in Nat
  BY OrderFields
<1>4. PICK w \in Nat : w = n * q
  BY <1>3, ProductType
<1>5. o.symbol \in deployed.symbols
  BY DEF Deployable
<1>6. /\ o.side = "sell" => positions[o.symbol].amount >= o.amount
      /\ o.side = "buy" => cash - FrozenCash >= w
  BY <1>3, <1>4, OrderFields DEF CanPlace
<1>7. /\ positions' \in [deployed.symbols -> Position] /\ cash' \in Int
      /\ cash' = IF o.side = "buy" THEN cash - w ELSE cash + w
  BY <1>1, <1>3, <1>4, <1>5, <1>6, Settled
<1>8. FrozenFor(open') <= cash'
  <2>1. FrozenFor(open) <= cash /\ cash \in Int /\ FrozenFor(open) \in Nat
        /\ FrozenFor(open) = FrozenCash
    BY <1>1, TypeParts, FrozenIsFor
  <2> QED BY <1>6, <1>7, <2>1
<1>9. /\ DOMAIN checked' = Process /\ checked' = [r \in Process |-> checked'[r]]
      /\ \A r \in Process : checked'[r] \in {checked[r], NoOrder}
  BY <1>1, TypeParts
<1>10. placed' \in 0..MaxOrders /\ placed <= placed'
  BY <1>1, TypeParts
<1>15. asked[p] = NoOrder
  BY <1>1, <1>2 DEF Awaits, Sound, Undisturbed
<1>16. Alone => \A r \in Process : asked'[r] = NoOrder
  BY <1>1, <1>15, OnlyOneAsks
<1>11. /\ Sound' /\ best' \in Nat /\ best <= best'
       /\ \A r \in Process : \A y : Awaits(r, y)' => Awaits(r, y) /\ checked'[r] = checked[r]
       /\ \A r \in Process : \A y : Wants(r, y)' => Wants(r, y)
  BY <1>1, <1>7, <1>8, <1>9, <1>10, <1>16, TypeParts, TradeIsSound
<1>12. ASSUME MarketOnly, NEW r \in Process, NEW y \in Order, Wants(r, y)' PROVE FALSE
  <2>1. r \in Running
    BY <1>1, <1>11, <1>12 DEF Sound
  <2>2. r = p
    BY <1>1, <1>12, <2>1, NobodyElse
  <2>3. checked'[p] = NoOrder
    BY <1>1, <1>2, TypeParts
  <2> QED BY <1>12, <1>15, <2>2, <2>3 DEF Awaits, Asks, Wants
<1>13. Vetted'
  BY <1>12, DeploymentStays DEF Vetted, Wants
<1>14. Reached'
  <2>1. ASSUME MarketOnly, OneSymbol PROVE PeaksReached' /\ CostReached'
    <3>1. PeaksReached /\ CostReached /\ TotalAssets(cash, o.symbol, o.price) <= best
      BY <1>1, <1>2, <2>1 DEF Reached, Wants
    <3>2. PeaksReached'
      BY <1>1, <1>11, <3>1, PeaksStay
    <3>3. CostReached'
      BY <1>1, <1>5, <1>6, <1>11, <2>1, <3>1, CostSettled
    <3> QED BY <3>2, <3>3
  <2> QED BY <1>12, <2>1, DeploymentStays DEF Reached
<1> QED BY <1>11, <1>13, <1>14 DEF RiskInv

(* The order that is placed, and how.                                      *)
LEMMA PlaceCases ==
  ASSUME Sound, NEW p \in Running, Place(p)
  PROVE  /\ p \in Process /\ checked' = [checked EXCEPT ![p] = NoOrder]
         /\ UNCHANGED <<market, peaks, asked>>
         /\ \E o \in Order :
              /\ o = checked[p].order /\ Awaits(p, o) /\ Deployable(o)
              /\ \/ /\ CanPlace(o) /\ placed < MaxOrders /\ placed' = placed + 1
                    /\ o.kind = "market" /\ Settle(o, o.price) /\ UNCHANGED open
                 \/ /\ CanPlace(o) /\ placed < MaxOrders /\ placed' = placed + 1
                    /\ o.kind # "market" /\ open' = open \cup {[id |-> placed + 1, order |-> o]}
                    /\ UNCHANGED <<cash, positions>>
                 \/ UNCHANGED portfolio
<1>1. p \in Process
  BY TypeParts, TypedFacts DEF Running, Process
<1>2. checked[p] # NoOrder /\ checked[p].order \in Order
  BY <1>1, TypeParts, TypedFacts DEF Place
<1>3. PICK o \in Order : o = checked[p].order /\ Awaits(p, o)
  BY <1>2 DEF Awaits
<1>4. Deployable(o)
  BY <1>1, <1>3 DEF Sound, Wants
<1>7. deployed.orders <= MaxOrders /\ deployed.orders \in Nat /\ MaxOrders \in Nat /\ placed \in Nat
  <2>1. deployed.orders \in 0..MaxOrders
    BY TypeParts, DeploymentsAssumption DEF RiskTypeOK
  <2> QED BY <2>1, TypeParts, NumberAssumption
<1>5. \/ /\ CanPlace(o) /\ placed < MaxOrders /\ placed' = placed + 1
         /\ IF o.kind = "market"
            THEN Settle(o, o.price) /\ UNCHANGED open
            ELSE /\ open' = open \cup {[id |-> placed + 1, order |-> o]}
                 /\ UNCHANGED <<cash, positions>>
      \/ UNCHANGED portfolio
  BY <1>3, <1>7 DEF Place
<1>6. checked' = [checked EXCEPT ![p] = NoOrder] /\ UNCHANGED <<market, peaks, asked>>
  BY DEF Place
<1> QED BY <1>1, <1>3, <1>4, <1>5, <1>6

LEMMA PlaceKeeps ==
  ASSUME RiskInv, UNCHANGED deployed, best' = (IF Equity' > best THEN Equity' ELSE best),
         NEW p \in Running, Place(p)
  PROVE  RiskInv'
<1>1. Sound
  BY DEF RiskInv
<1>2. PICK o \in Order :
        /\ Awaits(p, o) /\ Deployable(o)
        /\ \/ /\ CanPlace(o) /\ placed < MaxOrders /\ placed' = placed + 1
              /\ o.kind = "market" /\ Settle(o, o.price) /\ UNCHANGED open
           \/ /\ CanPlace(o) /\ placed < MaxOrders /\ placed' = placed + 1
              /\ o.kind # "market" /\ open' = open \cup {[id |-> placed + 1, order |-> o]}
              /\ UNCHANGED <<cash, positions>>
           \/ UNCHANGED portfolio
  BY <1>1, PlaceCases
<1>3. checked' = [checked EXCEPT ![p] = NoOrder] /\ UNCHANGED <<market, peaks, asked>>
  BY <1>1, PlaceCases
<1>4. CASE /\ CanPlace(o) /\ placed < MaxOrders /\ placed' = placed + 1
           /\ o.kind = "market" /\ Settle(o, o.price) /\ UNCHANGED open
  BY <1>2, <1>3, <1>4, FilledKeeps
<1>5. CASE /\ CanPlace(o) /\ placed < MaxOrders /\ placed' = placed + 1
           /\ o.kind # "market" /\ open' = open \cup {[id |-> placed + 1, order |-> o]}
           /\ UNCHANGED <<cash, positions>>
  BY <1>2, <1>3, <1>5, QueuedKeeps
<1>6. CASE UNCHANGED portfolio
  BY <1>3, <1>6, RefusedKeeps DEF portfolio
<1> QED BY <1>2, <1>4, <1>5, <1>6

-----------------------------------------------------------------------------
(***************************************************************************)
(* Every step                                                              *)
(***************************************************************************)
LEMMA TradeCases ==
  ASSUME Trade
  PROVE  \/ \E p \in Running : Place(p)
         \/ \E p \in Running : Revalue(p)
         \/ \E p \in Running : Restart(p)
         \/ \E p \in Running : \E x \in open : Fill(p, x)
         \/ \E p \in Running : \E x \in open : CancelOpen(p, x)
         \/ \E s \in deployed.symbols, q \in Price : Move(s, q)
  BY DEF Trade

LEMMA TradeKeeps ==
  ASSUME RiskInv, UNCHANGED deployed, best' = (IF Equity' > best THEN Equity' ELSE best), Trade
  PROVE  RiskInv'
<1>1. ASSUME NEW p \in Running, Place(p) PROVE RiskInv'
  BY <1>1, PlaceKeeps
<1>2. ASSUME NEW p \in Running, Revalue(p) PROVE RiskInv'
  BY <1>2, RevalueKeeps
<1>3. ASSUME NEW p \in Running, Restart(p) PROVE RiskInv'
  BY <1>3, RestartKeeps
<1>4. ASSUME NEW p \in Running, NEW x \in open, Fill(p, x) PROVE RiskInv'
  BY <1>4, FillKeeps
<1>5. ASSUME NEW p \in Running, NEW x \in open, CancelOpen(p, x) PROVE RiskInv'
  BY <1>5, CancelOpenKeeps
<1>6. ASSUME NEW s \in deployed.symbols, NEW q \in Price, Move(s, q) PROVE RiskInv'
  BY <1>6, MoveKeeps
<1> QED BY <1>1, <1>2, <1>3, <1>4, <1>5, <1>6, TradeCases

LEMMA RiskStep == ASSUME RiskInv, [RiskNext]_riskVars PROVE RiskInv'
<1>1. CASE UNCHANGED riskVars
  BY <1>1 DEF riskVars, portfolio, RiskInv, Sound, RiskTypeOK, Deployable, Awaits, Asks, Wants, Undisturbed, Alone, Running,
              FrozenCash, Equity, ValueAt, Vetted, MarketOnly, WithinTotal, PositionsValue,
              Recorded, TotalAssets, Reached, OneSymbol, PeaksReached, CostReached
<1>2. CASE RiskNext
  <2>1. UNCHANGED deployed
    BY <1>2 DEF RiskNext
  <2>2. ASSUME NEW e \in Engine, NEW o \in Order, Ask(e, o) PROVE RiskInv'
    BY <2>1, <2>2, AskKeeps
  <2>4. ASSUME NEW p \in Running, Check(p) PROVE RiskInv'
    BY <2>1, <2>4, CheckKeeps
  <2>3. CASE Trade /\ best' = (IF Equity' > best THEN Equity' ELSE best)
    BY <2>1, <2>3, TradeKeeps
  <2> QED BY <1>2, <2>2, <2>3, <2>4 DEF RiskNext
<1> QED BY <1>1, <1>2

(* What risk control relies on: the type invariant, that nothing is paid   *)
(* twice, that nobody moves the cash a lone process has read before it     *)
(* reads the positions (_portfolio_metrics), that the check of a market    *)
(* order still holds when it is placed, and that no peak is above the      *)
(* highest equity at the prices buys execute at (apply_slippage).          *)
THEOREM RiskInductive == RiskSpec => []RiskInv
<1>1. RiskInit => RiskInv
  BY RiskStarts
<1>2. RiskInv /\ [RiskNext]_riskVars => RiskInv'
  BY RiskStep
<1> QED BY <1>1, <1>2, PTL DEF RiskSpec

(* However checks and placements of several processes interleave, what is  *)
(* frozen and what was paid never exceed the cash there is (create_order   *)
(* freezes what a checked order costs).                                    *)
THEOREM NothingOverspent == RiskSpec => []NeverOverspent
<1>1. RiskInv => NeverOverspent
  <2>1. ASSUME RiskInv PROVE NeverOverspent
    <3>1. Sound
      BY <2>1 DEF RiskInv
    <3>2. FrozenCash \in Int /\ cash \in Int /\ FrozenCash <= cash /\ RiskTypeOK
      BY <3>1, TypeParts, FrozenIsFor
    <3> QED BY <3>2 DEF NeverOverspent
  <2> QED BY <2>1
<1> QED BY <1>1, RiskInductive, PTL

-----------------------------------------------------------------------------
(***************************************************************************)
(* The limit on all positions                                              *)
(***************************************************************************)
(* After a buy at the price it was checked at.                             *)
LEMMA BoughtWithinLimit ==
  ASSUME RiskTypeOK, RiskTypeOK', UNCHANGED deployed, NEW o \in Order, o.side = "buy",
         o.symbol \in deployed.symbols, Settle(o, o.price), WithinTotal(o)
  PROVE  TotalWithinLimit'
<1>1. PICK n \in Nat, q \in Nat, w \in Nat :
        n = o.amount /\ q = o.price /\ o.price \in ExecutionPrice /\ w = n * q
  BY OrderFields
<1>2. PICK r \in Nat, a \in Nat, c \in Int, v \in Nat :
        /\ r = RestOf(o.symbol) /\ a = positions[o.symbol].amount /\ c = cash /\ v = a * q
        /\ TotalAssets(cash, o.symbol, q) = c + (r + v) /\ PositionsValue(o.symbol, q) = r + v
  <2>1. /\ TotalAssets(cash, o.symbol, q) = cash + (RestOf(o.symbol) + positions[o.symbol].amount * q)
        /\ PositionsValue(o.symbol, q) = RestOf(o.symbol) + positions[o.symbol].amount * q
        /\ RestOf(o.symbol) \in Nat /\ positions[o.symbol].amount * q \in Nat
    BY <1>1, AssetsAre
  <2>2. cash \in Int /\ positions[o.symbol].amount \in Nat
    BY TypedFacts
  <2> QED BY <2>1, <2>2
<1>3. /\ positions'[o.symbol] = Filled(o, o.price) /\ RestOf(o.symbol)' = r /\ cash' = c - w
  BY <1>1, <1>2, Settled
<1>4. positions'[o.symbol].amount = a + n /\ positions'[o.symbol].current = q
  BY <1>1, <1>2, <1>3, SettledRow
<1>5. (RiskTypeOK => \A s \in deployed.symbols :
         /\ RestOf(s) \in Nat
         /\ ValueAt(Recorded) = RestOf(s) + positions[s].amount * positions[s].current)'
  BY RecordedSplit, PTL
<1>6. ValueAt(Recorded)' = r + (a + n) * q
  BY <1>3, <1>4, <1>5
<1>7. (a + n) * q = v + w
  BY <1>1, <1>2
<1>8. (r + v + w) * 100 <= TotalLimit * (c + (r + v))
  BY <1>1, <1>2 DEF WithinTotal
<1>9. cash' + ValueAt(Recorded)' = c + (r + v) /\ ValueAt(Recorded)' = r + v + w
  BY <1>3, <1>6, <1>7
<1> HIDE DEF RiskTypeOK
<1> QED BY <1>8, <1>9 DEF TotalWithinLimit

Grows == \E s \in DOMAIN positions : positions'[s].amount > positions[s].amount

LEMMA LimitStep ==
  ASSUME RiskInv, RiskInv', [RiskNext]_riskVars, Grows, MarketOnly
  PROVE  TotalWithinLimit'
<1>1. Sound /\ Vetted /\ RiskTypeOK /\ RiskTypeOK'
  BY DEF RiskInv, Sound
<1>2. PICK s \in DOMAIN positions :
        /\ positions'[s].amount > positions[s].amount
        /\ s \in deployed.symbols /\ positions[s].amount \in Nat
  BY <1>1, TypedFacts DEF Grows
<1>3. ~ (UNCHANGED positions)
  BY <1>2
<1>4. RiskNext /\ UNCHANGED deployed
  BY <1>3 DEF RiskNext, riskVars, portfolio
<1>5. Trade /\ best' = (IF Equity' > best THEN Equity' ELSE best)
  BY <1>3, <1>4 DEF RiskNext, Ask, Check, portfolio
<1>6. ASSUME NEW p \in Running, Place(p) PROVE TotalWithinLimit'
  <2>1. PICK o \in Order :
          /\ Awaits(p, o) /\ Deployable(o) /\ p \in Process
          /\ CanPlace(o) /\ Settle(o, o.price)
    BY <1>1, <1>3, <1>6, PlaceCases DEF portfolio
  <2>2. /\ o.symbol \in deployed.symbols
        /\ o.side = "sell" => positions[o.symbol].amount >= o.amount
    BY <2>1, OrderFields DEF Deployable, CanPlace
  <2>3. o.price \in ExecutionPrice /\ o.amount \in Nat
    BY OrderFields
  <2>4. /\ positions'[o.symbol] = Filled(o, o.price)
        /\ \A t \in DOMAIN positions : t # o.symbol => positions'[t] = positions[t]
    BY <1>1, <1>4, <2>1, <2>2, <2>3, Settled
  <2>5. s = o.symbol
    BY <1>2, <2>4
  <2>6. o.side = "buy"
    <3>1. Filled(o, o.price).amount = IF o.side = "buy" THEN positions[o.symbol].amount + o.amount
                                      ELSE positions[o.symbol].amount - o.amount
      BY <1>1, <2>2, <2>3, SettledRow
    <3> QED BY <1>2, <2>3, <2>4, <2>5, <3>1, OrderFields
  <2>7. WithinTotal(o)
    BY <1>1, <2>1, <2>6 DEF Vetted
  <2> QED BY <1>1, <1>4, <2>1, <2>2, <2>6, <2>7, BoughtWithinLimit
<1>7. ASSUME NEW p \in Running, Revalue(p) PROVE FALSE
  BY <1>1, <1>2, <1>7, RevaluedRows
<1>8. ASSUME NEW p \in Running, NEW x \in open, Fill(p, x) PROVE FALSE
  BY <1>4, <1>5, <1>8, FillKeeps
<1>9. ASSUME NEW p \in Running, Restart(p) PROVE FALSE
  BY <1>3, <1>9 DEF Restart, portfolio
<1>10. ASSUME NEW p \in Running, NEW x \in open, CancelOpen(p, x) PROVE FALSE
  BY <1>3, <1>10 DEF CancelOpen
<1>11. ASSUME NEW t \in deployed.symbols, NEW q \in Price, Move(t, q) PROVE FALSE
  BY <1>3, <1>11 DEF Move, portfolio
<1> QED BY <1>5, <1>6, <1>7, <1>8, <1>9, <1>10, <1>11, TradeCases

(* With one engine of market orders, whenever a fill makes a position      *)
(* larger, all positions together are within max_total_position of what    *)
(* the portfolio is worth, although the check came a transaction earlier.  *)
THEOREM PositionsWithinLimit == RiskSpec => TotalPositionLimited
<1>1. RiskInv /\ RiskInv' /\ [RiskNext]_riskVars =>
        [(\E s \in DOMAIN positions : positions'[s].amount > positions[s].amount) /\ MarketOnly
           => TotalWithinLimit']_riskVars
  BY LimitStep DEF Grows
<1> QED BY <1>1, RiskInductive, PTL DEF RiskSpec, TotalPositionLimited

-----------------------------------------------------------------------------
(***************************************************************************)
(* The drawdown                                                            *)
(***************************************************************************)
LEMMA OpenLossStep == ASSUME RiskInv, [RiskNext]_riskVars PROVE OpenLossBlocksBuys
<1>1. Sound /\ RiskTypeOK
  BY DEF RiskInv, Sound
<1>2. ASSUME NEW p \in Process, Accepts(p), Alone \/ asked[p].cash = cash
      PROVE  LET o == checked'[p].order IN
             ~TooDeep(TotalAssets(cash, o.symbol, o.price), CashAtCost(cash))
  <2>1. checked[p] = NoOrder /\ checked'[p] # NoOrder /\ checked'[p].order.side = "buy"
    BY <1>2 DEF Accepts
  <2>2. DOMAIN checked = Process /\ p \in DOMAIN checked
    BY <1>1, TypeParts
  <2>3. ~ (UNCHANGED checked)
    BY <2>1
  <2>4. RiskNext
    BY <2>3 DEF riskVars
  <2>5. ~Trade
    <3>1. ASSUME NEW q \in Running, Place(q) PROVE FALSE
      <4>1. checked' = [checked EXCEPT ![q] = NoOrder]
        BY <3>1 DEF Place
      <4> QED BY <2>1, <2>2, <4>1
    <3>2. ASSUME NEW q \in Running, Restart(q) PROVE FALSE
      <4>1. checked' = [checked EXCEPT ![q] = NoOrder]
        BY <3>2 DEF Restart
      <4> QED BY <2>1, <2>2, <4>1
    <3> QED BY <2>3, <3>1, <3>2, TradeCases DEF Revalue, Fill, CancelOpen, Move
  <2>6. PICK q \in Running : Check(q)
    BY <2>3, <2>4, <2>5 DEF RiskNext, Ask
  <2>7. PICK e, o, money, total, peak :
          /\ e = asked[q].engine /\ o = asked[q].order /\ money = asked[q].cash
          /\ total = TotalAssets(money, o.symbol, o.price) /\ peak = UpdatePeak(e, money, total)
    OBVIOUS
  <2>8. /\ asked[q] # NoOrder
        /\ checked' = IF total > 0 /\ Acceptable(o, total, peak)
                      THEN [checked EXCEPT ![q] = [engine |-> e, order |-> o]] ELSE checked
    BY <2>6, <2>7 DEF Check
  <2>9. p = q /\ checked'[p].order = o /\ Acceptable(o, total, peak)
    BY <2>1, <2>2, <2>3, <2>8
  <2>10. money = cash
    BY <1>1, <1>2, <2>7, <2>8, <2>9 DEF Sound, Undisturbed
  <2>11. ~TooDeep(total, peak)
    BY <2>1, <2>9 DEF Acceptable
  <2>12. total \in Int /\ e \in Engine /\ cash \in Int
    <3>1. e \in Engine /\ o \in Order
      BY <1>1, <2>7, <2>8, <2>9, TypedFacts
    <3>2. o.symbol \in deployed.symbols /\ o.price \in Nat
      BY <1>1, <2>7, <2>8, <2>9, <3>1, OrderFields DEF Sound, Asks, Wants, Deployable
    <3>3. cash \in Int
      BY <1>1, TypedFacts
    <3> QED BY <1>1, <2>7, <2>10, <3>1, <3>2, <3>3, AssetsAre
  <2>13. TooDeep(total, CashAtCost(cash)) => TooDeep(total, peak)
    BY <1>1, <2>7, <2>10, <2>12, CheckedPeak
  <2> QED BY <2>7, <2>9, <2>10, <2>11, <2>13
<1> QED BY <1>2 DEF OpenLossBlocksBuys

LEMMA PeakReached == RiskInv => PeakWasReached
  BY DEF RiskInv, Reached, PeaksReached, PeakWasReached

(* The drawdown that risk control acts on is a real one but for slippage:  *)
(* with one engine of market orders in one symbol the peak it is measured  *)
(* from (_update_peak_equity) is not above the highest equity at the       *)
(* prices buys execute at, and for any deployment no buy passes the check  *)
(* while the open losses alone are deeper than max_drawdown, unless another*)
(* process moved the cash between the two reads of the check.              *)
THEOREM DrawdownIsReal == RiskSpec => DrawdownIsMeasured
<1>1. RiskInv /\ RiskInv' /\ [RiskNext]_riskVars =>
        [PeakWasReached' /\ OpenLossBlocksBuys]_riskVars
  <2>1. RiskInv' => PeakWasReached'
    BY PeakReached, PTL
  <2> QED BY <2>1, OpenLossStep
<1> QED BY <1>1, RiskInductive, PTL DEF RiskSpec, DrawdownIsMeasured

=============================================================================
