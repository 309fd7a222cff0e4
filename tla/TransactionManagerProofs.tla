---------------------- MODULE TransactionManagerProofs ----------------------
(***************************************************************************)
(* Proofs about TransactionManager, for any set of processes, any rows and *)
(* any depth of nesting.                                                   *)
(***************************************************************************)
EXTENDS TransactionManager, SequenceTheorems, TLAPS

-----------------------------------------------------------------------------
(***************************************************************************)
(* Sequences                                                               *)
(***************************************************************************)
\* What is left when a prefix of length n is kept.
LEMMA Prefix ==
  ASSUME NEW S, NEW s \in Seq(S), NEW n \in 0..Len(s)
  PROVE  /\ SubSeq(s, 1, n) \in Seq(S)
         /\ Len(SubSeq(s, 1, n)) = n
         /\ \A i \in 1..n : SubSeq(s, 1, n)[i] = s[i]
  <1>1. Len(s) \in Nat /\ \A i \in 1..n : s[i] \in S
    BY LenProperties, ElementOfSeq
  <1> QED
    BY <1>1, SubSeqProperties

\* A function on 1..n is a sequence of length n.
LEMMA FunctionIsSeq ==
  ASSUME NEW S, NEW n \in Nat, NEW s \in [1..n -> S]
  PROVE  s \in Seq(S) /\ Len(s) = n
  <1>1. s \in Seq(S)
    BY SeqDef
  <1>2. DOMAIN s = 1..n /\ DOMAIN s = 1..Len(s) /\ Len(s) \in Nat
    BY <1>1, LenProperties
  <1> QED
    BY <1>1, <1>2

-----------------------------------------------------------------------------
(***************************************************************************)
(* The inductive invariant.  Inside a block the depth counts the blocks,   *)
(* the first of them is the root, and the others own one savepoint each,   *)
(* named by its place.  Between blocks the depth is zero or, after refused *)
(* BEGINs, below.  A connection that only reads sees what is on the disk.  *)
(***************************************************************************)
Nesting(p) ==
  /\ blocks[p] # <<>> =>
       /\ depth[p] = Len(blocks[p])
       /\ p \in inTx
       /\ p \notin stopping
       /\ Len(saves[p]) = Len(blocks[p]) - 1
  /\ \A i \in 1..Len(blocks[p]) : blocks[p][i] = i - 1
  /\ \A i \in 1..Len(saves[p]) : saves[p][i].level = i
  /\ (blocks[p] = <<>> /\ p \notin stopping) => depth[p] <= 0 /\ saves[p] = <<>>
  /\ p \notin inTx => lock[p] = "none" /\ saves[p] = <<>>

Reading(p) ==
  lock[p] = "shared" =>
    /\ work[p] = disk
    /\ \A i \in 1..Len(saves[p]) : saves[p][i].rows = disk

Inv == TypeOK /\ \A p \in Process : Nesting(p) /\ Reading(p)

\* Initially every connection is idle.
LEMMA InvInit == Init => Inv
  BY BoundAssumption
  DEF Init, Inv, TypeOK, Nesting, Reading, Store, Savepoint

\* Inside a block, the parts of a connection.
LEMMA BlockFacts ==
  ASSUME Inv, NEW p \in Process, blocks[p] # <<>>
  PROVE  /\ blocks[p] \in Seq(Nat) /\ saves[p] \in Seq(Savepoint)
         /\ work[p] \in Store /\ disk \in Store
         /\ Len(blocks[p]) \in Nat /\ Len(blocks[p]) > 0
         /\ depth[p] = Len(blocks[p]) /\ Len(saves[p]) = Len(blocks[p]) - 1
         /\ p \in inTx /\ p \notin stopping
         /\ Innermost(p) = Len(blocks[p]) - 1
         /\ Len(blocks[p]) <= MaxBlocks
         /\ Innermost(p) # 0 => Named(p, Innermost(p)) = Len(saves[p])
  <1>1. blocks[p] \in Seq(Nat) /\ saves[p] \in Seq(Savepoint) /\ work[p] \in Store
        /\ disk \in Store /\ depth[p] \in -MaxRefused .. MaxBlocks
    BY DEF Inv, TypeOK
  <1>2. Len(blocks[p]) \in Nat /\ Len(blocks[p]) > 0 /\ Len(saves[p]) \in Nat
    BY <1>1, EmptySeq, LenProperties
  <1>3. Nesting(p)
    BY DEF Inv
  <1>4. /\ depth[p] = Len(blocks[p]) /\ Len(saves[p]) = Len(blocks[p]) - 1
        /\ p \in inTx /\ p \notin stopping
    BY <1>3 DEF Nesting
  <1>5. Innermost(p) = Len(blocks[p]) - 1
    BY <1>2, <1>3 DEF Nesting, Innermost
  <1>6. Len(blocks[p]) <= MaxBlocks
    BY <1>1, <1>4, BoundAssumption
  <1>7. ASSUME Innermost(p) # 0
        PROVE  Named(p, Innermost(p)) = Len(saves[p])
    <2> DEFINE n == Len(saves[p])
               Is(i) == /\ saves[p][i].level = n
                        /\ \A j \in 1..n : j > i => saves[p][j].level # n
    <2>1. DOMAIN saves[p] = 1..n
      BY <1>1, LenProperties
    <2>2. Innermost(p) = n
      BY <1>4, <1>5
    <2>3. n \in 1..n
      <3>1. n \in Nat
        BY <1>2
      <3>2. n # 0
        BY <1>7, <2>2
      <3> QED
        BY <3>1, <3>2
    <2>4. \A i \in 1..n : saves[p][i].level = i
      BY <1>3 DEF Nesting
    <2>5. \A i \in 1..n : Is(i) <=> i = n
      BY <2>3, <2>4
    <2>6. Named(p, Innermost(p)) = CHOOSE i \in 1..n : Is(i)
      BY <2>1, <2>2 DEF Named
    <2> QED
      BY <2>3, <2>5, <2>6
  <1> QED
    BY <1>1, <1>2, <1>4, <1>5, <1>6, <1>7

\* The innermost block is the root block exactly when it is the only one.
LEMMA RootIsFirst ==
  ASSUME Inv, NEW p \in Process, blocks[p] # <<>>
  PROVE  /\ Innermost(p) = 0 => Len(blocks[p]) = 1 /\ Len(saves[p]) = 0
         /\ Innermost(p) # 0 => \E n \in Nat : /\ Len(blocks[p]) = n + 2
                                              /\ Len(saves[p]) = n + 1
                                              /\ Named(p, Innermost(p)) = n + 1
  <1>1. PICK n \in Nat : n = Len(blocks[p]) - 1
    BY BlockFacts
  <1>2. Len(saves[p]) = n /\ Innermost(p) = n /\ Len(blocks[p]) = n + 1
    BY <1>1, BlockFacts
  <1>3. CASE n = 0
    BY <1>2, <1>3
  <1>4. CASE n # 0
    <2>1. Named(p, Innermost(p)) = n
      BY <1>2, <1>4, BlockFacts
    <2>2. n - 1 \in Nat /\ n = (n - 1) + 1 /\ n + 1 = (n - 1) + 2
      BY <1>4
    <2> QED
      BY <1>2, <1>4, <2>1, <2>2
  <1> QED
    BY <1>3, <1>4

-----------------------------------------------------------------------------
(***************************************************************************)
(* Every step keeps the invariant                                          *)
(***************************************************************************)
\* The connections of the other processes are left alone.
Alone(p) ==
  \A q \in Others(p) :
    /\ depth'[q] = depth[q] /\ blocks'[q] = blocks[q] /\ (q \in inTx' <=> q \in inTx)
    /\ saves'[q] = saves[q] /\ work'[q] = work[q] /\ lock'[q] = lock[q]
    /\ (q \in stopping' <=> q \in stopping)

\* A step of p that changes the disk, if at all, while nobody else reads.
LEMMA StepOfOne ==
  ASSUME Inv, NEW p \in Process, Alone(p), TypeOK',
         disk' = disk \/ \A q \in Others(p) : lock[q] = "none",
         Nesting(p)', Reading(p)'
  PROVE  Inv'
  <1>1. ASSUME NEW q \in Process, q # p
        PROVE  Nesting(q)' /\ Reading(q)'
    <2>1. Nesting(q) /\ Reading(q)
      BY DEF Inv
    <2>2. /\ depth'[q] = depth[q] /\ blocks'[q] = blocks[q] /\ (q \in inTx' <=> q \in inTx)
          /\ saves'[q] = saves[q] /\ work'[q] = work[q] /\ lock'[q] = lock[q]
          /\ (q \in stopping' <=> q \in stopping)
          /\ lock[q] = "shared" => disk' = disk
      BY <1>1 DEF Alone, Others
    <2>3. Nesting(q)'
      BY <2>1, <2>2 DEF Nesting
    <2>4. Reading(q)'
      BY <2>1, <2>2 DEF Reading
    <2> QED
      BY <2>3, <2>4
  <1> QED
    BY <1>1 DEF Inv

\* What a connection holds, whether or not it is inside a block.
LEMMA RowTypes ==
  ASSUME Inv, NEW p \in Process
  PROVE  /\ depth[p] \in -MaxRefused .. MaxBlocks
         /\ blocks[p] \in Seq(Nat) /\ Len(blocks[p]) \in Nat
         /\ saves[p] \in Seq(Savepoint) /\ Len(saves[p]) \in Nat
         /\ work[p] \in Store /\ lock[p] \in {"none", "shared", "reserved"}
         /\ disk \in Store
  BY LenProperties DEF Inv, TypeOK

\* Reading refreshes what the connection sees.
LEMMA ReadKeeps ==
  ASSUME Inv, NEW p \in Process, Read(p)
  PROVE  Inv' /\ Alone(p)
  <1> DEFINE s == [i \in DOMAIN saves[p] |-> [saves[p][i] EXCEPT !.rows = disk]]
  <1>1. PICK n \in Nat : DOMAIN saves[p] = 1..n /\ Len(saves[p]) = n
    BY RowTypes, LenProperties
  <1>2. \A i \in 1..n : saves[p][i] \in Savepoint
    BY <1>1, RowTypes, ElementOfSeq
  <1>3. /\ s \in Seq(Savepoint) /\ Len(s) = n
        /\ \A i \in 1..n : s[i] = [level |-> saves[p][i].level, rows |-> disk]
    <2>1. \A i \in 1..n : /\ s[i] = [level |-> saves[p][i].level, rows |-> disk]
                         /\ s[i] \in Savepoint
      BY <1>1, <1>2, RowTypes DEF Savepoint
    <2>2. s = [i \in 1..n |-> s[i]] /\ s \in [1..n -> Savepoint]
      BY <1>1, <2>1
    <2>3. s \in Seq(Savepoint) /\ Len(s) = n
      BY <2>2, FunctionIsSeq
    <2> QED
      BY <2>1, <2>3
  <1> HIDE DEF s
  <1>4. saves' = [saves EXCEPT ![p] = s]
    BY DEF Read, s
  <1>5. TypeOK'
    BY <1>3, <1>4 DEF Inv, TypeOK, Read
  <1>6. Alone(p)
    BY <1>4 DEF Inv, TypeOK, Read, Alone, Others
  <1>7. saves'[p] = s /\ work'[p] = disk /\ lock'[p] = "shared"
    BY <1>4 DEF Inv, TypeOK, Read
  <1>8. Nesting(p)'
    BY <1>1, <1>3, <1>7 DEF Inv, Read, Nesting
  <1>9. Reading(p)'
    BY <1>3, <1>7 DEF Read, Reading
  <1> QED
    BY <1>5, <1>6, <1>8, <1>9, StepOfOne DEF Read

\* Writing changes the rows of one connection.
LEMMA WriteKeeps ==
  ASSUME Inv, NEW p \in Process, Write(p)
  PROVE  Inv' /\ Alone(p)
  <1>1. PICK x \in Item : work' = [work EXCEPT ![p] =
                                   IF x \in @ THEN @ \ {x} ELSE @ \cup {x}]
    BY DEF Write
  <1>2. work'[p] \in Store /\ work' \in [Process -> Store]
    BY <1>1, RowTypes DEF Inv, TypeOK, Store
  <1>3. TypeOK'
    BY <1>2 DEF Inv, TypeOK, Write
  <1>4. Alone(p)
    BY <1>1 DEF Inv, TypeOK, Write, Alone, Others
  <1>5. Nesting(p)'
    BY RowTypes DEF Inv, TypeOK, Write, Nesting
  <1>6. Reading(p)'
    BY DEF Inv, TypeOK, Write, Reading
  <1> QED
    BY <1>3, <1>4, <1>5, <1>6, StepOfOne DEF Write

\* A root block starts with a depth of one and no savepoint.
LEMMA BeginRootKeeps ==
  ASSUME Inv, NEW p \in Process, Begin(p), BeginRoot(p)
  PROVE  Inv' /\ Alone(p)
  <1> DEFINE b == Append(blocks[p], depth[p])
  <1>1. blocks[p] = <<>> /\ saves[p] = <<>> /\ depth[p] = 0 /\ p \notin stopping
        /\ lock[p] = "none"
    <2>1. p \notin stopping /\ depth[p] = 0 /\ p \notin inTx
      BY RowTypes DEF Begin, BeginRoot
    <2>2. blocks[p] = <<>>
      BY <2>1, BlockFacts
    <2> QED
      BY <2>1, <2>2 DEF Inv, Nesting
  <1>2. b \in Seq(Nat) /\ b # <<>> /\ Len(b) = 1 /\ \A i \in 1..1 : b[i] = i - 1
    BY <1>1, RowTypes, AppendProperties, EmptySeq
  <1>3. MaxBlocks >= 1
    BY <1>1, EmptySeq, BoundAssumption DEF Begin
  <1> HIDE DEF b
  <1>4. blocks' = [blocks EXCEPT ![p] = b] /\ depth' = [depth EXCEPT ![p] = depth[p] + 1]
        /\ inTx' = inTx \cup {p}
        /\ UNCHANGED <<disk, saves, work, lock, stopping>>
    BY DEF BeginRoot, Enter, b
  <1>5. TypeOK'
    BY <1>1, <1>2, <1>3, <1>4, BoundAssumption DEF Inv, TypeOK
  <1>6. Alone(p)
    BY <1>4 DEF Inv, TypeOK, Alone, Others
  <1>7. blocks'[p] = b /\ depth'[p] = 1 /\ p \in inTx' /\ saves'[p] = <<>>
        /\ p \notin stopping' /\ lock'[p] = "none" /\ Len(saves'[p]) = 0
    BY <1>1, <1>4, EmptySeq DEF Inv, TypeOK
  <1>8. Nesting(p)'
    <2>1. \A i \in 1..Len(blocks'[p]) : blocks'[p][i] = i - 1
      BY <1>2, <1>7
    <2>2. \A i \in 1..Len(saves'[p]) : saves'[p][i].level = i
      BY <1>7
    <2>3. /\ blocks'[p] # <<>> /\ depth'[p] = Len(blocks'[p])
          /\ Len(saves'[p]) = Len(blocks'[p]) - 1
      BY <1>2, <1>7
    <2> QED
      BY <1>7, <2>1, <2>2, <2>3 DEF Nesting
  <1>9. Reading(p)'
    BY <1>7 DEF Reading
  <1> QED
    BY <1>4, <1>5, <1>6, <1>8, <1>9, StepOfOne

\* rollback() leaves a connection outside any transaction.
LEMMA RollbackFacts ==
  ASSUME Inv, NEW p \in Process, Rollback(p)
  PROVE  /\ inTx' \subseteq Process /\ saves' \in [Process -> Seq(Savepoint)]
         /\ work' \in [Process -> Store]
         /\ lock' \in [Process -> {"none", "shared", "reserved"}]
         /\ p \notin inTx' /\ saves'[p] = <<>> /\ Len(saves'[p]) = 0
         /\ work'[p] = disk /\ lock'[p] = "none"
         /\ \A q \in Others(p) : /\ (q \in inTx' <=> q \in inTx) /\ saves'[q] = saves[q]
                                /\ work'[q] = work[q] /\ lock'[q] = lock[q]
  <1>1. <<>> \in Seq(Savepoint) /\ Len(<<>>) = 0
    BY EmptySeq
  <1> QED
    BY <1>1 DEF Inv, TypeOK, Rollback, Others

\* The handler of a refused BEGIN takes the depth to -1.
LEMMA BeginRefusedKeeps ==
  ASSUME Inv, NEW p \in Process, Begin(p), BeginRefused(p)
  PROVE  Inv' /\ Alone(p)
  <1>1. depth[p] = 0 /\ blocks[p] = <<>> /\ p \notin stopping
    <2>1. depth[p] = 0 /\ p \notin stopping
      BY RowTypes DEF BeginRefused, Begin
    <2> QED
      BY <2>1, BlockFacts
  <1>2. Rollback(p) /\ depth' = [depth EXCEPT ![p] = depth[p] - 1]
        /\ UNCHANGED <<disk, blocks, stopping>>
    BY DEF BeginRefused
  <1>3. TypeOK'
    BY <1>1, <1>2, RollbackFacts, BoundAssumption DEF Inv, TypeOK
  <1>4. Alone(p)
    BY <1>2, RollbackFacts DEF Inv, TypeOK, Alone, Others
  <1>5. depth'[p] = -1 /\ blocks'[p] = <<>>
    BY <1>1, <1>2 DEF Inv, TypeOK
  <1>6. Nesting(p)'
    BY <1>2, <1>5, RollbackFacts, EmptySeq DEF Nesting
  <1>7. Reading(p)'
    BY <1>2, RollbackFacts DEF Reading
  <1> QED
    BY <1>2, <1>3, <1>4, <1>6, <1>7, StepOfOne

\* A further refusal only lowers the depth.
LEMMA NestedRefusedKeeps ==
  ASSUME Inv, NEW p \in Process, NestedRefused(p)
  PROVE  Inv' /\ Alone(p)
  <1>1. depth[p] < 0 /\ depth[p] > -MaxRefused /\ blocks[p] = <<>>
    <2>1. depth[p] < 0 /\ depth[p] > -MaxRefused
      BY DEF NestedRefused
    <2>2. blocks[p] = <<>>
      BY <2>1, BlockFacts, RowTypes
    <2> QED
      BY <2>1, <2>2
  <1>2. depth' = [depth EXCEPT ![p] = depth[p] - 1]
        /\ UNCHANGED <<disk, blocks, inTx, saves, work, lock, stopping>>
    BY DEF NestedRefused
  <1>3. depth'[p] = depth[p] - 1 /\ depth'[p] \in -MaxRefused .. MaxBlocks
    BY <1>1, <1>2, RowTypes, BoundAssumption DEF Inv, TypeOK
  <1>4. TypeOK'
    BY <1>2, <1>3 DEF Inv, TypeOK
  <1>5. Alone(p)
    BY <1>2 DEF Inv, TypeOK, Alone, Others
  <1>6. Nesting(p) /\ Reading(p)
    BY DEF Inv
  <1>7. Nesting(p)'
    BY <1>1, <1>2, <1>3, <1>6, RowTypes DEF Nesting
  <1>8. Reading(p)'
    BY <1>2, <1>6 DEF Reading
  <1> QED
    BY <1>2, <1>4, <1>5, <1>7, <1>8, StepOfOne

\* A nested block owns the next savepoint.
LEMMA BeginNestedKeeps ==
  ASSUME Inv, NEW p \in Process, Begin(p), BeginNested(p)
  PROVE  Inv' /\ Alone(p)
  <1> DEFINE b == Append(blocks[p], depth[p])
             s == Append(saves[p], [level |-> depth[p], rows |-> work[p]])
  <1>1. PICK n \in Nat : Len(saves[p]) = n
    BY RowTypes
  <1>2. blocks[p] # <<>> /\ p \notin stopping /\ p \in inTx
    <2>1. depth[p] > 0 /\ p \notin stopping
      BY DEF BeginNested, Begin
    <2>2. blocks[p] # <<>>
      BY <2>1, RowTypes DEF Inv, Nesting
    <2> QED
      BY <2>1, <2>2, BlockFacts
  <1>3. Len(blocks[p]) = n + 1 /\ depth[p] = n + 1 /\ n + 1 < MaxBlocks
    BY <1>1, <1>2, BlockFacts DEF Begin
  <1>4. /\ \A i \in 1..(n + 1) : blocks[p][i] = i - 1
        /\ \A i \in 1..n : saves[p][i].level = i
        /\ lock[p] = "shared" =>
             work[p] = disk /\ \A i \in 1..n : saves[p][i].rows = disk
    BY <1>1, <1>3 DEF Inv, Nesting, Reading
  <1>5. b \in Seq(Nat) /\ b # <<>> /\ Len(b) = n + 2 /\ \A i \in 1..(n + 2) : b[i] = i - 1
    <2>1. /\ b \in Seq(Nat) /\ b # <<>> /\ Len(b) = n + 2
          /\ \A i \in 1..(n + 1) : b[i] = blocks[p][i]
          /\ b[n + 2] = n + 1
      BY <1>3, RowTypes, AppendProperties
    <2> QED
      BY <1>4, <2>1
  <1>6. /\ s \in Seq(Savepoint) /\ Len(s) = n + 1
        /\ \A i \in 1..(n + 1) : s[i].level = i
        /\ lock[p] = "shared" => \A i \in 1..(n + 1) : s[i].rows = disk
    <2>1. [level |-> depth[p], rows |-> work[p]] \in Savepoint
      BY <1>3, RowTypes DEF Savepoint
    <2>2. /\ s \in Seq(Savepoint) /\ Len(s) = n + 1
          /\ \A i \in 1..n : s[i] = saves[p][i]
          /\ s[n + 1] = [level |-> n + 1, rows |-> work[p]]
      BY <1>1, <1>3, <2>1, RowTypes, AppendProperties
    <2> QED
      BY <1>4, <2>2
  <1> HIDE DEF b, s
  <1>7. /\ blocks' = [blocks EXCEPT ![p] = b] /\ depth' = [depth EXCEPT ![p] = depth[p] + 1]
        /\ inTx' = inTx \cup {p} /\ saves' = [saves EXCEPT ![p] = s]
        /\ UNCHANGED <<disk, work, lock, stopping>>
    BY DEF BeginNested, Enter, b, s
  <1>8. TypeOK'
    BY <1>3, <1>5, <1>6, <1>7, BoundAssumption DEF Inv, TypeOK
  <1>9. Alone(p)
    BY <1>7 DEF Inv, TypeOK, Alone, Others
  <1>10. blocks'[p] = b /\ depth'[p] = n + 2 /\ p \in inTx' /\ saves'[p] = s
         /\ p \notin stopping'
    BY <1>2, <1>3, <1>7 DEF Inv, TypeOK
  <1>11. Nesting(p)'
    BY <1>5, <1>6, <1>10 DEF Nesting
  <1>12. Reading(p)'
    BY <1>4, <1>6, <1>7, <1>10 DEF Reading
  <1> QED
    BY <1>7, <1>8, <1>9, <1>11, <1>12, StepOfOne

\* A BEGIN or SAVEPOINT, granted or refused.
LEMMA BeginKeeps ==
  ASSUME Inv, NEW p \in Process, Begin(p)
  PROVE  Inv' /\ Alone(p)
  BY BeginRootKeeps, BeginRefusedKeeps, BeginNestedKeeps, NestedRefusedKeeps DEF Begin

\* Leaving a block takes it off the stack and the depth back by one.
LEMMA LeaveFacts ==
  ASSUME Inv, NEW p \in Process, Leave(p)
  PROVE  /\ blocks[p] # <<>> /\ p \notin stopping /\ stopping' = stopping
         /\ blocks' \in [Process -> Seq(Nat)] /\ depth' \in [Process -> -MaxRefused .. MaxBlocks]
         /\ blocks'[p] = SubSeq(blocks[p], 1, Len(blocks[p]) - 1)
         /\ Len(blocks'[p]) = Len(blocks[p]) - 1 /\ depth'[p] = Len(blocks[p]) - 1
         /\ \A i \in 1..(Len(blocks[p]) - 1) : blocks'[p][i] = i - 1
         /\ Len(blocks[p]) = 1 => blocks'[p] = <<>>
         /\ \A q \in Others(p) : depth'[q] = depth[q] /\ blocks'[q] = blocks[q]
  <1> DEFINE b == SubSeq(blocks[p], 1, Len(blocks[p]) - 1)
  <1>1. /\ blocks[p] # <<>> /\ UNCHANGED stopping
        /\ blocks' = [blocks EXCEPT ![p] = b] /\ depth' = [depth EXCEPT ![p] = depth[p] - 1]
    BY DEF Leave
  <1>2. PICK n \in Nat : Len(blocks[p]) = n + 1
    BY <1>1, BlockFacts
  <1>3. depth[p] = n + 1 /\ n + 1 <= MaxBlocks /\ p \notin stopping
    BY <1>1, <1>2, BlockFacts
  <1>4. \A i \in 1..(n + 1) : blocks[p][i] = i - 1
    BY <1>2 DEF Inv, Nesting
  <1>5. /\ b \in Seq(Nat) /\ Len(b) = n /\ \A i \in 1..n : b[i] = i - 1
    BY <1>2, <1>4, RowTypes, Prefix
  <1>6. n = 0 => b = <<>>
    BY <1>5, EmptySeq
  <1> HIDE DEF b
  <1>7. blocks'[p] = b /\ depth'[p] = n
    BY <1>1, <1>3 DEF Inv, TypeOK
  <1>8. blocks' \in [Process -> Seq(Nat)] /\ depth' \in [Process -> -MaxRefused .. MaxBlocks]
    BY <1>1, <1>3, <1>5, BoundAssumption DEF Inv, TypeOK
  <1>9. \A q \in Others(p) : depth'[q] = depth[q] /\ blocks'[q] = blocks[q]
    BY <1>1 DEF Inv, TypeOK, Others
  <1> QED
    BY <1>1, <1>2, <1>3, <1>5, <1>6, <1>7, <1>8, <1>9 DEF b

\* RELEASE of the innermost block's savepoint removes the last one.
LEMMA ReleaseFacts ==
  ASSUME Inv, NEW p \in Process, blocks[p] # <<>>, Innermost(p) # 0,
         Release(p, Innermost(p))
  PROVE  /\ saves' \in [Process -> Seq(Savepoint)]
         /\ Len(saves[p]) \in Nat /\ Len(saves[p]) > 0
         /\ Len(saves[p]) = Len(blocks[p]) - 1
         /\ Len(saves'[p]) = Len(saves[p]) - 1
         /\ \A i \in 1..(Len(saves[p]) - 1) : saves'[p][i] = saves[p][i]
         /\ \A q \in Others(p) : saves'[q] = saves[q]
  <1>1. PICK n \in Nat : /\ Len(blocks[p]) = n + 2 /\ Len(saves[p]) = n + 1
                         /\ Named(p, Innermost(p)) = n + 1
    BY RootIsFirst
  <1> DEFINE s == SubSeq(saves[p], 1, n)
  <1>3. /\ s \in Seq(Savepoint) /\ Len(s) = n /\ \A i \in 1..n : s[i] = saves[p][i]
    BY <1>1, RowTypes, Prefix
  <1>4. saves' = [saves EXCEPT ![p] = s]
    BY <1>1 DEF Release
  <1> HIDE DEF s
  <1>5. saves' \in [Process -> Seq(Savepoint)] /\ saves'[p] = s
        /\ \A q \in Others(p) : saves'[q] = saves[q]
    BY <1>3, <1>4 DEF Inv, TypeOK, Others
  <1> QED
    BY <1>1, <1>3, <1>5

\* COMMIT may change the disk only while nobody else reads.
LEMMA CommitKeeps ==
  ASSUME Inv, NEW p \in Process, Commit(p)
  PROVE  Inv' /\ Alone(p)
  <1>1. Leave(p) /\ blocks[p] # <<>> /\ Len(blocks[p]) = 1
    <2>1. Leave(p) /\ blocks[p] # <<>> /\ Innermost(p) = 0
      BY DEF Commit, Leave
    <2> QED
      BY <2>1, RootIsFirst
  <1>2. /\ inTx' = inTx \ {p} /\ saves' = [saves EXCEPT ![p] = <<>>]
        /\ lock' = [lock EXCEPT ![p] = "none"] /\ UNCHANGED work
        /\ disk' = IF lock[p] = "reserved" THEN work[p] ELSE disk
        /\ lock[p] = "reserved" => \A q \in Others(p) : lock[q] = "none"
    BY DEF Commit
  <1>3. blocks'[p] = <<>> /\ depth'[p] = 0 /\ p \notin stopping'
        /\ blocks' \in [Process -> Seq(Nat)] /\ depth' \in [Process -> -MaxRefused .. MaxBlocks]
        /\ stopping' = stopping
        /\ \A q \in Others(p) : depth'[q] = depth[q] /\ blocks'[q] = blocks[q]
    BY <1>1, LeaveFacts
  <1>4. saves'[p] = <<>> /\ lock'[p] = "none" /\ <<>> \in Seq(Savepoint)
        /\ Len(saves'[p]) = 0 /\ Len(blocks'[p]) = 0
    BY <1>2, <1>3, EmptySeq DEF Inv, TypeOK
  <1>5. TypeOK'
    BY <1>2, <1>3, <1>4, RowTypes DEF Inv, TypeOK
  <1>6. Alone(p)
    BY <1>2, <1>3 DEF Inv, TypeOK, Alone, Others
  <1>7. Nesting(p)'
    BY <1>3, <1>4 DEF Nesting
  <1>8. Reading(p)'
    BY <1>4 DEF Reading
  <1> QED
    BY <1>2, <1>5, <1>6, <1>7, <1>8, StepOfOne

\* A COMMIT that gives up ends the block and leaves the transaction as it was.
LEMMA CommitFailsKeeps ==
  ASSUME Inv, NEW p \in Process, CommitFails(p)
  PROVE  Inv' /\ Alone(p)
  <1>1. Leave(p) /\ blocks[p] # <<>> /\ Len(blocks[p]) = 1 /\ p \in inTx
        /\ Len(saves[p]) = 0
    <2>1. Leave(p) /\ blocks[p] # <<>> /\ Innermost(p) = 0
      BY DEF CommitFails, Leave
    <2> QED
      BY <2>1, RootIsFirst, BlockFacts
  <1>2. UNCHANGED <<disk, inTx, saves, work, lock>>
    BY DEF CommitFails
  <1>3. blocks'[p] = <<>> /\ depth'[p] = 0 /\ p \notin stopping'
        /\ blocks' \in [Process -> Seq(Nat)] /\ depth' \in [Process -> -MaxRefused .. MaxBlocks]
        /\ stopping' = stopping
        /\ \A q \in Others(p) : depth'[q] = depth[q] /\ blocks'[q] = blocks[q]
    BY <1>1, LeaveFacts
  <1>4. saves[p] = <<>> /\ Len(blocks'[p]) = 0
    BY <1>1, <1>3, RowTypes, EmptySeq
  <1>5. TypeOK'
    BY <1>2, <1>3 DEF Inv, TypeOK
  <1>6. Alone(p)
    BY <1>2, <1>3 DEF Alone
  <1>7. Nesting(p)'
    BY <1>1, <1>2, <1>3, <1>4 DEF Nesting
  <1>8. Reading(p)'
    BY <1>2 DEF Inv, Reading
  <1> QED
    BY <1>2, <1>5, <1>6, <1>7, <1>8, StepOfOne

\* Leaving a nested block, with or without its changes.
LEMMA LeaveNestedKeeps ==
  ASSUME Inv, NEW p \in Process, Leave(p), Innermost(p) # 0,
         Release(p, Innermost(p)), UNCHANGED <<disk, inTx, lock>>,
         work' \in [Process -> Store], \A q \in Others(p) : work'[q] = work[q],
         \/ work'[p] = work[p]
         \/ lock[p] = "shared" => work'[p] = disk
  PROVE  Inv' /\ Alone(p)
  <1>1. blocks[p] # <<>> /\ p \in inTx /\ p \notin stopping
    BY LeaveFacts, BlockFacts
  <1>2. PICK n \in Nat : Len(blocks[p]) = n + 2 /\ Len(saves[p]) = n + 1
    BY <1>1, RootIsFirst
  <1>3. /\ blocks' \in [Process -> Seq(Nat)] /\ depth' \in [Process -> -MaxRefused .. MaxBlocks]
        /\ stopping' = stopping /\ Len(blocks'[p]) = n + 1 /\ depth'[p] = n + 1
        /\ \A i \in 1..(n + 1) : blocks'[p][i] = i - 1
        /\ \A q \in Others(p) : depth'[q] = depth[q] /\ blocks'[q] = blocks[q]
    <2>1. n + 2 - 1 = n + 1
      OBVIOUS
    <2> QED
      BY <1>2, <2>1, LeaveFacts
  <1>4. /\ saves' \in [Process -> Seq(Savepoint)] /\ Len(saves'[p]) = n
        /\ \A i \in 1..n : saves'[p][i] = saves[p][i]
        /\ \A q \in Others(p) : saves'[q] = saves[q]
    <2>1. n + 1 - 1 = n
      OBVIOUS
    <2> QED
      BY <1>1, <1>2, <2>1, ReleaseFacts
  <1>5. blocks'[p] # <<>>
    BY <1>3, EmptySeq
  <1>6. TypeOK'
    BY <1>3, <1>4 DEF Inv, TypeOK
  <1>7. Alone(p)
    BY <1>3, <1>4 DEF Alone
  <1>8. \A i \in 1..n : saves'[p][i].level = i
    BY <1>2, <1>4 DEF Inv, Nesting
  <1>9. Nesting(p)'
    <2>1. Len(saves'[p]) = Len(blocks'[p]) - 1
      BY <1>3, <1>4
    <2> QED
      BY <1>1, <1>3, <1>4, <1>5, <1>8, <2>1 DEF Nesting
  <1>10. ASSUME lock[p] = "shared"
         PROVE  work'[p] = disk /\ \A i \in 1..n : saves'[p][i].rows = disk
    <2>1. work[p] = disk /\ \A i \in 1..(n + 1) : saves[p][i].rows = disk
      BY <1>2, <1>10 DEF Inv, Reading
    <2>2. work'[p] = disk
      BY <1>10, <2>1
    <2> QED
      BY <1>4, <2>1, <2>2
  <1>11. Reading(p)'
    BY <1>4, <1>10 DEF Reading
  <1> QED
    BY <1>6, <1>7, <1>9, <1>11, StepOfOne

\* RELEASE keeps the changes.
LEMMA ReleaseNestedKeeps ==
  ASSUME Inv, NEW p \in Process, ReleaseNested(p)
  PROVE  Inv' /\ Alone(p)
  <1>1. Leave(p) /\ Innermost(p) # 0 /\ Release(p, Innermost(p))
        /\ UNCHANGED <<disk, inTx, work, lock>>
    BY DEF ReleaseNested
  <1>2. work' \in [Process -> Store]
    BY <1>1 DEF Inv, TypeOK
  <1> QED
    BY <1>1, <1>2, LeaveNestedKeeps

\* ROLLBACK TO goes back to the contents of the block's own savepoint.
LEMMA RollbackNestedFacts ==
  ASSUME Inv, NEW p \in Process, RollbackNested(p)
  PROVE  /\ Leave(p) /\ Innermost(p) # 0 /\ Release(p, Innermost(p))
         /\ UNCHANGED <<disk, inTx, lock>>
         /\ work' \in [Process -> Store] /\ \A q \in Others(p) : work'[q] = work[q]
         /\ \E n \in Nat : /\ Len(blocks[p]) = n + 2 /\ Len(saves[p]) = n + 1
                          /\ work'[p] = saves[p][n + 1].rows
  <1>1. /\ Leave(p) /\ Innermost(p) # 0 /\ Release(p, Innermost(p))
        /\ UNCHANGED <<disk, inTx, lock>>
        /\ work' = [work EXCEPT ![p] = saves[p][Named(p, Innermost(p))].rows]
    BY DEF RollbackNested
  <1>2. PICK n \in Nat : /\ Len(blocks[p]) = n + 2 /\ Len(saves[p]) = n + 1
                         /\ Named(p, Innermost(p)) = n + 1
    BY <1>1, LeaveFacts, RootIsFirst
  <1>3. saves[p][n + 1] \in Savepoint
    <2>1. n + 1 \in 1..Len(saves[p])
      BY <1>2
    <2> QED
      BY <2>1, RowTypes, ElementOfSeq
  <1>4. saves[p][n + 1].rows \in Store
    BY <1>3 DEF Savepoint
  <1>5. /\ work' \in [Process -> Store] /\ \A q \in Others(p) : work'[q] = work[q]
        /\ work'[p] = saves[p][n + 1].rows
    BY <1>1, <1>2, <1>4 DEF Inv, TypeOK, Others
  <1> QED
    BY <1>1, <1>2, <1>5

\* ROLLBACK TO and RELEASE end a nested block.
LEMMA RollbackNestedKeeps ==
  ASSUME Inv, NEW p \in Process, RollbackNested(p)
  PROVE  Inv' /\ Alone(p)
  <1>1. PICK n \in Nat : Len(saves[p]) = n + 1 /\ work'[p] = saves[p][n + 1].rows
    BY RollbackNestedFacts
  <1>2. lock[p] = "shared" => work'[p] = disk
    BY <1>1 DEF Inv, Reading
  <1> QED
    BY <1>2, RollbackNestedFacts, LeaveNestedKeeps

\* ROLLBACK ends the root block without a trace.
LEMMA RollbackRootKeeps ==
  ASSUME Inv, NEW p \in Process, RollbackRoot(p)
  PROVE  Inv' /\ Alone(p)
  <1>1. Leave(p) /\ Len(blocks[p]) = 1
    <2>1. Leave(p) /\ blocks[p] # <<>> /\ Innermost(p) = 0
      BY DEF RollbackRoot, Leave
    <2> QED
      BY <2>1, RootIsFirst
  <1>2. blocks'[p] = <<>> /\ depth'[p] = 0 /\ p \notin stopping'
        /\ blocks' \in [Process -> Seq(Nat)] /\ depth' \in [Process -> -MaxRefused .. MaxBlocks]
        /\ stopping' = stopping
        /\ \A q \in Others(p) : depth'[q] = depth[q] /\ blocks'[q] = blocks[q]
    BY <1>1, LeaveFacts
  <1>3. Rollback(p) /\ UNCHANGED disk
    BY DEF RollbackRoot
  <1>4. TypeOK'
    BY <1>2, <1>3, RollbackFacts DEF Inv, TypeOK
  <1>5. Alone(p)
    BY <1>2, <1>3, RollbackFacts DEF Alone
  <1>6. Len(blocks'[p]) = 0
    BY <1>2, EmptySeq
  <1>7. Nesting(p)'
    BY <1>2, <1>3, <1>6, RollbackFacts DEF Nesting
  <1>8. Reading(p)'
    BY <1>3, RollbackFacts DEF Reading
  <1> QED
    BY <1>3, <1>4, <1>5, <1>7, <1>8, StepOfOne

\* An interrupt leaves an open transaction behind, and a process that stops.
LEMMA InterruptKeeps ==
  ASSUME Inv, NEW p \in Process, Interrupt(p)
  PROVE  Inv' /\ Alone(p)
  <1>1. /\ blocks[p] # <<>> /\ blocks' = [blocks EXCEPT ![p] = <<>>]
        /\ stopping' = stopping \cup {p}
        /\ UNCHANGED <<disk, depth, inTx, saves, work, lock>>
    BY DEF Interrupt
  <1>2. <<>> \in Seq(Nat) /\ Len(<<>>) = 0 /\ p \in inTx
    BY <1>1, EmptySeq, BlockFacts
  <1>3. TypeOK'
    BY <1>1, <1>2 DEF Inv, TypeOK
  <1>4. Alone(p)
    BY <1>1 DEF Inv, TypeOK, Alone, Others
  <1>5. blocks'[p] = <<>> /\ Len(blocks'[p]) = 0
    BY <1>1, <1>2 DEF Inv, TypeOK
  <1>6. Nesting(p) /\ Reading(p)
    BY DEF Inv
  <1>7. Nesting(p)'
    BY <1>1, <1>2, <1>5, <1>6 DEF Nesting
  <1>8. Reading(p)'
    BY <1>1, <1>6 DEF Reading
  <1> QED
    BY <1>1, <1>3, <1>4, <1>7, <1>8, StepOfOne

\* A closed or killed connection is idle.
LEMMA ResetKeeps ==
  ASSUME Inv, NEW p \in Process, Reset(p)
  PROVE  Inv' /\ Alone(p)
  <1>1. /\ Rollback(p) /\ depth' = [depth EXCEPT ![p] = 0]
        /\ blocks' = [blocks EXCEPT ![p] = <<>>] /\ stopping' = stopping \ {p}
        /\ UNCHANGED disk
    BY DEF Reset
  <1>2. <<>> \in Seq(Nat) /\ Len(<<>>) = 0 /\ 0 \in -MaxRefused .. MaxBlocks
    BY EmptySeq, BoundAssumption
  <1>3. TypeOK'
    BY <1>1, <1>2, RollbackFacts DEF Inv, TypeOK
  <1>4. Alone(p)
    BY <1>1, RollbackFacts DEF Inv, TypeOK, Alone, Others
  <1>5. blocks'[p] = <<>> /\ Len(blocks'[p]) = 0 /\ depth'[p] = 0
    BY <1>1, <1>2 DEF Inv, TypeOK
  <1>6. Nesting(p)'
    BY <1>1, <1>5, RollbackFacts DEF Nesting
  <1>7. Reading(p)'
    BY <1>1, RollbackFacts DEF Reading
  <1> QED
    BY <1>1, <1>3, <1>4, <1>6, <1>7, StepOfOne

\* Every step of a process keeps the invariant and the other connections.
LEMMA StepKeeps ==
  ASSUME Inv, NEW p \in Process, Step(p)
  PROVE  Inv' /\ Alone(p)
  <1>1. CASE Read(p) \/ Write(p) \/ Begin(p)
    BY <1>1, ReadKeeps, WriteKeeps, BeginKeeps
  <1>2. CASE Commit(p) \/ CommitFails(p)
    BY <1>2, CommitKeeps, CommitFailsKeeps
  <1>3. CASE ReleaseNested(p) \/ RollbackRoot(p) \/ RollbackNested(p)
    BY <1>3, ReleaseNestedKeeps, RollbackRootKeeps, RollbackNestedKeeps
  <1>4. CASE Interrupt(p) \/ Close(p) \/ Kill(p)
    BY <1>4, InterruptKeeps, ResetKeeps DEF Close, Kill
  <1> QED
    BY <1>1, <1>2, <1>3, <1>4 DEF Step

\* The invariant is inductive.
LEMMA InvStep == Inv /\ [Next]_vars => Inv'
  <1> SUFFICES ASSUME Inv, [Next]_vars
               PROVE  Inv'
    OBVIOUS
  <1>1. CASE UNCHANGED vars
    BY <1>1 DEF vars, connection, Inv, TypeOK, Nesting, Reading
  <1>2. ASSUME NEW p \in Process, Step(p)
        PROVE  Inv'
    BY <1>2, StepKeeps
  <1> QED
    BY <1>1, <1>2 DEF Next

\* The tables and connections keep their types, for any number of processes
\* and any nesting; in particular the depth counter never leaves its range.
THEOREM TransactionsTyped == Spec => []TypeOK
  <1>1. Inv => TypeOK
    BY DEF Inv
  <1> QED
    BY <1>1, InvInit, InvStep, PTL DEF Spec

\* No block ever releases, or rolls back to, the savepoint of another block.
THEOREM TransactionsMatch == Spec => []SavepointsMatchBlocks
  <1>1. ASSUME Inv PROVE SavepointsMatchBlocks
    <2> SUFFICES ASSUME NEW p \in Process, blocks[p] # <<>>
                 PROVE  /\ Len(saves[p]) = Len(blocks[p]) - 1
                        /\ \A i \in DOMAIN saves[p] : saves[p][i].level = blocks[p][i + 1]
                        /\ \A i, j \in DOMAIN saves[p] :
                             saves[p][i].level = saves[p][j].level => i = j
      BY DEF SavepointsMatchBlocks
    <2>1. PICK n \in Nat : Len(blocks[p]) = n + 1 /\ Len(saves[p]) = n
      BY <1>1, BlockFacts
    <2>2. DOMAIN saves[p] = 1..n
      BY <1>1, <2>1, RowTypes, LenProperties
    <2>3. /\ \A i \in 1..(n + 1) : blocks[p][i] = i - 1
          /\ \A i \in 1..n : saves[p][i].level = i
      BY <1>1, <2>1 DEF Inv, Nesting
    <2>4. \A i \in 1..n : saves[p][i].level = blocks[p][i + 1]
      BY <2>3
    <2>5. Len(saves[p]) = Len(blocks[p]) - 1
      BY <2>1
    <2>6. \A i, j \in 1..n : saves[p][i].level = saves[p][j].level => i = j
      BY <2>3
    <2> QED
      BY <2>2, <2>4, <2>5, <2>6
  <1> QED
    BY <1>1, InvInit, InvStep, PTL DEF Spec

-----------------------------------------------------------------------------
(***************************************************************************)
(* The connection of Self implements AtomicStore                           *)
(***************************************************************************)
\* Pending, as a function of one connection and the disk.
View(b, s, w, l, d) ==
  [i \in DOMAIN b |-> IF l = "none" THEN d
                      ELSE IF i < Len(b) THEN s[i].rows ELSE w]

\* v shows, block by block, what the connection sees.
Shows(v, b, s, w, l, d) ==
  /\ v \in Seq(Store) /\ Len(v) = Len(b)
  /\ l = "none" => \A i \in 1..Len(b) : v[i] = d
  /\ l # "none" => /\ \A i \in 1..(Len(b) - 1) : v[i] = s[i].rows
                   /\ b # <<>> => v[Len(b)] = w

\* Each open block sees some contents.
LEMMA ViewShows ==
  ASSUME NEW b \in Seq(Nat), NEW s \in Seq(Savepoint),
         b # <<>> => Len(s) = Len(b) - 1,
         NEW w \in Store, NEW l \in {"none", "shared", "reserved"}, NEW d \in Store
  PROVE  Shows(View(b, s, w, l, d), b, s, w, l, d)
  <1> DEFINE v == View(b, s, w, l, d)
  <1>1. PICK n \in Nat : n = Len(b) /\ DOMAIN b = 1..n /\ (b = <<>> <=> n = 0)
    BY LenProperties, EmptySeq
  <1>2. ASSUME NEW i \in 1..(n - 1)
        PROVE  s[i].rows \in Store
    <2>1. i \in 1..Len(s)
      BY <1>1
    <2>2. s[i] \in Savepoint
      BY <2>1, ElementOfSeq
    <2> QED
      BY <2>2 DEF Savepoint
  <1>3. v = [i \in 1..n |-> IF l = "none" THEN d ELSE IF i < n THEN s[i].rows ELSE w]
    BY <1>1 DEF View
  <1>4. \A i \in 1..n : v[i] = IF l = "none" THEN d ELSE IF i < n THEN s[i].rows ELSE w
    BY <1>3
  <1>5. v \in [1..n -> Store]
    BY <1>2, <1>3
  <1> HIDE DEF v
  <1>6. v \in Seq(Store) /\ Len(v) = n
    BY <1>5, FunctionIsSeq
  <1> QED
    BY <1>1, <1>4, <1>6 DEF v, Shows

\* Pending is the view of Self's connection, before and after a step.
LEMMA PendingIsView ==
  /\ Pending = View(blocks[Self], saves[Self], work[Self], lock[Self], disk)
  /\ Pending' = View(blocks'[Self], saves'[Self], work'[Self], lock'[Self], disk')
  BY DEF Pending, View

\* What the open blocks of Self see, before a step.
LEMMA PendingShows ==
  ASSUME Inv
  PROVE  Shows(Pending, blocks[Self], saves[Self], work[Self], lock[Self], disk)
  <1>1. /\ blocks[Self] \in Seq(Nat) /\ saves[Self] \in Seq(Savepoint)
        /\ work[Self] \in Store /\ disk \in Store
        /\ lock[Self] \in {"none", "shared", "reserved"}
        /\ blocks[Self] # <<>> => Len(saves[Self]) = Len(blocks[Self]) - 1
    BY SelfAssumption, RowTypes, BlockFacts
  <1>2. PICK b \in Seq(Nat), s \in Seq(Savepoint), w \in Store,
             l \in {"none", "shared", "reserved"}, d \in Store :
          /\ b = blocks[Self] /\ s = saves[Self] /\ w = work[Self]
          /\ l = lock[Self] /\ d = disk
    BY <1>1
  <1>3. Shows(View(b, s, w, l, d), b, s, w, l, d)
    BY <1>1, <1>2, ViewShows
  <1> QED
    BY <1>2, <1>3, PendingIsView

\* The same after a step.
LEMMA PendingShowsAfter ==
  ASSUME Inv'
  PROVE  Shows(Pending', blocks'[Self], saves'[Self], work'[Self], lock'[Self], disk')
  <1>1. /\ blocks'[Self] \in Seq(Nat) /\ saves'[Self] \in Seq(Savepoint)
        /\ work'[Self] \in Store /\ disk' \in Store
        /\ lock'[Self] \in {"none", "shared", "reserved"}
        /\ blocks'[Self] # <<>> => Len(saves'[Self]) = Len(blocks'[Self]) - 1
    BY SelfAssumption DEF Inv, TypeOK, Nesting
  <1>2. PICK b \in Seq(Nat), s \in Seq(Savepoint), w \in Store,
             l \in {"none", "shared", "reserved"}, d \in Store :
          /\ b = blocks'[Self] /\ s = saves'[Self] /\ w = work'[Self]
          /\ l = lock'[Self] /\ d = disk'
    BY <1>1
  <1>3. Shows(View(b, s, w, l, d), b, s, w, l, d)
    BY <1>1, <1>2, ViewShows
  <1> QED
    BY <1>2, <1>3, PendingIsView

\* Sequences that agree everywhere are equal.
LEMMA SameSeq ==
  ASSUME NEW S, NEW s \in Seq(S), NEW t \in Seq(S), NEW n \in Nat,
         Len(s) = n, Len(t) = n, \A i \in 1..n : s[i] = t[i]
  PROVE  s = t
  BY SeqEqual

\* Only a COMMIT that nobody's reading forbids changes the disk.
LEMMA DiskChanges ==
  ASSUME NEW p \in Process, Step(p), disk' # disk
  PROVE  Commit(p) /\ \A q \in Others(p) : lock[q] = "none"
  <1>1. Commit(p)
    BY DEF Step, Read, Write, Begin, BeginRoot, BeginRefused, BeginNested,
           NestedRefused, CommitFails, ReleaseNested, RollbackRoot, RollbackNested,
           Interrupt, Close, Kill, Reset
  <1> QED
    BY <1>1 DEF Commit

\* What another process does is invisible, or a new disk under blocks that have
\* not read anything yet.
LEMMA OthersRefine ==
  ASSUME Inv, NEW q \in Process, q # Self, Step(q)
  PROVE  A!Elsewhere \/ UNCHANGED A!vars
  <1>1. Inv' /\ Alone(q)
    BY StepKeeps
  <1>2. /\ blocks'[Self] = blocks[Self] /\ saves'[Self] = saves[Self]
        /\ work'[Self] = work[Self] /\ lock'[Self] = lock[Self]
    BY <1>1, SelfAssumption DEF Alone, Others
  <1>3. CASE disk' = disk
    <2>1. Pending' = Pending
      BY <1>2, <1>3, PendingIsView
    <2> QED
      BY <1>3, <2>1 DEF A!vars
  <1>4. CASE disk' # disk
    <2>1. lock[Self] = "none"
      BY <1>4, DiskChanges, SelfAssumption DEF Others
    <2>2. PICK n \in Nat : n = Len(blocks[Self])
      BY SelfAssumption, RowTypes
    <2>3. /\ Pending \in Seq(Store) /\ Len(Pending) = n
          /\ \A i \in 1..n : Pending[i] = disk
      BY <2>1, <2>2, PendingShows DEF Shows
    <2>4. /\ Pending' \in Seq(Store) /\ Len(Pending') = n
          /\ \A i \in 1..n : Pending'[i] = disk'
      BY <1>1, <1>2, <2>1, <2>2, PendingShowsAfter DEF Shows
    <2>5. DOMAIN Pending = 1..n /\ DOMAIN Pending' = 1..n
      BY <2>3, <2>4, LenProperties
    <2>6. Pending' = [i \in 1..n |-> disk']
      <3>1. Pending' = [i \in 1..n |-> Pending'[i]]
        BY <2>4, <2>5, LenProperties
      <3> QED
        BY <2>4, <3>1
    <2>7. disk' \in Store
      BY <1>1 DEF Inv, TypeOK
    <2> QED
      BY <2>3, <2>5, <2>6, <2>7 DEF A!Elsewhere
  <1> QED
    BY <1>3, <1>4

\* The reads, writes and BEGINs of Self.
LEMMA ReadRefines ==
  ASSUME Inv, Read(Self)
  PROVE  UNCHANGED A!vars
  <1>1. Inv'
    BY SelfAssumption, ReadKeeps
  <1>2. /\ lock[Self] = "none" /\ lock'[Self] = "shared" /\ disk' = disk
        /\ blocks' = blocks /\ blocks[Self] # <<>>
    BY SelfAssumption DEF Inv, TypeOK, Read
  <1>3. PICK n \in Nat : n + 1 = Len(blocks[Self]) /\ n = Len(saves'[Self])
    <2>1. PICK m \in Nat : m = Len(blocks[Self]) - 1 /\ m + 1 = Len(blocks[Self])
      BY <1>2, SelfAssumption, BlockFacts
    <2>2. Len(saves'[Self]) = Len(blocks[Self]) - 1
      BY <1>1, <1>2, SelfAssumption DEF Inv, Nesting
    <2> QED
      BY <2>1, <2>2
  <1>4. work'[Self] = disk /\ \A i \in 1..n : saves'[Self][i].rows = disk
    BY <1>1, <1>2, <1>3, SelfAssumption DEF Inv, Reading
  <1>5. /\ Pending \in Seq(Store) /\ Len(Pending) = n + 1
        /\ \A i \in 1..(n + 1) : Pending[i] = disk
    BY <1>2, <1>3, PendingShows DEF Shows
  <1>6. /\ Pending' \in Seq(Store) /\ Len(Pending') = n + 1
        /\ \A i \in 1..(n + 1) : Pending'[i] = disk
    <2>1. Len(blocks'[Self]) = n + 1 /\ Len(blocks'[Self]) - 1 = n
      BY <1>2, <1>3
    <2>2. Shows(Pending', blocks'[Self], saves'[Self], work'[Self], lock'[Self], disk')
      BY <1>1, PendingShowsAfter
    <2>3. lock'[Self] # "none" /\ blocks'[Self] # <<>>
      BY <1>2
    <2>4. Pending' \in Seq(Store) /\ Len(Pending') = n + 1
      BY <2>1, <2>2 DEF Shows
    <2>5. \A i \in 1..n : Pending'[i] = saves'[Self][i].rows
      BY <2>1, <2>2, <2>3 DEF Shows
    <2>6. Pending'[n + 1] = work'[Self]
      BY <2>1, <2>2, <2>3 DEF Shows
    <2> QED
      BY <1>4, <2>4, <2>5, <2>6
  <1>7. Pending' = Pending
    BY <1>5, <1>6, SameSeq
  <1> QED
    BY <1>2, <1>7 DEF A!vars

\* Outside blocks nothing is pending.
LEMMA NothingPending ==
  /\ Inv /\ blocks[Self] = <<>> => Pending = <<>>
  /\ Inv' /\ blocks'[Self] = <<>> => Pending' = <<>>
  <1>1. ASSUME Inv, blocks[Self] = <<>> PROVE Pending = <<>>
    <2>1. Pending \in Seq(Store) /\ Len(Pending) = 0
      BY <1>1, EmptySeq, PendingShows DEF Shows
    <2> QED
      BY <2>1, EmptySeq
  <1>2. ASSUME Inv', blocks'[Self] = <<>> PROVE Pending' = <<>>
    <2>1. Pending' \in Seq(Store) /\ Len(Pending') = 0
      BY <1>2, EmptySeq, PendingShowsAfter DEF Shows
    <2> QED
      BY <2>1, EmptySeq
  <1> QED
    BY <1>1, <1>2

\* Inside blocks there is something.
LEMMA SomethingPending ==
  ASSUME Inv, blocks[Self] # <<>>
  PROVE  \E n \in Nat :
           /\ Len(blocks[Self]) = n + 1 /\ Len(saves[Self]) = n
           /\ Pending \in Seq(Store) /\ Len(Pending) = n + 1 /\ Pending # <<>>
           /\ lock[Self] = "none" => \A i \in 1..(n + 1) : Pending[i] = disk
           /\ lock[Self] # "none" => \A i \in 1..n : Pending[i] = saves[Self][i].rows
           /\ lock[Self] # "none" => Pending[n + 1] = work[Self]
  <1>1. PICK n \in Nat : n = Len(blocks[Self]) - 1 /\ Len(blocks[Self]) = n + 1
    BY SelfAssumption, BlockFacts
  <1>2. Len(saves[Self]) = n
    BY <1>1, SelfAssumption, BlockFacts
  <1>3. Shows(Pending, blocks[Self], saves[Self], work[Self], lock[Self], disk)
    BY PendingShows
  <1>4. Pending \in Seq(Store) /\ Len(Pending) = n + 1
    BY <1>1, <1>3 DEF Shows
  <1>5. Pending # <<>>
    BY <1>4, EmptySeq
  <1>6. lock[Self] = "none" => \A i \in 1..(n + 1) : Pending[i] = disk
    BY <1>1, <1>3 DEF Shows
  <1>7. lock[Self] # "none" => \A i \in 1..n : Pending[i] = saves[Self][i].rows
    BY <1>1, <1>3 DEF Shows
  <1>8. lock[Self] # "none" => Pending[n + 1] = work[Self]
    BY <1>1, <1>3 DEF Shows
  <1> QED
    BY <1>1, <1>2, <1>4, <1>5, <1>6, <1>7, <1>8

\* The same after a step, for n + 1 blocks.
LEMMA SomethingPendingAfter ==
  ASSUME Inv', NEW n \in Nat, Len(blocks'[Self]) = n + 1
  PROVE  /\ Pending' \in Seq(Store) /\ Len(Pending') = n + 1
         /\ lock'[Self] = "none" => \A i \in 1..(n + 1) : Pending'[i] = disk'
         /\ lock'[Self] # "none" => \A i \in 1..n : Pending'[i] = saves'[Self][i].rows
         /\ lock'[Self] # "none" => Pending'[n + 1] = work'[Self]
  <1>1. Shows(Pending', blocks'[Self], saves'[Self], work'[Self], lock'[Self], disk')
    BY PendingShowsAfter
  <1>2. Len(blocks'[Self]) - 1 = n /\ blocks'[Self] # <<>>
    BY EmptySeq
  <1>3. Pending' \in Seq(Store) /\ Len(Pending') = n + 1
    BY <1>1 DEF Shows
  <1>4. lock'[Self] = "none" => \A i \in 1..(n + 1) : Pending'[i] = disk'
    BY <1>1 DEF Shows
  <1>5. lock'[Self] # "none" => \A i \in 1..n : Pending'[i] = saves'[Self][i].rows
    BY <1>1, <1>2 DEF Shows
  <1>6. lock'[Self] # "none" => Pending'[n + 1] = work'[Self]
    BY <1>1, <1>2 DEF Shows
  <1> QED
    BY <1>3, <1>4, <1>5, <1>6

\* A write changes what the innermost block sees.
LEMMA WriteRefines ==
  ASSUME Inv, Write(Self)
  PROVE  A!Write
  <1>1. Inv'
    BY SelfAssumption, WriteKeeps
  <1>2. /\ lock[Self] # "none" /\ lock'[Self] = "reserved" /\ disk' = disk
        /\ blocks' = blocks /\ saves' = saves /\ blocks[Self] # <<>>
    BY SelfAssumption DEF Inv, TypeOK, Write
  <1>3. PICK n \in Nat : /\ Len(blocks[Self]) = n + 1
                         /\ Pending \in Seq(Store) /\ Len(Pending) = n + 1 /\ Pending # <<>>
                         /\ \A i \in 1..n : Pending[i] = saves[Self][i].rows
    BY <1>2, SomethingPending
  <1>4. /\ Pending' \in Seq(Store) /\ Len(Pending') = n + 1
        /\ \A i \in 1..n : Pending'[i] = Pending[i]
        /\ Pending'[n + 1] = work'[Self]
    BY <1>1, <1>2, <1>3, SomethingPendingAfter
  <1>5. work'[Self] \in Store
    BY <1>1, SelfAssumption DEF Inv, TypeOK
  <1> DEFINE t == [Pending EXCEPT ![n + 1] = work'[Self]]
  <1>6. /\ t \in Seq(Store) /\ Len(t) = n + 1
        /\ \A i \in 1..(n + 1) : t[i] = IF i = n + 1 THEN work'[Self] ELSE Pending[i]
    BY <1>3, <1>5, ExceptSeq
  <1>7. \A i \in 1..(n + 1) : Pending'[i] = t[i]
    BY <1>4, <1>6
  <1>8. Pending' = t
    BY <1>4, <1>6, <1>7, SameSeq
  <1> QED
    BY <1>2, <1>3, <1>5, <1>8 DEF A!Write

\* A block starts with what the block around it sees.
LEMMA BeginRefines ==
  ASSUME Inv, Begin(Self)
  PROVE  A!Begin \/ UNCHANGED A!vars
  <1>1. Inv'
    BY SelfAssumption, BeginKeeps
  <1>2. CASE BeginRoot(Self)
    <2>1. blocks[Self] = <<>> /\ lock'[Self] = "none" /\ disk' = disk
      <3>1. depth[Self] = 0 /\ Self \notin inTx /\ lock' = lock /\ disk' = disk
        BY <1>2 DEF BeginRoot
      <3> QED
        BY <3>1, SelfAssumption, BlockFacts DEF Inv, Nesting
    <2>2. Len(blocks'[Self]) = 0 + 1
      <3>1. blocks'[Self] = Append(blocks[Self], depth[Self]) /\ depth[Self] = 0
        BY <1>2, SelfAssumption DEF BeginRoot, Enter, Inv, TypeOK
      <3> QED
        BY <2>1, <3>1, EmptySeq, AppendProperties
    <2>3. /\ Pending' \in Seq(Store) /\ Len(Pending') = 1
          /\ \A i \in 1..1 : Pending'[i] = disk
      <3>1. PICK n \in Nat : n = 0 /\ Len(blocks'[Self]) = n + 1
        BY <2>2
      <3>2. /\ Pending' \in Seq(Store) /\ Len(Pending') = n + 1
            /\ \A i \in 1..(n + 1) : Pending'[i] = disk
        BY <1>1, <2>1, <3>1, SomethingPendingAfter
      <3> QED
        BY <3>1, <3>2
    <2>4. Pending = <<>> /\ disk \in Store
      BY <2>1, NothingPending, SelfAssumption, RowTypes
    <2> DEFINE t == Append(<<>>, disk)
    <2>5. t \in Seq(Store) /\ Len(t) = 1 /\ \A i \in 1..1 : t[i] = disk
      BY <2>4, EmptySeq, AppendProperties
    <2>6. Pending' = t
      BY <2>3, <2>5, SameSeq
    <2> QED
      BY <2>1, <2>4, <2>6 DEF A!Begin, A!Top
  <1>3. CASE BeginRefused(Self) \/ NestedRefused(Self)
    <2>1. depth[Self] <= 0 /\ disk' = disk /\ blocks' = blocks
      BY <1>3, SelfAssumption, RowTypes DEF BeginRefused, NestedRefused
    <2>2. blocks[Self] = <<>>
      BY <2>1, SelfAssumption, BlockFacts
    <2>3. Pending = <<>> /\ Pending' = <<>>
      BY <1>1, <2>1, <2>2, NothingPending
    <2> QED
      BY <2>1, <2>3 DEF A!vars
  <1>4. CASE BeginNested(Self)
    <2>1. depth[Self] > 0 /\ disk' = disk /\ work' = work /\ lock' = lock
      BY <1>4 DEF BeginNested
    <2>2. blocks[Self] # <<>>
      <3>1. Self \notin stopping
        BY DEF Begin
      <3> QED
        BY <2>1, <3>1, SelfAssumption, RowTypes DEF Inv, Nesting
    <2>3. PICK n \in Nat :
            /\ Len(blocks[Self]) = n + 1 /\ Len(saves[Self]) = n
            /\ Pending \in Seq(Store) /\ Len(Pending) = n + 1 /\ Pending # <<>>
            /\ lock[Self] = "none" => \A i \in 1..(n + 1) : Pending[i] = disk
            /\ lock[Self] # "none" => \A i \in 1..n : Pending[i] = saves[Self][i].rows
            /\ lock[Self] # "none" => Pending[n + 1] = work[Self]
      BY <2>2, SomethingPending
    <2>4. n + 1 \in Nat /\ n + 1 + 1 = n + 2
      OBVIOUS
    <2>5. Len(blocks'[Self]) = n + 1 + 1
      <3>1. depth[Self] = n + 1
        BY <2>2, <2>3, SelfAssumption, BlockFacts
      <3>2. blocks'[Self] = Append(blocks[Self], depth[Self])
        BY <1>4, SelfAssumption DEF BeginNested, Enter, Inv, TypeOK
      <3> QED
        BY <2>3, <3>1, <3>2, SelfAssumption, RowTypes, AppendProperties
    <2>6. /\ \A i \in 1..n : saves'[Self][i] = saves[Self][i]
          /\ saves'[Self][n + 1].rows = work[Self]
      <3> DEFINE sp == [level |-> depth[Self], rows |-> work[Self]]
      <3>1. sp \in Savepoint /\ sp.rows = work[Self]
        BY <2>1, SelfAssumption, RowTypes DEF Savepoint
      <3>2. saves'[Self] = Append(saves[Self], sp)
        BY <1>4, SelfAssumption DEF BeginNested, Inv, TypeOK
      <3> HIDE DEF sp
      <3>3. /\ \A i \in 1..n : saves'[Self][i] = saves[Self][i]
            /\ saves'[Self][n + 1] = sp
        BY <2>3, <3>1, <3>2, SelfAssumption, RowTypes, AppendProperties
      <3> QED
        BY <3>1, <3>3
    <2>7. /\ Pending' \in Seq(Store) /\ Len(Pending') = n + 2
          /\ lock[Self] = "none" => \A i \in 1..(n + 2) : Pending'[i] = disk
          /\ lock[Self] # "none" => \A i \in 1..(n + 1) : Pending'[i] = saves'[Self][i].rows
          /\ lock[Self] # "none" => Pending'[n + 2] = work[Self]
      BY <1>1, <2>1, <2>4, <2>5, SomethingPendingAfter
    <2>8. /\ \A i \in 1..(n + 1) : Pending'[i] = Pending[i]
          /\ Pending'[n + 2] = Pending[n + 1]
      BY <2>3, <2>6, <2>7
    <2>9. Pending[n + 1] \in Store
      BY <2>3, ElementOfSeq
    <2> DEFINE t == Append(Pending, Pending[n + 1])
    <2>10. /\ t \in Seq(Store) /\ Len(t) = n + 2
           /\ \A i \in 1..(n + 1) : t[i] = Pending[i]
           /\ t[n + 2] = Pending[n + 1]
      BY <2>3, <2>4, <2>9, AppendProperties
    <2>11. \A i \in 1..(n + 2) : Pending'[i] = t[i]
      BY <2>8, <2>10
    <2>12. Pending' = t
      BY <2>7, <2>10, <2>11, SameSeq
    <2> QED
      BY <2>1, <2>3, <2>12 DEF A!Begin, A!Top
  <1> QED
    BY <1>2, <1>3, <1>4 DEF Begin

\* Fewer blocks are left, and those show what they showed.
LEMMA PrefixPending ==
  ASSUME Inv, blocks[Self] # <<>>, disk' = disk, NEW m \in Nat, m < Len(Pending),
         Pending' \in Seq(Store), Len(Pending') = m,
         \A i \in 1..m : Pending'[i] = Pending[i]
  PROVE  A!FailTo(m)
  <1>1. PICK n \in Nat : Pending \in Seq(Store) /\ Len(Pending) = n + 1
    BY SomethingPending
  <1>2. m \in 0..(Len(Pending) - 1) /\ m \in 0..Len(Pending)
    BY <1>1
  <1> DEFINE t == SubSeq(Pending, 1, m)
  <1>3. t \in Seq(Store) /\ Len(t) = m /\ \A i \in 1..m : t[i] = Pending[i]
    BY <1>1, <1>2, Prefix
  <1>4. Pending' = t
    BY <1>3, SameSeq
  <1> QED
    BY <1>2, <1>4 DEF A!FailTo

\* All blocks end at once, and the disk stays.
LEMMA AllGone ==
  ASSUME Inv, Inv', blocks[Self] # <<>>, blocks'[Self] = <<>>, disk' = disk
  PROVE  A!FailTo(0)
  <1>1. Pending' = <<>> /\ <<>> \in Seq(Store) /\ Len(<<>>) = 0
    BY NothingPending, EmptySeq
  <1>2. PICK n \in Nat : Len(Pending) = n + 1
    BY SomethingPending
  <1>3. 0 \in Nat /\ 0 < Len(Pending) /\ \A i \in 1..0 : Pending'[i] = Pending[i]
    BY <1>2
  <1> QED
    BY <1>1, <1>3, PrefixPending

\* One more than zero.
LEMMA OneMore ==
  ASSUME NEW x, NEW n \in Nat, x = n + 1, x = 1
  PROVE  n = 0
  OBVIOUS

\* An exception undoes the block it leaves, and nothing else.
LEMMA RollbackRefines ==
  ASSUME Inv, RollbackRoot(Self) \/ RollbackNested(Self)
  PROVE  A!FailTo(Len(Pending) - 1)
  <1>1. CASE RollbackRoot(Self)
    <2>1. Leave(Self) /\ blocks[Self] # <<>> /\ disk' = disk /\ Innermost(Self) = 0
      BY <1>1 DEF RollbackRoot, Leave
    <2>2. Inv' /\ Len(blocks[Self]) = 1 /\ blocks'[Self] = <<>>
      BY <1>1, <2>1, SelfAssumption, RollbackRootKeeps, RootIsFirst, LeaveFacts
    <2>3. Len(Pending) - 1 = 0
      <3>1. PICK n \in Nat : Len(blocks[Self]) = n + 1 /\ Len(Pending) = n + 1
        BY <2>1, SomethingPending
      <3>2. Len(blocks[Self]) = 1
        BY <2>2
      <3>3. n = 0
        BY <3>1, <3>2, OneMore
      <3> QED
        BY <3>1, <3>3
    <2> QED
      BY <2>1, <2>2, <2>3, AllGone
  <1>2. CASE RollbackNested(Self)
    <2>1. /\ Inv' /\ Leave(Self) /\ Innermost(Self) # 0 /\ Release(Self, Innermost(Self))
          /\ disk' = disk /\ lock' = lock
      BY <1>2, SelfAssumption, RollbackNestedKeeps, RollbackNestedFacts
    <2>2. PICK n \in Nat : /\ Len(blocks[Self]) = n + 2 /\ Len(saves[Self]) = n + 1
                           /\ work'[Self] = saves[Self][n + 1].rows
      BY <1>2, SelfAssumption, RollbackNestedFacts
    <2>3. blocks[Self] # <<>> /\ Len(blocks'[Self]) = n + 1
      <3>1. n + 2 - 1 = n + 1
        OBVIOUS
      <3> QED
        BY <2>1, <2>2, <3>1, SelfAssumption, LeaveFacts
    <2>4. \A i \in 1..n : saves'[Self][i] = saves[Self][i]
      <3>1. n + 1 - 1 = n
        OBVIOUS
      <3> QED
        BY <2>1, <2>2, <2>3, <3>1, SelfAssumption, ReleaseFacts
    <2>5. PICK k \in Nat :
            /\ Len(blocks[Self]) = k + 1 /\ Len(Pending) = k + 1
            /\ lock[Self] = "none" => \A i \in 1..(k + 1) : Pending[i] = disk
            /\ lock[Self] # "none" => \A i \in 1..k : Pending[i] = saves[Self][i].rows
      BY <2>3, SomethingPending
    <2>6. k = n + 1
      BY <2>2, <2>5
    <2>7. /\ Pending' \in Seq(Store) /\ Len(Pending') = n + 1
          /\ lock[Self] = "none" => \A i \in 1..(n + 1) : Pending'[i] = disk
          /\ lock[Self] # "none" => \A i \in 1..n : Pending'[i] = saves'[Self][i].rows
          /\ lock[Self] # "none" => Pending'[n + 1] = work'[Self]
      BY <2>1, <2>3, SomethingPendingAfter
    <2>8. \A i \in 1..(n + 1) : Pending'[i] = Pending[i]
      BY <2>2, <2>4, <2>5, <2>6, <2>7
    <2>9. n + 1 \in Nat /\ n + 1 < Len(Pending) /\ Len(Pending) - 1 = n + 1
      BY <2>5, <2>6
    <2> QED
      BY <2>1, <2>3, <2>7, <2>8, <2>9, PrefixPending
  <1> QED
    BY <1>1, <1>2

\* COMMIT hands the root block's changes to the disk.
LEMMA CommitRefines ==
  ASSUME Inv, Commit(Self)
  PROVE  A!Finish
  <1>1. Leave(Self) /\ blocks[Self] # <<>> /\ Innermost(Self) = 0
    BY DEF Commit, Leave
  <1>2. Inv' /\ Len(blocks[Self]) = 1 /\ blocks'[Self] = <<>>
    BY <1>1, SelfAssumption, CommitKeeps, RootIsFirst, LeaveFacts
  <1>3. PICK n \in Nat :
          /\ Len(blocks[Self]) = n + 1
          /\ Pending \in Seq(Store) /\ Len(Pending) = n + 1 /\ Pending # <<>>
          /\ lock[Self] = "none" => \A i \in 1..(n + 1) : Pending[i] = disk
          /\ lock[Self] # "none" => Pending[n + 1] = work[Self]
    BY <1>1, SomethingPending
  <1>4. n = 0
    <2>1. Len(blocks[Self]) = n + 1 /\ Len(blocks[Self]) = 1
      BY <1>2, <1>3
    <2> QED
      BY <2>1, OneMore
  <1>5. Len(Pending) = 1
    BY <1>3, <1>4
  <1>6. lock[Self] = "none" => Pending[1] = disk
    BY <1>3, <1>4
  <1>7. lock[Self] # "none" => Pending[1] = work[Self]
    BY <1>3, <1>4
  <1>8. lock[Self] = "shared" => work[Self] = disk
    BY SelfAssumption DEF Inv, Reading
  <1>9. disk' = Pending[1]
    <2>1. disk' = IF lock[Self] = "reserved" THEN work[Self] ELSE disk
      BY DEF Commit
    <2>2. lock[Self] \in {"none", "shared", "reserved"}
      BY SelfAssumption, RowTypes
    <2> QED
      BY <1>6, <1>7, <1>8, <2>1, <2>2
  <1>10. SubSeq(Pending, 1, Len(Pending) - 1) = <<>>
    BY <1>5, SubSeqEmpty
  <1>11. Pending' = <<>>
    BY <1>2, NothingPending
  <1> QED
    BY <1>3, <1>5, <1>9, <1>10, <1>11 DEF A!Finish, A!Top

\* RELEASE hands a nested block's changes to the block around it.
LEMMA ReleaseRefines ==
  ASSUME Inv, ReleaseNested(Self)
  PROVE  A!Finish
  <1>1. /\ Leave(Self) /\ Innermost(Self) # 0 /\ Release(Self, Innermost(Self))
        /\ disk' = disk /\ lock' = lock /\ work' = work
    BY DEF ReleaseNested
  <1>2. Inv' /\ blocks[Self] # <<>>
    BY <1>1, SelfAssumption, ReleaseNestedKeeps, LeaveFacts
  <1>3. PICK n \in Nat : Len(blocks[Self]) = n + 2 /\ Len(saves[Self]) = n + 1
    BY <1>1, <1>2, SelfAssumption, RootIsFirst
  <1>4. Len(blocks'[Self]) = n + 1
    <2>1. n + 2 - 1 = n + 1
      OBVIOUS
    <2> QED
      BY <1>1, <1>3, <2>1, SelfAssumption, LeaveFacts
  <1>5. \A i \in 1..n : saves'[Self][i] = saves[Self][i]
    <2>1. n + 1 - 1 = n
      OBVIOUS
    <2> QED
      BY <1>1, <1>2, <1>3, <2>1, SelfAssumption, ReleaseFacts
  <1>6. PICK k \in Nat :
          /\ Len(blocks[Self]) = k + 1
          /\ Pending \in Seq(Store) /\ Len(Pending) = k + 1 /\ Pending # <<>>
          /\ lock[Self] = "none" => \A i \in 1..(k + 1) : Pending[i] = disk
          /\ lock[Self] # "none" => \A i \in 1..k : Pending[i] = saves[Self][i].rows
          /\ lock[Self] # "none" => Pending[k + 1] = work[Self]
    BY <1>2, SomethingPending
  <1>7. k = n + 1
    BY <1>3, <1>6
  <1>8. /\ Pending' \in Seq(Store) /\ Len(Pending') = n + 1
        /\ lock[Self] = "none" => \A i \in 1..(n + 1) : Pending'[i] = disk
        /\ lock[Self] # "none" => \A i \in 1..n : Pending'[i] = saves'[Self][i].rows
        /\ lock[Self] # "none" => Pending'[n + 1] = work[Self]
    BY <1>1, <1>2, <1>4, SomethingPendingAfter
  <1> DEFINE rest == SubSeq(Pending, 1, Len(Pending) - 1)
             top  == Pending[Len(Pending)]
             t    == [rest EXCEPT ![Len(rest)] = top]
  <1>9. /\ Len(Pending) = n + 2 /\ Len(Pending) - 1 = n + 1 /\ n + 1 \in 0..Len(Pending)
        /\ n + 2 \in 1..Len(Pending)
    BY <1>6, <1>7
  <1>10. /\ rest \in Seq(Store) /\ Len(rest) = n + 1
         /\ \A i \in 1..(n + 1) : rest[i] = Pending[i]
    BY <1>6, <1>9, Prefix
  <1>11. top = Pending[n + 2] /\ top \in Store
    BY <1>6, <1>9, ElementOfSeq
  <1>12. /\ t \in Seq(Store) /\ Len(t) = n + 1
         /\ \A i \in 1..(n + 1) : t[i] = IF i = n + 1 THEN top ELSE rest[i]
    <2>1. n + 1 \in 1..Len(rest)
      BY <1>10
    <2> HIDE DEF rest, top
    <2> QED
      BY <1>10, <1>11, <2>1, ExceptSeq
  <1>13. rest # <<>>
    BY <1>10, EmptySeq
  <1> HIDE DEF rest, top, t
  <1>14. \A i \in 1..(n + 1) : Pending'[i] = t[i]
    BY <1>5, <1>6, <1>7, <1>8, <1>10, <1>11, <1>12
  <1>15. Pending' = t
    BY <1>8, <1>12, <1>14, SameSeq
  <1>16. A!Top = top
    BY <1>6 DEF A!Top, top
  <1> QED
    BY <1>1, <1>6, <1>13, <1>15, <1>16 DEF A!Finish, rest, t

\* A COMMIT that gives up, an interrupt and a kill end all blocks.
LEMMA CutShortRefines ==
  ASSUME Inv, CommitFails(Self) \/ Interrupt(Self) \/ Kill(Self)
  PROVE  A!FailTo(0)
  <1>1. Inv' /\ disk' = disk
    BY SelfAssumption, CommitFailsKeeps, InterruptKeeps, ResetKeeps
    DEF CommitFails, Interrupt, Kill, Reset
  <1>2. blocks[Self] # <<>>
    BY DEF CommitFails, Leave, Interrupt, Kill
  <1>3. CASE CommitFails(Self)
    <2>1. Leave(Self) /\ Innermost(Self) = 0
      BY <1>3 DEF CommitFails
    <2>2. Len(blocks[Self]) = 1
      BY <1>2, <2>1, SelfAssumption, RootIsFirst
    <2>3. blocks'[Self] = <<>>
      BY <2>1, <2>2, SelfAssumption, LeaveFacts
    <2> QED
      BY <1>1, <1>2, <2>3, AllGone
  <1>4. CASE Interrupt(Self) \/ Kill(Self)
    <2>1. blocks' = [blocks EXCEPT ![Self] = <<>>]
      BY <1>4 DEF Interrupt, Kill, Reset
    <2>2. blocks'[Self] = <<>>
      BY <2>1, SelfAssumption DEF Inv, TypeOK
    <2> QED
      BY <1>1, <1>2, <2>2, AllGone
  <1> QED
    BY <1>3, <1>4

\* Closing an idle connection shows nothing.
LEMMA CloseRefines ==
  ASSUME Inv, Close(Self)
  PROVE  UNCHANGED A!vars
  <1>1. Inv' /\ disk' = disk /\ blocks[Self] = <<>>
    BY SelfAssumption, ResetKeeps DEF Close, Reset
  <1>2. blocks' = [blocks EXCEPT ![Self] = <<>>]
    BY DEF Close, Reset
  <1>3. blocks'[Self] = <<>>
    BY <1>2, SelfAssumption DEF Inv, TypeOK
  <1> QED
    BY <1>1, <1>3, NothingPending DEF A!vars

\* The failures FailTo(n) of open blocks are failures.
LEMMA FailuresAreSteps ==
  /\ A!FailTo(0) => A!Next
  /\ A!FailTo(Len(Pending) - 1) => A!Next
  BY DEF A!FailTo, A!Fail, A!Next

\* Each step of Self is a step of the store, or shows nothing.
LEMMA SelfRefines ==
  ASSUME Inv, Step(Self)
  PROVE  A!Next \/ UNCHANGED A!vars
  <1>1. CASE Read(Self) \/ Close(Self)
    BY <1>1, ReadRefines, CloseRefines
  <1>2. CASE Write(Self)
    BY <1>2, WriteRefines DEF A!Next
  <1>3. CASE Begin(Self)
    BY <1>3, BeginRefines DEF A!Next
  <1>4. CASE Commit(Self) \/ ReleaseNested(Self)
    BY <1>4, CommitRefines, ReleaseRefines DEF A!Next
  <1>5. CASE RollbackRoot(Self) \/ RollbackNested(Self)
    BY <1>5, RollbackRefines, FailuresAreSteps
  <1>6. CASE CommitFails(Self) \/ Interrupt(Self) \/ Kill(Self)
    BY <1>6, CutShortRefines, FailuresAreSteps
  <1> QED
    BY <1>1, <1>2, <1>3, <1>4, <1>5, <1>6 DEF Step

\* Initially the store is empty and no block is open.
LEMMA InitRefines == Init => A!Init
  <1> SUFFICES ASSUME Init PROVE A!Init
    OBVIOUS
  <1>1. Inv /\ blocks[Self] = <<>> /\ disk \in Store
    BY InvInit, SelfAssumption DEF Init, Store
  <1> QED
    BY <1>1, NothingPending DEF A!Init

\* Each step of the system is a step of the store that Self sees, or shows
\* nothing.
LEMMA NextRefines == Inv /\ [Next]_vars => [A!Next]_(A!vars)
  <1> SUFFICES ASSUME Inv, [Next]_vars
               PROVE  A!Next \/ UNCHANGED A!vars
    OBVIOUS
  <1>1. CASE UNCHANGED vars
    BY <1>1, PendingIsView DEF vars, connection, A!vars
  <1>2. ASSUME NEW p \in Process, Step(p)
        PROVE  A!Next \/ UNCHANGED A!vars
    BY <1>2, SelfRefines, OthersRefine DEF A!Next
  <1> QED
    BY <1>1, <1>2 DEF Next

\* Every process sees an atomic store, whatever it and the others do: the
\* refinement holds for any number of processes and any depth of nesting.
THEOREM TransactionsImplement == Spec => ImplementsAtomicStore
  <1> QED
    BY InvInit, InvStep, InitRefines, NextRefines, PTL
    DEF Spec, ImplementsAtomicStore, A!Spec

\* A block that raises leaves no trace, a block that ends well loses nothing,
\* and a block that is cut short never reaches the disk.
THEOREM TransactionOutcomes == Spec => OutcomesAreHonest
  <1> DEFINE Honest ==
        /\ RollbackRoot(Self) \/ RollbackNested(Self) => A!FailTo(Len(Pending) - 1)
        /\ Commit(Self) \/ ReleaseNested(Self) => A!Finish
        /\ CommitFails(Self) \/ Interrupt(Self) \/ Close(Self) \/ Kill(Self)
             => UNCHANGED disk
  <1>1. ASSUME Inv PROVE Honest
    BY <1>1, RollbackRefines, CommitRefines, ReleaseRefines
    DEF CommitFails, Interrupt, Close, Kill, Reset
  <1>2. Inv /\ [Next]_vars => [Honest]_vars
    BY <1>1
  <1> QED
    BY <1>2, InvInit, InvStep, PTL DEF Spec, OutcomesAreHonest

-----------------------------------------------------------------------------
(***************************************************************************)
(* A process that works alone                                              *)
(***************************************************************************)
Idle(p) ==
  blocks[p] = <<>> /\ p \notin stopping => depth[p] = 0 /\ p \notin inTx

\* Without a second process no COMMIT gives up, and every call leaves the
\* connection as it found it.
LEMMA IdleStep ==
  ASSUME Inv, NEW p \in Process, Others(p) = {}, Idle(p), Step(p)
  PROVE  Idle(p)'
  <1>1. CASE Read(p) \/ Write(p)
    BY <1>1 DEF Read, Write, Idle
  <1>2. CASE BeginRoot(p) \/ BeginNested(p)
    <2>1. blocks'[p] = Append(blocks[p], depth[p]) /\ depth[p] \in Nat
      BY <1>2, RowTypes DEF BeginRoot, BeginNested, Enter, Inv, TypeOK
    <2>2. blocks'[p] # <<>>
      BY <2>1, RowTypes, AppendProperties
    <2> QED
      BY <2>2 DEF Idle
  <1>3. CASE /\ Begin(p)
             /\ BeginRefused(p) \/ NestedRefused(p)
    <2>1. p \notin stopping /\ (depth[p] < 0 \/ (depth[p] = 0 /\ p \in inTx))
      BY <1>3 DEF Begin, BeginRefused, NestedRefused
    <2>2. blocks[p] = <<>>
      BY <2>1, BlockFacts
    <2> QED
      BY <2>1, <2>2, RowTypes DEF Idle
  <1>4. CASE Commit(p) \/ RollbackRoot(p)
    <2>1. Leave(p) /\ Innermost(p) = 0 /\ inTx' = inTx \ {p}
      BY <1>4 DEF Commit, RollbackRoot, Rollback
    <2>2. blocks[p] # <<>> /\ depth'[p] = Len(blocks[p]) - 1
      BY <2>1, LeaveFacts
    <2>3. depth'[p] = 0
      BY <2>1, <2>2, RootIsFirst
    <2> QED
      BY <2>1, <2>3 DEF Idle
  <1>5. CASE CommitFails(p)
    BY <1>5 DEF CommitFails
  <1>6. CASE ReleaseNested(p) \/ RollbackNested(p)
    <2>1. Leave(p) /\ Innermost(p) # 0
      BY <1>6 DEF ReleaseNested, RollbackNested
    <2>2. blocks[p] # <<>> /\ Len(blocks'[p]) = Len(blocks[p]) - 1
      BY <2>1, LeaveFacts
    <2>3. PICK n \in Nat : Len(blocks[p]) = n + 2
      BY <2>1, <2>2, RootIsFirst
    <2>4. blocks'[p] # <<>>
      BY <2>2, <2>3, EmptySeq
    <2> QED
      BY <2>4 DEF Idle
  <1>7. CASE Interrupt(p)
    BY <1>7 DEF Interrupt, Idle
  <1>8. CASE Close(p) \/ Kill(p)
    <2>1. depth' = [depth EXCEPT ![p] = 0] /\ inTx' = inTx \ {p}
      BY <1>8 DEF Close, Kill, Reset, Rollback
    <2> QED
      BY <2>1 DEF Idle, Inv, TypeOK
  <1> QED
    BY <1>1, <1>2, <1>3, <1>4, <1>5, <1>6, <1>7, <1>8 DEF Step, Begin

\* A process that is the only user of the database finds, at each call, an idle
\* connection, whatever raised, was interrupted or was killed before.
THEOREM TransactionsIdle ==
  ASSUME Process = {Self}
  PROVE  Spec => []IdleBetweenCalls
  <1> DEFINE IdleInv == Inv /\ Idle(Self)
  <1>1. Init => IdleInv
    <2>1. Init => Idle(Self)
      BY SelfAssumption DEF Init, Idle
    <2> QED
      BY <2>1, InvInit
  <1>2. IdleInv /\ [Next]_vars => IdleInv'
    <2> SUFFICES ASSUME IdleInv, [Next]_vars
                 PROVE  Idle(Self)'
      BY InvStep
    <2>1. CASE UNCHANGED vars
      BY <2>1 DEF vars, connection, Idle
    <2>2. CASE Next
      <3>1. Step(Self) /\ Others(Self) = {}
        BY <2>2 DEF Next, Others
      <3> QED
        BY <3>1, SelfAssumption, IdleStep
    <2> QED
      BY <2>1, <2>2
  <1>3. IdleInv => IdleBetweenCalls
    BY DEF Idle, IdleBetweenCalls
  <1> QED
    BY <1>1, <1>2, <1>3, PTL DEF Spec


-----------------------------------------------------------------------------
\* A call that returns to its caller (Interrupt and what closes the database
\* after it do not) leaves the connection idle, unless its COMMIT was refused.
LEMMA ReturnsIdle ==
  ASSUME Inv, NEW p \in Process, Step(p), blocks[p] # <<>>, blocks'[p] = <<>>,
         p \notin stopping', ~CommitFails(p)
  PROVE  depth'[p] = 0 /\ p \notin inTx'
  <1>1. /\ Len(blocks[p]) \in Nat /\ Len(blocks'[p]) = 0
        /\ blocks \in [Process -> Seq(Nat)] /\ depth \in [Process -> -MaxRefused .. MaxBlocks]
    BY RowTypes DEF Inv, TypeOK
  <1>2. ~(Read(p) \/ Write(p))
    BY DEF Read, Write
  <1>3. ~Begin(p)
    <2>1. ASSUME Enter(p) PROVE FALSE
      <3>1. blocks'[p] = Append(blocks[p], depth[p])
        BY <1>1, <2>1 DEF Enter
      <3>2. blocks[p] \in Seq(Int) /\ depth[p] \in Int
        BY <1>1, RowTypes
      <3>3. Len(blocks'[p]) = Len(blocks[p]) + 1
        BY <3>1, <3>2
      <3> QED
        BY <1>1, <3>3
    <2> QED
      BY <2>1 DEF Begin, BeginRoot, BeginRefused, BeginNested, NestedRefused
  <1>4. CASE Commit(p) \/ RollbackRoot(p)
    <2>1. Leave(p) /\ Innermost(p) = 0 /\ p \notin inTx'
      BY <1>4 DEF Commit, RollbackRoot, Rollback
    <2> QED
      BY <2>1, RootIsFirst, LeaveFacts
  <1>5. ~(ReleaseNested(p) \/ RollbackNested(p))
    <2> SUFFICES ASSUME ReleaseNested(p) \/ RollbackNested(p) PROVE FALSE
      OBVIOUS
    <2>1. Leave(p) /\ Innermost(p) # 0
      BY DEF ReleaseNested, RollbackNested
    <2>2. Len(blocks'[p]) > 0
      BY <2>1, RootIsFirst, LeaveFacts
    <2> QED
      BY <1>1, <2>2
  <1>6. ~(Interrupt(p) \/ Close(p))
    BY DEF Interrupt, Close
  <1>7. CASE Kill(p)
    BY <1>1, <1>7 DEF Kill, Reset, Rollback
  <1> QED
    BY <1>2, <1>3, <1>4, <1>5, <1>6, <1>7 DEF Step

\* For any number of processes and any depth of nesting, only a refused COMMIT
\* lets a call leave its connection inside a transaction.
THEOREM TransactionsLeakOnlyRefused == Spec => OnlyRefusedCommitsLeak
  <1>1. Inv /\ [Next]_vars =>
          [\A p \in Process :
             LET returns == blocks[p] # <<>> /\ blocks'[p] = <<>> /\ p \notin stopping'
                 idle == depth'[p] = 0 /\ p \notin inTx'
             IN  returns /\ depth[p] = Len(blocks[p]) /\ ~idle => CommitFails(p)]_vars
    <2> SUFFICES ASSUME Inv, Next, NEW p \in Process, blocks[p] # <<>>,
                        blocks'[p] = <<>>, p \notin stopping',
                        ~(depth'[p] = 0 /\ p \notin inTx')
                 PROVE  CommitFails(p)
      OBVIOUS
    <2>1. PICK q \in Process : Step(q)
      BY DEF Next
    <2>2. p = q
      BY <2>1, StepKeeps DEF Alone, Others
    <2> QED
      BY <2>1, <2>2, ReturnsIdle
  <1> QED
    BY <1>1, InvInit, InvStep, PTL DEF Spec, OnlyRefusedCommitsLeak
=============================================================================
