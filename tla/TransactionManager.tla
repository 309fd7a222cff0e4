------------------------- MODULE TransactionManager -------------------------
(***************************************************************************)
(* SQLiteDatabase.transaction (src/src/core/database.py): every service    *)
(* call is a `with` block that opens a SQLite transaction, or a savepoint  *)
(* when it runs inside another block.  A depth counter tells the two       *)
(* apart and names the savepoints.  Several processes (the live loop and   *)
(* commands typed meanwhile) work on one database file.                    *)
(*                                                                         *)
(* SQLite's part is modelled from its documented behaviour: savepoints     *)
(* form a stack searched by name from the top; a connection takes the      *)
(* SHARED lock when it first reads and the RESERVED lock when it first     *)
(* writes; COMMIT needs every other SHARED lock to be gone, and when it    *)
(* gives up after the busy timeout the transaction stays open.             *)
(***************************************************************************)
EXTENDS Integers, Sequences

CONSTANTS
  Process,
  Self,          \* any one of them, whose view of the store is described
  Item,          \* rows that may be written; the store is the set of rows
  MaxBlocks,     \* bound: nesting of blocks
  MaxRefused     \* bound: how far below zero the depth is followed

ASSUME SelfAssumption == Self \in Process
ASSUME BoundAssumption == MaxBlocks \in Nat /\ MaxRefused \in Nat \ {0}

VARIABLES
  disk,          \* the committed rows
  depth,         \* _transaction_depth
  blocks,        \* the `with` blocks being executed, outermost first: for
                 \* each, the depth when it was entered (zero: a root block)
  inTx,          \* the processes whose connection is in_transaction
  saves,         \* SQLite's savepoints: name and contents at that time
  work,          \* the rows the connection sees
  lock,          \* SQLite's lock on the file
  stopping       \* the interrupted processes, which only close the database now

connection == <<depth, blocks, inTx, saves, work, lock, stopping>>
vars == <<disk, connection>>

Store == SUBSET Item
Savepoint == [level : Nat, rows : Store]

TypeOK ==
  /\ disk \in Store
  /\ depth \in [Process -> -MaxRefused .. MaxBlocks]
  /\ blocks \in [Process -> Seq(Nat)]
  /\ inTx \subseteq Process
  /\ saves \in [Process -> Seq(Savepoint)]
  /\ work \in [Process -> Store]
  /\ lock \in [Process -> {"none", "shared", "reserved"}]
  /\ stopping \subseteq Process

Others(p) == Process \ {p}

-----------------------------------------------------------------------------
(***************************************************************************)
(* SQLite                                                                  *)
(***************************************************************************)
\* connection.rollback(): everything since BEGIN is undone.
Rollback(p) ==
  /\ inTx' = inTx \ {p}
  /\ saves' = [saves EXCEPT ![p] = <<>>]
  /\ work' = [work EXCEPT ![p] = disk]
  /\ lock' = [lock EXCEPT ![p] = "none"]

\* The topmost savepoint called sp_n.
Named(p, n) ==
  CHOOSE i \in DOMAIN saves[p] :
    /\ saves[p][i].level = n
    /\ \A j \in DOMAIN saves[p] : j > i => saves[p][j].level # n

\* RELEASE SAVEPOINT sp_n
Release(p, n) ==
  saves' = [saves EXCEPT ![p] = SubSeq(@, 1, Named(p, n) - 1)]

\* Reading takes the SHARED lock: from here on nobody else can commit, and the
\* connection sees what is on the disk at this moment.
Read(p) ==
  /\ blocks[p] # <<>>
  /\ p \in inTx /\ lock[p] = "none"
  /\ lock' = [lock EXCEPT ![p] = "shared"]
  /\ work' = [work EXCEPT ![p] = disk]
  /\ saves' = [saves EXCEPT ![p] = [i \in DOMAIN @ |-> [@[i] EXCEPT !.rows = disk]]]
  /\ UNCHANGED <<disk, depth, blocks, inTx, stopping>>

\* INSERT, UPDATE or DELETE; refused (the statement raises) while another
\* connection holds the RESERVED lock.
Write(p) ==
  /\ blocks[p] # <<>>
  /\ p \in inTx /\ lock[p] # "none"
  /\ \A q \in Others(p) : lock[q] # "reserved"
  /\ lock' = [lock EXCEPT ![p] = "reserved"]
  /\ \E x \in Item : work' = [work EXCEPT ![p] =
                                IF x \in @ THEN @ \ {x} ELSE @ \cup {x}]
  /\ UNCHANGED <<disk, depth, blocks, inTx, saves, stopping>>

-----------------------------------------------------------------------------
(***************************************************************************)
(* transaction(): entering a block                                         *)
(***************************************************************************)
Enter(p) ==
  /\ blocks' = [blocks EXCEPT ![p] = Append(@, depth[p])]
  /\ depth' = [depth EXCEPT ![p] = @ + 1]
  /\ inTx' = inTx \cup {p}

\* The depth is zero: BEGIN.
BeginRoot(p) ==
  /\ depth[p] = 0 /\ p \notin inTx
  /\ Enter(p)
  /\ UNCHANGED <<disk, saves, work, lock, stopping>>

\* BEGIN inside a transaction that was left open raises, and the handler takes
\* back a level that was never added.
BeginRefused(p) ==
  /\ depth[p] = 0 /\ p \in inTx
  /\ depth' = [depth EXCEPT ![p] = @ - 1]
  /\ Rollback(p)
  /\ UNCHANGED <<disk, blocks, stopping>>

\* The depth is positive: SAVEPOINT sp_depth.
BeginNested(p) ==
  /\ depth[p] > 0
  /\ Enter(p)
  /\ saves' = [saves EXCEPT ![p] =
                 Append(@, [level |-> depth[p], rows |-> work[p]])]
  /\ UNCHANGED <<disk, work, lock, stopping>>

\* The depth is negative: `SAVEPOINT sp_-1` is a syntax error, and so is the
\* ROLLBACK TO of the handler.
NestedRefused(p) ==
  /\ depth[p] < 0
  /\ depth[p] > -MaxRefused
  /\ depth' = [depth EXCEPT ![p] = @ - 1]
  /\ UNCHANGED <<disk, blocks, inTx, saves, work, lock, stopping>>

Begin(p) ==
  /\ p \notin stopping
  /\ Len(blocks[p]) < MaxBlocks
  /\ BeginRoot(p) \/ BeginRefused(p) \/ BeginNested(p) \/ NestedRefused(p)

-----------------------------------------------------------------------------
(***************************************************************************)
(* transaction(): leaving the innermost block                              *)
(***************************************************************************)
Innermost(p) == blocks[p][Len(blocks[p])]

\* Faulty variant of Leave: the depth is not taken back.
LeaveKeepsDepth(p) ==
  /\ blocks[p] # <<>>
  /\ blocks' = [blocks EXCEPT ![p] = SubSeq(@, 1, Len(@) - 1)]
  /\ UNCHANGED <<depth, stopping>>

Leave(p) ==
  /\ blocks[p] # <<>>
  /\ blocks' = [blocks EXCEPT ![p] = SubSeq(@, 1, Len(@) - 1)]
  /\ depth' = [depth EXCEPT ![p] = @ - 1]
  /\ UNCHANGED stopping

\* COMMIT, once no other connection is reading.
Commit(p) ==
  /\ Leave(p)
  /\ Innermost(p) = 0
  /\ lock[p] = "reserved" => \A q \in Others(p) : lock[q] = "none"
  /\ disk' = IF lock[p] = "reserved" THEN work[p] ELSE disk
  /\ inTx' = inTx \ {p}
  /\ saves' = [saves EXCEPT ![p] = <<>>]
  /\ lock' = [lock EXCEPT ![p] = "none"]
  /\ UNCHANGED work

\* COMMIT gives up after the busy timeout; the exception leaves transaction()
\* from its `else` branch, which no handler guards.
CommitFails(p) ==
  /\ Leave(p)
  /\ Innermost(p) = 0
  /\ lock[p] = "reserved"
  /\ \E q \in Others(p) : lock[q] = "shared"
  /\ UNCHANGED <<disk, inTx, saves, work, lock>>

ReleaseNested(p) ==
  /\ Leave(p)
  /\ Innermost(p) # 0
  /\ Release(p, Innermost(p))
  /\ UNCHANGED <<disk, inTx, work, lock>>

\* An exception leaves the body of a root block ...
RollbackRoot(p) ==
  /\ Leave(p)
  /\ Innermost(p) = 0
  /\ Rollback(p)
  /\ UNCHANGED disk

\* Faulty variant of RollbackNested: RELEASE without ROLLBACK TO.
ReleaseOnFailure(p) ==
  /\ Leave(p)
  /\ Innermost(p) # 0
  /\ Release(p, Innermost(p))
  /\ UNCHANGED <<disk, inTx, work, lock>>

\* Faulty variant of RollbackNested: the savepoint of the outermost nested block
\* is rolled back to, as if the names did not tell the blocks apart.
RollbackToOutermost(p) ==
  /\ Leave(p)
  /\ Innermost(p) # 0
  /\ work' = [work EXCEPT ![p] = saves[p][1].rows]
  /\ Release(p, Innermost(p))
  /\ UNCHANGED <<disk, inTx, lock>>

\* ... or of a nested one: ROLLBACK TO and RELEASE SAVEPOINT.  The body around
\* it may catch the exception and go on, or raise in turn.
RollbackNested(p) ==
  /\ Leave(p)
  /\ Innermost(p) # 0
  /\ work' = [work EXCEPT ![p] = saves[p][Named(p, Innermost(p))].rows]
  /\ Release(p, Innermost(p))
  /\ UNCHANGED <<disk, inTx, lock>>

\* KeyboardInterrupt is no Exception: it passes every handler, and what is left
\* of the program closes the database.
Interrupt(p) ==
  /\ blocks[p] # <<>>
  /\ blocks' = [blocks EXCEPT ![p] = <<>>]
  /\ stopping' = stopping \cup {p}
  /\ UNCHANGED <<disk, depth, inTx, saves, work, lock>>

\* A closed or killed connection is like a new one: close() rolls back, and so
\* does SQLite with the journal a dead process left behind.
Reset(p) ==
  /\ Rollback(p)
  /\ depth' = [depth EXCEPT ![p] = 0]
  /\ blocks' = [blocks EXCEPT ![p] = <<>>]
  /\ stopping' = stopping \ {p}
  /\ UNCHANGED disk

Close(p) == blocks[p] = <<>> /\ Reset(p)

Kill(p) == blocks[p] # <<>> /\ Reset(p)

-----------------------------------------------------------------------------
Init ==
  /\ disk = {}
  /\ depth = [p \in Process |-> 0]
  /\ blocks = [p \in Process |-> <<>>]
  /\ inTx = {}
  /\ saves = [p \in Process |-> <<>>]
  /\ work = [p \in Process |-> {}]
  /\ lock = [p \in Process |-> "none"]
  /\ stopping = {}

Step(p) ==
  \/ Read(p) \/ Write(p)
  \/ Begin(p)
  \/ Commit(p) \/ CommitFails(p) \/ ReleaseNested(p)
  \/ RollbackRoot(p) \/ RollbackNested(p)
  \/ Interrupt(p) \/ Close(p) \/ Kill(p)

Next == \E p \in Process : Step(p)

Spec == Init /\ [][Next]_vars

-----------------------------------------------------------------------------
(***************************************************************************)
(* What transaction() promises                                             *)
(***************************************************************************)
\* Between calls a connection is idle: no transaction is open and the depth is
\* back at zero, so that the next call starts a transaction of its own and ends
\* by committing or rolling it back.
IdleBetweenCalls ==
  \A p \in Process :
    blocks[p] = <<>> /\ p \notin stopping => depth[p] = 0 /\ p \notin inTx

\* When several processes share the file, nothing but a COMMIT that timed out
\* lets a call that found its connection idle leave it otherwise: no exception,
\* at any depth and caught anywhere, does (the else branch of transaction() is
\* the one place without a handler).
OnlyRefusedCommitsLeak ==
  [][\A p \in Process :
       LET returns == blocks[p] # <<>> /\ blocks'[p] = <<>> /\ p \notin stopping'
           idle == depth'[p] = 0 /\ p \notin inTx'
       IN  returns /\ depth[p] = Len(blocks[p]) /\ ~idle => CommitFails(p)]_vars

\* Each savepoint carries the name of exactly one open block, in order: no
\* block can release, or roll back to, the savepoint of another.
SavepointsMatchBlocks ==
  \A p \in Process :
    blocks[p] # <<>> =>
      /\ Len(saves[p]) = Len(blocks[p]) - 1
      /\ \A i \in DOMAIN saves[p] : saves[p][i].level = blocks[p][i + 1]
      /\ \A i, j \in DOMAIN saves[p] :
           saves[p][i].level = saves[p][j].level => i = j

\* The contents each open block of the process sees.
Pending ==
  [i \in DOMAIN blocks[Self] |->
     IF lock[Self] = "none" THEN disk
     ELSE IF i < Len(blocks[Self]) THEN saves[Self][i].rows ELSE work[Self]]

A == INSTANCE AtomicStore WITH pending <- Pending

\* Every process sees an atomic store, whatever fails around it: nested blocks
\* that raise, a COMMIT that times out, an interrupt, a process that is killed,
\* another process committing in between.
ImplementsAtomicStore == A!Spec

\* A block that an exception leaves has no effect, a block that ends well has all
\* of its effect, on the block around it or on the disk, and a block that is cut
\* short never reaches the disk.
OutcomesAreHonest ==
  [][/\ RollbackRoot(Self) \/ RollbackNested(Self) => A!FailTo(Len(Pending) - 1)
     /\ Commit(Self) \/ ReleaseNested(Self) => A!Finish
     /\ CommitFails(Self) \/ Interrupt(Self) \/ Close(Self) \/ Kill(Self)
          => UNCHANGED disk]_vars

=============================================================================
