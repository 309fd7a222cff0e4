---------------------------- MODULE AtomicStore ----------------------------
(***************************************************************************)
(* What one process may expect of a store that it changes in nested        *)
(* blocks: a block that fails leaves no trace, a block that ends well      *)
(* hands its changes to the block around it, and only the end of the       *)
(* outermost block reaches the disk.  Other processes change the disk too, *)
(* but never behind a block that has changes of its own: what the process  *)
(* commits is always built on the newest disk.                             *)
(***************************************************************************)
EXTENDS Sequences, Integers

CONSTANT Store           \* the contents the store may have

VARIABLES
  disk,                  \* what is committed
  pending                \* the contents each open block sees, outermost first

vars == <<disk, pending>>

Init ==
  /\ disk \in Store
  /\ pending = <<>>

Top == IF pending = <<>> THEN disk ELSE pending[Len(pending)]

Begin ==
  /\ pending' = Append(pending, Top)
  /\ UNCHANGED disk

Write ==
  /\ pending # <<>>
  /\ \E s \in Store : pending' = [pending EXCEPT ![Len(pending)] = s]
  /\ UNCHANGED disk

\* The end of a block: its changes become those of the block around it.
Finish ==
  /\ pending # <<>>
  /\ LET rest == SubSeq(pending, 1, Len(pending) - 1) IN
     IF rest = <<>>
     THEN disk' = Top /\ pending' = <<>>
     ELSE pending' = [rest EXCEPT ![Len(rest)] = Top] /\ UNCHANGED disk

\* The failure of blocks, so that n are left; those have the contents they had.
FailTo(n) ==
  /\ n \in 0..(Len(pending) - 1)
  /\ pending' = SubSeq(pending, 1, n)
  /\ UNCHANGED disk

\* The failure of a block, or of several at once.
Fail == \E n \in 0..(Len(pending) - 1) : FailTo(n)

\* Another process commits.
Elsewhere ==
  /\ \A i \in DOMAIN pending : pending[i] = disk
  /\ disk' \in Store
  /\ pending' = [i \in DOMAIN pending |-> disk']

Next == Begin \/ Write \/ Finish \/ Fail \/ Elsewhere

Spec == Init /\ [][Next]_vars

=============================================================================
