------------------------------ MODULE Accounts ------------------------------
(***************************************************************************)
(* The accounts table and the mutation helpers of AccountService           *)
(* (src/src/core/account_service.py), as operators on a table `acc`: a     *)
(* function from the currencies that have a row to the row.  Every helper  *)
(* is a guard (the checks that raise AccountServiceError) and an update    *)
(* (the row written).  A failed guard raises inside the enclosing          *)
(* transaction and rolls it back, so a caller that does not satisfy the    *)
(* guard simply takes no step.                                             *)
(*                                                                         *)
(* Money is counted in whole units: the code's floats are abstracted to    *)
(* exact numbers.                                                          *)
(***************************************************************************)
EXTENDS Integers

CONSTANT Currency        \* the currencies that may have an account row

\* The columns that carry money.
Account == [balance : Nat, available : Nat, frozen : Nat]

IsAccounts(acc) ==
  /\ DOMAIN acc \subseteq Currency
  /\ acc \in [DOMAIN acc -> Account]

\* A table in which every row splits its balance into available and frozen.
Balanced(acc) ==
  \A c \in DOMAIN acc : acc[c].balance = acc[c].available + acc[c].frozen

\* _update_account writes the three columns of one row.
UpdateAccount(acc, c, b, a, f) ==
  [acc EXCEPT ![c] = [balance |-> b, available |-> a, frozen |-> f]]

-----------------------------------------------------------------------------
(***************************************************************************)
(* Faulty variants of two helpers below, which no specification uses:      *)
(* OpenAccount resets an account that exists, and CanFreeze looks at the   *)
(* balance instead of the free money.                                      *)
(***************************************************************************)
OpenAccountAnew(acc, c, n) ==
  [d \in DOMAIN acc \cup {c} |->
     IF d # c THEN acc[d]
     ELSE [balance |-> n, available |-> n, frozen |-> 0]]

CanFreezeBalance(acc, c, n) ==
  /\ n > 0
  /\ c \in DOMAIN acc
  /\ acc[c].balance >= n

-----------------------------------------------------------------------------
(***************************************************************************)
(* The helpers                                                             *)
(***************************************************************************)
\* initialize_accounts: rows that exist are left untouched.
OpenAccount(acc, c, n) ==
  [d \in DOMAIN acc \cup {c} |->
     IF d \in DOMAIN acc THEN acc[d]
     ELSE [balance |-> n, available |-> n, frozen |-> 0]]

\* Every helper below first reads the row and raises when there is none.
CanFreeze(acc, c, n) ==
  /\ n > 0
  /\ c \in DOMAIN acc
  /\ acc[c].available >= n

Freeze(acc, c, n) ==
  UpdateAccount(acc, c, acc[c].balance, acc[c].available - n, acc[c].frozen + n)

CanRelease(acc, c, n) ==
  /\ n > 0
  /\ c \in DOMAIN acc
  /\ acc[c].frozen >= n

Release(acc, c, n) ==
  UpdateAccount(acc, c, acc[c].balance, acc[c].available + n, acc[c].frozen - n)

\* OrderService._consume_frozen_funds has the guard of release_funds.
CanConsumeFrozen(acc, c, n) == CanRelease(acc, c, n)

ConsumeFrozen(acc, c, n) ==
  UpdateAccount(acc, c, acc[c].balance - n, acc[c].available, acc[c].frozen - n)

CanConsumeAvailable(acc, c, n) == CanFreeze(acc, c, n)

ConsumeAvailable(acc, c, n) ==
  UpdateAccount(acc, c, acc[c].balance - n, acc[c].available - n, acc[c].frozen)

\* add_to_available and deposit write the same row and have the same guard.
CanCredit(acc, c, n) ==
  /\ n >= 0
  /\ c \in DOMAIN acc

Credit(acc, c, n) ==
  UpdateAccount(acc, c, acc[c].balance + n, acc[c].available + n, acc[c].frozen)

=============================================================================
