------------------------ MODULE MCTransactionManager ------------------------
(***************************************************************************)
(* Small instances of TransactionManager.                                  *)
(***************************************************************************)
EXTENDS TransactionManager

CONSTANT live

=============================================================================
