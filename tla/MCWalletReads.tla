---------------------------- MODULE MCWalletReads ----------------------------
(***************************************************************************)
(* Readers of the balance, the ledger and the reconciliation beside the    *)
(* submissions of MCWagering, for TLC.                                     *)
(***************************************************************************)
EXTENDS MCWagering, WalletReads
=============================================================================
