------------------------------ MODULE MCTxFetch ------------------------------
(* TLC instances of TxFetch.                                               *)
EXTENDS TxFetch
=============================================================================
