------------------------------- MODULE MCStore -------------------------------
(* TLC instances of Store.                                                 *)
EXTENDS Store
=============================================================================
