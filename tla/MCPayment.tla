----------------------------- MODULE MCPayment ------------------------------
(* Small instances of Payment for TLC. *)
EXTENDS Payment, MCExecutor

Numbers == Nat
=============================================================================
