----------------------------- MODULE MCCrmBreaker -----------------------------
(* A small instance of CrmBreaker for TLC. *)
EXTENDS CrmBreaker
CONSTANTS c1, c2, c3
=============================================================================
