----------------------------- MODULE MCSessionGate -----------------------------
(* A small instance of SessionGate for TLC. *)
EXTENDS SessionGate
CONSTANTS c1, c2, c3, t1
=============================================================================
