----------------------------- MODULE MCRemediation -----------------------------
(* A small instance of Remediation for TLC. *)
EXTENDS Remediation
CONSTANTS n1, n2, d1, d2
=============================================================================
