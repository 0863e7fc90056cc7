---------------------------- MODULE MCOrderWebhook ----------------------------
(* Small instances of OrderWebhook for TLC. *)
EXTENDS OrderWebhook
CONSTANTS e1, e2, h1, h2
=============================================================================
