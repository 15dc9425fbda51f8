------------------------------ MODULE MCWebTerminal ------------------------------
(* One client of the terminal, which may attach twice, and one of the events. *)
EXTENDS WebTerminal

CONSTANTS w1, l1

===============================================================================
