----------------------------- MODULE MCLobbyScan ------------------------------
(* The instance of LobbyScan that TLC checks: one of two players has two      *)
(* nicknames.                                                                 *)
EXTENDS LobbyScan

CONSTANTS g1, u1, u2, n1, n2

MCAccounts == {[user |-> u1, name |-> n1], [user |-> u1, name |-> n2], [user |-> u2, name |-> n1]}
=============================================================================
