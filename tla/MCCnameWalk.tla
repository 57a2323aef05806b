----------------------------- MODULE MCCnameWalk -----------------------------
(* A small instance of CnameWalk for TLC: every set of at most three       *)
(* records over four names.                                                *)
EXTENDS CnameWalk

CONSTANTS q, a, b, c

MCAnswers == {S \in SUBSET (Names \X Names) : Cardinality(S) <= 3}
==============================================================================
