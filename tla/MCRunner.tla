------------------------------ MODULE MCRunner ------------------------------
(***************************************************************************)
(* Four repositories, one of them archived, two slots and a debug limit of *)
(* two: pages of any size and order; the limit and the slots are reached,  *)
(* and every worker can meet every other one at every step.                *)
(***************************************************************************)
EXTENDS Runner, TLC

CONSTANTS r1, r2, r3, r4
=============================================================================
