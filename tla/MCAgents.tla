------------------------------ MODULE MCAgents ------------------------------
(* An instance of Agents for TLC: one workflow every tick, one every other. *)
EXTENDS Agents

CONSTANTS w1, w2

EveryAndOther == [w \in {w1, w2} |-> IF w = w1 THEN 1 ELSE 2]

=============================================================================
