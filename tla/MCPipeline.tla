------------------------------ MODULE MCPipeline ------------------------------
(* Model-checking instance of Pipeline: two pool slots, two processors.    *)
EXTENDS Pipeline, TLC

CONSTANTS e1, e2, w1, w2

MCSlots == {e1, e2}
MCWorkers == {w1, w2}
=============================================================================
