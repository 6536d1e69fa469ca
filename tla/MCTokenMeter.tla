---------------------------- MODULE MCTokenMeter ---------------------------
\* TokenMeter with four usages a backend may report: one with half of the prompt cached
\* and nothing generated, one that is passed over, and two that call more cached than
\* was prompted, with and without something generated.
EXTENDS TokenMeter

MCUsages == {[prompt |-> 2, completion |-> 0, cached |-> 1],
             [prompt |-> 0, completion |-> 0, cached |-> 0],
             [prompt |-> 1, completion |-> 1, cached |-> 2],
             [prompt |-> 1, completion |-> 0, cached |-> 2]}
============================================================================
