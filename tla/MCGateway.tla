----------------------------- MODULE MCGateway -----------------------------
\* Gateway on small instances.
EXTENDS Gateway, TLC

Symmetry == Permutations(Requests)
=============================================================================
