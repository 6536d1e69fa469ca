--------------------------- MODULE MCKeyValidator ---------------------------
\* Instances of KeyValidator for TLC.
EXTENDS KeyValidator, TLC

\* Concurrent calls are interchangeable.
Symmetry == Permutations(Handlers)
============================================================================
