-------------------------- MODULE MCUsageReporter --------------------------
\* Instances of UsageReporter for TLC.
EXTENDS UsageReporter, TLC

\* Events, and instances, are interchangeable; used by the runs without liveness properties.
Symmetry == Permutations(Events) \cup Permutations(Reporters)
============================================================================
