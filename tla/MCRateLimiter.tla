--------------------------- MODULE MCRateLimiter ---------------------------
(***************************************************************************)
(* Instances of RateLimiter for TLC.                                       *)
(***************************************************************************)
EXTENDS RateLimiter, TLC

\* A short window with a low limit and one twice as long that allows more.
TwoKinds == 1..2
TwoLimits == <<1, 2>>
TwoDurations == <<1, 2>>

Symmetry == Permutations(Requests) \cup Permutations(Users)
=============================================================================
