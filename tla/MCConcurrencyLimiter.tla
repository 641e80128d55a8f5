------------------------- MODULE MCConcurrencyLimiter -------------------------
EXTENDS ConcurrencyLimiter, TLC

\* Requests are interchangeable; used by the safety runs only.
RequestSymmetry == Permutations(Request)

==============================================================================
