--------------------------- MODULE MCAcquirerSwitch ---------------------------
EXTENDS AcquirerSwitch, TLC

\* Calls are interchangeable; used by the safety runs only.
RequestSymmetry == Permutations(Request)

==============================================================================
