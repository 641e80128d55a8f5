----------------------------- MODULE MCPaymentFlow -----------------------------
EXTENDS PaymentFlow, TLC

\* Requests differ in name only.
RequestSymmetry == Permutations(Request)

==============================================================================
