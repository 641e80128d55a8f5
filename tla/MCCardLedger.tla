----------------------------- MODULE MCCardLedger -----------------------------
EXTENDS CardLedger, TLC

\* Operations are interchangeable: the safety runs explore them up to order.
TxnSymmetry == Permutations(Txn)

\* A configuration file has no negative numbers.
SomeBalances == {-1, 0, 2}
NoBalances   == {}
==============================================================================
