SPECIFICATION Spec
CONSTANTS
    Card = {c1}
    Txn = {t1, t2, t3}
    Kinds = {"purchase", "reversal", "topup", "update", "delete", "create"}
    Amounts = {0, 1}
    Balances <- SomeBalances
    Limit = 3
SYMMETRY TxnSymmetry
INVARIANTS LedgerExplained  ReportsOrdered
 
CHECK_DEADLOCK FALSE
