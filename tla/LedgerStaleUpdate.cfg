CONSTANTS
    Card = {c1}
    Txn = {t1, t2}
    Kinds = {"topup", "update"}
    Amounts = {1}
    Balances <- NoBalances
    Limit = 3
SPECIFICATION Spec
PROPERTY UpdateLeavesBalance
CHECK_DEADLOCK FALSE
