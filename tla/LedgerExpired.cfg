CONSTANTS
    Card = {c1}
    Txn = {t1}
    Kinds = {"purchase"}
    Amounts = {1}
    Balances <- SomeBalances
    Limit = 3
SPECIFICATION Spec
INVARIANT ExpiredDeclined
CHECK_DEADLOCK FALSE
