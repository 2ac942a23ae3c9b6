SPECIFICATION TradingSpec
CONSTANTS
    a1 = a1  a2 = a2
    Account = {a1, a2}
    Goods = {"compute_ms"}
    Quantity = {1, 2}
    Price = {1, 2}
    Order = {1, 2}
    Time = {0, 1}
    Reservation = {}
    MaxSafe = 4
    MaxMinted = 4
INVARIANTS EscrowExact MatchExhausts PricePriority
PROPERTIES OnlySettlementTransfers
CHECK_DEADLOCK FALSE
