SPECIFICATION DurableSpec
CONSTANTS
    a1 = a1  a2 = a2  r1 = r1
    Account = {a1, a2}
    Goods = {"compute_ms"}
    Quantity = {1}
    Price = {1, 2}
    Order = {1}
    Time = {0, 1}
    Reservation = {r1}
    MaxSafe = 1
    MaxMinted = 1
    Faults = {"crash", "writeFails"}
SYMMETRY AccountSymmetry
INVARIANTS MemoryMatchesFile
PROPERTIES FileImplementsMarket
CHECK_DEADLOCK FALSE
