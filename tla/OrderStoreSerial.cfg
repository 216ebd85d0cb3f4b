SPECIFICATION SerialSpec
CONSTANTS
    ann = ann
    bob = bob
    c1 = c1
    c2 = c2
    c3 = c3
    o1 = o1
    o2 = o2
    Customers = {ann}
    Orders = {o1}
    Calls = {c1, c2, c3}
    Requests <- SerialRequests
    Totals = {8}
    SeedRefunds <- OneSeed
    Seed = seed
    ApprovalThreshold = 4
    Cent = 2
SYMMETRY CallSymmetry
INVARIANTS
    NoOverRefund
    NoDuplicateRefund
    NoRefundAndReversal
PROPERTIES
    ImplementsLedger
