SPECIFICATION Spec
CONSTANTS
    ann = ann
    bob = bob
    c1 = c1
    c2 = c2
    c3 = c3
    o1 = o1
    o2 = o2
    Customers = {ann}
    Orders = {o1}
    Calls = {c1, c2}
    Requests <- SerialRequests
    Totals = {0, 8}
    SeedRefunds <- OneSeed
    Seed = seed
    ApprovalThreshold = 4
    Cent = 2
INVARIANT PaidOrderMayBeCancelled
