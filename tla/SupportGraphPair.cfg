SPECIFICATION SystemSpec
CONSTANTS
    ann = ann
    bob = bob
    eve = eve
    t1 = t1
    t2 = t2
    o1 = o1
    Customers = {ann}
    Strangers = {}
    Orders = {o1}
    NoOrder = none
    Calls = {t1, t2}
    Requests <- AllRequests
    Totals = {8}
    SeedRefunds = {}
    Seed = seed
    Understandings <- WritingUnderstanding
    Proposals <- WritingProposal
    RecursionLimit = 5
    ApprovalThreshold = 4
    Cent = 2
SYMMETRY ThreadSymmetry
INVARIANTS
    AnswerIsTrue
PROPERTIES
    ImplementsCase
