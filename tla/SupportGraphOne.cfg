SPECIFICATION FairSystemSpec
CONSTANTS
    ann = ann
    bob = bob
    eve = eve
    t1 = t1
    t2 = t2
    o1 = o1
    Customers = {ann, bob}
    Strangers = {eve}
    Orders = {o1}
    NoOrder = none
    Calls = {t1}
    Requests <- AllRequests
    Totals = {0, 8}
    SeedRefunds <- OneSeed
    Seed = seed
    Understandings <- AnyUnderstanding
    Proposals <- AnyProposal
    RecursionLimit = 8
    ApprovalThreshold = 4
    Cent = 2
INVARIANTS
    SystemTypeOK
    NothingMissing
    OnlyValidatedCalls
    ApprovedAsShown
    ForeignOrderEndsRequest
PROPERTIES
    EveryInvocationEnds
    EveryStepIsCounted
