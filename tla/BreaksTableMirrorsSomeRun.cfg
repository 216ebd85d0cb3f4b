SPECIFICATION Spec
CONSTANTS
    old = old
    new = new
    small = small
    large = large
    how = how
    Runs = {1, 2}
    Sources = {1, 2, 3}
    Contents = {old, new}
    Blank = blank
    Models = {small, large}
    NoModel = unnamed
    Absent = absent
    Unchanged = unchanged
    Checkouts <- SomeCheckouts
    InitialTables <- SomeTables
    Searches = {1}
    Queries = {how}
    BlankQuery = blankquery
    SearchRequests <- SomeRequests
    SearchModel = small
    Similarity <- MCSimilarity
    MaxLimit = 2
INVARIANT TableMirrorsSomeRun
