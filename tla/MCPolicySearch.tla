--------------------------- MODULE MCPolicySearch ---------------------------
(* Small instances of PolicySync and PolicySearch. *)
EXTENDS PolicySearch, TLC

CONSTANTS old, new, large, small, how

\* The documents 1 and 2, and perhaps a third.
Docs(a, b, c) == [s \in Sources |-> CASE s = 1 -> a [] s = 2 -> b [] OTHER -> c]

Row(id, text, m) ==
    [id |-> id, content |-> text, embedding |-> Embedding(text, m), embedding_model |-> m]

\* An empty directory, a blank document, and two checkouts of which either adds,
\* changes and drops a document of the other.
SomeCheckouts ==
    {Docs(Absent, Absent, Absent), Docs(new, Blank, Absent),
     Docs(new, old, Absent), Docs(Absent, new, old)}

\* Nothing yet; what an older script left behind; all that can be there.
SomeTables ==
    {Docs(Absent, Absent, Absent),
     Docs(Row("random", new, small), Row("stable", new, small), Row("random", old, small))}

MCSimilarity == [text \in Contents |-> [query \in Queries |-> IF text = new THEN 8 ELSE 3]]

\* More than there may be of anything, only one of the nearest, and nothing.
SomeRequests ==
    {[query |-> how, limit |-> 9, min_score |-> 0], [query |-> how, limit |-> 0, min_score |-> 8],
     [query |-> BlankQuery, limit |-> 3, min_score |-> 3]}
=============================================================================
