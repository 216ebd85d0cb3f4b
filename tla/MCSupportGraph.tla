--------------------------- MODULE MCSupportGraph ---------------------------
(* Small instances of SupportGraph. *)
EXTENDS SupportGraph, TLC

CONSTANTS ann, bob, eve, t1, t2, o1

ThreadSymmetry == Permutations(Calls)

\* Whatever the workflow can ask of the services.
AllRequests ==
    [kind : {"issue"}, customer : Customers, order : Orders, amount : {p.amount : p \in Proposals},
     damaged : BOOLEAN, approved : BOOLEAN]
    \union
    [kind : {"cancel"}, customer : Customers, order : Orders, amount : {0},
     damaged : {FALSE}, approved : {FALSE}]

\* Anything a model can say that the code tells apart; one cent is 2 units, so
\* 3 is no whole number of cents, and above 4 a human is needed.
AnyUnderstanding == Understanding
AnyProposal == [action : {"refund"}, amount : {0, 3, 4, 8}]
                  \union [action : {"cancel", "no_action"}, amount : {0}]

\* Only what can write, for requests that meet in one order of total 8.
WritingUnderstanding == [intent : SupportIntent, order : Orders]
WritingProposal == [action : {"refund"}, amount : {4}] \union [action : {"cancel"}, amount : {0}]

OneSeed == {[amount |-> 4, status |-> "completed"]}
=============================================================================
