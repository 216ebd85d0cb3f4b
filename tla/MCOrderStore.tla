---------------------------- MODULE MCOrderStore ----------------------------
(* Small instances of OrderStore. *)
EXTENDS OrderStore, TLC

CONSTANTS ann, bob, c1, c2, c3, o1, o2

Ask(kind, customer, order, amount, damaged, approved) ==
    [kind |-> kind, customer |-> customer, order |-> order, amount |-> amount,
     damaged |-> damaged, approved |-> approved]

CancelBy(customer, order) == Ask("cancel", customer, order, 0, FALSE, FALSE)

CallSymmetry == Permutations(Calls)

\* One cent is 2 units, so 3 is not a whole number of cents; a human is
\* needed above 4, and the dearest order is refunded in halves.
ConcurrentRequests ==
    {CancelBy(ann, o1), CancelBy(bob, o1),
     Ask("issue", ann, o1, 0, FALSE, TRUE), Ask("issue", ann, o1, 3, FALSE, TRUE),
     Ask("issue", bob, o1, 4, FALSE, TRUE),
     Ask("issue", ann, o1, 4, FALSE, FALSE), Ask("issue", ann, o1, 4, TRUE, FALSE),
     Ask("issue", ann, o1, 4, TRUE, TRUE), Ask("issue", ann, o1, 8, FALSE, FALSE),
     Ask("issue", ann, o1, 8, FALSE, TRUE)}

\* Every pair of these can meet in one order of total 8; three calls leave
\* room for a third after any two.
SerialRequests ==
    {CancelBy(ann, o1),
     Ask("issue", ann, o1, 4, FALSE, FALSE), Ask("issue", ann, o1, 4, TRUE, TRUE),
     Ask("issue", ann, o1, 8, TRUE, TRUE)}

\* One refund of the whole order: a second of it repeats the first, which the
\* first lookup should find, and exceeds the total, which the SUM should.
SameRefundTwice == {Ask("issue", ann, o1, 8, TRUE, TRUE)}

OneSeed == {[amount |-> 4, status |-> "completed"], [amount |-> 4, status |-> "rejected"]}
=============================================================================
