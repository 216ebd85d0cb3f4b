---------------------------- MODULE OrderHistory ----------------------------
(***************************************************************************)
(* OrderStore with what was on record when the write transaction of each   *)
(* call ran its first statement: the auxiliary variable earlier records it *)
(* and constrains nothing.  A customer who got no answer, or a 500 after   *)
(* the refund was committed, asks again: earlier holds the refund that the *)
(* second call must find.  What two calls do to each other in spite of the *)
(* properties below they do in transactions that overlap.                  *)
(***************************************************************************)
EXTENDS OrderStore

VARIABLE earlier  \* earlier[c]: the refunds on record when c's transaction began

historyVars == <<vars, earlier>>

HistoryInit == Init /\ earlier = [c \in Calls |-> {}]

\* A transaction finds what was committed before its first statement.
Remembered ==
    earlier' = [c \in Calls |-> IF ~InTx(c) /\ InTx(c)' THEN refunds ELSE earlier[c]]

HistorySpec == HistoryInit /\ [][Next /\ Remembered]_historyVars

\* The refunds of o that counted when the transaction of c began.
Before(c, o) == {q \in earlier[c] : q.order = o /\ IsReserved(q)}

\* The order, amount and reason of a refund that counts.
SameRefund(q, r) ==
    q.order = r.order /\ q.amount = r.amount /\ q.reason = r.reason /\ IsReserved(q)

\* A standalone refund that was committed before the transaction of another
\* call began is found by that call instead of written again with the same
\* amount and reason, whoever was told of it, whatever other transactions do
\* meanwhile and however they end (refund_repository.py:75-86): a duplicate
\* takes two transactions that overlap each other.
SettledRefundIsFound ==
    \A r \in refunds :
        r.id # Seed /\ r.reason # "reversal"
        => \A q \in earlier[r.id] : ~SameRefund(q, r)

\* Nor does a cancellation whose transaction begins once the order has been
\* cancelled, and so reversed, write a second reversal, although its service
\* may have read the order as paid long before (order_repository.py:90).
SettledReversalIsFinal ==
    \A r \in refunds :
        r.id # Seed /\ r.reason = "reversal"
        => \A q \in earlier[r.id] : q.order = r.order => q.reason # "reversal"

\* Only transactions that overlap each other can return more than was paid, or
\* refund a payment that is reversed: a refund or a reversal, with all that was
\* on record when its transaction began, stays within the total of the order,
\* although the order, the shipment and the SUM are read statements before the
\* row is written (refund_repository.py:91-108, order_repository.py:96-112).
SettledRefundsLeaveRoom ==
    \A r \in refunds :
        r.id # Seed => r.amount + SumOf(Before(r.id, r.order)) <= orders[r.order].total
=============================================================================
