---------------------------- MODULE RefundLedger ----------------------------
(***************************************************************************)
(* What the write paths promise about the money of an order, with no       *)
(* calls, statements or rows: an order has a balance that can still be     *)
(* returned to the customer, every grant is taken off it and is made at    *)
(* most once for the same amount and reason, and a cancellation is made    *)
(* once and gives back the whole balance or nothing.                       *)
(***************************************************************************)
EXTENDS Integers

CONSTANTS Orders, Grants   \* what may be granted: records with an amount

VARIABLES
    balance,    \* balance[o]: what may still be returned
    granted,    \* granted[o]: the grants made so far
    cancelled   \* the cancelled orders

ledger == <<balance, granted, cancelled>>

Init ==
    /\ balance \in [Orders -> Nat]
    /\ granted \in [Orders -> SUBSET Grants]
    /\ cancelled \in SUBSET Orders

\* One more grant, never for the second time and never beyond the balance.
Grant(o, g) ==
    /\ g \notin granted[o]
    /\ g.amount \in 1..balance[o]
    /\ granted' = [granted EXCEPT ![o] = @ \union {g}]
    /\ balance' = [balance EXCEPT ![o] = @ - g.amount]

\* A standalone refund.
Refund(o) ==
    /\ \E g \in Grants : Grant(o, g)
    /\ UNCHANGED cancelled

\* A cancellation that owes nothing.
Cancel(o) ==
    /\ o \notin cancelled
    /\ cancelled' = cancelled \union {o}
    /\ UNCHANGED <<balance, granted>>

\* A cancellation that returns the payment: all of it, to an order on which
\* nothing had been granted.
CancelAndReverse(o) ==
    /\ o \notin cancelled
    /\ cancelled' = cancelled \union {o}
    /\ granted[o] = {}
    /\ \E g \in Grants : g.amount = balance[o] /\ Grant(o, g)

Next == \E o \in Orders : Refund(o) \/ Cancel(o) \/ CancelAndReverse(o)

Spec == Init /\ [][Next]_ledger
=============================================================================
