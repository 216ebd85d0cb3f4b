----------------------------- MODULE OrderStore -----------------------------
(***************************************************************************)
(* Concurrent calls of RefundService.issue and OrderService.cancel on the  *)
(* commerce database, one SQL statement per step.                          *)
(*                                                                         *)
(* The database runs READ COMMITTED (the default the engine is created     *)
(* with): every SELECT sees what is committed when it runs, and no         *)
(* statement takes a lock that a SELECT waits for.  What a transaction     *)
(* writes is invisible until it commits, so the flush and the COMMIT that  *)
(* ends it are one step; a row lock delays the second writer of a row to   *)
(* that same point.  A call reads through two service-level sessions       *)
(* before it opens its write transaction, which reads everything again.    *)
(*                                                                         *)
(* Payment, fulfilment and the carrier are outside the repository: they    *)
(* move the status columns on their own (AdvanceOrder, UpdateShipment).    *)
(* A call may die at any step: its transaction rolls back, and what it had *)
(* committed stays although nobody was told.  A retry is another call with *)
(* the same request.                                                       *)
(***************************************************************************)
EXTENDS Commerce, FiniteSetsExt

CONSTANTS
    Customers,
    Orders,
    Calls,        \* service calls, each made at most once
    Requests,     \* what a call may ask for
    Totals,       \* totals an order may have
    SeedRefunds,  \* [amount, status] of refunds already on record
    Seed          \* the author of the refunds already on record

Request == [kind     : {"issue", "cancel"},
            customer : Customers,
            order    : Orders,
            amount   : Int,      \* the rest matters to "issue" only
            damaged  : BOOLEAN,
            approved : BOOLEAN]

ASSUME RequestsAssumption == Requests # {} /\ Requests \subseteq Request
ASSUME TotalsAssumption ==
    /\ Totals \subseteq Nat
    /\ \A t \in Totals : t % Cent = 0
ASSUME SeedAssumption ==
    /\ Seed \notin Calls
    /\ SeedRefunds \subseteq [amount : Nat \ {0}, status : RefundStatus]
    /\ \A s \in SeedRefunds : s.amount % Cent = 0

VARIABLES
    orders,     \* orders[o]: the row of the orders table
    shipments,  \* shipments[o]: the status in the shipments table, or "none"
    refunds,    \* the rows of the refunds table
    reserved,   \* reserved[o]: SUM(amount) of the reserved refunds of o
    req,        \* req[c]: the arguments of call c once it is made
    pc,         \* pc[c]: the statement call c is about to run, or its outcome
    seen,       \* seen[c]: the order status call c has read and still needs
    reason      \* reason[c]: the refund reason call c has derived

table == <<orders, shipments, refunds, reserved>>
vars == <<orders, shipments, refunds, reserved, req, pc, seen, reason>>

Order  == [customer : Customers, status : OrderStatus, total : Totals]
Refund == [id     : Calls \union {Seed},
           order  : Orders,
           amount : Nat \ {0},
           reason : RefundReason,
           status : RefundStatus]

IssueInTx  == {"issue_shipment", "issue_existing", "issue_reserved", "issue_insert"}
CancelInTx == {"cancel_shipment", "cancel_write"}
IssuePc    == {"issue_get_order", "issue_get_shipment", "issue_order"} \union IssueInTx
CancelPc   == {"cancel_get_order", "cancel_get_shipment", "cancel_order"} \union CancelInTx
Running    == IssuePc \union CancelPc \union {"committed"}
Refusal    == {"refused", "not_found", "db_error"}
Final      == Refusal \union {"ok", "crashed"}

Owns(c) == orders[req[c].order].customer = req[c].customer

IsReserved(r) == r.status \in ReservedStatuses

ReservedRows(o) == {r \in refunds : r.order = o /\ IsReserved(r)}

Matching_Pending(o, a, why) ==
    {r \in refunds : r.order = o /\ r.amount = a /\ r.reason = why /\ r.status = "pending"}

Matching(o, a, why) == {r \in ReservedRows(o) : r.amount = a /\ r.reason = why}

\* Call c goes on to statement l; Remember and Derive set its locals.
Goto(c, l) == pc' = [pc EXCEPT ![c] = l]

Remember(c, s) == seen' = [seen EXCEPT ![c] = s]

Derive(c, w) == reason' = [reason EXCEPT ![c] = w]

-----------------------------------------------------------------------------
SeedRow(o, s) ==
    [id |-> Seed, order |-> o, amount |-> s.amount, reason |-> "other", status |-> s.status]

\* Any statuses and totals; of the orders on record, the delivered ones may
\* carry one earlier refund within their total.
Init ==
    /\ orders \in [Orders -> Order]
    /\ shipments \in [Orders -> ShipmentView]
    /\ refunds \in SUBSET {SeedRow(o, s) : o \in Orders, s \in SeedRefunds}
    /\ \A r \in refunds :
          /\ orders[r.order].status = "delivered"
          /\ r.amount <= orders[r.order].total
          /\ \A other \in refunds : other.order = r.order => other = r
    /\ reserved = [o \in Orders |->
          IF ReservedRows(o) = {} THEN 0 ELSE (CHOOSE r \in ReservedRows(o) : TRUE).amount]
    /\ req = [c \in Calls |-> CHOOSE q \in Requests : TRUE]
    /\ pc = [c \in Calls |-> "idle"]
    /\ seen = [c \in Calls |-> "none"]
    /\ reason = [c \in Calls |-> "other"]

-----------------------------------------------------------------------------
(***************************************************************************)
(* RefundService.issue, up to its call of the repository.                  *)
(***************************************************************************)

Arrive(c, q) == pc[c] = "idle" /\ req' = [req EXCEPT ![c] = q]

\* The amount is checked before anything is read.
IssueBegin(c, q) ==
    /\ q.kind = "issue"
    /\ Arrive(c, q)
    /\ Goto(c, IF ValidAmount(q.amount) THEN "issue_get_order" ELSE "refused")
    /\ UNCHANGED <<table, seen, reason>>

IssueGetOrder(c) ==
    /\ pc[c] = "issue_get_order"
    /\ IF Owns(c)
       THEN Goto(c, "issue_get_shipment") /\ Remember(c, orders[req[c].order].status)
       ELSE Goto(c, "not_found") /\ UNCHANGED seen
    /\ UNCHANGED <<table, req, reason>>

IssueGetShipment_NoApproval(c) ==
    /\ pc[c] = "issue_get_shipment"
    /\ Goto(c, IF Eligible(seen[c], shipments[req[c].order], req[c].damaged)
               THEN "issue_order" ELSE "refused")
    /\ Remember(c, "none")
    /\ UNCHANGED <<table, req, reason>>

\* The second read, then eligibility and the approval it calls for.
IssueGetShipment(c) ==
    /\ pc[c] = "issue_get_shipment"
    /\ Goto(c, IF /\ Eligible(seen[c], shipments[req[c].order], req[c].damaged)
                  /\ NeedsApproval(req[c].damaged, req[c].amount) => req[c].approved
               THEN "issue_order" ELSE "refused")
    /\ Remember(c, "none")
    /\ UNCHANGED <<table, req, reason>>

(***************************************************************************)
(* RefundRepository.issue: the write transaction.                          *)
(***************************************************************************)
IssueOrder(c) ==
    /\ pc[c] = "issue_order"
    /\ IF Owns(c)
       THEN Goto(c, "issue_shipment") /\ Remember(c, orders[req[c].order].status)
       ELSE Goto(c, "not_found") /\ UNCHANGED seen
    /\ UNCHANGED <<table, req, reason>>

IssueShipment(c) ==
    LET shipment == shipments[req[c].order]
    IN  /\ pc[c] = "issue_shipment"
        /\ IF Eligible(seen[c], shipment, req[c].damaged)
           THEN Goto(c, "issue_existing") /\ Derive(c, ReasonFor(shipment))
           ELSE Goto(c, "refused") /\ UNCHANGED reason
        /\ Remember(c, "none")
        /\ UNCHANGED <<table, req>>

IssueExisting_Unchecked(c) ==
    /\ pc[c] = "issue_existing"
    /\ Goto(c, "issue_reserved")
    /\ UNCHANGED <<table, req, seen, reason>>

\* A refund of the same order, amount and reason is returned as it is.
IssueExisting(c) ==
    /\ pc[c] = "issue_existing"
    /\ IF Matching(req[c].order, req[c].amount, reason[c]) = {}
       THEN Goto(c, "issue_reserved") /\ UNCHANGED reason
       ELSE Goto(c, "ok") /\ Derive(c, "other")
    /\ UNCHANGED <<table, req, seen>>

\* The SUM of the reserved refunds, and what it leaves to refund.
IssueReserved(c) ==
    /\ pc[c] = "issue_reserved"
    /\ IF req[c].amount <= Refundable(orders[req[c].order].total, reserved[req[c].order])
       THEN Goto(c, "issue_insert") /\ UNCHANGED reason
       ELSE Goto(c, "refused") /\ Derive(c, "other")
    /\ UNCHANGED <<table, req, seen>>

Record(c, amount, why) ==
    LET o == req[c].order
    IN  /\ refunds' = refunds \union
              {[id |-> c, order |-> o, amount |-> amount, reason |-> why, status |-> "completed"]}
        /\ reserved' = [reserved EXCEPT ![o] = @ + amount]

IssueInsert_NoCommit(c) ==
    /\ pc[c] = "issue_insert"
    /\ Goto(c, "committed")
    /\ Derive(c, "other")
    /\ UNCHANGED <<table, req, seen>>

\* INSERT, flush and COMMIT.
IssueInsert(c) ==
    /\ pc[c] = "issue_insert"
    /\ Record(c, req[c].amount, reason[c])
    /\ Goto(c, "committed")
    /\ Derive(c, "other")
    /\ UNCHANGED <<orders, shipments, req, seen>>

-----------------------------------------------------------------------------
(***************************************************************************)
(* OrderService.cancel, up to its call of the repository.                  *)
(***************************************************************************)
CancelBegin(c, q) ==
    /\ q.kind = "cancel"
    /\ Arrive(c, q)
    /\ Goto(c, "cancel_get_order")
    /\ UNCHANGED <<table, seen, reason>>

\* What a cancellation does with the order it has read; it is already
\* cancelled, it is past cancelling, or the shipment decides.
AfterOrder(c, next) ==
    LET status == orders[req[c].order].status
    IN  IF ~Owns(c) THEN "not_found"
        ELSE CASE status = "cancelled"           -> "ok"
               [] status \in CancellableStatuses -> next
               [] OTHER                          -> "refused"

CancelGetOrder(c) ==
    /\ pc[c] = "cancel_get_order"
    /\ Goto(c, AfterOrder(c, "cancel_get_shipment"))
    /\ UNCHANGED <<table, req, seen, reason>>

CancelGetShipment(c) ==
    /\ pc[c] = "cancel_get_shipment"
    /\ Goto(c, IF shipments[req[c].order] \in StartedShipmentStatuses
               THEN "refused" ELSE "cancel_order")
    /\ UNCHANGED <<table, req, seen, reason>>

(***************************************************************************)
(* OrderRepository.cancel: the write transaction.                          *)
(***************************************************************************)
CancelOrder(c) ==
    LET next == AfterOrder(c, "cancel_shipment")
    IN  /\ pc[c] = "cancel_order"
        /\ Goto(c, next)
        /\ IF next = "cancel_shipment"
           THEN Remember(c, orders[req[c].order].status) ELSE UNCHANGED seen
        /\ UNCHANGED <<table, req, reason>>

CancelShipment(c) ==
    /\ pc[c] = "cancel_shipment"
    /\ IF shipments[req[c].order] \in StartedShipmentStatuses
       THEN Goto(c, "refused") /\ Remember(c, "none")
       ELSE Goto(c, "cancel_write") /\ UNCHANGED seen
    /\ UNCHANGED <<table, req, reason>>

\* The UPDATE by primary key, whatever the row says by now, with the payment
\* reversal when the order was read as paid.
Cancelled_Forgotten(o) == orders' = [orders EXCEPT ![o].status = @]

Cancelled(o) == orders' = [orders EXCEPT ![o].status = "cancelled"]

CancelWrite_NoCheck(c) ==
    LET o == req[c].order
    IN  /\ pc[c] = "cancel_write"
        /\ Cancelled(o)
        /\ IF seen[c] = "paid"
           THEN Record(c, orders[o].total, "reversal") ELSE UNCHANGED <<refunds, reserved>>
        /\ Goto(c, "committed")
        /\ Remember(c, "none")
        /\ UNCHANGED <<shipments, req, reason>>

CancelWrite(c) ==
    LET o == req[c].order
    IN  /\ pc[c] = "cancel_write"
        /\ \/ /\ seen[c] # "paid"
              /\ Cancelled(o)
              /\ Goto(c, "committed")
              /\ UNCHANGED <<refunds, reserved>>
           \/ /\ seen[c] = "paid" /\ orders[o].total > 0
              /\ Cancelled(o)
              /\ Record(c, orders[o].total, "reversal")
              /\ Goto(c, "committed")
           \/ \* ck_refunds_amount_positive refuses a reversal of nothing
              /\ seen[c] = "paid" /\ orders[o].total = 0
              /\ Goto(c, "db_error")
              /\ UNCHANGED <<orders, refunds, reserved>>
        /\ Remember(c, "none")
        /\ UNCHANGED <<shipments, req, reason>>

-----------------------------------------------------------------------------
\* The committed call returns to its caller.
Answer(c) ==
    /\ pc[c] = "committed"
    /\ Goto(c, "ok")
    /\ UNCHANGED <<table, req, seen, reason>>

\* The process, the connection or the task dies under the call.
Crash(c) ==
    /\ pc[c] \in Running
    /\ Goto(c, "crashed")
    /\ Remember(c, "none")
    /\ Derive(c, "other")
    /\ UNCHANGED <<table, req>>

NextOrderStatus(s) ==
    CASE s = "pending"    -> {"paid"}
      [] s = "paid"       -> {"processing"}
      [] s = "processing" -> {"shipped"}
      [] s = "shipped"    -> {"delivered"}
      [] OTHER            -> {}

NextShipmentStatus(s) ==
    CASE s = "none"       -> {"pending"}
      [] s = "pending"    -> {"shipped"}
      [] s = "shipped"    -> {"in_transit"}
      [] s = "in_transit" -> {"delivered", "lost"}
      [] s = "lost"       -> {"delivered"}
      [] OTHER            -> {}

\* Payment and fulfilment move an order on.
AdvanceOrder(o) ==
    /\ \E s \in NextOrderStatus(orders[o].status) :
          orders' = [orders EXCEPT ![o].status = s]
    /\ UNCHANGED <<shipments, refunds, reserved, req, pc, seen, reason>>

\* The carrier moves a shipment on; one reported lost may still turn up.
UpdateShipment(o) ==
    /\ \E s \in NextShipmentStatus(shipments[o]) :
          shipments' = [shipments EXCEPT ![o] = s]
    /\ UNCHANGED <<orders, refunds, reserved, req, pc, seen, reason>>

Begin(c, q) == IssueBegin(c, q) \/ CancelBegin(c, q)

\* A call at work, once it has begun.
IssueStep(c) ==
    \/ IssueGetOrder(c) \/ IssueGetShipment(c) \/ IssueOrder(c) \/ IssueShipment(c) \/ IssueExisting(c)
    \/ IssueReserved(c) \/ IssueInsert(c)

CancelStep(c) ==
    \/ CancelGetOrder(c) \/ CancelGetShipment(c)
    \/ CancelOrder(c) \/ CancelShipment(c) \/ CancelWrite(c)

\* All calls have been answered (or died): nothing more need happen.
AllAnswered ==
    /\ \A c \in Calls : pc[c] \in Final
    /\ UNCHANGED vars

Next ==
    \/ \E c \in Calls, q \in Requests : Begin(c, q)
    \/ \E c \in Calls : IssueStep(c) \/ CancelStep(c) \/ Answer(c) \/ Crash(c)
    \/ \E o \in Orders : AdvanceOrder(o) \/ UpdateShipment(o)
    \/ AllAnswered

Spec == Init /\ [][Next]_vars

(***************************************************************************)
(* The same system when at most one call at a time is inside the write     *)
(* transaction of an order, which nothing in the code ensures but a        *)
(* deployment (or a row lock) could.                                       *)
(***************************************************************************)
InTx(c) == pc[c] \in IssueInTx \union CancelInTx

Exclusive ==
    \A c, d \in Calls :
        InTx(c) /\ InTx(d) /\ req[c].order = req[d].order => c = d

SerialSpec == Init /\ [][Next /\ Exclusive']_vars

-----------------------------------------------------------------------------
(***************************************************************************)
(* Properties of Spec: whatever the interleaving and whoever crashes.      *)
(***************************************************************************)

\* The tables, and each call's locals, hold values of their types; a local is
\* kept only between the statement that reads it and the one that uses it.
TypeOK ==
    /\ orders \in [Orders -> Order]
    /\ shipments \in [Orders -> ShipmentView]
    /\ refunds \subseteq Refund
    /\ reserved \in [Orders -> Nat]
    /\ req \in [Calls -> Requests]
    /\ pc \in [Calls -> {"idle"} \union Running \union Final]
    /\ seen \in [Calls -> OrderStatus \union {"none"}]
    /\ reason \in [Calls -> RefundReason]

SumOf(rows) == MapThenSumSet(LAMBDA r : r.amount, rows)

\* The running total that stands for the SUM query is that sum, so a code
\* path that writes a row the query does not count would show.
ReservedIsSum == \A o \in Orders : reserved[o] = SumOf(ReservedRows(o))

\* What a caller is told is so, and stays so while others run: after "ok" the
\* refund of that amount is on record, or the order is cancelled; a call that
\* was refused, or whose transaction the database failed, has left no row.
AnswersAreTrue ==
    \A c \in Calls :
        LET o == req[c].order
        IN  /\ pc[c] \in {"committed", "ok"} =>
                 IF req[c].kind = "cancel"
                 THEN orders[o].status = "cancelled"
                 ELSE \E r \in ReservedRows(o) :
                         r.amount = req[c].amount /\ r.reason \in {"lost", "damaged"}
            /\ pc[c] \in Refusal => \A r \in refunds : r.id # c

\* A payment reversal is on record only together with the cancellation it
\* belongs to, for the whole total: no crash separates the two.
ReversalWithCancellation ==
    \A r \in refunds : r.reason = "reversal" =>
        orders[r.order].status = "cancelled" /\ r.amount = orders[r.order].total

\* The reason of a refund was true when it was written, although the statuses
\* it rests on were read statements earlier and the carrier goes on: a "lost"
\* parcel is lost or has turned up since, and a "damaged" one was delivered
\* (its order may have been cancelled under the refund).
RefundHasEvidence ==
    \A r \in refunds :
        /\ r.reason = "lost" => shipments[r.order] \in {"lost", "delivered"}
        /\ r.reason = "damaged" =>
              shipments[r.order] = "delivered"
              \/ orders[r.order].status \in {"delivered", "cancelled"}

\* Every row was asked for by a call of the customer who owns the order, for
\* that order; a standalone refund for that amount, for damage only on a damage
\* claim, and with a human's approval where one is needed.
RefundWasAuthorised ==
    \A r \in refunds : r.id # Seed =>
        LET q == req[r.id]
        IN  /\ q.order = r.order /\ orders[r.order].customer = q.customer
            /\ r.reason = "reversal" <=> q.kind = "cancel"
            /\ q.kind = "issue" =>
                  /\ q.amount = r.amount /\ r.amount % Cent = 0
                  /\ r.reason = "damaged" => q.damaged
                  /\ NeedsApproval(q.damaged, q.amount) => q.approved

(***************************************************************************)
(* Properties of SerialSpec.                                               *)
(***************************************************************************)

\* The refunds and reversals of an order together never exceed what was paid.
NoOverRefund == \A o \in Orders : reserved[o] <= orders[o].total

\* No refund is on record twice for the same order, amount and reason.
NoDuplicateRefund ==
    \A o \in Orders : \A q, r \in ReservedRows(o) :
        q.amount = r.amount /\ q.reason = r.reason => q = r

\* A payment that was reversed is not refunded as well, before or after.
NoRefundAndReversal ==
    \A o \in Orders : \A q, r \in ReservedRows(o) : q.reason = "reversal" => r = q

\* Every amount that a row can have.
Amounts ==
    {q.amount : q \in {p \in Requests : p.amount > 0}}
        \union {s.amount : s \in SeedRefunds} \union (Totals \ {0})

Ledger == INSTANCE RefundLedger WITH
    Grants    <- [amount : Amounts, reason : RefundReason],
    balance   <- [o \in Orders |-> orders[o].total - reserved[o]],
    granted   <- [o \in Orders |->
                    {[amount |-> r.amount, reason |-> r.reason] : r \in ReservedRows(o)}],
    cancelled <- {o \in Orders : orders[o].status = "cancelled"}

\* Transaction by transaction, the write paths implement the ledger.
ImplementsLedger == Ledger!Spec

(***************************************************************************)
(* What the documents and docstrings say, which concurrent calls, or the   *)
(* world between two statements of one call, can break.                    *)
(***************************************************************************)

\* "Repeated or retried cancellation requests must not create duplicate
\* payment reversals or refunds" (docs/cancellation-policy.md:40).
NoDoubleReversal ==
    \A q, r \in refunds :
        q.reason = "reversal" /\ r.reason = "reversal" /\ q.order = r.order => q = r

\* "A paid order that has not shipped may be cancelled" (cancellation-policy
\* :45): no cancellation ends in an error of the database.
PaidOrderMayBeCancelled == \A c \in Calls : pc[c] # "db_error"

\* "Cancel an owned order only while fulfilment has not started"
\* (order_service.py:50).
CancelOnlyBeforeShipment ==
    [][\A o \in Orders :
          orders[o].status # "cancelled" /\ orders'[o].status = "cancelled"
          => shipments[o] \notin StartedShipmentStatuses]_vars

\* "If payment has already been captured, any required refund or payment
\* reversal is handled as part of the cancellation" (cancellation-policy:32);
\* an order of nothing requires none.
CapturedPaymentIsReversed ==
    [][\A o \in Orders :
          /\ orders[o].status = "paid" /\ orders'[o].status = "cancelled"
          /\ orders[o].total > 0
          => \E r \in refunds' \ refunds : r.order = o /\ r.reason = "reversal"]_vars

\* "Repeated or retried refund requests must not create duplicate refunds"
\* (docs/refund-policy.md:54).
RetryWritesNoSecondRefund ==
    \A q, r \in refunds :
        /\ q.id # Seed /\ r.id # Seed /\ req[q.id] = req[r.id]
        => q = r
=============================================================================
