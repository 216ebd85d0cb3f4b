------------------------------ MODULE Commerce ------------------------------
(***************************************************************************)
(* The vocabulary of the commerce tables (db/models.py) and the pure rules *)
(* that the services, the repositories and the agent's validation node     *)
(* apply to it.  A status is the string stored in the column; an absent    *)
(* shipment row is "none".  Amounts are integers: one cent is Cent units,  *)
(* so that an amount with more than two decimals can be expressed.         *)
(*                                                                         *)
(* A definition X_Slip, here and in OrderStore, is X with a mistake that   *)
(* the checks must notice; the specifications do not use it.               *)
(***************************************************************************)
EXTENDS Integers

CONSTANTS
    ApprovalThreshold,  \* the largest amount refunded without a human
    Cent                \* units of an amount per cent

ASSUME MoneyAssumption ==
    /\ ApprovalThreshold \in Nat
    /\ Cent \in Nat \ {0}

OrderStatus == {"pending", "paid", "processing", "shipped", "delivered", "cancelled"}

ShipmentStatus == {"pending", "shipped", "in_transit", "delivered", "lost"}

\* A SELECT of a shipment status that finds no row yields None.
ShipmentView == ShipmentStatus \union {"none"}

RefundStatus == {"pending", "approved", "rejected", "completed"}

CancellableStatuses == {"pending", "paid", "processing"}

StartedShipmentStatuses_NoLost == {"shipped", "in_transit", "delivered"}

StartedShipmentStatuses == {"shipped", "in_transit", "delivered", "lost"}

ReservedStatuses_NoCompleted == {"pending", "approved"}

\* The refunds whose amounts are taken off what can still be refunded.
ReservedStatuses == {"pending", "approved", "completed"}

\* What the reason column holds; "other" is a reason no code path writes.
RefundReason == {"lost", "damaged", "reversal", "other"}

\* Standalone refunds: a lost shipment, or a damage claim on a delivery.
Delivered_OrShipped(status, shipment) == status = "shipped" \/ shipment = "delivered"

Delivered(status, shipment) == status = "delivered" \/ shipment = "delivered"

Eligible(status, shipment, damaged) ==
    \/ shipment = "lost"
    \/ damaged /\ Delivered(status, shipment)

\* A lost shipment names the refund even when damage was claimed.
ReasonFor(shipment) == IF shipment = "lost" THEN "lost" ELSE "damaged"

NeedsApproval(damaged, amount) == damaged \/ amount > ApprovalThreshold

\* The checks on the amount that open RefundService.issue.
ValidAmount(amount) == amount > 0 /\ amount % Cent = 0

Refundable_Total(total, reserved) == total

Refundable(total, reserved) == IF total > reserved THEN total - reserved ELSE 0

=============================================================================
