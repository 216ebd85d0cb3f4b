-------------------------- MODULE OrderStoreProofs --------------------------
(* Theorems about OrderStore, for every value of its constants. *)
EXTENDS OrderStore, TLAPS

(***************************************************************************)
(* What a call has established when it is about to run the statement pc[c] *)
(* (or has ended), the strengthening that makes the properties inductive.  *)
(***************************************************************************)
Owning == (IssuePc \union CancelPc) \ {"issue_get_order", "cancel_get_order"}

Deciding == {"issue_existing", "issue_reserved", "issue_insert"}

Lost(o) == shipments[o] \in {"lost", "delivered"}

Arrived(o) ==
    shipments[o] = "delivered" \/ orders[o].status \in {"delivered", "cancelled"}

Established(c) ==
    LET q == req[c]
    IN  /\ pc[c] \in IssuePc => q.kind = "issue" /\ ValidAmount(q.amount)
        /\ pc[c] \in CancelPc => q.kind = "cancel"
        /\ pc[c] \in Owning => Owns(c)
        /\ pc[c] \in {"issue_order"} \union IssueInTx =>
              (NeedsApproval(q.damaged, q.amount) => q.approved)
        /\ pc[c] = "issue_shipment" /\ seen[c] = "delivered" => Arrived(q.order)
        /\ pc[c] \in Deciding =>
              \/ reason[c] = "lost" /\ Lost(q.order)
              \/ reason[c] = "damaged" /\ q.damaged /\ Arrived(q.order)
        /\ pc[c] \in {"idle"} \union IssuePc \union CancelPc \union Refusal =>
              \A r \in refunds : r.id # c

CallInv == \A c \in Calls : Established(c)

-----------------------------------------------------------------------------
(***************************************************************************)
(* Type correctness.                                                       *)
(***************************************************************************)

LEMMA InitType == Init => TypeOK
<1> SUFFICES ASSUME Init PROVE TypeOK
    OBVIOUS
<1>1. refunds \subseteq Refund
    BY SeedAssumption DEF Init, SeedRow, Refund, RefundReason
<1>2. reserved \in [Orders -> Nat]
    <2>1. ASSUME NEW o \in Orders, ReservedRows(o) # {}
          PROVE  (CHOOSE r \in ReservedRows(o) : TRUE).amount \in Nat
        BY <1>1, <2>1 DEF ReservedRows, Refund
    <2> QED BY <2>1 DEF Init
<1>3. req \in [Calls -> Requests]
    BY RequestsAssumption DEF Init
<1> QED BY <1>1, <1>2, <1>3 DEF Init, TypeOK, OrderStatus, RefundReason

\* A row that call c adds is well formed when its amount and reason are.
LEMMA RecordType ==
    ASSUME TypeOK, NEW c \in Calls, NEW a \in Nat \ {0}, NEW w \in RefundReason, Record(c, a, w)
    PROVE  refunds' \subseteq Refund /\ reserved' \in [Orders -> Nat]
<1> req[c].order \in Orders
    BY RequestsAssumption DEF TypeOK, Request
<1> QED BY DEF TypeOK, Record, Refund, RefundStatus

\* What call c asks for, in an order that exists.
LEMMA RequestType ==
    ASSUME TypeOK, NEW c \in Calls
    PROVE  /\ req[c] \in Request
           /\ req[c].order \in Orders
           /\ orders[req[c].order] \in Order
           /\ orders[req[c].order].status \in OrderStatus
           /\ orders[req[c].order].total \in Nat
<1>1. req[c] \in Request
    BY RequestsAssumption DEF TypeOK
<1>2. req[c].order \in Orders
    BY <1>1 DEF Request
<1>3. orders[req[c].order] \in Order
    BY <1>2 DEF TypeOK
<1> QED BY <1>1, <1>2, <1>3, TotalsAssumption DEF Order

LEMMA NextType == TypeOK /\ CallInv /\ [Next]_vars => TypeOK'
<1> SUFFICES ASSUME TypeOK, CallInv, [Next]_vars PROVE TypeOK'
    OBVIOUS
<1> USE DEF TypeOK, table, Goto, Remember, Derive, Running, Final, Refusal, IssuePc, CancelPc,
            IssueInTx, CancelInTx
<1>1. CASE UNCHANGED vars
    BY <1>1 DEF vars
<1>0. ASSUME NEW c \in Calls, NEW q \in Requests, Begin(c, q) PROVE TypeOK'
    BY <1>0 DEF Begin, IssueBegin, CancelBegin, Arrive
<1>2. ASSUME NEW c \in Calls, IssueStep(c) PROVE TypeOK'
    <2>2. CASE IssueGetOrder(c)
        BY <2>2, RequestType DEF IssueGetOrder
    <2>3. CASE IssueGetShipment(c)
        BY <2>3 DEF IssueGetShipment
    <2>4. CASE IssueOrder(c)
        BY <2>4, RequestType DEF IssueOrder
    <2>5. CASE IssueShipment(c)
        BY <2>5 DEF IssueShipment, ReasonFor, RefundReason
    <2>6. CASE IssueExisting(c)
        BY <2>6 DEF IssueExisting, RefundReason
    <2>7. CASE IssueReserved(c)
        BY <2>7 DEF IssueReserved, RefundReason
    <2>8. CASE IssueInsert(c)
        <3>1. req[c].amount \in Nat \ {0}
            BY <2>8, RequestType DEF IssueInsert, CallInv, Established, ValidAmount, Request
        <3>2. refunds' \subseteq Refund /\ reserved' \in [Orders -> Nat]
            BY <2>8, <3>1, RecordType DEF IssueInsert
        <3> QED BY <2>8, <3>2 DEF IssueInsert, RefundReason
    <2> QED BY <1>2, <2>2, <2>3, <2>4, <2>5, <2>6, <2>7, <2>8 DEF IssueStep
<1>3. ASSUME NEW c \in Calls, CancelStep(c) PROVE TypeOK'
    <2>2. CASE CancelGetOrder(c)
        BY <2>2 DEF CancelGetOrder, AfterOrder
    <2>3. CASE CancelGetShipment(c)
        BY <2>3 DEF CancelGetShipment
    <2>4. CASE CancelOrder(c)
        BY <2>4, RequestType DEF CancelOrder, AfterOrder
    <2>5. CASE CancelShipment(c)
        BY <2>5 DEF CancelShipment
    <2>6. CASE CancelWrite(c)
        <3>1. orders[req[c].order].total \in Nat
            BY RequestType
        <3>2. refunds' \subseteq Refund /\ reserved' \in [Orders -> Nat]
            BY <2>6, <3>1, RecordType DEF CancelWrite, RefundReason
        <3>3. orders' \in [Orders -> Order]
            <4>1. ASSUME Cancelled(req[c].order) PROVE orders' \in [Orders -> Order]
                BY <4>1, RequestType DEF Cancelled, OrderStatus, Order
            <4> QED BY <2>6, <4>1 DEF CancelWrite
        <3>4. pc' \in [Calls -> {"idle"} \union Running \union Final]
            BY <2>6 DEF CancelWrite
        <3>5. seen' \in [Calls -> OrderStatus \union {"none"}]
            BY <2>6 DEF CancelWrite
        <3> QED BY <2>6, <3>2, <3>3, <3>4, <3>5 DEF CancelWrite
    <2> QED BY <1>3, <2>2, <2>3, <2>4, <2>5, <2>6 DEF CancelStep
<1>4. ASSUME NEW c \in Calls, Answer(c) PROVE TypeOK'
    BY <1>4 DEF Answer
<1>5. ASSUME NEW c \in Calls, Crash(c) PROVE TypeOK'
    BY <1>5 DEF Crash, RefundReason
<1>6. ASSUME NEW o \in Orders, AdvanceOrder(o) PROVE TypeOK'
    BY <1>6 DEF AdvanceOrder, NextOrderStatus, OrderStatus, Order
<1>7. ASSUME NEW o \in Orders, UpdateShipment(o) PROVE TypeOK'
    BY <1>7 DEF UpdateShipment, NextShipmentStatus, ShipmentView, ShipmentStatus
<1>8. CASE AllAnswered
    BY <1>8, <1>1 DEF AllAnswered
<1> QED BY <1>0, <1>1, <1>2, <1>3, <1>4, <1>5, <1>6, <1>7, <1>8 DEF Next

-----------------------------------------------------------------------------
(***************************************************************************)
(* What any step leaves alone.                                             *)
(***************************************************************************)

\* Owners, totals and the requests behind rows never change, rows and
\* cancellations stay, and neither evidence is ever taken back.
Monotone ==
    /\ \A r \in refunds : r.id \in Calls => req'[r.id] = req[r.id]
    /\ refunds \subseteq refunds'
    /\ \A o \in Orders :
          /\ orders'[o].customer = orders[o].customer
          /\ orders'[o].total = orders[o].total
          /\ orders[o].status = "cancelled" => orders'[o].status = "cancelled"
          /\ Arrived(o) => Arrived(o)'
          /\ Lost(o) => Lost(o)'

\* A step of call c, seen from the others: new rows are c's.
Only(c) ==
    /\ \A d \in Calls \ {c} :
          /\ req'[d] = req[d] /\ pc'[d] = pc[d]
          /\ seen'[d] = seen[d] /\ reason'[d] = reason[d]
    /\ \A r \in refunds' \ refunds : r.id = c

LEMMA CancelledMonotone ==
    ASSUME TypeOK, NEW o \in Orders, Cancelled(o), UNCHANGED <<req, shipments>>,
           refunds \subseteq refunds'
    PROVE  Monotone
BY DEF TypeOK, Cancelled, Monotone, Arrived, Lost, Order

LEMMA CallShape ==
    ASSUME TypeOK, NEW c \in Calls,
           IssueStep(c) \/ CancelStep(c) \/ Answer(c) \/ Crash(c)
    PROVE  Monotone /\ Only(c) /\ req' = req
<1>r. req' = req
    BY DEF IssueStep, CancelStep, IssueGetOrder,
          IssueGetShipment, IssueOrder, IssueShipment, IssueExisting, IssueReserved,
          IssueInsert, CancelGetOrder, CancelGetShipment, CancelOrder,
          CancelShipment, CancelWrite, Answer, Crash
<1> USE <1>r
<1> USE DEF TypeOK, table, Goto, Remember, Derive
<1>1. CASE UNCHANGED table
    <2>1. Monotone
        BY <1>1 DEF Monotone, Arrived, Lost, IssueStep, CancelStep, IssueGetOrder,
              IssueGetShipment, IssueOrder, IssueShipment, IssueExisting, IssueReserved,
              IssueInsert, CancelGetOrder, CancelGetShipment, CancelOrder,
              CancelShipment, CancelWrite, Answer, Crash
    <2>2. \A d \in Calls \ {c} :
             pc'[d] = pc[d] /\ seen'[d] = seen[d] /\ reason'[d] = reason[d]
        BY DEF IssueStep, CancelStep, IssueGetOrder,
              IssueGetShipment, IssueOrder, IssueShipment, IssueExisting, IssueReserved,
              IssueInsert, CancelGetOrder, CancelGetShipment, CancelOrder,
              CancelShipment, CancelWrite, Answer, Crash
    <2> QED BY <1>1, <2>1, <2>2 DEF Only
<1>2. CASE IssueInsert(c)
    <2>1. refunds \subseteq refunds' /\ \A r \in refunds' \ refunds : r.id = c
        BY <1>2 DEF IssueInsert, Record
    <2> QED BY <1>2, <2>1 DEF IssueInsert, Monotone, Only, Arrived, Lost
<1>3. CASE CancelWrite(c)
    <2>1. refunds \subseteq refunds' /\ \A r \in refunds' \ refunds : r.id = c
        BY <1>3 DEF CancelWrite, Record
    <2>2. Only(c)
        BY <1>3, <2>1 DEF CancelWrite, Only
    <2>3. req' = req /\ shipments' = shipments
        BY <1>3 DEF CancelWrite
    <2>4. CASE UNCHANGED orders
        BY <2>1, <2>2, <2>3, <2>4 DEF Monotone, Arrived, Lost
    <2>5. CASE Cancelled(req[c].order)
        BY <2>1, <2>2, <2>3, <2>5, CancelledMonotone, RequestType
    <2>6. UNCHANGED orders \/ Cancelled(req[c].order)
        BY <1>3 DEF CancelWrite
    <2> QED BY <2>4, <2>5, <2>6
<1> QED BY <1>1, <1>2, <1>3 DEF IssueStep, CancelStep, IssueGetOrder,
              IssueGetShipment, IssueOrder, IssueShipment, IssueExisting, IssueReserved,
              CancelGetOrder, CancelGetShipment, CancelOrder,
              CancelShipment, Answer, Crash

LEMMA BeginShape ==
    ASSUME TypeOK, CallInv, NEW c \in Calls, NEW q \in Requests, Begin(c, q)
    PROVE  Monotone /\ Only(c) /\ UNCHANGED table
<1>1. pc[c] = "idle" /\ UNCHANGED table
    BY DEF Begin, IssueBegin, CancelBegin, Arrive
<1>2. \A r \in refunds : r.id # c
    BY <1>1 DEF CallInv, Established
<1>3. \A d \in Calls \ {c} :
         req'[d] = req[d] /\ pc'[d] = pc[d] /\ seen'[d] = seen[d] /\ reason'[d] = reason[d]
    BY DEF TypeOK, Begin, IssueBegin, CancelBegin, Arrive, Goto
<1> QED BY <1>1, <1>2, <1>3 DEF Monotone, Only, table, Arrived, Lost

LEMMA EnvironmentShape ==
    ASSUME TypeOK, NEW o \in Orders, AdvanceOrder(o) \/ UpdateShipment(o)
    PROVE  Monotone /\ UNCHANGED <<refunds, reserved, req, pc, seen, reason>>
<1> USE DEF TypeOK, Monotone, Arrived, Lost
<1>1. CASE AdvanceOrder(o)
    BY <1>1 DEF AdvanceOrder, NextOrderStatus, OrderStatus, Order
<1>2. CASE UpdateShipment(o)
    BY <1>2 DEF UpdateShipment, NextShipmentStatus, ShipmentView, ShipmentStatus
<1> QED BY <1>1, <1>2

\* What a call has established stays true while others move.
LEMMA OthersKeep ==
    ASSUME TypeOK, Monotone, NEW d \in Calls, Established(d),
           req'[d] = req[d], pc'[d] = pc[d], seen'[d] = seen[d], reason'[d] = reason[d],
           \A r \in refunds' \ refunds : r.id # d
    PROVE  Established(d)'
BY RequestType DEF Monotone, Established, Owns

-----------------------------------------------------------------------------
(***************************************************************************)
(* The invariant of Spec, call by call and row by row.                     *)
(***************************************************************************)

\* The conjuncts of AnswersAreTrue for call c.
Told(c) ==
    LET o == req[c].order
    IN  /\ pc[c] \in {"committed", "ok"} =>
             IF req[c].kind = "cancel"
             THEN orders[o].status = "cancelled"
             ELSE \E r \in ReservedRows(o) :
                     r.amount = req[c].amount /\ r.reason \in {"lost", "damaged"}
        /\ pc[c] \in Refusal => \A r \in refunds : r.id # c

\* What the properties say of row r.
Sound(r) ==
    LET q == req[r.id]
    IN  /\ r.reason = "reversal" =>
              orders[r.order].status = "cancelled" /\ r.amount = orders[r.order].total
        /\ r.reason = "lost" => Lost(r.order)
        /\ r.reason = "damaged" => Arrived(r.order)
        /\ r.id # Seed =>
              /\ q.order = r.order /\ orders[r.order].customer = q.customer
              /\ r.reason = "reversal" <=> q.kind = "cancel"
              /\ q.kind = "issue" =>
                    /\ q.amount = r.amount /\ r.amount % Cent = 0
                    /\ r.reason = "damaged" => q.damaged
                    /\ NeedsApproval(q.damaged, q.amount) => q.approved

Inv ==
    /\ TypeOK
    /\ CallInv
    /\ \A c \in Calls : Told(c)
    /\ \A r \in refunds : Sound(r)

LEMMA OthersToldKeep ==
    ASSUME TypeOK, Monotone, NEW d \in Calls, Told(d), req'[d] = req[d], pc'[d] = pc[d],
           \A r \in refunds' \ refunds : r.id # d
    PROVE  Told(d)'
BY RequestType DEF Monotone, Told, ReservedRows, IsReserved

LEMMA OldRowsKeep ==
    ASSUME TypeOK, Monotone, NEW r \in refunds, Sound(r)
    PROVE  Sound(r)'
<1> r.order \in Orders /\ r.id \in Calls \union {Seed}
    BY DEF TypeOK, Refund
<1> QED BY DEF Monotone, Sound

LEMMA InitInv == Init => Inv
<1> SUFFICES ASSUME Init PROVE Inv
    OBVIOUS
<1>1. TypeOK
    BY InitType
<1>2. \A r \in refunds : r.id = Seed /\ r.reason = "other"
    BY DEF Init, SeedRow
<1>3. ASSUME NEW c \in Calls PROVE Established(c) /\ Told(c)
    <2>1. pc[c] = "idle" /\ \A r \in refunds : r.id # c
        BY <1>2, SeedAssumption DEF Init
    <2> QED BY <2>1 DEF Established, Told, IssuePc, CancelPc, IssueInTx, CancelInTx, Owning,
              Deciding, Refusal
<1>4. ASSUME NEW r \in refunds PROVE Sound(r)
    BY <1>2 DEF Sound
<1> QED BY <1>1, <1>3, <1>4 DEF Inv, CallInv

\* A row that call c adds is sound when this is.
LEMMA NewRowSound ==
    ASSUME NEW c \in Calls, NEW a, NEW w, Record(c, a, w),
           \A r \in refunds : Sound(r)',
           \A r : r = [id |-> c, order |-> req[c].order, amount |-> a, reason |-> w,
                      status |-> "completed"] => Sound(r)'
    PROVE  \A r \in refunds' : Sound(r)'
BY DEF Record

\* A step of an issue call does its part, and every row stays sound.
LEMMA IssueKeeps ==
    ASSUME Inv, NEW c \in Calls, IssueStep(c), Monotone, Only(c), req' = req,
           \A r \in refunds : Sound(r)'
    PROVE  Established(c)' /\ Told(c)' /\ \A r \in refunds' : Sound(r)'
<1> USE DEF Inv, CallInv, table, Goto, Remember, Derive, Established, Told,
            IssuePc, CancelPc, IssueInTx, CancelInTx, Owning, Deciding, Refusal
<1>t. c \in DOMAIN pc /\ c \in DOMAIN seen /\ c \in DOMAIN reason
    BY DEF TypeOK
<1>q. req' = req /\ req[c].order \in Orders /\ (req[c].kind = "issue" <=> req[c].kind # "cancel")
    BY RequestType DEF Monotone, Request
<1>2. CASE IssueGetOrder(c)
    BY <1>2, <1>t, <1>q DEF IssueGetOrder, Owns
<1>3. CASE IssueGetShipment(c)
    BY <1>3, <1>t, <1>q DEF IssueGetShipment, Owns
<1>4. CASE IssueOrder(c)
    BY <1>4, <1>t, <1>q DEF IssueOrder, Owns, Arrived
<1>5. CASE IssueShipment(c)
    BY <1>5, <1>t, <1>q DEF IssueShipment, Owns, Eligible, Delivered, ReasonFor, Arrived, Lost
<1>6. CASE IssueExisting(c)
    BY <1>6, <1>t, <1>q DEF IssueExisting, Owns, Matching, Arrived, Lost, ReservedRows, IsReserved
<1>7. CASE IssueReserved(c)
    BY <1>7, <1>t, <1>q DEF IssueReserved, Owns, Arrived, Lost
<1>8. CASE IssueInsert(c)
    <2> DEFINE new == [id |-> c, order |-> req[c].order, amount |-> req[c].amount,
                       reason |-> reason[c], status |-> "completed"]
    <2>1. ValidAmount(req[c].amount) /\ Owns(c) /\ req[c].kind = "issue"
        BY <1>8 DEF IssueInsert
    <2>2. ASSUME NEW r, r = new PROVE Sound(r)'
        BY <1>8, <1>q, <2>1, <2>2, SeedAssumption
           DEF IssueInsert, Sound, Owns, ValidAmount, Monotone, Arrived, Lost
    <2>3. \A r \in refunds' : Sound(r)'
        BY <1>8, <2>2, NewRowSound DEF IssueInsert
    <2>4. new \in ReservedRows(req[c].order)'
        BY <1>8, <1>q DEF IssueInsert, Record, ReservedRows, IsReserved, ReservedStatuses
    <2>5. pc'[c] = "committed" /\ reason[c] \in {"lost", "damaged"}
        BY <1>8, <1>t DEF IssueInsert
    <2> QED BY <1>q, <2>1, <2>3, <2>4, <2>5
<1> QED BY <1>2, <1>3, <1>4, <1>5, <1>6, <1>7, <1>8 DEF IssueStep

\* The same of a cancel call.
LEMMA CancelKeeps ==
    ASSUME Inv, NEW c \in Calls, CancelStep(c), Monotone, Only(c), req' = req,
           \A r \in refunds : Sound(r)'
    PROVE  Established(c)' /\ Told(c)' /\ \A r \in refunds' : Sound(r)'
<1> USE DEF Inv, CallInv, table, Goto, Remember, Derive, Established, Told,
            IssuePc, CancelPc, IssueInTx, CancelInTx, Owning, Deciding, Refusal
<1>t. c \in DOMAIN pc /\ c \in DOMAIN seen /\ c \in DOMAIN reason
    BY DEF TypeOK
<1>q. req' = req /\ req[c].order \in Orders /\ (req[c].kind = "issue" <=> req[c].kind # "cancel")
    BY RequestType DEF Monotone, Request
<1>2. CASE CancelGetOrder(c)
    <2>1. \/ pc'[c] \in {"not_found", "refused"}
          \/ pc'[c] = "ok" /\ orders[req[c].order].status = "cancelled"
          \/ pc'[c] = "cancel_get_shipment" /\ Owns(c)
        BY <1>2, <1>t DEF CancelGetOrder, AfterOrder, CancellableStatuses
    <2>2. req[c].kind = "cancel" /\ (\A r \in refunds : r.id # c) /\ UNCHANGED table
        BY <1>2 DEF CancelGetOrder
    <2>3. Told(c)' /\ \A r \in refunds' : Sound(r)'
        BY <1>q, <2>1, <2>2
    <2>4. Established(c)'
        BY <1>q, <2>1, <2>2 DEF Owns
    <2> QED BY <2>3, <2>4
<1>3. CASE CancelGetShipment(c)
    BY <1>3, <1>t, <1>q DEF CancelGetShipment, Owns
<1>4. CASE CancelOrder(c)
    BY <1>4, <1>t, <1>q DEF CancelOrder, AfterOrder, Owns
<1>5. CASE CancelShipment(c)
    BY <1>5, <1>t, <1>q DEF CancelShipment, Owns
<1>6. CASE CancelWrite(c)
    <2> DEFINE o == req[c].order
    <2> DEFINE new == [id |-> c, order |-> o, amount |-> orders[o].total,
                       reason |-> "reversal", status |-> "completed"]
    <2>1. Owns(c) /\ req[c].kind = "cancel" /\ \A r \in refunds : r.id # c
        BY <1>6 DEF CancelWrite
    <2>2. CASE pc'[c] = "db_error" /\ refunds' = refunds
        BY <1>q, <2>1, <2>2
    <2>3. CASE pc'[c] = "committed" /\ Cancelled(o)
        <3>1. orders'[o].status = "cancelled" /\ orders'[o].total = orders[o].total
            BY <1>q, <2>3 DEF Cancelled, TypeOK, Order
        <3>2. ASSUME NEW r, r = new PROVE Sound(r)'
            BY <1>q, <2>1, <3>1, <3>2, SeedAssumption DEF Sound, Owns, Monotone
        <3>3. \A r \in refunds' : Sound(r)'
            BY <1>6, <3>2, NewRowSound DEF CancelWrite
        <3> QED BY <1>q, <2>1, <2>3, <3>1, <3>3
    <2> QED BY <1>6, <1>t, <2>2, <2>3 DEF CancelWrite
<1> QED BY <1>2, <1>3, <1>4, <1>5, <1>6 DEF CancelStep

LEMMA NextInv == Inv /\ [Next]_vars => Inv'
<1> SUFFICES ASSUME Inv, [Next]_vars PROVE Inv'
    OBVIOUS
<1> TypeOK /\ TypeOK'
    BY NextType DEF Inv
<1>0. ASSUME NEW c \in Calls, NEW q \in Requests, Begin(c, q) PROVE Inv'
    <2>1. Monotone /\ Only(c) /\ UNCHANGED table
        BY <1>0, BeginShape DEF Inv
    <2>2. \A r \in refunds' : Sound(r)'
        BY <2>1, OldRowsKeep DEF Inv, table
    <2>3. Established(c)' /\ Told(c)'
        BY <1>0, <2>1 DEF Inv, CallInv, Established, Told, TypeOK, Begin, IssueBegin, CancelBegin,
           Arrive, Goto, table, IssuePc, CancelPc, IssueInTx, CancelInTx, Owning, Deciding, Refusal
    <2>4. ASSUME NEW d \in Calls, d # c PROVE Established(d)' /\ Told(d)'
        BY <2>1, <2>4, OthersKeep, OthersToldKeep DEF Inv, CallInv, Only
    <2> QED BY <2>2, <2>3, <2>4 DEF Inv, CallInv
<1>1. ASSUME NEW c \in Calls, IssueStep(c) \/ CancelStep(c) \/ Answer(c) \/ Crash(c)
      PROVE  Inv'
    <2>1. Monotone /\ Only(c) /\ req' = req
        BY <1>1, CallShape
    <2>2. \A r \in refunds : Sound(r)'
        BY <2>1, OldRowsKeep DEF Inv
    <2>3. Established(c)' /\ Told(c)' /\ \A r \in refunds' : Sound(r)'
        <3> USE DEF Inv, CallInv, Established, Told, Goto, Remember, Derive, table, Running,
                    IssuePc, CancelPc, IssueInTx, CancelInTx, Owning, Deciding, Refusal
        <3>1. CASE IssueStep(c)
            BY <2>1, <2>2, <3>1, IssueKeeps
        <3>2. CASE CancelStep(c)
            BY <2>1, <2>2, <3>2, CancelKeeps
        <3>3. CASE Answer(c)
            BY <2>2, <3>3 DEF Answer, TypeOK, ReservedRows
        <3>4. CASE Crash(c)
            BY <2>2, <3>4 DEF Crash, TypeOK
        <3> QED BY <1>1, <3>1, <3>2, <3>3, <3>4
    <2>4. ASSUME NEW d \in Calls, d # c PROVE Established(d)' /\ Told(d)'
        BY <2>1, <2>4, OthersKeep, OthersToldKeep DEF Inv, CallInv, Only
    <2> QED BY <2>3, <2>4 DEF Inv, CallInv
<1>2. ASSUME NEW o \in Orders, AdvanceOrder(o) \/ UpdateShipment(o) PROVE Inv'
    <2>1. Monotone /\ UNCHANGED <<refunds, reserved, req, pc, seen, reason>>
        BY <1>2, EnvironmentShape
    <2>2. \A r \in refunds' : Sound(r)'
        BY <2>1, OldRowsKeep DEF Inv
    <2>3. ASSUME NEW d \in Calls PROVE Established(d)' /\ Told(d)'
        BY <2>1, OthersKeep, OthersToldKeep DEF Inv, CallInv
    <2> QED BY <2>2, <2>3 DEF Inv, CallInv
<1>3. CASE UNCHANGED vars
    BY <1>3 DEF vars, Inv, CallInv, Established, Told, Sound, Owns, Arrived, Lost, ReservedRows
<1> QED BY <1>0, <1>1, <1>2, <1>3 DEF Next, AllAnswered

LEMMA SpecInv == Spec => []Inv
<1> QED BY InitInv, NextInv, PTL DEF Spec

\* Every table and local holds a value of its type: in particular no row with
\* an amount that the CHECK constraint forbids is ever written.
THEOREM TypeCorrect == Spec => []TypeOK
<1>1. Inv => TypeOK
    BY DEF Inv
<1> QED BY <1>1, SpecInv, PTL

\* A caller's answer agrees with the tables for good, in every interleaving and
\* whichever calls die.
THEOREM AnswersHold == Spec => []AnswersAreTrue
<1>1. Inv => AnswersAreTrue
    BY DEF Inv, Told, AnswersAreTrue
<1> QED BY <1>1, SpecInv, PTL

\* Crashes never separate a payment reversal from its cancellation.
THEOREM ReversalHolds == Spec => []ReversalWithCancellation
<1>1. Inv => ReversalWithCancellation
    BY DEF Inv, Sound, ReversalWithCancellation
<1> QED BY <1>1, SpecInv, PTL

\* No refund rests on evidence that was not there.
THEOREM EvidenceHolds == Spec => []RefundHasEvidence
<1>1. Inv => RefundHasEvidence
    BY DEF Inv, Sound, RefundHasEvidence, Lost, Arrived
<1> QED BY <1>1, SpecInv, PTL

\* No refund is written without the owner's request and the approval it needs.
THEOREM AuthorisationHolds == Spec => []RefundWasAuthorised
<1>1. Inv => RefundWasAuthorised
    BY DEF Inv, Sound, RefundWasAuthorised
<1> QED BY <1>1, SpecInv, PTL

-----------------------------------------------------------------------------
(***************************************************************************)
(* The invariant of SerialSpec.  When transactions on one order exclude    *)
(* each other, what one has read of the refunds still holds when it        *)
(* writes; what it has read of the shipment holds because a shipment that  *)
(* justified a refund never becomes one that lets an order be cancelled.   *)
(***************************************************************************)
SerialCall(c) ==
    LET o == req[c].order
    IN  /\ pc[c] \in {"issue_reserved", "issue_insert"} =>
              Matching(o, req[c].amount, reason[c]) = {}
        /\ pc[c] = "issue_insert" => req[c].amount + reserved[o] <= orders[o].total
        /\ pc[c] \in CancelInTx => orders[o].status # "cancelled"
        /\ pc[c] = "cancel_shipment" => (ReservedRows(o) # {} => Lost(o))
        /\ pc[c] = "cancel_write" => ReservedRows(o) = {}

SerialOrder(o) ==
    /\ reserved[o] <= orders[o].total
    /\ \A r \in ReservedRows(o) :
          r.amount <= reserved[o] /\ (r.reason = "reversal" => reserved[o] = orders[o].total)
    /\ ReservedRows(o) = {} => reserved[o] = 0
    /\ ReservedRows(o) # {} => Arrived(o) \/ Lost(o)
    /\ \A q, r \in ReservedRows(o) :
          /\ q.amount = r.amount /\ q.reason = r.reason => q = r
          /\ q.reason = "reversal" => r = q

SerialInv ==
    /\ Inv
    /\ Exclusive
    /\ \A c \in Calls : SerialCall(c)
    /\ \A o \in Orders : SerialOrder(o)

LEMMA InitSerial == Init => SerialInv
<1> SUFFICES ASSUME Init PROVE SerialInv
    OBVIOUS
<1>1. Inv
    BY InitInv
<1>2. ASSUME NEW c \in Calls PROVE ~InTx(c) /\ SerialCall(c)
    BY DEF Init, InTx, SerialCall, IssueInTx, CancelInTx
<1>3. ASSUME NEW o \in Orders PROVE SerialOrder(o)
    <2>1. \A q, r \in ReservedRows(o) : q = r
        BY DEF Init, ReservedRows
    <2>2. \A r \in ReservedRows(o) :
             /\ orders[o].status = "delivered" /\ r.amount <= orders[o].total
             /\ r.reason = "other"
        BY DEF Init, ReservedRows, SeedRow
    <2>3. CASE ReservedRows(o) = {}
        <3>1. reserved[o] = 0
            BY <2>3 DEF Init
        <3>2. orders[o].total \in Nat
            BY <1>1, TotalsAssumption DEF Inv, TypeOK, Order
        <3> QED BY <2>3, <3>1, <3>2 DEF SerialOrder
    <2>4. CASE ReservedRows(o) # {}
        <3>1. PICK r \in ReservedRows(o) : TRUE
            BY <2>4
        <3>2. reserved[o] = r.amount
            BY <2>1, <2>4, <3>1 DEF Init
        <3>3. r.amount \in Nat
            BY <1>1, <3>1 DEF Inv, TypeOK, Refund, ReservedRows
        <3> QED BY <2>1, <2>2, <2>4, <3>1, <3>2, <3>3 DEF SerialOrder, Arrived
    <2> QED BY <2>3, <2>4
<1> QED BY <1>1, <1>2, <1>3 DEF SerialInv, Exclusive

\* A call that writes is inside its transaction and writes to its order only.
Quiet(o) ==
    /\ ReservedRows(o)' = ReservedRows(o)
    /\ reserved'[o] = reserved[o]
    /\ orders'[o].status = "cancelled" => orders[o].status = "cancelled"

LEMMA WritesItsOrder ==
    ASSUME TypeOK, NEW c \in Calls,
           IssueStep(c) \/ CancelStep(c) \/ Answer(c) \/ Crash(c)
    PROVE  \/ \A o \in Orders : Quiet(o)
           \/ /\ InTx(c) /\ (IssueInsert(c) \/ CancelWrite(c))
              /\ \A o \in Orders \ {req[c].order} : Quiet(o)
<1> USE DEF TypeOK, Quiet, ReservedRows
<1>1. CASE UNCHANGED table
    BY <1>1 DEF table
<1>2. CASE IssueInsert(c)
    BY <1>2 DEF IssueInsert, Record, InTx, IssueInTx
<1>3. CASE CancelWrite(c)
    <2>1. InTx(c)
        BY <1>3 DEF CancelWrite, InTx, CancelInTx
    <2>2. ASSUME NEW o \in Orders \ {req[c].order} PROVE Quiet(o)
        BY <1>3 DEF CancelWrite, Record, Cancelled
    <2> QED BY <1>3, <2>1, <2>2
<1> QED BY <1>1, <1>2, <1>3 DEF IssueStep, CancelStep, IssueGetOrder,
              IssueGetShipment, IssueOrder, IssueShipment, IssueExisting, IssueReserved,
              CancelGetOrder, CancelGetShipment, CancelOrder,
              CancelShipment, Answer, Crash

LEMMA QuietCall ==
    ASSUME TypeOK, Monotone, NEW d \in Calls, SerialCall(d),
           req'[d] = req[d], pc'[d] = pc[d], reason'[d] = reason[d],
           InTx(d) => Quiet(req[d].order)
    PROVE  SerialCall(d)'
BY RequestType DEF Monotone, SerialCall, Quiet, Matching, InTx, IssueInTx, CancelInTx

LEMMA QuietOrder ==
    ASSUME TypeOK, Monotone, NEW o \in Orders, SerialOrder(o), Quiet(o)
    PROVE  SerialOrder(o)'
BY DEF Monotone, SerialOrder, Quiet

\* The rows of its order after call c has recorded one.
LEMMA RecordRows ==
    ASSUME TypeOK, NEW c \in Calls, NEW a, NEW w, Record(c, a, w),
           NEW p, p = req[c].order
    PROVE  /\ ReservedRows(p)' = ReservedRows(p) \union
                 {[id |-> c, order |-> p, amount |-> a, reason |-> w, status |-> "completed"]}
           /\ reserved'[p] = reserved[p] + a
BY RequestType DEF TypeOK, Record, ReservedRows, IsReserved, ReservedStatuses

\* The insertion keeps the order's money straight.
LEMMA InsertKeepsOrder ==
    ASSUME SerialInv, NEW c \in Calls, IssueInsert(c), Monotone, req' = req
    PROVE  SerialOrder(req[c].order)'
<1> DEFINE o == req[c].order
<1> DEFINE a == req[c].amount
<1> DEFINE new == [id |-> c, order |-> o, amount |-> a, reason |-> reason[c],
                   status |-> "completed"]
<1> SUFFICES ASSUME NEW p, p = o PROVE SerialOrder(p)'
    OBVIOUS
<1>1. p \in Orders /\ orders[p].total \in Nat /\ reserved[p] \in Nat /\ SerialOrder(p)
    BY RequestType DEF SerialInv, Inv, TypeOK
<1>2. ReservedRows(p)' = ReservedRows(p) \union {new} /\ reserved'[p] = reserved[p] + a
    BY RecordRows DEF SerialInv, Inv, IssueInsert
<1>3. a \in Nat \ {0} /\ (Lost(p) \/ Arrived(p)) /\ reason[c] \in {"lost", "damaged"}
    BY RequestType DEF SerialInv, Inv, CallInv, Established, IssueInsert, IssuePc, IssueInTx,
       Deciding, ValidAmount, Request
<1>4. a + reserved[p] <= orders[p].total /\ Matching(p, a, reason[c]) = {}
    BY DEF SerialInv, SerialCall, IssueInsert
<1>5. \A r \in ReservedRows(p) : r.amount \in Nat /\ r.reason # "reversal"
    BY <1>1, <1>3, <1>4 DEF SerialOrder, SerialInv, Inv, TypeOK, ReservedRows, Refund
<1>6. orders'[p].total = orders[p].total /\ (Lost(p) \/ Arrived(p))'
    BY <1>1, <1>3 DEF Monotone
<1>7. \A q, r \in ReservedRows(p)' : q.amount = r.amount /\ q.reason = r.reason => q = r
    BY <1>1, <1>2, <1>4 DEF SerialOrder, Matching
<1>8. \A r \in ReservedRows(p)' : r.reason # "reversal" /\ r.amount <= reserved'[p]
    BY <1>1, <1>2, <1>3, <1>5 DEF SerialOrder
<1>9. ReservedRows(p)' # {}
    BY <1>2
<1> HIDE DEF o, a, new
<1>10. reserved'[p] <= orders'[p].total
    BY <1>1, <1>2, <1>3, <1>4, <1>6
<1> QED BY <1>6, <1>7, <1>8, <1>9, <1>10 DEF SerialOrder

\* So does the cancellation, which finds no refund to get in the way of.
LEMMA CancelKeepsOrder ==
    ASSUME SerialInv, NEW c \in Calls, CancelWrite(c), Monotone, req' = req
    PROVE  SerialOrder(req[c].order)'
<1> SUFFICES ASSUME NEW p, p = req[c].order PROVE SerialOrder(p)'
    OBVIOUS
<1>1. p \in Orders /\ orders[p].total \in Nat /\ SerialOrder(p)
    BY RequestType DEF SerialInv, Inv
<1>2. ReservedRows(p) = {} /\ reserved[p] = 0
    BY <1>1 DEF SerialInv, SerialCall, CancelWrite, SerialOrder
<1>3. orders'[p].total = orders[p].total
    BY <1>1 DEF Monotone
<1>4. CASE UNCHANGED <<refunds, reserved>>
    <2>1. ReservedRows(p)' = {} /\ reserved'[p] = 0
        BY <1>2, <1>4 DEF ReservedRows
    <2> QED BY <1>1, <1>3, <2>1 DEF SerialOrder
<1>5. CASE Cancelled(p) /\ Record(c, orders[p].total, "reversal")
    <2> DEFINE new == [id |-> c, order |-> p, amount |-> orders[p].total,
                       reason |-> "reversal", status |-> "completed"]
    <2>1. ReservedRows(p)' = {new} /\ reserved'[p] = orders[p].total
        BY <1>1, <1>2, <1>5, RecordRows DEF SerialInv, Inv
    <2>2. Arrived(p)'
        BY <1>1, <1>5 DEF Cancelled, Arrived, SerialInv, Inv, TypeOK, Order
    <2>3. \A r \in ReservedRows(p)' : r = new
        BY <2>1
    <2>4. new.amount = orders[p].total
        OBVIOUS
    <2>5. ReservedRows(p)' # {}
        BY <2>1
    <2>6. reserved'[p] = orders'[p].total /\ orders'[p].total \in Nat
        BY <1>1, <1>3, <2>1
    <2>7. \A r \in ReservedRows(p)' : r.amount <= reserved'[p]
        BY <1>1, <2>1, <2>3, <2>4
    <2> HIDE DEF new
    <2> QED BY <2>2, <2>3, <2>5, <2>6, <2>7 DEF SerialOrder
<1> QED BY <1>4, <1>5 DEF CancelWrite

\* What call c has read of the refunds is what it needs next.
LEMMA CallKeepsSerial ==
    ASSUME SerialInv, NEW c \in Calls, Monotone, req' = req,
           IssueStep(c) \/ CancelStep(c) \/ Answer(c) \/ Crash(c)
    PROVE  SerialCall(c)'
<1> USE DEF SerialCall, Goto, Remember, Derive, table, IssueInTx, CancelInTx
<1>1. /\ TypeOK /\ req' = req /\ req[c].order \in Orders
      /\ SerialCall(c) /\ SerialOrder(req[c].order)
      /\ orders[req[c].order].total \in Nat /\ reserved[req[c].order] \in Nat
      /\ req[c].amount \in Int
    BY RequestType DEF SerialInv, Inv, Monotone, TypeOK, Request
<1>t. c \in DOMAIN pc /\ c \in DOMAIN reason
    BY <1>1 DEF TypeOK
<1>2. CASE IssueExisting(c)
    BY <1>1, <1>2, <1>t DEF IssueExisting, Matching, ReservedRows
<1>3. CASE IssueReserved(c)
    <2>1. pc'[c] \in {"refused", "issue_insert"} /\ UNCHANGED table
        BY <1>3, <1>t DEF IssueReserved
    <2>2. ASSUME pc'[c] = "issue_insert"
          PROVE  /\ reason' = reason
                 /\ req[c].amount <= Refundable(orders[req[c].order].total, reserved[req[c].order])
        BY <1>3, <1>t, <2>2 DEF IssueReserved
    <2>3. ASSUME pc'[c] = "issue_insert"
          PROVE  req[c].amount + reserved[req[c].order] <= orders[req[c].order].total
        BY <1>1, <2>2, <2>3 DEF Refundable, SerialOrder
    <2>4. pc[c] = "issue_reserved"
        BY <1>3 DEF IssueReserved
    <2> QED BY <1>1, <2>1, <2>2, <2>3, <2>4 DEF Matching, ReservedRows
<1>4. CASE CancelOrder(c)
    <2>1. ASSUME pc'[c] \in CancelInTx
          PROVE  pc'[c] = "cancel_shipment" /\ orders[req[c].order].status \in CancellableStatuses
        BY <1>4, <1>t, <2>1 DEF CancelOrder, AfterOrder
    <2>2. UNCHANGED table
        BY <1>4 DEF CancelOrder
    <2>3. pc'[c] \notin {"issue_reserved", "issue_insert"}
        BY <1>4, <1>t DEF CancelOrder, AfterOrder
    <2> QED BY <1>1, <2>1, <2>2, <2>3
            DEF CancellableStatuses, SerialOrder, Arrived, Lost, ReservedRows
<1>5. CASE CancelShipment(c)
    BY <1>1, <1>5, <1>t DEF CancelShipment, Lost, StartedShipmentStatuses, ReservedRows
<1>6. CASE ~(IssueExisting(c) \/ IssueReserved(c) \/ CancelOrder(c) \/ CancelShipment(c))
    <2>1. pc'[c] \notin {"issue_reserved", "issue_insert", "cancel_shipment", "cancel_write"}
        BY <1>6, <1>t DEF IssueStep, CancelStep, IssueGetOrder,
              IssueGetShipment, IssueOrder, IssueShipment, IssueInsert,
              CancelGetOrder, CancelGetShipment, CancelWrite, AfterOrder,
              Answer, Crash
    <2> QED BY <2>1
<1> QED BY <1>2, <1>3, <1>4, <1>5, <1>6

LEMMA NextSerial == SerialInv /\ [Next /\ Exclusive']_vars => SerialInv'
<1> SUFFICES ASSUME SerialInv, [Next /\ Exclusive']_vars PROVE SerialInv'
    OBVIOUS
<1>1. Inv' /\ TypeOK
    BY NextInv DEF SerialInv, Inv
<1>0. ASSUME NEW c \in Calls, NEW q \in Requests, Begin(c, q), Exclusive' PROVE SerialInv'
    <2>1. Monotone /\ Only(c) /\ UNCHANGED table
        BY <1>0, BeginShape DEF SerialInv, Inv
    <2>2. ASSUME NEW o \in Orders PROVE Quiet(o)
        BY <2>1 DEF Quiet, table, ReservedRows
    <2>3. SerialCall(c)'
        BY <1>0, <1>1 DEF SerialCall, TypeOK, Begin, IssueBegin, CancelBegin, Arrive, Goto, CancelInTx
    <2>4. ASSUME NEW d \in Calls, d # c PROVE SerialCall(d)'
        BY <1>1, <2>1, <2>2, <2>4, QuietCall, RequestType DEF SerialInv, Only
    <2>5. ASSUME NEW o \in Orders PROVE SerialOrder(o)'
        BY <1>1, <2>1, <2>2, QuietOrder DEF SerialInv
    <2> QED BY <1>0, <1>1, <2>3, <2>4, <2>5 DEF SerialInv
<1>2. ASSUME NEW c \in Calls, Exclusive',
             IssueStep(c) \/ CancelStep(c) \/ Answer(c) \/ Crash(c)
      PROVE  SerialInv'
    <2>1. Monotone /\ Only(c) /\ req' = req
        BY <1>1, <1>2, CallShape
    <2>2. SerialCall(c)'
        BY <1>2, <2>1, CallKeepsSerial
    <2>3. ASSUME NEW d \in Calls, d # c PROVE SerialCall(d)'
        <3>1. InTx(d) => Quiet(req[d].order)
            BY <1>1, <1>2, <2>3, WritesItsOrder, RequestType DEF SerialInv, Exclusive
        <3> QED BY <1>1, <2>1, <2>3, <3>1, QuietCall DEF SerialInv, Only
    <2>4. ASSUME NEW o \in Orders PROVE SerialOrder(o)'
        <3>1. CASE Quiet(o)
            BY <1>1, <2>1, <3>1, QuietOrder DEF SerialInv
        <3>2. CASE ~Quiet(o)
            <4>1. o = req[c].order /\ (IssueInsert(c) \/ CancelWrite(c))
                BY <1>1, <1>2, <3>2, WritesItsOrder
            <4>2. req' = req
                BY <2>1
            <4>3. SerialOrder(req[c].order)'
                BY <2>1, <4>1, InsertKeepsOrder, CancelKeepsOrder
            <4> QED BY <4>1, <4>2, <4>3
        <3> QED BY <3>1, <3>2
    <2> QED BY <1>1, <1>2, <2>2, <2>3, <2>4 DEF SerialInv
<1>3. ASSUME NEW p \in Orders, AdvanceOrder(p) \/ UpdateShipment(p), Exclusive'
      PROVE  SerialInv'
    <2>1. Monotone /\ UNCHANGED <<refunds, reserved, req, pc, seen, reason>>
        BY <1>1, <1>3, EnvironmentShape
    <2>2. ASSUME NEW o \in Orders PROVE Quiet(o)
        BY <1>1, <1>3, <2>1 DEF Quiet, ReservedRows, AdvanceOrder, UpdateShipment,
                                NextOrderStatus, TypeOK, Order
    <2>3. ASSUME NEW d \in Calls PROVE SerialCall(d)'
        BY <1>1, <2>1, <2>2, QuietCall, RequestType DEF SerialInv
    <2>4. ASSUME NEW o \in Orders PROVE SerialOrder(o)'
        BY <1>1, <2>1, <2>2, QuietOrder DEF SerialInv
    <2> QED BY <1>1, <1>3, <2>3, <2>4 DEF SerialInv
<1>4. CASE UNCHANGED vars
    BY <1>1, <1>4 DEF vars, SerialInv, Exclusive, InTx, SerialCall, SerialOrder, Matching,
                      ReservedRows, Arrived, Lost
<1> QED BY <1>0, <1>2, <1>3, <1>4 DEF Next, AllAnswered

LEMMA SerialSpecInv == SerialSpec => []SerialInv
<1> QED BY InitSerial, NextSerial, PTL DEF SerialSpec

\* Two transactions that do not overlap on an order never return more than
\* the order's total, reversals included.
THEOREM OverRefundImpossible == SerialSpec => []NoOverRefund
<1>1. SerialInv => NoOverRefund
    BY DEF SerialInv, SerialOrder, NoOverRefund
<1> QED BY <1>1, SerialSpecInv, PTL

\* Nor do they write the same refund twice.
THEOREM DuplicateImpossible == SerialSpec => []NoDuplicateRefund
<1>1. SerialInv => NoDuplicateRefund
    BY DEF SerialInv, SerialOrder, NoDuplicateRefund
<1> QED BY <1>1, SerialSpecInv, PTL

\* Nor refund a payment that was reversed, or reverse one that was refunded.
THEOREM RefundExcludesReversal == SerialSpec => []NoRefundAndReversal
<1>1. SerialInv => NoRefundAndReversal
    BY DEF SerialInv, SerialOrder, NoRefundAndReversal
<1> QED BY <1>1, SerialSpecInv, PTL

-----------------------------------------------------------------------------
(***************************************************************************)
(* SerialSpec implements the ledger.                                       *)
(***************************************************************************)
GrantOf(r) == [amount |-> r.amount, reason |-> r.reason]

LEMMA InitImplements == Init => Ledger!Init
<1> SUFFICES ASSUME Init PROVE Ledger!Init
    OBVIOUS
<1>1. ASSUME NEW o \in Orders PROVE orders[o].total - reserved[o] \in Nat
    <2>1. orders[o].total \in Nat /\ reserved[o] \in Nat
        BY InitType, TotalsAssumption DEF TypeOK, Order
    <2>2. reserved[o] <= orders[o].total
        BY InitSerial DEF SerialInv, SerialOrder
    <2> QED BY <2>1, <2>2
<1>2. ASSUME NEW o \in Orders, NEW r \in ReservedRows(o)
      PROVE  GrantOf(r) \in [amount : Amounts, reason : RefundReason]
    BY DEF Init, ReservedRows, SeedRow, Amounts, RefundReason, GrantOf
<1> QED BY <1>1, <1>2 DEF Ledger!Init, GrantOf

\* A step that leaves every order's refunds, and the cancelled orders, alone
\* leaves the ledger alone.
LEMMA QuietStutters ==
    ASSUME TypeOK, Monotone, \A o \in Orders : Quiet(o)
    PROVE  UNCHANGED Ledger!ledger
BY DEF Monotone, Quiet, Ledger!ledger

\* A recorded row is a grant that the ledger allows, when it is new and within
\* what is left.
LEMMA RecordGrants ==
    ASSUME TypeOK, Monotone, NEW c \in Calls, NEW a \in Nat, NEW w, Record(c, a, w),
           NEW p, p = req[c].order,
           a \in 1..(orders[p].total - reserved[p]),
           Matching(p, a, w) = {},
           \A o \in Orders \ {p} : Quiet(o)
    PROVE  Ledger!Grant(p, [amount |-> a, reason |-> w])
<1> DEFINE g == [amount |-> a, reason |-> w]
<1> DEFINE bal == [o \in Orders |-> orders[o].total - reserved[o]]
<1> DEFINE gr == [o \in Orders |-> {GrantOf(r) : r \in ReservedRows(o)}]
<1>1. p \in Orders /\ orders[p].total \in Nat /\ reserved[p] \in Nat
    BY RequestType DEF TypeOK
<1>2. ReservedRows(p)' = ReservedRows(p) \union
         {[id |-> c, order |-> p, amount |-> a, reason |-> w, status |-> "completed"]}
      /\ reserved'[p] = reserved[p] + a
    BY RecordRows
<1>3. g \notin gr[p]
    BY <1>1 DEF Matching, GrantOf
<1>4. bal' = [bal EXCEPT ![p] = @ - a]
    <2>1. ASSUME NEW o \in Orders PROVE bal'[o] = [bal EXCEPT ![p] = @ - a][o]
        <3>1. CASE o = p
            BY <1>1, <1>2, <3>1 DEF Monotone
        <3>2. CASE o # p
            BY <3>2 DEF Monotone, Quiet
        <3> QED BY <3>1, <3>2
    <2> QED BY <2>1
<1>5. gr' = [gr EXCEPT ![p] = @ \union {g}]
    <2>1. ASSUME NEW o \in Orders PROVE gr'[o] = [gr EXCEPT ![p] = @ \union {g}][o]
        <3>1. CASE o = p
            <4> DEFINE new == [id |-> c, order |-> p, amount |-> a, reason |-> w,
                               status |-> "completed"]
            <4>0. GrantOf(new) = g /\ ReservedRows(p)' = ReservedRows(p) \union {new}
                BY <1>2 DEF GrantOf
            <4> HIDE DEF g, new
            <4>1. {GrantOf(r) : r \in ReservedRows(p)'} = {GrantOf(r) : r \in ReservedRows(p)} \union {g}
                BY <4>0
            <4> QED BY <1>1, <3>1, <4>1
        <3>2. CASE o # p
            BY <3>2 DEF Quiet
        <3> QED BY <3>1, <3>2
    <2> QED BY <2>1
<1> QED BY <1>1, <1>3, <1>4, <1>5 DEF Ledger!Grant, GrantOf

LEMMA NextImplements ==
    SerialInv /\ [Next /\ Exclusive']_vars => [Ledger!Next]_(Ledger!ledger)
<1> SUFFICES ASSUME SerialInv, [Next /\ Exclusive']_vars
             PROVE  Ledger!Next \/ UNCHANGED Ledger!ledger
    OBVIOUS
<1>1. TypeOK
    BY DEF SerialInv, Inv
<1>0. ASSUME NEW c \in Calls, NEW q \in Requests, Begin(c, q)
      PROVE  UNCHANGED Ledger!ledger
    <2>1. Monotone /\ UNCHANGED table
        BY <1>0, BeginShape DEF SerialInv, Inv
    <2>2. ASSUME NEW o \in Orders PROVE Quiet(o)
        BY <2>1 DEF Quiet, table, ReservedRows
    <2> QED BY <1>1, <2>1, <2>2, QuietStutters
<1>2. ASSUME NEW c \in Calls, IssueStep(c) \/ CancelStep(c) \/ Answer(c) \/ Crash(c)
      PROVE  Ledger!Next \/ UNCHANGED Ledger!ledger
    <2>1. Monotone
        BY <1>1, <1>2, CallShape
    <2>2. PICK p : p = req[c].order
        OBVIOUS
    <2>3. /\ p \in Orders /\ orders[p].total \in Nat /\ reserved[p] \in Nat
          /\ orders[p].total \in Totals /\ req[c] \in Request /\ req[c] \in Requests
        BY <1>1, <2>2, RequestType DEF TypeOK, Order
    <2>4. CASE IssueInsert(c)
        <3>a. PICK a : a = req[c].amount
            OBVIOUS
        <3>w. PICK w : w = reason[c]
            OBVIOUS
        <3>g. PICK g : g = [amount |-> a, reason |-> w]
            OBVIOUS
        <3>1. a \in Int /\ a > 0
            BY <3>a, <2>3, <2>4 DEF SerialInv, Inv, CallInv, Established, IssueInsert, IssuePc,
               IssueInTx, ValidAmount, Request
        <3>2. a + reserved[p] <= orders[p].total /\ Matching(p, a, w) = {}
            BY <3>a, <3>w, <2>2, <2>4 DEF SerialInv, SerialCall, IssueInsert
        <3>3. a \in 1..(orders[p].total - reserved[p]) /\ a \in Nat
            BY <2>3, <3>1, <3>2
        <3>4. g \in [amount : Amounts, reason : RefundReason]
            BY <3>a, <3>w, <3>g, <1>1, <2>3, <3>1 DEF TypeOK, Amounts
        <3>5. \A o \in Orders \ {p} : Quiet(o)
            BY <1>1, <1>2, <2>2, WritesItsOrder DEF Quiet
        <3>6. Record(c, a, w) /\ orders' = orders
            BY <3>a, <3>w, <2>4 DEF IssueInsert
        <3>7. Ledger!Grant(p, g)
            BY <3>g, <1>1, <2>1, <2>2, <3>2, <3>3, <3>5, <3>6, RecordGrants
        <3>8. Ledger!Refund(p)
            BY <3>4, <3>6, <3>7 DEF Ledger!Refund
        <3> QED BY <2>3, <3>8 DEF Ledger!Next
    <2>5. CASE CancelWrite(c) /\ Cancelled(p)
        <3>1. orders[p].status # "cancelled" /\ ReservedRows(p) = {} /\ reserved[p] = 0
            BY <2>2, <2>3, <2>5 DEF SerialInv, SerialCall, SerialOrder, CancelWrite, CancelInTx
        <3>2. \A o \in Orders \ {p} : Quiet(o)
            BY <1>1, <1>2, <2>2, WritesItsOrder DEF Quiet
        <3>3. orders' = [orders EXCEPT ![p].status = "cancelled"]
            BY <2>5 DEF Cancelled
        <3>4. \A o \in Orders : orders'[o].status = "cancelled" <=> orders[o].status = "cancelled" \/ o = p
            BY <1>1, <2>3, <3>3 DEF TypeOK, Order
        <3>5. {o \in Orders : orders'[o].status = "cancelled"}
                  = {o \in Orders : orders[o].status = "cancelled"} \union {p}
            BY <2>3, <3>4
        <3>6. CASE UNCHANGED <<refunds, reserved>>
            <4>1. \A o \in Orders : ReservedRows(o)' = ReservedRows(o) /\ reserved'[o] = reserved[o]
                BY <3>6 DEF ReservedRows
            <4>2. Ledger!Cancel(p)
                BY <2>1, <2>3, <3>1, <3>5, <4>1 DEF Ledger!Cancel, Monotone
            <4> QED BY <2>3, <4>2 DEF Ledger!Next
        <3>7. CASE Record(c, orders[p].total, "reversal") /\ orders[p].total > 0
            <4>a. PICK a : a = orders[p].total
                OBVIOUS
            <4>g. PICK g : g = [amount |-> a, reason |-> "reversal"]
                OBVIOUS
            <4>1. /\ a \in 1..(orders[p].total - reserved[p]) /\ a \in Nat
                  /\ Matching(p, a, "reversal") = {}
                BY <2>3, <3>1, <3>7, <4>a DEF Matching
            <4>2. g \in [amount : Amounts, reason : RefundReason]
                BY <2>3, <3>7, <4>a, <4>g DEF Amounts, RefundReason
            <4>3. Record(c, a, "reversal")
                BY <3>7, <4>a
            <4>4. Ledger!Grant(p, g)
                BY <1>1, <2>1, <2>2, <2>3, <3>2, <4>1, <4>3, <4>g, RecordGrants
            <4>5. g.amount = orders[p].total - reserved[p]
                BY <2>3, <3>1, <4>a, <4>g
            <4>6. Ledger!CancelAndReverse(p)
                BY <2>3, <3>1, <3>5, <4>2, <4>4, <4>5 DEF Ledger!CancelAndReverse
            <4> QED BY <2>3, <4>6 DEF Ledger!Next
        <3> QED BY <2>2, <2>5, <3>6, <3>7 DEF CancelWrite
    <2>6. CASE ~IssueInsert(c) /\ ~(CancelWrite(c) /\ Cancelled(p))
        <3>1. \A o \in Orders : Quiet(o)
            <4>1. CASE CancelWrite(c)
                BY <2>2, <2>6, <4>1 DEF CancelWrite, Quiet, ReservedRows
            <4>2. CASE ~CancelWrite(c)
                BY <1>1, <1>2, <2>6, <4>2, WritesItsOrder
            <4> QED BY <4>1, <4>2
        <3> QED BY <1>1, <2>1, <3>1, QuietStutters
    <2> QED BY <2>4, <2>5, <2>6
<1>3. ASSUME NEW p \in Orders, AdvanceOrder(p) \/ UpdateShipment(p)
      PROVE  UNCHANGED Ledger!ledger
    <2>1. Monotone /\ UNCHANGED <<refunds, reserved, req, pc, seen, reason>>
        BY <1>1, <1>3, EnvironmentShape
    <2>2. ASSUME NEW o \in Orders PROVE Quiet(o)
        BY <1>1, <1>3, <2>1 DEF Quiet, ReservedRows, AdvanceOrder, UpdateShipment,
                                NextOrderStatus, TypeOK, Order
    <2> QED BY <1>1, <2>1, <2>2, QuietStutters
<1>4. CASE UNCHANGED vars
    BY <1>4 DEF vars, Ledger!ledger, ReservedRows
<1> QED BY <1>0, <1>2, <1>3, <1>4 DEF Next, AllAnswered

\* The write paths, transaction by transaction, implement the ledger.
THEOREM LedgerImplemented == SerialSpec => ImplementsLedger
<1>1. SerialSpec => Ledger!Init
    BY InitImplements DEF SerialSpec
<1> QED BY <1>1, SerialSpecInv, NextImplements, PTL DEF SerialSpec, ImplementsLedger, Ledger!Spec

=============================================================================
