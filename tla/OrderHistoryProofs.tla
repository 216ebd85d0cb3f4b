------------------------- MODULE OrderHistoryProofs -------------------------
(* Theorems about OrderHistory, for every value of its constants. *)
EXTENDS OrderHistory, OrderStoreProofs

(***************************************************************************)
(* What a call that is going to write has found out about the rows that    *)
(* were on record when its transaction began, and what that means for the  *)
(* row it writes.                                                          *)
(***************************************************************************)
Searched(c) ==
    /\ earlier[c] \subseteq refunds
    /\ pc[c] \in {"issue_reserved", "issue_insert"} =>
          \A q \in earlier[c] :
              ~ (/\ q.order = req[c].order /\ q.amount = req[c].amount
                 /\ q.reason = reason[c] /\ IsReserved(q))
    /\ pc[c] \in {"cancel_shipment", "cancel_write"} /\ seen[c] = "paid" =>
          \A q \in earlier[c] : q.order = req[c].order => q.reason # "reversal"

NotTwice(r) ==
    r.id # Seed =>
        \A q \in earlier[r.id] :
            IF r.reason = "reversal" THEN ~(q.order = r.order /\ q.reason = "reversal")
                                     ELSE ~SameRefund(q, r)

HistoryInv ==
    /\ Inv
    /\ \A c \in Calls : Searched(c)
    /\ \A r \in refunds : NotTwice(r)

LEMMA InitHistory == HistoryInit => HistoryInv
<1> SUFFICES ASSUME HistoryInit PROVE HistoryInv
    OBVIOUS
<1>1. Inv
    BY InitInv DEF HistoryInit
<1>2. \A r \in refunds : r.id = Seed
    BY DEF HistoryInit, Init, SeedRow
<1>3. ASSUME NEW c \in Calls PROVE Searched(c)
    BY DEF HistoryInit, Searched
<1> QED BY <1>1, <1>2, <1>3 DEF HistoryInv, NotTwice

\* Nobody's memory changes but that of a call which enters its transaction.
LEMMA OthersRemember ==
    ASSUME Remembered, NEW d \in Calls, pc'[d] = pc[d] \/ InTx(d) \/ ~InTx(d)'
    PROVE  earlier'[d] = earlier[d]
BY DEF Remembered, InTx

\* A call that has written a row does not enter it again.
LEMMA WritersRemember ==
    ASSUME Inv', Remembered, NEW r \in refunds, r \in refunds', r.id \in Calls
    PROVE  earlier'[r.id] = earlier[r.id]
<1>1. ~InTx(r.id)'
    BY DEF Inv, CallInv, Established, InTx, IssuePc, CancelPc
<1> QED BY <1>1, OthersRemember

\* A call that does not move keeps what it found, as rows stay.
LEMMA OthersSearched ==
    ASSUME Remembered, NEW d \in Calls, Searched(d), refunds \subseteq refunds',
           pc'[d] = pc[d], req'[d] = req[d], seen'[d] = seen[d], reason'[d] = reason[d]
    PROVE  Searched(d)'
<1>1. earlier'[d] = earlier[d]
    BY OthersRemember
<1> QED BY <1>1 DEF Searched, IsReserved

\* The rows on record stay as they are to the calls that wrote them.
LEMMA OldRowsNotTwice ==
    ASSUME Inv, Inv', Remembered, refunds \subseteq refunds', NEW r \in refunds, NotTwice(r)
    PROVE  NotTwice(r)'
<1>1. CASE r.id = Seed
    BY <1>1 DEF NotTwice
<1>2. CASE r.id # Seed
    <2>1. r.id \in Calls
        BY <1>2 DEF Inv, TypeOK, Refund
    <2>2. earlier'[r.id] = earlier[r.id]
        BY <2>1, WritersRemember
    <2> QED BY <1>2, <2>2 DEF NotTwice, SameRefund, IsReserved
<1> QED BY <1>1, <1>2

LEMMA IssueSearched ==
    ASSUME HistoryInv, Remembered, NEW c \in Calls, IssueStep(c), refunds \subseteq refunds',
           \A r \in refunds : NotTwice(r)'
    PROVE  Searched(c)' /\ \A r \in refunds' : NotTwice(r)'
<1> USE DEF table, Goto, Remember, Derive, Searched
<1>t. /\ c \in DOMAIN pc /\ c \in DOMAIN seen /\ c \in DOMAIN reason
      /\ Searched(c)
    BY DEF HistoryInv, Inv, TypeOK
<1>e. ASSUME pc[c] \in IssueInTx PROVE earlier'[c] = earlier[c]
    BY <1>e, OthersRemember DEF InTx
<1>1. CASE IssueInsert(c)
    <2> pc[c] \in IssueInTx
        BY <1>1 DEF IssueInsert, IssueInTx
    <2>1. pc'[c] = "committed"
        BY <1>1, <1>t DEF IssueInsert
    <2>2. ASSUME NEW r, r = [id |-> c, order |-> req[c].order, amount |-> req[c].amount,
                             reason |-> reason[c], status |-> "completed"]
          PROVE  NotTwice(r)'
        <3>1. reason[c] # "reversal"
            BY <1>1 DEF IssueInsert, HistoryInv, Inv, CallInv, Established, Deciding
        <3> QED BY <1>1, <1>t, <1>e, <2>2, <3>1 DEF IssueInsert, NotTwice, SameRefund, IsReserved
    <2>3. \A r \in refunds' : NotTwice(r)'
        BY <1>1, <2>2 DEF IssueInsert, Record
    <2> QED BY <1>t, <1>e, <2>1, <2>3
<1>2. CASE IssueExisting(c)
    <2> pc[c] \in IssueInTx
        BY <1>2 DEF IssueExisting, IssueInTx
    <2>1. refunds' = refunds /\ req' = req
        BY <1>2 DEF IssueExisting
    <2>2. CASE Matching(req[c].order, req[c].amount, reason[c]) = {}
        BY <1>2, <1>t, <1>e, <2>1, <2>2 DEF IssueExisting, Matching, ReservedRows, IsReserved
    <2>3. CASE pc'[c] = "ok"
        BY <1>t, <1>e, <2>1, <2>3
    <2> QED BY <1>2, <1>t, <2>2, <2>3 DEF IssueExisting
<1>3. CASE IssueReserved(c)
    <2> pc[c] \in IssueInTx
        BY <1>3 DEF IssueReserved, IssueInTx
    <2> QED BY <1>3, <1>t, <1>e DEF IssueReserved, IsReserved
<1>4. CASE IssueGetOrder(c) \/ IssueGetShipment(c) \/ IssueOrder(c) \/ IssueShipment(c)
    <2>1. earlier'[c] \in {refunds, earlier[c]}
        BY DEF Remembered
    <2> QED BY <1>4, <1>t, <2>1 DEF IssueGetOrder, IssueGetShipment, IssueOrder, IssueShipment
<1> QED BY <1>1, <1>2, <1>3, <1>4 DEF IssueStep

LEMMA CancelSearched ==
    ASSUME HistoryInv, Remembered, NEW c \in Calls, CancelStep(c), refunds \subseteq refunds',
           \A r \in refunds : NotTwice(r)'
    PROVE  Searched(c)' /\ \A r \in refunds' : NotTwice(r)'
<1> USE DEF table, Goto, Remember, Derive, Searched
<1>t. /\ c \in DOMAIN pc /\ c \in DOMAIN seen /\ c \in DOMAIN reason
      /\ Searched(c)
    BY DEF HistoryInv, Inv, TypeOK
<1>e. earlier'[c] \in {refunds, earlier[c]} /\ (pc[c] \in CancelInTx => earlier'[c] = earlier[c])
    BY OthersRemember DEF Remembered, InTx
<1>1. CASE CancelWrite(c)
    <2> pc[c] \in CancelInTx
        BY <1>1 DEF CancelWrite, CancelInTx
    <2>1. pc'[c] \in {"committed", "db_error"}
        BY <1>1, <1>t DEF CancelWrite
    <2>2. ASSUME NEW r, r = [id |-> c, order |-> req[c].order,
                             amount |-> orders[req[c].order].total,
                             reason |-> "reversal", status |-> "completed"],
                 seen[c] = "paid"
          PROVE  NotTwice(r)'
        BY <1>1, <1>t, <1>e, <2>2 DEF CancelWrite, NotTwice
    <2>3. \A r \in refunds' : NotTwice(r)'
        BY <1>1, <2>2 DEF CancelWrite, Record
    <2> QED BY <1>t, <1>e, <2>1, <2>3
<1>2. CASE CancelOrder(c)
    <2>1. refunds' = refunds /\ req' = req
        BY <1>2 DEF CancelOrder
    <2>2. CASE pc'[c] = "cancel_shipment"
        <3>1. orders[req[c].order].status # "cancelled"
            <4>1. pc'[c] = AfterOrder(c, "cancel_shipment")
                BY <1>2, <1>t DEF CancelOrder
            <4> QED BY <2>2, <4>1 DEF AfterOrder, CancellableStatuses
        <3>2. \A q \in refunds : q.order = req[c].order => q.reason # "reversal"
            BY <3>1 DEF HistoryInv, Inv, Sound
        <3> QED BY <1>t, <1>e, <2>1, <2>2, <3>2
    <2>3. CASE pc'[c] # "cancel_shipment"
        <3>1. pc'[c] \in {"not_found", "ok", "refused"}
            BY <1>2, <1>t, <2>3 DEF CancelOrder, AfterOrder
        <3> QED BY <1>t, <1>e, <2>1, <3>1
    <2> QED BY <2>2, <2>3
<1>3. CASE CancelShipment(c)
    <2> pc[c] \in CancelInTx
        BY <1>3 DEF CancelShipment, CancelInTx
    <2> QED BY <1>3, <1>t, <1>e DEF CancelShipment
<1>4. CASE CancelGetOrder(c)
    <2>1. pc'[c] \in {"not_found", "ok", "refused", "cancel_get_shipment"}
        BY <1>4, <1>t DEF CancelGetOrder, AfterOrder
    <2> QED BY <1>4, <1>t, <1>e, <2>1 DEF CancelGetOrder
<1>5. CASE CancelGetShipment(c)
    BY <1>5, <1>t, <1>e DEF CancelGetShipment
<1> QED BY <1>1, <1>2, <1>3, <1>4, <1>5 DEF CancelStep

LEMMA NextHistory == HistoryInv /\ [Next /\ Remembered]_historyVars => HistoryInv'
<1> SUFFICES ASSUME HistoryInv, [Next /\ Remembered]_historyVars PROVE HistoryInv'
    OBVIOUS
<1>0. CASE UNCHANGED historyVars
    <2>1. UNCHANGED vars /\ UNCHANGED earlier
        BY <1>0 DEF historyVars
    <2>2. Inv'
        BY <2>1, NextInv DEF HistoryInv
    <2>3. \A c \in Calls : Searched(c)'
        BY <2>1 DEF HistoryInv, Searched, vars, IsReserved
    <2>4. \A r \in refunds' : NotTwice(r)'
        BY <2>1 DEF HistoryInv, NotTwice, SameRefund, IsReserved, vars
    <2> QED BY <2>2, <2>3, <2>4 DEF HistoryInv
<1>1. CASE Next /\ Remembered
    <2> USE <1>1
    <2>i. Inv /\ Inv' /\ TypeOK
        BY NextInv DEF HistoryInv, Inv
    <2>r. ASSUME refunds \subseteq refunds' PROVE \A r \in refunds : NotTwice(r)'
        BY <2>i, <2>r, OldRowsNotTwice DEF HistoryInv
    <2>1. ASSUME NEW c \in Calls, NEW q \in Requests, Begin(c, q) PROVE HistoryInv'
        <3>1. Monotone /\ Only(c) /\ refunds' = refunds
            BY <2>i, <2>1, BeginShape DEF Inv, table
        <3>2. \A d \in Calls \ {c} : Searched(d)'
            BY <3>1, OthersSearched DEF HistoryInv, Only
        <3>3. Searched(c)'
            <4>1. pc'[c] \in {"issue_get_order", "refused", "cancel_get_order"}
                BY <2>i, <2>1 DEF Begin, IssueBegin, CancelBegin, Arrive, Goto, TypeOK
            <4>2. earlier'[c] = earlier[c]
                BY <4>1, OthersRemember DEF InTx, IssueInTx, CancelInTx
            <4> QED BY <3>1, <4>1, <4>2 DEF HistoryInv, Searched
        <3> QED BY <2>i, <2>r, <3>1, <3>2, <3>3 DEF HistoryInv
    <2>2. ASSUME NEW c \in Calls, IssueStep(c) \/ CancelStep(c) \/ Answer(c) \/ Crash(c)
          PROVE  HistoryInv'
        <3>1. Monotone /\ Only(c) /\ req' = req
            BY <2>i, <2>2, CallShape
        <3>2. refunds \subseteq refunds'
            BY <3>1 DEF Monotone
        <3>3. \A d \in Calls \ {c} : Searched(d)'
            BY <3>1, <3>2, OthersSearched DEF HistoryInv, Only
        <3>4. Searched(c)' /\ \A r \in refunds' : NotTwice(r)'
            <4>1. CASE IssueStep(c)
                BY <2>r, <3>2, <4>1, IssueSearched
            <4>2. CASE CancelStep(c)
                BY <2>r, <3>2, <4>2, CancelSearched
            <4>3. CASE Answer(c) \/ Crash(c)
                <5>1. pc'[c] \in {"ok", "crashed"} /\ refunds' = refunds
                    BY <2>i, <4>3 DEF Answer, Crash, Goto, TypeOK, table
                <5>2. earlier'[c] = earlier[c]
                    BY <5>1, OthersRemember DEF InTx, IssueInTx, CancelInTx
                <5> QED BY <2>r, <5>1, <5>2 DEF HistoryInv, Searched
            <4> QED BY <2>2, <4>1, <4>2, <4>3
        <3> QED BY <2>i, <3>3, <3>4 DEF HistoryInv
    <2>3. ASSUME UNCHANGED <<refunds, req, pc, seen, reason>> PROVE HistoryInv'
        <3>1. \A d \in Calls : Searched(d)'
            BY <2>3, OthersSearched DEF HistoryInv
        <3> QED BY <2>i, <2>r, <2>3, <3>1 DEF HistoryInv
    <2>4. ASSUME NEW o \in Orders, AdvanceOrder(o) \/ UpdateShipment(o) PROVE HistoryInv'
        BY <2>i, <2>3, <2>4, EnvironmentShape
    <2>5. CASE AllAnswered
        BY <2>3, <2>5 DEF AllAnswered, vars
    <2> QED BY <2>1, <2>2, <2>4, <2>5 DEF Next
<1> QED BY <1>0, <1>1

LEMMA HistorySpecInv == HistorySpec => []HistoryInv
BY InitHistory, NextHistory, PTL DEF HistorySpec

\* Asking again after any answer, or none, never writes a standalone refund
\* a second time with the same amount and reason, as long as the transactions
\* of the two calls do not overlap (refund_repository.py:75-86).
THEOREM RetryFindsRefund == HistorySpec => []SettledRefundIsFound
<1>1. HistoryInv => SettledRefundIsFound
    BY DEF HistoryInv, NotTwice, SettledRefundIsFound
<1> QED BY <1>1, HistorySpecInv, PTL

\* A cancellation whose transaction begins after another was committed
\* reverses nothing (order_repository.py:90).
THEOREM RetryReversesNothing == HistorySpec => []SettledReversalIsFinal
<1>1. HistoryInv => SettledReversalIsFinal
    BY DEF HistoryInv, NotTwice, SettledReversalIsFinal
<1> QED BY <1>1, HistorySpecInv, PTL
=============================================================================
