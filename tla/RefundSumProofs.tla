---------------------------- MODULE RefundSumProofs ----------------------------
(***************************************************************************)
(* The running total reserved[o] of OrderStore is the SUM of the amounts   *)
(* of the reserved rows of o, for every value of the constants, whatever   *)
(* the interleaving and whoever crashes.                                   *)
(*                                                                         *)
(* SumOf is a fold: a function on the subsets of its argument, defined by  *)
(* recursion over an element chosen from each.  The first half shows that  *)
(* such a function exists for a finite set of rows, that it is the same    *)
(* whichever set it is defined on, and that the order in which it takes    *)
(* the rows does not matter.  The induction is always the same one: of the *)
(* subsets that break the claim, one has no smaller one that breaks it.    *)
(***************************************************************************)
EXTENDS OrderHistoryProofs, FiniteSetTheorems, WellFoundedInduction

LEMMA MinimalSubset ==
    ASSUME NEW S, IsFiniteSet(S), NEW B \in SUBSET (SUBSET S), B # {}
    PROVE  \E T \in B : \A V \in B : V \subseteq T => V = T
<1>1. IsWellFoundedOn(StrictSubsetOrdering(S), FiniteSubsetsOf(S))
    BY FS_StrictSubsetOrderingWellFounded
<1>2. FiniteSubsetsOf(S) = SUBSET S
    BY FS_FiniteSubsetsOfFinite
<1>3. PICK T \in B : \A V \in B : <<V, T>> \notin StrictSubsetOrdering(S)
    BY <1>1, <1>2, WFMin
<1> QED BY <1>3 DEF StrictSubsetOrdering

-----------------------------------------------------------------------------
Pick(s) == CHOOSE x \in s : TRUE

\* f is the function that the fold over the rows of S defines.
Adds(f, S) ==
    f = [s \in SUBSET S |-> IF s = {} THEN 0 ELSE Pick(s).amount + f[s \ {Pick(s)}]]

LEMMA SumUnfolds == ASSUME NEW S PROVE SumOf(S) = (CHOOSE f : Adds(f, S))[S]
BY DEF SumOf, MapThenSumSet, MapThenFoldSet, Adds, Pick

LEMMA PickIn == ASSUME NEW s, s # {} PROVE Pick(s) \in s
BY DEF Pick

LEMMA AddsAt ==
    ASSUME NEW f, NEW S, Adds(f, S), NEW s \in SUBSET S
    PROVE  /\ s = {} => f[s] = 0
           /\ s # {} => f[s] = Pick(s).amount + f[s \ {Pick(s)}]
BY DEF Adds

\* Two such functions agree wherever both are defined.
LEMMA AddsAgree ==
    ASSUME NEW f, NEW S, NEW g, NEW T, IsFiniteSet(S), Adds(f, S), Adds(g, T),
           NEW u \in SUBSET S, u \in SUBSET T
    PROVE  f[u] = g[u]
<1> DEFINE B == {s \in SUBSET S : s \subseteq T /\ f[s] # g[s]}
<1>1. SUFFICES ASSUME B # {} PROVE FALSE
    OBVIOUS
<1>2. PICK m \in B : \A v \in B : v \subseteq m => v = m
    <2>1. B \in SUBSET (SUBSET S)
        OBVIOUS
    <2> HIDE DEF B
    <2> QED BY <1>1, <2>1, MinimalSubset
<1>3. m # {}
    BY <1>2, AddsAt
<1>4. m \ {Pick(m)} \notin B
    BY <1>2, <1>3, PickIn
<1>5. f[m \ {Pick(m)}] = g[m \ {Pick(m)}]
    BY <1>2, <1>4
<1> QED BY <1>2, <1>3, <1>5, AddsAt

\* What the fold takes to be the sum of the rows of s.
Total(s) == (CHOOSE f : Adds(f, s))[s]

\* If the subsets of S have such a function, the function of S is built from
\* their totals.
LEMMA AddsBuilt ==
    ASSUME NEW S, IsFiniteSet(S), \A s \in SUBSET S : s # S => \E f : Adds(f, s)
    PROVE  \E f : Adds(f, S)
<1> DEFINE g == [s \in SUBSET S |->
                    IF s = {} THEN 0 ELSE Pick(s).amount + Total(s \ {Pick(s)})]
<1>1. ASSUME NEW s \in SUBSET S, s # {} PROVE Total(s \ {Pick(s)}) = g[s \ {Pick(s)}]
    <2>0. PICK u : u = s \ {Pick(s)}
        OBVIOUS
    <2>1. u \in SUBSET S /\ u # S
        BY <1>1, <2>0, PickIn
    <2>2. PICK f : f = CHOOSE h : Adds(h, u)
        OBVIOUS
    <2>3. Adds(f, u) /\ Total(u) = f[u]
        BY <2>1, <2>2 DEF Total
    <2>4. CASE u = {}
        BY <2>0, <2>1, <2>3, <2>4, AddsAt
    <2>5. CASE u # {}
        <3>0. PICK v : v = u \ {Pick(u)}
            OBVIOUS
        <3>1. v \in SUBSET u /\ v \in SUBSET S /\ v # S
            BY <2>1, <2>5, <3>0, PickIn
        <3>2. PICK h : h = CHOOSE k : Adds(k, v)
            OBVIOUS
        <3>3. Adds(h, v) /\ Total(v) = h[v]
            BY <3>1, <3>2 DEF Total
        <3>4. IsFiniteSet(u)
            BY <2>1, FS_Subset
        <3>5. f[v] = h[v]
            BY <2>3, <3>1, <3>3, <3>4, AddsAgree
        <3>6. f[u] = Pick(u).amount + f[v]
            BY <2>3, <2>5, <3>0, AddsAt
        <3>7. g[u] = Pick(u).amount + Total(v)
            BY <2>1, <2>5, <3>0
        <3> QED BY <2>0, <2>3, <3>3, <3>5, <3>6, <3>7
    <2> QED BY <2>4, <2>5
<1>2. Adds(g, S)
    BY <1>1 DEF Adds
<1> QED BY <1>2

LEMMA AddsExists == ASSUME NEW S, IsFiniteSet(S) PROVE \E f : Adds(f, S)
<1> DEFINE B == {s \in SUBSET S : ~ \E f : Adds(f, s)}
<1>1. SUFFICES ASSUME B # {} PROVE FALSE
    OBVIOUS
<1>2. PICK m \in B : \A v \in B : v \subseteq m => v = m
    <2>1. B \in SUBSET (SUBSET S)
        OBVIOUS
    <2> HIDE DEF B
    <2> QED BY <1>1, <2>1, MinimalSubset
<1>3. IsFiniteSet(m)
    BY <1>2, FS_Subset
<1>4. \A s \in SUBSET m : s # m => \E f : Adds(f, s)
    BY <1>2
<1> QED BY <1>2, <1>3, <1>4, AddsBuilt

LEMMA SumOfNone == SumOf({}) = 0
<1>1. \E f : Adds(f, {})
    BY AddsExists, FS_EmptySet
<1> QED BY <1>1, AddsAt, SumUnfolds

LEMMA SumOfPicked ==
    ASSUME NEW S, IsFiniteSet(S), S # {}
    PROVE  SumOf(S) = Pick(S).amount + SumOf(S \ {Pick(S)})
<1>0. PICK v : v = S \ {Pick(S)}
    OBVIOUS
<1>1. IsFiniteSet(v) /\ v \in SUBSET S
    BY <1>0, FS_Subset
<1>2. PICK f : f = CHOOSE h : Adds(h, S)
    OBVIOUS
<1>3. PICK g : g = CHOOSE h : Adds(h, v)
    OBVIOUS
<1>4. Adds(f, S) /\ SumOf(S) = f[S]
    BY <1>2, AddsExists, SumUnfolds
<1>5. Adds(g, v) /\ SumOf(v) = g[v]
    BY <1>1, <1>3, AddsExists, SumUnfolds
<1>6. f[v] = g[v]
    BY <1>1, <1>4, <1>5, AddsAgree
<1> QED BY <1>0, <1>4, <1>5, <1>6, AddsAt

\* The order in which the fold takes the rows does not matter.
LEMMA SumOfAny ==
    ASSUME NEW S, IsFiniteSet(S), \A r \in S : r.amount \in Int
    PROVE  /\ SumOf(S) \in Int
           /\ \A x \in S : SumOf(S) = x.amount + SumOf(S \ {x})
<1> DEFINE Any(s) ==
        SumOf(s) \in Int /\ \A x \in s : SumOf(s) = x.amount + SumOf(s \ {x})
<1> DEFINE B == {s \in SUBSET S : ~Any(s)}
<1>1. SUFFICES ASSUME B # {} PROVE FALSE
    OBVIOUS
<1>2. PICK m \in B : \A v \in B : v \subseteq m => v = m
    <2>1. B \in SUBSET (SUBSET S)
        OBVIOUS
    <2> HIDE DEF B
    <2> QED BY <1>1, <2>1, MinimalSubset
<1>3. m # {}
    <2>1. Any({})
        BY SumOfNone
    <2> QED BY <1>2, <2>1
<1>4. PICK c : c = Pick(m)
    OBVIOUS
<1>5. c \in m /\ c.amount \in Int /\ SumOf(m) = c.amount + SumOf(m \ {c})
    BY <1>2, <1>3, <1>4, PickIn, FS_Subset, SumOfPicked
<1>6. \A y \in m : m \ {y} \in SUBSET S /\ m \ {y} \notin B
    BY <1>2
<1>7. ASSUME NEW y \in m PROVE Any(m \ {y})
    BY <1>6
<1>8. SumOf(m) \in Int
    BY <1>5, <1>7
<1>9. ASSUME NEW x \in m, x # c PROVE SumOf(m) = x.amount + SumOf(m \ {x})
    <2>0. PICK w : w = m \ {c, x}
        OBVIOUS
    <2>1. SumOf(m \ {c}) = x.amount + SumOf(w)
        <3>1. x \in m \ {c} /\ (m \ {c}) \ {x} = w
            BY <1>9, <2>0
        <3> QED BY <1>5, <1>7, <3>1
    <2>2. SumOf(m \ {x}) = c.amount + SumOf(w) /\ c \in m \ {x}
        <3>1. c \in m \ {x} /\ (m \ {x}) \ {c} = w
            BY <1>5, <1>9, <2>0
        <3> QED BY <1>9, <1>7, <3>1
    <2>3. SumOf(w) \in Int
        <3>1. w \in SUBSET m /\ w # m
            BY <1>5, <2>0
        <3>2. w \notin B
            BY <1>2, <3>1
        <3> QED BY <1>2, <3>1, <3>2
    <2>4. x.amount \in Int
        BY <1>2, <1>9
    <2> HIDE DEF Any, B
    <2> QED BY <1>5, <2>1, <2>2, <2>3, <2>4
<1>10. Any(m)
    BY <1>5, <1>8, <1>9
<1> QED BY <1>2, <1>10

\* The sum of the rows with one more row.
LEMMA SumOfAdded ==
    ASSUME NEW S, IsFiniteSet(S), \A r \in S : r.amount \in Int,
           NEW x, x \notin S, x.amount \in Int
    PROVE  SumOf(S \union {x}) = SumOf(S) + x.amount /\ SumOf(S) \in Int
<1>1. IsFiniteSet(S \union {x}) /\ (S \union {x}) \ {x} = S
    BY FS_AddElement
<1>2. SumOf(S \union {x}) = x.amount + SumOf(S)
    BY <1>1, SumOfAny
<1> QED BY <1>2, SumOfAny

LEMMA SumOfOne == ASSUME NEW x, x.amount \in Int PROVE SumOf({x}) = x.amount
<1>1. {} \union {x} = {x}
    OBVIOUS
<1> QED BY <1>1, SumOfAdded, SumOfNone, FS_EmptySet

\* Fewer rows have no larger sum.
LEMMA SumOfFewer ==
    ASSUME NEW S, IsFiniteSet(S), \A r \in S : r.amount \in Nat, NEW T \in SUBSET S
    PROVE  SumOf(T) \in Int /\ SumOf(T) <= SumOf(S)
<1> DEFINE B == {s \in SUBSET S : T \subseteq s /\ ~(SumOf(T) <= SumOf(s))}
<1>1. \A s \in SUBSET S : SumOf(s) \in Int
    BY FS_Subset, SumOfAny
<1>2. SUFFICES ASSUME B # {} PROVE FALSE
    BY <1>1
<1>3. PICK m \in B : \A v \in B : v \subseteq m => v = m
    <2>1. B \in SUBSET (SUBSET S)
        OBVIOUS
    <2> HIDE DEF B
    <2> QED BY <1>2, <2>1, MinimalSubset
<1>4. PICK x \in m : x \notin T
    <2>1. m # T
        BY <1>1, <1>3
    <2> QED BY <1>3, <2>1
<1>5. m \ {x} \in SUBSET S /\ T \subseteq m \ {x} /\ m \ {x} # m
    BY <1>3, <1>4
<1>6. SumOf(m) = x.amount + SumOf(m \ {x}) /\ x.amount \in Nat
    BY <1>3, <1>4, SumOfAny, FS_Subset
<1>7. SumOf(T) <= SumOf(m \ {x})
    BY <1>3, <1>5
<1> QED BY <1>1, <1>3, <1>5, <1>6, <1>7

-----------------------------------------------------------------------------
(***************************************************************************)
(* The invariant: on top of what every call has established, the reserved  *)
(* rows of an order are finitely many and reserved[o] is their sum.        *)
(***************************************************************************)
SumHolds(o) == IsFiniteSet(ReservedRows(o)) /\ reserved[o] = SumOf(ReservedRows(o))

SumInv == Inv /\ \A o \in Orders : SumHolds(o)

LEMMA RowType ==
    ASSUME TypeOK, NEW o, NEW r \in ReservedRows(o)
    PROVE  r.amount \in Nat /\ r.id \in Calls \union {Seed}
BY DEF TypeOK, ReservedRows, Refund

LEMMA InitSum == Init => SumInv
<1> SUFFICES ASSUME Init PROVE SumInv
    OBVIOUS
<1>1. Inv
    BY InitInv
<1>2. ASSUME NEW o \in Orders PROVE SumHolds(o)
    <2>1. CASE ReservedRows(o) = {}
        <3>1. reserved[o] = 0
            BY <2>1 DEF Init
        <3> QED BY <2>1, <3>1, SumOfNone, FS_EmptySet DEF SumHolds
    <2>2. CASE ReservedRows(o) # {}
        <3>1. PICK r \in ReservedRows(o) : r = CHOOSE q \in ReservedRows(o) : TRUE
            BY <2>2
        <3>2. reserved[o] = r.amount
            BY <2>2, <3>1 DEF Init
        <3>3. \A q \in ReservedRows(o) : q = r
            BY <3>1 DEF Init, ReservedRows
        <3>4. ReservedRows(o) = {r} /\ r.amount \in Int
            BY <1>1, <3>1, <3>3, RowType DEF Inv
        <3> QED BY <3>2, <3>4, SumOfOne, FS_Singleton DEF SumHolds
    <2> QED BY <2>1, <2>2
<1> QED BY <1>1, <1>2 DEF SumInv

\* A row recorded by a call that has none yet is added to the sum.
LEMMA RecordKeepsSum ==
    ASSUME SumInv, NEW c \in Calls, NEW a \in Nat, NEW w, Record(c, a, w),
           \A r \in refunds : r.id # c,
           NEW p, p = req[c].order
    PROVE  SumHolds(p)'
<1>0. PICK new : new = [id |-> c, order |-> p, amount |-> a, reason |-> w, status |-> "completed"]
    OBVIOUS
<1>1. p \in Orders /\ SumHolds(p) /\ TypeOK
    BY RequestType DEF SumInv, Inv
<1>2. ReservedRows(p)' = ReservedRows(p) \union {new} /\ reserved'[p] = reserved[p] + a
    BY <1>0, <1>1, RecordRows
<1>3. new \notin ReservedRows(p) /\ new.amount = a
    BY <1>0 DEF ReservedRows
<1>4. \A r \in ReservedRows(p) : r.amount \in Int
    BY <1>1, RowType
<1>5. PICK rows : rows = ReservedRows(p)
    OBVIOUS
<1>6. SumOf(rows \union {new}) = SumOf(rows) + a /\ IsFiniteSet(rows \union {new})
    BY <1>1, <1>3, <1>4, <1>5, SumOfAdded, FS_AddElement DEF SumHolds
<1> QED BY <1>1, <1>2, <1>5, <1>6 DEF SumHolds

LEMMA QuietSum == ASSUME NEW o, SumHolds(o), Quiet(o) PROVE SumHolds(o)'
BY DEF SumHolds, Quiet

LEMMA NextSum == SumInv /\ [Next]_vars => SumInv'
<1> SUFFICES ASSUME SumInv, [Next]_vars PROVE SumInv'
    OBVIOUS
<1>1. Inv' /\ Inv /\ TypeOK
    BY NextInv DEF SumInv, Inv
<1>2. ASSUME NEW c \in Calls, IssueStep(c) \/ CancelStep(c) \/ Answer(c) \/ Crash(c)
      PROVE  \A o \in Orders : SumHolds(o)'
    <2>1. CASE \A o \in Orders : Quiet(o)
        BY <2>1, QuietSum DEF SumInv
    <2>2. CASE /\ IssueInsert(c) \/ CancelWrite(c)
               /\ \A o \in Orders \ {req[c].order} : Quiet(o)
        <3>1. \A r \in refunds : r.id # c
            BY <1>1, <2>2 DEF Inv, CallInv, Established, IssueInsert, CancelWrite,
               IssuePc, CancelPc, IssueInTx, CancelInTx
        <3>2. PICK p : p = req[c].order
            OBVIOUS
        <3>3. SumHolds(p)'
            <4>1. CASE IssueInsert(c)
                <5>1. req[c].amount \in Nat
                    BY <1>1, <4>1, RequestType DEF IssueInsert, Inv, CallInv, Established,
                       ValidAmount, Request, IssuePc, IssueInTx
                <5> QED BY <3>1, <3>2, <4>1, <5>1, RecordKeepsSum DEF IssueInsert
            <4>2. CASE CancelWrite(c) /\ Record(c, orders[p].total, "reversal")
                <5>1. orders[p].total \in Nat
                    BY <1>1, <3>2, RequestType
                <5> QED BY <3>1, <3>2, <4>2, <5>1, RecordKeepsSum
            <4>3. CASE CancelWrite(c) /\ UNCHANGED <<refunds, reserved>>
                <5>1. ReservedRows(p)' = ReservedRows(p)
                    BY <4>3 DEF ReservedRows
                <5>2. SumHolds(p)
                    BY <1>1, <3>2, RequestType DEF SumInv
                <5> QED BY <4>3, <5>1, <5>2 DEF SumHolds
            <4> QED BY <2>2, <3>2, <4>1, <4>2, <4>3 DEF CancelWrite
        <3> QED BY <2>2, <3>2, <3>3, QuietSum DEF SumInv
    <2> QED BY <1>1, <1>2, <2>1, <2>2, WritesItsOrder
<1>3. ASSUME UNCHANGED <<refunds, reserved>> PROVE \A o \in Orders : SumHolds(o)'
    <2>1. \A o \in Orders : ReservedRows(o)' = ReservedRows(o)
        BY <1>3 DEF ReservedRows
    <2> QED BY <1>3, <2>1 DEF SumInv, SumHolds
<1>4. ASSUME NEW c \in Calls, NEW q \in Requests, Begin(c, q) PROVE UNCHANGED <<refunds, reserved>>
    BY <1>1, <1>4, BeginShape DEF Inv, table
<1>5. ASSUME NEW o \in Orders, AdvanceOrder(o) \/ UpdateShipment(o)
      PROVE  UNCHANGED <<refunds, reserved>>
    BY <1>5 DEF AdvanceOrder, UpdateShipment
<1>6. \A o \in Orders : SumHolds(o)'
    BY <1>2, <1>3, <1>4, <1>5 DEF Next, AllAnswered, vars
<1> QED BY <1>1, <1>6 DEF SumInv

LEMMA SpecSum == Spec => []SumInv
<1> QED BY InitSum, NextSum, PTL DEF Spec

\* The running total that stands for the SUM query of RefundRepository.issue
\* is that sum, in every interleaving and whichever calls die.
THEOREM ReservedIsTheSum == Spec => []ReservedIsSum
<1>1. SumInv => ReservedIsSum
    BY DEF SumInv, SumHolds, ReservedIsSum
<1> QED BY <1>1, SpecSum, PTL

\* And so, when write transactions on one order exclude each other, the rows
\* themselves add up to no more than was paid.
THEOREM SumWithinTotal ==
    SerialSpec => [](\A o \in Orders : SumOf(ReservedRows(o)) <= orders[o].total)
<1>1. SerialSpec => [][Next]_vars
    <2>1. [Next /\ Exclusive']_vars => [Next]_vars
        OBVIOUS
    <2> QED BY <2>1, PTL DEF SerialSpec
<1>2. SerialSpec => Spec
    BY <1>1, PTL DEF SerialSpec, Spec
<1>3. NoOverRefund /\ ReservedIsSum => \A o \in Orders : SumOf(ReservedRows(o)) <= orders[o].total
    BY DEF NoOverRefund, ReservedIsSum
<1> QED BY <1>2, <1>3, OverRefundImpossible, ReservedIsTheSum, PTL

-----------------------------------------------------------------------------
(***************************************************************************)
(* What was on record when a transaction began.  A call that is about to   *)
(* insert has compared its amount with a SUM that covers those rows; one   *)
(* that is about to cancel has seen a status and then a shipment that no   *)
(* row among them allows: the evidence of a refund is a lost or delivered  *)
(* shipment or a delivered order, and only the last of these can have      *)
(* appeared between the two reads, together with a new row.                *)
(***************************************************************************)
Room(c) ==
    LET o == req[c].order
    IN  /\ pc[c] = "issue_insert" => req[c].amount + SumOf(Before(c, o)) <= orders[o].total
        /\ pc[c] = "cancel_shipment" => (Before(c, o) # {} => Lost(o))
        /\ pc[c] = "cancel_write" => Before(c, o) = {}

HasRoom(r) == r.id # Seed => r.amount + SumOf(Before(r.id, r.order)) <= orders[r.order].total

RoomInv ==
    /\ HistoryInv
    /\ SumInv
    /\ \A c \in Calls : Room(c)
    /\ \A r \in refunds : HasRoom(r)
    /\ \A r \in refunds : r.reason = "other" => Arrived(r.order)

LEMMA InitRoom == HistoryInit => RoomInv
<1> SUFFICES ASSUME HistoryInit PROVE RoomInv
    OBVIOUS
<1>1. HistoryInv /\ SumInv
    BY InitHistory, InitSum DEF HistoryInit
<1>2. \A r \in refunds : r.id = Seed /\ Arrived(r.order)
    BY DEF HistoryInit, Init, SeedRow, Arrived
<1>3. \A c \in Calls : Room(c)
    BY DEF HistoryInit, Init, Room
<1> QED BY <1>1, <1>2, <1>3 DEF RoomInv, HasRoom

\* The rows a transaction found when it began are among those that count now.
LEMMA BeforeStands ==
    ASSUME HistoryInv, SumInv, NEW c \in Calls, NEW o \in Orders
    PROVE  /\ Before(c, o) \subseteq ReservedRows(o)
           /\ SumOf(Before(c, o)) \in Int /\ SumOf(Before(c, o)) <= reserved[o]
<1>1. Before(c, o) \subseteq ReservedRows(o)
    BY DEF HistoryInv, Searched, Before, ReservedRows
<1>2. \A r \in ReservedRows(o) : r.amount \in Nat
    BY RowType DEF HistoryInv, Inv
<1>3. IsFiniteSet(ReservedRows(o)) /\ reserved[o] = SumOf(ReservedRows(o))
    BY DEF SumInv, SumHolds
<1> QED BY <1>1, <1>2, <1>3, SumOfFewer

LEMMA BeforeKeeps ==
    ASSUME NEW c, earlier'[c] = earlier[c], NEW o
    PROVE  Before(c, o)' = Before(c, o)
BY DEF Before, IsReserved

\* A call that stands still keeps its room: totals and lost shipments stay.
LEMMA OthersRoom ==
    ASSUME TypeOK, Monotone, Remembered, NEW d \in Calls, Room(d),
           pc'[d] = pc[d], req'[d] = req[d]
    PROVE  Room(d)'
<1>1. earlier'[d] = earlier[d]
    BY OthersRemember
<1>2. PICK o : o = req[d].order
    OBVIOUS
<1>3. o \in Orders /\ Before(d, o)' = Before(d, o)
    BY <1>1, <1>2, RequestType, BeforeKeeps
<1>4. orders'[o].total = orders[o].total /\ (Lost(o) => Lost(o)')
    BY <1>3 DEF Monotone
<1> QED BY <1>2, <1>3, <1>4 DEF Room

\* The rows on record keep their bound.
LEMMA OldRowsHaveRoom ==
    ASSUME Inv, Inv', Monotone, Remembered, NEW r \in refunds, HasRoom(r)
    PROVE  HasRoom(r)'
<1>1. CASE r.id = Seed
    BY <1>1 DEF HasRoom
<1>2. CASE r.id # Seed
    <2>1. r.id \in Calls /\ r.order \in Orders
        BY <1>2 DEF Inv, TypeOK, Refund
    <2>2. r \in refunds' /\ orders'[r.order].total = orders[r.order].total
        BY <2>1 DEF Monotone
    <2>3. Before(r.id, r.order)' = Before(r.id, r.order)
        BY <2>1, <2>2, WritersRemember, BeforeKeeps
    <2> QED BY <1>2, <2>2, <2>3 DEF HasRoom
<1> QED BY <1>1, <1>2

\* What the evidence of a row says of a status and a shipment that allow the
\* order to be cancelled.
LEMMA RowsHaveEvidence ==
    ASSUME RoomInv, NEW o \in Orders, ReservedRows(o) # {}, orders[o].status # "cancelled"
    PROVE  Lost(o) \/ orders[o].status = "delivered"
<1>1. PICK r \in ReservedRows(o) : TRUE
    OBVIOUS
<1>2. r \in refunds /\ r.order = o /\ r.reason \in RefundReason
    BY <1>1 DEF ReservedRows, RoomInv, SumInv, Inv, TypeOK, Refund
<1>3. Sound(r) /\ (r.reason = "other" => Arrived(o))
    BY <1>2 DEF RoomInv, SumInv, Inv
<1>4. Lost(o) \/ Arrived(o)
    BY <1>2, <1>3 DEF Sound, RefundReason
<1> QED BY <1>4 DEF Arrived, Lost

\* A step of call c gives its call, and the row it may write, their room.
LEMMA CallRoom ==
    ASSUME RoomInv, Monotone, Remembered, NEW c \in Calls,
           IssueStep(c) \/ CancelStep(c) \/ Answer(c) \/ Crash(c), req' = req,
           \A r \in refunds : HasRoom(r)' /\ (r.reason = "other" => Arrived(r.order)')
    PROVE  /\ Room(c)'
           /\ \A r \in refunds' : HasRoom(r)' /\ (r.reason = "other" => Arrived(r.order)')
<1> USE DEF Goto, Remember, Derive
<1>0. PICK o : o = req[c].order
    OBVIOUS
<1>t. /\ TypeOK /\ o \in Orders /\ orders[o].total \in Nat /\ reserved[o] \in Nat
      /\ c \in DOMAIN pc /\ req[c].amount \in Int
    BY <1>0, RequestType DEF RoomInv, SumInv, Inv, TypeOK, Request
<1>e. /\ orders'[o].total = orders[o].total
      /\ InTx(c) => Before(c, o)' = Before(c, o)
    BY <1>t, OthersRemember, BeforeKeeps DEF Monotone
<1>b. /\ Before(c, o) \subseteq ReservedRows(o)
      /\ SumOf(Before(c, o)) \in Int /\ SumOf(Before(c, o)) <= reserved[o]
    BY <1>t, BeforeStands DEF RoomInv
<1>1. ASSUME refunds' = refunds, pc'[c] \notin {"issue_insert", "cancel_shipment", "cancel_write"}
      PROVE  Room(c)' /\ \A r \in refunds' : HasRoom(r)' /\ (r.reason = "other" => Arrived(r.order)')
    BY <1>1 DEF Room
<1>2. CASE IssueReserved(c)
    <2> InTx(c)
        BY <1>2 DEF IssueReserved, InTx, IssueInTx
    <2>1. refunds' = refunds
        BY <1>2 DEF IssueReserved, table
    <2>2. CASE req[c].amount <= Refundable(orders[o].total, reserved[o])
        <3>1. pc'[c] = "issue_insert" /\ pc[c] = "issue_reserved"
            BY <1>2, <1>0, <1>t, <2>2 DEF IssueReserved
        <3>2. req[c].amount > 0
            BY <1>t, <3>1 DEF RoomInv, SumInv, Inv, CallInv, Established, IssuePc, IssueInTx, ValidAmount
        <3>3. req[c].amount + SumOf(Before(c, o)) <= orders[o].total
            BY <1>t, <1>b, <2>2, <3>2 DEF Refundable
        <3> QED BY <1>0, <1>e, <2>1, <3>1, <3>3 DEF Room
    <2>3. CASE ~(req[c].amount <= Refundable(orders[o].total, reserved[o]))
        <3>1. pc'[c] = "refused"
            BY <1>2, <1>0, <1>t, <2>3 DEF IssueReserved
        <3> QED BY <1>1, <2>1, <3>1
    <2> QED BY <2>2, <2>3
<1>3. CASE IssueInsert(c)
    <2> InTx(c)
        BY <1>3 DEF IssueInsert, InTx, IssueInTx
    <2>1. pc'[c] = "committed"
        BY <1>3, <1>t DEF IssueInsert
    <2>2. /\ reason[c] \in {"lost", "damaged"}
          /\ req[c].amount + SumOf(Before(c, o)) <= orders[o].total
        BY <1>3, <1>0 DEF IssueInsert, RoomInv, Room, SumInv, Inv, CallInv, Established, Deciding
    <2>3. ASSUME NEW r, r = [id |-> c, order |-> o, amount |-> req[c].amount,
                             reason |-> reason[c], status |-> "completed"]
          PROVE  HasRoom(r)' /\ r.reason # "other"
        BY <1>e, <2>2, <2>3 DEF HasRoom
    <2>4. \A r \in refunds' : HasRoom(r)' /\ (r.reason = "other" => Arrived(r.order)')
        BY <1>0, <1>3, <2>3 DEF IssueInsert, Record
    <2> QED BY <2>1, <2>4 DEF Room
<1>4. CASE CancelOrder(c)
    <2>1. refunds' = refunds /\ UNCHANGED <<orders, shipments>>
        BY <1>4 DEF CancelOrder, table
    <2>2. pc'[c] = AfterOrder(c, "cancel_shipment")
        BY <1>4, <1>t DEF CancelOrder
    <2>3. CASE pc'[c] = "cancel_shipment"
        <3>1. orders[o].status \in CancellableStatuses
            BY <1>0, <2>2, <2>3 DEF AfterOrder
        <3>2. ReservedRows(o) # {} => Lost(o)
            BY <1>t, <3>1, RowsHaveEvidence DEF CancellableStatuses
        <3>3. earlier'[c] = refunds
            BY <1>4, <2>3 DEF CancelOrder, Remembered, InTx, IssueInTx, CancelInTx
        <3>4. Before(c, o)' = ReservedRows(o)
            BY <2>1, <3>3 DEF Before, ReservedRows, IsReserved
        <3>5. Room(c)'
            BY <1>0, <2>1, <2>3, <3>2, <3>4 DEF Room, Lost
        <3> QED BY <2>1, <3>5
    <2>4. CASE pc'[c] # "cancel_shipment"
        <3>1. pc'[c] \in {"not_found", "ok", "refused"}
            BY <2>2, <2>4 DEF AfterOrder
        <3> QED BY <1>1, <2>1, <3>1
    <2> QED BY <2>3, <2>4
<1>5. CASE CancelShipment(c)
    <2> InTx(c)
        BY <1>5 DEF CancelShipment, InTx, CancelInTx
    <2>1. refunds' = refunds
        BY <1>5 DEF CancelShipment, table
    <2>2. CASE shipments[o] \in StartedShipmentStatuses
        <3>1. pc'[c] = "refused"
            BY <1>5, <1>0, <1>t, <2>2 DEF CancelShipment
        <3> QED BY <1>1, <2>1, <3>1
    <2>3. CASE shipments[o] \notin StartedShipmentStatuses
        <3>1. pc'[c] = "cancel_write" /\ pc[c] = "cancel_shipment"
            BY <1>5, <1>0, <1>t, <2>3 DEF CancelShipment
        <3>2. Before(c, o) = {}
            BY <1>0, <2>3, <3>1 DEF RoomInv, Room, Lost, StartedShipmentStatuses
        <3>3. Room(c)'
            BY <1>0, <1>e, <3>1, <3>2 DEF Room
        <3> QED BY <2>1, <3>3
    <2> QED BY <2>2, <2>3
<1>6. CASE CancelWrite(c)
    <2> InTx(c)
        BY <1>6 DEF CancelWrite, InTx, CancelInTx
    <2>1. pc'[c] \in {"committed", "db_error"}
        BY <1>6, <1>t DEF CancelWrite
    <2>2. SumOf(Before(c, o)) = 0
        BY <1>0, <1>6, SumOfNone DEF CancelWrite, RoomInv, Room
    <2>3. ASSUME NEW r, r = [id |-> c, order |-> o, amount |-> orders[o].total,
                             reason |-> "reversal", status |-> "completed"]
          PROVE  HasRoom(r)' /\ r.reason # "other"
        BY <1>t, <1>e, <2>2, <2>3 DEF HasRoom
    <2>4. \A r \in refunds' : HasRoom(r)' /\ (r.reason = "other" => Arrived(r.order)')
        BY <1>0, <1>6, <2>3 DEF CancelWrite, Record
    <2> QED BY <2>1, <2>4 DEF Room
<1>7. CASE ~(IssueReserved(c) \/ IssueInsert(c) \/ CancelOrder(c) \/ CancelShipment(c) \/ CancelWrite(c))
    <2>1. refunds' = refunds /\ pc'[c] \notin {"issue_insert", "cancel_shipment", "cancel_write"}
        BY <1>7, <1>t DEF IssueStep, CancelStep, Answer, Crash, IssueGetOrder, IssueGetShipment,
           IssueOrder, IssueShipment, IssueExisting, CancelGetOrder, CancelGetShipment, AfterOrder,
           table
    <2> QED BY <1>1, <2>1
<1> QED BY <1>2, <1>3, <1>4, <1>5, <1>6, <1>7

LEMMA NextRoom == RoomInv /\ [Next /\ Remembered]_historyVars => RoomInv'
<1> SUFFICES ASSUME RoomInv, [Next /\ Remembered]_historyVars PROVE RoomInv'
    OBVIOUS
<1>i. HistoryInv' /\ SumInv' /\ HistoryInv /\ Inv /\ Inv' /\ TypeOK
    <2>1. [Next]_vars
        BY DEF historyVars
    <2> QED BY <2>1, NextHistory, NextSum DEF RoomInv, SumInv, Inv
<1>0. CASE UNCHANGED historyVars
    BY <1>i, <1>0 DEF RoomInv, historyVars, vars, Room, HasRoom, Before, IsReserved, Lost, Arrived
<1>1. CASE Next /\ Remembered
    <2> USE <1>1
    <2>r. ASSUME Monotone
          PROVE  \A r \in refunds : HasRoom(r)' /\ (r.reason = "other" => Arrived(r.order)')
        <3>1. ASSUME NEW r \in refunds PROVE HasRoom(r)'
            BY <1>i, <2>r, OldRowsHaveRoom DEF RoomInv
        <3>2. \A r \in refunds : r.order \in Orders
            BY <1>i DEF TypeOK, Refund
        <3> QED BY <2>r, <3>1, <3>2 DEF RoomInv, Monotone
    <2>1. ASSUME NEW c \in Calls, NEW q \in Requests, Begin(c, q) PROVE RoomInv'
        <3>1. Monotone /\ Only(c) /\ refunds' = refunds
            BY <1>i, <2>1, BeginShape DEF Inv, table
        <3>2. \A d \in Calls \ {c} : Room(d)'
            BY <1>i, <3>1, OthersRoom DEF RoomInv, Only
        <3>3. pc'[c] \in {"issue_get_order", "refused", "cancel_get_order"}
            BY <1>i, <2>1 DEF Begin, IssueBegin, CancelBegin, Arrive, Goto, TypeOK
        <3>4. Room(c)'
            BY <3>3 DEF Room
        <3> QED BY <1>i, <2>r, <3>1, <3>2, <3>4 DEF RoomInv
    <2>2. ASSUME NEW c \in Calls, IssueStep(c) \/ CancelStep(c) \/ Answer(c) \/ Crash(c)
          PROVE  RoomInv'
        <3>1. Monotone /\ Only(c) /\ req' = req
            BY <1>i, <2>2, CallShape
        <3>2. \A d \in Calls \ {c} : Room(d)'
            BY <1>i, <3>1, OthersRoom DEF RoomInv, Only
        <3>3. Room(c)' /\ \A r \in refunds' : HasRoom(r)' /\ (r.reason = "other" => Arrived(r.order)')
            BY <2>r, <2>2, <3>1, CallRoom
        <3> QED BY <1>i, <3>2, <3>3 DEF RoomInv
    <2>3. ASSUME Monotone, UNCHANGED <<refunds, req, pc>> PROVE RoomInv'
        <3>1. \A d \in Calls : Room(d)'
            BY <1>i, <2>3, OthersRoom DEF RoomInv
        <3> QED BY <1>i, <2>r, <2>3, <3>1 DEF RoomInv
    <2>4. ASSUME NEW o \in Orders, AdvanceOrder(o) \/ UpdateShipment(o) PROVE RoomInv'
        BY <1>i, <2>3, <2>4, EnvironmentShape
    <2>5. CASE AllAnswered
        <3>1. Monotone
            BY <2>5 DEF AllAnswered, vars, Monotone, Arrived, Lost
        <3> QED BY <2>3, <2>5, <3>1 DEF AllAnswered, vars
    <2> QED BY <2>1, <2>2, <2>4, <2>5 DEF Next
<1> QED BY <1>0, <1>1

\* A refund or a reversal exceeds what is left only by rows that were written
\* while its own transaction ran.
THEOREM SettledRefundsLeaveTheirRoom == HistorySpec => []SettledRefundsLeaveRoom
<1>1. RoomInv => SettledRefundsLeaveRoom
    BY DEF RoomInv, HasRoom, SettledRefundsLeaveRoom
<1> QED BY <1>1, InitRoom, NextRoom, PTL DEF HistorySpec

=============================================================================
