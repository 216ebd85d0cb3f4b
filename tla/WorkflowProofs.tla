--------------------------- MODULE WorkflowProofs ---------------------------
(***************************************************************************)
(* The workflow as a whole, for every value of the constants: what is      *)
(* proved of the store when write transactions exclude each other, or of   *)
(* requests made one after another, is true under the workflow; an order   *)
(* of somebody else ends a request; and no invocation goes on for ever.    *)
(***************************************************************************)
EXTENDS SupportCaseProofs, RefundSumProofs

(***************************************************************************)
(* The workflow on a store whose write transactions exclude each other.    *)
(***************************************************************************)
SerialSystemSpec == SystemInit /\ [][SystemNext /\ Exclusive']_systemVars

\* Then the workflow implements the store of which the same is said.
LEMMA SerialStoreImplemented == SerialSystemSpec => SerialSpec
<1>1. SystemInit => Init
    BY DEF SystemInit
<1>2. [SystemNext /\ Exclusive']_systemVars => [Next /\ Exclusive']_vars
    <2>1. ASSUME UNCHANGED systemVars PROVE UNCHANGED vars
        BY <2>1 DEF systemVars
    <2>2. ASSUME SystemNext PROVE [Next]_vars
        BY <2>2, SystemStepOnStore
    <2> QED BY <2>1, <2>2
<1> QED BY <1>1, <1>2, PTL DEF SerialSystemSpec, SerialSpec

\* Whatever the models propose and the humans approve, requests whose write
\* transactions exclude each other return no more than was paid for an order,
\* write no refund twice, and neither refund a reversed payment nor reverse a
\* refunded one: they implement the ledger.
THEOREM WorkflowKeepsLedger ==
    SerialSystemSpec =>
        /\ [](NoOverRefund /\ NoDuplicateRefund /\ NoRefundAndReversal)
        /\ ImplementsLedger
    BY SerialStoreImplemented, OverRefundImpossible, DuplicateImpossible, RefundExcludesReversal,
       LedgerImplemented, PTL

(***************************************************************************)
(* The workflow with what was on record when each write transaction began. *)
(***************************************************************************)
SystemHistorySpec ==
    /\ SystemInit /\ earlier = [c \in Calls |-> {}]
    /\ [][SystemNext /\ Remembered]_<<systemVars, earlier>>

Remembering == earlier = [c \in Calls |-> earlier[c]]

LEMMA HistoryStep ==
    Remembering /\ [SystemNext /\ Remembered]_<<systemVars, earlier>>
        => Remembering' /\ [Next /\ Remembered]_historyVars
<1> SUFFICES ASSUME Remembering, [SystemNext /\ Remembered]_<<systemVars, earlier>>
             PROVE  Remembering' /\ [Next /\ Remembered]_historyVars
    OBVIOUS
<1>1. CASE UNCHANGED <<systemVars, earlier>>
    BY <1>1 DEF systemVars, historyVars, Remembering
<1>2. CASE SystemNext /\ Remembered
    <2>1. Remembering'
        BY <1>2 DEF Remembering, Remembered
    <2>2. CASE Next
        BY <1>2, <2>1, <2>2
    <2>3. CASE UNCHANGED vars
        <3>1. \A c \in Calls : earlier'[c] = earlier[c]
            BY <1>2, <2>3 DEF Remembered, InTx, vars
        <3>2. earlier' = earlier
            BY <2>1, <3>1 DEF Remembering
        <3> QED BY <2>1, <2>3, <3>2 DEF historyVars
    <2> QED BY <1>2, <2>2, <2>3, SystemStepOnStore
<1> QED BY <1>1, <1>2

LEMMA HistoryImplemented == SystemHistorySpec => HistorySpec
<1>1. SystemInit /\ earlier = [c \in Calls |-> {}] => HistoryInit /\ Remembering
    BY DEF SystemInit, HistoryInit, Remembering
<1> QED BY <1>1, HistoryStep, PTL DEF SystemHistorySpec, HistorySpec

\* A customer who asks again, after a 500 or no answer at all, is not refunded
\* a second time for the same reason and amount, and never beyond what is left
\* of the order, if the first request's write was committed before the second
\* request's write transaction began.
THEOREM AskingAgainIsSafe ==
    SystemHistorySpec =>
        [](SettledRefundIsFound /\ SettledReversalIsFinal /\ SettledRefundsLeaveRoom)
    BY HistoryImplemented, RetryFindsRefund, RetryReversesNothing, SettledRefundsLeaveTheirRoom, PTL

-----------------------------------------------------------------------------
(***************************************************************************)
(* An order of somebody else.                                              *)
(***************************************************************************)
Searching == {"new", "understand_request", "investigate", "read_only_tools"}
Checking == {"validate_action", "validate_calculate", "validate_order"}

\* The proposal is about an order that is not the customer's.
Foreign(t) ==
    LET s == state[t]
    IN  /\ s.order \in Orders /\ ~OwnsOrder(t)
        /\ s.action = "cancel" \/ (s.action = "refund" /\ s.amount > 0)

\* Nothing is proposed before the search ends, and nothing shown before the
\* verdict; a foreign order does not get past the check.
Barred(t) ==
    /\ node[t] \in Searching => state[t].action = "missing"
    /\ node[t] \in Searching \union ValidateNode => shown[t] = NoProposal
    /\ Foreign(t) =>
          /\ node[t] \in Checking \union {"answered", "dead"}
          /\ shown[t] = NoProposal /\ answer[t] \in {"none", "http_500"}

SameProposal(s, r) ==
    /\ s.customer = r.customer /\ s.order = r.order
    /\ s.action = r.action /\ s.amount = r.amount

LEMMA BarredStays ==
    ASSUME NEW t \in Calls, Barred(t), OwnersStay,
           node'[t] = node[t], state'[t] = state[t], answer'[t] = answer[t], shown'[t] = shown[t]
    PROVE  Barred(t)'
BY DEF Barred, Foreign, OwnsOrder, OwnersStay

\* However an invocation ends early, it can only answer a 500.
LEMMA EndBarred ==
    ASSUME NEW t \in Calls, Barred(t), OwnersStay, node'[t] \in {"answered", "dead"},
           state'[t] = state[t], shown'[t] = shown[t], answer'[t] \in {answer[t], "http_500"}
    PROVE  Barred(t)'
BY DEF Barred, Foreign, OwnsOrder, OwnersStay, Searching, ValidateNode

\* Past the check the order is the customer's own.
LEMMA LateBarred ==
    ASSUME NEW t \in Calls, Barred(t), OwnersStay,
           ~Foreign(t), SameProposal(state'[t], state[t]),
           node'[t] \notin Searching \union ValidateNode
    PROVE  Barred(t)'
BY DEF Barred, Foreign, OwnsOrder, OwnersStay, SameProposal

LEMMA PostBarred ==
    ASSUME SystemInv, NEW t \in Calls, Barred(t), NEW c \in Customers \union Strangers, PostRequest(t, c)
    PROVE  Barred(t)'
<1>1. /\ node[t] = "new" /\ UNCHANGED shown
      /\ state[t].action = "missing" /\ shown[t] = NoProposal
    BY DEF PostRequest, Barred, Searching
<1>2. /\ node'[t] \in {"understand_request", "answered"}
      /\ state'[t] \in {state[t], InitialState(c)}
    BY DEF PostRequest, GoTo, Reply, SystemInv, SystemTypeOK
<1>3. state'[t].action = "missing"
    BY <1>1, <1>2 DEF InitialState
<1> QED
    BY <1>1, <1>3 DEF Barred, Foreign

LEMMA SearchBarred ==
    ASSUME SystemInv, NEW t \in Calls, Barred(t), OutcomeInv(t),
           UnderstandRequest(t) \/ Investigate(t) \/ ReadOnlyTools(t)
    PROVE  Barred(t)'
<1>1. /\ node[t] \in Searching /\ state[t] \in SupportState
      /\ state[t].action = "missing" /\ shown[t] = NoProposal /\ answer[t] = "none"
    BY DEF UnderstandRequest, Investigate, ReadOnlyTools, At, Searching, SystemInv, SystemTypeOK,
       Barred, OutcomeInv, Answered, WorkingNode, GraphNode
<1>2. ASSUME NEW s, NEW n, Superstep(t, s, n),
             n = "validate_action" \/ (n \in Searching /\ s.action = "missing")
      PROVE  Barred(t)'
    <2>1. node'[t] = n /\ state'[t] = s /\ UNCHANGED <<answer, shown>>
        BY <1>2, SuperstepFrame DEF SystemInv
    <2> QED
        BY <1>1, <1>2, <2>1 DEF Barred, Foreign, Searching, Checking
<1>3. CASE UnderstandRequest(t)
    <2>1. PICK u \in Understandings :
             Superstep(t, [state[t] EXCEPT !.intent = u.intent, !.order = u.order], "investigate")
        BY <1>3 DEF UnderstandRequest
    <2>2. [state[t] EXCEPT !.intent = u.intent, !.order = u.order].action = "missing"
        BY <1>1 DEF SupportState
    <2> QED
        BY <1>2, <2>1, <2>2 DEF Searching
<1>4. CASE Investigate(t) \/ ReadOnlyTools(t)
    <2>1. \/ \E n \in {"investigate", "read_only_tools"} : Superstep(t, state[t], n)
          \/ \E s : Superstep(t, s, "validate_action")
        BY <1>4 DEF Investigate, ReadOnlyTools
    <2> QED
        BY <1>1, <1>2, <2>1 DEF Searching
<1> QED
    BY <1>3, <1>4

\* What is decided without the order, or after its owner has been checked.
LEMMA VerdictBarred ==
    ASSUME SystemInv, NEW t \in Calls, Barred(t), OwnersStay, ~Foreign(t), NEW v, NEW r, Validated(t, v, r)
    PROVE  Barred(t)'
<1> DEFINE s == [state[t] EXCEPT !.validation = v, !.requires = r]
<1>1. Superstep(t, s, RouteAfterValidation(s)) /\ SameProposal(s, state[t])
    BY DEF Validated, SystemInv, SystemTypeOK, SupportState, SameProposal
<1> HIDE DEF s
<1>2. node'[t] \notin Searching \union ValidateNode /\ state'[t] = s
    BY <1>1, SuperstepFrame DEF SystemInv, RouteAfterValidation, Searching, ValidateNode
<1> QED
    BY <1>1, <1>2, LateBarred

LEMMA CheckBarred ==
    ASSUME SystemInv, NEW t \in Calls, Barred(t), OutcomeInv(t), OwnersStay,
           ValidateAction(t) \/ ValidateCalculate(t) \/ ValidateOrder(t) \/ ValidateShipment(t)
    PROVE  Barred(t)'
<1>1. /\ node[t] \in ValidateNode /\ UNCHANGED vars /\ state[t] \in SupportState
      /\ shown[t] = NoProposal /\ answer[t] = "none"
    BY DEF ValidateAction, ValidateCalculate, ValidateOrder, ValidateShipment, ValidateNode, At,
       SystemInv, SystemTypeOK, Barred, OutcomeInv, Answered, WorkingNode, GraphNode
<1>2. ASSUME NEW n \in ValidateNode, Within(t, n), n \in Checking \/ ~Foreign(t)
      PROVE  Barred(t)'
    <2>1. node'[t] = n /\ UNCHANGED <<state, answer, shown>>
        BY <1>2, WithinFrame DEF SystemInv
    <2>2. Foreign(t)' <=> Foreign(t)
        BY <1>1, <2>1 DEF Foreign, OwnsOrder, vars
    <2>3. Barred(t)' <=> (Foreign(t) => n \in Checking)
        BY <1>1, <1>2, <2>1, <2>2 DEF Barred, Searching, Checking, ValidateNode
    <2> QED
        BY <1>2, <2>3
<1>3. ASSUME Raise(t) PROVE Barred(t)'
    BY <1>3, RaiseFrame, EndBarred DEF SystemInv
<1>4. CASE ValidateAction(t)
    <2>1. \/ state[t].action = "no_action" /\ Validated(t, "valid", "no")
          \/ state[t].order = NoOrder /\ Invalid(t)
          \/ state[t].action = "refund" /\ state[t].amount <= 0 /\ Invalid(t)
          \/ Within(t, "validate_calculate") \/ Within(t, "validate_order")
        BY <1>1, <1>4 DEF ValidateAction, SupportState, Action
    <2>2. \/ Within(t, "validate_calculate") \/ Within(t, "validate_order")
          \/ ~Foreign(t) /\ (Validated(t, "valid", "no") \/ Invalid(t))
        BY <1>1, <2>1, GraphAssumption DEF Foreign, SupportState
    <2> QED
        BY <1>2, <2>2, VerdictBarred DEF Invalid, ValidateNode, Checking
<1>5. CASE ValidateCalculate(t) \/ ValidateOrder(t)
    <2>1. \/ Raise(t) \/ Within(t, "validate_order")
          \/ OwnsOrder(t) /\ (Invalid(t) \/ Within(t, "validate_shipment"))
        BY <1>5 DEF ValidateCalculate, ValidateOrder
    <2>2. OwnsOrder(t) => ~Foreign(t)
        BY DEF Foreign
    <2> QED
        BY <1>2, <1>3, <2>1, <2>2, VerdictBarred DEF Invalid, ValidateNode, Checking
<1>6. CASE ValidateShipment(t)
    <2>1. ~Foreign(t)
        BY <1>6 DEF ValidateShipment, At, Barred, Checking
    <2> QED
        BY <1>6, <2>1, VerdictBarred DEF ValidateShipment, CancelVerdict, RefundVerdict, Invalid
<1> QED
    BY <1>4, <1>5, <1>6

\* From the human's node on, no step changes what is proposed.
LEMMA LateSteps ==
    ASSUME SystemInv, NEW t \in Calls,
           \/ HumanApproval(t) \/ ExecuteAction(t) \/ ServiceStep(t) \/ ServiceReturns(t)
           \/ SuccessResponse(t) \/ FailureResponse(t) \/ BuildWorkflowResponse(t)
           \/ \E word \in {"approved", "rejected"} : Resume(t, word)
    PROVE  /\ node[t] \notin Checking \union {"answered", "dead"}
           /\ node'[t] \notin Searching \union ValidateNode
           /\ SameProposal(state'[t], state[t])
<1>1. state[t] \in SupportState /\ SystemTypeOK
    BY DEF SystemInv, SystemTypeOK
<1>2. node[t] \notin Checking \union {"answered", "dead"}
    BY DEF HumanApproval, ExecuteAction, ServiceStep, ServiceReturns, SuccessResponse, FailureResponse,
       BuildWorkflowResponse, Resume, At, Checking
<1>3. ASSUME NEW s, NEW n, n \notin Searching \union ValidateNode, Superstep(t, s, n),
             SameProposal(s, state[t])
      PROVE  node'[t] \notin Searching \union ValidateNode /\ SameProposal(state'[t], state[t])
    BY <1>1, <1>3, SuperstepFrame
<1>4. ASSUME NEW n, n \notin Searching \union ValidateNode,
             GoTo(t, n), UNCHANGED state
      PROVE  node'[t] \notin Searching \union ValidateNode /\ SameProposal(state'[t], state[t])
    BY <1>1, <1>4 DEF GoTo, SameProposal, SystemTypeOK
<1>5. ASSUME NEW o, Executed(t, o)
      PROVE  node'[t] \notin Searching \union ValidateNode /\ SameProposal(state'[t], state[t])
    <2> DEFINE s == [state[t] EXCEPT !.executed = o]
    <2>1. Superstep(t, s, RouteAfterExecution(s)) /\ SameProposal(s, state[t])
        BY <1>1, <1>5 DEF Executed, SupportState, SameProposal
    <2> HIDE DEF s
    <2>2. RouteAfterExecution(s) \notin Searching \union ValidateNode
        BY DEF RouteAfterExecution, Searching, ValidateNode
    <2> QED
        BY <1>3, <2>1, <2>2
<1>6. CASE HumanApproval(t)
    <2> DEFINE s == [state[t] EXCEPT !.approval = decision[t]]
    <2>1. SameProposal(s, state[t])
        BY <1>1 DEF SupportState, SameProposal
    <2>2. \/ GoTo(t, "interrupted") /\ UNCHANGED state
          \/ Superstep(t, s, RouteAfterApproval(s))
        BY <1>6 DEF HumanApproval, Within
    <2> HIDE DEF s
    <2>3. RouteAfterApproval(s) \notin Searching \union ValidateNode
        BY DEF RouteAfterApproval, Searching, ValidateNode
    <2> QED
        BY <1>2, <1>3, <1>4, <2>1, <2>2, <2>3 DEF Searching, ValidateNode
<1>7. CASE ExecuteAction(t)
    BY <1>2, <1>4, <1>5, <1>7 DEF ExecuteAction, Within, Searching, ValidateNode
<1>8. CASE ServiceStep(t)
    <2>1. node[t] = "executing" /\ node' = node /\ state' = state
        BY <1>8 DEF ServiceStep, At, graph
    <2> QED
        BY <1>2, <2>1 DEF SameProposal, Searching, ValidateNode
<1>9. CASE ServiceReturns(t)
    BY <1>2, <1>4, <1>5, <1>9 DEF ServiceReturns, Raise, Reply, Searching, ValidateNode
<1>10. CASE SuccessResponse(t) \/ FailureResponse(t)
    <2>1. PICK resolution, text :
             Superstep(t, [state[t] EXCEPT !.resolution = resolution, !.response = text], "end")
        BY <1>10 DEF SuccessResponse, FailureResponse
    <2> DEFINE s == [state[t] EXCEPT !.resolution = resolution, !.response = text]
    <2>2. SameProposal(s, state[t])
        BY <1>1 DEF SupportState, SameProposal
    <2> HIDE DEF s
    <2>3. Superstep(t, s, "end")
        BY <2>1 DEF s
    <2> QED
        BY <1>2, <1>3, <2>2, <2>3 DEF Searching, ValidateNode
<1>11. CASE BuildWorkflowResponse(t) \/ \E word \in {"approved", "rejected"} : Resume(t, word)
    <2>1. \E n \in {"waiting", "answered", "human_approval"} : GoTo(t, n) /\ UNCHANGED state
        BY <1>11 DEF BuildWorkflowResponse, Resume, Reply
    <2> QED
        BY <1>2, <1>4, <2>1 DEF Searching, ValidateNode
<1> QED
    BY <1>6, <1>7, <1>8, <1>9, <1>10, <1>11

LEMMA LateStepBarred ==
    ASSUME SystemInv, NEW t \in Calls, Barred(t), OwnersStay,
           \/ HumanApproval(t) \/ ExecuteAction(t) \/ ServiceStep(t) \/ ServiceReturns(t)
           \/ SuccessResponse(t) \/ FailureResponse(t) \/ BuildWorkflowResponse(t)
           \/ \E word \in {"approved", "rejected"} : Resume(t, word)
    PROVE  Barred(t)'
<1>1. ~Foreign(t)
    BY LateSteps DEF Barred
<1> QED
    BY <1>1, LateSteps, LateBarred

LEMMA FailureBarred ==
    ASSUME SystemInv, NEW t \in Calls, Barred(t), OwnersStay, Fault(t) \/ OutOfSteps(t)
    PROVE  Barred(t)'
<1>1. CASE Raise(t)
    BY <1>1, RaiseFrame, EndBarred DEF SystemInv
<1>2. CASE GoTo(t, "dead") /\ UNCHANGED <<state, answer, shown>>
    <2>1. node'[t] = "dead"
        BY <1>2 DEF GoTo, SystemInv, SystemTypeOK
    <2> QED
        BY <1>2, <2>1, EndBarred
<1> QED
    BY <1>1, <1>2 DEF Fault, OutOfSteps

LEMMA NextBarred ==
    /\ Inv /\ SystemInv /\ CaseInv /\ (\A t \in Calls : Barred(t)) /\ [SystemNext]_systemVars
    => \A t \in Calls : Barred(t)'
<1> SUFFICES ASSUME Inv, SystemInv, CaseInv, \A t \in Calls : Barred(t), [SystemNext]_systemVars
             PROVE  \A t \in Calls : Barred(t)'
    OBVIOUS
<1>1. OwnersStay
    BY SystemStepOnStore, OwnersNeverChange
<1>2. ASSUME NEW t \in Calls, Kept(t), Outcome(t), Barred(t)' PROVE \A u \in Calls : Barred(u)'
    <2>1. ASSUME NEW u \in Calls \ {t} PROVE Barred(u)'
        BY <1>1, <1>2, BarredStays DEF Kept, Apart, Outcome, Aside
    <2> QED BY <1>2, <2>1
<1>3. ASSUME UNCHANGED graph PROVE \A u \in Calls : Barred(u)'
    BY <1>1, <1>3, BarredStays DEF graph
<1>4. CASE \E t \in Calls, c \in Customers \union Strangers : PostRequest(t, c)
    BY <1>2, <1>4, PostKeeps, PostOutcome, PostBarred DEF CaseInv
<1>5. CASE \E t \in Calls, word \in {"approved", "rejected"} : Resume(t, word)
    BY <1>1, <1>2, <1>5, ResumeKeeps, ResumeOutcome, LateStepBarred DEF CaseInv
<1>6. ASSUME NEW t \in Calls, WorkflowStep(t) \/ Fault(t) PROVE \A u \in Calls : Barred(u)'
    <2>1. Barred(t)'
        BY <1>1, <1>6, SearchBarred, CheckBarred, LateStepBarred, FailureBarred DEF CaseInv, WorkflowStep
    <2> QED
        BY <1>2, <1>6, <2>1, WorkflowKeeps, ThreadOutcome DEF CaseInv
<1>7. CASE World \/ UNCHANGED systemVars
    BY <1>3, <1>7 DEF World, systemVars
<1> QED
    BY <1>4, <1>5, <1>6, <1>7 DEF SystemNext, Settled

\* An order of somebody else ends the request where it is validated: no human
\* is asked, no service called, and only a 500 answered.
THEOREM ForeignOrdersEndRequests == SystemSpec => []ForeignOrderEndsRequest
<1> DEFINE B == \A t \in Calls : Barred(t)
<1>1. SystemInit => B
    BY DEF SystemInit, InitialState, Barred, Foreign
<1>2. Inv /\ SystemInv /\ CaseInv /\ B /\ [SystemNext]_systemVars => B'
    BY NextBarred
<1>3. SystemInv /\ B => ForeignOrderEndsRequest
    <2> SUFFICES ASSUME SystemInv, B, NEW t \in Calls, Foreign(t)
                 PROVE  pc[t] = "idle" /\ shown[t] = NoProposal /\ answer[t] \in {"none", "http_500"}
        BY DEF ForeignOrderEndsRequest, Foreign
    <2>1. pc[t] = "idle"
        BY DEF SystemInv, ThreadInv, AfterBegin, Cleared, Passed, OwnOrder, Foreign
    <2> QED
        BY <2>1 DEF Barred
<1> QED
    BY <1>1, <1>2, <1>3, CaseSpecInv, SystemSpecInv, PTL DEF SystemSpec

-----------------------------------------------------------------------------
(***************************************************************************)
(* No invocation goes on for ever.                                         *)
(***************************************************************************)

\* Between two nodes there are fewer steps than a node of the budget is worth.
LEMMA InsideBound ==
    ASSUME NEW n, NEW call
    PROVE  StepsInside(n, call) \in 0 .. 9 /\ StepsInside("executing", call) \in 0 .. 8
BY DEF StepsInside, StatementsLeft

LEMMA InsideValues ==
    /\ StepsInside("validate_action", "idle") = 3
    /\ StepsInside("validate_calculate", "idle") = 2
    /\ StepsInside("validate_order", "idle") = 1
    /\ StepsInside("validate_shipment", "idle") = 0
    /\ StepsInside("execute_action", "idle") = 9
BY DEF StepsInside

LEMMA CallValues ==
    /\ StepsInside("executing", "issue_get_order") = 8
    /\ StepsInside("executing", "issue_get_shipment") = 7
    /\ StepsInside("executing", "issue_order") = 6
    /\ StepsInside("executing", "issue_shipment") = 5
    /\ StepsInside("executing", "issue_existing") = 4
    /\ StepsInside("executing", "issue_reserved") = 3
    /\ StepsInside("executing", "issue_insert") = 2
    /\ StepsInside("executing", "cancel_get_order") = 6
    /\ StepsInside("executing", "cancel_get_shipment") = 5
    /\ StepsInside("executing", "cancel_order") = 4
    /\ StepsInside("executing", "cancel_shipment") = 3
    /\ StepsInside("executing", "cancel_write") = 2
    /\ StepsInside("executing", "committed") = 1
    /\ \A final \in {"ok", "refused", "not_found", "db_error"} : StepsInside("executing", final) = 0
BY DEF StepsInside, StatementsLeft

\* Each statement of a service call leaves fewer to run.
LEMMA CallAdvances ==
    ASSUME Inv, NEW t \in Calls, IssueStep(t) \/ CancelStep(t) \/ Answer(t)
    PROVE  StepsInside("executing", pc'[t]) < StepsInside("executing", pc[t])
<1> USE DEF Goto
<1>0. pc \in [Calls -> {"idle"} \union Running \union Final]
    BY DEF Inv, TypeOK
<1>1. CASE IssueGetOrder(t) \/ IssueGetShipment(t)
    <2>1. \/ pc[t] = "issue_get_order" /\ pc'[t] \in {"issue_get_shipment", "not_found"}
          \/ pc[t] = "issue_get_shipment" /\ pc'[t] \in {"issue_order", "refused"}
        BY <1>0, <1>1 DEF IssueGetOrder, IssueGetShipment
    <2> QED BY <2>1, CallValues
<1>2. CASE IssueOrder(t) \/ IssueShipment(t)
    <2>1. \/ pc[t] = "issue_order" /\ pc'[t] \in {"issue_shipment", "not_found"}
          \/ pc[t] = "issue_shipment" /\ pc'[t] \in {"issue_existing", "refused"}
        BY <1>0, <1>2 DEF IssueOrder, IssueShipment
    <2> QED BY <2>1, CallValues
<1>3. CASE IssueExisting(t) \/ IssueReserved(t) \/ IssueInsert(t)
    <2>1. \/ pc[t] = "issue_existing" /\ pc'[t] \in {"issue_reserved", "ok"}
          \/ pc[t] = "issue_reserved" /\ pc'[t] \in {"issue_insert", "refused"}
          \/ pc[t] = "issue_insert" /\ pc'[t] = "committed"
        BY <1>0, <1>3 DEF IssueExisting, IssueReserved, IssueInsert
    <2> QED BY <2>1, CallValues
<1>4. CASE CancelGetOrder(t) \/ CancelOrder(t)
    <2>1. \/ /\ pc[t] = "cancel_get_order"
             /\ pc'[t] \in {"cancel_get_shipment", "ok", "refused", "not_found"}
          \/ pc[t] = "cancel_order" /\ pc'[t] \in {"cancel_shipment", "ok", "refused", "not_found"}
        BY <1>0, <1>4 DEF CancelGetOrder, CancelOrder, AfterOrder
    <2> QED BY <2>1, CallValues
<1>5. CASE CancelGetShipment(t) \/ CancelShipment(t) \/ CancelWrite(t) \/ Answer(t)
    <2>1. \/ pc[t] = "cancel_get_shipment" /\ pc'[t] \in {"cancel_order", "refused"}
          \/ pc[t] = "cancel_shipment" /\ pc'[t] \in {"cancel_write", "refused"}
          \/ pc[t] = "cancel_write" /\ pc'[t] \in {"committed", "db_error"}
          \/ pc[t] = "committed" /\ pc'[t] = "ok"
        BY <1>0, <1>5 DEF CancelGetShipment, CancelShipment, CancelWrite, Answer
    <2> QED BY <2>1, CallValues
<1> QED
    BY <1>1, <1>2, <1>3, <1>4, <1>5 DEF IssueStep, CancelStep

\* Running a node uses up one of the budget.
LEMMA SuperstepCounts ==
    ASSUME SystemTypeOK, NEW t \in Calls, node[t] \in GraphNode, steps[t] < RecursionLimit,
           NEW s, NEW n \in GraphNode \union {"end"}, Superstep(t, s, n)
    PROVE  StepsLeft(t)' < StepsLeft(t)
<1>1. /\ node'[t] = n /\ steps'[t] = steps[t] + 1
      /\ steps[t] \in Nat /\ RecursionLimit \in Nat
    BY GraphAssumption DEF Superstep, GoTo, SystemTypeOK
<1> DEFINE old == StepsInside(node[t], pc[t])
           new == StepsInside(node'[t], pc'[t])
<1>2. old \in 0 .. 9 /\ new \in 0 .. 9
    BY InsideBound
<1>3. StepsLeft(t) = 2 + 10 * (RecursionLimit - steps[t]) + old
    BY DEF StepsLeft, GraphNode, ValidateNode
<1>4. StepsLeft(t)' \in {2 + 10 * (RecursionLimit - (steps[t] + 1)) + new, 1}
    BY <1>1 DEF StepsLeft, GraphNode, ValidateNode
<1> HIDE DEF old, new
<1> QED
    BY <1>1, <1>2, <1>3, <1>4

\* A step inside a node leaves fewer inside it.
LEMMA InsideCounts ==
    ASSUME SystemTypeOK, NEW t \in Calls, node[t] \in GraphNode, node'[t] \in GraphNode,
           steps'[t] = steps[t],
           StepsInside(node'[t], pc'[t]) < StepsInside(node[t], pc[t])
    PROVE  StepsLeft(t)' < StepsLeft(t)
<1>1. steps[t] \in Nat /\ RecursionLimit \in Nat
    BY GraphAssumption DEF SystemTypeOK
<1> DEFINE old == StepsInside(node[t], pc[t])
           new == StepsInside(node'[t], pc'[t])
<1>2. old \in 0 .. 9 /\ new \in 0 .. 9 /\ new < old
    BY InsideBound
<1>3. StepsLeft(t) = 2 + 10 * (RecursionLimit - steps[t]) + old
    BY DEF StepsLeft, GraphNode, ValidateNode
<1>4. StepsLeft(t)' = 2 + 10 * (RecursionLimit - steps[t]) + new
    BY DEF StepsLeft, GraphNode, ValidateNode
<1> HIDE DEF old, new
<1> QED
    BY <1>1, <1>2, <1>3, <1>4

\* Leaving the graph is the last step but one; answering or dying the last.
LEMMA LeavingCounts ==
    ASSUME SystemTypeOK, NEW t \in Calls, node[t] \in WorkingNode,
           \/ node'[t] = "interrupted" /\ node[t] \in GraphNode
           \/ node'[t] \in RestingNode
    PROVE  StepsLeft(t)' < StepsLeft(t)
<1>1. steps[t] \in 0 .. RecursionLimit /\ RecursionLimit \in Nat
    BY GraphAssumption DEF SystemTypeOK
<1> DEFINE old == StepsInside(node[t], pc[t])
<1>2. old \in 0 .. 9
    BY InsideBound
<1>3. /\ node[t] \in GraphNode => StepsLeft(t) = 2 + 10 * (RecursionLimit - steps[t]) + old
      /\ node[t] \notin GraphNode => StepsLeft(t) = 1
    BY DEF StepsLeft, WorkingNode, GraphNode, ValidateNode
<1> HIDE DEF old
<1>4. StepsLeft(t) >= 1 /\ (node[t] \in GraphNode => StepsLeft(t) >= 2) /\ StepsLeft(t) \in Int
    BY <1>1, <1>2, <1>3
<1>5. /\ node'[t] = "interrupted" => StepsLeft(t)' = 1
      /\ node'[t] \in RestingNode => StepsLeft(t)' = 0
    BY DEF StepsLeft, GraphNode, ValidateNode, RestingNode
<1> QED
    BY <1>4, <1>5

LEMMA RaiseCounts ==
    ASSUME SystemTypeOK, NEW t \in Calls, node[t] \in WorkingNode, Raise(t)
    PROVE  StepsLeft(t)' < StepsLeft(t)
BY RaiseFrame, LeavingCounts DEF RestingNode

LEMMA ReadingCounts ==
    ASSUME SystemTypeOK, NEW t \in Calls,
           \/ UnderstandRequest(t) \/ Investigate(t) \/ ReadOnlyTools(t)
           \/ SuccessResponse(t) \/ FailureResponse(t)
    PROVE  StepsLeft(t)' < StepsLeft(t)
<1>1. node[t] \in GraphNode /\ steps[t] < RecursionLimit
    BY DEF UnderstandRequest, Investigate, ReadOnlyTools, SuccessResponse, FailureResponse, At, GraphNode
<1>2. \E s : \E n \in {"investigate", "read_only_tools", "validate_action", "end"} : Superstep(t, s, n)
    BY DEF UnderstandRequest, Investigate, ReadOnlyTools, SuccessResponse, FailureResponse
<1> QED
    BY <1>1, <1>2, SuperstepCounts DEF GraphNode, ValidateNode

\* Reading, or judging; no call has been made.
LEMMA ValidationCounts ==
    ASSUME SystemInv, NEW t \in Calls,
           ValidateAction(t) \/ ValidateCalculate(t) \/ ValidateOrder(t) \/ ValidateShipment(t)
    PROVE  StepsLeft(t)' < StepsLeft(t)
<1>1. /\ node[t] \in ValidateNode /\ At(t, node[t]) /\ UNCHANGED vars /\ SystemTypeOK
      /\ state[t] \in SupportState
    BY DEF ValidateAction, ValidateCalculate, ValidateOrder, ValidateShipment, ValidateNode, At,
       SystemInv, SystemTypeOK
<1>2. pc[t] = "idle" /\ pc'[t] = "idle" /\ node[t] \in GraphNode /\ steps[t] < RecursionLimit
    BY <1>1, NoCallYet DEF SystemInv, AfterCall, ValidateNode, GraphNode, At, vars
<1>3. ASSUME NEW v, NEW r, Validated(t, v, r) PROVE StepsLeft(t)' < StepsLeft(t)
    <2> DEFINE s == [state[t] EXCEPT !.validation = v, !.requires = r]
    <2>1. Superstep(t, s, RouteAfterValidation(s))
        BY <1>3 DEF Validated
    <2> HIDE DEF s
    <2>2. RouteAfterValidation(s) \in GraphNode
        BY DEF RouteAfterValidation, GraphNode
    <2> QED
        BY <1>1, <1>2, <2>1, <2>2, SuperstepCounts
<1>4. ASSUME NEW n \in GraphNode, Within(t, n),
             StepsInside(n, "idle") < StepsInside(node[t], "idle")
      PROVE  StepsLeft(t)' < StepsLeft(t)
    <2>1. node'[t] = n /\ steps' = steps
        BY <1>1, <1>4 DEF Within, GoTo, SystemTypeOK
    <2> QED
        BY <1>1, <1>2, <1>4, <2>1, InsideCounts
<1>5. CASE Raise(t)
    BY <1>1, <1>2, <1>5, RaiseCounts DEF WorkingNode
<1>6. CASE ValidateAction(t)
    <2>1. /\ node[t] = "validate_action"
          /\ \/ Validated(t, "valid", "no") \/ Invalid(t)
             \/ Within(t, "validate_calculate") \/ Within(t, "validate_order")
        BY <1>1, <1>6 DEF ValidateAction, At, SupportState, Action
    <2> QED
        BY <1>3, <1>4, <2>1, InsideValues DEF Invalid, GraphNode, ValidateNode
<1>7. CASE ValidateCalculate(t) \/ ValidateOrder(t)
    <2>1. \/ Raise(t) \/ Invalid(t)
          \/ node[t] = "validate_calculate" /\ Within(t, "validate_order")
          \/ node[t] = "validate_order" /\ Within(t, "validate_shipment")
        BY <1>7 DEF ValidateCalculate, ValidateOrder, At
    <2> QED
        BY <1>3, <1>4, <1>5, <2>1, InsideValues DEF Invalid, GraphNode, ValidateNode
<1>8. CASE ValidateShipment(t)
    BY <1>3, <1>8 DEF ValidateShipment, CancelVerdict, RefundVerdict, Invalid
<1> QED
    BY <1>6, <1>7, <1>8

LEMMA ApprovalCounts ==
    ASSUME SystemTypeOK, NEW t \in Calls, HumanApproval(t)
    PROVE  StepsLeft(t)' < StepsLeft(t)
<1>1. node[t] \in GraphNode /\ node[t] \in WorkingNode /\ steps[t] < RecursionLimit
    BY DEF HumanApproval, At, GraphNode, WorkingNode
<1>2. CASE Within(t, "interrupted")
    BY <1>1, <1>2, WithinFrame, LeavingCounts
<1>3. CASE decision[t] # "none"
    <2> DEFINE s == [state[t] EXCEPT !.approval = decision[t]]
    <2>1. Superstep(t, s, RouteAfterApproval(s))
        BY <1>3 DEF HumanApproval
    <2> HIDE DEF s
    <2>2. RouteAfterApproval(s) \in GraphNode
        BY DEF RouteAfterApproval, GraphNode
    <2> QED
        BY <1>1, <2>1, <2>2, SuperstepCounts
<1> QED
    BY <1>2, <1>3 DEF HumanApproval

LEMMA ExecutionCounts ==
    ASSUME Inv, SystemInv, NEW t \in Calls, ExecuteAction(t) \/ ServiceStep(t) \/ ServiceReturns(t)
    PROVE  StepsLeft(t)' < StepsLeft(t)
<1>1. /\ node[t] \in {"execute_action", "executing"} /\ node[t] \in GraphNode /\ node[t] \in WorkingNode
      /\ steps[t] < RecursionLimit /\ SystemTypeOK
    BY DEF ExecuteAction, ServiceStep, ServiceReturns, At, GraphNode, WorkingNode, SystemInv
<1>2. ASSUME NEW o, Executed(t, o) PROVE StepsLeft(t)' < StepsLeft(t)
    <2> DEFINE s == [state[t] EXCEPT !.executed = o]
    <2>1. Superstep(t, s, RouteAfterExecution(s))
        BY <1>2 DEF Executed
    <2> HIDE DEF s
    <2>2. RouteAfterExecution(s) \in GraphNode
        BY DEF RouteAfterExecution, GraphNode
    <2> QED
        BY <1>1, <2>1, <2>2, SuperstepCounts
<1>3. CASE ExecuteAction(t) /\ Within(t, "executing")
    <2>1. node[t] = "execute_action" /\ pc[t] = "idle"
        BY <1>3, NoCallYet DEF ExecuteAction, At, SystemInv, AfterCall
    <2>2. node'[t] = "executing" /\ steps' = steps
        BY <1>1, <1>3 DEF Within, GoTo, SystemTypeOK
    <2>3. StepsInside(node'[t], pc'[t]) \in 0 .. 8 /\ StepsInside(node[t], pc[t]) = 9
        BY <2>1, <2>2, InsideBound, InsideValues
    <2> QED
        BY <1>1, <2>2, <2>3, InsideCounts DEF GraphNode
<1>4. CASE ServiceStep(t)
    <2>1. /\ node[t] = "executing" /\ UNCHANGED <<node, steps>>
          /\ IssueStep(t) \/ CancelStep(t) \/ Answer(t)
        BY <1>4 DEF ServiceStep, At, graph
    <2> QED
        BY <1>1, <2>1, CallAdvances, InsideCounts
<1>5. CASE Raise(t)
    BY <1>1, <1>5, RaiseCounts
<1> QED
    BY <1>2, <1>3, <1>4, <1>5 DEF ExecuteAction, ServiceReturns

LEMMA EndingCounts ==
    ASSUME SystemTypeOK, NEW t \in Calls, BuildWorkflowResponse(t) \/ OutOfSteps(t) \/ Fault(t)
    PROVE  StepsLeft(t)' < StepsLeft(t)
<1>1. node[t] \in WorkingNode
    BY DEF BuildWorkflowResponse, OutOfSteps, Fault, WorkingNode
<1>2. CASE Raise(t)
    BY <1>1, <1>2, RaiseCounts
<1>3. ASSUME NEW n \in RestingNode, GoTo(t, n) PROVE StepsLeft(t)' < StepsLeft(t)
    <2>1. node'[t] = n
        BY <1>3 DEF GoTo, SystemTypeOK
    <2> QED
        BY <1>1, <2>1, LeavingCounts
<1> QED
    BY <1>2, <1>3 DEF BuildWorkflowResponse, OutOfSteps, Fault, Reply, RestingNode

LEMMA OwnStepCounts ==
    ASSUME Inv, SystemInv, NEW t \in Calls, WorkflowStep(t) \/ Fault(t)
    PROVE  StepsLeft(t)' < StepsLeft(t)
<1>1. SystemTypeOK
    BY DEF SystemInv
<1> QED
    BY <1>1, ReadingCounts, ValidationCounts, ApprovalCounts, ExecutionCounts, EndingCounts DEF WorkflowStep

\* A step of a thread runs no node of another's budget.
LEMMA BudgetsApart ==
    ASSUME SystemTypeOK, NEW t \in Calls, WorkflowStep(t) \/ Fault(t), NEW u \in Calls \ {t}
    PROVE  steps'[u] = steps[u]
<1>1. steps' = steps \/ steps' = [steps EXCEPT ![t] = @ + 1]
    <2>1. ASSUME NEW s, NEW n, Superstep(t, s, n) PROVE steps' = [steps EXCEPT ![t] = @ + 1]
        BY <2>1 DEF Superstep
    <2>2. ASSUME NEW n, Within(t, n) PROVE steps' = steps
        BY <2>2 DEF Within
    <2>3. Raise(t) => steps' = steps
        BY DEF Raise
    <2>4. CASE UnderstandRequest(t) \/ Investigate(t) \/ ReadOnlyTools(t)
        BY <2>1, <2>4 DEF UnderstandRequest, Investigate, ReadOnlyTools
    <2>5. CASE ValidateAction(t)
        <3>1. state[t].action \in Action \union {"missing"}
            BY DEF SystemTypeOK, SupportState
        <3>2. \/ Validated(t, "valid", "no") \/ Invalid(t)
              \/ Within(t, "validate_calculate") \/ Within(t, "validate_order")
            BY <2>5, <3>1 DEF ValidateAction, Action
        <3> QED
            BY <2>1, <2>2, <3>2 DEF Validated, Invalid
    <2>6. CASE ValidateCalculate(t) \/ ValidateOrder(t)
        BY <2>1, <2>2, <2>3, <2>6 DEF ValidateCalculate, ValidateOrder, Validated, Invalid
    <2>7. CASE ValidateShipment(t)
        BY <2>1, <2>7 DEF ValidateShipment, CancelVerdict, RefundVerdict, Validated, Invalid
    <2>8. CASE HumanApproval(t) \/ ExecuteAction(t) \/ ServiceReturns(t)
        BY <2>1, <2>2, <2>3, <2>8 DEF HumanApproval, ExecuteAction, ServiceReturns, Executed
    <2>9. CASE ServiceStep(t) \/ BuildWorkflowResponse(t)
        BY <2>9 DEF ServiceStep, BuildWorkflowResponse, graph
    <2>10. CASE SuccessResponse(t) \/ FailureResponse(t)
        BY <2>1, <2>10 DEF SuccessResponse, FailureResponse
    <2>11. CASE OutOfSteps(t) \/ Fault(t)
        BY <2>3, <2>11 DEF OutOfSteps, Fault
    <2> QED
        BY <2>4, <2>5, <2>6, <2>7, <2>8, <2>9, <2>10, <2>11 DEF WorkflowStep
<1> QED
    BY <1>1 DEF SystemTypeOK

\* Nothing but its own steps, and its being posted or resumed, moves a thread.
LEMMA OthersLeaveSteps ==
    ASSUME Inv, SystemInv, [SystemNext]_systemVars, NEW t \in Calls, node[t] \in WorkingNode,
           ~(WorkflowStep(t) \/ Fault(t))
    PROVE  StepsLeft(t)' = StepsLeft(t)
<1>1. ASSUME node'[t] = node[t], steps'[t] = steps[t], pc'[t] = pc[t]
      PROVE  StepsLeft(t)' = StepsLeft(t)
    BY <1>1 DEF StepsLeft
<1>2. node[t] \notin {"new", "waiting"}
    BY DEF WorkingNode, GraphNode, ValidateNode
<1>3. ASSUME NEW u \in Calls, \/ \E c \in Customers \union Strangers : PostRequest(u, c)
                              \/ \E word \in {"approved", "rejected"} : Resume(u, word)
      PROVE  StepsLeft(t)' = StepsLeft(t)
    <2>1. u # t
        BY <1>2, <1>3 DEF PostRequest, Resume
    <2>2. node'[t] = node[t] /\ steps'[t] = steps[t] /\ pc' = pc
        BY <1>3, <2>1 DEF PostRequest, Resume, GoTo, Reply, vars, SystemInv, SystemTypeOK
    <2> QED
        BY <1>1, <2>2
<1>4. ASSUME NEW u \in Calls, WorkflowStep(u) \/ Fault(u)
      PROVE  StepsLeft(t)' = StepsLeft(t)
    <2>1. t \in Calls \ {u}
        BY <1>4
    <2>2. node'[t] = node[t] /\ pc'[t] = pc[t]
        BY <1>4, <2>1, WorkflowKeeps DEF Kept, Apart
    <2> QED
        BY <1>1, <1>4, <2>1, <2>2, BudgetsApart DEF SystemInv
<1>5. CASE World
    BY <1>1, <1>5 DEF World, AdvanceOrder, UpdateShipment, graph
<1>6. CASE UNCHANGED systemVars
    BY <1>1, <1>6 DEF systemVars, vars, graph
<1> QED
    BY <1>3, <1>4, <1>5, <1>6 DEF SystemNext, Settled

\* Every step of a thread that is at work uses up one of a bounded number, and
\* nothing that others do gives one back: so no invocation of the graph, for
\* any limit and any models, takes more than 2 + 10 * RecursionLimit + 9 steps.
THEOREM StepsAreCounted == SystemSpec => EveryStepIsCounted
<1> DEFINE Counted ==
        \A t \in Calls :
            node[t] \in WorkingNode =>
                IF WorkflowStep(t) \/ Fault(t) THEN StepsLeft(t)' < StepsLeft(t)
                                              ELSE StepsLeft(t)' = StepsLeft(t)
<1>1. Inv /\ SystemInv /\ [SystemNext]_systemVars => [Counted]_systemVars
    BY OwnStepCounts, OthersLeaveSteps
<1>2. SystemSpec => [][Counted]_systemVars
    BY <1>1, SystemSpecInv, PTL DEF SystemSpec
<1> QED
    BY <1>2 DEF EveryStepIsCounted

=============================================================================
