------------------------- MODULE SupportGraphProofs -------------------------
(***************************************************************************)
(* The workflow does to the tables nothing but what OrderStore's calls do, *)
(* so what is proved of every behaviour of OrderStore is true under the    *)
(* workflow; and an inductive invariant of the workflow itself.            *)
(***************************************************************************)
EXTENDS SupportGraph, OrderStoreProofs

\* A thread's own step is a step of its service call, or leaves the store be.
LEMMA WorkflowStepOnStore ==
    ASSUME NEW t \in Calls, WorkflowStep(t)
    PROVE  [Next]_vars
<1>1. CASE ServiceStep(t)
    BY <1>1 DEF ServiceStep, Next
<1>2. CASE ExecuteAction(t)
    BY <1>2 DEF ExecuteAction, Next
<1>3. CASE UnderstandRequest(t) \/ Investigate(t) \/ ReadOnlyTools(t) \/ HumanApproval(t)
    BY <1>3 DEF UnderstandRequest, Investigate, ReadOnlyTools, HumanApproval
<1>4. CASE ValidateAction(t) \/ ValidateCalculate(t) \/ ValidateOrder(t) \/ ValidateShipment(t)
    BY <1>4 DEF ValidateAction, ValidateCalculate, ValidateOrder, ValidateShipment
<1>5. CASE \/ ServiceReturns(t) \/ SuccessResponse(t) \/ FailureResponse(t)
           \/ BuildWorkflowResponse(t) \/ OutOfSteps(t)
    BY <1>5 DEF ServiceReturns, SuccessResponse, FailureResponse, BuildWorkflowResponse, OutOfSteps
<1> QED
    BY <1>1, <1>2, <1>3, <1>4, <1>5 DEF WorkflowStep

LEMMA SystemStepOnStore ==
    ASSUME [SystemNext]_systemVars
    PROVE  [Next]_vars
<1>1. CASE UNCHANGED systemVars
    BY <1>1 DEF systemVars
<1>2. CASE \E t \in Calls, c \in Customers \union Strangers : PostRequest(t, c)
    BY <1>2 DEF PostRequest
<1>3. CASE \E t \in Calls, word \in {"approved", "rejected"} : Resume(t, word)
    BY <1>3 DEF Resume
<1>4. CASE \E t \in Calls : WorkflowStep(t)
    BY <1>4, WorkflowStepOnStore
<1>5. CASE \E t \in Calls : Fault(t)
    BY <1>5 DEF Fault, Next
<1>6. CASE World
    BY <1>6 DEF World, Next
<1>7. CASE Settled
    BY <1>7 DEF Settled, systemVars
<1> QED
    BY <1>1, <1>2, <1>3, <1>4, <1>5, <1>6, <1>7 DEF SystemNext

\* The workflow implements the store: whatever the models, the humans and the
\* faults do, what the tables and the service calls go through is a behaviour
\* of OrderStore.
THEOREM StoreImplemented == SystemSpec => Spec
<1>1. SystemInit => Init
    BY DEF SystemInit
<1>2. [SystemNext]_systemVars => [Next]_vars
    BY SystemStepOnStore
<1> QED
    BY <1>1, <1>2, PTL DEF SystemSpec, Spec

\* Under the workflow too, every refund row was asked for by the owner of its
\* order, for damage only on a damage claim, and approved where approval is
\* needed (RefundService.issue, whatever the graph passed to it).
THEOREM AuthorisationUnderWorkflow == SystemSpec => []RefundWasAuthorised
    BY StoreImplemented, AuthorisationHolds

\* Under the workflow too, the reason of every refund was true when written,
\* although validation, approval and execution read the world at other times.
THEOREM EvidenceUnderWorkflow == SystemSpec => []RefundHasEvidence
    BY StoreImplemented, EvidenceHolds

-----------------------------------------------------------------------------
(***************************************************************************)
(* What a thread has behind it at each node, and after its service call.   *)
(***************************************************************************)
OwnOrder(t) == state[t].order \in Orders /\ OwnsOrder(t)

\* What the validating node lets pass.
Passed(t) ==
    LET s == state[t]
    IN  /\ s.intent # "missing" /\ s.action # "missing"
        /\ s.validation = "valid" /\ s.requires # "missing"
        /\ s.action # "no_action" => OwnOrder(t)
        /\ s.action = "refund" =>
              /\ s.amount > 0
              /\ NeedsApproval(Damaged(s), s.amount) => s.requires = "yes"

\* What the executing node may act on.
Cleared(t) == Passed(t) /\ (state[t].requires = "yes" => state[t].approval = "approved")

AfterCall == {"executing", "success_response", "failure_response", "end", "answered", "dead"}

BeforeVerdict(t) ==
    LET s == state[t]
    IN  /\ node[t] \in ValidateNode \union {"investigate", "read_only_tools"} => s.intent # "missing"
        /\ node[t] \in ValidateNode => s.action # "missing"
        /\ node[t] \in ValidateNode \ {"validate_action"} =>
              /\ s.order \in Orders /\ s.action # "no_action"
              /\ s.action = "refund" => s.amount > 0
        /\ node[t] = "validate_shipment" => OwnsOrder(t)

AfterVerdict(t) ==
    /\ node[t] \in {"human_approval", "interrupted", "waiting"} => Passed(t)
    /\ node[t] \in {"execute_action", "executing"} => Cleared(t)
    /\ node[t] = "success_response" => state[t].executed = "succeeded"
    /\ node[t] = "end" => state[t].resolution # "missing" /\ state[t].response # "missing"

AfterBegin(t) ==
    pc[t] # "idle" =>
        /\ node[t] \in AfterCall /\ Cleared(t)
        /\ state[t].action # "no_action" /\ req[t] = CallOf(state[t])

ThreadInv(t) == BeforeVerdict(t) /\ AfterVerdict(t) /\ AfterBegin(t)

SystemInv == SystemTypeOK /\ \A t \in Calls : ThreadInv(t)

-----------------------------------------------------------------------------
(***************************************************************************)
(* The forms a step takes.                                                 *)
(***************************************************************************)

\* A step of thread t, seen from the others.
Apart(t) ==
    \A u \in Calls \ {t} :
        node'[u] = node[u] /\ state'[u] = state[u] /\ pc'[u] = pc[u] /\ req'[u] = req[u]

OwnersStay == \A o \in Orders : orders'[o].customer = orders[o].customer

LEMMA OtherThreads ==
    ASSUME NEW u \in Calls, ThreadInv(u), OwnersStay,
           node'[u] = node[u], state'[u] = state[u], pc'[u] = pc[u], req'[u] = req[u]
    PROVE  ThreadInv(u)'
<1> USE DEF OwnersStay, OwnsOrder, OwnOrder
<1>1. BeforeVerdict(u)'
    BY DEF ThreadInv, BeforeVerdict, ValidateNode
<1>2. Passed(u) => Passed(u)'
    BY DEF Passed
<1>3. AfterVerdict(u)'
    BY <1>2 DEF ThreadInv, AfterVerdict, Cleared
<1>4. AfterBegin(u)'
    BY <1>2 DEF ThreadInv, AfterBegin, Cleared
<1> QED
    BY <1>1, <1>3, <1>4 DEF ThreadInv

\* A thread that is not past the executing node has made no call.
LEMMA NoCallYet ==
    ASSUME NEW t \in Calls, ThreadInv(t), node[t] \notin AfterCall
    PROVE  pc[t] = "idle"
BY DEF ThreadInv, AfterBegin

LEMMA SuperstepShape ==
    ASSUME SystemTypeOK, NEW t \in Calls, NEW s \in SupportState, NEW n \in WorkingNode,
           Superstep(t, s, n), UNCHANGED vars, pc[t] \notin Running, steps[t] < RecursionLimit
    PROVE  /\ SystemTypeOK' /\ Apart(t)
           /\ node'[t] = n /\ state'[t] = s
<1> USE DEF SystemTypeOK, Superstep, GoTo, vars
<1>1. steps'[t] \in 0 .. RecursionLimit
    BY GraphAssumption
<1>2. node' \in [Calls -> WorkingNode \union RestingNode] /\ state' \in [Calls -> SupportState]
    OBVIOUS
<1>3. steps' \in [Calls -> 0 .. RecursionLimit] /\ status' \in [Calls -> OrderStatus \union {"none"}]
    BY <1>1
<1>4. \A u \in Calls : pc'[u] \in Running => node'[u] = "executing"
    OBVIOUS
<1> QED
    BY <1>2, <1>3, <1>4 DEF Apart

LEMMA WithinShape ==
    ASSUME SystemTypeOK, NEW t \in Calls, NEW n \in WorkingNode,
           Within(t, n), UNCHANGED vars, pc[t] \notin Running,
           status' \in [Calls -> OrderStatus \union {"none"}]
    PROVE  /\ SystemTypeOK' /\ Apart(t)
           /\ node'[t] = n /\ state' = state
BY DEF SystemTypeOK, Within, GoTo, vars, Apart

\* Raising ends the invocation, whatever the service call has come to.
LEMMA RaiseShape ==
    ASSUME SystemTypeOK, NEW t \in Calls, Raise(t), pc'[t] \notin Running,
           \A u \in Calls \ {t} : pc'[u] = pc[u] /\ req'[u] = req[u]
    PROVE  /\ SystemTypeOK' /\ Apart(t)
           /\ node'[t] = "answered" /\ state' = state
BY DEF SystemTypeOK, Raise, Reply, GoTo, Apart, RestingNode

\* At rest, or done, a thread owes only what its call, if any, rests on.
LEMMA CallStays ==
    ASSUME NEW t \in Calls, AfterBegin(t), OwnersStay, node'[t] \in AfterCall,
           pc[t] = "idle" => pc'[t] = "idle",
           req'[t] = req[t], state'[t] = state[t]
    PROVE  AfterBegin(t)'
<1>1. Passed(t) => Passed(t)'
    BY DEF Passed, OwnOrder, OwnsOrder, OwnersStay
<1> QED
    BY <1>1 DEF AfterBegin, Cleared

LEMMA Resting ==
    ASSUME NEW t \in Calls, AfterBegin(t)', node'[t] \in {"new", "answered", "dead"}
    PROVE  ThreadInv(t)'
BY DEF ThreadInv, BeforeVerdict, AfterVerdict, ValidateNode

-----------------------------------------------------------------------------
(***************************************************************************)
(* Every step keeps the invariant of its own thread.                       *)
(***************************************************************************)

Kept(t) == SystemTypeOK' /\ ThreadInv(t)' /\ Apart(t)

\* Up to the verdict: no call has been made, and none is.
LEMMA EarlySuperstep ==
    ASSUME SystemInv, NEW t \in Calls, node[t] \notin AfterCall, At(t, node[t]), UNCHANGED vars,
           NEW s \in SupportState, NEW n \in WorkingNode, Superstep(t, s, n),
           BeforeVerdict(t)', AfterVerdict(t)'
    PROVE  Kept(t)
<1>1. pc[t] = "idle"
    BY NoCallYet DEF SystemInv
<1>2. pc'[t] = "idle"
    BY <1>1 DEF vars
<1>3. SystemTypeOK' /\ Apart(t)
    BY <1>1, SuperstepShape DEF SystemInv, At, Running, IssuePc, CancelPc, IssueInTx, CancelInTx
<1> QED
    BY <1>2, <1>3 DEF Kept, ThreadInv, AfterBegin

LEMMA EarlyWithin ==
    ASSUME SystemInv, NEW t \in Calls, node[t] \notin AfterCall, UNCHANGED vars,
           NEW n \in WorkingNode, Within(t, n), status' \in [Calls -> OrderStatus \union {"none"}],
           BeforeVerdict(t)', AfterVerdict(t)'
    PROVE  Kept(t)
<1>1. pc[t] = "idle"
    BY NoCallYet DEF SystemInv
<1>2. pc'[t] = "idle"
    BY <1>1 DEF vars
<1>3. SystemTypeOK' /\ Apart(t)
    BY <1>1, WithinShape DEF SystemInv, Running, IssuePc, CancelPc, IssueInTx, CancelInTx
<1> QED
    BY <1>2, <1>3 DEF Kept, ThreadInv, AfterBegin

\* An exception, wherever it comes from, while the store rests.
LEMMA RaiseKeeps ==
    ASSUME Inv, SystemInv, NEW t \in Calls, Raise(t), UNCHANGED vars, pc[t] \notin Running
    PROVE  Kept(t)
<1>1. SystemTypeOK' /\ Apart(t) /\ node'[t] = "answered" /\ state' = state
    BY RaiseShape DEF SystemInv, vars
<1>2. AfterBegin(t)'
    BY <1>1, CallStays DEF SystemInv, ThreadInv, vars, OwnersStay, AfterCall
<1> QED
    BY <1>1, <1>2, Resting DEF Kept

LEMMA PostKeeps ==
    ASSUME SystemInv, NEW t \in Calls, NEW c \in Customers \union Strangers, PostRequest(t, c)
    PROVE  Kept(t)
<1>1. pc[t] = "idle" /\ pc' = pc /\ req' = req
    BY NoCallYet DEF SystemInv, PostRequest, AfterCall, vars
<1>2. Apart(t)
    BY <1>1 DEF PostRequest, GoTo, Reply, SystemInv, SystemTypeOK, Apart
<1>3. InitialState(c) \in SupportState
    BY DEF InitialState, SupportState
<1>4. node'[t] \in {"understand_request", "answered"}
    BY DEF PostRequest, GoTo, Reply, SystemInv, SystemTypeOK
<1>5. SystemTypeOK'
    BY <1>1, <1>3 DEF PostRequest, GoTo, Reply, SystemInv, SystemTypeOK, WorkingNode, GraphNode, RestingNode,
          Running, IssuePc, CancelPc, IssueInTx, CancelInTx
<1>6. ThreadInv(t)'
    BY <1>1, <1>4 DEF ThreadInv, BeforeVerdict, AfterVerdict, AfterBegin, ValidateNode
<1> QED
    BY <1>2, <1>5, <1>6 DEF Kept

LEMMA UnderstandKeeps ==
    ASSUME SystemInv, NEW t \in Calls, UnderstandRequest(t)
    PROVE  Kept(t)
<1>1. PICK u \in Understandings :
         Superstep(t, [state[t] EXCEPT !.intent = u.intent, !.order = u.order], "investigate")
    BY DEF UnderstandRequest
<1> DEFINE s == [state[t] EXCEPT !.intent = u.intent, !.order = u.order]
<1>2. u \in Understanding
    BY GraphAssumption
<1>3. state[t] \in SupportState
    BY DEF SystemInv, SystemTypeOK
<1>4. s \in SupportState /\ s.intent # "missing"
    BY <1>2, <1>3 DEF SupportState, Understanding, SupportIntent
<1>5. node'[t] = "investigate" /\ state'[t] = s
    BY <1>1 DEF Superstep, GoTo, SystemInv, SystemTypeOK
<1>6. BeforeVerdict(t)' /\ AfterVerdict(t)'
    BY <1>4, <1>5 DEF BeforeVerdict, AfterVerdict, ValidateNode
<1>7. node[t] \notin AfterCall /\ At(t, node[t]) /\ UNCHANGED vars
    BY DEF UnderstandRequest, At, AfterCall
<1> QED
    BY <1>1, <1>4, <1>6, <1>7, EarlySuperstep DEF WorkingNode, GraphNode

LEMMA InvestigateKeeps ==
    ASSUME SystemInv, NEW t \in Calls, Investigate(t) \/ ReadOnlyTools(t)
    PROVE  Kept(t)
<1>1. /\ node[t] \in {"investigate", "read_only_tools"} /\ node[t] \notin AfterCall
      /\ At(t, node[t]) /\ UNCHANGED vars
    BY DEF Investigate, ReadOnlyTools, At, AfterCall
<1>2. state[t] \in SupportState /\ state[t].intent # "missing"
    BY <1>1 DEF SystemInv, SystemTypeOK, ThreadInv, BeforeVerdict
<1>3. ASSUME NEW n \in {"investigate", "read_only_tools"}, Superstep(t, state[t], n)
      PROVE  Kept(t)
    <2>1. node'[t] = n /\ state'[t] = state[t]
        BY <1>3 DEF Superstep, GoTo, SystemInv, SystemTypeOK
    <2>2. BeforeVerdict(t)' /\ AfterVerdict(t)'
        BY <1>2, <2>1 DEF BeforeVerdict, AfterVerdict, ValidateNode
    <2> QED
        BY <1>1, <1>2, <1>3, <2>2, EarlySuperstep DEF WorkingNode, GraphNode
<1>4. ASSUME NEW p \in Proposals,
             Superstep(t, [state[t] EXCEPT !.action = p.action, !.amount = p.amount], "validate_action")
      PROVE  Kept(t)
    <2> DEFINE s == [state[t] EXCEPT !.action = p.action, !.amount = p.amount]
    <2>1. p \in ProposedAction
        BY GraphAssumption
    <2>2. s \in SupportState /\ s.action # "missing" /\ s.intent # "missing"
        BY <1>2, <2>1 DEF SupportState, ProposedAction, Action
    <2>3. node'[t] = "validate_action" /\ state'[t] = s
        BY <1>4 DEF Superstep, GoTo, SystemInv, SystemTypeOK
    <2>4. BeforeVerdict(t)' /\ AfterVerdict(t)'
        BY <2>2, <2>3 DEF BeforeVerdict, AfterVerdict, ValidateNode
    <2> QED
        BY <1>1, <1>4, <2>2, <2>4, EarlySuperstep DEF WorkingNode, GraphNode, ValidateNode
<1> QED
    BY <1>3, <1>4 DEF Investigate, ReadOnlyTools

\* A verdict leads where its route says, with what the route relies on.
LEMMA ValidatedKeeps ==
    ASSUME SystemInv, NEW t \in Calls, node[t] \in ValidateNode, At(t, node[t]), UNCHANGED vars,
           NEW v \in {"valid", "invalid"}, NEW r \in {"yes", "no"}, Validated(t, v, r),
           v = "valid" =>
               /\ state[t].action # "no_action" => OwnOrder(t)
               /\ state[t].action = "refund" =>
                     /\ state[t].amount > 0
                     /\ NeedsApproval(Damaged(state[t]), state[t].amount) => r = "yes"
    PROVE  Kept(t)
<1> DEFINE s == [state[t] EXCEPT !.validation = v, !.requires = r]
<1>1. state[t] \in SupportState /\ state[t].intent # "missing" /\ state[t].action # "missing"
    BY DEF SystemInv, SystemTypeOK, ThreadInv, BeforeVerdict
<1>2. s \in SupportState /\ s.validation = v /\ s.requires = r
    BY <1>1 DEF SupportState
<1>3. /\ s.intent = state[t].intent /\ s.action = state[t].action
      /\ s.amount = state[t].amount /\ s.order = state[t].order /\ s.customer = state[t].customer
    BY <1>1 DEF SupportState
<1>4. Superstep(t, s, RouteAfterValidation(s))
    BY DEF Validated
<1> HIDE DEF s
<1> DEFINE n == RouteAfterValidation(s)
<1>5. \/ v = "invalid" /\ n = "failure_response"
      \/ v = "valid" /\ r = "yes" /\ n = "human_approval"
      \/ v = "valid" /\ r = "no" /\ n = "execute_action"
    BY <1>2 DEF RouteAfterValidation
<1>6. node'[t] = n /\ state'[t] = s
    BY <1>4 DEF Superstep, GoTo, SystemInv, SystemTypeOK
<1>10. Superstep(t, s, n)
    BY <1>4
<1> HIDE DEF n
<1>7. v = "valid" => Passed(t)'
    BY <1>1, <1>2, <1>3, <1>6 DEF Passed, OwnOrder, OwnsOrder, Damaged, vars
<1>8. AfterVerdict(t)'
    BY <1>2, <1>5, <1>6, <1>7 DEF AfterVerdict, Cleared
<1>9. BeforeVerdict(t)'
    BY <1>5, <1>6 DEF BeforeVerdict, ValidateNode
<1> QED
    BY <1>2, <1>10, <1>5, <1>8, <1>9, EarlySuperstep
    DEF WorkingNode, GraphNode, AfterCall, ValidateNode

\* The validating node goes on reading.
LEMMA ReadingKeeps ==
    ASSUME SystemInv, NEW t \in Calls, node[t] \in ValidateNode, UNCHANGED vars,
           NEW n \in ValidateNode \ {"validate_action"}, Within(t, n),
           status' \in [Calls -> OrderStatus \union {"none"}],
           state[t].order \in Orders, state[t].action # "no_action",
           state[t].action = "refund" => state[t].amount > 0,
           n = "validate_shipment" => OwnsOrder(t)
    PROVE  Kept(t)
<1>1. node'[t] = n /\ state' = state
    BY DEF Within, GoTo, SystemInv, SystemTypeOK
<1>2. BeforeVerdict(t)'
    BY <1>1 DEF SystemInv, ThreadInv, BeforeVerdict, OwnsOrder, vars
<1>3. AfterVerdict(t)'
    BY <1>1 DEF AfterVerdict, ValidateNode
<1> QED
    BY <1>2, <1>3, EarlyWithin DEF WorkingNode, GraphNode, AfterCall, ValidateNode

LEMMA ValidateActionKeeps ==
    ASSUME SystemInv, NEW t \in Calls, ValidateAction(t)
    PROVE  Kept(t)
<1>1. node[t] = "validate_action" /\ At(t, node[t]) /\ UNCHANGED vars
    BY DEF ValidateAction, At
<1>2. state[t] \in SupportState /\ status \in [Calls -> OrderStatus \union {"none"}]
    BY DEF SystemInv, SystemTypeOK
<1>3. state[t].action \in {"refund", "cancel", "no_action"}
    BY <1>1, <1>2 DEF SystemInv, ThreadInv, BeforeVerdict, ValidateNode, SupportState, Action
<1>4. state[t].amount \in Int /\ (state[t].order # NoOrder => state[t].order \in Orders)
    BY <1>2 DEF SupportState
<1>5. CASE state[t].action = "no_action"
    <2>1. Validated(t, "valid", "no")
        BY <1>5 DEF ValidateAction
    <2> QED
        BY <1>1, <1>5, <2>1, ValidatedKeeps DEF ValidateNode
<1>6. CASE Invalid(t)
    BY <1>1, <1>6, ValidatedKeeps DEF ValidateNode, Invalid
<1>7. CASE /\ state[t].action = "refund" /\ state[t].order # NoOrder /\ ~(state[t].amount <= 0)
           /\ Within(t, "validate_calculate") /\ UNCHANGED status
    <2>1. state[t].amount > 0
        BY <1>4, <1>7
    <2> QED
        BY <1>1, <1>2, <1>4, <1>7, <2>1, ReadingKeeps DEF ValidateNode
<1>8. CASE /\ state[t].action = "cancel" /\ state[t].order # NoOrder
           /\ Within(t, "validate_order") /\ UNCHANGED status
    BY <1>1, <1>2, <1>4, <1>8, ReadingKeeps DEF ValidateNode
<1> QED
    BY <1>3, <1>5, <1>6, <1>7, <1>8 DEF ValidateAction

LEMMA ValidateReadsKeep ==
    ASSUME Inv, SystemInv, NEW t \in Calls, ValidateCalculate(t) \/ ValidateOrder(t)
    PROVE  Kept(t)
<1>1. /\ node[t] \in ValidateNode \ {"validate_action"} /\ node[t] \notin AfterCall
      /\ At(t, node[t]) /\ UNCHANGED vars
    BY DEF ValidateCalculate, ValidateOrder, At, ValidateNode, AfterCall
<1>2. /\ state[t].order \in Orders /\ state[t].action # "no_action"
      /\ state[t].action = "refund" => state[t].amount > 0
    BY <1>1 DEF SystemInv, ThreadInv, BeforeVerdict
<1>3. status \in [Calls -> OrderStatus \union {"none"}]
    BY DEF SystemInv, SystemTypeOK
<1>4. pc[t] \notin Running
    BY <1>1, NoCallYet DEF SystemInv, Running, IssuePc, CancelPc, IssueInTx, CancelInTx
<1>5. CASE Raise(t)
    BY <1>1, <1>4, <1>5, RaiseKeeps
<1>6. CASE Invalid(t)
    BY <1>1, <1>6, ValidatedKeeps DEF ValidateNode, Invalid
<1>7. CASE Within(t, "validate_order") /\ UNCHANGED status
    BY <1>1, <1>2, <1>3, <1>7, ReadingKeeps DEF ValidateNode
<1>8. CASE /\ OwnsOrder(t) /\ Within(t, "validate_shipment")
           /\ status' = [status EXCEPT ![t] = orders[state[t].order].status]
    <2>1. orders[state[t].order].status \in OrderStatus
        BY <1>2 DEF Inv, TypeOK, Order
    <2> QED
        BY <1>1, <1>2, <1>3, <1>8, <2>1, ReadingKeeps DEF ValidateNode
<1> QED
    BY <1>5, <1>6, <1>7, <1>8 DEF ValidateCalculate, ValidateOrder

LEMMA ValidateShipmentKeeps ==
    ASSUME SystemInv, NEW t \in Calls, ValidateShipment(t)
    PROVE  Kept(t)
<1>1. node[t] = "validate_shipment" /\ At(t, node[t]) /\ UNCHANGED vars
    BY DEF ValidateShipment, At
<1>2. OwnOrder(t) /\ (state[t].action = "refund" => state[t].amount > 0)
    BY <1>1 DEF SystemInv, ThreadInv, BeforeVerdict, ValidateNode, OwnOrder
<1>3. CASE Invalid(t)
    BY <1>1, <1>3, ValidatedKeeps DEF ValidateNode, Invalid
<1>4. CASE state[t].action = "cancel" /\ Validated(t, "valid", "no")
    BY <1>1, <1>2, <1>4, ValidatedKeeps DEF ValidateNode
<1>5. CASE Validated(t, "valid", IF NeedsApproval(Damaged(state[t]), state[t].amount) THEN "yes" ELSE "no")
    BY <1>1, <1>2, <1>5, ValidatedKeeps DEF ValidateNode
<1> QED
    BY <1>3, <1>4, <1>5 DEF ValidateShipment, CancelVerdict, RefundVerdict

\* What the verdict rests on stays while the state's other fields change.
SameRequest(s, r) ==
    /\ s.customer = r.customer /\ s.intent = r.intent /\ s.order = r.order
    /\ s.action = r.action /\ s.amount = r.amount
    /\ s.validation = r.validation /\ s.requires = r.requires

LEMMA PassedStays ==
    ASSUME NEW t \in Calls, Passed(t), OwnersStay, SameRequest(state'[t], state[t])
    PROVE  Passed(t)'
BY DEF Passed, OwnOrder, OwnsOrder, OwnersStay, SameRequest, Damaged

LEMMA HumanApprovalKeeps ==
    ASSUME SystemInv, NEW t \in Calls, HumanApproval(t)
    PROVE  Kept(t)
<1>1. /\ node[t] = "human_approval" /\ node[t] \notin AfterCall
      /\ At(t, node[t]) /\ UNCHANGED vars
    BY DEF HumanApproval, At, AfterCall
<1>2. Passed(t) /\ state[t] \in SupportState /\ decision[t] \in {"none", "approved", "rejected"}
    BY <1>1 DEF SystemInv, SystemTypeOK, ThreadInv, AfterVerdict
<1>3. OwnersStay
    BY <1>1 DEF OwnersStay, vars
<1>4. CASE Within(t, "interrupted") /\ UNCHANGED status
    <2>1. node'[t] = "interrupted" /\ state' = state /\ status' \in [Calls -> OrderStatus \union {"none"}]
        BY <1>4 DEF Within, GoTo, SystemInv, SystemTypeOK
    <2>2. Passed(t)'
        BY <1>2, <1>3, <2>1, PassedStays DEF SameRequest
    <2>3. BeforeVerdict(t)' /\ AfterVerdict(t)'
        BY <2>1, <2>2 DEF BeforeVerdict, AfterVerdict, ValidateNode
    <2> QED
        BY <1>1, <1>4, <2>1, <2>3, EarlyWithin DEF WorkingNode
<1>5. CASE decision[t] # "none"
    <2> DEFINE s == [state[t] EXCEPT !.approval = decision[t]]
    <2>1. s \in SupportState /\ SameRequest(s, state[t]) /\ s.approval = decision[t]
        BY <1>2, <1>5 DEF SupportState, SameRequest
    <2>2. Superstep(t, s, RouteAfterApproval(s))
        BY <1>5 DEF HumanApproval
    <2> HIDE DEF s
    <2> DEFINE n == RouteAfterApproval(s)
    <2>3. \/ n = "execute_action" /\ s.approval = "approved"
          \/ n = "failure_response"
        BY DEF RouteAfterApproval
    <2>4. node'[t] = n /\ state'[t] = s
        BY <2>2 DEF Superstep, GoTo, SystemInv, SystemTypeOK
    <2>5. Passed(t)'
        BY <1>2, <1>3, <2>1, <2>4, PassedStays
    <2>6. AfterVerdict(t)' /\ BeforeVerdict(t)'
        BY <2>3, <2>4, <2>5 DEF AfterVerdict, BeforeVerdict, Cleared, ValidateNode
    <2>7. n \in WorkingNode
        BY <2>3 DEF WorkingNode, GraphNode
    <2>8. Superstep(t, s, n)
        BY <2>2
    <2> HIDE DEF n
    <2> QED
        BY <1>1, <2>1, <2>6, <2>7, <2>8, EarlySuperstep
<1> QED
    BY <1>4, <1>5 DEF HumanApproval

LEMMA ResumeKeeps ==
    ASSUME SystemInv, NEW t \in Calls, NEW word \in {"approved", "rejected"}, Resume(t, word)
    PROVE  Kept(t)
<1>1. node[t] = "waiting" /\ UNCHANGED vars /\ state' = state
    BY DEF Resume
<1>2. pc[t] = "idle" /\ pc'[t] = "idle" /\ Passed(t)
    BY <1>1, NoCallYet DEF SystemInv, ThreadInv, AfterVerdict, AfterCall, vars
<1>3. node'[t] = "human_approval"
    BY DEF Resume, GoTo, SystemInv, SystemTypeOK
<1>4. Passed(t)'
    BY <1>1, <1>2, PassedStays DEF SameRequest, OwnersStay, vars
<1>5. ThreadInv(t)'
    BY <1>2, <1>3, <1>4 DEF ThreadInv, BeforeVerdict, AfterVerdict, AfterBegin, ValidateNode
<1>6. Apart(t)
    BY <1>1 DEF Apart, Resume, GoTo, SystemInv, SystemTypeOK, vars
<1>7. SystemTypeOK'
    BY <1>1, <1>2, GraphAssumption DEF Resume, GoTo, SystemInv, SystemTypeOK, vars, WorkingNode, GraphNode,
          Running, IssuePc, CancelPc, IssueInTx, CancelInTx
<1> QED
    BY <1>5, <1>6, <1>7 DEF Kept

\* From the executing node on, a thread may have made its call; its node and
\* state go on, and what the call rests on stays.
LEMMA LateSuperstep ==
    ASSUME SystemInv, NEW t \in Calls, node[t] \in AfterCall \union {"execute_action"},
           pc[t] \notin Running, At(t, node[t]), UNCHANGED vars,
           NEW s \in SupportState, NEW n \in {"success_response", "failure_response", "end"},
           Superstep(t, s, n), SameRequest(s, state[t]), s.approval = state[t].approval,
           n = "success_response" => s.executed = "succeeded",
           n = "end" => s.resolution # "missing" /\ s.response # "missing"
    PROVE  Kept(t)
<1>1. SystemTypeOK' /\ Apart(t) /\ node'[t] = n /\ state'[t] = s
    BY SuperstepShape DEF SystemInv, At, WorkingNode, GraphNode
<1>2. BeforeVerdict(t)' /\ AfterVerdict(t)'
    BY <1>1 DEF BeforeVerdict, AfterVerdict, ValidateNode
<1>3. Passed(t) => Passed(t)'
    BY <1>1, PassedStays DEF OwnersStay, vars
<1>4. CallOf(s) = CallOf(state[t])
    BY DEF CallOf, SameRequest, Damaged
<1>5. n \in AfterCall
    BY DEF AfterCall
<1>6. AfterBegin(t)'
    BY <1>1, <1>3, <1>4, <1>5 DEF SystemInv, ThreadInv, AfterBegin, Cleared, SameRequest, vars
<1> QED
    BY <1>1, <1>2, <1>6 DEF Kept, ThreadInv

LEMMA ExecuteActionKeeps ==
    ASSUME Inv, SystemInv, NEW t \in Calls, ExecuteAction(t)
    PROVE  Kept(t)
<1>1. node[t] = "execute_action" /\ node[t] \notin AfterCall /\ At(t, node[t])
    BY DEF ExecuteAction, At, AfterCall
<1>2. Cleared(t) /\ state[t] \in SupportState
    BY <1>1 DEF SystemInv, SystemTypeOK, ThreadInv, AfterVerdict
<1>3. pc[t] = "idle"
    BY <1>1, NoCallYet DEF SystemInv
<1>4. CASE state[t].action = "no_action"
    <2> DEFINE s == [state[t] EXCEPT !.executed = "succeeded"]
    <2>1. s \in SupportState /\ SameRequest(s, state[t])
          /\ s.approval = state[t].approval /\ s.executed = "succeeded"
        BY <1>2 DEF SupportState, SameRequest
    <2>2. Superstep(t, s, RouteAfterExecution(s)) /\ UNCHANGED vars
        BY <1>2, <1>4 DEF ExecuteAction, Executed, Cleared
    <2> HIDE DEF s
    <2>3. Superstep(t, s, "success_response")
        BY <2>1, <2>2 DEF RouteAfterExecution
    <2> QED
        BY <1>1, <1>3, <2>1, <2>2, <2>3, LateSuperstep
        DEF Running, IssuePc, CancelPc, IssueInTx, CancelInTx
<1>5. CASE state[t].action # "no_action"
    <2>1. Within(t, "executing") /\ UNCHANGED status
        BY <1>2, <1>5 DEF ExecuteAction, Cleared
    <2>2. PICK q \in Requests : q = CallOf(state[t]) /\ Begin(t, q)
        BY <1>2, <1>5 DEF ExecuteAction, Cleared
    <2>3. Monotone /\ Only(t)
        BY <2>2, BeginShape DEF Inv
    <2>4. req'[t] = CallOf(state[t])
        BY <2>2 DEF Inv, TypeOK, Begin, IssueBegin, CancelBegin, Arrive
    <2>5. node'[t] = "executing" /\ state' = state
        BY <2>1 DEF Within, GoTo, SystemInv, SystemTypeOK
    <2>6. Apart(t)
        BY <2>1, <2>3 DEF Apart, Only, Within, GoTo, SystemInv, SystemTypeOK
    <2>7. SystemTypeOK'
        BY <2>1, <2>5, <2>6 DEF SystemInv, SystemTypeOK, Within, GoTo, Apart, WorkingNode, GraphNode
    <2>8. Passed(t)'
        BY <1>2, <2>3, <2>5, PassedStays DEF Cleared, SameRequest, Monotone, OwnersStay
    <2>9. ThreadInv(t)'
        BY <1>2, <1>5, <2>4, <2>5, <2>8
        DEF ThreadInv, BeforeVerdict, AfterVerdict, AfterBegin, Cleared, ValidateNode, AfterCall
    <2> QED
        BY <2>6, <2>7, <2>9 DEF Kept
<1> QED
    BY <1>4, <1>5

LEMMA ServiceStepKeeps ==
    ASSUME Inv, SystemInv, NEW t \in Calls, ServiceStep(t)
    PROVE  Kept(t)
<1>1. node[t] = "executing" /\ UNCHANGED graph /\ (IssueStep(t) \/ CancelStep(t) \/ Answer(t))
    BY DEF ServiceStep, At
<1>2. Monotone /\ Only(t) /\ req' = req
    BY <1>1, CallShape DEF Inv
<1>3. pc[t] # "idle"
    BY <1>1 DEF IssueStep, CancelStep, Answer, IssueGetOrder, IssueGetShipment, IssueOrder,
          IssueShipment, IssueExisting, IssueReserved, IssueInsert, CancelGetOrder,
          CancelGetShipment, CancelOrder, CancelShipment, CancelWrite
<1>4. Apart(t)
    BY <1>1, <1>2 DEF Apart, Only, graph
<1>5. SystemTypeOK'
    BY <1>1, <1>4 DEF SystemInv, SystemTypeOK, Apart, graph
<1>6. AfterBegin(t)'
    BY <1>1, <1>2, <1>3, CallStays
    DEF SystemInv, ThreadInv, graph, OwnersStay, Monotone, AfterCall
<1>7. Cleared(t)
    BY <1>1 DEF SystemInv, ThreadInv, AfterVerdict
<1>8. Cleared(t)'
    BY <1>1, <1>2, <1>7, PassedStays DEF Cleared, SameRequest, graph, Monotone, OwnersStay
<1>9. ThreadInv(t)'
    BY <1>1, <1>6, <1>8 DEF ThreadInv, BeforeVerdict, AfterVerdict, ValidateNode, graph
<1> QED
    BY <1>4, <1>5, <1>9 DEF Kept

LEMMA ServiceReturnsKeeps ==
    ASSUME Inv, SystemInv, NEW t \in Calls, ServiceReturns(t)
    PROVE  Kept(t)
<1>1. /\ node[t] = "executing" /\ At(t, node[t]) /\ UNCHANGED vars
      /\ pc[t] \in {"ok", "refused", "not_found", "db_error"}
    BY DEF ServiceReturns, At
<1>2. pc[t] \notin Running /\ node[t] \in AfterCall
    BY <1>1 DEF Running, IssuePc, CancelPc, IssueInTx, CancelInTx, AfterCall
<1>3. CASE Raise(t)
    BY <1>1, <1>2, <1>3, RaiseKeeps
<1>4. state[t] \in SupportState
    BY DEF SystemInv, SystemTypeOK
<1>5. ASSUME NEW outcome \in {"succeeded", "failed"}, Executed(t, outcome)
      PROVE  Kept(t)
    <2> DEFINE s == [state[t] EXCEPT !.executed = outcome]
    <2>1. s \in SupportState /\ SameRequest(s, state[t])
          /\ s.approval = state[t].approval /\ s.executed = outcome
        BY <1>4 DEF SupportState, SameRequest
    <2>2. Superstep(t, s, RouteAfterExecution(s))
        BY <1>5 DEF Executed
    <2> HIDE DEF s
    <2> DEFINE n == RouteAfterExecution(s)
    <2>3. \/ n = "success_response" /\ s.executed = "succeeded"
          \/ n = "failure_response"
        BY DEF RouteAfterExecution
    <2>4. Superstep(t, s, n)
        BY <2>2
    <2> HIDE DEF n
    <2>5. CASE n = "success_response"
        BY <1>1, <1>2, <2>1, <2>3, <2>4, <2>5, LateSuperstep
    <2>6. CASE n = "failure_response"
        BY <1>1, <1>2, <2>1, <2>4, <2>6, LateSuperstep
    <2> QED
        BY <2>3, <2>5, <2>6
<1> QED
    BY <1>3, <1>5 DEF ServiceReturns

LEMMA ResponsesKeep ==
    ASSUME SystemInv, NEW t \in Calls, SuccessResponse(t) \/ FailureResponse(t)
    PROVE  Kept(t)
<1>1. /\ node[t] \in {"success_response", "failure_response"} /\ node[t] \in AfterCall
      /\ At(t, node[t]) /\ UNCHANGED vars
    BY DEF SuccessResponse, FailureResponse, At, AfterCall
<1>2. pc[t] \notin Running /\ state[t] \in SupportState
    BY <1>1 DEF SystemInv, SystemTypeOK
<1>3. PICK resolution \in {"succeeded", "failed"}, text \in {"text", "blank"} :
         Superstep(t, [state[t] EXCEPT !.resolution = resolution, !.response = text], "end")
    BY DEF SuccessResponse, FailureResponse
<1> DEFINE s == [state[t] EXCEPT !.resolution = resolution, !.response = text]
<1>4. /\ s \in SupportState /\ SameRequest(s, state[t]) /\ s.approval = state[t].approval
      /\ s.resolution # "missing" /\ s.response # "missing"
    <2>1. resolution \in {"succeeded", "failed"} /\ text \in {"text", "blank"}
        BY <1>3
    <2>2. SameRequest(s, state[t]) /\ s.approval = state[t].approval
        BY <1>2 DEF SupportState, SameRequest
    <2>3. s.resolution = resolution /\ s.response = text
        BY <1>2 DEF SupportState
    <2>4. s \in SupportState
        BY <1>2, <2>1 DEF SupportState
    <2> QED
        BY <2>1, <2>2, <2>3, <2>4
<1>5. Superstep(t, s, "end")
    BY <1>3
<1> HIDE DEF s
<1> QED
    BY <1>1, <1>2, <1>4, <1>5, LateSuperstep

LEMMA BuildKeeps ==
    ASSUME SystemInv, NEW t \in Calls, BuildWorkflowResponse(t)
    PROVE  Kept(t)
<1>1. UNCHANGED vars /\ state' = state /\ OwnersStay
    BY DEF BuildWorkflowResponse, OwnersStay, vars
<1>2. pc[t] \notin Running /\ state[t] \in SupportState
    BY DEF BuildWorkflowResponse, SystemInv, SystemTypeOK
<1>3. Apart(t)
    BY <1>1 DEF BuildWorkflowResponse, Apart, GoTo, Reply, SystemInv, SystemTypeOK, vars
<1>4. CASE node[t] = "interrupted"
    <2>1. node'[t] = "waiting"
        BY <1>4 DEF BuildWorkflowResponse, GoTo, SystemInv, SystemTypeOK
    <2>2. pc[t] = "idle" /\ Passed(t)
        BY <1>4, NoCallYet DEF SystemInv, ThreadInv, AfterVerdict, AfterCall
    <2>3. Passed(t)'
        BY <1>1, <2>2, PassedStays DEF SameRequest
    <2>4. ThreadInv(t)'
        BY <1>1, <2>1, <2>2, <2>3
        DEF ThreadInv, BeforeVerdict, AfterVerdict, AfterBegin, ValidateNode, vars
    <2>5. Proposal(state[t]) \in [action : Action \union {"missing"}, amount : Int]
        BY <1>2 DEF Proposal, SupportState
    <2>6. /\ UNCHANGED <<vars, state, status, steps, decision>> /\ GoTo(t, "waiting")
          /\ answer' = [answer EXCEPT ![t] = "approval_required"]
          /\ shown' = [shown EXCEPT ![t] = Proposal(state[t])]
        BY <1>4 DEF BuildWorkflowResponse
    <2>7. answer' \in [Calls -> WorkflowStatus \union {"none", "http_404", "http_500"}]
        BY <2>6 DEF SystemInv, SystemTypeOK, WorkflowStatus
    <2>8. shown' \in [Calls -> [action : Action \union {"missing"}, amount : Int]]
        BY <2>5, <2>6 DEF SystemInv, SystemTypeOK
    <2>9. SystemTypeOK'
        BY <1>1, <1>2, <2>6, <2>7, <2>8 DEF GoTo, SystemInv, SystemTypeOK, RestingNode, vars
    <2> QED
        BY <1>3, <2>4, <2>9 DEF Kept
<1>5. CASE node[t] = "end"
    <2>1. node'[t] = "answered"
        BY <1>5 DEF BuildWorkflowResponse, Reply, GoTo, SystemInv, SystemTypeOK
    <2>2. ThreadInv(t)'
        BY <1>1, <2>1, CallStays, Resting DEF SystemInv, ThreadInv, AfterCall, vars
    <2>3. state[t].resolution \in WorkflowStatus
        BY <1>2, <1>5 DEF SystemInv, ThreadInv, AfterVerdict, SupportState, WorkflowStatus
    <2>4. /\ UNCHANGED <<vars, state, status, steps, decision, shown>> /\ GoTo(t, "answered")
          /\ answer' = [answer EXCEPT ![t] =
                IF state[t].response = "text" THEN state[t].resolution ELSE "http_500"]
        BY <1>5 DEF BuildWorkflowResponse, Reply
    <2>5. answer' \in [Calls -> WorkflowStatus \union {"none", "http_404", "http_500"}]
        BY <2>3, <2>4 DEF SystemInv, SystemTypeOK
    <2>6. SystemTypeOK'
        BY <1>1, <1>2, <2>4, <2>5 DEF GoTo, SystemInv, SystemTypeOK, RestingNode, vars
    <2> QED
        BY <1>3, <2>2, <2>6 DEF Kept
<1> QED
    BY <1>4, <1>5 DEF BuildWorkflowResponse

LEMMA OutOfStepsKeeps ==
    ASSUME Inv, SystemInv, NEW t \in Calls, OutOfSteps(t)
    PROVE  Kept(t)
<1>1. pc[t] \notin Running
    BY DEF OutOfSteps, SystemInv, SystemTypeOK
<1> QED
    BY <1>1, RaiseKeeps DEF OutOfSteps

\* A failure ends the thread, and rolls back the call it was waiting for.
LEMMA FaultKeeps ==
    ASSUME Inv, SystemInv, NEW t \in Calls, Fault(t)
    PROVE  Kept(t)
<1>1. /\ pc'[t] \notin Running /\ OwnersStay /\ req' = req
      /\ pc[t] = "idle" => pc'[t] = "idle"
      /\ \A u \in Calls \ {t} : pc'[u] = pc[u] /\ req'[u] = req[u]
    <2>1. CASE Crash(t)
        <3>1. Monotone /\ Only(t) /\ req' = req
            BY <2>1, CallShape DEF Inv
        <3>2. pc[t] # "idle" /\ pc'[t] = "crashed"
            BY <2>1 DEF Crash, Goto, Inv, TypeOK, Running, IssuePc, CancelPc, IssueInTx, CancelInTx
        <3> QED
            BY <3>1, <3>2 DEF Monotone, Only, OwnersStay,
                  Running, IssuePc, CancelPc, IssueInTx, CancelInTx
    <2>2. CASE pc[t] \notin Running /\ UNCHANGED vars
        BY <2>2 DEF vars, OwnersStay
    <2> QED
        BY <2>1, <2>2 DEF Fault
<1>2. SystemTypeOK' /\ Apart(t) /\ node'[t] \in {"answered", "dead"} /\ state' = state
    <2>1. CASE Raise(t)
        BY <1>1, <2>1, RaiseShape DEF SystemInv
    <2>2. CASE /\ GoTo(t, "dead") /\ status' = [status EXCEPT ![t] = "none"]
               /\ UNCHANGED <<state, steps, decision, answer, shown>>
        BY <1>1, <2>2 DEF SystemInv, SystemTypeOK, GoTo, Apart, RestingNode
    <2> QED
        BY <2>1, <2>2 DEF Fault
<1>3. AfterBegin(t)'
    BY <1>1, <1>2, CallStays DEF SystemInv, ThreadInv, AfterCall
<1> QED
    BY <1>2, <1>3, Resting DEF Kept

\* Every step of a thread.
LEMMA WorkflowKeeps ==
    ASSUME Inv, SystemInv, NEW t \in Calls, WorkflowStep(t) \/ Fault(t)
    PROVE  Kept(t)
BY UnderstandKeeps, InvestigateKeeps, ValidateActionKeeps, ValidateReadsKeep, ValidateShipmentKeeps,
   HumanApprovalKeeps, ExecuteActionKeeps, ServiceStepKeeps, ServiceReturnsKeeps, ResponsesKeep,
   BuildKeeps, OutOfStepsKeeps, FaultKeeps DEF WorkflowStep

\* Nothing in the store ever changes the owner of an order.
LEMMA OwnersNeverChange ==
    ASSUME Inv, [Next]_vars
    PROVE  OwnersStay
<1>1. ASSUME NEW c \in Calls, NEW q \in Requests, Begin(c, q)
      PROVE  OwnersStay
    BY <1>1, BeginShape DEF Inv, Monotone, OwnersStay
<1>2. ASSUME NEW c \in Calls, IssueStep(c) \/ CancelStep(c) \/ Answer(c) \/ Crash(c)
      PROVE  OwnersStay
    BY <1>2, CallShape DEF Inv, Monotone, OwnersStay
<1>3. ASSUME NEW o \in Orders, AdvanceOrder(o) \/ UpdateShipment(o)
      PROVE  OwnersStay
    BY <1>3, EnvironmentShape DEF Inv, Monotone, OwnersStay
<1>4. CASE UNCHANGED vars
    BY <1>4 DEF vars, OwnersStay
<1> QED
    BY <1>1, <1>2, <1>3, <1>4 DEF Next, AllAnswered

LEMMA InitSystem == SystemInit => SystemInv
<1> SUFFICES ASSUME SystemInit PROVE SystemInv
    OBVIOUS
<1>1. ASSUME NEW t \in Calls PROVE ThreadInv(t)
    <2>1. node[t] = "new" /\ pc[t] = "idle"
        BY DEF SystemInit, Init
    <2> QED
        BY <2>1 DEF ThreadInv, BeforeVerdict, AfterVerdict, AfterBegin, ValidateNode
<1>2. \A t \in Calls : pc[t] = "idle"
    BY DEF SystemInit, Init
<1>3. state \in [Calls -> SupportState]
    <2>1. (CHOOSE c \in Customers : TRUE) \in Customers
        BY RequestsAssumption DEF Request
    <2>2. InitialState(CHOOSE c \in Customers : TRUE) \in SupportState
        BY <2>1 DEF InitialState, SupportState
    <2> QED
        BY <2>2 DEF SystemInit
<1>4. steps \in [Calls -> 0 .. RecursionLimit]
    BY GraphAssumption DEF SystemInit
<1>5. SystemTypeOK
    BY <1>2, <1>3, <1>4 DEF SystemInit, SystemTypeOK, RestingNode, NoProposal,
          Running, IssuePc, CancelPc, IssueInTx, CancelInTx
<1> QED
    BY <1>1, <1>5 DEF SystemInv

LEMMA NextSystem == Inv /\ SystemInv /\ [SystemNext]_systemVars => SystemInv'
<1> SUFFICES ASSUME Inv, SystemInv, [SystemNext]_systemVars PROVE SystemInv'
    OBVIOUS
<1>1. OwnersStay
    BY SystemStepOnStore, OwnersNeverChange
<1>2. ASSUME NEW t \in Calls, Kept(t) PROVE SystemInv'
    <2>1. ASSUME NEW u \in Calls PROVE ThreadInv(u)'
        <3>1. CASE u = t
            BY <1>2, <3>1 DEF Kept
        <3>2. CASE u # t
            BY <1>1, <1>2, <3>2, OtherThreads DEF Kept, Apart, SystemInv
        <3> QED
            BY <3>1, <3>2
    <2> QED
        BY <1>2, <2>1 DEF Kept, SystemInv
<1>3. ASSUME UNCHANGED <<graph, req, pc>> PROVE SystemInv'
    <2>1. ASSUME NEW u \in Calls PROVE ThreadInv(u)'
        BY <1>1, <1>3, OtherThreads DEF SystemInv, graph
    <2>2. SystemTypeOK'
        BY <1>3 DEF SystemInv, SystemTypeOK, graph
    <2> QED
        BY <2>1, <2>2 DEF SystemInv
<1>4. CASE \E t \in Calls, c \in Customers \union Strangers : PostRequest(t, c)
    BY <1>2, <1>4, PostKeeps
<1>5. CASE \E t \in Calls, word \in {"approved", "rejected"} : Resume(t, word)
    BY <1>2, <1>5, ResumeKeeps
<1>6. CASE \E t \in Calls : WorkflowStep(t) \/ Fault(t)
    BY <1>2, <1>6, WorkflowKeeps
<1>7. CASE World
    BY <1>3, <1>7 DEF World, AdvanceOrder, UpdateShipment
<1>8. CASE UNCHANGED systemVars
    BY <1>3, <1>8 DEF systemVars, vars
<1> QED
    BY <1>4, <1>5, <1>6, <1>7, <1>8 DEF SystemNext, Settled

LEMMA SystemSpecInv == SystemSpec => [](Inv /\ SystemInv)
<1>1. SystemSpec => []Inv
    BY StoreImplemented, SpecInv, PTL
<1> QED
    BY <1>1, InitSystem, NextSystem, PTL DEF SystemSpec

-----------------------------------------------------------------------------
\* Threads, locals and answers keep their types, and a service call runs only
\* while its thread is in the executing node.
THEOREM SystemTypeCorrect == SystemSpec => []SystemTypeOK
    BY SystemSpecInv, PTL DEF SystemInv

\* No node or edge ever raises a RuntimeError for a field it misses.
THEOREM NothingIsMissing == SystemSpec => []NothingMissing
<1>1. SystemInv => NothingMissing
    BY DEF SystemInv, SystemTypeOK, ThreadInv, BeforeVerdict, AfterVerdict, Cleared, Passed, OwnOrder,
          NothingMissing, ValidateNode
<1> QED
    BY <1>1, SystemSpecInv, PTL

\* A service is called only for what the validating node let pass.
THEOREM CallsAreValidated == SystemSpec => []OnlyValidatedCalls
<1>1. ASSUME SystemInv PROVE OnlyValidatedCalls
    <2> SUFFICES ASSUME NEW t \in Calls, pc[t] # "idle"
                 PROVE  /\ state[t].validation = "valid"
                        /\ req[t] = CallOf(state[t]) /\ Owns(t)
                        /\ req[t].kind = "issue" =>
                              /\ req[t].amount > 0
                              /\ NeedsApproval(req[t].damaged, req[t].amount) => req[t].approved
        BY DEF OnlyValidatedCalls
    <2> DEFINE s == state[t]
    <2>1. Cleared(t) /\ s.action # "no_action" /\ req[t] = CallOf(s)
        BY <1>1 DEF SystemInv, ThreadInv, AfterBegin
    <2>2. OwnOrder(t) /\ s.validation = "valid"
        BY <2>1 DEF Cleared, Passed
    <2>3. req[t].customer = s.customer /\ req[t].order = s.order
        BY <2>1 DEF CallOf
    <2>4. Owns(t)
        BY <2>2, <2>3 DEF OwnOrder, OwnsOrder, Owns
    <2>5. ASSUME req[t].kind = "issue"
          PROVE  /\ req[t].amount > 0
                 /\ NeedsApproval(req[t].damaged, req[t].amount) => req[t].approved
        <3>1. s.action = "refund"
            BY <2>1, <2>5 DEF CallOf
        <3> DEFINE d == Damaged(s)
                   yes == s.approval = "approved"
                   call == [kind |-> "issue", customer |-> s.customer, order |-> s.order,
                            amount |-> s.amount, damaged |-> d, approved |-> yes]
        <3>2. req[t] = call
            BY <2>1, <3>1 DEF CallOf
        <3>3. call.amount = s.amount /\ call.damaged = d /\ call.approved = yes
            <4> HIDE DEF d, yes, s
            <4> QED OBVIOUS
        <3> HIDE DEF call
        <3>4. req[t].amount = s.amount /\ req[t].damaged = Damaged(s)
              /\ (s.approval = "approved" => req[t].approved)
            BY <3>2, <3>3, Zenon
        <3> QED
            BY <2>1, <3>1, <3>4 DEF Cleared, Passed
    <2> QED
        BY <2>2, <2>1, <2>4, <2>5
<1> QED
    BY <1>1, SystemSpecInv, PTL
=============================================================================
