---------------------------- MODULE SupportGraph ----------------------------
(***************************************************************************)
(* POST /support/requests and the LangGraph workflow behind it, on top of  *)
(* the services and tables of OrderStore: one thread per request, one node *)
(* at a time, one database read per step of the validating node, and the   *)
(* write of the executing node interleaved statement by statement with     *)
(* every other thread's.                                                   *)
(*                                                                         *)
(* The language models are outside: they classify, ask for tools, propose  *)
(* and answer as they like, and they fail.  So does the human, who is not  *)
(* yet reachable through the API (the approve and reject routes answer     *)
(* 501) and resumes an interrupted thread by invoking the graph with its   *)
(* thread id.  LangGraph saves a thread's state after every node, bounds   *)
(* the nodes run by one invocation, and runs an interrupted node again     *)
(* from its start.                                                         *)
(*                                                                         *)
(* A field of the state that no node has set yet is "missing".  The nodes  *)
(* and edges raise a RuntimeError for a missing field they need; those     *)
(* branches are left out, because NothingMissing shows none is taken.      *)
(***************************************************************************)
EXTENDS OrderStore

CONSTANTS
    Strangers,       \* customer ids that no customer has
    NoOrder,         \* the order id when the request names none
    Understandings,  \* what the intent model may make of a request
    Proposals,       \* what the action model may propose
    RecursionLimit   \* nodes that one invocation of the graph may run

SupportIntent == {"damaged_item", "other"}   \* of the others none matters here
Action == {"refund", "cancel", "no_action"}

Understanding == [intent : SupportIntent, order : Orders \union {NoOrder}]
ProposedAction == [action : Action, amount : Int]   \* amount 0: no amount proposed

ASSUME GraphAssumption ==
    /\ Strangers \cap Customers = {}
    /\ NoOrder \notin Orders
    /\ Understandings \subseteq Understanding
    /\ Proposals \subseteq ProposedAction
    /\ RecursionLimit \in Nat

VARIABLES
    node,      \* node[t]: the node, or the step of a node, that thread t is at
    state,     \* state[t]: the SupportState of thread t
    status,    \* status[t]: the order status the validating node has read
    steps,     \* steps[t]: the nodes this invocation has run
    decision,  \* decision[t]: what the human said when resuming the thread
    answer,    \* answer[t]: what the last invocation gave its caller
    shown      \* shown[t]: the proposal that was put before the human

graph == <<node, state, status, steps, decision, answer, shown>>
systemVars == <<vars, graph>>

SupportState ==
    [customer   : Customers \union Strangers,
     intent     : SupportIntent \union {"missing"},
     order      : Orders \union {NoOrder},
     action     : Action \union {"missing"},
     amount     : Int,
     validation : {"missing", "valid", "invalid"},
     requires   : {"missing", "yes", "no"},
     approval   : {"missing", "approved", "rejected"},
     executed   : {"missing", "succeeded", "failed"},
     resolution : {"missing", "succeeded", "failed"},
     response   : {"missing", "text", "blank"}]

ValidateNode == {"validate_action", "validate_calculate", "validate_order", "validate_shipment"}
GraphNode ==
    {"understand_request", "investigate", "read_only_tools", "human_approval",
     "execute_action", "executing", "success_response", "failure_response"} \union ValidateNode
\* "interrupted" and "end" are threads whose invocation is over but whose
\* caller has not been answered.
WorkingNode == GraphNode \union {"interrupted", "end"}
RestingNode == {"new", "waiting", "answered", "dead"}
WorkflowStatus == {"approval_required", "succeeded", "failed"}

Proposal(s) == [action |-> s.action, amount |-> s.amount]
NoProposal == [action |-> "missing", amount |-> 0]

InitialState(customer) ==
    [customer |-> customer, intent |-> "missing", order |-> NoOrder,
     action |-> "missing", amount |-> 0, validation |-> "missing", requires |-> "missing",
     approval |-> "missing", executed |-> "missing", resolution |-> "missing",
     response |-> "missing"]

SystemInit ==
    /\ Init
    /\ node = [t \in Calls |-> "new"]
    /\ state = [t \in Calls |-> InitialState(CHOOSE c \in Customers : TRUE)]
    /\ status = [t \in Calls |-> "none"]
    /\ steps = [t \in Calls |-> 0]
    /\ decision = [t \in Calls |-> "none"]
    /\ answer = [t \in Calls |-> "none"]
    /\ shown = [t \in Calls |-> NoProposal]

-----------------------------------------------------------------------------
(***************************************************************************)
(* The edges of the graph.                                                 *)
(***************************************************************************)
RouteAfterValidation_Valid(s) ==
    IF s.requires = "yes" THEN "human_approval" ELSE "execute_action"

RouteAfterValidation(s) ==
    IF s.validation = "invalid" THEN "failure_response"
    ELSE IF s.requires = "yes" THEN "human_approval" ELSE "execute_action"

RouteAfterApproval(s) ==
    IF s.approval = "approved" THEN "execute_action" ELSE "failure_response"

RouteAfterExecution_Always(s) == "success_response"

RouteAfterExecution(s) ==
    IF s.executed = "succeeded" THEN "success_response" ELSE "failure_response"

-----------------------------------------------------------------------------
(***************************************************************************)
(* One node, or one step of it.                                            *)
(***************************************************************************)
GoTo(t, n) == node' = [node EXCEPT ![t] = n]

Reply(t, a) == GoTo(t, "answered") /\ answer' = [answer EXCEPT ![t] = a]

\* An exception leaves the graph and the route: FastAPI answers 500.
Raise(t) ==
    /\ Reply(t, "http_500")
    /\ status' = [status EXCEPT ![t] = "none"]
    /\ UNCHANGED <<state, steps, decision, shown>>

At(t, n) == node[t] = n /\ steps[t] < RecursionLimit

\* The node is done: its updates are saved, and its edge names the next.
Superstep_Uncounted(t, s, next) ==
    /\ GoTo(t, next)
    /\ state' = [state EXCEPT ![t] = s]
    /\ status' = [status EXCEPT ![t] = "none"]
    /\ UNCHANGED <<steps, decision, answer, shown>>

Superstep(t, s, next) ==
    /\ GoTo(t, next)
    /\ state' = [state EXCEPT ![t] = s]
    /\ status' = [status EXCEPT ![t] = "none"]
    /\ steps' = [steps EXCEPT ![t] = @ + 1]
    /\ UNCHANGED <<decision, answer, shown>>

\* A step inside the node: nothing of it is saved.
Within(t, n) == GoTo(t, n) /\ UNCHANGED <<state, steps, decision, answer, shown>>

\* The route looks the customer up and invokes the graph on a new thread.
PostRequest(t, customer) ==
    /\ node[t] = "new"
    /\ IF customer \in Customers
       THEN /\ GoTo(t, "understand_request")
            /\ state' = [state EXCEPT ![t] = InitialState(customer)]
            /\ UNCHANGED answer
       ELSE Reply(t, "http_404") /\ UNCHANGED state
    /\ UNCHANGED <<vars, status, steps, decision, shown>>

UnderstandRequest(t) ==
    /\ At(t, "understand_request")
    /\ \E u \in Understandings :
          Superstep(t, [state[t] EXCEPT !.intent = u.intent, !.order = u.order], "investigate")
    /\ UNCHANGED vars

\* The model asks for tools, or for nothing more, and then another proposes.
Investigate(t) ==
    /\ At(t, "investigate")
    /\ \/ Superstep(t, state[t], "read_only_tools")
       \/ \E p \in Proposals :
             Superstep(t, [state[t] EXCEPT !.action = p.action, !.amount = p.amount],
                       "validate_action")
    /\ UNCHANGED vars

\* Whatever a tool's service call does, the tool returns a message.
ReadOnlyTools(t) ==
    /\ At(t, "read_only_tools")
    /\ Superstep(t, state[t], "investigate")
    /\ UNCHANGED vars

Validated(t, validation, requires) ==
    LET s == [state[t] EXCEPT !.validation = validation, !.requires = requires]
    IN  Superstep(t, s, RouteAfterValidation(s))

Invalid(t) == Validated(t, "invalid", "no")

\* What can be decided without the database.
ValidateAction(t) ==
    LET s == state[t]
    IN  /\ At(t, "validate_action")
        /\ CASE s.action = "no_action"                   -> Validated(t, "valid", "no")
             [] s.action # "no_action" /\ s.order = NoOrder -> Invalid(t)
             [] s.action = "refund" /\ s.order # NoOrder ->
                   IF s.amount <= 0 THEN Invalid(t)
                   ELSE Within(t, "validate_calculate") /\ UNCHANGED status
             [] OTHER -> Within(t, "validate_order") /\ UNCHANGED status
        /\ UNCHANGED vars

OwnsOrder(t) == orders[state[t].order].customer = state[t].customer

\* RefundService.calculate; the order's owner and total never change, so its
\* two reads are one.  Its ResourceNotFoundError is not caught.
ValidateCalculate(t) ==
    LET o == state[t].order
    IN  /\ At(t, "validate_calculate")
        /\ IF ~OwnsOrder(t) THEN Raise(t)
           ELSE IF state[t].amount > Refundable(orders[o].total, reserved[o]) THEN Invalid(t)
           ELSE Within(t, "validate_order") /\ UNCHANGED status
        /\ UNCHANGED vars

ValidateOrder_AnyOwner(t) ==
    LET order == orders[state[t].order]
    IN  /\ At(t, "validate_order")
        /\ IF state[t].action = "cancel" /\ order.status \notin CancellableStatuses
           THEN Invalid(t)
           ELSE /\ Within(t, "validate_shipment")
                /\ status' = [status EXCEPT ![t] = order.status]
        /\ UNCHANGED vars

\* OrderService.get, for either action; for a cancellation, its
\* ResourceNotFoundError is not caught and its status is checked at once.
ValidateOrder(t) ==
    LET order == orders[state[t].order]
    IN  /\ At(t, "validate_order")
        /\ IF ~OwnsOrder(t) THEN Raise(t)
           ELSE IF state[t].action = "cancel" /\ order.status \notin CancellableStatuses
           THEN Invalid(t)
           ELSE /\ Within(t, "validate_shipment")
                /\ status' = [status EXCEPT ![t] = order.status]
        /\ UNCHANGED vars

CancelVerdict(t) ==
    IF shipments[state[t].order] \in StartedShipmentStatuses
    THEN Invalid(t) ELSE Validated(t, "valid", "no")

Damaged(s) == s.intent = "damaged_item"

RefundVerdict_SmallDamage(t) ==
    LET s == state[t]
    IN  IF ~Eligible(status[t], shipments[s.order], Damaged(s)) THEN Invalid(t)
        ELSE Validated(t, "valid", IF s.amount > ApprovalThreshold THEN "yes" ELSE "no")

RefundVerdict(t) ==
    LET s == state[t]
    IN  IF ~Eligible(status[t], shipments[s.order], Damaged(s)) THEN Invalid(t)
        ELSE Validated(t, "valid", IF NeedsApproval(Damaged(s), s.amount) THEN "yes" ELSE "no")

\* OrderService.get_shipment, whose ResourceNotFoundError is caught and means
\* no shipment.
ValidateShipment(t) ==
    /\ At(t, "validate_shipment")
    /\ IF state[t].action = "cancel" THEN CancelVerdict(t) ELSE RefundVerdict(t)
    /\ UNCHANGED vars

\* The first run interrupts the graph; the run after the resume gets the
\* human's word.
HumanApproval_Yes(t) ==
    LET s == [state[t] EXCEPT !.approval = "approved"]
    IN  /\ At(t, "human_approval")
        /\ IF decision[t] = "none"
           THEN Within(t, "interrupted") /\ UNCHANGED status
           ELSE Superstep(t, s, RouteAfterApproval(s))
        /\ UNCHANGED vars

HumanApproval(t) ==
    LET s == [state[t] EXCEPT !.approval = decision[t]]
    IN  /\ At(t, "human_approval")
        /\ IF decision[t] = "none"
           THEN Within(t, "interrupted") /\ UNCHANGED status
           ELSE Superstep(t, s, RouteAfterApproval(s))
        /\ UNCHANGED vars

\* Someone who was given the thread id invokes the graph with the decision.
\* (One without a boolean "approved" raises, and the thread stays as it is.)
Resume(t, word) ==
    /\ node[t] = "waiting"
    /\ GoTo(t, "human_approval")
    /\ steps' = [steps EXCEPT ![t] = 0]
    /\ decision' = [decision EXCEPT ![t] = word]
    /\ answer' = [answer EXCEPT ![t] = "none"]
    /\ UNCHANGED <<vars, state, status, shown>>

-----------------------------------------------------------------------------
(***************************************************************************)
(* The executing node and the answers.                                     *)
(***************************************************************************)
CallOf(s) ==
    IF s.action = "refund"
    THEN [kind |-> "issue", customer |-> s.customer, order |-> s.order, amount |-> s.amount,
          damaged |-> Damaged(s), approved |-> s.approval = "approved"]
    ELSE [kind |-> "cancel", customer |-> s.customer, order |-> s.order, amount |-> 0,
          damaged |-> FALSE, approved |-> FALSE]

\* The services are asked for nothing that Requests leaves out.
ASSUME CallsAssumption ==
    \A c \in Customers, u \in Understandings, p \in Proposals, word \in {"missing", "approved"} :
        u.order \in Orders /\ p.action # "no_action" =>
            CallOf([InitialState(c) EXCEPT !.intent = u.intent, !.order = u.order,
                       !.action = p.action, !.amount = p.amount, !.approval = word]) \in Requests

Executed(t, outcome) ==
    LET s == [state[t] EXCEPT !.executed = outcome]
    IN  Superstep(t, s, RouteAfterExecution(s))

\* No call without the approval the validation asked for; none for no_action.
ExecuteAction(t) ==
    LET s == state[t]
    IN  /\ At(t, "execute_action")
        /\ IF s.requires = "yes" /\ s.approval # "approved"
           THEN Executed(t, "failed") /\ UNCHANGED vars
           ELSE IF s.action = "no_action"
           THEN Executed(t, "succeeded") /\ UNCHANGED vars
           ELSE /\ Within(t, "executing") /\ UNCHANGED status
                /\ \E q \in Requests : q = CallOf(s) /\ Begin(t, q)

\* The service call of the node runs, a statement at a time.
ServiceStep(t) ==
    /\ At(t, "executing")
    /\ IssueStep(t) \/ CancelStep(t) \/ Answer(t)
    /\ UNCHANGED graph

\* ResourceNotFoundError and ValueError are caught; an error of the database
\* is not.
ServiceReturns(t) ==
    /\ At(t, "executing")
    /\ pc[t] \in {"ok", "refused", "not_found", "db_error"}
    /\ IF pc[t] = "db_error" THEN Raise(t)
       ELSE Executed(t, IF pc[t] = "ok" THEN "succeeded" ELSE "failed")
    /\ UNCHANGED vars

\* The model's text may be empty.
SuccessResponse(t) ==
    /\ At(t, "success_response")
    /\ \E text \in {"text", "blank"} :
          Superstep(t, [state[t] EXCEPT !.resolution = "succeeded", !.response = text], "end")
    /\ UNCHANGED vars

FailureResponse(t) ==
    /\ At(t, "failure_response")
    /\ \E text \in {"text", "blank"} :
          Superstep(t, [state[t] EXCEPT !.resolution = "failed", !.response = text], "end")
    /\ UNCHANGED vars

\* _build_workflow_response: the approval to ask for, or the final response.
BuildWorkflowResponse(t) ==
    /\ \/ /\ node[t] = "interrupted"
          /\ GoTo(t, "waiting")
          /\ answer' = [answer EXCEPT ![t] = "approval_required"]
          /\ shown' = [shown EXCEPT ![t] = Proposal(state[t])]
       \/ /\ node[t] = "end"
          /\ Reply(t, IF state[t].response = "text" THEN state[t].resolution ELSE "http_500")
          /\ UNCHANGED shown
    /\ UNCHANGED <<vars, state, status, steps, decision>>

\* GraphRecursionError: the invocation has run all the nodes it may.
OutOfSteps(t) ==
    /\ node[t] \in GraphNode \ {"executing"}
    /\ steps[t] >= RecursionLimit
    /\ Raise(t)
    /\ UNCHANGED vars

Fault_CallLives(t) ==
    /\ node[t] \in WorkingNode
    /\ \/ Raise(t)
       \/ /\ GoTo(t, "dead")
          /\ status' = [status EXCEPT ![t] = "none"]
          /\ UNCHANGED <<state, steps, decision, answer, shown>>
    /\ UNCHANGED vars

\* A model, the database or the process fails under the thread: the caller
\* gets a 500, or nothing at all.  A service call in flight is rolled back.
Fault(t) ==
    /\ node[t] \in WorkingNode
    /\ IF pc[t] \in Running THEN Crash(t) ELSE UNCHANGED vars
    /\ \/ Raise(t)
       \/ /\ GoTo(t, "dead")
          /\ status' = [status EXCEPT ![t] = "none"]
          /\ UNCHANGED <<state, steps, decision, answer, shown>>

-----------------------------------------------------------------------------
\* What the event loop runs by itself, once the request is in.
WorkflowStep(t) ==
    \/ UnderstandRequest(t) \/ Investigate(t) \/ ReadOnlyTools(t)
    \/ ValidateAction(t) \/ ValidateCalculate(t) \/ ValidateOrder(t) \/ ValidateShipment(t)
    \/ HumanApproval(t) \/ ExecuteAction(t) \/ ServiceStep(t) \/ ServiceReturns(t)
    \/ SuccessResponse(t) \/ FailureResponse(t) \/ BuildWorkflowResponse(t) \/ OutOfSteps(t)

World == (\E o \in Orders : AdvanceOrder(o) \/ UpdateShipment(o)) /\ UNCHANGED graph

\* Every request has had its last answer, or died: nothing more need happen.
Settled == (\A t \in Calls : node[t] \in {"answered", "dead"}) /\ UNCHANGED systemVars

SystemNext ==
    \/ \E t \in Calls, c \in Customers \union Strangers : PostRequest(t, c)
    \/ \E t \in Calls, word \in {"approved", "rejected"} : Resume(t, word)
    \/ \E t \in Calls : WorkflowStep(t) \/ Fault(t)
    \/ World
    \/ Settled

SystemSpec == SystemInit /\ [][SystemNext]_systemVars

\* The event loop runs every task that is ready, and every await ends, with a
\* result or with an error.  Customers, humans and carriers owe nothing.
FairSystemSpec == SystemSpec /\ \A t \in Calls : WF_systemVars(WorkflowStep(t))

-----------------------------------------------------------------------------
(***************************************************************************)
(* Properties.                                                             *)
(***************************************************************************)

\* Every thread's state, locals and answer have their types, and the service
\* call of a thread runs exactly while its executing node does.
SystemTypeOK ==
    /\ node \in [Calls -> WorkingNode \union RestingNode]
    /\ state \in [Calls -> SupportState]
    /\ status \in [Calls -> OrderStatus \union {"none"}]
    /\ steps \in [Calls -> 0 .. RecursionLimit]
    /\ decision \in [Calls -> {"none", "approved", "rejected"}]
    /\ answer \in [Calls -> WorkflowStatus \union {"none", "http_404", "http_500"}]
    /\ shown \in [Calls -> [action : Action \union {"missing"}, amount : Int]]
    /\ \A t \in Calls : pc[t] \in Running => node[t] = "executing"

\* No node and no edge ever misses a field it needs: none of the RuntimeErrors
\* that guard against it is raised, whatever the models say and wherever a
\* thread was interrupted and resumed (customer and messages are there from the
\* start).  Nor does the route miss one of an ended thread; its error for a
\* missing final response can only mean a blank one.
NothingMissing ==
    \A t \in Calls :
        LET s == state[t]
        IN  /\ node[t] \in ValidateNode \union {"human_approval", "execute_action", "executing"}
                 => s.action # "missing" /\ s.intent # "missing"
            /\ node[t] \in ValidateNode \ {"validate_action"} => s.order \in Orders
            /\ node[t] \in {"execute_action", "executing"} =>
                 /\ s.requires # "missing" /\ s.validation = "valid"
                 /\ s.requires = "yes" => s.approval = "approved"
                 /\ s.action # "no_action" => s.order \in Orders
                 /\ s.action = "refund" => s.amount > 0
            /\ node[t] = "success_response" => s.executed = "succeeded"
            /\ node[t] = "end" => s.resolution # "missing" /\ s.response # "missing"

Done(t) ==
    LET s == state[t]
    IN  CASE s.action = "cancel" -> orders[s.order].status = "cancelled"
          [] s.action = "refund" -> \E r \in ReservedRows(s.order) : r.amount = s.amount
          [] OTHER               -> TRUE

\* The customer is told the truth: after "succeeded" the refund of the proposed
\* amount, or the cancellation, is on record; after "failed", "approval
\* required" or "customer not found" the request has written nothing.  (After a
\* 500 it may have: the write is committed before the answer is composed.)
AnswerIsTrue ==
    \A t \in Calls :
        /\ answer[t] = "succeeded" => Done(t)
        /\ answer[t] \in {"failed", "approval_required", "http_404"} =>
              \A r \in refunds : r.id # t

\* A refund that needs a human is on record only when a human was shown this
\* very amount and approved; a request a human rejected writes nothing.
ApprovedAsShown ==
    \A r \in refunds : r.id # Seed =>
        /\ decision[r.id] # "rejected"
        /\ r.reason # "reversal" /\ NeedsApproval(r.reason = "damaged", r.amount) =>
              /\ decision[r.id] = "approved"
              /\ shown[r.id] = [action |-> "refund", amount |-> r.amount]

\* A call reaches a service only for what the validating node let pass: an
\* order of the customer who posted the request, a positive amount, and an
\* approval where the service's own rule, written a second time, will ask for
\* one; so the service never surprises a customer whom no human was asked for.
OnlyValidatedCalls ==
    \A t \in Calls : pc[t] # "idle" =>
        /\ state[t].validation = "valid"
        /\ req[t] = CallOf(state[t]) /\ Owns(t)
        /\ req[t].kind = "issue" =>
              /\ req[t].amount > 0
              /\ NeedsApproval(req[t].damaged, req[t].amount) => req[t].approved

\* An order of somebody else ends the request there and then: whatever the
\* models make of it, no human is asked to approve it, no service is called for
\* it, and the caller, told neither "succeeded" nor "failed", gets the 500 of the
\* ResourceNotFoundError that nothing catches (validate_action.py:65,130).
ForeignOrderEndsRequest ==
    \A t \in Calls :
        LET s == state[t]
        IN  /\ s.order \in Orders /\ ~OwnsOrder(t)
            /\ s.action = "cancel" \/ (s.action = "refund" /\ s.amount > 0)
            => pc[t] = "idle" /\ shown[t] = NoProposal /\ answer[t] \in {"none", "http_500"}

\* The statements a service call still has to run, and the steps inside a node.
StatementsLeft ==
    [issue_get_order |-> 8, issue_get_shipment |-> 7, issue_order |-> 6, issue_shipment |-> 5,
     issue_existing |-> 4, issue_reserved |-> 3, issue_insert |-> 2,
     cancel_get_order |-> 6, cancel_get_shipment |-> 5, cancel_order |-> 4,
     cancel_shipment |-> 3, cancel_write |-> 2, committed |-> 1]

StepsInside(n, call) ==
    CASE n = "validate_action"    -> 3
      [] n = "validate_calculate" -> 2
      [] n = "validate_order"     -> 1
      [] n = "execute_action"     -> 9
      [] n = "executing" /\ call \in DOMAIN StatementsLeft -> StatementsLeft[call]
      [] OTHER                    -> 0

\* A bound on the steps that thread t can take before its caller is answered.
StepsLeft(t) ==
    CASE node[t] \in GraphNode ->
            2 + 10 * (RecursionLimit - steps[t]) + StepsInside(node[t], pc[t])
      [] node[t] \in {"interrupted", "end"} -> 1
      [] OTHER                              -> 0

\* No invocation goes on for ever, however long the model wants to go on using
\* tools: each step of a thread, a statement of its service call included, uses
\* up one of a bounded number, and no step of another thread or of the world
\* gives any back (edges.py:20; only the human's resume starts a new count).
EveryStepIsCounted ==
    [][\A t \in Calls :
          node[t] \in WorkingNode =>
              IF WorkflowStep(t) \/ Fault(t) THEN StepsLeft(t)' < StepsLeft(t)
                                            ELSE StepsLeft(t)' = StepsLeft(t)]_systemVars

\* An invocation ends: a request is answered, stops for a human or dies,
\* however long the model wants to go on using tools.
EveryInvocationEnds ==
    \A t \in Calls : node[t] \in WorkingNode ~> node[t] \in RestingNode

Written(t) ==
    LET rows == {r \in refunds : r.id = t}
    IN  IF rows = {} THEN "nothing"
        ELSE IF \E r \in rows : r.reason # "reversal" /\ NeedsApproval(r.reason = "damaged", r.amount)
        THEN "guarded" ELSE "free"

Stage(t) ==
    CASE node[t] = "new"                         -> "new"
      [] node[t] \in {"answered", "dead"}        -> "closed"
      [] node[t] \in {"interrupted", "waiting"}  -> "asking"
      [] node[t] \in GraphNode \union {"end"}    -> IF decision[t] = "none" THEN "open" ELSE decision[t]

Case == INSTANCE SupportCase WITH
    Cases <- Calls,
    stage <- [t \in Calls |-> Stage(t)],
    wrote <- [t \in Calls |-> Written(t)]

\* Read through Stage and Written, the workflow keeps the promises of
\* SupportCase: one refund row per request at most, none while the human is
\* asked, after a rejection or after the answer, and none that needs a human
\* without one.
ImplementsCase == Case!Spec
=============================================================================
