------------------------- MODULE SupportCaseProofs --------------------------
(***************************************************************************)
(* What the workflow tells customers and humans, for every value of the    *)
(* constants: its answers are true, its refunds are the ones a human saw,  *)
(* and it implements SupportCase.                                          *)
(***************************************************************************)
EXTENDS SupportGraphProofs

\* Before a human has spoken; before the service has.
Undecided ==
    {"new", "understand_request", "investigate", "read_only_tools", "interrupted", "waiting"}
        \union ValidateNode

Unexecuted == Undecided \union {"human_approval", "execute_action", "executing"}

\* What a thread's verdicts and answers say of its service call.
Resolved(t) ==
    LET s == state[t]
    IN  /\ node[t] \in Unexecuted => s.executed = "missing" /\ s.resolution = "missing"
        /\ s.executed = "succeeded" => s.action = "no_action" \/ pc[t] = "ok"
        /\ s.resolution = "succeeded" => s.executed = "succeeded"
        /\ node[t] = "failure_response" \/ s.resolution = "failed" => pc[t] \in {"idle"} \union Refusal

Answered(t) ==
    /\ node[t] \in WorkingNode \union {"new"} => answer[t] = "none"
    /\ answer[t] \in {"succeeded", "failed"} => state[t].resolution = answer[t]
    /\ answer[t] = "approval_required" => node[t] = "waiting"
    /\ answer[t] = "http_404" => pc[t] = "idle"

\* What a human was shown, and said.
Asked(t) ==
    LET s == state[t]
    IN  /\ node[t] \in Undecided => decision[t] = "none" /\ s.approval = "missing"
        /\ node[t] = "waiting" => shown[t] = Proposal(s)
        /\ s.approval # "missing" => decision[t] = s.approval
        /\ decision[t] # "none" => shown[t] = Proposal(s)
        /\ decision[t] = "rejected" =>
              /\ node[t] \in {"human_approval", "failure_response", "end", "answered", "dead"}
              /\ pc[t] = "idle"

OutcomeInv(t) == Resolved(t) /\ Answered(t) /\ Asked(t)

CaseInv == \A t \in Calls : OutcomeInv(t)

-----------------------------------------------------------------------------
\* What a step of thread t leaves of another thread's talk with the world.
Aside(t) ==
    \A u \in Calls \ {t} :
        decision'[u] = decision[u] /\ answer'[u] = answer[u] /\ shown'[u] = shown[u]

LEMMA SuperstepFrame ==
    ASSUME SystemTypeOK, NEW t \in Calls, NEW s, NEW n, Superstep(t, s, n)
    PROVE  /\ node'[t] = n /\ state'[t] = s
           /\ UNCHANGED <<decision, answer, shown>>
BY DEF SystemTypeOK, Superstep, GoTo

LEMMA WithinFrame ==
    ASSUME SystemTypeOK, NEW t \in Calls, NEW n, Within(t, n)
    PROVE  /\ node'[t] = n
           /\ UNCHANGED <<state, decision, answer, shown>>
BY DEF SystemTypeOK, Within, GoTo

LEMMA RaiseFrame ==
    ASSUME SystemTypeOK, NEW t \in Calls, Raise(t)
    PROVE  /\ node'[t] = "answered" /\ answer'[t] = "http_500"
           /\ UNCHANGED <<state, decision, shown>> /\ Aside(t)
BY DEF SystemTypeOK, Raise, Reply, GoTo, Aside

\* A failed or ended thread keeps what it has; only its answer is new.
LEMMA RaiseOutcome ==
    ASSUME SystemTypeOK, NEW t \in Calls, OutcomeInv(t), Raise(t),
           \/ pc'[t] = pc[t]
           \/ pc[t] \in Running
    PROVE  OutcomeInv(t)'
<1>1. /\ node'[t] = "answered" /\ answer'[t] = "http_500"
      /\ UNCHANGED <<state, decision, shown>>
    BY RaiseFrame
<1>2. pc[t] \in Running => node[t] = "executing" /\ pc[t] \notin Refusal \union {"ok", "idle"}
    BY DEF SystemTypeOK, Running, IssuePc, CancelPc, IssueInTx, CancelInTx, Refusal
<1>3. Resolved(t)'
    BY <1>1, <1>2 DEF OutcomeInv, Resolved, Unexecuted, Undecided, ValidateNode
<1>4. Answered(t)'
    BY <1>1 DEF OutcomeInv, Answered, WorkingNode, GraphNode, ValidateNode
<1>5. Asked(t)'
    BY <1>1, <1>2 DEF OutcomeInv, Asked, Undecided, ValidateNode
<1> QED
    BY <1>3, <1>4, <1>5 DEF OutcomeInv

\* Up to the verdict, nobody has spoken yet.
LEMMA EarlyOutcome ==
    ASSUME SystemTypeOK, NEW t \in Calls, OutcomeInv(t), UNCHANGED vars, pc[t] = "idle",
           node[t] \in Undecided \ {"new", "waiting"},
           NEW s \in SupportState, NEW n, Superstep(t, s, n),
           n \in (Undecided \ {"waiting"}) \union {"human_approval", "execute_action", "failure_response"},
           /\ s.approval = state[t].approval /\ s.executed = state[t].executed
           /\ s.resolution = state[t].resolution
    PROVE  OutcomeInv(t)' /\ Aside(t)
<1>1. /\ node'[t] = n /\ state'[t] = s
      /\ UNCHANGED <<decision, answer, shown>> /\ pc'[t] = "idle"
    BY SuperstepFrame DEF vars
<1>2. node[t] \in Unexecuted /\ node[t] \in Undecided /\ node[t] \in WorkingNode
    BY DEF Undecided, Unexecuted, WorkingNode, GraphNode, ValidateNode
<1>3. /\ s.executed = "missing" /\ s.resolution = "missing" /\ s.approval = "missing"
      /\ decision[t] = "none" /\ answer[t] = "none"
    BY <1>2 DEF OutcomeInv, Resolved, Answered, Asked
<1>4. Resolved(t)' /\ Answered(t)' /\ Asked(t)'
    BY <1>1, <1>3 DEF Resolved, Answered, Asked
<1> QED
    BY <1>1, <1>4 DEF OutcomeInv, Aside

\* A step inside a node changes the node only.
LEMMA WithinOutcome ==
    ASSUME SystemTypeOK, NEW t \in Calls, OutcomeInv(t), UNCHANGED vars, pc[t] = "idle",
           decision[t] = "none", node[t] \in Unexecuted \cap WorkingNode,
           NEW n, Within(t, n), n \in (Undecided \ {"waiting"}), state[t].approval = "missing"
    PROVE  OutcomeInv(t)' /\ Aside(t)
<1>1. /\ node'[t] = n
      /\ UNCHANGED <<state, decision, answer, shown>> /\ pc'[t] = "idle"
    BY WithinFrame DEF vars
<1>2. Resolved(t)' /\ Answered(t)' /\ Asked(t)'
    BY <1>1 DEF OutcomeInv, Resolved, Answered, Asked
<1> QED
    BY <1>1, <1>2 DEF OutcomeInv, Aside

-----------------------------------------------------------------------------
(***************************************************************************)
(* Every step keeps what its thread has told and was told.                 *)
(***************************************************************************)
Outcome(t) == OutcomeInv(t)' /\ Aside(t)

LEMMA PostOutcome ==
    ASSUME SystemInv, NEW t \in Calls, OutcomeInv(t), NEW c \in Customers \union Strangers, PostRequest(t, c)
    PROVE  Outcome(t)
<1>1. pc'[t] = "idle" /\ UNCHANGED <<decision, shown>> /\ answer[t] = "none"
    BY NoCallYet DEF SystemInv, PostRequest, AfterCall, vars, OutcomeInv, Answered
<1>2. decision[t] = "none" /\ state[t].approval = "missing"
      /\ state[t].executed = "missing" /\ state[t].resolution = "missing"
    BY DEF PostRequest, OutcomeInv, Asked, Resolved, Undecided, Unexecuted
<1>3. CASE GoTo(t, "understand_request") /\ state' = [state EXCEPT ![t] = InitialState(c)] /\ UNCHANGED answer
    <2>1. node'[t] = "understand_request" /\ state'[t] = InitialState(c)
        BY <1>3 DEF GoTo, SystemInv, SystemTypeOK
    <2> QED
        BY <1>1, <1>2, <1>3, <2>1
        DEF InitialState, Outcome, OutcomeInv, Aside, Resolved, Answered, Asked
<1>4. CASE Reply(t, "http_404") /\ UNCHANGED state
    <2>1. /\ node'[t] = "answered" /\ answer'[t] = "http_404"
          /\ \A u \in Calls \ {t} : answer'[u] = answer[u]
        BY <1>4 DEF Reply, GoTo, SystemInv, SystemTypeOK
    <2> QED
        BY <1>1, <1>2, <1>4, <2>1
        DEF Outcome, OutcomeInv, Aside, Resolved, Answered, Asked, Undecided, Unexecuted,
            ValidateNode, WorkingNode, GraphNode
<1> QED
    BY <1>3, <1>4 DEF PostRequest

LEMMA InvestigationOutcome ==
    ASSUME SystemInv, NEW t \in Calls, OutcomeInv(t),
           UnderstandRequest(t) \/ Investigate(t) \/ ReadOnlyTools(t)
    PROVE  Outcome(t)
<1>1. /\ node[t] \in {"understand_request", "investigate", "read_only_tools"}
      /\ UNCHANGED vars /\ state[t] \in SupportState
    BY DEF UnderstandRequest, Investigate, ReadOnlyTools, At, SystemInv, SystemTypeOK
<1>2. pc[t] = "idle"
    BY <1>1, NoCallYet DEF SystemInv, AfterCall
<1>3. ASSUME NEW s \in SupportState, NEW n \in {"investigate", "read_only_tools", "validate_action"},
             Superstep(t, s, n), s.approval = state[t].approval, s.executed = state[t].executed,
             s.resolution = state[t].resolution
      PROVE  Outcome(t)
    BY <1>1, <1>2, <1>3, EarlyOutcome DEF SystemInv, Outcome, Undecided, ValidateNode
<1>4. ASSUME NEW u \in Understandings,
             Superstep(t, [state[t] EXCEPT !.intent = u.intent, !.order = u.order], "investigate")
      PROVE  Outcome(t)
    <2> DEFINE s == [state[t] EXCEPT !.intent = u.intent, !.order = u.order]
    <2>1. u \in Understanding
        BY GraphAssumption
    <2>2. /\ s \in SupportState /\ s.approval = state[t].approval /\ s.executed = state[t].executed
          /\ s.resolution = state[t].resolution
        BY <1>1, <2>1 DEF SupportState, Understanding, SupportIntent
    <2> QED
        BY <1>3, <1>4, <2>2
<1>5. ASSUME NEW p \in Proposals,
             Superstep(t, [state[t] EXCEPT !.action = p.action, !.amount = p.amount], "validate_action")
      PROVE  Outcome(t)
    <2> DEFINE s == [state[t] EXCEPT !.action = p.action, !.amount = p.amount]
    <2>1. p \in ProposedAction
        BY GraphAssumption
    <2>2. /\ s \in SupportState /\ s.approval = state[t].approval /\ s.executed = state[t].executed
          /\ s.resolution = state[t].resolution
        BY <1>1, <2>1 DEF SupportState, ProposedAction, Action
    <2> QED
        BY <1>3, <1>5, <2>2
<1> QED
    BY <1>1, <1>3, <1>4, <1>5 DEF UnderstandRequest, Investigate, ReadOnlyTools

LEMMA ValidationOutcome ==
    ASSUME SystemInv, NEW t \in Calls, OutcomeInv(t),
           ValidateAction(t) \/ ValidateCalculate(t) \/ ValidateOrder(t) \/ ValidateShipment(t)
    PROVE  Outcome(t)
<1>1. /\ node[t] \in ValidateNode /\ UNCHANGED vars /\ state[t] \in SupportState
    BY DEF ValidateAction, ValidateCalculate, ValidateOrder, ValidateShipment, ValidateNode, At,
           SystemInv, SystemTypeOK
<1>2. pc[t] = "idle"
    BY <1>1, NoCallYet DEF SystemInv, AfterCall, ValidateNode
<1>3. decision[t] = "none" /\ state[t].approval = "missing"
    BY <1>1 DEF OutcomeInv, Asked, Undecided
<1>4. ASSUME NEW v \in {"valid", "invalid"}, NEW r \in {"yes", "no"}, Validated(t, v, r)
      PROVE  Outcome(t)
    <2> DEFINE s == [state[t] EXCEPT !.validation = v, !.requires = r]
    <2>0. s \in SupportState
        BY <1>1 DEF SupportState
    <2>1. /\ s.approval = state[t].approval /\ s.executed = state[t].executed
          /\ s.resolution = state[t].resolution
        BY <1>1 DEF SupportState
    <2>2. Superstep(t, s, RouteAfterValidation(s))
        BY <1>4 DEF Validated
    <2> HIDE DEF s
    <2> DEFINE n == RouteAfterValidation(s)
    <2>3. n \in {"failure_response", "human_approval", "execute_action"}
        BY DEF RouteAfterValidation
    <2>4. Superstep(t, s, n)
        BY <2>2
    <2> HIDE DEF n
    <2> QED
        BY <1>1, <1>2, <2>0, <2>1, <2>3, <2>4, EarlyOutcome DEF SystemInv, Outcome, Undecided, ValidateNode
<1>5. ASSUME NEW n \in ValidateNode, Within(t, n)
      PROVE  Outcome(t)
    BY <1>1, <1>2, <1>3, <1>5, WithinOutcome
    DEF SystemInv, Outcome, Undecided, Unexecuted, ValidateNode, WorkingNode, GraphNode
<1>6. ASSUME Raise(t)
      PROVE  Outcome(t)
    BY <1>1, <1>6, RaiseOutcome, RaiseFrame DEF SystemInv, Outcome, vars
<1>7. CASE ValidateAction(t)
    <2>1. \/ Validated(t, "valid", "no") \/ Invalid(t)
          \/ Within(t, "validate_calculate") \/ Within(t, "validate_order")
        BY <1>1, <1>7 DEF ValidateAction, SupportState, Action
    <2> QED
        BY <1>4, <1>5, <2>1 DEF Invalid, ValidateNode
<1>8. CASE ValidateCalculate(t) \/ ValidateOrder(t)
    <2>1. \/ Raise(t) \/ Invalid(t)
          \/ Within(t, "validate_order") \/ Within(t, "validate_shipment")
        BY <1>8 DEF ValidateCalculate, ValidateOrder
    <2> QED
        BY <1>4, <1>5, <1>6, <2>1 DEF Invalid, ValidateNode
<1>9. CASE ValidateShipment(t)
    BY <1>4, <1>9 DEF ValidateShipment, CancelVerdict, RefundVerdict, Invalid
<1> QED
    BY <1>7, <1>8, <1>9

LEMMA ApprovalOutcome ==
    ASSUME SystemInv, NEW t \in Calls, OutcomeInv(t), HumanApproval(t)
    PROVE  Outcome(t)
<1>1. /\ node[t] = "human_approval" /\ UNCHANGED vars /\ state[t] \in SupportState
      /\ decision[t] \in {"none", "approved", "rejected"}
    BY DEF HumanApproval, At, SystemInv, SystemTypeOK
<1>2. pc[t] = "idle" /\ pc'[t] = "idle" /\ answer[t] = "none"
      /\ state[t].executed = "missing" /\ state[t].resolution = "missing"
    BY <1>1, NoCallYet DEF SystemInv, AfterCall, vars, OutcomeInv, Answered, Resolved,
       Unexecuted, WorkingNode, GraphNode
<1>3. CASE decision[t] = "none" /\ Within(t, "interrupted")
    <2>1. state[t].approval = "missing"
        BY <1>1, <1>3 DEF OutcomeInv, Asked, SupportState
    <2> QED
        BY <1>1, <1>2, <1>3, <2>1, WithinOutcome
        DEF SystemInv, Outcome, Undecided, Unexecuted, WorkingNode, GraphNode
<1>4. CASE decision[t] # "none"
    <2> DEFINE s == [state[t] EXCEPT !.approval = decision[t]]
    <2>1. /\ s.approval = decision[t] /\ s.executed = "missing" /\ s.resolution = "missing"
          /\ Proposal(s) = Proposal(state[t])
        BY <1>1, <1>2 DEF SupportState, Proposal
    <2>2. Superstep(t, s, RouteAfterApproval(s))
        BY <1>4 DEF HumanApproval
    <2> HIDE DEF s
    <2>3. /\ node'[t] = RouteAfterApproval(s) /\ state'[t] = s
          /\ UNCHANGED <<decision, answer, shown>>
        BY <2>2, SuperstepFrame DEF SystemInv
    <2>4. \/ node'[t] = "execute_action" /\ decision[t] = "approved"
          \/ node'[t] = "failure_response"
        BY <2>1, <2>3 DEF RouteAfterApproval
    <2>5. Resolved(t)' /\ Answered(t)' /\ Asked(t)'
        BY <1>2, <1>4, <2>1, <2>3, <2>4 DEF OutcomeInv, Asked, Resolved, Answered, Undecided, ValidateNode
    <2> QED
        BY <2>3, <2>5 DEF Outcome, OutcomeInv, Aside
<1> QED
    BY <1>3, <1>4 DEF HumanApproval

LEMMA ResumeOutcome ==
    ASSUME SystemInv, NEW t \in Calls, OutcomeInv(t), NEW word \in {"approved", "rejected"}, Resume(t, word)
    PROVE  Outcome(t)
<1>1. node[t] = "waiting" /\ UNCHANGED <<vars, state, shown>>
    BY DEF Resume
<1>2. pc[t] = "idle" /\ pc'[t] = "idle"
    BY <1>1, NoCallYet DEF SystemInv, AfterCall, vars
<1>3. /\ node'[t] = "human_approval" /\ decision'[t] = word /\ answer'[t] = "none"
      /\ \A u \in Calls \ {t} : decision'[u] = decision[u] /\ answer'[u] = answer[u]
    BY DEF Resume, GoTo, SystemInv, SystemTypeOK
<1>4. state[t].approval = "missing" /\ shown[t] = Proposal(state[t])
      /\ state[t].executed = "missing" /\ state[t].resolution = "missing"
    BY <1>1 DEF OutcomeInv, Asked, Resolved, Undecided, Unexecuted
<1>5. Resolved(t)' /\ Answered(t)' /\ Asked(t)'
    BY <1>1, <1>2, <1>3, <1>4 DEF Asked, Resolved, Answered, Undecided, ValidateNode
<1> QED
    BY <1>1, <1>3, <1>5 DEF Outcome, OutcomeInv, Aside

\* From the executing node on, the verdict of the service is final.
LEMMA LateOutcome ==
    ASSUME SystemTypeOK, NEW t \in Calls, OutcomeInv(t), UNCHANGED vars, pc[t] \notin Running,
           node[t] \in {"execute_action", "executing", "success_response", "failure_response"},
           NEW s, NEW n \in {"success_response", "failure_response", "end"}, Superstep(t, s, n),
           s.approval = state[t].approval, Proposal(s) = Proposal(state[t]), s.action = state[t].action,
           s.executed = "succeeded" => s.action = "no_action" \/ pc[t] = "ok",
           s.resolution = "succeeded" => s.executed = "succeeded",
           n = "failure_response" \/ s.resolution = "failed" => pc[t] \in {"idle"} \union Refusal,
           n = "success_response" => node[t] \in {"execute_action", "executing"}
    PROVE  Outcome(t)
<1>1. /\ node'[t] = n /\ state'[t] = s
      /\ UNCHANGED <<decision, answer, shown>> /\ pc'[t] = pc[t]
    BY SuperstepFrame DEF vars
<1>2. answer[t] = "none"
    BY DEF OutcomeInv, Answered, WorkingNode, GraphNode
<1>3. decision[t] = "rejected" => node'[t] \in {"failure_response", "end"} /\ pc[t] = "idle"
    <2>1. decision[t] = "rejected" => pc[t] = "idle" /\ node[t] = "failure_response"
        BY DEF OutcomeInv, Asked
    <2> QED
        BY <1>1, <2>1
<1>4. Resolved(t)' /\ Answered(t)' /\ Asked(t)'
    BY <1>1, <1>2, <1>3 DEF OutcomeInv, Asked, Resolved, Answered, Undecided, Unexecuted, ValidateNode
<1> QED
    BY <1>1, <1>4 DEF Outcome, OutcomeInv, Aside

LEMMA ExecuteOutcome ==
    ASSUME Inv, SystemInv, NEW t \in Calls, OutcomeInv(t), ExecuteAction(t)
    PROVE  Outcome(t)
<1>1. node[t] = "execute_action" /\ Cleared(t) /\ state[t] \in SupportState
    BY DEF ExecuteAction, At, SystemInv, SystemTypeOK, ThreadInv, AfterVerdict
<1>2. pc[t] = "idle" /\ answer[t] = "none" /\ decision[t] # "rejected"
      /\ state[t].executed = "missing" /\ state[t].resolution = "missing"
    BY <1>1, NoCallYet DEF SystemInv, AfterCall, OutcomeInv, Answered, Resolved, Asked,
       Unexecuted, WorkingNode, GraphNode
<1>3. CASE state[t].action = "no_action"
    <2> DEFINE s == [state[t] EXCEPT !.executed = "succeeded"]
    <2>1. /\ s.approval = state[t].approval /\ Proposal(s) = Proposal(state[t])
          /\ s.action = "no_action" /\ s.executed = "succeeded" /\ s.resolution = "missing"
        BY <1>1, <1>2, <1>3 DEF SupportState, Proposal
    <2>2. Superstep(t, s, RouteAfterExecution(s)) /\ UNCHANGED vars
        BY <1>1, <1>3 DEF ExecuteAction, Executed, Cleared
    <2> HIDE DEF s
    <2>3. Superstep(t, s, "success_response")
        BY <2>1, <2>2 DEF RouteAfterExecution
    <2> QED
        BY <1>1, <1>2, <1>3, <2>1, <2>2, <2>3, LateOutcome
        DEF SystemInv, Running, IssuePc, CancelPc, IssueInTx, CancelInTx
<1>4. CASE state[t].action # "no_action"
    <2>1. Within(t, "executing")
        BY <1>1, <1>4 DEF ExecuteAction, Cleared
    <2>2. node'[t] = "executing" /\ UNCHANGED <<state, decision, answer, shown>>
        BY <2>1, WithinFrame DEF SystemInv
    <2>3. Resolved(t)' /\ Answered(t)' /\ Asked(t)'
        BY <1>2, <2>2 DEF OutcomeInv, Asked, Resolved, Answered, Undecided, ValidateNode
    <2> QED
        BY <2>2, <2>3 DEF Outcome, OutcomeInv, Aside
<1> QED
    BY <1>3, <1>4

LEMMA ServiceOutcome ==
    ASSUME NEW t \in Calls, OutcomeInv(t), ServiceStep(t)
    PROVE  Outcome(t)
<1>1. node[t] = "executing" /\ UNCHANGED graph
    BY DEF ServiceStep, At
<1>2. /\ state[t].executed = "missing" /\ state[t].resolution = "missing"
      /\ answer[t] = "none" /\ decision[t] # "rejected"
    BY <1>1 DEF OutcomeInv, Resolved, Answered, Asked, Unexecuted, WorkingNode, GraphNode
<1>3. Resolved(t)' /\ Answered(t)' /\ Asked(t)'
    BY <1>1, <1>2 DEF graph, OutcomeInv, Resolved, Answered, Asked
<1> QED
    BY <1>1, <1>3 DEF Outcome, OutcomeInv, Aside, graph

LEMMA ReturnOutcome ==
    ASSUME SystemInv, NEW t \in Calls, OutcomeInv(t), ServiceReturns(t)
    PROVE  Outcome(t)
<1>1. /\ node[t] = "executing" /\ UNCHANGED vars /\ state[t] \in SupportState
      /\ pc[t] \in {"ok", "refused", "not_found", "db_error"}
    BY DEF ServiceReturns, At, SystemInv, SystemTypeOK
<1>2. pc[t] \notin Running /\ pc'[t] = pc[t] /\ state[t].resolution = "missing"
    BY <1>1 DEF Running, IssuePc, CancelPc, IssueInTx, CancelInTx, vars, OutcomeInv, Resolved, Unexecuted
<1>3. CASE Raise(t)
    BY <1>2, <1>3, RaiseOutcome, RaiseFrame DEF SystemInv, Outcome
<1>4. CASE /\ pc[t] # "db_error"
           /\ Executed(t, IF pc[t] = "ok" THEN "succeeded" ELSE "failed")
    <2> DEFINE outcome == IF pc[t] = "ok" THEN "succeeded" ELSE "failed"
    <2> DEFINE s == [state[t] EXCEPT !.executed = outcome]
    <2>1. /\ s.approval = state[t].approval /\ Proposal(s) = Proposal(state[t])
          /\ s.action = state[t].action /\ s.executed = outcome /\ s.resolution = "missing"
        BY <1>1, <1>2 DEF SupportState, Proposal
    <2>2. Superstep(t, s, RouteAfterExecution(s))
        BY <1>4 DEF Executed
    <2> HIDE DEF s
    <2> DEFINE n == RouteAfterExecution(s)
    <2>3. /\ n \in {"success_response", "failure_response"}
          /\ n = "failure_response" <=> pc[t] # "ok"
        BY <2>1 DEF RouteAfterExecution
    <2>4. Superstep(t, s, n)
        BY <2>2
    <2> HIDE DEF n
    <2> QED
        BY <1>1, <1>2, <1>4, <2>1, <2>3, <2>4, LateOutcome DEF SystemInv, Refusal
<1> QED
    BY <1>3, <1>4 DEF ServiceReturns

LEMMA ResponseOutcome ==
    ASSUME SystemInv, NEW t \in Calls, OutcomeInv(t), SuccessResponse(t) \/ FailureResponse(t)
    PROVE  Outcome(t)
<1>1. /\ node[t] \in {"success_response", "failure_response"} /\ UNCHANGED vars
      /\ state[t] \in SupportState
    BY DEF SuccessResponse, FailureResponse, At, SystemInv, SystemTypeOK
<1>2. pc[t] \notin Running
    BY <1>1 DEF SystemInv, SystemTypeOK
<1>3. PICK resolution \in {"succeeded", "failed"}, text \in {"text", "blank"} :
         /\ Superstep(t, [state[t] EXCEPT !.resolution = resolution, !.response = text], "end")
         /\ \/ node[t] = "success_response" /\ resolution = "succeeded"
            \/ node[t] = "failure_response" /\ resolution = "failed"
    BY DEF SuccessResponse, FailureResponse, At
<1>4. /\ node[t] = "success_response" => state[t].executed = "succeeded"
      /\ node[t] = "failure_response" => pc[t] \in {"idle"} \union Refusal
      /\ state[t].executed = "succeeded" => state[t].action = "no_action" \/ pc[t] = "ok"
    BY DEF SystemInv, ThreadInv, AfterVerdict, OutcomeInv, Resolved
<1> DEFINE s == [state[t] EXCEPT !.resolution = resolution, !.response = text]
<1>5. /\ s.approval = state[t].approval /\ Proposal(s) = Proposal(state[t])
      /\ s.action = state[t].action /\ s.executed = state[t].executed /\ s.resolution = resolution
    BY <1>1 DEF SupportState, Proposal
<1>6. Superstep(t, s, "end")
    BY <1>3
<1> HIDE DEF s
<1> QED
    BY <1>1, <1>2, <1>3, <1>4, <1>5, <1>6, LateOutcome DEF SystemInv

LEMMA BuildOutcome ==
    ASSUME SystemInv, NEW t \in Calls, OutcomeInv(t), BuildWorkflowResponse(t)
    PROVE  Outcome(t)
<1>1. UNCHANGED <<vars, state, decision>> /\ pc'[t] = pc[t]
    BY DEF BuildWorkflowResponse, vars
<1>2. CASE node[t] = "interrupted"
    <2>1. /\ node'[t] = "waiting" /\ answer'[t] = "approval_required" /\ shown'[t] = Proposal(state[t])
          /\ \A u \in Calls \ {t} : answer'[u] = answer[u] /\ shown'[u] = shown[u]
        BY <1>2 DEF BuildWorkflowResponse, GoTo, SystemInv, SystemTypeOK
    <2>2. /\ decision[t] = "none" /\ state[t].approval = "missing"
          /\ state[t].executed = "missing" /\ state[t].resolution = "missing"
        BY <1>2 DEF OutcomeInv, Asked, Resolved, Unexecuted, Undecided
    <2>3. Resolved(t)' /\ Answered(t)' /\ Asked(t)'
        BY <1>1, <2>1, <2>2 DEF Asked, Resolved, Answered, WorkingNode, GraphNode, ValidateNode
    <2> QED
        BY <1>1, <2>1, <2>3 DEF Outcome, OutcomeInv, Aside
<1>3. CASE node[t] = "end"
    <2>1. /\ node'[t] = "answered" /\ UNCHANGED shown
          /\ answer'[t] = IF state[t].response = "text" THEN state[t].resolution ELSE "http_500"
          /\ \A u \in Calls \ {t} : answer'[u] = answer[u]
        BY <1>3 DEF BuildWorkflowResponse, Reply, GoTo, SystemInv, SystemTypeOK
    <2>2. state[t].resolution \in {"succeeded", "failed"}
        BY <1>3 DEF SystemInv, SystemTypeOK, ThreadInv, AfterVerdict, SupportState
    <2>3. Resolved(t)' /\ Answered(t)' /\ Asked(t)'
        BY <1>1, <1>3, <2>1, <2>2 DEF OutcomeInv, Asked, Resolved, Answered, Undecided, Unexecuted,
           WorkingNode, GraphNode, ValidateNode
    <2> QED
        BY <1>1, <2>1, <2>3 DEF Outcome, OutcomeInv, Aside
<1> QED
    BY <1>2, <1>3 DEF BuildWorkflowResponse

\* Whatever ends a thread early leaves what it has told as it was.
LEMMA FailureOutcome ==
    ASSUME Inv, SystemInv, NEW t \in Calls, OutcomeInv(t), Fault(t) \/ OutOfSteps(t)
    PROVE  Outcome(t)
<1>1. pc'[t] = pc[t] \/ pc[t] \in Running
    BY DEF Fault, OutOfSteps, vars
<1>2. CASE Raise(t)
    BY <1>1, <1>2, RaiseOutcome, RaiseFrame DEF SystemInv, Outcome
<1>3. CASE /\ node[t] \in WorkingNode /\ GoTo(t, "dead")
           /\ UNCHANGED <<state, decision, answer, shown>>
    <2>1. node'[t] = "dead" /\ answer[t] = "none"
        BY <1>3 DEF GoTo, SystemInv, SystemTypeOK, OutcomeInv, Answered
    <2>2. pc[t] \in Running => node[t] = "executing" /\ pc[t] \notin Refusal \union {"ok", "idle"}
        BY DEF SystemInv, SystemTypeOK, Running, IssuePc, CancelPc, IssueInTx, CancelInTx, Refusal
    <2>3. Resolved(t)' /\ Answered(t)' /\ Asked(t)'
        BY <1>1, <1>3, <2>1, <2>2 DEF OutcomeInv, Asked, Resolved, Answered, Undecided, Unexecuted,
           WorkingNode, GraphNode, ValidateNode
    <2> QED
        BY <1>3, <2>3 DEF Outcome, OutcomeInv, Aside
<1> QED
    BY <1>2, <1>3 DEF Fault, OutOfSteps

LEMMA ThreadOutcome ==
    ASSUME Inv, SystemInv, NEW t \in Calls, OutcomeInv(t), WorkflowStep(t) \/ Fault(t)
    PROVE  Outcome(t)
BY InvestigationOutcome, ValidationOutcome, ApprovalOutcome, ExecuteOutcome, ServiceOutcome,
   ReturnOutcome, ResponseOutcome, BuildOutcome, FailureOutcome DEF WorkflowStep

LEMMA InitCase == SystemInit => CaseInv
<1> SUFFICES ASSUME SystemInit, NEW t \in Calls PROVE OutcomeInv(t)
    BY DEF CaseInv
<1> QED
    BY DEF SystemInit, Init, InitialState, OutcomeInv, Resolved, Answered, Asked

LEMMA NextCase == Inv /\ SystemInv /\ CaseInv /\ [SystemNext]_systemVars => CaseInv'
<1> SUFFICES ASSUME Inv, SystemInv, CaseInv, [SystemNext]_systemVars PROVE CaseInv'
    OBVIOUS
<1>1. ASSUME NEW u \in Calls, node'[u] = node[u], state'[u] = state[u], pc'[u] = pc[u],
             decision'[u] = decision[u], answer'[u] = answer[u], shown'[u] = shown[u]
      PROVE  OutcomeInv(u)'
    BY <1>1 DEF CaseInv, OutcomeInv, Resolved, Answered, Asked
<1>2. ASSUME NEW t \in Calls, Kept(t), Outcome(t) PROVE CaseInv'
    <2> SUFFICES ASSUME NEW u \in Calls PROVE OutcomeInv(u)'
        BY DEF CaseInv
    <2>1. CASE u = t
        BY <1>2, <2>1 DEF Outcome
    <2>2. CASE u # t
        BY <1>1, <1>2, <2>2 DEF Outcome, Aside, Kept, Apart
    <2> QED
        BY <2>1, <2>2
<1>3. CASE UNCHANGED <<graph, pc>>
    BY <1>1, <1>3 DEF CaseInv, graph
<1>4. CASE \E t \in Calls, c \in Customers \union Strangers : PostRequest(t, c)
    BY <1>2, <1>4, PostKeeps, PostOutcome DEF CaseInv
<1>5. CASE \E t \in Calls, word \in {"approved", "rejected"} : Resume(t, word)
    BY <1>2, <1>5, ResumeKeeps, ResumeOutcome DEF CaseInv
<1>6. CASE \E t \in Calls : WorkflowStep(t) \/ Fault(t)
    BY <1>2, <1>6, WorkflowKeeps, ThreadOutcome DEF CaseInv
<1>7. CASE World
    BY <1>3, <1>7 DEF World, AdvanceOrder, UpdateShipment
<1>8. CASE UNCHANGED systemVars
    BY <1>3, <1>8 DEF systemVars, vars
<1> QED
    BY <1>4, <1>5, <1>6, <1>7, <1>8 DEF SystemNext, Settled

LEMMA CaseSpecInv == SystemSpec => [](Inv /\ SystemInv /\ CaseInv)
    BY SystemSpecInv, InitCase, NextCase, PTL DEF SystemSpec

-----------------------------------------------------------------------------
\* A row of a thread was written by the call of its state.
LEMMA RowsHaveCalls ==
    ASSUME Inv, SystemInv, NEW r \in refunds, r.id # Seed
    PROVE  /\ r.id \in Calls /\ pc[r.id] \notin {"idle"} \union IssuePc \union CancelPc \union Refusal
           /\ Cleared(r.id) /\ req[r.id] = CallOf(state[r.id]) /\ state[r.id].action # "no_action"
<1>1. r.id \in Calls
    BY DEF Inv, TypeOK, Refund
<1>2. pc[r.id] \notin {"idle"} \union IssuePc \union CancelPc \union Refusal
    BY <1>1 DEF Inv, CallInv, Established
<1> QED
    BY <1>1, <1>2 DEF SystemInv, ThreadInv, AfterBegin

\* What a call of kind issue takes from its thread's state.
LEMMA IssueCall ==
    ASSUME NEW t \in Calls, req[t] = CallOf(state[t]), req[t].kind = "issue"
    PROVE  /\ state[t].action = "refund" /\ req[t].order = state[t].order
           /\ req[t].amount = state[t].amount
           /\ req[t].approved => state[t].approval = "approved"
<1> DEFINE s == state[t]
<1>1. s.action = "refund"
    BY DEF CallOf
<1> DEFINE yes == s.approval = "approved"
           d == Damaged(s)
           call == [kind |-> "issue", customer |-> s.customer, order |-> s.order,
                    amount |-> s.amount, damaged |-> d, approved |-> yes]
<1>2. req[t] = call
    BY <1>1 DEF CallOf
<1>3. call.amount = s.amount /\ call.order = s.order /\ call.approved = yes
    <2> HIDE DEF d, yes, s
    <2> QED OBVIOUS
<1> HIDE DEF call
<1>4. req[t].amount = s.amount /\ req[t].order = s.order /\ (req[t].approved => s.approval = "approved")
    BY <1>2, <1>3, Zenon
<1> QED
    BY <1>1, <1>4

\* A refund that needs a human was approved, and is the one that was shown.
LEMMA GuardedRow ==
    ASSUME Inv, SystemInv, CaseInv, NEW r \in refunds, r.id # Seed,
           r.reason # "reversal", NeedsApproval(r.reason = "damaged", r.amount)
    PROVE  /\ decision[r.id] = "approved"
           /\ shown[r.id] = [action |-> "refund", amount |-> r.amount]
<1>1. /\ r.id \in Calls /\ req[r.id] = CallOf(state[r.id])
      /\ req[r.id] \in Request
    BY RowsHaveCalls, RequestType DEF Inv
<1>2. /\ req[r.id].kind = "issue" /\ req[r.id].amount = r.amount
      /\ r.reason = "damaged" => req[r.id].damaged
      /\ NeedsApproval(req[r.id].damaged, req[r.id].amount) => req[r.id].approved
    BY <1>1 DEF Inv, Sound, Request
<1>3. NeedsApproval(req[r.id].damaged, req[r.id].amount)
    BY <1>2 DEF NeedsApproval
<1>4. state[r.id].action = "refund" /\ state[r.id].amount = r.amount /\ state[r.id].approval = "approved"
    BY <1>1, <1>2, <1>3, IssueCall
<1> QED
    BY <1>1, <1>4 DEF CaseInv, OutcomeInv, Asked, Proposal

\* A refund that needs a human is the very one that a human was shown and
\* approved, whichever order the reads, the approval and the write came in.
THEOREM ApprovalIsInformed == SystemSpec => []ApprovedAsShown
<1>1. ASSUME Inv, SystemInv, CaseInv, NEW r \in refunds, r.id # Seed
      PROVE  decision[r.id] # "rejected"
    BY <1>1, RowsHaveCalls DEF CaseInv, OutcomeInv, Asked
<1>2. Inv /\ SystemInv /\ CaseInv => ApprovedAsShown
    BY <1>1, GuardedRow DEF ApprovedAsShown
<1> QED
    BY <1>2, CaseSpecInv, PTL

\* A customer who is told of a success has the refund or the cancellation on
\* record, and one who is told of a failure was not written for, for good and
\* whatever the other threads do.
THEOREM CustomersAreToldTheTruth == SystemSpec => []AnswerIsTrue
<1>1. ASSUME Inv, SystemInv, CaseInv, NEW t \in Calls, answer[t] = "succeeded"
      PROVE  Done(t)
    <2>1. state[t].action = "no_action" \/ pc[t] = "ok"
        BY <1>1 DEF CaseInv, OutcomeInv, Answered, Resolved
    <2>2. state[t] \in SupportState
        BY <1>1 DEF SystemInv, SystemTypeOK
    <2>3. CASE pc[t] = "ok"
        <3>1. req[t] = CallOf(state[t]) /\ state[t].action \in {"refund", "cancel"}
            BY <1>1, <2>2, <2>3 DEF SystemInv, ThreadInv, AfterBegin, Cleared, Passed, SupportState, Action
        <3>2. CASE state[t].action = "cancel"
            <4>1. req[t].kind = "cancel" /\ req[t].order = state[t].order
                BY <3>1, <3>2 DEF CallOf
            <4> QED
                BY <1>1, <2>3, <3>2, <4>1 DEF Inv, Told, Done
        <3>3. CASE state[t].action = "refund"
            <4>1. req[t].kind = "issue"
                BY <3>1, <3>3 DEF CallOf
            <4>2. req[t].amount = state[t].amount /\ req[t].order = state[t].order
                BY <3>1, <4>1, IssueCall
            <4> QED
                BY <1>1, <2>3, <3>3, <4>1, <4>2 DEF Inv, Told, Done
        <3> QED
            BY <3>1, <3>2, <3>3
    <2>4. CASE state[t].action = "no_action"
        BY <2>4 DEF Done
    <2> QED
        BY <2>1, <2>3, <2>4
<1>2. ASSUME Inv, SystemInv, CaseInv, NEW t \in Calls,
             answer[t] \in {"failed", "approval_required", "http_404"}
      PROVE  \A r \in refunds : r.id # t
    <2>1. pc[t] \in {"idle"} \union Refusal
        <3>1. CASE answer[t] = "approval_required"
            <4>1. node[t] = "waiting"
                BY <1>2, <3>1 DEF CaseInv, OutcomeInv, Answered
            <4> QED
                BY <1>2, <4>1, NoCallYet DEF SystemInv, AfterCall
        <3> QED
            BY <1>2, <3>1 DEF CaseInv, OutcomeInv, Answered, Resolved
    <2> QED
        BY <1>2, <2>1 DEF Inv, CallInv, Established
<1>3. Inv /\ SystemInv /\ CaseInv => AnswerIsTrue
    BY <1>1, <1>2 DEF AnswerIsTrue
<1> QED
    BY <1>3, CaseSpecInv, PTL

-----------------------------------------------------------------------------
(***************************************************************************)
(* The workflow implements SupportCase.                                    *)
(***************************************************************************)

\* The stages a step of thread t may go through, with what it writes.
Moves(t) ==
    \/ Stage(t)' = Stage(t) /\ Written(t)' = Written(t)
    \/ Written(t)' = Written(t) /\
         \/ Stage(t) = "new" /\ Stage(t)' \in {"open", "closed"}
         \/ Stage(t) = "open" /\ Written(t) = "nothing" /\ Stage(t)' = "asking"
         \/ Stage(t) = "asking" /\ Stage(t)' \in {"approved", "rejected"}
         \/ Stage(t) \notin {"new", "closed"} /\ Stage(t)' = "closed"
    \/ Stage(t)' = Stage(t) /\ Written(t) = "nothing" /\
         \/ Stage(t) = "open" /\ Written(t)' = "free"
         \/ Stage(t) = "approved" /\ Written(t)' \in {"free", "guarded"}

\* The rows of a thread change only by its own service call.
LEMMA WrittenStays ==
    ASSUME NEW t \in Calls, refunds \subseteq refunds', \A r \in refunds' \ refunds : r.id # t
    PROVE  Written(t)' = Written(t)
<1>1. {r \in refunds' : r.id = t} = {r \in refunds : r.id = t}
    OBVIOUS
<1> QED
    BY <1>1 DEF Written

LEMMA MoveImplements ==
    ASSUME NEW t \in Calls, Moves(t),
           \A u \in Calls \ {t} : Stage(u)' = Stage(u) /\ Written(u)' = Written(u)
    PROVE  [Case!Next]_(Case!progress)
<1> DEFINE S == [u \in Calls |-> Stage(u)]
           W == [u \in Calls |-> Written(u)]
<1>1. ASSUME Written(t)' = Written(t) PROVE W' = W
    BY <1>1
<1>2. ASSUME Stage(t)' = Stage(t) PROVE S' = S
    BY <1>2
<1>3. S' = [S EXCEPT ![t] = Stage(t)'] /\ W' = [W EXCEPT ![t] = Written(t)']
    OBVIOUS
<1>4. S[t] = Stage(t) /\ W[t] = Written(t)
    OBVIOUS
<1> QED
    BY <1>1, <1>2, <1>3, <1>4 DEF Moves, Case!Next, Case!Open, Case!Ask, Case!Decide, Case!Refund,
       Case!Close, Case!Enter, Case!progress

Moving == GraphNode \union {"end"}

\* From one node to the next, or out of the graph.
LEMMA NodeMoves ==
    ASSUME NEW t \in Calls, node[t] \in Moving, node'[t] \in Moving, decision'[t] = decision[t],
           UNCHANGED refunds
    PROVE  Moves(t)
BY DEF Moves, Stage, Written, Moving, GraphNode, ValidateNode

LEMMA EndMoves ==
    ASSUME SystemTypeOK, NEW t \in Calls, node[t] \in WorkingNode, node'[t] \in {"answered", "dead"},
           UNCHANGED refunds
    PROVE  Moves(t)
<1>1. Stage(t) \notin {"new", "closed"}
    BY DEF Stage, SystemTypeOK, WorkingNode, GraphNode, ValidateNode
<1>2. Stage(t)' = "closed" /\ Written(t)' = Written(t)
    BY DEF Stage, Written, GraphNode, ValidateNode
<1> QED
    BY <1>1, <1>2 DEF Moves

LEMMA SuperstepMoves ==
    ASSUME SystemTypeOK, NEW t \in Calls, node[t] \in Moving, NEW s, NEW n \in Moving,
           Superstep(t, s, n), UNCHANGED vars
    PROVE  Moves(t)
BY SuperstepFrame, NodeMoves DEF vars

LEMMA WithinMoves ==
    ASSUME SystemTypeOK, NEW t \in Calls, node[t] \in Moving, NEW n \in Moving, Within(t, n),
           UNCHANGED refunds
    PROVE  Moves(t)
BY WithinFrame, NodeMoves

LEMMA RaiseMoves ==
    ASSUME SystemTypeOK, NEW t \in Calls, node[t] \in WorkingNode, Raise(t), UNCHANGED refunds
    PROVE  Moves(t)
BY RaiseFrame, EndMoves

\* Nothing is written for a thread whose call is not past its transaction.
LEMMA NothingWritten ==
    ASSUME Inv, NEW t \in Calls, pc[t] \in {"idle"} \union IssuePc \union CancelPc \union Refusal
    PROVE  Written(t) = "nothing"
<1>1. {r \in refunds : r.id = t} = {}
    BY DEF Inv, CallInv, Established
<1> QED
    BY <1>1 DEF Written

LEMMA PostMoves ==
    ASSUME SystemInv, CaseInv, NEW t \in Calls, NEW c \in Customers \union Strangers, PostRequest(t, c)
    PROVE  Moves(t)
<1>1. node[t] = "new" /\ node'[t] \in {"understand_request", "answered"}
      /\ UNCHANGED <<decision, refunds>>
    BY DEF PostRequest, GoTo, Reply, SystemInv, SystemTypeOK, vars
<1>2. decision'[t] = "none"
    BY <1>1 DEF CaseInv, OutcomeInv, Asked, Undecided
<1>3. Stage(t) = "new" /\ Stage(t)' \in {"open", "closed"}
    BY <1>1, <1>2 DEF Stage, GraphNode, ValidateNode
<1> QED
    BY <1>1, <1>3 DEF Moves, Written

LEMMA ResumeMoves ==
    ASSUME SystemInv, NEW t \in Calls, NEW word \in {"approved", "rejected"}, Resume(t, word)
    PROVE  Moves(t)
<1>1. /\ node[t] = "waiting" /\ node'[t] = "human_approval" /\ decision'[t] = word
      /\ UNCHANGED refunds
    BY DEF Resume, GoTo, SystemInv, SystemTypeOK, vars
<1>2. Stage(t) = "asking" /\ Stage(t)' = word
    BY <1>1 DEF Stage, GraphNode, ValidateNode
<1> QED
    BY <1>1, <1>2 DEF Moves, Written

LEMMA ReadingMoves ==
    ASSUME SystemInv, NEW t \in Calls,
           \/ UnderstandRequest(t) \/ Investigate(t) \/ ReadOnlyTools(t)
           \/ ValidateAction(t) \/ ValidateCalculate(t) \/ ValidateOrder(t) \/ ValidateShipment(t)
    PROVE  Moves(t)
<1>1. UNCHANGED vars /\ node[t] \in Moving /\ node[t] \in WorkingNode /\ SystemTypeOK
    BY DEF UnderstandRequest, Investigate, ReadOnlyTools, ValidateAction, ValidateCalculate,
       ValidateOrder, ValidateShipment, At, Moving, WorkingNode, GraphNode, ValidateNode, SystemInv
<1>2. ASSUME NEW s, NEW n \in Moving, Superstep(t, s, n) PROVE Moves(t)
    BY <1>1, <1>2, SuperstepMoves
<1>3. CASE UnderstandRequest(t) \/ Investigate(t) \/ ReadOnlyTools(t)
    <2>1. \E s : \E n \in {"investigate", "read_only_tools", "validate_action"} : Superstep(t, s, n)
        BY <1>3 DEF UnderstandRequest, Investigate, ReadOnlyTools
    <2> QED
        BY <1>2, <2>1 DEF Moving, GraphNode, ValidateNode
<1>4. ASSUME NEW v, NEW r, Validated(t, v, r) PROVE Moves(t)
    <2> DEFINE s == [state[t] EXCEPT !.validation = v, !.requires = r]
    <2>1. Superstep(t, s, RouteAfterValidation(s))
        BY <1>4 DEF Validated
    <2> HIDE DEF s
    <2>2. RouteAfterValidation(s) \in Moving
        BY DEF RouteAfterValidation, Moving, GraphNode
    <2> QED
        BY <1>2, <2>1, <2>2
<1>5. ASSUME NEW n \in ValidateNode, Within(t, n) PROVE Moves(t)
    BY <1>1, <1>5, WithinMoves DEF vars, Moving, GraphNode
<1>6. CASE ValidateAction(t)
    <2>1. state[t].action \in {"refund", "cancel", "no_action"} \union {"missing"}
        BY <1>1 DEF SystemTypeOK, SupportState, Action
    <2>2. \/ Validated(t, "valid", "no") \/ Invalid(t)
          \/ Within(t, "validate_calculate") \/ Within(t, "validate_order")
        BY <1>6, <2>1 DEF ValidateAction
    <2> QED
        BY <1>4, <1>5, <2>2 DEF Invalid, ValidateNode
<1>7. CASE ValidateCalculate(t) \/ ValidateOrder(t)
    <2>1. Raise(t) \/ Invalid(t) \/ Within(t, "validate_order") \/ Within(t, "validate_shipment")
        BY <1>7 DEF ValidateCalculate, ValidateOrder
    <2>2. CASE Raise(t)
        BY <1>1, <2>2, RaiseMoves DEF vars
    <2> QED
        BY <1>4, <1>5, <2>1, <2>2 DEF Invalid, ValidateNode
<1>8. CASE ValidateShipment(t)
    BY <1>4, <1>8 DEF ValidateShipment, CancelVerdict, RefundVerdict, Invalid
<1> QED
    BY <1>3, <1>6, <1>7, <1>8

\* The human is asked before the call: nothing is written.
LEMMA ApprovalMoves ==
    ASSUME Inv, SystemInv, NEW t \in Calls, HumanApproval(t)
    PROVE  Moves(t)
<1>1. node[t] = "human_approval" /\ UNCHANGED vars /\ SystemTypeOK
    BY DEF HumanApproval, At, SystemInv
<1>2. Written(t) = "nothing"
    BY <1>1, NoCallYet, NothingWritten DEF SystemInv, AfterCall
<1>3. CASE decision[t] = "none" /\ Within(t, "interrupted")
    <2>1. node'[t] = "interrupted" /\ UNCHANGED decision
        BY <1>1, <1>3, WithinFrame
    <2>2. Stage(t) = "open" /\ Stage(t)' = "asking"
        BY <1>1, <1>3, <2>1 DEF Stage, GraphNode, ValidateNode
    <2>3. Written(t)' = Written(t)
        BY <1>1 DEF Written, vars
    <2> QED
        BY <1>2, <2>2, <2>3 DEF Moves
<1>4. CASE decision[t] # "none"
    <2> DEFINE s == [state[t] EXCEPT !.approval = decision[t]]
    <2>1. Superstep(t, s, RouteAfterApproval(s))
        BY <1>4 DEF HumanApproval
    <2> HIDE DEF s
    <2>2. RouteAfterApproval(s) \in Moving /\ node[t] \in Moving
        BY <1>1 DEF RouteAfterApproval, Moving, GraphNode
    <2> QED
        BY <1>1, <2>1, <2>2, SuperstepMoves
<1> QED
    BY <1>3, <1>4 DEF HumanApproval

\* A service call that writes a row under guard does it for an approved case.
LEMMA ServiceMoves ==
    ASSUME Inv, Inv', SystemInv, CaseInv, NEW t \in Calls, ServiceStep(t)
    PROVE  Moves(t)
<1>1. node[t] = "executing" /\ UNCHANGED graph /\ (IssueStep(t) \/ CancelStep(t) \/ Answer(t))
    BY DEF ServiceStep, At
<1>2. Monotone /\ Only(t) /\ req' = req
    BY <1>1, CallShape DEF Inv
<1>3. Stage(t)' = Stage(t)
    BY <1>1 DEF Stage, graph
<1>4. CASE refunds' = refunds
    BY <1>3, <1>4 DEF Moves, Written
<1>5. CASE refunds' # refunds
    <2>1. pc[t] \in IssuePc \union CancelPc
        BY <1>1, <1>5 DEF IssueStep, CancelStep, Answer, IssueGetOrder, IssueGetShipment, IssueOrder,
           IssueShipment, IssueExisting, IssueReserved, IssueInsert, CancelGetOrder, CancelGetShipment,
           CancelOrder, CancelShipment, CancelWrite, table, IssuePc, CancelPc, IssueInTx, CancelInTx
    <2>2. Written(t) = "nothing"
        BY <2>1, NothingWritten
    <2>3. /\ decision[t] \in {"none", "approved"} /\ req[t] = CallOf(state[t]) /\ req[t] \in Request
          /\ pc[t] # "idle"
        BY <1>1, <2>1, RequestType DEF Inv, SystemInv, SystemTypeOK, ThreadInv, AfterBegin, CaseInv,
           OutcomeInv, Asked, IssuePc, CancelPc, IssueInTx, CancelInTx
    <2>4. Stage(t) = IF decision[t] = "none" THEN "open" ELSE "approved"
        BY <1>1, <2>3 DEF Stage, GraphNode
    <2>5. ASSUME NEW r \in refunds', r.id = t, r.reason # "reversal",
                 NeedsApproval(r.reason = "damaged", r.amount)
          PROVE  decision[t] = "approved"
        <3>1. t # Seed
            BY SeedAssumption
        <3>2. /\ req[t].kind = "issue" /\ req[t].amount = r.amount
              /\ r.reason = "damaged" => req[t].damaged
              /\ NeedsApproval(req[t].damaged, req[t].amount) => req[t].approved
            BY <1>2, <2>3, <2>5, <3>1 DEF Inv, Sound, Request
        <3>3. NeedsApproval(req[t].damaged, req[t].amount)
            BY <2>5, <3>2 DEF NeedsApproval
        <3>4. state[t].approval = "approved"
            BY <2>3, <3>2, <3>3, IssueCall
        <3> QED
            BY <3>4 DEF CaseInv, OutcomeInv, Asked
    <2>6. Written(t)' \in {"nothing", "free", "guarded"} /\ (Written(t)' = "guarded" => decision[t] = "approved")
        BY <2>5 DEF Written
    <2> QED
        BY <1>3, <2>2, <2>3, <2>4, <2>6 DEF Moves
<1> QED
    BY <1>4, <1>5

LEMMA ExecuteMoves ==
    ASSUME Inv, SystemInv, NEW t \in Calls, ExecuteAction(t) \/ ServiceReturns(t)
    PROVE  Moves(t)
<1>1. /\ node[t] \in {"execute_action", "executing"} /\ SystemTypeOK
      /\ node[t] \in Moving /\ node[t] \in WorkingNode
    BY DEF ExecuteAction, ServiceReturns, At, SystemInv, Moving, WorkingNode, GraphNode
<1>2. ASSUME NEW o, Executed(t, o), UNCHANGED vars PROVE Moves(t)
    <2> DEFINE s == [state[t] EXCEPT !.executed = o]
    <2>1. Superstep(t, s, RouteAfterExecution(s))
        BY <1>2 DEF Executed
    <2> HIDE DEF s
    <2>2. RouteAfterExecution(s) \in Moving
        BY DEF RouteAfterExecution, Moving, GraphNode
    <2> QED
        BY <1>1, <1>2, <2>1, <2>2, SuperstepMoves
<1>3. ASSUME Within(t, "executing"), NEW q \in Requests, Begin(t, q) PROVE Moves(t)
    <2>1. UNCHANGED refunds
        BY <1>3, BeginShape DEF Inv, table
    <2> QED
        BY <1>1, <1>3, <2>1, WithinMoves DEF Moving, GraphNode
<1>4. CASE Raise(t) /\ UNCHANGED vars
    BY <1>1, <1>4, RaiseMoves DEF vars
<1> QED
    BY <1>2, <1>3, <1>4 DEF ExecuteAction, ServiceReturns

LEMMA AnswerMoves ==
    ASSUME SystemInv, NEW t \in Calls,
           SuccessResponse(t) \/ FailureResponse(t) \/ BuildWorkflowResponse(t)
    PROVE  Moves(t)
<1>1. SystemTypeOK /\ UNCHANGED vars
    BY DEF SystemInv, SuccessResponse, FailureResponse, BuildWorkflowResponse
<1>2. CASE SuccessResponse(t) \/ FailureResponse(t)
    <2>1. node[t] \in Moving
        BY <1>2 DEF SuccessResponse, FailureResponse, At, Moving, GraphNode
    <2>2. \E s : Superstep(t, s, "end")
        BY <1>2 DEF SuccessResponse, FailureResponse
    <2> QED
        BY <1>1, <2>1, <2>2, SuperstepMoves DEF Moving
<1>3. CASE BuildWorkflowResponse(t) /\ node[t] = "interrupted"
    <2>1. node'[t] = "waiting"
        BY <1>1, <1>3 DEF BuildWorkflowResponse, GoTo, SystemTypeOK
    <2>2. Stage(t) = "asking" /\ Stage(t)' = "asking"
        BY <1>3, <2>1 DEF Stage, GraphNode, ValidateNode
    <2> QED
        BY <1>1, <2>2 DEF Moves, Written, vars
<1>4. CASE BuildWorkflowResponse(t) /\ node[t] = "end"
    <2>1. node'[t] = "answered"
        BY <1>1, <1>4 DEF BuildWorkflowResponse, Reply, GoTo, SystemTypeOK
    <2> QED
        BY <1>1, <1>4, <2>1, EndMoves DEF WorkingNode, vars
<1> QED
    BY <1>2, <1>3, <1>4 DEF BuildWorkflowResponse

LEMMA FailureMoves ==
    ASSUME SystemInv, NEW t \in Calls, Fault(t) \/ OutOfSteps(t)
    PROVE  Moves(t)
<1>1. node[t] \in WorkingNode /\ SystemTypeOK /\ UNCHANGED refunds
    BY DEF Fault, OutOfSteps, Crash, vars, table, WorkingNode, SystemInv
<1>2. CASE Raise(t)
    BY <1>1, <1>2, RaiseMoves
<1>3. CASE GoTo(t, "dead")
    <2>1. node'[t] = "dead"
        BY <1>1, <1>3 DEF GoTo, SystemTypeOK
    <2> QED
        BY <1>1, <2>1, EndMoves
<1> QED
    BY <1>2, <1>3 DEF Fault, OutOfSteps

LEMMA ThreadMoves ==
    ASSUME Inv, Inv', SystemInv, CaseInv, NEW t \in Calls, WorkflowStep(t) \/ Fault(t)
    PROVE  Moves(t)
BY ReadingMoves, ApprovalMoves, ServiceMoves, ExecuteMoves, AnswerMoves, FailureMoves DEF WorkflowStep

\* A step of a thread adds no row but its own, and takes none away.
LEMMA OwnRows ==
    ASSUME Inv, NEW t \in Calls, WorkflowStep(t) \/ Fault(t)
    PROVE  refunds \subseteq refunds' /\ \A r \in refunds' \ refunds : r.id = t
<1>1. CASE ServiceStep(t)
    BY <1>1, CallShape DEF ServiceStep, Inv, Monotone, Only
<1>2. CASE ExecuteAction(t)
    <2>1. ASSUME NEW q \in Requests, Begin(t, q) PROVE refunds' = refunds
        BY <2>1, BeginShape DEF Inv, table
    <2> QED
        BY <1>2, <2>1 DEF ExecuteAction, vars
<1>3. CASE \/ UnderstandRequest(t) \/ Investigate(t) \/ ReadOnlyTools(t) \/ HumanApproval(t)
           \/ ValidateAction(t) \/ ValidateCalculate(t) \/ ValidateOrder(t) \/ ValidateShipment(t)
    BY <1>3 DEF UnderstandRequest, Investigate, ReadOnlyTools, HumanApproval,
       ValidateAction, ValidateCalculate, ValidateOrder, ValidateShipment, vars
<1>4. CASE \/ ServiceReturns(t) \/ SuccessResponse(t) \/ FailureResponse(t)
           \/ BuildWorkflowResponse(t) \/ OutOfSteps(t)
    BY <1>4 DEF ServiceReturns, SuccessResponse, FailureResponse, BuildWorkflowResponse, OutOfSteps, vars
<1>5. CASE Fault(t)
    BY <1>5 DEF Fault, Crash, table, vars
<1> QED
    BY <1>1, <1>2, <1>3, <1>4, <1>5 DEF WorkflowStep

LEMMA CaseStep ==
    Inv /\ Inv' /\ SystemInv /\ CaseInv /\ [SystemNext]_systemVars
        => [Case!Next]_(Case!progress)
<1> SUFFICES ASSUME Inv, Inv', SystemInv, CaseInv, [SystemNext]_systemVars
             PROVE  [Case!Next]_(Case!progress)
    OBVIOUS
<1>1. ASSUME NEW t \in Calls, Kept(t), Outcome(t), Moves(t),
             refunds \subseteq refunds', \A r \in refunds' \ refunds : r.id = t
      PROVE  [Case!Next]_(Case!progress)
    <2>1. ASSUME NEW u \in Calls \ {t} PROVE Stage(u)' = Stage(u) /\ Written(u)' = Written(u)
        <3>1. node'[u] = node[u] /\ decision'[u] = decision[u]
            BY <1>1 DEF Kept, Apart, Outcome, Aside
        <3> QED
            BY <1>1, <3>1, WrittenStays DEF Stage
    <2> QED
        BY <1>1, <2>1, MoveImplements
<1>2. CASE UNCHANGED <<graph, refunds>>
    BY <1>2 DEF Stage, Written, graph, Case!progress
<1>3. ASSUME NEW t \in Calls, NEW c \in Customers \union Strangers, PostRequest(t, c)
      PROVE  [Case!Next]_(Case!progress)
    <2>1. refunds' = refunds
        BY <1>3 DEF PostRequest, vars
    <2>2. Kept(t) /\ Outcome(t) /\ Moves(t)
        BY <1>3, PostKeeps, PostOutcome, PostMoves DEF CaseInv
    <2> QED
        BY <1>1, <2>1, <2>2
<1>4. ASSUME NEW t \in Calls, NEW word \in {"approved", "rejected"}, Resume(t, word)
      PROVE  [Case!Next]_(Case!progress)
    <2>1. refunds' = refunds
        BY <1>4 DEF Resume, vars
    <2>2. Kept(t) /\ Outcome(t) /\ Moves(t)
        BY <1>4, ResumeKeeps, ResumeOutcome, ResumeMoves DEF CaseInv
    <2> QED
        BY <1>1, <2>1, <2>2
<1>5. ASSUME NEW t \in Calls, WorkflowStep(t) \/ Fault(t)
      PROVE  [Case!Next]_(Case!progress)
    BY <1>1, <1>5, WorkflowKeeps, ThreadOutcome, ThreadMoves, OwnRows DEF CaseInv
<1>6. CASE World
    BY <1>2, <1>6 DEF World, AdvanceOrder, UpdateShipment
<1>7. CASE UNCHANGED systemVars
    BY <1>2, <1>7 DEF systemVars, vars
<1> QED
    BY <1>3, <1>4, <1>5, <1>6, <1>7 DEF SystemNext, Settled

LEMMA CaseStart == SystemInit => Case!Init
<1> SUFFICES ASSUME SystemInit PROVE Case!Init
    OBVIOUS
<1>1. ASSUME NEW t \in Calls PROVE Stage(t) = "new" /\ Written(t) = "nothing"
    <2>1. {r \in refunds : r.id = t} = {}
        BY SeedAssumption DEF SystemInit, Init, SeedRow
    <2> QED
        BY <2>1 DEF SystemInit, Stage, Written, GraphNode, ValidateNode
<1> QED
    BY <1>1 DEF Case!Init

\* Step by step, and with every interleaving, failure and decision, the
\* workflow is a case of SupportCase: one refund row at most, none while the
\* human is asked or after a rejection or an answer, none unguarded.
THEOREM CaseImplemented == SystemSpec => ImplementsCase
<1>1. SystemSpec => Case!Init
    BY CaseStart DEF SystemSpec
<1> QED
    BY <1>1, CaseSpecInv, CaseStep, PTL DEF SystemSpec, ImplementsCase, Case!Spec
=============================================================================
