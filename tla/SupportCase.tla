---------------------------- MODULE SupportCase -----------------------------
(***************************************************************************)
(* What the support workflow promises about the refunds of its requests,   *)
(* without its graph, its models or its database: a case is opened, may    *)
(* stop to ask a human, and writes at most one refund row, which a rule    *)
(* may put under guard of the human.  SupportGraph implements it.          *)
(***************************************************************************)
CONSTANT Cases

VARIABLES
    stage,  \* stage[c]: "new", "open", "asking", the human's word ("approved", "rejected"), "closed"
    wrote   \* wrote[c]: the refund row written for c: "nothing", "free", "guarded"

progress == <<stage, wrote>>

Init ==
    /\ stage = [c \in Cases |-> "new"]
    /\ wrote = [c \in Cases |-> "nothing"]

Enter(c, s) == stage' = [stage EXCEPT ![c] = s] /\ UNCHANGED wrote

\* A request for an unknown customer is closed as it comes in.
Open(c) == stage[c] = "new" /\ \E s \in {"open", "closed"} : Enter(c, s)

\* The human is asked before anything is written.
Ask(c) == stage[c] = "open" /\ wrote[c] = "nothing" /\ Enter(c, "asking")

Decide(c) == stage[c] = "asking" /\ \E s \in {"approved", "rejected"} : Enter(c, s)

Refund(c) ==
    /\ wrote[c] = "nothing"
    /\ \/ stage[c] = "open" /\ wrote' = [wrote EXCEPT ![c] = "free"]
       \/ stage[c] = "approved" /\ \E w \in {"free", "guarded"} : wrote' = [wrote EXCEPT ![c] = w]
    /\ UNCHANGED stage

\* Answered, failed or dead: whatever happens, nothing is written any more.
Close(c) == stage[c] \notin {"new", "closed"} /\ Enter(c, "closed")

Next == \E c \in Cases : Open(c) \/ Ask(c) \/ Decide(c) \/ Refund(c) \/ Close(c)

Spec == Init /\ [][Next]_progress
=============================================================================
