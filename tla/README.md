# A verification project for order-resolver

`order-resolver` answers customer-support requests about orders.  A LangGraph
workflow lets language models understand a request, investigate it and propose
a refund or a cancellation; validates the proposal against the commerce
database; stops for a human when one is needed; and executes the proposal
through services that write the database.  This directory models that program
in TLA+, checks the models with TLC and proves theorems about them with TLAPS.

All paths below are relative to the repository; `…/` stands for
`src/order_resolver/`.

## 1. Inventory of the system

| Component | State it keeps | Operations | Talks to |
|---|---|---|---|
| **Commerce tables** (`…/db/models.py`, migrations) | `orders` (owner, status, total), `shipments` (status, at most one per order), `refunds` (amount, reason, status), CHECK constraints on amounts | written by the repositories; statuses also by payment, fulfilment and the carrier, none of which is in the repository | everything below |
| **Refund writes** (`…/services/refund_service.py`, `…/repositories/refund_repository.py`) | none of their own; locals between two statements | `calculate` (read), `issue` (write) | tables; called by two agent nodes |
| **Order cancellation** (`…/services/order_service.py`, `…/repositories/order_repository.py`) | as above | `get`, `get_items`, `get_shipment` (reads), `cancel` (write) | tables; called by two agent nodes and the tools |
| **Workflow graph** (`…/agent/graph.py`, `…/agent/nodes/edges.py`, `…/agent/state.py`) | per thread: the `SupportState`, the node to run next, saved by the Postgres checkpointer after each node | run a node, follow an edge, interrupt, resume, give up at the recursion limit | nodes |
| **Agent nodes** (`…/agent/nodes/*.py`) | none but the state they return | understand, investigate, validate, ask a human, execute, answer success or failure | models, services |
| **Read tools** (`…/agent/tools/*.py`) | none | reads on behalf of the investigating model | services |
| **Support API** (`…/api/routes/support.py`, `…/api/schemas.py`) | none | `POST /support/requests`; the status, approve and reject routes answer 501 | customers, graph |
| **Policy search** (`…/services/policy_service.py`, `…/repositories/policy_repository.py`) | none; reads `company_policies` | nearest policies to a query, at most 5, above a similarity | embedding model, tables; called by a tool |
| **Policy synchronisation** (`scripts/seed_policy_documents.py`) | `company_policies` (id, source, content, embedding, model; source unique) | read and plan, embed, write in one transaction, so that the table becomes the image of `docs/*.md` | embedding model, tables |
| **Demo data, embeddings script, customer reads, wiring, migrations** | none | one-shot or single reads | - |

How they interact: the route looks the customer up and invokes the graph on a
new thread id; the graph runs one node at a time per thread, but threads of
different requests interleave at every `await`, which means at every SQL
statement; the validating node and the executing node both go through the
services; the services read through sessions of their own and then call a
repository, which reads everything again in a write transaction.

What is hard, and where:

* **Reads and writes that are not atomic.**  The engine is created with
  PostgreSQL's default isolation, READ COMMITTED, and no SELECT takes a lock.
  Between any two statements of a call another call, payment, fulfilment or the
  carrier may commit.  The eligibility of a refund is read three times
  (validation, service, repository), its amount twice.
* **Long gaps.**  Between validation and execution a human may take days.
* **Crashes and retries.**  A call can die before or after its COMMIT without
  the caller knowing; the caller asks again.
* **Two copies of a rule.**  Eligibility and approval are written in the
  validating node, in the service and (eligibility) in the repository.
* **Partial failure after the write.**  The write commits in the executing
  node; the answer is composed by a model afterwards and may fail.
* **Fields that must be there.**  Most nodes, the edges and the route raise a
  `RuntimeError` when a node before them has not set a field.
* **A plan that is stale when it is carried out.**  A synchronisation decides
  from a read in one transaction, waits for a remote model, and writes in
  another.  Its UPDATE, INSERT and DELETE statements wait for rows other runs
  hold, deadlock, violate a constraint, or find nothing to change.
* **A loop with no bound of its own.**  The investigating model may use tools
  for ever; LangGraph's limit on the nodes of an invocation is what ends it.

What makes each component correct:

* *tables and writes*: no money is returned that was not paid, no refund twice,
  a payment is refunded or reversed but not both, a reversal goes with its
  cancellation, every row is authorised by its owner (and a human, where one is
  needed) and its reason was true, and what a caller was told is so;
* *graph and nodes*: nothing is executed that was not validated, and approved
  as shown; no field is missing; every invocation ends; a rejected, failed or
  waiting request has written nothing;
* *API*: the answer agrees with the tables;
* *policy synchronisation*: no text gets the vector of another; what a run
  reports is true as long as no run that disagrees has written; a second run
  does nothing; every run ends;
* *policy search*: the nearest relevant rows, none left out, of one moment; the
  documents themselves once a run has succeeded.

`PROJECT.json` lists the hazards line by line, with the properties that watch
each of them.

## 2. Modules

| Module | Models | Uses |
|---|---|---|
| `Commerce` | statuses and pure rules: eligibility, reason, approval, amounts, what is refundable | - |
| `RefundLedger` | abstract specification: the money of an order | - |
| `OrderStore` | `RefundService.issue` and `OrderService.cancel` down to the repositories, one SQL statement per step, any number of calls | `Commerce`, `RefundLedger` |
| `SupportCase` | abstract specification: a request, the human, and at most one refund row | - |
| `SupportGraph` | route, graph, nodes and edges on top of `OrderStore` | `OrderStore`, `SupportCase` |
| `OrderHistory` | `OrderStore` with what was on record when each write transaction began | `OrderStore` |
| `PolicySync` | `seed_policy_documents`, one statement per step, any number of overlapping runs | - |
| `PolicySearch` | `PolicyService.search` and its tool over the table the runs change | `PolicySync` |
| `MCOrderStore`, `MCOrderHistory`, `MCSupportGraph`, `MCPolicySearch` | the finite instances | the above |
| `OrderStoreProofs`, `OrderHistoryProofs`, `SupportGraphProofs`, `SupportCaseProofs`, `PolicySyncProofs`, `PolicySearchProofs`, `RefundSumProofs`, `WorkflowProofs` | theorems | the above |

### OrderStore

`orders`, `shipments`, `refunds` are the tables; `reserved[o]` is what the
repository's `SUM(amount)` query returns (`ReservedIsSum` checks that it is).
Each call `c` has a program counter `pc[c]`, the statement it is about to run;
`req[c]`, its arguments; `seen[c]` and `reason[c]`, the two local variables that
live from one statement to another.  There is one action per statement:

* `IssueBegin` (amount checks, `refund_service.py:47`), `IssueGetOrder`,
  `IssueGetShipment` (the service's reads, then eligibility and approval),
  `IssueOrder`, `IssueShipment`, `IssueExisting`, `IssueReserved`,
  `IssueInsert` (the repository's transaction);
* `CancelBegin`, `CancelGetOrder`, `CancelGetShipment`, then `CancelOrder`,
  `CancelShipment`, `CancelWrite`;
* `Answer`, `Crash`; and the world: `AdvanceOrder`, `UpdateShipment`.

A flush and the COMMIT that follows it are one step: what is flushed is
invisible until the COMMIT, nothing is read between them, and a row lock only
delays a second writer of the row to that same point.  An UPDATE by primary key
overwrites whatever the row says by then.  A reversal of an amount of 0 violates
`ck_refunds_amount_positive` and fails the transaction (`pc = "db_error"`).

`Spec` is the code as it is.  `SerialSpec` is the code when at most one call at a
time is inside the write transaction *of one order*, which nothing in the code
ensures; it separates what the code gets right by itself from what it would get
right with a lock on the order.

### SupportGraph

`node[t]` is the node thread `t` is at (the validating node has four steps, one
per read; the executing node is `execute_action` until the service is called and
`executing` while it works); `state[t]` is the `SupportState`; `steps[t]` counts
the nodes of the invocation; `decision[t]`, `answer[t]` and `shown[t]` are the
human's word, the caller's answer and the proposal the human was shown.
`Superstep` is the end of a node (its updates are saved and its edge taken),
`Within` a step inside one, `Raise` an exception that leaves the graph, which
the route turns into a 500.  One such exception the validating node itself lets
through: an order of somebody else, which `ForeignOrderEndsRequest` is about.
Models are nondeterministic: `Understandings` and `Proposals` hold whatever they
can answer.  The call of a service *is* a call of
`OrderStore`, with the thread as its identity: `ServiceStep` takes its next
statement.

`human_approval` runs twice, as LangGraph runs an interrupted node again from
its start: once with no decision, which interrupts, and once after `Resume`.
`Fault` is the failure of a model, the database or the process, at any node: the
caller gets a 500 or nothing, and a call in flight is rolled back.

A field of the state that is not set is `"missing"`.  The `RuntimeError`s for
missing fields are not branches of the model: `NothingMissing` says, and is
proved, that none of them is ever raised (but the route's for a missing final
response, which a blank text raises too).

### OrderHistory

A client that got no answer, or a 500 after the write, asks again.  The second
call is a call like any other, so what must be said is about *when* it writes:
the auxiliary variable `earlier[c]` is the set of refunds on record when the
write transaction of call `c` ran its first statement, and constrains nothing.
What the service has read before, in sessions of its own, may be older.
`SettledRefundIsFound` and `SettledReversalIsFinal` say that no row repeats one
of those.  They hold under `Spec`, with other calls overlapping: the duplicates
of section 5 need two transactions that overlap *each other*, or a reason that
has changed.  `SettledRefundsLeaveRoom` says the same of money: a refund or a
reversal, added to all that was on record when its transaction began, stays
within the total of the order, so that what is returned too much is always the
work of transactions that overlap.

### PolicySync

A run `r` has its `pc[r]`; `documents[r]` and `model[r]`, what it was started
on; `existing[r]`, what it has read; `embeddings[r]`, its vectors in order; and
`done[r]` and `pending[r]`, the statements of its transaction so far and the
rows they wrote.  `Begin` loads (an empty directory, a blank document or model
ends the run), `Read` is the SELECT and the plan (`ToEmbed`, `ToNormalize`,
`Stale`), `Embed` the remote call, which may return too few or too many
vectors (`Answers`), `WriteEmbedded`
one UPDATE or INSERT, `Normalize` one UPDATE of an id, `DeleteBegin` and
`DeleteRow` the one DELETE, `Commit` the end.

The transaction is taken apart because statements wait.  A row that a run has
written is held until its transaction ends (`Taken`): an UPDATE or a DELETE
waits for it, and so does an INSERT of the same source, which violates the
unique constraint if the row is then there.  An UPDATE that finds no row changes
nothing and says nothing.  The DELETE sees the rows committed when it begins and
takes them in any order; those another run has deleted in the meantime it passes
over.  `Deadlocked(D)` is a set of runs that each wait for rows held in the set;
PostgreSQL fails one (`BreakDeadlock`).  `Fault` fails a run anywhere.

`SyncSpec` is the script as it is.  `SerialSyncSpec` is the script when no run
begins before another has ended, which nothing in it ensures; it separates what
overlap breaks from what a single run gets right.

A text is one of `Contents`, told from others by equality only; an embedding is
the text and the model it was made of.  A source is the rank of its file name.
Two checks stand between vectors and texts: `Embed` counts the vectors, and the
strict `zip` raises where one list ends before the other (`Unequal`).  The second
never finds anything, since the first has counted (`NewRowIsImage`).

### PolicySearch

`SearchBegin` refuses a blank query, `SearchEmbed` is the await on the model,
`SearchSelect` the one SELECT, `SearchFails` any other exception; each ends in
`Return`, `call_service`'s result for the agent.  `Similarity[text][query]` is a
constant, any integer; `Select` is `WHERE`, `ORDER BY distance, source` and
`LIMIT`, a row's place being the number of rows not after it.  `MaxLimit` is the
code's 5, smaller in the instance so that it bites.  The process embeds with
`SearchModel` only, the runs with any.

### What stands for code outside the repository

PostgreSQL's row locks and deadlock detection (`Holds`, `Taken`, `Needs`,
`Deadlocked`, `BreakDeadlock`), `Crash`, `Fault`, `OutOfSteps` (LangGraph's `recursion_limit`, which the code
leaves at its default), `Resume` (no route resumes a thread yet), and the four
definitions of payment, fulfilment and carrier.  Those move a status forward
only, one step at a time; a parcel reported lost may still be delivered.

### Simplifications, named

* An amount is an integer; a cent is `Cent` units, so that amounts with more
  than two decimals exist.  An amount of `None` in a proposal is 0: both are
  refused by the same test.
* Of the intents only `damaged_item` is told from the others, as in the code.
* The two reads of `RefundService.calculate` are one: the first reads only the
  owner and the total of the order, which nothing changes.
* Tool calls and their messages leave no trace but the node they cost; a tool
  turns every error of a service into a message.
* A resume whose value is no boolean `approved` raises and leaves the thread
  waiting, so it is left out.  So is the invocation of a thread that crashed
  between two nodes: no code of the repository makes one.
* Request validation by pydantic, texts and logging are left out; of a model's
  final text only whether it is blank is kept, since the route turns a blank
  one into a 500.

## 3. Runs

Passing runs:

| Run | Instance | Shows |
|---|---|---|
| `store_concurrent` | 2 calls, 2 customers, 1 order of total 0 or 8, 10 requests (foreign customers, amounts 0, 3 = no whole cents, 4 = the threshold and 8, damage claimed or not, approved or not), perhaps an earlier refund, every initial status | types (`TypeOK`); `ReservedIsSum`; `AnswersAreTrue`; `ReversalWithCancellation`; `RefundHasEvidence`; `RefundWasAuthorised`; `SettledRefundIsFound`; `SettledReversalIsFinal`; `SettledRefundsLeaveRoom` |
| `store_serial` | `SerialSpec`, 3 calls, 4 requests of one owner that can all meet in one order of total 8 | `NoOverRefund`; `NoDuplicateRefund`; `NoRefundAndReversal`; `ImplementsLedger` (refinement of `RefundLedger`) |
| `graph_one` | 1 request, 2 customers and a stranger, every understanding, every kind of proposal, 8 nodes per invocation, moving world and faults | `SystemTypeOK`; `NothingMissing`; `OnlyValidatedCalls`; `ApprovedAsShown`; `ForeignOrderEndsRequest`; `EveryStepIsCounted` (what a step may do); `EveryInvocationEnds` (liveness) |
| `policy_runs` | 2 runs of 2 checkouts that add, change and drop a document of each other (and of an empty directory and a blank document), 2 models, 3 sources, an empty table or one with old ids, 1 search at a time with every kind of request, limit 2 | `PolicyTypeOK`; `RowsAreCoherent`; `SuccessIsMirrored`; `LaterRunsSkip`; `EveryRunEnds` (liveness); `SearchTypeOK`; `SearchReturnsTheBest`; `AgentReadsTheDocuments` |
| `graph_pair` | 2 requests of one owner on one order of total 8, every proposal that writes, interleaved statement by statement | `AnswerIsTrue`; `ImplementsCase` (refinement of `SupportCase`) |

Runs that TLC must refute, each a sentence of the repository that the program
does not keep (section 5): `over_refund`, `double_reversal`,
`zero_total_cancel`, `cancel_after_shipment`, `unreversed_payment`,
`retry_after_found`, `policy_overlap`.

**Bounds.**  The hazards of the store need two calls that meet in one order (a
third matters only for what a second one left behind, and is there in
`store_serial`); calls on different orders share no row, and the proofs cover
any number of both.  Amounts 4 and 8 with a threshold of 4 and a total of 8 hit
each comparison from both sides and make "twice the half", "the whole" and "the
whole after a half" possible.  A request runs at least 5 nodes to its answer, so a
limit of 8 lets `graph_one` use tools once and finish, or use them until the
limit; the limit of 5 in `graph_pair` lets each request write and be answered.
Because a resume starts a new count, an approved request also finishes.
In `policy_runs` two runs reach deadlocks, unique violations and updates of rows
that are gone, three sources give a list of two texts of which one may be left
out, or a third vector added, and rows to write, to rename and to delete in one transaction, and a
third run would be one more of the same: the theorems cover any number.  Each
run is made at most once; a repeat is another run.
Threads and calls are interchangeable where a `SYMMETRY` is declared (no
liveness property is checked in those runs).  Deadlock is checked everywhere:
`AllAnswered` and `Settled` are the only states in which nothing happens.

**Fairness.**  `FairSystemSpec` gives weak fairness to `WorkflowStep(t)`, one
thread at a time: the event loop runs every task that is ready, and every await
of the code ends, by a result, an error or a fault.  Customers, humans, carriers and
payment owe nothing, so a thread that waits for a human may wait for ever, and
`EveryInvocationEnds` counts it as ended.  It would fail without the limit on
the nodes of an invocation (the mutant `Superstep_Uncounted`).

`SyncFairness` gives weak fairness to each run's next statement, and to the
detection of deadlocks, which PostgreSQL repeats as long as someone waits.
Nothing is fair about faults, searches or the start of a run.  `EveryRunEnds`
fails if a run that has failed keeps its rows (the mutant `Fail_KeepsRows`).

**Mutants.**  Each property of a passing run has a slip `X_Slip` beside the
definition `X` it replaces: a dropped guard, a forgotten approval, a status
missing from a set.  TLC refutes the property under each of them.

## 4. Proofs

For every value of the constants that satisfies the named assumptions
(`MoneyAssumption`, `RequestsAssumption`, `TotalsAssumption`, `SeedAssumption`,
`GraphAssumption`, `CallsAssumption`; TLC evaluates them in every run):

* **`Spec`** (`OrderStoreProofs`): `TypeCorrect`, `AnswersHold`,
  `ReversalHolds`, `EvidenceHolds`, `AuthorisationHolds`.  The invariant is
  `Inv`.  The properties speak of rows and outcomes and are not inductive: a row
  is sound because of what its call had established statements earlier.
  `Established(c)` says what that is at each `pc[c]` (whose order it is, that an
  approval was given if one is needed, that the derived reason has its
  evidence), and it survives the other calls because of `Monotone`: owners,
  totals and rows stay, cancellations stay, and evidence is never taken back.
* **`SerialSpec`**: `OverRefundImpossible`, `DuplicateImpossible`,
  `RefundExcludesReversal`, and `LedgerImplemented`, the refinement of
  `RefundLedger`.  `SerialInv` adds what a transaction has read to what it has
  established (nothing matching on record, the amount within what is left, the
  order not cancelled and without refunds); that stays true because no other
  call writes the order meanwhile, and because payment, fulfilment and the
  carrier write no refund (`Quiet`).
* **`SystemSpec`** (`SupportGraphProofs`): `StoreImplemented`, that the workflow
  is a behaviour of `OrderStore`, whatever models, humans and faults do; it
  carries every theorem about `Spec` over, as `AuthorisationUnderWorkflow` and
  `EvidenceUnderWorkflow` show.  `SystemTypeCorrect`, `NothingIsMissing` and
  `CallsAreValidated` come from `SystemInv`, which says what a thread has behind
  it at each node: `BeforeVerdict` (intent, action, order as the reads go on),
  `AfterVerdict` (what the verdict lets pass, `Passed`, and what may be
  executed, `Cleared`), `AfterBegin` (a call, once made, is the call of this
  state and stays cleared to the end).  Each action has a lemma `…Keeps`; the
  other threads keep their part because an order never changes its owner.
* **`SystemSpec`, towards the outside** (`SupportCaseProofs`):
  `ApprovalIsInformed`, `CustomersAreToldTheTruth`, and `CaseImplemented`, the
  refinement of `SupportCase`.  `CaseInv` adds to `SystemInv` how verdicts and
  answers follow from the service call (`Resolved`, `Answered`: "succeeded" only
  after a call that returned ok, "failed" only without a call or after one that
  was refused) and what became of the human's word (`Asked`: what is approved is
  still what was shown, and a rejected thread never reaches the executing node).
  A row then leads back through `Sound` to the call's arguments, from there
  through `AfterBegin` to the thread's state, and through `Asked` to the human.
  `Moves` lists the steps of `SupportCase` a thread can make.
* **`HistorySpec`** (`OrderHistoryProofs`): `RetryFindsRefund` and
  `RetryReversesNothing`.  The invariant follows what was on record when a
  transaction began through its statements: rows stay, so the SELECT of the existing refund
  sees it, and a later insert of the same call has another amount or reason.
* **Sums of rows** (`RefundSumProofs`): `ReservedIsTheSum`, that the running total
  the model keeps is the SUM the repository queries, for any finite set of rows;
  with it `SumWithinTotal` under `SerialSpec`; and `SettledRefundsLeaveTheirRoom`
  under `HistorySpec`.  A sum is a fold over a set.  That it grows by the amount
  of a row that is added, whichever row the fold takes first, is not proved by an induction
  theorem, whose parameter is an operator, but by a smallest counterexample: of
  the subsets that break the claim one has no smaller one that does
  (`MinimalSubset`).  `SumInv` adds to `Inv` that an order's reserved rows are
  finitely many and that the total is their sum; `RoomInv` follows
  an issue from its SUM query, whose answer has the rows on record when the
  transaction began, to its INSERT, and a cancellation from its two reads to its reversal:
  such rows exist only with evidence (a parcel lost or delivered, an order
  delivered) that one of the two reads refuses.
* **Requests** (`WorkflowProofs`): what holds of the tables, said of the workflow.
  `WorkflowKeepsLedger`: requests whose write transactions exclude each other
  implement the ledger, whatever is proposed and approved.  `AskingAgainIsSafe`:
  the three promises of `OrderHistory` to a customer who asks again once the
  first transaction has ended.
  `ForeignOrdersEndRequests`: the invariant `Barred` keeps such a request in the
  validating node or at its end.  `StepsAreCounted`: every step of a working
  thread lowers `StepsLeft`, and nobody else's step changes it.  That is the
  safety half of `EveryInvocationEnds`: an invocation has at most
  11 + 10 * `RecursionLimit` steps, for every limit, also when models ask for
  tools for ever.
* **`SyncSpec`** (`PolicySyncProofs`): `SyncTypeCorrect`, `CoherentTable`,
  `MirroredAfterSuccess`, `RepeatsAreSkipped`.  `SoundInv` ties a run's vectors
  to its list by position (`AtPlace`: the list of sources and the list of texts
  are the same list) and what it holds to statements it has executed.
  `MirrorInv` adds what a plan believes of the table, for every source about
  which no committed run disagrees: what is left alone is right as it is, what
  is to be renamed lacks only its id, what is to be updated is there.  The
  point is that a commit of *another* run keeps that belief: it leaves the very
  row the plan would (`CommitLeavesImage`).
* **Runs left alone** (`PolicySyncProofs`): `CommitReplacesTable`, under
  `UndisturbedSpec(r)`, in which no other run commits between the SELECT and the
  COMMIT of run `r`, whatever overlapped before.  The plan of such a run fits the
  table for *every* source, opposed or not, from the SELECT to the COMMIT
  (`Fits`, `FitsNext`); the statements are the same lemmas (`ReadFits`,
  `WroteFits`, `DeleteBeginFits`, `CommitFits`).  `MirroredWithoutOverlap`, under
  `SerialSyncSpec`, is the promise that `policy_overlap` refutes.
* **`PolicySearch`'s `Spec`** (`PolicySearchProofs`): `SearchesOnlyRead`
  (it implements `SyncSpec`), hence `MirroredUnderSearches`; `SearchTypeCorrect`,
  that an answer holds no more documents than the limit allows;
  `BestIsReturned`, from the fact that ranks number the rows from 1 to their
  number (`RankedType`), for every similarity, limit and threshold;
  `DocumentsAreRead`, which puts the two together.  Assumptions:
  `SourcesAssumption`, `NamesAssumption`, `CheckoutsAssumption`,
  `TablesAssumption` (what earlier runs left is coherent), `SearchAssumption`.

**Only model-checked.**  `EveryInvocationEnds` and `EveryRunEnds`: liveness under
fairness is out of the prover's reach.  Every other property of a passing run
is stated by a theorem.

## 5. What the program does not do as documented

| Run | The document | What happens |
|---|---|---|
| `over_refund` | "A refund must not exceed the remaining refundable amount for the order." (`docs/refund-policy.md:46`) | two overlapping requests for the same refund find no earlier one and read the same sum, and both are inserted |
| `double_reversal` | "Repeated or retried cancellation requests must not create duplicate payment reversals or refunds." (`docs/cancellation-policy.md:40`) | two overlapping cancellations both read a paid order |
| `zero_total_cancel` | "A `paid` order that has not shipped may be cancelled." (`docs/cancellation-policy.md:45`) | with a total of 0 the reversal violates a CHECK constraint |
| `cancel_after_shipment` | "Cancel an owned order only while fulfilment has not started." (`…/services/order_service.py:50`) | the shipment starts between its SELECT and the UPDATE |
| `unreversed_payment` | "If payment has already been captured, any required refund or payment reversal is handled as part of the cancellation operation." (`docs/cancellation-policy.md:32`) | the payment, of more than zero, is captured between the SELECT of the order and its UPDATE |
| `retry_after_found` | "Repeated or retried refund requests must not create duplicate refunds." (`docs/refund-policy.md:54`) | the lookup goes by a derived reason, which changes when a lost parcel turns up; overlap is not needed (`SerialSpec`) |
| `policy_overlap` | "source Markdown documents mirrored into `company_policies` by the seed script" (`README.md:61`) | two overlapping runs of different checkouts both report completion; one has updated a row the other had deleted, which changes nothing, and the table mirrors neither |

The counterexample of `over_refund` refunds the same amount for the same reason
twice, so `NoDuplicateRefund` fails with it.  A refund and a cancellation that
overlap return the payment twice by the same cause: the cancellation has passed
its read of the shipment when the parcel is delivered, the refund passes its
SUM before the reversal is there.  `NoRefundAndReversal` then fails too; it has
no run of its own.  None of these occurs under `SerialSpec`, nor does
`double_reversal`; `zero_total_cancel`, `cancel_after_shipment`,
`unreversed_payment` and `retry_after_found` need no two calls that overlap.
`policy_overlap` does need the overlap (`MirroredWithoutOverlap`), and a run
repeated after it, beside which no other commits, puts the table right when it
commits (`CommitReplacesTable`).

Not refuted, but a reader should know: after the write, an empty text from the
answering model, a failed model call or the limit on nodes gives the customer a
500 although the refund is on record (`AnswerIsTrue` promises nothing after a
500); an order of somebody else ends in a 500, not in the failure response
(`validate_action` does not catch the exception; `ForeignOrderEndsRequest`); and `README.md:63` still says
that the support endpoints answer 501, which is true of three of the four.

## 6. Not modelled, and why

* *Demo data and the embeddings script*: the former writes once, into an empty
  database, in one transaction (`OrderStore` starts from any rows that payment,
  fulfilment and earlier requests can leave, and takes from it only the shape of
  an earlier refund); the latter prints a vector and keeps nothing.
* *Customer service and repository, order items*: single reads, of which only
  the customer lookup decides anything; it is `PostRequest`'s.
* *Application wiring, configuration, session factories, health and stub
  routes*: construction and library calls, no behaviour.
* *Migrations*: run before the program; their constraints are modelled.
* *LangGraph and PostgreSQL*: only as far as the code relies on them, as above.

## 7. Plan

Done: (1) `Commerce`, `OrderStore`, `RefundLedger` and their proofs; (2)
`SupportGraph`, `SupportCase`, their runs, and the first theorems.

(3) `OrderHistory`, `PolicySync`, `PolicySearch` and their proofs.

(4) `SupportCaseProofs`: what customers and humans are told, and the refinement
of `SupportCase`.

(5) `RefundSumProofs`, `WorkflowProofs`, and runs of the synchronisation that do
not overlap: the sums behind the totals, the store's guarantees as promises to
customers, the bound on an invocation, and the cause of `policy_overlap`.

Left: when the approve and reject routes stop answering 501, their handlers take
the place of `Resume`; when an order or a refund is locked for the write
transaction, `SerialSpec` becomes `Spec` and the violations of section 5 that
need overlap go.
