----------------------------- MODULE PolicySync -----------------------------
(***************************************************************************)
(* Runs of scripts/seed_policy_documents.py, which make company_policies   *)
(* the image of the Markdown documents of a checkout.  A run reads the     *)
(* table in one transaction, has what changed embedded by a remote model,  *)
(* and writes in a second transaction what it planned from that read.      *)
(* Runs of several checkouts and models may overlap, one SQL statement per *)
(* step, under READ COMMITTED.                                             *)
(*                                                                         *)
(* A statement that writes holds its row until the transaction ends:       *)
(* pending[r] is what run r holds.  An UPDATE or DELETE of a held row      *)
(* waits; one that finds no committed row does nothing; an INSERT of a     *)
(* held source waits, and of a committed one violates the unique           *)
(* constraint.  PostgreSQL ends a deadlock by failing one of its runs.     *)
(*                                                                         *)
(* A source is the rank of its file name, which orders the statements.     *)
(* Of two documents only equality is told; an embedding is the text and    *)
(* the model that it was made of.                                          *)
(***************************************************************************)
EXTENDS Integers, FiniteSets, Sequences

CONSTANTS
    Runs,           \* executions of the script, each at most once
    Sources,        \* ranks of the file names
    Contents,       \* texts of documents
    Blank,          \* the text of a document that is empty once stripped
    Models,         \* names of embedding models
    NoModel,        \* an EMBEDDING_MODEL that is blank
    Absent,         \* no document, no row
    Unchanged,      \* a row that a transaction has not written
    Checkouts,      \* what the documents directory may hold
    InitialTables   \* what earlier runs may have left behind

Embedding(text, m) == [text |-> text, model |-> m]

\* A row; its id is the one policy_document_id derives from the source, or one
\* that the column's default has drawn.
Policy == [id : {"stable", "random"}, content : Contents,
           embedding : [text : Contents, model : Models], embedding_model : Models]

\* What the synchronisation selects of a row.
KnownPolicy == [id : {"stable", "random"}, content : Contents, embedding_model : Models]

Coherent(p) == p.embedding = Embedding(p.content, p.embedding_model)

ASSUME SourcesAssumption == Sources \subseteq Nat /\ IsFiniteSet(Sources)
ASSUME NamesAssumption ==
    /\ Blank \notin Contents /\ NoModel \notin Models
    /\ Absent \notin Contents \union {Blank} /\ Absent # Unchanged
    /\ Absent \notin Policy \union KnownPolicy /\ Unchanged \notin Policy
ASSUME CheckoutsAssumption ==
    Checkouts \subseteq [Sources -> Contents \union {Blank, Absent}]
ASSUME TablesAssumption ==
    /\ InitialTables # {}
    /\ InitialTables \subseteq [Sources -> Policy \union {Absent}]
    /\ \A t \in InitialTables : \A s \in Sources : t[s] # Absent => Coherent(t[s])

VARIABLES
    policies,    \* policies[s]: the committed row of source s, or Absent
    pc,          \* pc[r]: where run r is, or how it ended
    documents,   \* documents[r][s]: what run r loaded, or Absent
    model,       \* model[r]: the model run r embeds with
    existing,    \* existing[r][s]: the id, content and model run r has read
    embeddings,  \* embeddings[r]: the vectors run r got, in order
    done,        \* done[r]: the sources whose statement run r has executed
    pending      \* pending[r][s]: what run r has written and not committed

locals == <<existing, embeddings, done, pending>>
syncVars == <<policies, pc, documents, model, locals>>

InTransaction == {"write", "delete"}
AtWork == {"read", "embed"} \union InTransaction
Ended == {"skipped", "complete", "failed"}

-----------------------------------------------------------------------------
(***************************************************************************)
(* The plan of a run: what it will do, from what it has read.              *)
(***************************************************************************)
Known(p) == [id |-> p.id, content |-> p.content, embedding_model |-> p.embedding_model]

Loaded(docs) == {s \in Sources : docs[s] # Absent}

ToEmbed_ByContent(docs, m, rows) ==
    {s \in Loaded(docs) : rows[s] = Absent \/ rows[s].content # docs[s]}

ToEmbed(docs, m, rows) ==
    {s \in Loaded(docs) :
        \/ rows[s] = Absent
        \/ rows[s].content # docs[s]
        \/ rows[s].embedding_model # m}

ToNormalize(docs, m, rows) ==
    {s \in Loaded(docs) \ ToEmbed(docs, m, rows) : rows[s].id # "stable"}

Stale_Swapped(docs, rows) == Loaded(docs) \ {s \in Sources : rows[s] # Absent}

Stale(docs, rows) == {s \in Sources : rows[s] # Absent} \ Loaded(docs)

Embeds(r) == ToEmbed(documents[r], model[r], existing[r])
Normalizes(r) == ToNormalize(documents[r], model[r], existing[r])
Removes(r) == Stale(documents[r], existing[r])

\* The place of s in the list of the sources S, which is sorted by name, and
\* the source at a place.
Place(S, s) == Cardinality({t \in S : t <= s})
At(S, i) == CHOOSE s \in S : Place(S, s) = i

First(S, s) == s \in S /\ \A t \in S : s <= t

-----------------------------------------------------------------------------
SyncInit ==
    /\ policies \in InitialTables
    /\ pc = [r \in Runs |-> "idle"]
    /\ documents = [r \in Runs |-> [s \in Sources |-> Absent]]
    /\ model = [r \in Runs |-> NoModel]
    /\ existing = [r \in Runs |-> [s \in Sources |-> Absent]]
    /\ embeddings = [r \in Runs |-> <<>>]
    /\ done = [r \in Runs |-> {}]
    /\ pending = [r \in Runs |-> [s \in Sources |-> Unchanged]]

Become(r, l) == pc' = [pc EXCEPT ![r] = l]

\* What ends a run drops its locals and gives its rows free.
Forget(r) ==
    /\ existing' = [existing EXCEPT ![r] = [s \in Sources |-> Absent]]
    /\ embeddings' = [embeddings EXCEPT ![r] = <<>>]
    /\ pending' = [pending EXCEPT ![r] = [s \in Sources |-> Unchanged]]

Fail_KeepsRows(r) ==
    /\ Become(r, "failed")
    /\ done' = [done EXCEPT ![r] = {}]
    /\ UNCHANGED <<policies, documents, model, existing, embeddings, pending>>

Fail(r) ==
    /\ Become(r, "failed")
    /\ Forget(r)
    /\ done' = [done EXCEPT ![r] = {}]
    /\ UNCHANGED <<policies, documents, model>>

Begin_AnyText(r, m, docs) ==
    /\ pc[r] = "idle"
    /\ IF m # NoModel /\ Loaded(docs) # {}
       THEN /\ Become(r, "read")
            /\ documents' = [documents EXCEPT ![r] = docs]
            /\ model' = [model EXCEPT ![r] = m]
       ELSE Become(r, "failed") /\ UNCHANGED <<documents, model>>
    /\ UNCHANGED <<policies, locals>>

\* A model must be named, and there must be documents, none of them blank.
Begin(r, m, docs) ==
    /\ pc[r] = "idle"
    /\ IF m # NoModel /\ Loaded(docs) # {} /\ \A s \in Sources : docs[s] # Blank
       THEN /\ Become(r, "read")
            /\ documents' = [documents EXCEPT ![r] = docs]
            /\ model' = [model EXCEPT ![r] = m]
       ELSE Become(r, "failed") /\ UNCHANGED <<documents, model>>
    /\ UNCHANGED <<policies, locals>>

\* One SELECT of all rows, and the plan; nothing to do ends the run.
Read(r) ==
    LET rows == [s \in Sources |-> IF policies[s] = Absent THEN Absent ELSE Known(policies[s])]
        embed == ToEmbed(documents[r], model[r], rows)
    IN  /\ pc[r] = "read"
        /\ IF embed = {} /\ ToNormalize(documents[r], model[r], rows) = {}
                         /\ Stale(documents[r], rows) = {}
           THEN Become(r, "skipped") /\ UNCHANGED existing
           ELSE /\ Become(r, IF embed = {} THEN "write" ELSE "embed")
                /\ existing' = [existing EXCEPT ![r] = rows]
        /\ UNCHANGED <<policies, documents, model, embeddings, done, pending>>

\* The vectors of the texts of the sources S, in their order.
Vectors(r, S) ==
    [i \in 1..Cardinality(S) |-> Embedding(documents[r][At(S, i)], model[r])]

\* What the remote model may answer: the vectors of the texts it was sent, of
\* some of them, or one vector too many.
Answers(r) ==
    {Vectors(r, S) : S \in SUBSET Embeds(r)}
        \union {Append(Vectors(r, Embeds(r)), Vectors(r, Embeds(r))[1])}

\* Another number of vectors than of texts fails the run before it has written.
Embed(r) ==
    /\ pc[r] = "embed"
    /\ \E answer \in Answers(r) :
          IF Len(answer) = Cardinality(Embeds(r))
          THEN /\ embeddings' = [embeddings EXCEPT ![r] = answer]
               /\ Become(r, "write")
               /\ UNCHANGED <<policies, documents, model, existing, done, pending>>
          ELSE Fail(r)

-----------------------------------------------------------------------------
(***************************************************************************)
(* The write transaction.                                                  *)
(***************************************************************************)
Holds(q, s) == pending[q][s] # Unchanged

Taken(r, s) == \E q \in Runs \ {r} : Holds(q, s)

\* Run r executes its statement on source s and holds what it wrote.
Wrote(r, s, p) ==
    /\ pending' = [pending EXCEPT ![r][s] = p]
    /\ done' = [done EXCEPT ![r] = @ \union {s}]
    /\ UNCHANGED <<policies, pc, documents, model, existing, embeddings>>

\* zip pairs the sources with the vectors, place by place, ...
Zipped(r) == {s \in Embeds(r) : Place(Embeds(r), s) \in DOMAIN embeddings[r]}

\* ... and being strict raises where one list ends before the other.
Unequal(r) == Len(embeddings[r]) # Cardinality(Embeds(r))

\* The loop over the pairs has run to its end.
Embedded(r) == Zipped(r) \subseteq done[r] /\ ~Unequal(r)

NewRow_OtherId(r, s) ==
    [id |-> "random", content |-> documents[r][s],
     embedding |-> embeddings[r][Place(Embeds(r), s)], embedding_model |-> model[r]]

NewRow(r, s) ==
    [id |-> "stable", content |-> documents[r][s],
     embedding |-> embeddings[r][Place(Embeds(r), s)], embedding_model |-> model[r]]

\* UPDATE of what was there when the run read, INSERT of the rest.
WriteEmbedded(r) ==
    /\ pc[r] = "write"
    /\ IF Zipped(r) \subseteq done[r]
       THEN Unequal(r) /\ Fail(r)
       ELSE \E s \in Sources :
              /\ First(Zipped(r) \ done[r], s)
              /\ IF existing[r][s] # Absent
                 THEN IF policies[s] = Absent
                      THEN Wrote(r, s, Unchanged)
                      ELSE ~Taken(r, s) /\ Wrote(r, s, NewRow(r, s))
                 ELSE /\ ~Taken(r, s)
                      /\ IF policies[s] = Absent THEN Wrote(r, s, NewRow(r, s)) ELSE Fail(r)

\* With the values that the loop before it writes, but for the vector.
Normalize_MoreThanId(r) ==
    /\ pc[r] = "write" /\ Embedded(r)
    /\ \E s \in Sources :
          /\ First(Normalizes(r) \ done[r], s)
          /\ IF policies[s] = Absent
             THEN Wrote(r, s, Unchanged)
             ELSE ~Taken(r, s) /\ Wrote(r, s,
                    [policies[s] EXCEPT !.id = "stable", !.content = documents[r][s],
                                        !.embedding_model = model[r]])

\* An UPDATE of the id alone, of whatever the row is by now.
Normalize(r) ==
    /\ pc[r] = "write" /\ Embedded(r)
    /\ \E s \in Sources :
          /\ First(Normalizes(r) \ done[r], s)
          /\ IF policies[s] = Absent
             THEN Wrote(r, s, Unchanged)
             ELSE ~Taken(r, s) /\ Wrote(r, s, [policies[s] EXCEPT !.id = "stable"])

Written(r) == pc[r] = "write" /\ Embedded(r) /\ Normalizes(r) \subseteq done[r]

\* The DELETE sees the rows that are committed when it begins ...
DeleteBegin(r) ==
    /\ Written(r) /\ Removes(r) # {}
    /\ Become(r, "delete")
    /\ done' = [done EXCEPT ![r] = @ \union {s \in Removes(r) : policies[s] = Absent}]
    /\ UNCHANGED <<policies, documents, model, existing, embeddings, pending>>

\* ... and takes them one by one, in any order.
DeleteRow(r) ==
    /\ pc[r] = "delete"
    /\ \E s \in Removes(r) \ done[r] : ~Taken(r, s) /\ Wrote(r, s, Absent)

\* COMMIT; a DELETE of another run passes over the rows that are gone by then.
Commit(r) ==
    /\ \/ Written(r) /\ Removes(r) = {}
       \/ pc[r] = "delete" /\ Removes(r) \subseteq done[r]
    /\ policies' = [s \in Sources |-> IF Holds(r, s) THEN pending[r][s] ELSE policies[s]]
    /\ Become(r, "complete")
    /\ Forget(r)
    /\ done' = [q \in Runs |->
          CASE q = r                        -> {}
            [] q # r /\ pc[q] = "delete"    ->
                  done[q] \union {s \in Removes(q) : pending[r][s] = Absent}
            [] OTHER                        -> done[q]]
    /\ UNCHANGED <<documents, model>>

-----------------------------------------------------------------------------
\* The statement of run r on source s is next, and needs the row.
Needs(r, s) ==
    \/ /\ pc[r] = "write"
       /\ \/ First(Zipped(r) \ done[r], s)
          \/ Embedded(r) /\ First(Normalizes(r) \ done[r], s)
       /\ existing[r][s] = Absent \/ policies[s] # Absent
    \/ pc[r] = "delete" /\ s \in Removes(r) \ done[r]

\* Each run of D can go on only with rows that other runs of D hold.
Deadlocked(D) ==
    \A r \in D :
        /\ \E s \in Sources : Needs(r, s)
        /\ \A s \in Sources : Needs(r, s) => \E q \in D \ {r} : Holds(q, s)

\* The database fails one run of a deadlock.
BreakDeadlock ==
    \E D \in SUBSET Runs \ {{}} : Deadlocked(D) /\ \E r \in D : Fail(r)

\* The model, the connection or the process fails under the run.
Fault(r) == pc[r] \in AtWork /\ Fail(r)

RunStep(r) ==
    \/ Read(r) \/ Embed(r) \/ WriteEmbedded(r) \/ Normalize(r)
    \/ DeleteBegin(r) \/ DeleteRow(r) \/ Commit(r)

SyncNext ==
    \/ \E r \in Runs, m \in Models \union {NoModel}, docs \in Checkouts : Begin(r, m, docs)
    \/ \E r \in Runs : RunStep(r) \/ Fault(r)
    \/ BreakDeadlock

SyncSpec == SyncInit /\ [][SyncNext]_syncVars

\* Runs that do not overlap, which nothing in the script ensures.
Alone == \A q, r \in Runs : pc[q] \in AtWork /\ pc[r] \in AtWork => q = r

SerialSyncSpec == SyncInit /\ [][SyncNext /\ Alone']_syncVars

\* A run goes on whenever it can, and the database looks for deadlocks.
SyncFairness ==
    /\ \A r \in Runs : WF_syncVars(RunStep(r))
    /\ WF_syncVars(BreakDeadlock)

-----------------------------------------------------------------------------
(***************************************************************************)
(* Properties, whatever runs overlap, fail or deadlock.                    *)
(***************************************************************************)

\* The table and the runs' locals hold values of their types; a run that is
\* not in its transaction holds no row, and no row has two holders.
PolicyTypeOK ==
    /\ policies \in [Sources -> Policy \union {Absent}]
    /\ pc \in [Runs -> {"idle"} \union AtWork \union Ended]
    /\ documents \in [Runs -> [Sources -> Contents \union {Absent}]]
    /\ model \in [Runs -> Models \union {NoModel}]
    /\ existing \in [Runs -> [Sources -> KnownPolicy \union {Absent}]]
    /\ embeddings \in [Runs -> Seq([text : Contents, model : Models])]
    /\ done \in [Runs -> SUBSET Sources]
    /\ pending \in [Runs -> [Sources -> Policy \union {Absent, Unchanged}]]
    /\ \A r \in Runs, s \in Sources : Holds(r, s) => pc[r] \in InTransaction /\ ~Taken(r, s)

\* Every row carries the vector of its own text by the model it names: no
\* answer of another length, no overlap and no failure pairs the text of one document
\* or run with the vector of another (:99-127).
RowsAreCoherent == \A s \in Sources : policies[s] # Absent => Coherent(policies[s])

\* What run r makes of source s: its row, or no row.
Image(r, s) ==
    IF documents[r][s] = Absent THEN Absent
    ELSE [id |-> "stable", content |-> documents[r][s],
          embedding |-> Embedding(documents[r][s], model[r]), embedding_model |-> model[r]]

\* No run that has written the table makes anything else of s than r does.
Unopposed(r, s) == \A q \in Runs : pc[q] = "complete" => Image(q, s) = Image(r, s)

Successful(r) == pc[r] \in {"skipped", "complete"}

\* "Company policy seed complete", or "already up to date", is true of every
\* source about which no run that has written disagrees, and stays true: an
\* overlap with runs of the same or of other documents, deadlocks, failures
\* and repeats leave the row, or its absence, that the documents call for.
SuccessIsMirrored ==
    \A r \in Runs, s \in Sources : Successful(r) /\ Unopposed(r, s) => policies[s] = Image(r, s)

\* "Later runs skip unchanged policies" (README.md:19): a run that reads after
\* another of the same documents and model has succeeded neither pays for an
\* embedding nor writes, unless a third has written something else.
LaterRunsSkip ==
    [][\A q, r \in Runs :
          /\ Read(r)
          /\ Successful(q)
          /\ \A s \in Sources : Image(q, s) = Image(r, s) /\ Unopposed(r, s)
          => pc'[r] = "skipped"]_syncVars

\* Every run that has begun ends: two that wait for each other's rows, or for
\* a run that failed, do not wait for ever.
EveryRunEnds == \A r \in Runs : pc[r] # "idle" ~> pc[r] \in Ended

\* "Markdown documents mirrored into company_policies" (README.md:61): once all
\* runs have ended, and at least one successfully, the table is the image of
\* the documents of one of them.
TableMirrorsSomeRun ==
    /\ \A r \in Runs : pc[r] \in Ended
    /\ \E r \in Runs : Successful(r)
    => \E r \in Runs : Successful(r) /\ \A s \in Sources : policies[s] = Image(r, s)
=============================================================================
