---------------------------- MODULE PolicySearch ----------------------------
(***************************************************************************)
(* The search_company_policy tool: PolicyService.search asks the remote    *)
(* model for the embedding of a query and then runs one SELECT on the      *)
(* table that PolicySync's runs are changing.  call_service turns every    *)
(* outcome into a result for the investigating model.                      *)
(*                                                                         *)
(* A similarity is an integer, the model's judgement of two texts; the     *)
(* process embeds with one model, and only rows of that model are          *)
(* compared.                                                               *)
(***************************************************************************)
EXTENDS PolicySync, FiniteSetsExt

CONSTANTS
    Searches,        \* searches at a time, each asked again and again
    Queries,         \* texts of queries
    BlankQuery,      \* a query that is empty once stripped
    SearchRequests,  \* [query, limit, min_score] that searches are called with
    SearchModel,     \* the model the process is configured with
    Similarity,      \* Similarity[text][query]
    MaxLimit         \* documents a search retrieves at most

ASSUME SearchAssumption ==
    /\ SearchRequests # {}
    /\ SearchRequests \subseteq
          [query : Queries \union {BlankQuery}, limit : Int, min_score : Int]
    /\ SearchModel \in Models
    /\ Similarity \in [Contents -> [Queries -> Int]]
    /\ MaxLimit \in Nat \ {0}

VARIABLES
    at,       \* at[k]: where search k is
    request,  \* request[k]: its arguments
    result    \* result[k]: what its tool call returned last

searchVars == <<at, request, result>>
vars == <<syncVars, searchVars>>

PolicyMatch == [source : Sources, content : Contents, score : Int]

Success(data) == [ok |-> TRUE, data |-> data]
Error(code) == [ok |-> FALSE, error |-> code]

IsToolResult(x) ==
    \/ x.ok /\ x.data \in Seq(PolicyMatch) /\ Len(x.data) <= MaxLimit
    \/ ~x.ok /\ x.error \in {"none", "invalid_request", "service_unavailable"}

BoundedLimit_FromBelow(limit) == Max({limit, 1})

BoundedLimit(limit) == Min({Max({limit, 1}), MaxLimit})

\* The WHERE clause; a threshold of 0 or less is none.
Relevant(p, query, min_score) ==
    /\ p # Absent
    /\ p.embedding_model = SearchModel
    /\ min_score > 0 => Similarity[p.embedding.text][query] >= min_score

MatchOf(s, query) ==
    [source |-> s, content |-> policies[s].content,
     score |-> Similarity[policies[s].embedding.text][query]]

\* ORDER BY distance, source: the nearest first.
Nearer_Farther(x, y) == x.score < y.score \/ (x.score = y.score /\ x.source < y.source)

Nearer(x, y) == x.score > y.score \/ (x.score = y.score /\ x.source < y.source)

\* The place of row x of the result, when nothing limits it.
Rank(rows, x) == Cardinality({y \in rows : y = x \/ Nearer(y, x)})

\* The SELECT of PolicyRepository.search.
Candidates(q) ==
    {MatchOf(s, q.query) : s \in {t \in Sources : Relevant(policies[t], q.query, q.min_score)}}

Select(q) ==
    LET rows == Candidates(q)
    IN  [i \in 1..Min({BoundedLimit(q.limit), Cardinality(rows)}) |->
            CHOOSE x \in rows : Rank(rows, x) = i]

-----------------------------------------------------------------------------
NoCall == CHOOSE q \in SearchRequests : TRUE

NoResult == Error("none")

Arrive(k, l) == at' = [at EXCEPT ![k] = l]

\* The arguments live as long as the call, its result until the next call.
Return(k, outcome) ==
    /\ Arrive(k, "idle")
    /\ request' = [request EXCEPT ![k] = NoCall]
    /\ result' = [result EXCEPT ![k] = outcome]

SearchInit ==
    /\ at = [k \in Searches |-> "idle"]
    /\ request = [k \in Searches |-> NoCall]
    /\ result = [k \in Searches |-> NoResult]

SearchBegin(k, q) ==
    /\ at[k] = "idle"
    /\ IF q.query = BlankQuery
       THEN Return(k, Error("invalid_request"))
       ELSE /\ Arrive(k, "embed")
            /\ request' = [request EXCEPT ![k] = q]
            /\ result' = [result EXCEPT ![k] = NoResult]
    /\ UNCHANGED syncVars

SearchEmbed(k) ==
    /\ at[k] = "embed"
    /\ Arrive(k, "select")
    /\ UNCHANGED <<syncVars, request, result>>

SearchSelect(k) ==
    /\ at[k] = "select"
    /\ Return(k, Success(Select(request[k])))
    /\ UNCHANGED syncVars

\* The embedding model or the database fails.
SearchFails(k) ==
    /\ at[k] \in {"embed", "select"}
    /\ Return(k, Error("service_unavailable"))
    /\ UNCHANGED syncVars

SearchStep(k) == SearchEmbed(k) \/ SearchSelect(k) \/ SearchFails(k)

Init == SyncInit /\ SearchInit

Next ==
    \/ SyncNext /\ UNCHANGED searchVars
    \/ \E k \in Searches : SearchStep(k) \/ \E q \in SearchRequests : SearchBegin(k, q)

Spec == Init /\ [][Next]_vars

FairSpec == Spec /\ SyncFairness

-----------------------------------------------------------------------------
\* The searches hold values of their types: arguments while they are under
\* way and a result once they are not, never of more documents than a search
\* may retrieve, whatever limit the investigating model has asked for
\* (policy_service.py:33).
SearchTypeOK ==
    /\ at \in [Searches -> {"idle", "embed", "select"}]
    /\ request \in [Searches -> SearchRequests]
    /\ \A k \in Searches :
          IF at[k] = "idle" THEN request[k] = NoCall /\ IsToolResult(result[k])
                            ELSE result[k] = NoResult

\* What a caller of search may rely on, said of the documents and not of how
\* rows are found: of the texts in the image docs, distinct ones that are
\* relevant, the nearest first, none nearer left out, and as many as allowed.
IsBestOf(found, docs, q) ==
    LET bound == IF q.limit < 1 THEN 1 ELSE IF q.limit > MaxLimit THEN MaxLimit ELSE q.limit
        good == {s \in Sources :
                    docs[s] # Absent
                    /\ (q.min_score > 0 => Similarity[docs[s]][q.query] >= q.min_score)}
        listed == {found[i].source : i \in DOMAIN found}
    IN  /\ Len(found) = IF Cardinality(good) < bound THEN Cardinality(good) ELSE bound
        /\ Cardinality(listed) = Len(found)
        /\ listed \subseteq good
        /\ \A i \in DOMAIN found :
              /\ found[i].content = docs[found[i].source]
              /\ found[i].score = Similarity[found[i].content][q.query]
              /\ \A s \in good \ {found[j].source : j \in 1..i} :
                    LET there == Similarity[docs[s]][q.query]
                    IN  there < found[i].score
                        \/ (there = found[i].score /\ found[i].source < s)

\* The texts the process can compare with a query.
Comparable ==
    [s \in Sources |-> IF policies[s] # Absent /\ policies[s].embedding_model = SearchModel
                       THEN policies[s].content ELSE Absent]

\* Whatever runs are changing the table, a search returns the best of the rows
\* of its model as they are committed at one moment, and each score is that of
\* the very text returned with it.
SearchReturnsTheBest ==
    [][\A k \in Searches :
          SearchSelect(k) => IsBestOf(result'[k].data, Comparable, request[k])]_vars

\* Once a run with the process's model has succeeded and none has written what
\* it disagrees with, the agent is answered from the documents themselves: no
\* run that is still under way, has failed, crashed or was repeated shows.
AgentReadsTheDocuments ==
    [][\A k \in Searches, r \in Runs :
          /\ SearchSelect(k)
          /\ Successful(r) /\ model[r] = SearchModel
          /\ \A s \in Sources : Unopposed(r, s)
          => IsBestOf(result'[k].data, documents[r], request[k])]_vars
=============================================================================
