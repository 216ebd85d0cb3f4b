------------------------- MODULE PolicySearchProofs -------------------------
(* Theorems about PolicySearch: what is proved of runs holds under searches. *)
EXTENDS PolicySearch, PolicySyncProofs

\* Searches read: whatever they are asked and however they fail, the runs go
\* through a behaviour of PolicySync (policy_service.py:24-41 writes nothing).
THEOREM SearchesOnlyRead == Spec => SyncSpec
<1>1. Init => SyncInit
    BY DEF Init
<1>2. [Next]_vars => [SyncNext]_syncVars
    <2> SUFFICES ASSUME [Next]_vars PROVE [SyncNext]_syncVars
        OBVIOUS
    <2>1. CASE SyncNext
        BY <2>1
    <2>2. ASSUME NEW k \in Searches, SearchStep(k) PROVE UNCHANGED syncVars
        BY <2>2, Zenon DEF SearchStep, SearchEmbed, SearchSelect, SearchFails
    <2>3. ASSUME NEW k \in Searches, NEW q \in SearchRequests, SearchBegin(k, q)
          PROVE  UNCHANGED syncVars
        BY <2>3, Zenon DEF SearchBegin
    <2>4. CASE UNCHANGED vars
        BY <2>4, Zenon DEF vars
    <2> QED BY <2>1, <2>2, <2>3, <2>4, Zenon DEF Next
<1> QED BY <1>1, <1>2, PTL DEF Spec, SyncSpec

\* While searches run, what a successful run reported stays true, and every
\* score a search computes belongs to the text of its row.
THEOREM MirroredUnderSearches == Spec => [](SuccessIsMirrored /\ RowsAreCoherent)
BY SearchesOnlyRead, MirroredAfterSuccess, CoherentTable, PTL

-----------------------------------------------------------------------------
(***************************************************************************)
(* The result of a SELECT: rows by rank.                                   *)
(***************************************************************************)
LEMMA SameSize ==
    ASSUME NEW S, NEW T, IsFiniteSet(S), NEW f \in [S -> T],
           \A x, y \in S : f[x] = f[y] => x = y,
           \A z \in T : \E x \in S : f[x] = z
    PROVE  IsFiniteSet(T) /\ Cardinality(T) = Cardinality(S)
<1>1. f \in Injection(S, T) /\ f \in Surjection(S, T)
    BY DEF Injection, IsInjective, Surjection
<1>2. ExistsBijection(S, T)
    BY <1>1 DEF ExistsBijection, Bijection
<1> QED BY <1>2, FS_Bijection

\* Rows that their sources tell apart.
IsRows(rows) ==
    /\ IsFiniteSet(rows)
    /\ \A x \in rows : x.source \in Nat /\ x.score \in Int
    /\ \A x, y \in rows : x.source = y.source => x = y

LEMMA NearerOrder ==
    ASSUME NEW rows, IsRows(rows)
    PROVE  /\ \A x, y \in rows : x = y \/ Nearer(x, y) \/ Nearer(y, x)
           /\ \A x \in rows : ~Nearer(x, x)
           /\ \A x, y, z \in rows : Nearer(x, y) /\ Nearer(y, z) => Nearer(x, z)
BY DEF IsRows, Nearer

LEMMA RankType ==
    ASSUME NEW rows, IsRows(rows), NEW x \in rows
    PROVE  Rank(rows, x) \in 1..Cardinality(rows)
<1> DEFINE upto == {y \in rows : y = x \/ Nearer(y, x)}
<1>1. IsFiniteSet(rows)
    BY DEF IsRows
<1>2. IsFiniteSet(upto) /\ Cardinality(upto) <= Cardinality(rows) /\ x \in upto
    BY <1>1, FS_Subset
<1>3. Cardinality(upto) \in Nat /\ Cardinality(upto) # 0 /\ Cardinality(rows) \in Nat
    BY <1>1, <1>2, FS_CardinalityType, FS_EmptySet
<1> QED BY <1>2, <1>3 DEF Rank

\* A nearer row has a smaller rank.
LEMMA RankOrder ==
    ASSUME NEW rows, IsRows(rows), NEW x \in rows, NEW y \in rows, Nearer(x, y)
    PROVE  Rank(rows, x) < Rank(rows, y)
<1> DEFINE low == {z \in rows : z = x \/ Nearer(z, x)}
           high == {z \in rows : z = y \/ Nearer(z, y)}
<1>1. low \subseteq high /\ y \in high /\ y \notin low
    BY NearerOrder
<1>2. IsFiniteSet(high)
    BY FS_Subset DEF IsRows
<1>3. IsFiniteSet(low) /\ Cardinality(low) < Cardinality(high)
    BY <1>1, <1>2, FS_Subset, FS_CardinalityType
<1> QED BY <1>3 DEF Rank

LEMMA RankUnique ==
    ASSUME NEW rows, IsRows(rows), NEW x \in rows, NEW y \in rows,
           Rank(rows, x) = Rank(rows, y)
    PROVE  x = y
<1> SUFFICES ASSUME x # y PROVE FALSE
    OBVIOUS
<1>1. Nearer(x, y) \/ Nearer(y, x)
    BY NearerOrder
<1>2. Rank(rows, x) < Rank(rows, y) \/ Rank(rows, y) < Rank(rows, x)
    BY <1>1, RankOrder
<1>3. Rank(rows, x) \in Nat /\ Rank(rows, y) \in Nat
    BY RankType
<1> QED BY <1>2, <1>3

\* There is a row of every rank.
Ranked(rows, i) == CHOOSE x \in rows : Rank(rows, x) = i

LEMMA RankedType ==
    ASSUME NEW rows, IsRows(rows), NEW i \in 1..Cardinality(rows)
    PROVE  Ranked(rows, i) \in rows /\ Rank(rows, Ranked(rows, i)) = i
<1> DEFINE n == Cardinality(rows)
           rank == [x \in rows |-> Rank(rows, x)]
<1>1. IsFiniteSet(rows) /\ n \in Nat
    BY FS_CardinalityType DEF IsRows
<1>2. rank \in [rows -> 1..n]
    BY RankType
<1>3. \A x, y \in rows : rank[x] = rank[y] => x = y
    BY RankUnique
<1>4. rank \in Injection(rows, 1..n)
    BY <1>2, <1>3 DEF Injection, IsInjective
<1>5. IsFiniteSet(1..n) /\ Cardinality(1..n) = n
    BY <1>1, FS_Interval
<1>6. rank \in Surjection(rows, 1..n)
    BY <1>4, <1>5, FS_Injection
<1>7. \E x \in rows : Rank(rows, x) = i
    BY <1>6 DEF Surjection
<1> QED BY <1>7 DEF Ranked

-----------------------------------------------------------------------------
(***************************************************************************)
(* A search returns the best of what it can compare.                       *)
(***************************************************************************)
Searchable == [query : Queries, limit : Int, min_score : Int]

\* The sources that answer q, of the texts docs.
Good(docs, q) ==
    {s \in Sources : docs[s] # Absent
                     /\ (q.min_score > 0 => Similarity[docs[s]][q.query] >= q.min_score)}

\* The candidates of a query are the rows of the sources that answer it.
LEMMA CandidatesAreGood ==
    ASSUME SoundInv, NEW q \in Searchable
    PROVE  /\ IsRows(Candidates(q))
           /\ Cardinality(Candidates(q)) = Cardinality(Good(Comparable, q))
           /\ \A s \in Good(Comparable, q) : MatchOf(s, q.query) \in Candidates(q)
           /\ \A x \in Candidates(q) :
                 /\ x.source \in Good(Comparable, q) /\ x = MatchOf(x.source, q.query)
                 /\ x.content = Comparable[x.source]
                 /\ x.score = Similarity[x.content][q.query]
<1> DEFINE good == Good(Comparable, q)
           rows == Candidates(q)
           match == [s \in good |-> MatchOf(s, q.query)]
<1>1. ASSUME NEW s \in Sources
      PROVE  s \in good <=> Relevant(policies[s], q.query, q.min_score)
    <2>1. CASE policies[s] # Absent /\ policies[s].embedding_model = SearchModel
        <3>1. Coherent(policies[s]) /\ policies[s] \in Policy
            BY <2>1 DEF SoundInv, PolicyTypeOK, RowsAreCoherent
        <3>2. policies[s].embedding.text = policies[s].content
            BY <3>1 DEF Coherent, Embedding
        <3>3. Comparable[s] = policies[s].content /\ policies[s].content # Absent
            BY <2>1, <3>1, NamesAssumption DEF Comparable, Policy
        <3> QED BY <2>1, <3>2, <3>3 DEF Good, Relevant
    <2>2. CASE ~(policies[s] # Absent /\ policies[s].embedding_model = SearchModel)
        BY <2>2 DEF Good, Comparable, Relevant
    <2> QED BY <2>1, <2>2
<1>2. good \subseteq Sources
    BY DEF Good
<1>3. rows = {MatchOf(s, q.query) : s \in good}
    BY <1>1, <1>2 DEF Candidates
<1>4. ASSUME NEW s \in good
      PROVE  /\ MatchOf(s, q.query).source = s
             /\ MatchOf(s, q.query).content = Comparable[s]
             /\ MatchOf(s, q.query).score = Similarity[Comparable[s]][q.query]
             /\ Similarity[Comparable[s]][q.query] \in Int
             /\ s \in Nat
    <2>1. policies[s] # Absent /\ policies[s].embedding_model = SearchModel /\ s \in Sources
        BY <1>1, <1>2 DEF Relevant
    <2>2. Coherent(policies[s]) /\ policies[s] \in Policy
        BY <2>1 DEF SoundInv, PolicyTypeOK, RowsAreCoherent
    <2>3. policies[s].embedding.text = policies[s].content /\ policies[s].content \in Contents
        BY <2>2 DEF Coherent, Embedding, Policy
    <2>4. Comparable[s] = policies[s].content
        BY <2>1 DEF Comparable
    <2>5. Similarity[policies[s].content][q.query] \in Int
        BY <2>3, SearchAssumption DEF Searchable
    <2> QED BY <2>1, <2>3, <2>4, <2>5, SourcesAssumption DEF MatchOf
<1> HIDE DEF good, rows
<1>5. IsFiniteSet(good)
    BY <1>2, SourcesAssumption, FS_Subset
<1>6. match \in [good -> rows] /\ \A s \in good : match[s] = MatchOf(s, q.query)
    BY <1>3
<1>7. \A s, t \in good : match[s] = match[t] => s = t
    BY <1>4, <1>6
<1>8. \A x \in rows : \E s \in good : match[s] = x
    BY <1>3
<1>9. IsFiniteSet(rows) /\ Cardinality(rows) = Cardinality(good)
    <2> HIDE DEF match
    <2> QED BY <1>5, <1>6, <1>7, <1>8, SameSize
<1>10. \A x \in rows :
          /\ x.source \in good /\ x = MatchOf(x.source, q.query)
          /\ x.content = Comparable[x.source]
          /\ x.score = Similarity[x.content][q.query]
          /\ x.source \in Nat /\ x.score \in Int
    BY <1>3, <1>4
<1>11. IsRows(rows)
    BY <1>9, <1>10 DEF IsRows
<1>12. \A s \in good : MatchOf(s, q.query) \in rows
    BY <1>3
<1> QED BY <1>9, <1>10, <1>11, <1>12 DEF good, rows

\* How many rows a search returns.
LEMMA LimitIs ==
    ASSUME NEW limit \in Int, NEW n \in Nat
    PROVE  LET bound == IF limit < 1 THEN 1 ELSE IF limit > MaxLimit THEN MaxLimit ELSE limit
           IN  /\ Min({BoundedLimit(limit), n}) = IF n < bound THEN n ELSE bound
               /\ Min({BoundedLimit(limit), n}) \in 0..n
               /\ Min({BoundedLimit(limit), n}) <= MaxLimit
<1>1. MaxLimit \in Nat \ {0}
    BY SearchAssumption
<1>2. \A a, b \in Int : Max({a, b}) = IF a >= b THEN a ELSE b
    BY DEF Max
<1>3. \A a, b \in Int : Min({a, b}) = IF a <= b THEN a ELSE b
    BY DEF Min
<1>4. Max({limit, 1}) = IF limit >= 1 THEN limit ELSE 1
    BY <1>2
<1>5. BoundedLimit(limit) = IF Max({limit, 1}) <= MaxLimit THEN Max({limit, 1}) ELSE MaxLimit
    BY <1>1, <1>3, <1>4 DEF BoundedLimit
<1>6. BoundedLimit(limit) \in Nat \ {0}
    BY <1>1, <1>4, <1>5
<1>7. Min({BoundedLimit(limit), n}) = IF BoundedLimit(limit) <= n THEN BoundedLimit(limit) ELSE n
    BY <1>3, <1>6
<1> QED BY <1>1, <1>4, <1>5, <1>6, <1>7

LEMMA SelectIsBest ==
    ASSUME SoundInv, NEW q \in Searchable
    PROVE  IsBestOf(Select(q), Comparable, q)
<1> DEFINE rows == Candidates(q)
           n == Cardinality(rows)
           len == Min({BoundedLimit(q.limit), n})
           found == Select(q)
           good == Good(Comparable, q)
           listed == {found[i].source : i \in DOMAIN found}
           bound == IF q.limit < 1 THEN 1 ELSE IF q.limit > MaxLimit THEN MaxLimit ELSE q.limit
           source == [i \in 1..len |-> found[i].source]
<1>1. /\ IsRows(rows) /\ n = Cardinality(good)
      /\ \A s \in good : MatchOf(s, q.query) \in rows
      /\ \A x \in rows : /\ x.source \in good /\ x = MatchOf(x.source, q.query)
                         /\ x.content = Comparable[x.source]
                         /\ x.score = Similarity[x.content][q.query]
    BY CandidatesAreGood
<1>2. found = [i \in 1..len |-> Ranked(rows, i)]
    BY DEF Select, Ranked
<1> HIDE DEF rows, good, found
<1>3. n \in Nat
    BY <1>1, FS_CardinalityType DEF IsRows
<1> HIDE DEF n
<1>4. len = (IF n < bound THEN n ELSE bound) /\ len \in 0..n
    BY <1>3, LimitIs DEF Searchable
<1> HIDE DEF len
<1>5. DOMAIN found = 1..len /\ Len(found) = len
    BY <1>2, <1>3, <1>4
<1>6. \A i \in 1..len : found[i] \in rows /\ Rank(rows, found[i]) = i
    BY <1>1, <1>2, <1>3, <1>4, RankedType DEF n
<1>7. listed \subseteq good
    BY <1>1, <1>5, <1>6
<1>8. Cardinality(listed) = len
    <2>1. source \in [1..len -> listed]
        BY <1>5
    <2>2. \A i, j \in 1..len : source[i] = source[j] => i = j
        BY <1>1, <1>6 DEF IsRows
    <2>3. \A s \in listed : \E i \in 1..len : source[i] = s
        BY <1>5
    <2>4. IsFiniteSet(1..len) /\ Cardinality(1..len) = len
        <3>1. len \in Nat
            BY <1>3, <1>4
        <3>2. /\ IsFiniteSet(1..len)
              /\ Cardinality(1..len) = IF 1 > len THEN 0 ELSE len - 1 + 1
            BY <3>1, FS_Interval
        <3> QED BY <3>1, <3>2
    <2> HIDE DEF source, listed
    <2> QED BY <2>1, <2>2, <2>3, <2>4, SameSize
<1>9. ASSUME NEW i \in 1..len
      PROVE  /\ found[i].content = Comparable[found[i].source]
             /\ found[i].score = Similarity[found[i].content][q.query]
    BY <1>1, <1>6
<1>10. ASSUME NEW i \in 1..len, NEW s \in good \ {found[j].source : j \in 1..i}
       PROVE  \/ Similarity[Comparable[s]][q.query] < found[i].score
              \/ Similarity[Comparable[s]][q.query] = found[i].score /\ found[i].source < s
    <2> DEFINE x == MatchOf(s, q.query)
               k == Rank(rows, x)
    <2>1. x \in rows /\ x.source = s
        BY <1>1 DEF MatchOf
    <2>2. x.score = Similarity[Comparable[s]][q.query]
        BY <1>1, <2>1
    <2> HIDE DEF x
    <2>3. k \in 1..n
        BY <1>1, <2>1, RankType DEF n
    <2> HIDE DEF k
    <2>4. k > i
        <3> SUFFICES ASSUME k \in 1..i PROVE FALSE
            BY <1>3, <1>4, <2>3
        <3>1. k \in 1..len
            BY <1>3, <1>4
        <3>2. found[k] = x
            BY <1>1, <1>6, <2>1, <3>1, RankUnique DEF k
        <3> QED BY <2>1, <3>2
    <2>5. found[i] \in rows /\ Rank(rows, found[i]) = i
        BY <1>6
    <2>6. ~Nearer(x, found[i])
        <3> SUFFICES ASSUME Nearer(x, found[i]) PROVE FALSE
            OBVIOUS
        <3>1. Rank(rows, x) < Rank(rows, found[i])
            BY <1>1, <2>1, <2>5, RankOrder
        <3> QED BY <1>3, <1>4, <2>3, <2>4, <2>5, <3>1 DEF k
    <2>7. x # found[i]
        BY <1>3, <1>4, <2>3, <2>4, <2>5 DEF k
    <2>8. Nearer(found[i], x)
        BY <1>1, <2>1, <2>5, <2>6, <2>7, NearerOrder
    <2>9. /\ found[i].source \in Nat /\ found[i].score \in Int
          /\ x.source \in Nat /\ x.score \in Int
        BY <1>1, <2>1, <2>5 DEF IsRows
    <2> QED BY <2>1, <2>2, <2>8, <2>9 DEF Nearer
<1>11. /\ Len(found) = IF Cardinality(good) < bound THEN Cardinality(good) ELSE bound
       /\ Cardinality(listed) = Len(found)
    BY <1>1, <1>4, <1>5, <1>8
<1>12. IsBestOf(found, Comparable, q)
    <2> HIDE DEF listed, bound
    <2> QED BY <1>5, <1>7, <1>9, <1>10, <1>11 DEF IsBestOf, good, Good, listed, bound
<1> QED BY <1>12 DEF found

-----------------------------------------------------------------------------
(***************************************************************************)
(* The properties of the search.                                           *)
(***************************************************************************)
\* A search that is under way has a query, and nothing else has a result.
Asking(k) ==
    /\ at[k] \in {"idle", "embed", "select"} /\ request[k] \in SearchRequests
    /\ IF at[k] = "idle" THEN request[k] = NoCall /\ IsToolResult(result[k])
                         ELSE result[k] = NoResult /\ request[k].query # BlankQuery

SearchInv ==
    /\ SoundInv
    /\ at \in [Searches -> {"idle", "embed", "select"}]
    /\ request \in [Searches -> SearchRequests]
    /\ result = [k \in Searches |-> result[k]]
    /\ \A k \in Searches : Asking(k)

LEMMA NoCallType == NoCall \in SearchRequests
BY SearchAssumption DEF NoCall

LEMMA ErrorType ==
    ASSUME NEW code \in {"none", "invalid_request", "service_unavailable"}
    PROVE  IsToolResult(Error(code))
BY DEF IsToolResult, Error

LEMMA QueryType ==
    ASSUME NEW q \in SearchRequests, q.query # BlankQuery
    PROVE  q \in Searchable
BY SearchAssumption DEF Searchable

\* The rows a search returns are of their type.
LEMMA SelectType ==
    ASSUME SoundInv, NEW q \in Searchable
    PROVE  IsToolResult(Success(Select(q)))
<1> DEFINE rows == Candidates(q)
           n == Cardinality(rows)
           len == Min({BoundedLimit(q.limit), n})
<1>1. IsRows(rows) /\ \A x \in rows : x \in PolicyMatch
    <2> SUFFICES ASSUME NEW x \in rows PROVE x \in PolicyMatch
        BY CandidatesAreGood
    <2>1. /\ x = MatchOf(x.source, q.query) /\ x.source \in Good(Comparable, q)
          /\ x.source \in Nat /\ x.score \in Int /\ x.content = Comparable[x.source]
        BY CandidatesAreGood DEF IsRows
    <2>2. x.source \in Sources /\ Comparable[x.source] # Absent
        BY <2>1 DEF Good
    <2>3. x.content \in Contents
        BY <2>1, <2>2 DEF Comparable, SoundInv, PolicyTypeOK, Policy
    <2>4. x = [source |-> x.source, content |-> x.content, score |-> x.score]
        BY <2>1 DEF MatchOf
    <2> QED BY <2>1, <2>2, <2>3, <2>4 DEF PolicyMatch
<1>2. Select(q) = [i \in 1..len |-> Ranked(rows, i)]
    BY DEF Select, Ranked
<1> HIDE DEF rows
<1>3. n \in Nat
    BY <1>1, FS_CardinalityType DEF IsRows
<1>4. len \in 0..n /\ len <= MaxLimit
    BY <1>3, LimitIs DEF Searchable
<1> HIDE DEF len
<1>5. \A i \in 1..len : Ranked(rows, i) \in PolicyMatch
    BY <1>1, <1>3, <1>4, RankedType
<1>6. Select(q) \in [1..len -> PolicyMatch] /\ len \in Nat
    BY <1>2, <1>3, <1>4, <1>5
<1>7. Select(q) \in Seq(PolicyMatch) /\ Len(Select(q)) <= MaxLimit
    BY <1>4, <1>6
<1> QED BY <1>7 DEF IsToolResult, Success

LEMMA SearchInvInit == Init => SearchInv
<1> SUFFICES ASSUME Init PROVE SearchInv
    OBVIOUS
<1>1. SoundInv
    BY SoundInit DEF Init
<1>2. /\ at = [k \in Searches |-> "idle"] /\ request = [k \in Searches |-> NoCall]
      /\ result = [k \in Searches |-> NoResult]
    BY DEF Init, SearchInit
<1>3. IsToolResult(NoResult)
    BY ErrorType DEF NoResult
<1> QED BY <1>1, <1>2, <1>3, NoCallType DEF SearchInv, Asking

\* Only search k moves, and ends in what Asking allows.
LEMMA SearchMoves ==
    ASSUME SearchInv, NEW k \in Searches, UNCHANGED syncVars,
           NEW l \in {"idle", "embed", "select"}, NEW q \in SearchRequests, NEW x,
           at' = [at EXCEPT ![k] = l], request' = [request EXCEPT ![k] = q],
           result' = [result EXCEPT ![k] = x],
           IF l = "idle" THEN q = NoCall /\ IsToolResult(x)
                         ELSE x = NoResult /\ q.query # BlankQuery
    PROVE  SearchInv'
<1>1. SoundInv'
    BY SoundNext DEF SearchInv
<1>2. /\ at' \in [Searches -> {"idle", "embed", "select"}]
      /\ request' \in [Searches -> SearchRequests]
      /\ result' = [j \in Searches |-> result'[j]]
    BY DEF SearchInv
<1>3. at'[k] = l /\ request'[k] = q /\ result'[k] = x
    BY DEF SearchInv
<1>4. \A j \in Searches \ {k} :
          at'[j] = at[j] /\ request'[j] = request[j] /\ result'[j] = result[j]
    BY DEF SearchInv
<1>5. Asking(k)'
    BY <1>3 DEF Asking, NoCall, NoResult, IsToolResult
<1>6. \A j \in Searches \ {k} : Asking(j)'
    BY <1>4 DEF SearchInv, Asking, NoCall, NoResult, IsToolResult
<1> QED BY <1>1, <1>2, <1>5, <1>6 DEF SearchInv

LEMMA SearchInvNext == SearchInv /\ [Next]_vars => SearchInv'
<1> SUFFICES ASSUME SearchInv, [Next]_vars PROVE SearchInv'
    OBVIOUS
<1>1. CASE [SyncNext]_syncVars /\ UNCHANGED searchVars
    <2>1. SoundInv'
        BY <1>1, SoundNext DEF SearchInv
    <2>2. at' = at /\ request' = request /\ result' = result
        BY <1>1 DEF searchVars
    <2> QED BY <2>1, <2>2 DEF SearchInv, Asking, NoCall, NoResult, IsToolResult
<1>2. ASSUME NEW k \in Searches, SearchEmbed(k) PROVE SearchInv'
    <2>1. /\ at' = [at EXCEPT ![k] = "select"] /\ request' = request /\ result' = result
          /\ UNCHANGED syncVars /\ at[k] = "embed"
        BY <1>2, Zenon DEF SearchEmbed, Arrive
    <2>2. /\ request' = [request EXCEPT ![k] = request[k]]
          /\ result' = [result EXCEPT ![k] = result[k]]
        BY <2>1 DEF SearchInv
    <2>3. request[k] \in SearchRequests /\ result[k] = NoResult /\ request[k].query # BlankQuery
        BY <2>1 DEF SearchInv, Asking
    <2> QED BY <2>1, <2>2, <2>3, SearchMoves
<1>3. ASSUME NEW k \in Searches, NEW x, Return(k, x), IsToolResult(x), UNCHANGED syncVars
      PROVE  SearchInv'
    BY <1>3, NoCallType, SearchMoves DEF Return, Arrive
<1>4. ASSUME NEW k \in Searches, SearchSelect(k) PROVE SearchInv'
    <2>1. /\ at[k] = "select" /\ Return(k, Success(Select(request[k])))
          /\ UNCHANGED syncVars
        BY <1>4, Zenon DEF SearchSelect
    <2>2. request[k] \in Searchable /\ SoundInv
        BY <2>1, QueryType DEF SearchInv, Asking
    <2> QED BY <1>3, <2>1, <2>2, SelectType
<1>5. ASSUME NEW k \in Searches, SearchFails(k) PROVE SearchInv'
    <2>1. Return(k, Error("service_unavailable")) /\ UNCHANGED syncVars
        BY <1>5, Zenon DEF SearchFails
    <2> QED BY <1>3, <2>1, ErrorType
<1>6. ASSUME NEW k \in Searches, NEW q \in SearchRequests, SearchBegin(k, q) PROVE SearchInv'
    <2>1. UNCHANGED syncVars
        BY <1>6, Zenon DEF SearchBegin
    <2>2. CASE q.query = BlankQuery
        <3>1. Return(k, Error("invalid_request"))
            BY <1>6, <2>2, Zenon DEF SearchBegin
        <3> QED BY <1>3, <2>1, <3>1, ErrorType
    <2>3. CASE q.query # BlankQuery
        <3>1. /\ at' = [at EXCEPT ![k] = "embed"] /\ request' = [request EXCEPT ![k] = q]
              /\ result' = [result EXCEPT ![k] = NoResult]
            BY <1>6, <2>3, Zenon DEF SearchBegin, Arrive
        <3> QED BY <2>1, <2>3, <3>1, SearchMoves
    <2> QED BY <2>2, <2>3
<1>7. CASE UNCHANGED vars
    BY <1>1, <1>7, Zenon DEF vars
<1> QED BY <1>1, <1>2, <1>4, <1>5, <1>6, <1>7, Zenon DEF Next, SearchStep

LEMMA SearchAlways == Spec => []SearchInv
BY SearchInvInit, SearchInvNext, PTL DEF Spec

\* A search has arguments while it is under way and a result of the tool's type
\* once it is not, of no more documents than may be retrieved, for any limit.
THEOREM SearchTypeCorrect == Spec => []SearchTypeOK
<1>1. SearchInv => SearchTypeOK
    BY DEF SearchInv, Asking, SearchTypeOK
<1> QED BY <1>1, SearchAlways, PTL

\* A search returns the best of the comparable rows committed at one moment,
\* for every table, similarity, limit and threshold (policy_service.py:33-41,
\* policy_repository.py:35-56).
THEOREM BestIsReturned == Spec => SearchReturnsTheBest
<1>1. ASSUME SearchInv, NEW k \in Searches, SearchSelect(k)
      PROVE  IsBestOf(result'[k].data, Comparable, request[k])
    <2>1. /\ at[k] = "select" /\ result' = [result EXCEPT ![k] = Success(Select(request[k]))]
        BY <1>1, Zenon DEF SearchSelect, Return
    <2>2. result'[k].data = Select(request[k])
        BY <1>1, <2>1 DEF SearchInv, Success
    <2>3. request[k] \in Searchable /\ SoundInv
        BY <1>1, <2>1, QueryType DEF SearchInv, Asking
    <2> QED BY <2>2, <2>3, SelectIsBest
<1>2. SearchInv => [\A k \in Searches :
          SearchSelect(k) => IsBestOf(result'[k].data, Comparable, request[k])]_vars
    BY <1>1
<1> QED BY <1>2, SearchAlways, PTL DEF SearchReturnsTheBest

\* After a successful run with the process's model the agent is answered from
\* the documents of that run, whatever else is under way, has failed or was
\* repeated.
THEOREM DocumentsAreRead == Spec => AgentReadsTheDocuments
<1>1. ASSUME SearchInv, MirrorInv, NEW k \in Searches, NEW r \in Runs, SearchSelect(k),
             Successful(r), model[r] = SearchModel, \A s \in Sources : Unopposed(r, s)
      PROVE  IsBestOf(result'[k].data, documents[r], request[k])
    <2>1. /\ at[k] = "select" /\ result' = [result EXCEPT ![k] = Success(Select(request[k]))]
        BY <1>1, Zenon DEF SearchSelect, Return
    <2>2. result'[k].data = Select(request[k])
        BY <1>1, <2>1 DEF SearchInv, Success
    <2>3. request[k] \in Searchable /\ SoundInv
        BY <1>1, <2>1, QueryType DEF SearchInv, Asking
    <2>4. IsBestOf(result'[k].data, Comparable, request[k])
        BY <2>2, <2>3, SelectIsBest
    <2>5. Comparable = documents[r]
        <3>1. documents[r] \in [Sources -> Contents \union {Absent}]
            BY <2>3 DEF SoundInv, PolicyTypeOK
        <3>2. ASSUME NEW s \in Sources PROVE Comparable[s] = documents[r][s]
            <4>1. policies[s] = Image(r, s)
                BY <1>1 DEF MirrorInv, Facts
            <4>2. model[r] \in Models
                BY <1>1, SearchAssumption
            <4> QED BY <1>1, <2>3, <4>1, <4>2, ImageType DEF Comparable, Image
        <3>3. DOMAIN Comparable = Sources
            BY DEF Comparable
        <3>4. Comparable = [s \in Sources |-> Comparable[s]]
            BY DEF Comparable
        <3> QED BY <3>1, <3>2, <3>4
    <2> QED BY <2>4, <2>5
<1>2. SearchInv /\ MirrorInv => [\A k \in Searches, r \in Runs :
          /\ SearchSelect(k)
          /\ Successful(r) /\ model[r] = SearchModel
          /\ \A s \in Sources : Unopposed(r, s)
          => IsBestOf(result'[k].data, documents[r], request[k])]_vars
    BY <1>1
<1> QED BY <1>2, SearchAlways, SearchesOnlyRead, MirrorAlways, PTL DEF AgentReadsTheDocuments
=============================================================================
